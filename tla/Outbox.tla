------------------------------ MODULE Outbox ------------------------------
(***************************************************************************)
(* The outbox relay: the outbox table (internal/repository/postgres/       *)
(* outbox.go), the workers that poll it (internal/outbox/runner.go), the   *)
(* handler they dispatch to (internal/outbox/handler.go) and its retry     *)
(* loop (internal/obs/retry/retrier.go).                                   *)
(*                                                                         *)
(* Several processes run the relay against one table.  A worker takes a    *)
(* lease on a batch of rows (status IN_PROGRESS, updated_at = now()),      *)
(* publishes them one by one, and closes the ones it published with one    *)
(* UPDATE at the end.  Nothing ties a lease to its holder: after           *)
(* inProgressTTL the row can be picked again while the first worker still  *)
(* works on it, and either of them may close it.                           *)
(*                                                                         *)
(* Time is relative: age[k] is the time since updated_at of an IN_PROGRESS *)
(* row and held[w] the time since now() of the transaction in which w took *)
(* its batch; both saturate just above the TTL, past which nothing in the  *)
(* code tells two instants apart.                                          *)
(***************************************************************************)
EXTENDS Naturals, FiniteSets

CONSTANTS Keys,         \* idempotency keys; their order is created_at's
          Unsupported,  \* keys of rows whose kind has no handler
          Processes,    \* processes that run the relay
          Slots,        \* workers of one process
          BatchSize,    \* LIMIT of the pick query
          TTL,          \* inProgressTTL
          Attempts,     \* retry.Policy.Attempts
          MaxFaults     \* bound on faults of the database, Kafka, processes

ASSUME KeysAssumption == Keys \subseteq Nat \ {0} /\ IsFiniteSet(Keys)
ASSUME UnsupportedAssumption == Unsupported \subseteq Keys
ASSUME BoundsAssumption ==
  /\ BatchSize \in Nat \ {0}
  /\ TTL \in Nat
  /\ Attempts \in Nat
  /\ MaxFaults \in Nat

Workers == Processes \X Slots

NoKey == 0

\* A policy with no attempts makes one.
RetryAttempts == IF Attempts = 0 THEN 1 ELSE Attempts

VARIABLES
  status,     \* status[k]: "NONE" before Enqueue, else the row's status
  age,        \* age[k]: time since updated_at, kept while IN_PROGRESS
  published,  \* published[k]: publications that reached Kafka (2: or more)
  pc,         \* pc[w]: where worker w is in its loop
  batch,      \* batch[w]: rows w locks (picking), or has still to dispatch
  cur,        \* cur[w]: the row whose handler w runs, or NoKey
  tries,      \* tries[w]: failed attempts of that handler
  okKeys,     \* okKeys[w]: rows of the batch that w published
  held,       \* held[w]: time since w's pick transaction began
  faults,     \* faults so far
  repicked,   \* history: rows leased again after their lease ran out
  ackLost     \* history: rows written to Kafka by a call that failed

tableVars  == <<status, age>>
workerVars == <<pc, batch, cur, tries, okKeys, held>>
historyVars == <<repicked, ackLost>>
vars == <<status, age, published, pc, batch, cur, tries, okKeys, held,
          faults, repicked, ackLost>>

Init ==
  /\ status = [k \in Keys |-> "NONE"]
  /\ age = [k \in Keys |-> 0]
  /\ published = [k \in Keys |-> 0]
  /\ pc = [w \in Workers |-> "idle"]
  /\ batch = [w \in Workers |-> {}]
  /\ cur = [w \in Workers |-> NoKey]
  /\ tries = [w \in Workers |-> 0]
  /\ okKeys = [w \in Workers |-> {}]
  /\ held = [w \in Workers |-> 0]
  /\ faults = 0
  /\ repicked = {}
  /\ ackLost = {}

Fault == faults < MaxFaults /\ faults' = faults + 1

-----------------------------------------------------------------------------
\* Storing rows.

\* Mutant: ON CONFLICT DO UPDATE SET status = 'CREATED'.
EnqueueUpserts(k) ==
  /\ status' = [status EXCEPT ![k] = "CREATED"]
  /\ UNCHANGED <<age, published, workerVars, faults, historyVars>>

\* Commit of a transaction that inserted row k: a key that is already there
\* is left alone (ON CONFLICT DO NOTHING).
Enqueue(k) ==
  /\ status' = [status EXCEPT ![k] = IF @ = "NONE" THEN "CREATED" ELSE @]
  /\ UNCHANGED <<age, published, workerVars, faults, historyVars>>

-----------------------------------------------------------------------------
\* PickBatch: one transaction that locks, updates and returns a batch.

\* Mutant: updated_at <= now() - ttl.
ExpiredAtTTL(k) == age[k] >= TTL

\* Mutant: rows in progress are never reclaimed.
NeverExpired(k) == FALSE

Expired(k) == age[k] > TTL

\* Mutant: the pick query does not leave closed rows out.
PickableClosed(k) == status[k] # "NONE" /\ (status[k] = "IN_PROGRESS" => Expired(k))

Pickable(k) ==
  \/ status[k] = "CREATED"
  \/ status[k] = "IN_PROGRESS" /\ Expired(k)

Locked(k) == \E w \in Workers : pc[w] = "picking" /\ k \in batch[w]

\* ORDER BY created_at LIMIT n.
Oldest(S, n) == {k \in S : Cardinality({j \in S : j < k}) < n}

\* The pick query has run: the candidates are locked (FOR UPDATE SKIP LOCKED)
\* and their new versions written, not yet committed.  An empty batch too.
PickLock(w) ==
  /\ pc[w] = "idle"
  /\ pc' = [pc EXCEPT ![w] = "picking"]
  /\ batch' = [batch EXCEPT ![w] =
                 Oldest({k \in Keys : Pickable(k) /\ ~Locked(k)}, BatchSize)]
  /\ held' = [held EXCEPT ![w] = 0]
  /\ UNCHANGED <<tableVars, published, cur, tries, okKeys, faults, historyVars>>

\* What the commit of w's pick transaction makes visible.  updated_at is the
\* time at which the transaction began.
Leased(w) ==
  /\ status' = [k \in Keys |-> IF k \in batch[w] THEN "IN_PROGRESS" ELSE status[k]]
  /\ age' = [k \in Keys |-> IF k \in batch[w] THEN held[w] ELSE age[k]]
  /\ repicked' = repicked \cup {k \in batch[w] : status[k] = "IN_PROGRESS"}

PickCommit(w) ==
  /\ pc[w] = "picking"
  /\ Leased(w)
  /\ pc' = [pc EXCEPT ![w] = "dispatch"]
  /\ UNCHANGED <<published, batch, cur, tries, okKeys, held, faults, ackLost>>

\* The worker's view of an iteration that is over.
ToIdle(w) ==
  /\ pc' = [pc EXCEPT ![w] = "idle"]
  /\ batch' = [batch EXCEPT ![w] = {}]
  /\ okKeys' = [okKeys EXCEPT ![w] = {}]
  /\ held' = [held EXCEPT ![w] = 0]
  /\ UNCHANGED <<cur, tries>>

\* The query, a scan or the commit failed and the transaction rolled back.
PickRollback(w) ==
  /\ pc[w] = "picking"
  /\ Fault
  /\ ToIdle(w)
  /\ UNCHANGED <<tableVars, published, historyVars>>

\* The commit took effect and its answer was lost: PickBatch returns an
\* error, and the rows stay leased to nobody.
PickCommitLost(w) ==
  /\ pc[w] = "picking"
  /\ Fault
  /\ Leased(w)
  /\ ToIdle(w)
  /\ UNCHANGED <<published, ackLost>>

-----------------------------------------------------------------------------
\* The loop over the picked messages.

\* The dispatcher has no handler for the row's kind: it is passed over.
SkipUnsupported(w) ==
  /\ pc[w] = "dispatch"
  /\ \E k \in batch[w] \cap Unsupported :
       batch' = [batch EXCEPT ![w] = @ \ {k}]
  /\ UNCHANGED <<tableVars, published, pc, cur, tries, okKeys, held, faults,
                 historyVars>>

\* The handler of the next row starts.  RETURNING promises no order.
Dispatch(w) ==
  /\ pc[w] = "dispatch"
  /\ \E k \in batch[w] \ Unsupported :
       /\ cur' = [cur EXCEPT ![w] = k]
       /\ batch' = [batch EXCEPT ![w] = @ \ {k}]
  /\ tries' = [tries EXCEPT ![w] = 0]
  /\ pc' = [pc EXCEPT ![w] = "publish"]
  /\ UNCHANGED <<tableVars, published, okKeys, held, faults, historyVars>>

\* One more copy of k in the topic; two stands for two or more.
Written(k) == published' = [published EXCEPT ![k] = IF @ = 0 THEN 1 ELSE 2]

HandlerReturns(w) ==
  /\ cur' = [cur EXCEPT ![w] = NoKey]
  /\ tries' = [tries EXCEPT ![w] = 0]
  /\ pc' = [pc EXCEPT ![w] = "dispatch"]

PublishOk(w) ==
  /\ pc[w] = "publish"
  /\ Written(cur[w])
  /\ okKeys' = [okKeys EXCEPT ![w] = @ \cup {cur[w]}]
  /\ HandlerReturns(w)
  /\ UNCHANGED <<tableVars, batch, held, faults, historyVars>>

\* Mutant: one attempt too many.
LastAttemptLate(w) == tries[w] = RetryAttempts

LastAttempt(w) == tries[w] = RetryAttempts - 1

\* Mutant: a row whose retries ran out is closed with the others.
AttemptFailedCloses(w) ==
  \/ /\ ~LastAttempt(w)
     /\ tries' = [tries EXCEPT ![w] = @ + 1]
     /\ UNCHANGED <<pc, cur, okKeys>>
  \/ /\ LastAttempt(w)
     /\ HandlerReturns(w)
     /\ okKeys' = [okKeys EXCEPT ![w] = @ \cup {cur[w]}]

\* retry.Do after a failed attempt: again, or give the row up (it stays
\* IN_PROGRESS until its TTL).
AttemptFailed(w) ==
  \/ /\ ~LastAttempt(w)
     /\ tries' = [tries EXCEPT ![w] = @ + 1]
     /\ UNCHANGED <<pc, cur, okKeys>>
  \/ /\ LastAttempt(w)
     /\ HandlerReturns(w)
     /\ UNCHANGED okKeys

\* An attempt failed and nothing was written.
PublishErr(w) ==
  /\ pc[w] = "publish"
  /\ Fault
  /\ AttemptFailed(w)
  /\ UNCHANGED <<tableVars, published, batch, held, historyVars>>

\* The broker wrote the message and the acknowledgement was lost.
PublishAckLost(w) ==
  /\ pc[w] = "publish"
  /\ Fault
  /\ Written(cur[w])
  /\ ackLost' = ackLost \cup {cur[w]}
  /\ AttemptFailed(w)
  /\ UNCHANGED <<tableVars, batch, held, repicked>>

-----------------------------------------------------------------------------
\* MarkSuccess.

BatchDone(w) == pc[w] = "dispatch" /\ batch[w] = {}

\* The UPDATE waits for rows that another transaction is picking, then closes
\* whatever is IN_PROGRESS, whoever holds the lease.  No rows: no statement.
MarkSuccess(w) ==
  /\ BatchDone(w)
  /\ \A k \in okKeys[w] : ~Locked(k)
  /\ status' = [k \in Keys |->
                  IF k \in okKeys[w] /\ status[k] = "IN_PROGRESS"
                  THEN "SUCCESS" ELSE status[k]]
  /\ age' = [k \in Keys |->
               IF k \in okKeys[w] /\ status[k] = "IN_PROGRESS"
               THEN 0 ELSE age[k]]
  /\ ToIdle(w)
  /\ UNCHANGED <<published, faults, historyVars>>

\* The statement failed, or its context was cancelled at shutdown.
MarkFail(w) ==
  /\ BatchDone(w)
  /\ okKeys[w] # {}
  /\ Fault
  /\ ToIdle(w)
  /\ UNCHANGED <<tableVars, published, historyVars>>

-----------------------------------------------------------------------------
\* A process dies (main does not wait for the workers) and is restarted: its
\* transactions roll back, its batches are forgotten, its leases stay.
Crash(p) ==
  LET Dead == {w \in Workers : w[1] = p}
  IN /\ Fault
     /\ pc' = [w \in Workers |-> IF w \in Dead THEN "idle" ELSE pc[w]]
     /\ batch' = [w \in Workers |-> IF w \in Dead THEN {} ELSE batch[w]]
     /\ cur' = [w \in Workers |-> IF w \in Dead THEN NoKey ELSE cur[w]]
     /\ tries' = [w \in Workers |-> IF w \in Dead THEN 0 ELSE tries[w]]
     /\ okKeys' = [w \in Workers |-> IF w \in Dead THEN {} ELSE okKeys[w]]
     /\ held' = [w \in Workers |-> IF w \in Dead THEN 0 ELSE held[w]]
     /\ UNCHANGED <<tableVars, published, historyVars>>

Older(t) == IF t > TTL THEN t ELSE t + 1

\* Time passes, for every lease and every holder alike.
Tick ==
  /\ age' = [k \in Keys |->
               IF status[k] = "IN_PROGRESS" THEN Older(age[k]) ELSE age[k]]
  /\ held' = [w \in Workers |-> IF pc[w] # "idle" THEN Older(held[w]) ELSE held[w]]
  /\ UNCHANGED <<status, published, pc, batch, cur, tries, okKeys, faults,
                 historyVars>>

-----------------------------------------------------------------------------
\* What a worker does when nothing fails.
Progress(w) ==
  \/ PickLock(w)
  \/ PickCommit(w)
  \/ SkipUnsupported(w)
  \/ Dispatch(w)
  \/ PublishOk(w)
  \/ MarkSuccess(w)

Failure(w) ==
  \/ PickRollback(w)
  \/ PickCommitLost(w)
  \/ PublishErr(w)
  \/ PublishAckLost(w)
  \/ MarkFail(w)

Next ==
  \/ \E k \in Keys : Enqueue(k)
  \/ \E w \in Workers : Progress(w) \/ Failure(w)
  \/ \E p \in Processes : Crash(p)
  \/ Tick

\* Each worker is a goroutine woken by its own ticker, and time passes.
Fairness ==
  /\ \A w \in Workers : WF_vars(Progress(w))
  /\ WF_vars(Tick)

Spec == Init /\ [][Next]_vars

FairSpec == Spec /\ Fairness

-----------------------------------------------------------------------------
\* Properties.

\* Types, and the retry budget: a handler never fails more often than
\* retry.Do allows before it returns.
TypeOK ==
  /\ status \in [Keys -> {"NONE", "CREATED", "IN_PROGRESS", "SUCCESS"}]
  /\ age \in [Keys -> 0..(TTL + 1)]
  /\ published \in [Keys -> 0..2]
  /\ pc \in [Workers -> {"idle", "picking", "dispatch", "publish"}]
  /\ batch \in [Workers -> SUBSET Keys]
  /\ cur \in [Workers -> Keys \cup {NoKey}]
  /\ tries \in [Workers -> 0..(RetryAttempts - 1)]
  /\ okKeys \in [Workers -> SUBSET Keys]
  /\ held \in [Workers -> 0..(TTL + 1)]
  /\ faults \in 0..MaxFaults
  /\ repicked \subseteq Keys
  /\ ackLost \subseteq Keys

\* A row that MarkSuccess closed has reached Kafka: no interleaving of
\* workers, expired leases, lost answers and crashes closes a row that was
\* never published.
SuccessIsPublished ==
  \A k \in Keys : status[k] = "SUCCESS" => published[k] > 0

\* The rows of the batch w was given, until its iteration ends.
Holding(w) ==
  IF pc[w] \in {"dispatch", "publish"}
  THEN batch[w] \cup okKeys[w] \cup ({cur[w]} \ {NoKey})
  ELSE {}

\* The lease excludes: if two workers work on one row, then one of them has
\* had it for longer than inProgressTTL.
LeaseExclusive ==
  \A v, w \in Workers :
    v # w /\ Holding(v) \cap Holding(w) # {} => held[v] > TTL \/ held[w] > TTL

\* A row reaches Kafka twice only if its lease ran out and was taken again,
\* or Kafka failed a call whose message it had written.
DuplicateHasCause ==
  \A k \in Keys : published[k] > 1 => k \in repicked \cup ackLost

\* The table's status, as the contract sees it.
Stage(k) ==
  IF status[k] = "NONE" THEN "absent"
  ELSE IF status[k] = "SUCCESS" THEN "closed" ELSE "open"

Contract ==
  INSTANCE OutboxContract WITH
    Deliverable <- Keys \ Unsupported,
    stage <- [k \in Keys |-> Stage(k)],
    delivered <- {k \in Keys : published[k] > 0}

\* The relay implements the contract: rows are closed only once published and
\* never reopened, whatever fails.
ImplementsContract == Contract!SafetySpec

\* With finitely many faults every stored row with a handler is published and
\* closed, although rows without one are picked again and again.  (Rows are
\* finitely many here and a closed one stays closed, so from some time on all
\* that were stored are.)
EveryRowCloses ==
  <>[](\A k \in Keys \ Unsupported : status[k] \in {"NONE", "SUCCESS"})
=============================================================================
