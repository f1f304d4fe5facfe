---------------------------- MODULE Scheduler ----------------------------
(***************************************************************************)
(* The scheduler: Usecase.Tick (internal/services/scheduler/usecase.go),   *)
(* run by several schedulers on one checks table, and the query and update *)
(* of FetchDue (internal/repository/postgres/check_repo.go).               *)
(*                                                                         *)
(* FetchDue takes the due checks and moves their next_run in a transaction *)
(* of its own; the requests are published after its commit, and a request  *)
(* that cannot be published waits for the next interval.                   *)
(*                                                                         *)
(* The ping worker answers a request with a transaction of several         *)
(* statements (Transactor.WithTx in internal/services/ping-worker), which  *)
(* holds the row of its check: SKIP LOCKED passes over that row, too.      *)
(*                                                                         *)
(* Time is relative: dueIn[c] is next_run minus now.  MaxOverdue bounds    *)
(* how late the schedulers may be.                                         *)
(***************************************************************************)
EXTENDS Integers, FiniteSets

CONSTANTS Checks,      \* ids of checks
          Interval,    \* Interval[c]: interval_sec
          Schedulers,  \* scheduler processes
          BatchLimit,  \* BatchLimit of the configuration
          MaxOverdue,  \* bound on how long a due check waits
          MaxHeld,     \* bound on the time a batch is held that is told apart
          MaxLocks,    \* bound on transactions of the ping worker
          MaxFaults    \* bound on failures and crashes

ASSUME SchedulerAssumption ==
  /\ IsFiniteSet(Checks)
  /\ Interval \in [Checks -> Nat \ {0}]
  /\ BatchLimit \in Int
  /\ MaxOverdue \in Nat
  /\ MaxHeld \in Nat
  /\ MaxHeld >= MaxOverdue
  /\ \A c \in Checks : MaxHeld >= Interval[c]
  /\ MaxLocks \in Nat
  /\ MaxFaults \in Nat

VARIABLES
  live,     \* checks that have a row
  deleted,  \* checks that had one: a serial id is not used again
  dueIn,    \* dueIn[c]: time until next_run; not positive: due
  pc,       \* pc[s]: "idle", "fetch" (transaction open) or "publish"
  batch,    \* batch[s]: checks s locks, or has still to publish
  held,     \* held[s]: time since s's transaction began
  busy,     \* the check whose row the ping worker's transaction holds, or none
  locks,    \* such transactions so far
  faults,   \* faults so far
  passed,   \* history: passed[c]: checks taken ahead of c while c was due
  starved   \* history: checks that another was taken ahead of twice

rowVars == <<live, deleted, dueIn>>
workerVars == <<busy, locks>>
historyVars == <<passed, starved>>
vars == <<live, deleted, dueIn, pc, batch, held, busy, locks, faults, passed, starved>>

Init ==
  /\ live \in SUBSET Checks
  /\ deleted = {}
  /\ dueIn = [c \in Checks |-> 0]
  /\ pc = [s \in Schedulers |-> "idle"]
  /\ batch = [s \in Schedulers |-> {}]
  /\ held = [s \in Schedulers |-> 0]
  /\ busy = {}
  /\ locks = 0
  /\ faults = 0
  /\ passed = [c \in Checks |-> {}]
  /\ starved = {}

Fault == faults < MaxFaults /\ faults' = faults + 1

-----------------------------------------------------------------------------
\* A limit that is not positive means 100, in Tick and in FetchDue.
Limit == IF BatchLimit <= 0 THEN 100 ELSE BatchLimit

\* Mutant: rows of an open transaction are not skipped but read again.
NothingLocked(c) == FALSE

Locked(c) == \E s \in Schedulers : pc[s] = "fetch" /\ c \in batch[s]

\* Mutant: = for <=, a check whose moment was missed is not found again.
DueExactly == {c \in live : dueIn[c] = 0}

Due == {c \in live : dueIn[c] <= 0}

\* FOR UPDATE SKIP LOCKED: the rows no other transaction holds.
Available == {c \in Due : ~Locked(c) /\ c \notin busy}

\* Mutant: no ORDER BY.
AnyOrder(S) == TRUE

\* ORDER BY next_run: nothing outside S was due before something in S.
FirstDue(S) == \A c \in S, d \in Available \ S : dueIn[c] <= dueIn[d]

\* Mutant: no LIMIT.
BatchUnlimited(S) == S = Available

\* The batch: the longest overdue checks, at most Limit of them.
Batch(S) ==
  /\ S \subseteq Available
  /\ FirstDue(S)
  /\ Cardinality(S) = IF Cardinality(Available) < Limit
                        THEN Cardinality(Available) ELSE Limit

\* The query of FetchDue has locked its rows and the update of next_run is
\* done, not committed.  Without due rows the transaction just ends.
FetchDue(s) ==
  /\ pc[s] = "idle"
  /\ \E S \in SUBSET Checks :
       /\ S # {}
       /\ Batch(S)
       /\ batch' = [batch EXCEPT ![s] = S]
       /\ passed' = [c \in Checks |->
                       IF c \in S THEN {}
                       ELSE IF c \in Available THEN passed[c] \cup S ELSE passed[c]]
       /\ starved' = starved \cup {c \in Available \ S : passed[c] \cap S # {}}
  /\ pc' = [pc EXCEPT ![s] = "fetch"]
  /\ held' = [held EXCEPT ![s] = 0]
  /\ UNCHANGED <<rowVars, workerVars, faults>>

\* next_run = now() + interval, where now() is when the transaction began.
Bumped(s) ==
  dueIn' = [c \in Checks |-> IF c \in batch[s] THEN Interval[c] - held[s] ELSE dueIn[c]]

FetchCommit(s) ==
  /\ pc[s] = "fetch"
  /\ Bumped(s)
  /\ pc' = [pc EXCEPT ![s] = "publish"]
  /\ UNCHANGED <<live, deleted, batch, held, workerVars, faults, historyVars>>

ToIdle(s) ==
  /\ pc' = [pc EXCEPT ![s] = "idle"]
  /\ batch' = [batch EXCEPT ![s] = {}]
  /\ held' = [held EXCEPT ![s] = 0]

\* A transaction that rolls back has taken nothing ahead of anyone.
GiveBack(s) ==
  /\ passed' = [c \in Checks |-> IF pc[s] = "fetch" THEN passed[c] \ batch[s]
                                                    ELSE passed[c]]
  /\ UNCHANGED starved

\* The transaction failed; the tick ends with an error.
FetchFails(s) ==
  /\ pc[s] = "fetch"
  /\ Fault
  /\ GiveBack(s)
  /\ ToIdle(s)
  /\ UNCHANGED <<rowVars, workerVars>>

\* The commit took effect and its answer was lost: the tick ends with an
\* error, and the batch waits for its next interval.
FetchCommitLost(s) ==
  /\ pc[s] = "fetch"
  /\ Fault
  /\ Bumped(s)
  /\ ToIdle(s)
  /\ UNCHANGED <<live, deleted, workerVars, historyVars>>

\* The loop over the batch goes on, or the tick ends with its last check.
Done(s, c) ==
  /\ pc' = [pc EXCEPT ![s] = IF batch[s] = {c} THEN "idle" ELSE @]
  /\ batch' = [batch EXCEPT ![s] = @ \ {c}]
  /\ held' = [held EXCEPT ![s] = IF batch[s] = {c} THEN 0 ELSE @]

Publish(s, c) ==
  /\ pc[s] = "publish"
  /\ c \in batch[s]
  /\ Done(s, c)
  /\ UNCHANGED <<rowVars, workerVars, faults, historyVars>>

\* PublishCheckRequested failed: the check is passed over.
PublishFails(s, c) ==
  /\ pc[s] = "publish"
  /\ c \in batch[s]
  /\ Fault
  /\ Done(s, c)
  /\ UNCHANGED <<rowVars, workerVars, historyVars>>

\* A scheduler dies and is restarted; an open transaction rolls back.
Crash(s) ==
  /\ pc[s] # "idle"
  /\ Fault
  /\ GiveBack(s)
  /\ ToIdle(s)
  /\ UNCHANGED <<rowVars, workerVars>>

-----------------------------------------------------------------------------
\* The gateway inserts a check, due at once, or deletes one.
CreateCheck(c) ==
  /\ c \notin live \cup deleted
  /\ live' = live \cup {c}
  /\ dueIn' = [dueIn EXCEPT ![c] = 0]
  /\ UNCHANGED <<deleted, pc, batch, held, workerVars, faults, historyVars>>

DeleteCheck(c) ==
  /\ c \in live
  /\ ~Locked(c) /\ c \notin busy
  /\ live' = live \ {c}
  /\ deleted' = deleted \cup {c}
  /\ dueIn' = [dueIn EXCEPT ![c] = 0]
  /\ passed' = [passed EXCEPT ![c] = {}]
  /\ UNCHANGED <<pc, batch, held, workerVars, faults, starved>>

\* The ping worker's transaction updates the row of a check and holds it
\* until it ends; it handles one request at a time.
WorkerLocks(c) ==
  /\ c \in live
  /\ ~Locked(c)
  /\ busy = {}
  /\ locks < MaxLocks
  /\ busy' = {c}
  /\ locks' = locks + 1
  /\ UNCHANGED <<rowVars, pc, batch, held, faults, historyVars>>

WorkerEnds ==
  /\ busy # {}
  /\ busy' = {}
  /\ UNCHANGED <<rowVars, pc, batch, held, locks, faults, historyVars>>

Tick ==
  /\ \A c \in live : dueIn[c] > -MaxOverdue
  /\ dueIn' = [c \in Checks |-> IF c \in live THEN dueIn[c] - 1 ELSE dueIn[c]]
  /\ held' = [s \in Schedulers |->
                IF pc[s] # "idle" /\ held[s] < MaxHeld THEN held[s] + 1 ELSE held[s]]
  /\ UNCHANGED <<live, deleted, pc, batch, workerVars, faults, historyVars>>

Progress(s) ==
  \/ FetchDue(s)
  \/ FetchCommit(s)
  \/ \E c \in Checks : Publish(s, c)

Next ==
  \/ \E s \in Schedulers :
       \/ Progress(s)
       \/ FetchFails(s)
       \/ FetchCommitLost(s)
       \/ \E c \in Checks : PublishFails(s, c)
       \/ Crash(s)
  \/ \E c \in Checks : CreateCheck(c) \/ DeleteCheck(c) \/ WorkerLocks(c)
  \/ WorkerEnds
  \/ Tick

\* Every scheduler's ticker fires again and again, time passes, and the ping
\* worker's transaction ends: every statement of it has a timeout.
Fairness == (\A s \in Schedulers : WF_vars(Progress(s))) /\ WF_vars(Tick) /\ WF_vars(WorkerEnds)

Spec == Init /\ [][Next]_vars

FairSpec == Spec /\ Fairness

-----------------------------------------------------------------------------
\* Types, and that a batch never exceeds the limit.
TypeOK ==
  /\ live \subseteq Checks
  /\ deleted \subseteq Checks \ live
  /\ dueIn \in [Checks -> Int]
  /\ \A c \in Checks : dueIn[c] \in -MaxOverdue..Interval[c]
  /\ pc \in [Schedulers -> {"idle", "fetch", "publish"}]
  /\ batch \in [Schedulers -> SUBSET Checks]
  /\ \A s \in Schedulers : Cardinality(batch[s]) <= Limit
  /\ held \in [Schedulers -> 0..MaxHeld]
  /\ busy \subseteq live
  /\ locks \in 0..MaxLocks
  /\ faults \in 0..MaxFaults
  /\ passed \in [Checks -> SUBSET Checks]
  /\ starved \subseteq Checks

\* Two schedulers have one check in their batches only if the first of them
\* has had it for a whole interval: replicas do not double the requests.
OncePerInterval ==
  \A s, t \in Schedulers, c \in live :
    s # t /\ c \in batch[s] \cap batch[t]
      => held[s] >= Interval[c] \/ held[t] >= Interval[c]

\* When more checks are due than a batch takes, a check that waits sees every
\* other one taken ahead of it once at most, not counting what is taken while
\* the ping worker holds its row.
NobodyStarves == starved = {}

\* A check that is not deleted is requested again and again.
RequestedForever ==
  \A c \in Checks :
    <>[](c \in live) => []<><<\E s \in Schedulers : Publish(s, c)>>_vars
=============================================================================
