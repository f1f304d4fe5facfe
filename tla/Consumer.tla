----------------------------- MODULE Consumer -----------------------------
(***************************************************************************)
(* The Kafka consumer loop of internal/repository/kafka/consumer.go, run   *)
(* by several members of one consumer group on a topic with one partition  *)
(* (kafka-init creates one by default).  ping-worker and email-notifier    *)
(* run this loop with a handler of their own; here a handler succeeds or   *)
(* fails freely, and the modules that extend this one say what it does.    *)
(*                                                                         *)
(* A message is committed only after its handler succeeded.  A message     *)
(* whose handler failed is passed over: the loop goes on to the next one,  *)
(* whose commit covers it.                                                 *)
(*                                                                         *)
(* Partition assignment and the committed offset are the broker's and the  *)
(* kafka-go reader's (external): after a rebalance the new owner starts at *)
(* the committed offset, and a member that lost the partition still        *)
(* finishes its handler and may still commit what it handled.              *)
(***************************************************************************)
EXTENDS Naturals, Sequences

CONSTANTS Members,    \* members of the consumer group
          Payloads,   \* what messages carry
          MaxLog,     \* bound on the messages produced
          MaxFaults   \* bound on rebalances, crashes and failed commits

ASSUME ConsumerAssumption == MaxLog \in Nat /\ MaxFaults \in Nat

VARIABLES
  log,         \* the partition
  committed,   \* the group's committed offset: the next one to read
  owner,       \* the member the partition is assigned to
  mpc,         \* mpc[m]: "fetch", "handle" or "commit"
  pos,         \* pos[m]: the offset m's reader fetches next
  cur,         \* cur[m]: the offset m handles
  handled,     \* history: offsets whose handler succeeded
  failed,      \* history: offsets whose handler returned an error
  faults

brokerVars == <<log, committed, owner>>
consumerVars == <<log, committed, owner, mpc, pos, cur, handled, failed, faults>>

\* Offsets count from 0: offset o is log[o + 1].
Offsets == 0..(Len(log) - 1)

ConsumerInit ==
  /\ log = <<>>
  /\ committed = 0
  /\ owner \in Members
  /\ mpc = [m \in Members |-> "fetch"]
  /\ pos = [m \in Members |-> 0]
  /\ cur = [m \in Members |-> 0]
  /\ handled = {}
  /\ failed = {}
  /\ faults = 0

Produce(p) ==
  /\ Len(log) < MaxLog
  /\ log' = Append(log, p)
  /\ UNCHANGED <<committed, owner, mpc, pos, cur, handled, failed, faults>>

\* FetchMessage returns the next message.
Fetch(m) ==
  /\ mpc[m] = "fetch"
  /\ owner = m
  /\ pos[m] < Len(log)
  /\ cur' = [cur EXCEPT ![m] = pos[m]]
  /\ pos' = [pos EXCEPT ![m] = @ + 1]
  /\ mpc' = [mpc EXCEPT ![m] = "handle"]
  /\ UNCHANGED <<brokerVars, handled, failed, faults>>

HandlerOk(m) ==
  /\ mpc[m] = "handle"
  /\ handled' = handled \cup {cur[m]}
  /\ mpc' = [mpc EXCEPT ![m] = "commit"]
  /\ UNCHANGED <<brokerVars, pos, cur, failed, faults>>

\* Mutant: the message is committed although its handler failed.
HandlerErrCommits(m) ==
  /\ mpc[m] = "handle"
  /\ failed' = failed \cup {cur[m]}
  /\ mpc' = [mpc EXCEPT ![m] = "commit"]
  /\ UNCHANGED <<brokerVars, pos, cur, handled, faults>>

\* The error is logged and the loop continues: no commit, no second attempt.
HandlerErr(m) ==
  /\ mpc[m] = "handle"
  /\ failed' = failed \cup {cur[m]}
  /\ mpc' = [mpc EXCEPT ![m] = "fetch"]
  /\ UNCHANGED <<brokerVars, pos, cur, handled, faults>>

\* Both, for a reason of the environment: the handler returns the error, or it
\* logs it and returns nil.
HandlerFault(m) ==
  /\ mpc[m] = "handle"
  /\ faults < MaxFaults
  /\ faults' = faults + 1
  /\ failed' = failed \cup {cur[m]}
  /\ mpc' = [mpc EXCEPT ![m] = "fetch"]
  /\ UNCHANGED <<brokerVars, pos, cur, handled>>

HandlerHidesFault(m) ==
  /\ mpc[m] = "handle"
  /\ faults < MaxFaults
  /\ faults' = faults + 1
  /\ handled' = handled \cup {cur[m]}
  /\ mpc' = [mpc EXCEPT ![m] = "commit"]
  /\ UNCHANGED <<brokerVars, pos, cur, failed>>

\* The commit takes effect, forwards or, from a former owner, backwards.
Commit(m) ==
  /\ mpc[m] = "commit"
  /\ committed' = cur[m] + 1
  /\ mpc' = [mpc EXCEPT ![m] = "fetch"]
  /\ UNCHANGED <<log, owner, pos, cur, handled, failed, faults>>

\* "commit failed; will retry later": the offset is dropped.
CommitFail(m) ==
  /\ mpc[m] = "commit"
  /\ faults < MaxFaults
  /\ faults' = faults + 1
  /\ mpc' = [mpc EXCEPT ![m] = "fetch"]
  /\ UNCHANGED <<brokerVars, pos, cur, handled, failed>>

\* Mutant: a new owner starts at the end of the partition (LastOffset).
StartOffsetLast == Len(log)

\* Where the reader of a new owner starts (FromBeginning is set: FirstOffset).
StartOffset == committed

\* The group rebalances; m's reader starts a generation of its own.
Rebalance(m) ==
  /\ faults < MaxFaults
  /\ faults' = faults + 1
  /\ owner' = m
  /\ pos' = [pos EXCEPT ![m] = StartOffset]
  /\ UNCHANGED <<log, committed, mpc, cur, handled, failed>>

\* m dies and comes back; while it is away the partition is another member's
\* (or its own again, when it is back first).
Restart(m) ==
  /\ faults < MaxFaults
  /\ faults' = faults + 1
  /\ mpc' = [mpc EXCEPT ![m] = "fetch"]
  /\ \E o \in Members :
       /\ owner' = IF owner = m THEN o ELSE owner
       /\ pos' = [pos EXCEPT ![owner'] = IF owner = m THEN StartOffset ELSE @]
  /\ UNCHANGED <<log, committed, cur, handled, failed>>

ConsumerStep(m) == Fetch(m) \/ HandlerOk(m) \/ Commit(m)

ConsumerNext ==
  \/ \E p \in Payloads : Produce(p)
  \/ \E m \in Members :
       \/ ConsumerStep(m)
       \/ HandlerErr(m)
       \/ HandlerFault(m)
       \/ HandlerHidesFault(m)
       \/ CommitFail(m)
       \/ Rebalance(m)
       \/ Restart(m)

\* The loop of each member runs on.
ConsumerFairness == \A m \in Members : WF_consumerVars(ConsumerStep(m))

ConsumerSpec == ConsumerInit /\ [][ConsumerNext]_consumerVars

FairConsumerSpec == ConsumerSpec /\ ConsumerFairness

-----------------------------------------------------------------------------
\* Types of the consumer's state.
ConsumerTypeOK ==
  /\ log \in Seq(Payloads)
  /\ Len(log) <= MaxLog
  /\ committed \in 0..Len(log)
  /\ owner \in Members
  /\ mpc \in [Members -> {"fetch", "handle", "commit"}]
  /\ pos \in [Members -> 0..Len(log)]
  /\ cur \in [Members -> Nat]
  /\ handled \subseteq Offsets
  /\ failed \subseteq Offsets
  /\ faults \in 0..MaxFaults

\* Nothing is passed over unseen: every offset below the committed one went
\* through a handler to its end, whatever the rebalances, restarts and late
\* commits of former owners.
NoSilentSkip == \A o \in 0..(committed - 1) : o \in handled \cup failed

\* The committed offset is always the successor of a message that succeeded:
\* a failed message is only ever passed by a later success.
CommitFollowsSuccess == committed > 0 => committed - 1 \in handled

\* Every message in the partition is eventually handled, well or badly, once
\* the faults stop.
EveryMessageAttempted ==
  \A o \in 0..(MaxLog - 1) : o < Len(log) ~> o \in handled \cup failed

\* What the warning after a failed commit announces: the offset of a message
\* that was handled is eventually committed (or its handler, run once more
\* after a restart, fails).
CommitIsRetried ==
  \A o \in 0..(MaxLog - 1) : o \in handled ~> committed > o \/ o \in failed
=============================================================================
