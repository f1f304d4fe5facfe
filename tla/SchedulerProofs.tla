-------------------------- MODULE SchedulerProofs --------------------------
(***************************************************************************)
(* Proofs about the scheduler: however many schedulers share the table,    *)
(* whatever the checks and their intervals, and whatever fails or crashes, *)
(* a check is not in two batches within one interval, and while it waits   *)
(* nothing is taken ahead of it twice.                                     *)
(***************************************************************************)
EXTENDS Scheduler, FiniteSetTheorems, TLAPS

LEMMA LimitPositive == Limit \in Nat /\ Limit > 0
  BY SchedulerAssumption DEF Limit

\* A batch is finite, no larger than the limit, and made of available checks.
LEMMA BatchSize ==
  ASSUME live \subseteq Checks, NEW S, Batch(S)
  PROVE  S \subseteq Available /\ Cardinality(S) <= Limit
<1>1. IsFiniteSet(Available)
  BY SchedulerAssumption, FS_Subset DEF Available, Due
<1>2. Cardinality(Available) \in Nat
  BY <1>1, FS_CardinalityType
<1> QED
  BY <1>2, LimitPositive DEF Batch

LEMMA SmallerBatch ==
  ASSUME NEW S \in SUBSET Checks, NEW c, Cardinality(S) <= Limit
  PROVE  Cardinality(S \ {c}) <= Limit
<1>1. IsFiniteSet(S)
  BY SchedulerAssumption, FS_Subset
<1>2. Cardinality(S) \in Nat /\ Cardinality(S \ {c}) \in Nat
  BY <1>1, FS_CardinalityType, FS_RemoveElement
<1>3. Cardinality(S \ {c}) <= Cardinality(S)
  BY <1>1, <1>2, FS_RemoveElement, Zenon, FS_Subset
<1> QED
  BY <1>2, <1>3, LimitPositive

-----------------------------------------------------------------------------
\* Batches: none without a tick, none of a check that never had a row.
Batches ==
  \A s \in Schedulers :
    /\ pc[s] = "idle" => batch[s] = {}
    /\ batch[s] \subseteq live \cup deleted

\* An open transaction locks rows that have been due as long as it is open,
\* and no other transaction locks them.
Transactions ==
  \A s \in Schedulers :
    pc[s] = "fetch" =>
      /\ \A c \in batch[s] : c \in live /\ held[s] <= -dueIn[c]
      /\ \A t \in Schedulers : pc[t] = "fetch" /\ t # s => batch[s] \cap batch[t] = {}

\* A check that waits for its publish is not due before a whole interval has
\* passed since the transaction that took it.
Claims ==
  \A s \in Schedulers : pc[s] = "publish" =>
    \A c \in batch[s] \cap live :
      dueIn[c] >= Interval[c] - held[s] \/ held[s] >= Interval[c]

\* Whom d was taken ahead of: d's new next_run is later than c's, once the
\* transaction that has d commits (it began when c was due already), or
\* the check is gone.
Behind(c, d) ==
  \/ \E t \in Schedulers : pc[t] = "fetch" /\ d \in batch[t] /\ dueIn[c] <= -held[t]
  \/ d \in live => dueIn[d] > dueIn[c]

\* A check that others were taken ahead of is due, in no open transaction, and
\* in front of them.
Waiting ==
  \A c \in Checks : \A d \in passed[c] :
    /\ c \in live /\ dueIn[c] <= 0 /\ ~Locked(c)
    /\ d \in live \cup deleted
    /\ Behind(c, d)

SchedulerInv ==
  /\ TypeOK /\ Batches /\ Transactions /\ Claims /\ OncePerInterval
  /\ Waiting /\ NobodyStarves

LEMMA TypeStep == SchedulerInv /\ [Next]_vars => TypeOK'
<1> SUFFICES ASSUME SchedulerInv, [Next]_vars PROVE TypeOK'
  OBVIOUS
<1> USE SchedulerAssumption DEF workerVars
<1>0. TypeOK /\ Batches /\ Transactions
  BY DEF SchedulerInv
<1>e. Cardinality({}) <= Limit
  BY LimitPositive, FS_EmptySet
<1>1. ASSUME NEW s \in Schedulers, FetchDue(s) PROVE TypeOK'
  <2>0. PICK S \in SUBSET Checks :
          /\ Batch(S)
          /\ batch' = [batch EXCEPT ![s] = S]
          /\ passed' = [c \in Checks |->
                          IF c \in S THEN {}
                          ELSE IF c \in Available THEN passed[c] \cup S ELSE passed[c]]
          /\ starved' = starved \cup {c \in Available \ S : passed[c] \cap S # {}}
    BY <1>1, Zenon DEF FetchDue
  <2>1. /\ Batch(S)
        /\ batch' = [batch EXCEPT ![s] = S]
        /\ passed' \in [Checks -> SUBSET Checks]
        /\ starved' \subseteq Checks
    BY <1>0, <2>0 DEF TypeOK, Available, Due
  <2>2. Cardinality(S) <= Limit
    BY <1>0, <2>1, BatchSize DEF TypeOK
  <2>3. batch' \in [Schedulers -> SUBSET Checks]
    BY <1>0, <2>1 DEF TypeOK
  <2>4. \A t \in Schedulers : Cardinality(batch'[t]) <= Limit
    <3>1. ASSUME NEW t \in Schedulers, t = s PROVE Cardinality(batch'[t]) <= Limit
      BY <1>0, <2>1, <2>2, <3>1, Zenon DEF TypeOK
    <3>2. ASSUME NEW t \in Schedulers, t # s PROVE Cardinality(batch'[t]) <= Limit
      BY <1>0, <2>1, <3>2, Zenon DEF TypeOK
    <3> QED BY <3>1, <3>2
  <2>5. pc' \in [Schedulers -> {"idle", "fetch", "publish"}] /\ held' \in [Schedulers -> 0..MaxHeld]
    BY <1>0, <1>1 DEF FetchDue, TypeOK
  <2> QED
    BY <1>0, <1>1, <2>1, <2>3, <2>4, <2>5 DEF FetchDue, TypeOK, rowVars
<1>2. ASSUME NEW s \in Schedulers, FetchCommit(s) PROVE TypeOK'
  BY <1>0, <1>2 DEF FetchCommit, Bumped, TypeOK, Transactions, historyVars
<1>3. ASSUME NEW s \in Schedulers, FetchFails(s) PROVE TypeOK'
  BY <1>0, <1>3, <1>e DEF FetchFails, GiveBack, ToIdle, Fault, TypeOK, rowVars
<1>4. ASSUME NEW s \in Schedulers, FetchCommitLost(s) PROVE TypeOK'
  BY <1>0, <1>4, <1>e
  DEF FetchCommitLost, Bumped, ToIdle, Fault, TypeOK, Transactions, historyVars
<1>5. ASSUME NEW s \in Schedulers, NEW c \in Checks, Publish(s, c) PROVE TypeOK'
  <2>1. Cardinality(batch[s] \ {c}) <= Limit
    BY <1>0, SmallerBatch DEF TypeOK
  <2> QED
    BY <1>0, <1>5, <2>1 DEF Publish, Done, TypeOK, rowVars, historyVars
<1>6. ASSUME NEW s \in Schedulers, NEW c \in Checks, PublishFails(s, c) PROVE TypeOK'
  <2>1. Cardinality(batch[s] \ {c}) <= Limit
    BY <1>0, SmallerBatch DEF TypeOK
  <2> QED
    BY <1>0, <1>6, <2>1 DEF PublishFails, Done, Fault, TypeOK, rowVars, historyVars
<1>7. ASSUME NEW s \in Schedulers, Crash(s) PROVE TypeOK'
  BY <1>0, <1>7, <1>e DEF Crash, GiveBack, ToIdle, Fault, TypeOK, rowVars
<1>8. ASSUME NEW c \in Checks, CreateCheck(c) PROVE TypeOK'
  BY <1>0, <1>8 DEF CreateCheck, TypeOK, historyVars
<1>9. ASSUME NEW c \in Checks, DeleteCheck(c) PROVE TypeOK'
  BY <1>0, <1>9 DEF DeleteCheck, TypeOK
<1>10. CASE Tick
  BY <1>0, <1>10 DEF Tick, TypeOK, historyVars
<1>11. CASE UNCHANGED vars
  BY <1>0, <1>11 DEF TypeOK, vars
<1>12. ASSUME NEW c \in Checks, WorkerLocks(c) PROVE TypeOK'
  BY <1>0, <1>12 DEF WorkerLocks, TypeOK, rowVars, historyVars
<1>13. CASE WorkerEnds
  BY <1>0, <1>13 DEF WorkerEnds, TypeOK, rowVars, historyVars
<1> QED
  BY <1>1, <1>2, <1>3, <1>4, <1>5, <1>6, <1>7, <1>8, <1>9, <1>10, <1>11, <1>12, <1>13
  DEF Next, Progress

LEMMA SafetyStep ==
  SchedulerInv /\ [Next]_vars => (Batches /\ Transactions /\ Claims /\ OncePerInterval)'
<1> SUFFICES ASSUME SchedulerInv, [Next]_vars
             PROVE  (Batches /\ Transactions /\ Claims /\ OncePerInterval)'
  OBVIOUS
<1> USE SchedulerAssumption
    DEF SchedulerInv, TypeOK, Batches, Transactions, Claims, OncePerInterval
<1> DEFINE Goal == Batches /\ Transactions /\ Claims /\ OncePerInterval
<1>1. ASSUME NEW s \in Schedulers, FetchDue(s) PROVE Goal'
  <2>1. PICK S \in SUBSET Checks : Batch(S) /\ batch' = [batch EXCEPT ![s] = S]
    BY <1>1 DEF FetchDue
  <2>2. \A c \in S : c \in live /\ dueIn[c] <= 0 /\ ~Locked(c)
    BY <2>1, BatchSize DEF Available, Due
  <2>3. Batches' /\ Transactions'
    BY <1>1, <2>1, <2>2 DEF FetchDue, Locked, rowVars
  <2>4. Claims'
    BY <1>1, <2>1 DEF FetchDue, rowVars
  <2>5. OncePerInterval'
    BY <1>1, <2>1, <2>2 DEF FetchDue, Locked, rowVars
  <2> QED BY <2>3, <2>4, <2>5
<1>2. ASSUME NEW s \in Schedulers, FetchCommit(s) PROVE Goal'
  BY <1>2 DEF FetchCommit, Bumped, historyVars
<1>3. ASSUME NEW s \in Schedulers, FetchFails(s) PROVE Goal'
  BY <1>3 DEF FetchFails, ToIdle, rowVars
<1>4. ASSUME NEW s \in Schedulers, FetchCommitLost(s) PROVE Goal'
  BY <1>4 DEF FetchCommitLost, Bumped, ToIdle, historyVars
<1>5. ASSUME NEW s \in Schedulers, NEW c \in Checks, Publish(s, c) PROVE Goal'
  BY <1>5 DEF Publish, Done, rowVars, historyVars
<1>6. ASSUME NEW s \in Schedulers, NEW c \in Checks, PublishFails(s, c) PROVE Goal'
  BY <1>6 DEF PublishFails, Done, rowVars, historyVars
<1>7. ASSUME NEW s \in Schedulers, Crash(s) PROVE Goal'
  BY <1>7 DEF Crash, ToIdle, rowVars
<1>8. ASSUME NEW c \in Checks, CreateCheck(c) PROVE Goal'
  BY <1>8 DEF CreateCheck, historyVars
<1>9. ASSUME NEW c \in Checks, DeleteCheck(c) PROVE Goal'
  BY <1>9 DEF DeleteCheck, Locked
<1>10. CASE Tick
  BY <1>10 DEF Tick, historyVars
<1>11. CASE UNCHANGED vars
  BY <1>11 DEF vars
<1>12. ASSUME NEW c \in Checks, WorkerLocks(c) PROVE Goal'
  BY <1>12 DEF WorkerLocks, rowVars, historyVars
<1>13. CASE WorkerEnds
  BY <1>13 DEF WorkerEnds, rowVars, historyVars
<1> QED
  BY <1>1, <1>2, <1>3, <1>4, <1>5, <1>6, <1>7, <1>8, <1>9, <1>10, <1>11, <1>12, <1>13
  DEF Next, Progress

-----------------------------------------------------------------------------
\* A check with passed[c] not empty is available to the query that takes S:
\* what was taken ahead of it is due later, so it is not in S again.
LEMMA TakenOnce ==
  ASSUME SchedulerInv, NEW S \in SUBSET Checks, Batch(S), NEW c \in Available \ S
  PROVE  passed[c] \cap S = {}
<1> SUFFICES ASSUME NEW d \in passed[c], d \in S PROVE FALSE
  OBVIOUS
<1>1. c \in Checks /\ d \in Checks /\ dueIn \in [Checks -> Int]
  BY DEF SchedulerInv, TypeOK, Available, Due
<1>2. d \in live /\ ~Locked(d)
  BY DEF Batch, Available, Due
<1>3. dueIn[d] <= dueIn[c]
  BY DEF Batch, FirstDue
<1>4. Behind(c, d)
  BY <1>1 DEF SchedulerInv, Waiting
<1> QED BY <1>1, <1>2, <1>3, <1>4 DEF Behind, Locked

\* The commit of the transaction of s, also when its answer is lost.
LEMMA WaitingCommit ==
  ASSUME SchedulerInv, NEW s \in Schedulers, pc[s] = "fetch", Bumped(s),
         UNCHANGED <<live, deleted, passed>>, pc'[s] # "fetch",
         \A t \in Schedulers \ {s} :
           pc'[t] = pc[t] /\ batch'[t] = batch[t] /\ held'[t] = held[t]
  PROVE  Waiting'
<1> USE SchedulerAssumption
<1>0. TypeOK /\ Transactions /\ Waiting
  BY DEF SchedulerInv
<1> SUFFICES ASSUME NEW c \in Checks, NEW d \in passed[c]
             PROVE  dueIn'[c] <= 0 /\ ~Locked(c)' /\ Behind(c, d)'
  BY <1>0 DEF Waiting
<1>1. /\ d \in Checks /\ c \in live /\ dueIn[c] \in Int /\ dueIn[c] <= 0
      /\ ~Locked(c) /\ Behind(c, d)
  BY <1>0 DEF TypeOK, Waiting
<1>2. c \notin batch[s] /\ dueIn'[c] = dueIn[c]
  BY <1>1 DEF Locked, Bumped
<1>3. ~Locked(c)'
  BY <1>1 DEF Locked
<1>4. CASE d \in batch[s]
  <2>1. \A t \in Schedulers : pc[t] = "fetch" /\ d \in batch[t] => t = s
    BY <1>0, <1>4 DEF Transactions
  <2>2. dueIn'[d] = Interval[d] - held[s] /\ held[s] \in Nat /\ Interval[d] > 0 /\ Interval[d] \in Nat
    BY <1>0, <1>1, <1>4 DEF Bumped, TypeOK
  <2>3. held[s] <= -dueIn[d] /\ d \in live /\ dueIn[d] \in Int
    BY <1>0, <1>1, <1>4 DEF Transactions, TypeOK
  <2>4. dueIn[c] <= -held[s]
    BY <1>1, <2>1, <2>2, <2>3 DEF Behind
  <2> QED BY <1>1, <1>2, <1>3, <2>2, <2>4 DEF Behind
<1>5. CASE d \notin batch[s]
  <2>1. dueIn'[d] = dueIn[d]
    BY <1>1, <1>5 DEF Bumped
  <2> QED BY <1>1, <1>2, <1>3, <1>5, <2>1 DEF Behind
<1> QED BY <1>4, <1>5

LEMMA WaitingStep == SchedulerInv /\ [Next]_vars => Waiting'
<1> SUFFICES ASSUME SchedulerInv, [Next]_vars PROVE Waiting'
  OBVIOUS
<1> USE SchedulerAssumption
<1>0. TypeOK /\ Batches /\ Transactions /\ Waiting
  BY DEF SchedulerInv
<1>1. ASSUME NEW s \in Schedulers, FetchDue(s) PROVE Waiting'
  <2>1. PICK S \in SUBSET Checks :
          /\ S # {} /\ Batch(S)
          /\ batch' = [batch EXCEPT ![s] = S]
          /\ passed' = [c \in Checks |->
                          IF c \in S THEN {}
                          ELSE IF c \in Available THEN passed[c] \cup S ELSE passed[c]]
    BY <1>1, Zenon DEF FetchDue
  <2>2. /\ pc[s] = "idle" /\ pc' = [pc EXCEPT ![s] = "fetch"]
        /\ held' = [held EXCEPT ![s] = 0] /\ UNCHANGED <<live, deleted, dueIn>>
    BY <1>1 DEF FetchDue, rowVars
  <2>3. S \subseteq live
    BY <2>1 DEF Batch, Available, Due
  <2> SUFFICES ASSUME NEW c \in Checks, NEW d \in passed'[c]
               PROVE  /\ c \in live /\ dueIn[c] <= 0 /\ ~Locked(c)'
                      /\ d \in live \cup deleted /\ Behind(c, d)'
    BY <2>2 DEF Waiting
  <2>4. c \notin S
    BY <2>1
  <2>5. CASE d \in passed[c]
    <3>1. /\ c \in live /\ dueIn[c] <= 0 /\ ~Locked(c)
          /\ d \in live \cup deleted /\ Behind(c, d)
      BY <1>0, <2>5 DEF Waiting
    <3>2. ~Locked(c)'
      BY <1>0, <2>1, <2>2, <2>4, <3>1 DEF Locked, TypeOK
    <3>3. Behind(c, d)'
      BY <1>0, <2>1, <2>2, <3>1 DEF Behind, TypeOK
    <3> QED BY <3>1, <3>2, <3>3
  <2>6. CASE d \notin passed[c]
    <3>1. c \in Available /\ d \in S
      BY <2>1, <2>4, <2>6
    <3>2. c \in live /\ dueIn[c] <= 0 /\ ~Locked(c)
      BY <3>1 DEF Available, Due
    <3>3. ~Locked(c)'
      BY <1>0, <2>1, <2>2, <2>4, <3>2 DEF Locked, TypeOK
    <3>4. Behind(c, d)'
      BY <1>0, <2>1, <2>2, <3>1, <3>2 DEF Behind, TypeOK
    <3> QED BY <2>3, <3>1, <3>2, <3>3, <3>4
  <2> QED BY <2>5, <2>6
<1> USE DEF TypeOK, Waiting, Behind, Locked
<1>2. ASSUME NEW s \in Schedulers, FetchCommit(s) PROVE Waiting'
  <2> HIDE DEF Waiting
  <2> QED BY <1>0, <1>2, WaitingCommit DEF FetchCommit, historyVars
<1>3. ASSUME NEW s \in Schedulers, FetchFails(s) PROVE Waiting'
  BY <1>0, <1>3 DEF FetchFails, GiveBack, ToIdle, rowVars
<1>4. ASSUME NEW s \in Schedulers, FetchCommitLost(s) PROVE Waiting'
  <2> HIDE DEF Waiting
  <2> QED BY <1>0, <1>4, WaitingCommit DEF FetchCommitLost, ToIdle, historyVars
<1>5. ASSUME NEW s \in Schedulers, NEW c \in Checks, Publish(s, c) PROVE Waiting'
  BY <1>0, <1>5 DEF Publish, Done, rowVars, historyVars
<1>6. ASSUME NEW s \in Schedulers, NEW c \in Checks, PublishFails(s, c) PROVE Waiting'
  BY <1>0, <1>6 DEF PublishFails, Done, rowVars, historyVars
<1>7. ASSUME NEW s \in Schedulers, Crash(s) PROVE Waiting'
  BY <1>0, <1>7 DEF Crash, GiveBack, ToIdle, rowVars
<1>8. ASSUME NEW c \in Checks, CreateCheck(c) PROVE Waiting'
  BY <1>0, <1>8 DEF CreateCheck, historyVars
<1>9. ASSUME NEW c \in Checks, DeleteCheck(c) PROVE Waiting'
  BY <1>0, <1>9 DEF DeleteCheck
<1>10. CASE Tick
  BY <1>0, <1>10 DEF Tick, historyVars
<1>11. CASE UNCHANGED vars
  BY <1>0, <1>11 DEF vars
<1>12. ASSUME NEW c \in Checks, WorkerLocks(c) PROVE Waiting'
  BY <1>0, <1>12 DEF WorkerLocks, rowVars, historyVars
<1>13. CASE WorkerEnds
  BY <1>0, <1>13 DEF WorkerEnds, rowVars, historyVars
<1> QED
  BY <1>1, <1>2, <1>3, <1>4, <1>5, <1>6, <1>7, <1>8, <1>9, <1>10, <1>11, <1>12, <1>13
  DEF Next, Progress

LEMMA StarvedStep == SchedulerInv /\ [Next]_vars => NobodyStarves'
<1> SUFFICES ASSUME SchedulerInv, [Next]_vars PROVE starved' = {}
  BY DEF NobodyStarves
<1>1. starved = {}
  BY DEF SchedulerInv, NobodyStarves
<1>2. ASSUME NEW s \in Schedulers, FetchDue(s) PROVE starved' = {}
  <2>1. PICK S \in SUBSET Checks :
          Batch(S) /\ starved' = starved \cup {c \in Available \ S : passed[c] \cap S # {}}
    BY <1>2 DEF FetchDue
  <2>2. \A c \in Available \ S : passed[c] \cap S = {}
    BY <2>1, TakenOnce
  <2> QED BY <1>1, <2>1, <2>2
<1>3. CASE ~\E s \in Schedulers : FetchDue(s)
  BY <1>1, <1>3
  DEF Next, Progress, FetchCommit, FetchFails, FetchCommitLost, Publish, PublishFails, Crash,
      GiveBack, CreateCheck, DeleteCheck, WorkerLocks, WorkerEnds, Tick, historyVars, vars
<1> QED BY <1>2, <1>3

THEOREM SchedulerInvariant == Spec => []SchedulerInv
<1>1. Init => SchedulerInv
  BY SchedulerAssumption, LimitPositive, FS_EmptySet
  DEF Init, SchedulerInv, TypeOK, Batches, Transactions, Claims, OncePerInterval,
      Waiting, NobodyStarves
<1>2. SchedulerInv /\ [Next]_vars => SchedulerInv'
  BY TypeStep, SafetyStep, WaitingStep, StarvedStep DEF SchedulerInv
<1> QED
  BY <1>1, <1>2, PTL DEF Spec

\* The scheduler's state is well typed and a batch never exceeds the limit.
THEOREM TypeCorrect == Spec => []TypeOK
<1>1. SchedulerInv => TypeOK
  BY DEF SchedulerInv
<1> QED
  BY <1>1, SchedulerInvariant, PTL

\* Replicas of the scheduler do not double the requests: FOR UPDATE SKIP
\* LOCKED and the new next_run keep a check out of a second batch for a whole
\* interval.
THEOREM RequestedOncePerInterval == Spec => []OncePerInterval
<1>1. SchedulerInv => OncePerInterval
  BY DEF SchedulerInv
<1> QED
  BY <1>1, SchedulerInvariant, PTL

\* Under overload ORDER BY next_run lets every check have its turn: nothing is
\* taken ahead of a waiting check a second time, whatever other schedulers
\* lock, commit late or give back.
THEOREM WaitingIsBounded == Spec => []NobodyStarves
<1>1. SchedulerInv => NobodyStarves
  BY DEF SchedulerInv
<1> QED
  BY <1>1, SchedulerInvariant, PTL
=============================================================================
