--------------------------- MODULE OutboxProofs ---------------------------
(***************************************************************************)
(* Proofs about the outbox relay, for every set of rows, any number of     *)
(* processes and workers, every TTL, batch size, retry budget and number   *)
(* of faults.                                                              *)
(***************************************************************************)
EXTENDS Outbox, TLAPS

\* What a worker's variables hold in each part of its loop.
Shape ==
  \A w \in Workers :
    /\ pc[w] = "idle" => batch[w] = {}
    /\ pc[w] \in {"idle", "picking"} => okKeys[w] = {}
    /\ pc[w] # "publish" => cur[w] = NoKey
    /\ pc[w] = "publish" => cur[w] \in Keys \ Unsupported

Typed == TypeOK /\ Shape

LEMMA OldestIsSubset ==
  ASSUME NEW S, NEW n
  PROVE  Oldest(S, n) \subseteq S
BY DEF Oldest

LEMMA NoKeyIsNoKey == NoKey \notin Keys
BY KeysAssumption DEF NoKey

LEMMA RetryAttemptsPositive == RetryAttempts \in Nat \ {0}
BY BoundsAssumption DEF RetryAttempts

LEMMA OlderType ==
  ASSUME NEW t \in 0..(TTL + 1)
  PROVE  /\ Older(t) \in 0..(TTL + 1)
         /\ Older(t) >= t
         /\ Older(t) <= TTL => t < TTL /\ Older(t) = t + 1
BY BoundsAssumption DEF Older

-----------------------------------------------------------------------------
\* Every reachable state is well typed: in particular a handler never fails
\* more often than the retry budget allows before it returns.
THEOREM TypedInvariant == Spec => []Typed
<1>1. Init => Typed
  BY BoundsAssumption, RetryAttemptsPositive DEF Init, Typed, TypeOK, Shape
<1>2. Typed /\ [Next]_vars => Typed'
  <2> SUFFICES ASSUME Typed, [Next]_vars PROVE Typed'
    OBVIOUS
  <2> USE DEF Typed, TypeOK, Shape
  <2>1. ASSUME NEW k \in Keys, Enqueue(k) PROVE Typed'
    BY <2>1 DEF Enqueue, workerVars, historyVars
  <2>2. ASSUME NEW w \in Workers, PickLock(w) PROVE Typed'
    <3>1. Oldest({k \in Keys : Pickable(k) /\ ~Locked(k)}, BatchSize) \subseteq Keys
      BY OldestIsSubset
    <3>2. 0 \in 0..(TTL + 1)
      BY BoundsAssumption
    <3> QED BY <2>2, <3>1, <3>2 DEF PickLock, tableVars, historyVars
  <2>3. ASSUME NEW w \in Workers, PickCommit(w) PROVE Typed'
    BY <2>3 DEF PickCommit, Leased
  <2>4. ASSUME NEW w \in Workers, SkipUnsupported(w) PROVE Typed'
    BY <2>4 DEF SkipUnsupported, tableVars, historyVars
  <2>5. ASSUME NEW w \in Workers, Dispatch(w) PROVE Typed'
    BY <2>5, RetryAttemptsPositive DEF Dispatch, tableVars, historyVars
  <2>6. ASSUME NEW w \in Workers, PublishOk(w) PROVE Typed'
    BY <2>6, RetryAttemptsPositive
    DEF PublishOk, Written, HandlerReturns, tableVars, historyVars
  <2>7. ASSUME NEW w \in Workers, MarkSuccess(w) PROVE Typed'
    BY <2>7, BoundsAssumption DEF MarkSuccess, BatchDone, ToIdle, historyVars
  <2>8. ASSUME NEW w \in Workers, PickRollback(w) PROVE Typed'
    BY <2>8, BoundsAssumption DEF PickRollback, Fault, ToIdle, tableVars, historyVars
  <2>9. ASSUME NEW w \in Workers, PickCommitLost(w) PROVE Typed'
    BY <2>9, BoundsAssumption DEF PickCommitLost, Leased, Fault, ToIdle
  <2>10. ASSUME NEW w \in Workers, PublishErr(w) PROVE Typed'
    BY <2>10, BoundsAssumption, RetryAttemptsPositive
    DEF PublishErr, AttemptFailed, LastAttempt, HandlerReturns, Fault,
        tableVars, historyVars
  <2>11. ASSUME NEW w \in Workers, PublishAckLost(w) PROVE Typed'
    BY <2>11, BoundsAssumption, RetryAttemptsPositive
    DEF PublishAckLost, Written, AttemptFailed, LastAttempt, HandlerReturns,
        Fault, tableVars
  <2>12. ASSUME NEW w \in Workers, MarkFail(w) PROVE Typed'
    BY <2>12, BoundsAssumption
    DEF MarkFail, BatchDone, Fault, ToIdle, tableVars, historyVars
  <2>13. ASSUME NEW p \in Processes, Crash(p) PROVE Typed'
    BY <2>13, BoundsAssumption, RetryAttemptsPositive
    DEF Crash, Fault, tableVars, historyVars
  <2>14. CASE Tick
    BY <2>14, OlderType DEF Tick, historyVars
  <2>15. CASE UNCHANGED vars
    BY <2>15 DEF vars
  <2> QED
    BY <2>1, <2>2, <2>3, <2>4, <2>5, <2>6, <2>7, <2>8, <2>9, <2>10, <2>11,
       <2>12, <2>13, <2>14, <2>15 DEF Next, Progress, Failure
<1> QED
  BY <1>1, <1>2, PTL DEF Spec

\* Every reachable state is well typed.
THEOREM TypeCorrect == Spec => []TypeOK
BY TypedInvariant, PTL DEF Typed

-----------------------------------------------------------------------------
(***************************************************************************)
(* The lease.  A worker is safe from the others while its own clock says   *)
(* so (held[w] <= TTL), because the row's clock then agrees with it, and a *)
(* row can be locked only once its clock has passed the TTL.               *)
(***************************************************************************)

\* Rows that a worker works on are leased, or closed meanwhile by another.
HeldRows ==
  \A w \in Workers : \A k \in Holding(w) : status[k] \in {"IN_PROGRESS", "SUCCESS"}

\* As long as a holder is within the TTL, the row's age is its own.
LeaseAge ==
  \A w \in Workers : \A k \in Holding(w) :
    held[w] <= TTL /\ status[k] = "IN_PROGRESS" => age[k] = held[w]

\* A locked row is new, or its lease has run out.
LockedRows ==
  \A w \in Workers : pc[w] = "picking" =>
    \A k \in batch[w] :
      status[k] = "CREATED" \/ (status[k] = "IN_PROGRESS" /\ age[k] > TTL)

\* No row is locked twice.
LocksDisjoint ==
  \A v, w \in Workers :
    v # w /\ pc[v] = "picking" /\ pc[w] = "picking" => batch[v] \cap batch[w] = {}

LeaseInv ==
  HeldRows /\ LeaseAge /\ LockedRows /\ LocksDisjoint /\ LeaseExclusive

\* A step that leaves the table alone and lets nobody hold or lock more rows
\* preserves the lease invariant.
LEMMA LeaseInvShrinks ==
  ASSUME LeaseInv, UNCHANGED tableVars,
         \A w \in Workers : Holding(w)' \subseteq Holding(w),
         \A w \in Workers : Holding(w)' # {} => held'[w] = held[w],
         \A w \in Workers : pc'[w] = "picking" =>
                               pc[w] = "picking" /\ batch'[w] = batch[w]
  PROVE  LeaseInv'
<1> USE DEF LeaseInv
<1>1. HeldRows'
  BY DEF HeldRows, tableVars
<1>2. LeaseAge'
  BY DEF LeaseAge, tableVars
<1>3. LockedRows'
  BY DEF LockedRows, tableVars
<1>4. LocksDisjoint'
  BY DEF LocksDisjoint
<1>5. LeaseExclusive'
  <2> SUFFICES ASSUME NEW v \in Workers, NEW w \in Workers, v # w,
                      NEW k \in Holding(v)', k \in Holding(w)'
               PROVE  held'[v] > TTL \/ held'[w] > TTL
    BY DEF LeaseExclusive
  <2> QED BY DEF LeaseExclusive
<1> QED BY <1>1, <1>2, <1>3, <1>4, <1>5

\* The same for a transaction that commits and leases w's batch, whether w
\* then works on it or never learns of it.
LEMMA LeaseInvLeased ==
  ASSUME Typed, LeaseInv, NEW w \in Workers, pc[w] = "picking", Leased(w),
         \A v \in Workers \ {w} : Holding(v)' = Holding(v) /\ held'[v] = held[v],
         \A v \in Workers \ {w} : pc'[v] = pc[v] /\ batch'[v] = batch[v],
         pc'[w] # "picking",
         Holding(w)' \subseteq batch[w],
         Holding(w)' # {} => held'[w] = held[w]
  PROVE  LeaseInv'
<1> USE DEF LeaseInv
<1>1. \A k \in Keys :
        /\ k \in batch[w] => status'[k] = "IN_PROGRESS" /\ age'[k] = held[w]
        /\ k \notin batch[w] => status'[k] = status[k] /\ age'[k] = age[k]
  BY DEF Leased, Typed, TypeOK
<1>2. \A v \in Workers : Holding(v) \subseteq Keys /\ batch[v] \subseteq Keys
  BY DEF Holding, Typed, TypeOK, Shape
<1>3. \A v \in Workers \ {w}, k \in batch[w] : k \in Holding(v) => held[v] > TTL
  <2> SUFFICES ASSUME NEW v \in Workers \ {w}, NEW k \in batch[w],
                      k \in Holding(v), ~(held[v] > TTL)
               PROVE  FALSE
    OBVIOUS
  <2>1. status[k] = "IN_PROGRESS" /\ age[k] > TTL
    BY DEF HeldRows, LockedRows
  <2>2. held[v] <= TTL
    BY BoundsAssumption DEF Typed, TypeOK
  <2>3. age[k] = held[v]
    BY <2>1, <2>2 DEF LeaseAge
  <2> QED BY <2>1, <2>3
<1>4. HeldRows'
  BY <1>1, <1>2 DEF HeldRows
<1>5. LeaseAge'
  BY <1>1, <1>2, <1>3, BoundsAssumption DEF LeaseAge, Typed, TypeOK
<1>6. LockedRows'
  <2> SUFFICES ASSUME NEW v \in Workers \ {w}, pc[v] = "picking", NEW k \in batch[v]
               PROVE  status'[k] = "CREATED" \/ (status'[k] = "IN_PROGRESS" /\ age'[k] > TTL)
    BY DEF LockedRows
  <2>1. k \notin batch[w]
    BY DEF LocksDisjoint
  <2> QED BY <1>1, <1>2, <2>1 DEF LockedRows
<1>7. LocksDisjoint'
  BY DEF LocksDisjoint
<1>8. LeaseExclusive'
  <2> SUFFICES ASSUME NEW u \in Workers, NEW v \in Workers, u # v,
                      NEW k, k \in Holding(u)', k \in Holding(v)'
               PROVE  held'[u] > TTL \/ held'[v] > TTL
    BY DEF LeaseExclusive
  <2>1. CASE u # w /\ v # w
    BY <2>1 DEF LeaseExclusive
  <2>2. CASE u = w
    BY <2>2, <1>3
  <2>3. CASE v = w
    BY <2>3, <1>3
  <2> QED BY <2>1, <2>2, <2>3
<1> QED BY <1>4, <1>5, <1>6, <1>7, <1>8

LEMMA LeaseInvStep ==
  ASSUME Typed, LeaseInv, [Next]_vars
  PROVE  LeaseInv'
<1> USE DEF Typed, TypeOK, Shape
<1>1. ASSUME NEW k \in Keys, Enqueue(k) PROVE LeaseInv'
  <2> USE <1>1 DEF Enqueue, workerVars
  <2>1. \A w \in Workers : Holding(w)' = Holding(w) /\ Holding(w) \subseteq Keys
    BY DEF Holding
  <2>2. \A j \in Keys : status[j] # "NONE" => status'[j] = status[j]
    OBVIOUS
  <2>3. \A w \in Workers : \A j \in Holding(w) : status'[j] = status[j]
    BY <2>1, <2>2 DEF LeaseInv, HeldRows
  <2>4. \A w \in Workers : pc[w] = "picking" => \A j \in batch[w] : status'[j] = status[j]
    BY <2>2 DEF LeaseInv, LockedRows
  <2> QED
    BY <2>1, <2>3, <2>4
    DEF LeaseInv, HeldRows, LeaseAge, LockedRows, LocksDisjoint, LeaseExclusive
<1>2. ASSUME NEW w \in Workers, PickLock(w) PROVE LeaseInv'
  <2> USE <1>2 DEF PickLock, tableVars
  <2>1. \A k \in batch'[w] : k \in Keys /\ Pickable(k) /\ ~Locked(k)
    BY OldestIsSubset
  <2>2. \A v \in Workers : Holding(v)' = Holding(v) /\ (v # w => held'[v] = held[v])
    BY DEF Holding
  <2>3. Holding(w) = {}
    BY DEF Holding
  <2>4. HeldRows' /\ LeaseAge' /\ LeaseExclusive'
    BY <2>2, <2>3 DEF LeaseInv, HeldRows, LeaseAge, LeaseExclusive
  <2>5. LockedRows'
    BY <2>1 DEF LeaseInv, LockedRows, Pickable, Expired
  <2>6. LocksDisjoint'
    BY <2>1 DEF LeaseInv, LocksDisjoint, Locked
  <2> QED BY <2>4, <2>5, <2>6 DEF LeaseInv
<1>3. ASSUME NEW w \in Workers, PickCommit(w) PROVE LeaseInv'
  <2>1. Holding(w)' = batch[w]
    BY <1>3, NoKeyIsNoKey DEF PickCommit, Holding
  <2>2. \A v \in Workers \ {w} : Holding(v)' = Holding(v)
    BY <1>3 DEF PickCommit, Holding
  <2> QED
    BY <1>3, <2>1, <2>2, LeaseInvLeased DEF PickCommit
<1>4. ASSUME NEW w \in Workers, PickCommitLost(w) PROVE LeaseInv'
  <2>1. Holding(w)' = {}
    BY <1>4 DEF PickCommitLost, ToIdle, Holding
  <2>2. \A v \in Workers \ {w} : Holding(v)' = Holding(v)
    BY <1>4 DEF PickCommitLost, ToIdle, Holding
  <2> QED
    BY <1>4, <2>1, <2>2, LeaseInvLeased DEF PickCommitLost, ToIdle
<1>5. ASSUME NEW w \in Workers, PickRollback(w) \/ MarkFail(w) PROVE LeaseInv'
  <2> USE <1>5 DEF PickRollback, MarkFail, ToIdle
  <2>1. \A v \in Workers : Holding(v)' \subseteq Holding(v)
    BY DEF Holding
  <2>2. Holding(w)' = {}
    BY DEF Holding
  <2> QED BY <2>1, <2>2, LeaseInvShrinks
<1>6. ASSUME NEW w \in Workers,
             SkipUnsupported(w) \/ Dispatch(w) \/ PublishOk(w) \/ PublishErr(w)
               \/ PublishAckLost(w)
      PROVE  LeaseInv'
  <2> USE <1>6 DEF SkipUnsupported, Dispatch, PublishOk, PublishErr,
        PublishAckLost, AttemptFailed, HandlerReturns
  <2>1. UNCHANGED <<tableVars, held>>
    BY DEF tableVars
  <2>2. \A v \in Workers \ {w} : Holding(v)' = Holding(v)
    BY DEF Holding
  <2>3. Holding(w)' \subseteq Holding(w)
    <3>1. CASE SkipUnsupported(w)
      BY <3>1 DEF Holding
    <3>2. CASE Dispatch(w)
      BY <3>2 DEF Holding
    <3>3. CASE PublishOk(w)
      BY <3>3, NoKeyIsNoKey DEF Holding
    <3>4. CASE PublishErr(w) \/ PublishAckLost(w)
      BY <3>4 DEF Holding
    <3> QED BY <3>1, <3>2, <3>3, <3>4
  <2>4. \A v \in Workers : pc'[v] = "picking" => pc[v] = "picking" /\ batch'[v] = batch[v]
    OBVIOUS
  <2> QED BY <2>1, <2>2, <2>3, <2>4, LeaseInvShrinks
<1>7. ASSUME NEW w \in Workers, MarkSuccess(w) PROVE LeaseInv'
  <2> USE <1>7 DEF MarkSuccess, BatchDone, ToIdle
  <2>1. \A k \in Keys :
          \/ status'[k] = status[k] /\ age'[k] = age[k]
          \/ k \in okKeys[w] /\ status'[k] = "SUCCESS"
    OBVIOUS
  <2>2. \A v \in Workers : Holding(v)' \subseteq Holding(v) /\ Holding(v) \subseteq Keys
    BY DEF Holding
  <2>3. Holding(w)' = {} /\ \A v \in Workers \ {w} : held'[v] = held[v]
    BY DEF Holding
  <2>4. HeldRows'
    BY <2>1, <2>2 DEF LeaseInv, HeldRows
  <2>5. LeaseAge'
    BY <2>1, <2>2, <2>3 DEF LeaseInv, LeaseAge
  <2>6. LockedRows'
    BY <2>1 DEF LeaseInv, LockedRows, Locked
  <2>7. LocksDisjoint'
    BY DEF LeaseInv, LocksDisjoint
  <2>8. LeaseExclusive'
    <3> SUFFICES ASSUME NEW u \in Workers, NEW v \in Workers, u # v,
                        NEW k, k \in Holding(u)', k \in Holding(v)'
                 PROVE  held'[u] > TTL \/ held'[v] > TTL
      BY DEF LeaseExclusive
    <3> QED BY <2>2, <2>3 DEF LeaseInv, LeaseExclusive
  <2> QED BY <2>4, <2>5, <2>6, <2>7, <2>8 DEF LeaseInv
<1>8. ASSUME NEW p \in Processes, Crash(p) PROVE LeaseInv'
  <2> USE <1>8 DEF Crash
  <2>1. \A v \in Workers : Holding(v)' = {} \/ (Holding(v)' = Holding(v) /\ held'[v] = held[v])
    BY DEF Holding
  <2>2. \A v \in Workers : pc'[v] = "picking" => pc[v] = "picking" /\ batch'[v] = batch[v]
    OBVIOUS
  <2>3. UNCHANGED tableVars
    OBVIOUS
  <2> QED BY <2>1, <2>2, <2>3, LeaseInvShrinks
<1>9. CASE Tick
  <2> USE <1>9 DEF Tick
  <2>1. \A v \in Workers : Holding(v)' = Holding(v) /\ Holding(v) \subseteq Keys
    BY DEF Holding
  <2>2. \A v \in Workers : Holding(v) # {} => held'[v] = Older(held[v])
    BY DEF Holding
  <2>3. \A k \in Keys : status[k] = "IN_PROGRESS" => age'[k] = Older(age[k])
    OBVIOUS
  <2>4. HeldRows' /\ LocksDisjoint'
    BY <2>1 DEF LeaseInv, HeldRows, LocksDisjoint
  <2>5. LeaseAge'
    BY <2>1, <2>2, <2>3, OlderType, BoundsAssumption DEF LeaseInv, LeaseAge
  <2>6. LockedRows'
    BY <2>3, OlderType, BoundsAssumption DEF LeaseInv, LockedRows
  <2>7. LeaseExclusive'
    <3> SUFFICES ASSUME NEW u \in Workers, NEW v \in Workers, u # v,
                        NEW k, k \in Holding(u), k \in Holding(v)
                 PROVE  held'[u] > TTL \/ held'[v] > TTL
      BY <2>1 DEF LeaseExclusive
    <3> QED BY <2>2, OlderType, BoundsAssumption DEF LeaseInv, LeaseExclusive
  <2> QED BY <2>4, <2>5, <2>6, <2>7 DEF LeaseInv
<1>10. CASE UNCHANGED vars
  BY <1>10 DEF vars, LeaseInv, HeldRows, LeaseAge, LockedRows, LocksDisjoint,
     LeaseExclusive, Holding
<1> QED
  BY <1>1, <1>2, <1>3, <1>4, <1>5, <1>6, <1>7, <1>8, <1>9, <1>10
  DEF Next, Progress, Failure

THEOREM LeaseInvariant == Spec => []LeaseInv
<1>1. Init => LeaseInv
  BY DEF Init, LeaseInv, HeldRows, LeaseAge, LockedRows, LocksDisjoint,
     LeaseExclusive, Holding
<1>2. Typed /\ LeaseInv /\ [Next]_vars => LeaseInv'
  BY LeaseInvStep
<1> QED
  BY <1>1, <1>2, TypedInvariant, PTL DEF Spec

\* Two workers work on one row only if one of them has had it for longer than
\* the TTL.
THEOREM LeaseExcludes == Spec => []LeaseExclusive
<1>1. LeaseInv => LeaseExclusive
  BY DEF LeaseInv
<1> QED
  BY <1>1, LeaseInvariant, PTL

-----------------------------------------------------------------------------
(***************************************************************************)
(* Publications.  A key enters okKeys only when its message was written.   *)
(***************************************************************************)
PublishInv ==
  /\ \A w \in Workers : \A k \in okKeys[w] : published[k] > 0
  /\ SuccessIsPublished

\* published never decreases.
LEMMA WrittenGrows ==
  ASSUME Typed, NEW k \in Keys, Written(k)
  PROVE  /\ published'[k] > 0
         /\ \A j \in Keys : j # k => published'[j] = published[j]
         /\ \A j \in Keys : published[j] > 0 => published'[j] > 0
BY DEF Written, Typed, TypeOK

LEMMA PublishInvStep ==
  ASSUME Typed, PublishInv, [Next]_vars
  PROVE  PublishInv'
<1> USE DEF Typed, TypeOK, Shape, PublishInv, SuccessIsPublished
<1>1. ASSUME NEW k \in Keys, Enqueue(k) PROVE PublishInv'
  BY <1>1 DEF Enqueue, workerVars
<1>2. ASSUME NEW w \in Workers, PickLock(w) PROVE PublishInv'
  BY <1>2 DEF PickLock, tableVars
<1>3. ASSUME NEW w \in Workers, PickCommit(w) PROVE PublishInv'
  BY <1>3 DEF PickCommit, Leased
<1>4. ASSUME NEW w \in Workers, PickCommitLost(w) PROVE PublishInv'
  BY <1>4 DEF PickCommitLost, Leased, ToIdle
<1>5. ASSUME NEW w \in Workers, PickRollback(w) \/ MarkFail(w) PROVE PublishInv'
  BY <1>5 DEF PickRollback, MarkFail, ToIdle, tableVars
<1>6. ASSUME NEW w \in Workers, SkipUnsupported(w) \/ Dispatch(w) \/ PublishErr(w)
      PROVE  PublishInv'
  BY <1>6 DEF SkipUnsupported, Dispatch, PublishErr, AttemptFailed,
     HandlerReturns, tableVars
<1>7. ASSUME NEW w \in Workers, PublishOk(w) PROVE PublishInv'
  <2>1. cur[w] \in Keys
    BY <1>7 DEF PublishOk
  <2> QED
    BY <1>7, <2>1, WrittenGrows DEF PublishOk, HandlerReturns, tableVars
<1>8. ASSUME NEW w \in Workers, PublishAckLost(w) PROVE PublishInv'
  <2>1. cur[w] \in Keys
    BY <1>8 DEF PublishAckLost
  <2>2. okKeys' = okKeys
    BY <1>8 DEF PublishAckLost, AttemptFailed
  <2> QED
    BY <1>8, <2>1, <2>2, WrittenGrows DEF PublishAckLost, tableVars
<1>9. ASSUME NEW w \in Workers, MarkSuccess(w) PROVE PublishInv'
  BY <1>9 DEF MarkSuccess, ToIdle
<1>10. ASSUME NEW p \in Processes, Crash(p) PROVE PublishInv'
  BY <1>10 DEF Crash, tableVars
<1>11. CASE Tick
  BY <1>11 DEF Tick
<1>12. CASE UNCHANGED vars
  BY <1>12 DEF vars
<1> QED
  BY <1>1, <1>2, <1>3, <1>4, <1>5, <1>6, <1>7, <1>8, <1>9, <1>10, <1>11, <1>12
  DEF Next, Progress, Failure

THEOREM PublishInvariant == Spec => []PublishInv
<1>1. Init => PublishInv
  BY DEF Init, PublishInv, SuccessIsPublished
<1>2. Typed /\ PublishInv /\ [Next]_vars => PublishInv'
  BY PublishInvStep
<1> QED
  BY <1>1, <1>2, TypedInvariant, PTL DEF Spec

\* No row is closed that was not published.
THEOREM ClosedIsPublished == Spec => []SuccessIsPublished
<1>1. PublishInv => SuccessIsPublished
  BY DEF PublishInv
<1> QED
  BY <1>1, PublishInvariant, PTL

-----------------------------------------------------------------------------
(***************************************************************************)
(* The relay implements its contract: every step is a step of the contract *)
(* or leaves its variables unchanged.                                      *)
(***************************************************************************)
LEMMA ContractStep ==
  ASSUME Typed, LeaseInv, PublishInv, [Next]_vars
  PROVE  [Contract!Next]_(Contract!contractVars)
<1> DEFINE stages == [k \in Keys |-> Stage(k)]
           delivereds == {k \in Keys : published[k] > 0}
<1> USE DEF Typed, TypeOK, Shape, Contract!contractVars
<1>a. SUFFICES [Contract!Next]_<<stages, delivereds>>
  BY DEF Contract!contractVars
<1>1. ASSUME NEW k \in Keys, Enqueue(k) PROVE [Contract!Next]_<<stages, delivereds>>
  <2>1. CASE status[k] = "NONE"
    <3>1. Contract!Store(k)
      BY <1>1, <2>1 DEF Enqueue, Stage, Contract!Store
    <3> QED BY <3>1 DEF Contract!Next
  <2>2. CASE status[k] # "NONE"
    BY <1>1, <2>2 DEF Enqueue, Stage
  <2> QED BY <2>1, <2>2
<1>2. ASSUME NEW w \in Workers,
             PickLock(w) \/ SkipUnsupported(w) \/ Dispatch(w) \/ PickRollback(w)
               \/ PublishErr(w) \/ MarkFail(w)
      PROVE  UNCHANGED <<stages, delivereds>>
  BY <1>2 DEF PickLock, SkipUnsupported, Dispatch, PickRollback, PublishErr,
     MarkFail, tableVars, Stage
<1>3. ASSUME NEW w \in Workers, PickCommit(w) \/ PickCommitLost(w)
      PROVE  UNCHANGED <<stages, delivereds>>
  <2>1. \A k \in batch[w] : status[k] \in {"CREATED", "IN_PROGRESS"}
    BY <1>3 DEF PickCommit, PickCommitLost, LeaseInv, LockedRows
  <2>2. \A k \in Keys : Stage(k)' = Stage(k)
    BY <1>3, <2>1 DEF PickCommit, PickCommitLost, Leased, Stage
  <2> QED
    BY <1>3, <2>2 DEF PickCommit, PickCommitLost
<1>4. ASSUME NEW w \in Workers, PublishOk(w) \/ PublishAckLost(w)
      PROVE  [Contract!Next]_<<stages, delivereds>>
  <2>1. cur[w] \in Keys \ Unsupported /\ Written(cur[w]) /\ status' = status
    BY <1>4 DEF PublishOk, PublishAckLost, tableVars
  <2>2. PICK k \in Keys \ Unsupported : k = cur[w]
    BY <2>1
  <2>3. k \in Holding(w)
    BY <1>4, <2>2, NoKeyIsNoKey DEF PublishOk, PublishAckLost, Holding
  <2>4. stages[k] # "absent" /\ stages' = stages
    BY <2>1, <2>3 DEF LeaseInv, HeldRows, Stage
  <2>5. Written(k)
    BY <2>1, <2>2 DEF Written
  <2>6. delivereds' = delivereds \cup {k}
    <3>1. \A j \in Keys : published'[j] > 0 <=> (j = k \/ published[j] > 0)
      BY <2>5, WrittenGrows
    <3> QED BY <3>1
  <2>7. Contract!Deliver(k)
    BY <2>4, <2>6 DEF Contract!Deliver
  <2> QED BY <2>7 DEF Contract!Next
<1>5. ASSUME NEW w \in Workers, MarkSuccess(w)
      PROVE  [Contract!Next]_<<stages, delivereds>>
  <2> DEFINE S == {k \in okKeys[w] : status[k] = "IN_PROGRESS"}
  <2>1. S \in SUBSET Keys
    OBVIOUS
  <2>2. \A k \in S : stages[k] = "open" /\ k \in delivereds
    BY <2>1 DEF PublishInv, Stage
  <2>3. stages' = [k \in Keys |-> IF k \in S THEN "closed" ELSE stages[k]]
    BY <1>5 DEF MarkSuccess, Stage
  <2>4. delivereds' = delivereds
    BY <1>5 DEF MarkSuccess
  <2>5. Contract!Close(S)
    BY <2>2, <2>3, <2>4 DEF Contract!Close
  <2> QED BY <2>1, <2>5 DEF Contract!Next
<1>6. ASSUME NEW p \in Processes, Crash(p) PROVE UNCHANGED <<stages, delivereds>>
  BY <1>6 DEF Crash, tableVars, Stage
<1>7. CASE Tick
  BY <1>7 DEF Tick, Stage
<1>8. CASE UNCHANGED vars
  BY <1>8 DEF vars, Stage
<1> QED
  BY <1>1, <1>2, <1>3, <1>4, <1>5, <1>6, <1>7, <1>8 DEF Next, Progress, Failure

\* The relay with its leases, crashes and lost answers implements the
\* at-least-once contract.
THEOREM RelayImplementsContract == Spec => ImplementsContract
<1>1. Init => Contract!Init
  BY DEF Init, Contract!Init, Stage
<1>2. Typed /\ LeaseInv /\ PublishInv /\ [Next]_vars
        => [Contract!Next]_(Contract!contractVars)
  BY ContractStep
<1> QED
  BY <1>1, <1>2, TypedInvariant, LeaseInvariant, PublishInvariant, PTL
  DEF Spec, ImplementsContract, Contract!SafetySpec

-----------------------------------------------------------------------------
(***************************************************************************)
(* Duplicates.  As long as a row was neither leased twice nor written by a *)
(* failed call, it has one holder at most, and a row that was published is *)
(* not waiting in anybody's batch.                                         *)
(***************************************************************************)
Suspect == repicked \cup ackLost

Waiting(w) ==
  IF pc[w] \in {"dispatch", "publish"} THEN batch[w] \cup ({cur[w]} \ {NoKey}) ELSE {}

\* A row that was never leased was never published.
FreshRows == \A k \in Keys : status[k] \in {"NONE", "CREATED"} => published[k] = 0

\* The row whose handler runs is no longer in the batch.
CurNotInBatch == \A w \in Workers : cur[w] \notin batch[w]

OneHolder ==
  \A v, w \in Workers : v # w => Holding(v) \cap Holding(w) \subseteq Suspect

PublishedNotWaiting ==
  \A k \in Keys \ Suspect : published[k] > 0 => \A w \in Workers : k \notin Waiting(w)

DuplicateInv ==
  FreshRows /\ CurNotInBatch /\ OneHolder /\ PublishedNotWaiting /\ DuplicateHasCause

LEMMA WaitingIsHeld ==
  ASSUME NEW w \in Workers
  PROVE  Waiting(w) \subseteq Holding(w)
BY DEF Waiting, Holding

\* A step that publishes nothing, gives nobody more rows to work on and makes
\* no row fresh again preserves the invariant.
LEMMA DuplicateInvShrinks ==
  ASSUME DuplicateInv, published' = published, Suspect \subseteq Suspect',
         \A k \in Keys : status'[k] \in {"NONE", "CREATED"} => status[k] \in {"NONE", "CREATED"},
         \A w \in Workers : Holding(w)' \subseteq Holding(w),
         \A w \in Workers : Waiting(w)' \subseteq Waiting(w),
         \A w \in Workers : cur'[w] \notin batch'[w]
  PROVE  DuplicateInv'
<1> USE DEF DuplicateInv
<1>1. FreshRows'
  BY DEF FreshRows
<1>2. CurNotInBatch'
  BY DEF CurNotInBatch
<1>3. OneHolder'
  BY DEF OneHolder
<1>4. PublishedNotWaiting'
  BY DEF PublishedNotWaiting
<1>5. DuplicateHasCause'
  BY DEF DuplicateHasCause, Suspect
<1> QED BY <1>1, <1>2, <1>3, <1>4, <1>5

LEMMA DuplicateInvStep ==
  ASSUME Typed, LeaseInv, DuplicateInv, [Next]_vars
  PROVE  DuplicateInv'
<1> USE DEF Typed, TypeOK, Shape
<1>1. ASSUME NEW k \in Keys, Enqueue(k) PROVE DuplicateInv'
  <2>1. \A w \in Workers : Holding(w)' = Holding(w) /\ Waiting(w)' = Waiting(w)
    BY <1>1 DEF Enqueue, workerVars, Holding, Waiting
  <2>2. Suspect' = Suspect /\ published' = published
    BY <1>1 DEF Enqueue, historyVars, Suspect
  <2>3. \A j \in Keys : status'[j] \in {"NONE", "CREATED"} => status[j] \in {"NONE", "CREATED"}
    BY <1>1 DEF Enqueue
  <2>4. \A w \in Workers : cur'[w] \notin batch'[w]
    BY <1>1 DEF Enqueue, workerVars, DuplicateInv, CurNotInBatch
  <2> QED BY <2>1, <2>2, <2>3, <2>4, DuplicateInvShrinks
<1>2. ASSUME NEW w \in Workers, PickLock(w) PROVE DuplicateInv'
  <2> USE <1>2 DEF PickLock, tableVars, historyVars
  <2>1. batch'[w] \subseteq Keys
    BY OldestIsSubset
  <2>2. \A v \in Workers : Holding(v)' \subseteq Holding(v) /\ Waiting(v)' \subseteq Waiting(v)
    BY DEF Holding, Waiting
  <2>3. \A v \in Workers : cur'[v] \notin batch'[v]
    BY <2>1, NoKeyIsNoKey DEF DuplicateInv, CurNotInBatch
  <2>4. Suspect' = Suspect
    BY DEF Suspect
  <2> QED BY <2>2, <2>3, <2>4, DuplicateInvShrinks
<1>3. ASSUME NEW w \in Workers, PickCommit(w) PROVE DuplicateInv'
  <2> USE <1>3 DEF PickCommit, Leased
  <2>1. Holding(w)' = batch[w] /\ Waiting(w)' = batch[w]
    BY NoKeyIsNoKey DEF Holding, Waiting
  <2>2. \A v \in Workers \ {w} : Holding(v)' = Holding(v) /\ Waiting(v)' = Waiting(v)
    BY DEF Holding, Waiting
  <2>3. Suspect \subseteq Suspect'
    BY DEF Suspect
  <2>4. \A k \in batch[w] \ Suspect' :
          /\ published[k] = 0
          /\ \A v \in Workers : k \notin Holding(v)
    <3> SUFFICES ASSUME NEW k \in batch[w], k \notin Suspect'
                 PROVE  published[k] = 0 /\ \A v \in Workers : k \notin Holding(v)
      OBVIOUS
    <3>1. status[k] = "CREATED"
      BY DEF LeaseInv, LockedRows, Suspect
    <3> QED BY <3>1 DEF DuplicateInv, FreshRows, LeaseInv, HeldRows
  <2>5. FreshRows' /\ CurNotInBatch' /\ DuplicateHasCause'
    BY <2>3 DEF DuplicateInv, FreshRows, CurNotInBatch, DuplicateHasCause, Suspect
  <2>6. OneHolder'
    <3> SUFFICES ASSUME NEW u \in Workers, NEW v \in Workers, u # v,
                        NEW k, k \in Holding(u)', k \in Holding(v)', k \notin Suspect'
                 PROVE  FALSE
      BY DEF OneHolder
    <3> QED BY <2>1, <2>2, <2>3, <2>4 DEF DuplicateInv, OneHolder
  <2>7. PublishedNotWaiting'
    BY <2>1, <2>2, <2>3, <2>4 DEF DuplicateInv, PublishedNotWaiting
  <2> QED BY <2>5, <2>6, <2>7 DEF DuplicateInv
<1>4. ASSUME NEW w \in Workers, PickCommitLost(w) PROVE DuplicateInv'
  <2> USE <1>4 DEF PickCommitLost, Leased, ToIdle
  <2>1. \A v \in Workers : Holding(v)' \subseteq Holding(v) /\ Waiting(v)' \subseteq Waiting(v)
    BY DEF Holding, Waiting
  <2>2. Suspect \subseteq Suspect'
    BY DEF Suspect
  <2>3. \A v \in Workers : cur'[v] \notin batch'[v]
    BY DEF DuplicateInv, CurNotInBatch
  <2> QED BY <2>1, <2>2, <2>3, DuplicateInvShrinks
<1>5. ASSUME NEW w \in Workers, PickRollback(w) \/ MarkFail(w) PROVE DuplicateInv'
  <2> USE <1>5 DEF PickRollback, MarkFail, ToIdle, tableVars, historyVars
  <2>1. \A v \in Workers : Holding(v)' \subseteq Holding(v) /\ Waiting(v)' \subseteq Waiting(v)
    BY DEF Holding, Waiting
  <2>2. Suspect' = Suspect
    BY DEF Suspect
  <2>3. \A v \in Workers : cur'[v] \notin batch'[v]
    BY DEF DuplicateInv, CurNotInBatch
  <2> QED BY <2>1, <2>2, <2>3, DuplicateInvShrinks
<1>6. ASSUME NEW w \in Workers, SkipUnsupported(w) PROVE DuplicateInv'
  <2> USE <1>6 DEF SkipUnsupported, tableVars, historyVars
  <2>1. \A v \in Workers : Holding(v)' \subseteq Holding(v) /\ Waiting(v)' \subseteq Waiting(v)
    BY DEF Holding, Waiting
  <2>2. Suspect' = Suspect
    BY DEF Suspect
  <2>3. \A v \in Workers : cur'[v] \notin batch'[v]
    BY DEF DuplicateInv, CurNotInBatch
  <2> QED BY <2>1, <2>2, <2>3, DuplicateInvShrinks
<1>7. ASSUME NEW w \in Workers, Dispatch(w) PROVE DuplicateInv'
  <2> USE <1>7 DEF Dispatch, tableVars, historyVars
  <2>1. \A v \in Workers : Holding(v)' \subseteq Holding(v) /\ Waiting(v)' \subseteq Waiting(v)
    BY DEF Holding, Waiting
  <2>2. Suspect' = Suspect
    BY DEF Suspect
  <2>3. \A v \in Workers : cur'[v] \notin batch'[v]
    BY DEF DuplicateInv, CurNotInBatch
  <2> QED BY <2>1, <2>2, <2>3, DuplicateInvShrinks
<1>8. ASSUME NEW w \in Workers, PublishErr(w) PROVE DuplicateInv'
  <2> USE <1>8 DEF PublishErr, AttemptFailed, HandlerReturns, tableVars, historyVars
  <2>1. \A v \in Workers : Holding(v)' \subseteq Holding(v) /\ Waiting(v)' \subseteq Waiting(v)
    BY DEF Holding, Waiting
  <2>2. Suspect' = Suspect
    BY DEF Suspect
  <2>3. \A v \in Workers : cur'[v] \notin batch'[v]
    BY NoKeyIsNoKey DEF DuplicateInv, CurNotInBatch
  <2> QED BY <2>1, <2>2, <2>3, DuplicateInvShrinks
<1>9. ASSUME NEW w \in Workers, PublishOk(w) PROVE DuplicateInv'
  <2> USE <1>9 DEF PublishOk, HandlerReturns, tableVars, historyVars
  <2>1. PICK k \in Keys : k = cur[w]
    OBVIOUS
  <2>2. k \in Waiting(w) /\ k \in Holding(w)
    BY <2>1, NoKeyIsNoKey DEF Waiting, Holding
  <2>3. Waiting(w)' \subseteq Waiting(w) \ {k}
    BY <2>1 DEF Waiting, DuplicateInv, CurNotInBatch
  <2>4. Holding(w)' \subseteq Holding(w)
    BY <2>1, NoKeyIsNoKey DEF Holding
  <2>5. \A v \in Workers \ {w} : Holding(v)' = Holding(v) /\ Waiting(v)' = Waiting(v)
    BY DEF Holding, Waiting
  <2>6. Suspect' = Suspect
    BY DEF Suspect
  <2>7. published' = [published EXCEPT ![k] = IF @ = 0 THEN 1 ELSE 2]
    BY <2>1 DEF Written
  <2>8. FreshRows'
    BY <2>2, <2>7 DEF DuplicateInv, FreshRows, LeaseInv, HeldRows
  <2>9. CurNotInBatch'
    BY NoKeyIsNoKey DEF DuplicateInv, CurNotInBatch
  <2>10. OneHolder'
    BY <2>4, <2>5, <2>6 DEF DuplicateInv, OneHolder
  <2>11. DuplicateHasCause'
    BY <2>2, <2>6, <2>7 DEF DuplicateInv, DuplicateHasCause, PublishedNotWaiting, Suspect
  <2>12. PublishedNotWaiting'
    <3> SUFFICES ASSUME NEW j \in Keys \ Suspect, published'[j] > 0,
                        NEW v \in Workers, j \in Waiting(v)'
                 PROVE  FALSE
      BY <2>6 DEF PublishedNotWaiting
    <3>1. CASE j = k /\ v # w
      BY <3>1, <2>2, <2>5, WaitingIsHeld DEF DuplicateInv, OneHolder
    <3>2. CASE j = k /\ v = w
      BY <3>2, <2>3
    <3>3. CASE j # k
      BY <3>3, <2>3, <2>5, <2>7 DEF DuplicateInv, PublishedNotWaiting
    <3> QED BY <3>1, <3>2, <3>3
  <2> QED BY <2>8, <2>9, <2>10, <2>11, <2>12 DEF DuplicateInv
<1>10. ASSUME NEW w \in Workers, PublishAckLost(w) PROVE DuplicateInv'
  <2> USE <1>10 DEF PublishAckLost, AttemptFailed, HandlerReturns, tableVars
  <2>1. PICK k \in Keys : k = cur[w]
    OBVIOUS
  <2>2. k \in Holding(w)
    BY <2>1, NoKeyIsNoKey DEF Holding
  <2>3. \A v \in Workers : Holding(v)' \subseteq Holding(v) /\ Waiting(v)' \subseteq Waiting(v)
    BY DEF Holding, Waiting
  <2>4. Suspect' = Suspect \cup {k}
    BY <2>1 DEF Suspect
  <2>5. published' = [published EXCEPT ![k] = IF @ = 0 THEN 1 ELSE 2]
    BY <2>1 DEF Written
  <2>6. FreshRows'
    BY <2>2, <2>5 DEF DuplicateInv, FreshRows, LeaseInv, HeldRows
  <2>7. CurNotInBatch'
    BY NoKeyIsNoKey DEF DuplicateInv, CurNotInBatch
  <2>8. OneHolder'
    BY <2>3, <2>4 DEF DuplicateInv, OneHolder
  <2>9. DuplicateHasCause' /\ PublishedNotWaiting'
    BY <2>3, <2>4, <2>5
    DEF DuplicateInv, DuplicateHasCause, PublishedNotWaiting, Suspect
  <2> QED BY <2>6, <2>7, <2>8, <2>9 DEF DuplicateInv
<1>11. ASSUME NEW w \in Workers, MarkSuccess(w) PROVE DuplicateInv'
  <2> USE <1>11 DEF MarkSuccess, BatchDone, ToIdle, historyVars
  <2>1. \A v \in Workers : Holding(v)' \subseteq Holding(v) /\ Waiting(v)' \subseteq Waiting(v)
    BY DEF Holding, Waiting
  <2>2. Suspect' = Suspect
    BY DEF Suspect
  <2>3. \A v \in Workers : cur'[v] \notin batch'[v]
    BY DEF DuplicateInv, CurNotInBatch
  <2> QED BY <2>1, <2>2, <2>3, DuplicateInvShrinks
<1>12. ASSUME NEW p \in Processes, Crash(p) PROVE DuplicateInv'
  <2> USE <1>12 DEF Crash, tableVars, historyVars
  <2>1. \A v \in Workers : Holding(v)' \subseteq Holding(v) /\ Waiting(v)' \subseteq Waiting(v)
    BY DEF Holding, Waiting
  <2>2. Suspect' = Suspect
    BY DEF Suspect
  <2>3. \A v \in Workers : cur'[v] \notin batch'[v]
    BY DEF DuplicateInv, CurNotInBatch
  <2> QED BY <2>1, <2>2, <2>3, DuplicateInvShrinks
<1>13. CASE Tick \/ UNCHANGED vars
  <2> USE <1>13 DEF Tick, vars, historyVars
  <2>1. \A v \in Workers : Holding(v)' = Holding(v) /\ Waiting(v)' = Waiting(v)
    BY DEF Holding, Waiting
  <2>2. Suspect' = Suspect /\ status' = status /\ published' = published
    BY DEF Suspect
  <2>3. \A v \in Workers : cur'[v] \notin batch'[v]
    BY DEF DuplicateInv, CurNotInBatch
  <2> QED BY <2>1, <2>2, <2>3, DuplicateInvShrinks
<1> QED
  BY <1>1, <1>2, <1>3, <1>4, <1>5, <1>6, <1>7, <1>8, <1>9, <1>10, <1>11, <1>12,
     <1>13
  DEF Next, Progress, Failure

\* A row reaches Kafka twice only after its lease ran out and was taken again
\* or Kafka failed a call whose message it had written.
THEOREM DuplicatesHaveCause == Spec => []DuplicateHasCause
<1>1. Init => DuplicateInv
  BY NoKeyIsNoKey DEF Init, DuplicateInv, FreshRows, CurNotInBatch, OneHolder,
     PublishedNotWaiting, DuplicateHasCause, Holding, Waiting
<1>2. Typed /\ LeaseInv /\ DuplicateInv /\ [Next]_vars => DuplicateInv'
  BY DuplicateInvStep
<1>3. DuplicateInv => DuplicateHasCause
  BY DEF DuplicateInv
<1> QED
  BY <1>1, <1>2, <1>3, TypedInvariant, LeaseInvariant, PTL DEF Spec
=============================================================================
