-------------------------- MODULE ConsumerProofs --------------------------
(***************************************************************************)
(* Proofs about the consumer loop, for any number of group members, any    *)
(* messages and any number of rebalances, restarts and failed commits.     *)
(***************************************************************************)
EXTENDS Consumer, TLAPS

\* The offsets whose handler came to an end.
Finished == handled \cup failed

\* A member in its handler or its commit has a message of the log, and has
\* left nothing unfinished behind it.
InHand ==
  \A m \in Members :
    /\ mpc[m] # "fetch" => cur[m] \in Offsets /\ \A o \in 0..(cur[m] - 1) : o \in Finished
    /\ mpc[m] = "commit" => cur[m] \in handled

\* The owner's reader has passed over nothing but the message in its hands.
OwnerPosition ==
  \A o \in 0..(pos[owner] - 1) : o \in Finished \/ (mpc[owner] = "handle" /\ o = cur[owner])

ConsumerInv ==
  ConsumerTypeOK /\ InHand /\ OwnerPosition /\ NoSilentSkip /\ CommitFollowsSuccess

LEMMA ConsumerInvStep ==
  ASSUME ConsumerInv, [ConsumerNext]_consumerVars
  PROVE  ConsumerInv'
<1> USE ConsumerAssumption
    DEF ConsumerInv, ConsumerTypeOK, InHand, OwnerPosition, NoSilentSkip,
        CommitFollowsSuccess, Finished, Offsets
<1>1. ASSUME NEW p \in Payloads, Produce(p) PROVE ConsumerInv'
  <2>1. Len(log') = Len(log) + 1 /\ log' \in Seq(Payloads)
    BY <1>1 DEF Produce
  <2> QED BY <1>1, <2>1 DEF Produce
<1>2. ASSUME NEW m \in Members, Fetch(m) PROVE ConsumerInv'
  <2>1. ConsumerTypeOK' /\ NoSilentSkip' /\ CommitFollowsSuccess'
    BY <1>2 DEF Fetch, brokerVars
  <2>2. \A o \in 0..(pos[m] - 1) : o \in Finished'
    BY <1>2 DEF Fetch
  <2>3. cur'[m] = pos[m] /\ pos'[m] = pos[m] + 1 /\ mpc'[m] = "handle" /\ owner' = m
    BY <1>2 DEF Fetch, brokerVars
  <2>4. pos[m] \in Offsets'
    BY <1>2 DEF Fetch, brokerVars
  <2>5. ASSUME NEW n \in Members
        PROVE  /\ mpc'[n] # "fetch" => cur'[n] \in Offsets' /\ \A o \in 0..(cur'[n] - 1) : o \in Finished'
               /\ mpc'[n] = "commit" => cur'[n] \in handled'
    <3>1. CASE n = m
      BY <3>1, <2>2, <2>3, <2>4
    <3>2. CASE n # m
      BY <3>2, <1>2 DEF Fetch, brokerVars
    <3> QED BY <3>1, <3>2
  <2>6. OwnerPosition'
    BY <2>2, <2>3
  <2>7. InHand'
    BY Zenon, <2>5 DEF InHand
  <2> QED
    BY Zenon, <2>1, <2>6, <2>7 DEF ConsumerInv
<1>3. ASSUME NEW m \in Members, HandlerOk(m) PROVE ConsumerInv'
  BY <1>3 DEF HandlerOk, brokerVars
<1>4. ASSUME NEW m \in Members, HandlerErr(m) PROVE ConsumerInv'
  BY <1>4 DEF HandlerErr, brokerVars
<1>5. ASSUME NEW m \in Members, Commit(m) PROVE ConsumerInv'
  <2>1. cur[m] + 1 \in 0..Len(log) /\ cur[m] \in handled
    BY <1>5 DEF Commit
  <2>2. ConsumerTypeOK'
    BY <1>5, <2>1 DEF Commit
  <2>3. InHand' /\ OwnerPosition'
    BY <1>5 DEF Commit
  <2>4. NoSilentSkip'
    <3>1. ASSUME NEW o \in 0..(committed' - 1) PROVE o \in handled \cup failed
      BY <1>5, <2>1, <3>1 DEF Commit
    <3> QED BY <1>5, <3>1 DEF Commit
  <2>5. CommitFollowsSuccess'
    BY <1>5, <2>1 DEF Commit
  <2> QED
    BY Zenon, <2>2, <2>3, <2>4, <2>5 DEF ConsumerInv
<1>6. ASSUME NEW m \in Members, CommitFail(m) PROVE ConsumerInv'
  BY <1>6 DEF CommitFail, brokerVars
<1>7. ASSUME NEW m \in Members, Rebalance(m) PROVE ConsumerInv'
  BY <1>7 DEF Rebalance, StartOffset
<1>8. ASSUME NEW m \in Members, Restart(m) PROVE ConsumerInv'
  BY <1>8 DEF Restart, StartOffset
<1>9. ASSUME NEW m \in Members, HandlerFault(m) PROVE ConsumerInv'
  <2>1. ConsumerTypeOK'
    <3>1. cur[m] \in Offsets
      BY <1>9 DEF HandlerFault
    <3>2. faults' \in 0..MaxFaults /\ Offsets' = Offsets
      BY <1>9 DEF HandlerFault, brokerVars
    <3>3. handled' \subseteq Offsets /\ failed' \subseteq Offsets
      BY <1>9, <3>1 DEF HandlerFault
    <3> QED
      BY <1>9, <3>2, <3>3 DEF HandlerFault, brokerVars
  <2>2. InHand' /\ OwnerPosition'
    BY <1>9 DEF HandlerFault, brokerVars
  <2>3. NoSilentSkip' /\ CommitFollowsSuccess'
    BY <1>9 DEF HandlerFault, brokerVars
  <2> QED
    BY Zenon, <2>1, <2>2, <2>3 DEF ConsumerInv
<1>10. ASSUME NEW m \in Members, HandlerHidesFault(m) PROVE ConsumerInv'
  <2>1. ConsumerTypeOK'
    <3>1. cur[m] \in Offsets
      BY <1>10 DEF HandlerHidesFault
    <3>2. faults' \in 0..MaxFaults /\ Offsets' = Offsets
      BY <1>10 DEF HandlerHidesFault, brokerVars
    <3>3. handled' \subseteq Offsets /\ failed' \subseteq Offsets
      BY <1>10, <3>1 DEF HandlerHidesFault
    <3> QED
      BY <1>10, <3>2, <3>3 DEF HandlerHidesFault, brokerVars
  <2>2. InHand' /\ OwnerPosition'
    BY <1>10 DEF HandlerHidesFault, brokerVars
  <2>3. NoSilentSkip' /\ CommitFollowsSuccess'
    BY <1>10 DEF HandlerHidesFault, brokerVars
  <2> QED
    BY Zenon, <2>1, <2>2, <2>3 DEF ConsumerInv
<1>11. CASE UNCHANGED consumerVars
  BY <1>11 DEF consumerVars
<1> QED
  BY <1>1, <1>2, <1>3, <1>4, <1>5, <1>6, <1>7, <1>8, <1>9, <1>10, <1>11
  DEF ConsumerNext, ConsumerStep

THEOREM ConsumerInvariant == ConsumerSpec => []ConsumerInv
<1>1. ConsumerInit => ConsumerInv
  BY ConsumerAssumption
  DEF ConsumerInit, ConsumerInv, ConsumerTypeOK, InHand, OwnerPosition,
      NoSilentSkip, CommitFollowsSuccess, Finished, Offsets
<1>2. ConsumerInv /\ [ConsumerNext]_consumerVars => ConsumerInv'
  BY ConsumerInvStep
<1> QED
  BY <1>1, <1>2, PTL DEF ConsumerSpec

\* The consumer's state is well typed.
THEOREM ConsumerTypeCorrect == ConsumerSpec => []ConsumerTypeOK
<1>1. ConsumerInv => ConsumerTypeOK
  BY DEF ConsumerInv
<1> QED
  BY <1>1, ConsumerInvariant, PTL

\* No message below the committed offset was passed over without a handler
\* that ran to its end.
THEOREM NothingSkipped == ConsumerSpec => []NoSilentSkip
<1>1. ConsumerInv => NoSilentSkip
  BY DEF ConsumerInv
<1> QED
  BY <1>1, ConsumerInvariant, PTL

\* Only the success of a message moves the committed offset past it.
THEOREM CommitsFollowSuccess == ConsumerSpec => []CommitFollowsSuccess
<1>1. ConsumerInv => CommitFollowsSuccess
  BY DEF ConsumerInv
<1> QED
  BY <1>1, ConsumerInvariant, PTL
=============================================================================
