--------------------------- MODULE NotifierProofs ---------------------------
(***************************************************************************)
(* Proofs about the email notifier, for any number of notifiers, checks,   *)
(* messages and faults.  It is an instance of the consumer loop, so what   *)
(* ConsumerProofs shows of the loop holds of it; the rest counts mails:    *)
(* every mail on an offset, every notifier about to send one and the       *)
(* chance that the owner fetches the offset yet are paid for by a fault,   *)
(* but for one.                                                            *)
(***************************************************************************)
EXTENDS Notifier, ConsumerProofs, FiniteSetTheorems

\* The offsets there can be.
Places == 0..(MaxLog - 1)

\* Notifiers that may send a mail on o yet, and those that have sent one.
Holding(o) == {m \in Members : mpc[m] = "handle" /\ cur[m] = o /\ step[m] # "store"}
Storing(o) == {m \in Members : mpc[m] = "handle" /\ cur[m] = o /\ step[m] = "store"}

\* The owner's reader has o before it.
Ahead(o) == IF pos[owner] <= o THEN 1 ELSE 0

MailBudget == \A o \in Places : sent[o] + Cardinality(Holding(o)) + Ahead(o) <= 1 + faults

StoreBudget == \A o \in Places : stored[o] + Cardinality(Storing(o)) <= sent[o]

\* What has come to an end was told, or reported.
Told ==
  /\ \A m \in Members : step[m] = "store" => sent[cur[m]] > 0
  /\ \A o \in Finished : log[o + 1] \in Checks => sent[o] > 0 \/ o \in refused

NotifierInv == ConsumerInv /\ TypeOK /\ MailBudget /\ StoreBudget /\ Told

LEMMA NotifierRefinesConsumer == [Next]_vars => [ConsumerNext]_consumerVars
BY NotifierAssumption
DEF Next, NotifierStep, vars, Announce, DeleteCheck, Loop, Crash, Undecodable, Ignore, LookUp,
    LookUpFails, SendOk, SendFails, StoreOk, StoreFails, ConsumerNext, ConsumerStep

\* The notifier's loop is the consumer's loop.
THEOREM NotifierImplementsConsumer == Spec => ConsumerSpec
<1>1. Init => ConsumerInit
  BY DEF Init
<1> QED BY <1>1, NotifierRefinesConsumer, PTL DEF Spec, ConsumerSpec

\* A message in a notifier's hands has its place.
LEMMA HandledPlace ==
  ASSUME NotifierInv, NEW m \in Members, mpc[m] # "fetch"
  PROVE  cur[m] \in Offsets /\ cur[m] \in Places /\ Event(m) \in Payloads
BY ConsumerAssumption
DEF NotifierInv, ConsumerInv, ConsumerTypeOK, InHand, Offsets, Places, Event

LEMMA CopiesType == MaxCopies \in Nat /\ MaxFaults + 1 < MaxCopies
BY ConsumerAssumption DEF MaxCopies

\* One copy more, unless they are no longer counted.
LEMMA MoreCopies ==
  ASSUME NEW f \in [Places -> 0..MaxCopies], NEW o \in Places, NEW g,
         g = [f EXCEPT ![o] = IF @ < MaxCopies THEN @ + 1 ELSE @]
  PROVE  /\ g \in [Places -> 0..MaxCopies]
         /\ \A p \in Places : p # o => g[p] = f[p]
         /\ g[o] = IF f[o] < MaxCopies THEN f[o] + 1 ELSE f[o]
<1>1. f[o] \in 0..MaxCopies
  OBVIOUS
<1>2. (IF f[o] < MaxCopies THEN f[o] + 1 ELSE f[o]) \in 0..MaxCopies
  BY <1>1, CopiesType
<1> QED BY <1>2

LEMMA TypeStep ==
  ASSUME NotifierInv, [Next]_vars, ConsumerTypeOK'
  PROVE  TypeOK'
<1> USE ConsumerAssumption, NotifierAssumption
    DEF NotifierInv, TypeOK, Places, brokerVars, notifierVars
<1> DEFINE Typed ==
             /\ live \subseteq Checks
             /\ stored \in [Places -> 0..MaxCopies]
             /\ sent \in [Places -> 0..MaxCopies]
             /\ refused \subseteq Offsets
             /\ step \in [Members -> {"start", "send", "store"}]
           Mailing(m) == step[m] # "start" => mpc[m] = "handle" /\ Event(m) \in Checks
<1>1. ASSUME NEW p \in Payloads, Announce(p) PROVE TypeOK'
  <2>1. Offsets \subseteq Offsets'
    BY <1>1 DEF Announce, Produce, Offsets, ConsumerTypeOK
  <2>2. ASSUME NEW m \in Members PROVE Mailing(m)'
    <3>1. step[m] # "start" => cur[m] \in Offsets
      BY HandledPlace
    <3>2. cur[m] \in Offsets => log'[cur[m] + 1] = log[cur[m] + 1]
      <4>1. log \in Seq(Payloads) /\ log' = Append(log, p)
        BY <1>1 DEF Announce, Produce, ConsumerTypeOK
      <4> QED BY <4>1 DEF Offsets
    <3> QED BY <1>1, <3>1, <3>2 DEF Announce, Produce, Event
  <2> QED BY <1>1, <2>1, <2>2 DEF Announce, Produce
<1>2. ASSUME NEW c \in Checks, DeleteCheck(c) PROVE TypeOK'
  BY <1>2, CopiesType DEF DeleteCheck, consumerVars, Event, Offsets
<1>3. ASSUME NEW m \in Members, Loop(m) PROVE TypeOK'
  <2>1. Typed'
    BY <1>3, HandledPlace DEF Loop, Fetch, Commit, CommitFail, Rebalance, Offsets
  <2>2. ASSUME NEW n \in Members PROVE Mailing(n)'
    BY <1>3, <2>2 DEF Loop, Fetch, Commit, CommitFail, Rebalance, Event, ConsumerTypeOK
  <2> QED BY <2>1, <2>2
<1>4. ASSUME NEW m \in Members, Crash(m) PROVE TypeOK'
  <2>1. Typed'
    BY <1>4, HandledPlace DEF Crash, Restart, Goes, Offsets
  <2>2. ASSUME NEW n \in Members PROVE Mailing(n)'
    BY <1>4, <2>2 DEF Crash, Restart, Goes, Event, ConsumerTypeOK
  <2> QED BY <2>1, <2>2
<1>5. ASSUME NEW m \in Members, Undecodable(m) \/ Ignore(m) PROVE TypeOK'
  <2>1. Typed'
    BY <1>5, HandledPlace DEF Undecodable, Ignore, Handling, HandlerOk, HandlerErr, Offsets
  <2>2. ASSUME NEW n \in Members PROVE Mailing(n)'
    BY <1>5, <2>2 DEF Undecodable, Ignore, Handling, HandlerOk, HandlerErr, Event, ConsumerTypeOK
  <2> QED BY <2>1, <2>2
<1>6. ASSUME NEW m \in Members, LookUp(m) PROVE TypeOK'
  <2>1. Typed'
    BY <1>6, HandledPlace DEF LookUp, Handling, Goes, consumerVars, Offsets
  <2>2. ASSUME NEW n \in Members PROVE Mailing(n)'
    BY <1>6, <2>2 DEF LookUp, Handling, Goes, consumerVars, Event, ConsumerTypeOK
  <2> QED BY <2>1, <2>2
<1>7. ASSUME NEW m \in Members, LookUpFails(m) PROVE TypeOK'
  <2>1. Typed'
    BY <1>7, HandledPlace DEF LookUpFails, Handling, HandlerFault, HandlerErr, Offsets
  <2>2. ASSUME NEW n \in Members PROVE Mailing(n)'
    BY <1>7, <2>2 DEF LookUpFails, Handling, HandlerFault, HandlerErr, Event, ConsumerTypeOK
  <2> QED BY <2>1, <2>2
<1>8. ASSUME NEW m \in Members, SendOk(m) PROVE TypeOK'
  <2>1. Typed'
    <3>1. cur[m] \in Offsets /\ cur[m] \in Places
      BY <1>8, HandledPlace DEF SendOk, Handling
    <3>2. ASSUME Mailed(m) PROVE sent' \in [Places -> 0..MaxCopies]
      <4>1. sent \in [Places -> 0..MaxCopies]
        OBVIOUS
      <4> QED BY <3>1, <3>2, <4>1, MoreCopies DEF Mailed
    <3> QED BY <1>8, <3>1, <3>2 DEF SendOk, Handling, Goes, consumerVars, Offsets
  <2>2. ASSUME NEW n \in Members PROVE Mailing(n)'
    BY <1>8, <2>2 DEF SendOk, Handling, Mailed, Goes, consumerVars, Event, ConsumerTypeOK
  <2> QED BY <2>1, <2>2
<1>9. ASSUME NEW m \in Members, SendFails(m) PROVE TypeOK'
  <2>1. Typed'
    <3>1. cur[m] \in Offsets /\ cur[m] \in Places
      BY <1>9, HandledPlace DEF SendFails, Handling
    <3>2. ASSUME Mailed(m) PROVE sent' \in [Places -> 0..MaxCopies]
      <4>1. sent \in [Places -> 0..MaxCopies]
        OBVIOUS
      <4> QED BY <3>1, <3>2, <4>1, MoreCopies DEF Mailed
    <3> QED BY <1>9, <3>1, <3>2 DEF SendFails, Handling, Goes, HandlerFault, Offsets
  <2>2. ASSUME NEW n \in Members PROVE Mailing(n)'
    BY <1>9, <2>2 DEF SendFails, Handling, Mailed, Goes, HandlerFault, Event, ConsumerTypeOK
  <2> QED BY <2>1, <2>2
<1>10. ASSUME NEW m \in Members, StoreOk(m) PROVE TypeOK'
  <2>1. Typed'
    <3>1. cur[m] \in Places
      BY <1>10, HandledPlace DEF StoreOk, Handling
    <3>2. stored' \in [Places -> 0..MaxCopies]
      BY <1>10, <3>1, MoreCopies DEF StoreOk
    <3> QED BY <1>10, <3>2 DEF StoreOk, Handling, Goes, HandlerOk, Offsets
  <2>2. ASSUME NEW n \in Members PROVE Mailing(n)'
    BY <1>10, <2>2 DEF StoreOk, Handling, Goes, HandlerOk, Event, ConsumerTypeOK
  <2> QED BY <2>1, <2>2
<1>11. ASSUME NEW m \in Members, StoreFails(m) PROVE TypeOK'
  <2>1. Typed'
    BY <1>11, HandledPlace DEF StoreFails, Handling, Goes, HandlerOk, HandlerHidesFault, Offsets
  <2>2. ASSUME NEW n \in Members PROVE Mailing(n)'
    BY <1>11, <2>2 DEF StoreFails, Handling, Goes, HandlerOk, HandlerHidesFault, Event, ConsumerTypeOK
  <2> QED BY <2>1, <2>2
<1>12. CASE UNCHANGED vars
  BY <1>12 DEF vars, consumerVars, Event, Offsets
<1> QED
  BY <1>1, <1>2, <1>3, <1>4, <1>5, <1>6, <1>7, <1>8, <1>9, <1>10, <1>11, <1>12
  DEF Next, NotifierStep

-----------------------------------------------------------------------------
\* Nothing takes a mail back.
LEMMA MailsStay ==
  ASSUME NotifierInv, [Next]_vars
  PROVE  /\ \A o \in Places : sent[o] \in 0..MaxCopies /\ sent'[o] >= sent[o]
         /\ refused \subseteq refused'
<1> USE DEF NotifierInv, TypeOK, Places, brokerVars, notifierVars
<1>1. ASSUME NEW m \in Members, mpc[m] # "fetch", Mailed(m)
      PROVE  \A o \in Places : sent'[o] >= sent[o]
  <2>1. cur[m] \in Places /\ sent[cur[m]] \in 0..MaxCopies
    BY <1>1, HandledPlace
  <2> QED BY <1>1, <2>1, CopiesType, MoreCopies DEF Mailed
<1>2. ASSUME sent' = sent PROVE \A o \in Places : sent'[o] >= sent[o]
  <2>1. \A o \in Places : sent[o] \in Nat
    BY CopiesType
  <2> QED BY <1>2, <2>1
<1>3. ASSUME NEW m \in Members, SendOk(m) \/ SendFails(m)
      PROVE  \A o \in Places : sent'[o] >= sent[o]
  <2>1. mpc[m] # "fetch" /\ (Mailed(m) \/ sent' = sent)
    BY <1>3 DEF SendOk, SendFails, Handling
  <2> QED BY <1>1, <1>2, <2>1
<1>4. ASSUME NEW m \in Members, NotifierStep(m)
      PROVE  SendOk(m) \/ SendFails(m) \/ sent' = sent
  <2>1. Loop(m) \/ Crash(m) \/ Undecodable(m) \/ Ignore(m) => sent' = sent
    BY DEF Loop, Crash, Undecodable, Ignore
  <2>2. LookUp(m) \/ LookUpFails(m) \/ StoreOk(m) \/ StoreFails(m) => sent' = sent
    BY DEF LookUp, LookUpFails, StoreOk, StoreFails
  <2> QED BY <1>4, <2>1, <2>2 DEF NotifierStep
<1>5. \A o \in Places : sent'[o] >= sent[o]
  BY <1>2, <1>3, <1>4 DEF Next, Announce, DeleteCheck, vars
<1>6. ASSUME NEW m \in Members, NotifierStep(m) PROVE refused \subseteq refused'
  BY <1>6 DEF NotifierStep, Loop, Crash, Undecodable, Ignore, LookUp, LookUpFails, SendOk,
              SendFails, StoreOk, StoreFails
<1>7. refused \subseteq refused'
  BY <1>6 DEF Next, Announce, DeleteCheck, vars
<1> QED BY <1>5, <1>7

\* What Told asks of a step: a notifier in "store" was there before or has
\* sent its mail, and what comes to an end was told or reported.
LEMMA ToldFrame ==
  ASSUME NotifierInv, [Next]_vars, TypeOK',
         \A o \in Offsets : log'[o + 1] = log[o + 1],
         \A n \in Members : step'[n] = "store" =>
           (step[n] = "store" /\ cur'[n] = cur[n]) \/ sent'[cur'[n]] > 0,
         \A o \in Finished' : o \in Finished \/
           (o \in Offsets /\ (log[o + 1] \in Checks => sent'[o] > 0 \/ o \in refused'))
  PROVE  Told'
<1>1. ASSUME NEW n \in Members, step'[n] = "store" PROVE sent'[cur'[n]] > 0
  <2>1. CASE step[n] = "store" /\ cur'[n] = cur[n]
    <3>1. cur[n] \in Places /\ sent[cur[n]] > 0
      BY <2>1, HandledPlace DEF NotifierInv, TypeOK, Told
    <3> QED BY <2>1, <3>1, MailsStay, CopiesType DEF TypeOK, Places
  <2> QED BY <1>1, <2>1
<1>2. ASSUME NEW o \in Finished', log'[o + 1] \in Checks PROVE sent'[o] > 0 \/ o \in refused'
  <2>1. CASE o \in Finished
    <3>1. o \in Offsets /\ o \in Places
      BY <2>1, ConsumerAssumption DEF NotifierInv, TypeOK, ConsumerTypeOK, Finished, Offsets, Places
    <3>2. sent[o] > 0 \/ o \in refused
      BY <1>2, <2>1, <3>1 DEF NotifierInv, Told
    <3> QED BY <3>1, <3>2, MailsStay, CopiesType DEF TypeOK, Places
  <2>2. CASE o \notin Finished
    BY <1>2, <2>2
  <2> QED BY <2>1, <2>2
<1> QED BY <1>1, <1>2 DEF Told

LEMMA ToldStep ==
  ASSUME NotifierInv, [Next]_vars, TypeOK'
  PROVE  Told'
<1> USE DEF NotifierInv, TypeOK, ConsumerTypeOK, brokerVars, notifierVars, Finished
<1>1. ASSUME NEW p \in Payloads, Announce(p) PROVE Told'
  <2>1. ASSUME NEW o \in Offsets PROVE log'[o + 1] = log[o + 1]
    BY <1>1 DEF Announce, Produce, Offsets
  <2> QED BY <1>1, <2>1, ToldFrame DEF Announce, Produce
<1>2. ASSUME NEW c \in Checks, DeleteCheck(c) PROVE Told'
  BY <1>2, ToldFrame DEF DeleteCheck, consumerVars
<1>3. ASSUME NEW m \in Members, Loop(m) PROVE Told'
  BY <1>3, ToldFrame DEF Loop, Fetch, Commit, CommitFail, Rebalance
<1>4. ASSUME NEW m \in Members, Crash(m) PROVE Told'
  BY <1>4, ToldFrame DEF Crash, Restart, Goes
<1>5. ASSUME NEW m \in Members, Undecodable(m) \/ Ignore(m) PROVE Told'
  <2>1. cur[m] \in Offsets /\ log[cur[m] + 1] \notin Checks
    BY <1>5, HandledPlace, NotifierAssumption DEF Undecodable, Ignore, Handling, Event
  <2> QED BY <1>5, <2>1, ToldFrame DEF Undecodable, Ignore, HandlerOk, HandlerErr
<1>6. ASSUME NEW m \in Members, LookUp(m) PROVE Told'
  BY <1>6, ToldFrame DEF LookUp, Goes, consumerVars
<1>7. ASSUME NEW m \in Members, LookUpFails(m) PROVE Told'
  <2>1. cur[m] \in Offsets
    BY <1>7, HandledPlace DEF LookUpFails, Handling
  <2>2. failed' = failed \cup {cur[m]} /\ handled' = handled /\ log' = log /\ cur' = cur
    BY <1>7 DEF LookUpFails, HandlerFault, HandlerErr
  <2>3. refused' = refused \cup {cur[m]} /\ step' = step
    BY <1>7 DEF LookUpFails
  <2> QED BY <2>1, <2>2, <2>3, ToldFrame
<1>8. ASSUME NEW m \in Members, SendOk(m) PROVE Told'
  <2>1. cur[m] \in Places
    BY <1>8, HandledPlace DEF SendOk, Handling
  <2>2. sent'[cur[m]] > 0
    <3>1. sent \in [Places -> 0..MaxCopies] /\ sent[cur[m]] \in 0..MaxCopies
      BY <2>1 DEF Places
    <3>2. sent'[cur[m]] = IF sent[cur[m]] < MaxCopies THEN sent[cur[m]] + 1 ELSE sent[cur[m]]
      BY <1>8, <2>1, <3>1, MoreCopies DEF SendOk, Mailed
    <3>3. MaxCopies \in Nat /\ MaxCopies > 0
      BY ConsumerAssumption DEF MaxCopies
    <3> HIDE DEF NotifierInv, TypeOK, ConsumerTypeOK
    <3>4. CASE sent[cur[m]] < MaxCopies
      BY <3>1, <3>2, <3>3, <3>4
    <3>5. CASE ~(sent[cur[m]] < MaxCopies)
      BY <3>1, <3>2, <3>3, <3>5
    <3> QED BY <3>4, <3>5
  <2>3. failed' = failed /\ handled' = handled /\ log' = log /\ cur' = cur
    BY <1>8 DEF SendOk, consumerVars
  <2>4. step' = [step EXCEPT ![m] = "store"]
    BY <1>8 DEF SendOk, Goes
  <2>5. \A n \in Members : step'[n] = "store" =>
          (step[n] = "store" /\ cur'[n] = cur[n]) \/ sent'[cur'[n]] > 0
    BY <2>2, <2>3, <2>4
  <2> QED BY <2>3, <2>5, ToldFrame
<1>9. ASSUME NEW m \in Members, SendFails(m) PROVE Told'
  <2>1. cur[m] \in Offsets
    BY <1>9, HandledPlace DEF SendFails, Handling
  <2>2. failed' = failed \cup {cur[m]} /\ handled' = handled /\ log' = log /\ cur' = cur
    BY <1>9 DEF SendFails, HandlerFault
  <2>3. refused' = refused \cup {cur[m]} /\ step' = [step EXCEPT ![m] = "start"]
    BY <1>9 DEF SendFails, Goes
  <2>4. \A n \in Members : step'[n] = "store" => step[n] = "store" /\ cur'[n] = cur[n]
    BY <2>2, <2>3
  <2>5. \A o \in Finished' : o \in Finished \/ (o \in Offsets /\ o \in refused')
    BY <2>1, <2>2, <2>3
  <2> QED BY <2>2, <2>4, <2>5, ToldFrame
<1>10. ASSUME NEW m \in Members, StoreOk(m) \/ StoreFails(m) PROVE Told'
  <2>1. cur[m] \in Offsets /\ sent[cur[m]] > 0 /\ sent' = sent
    BY <1>10, HandledPlace DEF StoreOk, StoreFails, Handling, Told
  <2>2. handled' = handled \cup {cur[m]} /\ failed' = failed /\ log' = log /\ cur' = cur
    BY <1>10 DEF StoreOk, StoreFails, HandlerOk, HandlerHidesFault
  <2>3. step' = [step EXCEPT ![m] = "start"]
    BY <1>10 DEF StoreOk, StoreFails, Goes
  <2> QED BY <2>1, <2>2, <2>3, ToldFrame
<1>11. CASE UNCHANGED vars
  BY <1>11, ToldFrame DEF vars, consumerVars
<1> QED
  BY <1>1, <1>2, <1>3, <1>4, <1>5, <1>6, <1>7, <1>8, <1>9, <1>10, <1>11
  DEF Next, NotifierStep

-----------------------------------------------------------------------------
\* A part of a finite set has fewer members, and at most one more than what it
\* is a part of but for one.
LEMMA Fewer ==
  ASSUME NEW S, NEW T, IsFiniteSet(T), S \subseteq T
  PROVE  /\ Cardinality(S) \in Nat /\ Cardinality(T) \in Nat
         /\ Cardinality(S) <= Cardinality(T)
         /\ \A x \in T \ S : Cardinality(S) + 1 <= Cardinality(T)
<1>1. IsFiniteSet(S) /\ Cardinality(S) \in Nat /\ Cardinality(T) \in Nat
  BY FS_Subset, FS_CardinalityType
<1>2. Cardinality(S) <= Cardinality(T)
  BY FS_Subset
<1>3. ASSUME NEW x \in T \ S PROVE Cardinality(S) + 1 <= Cardinality(T)
  <2>1. S \cup {x} \subseteq T
    BY <1>3
  <2>2. Cardinality(S \cup {x}) <= Cardinality(T)
    BY <2>1, FS_Subset
  <2>3. Cardinality(S \cup {x}) = Cardinality(S) + 1
    BY <1>1, <1>3, FS_AddElement
  <2> QED BY <2>2, <2>3
<1> QED BY <1>1, <1>2, <1>3

LEMMA OneMore ==
  ASSUME NEW S, NEW T, NEW x, IsFiniteSet(T), S \subseteq T \cup {x}
  PROVE  /\ Cardinality(S) \in Nat /\ Cardinality(T) \in Nat
         /\ Cardinality(S) <= Cardinality(T) + 1
<1>1. IsFiniteSet(T \cup {x}) /\ Cardinality(T) \in Nat
      /\ Cardinality(T \cup {x}) \in Nat
      /\ Cardinality(T \cup {x}) <= Cardinality(T) + 1
  <2>1. IsFiniteSet(T \cup {x}) /\ Cardinality(T) \in Nat /\ Cardinality(T \cup {x}) \in Nat
    BY FS_AddElement, FS_CardinalityType
  <2>2. Cardinality(T \cup {x}) = Cardinality(T) \/ Cardinality(T \cup {x}) = Cardinality(T) + 1
    BY FS_AddElement
  <2> QED BY <2>1, <2>2
<1> QED BY <1>1, Fewer

\* What the budgets are counted in.
LEMMA BudgetType ==
  ASSUME NotifierInv, NEW o \in Places
  PROVE  /\ sent[o] \in 0..MaxCopies /\ stored[o] \in 0..MaxCopies
         /\ IsFiniteSet(Holding(o)) /\ IsFiniteSet(Storing(o))
         /\ Cardinality(Holding(o)) \in Nat /\ Cardinality(Storing(o)) \in Nat
         /\ faults \in Nat /\ MaxCopies \in Nat
         /\ sent[o] + Cardinality(Holding(o)) + Ahead(o) <= 1 + faults
         /\ stored[o] + Cardinality(Storing(o)) <= sent[o]
<1>1. sent[o] \in 0..MaxCopies /\ stored[o] \in 0..MaxCopies
  BY DEF NotifierInv, TypeOK, Places
<1>2. faults \in Nat /\ MaxCopies \in Nat
  BY CopiesType DEF NotifierInv, TypeOK, ConsumerTypeOK
<1>3. Holding(o) \subseteq Members /\ Storing(o) \subseteq Members /\ IsFiniteSet(Members)
  BY NotifierAssumption DEF Holding, Storing
<1>4. IsFiniteSet(Holding(o)) /\ IsFiniteSet(Storing(o))
  BY <1>3, FS_Subset
<1> QED
  BY <1>1, <1>2, <1>4, FS_CardinalityType DEF NotifierInv, MailBudget, StoreBudget

LEMMA Balance ==
  ASSUME NEW s \in Nat, NEW t \in Nat, NEW f \in Nat, NEW g \in Nat,
         NEW h \in Nat, NEW i \in Nat, NEW a \in {0, 1}, NEW b \in {0, 1},
         t + i <= s + h, b + f <= a + g, s + h + a <= 1 + f
  PROVE  t + i + b <= 1 + g
OBVIOUS

\* A step in which the mails on o, the notifiers about to send one and the
\* chance to fetch it grow by no more than the faults.
LEMMA MailFrame ==
  ASSUME NotifierInv, NEW o \in Places,
         Holding(o)' \subseteq Holding(o),
         sent'[o] \in Nat, faults' \in Nat,
         \/ sent'[o] = sent[o]
         \/ sent'[o] <= sent[o] + 1 /\ Holding(o) \ Holding(o)' # {},
         \/ Ahead(o)' = Ahead(o) /\ faults' >= faults
         \/ faults' = faults + 1
  PROVE  sent'[o] + Cardinality(Holding(o)') + Ahead(o)' <= 1 + faults'
<1>1. Ahead(o) \in {0, 1} /\ Ahead(o)' \in {0, 1}
  BY DEF Ahead
<1>2. /\ Cardinality(Holding(o)') \in Nat /\ Cardinality(Holding(o)) \in Nat
      /\ Cardinality(Holding(o)') <= Cardinality(Holding(o))
      /\ \A x \in Holding(o) \ Holding(o)' :
            Cardinality(Holding(o)') + 1 <= Cardinality(Holding(o))
  BY BudgetType, Fewer
<1>3. sent[o] \in Nat /\ faults \in Nat
      /\ sent[o] + Cardinality(Holding(o)) + Ahead(o) <= 1 + faults
  BY BudgetType
<1>4. sent'[o] + Cardinality(Holding(o)') <= sent[o] + Cardinality(Holding(o))
  BY <1>2, <1>3
<1>5. Ahead(o)' + faults <= Ahead(o) + faults'
  BY <1>1, <1>3
<1> QED BY <1>1, <1>2, <1>3, <1>4, <1>5, Balance

\* A step in which the rows of o and the notifiers about to add one grow by no
\* more than the mails.
LEMMA StoreFrame ==
  ASSUME NotifierInv, NEW o \in Places,
         Storing(o)' \subseteq Storing(o),
         stored'[o] \in Nat, sent'[o] \in Nat, sent'[o] >= sent[o],
         \/ stored'[o] <= stored[o]
         \/ stored'[o] <= stored[o] + 1 /\ Storing(o) \ Storing(o)' # {}
  PROVE  stored'[o] + Cardinality(Storing(o)') <= sent'[o]
<1>1. /\ Cardinality(Storing(o)') \in Nat /\ Cardinality(Storing(o)) \in Nat
      /\ Cardinality(Storing(o)') <= Cardinality(Storing(o))
      /\ \A x \in Storing(o) \ Storing(o)' :
            Cardinality(Storing(o)') + 1 <= Cardinality(Storing(o))
  BY BudgetType, Fewer
<1>2. sent[o] \in Nat /\ stored[o] \in Nat
      /\ stored[o] + Cardinality(Storing(o)) <= sent[o]
  BY BudgetType
<1>3. stored'[o] + Cardinality(Storing(o)') <= stored[o] + Cardinality(Storing(o))
  BY <1>1, <1>2
<1> QED BY <1>1, <1>2, <1>3

LEMMA MailStep ==
  ASSUME NotifierInv, [Next]_vars, TypeOK'
  PROVE  MailBudget'
<1> SUFFICES ASSUME NEW o \in Places
             PROVE  sent'[o] + Cardinality(Holding(o)') + Ahead(o)' <= 1 + faults'
  BY DEF MailBudget, Places
<1> USE DEF brokerVars, notifierVars
<1>0. /\ sent'[o] \in Nat /\ sent[o] \in Nat /\ faults' \in Nat /\ faults \in Nat
      /\ mpc \in [Members -> {"fetch", "handle", "commit"}]
      /\ step \in [Members -> {"start", "send", "store"}]
      /\ cur \in [Members -> Nat] /\ pos \in [Members -> Nat] /\ owner \in Members
      /\ \A n \in Members : mpc[n] # "fetch" => cur[n] \in Places
      /\ \A n \in Members : step[n] # "start" => mpc[n] = "handle"
  <2>1. sent[o] \in Nat /\ faults \in Nat
    BY BudgetType
  <2>2. sent'[o] \in Nat /\ faults' \in Nat
    <3>1. sent' \in [Places -> 0..MaxCopies] /\ faults' \in 0..MaxFaults
      BY DEF TypeOK, ConsumerTypeOK, Places
    <3> QED BY <3>1, CopiesType, ConsumerAssumption
  <2>3. \A n \in Members : mpc[n] # "fetch" => cur[n] \in Places
    BY HandledPlace
  <2>4. pos \in [Members -> Nat]
    BY DEF NotifierInv, TypeOK, ConsumerTypeOK
  <2>5. \A n \in Members : step[n] # "start" => mpc[n] = "handle"
    BY DEF NotifierInv, TypeOK
  <2> QED BY <2>1, <2>2, <2>3, <2>4, <2>5 DEF NotifierInv, TypeOK, ConsumerTypeOK
<1> DEFINE Quiet == Holding(o)' \subseteq Holding(o)
           Paid == (Ahead(o)' = Ahead(o) /\ faults' >= faults) \/ faults' = faults + 1
<1>1. ASSUME Quiet, Paid, sent' = sent
      PROVE  sent'[o] + Cardinality(Holding(o)') + Ahead(o)' <= 1 + faults'
  BY <1>0, <1>1, MailFrame
<1>2. ASSUME NEW p \in Payloads, Announce(p) PROVE Quiet /\ Paid /\ sent' = sent
  BY <1>0, <1>2 DEF Announce, Produce, Holding, Ahead
<1>3. ASSUME NEW c \in Checks, DeleteCheck(c) PROVE Quiet /\ Paid /\ sent' = sent
  BY <1>0, <1>3 DEF DeleteCheck, consumerVars, Holding, Ahead
<1>4. ASSUME NEW m \in Members, Fetch(m), UNCHANGED notifierVars
      PROVE  sent'[o] + Cardinality(Holding(o)') + Ahead(o)' <= 1 + faults'
  <2>1. sent' = sent /\ faults' = faults /\ owner' = owner /\ owner = m /\ mpc[m] = "fetch"
        /\ step' = step /\ mpc' = [mpc EXCEPT ![m] = "handle"]
        /\ cur' = [cur EXCEPT ![m] = pos[m]] /\ pos' = [pos EXCEPT ![m] = @ + 1]
    BY <1>4 DEF Fetch
  <2>2. CASE o = pos[m]
    <3>1. Holding(o)' \subseteq Holding(o) \cup {m}
      BY <1>0, <2>1 DEF Holding
    <3>2. Ahead(o) = 1 /\ Ahead(o)' = 0
      BY <1>0, <2>1, <2>2 DEF Ahead
    <3>3. /\ Cardinality(Holding(o)') <= Cardinality(Holding(o)) + 1
          /\ Cardinality(Holding(o)') \in Nat
      BY <3>1, BudgetType, OneMore
    <3>4. Cardinality(Holding(o)) \in Nat /\ sent[o] + Cardinality(Holding(o)) + Ahead(o) <= 1 + faults
      BY BudgetType
    <3> QED BY <1>0, <2>1, <3>2, <3>3, <3>4
  <2>3. CASE o # pos[m]
    <3>1. Quiet
      BY <1>0, <2>1, <2>3 DEF Holding
    <3>2. Paid
      BY <1>0, <2>1, <2>3 DEF Ahead, Places
    <3> QED BY <1>1, <2>1, <3>1, <3>2
  <2> QED BY <2>2, <2>3
<1>5. ASSUME NEW m \in Members, Commit(m) \/ CommitFail(m), UNCHANGED notifierVars
      PROVE  Quiet /\ Paid /\ sent' = sent
  BY <1>0, <1>5 DEF Commit, CommitFail, Holding, Ahead
<1>6. ASSUME NEW m \in Members, Rebalance(m), UNCHANGED notifierVars
      PROVE  Quiet /\ Paid /\ sent' = sent
  BY <1>0, <1>6 DEF Rebalance, Holding
<1>7. ASSUME NEW m \in Members, Crash(m) PROVE Quiet /\ Paid /\ sent' = sent
  BY <1>0, <1>7 DEF Crash, Restart, Goes, Holding
<1>8. ASSUME NEW m \in Members, Undecodable(m) \/ Ignore(m)
      PROVE  Quiet /\ Paid /\ sent' = sent
  BY <1>0, <1>8 DEF Undecodable, Ignore, HandlerOk, HandlerErr, Holding, Ahead
<1>9. ASSUME NEW m \in Members, LookUp(m) PROVE Quiet /\ Paid /\ sent' = sent
  BY <1>0, <1>9 DEF LookUp, Handling, Goes, consumerVars, Holding, Ahead
<1>10. ASSUME NEW m \in Members, LookUpFails(m) PROVE Quiet /\ Paid /\ sent' = sent
  BY <1>0, <1>10 DEF LookUpFails, HandlerFault, HandlerErr, Holding, Ahead
<1>11. ASSUME NEW m \in Members, Mailed(m), mpc[m] = "handle", cur' = cur,
              step[m] = "send", m \notin Holding(o)', Quiet, Paid
       PROVE  sent'[o] + Cardinality(Holding(o)') + Ahead(o)' <= 1 + faults'
  <2>1. CASE cur[m] = o
    <3>1. m \in Holding(o) \ Holding(o)'
      BY <1>11, <2>1 DEF Holding
    <3>2. sent'[o] <= sent[o] + 1
      <4>1. sent \in [Places -> 0..MaxCopies]
        BY DEF NotifierInv, TypeOK, Places
      <4>2. sent'[o] = IF sent[o] < MaxCopies THEN sent[o] + 1 ELSE sent[o]
        BY <1>11, <2>1, <4>1, MoreCopies DEF Mailed
      <4> QED BY <1>0, <4>2
    <3> QED BY <1>0, <1>11, <3>1, <3>2, MailFrame
  <2>2. CASE cur[m] # o
    <3>1. sent'[o] = sent[o]
      BY <1>11, <2>2 DEF Mailed, NotifierInv, TypeOK, Places
    <3> QED BY <1>0, <1>11, <3>1, MailFrame
  <2> QED BY <2>1, <2>2
<1>12. ASSUME NEW m \in Members, SendOk(m)
       PROVE  sent'[o] + Cardinality(Holding(o)') + Ahead(o)' <= 1 + faults'
  <2>1. Mailed(m) /\ mpc[m] = "handle" /\ step[m] = "send" /\ cur' = cur
    BY <1>12 DEF SendOk, Handling, consumerVars
  <2>2. m \notin Holding(o)' /\ Quiet
    BY <1>0, <1>12 DEF SendOk, Handling, Goes, consumerVars, Holding
  <2>3. Paid
    BY <1>0, <1>12 DEF SendOk, consumerVars, Ahead
  <2> QED BY <1>11, <2>1, <2>2, <2>3
<1>13. ASSUME NEW m \in Members, SendFails(m)
       PROVE  sent'[o] + Cardinality(Holding(o)') + Ahead(o)' <= 1 + faults'
  <2>1. mpc[m] = "handle" /\ step[m] = "send" /\ cur' = cur /\ (Mailed(m) \/ sent' = sent)
    BY <1>13 DEF SendFails, Handling, HandlerFault
  <2>2. m \notin Holding(o)' /\ Quiet
    BY <1>0, <1>13 DEF SendFails, Handling, HandlerFault, Goes, Holding
  <2>3. Paid
    BY <1>0, <1>13 DEF SendFails, HandlerFault
  <2> QED BY <1>1, <1>11, <2>1, <2>2, <2>3
<1>14. ASSUME NEW m \in Members, StoreOk(m) PROVE Quiet /\ Paid /\ sent' = sent
  BY <1>0, <1>14 DEF StoreOk, Handling, HandlerOk, Goes, Holding, Ahead
<1>15. ASSUME NEW m \in Members, StoreFails(m) PROVE Quiet /\ Paid /\ sent' = sent
  BY <1>0, <1>15 DEF StoreFails, Handling, HandlerOk, HandlerHidesFault, Goes, Holding, Ahead
<1>16. CASE UNCHANGED vars
  <2>1. Quiet /\ Paid /\ sent' = sent
    BY <1>0, <1>16 DEF vars, consumerVars, Holding, Ahead
  <2> QED BY <1>1, <2>1
<1> HIDE DEF Quiet, Paid
<1> QED
  BY <1>1, <1>2, <1>3, <1>4, <1>5, <1>6, <1>7, <1>8, <1>9, <1>10, <1>12, <1>13, <1>14, <1>15, <1>16
  DEF Next, NotifierStep, Loop

LEMMA StoreStep ==
  ASSUME NotifierInv, [Next]_vars, TypeOK'
  PROVE  StoreBudget'
<1> SUFFICES ASSUME NEW o \in Places
             PROVE  stored'[o] + Cardinality(Storing(o)') <= sent'[o]
  BY DEF StoreBudget, Places
<1> USE DEF brokerVars, notifierVars
<1>0. /\ stored'[o] \in Nat /\ stored[o] \in Nat /\ sent'[o] \in Nat /\ sent[o] \in Nat
      /\ sent'[o] >= sent[o]
  <2>1. /\ sent' \in [Places -> 0..MaxCopies] /\ stored' \in [Places -> 0..MaxCopies]
    BY DEF TypeOK, Places
  <2> QED BY <2>1, CopiesType, MailsStay, BudgetType
<1>1. /\ mpc \in [Members -> {"fetch", "handle", "commit"}]
      /\ step \in [Members -> {"start", "send", "store"}]
      /\ cur \in [Members -> Nat] /\ stored \in [Places -> 0..MaxCopies]
      /\ \A n \in Members : mpc[n] # "fetch" => cur[n] \in Places
      /\ \A n \in Members : step[n] # "start" => mpc[n] = "handle"
  <2>1. \A n \in Members : mpc[n] # "fetch" => cur[n] \in Places
    BY HandledPlace
  <2>2. \A n \in Members : step[n] # "start" => mpc[n] = "handle"
    BY DEF NotifierInv, TypeOK
  <2> QED BY <2>1, <2>2 DEF NotifierInv, TypeOK, ConsumerTypeOK, Places
<1> DEFINE Quiet == Storing(o)' \subseteq Storing(o)
           Fits == stored'[o] + Cardinality(Storing(o)') <= sent'[o]
<1>2. ASSUME Quiet, stored' = stored PROVE Fits
  BY <1>0, <1>2, StoreFrame
<1>3. ASSUME NEW p \in Payloads, Announce(p) PROVE Quiet /\ stored' = stored
  BY <1>3 DEF Announce, Produce, Storing
<1>4. ASSUME NEW c \in Checks, DeleteCheck(c) PROVE Fits
  <2>1. stored'[o] <= stored[o]
    BY <1>0, <1>4 DEF DeleteCheck, Places
  <2>2. Quiet
    BY <1>4 DEF DeleteCheck, consumerVars, Storing
  <2> QED BY <1>0, <2>1, <2>2, StoreFrame
<1>5. ASSUME NEW m \in Members, Loop(m) PROVE Quiet /\ stored' = stored
  BY <1>1, <1>5 DEF Loop, Fetch, Commit, CommitFail, Rebalance, Storing
<1>6. ASSUME NEW m \in Members, Crash(m) PROVE Quiet /\ stored' = stored
  BY <1>1, <1>6 DEF Crash, Restart, Goes, Storing
<1>7. ASSUME NEW m \in Members, Undecodable(m) \/ Ignore(m) PROVE Quiet /\ stored' = stored
  BY <1>1, <1>7 DEF Undecodable, Ignore, HandlerOk, HandlerErr, Storing
<1>8. ASSUME NEW m \in Members, LookUp(m) PROVE Quiet /\ stored' = stored
  BY <1>1, <1>8 DEF LookUp, Handling, Goes, consumerVars, Storing
<1>9. ASSUME NEW m \in Members, LookUpFails(m) PROVE Quiet /\ stored' = stored
  BY <1>1, <1>9 DEF LookUpFails, HandlerFault, HandlerErr, Storing
<1>10. ASSUME NEW m \in Members, SendOk(m) PROVE Fits
  <2>1. /\ Mailed(m) /\ mpc[m] = "handle" /\ step[m] = "send" /\ cur' = cur /\ mpc' = mpc
        /\ stored' = stored /\ step' = [step EXCEPT ![m] = "store"]
    BY <1>10 DEF SendOk, Handling, Goes, consumerVars
  <2>2. CASE cur[m] # o
    <3>1. Quiet
      BY <1>1, <2>1, <2>2 DEF Storing
    <3> QED BY <1>2, <2>1, <3>1
  <2>3. CASE cur[m] = o
    <3>1. sent[o] < MaxCopies
      <4>1. m \in Holding(o) \ {}
        BY <2>1, <2>3 DEF Holding
      <4>2. Cardinality({}) + 1 <= Cardinality(Holding(o)) /\ Cardinality({}) \in Nat
        BY <4>1, BudgetType, Fewer
      <4>3. sent[o] + Cardinality(Holding(o)) + Ahead(o) <= 1 + faults /\ Ahead(o) \in {0, 1}
        BY BudgetType DEF Ahead
      <4>4. sent[o] <= faults
        BY <1>0, <4>2, <4>3, BudgetType
      <4>5. faults \in 0..MaxFaults
        BY DEF NotifierInv, TypeOK, ConsumerTypeOK
      <4> QED BY <1>0, <4>4, <4>5, CopiesType, ConsumerAssumption
    <3>2. sent'[o] = sent[o] + 1
      <4>1. sent \in [Places -> 0..MaxCopies]
        BY DEF NotifierInv, TypeOK, Places
      <4> QED BY <2>1, <2>3, <3>1, <4>1, MoreCopies DEF Mailed
    <3>3. Storing(o)' \subseteq Storing(o) \cup {m}
      BY <1>1, <2>1 DEF Storing
    <3>4. /\ Cardinality(Storing(o)') \in Nat /\ Cardinality(Storing(o)) \in Nat
          /\ Cardinality(Storing(o)') <= Cardinality(Storing(o)) + 1
      BY <3>3, BudgetType, OneMore
    <3>5. stored[o] + Cardinality(Storing(o)) <= sent[o]
      BY BudgetType
    <3> QED BY <1>0, <2>1, <3>2, <3>4, <3>5
  <2> QED BY <2>2, <2>3
<1>11. ASSUME NEW m \in Members, SendFails(m) PROVE Quiet /\ stored' = stored
  BY <1>1, <1>11 DEF SendFails, Handling, HandlerFault, Goes, Storing
<1>12. ASSUME NEW m \in Members, StoreOk(m) PROVE Fits
  <2>1. /\ mpc[m] = "handle" /\ step[m] = "store" /\ cur' = cur
        /\ mpc' = [mpc EXCEPT ![m] = "commit"] /\ step' = [step EXCEPT ![m] = "start"]
        /\ stored' = [stored EXCEPT ![cur[m]] = IF @ < MaxCopies THEN @ + 1 ELSE @]
    BY <1>12 DEF StoreOk, Handling, HandlerOk, Goes
  <2>2. Quiet /\ m \notin Storing(o)'
    BY <1>1, <2>1 DEF Storing
  <2>3. CASE cur[m] # o
    <3>1. stored'[o] = stored[o]
      BY <1>1, <2>1, <2>3
    <3> QED BY <1>0, <2>2, <3>1, StoreFrame
  <2>4. CASE cur[m] = o
    <3>1. m \in Storing(o) \ Storing(o)'
      BY <2>1, <2>2, <2>4 DEF Storing
    <3>2. stored'[o] = IF stored[o] < MaxCopies THEN stored[o] + 1 ELSE stored[o]
      BY <1>1, <2>1, <2>4, MoreCopies
    <3>3. stored'[o] <= stored[o] + 1
      BY <1>0, <3>2
    <3> QED BY <1>0, <2>2, <3>1, <3>3, StoreFrame
  <2> QED BY <2>3, <2>4
<1>13. ASSUME NEW m \in Members, StoreFails(m) PROVE Quiet /\ stored' = stored
  BY <1>1, <1>13 DEF StoreFails, Handling, HandlerOk, HandlerHidesFault, Goes, Storing
<1>14. CASE UNCHANGED vars
  <2>1. Quiet /\ stored' = stored
    BY <1>14 DEF vars, consumerVars, Storing
  <2> QED BY <1>2, <2>1
<1> HIDE DEF Quiet
<1> QED
  BY <1>2, <1>3, <1>4, <1>5, <1>6, <1>7, <1>8, <1>9, <1>10, <1>11, <1>12, <1>13, <1>14
  DEF Next, NotifierStep

-----------------------------------------------------------------------------
LEMMA NotifierStart == ASSUME Init PROVE NotifierInv
<1> USE ConsumerAssumption, CopiesType DEF Init
<1>1. ConsumerInv
  BY DEF ConsumerInit, ConsumerInv, ConsumerTypeOK, InHand, OwnerPosition, NoSilentSkip,
         CommitFollowsSuccess, Offsets
<1>2. TypeOK
  BY <1>1 DEF ConsumerInv, TypeOK
<1>3. ASSUME NEW o \in Places PROVE Holding(o) = {} /\ Storing(o) = {}
  BY DEF ConsumerInit, Holding, Storing
<1>4. ASSUME NEW o \in Places
      PROVE  /\ sent[o] + Cardinality(Holding(o)) + Ahead(o) <= 1 + faults
             /\ stored[o] + Cardinality(Storing(o)) <= sent[o]
  <2>1. sent[o] = 0 /\ stored[o] = 0 /\ faults = 0
    BY DEF ConsumerInit, Places
  <2>2. Cardinality(Holding(o)) = 0 /\ Cardinality(Storing(o)) = 0
    BY <1>3, FS_EmptySet
  <2>3. Ahead(o) \in {0, 1}
    BY DEF Ahead
  <2> QED BY <2>1, <2>2, <2>3
<1>5. Told
  BY DEF ConsumerInit, Told, Finished
<1> QED BY <1>1, <1>2, <1>4, <1>5 DEF NotifierInv, MailBudget, StoreBudget

LEMMA NotifierInvStep ==
  ASSUME NotifierInv, [Next]_vars
  PROVE  NotifierInv'
<1>1. ConsumerInv'
  BY ConsumerInvStep, NotifierRefinesConsumer DEF NotifierInv
<1>2. TypeOK'
  BY <1>1, TypeStep DEF ConsumerInv
<1> QED BY <1>1, <1>2, MailStep, StoreStep, ToldStep DEF NotifierInv

\* A fault elsewhere takes one from the notifiers, and nothing more.
LEMMA FaultElsewhere ==
  ASSUME NotifierInv, faults' \in faults..MaxFaults,
         UNCHANGED <<log, committed, owner, mpc, pos, cur, handled, failed, notifierVars>>
  PROVE  NotifierInv'
<1> USE DEF notifierVars
<1>1. ConsumerInv'
  BY CopiesType
  DEF NotifierInv, ConsumerInv, ConsumerTypeOK, InHand, OwnerPosition, NoSilentSkip,
      CommitFollowsSuccess, Finished, Offsets
<1>2. TypeOK' /\ Told'
  BY <1>1 DEF ConsumerInv, NotifierInv, TypeOK, Told, Finished, Offsets, Event
<1>3. /\ Places' = Places
      /\ \A o \in Places : Holding(o)' = Holding(o) /\ Storing(o)' = Storing(o) /\ Ahead(o)' = Ahead(o)
  BY DEF Places, Holding, Storing, Ahead
<1>4. StoreBudget'
  BY <1>3 DEF NotifierInv, StoreBudget
<1>5. ASSUME NEW o \in Places
      PROVE  sent[o] + Cardinality(Holding(o)) + Ahead(o) <= 1 + faults'
  <2>1. Ahead(o) \in {0, 1} /\ faults' \in Nat /\ faults' >= faults
    BY BudgetType, CopiesType, ConsumerAssumption DEF Ahead
  <2> QED BY <2>1, BudgetType
<1>6. MailBudget'
  BY <1>3, <1>5 DEF MailBudget
<1> QED BY <1>1, <1>2, <1>4, <1>6 DEF NotifierInv

\* The notifier's inductive invariant holds in every reachable state.
THEOREM NotifierInvariant == Spec => []NotifierInv
<1>1. Init => NotifierInv
  BY NotifierStart
<1>2. NotifierInv /\ [Next]_vars => NotifierInv'
  BY NotifierInvStep
<1> QED BY <1>1, <1>2, PTL DEF Spec

\* What is looked up, mailed and stored is a change of a check, in the
\* handler's hands.
THEOREM NotifierTypeCorrect == Spec => []TypeOK
BY NotifierInvariant, PTL DEF NotifierInv

\* The notifications table never claims a mail that was not sent.
THEOREM RowsAreMails == Spec => []StoredWasSent
<1>1. ASSUME NotifierInv PROVE StoredWasSent
  <2> SUFFICES ASSUME NEW o \in Offsets PROVE stored[o] <= sent[o]
    BY DEF StoredWasSent
  <2>1. o \in Places
    BY <1>1, ConsumerAssumption DEF NotifierInv, TypeOK, ConsumerTypeOK, Offsets, Places
  <2> QED BY <1>1, <2>1, BudgetType
<1> QED BY <1>1, NotifierInvariant, PTL

\* No status change below the committed offset is lost in silence.
THEOREM CommittedIsTold == Spec => []CommittedWasMailed
<1>1. ASSUME NotifierInv PROVE CommittedWasMailed
  BY <1>1 DEF NotifierInv, ConsumerInv, NoSilentSkip, Told, Finished, CommittedWasMailed
<1> QED BY <1>1, NotifierInvariant, PTL

\* Every mail beyond the first for an event is paid for by a fault.
THEOREM RepeatsCostFaults == Spec => []OneMailPerFault
<1>1. ASSUME NotifierInv PROVE OneMailPerFault
  <2> SUFFICES ASSUME NEW o \in Offsets PROVE sent[o] <= 1 + faults
    BY DEF OneMailPerFault
  <2>1. o \in Places
    BY <1>1, ConsumerAssumption DEF NotifierInv, TypeOK, ConsumerTypeOK, Offsets, Places
  <2>2. Ahead(o) \in {0, 1}
    BY DEF Ahead
  <2> QED BY <1>1, <2>1, <2>2, BudgetType
<1> QED BY <1>1, NotifierInvariant, PTL
=============================================================================
