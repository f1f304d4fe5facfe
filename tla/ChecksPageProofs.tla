------------------------- MODULE ChecksPageProofs -------------------------
(***************************************************************************)
(* Proofs about ChecksPage: for any number of checks, loads, faults and    *)
(* other sessions, a page at rest shows what there is.                     *)
(***************************************************************************)
EXTENDS ChecksPage, TLAPS

\* A change has the parts that belong to its progress, a dialog has its check.
ChangeForm ==
  /\ change.op = "none" => change = NoChange
  /\ change.at = "idle" => change.op = "none"
  /\ change.op \in {"edit", "delete"} => change.id \in Ids
  /\ change.op = "create" /\ change.at = "ok" => change.id \in Ids
  /\ dialog.op # "none" => dialog.id \in Ids

\* Nothing is shown, read or changed that never was a check, and the card of
\* a check that is being created or deleted can only come from a load.
Known ==
  /\ \A i \in Ids : shown[i] > 0 => i \in used
  /\ \A l \in Loads : load[l].got \subseteq used
  /\ change.id \in Ids => change.id \in used
  /\ dialog.id \in Ids => dialog.id \in used
  /\ change.op \in {"create", "delete"} /\ change.id \in Ids => shown[change.id] <= 1

\* What a load that met no change has read is what there is.
ReadAlone ==
  \A l \in Loads :
    l \in alone /\ load[l].at # "idle" =>
      /\ change = NoChange
      /\ load[l].at = "read" => load[l].got = rows

\* The row whose card is away: created and not yet shown, or hidden by a
\* deletion that has not taken effect.
Away(i) ==
  /\ change.id = i
  /\ \/ change.op = "create" /\ change.at = "ok"
     \/ change.op = "delete" /\ change.at \in {"sent", "error"}

\* Each row has its card, but for the one that is away.
CardsMatch ==
  ~disturbed =>
    \A i \in Ids :
      /\ Away(i) => i \in rows /\ shown[i] = 0
      /\ ~Away(i) => shown[i] = IF i \in rows THEN 1 ELSE 0

IInv == TypeOK /\ ChangeForm /\ Known /\ ReadAlone /\ CardsMatch

LEMMA InitIInv == Init => IInv
<1> SUFFICES ASSUME Init PROVE IInv
  OBVIOUS
<1> USE ChecksPageAssumption DEF Init, NoChange, NoDialog, NoLoad, CardsOf
<1>1. TypeOK
  BY DEF TypeOK
<1>2. ChangeForm /\ Known /\ ReadAlone /\ CardsMatch
  BY DEF ChangeForm, Known, ReadAlone, CardsMatch
<1> QED
  BY <1>1, <1>2 DEF IInv

-----------------------------------------------------------------------------
LEMMA TypeStep == IInv /\ [Next]_vars => TypeOK'
<1> SUFFICES ASSUME IInv, [Next]_vars PROVE TypeOK'
  OBVIOUS
<1> USE ChecksPageAssumption DEF IInv, TypeOK
<1>1. ASSUME NEW l \in Loads, Refresh(l) PROVE TypeOK'
  BY <1>1 DEF Refresh
<1>2. ASSUME NEW l \in Loads, ListChecks(l) PROVE TypeOK'
  BY <1>2 DEF ListChecks
<1>3. ASSUME NEW l \in Loads, Loaded(l) PROVE TypeOK'
  BY <1>3 DEF Loaded, CardsOf, NoLoad
<1>4. ASSUME NEW l \in Loads, LoadFails(l) PROVE TypeOK'
  BY <1>4 DEF LoadFails, NoLoad
<1>5. CASE Create
  BY <1>5 DEF Create, Begins
<1>6. CASE Serve
  BY <1>6 DEF Serve
<1>7. CASE ServeFails
  BY <1>7 DEF ServeFails
<1>8. CASE Done
  BY <1>8 DEF Done, NoChange, NoDialog, Known, ChangeForm
<1>9. CASE NotDone
  BY <1>9 DEF NotDone, NoChange, Known, ChangeForm
<1>10. CASE Edit
  BY <1>10 DEF Edit, Begins
<1>11. CASE Delete
  BY <1>11 DEF Delete, Begins, NoDialog, ChangeForm
<1>12. ASSUME NEW i \in Ids, Elsewhere(i) PROVE TypeOK'
  BY <1>12 DEF Elsewhere, pageVars
<1>13. CASE UNCHANGED vars
  BY <1>13 DEF vars
<1>14. ASSUME NEW op \in {"edit", "delete"}, NEW i \in Ids, Open(op, i) PROVE TypeOK'
  BY <1>14 DEF Open
<1>15. CASE Cancel
  BY <1>15 DEF Cancel, NoDialog
<1> QED
  BY <1>1, <1>2, <1>3, <1>4, <1>5, <1>6, <1>7, <1>8, <1>9, <1>10, <1>11, <1>12, <1>13, <1>14, <1>15 DEF Next

LEMMA ChangeFormStep == IInv /\ [Next]_vars => ChangeForm'
<1> SUFFICES ASSUME IInv, [Next]_vars PROVE ChangeForm'
  OBVIOUS
<1> USE DEF IInv, TypeOK, ChangeForm, NoChange, NoDialog
<1>1. CASE UNCHANGED <<change, dialog>>
  BY <1>1
<1>2. CASE Create
  BY <1>2 DEF Create, Begins
<1>3. CASE Serve
  BY <1>3 DEF Serve
<1>4. CASE ServeFails \/ Done \/ NotDone
  BY <1>4 DEF ServeFails, Done, NotDone
<1>5. CASE Edit \/ Delete
  BY <1>5 DEF Edit, Delete, Begins, NoDialog
<1>6. ASSUME NEW op \in {"edit", "delete"}, NEW i \in Ids, Open(op, i) PROVE ChangeForm'
  BY <1>6 DEF Open
<1>7. CASE Cancel
  BY <1>7 DEF Cancel, NoDialog
<1> QED
  BY <1>1, <1>2, <1>3, <1>4, <1>5, <1>6, <1>7
     DEF Next, vars, pageVars, Refresh, ListChecks, Loaded, LoadFails, Elsewhere

\* The three outcomes of a change on the server.
LEMMA ServeCases ==
  ASSUME TypeOK, Serve
  PROVE  /\ change.at = "sent" /\ UNCHANGED <<shown, dialog, load, faults, alone, disturbed>>
         /\ change'.op = change.op
         /\ \/ /\ change.op = "create" /\ change'.at = "ok"
               /\ change'.id \in Ids \ used
               /\ rows' = rows \cup {change'.id} /\ used' = used \cup {change'.id}
            \/ /\ change.op = "edit" /\ change'.id = change.id
               /\ UNCHANGED <<rows, used>>
            \/ /\ change.op = "delete" /\ change'.id = change.id
               /\ change.id \in rows /\ change'.at = "ok"
               /\ rows' = rows \ {change.id} /\ UNCHANGED used
            \/ /\ change.op = "delete" /\ change'.id = change.id
               /\ change.id \notin rows /\ change'.at = "error"
               /\ UNCHANGED <<rows, used>>
<1> USE DEF TypeOK, Serve
<1>1. CASE change.op = "create"
  BY <1>1
<1>2. CASE change.op = "edit"
  BY <1>2
<1>3. CASE change.op = "delete" /\ change.id \in rows
  BY <1>3
<1>4. CASE change.op = "delete" /\ change.id \notin rows
  BY <1>4
<1> QED
  BY <1>1, <1>2, <1>3, <1>4

LEMMA KnownStep == IInv /\ [Next]_vars => Known'
<1> SUFFICES ASSUME IInv, [Next]_vars PROVE Known'
  OBVIOUS
<1> USE DEF IInv, TypeOK, Known
<1>1. ASSUME NEW l \in Loads, Refresh(l) PROVE Known'
  BY <1>1 DEF Refresh
<1>2. ASSUME NEW l \in Loads, ListChecks(l) PROVE Known'
  BY <1>2 DEF ListChecks
<1>3. ASSUME NEW l \in Loads, Loaded(l) PROVE Known'
  BY <1>3 DEF Loaded, CardsOf, NoLoad
<1>4. ASSUME NEW l \in Loads, LoadFails(l) PROVE Known'
  BY <1>4 DEF LoadFails, NoLoad
<1>5. CASE Create
  BY <1>5, ChecksPageAssumption DEF Create, Begins
<1>6. CASE Serve
  BY <1>6, ServeCases
<1>7. CASE ServeFails
  BY <1>7 DEF ServeFails
<1>8. CASE Done
  <2>1. change'.id = NoId /\ change'.op = "none"
    BY <1>8 DEF Done, NoChange
  <2>2. \A i \in Ids : shown'[i] > 0 => i \in used
    BY <1>8 DEF Done, ChangeForm
  <2> QED
    BY <1>8, <2>1, <2>2, ChecksPageAssumption DEF Done, NoDialog
<1>9. CASE NotDone
  <2>1. change'.id = NoId /\ change'.op = "none"
    BY <1>9 DEF NotDone, NoChange
  <2>2. \A i \in Ids : shown'[i] > 0 => i \in used
    BY <1>9 DEF NotDone, ChangeForm
  <2> QED
    BY <1>9, <2>1, <2>2, ChecksPageAssumption DEF NotDone
<1>10. CASE Edit
  BY <1>10 DEF Edit, Begins
<1>11. CASE Delete
  BY <1>11, ChecksPageAssumption DEF Delete, Begins, NoDialog, ChangeForm
<1>12. ASSUME NEW i \in Ids, Elsewhere(i) PROVE Known'
  BY <1>12 DEF Elsewhere, pageVars
<1>13. CASE UNCHANGED vars
  BY <1>13 DEF vars
<1>14. ASSUME NEW op \in {"edit", "delete"}, NEW i \in Ids, Open(op, i) PROVE Known'
  BY <1>14 DEF Open
<1>15. CASE Cancel
  BY <1>15, ChecksPageAssumption DEF Cancel, NoDialog
<1> QED
  BY <1>1, <1>2, <1>3, <1>4, <1>5, <1>6, <1>7, <1>8, <1>9, <1>10, <1>11, <1>12, <1>13, <1>14, <1>15 DEF Next

LEMMA ReadAloneStep == IInv /\ [Next]_vars => ReadAlone'
<1> SUFFICES ASSUME IInv, [Next]_vars PROVE ReadAlone'
  OBVIOUS
<1> USE DEF IInv, TypeOK, ReadAlone
<1>1. ASSUME NEW l \in Loads, Refresh(l) PROVE ReadAlone'
  BY <1>1 DEF Refresh
<1>2. ASSUME NEW l \in Loads, ListChecks(l) PROVE ReadAlone'
  BY <1>2 DEF ListChecks
<1>3. ASSUME NEW l \in Loads, Loaded(l) \/ LoadFails(l) PROVE ReadAlone'
  BY <1>3 DEF Loaded, LoadFails, NoLoad
<1>4. CASE Create \/ Edit \/ Delete \/ \E i \in Ids : Elsewhere(i)
  BY <1>4 DEF Create, Edit, Delete, Elsewhere, Begins
<1>5. CASE Serve \/ ServeFails \/ Done \/ NotDone
  <2>1. change.at # "idle"
    BY <1>5 DEF Serve, ServeFails, Done, NotDone
  <2>2. UNCHANGED <<load, alone>>
    BY <1>5 DEF Serve, ServeFails, Done, NotDone
  <2>3. \A l \in Loads : l \in alone => load[l].at = "idle"
    BY <2>1 DEF NoChange
  <2> QED
    BY <2>2, <2>3
<1>6. CASE UNCHANGED vars \/ Cancel \/ \E op \in {"edit", "delete"}, i \in Ids : Open(op, i)
  BY <1>6 DEF vars, Cancel, Open
<1> QED
  BY <1>1, <1>2, <1>3, <1>4, <1>5, <1>6 DEF Next

LEMMA CardsMatchStep == IInv /\ [Next]_vars => CardsMatch'
<1> SUFFICES ASSUME IInv, [Next]_vars PROVE CardsMatch'
  OBVIOUS
<1> USE ChecksPageAssumption DEF IInv, TypeOK, CardsMatch, Away
<1>1. ASSUME NEW l \in Loads, Refresh(l) PROVE CardsMatch'
  BY <1>1 DEF Refresh
<1>2. ASSUME NEW l \in Loads, ListChecks(l) PROVE CardsMatch'
  BY <1>2 DEF ListChecks
<1>3. ASSUME NEW l \in Loads, Loaded(l) PROVE CardsMatch'
  <2> SUFFICES ASSUME l \in alone PROVE CardsMatch'
    BY <1>3 DEF Loaded
  <2>1. change = NoChange /\ load[l].got = rows
    BY <1>3 DEF Loaded, ReadAlone
  <2>2. \A i \in Ids : ~Away(i)'
    BY <1>3, <2>1 DEF Loaded, NoChange
  <2> QED
    BY <1>3, <2>1, <2>2 DEF Loaded, CardsOf
<1>4. ASSUME NEW l \in Loads, LoadFails(l) PROVE CardsMatch'
  BY <1>4 DEF LoadFails
<1>5. CASE Create
  BY <1>5 DEF Create, Begins, NoChange
<1>6. CASE Serve
  BY <1>6, ServeCases DEF Known
<1>7. CASE ServeFails
  BY <1>7 DEF ServeFails
<1>8. CASE Done
  BY <1>8 DEF Done, NoChange, ChangeForm
<1>9. CASE NotDone
  BY <1>9 DEF NotDone, NoChange, ChangeForm
<1>10. CASE Edit
  BY <1>10 DEF Edit, Begins, NoChange
<1>11. CASE Delete
  BY <1>11 DEF Delete, Begins, NoChange
<1>12. ASSUME NEW i \in Ids, Elsewhere(i) PROVE CardsMatch'
  BY <1>12 DEF Elsewhere
<1>13. CASE UNCHANGED vars
  BY <1>13 DEF vars
<1>14. ASSUME NEW op \in {"edit", "delete"}, NEW i \in Ids, Open(op, i) PROVE CardsMatch'
  BY <1>14 DEF Open
<1>15. CASE Cancel
  BY <1>15 DEF Cancel, NoDialog
<1> QED
  BY <1>1, <1>2, <1>3, <1>4, <1>5, <1>6, <1>7, <1>8, <1>9, <1>10, <1>11, <1>12, <1>13, <1>14, <1>15 DEF Next

LEMMA Inductive == Spec => []IInv
<1>1. IInv /\ [Next]_vars => IInv'
  BY TypeStep, ChangeFormStep, KnownStep, ReadAloneStep, CardsMatchStep DEF IInv
<1> QED
  BY <1>1, InitIInv, PTL DEF Spec

-----------------------------------------------------------------------------
\* The types hold, and no check ever has more than two cards.
THEOREM PageTypeCorrect == Spec => []TypeOK
<1>1. IInv => TypeOK
  BY DEF IInv
<1> QED
  BY <1>1, Inductive, PTL

\* A page at rest shows each check once, unless a load overlapped a change,
\* an answer was lost or another session made a change since the last load
\* that met none of that.
THEOREM RestingPageIsRight == Spec => []QuietPageIsRight
<1>1. IInv => QuietPageIsRight
  BY ChecksPageAssumption
     DEF IInv, CardsMatch, Away, QuietPageIsRight, CardsOf, NoChange, TypeOK
<1> QED
  BY <1>1, Inductive, PTL
=============================================================================
