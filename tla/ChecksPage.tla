---------------------------- MODULE ChecksPage ----------------------------
(***************************************************************************)
(* The page that lists a user's checks                                     *)
(* (frontend/src/pages/checks/ChecksPage.tsx).  It loads the list, when it *)
(* is opened and at each "Refresh now", and it creates, edits and deletes  *)
(* checks: the list follows such a change by itself, without another load. *)
(* A deletion disappears at once and comes back when it fails.             *)
(*                                                                         *)
(* One change is under way at a time (submitting), but loads are not held  *)
(* back: their answers arrive before, between and after those of changes.  *)
(*                                                                         *)
(* The list is modelled by how many cards a check has; their order, the    *)
(* search field and what a card says are left out, and so is the dialog    *)
(* for a new check, which holds none.  Other sessions of the user create   *)
(* and delete checks, too.                                                 *)
(***************************************************************************)
EXTENDS Naturals

CONSTANTS Ids,      \* ids of checks
          NoId,     \* no id yet
          Loads,    \* loads under way at once
          MaxFaults \* bound on failed calls and on what other sessions do

ASSUME ChecksPageAssumption == NoId \notin Ids /\ MaxFaults \in Nat

VARIABLES
  rows,      \* the user's rows of checks
  used,      \* ids given out
  shown,     \* shown[i]: how many cards of i the page has
  dialog,    \* the edit or delete dialog that is open, and its check
  change,    \* the create, edit or delete under way
  load,      \* load[l]: a load under way and what it read
  faults,
  alone,     \* history: loads during which no change was under way
  disturbed  \* history: the list may differ from the rows, see below

pageVars == <<shown, dialog, change, load>>
vars == <<rows, used, shown, dialog, change, load, faults, alone, disturbed>>

NoDialog == [op |-> "none", id |-> NoId]
NoChange == [op |-> "none", at |-> "idle", id |-> NoId]
NoLoad == [at |-> "idle", got |-> {}]

\* One card per row.
CardsOf(S) == [i \in Ids |-> IF i \in S THEN 1 ELSE 0]

\* The page opens and loads.
Init ==
  /\ rows \in SUBSET Ids
  /\ used = rows
  /\ shown = CardsOf({})
  /\ dialog = NoDialog
  /\ change = NoChange
  /\ \E l \in Loads :
       load = [k \in Loads |-> IF k = l THEN [at |-> "sent", got |-> {}] ELSE NoLoad]
  /\ faults = 0
  /\ alone = Loads
  /\ disturbed = TRUE

-----------------------------------------------------------------------------
\* "Refresh now", which is never disabled.
Refresh(l) ==
  /\ load[l].at = "idle"
  /\ load' = [load EXCEPT ![l].at = "sent"]
  /\ alone' = IF change = NoChange THEN alone \cup {l} ELSE alone \ {l}
  /\ UNCHANGED <<rows, used, shown, dialog, change, faults, disturbed>>

\* The server reads the list.
ListChecks(l) ==
  /\ load[l].at = "sent"
  /\ load' = [load EXCEPT ![l] = [at |-> "read", got |-> rows]]
  /\ UNCHANGED <<rows, used, shown, dialog, change, faults, alone, disturbed>>

\* Mutant: the cards of a load are put to those that are there.
LoadedAppends(l) ==
  /\ load[l].at = "read"
  /\ shown' = [i \in Ids |-> shown[i] + CardsOf(load[l].got)[i]]
  /\ load' = [load EXCEPT ![l] = NoLoad]
  /\ disturbed' = (l \notin alone)
  /\ UNCHANGED <<rows, used, dialog, change, faults, alone>>

\* The list is replaced by what the server had read.
Loaded(l) ==
  /\ load[l].at = "read"
  /\ shown' = CardsOf(load[l].got)
  /\ load' = [load EXCEPT ![l] = NoLoad]
  /\ disturbed' = (l \notin alone)
  /\ UNCHANGED <<rows, used, dialog, change, faults, alone>>

\* The load fails; the list stays.
LoadFails(l) ==
  /\ load[l].at # "idle"
  /\ faults < MaxFaults
  /\ faults' = faults + 1
  /\ load' = [load EXCEPT ![l] = NoLoad]
  /\ UNCHANGED <<rows, used, shown, dialog, change, alone, disturbed>>

-----------------------------------------------------------------------------
\* "Edit" and "Delete" of a card open a dialog, unless a change is under way.
Open(op, i) ==
  /\ change = NoChange /\ dialog = NoDialog
  /\ shown[i] > 0
  /\ dialog' = [op |-> op, id |-> i]
  /\ UNCHANGED <<rows, used, shown, change, load, faults, alone, disturbed>>

Cancel ==
  /\ change = NoChange /\ dialog # NoDialog
  /\ dialog' = NoDialog
  /\ UNCHANGED <<rows, used, shown, change, load, faults, alone, disturbed>>

\* A change begins, while no other is under way.
Begins(op, i) ==
  /\ change = NoChange
  /\ change' = [op |-> op, at |-> "sent", id |-> i]
  /\ alone' = {}
  /\ UNCHANGED <<rows, used, load, faults>>

Create ==
  /\ dialog = NoDialog
  /\ Begins("create", NoId)
  /\ UNCHANGED <<shown, dialog, disturbed>>

Edit ==
  /\ dialog.op = "edit"
  /\ Begins("edit", dialog.id)
  /\ UNCHANGED <<shown, dialog, disturbed>>

\* The dialog closes and the cards of its check are gone at once.
Delete ==
  /\ dialog.op = "delete"
  /\ Begins("delete", dialog.id)
  /\ shown' = [shown EXCEPT ![dialog.id] = 0]
  /\ dialog' = NoDialog
  /\ disturbed' = (disturbed \/ dialog.id \notin rows)

\* The server creates, updates or deletes the row; a row that is not there
\* any more makes the call fail.
Serve ==
  /\ change.at = "sent"
  /\ \/ /\ change.op = "create"
        /\ \E i \in Ids \ used :
             /\ rows' = rows \cup {i}
             /\ used' = used \cup {i}
             /\ change' = [change EXCEPT !.at = "ok", !.id = i]
     \/ /\ change.op \in {"edit", "delete"} /\ change.id \in rows
        /\ rows' = IF change.op = "delete" THEN rows \ {change.id} ELSE rows
        /\ change' = [change EXCEPT !.at = "ok"]
        /\ UNCHANGED used
     \/ /\ change.op \in {"edit", "delete"} /\ change.id \notin rows
        /\ change' = [change EXCEPT !.at = "error"]
        /\ UNCHANGED <<rows, used>>
  /\ UNCHANGED <<shown, dialog, load, faults, alone, disturbed>>

\* The call fails before it changes anything, or its answer is lost.
ServeFails ==
  /\ change.at \in {"sent", "ok"}
  /\ faults < MaxFaults
  /\ faults' = faults + 1
  /\ change' = [change EXCEPT !.at = "error"]
  /\ disturbed' = (disturbed \/ change.at = "ok")
  /\ UNCHANGED <<rows, used, shown, dialog, load, alone>>

\* A created check is put in front; an edited one replaces its card and the
\* dialog closes; a deleted one is gone already.
Done ==
  /\ change.at = "ok"
  /\ shown' = IF change.op = "create" THEN [shown EXCEPT ![change.id] = @ + 1] ELSE shown
  /\ dialog' = IF change.op = "edit" THEN NoDialog ELSE dialog
  /\ change' = NoChange
  /\ UNCHANGED <<rows, used, load, faults, alone, disturbed>>

\* Mutant: a failed deletion is not taken back.
NotDoneForgets ==
  /\ change.at = "error"
  /\ change' = NoChange
  /\ UNCHANGED <<rows, used, shown, dialog, load, faults, alone, disturbed>>

\* The victim of a failed deletion is put back; an edit dialog stays open.
NotDone ==
  /\ change.at = "error"
  /\ shown' = IF change.op = "delete" THEN [shown EXCEPT ![change.id] = @ + 1] ELSE shown
  /\ change' = NoChange
  /\ UNCHANGED <<rows, used, dialog, load, faults, alone, disturbed>>

\* Another session creates or deletes a check.
Elsewhere(i) ==
  /\ faults < MaxFaults
  /\ faults' = faults + 1
  /\ \/ i \in rows /\ rows' = rows \ {i} /\ UNCHANGED used
     \/ i \notin used /\ rows' = rows \cup {i} /\ used' = used \cup {i}
  /\ alone' = {}
  /\ disturbed' = TRUE
  /\ UNCHANGED pageVars

Next ==
  \/ \E l \in Loads : Refresh(l) \/ ListChecks(l) \/ Loaded(l) \/ LoadFails(l)
  \/ Create \/ Edit \/ Delete \/ Cancel
  \/ Serve \/ ServeFails \/ Done \/ NotDone
  \/ \E i \in Ids : Open("edit", i) \/ Open("delete", i) \/ Elsewhere(i)

Spec == Init /\ [][Next]_vars

-----------------------------------------------------------------------------
\* Types.  A check has two cards at most: a created or restored one may meet
\* the same one of a load that overlapped.
TypeOK ==
  /\ rows \subseteq used /\ used \subseteq Ids
  /\ shown \in [Ids -> 0..2]
  /\ dialog \in [op : {"none", "edit", "delete"}, id : Ids \cup {NoId}]
  /\ change \in [op : {"none", "create", "edit", "delete"},
                 at : {"idle", "sent", "ok", "error"}, id : Ids \cup {NoId}]
  /\ load \in [Loads -> [at : {"idle", "sent", "read"}, got : SUBSET Ids]]
  /\ faults \in 0..MaxFaults
  /\ alone \subseteq Loads
  /\ disturbed \in BOOLEAN

\* A page at rest shows each check of the user exactly once, whatever was
\* created, edited and deleted, well or badly, since its list was loaded;
\* unless a load overlapped a change, the answer of a change that was made
\* was lost, another session made one, or this one deleted what was gone.
\* A load by itself repairs that.
QuietPageIsRight ==
  change = NoChange /\ ~disturbed => shown = CardsOf(rows)
=============================================================================
