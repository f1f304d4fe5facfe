----------------------------- MODULE CheckApi -----------------------------
(***************************************************************************)
(* The gateway's check service (internal/services/api-gateway/check) on    *)
(* the rows the ping worker of module PingWorker works with.  Update and   *)
(* Delete load the check, compare its owner and then run one statement by  *)
(* id: between the two the row may have changed, or be gone.               *)
(*                                                                         *)
(* A session is a client of one user.  The page it shows is what           *)
(* ListChecks returned last, and saving a check sends that copy back       *)
(* (frontend/src/pages/checks/ChecksPage.tsx).  Url and interval are one   *)
(* value, the settings.                                                    *)
(***************************************************************************)
EXTENDS PingWorker

CONSTANTS Sessions,  \* clients
          Owned,     \* Owned[s]: the checks of the user behind s
          Settings   \* urls and intervals

ASSUME CheckApiAssumption == Owned \in [Sessions -> SUBSET Checks]

VARIABLES
  gone,       \* checks that were deleted: a serial id is not used again
  settings,   \* settings[c]: host and interval_sec of the row
  page,       \* page[s]: last_status as s shows it
  call,       \* call[s]: the request of s between its load and its statement
  confirmed,  \* history: confirmed[c]: settings an answer told the owner
  okDeletes   \* history: deletes of c that were answered with success

apiVars == <<gone, settings, page, call, confirmed, okDeletes>>
allVars == <<pwVars, apiVars>>

NoCall == [op |-> "none"]
Calls ==
  {NoCall} \cup [op : {"delete"}, check : Checks]
           \cup [op : {"update"}, check : Checks, status : Statuses, settings : Settings]

ApiInit ==
  /\ WorkerInit
  /\ live = {}
  /\ gone = {}
  /\ settings \in [Checks -> Settings]
  /\ page = [s \in Sessions |-> [c \in Checks |-> "null"]]
  /\ call = [s \in Sessions |-> NoCall]
  /\ confirmed = settings
  /\ okDeletes = [c \in Checks |-> 0]

-----------------------------------------------------------------------------
CreateCheck(s, c) ==
  /\ c \in Owned[s] \ (live \cup gone)
  /\ live' = live \cup {c}
  /\ UNCHANGED <<consumerVars, lastStatus, runs, events, stepVars, apiVars>>

\* The rows of a user.
ListByUser(s) == Owned[s] \cap live

\* ListChecks answers with them.
ListChecks(s) ==
  /\ page' = [page EXCEPT ![s] =
                [c \in Checks |-> IF c \in ListByUser(s) THEN lastStatus[c] ELSE "null"]]
  /\ UNCHANGED <<pwVars, gone, settings, call, confirmed, okDeletes>>

\* GetByID finds the row, and it belongs to the requester; otherwise the
\* answer is an error and nothing changes.
MayChange(s, c) == Found(c) /\ c \in Owned[s]

\* fromPB: a status that is not set becomes false.
FromPB(status) == IF status = "null" THEN "down" ELSE status

UpdateLoad(s, c, x) ==
  /\ call[s] = NoCall
  /\ MayChange(s, c)
  /\ call' = [call EXCEPT ![s] =
       [op |-> "update", check |-> c, status |-> FromPB(page[s][c]), settings |-> x]]
  /\ UNCHANGED <<pwVars, gone, settings, page, confirmed, okDeletes>>

\* Mutant: the statement inserts a row that is not there.
StatusUpserted(c, status) ==
  /\ live' = live \cup {c}
  /\ lastStatus' = [lastStatus EXCEPT ![c] = status]

\* The repository's UPDATE sets last_status alone, and not a row is no error.
StatusStored(c, status) ==
  /\ lastStatus' = IF c \in live THEN [lastStatus EXCEPT ![c] = status] ELSE lastStatus
  /\ UNCHANGED live

\* The statement runs and the request is answered with what was asked for.
UpdateStore(s) ==
  /\ call[s].op = "update"
  /\ StatusStored(call[s].check, call[s].status)
  /\ confirmed' = [confirmed EXCEPT ![call[s].check] = call[s].settings]
  /\ call' = [call EXCEPT ![s] = NoCall]
  /\ UNCHANGED <<consumerVars, runs, events, stepVars, gone, settings, page, okDeletes>>

DeleteLoad(s, c) ==
  /\ call[s] = NoCall
  /\ MayChange(s, c)
  /\ call' = [call EXCEPT ![s] = [op |-> "delete", check |-> c]]
  /\ UNCHANGED <<pwVars, gone, settings, page, confirmed, okDeletes>>

\* Mutant: the number of rows the statement deleted is not looked at.
AnyRowsDeleted(c) == TRUE

\* RowsAffected() # 0.
RowDeleted(c) == c \in live

\* The answer is success if the statement deleted the row, else NotFound.
DeleteStore(s) ==
  LET c == call[s].check
  IN /\ call[s].op = "delete"
     /\ \/ DeleteCheck(c)
        \/ c \notin live /\ UNCHANGED pwVars
     /\ gone' = gone \cup {c}
     /\ okDeletes' = [okDeletes EXCEPT ![c] = IF RowDeleted(c) /\ @ < 2 THEN @ + 1 ELSE @]
     /\ call' = [call EXCEPT ![s] = NoCall]
     /\ UNCHANGED <<settings, page, confirmed>>

\* The statement fails, or the gateway dies before it.
CallFails(s) ==
  /\ call[s] # NoCall
  /\ faults < MaxFaults
  /\ faults' = faults + 1
  /\ call' = [call EXCEPT ![s] = NoCall]
  /\ UNCHANGED <<log, committed, owner, mpc, pos, cur, handled, failed, rowVars,
                 stepVars, gone, settings, page, confirmed, okDeletes>>

ApiNext ==
  \/ WorkerNext /\ UNCHANGED apiVars
  \/ \E s \in Sessions :
       \/ \E c \in Checks :
            \/ CreateCheck(s, c)
            \/ DeleteLoad(s, c)
            \/ \E x \in Settings : UpdateLoad(s, c, x)
       \/ ListChecks(s)
       \/ UpdateStore(s)
       \/ DeleteStore(s)
       \/ CallFails(s)

ApiSpec == ApiInit /\ [][ApiNext]_allVars

-----------------------------------------------------------------------------
\* Types; a check is not both in the table and deleted.
ApiTypeOK ==
  /\ TypeOK
  /\ gone \subseteq Checks \ live
  /\ settings \in [Checks -> Settings]
  /\ page \in [Sessions -> [Checks -> Statuses \cup {"null"}]]
  /\ call \in [Sessions -> Calls]
  /\ confirmed \in [Checks -> Settings]
  /\ okDeletes \in [Checks -> 0..2]

\* Of all the deletes of a check, overlapping or repeated, one is answered
\* with success.
DeletedOnce == \A c \in Checks : okDeletes[c] <= 1

\* What the page says after saving, "Changes saved": the settings the answer
\* showed are the row's.
ChangesSaved == \A c \in live : confirmed[c] = settings[c]

\* What the integration test of the worker asks for: no event unless the
\* site's state changed since the event before.
NoEventWithoutChange ==
  \A i, j \in 1..Len(events) :
    /\ i < j
    /\ events[i].check = events[j].check
    /\ \A k \in (i + 1)..(j - 1) : events[k].check # events[i].check
    => events[i].new # events[j].new
=============================================================================
