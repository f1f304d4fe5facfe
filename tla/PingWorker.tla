---------------------------- MODULE PingWorker ----------------------------
(***************************************************************************)
(* The ping worker: the consumer loop of module Consumer with HandleCheck  *)
(* (internal/services/ping-worker/handler.go) as its handler, and the rows *)
(* it reads and writes: checks.last_status, runs and the outbox.           *)
(*                                                                         *)
(* HandleCheck reads the check, pings its site, records a run and, when    *)
(* the result differs from the status it read at the beginning, stores run *)
(* and status and enqueues a status-changed event in one transaction.      *)
(* Nothing but the partition assignment keeps two workers from handling    *)
(* the same check at once, and a failed transaction is only printed.       *)
(***************************************************************************)
EXTENDS Consumer, FiniteSets

CONSTANTS Checks,     \* ids of checks
          InvalidId   \* an id that is not positive

ASSUME PingWorkerAssumption == InvalidId \notin Checks /\ Payloads = Checks \cup {InvalidId}

VARIABLES
  live,        \* checks that have a row
  lastStatus,  \* lastStatus[c]: checks.last_status of a live check
  runs,        \* results recorded in the runs table, as <<check, status>>
  events,      \* outbox rows in commit order: check, old, new
  stage,       \* stage[m]: how far HandleCheck is: "start", "ping" or "tx"
  seen,        \* seen[m]: chk.LastStatus as m read it
  result,      \* result[m]: what m's ping found
  overlapped   \* history: checks that two workers had in hand at once

rowVars == <<live, lastStatus, runs, events>>
stepVars == <<stage, seen, result, overlapped>>
pwVars == <<consumerVars, rowVars, stepVars>>

Statuses == {"up", "down"}

\* No check has been pinged, whichever exist.
WorkerInit ==
  /\ ConsumerInit
  /\ lastStatus = [c \in Checks |-> "null"]
  /\ runs = {}
  /\ events = <<>>
  /\ stage = [m \in Members |-> "start"]
  /\ seen = [m \in Members |-> "null"]
  /\ result = [m \in Members |-> "down"]
  /\ overlapped = {}

Init == WorkerInit /\ live = Checks

\* The check that m handles.
Request(m) == log[cur[m] + 1]

\* GetByID scans a row, or says ErrNotFound.
Found(c) == c \in live

\* HandleCheck returns: m's handler variables are forgotten.
Return(m) ==
  /\ stage' = [stage EXCEPT ![m] = "start"]
  /\ seen' = [seen EXCEPT ![m] = "null"]
  /\ result' = [result EXCEPT ![m] = "down"]
  /\ UNCHANGED overlapped

-----------------------------------------------------------------------------
\* checkID <= 0: nothing to do.
IgnoreInvalid(m) ==
  /\ mpc[m] = "handle" /\ stage[m] = "start"
  /\ Request(m) = InvalidId
  /\ HandlerOk(m)
  /\ UNCHANGED <<rowVars, stepVars>>

\* Checks.GetByID found the row.
ReadCheck(m) ==
  /\ mpc[m] = "handle" /\ stage[m] = "start"
  /\ Found(Request(m))
  /\ seen' = [seen EXCEPT ![m] = lastStatus[Request(m)]]
  /\ stage' = [stage EXCEPT ![m] = "ping"]
  /\ overlapped' = IF \E n \in Members : stage[n] # "start" /\ Request(n) = Request(m)
                     THEN overlapped \cup {Request(m)} ELSE overlapped
  /\ UNCHANGED <<consumerVars, rowVars, result>>

\* The row is gone, or the query failed (a fault): the handler fails.
ReadCheckFails(m) ==
  /\ mpc[m] = "handle" /\ stage[m] = "start"
  /\ Request(m) \in Checks
  /\ IF Found(Request(m)) THEN HandlerFault(m) ELSE HandlerErr(m)
  /\ UNCHANGED <<rowVars, stepVars>>

\* Mutant: a status read as NULL is taken for a change whatever the ping says.
ChangedFromNull(prev, status) == prev # status

\* The switch on the status read: a first result counts only when it is up.
Changed(prev, status) ==
  \/ prev = "null" /\ status = "up"
  \/ prev # "null" /\ prev # status

\* A run row references its check: the insert fails without it.
WithRun(c, status) == IF c \in live THEN runs \cup {<<c, status>>} ELSE runs

\* The ping's result, and the first run row; an error of that insert is
\* ignored.  Without a change the handler is done.
Ping(m, status) ==
  /\ mpc[m] = "handle" /\ stage[m] = "ping"
  /\ runs' \in {runs, WithRun(Request(m), status)}
  /\ UNCHANGED <<live, lastStatus, events>>
  /\ IF Changed(seen[m], status)
       THEN /\ stage' = [stage EXCEPT ![m] = "tx"]
            /\ result' = [result EXCEPT ![m] = status]
            /\ UNCHANGED <<consumerVars, seen, overlapped>>
       ELSE HandlerOk(m) /\ Return(m)

\* The event's old status is a bool: NULL is down.
Old(m) == IF seen[m] = "null" THEN "down" ELSE seen[m]

\* Mutant: the run is not part of the transaction.
StatusChangeNoRun(m) ==
  LET c == Request(m)
  IN /\ UNCHANGED runs
     /\ lastStatus' = [lastStatus EXCEPT ![c] = result[m]]
     /\ events' = Append(events, [check |-> c, old |-> Old(m), new |-> result[m]])

\* What the transaction changes.
StatusChange(m) ==
  LET c == Request(m)
  IN /\ runs' = WithRun(c, result[m])
     /\ lastStatus' = [lastStatus EXCEPT ![c] = result[m]]
     /\ events' = Append(events, [check |-> c, old |-> Old(m), new |-> result[m]])

\* WithTx committed (the answer may have been lost: it makes no difference).
ChangeTx(m) ==
  /\ stage[m] = "tx"
  /\ Request(m) \in live
  /\ StatusChange(m)
  /\ HandlerOk(m)
  /\ Return(m)
  /\ UNCHANGED live

\* Mutant: the status is updated outside the transaction that failed.
TxRolledBackKeepsStatus(m) ==
  /\ lastStatus' = IF Request(m) \in live
                     THEN [lastStatus EXCEPT ![Request(m)] = result[m]]
                     ELSE lastStatus
  /\ UNCHANGED <<runs, events>>

TxRolledBack(m) == UNCHANGED <<lastStatus, runs, events>>

\* The transaction failed and rolled back: the row is gone, so the run
\* violates its foreign key, or the database failed.  The error is printed
\* and the handler returns nil, so the message is committed.
ChangeTxFails(m) ==
  /\ stage[m] = "tx"
  /\ TxRolledBack(m)
  /\ IF Request(m) \in live THEN HandlerHidesFault(m) ELSE HandlerOk(m)
  /\ Return(m)
  /\ UNCHANGED live

-----------------------------------------------------------------------------
\* The scheduler asks for a ping.
RequestCheck(p) ==
  /\ Produce(p)
  /\ UNCHANGED <<rowVars, stepVars>>

\* The owner deletes the check, and its runs with it.
DeleteCheck(c) ==
  /\ c \in live
  /\ live' = live \ {c}
  /\ runs' = {r \in runs : r[1] # c}
  /\ lastStatus' = [lastStatus EXCEPT ![c] = "null"]
  /\ UNCHANGED <<consumerVars, events, stepVars>>

\* Steps of the consumer loop outside the handler.
Loop(m) ==
  /\ Fetch(m) \/ Commit(m) \/ CommitFail(m) \/ Rebalance(m)
  /\ UNCHANGED <<rowVars, stepVars>>

\* A worker dies; its transaction, if one is open, rolls back.
Crash(m) ==
  /\ Restart(m)
  /\ Return(m)
  /\ UNCHANGED rowVars

\* Steps of the scheduler's requests and of the workers.
WorkerNext ==
  \/ \E p \in Payloads : RequestCheck(p)
  \/ \E m \in Members :
       \/ Loop(m)
       \/ Crash(m)
       \/ IgnoreInvalid(m)
       \/ ReadCheck(m)
       \/ ReadCheckFails(m)
       \/ \E s \in Statuses : Ping(m, s)
       \/ ChangeTx(m)
       \/ ChangeTxFails(m)

Next == WorkerNext \/ \E c \in Checks : DeleteCheck(c)

Spec == Init /\ [][Next]_pwVars

-----------------------------------------------------------------------------
\* Types; a worker inside HandleCheck is inside the consumer's handler, and
\* it opens a transaction only for a status that differs from the one it saw.
TypeOK ==
  /\ ConsumerTypeOK
  /\ live \subseteq Checks
  /\ lastStatus \in [Checks -> Statuses \cup {"null"}]
  /\ runs \subseteq live \X Statuses
  /\ events \in Seq([check : Checks, old : Statuses, new : Statuses])
  /\ stage \in [Members -> {"start", "ping", "tx"}]
  /\ seen \in [Members -> Statuses \cup {"null"}]
  /\ result \in [Members -> Statuses]
  /\ overlapped \subseteq Checks
  /\ \A m \in Members : stage[m] # "start" => mpc[m] = "handle"
  /\ \A m \in Members : stage[m] = "tx" => Old(m) # result[m]

EventsOf(c) == {i \in 1..Len(events) : events[i].check = c}

\* The stored status of a check is the one its last event announced, and NULL
\* as long as there is none: the table and the outbox never drift apart,
\* whatever workers overlap, transactions fail and processes die.
StatusIsLastAnnounced ==
  \A c \in live :
    IF EventsOf(c) = {}
      THEN lastStatus[c] = "null"
      ELSE \E i \in EventsOf(c) :
             /\ \A j \in EventsOf(c) : j <= i
             /\ lastStatus[c] = events[i].new

\* Every announced change of a check that still exists is backed by a run
\* with that result, although the error of the first insert is ignored.
EventHasRun ==
  \A i \in 1..Len(events) :
    events[i].check \in live => <<events[i].check, events[i].new>> \in runs

\* The events of a check alternate, each one starting where the one before it
\* ended, unless two workers had the check in hand at once: requests that are
\* delivered again, failed transactions and crashes repeat no event.
EventsAlternate ==
  \A i, j \in 1..Len(events) :
    /\ i < j
    /\ events[i].check = events[j].check
    /\ \A k \in (i + 1)..(j - 1) : events[k].check # events[i].check
    => events[i].new = events[j].old \/ events[i].check \in overlapped
=============================================================================
