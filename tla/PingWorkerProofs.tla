-------------------------- MODULE PingWorkerProofs --------------------------
(***************************************************************************)
(* Proofs about the ping worker, for any number of workers, checks,        *)
(* messages and faults: by itself, beside the gateway's check service with *)
(* any number of sessions, and in the pipeline with any number of          *)
(* notifiers.  The worker is an instance of the consumer loop.  The rest   *)
(* rests on two facts about workers that have a check in hand: two with    *)
(* the same check are noted in overlapped, and a worker that is alone with *)
(* its check has read the status that is still stored.  The second is lost *)
(* when owners save checks; what is left then is proved in the second      *)
(* part, and what a mail tells, with every part in place, in the last.     *)
(***************************************************************************)
EXTENDS CheckApi, Pipeline, ConsumerProofs, FiniteSetTheorems

Busy(m) == stage[m] # "start"

\* Who reads a check that another worker has in hand is noticed.
Alone ==
  \A m, n \in Members :
    Busy(m) /\ Busy(n) /\ m # n /\ Request(m) = Request(n) => Request(m) \in overlapped

\* What a worker has seen is still so.
Fresh ==
  \A m \in Members :
    Busy(m) /\ Request(m) \in live \ overlapped => seen[m] = lastStatus[Request(m)]

\* Who has something in hand has a check in hand.
Known == \A m \in Members : Busy(m) => Request(m) \in Checks

HandInv == Known /\ Alone /\ Fresh

RowsInv == StatusIsLastAnnounced /\ EventHasRun /\ EventsAlternate

WorkerInv == ConsumerInv /\ TypeOK /\ HandInv /\ RowsInv

LEMMA WorkerRefinesConsumer == [Next]_pwVars => [ConsumerNext]_consumerVars
BY PingWorkerAssumption
DEF Next, WorkerNext, pwVars, RequestCheck, DeleteCheck, Loop, Crash, IgnoreInvalid, ReadCheck,
    ReadCheckFails, Ping, ChangeTx, ChangeTxFails, ConsumerNext, ConsumerStep

\* The worker's loop is the consumer's loop.
THEOREM WorkerImplementsConsumer == Spec => ConsumerSpec
<1>1. Init => ConsumerInit
  BY DEF Init, WorkerInit
<1> QED BY <1>1, WorkerRefinesConsumer, PTL DEF Spec, ConsumerSpec

\* A request in a worker's hands stays where it is.
LEMMA RequestInHand ==
  ASSUME ConsumerInv, NEW m \in Members, mpc[m] = "handle"
  PROVE  cur[m] \in Offsets /\ Request(m) \in Payloads
BY DEF ConsumerInv, ConsumerTypeOK, InHand, Offsets, Request

LEMMA RequestStays ==
  ASSUME ConsumerInv, NEW p \in Payloads, RequestCheck(p), NEW m \in Members, mpc[m] = "handle"
  PROVE  Request(m)' = Request(m)
<1>1. log \in Seq(Payloads) /\ log' = Append(log, p) /\ cur' = cur
  BY DEF ConsumerInv, ConsumerTypeOK, RequestCheck, Produce
<1>2. cur[m] \in Offsets
  BY RequestInHand
<1> QED BY <1>1, <1>2 DEF Offsets, Request

-----------------------------------------------------------------------------
\* A step that starts no worker on a check and changes no status a worker has
\* seen.
LEMMA HandFrame ==
  ASSUME HandInv, overlapped' = overlapped, live' \subseteq live,
         \A n \in Members : Busy(n)' =>
           Busy(n) /\ seen'[n] = seen[n] /\ Request(n)' = Request(n),
         \A n \in Members : Busy(n)' /\ Request(n) \in live' \ overlapped =>
           lastStatus'[Request(n)] = lastStatus[Request(n)]
  PROVE  HandInv'
<1>1. Known'
  BY DEF HandInv, Known
<1>2. Alone'
  BY DEF HandInv, Alone
<1>3. Fresh'
  BY DEF HandInv, Fresh
<1> QED BY <1>1, <1>2, <1>3 DEF HandInv

LEMMA HandStep ==
  ASSUME WorkerInv, [Next]_pwVars
  PROVE  HandInv'
<1> USE DEF brokerVars, rowVars, stepVars
<1>1. /\ HandInv /\ stage \in [Members -> {"start", "ping", "tx"}]
      /\ seen \in [Members -> Statuses \cup {"null"}]
      /\ mpc \in [Members -> {"fetch", "handle", "commit"}]
      /\ cur \in [Members -> Nat] /\ lastStatus \in [Checks -> Statuses \cup {"null"}]
      /\ live \subseteq Checks
      /\ \A n \in Members : Busy(n) => mpc[n] = "handle"
  BY DEF WorkerInv, TypeOK, ConsumerTypeOK, Busy
<1>2. ASSUME NEW p \in Payloads, RequestCheck(p) PROVE HandInv'
  <2>1. UNCHANGED <<live, lastStatus, stage, seen, overlapped>>
    BY <1>2 DEF RequestCheck
  <2>2. \A n \in Members : Busy(n) => Request(n)' = Request(n)
    BY <1>1, <1>2, RequestStays DEF WorkerInv
  <2> QED BY <1>1, <2>1, <2>2, HandFrame DEF Busy
<1>3. ASSUME NEW m \in Members, Loop(m) PROVE HandInv'
  <2>1. UNCHANGED <<live, lastStatus, stage, seen, overlapped, log>>
    BY <1>3 DEF Loop, Fetch, Commit, CommitFail, Rebalance
  <2>2. \A n \in Members : Busy(n) => cur'[n] = cur[n]
    BY <1>1, <1>3 DEF Loop, Fetch, Commit, CommitFail, Rebalance
  <2> QED BY <1>1, <2>1, <2>2, HandFrame DEF Busy, Request
<1>4. ASSUME NEW m \in Members, Crash(m) PROVE HandInv'
  <2>1. UNCHANGED <<live, lastStatus, overlapped, log, cur>>
    BY <1>4 DEF Crash, Restart, Return
  <2>2. \A n \in Members : Busy(n)' => Busy(n) /\ seen'[n] = seen[n]
    BY <1>1, <1>4 DEF Crash, Return, Busy
  <2> QED BY <1>1, <2>1, <2>2, HandFrame DEF Busy, Request
<1>5. ASSUME NEW m \in Members, IgnoreInvalid(m) \/ ReadCheckFails(m) PROVE HandInv'
  <2>1. UNCHANGED <<live, lastStatus, stage, seen, overlapped, log, cur>>
    BY <1>5 DEF IgnoreInvalid, ReadCheckFails, HandlerOk, HandlerErr, HandlerFault
  <2> QED BY <1>1, <2>1, HandFrame DEF Busy, Request
<1>6. ASSUME NEW m \in Members, ReadCheck(m) PROVE HandInv'
  <2>1. /\ UNCHANGED <<live, lastStatus, log, cur>> /\ ~Busy(m)
        /\ seen' = [seen EXCEPT ![m] = lastStatus[Request(m)]]
        /\ stage' = [stage EXCEPT ![m] = "ping"]
        /\ Request(m) \in live /\ overlapped \subseteq overlapped'
        /\ \A n \in Members : Busy(n) /\ Request(n) = Request(m) => Request(m) \in overlapped'
    BY <1>6 DEF ReadCheck, Found, Busy, consumerVars
  <2>2. \A n \in Members : Request(n)' = Request(n) /\ (n # m => Busy(n)' = Busy(n))
    BY <1>1, <2>1 DEF Request, Busy
  <2>3. Known'
    BY <1>1, <2>1, <2>2 DEF HandInv, Known
  <2>4. Alone'
    BY <1>1, <2>1, <2>2 DEF HandInv, Alone
  <2>5. Fresh'
    BY <1>1, <2>1, <2>2 DEF HandInv, Fresh
  <2> QED BY <2>3, <2>4, <2>5 DEF HandInv
<1>7. ASSUME NEW m \in Members, NEW s \in Statuses, Ping(m, s) PROVE HandInv'
  <2>1. UNCHANGED <<live, lastStatus, overlapped, log, cur>> /\ Busy(m)
    BY <1>7 DEF Ping, HandlerOk, Return, consumerVars, Busy
  <2>2. \A n \in Members : Busy(n)' => Busy(n) /\ seen'[n] = seen[n]
    BY <1>1, <1>7 DEF Ping, Return, Busy
  <2> QED BY <1>1, <2>1, <2>2, HandFrame DEF Busy, Request
<1>8. ASSUME NEW m \in Members, ChangeTx(m) PROVE HandInv'
  <2>1. UNCHANGED <<live, overlapped, log, cur>> /\ Busy(m)
    BY <1>8 DEF ChangeTx, HandlerOk, Return, Busy
  <2>2. \A n \in Members : Busy(n)' => Busy(n) /\ n # m /\ seen'[n] = seen[n]
    BY <1>1, <1>8 DEF ChangeTx, Return, Busy
  <2>3. \A n \in Members : Busy(n)' /\ Request(n) \in live' \ overlapped =>
          lastStatus'[Request(n)] = lastStatus[Request(n)]
    <3>1. lastStatus' = [lastStatus EXCEPT ![Request(m)] = result[m]]
      BY <1>8 DEF ChangeTx, StatusChange
    <3>2. \A n \in Members : Busy(n)' /\ Request(n) = Request(m) => Request(n) \in overlapped
      BY <1>1, <2>1, <2>2 DEF HandInv, Alone
    <3> QED BY <1>1, <2>1, <2>2, <3>1, <3>2
  <2>4. \A n \in Members : Request(n)' = Request(n)
    BY <2>1 DEF Request
  <2> QED BY <1>1, <2>1, <2>2, <2>3, <2>4, HandFrame
<1>9. ASSUME NEW m \in Members, ChangeTxFails(m) PROVE HandInv'
  <2>1. UNCHANGED <<live, lastStatus, overlapped, log, cur>>
    BY <1>9 DEF ChangeTxFails, TxRolledBack, HandlerOk, HandlerHidesFault, Return
  <2>2. \A n \in Members : Busy(n)' => Busy(n) /\ seen'[n] = seen[n]
    BY <1>1, <1>9 DEF ChangeTxFails, Return, Busy
  <2> QED BY <1>1, <2>1, <2>2, HandFrame DEF Busy, Request
<1>10. ASSUME NEW c \in Checks, DeleteCheck(c) PROVE HandInv'
  <2>1. UNCHANGED <<overlapped, log, cur, stage, seen>> /\ live' = live \ {c}
        /\ lastStatus' = [lastStatus EXCEPT ![c] = "null"]
    BY <1>10 DEF DeleteCheck, consumerVars
  <2>2. \A n \in Members : Request(n)' = Request(n) /\ Busy(n)' = Busy(n)
    BY <2>1 DEF Request, Busy
  <2>3. \A b \in live' : lastStatus'[b] = lastStatus[b]
    BY <1>1, <2>1
  <2> QED BY <1>1, <2>1, <2>2, <2>3, HandFrame
<1>11. CASE UNCHANGED pwVars
  <2>1. UNCHANGED <<overlapped, log, cur, stage, seen, live, lastStatus>>
    BY <1>11 DEF pwVars, consumerVars
  <2> QED BY <1>1, <2>1, HandFrame DEF Busy, Request
<1> QED
  BY <1>2, <1>3, <1>4, <1>5, <1>6, <1>7, <1>8, <1>9, <1>10, <1>11 DEF Next, WorkerNext

-----------------------------------------------------------------------------
LEMMA WorkerTypeStep ==
  ASSUME TypeOK, Known, [Next]_pwVars, ConsumerTypeOK'
  PROVE  TypeOK'
<1> USE DEF brokerVars, rowVars, stepVars
<1> DEFINE Typed ==
             /\ live \subseteq Checks
             /\ lastStatus \in [Checks -> Statuses \cup {"null"}]
             /\ runs \subseteq live \X Statuses
             /\ events \in Seq([check : Checks, old : Statuses, new : Statuses])
             /\ stage \in [Members -> {"start", "ping", "tx"}]
             /\ seen \in [Members -> Statuses \cup {"null"}]
             /\ result \in [Members -> Statuses]
             /\ overlapped \subseteq Checks
           Working == /\ \A m \in Members : stage[m] # "start" => mpc[m] = "handle"
                      /\ \A m \in Members : stage[m] = "tx" => Old(m) # result[m]
<1>1. Typed /\ Working /\ mpc \in [Members -> {"fetch", "handle", "commit"}]
  BY DEF TypeOK, ConsumerTypeOK
<1>2. \A m \in Members : stage[m] # "start" => Request(m) \in Checks
  BY DEF Known, Busy
<1>3. ASSUME NEW p \in Payloads, RequestCheck(p) PROVE Typed' /\ Working'
  BY <1>1, <1>3 DEF RequestCheck, Produce, Old
<1>4. ASSUME NEW m \in Members, Loop(m) PROVE Typed' /\ Working'
  BY <1>1, <1>4 DEF Loop, Fetch, Commit, CommitFail, Rebalance, Old
<1>5. ASSUME NEW m \in Members, Crash(m) PROVE Typed' /\ Working'
  <2>1. Typed'
    BY <1>1, <1>5 DEF Crash, Return, Statuses
  <2>2. Working'
    BY <1>1, <1>5 DEF Crash, Restart, Return, Old
  <2> QED BY <2>1, <2>2
<1>6. ASSUME NEW m \in Members, IgnoreInvalid(m) \/ ReadCheckFails(m) PROVE Typed' /\ Working'
  BY <1>1, <1>6 DEF IgnoreInvalid, ReadCheckFails, HandlerOk, HandlerErr, HandlerFault, Old
<1>7. ASSUME NEW m \in Members, ReadCheck(m) PROVE Typed' /\ Working'
  <2>1. Typed'
    BY <1>1, <1>7 DEF ReadCheck, Found
  <2>2. Working'
    BY <1>1, <1>7 DEF ReadCheck, consumerVars, Old
  <2> QED BY <2>1, <2>2
<1>8. ASSUME NEW m \in Members, NEW s \in Statuses, Ping(m, s) PROVE Typed' /\ Working'
  <2>1. UNCHANGED <<live, lastStatus, events, overlapped>> /\ stage[m] = "ping" /\ mpc[m] = "handle"
        /\ runs' \in {runs, WithRun(Request(m), s)}
    BY <1>8 DEF Ping, Return
  <2>2. runs' \subseteq live \X Statuses
    BY <1>1, <2>1 DEF WithRun
  <2>3. CASE Changed(seen[m], s)
    <3>1. stage' = [stage EXCEPT ![m] = "tx"] /\ result' = [result EXCEPT ![m] = s]
          /\ UNCHANGED <<seen, mpc>>
      BY <1>8, <2>3 DEF Ping, consumerVars
    <3>2. Typed'
      BY <1>1, <2>1, <2>2, <3>1
    <3>3. Working'
      BY <1>1, <2>1, <2>3, <3>1 DEF Changed, Old
    <3> QED BY <3>2, <3>3
  <2>4. CASE ~Changed(seen[m], s)
    <3>1. HandlerOk(m) /\ Return(m)
      BY <1>8, <2>4 DEF Ping
    <3>2. Typed'
      BY <1>1, <2>1, <2>2, <3>1 DEF Return, Statuses
    <3>3. Working'
      BY <1>1, <2>1, <3>1 DEF Return, HandlerOk, Old
    <3> QED BY <3>2, <3>3
  <2> QED BY <2>3, <2>4
<1>9. ASSUME NEW m \in Members, ChangeTx(m) PROVE Typed' /\ Working'
  <2>1. stage[m] = "tx" /\ Request(m) \in Checks /\ result[m] \in Statuses /\ Old(m) \in Statuses
    BY <1>1, <1>2, <1>9 DEF ChangeTx, Old, Statuses
  <2>2. HandlerOk(m) /\ Return(m) /\ StatusChange(m) /\ UNCHANGED live
    BY <1>9 DEF ChangeTx
  <2>3. events' \in Seq([check : Checks, old : Statuses, new : Statuses])
    BY <1>1, <2>1, <2>2 DEF StatusChange
  <2>4. runs' \subseteq live' \X Statuses /\ lastStatus' \in [Checks -> Statuses \cup {"null"}]
    BY <1>1, <2>1, <2>2 DEF StatusChange, WithRun
  <2>5. Typed'
    BY <1>1, <2>2, <2>3, <2>4 DEF Return, Statuses
  <2>6. Working'
    BY <1>1, <2>2 DEF Return, HandlerOk, Old
  <2> QED BY <2>5, <2>6
<1>10. ASSUME NEW m \in Members, ChangeTxFails(m) PROVE Typed' /\ Working'
  <2>1. Typed'
    BY <1>1, <1>10 DEF ChangeTxFails, TxRolledBack, Return, Statuses
  <2>2. Working'
    BY <1>1, <1>10 DEF ChangeTxFails, HandlerOk, HandlerHidesFault, Return, Old
  <2> QED BY <2>1, <2>2
<1>11. ASSUME NEW c \in Checks, DeleteCheck(c) PROVE Typed' /\ Working'
  <2>1. Typed'
    BY <1>1, <1>11 DEF DeleteCheck
  <2>2. Working'
    BY <1>1, <1>11 DEF DeleteCheck, consumerVars, Old
  <2> QED BY <2>1, <2>2
<1>12. ASSUME UNCHANGED pwVars PROVE Typed' /\ Working'
  <2>1. Typed'
    BY <1>1, <1>12 DEF pwVars
  <2>2. Working'
    BY <1>1, <1>12 DEF pwVars, consumerVars, Old
  <2> QED BY <2>1, <2>2
<1>13. Typed' /\ Working'
  <2> HIDE DEF Typed, Working
  <2> QED
    BY <1>3, <1>4, <1>5, <1>6, <1>7, <1>8, <1>9, <1>10, <1>11, <1>12 DEF Next, WorkerNext
<1> QED BY <1>13 DEF TypeOK

-----------------------------------------------------------------------------
\* A step that neither announces nor forgets anything.
LEMMA RowsFrame ==
  ASSUME RowsInv, events' = events, live' = live, lastStatus' = lastStatus,
         runs \subseteq runs', overlapped \subseteq overlapped'
  PROVE  RowsInv'
<1>1. StatusIsLastAnnounced'
  BY DEF RowsInv, StatusIsLastAnnounced, EventsOf
<1>2. EventHasRun'
  BY DEF RowsInv, EventHasRun
<1>3. EventsAlternate'
  BY DEF RowsInv, EventsAlternate
<1> QED BY <1>1, <1>2, <1>3 DEF RowsInv

LEMMA EventType ==
  ASSUME WorkerInv, NEW i \in 1..Len(events)
  PROVE  events[i].new \in Statuses
<1> DEFINE Row == [check : Checks, old : Statuses, new : Statuses]
<1>1. events \in Seq(Row)
  BY DEF WorkerInv, TypeOK
<1>2. \A r \in Row : r.new \in Statuses
  OBVIOUS
<1> HIDE DEF Row
<1>3. events[i] \in Row
  BY <1>1
<1> QED BY <1>2, <1>3

\* The transaction of a status change.
LEMMA RowsChange ==
  ASSUME WorkerInv, NEW m \in Members, ChangeTx(m)
  PROVE  RowsInv'
<1> DEFINE c == Request(m)
           e == [check |-> c, old |-> Old(m), new |-> result[m]]
           L == Len(events)
<1>1. /\ events \in Seq([check : Checks, old : Statuses, new : Statuses])
      /\ L \in Nat /\ result[m] \in Statuses /\ c \in Checks /\ c \in live /\ Busy(m)
      /\ lastStatus \in [Checks -> Statuses \cup {"null"}] /\ live' = live
      /\ runs' = runs \cup {<<c, result[m]>>} /\ overlapped' = overlapped
      /\ lastStatus' = [lastStatus EXCEPT ![c] = result[m]]
      /\ events' = Append(events, e)
  BY DEF WorkerInv, TypeOK, HandInv, Known, ChangeTx, StatusChange, WithRun, Return, Busy
<1>2. /\ Len(events') = L + 1 /\ \A i \in 1..L : events'[i] = events[i]
      /\ events'[L + 1] = e
  BY <1>1
<1>3. \A b \in live : EventsOf(b)' = IF b = c THEN EventsOf(b) \cup {L + 1} ELSE EventsOf(b)
  <2> HIDE DEF L
  <2>1. e.check = c
    OBVIOUS
  <2> HIDE DEF e, c
  <2> QED BY <1>1, <1>2, <2>1 DEF EventsOf, L
<1>4. StatusIsLastAnnounced'
  <2> SUFFICES ASSUME NEW b \in live
               PROVE  IF EventsOf(b)' = {}
                        THEN lastStatus'[b] = "null"
                        ELSE \E i \in EventsOf(b)' :
                               /\ \A j \in EventsOf(b)' : j <= i
                               /\ lastStatus'[b] = events'[i].new
    BY <1>1 DEF StatusIsLastAnnounced
  <2>1. CASE b = c
    <3>1. L + 1 \in EventsOf(b)'
      BY <1>3, <2>1
    <3>2. \A j \in EventsOf(b)' : j <= L + 1
      BY <1>1, <1>3, <2>1 DEF EventsOf
    <3>3. lastStatus'[b] = events'[L + 1].new
      BY <1>1, <1>2, <2>1
    <3> QED BY <3>1, <3>2, <3>3
  <2>2. CASE b # c
    <3>1. EventsOf(b)' = EventsOf(b) /\ lastStatus'[b] = lastStatus[b]
      BY <1>1, <1>3, <2>2
    <3>2. \A i \in EventsOf(b) : events'[i] = events[i]
      BY <1>2 DEF EventsOf
    <3>3. IF EventsOf(b) = {}
            THEN lastStatus[b] = "null"
            ELSE \E i \in EventsOf(b) :
                   /\ \A j \in EventsOf(b) : j <= i
                   /\ lastStatus[b] = events[i].new
      BY DEF WorkerInv, RowsInv, StatusIsLastAnnounced
    <3> QED BY <3>1, <3>2, <3>3
  <2> QED BY <2>1, <2>2
<1>5. EventHasRun'
  <2> SUFFICES ASSUME NEW i \in 1..(L + 1), events'[i].check \in live
               PROVE  <<events'[i].check, events'[i].new>> \in runs'
    BY <1>1, <1>2 DEF EventHasRun
  <2>1. CASE i = L + 1
    BY <1>1, <1>2, <2>1
  <2>2. CASE i # L + 1
    <3>1. i \in 1..L
      BY <1>1, <2>2
    <3> QED BY <1>1, <1>2, <3>1 DEF WorkerInv, RowsInv, EventHasRun
  <2> QED BY <2>1, <2>2
<1>6. EventsAlternate'
  <2> SUFFICES ASSUME NEW i \in 1..(L + 1), NEW j \in 1..(L + 1), i < j,
                      events'[i].check = events'[j].check,
                      \A k \in (i + 1)..(j - 1) : events'[k].check # events'[i].check
               PROVE  events'[i].new = events'[j].old \/ events'[i].check \in overlapped
    BY <1>1, <1>2 DEF EventsAlternate
  <2>1. i \in 1..L /\ events'[i] = events[i]
    BY <1>1, <1>2
  <2>2. CASE j = L + 1
    <3>1. events[i].check = c
      BY <1>2, <2>1, <2>2
    <3>2. i \in EventsOf(c)
      BY <2>1, <3>1 DEF EventsOf
    <3>3. \A k \in EventsOf(c) : k <= i
      <4> SUFFICES ASSUME NEW k \in EventsOf(c), k > i PROVE FALSE
        BY <1>1, <2>1 DEF EventsOf
      <4>1. k \in 1..L /\ k \in (i + 1)..(j - 1) /\ events[k].check = c
        BY <1>1, <2>1, <2>2 DEF EventsOf
      <4> QED BY <1>2, <2>1, <3>1, <4>1
    <3>4. lastStatus[c] = events[i].new
      <4>1. PICK h \in EventsOf(c) :
              (\A k \in EventsOf(c) : k <= h) /\ lastStatus[c] = events[h].new
        BY <1>1, <3>2 DEF WorkerInv, RowsInv, StatusIsLastAnnounced
      <4>2. h = i
        BY <1>1, <3>2, <3>3, <4>1 DEF EventsOf
      <4> QED BY <4>1, <4>2
    <3>5. c \in overlapped \/ seen[m] = lastStatus[c]
      BY <1>1 DEF WorkerInv, HandInv, Fresh
    <3>6. events[i].new # "null"
      <4>1. events[i].new \in Statuses
        BY <2>1, EventType
      <4> QED BY <4>1 DEF Statuses
    <3>7. seen[m] = lastStatus[c] => Old(m) = events[i].new
      BY <3>4, <3>6 DEF Old
    <3> QED BY <1>2, <2>1, <2>2, <3>1, <3>5, <3>7
  <2>3. CASE j # L + 1
    <3>1. j \in 1..L /\ events'[j] = events[j]
      <4>1. L \in Nat
        BY <1>1
      <4> HIDE DEF L
      <4>2. j \in 1..L
        BY <2>3, <4>1
      <4> QED BY <1>2, <4>2
    <3>2. \A k \in (i + 1)..(j - 1) : events[k].check # events[i].check
      BY <1>1, <1>2, <2>1, <3>1
    <3> QED BY <2>1, <3>1, <3>2 DEF WorkerInv, RowsInv, EventsAlternate
  <2> QED BY <2>2, <2>3
<1> QED BY <1>4, <1>5, <1>6 DEF RowsInv

LEMMA RowsStep ==
  ASSUME WorkerInv, [Next]_pwVars
  PROVE  RowsInv'
<1> USE DEF WorkerInv, brokerVars, rowVars, stepVars
<1>1. ASSUME NEW p \in Payloads, RequestCheck(p) PROVE RowsInv'
  BY <1>1, RowsFrame DEF RequestCheck
<1>2. ASSUME NEW m \in Members, Loop(m) \/ Crash(m) PROVE RowsInv'
  BY <1>2, RowsFrame DEF Loop, Crash, Return
<1>3. ASSUME NEW m \in Members, IgnoreInvalid(m) \/ ReadCheck(m) \/ ReadCheckFails(m)
      PROVE  RowsInv'
  BY <1>3, RowsFrame DEF IgnoreInvalid, ReadCheck, ReadCheckFails
<1>4. ASSUME NEW m \in Members, NEW s \in Statuses, Ping(m, s) PROVE RowsInv'
  <2>1. runs \subseteq runs' /\ overlapped' = overlapped
    BY <1>4 DEF Ping, WithRun, Return
  <2> QED BY <1>4, <2>1, RowsFrame DEF Ping
<1>5. ASSUME NEW m \in Members, ChangeTxFails(m) PROVE RowsInv'
  BY <1>5, RowsFrame DEF ChangeTxFails, TxRolledBack, Return
<1>6. ASSUME NEW c \in Checks, DeleteCheck(c) PROVE RowsInv'
  <2>1. /\ events' = events /\ live' = live \ {c} /\ overlapped' = overlapped
        /\ \A b \in live' : lastStatus'[b] = lastStatus[b]
        /\ \A r \in runs : r[1] \in live' => r \in runs'
    BY <1>6 DEF DeleteCheck, TypeOK
  <2>2. StatusIsLastAnnounced'
    BY <2>1 DEF RowsInv, StatusIsLastAnnounced, EventsOf
  <2>3. EventHasRun'
    BY <2>1 DEF RowsInv, EventHasRun
  <2>4. EventsAlternate'
    BY <2>1 DEF RowsInv, EventsAlternate
  <2> QED BY <2>2, <2>3, <2>4 DEF RowsInv
<1>7. CASE UNCHANGED pwVars
  BY <1>7, RowsFrame DEF pwVars
<1> QED
  BY <1>1, <1>2, <1>3, <1>4, <1>5, <1>6, <1>7, RowsChange DEF Next, WorkerNext

-----------------------------------------------------------------------------
LEMMA WorkerStart == ASSUME Init PROVE WorkerInv
<1> USE DEF Init, WorkerInit
<1>1. ConsumerInv
  BY ConsumerAssumption
  DEF ConsumerInit, ConsumerInv, ConsumerTypeOK, InHand, OwnerPosition, NoSilentSkip,
      CommitFollowsSuccess, Offsets
<1>2. TypeOK
  BY <1>1 DEF ConsumerInv, TypeOK, Statuses, Old
<1>3. HandInv
  BY DEF HandInv, Known, Alone, Fresh, Busy
<1>4. RowsInv
  BY DEF RowsInv, StatusIsLastAnnounced, EventsOf, EventHasRun, EventsAlternate
<1> QED BY <1>1, <1>2, <1>3, <1>4 DEF WorkerInv

LEMMA WorkerInvStep ==
  ASSUME WorkerInv, [Next]_pwVars
  PROVE  WorkerInv'
<1>1. ConsumerInv'
  BY ConsumerInvStep, WorkerRefinesConsumer DEF WorkerInv
<1>2. HandInv' /\ RowsInv'
  BY HandStep, RowsStep
<1>3. TypeOK'
  BY <1>1, WorkerTypeStep DEF WorkerInv, HandInv, ConsumerInv
<1> QED BY <1>1, <1>2, <1>3 DEF WorkerInv

\* The worker's inductive invariant holds in every reachable state.
THEOREM WorkerInvariant == Spec => []WorkerInv
<1>1. Init => WorkerInv
  BY WorkerStart
<1>2. WorkerInv /\ [Next]_pwVars => WorkerInv'
  BY WorkerInvStep
<1> QED BY <1>1, <1>2, PTL DEF Spec

\* A worker inside HandleCheck is inside the consumer's handler, and opens a
\* transaction only for a status that differs from the one it saw.
THEOREM WorkerTypeCorrect == Spec => []TypeOK
BY WorkerInvariant, PTL DEF WorkerInv

\* The table and the outbox never drift apart.
THEOREM StatusMatchesEvents == Spec => []StatusIsLastAnnounced
<1>1. WorkerInv => StatusIsLastAnnounced
  BY DEF WorkerInv, RowsInv
<1> QED BY <1>1, WorkerInvariant, PTL

\* Every announced change of a check that still exists is backed by a run.
THEOREM EventsAreBacked == Spec => []EventHasRun
<1>1. WorkerInv => EventHasRun
  BY DEF WorkerInv, RowsInv
<1> QED BY <1>1, WorkerInvariant, PTL

\* Unless two workers had the check in hand at once, each of its events starts
\* where the one before it ended.
THEOREM EventsFollowOnEachOther == Spec => []EventsAlternate
<1>1. WorkerInv => EventsAlternate
  BY DEF WorkerInv, RowsInv
<1> QED BY <1>1, WorkerInvariant, PTL

-----------------------------------------------------------------------------
(***************************************************************************)
(* The worker beside the check service.  Saving a check rewrites the       *)
(* status a worker has seen, and rows come and go, so that of the above    *)
(* only Known stays; deleted ids are not used again, and that is what the  *)
(* rest is built on.                                                       *)
(***************************************************************************)
\* Who was told that a check was deleted was told so once, and it is gone.
Ledger == \A c \in Checks : okDeletes[c] \in 0..1 /\ (okDeletes[c] = 1 => c \in gone)

\* Events are about checks that exist or existed.
EventsOfRows == \A i \in 1..Len(events) : events[i].check \in live \cup gone

ApiInv == ConsumerInv /\ ApiTypeOK /\ Known /\ Ledger /\ EventsOfRows /\ EventHasRun

-----------------------------------------------------------------------------
LEMMA KnownStep ==
  ASSUME ConsumerInv, TypeOK, Known, [Next]_pwVars
  PROVE  Known'
<1> USE DEF brokerVars, rowVars, stepVars
<1>1. /\ stage \in [Members -> {"start", "ping", "tx"}] /\ live \subseteq Checks
      /\ mpc \in [Members -> {"fetch", "handle", "commit"}] /\ cur \in [Members -> Nat]
      /\ \A n \in Members : Busy(n) => mpc[n] = "handle"
  BY DEF TypeOK, ConsumerTypeOK, Busy
<1>2. ASSUME \A n \in Members : Busy(n)' => Busy(n) /\ Request(n)' = Request(n)
      PROVE  Known'
  BY <1>2 DEF Known
<1>3. ASSUME NEW p \in Payloads, RequestCheck(p) PROVE Known'
  <2>1. \A n \in Members : Busy(n)' => Busy(n)
    BY <1>3 DEF RequestCheck, Busy
  <2> QED BY <1>1, <1>2, <1>3, <2>1, RequestStays
<1>4. ASSUME NEW m \in Members, Loop(m) PROVE Known'
  <2>1. log' = log /\ \A n \in Members : Busy(n)' => Busy(n) /\ cur'[n] = cur[n]
    BY <1>1, <1>4 DEF Loop, Fetch, Commit, CommitFail, Rebalance, Busy
  <2> QED BY <1>2, <2>1 DEF Request
<1>5. ASSUME NEW m \in Members, Crash(m) PROVE Known'
  <2>1. UNCHANGED <<log, cur>> /\ \A n \in Members : Busy(n)' => Busy(n)
    BY <1>1, <1>5 DEF Crash, Restart, Return, Busy
  <2> QED BY <1>2, <2>1 DEF Request
<1>6. ASSUME NEW m \in Members, IgnoreInvalid(m) \/ ReadCheckFails(m) PROVE Known'
  <2>1. UNCHANGED <<stage, log, cur>>
    BY <1>6 DEF IgnoreInvalid, ReadCheckFails, HandlerOk, HandlerErr, HandlerFault
  <2> QED BY <1>2, <2>1 DEF Request, Busy
<1>7. ASSUME NEW m \in Members, ReadCheck(m) PROVE Known'
  <2>1. /\ UNCHANGED <<log, cur>> /\ Request(m) \in Checks
        /\ \A n \in Members : n # m => Busy(n)' = Busy(n)
    BY <1>1, <1>7 DEF ReadCheck, Found, consumerVars, Busy
  <2> QED BY <2>1 DEF Known, Request
<1>8. ASSUME NEW m \in Members, (\E s \in Statuses : Ping(m, s)) \/ ChangeTx(m) \/ ChangeTxFails(m)
      PROVE  Known'
  <2>1. UNCHANGED <<log, cur>>
    BY <1>8 DEF Ping, ChangeTx, ChangeTxFails, HandlerOk, HandlerHidesFault, consumerVars
  <2>2. \A n \in Members : Busy(n)' => Busy(n)
    BY <1>1, <1>8 DEF Ping, ChangeTx, ChangeTxFails, Return, Busy
  <2> QED BY <1>2, <2>1, <2>2 DEF Request
<1>9. ASSUME NEW c \in Checks, DeleteCheck(c) PROVE Known'
  BY <1>2, <1>9 DEF DeleteCheck, consumerVars, Request, Busy
<1>10. CASE UNCHANGED pwVars
  BY <1>2, <1>10 DEF pwVars, consumerVars, Request, Busy
<1> QED
  BY <1>3, <1>4, <1>5, <1>6, <1>7, <1>8, <1>9, <1>10 DEF Next, WorkerNext

\* What the workers do to the rows: they add runs, and announce a result only
\* with its run.
LEMMA WorkerRows ==
  ASSUME TypeOK, WorkerNext
  PROVE  /\ live' = live /\ runs \subseteq runs'
         /\ \/ events' = events
            \/ \E e : /\ events' = Append(events, e)
                      /\ e.check \in live /\ <<e.check, e.new>> \in runs'
<1> USE DEF brokerVars, rowVars, stepVars
<1>1. ASSUME NEW p \in Payloads, RequestCheck(p) PROVE UNCHANGED rowVars
  BY <1>1 DEF RequestCheck
<1>2. ASSUME NEW m \in Members,
             \/ Loop(m) \/ Crash(m) \/ IgnoreInvalid(m) \/ ReadCheck(m) \/ ReadCheckFails(m)
             \/ ChangeTxFails(m)
      PROVE  UNCHANGED rowVars
  BY <1>2 DEF Loop, Crash, IgnoreInvalid, ReadCheck, ReadCheckFails, ChangeTxFails, TxRolledBack
<1>3. ASSUME NEW m \in Members, NEW s \in Statuses, Ping(m, s)
      PROVE  UNCHANGED <<live, events>> /\ runs \subseteq runs'
  BY <1>3 DEF Ping, WithRun
<1>4. ASSUME NEW m \in Members, ChangeTx(m)
      PROVE  /\ live' = live /\ runs \subseteq runs'
             /\ \E e : /\ events' = Append(events, e)
                       /\ e.check \in live /\ <<e.check, e.new>> \in runs'
  <2> DEFINE e == [check |-> Request(m), old |-> Old(m), new |-> result[m]]
  <2>1. /\ live' = live /\ Request(m) \in live /\ events' = Append(events, e)
        /\ runs' = runs \cup {<<Request(m), result[m]>>}
    BY <1>4 DEF ChangeTx, StatusChange, WithRun
  <2>2. e.check = Request(m) /\ e.new = result[m]
    OBVIOUS
  <2> HIDE DEF e
  <2> QED BY <2>1, <2>2
<1> QED BY <1>1, <1>2, <1>3, <1>4 DEF WorkerNext

\* Events and runs, when rows and runs are only added, or a check is deleted.
LEMMA BackedFrame ==
  ASSUME EventsOfRows, EventHasRun, events' = events, live \cup gone \subseteq live' \cup gone',
         live' \subseteq live \cup (Checks \ gone), gone \subseteq gone',
         \A r \in runs : r[1] \in live' => r \in runs'
  PROVE  EventsOfRows' /\ EventHasRun'
BY DEF EventsOfRows, EventHasRun

LEMMA BackedAppend ==
  ASSUME EventsOfRows, EventHasRun, TypeOK, live' = live, gone' = gone, runs \subseteq runs',
         NEW e, events' = Append(events, e), e.check \in live, <<e.check, e.new>> \in runs'
  PROVE  EventsOfRows' /\ EventHasRun'
<1>1. events \in Seq([check : Checks, old : Statuses, new : Statuses])
  BY DEF TypeOK
<1>2. /\ Len(events) \in Nat /\ Len(events') = Len(events) + 1
      /\ \A i \in 1..Len(events) : events'[i] = events[i]
      /\ events'[Len(events) + 1] = e
  BY <1>1
<1>3. \A i \in 1..Len(events') : i \in 1..Len(events) \/ i = Len(events) + 1
  BY <1>2
<1> QED BY <1>2, <1>3 DEF EventsOfRows, EventHasRun

\* A step of the consumer's variables that only spends a fault.
LEMMA ConsumerFault ==
  ASSUME ConsumerInv, UNCHANGED <<log, committed, owner, mpc, pos, cur, handled, failed>>,
         faults' \in 0..MaxFaults
  PROVE  ConsumerInv'
BY DEF ConsumerInv, ConsumerTypeOK, InHand, OwnerPosition, NoSilentSkip, CommitFollowsSuccess,
   Finished, Offsets

LEMMA CallTyped ==
  ASSUME ApiTypeOK, NEW s \in Sessions
  PROVE  /\ call[s] \in Calls
         /\ call[s].op \in {"update", "delete"} => call[s].check \in Checks
         /\ call[s].op = "update" => call[s].status \in Statuses /\ call[s].settings \in Settings
<1>1. call[s] \in Calls
  BY DEF ApiTypeOK
<1>2. NoCall.op = "none"
  BY DEF NoCall
<1> QED BY <1>1, <1>2 DEF Calls

LEMMA ApiStep ==
  ASSUME ApiInv, [ApiNext]_allVars
  PROVE  ApiInv'
<1> USE CheckApiAssumption DEF rowVars, stepVars, apiVars
<1>0. /\ TypeOK /\ ConsumerInv /\ Known /\ Ledger /\ EventsOfRows /\ EventHasRun /\ ApiTypeOK
      /\ live \subseteq Checks /\ gone \subseteq Checks \ live
      /\ call = [s \in Sessions |-> call[s]] /\ NoCall \in Calls
  BY DEF ApiInv, ApiTypeOK, TypeOK, Calls
\* The worker's variables.
<1>1. ASSUME [Next]_pwVars PROVE ConsumerInv' /\ Known' /\ TypeOK'
  <2>1. ConsumerInv'
    BY <1>0, <1>1, ConsumerInvStep, WorkerRefinesConsumer
  <2>2. Known'
    BY <1>0, <1>1, KnownStep
  <2> QED BY <1>0, <1>1, <2>1, <2>2, WorkerTypeStep DEF ConsumerInv
<1>2. ASSUME UNCHANGED pwVars
      PROVE  /\ ConsumerInv' /\ Known' /\ TypeOK'
             /\ UNCHANGED <<live, runs, events>>
  BY <1>1, <1>2 DEF pwVars
<1>3. ASSUME UNCHANGED <<log, cur, stage>> PROVE Known'
  BY <1>0, <1>3 DEF Known, Busy, Request
<1>4. ASSUME WorkerNext, UNCHANGED apiVars PROVE ApiInv'
  <2>1. ConsumerInv' /\ Known' /\ TypeOK' /\ live' = live
    BY <1>0, <1>1, <1>4, WorkerRows DEF Next
  <2>2. ApiTypeOK' /\ Ledger'
    BY <1>0, <1>4, <2>1 DEF ApiTypeOK, Ledger
  <2>3. EventsOfRows' /\ EventHasRun'
    BY <1>0, <1>4, WorkerRows, BackedFrame, BackedAppend
  <2> QED BY <2>1, <2>2, <2>3 DEF ApiInv
<1>5. ASSUME NEW s \in Sessions, NEW c \in Checks, CreateCheck(s, c) PROVE ApiInv'
  <2>1. /\ live' = live \cup {c} /\ c \notin gone
        /\ UNCHANGED <<consumerVars, lastStatus, runs, events, stepVars, apiVars>>
    BY <1>5 DEF CreateCheck
  <2>2. ConsumerInv' /\ Known'
    BY <1>0, <1>3, <2>1, ConsumerInvStep DEF consumerVars
  <2>3. TypeOK'
    BY <1>0, <2>1, <2>2 DEF TypeOK, ConsumerInv, consumerVars, Old
  <2>4. ApiTypeOK' /\ Ledger'
    BY <1>0, <2>1, <2>3 DEF ApiTypeOK, Ledger
  <2>5. EventsOfRows' /\ EventHasRun'
    BY <1>0, <2>1, BackedFrame
  <2> QED BY <2>2, <2>4, <2>5 DEF ApiInv
<1>6. ASSUME NEW s \in Sessions, ListChecks(s) PROVE ApiInv'
  <2>1. ConsumerInv' /\ Known' /\ TypeOK' /\ UNCHANGED <<live, runs, events, gone, okDeletes>>
    BY <1>2, <1>6 DEF ListChecks
  <2>2. page' \in [Sessions -> [Checks -> Statuses \cup {"null"}]]
    BY <1>0, <1>6 DEF ListChecks, ApiTypeOK, TypeOK
  <2>3. ApiTypeOK' /\ Ledger'
    BY <1>0, <1>6, <2>1, <2>2 DEF ListChecks, ApiTypeOK, Ledger
  <2> QED BY <1>0, <2>1, <2>3 DEF ApiInv, EventsOfRows, EventHasRun
<1>7. ASSUME NEW s \in Sessions, NEW c \in Checks,
             DeleteLoad(s, c) \/ \E x \in Settings : UpdateLoad(s, c, x)
      PROVE  ApiInv'
  <2>1. /\ ConsumerInv' /\ Known' /\ TypeOK'
        /\ UNCHANGED <<live, runs, events, gone, okDeletes, settings, page, confirmed>>
    BY <1>2, <1>7 DEF DeleteLoad, UpdateLoad
  <2>2. call' \in [Sessions -> Calls]
    <3>1. FromPB(page[s][c]) \in Statuses
      BY <1>0 DEF FromPB, ApiTypeOK, Statuses
    <3> QED BY <1>0, <1>7, <3>1 DEF DeleteLoad, UpdateLoad, ApiTypeOK, Calls
  <2>3. ApiTypeOK' /\ Ledger'
    BY <1>0, <2>1, <2>2 DEF ApiTypeOK, Ledger
  <2> QED BY <1>0, <2>1, <2>3 DEF ApiInv, EventsOfRows, EventHasRun
<1>8. ASSUME NEW s \in Sessions, UpdateStore(s) PROVE ApiInv'
  <2>1. /\ call[s].check \in Checks /\ call[s].status \in Statuses /\ call[s].settings \in Settings
        /\ UNCHANGED <<consumerVars, live, runs, events, stepVars, gone, settings, page, okDeletes>>
    BY <1>0, <1>8, CallTyped DEF UpdateStore, StatusStored
  <2>2. ConsumerInv' /\ Known'
    BY <1>0, <1>3, <2>1, ConsumerInvStep DEF consumerVars
  <2>3. TypeOK'
    <3>1. lastStatus' \in [Checks -> Statuses \cup {"null"}]
      BY <1>0, <1>8, <2>1 DEF UpdateStore, StatusStored, TypeOK
    <3> QED BY <1>0, <2>1, <2>2, <3>1 DEF TypeOK, ConsumerInv, consumerVars, Old
  <2>4. ApiTypeOK' /\ Ledger'
    BY <1>0, <1>8, <2>1, <2>3 DEF UpdateStore, ApiTypeOK, Ledger
  <2> QED BY <1>0, <2>1, <2>2, <2>4 DEF ApiInv, EventsOfRows, EventHasRun
<1>9. ASSUME NEW s \in Sessions, DeleteStore(s) PROVE ApiInv'
  <2> DEFINE c == call[s].check
  <2>1. /\ c \in Checks /\ gone' = gone \cup {c} /\ UNCHANGED <<settings, page, confirmed>>
        /\ call' = [call EXCEPT ![s] = NoCall]
        /\ okDeletes' = [okDeletes EXCEPT ![c] = IF RowDeleted(c) /\ @ < 2 THEN @ + 1 ELSE @]
        /\ DeleteCheck(c) \/ (c \notin live /\ UNCHANGED pwVars)
    BY <1>0, <1>9, CallTyped DEF DeleteStore
  <2> HIDE DEF c
  <2>2. ConsumerInv' /\ Known' /\ TypeOK'
    BY <1>1, <2>1 DEF Next
  <2>3. live' = live \ {c} /\ events' = events /\ \A r \in runs : r[1] \in live' => r \in runs'
    BY <2>1 DEF DeleteCheck, pwVars
  <2>4. Ledger'
    BY <1>0, <2>1 DEF Ledger, ApiTypeOK, RowDeleted
  <2>5. okDeletes' \in [Checks -> 0..2]
    BY <1>0, <2>1 DEF ApiTypeOK
  <2>6. ApiTypeOK'
    BY <1>0, <2>1, <2>2, <2>3, <2>5 DEF ApiTypeOK
  <2>7. EventsOfRows' /\ EventHasRun'
    BY <1>0, <2>1, <2>3, BackedFrame
  <2> QED BY <2>2, <2>4, <2>6, <2>7 DEF ApiInv
<1>10. ASSUME NEW s \in Sessions, CallFails(s) PROVE ApiInv'
  <2>1. /\ UNCHANGED <<log, committed, owner, mpc, pos, cur, handled, failed>>
        /\ UNCHANGED <<rowVars, stepVars, gone, settings, page, confirmed, okDeletes>>
        /\ call' = [call EXCEPT ![s] = NoCall] /\ faults' \in 0..MaxFaults
    BY <1>0, <1>10, ConsumerAssumption DEF CallFails, TypeOK, ConsumerTypeOK
  <2>2. ConsumerInv' /\ Known'
    BY <1>0, <1>3, <2>1, ConsumerFault
  <2>3. TypeOK'
    BY <1>0, <2>1, <2>2 DEF TypeOK, ConsumerInv, Old
  <2>4. ApiTypeOK' /\ Ledger'
    BY <1>0, <2>1, <2>3 DEF ApiTypeOK, Ledger
  <2> QED BY <1>0, <2>1, <2>2, <2>4 DEF ApiInv, EventsOfRows, EventHasRun
<1>11. CASE UNCHANGED allVars
  <2>1. ConsumerInv' /\ Known' /\ TypeOK' /\ UNCHANGED <<live, runs, events>> /\ UNCHANGED apiVars
    BY <1>2, <1>11 DEF allVars
  <2> QED BY <1>0, <2>1 DEF ApiInv, ApiTypeOK, Ledger, EventsOfRows, EventHasRun
<1> QED
  BY <1>4, <1>5, <1>6, <1>7, <1>8, <1>9, <1>10, <1>11 DEF ApiNext

\* The invariant of the worker and the check service together.
THEOREM ApiInvariant == ApiSpec => []ApiInv
<1>1. ApiInit => ApiInv
  <2> SUFFICES ASSUME ApiInit PROVE ApiInv
    OBVIOUS
  <2> USE DEF ApiInit, WorkerInit
  <2>1. ConsumerInv
    BY ConsumerAssumption
    DEF ConsumerInit, ConsumerInv, ConsumerTypeOK, InHand, OwnerPosition, NoSilentSkip,
        CommitFollowsSuccess, Offsets
  <2>2. TypeOK
    BY <2>1 DEF ConsumerInv, TypeOK, Statuses, Old
  <2>3. ApiTypeOK
    BY <2>2 DEF ApiTypeOK, Calls
  <2>4. Known /\ Ledger /\ EventsOfRows /\ EventHasRun
    BY DEF Known, Busy, Ledger, EventsOfRows, EventHasRun
  <2> QED BY <2>1, <2>3, <2>4 DEF ApiInv
<1>2. ApiInv /\ [ApiNext]_allVars => ApiInv'
  BY ApiStep
<1> QED BY <1>1, <1>2, PTL DEF ApiSpec

\* Rows, requests and pages stay well typed, and a deleted check stays out of
\* the table, whatever statements meet a row that changed since its load.
THEOREM ApiTypeCorrect == ApiSpec => []ApiTypeOK
<1>1. ApiInv => ApiTypeOK
  BY DEF ApiInv
<1> QED BY <1>1, ApiInvariant, PTL

\* Of all the deletes of a check, overlapping or repeated and from any number
\* of sessions, one is answered with success.
THEOREM OneDeleteSucceeds == ApiSpec => []DeletedOnce
<1>1. ApiInv => DeletedOnce
  BY DEF ApiInv, Ledger, DeletedOnce
<1> QED BY <1>1, ApiInvariant, PTL

\* Also when owners create, save and delete checks under the workers' hands,
\* every announced change of a check that exists has its run.
THEOREM EventsAreBackedBesideApi == ApiSpec => []EventHasRun
<1>1. ApiInv => EventHasRun
  BY DEF ApiInv
<1> QED BY <1>1, ApiInvariant, PTL

-----------------------------------------------------------------------------
(***************************************************************************)
(* The pipeline.  Its notifiers are those of module Notifier, so that what *)
(* NotifierProofs shows of a step of theirs holds here; the faults are     *)
(* shared, and a fault elsewhere takes nothing from either side but the    *)
(* chance of one.                                                          *)
(***************************************************************************)
NP == INSTANCE NotifierProofs WITH
  Members <- Notifiers, MaxLog <- MaxTopic,
  Payloads <- Checks \cup {NoChange, Garbled},
  log <- [i \in 1..Len(topic) |-> events[topic[i]].check],
  committed <- ncommitted, owner <- nowner, mpc <- nmpc, pos <- npos,
  cur <- ncur, handled <- nhandled, failed <- nfailed, step <- nstep

\* The event that the message at offset o is about, and its check.
RowAt(o) == topic[o + 1]
CheckAt(o) == events[topic[o + 1]].check

\* The topic is made of rows that were published.
TopicInv ==
  /\ topic \in Seq(1..Len(events))
  /\ delivered = {topic[i] : i \in 1..Len(topic)}

\* Each event has its row, and a row is closed after it was published.
RowInv ==
  /\ row \in [Rows -> {"absent", "open", "closed"}]
  /\ Len(events) <= MaxLog + MaxFaults
  /\ \A k \in Rows : row[k] # "absent" <=> k <= Len(events)
  /\ \A k \in Rows : row[k] = "closed" => k \in delivered

\* Of the messages on a check none is behind one of a later event, but for
\* the checks in overtaken.
InOrder ==
  \A i, j \in 0..(Len(topic) - 1) :
    i < j /\ CheckAt(i) = CheckAt(j) => RowAt(i) <= RowAt(j) \/ CheckAt(i) \in overtaken

\* As long as no former owner interferes, the owner's reader is not behind the
\* committed offset.
ReaderAhead == disturbed = Checks \/ ncommitted <= npos[nowner]

\* The last mail on a check is no older than the messages that the reader or
\* the group has behind it.
MailOf(c) == lastMail[c] \in EventsOf(c) \cup {0}

Behind(o) == o < Front \/ o < ncommitted

Taken ==
  \A o \in 0..(Len(topic) - 1) :
    Behind(o) => \/ Refused(RowAt(o))
                 \/ RowAt(o) <= lastMail[CheckAt(o)]
                 \/ CheckAt(o) \in overtaken \cup disturbed

LastMailInv ==
  /\ lastMail \in [Checks -> Nat] /\ \A c \in Checks : MailOf(c)
  /\ overtaken \subseteq Checks /\ disturbed \subseteq Checks
  /\ InOrder /\ ReaderAhead /\ Taken

PipeInv == WorkerInv /\ NP!NotifierInv /\ TopicInv /\ RowInv /\ LastMailInv

-----------------------------------------------------------------------------
LEMMA NotifierAssumptions ==
  /\ NP!ConsumerAssumption /\ NP!NotifierAssumption
  /\ NP!MaxCopies = MaxFaults + 2
<1>1. NP!IsFiniteSet(Notifiers)
  BY PipelineAssumption DEF NP!IsFiniteSet, IsFiniteSet
<1> QED
  BY <1>1, PipelineAssumption, ConsumerAssumption
  DEF NP!NotifierAssumption, NP!ConsumerAssumption, NP!MaxCopies

\* What happens outside of it takes nothing from the worker but the chance of
\* a fault.
LEMMA WorkerFault ==
  ASSUME WorkerInv, faults' \in 0..MaxFaults,
         UNCHANGED <<log, committed, owner, mpc, pos, cur, handled, failed, rowVars, stepVars>>
  PROVE  WorkerInv'
<1> USE DEF rowVars, stepVars
<1>1. ConsumerInv'
  BY ConsumerFault DEF WorkerInv
<1>2. TypeOK'
  BY <1>1 DEF WorkerInv, ConsumerInv, TypeOK, Old
<1>3. HandInv'
  BY DEF WorkerInv, HandInv, Known, Alone, Fresh, Busy, Request
<1>4. RowsInv'
  BY DEF WorkerInv, RowsInv, StatusIsLastAnnounced, EventsOf, EventHasRun, EventsAlternate
<1> QED BY <1>1, <1>2, <1>3, <1>4 DEF WorkerInv

\* A step of the worker or of the scheduler costs at most one fault.
LEMMA WorkerCost ==
  ASSUME WorkerInv, WorkerNext
  PROVE  faults' \in faults..MaxFaults
<1> USE DEF consumerVars, brokerVars, WorkerInv, TypeOK, ConsumerTypeOK
<1>1. MaxFaults \in Nat /\ faults \in Nat /\ faults <= MaxFaults
  BY ConsumerAssumption
<1>2. ASSUME NEW p \in Payloads, RequestCheck(p) PROVE faults' = faults
  BY <1>2 DEF RequestCheck, Produce
<1>3. ASSUME NEW m \in Members, Loop(m) \/ Crash(m)
      PROVE  faults' = faults \/ (faults < MaxFaults /\ faults' = faults + 1)
  BY <1>3 DEF Loop, Crash, Fetch, Commit, CommitFail, Rebalance, Restart
<1>4. ASSUME NEW m \in Members,
             \/ IgnoreInvalid(m) \/ ReadCheck(m) \/ ReadCheckFails(m) \/ ChangeTx(m)
             \/ ChangeTxFails(m) \/ \E s \in Statuses : Ping(m, s)
      PROVE  faults' = faults \/ (faults < MaxFaults /\ faults' = faults + 1)
  BY <1>4
  DEF IgnoreInvalid, ReadCheck, ReadCheckFails, ChangeTx, ChangeTxFails, Ping, HandlerOk,
      HandlerErr, HandlerFault, HandlerHidesFault
<1> QED BY <1>1, <1>2, <1>3, <1>4 DEF WorkerNext

\* Events that are there stay as they are.
LEMMA EventsStay ==
  ASSUME WorkerInv, WorkerInv', events' = events \/ \E e : events' = Append(events, e)
  PROVE  /\ Len(events) \in Nat /\ Len(events') \in {Len(events), Len(events) + 1}
         /\ events' = events <=> Len(events') = Len(events)
         /\ \A k \in 1..Len(events) : events'[k] = events[k] /\ events[k].check \in Checks
         /\ \A k \in 1..Len(events') : events'[k].check \in Checks
<1> DEFINE Row == [check : Checks, old : Statuses, new : Statuses]
<1>1. events \in Seq(Row) /\ events' \in Seq(Row)
  BY DEF WorkerInv, TypeOK
<1>2. \A r \in Row : r.check \in Checks
  OBVIOUS
<1> HIDE DEF Row
<1> QED BY <1>1, <1>2

LEMMA EventTyped ==
  ASSUME WorkerInv
  PROVE  Len(events) \in Nat /\ \A k \in 1..Len(events) : events[k].check \in Checks
<1> DEFINE Row == [check : Checks, old : Statuses, new : Statuses]
<1>1. events \in Seq(Row)
  BY DEF WorkerInv, TypeOK
<1>2. \A r \in Row : r.check \in Checks
  OBVIOUS
<1> HIDE DEF Row
<1> QED BY <1>1, <1>2

LEMMA TopicTyped ==
  ASSUME TopicInv
  PROVE  Len(topic) \in Nat /\ \A o \in 0..(Len(topic) - 1) : RowAt(o) \in 1..Len(events)
BY DEF TopicInv, RowAt

\* The notifiers' partition, when the topic is as it was.
LEMMA PartitionStays ==
  ASSUME WorkerInv, WorkerInv', TopicInv, topic' = topic,
         events' = events \/ \E e : events' = Append(events, e)
  PROVE  [i \in 1..Len(topic') |-> events'[topic'[i]].check]
           = [i \in 1..Len(topic) |-> events[topic[i]].check]
<1>1. \A i \in 1..Len(topic) : events'[topic[i]].check = events[topic[i]].check
  BY EventsStay DEF TopicInv
<1> QED BY <1>1

\* What notifiers do in the pipeline is what they do in their own module.
LEMMA NotifierSteps ==
  /\ \A m \in Notifiers : N!NotifierStep(m) => NP!NotifierStep(m)
  /\ \A c \in Checks : N!Announce(c) => NP!Announce(c)
  /\ \A c \in Checks : N!DeleteCheck(c) => NP!DeleteCheck(c)
  /\ N!Init => NP!Init
<1>1. ASSUME NEW m \in Notifiers, N!NotifierStep(m) PROVE NP!NotifierStep(m)
  BY Zenon, <1>1
  DEF N!NotifierStep, N!Loop, N!Crash, N!Undecodable, N!Ignore, N!LookUp, N!LookUpFails,
      N!SendOk, N!SendFails, N!StoreOk, N!StoreFails, N!Fetch, N!Commit, N!CommitFail,
      N!Rebalance, N!Restart, N!StartOffset, N!HandlerOk, N!HandlerErr, N!HandlerFault,
      N!HandlerHidesFault, N!Handling, N!Event, N!Goes, N!Mailed, N!MaxCopies, N!brokerVars,
      N!consumerVars, N!notifierVars, NP!NotifierStep, NP!Loop, NP!Crash, NP!Undecodable,
      NP!Ignore, NP!LookUp, NP!LookUpFails, NP!SendOk, NP!SendFails, NP!StoreOk,
      NP!StoreFails, NP!Fetch, NP!Commit, NP!CommitFail, NP!Rebalance, NP!Restart,
      NP!StartOffset, NP!HandlerOk, NP!HandlerErr, NP!HandlerFault, NP!HandlerHidesFault,
      NP!Handling, NP!Event, NP!Goes, NP!Mailed, NP!MaxCopies, NP!brokerVars, NP!consumerVars,
      NP!notifierVars
<1>2. ASSUME NEW c \in Checks, N!Announce(c) PROVE NP!Announce(c)
  BY Zenon, <1>2
  DEF N!Announce, N!Produce, N!notifierVars, NP!Announce, NP!Produce, NP!notifierVars
<1>3. ASSUME NEW c \in Checks, N!DeleteCheck(c) PROVE NP!DeleteCheck(c)
  BY Zenon, <1>3
  DEF N!DeleteCheck, N!Offsets, N!consumerVars, N!brokerVars, NP!DeleteCheck, NP!Offsets,
      NP!consumerVars, NP!brokerVars
<1>4. ASSUME N!Init PROVE NP!Init
  BY Zenon, <1>4
  DEF N!Init, N!ConsumerInit, NP!Init, NP!ConsumerInit
<1> QED BY <1>1, <1>2, <1>3, <1>4

LEMMA NotifierStays ==
  ASSUME PipeInv, WorkerInv', faults' \in faults..MaxFaults, live' = live, UNCHANGED mailVars,
         events' = events \/ \E e : events' = Append(events, e)
  PROVE  NP!NotifierInv'
<1>1. [i \in 1..Len(topic') |-> events'[topic'[i]].check]
        = [i \in 1..Len(topic) |-> events[topic[i]].check]
  BY PartitionStays DEF PipeInv, mailVars
<1> QED
  BY <1>1, NP!FaultElsewhere, NotifierAssumptions DEF PipeInv, mailVars, NP!notifierVars

LEMMA NotifierNext ==
  ASSUME PipeInv,
         \/ \E m \in Notifiers : N!NotifierStep(m)
         \/ \E c \in Checks : N!Announce(c)
         \/ \E c \in Checks : N!DeleteCheck(c)
  PROVE  NP!NotifierInv'
<1>1. NP!Next
  BY NotifierSteps DEF NP!Next
<1> QED
  BY <1>1, NP!NotifierInvStep, NotifierAssumptions DEF PipeInv

-----------------------------------------------------------------------------
\* The notifiers' state.
LEMMA NotifierState ==
  ASSUME PipeInv
  PROVE  /\ nowner \in Notifiers /\ Len(topic) \in Nat
         /\ nmpc \in [Notifiers -> {"fetch", "handle", "commit"}]
         /\ nstep \in [Notifiers -> {"start", "send", "store"}]
         /\ npos \in [Notifiers -> 0..Len(topic)] /\ ncur \in [Notifiers -> Nat]
         /\ ncommitted \in 0..Len(topic) /\ refused \subseteq 0..(Len(topic) - 1)
         /\ \A m \in Notifiers : nstep[m] # "start" => nmpc[m] = "handle"
         /\ \A m \in Notifiers : nmpc[m] # "fetch" => ncur[m] \in 0..(Len(topic) - 1)
<1>1. Len(topic) \in Nat /\ Len([i \in 1..Len(topic) |-> events[topic[i]].check]) = Len(topic)
  BY TopicTyped DEF PipeInv
<1> QED
  BY <1>1
  DEF PipeInv, NP!NotifierInv, NP!ConsumerInv, NP!ConsumerTypeOK, NP!TypeOK, NP!InHand,
      NP!Offsets

LEMMA MessageInHand ==
  ASSUME PipeInv, NEW m \in Notifiers, nmpc[m] # "fetch"
  PROVE  /\ ncur[m] \in 0..(Len(topic) - 1)
         /\ N!Event(m) = CheckAt(ncur[m]) /\ CheckAt(ncur[m]) \in Checks
         /\ RowAt(ncur[m]) \in 1..Len(events)
         /\ RowAt(ncur[m]) \in EventsOf(CheckAt(ncur[m]))
<1>1. ncur[m] \in 0..(Len(topic) - 1) /\ Len(topic) \in Nat
  BY NotifierState
<1>2. ncur[m] + 1 \in 1..Len(topic)
  BY <1>1
<1>3. RowAt(ncur[m]) \in 1..Len(events)
  BY <1>1, TopicTyped DEF PipeInv
<1>4. CheckAt(ncur[m]) \in Checks
  BY <1>3, EventTyped DEF PipeInv, CheckAt, RowAt
<1> QED BY <1>1, <1>2, <1>3, <1>4 DEF N!Event, CheckAt, RowAt, EventsOf

LEMMA FrontAt ==
  ASSUME PipeInv
  PROVE  Front \in 0..Len(topic) /\ Front <= npos[nowner]
BY NotifierState DEF Front

\* A mail is always counted.
LEMMA MailCounts ==
  ASSUME PipeInv, NEW m \in Notifiers, nmpc[m] = "handle", nstep[m] = "send", N!Mailed(m)
  PROVE  sent' # sent
<1> DEFINE o == ncur[m]
<1>1. o \in 0..(Len(topic) - 1) /\ Len(topic) \in Nat
  BY NotifierState
<1>2. o \in NP!Places
  <2>1. Len([i \in 1..Len(topic) |-> events[topic[i]].check]) = Len(topic)
    BY NotifierState
  <2>2. Len(topic) <= MaxTopic
    BY <2>1 DEF PipeInv, NP!NotifierInv, NP!ConsumerInv, NP!ConsumerTypeOK
  <2> QED
    BY <1>1, <2>2, PipelineAssumption DEF NP!Places
<1>3. m \in NP!Holding(o)
  BY DEF NP!Holding
<1>4. sent \in [NP!Places -> 0..(MaxFaults + 2)]
  BY NotifierAssumptions DEF PipeInv, NP!NotifierInv, NP!TypeOK, NP!Places
<1>5. NP!Cardinality(NP!Holding(o)) = Cardinality(NP!Holding(o))
  BY DEF NP!Cardinality, Cardinality
<1>6. sent[o] + Cardinality(NP!Holding(o)) + NP!Ahead(o) <= 1 + faults
  BY <1>2, <1>5 DEF PipeInv, NP!NotifierInv, NP!MailBudget
<1>7. Cardinality(NP!Holding(o)) \in Nat /\ NP!Ahead(o) \in {0, 1}
  <2>1. IsFiniteSet(NP!Holding(o))
    BY PipelineAssumption, FS_Subset DEF NP!Holding
  <2> QED BY <2>1, FS_CardinalityType DEF NP!Ahead
<1>8. faults \in 0..MaxFaults /\ MaxFaults \in Nat
  BY ConsumerAssumption DEF PipeInv, WorkerInv, TypeOK, ConsumerTypeOK
<1>9. sent[o] \in 0..(MaxFaults + 2) /\ sent[o] < MaxFaults + 2
  BY <1>2, <1>4, <1>6, <1>7, <1>8
<1>10. sent'[o] = sent[o] + 1
  BY <1>2, <1>4, <1>9, NotifierAssumptions DEF N!Mailed, N!MaxCopies
<1> QED BY <1>9, <1>10, <1>8

\* Only a message in hand is mailed.
LEMMA MailInHand ==
  ASSUME PipeInv, NEW m \in Notifiers, Notify(m), sent' # sent
  PROVE  nmpc[m] = "handle" /\ CheckAt(ncur[m]) \in Checks
<1>1. N!SendOk(m) \/ N!SendFails(m)
  BY DEF Notify, N!NotifierStep, N!Loop, N!Crash, N!Undecodable, N!Ignore, N!LookUp,
         N!LookUpFails, N!StoreOk, N!StoreFails, N!notifierVars
<1>2. nmpc[m] = "handle"
  BY <1>1 DEF N!SendOk, N!SendFails, N!Handling
<1> QED BY <1>2, MessageInHand

\* What a step of a notifier moves: the reader and the group come past no
\* message but the one in hand, which was mailed or refused; and unless the
\* mail is out of turn, nothing behind them is of a later offset.
LEMMA NotifyMoves ==
  ASSUME PipeInv, NEW m \in Notifiers, Notify(m), disturbed' # Checks
  PROVE  /\ ncommitted' <= npos'[nowner']
         /\ \A o \in 0..(Len(topic) - 1) :
              Behind(o)' => Behind(o) \/ (o = ncur[m] /\ (o \in refused' \/ sent' # sent))
         /\ sent' # sent =>
              \/ CheckAt(ncur[m]) \in disturbed'
              \/ \A o \in 0..(Len(topic) - 1) : Behind(o)' => o <= ncur[m]
<1> DEFINE Goal ==
      /\ ncommitted' <= npos'[nowner']
      /\ \A o \in 0..(Len(topic) - 1) :
           Behind(o)' => Behind(o) \/ (o = ncur[m] /\ (o \in refused' \/ sent' # sent))
      /\ sent' # sent =>
           \/ CheckAt(ncur[m]) \in disturbed'
           \/ \A o \in 0..(Len(topic) - 1) : Behind(o)' => o <= ncur[m]
<1>1. /\ nowner \in Notifiers /\ Len(topic) \in Nat
      /\ nmpc \in [Notifiers -> {"fetch", "handle", "commit"}]
      /\ nstep \in [Notifiers -> {"start", "send", "store"}]
      /\ npos \in [Notifiers -> 0..Len(topic)] /\ ncur \in [Notifiers -> Nat]
      /\ ncommitted \in 0..Len(topic)
      /\ \A n \in Notifiers : nstep[n] # "start" => nmpc[n] = "handle"
  BY NotifierState
<1>2. Front \in 0..Len(topic) /\ Front <= npos[nowner]
  BY FrontAt
<1>3. disturbed # Checks /\ ncommitted <= npos[nowner]
  BY MailInHand DEF PipeInv, LastMailInv, ReaderAhead, Notify, CheckAt
<1>4. CASE sent' = sent /\ ncommitted' = ncommitted /\ nowner' = nowner /\ Front' = Front
           /\ npos'[nowner] \in {npos[nowner], npos[nowner] + 1}
  BY <1>1, <1>2, <1>3, <1>4 DEF Behind
<1>5. CASE sent' = sent /\ ncommitted' = ncommitted /\ npos'[nowner'] = ncommitted
           /\ Front' \in {ncommitted, ncommitted - 1}
  BY <1>1, <1>2, <1>3, <1>5 DEF Behind
<1> DEFINE Same == sent' = sent /\ ncommitted' = ncommitted /\ nowner' = nowner
<1>6. CASE N!Fetch(m) /\ UNCHANGED N!notifierVars
  <2>1. /\ nmpc[m] = "fetch" /\ nowner = m /\ nstep[m] = "start" /\ nstep' = nstep /\ Same
        /\ nmpc' = [nmpc EXCEPT ![m] = "handle"]
        /\ ncur' = [ncur EXCEPT ![m] = npos[m]] /\ npos' = [npos EXCEPT ![m] = @ + 1]
    BY <1>1, <1>6 DEF N!Fetch, N!brokerVars, N!notifierVars
  <2> QED BY <1>1, <1>4, <2>1 DEF Front
<1>7. CASE N!Commit(m) /\ UNCHANGED N!notifierVars
  <2>1. /\ nmpc[m] = "commit" /\ nmpc' = [nmpc EXCEPT ![m] = "fetch"]
        /\ ncommitted' = ncur[m] + 1 /\ UNCHANGED <<nowner, npos, ncur, nstep, sent>>
    BY <1>7 DEF N!Commit, N!notifierVars
  <2>2. Front' = Front
    BY <1>1, <2>1 DEF Front
  <2>3. ncommitted' <= ncommitted \/ ncommitted' <= Front
    BY <1>1, <1>2, <2>1 DEF Notify
  <2> QED BY <1>1, <1>2, <1>3, <2>1, <2>2, <2>3 DEF Behind
<1>8. CASE N!CommitFail(m) /\ UNCHANGED N!notifierVars
  <2>1. /\ nmpc[m] = "commit" /\ nmpc' = [nmpc EXCEPT ![m] = "fetch"]
        /\ Same /\ UNCHANGED <<npos, ncur, nstep>>
    BY <1>8 DEF N!CommitFail, N!brokerVars, N!notifierVars
  <2> QED BY <1>1, <1>4, <2>1 DEF Front
<1>9. CASE N!Rebalance(m) /\ UNCHANGED N!notifierVars
  <2>1. /\ nowner' = m /\ npos' = [npos EXCEPT ![m] = ncommitted]
        /\ UNCHANGED <<ncommitted, nmpc, ncur, nstep, sent>>
    BY <1>9 DEF N!Rebalance, N!StartOffset, N!notifierVars
  <2> QED BY <1>1, <1>5, <2>1 DEF Front
<1>10. CASE N!Crash(m)
  <2>1. /\ nmpc' = [nmpc EXCEPT ![m] = "fetch"] /\ nstep' = [nstep EXCEPT ![m] = "start"]
        /\ UNCHANGED <<ncommitted, ncur, sent>>
        /\ \E o \in Notifiers :
             /\ nowner' = IF nowner = m THEN o ELSE nowner
             /\ npos' = [npos EXCEPT ![nowner'] = IF nowner = m THEN ncommitted ELSE @]
    BY <1>10 DEF N!Crash, N!Restart, N!StartOffset, N!Goes
  <2>2. CASE nowner = m
    <3>1. nowner' \in Notifiers /\ npos' = [npos EXCEPT ![nowner'] = ncommitted]
      BY <2>1, <2>2
    <3>2. npos'[nowner'] = ncommitted
      BY <1>1, <3>1
    <3>3. Front' \in {ncommitted, ncommitted - 1}
      BY <1>1, <2>1, <3>1, <3>2 DEF Front
    <3> QED BY <1>5, <2>1, <3>2, <3>3
  <2>3. CASE nowner # m
    <3>1. nowner' = nowner /\ npos' = npos
      BY <1>1, <2>1, <2>3
    <3> QED BY <1>1, <1>4, <2>1, <2>3, <3>1 DEF Front
  <2> QED BY <2>2, <2>3
<1>12. CASE N!Undecodable(m) \/ N!Ignore(m)
  <2>1. nmpc[m] = "handle" /\ (N!Event(m) = Garbled \/ N!Event(m) = NoChange)
    BY <1>12 DEF N!Undecodable, N!Ignore, N!Handling
  <2> QED BY <2>1, MessageInHand, PipelineAssumption
<1>13. CASE N!LookUp(m)
  <2>1. /\ nmpc[m] = "handle" /\ nstep[m] = "start" /\ nstep' = [nstep EXCEPT ![m] = "send"]
        /\ Same /\ UNCHANGED <<npos, ncur, nmpc>>
    BY <1>13 DEF N!LookUp, N!Handling, N!Goes, N!consumerVars, N!brokerVars
  <2> QED BY <1>1, <1>4, <2>1 DEF Front
<1>14. CASE N!LookUpFails(m)
  <2>1. /\ nmpc[m] = "handle" /\ nstep[m] = "start" /\ nmpc' = [nmpc EXCEPT ![m] = "fetch"]
        /\ Same /\ UNCHANGED <<npos, ncur, nstep>> /\ ncur[m] \in refused'
    BY <1>14 DEF N!LookUpFails, N!HandlerFault, N!HandlerErr, N!Handling, N!brokerVars
  <2>2. Front' = Front \/ (Front' = Front + 1 /\ Front = ncur[m])
    BY <1>1, <2>1 DEF Front
  <2>3. Front' <= npos[nowner]
    BY <1>1, <2>1 DEF Front
  <2> QED BY <1>1, <1>2, <1>3, <2>1, <2>2, <2>3 DEF Behind
\* A mail, and whether the notifier has the message in hand in its turn.
<1>15. ASSUME nmpc[m] = "handle", nstep[m] = "send", sent' # sent,
              Front' = Front \/ (Front' = Front + 1 /\ Front = ncur[m]), Front' <= npos[nowner],
              UNCHANGED <<nowner, ncommitted, npos, ncur>>
       PROVE  Goal
  <2>1. CheckAt(ncur[m]) \in disturbed' \/ (nowner = m /\ ncur[m] = Front)
    BY <1>15 DEF Notify, CheckAt
  <2>2. nowner = m /\ ncur[m] = Front => npos[nowner] <= ncur[m] + 1
    BY <1>1, <1>15 DEF Front
  <2> QED BY <1>1, <1>2, <1>3, <1>15, <2>1, <2>2 DEF Behind
<1>16. CASE N!SendOk(m)
  <2>1. /\ nmpc[m] = "handle" /\ nstep[m] = "send" /\ nstep' = [nstep EXCEPT ![m] = "store"]
        /\ N!Mailed(m) /\ UNCHANGED <<nowner, ncommitted, npos, ncur, nmpc>>
    BY <1>16 DEF N!SendOk, N!Handling, N!Goes, N!consumerVars, N!brokerVars
  <2>2. sent' # sent
    BY <2>1, MailCounts
  <2>3. /\ Front' = Front \/ (Front' = Front + 1 /\ Front = ncur[m])
        /\ Front' <= npos[nowner]
    BY <1>1, <2>1 DEF Front
  <2> QED BY <1>15, <2>1, <2>2, <2>3
<1>17. CASE N!SendFails(m)
  <2>1. /\ nmpc[m] = "handle" /\ nstep[m] = "send" /\ nstep' = [nstep EXCEPT ![m] = "start"]
        /\ nmpc' = [nmpc EXCEPT ![m] = "fetch"] /\ ncur[m] \in refused'
        /\ UNCHANGED <<nowner, ncommitted, npos, ncur>>
    BY <1>17 DEF N!SendFails, N!Handling, N!Goes, N!HandlerFault, N!brokerVars
  <2>2. /\ Front' = Front \/ (Front' = Front + 1 /\ Front = ncur[m])
        /\ Front' <= npos[nowner]
    BY <1>1, <2>1 DEF Front
  <2>3. CASE sent' = sent
    BY <1>1, <1>2, <1>3, <2>1, <2>2, <2>3 DEF Behind
  <2> QED BY <1>15, <2>1, <2>2, <2>3
<1>18. CASE N!StoreOk(m) \/ N!StoreFails(m)
  <2>1. /\ nmpc[m] = "handle" /\ nstep[m] = "store" /\ nstep' = [nstep EXCEPT ![m] = "start"]
        /\ nmpc' = [nmpc EXCEPT ![m] = "commit"] /\ Same /\ UNCHANGED <<npos, ncur>>
    BY <1>18
    DEF N!StoreOk, N!StoreFails, N!Handling, N!Goes, N!HandlerOk, N!HandlerHidesFault,
        N!brokerVars
  <2> QED BY <1>1, <1>4, <2>1 DEF Front
<1> HIDE DEF Goal
<1> QED
  BY <1>6, <1>7, <1>8, <1>9, <1>10, <1>12, <1>13, <1>14, <1>16, <1>17, <1>18
  DEF Notify, N!NotifierStep, N!Loop

LEMMA LastMailNotified ==
  ASSUME PipeInv, NEW m \in Notifiers, Notify(m)
  PROVE  LastMailInv'
<1> DEFINE c == CheckAt(ncur[m])
           k == RowAt(ncur[m])
<1>1. UNCHANGED <<topic, events, overtaken>>
  BY DEF Notify, rowVars
<1>2. /\ disturbed \subseteq disturbed' /\ disturbed' \subseteq Checks
      /\ sent' = sent => lastMail' = lastMail
      /\ sent' # sent => /\ lastMail' = [lastMail EXCEPT ![c] = k]
                         /\ c \in Checks /\ k \in EventsOf(c)
  BY MailInHand, MessageInHand DEF PipeInv, LastMailInv, Notify, CheckAt, RowAt
<1>3. refused \subseteq refused'
  BY DEF Notify, N!NotifierStep, N!Loop, N!Crash, N!Undecodable, N!Ignore, N!LookUp,
         N!LookUpFails, N!SendOk, N!SendFails, N!StoreOk, N!StoreFails, N!notifierVars
<1>4. lastMail \in [Checks -> Nat] /\ \A b \in Checks : MailOf(b)
  BY DEF PipeInv, LastMailInv
<1> HIDE DEF c, k
<1>5. lastMail' \in [Checks -> Nat] /\ \A b \in Checks : MailOf(b)'
  BY <1>1, <1>2, <1>4 DEF MailOf, EventsOf
<1>6. \A o \in 0..(Len(topic) - 1) : CheckAt(o) \in Checks /\ RowAt(o) \in Nat
  BY TopicTyped, EventTyped DEF PipeInv, CheckAt, RowAt
<1>7. InOrder' /\ overtaken' \subseteq Checks
  BY <1>1 DEF PipeInv, LastMailInv, InOrder, CheckAt, RowAt
<1>8. ReaderAhead'
  BY NotifyMoves DEF ReaderAhead
<1>9. Taken'
  <2> SUFFICES ASSUME NEW o \in 0..(Len(topic) - 1), Behind(o)',
                      CheckAt(o) \notin overtaken \cup disturbed'
               PROVE  \/ \E p \in refused' : topic[p + 1] = RowAt(o)
                      \/ RowAt(o) <= lastMail'[CheckAt(o)]
    BY <1>1 DEF Taken, CheckAt, RowAt, Refused
  <2>1. disturbed' # Checks
    BY <1>6
  <2>2. Refused(RowAt(o)) => \E p \in refused' : topic[p + 1] = RowAt(o)
    BY <1>3 DEF Refused
  <2>3. Behind(o) => Refused(RowAt(o)) \/ RowAt(o) <= lastMail[CheckAt(o)]
    BY <1>2 DEF PipeInv, LastMailInv, Taken
  <2>4. Behind(o) \/ (o = ncur[m] /\ (o \in refused' \/ sent' # sent))
    BY <2>1, NotifyMoves
  <2>5. o \in refused' => \E p \in refused' : topic[p + 1] = RowAt(o)
    BY DEF RowAt
  <2>6. CASE sent' = sent
    BY <1>2, <2>2, <2>3, <2>4, <2>5, <2>6
  <2>7. CASE sent' # sent /\ CheckAt(o) # c
    <3>1. lastMail'[CheckAt(o)] = lastMail[CheckAt(o)]
      BY <1>2, <1>4, <1>6, <2>7
    <3> QED BY <2>2, <2>3, <2>4, <2>7, <3>1 DEF c
  <2>8. CASE sent' # sent /\ CheckAt(o) = c
    <3>1. o <= ncur[m]
      BY <2>1, <2>8, NotifyMoves DEF c
    <3>2. nmpc[m] = "handle" /\ ncur[m] \in 0..(Len(topic) - 1)
      BY <2>8, MailInHand, MessageInHand
    <3>3. RowAt(o) <= k
      BY <1>6, <2>8, <3>1, <3>2 DEF PipeInv, LastMailInv, InOrder, c, k
    <3> QED BY <1>2, <1>4, <2>8, <3>3
  <2> QED BY <2>6, <2>7, <2>8
<1> QED BY <1>2, <1>5, <1>7, <1>8, <1>9 DEF LastMailInv

\* What is not about the topic and its readers leaves the last mails alone.
LEMMA LastMailFrame ==
  ASSUME PipeInv, WorkerInv', events' = events \/ \E e : events' = Append(events, e),
         UNCHANGED <<topic, ncommitted, nowner, nmpc, npos, ncur, refused, nstep, historyVars>>
  PROVE  LastMailInv'
<1> USE DEF historyVars
<1>1. /\ \A o \in 0..(Len(topic) - 1) : CheckAt(o)' = CheckAt(o) /\ RowAt(o)' = RowAt(o)
      /\ Front' = Front /\ \A o : Behind(o)' = Behind(o) /\ Refused(o)' = Refused(o)
  <2>1. \A o \in 0..(Len(topic) - 1) : RowAt(o) \in 1..Len(events) /\ RowAt(o)' = RowAt(o)
    BY TopicTyped DEF PipeInv, RowAt
  <2> QED BY <2>1, EventsStay DEF PipeInv, CheckAt, RowAt, Front, Behind, Refused
<1>2. \A c \in Checks : MailOf(c)'
  BY EventsStay DEF PipeInv, LastMailInv, MailOf, EventsOf
<1>3. InOrder' /\ ReaderAhead' /\ Taken'
  BY <1>1 DEF PipeInv, LastMailInv, InOrder, ReaderAhead, Taken
<1> QED BY <1>2, <1>3 DEF PipeInv, LastMailInv

LEMMA LastMailPublished ==
  ASSUME PipeInv, NEW k \in Rows, Publish(k)
  PROVE  LastMailInv' /\ TopicInv' /\ RowInv'
<1>0. PICK n \in Nat : n = Len(topic)
  BY TopicTyped DEF PipeInv
<1>1. /\ topic' = Append(topic, k) /\ UNCHANGED <<events, row>> /\ delivered' = delivered \cup {k}
      /\ UNCHANGED <<ncommitted, nowner, nmpc, npos, ncur, refused, nstep, lastMail, disturbed>>
  BY DEF Publish, Relay!Deliver, pwVars, rowVars, N!Announce, N!Produce, N!notifierVars
<1>2. k \in 1..Len(events)
  BY EventTyped DEF Publish, Relay!Deliver, PipeInv, RowInv, Rows
<1>3. /\ topic \in Seq(1..Len(events)) /\ Len(topic') = n + 1
      /\ topic' \in Seq(1..Len(events))
      /\ topic'[n + 1] = k /\ \A i \in 1..n : topic'[i] = topic[i]
  BY <1>0, <1>1, <1>2 DEF PipeInv, TopicInv
<1>4. TopicInv' /\ RowInv'
  <2>1. {topic'[i] : i \in 1..(n + 1)} = {topic[i] : i \in 1..n} \cup {k}
    <3>1. \A i : i \in 1..(n + 1) <=> i \in 1..n \/ i = n + 1
      BY <1>0
    <3> QED BY <1>3, <3>1
  <2>2. delivered' = {topic'[i] : i \in 1..Len(topic')}
    BY <1>0, <1>1, <1>3, <2>1 DEF PipeInv, TopicInv
  <2>3. RowInv'
    BY <1>1 DEF PipeInv, RowInv
  <2> QED BY <1>1, <1>3, <2>2, <2>3 DEF TopicInv
<1>5. /\ Front' = Front /\ \A o : Behind(o)' = Behind(o)
      /\ CheckAt(n)' = events[k].check /\ RowAt(n)' = k
      /\ \A o \in 0..(n - 1) : CheckAt(o)' = CheckAt(o) /\ RowAt(o)' = RowAt(o)
      /\ \A j : Refused(j) => Refused(j)'
  <2>1. refused \subseteq 0..(n - 1)
    BY <1>0, NotifierState
  <2> QED BY <1>1, <1>3, <2>1 DEF CheckAt, RowAt, Front, Behind, Refused
<1>6. ~Behind(n)
  BY <1>0, NotifierState, FrontAt DEF Behind
<1>7. overtaken \subseteq overtaken' /\ overtaken' \subseteq Checks
  BY <1>2, EventTyped DEF PipeInv, LastMailInv, Publish
<1>8. InOrder'
  <2> SUFFICES ASSUME NEW i \in 0..n, NEW j \in 0..n,
                      i < j, CheckAt(i)' = CheckAt(j)'
               PROVE  RowAt(i)' <= RowAt(j)' \/ CheckAt(i)' \in overtaken'
    BY <1>3 DEF InOrder
  <2>1. CASE j \in 0..(n - 1)
    <3>1. i \in 0..(n - 1) /\ CheckAt(i) = CheckAt(j)
      BY <1>5, <2>1
    <3>2. RowAt(i) <= RowAt(j) \/ CheckAt(i) \in overtaken
      BY <1>0, <2>1, <3>1 DEF PipeInv, LastMailInv, InOrder
    <3> QED BY <1>5, <1>7, <2>1, <3>1, <3>2
  <2>2. CASE j = n
    <3>1. i \in 0..(n - 1) /\ i + 1 \in 1..n /\ RowAt(i) \in Nat
      BY <1>0, <2>2, TopicTyped DEF PipeInv
    <3>2. RowAt(i)' = topic[i + 1] /\ CheckAt(i)' = events[topic[i + 1]].check
      BY <1>5, <3>1 DEF RowAt, CheckAt
    <3>3. topic[i + 1] > k => events[k].check \in overtaken'
      BY <1>0, <1>5, <2>2, <3>1, <3>2 DEF Publish
    <3> QED BY <1>2, <1>5, <2>2, <3>1, <3>2, <3>3 DEF RowAt
  <2> QED BY <1>3, <2>1, <2>2
<1>9. ReaderAhead' /\ Taken'
  <2>1. ReaderAhead'
    BY <1>1 DEF PipeInv, LastMailInv, ReaderAhead
  <2>2. ASSUME NEW o \in 0..(Len(topic') - 1), Behind(o)'
        PROVE  \/ Refused(RowAt(o))' \/ RowAt(o)' <= lastMail'[CheckAt(o)']
               \/ CheckAt(o)' \in overtaken' \cup disturbed'
    <3>1. o \in 0..(n - 1)
      BY <1>3, <1>5, <1>6, <2>2
    <3> QED BY <1>1, <1>5, <1>7, <2>2, <1>0, <3>1 DEF PipeInv, LastMailInv, Taken
  <2> QED BY <2>1, <2>2 DEF Taken
<1>10. \A c \in Checks : MailOf(c)'
  BY <1>1 DEF PipeInv, LastMailInv, MailOf, EventsOf
<1> QED BY <1>1, <1>4, <1>7, <1>8, <1>9, <1>10 DEF PipeInv, LastMailInv

\* Rows and topic, when a row is added or some are closed.
LEMMA RowsStored ==
  ASSUME PipeInv, WorkerInv', Enqueued, events' = events \/ \E e : events' = Append(events, e),
         UNCHANGED topic
  PROVE  TopicInv' /\ RowInv'
<1>1. /\ Len(events) \in Nat /\ Len(events') \in {Len(events), Len(events) + 1}
      /\ events' = events <=> Len(events') = Len(events)
  BY EventsStay DEF PipeInv
<1>2. CASE events' = events
  BY <1>1, <1>2 DEF PipeInv, TopicInv, RowInv, Enqueued, relayVars
<1>3. CASE Len(events') = Len(events) + 1
  <2>1. /\ Len(events') \in Rows /\ row[Len(events')] = "absent" /\ delivered' = delivered
        /\ row' = [row EXCEPT ![Len(events')] = "open"]
    BY <1>1, <1>3 DEF Enqueued, Relay!Store
  <2>2. topic' \in Seq(1..Len(events'))
    BY <1>1, <1>3 DEF PipeInv, TopicInv
  <2>3. TopicInv'
    BY <2>1, <2>2 DEF PipeInv, TopicInv
  <2>4. Len(events') <= MaxLog + MaxFaults
    BY <2>1 DEF Rows
  <2>5. RowInv'
    BY <1>1, <1>3, <2>1, <2>4 DEF PipeInv, RowInv, Rows
  <2> QED BY <2>3, <2>5
<1> QED BY <1>1, <1>2, <1>3

LEMMA PipeInvStep ==
  ASSUME PipeInv, [PipeNext]_pipeVars
  PROVE  PipeInv'
<1> USE DEF historyVars, rowVars, stepVars
<1>0. WorkerInv /\ NP!NotifierInv /\ TopicInv /\ RowInv /\ LastMailInv
      /\ faults \in 0..MaxFaults /\ MaxFaults \in Nat
  BY ConsumerAssumption DEF PipeInv, WorkerInv, TypeOK, ConsumerTypeOK
<1>1. CASE Worker
  <2>1. /\ WorkerInv' /\ live' = live
        /\ events' = events \/ \E e : events' = Append(events, e)
    BY <1>0, <1>1, WorkerInvStep, WorkerRows DEF Worker, Next, WorkerInv
  <2>2. WorkerInv' /\ NP!NotifierInv'
    BY <1>0, <1>1, <2>1, WorkerInvStep, WorkerRows, WorkerCost, NotifierStays
    DEF Worker, Next, WorkerInv
  <2>3. TopicInv' /\ RowInv'
    BY <1>1, <2>1, <2>2, RowsStored DEF Worker, mailVars
  <2>4. LastMailInv'
    BY <1>1, <2>1, <2>2, LastMailFrame DEF Worker, mailVars
  <2> QED BY <2>2, <2>3, <2>4 DEF PipeInv
<1>2. ASSUME NEW k \in Rows, Publish(k) PROVE PipeInv'
  <2>1. WorkerInv'
    BY <1>0, <1>2, WorkerInvStep DEF Publish
  <2>2. events[k].check \in Checks
    BY <1>0, <1>2, EventTyped DEF Publish, Relay!Deliver, RowInv, Rows
  <2>3. PICK c \in Checks : c = events[k].check
    BY <2>2
  <2>4. N!Announce(c)
    BY <1>2, <2>3 DEF Publish, N!Announce, N!Produce
  <2>5. NP!NotifierInv'
    BY <2>4, NotifierNext
  <2> QED BY <1>2, <2>1, <2>5, LastMailPublished DEF PipeInv
<1>3. ASSUME NEW S \in SUBSET Rows, Closed(S) PROVE PipeInv'
  <2>1. WorkerInv' /\ UNCHANGED <<pwVars, mailVars, historyVars>>
    BY <1>0, <1>3, WorkerInvStep DEF Closed
  <2>2. UNCHANGED <<events, live, faults>>
    BY <2>1 DEF pwVars, consumerVars
  <2>3. NP!NotifierInv' /\ LastMailInv'
    BY <1>0, <2>1, <2>2, NotifierStays, LastMailFrame DEF mailVars
  <2>4. TopicInv' /\ RowInv'
    BY <1>0, <1>3, <2>1, <2>2 DEF Closed, Relay!Close, TopicInv, RowInv, mailVars
  <2> QED BY <2>1, <2>3, <2>4 DEF PipeInv
<1>4. ASSUME NEW m \in Notifiers, Notify(m) PROVE PipeInv'
  <2>1. NP!NotifierInv' /\ LastMailInv'
    BY <1>4, NotifierNext, LastMailNotified DEF Notify
  <2>2. faults' \in 0..MaxFaults
    BY <2>1 DEF NP!NotifierInv, NP!ConsumerInv, NP!ConsumerTypeOK
  <2>3. WorkerInv'
    BY <1>0, <1>4, <2>2, WorkerFault DEF Notify
  <2>4. TopicInv' /\ RowInv'
    BY <1>0, <1>4 DEF Notify, relayVars, TopicInv, RowInv
  <2> QED BY <2>1, <2>3, <2>4 DEF PipeInv
<1>5. ASSUME NEW c \in Checks, Delete(c) PROVE PipeInv'
  <2>1. WorkerInv' /\ UNCHANGED <<events, topic, row, delivered>>
    BY <1>0, <1>5, WorkerInvStep DEF Delete, DeleteCheck, Next, relayVars
  <2>2. NP!NotifierInv'
    BY <1>5, NotifierNext DEF Delete
  <2>3. LastMailInv'
    BY <1>5, <2>1, LastMailFrame DEF Delete, N!DeleteCheck, N!consumerVars, N!brokerVars
  <2> QED BY <1>0, <2>1, <2>2, <2>3 DEF PipeInv, TopicInv, RowInv
<1>6. CASE UNCHANGED pipeVars
  <2>1. WorkerInv' /\ UNCHANGED <<pwVars, mailVars, historyVars, relayVars>>
    BY <1>0, <1>6, WorkerInvStep DEF pipeVars
  <2>2. UNCHANGED <<events, live, faults>>
    BY <2>1 DEF pwVars, consumerVars
  <2>3. NP!NotifierInv' /\ LastMailInv'
    BY <1>0, <2>1, <2>2, NotifierStays, LastMailFrame DEF mailVars
  <2> QED BY <1>0, <2>1, <2>2, <2>3 DEF PipeInv, TopicInv, RowInv, mailVars, relayVars
<1> QED BY <1>1, <1>2, <1>3, <1>4, <1>5, <1>6 DEF PipeNext

\* The invariant of the whole pipeline.
THEOREM PipelineInvariant == PipeSpec => []PipeInv
<1>1. ASSUME PipeInit PROVE PipeInv
  <2> USE <1>1 DEF PipeInit
  <2>1. WorkerInv
    BY WorkerStart
  <2>2. NP!NotifierInv
    BY NotifierSteps, NP!NotifierStart, NotifierAssumptions
  <2>3. events = <<>> /\ Len(events) = 0 /\ Len(topic) = 0
    BY DEF Init, WorkerInit
  <2>4. TopicInv /\ RowInv
    BY <2>3, ConsumerAssumption DEF Relay!Init, TopicInv, RowInv, Rows
  <2>5. LastMailInv
    BY <2>3
    DEF LastMailInv, MailOf, InOrder, ReaderAhead, Taken, N!Init, N!ConsumerInit
  <2> QED BY <2>1, <2>2, <2>4, <2>5 DEF PipeInv
<1>2. PipeInv /\ [PipeNext]_pipeVars => PipeInv'
  BY PipeInvStep
<1> QED BY <1>1, <1>2, PTL DEF PipeSpec

\* The types of the three parts hold together; an event has its row from its
\* commit on, and only rows that were published are in the topic.
THEOREM PipelineTypeCorrect == PipeSpec => []PipeTypeOK
<1>1. ASSUME PipeInv PROVE PipeTypeOK
  <2>1. N!TypeOK
    BY <1>1
    DEF PipeInv, NP!NotifierInv, NP!TypeOK, N!TypeOK, NP!ConsumerTypeOK, N!ConsumerTypeOK,
        NP!MaxCopies, N!MaxCopies, NP!Offsets, N!Offsets, NP!Event, N!Event
  <2>2. lastMail \in [Checks -> 0..Len(events)]
    BY <1>1, EventTyped DEF PipeInv, LastMailInv, MailOf, EventsOf
  <2> QED BY <1>1, <2>1, <2>2 DEF PipeInv, WorkerInv, TopicInv, RowInv, LastMailInv, PipeTypeOK
<1> QED BY <1>1, PipelineInvariant, PTL

\* When everything is quiet the last mail tells the status the check has,
\* however often workers, relay and notifiers failed or repeated a step: but
\* for the three ways out of order that the property names.
THEOREM LastMailIsRight == PipeSpec => []QuietMailIsRight
<1>1. ASSUME PipeInv PROVE QuietMailIsRight
  <2> SUFFICES ASSUME Quiet, NEW c \in live
               PROVE  \/ EventsOf(c) = {} /\ lastMail[c] = 0
                      \/ EventsOf(c) # {} /\ lastMail[c] = Newest(c)
                         /\ events[lastMail[c]].new = lastStatus[c]
                      \/ EventsOf(c) # {} /\ (c \in overtaken \cup disturbed \/ Refused(Newest(c)))
    BY DEF QuietMailIsRight
  <2>1. c \in Checks /\ lastMail[c] \in EventsOf(c) \cup {0}
    BY <1>1 DEF PipeInv, WorkerInv, TypeOK, LastMailInv, MailOf
  <2>2. ASSUME EventsOf(c) # {}, c \notin overtaken \cup disturbed, ~Refused(Newest(c))
        PROVE  lastMail[c] = Newest(c) /\ events[lastMail[c]].new = lastStatus[c]
    <3>1. PICK i \in EventsOf(c) : /\ \A j \in EventsOf(c) : j <= i
                                   /\ lastStatus[c] = events[i].new
      BY <1>1, <2>2 DEF PipeInv, WorkerInv, RowsInv, StatusIsLastAnnounced
    <3>2. \A j \in EventsOf(c) : j \in 1..Len(events) /\ j \in Nat
      BY <1>1, EventTyped DEF PipeInv, EventsOf
    <3>3. Newest(c) = i
      BY <3>1, <3>2 DEF Newest
    <3>4. i \in Rows /\ i \in delivered
      <4>1. i \in 1..Len(events) /\ Len(events) \in Nat /\ Len(events) <= MaxLog + MaxFaults
        BY <1>1, <3>2, EventTyped DEF PipeInv, RowInv
      <4>2. i \in Rows
        BY <4>1, ConsumerAssumption DEF Rows
      <4> QED BY <1>1, <4>1, <4>2 DEF PipeInv, RowInv, Quiet
    <3>5. PICK o \in 0..(Len(topic) - 1) : RowAt(o) = i
      <4>1. PICK p \in 1..Len(topic) : topic[p] = i
        BY <1>1, <3>4 DEF PipeInv, TopicInv
      <4>2. p - 1 \in 0..(Len(topic) - 1) /\ (p - 1) + 1 = p
        BY <1>1, TopicTyped DEF PipeInv
      <4> QED BY <4>1, <4>2 DEF RowAt
    <3>6. CheckAt(o) = c /\ Behind(o)
      BY <1>1, <3>5, TopicTyped DEF PipeInv, EventsOf, CheckAt, RowAt, Behind, Quiet
    <3>7. i <= lastMail[c]
      BY <1>1, <2>2, <3>3, <3>5, <3>6 DEF PipeInv, LastMailInv, Taken
    <3>8. lastMail[c] = i
      BY <2>1, <3>1, <3>2, <3>7
    <3> QED BY <3>1, <3>3, <3>8
  <2> QED BY <2>1, <2>2
<1> QED BY <1>1, PipelineInvariant, PTL

\* A change is told or reported once its row is closed and its messages are
\* committed: nothing is lost between the services, whatever fails, restarts
\* or changes hands on the way.
THEOREM NothingIsLost == PipeSpec => []NoChangeIsLost
<1>1. ASSUME PipeInv PROVE NoChangeIsLost
  <2> SUFFICES ASSUME NEW k \in 1..Len(events), row[k] = "closed",
                      \A o \in 0..(Len(topic) - 1) : topic[o + 1] = k => o < ncommitted
               PROVE  IsTold(k)
    BY DEF NoChangeIsLost
  <2>1. k \in Rows /\ k \in delivered
    <3>1. Len(events) \in Nat /\ Len(events) <= MaxLog + MaxFaults
      BY <1>1, EventTyped DEF PipeInv, RowInv
    <3>2. k \in Rows
      BY <3>1, ConsumerAssumption DEF Rows
    <3> QED BY <1>1, <3>2 DEF PipeInv, RowInv
  <2>2. PICK o \in 0..(Len(topic) - 1) : topic[o + 1] = k
    <3>1. PICK p \in 1..Len(topic) : topic[p] = k
      BY <1>1, <2>1 DEF PipeInv, TopicInv
    <3>2. p - 1 \in 0..(Len(topic) - 1) /\ (p - 1) + 1 = p
      BY <1>1, TopicTyped DEF PipeInv
    <3> QED BY <3>1, <3>2
  <2>3. Len(topic) \in Nat /\ ncommitted \in Nat /\ o < ncommitted
    BY <1>1, <2>2, NotifierState
  <2>4. o \in NP!Finished
    BY <1>1, <2>2, <2>3
    DEF PipeInv, NP!NotifierInv, NP!ConsumerInv, NP!NoSilentSkip, NP!Finished
  <2>5. o + 1 \in 1..Len(topic) /\ events[topic[o + 1]].check \in Checks
    BY <1>1, <2>2, <2>3, EventTyped DEF PipeInv
  <2>6. [i \in 1..Len(topic) |-> events[topic[i]].check][o + 1] \in Checks
    BY <2>5
  <2>7. sent[o] > 0 \/ o \in refused
    BY <1>1, <2>4, <2>6 DEF PipeInv, NP!NotifierInv, NP!Told
  <2> QED BY <2>2, <2>7 DEF IsTold, Refused
<1> QED BY <1>1, PipelineInvariant, PTL
=============================================================================
