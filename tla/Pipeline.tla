------------------------------ MODULE Pipeline ------------------------------
(***************************************************************************)
(* From a ping to the owner's mail: the ping worker (module PingWorker),   *)
(* the outbox relay and the notifier (module Notifier), joined as the      *)
(* mains of ping-worker and email-notifier wire them, through the outbox   *)
(* table and the status-change topic.                                      *)
(*                                                                         *)
(* The relay is what OutboxContract promises: module Outbox implements it. *)
(* It promises no order: rows of one check may be picked by several        *)
(* workers, RETURNING does not sort, and a row whose publication failed    *)
(* waits for its TTL while later ones go out.  The topic is keyed by the   *)
(* check, so what order there is, is the order of the publications.        *)
(***************************************************************************)
EXTENDS PingWorker

CONSTANTS Notifiers, \* processes of the email notifier
          MaxTopic,  \* bound on the status-change messages
          NoChange, Garbled

\* Rows of the outbox in the order of their commits: row k stores events[k].
\* (The bound cuts nothing off in the runs.)
Rows == 1..(MaxLog + MaxFaults)

ASSUME PipelineAssumption ==
  /\ MaxTopic \in Nat /\ MaxTopic >= MaxLog + MaxFaults
  /\ NoChange \notin Checks /\ Garbled \notin Checks
  /\ IsFiniteSet(Notifiers)

VARIABLES
  row,        \* row[k]: the outbox row as the contract sees it
  delivered,  \* rows published at least once
  topic,      \* the status-change partition: the rows its messages come from
  ncommitted, nowner, nmpc, npos, ncur, nhandled, nfailed, \* the notifiers' group
  stored, sent, refused, nstep,                            \* and their handler
  lastMail,   \* history: lastMail[c]: the row the last mail on c was about
  overtaken,  \* history: checks with a message behind one of a later event
  disturbed   \* history: checks that a former owner mailed or committed on

relayVars == <<row, delivered>>
mailVars == <<topic, ncommitted, nowner, nmpc, npos, ncur, nhandled, nfailed,
              stored, sent, refused, nstep>>
historyVars == <<lastMail, overtaken, disturbed>>
pipeVars == <<pwVars, relayVars, mailVars, historyVars>>

Relay == INSTANCE OutboxContract WITH Keys <- Rows, Deliverable <- Rows, stage <- row

\* A message tells the notifier which check changed.
N == INSTANCE Notifier WITH
  Members <- Notifiers, MaxLog <- MaxTopic,
  Payloads <- Checks \cup {NoChange, Garbled},
  log <- [i \in 1..Len(topic) |-> events[topic[i]].check],
  committed <- ncommitted, owner <- nowner, mpc <- nmpc, pos <- npos,
  cur <- ncur, handled <- nhandled, failed <- nfailed, step <- nstep

PipeInit ==
  /\ Init
  /\ topic = <<>>
  /\ N!Init
  /\ Relay!Init
  /\ lastMail = [c \in Checks |-> 0]
  /\ overtaken = {}
  /\ disturbed = {}

-----------------------------------------------------------------------------
\* Mutant: the row is inserted outside the transaction that commits.
EnqueuedElsewhere == UNCHANGED relayVars

\* A transaction that appends an event stores its row with the same commit.
Enqueued ==
  IF Len(events') > Len(events)
    THEN Len(events') \in Rows /\ Relay!Store(Len(events'))
    ELSE UNCHANGED relayVars

\* A step of the ping worker or of the scheduler that feeds it.
Worker ==
  /\ WorkerNext
  /\ Enqueued
  /\ UNCHANGED <<mailVars, historyVars>>

\* There is room in the topic for k, and for the rows that were not published
\* yet (the bound cuts off repetitions only).
Room(k) == k \in delivered => Len(topic) + Cardinality(Rows \ delivered) < MaxTopic

\* The relay's handler publishes row k, for the first time or again.
Publish(k) ==
  /\ Room(k)
  /\ Relay!Deliver(k)
  /\ topic' = Append(topic, k)
  /\ UNCHANGED pwVars
  /\ N!Announce(events[k].check)
  /\ overtaken' = IF \E i \in 1..Len(topic) :
                       topic[i] > k /\ events[topic[i]].check = events[k].check
                    THEN overtaken \cup {events[k].check} ELSE overtaken
  /\ UNCHANGED <<lastMail, disturbed>>

\* MarkSuccess for the rows of a batch.
Closed(S) ==
  /\ S # {}
  /\ Relay!Close(S)
  /\ UNCHANGED <<pwVars, mailVars, historyVars>>

\* The first message that the owner of the partition has not mailed yet, nor
\* passed over.
Front ==
  IF nmpc[nowner] = "handle" /\ nstep[nowner] # "store" /\ npos[nowner] = ncur[nowner] + 1
    THEN ncur[nowner] ELSE npos[nowner]

\* A step of a notifier; a mail tells its owner the statuses of the message.
\* One that lost the partition to a rebalance still mails and commits what it
\* has in hand: its mail is out of turn, and its commit may pass messages that
\* the owner reads again.
Notify(m) ==
  LET k == topic[ncur[m] + 1]
  IN /\ UNCHANGED <<log, committed, owner, mpc, pos, cur, handled, failed, rowVars,
                    stepVars, relayVars, topic, overtaken>>
     /\ N!NotifierStep(m)
     /\ lastMail' = IF sent' = sent THEN lastMail
                    ELSE [lastMail EXCEPT ![events[k].check] = k]
     /\ disturbed' =
          IF sent' # sent /\ ~(nowner = m /\ ncur[m] = Front)
            THEN disturbed \cup {events[k].check}
          ELSE IF ncommitted' > ncommitted /\ ncommitted' > Front
            THEN Checks ELSE disturbed

\* The owner deletes the check: its runs and notifications go with it, its
\* outbox rows and messages stay.
Delete(c) ==
  /\ DeleteCheck(c)
  /\ UNCHANGED topic
  /\ N!DeleteCheck(c)
  /\ UNCHANGED <<relayVars, historyVars>>

PipeNext ==
  \/ Worker
  \/ \E k \in Rows : Publish(k)
  \/ \E S \in SUBSET Rows : Closed(S)
  \/ \E m \in Notifiers : Notify(m)
  \/ \E c \in Checks : Delete(c)

PipeSpec == PipeInit /\ [][PipeNext]_pipeVars

\* Every stored row is published and closed (Outbox!EveryRowCloses), and the
\* loops of the notifiers run on.
PipeFairness ==
  /\ \A k \in Rows : WF_pipeVars(k \notin delivered /\ Publish(k))
  /\ \A m \in Notifiers : WF_pipeVars(Notify(m) /\ N!Progress(m))

FairPipeSpec == PipeSpec /\ PipeFairness

-----------------------------------------------------------------------------
\* Types of all three parts; an event has its row from its commit on, and only
\* committed events are in the topic.
PipeTypeOK ==
  /\ TypeOK
  /\ topic \in Seq(1..Len(events))
  /\ N!TypeOK
  /\ \A k \in Rows : row[k] # "absent" <=> k <= Len(events)
  /\ delivered = {topic[i] : i \in 1..Len(topic)}
  /\ lastMail \in [Checks -> 0..Len(events)]
  /\ overtaken \subseteq Checks /\ disturbed \subseteq Checks

Newest(c) == CHOOSE k \in EventsOf(c) : \A j \in EventsOf(c) : j <= k

\* Every row is closed, and the group has committed every message.
Quiet ==
  /\ \A k \in 1..Len(events) : row[k] = "closed"
  /\ ncommitted = Len(topic)

Refused(k) == \E o \in refused : topic[o + 1] = k

\* When everything is quiet the last mail the owner of a check has tells the
\* status the check has, whatever was redelivered, crashed or published twice:
\* unless an event went out after a later one of the same check, the mail of
\* the newest one was refused, or a notifier mailed or committed a message
\* that the group had given to another, or to itself once more.
QuietMailIsRight ==
  Quiet => \A c \in live :
    \/ EventsOf(c) = {} /\ lastMail[c] = 0
    \/ EventsOf(c) # {} /\ lastMail[c] = Newest(c)
       /\ events[lastMail[c]].new = lastStatus[c]
    \/ EventsOf(c) # {} /\ (c \in overtaken \cup disturbed \/ Refused(Newest(c)))

\* The owner was mailed the change of row k, or the notifier reported that it
\* could not be.
IsTold(k) ==
  \/ \E o \in 0..(Len(topic) - 1) : topic[o + 1] = k /\ sent[o] > 0
  \/ Refused(k)

\* No status change is lost between the services in silence: one that is
\* nobody's work any more, its row closed and its messages committed, was told
\* to the owner or reported, whatever failed or restarted on the way.
NoChangeIsLost ==
  \A k \in 1..Len(events) :
    /\ row[k] = "closed"
    /\ \A o \in 0..(Len(topic) - 1) : topic[o + 1] = k => o < ncommitted
    => IsTold(k)

\* Every status change that the worker committed is mailed to the owner in the
\* end, or the notifier reports that it could not be.  (Changes are finitely
\* many here and none is untold again, so from some time on all are told.)
EveryChangeTold == <>[](\A k \in 1..Len(events) : IsTold(k))
=============================================================================
