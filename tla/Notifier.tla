----------------------------- MODULE Notifier -----------------------------
(***************************************************************************)
(* The email notifier: the consumer loop of module Consumer with the       *)
(* handler of internal/services/email-notifier (controller.go, handler.go),*)
(* the mail server and the notifications table.                            *)
(*                                                                         *)
(* A status change is looked up, mailed and recorded, in this order and in *)
(* no transaction: the mail leaves before anything is stored, an error of  *)
(* the insert is only logged, and an error before it is returned to a loop *)
(* that does not try again.                                                *)
(***************************************************************************)
EXTENDS Consumer, FiniteSets

CONSTANTS Checks,   \* ids of checks
          NoChange, \* a status change with old = new, or an invalid check id
          Garbled   \* a message that is not a StatusChange

ASSUME NotifierAssumption ==
  /\ NoChange \notin Checks /\ Garbled \notin Checks
  /\ Payloads = Checks \cup {NoChange, Garbled}
  /\ IsFiniteSet(Members)

VARIABLES
  live,    \* checks that have a row
  stored,  \* stored[o]: notification rows written for the event at offset o
  sent,    \* history: sent[o]: mails the server took for it
  refused, \* history: offsets at which an attempt to mail did not succeed
  step     \* step[m]: how far the handler is: "start", "send" or "store"

notifierVars == <<live, stored, sent, refused, step>>
vars == <<consumerVars, notifierVars>>

\* Bound on the copies that are counted: one more than there may be.
MaxCopies == MaxFaults + 2

Init ==
  /\ ConsumerInit
  /\ live = Checks
  /\ stored = [o \in 0..(MaxLog - 1) |-> 0]
  /\ sent = [o \in 0..(MaxLog - 1) |-> 0]
  /\ refused = {}
  /\ step = [m \in Members |-> "start"]

Event(m) == log[cur[m] + 1]

Handling(m, s) == mpc[m] = "handle" /\ step[m] = s

Goes(m, s) == step' = [step EXCEPT ![m] = s]

-----------------------------------------------------------------------------
\* proto.Unmarshal fails, and so does the handler.
Undecodable(m) ==
  /\ Handling(m, "start")
  /\ Event(m) = Garbled
  /\ HandlerErr(m)
  /\ UNCHANGED notifierVars

\* Mutant: an event without a change is mailed like any other.
IgnoreNothing(m) ==
  /\ Handling(m, "start")
  /\ Event(m) = NoChange
  /\ Goes(m, "send")
  /\ UNCHANGED <<consumerVars, live, stored, sent, refused>>

\* check_id <= 0 or old = new: nothing to tell, and the message is done.
Ignore(m) ==
  /\ Handling(m, "start")
  /\ Event(m) = NoChange
  /\ HandlerOk(m)
  /\ UNCHANGED notifierVars

\* The check and its owner, who has an address, are read.
LookUp(m) ==
  /\ Handling(m, "start")
  /\ Event(m) \in live
  /\ Goes(m, "send")
  /\ UNCHANGED <<consumerVars, live, stored, sent, refused>>

\* The check is gone, or a query failed: the handler fails.
LookUpFails(m) ==
  /\ Handling(m, "start")
  /\ Event(m) \in Checks
  /\ IF Event(m) \in live THEN HandlerFault(m) ELSE HandlerErr(m)
  /\ refused' = refused \cup {cur[m]}
  /\ UNCHANGED <<live, stored, sent, step>>

Mailed(m) ==
  sent' = [sent EXCEPT ![cur[m]] = IF @ < MaxCopies THEN @ + 1 ELSE @]

SendOk(m) ==
  /\ Handling(m, "send")
  /\ Mailed(m)
  /\ Goes(m, "store")
  /\ UNCHANGED <<consumerVars, live, stored, refused>>

\* Mutant: a mail that could not be sent is recorded nevertheless.
SendFailsStores(m) ==
  /\ Handling(m, "send")
  /\ faults < MaxFaults
  /\ faults' = faults + 1
  /\ Goes(m, "store")
  /\ UNCHANGED <<brokerVars, mpc, pos, cur, handled, failed, live, stored, sent, refused>>

\* The server could not be reached, refused the mail, or took it without the
\* handler learning so; the handler fails.
SendFails(m) ==
  /\ Handling(m, "send")
  /\ HandlerFault(m)
  /\ Mailed(m) \/ UNCHANGED sent
  /\ refused' = refused \cup {cur[m]}
  /\ Goes(m, "start")
  /\ UNCHANGED <<live, stored>>

StoreOk(m) ==
  /\ Handling(m, "store")
  /\ Event(m) \in live
  /\ stored' = [stored EXCEPT ![cur[m]] = IF @ < MaxCopies THEN @ + 1 ELSE @]
  /\ HandlerOk(m)
  /\ Goes(m, "start")
  /\ UNCHANGED <<live, sent, refused>>

\* Mutant: after an insert that failed the mail is sent once more.
StoreFailsResends(m) ==
  /\ Handling(m, "store")
  /\ Event(m) \notin live
  /\ Goes(m, "send")
  /\ UNCHANGED <<consumerVars, live, stored, sent, refused>>

\* The insert fails: the check is gone and with it the key the row refers
\* to, or the database or the ten seconds of the handler's context are at
\* fault.  The error is logged and the message is done.
StoreFails(m) ==
  /\ Handling(m, "store")
  /\ IF Event(m) \in live THEN HandlerHidesFault(m) ELSE HandlerOk(m)
  /\ Goes(m, "start")
  /\ UNCHANGED <<live, stored, sent, refused>>

-----------------------------------------------------------------------------
\* The relay publishes an event.
Announce(p) == Produce(p) /\ UNCHANGED notifierVars

\* The owner deletes the check; its notifications go with it.
DeleteCheck(c) ==
  /\ c \in live
  /\ live' = live \ {c}
  /\ stored' = [o \in 0..(MaxLog - 1) |->
                  IF o \in Offsets /\ log[o + 1] = c THEN 0 ELSE stored[o]]
  /\ UNCHANGED <<consumerVars, sent, refused, step>>

Loop(m) ==
  /\ Fetch(m) \/ Commit(m) \/ CommitFail(m) \/ Rebalance(m)
  /\ UNCHANGED notifierVars

Crash(m) ==
  /\ Restart(m)
  /\ Goes(m, "start")
  /\ UNCHANGED <<live, stored, sent, refused>>

\* What a notifier does when nothing fails.
Progress(m) ==
  \/ (Fetch(m) \/ Commit(m)) /\ UNCHANGED notifierVars
  \/ Undecodable(m)
  \/ Ignore(m)
  \/ LookUp(m)
  \/ LookUpFails(m) /\ Event(m) \notin live
  \/ SendOk(m)
  \/ StoreOk(m)
  \/ StoreFails(m) /\ Event(m) \notin live

\* Any step of a notifier.
NotifierStep(m) ==
  \/ Loop(m)
  \/ Crash(m)
  \/ Undecodable(m)
  \/ Ignore(m)
  \/ LookUp(m)
  \/ LookUpFails(m)
  \/ SendOk(m)
  \/ SendFails(m)
  \/ StoreOk(m)
  \/ StoreFails(m)

Next ==
  \/ \E p \in Payloads : Announce(p)
  \/ \E c \in Checks : DeleteCheck(c)
  \/ \E m \in Members : NotifierStep(m)

Spec == Init /\ [][Next]_vars

\* Each notifier's loop runs on, and the handler's calls return.
FairSpec == Spec /\ \A m \in Members : WF_vars(Progress(m))

-----------------------------------------------------------------------------
\* Types; what is looked up, mailed and stored is a change of a check, handled
\* in the consumer's handler.
TypeOK ==
  /\ ConsumerTypeOK
  /\ live \subseteq Checks
  /\ stored \in [0..(MaxLog - 1) -> 0..MaxCopies]
  /\ sent \in [0..(MaxLog - 1) -> 0..MaxCopies]
  /\ refused \subseteq Offsets
  /\ step \in [Members -> {"start", "send", "store"}]
  /\ \A m \in Members : step[m] # "start" => mpc[m] = "handle" /\ Event(m) \in Checks

\* The table never claims a mail that was not sent: however often an event is
\* handled again, it has no more rows than mails.
StoredWasSent == \A o \in Offsets : stored[o] <= sent[o]

\* A status change below the committed offset was mailed, or the handler
\* reported that it could not be: none is lost in silence.
CommittedWasMailed ==
  \A o \in 0..(committed - 1) : log[o + 1] \in Checks => sent[o] > 0 \/ o \in refused

\* A second mail for one event costs a fault, and a third one another: the
\* notifier itself never repeats one.
OneMailPerFault == \A o \in Offsets : sent[o] <= 1 + faults
=============================================================================
