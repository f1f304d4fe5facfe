-------------------------- MODULE OutboxContract --------------------------
(***************************************************************************)
(* What the transactional outbox promises to the code that calls Enqueue:  *)
(* a stored row is published at least once before it is closed, and a      *)
(* closed row stays closed.  A publication may be repeated, also after the *)
(* row was closed: the promise is at-least-once, not exactly-once.         *)
(***************************************************************************)
EXTENDS Naturals

CONSTANTS Keys,        \* idempotency keys of the outbox table
          Deliverable  \* those of them whose kind has a handler

VARIABLES stage,       \* stage[k]: "absent", "open" or "closed"
          delivered    \* the rows that have been published at least once

contractVars == <<stage, delivered>>

Init ==
  /\ stage = [k \in Keys |-> "absent"]
  /\ delivered = {}

Store(k) ==
  /\ stage[k] = "absent"
  /\ stage' = [stage EXCEPT ![k] = "open"]
  /\ UNCHANGED delivered

Deliver(k) ==
  /\ k \in Deliverable
  /\ stage[k] # "absent"
  /\ delivered' = delivered \cup {k}
  /\ UNCHANGED stage

\* Several rows may be closed by one statement.
Close(S) ==
  /\ \A k \in S : stage[k] = "open" /\ k \in delivered
  /\ stage' = [k \in Keys |-> IF k \in S THEN "closed" ELSE stage[k]]
  /\ UNCHANGED delivered

Next ==
  \/ \E k \in Keys : Store(k) \/ Deliver(k)
  \/ \E S \in SUBSET Keys : Close(S)

SafetySpec == Init /\ [][Next]_contractVars
=============================================================================
