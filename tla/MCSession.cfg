\* One page and one gRPC client, with two calls under way each.
CONSTANTS
  Emails = {e1, e2}
  NoUser = none
  Pages = {p1}
  Clients = {g1}
  PageSlots = {s1, s2}
  ClientSlots = {t1, t2}
  MaxCalls = 2
  MaxTokens = 3
  MaxExpiries = 1
  MaxFaults = 1
SPECIFICATION Spec
SYMMETRY Symmetry
INVARIANTS
  TypeOK
  OneTokenPerSession
  LogoutEndsSession
  ShownUserIsOwner
PROPERTIES
  SessionEndsForCause
\* The bound on the tokens ends a run.
CHECK_DEADLOCK FALSE
