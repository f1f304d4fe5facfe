------------------------------ MODULE Session ------------------------------
(***************************************************************************)
(* Sessions: sign-up, sign-in, refresh and logout of the gateway           *)
(* (internal/services/api-gateway/auth), the refresh_tokens table, and the *)
(* two kinds of callers the gateway has: the pages of the frontend         *)
(* (shared/api/client.ts, shared/store/auth.ts), which come through the    *)
(* HTTP mux, and clients of the gRPC port, which the handlers serve too    *)
(* (the "cookie" and "x-refresh-token" of getRefreshFromCtx).              *)
(*                                                                         *)
(* A refresh looks its token up, revokes it and stores a new one, in three *)
(* statements.  Calls of one caller overlap, and their answers arrive in   *)
(* any order.                                                              *)
(*                                                                         *)
(* issueTokens makes an access and a refresh token together; both have the *)
(* number of the refresh token's row.  The number 0 stands for no token.   *)
(* Attempts the server refuses before it changes anything (a wrong         *)
(* password, a taken email) change nothing at the caller either and are    *)
(* left out, and so are the other requests of a gRPC client: a refused     *)
(* one starts nothing.                                                     *)
(***************************************************************************)
EXTENDS Naturals, FiniteSets

CONSTANTS Emails,     \* emails, normalised
          NoUser,     \* no user is shown
          Pages,      \* pages of the frontend, one per browser
          Clients,    \* clients of the gRPC port
          PageSlots,  \* calls a page has under way at once
          ClientSlots, \* calls a gRPC client has under way at once
          MaxCalls,   \* bound on the calls all of them have under way at once
          MaxTokens,  \* bound on the rows of refresh_tokens
          MaxExpiries, \* bound on the tokens that expire
          MaxFaults   \* bound on failed statements and lost answers

ASSUME SessionAssumption ==
  /\ NoUser \notin Emails
  /\ Pages \cap Clients = {}
  /\ MaxCalls \in Nat /\ MaxTokens \in Nat /\ MaxExpiries \in Nat /\ MaxFaults \in Nat

Ids == 0..MaxTokens
Callers == Pages \cup Clients
Requests == (Pages \X PageSlots) \cup (Clients \X ClientSlots)

VARIABLES
  users,     \* emails that have a row
  issued,    \* rows of refresh_tokens: 1..issued
  owner,     \* owner[n]: user_id of row n
  revoked,   \* rows with revoked = TRUE
  lapsed,    \* rows whose expires_at has passed
  stale,     \* access tokens that have expired
  jar,       \* jar[c]: the refresh tokens c has been given
  store,     \* store[b]: the access token in page b's store
  shown,     \* shown[b]: the user in page b's store
  call,      \* call[r]: what r has under way
  faults,
  session,   \* history: session[n]: the row of the sign-in that row n goes back to
  doubled,   \* history: sessions in which two refreshes found one token valid
  ended      \* history: sessions whose valid token was logged out, with no
             \* refresh between its query and its update

tokenVars == <<issued, owner, revoked, lapsed, stale, session>>
callerVars == <<jar, store, shown>>
histVars == <<doubled, ended>>
vars == <<users, issued, owner, revoked, lapsed, stale, jar, store, shown,
          call, faults, session, doubled, ended>>

NoCall == [op |-> "none", at |-> "idle", token |-> 0, user |-> NoUser, got |-> 0, bearer |-> 0]

Init ==
  /\ users = {}
  /\ issued = 0
  /\ owner = [n \in Ids |-> NoUser]
  /\ revoked = {} /\ lapsed = {} /\ stale = {}
  /\ jar = [c \in Callers |-> {}]
  /\ store = [b \in Pages |-> 0]
  /\ shown = [b \in Pages |-> NoUser]
  /\ call = [r \in Requests |-> NoCall]
  /\ faults = 0
  /\ session = [n \in Ids |-> 0]
  /\ doubled = {} /\ ended = {}

-----------------------------------------------------------------------------
Is(r, op, at) == call[r].op = op /\ call[r].at = at

\* A call begins, with the refresh token and the access token it carries,
\* goes on, and ends.
Begins(r, op, at, token, user, bearer) ==
  /\ Cardinality({s \in Requests \ {r} : call[s] # NoCall}) < MaxCalls
  /\ call' = [call EXCEPT ![r] = [op |-> op, at |-> at, token |-> token, user |-> user,
                                  got |-> 0, bearer |-> bearer]]

GoesTo(r, at) == call' = [call EXCEPT ![r].at = at]

\* The auth service answers, with token n, or, for 0, without one; the token
\* that was presented is done with.
Answers(r, n) == call' = [call EXCEPT ![r].at = "answer", ![r].token = 0, ![r].got = n]
Ends(r) == call' = [call EXCEPT ![r] = NoCall]

Fault == faults < MaxFaults /\ faults' = faults + 1

-----------------------------------------------------------------------------
\* Mutant: the mux is given a matcher that lets the name through.
SetCookieNameMatched(c) == "Set-Cookie"

\* The name under which the Set-Cookie a handler gives to grpc.SetHeader
\* reaches a caller: the mux is made without an outgoing header matcher, and
\* its default puts a prefix before the names of the metadata.
SetCookieName(c) == IF c \in Pages THEN "Grpc-Metadata-Set-Cookie" ELSE "Set-Cookie"

\* The refresh tokens c has from an answer with token n: a browser takes a
\* cookie from a Set-Cookie header only.
Delivered(c, n) == IF SetCookieName(c) = "Set-Cookie" THEN {n} ELSE {}

\* getRefreshFromCtx: what arrives with a request of c.  A gRPC client may
\* present any token it was ever given.
Presents(c) == IF jar[c] = {} THEN {0} ELSE jar[c]

\* fetchJson: a request with the access token of the store, if there is one.
\* The answer is read later; what the request is about is not modelled here.
Send(r) ==
  /\ call[r] = NoCall
  /\ r[1] \in Pages
  /\ Begins(r, "api", "sent", 0, NoUser, store[r[1]])
  /\ UNCHANGED <<users, tokenVars, callerVars, faults, histVars>>

\* ParseAndValidate: a signature of ours, not expired.  The row is not read.
Accepted(n) == n # 0 /\ n \notin stale

Answered(r) ==
  /\ Is(r, "api", "sent")
  /\ Accepted(call[r].bearer)
  /\ Ends(r)
  /\ UNCHANGED <<users, tokenVars, callerVars, faults, histVars>>

\* 401: refreshAccessTokenOnce, with what the browser presents at this moment.
Unauthorized(r) ==
  /\ Is(r, "api", "sent")
  /\ ~Accepted(call[r].bearer)
  /\ \E n \in Presents(r[1]) : Begins(r, "refresh", "find", n, NoUser, call[r].bearer)
  /\ UNCHANGED <<users, tokenVars, callerVars, faults, histVars>>

\* A gRPC client refreshes whenever it likes.
CallRefresh(r) ==
  /\ call[r] = NoCall
  /\ r[1] \in Clients
  /\ \E n \in Presents(r[1]) : Begins(r, "refresh", "find", n, NoUser, 0)
  /\ UNCHANGED <<users, tokenVars, callerVars, faults, histVars>>

-----------------------------------------------------------------------------
\* FindValid: there is such a row, not revoked and not expired.
Valid(n) == n # 0 /\ n \notin revoked /\ n \notin lapsed

\* Another refresh has found the token of r valid and has not revoked it yet.
Contended(r) ==
  \E s \in Requests \ {r} : Is(s, "refresh", "revoke") /\ call[s].token = call[r].token

\* Mutant: neither the query nor the usecase looks at the flag.
FindRevoked(r) ==
  /\ Is(r, "refresh", "find")
  /\ call[r].token \notin lapsed \cup {0}
  /\ call' = [call EXCEPT ![r].at = "revoke", ![r].user = owner[call[r].token]]
  /\ doubled' = IF Contended(r) THEN doubled \cup {session[call[r].token]} ELSE doubled
  /\ UNCHANGED <<users, tokenVars, callerVars, faults, ended>>

\* The query finds a valid row.
Find(r) ==
  /\ Is(r, "refresh", "find")
  /\ Valid(call[r].token)
  /\ call' = [call EXCEPT ![r].at = "revoke", ![r].user = owner[call[r].token]]
  /\ doubled' = IF Contended(r) THEN doubled \cup {session[call[r].token]} ELSE doubled
  /\ UNCHANGED <<users, tokenVars, callerVars, faults, ended>>

\* Without a token, without a valid row, or when the query fails, the
\* refresh is refused.
FindNone(r) ==
  /\ Is(r, "refresh", "find")
  /\ IF Valid(call[r].token) THEN Fault ELSE UNCHANGED faults
  /\ Answers(r, 0)
  /\ UNCHANGED <<users, tokenVars, callerVars, histVars>>

\* Mutant: the statement finds no row.
RevokedNone(n) == revoked

\* UPDATE ... SET revoked = TRUE, also of a row that was revoked before.
Revoked(n) == IF n = 0 THEN revoked ELSE revoked \cup {n}

Revoke(r) ==
  /\ Is(r, "refresh", "revoke")
  /\ revoked' = Revoked(call[r].token)
  /\ GoesTo(r, "issue")
  /\ UNCHANGED <<users, callerVars, issued, owner, lapsed, stale, session, faults, histVars>>

\* The statement failed, or its answer was lost: the refresh is refused.
RevokeFails(r) ==
  /\ Is(r, "refresh", "revoke")
  /\ Fault
  /\ revoked' \in {revoked, Revoked(call[r].token)}
  /\ Answers(r, 0)
  /\ UNCHANGED <<users, callerVars, issued, owner, lapsed, stale, session, histVars>>

\* The new row of issueTokens.
NewRow(r) ==
  /\ issued < MaxTokens
  /\ issued' = issued + 1
  /\ owner' = [owner EXCEPT ![issued + 1] = call[r].user]
  /\ session' = [session EXCEPT ![issued + 1] =
                   IF call[r].op = "sign" THEN issued + 1 ELSE session[call[r].token]]

Issue(r) ==
  /\ call[r].at = "issue"
  /\ NewRow(r)
  /\ Answers(r, issued + 1)
  /\ UNCHANGED <<users, callerVars, revoked, lapsed, stale, faults, histVars>>

\* The insert failed, or its answer was lost.  For a sign-up the account
\* stays; for a refresh the old token is gone.
IssueFails(r) ==
  /\ call[r].at = "issue"
  /\ Fault
  /\ NewRow(r) \/ UNCHANGED <<issued, owner, session>>
  /\ Answers(r, 0)
  /\ UNCHANGED <<users, callerVars, revoked, lapsed, stale, histVars>>

-----------------------------------------------------------------------------
\* The caller's side of the answers: what a page puts in its store.
Stores(c, n, u) ==
  /\ store' = [b \in Pages |-> IF b = c THEN n ELSE store[b]]
  /\ shown' = [b \in Pages |-> IF b = c THEN u ELSE shown[b]]

\* signIn and signUp store the access token and the user.
Signed(r) ==
  /\ Is(r, "sign", "answer") /\ call[r].got # 0
  /\ jar' = [jar EXCEPT ![r[1]] = @ \cup Delivered(r[1], call[r].got)]
  /\ Stores(r[1], call[r].got, call[r].user)
  /\ Ends(r)
  /\ UNCHANGED <<users, tokenVars, faults, histVars>>

\* refreshAccessTokenOnce stores the access token, whoever is shown.  The
\* request is then made again; whatever its answer, the session stays.
Refreshed(r) ==
  /\ Is(r, "refresh", "answer") /\ call[r].got # 0
  /\ jar' = [jar EXCEPT ![r[1]] = @ \cup Delivered(r[1], call[r].got)]
  /\ store' = [b \in Pages |-> IF b = r[1] THEN call[r].got ELSE store[b]]
  /\ Ends(r)
  /\ UNCHANGED <<users, tokenVars, shown, faults, histVars>>

\* A refused refresh clears the store, and so does a logout; signing in fails
\* without.  (A gRPC client need not heed the cookie that is cleared.)
Refused(r) ==
  /\ call[r].at = "answer" /\ call[r].got = 0
  /\ IF call[r].op = "sign" THEN UNCHANGED <<store, shown>> ELSE Stores(r[1], 0, NoUser)
  /\ Ends(r)
  /\ UNCHANGED <<users, tokenVars, jar, faults, histVars>>

\* Mutant: a request without an answer clears the store, too.
AnswerLostClears(r) ==
  /\ call[r] # NoCall
  /\ Fault
  /\ Stores(r[1], 0, NoUser)
  /\ Ends(r)
  /\ UNCHANGED <<users, tokenVars, jar, histVars>>

\* The answer does not arrive, because it is lost or the gateway dies: the
\* store is cleared after a refresh or a logout.
AnswerLost(r) ==
  /\ call[r] # NoCall
  /\ Fault
  /\ IF call[r].op \in {"refresh", "logout"}
       THEN Stores(r[1], 0, NoUser) ELSE UNCHANGED <<store, shown>>
  /\ Ends(r)
  /\ UNCHANGED <<users, tokenVars, jar, histVars>>

-----------------------------------------------------------------------------
\* Mutant: the account of a sign-up is not stored.
SignUpUnsaved(r, e) ==
  /\ call[r] = NoCall
  /\ e \notin users
  /\ Begins(r, "sign", "issue", 0, e, 0)
  /\ UNCHANGED <<users, tokenVars, callerVars, faults, histVars>>

\* Signing in, over whatever session the caller has.  The email is new: the
\* account is created, and issueTokens follows.
SignUp(r, e) ==
  /\ call[r] = NoCall
  /\ e \notin users
  /\ users' = users \cup {e}
  /\ Begins(r, "sign", "issue", 0, e, 0)
  /\ UNCHANGED <<tokenVars, callerVars, faults, histVars>>

\* The account was created and the answer of its insert was lost.
SignUpFails(r, e) ==
  /\ call[r] = NoCall
  /\ e \notin users
  /\ users' = users \cup {e}
  /\ Fault
  /\ UNCHANGED <<tokenVars, callerVars, call, histVars>>

\* The right password of an account GetByEmail finds.
SignIn(r, e) ==
  /\ call[r] = NoCall
  /\ e \in users
  /\ Begins(r, "sign", "issue", 0, e, 0)
  /\ UNCHANGED <<users, tokenVars, callerVars, faults, histVars>>

\* A page has the button as long as its store has a token; a gRPC client logs
\* any token out that it has.
Logout(r) ==
  /\ call[r] = NoCall
  /\ r[1] \in Pages => store[r[1]] # 0
  /\ \E n \in Presents(r[1]) : Begins(r, "logout", "sent", n, NoUser, 0)
  /\ UNCHANGED <<users, tokenVars, callerVars, faults, histVars>>

LogoutRevoke(r) ==
  /\ Is(r, "logout", "sent")
  /\ revoked' = Revoked(call[r].token)
  /\ ended' = IF Valid(call[r].token) /\ ~Contended(r)
              THEN ended \cup {session[call[r].token]} ELSE ended
  /\ Answers(r, 0)
  /\ UNCHANGED <<users, callerVars, issued, owner, lapsed, stale, session, faults, doubled>>

\* An error of the usecase is dropped, and the caller is told all the same.
LogoutRevokeFails(r) ==
  /\ Is(r, "logout", "sent") /\ call[r].token # 0
  /\ Fault
  /\ Answers(r, 0)
  /\ UNCHANGED <<users, tokenVars, callerVars, histVars>>

-----------------------------------------------------------------------------
\* Time: an access token expires, and a refresh token does, in any order (the
\* two have TTLs of their own).  Only an access token a page has or has sent is
\* let expire, and a refresh token a caller has that is not revoked: with the
\* others it makes no difference.
AccessExpires(n) ==
  /\ n \in {store[b] : b \in Pages} \cup {call[r].bearer : r \in Requests}
  /\ n # 0
  /\ Cardinality(stale) + Cardinality(lapsed) < MaxExpiries
  /\ stale' = stale \cup {n}
  /\ UNCHANGED <<users, callerVars, issued, owner, revoked, lapsed, session,
                 call, faults, histVars>>

RefreshLapses(n) ==
  /\ n \in UNION {jar[c] : c \in Callers} \ revoked
  /\ Cardinality(stale) + Cardinality(lapsed) < MaxExpiries
  /\ lapsed' = lapsed \cup {n}
  /\ UNCHANGED <<users, callerVars, issued, owner, revoked, stale, session,
                 call, faults, histVars>>

Next ==
  \/ \E r \in Requests :
       \/ Send(r) \/ Answered(r) \/ Unauthorized(r) \/ CallRefresh(r)
       \/ Find(r) \/ FindNone(r)
       \/ Revoke(r) \/ RevokeFails(r)
       \/ Issue(r) \/ IssueFails(r)
       \/ Signed(r) \/ Refreshed(r) \/ Refused(r) \/ AnswerLost(r)
       \/ \E e \in Emails : SignUp(r, e) \/ SignUpFails(r, e) \/ SignIn(r, e)
       \/ Logout(r) \/ LogoutRevoke(r) \/ LogoutRevokeFails(r)
  \/ \E n \in Ids : AccessExpires(n) \/ RefreshLapses(n)

Spec == Init /\ [][Next]_vars

-----------------------------------------------------------------------------
\* Types; rows exist before anything refers to them, and a call that may
\* issue tokens knows for whom and, but for a sign-in, in place of which token.
TypeOK ==
  /\ users \subseteq Emails
  /\ issued \in Ids
  /\ owner \in [Ids -> Emails \cup {NoUser}]
  /\ \A n \in 1..issued : owner[n] \in users /\ session[n] \in 1..issued
  /\ revoked \subseteq 1..issued
  /\ stale \subseteq 1..issued
  /\ lapsed \subseteq 1..issued
  /\ jar \in [Callers -> SUBSET (1..issued)]
  /\ store \in [Pages -> 0..issued]
  /\ shown \in [Pages -> Emails \cup {NoUser}]
  /\ call \in [Requests -> [op : {"none", "api", "sign", "refresh", "logout"},
                            at : {"idle", "sent", "find", "revoke", "issue", "answer"},
                            token : 0..issued, user : users \cup {NoUser},
                            got : 0..issued, bearer : 0..issued]]
  /\ \A r \in Requests :
       call[r].at \in {"revoke", "issue"} =>
         call[r].user \in users /\ (call[r].op # "sign" => call[r].token # 0)
  /\ faults \in 0..MaxFaults
  /\ session \in [Ids -> Ids]
  /\ doubled \subseteq 1..issued
  /\ ended \subseteq 1..issued

\* Rotation: of the refresh tokens that go back to one sign-in at most one is
\* accepted, whatever refreshes, logouts, failed statements and lost answers
\* came in between, unless two refreshes found one token valid before either
\* had revoked it.
OneTokenPerSession ==
  \A m, n \in 1..issued :
    m # n /\ Valid(m) /\ Valid(n) /\ session[m] = session[n] => session[n] \in doubled

\* Logging a valid token out ends its session: no token that goes back to the
\* same sign-in is accepted from then on, unless a refresh was between its
\* query and its update then, or two refreshes had doubled the session.
LogoutEndsSession ==
  \A n \in 1..issued : Valid(n) => session[n] \notin ended \ doubled

\* A page shows the user whose access token it sends, although a refresh
\* changes the token and not the user, and an answer may come after another
\* user has signed in.
ShownUserIsOwner ==
  \A b \in Pages : store[b] # 0 => shown[b] = owner[store[b]]

\* A page never loses a session it can still use by itself: it is logging out,
\* or the access token has expired, or it is answered late about a request
\* that had carried another token, or none.
SessionEndsForCause ==
  [][\A b \in Pages :
       store[b] # 0 /\ store'[b] = 0 =>
         \/ store[b] \in stale
         \/ \E s \in PageSlots :
              \/ call[<<b, s>>].op = "logout"
              \/ call[<<b, s>>].op = "refresh" /\ call[<<b, s>>].bearer # store[b]]_vars
=============================================================================
