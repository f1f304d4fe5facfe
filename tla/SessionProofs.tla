--------------------------- MODULE SessionProofs ---------------------------
(***************************************************************************)
(* Proofs about sessions: for any number of pages, gRPC clients, calls,    *)
(* accounts, tokens and faults, and every order of the steps.              *)
(*                                                                         *)
(* What there is of a session is followed in two forms, its valid tokens   *)
(* and the refreshes that have found one of them valid: any two of these   *)
(* put the session in doubled, but for a refresh and the very token it has *)
(* not revoked yet.  Of a page it is followed that it has no refresh token *)
(* to present.                                                             *)
(***************************************************************************)
EXTENDS Session, TLAPS

Stages ==
  {<<"none", "idle">>, <<"api", "sent">>, <<"sign", "issue">>, <<"sign", "answer">>,
   <<"refresh", "find">>, <<"refresh", "revoke">>, <<"refresh", "issue">>,
   <<"refresh", "answer">>, <<"logout", "sent">>, <<"logout", "answer">>}

Ops == {"none", "api", "sign", "refresh", "logout"}
Places == {"idle", "sent", "find", "revoke", "issue", "answer"}

CallSet(rows, known) ==
  [op : Ops, at : Places, token : 0..rows, user : known \cup {NoUser},
   got : 0..rows, bearer : 0..rows]

\* A call at a stage its kind has, with what it has there.
CallOK(c, rows, known) ==
  /\ c \in CallSet(rows, known)
  /\ <<c.op, c.at>> \in Stages
  /\ c.at \in {"revoke", "issue"} => c.user \in known /\ (c.op # "sign" => c.token # 0)
  /\ c.got # 0 => c.at = "answer" /\ c.op \in {"sign", "refresh"}

\* The type invariant without the calls.
DataTyped ==
  /\ users \subseteq Emails
  /\ issued \in Ids
  /\ owner \in [Ids -> Emails \cup {NoUser}]
  /\ \A n \in 1..issued : owner[n] \in users /\ session[n] \in 1..issued
  /\ revoked \subseteq 1..issued
  /\ stale \subseteq 1..issued
  /\ lapsed \subseteq 1..issued
  /\ jar \in [Callers -> SUBSET (1..issued)]
  /\ store \in [Pages -> 0..issued]
  /\ shown \in [Pages -> Emails \cup {NoUser}]
  /\ faults \in 0..MaxFaults
  /\ session \in [Ids -> Ids]
  /\ doubled \subseteq 1..issued
  /\ ended \subseteq 1..issued

TypeInv ==
  /\ DataTyped
  /\ call = [r \in Requests |-> call[r]]
  /\ \A r \in Requests : CallOK(call[r], issued, users)

LEMMA TypeInvImplies == TypeInv => TypeOK
<1> SUFFICES ASSUME TypeInv PROVE TypeOK
  OBVIOUS
<1>1. \A r \in Requests : call[r] \in CallSet(issued, users)
  BY DEF TypeInv, CallOK
<1>2. call \in [Requests -> CallSet(issued, users)]
  BY <1>1 DEF TypeInv
<1>3. \A r \in Requests : call[r].at \in {"revoke", "issue"} =>
        call[r].user \in users /\ (call[r].op # "sign" => call[r].token # 0)
  BY DEF TypeInv, CallOK
<1> QED BY <1>2, <1>3 DEF TypeInv, TypeOK, DataTyped, CallSet, Ops, Places

LEMMA CallRecord ==
  ASSUME NEW rows \in Nat, NEW known, NEW op, NEW at, <<op, at>> \in Stages,
         NEW token \in 0..rows, NEW user \in known \cup {NoUser}, NEW got \in 0..rows,
         NEW bearer \in 0..rows,
         at \in {"revoke", "issue"} => user \in known /\ (op # "sign" => token # 0),
         got # 0 => at = "answer" /\ op \in {"sign", "refresh"}
  PROVE  CallOK([op |-> op, at |-> at, token |-> token, user |-> user, got |-> got,
                 bearer |-> bearer], rows, known)
<1>1. op \in Ops /\ at \in Places
  BY DEF Stages, Ops, Places
<1> QED BY <1>1 DEF CallOK, CallSet

LEMMA CallFields ==
  ASSUME TypeInv, NEW r \in Requests
  PROVE  /\ issued \in Nat /\ 0 \in 0..issued
         /\ call[r] = [op |-> call[r].op, at |-> call[r].at, token |-> call[r].token,
                       user |-> call[r].user, got |-> call[r].got, bearer |-> call[r].bearer]
         /\ <<call[r].op, call[r].at>> \in Stages
         /\ call[r].token \in 0..issued /\ call[r].user \in users \cup {NoUser}
         /\ call[r].got \in 0..issued /\ call[r].bearer \in 0..issued
         /\ call[r].at \in {"revoke", "issue"} =>
              call[r].user \in users /\ (call[r].op # "sign" => call[r].token # 0)
         /\ call[r].got # 0 => call[r].at = "answer" /\ call[r].op \in {"sign", "refresh"}
<1>1. issued \in Nat
  BY DEF TypeInv, DataTyped, Ids
<1>2. CallOK(call[r], issued, users)
  BY DEF TypeInv
<1> QED BY <1>1, <1>2 DEF CallOK, CallSet

\* A token that is there is a row.
LEMMA CallRows ==
  ASSUME TypeInv, NEW r \in Requests
  PROVE  /\ call[r].token # 0 => call[r].token \in 1..issued
         /\ call[r].got # 0 => call[r].got \in 1..issued
         /\ call[r].at \in {"revoke", "issue"} /\ call[r].op # "sign" =>
              call[r].token \in 1..issued
<1>1. /\ issued \in Nat /\ call[r].token \in 0..issued /\ call[r].got \in 0..issued
      /\ call[r].at \in {"revoke", "issue"} /\ call[r].op # "sign" => call[r].token # 0
  BY CallFields
<1> QED BY <1>1

\* Only the call of r changes.
Others(r) ==
  /\ call' = [s \in Requests |-> call'[s]]
  /\ \A s \in Requests : s # r => call'[s] = call[s]

\* Rows and accounts are only added, and the call of r is well formed.
LEMMA TypeInvStep1 ==
  ASSUME TypeInv, NEW r \in Requests, DataTyped', issued <= issued', users \subseteq users',
         Others(r), CallOK(call'[r], issued', users')
  PROVE  TypeInv'
<1>1. issued \in Nat /\ issued' \in Nat
  BY DEF TypeInv, DataTyped, Ids
<1>2. ASSUME NEW s \in Requests PROVE CallOK(call'[s], issued', users')
  <2>1. CASE s = r
    BY <2>1
  <2>2. CASE s # r
    <3>1. call'[s] = call[s] /\ CallOK(call[s], issued, users)
      BY <2>2 DEF Others, TypeInv
    <3> QED BY <1>1, <3>1 DEF CallOK, CallSet
  <2> QED BY <2>1, <2>2
<1> QED BY <1>2 DEF TypeInv, Others

LEMMA TypeInvFrame ==
  ASSUME TypeInv, DataTyped', call' = call, issued' = issued, users \subseteq users'
  PROVE  TypeInv'
<1>1. ASSUME NEW s \in Requests PROVE CallOK(call'[s], issued', users')
  <2>1. CallOK(call[s], issued, users)
    BY DEF TypeInv
  <2> QED BY <2>1 DEF CallOK, CallSet
<1> QED BY <1>1 DEF TypeInv

-----------------------------------------------------------------------------
\* What the steps of a call do to it.
LEMMA CallBegins ==
  ASSUME TypeInv, NEW r \in Requests, NEW op, NEW at, NEW token, NEW user, NEW bearer,
         Begins(r, op, at, token, user, bearer)
  PROVE  /\ call'[r] = [op |-> op, at |-> at, token |-> token, user |-> user, got |-> 0,
                        bearer |-> bearer]
         /\ Others(r)
BY DEF TypeInv, Begins, Others

LEMMA CallGoesOn ==
  ASSUME TypeInv, NEW r \in Requests, NEW at, GoesTo(r, at)
  PROVE  /\ call'[r] = [op |-> call[r].op, at |-> at, token |-> call[r].token,
                        user |-> call[r].user, got |-> call[r].got, bearer |-> call[r].bearer]
         /\ Others(r)
<1>1. call[r] = [op |-> call[r].op, at |-> call[r].at, token |-> call[r].token,
                 user |-> call[r].user, got |-> call[r].got, bearer |-> call[r].bearer]
  BY CallFields
<1>2. call' = [call EXCEPT ![r].at = at] /\ call = [s \in Requests |-> call[s]]
  BY DEF TypeInv, GoesTo
<1> QED BY <1>1, <1>2 DEF Others

LEMMA CallFound ==
  ASSUME TypeInv, NEW r \in Requests, NEW u,
         call' = [call EXCEPT ![r].at = "revoke", ![r].user = u]
  PROVE  /\ call'[r] = [op |-> call[r].op, at |-> "revoke", token |-> call[r].token,
                        user |-> u, got |-> call[r].got, bearer |-> call[r].bearer]
         /\ Others(r)
<1>1. call[r] = [op |-> call[r].op, at |-> call[r].at, token |-> call[r].token,
                 user |-> call[r].user, got |-> call[r].got, bearer |-> call[r].bearer]
  BY CallFields
<1>2. call = [s \in Requests |-> call[s]]
  BY DEF TypeInv
<1> QED BY <1>1, <1>2 DEF Others

LEMMA CallAnswered ==
  ASSUME TypeInv, NEW r \in Requests, NEW n, Answers(r, n)
  PROVE  /\ call'[r] = [op |-> call[r].op, at |-> "answer", token |-> 0,
                        user |-> call[r].user, got |-> n, bearer |-> call[r].bearer]
         /\ Others(r)
<1>1. call[r] = [op |-> call[r].op, at |-> call[r].at, token |-> call[r].token,
                 user |-> call[r].user, got |-> call[r].got, bearer |-> call[r].bearer]
  BY CallFields
<1>2. call' = [call EXCEPT ![r].at = "answer", ![r].token = 0, ![r].got = n]
      /\ call = [s \in Requests |-> call[s]]
  BY DEF TypeInv, Answers
<1> QED BY <1>1, <1>2 DEF Others

LEMMA CallEnds ==
  ASSUME TypeInv, NEW r \in Requests, Ends(r)
  PROVE  call'[r] = NoCall /\ Others(r)
BY DEF TypeInv, Ends, Others

\* The calls stay well formed when one begins, goes on, is answered or ends.
LEMMA BeginsOK ==
  ASSUME TypeInv, DataTyped', NEW r \in Requests, NEW op, NEW at, <<op, at>> \in Stages,
         NEW token \in 0..issued, NEW user \in users' \cup {NoUser}, NEW bearer \in 0..issued,
         at \in {"revoke", "issue"} => user \in users' /\ op = "sign",
         issued' = issued, users \subseteq users', Begins(r, op, at, token, user, bearer)
  PROVE  TypeInv'
<1>1. issued \in Nat /\ 0 \in 0..issued
  BY CallFields
<1>2. call'[r] = [op |-> op, at |-> at, token |-> token, user |-> user, got |-> 0,
                  bearer |-> bearer] /\ Others(r)
  BY CallBegins
<1>3. CallOK(call'[r], issued', users')
  BY <1>1, <1>2, CallRecord
<1> QED BY <1>1, <1>2, <1>3, TypeInvStep1

LEMMA AnswersOK ==
  ASSUME TypeInv, DataTyped', NEW r \in Requests, issued <= issued', users' = users,
         NEW n \in 0..issued', call[r].op \in {"sign", "refresh", "logout"},
         n # 0 => call[r].op # "logout", Answers(r, n)
  PROVE  TypeInv'
<1>1. /\ issued \in Nat /\ issued' \in Nat /\ 0 \in 0..issued'
      /\ call[r].user \in users \cup {NoUser} /\ call[r].bearer \in 0..issued'
  <2>1. issued \in Nat /\ call[r].user \in users \cup {NoUser} /\ call[r].bearer \in 0..issued
    BY CallFields
  <2> QED BY <2>1 DEF DataTyped, Ids
<1>2. call'[r] = [op |-> call[r].op, at |-> "answer", token |-> 0,
                  user |-> call[r].user, got |-> n, bearer |-> call[r].bearer] /\ Others(r)
  BY CallAnswered
<1>3. <<call[r].op, "answer">> \in Stages
  BY DEF Stages
<1>4. "answer" \notin {"revoke", "issue"} /\ (n # 0 => call[r].op \in {"sign", "refresh"})
  OBVIOUS
<1>5. call[r].user \in users' \cup {NoUser}
  BY <1>1
<1>6. CallOK([op |-> call[r].op, at |-> "answer", token |-> 0, user |-> call[r].user,
              got |-> n, bearer |-> call[r].bearer], issued', users')
  BY <1>1, <1>3, <1>4, <1>5, CallRecord
<1> QED BY <1>2, <1>6, TypeInvStep1

LEMMA EndsOK ==
  ASSUME TypeInv, DataTyped', NEW r \in Requests, issued' = issued, users' = users, Ends(r)
  PROVE  TypeInv'
<1>1. issued \in Nat /\ 0 \in 0..issued
  BY CallFields
<1>2. call'[r] = NoCall /\ Others(r)
  BY CallEnds
<1>3. <<"none", "idle">> \in Stages
  BY DEF Stages
<1>4. CallOK(NoCall, issued', users')
  BY <1>1, <1>3, CallRecord DEF NoCall
<1> QED BY <1>1, <1>2, <1>4, TypeInvStep1

-----------------------------------------------------------------------------
LEMMA TypeInvInit == Init => TypeInv
<1> SUFFICES ASSUME Init PROVE TypeInv
  OBVIOUS
<1> USE SessionAssumption
<1>1. issued \in Nat /\ 0 \in 0..issued /\ issued \in Ids
  BY DEF Init, Ids
<1>2. DataTyped
  BY <1>1 DEF Init, DataTyped, Ids
<1>3. CallOK(NoCall, issued, users)
  <2>1. <<"none", "idle">> \in Stages
    BY DEF Stages
  <2> QED BY <1>1, <2>1, CallRecord DEF NoCall
<1> QED BY <1>2, <1>3 DEF Init, TypeInv

\* The new row of issueTokens belongs to a user, and to a session.
LEMMA NewRowTyped ==
  ASSUME TypeInv, NEW r \in Requests, call[r].at = "issue", NewRow(r), users' = users,
         UNCHANGED <<callerVars, revoked, lapsed, stale, histVars>>, faults' \in 0..MaxFaults
  PROVE  /\ DataTyped' /\ issued' = issued + 1 /\ issued' \in 0..issued' /\ issued <= issued'
         /\ call[r].op \in {"sign", "refresh"}
         /\ owner' = [owner EXCEPT ![issued'] = call[r].user]
         /\ session' = [session EXCEPT ![issued'] =
                          IF call[r].op = "sign" THEN issued' ELSE session[call[r].token]]
<1>1. issued \in Nat /\ DataTyped /\ issued \in Ids /\ MaxTokens \in Nat
  BY CallFields, SessionAssumption DEF TypeInv, DataTyped
<1>2. issued' = issued + 1 /\ issued' \in Ids /\ issued' \in 1..issued'
  BY <1>1 DEF NewRow, Ids
<1>3. call[r].op \in {"sign", "refresh"}
  BY CallFields DEF Stages
<1>4. call[r].user \in users /\ (call[r].op # "sign" => call[r].token \in 1..issued)
  BY CallFields, CallRows
<1>5. /\ owner' = [owner EXCEPT ![issued'] = call[r].user]
      /\ session' = [session EXCEPT ![issued'] =
                       IF call[r].op = "sign" THEN issued' ELSE session[call[r].token]]
  BY <1>2 DEF NewRow
<1>6. 1..issued' = 1..issued \cup {issued'} /\ 1..issued \subseteq Ids /\ issued' \notin 1..issued
  BY <1>1, <1>2 DEF Ids
<1>7. \A n \in 1..issued' : owner'[n] \in users' /\ session'[n] \in 1..issued'
  <2> TAKE n \in 1..issued'
  <2>1. CASE n = issued'
    <3>1. owner'[n] = call[r].user
      BY <1>1, <1>2, <1>5, <2>1 DEF DataTyped
    <3>2. session'[n] \in 1..issued'
      BY <1>1, <1>2, <1>4, <1>5, <1>6, <2>1 DEF DataTyped
    <3> QED BY <1>4, <3>1, <3>2
  <2>2. CASE n # issued'
    <3>1. n \in 1..issued /\ owner'[n] = owner[n] /\ session'[n] = session[n]
      BY <1>1, <1>5, <1>6, <2>2 DEF DataTyped
    <3> QED BY <1>1, <1>6, <3>1 DEF DataTyped
  <2> QED BY <2>1, <2>2
<1>8. owner' \in [Ids -> Emails \cup {NoUser}] /\ session' \in [Ids -> Ids]
  <2>1. call[r].user \in Emails
    BY <1>1, <1>4 DEF DataTyped
  <2>2. call[r].op # "sign" => session[call[r].token] \in Ids
    BY <1>1, <1>4, <1>6 DEF DataTyped
  <2> QED BY <1>1, <1>2, <1>5, <2>1, <2>2 DEF DataTyped
<1>9. DataTyped'
  <2>1. /\ revoked' \subseteq 1..issued' /\ stale' \subseteq 1..issued' /\ lapsed' \subseteq 1..issued'
        /\ doubled' \subseteq 1..issued' /\ ended' \subseteq 1..issued'
    BY <1>1, <1>6 DEF DataTyped, histVars
  <2>2. jar' \in [Callers -> SUBSET (1..issued')] /\ store' \in [Pages -> 0..issued']
        /\ shown' \in [Pages -> Emails \cup {NoUser}]
    BY <1>1, <1>2 DEF DataTyped, callerVars
  <2> QED BY <1>1, <1>2, <1>7, <1>8, <2>1, <2>2 DEF DataTyped
<1> QED BY <1>1, <1>2, <1>3, <1>5, <1>9

LEMMA StoresTyped ==
  ASSUME TypeInv, NEW c, NEW n \in 0..issued, NEW u \in Emails \cup {NoUser}, Stores(c, n, u)
  PROVE  store' \in [Pages -> 0..issued] /\ shown' \in [Pages -> Emails \cup {NoUser}]
BY DEF TypeInv, DataTyped, Stores

LEMMA JarTyped ==
  ASSUME TypeInv, NEW r \in Requests, call[r].got # 0,
         jar' = [jar EXCEPT ![r[1]] = @ \cup Delivered(r[1], call[r].got)]
  PROVE  jar' \in [Callers -> SUBSET (1..issued)]
<1>1. call[r].got \in 1..issued
  BY CallRows
<1>2. Delivered(r[1], call[r].got) \subseteq 1..issued
  BY <1>1 DEF Delivered
<1> QED BY <1>2 DEF TypeInv, DataTyped

LEMMA TypeInvStep == TypeInv /\ [Next]_vars => TypeInv'
<1> SUFFICES ASSUME TypeInv, [Next]_vars PROVE TypeInv'
  OBVIOUS
<1> USE DEF tokenVars, callerVars, histVars
<1>0. DataTyped /\ issued \in Nat /\ 0 \in 0..issued /\ issued <= issued /\ MaxFaults \in Nat
  BY CallFields, SessionAssumption DEF TypeInv, DataTyped, Ids
<1>p. \A n : Valid(n) => n # 0
  BY DEF Valid
<1>q. \A c \in Callers : Presents(c) \subseteq 0..issued
  BY <1>0 DEF Presents, DataTyped
<1>r. \A r \in Requests : r[1] \in Callers
  BY DEF Requests, Callers
<1>f. Fault => faults' \in 0..MaxFaults
  BY <1>0 DEF Fault, DataTyped
<1>s. \A r \in Requests : Revoked(call[r].token) \subseteq 1..issued
  BY <1>0, CallRows DEF Revoked, DataTyped
<1>z. \A n \in 1..issued : n # 0
  OBVIOUS
<1>1. ASSUME NEW r \in Requests, Send(r) PROVE TypeInv'
  <2>1. DataTyped'
    BY <1>0, <1>1 DEF Send, DataTyped
  <2>2. store[r[1]] \in 0..issued
    BY <1>0, <1>1 DEF Send, DataTyped
  <2>3. <<"api", "sent">> \in Stages
    BY DEF Stages
  <2> QED BY <1>0, <1>1, <2>1, <2>2, <2>3, BeginsOK DEF Send
<1>2. ASSUME NEW r \in Requests, Answered(r) PROVE TypeInv'
  <2>1. DataTyped'
    BY <1>0, <1>2 DEF Answered, DataTyped
  <2> QED BY <1>2, <2>1, EndsOK DEF Answered
<1>3. ASSUME NEW r \in Requests, Unauthorized(r) PROVE TypeInv'
  <2>1. DataTyped'
    BY <1>0, <1>3 DEF Unauthorized, DataTyped
  <2>2. PICK n \in Presents(r[1]) : Begins(r, "refresh", "find", n, NoUser, call[r].bearer)
    BY <1>3 DEF Unauthorized
  <2>3. n \in 0..issued /\ call[r].bearer \in 0..issued /\ <<"refresh", "find">> \in Stages
    BY <1>q, <1>r, CallFields DEF Stages
  <2> QED BY <1>0, <1>3, <2>1, <2>2, <2>3, BeginsOK DEF Unauthorized
<1>4. ASSUME NEW r \in Requests, CallRefresh(r) PROVE TypeInv'
  <2>1. DataTyped'
    BY <1>0, <1>4 DEF CallRefresh, DataTyped
  <2>2. PICK n \in Presents(r[1]) : Begins(r, "refresh", "find", n, NoUser, 0)
    BY <1>4 DEF CallRefresh
  <2>3. n \in 0..issued /\ <<"refresh", "find">> \in Stages
    BY <1>q, <1>r DEF Stages
  <2> QED BY <1>0, <1>4, <2>1, <2>2, <2>3, BeginsOK DEF CallRefresh
<1>5. ASSUME NEW r \in Requests, Find(r) PROVE TypeInv'
  <2>1. call[r].token \in 1..issued /\ call[r].op = "refresh" /\ call[r].at = "find"
    BY <1>5, <1>p, CallRows DEF Find, Is
  <2>2. owner[call[r].token] \in users /\ session[call[r].token] \in 1..issued
    BY <1>0, <2>1 DEF DataTyped
  <2>3. DataTyped'
    BY <1>0, <1>5, <2>2 DEF Find, DataTyped
  <2>4. /\ call'[r] = [op |-> call[r].op, at |-> "revoke", token |-> call[r].token,
                       user |-> owner[call[r].token], got |-> call[r].got,
                       bearer |-> call[r].bearer]
        /\ Others(r)
    BY <1>5, CallFound DEF Find
  <2>5. /\ call[r].token \in 0..issued /\ call[r].bearer \in 0..issued /\ call[r].got = 0
        /\ <<call[r].op, "revoke">> \in Stages /\ call[r].token # 0
    BY <1>z, <2>1, CallFields DEF Stages
  <2>6. CallOK(call'[r], issued, users)
    BY <1>0, <2>2, <2>4, <2>5, CallRecord
  <2>7. issued' = issued /\ users' = users
    BY <1>5 DEF Find
  <2> QED BY <1>0, <2>3, <2>4, <2>6, <2>7, TypeInvStep1
<1>6. ASSUME NEW r \in Requests, FindNone(r) PROVE TypeInv'
  <2>1. DataTyped'
    BY <1>0, <1>6, <1>f DEF FindNone, DataTyped
  <2> QED BY <1>0, <1>6, <2>1, AnswersOK DEF FindNone, Is
<1>7. ASSUME NEW r \in Requests, Revoke(r) PROVE TypeInv'
  <2>1. call[r].op = "refresh" /\ call[r].at = "revoke" /\ call[r].token \in 1..issued
        /\ call[r].user \in users
    BY <1>7, CallRows, CallFields DEF Revoke, Is
  <2>2. DataTyped'
    BY <1>0, <1>7, <1>s DEF Revoke, DataTyped
  <2>3. /\ call'[r] = [op |-> call[r].op, at |-> "issue", token |-> call[r].token,
                       user |-> call[r].user, got |-> call[r].got, bearer |-> call[r].bearer]
        /\ Others(r)
    BY <1>7, CallGoesOn DEF Revoke
  <2>4. /\ call[r].token \in 0..issued /\ call[r].bearer \in 0..issued /\ call[r].got = 0
        /\ <<call[r].op, "issue">> \in Stages /\ call[r].token # 0
    BY <1>z, <2>1, CallFields DEF Stages
  <2>5. CallOK(call'[r], issued, users)
    BY <1>0, <2>1, <2>3, <2>4, CallRecord
  <2>6. issued' = issued /\ users' = users
    BY <1>7 DEF Revoke
  <2> QED BY <1>0, <2>2, <2>3, <2>5, <2>6, TypeInvStep1
<1>8. ASSUME NEW r \in Requests, RevokeFails(r) PROVE TypeInv'
  <2>1. call[r].token \in 1..issued /\ call[r].op = "refresh"
    BY <1>8, CallRows DEF RevokeFails, Is
  <2>2. DataTyped'
    BY <1>0, <1>8, <1>f, <1>s, <2>1 DEF RevokeFails, DataTyped
  <2> QED BY <1>0, <1>8, <2>1, <2>2, AnswersOK DEF RevokeFails
<1>9. ASSUME NEW r \in Requests, Issue(r) PROVE TypeInv'
  <2>1. call[r].at = "issue" /\ NewRow(r) /\ users' = users /\ Answers(r, issued')
    BY <1>9 DEF Issue, NewRow
  <2>2. DataTyped' /\ issued' \in 0..issued' /\ issued <= issued'
        /\ call[r].op \in {"sign", "refresh"}
    BY <1>0, <1>9, <2>1, NewRowTyped DEF Issue, DataTyped
  <2> QED BY <2>1, <2>2, AnswersOK
<1>10. ASSUME NEW r \in Requests, IssueFails(r) PROVE TypeInv'
  <2>1. call[r].at = "issue" /\ users' = users /\ Answers(r, 0) /\ faults' \in 0..MaxFaults
    BY <1>10, <1>f DEF IssueFails
  <2>2. CASE NewRow(r)
    <3>1. DataTyped' /\ issued' \in 0..issued' /\ issued <= issued'
          /\ call[r].op \in {"sign", "refresh"}
      BY <1>10, <2>1, <2>2, NewRowTyped DEF IssueFails
    <3>2. 0 \in 0..issued'
      BY <3>1 DEF DataTyped, Ids
    <3> QED BY <2>1, <3>1, <3>2, AnswersOK
  <2>3. CASE UNCHANGED <<issued, owner, session>>
    <3>1. DataTyped'
      BY <1>0, <1>10, <2>1, <2>3 DEF IssueFails, DataTyped
    <3>2. call[r].op \in {"sign", "refresh"}
      BY <2>1, CallFields DEF Stages
    <3> QED BY <1>0, <2>1, <2>3, <3>1, <3>2, AnswersOK
  <2> QED BY <1>10, <2>2, <2>3 DEF IssueFails
<1>11. ASSUME NEW r \in Requests, Signed(r) PROVE TypeInv'
  <2>1. call[r].got \in 0..issued /\ call[r].user \in Emails \cup {NoUser}
    BY <1>0, CallFields DEF DataTyped
  <2>2. store' \in [Pages -> 0..issued] /\ shown' \in [Pages -> Emails \cup {NoUser}]
    BY <1>11, <2>1, StoresTyped DEF Signed
  <2>3. DataTyped'
    BY <1>0, <1>11, <2>2, JarTyped DEF Signed, DataTyped
  <2> QED BY <1>11, <2>3, EndsOK DEF Signed
<1>12. ASSUME NEW r \in Requests, Refreshed(r) PROVE TypeInv'
  <2>1. call[r].got \in 0..issued
    BY CallFields
  <2>2. store' \in [Pages -> 0..issued]
    BY <1>0, <1>12, <2>1 DEF Refreshed, DataTyped
  <2>3. DataTyped'
    BY <1>0, <1>12, <2>2, JarTyped DEF Refreshed, DataTyped
  <2> QED BY <1>12, <2>3, EndsOK DEF Refreshed
<1>13. ASSUME NEW r \in Requests, Refused(r) PROVE TypeInv'
  <2>1. store' \in [Pages -> 0..issued] /\ shown' \in [Pages -> Emails \cup {NoUser}]
    BY <1>0, <1>13, StoresTyped DEF Refused, DataTyped
  <2>2. DataTyped'
    BY <1>0, <1>13, <2>1 DEF Refused, DataTyped
  <2> QED BY <1>13, <2>2, EndsOK DEF Refused
<1>14. ASSUME NEW r \in Requests, AnswerLost(r) PROVE TypeInv'
  <2>1. store' \in [Pages -> 0..issued] /\ shown' \in [Pages -> Emails \cup {NoUser}]
    BY <1>0, <1>14, StoresTyped DEF AnswerLost, DataTyped
  <2>2. DataTyped'
    BY <1>0, <1>14, <1>f, <2>1 DEF AnswerLost, DataTyped
  <2> QED BY <1>14, <2>2, EndsOK DEF AnswerLost
<1>15. ASSUME NEW r \in Requests, NEW e \in Emails, SignUp(r, e) PROVE TypeInv'
  <2>1. DataTyped'
    BY <1>0, <1>15 DEF SignUp, DataTyped
  <2>2. <<"sign", "issue">> \in Stages /\ e \in users' /\ users \subseteq users'
    BY <1>15 DEF SignUp, Stages
  <2> QED BY <1>0, <1>15, <2>1, <2>2, BeginsOK DEF SignUp
<1>16. ASSUME NEW r \in Requests, NEW e \in Emails, SignUpFails(r, e) PROVE TypeInv'
  <2>1. DataTyped'
    BY <1>0, <1>16, <1>f DEF SignUpFails, DataTyped
  <2> QED BY <1>16, <2>1, TypeInvFrame DEF SignUpFails
<1>17. ASSUME NEW r \in Requests, NEW e \in Emails, SignIn(r, e) PROVE TypeInv'
  <2>1. DataTyped'
    BY <1>0, <1>17 DEF SignIn, DataTyped
  <2>2. <<"sign", "issue">> \in Stages /\ e \in users' /\ users \subseteq users'
    BY <1>17 DEF SignIn, Stages
  <2> QED BY <1>0, <1>17, <2>1, <2>2, BeginsOK DEF SignIn
<1>18. ASSUME NEW r \in Requests, Logout(r) PROVE TypeInv'
  <2>1. DataTyped'
    BY <1>0, <1>18 DEF Logout, DataTyped
  <2>2. PICK n \in Presents(r[1]) : Begins(r, "logout", "sent", n, NoUser, 0)
    BY <1>18 DEF Logout
  <2>3. n \in 0..issued /\ <<"logout", "sent">> \in Stages
    BY <1>q, <1>r DEF Stages
  <2> QED BY <1>0, <1>18, <2>1, <2>2, <2>3, BeginsOK DEF Logout
<1>19. ASSUME NEW r \in Requests, LogoutRevoke(r) PROVE TypeInv'
  <2>1. call[r].token # 0 => call[r].token \in 1..issued /\ session[call[r].token] \in 1..issued
    BY <1>0, CallRows DEF DataTyped
  <2>2. revoked' \subseteq 1..issued
    BY <1>19, <1>s DEF LogoutRevoke
  <2>3. ended' \subseteq 1..issued
    BY <1>0, <1>19, <1>p, <2>1 DEF LogoutRevoke, DataTyped
  <2>4. DataTyped'
    BY <1>0, <1>19, <2>2, <2>3 DEF LogoutRevoke, DataTyped
  <2> QED BY <1>0, <1>19, <2>4, AnswersOK DEF LogoutRevoke, Is
<1>20. ASSUME NEW r \in Requests, LogoutRevokeFails(r) PROVE TypeInv'
  <2>1. DataTyped'
    BY <1>0, <1>20, <1>f DEF LogoutRevokeFails, DataTyped
  <2> QED BY <1>0, <1>20, <2>1, AnswersOK DEF LogoutRevokeFails, Is
<1>21. ASSUME NEW n \in Ids, AccessExpires(n) PROVE TypeInv'
  <2>1. n \in 0..issued /\ n # 0
    BY <1>0, <1>21, CallFields DEF AccessExpires, DataTyped
  <2>2. n \in 1..issued
    BY <1>0, <2>1
  <2>3. DataTyped'
    BY <1>0, <1>21, <2>2 DEF AccessExpires, DataTyped
  <2> QED BY <1>21, <2>3, TypeInvFrame DEF AccessExpires
<1>22. ASSUME NEW n \in Ids, RefreshLapses(n) PROVE TypeInv'
  <2>1. n \in 1..issued
    BY <1>0, <1>22 DEF RefreshLapses, DataTyped
  <2>2. DataTyped'
    BY <1>0, <1>22, <2>1 DEF RefreshLapses, DataTyped
  <2> QED BY <1>22, <2>2, TypeInvFrame DEF RefreshLapses
<1>23. CASE UNCHANGED vars
  <2>1. DataTyped'
    BY <1>0, <1>23 DEF vars, DataTyped
  <2> QED BY <1>23, <2>1, TypeInvFrame DEF vars
<1> QED
  BY <1>1, <1>2, <1>3, <1>4, <1>5, <1>6, <1>7, <1>8, <1>9, <1>10, <1>11, <1>12, <1>13, <1>14,
     <1>15, <1>16, <1>17, <1>18, <1>19, <1>20, <1>21, <1>22, <1>23 DEF Next

\* Types: tokens have rows, rows have users and sessions, and a call that may
\* issue tokens knows for whom and in place of which token.
THEOREM SessionTypeCorrect == Spec => []TypeOK
<1>1. Init => TypeInv
  BY TypeInvInit
<1>2. TypeInv /\ [Next]_vars => TypeInv'
  BY TypeInvStep
<1>3. TypeInv => TypeOK
  BY TypeInvImplies
<1> QED BY <1>1, <1>2, <1>3, PTL DEF Spec

-----------------------------------------------------------------------------
\* A refresh that has found its token valid, and the session of that token.
Rotating(r) == call[r].op = "refresh" /\ call[r].at \in {"revoke", "issue"}
Family(r) == session[call[r].token]

\* It gives its token up before it asks for another.
GivenUp == \A r \in Requests : Is(r, "refresh", "issue") => call[r].token \in revoked

\* Beside it there is no other valid token, and no other such refresh.
NoneBeside ==
  \A r \in Requests, n \in 1..issued :
    Rotating(r) /\ Valid(n) /\ n # call[r].token /\ session[n] = Family(r) =>
      Family(r) \in doubled

OneRotation ==
  \A r, s \in Requests :
    r # s /\ Rotating(r) /\ Rotating(s) /\ Family(r) = Family(s) => Family(r) \in doubled

\* No refresh of a session that was logged out is left.
NoneAfterLogout == \A r \in Requests : Rotating(r) => Family(r) \notin ended \ doubled

RotationInv ==
  /\ TypeInv
  /\ GivenUp
  /\ OneTokenPerSession
  /\ NoneBeside
  /\ OneRotation
  /\ LogoutEndsSession
  /\ NoneAfterLogout

LEMMA RotatingToken ==
  ASSUME TypeInv, NEW r \in Requests, Rotating(r)
  PROVE  call[r].token \in 1..issued /\ Family(r) \in 1..issued
<1>1. call[r].token \in 1..issued
  BY CallRows DEF Rotating
<1> QED BY <1>1 DEF TypeInv, DataTyped, Family

\* Steps that neither find nor add a token.
Quiet ==
  /\ UNCHANGED <<issued, session, doubled, ended>>
  /\ revoked \subseteq revoked' /\ lapsed \subseteq lapsed'
  /\ \A r \in Requests :
       Rotating(r)' =>
         /\ Rotating(r) /\ call'[r].token = call[r].token
         /\ Is(r, "refresh", "issue")' /\ ~Is(r, "refresh", "issue") =>
              call[r].token \in revoked'

LEMMA QuietStep ==
  ASSUME RotationInv, TypeInv', Quiet
  PROVE  RotationInv'
<1>1. \A n : Valid(n)' => Valid(n)
  BY DEF Quiet, Valid
<1>2. \A r \in Requests : Rotating(r)' => Rotating(r) /\ Family(r)' = Family(r)
                                         /\ call'[r].token = call[r].token
  BY DEF Quiet, Family
<1>3. GivenUp'
  <2> SUFFICES ASSUME NEW r \in Requests, Is(r, "refresh", "issue")'
               PROVE  call'[r].token \in revoked'
    BY DEF GivenUp
  <2>1. Rotating(r)'
    BY DEF Is, Rotating
  <2> QED BY <2>1 DEF RotationInv, GivenUp, Quiet
<1>4. OneTokenPerSession'
  BY <1>1 DEF RotationInv, OneTokenPerSession, Quiet
<1>5. NoneBeside'
  <2> SUFFICES ASSUME NEW r \in Requests, NEW n \in 1..issued, Rotating(r)', Valid(n)',
                      n # call'[r].token, session[n] = Family(r)'
               PROVE  Family(r)' \in doubled
    BY DEF NoneBeside, Quiet
  <2> QED BY <1>1, <1>2 DEF RotationInv, NoneBeside
<1>6. OneRotation'
  BY <1>2 DEF RotationInv, OneRotation, Quiet
<1>7. LogoutEndsSession'
  BY <1>1 DEF RotationInv, LogoutEndsSession, Quiet
<1>8. NoneAfterLogout'
  BY <1>2 DEF RotationInv, NoneAfterLogout, Quiet
<1> QED BY <1>3, <1>4, <1>5, <1>6, <1>7, <1>8 DEF RotationInv

\* Only r changes, and it is not a rotation afterwards.
LEMMA QuietCall ==
  ASSUME RotationInv, TypeInv', NEW r \in Requests, Others(r), ~Rotating(r)',
         UNCHANGED <<issued, session, doubled, ended>>,
         revoked \subseteq revoked', lapsed' = lapsed
  PROVE  RotationInv'
<1>1. \A s \in Requests : s # r => call'[s] = call[s]
  BY DEF Others
<1>2. Quiet
  BY <1>1 DEF Quiet, Rotating, Is
<1> QED BY <1>2, QuietStep

\* The query of a refresh finds its token valid.
LEMMA FindKeeps ==
  ASSUME RotationInv, TypeInv', NEW r \in Requests, Find(r)
  PROVE  RotationInv'
<1> DEFINE t == call[r].token
<1>0. /\ TypeInv /\ t \in 1..issued /\ Valid(t) /\ t \notin revoked
      /\ UNCHANGED <<issued, session, revoked, lapsed, ended>>
      /\ doubled' = IF Contended(r) THEN doubled \cup {session[t]} ELSE doubled
      /\ Is(r, "refresh", "find")
  BY CallRows DEF RotationInv, Find, Valid, tokenVars
<1>1. /\ call'[r] = [op |-> call[r].op, at |-> "revoke", token |-> t,
                     user |-> owner[t], got |-> call[r].got, bearer |-> call[r].bearer]
      /\ Others(r)
  BY <1>0, CallFound DEF Find
<1>2. /\ \A s \in Requests : s # r => call'[s] = call[s]
      /\ \A n : Valid(n)' <=> Valid(n)
      /\ call'[r].token = t /\ ~Is(r, "refresh", "issue")' /\ doubled \subseteq doubled'
      /\ \A s \in Requests : Family(s)' = Family(s)
      /\ \A s \in Requests : s # r => (Rotating(s)' <=> Rotating(s))
  <2>1. \A s \in Requests : s # r => call'[s] = call[s]
    BY <1>1 DEF Others
  <2>2. \A s \in Requests : call'[s].token = call[s].token
    BY <1>1, <2>1
  <2> QED BY <1>0, <1>1, <2>1, <2>2 DEF Valid, Is, Family, Rotating
<1>3. GivenUp'
  BY <1>0, <1>2 DEF RotationInv, GivenUp, Is
<1>4. OneTokenPerSession'
  BY <1>0, <1>2 DEF RotationInv, OneTokenPerSession
<1>5. NoneBeside'
  <2> SUFFICES ASSUME NEW s \in Requests, NEW n \in 1..issued, Rotating(s)', Valid(n),
                      n # call'[s].token, session[n] = Family(s)
               PROVE  Family(s) \in doubled
    BY <1>0, <1>2 DEF NoneBeside
  <2>1. CASE s = r
    BY <1>0, <1>2, <2>1 DEF RotationInv, OneTokenPerSession, Family
  <2>2. CASE s # r
    BY <1>2, <2>2 DEF RotationInv, NoneBeside
  <2> QED BY <2>1, <2>2
<1>6. ASSUME NEW s \in Requests, s # r, Rotating(s), Family(s) = session[t]
      PROVE  session[t] \in doubled'
  <2>1. CASE call[s].token # t
    BY <1>0, <1>2, <1>6, <2>1 DEF RotationInv, NoneBeside
  <2>2. CASE call[s].token = t
    <3>1. ~Is(s, "refresh", "issue")
      BY <1>0, <2>2 DEF RotationInv, GivenUp
    <3>2. Is(s, "refresh", "revoke")
      BY <1>6, <3>1 DEF Is, Rotating
    <3>3. Contended(r)
      BY <1>6, <2>2, <3>2 DEF Contended
    <3> QED BY <1>0, <3>3
  <2> QED BY <2>1, <2>2
<1>7. OneRotation'
  <2> SUFFICES ASSUME NEW q \in Requests, NEW s \in Requests, q # s, Rotating(q)', Rotating(s)',
                      Family(q) = Family(s)
               PROVE  Family(q) \in doubled'
    BY <1>2 DEF OneRotation
  <2>1. CASE q # r /\ s # r
    BY <1>2, <2>1 DEF RotationInv, OneRotation
  <2>2. CASE q = r
    BY <1>2, <1>6, <2>2 DEF Family
  <2>3. CASE s = r
    BY <1>2, <1>6, <2>3 DEF Family
  <2> QED BY <2>1, <2>2, <2>3
<1>8. LogoutEndsSession'
  BY <1>0, <1>2 DEF RotationInv, LogoutEndsSession
<1>9. NoneAfterLogout'
  <2> SUFFICES ASSUME NEW s \in Requests, Rotating(s)'
               PROVE  Family(s) \notin ended \ doubled
    BY <1>0, <1>2 DEF NoneAfterLogout
  <2>1. CASE s = r
    BY <1>0, <2>1 DEF RotationInv, LogoutEndsSession, Family
  <2>2. CASE s # r
    BY <1>2, <2>2 DEF RotationInv, NoneAfterLogout
  <2> QED BY <2>1, <2>2
<1> QED BY <1>3, <1>4, <1>5, <1>7, <1>8, <1>9 DEF RotationInv

\* A logout: of a valid token that no refresh has found, there is nothing of
\* its session beside.
LEMMA LogoutKeeps ==
  ASSUME RotationInv, TypeInv', NEW r \in Requests, LogoutRevoke(r)
  PROVE  RotationInv'
<1> DEFINE t == call[r].token
<1>0. /\ TypeInv /\ (Valid(t) => t \in 1..issued)
      /\ UNCHANGED <<issued, session, lapsed, doubled>>
      /\ revoked' = Revoked(t) /\ revoked \subseteq revoked' /\ (t # 0 => t \in revoked')
      /\ ended' = IF Valid(t) /\ ~Contended(r) THEN ended \cup {session[t]} ELSE ended
      /\ Is(r, "logout", "sent") /\ Answers(r, 0)
  BY CallRows DEF RotationInv, LogoutRevoke, Revoked, Valid
<1>1. /\ call'[r] = [op |-> call[r].op, at |-> "answer", token |-> 0,
                     user |-> call[r].user, got |-> 0, bearer |-> call[r].bearer]
      /\ Others(r)
  BY <1>0, CallAnswered
<1>2. /\ \A s \in Requests : s # r => call'[s] = call[s]
      /\ \A s \in Requests : Rotating(s)' => s # r /\ Rotating(s) /\ Family(s)' = Family(s)
      /\ \A n : Valid(n)' => Valid(n) /\ n # t
      /\ \A s \in Requests : Rotating(s) => s # r
  <2>1. \A s \in Requests : s # r => call'[s] = call[s]
    BY <1>1 DEF Others
  <2>2. ~Rotating(r)' /\ ~Rotating(r)
    BY <1>0, <1>1 DEF Rotating, Is
  <2>3. \A s \in Requests : s # r => (Rotating(s)' => Rotating(s)) /\ Family(s)' = Family(s)
    BY <1>0, <2>1 DEF Rotating, Family
  <2> QED BY <1>0, <2>1, <2>2, <2>3 DEF Valid
<1>3. GivenUp'
  BY <1>0, <1>1, <1>2 DEF RotationInv, GivenUp, Is
<1>4. OneTokenPerSession'
  BY <1>0, <1>2 DEF RotationInv, OneTokenPerSession
<1>5. NoneBeside'
  <2> SUFFICES ASSUME NEW s \in Requests, NEW n \in 1..issued, Rotating(s)', Valid(n)',
                      n # call'[s].token, session[n] = Family(s)'
               PROVE  Family(s)' \in doubled
    BY <1>0 DEF NoneBeside
  <2> QED BY <1>2 DEF RotationInv, NoneBeside
<1>6. OneRotation'
  BY <1>0, <1>2 DEF RotationInv, OneRotation
<1>7. LogoutEndsSession'
  <2> SUFFICES ASSUME NEW n \in 1..issued, Valid(n)', session[n] \in ended'
               PROVE  session[n] \in doubled
    BY <1>0 DEF LogoutEndsSession
  <2>1. Valid(n) /\ n # t
    BY <1>2
  <2>2. CASE session[n] \in ended
    BY <2>1, <2>2 DEF RotationInv, LogoutEndsSession
  <2>3. CASE session[n] \notin ended
    <3>1. Valid(t) /\ session[n] = session[t]
      BY <1>0, <2>3
    <3> QED BY <1>0, <2>1, <3>1 DEF RotationInv, OneTokenPerSession
  <2> QED BY <2>2, <2>3
<1>8. NoneAfterLogout'
  <2> SUFFICES ASSUME NEW s \in Requests, Rotating(s)', Family(s) \in ended'
               PROVE  Family(s) \in doubled
    BY <1>0, <1>2 DEF NoneAfterLogout
  <2>1. Rotating(s) /\ s # r
    BY <1>2
  <2>2. CASE Family(s) \in ended
    BY <2>1, <2>2 DEF RotationInv, NoneAfterLogout
  <2>3. CASE Family(s) \notin ended
    <3>1. Valid(t) /\ ~Contended(r) /\ Family(s) = session[t]
      BY <1>0, <2>3
    <3>2. t \notin revoked /\ t \in 1..issued
      BY <1>0, <3>1 DEF Valid
    <3>3. call[s].token # t
      <4> SUFFICES ASSUME call[s].token = t PROVE FALSE
        OBVIOUS
      <4>1. ~Is(s, "refresh", "issue")
        BY <3>2 DEF RotationInv, GivenUp
      <4>2. Is(s, "refresh", "revoke")
        BY <2>1, <4>1 DEF Is, Rotating
      <4> QED BY <2>1, <3>1, <4>2 DEF Contended
    <3> QED BY <2>1, <3>1, <3>2, <3>3 DEF RotationInv, NoneBeside
  <2> QED BY <2>2, <2>3
<1> QED BY <1>3, <1>4, <1>5, <1>6, <1>7, <1>8 DEF RotationInv

\* A new row: of a new session, or in place of the token of r.
LEMMA NewRowKeeps ==
  ASSUME RotationInv, TypeInv', NEW r \in Requests, call[r].at = "issue", NewRow(r),
         NEW n, Answers(r, n), users' = users, faults' \in 0..MaxFaults,
         UNCHANGED <<callerVars, revoked, lapsed, stale, histVars>>
  PROVE  RotationInv'
<1> DEFINE t == call[r].token
           new == issued + 1
<1>0. TypeInv /\ TypeInv' /\ issued \in Nat /\ DataTyped /\ doubled' = doubled /\ ended' = ended
  BY CallFields DEF RotationInv, TypeInv, histVars
<1>1. /\ issued' = new /\ call[r].op \in {"sign", "refresh"}
      /\ session' = [session EXCEPT ![new] = IF call[r].op = "sign" THEN new ELSE session[t]]
  BY <1>0, NewRowTyped
<1>2. /\ \A m \in 1..issued' : m # new => m \in 1..issued
      /\ \A m \in 1..issued : m # new /\ session'[m] = session[m] /\ session[m] # new
      /\ new \in 1..issued' /\ new \notin revoked /\ new \notin doubled /\ new \notin ended
      /\ session'[new] = IF call[r].op = "sign" THEN new ELSE session[t]
      /\ \A m : Valid(m)' <=> Valid(m)
  <2>1. new \in Ids /\ session = [m \in Ids |-> session[m]]
    BY <1>0, <1>1 DEF TypeInv, DataTyped
  <2>3. new \notin 1..issued /\ \A m \in 1..issued' : m # new => m \in 1..issued
    BY <1>0, <1>1
  <2>2. \A m \in 1..issued : m \in Ids /\ m # new /\ session[m] # new
    <3>1. issued \in 0..MaxTokens /\ MaxTokens \in Nat /\ \A m \in 1..issued : session[m] \in 1..issued
      BY <1>0, SessionAssumption DEF DataTyped, Ids
    <3>2. \A m \in 1..issued : m \in Ids
      BY <3>1 DEF Ids
    <3> QED BY <2>3, <3>1, <3>2
  <2>4. new \in 1..issued'
    BY <1>0, <1>1
  <2> QED BY <1>0, <1>1, <2>1, <2>2, <2>3, <2>4 DEF DataTyped, Valid
<1>3. /\ call'[r] = [op |-> call[r].op, at |-> "answer", token |-> 0,
                     user |-> call[r].user, got |-> n, bearer |-> call[r].bearer]
      /\ Others(r)
  BY <1>0, CallAnswered
<1>4. /\ \A s \in Requests : s # r => call'[s] = call[s]
      /\ \A s \in Requests : Rotating(s)' => s # r /\ Rotating(s)
      /\ \A s \in Requests : Is(s, "refresh", "issue")' => s # r /\ Is(s, "refresh", "issue")
  <2>1. \A s \in Requests : s # r => call'[s] = call[s]
    BY <1>3 DEF Others
  <2>2. ~Rotating(r)' /\ ~Is(r, "refresh", "issue")'
    BY <1>3 DEF Rotating, Is
  <2> QED BY <2>1, <2>2 DEF Rotating, Is
<1>5. \A s \in Requests : Rotating(s)' => /\ Family(s)' = Family(s) /\ Family(s) # new
                                          /\ call[s].token # new /\ call'[s].token = call[s].token
  <2> SUFFICES ASSUME NEW s \in Requests, Rotating(s)'
               PROVE  /\ Family(s)' = Family(s) /\ Family(s) # new
                      /\ call[s].token # new /\ call'[s].token = call[s].token
    OBVIOUS
  <2>1. call[s].token \in 1..issued /\ call'[s] = call[s]
    BY <1>0, <1>4, RotatingToken
  <2> QED BY <1>2, <2>1 DEF Family
\* What r leaves to its new token.
<1>6. ASSUME call[r].op = "refresh"
      PROVE  /\ Rotating(r) /\ t \in revoked /\ session'[new] = Family(r)
             /\ Family(r) \notin ended \ doubled
  <2>1. Rotating(r) /\ Is(r, "refresh", "issue")
    BY <1>6 DEF Rotating, Is
  <2> QED BY <1>2, <1>6, <2>1 DEF RotationInv, GivenUp, NoneAfterLogout, Family
<1>7. GivenUp'
  BY <1>4 DEF RotationInv, GivenUp
<1>8. ASSUME NEW m \in 1..issued, Valid(m), session[m] = session'[new]
      PROVE  session[m] \in doubled
  <2>1. call[r].op = "refresh"
    BY <1>1, <1>2, <1>8
  <2>2. m # t
    BY <1>6, <1>8, <2>1 DEF Valid
  <2> QED BY <1>6, <1>8, <2>1, <2>2 DEF RotationInv, NoneBeside
<1>9. OneTokenPerSession'
  <2> SUFFICES ASSUME NEW k \in 1..issued', NEW m \in 1..issued', k # m, Valid(k), Valid(m),
                      session'[k] = session'[m]
               PROVE  session'[m] \in doubled
    BY <1>0, <1>2 DEF OneTokenPerSession
  <2>1. CASE k # new /\ m # new
    BY <1>2, <2>1 DEF RotationInv, OneTokenPerSession
  <2>2. CASE k = new
    BY <1>2, <1>8, <2>2
  <2>3. CASE m = new
    BY <1>2, <1>8, <2>3
  <2> QED BY <2>1, <2>2, <2>3
<1>10. NoneBeside'
  <2> SUFFICES ASSUME NEW s \in Requests, NEW m \in 1..issued', Rotating(s)', Valid(m),
                      m # call'[s].token, session'[m] = Family(s)'
               PROVE  Family(s) \in doubled
    BY <1>0, <1>2, <1>5 DEF NoneBeside
  <2>1. CASE m # new
    BY <1>2, <1>4, <1>5, <2>1 DEF RotationInv, NoneBeside
  <2>2. CASE m = new
    <3>1. call[r].op = "refresh"
      BY <1>1, <1>2, <1>5, <2>2
    <3> QED BY <1>4, <1>5, <1>6, <2>2, <3>1 DEF RotationInv, OneRotation
  <2> QED BY <2>1, <2>2
<1>11. OneRotation'
  BY <1>0, <1>4, <1>5 DEF RotationInv, OneRotation
<1>12. LogoutEndsSession'
  <2> SUFFICES ASSUME NEW m \in 1..issued', Valid(m), session'[m] \in ended
               PROVE  session'[m] \in doubled
    BY <1>0, <1>2 DEF LogoutEndsSession
  <2>1. CASE m # new
    BY <1>2, <2>1 DEF RotationInv, LogoutEndsSession
  <2>2. CASE m = new
    BY <1>1, <1>2, <1>6, <2>2
  <2> QED BY <2>1, <2>2
<1>13. NoneAfterLogout'
  BY <1>0, <1>4, <1>5 DEF RotationInv, NoneAfterLogout
<1> QED BY <1>0, <1>7, <1>9, <1>10, <1>11, <1>12, <1>13 DEF RotationInv

LEMMA RotationInvInit == Init => RotationInv
<1> SUFFICES ASSUME Init PROVE RotationInv
  OBVIOUS
<1>1. TypeInv
  BY TypeInvInit
<1>2. 1..issued = {} /\ \A r \in Requests : call[r].op = "none"
  BY DEF Init, NoCall
<1> QED BY <1>1, <1>2 DEF RotationInv, GivenUp, OneTokenPerSession, NoneBeside, OneRotation,
      LogoutEndsSession, NoneAfterLogout, Rotating, Is

LEMMA RotationInvStep == RotationInv /\ [Next]_vars => RotationInv'
<1> SUFFICES ASSUME RotationInv, [Next]_vars PROVE RotationInv'
  OBVIOUS
<1> USE DEF tokenVars, histVars
<1>0. TypeInv /\ TypeInv' /\ MaxFaults \in Nat
  BY TypeInvStep, SessionAssumption DEF RotationInv
<1>r. \A n : revoked \subseteq Revoked(n)
  BY DEF Revoked
<1>f. faults \in 0..MaxFaults /\ (Fault => faults' \in 0..MaxFaults)
  BY <1>0 DEF TypeInv, DataTyped, Fault
\* A call that begins does not begin as a rotation.
<1>b. ASSUME NEW r \in Requests, NEW op, NEW at, NEW token, NEW user, NEW bearer,
             Begins(r, op, at, token, user, bearer),
             op # "refresh" \/ at = "find"
      PROVE  Others(r) /\ ~Rotating(r)'
  <2>1. /\ call'[r] = [op |-> op, at |-> at, token |-> token, user |-> user, got |-> 0,
                       bearer |-> bearer]
        /\ Others(r)
    BY <1>0, <1>b, CallBegins
  <2> QED BY <1>b, <2>1 DEF Rotating
<1>a. ASSUME NEW r \in Requests, NEW n, Answers(r, n)
      PROVE  Others(r) /\ ~Rotating(r)'
  <2>1. /\ call'[r] = [op |-> call[r].op, at |-> "answer", token |-> 0,
                       user |-> call[r].user, got |-> n, bearer |-> call[r].bearer]
        /\ Others(r)
    BY <1>0, <1>a, CallAnswered
  <2> QED BY <2>1 DEF Rotating
<1>e. ASSUME NEW r \in Requests, Ends(r)
      PROVE  Others(r) /\ ~Rotating(r)'
  BY <1>0, <1>e, CallEnds DEF Rotating, NoCall
<1>1. ASSUME NEW r \in Requests, Send(r) PROVE RotationInv'
  BY <1>0, <1>1, <1>b, QuietCall DEF Send
<1>2. ASSUME NEW r \in Requests, Answered(r) PROVE RotationInv'
  BY <1>0, <1>2, <1>e, QuietCall DEF Answered
<1>3. ASSUME NEW r \in Requests, Unauthorized(r) PROVE RotationInv'
  BY <1>0, <1>3, <1>b, QuietCall DEF Unauthorized
<1>4. ASSUME NEW r \in Requests, CallRefresh(r) PROVE RotationInv'
  BY <1>0, <1>4, <1>b, QuietCall DEF CallRefresh
<1>5. ASSUME NEW r \in Requests, Find(r) PROVE RotationInv'
  BY <1>0, <1>5, FindKeeps
<1>6. ASSUME NEW r \in Requests, FindNone(r) PROVE RotationInv'
  BY <1>0, <1>6, <1>a, QuietCall DEF FindNone
<1>7. ASSUME NEW r \in Requests, Revoke(r) PROVE RotationInv'
  <2>1. /\ call'[r] = [op |-> call[r].op, at |-> "issue", token |-> call[r].token,
                       user |-> call[r].user, got |-> call[r].got, bearer |-> call[r].bearer]
        /\ Others(r)
    BY <1>0, <1>7, CallGoesOn DEF Revoke
  <2>2. Is(r, "refresh", "revoke") /\ call[r].token \in Revoked(call[r].token)
    BY <1>0, <1>7, CallFields DEF Revoke, Is, Revoked
  <2>3. Rotating(r) /\ call'[r].token = call[r].token /\ call[r].token \in revoked'
    BY <1>7, <2>1, <2>2 DEF Revoke, Is, Rotating
  <2>4. \A s \in Requests : s # r => call'[s] = call[s]
    BY <2>1 DEF Others
  <2>5. \A s \in Requests :
          Rotating(s)' =>
            /\ Rotating(s) /\ call'[s].token = call[s].token
            /\ Is(s, "refresh", "issue")' /\ ~Is(s, "refresh", "issue") =>
                 call[s].token \in revoked'
    BY <2>3, <2>4 DEF Rotating, Is
  <2>6. Quiet
    BY <1>7, <1>r, <2>5 DEF Revoke, Quiet
  <2> QED BY <1>0, <2>6, QuietStep
<1>8. ASSUME NEW r \in Requests, RevokeFails(r) PROVE RotationInv'
  <2>1. revoked \subseteq revoked'
    BY <1>8, <1>r DEF RevokeFails
  <2> QED BY <1>0, <1>8, <1>a, <2>1, QuietCall DEF RevokeFails
<1>9. ASSUME NEW r \in Requests, Issue(r) PROVE RotationInv'
  <2>1. faults' \in 0..MaxFaults
    BY <1>9, <1>f DEF Issue
  <2> QED BY <1>0, <1>9, <2>1, NewRowKeeps DEF Issue
<1>10. ASSUME NEW r \in Requests, IssueFails(r) PROVE RotationInv'
  <2>1. CASE NewRow(r)
    BY <1>0, <1>10, <1>f, <2>1, NewRowKeeps DEF IssueFails
  <2>2. CASE UNCHANGED <<issued, owner, session>>
    BY <1>0, <1>10, <1>a, <2>2, QuietCall DEF IssueFails
  <2> QED BY <1>10, <2>1, <2>2 DEF IssueFails
<1>11. ASSUME NEW r \in Requests, Signed(r) PROVE RotationInv'
  BY <1>0, <1>11, <1>e, QuietCall DEF Signed
<1>12. ASSUME NEW r \in Requests, Refreshed(r) PROVE RotationInv'
  BY <1>0, <1>12, <1>e, QuietCall DEF Refreshed
<1>13. ASSUME NEW r \in Requests, Refused(r) PROVE RotationInv'
  BY <1>0, <1>13, <1>e, QuietCall DEF Refused
<1>14. ASSUME NEW r \in Requests, AnswerLost(r) PROVE RotationInv'
  BY <1>0, <1>14, <1>e, QuietCall DEF AnswerLost
<1>15. ASSUME NEW r \in Requests, NEW e \in Emails, SignUp(r, e) PROVE RotationInv'
  BY <1>0, <1>15, <1>b, QuietCall DEF SignUp
<1>16. ASSUME NEW r \in Requests, NEW e \in Emails, SignUpFails(r, e) PROVE RotationInv'
  <2>1. Quiet
    BY <1>16 DEF SignUpFails, Quiet, Rotating, Is
  <2> QED BY <1>0, <2>1, QuietStep
<1>17. ASSUME NEW r \in Requests, NEW e \in Emails, SignIn(r, e) PROVE RotationInv'
  BY <1>0, <1>17, <1>b, QuietCall DEF SignIn
<1>18. ASSUME NEW r \in Requests, Logout(r) PROVE RotationInv'
  BY <1>0, <1>18, <1>b, QuietCall DEF Logout
<1>19. ASSUME NEW r \in Requests, LogoutRevoke(r) PROVE RotationInv'
  BY <1>0, <1>19, LogoutKeeps
<1>20. ASSUME NEW r \in Requests, LogoutRevokeFails(r) PROVE RotationInv'
  BY <1>0, <1>20, <1>a, QuietCall DEF LogoutRevokeFails
<1>21. ASSUME NEW n \in Ids, AccessExpires(n) PROVE RotationInv'
  <2>1. Quiet
    BY <1>21 DEF AccessExpires, Quiet, Rotating, Is
  <2> QED BY <1>0, <2>1, QuietStep
<1>22. ASSUME NEW n \in Ids, RefreshLapses(n) PROVE RotationInv'
  <2>1. Quiet
    BY <1>22 DEF RefreshLapses, Quiet, Rotating, Is
  <2> QED BY <1>0, <2>1, QuietStep
<1>23. CASE UNCHANGED vars
  <2>1. Quiet
    BY <1>23 DEF vars, Quiet, Rotating, Is
  <2> QED BY <1>0, <2>1, QuietStep
<1> QED
  BY <1>1, <1>2, <1>3, <1>4, <1>5, <1>6, <1>7, <1>8, <1>9, <1>10, <1>11, <1>12, <1>13, <1>14,
     <1>15, <1>16, <1>17, <1>18, <1>19, <1>20, <1>21, <1>22, <1>23 DEF Next

\* Of the refresh tokens that go back to one sign-in at most one is accepted,
\* unless two refreshes found one token valid before either had revoked it.
THEOREM RotationKeepsOneToken == Spec => []OneTokenPerSession
<1>1. Init => RotationInv
  BY RotationInvInit
<1>2. RotationInv /\ [Next]_vars => RotationInv'
  BY RotationInvStep
<1>3. RotationInv => OneTokenPerSession
  BY DEF RotationInv
<1> QED BY <1>1, <1>2, <1>3, PTL DEF Spec

\* Once a valid token is logged out, no token that goes back to its sign-in is
\* accepted, unless a refresh was between its query and its update then, or
\* two refreshes had doubled the session.
THEOREM LogoutIsFinal == Spec => []LogoutEndsSession
<1>1. Init => RotationInv
  BY RotationInvInit
<1>2. RotationInv /\ [Next]_vars => RotationInv'
  BY RotationInvStep
<1>3. RotationInv => LogoutEndsSession
  BY DEF RotationInv
<1> QED BY <1>1, <1>2, <1>3, PTL DEF Spec

-----------------------------------------------------------------------------
\* A page never has a refresh token to present, and refreshes because of an
\* access token that was refused; an answer is for the user it names.
PageInv ==
  /\ TypeInv
  /\ \A b \in Pages : jar[b] = {}
  /\ \A r \in Requests :
       r[1] \in Pages /\ call[r].op = "refresh" =>
         call[r].token = 0 /\ call[r].got = 0 /\ call[r].bearer \in stale \cup {0}
  /\ \A r \in Requests : call[r].got # 0 => owner[call[r].got] = call[r].user
  /\ ShownUserIsOwner

\* What a step may do to the calls, and to the rows.
CallsFollow ==
  /\ \A n \in 0..issued : owner'[n] = owner[n]
  /\ stale \subseteq stale'
  /\ \A r \in Requests :
       /\ r[1] \in Pages /\ call'[r].op = "refresh" =>
            call'[r].token = 0 /\ call'[r].got = 0 /\ call'[r].bearer \in stale' \cup {0}
       /\ call'[r].got # 0 => owner'[call'[r].got] = call'[r].user

LEMMA PageFrame ==
  ASSUME PageInv, TypeInv', CallsFollow, \A b \in Pages : jar'[b] = {},
         ShownUserIsOwner'
  PROVE  PageInv'
BY DEF PageInv, CallsFollow

\* The store stays as it is.
LEMMA StoreKept ==
  ASSUME PageInv, CallsFollow, UNCHANGED <<store, shown>>
  PROVE  ShownUserIsOwner'
<1>1. \A b \in Pages : store[b] \in 0..issued
  BY DEF PageInv, TypeInv, DataTyped
<1> QED BY <1>1 DEF PageInv, ShownUserIsOwner, CallsFollow

LEMMA StoreSet ==
  ASSUME PageInv, CallsFollow, NEW c, NEW n \in 0..issued, NEW u, Stores(c, n, u),
         n # 0 => owner[n] = u
  PROVE  ShownUserIsOwner'
<1>1. \A b \in Pages : store[b] \in 0..issued
  BY DEF PageInv, TypeInv, DataTyped
<1> QED BY <1>1 DEF PageInv, ShownUserIsOwner, CallsFollow, Stores

\* Steps of one call, with the call as it is afterwards.
LEMMA CallFollows ==
  ASSUME PageInv, NEW r \in Requests, Others(r), \A n \in 0..issued : owner'[n] = owner[n],
         stale' = stale,
         r[1] \in Pages /\ call'[r].op = "refresh" =>
           call'[r].token = 0 /\ call'[r].got = 0 /\ call'[r].bearer \in stale' \cup {0},
         call'[r].got # 0 => owner'[call'[r].got] = call'[r].user
  PROVE  CallsFollow
<1>1. \A s \in Requests : s # r => call'[s] = call[s]
  BY DEF Others
<1>2. \A s \in Requests : call[s].got \in 0..issued
  BY CallFields DEF PageInv
<1> QED BY <1>1, <1>2 DEF PageInv, CallsFollow

LEMMA JarStays ==
  ASSUME PageInv, NEW r \in Requests,
         jar' = [jar EXCEPT ![r[1]] = @ \cup Delivered(r[1], call[r].got)]
  PROVE  \A b \in Pages : jar'[b] = {}
<1>1. jar = [c \in Callers |-> jar[c]] /\ Pages \subseteq Callers
  BY DEF PageInv, TypeInv, DataTyped, Callers
<1>2. \A b \in Pages : Delivered(b, call[r].got) = {}
  BY DEF Delivered, SetCookieName
<1> QED BY <1>1, <1>2 DEF PageInv

LEMMA PageInvInit == Init => PageInv
<1> SUFFICES ASSUME Init PROVE PageInv
  OBVIOUS
<1>1. TypeInv
  BY TypeInvInit
<1>2. /\ \A r \in Requests : call[r].op = "none" /\ call[r].got = 0
      /\ \A b \in Pages : jar[b] = {} /\ store[b] = 0
  BY DEF Init, NoCall, Callers
<1> QED BY <1>1, <1>2 DEF PageInv, ShownUserIsOwner

LEMMA PageInvStep == PageInv /\ [Next]_vars => PageInv'
<1> SUFFICES ASSUME PageInv, [Next]_vars PROVE PageInv'
  OBVIOUS
<1> USE DEF tokenVars, callerVars, histVars
<1>0. TypeInv /\ TypeInv' /\ DataTyped /\ issued \in Nat /\ 0 \in 0..issued
  <2>1. TypeInv /\ TypeInv'
    BY TypeInvStep DEF PageInv
  <2>2. DataTyped
    BY <2>1 DEF TypeInv
  <2>3. issued \in Nat
    BY <2>2, SessionAssumption DEF DataTyped, Ids
  <2> QED BY <2>1, <2>2, <2>3
<1>p. \A b \in Pages : jar[b] = {} /\ Presents(b) = {0}
  BY DEF PageInv, Presents
\* A call begins, on a page with no refresh token.
<1>b. ASSUME NEW r \in Requests, NEW op, NEW at, NEW n \in Presents(r[1]) \cup {0}, NEW user,
             NEW bearer, Begins(r, op, at, n, user, bearer), UNCHANGED <<owner, stale>>,
             r[1] \in Pages /\ op = "refresh" => bearer \in stale \cup {0}
      PROVE  CallsFollow
  <2>1. /\ call'[r] = [op |-> op, at |-> at, token |-> n, user |-> user, got |-> 0,
                       bearer |-> bearer]
        /\ Others(r)
    BY <1>0, <1>b, CallBegins
  <2>2. r[1] \in Pages /\ call'[r].op = "refresh" =>
          call'[r].token = 0 /\ call'[r].got = 0 /\ call'[r].bearer \in stale' \cup {0}
    BY <1>b, <1>p, <2>1
  <2>3. call'[r].got = 0
    BY <2>1
  <2> QED BY <1>b, <2>1, <2>2, <2>3, CallFollows
\* A call goes on as a refresh of a token, which no page has.
<1>g. ASSUME NEW r \in Requests, call[r].op = "refresh", call[r].token # 0
      PROVE  r[1] \notin Pages
  BY <1>g DEF PageInv
<1>a. ASSUME NEW r \in Requests, Answers(r, 0), \A n \in 0..issued : owner'[n] = owner[n],
             stale' = stale
      PROVE  CallsFollow
  <2>1. /\ call'[r] = [op |-> call[r].op, at |-> "answer", token |-> 0,
                       user |-> call[r].user, got |-> 0, bearer |-> call[r].bearer]
        /\ Others(r)
    BY <1>0, <1>a, CallAnswered
  <2>2. r[1] \in Pages /\ call[r].op = "refresh" => call[r].bearer \in stale \cup {0}
    BY DEF PageInv
  <2>3. r[1] \in Pages /\ call'[r].op = "refresh" =>
          call'[r].token = 0 /\ call'[r].got = 0 /\ call'[r].bearer \in stale' \cup {0}
    BY <1>a, <2>1, <2>2
  <2>4. call'[r].got = 0
    BY <2>1
  <2> QED BY <1>a, <2>1, <2>3, <2>4, CallFollows
<1>e. ASSUME NEW r \in Requests, Ends(r), UNCHANGED <<owner, stale>>
      PROVE  CallsFollow
  <2>1. call'[r] = NoCall /\ Others(r)
    BY <1>0, <1>e, CallEnds
  <2>2. call'[r].op = "none" /\ call'[r].got = 0
    BY <2>1 DEF NoCall
  <2> QED BY <1>e, <2>1, <2>2, CallFollows
<1>q. ASSUME call' = call, owner' = owner, stale \subseteq stale'
      PROVE  CallsFollow
  BY <1>q DEF PageInv, CallsFollow
<1>k. ASSUME CallsFollow, UNCHANGED <<jar, store, shown>> PROVE PageInv'
  BY <1>0, <1>k, <1>p, StoreKept, PageFrame
<1>1. ASSUME NEW r \in Requests, Send(r) PROVE PageInv'
  BY <1>1, <1>b, <1>k DEF Send
<1>2. ASSUME NEW r \in Requests, Answered(r) PROVE PageInv'
  BY <1>2, <1>e, <1>k DEF Answered
<1>3. ASSUME NEW r \in Requests, Unauthorized(r) PROVE PageInv'
  <2>1. call[r].bearer \in stale \cup {0}
    BY <1>3 DEF Unauthorized, Accepted
  <2> QED BY <1>3, <1>b, <1>k, <2>1 DEF Unauthorized
<1>4. ASSUME NEW r \in Requests, CallRefresh(r) PROVE PageInv'
  <2>1. r[1] \notin Pages
    BY <1>4, SessionAssumption DEF CallRefresh
  <2> QED BY <1>4, <1>b, <1>k, <2>1 DEF CallRefresh
<1>5. ASSUME NEW r \in Requests, Find(r) PROVE PageInv'
  <2>1. call[r].op = "refresh" /\ call[r].at = "find" /\ call[r].token # 0 /\ call[r].got = 0
    BY <1>0, <1>5, CallFields DEF Find, Is, Valid
  <2>2. /\ call'[r] = [op |-> call[r].op, at |-> "revoke", token |-> call[r].token,
                       user |-> owner[call[r].token], got |-> call[r].got,
                       bearer |-> call[r].bearer]
        /\ Others(r)
    BY <1>0, <1>5, CallFound DEF Find
  <2>3. call'[r].got = 0 /\ r[1] \notin Pages
    BY <1>g, <2>1, <2>2
  <2>4. CallsFollow
    BY <1>5, <2>2, <2>3, CallFollows DEF Find
  <2> QED BY <1>5, <1>k, <2>4 DEF Find
<1>6. ASSUME NEW r \in Requests, FindNone(r) PROVE PageInv'
  BY <1>6, <1>a, <1>k DEF FindNone
<1>7. ASSUME NEW r \in Requests, Revoke(r) PROVE PageInv'
  <2>1. call[r].op = "refresh" /\ call[r].at = "revoke" /\ call[r].token # 0 /\ call[r].got = 0
    BY <1>0, <1>7, CallFields DEF Revoke, Is
  <2>2. /\ call'[r] = [op |-> call[r].op, at |-> "issue", token |-> call[r].token,
                       user |-> call[r].user, got |-> call[r].got, bearer |-> call[r].bearer]
        /\ Others(r)
    BY <1>0, <1>7, CallGoesOn DEF Revoke
  <2>3. call'[r].got = 0 /\ r[1] \notin Pages
    BY <1>g, <2>1, <2>2
  <2>4. CallsFollow
    BY <1>7, <2>2, <2>3, CallFollows DEF Revoke
  <2> QED BY <1>7, <1>k, <2>4 DEF Revoke
<1>8. ASSUME NEW r \in Requests, RevokeFails(r) PROVE PageInv'
  BY <1>8, <1>a, <1>k DEF RevokeFails
<1>n. ASSUME NEW r \in Requests, NewRow(r)
      PROVE  /\ issued' = issued + 1 /\ owner'[issued'] = call[r].user
             /\ \A n \in 0..issued : owner'[n] = owner[n]
  <2>1. owner = [n \in Ids |-> owner[n]] /\ owner' = [owner EXCEPT ![issued + 1] = call[r].user]
    BY <1>0, <1>n DEF DataTyped, NewRow
  <2>2. issued' = issued + 1 /\ issued + 1 \in Ids /\ issued + 1 \notin 0..issued
        /\ 0..issued \subseteq Ids
    BY <1>0, <1>n, SessionAssumption DEF NewRow, Ids
  <2> QED BY <2>1, <2>2
<1>9. ASSUME NEW r \in Requests, Issue(r) PROVE PageInv'
  <2>1. call[r].at = "issue" /\ NewRow(r) /\ Answers(r, issued') /\ stale' = stale
    BY <1>9 DEF Issue, NewRow
  <2>2. /\ call'[r] = [op |-> call[r].op, at |-> "answer", token |-> 0,
                       user |-> call[r].user, got |-> issued', bearer |-> call[r].bearer]
        /\ Others(r)
    BY <1>0, <2>1, CallAnswered
  <2>3. call[r].op = "refresh" => call[r].token # 0
    BY <1>0, <2>1, CallFields
  <2>4. r[1] \in Pages => call'[r].op # "refresh"
    BY <1>g, <2>2, <2>3
  <2>5. owner'[call'[r].got] = call'[r].user
    BY <1>n, <2>1, <2>2
  <2>6. CallsFollow
    BY <1>n, <2>1, <2>2, <2>4, <2>5, CallFollows
  <2> QED BY <1>9, <1>k, <2>6 DEF Issue
<1>10. ASSUME NEW r \in Requests, IssueFails(r) PROVE PageInv'
  <2>1. \A n \in 0..issued : owner'[n] = owner[n]
    BY <1>10, <1>n DEF IssueFails
  <2> QED BY <1>10, <1>a, <1>k, <2>1 DEF IssueFails
<1>11. ASSUME NEW r \in Requests, Signed(r) PROVE PageInv'
  <2>1. CallsFollow
    BY <1>11, <1>e DEF Signed
  <2>2. call[r].got \in 0..issued /\ owner[call[r].got] = call[r].user
    BY <1>0, <1>11, CallFields DEF Signed, PageInv
  <2>3. ShownUserIsOwner'
    BY <1>11, <2>1, <2>2, StoreSet DEF Signed
  <2> QED BY <1>0, <1>11, <2>1, <2>3, JarStays, PageFrame DEF Signed
<1>12. ASSUME NEW r \in Requests, Refreshed(r) PROVE PageInv'
  <2>1. CallsFollow
    BY <1>12, <1>e DEF Refreshed
  <2>2. r[1] \notin Pages
    BY <1>12 DEF Refreshed, Is, PageInv
  <2>3. store' = store
    BY <1>0, <1>12, <2>2 DEF Refreshed, DataTyped
  <2>4. ShownUserIsOwner'
    BY <1>12, <2>1, <2>3, StoreKept DEF Refreshed
  <2> QED BY <1>0, <1>12, <2>1, <2>4, JarStays, PageFrame DEF Refreshed
<1>13. ASSUME NEW r \in Requests, Refused(r) PROVE PageInv'
  <2>1. CallsFollow
    BY <1>13, <1>e DEF Refused
  <2>2. ShownUserIsOwner'
    BY <1>0, <1>13, <2>1, StoreKept, StoreSet DEF Refused
  <2> QED BY <1>0, <1>13, <1>p, <2>1, <2>2, PageFrame DEF Refused
<1>14. ASSUME NEW r \in Requests, AnswerLost(r) PROVE PageInv'
  <2>1. CallsFollow
    BY <1>14, <1>e DEF AnswerLost
  <2>2. ShownUserIsOwner'
    BY <1>0, <1>14, <2>1, StoreKept, StoreSet DEF AnswerLost
  <2> QED BY <1>0, <1>14, <1>p, <2>1, <2>2, PageFrame DEF AnswerLost
<1>15. ASSUME NEW r \in Requests, NEW e \in Emails, SignUp(r, e) PROVE PageInv'
  BY <1>15, <1>b, <1>k DEF SignUp
<1>16. ASSUME NEW r \in Requests, NEW e \in Emails, SignUpFails(r, e) PROVE PageInv'
  BY <1>16, <1>q, <1>k DEF SignUpFails
<1>17. ASSUME NEW r \in Requests, NEW e \in Emails, SignIn(r, e) PROVE PageInv'
  BY <1>17, <1>b, <1>k DEF SignIn
<1>18. ASSUME NEW r \in Requests, Logout(r) PROVE PageInv'
  BY <1>18, <1>b, <1>k DEF Logout
<1>19. ASSUME NEW r \in Requests, LogoutRevoke(r) PROVE PageInv'
  BY <1>19, <1>a, <1>k DEF LogoutRevoke
<1>20. ASSUME NEW r \in Requests, LogoutRevokeFails(r) PROVE PageInv'
  BY <1>20, <1>a, <1>k DEF LogoutRevokeFails
<1>21. ASSUME NEW n \in Ids, AccessExpires(n) PROVE PageInv'
  BY <1>21, <1>q, <1>k DEF AccessExpires
<1>22. ASSUME NEW n \in Ids, RefreshLapses(n) PROVE PageInv'
  BY <1>22, <1>q, <1>k DEF RefreshLapses
<1>23. CASE UNCHANGED vars
  BY <1>23, <1>q, <1>k DEF vars
<1> QED
  BY <1>1, <1>2, <1>3, <1>4, <1>5, <1>6, <1>7, <1>8, <1>9, <1>10, <1>11, <1>12, <1>13, <1>14,
     <1>15, <1>16, <1>17, <1>18, <1>19, <1>20, <1>21, <1>22, <1>23 DEF Next

\* A page shows the user whose access token it sends, in whatever order its
\* calls are answered: no refresh of a page is ever granted.
THEOREM ShownUserIsRight == Spec => []ShownUserIsOwner
<1>1. Init => PageInv
  BY PageInvInit
<1>2. PageInv /\ [Next]_vars => PageInv'
  BY PageInvStep
<1>3. PageInv => ShownUserIsOwner
  BY DEF PageInv
<1> QED BY <1>1, <1>2, <1>3, PTL DEF Spec

\* A page loses a session only while it logs out, when the access token has
\* expired, or to the late answer of a request with another token.
LEMMA SessionEndsStep ==
  PageInv /\ [Next]_vars =>
    [\A b \in Pages :
       store[b] # 0 /\ store'[b] = 0 =>
         \/ store[b] \in stale
         \/ \E s \in PageSlots :
              \/ call[<<b, s>>].op = "logout"
              \/ call[<<b, s>>].op = "refresh" /\ call[<<b, s>>].bearer # store[b]]_vars
<1> SUFFICES ASSUME PageInv, Next, NEW b \in Pages, store[b] # 0, store'[b] = 0
             PROVE  \/ store[b] \in stale
                    \/ \E s \in PageSlots :
                         \/ call[<<b, s>>].op = "logout"
                         \/ call[<<b, s>>].op = "refresh" /\ call[<<b, s>>].bearer # store[b]
  BY DEF vars
<1> USE DEF tokenVars, callerVars
<1>0. TypeInv
  BY DEF PageInv
<1>1. ASSUME store' = store PROVE FALSE
  BY <1>1
<1>2. ASSUME NEW r \in Requests, NEW n, n # 0, Stores(r[1], n, call[r].user) PROVE FALSE
  BY <1>2 DEF Stores
<1>3. ASSUME NEW r \in Requests, Refreshed(r) PROVE FALSE
  BY <1>3 DEF Refreshed
<1>4. ASSUME NEW r \in Requests, Stores(r[1], 0, NoUser), call[r].op \in {"refresh", "logout"}
      PROVE  \/ store[b] \in stale
             \/ \E s \in PageSlots :
                  \/ call[<<b, s>>].op = "logout"
                  \/ call[<<b, s>>].op = "refresh" /\ call[<<b, s>>].bearer # store[b]
  <2>1. r[1] = b
    BY <1>4 DEF Stores
  <2>2. r = <<b, r[2]>> /\ r[2] \in PageSlots
    BY <2>1, SessionAssumption DEF Requests
  <2>3. call[r].op = "refresh" => call[r].bearer \in stale \cup {0}
    BY <2>1 DEF PageInv
  <2> QED BY <1>4, <2>2, <2>3
<1>5. ASSUME NEW r \in Requests, Refused(r), store' # store
      PROVE  Stores(r[1], 0, NoUser) /\ call[r].op \in {"refresh", "logout"}
  <2>1. call[r].at = "answer" /\ call[r].op # "sign" /\ Stores(r[1], 0, NoUser)
    BY <1>5 DEF Refused
  <2> QED BY <1>0, <2>1, CallFields DEF Stages
<1>6. ASSUME NEW r \in Requests, AnswerLost(r), store' # store
      PROVE  Stores(r[1], 0, NoUser) /\ call[r].op \in {"refresh", "logout"}
  BY <1>6 DEF AnswerLost
<1>7. ASSUME NEW r \in Requests, Signed(r) PROVE FALSE
  BY <1>2, <1>7 DEF Signed
<1> QED
  BY <1>1, <1>3, <1>4, <1>5, <1>6, <1>7 DEF Next, Send, Answered, Unauthorized, CallRefresh, Find,
     FindNone, Revoke, RevokeFails, Issue, IssueFails, SignUp, SignUpFails, SignIn, Logout,
     LogoutRevoke, LogoutRevokeFails, AccessExpires, RefreshLapses

THEOREM SessionEndsOnlyForCause == Spec => SessionEndsForCause
<1>1. Init => PageInv
  BY PageInvInit
<1>2. PageInv /\ [Next]_vars => PageInv'
  BY PageInvStep
<1>3. PageInv /\ [Next]_vars =>
        [\A b \in Pages :
           store[b] # 0 /\ store'[b] = 0 =>
             \/ store[b] \in stale
             \/ \E s \in PageSlots :
                  \/ call[<<b, s>>].op = "logout"
                  \/ call[<<b, s>>].op = "refresh" /\ call[<<b, s>>].bearer # store[b]]_vars
  BY SessionEndsStep
<1> QED BY <1>1, <1>2, <1>3, PTL DEF Spec, SessionEndsForCause
=============================================================================
