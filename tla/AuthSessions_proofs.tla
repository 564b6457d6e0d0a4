------------------------- MODULE AuthSessions_proofs -------------------------
(***************************************************************************)
(* Theorems about AuthSessions for any users, tokens and number of requests *)
(* in flight, with and without faults.                                      *)
(***************************************************************************)
EXTENDS AuthSessions, TLAPS

\* A record built by a handler is one of the requests.
LEMMA RequestIntro ==
    /\ Idle \in Request
    /\ \A o \in {"check", "rotate", "drop"}, t \in Tokens :
         [op |-> o, token |-> t] \in Request
    /\ \A u \in Users, f \in Tokens \cup {NoToken}, p \in Versions :
         [op |-> "issue", user |-> u, from |-> f, pw |-> p] \in Request
    /\ \A o \in {"kill", "change"}, u \in Users, p \in Versions :
         [op |-> o, user |-> u, pw |-> p] \in Request
BY DEF Request, Idle

\* What the op of a request says of its other fields.
LEMMA RequestElim ==
    ASSUME NEW r \in Request
    PROVE  /\ r.op \in {"check", "rotate", "drop"} => r.token \in Tokens
           /\ r.op = "issue" =>
                r.user \in Users /\ r.from \in Tokens \cup {NoToken} /\ r.pw \in Versions
           /\ r.op \in {"kill", "change"} => r.user \in Users /\ r.pw \in Versions
<1>1. CASE r = Idle
  BY <1>1 DEF Idle
<1>2. CASE r \in [op : {"check", "rotate", "drop"}, token : Tokens]
  BY <1>2
<1>3. CASE r \in [op : {"issue"}, user : Users, from : Tokens \cup {NoToken}, pw : Versions]
  BY <1>3
<1>4. CASE r \in [op : {"kill", "change"}, user : Users, pw : Versions]
  BY <1>4
<1> QED BY <1>1, <1>2, <1>3, <1>4 DEF Request

\* The tokens that in-flight requests name have been issued: what Rotate reads
\* from the row of its token has a type only then.
NamedIssued ==
    \A w \in Workers :
        /\ req[w].op \in {"check", "rotate", "drop"} => Issued(req[w].token)
        /\ req[w].op = "issue" /\ req[w].from # NoToken => Issued(req[w].from)

TypeInv == TypeOK /\ NamedIssued

\* The database before the first login is well formed.
LEMMA InitType == Init => TypeInv
<1> SUFFICES ASSUME Init PROVE TypeInv
  OBVIOUS
<1> USE SessionAssumption
<1>1. Idle \in Request /\ 0 \in Versions
  BY RequestIntro DEF Versions
<1>2. TypeOK
  BY <1>1 DEF Init, TypeOK
<1>3. NamedIssued
  BY DEF Init, NamedIssued, Idle
<1> QED BY <1>2, <1>3 DEF TypeInv

\* The request moves on and no row is touched.
LEMMA ProceedType ==
    ASSUME TypeInv, NEW w \in Workers, NEW r \in Request, Proceed(w, r),
           r.op \in {"check", "rotate", "drop"} => Issued(r.token),
           r.op = "issue" /\ r.from # NoToken => Issued(r.from),
           UNCHANGED <<tableVars, parent, login, verified, killed, floor>>
    PROVE  TypeInv'
<1>1. TypeOK'
  BY DEF TypeInv, TypeOK, Proceed, tableVars
<1>2. NamedIssued'
  BY DEF TypeInv, TypeOK, NamedIssued, Proceed, tableVars, Issued
<1> QED BY <1>1, <1>2 DEF TypeInv

\* A request that ends leaves every other request as it is.
LEMMA FinishType ==
    ASSUME TypeInv, NEW w \in Workers, Finish(w)
    PROVE  /\ req' \in [Workers -> Request]
           /\ overtaken' \subseteq Workers
           /\ \A v \in Workers : req'[v] = IF v = w THEN Idle ELSE req[v]
BY RequestIntro DEF TypeInv, TypeOK, Finish

\* Every statement of every handler keeps the tables and the requests well formed,
\* and a request names only tokens that have a row.
LEMMA NextType == TypeInv /\ [Next]_vars => TypeInv'
<1> SUFFICES ASSUME TypeInv, [Next]_vars PROVE TypeInv'
  OBVIOUS
<1> USE SessionAssumption
<1>0. \A u \in Users : password[u] \in Versions /\ 0 \in Versions
  BY DEF TypeInv, TypeOK, Versions
<1>1. ASSUME NEW w \in Workers, NEW u \in Users, LoginRead(w, u) PROVE TypeInv'
  <2>1. [op |-> "issue", user |-> u, from |-> NoToken, pw |-> password[u]] \in Request
    BY <1>0, RequestIntro
  <2> QED BY <1>1, <2>1, ProceedType DEF LoginRead
<1>2. ASSUME NEW w \in Workers, Issue(w) PROVE TypeInv'
  <2> DEFINE r == req[w]
  <2>1. r.user \in Users /\ r.from \in Tokens \cup {NoToken} /\ r.pw \in Versions
    BY <1>2, RequestElim DEF Issue, TypeInv, TypeOK
  <2>2. r.from # NoToken => Issued(r.from) /\ login[r.from] \in Tokens
    BY <1>2, <2>1 DEF Issue, TypeInv, TypeOK, NamedIssued, Issued
  <2>3. PICK t \in Tokens :
          /\ ~Issued(t)
          /\ state' = [state EXCEPT ![t] = "live"]
          /\ owner' = [owner EXCEPT ![t] = r.user]
          /\ parent' = [parent EXCEPT ![t] = r.from]
          /\ login' = [login EXCEPT ![t] = IF r.from = NoToken THEN t ELSE login[r.from]]
          /\ verified' = [verified EXCEPT ![t] = r.pw]
    BY <1>2 DEF Issue
  <2>4. Finish(w)
    BY <1>2 DEF Issue
  <2>5. (IF r.from = NoToken THEN t ELSE login[r.from]) \in Tokens
    BY <2>2
  <2>6. /\ state' \in [Tokens -> {"none", "live", "revoked"}]
        /\ owner' \in [Tokens -> Users \cup {Nobody}]
        /\ parent' \in [Tokens -> Tokens \cup {NoToken}]
        /\ login' \in [Tokens -> Tokens \cup {NoToken}]
        /\ verified' \in [Tokens -> Versions]
    BY <2>1, <2>3, <2>5 DEF TypeInv, TypeOK
  <2>7. \A x \in Tokens : state'[x] # "none" => owner'[x] \in Users /\ login'[x] \in Tokens
    BY <2>1, <2>3, <2>5 DEF TypeInv, TypeOK
  <2>8. TypeOK'
    BY <1>2, <2>4, <2>6, <2>7, FinishType DEF Issue, TypeInv, TypeOK
  <2>9. NamedIssued'
    BY <2>3, <2>4, FinishType DEF TypeInv, TypeOK, NamedIssued, Issued, Idle
  <2> QED BY <2>8, <2>9 DEF TypeInv
<1>3. ASSUME NEW w \in Workers, NEW t \in Tokens, RefreshReuse(w, t) PROVE TypeInv'
  <2>1. owner[t] \in Users
    BY <1>3 DEF RefreshReuse, TypeInv, TypeOK
  <2>2. [op |-> "kill", user |-> owner[t], pw |-> 0] \in Request
    BY <1>0, <2>1, RequestIntro
  <2> QED BY <1>3, <2>2, ProceedType DEF RefreshReuse
<1>4. ASSUME NEW w \in Workers, NEW t \in Tokens, RefreshFound(w, t) PROVE TypeInv'
  <2>1. [op |-> "check", token |-> t] \in Request
    BY RequestIntro
  <2> QED BY <1>4, <2>1, ProceedType DEF RefreshFound, Live, Issued
<1>5. ASSUME NEW w \in Workers, RefreshCheck(w) PROVE TypeInv'
  <2> DEFINE t == req[w].token
  <2>1. t \in Tokens /\ Issued(t)
    BY <1>5, RequestElim DEF RefreshCheck, TypeInv, TypeOK, NamedIssued
  <2>2. CASE active[owner[t]]
    <3>1. [op |-> "rotate", token |-> t] \in Request
      BY <2>1, RequestIntro
    <3> QED BY <1>5, <2>1, <2>2, <3>1, ProceedType DEF RefreshCheck
  <2>3. CASE ~active[owner[t]]
    <3>1. Finish(w) /\ UNCHANGED <<tableVars, parent, login, verified, killed, floor>>
      BY <1>5, <2>3 DEF RefreshCheck
    <3>2. TypeOK'
      BY <3>1, FinishType DEF TypeInv, TypeOK, tableVars
    <3>3. NamedIssued'
      BY <3>1, FinishType DEF TypeInv, NamedIssued, tableVars, Issued, Idle
    <3> QED BY <3>2, <3>3 DEF TypeInv
  <2> QED BY <2>2, <2>3
<1>6. ASSUME NEW w \in Workers, Rotate(w) PROVE TypeInv'
  <2> DEFINE t == req[w].token
             r == [op |-> "issue", user |-> owner[t], from |-> t, pw |-> verified[t]]
  <2>1. t \in Tokens /\ Issued(t)
    BY <1>6, RequestElim DEF Rotate, TypeInv, TypeOK, NamedIssued
  <2>2. owner[t] \in Users /\ verified[t] \in Versions
    BY <2>1 DEF TypeInv, TypeOK, Issued
  <2>3. r \in Request
    BY <2>1, <2>2, RequestIntro
  <2>4. state' = [state EXCEPT ![t] = IF Live(t) THEN "revoked" ELSE @] /\ Proceed(w, r)
    BY <1>6 DEF Rotate, Revoke
  <2>5. /\ state' \in [Tokens -> {"none", "live", "revoked"}]
        /\ \A x \in Tokens : state'[x] = "none" <=> state[x] = "none"
    BY <2>1, <2>4 DEF TypeInv, TypeOK, Live
  <2>6. TypeOK'
    BY <1>6, <2>3, <2>4, <2>5 DEF Rotate, Proceed, TypeInv, TypeOK
  <2>7. NamedIssued'
    <3>1. \A v \in Workers : req'[v] = IF v = w THEN r ELSE req[v]
      BY <2>4 DEF Proceed, TypeInv, TypeOK
    <3>2. \A v \in Workers : req[v] \in Request
      BY DEF TypeInv, TypeOK
    <3> QED BY <2>1, <2>5, <3>1, <3>2, RequestElim DEF TypeInv, NamedIssued, Issued
  <2> QED BY <2>6, <2>7 DEF TypeInv
<1>7. ASSUME NEW w \in Workers, Kill(w) PROVE TypeInv'
  <2> DEFINE u == req[w].user
  <2>1. u \in Users /\ req[w].pw \in Versions
    BY <1>7, RequestElim DEF Kill, TypeInv, TypeOK
  <2>2. /\ state' \in [Tokens -> {"none", "live", "revoked"}]
        /\ \A x \in Tokens : state'[x] = "none" <=> state[x] = "none"
    BY <1>7 DEF Kill, TypeInv, TypeOK, Live
  <2>3. floor' \in [Users -> Versions]
    BY <1>7, <2>1 DEF Kill, TypeInv, TypeOK
  <2>4. req' \in [Workers -> Request] /\ \A v \in Workers : req'[v] = IF v = w THEN Idle ELSE req[v]
    BY <1>7, RequestIntro DEF Kill, TypeInv, TypeOK
  <2>5. killed' \subseteq Tokens /\ overtaken' \subseteq Workers
    BY <1>7 DEF Kill, TypeInv, TypeOK
  <2>6. TypeOK'
    BY <1>7, <2>2, <2>3, <2>4, <2>5 DEF Kill, TypeInv, TypeOK
  <2>7. NamedIssued'
    <3>1. \A v \in Workers : req[v] \in Request
      BY DEF TypeInv, TypeOK
    <3> QED BY <2>2, <2>4, <3>1, RequestElim DEF TypeInv, NamedIssued, Issued, Idle
  <2> QED BY <2>6, <2>7 DEF TypeInv
<1>8. ASSUME NEW w \in Workers, NEW t \in Tokens, LogoutRead(w, t) PROVE TypeInv'
  <2>1. [op |-> "drop", token |-> t] \in Request
    BY RequestIntro
  <2> QED BY <1>8, <2>1, ProceedType DEF LogoutRead
<1>9. ASSUME NEW w \in Workers, LogoutRevoke(w) PROVE TypeInv'
  <2> DEFINE t == req[w].token
  <2>1. t \in Tokens
    BY <1>9, RequestElim DEF LogoutRevoke, TypeInv, TypeOK
  <2>2. /\ state' \in [Tokens -> {"none", "live", "revoked"}]
        /\ \A x \in Tokens : state'[x] = "none" <=> state[x] = "none"
    BY <1>9, <2>1 DEF LogoutRevoke, Revoke, TypeInv, TypeOK, Live
  <2>3. Finish(w)
    BY <1>9 DEF LogoutRevoke
  <2>4. TypeOK'
    BY <1>9, <2>2, <2>3, FinishType DEF LogoutRevoke, TypeInv, TypeOK
  <2>5. NamedIssued'
    <3>1. \A v \in Workers : req[v] \in Request
      BY DEF TypeInv, TypeOK
    <3> QED BY <2>2, <2>3, <3>1, FinishType, RequestElim DEF TypeInv, NamedIssued, Issued, Idle
  <2> QED BY <2>4, <2>5 DEF TypeInv
<1>10. ASSUME NEW w \in Workers, NEW u \in Users, ResetPassword(w, u) PROVE TypeInv'
  <2>1. password[u] + 1 \in Versions
    BY <1>10 DEF ResetPassword, TypeInv, TypeOK, Versions
  <2>2. [op |-> "kill", user |-> u, pw |-> password[u] + 1] \in Request
    BY <2>1, RequestIntro
  <2>3. TypeOK'
    BY <1>10, <2>1, <2>2 DEF ResetPassword, Proceed, TypeInv, TypeOK
  <2>4. NamedIssued'
    BY <1>10, <2>2 DEF ResetPassword, Proceed, TypeInv, TypeOK, NamedIssued, Issued
  <2> QED BY <2>3, <2>4 DEF TypeInv
<1>11. ASSUME NEW w \in Workers, NEW u \in Users, ChangeRead(w, u) PROVE TypeInv'
  <2>1. [op |-> "change", user |-> u, pw |-> password[u]] \in Request
    BY <1>0, RequestIntro
  <2> QED BY <1>11, <2>1, ProceedType DEF ChangeRead
<1>12. ASSUME NEW w \in Workers, ChangeWrite(w) PROVE TypeInv'
  <2> DEFINE u == req[w].user
  <2>1. u \in Users
    BY <1>12, RequestElim DEF ChangeWrite, TypeInv, TypeOK
  <2>2. password[u] + 1 \in Versions
    BY <1>12, <2>1 DEF ChangeWrite, TypeInv, TypeOK, Versions
  <2>3. Finish(w)
    BY <1>12 DEF ChangeWrite
  <2>4. TypeOK'
    BY <1>12, <2>1, <2>2, <2>3, FinishType DEF ChangeWrite, TypeInv, TypeOK
  <2>5. NamedIssued'
    BY <1>12, <2>3, FinishType DEF ChangeWrite, TypeInv, NamedIssued, Issued, Idle
  <2> QED BY <2>4, <2>5 DEF TypeInv
<1>13. ASSUME NEW u \in Users, NEW b \in BOOLEAN, SetActive(u, b) PROVE TypeInv'
  BY <1>13 DEF SetActive, historyVars, TypeInv, TypeOK, NamedIssued, Issued
<1>14. ASSUME NEW t \in Tokens, Expire(t) PROVE TypeInv'
  BY <1>14 DEF Expire, historyVars, TypeInv, TypeOK, NamedIssued, Issued
<1>15. ASSUME NEW w \in Workers, Abort(w) PROVE TypeInv'
  <2>1. Finish(w) /\ UNCHANGED <<tableVars, parent, login, verified, killed, floor>>
    BY <1>15 DEF Abort
  <2>2. TypeOK'
    BY <2>1, FinishType DEF TypeInv, TypeOK, tableVars
  <2>3. NamedIssued'
    BY <2>1, FinishType DEF TypeInv, NamedIssued, tableVars, Issued, Idle
  <2> QED BY <2>2, <2>3 DEF TypeInv
<1>16. CASE UNCHANGED vars
  BY <1>16 DEF vars, tableVars, historyVars, TypeInv, TypeOK, NamedIssued, Issued
<1> QED
  BY <1>1, <1>2, <1>3, <1>4, <1>5, <1>6, <1>7, <1>8, <1>9, <1>10, <1>11, <1>12, <1>13,
     <1>14, <1>15, <1>16 DEF Next

\* Type correctness; in particular a kill always has a user and a rotation
\* always finds the owner of the token it presents.
THEOREM TypeCorrect == Spec => []TypeOK
<1>1. Spec => []TypeInv
  BY InitType, NextType, PTL DEF Spec
<1> QED BY <1>1, PTL DEF TypeInv

\* The strengthening of type correctness that the proofs below build on: an
\* in-flight request names only issued tokens.
THEOREM TypeInvariant == Spec => []TypeInv
BY InitType, NextType, PTL DEF Spec

------------------------------------------------------------------------------
(* Rows and requests that are about the same user *)

\* What the statements rely on besides the types: rows without a token have no
\* owner, rotation stays with its user, passwords only grow, a kill revokes
\* what it meets, and a request that no kill overtook holds nothing a kill met.
Rows ==
    /\ \A t \in Tokens : ~Issued(t) => owner[t] = Nobody
    /\ \A t \in killed : state[t] = "revoked"
    /\ \A u \in Users : floor[u] <= password[u]
    /\ \A t \in Tokens : Issued(t) /\ parent[t] # NoToken =>
         state[parent[t]] = "revoked" /\ owner[parent[t]] = owner[t]

Held(w) ==
    /\ req[w].op = "issue" /\ req[w].from # NoToken =>
         state[req[w].from] = "revoked" /\ owner[req[w].from] = req[w].user
    /\ req[w].op = "kill" => req[w].pw <= password[req[w].user]
    /\ w \notin overtaken =>
         /\ req[w].op \in {"check", "rotate"} => req[w].token \notin killed
         /\ req[w].op = "issue" => req[w].from \notin killed
         /\ req[w].op = "issue" /\ req[w].from = NoToken => req[w].pw >= floor[req[w].user]

SessionInv == Rows /\ \A w \in Workers : Held(w)

\* A statement that only revokes, issues nothing and keeps owners and history.
OnlyRevokes ==
    /\ \A t \in Tokens : state'[t] = state[t] \/ (Live(t) /\ state'[t] = "revoked")
    /\ UNCHANGED <<owner, parent, login, verified>>

LEMMA RowsKept ==
    ASSUME TypeInv, TypeInv', Rows, OnlyRevokes, UNCHANGED <<killed, floor>>,
           \A u \in Users : password'[u] >= password[u]
    PROVE  Rows'
<1>1. /\ \A t \in Tokens : Issued(t)' <=> Issued(t)
      /\ \A t \in Tokens : state[t] = "revoked" => state'[t] = "revoked"
  BY DEF OnlyRevokes, Issued, Live
<1>2. \A t \in Tokens : ~Issued(t)' => owner'[t] = Nobody
  BY <1>1 DEF Rows, OnlyRevokes
<1>3. \A t \in killed' : state'[t] = "revoked"
  BY <1>1 DEF Rows, TypeInv, TypeOK
<1>4. \A u \in Users : floor'[u] <= password'[u]
  <2> SUFFICES ASSUME NEW u \in Users PROVE floor[u] <= password'[u]
    OBVIOUS
  <2>1. floor[u] \in Nat /\ password[u] \in Nat /\ password'[u] \in Nat
    BY DEF TypeInv, TypeOK, Versions
  <2> QED BY <2>1 DEF Rows
<1>5. \A t \in Tokens : Issued(t)' /\ parent'[t] # NoToken =>
        state'[parent'[t]] = "revoked" /\ owner'[parent'[t]] = owner'[t]
  BY <1>1 DEF Rows, OnlyRevokes, TypeInv, TypeOK
<1> QED BY <1>2, <1>3, <1>4, <1>5 DEF Rows

\* Whoever keeps his request keeps what he holds through such a statement.
LEMMA HeldKept ==
    ASSUME TypeInv, TypeInv', OnlyRevokes, UNCHANGED <<killed, floor>>,
           \A u \in Users : password'[u] >= password[u],
           NEW v \in Workers, Held(v), req'[v] = req[v],
           v \notin overtaken' => v \notin overtaken
    PROVE  Held(v)'
<1>1. req[v] \in Request
  BY DEF TypeInv, TypeOK
<1>2. req[v].op = "issue" /\ req[v].from # NoToken =>
        state'[req[v].from] = "revoked" /\ owner'[req[v].from] = req[v].user
  BY <1>1, RequestElim DEF Held, OnlyRevokes, Live
<1>3. req[v].op = "kill" => req[v].pw <= password'[req[v].user]
  <2> SUFFICES ASSUME req[v].op = "kill" PROVE req[v].pw <= password'[req[v].user]
    OBVIOUS
  <2>1. req[v].user \in Users /\ req[v].pw \in Nat
    BY <1>1, RequestElim DEF Versions
  <2>2. password[req[v].user] \in Nat /\ password'[req[v].user] \in Nat
    BY <2>1 DEF TypeInv, TypeOK, Versions
  <2> QED BY <2>1, <2>2 DEF Held
<1> QED BY <1>2, <1>3 DEF Held

\* A request that has ended holds nothing.
LEMMA HeldIdle == ASSUME NEW w \in Workers, req'[w] = Idle PROVE Held(w)'
BY DEF Held, Idle

\* A request proceeds or ends and rows are at most revoked.
LEMMA StepKept ==
    ASSUME TypeInv, TypeInv', SessionInv, OnlyRevokes, UNCHANGED <<killed, floor>>,
           \A u \in Users : password'[u] >= password[u],
           NEW w \in Workers, Held(w)',
           \A v \in Workers \ {w} : req'[v] = req[v] /\ (v \in overtaken' <=> v \in overtaken)
    PROVE  SessionInv'
<1>1. Rows'
  BY RowsKept DEF SessionInv
<1>2. ASSUME NEW v \in Workers PROVE Held(v)'
  <2>1. CASE v = w
    BY <2>1
  <2>2. CASE v # w
    BY <2>2, HeldKept DEF SessionInv
  <2> QED BY <2>1, <2>2
<1> QED BY <1>1, <1>2 DEF SessionInv

\* A step that leaves the tables alone is a special case of one that revokes.
LEMMA SameTables ==
    ASSUME TypeInv, UNCHANGED tableVars, UNCHANGED <<parent, login, verified>>
    PROVE  OnlyRevokes /\ \A u \in Users : password'[u] >= password[u]
BY DEF OnlyRevokes, tableVars, TypeInv, TypeOK, Versions

\* Nothing is issued and nobody holds anything at the start.
LEMMA InitSession == Init => SessionInv
BY SessionAssumption DEF Init, SessionInv, Rows, Held, Issued, Idle

\* Every statement keeps the session invariant: the proof has one step per action.
LEMMA NextSession ==
    TypeInv /\ TypeInv' /\ SessionInv /\ [Next]_vars => SessionInv'
<1> SUFFICES ASSUME TypeInv, TypeInv', SessionInv, [Next]_vars PROVE SessionInv'
  OBVIOUS
<1> USE SessionAssumption
<1>a. \A w \in Workers : req[w] \in Request
  BY DEF TypeInv, TypeOK
<1>b. ASSUME NEW w \in Workers, NEW r, Proceed(w, r)
      PROVE  /\ req'[w] = r
             /\ overtaken' = overtaken
             /\ \A v \in Workers \ {w} :
                  req'[v] = req[v] /\ (v \in overtaken' <=> v \in overtaken)
  BY <1>b DEF Proceed, TypeInv, TypeOK
<1>c. ASSUME NEW w \in Workers, Finish(w)
      PROVE  /\ req'[w] = Idle
             /\ Held(w)'
             /\ \A v \in Workers \ {w} :
                  req'[v] = req[v] /\ (v \in overtaken' <=> v \in overtaken)
  BY <1>c, HeldIdle DEF Finish, TypeInv, TypeOK
<1>1. ASSUME NEW w \in Workers, NEW u \in Users, LoginRead(w, u) PROVE SessionInv'
  <2>1. req'[w] = [op |-> "issue", user |-> u, from |-> NoToken, pw |-> password[u]]
    BY <1>1, <1>b DEF LoginRead
  <2>2. NoToken \notin killed /\ password[u] >= floor[u]
    BY DEF SessionInv, Rows, TypeInv, TypeOK, Versions
  <2>3. Held(w)'
    BY <1>1, <2>1, <2>2 DEF LoginRead, Held, tableVars
  <2>4. OnlyRevokes /\ \A x \in Users : password'[x] >= password[x]
    BY <1>1, SameTables DEF LoginRead
  <2> QED BY <1>1, <1>b, <2>3, <2>4, StepKept DEF LoginRead
<1>2. ASSUME NEW w \in Workers, Issue(w) PROVE SessionInv'
  <2> DEFINE r == req[w]
  <2>1. r.user \in Users /\ r.from \in Tokens \cup {NoToken} /\ r.pw \in Versions
    BY <1>2, <1>a, RequestElim DEF Issue
  <2>2. PICK t \in Tokens :
          /\ ~Issued(t)
          /\ state' = [state EXCEPT ![t] = "live"]
          /\ owner' = [owner EXCEPT ![t] = r.user]
          /\ parent' = [parent EXCEPT ![t] = r.from]
          /\ verified' = [verified EXCEPT ![t] = r.pw]
    BY <1>2 DEF Issue
  <2>3. /\ state'[t] = "live" /\ owner'[t] = r.user /\ parent'[t] = r.from
        /\ \A x \in Tokens \ {t} :
             state'[x] = state[x] /\ owner'[x] = owner[x] /\ parent'[x] = parent[x]
    BY <2>2 DEF TypeInv, TypeOK
  <2>4. t \notin killed /\ \A x \in Tokens : state[x] = "revoked" => x # t
    BY <2>2 DEF SessionInv, Rows, Issued
  <2>5. UNCHANGED <<password, killed, floor>> /\ Finish(w)
    BY <1>2 DEF Issue
  <2>6. r.from # NoToken =>
          r.from \in Tokens /\ state[r.from] = "revoked" /\ owner[r.from] = r.user
    BY <1>2, <2>1 DEF Issue, SessionInv, Held
  <2>7. Rows'
    <3>1. \A x \in Tokens : ~Issued(x)' => owner'[x] = Nobody
      BY <2>3 DEF SessionInv, Rows, Issued
    <3>2. \A x \in killed' : state'[x] = "revoked"
      BY <2>3, <2>4, <2>5 DEF SessionInv, Rows, TypeInv, TypeOK
    <3>3. \A x \in Users : floor'[x] <= password'[x]
      BY <2>5 DEF SessionInv, Rows
    <3>4. ASSUME NEW x \in Tokens, Issued(x)', parent'[x] # NoToken
          PROVE  state'[parent'[x]] = "revoked" /\ owner'[parent'[x]] = owner'[x]
      <4>1. CASE x = t
        BY <2>3, <2>4, <2>6, <3>4, <4>1
      <4>2. CASE x # t
        <5>1. parent[x] \in Tokens /\ state[parent[x]] = "revoked" /\ owner[parent[x]] = owner[x]
          BY <2>3, <3>4, <4>2 DEF SessionInv, Rows, Issued, TypeInv, TypeOK
        <5> QED BY <2>3, <2>4, <4>2, <5>1
      <4> QED BY <4>1, <4>2
    <3> QED BY <3>1, <3>2, <3>3, <3>4 DEF Rows
  <2>8. ASSUME NEW v \in Workers PROVE Held(v)'
    <3>1. CASE v = w
      BY <1>c, <2>5, <3>1
    <3>2. CASE v # w
      <4>1. req'[v] = req[v] /\ (v \in overtaken' <=> v \in overtaken) /\ Held(v)
        BY <1>c, <2>5, <3>2 DEF SessionInv
      <4>2. req[v].op = "issue" => req[v].from \in Tokens \cup {NoToken}
        BY <1>a, RequestElim
      <4> QED BY <2>3, <2>4, <2>5, <4>1, <4>2 DEF Held
    <3> QED BY <3>1, <3>2
  <2> QED BY <2>7, <2>8 DEF SessionInv
<1>3. ASSUME NEW w \in Workers, NEW t \in Tokens, RefreshReuse(w, t) PROVE SessionInv'
  <2>1. req'[w] = [op |-> "kill", user |-> owner[t], pw |-> 0]
    BY <1>3, <1>b DEF RefreshReuse
  <2>2. password'[owner[t]] >= 0
    BY <1>3 DEF RefreshReuse, TypeInv, TypeOK, Versions, tableVars
  <2>3. Held(w)'
    BY <2>1, <2>2 DEF Held
  <2>4. OnlyRevokes /\ \A x \in Users : password'[x] >= password[x]
    BY <1>3, SameTables DEF RefreshReuse
  <2> QED BY <1>3, <1>b, <2>3, <2>4, StepKept DEF RefreshReuse
<1>4. ASSUME NEW w \in Workers, NEW t \in Tokens, RefreshFound(w, t) PROVE SessionInv'
  <2>1. req'[w] = [op |-> "check", token |-> t]
    BY <1>4, <1>b DEF RefreshFound
  <2>2. t \notin killed
    BY <1>4 DEF RefreshFound, Live, SessionInv, Rows
  <2>3. Held(w)'
    BY <1>4, <2>1, <2>2 DEF Held, RefreshFound
  <2>4. OnlyRevokes /\ \A x \in Users : password'[x] >= password[x]
    BY <1>4, SameTables DEF RefreshFound
  <2> QED BY <1>4, <1>b, <2>3, <2>4, StepKept DEF RefreshFound
<1>5. ASSUME NEW w \in Workers, RefreshCheck(w) PROVE SessionInv'
  <2> DEFINE t == req[w].token
  <2>1. OnlyRevokes /\ \A x \in Users : password'[x] >= password[x]
    BY <1>5, SameTables DEF RefreshCheck
  <2>2. CASE Proceed(w, [op |-> "rotate", token |-> t])
    <3>1. req'[w] = [op |-> "rotate", token |-> t]
      BY <1>b, <2>2
    <3>2. w \notin overtaken => t \notin killed
      BY <1>5 DEF RefreshCheck, SessionInv, Held
    <3>3. overtaken' = overtaken
      BY <1>b, <2>2
    <3>4. Held(w)'
      BY <1>5, <3>1, <3>2, <3>3 DEF Held, RefreshCheck
    <3> QED BY <1>5, <1>b, <2>1, <2>2, <3>4, StepKept DEF RefreshCheck
  <2>3. CASE Finish(w)
    BY <1>5, <1>c, <2>1, <2>3, StepKept DEF RefreshCheck
  <2> QED BY <1>5, <2>2, <2>3 DEF RefreshCheck
<1>6. ASSUME NEW w \in Workers, Rotate(w) PROVE SessionInv'
  <2> DEFINE t == req[w].token
             r == [op |-> "issue", user |-> owner[t], from |-> t, pw |-> verified[t]]
  <2>1. t \in Tokens /\ Issued(t)
    BY <1>6, <1>a, RequestElim DEF Rotate, TypeInv, NamedIssued
  <2>2. state' = [state EXCEPT ![t] = IF Live(t) THEN "revoked" ELSE @] /\ Proceed(w, r)
    BY <1>6 DEF Rotate, Revoke
  <2>3. OnlyRevokes /\ state'[t] = "revoked"
    BY <1>6, <2>1, <2>2 DEF OnlyRevokes, Rotate, TypeInv, TypeOK, Live, Issued
  <2>4. \A x \in Users : password'[x] >= password[x]
    BY <1>6 DEF Rotate, TypeInv, TypeOK, Versions
  <2>5. req'[w] = r /\ overtaken' = overtaken
    BY <1>b, <2>2
  <2>6. w \notin overtaken => t \notin killed
    BY <1>6 DEF Rotate, SessionInv, Held
  <2>7. Held(w)'
    BY <1>6, <2>1, <2>3, <2>5, <2>6 DEF Held, Rotate
  <2> QED BY <1>6, <1>b, <2>2, <2>3, <2>4, <2>7, StepKept DEF Rotate
<1>7. ASSUME NEW w \in Workers, Kill(w) PROVE SessionInv'
  <2> DEFINE u == req[w].user
             mine == {t \in Tokens : owner[t] = u}
  <2>1. u \in Users /\ req[w].pw \in Nat /\ req[w].pw <= password[u]
    BY <1>7, <1>a, RequestElim DEF Kill, Versions, SessionInv, Held
  <2>2. /\ state' = [t \in Tokens |-> IF Live(t) /\ owner[t] = u THEN "revoked" ELSE state[t]]
        /\ killed' = killed \cup mine
        /\ floor' = [floor EXCEPT ![u] = IF req[w].pw > @ THEN req[w].pw ELSE @]
        /\ overtaken' = (overtaken \cup {v \in Workers : Concerns(req[v], u)}) \ {w}
        /\ req' = [req EXCEPT ![w] = Idle]
        /\ UNCHANGED <<password, owner, parent, verified>>
    BY <1>7 DEF Kill
  <2>3. /\ \A t \in Tokens : Issued(t)' <=> Issued(t)
        /\ \A t \in Tokens : state[t] = "revoked" => state'[t] = "revoked"
    BY <2>2 DEF Issued, Live
  <2>4. \A t \in mine : state'[t] = "revoked"
    <3> SUFFICES ASSUME NEW t \in Tokens, owner[t] = u PROVE state'[t] = "revoked"
      OBVIOUS
    <3>1. Issued(t)
      BY <2>1 DEF SessionInv, Rows
    <3> QED BY <2>2, <3>1 DEF Issued, Live, TypeInv, TypeOK
  <2>5. \A x \in Users : floor'[x] <= password'[x]
    BY <2>1, <2>2 DEF SessionInv, Rows, TypeInv, TypeOK, Versions
  <2>6. \A x \in Users : x # u => floor'[x] = floor[x]
    BY <2>2 DEF TypeInv, TypeOK
  <2>7. Rows'
    <3>1. \A t \in killed' : state'[t] = "revoked"
      BY <2>2, <2>3, <2>4 DEF SessionInv, Rows, TypeInv, TypeOK
    <3>2. \A t \in Tokens : Issued(t)' /\ parent'[t] # NoToken =>
            state'[parent'[t]] = "revoked" /\ owner'[parent'[t]] = owner'[t]
      BY <2>2, <2>3 DEF SessionInv, Rows, TypeInv, TypeOK
    <3> QED BY <2>2, <2>3, <2>5, <3>1, <3>2 DEF SessionInv, Rows
  <2>8. ASSUME NEW v \in Workers PROVE Held(v)'
    <3>1. CASE v = w
      BY <2>2, <3>1, HeldIdle DEF TypeInv, TypeOK
    <3>2. CASE v # w
      <4>1. req'[v] = req[v] /\ Held(v)
        BY <2>2, <3>2 DEF SessionInv, TypeInv, TypeOK
      <4>2. v \notin overtaken' => v \notin overtaken /\ ~Concerns(req[v], u)
        BY <2>2, <3>2
      <4>3. req[v].op = "issue" => req[v].user \in Users /\ req[v].from \in Tokens \cup {NoToken}
        BY <1>a, RequestElim
      <4>4. req[v].op \in {"check", "rotate"} => req[v].token \in Tokens
        BY <1>a, RequestElim
      <4>5. req[v].op = "issue" /\ req[v].from # NoToken =>
              state'[req[v].from] = "revoked" /\ owner'[req[v].from] = req[v].user
        BY <2>2, <2>3, <4>1, <4>3 DEF Held
      <4>6. req[v].op = "kill" => req[v].pw <= password'[req[v].user]
        BY <2>2, <4>1 DEF Held
      <4>7. ASSUME v \notin overtaken', req[v].op \in {"check", "rotate"}
            PROVE  req[v].token \notin killed'
        BY <2>2, <4>1, <4>2, <4>7 DEF Held, Concerns
      <4>8. ASSUME v \notin overtaken', req[v].op = "issue"
            PROVE  /\ req[v].from \notin killed'
                   /\ req[v].from = NoToken => req[v].pw >= floor'[req[v].user]
        <5>1. req[v].user # u /\ req[v].from \notin killed
          BY <4>1, <4>2, <4>8 DEF Held, Concerns
        <5>2. req[v].from \notin mine
          BY <4>1, <4>3, <4>8, <5>1 DEF Held
        <5> QED BY <2>2, <2>6, <4>1, <4>2, <4>3, <4>8, <5>1, <5>2 DEF Held
      <4> QED BY <4>1, <4>5, <4>6, <4>7, <4>8 DEF Held
    <3> QED BY <3>1, <3>2
  <2> QED BY <2>7, <2>8 DEF SessionInv
<1>8. ASSUME NEW w \in Workers, NEW t \in Tokens, LogoutRead(w, t) PROVE SessionInv'
  <2>1. req'[w] = [op |-> "drop", token |-> t]
    BY <1>8, <1>b DEF LogoutRead
  <2>2. Held(w)'
    BY <2>1 DEF Held
  <2>3. OnlyRevokes /\ \A x \in Users : password'[x] >= password[x]
    BY <1>8, SameTables DEF LogoutRead
  <2> QED BY <1>8, <1>b, <2>2, <2>3, StepKept DEF LogoutRead
<1>9. ASSUME NEW w \in Workers, LogoutRevoke(w) PROVE SessionInv'
  <2>1. OnlyRevokes
    BY <1>9 DEF LogoutRevoke, Revoke, OnlyRevokes, TypeInv, TypeOK, Live
  <2>2. \A x \in Users : password'[x] >= password[x]
    BY <1>9 DEF LogoutRevoke, TypeInv, TypeOK, Versions
  <2> QED BY <1>9, <1>c, <2>1, <2>2, StepKept DEF LogoutRevoke
<1>10. ASSUME NEW w \in Workers, NEW u \in Users, ResetPassword(w, u) PROVE SessionInv'
  <2>1. password' = [password EXCEPT ![u] = @ + 1] /\ password[u] \in Nat
    BY <1>10 DEF ResetPassword, TypeInv, TypeOK, Versions
  <2>2. \A x \in Users : password'[x] >= password[x]
    BY <2>1 DEF TypeInv, TypeOK, Versions
  <2>3. req'[w] = [op |-> "kill", user |-> u, pw |-> password[u] + 1]
    BY <1>10, <1>b DEF ResetPassword
  <2>4. password'[u] = password[u] + 1
    BY <2>1 DEF TypeInv, TypeOK
  <2>5. Held(w)'
    BY <2>1, <2>3, <2>4 DEF Held
  <2>6. OnlyRevokes
    BY <1>10 DEF ResetPassword, OnlyRevokes
  <2> QED BY <1>10, <1>b, <2>2, <2>5, <2>6, StepKept DEF ResetPassword
<1>11. ASSUME NEW w \in Workers, NEW u \in Users, ChangeRead(w, u) PROVE SessionInv'
  <2>1. req'[w] = [op |-> "change", user |-> u, pw |-> password[u]]
    BY <1>11, <1>b DEF ChangeRead
  <2>2. Held(w)'
    BY <2>1 DEF Held
  <2>3. OnlyRevokes /\ \A x \in Users : password'[x] >= password[x]
    BY <1>11, SameTables DEF ChangeRead
  <2> QED BY <1>11, <1>b, <2>2, <2>3, StepKept DEF ChangeRead
<1>12. ASSUME NEW w \in Workers, ChangeWrite(w) PROVE SessionInv'
  <2>1. req[w].user \in Users
    BY <1>12, <1>a, RequestElim DEF ChangeWrite
  <2>2. \A x \in Users : password'[x] >= password[x]
    BY <1>12, <2>1 DEF ChangeWrite, TypeInv, TypeOK, Versions
  <2>3. OnlyRevokes
    BY <1>12 DEF ChangeWrite, OnlyRevokes
  <2> QED BY <1>12, <1>c, <2>2, <2>3, StepKept DEF ChangeWrite
<1>13. ASSUME OnlyRevokes, UNCHANGED <<password, req, killed, floor, overtaken>>
       PROVE  SessionInv'
  <2>1. \A x \in Users : password'[x] >= password[x]
    BY <1>13 DEF TypeInv, TypeOK, Versions
  <2>2. Rows'
    BY <1>13, <2>1, RowsKept DEF SessionInv
  <2>3. \A v \in Workers : Held(v)'
    BY <1>13, <2>1, HeldKept DEF SessionInv
  <2> QED BY <2>2, <2>3 DEF SessionInv
<1>14. ASSUME NEW u \in Users, NEW b \in BOOLEAN, SetActive(u, b) PROVE SessionInv'
  BY <1>13, <1>14 DEF SetActive, historyVars, OnlyRevokes
<1>15. ASSUME NEW t \in Tokens, Expire(t) PROVE SessionInv'
  BY <1>13, <1>15 DEF Expire, historyVars, OnlyRevokes
<1>16. ASSUME NEW w \in Workers, Abort(w) PROVE SessionInv'
  <2>1. OnlyRevokes /\ \A x \in Users : password'[x] >= password[x]
    BY <1>16, SameTables DEF Abort
  <2> QED BY <1>16, <1>c, <2>1, StepKept DEF Abort
<1>17. CASE UNCHANGED vars
  BY <1>13, <1>17 DEF vars, tableVars, historyVars, OnlyRevokes
<1> QED
  BY <1>1, <1>2, <1>3, <1>4, <1>5, <1>6, <1>7, <1>8, <1>9, <1>10, <1>11, <1>12,
     <1>14, <1>15, <1>16, <1>17 DEF Next

\* What rows and in-flight requests know of each other, for any number of requests:
\* the inductive invariant behind both theorems below.
THEOREM SessionInvariant == Spec => []SessionInv
BY TypeInvariant, InitSession, NextSession, PTL DEF Spec

\* However many requests present a token at the same time, every token that has
\* a successor is revoked: rotation never leaves the old token usable.
THEOREM RotationRevokesFirst == Spec => []NoLiveAncestor
<1>1. SessionInv => NoLiveAncestor
  BY DEF SessionInv, Rows, NoLiveAncestor
<1> QED BY <1>1, SessionInvariant, PTL

------------------------------------------------------------------------------
(* Survivors of a kill *)

\* A statement that issues nothing and kills nothing makes no token outdated.
LEMMA NotOutdated ==
    ASSUME OnlyRevokes, UNCHANGED <<killed, floor>>, NEW t \in Tokens, Outdated(t)'
    PROVE  Outdated(t)
BY DEF OnlyRevokes, Outdated, Live

\* Only the statements that issue or kill do more than revoke.
LEMMA OtherSteps ==
    ASSUME TypeInv, [Next]_vars,
           \A w \in Workers : ~Issue(w) /\ ~Kill(w)
    PROVE  OnlyRevokes /\ UNCHANGED <<killed, floor>>
<1>1. ASSUME UNCHANGED <<state, owner, parent, login, verified>> PROVE OnlyRevokes
  BY <1>1 DEF OnlyRevokes
<1>2. ASSUME NEW w \in Workers, NEW u \in Users, LoginRead(w, u)
      PROVE  OnlyRevokes /\ UNCHANGED <<killed, floor>>
  BY <1>1, <1>2 DEF LoginRead, tableVars
<1>3. ASSUME NEW w \in Workers, NEW t \in Tokens, RefreshReuse(w, t)
      PROVE  OnlyRevokes /\ UNCHANGED <<killed, floor>>
  BY <1>1, <1>3 DEF RefreshReuse, tableVars
<1>4. ASSUME NEW w \in Workers, NEW t \in Tokens, RefreshFound(w, t)
      PROVE  OnlyRevokes /\ UNCHANGED <<killed, floor>>
  BY <1>1, <1>4 DEF RefreshFound, tableVars
<1>5. ASSUME NEW w \in Workers, RefreshCheck(w)
      PROVE  OnlyRevokes /\ UNCHANGED <<killed, floor>>
  BY <1>1, <1>5 DEF RefreshCheck, tableVars
<1>6. ASSUME NEW w \in Workers, Rotate(w)
      PROVE  OnlyRevokes /\ UNCHANGED <<killed, floor>>
  BY <1>6 DEF Rotate, Revoke, OnlyRevokes, TypeInv, TypeOK, Live
<1>7. ASSUME NEW w \in Workers, NEW t \in Tokens, LogoutRead(w, t)
      PROVE  OnlyRevokes /\ UNCHANGED <<killed, floor>>
  BY <1>1, <1>7 DEF LogoutRead, tableVars
<1>8. ASSUME NEW w \in Workers, LogoutRevoke(w)
      PROVE  OnlyRevokes /\ UNCHANGED <<killed, floor>>
  BY <1>8 DEF LogoutRevoke, Revoke, OnlyRevokes, TypeInv, TypeOK, Live
<1>9. ASSUME NEW w \in Workers, NEW u \in Users, ResetPassword(w, u) \/ ChangeRead(w, u)
      PROVE  OnlyRevokes /\ UNCHANGED <<killed, floor>>
  BY <1>1, <1>9 DEF ResetPassword, ChangeRead, tableVars
<1>10. ASSUME NEW w \in Workers, ChangeWrite(w) \/ Abort(w)
       PROVE  OnlyRevokes /\ UNCHANGED <<killed, floor>>
  BY <1>1, <1>10 DEF ChangeWrite, Abort, tableVars
<1>11. ASSUME NEW u \in Users, NEW b \in BOOLEAN, SetActive(u, b)
       PROVE  OnlyRevokes /\ UNCHANGED <<killed, floor>>
  BY <1>1, <1>11 DEF SetActive, historyVars
<1>12. ASSUME NEW t \in Tokens, Expire(t)
       PROVE  OnlyRevokes /\ UNCHANGED <<killed, floor>>
  BY <1>1, <1>12 DEF Expire, historyVars
<1>13. CASE UNCHANGED vars
  BY <1>1, <1>13 DEF vars, tableVars, historyVars
<1> QED
  BY <1>2, <1>3, <1>4, <1>5, <1>6, <1>7, <1>8, <1>9, <1>10, <1>11, <1>12, <1>13 DEF Next

\* The step of the theorem below, one case per statement that issues or kills.
LEMMA SurvivorStep ==
    TypeInv /\ SessionInv /\ [Next]_vars =>
        \A t \in Tokens :
          ~Outdated(t) /\ Outdated(t)' => \E w \in overtaken : Issue(w)
<1> SUFFICES ASSUME TypeInv, SessionInv, [Next]_vars,
                    NEW t \in Tokens, ~Outdated(t), Outdated(t)'
             PROVE  \E w \in overtaken : Issue(w)
  OBVIOUS
<1>1. ASSUME NEW w \in Workers, Kill(w) PROVE FALSE
  <2> DEFINE u == req[w].user
  <2>1. u \in Users
    BY <1>1, RequestElim DEF Kill, TypeInv, TypeOK
  <2>2. /\ state'[t] = IF Live(t) /\ owner[t] = u THEN "revoked" ELSE state[t]
        /\ killed' = killed \cup {x \in Tokens : owner[x] = u}
        /\ \A x \in Users \ {u} : floor'[x] = floor[x]
        /\ UNCHANGED <<owner, parent, verified>>
    BY <1>1 DEF Kill, TypeInv, TypeOK
  <2>3. Live(t) /\ owner[t] \in Users \ {u}
    BY <2>2 DEF Outdated, Live, TypeInv, TypeOK
  <2>4. parent[t] # NoToken => owner[parent[t]] = owner[t]
    BY <2>3 DEF SessionInv, Rows, Live, Issued
  <2>5. NoToken \notin killed'
    BY <2>2, SessionAssumption DEF TypeInv, TypeOK
  <2>6. parent[t] \in killed' => parent[t] \in killed
    BY <2>2, <2>3, <2>4, <2>5
  <2> QED BY <2>2, <2>3, <2>6 DEF Outdated, Live
<1>2. ASSUME NEW w \in Workers, Issue(w) PROVE w \in overtaken
  <2>1. PICK n \in Tokens :
          /\ ~Issued(n)
          /\ state' = [state EXCEPT ![n] = "live"]
          /\ owner' = [owner EXCEPT ![n] = req[w].user]
          /\ parent' = [parent EXCEPT ![n] = req[w].from]
          /\ verified' = [verified EXCEPT ![n] = req[w].pw]
    BY <1>2 DEF Issue
  <2>2. UNCHANGED <<killed, floor>>
    BY <1>2 DEF Issue
  <2>3. CASE n = t
    <3>1. /\ parent'[t] = req[w].from /\ owner'[t] = req[w].user
          /\ verified'[t] = req[w].pw
      BY <2>1, <2>3 DEF TypeInv, TypeOK
    <3>2. req[w].user \in Users /\ req[w].pw \in Nat
      BY <1>2, RequestElim DEF Issue, TypeInv, TypeOK, Versions
    <3>3. floor[req[w].user] \in Nat
      BY <3>2 DEF TypeInv, TypeOK, Versions
    <3>4. \/ req[w].from \in killed
          \/ req[w].from = NoToken /\ ~(req[w].pw >= floor[req[w].user])
      BY <2>2, <3>1, <3>2, <3>3 DEF Outdated
    <3> QED BY <1>2, <3>4 DEF Issue, SessionInv, Held
  <2>4. CASE n # t
    <3>1. /\ state'[t] = state[t] /\ owner'[t] = owner[t]
          /\ parent'[t] = parent[t] /\ verified'[t] = verified[t]
      BY <2>1, <2>4 DEF TypeInv, TypeOK
    <3> QED BY <2>2, <3>1 DEF Outdated, Live
  <2> QED BY <2>3, <2>4
<1>3. CASE \A w \in Workers : ~Issue(w) /\ ~Kill(w)
  BY <1>3, OtherSteps, NotOutdated
<1> QED BY <1>1, <1>2, <1>3

\* A kill is final for every request that starts after it: what outlives it was
\* issued by a request that the kill found in flight.
THEOREM KillFinalForLaterRequests == Spec => SurvivorsWereInFlight
<1>1. TypeInv /\ SessionInv /\ [Next]_vars =>
        [\A t \in Tokens :
           ~Outdated(t) /\ Outdated(t)' => \E w \in overtaken : Issue(w)]_vars
  BY SurvivorStep
<1> QED BY <1>1, TypeInvariant, SessionInvariant, PTL DEF Spec, SurvivorsWereInFlight

------------------------------------------------------------------------------
(* One request at a time *)

\* What an in-flight request knows of its login: the token it will rotate is
\* live still, and the login it will issue for has no live token.
Alone(w) ==
    /\ req[w].op \in {"check", "rotate"} => Live(req[w].token)
    /\ req[w].op = "issue" /\ req[w].from # NoToken =>
         \A t \in Tokens : Live(t) => login[t] # login[req[w].from]

\* A login is named by its first token, which was issued.
Rooted == \A t \in Tokens : Issued(t) => Issued(login[t])

OneInv == Rooted /\ OneLivePerLogin /\ \A w \in Workers : Alone(w)

\* A statement that revokes at most, in the one request there is.
LEMMA OneKept ==
    ASSUME TypeInv, OneInv, OnlyRevokes, \A w \in Workers : Alone(w)'
    PROVE  OneInv'
<1>1. \A t \in Tokens : (Issued(t)' <=> Issued(t)) /\ (Live(t)' => Live(t))
  BY DEF OnlyRevokes, Issued, Live
<1>2. Rooted'
  BY <1>1 DEF OneInv, Rooted, OnlyRevokes, TypeInv, TypeOK, Issued
<1>3. OneLivePerLogin'
  BY <1>1 DEF OneInv, OneLivePerLogin, OnlyRevokes
<1> QED BY <1>2, <1>3 DEF OneInv

LEMMA NextOne ==
    ASSUME \A v, w \in Workers : v = w
    PROVE  TypeInv /\ OneInv /\ [Next]_vars => OneInv'
<1> SUFFICES ASSUME TypeInv, OneInv, [Next]_vars PROVE OneInv'
  OBVIOUS
<1> USE SessionAssumption
<1>a. \A w \in Workers : req[w] \in Request /\ Alone(w)
  BY DEF TypeInv, TypeOK, OneInv
<1>b. ASSUME NEW w \in Workers, NEW r, Proceed(w, r) PROVE req'[w] = r
  BY <1>b DEF Proceed, TypeInv, TypeOK
<1>c. ASSUME NEW w \in Workers, Finish(w) PROVE Alone(w)'
  <2>1. req'[w] = Idle
    BY <1>c DEF Finish, TypeInv, TypeOK
  <2> QED BY <2>1 DEF Alone, Idle
\* The one request goes on, and leaves the tables alone.
<1>d. ASSUME NEW w \in Workers, Alone(w)', UNCHANGED <<state, owner, parent, login, verified>>
      PROVE  OneInv'
  <2>1. OnlyRevokes /\ \A v \in Workers : Alone(v)'
    BY <1>d DEF OnlyRevokes
  <2> QED BY <2>1, OneKept
<1>1. ASSUME NEW w \in Workers, NEW u \in Users, LoginRead(w, u) PROVE OneInv'
  <2>1. Alone(w)'
    BY <1>1, <1>b DEF LoginRead, Alone
  <2> QED BY <1>1, <1>d, <2>1 DEF LoginRead, tableVars
<1>2. ASSUME NEW w \in Workers, Issue(w) PROVE OneInv'
  <2> DEFINE r == req[w]
  <2>1. r.from \in Tokens \cup {NoToken} /\ (r.from # NoToken => Issued(r.from))
    BY <1>2, <1>a, RequestElim DEF Issue, TypeInv, NamedIssued
  <2>2. PICK t \in Tokens :
          /\ ~Issued(t)
          /\ state' = [state EXCEPT ![t] = "live"]
          /\ login' = [login EXCEPT ![t] = IF r.from = NoToken THEN t ELSE login[r.from]]
    BY <1>2 DEF Issue
  <2> DEFINE l == IF r.from = NoToken THEN t ELSE login[r.from]
  <2>3. /\ state'[t] = "live" /\ login'[t] = l
        /\ \A x \in Tokens \ {t} : state'[x] = state[x] /\ login'[x] = login[x]
    BY <2>2 DEF TypeInv, TypeOK
  <2>4. \A x \in Tokens : Issued(x) => login[x] \in Tokens /\ Issued(login[x])
    BY DEF OneInv, Rooted, TypeInv, TypeOK, Issued
  <2>5. \A x \in Tokens : Live(x) => x # t /\ login[x] # l
    <3>1. CASE r.from = NoToken
      BY <2>2, <2>4, <3>1 DEF Live, Issued
    <3>2. CASE r.from # NoToken
      BY <1>2, <1>a, <2>2, <3>2 DEF Issue, Alone, Live, Issued
    <3> QED BY <3>1, <3>2
  <2>6. l \in Tokens /\ (l = t \/ Issued(l))
    BY <2>1, <2>4
  <2> HIDE DEF l
  <2>7. Rooted'
    <3>1. \A x \in Tokens : Issued(x) => Issued(x)' /\ x # t
      BY <2>2, <2>3 DEF Issued
    <3>2. Issued(t)'
      BY <2>3 DEF Issued
    <3>3. ASSUME NEW x \in Tokens, Issued(x)' PROVE Issued(login[x])'
      <4>1. CASE x = t
        BY <2>3, <2>6, <3>1, <3>2, <4>1 DEF Issued
      <4>2. CASE x # t
        <5>1. Issued(x) /\ login'[x] = login[x]
          BY <2>3, <3>3, <4>2 DEF Issued
        <5>2. state'[login[x]] # "none"
          BY <2>4, <3>1, <5>1 DEF Issued
        <5> QED BY <5>1, <5>2 DEF Issued
      <4> QED BY <4>1, <4>2
    <3> QED BY <3>3 DEF Rooted, Issued
  <2>8. OneLivePerLogin'
    <3>1. \A x \in Tokens : Live(x)' => x = t \/ (Live(x) /\ login'[x] = login[x])
      BY <2>3 DEF Live
    <3> QED BY <2>3, <2>5, <3>1 DEF OneInv, OneLivePerLogin
  <2>9. \A v \in Workers : Alone(v)'
    BY <1>2, <1>c DEF Issue
  <2> QED BY <2>7, <2>8, <2>9 DEF OneInv
<1>3. ASSUME NEW w \in Workers, NEW t \in Tokens, RefreshReuse(w, t) PROVE OneInv'
  <2>1. Alone(w)'
    BY <1>3, <1>b DEF RefreshReuse, Alone
  <2> QED BY <1>3, <1>d, <2>1 DEF RefreshReuse, tableVars
<1>4. ASSUME NEW w \in Workers, NEW t \in Tokens, RefreshFound(w, t) PROVE OneInv'
  <2>1. req'[w] = [op |-> "check", token |-> t] /\ Live(t) /\ state' = state
    BY <1>4, <1>b DEF RefreshFound, tableVars
  <2>2. Alone(w)'
    BY <2>1 DEF Alone, Live
  <2> QED BY <1>4, <1>d, <2>2 DEF RefreshFound, tableVars
<1>5. ASSUME NEW w \in Workers, RefreshCheck(w) PROVE OneInv'
  <2> DEFINE t == req[w].token
  <2>1. Live(t) /\ state' = state
    BY <1>5, <1>a DEF RefreshCheck, Alone, tableVars
  <2>2. CASE Proceed(w, [op |-> "rotate", token |-> t])
    <3>1. req'[w] = [op |-> "rotate", token |-> t]
      BY <1>b, <2>2
    <3>2. Alone(w)'
      BY <2>1, <3>1 DEF Alone, Live
    <3> QED BY <1>5, <1>d, <3>2 DEF RefreshCheck, tableVars
  <2>3. CASE Finish(w)
    BY <1>5, <1>c, <1>d, <2>3 DEF RefreshCheck, tableVars
  <2> QED BY <1>5, <2>2, <2>3 DEF RefreshCheck
<1>6. ASSUME NEW w \in Workers, Rotate(w) PROVE OneInv'
  <2> DEFINE t == req[w].token
  <2>1. t \in Tokens /\ Live(t)
    BY <1>6, <1>a, RequestElim DEF Rotate, Alone
  <2>2. req'[w] = [op |-> "issue", user |-> owner[t], from |-> t, pw |-> verified[t]]
    BY <1>6, <1>b DEF Rotate
  <2>3. \A x \in Tokens : state'[x] = IF x = t THEN "revoked" ELSE state[x]
    BY <1>6, <2>1 DEF Rotate, Revoke, TypeInv, TypeOK
  <2>4. UNCHANGED <<owner, parent, login, verified>>
    BY <1>6 DEF Rotate
  <2>5. \A x \in Tokens : Live(x)' => Live(x) /\ x # t
    BY <2>3 DEF Live
  <2>6. \A x \in Tokens : Live(x)' => login'[x] # login'[t]
    BY <2>1, <2>4, <2>5 DEF OneInv, OneLivePerLogin
  <2>7. Alone(w)'
    BY <2>2, <2>6 DEF Alone
  <2>8. OnlyRevokes /\ \A v \in Workers : Alone(v)'
    BY <2>1, <2>3, <2>4, <2>7 DEF OnlyRevokes
  <2> QED BY <2>8, OneKept
<1>7. ASSUME NEW w \in Workers, Kill(w) PROVE OneInv'
  <2>1. OnlyRevokes
    BY <1>7 DEF Kill, OnlyRevokes, TypeInv, TypeOK, Live
  <2>2. req'[w] = Idle
    BY <1>7 DEF Kill, TypeInv, TypeOK
  <2>3. \A v \in Workers : Alone(v)'
    BY <2>2 DEF Alone, Idle
  <2> QED BY <2>1, <2>3, OneKept
<1>8. ASSUME NEW w \in Workers, NEW t \in Tokens, LogoutRead(w, t) PROVE OneInv'
  <2>1. Alone(w)'
    BY <1>8, <1>b DEF LogoutRead, Alone
  <2> QED BY <1>8, <1>d, <2>1 DEF LogoutRead, tableVars
<1>9. ASSUME NEW w \in Workers, LogoutRevoke(w) PROVE OneInv'
  <2>1. OnlyRevokes
    BY <1>9 DEF LogoutRevoke, Revoke, OnlyRevokes, TypeInv, TypeOK, Live
  <2>2. \A v \in Workers : Alone(v)'
    BY <1>9, <1>c DEF LogoutRevoke
  <2> QED BY <2>1, <2>2, OneKept
<1>10. ASSUME NEW w \in Workers, NEW u \in Users, ResetPassword(w, u) PROVE OneInv'
  <2>1. Alone(w)'
    BY <1>10, <1>b DEF ResetPassword, Alone
  <2> QED BY <1>10, <1>d, <2>1 DEF ResetPassword
<1>11. ASSUME NEW w \in Workers, NEW u \in Users, ChangeRead(w, u) PROVE OneInv'
  <2>1. Alone(w)'
    BY <1>11, <1>b DEF ChangeRead, Alone
  <2> QED BY <1>11, <1>d, <2>1 DEF ChangeRead, tableVars
<1>12. ASSUME NEW w \in Workers, ChangeWrite(w) PROVE OneInv'
  BY <1>12, <1>c, <1>d DEF ChangeWrite
<1>13. ASSUME NEW w \in Workers, Abort(w) PROVE OneInv'
  BY <1>13, <1>c, <1>d DEF Abort, tableVars
<1>14. ASSUME UNCHANGED <<state, owner, parent, login, verified, req>> PROVE OneInv'
  <2>1. OnlyRevokes
    BY <1>14 DEF OnlyRevokes
  <2>2. \A w \in Workers : Alone(w)'
    BY <1>14, <1>a DEF Alone, Live
  <2> QED BY <2>1, <2>2, OneKept
<1>15. ASSUME NEW u, NEW b, SetActive(u, b) PROVE OneInv'
  BY <1>14, <1>15 DEF SetActive, historyVars
<1>16. ASSUME NEW t, Expire(t) PROVE OneInv'
  BY <1>14, <1>16 DEF Expire, historyVars
<1>17. CASE UNCHANGED vars
  BY <1>14, <1>17 DEF vars, tableVars, historyVars
<1> QED
  BY <1>1, <1>2, <1>3, <1>4, <1>5, <1>6, <1>7, <1>8, <1>9, <1>10, <1>11, <1>12, <1>13,
     <1>15, <1>16, <1>17 DEF Next

\* With one request at a time a login has at most one usable token, through
\* every rotation, logout, reset, kill, crash and expiry.
THEOREM OneTokenPerLogin ==
    ASSUME \A v, w \in Workers : v = w
    PROVE  Spec => []OneLivePerLogin
<1>1. Init => OneInv
  BY DEF Init, OneInv, Rooted, OneLivePerLogin, Alone, Issued, Live, Idle
<1>2. TypeInv /\ OneInv /\ [Next]_vars => OneInv'
  BY NextOne
<1>3. OneInv => OneLivePerLogin
  BY DEF OneInv
<1> QED BY <1>1, <1>2, <1>3, InitType, NextType, PTL DEF Spec

------------------------------------------------------------------------------
(* Who ends a session *)

\* A token stops being usable only by a request that presents it, or by a kill
\* for its own user.
THEOREM NobodyElseEnds == Spec => EndedByItsOwner
<1> DEFINE Mine(t) == \E w \in Workers :
                        \/ req[w].op \in {"rotate", "drop"} /\ req[w].token = t
                        \/ req[w].op = "kill" /\ req[w].user = owner[t]
           Ended == \A t \in Tokens : Live(t) /\ ~Live(t)' => Mine(t)
<1>1. TypeInv /\ [Next]_vars => [Ended]_vars
  <2> SUFFICES ASSUME TypeInv, [Next]_vars, NEW t \in Tokens, Live(t), ~Live(t)' PROVE Mine(t)
    OBVIOUS
  <2>0. \A w \in Workers : req[w] \in Request
    BY DEF TypeInv, TypeOK
  <2>1. state' # state
    BY DEF Live
  <2>2. ASSUME NEW w \in Workers, Issue(w) PROVE FALSE
    BY <2>2 DEF Issue, Live, Issued, TypeInv, TypeOK
  <2>3. ASSUME NEW w \in Workers, Rotate(w) PROVE Mine(t)
    <3>1. req[w].token \in Tokens /\ req[w].op = "rotate"
      BY <2>0, <2>3, RequestElim DEF Rotate
    <3>2. req[w].token = t
      BY <2>3, <3>1 DEF Rotate, Revoke, Live, TypeInv, TypeOK
    <3> QED BY <3>1, <3>2
  <2>4. ASSUME NEW w \in Workers, LogoutRevoke(w) PROVE Mine(t)
    <3>1. req[w].token \in Tokens /\ req[w].op = "drop"
      BY <2>0, <2>4, RequestElim DEF LogoutRevoke
    <3>2. req[w].token = t
      BY <2>4, <3>1 DEF LogoutRevoke, Revoke, Live, TypeInv, TypeOK
    <3> QED BY <3>1, <3>2
  <2>5. ASSUME NEW w \in Workers, Kill(w) PROVE Mine(t)
    <3>1. req[w].op = "kill" /\ req[w].user = owner[t]
      BY <2>5 DEF Kill, Live
    <3> QED BY <3>1
  <2> QED
    BY <2>1, <2>2, <2>3, <2>4, <2>5
    DEF Next, vars, tableVars, historyVars, LoginRead, RefreshReuse, RefreshFound, RefreshCheck,
        LogoutRead, ResetPassword, ChangeRead, ChangeWrite, SetActive, Expire, Abort
<1>2. Spec => [][Ended]_vars
  BY <1>1, TypeInvariant, PTL DEF Spec
<1> QED BY <1>2 DEF EndedByItsOwner

------------------------------------------------------------------------------
(* One request at a time implements Sessions *)

\* A login's first token names it and has its user.
Families ==
    \A t \in Tokens : Issued(t) =>
        /\ login[t] \in Tokens /\ Issued(login[t])
        /\ login[login[t]] = login[t] /\ owner[login[t]] = owner[t]

LEMMA NextFamilies == TypeInv /\ SessionInv /\ Families /\ [Next]_vars => Families'
<1> SUFFICES ASSUME TypeInv, SessionInv, Families, [Next]_vars PROVE Families'
  OBVIOUS
<1> USE SessionAssumption
<1>1. ASSUME UNCHANGED <<owner, login>>, \A t \in Tokens : Issued(t)' <=> Issued(t)
      PROVE  Families'
  BY <1>1 DEF Families, Issued
<1>2. ASSUME NEW w \in Workers, Issue(w) PROVE Families'
  <2> DEFINE r == req[w]
  <2>1. /\ r.from \in Tokens \cup {NoToken}
        /\ r.from # NoToken => Issued(r.from) /\ owner[r.from] = r.user
    <3>1. r \in Request /\ r.op = "issue"
      BY <1>2 DEF Issue, TypeInv, TypeOK
    <3> QED BY <3>1, RequestElim DEF TypeInv, NamedIssued, SessionInv, Held
  <2>2. PICK t \in Tokens :
          /\ ~Issued(t)
          /\ state' = [state EXCEPT ![t] = "live"]
          /\ owner' = [owner EXCEPT ![t] = r.user]
          /\ login' = [login EXCEPT ![t] = IF r.from = NoToken THEN t ELSE login[r.from]]
    BY <1>2 DEF Issue
  <2> DEFINE l == IF r.from = NoToken THEN t ELSE login[r.from]
  <2>3. /\ state'[t] = "live" /\ login'[t] = l /\ owner'[t] = r.user
        /\ \A x \in Tokens \ {t} :
             state'[x] = state[x] /\ login'[x] = login[x] /\ owner'[x] = owner[x]
    BY <2>2 DEF TypeInv, TypeOK
  <2>4. r.from # NoToken => /\ l \in Tokens \ {t} /\ Issued(l) /\ login[l] = l
                            /\ owner[l] = r.user
    BY <2>1, <2>2 DEF Families
  <2>5. r.from = NoToken => l = t
    OBVIOUS
  <2> HIDE DEF l
  <2>6. ASSUME NEW x \in Tokens, Issued(x)'
        PROVE  /\ login'[x] \in Tokens /\ Issued(login[x])'
               /\ login'[login'[x]] = login'[x] /\ owner'[login'[x]] = owner'[x]
    <3>1. CASE x = t
      <4>1. CASE r.from = NoToken
        BY <2>3, <2>5, <3>1, <4>1 DEF Issued
      <4>2. CASE r.from # NoToken
        BY <2>3, <2>4, <3>1, <4>2 DEF Issued
      <4> QED BY <4>1, <4>2
    <3>2. CASE x # t
      <4>1. Issued(x) /\ login'[x] = login[x] /\ owner'[x] = owner[x]
        BY <2>3, <2>6, <3>2 DEF Issued
      <4>2. login[x] \in Tokens \ {t} /\ Issued(login[x])
            /\ login[login[x]] = login[x] /\ owner[login[x]] = owner[x]
        BY <2>2, <4>1 DEF Families
      <4> QED BY <2>3, <4>1, <4>2 DEF Issued
    <3> QED BY <3>1, <3>2
  <2> QED BY <2>6 DEF Families, Issued
<1>3. ASSUME NEW w \in Workers, Rotate(w) \/ LogoutRevoke(w) \/ Kill(w) PROVE Families'
  <2>1. UNCHANGED <<owner, login>>
    BY <1>3 DEF Rotate, LogoutRevoke, Kill
  <2>2. \A t \in Tokens : Issued(t)' <=> Issued(t)
    BY <1>3 DEF Rotate, LogoutRevoke, Kill, Revoke, Issued, Live, TypeInv, TypeOK
  <2> QED BY <1>1, <2>1, <2>2
<1>4. ASSUME UNCHANGED <<state, owner, login>> PROVE Families'
  BY <1>1, <1>4 DEF Issued
<1> QED
  BY <1>2, <1>3, <1>4
  DEF Next, vars, tableVars, historyVars, LoginRead, RefreshReuse, RefreshFound, RefreshCheck,
      LogoutRead, ResetPassword, ChangeRead, ChangeWrite, SetActive, Expire, Abort

\* The session a login stands for, and whose it is: the refinement mapping.
Sess(l) ==
    IF ~Issued(l) \/ login[l] # l THEN "none"
    ELSE IF Rotating(l) \/ \E t \in Tokens : Live(t) /\ login[t] = l THEN "open"
    ELSE "ended"

Holds(l) == IF Issued(l) /\ login[l] = l THEN owner[l] ELSE Nobody

Mapped == [l \in Tokens |-> Sess(l)]
MappedHolder == [l \in Tokens |-> Holds(l)]

\* What the steps of Sessions say of the mapped sessions, one by one.
LEMMA MapStutter ==
    ASSUME \A x \in Tokens : Sess(x)' = Sess(x) /\ Holds(x)' = Holds(x)
    PROVE  UNCHANGED Promise!sessionVars
BY DEF Promise!sessionVars, Sess, Holds

LEMMA MapOpen ==
    ASSUME NEW l \in Tokens, NEW u \in Users, Sess(l) = "none",
           \A x \in Tokens : /\ Sess(x)' = IF x = l THEN "open" ELSE Sess(x)
                             /\ Holds(x)' = IF x = l THEN u ELSE Holds(x)
    PROVE  Promise!Next
<1>1. Mapped[l] = "none"
  BY DEF Mapped
<1>2. Mapped' = [Mapped EXCEPT ![l] = "open"]
  BY DEF Mapped
<1>3. MappedHolder' = [MappedHolder EXCEPT ![l] = u]
  BY DEF MappedHolder
<1>4. Promise!Open(l, u)
  BY <1>1, <1>2, <1>3, Zenon DEF Promise!Open, Mapped, MappedHolder, Sess, Holds
<1> QED BY <1>4 DEF Promise!Next

LEMMA MapEnd ==
    ASSUME NEW l \in Tokens, Sess(l) = "open",
           \A x \in Tokens : /\ Sess(x)' = IF x = l THEN "ended" ELSE Sess(x)
                             /\ Holds(x)' = Holds(x)
    PROVE  Promise!Next
<1>1. Mapped[l] = "open"
  BY DEF Mapped
<1>2. Mapped' = [Mapped EXCEPT ![l] = "ended"]
  BY DEF Mapped
<1>3. MappedHolder' = MappedHolder
  BY DEF MappedHolder
<1>4. Promise!End(l)
  BY <1>1, <1>2, <1>3, Zenon DEF Promise!End, Mapped, MappedHolder, Sess, Holds
<1> QED BY <1>4 DEF Promise!Next

LEMMA MapEndAll ==
    ASSUME NEW u \in Users,
           \A x \in Tokens :
              /\ Sess(x)' = IF Sess(x) = "open" /\ Holds(x) = u THEN "ended" ELSE Sess(x)
              /\ Holds(x)' = Holds(x)
    PROVE  Promise!Next
<1>1. Promise!EndAll(u)
  BY DEF Promise!EndAll, Sess, Holds
<1> QED BY <1>1 DEF Promise!Next

\* Between two statements of a rotation its session is open, though no token is.
Carrying(w) == req[w].op = "issue" /\ req[w].from # NoToken

RefInv == TypeInv /\ SessionInv /\ OneInv /\ Families

\* Every statement of the one request opens a session, ends one, ends those of a
\* user, or changes no session.
LEMMA NextMaps ==
    ASSUME \A v, w \in Workers : v = w, RefInv, [Next]_vars
    PROVE  [Promise!Next]_Promise!sessionVars
<1> USE SessionAssumption
<1>a. /\ TypeInv /\ SessionInv /\ OneInv /\ Families
      /\ \A w \in Workers : req[w] \in Request /\ Alone(w) /\ Held(w)
  BY DEF RefInv, TypeInv, TypeOK, OneInv, SessionInv
<1>b. ASSUME NEW w \in Workers, NEW r, Proceed(w, r) PROVE req'[w] = r
  BY <1>a, <1>b DEF Proceed, TypeInv, TypeOK
<1>c. ASSUME NEW w \in Workers, Finish(w) PROVE req'[w] = Idle /\ ~Carrying(w)'
  <2>1. req'[w] = Idle
    BY <1>a, <1>c DEF Finish, TypeInv, TypeOK
  <2> QED BY <2>1 DEF Carrying, Idle
<1>d. ASSUME NEW w \in Workers, ~Carrying(w) PROVE \A l \in Tokens : ~Rotating(l)
  BY <1>d DEF Carrying, Rotating
<1>e. ASSUME NEW w \in Workers, ~Carrying(w)' PROVE \A l \in Tokens : ~Rotating(l)'
  BY <1>e DEF Carrying, Rotating
<1>f. ASSUME UNCHANGED <<state, owner, login>>, \A l \in Tokens : Rotating(l)' <=> Rotating(l)
      PROVE  UNCHANGED Promise!sessionVars
  <2>1. \A x \in Tokens : Sess(x)' = Sess(x) /\ Holds(x)' = Holds(x)
    BY <1>f DEF Sess, Holds, Issued, Live
  <2> QED BY <2>1, MapStutter
\* A request that carries no session over, before or after, and leaves the tokens.
<1>g. ASSUME NEW w \in Workers, UNCHANGED <<state, owner, login>>, ~Carrying(w), ~Carrying(w)'
      PROVE  UNCHANGED Promise!sessionVars
  BY <1>d, <1>e, <1>f, <1>g
<1>1. ASSUME NEW w \in Workers, NEW u \in Users, LoginRead(w, u)
      PROVE  UNCHANGED Promise!sessionVars
  <2>1. ~Carrying(w) /\ ~Carrying(w)'
    BY <1>1, <1>b DEF LoginRead, Carrying, Idle
  <2> QED BY <1>1, <1>g, <2>1 DEF LoginRead, tableVars
<1>2. ASSUME NEW w \in Workers, Issue(w) PROVE [Promise!Next]_Promise!sessionVars
  <2> DEFINE r == req[w]
  <2>1. PICK t \in Tokens :
          /\ ~Issued(t)
          /\ state' = [state EXCEPT ![t] = "live"]
          /\ owner' = [owner EXCEPT ![t] = r.user]
          /\ login' = [login EXCEPT ![t] = IF r.from = NoToken THEN t ELSE login[r.from]]
    BY <1>2 DEF Issue
  <2> DEFINE l == IF r.from = NoToken THEN t ELSE login[r.from]
  <2>2. /\ state'[t] = "live" /\ login'[t] = l /\ owner'[t] = r.user
        /\ \A x \in Tokens \ {t} :
             state'[x] = state[x] /\ login'[x] = login[x] /\ owner'[x] = owner[x]
    BY <1>a, <2>1 DEF TypeInv, TypeOK
  <2>3. r.op = "issue" /\ r.from \in Tokens \cup {NoToken} /\ r.user \in Users
    BY <1>2, <1>a, RequestElim DEF Issue
  <2>4. ~Carrying(w)'
    BY <1>2, <1>c DEF Issue
  <2>5. Sess(t) = "none" /\ Holds(t) = Nobody
    BY <2>1 DEF Sess, Holds
  <2>6. CASE r.from = NoToken
    <3>1. l = t /\ ~Carrying(w)
      BY <2>6 DEF Carrying
    <3> HIDE DEF l
    <3>2. \A x \in Tokens : ~Rotating(x) /\ ~Rotating(x)'
      BY <1>d, <1>e, <2>4, <3>1
    <3>3. Sess(t)' = "open" /\ Holds(t)' = r.user
      BY <2>2, <3>1 DEF Sess, Holds, Issued, Live
    <3>4. ASSUME NEW x \in Tokens, x # t PROVE Sess(x)' = Sess(x) /\ Holds(x)' = Holds(x)
      <4>1. /\ (Issued(x)' <=> Issued(x)) /\ login'[x] = login[x] /\ owner'[x] = owner[x]
            /\ (\E y \in Tokens : Live(y) /\ login[y] = x)' <=>
               \E y \in Tokens : Live(y) /\ login[y] = x
        <5>1. \A y \in Tokens : (Live(y) /\ login[y] = x)' <=> Live(y) /\ login[y] = x
          BY <2>1, <2>2, <3>1, <3>4 DEF Live, Issued
        <5> QED BY <2>2, <3>4, <5>1 DEF Issued
      <4> QED BY <3>2, <4>1 DEF Sess, Holds
    <3>5. Promise!Next
      BY <2>3, <2>5, <3>3, <3>4, MapOpen
    <3> QED BY <3>5
  <2>7. CASE r.from # NoToken
    <3>1. Issued(r.from) /\ l = login[r.from]
      BY <1>a, <2>3, <2>7 DEF TypeInv, NamedIssued
    <3>2. PICK k \in Tokens : k = l /\ Issued(k) /\ login[k] = k /\ k # t
      BY <1>a, <2>1, <2>3, <2>7, <3>1 DEF Families
    <3>3. \A x \in Tokens : (Rotating(x) <=> x = k) /\ ~Rotating(x)'
      BY <1>e, <2>3, <2>4, <2>7, <3>1, <3>2 DEF Rotating
    <3> HIDE DEF l
    <3>4. Sess(t)' = "none" /\ Holds(t)' = Nobody
      BY <2>2, <3>2 DEF Sess, Holds
    <3>5. Sess(k)' = Sess(k) /\ Holds(k)' = Holds(k)
      <4>1. Sess(k) = "open"
        BY <3>2, <3>3 DEF Sess
      <4>2. Live(t)' /\ login'[t] = k /\ Issued(k)' /\ login'[k] = k /\ owner'[k] = owner[k]
        BY <2>2, <3>2 DEF Live, Issued
      <4> QED BY <3>2, <4>1, <4>2 DEF Sess, Holds
    <3>6. ASSUME NEW x \in Tokens, x # t, x # k PROVE Sess(x)' = Sess(x) /\ Holds(x)' = Holds(x)
      <4>1. \A y \in Tokens : (Live(y) /\ login[y] = x)' <=> Live(y) /\ login[y] = x
        BY <2>1, <2>2, <3>2, <3>6 DEF Live, Issued
      <4>2. (Issued(x)' <=> Issued(x)) /\ login'[x] = login[x] /\ owner'[x] = owner[x]
        BY <2>2, <3>6 DEF Issued
      <4> QED BY <3>3, <3>6, <4>1, <4>2 DEF Sess, Holds
    <3> QED BY <2>5, <3>4, <3>5, <3>6, MapStutter
  <2> QED BY <2>6, <2>7
<1>3. ASSUME NEW w \in Workers, NEW t \in Tokens, RefreshReuse(w, t)
      PROVE  UNCHANGED Promise!sessionVars
  <2>1. ~Carrying(w) /\ ~Carrying(w)'
    BY <1>3, <1>b DEF RefreshReuse, Carrying, Idle
  <2> QED BY <1>3, <1>g, <2>1 DEF RefreshReuse, tableVars
<1>4. ASSUME NEW w \in Workers, NEW t \in Tokens, RefreshFound(w, t)
      PROVE  UNCHANGED Promise!sessionVars
  <2>1. ~Carrying(w) /\ ~Carrying(w)'
    BY <1>4, <1>b DEF RefreshFound, Carrying, Idle
  <2> QED BY <1>4, <1>g, <2>1 DEF RefreshFound, tableVars
<1>5. ASSUME NEW w \in Workers, RefreshCheck(w) PROVE UNCHANGED Promise!sessionVars
  <2>1. ~Carrying(w)
    BY <1>5 DEF RefreshCheck, Carrying
  <2>2. ~Carrying(w)'
    <3>1. CASE Proceed(w, [op |-> "rotate", token |-> req[w].token])
      BY <1>b, <3>1 DEF Carrying
    <3>2. CASE Finish(w)
      BY <1>c, <3>2
    <3> QED BY <1>5, <3>1, <3>2 DEF RefreshCheck
  <2> QED BY <1>5, <1>g, <2>1, <2>2 DEF RefreshCheck, tableVars
<1>6. ASSUME NEW w \in Workers, Rotate(w) PROVE UNCHANGED Promise!sessionVars
  <2> DEFINE t == req[w].token
  <2>1. req[w].op = "rotate" /\ t \in Tokens /\ t # NoToken /\ Live(t)
    BY <1>6, <1>a, RequestElim DEF Rotate, Alone
  <2>2. req'[w] = [op |-> "issue", user |-> owner[t], from |-> t, pw |-> verified[t]]
    BY <1>6, <1>b DEF Rotate
  <2>3. /\ UNCHANGED <<owner, login>>
        /\ \A x \in Tokens : state'[x] = IF x = t THEN "revoked" ELSE state[x]
    BY <1>6, <1>a, <2>1 DEF Rotate, Revoke, TypeInv, TypeOK
  <2>4. PICK l \in Tokens : l = login[t] /\ Issued(l) /\ login[l] = l
    BY <1>a, <2>1 DEF Families, Live, Issued
  <2>5. \A x \in Tokens : ~Rotating(x) /\ (Rotating(x)' <=> x = l)
    <3>1. \A v \in Workers : v = w
      OBVIOUS
    <3> HIDE DEF t
    <3>2. \A x \in Tokens : Rotating(x)' <=> login'[t] = x
      BY <2>1, <2>2, <3>1 DEF Rotating
    <3> QED BY <2>1, <2>3, <2>4, <3>1, <3>2 DEF Rotating
  <2>6. \A x \in Tokens : Issued(x)' <=> Issued(x)
    BY <2>1, <2>3 DEF Issued, Live
  <2> HIDE DEF t
  <2>7. Sess(l) = "open" /\ Sess(l)' = "open"
    BY <2>1, <2>3, <2>4, <2>5, <2>6 DEF Sess
  <2>8. ASSUME NEW x \in Tokens, x # l PROVE Sess(x)' = Sess(x)
    <3>1. \A y \in Tokens : (Live(y) /\ login[y] = x)' <=> Live(y) /\ login[y] = x
      BY <2>3, <2>4, <2>8 DEF Live
    <3> QED BY <2>3, <2>5, <2>6, <2>8, <3>1 DEF Sess
  <2>9. \A x \in Tokens : Holds(x)' = Holds(x)
    BY <2>3, <2>6 DEF Holds
  <2> QED BY <2>7, <2>8, <2>9, MapStutter
<1>7. ASSUME NEW w \in Workers, Kill(w) PROVE Promise!Next
  <2> DEFINE u == req[w].user
  <2>1. req[w].op = "kill" /\ u \in Users
    BY <1>7, <1>a, RequestElim DEF Kill
  <2>2. /\ UNCHANGED <<owner, login>>
        /\ \A x \in Tokens : state'[x] = IF Live(x) /\ owner[x] = u THEN "revoked" ELSE state[x]
    BY <1>7 DEF Kill
  <2>3. ~Carrying(w) /\ ~Carrying(w)'
    <3>1. req'[w] = Idle
      BY <1>7, <1>a DEF Kill, TypeInv, TypeOK
    <3> QED BY <2>1, <3>1 DEF Carrying, Idle
  <2>4. \A x \in Tokens : ~Rotating(x) /\ ~Rotating(x)'
    BY <1>d, <1>e, <2>3
  <2>5. \A x \in Tokens : (Issued(x)' <=> Issued(x)) /\ (Live(x)' <=> Live(x) /\ owner[x] # u)
    BY <2>2 DEF Issued, Live
  <2>6. \A x \in Tokens : Holds(x)' = Holds(x)
    BY <2>2, <2>5 DEF Holds
  <2> HIDE DEF u
  <2>7. ASSUME NEW x \in Tokens
        PROVE  Sess(x)' = IF Sess(x) = "open" /\ Holds(x) = u THEN "ended" ELSE Sess(x)
    <3>1. CASE ~Issued(x) \/ login[x] # x
      BY <2>2, <2>5, <3>1 DEF Sess
    <3>2. CASE Issued(x) /\ login[x] = x
      <4>1. \A y \in Tokens : Live(y) /\ login[y] = x => owner[y] = owner[x]
        BY <1>a, <3>2 DEF Families, Live, Issued
      <4>2. Holds(x) = owner[x]
        BY <3>2 DEF Holds
      <4>3. Sess(x) = IF \E y \in Tokens : Live(y) /\ login[y] = x THEN "open" ELSE "ended"
        BY <2>4, <3>2 DEF Sess
      <4>4. Sess(x)' = IF \E y \in Tokens : Live(y) /\ owner[y] # u /\ login[y] = x
                       THEN "open" ELSE "ended"
        BY <2>2, <2>4, <2>5, <3>2 DEF Sess
      <4> QED BY <4>1, <4>2, <4>3, <4>4
    <3> QED BY <3>1, <3>2
  <2> QED BY <2>1, <2>6, <2>7, MapEndAll
<1>8. ASSUME NEW w \in Workers, NEW t \in Tokens, LogoutRead(w, t)
      PROVE  UNCHANGED Promise!sessionVars
  <2>1. ~Carrying(w) /\ ~Carrying(w)'
    BY <1>8, <1>b DEF LogoutRead, Carrying, Idle
  <2> QED BY <1>8, <1>g, <2>1 DEF LogoutRead, tableVars
<1>9. ASSUME NEW w \in Workers, LogoutRevoke(w) PROVE [Promise!Next]_Promise!sessionVars
  <2> DEFINE t == req[w].token
  <2>1. req[w].op = "drop" /\ t \in Tokens
    BY <1>9, <1>a, RequestElim DEF LogoutRevoke
  <2>2. ~Carrying(w) /\ ~Carrying(w)'
    BY <1>9, <1>c, <2>1 DEF LogoutRevoke, Carrying
  <2>3. UNCHANGED <<owner, login>> /\ Revoke(t)
    BY <1>9 DEF LogoutRevoke
  <2>4. CASE ~Live(t)
    <3>1. state' = state
      BY <1>a, <2>1, <2>3, <2>4 DEF Revoke, TypeInv, TypeOK
    <3> QED BY <1>g, <2>2, <2>3, <3>1
  <2>5. CASE Live(t)
    <3>1. \A x \in Tokens : state'[x] = IF x = t THEN "revoked" ELSE state[x]
      BY <1>a, <2>1, <2>3, <2>5 DEF Revoke, TypeInv, TypeOK
    <3>2. PICK l \in Tokens : l = login[t] /\ Issued(l) /\ login[l] = l
      BY <1>a, <2>1, <2>5 DEF Families, Live, Issued
    <3>3. \A x \in Tokens : ~Rotating(x) /\ ~Rotating(x)'
      BY <1>d, <1>e, <2>2
    <3>4. \A x \in Tokens : (Issued(x)' <=> Issued(x)) /\ (Live(x)' <=> Live(x) /\ x # t)
      BY <2>5, <3>1 DEF Issued, Live
    <3>5. \A y \in Tokens : Live(y) /\ login[y] = l => y = t
      BY <1>a, <2>1, <2>5, <3>2 DEF OneInv, OneLivePerLogin
    <3> HIDE DEF t
    <3>6. Sess(l) = "open"
      BY <2>1, <2>5, <3>2 DEF Sess
    <3>7. Sess(l)' = "ended"
      BY <2>3, <3>2, <3>3, <3>4, <3>5 DEF Sess
    <3>8. ASSUME NEW x \in Tokens, x # l PROVE Sess(x)' = Sess(x)
      <4>1. \A y \in Tokens : (Live(y) /\ login[y] = x)' <=> Live(y) /\ login[y] = x
        BY <2>3, <3>2, <3>4, <3>8
      <4> QED BY <2>3, <3>3, <3>4, <4>1 DEF Sess
    <3>9. \A x \in Tokens : Holds(x)' = Holds(x)
      BY <2>3, <3>4 DEF Holds
    <3>10. Promise!Next
      BY <3>2, <3>6, <3>7, <3>8, <3>9, MapEnd
    <3> QED BY <3>10
  <2> QED BY <2>4, <2>5
<1>10. ASSUME NEW w \in Workers, NEW u \in Users, ResetPassword(w, u)
       PROVE  UNCHANGED Promise!sessionVars
  <2>1. ~Carrying(w) /\ ~Carrying(w)'
    BY <1>10, <1>b DEF ResetPassword, Carrying, Idle
  <2> QED BY <1>10, <1>g, <2>1 DEF ResetPassword
<1>11. ASSUME NEW w \in Workers, NEW u \in Users, ChangeRead(w, u)
       PROVE  UNCHANGED Promise!sessionVars
  <2>1. ~Carrying(w) /\ ~Carrying(w)'
    BY <1>11, <1>b DEF ChangeRead, Carrying, Idle
  <2> QED BY <1>11, <1>g, <2>1 DEF ChangeRead, tableVars
<1>12. ASSUME NEW w \in Workers, ChangeWrite(w) PROVE UNCHANGED Promise!sessionVars
  <2>1. ~Carrying(w) /\ ~Carrying(w)'
    BY <1>12, <1>c DEF ChangeWrite, Carrying
  <2> QED BY <1>12, <1>g, <2>1 DEF ChangeWrite
<1>13. ASSUME NEW w \in Workers, Abort(w) PROVE [Promise!Next]_Promise!sessionVars
  <2>1. UNCHANGED <<state, owner, login>> /\ ~Carrying(w)'
    BY <1>13, <1>c DEF Abort, tableVars
  <2>2. CASE ~Carrying(w)
    BY <1>g, <2>1, <2>2
  <2>3. CASE Carrying(w)
    <3> DEFINE f == req[w].from
    <3>1. req[w].op = "issue" /\ f \in Tokens /\ Issued(f)
      BY <1>a, <2>3, RequestElim DEF Carrying, TypeInv, NamedIssued
    <3>2. PICK l \in Tokens : l = login[f] /\ Issued(l) /\ login[l] = l
      BY <1>a, <3>1 DEF Families
    <3>3. \A x \in Tokens : (Rotating(x) <=> x = l) /\ ~Rotating(x)'
      BY <1>e, <2>1, <2>3, <3>2 DEF Rotating, Carrying
    <3>4. \A y \in Tokens : ~(Live(y) /\ login[y] = l)
      BY <1>a, <2>3, <3>2 DEF Alone, Carrying
    <3> HIDE DEF f
    <3>5. Sess(l) = "open" /\ Sess(l)' = "ended"
      BY <2>1, <3>2, <3>3, <3>4 DEF Sess, Issued, Live
    <3>6. \A x \in Tokens : x # l => Sess(x)' = Sess(x)
      BY <2>1, <3>3 DEF Sess, Issued, Live
    <3>7. \A x \in Tokens : Holds(x)' = Holds(x)
      BY <2>1 DEF Holds, Issued
    <3>8. Promise!Next
      BY <3>2, <3>5, <3>6, <3>7, MapEnd
    <3> QED BY <3>8
  <2> QED BY <2>2, <2>3
<1>14. ASSUME UNCHANGED <<state, owner, login, req>> PROVE UNCHANGED Promise!sessionVars
  BY <1>14, <1>f DEF Rotating
<1>15. ASSUME NEW u, NEW b, SetActive(u, b) PROVE UNCHANGED Promise!sessionVars
  BY <1>14, <1>15 DEF SetActive, historyVars
<1>16. ASSUME NEW t, Expire(t) PROVE UNCHANGED Promise!sessionVars
  BY <1>14, <1>16 DEF Expire, historyVars
<1>17. CASE UNCHANGED vars
  BY <1>14, <1>17 DEF vars, tableVars, historyVars
<1> QED
  BY <1>1, <1>2, <1>3, <1>4, <1>5, <1>6, <1>7, <1>8, <1>9, <1>10, <1>11, <1>12, <1>13,
     <1>15, <1>16, <1>17 DEF Next

\* With one request at a time the endpoints implement Sessions: a login opens a
\* session that its rotations carry on, that ends once, alone or with all of its
\* user's, and that never opens again, crashes between two statements included.
THEOREM EndpointsKeepSessions ==
    ASSUME \A v, w \in Workers : v = w
    PROVE  Spec => PromiseKept
<1>1. Init => RefInv
  <2>1. Init => OneInv /\ Families
    BY DEF Init, OneInv, Rooted, OneLivePerLogin, Alone, Families, Issued, Live, Idle
  <2> QED BY <2>1, InitType, InitSession DEF RefInv
<1>2. RefInv /\ [Next]_vars => RefInv'
  BY NextType, NextSession, NextOne, NextFamilies DEF RefInv
<1>3. Init => Promise!Init
  BY DEF Init, Promise!Init, Issued
<1>4. RefInv /\ [Next]_vars => [Promise!Next]_Promise!sessionVars
  BY NextMaps
<1> QED BY <1>1, <1>2, <1>3, <1>4, PTL DEF Spec, PromiseKept, Promise!Spec
==============================================================================
