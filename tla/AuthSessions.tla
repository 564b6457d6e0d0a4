---------------------------- MODULE AuthSessions -----------------------------
(***************************************************************************)
(* Refresh tokens and passwords.  A login issues a refresh token; a refresh *)
(* rotates it: the presented token is revoked and a successor is issued.  A *)
(* revoked token presented again revokes every token of its user, and so    *)
(* does an administrator's password reset.                                  *)
(*                                                                          *)
(* Each handler is a chain of statements on the pool, without a transaction *)
(* and without a lock, so requests interleave between any two of them:      *)
(*                                                                          *)
(*   Login           read the user and the hash, verify, insert the token   *)
(*   Refresh         read the token, read the user, revoke, insert          *)
(*   Logout          read the token, revoke                                 *)
(*   ResetPassword   write the hash, revoke all                             *)
(*   ChangePassword  read the hash, verify, write the hash                  *)
(*                                                                          *)
(* A password is a version number, raised by every write of the hash.       *)
(* Access tokens (JWTs) are not modelled: no statement ever reads one.      *)
(***************************************************************************)
EXTENDS Naturals, FiniteSets

CONSTANTS
    Users,        \* user ids; accounts are never deleted
    Tokens,       \* refresh token ids, each issued at most once (32 random bytes)
    Nobody,       \* no user
    NoToken,      \* no token: the parent of a token issued by a login
    Workers,      \* requests in flight at the same time
    MaxPassword,  \* bound: password writes per user
    Faults        \* may a request stop between two of its statements?

ASSUME SessionAssumption ==
    /\ Nobody \notin Users
    /\ NoToken \notin Tokens
    /\ MaxPassword \in Nat
    /\ Faults \in BOOLEAN

VARIABLES
    password,   \* users.password_hash, as a version
    mustChange, \* users.must_change_password
    active,     \* users.is_active
    state,      \* refresh_tokens: no row, revoked_at IS NULL, or revoked_at set
    owner,      \* refresh_tokens.user_id
    expired,    \* the tokens whose expires_at has passed
    req,        \* what each in-flight request still has to do
    \* History, read by no action:
    parent,     \* the token a token was rotated from
    login,      \* the token its chain of rotations began with
    verified,   \* the password version its login verified
    killed,     \* the tokens that existed when all tokens of their user were revoked
    floor,      \* the password version of the last reset that finished
    overtaken   \* requests in flight when all tokens of their user were revoked

tableVars == <<password, mustChange, active, state, owner, expired>>
historyVars == <<parent, login, verified, killed, floor, overtaken>>
vars == <<tableVars, req, historyVars>>

Versions == 0..MaxPassword

Idle == [op |-> "idle"]

Request ==
    {Idle}
    \cup [op : {"check", "rotate", "drop"}, token : Tokens]
    \cup [op : {"issue"}, user : Users, from : Tokens \cup {NoToken}, pw : Versions]
    \cup [op : {"kill", "change"}, user : Users, pw : Versions]

TypeOK ==
    /\ password \in [Users -> Versions]
    /\ mustChange \in [Users -> BOOLEAN]
    /\ active \in [Users -> BOOLEAN]
    /\ state \in [Tokens -> {"none", "live", "revoked"}]
    /\ owner \in [Tokens -> Users \cup {Nobody}]
    /\ expired \subseteq Tokens
    /\ req \in [Workers -> Request]
    /\ parent \in [Tokens -> Tokens \cup {NoToken}]
    /\ login \in [Tokens -> Tokens \cup {NoToken}]
    /\ verified \in [Tokens -> Versions]
    /\ killed \subseteq Tokens
    /\ floor \in [Users -> Versions]
    /\ overtaken \subseteq Workers
    /\ \A t \in Tokens : state[t] # "none" => owner[t] \in Users /\ login[t] \in Tokens

Init ==
    /\ password = [u \in Users |-> 0]
    /\ mustChange = [u \in Users |-> FALSE]
    /\ active = [u \in Users |-> TRUE]
    /\ state = [t \in Tokens |-> "none"]
    /\ owner = [t \in Tokens |-> Nobody]
    /\ expired = {}
    /\ req = [w \in Workers |-> Idle]
    /\ parent = [t \in Tokens |-> NoToken]
    /\ login = [t \in Tokens |-> NoToken]
    /\ verified = [t \in Tokens |-> 0]
    /\ killed = {}
    /\ floor = [u \in Users |-> 0]
    /\ overtaken = {}

------------------------------------------------------------------------------

Issued(t) == state[t] # "none"
Live(t) == state[t] = "live"

\* The request goes on to its next statement, or ends.
Proceed(w, r) ==
    /\ req' = [req EXCEPT ![w] = r]
    /\ UNCHANGED overtaken

Finish(w) ==
    /\ req' = [req EXCEPT ![w] = Idle]
    /\ overtaken' = overtaken \ {w}

\* UPDATE ... SET revoked_at = now() WHERE id = t AND revoked_at IS NULL:
\* a token that is already revoked is not an error.
Revoke(t) == state' = [state EXCEPT ![t] = IF Live(t) THEN "revoked" ELSE @]

\* Whose tokens or password an in-flight request is about.
Concerns(r, u) ==
    \/ r.op \in {"check", "rotate", "drop"} /\ owner[r.token] = u
    \/ r.op \in {"issue", "kill", "change"} /\ r.user = u

------------------------------------------------------------------------------
(* Mutants: plausible slips, each put in the place of the action it is named   *)
(* after to see that a property notices.  No action uses them.                 *)

\* A hash that is not found is taken for a revoked token.
RefreshReuseUnknown(w, t) ==
    /\ req[w] = Idle
    /\ ~Live(t)
    /\ Proceed(w, [op |-> "kill", user |-> owner[t], pw |-> 0])
    /\ UNCHANGED <<tableVars, parent, login, verified, killed, floor>>

\* The lookup forgets revoked_at.
RefreshFoundRevoked(w, t) ==
    /\ req[w] = Idle
    /\ Issued(t)
    /\ t \notin expired
    /\ Proceed(w, [op |-> "check", token |-> t])
    /\ UNCHANGED <<tableVars, parent, login, verified, killed, floor>>

\* The rotation issues without revoking.
RotateKeepsOld(w) ==
    /\ req[w].op = "rotate"
    /\ LET t == req[w].token IN
       Proceed(w, [op |-> "issue", user |-> owner[t], from |-> t, pw |-> verified[t]])
    /\ UNCHANGED <<tableVars, parent, login, verified, killed, floor>>

\* RevokeAll without "user_id = $1".
KillEverybody(w) ==
    /\ req[w].op = "kill"
    /\ LET u == req[w].user IN
       /\ state' = [t \in Tokens |-> IF Live(t) THEN "revoked" ELSE state[t]]
       /\ killed' = killed \cup {t \in Tokens : owner[t] = u}
       /\ floor' = [floor EXCEPT ![u] = IF req[w].pw > @ THEN req[w].pw ELSE @]
       /\ overtaken' = (overtaken \cup {v \in Workers : Concerns(req[v], u)}) \ {w}
       /\ req' = [req EXCEPT ![w] = Idle]
    /\ UNCHANGED <<password, mustChange, active, owner, expired, parent, login, verified>>

------------------------------------------------------------------------------
(* Login *)

\* One SELECT gives the hash and is_active; a request with the wrong password
\* or an inactive account ends here and changes nothing.
LoginRead(w, u) ==
    /\ req[w] = Idle
    /\ active[u]
    /\ Proceed(w, [op |-> "issue", user |-> u, from |-> NoToken, pw |-> password[u]])
    /\ UNCHANGED <<tableVars, parent, login, verified, killed, floor>>

\* The INSERT that ends Login and Refresh.
Issue(w) ==
    /\ req[w].op = "issue"
    /\ \E t \in Tokens :
         /\ ~Issued(t)
         /\ state' = [state EXCEPT ![t] = "live"]
         /\ owner' = [owner EXCEPT ![t] = req[w].user]
         /\ parent' = [parent EXCEPT ![t] = req[w].from]
         /\ login' = [login EXCEPT ![t] =
                         IF req[w].from = NoToken THEN t ELSE login[req[w].from]]
         /\ verified' = [verified EXCEPT ![t] = req[w].pw]
    /\ Finish(w)
    /\ UNCHANGED <<password, mustChange, active, expired, killed, floor>>

------------------------------------------------------------------------------
(* Refresh *)

RefreshReuse(w, t) ==
    /\ req[w] = Idle
    /\ state[t] = "revoked"
    /\ Proceed(w, [op |-> "kill", user |-> owner[t], pw |-> 0])
    /\ UNCHANGED <<tableVars, parent, login, verified, killed, floor>>

RefreshFound(w, t) ==
    /\ req[w] = Idle
    /\ Live(t)
    /\ t \notin expired
    /\ Proceed(w, [op |-> "check", token |-> t])
    /\ UNCHANGED <<tableVars, parent, login, verified, killed, floor>>

RefreshCheck(w) ==
    /\ req[w].op = "check"
    /\ LET t == req[w].token IN
       IF active[owner[t]] THEN Proceed(w, [op |-> "rotate", token |-> t]) ELSE Finish(w)
    /\ UNCHANGED <<tableVars, parent, login, verified, killed, floor>>

Rotate(w) ==
    /\ req[w].op = "rotate"
    /\ LET t == req[w].token IN
       /\ Revoke(t)
       /\ Proceed(w, [op |-> "issue", user |-> owner[t], from |-> t, pw |-> verified[t]])
    /\ UNCHANGED <<password, mustChange, active, owner, expired,
                   parent, login, verified, killed, floor>>

\* RevokeAll, for a reused token or after a reset.
Kill(w) ==
    /\ req[w].op = "kill"
    /\ LET u == req[w].user IN
       /\ state' = [t \in Tokens |->
                       IF Live(t) /\ owner[t] = u THEN "revoked" ELSE state[t]]
       /\ killed' = killed \cup {t \in Tokens : owner[t] = u}
       /\ floor' = [floor EXCEPT ![u] = IF req[w].pw > @ THEN req[w].pw ELSE @]
       /\ overtaken' = (overtaken \cup {v \in Workers : Concerns(req[v], u)}) \ {w}
       /\ req' = [req EXCEPT ![w] = Idle]
    /\ UNCHANGED <<password, mustChange, active, owner, expired, parent, login, verified>>

------------------------------------------------------------------------------
(* Logout *)

LogoutRead(w, t) ==
    /\ req[w] = Idle
    /\ Issued(t)
    /\ Proceed(w, [op |-> "drop", token |-> t])
    /\ UNCHANGED <<tableVars, parent, login, verified, killed, floor>>

LogoutRevoke(w) ==
    /\ req[w].op = "drop"
    /\ Revoke(req[w].token)
    /\ Finish(w)
    /\ UNCHANGED <<password, mustChange, active, owner, expired,
                   parent, login, verified, killed, floor>>

------------------------------------------------------------------------------
(* Passwords and accounts *)

ResetPassword(w, u) ==
    /\ req[w] = Idle
    /\ password[u] < MaxPassword
    /\ password' = [password EXCEPT ![u] = @ + 1]
    /\ mustChange' = [mustChange EXCEPT ![u] = TRUE]
    /\ Proceed(w, [op |-> "kill", user |-> u, pw |-> password[u] + 1])
    /\ UNCHANGED <<active, state, owner, expired, parent, login, verified, killed, floor>>

\* The caller proves that he knows the current password.
ChangeRead(w, u) ==
    /\ req[w] = Idle
    /\ Proceed(w, [op |-> "change", user |-> u, pw |-> password[u]])
    /\ UNCHANGED <<tableVars, parent, login, verified, killed, floor>>

\* Leaves every token as it is.
ChangeWrite(w) ==
    /\ req[w].op = "change"
    /\ LET u == req[w].user IN
       /\ password[u] < MaxPassword
       /\ password' = [password EXCEPT ![u] = @ + 1]
       /\ mustChange' = [mustChange EXCEPT ![u] = FALSE]
    /\ Finish(w)
    /\ UNCHANGED <<active, state, owner, expired, parent, login, verified, killed, floor>>

\* An administrator edits is_active; tokens are left as they are.
SetActive(u, b) ==
    /\ active' = [active EXCEPT ![u] = b]
    /\ UNCHANGED <<password, mustChange, state, owner, expired, req, historyVars>>

\* Time passes; the expiry of a revoked token is never looked at.
Expire(t) ==
    /\ Live(t)
    /\ expired' = expired \cup {t}
    /\ UNCHANGED <<password, mustChange, active, state, owner, req, historyVars>>

\* A crash, a database error or a client that hangs up ends a request after
\* any of its statements; a failing RevokeAll is ignored and ends alike.
Abort(w) ==
    /\ Faults
    /\ req[w] # Idle
    /\ Finish(w)
    /\ UNCHANGED <<tableVars, parent, login, verified, killed, floor>>

------------------------------------------------------------------------------

Next ==
    \/ \E w \in Workers, u \in Users : LoginRead(w, u)
    \/ \E w \in Workers : Issue(w)
    \/ \E w \in Workers, t \in Tokens : RefreshReuse(w, t)
    \/ \E w \in Workers, t \in Tokens : RefreshFound(w, t)
    \/ \E w \in Workers : RefreshCheck(w)
    \/ \E w \in Workers : Rotate(w)
    \/ \E w \in Workers : Kill(w)
    \/ \E w \in Workers, t \in Tokens : LogoutRead(w, t)
    \/ \E w \in Workers : LogoutRevoke(w)
    \/ \E w \in Workers, u \in Users : ResetPassword(w, u)
    \/ \E w \in Workers, u \in Users : ChangeRead(w, u)
    \/ \E w \in Workers : ChangeWrite(w)
    \/ \E u \in Users, b \in BOOLEAN : SetActive(u, b)
    \/ \E t \in Tokens : Expire(t)
    \/ \E w \in Workers : Abort(w)

Spec == Init /\ [][Next]_vars

------------------------------------------------------------------------------
(* Properties that hold *)

\* Rotation revokes before it issues, in every interleaving: no usable token
\* ever has a successor.
NoLiveAncestor ==
    \A t \in Tokens : Issued(t) /\ parent[t] # NoToken => state[parent[t]] = "revoked"

\* A live token that a kill was meant to end: a successor of a token the kill
\* met, or a login with a password the finished reset replaced.
Outdated(t) ==
    /\ Live(t)
    /\ \/ parent[t] \in killed
       \/ parent[t] = NoToken /\ verified[t] < floor[owner[t]]

\* Only a request that was already in flight when the kill ran leaves a
\* session behind it: a kill is final for everything that starts after it.
SurvivorsWereInFlight ==
    [][\A t \in Tokens :
         ~Outdated(t) /\ Outdated(t)' => \E w \in overtaken : Issue(w)]_vars

\* A session ends only by a logout or a rotation that presents its own token,
\* or by a kill for its own user: never on behalf of somebody else.
EndedByItsOwner ==
    [][\A t \in Tokens : Live(t) /\ ~Live(t)' =>
         \E w \in Workers :
            \/ req[w].op \in {"rotate", "drop"} /\ req[w].token = t
            \/ req[w].op = "kill" /\ req[w].user = owner[t]]_vars

\* With one request at a time a login has at most one usable token.
OneLivePerLogin ==
    \A t1, t2 \in Tokens : Live(t1) /\ Live(t2) /\ login[t1] = login[t2] => t1 = t2

\* With one request at a time the endpoints implement Sessions.  A login's
\* session is open while one of its tokens is live or a rotation of it is
\* between its revoke and its insert.
Rotating(l) ==
    \E w \in Workers :
        req[w].op = "issue" /\ req[w].from # NoToken /\ login[req[w].from] = l

Promise ==
    INSTANCE Sessions WITH
        Logins <- Tokens,
        session <- [l \in Tokens |->
            IF ~Issued(l) \/ login[l] # l THEN "none"
            ELSE IF Rotating(l) \/ \E t \in Tokens : Live(t) /\ login[t] = l THEN "open"
            ELSE "ended"],
        holder <- [l \in Tokens |-> IF Issued(l) /\ login[l] = l THEN owner[l] ELSE Nobody]

PromiseKept == Promise!Spec

------------------------------------------------------------------------------
(* What a test says of the code, and the code does not do *)

\* "Presenting a rotated (now-revoked) token must nuke all sessions": after the
\* kill no session that existed at that time goes on.
KillIsFinal == \A t \in Tokens : Live(t) => parent[t] \notin killed
==============================================================================
