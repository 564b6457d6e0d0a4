----------------------------- MODULE AuthClient ------------------------------
(***************************************************************************)
(* The browser's side of a session: the axios client whose interceptor      *)
(* answers a 401 by refreshing the access token once for all waiting calls, *)
(* the auth store that holds the access token, and the cookie jar that all  *)
(* tabs of the browser share.  One user is logged in, in several tabs, each *)
(* with its own store and its own refreshPromise.                           *)
(*                                                                          *)
(* A call is sent with the bearer and the cookie of that moment, served in  *)
(* one step (the server's own interleavings are the subject of AuthSessions)*)
(* and answered later; answers of different calls arrive in any order, and  *)
(* the browser applies Set-Cookie when an answer arrives.  What runs in one *)
(* turn of the event loop, microtasks included, is one step.                *)
(***************************************************************************)
EXTENDS Integers, FiniteSets

CONSTANTS
    Tabs,     \* tabs of one browser
    Slots,    \* room for calls in flight
    TabOf,    \* the tab a slot belongs to
    MaxToken, \* refresh tokens that jar, calls and server can tell apart
    Kinds,    \* the calls the user and the pages start
    Failures  \* may requests fail and answers get lost?

\* "me" is loadMe, whose failure clears the store; "app" is any other call.
PageKinds == {"app", "me", "login", "logout"}

Tokens == 1 .. MaxToken
NoCookie == 0
Keep == -1       \* an answer without Set-Cookie

ASSUME ClientAssumption ==
    /\ TabOf \in [Slots -> Tabs]
    /\ MaxToken \in Nat \ {0}
    /\ Kinds \subseteq PageKinds
    /\ Failures \in BOOLEAN

VARIABLES
    access,  \* per tab: the store's access token
    promise, \* per tab: is refreshPromise set?
    call,    \* per slot: the call in flight
    jar,     \* the refresh_token cookie
    live,    \* server: the refresh tokens it accepts
    excused  \* history: tokens lost to an alarm, a failure or a lost answer

vars == <<access, promise, call, jar, live, excused>>

\* An access token is good until it expires, 15 minutes after it was issued.
Access == {"none", "good", "stale"}

None == [kind |-> "none", phase |-> "none"]

\* What the server reads of a request: the bearer of all but login and refresh
\* (is it good?), the cookie of logout and refresh only.
Sent(k, r, token, cookie) ==
    [kind |-> k, phase |-> "sent", retried |-> r,
     bearer |-> token = "good" /\ k \notin {"login", "refresh"},
     cookie |-> IF k \in {"logout", "refresh"} THEN cookie ELSE NoCookie]

\* The presented cookie is kept while an answer that changes the jar is under way.
Answered(k, r, cookie, status, set) ==
    [kind |-> k, phase |-> "answered", retried |-> r, status |-> status, set |-> set,
     cookie |-> IF set = Keep THEN NoCookie ELSE cookie]

\* Awaiting refreshPromise in the interceptor.
Waiting(k) == [kind |-> k, phase |-> "waiting"]

Call ==
    {None}
    \cup [kind : PageKinds \cup {"refresh"}, phase : {"sent"}, retried : BOOLEAN,
          bearer : BOOLEAN, cookie : {NoCookie} \cup Tokens]
    \cup [kind : PageKinds \cup {"refresh"}, phase : {"answered"}, retried : BOOLEAN,
          cookie : {NoCookie} \cup Tokens, status : {"ok", "401", "failed"},
          set : {Keep, NoCookie} \cup Tokens]
    \cup [kind : PageKinds \cup {"refresh"}, phase : {"waiting"}]

TypeOK ==
    /\ access \in [Tabs -> Access]
    /\ promise \in [Tabs -> BOOLEAN]
    /\ call \in [Slots -> Call]
    /\ jar \in {NoCookie} \cup Tokens
    /\ live \subseteq Tokens
    /\ excused \subseteq Tokens

\* The user has just logged in; every tab read the token from localStorage.
Init ==
    /\ access = [t \in Tabs |-> "good"]
    /\ promise = [t \in Tabs |-> FALSE]
    /\ call = [s \in Slots |-> None]
    /\ jar = 1
    /\ live = {1}
    /\ excused = {}

------------------------------------------------------------------------------

SlotsOf(t) == {s \in Slots : TabOf[s] = t}
Free(s) == call[s] = None

\* The tokens somebody can still present.
Held ==
    {jar}
    \cup {call[s].cookie : s \in {r \in Slots : call[r].phase \in {"sent", "answered"}}}
    \cup {call[s].set : s \in {r \in Slots : call[r].phase = "answered"}}

\* The server's next token: the least one that nobody holds.
Fresh(n) == n \in Tokens \ Held /\ \A m \in Tokens \ Held : n <= m

\* Mutant of Wake: the resent call forgets that it was sent before.
WakeForgets(calls, t, token, cookie) ==
    [s \in Slots |->
        IF TabOf[s] = t /\ calls[s].phase = "waiting"
        THEN IF token # "none" THEN Sent(calls[s].kind, FALSE, token, cookie) ELSE None
        ELSE calls[s]]

\* The promise settled: waiting calls are resent if there is a token, and
\* rejected if not.
Wake(calls, t, token, cookie) ==
    [s \in Slots |->
        IF TabOf[s] = t /\ calls[s].phase = "waiting"
        THEN IF token # "none" THEN Sent(calls[s].kind, TRUE, token, cookie) ELSE None
        ELSE calls[s]]

\* Mutant of NewJar: an answer without Set-Cookie is taken for one that has it.
NewJarAlways(s) == call[s].set

\* The jar after the answer in slot s.
NewJar(s) == IF call[s].set = Keep THEN jar ELSE call[s].set

Arrived(s) == call[s].phase = "answered"

\* The server answers the call in slot s.
Answer(s, status, set) ==
    call' = [call EXCEPT ![s] =
                Answered(call[s].kind, call[s].retried, call[s].cookie, status, set)]

ClientUnchanged == UNCHANGED <<access, promise, jar>>

\* The server accepts these tokens from now on, and those are lost; what nobody
\* can present any more is forgotten.
Server(accepted, lost) ==
    /\ live' = accepted \cap Held'
    /\ excused' = lost \cap Held'

ServerUnchanged == Server(live, excused)

------------------------------------------------------------------------------
(* Mutants: plausible slips, each put in the place of the action it is named   *)
(* after to see that a property notices.  No action uses them.                 *)

\* The rotation succeeds, and the new cookie is not set.
ServeRefreshSilently(s, n) ==
    /\ call[s].phase = "sent" /\ call[s].kind = "refresh"
    /\ call[s].cookie \in live
    /\ Fresh(n)
    /\ Answer(s, "ok", Keep)
    /\ ClientUnchanged
    /\ Server((live \ {call[s].cookie}) \cup {n}, excused)

\* Every 401 starts a refresh of its own.
UnauthorizedAlone(s) ==
    /\ Arrived(s)
    /\ call[s].status = "401"
    /\ ~call[s].retried
    /\ \E r \in SlotsOf(TabOf[s]) :
          /\ Free(r)
          /\ call' = [call EXCEPT
                        ![s] = Waiting(call[s].kind),
                        ![r] = Sent("refresh", FALSE, access[TabOf[s]], NewJar(s))]
    /\ promise' = [promise EXCEPT ![TabOf[s]] = TRUE]
    /\ jar' = NewJar(s)
    /\ ServerUnchanged
    /\ UNCHANGED access

\* A failed call resets refreshPromise along with the store.
RejectResets(s) ==
    /\ Arrived(s)
    /\ call[s].status = "failed" \/ (call[s].status = "401" /\ call[s].retried)
    /\ call[s].kind # "refresh"
    /\ access' = IF call[s].kind \in {"logout", "me"}
                 THEN [access EXCEPT ![TabOf[s]] = "none"]
                 ELSE access
    /\ promise' = [promise EXCEPT ![TabOf[s]] = FALSE]
    /\ call' = [call EXCEPT ![s] = None]
    /\ jar' = NewJar(s)
    /\ ServerUnchanged

------------------------------------------------------------------------------
(* The pages *)

\* One more slot stays free, so that a 401 can always start its refresh.
Start(s, k) ==
    /\ Free(s)
    /\ \E r \in SlotsOf(TabOf[s]) \ {s} : Free(r)
    /\ call' = [call EXCEPT ![s] = Sent(k, FALSE, access[TabOf[s]], jar)]
    /\ UNCHANGED <<access, promise, jar, live, excused>>

\* The tab's access token reaches its end, in the store and in its calls.
Expire(t) ==
    /\ access[t] = "good"
    /\ access' = [access EXCEPT ![t] = "stale"]
    /\ call' = [s \in Slots |->
                   IF TabOf[s] = t /\ call[s].phase = "sent"
                   THEN Sent(call[s].kind, call[s].retried, "stale", call[s].cookie)
                   ELSE call[s]]
    /\ UNCHANGED <<promise, jar, live, excused>>

------------------------------------------------------------------------------
(* The server *)

Serving(s, kinds) == call[s].phase = "sent" /\ call[s].kind \in kinds

\* bearerAuth stands before logout and all calls of the pages.
ServeUnauthorized(s) ==
    /\ Serving(s, {"app", "me", "logout"})
    /\ ~call[s].bearer
    /\ Answer(s, "401", Keep)
    /\ ClientUnchanged /\ ServerUnchanged

ServePage(s) ==
    /\ Serving(s, {"app", "me"})
    /\ call[s].bearer
    /\ Answer(s, "ok", Keep)
    /\ ClientUnchanged /\ ServerUnchanged

ServeLogout(s) ==
    /\ Serving(s, {"logout"})
    /\ call[s].bearer
    /\ Answer(s, "ok", NoCookie)
    /\ ClientUnchanged
    /\ Server(live \ {call[s].cookie}, excused)

ServeLogin(s, n) ==
    /\ Serving(s, {"login"})
    /\ Fresh(n)
    /\ Answer(s, "ok", n)
    /\ ClientUnchanged
    /\ Server(live \cup {n}, excused)

WrongPassword(s) ==
    /\ Serving(s, {"login"})
    /\ Answer(s, "401", Keep)
    /\ ClientUnchanged /\ ServerUnchanged

ServeRefresh(s, n) ==
    /\ Serving(s, {"refresh"})
    /\ call[s].cookie \in live
    /\ Fresh(n)
    /\ Answer(s, "ok", n)
    /\ ClientUnchanged
    /\ Server((live \ {call[s].cookie}) \cup {n}, excused)

RefreshMissing(s) ==
    /\ Serving(s, {"refresh"})
    /\ call[s].cookie = NoCookie
    /\ Answer(s, "401", Keep)
    /\ ClientUnchanged /\ ServerUnchanged

\* The refresh token is past its 7 days; it stays unrevoked.
RefreshExpired(s) ==
    /\ Serving(s, {"refresh"})
    /\ call[s].cookie \in live
    /\ Answer(s, "401", NoCookie)
    /\ ClientUnchanged /\ ServerUnchanged

\* A revoked token: every session of the user ends.
RefreshReused(s) ==
    /\ Serving(s, {"refresh"})
    /\ call[s].cookie \in Tokens \ live
    /\ Answer(s, "401", NoCookie)
    /\ ClientUnchanged
    /\ Server({}, Tokens)

\* 403: the account was deactivated.
RefreshInactive(s) ==
    /\ Failures
    /\ Serving(s, {"refresh"})
    /\ call[s].cookie \in live
    /\ Answer(s, "failed", NoCookie)
    /\ ClientUnchanged /\ ServerUnchanged

\* 429, 5xx or no connection, before anything was written.
ServeFails(s) ==
    /\ Failures
    /\ call[s].phase = "sent"
    /\ Answer(s, "failed", Keep)
    /\ ClientUnchanged /\ ServerUnchanged

\* 500 between the revocation of the old token and the insert of the new one.
RefreshHalf(s) ==
    /\ Failures
    /\ Serving(s, {"refresh"})
    /\ call[s].cookie \in live
    /\ Answer(s, "failed", Keep)
    /\ ClientUnchanged
    /\ Server(live \ {call[s].cookie}, excused \cup {call[s].cookie})

\* The answer never arrives: the client sees a network error.
Lose(s) ==
    /\ Failures
    /\ Arrived(s)
    /\ call[s].status # "failed"
    /\ Answer(s, "failed", Keep)
    /\ ClientUnchanged
    /\ Server(live, excused \cup ({call[s].cookie} \cap Tokens))

------------------------------------------------------------------------------
(* The client *)

Succeed(s) ==
    /\ Arrived(s)
    /\ call[s].kind # "refresh"
    /\ call[s].status = "ok"
    /\ access' = CASE call[s].kind = "login"  -> [access EXCEPT ![TabOf[s]] = "good"]
                   [] call[s].kind = "logout" -> [access EXCEPT ![TabOf[s]] = "none"]
                   [] OTHER                   -> access
    /\ call' = [call EXCEPT ![s] = None]
    /\ jar' = NewJar(s)
    /\ ServerUnchanged
    /\ UNCHANGED promise

\* A first 401 waits for the refresh under way, or starts one.
Unauthorized(s) ==
    /\ Arrived(s)
    /\ call[s].status = "401"
    /\ ~call[s].retried
    /\ LET t == TabOf[s] IN
       \/ /\ promise[t]
          /\ call' = [call EXCEPT ![s] = Waiting(call[s].kind)]
       \/ /\ ~promise[t]
          /\ \E r \in SlotsOf(t) :
                /\ Free(r)
                /\ call' = [call EXCEPT
                              ![s] = Waiting(call[s].kind),
                              ![r] = Sent("refresh", FALSE, access[t], NewJar(s))]
    /\ promise' = [promise EXCEPT ![TabOf[s]] = TRUE]
    /\ jar' = NewJar(s)
    /\ ServerUnchanged
    /\ UNCHANGED access

Rejected(s) ==
    Arrived(s) /\ (call[s].status = "failed" \/ (call[s].status = "401" /\ call[s].retried))

\* logout and loadMe clear the store when their call fails.
Reject(s) ==
    /\ Rejected(s)
    /\ call[s].kind # "refresh"
    /\ access' = IF call[s].kind \in {"logout", "me"}
                 THEN [access EXCEPT ![TabOf[s]] = "none"]
                 ELSE access
    /\ call' = [call EXCEPT ![s] = None]
    /\ jar' = NewJar(s)
    /\ ServerUnchanged
    /\ UNCHANGED promise

RefreshSucceeds(s) ==
    /\ Arrived(s)
    /\ call[s].kind = "refresh"
    /\ call[s].status = "ok"
    /\ LET t == TabOf[s] IN
       /\ access' = [access EXCEPT ![t] = "good"]
       /\ promise' = [promise EXCEPT ![t] = FALSE]
       /\ call' = Wake([call EXCEPT ![s] = None], t, "good", NewJar(s))
    /\ jar' = NewJar(s)
    /\ ServerUnchanged

\* The catch: logout() is called and not awaited; the waiting calls go on with
\* the token the store still has.
RefreshFails(s) ==
    /\ Rejected(s)
    /\ call[s].kind = "refresh"
    /\ LET t == TabOf[s] IN
       /\ promise' = [promise EXCEPT ![t] = FALSE]
       /\ call' = Wake([call EXCEPT ![s] = Sent("logout", FALSE, access[t], NewJar(s))],
                       t, access[t], NewJar(s))
    /\ jar' = NewJar(s)
    /\ ServerUnchanged
    /\ UNCHANGED access

------------------------------------------------------------------------------

Serve(s) ==
    \/ ServeUnauthorized(s)
    \/ ServePage(s)
    \/ ServeLogout(s)
    \/ \E n \in Tokens : ServeLogin(s, n)
    \/ WrongPassword(s)
    \/ \E n \in Tokens : ServeRefresh(s, n)
    \/ RefreshMissing(s)
    \/ RefreshExpired(s)
    \/ RefreshReused(s)
    \/ RefreshInactive(s)
    \/ ServeFails(s)
    \/ RefreshHalf(s)

Arrive(s) ==
    \/ Succeed(s)
    \/ Unauthorized(s)
    \/ Reject(s)
    \/ RefreshSucceeds(s)
    \/ RefreshFails(s)

Next ==
    \/ \E s \in Slots, k \in Kinds : Start(s, k)
    \/ \E t \in Tabs : Expire(t)
    \/ \E s \in Slots : Serve(s)
    \/ \E s \in Slots : Lose(s)
    \/ \E s \in Slots : Arrive(s)

Spec == Init /\ [][Next]_vars

\* Every request is answered or fails in the end, and the event loop runs.  A
\* 401 that finds no free slot for its refresh waits for one, which no browser
\* does: strong fairness makes up for this bound.
Fairness == \A s \in Slots : WF_vars(Serve(s)) /\ SF_vars(Arrive(s))

FairSpec == Spec /\ Fairness

------------------------------------------------------------------------------
(* Properties that hold *)

\* The single-flight refresh: however many calls of a tab meet a 401, only one
\* refresh is in flight ("prevents thundering herd on 401").
OneRefreshPerTab ==
    \A s, r \in Slots :
        call[s].kind = "refresh" /\ call[r].kind = "refresh" /\ TabOf[s] = TabOf[r] => s = r

\* A call waits only while a refresh of its tab is there to wake it, and
\* refreshPromise is set exactly as long.
WaitersHaveARefresh ==
    \A t \in Tabs :
        /\ promise[t] <=> \E r \in SlotsOf(t) : call[r].kind = "refresh"
        /\ \A s \in SlotsOf(t) : call[s].phase = "waiting" => promise[t]

\* The jar and the server agree on the token, in whatever order the answers of
\* several tabs arrive: the jar holds a token the server no longer accepts only
\* while the answer that replaces it is on its way, or after an alarm, a
\* failure or a lost answer took it.
JarFollowsServer ==
    jar \in Tokens \ live =>
        \/ jar \in excused
        \/ \E s \in Slots : Arrived(s) /\ call[s].cookie = jar /\ call[s].set # Keep

\* A refresh of the tab was itself answered with 401.
Refused(t) == \E s \in SlotsOf(t) : call[s].kind = "refresh" /\ call[s].phase = "waiting"

\* A call of a page, or the logout after a failed refresh, is in slot s.
Busy(s) == call[s].kind \in PageKinds

\* Every call comes to an end, whatever fails, unless its tab's refresh was
\* answered with 401.
CallsSettleUnlessRefused ==
    \A s \in Slots : Busy(s) ~> ~Busy(s) \/ Refused(TabOf[s])

------------------------------------------------------------------------------
(* What a comment says of the code, and the code does not do *)

\* "Refresh failed -- honest logout (revokes cookie on server too)": whatever
\* the refresh is answered, the calls that wait for it come to an end.
CallsSettle ==
    \A s \in Slots : Busy(s) ~> ~Busy(s)
==============================================================================
