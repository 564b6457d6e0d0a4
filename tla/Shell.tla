-------------------------------- MODULE Shell --------------------------------
(***************************************************************************)
(* The frame the pages of the browser application live in, in every tab:    *)
(* the guard that sends a tab to the login page or to the page for a new    *)
(* password, the way back from there, and the timer that logs an idle user  *)
(* out.  The tabs share the browser's storage and its session at the        *)
(* server; what they keep in memory they do not share.  They are those of   *)
(* one user, who signs in with one account.                                 *)
(***************************************************************************)
EXTENDS Naturals

CONSTANTS
    Tabs,       \* tabs of the browser
    Routes,     \* pages inside the shell
    Home,       \* the page a login leads to if nothing else was asked for
    Teams,      \* the page a new password leads to
    NoRoute,    \* nothing was asked for
    IdleLimits, \* idle times a user may choose; zero is never
    MaxSignIns, \* bound: logins
    MaxWalks    \* bound: changes of page, profiles saved, refreshes that fail

ASSUME ShellAssumption ==
    /\ {Home, Teams} \subseteq Routes
    /\ Routes \cap {"closed", "login", "password", NoRoute} = {} /\ NoRoute # "password"
    /\ IdleLimits \subseteq Nat /\ \E n \in IdleLimits : \A m \in IdleLimits : m <= n
    /\ {MaxSignIns, MaxWalks} \subseteq Nat

VARIABLES
    sessionAt,   \* the login whose session is alive at the server, zero is none
    mustChange,  \* does the user have to set a new password?
    idleChoice,  \* the idle time the server keeps for the user
    storage,     \* what the browser keeps: a login, and the user as that login saw him
    tabs,        \* each tab: its page, its login and user, where it came from,
                 \* the time on its timer, the logouts it waits for, whether it
                 \* has asked who its user is, and what it was answered
    signIns, walks,
    \* History, read by no action:
    alone,       \* time with the timer set since each tab last saw its user, or
                 \* learned of another idle time
    lastSeen     \* the page each tab last showed since its user signed out himself

shellVars == <<sessionAt, mustChange, idleChoice, storage, tabs, signIns, walks, alone, lastSeen>>

SignIns == 0..MaxSignIns
MaxIdle == CHOOSE n \in IdleLimits : \A m \in IdleLimits : m <= n
Nobody  == [login |-> 0, limit |-> 0, forced |-> FALSE]
Signed  == [login : SignIns, limit : IdleLimits \cup {0}, forced : BOOLEAN]
Users   == [limit : IdleLimits, forced : BOOLEAN]

ShellTypeOK ==
    /\ sessionAt \in SignIns
    /\ mustChange \in BOOLEAN
    /\ idleChoice \in IdleLimits
    /\ storage \in Signed
    /\ tabs \in [Tabs -> [at : Routes \cup {"closed", "login", "password"}, who : Signed,
                          from : Routes \cup {"password", NoRoute}, quiet : 0..MaxIdle,
                          leaving : SUBSET {"timer", "refresh", "user"},
                          asking : BOOLEAN, told : SUBSET Users]]
    /\ signIns \in SignIns
    /\ walks \in 0..MaxWalks
    /\ alone \in [Tabs -> 0..MaxIdle + 1]
    /\ lastSeen \in [Tabs -> Routes \cup {"password", NoRoute}]

ShellInit ==
    /\ sessionAt = 0
    /\ mustChange \in BOOLEAN
    /\ idleChoice \in IdleLimits
    /\ storage = Nobody
    /\ tabs = [t \in Tabs |-> [at |-> "closed", who |-> Nobody, from |-> NoRoute, quiet |-> 0,
                               leaving |-> {}, asking |-> FALSE, told |-> {}]]
    /\ signIns = 0 /\ walks = 0
    /\ alone = [t \in Tabs |-> 0]
    /\ lastSeen = [t \in Tabs |-> NoRoute]

-----------------------------------------------------------------------------
\* Mutant: the login page is not told where from.
RouteForgetsWhereFrom(x) ==
    IF x.at \in {"closed", "login"} THEN x
    ELSE IF x.who.login = 0 THEN [x EXCEPT !.at = "login", !.from = NoRoute]
    ELSE IF x.who.forced THEN [x EXCEPT !.at = "password", !.from = NoRoute]
    ELSE x

\* The guard: without a token to the login page, which is told where from;
\* with a password to be set to the page for it.
ProtectedRoute(x) ==
    IF x.at \in {"closed", "login"} THEN x
    ELSE IF x.who.login = 0 THEN [x EXCEPT !.at = "login", !.from = x.at]
    ELSE IF x.who.forced THEN [x EXCEPT !.at = "password", !.from = NoRoute]
    ELSE x

\* The timer runs inside the shell only, for the user as the tab knows him.
Armed(x) == x.at \in Routes /\ x.who.limit # 0

Seen(t, x) == IF x.at \in Routes \cup {"password"} THEN x.at ELSE lastSeen[t]

\* Mutant: what the user does does not reach the timer.
ActUnnoticed(t, x) ==
    /\ tabs' = [tabs EXCEPT ![t] = ProtectedRoute(x)]
    /\ alone' = [alone EXCEPT ![t] = 0]
    /\ lastSeen' = [lastSeen EXCEPT ![t] = Seen(t, x)]

\* The tab goes on as x, by the user's hand: his timer starts again.
Act(t, x) ==
    /\ tabs' = [tabs EXCEPT ![t] = [ProtectedRoute(x) EXCEPT !.quiet = 0]]
    /\ alone' = [alone EXCEPT ![t] = 0]
    /\ lastSeen' = [lastSeen EXCEPT ![t] = Seen(t, x)]

Walk == walks < MaxWalks /\ walks' = walks + 1

\* The mouse, a key, a scroll: nothing but the timer hears of it.
reset(t) ==
    /\ tabs[t].at \in Routes
    /\ Act(t, tabs[t])
    /\ UNCHANGED <<sessionAt, mustChange, idleChoice, storage, signIns, walks>>

\* A tab is opened, or loaded again: it takes what storage holds, and nothing
\* it has asked for reaches it any more.
Load(t, p) ==
    /\ IF tabs[t].at = "closed" THEN UNCHANGED walks ELSE Walk
    /\ Act(t, [tabs[t] EXCEPT !.at = p, !.who = storage, !.from = NoRoute, !.leaving = {},
                 !.asking = FALSE, !.told = {}])
    /\ UNCHANGED <<sessionAt, mustChange, idleChoice, storage, signIns>>

\* The sidebar leads from page to page, and the profile to the one for a new
\* password.
Navigate(t, p) ==
    /\ Walk
    /\ tabs[t].at \in Routes \ {p}
    /\ Act(t, [tabs[t] EXCEPT !.at = p])
    /\ UNCHANGED <<sessionAt, mustChange, idleChoice, storage, signIns>>

\* A login, then on to where the user came from.
onSubmit(t) ==
    /\ tabs[t].at = "login"
    /\ signIns < MaxSignIns
    /\ signIns' = signIns + 1
    /\ sessionAt' = signIns'
    /\ storage' = [login |-> signIns', limit |-> idleChoice, forced |-> mustChange]
    /\ Act(t, [tabs[t] EXCEPT !.who = storage', !.from = NoRoute,
                 !.at = IF tabs[t].from = NoRoute THEN Home ELSE tabs[t].from])
    /\ UNCHANGED <<mustChange, idleChoice, walks>>

\* A new password: the answer brings an access token and the user, the
\* session stays the one it was.
changePassword(t) ==
    /\ tabs[t].at = "password"
    /\ mustChange' = FALSE
    /\ storage' = [tabs[t].who EXCEPT !.limit = idleChoice, !.forced = FALSE]
    /\ Act(t, [tabs[t] EXCEPT !.who = storage', !.at = Teams])
    /\ UNCHANGED <<sessionAt, idleChoice, signIns, walks>>

\* The server learns of another idle time; the tab's user stays as he was.
handleIdleTimeoutChange(t, n) ==
    /\ tabs[t].at \in Routes
    /\ idleChoice' = n
    /\ Act(t, tabs[t])
    /\ UNCHANGED <<sessionAt, mustChange, storage, signIns, walks>>

-----------------------------------------------------------------------------
(* Saving the profile makes the tab ask who its user is.                    *)

\* The profile is saved; on success the tab asks, here at once.
updateInfo(t) ==
    /\ Walk
    /\ tabs[t].at \in Routes
    /\ ~tabs[t].asking
    /\ Act(t, [tabs[t] EXCEPT !.asking = TRUE])
    /\ UNCHANGED <<sessionAt, mustChange, idleChoice, storage, signIns>>

\* The server reads the user; the answer takes its time.
Me(t) ==
    /\ tabs[t].asking
    /\ tabs' = [tabs EXCEPT ![t].asking = FALSE,
                            ![t].told = @ \cup {[limit |-> idleChoice, forced |-> mustChange]}]
    /\ UNCHANGED <<sessionAt, mustChange, idleChoice, storage, signIns, walks, alone, lastSeen>>

\* The answer takes the place of the tab's user, whoever that is by now; an
\* idle time that differs starts the timer again.
loadMe(t, u) ==
    /\ u \in tabs[t].told
    /\ LET new == u.limit # tabs[t].who.limit
       IN  /\ storage' = [tabs[t].who EXCEPT !.limit = u.limit, !.forced = u.forced]
           /\ tabs' = [tabs EXCEPT ![t] =
                          ProtectedRoute([tabs[t] EXCEPT !.who = storage', !.told = @ \ {u},
                                                         !.quiet = IF new THEN 0 ELSE @])]
           /\ alone' = [alone EXCEPT ![t] = IF new THEN 0 ELSE @]
    /\ UNCHANGED <<sessionAt, mustChange, idleChoice, signIns, walks, lastSeen>>

\* Or there is none: the tab forgets its login, the session stays.
loadMeFails(t) ==
    /\ tabs[t].asking
    /\ storage' = Nobody
    /\ tabs' = [tabs EXCEPT ![t] = ProtectedRoute([@ EXCEPT !.who = Nobody, !.asking = FALSE])]
    /\ UNCHANGED <<sessionAt, mustChange, idleChoice, signIns, walks, alone, lastSeen>>

-----------------------------------------------------------------------------
(* Leaving.                                                                 *)

handleLogout(t) ==
    /\ tabs[t].at \in Routes
    /\ "user" \notin tabs[t].leaving
    /\ Act(t, [tabs[t] EXCEPT !.leaving = @ \cup {"user"}])
    /\ UNCHANGED <<sessionAt, mustChange, idleChoice, storage, signIns, walks>>

\* The timer runs out: the same logout, asked for by nobody.
idleLogout(t) ==
    /\ Armed(tabs[t]) /\ tabs[t].quiet = tabs[t].who.limit
    /\ "timer" \notin tabs[t].leaving
    /\ tabs' = [tabs EXCEPT ![t].leaving = @ \cup {"timer"}]
    /\ UNCHANGED <<sessionAt, mustChange, idleChoice, storage, signIns, walks, alone, lastSeen>>

\* The logout is answered or fails; the tab forgets its login either way, and
\* so does storage.  Who asked for it himself is led to the login page, with
\* nothing to come back to.
LoggedOut(t, why) ==
    /\ why \in tabs[t].leaving
    /\ sessionAt' \in {0, sessionAt}
    /\ storage' = Nobody
    /\ LET out == ProtectedRoute([tabs[t] EXCEPT !.who = Nobody, !.leaving = @ \ {why}])
       IN  tabs' = [tabs EXCEPT ![t] =
                       IF why = "user" THEN [out EXCEPT !.at = "login", !.from = NoRoute] ELSE out]
    /\ lastSeen' = IF why = "user" THEN [lastSeen EXCEPT ![t] = NoRoute] ELSE lastSeen
    /\ UNCHANGED <<mustChange, idleChoice, signIns, walks, alone>>

\* The tab's token has run out, and the cookie gets it one of the login that is
\* alive; the user it shows stays who he was, in storage, too.
refreshed(t) ==
    /\ tabs[t].at \in Routes \cup {"password"}
    /\ sessionAt # 0
    /\ storage' = [tabs[t].who EXCEPT !.login = sessionAt]
    /\ tabs' = [tabs EXCEPT ![t].who = storage']
    /\ UNCHANGED <<sessionAt, mustChange, idleChoice, signIns, walks, alone, lastSeen>>

\* Or the refresh fails on its way, and the tab asks for a logout itself.
refreshFails(t) ==
    /\ tabs[t].at \in Routes \cup {"password"}
    /\ Walk
    /\ "refresh" \notin tabs[t].leaving
    /\ tabs' = [tabs EXCEPT ![t].leaving = @ \cup {"refresh"}]
    /\ UNCHANGED <<sessionAt, mustChange, idleChoice, storage, signIns, alone, lastSeen>>

\* Mutant: the timer goes on past its time.
RunningOn(x) == Armed(x)

Running(x) == Armed(x) /\ x.quiet < x.who.limit

\* Time passes.  A timer that has run out is served first; its logout takes
\* its time.
Tick ==
    /\ \A t \in Tabs : Armed(tabs[t]) => Running(tabs[t]) \/ "timer" \in tabs[t].leaving
    /\ \E t \in Tabs : Armed(tabs[t])
    /\ tabs' = [t \in Tabs |->
                   [tabs[t] EXCEPT !.quiet = IF Running(tabs[t]) THEN @ + 1 ELSE @]]
    /\ alone' = [t \in Tabs |-> IF Armed(tabs[t]) /\ alone[t] <= MaxIdle
                                THEN alone[t] + 1 ELSE alone[t]]
    /\ UNCHANGED <<sessionAt, mustChange, idleChoice, storage, signIns, walks, lastSeen>>

ShellNext ==
    \/ Tick
    \/ \E t \in Tabs :
          \/ \E p \in Routes \cup {"password"} : Load(t, p) \/ Navigate(t, p)
          \/ reset(t) \/ onSubmit(t) \/ changePassword(t) \/ updateInfo(t)
          \/ \E n \in IdleLimits : handleIdleTimeoutChange(t, n)
          \/ Me(t) \/ loadMeFails(t) \/ \E u \in Users : loadMe(t, u)
          \/ handleLogout(t) \/ idleLogout(t)
          \/ \E why \in {"timer", "refresh", "user"} : LoggedOut(t, why)
          \/ refreshed(t) \/ refreshFails(t)

ShellSpec == ShellInit /\ [][ShellNext]_shellVars

-----------------------------------------------------------------------------
\* A tab inside the shell is not left alone for longer than the idle time it
\* knows of, but for the logout then under way, and no tab is logged out by
\* its timer before that time, through whatever pages, logins, logouts,
\* refreshes and saved profiles, here and in other tabs.  An idle time chosen
\* meanwhile reaches a tab with its next login, new password or saved profile;
\* from then on its time counts anew.
IdleTabsAreLeft ==
    \A t \in Tabs :
        /\ Armed(tabs[t]) => alone[t] <= tabs[t].who.limit \/ "timer" \in tabs[t].leaving
        /\ (Armed(tabs[t]) /\ tabs[t].quiet = tabs[t].who.limit) => alone[t] >= tabs[t].who.limit

\* Whoever did not sign out himself comes back, by his next login, to the
\* page he was on, however his session ended; only a password that has to be
\* set first leads him elsewhere.
BackWhereHeWas ==
    [][\A t \in Tabs :
          (tabs[t].at = "login" /\ tabs[t]'.at \in Routes /\ signIns' # signIns)
              => tabs[t]'.at = IF lastSeen[t] = NoRoute THEN Home ELSE lastSeen[t]]_shellVars
=============================================================================
