------------------------------ MODULE Sessions -------------------------------
(***************************************************************************)
(* What the session endpoints promise: a login opens a session, the session *)
(* stays open until it ends alone (a logout, or a rotation cut off between  *)
(* its two statements) or with every session of its user, and a session     *)
(* that has ended never opens again.                                        *)
(***************************************************************************)
CONSTANTS Users, Logins, Nobody

VARIABLES
    session, \* "none" before the login, then "open", then "ended"
    holder   \* whose session it is

sessionVars == <<session, holder>>

Init ==
    /\ session = [l \in Logins |-> "none"]
    /\ holder = [l \in Logins |-> Nobody]

Open(l, u) ==
    /\ session[l] = "none"
    /\ session' = [session EXCEPT ![l] = "open"]
    /\ holder' = [holder EXCEPT ![l] = u]

End(l) ==
    /\ session[l] = "open"
    /\ session' = [session EXCEPT ![l] = "ended"]
    /\ UNCHANGED holder

EndAll(u) ==
    /\ session' = [l \in Logins |->
                      IF session[l] = "open" /\ holder[l] = u THEN "ended" ELSE session[l]]
    /\ UNCHANGED holder

Next ==
    \/ \E l \in Logins, u \in Users : Open(l, u)
    \/ \E l \in Logins : End(l)
    \/ \E u \in Users : EndAll(u)

Spec == Init /\ [][Next]_sessionVars
==============================================================================
