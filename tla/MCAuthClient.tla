----------------------------- MODULE MCAuthClient -----------------------------
(* Small instances of AuthClient for TLC. *)
EXTENDS AuthClient, TLC

CONSTANTS tA, tB, c1, c2, c3, c4

\* One tab with room for two calls and the refresh they share.
OneTab == (c1 :> tA) @@ (c2 :> tA) @@ (c3 :> tA)

\* Two tabs, each with room for a call and its refresh.
TwoTabs == (c1 :> tA) @@ (c2 :> tA) @@ (c3 :> tB) @@ (c4 :> tB)

\* The slots of a tab are alike, and so are the two tabs: the permutations that
\* respect TwoTabs.
TabSymmetry ==
    {f \in Permutations({tA, tB, c1, c2, c3, c4}) :
        /\ f[tA] \in {tA, tB}
        /\ \A s \in {c1, c2, c3, c4} :
             f[s] \in {c1, c2, c3, c4} /\ TwoTabs[f[s]] = f[TwoTabs[s]]}
==============================================================================
