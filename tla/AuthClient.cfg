\* Two tabs that share the cookie jar: requests fail, answers are lost, and the
\* user logs in and out.
SPECIFICATION Spec
CONSTANTS
    tA = tA
    tB = tB
    c1 = c1
    c2 = c2
    c3 = c3
    c4 = c4
    Tabs = {tA, tB}
    Slots = {c1, c2, c3, c4}
    TabOf <- TwoTabs
    MaxToken = 3
    Kinds = {"me", "login", "logout"}
    Failures = TRUE
SYMMETRY TabSymmetry
INVARIANTS TypeOK JarFollowsServer
CHECK_DEADLOCK FALSE
