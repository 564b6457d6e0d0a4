\* Two requests in flight for two users, with faults.
SPECIFICATION Spec
CONSTANTS
    Users = {u1, u2}
    Tokens = {t1, t2}
    Nobody = nobody
    NoToken = notoken
    Workers = {w1, w2}
    MaxPassword = 1
    Faults = TRUE
SYMMETRY Symmetry
INVARIANTS TypeOK NoLiveAncestor
PROPERTIES SurvivorsWereInFlight EndedByItsOwner
CHECK_DEADLOCK FALSE
