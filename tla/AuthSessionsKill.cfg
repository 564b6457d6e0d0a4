\* A rotation in flight outlives the kill.
SPECIFICATION Spec
CONSTANTS
    Users = {u1}
    Tokens = {t1, t2, t3}
    Nobody = nobody
    NoToken = notoken
    Workers = {w1, w2}
    MaxPassword = 1
    Faults = FALSE
SYMMETRY Symmetry
INVARIANTS KillIsFinal
CHECK_DEADLOCK FALSE
