\* One request at a time, with faults: the endpoints implement Sessions.
SPECIFICATION Spec
CONSTANTS
    Users = {u1, u2}
    Tokens = {t1, t2, t3}
    Nobody = nobody
    NoToken = notoken
    Workers = {w1}
    MaxPassword = 1
    Faults = TRUE
SYMMETRY Symmetry
INVARIANTS OneLivePerLogin
PROPERTIES PromiseKept
CHECK_DEADLOCK FALSE
