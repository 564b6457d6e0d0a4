\* Two requests over two items and two sprints, with faults and every target.
SPECIFICATION Spec
CONSTANTS
    pA = pA
    pB = pB
    i1 = i1
    i2 = i2
    s1 = s1
    s2 = s2
    Projects = {pA}
    Items = {i1, i2}
    Sprints = {s1, s2}
    ItemProject <- OneProjectItems
    SprintProject <- OneProjectSprints
    Statuses = {"planned", "open", "rejected", "done"}
    SprintStatuses = {"active", "completed"}
    NoTarget = none
    CarryTargets = {s1, s2, none}
    Faults = TRUE
    Workers = {w1, w2}
SYMMETRY WorkerSymmetry
INVARIANTS TypeOK RowsResolve
PROPERTIES StrandedOnlyByAbortOrStaleCarry CarryDropsNothing OnlyEditsMoveStartedItems
CHECK_DEADLOCK FALSE
