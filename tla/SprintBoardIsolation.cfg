\* Closing a sprint into a sprint of another project.
SPECIFICATION Spec
CONSTANTS
    pA = pA
    pB = pB
    i1 = i1
    i2 = i2
    s1 = s1
    s2 = s2
    Projects = {pA, pB}
    Items = {i1}
    Sprints = {s1, s2}
    ItemProject <- OneItem
    SprintProject <- TwoProjectSprints
    Statuses = {"planned", "open"}
    SprintStatuses = {"active", "completed"}
    NoTarget = none
    CarryTargets = {s1, s2, none}
    Faults = FALSE
    Workers = {w1, w2}
SYMMETRY WorkerSymmetry
INVARIANTS Isolation
CHECK_DEADLOCK FALSE
