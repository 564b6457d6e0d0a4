---------------------------- MODULE MCSprintBoard ----------------------------
(* Small instances of SprintBoard for TLC. *)
EXTENDS SprintBoard, TLC

CONSTANTS pA, pB, i1, i2, s1, s2

\* Everything in one project.
OneProjectItems == (i1 :> pA) @@ (i2 :> pA)
OneProjectSprints == (s1 :> pA) @@ (s2 :> pA)

\* One item; a second project owns the second sprint.
OneItem == (i1 :> pA)
TwoProjectSprints == (s1 :> pA) @@ (s2 :> pB)

WorkerSymmetry == Permutations(Workers)
==============================================================================
