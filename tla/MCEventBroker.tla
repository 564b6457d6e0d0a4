---------------------------- MODULE MCEventBroker ----------------------------
(* Small instances of EventBroker for TLC. *)
EXTENDS EventBroker, TLC

\* Streams and publishers are each interchangeable.
Symmetry == Permutations(Streams) \cup Permutations(Publishers)
==============================================================================
