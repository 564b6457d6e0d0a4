--------------------------- MODULE MCAuthSessions ----------------------------
(* Small instances of AuthSessions for TLC. *)
EXTENDS AuthSessions, TLC

\* Tokens, users and workers are each interchangeable.
Symmetry == Permutations(Tokens) \cup Permutations(Users) \cup Permutations(Workers)
==============================================================================
