-------------------------- MODULE MCSessionManager --------------------------
(* Small instances of SessionManager for TLC. *)
EXTENDS SessionManager, TLC

\* Tool calls are interchangeable, and so are lock objects.
CallSymmetry == Permutations(Caller) \cup Permutations(Object)
=============================================================================
