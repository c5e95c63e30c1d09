-------------------------- MODULE MCSessionWatcher --------------------------
(* Small instances of SessionWatcher for TLC. *)
EXTENDS SessionWatcher, TLC

CallerSymmetry == Permutations(Callers)
=============================================================================
