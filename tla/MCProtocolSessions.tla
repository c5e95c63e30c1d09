------------------------ MODULE MCProtocolSessions ------------------------
(* Model-checking instance of ProtocolSessions. *)
EXTENDS ProtocolSessions, TLC

\* Requests and bindings are interchangeable: the code tells them apart only
\* by identity.
SlotSymmetry == Permutations(Request) \cup Permutations(Binding)
=============================================================================
