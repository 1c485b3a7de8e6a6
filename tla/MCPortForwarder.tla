--------------------------- MODULE MCPortForwarder ---------------------------
(* Model-checking instances of PortForwarder.                              *)
EXTENDS PortForwarder, TLC

(* Forwards, IDs and calling threads are interchangeable.                  *)
ForwardSymmetry == Permutations(Fwd) \cup Permutations(Ids) \cup Permutations(Callers)

=============================================================================
