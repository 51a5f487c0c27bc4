---------------------------- MODULE MCSmartFill -----------------------------
(* SmartFill for TLC: nodes can be exchanged in a safety run. *)
EXTENDS SmartFill, TLC

NodeSymmetry == Permutations(Nodes)
=============================================================================
