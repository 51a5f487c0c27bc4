----------------------------- MODULE MCGenerate -----------------------------
(* Generate for TLC. *)
EXTENDS Generate

(* Nothing tells one set of model files from another: start with one.      *)
FirstInit == Init /\ \A n \in Nodes : node[n].paths = CHOOSE p \in Paths : TRUE
FirstSpec == FirstInit /\ [][Next]_vars /\ Fairness
=============================================================================
