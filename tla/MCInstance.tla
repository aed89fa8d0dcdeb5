----------------------------- MODULE MCInstance -----------------------------
(* Room for two instances and three that want it.                          *)
EXTENDS JpcapInstance, TLC

Symmetry == Permutations(Instance)
=============================================================================
