--------------------------- MODULE MCSessionGroups ---------------------------
(* The two runs of SessionGroups: groups, connections and windows are alike.  *)
EXTENDS SessionGroups, TLC

Symm == Permutations(Groups) \cup Permutations(Conns) \cup Permutations(Instances)
=============================================================================
