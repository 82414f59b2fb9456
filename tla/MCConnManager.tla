--------------------------- MODULE MCConnManager ---------------------------
(* Instances of ConnManager small enough for TLC.                          *)
EXTENDS ConnManager
CONSTANTS p1, p2, c1
MCProcs == {p1, p2}
MCCfgs  == {c1}
=============================================================================
