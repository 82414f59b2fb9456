--------------------------- MODULE MCSessionStore ---------------------------
(* Instances of SessionStore small enough for TLC.                         *)
EXTENDS SessionStore
CONSTANTS i1, i2
MCAlone == {i1}
MCTwo   == {i1, i2}
=============================================================================
