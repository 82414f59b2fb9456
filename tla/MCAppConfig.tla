----------------------------- MODULE MCAppConfig -----------------------------
(* Two goroutines of one instance and one of another.                         *)
EXTENDS AppConfig, TLC
CONSTANTS p1, p2, q1, a, b

MCProcs == {p1, p2, q1}
MCInstances == {a, b}
MCInstanceOf == (p1 :> a) @@ (p2 :> a) @@ (q1 :> b)
=============================================================================
