----------------------------- MODULE MCHistory -----------------------------
(* Instances of History small enough for TLC: two goroutines of one        *)
(* instance and one of another.                                            *)
EXTENDS History
CONSTANTS p1, p2, p3, a, b
MCProcs     == {p1, p2, p3}
MCInstances == {a, b}
MCInstOf    == [p \in MCProcs |-> IF p = p3 THEN b ELSE a]
MCOld       == {1}
MCAlone     == {p1}
MCOne       == {a}
MCAloneOf   == [p \in MCAlone |-> a]
=============================================================================
