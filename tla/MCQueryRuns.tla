---------------------------- MODULE MCQueryRuns ----------------------------
(* Two tabs of one session, and another session to change to.  The first text *)
(* is three statements of four pieces: the second ends in a line comment, and *)
(* the third is a body with a `;` that DELIMITER protects, so that a rest of  *)
(* it is cut between its second and last piece only.  The second text is two  *)
(* statements.  Three of them return rows.                                     *)
EXTENDS QueryRuns, TLC
CONSTANTS s1, s2, t1, t2
MCSessions == {s1, s2}
MCHome == t1 :> s1 @@ t2 :> s1
MCTextOf == <<[pieces |-> 4, inner |-> {3}, swallowed |-> {2}, selects |-> {1, 2}],
              [pieces |-> 2, inner |-> {}, swallowed |-> {}, selects |-> {2}]>>
MCSymmetry == Permutations({t1, t2})
=============================================================================
