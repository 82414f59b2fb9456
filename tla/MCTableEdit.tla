---------------------------- MODULE MCTableEdit ----------------------------
(* One table on two servers, with two places for rows.                      *)
EXTENDS TableEdit, TLC
CONSTANTS dev, prod, c1, c2, x, y, z
MCConns == {dev, prod}
MCPks == 1..2
MCCols == {c1, c2}
MCVals == {x, y, z}
MCNewRows == {[col \in MCCols |-> y]}
MCRemakes == {[col \in MCCols |-> y]}
MCStart == {[k \in MCPks |-> [col \in MCCols |-> IF k = 2 /\ col = c2 THEN y ELSE x]],
            [k \in MCPks |-> IF k = 1 THEN [col \in MCCols |-> x] ELSE Gone]}
MCSymmetry == Permutations(MCConns)
=============================================================================
