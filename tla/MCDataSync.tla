---------------------------- MODULE MCDataSync ----------------------------
(* A server with the table in one database, and one with it in two.  Key 1   *)
(* has two spellings, 1 and 3.  Key 2 has a text of its own, one that it      *)
(* shares with key 1, one that is the word in a column, and one whose bytes   *)
(* become those of key 1 on the way.  Raw values become another on the way.   *)
EXTENDS DataSync
CONSTANTS dev, prod, d1, d2, x, Raw, Mangled
MCConns == {dev, prod}
MCDbs == {d1, d2}
MCPlaces == {<<dev, d1>>, <<prod, d1>>, <<prod, d2>>}
MCDefaultDb == dev :> None @@ prod :> d2
MCPks == 1..2
MCTexts == 1..5
MCVals == {x, Null, Word, Raw, Mangled}
MCWordKeys == {<<2, 4>>}
MCKeySent == [e \in MCPks \X MCTexts |-> IF e = <<2, 5>> THEN <<1, 3>> ELSE e]
MCValSent == [v \in MCVals |-> IF v = Raw THEN Mangled ELSE v]
Row(t, v) == [text |-> t, val |-> v]
MCWritten ==
    1 :> {Row(1, x), Row(1, Word), Row(3, x), Gone} @@ 2 :> {Row(2, x), Gone}
MCEmpty == [k \in MCPks |-> Gone]
MCSource ==
    {1 :> r @@ 2 :> q : r \in {Row(1, v) : v \in MCVals \ {Mangled}} \cup {Row(3, x), Gone},
                        q \in {Row(2, x), Gone}}
    \cup {1 :> r @@ 2 :> Row(t, x) : r \in {Row(1, x), Gone}, t \in {1, 4, 5}}
MCTarget ==
    {1 :> r @@ 2 :> q : r \in {Row(1, x), Row(1, Null), Row(3, x), Gone}, q \in {Row(2, x), Gone}}
MCStart == {[p \in MCPlaces |->
                IF p = <<dev, d1>> THEN s ELSE IF p = <<prod, d1>> THEN t ELSE MCEmpty] :
            s \in MCSource, t \in MCTarget}
=============================================================================
