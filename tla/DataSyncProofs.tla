-------------------------- MODULE DataSyncProofs --------------------------
(* The difference of two tables makes their rows equal, and goes to the table  *)
(* it was made for, for any tables, limits, keys that share their text, pools  *)
(* and choices.                                                                *)
EXTENDS DataSync, TLAPS, FiniteSetTheorems, WellFoundedInduction

-----------------------------------------------------------------------------
(* A finite set of numbers has a greatest member: the one with all the others  *)
(* below it.                                                                   *)
LEMMA Greatest ==
    ASSUME NEW S, S \subseteq Nat, IsFiniteSet(S), S # {}
    PROVE  Max(S) \in S /\ \A y \in S : y <= Max(S)
<1>1. S \subseteq Nat /\ IsFiniteSet(S) /\ Cardinality(S) \in Nat
    BY FS_CardinalityType
<1> DEFINE Below(x) == {y \in S : y <= x}
           Above(x) == Cardinality(S) - Cardinality(Below(x))
           Counts == {Above(x) : x \in S}
<1>2. \A x \in S : IsFiniteSet(Below(x)) /\ Cardinality(Below(x)) \in Nat /\ Above(x) \in Nat
    <2> TAKE x \in S
    <2>1. Below(x) \in SUBSET S
        OBVIOUS
    <2>2. IsFiniteSet(Below(x)) /\ Cardinality(Below(x)) <= Cardinality(S)
        BY <1>1, <2>1, FS_Subset
    <2>3. Cardinality(Below(x)) \in Nat
        BY <2>2, FS_CardinalityType
    <2> QED
        BY <1>1, <2>2, <2>3
<1> HIDE DEF Above
<1>3. Counts \subseteq Nat /\ Counts # {}
    BY <1>2
<1>4. PICK c \in Counts : \A d \in Counts : ~(<<d, c>> \in OpToRel(<, Nat))
    BY <1>3, NatLessThanWellFounded, WFMin
<1>5. PICK x \in S : c = Above(x)
    OBVIOUS
<1> HIDE DEF Below
<1>6. \A y \in S : Cardinality(Below(y)) <= Cardinality(Below(x))
    <2> TAKE y \in S
    <2>1. ~(<<Above(y), Above(x)>> \in OpToRel(<, Nat))
        BY <1>4, <1>5
    <2>2. Above(x) \in Nat /\ Above(y) \in Nat
        BY <1>2
    <2>3. ~(Above(y) < Above(x))
        BY <2>1, <2>2 DEF OpToRel
    <2>4. Cardinality(Below(x)) \in Nat /\ Cardinality(Below(y)) \in Nat
        BY <1>2
    <2> QED
        BY <1>1, <2>3, <2>4 DEF Above
<1>7. ASSUME NEW y \in S, ~(x >= y) PROVE FALSE
    <2>1. x \in Nat /\ y \in Nat /\ x < y
        BY <1>1, <1>7
    <2>2. Below(x) \in SUBSET Below(y) /\ y \in Below(y) /\ y \notin Below(x)
        <3>1. \A z \in S : z <= x => z <= y
            BY <1>1, <2>1
        <3>2. y <= y /\ ~(y <= x)
            BY <2>1
        <3> QED
            BY <3>1, <3>2, Zenon DEF Below
    <2>3. Cardinality(Below(x)) <= Cardinality(Below(y))
        BY <1>2, <2>2, FS_Subset
    <2>4. Cardinality(Below(x)) = Cardinality(Below(y))
        BY <1>2, <1>6, <2>3
    <2>5. Below(y) = Below(x)
        BY <1>2, <2>2, <2>4, FS_Subset
    <2> QED
        BY <2>2, <2>5
<1>8. x \in S /\ \A y \in S : x >= y
    BY <1>7
<1>9. Max(S) \in S /\ \A y \in S : Max(S) >= y
    BY <1>8 DEF Max
<1> QED
    BY <1>1, <1>9

LEMMA GreatestKey ==
    ASSUME NEW S, S \subseteq Pks, S # {}
    PROVE  Max(S) \in S
BY KeysAreOrdered, FS_Subset, Greatest

-----------------------------------------------------------------------------
(* What the two loads and the comparison of them come to.                      *)
ReadOf(T, k) == [pk |-> k, text |-> T[k].text, val |-> Read(T[k].val)]

(* A row that was read is one of the window, under its text.                   *)
LEMMA RowsRead ==
    ASSUME NEW T \in Tables, NEW n \in Limits, NEW t \in DOMAIN Load(T, n)
    PROVE  \E k \in Window(T, n) : T[k].text = t /\ Load(T, n)[t] = ReadOf(T, k)
<1> DEFINE S == {j \in Window(T, n) : T[j].text = t}
<1>1. DOMAIN Load(T, n) = {T[k].text : k \in Window(T, n)}
    BY DEF Load
<1>2. S # {} /\ S \subseteq Pks
    BY <1>1 DEF Window, Present
<1>3. Max(S) \in S
    BY <1>2, GreatestKey
<1>4. Load(T, n)[t] = [pk |-> Max(S), text |-> t, val |-> Read(T[Max(S)].val)]
    BY <1>1 DEF Load
<1> QED
    BY <1>3, <1>4 DEF ReadOf

(* Only the row of key k has its text.                                         *)
Owns(T, k, t) == \A j \in Pks \ {k} : T[j] # Gone => T[j].text # t

(* The row of a key of the window whose text no other row has is read.         *)
LEMMA RowIsRead ==
    ASSUME NEW T \in Tables, NEW n \in Limits, NEW k \in Window(T, n), Owns(T, k, T[k].text)
    PROVE  T[k].text \in DOMAIN Load(T, n) /\ Load(T, n)[T[k].text] = ReadOf(T, k)
<1>1. T[k].text \in DOMAIN Load(T, n)
    BY DEF Load
<1>2. PICK j \in Window(T, n) : T[j].text = T[k].text /\ Load(T, n)[T[k].text] = ReadOf(T, j)
    BY <1>1, RowsRead
<1>3. j = k
    BY <1>2 DEF Window, Present, Owns
<1> QED
    BY <1>1, <1>2, <1>3

(* There is no row under a text that is only key k's, if k's row is not it.    *)
LEMMA RowIsNotRead ==
    ASSUME NEW T \in Tables, NEW n \in Limits, NEW k \in Pks, NEW t,
           T[k] = Gone \/ T[k].text # t, Owns(T, k, t)
    PROVE  t \notin DOMAIN Load(T, n)
<1> SUFFICES ASSUME t \in DOMAIN Load(T, n) PROVE FALSE
    OBVIOUS
<1>1. PICK j \in Window(T, n) : T[j].text = t
    BY RowsRead
<1> QED
    BY <1>1 DEF Window, Present, Owns

(* A statement is made of a row that was read.                                 *)
LEMMA Statements ==
    ASSUME NEW S \in Tables, NEW D \in Tables, NEW n \in Limits,
           NEW s \in CompareData(Load(S, n), Load(D, n))
    PROVE  LET src == Load(S, n)
               dest == Load(D, n)
           IN \/ \E k \in Window(S, n) : LET t == S[k].text IN
                 /\ t \in DOMAIN src \ DOMAIN dest /\ src[t] = ReadOf(S, k)
                 /\ s = Stmt("INSERT", ReadOf(S, k))
              \/ \E k \in Window(S, n) : LET t == S[k].text IN
                 /\ t \in DOMAIN src \cap DOMAIN dest /\ src[t] # dest[t] /\ src[t] = ReadOf(S, k)
                 /\ s = Stmt("UPDATE", ReadOf(S, k))
              \/ \E k \in Window(D, n) : LET t == D[k].text IN
                 /\ t \in DOMAIN dest \ DOMAIN src /\ dest[t] = ReadOf(D, k)
                 /\ s = Stmt("DELETE", ReadOf(D, k))
<1> DEFINE src == Load(S, n)
           dest == Load(D, n)
<1>1. \A u \in DOMAIN src : \E k \in Window(S, n) : S[k].text = u /\ src[u] = ReadOf(S, k)
    BY RowsRead
<1>2. \A u \in DOMAIN dest : \E k \in Window(D, n) : D[k].text = u /\ dest[u] = ReadOf(D, k)
    BY RowsRead
<1> HIDE DEF src, dest
<1>3. \/ \E u \in DOMAIN src \ DOMAIN dest : s = Stmt("INSERT", src[u])
      \/ \E u \in DOMAIN src \cap DOMAIN dest : src[u] # dest[u] /\ s = Stmt("UPDATE", src[u])
      \/ \E u \in DOMAIN dest \ DOMAIN src : s = Stmt("DELETE", dest[u])
    BY DEF CompareData, src, dest
<1>4. CASE \E u \in DOMAIN src \ DOMAIN dest : s = Stmt("INSERT", src[u])
    BY <1>1, <1>4 DEF src, dest
<1>5. CASE \E u \in DOMAIN src \cap DOMAIN dest : src[u] # dest[u] /\ s = Stmt("UPDATE", src[u])
    BY <1>1, <1>5 DEF src, dest
<1>6. CASE \E u \in DOMAIN dest \ DOMAIN src : s = Stmt("DELETE", dest[u])
    BY <1>2, <1>6 DEF src, dest
<1> QED
    BY <1>3, <1>4, <1>5, <1>6

(* A statement made of a row is one.                                           *)
LEMMA StatementsAreStmts ==
    ASSUME NEW S \in Tables, NEW D \in Tables, NEW n \in Limits
    PROVE  CompareData(Load(S, n), Load(D, n)) \subseteq Stmts
<1>1. ASSUME NEW T \in Tables, NEW k \in Window(T, n), NEW op \in {"INSERT", "UPDATE", "DELETE"}
      PROVE  Stmt(op, ReadOf(T, k)) \in Stmts
    <2>1. k \in Pks /\ T[k].text \in Texts /\ T[k].val \in Vals
        BY DEF Tables, Rows, Window, Present
    <2>2. Named(k, T[k].text)[1] \in Pks \cup {None} /\ Named(k, T[k].text)[2] \in Texts
        <3>1. KeySent[<<k, T[k].text>>] \in (Pks \cup {None}) \X Texts
            BY <2>1, StatementsArrive
        <3> QED
            BY <2>1, <3>1 DEF Named
    <2>3. Write(Read(T[k].val)) \in Vals
        BY <2>1, NullIsRead DEF Read, Write
    <2>4. ValSent[Write(Read(T[k].val))] \in Vals
        BY <2>3, StatementsArrive
    <2> QED
        BY <2>1, <2>2, <2>4 DEF Stmt, Stmts, ReadOf
<1> QED
    BY <1>1, Statements

-----------------------------------------------------------------------------
(* A table that holds what was read of a row at its key holds the same as the  *)
(* source there when the statements have been run on it.  For a key as Settled *)
(* has it the statements that name it are made of its own rows: at most an     *)
(* INSERT, an UPDATE or a DELETE, or, where the two tables spell the key in    *)
(* two ways, an INSERT and a DELETE, which is the earlier, or the INSERT would *)
(* have been refused.                                                          *)
Ordinary(S, D, T, k, n) ==
    /\ T[k] = D[k] /\ Seen(S, k, n) /\ Seen(D, k, n)
    /\ Alone(k, {S, D}) /\ OwnName(k, {S, D}) /\ Kept(S[k])

Inserts(S, k, s) == s = [op |-> "INSERT", at |-> S[k].text, pk |-> k, text |-> S[k].text,
                         val |-> ValSent[Write(Read(S[k].val))]]
UpdatesRow(S, k, s) == s = [op |-> "UPDATE", at |-> S[k].text, pk |-> k, text |-> S[k].text,
                            val |-> ValSent[Write(Read(S[k].val))]]
Deletes(D, k, s) == s.op = "DELETE" /\ s.at = D[k].text /\ s.pk = k

(* What each statement that names k is, and which of them there are.           *)
Apart(S, D, k) == S[k] # Gone /\ (D[k] = Gone \/ D[k].text # S[k].text)
Differ(S, D, k) ==
    /\ S[k] # Gone /\ D[k] # Gone /\ D[k].text = S[k].text
    /\ Read(D[k].val) # Read(S[k].val)
Extra(S, D, k) == D[k] # Gone /\ (S[k] = Gone \/ D[k].text # S[k].text)

LEMMA StatementsOfAKey ==
    ASSUME NEW S \in Tables, NEW D \in Tables, NEW T \in Tables, NEW n \in Limits,
           NEW k \in Pks, Ordinary(S, D, T, k, n)
    PROVE  LET stmts == CompareData(Load(S, n), Load(D, n))
           IN /\ \A s \in stmts : s.pk = k =>
                    \/ Apart(S, D, k) /\ Inserts(S, k, s)
                    \/ Differ(S, D, k) /\ UpdatesRow(S, k, s)
                    \/ Extra(S, D, k) /\ Deletes(D, k, s)
              /\ Apart(S, D, k) => \E s \in stmts : Inserts(S, k, s)
              /\ Differ(S, D, k) => \E s \in stmts : UpdatesRow(S, k, s)
              /\ Extra(S, D, k) => \E s \in stmts : Deletes(D, k, s)
<1> DEFINE src == Load(S, n)
           dest == Load(D, n)
           stmts == CompareData(src, dest)
<1>1. /\ S[k] # Gone => Owns(S, k, S[k].text) /\ Owns(D, k, S[k].text)
      /\ D[k] # Gone => Owns(S, k, D[k].text) /\ Owns(D, k, D[k].text)
    BY DEF Ordinary, Alone, Owns
<1>2. S[k] # Gone => S[k].text \in DOMAIN src /\ src[S[k].text] = ReadOf(S, k)
    BY <1>1, RowIsRead DEF Ordinary, Seen
<1>3. D[k] # Gone => D[k].text \in DOMAIN dest /\ dest[D[k].text] = ReadOf(D, k)
    BY <1>1, RowIsRead DEF Ordinary, Seen
<1>4. /\ Apart(S, D, k) => S[k].text \notin DOMAIN dest
      /\ Extra(S, D, k) => D[k].text \notin DOMAIN src
    BY <1>1, RowIsNotRead DEF Apart, Extra
<1>5. /\ S[k] # Gone => Named(k, S[k].text) = <<k, S[k].text>>
      /\ D[k] # Gone => Named(k, D[k].text) = <<k, D[k].text>>
      /\ \A j \in Pks \ {k} : S[j] # Gone => Named(j, S[j].text)[1] # k
      /\ \A j \in Pks \ {k} : D[j] # Gone => Named(j, D[j].text)[1] # k
    BY DEF Ordinary, OwnName
<1>6. /\ \A j \in Window(S, n) : j \in Pks /\ S[j] # Gone
      /\ \A j \in Window(D, n) : j \in Pks /\ D[j] # Gone
    BY DEF Window, Present
<1>7. S[k] # Gone => /\ Inserts(S, k, Stmt("INSERT", ReadOf(S, k)))
                     /\ UpdatesRow(S, k, Stmt("UPDATE", ReadOf(S, k)))
    BY <1>5 DEF Stmt, ReadOf, Inserts, UpdatesRow
<1>8. D[k] # Gone => Deletes(D, k, Stmt("DELETE", ReadOf(D, k)))
    BY <1>5 DEF Stmt, ReadOf, Deletes
<1>9. ASSUME NEW s \in stmts, s.pk = k
      PROVE  \/ Apart(S, D, k) /\ Inserts(S, k, s)
             \/ Differ(S, D, k) /\ UpdatesRow(S, k, s)
             \/ Extra(S, D, k) /\ Deletes(D, k, s)
    <2>1. CASE \E j \in Window(S, n) : /\ S[j].text \in DOMAIN src \ DOMAIN dest
                                       /\ s = Stmt("INSERT", ReadOf(S, j))
        <3> PICK j \in Window(S, n) : /\ S[j].text \in DOMAIN src \ DOMAIN dest
                                      /\ s = Stmt("INSERT", ReadOf(S, j))
            BY <2>1
        <3>1. j \in Pks /\ S[j] # Gone /\ Named(j, S[j].text)[1] = k
            BY <1>6, <1>9 DEF Stmt, ReadOf
        <3>2. j = k
            BY <1>5, <3>1
        <3>3. S[k] # Gone /\ S[k].text \notin DOMAIN dest /\ s = Stmt("INSERT", ReadOf(S, k))
            BY <1>6, <3>2
        <3> QED
            BY <1>3, <1>7, <3>3 DEF Apart
    <2>2. CASE \E j \in Window(S, n) : /\ S[j].text \in DOMAIN src \cap DOMAIN dest
                                       /\ src[S[j].text] # dest[S[j].text]
                                       /\ s = Stmt("UPDATE", ReadOf(S, j))
        <3> PICK j \in Window(S, n) : /\ S[j].text \in DOMAIN src \cap DOMAIN dest
                                      /\ src[S[j].text] # dest[S[j].text]
                                      /\ s = Stmt("UPDATE", ReadOf(S, j))
            BY <2>2
        <3>1. j \in Pks /\ S[j] # Gone /\ Named(j, S[j].text)[1] = k
            BY <1>6, <1>9 DEF Stmt, ReadOf
        <3>2. j = k
            BY <1>5, <3>1
        <3>3. /\ S[k] # Gone /\ S[k].text \in DOMAIN dest
              /\ src[S[k].text] # dest[S[k].text] /\ s = Stmt("UPDATE", ReadOf(S, k))
            BY <1>6, <3>2
        <3>4. D[k] # Gone /\ D[k].text = S[k].text
            BY <1>4, <3>3 DEF Apart
        <3>5. Read(D[k].val) # Read(S[k].val)
            BY <1>2, <1>3, <3>3, <3>4 DEF ReadOf
        <3> QED
            BY <1>7, <3>3, <3>4, <3>5 DEF Differ
    <2>3. CASE \E j \in Window(D, n) : /\ D[j].text \in DOMAIN dest \ DOMAIN src
                                       /\ s = Stmt("DELETE", ReadOf(D, j))
        <3> PICK j \in Window(D, n) : /\ D[j].text \in DOMAIN dest \ DOMAIN src
                                      /\ s = Stmt("DELETE", ReadOf(D, j))
            BY <2>3
        <3>1. j \in Pks /\ D[j] # Gone /\ Named(j, D[j].text)[1] = k
            BY <1>6, <1>9 DEF Stmt, ReadOf
        <3>2. j = k
            BY <1>5, <3>1
        <3>3. D[k] # Gone /\ D[k].text \notin DOMAIN src /\ s = Stmt("DELETE", ReadOf(D, k))
            BY <1>6, <3>2
        <3> QED
            BY <1>2, <1>8, <3>3 DEF Extra
    <2> QED
        BY <2>1, <2>2, <2>3, Statements
<1>10. /\ Apart(S, D, k) => Stmt("INSERT", ReadOf(S, k)) \in stmts
       /\ Extra(S, D, k) => Stmt("DELETE", ReadOf(D, k)) \in stmts
    <2>1. /\ \A t \in DOMAIN src \ DOMAIN dest : Stmt("INSERT", src[t]) \in stmts
          /\ \A t \in DOMAIN dest \ DOMAIN src : Stmt("DELETE", dest[t]) \in stmts
        BY DEF CompareData
    <2> QED
        BY <1>2, <1>3, <1>4, <2>1 DEF Apart, Extra
<1>11. Differ(S, D, k) => Stmt("UPDATE", ReadOf(S, k)) \in stmts
    <2> SUFFICES ASSUME Differ(S, D, k) PROVE Stmt("UPDATE", ReadOf(S, k)) \in stmts
        OBVIOUS
    <2>1. /\ S[k].text \in DOMAIN src \cap DOMAIN dest /\ src[S[k].text] = ReadOf(S, k)
          /\ dest[S[k].text] = ReadOf(D, k)
        BY <1>2, <1>3 DEF Differ
    <2>2. src[S[k].text] # dest[S[k].text]
        BY <2>1 DEF ReadOf, Differ
    <2> QED
        BY <2>1, <2>2 DEF CompareData
<1> QED
    BY <1>7, <1>8, <1>9, <1>10, <1>11 DEF Apart, Differ, Extra

LEMMA RunMakesEqual ==
    ASSUME NEW S \in Tables, NEW D \in Tables, NEW T \in Tables, NEW n \in Limits,
           NEW k \in Pks, Ordinary(S, D, T, k, n),
           ~Refused(T, CompareData(Load(S, n), Load(D, n)))
    PROVE  AsText(After(T, CompareData(Load(S, n), Load(D, n)))[k]) = AsText(S[k])
<1> DEFINE stmts == CompareData(Load(S, n), Load(D, n))
           making == Making(stmts, k)
           updates == Updates(stmts, k)
           row == Stands(T, stmts, k)
           ins == [op |-> "INSERT", at |-> S[k].text, pk |-> k, text |-> S[k].text,
                   val |-> ValSent[Write(Read(S[k].val))]]
           upd == [op |-> "UPDATE", at |-> S[k].text, pk |-> k, text |-> S[k].text,
                   val |-> ValSent[Write(Read(S[k].val))]]
<1>1. /\ \A s \in stmts : s.pk = k =>
            \/ Apart(S, D, k) /\ s = ins
            \/ Differ(S, D, k) /\ s = upd
            \/ Extra(S, D, k) /\ Deletes(D, k, s)
      /\ Apart(S, D, k) => ins \in stmts
      /\ Differ(S, D, k) => upd \in stmts
      /\ Extra(S, D, k) => \E s \in stmts : Deletes(D, k, s)
    BY StatementsOfAKey DEF Inserts, UpdatesRow
<1>2. /\ S[k] # Gone => S[k].text \in Nat /\ S[k] \in Rows
      /\ D[k] # Gone => D[k].text \in Nat /\ D[k] \in Rows
    BY KeysHaveTexts DEF Tables, Rows
<1>3. T[k] = D[k] /\ (S[k] # Gone => Read(ValSent[Write(Read(S[k].val))]) = Read(S[k].val))
    BY DEF Ordinary, Kept
<1>4. After(T, stmts)[k] = IF row = Gone \/ updates = {} THEN row
                           ELSE [row EXCEPT !.val = Latest(updates).val]
    BY DEF After
<1>5. S[k] # Gone => /\ S[k].text \in Texts /\ ins.val \in Vals
                     /\ [text |-> S[k].text, val |-> ins.val] \in Rows
    <2> SUFFICES ASSUME S[k] # Gone PROVE S[k].text \in Texts /\ ins.val \in Vals
        BY DEF Rows
    <2>1. S[k].text \in Texts /\ S[k].val \in Vals
        BY DEF Tables, Rows
    <2>2. Write(Read(S[k].val)) \in Vals
        BY <2>1, NullIsRead DEF Read, Write
    <2> QED
        BY <2>1, <2>2, StatementsArrive
<1> SUFFICES AsText(After(T, stmts)[k]) = AsText(S[k])
    OBVIOUS
<1>6. ~Refused(T, stmts)
    OBVIOUS
<1> HIDE DEF stmts
<1>7. CASE S[k] = Gone /\ D[k] = Gone
    <2>1. making = {} /\ updates = {}
        BY <1>1, <1>7 DEF Making, Updates, Apart, Differ, Extra
    <2> QED
        BY <1>3, <1>4, <1>7, <2>1 DEF Stands, AsText
<1>8. CASE S[k] = Gone /\ D[k] # Gone
    <2>1. /\ \A s \in stmts : s.pk = k => Deletes(D, k, s)
          /\ \E s \in stmts : Deletes(D, k, s)
        BY <1>1, <1>8 DEF Apart, Differ, Extra
    <2>2. making # {} /\ \A s \in making : s.op = "DELETE" /\ s.at = D[k].text
        BY <2>1 DEF Making, Deletes
    <2>3. Latest(making) \in making
        BY <1>2, <1>8, <2>2 DEF Latest
    <2>4. row = Gone
        BY <2>2, <2>3 DEF Stands, Left
    <2> QED
        BY <1>4, <1>8, <2>4 DEF AsText
<1>9. CASE Apart(S, D, k) /\ D[k] = Gone
    <2>1. making = {ins} /\ updates = {}
        BY <1>1, <1>9 DEF Making, Updates, Apart, Differ, Extra
    <2>2. Latest(making) = ins
        BY <1>2, <1>9, <2>1 DEF Latest, Apart
    <2>3. row = [text |-> S[k].text, val |-> ins.val]
        BY <2>1, <2>2 DEF Stands, Left
    <2> QED
        BY <1>3, <1>4, <1>5, <1>9, <2>1, <2>3, NullIsRead DEF AsText, Apart
<1>10. CASE Apart(S, D, k) /\ D[k] # Gone
    <2>1. Extra(S, D, k) /\ ~Differ(S, D, k)
        BY <1>10 DEF Apart, Extra, Differ
    <2>2. PICK out \in stmts : Deletes(D, k, out)
        BY <1>1, <2>1
    <2>3. ins \in stmts /\ \A s \in stmts : s.pk = k => s = ins \/ Deletes(D, k, s)
        BY <1>1, <1>10, <2>1
    <2>4. Stands(T, Earlier(stmts, ins), k) = Gone
        <3>1. ins.op = "INSERT" /\ ins.pk = k
            OBVIOUS
        <3> QED
            BY <1>6, <2>3, <3>1 DEF Refused
    <2>5. out.at < ins.at
        <3> SUFFICES ASSUME ~(D[k].text < S[k].text) PROVE FALSE
            BY <2>2 DEF Deletes
        <3>1. Making(Earlier(stmts, ins), k) = {}
            BY <1>2, <1>10, <2>3 DEF Making, Earlier, Deletes, Apart
        <3> QED
            BY <1>3, <1>10, <2>4, <3>1 DEF Stands
    <2>6. ins \in making /\ \A s \in making : s = ins \/ s.at = D[k].text
        BY <2>3 DEF Making, Deletes
    <2>7. D[k].text < S[k].text /\ D[k].text \in Nat /\ S[k].text \in Nat
        BY <1>2, <1>10, <2>2, <2>5 DEF Deletes, Apart
    <2>8. /\ \A s \in making : s.at <= ins.at
          /\ \A s \in making : (\A r \in making : r.at <= s.at) => s = ins
        BY <2>6, <2>7
    <2>9. Latest(making) = ins
        BY <2>6, <2>8 DEF Latest
    <2>10. row = [text |-> S[k].text, val |-> ins.val]
        BY <2>6, <2>9 DEF Stands, Left
    <2>11. updates = {}
        BY <2>3 DEF Updates, Deletes
    <2> QED
        BY <1>3, <1>4, <1>5, <1>10, <2>10, <2>11, NullIsRead DEF AsText, Apart
<1>11. CASE Differ(S, D, k)
    <2>1. upd \in stmts /\ \A s \in stmts : s.pk = k => s = upd
        BY <1>1, <1>11 DEF Apart, Differ, Extra
    <2>2. making = {}
        BY <2>1 DEF Making
    <2>3. updates = {upd}
        BY <2>1, <2>2 DEF Updates
    <2>4. Latest(updates) = upd
        BY <1>2, <1>11, <2>3 DEF Latest, Differ
    <2>5. row = D[k] /\ D[k] # Gone /\ D[k] \in Rows /\ D[k].text = S[k].text /\ S[k] # Gone
        BY <1>2, <1>3, <1>11, <2>2 DEF Stands, Differ
    <2>6. After(T, stmts)[k] = [D[k] EXCEPT !.val = upd.val]
        BY <1>4, <2>3, <2>4, <2>5
    <2>7. [D[k] EXCEPT !.val = upd.val] = [text |-> S[k].text, val |-> ins.val]
        BY <2>5 DEF Rows
    <2> QED
        BY <1>3, <1>5, <2>5, <2>6, <2>7, NullIsRead DEF AsText
<1>12. CASE S[k] # Gone /\ D[k] # Gone /\ ~Apart(S, D, k) /\ ~Differ(S, D, k)
    <2>1. making = {} /\ updates = {}
        BY <1>1, <1>12 DEF Making, Updates, Apart, Differ, Extra
    <2>2. After(T, stmts)[k] = D[k]
        BY <1>3, <1>4, <2>1 DEF Stands
    <2> QED
        BY <1>12, <2>2 DEF AsText, Apart, Differ
<1> QED
    BY <1>7, <1>8, <1>9, <1>10, <1>11, <1>12 DEF Apart

(* Running statements leaves a table.                                          *)
LEMMA LatestIsOne ==
    ASSUME NEW stmts, stmts \subseteq Stmts, stmts # {}
    PROVE  Latest(stmts) \in stmts
<1> DEFINE Ats == {s.at : s \in stmts}
<1>1. Ats \subseteq Texts /\ Ats # {}
    BY DEF Stmts
<1>2. Ats \subseteq Nat /\ IsFiniteSet(Ats)
    BY <1>1, KeysHaveTexts, FS_Subset
<1>3. Max(Ats) \in Ats /\ \A y \in Ats : y <= Max(Ats)
    BY <1>1, <1>2, Greatest
<1>4. PICK s \in stmts : s.at = Max(Ats)
    BY <1>3
<1>5. \A r \in stmts : r.at <= s.at
    BY <1>3, <1>4
<1> QED
    BY <1>5 DEF Latest

LEMMA AfterIsTable ==
    ASSUME NEW T \in Tables, NEW stmts, stmts \subseteq Stmts
    PROVE  After(T, stmts) \in Tables
<1>1. ASSUME NEW k \in Pks PROVE Stands(T, stmts, k) \in Rows \cup {Gone}
    <2>1. CASE Making(stmts, k) = {}
        BY <2>1 DEF Stands, Tables
    <2>2. CASE Making(stmts, k) # {}
        <3>1. Latest(Making(stmts, k)) \in Making(stmts, k)
            BY <2>2, LatestIsOne DEF Making
        <3>2. Latest(Making(stmts, k)) \in Stmts
            BY <3>1 DEF Making
        <3>3. Left(Latest(Making(stmts, k))) \in Rows \cup {Gone}
            BY <3>2 DEF Left, Stmts, Rows
        <3> QED
            BY <2>2, <3>3 DEF Stands
    <2> QED
        BY <2>1, <2>2
<1>2. ASSUME NEW k \in Pks, Updates(stmts, k) # {} PROVE Latest(Updates(stmts, k)).val \in Vals
    <2>1. Latest(Updates(stmts, k)) \in Updates(stmts, k)
        BY <1>2, LatestIsOne DEF Updates
    <2>2. Latest(Updates(stmts, k)) \in Stmts
        BY <2>1 DEF Updates
    <2> QED
        BY <2>2 DEF Stmts
<1>3. ASSUME NEW row \in Rows, NEW v \in Vals PROVE [row EXCEPT !.val = v] \in Rows
    BY DEF Rows
<1>4. ASSUME NEW k \in Pks PROVE After(T, stmts)[k] \in Rows \cup {Gone}
    <2>1. After(T, stmts)[k] = IF Stands(T, stmts, k) = Gone \/ Updates(stmts, k) = {}
                               THEN Stands(T, stmts, k)
                               ELSE [Stands(T, stmts, k) EXCEPT !.val = Latest(Updates(stmts, k)).val]
        BY DEF After
    <2> QED
        BY <1>1, <1>2, <1>3, <2>1
<1> QED
    BY <1>4 DEF After, Tables

-----------------------------------------------------------------------------
(* The invariant, in three parts by the state they are about: the servers, the *)
(* panel, the call to sync.  Until the target is chosen anew, what is compared *)
(* or shown is for the target the selects have; and as long as nobody else     *)
(* uses the pool, the connection USE was run on is the one that is on top.     *)
Comparisons == [stage : Stages, from : Places, to : Places, limit : Limits,
                src : Tables \cup {None}, dest : Tables \cup {None}]
Results == [of : Comparisons, diffs : SUBSET Stmts]
SyncStages == {"use", "using", "begin", "tx", "committed"}
Syncs == [stage : SyncStages, result : Results, at : Conns \X (Dbs \cup {None}),
          in : Dbs \cup {None}, moved : BOOLEAN, disturbed : BOOLEAN, awaited : BOOLEAN]

Made(r) == r.of.src \in Tables /\ r.of.dest \in Tables /\ r.diffs = Difference(r.of)
UsedIsOnTop(s) ==
    /\ s.stage = "using" => Len(free) < MaxIdle
    /\ s.stage = "begin" => free # <<>> /\ Last(free) = s.at[2]
    /\ s.stage = "tx" => s.in = s.at[2]

ServerInv == db \in [Places -> Tables] /\ acts \in 0..MaxActs
CompareInv ==
    compare # None =>
        /\ compare \in Comparisons
        /\ compare.stage # "source" => compare.src \in Tables
        /\ compare.stage = "answer" => compare.dest \in Tables
        /\ ~moved => compare.to = dst
ResultInv ==
    result # None => result \in Results /\ Made(result) /\ (~moved => result.of.to = dst)
PanelInv ==
    /\ dst \in Conns \X (Dbs \cup {None}) /\ applying \in BOOLEAN /\ moved \in BOOLEAN
    /\ CompareInv /\ ResultInv
SyncInv ==
    /\ free \in Seq(Dbs) /\ Len(free) <= MaxIdle
    /\ sync # None =>
        /\ sync \in Syncs /\ Made(sync.result)
        /\ sync.awaited => applying
        /\ ~sync.moved => sync.at = sync.result.of.to
        /\ ~sync.disturbed => UsedIsOnTop(sync)
IInv == ServerInv /\ PanelInv /\ SyncInv

LEMMA InvariantMeans == IInv => TypeOK /\ GoesToItsTarget
<1> SUFFICES ASSUME IInv PROVE TypeOK /\ GoesToItsTarget
    OBVIOUS
<1>1. TypeOK
    BY DEF IInv, ServerInv, PanelInv, CompareInv, ResultInv, SyncInv, TypeOK,
           Comparisons, Results, Syncs
<1>2. ASSUME At("tx"), ~sync.moved, ~sync.disturbed PROVE Place = sync.result.of.to
    <2>1. sync \in Syncs /\ sync.at = sync.result.of.to /\ sync.in = sync.at[2]
        BY <1>2 DEF IInv, SyncInv, UsedIsOnTop, At
    <2>2. sync.at = <<sync.at[1], sync.at[2]>>
        BY <2>1 DEF Syncs
    <2> QED
        BY <2>1, <2>2 DEF Place
<1> QED
    BY <1>1, <1>2 DEF GoesToItsTarget

LEMMA InitIInv == Init => IInv
<1> SUFFICES ASSUME Init PROVE IInv
    OBVIOUS
<1>1. ServerInv
    BY StartsAreTables, LimitsAreNat DEF Init, ServerInv
<1>2. PanelInv
    BY DEF Init, PanelInv, CompareInv, ResultInv
<1>3. SyncInv
    BY SomeMayIdle DEF Init, SyncInv
<1> QED
    BY <1>1, <1>2, <1>3 DEF IInv

-----------------------------------------------------------------------------
(* The pool: what is taken, put back and removed leaves a sequence of databases. *)
LEMMA PoolParts ==
    ASSUME NEW q \in Seq(Dbs), q # <<>>
    PROVE  Front(q) \in Seq(Dbs) /\ Len(Front(q)) = Len(q) - 1 /\ Last(q) \in Dbs
<1>1. Len(q) \in Nat /\ Len(q) >= 1
    OBVIOUS
<1>2. PICK n \in Nat : n = Len(q) - 1 /\ n <= Len(q)
    <2>1. \A l \in Nat : l >= 1 => l - 1 \in Nat /\ l - 1 <= l
        OBVIOUS
    <2> QED
        BY <1>1, <2>1
<1>3. SubSeq(q, 1, n) \in Seq(Dbs) /\ Len(SubSeq(q, 1, n)) = n
    BY <1>1, <1>2
<1>4. q[Len(q)] \in Dbs
    BY <1>1
<1> QED
    BY <1>2, <1>3, <1>4 DEF Front, Last

LEMMA PoolStarts ==
    ASSUME NEW q \in BoundedSeq(Dbs, MaxIdle)
    PROVE  q \in Seq(Dbs) /\ Len(q) <= MaxIdle
<1>1. PICK m \in 0..MaxIdle : q \in [1..m -> Dbs]
    BY DEF BoundedSeq, SeqOf
<1> QED
    BY <1>1, SomeMayIdle

LEMMA PoolPut ==
    ASSUME NEW d \in Dbs, Put(d), free \in Seq(Dbs), Len(free) <= MaxIdle
    PROVE  /\ free' \in Seq(Dbs) /\ Len(free') <= MaxIdle
           /\ Len(free) < MaxIdle => free' # <<>> /\ Last(free') = d
<1>1. CASE Len(free) < MaxIdle
    <2>1. free' = Append(free, d)
        BY <1>1 DEF Put
    <2> QED
        BY <1>1, <2>1, SomeMayIdle DEF Last
<1>2. CASE ~(Len(free) < MaxIdle)
    BY <1>2 DEF Put
<1> QED
    BY <1>1, <1>2

LEMMA PoolTake ==
    ASSUME Take, free \in Seq(Dbs), Len(free) <= MaxIdle
    PROVE  free' \in Seq(Dbs) /\ Len(free') < MaxIdle
<1>1. CASE free = <<>>
    BY <1>1, SomeMayIdle DEF Take
<1>2. CASE free # <<>>
    BY <1>2, PoolParts, SomeMayIdle DEF Take
<1> QED
    BY <1>1, <1>2

LEMMA PoolRemove ==
    ASSUME NEW i \in DOMAIN free, free' = RemoveAt(free, i),
           free \in Seq(Dbs), Len(free) <= MaxIdle
    PROVE  free' \in Seq(Dbs) /\ Len(free') <= MaxIdle
<1> DEFINE before == SubSeq(free, 1, i - 1)
           after == SubSeq(free, i + 1, Len(free))
<1>1. i \in Nat /\ Len(free) \in Nat /\ 1 <= i /\ i <= Len(free)
    OBVIOUS
<1>2. before \in Seq(Dbs) /\ Len(before) = i - 1
    BY <1>1
<1>3. after \in Seq(Dbs) /\ Len(after) = Len(free) - i
    BY <1>1
<1>4. free' = before \o after
    BY DEF RemoveAt
<1> HIDE DEF before, after
<1>5. free' \in Seq(Dbs) /\ Len(free') = Len(before) + Len(after)
    BY <1>2, <1>3, <1>4
<1>6. Len(free') = Len(free) - 1
    BY <1>1, <1>2, <1>3, <1>5
<1> QED
    BY <1>1, <1>5, <1>6, SomeMayIdle

-----------------------------------------------------------------------------
(* Each part of the invariant asks only for its own variables to stay.         *)
LEMMA PanelStays ==
    ASSUME PanelInv, UNCHANGED <<dst, compare, result, applying, moved>>
    PROVE  PanelInv'
BY DEF PanelInv, CompareInv, ResultInv, Made

LEMMA ResultStays ==
    ASSUME ResultInv, UNCHANGED <<dst, result, moved>>
    PROVE  ResultInv'
BY DEF ResultInv, Made

LEMMA SyncStays ==
    ASSUME SyncInv, UNCHANGED <<free, sync>>, applying => applying'
    PROVE  SyncInv'
BY DEF SyncInv, Made, UsedIsOnTop

(* A choice of the target is no worry: it is noted in moved.                   *)
LEMMA TargetMoves ==
    ASSUME PanelInv, moved' = TRUE, UNCHANGED <<compare, result, applying>>,
           dst' \in Conns \X (Dbs \cup {None})
    PROVE  PanelInv'
BY DEF PanelInv, CompareInv, ResultInv, Made

LEMMA ServerStays ==
    ASSUME ServerInv, UNCHANGED db, UNCHANGED acts \/ Act
    PROVE  ServerInv'
BY LimitsAreNat DEF ServerInv, Act

-----------------------------------------------------------------------------
(* What the user does.                                                         *)
LEMMA UserIInv == IInv /\ User => IInv'
<1> SUFFICES ASSUME IInv, User PROVE IInv'
    OBVIOUS
<1> USE DEF IInv
<1>1. ServerInv'
    BY ServerStays DEF User, SelectConn, SelectDb, RunCompare, ApplySync, Close
<1>2. CASE SelectConn
    <2>1. PanelInv'
        BY <1>2, TargetMoves DEF SelectConn
    <2>2. SyncInv'
        BY <1>2, SyncStays DEF SelectConn
    <2> QED
        BY <1>1, <2>1, <2>2
<1>3. CASE SelectDb
    <2>1. dst' \in Conns \X (Dbs \cup {None})
        BY <1>3 DEF SelectDb, PanelInv
    <2>2. PanelInv'
        BY <1>3, <2>1, TargetMoves DEF SelectDb
    <2>3. SyncInv'
        BY <1>3, SyncStays DEF SelectDb
    <2> QED
        BY <1>1, <2>2, <2>3
<1>4. CASE RunCompare
    <2>1. compare' \in Comparisons /\ compare'.stage = "source" /\ compare'.to = dst'
        BY <1>4 DEF RunCompare, Comparisons, Stages
    <2>2. PanelInv'
        BY <1>4, <2>1 DEF RunCompare, PanelInv, CompareInv, ResultInv
    <2>3. SyncInv'
        BY <1>4, SyncStays DEF RunCompare
    <2> QED
        BY <1>1, <2>2, <2>3
<1>5. CASE ApplySync
    <2>1. CompareInv'
        BY <1>5 DEF ApplySync, PanelInv, CompareInv
    <2>2. ResultInv'
        BY <1>5, ResultStays DEF ApplySync, PanelInv
    <2>3. PanelInv'
        BY <1>5, <2>1, <2>2 DEF ApplySync, PanelInv
    <2>4. result \in Results /\ Made(result) /\ (~moved => result.of.to = dst)
        BY <1>5 DEF ApplySync, PanelInv, ResultInv
    <2>5. sync' \in Syncs
        BY <1>5, <2>4 DEF ApplySync, PanelInv, Syncs, SyncStages
    <2>6. Made(result)'
        BY <1>5, <2>4 DEF ApplySync, Made
    <2>7. Made(sync.result)'
        BY <1>5, <2>6 DEF ApplySync, Made
    <2>8. free' \in Seq(Dbs) /\ Len(free') <= MaxIdle
        BY <1>5, PoolStarts DEF ApplySync
    <2>9. SyncInv'
        BY <1>5, <2>4, <2>5, <2>7, <2>8 DEF ApplySync, SyncInv, UsedIsOnTop
    <2> QED
        BY <1>1, <2>3, <2>9
<1>6. CASE Close
    <2>1. PanelInv'
        <3>1. dst' \in Conns \X (Dbs \cup {None})
            BY <1>6 DEF Close
        <3>2. applying' = FALSE /\ moved' = FALSE /\ compare' = None /\ result' = None
            BY <1>6 DEF Close
        <3> QED
            BY <3>1, <3>2 DEF PanelInv, CompareInv, ResultInv
    <2>2. CASE sync = None
        BY <1>1, <1>6, <2>1, <2>2 DEF Close, SyncInv
    <2>3. CASE sync # None
        <3>1. /\ sync' = [sync EXCEPT !.awaited = FALSE] /\ sync \in Syncs
              /\ free' = free
            BY <1>6, <2>3 DEF Close, SyncInv
        <3>2. /\ sync' \in Syncs /\ ~sync'.awaited
              /\ sync'.stage = sync.stage /\ sync'.result = sync.result /\ sync'.at = sync.at
              /\ sync'.in = sync.in /\ sync'.moved = sync.moved /\ sync'.disturbed = sync.disturbed
            BY <3>1 DEF Syncs
        <3>3. SyncInv'
            BY <2>3, <3>1, <3>2 DEF SyncInv, Made, UsedIsOnTop
        <3> QED
            BY <1>1, <2>1, <3>3
    <2> QED
        BY <2>2, <2>3
<1> QED
    BY <1>2, <1>3, <1>4, <1>5, <1>6 DEF User

(* The comparison: what is read is a table, and the result is made of it.      *)
LEMMA ComparisonIInv == IInv /\ Comparison => IInv'
<1> SUFFICES ASSUME IInv, Comparison PROVE IInv'
    OBVIOUS
<1> USE DEF IInv
<1>1. ServerInv' /\ SyncInv'
    BY ServerStays, SyncStays DEF Comparison, ReadSource, ReadTarget, Compared, CompareFails
<1>2. CASE ReadSource
    <2>1. compare \in Comparisons /\ (~moved => compare.to = dst)
        BY <1>2 DEF ReadSource, PanelInv, CompareInv
    <2>2. db[compare.from] \in Tables
        BY <2>1 DEF ServerInv, Comparisons
    <2>3. /\ compare' \in Comparisons /\ compare'.stage = "target"
          /\ compare'.src \in Tables /\ compare'.to = compare.to
        BY <1>2, <2>1, <2>2 DEF ReadSource, Comparisons, Stages
    <2>4. CompareInv'
        BY <1>2, <2>1, <2>3 DEF ReadSource, CompareInv
    <2>5. PanelInv'
        BY <1>2, <2>4, ResultStays DEF ReadSource, PanelInv
    <2> QED
        BY <1>1, <2>5
<1>3. CASE ReadTarget
    <2>1. compare \in Comparisons /\ compare.src \in Tables /\ (~moved => compare.to = dst)
        BY <1>3 DEF ReadTarget, PanelInv, CompareInv
    <2>2. db[compare.to] \in Tables
        BY <2>1 DEF ServerInv, Comparisons
    <2>3. /\ compare' \in Comparisons /\ compare'.stage = "answer" /\ compare'.src \in Tables
          /\ compare'.dest \in Tables /\ compare'.to = compare.to
        BY <1>3, <2>1, <2>2 DEF ReadTarget, Comparisons, Stages
    <2>4. CompareInv'
        BY <1>3, <2>1, <2>3 DEF ReadTarget, CompareInv
    <2>5. PanelInv'
        BY <1>3, <2>4, ResultStays DEF ReadTarget, PanelInv
    <2> QED
        BY <1>1, <2>5
<1>4. CASE Compared
    <2>1. /\ compare \in Comparisons /\ compare.src \in Tables /\ compare.dest \in Tables
          /\ ~moved => compare.to = dst
        BY <1>4 DEF Compared, PanelInv, CompareInv
    <2>3. Difference(compare) \in SUBSET Stmts
        BY <2>1, StatementsAreStmts DEF Difference, Comparisons
    <2>4. result' \in Results /\ result'.of = compare /\ result'.diffs = Difference(compare)
        BY <1>4, <2>1, <2>3 DEF Compared, Results
    <2>5. Made(result)'
        BY <1>4, <2>1, <2>4 DEF Compared, Made
    <2>6. ResultInv'
        BY <1>4, <2>1, <2>4, <2>5 DEF Compared, ResultInv
    <2>7. PanelInv'
        BY <1>4, <2>6 DEF Compared, PanelInv, CompareInv
    <2> QED
        BY <1>1, <2>7
<1>5. CASE CompareFails
    <2>1. PanelInv'
        BY <1>5, ResultStays DEF CompareFails, PanelInv, CompareInv
    <2> QED
        BY <1>1, <2>1
<1> QED
    BY <1>2, <1>3, <1>4, <1>5 DEF Comparison

(* The call to sync: it takes the connection it gave back, unless the pool was *)
(* used in between.                                                            *)
LEMMA SyncIInv == IInv /\ Sync => IInv'
<1> SUFFICES ASSUME IInv, Sync PROVE IInv'
    OBVIOUS
<1> USE DEF IInv
<1>1. /\ sync \in Syncs /\ Made(sync.result) /\ free \in Seq(Dbs) /\ Len(free) <= MaxIdle
      /\ sync.awaited => applying
      /\ ~sync.moved => sync.at = sync.result.of.to
      /\ ~sync.disturbed => UsedIsOnTop(sync)
    BY DEF Sync, TakeForUse, Use, Begin, Commit, Applied, SyncFails, At, SyncInv
<1>2. Top \in Dbs \cup {None}
    <2>1. sync.at[1] \in Conns
        BY <1>1 DEF Syncs
    <2>2. CASE free = <<>>
        BY <2>1, <2>2, PoolsStartSomewhere DEF Top
    <2>3. CASE free # <<>>
        BY <1>1, <2>3, PoolParts DEF Top
    <2> QED
        BY <2>2, <2>3
<1>3. CASE TakeForUse
    <2>1. free' \in Seq(Dbs) /\ Len(free') < MaxIdle /\ Len(free') <= MaxIdle
        BY <1>1, <1>3, PoolTake, SomeMayIdle DEF TakeForUse
    <2>2. /\ sync' \in Syncs /\ sync'.stage = "using" /\ sync'.result = sync.result
          /\ sync'.at = sync.at /\ sync'.moved = sync.moved /\ sync'.awaited = sync.awaited
        BY <1>1, <1>2, <1>3 DEF TakeForUse, Syncs, SyncStages
    <2>3. ServerInv' /\ PanelInv'
        BY <1>3, ServerStays, PanelStays DEF TakeForUse, window
    <2>4. applying' = applying
        BY <1>3 DEF TakeForUse, window
    <2>5. SyncInv'
        BY <1>1, <2>1, <2>2, <2>4 DEF SyncInv, Made, UsedIsOnTop
    <2> QED
        BY <2>3, <2>5
<1>4. CASE Use
    <2>1. sync.at[2] \in Dbs /\ sync.stage = "using"
        BY <1>1, <1>4 DEF Use, At, Syncs
    <2>2. /\ free' \in Seq(Dbs) /\ Len(free') <= MaxIdle
          /\ Len(free) < MaxIdle => free' # <<>> /\ Last(free') = sync.at[2]
        BY <1>1, <1>4, <2>1, PoolPut DEF Use
    <2>3. /\ sync' \in Syncs /\ sync'.stage = "begin" /\ sync'.result = sync.result
          /\ sync'.at = sync.at /\ sync'.moved = sync.moved /\ sync'.awaited = sync.awaited
          /\ sync'.disturbed = sync.disturbed
        BY <1>1, <1>4 DEF Use, Syncs, SyncStages
    <2>4. ServerInv' /\ PanelInv'
        BY <1>4, ServerStays, PanelStays DEF Use, window
    <2>5. applying' = applying
        BY <1>4 DEF Use, window
    <2>6. SyncInv'
        BY <1>1, <2>1, <2>2, <2>3, <2>5 DEF SyncInv, Made, UsedIsOnTop
    <2> QED
        BY <2>4, <2>6
<1>5. CASE Begin
    <2>1. sync.stage = "begin"
        BY <1>5 DEF Begin, At
    <2>2. /\ sync' \in Syncs /\ sync'.stage = "tx" /\ sync'.result = sync.result
          /\ sync'.at = sync.at /\ sync'.moved = sync.moved /\ sync'.awaited = sync.awaited
          /\ sync'.disturbed = sync.disturbed /\ sync'.in = Top
        BY <1>1, <1>2, <1>5 DEF Begin, Syncs, SyncStages
    <2>3. ~sync.disturbed => Top = sync.at[2]
        BY <1>1, <2>1 DEF Top, UsedIsOnTop
    <2>4. ServerInv' /\ PanelInv'
        BY <1>5, ServerStays, PanelStays DEF Begin, window
    <2>5. applying' = applying /\ free' = <<>>
        BY <1>5 DEF Begin, window
    <2>6. SyncInv'
        BY <1>1, <2>2, <2>3, <2>5, SomeMayIdle DEF SyncInv, Made, UsedIsOnTop
    <2> QED
        BY <2>4, <2>6
<1>6. CASE Commit
    <2>1. db[Place] \in Tables /\ sync.result.diffs \subseteq Stmts
        BY <1>1, <1>6 DEF Commit, ServerInv, Syncs, Results
    <2>2. After(db[Place], sync.result.diffs) \in Tables
        BY <2>1, AfterIsTable
    <2>3. ServerInv'
        BY <1>6, <2>2 DEF Commit, ServerInv
    <2>4. PanelInv'
        BY <1>6, PanelStays DEF Commit, window
    <2>5. /\ sync' \in Syncs /\ sync'.stage = "committed" /\ sync'.result = sync.result
          /\ sync'.at = sync.at /\ sync'.moved = sync.moved /\ sync'.awaited = sync.awaited
        BY <1>1, <1>6 DEF Commit, Syncs, SyncStages
    <2>6. applying' = applying /\ free' = free
        BY <1>6 DEF Commit, window
    <2>7. SyncInv'
        BY <1>1, <2>5, <2>6 DEF SyncInv, Made, UsedIsOnTop
    <2> QED
        BY <2>3, <2>4, <2>7
<1>7. CASE Applied \/ SyncFails
    <2>1. Answer
        BY <1>7 DEF Applied, SyncFails
    <2>2. ServerInv'
        BY <2>1, ServerStays DEF Answer
    <2>3. SyncInv'
        BY <2>1, SomeMayIdle DEF Answer, SyncInv
    <2>4. CompareInv' /\ dst' \in Conns \X (Dbs \cup {None}) /\ applying' \in BOOLEAN /\ moved' \in BOOLEAN
        BY <2>1 DEF Answer, PanelInv, CompareInv
    <2>5. ResultInv'
        <3>1. CASE result' = None
            BY <3>1 DEF ResultInv
        <3>2. CASE result' = result
            BY <2>1, <3>2, ResultStays DEF Answer, PanelInv
        <3> QED
            BY <1>7, <3>1, <3>2 DEF Applied, SyncFails
    <2> QED
        BY <2>2, <2>3, <2>4, <2>5 DEF PanelInv
<1> QED
    BY <1>3, <1>4, <1>5, <1>6, <1>7 DEF Sync

(* Others: they write anything, and what they do to the pool is noted.         *)
LEMMA OthersIInv == IInv /\ Others => IInv'
<1> SUFFICES ASSUME IInv, Others PROVE IInv'
    OBVIOUS
<1> USE DEF IInv
<1>1. CASE OtherWrites
    <2>1. PICK p \in Places, k \in Pks : \E row \in Written[k] : db' = [db EXCEPT ![p][k] = row]
        BY <1>1 DEF OtherWrites
    <2>2. PICK row \in Rows \cup {Gone} : db' = [db EXCEPT ![p][k] = row]
        BY <2>1, OthersWriteRows
    <2>3. db' \in [Places -> Tables]
        BY <2>2 DEF ServerInv, Tables
    <2>4. ServerInv'
        BY <1>1, <2>3, LimitsAreNat DEF OtherWrites, Act, ServerInv
    <2>5. PanelInv' /\ SyncInv'
        BY <1>1, PanelStays, SyncStays DEF OtherWrites, window
    <2> QED
        BY <2>4, <2>5
<1>2. CASE OtherTakes \/ OtherGives \/ Expires
    <2>1. Disturb
        BY <1>2 DEF OtherTakes, OtherGives, Expires
    <2>2. /\ sync \in Syncs /\ Made(sync.result) /\ free \in Seq(Dbs) /\ Len(free) <= MaxIdle
          /\ sync.awaited => applying
          /\ ~sync.moved => sync.at = sync.result.of.to
        BY <2>1 DEF Disturb, At, SyncInv
    <2>3. free' \in Seq(Dbs) /\ Len(free') <= MaxIdle
        BY <1>2, <2>2, PoolTake, PoolPut, PoolRemove, SomeMayIdle
           DEF OtherTakes, OtherGives, Expires
    <2>4. /\ sync' \in Syncs /\ sync'.disturbed /\ sync'.result = sync.result
          /\ sync'.at = sync.at /\ sync'.moved = sync.moved /\ sync'.awaited = sync.awaited
        BY <2>1, <2>2 DEF Disturb, Syncs
    <2>5. ServerInv' /\ PanelInv'
        BY <2>1, ServerStays, PanelStays DEF Disturb, window
    <2>6. applying' = applying
        BY <2>1 DEF Disturb, window
    <2>7. SyncInv'
        BY <2>2, <2>3, <2>4, <2>6 DEF SyncInv, Made
    <2> QED
        BY <2>5, <2>7
<1> QED
    BY <1>1, <1>2 DEF Others

LEMMA NextIInv == IInv /\ [Next]_vars => IInv'
<1> SUFFICES ASSUME IInv, [Next]_vars PROVE IInv'
    OBVIOUS
<1>1. CASE UNCHANGED vars
    BY <1>1, ServerStays, PanelStays, SyncStays DEF vars, window, IInv
<1> QED
    BY <1>1, UserIInv, ComparisonIInv, SyncIInv, OthersIInv DEF Next

-----------------------------------------------------------------------------
LEMMA SpecIInv == Spec => []IInv
<1> QED
    BY InitIInv, NextIInv, PTL DEF Spec

(* The variables have their types, for any servers, keys, values and bounds.   *)
THEOREM SyncTypes == Spec => []TypeOK
<1>1. IInv => TypeOK
    BY InvariantMeans
<1> QED
    BY <1>1, SpecIInv, PTL

(* applySync: the transaction of SyncTableData is begun in the database the    *)
(* comparison read, if the target was not chosen anew and nobody used the pool *)
(* between USE and BEGIN.                                                      *)
THEOREM DifferencesGoHome == Spec => []GoesToItsTarget
<1>1. IInv => GoesToItsTarget
    BY InvariantMeans
<1> QED
    BY <1>1, SpecIInv, PTL

(* compareData and SyncTableData: what is committed makes each row that has not *)
(* changed since it was read, is within the limit, has a text of its own, is    *)
(* named by the statements made of it and of a value that survives the way, the *)
(* row of the source, whichever way the servers spell its key.                  *)
THEOREM SyncMakesEqual == Spec => SyncedRowsAreEqual
<1>1. ASSUME IInv, Commit, Place = sync.result.of.to,
             NEW k \in Pks, Settled(sync.result.of, k)
      PROVE  AsText(db'[sync.result.of.to][k]) = AsText(db[sync.result.of.from][k])
    <2> DEFINE c == sync.result.of
               stmts == CompareData(Load(c.src, c.limit), Load(c.dest, c.limit))
    <2>1. sync \in Syncs /\ Made(sync.result)
        BY <1>1 DEF Commit, At, IInv, SyncInv
    <2>2. c \in Comparisons /\ c.src \in Tables /\ c.dest \in Tables
        BY <2>1 DEF Syncs, Results, Made
    <2>3. c.limit \in Limits /\ c.to \in Places /\ c.from \in Places
        BY <2>2 DEF Comparisons
    <2>4. db[c.to] \in Tables
        BY <1>1, <2>3 DEF IInv, ServerInv
    <2>5. db'[c.to] = After(db[c.to], stmts) /\ ~Refused(db[c.to], stmts)
        BY <1>1, <2>1, <2>3 DEF Commit, Made, Difference, IInv, ServerInv
    <2>6. Ordinary(c.src, c.dest, db[c.to], k, c.limit) /\ db[c.from][k] = c.src[k]
        BY <1>1 DEF Settled, Ordinary
    <2> HIDE DEF c
    <2>7. AsText(After(db[c.to], stmts)[k]) = AsText(c.src[k])
        BY <2>2, <2>3, <2>4, <2>5, <2>6, RunMakesEqual
    <2> QED
        BY <2>5, <2>6, <2>7 DEF c
<1>2. IInv /\ [Next]_vars =>
          [Commit /\ Place = sync.result.of.to
           => \A k \in Pks : Settled(sync.result.of, k) =>
                 AsText(db'[sync.result.of.to][k]) = AsText(db[sync.result.of.from][k])]_vars
    BY <1>1
<1> QED
    BY <1>2, SpecIInv, PTL DEF Spec, SyncedRowsAreEqual
=============================================================================
