------------------------------ MODULE DataSync ------------------------------
(* Data Synchronization (components/DataSync, internal/sync/data_sync.go): the    *)
(* window has a comparison of two tables made, shows the difference, and lets it   *)
(* be applied to the target, which is by then another choice of the selects.       *)
(* The difference is text without the name of a database: which one it goes to     *)
(* is a matter of the connection it runs on, and that is taken from a pool that    *)
(* others use too, last in, first out (database/sql).                              *)
EXTENDS Integers, Sequences, FiniteSets, SequencesExt

CONSTANTS Conns,     \* open connections
          Dbs,       \* databases of the servers
          Places,    \* the connections and databases that have the table
          DefaultDb, \* the database a new connection of a pool is in, or None
          Pks,       \* primary keys: numbers, in the order of ORDER BY
          Vals,      \* what the rest of a row may hold, Null and Word among it
          Null, Word,   \* SQL's NULL, and the word
          Gone,      \* there is no row with the key
          Texts,     \* what makePKKey makes of keys: numbers, in the order of the bytes
          WordKeys,  \* keys, each with its text, that hold the word in a column
          KeySent, ValSent,  \* what the server takes the key and the value of a statement for
          Start, Written,  \* bounds: what the servers may have at first, what others write
          Limits,    \* maxRows
          MaxIdle,   \* SetMaxIdleConns
          MaxActs,   \* bound on what the user does and others write
          None

\* Two spellings are one key to the server (its collation), and two keys can have one text.
Rows == [text : Texts, val : Vals]
Tables == [Pks -> Rows \cup {Gone}]

ASSUME KeysAreOrdered == Pks \subseteq Nat /\ IsFiniteSet(Pks)
ASSUME KeysHaveTexts == Texts \subseteq Nat /\ IsFiniteSet(Texts) /\ WordKeys \subseteq Pks \X Texts
ASSUME StatementsArrive == /\ KeySent \in [Pks \X Texts -> (Pks \cup {None}) \X Texts]
                           /\ ValSent \in [Vals -> Vals]
ASSUME PlacesAreThere == Places \subseteq Conns \X Dbs
ASSUME StartsAreTables == Start \subseteq [Places -> Tables]
ASSUME OthersWriteRows == Written \in [Pks -> SUBSET (Rows \cup {Gone})]
ASSUME NullIsRead == Null \in Vals /\ Word \in Vals /\ Gone \notin Rows /\ None \notin Pks
ASSUME SomeMayIdle == MaxIdle \in Nat \ {0}
ASSUME LimitsAreNat == Limits \subseteq Nat /\ MaxActs \in Nat
ASSUME PoolsStartSomewhere == DefaultDb \in [Conns -> Dbs \cup {None}] /\ None \notin Dbs

VARIABLES
    db,       \* the table at each place
    free,     \* DB.freeConn of the pool that sync uses, while it does: the database of each
    dst,      \* dstConn and dstDB
    compare,  \* CompareTableData under way, or None
    result,   \* the result on the screen, or None
    applying,
    sync,     \* SyncTableData under way, or None
    acts,
    moved     \* history: the target was chosen anew since the comparison began

window == <<dst, compare, result, applying, moved>>
vars == <<db, free, window, sync, acts>>

-----------------------------------------------------------------------------
\* How a value is read, NULL as the word, and written, the word as NULL (quoteVal).
Read(v) == IF v = Null THEN Word ELSE v
Write(w) == IF w = Word THEN Null ELSE w
\* quoteVal writes keys too, and nothing is = NULL.
Named(k, t) == IF <<k, t>> \in WordKeys THEN <<None, t>> ELSE KeySent[<<k, t>>]

Present(table) == {k \in Pks : table[k] # Gone}
\* ORDER BY the key LIMIT n.
Window(table, n) == {k \in Present(table) : Cardinality({j \in Present(table) : j <= k}) <= n}

\* loadTableData: of rows with one text the last is kept.
Load(table, n) ==
    [t \in {table[k].text : k \in Window(table, n)} |->
        LET k == Max({j \in Window(table, n) : table[j].text = t})
        IN [pk |-> k, text |-> t, val |-> Read(table[k].val)]]

\* What is run: the text of the statement has been JSON on its way to the window and back.
Stmt(kind, row) ==
    [op |-> kind, at |-> row.text,
     pk |-> Named(row.pk, row.text)[1], text |-> Named(row.pk, row.text)[2],
     val |-> ValSent[Write(row.val)]]
\* Fault: the UPDATE is made of the target's row.
CompareDataBackwards(src, dest) ==
    {Stmt("INSERT", src[t]) : t \in DOMAIN src \ DOMAIN dest}
    \cup {Stmt("UPDATE", dest[t]) : t \in {u \in DOMAIN src \cap DOMAIN dest : src[u] # dest[u]}}
    \cup {Stmt("DELETE", dest[t]) : t \in DOMAIN dest \ DOMAIN src}
CompareData(src, dest) ==
    {Stmt("INSERT", src[t]) : t \in DOMAIN src \ DOMAIN dest}
    \cup {Stmt("UPDATE", src[t]) : t \in {u \in DOMAIN src \cap DOMAIN dest : src[u] # dest[u]}}
    \cup {Stmt("DELETE", dest[t]) : t \in DOMAIN dest \ DOMAIN src}

\* The statements are run in the order of the texts.  What key k has after those that put
\* a row there or take it away: nothing, or the row of the last one.
Latest(stmts) == CHOOSE s \in stmts : \A r \in stmts : r.at <= s.at
Making(stmts, k) == {s \in stmts : s.pk = k /\ s.op # "UPDATE"}
Left(s) == IF s.op = "DELETE" THEN Gone ELSE [text |-> s.text, val |-> s.val]
Stands(table, stmts, k) ==
    IF Making(stmts, k) = {} THEN table[k] ELSE Left(Latest(Making(stmts, k)))

\* An INSERT of a key that is there is refused, and of NULL, which no key is; an UPDATE or
\* DELETE of no row does nothing.
Earlier(stmts, s) == {r \in stmts : r.at < s.at}
Refused(table, stmts) ==
    \E s \in stmts : /\ s.op = "INSERT"
                     /\ s.pk = None \/ Stands(table, Earlier(stmts, s), s.pk) # Gone
Updates(stmts, k) ==
    {s \in stmts : s.pk = k /\ s.op = "UPDATE" /\ \A r \in Making(stmts, k) : r.at < s.at}
After(table, stmts) ==
    [k \in Pks |->
        LET row == Stands(table, stmts, k)
        IN IF row = Gone \/ Updates(stmts, k) = {} THEN row
           ELSE [row EXCEPT !.val = Latest(Updates(stmts, k)).val]]

-----------------------------------------------------------------------------
Init ==
    /\ db \in Start
    /\ free = <<>>
    /\ dst \in Conns \X {None}
    /\ compare = None /\ result = None /\ applying = FALSE /\ sync = None
    /\ acts = 0 /\ moved = FALSE

Act == acts < MaxActs /\ acts' = acts + 1

\* The target's selects are open at all times: what is shown stays, whatever is chosen.
SelectConn ==
    /\ Act
    /\ \E c \in Conns : dst' = <<c, None>>
    /\ moved' = TRUE
    /\ UNCHANGED <<db, free, compare, result, applying, sync>>
SelectDb ==
    /\ Act
    /\ \E d \in Dbs : dst' = <<dst[1], d>>
    /\ moved' = TRUE
    /\ UNCHANGED <<db, free, compare, result, applying, sync>>

\* runCompare: every select has a choice; those of the source are read here and no more.
RunCompare ==
    /\ Act /\ compare = None /\ dst \in Places
    /\ \E from \in Places, n \in Limits :
          compare' = [stage |-> "source", from |-> from, to |-> dst, limit |-> n,
                      src |-> None, dest |-> None]
    /\ result' = None /\ moved' = FALSE
    /\ UNCHANGED <<db, free, dst, applying, sync>>

\* The two tables are read one after the other, at most limit rows of each.
ReadSource ==
    /\ compare # None /\ compare.stage = "source"
    /\ compare' = [compare EXCEPT !.stage = "target", !.src = db[compare.from]]
    /\ UNCHANGED <<db, free, dst, result, applying, moved, sync, acts>>
ReadTarget ==
    /\ compare # None /\ compare.stage = "target"
    /\ compare' = [compare EXCEPT !.stage = "answer", !.dest = db[compare.to]]
    /\ UNCHANGED <<db, free, dst, result, applying, moved, sync, acts>>

Difference(c) == CompareData(Load(c.src, c.limit), Load(c.dest, c.limit))
Compared ==
    /\ compare # None /\ compare.stage = "answer"
    /\ result' = [of |-> compare, diffs |-> Difference(compare)]
    /\ compare' = None
    /\ UNCHANGED <<db, free, dst, applying, moved, sync, acts>>
CompareFails ==
    /\ compare # None
    /\ compare' = None
    /\ UNCHANGED <<db, free, dst, result, applying, moved, sync, acts>>

\* Fault: what the panel asked for comes to the panel that is opened next.
CloseAwaiting ==
    /\ Act
    /\ \E c \in Conns : dst' = <<c, None>>
    /\ compare' = None /\ result' = None /\ applying' = FALSE /\ moved' = FALSE
    /\ UNCHANGED <<db, free, sync>>

\* The panel is closed and opened: its calls go on, but nobody waits for them.
Close ==
    /\ Act
    /\ \E c \in Conns : dst' = <<c, None>>
    /\ compare' = None /\ result' = None /\ applying' = FALSE /\ moved' = FALSE
    /\ sync' = IF sync = None THEN None ELSE [sync EXCEPT !.awaited = FALSE]
    /\ UNCHANGED <<db, free>>

-----------------------------------------------------------------------------
\* applySync, confirmed: the text of the result, the connection and database of the selects.
ApplySync ==
    /\ Act /\ result # None /\ result.diffs # {} /\ ~applying
    /\ sync = None
    /\ sync' = [stage |-> "use", result |-> result, at |-> dst, in |-> None,
                moved |-> moved, disturbed |-> FALSE, awaited |-> TRUE]
    /\ applying' = TRUE /\ free' \in BoundedSeq(Dbs, MaxIdle)
    /\ UNCHANGED <<db, dst, compare, result, moved>>

At(stage) == sync # None /\ sync.stage = stage

\* DB.conn: the connection that came back last, or a new one; it may have to be waited for.
Top == IF free = <<>> THEN DefaultDb[sync.at[1]] ELSE Last(free)
Take == free' = IF free = <<>> THEN free ELSE Front(free)
\* DB.putConn: kept unless enough are idle.
Put(d) == free' = IF Len(free) < MaxIdle THEN Append(free, d) ELSE free

TakeForUse ==
    /\ At("use") /\ Take
    /\ sync' = [sync EXCEPT !.stage = "using", !.in = Top]
    /\ UNCHANGED <<db, window, acts>>
\* Fault: USE is run as a query whose rows are never closed, which keeps its connection.
UseHolds ==
    /\ At("using") /\ sync.at[2] # None
    /\ sync' = [sync EXCEPT !.stage = "begin", !.in = None]
    /\ UNCHANGED <<db, free, window, acts>>

\* ExecContext gives the connection back when USE is done; USE `` is refused.
Use ==
    /\ At("using") /\ sync.at[2] # None
    /\ Put(sync.at[2])
    /\ sync' = [sync EXCEPT !.stage = "begin", !.in = None]
    /\ UNCHANGED <<db, window, acts>>
\* What becomes of the pool after this is nobody's concern.
Begin ==
    /\ At("begin")
    /\ sync' = [sync EXCEPT !.stage = "tx", !.in = Top]
    /\ free' = <<>>
    /\ UNCHANGED <<db, window, acts>>

\* The statements and the commit.  A row stays locked from the first statement that writes it
\* on, so that what others write comes before or after: one step stands for them.
Place == <<sync.at[1], sync.in>>
Commit ==
    /\ At("tx") /\ Place \in Places
    /\ ~Refused(db[Place], sync.result.diffs)
    /\ db' = [db EXCEPT ![Place] = After(@, sync.result.diffs)]
    /\ sync' = [sync EXCEPT !.stage = "committed", !.in = None]
    /\ UNCHANGED <<free, window, acts>>

\* What the answer finds: the panel that asked, or another one.
Answer == /\ sync' = None
          /\ applying' = (applying /\ ~sync.awaited)
          /\ free' = <<>>
          /\ UNCHANGED <<db, dst, compare, moved, acts>>
Applied ==
    /\ At("committed") /\ Answer
    /\ result' = IF sync.awaited THEN None ELSE result
\* A step fails, the transaction is rolled back, or the answer to the commit is lost.
SyncFails ==
    /\ sync # None /\ Answer
    /\ UNCHANGED result

-----------------------------------------------------------------------------
\* Others use the pool of the connection, and the servers.
Disturb ==
    /\ At("using") \/ At("begin")
    /\ sync' = [sync EXCEPT !.disturbed = TRUE]
    /\ UNCHANGED <<db, window, acts>>
OtherTakes == Disturb /\ free # <<>> /\ Take
\* Executor leaves a connection in the database its call named.
OtherGives == Disturb /\ \E d \in Dbs : Put(d)
\* Idle for too long, too old, or found broken when it is taken.
Expires == Disturb /\ \E i \in DOMAIN free : free' = RemoveAt(free, i)
OtherWrites ==
    /\ Act
    /\ \E p \in Places, k \in Pks : \E row \in Written[k] :
          row # db[p][k] /\ db' = [db EXCEPT ![p][k] = row]
    /\ UNCHANGED <<free, window, sync>>

-----------------------------------------------------------------------------
User == SelectConn \/ SelectDb \/ RunCompare \/ ApplySync \/ Close
Comparison == ReadSource \/ ReadTarget \/ Compared \/ CompareFails
Sync == TakeForUse \/ Use \/ Begin \/ Commit \/ Applied \/ SyncFails
Others == OtherWrites \/ OtherTakes \/ OtherGives \/ Expires
Next == User \/ Comparison \/ Sync \/ Others

Spec == Init /\ [][Next]_vars

-----------------------------------------------------------------------------
Stmts == [op : {"INSERT", "UPDATE", "DELETE"}, at : Texts,
          pk : Pks \cup {None}, text : Texts, val : Vals]
Stages == {"source", "target", "answer"}
TypeOK ==
    /\ db \in [Places -> Tables]
    /\ free \in Seq(Dbs) /\ Len(free) <= MaxIdle
    /\ dst \in Conns \X (Dbs \cup {None})
    /\ compare # None => compare.stage \in Stages /\ {compare.from, compare.to} \subseteq Places
    /\ result # None => result.of.to \in Places /\ result.diffs \subseteq Stmts
    /\ sync # None => sync.result.diffs \subseteq Stmts /\ (sync.awaited => applying)
    /\ acts \in 0..MaxActs

\* A difference is applied to the table it was made for.  Not so when the user chose another
\* target after the comparison, or when others used the pool while USE and BEGIN took their connections from it.
GoesToItsTarget ==
    At("tx") /\ ~sync.moved /\ ~sync.disturbed => Place = sync.result.of.to

\* There, each row is afterwards what the source has, as text, keys that the servers spell
\* in two ways included.  Not so for rows that changed since they were read, for those of
\* which a table has one beyond the limit, for keys that share their text with another, for
\* keys whose statements name no row or that of another (the word NULL, bytes that are not
\* UTF-8), and for values of which the server is sent, or makes, another.
Seen(table, k, n) == table[k] # Gone => k \in Window(table, n)
Alone(k, tables) ==
    \A t, u \in tables, j \in Pks \ {k} :
        t[k] # Gone /\ u[j] # Gone => t[k].text # u[j].text
OwnName(k, tables) ==
    \A t \in tables :
        /\ t[k] # Gone => Named(k, t[k].text) = <<k, t[k].text>>
        /\ \A j \in Pks \ {k} : t[j] # Gone => Named(j, t[j].text)[1] # k
Kept(row) == row # Gone => Read(ValSent[Write(Read(row.val))]) = Read(row.val)
Settled(c, k) ==
    /\ c.src[k] = db[c.from][k] /\ Seen(c.src, k, c.limit)
    /\ c.dest[k] = db[c.to][k] /\ Seen(c.dest, k, c.limit)
    /\ Alone(k, {c.src, c.dest}) /\ OwnName(k, {c.src, c.dest}) /\ Kept(c.src[k])
AsText(row) == IF row = Gone THEN Gone ELSE [text |-> row.text, val |-> Read(row.val)]
SyncedRowsAreEqual ==
    [][Commit /\ Place = sync.result.of.to
       => \A k \in Pks : Settled(sync.result.of, k) =>
             AsText(db'[sync.result.of.to][k]) = AsText(db[sync.result.of.from][k])]_vars
=============================================================================
