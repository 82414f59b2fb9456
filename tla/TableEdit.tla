------------------------------ MODULE TableEdit ------------------------------
(* The grid of the Data tab (components/ResultGrid, ResultPanel's TableDataTab): *)
(* one table that several connections have, the rows useQuery cached for each,    *)
(* the copy the grid edits, the queue of unsaved cells, and the calls that go to  *)
(* the server meanwhile: saves column by column, deletions row by row, insertions *)
(* with their reload, the form view and refreshes.  The window is single-threaded; *)
(* what interleaves is the server's work and the answers.  The grid stays mounted.  *)
EXTENDS Integers, FiniteSets, Functions

CONSTANTS Conns,     \* open connections, each with the table
          Pks,       \* primary keys: numbers, in the order the server returns rows
          Cols, Vals,
          Start,     \* bound: the tables a server may have at first
          NewRows,   \* bound: the rows the user may insert
          Remakes,   \* bound: the rows the server may make of one that is written
          MaxSaves,  \* bound on commitRow calls in flight
          MaxActs,   \* bound on what the user does
          None, Gone

ASSUME PksAreOrdered == Pks \subseteq Nat
ASSUME BoundsAreNumbers == MaxSaves \in Nat /\ MaxActs \in Nat
ASSUME RowsOfTheTable ==
    /\ Start \subseteq [Pks -> [Cols -> Vals] \cup {Gone}]
    /\ NewRows \subseteq [Cols -> Vals] /\ Remakes \subseteq [Cols -> Vals]
ASSUME Apart == None \notin Conns /\ Gone \notin [Cols -> Vals]

Row == [Cols -> Vals]
\* Functions on part of D: the cells, or rows, that there are.
Some(D, V) == UNION {[S -> V] : S \in SUBSET D}
Tables == Some(Pks, Row)

\* A row array: its content never changes, an edit makes another array, of a later gen.
Array == [of : Conns, pk : Pks, gen : Nat, vals : Row]
Typing == [val : Vals, pk : Pks]
SaveCall == [ref : Array, todo : Some(Cols, Typing), ok : Some(Cols, Vals), conn : Conns,
             early : BOOLEAN, rest : SUBSET Array]
DeleteCall == [todo : SUBSET Array, done : SUBSET Array, conn : Conns, early : BOOLEAN]
InsertCall == [stage : {"insert", "reload", "show"}, pk : Pks, row : Row, conn : Conns,
               rows : Tables, since : SUBSET Pks]
\* What is typed in a field of the form view, over what, and for which row.
Draft == [pos : Nat, col : Cols, val : Vals, was : Vals, of : Conns, pk : Pks]
FormCall == [ref : Array, pos : Nat, draft : Draft, conn : Conns, early : BOOLEAN, sent : BOOLEAN]
ASSUME NoneIsNoCall == None \notin SaveCall \cup DeleteCall \cup InsertCall \cup FormCall \cup Draft

VARIABLES
    server,   \* the rows each server has
    cache,    \* useQuery: the rows each connection's query holds, or None
    fetch,    \* useQuery: the call under way for each connection
    at,       \* props.connId
    from,     \* the connection of `result', which is at's or still the previous one
    rows,     \* localRows
    gen,      \* makes the arrays of rows that are made later other arrays
    pending,  \* usePendingEdits: row array -> column -> edit
    edit,     \* useInlineEdit: the open editor, by position
    draft,    \* FormCell: what is typed and not saved, by position
    saves,    \* commitRow calls
    del, ins, form,  \* deleteSelectedRows, confirmInsert, FormView's handleCommit
    acts,
    written,  \* history: rows written since each connection's cache was read
    off,      \* history: rows a write of which met another call
    shifted,  \* history: another row came under an open editor
    twin,     \* history: another row came under a typed field
    crossed   \* history: a reload put rows of one connection into the grid of another

grid == <<rows, pending, edit, draft>>
history == <<written, off, shifted, twin, crossed>>
editVars == <<server, cache, fetch, at, from, grid, gen, saves, del, ins, form, acts, history>>

Slots == 1..MaxSaves
Idle == [stage |-> "none", rows |-> <<>>, since |-> {}]

Put(f, x, v) == [y \in DOMAIN f \cup {x} |-> IF y = x THEN v ELSE f[y]]
Over(f, g) == [y \in DOMAIN g |-> IF y \in DOMAIN f THEN f[y] ELSE g[y]]

\* The arrays made of the rows of a table.
Refs(c, table, g) == {[of |-> c, pk |-> k, gen |-> g, vals |-> table[k]] : k \in DOMAIN table}
Present(table) == Restrict(table, {k \in Pks : table[k] # Gone})
Rank(S, k) == Cardinality({r \in S : r.pk <= k})
AtRank(S, n) == {r \in S : Rank(S, r.pk) = n}

EditInit ==
    /\ server \in [Conns -> Start]
    /\ cache = [c \in Conns |-> None] /\ fetch = [c \in Conns |-> Idle]
    /\ at \in Conns /\ from = None
    /\ rows = {} /\ gen = 1 /\ pending = <<>> /\ edit = None /\ draft = None
    /\ saves = [s \in Slots |-> None] /\ del = None /\ ins = None /\ form = None
    /\ acts = 0
    /\ written = [c \in Conns |-> {}] /\ off = {}
    /\ shifted = FALSE /\ twin = FALSE /\ crossed = FALSE

-----------------------------------------------------------------------------
\* A click or a key outside an open editor closes it first.
Act == edit = None /\ acts < MaxActs /\ acts' = acts + 1
Loading == from # at

\* The row the form view shows at place n: the last one where there are not so many.
FormRow(S, n) == IF AtRank(S, n) # {} THEN AtRank(S, n)
                 ELSE {r \in S : \A q \in S : q.pk <= r.pk}

\* The form view is drawn with the rows `new' at place n: a field keeps what is typed in it
\* while the value it is given stays what it was.
Draw(new, n) ==
    IF /\ draft # None
       /\ \E r \in FormRow(rows, draft.pos), q \in FormRow(new, n) :
              q.vals[draft.col] = r.vals[draft.col]
    THEN /\ draft' = [draft EXCEPT !.pos = n]
         /\ twin' = (twin \/ \E q \in FormRow(new, n) : q.of # draft.of \/ q.pk # draft.pk)
    ELSE draft' = None /\ twin' = twin

\* The [result] effects: new rows, no unsaved cells, no editor.
Reset(refs) == rows' = refs /\ pending' = <<>> /\ edit' = None /\ Draw(refs, draft.pos)

\* Fault: without that effect.
SetLocalRowsOnly(new) ==
    /\ rows' = new /\ pending' = pending /\ edit' = edit /\ Draw(new, draft.pos)
    /\ shifted' = (shifted \/ (edit # None /\
                     {r.pk : r \in AtRank(new, edit.pos)} # {edit.pk}))

\* setLocalRows(new), and the effect that drops unsaved cells of arrays that are gone.
SetLocalRows(new) ==
    /\ rows' = new
    /\ pending' = Restrict(pending, DOMAIN pending \cap new)
    /\ edit' = edit /\ Draw(new, draft.pos)
    /\ shifted' = (shifted \/ (edit # None /\
                     {r.pk : r \in AtRank(new, edit.pos)} # {edit.pk}))

\* A write of row k by the server of c: a read whose answer is under way has missed it.
Missed(c, k) ==
    /\ written' = [written EXCEPT ![c] = @ \cup {k}]
    /\ fetch' = [fetch EXCEPT ![c].since = IF fetch[c].stage = "read" THEN @ \cup {k} ELSE @]
Written(c, k) ==
    /\ Missed(c, k)
    /\ ins' = IF ins # None /\ ins.conn = c THEN [ins EXCEPT !.since = @ \cup {k}] ELSE ins

\* The answer finds the row gone from the grid, or was the wrong server's.
Astray(r, conn) == r \notin rows \/ r.of # conn

\* Written by a call whose answer is still to come.
Unanswered ==
    (IF del = None THEN {} ELSE {r.pk : r \in del.done})
    \cup (IF form = None \/ ~form.sent THEN {} ELSE {form.ref.pk})
    \cup {saves[s].ref.pk : s \in {q \in Slots : saves[q] # None /\ saves[q].ok # <<>>}}

-----------------------------------------------------------------------------
(* Reading. *)

SelectTable ==
    /\ Act
    /\ \E c \in Conns \ {at} :
         /\ at' = c
         /\ IF cache[c] = None
            THEN /\ fetch' = [fetch EXCEPT ![c] = IF @ = Idle THEN [@ EXCEPT !.stage = "sent"] ELSE @]
                 /\ UNCHANGED <<from, grid, off, twin>>
            ELSE /\ fetch' = fetch /\ from' = c
                 /\ IF from = c THEN UNCHANGED <<grid, off, twin>>
                    ELSE Reset(cache[c]) /\ off' = written[c]
    /\ UNCHANGED <<server, cache, gen, saves, del, ins, form, written, shifted, crossed>>

\* The first load when the tab is mounted, and the button.
Refresh ==
    /\ \/ cache[at] = None /\ fetch[at] = Idle /\ acts' = acts
       \/ cache[at] # None /\ Act
    /\ fetch' = [fetch EXCEPT ![at] = [Idle EXCEPT !.stage = "sent"]]
    /\ UNCHANGED <<server, cache, at, from, grid, gen, saves, del, ins, form, history>>

Read(c) ==
    /\ fetch[c].stage = "sent"
    /\ fetch' = [fetch EXCEPT ![c] = [stage |-> "read", rows |-> Present(server[c]), since |-> Unanswered]]
    /\ UNCHANGED <<server, cache, at, from, grid, gen, saves, del, ins, form, acts, history>>

\* Structural sharing: a row that came back at the place it had, and as it was, stays the
\* array that it was.
Share(old, new) ==
    {LET same == {o \in old : o.pk = r.pk /\ o.vals = r.vals /\ Rank(old, o.pk) = Rank(new, r.pk)}
     IN IF same = {} THEN r ELSE CHOOSE o \in same : TRUE : r \in new}

Arrive(c) ==
    /\ fetch[c].stage = "read"
    /\ LET new == Share(IF cache[c] = None THEN {} ELSE cache[c], Refs(c, fetch[c].rows, gen))
       IN /\ cache' = [cache EXCEPT ![c] = new]
          /\ IF at = c THEN Reset(new) /\ from' = c /\ off' = fetch[c].since
             ELSE UNCHANGED <<grid, from, off, twin>>
    /\ gen' = gen + 1
    /\ fetch' = [fetch EXCEPT ![c] = Idle]
    /\ written' = [written EXCEPT ![c] = fetch[c].since]
    /\ UNCHANGED <<server, at, saves, del, ins, form, acts, shifted, crossed>>

-----------------------------------------------------------------------------
(* Editing. *)

Edits(r) == IF r \in DOMAIN pending THEN pending[r] ELSE <<>>
Queue(r, edits) == IF edits = <<>> THEN Restrict(pending, DOMAIN pending \ {r})
                   ELSE Put(pending, r, edits)

\* An edit that gives the array's own value back takes the cell out of the queue.
Enqueue(r, col, v, pk) ==
    pending' = Queue(r, IF v = r.vals[col] THEN Restrict(Edits(r), DOMAIN Edits(r) \ {col})
                        ELSE Put(Edits(r), col, [val |-> v, pk |-> pk]))

\* What is done in the grid, where the form view with its fields is not mounted.
InGrid == Act /\ draft = None

\* Delete on a cell, "set NULL" and fill-down.
FillCell(r, col, v) ==
    /\ InGrid
    /\ Enqueue(r, col, v, r.pk)
    /\ UNCHANGED <<server, cache, fetch, at, from, rows, edit, draft, gen, saves, del, ins, form, history>>

StartEdit(r, col) ==
    /\ InGrid
    /\ edit' = [pos |-> Rank(rows, r.pk), col |-> col, pk |-> r.pk]
    /\ UNCHANGED <<server, cache, fetch, at, from, rows, pending, draft, gen, saves, del, ins, form, history>>

CancelEdit ==
    /\ edit # None /\ edit' = None
    /\ UNCHANGED <<server, cache, fetch, at, from, rows, pending, draft, gen, saves, del, ins, form,
                   acts, history>>

\* The row is the one that is at the editor's place now.  A value that is the array's own
\* closes the editor and does nothing else.
ConfirmEdit(v) ==
    /\ edit # None /\ edit' = None
    /\ \/ \E r \in AtRank(rows, edit.pos) :
            IF v = r.vals[edit.col] THEN pending' = pending
            ELSE Enqueue(r, edit.col, v, edit.pk)
       \/ AtRank(rows, edit.pos) = {} /\ pending' = pending
    /\ UNCHANGED <<server, cache, fetch, at, from, rows, draft, gen, saves, del, ins, form, acts,
                   history>>

DiscardRow(r) ==
    /\ InGrid /\ pending' = Queue(r, <<>>)
    /\ UNCHANGED <<server, cache, fetch, at, from, rows, edit, draft, gen, saves, del, ins, form, history>>
DiscardAll ==
    /\ Act /\ pending # <<>> /\ pending' = <<>>
    /\ UNCHANGED <<server, cache, fetch, at, from, rows, edit, draft, gen, saves, del, ins, form, history>>

-----------------------------------------------------------------------------
(* Saving: commitRow and commitAll. *)

\* Fault: what was typed is shown whether its column is saved or not.
SaveOptimistic(r, edits, c, early, rest) ==
    [ref |-> r, todo |-> edits, ok |-> [col \in DOMAIN edits |-> edits[col].val],
     conn |-> c, early |-> early, rest |-> rest]
Save(r, edits, c, early, rest) ==
    [ref |-> r, todo |-> edits, ok |-> <<>>, conn |-> c, early |-> early, rest |-> rest]

Begin(r, rest) ==
    \E s \in Slots :
        /\ saves[s] = None /\ \A q \in Slots : q < s => saves[q] # None
        /\ saves' = [saves EXCEPT ![s] = Save(r, pending[r], at, Loading, rest)]

\* Leaving the row, or Ctrl+Enter.
CommitRow(r) ==
    /\ InGrid /\ r \in DOMAIN pending /\ Begin(r, {})
    /\ UNCHANGED <<server, cache, fetch, at, from, grid, gen, del, ins, form, history>>

CommitAll ==
    /\ Act /\ Cardinality(DOMAIN pending) > 1
    /\ \E r \in DOMAIN pending : Begin(r, DOMAIN pending \ {r})
    /\ UNCHANGED <<server, cache, fetch, at, from, grid, gen, del, ins, form, history>>

\* What the server may make of row k when v is written to a column: the row with that value,
\* or another one, by a conversion of the value, ON UPDATE, a generated column or a trigger.
\* UpdateRowValue is an error when no row was changed: there is none, or it stays as it was.
Typed(c, k, col, v) == [server[c][k] EXCEPT ![col] = v]
Changes(c, k, col, v) ==
    IF server[c][k] = Gone THEN {} ELSE ({Typed(c, k, col, v)} \cup Remakes) \ {server[c][k]}

\* Rows the server made something else of: what was typed is not what it saved.
Remade(c, k, col, v, made) == IF made = Typed(c, k, col, v) THEN {} ELSE {k}

\* One column: updated, refused, or updated with the answer lost.
Update(s) ==
    /\ saves[s] # None
    /\ \E col \in DOMAIN saves[s].todo :
         LET save == saves[s]
             k == save.ref.pk
             v == save.todo[col].val
             left == [save EXCEPT !.todo = Restrict(@, DOMAIN @ \ {col})]
         IN \/ \E made \in Changes(save.conn, k, col, v) :
                 /\ server' = [server EXCEPT ![save.conn][k] = made]
                 /\ Written(save.conn, k)
                 /\ \/ /\ saves' = [saves EXCEPT ![s] = [left EXCEPT !.ok = Put(@, col, v)]]
                       /\ off' = off \cup Remade(save.conn, k, col, v, made)
                    \/ saves' = [saves EXCEPT ![s] = left] /\ off' = off \cup {k}
            \/ /\ saves' = [saves EXCEPT ![s] = left]
               /\ UNCHANGED <<server, fetch, written, ins, off>>
    /\ UNCHANGED <<cache, at, from, grid, gen, del, form, acts, shifted, twin, crossed>>

\* The next row of commitAll is one that is still in the queue.
After(save, queue, c) ==
    LET next == save.rest \cap DOMAIN queue
    IN IF next = {} THEN {None}
       ELSE {Save(r, queue[r], c, save.early, save.rest \ {r}) : r \in next}

\* The saved columns go into a new array; what was left in the queue of the old one goes.
Saved(s, conn) ==
    /\ saves[s] # None /\ saves[s].todo = <<>>
    /\ LET save == saves[s]
           new == [save.ref EXCEPT !.vals = Over(save.ok, @), !.gen = gen]
       IN /\ IF save.ok # <<>> /\ save.ref \in rows
             THEN SetLocalRows((rows \ {save.ref}) \cup {new}) /\ gen' = gen + 1
             ELSE UNCHANGED <<grid, gen, shifted, twin>>
          /\ off' = IF save.ok # <<>> /\ Astray(save.ref, save.conn) THEN off \cup {save.ref.pk} ELSE off
          /\ \E next \in After(save, pending', conn) : saves' = [saves EXCEPT ![s] = next]
    /\ UNCHANGED <<server, cache, fetch, at, from, del, ins, form, acts, written, crossed>>
\* Fault: the next row goes to the connection that is shown now.
FinishHere(s) == saves[s] # None /\ Saved(s, at)
Finish(s) == saves[s] # None /\ Saved(s, saves[s].conn)

-----------------------------------------------------------------------------
(* Deleting rows: one statement for each, the grid after the last. *)

DeleteSelectedRows ==
    /\ Act /\ del = None
    /\ \E S \in SUBSET rows \ {{}} : del' = [todo |-> S, done |-> {}, conn |-> at, early |-> Loading]
    /\ UNCHANGED <<server, cache, fetch, at, from, grid, gen, saves, ins, form, history>>

Delete ==
    /\ del # None
    /\ \E r \in del.todo :
         /\ server' = [server EXCEPT ![del.conn][r.pk] = Gone]
         /\ Written(del.conn, r.pk)
         /\ del' = [del EXCEPT !.todo = @ \ {r}, !.done = @ \cup {r}]
    /\ UNCHANGED <<cache, at, from, grid, gen, saves, form, acts, off, shifted, twin, crossed>>

\* A statement fails, or its answer is lost: what is deleted stays on the screen.
DeleteFails ==
    /\ del # None
    /\ del' = None
    /\ off' = off \cup {r.pk : r \in del.done}
    /\ UNCHANGED <<server, cache, fetch, at, from, grid, gen, saves, ins, form, acts,
                   written, shifted, twin, crossed>>

Deleted ==
    /\ del # None /\ del.todo = {}
    /\ SetLocalRows(rows \ del.done)
    /\ off' = off \cup {r.pk : r \in {q \in del.done : Astray(q, del.conn)}}
    /\ del' = None
    /\ UNCHANGED <<server, cache, fetch, at, from, gen, saves, ins, form, acts, written, crossed>>

-----------------------------------------------------------------------------
(* Inserting a row, and the query of the result once more. *)

ConfirmInsert ==
    /\ InGrid /\ ins = None /\ from # None
    /\ \E k \in Pks, w \in NewRows :
         ins' = [stage |-> "insert", pk |-> k, row |-> w, conn |-> at, rows |-> <<>>, since |-> {}]
    /\ UNCHANGED <<server, cache, fetch, at, from, grid, gen, saves, del, form, history>>

Insert ==
    /\ ins # None /\ ins.stage = "insert" /\ server[ins.conn][ins.pk] = Gone
    /\ server' = [server EXCEPT ![ins.conn][ins.pk] = ins.row]
    /\ Missed(ins.conn, ins.pk)
    /\ ins' = [ins EXCEPT !.stage = "reload"]
    /\ UNCHANGED <<cache, at, from, grid, gen, saves, del, form, acts, off, shifted, twin, crossed>>

\* Insertion or reload fails; after the reload's failure the new row is not on the screen.
InsertFails ==
    /\ ins # None
    /\ off' = IF ins.stage = "insert" THEN off ELSE off \cup {ins.pk}
    /\ ins' = None
    /\ UNCHANGED <<server, cache, fetch, at, from, grid, gen, saves, del, form, acts,
                   written, shifted, twin, crossed>>

Reload ==
    /\ ins # None /\ ins.stage = "reload"
    /\ ins' = [ins EXCEPT !.stage = "show", !.rows = Present(server[ins.conn]), !.since = Unanswered]
    /\ UNCHANGED <<server, cache, fetch, at, from, grid, gen, saves, del, form, acts, history>>

Inserted ==
    /\ ins # None /\ ins.stage = "show"
    /\ SetLocalRows(Refs(ins.conn, ins.rows, gen)) /\ gen' = gen + 1
    /\ off' = IF ins.conn = from THEN ins.since ELSE Pks
    /\ crossed' = (crossed \/ ins.conn # from)
    /\ ins' = None
    /\ UNCHANGED <<server, cache, fetch, at, from, saves, del, form, acts, written>>

-----------------------------------------------------------------------------
(* The form view: what is typed in a field, for the row that is there, is saved when the    *)
(* field loses the focus, to the row that is there then; after that every row is copied.    *)

FormType(r, col, v) ==
    /\ Act /\ form = None /\ v # r.vals[col]
    /\ draft # None => draft.col = col /\ r \in FormRow(rows, draft.pos)
    /\ draft' = [pos |-> IF draft = None THEN Rank(rows, r.pk) ELSE draft.pos,
                 col |-> col, val |-> v, was |-> r.vals[col], of |-> r.of, pk |-> r.pk]
    /\ UNCHANGED <<server, cache, fetch, at, from, rows, pending, edit, gen, saves, del, ins, form,
                   history>>

\* Escape, and going back to the grid.
LeaveField ==
    /\ draft # None /\ draft' = None
    /\ UNCHANGED <<server, cache, fetch, at, from, rows, pending, edit, gen, saves, del, ins, form,
                   acts, history>>

\* A field that was not saved, or not to be saved, is still as it was typed.
HandleNavigate ==
    /\ Act /\ draft # None
    /\ \E r \in rows \ FormRow(rows, draft.pos) : Draw(rows, Rank(rows, r.pk))
    /\ UNCHANGED <<server, cache, fetch, at, from, rows, pending, edit, gen, saves, del, ins, form,
                   written, off, shifted, crossed>>

HandleCommit ==
    /\ Act /\ form = None /\ draft # None
    /\ \E r \in FormRow(rows, draft.pos) :
         /\ draft.val # r.vals[draft.col]
         /\ form' = [ref |-> r, pos |-> Rank(rows, r.pk), draft |-> draft, conn |-> at,
                     early |-> Loading, sent |-> FALSE]
    /\ UNCHANGED <<server, cache, fetch, at, from, grid, gen, saves, del, ins, history>>

\* Updated, updated with the answer lost, or refused.
FormUpdate ==
    /\ form # None /\ ~form.sent
    /\ LET k == form.ref.pk
           col == form.draft.col
           v == form.draft.val
       IN \/ \E made \in Changes(form.conn, k, col, v) :
               /\ server' = [server EXCEPT ![form.conn][k] = made]
               /\ Written(form.conn, k)
               /\ \/ /\ form' = [form EXCEPT !.sent = TRUE]
                     /\ off' = off \cup Remade(form.conn, k, col, v, made)
                  \/ form' = None /\ off' = off \cup {k}
          \/ /\ form' = None
             /\ UNCHANGED <<server, fetch, written, ins, off>>
    /\ UNCHANGED <<cache, at, from, grid, gen, saves, del, acts, shifted, twin, crossed>>

\* The place is the one the row had when the call began.  Where there is none any more the
\* handler throws while the grid is drawn, and nothing more is said of this grid.
Copied(r) == [r EXCEPT !.gen = gen,
                       !.vals[form.draft.col] = IF Rank(rows, r.pk) = form.pos THEN form.draft.val
                                              ELSE @]
OnRowUpdate ==
    /\ form # None /\ form.sent /\ form.pos <= Cardinality(rows)
    /\ SetLocalRows({Copied(r) : r \in rows})
    /\ off' = IF form.ref \in AtRank(rows, form.pos) /\ ~Astray(form.ref, form.conn) THEN off
              ELSE off \cup {form.ref.pk} \cup {r.pk : r \in AtRank(rows, form.pos)}
    /\ gen' = gen + 1 /\ form' = None
    /\ UNCHANGED <<server, cache, fetch, at, from, saves, del, ins, acts, written, crossed>>

-----------------------------------------------------------------------------
OfRow(r) == \/ \E col \in Cols : StartEdit(r, col) \/ \E v \in Vals : FillCell(r, col, v)
                                 \/ FormType(r, col, v)
            \/ CommitRow(r) \/ DiscardRow(r)
User == (\E r \in rows : OfRow(r)) \/ (\E v \in Vals : ConfirmEdit(v)) \/ CancelEdit \/ DiscardAll
        \/ LeaveField \/ HandleNavigate \/ HandleCommit
        \/ SelectTable \/ Refresh \/ CommitAll \/ DeleteSelectedRows \/ ConfirmInsert
Calls == (\E s \in Slots : Update(s) \/ Finish(s)) \/ (\E c \in Conns : Read(c) \/ Arrive(c))
         \/ Delete \/ DeleteFails \/ Deleted \/ Insert \/ InsertFails \/ Reload \/ Inserted
         \/ FormUpdate \/ OnRowUpdate
EditNext == User \/ Calls

EditSpec == EditInit /\ [][EditNext]_editVars

-----------------------------------------------------------------------------
EditTypeOK ==
    /\ server \in [Conns -> [Pks -> Row \cup {Gone}]]
    /\ at \in Conns /\ from \in Conns \cup {None} /\ gen \in Nat /\ acts \in 0..MaxActs
    /\ rows \subseteq Array /\ \A r \in rows : r.gen < gen /\ AtRank(rows, Rank(rows, r.pk)) = {r}
    /\ DOMAIN pending \subseteq rows /\ <<>> \notin Range(pending) /\ draft \in {None} \cup Draft
    /\ saves \in [Slots -> {None} \cup SaveCall]
    /\ del \in {None} \cup DeleteCall /\ ins \in {None} \cup InsertCall /\ form \in {None} \cup FormCall
    /\ off \subseteq Pks /\ written \in [Conns -> SUBSET Pks]

\* What is sent to a server, as an UPDATE or a DELETE, is for a row that was read from it
\* and, cell by cell, was typed for that row: however rows come and go while it waits.
\* Not so where it was sent while the grid still showed the table of the connection
\* before, where a reload was put over another table, where a row slid under the editor, or
\* where another row came under a field of the form: and then it has the value that what is
\* sent was typed over.
SentForItsRow ==
    /\ \A s \in Slots : saves[s] # None =>
         /\ saves[s].ref.of = saves[s].conn \/ saves[s].early \/ crossed
         /\ \A col \in DOMAIN saves[s].todo : saves[s].todo[col].pk = saves[s].ref.pk \/ shifted
    /\ del # None => \A r \in del.todo : r.of = del.conn \/ del.early \/ crossed
    /\ form # None => /\ form.ref.of = form.conn \/ form.early \/ crossed
                      /\ (form.draft.of = form.ref.of /\ form.draft.pk = form.ref.pk) \/ twin
                      /\ form.draft.was = form.ref.vals[form.draft.col]

\* When every call is answered the grid shows the rows the server has, but for those of
\* which a write met a read, a deletion, another save, a lost answer or an error half way,
\* those the server made something else of than what was typed, and those written before the
\* table was left and shown again from the cache.
Quiet == /\ \A s \in Slots : saves[s] = None
         /\ del = None /\ ins = None /\ form = None /\ ~Loading
         /\ \A c \in Conns : fetch[c] = Idle
Shown(k) == {r.vals : r \in {q \in rows : q.pk = k}}
ShownIsSaved ==
    Quiet => \A k \in Pks \ off :
                Shown(k) = IF server[at][k] = Gone THEN {} ELSE {server[at][k]}
=============================================================================
