------------------------------ MODULE Executor ------------------------------
(* Queries over the pool of one session (internal/query/executor.go): a call  *)
(* runs its statements one after the other, each under a context with a       *)
(* timeout whose cancel function is registered under a key, and each on a     *)
(* connection of the pool that is put into the database of the call first.    *)
(* CancelQuery looks the key up and calls what it found without the lock.     *)
EXTENDS Naturals

CONSTANTS Procs,      \* goroutines that serve calls running SQL
          Cancels,    \* goroutines that serve CancelQuery
          Tabs,       \* ids of query tabs: keys of ExecuteMulti
          Singles,    \* the connection's id and "mcp:" with it: keys of Execute and ExecuteStream
          Databases,  \* databases of the server
          NoDb,       \* database ''; also what a connection starts in (the DSN's)
          Conns,      \* connections the pool may have open (SetMaxOpenConns)
          Ctxs,       \* contexts of statements
          None,       \* nothing of the kind
          MaxStmts    \* bound on the statements of a call

Keys == Tabs \cup Singles

ASSUME Distinct ==
    /\ None \notin Keys \cup Conns \cup Ctxs \cup Databases \cup {NoDb}
    /\ NoDb \notin Databases
    /\ Tabs \cap Singles = {}
ASSUME MaxStmtsPos == MaxStmts \in Nat \ {0}

VARIABLES
    cancelFuncs,  \* Executor.cancelFuncs: the context each key would cancel
    live,         \* contexts neither cancelled nor timed out
    ctx,          \* the context of the statement a call is at
    pc, call,     \* where each call is; its key, database and statements left
    ok,           \* the statement a call is at has succeeded
    out, held,    \* connections given out by the pool, and to which call
    sess,         \* the database each connection is in, None where it is not open
    fn, asked,    \* the context a CancelQuery has looked up, and under which key
    mixed         \* history: keys whose calls have overlapped and are not all over

vars == <<cancelFuncs, live, ctx, pc, call, ok, out, held, sess, fn, asked, mixed>>
pool == <<out, held, sess>>
registry == <<cancelFuncs, live, ctx, mixed>>
cancelling == <<fn, asked>>

\* ExecuteMulti of a tab, ExecuteQuery, the execute tool of MCP, ExecuteStream.
Calls == [key : Tabs, db : Databases \cup {NoDb}, left : 1..MaxStmts]
             \cup [key : Singles, db : Databases \cup {NoDb}, left : {1}]
NoCall == [key |-> None, db |-> NoDb, left |-> 0]

Init ==
    /\ cancelFuncs = [k \in Keys |-> None] /\ live = {} /\ mixed = {}
    /\ ctx = [p \in Procs |-> None]
    /\ pc = [p \in Procs |-> "idle"] /\ call = [p \in Procs |-> NoCall]
    /\ ok = [p \in Procs |-> FALSE]
    /\ out = {} /\ held = [p \in Procs |-> None] /\ sess = [c \in Conns |-> None]
    /\ fn = [q \in Cancels |-> None] /\ asked = [q \in Cancels |-> None]

-----------------------------------------------------------------------------
Goto(p, l) == pc' = [pc EXCEPT ![p] = l]
Return(p) == Goto(p, "idle") /\ call' = [call EXCEPT ![p] = NoCall]

Begin(p, o) ==
    /\ pc[p] = "idle"
    /\ call' = [call EXCEPT ![p] = o]
    /\ Goto(p, "register")
    /\ UNCHANGED <<registry, ok, pool, cancelling>>

\* The session was closed: the call ends, with what its statements so far returned.
GetDBFails(p) ==
    /\ pc[p] = "register"
    /\ Return(p)
    /\ UNCHANGED <<registry, ok, pool, cancelling>>

Fresh == {n \in Ctxs : /\ \A p \in Procs : ctx[p] # n
                       /\ \A k \in Keys : cancelFuncs[k] # n
                       /\ \A q \in Cancels : fn[q] # n}

\* Other calls at a statement under the same key.
Rivals(p) == {q \in Procs \ {p} : ctx[q] # None /\ call[q].key = call[p].key}

KeyOfConn(p) == CHOOSE k \in Singles : TRUE    \* fault: tabs cancel by connection
KeyOf(p) == call[p].key

\* context.WithTimeout and registerCancel, over the entry that may be there.
Register(p) ==
    /\ pc[p] = "register"
    /\ Fresh # {}
    /\ LET n == CHOOSE n \in Fresh : TRUE
       IN /\ live' = live \cup {n}
          /\ ctx' = [ctx EXCEPT ![p] = n]
          /\ cancelFuncs' = [cancelFuncs EXCEPT ![KeyOf(p)] = n]
    /\ mixed' = IF Rivals(p) # {} THEN mixed \cup {call[p].key} ELSE mixed
    /\ Goto(p, "acquire")
    /\ UNCHANGED <<call, ok, pool, cancelling>>

-----------------------------------------------------------------------------
\* Fault: the deferred unregisterCancel moves with db.Conn into a helper.
AcquireInHelper(p) ==
    /\ pc[p] = "acquire" /\ ctx[p] \in live
    /\ \E c \in Conns \ out :
         /\ out' = out \cup {c}
         /\ held' = [held EXCEPT ![p] = c]
         /\ sess' = [sess EXCEPT ![c] = IF @ = None THEN NoDb ELSE @]
    /\ cancelFuncs' = [cancelFuncs EXCEPT ![KeyOf(p)] = None]
    /\ Goto(p, IF call[p].db = NoDb THEN "run" ELSE "use")
    /\ UNCHANGED <<live, ctx, mixed, call, ok, cancelling>>

\* db.Conn (QueryContext of a stream): a connection nobody has, opened if need be.
Acquire(p) ==
    /\ pc[p] = "acquire" /\ ctx[p] \in live
    /\ \E c \in Conns \ out :
         /\ out' = out \cup {c}
         /\ held' = [held EXCEPT ![p] = c]
         /\ sess' = [sess EXCEPT ![c] = IF @ = None THEN NoDb ELSE @]
    /\ Goto(p, IF call[p].db = NoDb THEN "run" ELSE "use")
    /\ UNCHANGED <<registry, call, ok, cancelling>>

\* The wait ended with the context or with the pool, or none could be opened.
AcquireFails(p) ==
    /\ pc[p] = "acquire"
    /\ Goto(p, "unregister")
    /\ UNCHANGED <<registry, call, ok, pool, cancelling>>

Use(p) ==
    /\ pc[p] = "use" /\ ctx[p] \in live
    /\ sess' = [sess EXCEPT ![held[p]] = call[p].db]
    /\ Goto(p, "run")
    /\ UNCHANGED <<registry, call, ok, out, held, cancelling>>

\* The statement is done; it may itself have been a USE.
Run(p) ==
    /\ pc[p] = "run" /\ ctx[p] \in live
    /\ \E d \in Databases \cup {sess[held[p]]} : sess' = [sess EXCEPT ![held[p]] = d]
    /\ ok' = [ok EXCEPT ![p] = TRUE]
    /\ Goto(p, "release")
    /\ UNCHANGED <<registry, call, out, held, cancelling>>

\* Fault: a USE that fails is passed over.
UsePassedOver(p) ==
    /\ pc[p] \in {"use", "run"}
    /\ Goto(p, IF pc[p] = "use" THEN "run" ELSE "release")
    /\ UNCHANGED <<registry, call, ok, pool, cancelling>>

\* Fault: an error returns past the Close of the connection.
FailsPastClose(p) ==
    /\ pc[p] \in {"use", "run"}
    /\ \E d \in {sess[held[p]], None} : sess' = [sess EXCEPT ![held[p]] = d]
    /\ Goto(p, "unregister")
    /\ UNCHANGED <<registry, call, ok, out, held, cancelling>>

\* USE or the statement fails; a context that ends breaks the connection.
Fails(p) ==
    /\ pc[p] \in {"use", "run"}
    /\ \E d \in {sess[held[p]], None} :
          /\ ctx[p] \notin live => d = None
          /\ sess' = [sess EXCEPT ![held[p]] = d]
    /\ Goto(p, "release")
    /\ UNCHANGED <<registry, call, ok, out, held, cancelling>>

Release(p) ==
    /\ pc[p] = "release"
    /\ out' = out \ {held[p]}
    /\ held' = [held EXCEPT ![p] = None]
    /\ Goto(p, "unregister")
    /\ UNCHANGED <<registry, call, ok, sess, cancelling>>

\* The deferred cancel and unregisterCancel, which deletes whatever is under the key.
\* ExecuteMulti goes on with the next statement unless this one failed.
Unregister(p) ==
    /\ pc[p] = "unregister"
    /\ live' = live \ {ctx[p]}
    /\ cancelFuncs' = [cancelFuncs EXCEPT ![KeyOf(p)] = None]
    /\ ctx' = [ctx EXCEPT ![p] = None]
    /\ IF ok[p] /\ call[p].left > 1
       THEN call' = [call EXCEPT ![p].left = @ - 1] /\ Goto(p, "register")
       ELSE Return(p)
    /\ ok' = [ok EXCEPT ![p] = FALSE]
    /\ mixed' = IF Rivals(p) # {} THEN mixed ELSE mixed \ {call[p].key}
    /\ UNCHANGED <<pool, cancelling>>

-----------------------------------------------------------------------------
\* Cancel: the function is looked up under mu and called after it.
CancelLookup(q, k) ==
    /\ asked[q] = None /\ cancelFuncs[k] # None
    /\ fn' = [fn EXCEPT ![q] = cancelFuncs[k]]
    /\ asked' = [asked EXCEPT ![q] = k]
    /\ UNCHANGED <<registry, pc, call, ok, pool>>

CancelFires(q) ==
    /\ asked[q] # None
    /\ live' = live \ {fn[q]}
    /\ fn' = [fn EXCEPT ![q] = None] /\ asked' = [asked EXCEPT ![q] = None]
    /\ UNCHANGED <<cancelFuncs, ctx, mixed, pc, call, ok, pool>>

\* The timeout of Execute, or the longer one of ExecuteStream.
NoTimeout(n) == FALSE    \* fault: a context without one
Timeout(n) ==
    /\ n \in live
    /\ live' = live \ {n}
    /\ UNCHANGED <<cancelFuncs, ctx, mixed, pc, call, ok, pool, cancelling>>

\* The pool closes a connection that was idle or open for too long, or the server does.
Expire(c) ==
    /\ c \notin out /\ sess[c] # None
    /\ sess' = [sess EXCEPT ![c] = None]
    /\ UNCHANGED <<registry, pc, call, ok, out, held, cancelling>>

-----------------------------------------------------------------------------
Step(p) ==
    \/ GetDBFails(p) \/ Register(p) \/ Acquire(p) \/ AcquireFails(p)
    \/ Use(p) \/ Run(p) \/ Fails(p) \/ Release(p) \/ Unregister(p)

Next ==
    \/ \E p \in Procs : Step(p) \/ \E o \in Calls : Begin(p, o)
    \/ \E q \in Cancels : CancelFires(q) \/ \E k \in Keys : CancelLookup(q, k)
    \/ \E n \in Ctxs : Timeout(n)
    \/ \E c \in Conns : Expire(c)

\* What does not depend on the server: once its context is over, a call goes on.
Unaided(p) ==
    \/ GetDBFails(p) \/ Register(p) \/ Release(p) \/ Unregister(p)
    \/ ctx[p] \notin live /\ (AcquireFails(p) \/ Fails(p))

\* Timers fire; a statement need never end by itself, nor a connection come free.
Spec ==
    /\ Init /\ [][Next]_vars
    /\ \A p \in Procs : WF_vars(Unaided(p))
    /\ \A n \in Ctxs : WF_vars(Timeout(n))

-----------------------------------------------------------------------------
(* Keys, contexts and connections refer to each other by name; a call has a   *)
(* context from its registration on and a connection from Acquire to Release. *)
TypeOK ==
    /\ cancelFuncs \in [Keys -> Ctxs \cup {None}]
    /\ live \subseteq Ctxs /\ mixed \subseteq Keys
    /\ ctx \in [Procs -> Ctxs \cup {None}]
    /\ pc \in [Procs -> {"idle", "register", "acquire", "use", "run", "release", "unregister"}]
    /\ call \in [Procs -> Calls \cup {NoCall}]
    /\ ok \in [Procs -> BOOLEAN]
    /\ out \subseteq Conns /\ held \in [Procs -> Conns \cup {None}]
    /\ sess \in [Conns -> Databases \cup {NoDb, None}]
    /\ fn \in [Cancels -> Ctxs \cup {None}] /\ asked \in [Cancels -> Keys \cup {None}]
    /\ \A p \in Procs :
         /\ call[p] = NoCall <=> pc[p] = "idle"
         /\ ctx[p] = None <=> pc[p] \in {"idle", "register"}
         /\ held[p] = None <=> pc[p] \notin {"use", "run", "release"}
    /\ \A q \in Cancels : fn[q] = None <=> asked[q] = None

(* A statement of a call that names a database runs in that database, though  *)
(* connections are shared with calls of other databases and with statements   *)
(* that are themselves a USE (executor.go:83-84).                             *)
RunsInItsDatabase ==
    \A p \in Procs : pc[p] = "run" /\ call[p].db # NoDb => sess[held[p]] = call[p].db

(* Tabs cancel independently (executor.go:290): the context that a cancel is  *)
(* about to end is of a call with the key asked for, or of no call any more.  *)
OnlyItsKey ==
    \A q \in Cancels, p \in Procs : asked[q] # None /\ ctx[p] = fn[q] => call[p].key = asked[q]

(* Unless another call under the same key overlapped it, a statement that     *)
(* waits for a connection or runs can be cancelled under that key.            *)
Cancellable ==
    \A p \in Procs : ctx[p] # None /\ call[p].key \notin mixed => cancelFuncs[call[p].key] = ctx[p]

(* The pool of a session does not run dry: a connection that is given out is  *)
(* in the hands of one call, which is going to return it.                     *)
ConnsReturn ==
    \A c \in out : \E p \in Procs : held[p] = c /\ \A q \in Procs : held[q] = c => q = p

(* Every call returns, though the server may never answer and the pool may be *)
(* exhausted: waiting and running end with the context.                       *)
QueriesReturn == \A p \in Procs : []<>(pc[p] = "idle")
=============================================================================
