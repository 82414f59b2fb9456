--------------------------- MODULE ExecutorProofs ---------------------------
(* What Executor.cfg checks for two calls and one connection, proved for any  *)
(* number of calls, cancels, connections, databases and statements.           *)
EXTENDS Executor, TLAPS

-----------------------------------------------------------------------------
(* The invariant. A connection in the hands of a call is out, is open unless  *)
(* the call is done with it, and is in no other hands; a context is of one    *)
(* call, and wherever it is registered it stands under the key of that call.  *)
Owns ==
    \A p \in Procs : held[p] # None =>
        held[p] \in out /\ \A q \in Procs : held[q] = held[p] => q = p

OwnContext == \A p, q \in Procs : ctx[p] # None /\ ctx[p] = ctx[q] => p = q

UnderItsKey ==
    \A p \in Procs, k \in Keys : ctx[p] # None /\ cancelFuncs[k] = ctx[p] => call[p].key = k

Overlaps ==
    \A p, q \in Procs : /\ p # q /\ ctx[p] # None /\ ctx[q] # None
                        /\ call[p].key = call[q].key
                        => call[p].key \in mixed

IInv == /\ TypeOK /\ Owns /\ OwnContext /\ UnderItsKey /\ Overlaps
        /\ RunsInItsDatabase /\ OnlyItsKey /\ Cancellable /\ ConnsReturn

LEMMA NotACall == NoCall \notin Calls
BY DEF NoCall, Calls

LEMMA InitIInv == Init => IInv
<1> USE Distinct
<1> SUFFICES ASSUME Init PROVE IInv
    OBVIOUS
<1>1. TypeOK
    BY DEF Init, TypeOK
<1>2. /\ Owns /\ OwnContext /\ UnderItsKey /\ Overlaps
      /\ OnlyItsKey /\ Cancellable /\ ConnsReturn
    BY DEF Init, Owns, OwnContext, UnderItsKey, Overlaps, OnlyItsKey, Cancellable, ConnsReturn
<1>3. RunsInItsDatabase
    BY DEF Init, RunsInItsDatabase
<1> QED
    BY <1>1, <1>2, <1>3 DEF IInv

-----------------------------------------------------------------------------
(* The parts of the state that an action leaves alone keep what is said of    *)
(* them only.                                                                 *)

(* Nothing about the registry changes with contexts, keys and calls the same. *)
LEMMA RegistryStays ==
    ASSUME IInv, UNCHANGED <<cancelFuncs, ctx, mixed, fn, asked, call>>
    PROVE  OwnContext' /\ UnderItsKey' /\ Overlaps' /\ OnlyItsKey' /\ Cancellable'
BY DEF IInv, OwnContext, UnderItsKey, Overlaps, OnlyItsKey, Cancellable

(* Nor about the pool with the connections given out the same.                *)
LEMMA PoolStays ==
    ASSUME IInv, UNCHANGED <<out, held>>
    PROVE  Owns' /\ ConnsReturn'
BY DEF IInv, Owns, ConnsReturn

(* A call that does not come to run its statement runs it where it did.       *)
LEMMA StillRuns ==
    ASSUME IInv, UNCHANGED <<held, sess>>,
           \A q \in Procs : pc'[q] = "run" => pc[q] = "run" /\ call'[q] = call[q]
    PROVE  RunsInItsDatabase'
BY DEF IInv, RunsInItsDatabase

-----------------------------------------------------------------------------
LEMMA BeginKeeps ==
    ASSUME IInv, NEW p \in Procs, NEW o \in Calls, Begin(p, o)
    PROVE  IInv'
<1> USE DEF IInv, Begin, Goto, registry, pool, cancelling
<1>1. TypeOK'
    BY NotACall DEF TypeOK
<1>2. ctx[p] = None /\ pc[p] = "idle"
    BY DEF TypeOK
<1>3. OwnContext' /\ UnderItsKey' /\ Overlaps' /\ OnlyItsKey' /\ Cancellable'
    <2>1. \A q \in Procs : ctx[q] # None => call'[q] = call[q]
        BY <1>2 DEF TypeOK
    <2>2. OnlyItsKey'
        BY <2>1 DEF OnlyItsKey, TypeOK
    <2> QED
        BY <2>1, <2>2 DEF OwnContext, UnderItsKey, Overlaps, Cancellable
<1>4. Owns' /\ ConnsReturn'
    BY PoolStays
<1>5. RunsInItsDatabase'
    BY <1>2, StillRuns DEF TypeOK
<1> QED
    BY <1>1, <1>3, <1>4, <1>5

LEMMA GetDBFailsKeeps ==
    ASSUME IInv, NEW p \in Procs, GetDBFails(p)
    PROVE  IInv'
<1> USE DEF IInv, GetDBFails, Return, Goto, registry, pool, cancelling
<1>1. TypeOK'
    BY NotACall DEF TypeOK
<1>2. ctx[p] = None
    BY DEF TypeOK
<1>3. OwnContext' /\ UnderItsKey' /\ Overlaps' /\ OnlyItsKey' /\ Cancellable'
    <2>1. \A q \in Procs : ctx[q] # None => call'[q] = call[q]
        BY <1>2 DEF TypeOK
    <2>2. OnlyItsKey'
        BY <2>1 DEF OnlyItsKey, TypeOK
    <2> QED
        BY <2>1, <2>2 DEF OwnContext, UnderItsKey, Overlaps, Cancellable
<1>4. Owns' /\ ConnsReturn'
    BY PoolStays
<1>5. RunsInItsDatabase'
    BY StillRuns DEF TypeOK
<1> QED
    BY <1>1, <1>3, <1>4, <1>5

(* A fresh context is nobody's yet, under no key and looked up by no cancel.  *)
LEMMA RegisterKeeps ==
    ASSUME IInv, NEW p \in Procs, Register(p)
    PROVE  IInv'
<1> DEFINE k == call[p].key
<1>0. PICK n \in Fresh : /\ live' = live \cup {n}
                         /\ ctx' = [ctx EXCEPT ![p] = n]
                         /\ cancelFuncs' = [cancelFuncs EXCEPT ![k] = n]
    BY DEF Register, KeyOf
<1>1. /\ pc[p] = "register" /\ pc' = [pc EXCEPT ![p] = "acquire"]
      /\ mixed' = IF Rivals(p) # {} THEN mixed \cup {k} ELSE mixed
      /\ UNCHANGED <<call, ok, pool, cancelling>>
    BY DEF Register, Goto
<1> USE <1>0, <1>1 DEF IInv, pool, cancelling
<1>2. /\ n \in Ctxs /\ n # None
      /\ \A q \in Procs : ctx[q] # n
      /\ \A j \in Keys : cancelFuncs[j] # n
      /\ \A q \in Cancels : fn[q] # n
    BY Distinct DEF Fresh
<1>4. call[p] \in Calls /\ k \in Keys /\ ctx[p] = None
    BY DEF TypeOK, Calls, Keys, NoCall
<1>5. TypeOK'
    <2>1. mixed' \subseteq Keys
        BY <1>4 DEF TypeOK
    <2> QED
        BY <1>2, <1>4, <2>1 DEF TypeOK
<1>6. OwnContext'
    BY <1>2 DEF OwnContext, TypeOK
<1>7. UnderItsKey'
    BY <1>2, <1>4 DEF UnderItsKey, TypeOK
<1>8. Overlaps' /\ Cancellable'
    <2>1. mixed \subseteq mixed' /\ (Rivals(p) # {} => k \in mixed')
        OBVIOUS
    <2>2. \A q \in Procs \ {p} : ctx[q] # None /\ call[q].key = k => k \in mixed'
        BY <2>1 DEF Rivals
    <2>3. Overlaps'
        BY <2>1, <2>2 DEF Overlaps, TypeOK
    <2>4. Cancellable'
        BY <1>4, <2>1, <2>2 DEF Cancellable, TypeOK
    <2> QED
        BY <2>3, <2>4
<1>9. OnlyItsKey'
    BY <1>2 DEF OnlyItsKey, TypeOK
<1>10. Owns' /\ ConnsReturn'
    BY PoolStays
<1>11. RunsInItsDatabase'
    BY StillRuns DEF TypeOK
<1> QED
    BY <1>5, <1>6, <1>7, <1>8, <1>9, <1>10, <1>11

-----------------------------------------------------------------------------
LEMMA AcquireKeeps ==
    ASSUME IInv, NEW p \in Procs, Acquire(p)
    PROVE  IInv'
<1> USE DEF IInv, Acquire, Goto, registry, cancelling
<1> PICK c \in Conns \ out :
        /\ out' = out \cup {c}
        /\ held' = [held EXCEPT ![p] = c]
        /\ sess' = [sess EXCEPT ![c] = IF @ = None THEN NoDb ELSE @]
    OBVIOUS
<1>1. held[p] = None /\ c # None /\ \A q \in Procs : held[q] # c
    BY Distinct DEF TypeOK, Owns
<1>2. TypeOK'
    BY <1>1 DEF TypeOK
<1>3. OwnContext' /\ UnderItsKey' /\ Overlaps' /\ OnlyItsKey' /\ Cancellable'
    BY RegistryStays
<1>4. Owns' /\ ConnsReturn'
    <2>1. /\ \A q \in Procs : held'[q] = IF q = p THEN c ELSE held[q]
          /\ out' = out \cup {c}
        BY DEF TypeOK
    <2>2. Owns'
        BY <1>1, <2>1 DEF Owns
    <2>3. ConnsReturn'
        <3>1. \A q \in Procs : held'[q] = c <=> q = p
            BY <1>1, <2>1
        <3>2. \A d \in out : d # c /\ \A q \in Procs : held'[q] = d <=> held[q] = d
            BY <1>1, <2>1, Distinct DEF TypeOK
        <3> QED
            BY <2>1, <3>1, <3>2 DEF ConnsReturn
    <2> QED
        BY <2>2, <2>3
<1>5. RunsInItsDatabase'
    <2>1. \A q \in Procs \ {p} : /\ pc'[q] = pc[q] /\ held'[q] = held[q]
                                 /\ sess'[held[q]] = sess[held[q]]
        BY <1>1 DEF TypeOK
    <2>2. pc'[p] = "run" => call[p].db = NoDb
        BY DEF TypeOK
    <2> QED
        BY <2>1, <2>2 DEF RunsInItsDatabase
<1> QED
    BY <1>2, <1>3, <1>4, <1>5

LEMMA AcquireFailsKeeps ==
    ASSUME IInv, NEW p \in Procs, AcquireFails(p)
    PROVE  IInv'
<1> USE DEF IInv, AcquireFails, Goto, registry, pool, cancelling
<1>1. TypeOK'
    BY DEF TypeOK
<1>2. OwnContext' /\ UnderItsKey' /\ Overlaps' /\ OnlyItsKey' /\ Cancellable'
    BY RegistryStays
<1>3. Owns' /\ ConnsReturn'
    BY PoolStays
<1>4. RunsInItsDatabase'
    BY StillRuns DEF TypeOK
<1> QED
    BY <1>1, <1>2, <1>3, <1>4

(* What one call does to its connection, no other call sees.                  *)
LEMMA OthersSessions ==
    ASSUME IInv, NEW p \in Procs, held[p] # None, NEW d,
           sess' = [sess EXCEPT ![held[p]] = d]
    PROVE  /\ \A q \in Procs \ {p} : held[q] # None => sess'[held[q]] = sess[held[q]]
           /\ sess'[held[p]] = d
BY DEF IInv, TypeOK, Owns

LEMMA UseKeeps ==
    ASSUME IInv, NEW p \in Procs, Use(p)
    PROVE  IInv'
<1> USE DEF IInv, Use, Goto, registry, cancelling
<1>0. held[p] # None /\ call[p].db \in Databases \cup {NoDb}
    BY DEF TypeOK, Calls, NoCall
<1>1. TypeOK'
    BY <1>0 DEF TypeOK
<1>2. OwnContext' /\ UnderItsKey' /\ Overlaps' /\ OnlyItsKey' /\ Cancellable'
    BY RegistryStays
<1>3. Owns' /\ ConnsReturn'
    BY PoolStays
<1>4. RunsInItsDatabase'
    <2>1. /\ \A q \in Procs \ {p} : held[q] # None => sess'[held[q]] = sess[held[q]]
          /\ sess'[held[p]] = call[p].db
        BY <1>0, OthersSessions
    <2> QED
        BY <2>1 DEF RunsInItsDatabase, TypeOK
<1> QED
    BY <1>1, <1>2, <1>3, <1>4

LEMMA RunKeeps ==
    ASSUME IInv, NEW p \in Procs, Run(p)
    PROVE  IInv'
<1> USE DEF IInv, Run, Goto, registry, cancelling
<1>0. held[p] # None
    BY DEF TypeOK
<1> PICK d \in Databases \cup {sess[held[p]]} : sess' = [sess EXCEPT ![held[p]] = d]
    OBVIOUS
<1>1. TypeOK'
    BY <1>0 DEF TypeOK
<1>2. OwnContext' /\ UnderItsKey' /\ Overlaps' /\ OnlyItsKey' /\ Cancellable'
    BY RegistryStays
<1>3. Owns' /\ ConnsReturn'
    BY PoolStays
<1>4. RunsInItsDatabase'
    <2>1. \A q \in Procs \ {p} : held[q] # None => sess'[held[q]] = sess[held[q]]
        BY <1>0, OthersSessions
    <2> QED
        BY <2>1 DEF RunsInItsDatabase, TypeOK
<1> QED
    BY <1>1, <1>2, <1>3, <1>4

LEMMA FailsKeeps ==
    ASSUME IInv, NEW p \in Procs, Fails(p)
    PROVE  IInv'
<1> USE DEF IInv, Fails, Goto, registry, cancelling
<1>0. held[p] # None
    BY DEF TypeOK
<1> PICK d \in {sess[held[p]], None} : sess' = [sess EXCEPT ![held[p]] = d]
    OBVIOUS
<1>1. TypeOK'
    BY <1>0 DEF TypeOK
<1>2. OwnContext' /\ UnderItsKey' /\ Overlaps' /\ OnlyItsKey' /\ Cancellable'
    BY RegistryStays
<1>3. Owns' /\ ConnsReturn'
    BY PoolStays
<1>4. RunsInItsDatabase'
    <2>1. \A q \in Procs \ {p} : held[q] # None => sess'[held[q]] = sess[held[q]]
        BY <1>0, OthersSessions
    <2> QED
        BY <2>1 DEF RunsInItsDatabase, TypeOK
<1> QED
    BY <1>1, <1>2, <1>3, <1>4

LEMMA ReleaseKeeps ==
    ASSUME IInv, NEW p \in Procs, Release(p)
    PROVE  IInv'
<1> USE DEF IInv, Release, Goto, registry, cancelling
<1>1. held[p] # None /\ \A q \in Procs : held[q] = held[p] => q = p
    BY DEF TypeOK, Owns
<1>2. TypeOK'
    BY DEF TypeOK
<1>3. OwnContext' /\ UnderItsKey' /\ Overlaps' /\ OnlyItsKey' /\ Cancellable'
    BY RegistryStays
<1>4. Owns'
    BY <1>1 DEF Owns, TypeOK
<1>5. ConnsReturn'
    BY <1>1, Distinct DEF ConnsReturn, TypeOK
<1>6. RunsInItsDatabase'
    BY DEF RunsInItsDatabase, TypeOK
<1> QED
    BY <1>2, <1>3, <1>4, <1>5, <1>6

-----------------------------------------------------------------------------
(* The entry of a key that is not mixed is the one of the call that ends.     *)
LEMMA UnregisterKeeps ==
    ASSUME IInv, NEW p \in Procs, Unregister(p)
    PROVE  IInv'
<1> USE DEF IInv, Unregister, KeyOf, Return, Goto, pool, cancelling
<1> DEFINE k == call[p].key
<1>1. call[p] \in Calls /\ k \in Keys /\ ctx[p] # None
    BY DEF TypeOK, Calls, Keys, NoCall
<1>2. TypeOK'
    <2> DEFINE more == ok[p] /\ call[p].left > 1
    <2>1. more => [call[p] EXCEPT !.left = @ - 1] \in Calls
        BY <1>1, MaxStmtsPos DEF Calls
    <2>2. call'[p] = IF more THEN [call[p] EXCEPT !.left = @ - 1] ELSE NoCall
        BY DEF TypeOK
    <2>3. /\ call' = [call EXCEPT ![p] = call'[p]]
          /\ pc' = [pc EXCEPT ![p] = IF more THEN "register" ELSE "idle"]
        BY DEF TypeOK
    <2>4. call'[p] \in Calls \cup {NoCall} /\ (call'[p] = NoCall <=> ~more)
        BY <2>1, <2>2, NotACall
    <2>5. mixed' \subseteq Keys /\ live' \subseteq Ctxs /\ ok' \in [Procs -> BOOLEAN]
        BY DEF TypeOK
    <2>6. /\ cancelFuncs' \in [Keys -> Ctxs \cup {None}]
          /\ ctx' = [ctx EXCEPT ![p] = None]
          /\ held[p] = None
        BY DEF TypeOK
    <2> HIDE DEF more
    <2>7. /\ call' \in [Procs -> Calls \cup {NoCall}]
          /\ pc' \in [Procs -> {"idle", "register", "acquire", "use", "run", "release", "unregister"}]
          /\ ctx' \in [Procs -> Ctxs \cup {None}]
        BY <2>3, <2>4, <2>6 DEF TypeOK
    <2>8. \A q \in Procs :
            /\ call'[q] = NoCall <=> pc'[q] = "idle"
            /\ ctx'[q] = None <=> pc'[q] \in {"idle", "register"}
            /\ held[q] = None <=> pc'[q] \notin {"use", "run", "release"}
        BY <2>3, <2>4, <2>6 DEF TypeOK
    <2> QED
        BY <2>5, <2>6, <2>7, <2>8 DEF TypeOK
<1>3. \A q \in Procs \ {p} : ctx'[q] = ctx[q] /\ call'[q] = call[q] /\ pc'[q] = pc[q]
    BY DEF TypeOK
<1>4. /\ ctx'[p] = None
      /\ cancelFuncs' = [cancelFuncs EXCEPT ![k] = None]
    BY DEF TypeOK
<1>5. OwnContext' /\ OnlyItsKey'
    BY <1>3, <1>4 DEF OwnContext, OnlyItsKey, TypeOK
<1>6. UnderItsKey'
    BY <1>3, <1>4 DEF UnderItsKey, TypeOK
<1>7. \A q \in Procs \ {p} : ctx[q] # None /\ call[q].key = k => k \in mixed /\ k \in mixed'
    BY <1>1 DEF Overlaps, Rivals
<1>8. \A j \in mixed : j # k => j \in mixed'
    OBVIOUS
<1>9. Overlaps' /\ Cancellable'
    <2>1. Overlaps'
        BY <1>3, <1>4, <1>7, <1>8 DEF Overlaps
    <2>2. Cancellable'
        BY <1>3, <1>4, <1>7, <1>8 DEF Cancellable, TypeOK
    <2> QED
        BY <2>1, <2>2
<1>10. Owns' /\ ConnsReturn'
    BY PoolStays
<1>11. RunsInItsDatabase'
    <2>1. pc'[p] # "run"
        BY DEF TypeOK
    <2> QED
        BY <1>3, <2>1, StillRuns
<1> QED
    BY <1>2, <1>5, <1>6, <1>9, <1>10, <1>11

-----------------------------------------------------------------------------
LEMMA CancelLookupKeeps ==
    ASSUME IInv, NEW q \in Cancels, NEW k \in Keys, CancelLookup(q, k)
    PROVE  IInv'
<1> USE DEF IInv, CancelLookup, registry, pool
<1>1. TypeOK'
    BY Distinct DEF TypeOK
<1>2. OnlyItsKey'
    <2> SUFFICES ASSUME NEW r \in Cancels, NEW p \in Procs, asked'[r] # None, ctx[p] = fn'[r]
                 PROVE  call[p].key = asked'[r]
        BY DEF OnlyItsKey
    <2>1. CASE r = q
        BY <2>1 DEF UnderItsKey, TypeOK
    <2>2. CASE r # q
        BY <2>2 DEF OnlyItsKey, TypeOK
    <2> QED
        BY <2>1, <2>2
<1>3. OwnContext' /\ UnderItsKey' /\ Overlaps' /\ Cancellable'
    BY DEF OwnContext, UnderItsKey, Overlaps, Cancellable
<1>4. Owns' /\ ConnsReturn' /\ RunsInItsDatabase'
    BY PoolStays, StillRuns
<1> QED
    BY <1>1, <1>2, <1>3, <1>4

LEMMA CancelFiresKeeps ==
    ASSUME IInv, NEW q \in Cancels, CancelFires(q)
    PROVE  IInv'
<1> USE DEF IInv, CancelFires, pool
<1>1. TypeOK'
    BY DEF TypeOK
<1>2. OnlyItsKey'
    BY DEF OnlyItsKey, TypeOK
<1>3. OwnContext' /\ UnderItsKey' /\ Overlaps' /\ Cancellable'
    BY DEF OwnContext, UnderItsKey, Overlaps, Cancellable
<1>4. Owns' /\ ConnsReturn' /\ RunsInItsDatabase'
    BY PoolStays, StillRuns
<1> QED
    BY <1>1, <1>2, <1>3, <1>4

LEMMA TimeoutKeeps ==
    ASSUME IInv, NEW n \in Ctxs, Timeout(n)
    PROVE  IInv'
<1> USE DEF IInv, Timeout, pool, cancelling
<1>1. TypeOK'
    BY DEF TypeOK
<1>2. OwnContext' /\ UnderItsKey' /\ Overlaps' /\ OnlyItsKey' /\ Cancellable'
    BY RegistryStays
<1>3. Owns' /\ ConnsReturn' /\ RunsInItsDatabase'
    BY PoolStays, StillRuns
<1> QED
    BY <1>1, <1>2, <1>3

LEMMA ExpireKeeps ==
    ASSUME IInv, NEW c \in Conns, Expire(c)
    PROVE  IInv'
<1> USE DEF IInv, Expire, registry, cancelling
<1>1. TypeOK'
    BY DEF TypeOK
<1>2. OwnContext' /\ UnderItsKey' /\ Overlaps' /\ OnlyItsKey' /\ Cancellable'
    BY RegistryStays
<1>3. Owns' /\ ConnsReturn'
    BY PoolStays
<1>4. RunsInItsDatabase'
    <2>1. \A p \in Procs : pc[p] = "run" => held[p] # c
        BY DEF TypeOK, Owns
    <2> QED
        BY <2>1 DEF RunsInItsDatabase, TypeOK
<1> QED
    BY <1>1, <1>2, <1>3, <1>4

-----------------------------------------------------------------------------
LEMMA NextIInv == IInv /\ [Next]_vars => IInv'
<1> SUFFICES ASSUME IInv, [Next]_vars PROVE IInv'
    OBVIOUS
<1>1. ASSUME NEW p \in Procs, Step(p) PROVE IInv'
    BY <1>1, GetDBFailsKeeps, RegisterKeeps, AcquireKeeps, AcquireFailsKeeps, UseKeeps,
       RunKeeps, FailsKeeps, ReleaseKeeps, UnregisterKeeps DEF Step
<1>2. CASE UNCHANGED vars
    <2> USE DEF vars
    <2>1. TypeOK'
        BY <1>2 DEF IInv, TypeOK
    <2>2. OwnContext' /\ UnderItsKey' /\ Overlaps' /\ OnlyItsKey' /\ Cancellable'
        BY <1>2, RegistryStays
    <2>3. Owns' /\ ConnsReturn' /\ RunsInItsDatabase'
        BY <1>2, PoolStays, StillRuns
    <2> QED
        BY <2>1, <2>2, <2>3 DEF IInv
<1> QED
    BY <1>1, <1>2, BeginKeeps, CancelLookupKeeps, CancelFiresKeeps, TimeoutKeeps, ExpireKeeps
    DEF Next

LEMMA Inductive == Spec => []IInv
BY InitIInv, NextIInv, PTL DEF Spec

(* Keys, contexts and connections are what TypeOK says, where it says.        *)
THEOREM TypeCorrect == Spec => []TypeOK
<1>1. IInv => TypeOK
    BY DEF IInv
<1> QED
    BY <1>1, Inductive, PTL

(* executor.go:107: no statement of a call runs in the database of another.   *)
THEOREM StatementsInTheirDatabase == Spec => []RunsInItsDatabase
<1>1. IInv => RunsInItsDatabase
    BY DEF IInv
<1> QED
    BY <1>1, Inductive, PTL

(* executor.go:208: a cancel that fires late ends nothing of another key.     *)
THEOREM CancelsTheirKey == Spec => []OnlyItsKey
<1>1. IInv => OnlyItsKey
    BY DEF IInv
<1> QED
    BY <1>1, Inductive, PTL

(* executor.go:95: a statement stays registered until it is over, as long as  *)
(* its key is its own.                                                        *)
THEOREM StaysCancellable == Spec => []Cancellable
<1>1. IInv => Cancellable
    BY DEF IInv
<1> QED
    BY <1>1, Inductive, PTL

(* executor.go:105: the pool loses no connection to a call that is over.      *)
THEOREM PoolKeepsConns == Spec => []ConnsReturn
<1>1. IInv => ConnsReturn
    BY DEF IInv
<1> QED
    BY <1>1, Inductive, PTL
=============================================================================
