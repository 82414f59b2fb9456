------------------------------ MODULE History ------------------------------
(***************************************************************************)
(* The query history (src/internal/history/store.go): one JSON file per    *)
(* day, added to by the queries of every tab, of the MCP server and of     *)
(* every running instance of the application.  Within an instance Store.mu *)
(* serialises Add, DeleteByID and ClearAll; between instances the file     *)
(* lock covers a save, which reads the file again and merges, but neither  *)
(* the load before it nor ClearAll.  Every read, removal and lock may fail. *)
(*                                                                         *)
(* One day's file is modelled.  Entries are numbered by their ExecutedAt,  *)
(* so a file, which is sorted by time and has no id twice, is the set of   *)
(* its entries.                                                            *)
(***************************************************************************)
EXTENDS Naturals, FiniteSets

CONSTANTS
    Procs,      \* goroutines calling the store
    Instances,  \* running copies of the application
    InstOf,     \* the instance each goroutine belongs to
    NoProc,     \* nobody holds the lock
    MaxPerDay,  \* maxPerDay
    OldEntries, \* what a query_history.json of the old format may hold
    MaxEntries  \* bound: how many entries there are

Entries == 1..MaxEntries

ASSUME ConstantsAssumption ==
    /\ InstOf \in [Procs -> Instances]
    /\ NoProc \notin Procs
    /\ MaxPerDay \in Nat \ {0}
    /\ MaxEntries \in Nat
    /\ OldEntries \subseteq Entries

VARIABLES
    file,       \* the day's entries on disk
    old,        \* the entries of query_history.json
    stamped,    \* the last ExecutedAt given out
    flock,      \* who holds the day's lock file
    mu,         \* who holds Store.mu in each instance
    booted,     \* the instances whose NewStore has returned
    pc, op,     \* where each call stands, and which call it is
    entry,      \* the entry a call adds or deletes
    mine        \* the entries a call saves, then the merged ones

callVars == <<pc, op, entry, mine>>
lockVars == <<flock, mu>>
historyVars     == <<file, old, stamped, lockVars, booted, callVars>>

Stages == {"idle", "load", "lock", "write", "blind", "unlock", "removeOld"}
Ops    == {"none", "add", "delete", "clear", "migrate"}

HistoryTypeOK ==
    /\ file \subseteq Entries /\ old \subseteq Entries
    /\ stamped \in 0..MaxEntries
    /\ flock \in Procs \cup {NoProc}
    /\ mu \in [Instances -> Procs \cup {NoProc}]
    /\ booted \subseteq Instances
    /\ pc \in [Procs -> Stages]
    /\ op \in [Procs -> Ops]
    /\ entry \in [Procs -> 0..MaxEntries]
    /\ mine \in [Procs -> SUBSET Entries]
    /\ \A p \in Procs : flock = p <=> pc[p] \in {"write", "blind", "unlock"}

HistoryInit ==
    /\ file = {}
    /\ old \in {{}, OldEntries}
    /\ stamped = Cardinality(OldEntries)
    /\ flock = NoProc
    /\ mu = [i \in Instances |-> NoProc]
    /\ booted = {}
    /\ pc = [p \in Procs |-> "idle"]
    /\ op = [p \in Procs |-> "none"]
    /\ entry = [p \in Procs |-> 0]
    /\ mine = [p \in Procs |-> {}]

-----------------------------------------------------------------------------
(* Helpers.                                                                *)

(* The n latest entries of S.                                              *)
Latest(S, n) == {e \in S : Cardinality({f \in S : f > e}) < n}

(* mergeHistoryEntries of what a call saves and what the file holds now.   *)
Merge(existing, new) == Latest(existing \cup new, MaxPerDay)

(* Add: entry e goes in front, over the latest entry if that has the same  *)
(* SQL, and the rest is cut to the limit.                                  *)
Prepend(S, e, repeats) ==
    {e} \cup Latest(IF repeats THEN S \ Latest(S, 1) ELSE S, MaxPerDay - 1)

Goto(p, stage) == pc' = [pc EXCEPT ![p] = stage]

(* A call returns and gives up the locks it holds.                         *)
Return(p) ==
    /\ pc' = [pc EXCEPT ![p] = "idle"]
    /\ op' = [op EXCEPT ![p] = "none"]
    /\ entry' = [entry EXCEPT ![p] = 0]
    /\ mine' = [mine EXCEPT ![p] = {}]
    /\ flock' = IF flock = p THEN NoProc ELSE flock
    /\ mu' = [mu EXCEPT ![InstOf[p]] = IF @ = p THEN NoProc ELSE @]

-----------------------------------------------------------------------------
(* NewStore: migrateOld spreads the old file over the day files and then   *)
(* removes it, saved or not.  Nobody calls the store before.               *)

MigrateNothing(p) ==
    /\ InstOf[p] \notin booted /\ mu[InstOf[p]] = NoProc
    /\ old = {}
    /\ booted' = booted \cup {InstOf[p]}
    /\ UNCHANGED <<file, old, stamped, lockVars, callVars>>

(* The old file cannot be read or parsed: NewStore logs it and returns.    *)
OldUnreadable(p) ==
    /\ InstOf[p] \notin booted /\ mu[InstOf[p]] = NoProc
    /\ old # {}
    /\ booted' = booted \cup {InstOf[p]}
    /\ UNCHANGED <<file, old, stamped, lockVars, callVars>>

ReadOld(p) ==
    /\ InstOf[p] \notin booted /\ mu[InstOf[p]] = NoProc
    /\ old # {}
    /\ mu' = [mu EXCEPT ![InstOf[p]] = p]
    /\ mine' = [mine EXCEPT ![p] = old]
    /\ op' = [op EXCEPT ![p] = "migrate"]
    /\ Goto(p, "lock")
    /\ UNCHANGED <<file, old, stamped, flock, booted, entry>>

(* The removal may fail, which is only logged.                             *)
RemoveOld(p) ==
    /\ pc[p] = "removeOld"
    /\ old' \in {{}, old}
    /\ booted' = booted \cup {InstOf[p]}
    /\ Return(p)
    /\ UNCHANGED <<file, stamped>>

-----------------------------------------------------------------------------
(* The calls.  ExecutedAt is taken before Store.mu.                        *)

CallAdd(p) ==
    /\ pc[p] = "idle" /\ InstOf[p] \in booted
    /\ stamped < MaxEntries
    /\ stamped' = stamped + 1
    /\ entry' = [entry EXCEPT ![p] = stamped + 1]
    /\ op' = [op EXCEPT ![p] = "add"]
    /\ Goto(p, "load")
    /\ UNCHANGED <<file, old, lockVars, booted, mine>>

CallDelete(p, e) ==
    /\ pc[p] = "idle" /\ InstOf[p] \in booted
    /\ entry' = [entry EXCEPT ![p] = e]
    /\ op' = [op EXCEPT ![p] = "delete"]
    /\ Goto(p, "load")
    /\ UNCHANGED <<file, old, stamped, lockVars, booted, mine>>

CallClear(p) ==
    /\ pc[p] = "idle" /\ InstOf[p] \in booted
    /\ op' = [op EXCEPT ![p] = "clear"]
    /\ Goto(p, "load")
    /\ UNCHANGED <<file, old, stamped, lockVars, booted, entry, mine>>

(* Store.mu is taken and the file read.                                    *)
Enter(p, o) ==
    /\ pc[p] = "load" /\ op[p] = o
    /\ mu[InstOf[p]] = NoProc

Add(p) ==
    /\ Enter(p, "add")
    /\ mu' = [mu EXCEPT ![InstOf[p]] = p]
    /\ \E repeats \in BOOLEAN :
        mine' = [mine EXCEPT ![p] = Prepend(file, entry[p], repeats)]
    /\ Goto(p, "lock")
    /\ UNCHANGED <<file, old, stamped, flock, booted, op, entry>>

DeleteByID(p) ==
    /\ Enter(p, "delete")
    /\ IF entry[p] \in file
       THEN /\ mu' = [mu EXCEPT ![InstOf[p]] = p]
            /\ mine' = [mine EXCEPT ![p] = file \ {entry[p]}]
            /\ Goto(p, "lock")
            /\ UNCHANGED <<flock, op, entry>>
       ELSE Return(p)
    /\ UNCHANGED <<file, old, stamped, booted>>

(* The directory or the file cannot be read, or the file not removed: Add  *)
(* returns the error, DeleteByID and ClearAll pass over the day.           *)
LoadFails(p) ==
    /\ \E o \in {"add", "delete", "clear"} : Enter(p, o)
    /\ Return(p)
    /\ UNCHANGED <<file, old, stamped, booted>>

(* The file is removed without its lock.                                   *)
ClearAll(p) ==
    /\ Enter(p, "clear")
    /\ file' = {}
    /\ Return(p)
    /\ UNCHANGED <<old, stamped, booted>>

-----------------------------------------------------------------------------
(* saveDateFileLocked: lock file, read again, merge, atomic write.         *)

(* Fault: what the call loaded is written as it is.                        *)
LockWithoutMerge(p) ==
    /\ pc[p] = "lock" /\ flock = NoProc
    /\ flock' = p
    /\ Goto(p, "write")
    /\ UNCHANGED <<file, old, stamped, mu, booted, op, entry, mine>>

Lock(p) ==
    /\ pc[p] = "lock" /\ flock = NoProc
    /\ flock' = p
    /\ mine' = [mine EXCEPT ![p] = Merge(file, @)]
    /\ Goto(p, "write")
    /\ UNCHANGED <<file, old, stamped, mu, booted, op, entry>>

(* The error of reading again is dropped: the file counts as empty, and    *)
(* what the call has loaded will replace it.                               *)
LockUnread(p) ==
    /\ pc[p] = "lock" /\ flock = NoProc
    /\ flock' = p
    /\ mine' = [mine EXCEPT ![p] = Merge({}, @)]
    /\ Goto(p, "blind")
    /\ UNCHANGED <<file, old, stamped, mu, booted, op, entry>>

(* Fault: the timeout returns with Store.mu locked.                        *)
LockTimesOutLocked(p) ==
    /\ pc[p] = "lock"
    /\ Goto(p, IF op[p] = "migrate" THEN "removeOld" ELSE "idle")
    /\ UNCHANGED <<file, old, stamped, lockVars, booted, op, entry, mine>>

(* No lock within DefaultTimeout, or no lock file can be opened; migrateOld *)
(* only logs it.                                                           *)
LockTimesOut(p) ==
    /\ pc[p] = "lock"
    /\ IF op[p] = "migrate"
       THEN Goto(p, "removeOld") /\ UNCHANGED <<lockVars, op, entry, mine>>
       ELSE Return(p)
    /\ UNCHANGED <<file, old, stamped, booted>>

Write(p) ==
    /\ pc[p] \in {"write", "blind"}
    /\ file' = mine[p]
    /\ Goto(p, "unlock")
    /\ UNCHANGED <<old, stamped, lockVars, booted, op, entry, mine>>

(* Fault: the lock file stays locked between two days of the old file.     *)
UnlockForgotten(p) ==
    IF op[p] = "migrate"
    THEN Goto(p, "removeOld") /\ UNCHANGED <<lockVars, op, entry, mine>>
    ELSE Return(p)

(* The deferred unlock; migrateOld goes on, the other calls return.        *)
Unlock(p) ==
    IF op[p] = "migrate"
    THEN /\ Goto(p, "removeOld")
         /\ flock' = NoProc
         /\ UNCHANGED <<mu, op, entry, mine>>
    ELSE Return(p)

(* The temporary file cannot be written or renamed.                        *)
WriteFails(p) ==
    /\ pc[p] \in {"write", "blind"}
    /\ Unlock(p)
    /\ UNCHANGED <<file, old, stamped, booted>>

Saved(p) ==
    /\ pc[p] = "unlock"
    /\ Unlock(p)
    /\ UNCHANGED <<file, old, stamped, booted>>

-----------------------------------------------------------------------------
(* An instance dies: the system releases its file lock.                    *)
Crash(i) ==
    LET dead == {p \in Procs : InstOf[p] = i} IN
    /\ i \in booted \/ mu[i] # NoProc
    /\ booted' = booted \ {i}
    /\ mu' = [mu EXCEPT ![i] = NoProc]
    /\ flock' = IF flock \in dead THEN NoProc ELSE flock
    /\ pc' = [p \in Procs |-> IF p \in dead THEN "idle" ELSE pc[p]]
    /\ op' = [p \in Procs |-> IF p \in dead THEN "none" ELSE op[p]]
    /\ entry' = [p \in Procs |-> IF p \in dead THEN 0 ELSE entry[p]]
    /\ mine' = [p \in Procs |-> IF p \in dead THEN {} ELSE mine[p]]
    /\ UNCHANGED <<file, old, stamped>>

Call(p) == CallAdd(p) \/ (\E e \in Entries : CallDelete(p, e)) \/ CallClear(p)

Acquire(p) == Add(p) \/ DeleteByID(p) \/ ClearAll(p) \/ LoadFails(p)

Step(p) ==
    \/ MigrateNothing(p) \/ OldUnreadable(p) \/ ReadOld(p) \/ RemoveOld(p) \/ Acquire(p)
    \/ Lock(p) \/ LockUnread(p) \/ LockTimesOut(p) \/ Write(p) \/ WriteFails(p) \/ Saved(p)

HistoryNext ==
    \/ \E p \in Procs : Call(p) \/ Step(p)
    \/ \E i \in Instances : Crash(i)

(* A call goes on, and a mutex that is let go again and again is got: Go's *)
(* mutex hands over to the goroutine that has waited a millisecond.        *)
HistorySpec ==
    /\ HistoryInit /\ [][HistoryNext]_historyVars
    /\ \A p \in Procs : WF_historyVars(Step(p)) /\ SF_historyVars(Acquire(p))

-----------------------------------------------------------------------------
(* Properties.                                                             *)

(* An entry that is on disk leaves it when the history is cleared, when    *)
(* maxPerDay later entries are there, or when the call that writes could   *)
(* not read the file under the lock: saves of several instances that       *)
(* loaded the same file do not undo each other otherwise.                  *)
NoEntryLost ==
    [][\A e \in file \ file' :
        \/ file' = {}
        \/ Cardinality({f \in file' : f > e}) >= MaxPerDay
        \/ \E p \in Procs : pc[p] = "blind"]_file

(* Every call returns (or dies with its instance): no failure on the way   *)
(* to the file keeps Store.mu or the lock file.                            *)
CallsReturn == \A p \in Procs : []<>(pc[p] = "idle")

(* DeleteByID's comment: it deletes the entry with that id.                *)
DeletedIsGone ==
    \A p \in Procs : pc[p] = "unlock" /\ op[p] = "delete" => entry[p] \notin file
=============================================================================
