------------------------------ MODULE AppConfig ------------------------------
(* How connections.json is read and replaced (app.go:369-412, filelock.go).   *)
(* modifyAppConfig holds the lock file from the load to the rename; mergeImport *)
(* and migrateLegacyPasswords load and replace without it.  The temporary     *)
(* file is named after the process, so that all goroutines of an instance     *)
(* write the same one.  What an entry holds is left out: a configuration is   *)
(* the set of its entries (their tree is module SessionGroups).               *)
EXTENDS Naturals

CONSTANTS Procs,       \* goroutines that serve calls
          Instances,   \* running copies of the application
          InstanceOf,  \* the instance of each goroutine
          Entries,     \* ids of saved connections and groups
          None,        \* nobody, no call, no file
          Cut,         \* content of a file just truncated: nothing yet
          Torn,        \* content that is no JSON: a longer text under a shorter
          MaxCalls,    \* bound on the calls begun
          MaxCrashes   \* bound on the instances ended

ASSUME InstanceOfType == InstanceOf \in [Procs -> Instances]
ASSUME ValuesDiffer ==
    /\ None \notin Procs /\ Cut # None /\ Torn \notin {None, Cut}
    /\ \A cfg \in SUBSET Entries : cfg \notin {None, Cut, Torn}
    /\ None \notin {"save", "delete", "touch", "import", "migrate"} \X Entries
ASSUME BoundsNat == MaxCalls \in Nat /\ MaxCrashes \in Nat

VARIABLES
    main,      \* connections.json
    tmp,       \* connections.json.<pid>.tmp of each instance
    lock,      \* who holds connections.json.lock
    pc, call,  \* where each goroutine is, and in which call
    buf,       \* the configuration it will write
    handle,    \* the file behind its open descriptor, if any
    up,        \* the instance is past OnStartup
    calls, crashes,
    loose,     \* history: a call without the lock overlapped another one, or a read failed
    shared     \* history: two goroutines wrote the temporary file of one instance at once

vars == <<main, tmp, lock, pc, call, buf, handle, up, calls, crashes, loose, shared>>
files == <<main, tmp, handle>>
bounds == <<up, calls, crashes>>

Configs == SUBSET Entries
Contents == {None, Cut, Torn} \cup Configs

Locked == {"save", "delete", "touch"}
Kinds == Locked \cup {"import", "migrate"}
NoCall == <<"none", None>>

\* A file that is missing, of v1 or of v2 loads; one that is not JSON does not.
Loads(c) == c \notin {Cut, Torn}
Loaded(c) == IF Loads(c) /\ c # None THEN c ELSE {}

\* What the calls promise together, with what loads as the saved configuration
\* and a call that is under way as the effect still to take.
Atomic == INSTANCE AtomicConfig WITH
    saved <- Loaded(main),
    todo <- [p \in Procs |-> IF pc[p] = "idle" THEN None ELSE call[p]]

Init ==
    /\ main \in {None} \cup Configs
    /\ tmp = [i \in Instances |-> None]
    /\ lock = None
    /\ pc = [p \in Procs |-> "idle"] /\ call = [p \in Procs |-> NoCall]
    /\ buf = [p \in Procs |-> {}] /\ handle = [p \in Procs |-> "none"]
    /\ up \in [Instances -> BOOLEAN]
    /\ calls = 0 /\ crashes = 0
    /\ loose = FALSE /\ shared = FALSE

-----------------------------------------------------------------------------
Busy(p) == pc[p] \in {"load", "open", "write", "rename"}
Goto(p, l) == pc' = [pc EXCEPT ![p] = l]

\* p starts to load: it is loose if it or a goroutine that is busy has no lock.
Enter(p, o) ==
    loose' = (loose \/ \E q \in Procs \ {p} :
                          Busy(q) /\ ~(o[1] \in Locked /\ call[q][1] \in Locked))

\* OnStartup runs migrateLegacyPasswords before the window can call anything.
Begin(p, o) ==
    /\ pc[p] = "idle" /\ calls < MaxCalls
    /\ up[InstanceOf[p]] <=> o[1] # "migrate"
    /\ o[1] = "migrate" => \A q \in Procs : InstanceOf[q] = InstanceOf[p] => pc[q] = "idle"
    /\ call' = [call EXCEPT ![p] = o]
    /\ IF o[1] \in Locked
       THEN Goto(p, "lock") /\ UNCHANGED loose
       ELSE Goto(p, "load") /\ Enter(p, o)
    /\ calls' = calls + 1
    /\ UNCHANGED <<files, lock, buf, up, crashes, shared>>

\* The end of a call, with or without an error: the lock is released.
Finish(p) ==
    /\ Goto(p, "idle")
    /\ call' = [call EXCEPT ![p] = NoCall]
    /\ lock' = IF lock = p THEN None ELSE lock
    /\ buf' = [buf EXCEPT ![p] = {}]
    /\ up' = [up EXCEPT ![InstanceOf[p]] = TRUE]
    /\ UNCHANGED <<calls, crashes, loose, shared>>

\* Fault: the load does not wait for the lock.
LockIgnored(p) ==
    /\ pc[p] = "lock"
    /\ lock' = p
    /\ Goto(p, "load") /\ Enter(p, call[p])
    /\ UNCHANGED <<files, call, buf, bounds, shared>>

Lock(p) ==
    /\ pc[p] = "lock" /\ lock = None
    /\ lock' = p
    /\ Goto(p, "load") /\ Enter(p, call[p])
    /\ UNCHANGED <<files, call, buf, bounds, shared>>

LockTimesOut(p) ==
    /\ pc[p] = "lock" /\ lock # None
    /\ Finish(p) /\ UNCHANGED files

\* loadAppConfig and the change.  modifyAppConfig and mergeImport go on with an
\* empty configuration where the file does not load; migration then ends, as it
\* does where it finds no plaintext password.
Load(p) ==
    /\ pc[p] = "load"
    /\ Loads(main) \/ call[p][1] # "migrate"
    /\ buf' = [buf EXCEPT ![p] = Atomic!Apply(call[p], Loaded(main))]
    /\ Goto(p, "open")
    /\ UNCHANGED <<files, lock, call, bounds, loose, shared>>

\* The read itself fails: the same, over a configuration that is there.
LoadFails(p) ==
    /\ pc[p] = "load" /\ call[p][1] # "migrate"
    /\ buf' = [buf EXCEPT ![p] = Atomic!Apply(call[p], {})]
    /\ loose' = TRUE
    /\ Goto(p, "open")
    /\ UNCHANGED <<files, lock, call, bounds, shared>>

NothingToMigrate(p) ==
    /\ pc[p] = "load" /\ call[p][1] = "migrate"
    /\ Finish(p) /\ UNCHANGED files

-----------------------------------------------------------------------------
\* AtomicWriteFile: create or truncate, write and sync and close, rename.
TmpOfAll(p) == CHOOSE i \in Instances : TRUE    \* fault: one name for all processes
TmpOf(p) == InstanceOf[p]

\* What descriptors refer to when the temporary file of an instance changes its name.
Moved(i, to) == [q \in Procs |-> IF handle[q] = "tmp" /\ TmpOf(q) = i THEN to ELSE handle[q]]

Open(p) ==
    /\ pc[p] = "open"
    /\ tmp' = [tmp EXCEPT ![TmpOf(p)] = Cut]
    /\ handle' = [handle EXCEPT ![p] = "tmp"]
    /\ shared' = (shared \/ \E q \in Procs \ {p} : InstanceOf[q] = InstanceOf[p] /\ pc[q] \in {"write", "rename"})
    /\ Goto(p, "write")
    /\ UNCHANGED <<main, lock, call, buf, bounds, loose>>

OpenFails(p) ==
    /\ pc[p] = "open"
    /\ Finish(p) /\ UNCHANGED files

\* Text written over text: a longer one shows behind a shorter one.
Over(c, cfg) == IF c = Cut THEN {cfg} ELSE {cfg, Torn}

Write(p) ==
    /\ pc[p] = "write"
    /\ CASE handle[p] = "tmp" ->
              /\ \E c \in Over(tmp[TmpOf(p)], buf[p]) : tmp' = [tmp EXCEPT ![TmpOf(p)] = c]
              /\ UNCHANGED main
         [] handle[p] = "main" ->
              /\ main' \in Over(main, buf[p])
              /\ UNCHANGED tmp
         [] OTHER -> UNCHANGED <<main, tmp>>
    /\ handle' = [handle EXCEPT ![p] = "none"]
    /\ Goto(p, "rename")
    /\ UNCHANGED <<lock, call, buf, bounds, loose, shared>>

\* Fault: a failed write leaves the descriptor open.
RemoveTmpOpen(p) ==
    /\ tmp' = [tmp EXCEPT ![TmpOf(p)] = None]
    /\ handle' = Moved(TmpOf(p), "gone")
    /\ UNCHANGED main

\* Write, Sync, Close or Rename fails: the temporary file is removed by its name.
RemoveTmp(p) ==
    /\ tmp' = [tmp EXCEPT ![TmpOf(p)] = None]
    /\ handle' = [Moved(TmpOf(p), "gone") EXCEPT ![p] = "none"]
    /\ UNCHANGED main

WriteFails(p) ==
    /\ pc[p] = "write"
    /\ RemoveTmp(p) /\ Finish(p)

Rename(p) ==
    /\ pc[p] = "rename" /\ tmp[TmpOf(p)] # None
    /\ main' = tmp[TmpOf(p)]
    /\ tmp' = [tmp EXCEPT ![TmpOf(p)] = None]
    /\ handle' = [q \in Procs |-> IF handle[q] = "main" THEN "gone" ELSE Moved(TmpOf(p), "main")[q]]
    /\ Finish(p)

RenameFails(p) ==
    /\ pc[p] = "rename"
    /\ RemoveTmp(p) /\ Finish(p)

\* An instance ends, between any two steps: its descriptors and its lock go with it,
\* its temporary file stays behind under a name no later process uses.
Crash(i) ==
    LET mine == {p \in Procs : InstanceOf[p] = i}
    IN /\ crashes < MaxCrashes /\ crashes' = crashes + 1
       /\ pc' = [p \in Procs |-> IF p \in mine THEN "idle" ELSE pc[p]]
       /\ call' = [p \in Procs |-> IF p \in mine THEN NoCall ELSE call[p]]
       /\ buf' = [p \in Procs |-> IF p \in mine THEN {} ELSE buf[p]]
       /\ handle' = [p \in Procs |-> IF p \in mine THEN "none" ELSE handle[p]]
       /\ lock' = IF lock \in mine THEN None ELSE lock
       /\ tmp' = [tmp EXCEPT ![i] = None]
       /\ up' = [up EXCEPT ![i] = FALSE]
       /\ UNCHANGED <<main, calls, loose, shared>>

Step(p) ==
    \/ \E o \in Kinds \X Entries : Begin(p, o)
    \/ Lock(p) \/ LockTimesOut(p) \/ Load(p) \/ LoadFails(p) \/ NothingToMigrate(p)
    \/ Open(p) \/ OpenFails(p) \/ Write(p) \/ WriteFails(p)
    \/ Rename(p) \/ RenameFails(p)

Next == (\E p \in Procs : Step(p)) \/ (\E i \in Instances : Crash(i))

Spec == Init /\ [][Next]_vars

-----------------------------------------------------------------------------
(* connections.json is missing or has some content; a descriptor is open only *)
(* where the goroutine is about to write.                                     *)
TypeOK ==
    /\ main \in Contents
    /\ tmp \in [Instances -> Contents]
    /\ lock \in {None} \cup Procs
    /\ pc \in [Procs -> {"idle", "lock", "load", "open", "write", "rename"}]
    /\ call \in [Procs -> {NoCall} \cup (Kinds \X Entries)]
    /\ buf \in [Procs -> Configs]
    /\ handle \in [Procs -> {"none", "tmp", "main", "gone"}]
    /\ up \in [Instances -> BOOLEAN]
    /\ calls \in 0..MaxCalls /\ crashes \in 0..MaxCrashes
    /\ loose \in BOOLEAN /\ shared \in BOOLEAN
    /\ \A p \in Procs : (pc[p] = "idle") <=> (call[p] = NoCall)
    /\ \A p \in Procs : handle[p] # "none" => pc[p] = "write"

(* connections.json always loads, through every crash and failed step and     *)
(* even where calls without the lock overlap those of other instances         *)
(* (filelock.go:46-47): only two goroutines of one instance that write the    *)
(* temporary file at once can leave it torn.                                  *)
LoadsUnlessShared == ~shared => Loads(main)

(* As long as no call without the lock overlapped another one and no read     *)
(* failed, each call takes effect at its rename on what is in the file then,  *)
(* or not at all: no update of another goroutine or instance is lost          *)
(* (app.go:391-393).                                                          *)
EachCallAtomic == Atomic!Spec
=============================================================================
