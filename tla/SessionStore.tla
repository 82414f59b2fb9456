---------------------------- MODULE SessionStore ----------------------------
(***************************************************************************)
(* The session file (src/internal/session/store.go): the open tabs, saved  *)
(* while the application runs and read when it starts.  Save writes a      *)
(* synced temporary file, rolls session.json to session.json.bak and puts  *)
(* the temporary file in its place; a crash can fall between any two of    *)
(* these.  Within an instance of the application Store.mu serialises the   *)
(* calls, so an instance is one process; between instances there is no     *)
(* lock.  The temporary file has the process id in its name and is not     *)
(* read by anyone else: it is the instance's val.                          *)
(***************************************************************************)
EXTENDS Naturals

CONSTANTS
    Instances,  \* running copies of the application
    MaxSaves,   \* bound: how many states are saved
    MaxDamage   \* bound: how often a file is damaged from outside

Saves == 1..MaxSaves
None  == 0            \* no file; also the empty session
Bad   == MaxSaves + 1 \* a file that does not parse
Files == 0..(MaxSaves + 1)

ASSUME BoundsAssumption == MaxSaves \in Nat /\ MaxDamage \in Nat

VARIABLES
    main,       \* session.json: which saved state it holds
    bak,        \* session.json.bak
    saves,      \* how many Save calls were made
    written,    \* some Save has returned without an error
    cut,        \* the last Save ended before its second rename
    damage,     \* how often a file was damaged
    pc,         \* where each instance stands
    val         \* the state an instance is saving

files == <<main, bak>>
vars  == <<files, saves, written, cut, damage, pc, val>>

Stages == {"down", "load", "idle", "stat", "unlink", "backup", "commit",
           "clearMain", "clearBak"}

TypeOK ==
    /\ main \in Files /\ bak \in Files
    /\ saves \in 0..MaxSaves
    /\ written \in BOOLEAN /\ cut \in BOOLEAN
    /\ damage \in 0..MaxDamage
    /\ pc \in [Instances -> Stages]
    /\ val \in [Instances -> 0..MaxSaves]
    /\ \A i \in Instances :
        pc[i] \in {"stat", "unlink", "backup", "commit"} => val[i] \in Saves

Init ==
    /\ main = None /\ bak = None
    /\ saves = 0
    /\ written = FALSE /\ cut = FALSE
    /\ damage = 0
    /\ pc = [i \in Instances |-> "down"]
    /\ val = [i \in Instances |-> None]

Goto(i, stage) == pc' = [pc EXCEPT ![i] = stage]

-----------------------------------------------------------------------------
(* An instance starts and dies.                                            *)

Start(i) ==
    /\ pc[i] = "down"
    /\ Goto(i, "load")
    /\ UNCHANGED <<files, saves, written, cut, damage, val>>

Crash(i) ==
    /\ pc[i] # "down"
    /\ Goto(i, "down")
    /\ val' = [val EXCEPT ![i] = None]
    /\ cut' = (cut \/ pc[i] = "commit")
    /\ UNCHANGED <<files, saves, written, damage>>

(* Something outside the application damages the file.                     *)
Damage ==
    /\ damage < MaxDamage
    /\ main \in Saves
    /\ main' = Bad
    /\ damage' = damage + 1
    /\ UNCHANGED <<bak, saves, written, cut, pc, val>>

-----------------------------------------------------------------------------
(* Fault: a Load without a backup fails.                                   *)
LoadableWithBackup == main # Bad /\ bak \in Saves

(* Load: session.json, the empty session when there is none, the backup    *)
(* when it does not parse.  useSessionRestore resets the store when that   *)
(* fails too.                                                              *)
Loadable == main # Bad \/ bak \in Saves

Load(i) ==
    /\ pc[i] = "load"
    /\ Goto(i, IF Loadable THEN "idle" ELSE "clearMain")
    /\ UNCHANGED <<files, saves, written, cut, damage, val>>

ClearMain(i) ==
    /\ pc[i] = "clearMain"
    /\ main' = None
    /\ Goto(i, "clearBak")
    /\ UNCHANGED <<bak, saves, written, cut, damage, val>>

ClearBak(i) ==
    /\ pc[i] = "clearBak"
    /\ bak' = None
    /\ Goto(i, "idle")
    /\ UNCHANGED <<main, saves, written, cut, damage, val>>

-----------------------------------------------------------------------------
(* Save.                                                                   *)

(* The temporary file is written and synced; when that fails nothing else  *)
(* happened.                                                               *)
WriteTmp(i) ==
    /\ pc[i] = "idle"
    /\ saves < MaxSaves
    /\ saves' = saves + 1
    /\ val' = [val EXCEPT ![i] = saves + 1]
    /\ Goto(i, "stat")
    /\ UNCHANGED <<files, written, cut, damage>>

Stat(i) ==
    /\ pc[i] = "stat"
    /\ Goto(i, IF main = None THEN "commit" ELSE "unlink")
    /\ UNCHANGED <<files, saves, written, cut, damage, val>>

RemoveBak(i) ==
    /\ pc[i] = "unlink"
    /\ bak' = None
    /\ Goto(i, "backup")
    /\ UNCHANGED <<main, saves, written, cut, damage, val>>

(* Fault: session.json is removed, not renamed.                            *)
BackupRemoves(i) ==
    /\ pc[i] = "backup"
    /\ main # None
    /\ main' = None
    /\ Goto(i, "commit")
    /\ UNCHANGED <<bak, saves, written, cut, damage, val>>

Backup(i) ==
    /\ pc[i] = "backup"
    /\ main # None
    /\ bak' = main
    /\ main' = None
    /\ Goto(i, "commit")
    /\ UNCHANGED <<saves, written, cut, damage, val>>

(* Fault: the failing rename also gives up the temporary file.             *)
BackupFailsDropsTmp(i) ==
    /\ pc[i] = "backup"
    /\ val' = [val EXCEPT ![i] = None]
    /\ Goto(i, "commit")
    /\ UNCHANGED <<files, saves, written, cut, damage>>

(* The rename fails (the file is open or gone); Save goes on.              *)
BackupFails(i) ==
    /\ pc[i] = "backup"
    /\ Goto(i, "commit")
    /\ UNCHANGED <<files, saves, written, cut, damage, val>>

Finish(i) == Goto(i, "idle") /\ val' = [val EXCEPT ![i] = None]

Commit(i) ==
    /\ pc[i] = "commit"
    /\ main' = val[i]
    /\ written' = TRUE /\ cut' = FALSE
    /\ Finish(i)
    /\ UNCHANGED <<bak, saves, damage>>

(* Save reports the error and removes the temporary file.                  *)
CommitFails(i) ==
    /\ pc[i] = "commit"
    /\ cut' = TRUE
    /\ Finish(i)
    /\ UNCHANGED <<files, saves, written, damage>>

-----------------------------------------------------------------------------

Step(i) ==
    \/ Start(i) \/ Load(i) \/ ClearMain(i) \/ ClearBak(i)
    \/ WriteTmp(i) \/ Stat(i) \/ RemoveBak(i)
    \/ Backup(i) \/ BackupFails(i) \/ Commit(i) \/ CommitFails(i)

Next == Damage \/ \E i \in Instances : Step(i) \/ Crash(i)

Spec == Init /\ [][Next]_vars

-----------------------------------------------------------------------------
(* Properties.                                                             *)

(* Save's comment: whenever a crash comes, session.json or its backup is   *)
(* valid.  Damage from outside is not what it is about.                    *)
OneValid == written /\ damage = 0 => main \in Saves \/ bak \in Saves

(* The application starts with an empty session although one was saved     *)
(* only when the last Save ended between its two renames: then Load finds  *)
(* no session.json and does not look at the backup.                        *)
EmptyOnlyAfterCut ==
    /\ written /\ damage = 0 /\ ~cut
    /\ \A i \in Instances : pc[i] # "commit"
    => main \in Saves
=============================================================================
