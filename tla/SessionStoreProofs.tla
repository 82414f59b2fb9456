------------------------- MODULE SessionStoreProofs -------------------------
(* Proofs about SessionStore: with one instance of the application, every  *)
(* crash point of Save leaves a valid file.                                *)
EXTENDS SessionStore, TLAPS

(* One instance runs, as Save's comment takes for granted.                 *)
Alone == \A i, j \in Instances : i = j

(* What holds between any two steps while nothing is damaged: no file is   *)
(* bad and nobody clears, and from Stat's look at session.json to its      *)
(* rename the file is there.                                               *)
Intact ==
    damage = 0 =>
        /\ main # Bad /\ bak # Bad
        /\ \A i \in Instances :
            /\ pc[i] \notin {"clearMain", "clearBak"}
            /\ pc[i] \in {"unlink", "backup"} => main # None

IInv == TypeOK /\ Intact /\ OneValid /\ EmptyOnlyAfterCut

LEMMA Sentinels == /\ None \notin Saves /\ Bad \notin Saves /\ None # Bad
                   /\ \A f \in Files : f = None \/ f = Bad \/ f \in Saves
                   /\ Saves \subseteq Files /\ None \in Files /\ Bad \in Files
  BY BoundsAssumption DEF None, Bad, Saves, Files

(* Every step keeps the types.                                             *)
LEMMA TypeStep == TypeOK /\ [Next]_vars => TypeOK'
<1> SUFFICES ASSUME TypeOK, [Next]_vars PROVE TypeOK'
  OBVIOUS
<1> USE BoundsAssumption, Sentinels DEF TypeOK, Stages, Goto, files
<1>1. ASSUME NEW i \in Instances, Step(i) PROVE TypeOK'
  <2>1. CASE Start(i)       BY <2>1 DEF Start
  <2>2. CASE Load(i)        BY <2>2 DEF Load
  <2>3. CASE ClearMain(i)   BY <2>3 DEF ClearMain
  <2>4. CASE ClearBak(i)    BY <2>4 DEF ClearBak
  <2>5. CASE WriteTmp(i)    BY <2>5 DEF WriteTmp, Saves
  <2>6. CASE Stat(i)        BY <2>6 DEF Stat
  <2>7. CASE RemoveBak(i)   BY <2>7 DEF RemoveBak
  <2>8. CASE Backup(i)      BY <2>8 DEF Backup
  <2>9. CASE BackupFails(i) BY <2>9 DEF BackupFails
  <2>10. CASE Commit(i)
    <3>1. val[i] \in Files
      BY <2>10 DEF Commit
    <3>2. val' \in [Instances -> 0..MaxSaves] /\ pc' \in [Instances -> Stages]
      BY <2>10 DEF Commit, Finish, None
    <3>3. \A j \in Instances : j # i => val'[j] = val[j] /\ pc'[j] = pc[j]
      BY <2>10 DEF Commit, Finish
    <3>4. pc'[i] = "idle"
      BY <2>10 DEF Commit, Finish
    <3> QED BY <2>10, <3>1, <3>2, <3>3, <3>4 DEF Commit
  <2>11. CASE CommitFails(i) BY <2>11 DEF CommitFails, Finish, None
  <2> QED BY <1>1, <2>1, <2>2, <2>3, <2>4, <2>5, <2>6, <2>7, <2>8, <2>9, <2>10, <2>11 DEF Step
<1>2. ASSUME NEW i \in Instances, Crash(i) PROVE TypeOK'
  BY <1>2 DEF Crash, None
<1>3. CASE Damage
  BY <1>3 DEF Damage
<1>4. CASE UNCHANGED vars
  BY <1>4 DEF vars
<1> QED BY <1>1, <1>2, <1>3, <1>4 DEF Next

(* With one instance, every step keeps the rest of the invariant: only the *)
(* instance that saves touches the files.                                  *)
LEMMA FilesStep ==
  ASSUME Alone, IInv, [Next]_vars
  PROVE  Intact' /\ OneValid' /\ EmptyOnlyAfterCut'
<1> USE BoundsAssumption, Sentinels DEF Intact, OneValid, EmptyOnlyAfterCut, IInv, Goto, files
<1>0. \A i, j \in Instances : i = j
  BY DEF Alone
<1>1. ASSUME NEW i \in Instances, Step(i) PROVE Intact' /\ OneValid' /\ EmptyOnlyAfterCut'
  <2>0. \A j \in Instances : pc[j] = pc[i] /\ pc'[j] = pc'[i]
    BY <1>0
  <2>t. pc \in [Instances -> Stages] /\ val[i] \in 0..MaxSaves /\ main \in Files /\ bak \in Files
    BY DEF TypeOK
  <2>1. CASE Start(i)       BY <2>0, <2>t, <2>1 DEF Start
  <2>2. CASE Load(i)        BY <2>0, <2>t, <2>2 DEF Load, Loadable
  <2>3. CASE ClearMain(i)   BY <2>0, <2>t, <2>3 DEF ClearMain
  <2>4. CASE ClearBak(i)    BY <2>0, <2>t, <2>4 DEF ClearBak
  <2>5. CASE WriteTmp(i)    BY <2>0, <2>t, <2>5 DEF WriteTmp
  <2>6. CASE Stat(i)        BY <2>0, <2>t, <2>6 DEF Stat
  <2>7. CASE RemoveBak(i)   BY <2>0, <2>t, <2>7 DEF RemoveBak
  <2>8. CASE Backup(i)      BY <2>0, <2>t, <2>8 DEF Backup
  <2>9. CASE BackupFails(i) BY <2>0, <2>t, <2>9 DEF BackupFails
  <2>10. CASE Commit(i)
    <3>1. val[i] \in Saves
      BY <2>10 DEF Commit, TypeOK
    <3> QED BY <3>1, <2>0, <2>t, <2>10 DEF Commit, Finish
  <2>11. CASE CommitFails(i) BY <2>0, <2>t, <2>11 DEF CommitFails, Finish
  <2> QED BY <1>1, <2>1, <2>2, <2>3, <2>4, <2>5, <2>6, <2>7, <2>8, <2>9, <2>10, <2>11 DEF Step
<1>2. ASSUME NEW i \in Instances, Crash(i) PROVE Intact' /\ OneValid' /\ EmptyOnlyAfterCut'
  <2>0. \A j \in Instances : pc[j] = pc[i] /\ pc'[j] = pc'[i]
    BY <1>0
  <2>t. pc \in [Instances -> Stages]
    BY DEF TypeOK
  <2> QED BY <2>0, <2>t, <1>2 DEF Crash
<1>3. CASE Damage
  BY <1>3 DEF Damage, TypeOK
<1>4. CASE UNCHANGED vars
  BY <1>4 DEF vars
<1> QED BY <1>1, <1>2, <1>3, <1>4 DEF Next

LEMMA InvInit == Init => IInv
<1> SUFFICES ASSUME Init PROVE IInv
  OBVIOUS
<1> USE DEF Init
<1>1. main \in Files /\ bak \in Files /\ main # Bad /\ bak # Bad
  BY Sentinels
<1>2. TypeOK
  <2>1. pc \in [Instances -> Stages] /\ val \in [Instances -> 0..MaxSaves]
    BY BoundsAssumption DEF Stages, None
  <2>2. \A i \in Instances : pc[i] \notin {"stat", "unlink", "backup", "commit"}
    OBVIOUS
  <2>3. saves \in 0..MaxSaves /\ damage \in 0..MaxDamage
    BY BoundsAssumption
  <2> QED BY <1>1, <2>1, <2>2, <2>3 DEF TypeOK
<1>3. Intact /\ OneValid /\ EmptyOnlyAfterCut
  BY <1>1 DEF Intact, OneValid, EmptyOnlyAfterCut
<1> QED BY <1>2, <1>3 DEF IInv

(* Any number of instances keep the types of the store's state.            *)
THEOREM SessionTypes == Spec => []TypeOK
<1>1. Init => TypeOK
  BY InvInit DEF IInv
<1> QED BY <1>1, TypeStep, PTL DEF Spec

(* Save's comment, for an instance that runs alone and every number of     *)
(* saves: whenever it dies, session.json or session.json.bak is valid.     *)
THEOREM CrashLeavesOneValid == ASSUME Alone PROVE Spec => []OneValid
<1>1. IInv /\ [Next]_vars => IInv'
  BY TypeStep, FilesStep DEF IInv
<1>2. IInv => OneValid
  BY DEF IInv
<1> QED BY InvInit, <1>1, <1>2, PTL DEF Spec

(* For an instance that runs alone, a Load that finds no session.json      *)
(* follows a Save that ended between its two renames.                      *)
THEOREM OnlyACutLosesTheSession == ASSUME Alone PROVE Spec => []EmptyOnlyAfterCut
<1>1. IInv /\ [Next]_vars => IInv'
  BY TypeStep, FilesStep DEF IInv
<1>2. IInv => EmptyOnlyAfterCut
  BY DEF IInv
<1> QED BY InvInit, <1>1, <1>2, PTL DEF Spec
=============================================================================
