--------------------------- MODULE AppConfigProofs ---------------------------
(* connections.json loads unless one instance wrote its temporary file twice  *)
(* at once, and the calls under the lock are atomic: AppConfig implements     *)
(* AtomicConfig, for any number of goroutines, instances, calls and crashes.  *)
EXTENDS AppConfig, TLAPS

-----------------------------------------------------------------------------
(* Unless shared, the goroutine that writes the temporary file of an instance *)
(* is alone at it: its descriptor is that file, just truncated before and its *)
(* configuration after the write.                                             *)
OwnTmp ==
    ~shared =>
      /\ Loads(main)
      /\ \A p, q \in Procs : /\ pc[p] \in {"write", "rename"} /\ pc[q] \in {"write", "rename"}
                             /\ InstanceOf[p] = InstanceOf[q]
                             => p = q
      /\ \A p \in Procs : pc[p] = "write" => handle[p] = "tmp" /\ tmp[InstanceOf[p]] = Cut
      /\ \A p \in Procs : pc[p] = "rename" => tmp[InstanceOf[p]] = buf[p]

(* A locked call that is busy holds the lock.                                 *)
HoldsLock == \A p \in Procs : Busy(p) /\ call[p][1] \in Locked => lock = p

(* Unless loose, a busy call without the lock is alone, nothing is shared, and *)
(* what a call will write is its effect on what is in the file now.           *)
Calm ==
    ~loose =>
      /\ ~shared
      /\ \A p, q \in Procs : Busy(p) /\ Busy(q) /\ p # q =>
                               call[p][1] \in Locked /\ call[q][1] \in Locked
      /\ \A p \in Procs : pc[p] \in {"open", "write", "rename"} =>
                               buf[p] = Atomic!Apply(call[p], Loaded(main))

IInv == TypeOK /\ OwnTmp /\ HoldsLock /\ Calm

(* A configuration is never one of the special values.                        *)
LEMMA ConfigLoads == \A c \in Configs : Loads(c) /\ Loaded(c) = c
    BY ValuesDiffer DEF Configs, Loads, Loaded

LEMMA LoadedIsConfig == \A c \in Contents : Loaded(c) \in Configs
    BY DEF Contents, Configs, Loads, Loaded

LEMMA ApplyIsConfig ==
    ASSUME NEW o \in Kinds \X Entries, NEW cfg \in Configs
    PROVE  Atomic!Apply(o, cfg) \in Configs
    BY DEF Atomic!Apply, Configs

LEMMA NoCallIsNone == NoCall \notin Kinds \X Entries /\ None \notin Kinds \X Entries
    BY ValuesDiffer DEF NoCall, Kinds, Locked

LEMMA InitIInv == Init => IInv
<1> SUFFICES ASSUME Init PROVE IInv
    OBVIOUS
<1>1. TypeOK
    <2>1. 0 \in 0..MaxCalls /\ 0 \in 0..MaxCrashes
        BY BoundsNat
    <2>2. main \in Contents /\ tmp \in [Instances -> Contents]
        BY DEF Init, Contents
    <2>3. call \in [Procs -> {NoCall} \cup (Kinds \X Entries)] /\ buf \in [Procs -> Configs]
        BY DEF Init, Configs
    <2> QED
        BY <2>1, <2>2, <2>3 DEF Init, TypeOK
<1>2. Loads(main)
    BY ConfigLoads, ValuesDiffer DEF Init, Loads
<1> QED
    BY <1>1, <1>2 DEF Init, IInv, OwnTmp, HoldsLock, Calm, Busy

-----------------------------------------------------------------------------
(* What every way to end a call leaves.                                       *)
LEMMA FinishStep ==
    ASSUME IInv, NEW p \in Procs, Finish(p), UNCHANGED <<main, calls, crashes>>,
           tmp' \in [Instances -> Contents], handle' \in [Procs -> {"none", "tmp", "main", "gone"}],
           handle'[p] = "none",
           \A q \in Procs : q # p /\ InstanceOf[q] # InstanceOf[p] =>
                 handle'[q] = handle[q] /\ tmp'[InstanceOf[q]] = tmp[InstanceOf[q]],
           \A q \in Procs : q # p /\ InstanceOf[q] = InstanceOf[p] =>
                 \/ handle'[q] = handle[q] /\ tmp'[InstanceOf[q]] = tmp[InstanceOf[q]]
                 \/ pc[p] \in {"write", "rename"},
           \A q \in Procs : handle'[q] # "none" => handle[q] # "none"
    PROVE  IInv'
<1> USE DEF Finish, Goto
<1>1. TypeOK'
    <2>1. /\ pc' = [pc EXCEPT ![p] = "idle"] /\ call' = [call EXCEPT ![p] = NoCall]
          /\ buf' = [buf EXCEPT ![p] = {}]
        OBVIOUS
    <2>2. buf' \in [Procs -> Configs]
        BY <2>1 DEF IInv, TypeOK, Configs
    <2>3. \A q \in Procs : (pc'[q] = "idle") <=> (call'[q] = NoCall)
        BY <2>1 DEF IInv, TypeOK
    <2>4. \A q \in Procs : handle'[q] # "none" => pc'[q] = "write"
        BY <2>1 DEF IInv, TypeOK
    <2>5. up' \in [Instances -> BOOLEAN]
        BY InstanceOfType DEF IInv, TypeOK
    <2>6. /\ pc' \in [Procs -> {"idle", "lock", "load", "open", "write", "rename"}]
          /\ call' \in [Procs -> {NoCall} \cup (Kinds \X Entries)]
          /\ lock' \in {None} \cup Procs
        BY <2>1 DEF IInv, TypeOK
    <2> QED
        BY <2>2, <2>3, <2>4, <2>5, <2>6 DEF IInv, TypeOK
<1>2. /\ pc'[p] = "idle"
      /\ \A q \in Procs : q # p => pc'[q] = pc[q] /\ call'[q] = call[q] /\ buf'[q] = buf[q]
    BY DEF IInv, TypeOK
<1>3. OwnTmp'
    <2> SUFFICES ASSUME ~shared PROVE OwnTmp'
        BY DEF OwnTmp
    <2>1. \A q \in Procs : pc[q] \in {"write", "rename"} /\ q # p =>
              handle'[q] = handle[q] /\ tmp'[InstanceOf[q]] = tmp[InstanceOf[q]]
        BY DEF IInv, OwnTmp
    <2> QED
        BY <1>2, <2>1 DEF IInv, OwnTmp
<1>4. HoldsLock'
    <2> SUFFICES ASSUME NEW q \in Procs, Busy(q)', call'[q][1] \in Locked
                 PROVE  lock' = q
        BY DEF HoldsLock
    <2>1. q # p /\ lock = q
        BY <1>2 DEF IInv, HoldsLock, Busy
    <2> QED
        BY <2>1
<1>5. Calm'
    BY <1>2 DEF IInv, Calm, Busy
<1> QED
    BY <1>1, <1>3, <1>4, <1>5 DEF IInv

-----------------------------------------------------------------------------
LEMMA StepIInv == IInv /\ [Next]_vars => IInv'
<1> SUFFICES ASSUME IInv, [Next]_vars PROVE IInv'
    OBVIOUS
<1> USE DEF Goto
<1>0. TypeOK /\ OwnTmp /\ HoldsLock /\ Calm
    BY DEF IInv
<1>1. ASSUME NEW p \in Procs, NEW o \in Kinds \X Entries, Begin(p, o) PROVE IInv'
    <2>1. /\ pc[p] = "idle" /\ call' = [call EXCEPT ![p] = o]
          /\ pc' = [pc EXCEPT ![p] = IF o[1] \in Locked THEN "lock" ELSE "load"]
          /\ IF o[1] \in Locked THEN loose' = loose ELSE Enter(p, o)
          /\ UNCHANGED <<main, tmp, handle, lock, buf, up, crashes, shared>>
          /\ calls < MaxCalls /\ calls' = calls + 1
        BY <1>1 DEF Begin, files
    <2>2. TypeOK'
        <3>1. pc' \in [Procs -> {"idle", "lock", "load", "open", "write", "rename"}]
            BY <1>0, <2>1 DEF TypeOK
        <3>2. call' \in [Procs -> {NoCall} \cup (Kinds \X Entries)]
            BY <1>0, <2>1 DEF TypeOK
        <3>3. \A q \in Procs : (pc'[q] = "idle") <=> (call'[q] = NoCall)
            BY <1>0, <2>1, NoCallIsNone DEF TypeOK
        <3>4. \A q \in Procs : handle'[q] # "none" => pc'[q] = "write"
            BY <1>0, <2>1 DEF TypeOK
        <3>5. calls' \in 0..MaxCalls
            BY <1>0, <2>1, BoundsNat DEF TypeOK
        <3>6. loose' \in BOOLEAN
            BY <1>0, <2>1 DEF TypeOK, Enter
        <3> QED
            BY <1>0, <2>1, <3>1, <3>2, <3>3, <3>4, <3>5, <3>6 DEF TypeOK
    <2>3. \A q \in Procs : q # p => pc'[q] = pc[q] /\ call'[q] = call[q]
        BY <1>0, <2>1 DEF TypeOK
    <2>4. pc'[p] \in {"lock", "load"} /\ call'[p] = o /\ (pc'[p] = "load" => o[1] \notin Locked)
        BY <1>0, <2>1 DEF TypeOK
    <2>5. OwnTmp'
        BY <1>0, <2>1, <2>3, <2>4 DEF OwnTmp
    <2>6. HoldsLock'
        BY <1>0, <2>1, <2>3, <2>4 DEF HoldsLock, Busy
    <2>7. Calm'
        <3> SUFFICES ASSUME ~loose' PROVE Calm'
            BY DEF Calm
        <3>1. ~loose
            BY <2>1, <1>0 DEF Enter, TypeOK
        <3>2. ASSUME NEW q \in Procs, q # p, Busy(q), pc'[p] = "load" PROVE FALSE
            BY <2>1, <2>4, <3>2 DEF Enter
        <3> QED
            BY <1>0, <2>1, <2>3, <2>4, <3>1, <3>2 DEF Calm, Busy
    <2> QED
        BY <2>2, <2>5, <2>6, <2>7 DEF IInv
<1>2. ASSUME NEW p \in Procs, Lock(p) PROVE IInv'
    <2>1. /\ pc[p] = "lock" /\ lock = None /\ lock' = p /\ pc' = [pc EXCEPT ![p] = "load"]
          /\ Enter(p, call[p])
          /\ UNCHANGED <<main, tmp, handle, call, buf, up, calls, crashes, shared>>
        BY <1>2 DEF Lock, files, bounds
    <2>2. TypeOK'
        BY <1>0, <2>1 DEF TypeOK, Enter
    <2>3. pc'[p] = "load" /\ \A q \in Procs : q # p => pc'[q] = pc[q]
        BY <1>0, <2>1 DEF TypeOK
    <2>4. OwnTmp'
        BY <1>0, <2>1, <2>3 DEF OwnTmp
    <2>5. HoldsLock'
        BY <1>0, <2>1, <2>3, ValuesDiffer DEF HoldsLock, Busy
    <2>6. Calm'
        <3> SUFFICES ASSUME ~loose' PROVE Calm'
            BY DEF Calm
        <3>1. ~loose
            BY <2>1, <1>0 DEF Enter, TypeOK
        <3>2. ASSUME NEW q \in Procs, q # p, Busy(q)
              PROVE  call[p][1] \in Locked /\ call[q][1] \in Locked
            BY <2>1, <3>2 DEF Enter
        <3> QED
            BY <1>0, <2>1, <2>3, <3>1, <3>2 DEF Calm, Busy
    <2> QED
        BY <2>2, <2>4, <2>5, <2>6 DEF IInv
<1>3. ASSUME NEW p \in Procs, LockTimesOut(p) \/ NothingToMigrate(p) \/ OpenFails(p) PROVE IInv'
    <2>1. Finish(p) /\ UNCHANGED <<main, tmp, handle>> /\ pc[p] # "write"
        BY <1>3 DEF LockTimesOut, NothingToMigrate, OpenFails, files
    <2>2. UNCHANGED <<calls, crashes>> /\ handle'[p] = "none"
        BY <1>0, <2>1 DEF Finish, TypeOK
    <2>3. tmp' \in [Instances -> Contents] /\ handle' \in [Procs -> {"none", "tmp", "main", "gone"}]
        BY <1>0, <2>1 DEF TypeOK
    <2> QED
        BY <2>1, <2>2, <2>3, FinishStep
<1>4. ASSUME NEW p \in Procs, Load(p) \/ LoadFails(p) PROVE IInv'
    <2>1. /\ pc[p] = "load" /\ pc' = [pc EXCEPT ![p] = "open"]
          /\ UNCHANGED <<main, tmp, handle, lock, call, up, calls, crashes, shared>>
          /\ \/ loose' = loose /\ buf' = [buf EXCEPT ![p] = Atomic!Apply(call[p], Loaded(main))]
             \/ loose' = TRUE /\ buf' = [buf EXCEPT ![p] = Atomic!Apply(call[p], {})]
        BY <1>4 DEF Load, LoadFails, files, bounds
    <2>2. call[p] \in Kinds \X Entries
        BY <1>0, <2>1 DEF TypeOK
    <2>3. buf' \in [Procs -> Configs]
        <3>1. Loaded(main) \in Configs /\ {} \in Configs
            BY <1>0, LoadedIsConfig DEF TypeOK, Configs
        <3> QED
            BY <1>0, <2>1, <2>2, <3>1, ApplyIsConfig DEF TypeOK
    <2>4. TypeOK'
        BY <1>0, <2>1, <2>3 DEF TypeOK
    <2>5. pc'[p] = "open" /\ \A q \in Procs : q # p => pc'[q] = pc[q] /\ buf'[q] = buf[q]
        BY <1>0, <2>1 DEF TypeOK
    <2>6. OwnTmp'
        BY <1>0, <2>1, <2>5 DEF OwnTmp
    <2>7. HoldsLock'
        BY <1>0, <2>1, <2>5 DEF HoldsLock, Busy
    <2>8. Calm'
        <3> SUFFICES ASSUME ~loose' PROVE Calm'
            BY DEF Calm
        <3>1. ~loose /\ buf'[p] = Atomic!Apply(call[p], Loaded(main))
            BY <1>0, <2>1 DEF TypeOK
        <3> QED
            BY <1>0, <2>1, <2>5, <3>1 DEF Calm, Busy
    <2> QED
        BY <2>4, <2>6, <2>7, <2>8 DEF IInv
<1>5. ASSUME NEW p \in Procs, Open(p) PROVE IInv'
    <2>1. /\ pc[p] = "open" /\ pc' = [pc EXCEPT ![p] = "write"]
          /\ tmp' = [tmp EXCEPT ![InstanceOf[p]] = Cut] /\ handle' = [handle EXCEPT ![p] = "tmp"]
          /\ shared' = (shared \/ \E q \in Procs \ {p} :
                            InstanceOf[q] = InstanceOf[p] /\ pc[q] \in {"write", "rename"})
          /\ UNCHANGED <<main, lock, call, buf, up, calls, crashes, loose>>
        BY <1>5 DEF Open, TmpOf, bounds
    <2>2. InstanceOf[p] \in Instances
        BY InstanceOfType
    <2>3. TypeOK'
        <3>1. tmp' \in [Instances -> Contents] /\ handle' \in [Procs -> {"none", "tmp", "main", "gone"}]
            BY <1>0, <2>1 DEF TypeOK, Contents
        <3>2. \A q \in Procs : handle'[q] # "none" => pc'[q] = "write"
            BY <1>0, <2>1 DEF TypeOK
        <3>3. \A q \in Procs : (pc'[q] = "idle") <=> (call'[q] = NoCall)
            BY <1>0, <2>1 DEF TypeOK
        <3>4. shared' \in BOOLEAN /\ pc' \in [Procs -> {"idle", "lock", "load", "open", "write", "rename"}]
            BY <1>0, <2>1 DEF TypeOK
        <3> QED
            BY <1>0, <2>1, <3>1, <3>2, <3>3, <3>4 DEF TypeOK
    <2>4. /\ pc'[p] = "write" /\ handle'[p] = "tmp" /\ tmp'[InstanceOf[p]] = Cut
          /\ \A q \in Procs : q # p => pc'[q] = pc[q] /\ handle'[q] = handle[q]
          /\ \A q \in Procs : InstanceOf[q] # InstanceOf[p] => tmp'[InstanceOf[q]] = tmp[InstanceOf[q]]
        BY <1>0, <2>1, <2>2, InstanceOfType DEF TypeOK
    <2>5. OwnTmp'
        <3> SUFFICES ASSUME ~shared' PROVE OwnTmp'
            BY DEF OwnTmp
        <3>1. ~shared /\ \A q \in Procs : InstanceOf[q] = InstanceOf[p] /\ q # p =>
                                            pc[q] \notin {"write", "rename"}
            BY <2>1
        <3> QED
            BY <1>0, <2>1, <2>4, <3>1 DEF OwnTmp
    <2>6. HoldsLock'
        BY <1>0, <2>1, <2>4 DEF HoldsLock, Busy
    <2>7. Calm'
        <3> SUFFICES ASSUME ~loose PROVE Calm'
            BY <2>1 DEF Calm
        <3>1. ASSUME NEW q \in Procs, q # p, Busy(q) PROVE FALSE
            <4>1. call[p][1] \in Locked /\ call[q][1] \in Locked
                BY <1>0, <2>1, <3>1 DEF Calm, Busy
            <4> QED
                BY <1>0, <2>1, <3>1, <4>1 DEF HoldsLock, Busy
        <3>2. ~shared'
            BY <1>0, <2>1, <3>1 DEF Calm, Busy
        <3> QED
            BY <1>0, <2>1, <2>4, <3>2 DEF Calm, Busy
    <2> QED
        BY <2>3, <2>5, <2>6, <2>7 DEF IInv
<1>6. ASSUME NEW p \in Procs, Write(p) PROVE IInv'
    <2>1. /\ pc[p] = "write" /\ pc' = [pc EXCEPT ![p] = "rename"] /\ handle' = [handle EXCEPT ![p] = "none"]
          /\ UNCHANGED <<lock, call, buf, up, calls, crashes, loose, shared>>
        BY <1>6 DEF Write, bounds
    <2>2. ASSUME NEW c \in Contents PROVE Over(c, buf[p]) \subseteq Contents
        BY <1>0 DEF Over, Contents, TypeOK
    <2>3. main' \in Contents /\ tmp' \in [Instances -> Contents]
        <3>1. CASE handle[p] = "tmp"
            <4>1. PICK c \in Over(tmp[InstanceOf[p]], buf[p]) : tmp' = [tmp EXCEPT ![InstanceOf[p]] = c]
                BY <1>6, <3>1 DEF Write, TmpOf
            <4>2. c \in Contents
                BY <1>0, <2>2, <4>1, InstanceOfType DEF TypeOK
            <4>3. main' = main
                BY <1>6, <3>1 DEF Write
            <4> QED
                BY <1>0, <4>1, <4>2, <4>3 DEF TypeOK
        <3>2. CASE handle[p] = "main"
            <4>1. main' \in Over(main, buf[p]) /\ tmp' = tmp
                BY <1>6, <3>2 DEF Write
            <4> QED
                BY <1>0, <2>2, <4>1 DEF TypeOK
        <3>3. CASE handle[p] \notin {"tmp", "main"}
            <4>1. main' = main /\ tmp' = tmp
                BY <1>6, <3>3 DEF Write
            <4> QED
                BY <1>0, <4>1 DEF TypeOK
        <3> QED
            BY <3>1, <3>2, <3>3
    <2>4. /\ pc'[p] = "rename"
          /\ \A q \in Procs : q # p => pc'[q] = pc[q] /\ handle'[q] = handle[q]
        BY <1>0, <2>1 DEF TypeOK
    <2>5. TypeOK'
        <3>1. handle' \in [Procs -> {"none", "tmp", "main", "gone"}]
            BY <1>0, <2>1 DEF TypeOK
        <3>2. \A q \in Procs : handle'[q] # "none" => pc'[q] = "write"
            BY <1>0, <2>1 DEF TypeOK
        <3>3. \A q \in Procs : (pc'[q] = "idle") <=> (call'[q] = NoCall)
            BY <1>0, <2>1 DEF TypeOK
        <3>4. pc' \in [Procs -> {"idle", "lock", "load", "open", "write", "rename"}]
            BY <1>0, <2>1 DEF TypeOK
        <3> QED
            BY <1>0, <2>1, <2>3, <3>1, <3>2, <3>3, <3>4 DEF TypeOK
    <2>6. ASSUME ~shared
          PROVE  main' = main /\ tmp' = [tmp EXCEPT ![InstanceOf[p]] = buf[p]]
        <3>1. handle[p] = "tmp" /\ tmp[InstanceOf[p]] = Cut
            BY <1>0, <2>1, <2>6 DEF OwnTmp
        <3> QED
            BY <1>6, <3>1 DEF Write, TmpOf, Over
    <2>7. OwnTmp'
        <3> SUFFICES ASSUME ~shared PROVE OwnTmp'
            BY <2>1 DEF OwnTmp
        <3>1. /\ tmp'[InstanceOf[p]] = buf[p]
              /\ \A q \in Procs : InstanceOf[q] # InstanceOf[p] => tmp'[InstanceOf[q]] = tmp[InstanceOf[q]]
            BY <1>0, <2>6, InstanceOfType DEF TypeOK
        <3> QED
            BY <1>0, <2>1, <2>4, <2>6, <3>1 DEF OwnTmp
    <2>8. HoldsLock'
        BY <1>0, <2>1, <2>4 DEF HoldsLock, Busy
    <2>9. Calm'
        BY <1>0, <2>1, <2>4, <2>6 DEF Calm, Busy
    <2> QED
        BY <2>5, <2>7, <2>8, <2>9 DEF IInv
<1>7. ASSUME NEW p \in Procs, WriteFails(p) \/ RenameFails(p) PROVE IInv'
    <2>1. RemoveTmp(p) /\ Finish(p) /\ pc[p] \in {"write", "rename"}
        BY <1>7 DEF WriteFails, RenameFails
    <2>2. /\ tmp' = [tmp EXCEPT ![InstanceOf[p]] = None] /\ main' = main
          /\ handle' = [q \in Procs |-> IF q = p THEN "none"
                                       ELSE IF handle[q] = "tmp" /\ InstanceOf[q] = InstanceOf[p]
                                            THEN "gone" ELSE handle[q]]
        BY <2>1 DEF RemoveTmp, TmpOf, Moved
    <2>3. tmp' \in [Instances -> Contents] /\ handle' \in [Procs -> {"none", "tmp", "main", "gone"}]
        BY <1>0, <2>2 DEF TypeOK, Contents
    <2>4. handle'[p] = "none" /\ \A q \in Procs : handle'[q] # "none" => handle[q] # "none"
        BY <2>2
    <2>5. \A q \in Procs : q # p /\ InstanceOf[q] # InstanceOf[p] =>
              handle'[q] = handle[q] /\ tmp'[InstanceOf[q]] = tmp[InstanceOf[q]]
        BY <1>0, <2>2, InstanceOfType DEF TypeOK
    <2>6. UNCHANGED <<main, calls, crashes>>
        BY <2>1, <2>2 DEF Finish
    <2> QED
        BY <2>1, <2>3, <2>4, <2>5, <2>6, FinishStep
<1>8. ASSUME NEW p \in Procs, Rename(p) PROVE IInv'
    <2>1. /\ pc[p] = "rename" /\ pc' = [pc EXCEPT ![p] = "idle"] /\ call' = [call EXCEPT ![p] = NoCall]
          /\ buf' = [buf EXCEPT ![p] = {}] /\ lock' = IF lock = p THEN None ELSE lock
          /\ main' = tmp[InstanceOf[p]] /\ tmp' = [tmp EXCEPT ![InstanceOf[p]] = None]
          /\ up' = [up EXCEPT ![InstanceOf[p]] = TRUE]
          /\ handle' = [q \in Procs |-> IF handle[q] = "main" THEN "gone"
                                       ELSE IF handle[q] = "tmp" /\ InstanceOf[q] = InstanceOf[p]
                                            THEN "main" ELSE handle[q]]
          /\ UNCHANGED <<calls, crashes, loose, shared>>
        BY <1>8 DEF Rename, Finish, TmpOf, Moved
    <2>2. /\ pc'[p] = "idle"
          /\ \A q \in Procs : q # p => pc'[q] = pc[q] /\ call'[q] = call[q] /\ buf'[q] = buf[q]
        BY <1>0, <2>1 DEF TypeOK
    <2>3. TypeOK'
        <3>1. main' \in Contents /\ tmp' \in [Instances -> Contents]
            BY <1>0, <2>1, InstanceOfType DEF TypeOK, Contents
        <3>2. handle' \in [Procs -> {"none", "tmp", "main", "gone"}]
            BY <1>0, <2>1 DEF TypeOK
        <3>3. \A q \in Procs : handle'[q] # "none" => pc'[q] = "write"
            BY <1>0, <2>1, <2>2 DEF TypeOK
        <3>4. \A q \in Procs : (pc'[q] = "idle") <=> (call'[q] = NoCall)
            BY <1>0, <2>1 DEF TypeOK
        <3>5. buf' \in [Procs -> Configs] /\ up' \in [Instances -> BOOLEAN]
            BY <1>0, <2>1, InstanceOfType DEF TypeOK, Configs
        <3>6. /\ pc' \in [Procs -> {"idle", "lock", "load", "open", "write", "rename"}]
              /\ call' \in [Procs -> {NoCall} \cup (Kinds \X Entries)]
              /\ lock' \in {None} \cup Procs
            BY <1>0, <2>1 DEF TypeOK
        <3> QED
            BY <1>0, <2>1, <3>1, <3>2, <3>3, <3>4, <3>5, <3>6 DEF TypeOK
    <2>4. OwnTmp'
        <3> SUFFICES ASSUME ~shared PROVE OwnTmp'
            BY <2>1 DEF OwnTmp
        <3>1. main' = buf[p] /\ buf[p] \in Configs
            BY <1>0, <2>1 DEF OwnTmp, TypeOK
        <3>2. Loads(main')
            BY <3>1, ConfigLoads
        <3>3. \A q \in Procs : pc[q] \in {"write", "rename"} /\ q # p => InstanceOf[q] # InstanceOf[p]
            BY <1>0, <2>1 DEF OwnTmp
        <3>4. \A q \in Procs : pc[q] \in {"write", "rename"} /\ q # p =>
                  tmp'[InstanceOf[q]] = tmp[InstanceOf[q]]
            BY <1>0, <2>1, <3>3, InstanceOfType DEF TypeOK
        <3>5. \A q \in Procs : pc[q] = "write" => handle'[q] = "tmp"
            BY <1>0, <2>1, <3>3 DEF OwnTmp
        <3>6. Loads(main)'
            BY <3>2 DEF Loads
        <3> QED
            BY <1>0, <2>1, <2>2, <3>4, <3>5, <3>6 DEF OwnTmp
    <2>5. HoldsLock'
        <3> SUFFICES ASSUME NEW q \in Procs, Busy(q)', call'[q][1] \in Locked
                     PROVE  lock' = q
            BY DEF HoldsLock
        <3>1. q # p /\ lock = q
            BY <1>0, <2>1, <2>2 DEF HoldsLock, Busy
        <3> QED
            BY <2>1, <3>1
    <2>6. Calm'
        <3> SUFFICES ASSUME ~loose PROVE Calm'
            BY <2>1 DEF Calm
        <3>1. ASSUME NEW q \in Procs, q # p, Busy(q) PROVE FALSE
            <4>1. call[p][1] \in Locked /\ call[q][1] \in Locked
                BY <1>0, <2>1, <3>1 DEF Calm, Busy
            <4> QED
                BY <1>0, <2>1, <3>1, <4>1 DEF HoldsLock, Busy
        <3> QED
            BY <1>0, <2>1, <2>2, <3>1 DEF Calm, Busy
    <2> QED
        BY <2>3, <2>4, <2>5, <2>6 DEF IInv
<1>9. ASSUME NEW i \in Instances, Crash(i) PROVE IInv'
    <2> DEFINE mine == {p \in Procs : InstanceOf[p] = i}
    <2>1. /\ crashes < MaxCrashes /\ crashes' = crashes + 1
          /\ pc' = [p \in Procs |-> IF p \in mine THEN "idle" ELSE pc[p]]
          /\ call' = [p \in Procs |-> IF p \in mine THEN NoCall ELSE call[p]]
          /\ buf' = [p \in Procs |-> IF p \in mine THEN {} ELSE buf[p]]
          /\ handle' = [p \in Procs |-> IF p \in mine THEN "none" ELSE handle[p]]
          /\ lock' = IF lock \in mine THEN None ELSE lock
          /\ tmp' = [tmp EXCEPT ![i] = None] /\ up' = [up EXCEPT ![i] = FALSE]
          /\ UNCHANGED <<main, calls, loose, shared>>
        BY <1>9 DEF Crash
    <2>2. TypeOK'
        <3>1. crashes' \in 0..MaxCrashes
            BY <1>0, <2>1, BoundsNat DEF TypeOK
        <3>2. tmp' \in [Instances -> Contents] /\ up' \in [Instances -> BOOLEAN]
            BY <1>0, <2>1 DEF TypeOK, Contents
        <3>3. buf' \in [Procs -> Configs] /\ handle' \in [Procs -> {"none", "tmp", "main", "gone"}]
            BY <1>0, <2>1 DEF TypeOK, Configs
        <3>4. /\ pc' \in [Procs -> {"idle", "lock", "load", "open", "write", "rename"}]
              /\ call' \in [Procs -> {NoCall} \cup (Kinds \X Entries)]
              /\ lock' \in {None} \cup Procs
            BY <1>0, <2>1 DEF TypeOK
        <3>5. /\ \A q \in Procs : handle'[q] # "none" => pc'[q] = "write"
              /\ \A q \in Procs : (pc'[q] = "idle") <=> (call'[q] = NoCall)
            BY <1>0, <2>1 DEF TypeOK
        <3> QED
            BY <1>0, <2>1, <3>1, <3>2, <3>3, <3>4, <3>5 DEF TypeOK
    <2>3. OwnTmp'
        <3> SUFFICES ASSUME ~shared PROVE OwnTmp'
            BY <2>1 DEF OwnTmp
        <3>1. \A q \in Procs : pc'[q] # "idle" =>
                  /\ pc'[q] = pc[q] /\ handle'[q] = handle[q] /\ buf'[q] = buf[q]
                  /\ tmp'[InstanceOf[q]] = tmp[InstanceOf[q]]
            BY <1>0, <2>1, InstanceOfType DEF TypeOK
        <3> QED
            BY <1>0, <2>1, <3>1 DEF OwnTmp
    <2>4. HoldsLock'
        BY <1>0, <2>1 DEF HoldsLock, Busy
    <2>5. Calm'
        BY <1>0, <2>1 DEF Calm, Busy
    <2> QED
        BY <2>2, <2>3, <2>4, <2>5 DEF IInv
<1>10. CASE UNCHANGED vars
    BY <1>0, <1>10 DEF vars, IInv, TypeOK, OwnTmp, HoldsLock, Calm, Busy
<1> QED
    BY <1>1, <1>2, <1>3, <1>4, <1>5, <1>6, <1>7, <1>8, <1>9, <1>10 DEF Next, Step

(* The invariant holds in every state of every behaviour.                     *)
THEOREM Invariance == Spec => []IInv
<1>1. Init => IInv
    BY InitIInv
<1>2. IInv /\ [Next]_vars => IInv'
    BY StepIInv
<1> QED
    BY <1>1, <1>2, PTL DEF Spec

(* Files, descriptors and calls keep their shape, through crashes and errors. *)
THEOREM FileTypes == Spec => []TypeOK
<1>1. IInv => TypeOK
    BY DEF IInv
<1> QED
    BY <1>1, Invariance, PTL

(* connections.json loads in every state (filelock.go:46-47), as long as no   *)
(* instance had its temporary file written by two goroutines at once.         *)
THEOREM AlwaysLoads == Spec => []LoadsUnlessShared
<1>1. IInv => LoadsUnlessShared
    BY DEF IInv, OwnTmp, LoadsUnlessShared
<1> QED
    BY <1>1, Invariance, PTL

-----------------------------------------------------------------------------
Todo == [p \in Procs |-> IF pc[p] = "idle" THEN None ELSE call[p]]

LEMMA KindsAreOps == Atomic!Ops = Kinds \X Entries
    BY DEF Atomic!Ops, Kinds, Locked

(* The steps at which the promise goes off leave the file alone.              *)
LEMMA LooseStep ==
    ASSUME IInv, IInv', [Next]_vars
    PROVE  /\ loose => loose'
           /\ ~loose /\ loose' => main' = main
<1>1. ASSUME NEW p \in Procs, NEW o \in Kinds \X Entries, Begin(p, o)
      PROVE  (loose => loose') /\ main' = main
    BY <1>1 DEF Begin, Enter, files
<1>2. ASSUME NEW p \in Procs, Lock(p) PROVE (loose => loose') /\ main' = main
    BY <1>2 DEF Lock, Enter, files
<1>3. ASSUME NEW p \in Procs, LoadFails(p) PROVE (loose => loose') /\ main' = main
    BY <1>3 DEF LoadFails, files
<1>4. ASSUME NEW p \in Procs,
             \/ LockTimesOut(p) \/ Load(p) \/ NothingToMigrate(p) \/ Open(p) \/ OpenFails(p)
             \/ Write(p) \/ WriteFails(p) \/ Rename(p) \/ RenameFails(p)
      PROVE  loose' = loose
    BY <1>4 DEF LockTimesOut, Load, NothingToMigrate, Open, OpenFails, Write, WriteFails,
                Rename, RenameFails, Finish
<1>5. ASSUME NEW i \in Instances, Crash(i) PROVE loose' = loose
    BY <1>5 DEF Crash
<1>6. CASE UNCHANGED vars
    BY <1>6 DEF vars
<1> QED
    BY <1>1, <1>2, <1>3, <1>4, <1>5, <1>6 DEF Next, Step

(* A call that ends leaves one effect less to take.                           *)
LEMMA FinishTodo ==
    ASSUME TypeOK, NEW p \in Procs, Finish(p)
    PROVE  Todo' = [q \in Procs |-> IF q \in {p} THEN None ELSE Todo[q]]
<1>1. pc' = [pc EXCEPT ![p] = "idle"] /\ call' = [call EXCEPT ![p] = NoCall]
    BY DEF Finish, Goto
<1>2. \A q \in Procs : Todo'[q] = IF q \in {p} THEN None ELSE Todo[q]
    BY <1>1 DEF Todo, TypeOK
<1> QED
    BY <1>2 DEF Todo

(* Every step of the protocol is a step of the abstract calls, or none.       *)
LEMMA StepRefines ==
    ASSUME IInv, IInv', [Next]_vars
    PROVE  [Atomic!Next]_<<Loaded(main), Todo, loose>>
<1> USE DEF Goto
<1>0. TypeOK /\ OwnTmp /\ Calm /\ TypeOK'
    BY DEF IInv
<1>1. CASE loose'
    <2>1. \A p \in Procs : Todo'[p] \in {None} \cup Atomic!Ops
        BY <1>0, KindsAreOps DEF TypeOK, Todo
    <2>2. Todo' \in [Procs -> {None} \cup Atomic!Ops]
        BY <2>1 DEF Todo
    <2>3. ~loose => Loaded(main)' = Loaded(main)
        BY <1>1, LooseStep
    <2>4. Atomic!ComeLoose
        BY <1>0, <1>1, <2>2, <2>3 DEF Atomic!ComeLoose, Todo, TypeOK
    <2> QED
        BY <2>4 DEF Atomic!Next
<1>2. CASE ~loose'
    <2>0. ~loose /\ loose' = loose
        BY <1>0, <1>2, LooseStep DEF TypeOK
    <2>1. ASSUME NEW p \in Procs, NEW o \in Kinds \X Entries, Begin(p, o) PROVE Atomic!Next
        <3>1. /\ pc[p] = "idle" /\ call' = [call EXCEPT ![p] = o] /\ main' = main
              /\ pc' = [pc EXCEPT ![p] = IF o[1] \in Locked THEN "lock" ELSE "load"]
            BY <2>1 DEF Begin, files
        <3>2. Todo[p] = None
            BY <3>1 DEF Todo
        <3>3. \A q \in Procs : Todo'[q] = IF q = p THEN o ELSE Todo[q]
            BY <1>0, <3>1 DEF Todo, TypeOK
        <3>4. Todo' = [Todo EXCEPT ![p] = o]
            BY <3>3 DEF Todo
        <3>5. Atomic!Begin(p, o)
            BY <2>0, <3>1, <3>2, <3>4 DEF Atomic!Begin, Todo
        <3> QED
            BY <3>5, KindsAreOps DEF Atomic!Next
    <2>2. ASSUME NEW P \in SUBSET Procs, main' = main,
                 Todo' = [q \in Procs |-> IF q \in P THEN None ELSE Todo[q]]
          PROVE  Atomic!Next
        <3>1. Atomic!Fail(P)
            BY <2>0, <2>2 DEF Atomic!Fail, Todo
        <3> QED
            BY <3>1 DEF Atomic!Next
    <2>3. ASSUME NEW p \in Procs, Finish(p), main' = main PROVE Atomic!Next
        BY <1>0, <2>2, <2>3, FinishTodo
    <2>4. ASSUME NEW p \in Procs, Rename(p) PROVE Atomic!Next
        <3>1. /\ pc[p] = "rename" /\ Finish(p) /\ main' = tmp[InstanceOf[p]]
            BY <2>4 DEF Rename, TmpOf
        <3>2. tmp[InstanceOf[p]] = buf[p] /\ buf[p] = Atomic!Apply(call[p], Loaded(main))
            BY <1>0, <2>0, <3>1 DEF Calm, OwnTmp
        <3>3. Loaded(main)' = buf[p]
            BY <1>0, <3>1, <3>2, ConfigLoads DEF TypeOK
        <3>4. call[p] \in Kinds \X Entries /\ Todo[p] = call[p]
            BY <1>0, <3>1 DEF TypeOK, Todo
        <3>5. Todo' = [Todo EXCEPT ![p] = None]
            BY <1>0, <3>1, FinishTodo DEF Todo
        <3>6. Atomic!Commit(p)
            BY <2>0, <3>2, <3>3, <3>4, <3>5, NoCallIsNone DEF Atomic!Commit, Todo
        <3> QED
            BY <3>6 DEF Atomic!Next
    <2>5. ASSUME NEW p \in Procs, WriteFails(p) \/ RenameFails(p) PROVE Atomic!Next
        BY <2>3, <2>5 DEF WriteFails, RenameFails, RemoveTmp
    <2>6. ASSUME NEW p \in Procs, LockTimesOut(p) \/ NothingToMigrate(p) \/ OpenFails(p)
          PROVE  Atomic!Next
        BY <2>3, <2>6 DEF LockTimesOut, NothingToMigrate, OpenFails, files
    <2>7. ASSUME NEW p \in Procs, Lock(p) \/ Load(p) \/ LoadFails(p) \/ Open(p) \/ Write(p)
          PROVE  Loaded(main)' = Loaded(main) /\ Todo' = Todo
        <3>1. /\ pc[p] # "idle" /\ call' = call
              /\ \E l \in {"load", "open", "write", "rename"} : pc' = [pc EXCEPT ![p] = l]
            BY <2>7 DEF Lock, Load, LoadFails, Open, Write
        <3>2. \A q \in Procs : pc'[q] = "idle" <=> pc[q] = "idle"
            BY <1>0, <3>1 DEF TypeOK
        <3>3. Todo' = Todo
            BY <3>1, <3>2 DEF Todo
        <3>4. main' = main
            <4>1. CASE Write(p)
                <5>1. handle[p] = "tmp"
                    BY <1>0, <2>0, <4>1 DEF Write, OwnTmp, Calm
                <5> QED
                    BY <4>1, <5>1 DEF Write
            <4> QED
                BY <2>7, <4>1 DEF Lock, Load, LoadFails, Open, files
        <3> QED
            BY <3>3, <3>4
    <2>8. ASSUME NEW i \in Instances, Crash(i) PROVE Atomic!Next
        <3> DEFINE mine == {p \in Procs : InstanceOf[p] = i}
        <3>1. /\ pc' = [p \in Procs |-> IF p \in mine THEN "idle" ELSE pc[p]]
              /\ call' = [p \in Procs |-> IF p \in mine THEN NoCall ELSE call[p]]
              /\ main' = main
            BY <2>8 DEF Crash
        <3>2. mine \in SUBSET Procs
            OBVIOUS
        <3> HIDE DEF mine
        <3>3. \A q \in Procs : Todo'[q] = IF q \in mine THEN None ELSE Todo[q]
            BY <3>1 DEF Todo
        <3>4. Todo' = [q \in Procs |-> IF q \in mine THEN None ELSE Todo[q]]
            BY <3>3 DEF Todo
        <3> QED
            BY <2>2, <3>1, <3>2, <3>4
    <2>9. CASE UNCHANGED vars
        BY <2>9 DEF vars, Todo
    <2> QED
        BY <2>0, <2>1, <2>4, <2>5, <2>6, <2>7, <2>8, <2>9 DEF Next, Step
<1> QED
    BY <1>1, <1>2

(* As long as no call without the lock overlapped another one and no read     *)
(* failed, every call takes effect at once, on what is saved then, or not at  *)
(* all (app.go:391-393): the file protocol implements AtomicConfig.           *)
THEOREM CallsAreAtomic == Spec => EachCallAtomic
<1>1. Init => Atomic!Init
    <2> SUFFICES ASSUME Init PROVE Atomic!Init
        OBVIOUS
    <2>1. main \in Contents
        BY DEF Init, Contents
    <2>2. Loaded(main) \in SUBSET Entries
        BY <2>1, LoadedIsConfig DEF Configs
    <2> QED
        BY <2>2 DEF Init, Atomic!Init
<1>2. IInv /\ IInv' /\ [Next]_vars => [Atomic!Next]_<<Loaded(main), Todo, loose>>
    BY StepRefines
<1> QED
    BY <1>1, <1>2, Invariance, PTL DEF Spec, EachCallAtomic, Atomic!Spec, Todo
=============================================================================
