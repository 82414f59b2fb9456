------------------------- MODULE ConnManagerProofs -------------------------
(* Proofs about ConnManager for every number of goroutines, saved          *)
(* connections and pools, and about TableEdit.                             *)
EXTENDS ConnManager, TableEdit, TLAPS, FiniteSetTheorems

(* No runtime id is the absent id, and no pool is the absent pool.         *)
LEMMA Sentinels ==
    /\ NoPool \notin Pools /\ NoId \notin Ids
    /\ Pools \subseteq Ids /\ Cfgs \subseteq Ids
    /\ Pools \cap Cfgs = {} /\ NoCfg \notin Ids
  BY ConstantsAssumption, SMT DEF Pools, NoPool, NoId, Ids

(* The id connectImpl chooses is a runtime id: the new UUID, or cfg.ID     *)
(* when the call does not force a new one.                                 *)
LEMMA RuntimeIdType ==
    ASSUME TypeOK, NEW p \in Procs, NEW h \in Pools
    PROVE  /\ RuntimeId(p, h) \in Ids
           /\ RuntimeId(p, h) \in {h, cfg[p]}
           /\ RuntimeId(p, h) # h => cfg[p] \in Cfgs /\ RuntimeId(p, h) = cfg[p]
  BY Sentinels DEF TypeOK, RuntimeId

-----------------------------------------------------------------------------
(* The type invariant: the variables keep their types, a call that works   *)
(* with a pool holds one, and one that works on a session has its id.      *)
THEOREM TypeCorrect == Spec => []TypeOK
<1> USE Sentinels DEF Goto, Return, ShutTunnel, AfterDisconnect
<1>1. Init => TypeOK
  BY DEF Init, TypeOK, Holding, Private, Stages, Ops
<1>2. TypeOK /\ [Next]_vars => TypeOK'
  <2> SUFFICES ASSUME TypeOK, [Next]_vars PROVE TypeOK'
    OBVIOUS
  <2>1. CASE UNCHANGED vars
    BY <2>1 DEF vars, poolVars, callVars, TypeOK, Holding, Private
  <2>2. ASSUME NEW p \in Procs, Call(p) PROVE TypeOK'
    <3>1. ASSUME NEW o \in ConnectOps, NEW c \in Cfgs \cup {NoCfg},
                 CallConnect(p, o, c)
          PROVE  TypeOK'
      BY <3>1 DEF CallConnect, ConnectOps, TypeOK, Holding, Private, Stages,
                  Ops, poolVars
    <3>2. ASSUME NEW o \in SessionOps, NEW id \in Ids, CallSession(p, o, id)
          PROVE  TypeOK'
      BY <3>2 DEF CallSession, SessionOps, TypeOK, Holding, Private, Stages,
                  Ops, poolVars
    <3> QED BY <2>2, <3>1, <3>2 DEF Call
  <2>3. ASSUME NEW p \in Procs, Step(p) PROVE TypeOK'
    <3> USE DEF TypeOK, Holding, Private, Stages, Ops, poolVars
    <3>1. CASE OpenFails(p)         BY <3>1 DEF OpenFails
    <3>2. CASE Open(p)              BY <3>2 DEF Open
    <3>3. CASE PingFails(p)         BY <3>3 DEF PingFails
    <3>4. CASE Register(p)
      <4>1. held[p] \in Pools
        BY <3>4 DEF Register
      <4>2. RuntimeId(p, held[p]) \in Ids
        BY <4>1, RuntimeIdType
      <4> QED BY <3>4, <4>1, <4>2 DEF Register
    <3>5. CASE DetachNotFound(p)    BY <3>5 DEF DetachNotFound
    <3>6. CASE Detach(p)            BY <3>6 DEF Detach
    <3>7. CASE CloseDb(p)           BY <3>7 DEF CloseDb
    <3>8. CASE CloseTunnel(p)       BY <3>8 DEF CloseTunnel
    <3>9. CASE ReconnectNotFound(p) BY <3>9 DEF ReconnectNotFound
    <3>10. CASE ReconnectLookup(p)  BY <3>10 DEF ReconnectLookup
    <3>11. CASE Remap(p)            BY <3>11 DEF Remap
    <3>12. CASE Probe(p)            BY <3>12 DEF Probe
    <3>13. CASE GetDB(p)            BY <3>13 DEF GetDB, Lookup
    <3>14. CASE GetDBNotFound(p)    BY <3>14 DEF GetDBNotFound
    <3>15. CASE Run(p)              BY <3>15 DEF Run
    <3> QED BY <2>3, <3>1, <3>2, <3>3, <3>4, <3>5, <3>6, <3>7, <3>8, <3>9,
               <3>10, <3>11, <3>12, <3>13, <3>14, <3>15 DEF Step
  <2> QED BY <2>1, <2>2, <2>3 DEF Next
<1> QED BY <1>1, <1>2, PTL DEF Spec

-----------------------------------------------------------------------------
(* Why Manager.conns holds only usable pools.  A pool is in the map or in  *)
(* the hands of one call that may close it, never both, and it is in the   *)
(* map under one id only: so the pool a call closes is out of reach.       *)
OneKey ==
    \A i, j \in Ids : conns[i] = conns[j] /\ conns[i] # NoPool => i = j

PrivateIsDetached ==
    \A p \in Procs : Private(p) => \A id \in Ids : conns[id] # held[p]

PrivateIsExclusive ==
    \A p, q \in Procs : Private(p) /\ Private(q) /\ held[p] = held[q] => p = q

PingedIsOpen ==
    \A p \in Procs : pc[p] = "ping" =>
        db[held[p]] = "open" /\ tunnel[held[p]] # "closed"

HeldWasOpened ==
    \A p \in Procs : held[p] # NoPool => db[held[p]] # "unused"

MapInv ==
    /\ RegisteredUsable
    /\ OneKey
    /\ PrivateIsDetached
    /\ PrivateIsExclusive
    /\ PingedIsOpen
    /\ HeldWasOpened

(* What a step leaves alone keeps the invariant: a call that arrives, or a *)
(* step that touches no pool and no entry and takes no pool.               *)
LEMMA MapInvFrame ==
    ASSUME TypeOK, MapInv, NEW p \in Procs,
           UNCHANGED <<conns, db, tunnel>>,
           \A q \in Procs \ {p} : pc'[q] = pc[q] /\ held'[q] = held[q],
           pc'[p] \notin {"ping", "closeDb", "closeTunnel"},
           held'[p] \in {held[p], NoPool}
    PROVE  MapInv'
  BY DEF MapInv, RegisteredUsable, OneKey, PrivateIsDetached,
         PrivateIsExclusive, PingedIsOpen, HeldWasOpened, Private

LEMMA MapInvInit == Init => MapInv
  BY Sentinels DEF Init, MapInv, RegisteredUsable, OneKey, PrivateIsDetached,
         PrivateIsExclusive, PingedIsOpen, HeldWasOpened, Private

LEMMA MapInvStep == TypeOK /\ TypeOK' /\ MapInv /\ [Next]_vars => MapInv'
<1> SUFFICES ASSUME TypeOK, TypeOK', MapInv, [Next]_vars PROVE MapInv'
  OBVIOUS
<1> USE Sentinels
<1>1. CASE UNCHANGED vars
  BY <1>1 DEF vars, poolVars, callVars, MapInv, RegisteredUsable, OneKey,
              PrivateIsDetached, PrivateIsExclusive, PingedIsOpen,
              HeldWasOpened, Private
<1>2. ASSUME NEW p \in Procs, Call(p) PROVE MapInv'
  BY <1>2, MapInvFrame DEF Call, CallConnect, CallSession, SessionOps, Goto,
              poolVars, TypeOK
<1>3. ASSUME NEW p \in Procs, Step(p) PROVE MapInv'
  <2> USE DEF Goto, Return
  <2>1. CASE \/ OpenFails(p) \/ ReconnectNotFound(p) \/ ReconnectLookup(p)
             \/ Probe(p) \/ GetDBNotFound(p) \/ Run(p)
    BY <2>1, MapInvFrame DEF OpenFails, ReconnectNotFound, ReconnectLookup,
              Probe, GetDBNotFound, Run, poolVars, TypeOK
  <2>2. CASE DetachNotFound(p)
    BY <2>2, MapInvFrame DEF DetachNotFound, AfterDisconnect, poolVars, TypeOK
  <2>3. CASE GetDB(p)
    BY <2>3 DEF GetDB, Lookup, poolVars, TypeOK, MapInv, RegisteredUsable,
              OneKey, PrivateIsDetached, PrivateIsExclusive, PingedIsOpen,
              HeldWasOpened, Private
  <2> USE DEF MapInv, RegisteredUsable, OneKey, PrivateIsDetached,
              PrivateIsExclusive, PingedIsOpen, HeldWasOpened, Private,
              Holding, TypeOK
  <2>4. CASE Open(p)
    BY <2>4 DEF Open
  <2>5. CASE PingFails(p)
    BY <2>5 DEF PingFails, ShutTunnel
  <2>6. CASE Register(p)
    <3> DEFINE h == held[p]
               k == RuntimeId(p, h)
    <3>1. h \in Pools /\ k \in Ids /\ pc[p] = "ping"
      BY <2>6, RuntimeIdType DEF Register
    <3>2. /\ conns' = [conns EXCEPT ![k] = h]
          /\ pc'[p] \in {"idle", "probe", "remap"} /\ held'[p] \in {h, NoPool}
          /\ \A q \in Procs \ {p} : pc'[q] = pc[q] /\ held'[q] = held[q]
          /\ UNCHANGED <<db, tunnel>>
      BY <2>6, <3>1 DEF Register
    <3> HIDE DEF h, k
    <3>3. h = held[p]
      BY DEF h
    <3>4. RegisteredUsable'
      BY <3>1, <3>2, <3>3
    <3>5. OneKey'
      BY <3>1, <3>2, <3>3
    <3>6. PrivateIsDetached'
      <4> SUFFICES ASSUME NEW q \in Procs, Private(q)', NEW id \in Ids
                   PROVE  conns'[id] # held'[q]
        OBVIOUS
      <4>1. q # p /\ Private(q) /\ held'[q] = held[q]
        BY <3>2
      <4>2. held[q] # h /\ conns[id] # held[q]
        BY <3>1, <3>3, <4>1
      <4> QED BY <3>1, <3>2, <4>1, <4>2
    <3>7. PrivateIsExclusive'
      BY <3>1, <3>2, <3>3
    <3>8. PingedIsOpen'
      BY <3>1, <3>2, <3>3
    <3>9. HeldWasOpened'
      BY <3>1, <3>2, <3>3
    <3> QED BY <3>4, <3>5, <3>6, <3>7, <3>8, <3>9
  <2>7. CASE Detach(p)
    <3> DEFINE h == conns[target[p]]
    <3>1. h \in Pools /\ target[p] \in Ids
      BY <2>7 DEF Detach
    <3>2. /\ conns' = [conns EXCEPT ![target[p]] = NoPool]
          /\ pc'[p] = "closeDb" /\ held'[p] = h
          /\ \A q \in Procs \ {p} : pc'[q] = pc[q] /\ held'[q] = held[q]
          /\ UNCHANGED <<db, tunnel>>
      BY <2>7 DEF Detach, poolVars
    <3>3. RegisteredUsable' /\ OneKey'
      BY <3>1, <3>2
    <3>6. PingedIsOpen'
      BY <3>1, <3>2
    <3>7. HeldWasOpened'
      BY <3>1, <3>2
    <3>4. PrivateIsDetached'
      <4> SUFFICES ASSUME NEW q \in Procs, NEW id \in Ids, Private(q)'
                   PROVE  conns'[id] # held'[q]
        OBVIOUS
      <4>1. conns'[id] \in {NoPool, conns[id]} /\ conns'[target[p]] = NoPool
        BY <3>1, <3>2
      <4>2. CASE q = p
        <5>1. held'[q] = conns[target[p]] /\ held'[q] # NoPool
          BY <3>1, <3>2, <4>2
        <5>2. id # target[p] => conns[id] # held'[q]
          BY <3>1, <5>1
        <5> QED BY <4>1, <5>1, <5>2
      <4>3. CASE q # p
        <5>1. Private(q) /\ held'[q] = held[q]
          BY <3>2, <4>3
        <5>2. held[q] # NoPool /\ conns[id] # held[q]
          BY <5>1
        <5> QED BY <4>1, <5>1, <5>2
      <4> QED BY <4>2, <4>3
    <3>5. PrivateIsExclusive'
      BY <3>1, <3>2
    <3> QED BY <3>3, <3>4, <3>5, <3>6, <3>7
  <2>8. CASE CloseDb(p)
    BY <2>8 DEF CloseDb
  <2>9. CASE CloseTunnel(p)
    <3>1. /\ pc[p] = "closeTunnel" /\ pc'[p] \in {"open", "idle"}
          /\ held'[p] = NoPool /\ held[p] \in Pools
          /\ \A q \in Procs \ {p} : pc'[q] = pc[q] /\ held'[q] = held[q]
          /\ UNCHANGED <<conns, db>>
          /\ \A g \in Pools \ {held[p]} : tunnel'[g] = tunnel[g]
      BY <2>9 DEF CloseTunnel, ShutTunnel, AfterDisconnect
    <3>2. RegisteredUsable'
      BY <3>1
    <3>3. OneKey'
      BY <3>1
    <3>5. PrivateIsDetached'
      BY <3>1
    <3>6. PrivateIsExclusive'
      BY <3>1
    <3>7. HeldWasOpened'
      <4> SUFFICES ASSUME NEW q \in Procs, held'[q] # NoPool
                   PROVE  db'[held'[q]] # "unused"
        OBVIOUS
      <4>1. held'[q] = held[q] /\ db' = db
        BY <3>1
      <4> QED BY <4>1
    <3>4. PingedIsOpen'
      BY <3>1
    <3> QED BY <3>2, <3>3, <3>4, <3>5, <3>6, <3>7
  <2>10. CASE Remap(p)
    <3> DEFINE new == held[p]
               e   == conns[new]
    <3>1. /\ new \in Ids /\ target[p] \in Ids /\ pc'[p] = "idle"
          /\ held'[p] = NoPool
          /\ \A q \in Procs \ {p} : pc'[q] = pc[q] /\ held'[q] = held[q]
          /\ UNCHANGED <<db, tunnel>>
      BY <2>10 DEF Remap
    <3>2. CASE e = NoPool
      BY <2>10, <3>1, <3>2 DEF Remap
    <3>3. CASE e # NoPool
      <4>1. conns' = [conns EXCEPT ![new] = NoPool, ![target[p]] = e]
        BY <2>10, <3>3 DEF Remap
      <4>2. \A id \in Ids : conns'[id] # NoPool =>
                \/ id = target[p] /\ conns'[id] = conns[new]
                \/ id # new /\ id # target[p] /\ conns'[id] = conns[id]
        BY <3>1, <4>1
      <4> HIDE DEF new, e
      <4>3. RegisteredUsable'
        BY <3>1, <4>2
      <4>4. OneKey'
        BY <3>1, <4>2
      <4>5. PrivateIsDetached'
        <5> SUFFICES ASSUME NEW q \in Procs, Private(q)', NEW id \in Ids
                     PROVE  conns'[id] # held'[q]
          OBVIOUS
        <5>1. q # p /\ Private(q) /\ held'[q] = held[q] /\ held[q] # NoPool
          BY <3>1 DEF Holding
        <5>2. CASE conns'[id] = NoPool
          BY <5>1, <5>2
        <5>3. CASE conns'[id] # NoPool
          BY <3>1, <4>2, <5>1, <5>3
        <5> QED BY <5>2, <5>3
      <4>6. PrivateIsExclusive'
        BY <3>1
      <4>7. PingedIsOpen'
        BY <3>1
      <4>8. HeldWasOpened'
        BY <3>1
      <4> QED BY <4>3, <4>4, <4>5, <4>6, <4>7, <4>8
    <3> QED BY <3>2, <3>3
  <2> QED BY <1>3, <2>1, <2>2, <2>3, <2>4, <2>5, <2>6, <2>7, <2>8, <2>9,
             <2>10 DEF Step
<1> QED BY <1>1, <1>2, <1>3 DEF Next

(* No interleaving puts a closed pool, or one behind a closed tunnel,      *)
(* where GetDB can hand it out.                                            *)
THEOREM MapUsable == Spec => []RegisteredUsable
<1>1. Init => MapInv
  BY MapInvInit
<1>2. TypeOK /\ TypeOK' /\ MapInv /\ [Next]_vars => MapInv'
  BY MapInvStep
<1>3. MapInv => RegisteredUsable
  BY DEF MapInv
<1> QED BY <1>1, <1>2, <1>3, TypeCorrect, PTL DEF Spec

-----------------------------------------------------------------------------
(* Why a runtime id keeps its saved connection.  Reconnect reads the       *)
(* configuration of the session it was given before it takes the session   *)
(* down, and what it read stays right while other calls run: the pool a    *)
(* UUID was drawn with is never opened twice.                              *)
KeyWasOpened ==
    \A k \in Pools : conns[k] # NoPool => db[k] # "unused"

PingedCfg ==
    \A p \in Procs : pc[p] = "ping" => poolCfg[held[p]] = cfg[p]

ReconnectCfg ==
    \A p \in Procs :
        op[p] = "reconnect" /\ pc[p] # "lookup" =>
            /\ cfg[p] = SessionCfg(target[p])
            /\ target[p] \in Pools => db[target[p]] # "unused"

RemapCfg ==
    \A p \in Procs :
        pc[p] = "remap" => op[p] = "reconnect" /\ poolCfg[held[p]] = cfg[p]

EntryInv ==
    /\ KeyIsInfoId
    /\ SessionKeepsCfg
    /\ KeyWasOpened
    /\ PingedCfg
    /\ ReconnectCfg
    /\ RemapCfg

LEMMA EntryInvInit == Init => EntryInv
  BY Sentinels DEF Init, EntryInv, KeyIsInfoId, SessionKeepsCfg, KeyWasOpened,
         PingedCfg, ReconnectCfg, RemapCfg

(* A call that returns leaves the entries as they are, but for pools it    *)
(* closed and that are in no entry.                                        *)
LEMMA EntryInvReturn ==
    ASSUME TypeOK, TypeOK', EntryInv, NEW p \in Procs, Return(p),
           UNCHANGED <<conns, poolCfg, infoId>>,
           \A h \in Pools : db[h] # "unused" => db'[h] # "unused"
    PROVE  EntryInv'
<1> USE Sentinels DEF Return, Goto, TypeOK, EntryInv
<1>1. (KeyIsInfoId /\ SessionKeepsCfg)'
  BY DEF KeyIsInfoId, SessionKeepsCfg, SessionCfg
<1>2. KeyWasOpened'
  BY DEF KeyWasOpened
<1>3. \A q \in Procs \ {p} : /\ pc'[q] = pc[q] /\ op'[q] = op[q]
                            /\ target'[q] = target[q] /\ cfg'[q] = cfg[q]
                            /\ held'[q] = held[q]
  OBVIOUS
<1>4. pc'[p] = "idle" /\ op'[p] = "none"
  OBVIOUS
<1>5. (PingedCfg /\ RemapCfg)'
  BY <1>3, <1>4 DEF PingedCfg, RemapCfg
<1>6. ReconnectCfg'
  BY <1>3, <1>4 DEF ReconnectCfg, SessionCfg
<1> QED BY <1>1, <1>2, <1>5, <1>6

LEMMA EntryInvStep ==
    TypeOK /\ TypeOK' /\ MapInv /\ EntryInv /\ [Next]_vars => EntryInv'
<1> SUFFICES ASSUME TypeOK, TypeOK', MapInv, EntryInv, [Next]_vars
             PROVE  EntryInv'
  OBVIOUS
<1> USE Sentinels DEF EntryInv, KeyIsInfoId, SessionKeepsCfg, KeyWasOpened,
             PingedCfg, ReconnectCfg, RemapCfg, SessionCfg, TypeOK
<1>1. CASE UNCHANGED vars
  BY <1>1 DEF vars, poolVars, callVars
<1>2. ASSUME NEW p \in Procs, Call(p) PROVE EntryInv'
  BY <1>2 DEF Call, CallConnect, CallSession, SessionOps, ConnectOps, Goto,
              poolVars
<1>3. ASSUME NEW p \in Procs, Step(p) PROVE EntryInv'
  <2> USE DEF Goto, Return, poolVars
  <2>1. CASE OpenFails(p)
    BY <2>1, EntryInvReturn DEF OpenFails
  <2>2. CASE Open(p)
    <3>1. PICK h \in Pools :
              /\ db[h] = "unused"
              /\ db' = [db EXCEPT ![h] = "open"]
              /\ poolCfg' = [poolCfg EXCEPT ![h] = cfg[p]]
              /\ held' = [held EXCEPT ![p] = h]
      BY <2>2 DEF Open
    <3>2. /\ UNCHANGED <<conns, infoId, op, target, cfg>>
          /\ pc[p] = "open" /\ pc' = [pc EXCEPT ![p] = "ping"]
      BY <2>2 DEF Open
    <3>3. \A g \in Pools : db[g] # "unused" =>
              g # h /\ poolCfg'[g] = poolCfg[g] /\ db'[g] # "unused"
      BY <3>1
    <3>4. \A id \in Ids : conns[id] # NoPool => db[conns[id]] # "unused"
      BY DEF MapInv, RegisteredUsable
    <3>5. \A q \in Procs : held[q] # NoPool => db[held[q]] # "unused"
      BY DEF MapInv, HeldWasOpened
    <3>6. KeyIsInfoId' /\ KeyWasOpened'
      BY <3>2, <3>3
    <3>7. SessionKeepsCfg'
      <4> SUFFICES ASSUME NEW id \in Ids, conns[id] # NoPool
                   PROVE  poolCfg'[conns[id]] = SessionCfg(id)'
        BY <3>2
      <4>1. conns[id] \in Pools /\ poolCfg'[conns[id]] = poolCfg[conns[id]]
        BY <3>3, <3>4
      <4>2. CASE id \in Cfgs
        BY <4>1, <4>2
      <4>3. CASE id \in Pools
        BY <3>3, <4>1, <4>3
      <4> QED BY <4>2, <4>3 DEF Ids
    <3>8. PingedCfg'
      BY <3>1, <3>2, <3>3, <3>5 DEF Holding, Private
    <3>9. ReconnectCfg'
      BY <3>1, <3>2, <3>3
    <3>10. RemapCfg'
      BY <3>1, <3>2, <3>3, <3>5 DEF Holding
    <3> QED BY <3>6, <3>7, <3>8, <3>9, <3>10
  <2>3. CASE PingFails(p)
    BY <2>3, EntryInvReturn DEF PingFails
  <2>4. CASE Register(p)
    <3> DEFINE h == held[p]
               k == RuntimeId(p, h)
    <3>1. h \in Pools /\ k \in Ids /\ pc[p] = "ping" /\ poolCfg[h] = cfg[p]
      BY <2>4, RuntimeIdType DEF Register
    <3>2. /\ conns' = [conns EXCEPT ![k] = h]
          /\ infoId' = [infoId EXCEPT ![h] = k]
          /\ UNCHANGED <<db, poolCfg>>
          /\ \A q \in Procs \ {p} : /\ pc'[q] = pc[q] /\ op'[q] = op[q]
                                   /\ target'[q] = target[q]
                                   /\ cfg'[q] = cfg[q] /\ held'[q] = held[q]
      BY <2>4, <3>1 DEF Register
    <3>3. \/ pc'[p] = "probe" /\ op'[p] = "test"
          \/ /\ pc'[p] = "remap" /\ op'[p] = "reconnect" /\ op[p] = "reconnect"
             /\ target'[p] = target[p] /\ cfg'[p] = cfg[p] /\ held'[p] = h
          \/ pc'[p] = "idle" /\ op'[p] = "none"
      BY <2>4 DEF Register
    <3>4. \A id \in Ids : conns[id] # h
      BY <3>1 DEF MapInv, PrivateIsDetached, Private
    <3>5. db[h] # "unused"
      BY <3>1 DEF MapInv, HeldWasOpened
    <3>6. k = h \/ (k = cfg[p] /\ k \in Cfgs)
      BY <2>4, <3>1, RuntimeIdType
    <3> HIDE DEF h, k
    <3>7. KeyIsInfoId'
      BY <3>1, <3>2, <3>4
    <3>8. SessionKeepsCfg'
      <4> SUFFICES ASSUME NEW id \in Ids, conns'[id] # NoPool
                   PROVE  poolCfg[conns'[id]] = SessionCfg(id)
        BY <3>2
      <4>1. CASE id = k
        BY <3>1, <3>2, <3>6, <4>1
      <4>2. CASE id # k
        BY <3>2, <4>2
      <4> QED BY <4>1, <4>2
    <3>9. KeyWasOpened'
      BY <3>1, <3>2, <3>5, <3>6
    <3>10. PingedCfg'
      BY <3>2, <3>3
    <3>11. ReconnectCfg'
      BY <3>1, <3>2, <3>3
    <3>12. RemapCfg'
      BY <3>1, <3>2, <3>3
    <3> QED BY <3>7, <3>8, <3>9, <3>10, <3>11, <3>12
  <2>5. CASE DetachNotFound(p)    BY <2>5 DEF DetachNotFound, AfterDisconnect
  <2>6. CASE Detach(p)            BY <2>6 DEF Detach
  <2>7. CASE CloseDb(p)           BY <2>7 DEF CloseDb
  <2>8. CASE CloseTunnel(p)
    BY <2>8 DEF CloseTunnel, AfterDisconnect, ShutTunnel
  <2>9. CASE ReconnectNotFound(p) BY <2>9 DEF ReconnectNotFound
  <2>10. CASE ReconnectLookup(p)
    <3>1. /\ UNCHANGED <<conns, db, poolCfg, infoId, op, target, held>>
          /\ pc' = [pc EXCEPT ![p] = "detach"] /\ pc[p] = "lookup"
          /\ cfg' = [cfg EXCEPT ![p] = poolCfg[conns[target[p]]]]
          /\ conns[target[p]] # NoPool /\ target[p] \in Ids
      BY <2>10 DEF ReconnectLookup
    <3>2. (KeyIsInfoId /\ SessionKeepsCfg /\ KeyWasOpened)'
      BY <3>1
    <3>3. (PingedCfg /\ RemapCfg)'
      BY <3>1
    <3>4. ReconnectCfg'
      BY <3>1
    <3> QED BY <3>2, <3>3, <3>4
  <2>11. CASE Remap(p)
    <3> DEFINE new == held[p]
               e   == conns[new]
    <3>1. /\ pc[p] = "remap" /\ Return(p) /\ UNCHANGED <<db, tunnel, poolCfg>>
          /\ new \in Pools /\ target[p] \in Ids
      BY <2>11 DEF Remap, Holding
    <3>2. CASE e = NoPool
      BY <2>11, <3>1, <3>2, EntryInvReturn DEF Remap
    <3>3. CASE e # NoPool
      <4>1. /\ conns' = [conns EXCEPT ![new] = NoPool, ![target[p]] = e]
            /\ infoId' = [infoId EXCEPT ![e] = target[p]]
            /\ e \in Pools
        BY <2>11, <3>1, <3>3 DEF Remap
      <4>2. \A q \in Procs \ {p} : /\ pc'[q] = pc[q] /\ op'[q] = op[q]
                                  /\ target'[q] = target[q]
                                  /\ cfg'[q] = cfg[q] /\ held'[q] = held[q]
        BY <3>1
      <4>3. pc'[p] = "idle" /\ op'[p] = "none"
        BY <3>1
      <4>4. poolCfg[e] = SessionCfg(target[p])
        <5>1. poolCfg[e] = poolCfg[new]
          BY <3>1, <3>3
        <5>2. op[p] = "reconnect" /\ poolCfg[new] = cfg[p]
          BY <3>1
        <5>3. cfg[p] = SessionCfg(target[p])
          BY <3>1, <5>2
        <5> QED BY <5>1, <5>2, <5>3
      <4>5. target[p] \in Pools => db[target[p]] # "unused"
        BY <3>1
      <4>6. \A id \in Ids : conns'[id] # NoPool =>
                \/ id = target[p] /\ conns'[id] = e
                \/ id # new /\ id # target[p] /\ conns'[id] = conns[id]
                                 /\ conns[id] # e
        BY <3>1, <3>3, <4>1 DEF MapInv, OneKey
      <4> HIDE DEF e
      <4>7. KeyIsInfoId'
        BY <3>1, <4>1, <4>6
      <4>8. SessionKeepsCfg'
        BY <3>1, <4>4, <4>6
      <4>9. KeyWasOpened'
        BY <3>1, <4>5, <4>6
      <4>10. (PingedCfg /\ RemapCfg)'
        BY <3>1, <4>2, <4>3
      <4>11. ReconnectCfg'
        BY <3>1, <4>2, <4>3
      <4> QED BY <4>7, <4>8, <4>9, <4>10, <4>11
    <3> QED BY <3>2, <3>3
  <2>12. CASE Probe(p)            BY <2>12 DEF Probe
  <2>13. CASE GetDB(p)            BY <2>13 DEF GetDB
  <2>14. CASE GetDBNotFound(p)    BY <2>14 DEF GetDBNotFound
  <2>15. CASE Run(p)              BY <2>15 DEF Run
  <2> QED BY <1>3, <2>1, <2>2, <2>3, <2>4, <2>5, <2>6, <2>7, <2>8, <2>9,
             <2>10, <2>11, <2>12, <2>13, <2>14, <2>15 DEF Step
<1> QED BY <1>1, <1>2, <1>3 DEF Next

(* The entry under a runtime id has that id and the saved connection the   *)
(* id was first opened for.                                                *)
THEOREM SessionIdentity == Spec => [](KeyIsInfoId /\ SessionKeepsCfg)
<1>1. Init => MapInv /\ EntryInv
  BY MapInvInit, EntryInvInit
<1>2. TypeOK /\ TypeOK' /\ (MapInv /\ EntryInv) /\ [Next]_vars
        => (MapInv /\ EntryInv)'
  BY MapInvStep, EntryInvStep
<1>3. MapInv /\ EntryInv => KeyIsInfoId /\ SessionKeepsCfg
  BY DEF EntryInv
<1> QED BY <1>1, <1>2, <1>3, TypeCorrect, PTL DEF Spec

-----------------------------------------------------------------------------
(* Where pools leak.  A step that takes a pool out of the map hands it to  *)
(* a call that closes it, and a call lets go of a pool only closed.        *)
DbClosedFirst ==
    \A p \in Procs : pc[p] = "closeTunnel" => db[held[p]] = "closed"

LEMMA DbClosedFirstStep ==
    TypeOK /\ TypeOK' /\ MapInv /\ DbClosedFirst /\ [Next]_vars => DbClosedFirst'
<1> SUFFICES ASSUME TypeOK, TypeOK', MapInv, DbClosedFirst, [Next]_vars
             PROVE  DbClosedFirst'
  OBVIOUS
<1> USE Sentinels DEF DbClosedFirst, TypeOK, Holding, Private
<1>1. CASE UNCHANGED vars
  BY <1>1 DEF vars, poolVars, callVars
<1>2. ASSUME NEW p \in Procs, Call(p) PROVE DbClosedFirst'
  BY <1>2 DEF Call, CallConnect, CallSession, SessionOps, Goto, poolVars
<1>3. ASSUME NEW p \in Procs, Step(p) PROVE DbClosedFirst'
  <2>1. \A h \in Pools : db[h] = "closed" => db'[h] = "closed"
    BY <1>3 DEF Step, OpenFails, Open, PingFails, Register, DetachNotFound,
         Detach, CloseDb, CloseTunnel, ReconnectNotFound, ReconnectLookup,
         Remap, Probe, GetDB, GetDBNotFound, Run, poolVars
  <2>2. \A q \in Procs \ {p} : pc'[q] = pc[q] /\ held'[q] = held[q]
    BY <1>3 DEF Step, OpenFails, Open, PingFails, Register, DetachNotFound,
         Detach, CloseDb, CloseTunnel, ReconnectNotFound, ReconnectLookup,
         Remap, Probe, GetDB, GetDBNotFound, Run, AfterDisconnect, Goto, Return
  <2>3. pc'[p] = "closeTunnel" => CloseDb(p)
    BY <1>3 DEF Step, OpenFails, Open, PingFails, Register, DetachNotFound,
         Detach, CloseTunnel, ReconnectNotFound, ReconnectLookup,
         Remap, Probe, GetDB, GetDBNotFound, Run, AfterDisconnect, Goto, Return
  <2>4. CloseDb(p) => db'[held'[p]] = "closed"
    BY DEF CloseDb
  <2> QED BY <2>1, <2>2, <2>3, <2>4
<1> QED BY <1>1, <1>2, <1>3 DEF Next

OverwriteOf(h) == \E id \in Ids : conns[id] = h /\ conns'[id] \notin {h, NoPool}

(* A step that neither touches the map nor opens or closes anything, by a  *)
(* call that has no pool to itself, orphans nothing.                       *)
LEMMA NoOrphanFrame ==
    ASSUME TypeOK, NEW p \in Procs, ~Private(p),
           UNCHANGED <<conns, db, tunnel>>,
           \A q \in Procs \ {p} : pc'[q] = pc[q] /\ held'[q] = held[q],
           NEW h \in Pools, ~Orphaned(h)
    PROVE  ~Orphaned(h)'
  BY DEF Orphaned, Private

LEMMA OrphanStep ==
    ASSUME TypeOK, TypeOK', MapInv, DbClosedFirst, [Next]_vars,
           NEW h \in Pools, ~Orphaned(h), Orphaned(h)'
    PROVE  OverwriteOf(h)
<1> USE Sentinels DEF TypeOK
<1>1. CASE UNCHANGED vars
  BY <1>1 DEF vars, poolVars, callVars, Orphaned, Private
<1>2. ASSUME NEW p \in Procs, Call(p) PROVE OverwriteOf(h)
  BY <1>2, NoOrphanFrame DEF Call, CallConnect, CallSession, Goto, poolVars,
         Private
<1>3. ASSUME NEW p \in Procs, Step(p) PROVE OverwriteOf(h)
  <2> USE DEF Goto, Return, poolVars
  <2>0. \A q \in Procs \ {p} : pc'[q] = pc[q] /\ held'[q] = held[q]
    BY <1>3 DEF Step, OpenFails, Open, PingFails, Register, DetachNotFound,
         Detach, CloseDb, CloseTunnel, ReconnectNotFound, ReconnectLookup,
         Remap, Probe, GetDB, GetDBNotFound, Run, AfterDisconnect
  <2>1. CASE \/ OpenFails(p) \/ ReconnectNotFound(p) \/ ReconnectLookup(p)
             \/ Probe(p) \/ GetDB(p) \/ GetDBNotFound(p) \/ Run(p)
             \/ DetachNotFound(p)
    BY <2>0, <2>1, NoOrphanFrame DEF OpenFails, ReconnectNotFound,
         ReconnectLookup, Probe, GetDB, GetDBNotFound, Run, DetachNotFound,
         Private
  <2>2. CASE Open(p)
    BY <2>0, <2>2 DEF Open, Orphaned, Private
  <2>3. CASE PingFails(p)
    BY <2>0, <2>3 DEF PingFails, ShutTunnel, Orphaned, Private
  <2>4. CASE Register(p)
    <3> DEFINE g == held[p]
               k == RuntimeId(p, g)
    <3>1. g \in Pools /\ k \in Ids /\ pc[p] = "ping"
      BY <2>4, RuntimeIdType DEF Register
    <3>2. conns' = [conns EXCEPT ![k] = g] /\ UNCHANGED <<db, tunnel>>
      BY <2>4 DEF Register
    <3> HIDE DEF k
    <3>3. CASE \E id \in Ids : conns[id] = h
      BY <3>1, <3>2, <3>3 DEF Orphaned, OverwriteOf
    <3>4. CASE \A id \in Ids : conns[id] # h
      BY <2>0, <3>1, <3>2, <3>4 DEF Orphaned, Private
    <3> QED BY <3>3, <3>4
  <2>5. CASE Detach(p)
    BY <2>0, <2>5 DEF Detach, Orphaned, Private
  <2>6. CASE CloseDb(p)
    BY <2>0, <2>6 DEF CloseDb, Orphaned, Private
  <2>7. CASE CloseTunnel(p)
    BY <2>0, <2>7 DEF CloseTunnel, ShutTunnel, Orphaned, Private, DbClosedFirst
  <2>8. CASE Remap(p)
    <3> DEFINE new == held[p]
               e   == conns[new]
    <3>1. /\ pc[p] = "remap" /\ UNCHANGED <<db, tunnel>>
          /\ new \in Ids /\ target[p] \in Ids
      BY <2>8 DEF Remap, Holding
    <3>2. CASE e = NoPool
      BY <2>0, <2>8, <3>1, <3>2, NoOrphanFrame DEF Remap, Private
    <3>3. CASE e # NoPool
      <4>1. conns' = [conns EXCEPT ![new] = NoPool, ![target[p]] = e]
        BY <2>8, <3>3 DEF Remap
      <4>2. CASE \E id \in Ids : conns[id] = h
        BY <3>1, <3>3, <4>1, <4>2 DEF Orphaned, OverwriteOf
      <4>3. CASE \A id \in Ids : conns[id] # h
        BY <2>0, <3>1, <4>3 DEF Orphaned, Private
      <4> QED BY <4>2, <4>3
    <3> QED BY <3>2, <3>3
  <2> QED BY <1>3, <2>1, <2>2, <2>3, <2>4, <2>5, <2>6, <2>7, <2>8 DEF Step
<1> QED BY <1>1, <1>2, <1>3 DEF Next

(* The only step that leaves an open pool or tunnel nobody can close is an *)
(* insert over an entry that is still in the map.                          *)
THEOREM LeakOnlyByOverwrite == Spec => OnlyOverwriteLeaks
<1>1. Init => MapInv /\ DbClosedFirst
  BY MapInvInit DEF Init, DbClosedFirst
<1>2. TypeOK /\ TypeOK' /\ (MapInv /\ DbClosedFirst) /\ [Next]_vars
        => (MapInv /\ DbClosedFirst)'
  BY MapInvStep, DbClosedFirstStep
<1>3. TypeOK /\ TypeOK' /\ MapInv /\ DbClosedFirst /\ [Next]_vars
        => \A h \in Pools : ~Orphaned(h) /\ Orphaned(h)' =>
              \E id \in Ids : conns[id] = h /\ conns'[id] \notin {h, NoPool}
  BY OrphanStep DEF OverwriteOf
<1> QED BY <1>1, <1>2, <1>3, TypeCorrect, PTL DEF Spec, OnlyOverwriteLeaks

-----------------------------------------------------------------------------
(* TableEdit, for any number of connections, rows, columns, values, saves    *)
(* and acts: the shape of its state (EditTyped), which row each edit goes to *)
(* (SentInv), and what the grid shows (ShownInv).                            *)

\* A set with one row for each key.
Keyed(S) == \A r, q \in S : r.pk = q.pk => r = q

(* A function on part of D is one whose domain and values are where they   *)
(* should be.                                                              *)
LEMMA SomeDef ==
  ASSUME NEW D, NEW V, NEW f
  PROVE  f \in Some(D, V) <=> /\ f = [x \in DOMAIN f |-> f[x]]
                              /\ DOMAIN f \subseteq D
                              /\ \A x \in DOMAIN f : f[x] \in V
<1>1. ASSUME f \in Some(D, V)
      PROVE  /\ f = [x \in DOMAIN f |-> f[x]] /\ DOMAIN f \subseteq D
             /\ \A x \in DOMAIN f : f[x] \in V
  <2>1. PICK S \in SUBSET D : f \in [S -> V]
    BY <1>1 DEF Some
  <2> QED BY <2>1
<1>2. ASSUME f = [x \in DOMAIN f |-> f[x]], DOMAIN f \subseteq D, \A x \in DOMAIN f : f[x] \in V
      PROVE  f \in Some(D, V)
  <2>1. f \in [DOMAIN f -> V]
    BY <1>2
  <2> QED BY <1>2, <2>1 DEF Some
<1> QED BY <1>1, <1>2

(* The empty function, a restriction, an update and an overlay of such     *)
(* functions are such functions.                                           *)
LEMMA SomeEmpty ==
  ASSUME NEW D, NEW V
  PROVE  <<>> \in Some(D, V) /\ DOMAIN <<>> = {}
<1>1. <<>> \in [{} -> V] /\ DOMAIN <<>> = {}
  OBVIOUS
<1> QED BY <1>1 DEF Some

LEMMA EmptyFunction ==
  ASSUME NEW D, NEW V, NEW f \in Some(D, V), DOMAIN f = {}
  PROVE  f = <<>>
<1>1. f = [x \in DOMAIN f |-> f[x]]
  BY SomeDef
<1> QED BY <1>1

LEMMA SomeRestrict ==
  ASSUME NEW D, NEW V, NEW f \in Some(D, V), NEW S \in SUBSET DOMAIN f
  PROVE  /\ Restrict(f, S) \in Some(D, V) /\ DOMAIN Restrict(f, S) = S
         /\ \A x \in S : Restrict(f, S)[x] = f[x]
<1>1. Restrict(f, S) = [x \in S |-> f[x]]
  BY DEF Restrict
<1>2. DOMAIN f \subseteq D /\ \A x \in DOMAIN f : f[x] \in V
  BY SomeDef
<1>3. [x \in S |-> f[x]] \in [S -> V] /\ S \in SUBSET D
  BY <1>2
<1>4. [x \in S |-> f[x]] \in Some(D, V)
  BY <1>3 DEF Some
<1> QED BY <1>1, <1>4

LEMMA SomePut ==
  ASSUME NEW D, NEW V, NEW f \in Some(D, V), NEW x \in D, NEW v \in V
  PROVE  /\ Put(f, x, v) \in Some(D, V) /\ DOMAIN Put(f, x, v) = DOMAIN f \cup {x}
         /\ Put(f, x, v)[x] = v /\ \A y \in DOMAIN f : y # x => Put(f, x, v)[y] = f[y]
<1> DEFINE S == DOMAIN f \cup {x}
           g == [y \in S |-> IF y = x THEN v ELSE f[y]]
<1>1. Put(f, x, v) = g
  BY DEF Put
<1>2. DOMAIN f \subseteq D /\ \A y \in DOMAIN f : f[y] \in V
  BY SomeDef
<1>3. g \in [S -> V] /\ S \in SUBSET D
  BY <1>2
<1>4. g \in Some(D, V)
  BY <1>3 DEF Some
<1> QED BY <1>1, <1>4

LEMMA SomeGrows ==
  ASSUME NEW D, NEW V, NEW f \in Some(D, V), NEW E, DOMAIN f \subseteq E
  PROVE  f \in Some(E, V)
BY SomeDef

(* Rows with one number each have each their own place in the order.       *)
LEMMA RowsBelowAreFinite ==
  ASSUME NEW S, Keyed(S), \A r \in S : r.pk \in Nat, NEW k \in Nat
  PROVE  IsFiniteSet({r \in S : r.pk <= k})
<1> DEFINE B == {r \in S : r.pk <= k}
           f == [r \in B |-> r.pk]
<1>1. f \in Injection(B, 0..k)
  BY DEF Keyed, Injection, IsInjective
<1> QED BY <1>1, FS_Injection, FS_Interval

LEMMA RankIsANumber ==
  ASSUME NEW S, Keyed(S), \A r \in S : r.pk \in Nat, NEW k \in Nat
  PROVE  Rank(S, k) \in Nat
BY RowsBelowAreFinite, FS_CardinalityType DEF Rank

LEMMA RankTellsRowsApart ==
  ASSUME NEW S, Keyed(S), \A r \in S : r.pk \in Nat, NEW r \in S, NEW q \in S,
         Rank(S, r.pk) = Rank(S, q.pk)
  PROVE  r = q
<1> DEFINE B(k) == {x \in S : x.pk <= k}
<1>1. ASSUME NEW x \in S, NEW y \in S, Rank(S, x.pk) = Rank(S, y.pk), x.pk < y.pk
      PROVE  FALSE
  <2>1. B(x.pk) \in SUBSET B(y.pk) /\ y \in B(y.pk) /\ y \notin B(x.pk)
    BY <1>1
  <2>2. IsFiniteSet(B(y.pk)) /\ Cardinality(B(x.pk)) = Cardinality(B(y.pk))
    BY <1>1, RowsBelowAreFinite DEF Rank
  <2> HIDE DEF B
  <2> QED BY <2>1, <2>2, FS_Subset
<1>2. r.pk = q.pk
  BY <1>1
<1> QED BY <1>2 DEF Keyed

LEMMA OneAtEachRank ==
  ASSUME NEW S, Keyed(S), \A r \in S : r.pk \in Nat
  PROVE  /\ \A r \in S : AtRank(S, Rank(S, r.pk)) = {r}
         /\ \A n : \A r, q \in AtRank(S, n) : r = q
BY RankTellsRowsApart DEF AtRank

\* The arrays, tables, edits and calls there can be while fewer than g arrays were made.
Arrays(g) == [of : Conns, pk : Pks, gen : 0..(g - 1), vals : Row]
SaveCalls(g) == [ref : Arrays(g), todo : Some(Cols, Typing), ok : Some(Cols, Vals),
                 conn : Conns, early : BOOLEAN, rest : SUBSET Arrays(g)]
DeleteCalls(g) == [todo : SUBSET Arrays(g), done : SUBSET Arrays(g), conn : Conns, early : BOOLEAN]
FormCalls(g) == [ref : Arrays(g), pos : Nat, draft : Draft, conn : Conns,
                 early : BOOLEAN, sent : BOOLEAN]
Reads == [stage : {"none", "sent", "read"}, rows : Tables, since : SUBSET Pks]

\* What each part of the state may be.
ServerTyped == server \in [Conns -> [Pks -> Row \cup {Gone}]]
CacheTyped ==
    /\ cache \in [Conns -> {None} \cup SUBSET Arrays(gen)]
    /\ \A c \in Conns : cache[c] # None => Keyed(cache[c]) /\ \A r \in cache[c] : r.of = c
FetchTyped == fetch \in [Conns -> Reads]
CountsTyped == at \in Conns /\ from \in Conns \cup {None} /\ gen \in Nat /\ acts \in 0..MaxActs
RowsTyped == rows \subseteq Arrays(gen) /\ Keyed(rows)
PendingTyped == pending \in Some(rows, Some(Cols, Typing) \ {<<>>})
DraftTyped == draft = None \/ draft \in Draft
EditorTyped == edit = None \/ edit \in [pos : Nat, col : Cols, pk : Pks]
SavesTyped == saves \in [Slots -> {None} \cup SaveCalls(gen)]
DelTyped == del = None \/ del \in DeleteCalls(gen)
InsTyped == ins = None \/ ins \in InsertCall
FormTyped == form = None \/ form \in FormCalls(gen)
HistoryTyped == /\ written \in [Conns -> SUBSET Pks] /\ off \in SUBSET Pks
                /\ shifted \in BOOLEAN /\ twin \in BOOLEAN /\ crossed \in BOOLEAN
EditTyped == /\ ServerTyped /\ CacheTyped /\ FetchTyped /\ CountsTyped
             /\ RowsTyped /\ PendingTyped /\ EditorTyped /\ DraftTyped
             /\ SavesTyped /\ DelTyped /\ InsTyped /\ FormTyped /\ HistoryTyped

(* What was an array or a call stays one when more arrays are made.        *)
LEMMA ArraysGrow ==
  ASSUME NEW g \in Nat, NEW h \in Nat, g <= h
  PROVE  /\ Arrays(g) \subseteq Arrays(h) /\ SaveCalls(g) \subseteq SaveCalls(h)
         /\ DeleteCalls(g) \subseteq DeleteCalls(h) /\ FormCalls(g) \subseteq FormCalls(h)
<1>1. Arrays(g) \subseteq Arrays(h)
  BY DEF Arrays
<1> QED BY <1>1 DEF SaveCalls, DeleteCalls, FormCalls

(* The parts a step leaves alone keep their shape.                         *)
LEMMA EditFrame ==
  ASSUME EditTyped, gen' \in Nat, gen <= gen'
  PROVE  /\ UNCHANGED server => ServerTyped'
         /\ UNCHANGED cache => CacheTyped'
         /\ UNCHANGED fetch => FetchTyped'
         /\ UNCHANGED rows => RowsTyped'
         /\ UNCHANGED <<rows, pending>> => PendingTyped'
         /\ UNCHANGED edit => EditorTyped'
         /\ UNCHANGED draft => DraftTyped'
         /\ UNCHANGED saves => SavesTyped'
         /\ UNCHANGED del => DelTyped'
         /\ UNCHANGED ins => InsTyped'
         /\ UNCHANGED form => FormTyped'
<1> USE DEF EditTyped
<1>0. gen \in Nat
  BY DEF CountsTyped
<1>1. /\ Arrays(gen) \subseteq Arrays(gen') /\ SaveCalls(gen) \subseteq SaveCalls(gen')
      /\ DeleteCalls(gen) \subseteq DeleteCalls(gen') /\ FormCalls(gen) \subseteq FormCalls(gen')
  BY <1>0, ArraysGrow
<1>2. UNCHANGED server => ServerTyped'
  BY DEF ServerTyped
<1>3. UNCHANGED cache => CacheTyped'
  BY <1>1 DEF CacheTyped
<1>4. UNCHANGED fetch => FetchTyped'
  BY DEF FetchTyped
<1>5. UNCHANGED rows => RowsTyped'
  BY <1>1 DEF RowsTyped
<1>6. UNCHANGED <<rows, pending>> => PendingTyped'
  BY DEF PendingTyped
<1>7. (UNCHANGED edit => EditorTyped') /\ (UNCHANGED draft => DraftTyped')
  BY DEF EditorTyped, DraftTyped
<1>8. UNCHANGED saves => SavesTyped'
  BY <1>1 DEF SavesTyped
<1>9. (UNCHANGED del => DelTyped') /\ (UNCHANGED form => FormTyped')
  BY <1>1 DEF DelTyped, FormTyped
<1>10. UNCHANGED ins => InsTyped'
  BY DEF InsTyped
<1> QED BY <1>2, <1>3, <1>4, <1>5, <1>6, <1>7, <1>8, <1>9, <1>10

(* Rows of the grid have numbers as keys, so each has its own place.       *)
LEMMA GridRanks ==
  ASSUME EditTyped
  PROVE  /\ \A r \in rows : AtRank(rows, Rank(rows, r.pk)) = {r} /\ Rank(rows, r.pk) \in Nat
         /\ \A n : \A r, q \in AtRank(rows, n) : r = q
<1>1. Keyed(rows) /\ \A r \in rows : r.pk \in Nat
  BY PksAreOrdered DEF EditTyped, RowsTyped, Arrays
<1> QED BY <1>1, OneAtEachRank, RankIsANumber

(* The rows made of a table, and those shared with the rows before, are    *)
(* one for each key, and say what the table says.                          *)
LEMMA RefsOfATable ==
  ASSUME NEW c \in Conns, NEW table \in Tables, NEW g \in Nat
  PROVE  /\ Refs(c, table, g) \subseteq Arrays(g + 1) /\ Keyed(Refs(c, table, g))
         /\ \A r \in Refs(c, table, g) : /\ r.of = c /\ r.gen = g
                                         /\ r.pk \in DOMAIN table /\ r.vals = table[r.pk]
<1>1. DOMAIN table \subseteq Pks /\ \A k \in DOMAIN table : table[k] \in Row
  BY SomeDef DEF Tables
<1> QED BY <1>1 DEF Refs, Arrays, Keyed

LEMMA ShareKeepsContent ==
  ASSUME NEW old, NEW new, Keyed(new)
  PROVE  /\ \A x \in Share(old, new) : x \in old \/ x \in new
         /\ \A x \in Share(old, new) : \E r \in new : x.pk = r.pk /\ x.vals = r.vals
         /\ \A r \in new : \E x \in Share(old, new) : x.pk = r.pk /\ x.vals = r.vals
         /\ Keyed(Share(old, new))
<1> DEFINE same(r) == {o \in old : o.pk = r.pk /\ o.vals = r.vals /\ Rank(old, o.pk) = Rank(new, r.pk)}
           pick(r) == IF same(r) = {} THEN r ELSE CHOOSE o \in same(r) : TRUE
<1>1. Share(old, new) = {pick(r) : r \in new}
  BY DEF Share
<1>2. ASSUME NEW r \in new
      PROVE  (pick(r) \in old \/ pick(r) = r) /\ pick(r).pk = r.pk /\ pick(r).vals = r.vals
  <2>1. CASE same(r) = {}
    BY <2>1
  <2>2. CASE same(r) # {}
    <3>1. pick(r) = CHOOSE o \in same(r) : TRUE
      BY <2>2
    <3>2. pick(r) \in same(r)
      BY <2>2, <3>1
    <3> QED BY <3>2
  <2> QED BY <2>1, <2>2
<1> HIDE DEF pick
<1>3. Keyed(Share(old, new))
  BY <1>1, <1>2 DEF Keyed
<1> QED BY <1>1, <1>2, <1>3

(* What a SELECT returns of a table.                                       *)
LEMMA PresentIsATable ==
  ASSUME ServerTyped, NEW c \in Conns
  PROVE  /\ Present(server[c]) \in Tables
         /\ DOMAIN Present(server[c]) = {k \in Pks : server[c][k] # Gone}
         /\ \A k \in DOMAIN Present(server[c]) : Present(server[c])[k] = server[c][k]
<1> DEFINE S == {k \in Pks : server[c][k] # Gone}
           f == [k \in S |-> server[c][k]]
<1>1. Present(server[c]) = f
  BY DEF Present, Restrict, ServerTyped
<1>2. f \in [S -> Row] /\ S \in SUBSET Pks
  BY DEF ServerTyped
<1>3. f \in Tables
  BY <1>2 DEF Tables, Some
<1> QED BY <1>1, <1>3

LEMMA UnansweredAreKeys ==
  ASSUME EditTyped
  PROVE  Unanswered \subseteq Pks
<1>1. del # None => {r.pk : r \in del.done} \subseteq Pks
  BY DEF EditTyped, DelTyped, DeleteCalls, Arrays
<1>2. form # None => form.ref.pk \in Pks
  BY DEF EditTyped, FormTyped, FormCalls, Arrays
<1>3. \A s \in Slots : saves[s] # None => saves[s].ref.pk \in Pks
  BY DEF EditTyped, SavesTyped, SaveCalls, Arrays
<1> QED BY <1>1, <1>2, <1>3 DEF Unanswered

LEMMA EditTypedInit == EditInit => EditTyped
<1> SUFFICES ASSUME EditInit PROVE EditTyped
  OBVIOUS
<1> USE DEF EditInit
<1>1. ServerTyped
  BY RowsOfTheTable DEF ServerTyped, Row
<1>2. <<>> \in Tables /\ Idle \in Reads
  BY SomeEmpty DEF Tables, Idle, Reads
<1>3. FetchTyped
  BY <1>2 DEF FetchTyped
<1>4. CacheTyped /\ CountsTyped /\ RowsTyped
  BY BoundsAreNumbers DEF CacheTyped, CountsTyped, RowsTyped, Keyed
<1>5. PendingTyped
  BY SomeEmpty DEF PendingTyped
<1>6. EditorTyped /\ DraftTyped /\ SavesTyped /\ DelTyped /\ InsTyped /\ FormTyped /\ HistoryTyped
  BY DEF EditorTyped, DraftTyped, SavesTyped, DelTyped, InsTyped, FormTyped, HistoryTyped
<1> QED BY <1>1, <1>3, <1>4, <1>5, <1>6 DEF EditTyped

(* What is typed in the form stays typed, and as it was, or is dropped.    *)
LEMMA DrawTyped ==
  ASSUME EditTyped, NEW new, NEW n, draft # None => n \in Nat, Draw(new, n)
  PROVE  DraftTyped' /\ twin' \in BOOLEAN
<1>1. DraftTyped /\ twin \in BOOLEAN
  BY DEF EditTyped, HistoryTyped
<1>2. twin' \in BOOLEAN
  BY <1>1 DEF Draw
<1>3. draft' = None \/ (draft # None /\ draft' = [draft EXCEPT !.pos = n])
  BY DEF Draw
<1>4. DraftTyped'
  BY <1>1, <1>3 DEF DraftTyped, Draft
<1> QED BY <1>2, <1>4

(* What the two effects over the rows leave in the grid.                   *)
LEMMA ResetTyped ==
  ASSUME EditTyped, NEW new, new \subseteq Arrays(gen'), Keyed(new), Reset(new)
  PROVE  RowsTyped' /\ PendingTyped' /\ EditorTyped' /\ DraftTyped' /\ twin' \in BOOLEAN
<1>1. RowsTyped' /\ PendingTyped' /\ EditorTyped'
  BY SomeEmpty DEF Reset, RowsTyped, PendingTyped, EditorTyped
<1>2. draft # None => draft.pos \in Nat
  BY DEF EditTyped, DraftTyped, Draft
<1> QED BY <1>1, <1>2, DrawTyped DEF Reset

LEMMA SetLocalRowsTyped ==
  ASSUME EditTyped, NEW new, new \subseteq Arrays(gen'), Keyed(new), SetLocalRows(new)
  PROVE  RowsTyped' /\ PendingTyped' /\ EditorTyped' /\ DraftTyped' /\ {shifted', twin'} \subseteq BOOLEAN
<1>1. RowsTyped' /\ EditorTyped' /\ shifted' \in BOOLEAN
  BY DEF SetLocalRows, RowsTyped, EditorTyped, EditTyped, HistoryTyped
<1>2. pending \in Some(rows, Some(Cols, Typing) \ {<<>>})
  BY DEF EditTyped, PendingTyped
<1> DEFINE S == DOMAIN pending \cap new
<1>3. Restrict(pending, S) \in Some(rows, Some(Cols, Typing) \ {<<>>}) /\ DOMAIN Restrict(pending, S) = S
  BY <1>2, SomeRestrict
<1>4. Restrict(pending, S) \in Some(new, Some(Cols, Typing) \ {<<>>})
  BY <1>3, SomeGrows
<1>5. PendingTyped'
  BY <1>4 DEF SetLocalRows, PendingTyped
<1>6. draft # None => draft.pos \in Nat
  BY DEF EditTyped, DraftTyped, Draft
<1>7. DraftTyped' /\ twin' \in BOOLEAN
  BY <1>6, DrawTyped DEF SetLocalRows
<1> QED BY <1>1, <1>5, <1>7

(* A write that a read under way missed.                                   *)
LEMMA MissedTyped ==
  ASSUME EditTyped, NEW c \in Conns, NEW k \in Pks, Missed(c, k)
  PROVE  FetchTyped' /\ written' \in [Conns -> SUBSET Pks]
<1>1. fetch \in [Conns -> Reads] /\ written \in [Conns -> SUBSET Pks]
  BY DEF EditTyped, FetchTyped, HistoryTyped
<1>2. [fetch[c] EXCEPT !.since = IF fetch[c].stage = "read" THEN @ \cup {k} ELSE @] \in Reads
  BY <1>1 DEF Reads
<1>3. fetch' = [fetch EXCEPT ![c] = [fetch[c] EXCEPT !.since = IF fetch[c].stage = "read" THEN @ \cup {k} ELSE @]]
  BY <1>1 DEF Missed
<1> QED BY <1>1, <1>2, <1>3 DEF Missed, FetchTyped

LEMMA WrittenTyped ==
  ASSUME EditTyped, NEW c \in Conns, NEW k \in Pks, Written(c, k)
  PROVE  FetchTyped' /\ InsTyped' /\ written' \in [Conns -> SUBSET Pks]
<1>1. FetchTyped' /\ written' \in [Conns -> SUBSET Pks]
  BY MissedTyped DEF Written
<1>2. InsTyped'
  BY DEF Written, EditTyped, InsTyped, InsertCall
<1> QED BY <1>1, <1>2

\* A row with one cell written.
With(row, col, v) == [row EXCEPT ![col] = v]

(* What the server may make of a row is a row, and what was typed one of   *)
(* them.                                                                   *)
LEMMA MadeTyped ==
  ASSUME ServerTyped, NEW c \in Conns, NEW k \in Pks, NEW col \in Cols, NEW v \in Vals,
         NEW made \in Changes(c, k, col, v)
  PROVE  /\ server[c][k] \in Row /\ made \in Row /\ server[c][k] # Gone
         /\ Typed(c, k, col, v) = With(server[c][k], col, v)
<1>1. server[c][k] # Gone /\ (made = Typed(c, k, col, v) \/ made \in Remakes)
  BY DEF Changes
<1>2. server[c][k] \in Row
  BY <1>1 DEF ServerTyped
<1>3. Typed(c, k, col, v) \in Row
  BY <1>2 DEF Typed, Row
<1>4. Remakes \subseteq Row
  BY RowsOfTheTable DEF Row
<1> QED BY <1>1, <1>2, <1>3, <1>4 DEF Typed, With

LEMMA RowTyped ==
  ASSUME ServerTyped, NEW c \in Conns, NEW k \in Pks, NEW w \in Row \cup {Gone},
         server' = [server EXCEPT ![c][k] = w]
  PROVE  /\ ServerTyped' /\ server'[c][k] = w
         /\ \A d \in Conns : \A j \in Pks : d # c \/ j # k => server'[d][j] = server[d][j]
BY DEF ServerTyped

-----------------------------------------------------------------------------
(* Each step keeps the shapes.  Those that read.                           *)

LEMMA SelectTableTyped == EditTyped /\ SelectTable => EditTyped'
<1> SUFFICES ASSUME EditTyped, SelectTable PROVE EditTyped'
  OBVIOUS
<1> USE DEF EditTyped
<1>0. gen' = gen /\ gen \in Nat /\ gen <= gen'
  BY DEF SelectTable, CountsTyped
<1>1. PICK c \in Conns \ {at} :
         /\ at' = c
         /\ IF cache[c] = None
            THEN /\ fetch' = [fetch EXCEPT ![c] = IF @ = Idle THEN [@ EXCEPT !.stage = "sent"] ELSE @]
                 /\ UNCHANGED <<from, grid, off, twin>>
            ELSE /\ fetch' = fetch /\ from' = c
                 /\ IF from = c THEN UNCHANGED <<grid, off, twin>>
                    ELSE Reset(cache[c]) /\ off' = written[c]
  BY DEF SelectTable
<1>2. CountsTyped'
  BY <1>1, BoundsAreNumbers DEF SelectTable, Act, CountsTyped
<1>3. FetchTyped'
  <2>1. fetch[c] \in Reads
    BY DEF FetchTyped
  <2>2. (IF fetch[c] = Idle THEN [fetch[c] EXCEPT !.stage = "sent"] ELSE fetch[c]) \in Reads
    BY <2>1 DEF Reads
  <2> QED BY <1>1, <2>2 DEF FetchTyped
<1>4. RowsTyped' /\ PendingTyped' /\ EditorTyped' /\ DraftTyped' /\ twin' \in BOOLEAN
  <2>1. CASE UNCHANGED <<grid, twin>>
    BY <1>0, <2>1, EditFrame DEF grid, HistoryTyped
  <2>2. CASE ~UNCHANGED <<grid, twin>>
    <3>1. cache[c] # None /\ Reset(cache[c])
      BY <1>1, <2>2
    <3>2. cache[c] \subseteq Arrays(gen') /\ Keyed(cache[c])
      BY <1>0, <3>1 DEF CacheTyped
    <3> QED BY <3>1, <3>2, ResetTyped
  <2> QED BY <2>1, <2>2
<1>5. HistoryTyped'
  BY <1>1, <1>4 DEF SelectTable, HistoryTyped
<1> QED BY <1>0, <1>2, <1>3, <1>4, <1>5, EditFrame DEF SelectTable

LEMMA RefreshTyped == EditTyped /\ Refresh => EditTyped'
<1> SUFFICES ASSUME EditTyped, Refresh PROVE EditTyped'
  OBVIOUS
<1> USE DEF EditTyped
<1>0. gen' = gen /\ gen \in Nat /\ gen <= gen'
  BY DEF Refresh, CountsTyped
<1>1. CountsTyped' /\ HistoryTyped'
  BY BoundsAreNumbers DEF Refresh, Act, CountsTyped, HistoryTyped, history
<1>2. [Idle EXCEPT !.stage = "sent"] \in Reads
  BY SomeEmpty DEF Idle, Reads, Tables
<1>3. FetchTyped'
  BY <1>2 DEF Refresh, FetchTyped
<1> QED BY <1>0, <1>1, <1>3, EditFrame DEF Refresh, grid

LEMMA ReadTyped ==
  ASSUME EditTyped, NEW c \in Conns, Read(c)
  PROVE  EditTyped'
<1> USE DEF EditTyped
<1>0. gen' = gen /\ gen \in Nat /\ gen <= gen'
  BY DEF Read, CountsTyped
<1>1. CountsTyped' /\ HistoryTyped'
  BY DEF Read, CountsTyped, HistoryTyped, history
<1>2. [stage |-> "read", rows |-> Present(server[c]), since |-> Unanswered] \in Reads
  BY PresentIsATable, UnansweredAreKeys DEF Reads
<1>3. FetchTyped'
  BY <1>2 DEF Read, FetchTyped
<1> QED BY <1>0, <1>1, <1>3, EditFrame DEF Read, grid

\* The rows an answer brings.
Brought(c) == Share(IF cache[c] = None THEN {} ELSE cache[c], Refs(c, fetch[c].rows, gen))

LEMMA BroughtRows ==
  ASSUME EditTyped, NEW c \in Conns
  PROVE  /\ Brought(c) \subseteq Arrays(gen + 1) /\ Keyed(Brought(c))
         /\ \A r \in Brought(c) : r.of = c
         /\ \A r \in Brought(c) : r.pk \in DOMAIN fetch[c].rows /\ r.vals = fetch[c].rows[r.pk]
         /\ \A k \in DOMAIN fetch[c].rows : \E r \in Brought(c) : r.pk = k
<1> USE DEF EditTyped
<1> DEFINE old == IF cache[c] = None THEN {} ELSE cache[c]
           new == Refs(c, fetch[c].rows, gen)
<1>0. gen \in Nat /\ gen + 1 \in Nat /\ gen <= gen + 1
  BY DEF CountsTyped
<1>1. old \subseteq Arrays(gen + 1) /\ \A r \in old : r.of = c
  <2>1. Arrays(gen) \subseteq Arrays(gen + 1)
    BY <1>0, ArraysGrow
  <2> QED BY <2>1 DEF CacheTyped
<1>2. fetch[c].rows \in Tables
  BY DEF FetchTyped, Reads
<1>3. /\ new \subseteq Arrays(gen + 1) /\ Keyed(new)
      /\ \A r \in new : r.of = c /\ r.pk \in DOMAIN fetch[c].rows /\ r.vals = fetch[c].rows[r.pk]
  BY <1>0, <1>2, RefsOfATable
<1>4. ASSUME NEW k \in DOMAIN fetch[c].rows
      PROVE  \E r \in new : r.pk = k
  <2> DEFINE r == [of |-> c, pk |-> k, gen |-> gen, vals |-> fetch[c].rows[k]]
  <2>1. r \in new /\ r.pk = k
    BY DEF Refs
  <2> QED BY <2>1
<1> HIDE DEF old, new
<1>5. /\ \A x \in Share(old, new) : x \in old \/ x \in new
      /\ \A x \in Share(old, new) : \E r \in new : x.pk = r.pk /\ x.vals = r.vals
      /\ \A r \in new : \E x \in Share(old, new) : x.pk = r.pk /\ x.vals = r.vals
      /\ Keyed(Share(old, new))
  BY <1>3, ShareKeepsContent
<1>6. Brought(c) = Share(old, new)
  BY DEF Brought, old, new
<1> HIDE DEF Brought
<1>7. Brought(c) \subseteq Arrays(gen + 1) /\ \A r \in Brought(c) : r.of = c
  BY <1>1, <1>3, <1>5, <1>6
<1>8. \A r \in Brought(c) : r.pk \in DOMAIN fetch[c].rows /\ r.vals = fetch[c].rows[r.pk]
  BY <1>3, <1>5, <1>6
<1>9. \A k \in DOMAIN fetch[c].rows : \E r \in Brought(c) : r.pk = k
  BY <1>4, <1>5, <1>6
<1> QED BY <1>5, <1>6, <1>7, <1>8, <1>9

LEMMA ArriveTyped ==
  ASSUME EditTyped, NEW c \in Conns, Arrive(c)
  PROVE  EditTyped'
<1> USE DEF EditTyped
<1>0. gen' = gen + 1 /\ gen \in Nat /\ gen' \in Nat /\ gen <= gen'
  BY DEF Arrive, CountsTyped
<1>1. Brought(c) \subseteq Arrays(gen') /\ Keyed(Brought(c)) /\ \A r \in Brought(c) : r.of = c
  BY <1>0, BroughtRows
<1>2. /\ cache' = [cache EXCEPT ![c] = Brought(c)]
      /\ IF at = c THEN Reset(Brought(c)) /\ from' = c /\ off' = fetch[c].since
         ELSE UNCHANGED <<grid, from, off, twin>>
  BY DEF Arrive, Brought
<1> HIDE DEF Brought
<1>3. CacheTyped'
  <2>1. Arrays(gen) \subseteq Arrays(gen')
    BY <1>0, ArraysGrow
  <2> QED BY <1>1, <1>2, <2>1 DEF CacheTyped
<1>4. RowsTyped' /\ PendingTyped' /\ EditorTyped' /\ DraftTyped' /\ twin' \in BOOLEAN
  <2>1. CASE at = c
    BY <1>1, <1>2, <2>1, ResetTyped
  <2>2. CASE at # c
    BY <1>0, <1>2, <2>2, EditFrame DEF grid, HistoryTyped
  <2> QED BY <2>1, <2>2
<1>5. CountsTyped'
  BY <1>0, <1>2 DEF Arrive, CountsTyped, grid
<1>6. fetch[c].since \subseteq Pks /\ Idle \in Reads
  BY SomeEmpty DEF FetchTyped, Reads, Idle, Tables
<1>7. FetchTyped'
  BY <1>6 DEF Arrive, FetchTyped
<1>8. HistoryTyped'
  BY <1>2, <1>4, <1>6 DEF Arrive, HistoryTyped
<1> QED BY <1>0, <1>3, <1>4, <1>5, <1>7, <1>8, EditFrame DEF Arrive

-----------------------------------------------------------------------------
(* Those that edit.                                                        *)

LEMMA QueueTyped ==
  ASSUME EditTyped, NEW r \in rows, NEW edits \in Some(Cols, Typing)
  PROVE  /\ Queue(r, edits) \in Some(rows, Some(Cols, Typing) \ {<<>>})
         /\ \A q \in DOMAIN Queue(r, edits) :
               \/ q = r /\ Queue(r, edits)[q] = edits
               \/ q \in DOMAIN pending /\ Queue(r, edits)[q] = pending[q]
<1>1. pending \in Some(rows, Some(Cols, Typing) \ {<<>>})
  BY DEF EditTyped, PendingTyped
<1>2. CASE edits = <<>>
  <2> DEFINE S == DOMAIN pending \ {r}
  <2>1. Queue(r, edits) = Restrict(pending, S) /\ S \in SUBSET DOMAIN pending
    BY <1>2 DEF Queue
  <2> QED BY <1>1, <2>1, SomeRestrict
<1>3. CASE edits # <<>>
  <2>1. Queue(r, edits) = Put(pending, r, edits)
    BY <1>3 DEF Queue
  <2> DEFINE V == Some(Cols, Typing) \ {<<>>}
  <2>2. edits \in V /\ pending \in Some(rows, V)
    BY <1>1, <1>3
  <2> HIDE DEF V
  <2>3. /\ Put(pending, r, edits) \in Some(rows, V)
        /\ DOMAIN Put(pending, r, edits) = DOMAIN pending \cup {r}
        /\ Put(pending, r, edits)[r] = edits
        /\ \A y \in DOMAIN pending : y # r => Put(pending, r, edits)[y] = pending[y]
    BY <2>2, SomePut
  <2> QED BY <2>1, <2>3 DEF V
<1> QED BY <1>2, <1>3

LEMMA EditsTyped ==
  ASSUME EditTyped, NEW r \in rows
  PROVE  Edits(r) \in Some(Cols, Typing)
<1>1. pending \in Some(rows, Some(Cols, Typing) \ {<<>>})
  BY DEF EditTyped, PendingTyped
<1>2. r \in DOMAIN pending => pending[r] \in Some(Cols, Typing)
  BY <1>1, SomeDef
<1>3. <<>> \in Some(Cols, Typing)
  BY SomeEmpty
<1> QED BY <1>2, <1>3 DEF Edits

LEMMA EnqueueTyped ==
  ASSUME EditTyped, NEW r \in rows, NEW col \in Cols, NEW v \in Vals, NEW pk \in Pks,
         Enqueue(r, col, v, pk)
  PROVE  /\ pending' \in Some(rows, Some(Cols, Typing) \ {<<>>})
         /\ \A q \in DOMAIN pending' :
               \/ q \in DOMAIN pending /\ pending'[q] = pending[q]
               \/ q = r /\ \A k \in DOMAIN pending'[q] :
                              \/ pending'[q][k].pk = pk
                              \/ /\ r \in DOMAIN pending /\ k \in DOMAIN pending[r]
                                 /\ pending'[q][k] = pending[r][k]
<1> DEFINE now == IF v = r.vals[col] THEN Restrict(Edits(r), DOMAIN Edits(r) \ {col})
                  ELSE Put(Edits(r), col, [val |-> v, pk |-> pk])
<1>1. pending' = Queue(r, now)
  BY DEF Enqueue
<1>2. Edits(r) \in Some(Cols, Typing)
  BY EditsTyped
<1>3. /\ now \in Some(Cols, Typing)
      /\ \A k \in DOMAIN now : \/ now[k].pk = pk
                               \/ k \in DOMAIN Edits(r) /\ now[k] = Edits(r)[k]
  <2>1. CASE v = r.vals[col]
    <3> DEFINE S == DOMAIN Edits(r) \ {col}
    <3>1. now = Restrict(Edits(r), S) /\ S \in SUBSET DOMAIN Edits(r)
      BY <2>1
    <3> QED BY <1>2, <3>1, SomeRestrict
  <2>2. CASE v # r.vals[col]
    <3> DEFINE t == [val |-> v, pk |-> pk]
    <3>1. now = Put(Edits(r), col, t) /\ t \in Typing /\ t.pk = pk
      BY <2>2 DEF Typing
    <3> HIDE DEF now, t
    <3>2. /\ now \in Some(Cols, Typing) /\ DOMAIN now = DOMAIN Edits(r) \cup {col}
          /\ now[col] = t /\ \A y \in DOMAIN Edits(r) : y # col => now[y] = Edits(r)[y]
      BY <1>2, <3>1, SomePut
    <3> QED BY <3>1, <3>2
  <2> QED BY <2>1, <2>2
<1>4. \A k \in DOMAIN Edits(r) : r \in DOMAIN pending /\ Edits(r) = pending[r]
  <2>1. DOMAIN <<>> = {}
    BY SomeEmpty
  <2> QED BY <2>1 DEF Edits
<1> HIDE DEF now
<1>5. /\ Queue(r, now) \in Some(rows, Some(Cols, Typing) \ {<<>>})
      /\ \A q \in DOMAIN Queue(r, now) :
            \/ q = r /\ Queue(r, now)[q] = now
            \/ q \in DOMAIN pending /\ Queue(r, now)[q] = pending[q]
  BY <1>3, QueueTyped
<1> QED BY <1>1, <1>3, <1>4, <1>5

LEMMA FillCellTyped ==
  ASSUME EditTyped, NEW r \in rows, NEW col \in Cols, NEW v \in Vals, FillCell(r, col, v)
  PROVE  EditTyped'
<1> USE DEF EditTyped
<1>0. gen' = gen /\ gen \in Nat /\ gen <= gen'
  BY DEF FillCell, CountsTyped
<1>1. CountsTyped' /\ HistoryTyped'
  BY BoundsAreNumbers DEF FillCell, InGrid, Act, CountsTyped, HistoryTyped, history
<1>2. r.pk \in Pks /\ Enqueue(r, col, v, r.pk)
  BY DEF FillCell, RowsTyped, Arrays
<1>3. PendingTyped'
  BY <1>2, EnqueueTyped DEF FillCell, PendingTyped
<1> QED BY <1>0, <1>1, <1>3, EditFrame DEF FillCell

LEMMA StartEditTyped ==
  ASSUME EditTyped, NEW r \in rows, NEW col \in Cols, StartEdit(r, col)
  PROVE  EditTyped'
<1> USE DEF EditTyped
<1>0. gen' = gen /\ gen \in Nat /\ gen <= gen'
  BY DEF StartEdit, CountsTyped
<1>1. CountsTyped' /\ HistoryTyped'
  BY BoundsAreNumbers DEF StartEdit, InGrid, Act, CountsTyped, HistoryTyped, history
<1>2. Rank(rows, r.pk) \in Nat /\ r.pk \in Pks
  BY GridRanks DEF RowsTyped, Arrays
<1>3. EditorTyped'
  BY <1>2 DEF StartEdit, EditorTyped
<1> QED BY <1>0, <1>1, <1>3, EditFrame DEF StartEdit

LEMMA CancelEditTyped == EditTyped /\ CancelEdit => EditTyped'
<1> SUFFICES ASSUME EditTyped, CancelEdit PROVE EditTyped'
  OBVIOUS
<1> USE DEF EditTyped
<1>0. gen' = gen /\ gen \in Nat /\ gen <= gen'
  BY DEF CancelEdit, CountsTyped
<1>1. CountsTyped' /\ HistoryTyped' /\ EditorTyped'
  BY DEF CancelEdit, CountsTyped, HistoryTyped, history, EditorTyped
<1> QED BY <1>0, <1>1, EditFrame DEF CancelEdit

LEMMA ConfirmEditTyped ==
  ASSUME EditTyped, NEW v \in Vals, ConfirmEdit(v)
  PROVE  EditTyped'
<1> USE DEF EditTyped
<1>0. gen' = gen /\ gen \in Nat /\ gen <= gen'
  BY DEF ConfirmEdit, CountsTyped
<1>1. CountsTyped' /\ HistoryTyped' /\ EditorTyped'
  BY DEF ConfirmEdit, CountsTyped, HistoryTyped, history, EditorTyped
<1>2. edit.col \in Cols /\ edit.pk \in Pks
  BY DEF ConfirmEdit, EditorTyped
<1>3. PendingTyped'
  <2>1. CASE pending' = pending
    BY <1>0, <2>1, EditFrame DEF ConfirmEdit
  <2>2. CASE pending' # pending
    <3>1. PICK r \in AtRank(rows, edit.pos) : Enqueue(r, edit.col, v, edit.pk)
      BY <2>2 DEF ConfirmEdit
    <3>2. r \in rows
      BY <3>1 DEF AtRank
    <3> QED BY <1>2, <3>1, <3>2, EnqueueTyped DEF ConfirmEdit, PendingTyped
  <2> QED BY <2>1, <2>2
<1> QED BY <1>0, <1>1, <1>3, EditFrame DEF ConfirmEdit

LEMMA DiscardRowTyped ==
  ASSUME EditTyped, NEW r \in rows, DiscardRow(r)
  PROVE  EditTyped'
<1> USE DEF EditTyped
<1>0. gen' = gen /\ gen \in Nat /\ gen <= gen'
  BY DEF DiscardRow, CountsTyped
<1>1. CountsTyped' /\ HistoryTyped'
  BY BoundsAreNumbers DEF DiscardRow, InGrid, Act, CountsTyped, HistoryTyped, history
<1>2. PendingTyped'
  <2>1. <<>> \in Some(Cols, Typing)
    BY SomeEmpty
  <2> QED BY <2>1, QueueTyped DEF DiscardRow, PendingTyped
<1> QED BY <1>0, <1>1, <1>2, EditFrame DEF DiscardRow

LEMMA DiscardAllTyped == EditTyped /\ DiscardAll => EditTyped'
<1> SUFFICES ASSUME EditTyped, DiscardAll PROVE EditTyped'
  OBVIOUS
<1> USE DEF EditTyped
<1>0. gen' = gen /\ gen \in Nat /\ gen <= gen'
  BY DEF DiscardAll, CountsTyped
<1>1. CountsTyped' /\ HistoryTyped'
  BY BoundsAreNumbers DEF DiscardAll, Act, CountsTyped, HistoryTyped, history
<1>2. PendingTyped'
  BY SomeEmpty DEF DiscardAll, PendingTyped
<1> QED BY <1>0, <1>1, <1>2, EditFrame DEF DiscardAll

-----------------------------------------------------------------------------
(* Those that save.                                                        *)

LEMMA SaveTyped ==
  ASSUME NEW g, NEW r \in Arrays(g), NEW edits \in Some(Cols, Typing), NEW c \in Conns,
         NEW early \in BOOLEAN, NEW rest \in SUBSET Arrays(g)
  PROVE  Save(r, edits, c, early, rest) \in SaveCalls(g)
<1>1. <<>> \in Some(Cols, Vals)
  BY SomeEmpty
<1> QED BY <1>1 DEF Save, SaveCalls

\* The unsaved cells of a row.
LEMMA UnsavedOfARow ==
  ASSUME EditTyped
  PROVE  \A r \in DOMAIN pending : r \in rows /\ r \in Arrays(gen) /\ pending[r] \in Some(Cols, Typing)
<1>1. DOMAIN pending \subseteq rows /\ \A r \in DOMAIN pending : pending[r] \in Some(Cols, Typing) \ {<<>>}
  BY SomeDef DEF EditTyped, PendingTyped
<1> QED BY <1>1 DEF EditTyped, RowsTyped

LEMMA BeginTyped ==
  ASSUME EditTyped, NEW r \in DOMAIN pending, NEW rest \in SUBSET DOMAIN pending, Begin(r, rest), gen' = gen
  PROVE  SavesTyped'
<1>1. PICK s \in Slots : saves' = [saves EXCEPT ![s] = Save(r, pending[r], at, Loading, rest)]
  BY DEF Begin
<1>2. rest \in SUBSET Arrays(gen) /\ at \in Conns /\ Loading \in BOOLEAN
  BY UnsavedOfARow DEF EditTyped, CountsTyped, Loading
<1>3. Save(r, pending[r], at, Loading, rest) \in SaveCalls(gen)
  BY <1>2, UnsavedOfARow, SaveTyped
<1> QED BY <1>1, <1>3 DEF EditTyped, SavesTyped

LEMMA CommitRowTyped ==
  ASSUME EditTyped, NEW r \in rows, CommitRow(r)
  PROVE  EditTyped'
<1> USE DEF EditTyped
<1>0. gen' = gen /\ gen \in Nat /\ gen <= gen'
  BY DEF CommitRow, CountsTyped
<1>1. CountsTyped' /\ HistoryTyped'
  BY BoundsAreNumbers DEF CommitRow, InGrid, Act, CountsTyped, HistoryTyped, history
<1>2. SavesTyped'
  BY <1>0, BeginTyped DEF CommitRow
<1> QED BY <1>0, <1>1, <1>2, EditFrame DEF CommitRow, grid

LEMMA CommitAllTyped == EditTyped /\ CommitAll => EditTyped'
<1> SUFFICES ASSUME EditTyped, CommitAll PROVE EditTyped'
  OBVIOUS
<1> USE DEF EditTyped
<1>0. gen' = gen /\ gen \in Nat /\ gen <= gen'
  BY DEF CommitAll, CountsTyped
<1>1. CountsTyped' /\ HistoryTyped'
  BY BoundsAreNumbers DEF CommitAll, Act, CountsTyped, HistoryTyped, history
<1>2. SavesTyped'
  BY <1>0, BeginTyped DEF CommitAll
<1> QED BY <1>0, <1>1, <1>2, EditFrame DEF CommitAll, grid

\* The parts of a call that saves.
LEMMA SaveCallParts ==
  ASSUME SavesTyped, NEW s \in Slots, saves[s] # None
  PROVE  /\ saves[s] \in SaveCalls(gen)
         /\ saves[s].ref \in Arrays(gen) /\ saves[s].ref.pk \in Pks /\ saves[s].ref.of \in Conns
         /\ saves[s].ref.vals \in Row /\ saves[s].conn \in Conns
         /\ saves[s].todo \in Some(Cols, Typing) /\ saves[s].ok \in Some(Cols, Vals)
         /\ \A col \in DOMAIN saves[s].todo :
               col \in Cols /\ saves[s].todo[col] \in Typing /\ saves[s].todo[col].val \in Vals
<1>1. saves[s] \in SaveCalls(gen)
  BY DEF SavesTyped
<1>2. saves[s].todo \in Some(Cols, Typing) /\ saves[s].ok \in Some(Cols, Vals) /\ saves[s].conn \in Conns
      /\ saves[s].ref \in Arrays(gen)
  BY <1>1 DEF SaveCalls
<1>3. \A col \in DOMAIN saves[s].todo : col \in Cols /\ saves[s].todo[col] \in Typing
  BY <1>2, SomeDef
<1> QED BY <1>1, <1>2, <1>3 DEF Arrays, Typing

\* A call after one of its columns is through, with or without it among those to be shown.
Left(s, col) == [saves[s] EXCEPT !.todo = Restrict(@, DOMAIN @ \ {col})]
LeftOk(s, col) == [Left(s, col) EXCEPT !.ok = Put(@, col, saves[s].todo[col].val)]

LEMMA LeftTyped ==
  ASSUME SavesTyped, NEW s \in Slots, saves[s] # None, NEW col \in DOMAIN saves[s].todo
  PROVE  /\ Left(s, col) \in SaveCalls(gen) /\ LeftOk(s, col) \in SaveCalls(gen)
         /\ DOMAIN Left(s, col).todo = DOMAIN saves[s].todo \ {col}
         /\ \A k \in DOMAIN Left(s, col).todo : Left(s, col).todo[k] = saves[s].todo[k]
         /\ Left(s, col).ok = saves[s].ok
         /\ Left(s, col).ref = saves[s].ref /\ Left(s, col).conn = saves[s].conn
         /\ Left(s, col).early = saves[s].early /\ Left(s, col).rest = saves[s].rest
         /\ LeftOk(s, col).todo = Left(s, col).todo
         /\ LeftOk(s, col).ok = Put(saves[s].ok, col, saves[s].todo[col].val)
         /\ LeftOk(s, col).ref = saves[s].ref /\ LeftOk(s, col).conn = saves[s].conn
         /\ LeftOk(s, col).early = saves[s].early /\ LeftOk(s, col).rest = saves[s].rest
<1> DEFINE S == DOMAIN saves[s].todo \ {col}
           todo == Restrict(saves[s].todo, S)
           ok == Put(saves[s].ok, col, saves[s].todo[col].val)
<1>1. saves[s] \in SaveCalls(gen) /\ saves[s].todo \in Some(Cols, Typing) /\ saves[s].ok \in Some(Cols, Vals)
      /\ col \in Cols /\ saves[s].todo[col].val \in Vals
  BY SaveCallParts
<1>2. todo \in Some(Cols, Typing) /\ DOMAIN todo = S /\ \A k \in S : todo[k] = saves[s].todo[k]
  BY <1>1, SomeRestrict
<1>3. ok \in Some(Cols, Vals)
  BY <1>1, SomePut
<1>4. Left(s, col) = [saves[s] EXCEPT !.todo = todo]
  BY <1>1 DEF Left, SaveCalls
<1>5. LeftOk(s, col) = [saves[s] EXCEPT !.todo = todo, !.ok = ok]
  BY <1>1, <1>4 DEF LeftOk, SaveCalls
<1> HIDE DEF todo, ok
<1> QED BY <1>1, <1>2, <1>3, <1>4, <1>5 DEF SaveCalls, ok

\* The column is written, and its answer comes or is lost, or it is refused.
ColumnWritten(s, col, c, k, v) ==
    \E made \in Changes(c, k, col, v) :
        /\ server' = [server EXCEPT ![c][k] = made] /\ Written(c, k)
        /\ \/ /\ saves' = [saves EXCEPT ![s] = LeftOk(s, col)]
              /\ off' = off \cup Remade(c, k, col, v, made)
           \/ saves' = [saves EXCEPT ![s] = Left(s, col)] /\ off' = off \cup {k}
ColumnRefused(s, col) ==
    saves' = [saves EXCEPT ![s] = Left(s, col)] /\ UNCHANGED <<server, fetch, written, ins, off>>

\* What a step of Update does, named.
LEMMA UpdateCases ==
  ASSUME EditTyped, NEW s \in Slots, Update(s)
  PROVE  /\ saves[s] # None
         /\ UNCHANGED <<cache, at, from, grid, gen, del, form, acts, shifted, twin, crossed>>
         /\ \E col \in DOMAIN saves[s].todo :
              ColumnWritten(s, col, saves[s].conn, saves[s].ref.pk, saves[s].todo[col].val) \/ ColumnRefused(s, col)
BY DEF Update, Left, LeftOk, ColumnWritten, ColumnRefused

LEMMA UpdateTyped ==
  ASSUME EditTyped, NEW s \in Slots, Update(s)
  PROVE  EditTyped'
<1> USE DEF EditTyped
<1>0. gen' = gen /\ gen \in Nat /\ gen <= gen'
  BY DEF Update, CountsTyped
<1>1. saves[s] # None
  BY DEF Update
<1>2. PICK col \in DOMAIN saves[s].todo :
         ColumnWritten(s, col, saves[s].conn, saves[s].ref.pk, saves[s].todo[col].val) \/ ColumnRefused(s, col)
  BY UpdateCases
<1>3. saves[s].ref.pk \in Pks /\ saves[s].conn \in Conns /\ col \in Cols /\ saves[s].todo[col].val \in Vals
  BY <1>1, SaveCallParts
<1>4. Left(s, col) \in SaveCalls(gen) /\ LeftOk(s, col) \in SaveCalls(gen)
  BY <1>1, LeftTyped
<1>5. SavesTyped'
  BY <1>0, <1>2, <1>4 DEF SavesTyped, ColumnWritten, ColumnRefused
<1>6. ServerTyped' /\ FetchTyped' /\ InsTyped' /\ HistoryTyped'
  <2>1. PICK c \in Conns, k \in Pks, v \in Vals :
           c = saves[s].conn /\ k = saves[s].ref.pk /\ v = saves[s].todo[col].val
    BY <1>3
  <2>2. CASE ColumnWritten(s, col, c, k, v)
    <3>1. PICK made \in Changes(c, k, col, v) :
             /\ server' = [server EXCEPT ![c][k] = made] /\ Written(c, k)
             /\ off' = off \cup Remade(c, k, col, v, made) \/ off' = off \cup {k}
      BY <2>2 DEF ColumnWritten
    <3>2. FetchTyped' /\ InsTyped' /\ written' \in [Conns -> SUBSET Pks]
      BY <3>1, WrittenTyped
    <3>3. ServerTyped'
      BY <1>3, <3>1, MadeTyped, RowTyped
    <3>4. off' \in SUBSET Pks
      BY <3>1 DEF Remade, HistoryTyped
    <3> QED BY <3>2, <3>3, <3>4 DEF Update, HistoryTyped
  <2>3. CASE ColumnRefused(s, col)
    BY <1>0, <2>3, EditFrame DEF Update, HistoryTyped, ColumnRefused
  <2> QED BY <1>2, <2>1, <2>2, <2>3
<1>7. CountsTyped'
  BY DEF Update, CountsTyped
<1> QED BY <1>0, <1>5, <1>6, <1>7, EditFrame DEF Update, grid

\* The array that takes the saved columns in.
Merged(save) == [save.ref EXCEPT !.vals = Over(save.ok, @), !.gen = gen]

LEMMA MergedTyped ==
  ASSUME EditTyped, NEW s \in Slots, saves[s] # None
  PROVE  /\ Merged(saves[s]) \in Arrays(gen + 1) /\ Merged(saves[s]).gen = gen
         /\ Merged(saves[s]).pk = saves[s].ref.pk /\ Merged(saves[s]).of = saves[s].ref.of
         /\ Merged(saves[s]).vals = Over(saves[s].ok, saves[s].ref.vals)
<1>0. gen \in Nat
  BY DEF EditTyped, CountsTyped
<1>1. saves[s].ref \in Arrays(gen) /\ saves[s].ref.vals \in Row /\ saves[s].ok \in Some(Cols, Vals)
  BY SaveCallParts DEF EditTyped
<1>2. \A k \in DOMAIN saves[s].ok : saves[s].ok[k] \in Vals
  BY <1>1, SomeDef
<1> DEFINE ref == saves[s].ref
           v == Over(saves[s].ok, ref.vals)
<1>3. v \in Row
  BY <1>1, <1>2 DEF Over, Row
<1>4. Merged(saves[s]) = [ref EXCEPT !.vals = v, !.gen = gen]
  BY DEF Merged
<1>5. ref \in [of : Conns, pk : Pks, gen : 0..(gen - 1), vals : Row]
  BY <1>1 DEF Arrays
<1>6. gen \in 0..((gen + 1) - 1)
  BY <1>0
<1> HIDE DEF ref, v
<1>7. [ref EXCEPT !.vals = v, !.gen = gen] \in [of : Conns, pk : Pks, gen : 0..((gen + 1) - 1), vals : Row]
  BY <1>3, <1>5, <1>6
<1>8. /\ [ref EXCEPT !.vals = v, !.gen = gen].gen = gen /\ [ref EXCEPT !.vals = v, !.gen = gen].pk = ref.pk
      /\ [ref EXCEPT !.vals = v, !.gen = gen].of = ref.of /\ [ref EXCEPT !.vals = v, !.gen = gen].vals = v
  BY <1>5
<1> QED BY <1>4, <1>7, <1>8 DEF Arrays, ref, v

LEMMA NextOfQueueTyped ==
  ASSUME NEW g, NEW save \in SaveCalls(g), NEW S, NEW queue \in Some(S, Some(Cols, Typing) \ {<<>>}),
         NEW c \in Conns, NEW next \in After(save, queue, c)
  PROVE  next \in {None} \cup SaveCalls(g)
<1>1. \A r \in DOMAIN queue : queue[r] \in Some(Cols, Typing)
  BY SomeDef
<1>2. save.rest \in SUBSET Arrays(g) /\ save.early \in BOOLEAN
  BY DEF SaveCalls
<1>3. CASE save.rest \cap DOMAIN queue = {}
  BY <1>3 DEF After
<1>4. CASE save.rest \cap DOMAIN queue # {}
  <2>1. PICK r \in save.rest \cap DOMAIN queue : next = Save(r, queue[r], c, save.early, save.rest \ {r})
    BY <1>4 DEF After
  <2>2. r \in Arrays(g) /\ queue[r] \in Some(Cols, Typing) /\ save.rest \ {r} \in SUBSET Arrays(g)
    BY <1>1, <1>2
  <2> QED BY <1>2, <2>1, <2>2, SaveTyped
<1> QED BY <1>3, <1>4

\* What a step of Finish does, named.
LEMMA FinishCases ==
  ASSUME NEW s \in Slots, Finish(s)
  PROVE  /\ saves[s] # None /\ saves[s].todo = <<>>
         /\ UNCHANGED <<server, cache, fetch, at, from, del, ins, form, acts, written, crossed>>
         /\ IF saves[s].ok # <<>> /\ saves[s].ref \in rows
            THEN SetLocalRows((rows \ {saves[s].ref}) \cup {Merged(saves[s])}) /\ gen' = gen + 1
            ELSE UNCHANGED <<grid, gen, shifted, twin>>
         /\ off' = IF saves[s].ok # <<>> /\ Astray(saves[s].ref, saves[s].conn)
                   THEN off \cup {saves[s].ref.pk} ELSE off
         /\ \E next \in After(saves[s], pending', saves[s].conn) : saves' = [saves EXCEPT ![s] = next]
BY DEF Finish, Saved, Merged

LEMMA FinishTyped ==
  ASSUME EditTyped, NEW s \in Slots, Finish(s)
  PROVE  EditTyped'
<1> USE DEF EditTyped
<1> DEFINE new == (rows \ {saves[s].ref}) \cup {Merged(saves[s])}
<1>1. /\ saves[s] # None
      /\ IF saves[s].ok # <<>> /\ saves[s].ref \in rows THEN SetLocalRows(new) /\ gen' = gen + 1
         ELSE UNCHANGED <<grid, gen, shifted, twin>>
      /\ UNCHANGED <<server, cache, fetch, at, from, del, ins, form, acts, written, crossed>>
  BY FinishCases
<1>2. gen \in Nat /\ gen' \in Nat /\ gen <= gen'
  BY <1>1 DEF CountsTyped
<1>3. saves[s] \in SaveCalls(gen) /\ saves[s].ref.pk \in Pks /\ saves[s].conn \in Conns
  BY <1>1, SaveCallParts
<1>4. RowsTyped' /\ PendingTyped' /\ EditorTyped' /\ DraftTyped' /\ {shifted', twin'} \subseteq BOOLEAN
  <2>1. CASE UNCHANGED <<grid, gen, shifted, twin>>
    BY <1>2, <2>1, EditFrame DEF grid, HistoryTyped
  <2>2. CASE saves[s].ref \in rows /\ SetLocalRows(new) /\ gen' = gen + 1
    <3>1. Merged(saves[s]) \in Arrays(gen') /\ Merged(saves[s]).pk = saves[s].ref.pk
      BY <1>1, <2>2, MergedTyped
    <3>2. Arrays(gen) \subseteq Arrays(gen')
      BY <1>2, ArraysGrow
    <3>3. new \subseteq Arrays(gen') /\ Keyed(new)
      BY <2>2, <3>1, <3>2 DEF RowsTyped, Keyed
    <3> QED BY <2>2, <3>3, SetLocalRowsTyped
  <2> QED BY <1>1, <2>1, <2>2
<1>5. SavesTyped'
  <2>1. PICK next \in After(saves[s], pending', saves[s].conn) : saves' = [saves EXCEPT ![s] = next]
    BY FinishCases
  <2>2. SaveCalls(gen) \subseteq SaveCalls(gen')
    BY <1>2, ArraysGrow
  <2>3. pending' \in Some(rows', Some(Cols, Typing) \ {<<>>})
    BY <1>4 DEF PendingTyped
  <2>4. next \in {None} \cup SaveCalls(gen)
    BY <1>3, <2>1, <2>3, NextOfQueueTyped
  <2> QED BY <2>1, <2>2, <2>4 DEF SavesTyped
<1>6. CountsTyped' /\ HistoryTyped'
  BY <1>1, <1>2, <1>3, <1>4, FinishCases DEF CountsTyped, HistoryTyped
<1> QED BY <1>1, <1>2, <1>4, <1>5, <1>6, EditFrame

-----------------------------------------------------------------------------
(* Those that delete and insert.                                           *)

LEMMA DeleteSelectedRowsTyped == EditTyped /\ DeleteSelectedRows => EditTyped'
<1> SUFFICES ASSUME EditTyped, DeleteSelectedRows PROVE EditTyped'
  OBVIOUS
<1> USE DEF EditTyped
<1>0. gen' = gen /\ gen \in Nat /\ gen <= gen'
  BY DEF DeleteSelectedRows, CountsTyped
<1>1. CountsTyped' /\ HistoryTyped'
  BY BoundsAreNumbers DEF DeleteSelectedRows, Act, CountsTyped, HistoryTyped, history
<1>2. PICK S \in SUBSET rows \ {{}} : del' = [todo |-> S, done |-> {}, conn |-> at, early |-> Loading]
  BY DEF DeleteSelectedRows
<1>3. S \in SUBSET Arrays(gen) /\ Loading \in BOOLEAN /\ at \in Conns
  BY DEF RowsTyped, Loading, CountsTyped
<1>4. DelTyped'
  BY <1>0, <1>2, <1>3 DEF DelTyped, DeleteCalls
<1> QED BY <1>0, <1>1, <1>4, EditFrame DEF DeleteSelectedRows, grid

LEMMA DeleteTyped == EditTyped /\ Delete => EditTyped'
<1> SUFFICES ASSUME EditTyped, Delete PROVE EditTyped'
  OBVIOUS
<1> USE DEF EditTyped
<1>0. gen' = gen /\ gen \in Nat /\ gen <= gen'
  BY DEF Delete, CountsTyped
<1>1. del # None /\ del \in DeleteCalls(gen)
  BY DEF Delete, DelTyped
<1>2. PICK r \in del.todo :
         /\ server' = [server EXCEPT ![del.conn][r.pk] = Gone]
         /\ Written(del.conn, r.pk)
         /\ del' = [del EXCEPT !.todo = @ \ {r}, !.done = @ \cup {r}]
  BY DEF Delete
<1>3. r \in Arrays(gen) /\ r.pk \in Pks /\ del.conn \in Conns
  BY <1>1 DEF DeleteCalls, Arrays
<1>4. ServerTyped'
  BY <1>2, <1>3, RowTyped
<1>5. FetchTyped' /\ InsTyped' /\ written' \in [Conns -> SUBSET Pks]
  BY <1>2, <1>3, WrittenTyped
<1>6. DelTyped'
  BY <1>0, <1>1, <1>2, <1>3 DEF DelTyped, DeleteCalls
<1>7. HistoryTyped' /\ CountsTyped'
  BY <1>5 DEF Delete, HistoryTyped, CountsTyped
<1> QED BY <1>0, <1>4, <1>5, <1>6, <1>7, EditFrame DEF Delete, grid

\* The keys of rows that were deleted.
LEMMA DoneAreKeys ==
  ASSUME EditTyped, del # None
  PROVE  /\ del.conn \in Conns /\ del.done \subseteq Arrays(gen) /\ del.todo \subseteq Arrays(gen)
         /\ \A r \in del.done \cup del.todo : r.pk \in Pks /\ r.of \in Conns
         /\ {r.pk : r \in del.done} \subseteq Pks
BY DEF EditTyped, DelTyped, DeleteCalls, Arrays

LEMMA DeleteFailsTyped == EditTyped /\ DeleteFails => EditTyped'
<1> SUFFICES ASSUME EditTyped, DeleteFails PROVE EditTyped'
  OBVIOUS
<1> USE DEF EditTyped
<1>0. gen' = gen /\ gen \in Nat /\ gen <= gen'
  BY DEF DeleteFails, CountsTyped
<1>1. {r.pk : r \in del.done} \subseteq Pks
  BY DoneAreKeys DEF DeleteFails
<1>2. HistoryTyped' /\ CountsTyped' /\ DelTyped'
  BY <1>1 DEF DeleteFails, HistoryTyped, CountsTyped, DelTyped
<1> QED BY <1>0, <1>2, EditFrame DEF DeleteFails, grid

LEMMA DeletedTyped == EditTyped /\ Deleted => EditTyped'
<1> SUFFICES ASSUME EditTyped, Deleted PROVE EditTyped'
  OBVIOUS
<1> USE DEF EditTyped
<1>0. gen' = gen /\ gen \in Nat /\ gen <= gen'
  BY DEF Deleted, CountsTyped
<1>1. {r.pk : r \in {q \in del.done : Astray(q, del.conn)}} \subseteq Pks
  BY DoneAreKeys DEF Deleted
<1>2. rows \ del.done \subseteq Arrays(gen') /\ Keyed(rows \ del.done)
  BY <1>0 DEF RowsTyped, Keyed
<1>3. RowsTyped' /\ PendingTyped' /\ EditorTyped' /\ DraftTyped' /\ {shifted', twin'} \subseteq BOOLEAN
  BY <1>2, SetLocalRowsTyped DEF Deleted
<1>4. HistoryTyped' /\ CountsTyped' /\ DelTyped'
  BY <1>1, <1>3 DEF Deleted, HistoryTyped, CountsTyped, DelTyped
<1> QED BY <1>0, <1>3, <1>4, EditFrame DEF Deleted

LEMMA ConfirmInsertTyped == EditTyped /\ ConfirmInsert => EditTyped'
<1> SUFFICES ASSUME EditTyped, ConfirmInsert PROVE EditTyped'
  OBVIOUS
<1> USE DEF EditTyped
<1>0. gen' = gen /\ gen \in Nat /\ gen <= gen'
  BY DEF ConfirmInsert, CountsTyped
<1>1. CountsTyped' /\ HistoryTyped'
  BY BoundsAreNumbers DEF ConfirmInsert, InGrid, Act, CountsTyped, HistoryTyped, history
<1>2. <<>> \in Tables /\ NewRows \subseteq Row /\ at \in Conns
  BY SomeEmpty, RowsOfTheTable DEF Tables, Row, CountsTyped
<1>3. InsTyped'
  BY <1>2 DEF ConfirmInsert, InsTyped, InsertCall
<1> QED BY <1>0, <1>1, <1>3, EditFrame DEF ConfirmInsert, grid

LEMMA InsertTyped == EditTyped /\ Insert => EditTyped'
<1> SUFFICES ASSUME EditTyped, Insert PROVE EditTyped'
  OBVIOUS
<1> USE DEF EditTyped
<1>0. gen' = gen /\ gen \in Nat /\ gen <= gen'
  BY DEF Insert, CountsTyped
<1>1. ins \in InsertCall /\ ins.conn \in Conns /\ ins.pk \in Pks /\ ins.row \in Row
  BY DEF Insert, InsTyped, InsertCall
<1>2. ServerTyped'
  BY <1>1, RowTyped DEF Insert
<1>3. FetchTyped' /\ written' \in [Conns -> SUBSET Pks]
  BY <1>1, MissedTyped DEF Insert
<1>4. InsTyped' /\ HistoryTyped' /\ CountsTyped'
  BY <1>1, <1>3 DEF Insert, InsTyped, InsertCall, HistoryTyped, CountsTyped
<1> QED BY <1>0, <1>2, <1>3, <1>4, EditFrame DEF Insert, grid

LEMMA InsertFailsTyped == EditTyped /\ InsertFails => EditTyped'
<1> SUFFICES ASSUME EditTyped, InsertFails PROVE EditTyped'
  OBVIOUS
<1> USE DEF EditTyped
<1>0. gen' = gen /\ gen \in Nat /\ gen <= gen'
  BY DEF InsertFails, CountsTyped
<1>1. ins.pk \in Pks
  BY DEF InsertFails, InsTyped, InsertCall
<1>2. InsTyped' /\ HistoryTyped' /\ CountsTyped'
  BY <1>1 DEF InsertFails, InsTyped, HistoryTyped, CountsTyped
<1> QED BY <1>0, <1>2, EditFrame DEF InsertFails, grid

LEMMA ReloadTyped == EditTyped /\ Reload => EditTyped'
<1> SUFFICES ASSUME EditTyped, Reload PROVE EditTyped'
  OBVIOUS
<1> USE DEF EditTyped
<1>0. gen' = gen /\ gen \in Nat /\ gen <= gen'
  BY DEF Reload, CountsTyped
<1>1. ins \in InsertCall /\ ins.conn \in Conns
  BY DEF Reload, InsTyped, InsertCall
<1>2. Present(server[ins.conn]) \in Tables /\ Unanswered \subseteq Pks
  BY <1>1, PresentIsATable, UnansweredAreKeys
<1>3. InsTyped'
  BY <1>1, <1>2 DEF Reload, InsTyped, InsertCall
<1>4. HistoryTyped' /\ CountsTyped'
  BY DEF Reload, HistoryTyped, CountsTyped, history
<1> QED BY <1>0, <1>3, <1>4, EditFrame DEF Reload, grid

LEMMA InsertedTyped == EditTyped /\ Inserted => EditTyped'
<1> SUFFICES ASSUME EditTyped, Inserted PROVE EditTyped'
  OBVIOUS
<1> USE DEF EditTyped
<1>0. gen' = gen + 1 /\ gen \in Nat /\ gen' \in Nat /\ gen <= gen'
  BY DEF Inserted, CountsTyped
<1>1. ins.conn \in Conns /\ ins.rows \in Tables /\ ins.since \subseteq Pks
  BY DEF Inserted, InsTyped, InsertCall
<1> DEFINE new == Refs(ins.conn, ins.rows, gen)
<1>2. new \subseteq Arrays(gen') /\ Keyed(new)
  BY <1>0, <1>1, RefsOfATable
<1>3. SetLocalRows(new)
  BY DEF Inserted
<1> HIDE DEF new
<1>4. RowsTyped' /\ PendingTyped' /\ EditorTyped' /\ DraftTyped' /\ {shifted', twin'} \subseteq BOOLEAN
  BY <1>2, <1>3, SetLocalRowsTyped
<1>5. HistoryTyped' /\ CountsTyped' /\ InsTyped'
  BY <1>0, <1>1, <1>4 DEF Inserted, HistoryTyped, CountsTyped, InsTyped
<1> QED BY <1>0, <1>4, <1>5, EditFrame DEF Inserted

-----------------------------------------------------------------------------
(* Those of the form view.                                                 *)

LEMMA FormRowIsARow ==
  ASSUME NEW S, NEW n
  PROVE  FormRow(S, n) \subseteq S
BY DEF FormRow, AtRank

LEMMA FormTypeTyped ==
  ASSUME EditTyped, NEW r \in rows, NEW col \in Cols, NEW v \in Vals, FormType(r, col, v)
  PROVE  EditTyped'
<1> USE DEF EditTyped
<1>0. gen' = gen /\ gen \in Nat /\ gen <= gen'
  BY DEF FormType, CountsTyped
<1>1. CountsTyped' /\ HistoryTyped'
  BY BoundsAreNumbers DEF FormType, Act, CountsTyped, HistoryTyped, history
<1>2. r.pk \in Pks /\ r.of \in Conns /\ r.vals[col] \in Vals
  BY DEF RowsTyped, Arrays, Row
<1>3. Rank(rows, r.pk) \in Nat /\ (draft # None => draft.pos \in Nat)
  BY GridRanks DEF DraftTyped, Draft
<1>4. DraftTyped'
  BY <1>2, <1>3 DEF FormType, DraftTyped, Draft
<1> QED BY <1>0, <1>1, <1>4, EditFrame DEF FormType

LEMMA LeaveFieldTyped == EditTyped /\ LeaveField => EditTyped'
<1> SUFFICES ASSUME EditTyped, LeaveField PROVE EditTyped'
  OBVIOUS
<1> USE DEF EditTyped
<1>0. gen' = gen /\ gen \in Nat /\ gen <= gen'
  BY DEF LeaveField, CountsTyped
<1>1. CountsTyped' /\ HistoryTyped' /\ DraftTyped'
  BY DEF LeaveField, CountsTyped, HistoryTyped, history, DraftTyped
<1> QED BY <1>0, <1>1, EditFrame DEF LeaveField

LEMMA HandleNavigateTyped == EditTyped /\ HandleNavigate => EditTyped'
<1> SUFFICES ASSUME EditTyped, HandleNavigate PROVE EditTyped'
  OBVIOUS
<1> USE DEF EditTyped
<1>0. gen' = gen /\ gen \in Nat /\ gen <= gen'
  BY DEF HandleNavigate, CountsTyped
<1>1. PICK r \in rows : Draw(rows, Rank(rows, r.pk))
  BY DEF HandleNavigate
<1>2. DraftTyped' /\ twin' \in BOOLEAN
  BY <1>1, GridRanks, DrawTyped
<1>3. CountsTyped' /\ HistoryTyped'
  BY <1>2, BoundsAreNumbers DEF HandleNavigate, Act, CountsTyped, HistoryTyped
<1> QED BY <1>0, <1>2, <1>3, EditFrame DEF HandleNavigate

LEMMA HandleCommitTyped == EditTyped /\ HandleCommit => EditTyped'
<1> SUFFICES ASSUME EditTyped, HandleCommit PROVE EditTyped'
  OBVIOUS
<1> USE DEF EditTyped
<1>0. gen' = gen /\ gen \in Nat /\ gen <= gen'
  BY DEF HandleCommit, CountsTyped
<1>1. CountsTyped' /\ HistoryTyped'
  BY BoundsAreNumbers DEF HandleCommit, Act, CountsTyped, HistoryTyped, history
<1>2. PICK r \in FormRow(rows, draft.pos) :
         form' = [ref |-> r, pos |-> Rank(rows, r.pk), draft |-> draft, conn |-> at,
                  early |-> Loading, sent |-> FALSE]
  BY DEF HandleCommit
<1>3. r \in rows /\ r \in Arrays(gen) /\ draft \in Draft
  BY FormRowIsARow DEF RowsTyped, HandleCommit, DraftTyped
<1>4. Rank(rows, r.pk) \in Nat /\ Loading \in BOOLEAN /\ at \in Conns
  BY <1>3, GridRanks DEF Loading, CountsTyped
<1>5. FormTyped'
  BY <1>0, <1>2, <1>3, <1>4 DEF FormTyped, FormCalls
<1> QED BY <1>0, <1>1, <1>5, EditFrame DEF HandleCommit, grid

\* The parts of a call of the form.
LEMMA FormCallParts ==
  ASSUME EditTyped, form # None
  PROVE  /\ form \in FormCalls(gen) /\ form.ref \in Arrays(gen)
         /\ form.ref.pk \in Pks /\ form.ref.of \in Conns /\ form.ref.vals \in Row
         /\ form.conn \in Conns /\ form.draft \in Draft /\ form.draft.col \in Cols
         /\ form.draft.val \in Vals /\ form.pos \in Nat
BY DEF EditTyped, FormTyped, FormCalls, Arrays, Draft

LEMMA FormUpdateTyped == EditTyped /\ FormUpdate => EditTyped'
<1> SUFFICES ASSUME EditTyped, FormUpdate PROVE EditTyped'
  OBVIOUS
<1> USE DEF EditTyped
<1>0. gen' = gen /\ gen \in Nat /\ gen <= gen'
  BY DEF FormUpdate, CountsTyped
<1>1. form # None /\ form \in FormCalls(gen) /\ form.ref.pk \in Pks /\ form.conn \in Conns
      /\ form.draft.col \in Cols /\ form.draft.val \in Vals
  BY FormCallParts DEF FormUpdate
<1>2. ServerTyped' /\ FetchTyped' /\ InsTyped' /\ written' \in [Conns -> SUBSET Pks]
  <2>1. CASE UNCHANGED <<server, fetch, written, ins>>
    BY <1>0, <2>1, EditFrame DEF HistoryTyped
  <2>2. CASE ~UNCHANGED <<server, fetch, written, ins>>
    <3>1. PICK c \in Conns, k \in Pks, col \in Cols, v \in Vals :
             c = form.conn /\ k = form.ref.pk /\ col = form.draft.col /\ v = form.draft.val
      BY <1>1
    <3>2. PICK made \in Changes(c, k, col, v) :
             server' = [server EXCEPT ![c][k] = made] /\ Written(c, k)
      BY <2>2, <3>1 DEF FormUpdate
    <3>3. ServerTyped'
      BY <3>2, MadeTyped, RowTyped
    <3>4. FetchTyped' /\ InsTyped' /\ written' \in [Conns -> SUBSET Pks]
      BY <3>2, WrittenTyped
    <3> QED BY <3>3, <3>4
  <2> QED BY <2>1, <2>2
<1>3. form' = None \/ form' = [form EXCEPT !.sent = TRUE]
  BY DEF FormUpdate
<1>4. FormTyped'
  BY <1>0, <1>1, <1>3 DEF FormTyped, FormCalls
<1>5. off' = off \/ off' = off \cup {form.ref.pk}
  BY DEF FormUpdate, Remade
<1>6. HistoryTyped' /\ CountsTyped'
  BY <1>1, <1>2, <1>5 DEF FormUpdate, HistoryTyped, CountsTyped
<1> QED BY <1>0, <1>2, <1>4, <1>6, EditFrame DEF FormUpdate, grid

(* The copy the form view makes of a row.                                  *)
LEMMA CopiedTyped ==
  ASSUME EditTyped, form # None, NEW r \in rows
  PROVE  /\ Copied(r) \in Arrays(gen + 1) /\ Copied(r).gen = gen
         /\ Copied(r).pk = r.pk /\ Copied(r).of = r.of
         /\ Copied(r).vals = IF Rank(rows, r.pk) = form.pos THEN [r.vals EXCEPT ![form.draft.col] = form.draft.val] ELSE r.vals
<1>0. gen \in Nat /\ gen \in 0..((gen + 1) - 1)
  BY DEF EditTyped, CountsTyped
<1>1. r \in [of : Conns, pk : Pks, gen : 0..(gen - 1), vals : Row] /\ r.vals \in Row
  BY DEF EditTyped, RowsTyped, Arrays
<1>2. form.draft.col \in Cols /\ form.draft.val \in Vals
  BY FormCallParts
<1> DEFINE v == [r.vals EXCEPT ![form.draft.col] = IF Rank(rows, r.pk) = form.pos THEN form.draft.val ELSE @]
<1>3. v \in Row
  BY <1>1, <1>2 DEF Row
<1>4. v = IF Rank(rows, r.pk) = form.pos THEN [r.vals EXCEPT ![form.draft.col] = form.draft.val] ELSE r.vals
  BY <1>1, <1>2 DEF Row
<1>5. Copied(r) = [r EXCEPT !.gen = gen, !.vals = v]
  BY <1>1 DEF Copied
<1> HIDE DEF v
<1>6. [r EXCEPT !.gen = gen, !.vals = v] \in [of : Conns, pk : Pks, gen : 0..((gen + 1) - 1), vals : Row]
  BY <1>0, <1>1, <1>3
<1>7. /\ [r EXCEPT !.gen = gen, !.vals = v].gen = gen /\ [r EXCEPT !.gen = gen, !.vals = v].pk = r.pk
      /\ [r EXCEPT !.gen = gen, !.vals = v].of = r.of /\ [r EXCEPT !.gen = gen, !.vals = v].vals = v
  BY <1>1
<1> QED BY <1>4, <1>5, <1>6, <1>7 DEF Arrays

LEMMA OnRowUpdateTyped == EditTyped /\ OnRowUpdate => EditTyped'
<1> SUFFICES ASSUME EditTyped, OnRowUpdate PROVE EditTyped'
  OBVIOUS
<1> USE DEF EditTyped
<1>0. gen' = gen + 1 /\ gen \in Nat /\ gen' \in Nat /\ gen <= gen'
  BY DEF OnRowUpdate, CountsTyped
<1>1. form # None /\ form.ref.pk \in Pks
  BY FormCallParts DEF OnRowUpdate
<1> DEFINE new == {Copied(r) : r \in rows}
<1>2. SetLocalRows(new)
  BY DEF OnRowUpdate
<1>3. new \subseteq Arrays(gen')
  BY <1>0, <1>1, CopiedTyped
<1>4. ASSUME NEW r \in rows, NEW q \in rows, Copied(r).pk = Copied(q).pk
      PROVE  Copied(r) = Copied(q)
  <2>1. Copied(r).pk = r.pk /\ Copied(q).pk = q.pk
    BY <1>1, CopiedTyped
  <2>2. r = q
    BY <1>4, <2>1 DEF RowsTyped, Keyed
  <2> QED BY <2>2
<1>5. Keyed(new)
  BY <1>4 DEF Keyed
<1> HIDE DEF new
<1>6. RowsTyped' /\ PendingTyped' /\ EditorTyped' /\ DraftTyped' /\ {shifted', twin'} \subseteq BOOLEAN
  BY <1>2, <1>3, <1>5, SetLocalRowsTyped
<1>7. {r.pk : r \in AtRank(rows, form.pos)} \subseteq Pks
  BY DEF AtRank, RowsTyped, Arrays
<1>8. off' \in SUBSET Pks
  BY <1>1, <1>7 DEF OnRowUpdate, HistoryTyped
<1>9. HistoryTyped' /\ CountsTyped' /\ FormTyped'
  BY <1>0, <1>6, <1>8 DEF OnRowUpdate, HistoryTyped, CountsTyped, FormTyped
<1> QED BY <1>0, <1>6, <1>9, EditFrame DEF OnRowUpdate

(* The steps one by one, for a row, the user and the calls.                *)
LEMMA EditTypedStep == EditTyped /\ [EditNext]_editVars => EditTyped'
<1> SUFFICES ASSUME EditTyped, [EditNext]_editVars PROVE EditTyped'
  OBVIOUS
<1>1. CASE \E r \in rows : OfRow(r)
  BY <1>1, StartEditTyped, FillCellTyped, FormTypeTyped, CommitRowTyped, DiscardRowTyped DEF OfRow
<1>2. CASE User /\ ~\E r \in rows : OfRow(r)
  BY <1>2, ConfirmEditTyped, CancelEditTyped, DiscardAllTyped, SelectTableTyped, RefreshTyped,
     LeaveFieldTyped, HandleNavigateTyped, HandleCommitTyped, CommitAllTyped, DeleteSelectedRowsTyped, ConfirmInsertTyped DEF User
<1>3. CASE Calls
  BY <1>3, UpdateTyped, FinishTyped, ReadTyped, ArriveTyped, DeleteTyped, DeleteFailsTyped, DeletedTyped,
     InsertTyped, InsertFailsTyped, ReloadTyped, InsertedTyped, FormUpdateTyped, OnRowUpdateTyped DEF Calls
<1>4. CASE UNCHANGED editVars
  BY <1>4 DEF editVars, grid, history, EditTyped, ServerTyped, CacheTyped, FetchTyped, CountsTyped, RowsTyped,
     PendingTyped, EditorTyped, DraftTyped, SavesTyped, DelTyped, InsTyped, FormTyped, HistoryTyped
<1> QED BY <1>1, <1>2, <1>3, <1>4 DEF EditNext

(* The invariant gives each array its place, and each cell its column.     *)
LEMMA EditTypedSuffices == EditTyped => EditTypeOK
<1> SUFFICES ASSUME EditTyped PROVE EditTypeOK
  OBVIOUS
<1> USE DEF EditTyped
<1>1. server \in [Conns -> [Pks -> Row \cup {Gone}]]
  BY DEF ServerTyped
<1>2. at \in Conns /\ from \in Conns \cup {None} /\ gen \in Nat /\ acts \in 0..MaxActs
  BY DEF CountsTyped
<1>3. Arrays(gen) \subseteq Array /\ \A r \in rows : r.gen < gen
  BY <1>2 DEF RowsTyped, Arrays, Array
<1>4. rows \subseteq Array /\ \A r \in rows : AtRank(rows, Rank(rows, r.pk)) = {r}
  BY <1>3, GridRanks DEF RowsTyped
<1>5. DOMAIN pending \subseteq rows /\ \A r \in DOMAIN pending : pending[r] # <<>>
  BY SomeDef DEF PendingTyped
<1>6. <<>> \notin Range(pending)
  BY <1>5 DEF Range
<1>7. /\ SaveCalls(gen) \subseteq SaveCall /\ DeleteCalls(gen) \subseteq DeleteCall
      /\ FormCalls(gen) \subseteq FormCall
  BY <1>3 DEF SaveCalls, SaveCall, DeleteCalls, DeleteCall, FormCalls, FormCall
<1>8. /\ saves \in [Slots -> {None} \cup SaveCall] /\ del \in {None} \cup DeleteCall
      /\ ins \in {None} \cup InsertCall /\ form \in {None} \cup FormCall /\ draft \in {None} \cup Draft
  BY <1>7 DEF SavesTyped, DelTyped, InsTyped, FormTyped, DraftTyped
<1>9. off \subseteq Pks /\ written \in [Conns -> SUBSET Pks]
  BY DEF HistoryTyped
<1> QED BY <1>1, <1>2, <1>3, <1>4, <1>5, <1>6, <1>8, <1>9 DEF EditTypeOK

(* Rows, caches, unsaved cells and calls keep their shape, for any number of *)
(* connections, keys, columns, values, saves and acts.  In particular each   *)
(* row of the grid has a place of its own, and unsaved cells belong to rows  *)
(* that are in it.                                                           *)
THEOREM EditTypes == EditSpec => []EditTypeOK
<1>1. EditInit => EditTyped
  BY EditTypedInit
<1>2. EditTyped /\ [EditNext]_editVars => EditTyped'
  BY EditTypedStep
<1>3. EditTyped => EditTypeOK
  BY EditTypedSuffices
<1> QED BY <1>1, <1>2, <1>3, PTL DEF EditSpec

-----------------------------------------------------------------------------
(* SentForItsRow.  The rows of the grid are those of `from', the editor is *)
(* over the row it was opened for, what is typed in the form is over the   *)
(* value it was typed over, and what is unsaved was typed for its row;     *)
(* calls take their rows from there.                                       *)

ForItsRow(call, r) == r.of = call.conn \/ call.early \/ crossed
RowsAreFroms == crossed \/ \A r \in rows : r.of = from
EditorOverItsRow == edit # None => shifted \/ \A r \in AtRank(rows, edit.pos) : r.pk = edit.pk
DraftForItsRow ==
    draft # None => \A r \in FormRow(rows, draft.pos) :
                       /\ r.vals[draft.col] = draft.was
                       /\ (draft.of = r.of /\ draft.pk = r.pk) \/ twin
QueuedForItsRow == shifted \/ \A r \in DOMAIN pending : \A col \in DOMAIN pending[r] :
                                 pending[r][col].pk = r.pk
SavesItsRows(save) == /\ ForItsRow(save, save.ref) /\ \A r \in save.rest : ForItsRow(save, r)
                      /\ \A col \in DOMAIN save.todo : save.todo[col].pk = save.ref.pk \/ shifted
SavesTheirRows == \A s \in Slots : saves[s] # None => SavesItsRows(saves[s])
DeletesItsRows == del # None => \A r \in del.todo : ForItsRow(del, r)
FormSavesItsRow ==
    form # None => /\ ForItsRow(form, form.ref)
                   /\ (form.draft.of = form.ref.of /\ form.draft.pk = form.ref.pk) \/ twin
                   /\ form.draft.was = form.ref.vals[form.draft.col]
SentInv == /\ RowsAreFroms /\ EditorOverItsRow /\ DraftForItsRow /\ QueuedForItsRow
           /\ SavesTheirRows /\ DeletesItsRows /\ FormSavesItsRow

LEMMA SentInvSuffices == SentInv => SentForItsRow
BY DEF SentInv, SavesTheirRows, SavesItsRows, DeletesItsRows, FormSavesItsRow, ForItsRow, SentForItsRow

LEMMA SentInvInit == EditInit => SentInv
BY SomeEmpty DEF EditInit, SentInv, RowsAreFroms, EditorOverItsRow, DraftForItsRow, QueuedForItsRow,
   SavesTheirRows, DeletesItsRows, FormSavesItsRow

(* What a step leaves alone stays right: what was excused stays so.        *)
LEMMA SentFrame ==
  ASSUME SentInv, crossed => crossed', shifted => shifted', twin => twin'
  PROVE  /\ UNCHANGED <<rows, from>> => RowsAreFroms'
         /\ UNCHANGED <<rows, edit>> => EditorOverItsRow'
         /\ UNCHANGED <<rows, draft>> => DraftForItsRow'
         /\ UNCHANGED pending => QueuedForItsRow'
         /\ UNCHANGED saves => SavesTheirRows'
         /\ UNCHANGED del => DeletesItsRows'
         /\ UNCHANGED form => FormSavesItsRow'
<1> USE DEF SentInv, ForItsRow
<1>1. UNCHANGED <<rows, from>> => RowsAreFroms'
  BY DEF RowsAreFroms
<1>2. UNCHANGED <<rows, edit>> => EditorOverItsRow'
  BY DEF EditorOverItsRow, AtRank, Rank
<1>3. UNCHANGED pending => QueuedForItsRow'
  BY DEF QueuedForItsRow
<1>4. UNCHANGED saves => SavesTheirRows'
  BY DEF SavesTheirRows, SavesItsRows
<1>5. UNCHANGED del => DeletesItsRows'
  BY DEF DeletesItsRows
<1>6. UNCHANGED form => FormSavesItsRow'
  BY DEF FormSavesItsRow
<1>7. UNCHANGED <<rows, draft>> => DraftForItsRow'
  BY DEF DraftForItsRow, FormRow, AtRank, Rank
<1> QED BY <1>1, <1>2, <1>3, <1>4, <1>5, <1>6, <1>7

(* The form shows one row, and what stays typed in it stays over the value *)
(* it was typed over.                                                      *)
LEMMA OneFormRow ==
  ASSUME NEW S, Keyed(S), \A r \in S : r.pk \in Nat
  PROVE  \A n : \A r, q \in FormRow(S, n) : r = q
<1> SUFFICES ASSUME NEW n, NEW r \in FormRow(S, n), NEW q \in FormRow(S, n) PROVE r = q
  OBVIOUS
<1>1. CASE AtRank(S, n) # {}
  BY <1>1, OneAtEachRank DEF FormRow
<1>2. CASE AtRank(S, n) = {}
  <2>1. r \in S /\ q \in S /\ r.pk <= q.pk /\ q.pk <= r.pk
    BY <1>2 DEF FormRow
  <2>2. r.pk = q.pk
    BY <2>1
  <2> QED BY <2>1, <2>2 DEF Keyed
<1> QED BY <1>1, <1>2

LEMMA GridKeys == EditTyped => Keyed(rows) /\ \A r \in rows : r.pk \in Nat
BY PksAreOrdered DEF EditTyped, RowsTyped, Arrays

LEMMA DrawSent ==
  ASSUME EditTyped, EditTyped', SentInv, NEW new, rows' = new, NEW n, Draw(new, n)
  PROVE  DraftForItsRow' /\ (twin => twin')
<1>1. twin => twin'
  BY DEF Draw
<1>2. CASE draft' = None
  BY <1>1, <1>2 DEF DraftForItsRow
<1>3. CASE draft' # None
  <2>1. /\ draft # None /\ draft' = [draft EXCEPT !.pos = n] /\ draft \in Draft
        /\ twin' = (twin \/ \E q \in FormRow(new, n) : q.of # draft.of \/ q.pk # draft.pk)
    BY <1>3 DEF Draw, EditTyped, DraftTyped
  <2>2. PICK r \in FormRow(rows, draft.pos), q \in FormRow(new, n) :
           q.vals[draft.col] = r.vals[draft.col]
    BY <1>3 DEF Draw
  <2>3. q.vals[draft.col] = draft.was
    BY <2>1, <2>2 DEF SentInv, DraftForItsRow
  <2>4. /\ draft'.pos = n /\ draft'.col = draft.col /\ draft'.was = draft.was
        /\ draft'.of = draft.of /\ draft'.pk = draft.pk
    BY <2>1 DEF Draft
  <2>5. Keyed(new) /\ \A x \in new : x.pk \in Nat
    BY PksAreOrdered DEF EditTyped, RowsTyped, Arrays
  <2>6. \A x, y \in FormRow(new, n) : x = y
    BY <2>5, OneFormRow
  <2>7. \A x \in FormRow(new, n) : /\ x.vals[draft.col] = draft.was
                                   /\ (draft.of = x.of /\ draft.pk = x.pk) \/ twin'
    BY <2>1, <2>2, <2>3, <2>6
  <2>8. rows' = new /\ draft'.pos = n
    BY <2>4
  <2>9. \A x \in FormRow(new, n) :
            x.vals[draft'.col] = draft'.was /\ ((draft'.of = x.of /\ draft'.pk = x.pk) \/ twin')
    BY <2>4, <2>7
  <2> HIDE DEF Draw
  <2> QED BY <1>1, <2>8, <2>9, Zenon DEF DraftForItsRow
<1> QED BY <1>1, <1>2, <1>3

\* The two effects.
LEMMA ResetSent ==
  ASSUME EditTyped, EditTyped', SentInv, NEW new, Reset(new)
  PROVE  EditorOverItsRow' /\ QueuedForItsRow' /\ DraftForItsRow' /\ (twin => twin')
<1>1. EditorOverItsRow' /\ QueuedForItsRow'
  BY SomeEmpty DEF Reset, EditorOverItsRow, QueuedForItsRow
<1>2. DraftForItsRow' /\ (twin => twin')
  BY DrawSent DEF Reset
<1> QED BY <1>1, <1>2

LEMMA SetLocalRowsSent ==
  ASSUME EditTyped, EditTyped', SentInv, NEW new, SetLocalRows(new)
  PROVE  /\ EditorOverItsRow' /\ QueuedForItsRow' /\ DraftForItsRow'
         /\ (shifted => shifted') /\ (twin => twin')
<1>1. shifted => shifted'
  BY DEF SetLocalRows
<1>2. EditorOverItsRow'
  <2> SUFFICES ASSUME edit' # None, ~shifted', NEW r \in AtRank(new, edit.pos) PROVE r.pk = edit.pk
    BY DEF EditorOverItsRow, SetLocalRows, AtRank, Rank
  <2>1. {q.pk : q \in AtRank(new, edit.pos)} = {edit.pk}
    BY DEF SetLocalRows
  <2> QED BY <2>1
<1>3. QueuedForItsRow'
  <2> DEFINE S == DOMAIN pending \cap new
  <2>1. pending' = Restrict(pending, S)
    BY DEF SetLocalRows
  <2>2. Restrict(pending, S) = [x \in S |-> pending[x]]
    BY DEF Restrict
  <2> QED BY <1>1, <2>1, <2>2 DEF SentInv, QueuedForItsRow
<1>4. DraftForItsRow' /\ (twin => twin')
  BY DrawSent DEF SetLocalRows
<1> QED BY <1>1, <1>2, <1>3, <1>4

(* A cell that enters the queue with the key of its row.                   *)
LEMMA EnqueueSent ==
  ASSUME EditTyped, SentInv, NEW r \in rows, NEW col \in Cols, NEW v \in Vals, NEW pk \in Pks,
         Enqueue(r, col, v, pk), pk = r.pk \/ shifted, UNCHANGED shifted
  PROVE  QueuedForItsRow'
<1>1. \A q \in DOMAIN pending' :
         \/ q \in DOMAIN pending /\ pending'[q] = pending[q]
         \/ q = r /\ \A k \in DOMAIN pending'[q] :
                        \/ pending'[q][k].pk = pk
                        \/ /\ r \in DOMAIN pending /\ k \in DOMAIN pending[r]
                           /\ pending'[q][k] = pending[r][k]
  BY EnqueueTyped
<1> QED BY <1>1 DEF SentInv, QueuedForItsRow

(* A call that begins takes its rows from the grid, and the connection     *)
(* whose table should be there.                                            *)
LEMMA BeginsForItsRow ==
  ASSUME SentInv, NEW r \in rows
  PROVE  r.of = at \/ Loading \/ crossed
BY DEF SentInv, RowsAreFroms, Loading

LEMMA BeginSent ==
  ASSUME EditTyped, SentInv, NEW r \in DOMAIN pending, NEW rest \in SUBSET DOMAIN pending, Begin(r, rest),
         UNCHANGED <<shifted, crossed>>
  PROVE  SavesTheirRows'
<1>1. PICK s \in Slots : saves' = [saves EXCEPT ![s] = Save(r, pending[r], at, Loading, rest)]
  BY DEF Begin
<1>2. DOMAIN pending \subseteq rows
  BY UnsavedOfARow
<1>3. SavesItsRows(Save(r, pending[r], at, Loading, rest))
  BY <1>2, BeginsForItsRow DEF SavesItsRows, ForItsRow, Save, SentInv, QueuedForItsRow
<1>4. \A t \in Slots : saves'[t] = saves[t] \/ saves'[t] = Save(r, pending[r], at, Loading, rest)
  BY <1>1 DEF EditTyped, SavesTyped
<1> QED BY <1>3, <1>4 DEF SentInv, SavesTheirRows, SavesItsRows, ForItsRow

LEMMA UpdateSent ==
  ASSUME EditTyped, SentInv, NEW s \in Slots, Update(s)
  PROVE  SavesTheirRows'
<1>1. saves[s] # None /\ UNCHANGED <<shifted, crossed>>
  BY DEF Update
<1>2. PICK col \in DOMAIN saves[s].todo :
         saves' = [saves EXCEPT ![s] = Left(s, col)] \/ saves' = [saves EXCEPT ![s] = LeftOk(s, col)]
  BY UpdateCases DEF ColumnWritten, ColumnRefused
<1>3. SavesItsRows(saves[s])
  BY <1>1 DEF SentInv, SavesTheirRows
<1>4. SavesItsRows(Left(s, col)) /\ SavesItsRows(LeftOk(s, col))
  <2>1. /\ DOMAIN Left(s, col).todo = DOMAIN saves[s].todo \ {col}
        /\ \A k \in DOMAIN Left(s, col).todo : Left(s, col).todo[k] = saves[s].todo[k]
        /\ Left(s, col).ref = saves[s].ref /\ Left(s, col).conn = saves[s].conn
        /\ Left(s, col).early = saves[s].early /\ Left(s, col).rest = saves[s].rest
        /\ LeftOk(s, col).todo = Left(s, col).todo
        /\ LeftOk(s, col).ref = saves[s].ref /\ LeftOk(s, col).conn = saves[s].conn
        /\ LeftOk(s, col).early = saves[s].early /\ LeftOk(s, col).rest = saves[s].rest
    BY <1>1, LeftTyped DEF EditTyped
  <2> QED BY <1>3, <2>1 DEF SavesItsRows, ForItsRow
<1>5. \A t \in Slots : saves'[t] \in {saves[t], Left(s, col), LeftOk(s, col)}
  BY <1>2 DEF EditTyped, SavesTyped
<1> QED BY <1>1, <1>4, <1>5 DEF SentInv, SavesTheirRows, SavesItsRows, ForItsRow

LEMMA FinishSent ==
  ASSUME EditTyped, EditTyped', SentInv, NEW s \in Slots, Finish(s)
  PROVE  SentInv'
<1> DEFINE new == (rows \ {saves[s].ref}) \cup {Merged(saves[s])}
<1>1. /\ saves[s] # None
      /\ IF saves[s].ok # <<>> /\ saves[s].ref \in rows THEN SetLocalRows(new) /\ gen' = gen + 1
         ELSE UNCHANGED <<grid, gen, shifted, twin>>
      /\ UNCHANGED <<server, cache, fetch, at, from, del, ins, form, acts, written, crossed>>
  BY FinishCases
<1>2. (shifted => shifted') /\ (twin => twin')
  BY <1>1, SetLocalRowsSent
<1>3. EditorOverItsRow' /\ QueuedForItsRow' /\ DraftForItsRow'
  BY <1>1, <1>2, SetLocalRowsSent, SentFrame DEF grid
<1>4. RowsAreFroms'
  <2>1. CASE saves[s].ref \in rows /\ SetLocalRows(new)
    <3>1. Merged(saves[s]).of = saves[s].ref.of /\ rows' = new /\ UNCHANGED <<from, crossed>>
      BY <1>1, <2>1, MergedTyped DEF SetLocalRows
    <3> QED BY <2>1, <3>1 DEF SentInv, RowsAreFroms
  <2>2. CASE UNCHANGED <<grid, gen, shifted, twin>>
    BY <1>1, <1>2, <2>2, SentFrame DEF grid
  <2> QED BY <1>1, <2>1, <2>2
<1>5. SavesTheirRows'
  <2>1. PICK next \in After(saves[s], pending', saves[s].conn) : saves' = [saves EXCEPT ![s] = next]
    BY FinishCases
  <2>2. SavesItsRows(saves[s])
    BY <1>1 DEF SentInv, SavesTheirRows
  <2>3. next # None => SavesItsRows(next)'
    <3> SUFFICES ASSUME next # None PROVE SavesItsRows(next)'
      OBVIOUS
    <3>1. PICK r \in saves[s].rest \cap DOMAIN pending' :
             next = Save(r, pending'[r], saves[s].conn, saves[s].early, saves[s].rest \ {r})
      BY <2>1 DEF After
    <3>2. /\ next.ref = r /\ next.todo = pending'[r] /\ next.conn = saves[s].conn
          /\ next.early = saves[s].early /\ next.rest = saves[s].rest \ {r}
      BY <3>1 DEF Save
    <3>3. \A col \in DOMAIN next.todo : next.todo[col].pk = next.ref.pk \/ shifted'
      BY <1>3, <3>1, <3>2 DEF QueuedForItsRow
    <3>4. ForItsRow(next, next.ref) /\ \A q \in next.rest : ForItsRow(next, q)
      BY <2>2, <3>1, <3>2 DEF SavesItsRows, ForItsRow
    <3> QED BY <1>1, <3>3, <3>4 DEF SavesItsRows, ForItsRow
  <2>4. \A t \in Slots : saves'[t] = saves[t] \/ saves'[t] = next
    BY <2>1 DEF EditTyped, SavesTyped
  <2>5. \A t \in Slots : saves[t] # None => SavesItsRows(saves[t])
    BY DEF SentInv, SavesTheirRows
  <2> QED BY <1>1, <1>2, <2>3, <2>4, <2>5 DEF SavesTheirRows, SavesItsRows, ForItsRow
<1>6. DeletesItsRows' /\ FormSavesItsRow'
  BY <1>1, <1>2, SentFrame
<1> QED BY <1>3, <1>4, <1>5, <1>6 DEF SentInv

\* The reads: what comes into the grid comes with its connection.
LEMMA ReadsSent ==
  ASSUME EditTyped, EditTyped', SentInv, SelectTable \/ Refresh \/ \E c \in Conns : Read(c) \/ Arrive(c)
  PROVE  SentInv'
<1>1. CASE SelectTable
  <2>1. UNCHANGED <<shifted, crossed, saves, del, form>>
    BY <1>1 DEF SelectTable
  <2>2. PICK c \in Conns \ {at} :
           IF cache[c] = None THEN UNCHANGED <<from, grid, off, twin>>
           ELSE /\ from' = c
                /\ IF from = c THEN UNCHANGED <<grid, off, twin>>
                   ELSE Reset(cache[c]) /\ off' = written[c]
    BY <1>1 DEF SelectTable
  <2>3. CASE UNCHANGED <<from, grid, twin>>
    BY <2>1, <2>3, SentFrame DEF SentInv, grid
  <2>4. CASE ~UNCHANGED <<from, grid, twin>>
    <3>1. cache[c] # None /\ from' = c /\ Reset(cache[c])
      BY <2>2, <2>4
    <3>2. \A r \in cache[c] : r.of = c
      BY <3>1 DEF EditTyped, CacheTyped
    <3>3. RowsAreFroms'
      BY <2>1, <3>1, <3>2 DEF RowsAreFroms, Reset
    <3>4. EditorOverItsRow' /\ QueuedForItsRow' /\ DraftForItsRow' /\ (twin => twin')
      BY <3>1, ResetSent
    <3> QED BY <2>1, <3>3, <3>4, SentFrame DEF SentInv
  <2> QED BY <2>3, <2>4
<1>2. CASE Refresh
  BY <1>2, SentFrame DEF Refresh, SentInv, grid, history
<1>3. ASSUME NEW c \in Conns, Read(c)
      PROVE  SentInv'
  BY <1>3, SentFrame DEF Read, SentInv, grid, history
<1>4. ASSUME NEW c \in Conns, Arrive(c)
      PROVE  SentInv'
  <2>1. UNCHANGED <<shifted, crossed, saves, del, form>>
    BY <1>4 DEF Arrive
  <2>2. IF at = c THEN Reset(Brought(c)) /\ from' = c ELSE UNCHANGED <<grid, from, twin>>
    BY <1>4 DEF Arrive, Brought
  <2>3. CASE at # c
    BY <2>1, <2>2, <2>3, SentFrame DEF SentInv, grid
  <2>4. CASE at = c
    <3>1. \A r \in Brought(c) : r.of = c
      BY BroughtRows
    <3> HIDE DEF Brought
    <3>2. RowsAreFroms'
      BY <2>1, <2>2, <2>4, <3>1 DEF RowsAreFroms, Reset
    <3>3. EditorOverItsRow' /\ QueuedForItsRow' /\ DraftForItsRow' /\ (twin => twin')
      BY <2>2, <2>4, ResetSent
    <3> QED BY <2>1, <3>2, <3>3, SentFrame DEF SentInv
  <2> QED BY <2>3, <2>4
<1> QED BY <1>1, <1>2, <1>3, <1>4

\* The edits: a cell enters the queue for the row that is under the editor.
LEMMA EditsSent ==
  ASSUME EditTyped, EditTyped', SentInv, NEW r \in rows,
         \/ \E col \in Cols : StartEdit(r, col) \/ \E v \in Vals : FillCell(r, col, v)
         \/ DiscardRow(r)
  PROVE  SentInv'
<1>0. UNCHANGED <<shifted, crossed, twin, rows, draft, from, saves, del, form>>
  BY DEF FillCell, StartEdit, DiscardRow, history
<1>1. ASSUME NEW col \in Cols, NEW v \in Vals, FillCell(r, col, v)
      PROVE  SentInv'
  <2>1. r.pk \in Pks /\ Enqueue(r, col, v, r.pk) /\ edit' = edit
    BY <1>1 DEF FillCell, EditTyped, RowsTyped, Arrays
  <2>2. QueuedForItsRow'
    BY <1>0, <2>1, EnqueueSent
  <2> QED BY <1>0, <2>1, <2>2, SentFrame DEF SentInv
<1>2. ASSUME NEW col \in Cols, StartEdit(r, col)
      PROVE  SentInv'
  <2>1. edit' = [pos |-> Rank(rows, r.pk), col |-> col, pk |-> r.pk] /\ pending' = pending
    BY <1>2 DEF StartEdit
  <2>2. AtRank(rows, Rank(rows, r.pk)) = {r}
    BY GridRanks
  <2>3. EditorOverItsRow'
    BY <1>0, <2>1, <2>2 DEF EditorOverItsRow, AtRank, Rank
  <2> QED BY <1>0, <2>1, <2>3, SentFrame DEF SentInv
<1>3. CASE DiscardRow(r)
  <2>1. <<>> \in Some(Cols, Typing) /\ DOMAIN <<>> = {}
    BY SomeEmpty
  <2>2. pending' = Queue(r, <<>>) /\ edit' = edit
    BY <1>3 DEF DiscardRow
  <2>3. \A q \in DOMAIN pending' : \/ q = r /\ pending'[q] = <<>>
                                   \/ q \in DOMAIN pending /\ pending'[q] = pending[q]
    BY <2>1, <2>2, QueueTyped
  <2>4. QueuedForItsRow'
    BY <1>0, <2>1, <2>3 DEF SentInv, QueuedForItsRow
  <2> QED BY <1>0, <2>2, <2>4, SentFrame DEF SentInv
<1> QED BY <1>1, <1>2, <1>3

LEMMA EndsOfEditsSent ==
  ASSUME EditTyped, EditTyped', SentInv, CancelEdit \/ DiscardAll \/ \E v \in Vals : ConfirmEdit(v)
  PROVE  SentInv'
<1>0. UNCHANGED <<shifted, crossed, twin, rows, draft, from, saves, del, form>>
  BY DEF CancelEdit, DiscardAll, ConfirmEdit, history
<1>1. CASE CancelEdit
  <2>1. edit' = None /\ pending' = pending
    BY <1>1 DEF CancelEdit
  <2> QED BY <1>0, <2>1, SentFrame DEF SentInv, EditorOverItsRow
<1>2. CASE DiscardAll
  <2>1. pending' = <<>> /\ edit' = edit
    BY <1>2 DEF DiscardAll
  <2>2. QueuedForItsRow'
    BY <2>1, SomeEmpty DEF QueuedForItsRow
  <2> QED BY <1>0, <2>1, <2>2, SentFrame DEF SentInv
<1>3. ASSUME NEW v \in Vals, ConfirmEdit(v)
      PROVE  SentInv'
  <2>1. edit' = None
    BY <1>3 DEF ConfirmEdit
  <2>2. QueuedForItsRow'
    <3>1. CASE pending' = pending
      BY <1>0, <3>1, SentFrame
    <3>2. CASE pending' # pending
      <4>1. PICK r \in AtRank(rows, edit.pos) : Enqueue(r, edit.col, v, edit.pk)
        BY <1>3, <3>2 DEF ConfirmEdit
      <4>2. r \in rows /\ edit # None /\ edit.col \in Cols /\ edit.pk \in Pks
        BY <1>3, <4>1 DEF AtRank, ConfirmEdit, EditTyped, EditorTyped
      <4>3. edit.pk = r.pk \/ shifted
        BY <4>1, <4>2 DEF SentInv, EditorOverItsRow
      <4> QED BY <1>0, <4>1, <4>2, <4>3, EnqueueSent
    <3> QED BY <3>1, <3>2
  <2> QED BY <1>0, <2>1, <2>2, SentFrame DEF SentInv, EditorOverItsRow
<1> QED BY <1>1, <1>2, <1>3

\* Deletions and insertions.
LEMMA DeletesSent ==
  ASSUME EditTyped, EditTyped', SentInv, DeleteSelectedRows \/ Delete \/ DeleteFails \/ Deleted
  PROVE  SentInv'
<1>0. UNCHANGED <<crossed, from, saves, form>>
  BY DEF DeleteSelectedRows, Delete, DeleteFails, Deleted, history
<1>1. CASE DeleteSelectedRows
  <2>1. UNCHANGED <<shifted, twin, grid>>
    BY <1>1 DEF DeleteSelectedRows, history
  <2>2. PICK S \in SUBSET rows \ {{}} : del' = [todo |-> S, done |-> {}, conn |-> at, early |-> Loading]
    BY <1>1 DEF DeleteSelectedRows
  <2>3. DeletesItsRows'
    BY <1>0, <2>2, BeginsForItsRow DEF DeletesItsRows, ForItsRow
  <2> QED BY <1>0, <2>1, <2>3, SentFrame DEF SentInv, grid
<1>2. CASE Delete
  <2>1. UNCHANGED <<shifted, twin, grid>> /\ del # None
    BY <1>2 DEF Delete
  <2>2. PICK r \in del.todo : del' = [del EXCEPT !.todo = @ \ {r}, !.done = @ \cup {r}]
    BY <1>2 DEF Delete
  <2>3. del'.todo = del.todo \ {r} /\ del'.conn = del.conn /\ del'.early = del.early
    BY <2>1, <2>2 DEF EditTyped, DelTyped, DeleteCalls
  <2>4. DeletesItsRows'
    BY <1>0, <2>1, <2>3 DEF SentInv, DeletesItsRows, ForItsRow
  <2> QED BY <1>0, <2>1, <2>4, SentFrame DEF SentInv, grid
<1>3. CASE DeleteFails
  <2>1. UNCHANGED <<shifted, twin, grid>> /\ del' = None
    BY <1>3 DEF DeleteFails
  <2> QED BY <1>0, <2>1, SentFrame DEF SentInv, grid, DeletesItsRows
<1>4. CASE Deleted
  <2>1. SetLocalRows(rows \ del.done) /\ del' = None
    BY <1>4 DEF Deleted
  <2>2. EditorOverItsRow' /\ QueuedForItsRow' /\ DraftForItsRow' /\ (shifted => shifted') /\ (twin => twin')
    BY <2>1, SetLocalRowsSent
  <2>3. RowsAreFroms'
    BY <1>0, <2>1 DEF SentInv, RowsAreFroms, SetLocalRows
  <2> QED BY <1>0, <2>1, <2>2, <2>3, SentFrame DEF SentInv, DeletesItsRows
<1> QED BY <1>1, <1>2, <1>3, <1>4

LEMMA InsertsSent ==
  ASSUME EditTyped, EditTyped', SentInv, ConfirmInsert \/ Insert \/ InsertFails \/ Reload \/ Inserted
  PROVE  SentInv'
<1>0. UNCHANGED <<from, saves, del, form>>
  BY DEF ConfirmInsert, Insert, InsertFails, Reload, Inserted
<1>1. CASE ConfirmInsert \/ Insert \/ InsertFails \/ Reload
  <2>1. UNCHANGED <<shifted, twin, crossed, grid>>
    BY <1>1 DEF ConfirmInsert, Insert, InsertFails, Reload, history
  <2> QED BY <1>0, <2>1, SentFrame DEF SentInv, grid
<1>2. CASE Inserted
  <2> DEFINE new == Refs(ins.conn, ins.rows, gen)
  <2>1. SetLocalRows(new) /\ crossed' = (crossed \/ ins.conn # from)
    BY <1>2 DEF Inserted
  <2>2. \A r \in new : r.of = ins.conn
    BY DEF Refs
  <2> HIDE DEF new
  <2>3. EditorOverItsRow' /\ QueuedForItsRow' /\ DraftForItsRow' /\ (shifted => shifted') /\ (twin => twin')
    BY <2>1, SetLocalRowsSent
  <2>4. RowsAreFroms'
    BY <1>0, <2>1, <2>2 DEF RowsAreFroms, SetLocalRows
  <2> QED BY <1>0, <2>1, <2>3, <2>4, SentFrame DEF SentInv
<1> QED BY <1>1, <1>2

\* The form view: what is typed is for the row that is there, and stays over its value.
LEMMA DraftsSent ==
  ASSUME EditTyped, EditTyped', SentInv,
         \/ LeaveField \/ HandleNavigate
         \/ \E r \in rows, col \in Cols, v \in Vals : FormType(r, col, v)
  PROVE  SentInv'
<1>0. UNCHANGED <<from, rows, pending, edit, saves, del, form, shifted, crossed>>
  BY DEF LeaveField, HandleNavigate, FormType, history
<1>1. CASE LeaveField
  <2>1. draft' = None /\ twin' = twin
    BY <1>1 DEF LeaveField, history
  <2> QED BY <1>0, <2>1, SentFrame DEF SentInv, DraftForItsRow
<1>2. CASE HandleNavigate
  <2>1. PICK r \in rows : Draw(rows, Rank(rows, r.pk))
    BY <1>2 DEF HandleNavigate
  <2>2. DraftForItsRow' /\ (twin => twin')
    BY <1>0, <2>1, DrawSent
  <2> QED BY <1>0, <2>2, SentFrame DEF SentInv
<1>3. ASSUME NEW r \in rows, NEW col \in Cols, NEW v \in Vals, FormType(r, col, v)
      PROVE  SentInv'
  <2>1. PICK n : n = IF draft = None THEN Rank(rows, r.pk) ELSE draft.pos
    OBVIOUS
  <2>2. /\ draft' = [pos |-> n, col |-> col, val |-> v, was |-> r.vals[col], of |-> r.of, pk |-> r.pk]
        /\ twin' = twin /\ (draft # None => r \in FormRow(rows, draft.pos))
    BY <1>3, <2>1 DEF FormType, history
  <2>3. r \in FormRow(rows, n)
    <3>1. AtRank(rows, Rank(rows, r.pk)) = {r}
      BY GridRanks
    <3> QED BY <2>1, <2>2, <3>1 DEF FormRow
  <2>4. \A x \in FormRow(rows, n) : x = r
    BY <2>3, OneFormRow, GridKeys
  <2>5. FormRow(rows', draft'.pos) = FormRow(rows, n)
    BY <1>0, <2>2
  <2>6. DraftForItsRow'
    BY <2>2, <2>4, <2>5 DEF DraftForItsRow
  <2> QED BY <1>0, <2>2, <2>6, SentFrame DEF SentInv
<1> QED BY <1>1, <1>2, <1>3

LEMMA FormSent ==
  ASSUME EditTyped, EditTyped', SentInv, HandleCommit \/ FormUpdate \/ OnRowUpdate
  PROVE  SentInv'
<1>0. UNCHANGED <<from, saves, del, crossed>>
  BY DEF HandleCommit, FormUpdate, OnRowUpdate, history
<1>1. CASE HandleCommit
  <2>1. PICK r \in FormRow(rows, draft.pos) :
           /\ UNCHANGED <<shifted, twin, grid>> /\ draft # None
           /\ form'.ref = r /\ form'.conn = at /\ form'.early = Loading /\ form'.draft = draft
    BY <1>1 DEF HandleCommit, history
  <2>2. r \in rows
    BY FormRowIsARow
  <2>3. r.vals[draft.col] = draft.was /\ ((draft.of = r.of /\ draft.pk = r.pk) \/ twin)
    BY <2>1 DEF SentInv, DraftForItsRow
  <2>4. FormSavesItsRow'
    BY <1>0, <2>1, <2>2, <2>3, BeginsForItsRow DEF FormSavesItsRow, ForItsRow
  <2> QED BY <1>0, <2>1, <2>4, SentFrame DEF SentInv, grid
<1>2. CASE FormUpdate
  <2>1. UNCHANGED <<shifted, twin, grid>> /\ form # None
    BY <1>2 DEF FormUpdate
  <2>2. form' = None \/ form' = [form EXCEPT !.sent = TRUE]
    BY <1>2 DEF FormUpdate
  <2>3. form' = None \/ (/\ form'.ref = form.ref /\ form'.conn = form.conn /\ form'.early = form.early
                         /\ form'.draft = form.draft)
    <3>1. form \in FormCalls(gen)
      BY <2>1, FormCallParts
    <3> QED BY <2>2, <3>1 DEF FormCalls
  <2>4. FormSavesItsRow'
    BY <1>0, <2>1, <2>3 DEF SentInv, FormSavesItsRow, ForItsRow
  <2> QED BY <1>0, <2>1, <2>4, SentFrame DEF SentInv, grid
<1>3. CASE OnRowUpdate
  <2>1. SetLocalRows({Copied(r) : r \in rows}) /\ form # None /\ form' = None
    BY <1>3 DEF OnRowUpdate
  <2>2. EditorOverItsRow' /\ QueuedForItsRow' /\ DraftForItsRow' /\ (shifted => shifted') /\ (twin => twin')
    BY <2>1, SetLocalRowsSent
  <2>3. \A r \in rows : Copied(r).of = r.of
    BY <2>1, CopiedTyped
  <2>4. RowsAreFroms'
    BY <1>0, <2>1, <2>3 DEF SentInv, RowsAreFroms, SetLocalRows
  <2> QED BY <1>0, <2>1, <2>2, <2>4, SentFrame DEF SentInv, FormSavesItsRow
<1> QED BY <1>1, <1>2, <1>3

\* The calls that save.
LEMMA SavesSent ==
  ASSUME EditTyped, EditTyped', SentInv,
         CommitAll \/ (\E r \in rows : CommitRow(r)) \/ (\E s \in Slots : Update(s) \/ Finish(s))
  PROVE  SentInv'
<1>1. CASE CommitAll \/ \E r \in rows : CommitRow(r)
  <2>1. UNCHANGED <<shifted, twin, crossed, grid, from, del, form>>
    BY <1>1 DEF CommitAll, CommitRow, history
  <2>2. PICK r \in DOMAIN pending, rest \in SUBSET DOMAIN pending : Begin(r, rest)
    BY <1>1 DEF CommitAll, CommitRow
  <2>3. SavesTheirRows'
    BY <2>1, <2>2, BeginSent
  <2> QED BY <2>1, <2>3, SentFrame DEF SentInv, grid
<1>2. ASSUME NEW s \in Slots, Update(s)
      PROVE  SentInv'
  <2>1. UNCHANGED <<shifted, twin, crossed, grid, from, del, form>>
    BY <1>2 DEF Update
  <2>2. SavesTheirRows'
    BY <1>2, UpdateSent
  <2> QED BY <2>1, <2>2, SentFrame DEF SentInv, grid
<1>3. ASSUME NEW s \in Slots, Finish(s)
      PROVE  SentInv'
  BY <1>3, FinishSent
<1> QED BY <1>1, <1>2, <1>3

LEMMA SentInvStep == EditTyped /\ EditTyped' /\ SentInv /\ [EditNext]_editVars => SentInv'
<1> SUFFICES ASSUME EditTyped, EditTyped', SentInv, [EditNext]_editVars PROVE SentInv'
  OBVIOUS
<1>1. CASE \E r \in rows : OfRow(r)
  BY <1>1, EditsSent, DraftsSent, SavesSent DEF OfRow
<1>2. CASE User /\ ~\E r \in rows : OfRow(r)
  BY <1>2, EndsOfEditsSent, DraftsSent, FormSent, ReadsSent, SavesSent, DeletesSent, InsertsSent DEF User
<1>3. CASE Calls
  BY <1>3, SavesSent, ReadsSent, DeletesSent, InsertsSent, FormSent DEF Calls
<1>4. CASE UNCHANGED editVars
  BY <1>4, SentFrame DEF editVars, grid, history, SentInv
<1> QED BY <1>1, <1>2, <1>3, <1>4 DEF EditNext

(* An UPDATE or a DELETE goes to the server its row was read from, and each *)
(* cell to the row it was typed for, but in the four cases the property     *)
(* names, and from the form only over the value it was typed over, for any  *)
(* number of connections, rows, columns, saves and acts.                    *)
THEOREM EditsReachTheirRow == EditSpec => []SentForItsRow
<1>1. EditInit => EditTyped /\ SentInv
  BY EditTypedInit, SentInvInit
<1>2. EditTyped /\ SentInv /\ [EditNext]_editVars => (EditTyped /\ SentInv)'
  BY EditTypedStep, SentInvStep
<1>3. SentInv => SentForItsRow
  BY SentInvSuffices
<1> QED BY <1>1, <1>2, <1>3, PTL DEF EditSpec

-----------------------------------------------------------------------------
(* ShownIsSaved.  A write the server has made and whose answer is to come  *)
(* is open: the array it is of, the connection it went to, and what it     *)
(* leaves there.                                                           *)

OpenWrites ==
    {[by |-> s, ref |-> saves[s].ref, conn |-> saves[s].conn, leaves |-> Over(saves[s].ok, saves[s].ref.vals)] :
        s \in {q \in Slots : saves[q] # None /\ saves[q].ok # <<>>}}
    \cup (IF del = None THEN {}
          ELSE {[by |-> 0, ref |-> r, conn |-> del.conn, leaves |-> Gone] : r \in del.done})
    \cup (IF form = None \/ ~form.sent THEN {}
          ELSE {[by |-> -1, ref |-> form.ref, conn |-> form.conn,
                 leaves |-> [form.ref.vals EXCEPT ![form.draft.col] = form.draft.val]]})
OpenAt(k) == {w \in OpenWrites : w.ref.pk = k}
Inserting(k) == ins # None /\ ins.stage # "insert" /\ ins.pk = k
RowOf(v) == IF v = Gone THEN {} ELSE {v}

\* The grid shows row k, or will once the one write of it is answered.
Agrees(k) == IF OpenAt(k) = {} THEN Shown(k) = RowOf(server[from][k])
             ELSE \A w \in OpenAt(k) : server[from][k] = w.leaves

\* Or an answer to come will find that it cannot be shown.
Accounted(k) == \/ Inserting(k)
                \/ \E w \in OpenAt(k) : Astray(w.ref, w.conn)
                \/ \E w, v \in OpenAt(k) : w # v
                \/ Agrees(k)
GridAgrees == from # None => \A k \in Pks \ off : Accounted(k)
RowsAreFromsOrOff == off = Pks \/ \A r \in rows : r.of = from

\* What was read is what the server has, but for what was written since.
Cell(table, k) == IF k \in DOMAIN table THEN {table[k]} ELSE {}
Held(S, k) == {r.vals : r \in {q \in S : q.pk = k}}
CachesAgree ==
    \A c \in Conns : cache[c] # None =>
        \A k \in Pks \ written[c] : Held(cache[c], k) = RowOf(server[c][k])
ReadsAgree ==
    \A c \in Conns : fetch[c].stage = "read" =>
        \A k \in Pks \ fetch[c].since : Cell(fetch[c].rows, k) = RowOf(server[c][k])
ReloadAgrees ==
    ins # None /\ ins.stage = "show" =>
        \A k \in Pks \ ins.since : Cell(ins.rows, k) = RowOf(server[ins.conn][k])
OpenAreKnown ==
    \A w \in OpenWrites : /\ cache[w.conn] # None => w.ref.pk \in written[w.conn]
                          /\ fetch[w.conn].stage = "read" => w.ref.pk \in fetch[w.conn].since
ShownInv == GridAgrees /\ RowsAreFromsOrOff /\ CachesAgree /\ ReadsAgree /\ ReloadAgrees /\ OpenAreKnown

LEMMA OpenTyped ==
  ASSUME EditTyped
  PROVE  \A w \in OpenWrites : /\ w.ref \in Arrays(gen) /\ w.ref.pk \in Pks /\ w.ref.of \in Conns
                               /\ w.conn \in Conns /\ w.by \in Int
<1> SUFFICES ASSUME NEW w \in OpenWrites
             PROVE  w.ref \in Arrays(gen) /\ w.conn \in Conns /\ w.by \in Int
  BY DEF Arrays
<1>1. CASE \E s \in Slots : /\ saves[s] # None /\ w.by = s /\ w.ref = saves[s].ref /\ w.conn = saves[s].conn
  BY <1>1, SaveCallParts, BoundsAreNumbers DEF EditTyped, Slots
<1>2. CASE del # None /\ w.by = 0 /\ w.ref \in del.done /\ w.conn = del.conn
  BY <1>2, DoneAreKeys
<1>3. CASE form # None /\ w.by = -1 /\ w.ref = form.ref /\ w.conn = form.conn
  BY <1>3, FormCallParts
<1> QED BY <1>1, <1>2, <1>3 DEF OpenWrites

(* Open writes are those of calls under way.                               *)
LEMMA OpenFrame ==
  UNCHANGED <<saves, del, form>> => OpenWrites' = OpenWrites
BY DEF OpenWrites

LEMMA UnansweredAreOpen ==
  ASSUME NEW w \in OpenWrites
  PROVE  w.ref.pk \in Unanswered
<1>1. CASE \E s \in Slots : saves[s] # None /\ saves[s].ok # <<>> /\ w.ref = saves[s].ref
  BY <1>1 DEF Unanswered
<1>2. CASE del # None /\ w.ref \in del.done
  BY <1>2 DEF Unanswered
<1>3. CASE form # None /\ form.sent /\ w.ref = form.ref
  BY <1>3 DEF Unanswered
<1> QED BY <1>1, <1>2, <1>3 DEF OpenWrites

(* A row that nothing touches stays accounted for.                         *)
LEMMA StaysAccounted ==
  ASSUME NEW k, Accounted(k), UNCHANGED from, OpenAt(k)' = OpenAt(k), Inserting(k) => Inserting(k)',
         server'[from][k] = server[from][k],
         OpenAt(k) = {} => Shown(k)' = Shown(k),
         \A w \in OpenAt(k) : Astray(w.ref, w.conn) => Astray(w.ref, w.conn)'
  PROVE  Accounted(k)'
<1>1. CASE Inserting(k)
  BY <1>1 DEF Accounted
<1>2. CASE \E w \in OpenAt(k) : Astray(w.ref, w.conn)
  BY <1>2 DEF Accounted
<1>3. CASE \E w, v \in OpenAt(k) : w # v
  BY <1>3 DEF Accounted
<1>4. CASE Agrees(k)
  BY <1>4 DEF Accounted, Agrees
<1> QED BY <1>1, <1>2, <1>3, <1>4 DEF Accounted

(* A step that leaves the grid and the open writes alone, and every row    *)
(* but those that are off.                                                 *)
LEMMA GridFrame ==
  ASSUME GridAgrees, UNCHANGED <<rows, from>>, OpenWrites' = OpenWrites, off \subseteq off',
         from # None => \A k \in Pks \ off' : server'[from][k] = server[from][k],
         \A k \in Pks \ off' : Inserting(k) => Inserting(k)'
  PROVE  GridAgrees'
<1> SUFFICES ASSUME from' # None, NEW k \in Pks \ off' PROVE Accounted(k)'
  BY DEF GridAgrees
<1>1. Accounted(k)
  BY DEF GridAgrees
<1>2. OpenAt(k)' = OpenAt(k) /\ Shown(k)' = Shown(k)
  BY DEF OpenAt, Shown
<1>3. \A w \in OpenAt(k) : Astray(w.ref, w.conn) => Astray(w.ref, w.conn)'
  BY DEF Astray
<1> QED BY <1>1, <1>2, <1>3, StaysAccounted

(* The server makes a write: it is open, in the place of an earlier one of *)
(* the same call if there was one.                                         *)
LEMMA WriteAccounted ==
  ASSUME EditTyped, GridAgrees, RowsAreFromsOrOff, UNCHANGED <<rows, from, off>>,
         NEW w, w.ref.pk \in Pks, NEW before \in SUBSET OpenWrites,
         OpenWrites' = (OpenWrites \ before) \cup {w}, w \in OpenWrites => w \in before,
         \A x \in before : x.ref = w.ref /\ x.conn = w.conn,
         \A x, y \in before : x = y,
         \A k \in Pks : Inserting(k) => Inserting(k)',
         \A c \in Conns : \A k \in Pks :
            (c # w.conn \/ k # w.ref.pk) => server'[c][k] = server[c][k],
         /\ w.conn = from /\ w.ref \in rows /\ OpenAt(w.ref.pk) \subseteq before /\ Agrees(w.ref.pk)
         => server'[from][w.ref.pk] = w.leaves
  PROVE  GridAgrees'
<1> SUFFICES ASSUME from # None, NEW k \in Pks \ off PROVE Accounted(k)'
  BY DEF GridAgrees
<1>1. Accounted(k) /\ from \in Conns
  BY DEF GridAgrees, EditTyped, CountsTyped
<1>2. \A x : Astray(x.ref, x.conn)' <=> Astray(x.ref, x.conn)
  BY DEF Astray
<1>3. CASE k # w.ref.pk
  <2>1. OpenAt(k)' = OpenAt(k)
    BY <1>3 DEF OpenAt
  <2>2. Shown(k)' = Shown(k) /\ server'[from][k] = server[from][k]
    BY <1>1, <1>3 DEF Shown
  <2> QED BY <1>1, <1>2, <2>1, <2>2, StaysAccounted
<1>4. CASE k = w.ref.pk
  <2>1. w \in OpenAt(k)' /\ OpenAt(k)' = (OpenAt(k) \ before) \cup {w}
    BY <1>4 DEF OpenAt
  <2>2. CASE Astray(w.ref, w.conn)
    BY <1>2, <2>1, <2>2 DEF Accounted
  <2>3. CASE ~Astray(w.ref, w.conn) /\ ~(OpenAt(k) \subseteq before)
    <3>1. PICK x \in OpenAt(k) : x \notin before
      BY <2>3
    <3>2. x # w /\ x \in OpenAt(k)'
      BY <2>1, <3>1 DEF OpenAt
    <3> QED BY <2>1, <3>2 DEF Accounted
  <2>4. CASE ~Astray(w.ref, w.conn) /\ OpenAt(k) \subseteq before
    <3>1. w.conn = from /\ w.ref \in rows
      BY <2>4 DEF Astray, RowsAreFromsOrOff
    <3>2. CASE Inserting(k)
      BY <3>2 DEF Accounted
    <3>3. CASE Agrees(k)
      <4>1. server'[from][k] = w.leaves
        BY <1>4, <2>4, <3>1, <3>3
      <4>2. OpenAt(k)' = {w}
        BY <2>1, <2>4
      <4> QED BY <4>1, <4>2 DEF Accounted, Agrees
    <3>4. ~\E x \in OpenAt(k) : Astray(x.ref, x.conn)
      BY <2>4
    <3>5. ~\E x, y \in OpenAt(k) : x # y
      BY <2>4
    <3> QED BY <1>1, <3>2, <3>3, <3>4, <3>5 DEF Accounted
  <2> QED BY <2>2, <2>3, <2>4
<1> QED BY <1>3, <1>4

(* The answer of a call comes: its writes are no longer open.  A row is    *)
(* off, or no write of it was answered, or the one that was is shown, and  *)
(* the others will not find their array any more.                          *)
LEMMA AnswerAccounted ==
  ASSUME EditTyped, GridAgrees, UNCHANGED <<server, from>>, off \subseteq off',
         NEW answered \in SUBSET OpenWrites, OpenWrites' = OpenWrites \ answered,
         \A k \in Pks : Inserting(k) => Inserting(k)',
         \A w \in OpenWrites' : w.ref \in rows' => w.ref \in rows,
         \A k \in Pks \ off' :
            \/ /\ \A w \in answered : w.ref.pk # k
               /\ OpenAt(k) = {} => Shown(k)' = Shown(k)
            \/ \E w \in answered :
                 /\ w.ref.pk = k /\ ~Astray(w.ref, w.conn)
                 /\ \A x \in answered : x.ref.pk = k => x = w
                 /\ \A x \in OpenWrites' : x.ref.pk = k => x.ref \notin rows'
                 /\ Shown(k)' = RowOf(w.leaves)
  PROVE  GridAgrees'
<1> SUFFICES ASSUME from # None, NEW k \in Pks \ off' PROVE Accounted(k)'
  BY DEF GridAgrees
<1>1. Accounted(k)
  BY DEF GridAgrees
<1>2. \A w \in OpenWrites' : Astray(w.ref, w.conn) => Astray(w.ref, w.conn)'
  BY DEF Astray
<1>3. OpenAt(k)' = OpenAt(k) \ answered
  BY DEF OpenAt
<1>4. CASE /\ \A w \in answered : w.ref.pk # k
           /\ OpenAt(k) = {} => Shown(k)' = Shown(k)
  <2>1. OpenAt(k)' = OpenAt(k) /\ \A w \in OpenAt(k) : w \in OpenWrites'
    BY <1>4 DEF OpenAt
  <2> QED BY <1>1, <1>2, <1>4, <2>1, StaysAccounted
<1>5. ASSUME NEW w \in answered, w.ref.pk = k, ~Astray(w.ref, w.conn),
             \A x \in answered : x.ref.pk = k => x = w,
             \A x \in OpenWrites' : x.ref.pk = k => x.ref \notin rows',
             Shown(k)' = RowOf(w.leaves)
      PROVE  Accounted(k)'
  <2>1. CASE OpenAt(k)' # {}
    <3>1. PICK x \in OpenAt(k)' : TRUE
      BY <2>1
    <3>2. x \in OpenWrites' /\ x.ref.pk = k
      BY <3>1 DEF OpenAt
    <3>3. Astray(x.ref, x.conn)'
      BY <1>5, <3>2 DEF Astray
    <3> QED BY <3>1, <3>3 DEF Accounted
  <2>2. CASE OpenAt(k)' = {}
    <3>1. OpenAt(k) = {w}
      BY <1>3, <1>5, <2>2 DEF OpenAt
    <3>2. CASE Inserting(k)
      BY <3>2 DEF Accounted
    <3>3. CASE Agrees(k)
      <4>1. server[from][k] = w.leaves
        BY <3>1, <3>3 DEF Agrees
      <4> QED BY <1>5, <2>2, <4>1 DEF Accounted, Agrees
    <3> QED BY <1>1, <1>5, <3>1, <3>2, <3>3 DEF Accounted
  <2> QED BY <2>1, <2>2
<1> QED BY <1>4, <1>5

(* The rows are put in anew: those of which no open write can be shown are *)
(* as the server has them.                                                 *)
LEMMA AnewAccounted ==
  ASSUME \A k \in Pks \ off' : /\ \A w \in OpenWrites' : w.ref.pk = k => Astray(w.ref, w.conn)'
                               /\ Shown(k)' = RowOf(server'[from'][k])
  PROVE  GridAgrees'
<1> SUFFICES ASSUME NEW k \in Pks \ off' PROVE Accounted(k)'
  BY DEF GridAgrees
<1>1. CASE OpenAt(k)' = {}
  BY <1>1 DEF Accounted, Agrees
<1>2. CASE OpenAt(k)' # {}
  BY <1>2 DEF Accounted, OpenAt
<1> QED BY <1>1, <1>2

(* What the parts of the invariant rest on.                                *)
LEMMA ShownFrame ==
  ASSUME ShownInv, EditTyped, EditTyped'
  PROVE  /\ UNCHANGED <<server, cache, written>> => CachesAgree'
         /\ UNCHANGED <<server, fetch>> => ReadsAgree'
         /\ UNCHANGED <<server, ins>> => ReloadAgrees'
         /\ UNCHANGED <<cache, written, fetch>> /\ OpenWrites' \subseteq OpenWrites => OpenAreKnown'
         /\ UNCHANGED <<rows, from>> /\ off \subseteq off' => RowsAreFromsOrOff'
<1> USE DEF ShownInv
<1>1. UNCHANGED <<server, cache, written>> => CachesAgree'
  BY DEF CachesAgree
<1>2. UNCHANGED <<server, fetch>> => ReadsAgree'
  BY DEF ReadsAgree
<1>3. UNCHANGED <<server, ins>> => ReloadAgrees'
  BY DEF ReloadAgrees
<1>4. UNCHANGED <<cache, written, fetch>> /\ OpenWrites' \subseteq OpenWrites => OpenAreKnown'
  BY DEF OpenAreKnown
<1>5. UNCHANGED <<rows, from>> /\ off \subseteq off' => RowsAreFromsOrOff'
  BY DEF RowsAreFromsOrOff, EditTyped, HistoryTyped
<1> QED BY <1>1, <1>2, <1>3, <1>4, <1>5

LEMMA NoneIsNoCallYet ==
  ASSUME EditTyped
  PROVE  None \notin SaveCalls(gen) \cup DeleteCalls(gen) \cup InsertCall \cup FormCalls(gen)
<1>1. Arrays(gen) \subseteq Array
  BY DEF EditTyped, CountsTyped, Arrays, Array
<1>2. /\ SaveCalls(gen) \subseteq SaveCall /\ DeleteCalls(gen) \subseteq DeleteCall
      /\ FormCalls(gen) \subseteq FormCall
  BY <1>1 DEF SaveCalls, SaveCall, DeleteCalls, DeleteCall, FormCalls, FormCall
<1> QED BY <1>2, NoneIsNoCall

LEMMA OpenIsKnown ==
  ASSUME EditTyped, ShownInv, NEW w \in OpenWrites
  PROVE  /\ w.conn \in Conns
         /\ cache[w.conn] # None => w.ref.pk \in written[w.conn]
         /\ fetch[w.conn].stage = "read" => w.ref.pk \in fetch[w.conn].since
<1>1. w.conn \in Conns
  BY OpenTyped
<1>2. OpenAreKnown
  BY DEF ShownInv
<1>3. /\ cache[w.conn] # None => w.ref.pk \in written[w.conn]
      /\ fetch[w.conn].stage = "read" => w.ref.pk \in fetch[w.conn].since
  BY <1>2 DEF OpenAreKnown
<1> QED BY <1>1, <1>3

(* Steps that only edit leave all of it alone.                             *)
LEMMA EditsShown ==
  ASSUME ShownInv, EditTyped, EditTyped',
         UNCHANGED <<server, cache, fetch, from, rows, ins, written, off>>, OpenWrites' = OpenWrites
  PROVE  ShownInv'
<1>1. \A k : Inserting(k) => Inserting(k)'
  BY DEF Inserting
<1>2. GridAgrees'
  BY <1>1, GridFrame DEF ShownInv
<1> QED BY <1>2, ShownFrame DEF ShownInv

(* Calls that begin have written nothing yet.                              *)
LEMMA BeginShown ==
  ASSUME ShownInv, EditTyped, EditTyped',
         CommitAll \/ DeleteSelectedRows \/ HandleCommit \/ \E r \in rows : CommitRow(r)
  PROVE  ShownInv'
<1>1. UNCHANGED <<server, cache, fetch, from, rows, ins, written, off>>
  BY DEF CommitAll, DeleteSelectedRows, CommitRow, HandleCommit, grid, history
<1>2. CASE CommitAll \/ \E r \in rows : CommitRow(r)
  <2>1. UNCHANGED <<del, form>>
    BY <1>2 DEF CommitAll, CommitRow
  <2>2. PICK s \in Slots : /\ saves[s] = None
                           /\ \E r, rest : saves' = [saves EXCEPT ![s] = Save(r, pending[r], at, Loading, rest)]
    BY <1>2 DEF CommitAll, CommitRow, Begin
  <2>3. saves'[s].ok = <<>> /\ \A q \in Slots : q # s => saves'[q] = saves[q]
    BY <2>2 DEF Save, EditTyped, SavesTyped
  <2>4. {q \in Slots : saves'[q] # None /\ saves'[q].ok # <<>>}
          = {q \in Slots : saves[q] # None /\ saves[q].ok # <<>>}
    BY <2>2, <2>3
  <2>5. \A q \in {p \in Slots : saves[p] # None /\ saves[p].ok # <<>>} : saves'[q] = saves[q]
    BY <2>2, <2>3
  <2>6. OpenWrites' = OpenWrites
    BY <2>1, <2>4, <2>5 DEF OpenWrites
  <2> QED BY <1>1, <2>6, EditsShown
<1>3. CASE DeleteSelectedRows
  <2>1. del = None /\ UNCHANGED <<saves, form>> /\ (del' = None \/ del'.done = {})
    BY <1>3 DEF DeleteSelectedRows
  <2>2. OpenWrites' = OpenWrites
    BY <2>1 DEF OpenWrites
  <2> QED BY <1>1, <2>2, EditsShown
<1>4. CASE HandleCommit
  <2>1. form = None /\ UNCHANGED <<saves, del>> /\ ~form'.sent
    BY <1>4 DEF HandleCommit
  <2>2. OpenWrites' = OpenWrites
    BY <2>1 DEF OpenWrites
  <2> QED BY <1>1, <2>2, EditsShown
<1> QED BY <1>2, <1>3, <1>4

(* A reading is asked for, and read: it has what the server has, but for   *)
(* what open writes left there.                                            *)
LEMMA ReadsShown ==
  ASSUME ShownInv, EditTyped, EditTyped', Refresh \/ \E c \in Conns : Read(c)
  PROVE  ShownInv'
<1>1. UNCHANGED <<server, cache, from, rows, ins, written, off, saves, del, form>>
  BY DEF Refresh, Read, grid, history
<1>2. OpenWrites' = OpenWrites
  BY <1>1, OpenFrame
<1>3. GridAgrees' /\ CachesAgree' /\ ReloadAgrees' /\ RowsAreFromsOrOff'
  <2>1. \A k : Inserting(k) => Inserting(k)'
    BY <1>1 DEF Inserting
  <2> QED BY <1>1, <1>2, <2>1, GridFrame, ShownFrame DEF ShownInv
<1>4. CASE Refresh
  <2>1. \A c \in Conns : fetch'[c] = fetch[c] \/ fetch'[c].stage = "sent"
    BY <1>4 DEF Refresh, EditTyped, FetchTyped, CountsTyped, Idle
  <2>2. ReadsAgree'
    BY <1>1, <2>1 DEF ShownInv, ReadsAgree
  <2>3. OpenAreKnown'
    BY <1>1, <1>2, <2>1, OpenIsKnown DEF OpenAreKnown
  <2> QED BY <1>3, <2>2, <2>3 DEF ShownInv
<1>5. ASSUME NEW c \in Conns, Read(c)
      PROVE  ShownInv'
  <2>1. /\ fetch'[c] = [stage |-> "read", rows |-> Present(server[c]), since |-> Unanswered]
        /\ \A d \in Conns : d # c => fetch'[d] = fetch[d]
    BY <1>5 DEF Read, EditTyped, FetchTyped
  <2>2. /\ DOMAIN Present(server[c]) = {k \in Pks : server[c][k] # Gone}
        /\ \A k \in DOMAIN Present(server[c]) : Present(server[c])[k] = server[c][k]
    BY PresentIsATable DEF EditTyped
  <2>3. \A k \in Pks : Cell(Present(server[c]), k) = RowOf(server[c][k])
    BY <2>2 DEF Cell, RowOf
  <2>4. ReadsAgree'
    BY <1>1, <2>1, <2>3 DEF ShownInv, ReadsAgree
  <2>5. OpenAreKnown'
    <3> SUFFICES ASSUME NEW w \in OpenWrites
                 PROVE  /\ cache[w.conn] # None => w.ref.pk \in written[w.conn]
                        /\ fetch'[w.conn].stage = "read" => w.ref.pk \in fetch'[w.conn].since
      BY <1>1, <1>2 DEF OpenAreKnown
    <3>1. w.ref.pk \in Unanswered
      BY UnansweredAreOpen
    <3>2. fetch'[c].since = Unanswered
      BY <2>1
    <3>3. CASE w.conn = c
      BY <3>1, <3>2, <3>3, OpenIsKnown
    <3>4. CASE w.conn # c
      BY <2>1, <3>4, OpenIsKnown
    <3> QED BY <3>3, <3>4
  <2> QED BY <1>3, <2>4, <2>5 DEF ShownInv
<1> QED BY <1>4, <1>5

(* Rows that come into the grid from a cache or a reading are what the     *)
(* server has; writes of the same connection that are open are off.        *)
LEMMA ResetShown ==
  ASSUME EditTyped, NEW c \in Conns, NEW new, Reset(new), from' = c, UNCHANGED server, OpenWrites' = OpenWrites,
         \A r \in new : r.of = c,
         \A k \in Pks \ off' : Held(new, k) = RowOf(server[c][k]),
         \A w \in OpenWrites : w.conn = c => w.ref.pk \in off'
  PROVE  GridAgrees' /\ RowsAreFromsOrOff'
<1>1. rows' = new
  BY DEF Reset
<1>2. ASSUME NEW k \in Pks \ off'
      PROVE  /\ \A w \in OpenWrites' : w.ref.pk = k => Astray(w.ref, w.conn)'
             /\ Shown(k)' = RowOf(server'[from'][k])
  <2>1. ASSUME NEW w \in OpenWrites', w.ref.pk = k
        PROVE  Astray(w.ref, w.conn)'
    <3>1. w.conn # c
      BY <2>1
    <3> QED BY <1>1, <3>1 DEF Astray
  <2>2. Shown(k)' = Held(new, k)
    BY <1>1 DEF Shown, Held
  <2> QED BY <2>1, <2>2
<1>3. GridAgrees'
  BY <1>2, AnewAccounted
<1>4. RowsAreFromsOrOff'
  BY <1>1 DEF RowsAreFromsOrOff
<1> QED BY <1>3, <1>4

LEMMA SelectTableShown ==
  ASSUME ShownInv, EditTyped, EditTyped', SelectTable
  PROVE  ShownInv'
<1>1. UNCHANGED <<server, cache, ins, written, saves, del, form>> /\ OpenWrites' = OpenWrites
  BY OpenFrame DEF SelectTable
<1>2. PICK c \in Conns \ {at} :
         IF cache[c] = None
         THEN /\ fetch' = [fetch EXCEPT ![c] = IF @ = Idle THEN [@ EXCEPT !.stage = "sent"] ELSE @]
              /\ UNCHANGED <<from, grid, off, twin>>
         ELSE /\ fetch' = fetch /\ from' = c
              /\ IF from = c THEN UNCHANGED <<grid, off, twin>>
                 ELSE Reset(cache[c]) /\ off' = written[c]
  BY DEF SelectTable
<1>3. \A d \in Conns : fetch'[d] = fetch[d] \/ fetch'[d].stage = "sent"
  BY <1>2 DEF EditTyped, FetchTyped, Reads
<1>4. CachesAgree' /\ ReloadAgrees'
  BY <1>1, ShownFrame
<1>5. ReadsAgree'
  BY <1>1, <1>3 DEF ShownInv, ReadsAgree
<1>6. OpenAreKnown'
  BY <1>1, <1>3, OpenIsKnown DEF OpenAreKnown
<1>7. GridAgrees' /\ RowsAreFromsOrOff'
  <2>1. CASE UNCHANGED <<from, grid, off, twin>>
    <3>1. \A k : Inserting(k) => Inserting(k)'
      BY <1>1 DEF Inserting
    <3> QED BY <1>1, <2>1, <3>1, GridFrame, ShownFrame DEF ShownInv, grid
  <2>2. CASE ~UNCHANGED <<from, grid, off, twin>>
    <3>1. cache[c] # None /\ from' = c /\ Reset(cache[c]) /\ off' = written[c]
      BY <1>2, <2>2
    <3>2. \A r \in cache[c] : r.of = c
      BY <3>1 DEF EditTyped, CacheTyped
    <3>3. \A k \in Pks \ off' : Held(cache[c], k) = RowOf(server[c][k])
      BY <3>1 DEF ShownInv, CachesAgree
    <3>4. \A w \in OpenWrites : w.conn = c => w.ref.pk \in off'
      BY <3>1, OpenIsKnown
    <3> QED BY <1>1, <3>1, <3>2, <3>3, <3>4, ResetShown
  <2> QED BY <2>1, <2>2
<1> QED BY <1>4, <1>5, <1>6, <1>7 DEF ShownInv

LEMMA ArriveShown ==
  ASSUME ShownInv, EditTyped, EditTyped', NEW c \in Conns, Arrive(c)
  PROVE  ShownInv'
<1>1. UNCHANGED <<server, ins, saves, del, form>> /\ OpenWrites' = OpenWrites
  BY OpenFrame DEF Arrive
<1>2. /\ fetch[c].stage = "read"
      /\ cache' = [cache EXCEPT ![c] = Brought(c)]
      /\ IF at = c THEN Reset(Brought(c)) /\ from' = c /\ off' = fetch[c].since
         ELSE UNCHANGED <<grid, from, off, twin>>
      /\ fetch' = [fetch EXCEPT ![c] = Idle]
      /\ written' = [written EXCEPT ![c] = fetch[c].since]
  BY DEF Arrive, Brought
<1>3. /\ \A r \in Brought(c) : r.of = c
      /\ \A r \in Brought(c) : r.pk \in DOMAIN fetch[c].rows /\ r.vals = fetch[c].rows[r.pk]
      /\ \A k \in DOMAIN fetch[c].rows : \E r \in Brought(c) : r.pk = k
  BY BroughtRows
<1> HIDE DEF Brought
<1>4. \A k \in Pks \ fetch[c].since : Held(Brought(c), k) = RowOf(server[c][k])
  <2> SUFFICES ASSUME NEW k \in Pks \ fetch[c].since
               PROVE  Held(Brought(c), k) = RowOf(server[c][k])
    OBVIOUS
  <2>1. Cell(fetch[c].rows, k) = RowOf(server[c][k])
    BY <1>2 DEF ShownInv, ReadsAgree
  <2>2. Held(Brought(c), k) = Cell(fetch[c].rows, k)
    <3>1. CASE k \in DOMAIN fetch[c].rows
      <4>1. PICK r \in Brought(c) : r.pk = k
        BY <1>3, <3>1
      <4>2. fetch[c].rows[k] \in Held(Brought(c), k)
        BY <1>3, <4>1 DEF Held
      <4>3. \A x \in Held(Brought(c), k) : x = fetch[c].rows[k]
        BY <1>3 DEF Held
      <4> QED BY <3>1, <4>2, <4>3 DEF Cell
    <3>2. CASE k \notin DOMAIN fetch[c].rows
      <4>1. Held(Brought(c), k) = {}
        BY <1>3, <3>2 DEF Held
      <4> QED BY <3>2, <4>1 DEF Cell
    <3> QED BY <3>1, <3>2
  <2> QED BY <2>1, <2>2
<1>5. /\ cache'[c] = Brought(c) /\ written'[c] = fetch[c].since /\ fetch'[c].stage = "none"
      /\ \A d \in Conns : d # c => cache'[d] = cache[d] /\ written'[d] = written[d] /\ fetch'[d] = fetch[d]
  BY <1>2 DEF EditTyped, CacheTyped, FetchTyped, HistoryTyped, Idle
<1>6. CachesAgree'
  BY <1>1, <1>4, <1>5 DEF ShownInv, CachesAgree
<1>7. ReadsAgree' /\ ReloadAgrees'
  BY <1>1, <1>5, ShownFrame DEF ShownInv, ReadsAgree
<1>8. OpenAreKnown'
  <2> SUFFICES ASSUME NEW w \in OpenWrites
               PROVE  /\ cache'[w.conn] # None => w.ref.pk \in written'[w.conn]
                      /\ fetch'[w.conn].stage = "read" => w.ref.pk \in fetch'[w.conn].since
    BY <1>1 DEF OpenAreKnown
  <2>1. CASE w.conn = c
    BY <1>2, <1>5, <2>1, OpenIsKnown
  <2>2. CASE w.conn # c
    BY <1>5, <2>2, OpenIsKnown
  <2> QED BY <2>1, <2>2
<1>9. GridAgrees' /\ RowsAreFromsOrOff'
  <2>1. CASE at # c
    <3>1. \A k : Inserting(k) => Inserting(k)'
      BY <1>1 DEF Inserting
    <3> QED BY <1>1, <1>2, <2>1, <3>1, GridFrame, ShownFrame DEF ShownInv, grid
  <2>2. CASE at = c
    <3>1. Reset(Brought(c)) /\ from' = c /\ off' = fetch[c].since
      BY <1>2, <2>2
    <3>2. \A w \in OpenWrites : w.conn = c => w.ref.pk \in off'
      BY <1>2, <3>1, OpenIsKnown
    <3> QED BY <1>1, <1>3, <1>4, <3>1, <3>2, ResetShown
  <2> QED BY <2>1, <2>2
<1> QED BY <1>6, <1>7, <1>8, <1>9 DEF ShownInv

(* A write makes what was read before it old.                              *)
LEMMA MissedShown ==
  ASSUME ShownInv, EditTyped, EditTyped', NEW c \in Conns, NEW k \in Pks, Missed(c, k), UNCHANGED cache,
         \A d \in Conns : \A j \in Pks : (d # c \/ j # k) => server'[d][j] = server[d][j],
         \A w \in OpenWrites' : (w.conn = c /\ w.ref.pk = k) \/ w \in OpenWrites
  PROVE  CachesAgree' /\ ReadsAgree' /\ OpenAreKnown'
<1>1. /\ \A d \in Conns : /\ written'[d] = IF d = c THEN written[d] \cup {k} ELSE written[d]
                          /\ fetch'[d].stage = fetch[d].stage /\ fetch'[d].rows = fetch[d].rows
                          /\ fetch[d].stage = "read" =>
                                fetch'[d].since = IF d = c THEN fetch[d].since \cup {k} ELSE fetch[d].since
  <2>1. fetch \in [Conns -> Reads] /\ written \in [Conns -> SUBSET Pks]
    BY DEF EditTyped, FetchTyped, HistoryTyped
  <2>2. fetch' = [fetch EXCEPT ![c] = [fetch[c] EXCEPT !.since = IF fetch[c].stage = "read" THEN @ \cup {k} ELSE @]]
    BY <2>1 DEF Missed
  <2>3. \A d \in Conns : written'[d] = IF d = c THEN written[d] \cup {k} ELSE written[d]
    BY <2>1 DEF Missed
  <2>4. \A d \in Conns : d # c => fetch'[d] = fetch[d]
    BY <2>1, <2>2
  <2>5. /\ fetch'[c].stage = fetch[c].stage /\ fetch'[c].rows = fetch[c].rows
        /\ fetch[c].stage = "read" => fetch'[c].since = fetch[c].since \cup {k}
    BY <2>1, <2>2 DEF Reads
  <2> QED BY <2>3, <2>4, <2>5
<1>2. CachesAgree'
  <2> SUFFICES ASSUME NEW d \in Conns, cache[d] # None, NEW j \in Pks \ written'[d]
               PROVE  Held(cache[d], j) = RowOf(server'[d][j])
    BY DEF CachesAgree, Held, RowOf
  <2>1. j \in Pks \ written[d] /\ server'[d][j] = server[d][j]
    BY <1>1
  <2> QED BY <2>1 DEF ShownInv, CachesAgree
<1>3. ReadsAgree'
  <2> SUFFICES ASSUME NEW d \in Conns, fetch'[d].stage = "read", NEW j \in Pks \ fetch'[d].since
               PROVE  Cell(fetch'[d].rows, j) = RowOf(server'[d][j])
    BY DEF ReadsAgree, Cell, RowOf
  <2>1. /\ fetch[d].stage = "read" /\ j \in Pks \ fetch[d].since
        /\ server'[d][j] = server[d][j] /\ fetch'[d].rows = fetch[d].rows
    BY <1>1
  <2> QED BY <2>1 DEF ShownInv, ReadsAgree
<1>4. OpenAreKnown'
  <2> SUFFICES ASSUME NEW w \in OpenWrites'
               PROVE  /\ cache'[w.conn] # None => w.ref.pk \in written'[w.conn]
                      /\ fetch'[w.conn].stage = "read" => w.ref.pk \in fetch'[w.conn].since
    BY DEF OpenAreKnown
  <2>1. CASE w.conn = c /\ w.ref.pk = k
    BY <1>1, <2>1
  <2>2. CASE w \in OpenWrites
    BY <1>1, <2>2, OpenIsKnown
  <2> QED BY <2>1, <2>2
<1> QED BY <1>2, <1>3, <1>4

LEMMA WrittenShown ==
  ASSUME ShownInv, EditTyped, EditTyped', NEW c \in Conns, NEW k \in Pks, Written(c, k), UNCHANGED cache,
         \A d \in Conns : \A j \in Pks : (d # c \/ j # k) => server'[d][j] = server[d][j],
         \A w \in OpenWrites' : (w.conn = c /\ w.ref.pk = k) \/ w \in OpenWrites
  PROVE  /\ CachesAgree' /\ ReadsAgree' /\ OpenAreKnown' /\ ReloadAgrees'
         /\ \A j : Inserting(j) => Inserting(j)'
<1>1. CachesAgree' /\ ReadsAgree' /\ OpenAreKnown'
  BY MissedShown DEF Written
<1>2. ins # None => /\ ins' # None /\ ins'.stage = ins.stage /\ ins'.pk = ins.pk /\ ins'.conn = ins.conn
                    /\ ins'.rows = ins.rows /\ ins.conn \in Conns
                    /\ ins'.since = IF ins.conn = c THEN ins.since \cup {k} ELSE ins.since
  <2> SUFFICES ASSUME ins # None
               PROVE  /\ ins' # None /\ ins'.stage = ins.stage /\ ins'.pk = ins.pk /\ ins'.conn = ins.conn
                      /\ ins'.rows = ins.rows /\ ins.conn \in Conns
                      /\ ins'.since = IF ins.conn = c THEN ins.since \cup {k} ELSE ins.since
    OBVIOUS
  <2>1. ins \in InsertCall
    BY DEF EditTyped, InsTyped
  <2>2. ins' = IF ins.conn = c THEN [ins EXCEPT !.since = @ \cup {k}] ELSE ins
    BY DEF Written
  <2>3. ins' \in InsertCall
    BY <2>1, <2>2 DEF InsertCall
  <2>4. ins' # None
    BY <2>3, NoneIsNoCall
  <2> QED BY <2>1, <2>2, <2>4 DEF InsertCall
<1>3. ins = None => ins' = None
  BY DEF Written
<1>4. ReloadAgrees'
  BY <1>2, <1>3 DEF ShownInv, ReloadAgrees
<1>5. \A j : Inserting(j) => Inserting(j)'
  BY <1>2 DEF Inserting
<1> QED BY <1>1, <1>4, <1>5

(* Where no write of a row of the grid is open, its array is what the      *)
(* server has.                                                             *)
LEMMA ArrayAgrees ==
  ASSUME EditTyped, NEW r \in rows, Agrees(r.pk), OpenAt(r.pk) = {}, from \in Conns,
         server[from][r.pk] # Gone
  PROVE  server[from][r.pk] = r.vals
<1>1. Shown(r.pk) = {server[from][r.pk]}
  BY DEF Agrees, RowOf
<1>2. r.vals \in Shown(r.pk)
  BY DEF Shown
<1> QED BY <1>1, <1>2

(* Saves: the open write of a call is what its columns leave.              *)
SaveWrite(s, ok) == [by |-> s, ref |-> saves[s].ref, conn |-> saves[s].conn, leaves |-> Over(ok, saves[s].ref.vals)]

LEMMA OpenOfASave ==
  ASSUME EditTyped, NEW s \in Slots, saves[s] # None
  PROVE  {x \in OpenWrites : x.by = s} = IF saves[s].ok = <<>> THEN {} ELSE {SaveWrite(s, saves[s].ok)}
<1>1. s # 0 /\ s # -1
  BY BoundsAreNumbers DEF Slots
<1>2. ASSUME NEW x \in OpenWrites, x.by = s
      PROVE  saves[s].ok # <<>> /\ x = SaveWrite(s, saves[s].ok)
  BY <1>1, <1>2 DEF OpenWrites, SaveWrite
<1>3. saves[s].ok # <<>> => SaveWrite(s, saves[s].ok) \in OpenWrites
  BY DEF OpenWrites, SaveWrite
<1>4. SaveWrite(s, saves[s].ok).by = s
  BY DEF SaveWrite
<1> QED BY <1>2, <1>3, <1>4

\* The open writes after a call's record is replaced.
LEMMA OpenAfterSave ==
  ASSUME EditTyped, NEW s \in Slots, NEW call, saves'[s] = call, UNCHANGED <<del, form>>,
         \A q \in Slots : q # s => saves'[q] = saves[q]
  PROVE  OpenWrites' = {x \in OpenWrites : x.by # s} \cup
                 (IF call = None \/ call.ok = <<>> THEN {}
                  ELSE {[by |-> s, ref |-> call.ref, conn |-> call.conn, leaves |-> Over(call.ok, call.ref.vals)]})
<1> DEFINE SaveOf(q, cl) == [by |-> q, ref |-> cl.ref, conn |-> cl.conn, leaves |-> Over(cl.ok, cl.ref.vals)]
           Busy == {q \in Slots : saves[q] # None /\ saves[q].ok # <<>>}
           Others == (IF del = None THEN {}
                      ELSE {[by |-> 0, ref |-> r, conn |-> del.conn, leaves |-> Gone] : r \in del.done})
                     \cup (IF form = None \/ ~form.sent THEN {}
                           ELSE {[by |-> -1, ref |-> form.ref, conn |-> form.conn,
                                  leaves |-> [form.ref.vals EXCEPT ![form.draft.col] = form.draft.val]]})
<1>1. saves'[s] = call /\ \A q \in Slots : q # s => saves'[q] = saves[q]
  OBVIOUS
<1>2. OpenWrites = {SaveOf(q, saves[q]) : q \in Busy} \cup Others
  BY DEF OpenWrites
<1>3. OpenWrites' = {SaveOf(q, saves'[q]) : q \in Busy'} \cup Others
  BY DEF OpenWrites
<1>4. Busy' = (Busy \ {s}) \cup (IF call = None \/ call.ok = <<>> THEN {} ELSE {s})
  BY <1>1
<1>5. \A x \in Others : x.by # s
  BY BoundsAreNumbers DEF Slots
<1>6. \A q, cl : SaveOf(q, cl).by = q
  OBVIOUS
<1> HIDE DEF SaveOf, Busy, Others
<1>7. {SaveOf(q, saves'[q]) : q \in Busy'}
        = {SaveOf(q, saves[q]) : q \in Busy \ {s}} \cup (IF call = None \/ call.ok = <<>> THEN {} ELSE {SaveOf(s, call)})
  <2>1. \A q \in Busy \ {s} : saves'[q] = saves[q]
    BY <1>1 DEF Busy
  <2> QED BY <1>1, <1>4, <2>1
<1>8. {x \in OpenWrites : x.by # s} = {SaveOf(q, saves[q]) : q \in Busy \ {s}} \cup Others
  BY <1>2, <1>5, <1>6
<1> QED BY <1>3, <1>7, <1>8 DEF SaveOf

LEMMA OverPut ==
  ASSUME NEW vals \in Row, NEW ok \in Some(Cols, Vals), NEW col \in Cols, NEW v \in Vals
  PROVE  /\ Over(Put(ok, col, v), vals) = With(Over(ok, vals), col, v)
         /\ Over(<<>>, vals) = vals /\ Over(ok, vals) \in Row /\ Put(ok, col, v) # <<>>
<1>1. \A y \in DOMAIN ok : ok[y] \in Vals
  BY SomeDef
<1>2. /\ DOMAIN Put(ok, col, v) = DOMAIN ok \cup {col} /\ Put(ok, col, v)[col] = v
      /\ \A y \in DOMAIN ok : y # col => Put(ok, col, v)[y] = ok[y]
  BY DEF Put
<1>3. DOMAIN <<>> = {}
  BY SomeEmpty
<1>4. Put(ok, col, v) # <<>>
  BY <1>2, <1>3
<1>5. Over(ok, vals) \in Row
  BY <1>1 DEF Over, Row
<1>6. Over(<<>>, vals) = vals
  BY <1>3 DEF Over, Row
<1>7. Over(Put(ok, col, v), vals) = With(Over(ok, vals), col, v)
  <2> DEFINE f == Over(Put(ok, col, v), vals)
             g == [Over(ok, vals) EXCEPT ![col] = v]
  <2>1. f = [y \in Cols |-> f[y]] /\ g = [y \in Cols |-> g[y]]
    BY DEF Over, Row
  <2>2. \A y \in Cols : f[y] = g[y]
    BY <1>2 DEF Over, Row
  <2> HIDE DEF f, g
  <2>3. f = g
    BY <2>1, <2>2
  <2> QED BY <2>3 DEF f, g, With
<1> QED BY <1>4, <1>5, <1>6, <1>7

(* A column that was written joins what is open of its row.                *)
LEMMA OpenAfterColumn ==
  ASSUME EditTyped, NEW s \in Slots, saves[s] # None, NEW col \in DOMAIN saves[s].todo,
         UNCHANGED <<del, form>>, saves'[s] = LeftOk(s, col), \A q \in Slots : q # s => saves'[q] = saves[q]
  PROVE  OpenWrites' = {x \in OpenWrites : x.by # s}
                         \cup {SaveWrite(s, Put(saves[s].ok, col, saves[s].todo[col].val))}
<1> DEFINE call == LeftOk(s, col)
<1>1. saves'[s] = call /\ UNCHANGED <<del, form>>
  OBVIOUS
<1>2. PICK ok : ok = Put(saves[s].ok, col, saves[s].todo[col].val)
  OBVIOUS
<1>3. ok # <<>>
  <2>1. /\ saves[s].ref.vals \in Row /\ saves[s].ok \in Some(Cols, Vals) /\ col \in Cols
        /\ saves[s].todo[col].val \in Vals
    BY SaveCallParts DEF EditTyped
  <2> QED BY <1>2, <2>1, OverPut
<1>4. call.ok = ok /\ call.ref = saves[s].ref /\ call.conn = saves[s].conn /\ call # None
  BY <1>2, LeftTyped, NoneIsNoCallYet DEF EditTyped
<1> HIDE DEF call
<1>5. OpenWrites' = {x \in OpenWrites : x.by # s} \cup
              (IF call = None \/ call.ok = <<>> THEN {}
               ELSE {[by |-> s, ref |-> call.ref, conn |-> call.conn, leaves |-> Over(call.ok, call.ref.vals)]})
  BY <1>1, OpenAfterSave
<1> QED BY <1>2, <1>3, <1>4, <1>5 DEF SaveWrite

(* A column is saved: what is open of the row is what its columns leave.   *)
LEMMA ColumnSaved ==
  ASSUME ShownInv, EditTyped, EditTyped', NEW s \in Slots, saves[s] # None,
         NEW c \in Conns, NEW k \in Pks, NEW col \in DOMAIN saves[s].todo, NEW v \in Vals,
         c = saves[s].conn, k = saves[s].ref.pk, v = saves[s].todo[col].val,
         UNCHANGED <<cache, from, rows, off, del, form>>, Written(c, k),
         server[c][k] # Gone, server'[c][k] = With(server[c][k], col, v),
         \A d \in Conns : \A j \in Pks : d # c \/ j # k => server'[d][j] = server[d][j],
         saves'[s] = LeftOk(s, col), \A q \in Slots : q # s => saves'[q] = saves[q]
  PROVE  ShownInv'
<1>1. saves[s].ref.vals \in Row /\ saves[s].ok \in Some(Cols, Vals) /\ col \in Cols
  BY SaveCallParts DEF EditTyped
<1>2. PICK ok : ok = Put(saves[s].ok, col, v)
  OBVIOUS
<1>3. /\ ok # <<>> /\ Over(ok, saves[s].ref.vals) = With(Over(saves[s].ok, saves[s].ref.vals), col, v)
      /\ Over(<<>>, saves[s].ref.vals) = saves[s].ref.vals
  BY <1>1, <1>2, OverPut
<1>4. PICK w : w = SaveWrite(s, ok)
  OBVIOUS
<1>5. w.ref = saves[s].ref /\ w.ref.pk = k /\ w.conn = c /\ w.by = s /\ w.leaves = Over(ok, saves[s].ref.vals)
  BY <1>4 DEF SaveWrite
<1>6. OpenWrites' = {x \in OpenWrites : x.by # s} \cup {w}
  BY <1>2, <1>4, OpenAfterColumn
<1>7. PICK before \in SUBSET OpenWrites : before = {x \in OpenWrites : x.by = s}
  OBVIOUS
<1>8. before = IF saves[s].ok = <<>> THEN {} ELSE {SaveWrite(s, saves[s].ok)}
  BY <1>7, OpenOfASave
<1>9. /\ CachesAgree' /\ ReadsAgree' /\ OpenAreKnown' /\ ReloadAgrees'
      /\ \A j : Inserting(j) => Inserting(j)'
  <2>1. \A x \in OpenWrites' : (x.conn = c /\ x.ref.pk = k) \/ x \in OpenWrites
    BY <1>5, <1>6
  <2> QED BY <2>1, WrittenShown
<1>10. RowsAreFromsOrOff'
  BY ShownFrame
<1>11. ASSUME w.conn = from, w.ref \in rows, OpenAt(k) \subseteq before, Agrees(k)
       PROVE  server'[from][k] = w.leaves
  <2>1. server[from][k] = Over(saves[s].ok, saves[s].ref.vals)
    <3>1. CASE saves[s].ok = <<>>
      <4>1. OpenAt(k) = {}
        BY <1>8, <1>11, <3>1
      <4>2. server[from][k] = saves[s].ref.vals
        BY <1>5, <1>11, <4>1, ArrayAgrees
      <4> QED BY <1>3, <3>1, <4>2
    <3>2. CASE saves[s].ok # <<>>
      <4>1. SaveWrite(s, saves[s].ok) \in OpenWrites
        BY <1>8, <3>2
      <4>2. SaveWrite(s, saves[s].ok) \in OpenAt(k)
        BY <4>1 DEF OpenAt, SaveWrite
      <4> QED BY <1>11, <4>2 DEF Agrees, SaveWrite
    <3> QED BY <3>1, <3>2
  <2> QED BY <1>3, <1>5, <1>11, <2>1
<1>12. GridAgrees'
  <2>1. /\ OpenWrites' = (OpenWrites \ before) \cup {w} /\ (w \in OpenWrites => w \in before)
        /\ \A x \in before : x.ref = w.ref /\ x.conn = w.conn
        /\ \A x, y \in before : x = y
    BY <1>5, <1>6, <1>7, <1>8 DEF SaveWrite
  <2>2. w.ref.pk \in Pks /\ GridAgrees /\ RowsAreFromsOrOff /\ UNCHANGED <<rows, from, off>>
    BY <1>5 DEF ShownInv
  <2>3. \A d \in Conns : \A j \in Pks : d # w.conn \/ j # w.ref.pk => server'[d][j] = server[d][j]
    BY <1>5
  <2>4. w.conn = from /\ w.ref \in rows /\ OpenAt(w.ref.pk) \subseteq before /\ Agrees(w.ref.pk)
        => server'[from][w.ref.pk] = w.leaves
    BY <1>5, <1>11
  <2>5. \A j \in Pks : Inserting(j) => Inserting(j)'
    BY <1>9
  <2> QED BY <2>1, <2>2, <2>3, <2>4, <2>5, WriteAccounted
<1> QED BY <1>9, <1>10, <1>12 DEF ShownInv

(* Or its answer is lost, or the server made something else of the row,    *)
(* and the row is off.                                                     *)
LEMMA RowIsOff ==
  ASSUME ShownInv, EditTyped, EditTyped', NEW c \in Conns, NEW k \in Pks, Written(c, k),
         UNCHANGED <<cache, from, rows>>, off' = off \cup {k},
         \A d \in Conns : \A j \in Pks : d # c \/ j # k => server'[d][j] = server[d][j],
         \A w \in OpenWrites' : (w.conn = c /\ w.ref.pk = k) \/ w \in OpenWrites,
         \A w \in OpenWrites : w.ref.pk = k \/ w \in OpenWrites'
  PROVE  ShownInv'
<1>1. /\ CachesAgree' /\ ReadsAgree' /\ OpenAreKnown' /\ ReloadAgrees'
      /\ \A j : Inserting(j) => Inserting(j)'
  BY WrittenShown
<1>2. RowsAreFromsOrOff'
  BY ShownFrame
<1>3. from # None => from \in Conns
  BY DEF EditTyped, CountsTyped
<1>4. GridAgrees'
  <2> SUFFICES ASSUME from # None, NEW j \in Pks \ off' PROVE Accounted(j)'
    BY DEF GridAgrees
  <2>1. Accounted(j) /\ j # k
    BY DEF ShownInv, GridAgrees
  <2>2. server'[from][j] = server[from][j]
    BY <1>3, <2>1
  <2>3. OpenAt(j)' = OpenAt(j) /\ Shown(j)' = Shown(j)
    BY <2>1 DEF OpenAt, Shown
  <2>4. \A w \in OpenAt(j) : Astray(w.ref, w.conn) => Astray(w.ref, w.conn)'
    BY DEF Astray
  <2> QED BY <1>1, <2>1, <2>2, <2>3, <2>4, StaysAccounted
<1> QED BY <1>1, <1>2, <1>4 DEF ShownInv

LEMMA UpdateShown ==
  ASSUME ShownInv, EditTyped, EditTyped', NEW s \in Slots, Update(s)
  PROVE  ShownInv'
<1>1. saves[s] # None /\ UNCHANGED <<cache, at, from, rows, del, form>>
  BY UpdateCases DEF grid
<1>2. PICK col \in DOMAIN saves[s].todo :
         ColumnWritten(s, col, saves[s].conn, saves[s].ref.pk, saves[s].todo[col].val) \/ ColumnRefused(s, col)
  BY UpdateCases
<1>3. PICK c \in Conns, k \in Pks, v \in Vals :
         c = saves[s].conn /\ k = saves[s].ref.pk /\ v = saves[s].todo[col].val
  BY <1>1, SaveCallParts DEF EditTyped
<1>4. ASSUME saves' = [saves EXCEPT ![s] = Left(s, col)]
      PROVE  OpenWrites' = OpenWrites
  <2> DEFINE call == Left(s, col)
  <2>1. /\ saves'[s] = call /\ UNCHANGED <<del, form>>
        /\ \A q \in Slots : q # s => saves'[q] = saves[q]
    BY <1>1, <1>4 DEF EditTyped, SavesTyped
  <2>2. call.ok = saves[s].ok /\ call.ref = saves[s].ref /\ call.conn = saves[s].conn /\ call # None
    BY <1>1, LeftTyped, NoneIsNoCallYet DEF EditTyped
  <2> HIDE DEF call
  <2>3. OpenWrites' = {x \in OpenWrites : x.by # s} \cup
                (IF call = None \/ call.ok = <<>> THEN {}
                 ELSE {[by |-> s, ref |-> call.ref, conn |-> call.conn, leaves |-> Over(call.ok, call.ref.vals)]})
    BY <2>1, OpenAfterSave
  <2>4. {x \in OpenWrites : x.by = s} = IF saves[s].ok = <<>> THEN {} ELSE {SaveWrite(s, saves[s].ok)}
    BY <1>1, OpenOfASave
  <2>5. OpenWrites' = {x \in OpenWrites : x.by # s} \cup {x \in OpenWrites : x.by = s}
    BY <2>2, <2>3, <2>4 DEF SaveWrite
  <2> QED BY <2>5
<1>5. CASE ColumnRefused(s, col)
  BY <1>1, <1>4, <1>5, EditsShown DEF ColumnRefused
<1>6. CASE ColumnWritten(s, col, c, k, v)
  <2>1. PICK made \in Changes(c, k, col, v) :
           /\ server' = [server EXCEPT ![c][k] = made] /\ Written(c, k)
           /\ \/ /\ saves' = [saves EXCEPT ![s] = LeftOk(s, col)]
                 /\ off' = off \cup Remade(c, k, col, v, made)
              \/ saves' = [saves EXCEPT ![s] = Left(s, col)] /\ off' = off \cup {k}
    BY <1>6 DEF ColumnWritten
  <2>2. col \in Cols /\ ServerTyped
    BY <1>1, SaveCallParts DEF EditTyped
  <2>3. made \in Row /\ server[c][k] # Gone /\ Typed(c, k, col, v) = With(server[c][k], col, v)
    BY <2>1, <2>2, MadeTyped
  <2>4. /\ server'[c][k] = made
        /\ \A d \in Conns : \A j \in Pks : d # c \/ j # k => server'[d][j] = server[d][j]
    BY <2>1, <2>2, <2>3 DEF ServerTyped
  <2>5. Written(c, k)
    BY <2>1
  <2>6. CASE saves' = [saves EXCEPT ![s] = LeftOk(s, col)] /\ off' = off \cup Remade(c, k, col, v, made)
    <3>1. saves'[s] = LeftOk(s, col) /\ \A q \in Slots : q # s => saves'[q] = saves[q]
      BY <2>6 DEF EditTyped, SavesTyped
    <3>2. CASE made = Typed(c, k, col, v)
      <4>1. UNCHANGED <<cache, from, rows, off, del, form>> /\ server'[c][k] = With(server[c][k], col, v)
        BY <1>1, <2>3, <2>4, <2>6, <3>2 DEF Remade
      <4> QED BY <1>1, <1>3, <2>3, <2>4, <2>5, <3>1, <4>1, ColumnSaved
    <3>3. CASE made # Typed(c, k, col, v)
      <4>1. UNCHANGED <<cache, from, rows>> /\ off' = off \cup {k}
        BY <1>1, <2>6, <3>3 DEF Remade
      <4>2. PICK w : w = SaveWrite(s, Put(saves[s].ok, col, saves[s].todo[col].val))
        OBVIOUS
      <4>3. w.conn = c /\ w.ref.pk = k
        BY <1>3, <4>2 DEF SaveWrite
      <4>4. OpenWrites' = {x \in OpenWrites : x.by # s} \cup {w}
        BY <1>1, <3>1, <4>2, OpenAfterColumn
      <4>5. \A x \in OpenWrites : x.by = s => x.ref.pk = k
        BY <1>1, <1>3, OpenOfASave DEF SaveWrite
      <4> QED BY <2>4, <2>5, <4>1, <4>3, <4>4, <4>5, RowIsOff
    <3> QED BY <3>2, <3>3
  <2>7. CASE saves' = [saves EXCEPT ![s] = Left(s, col)] /\ off' = off \cup {k}
    <3>1. OpenWrites' = OpenWrites
      BY <1>4, <2>7
    <3> QED BY <1>1, <2>4, <2>5, <2>7, <3>1, RowIsOff
  <2> QED BY <2>1, <2>6, <2>7
<1> QED BY <1>2, <1>3, <1>5, <1>6

(* A row is deleted: it is open, Gone.                                     *)
LEMMA DeleteShown ==
  ASSUME ShownInv, EditTyped, EditTyped', Delete
  PROVE  ShownInv'
<1>1. del # None /\ UNCHANGED <<cache, from, rows, off, saves, form>>
  BY DEF Delete, grid
<1>2. PICK r \in del.todo :
         /\ server' = [server EXCEPT ![del.conn][r.pk] = Gone]
         /\ Written(del.conn, r.pk)
         /\ del' = [del EXCEPT !.todo = @ \ {r}, !.done = @ \cup {r}]
  BY DEF Delete
<1>3. PICK c \in Conns, k \in Pks : c = del.conn /\ k = r.pk
  BY <1>1, DoneAreKeys
<1>4. Written(c, k)
  BY <1>2, <1>3
<1>5. /\ server'[c][k] = Gone
      /\ \A d \in Conns : \A j \in Pks : d # c \/ j # k => server'[d][j] = server[d][j]
  <2>1. server' = [server EXCEPT ![c][k] = Gone]
    BY <1>2, <1>3
  <2> QED BY <2>1 DEF EditTyped, ServerTyped
<1>6. PICK w : w = [by |-> 0, ref |-> r, conn |-> del.conn, leaves |-> Gone]
  OBVIOUS
<1>7. w.ref = r /\ w.ref.pk = k /\ w.conn = c /\ w.leaves = Gone
  BY <1>3, <1>6
<1>8. OpenWrites' = OpenWrites \cup {w}
  <2>1. del \in DeleteCalls(gen)
    BY <1>1 DEF EditTyped, DelTyped
  <2>2. del' \in DeleteCalls(gen) /\ del'.done = del.done \cup {r} /\ del'.conn = del.conn
    BY <1>2, <2>1 DEF DeleteCalls
  <2>3. del' # None
    BY <2>2, NoneIsNoCallYet
  <2>4. {[by |-> 0, ref |-> q, conn |-> del'.conn, leaves |-> Gone] : q \in del'.done}
          = {[by |-> 0, ref |-> q, conn |-> del.conn, leaves |-> Gone] : q \in del.done} \cup {w}
    BY <1>6, <2>2
  <2> QED BY <1>1, <2>3, <2>4 DEF OpenWrites
<1>9. /\ CachesAgree' /\ ReadsAgree' /\ OpenAreKnown' /\ ReloadAgrees'
      /\ \A j : Inserting(j) => Inserting(j)'
  <2>1. \A x \in OpenWrites' : (x.conn = c /\ x.ref.pk = k) \/ x \in OpenWrites
    BY <1>7, <1>8
  <2> QED BY <1>1, <1>4, <1>5, <2>1, WrittenShown
<1>10. RowsAreFromsOrOff'
  BY <1>1, ShownFrame
<1>11. GridAgrees'
  <2>1. PICK before \in SUBSET OpenWrites : before = {x \in OpenWrites : x = w}
    OBVIOUS
  <2>2. /\ OpenWrites' = (OpenWrites \ before) \cup {w} /\ (w \in OpenWrites => w \in before)
        /\ \A x \in before : x.ref = w.ref /\ x.conn = w.conn
        /\ \A x, y \in before : x = y
    BY <1>8, <2>1
  <2>3. w.ref.pk \in Pks /\ GridAgrees /\ RowsAreFromsOrOff /\ UNCHANGED <<rows, from, off>>
    BY <1>1, <1>7 DEF ShownInv
  <2>4. \A d \in Conns : \A j \in Pks : d # w.conn \/ j # w.ref.pk => server'[d][j] = server[d][j]
    BY <1>5, <1>7
  <2>5. w.conn = from /\ w.ref \in rows /\ OpenAt(w.ref.pk) \subseteq before /\ Agrees(w.ref.pk)
        => server'[from][w.ref.pk] = w.leaves
    BY <1>5, <1>7
  <2>6. \A j \in Pks : Inserting(j) => Inserting(j)'
    BY <1>9
  <2> QED BY <2>2, <2>3, <2>4, <2>5, <2>6, WriteAccounted
<1> QED BY <1>9, <1>10, <1>11 DEF ShownInv

(* What the deletions of a call leave open, and what is open besides.      *)
LEMMA OpenOfTheDeletion ==
  ASSUME EditTyped, del # None, del' = None, UNCHANGED <<saves, form>>
  PROVE  /\ OpenWrites' = {x \in OpenWrites : x.by # 0}
         /\ \A x \in OpenWrites : x.by = 0 => x.ref \in del.done /\ x.conn = del.conn /\ x.leaves = Gone
         /\ \A r \in del.done : \E x \in OpenWrites : x.by = 0 /\ x.ref = r
<1> DEFINE Done == {[by |-> 0, ref |-> r, conn |-> del.conn, leaves |-> Gone] : r \in del.done}
           Others == {[by |-> s, ref |-> saves[s].ref, conn |-> saves[s].conn,
                       leaves |-> Over(saves[s].ok, saves[s].ref.vals)] :
                         s \in {q \in Slots : saves[q] # None /\ saves[q].ok # <<>>}}
                     \cup (IF form = None \/ ~form.sent THEN {}
                           ELSE {[by |-> -1, ref |-> form.ref, conn |-> form.conn,
                                  leaves |-> [form.ref.vals EXCEPT ![form.draft.col] = form.draft.val]]})
<1>1. OpenWrites = Done \cup Others /\ OpenWrites' = Others
  BY DEF OpenWrites
<1>2. \A x \in Others : x.by # 0
  BY BoundsAreNumbers DEF Slots
<1>3. /\ \A x \in Done : x.by = 0 /\ x.ref \in del.done /\ x.conn = del.conn /\ x.leaves = Gone
      /\ \A r \in del.done : \E x \in Done : x.by = 0 /\ x.ref = r
  <2>1. \A x \in Done : x.by = 0 /\ x.ref \in del.done /\ x.conn = del.conn /\ x.leaves = Gone
    OBVIOUS
  <2>2. ASSUME NEW r \in del.done
        PROVE  \E x \in Done : x.by = 0 /\ x.ref = r
    <3>1. [by |-> 0, ref |-> r, conn |-> del.conn, leaves |-> Gone] \in Done
      OBVIOUS
    <3> QED BY <3>1
  <2> QED BY <2>1, <2>2
<1> HIDE DEF Done, Others
<1> QED BY <1>1, <1>2, <1>3

LEMMA DeleteFailsShown ==
  ASSUME ShownInv, EditTyped, EditTyped', DeleteFails
  PROVE  ShownInv'
<1>1. del # None /\ del' = None /\ UNCHANGED <<server, cache, fetch, from, rows, ins, written, saves, form>>
  BY DEF DeleteFails, grid
<1>2. off' = off \cup {r.pk : r \in del.done}
  BY DEF DeleteFails
<1>3. PICK answered \in SUBSET OpenWrites : answered = {x \in OpenWrites : x.by = 0}
  OBVIOUS
<1>4. /\ OpenWrites' = OpenWrites \ answered /\ \A x \in answered : x.ref \in del.done
  BY <1>1, <1>3, OpenOfTheDeletion
<1>5. CachesAgree' /\ ReadsAgree' /\ ReloadAgrees' /\ OpenAreKnown' /\ RowsAreFromsOrOff'
  BY <1>1, <1>2, <1>4, ShownFrame
<1>6. GridAgrees'
  <2>1. \A k \in Pks : Inserting(k) => Inserting(k)'
    BY <1>1 DEF Inserting
  <2>2. \A k \in Pks \ off' : /\ \A w \in answered : w.ref.pk # k
                              /\ Shown(k)' = Shown(k)
    BY <1>1, <1>2, <1>4 DEF Shown
  <2>3. GridAgrees /\ UNCHANGED <<server, from>> /\ off \subseteq off'
    BY <1>1, <1>2 DEF ShownInv
  <2>4. \A w \in OpenWrites' : w.ref \in rows' => w.ref \in rows
    BY <1>1
  <2>5. \A k \in Pks \ off' :
           \/ /\ \A w \in answered : w.ref.pk # k
              /\ OpenAt(k) = {} => Shown(k)' = Shown(k)
           \/ \E w \in answered :
                /\ w.ref.pk = k /\ ~Astray(w.ref, w.conn)
                /\ \A x \in answered : x.ref.pk = k => x = w
                /\ \A x \in OpenWrites' : x.ref.pk = k => x.ref \notin rows'
                /\ Shown(k)' = RowOf(w.leaves)
    BY <2>2
  <2> QED BY <1>4, <2>1, <2>3, <2>4, <2>5, AnswerAccounted
<1> QED BY <1>5, <1>6 DEF ShownInv

(* The deletions are answered: those of rows that are in the grid are      *)
(* shown, and the others are off.                                          *)
LEMMA DeletedShown ==
  ASSUME ShownInv, EditTyped, EditTyped', Deleted
  PROVE  ShownInv'
<1>1. /\ del # None /\ del' = None /\ UNCHANGED <<server, cache, fetch, from, ins, written, saves, form>>
      /\ rows' = rows \ del.done
  BY DEF Deleted, SetLocalRows
<1>2. off' = off \cup {r.pk : r \in {q \in del.done : Astray(q, del.conn)}}
  BY DEF Deleted
<1>3. PICK answered \in SUBSET OpenWrites : answered = {x \in OpenWrites : x.by = 0}
  OBVIOUS
<1>4. /\ OpenWrites' = OpenWrites \ answered
      /\ \A x \in answered : x.ref \in del.done /\ x.conn = del.conn /\ x.leaves = Gone
      /\ \A r \in del.done : \E x \in answered : x.ref = r
  BY <1>1, <1>3, OpenOfTheDeletion
<1>5. CachesAgree' /\ ReadsAgree' /\ ReloadAgrees' /\ OpenAreKnown'
  BY <1>1, <1>4, ShownFrame
<1>6. RowsAreFromsOrOff'
  BY <1>1, <1>2 DEF ShownInv, RowsAreFromsOrOff, EditTyped, HistoryTyped
<1>7. Keyed(rows)
  BY DEF EditTyped, RowsTyped
<1>8. ASSUME NEW k \in Pks \ off', NEW w \in answered, w.ref.pk = k
      PROVE  /\ ~Astray(w.ref, w.conn)
             /\ \A x \in answered : x.ref.pk = k => x.ref = w.ref
             /\ \A x \in OpenWrites' : x.ref.pk = k => x.ref \notin rows'
             /\ Shown(k)' = {} /\ w.leaves = Gone
  <2>1. \A x \in answered : x.ref.pk = k => ~Astray(x.ref, x.conn)
    BY <1>2, <1>4
  <2>2. \A x \in answered : x.ref.pk = k => x.ref \in rows
    BY <2>1 DEF Astray
  <2>3. \A r \in rows : r.pk = k => r = w.ref
    BY <1>7, <1>8, <2>2 DEF Keyed
  <2>4. \A r \in rows' : r.pk # k
    BY <1>1, <1>4, <2>3
  <2>5. Shown(k)' = {}
    BY <2>4 DEF Shown
  <2> QED BY <1>4, <1>8, <2>1, <2>2, <2>3, <2>4, <2>5
<1>9. ASSUME NEW k \in Pks \ off', \A w \in answered : w.ref.pk # k
      PROVE  Shown(k)' = Shown(k)
  <2>1. \A r \in rows : r.pk = k => r \notin del.done
    BY <1>4, <1>9
  <2>2. {q \in rows' : q.pk = k} = {q \in rows : q.pk = k}
    BY <1>1, <2>1
  <2> QED BY <2>2 DEF Shown
<1>10. GridAgrees'
  <2>1. \A k \in Pks : Inserting(k) => Inserting(k)'
    BY <1>1 DEF Inserting
  <2>2. GridAgrees /\ UNCHANGED <<server, from>> /\ off \subseteq off'
    BY <1>1, <1>2 DEF ShownInv
  <2>3. \A w \in OpenWrites' : w.ref \in rows' => w.ref \in rows
    BY <1>1
  <2>4. \A x, y \in answered : x.ref = y.ref => x = y
    <3>1. \A x \in OpenWrites : x.by = 0 => x = [by |-> 0, ref |-> x.ref, conn |-> del.conn, leaves |-> Gone]
      BY BoundsAreNumbers DEF OpenWrites, Slots
    <3> QED BY <1>3, <3>1
  <2>5. \A k \in Pks \ off' :
           \/ /\ \A w \in answered : w.ref.pk # k
              /\ OpenAt(k) = {} => Shown(k)' = Shown(k)
           \/ \E w \in answered :
                /\ w.ref.pk = k /\ ~Astray(w.ref, w.conn)
                /\ \A x \in answered : x.ref.pk = k => x = w
                /\ \A x \in OpenWrites' : x.ref.pk = k => x.ref \notin rows'
                /\ Shown(k)' = RowOf(w.leaves)
    BY <1>8, <1>9, <2>4 DEF RowOf
  <2> QED BY <1>4, <2>1, <2>2, <2>3, <2>5, AnswerAccounted
<1> QED BY <1>5, <1>6, <1>10 DEF ShownInv

(* The new row is in the table, and the reload of the insertion to come.   *)
LEMMA InsertShown ==
  ASSUME ShownInv, EditTyped, EditTyped', Insert
  PROVE  ShownInv'
<1>1. /\ ins # None /\ ins.stage = "insert" /\ UNCHANGED <<cache, from, rows, off, saves, del, form>>
      /\ server' = [server EXCEPT ![ins.conn][ins.pk] = ins.row] /\ Missed(ins.conn, ins.pk)
      /\ ins' = [ins EXCEPT !.stage = "reload"]
  BY DEF Insert, grid
<1>2. ins \in InsertCall
  BY <1>1 DEF EditTyped, InsTyped
<1>3. PICK c \in Conns, k \in Pks : c = ins.conn /\ k = ins.pk
  BY <1>2 DEF InsertCall
<1>4. Missed(c, k)
  BY <1>1, <1>3
<1>5. \A d \in Conns : \A j \in Pks : d # c \/ j # k => server'[d][j] = server[d][j]
  <2>1. server' = [server EXCEPT ![c][k] = ins.row]
    BY <1>1, <1>3
  <2> QED BY <2>1 DEF EditTyped, ServerTyped
<1>6. OpenWrites' = OpenWrites
  BY <1>1, OpenFrame
<1>7. CachesAgree' /\ ReadsAgree' /\ OpenAreKnown'
  BY <1>1, <1>4, <1>5, <1>6, MissedShown
<1>8. RowsAreFromsOrOff'
  BY <1>1, ShownFrame
<1>9. ins' \in InsertCall /\ ins'.stage = "reload" /\ ins'.pk = k /\ ins' # None
  <2>1. ins' \in InsertCall /\ ins'.stage = "reload" /\ ins'.pk = k
    BY <1>1, <1>2, <1>3 DEF InsertCall
  <2> QED BY <2>1, NoneIsNoCall
<1>10. ReloadAgrees'
  BY <1>9 DEF ReloadAgrees
<1>11. GridAgrees'
  <2> SUFFICES ASSUME from # None, NEW j \in Pks \ off PROVE Accounted(j)'
    BY <1>1 DEF GridAgrees
  <2>1. CASE j = k
    BY <1>9, <2>1 DEF Accounted, Inserting
  <2>2. CASE j # k
    <3>1. Accounted(j) /\ from \in Conns
      BY DEF ShownInv, GridAgrees, EditTyped, CountsTyped
    <3>2. ~Inserting(j) /\ server'[from][j] = server[from][j]
      BY <1>1, <1>5, <2>2, <3>1 DEF Inserting
    <3>3. OpenAt(j)' = OpenAt(j) /\ Shown(j)' = Shown(j)
      BY <1>1, <1>6 DEF OpenAt, Shown
    <3>4. \A w \in OpenAt(j) : Astray(w.ref, w.conn) => Astray(w.ref, w.conn)'
      BY <1>1 DEF Astray
    <3> QED BY <1>1, <3>1, <3>2, <3>3, <3>4, StaysAccounted
  <2> QED BY <2>1, <2>2
<1> QED BY <1>7, <1>8, <1>10, <1>11 DEF ShownInv

(* The other steps of an insertion.  What it put in is off if it fails     *)
(* after that, and what the reload shows is what the server has.           *)
LEMMA InsertedShown ==
  ASSUME ShownInv, EditTyped, EditTyped', Inserted
  PROVE  ShownInv'
<1>1. /\ ins # None /\ ins.stage = "show" /\ ins' = None
      /\ UNCHANGED <<server, cache, fetch, from, written, saves, del, form>>
      /\ rows' = Refs(ins.conn, ins.rows, gen)
      /\ off' = IF ins.conn = from THEN ins.since ELSE Pks
  BY DEF Inserted, SetLocalRows
<1>2. OpenWrites' = OpenWrites
  BY <1>1, OpenFrame
<1>3. CachesAgree' /\ ReadsAgree' /\ OpenAreKnown' /\ ReloadAgrees'
  BY <1>1, <1>2, ShownFrame DEF ReloadAgrees
<1>4. ins.conn \in Conns /\ ins.rows \in Tables /\ gen \in Nat
  BY <1>1 DEF EditTyped, InsTyped, InsertCall, CountsTyped
<1>5. /\ Keyed(rows')
      /\ \A r \in rows' : r.of = ins.conn /\ r.gen = gen /\ r.pk \in DOMAIN ins.rows /\ r.vals = ins.rows[r.pk]
  BY <1>1, <1>4, RefsOfATable
<1>6. \A k \in DOMAIN ins.rows : \E r \in rows' : r.pk = k
  <2> SUFFICES ASSUME NEW k \in DOMAIN ins.rows PROVE \E r \in rows' : r.pk = k
    OBVIOUS
  <2> DEFINE r == [of |-> ins.conn, pk |-> k, gen |-> gen, vals |-> ins.rows[k]]
  <2>1. r \in rows' /\ r.pk = k
    BY <1>1 DEF Refs
  <2> QED BY <2>1
<1>7. RowsAreFromsOrOff'
  BY <1>1, <1>5 DEF RowsAreFromsOrOff
<1>8. \A w \in OpenWrites' : Astray(w.ref, w.conn)'
  <2>1. \A w \in OpenWrites : w.ref.gen # gen
    BY <1>4, OpenTyped DEF Arrays
  <2> QED BY <1>2, <1>5, <2>1 DEF Astray
<1>9. ASSUME NEW k \in Pks \ off'
      PROVE  Shown(k)' = RowOf(server'[from'][k])
  <2>1. ins.conn = from /\ k \in Pks \ ins.since
    BY <1>1, <1>9
  <2>2. Cell(ins.rows, k) = RowOf(server[from][k])
    BY <1>1, <2>1 DEF ShownInv, ReloadAgrees
  <2>3. Shown(k)' = Cell(ins.rows, k)
    <3>1. CASE k \in DOMAIN ins.rows
      <4>1. PICK r \in rows' : r.pk = k
        BY <1>6, <3>1
      <4>2. ins.rows[k] \in Shown(k)'
        BY <1>5, <4>1 DEF Shown
      <4>3. \A x \in Shown(k)' : x = ins.rows[k]
        BY <1>5 DEF Shown
      <4> QED BY <3>1, <4>2, <4>3 DEF Cell
    <3>2. CASE k \notin DOMAIN ins.rows
      <4>1. Shown(k)' = {}
        BY <1>5, <3>2 DEF Shown
      <4> QED BY <3>2, <4>1 DEF Cell
    <3> QED BY <3>1, <3>2
  <2> QED BY <1>1, <2>2, <2>3
<1>10. GridAgrees'
  BY <1>8, <1>9, AnewAccounted
<1> QED BY <1>3, <1>7, <1>10 DEF ShownInv

LEMMA InsertsShown ==
  ASSUME ShownInv, EditTyped, EditTyped', ConfirmInsert \/ InsertFails \/ Reload
  PROVE  ShownInv'
<1>1. /\ UNCHANGED <<server, cache, fetch, from, rows, written, saves, del, form>>
      /\ off \subseteq off'
  BY DEF ConfirmInsert, InsertFails, Reload, grid, history
<1>2. OpenWrites' = OpenWrites
  BY <1>1, OpenFrame
<1>3. CachesAgree' /\ ReadsAgree' /\ OpenAreKnown' /\ RowsAreFromsOrOff'
  BY <1>1, <1>2, ShownFrame
<1>4. (\A k \in Pks \ off' : Inserting(k) => Inserting(k)') => GridAgrees'
  BY <1>1, <1>2, GridFrame DEF ShownInv
<1>5. CASE ConfirmInsert
  <2>1. ins = None /\ ins'.stage = "insert"
    BY <1>5 DEF ConfirmInsert
  <2> QED BY <1>3, <1>4, <2>1 DEF Inserting, ReloadAgrees, ShownInv
<1>6. CASE InsertFails
  <2>1. ins' = None /\ off' = IF ins.stage = "insert" THEN off ELSE off \cup {ins.pk}
    BY <1>6 DEF InsertFails
  <2> QED BY <1>3, <1>4, <2>1 DEF Inserting, ReloadAgrees, ShownInv
<1>7. CASE Reload
  <2>1. ins # None /\ ins.stage = "reload" /\ ins \in InsertCall
    BY <1>7 DEF Reload, EditTyped, InsTyped
  <2>2. ins.conn \in Conns /\ Present(server[ins.conn]) \in Tables /\ Unanswered \subseteq Pks
    BY <2>1, PresentIsATable, UnansweredAreKeys DEF InsertCall, EditTyped
  <2>3. /\ ins' \in InsertCall /\ ins'.stage = "show" /\ ins'.pk = ins.pk /\ ins'.conn = ins.conn
        /\ ins'.rows = Present(server[ins.conn])
    BY <1>7, <2>1, <2>2 DEF Reload, InsertCall
  <2>4. ins' # None
    BY <2>3, NoneIsNoCall
  <2>5. \A k \in Pks : Cell(Present(server[ins.conn]), k) = RowOf(server[ins.conn][k])
    <3>1. /\ DOMAIN Present(server[ins.conn]) = {k \in Pks : server[ins.conn][k] # Gone}
          /\ \A k \in DOMAIN Present(server[ins.conn]) : Present(server[ins.conn])[k] = server[ins.conn][k]
      BY <2>2, PresentIsATable DEF EditTyped
    <3> QED BY <3>1 DEF Cell, RowOf
  <2>6. ReloadAgrees'
    <3> SUFFICES ASSUME NEW k \in Pks \ ins'.since
                 PROVE  Cell(ins'.rows, k) = RowOf(server'[ins'.conn][k])
      BY DEF ReloadAgrees, Cell, RowOf
    <3> QED BY <1>1, <2>3, <2>5
  <2>7. \A k : Inserting(k) => Inserting(k)'
    BY <2>1, <2>3, <2>4 DEF Inserting
  <2> QED BY <1>3, <1>4, <2>6, <2>7 DEF ShownInv
<1> QED BY <1>5, <1>6, <1>7

(* The write of a form call, and what is open besides.                     *)
FormWrite == [by |-> -1, ref |-> form.ref, conn |-> form.conn,
              leaves |-> With(form.ref.vals, form.draft.col, form.draft.val)]

LEMMA OpenOfTheForm ==
  ASSUME UNCHANGED <<saves, del>>, EditTyped
  PROVE  /\ form # None /\ form.sent /\ form' = None => OpenWrites' = {x \in OpenWrites : x.by # -1}
         /\ form # None /\ form.sent => \A x \in OpenWrites : x.by = -1 <=> x = FormWrite
         /\ form # None /\ form.sent => FormWrite \in OpenWrites
         /\ form # None /\ ~form.sent /\ form' = None => OpenWrites' = OpenWrites
         /\ /\ form # None /\ ~form.sent /\ form' # None /\ form'.sent
            /\ form'.ref = form.ref /\ form'.conn = form.conn /\ form'.draft = form.draft
            => OpenWrites' = OpenWrites \cup {FormWrite}
<1> DEFINE Others == {[by |-> s, ref |-> saves[s].ref, conn |-> saves[s].conn,
                       leaves |-> Over(saves[s].ok, saves[s].ref.vals)] :
                         s \in {q \in Slots : saves[q] # None /\ saves[q].ok # <<>>}}
                     \cup (IF del = None THEN {}
                           ELSE {[by |-> 0, ref |-> r, conn |-> del.conn, leaves |-> Gone] : r \in del.done})
<1>1. OpenWrites = Others \cup (IF form = None \/ ~form.sent THEN {} ELSE {FormWrite})
  BY DEF OpenWrites, FormWrite, With
<1>2. OpenWrites' = Others \cup (IF form' = None \/ ~form'.sent THEN {} ELSE {FormWrite'})
  BY DEF OpenWrites, FormWrite, With
<1>3. \A x \in Others : x.by # -1
  BY BoundsAreNumbers DEF Slots
<1>4. FormWrite.by = -1
  BY DEF FormWrite
<1>5. form'.ref = form.ref /\ form'.conn = form.conn /\ form'.draft = form.draft
      => FormWrite' = FormWrite
  BY DEF FormWrite, With
<1> HIDE DEF Others
<1> QED BY <1>1, <1>2, <1>3, <1>4, <1>5

LEMMA FormUpdateShown ==
  ASSUME ShownInv, EditTyped, EditTyped', FormUpdate
  PROVE  ShownInv'
<1>1. form # None /\ ~form.sent /\ UNCHANGED <<cache, from, rows, saves, del>>
  BY DEF FormUpdate, grid
<1>2. PICK c \in Conns, k \in Pks, col \in Cols, v \in Vals :
         c = form.conn /\ k = form.ref.pk /\ col = form.draft.col /\ v = form.draft.val
  BY <1>1, FormCallParts
<1>3. CASE form' = None /\ UNCHANGED <<server, fetch, written, ins, off>>
  <2>1. OpenWrites' = OpenWrites
    BY <1>1, <1>3, OpenOfTheForm
  <2> QED BY <1>1, <1>3, <2>1, EditsShown
<1>4. ASSUME NEW made \in Changes(c, k, col, v),
             server' = [server EXCEPT ![c][k] = made], Written(c, k),
             \/ form' = [form EXCEPT !.sent = TRUE] /\ off' = off \cup Remade(c, k, col, v, made)
             \/ form' = None /\ off' = off \cup {k}
      PROVE  ShownInv'
  <2>1. ServerTyped
    BY DEF EditTyped
  <2>2. /\ server[c][k] # Gone /\ made \in Row
        /\ Typed(c, k, col, v) = With(server[c][k], col, v)
    BY <2>1, MadeTyped
  <2>3. server'[c][k] = made
    BY <1>4, <2>1, <2>2, RowTyped
  <2>4. \A d \in Conns : \A j \in Pks : d # c \/ j # k => server'[d][j] = server[d][j]
    BY <1>4, <2>1, <2>2, RowTyped
  <2>5. Written(c, k)
    BY <1>4
  <2>6. CASE form' = None /\ off' = off \cup {k}
    <3>1. OpenWrites' = OpenWrites
      BY <1>1, <2>6, OpenOfTheForm
    <3> QED BY <1>1, <2>4, <2>5, <2>6, <3>1, RowIsOff
  <2>7. CASE form' = [form EXCEPT !.sent = TRUE] /\ off' = off \cup Remade(c, k, col, v, made)
    <3>1. /\ form' \in FormCalls(gen) /\ form'.sent /\ form'.ref = form.ref /\ form'.conn = form.conn
          /\ form'.draft = form.draft
      <4>1. form \in FormCalls(gen)
        BY <1>1, FormCallParts
      <4> QED BY <2>7, <4>1 DEF FormCalls
    <3>2. form' # None
      BY <3>1, NoneIsNoCallYet
    <3>3. PICK w : w = FormWrite
      OBVIOUS
    <3>4. /\ w.ref = form.ref /\ w.ref.pk = k /\ w.conn = c /\ w.leaves = With(form.ref.vals, col, v)
          /\ w.by = -1
      BY <1>2, <3>3 DEF FormWrite
    <3>5. OpenWrites' = OpenWrites \cup {w}
      BY <1>1, <3>1, <3>2, <3>3, OpenOfTheForm
    <3>6. w \notin OpenWrites
      <4>1. \A x \in OpenWrites : x.by # -1
        BY <1>1, BoundsAreNumbers DEF OpenWrites, Slots
      <4> QED BY <3>4, <4>1
    <3>7. CASE made = Typed(c, k, col, v)
      <4>1. off' = off /\ server'[c][k] = With(server[c][k], col, v)
        BY <2>2, <2>3, <2>7, <3>7 DEF Remade
      <4>2. /\ CachesAgree' /\ ReadsAgree' /\ OpenAreKnown' /\ ReloadAgrees'
            /\ \A j : Inserting(j) => Inserting(j)'
        <5>1. \A x \in OpenWrites' : (x.conn = c /\ x.ref.pk = k) \/ x \in OpenWrites
          BY <3>4, <3>5
        <5> QED BY <1>1, <2>4, <2>5, <5>1, WrittenShown
      <4>3. RowsAreFromsOrOff'
        BY <1>1, <4>1, ShownFrame
      <4>4. ASSUME w.conn = from, w.ref \in rows, OpenAt(k) = {}, Agrees(k)
            PROVE  server'[from][k] = w.leaves
        <5>1. server[from][k] = form.ref.vals
          BY <2>2, <3>4, <4>4, ArrayAgrees
        <5> QED BY <3>4, <4>1, <4>4, <5>1
      <4>5. GridAgrees'
        <5>1. PICK before \in SUBSET OpenWrites : before = {}
          OBVIOUS
        <5>2. /\ OpenWrites' = (OpenWrites \ before) \cup {w} /\ (w \in OpenWrites => w \in before)
              /\ \A x \in before : x.ref = w.ref /\ x.conn = w.conn
              /\ \A x, y \in before : x = y
          BY <3>5, <3>6, <5>1
        <5>3. w.ref.pk \in Pks /\ GridAgrees /\ RowsAreFromsOrOff /\ UNCHANGED <<rows, from, off>>
          BY <1>1, <4>1, <3>4 DEF ShownInv
        <5>4. \A d \in Conns : \A j \in Pks : d # w.conn \/ j # w.ref.pk => server'[d][j] = server[d][j]
          BY <2>4, <3>4
        <5>5. w.conn = from /\ w.ref \in rows /\ OpenAt(w.ref.pk) \subseteq before /\ Agrees(w.ref.pk)
              => server'[from][w.ref.pk] = w.leaves
          BY <3>4, <4>4, <5>1
        <5>6. \A j \in Pks : Inserting(j) => Inserting(j)'
          BY <4>2
        <5> QED BY <5>2, <5>3, <5>4, <5>5, <5>6, WriteAccounted
      <4> QED BY <4>2, <4>3, <4>5 DEF ShownInv
    <3>8. CASE made # Typed(c, k, col, v)
      <4>1. off' = off \cup {k}
        BY <2>7, <3>8 DEF Remade
      <4> QED BY <1>1, <2>4, <2>5, <3>4, <3>5, <4>1, RowIsOff
    <3> QED BY <3>7, <3>8
  <2> QED BY <1>4, <2>6, <2>7
<1>5. \/ form' = None /\ UNCHANGED <<server, fetch, written, ins, off>>
      \/ \E made \in Changes(c, k, col, v) :
           /\ server' = [server EXCEPT ![c][k] = made] /\ Written(c, k)
           /\ \/ form' = [form EXCEPT !.sent = TRUE] /\ off' = off \cup Remade(c, k, col, v, made)
              \/ form' = None /\ off' = off \cup {k}
  BY <1>2 DEF FormUpdate
<1> QED BY <1>3, <1>4, <1>5

(* The rows are copied, and the one at the place of the call takes the     *)
(* value in: it is that row, or both are off.                              *)
LEMMA OnRowUpdateShown ==
  ASSUME ShownInv, EditTyped, EditTyped', OnRowUpdate
  PROVE  ShownInv'
<1>1. /\ form # None /\ form.sent /\ form' = None
      /\ UNCHANGED <<server, cache, fetch, from, ins, written, saves, del>>
      /\ rows' = {Copied(r) : r \in rows}
  BY DEF OnRowUpdate, SetLocalRows
<1>2. off' = IF form.ref \in AtRank(rows, form.pos) /\ ~Astray(form.ref, form.conn) THEN off
             ELSE off \cup {form.ref.pk} \cup {r.pk : r \in AtRank(rows, form.pos)}
  BY DEF OnRowUpdate
<1>3. PICK w \in OpenWrites : w = FormWrite
  BY <1>1, OpenOfTheForm
<1>4. PICK answered \in SUBSET OpenWrites : answered = {w}
  OBVIOUS
<1>5. OpenWrites' = OpenWrites \ answered
  <2>1. OpenWrites' = {x \in OpenWrites : x.by # -1} /\ \A x \in OpenWrites : x.by = -1 <=> x = w
    BY <1>1, <1>3, OpenOfTheForm
  <2> QED BY <1>4, <2>1
<1>6. w.ref = form.ref /\ w.conn = form.conn /\ w.leaves = With(form.ref.vals, form.draft.col, form.draft.val)
  BY <1>3 DEF FormWrite
<1>7. \A r \in rows : /\ Copied(r).gen = gen /\ Copied(r).pk = r.pk /\ Copied(r).of = r.of
                      /\ Copied(r).vals = IF Rank(rows, r.pk) = form.pos
                                          THEN With(r.vals, form.draft.col, form.draft.val) ELSE r.vals
  BY <1>1, CopiedTyped DEF With
<1>8. CachesAgree' /\ ReadsAgree' /\ ReloadAgrees' /\ OpenAreKnown'
  BY <1>1, <1>5, ShownFrame
<1>9. RowsAreFromsOrOff'
  BY <1>1, <1>2, <1>7 DEF ShownInv, RowsAreFromsOrOff, EditTyped, HistoryTyped
<1>10. \A x \in OpenWrites : x.ref \notin rows'
  <2>1. gen \in Nat /\ \A x \in OpenWrites : x.ref.gen # gen
    BY OpenTyped DEF Arrays, EditTyped, CountsTyped
  <2> QED BY <1>1, <1>7, <2>1
<1>11. \A r, q \in rows : Rank(rows, r.pk) = form.pos /\ Rank(rows, q.pk) = form.pos => r = q
  BY GridRanks DEF AtRank
<1>12. ASSUME NEW k \in Pks \ off', k # w.ref.pk
       PROVE  Shown(k)' = Shown(k)
  <2>1. \A r \in rows : r.pk = k => Rank(rows, r.pk) # form.pos
    BY <1>2, <1>6, <1>11, <1>12 DEF AtRank
  <2>2. \A r \in rows : r.pk = k => Copied(r).vals = r.vals /\ Copied(r).pk = k
    BY <1>7, <2>1
  <2>3. \A x \in rows' : x.pk = k => \E r \in rows : r.pk = k /\ r.vals = x.vals
    BY <1>1, <1>7, <2>2
  <2>4. \A r \in rows : r.pk = k => \E x \in rows' : x.pk = k /\ x.vals = r.vals
    BY <1>1, <2>2
  <2> QED BY <2>3, <2>4 DEF Shown
<1>13. ASSUME w.ref.pk \notin off'
       PROVE  ~Astray(w.ref, w.conn) /\ Shown(w.ref.pk)' = RowOf(w.leaves)
  <2>1. /\ form.ref \in rows /\ Rank(rows, form.ref.pk) = form.pos /\ ~Astray(form.ref, form.conn)
        /\ Keyed(rows)
    BY <1>2, <1>6, <1>13 DEF AtRank, EditTyped, RowsTyped
  <2>2. Copied(form.ref) \in rows' /\ Copied(form.ref).pk = form.ref.pk /\ Copied(form.ref).vals = w.leaves
    BY <1>1, <1>6, <1>7, <2>1
  <2>3. \A x \in rows' : x.pk = form.ref.pk => x = Copied(form.ref)
    BY <1>1, <1>7, <2>1 DEF Keyed
  <2>4. Shown(w.ref.pk)' = {w.leaves}
    BY <1>6, <2>2, <2>3 DEF Shown
  <2>5. w.leaves # Gone
    <3>1. form.ref.vals \in Row /\ form.draft.col \in Cols /\ form.draft.val \in Vals
      BY <1>1, FormCallParts
    <3>2. With(form.ref.vals, form.draft.col, form.draft.val) \in Row
      BY <3>1 DEF With, Row
    <3> QED BY <1>6, <3>2, Apart DEF Row
  <2> QED BY <1>6, <2>1, <2>4, <2>5 DEF RowOf
<1>14. GridAgrees'
  <2>1. \A k \in Pks : Inserting(k) => Inserting(k)'
    BY <1>1 DEF Inserting
  <2>2. GridAgrees /\ UNCHANGED <<server, from>> /\ off \subseteq off'
    BY <1>1, <1>2 DEF ShownInv
  <2>3. \A x \in OpenWrites' : x.ref \in rows' => x.ref \in rows
    BY <1>5, <1>10
  <2>4. ASSUME NEW k \in Pks \ off'
        PROVE  \/ /\ \A y \in answered : y.ref.pk # k
                  /\ OpenAt(k) = {} => Shown(k)' = Shown(k)
               \/ \E y \in answered :
                    /\ y.ref.pk = k /\ ~Astray(y.ref, y.conn)
                    /\ \A x \in answered : x.ref.pk = k => x = y
                    /\ \A x \in OpenWrites' : x.ref.pk = k => x.ref \notin rows'
                    /\ Shown(k)' = RowOf(y.leaves)
    <3>1. CASE k # w.ref.pk
      BY <1>4, <1>12, <3>1
    <3>2. CASE k = w.ref.pk
      BY <1>4, <1>5, <1>10, <1>13, <3>2
    <3> QED BY <3>1, <3>2
  <2> QED BY <1>5, <2>1, <2>2, <2>3, <2>4, AnswerAccounted
<1> QED BY <1>8, <1>9, <1>14 DEF ShownInv

(* The saved columns are shown, if the row is in the grid yet; if not, it  *)
(* is off.                                                                 *)
LEMMA FinishShown ==
  ASSUME ShownInv, EditTyped, EditTyped', NEW s \in Slots, Finish(s)
  PROVE  ShownInv'
<1>1. /\ saves[s] # None /\ UNCHANGED <<server, cache, fetch, from, ins, written, del, form>>
      /\ IF saves[s].ok # <<>> /\ saves[s].ref \in rows
         THEN rows' = (rows \ {saves[s].ref}) \cup {Merged(saves[s])} ELSE rows' = rows
      /\ off' = IF saves[s].ok # <<>> /\ Astray(saves[s].ref, saves[s].conn)
                THEN off \cup {saves[s].ref.pk} ELSE off
  BY FinishCases DEF SetLocalRows, grid
<1>2. PICK answered \in SUBSET OpenWrites : answered = {x \in OpenWrites : x.by = s}
  OBVIOUS
<1>3. answered = IF saves[s].ok = <<>> THEN {} ELSE {SaveWrite(s, saves[s].ok)}
  BY <1>1, <1>2, OpenOfASave
<1>4. OpenWrites' = OpenWrites \ answered
  <2>1. PICK next \in After(saves[s], pending', saves[s].conn) : saves' = [saves EXCEPT ![s] = next]
    BY FinishCases
  <2>2. next = None \/ next.ok = <<>>
    BY <2>1 DEF After, Save
  <2>3. saves'[s] = next /\ \A q \in Slots : q # s => saves'[q] = saves[q]
    BY <2>1 DEF EditTyped, SavesTyped
  <2>4. OpenWrites' = {x \in OpenWrites : x.by # s} \cup
                (IF next = None \/ next.ok = <<>> THEN {}
                 ELSE {[by |-> s, ref |-> next.ref, conn |-> next.conn, leaves |-> Over(next.ok, next.ref.vals)]})
    BY <1>1, <2>3, OpenAfterSave
  <2> QED BY <1>2, <2>2, <2>4
<1>5. CachesAgree' /\ ReadsAgree' /\ ReloadAgrees' /\ OpenAreKnown'
  BY <1>1, <1>4, ShownFrame
<1>6. /\ Merged(saves[s]).gen = gen /\ Merged(saves[s]).pk = saves[s].ref.pk
      /\ Merged(saves[s]).of = saves[s].ref.of
      /\ Merged(saves[s]).vals = Over(saves[s].ok, saves[s].ref.vals)
  BY <1>1, MergedTyped
<1>7. RowsAreFromsOrOff'
  BY <1>1, <1>6 DEF ShownInv, RowsAreFromsOrOff, EditTyped, HistoryTyped
<1>8. gen \in Nat /\ \A x \in OpenWrites : x.ref # Merged(saves[s])
  BY <1>6, OpenTyped DEF Arrays, EditTyped, CountsTyped
<1>9. ASSUME NEW k \in Pks \ off', saves[s].ok = <<>> \/ k # saves[s].ref.pk
      PROVE  Shown(k)' = Shown(k)
  <2>1. {q \in rows' : q.pk = k} = {q \in rows : q.pk = k}
    BY <1>1, <1>6, <1>9
  <2> QED BY <2>1 DEF Shown
<1>10. ASSUME NEW k \in Pks \ off', saves[s].ok # <<>>, k = saves[s].ref.pk
       PROVE  /\ ~Astray(saves[s].ref, saves[s].conn)
              /\ \A x \in OpenWrites' : x.ref.pk = k => x.ref \notin rows'
              /\ Shown(k)' = RowOf(Over(saves[s].ok, saves[s].ref.vals))
  <2>1. ~Astray(saves[s].ref, saves[s].conn) /\ saves[s].ref \in rows /\ Keyed(rows)
    BY <1>1, <1>10 DEF Astray, EditTyped, RowsTyped
  <2>2. {q \in rows' : q.pk = k} = {Merged(saves[s])}
    BY <1>1, <1>6, <1>10, <2>1 DEF Keyed
  <2>3. \A x \in OpenWrites' : x.ref.pk = k => x.ref \notin rows'
    BY <1>4, <1>8, <2>2
  <2>4. Shown(k)' = {Over(saves[s].ok, saves[s].ref.vals)}
    BY <1>6, <2>2 DEF Shown
  <2>5. Over(saves[s].ok, saves[s].ref.vals) # Gone
    <3>1. saves[s].ref.vals \in Row /\ saves[s].ok \in Some(Cols, Vals)
      BY <1>1, SaveCallParts DEF EditTyped
    <3>2. \A y \in DOMAIN saves[s].ok : saves[s].ok[y] \in Vals
      BY <3>1, SomeDef
    <3>3. Over(saves[s].ok, saves[s].ref.vals) \in Row
      BY <3>1, <3>2 DEF Over, Row
    <3> QED BY <3>3, Apart DEF Row
  <2> QED BY <2>1, <2>3, <2>4, <2>5 DEF RowOf
<1>11. GridAgrees'
  <2>1. \A k \in Pks : Inserting(k) => Inserting(k)'
    BY <1>1 DEF Inserting
  <2>2. GridAgrees /\ UNCHANGED <<server, from>> /\ off \subseteq off'
    BY <1>1 DEF ShownInv
  <2>3. \A x \in OpenWrites' : x.ref \in rows' => x.ref \in rows
    BY <1>1, <1>4, <1>8
  <2>4. ASSUME NEW k \in Pks \ off'
        PROVE  \/ /\ \A y \in answered : y.ref.pk # k
                  /\ OpenAt(k) = {} => Shown(k)' = Shown(k)
               \/ \E y \in answered :
                    /\ y.ref.pk = k /\ ~Astray(y.ref, y.conn)
                    /\ \A x \in answered : x.ref.pk = k => x = y
                    /\ \A x \in OpenWrites' : x.ref.pk = k => x.ref \notin rows'
                    /\ Shown(k)' = RowOf(y.leaves)
    <3>1. CASE saves[s].ok = <<>> \/ k # saves[s].ref.pk
      <4>1. \A y \in answered : y.ref.pk # k
        BY <1>3, <3>1 DEF SaveWrite
      <4> QED BY <1>9, <3>1, <4>1
    <3>2. CASE saves[s].ok # <<>> /\ k = saves[s].ref.pk
      <4>1. PICK w \in answered : w = SaveWrite(s, saves[s].ok)
        BY <1>3, <3>2
      <4>2. w.ref = saves[s].ref /\ w.conn = saves[s].conn /\ w.leaves = Over(saves[s].ok, saves[s].ref.vals)
        BY <4>1 DEF SaveWrite
      <4>3. \A x \in answered : x = w
        BY <1>3, <4>1
      <4> QED BY <1>10, <3>2, <4>2, <4>3
    <3> QED BY <3>1, <3>2
  <2> QED BY <1>4, <2>1, <2>2, <2>3, <2>4, AnswerAccounted
<1> QED BY <1>5, <1>7, <1>11 DEF ShownInv

-----------------------------------------------------------------------------
LEMMA ShownInvInit == EditInit => ShownInv
<1> SUFFICES ASSUME EditInit PROVE ShownInv
  OBVIOUS
<1> USE DEF EditInit
<1>1. OpenWrites = {}
  BY DEF OpenWrites
<1> QED BY <1>1 DEF ShownInv, GridAgrees, RowsAreFromsOrOff, CachesAgree, ReadsAgree, ReloadAgrees, OpenAreKnown, Idle

LEMMA OnlyEditsShown ==
  ASSUME ShownInv, EditTyped, EditTyped',
         \/ CancelEdit \/ DiscardAll \/ LeaveField \/ HandleNavigate \/ \E v \in Vals : ConfirmEdit(v)
         \/ \E r \in rows : \/ DiscardRow(r)
                            \/ \E col \in Cols : \/ StartEdit(r, col)
                                                 \/ \E v \in Vals : FillCell(r, col, v) \/ FormType(r, col, v)
  PROVE  ShownInv'
<1>1. UNCHANGED <<server, cache, fetch, from, rows, ins, written, off, saves, del, form>>
  BY DEF CancelEdit, DiscardAll, ConfirmEdit, DiscardRow, StartEdit, FillCell, LeaveField, HandleNavigate,
     FormType, history
<1>2. OpenWrites' = OpenWrites
  BY <1>1, OpenFrame
<1> QED BY <1>1, <1>2, EditsShown

LEMMA ShownInvStep == EditTyped /\ ShownInv /\ EditTyped' /\ [EditNext]_editVars => ShownInv'
<1> SUFFICES ASSUME EditTyped, ShownInv, EditTyped', [EditNext]_editVars PROVE ShownInv'
  OBVIOUS
<1>1. CASE \E r \in rows : OfRow(r)
  BY <1>1, OnlyEditsShown, BeginShown DEF OfRow
<1>2. CASE User /\ ~\E r \in rows : OfRow(r)
  BY <1>2, OnlyEditsShown, BeginShown, ReadsShown, SelectTableShown, InsertsShown DEF User
<1>3. CASE Calls
  BY <1>3, UpdateShown, FinishShown, ReadsShown, ArriveShown, DeleteShown, DeleteFailsShown, DeletedShown,
     InsertShown, InsertsShown, InsertedShown, FormUpdateShown, OnRowUpdateShown DEF Calls
<1>4. CASE UNCHANGED editVars
  <2>1. UNCHANGED <<server, cache, fetch, from, rows, ins, written, off, saves, del, form>>
    BY <1>4 DEF editVars, grid, history
  <2>2. OpenWrites' = OpenWrites
    BY <2>1, OpenFrame
  <2> QED BY <2>1, <2>2, EditsShown
<1> QED BY <1>1, <1>2, <1>3, <1>4 DEF EditNext

\* When it is quiet nothing is open, and every row that is not off agrees.
LEMMA ShownInvSuffices == EditTyped /\ ShownInv => ShownIsSaved
<1> SUFFICES ASSUME EditTyped, ShownInv, Quiet, NEW k \in Pks \ off
             PROVE  Shown(k) = IF server[at][k] = Gone THEN {} ELSE {server[at][k]}
  BY DEF ShownIsSaved
<1>1. from = at /\ from # None
  BY Apart DEF Quiet, Loading, EditTyped, CountsTyped
<1>2. OpenWrites = {} /\ ~Inserting(k)
  BY DEF Quiet, OpenWrites, Inserting
<1>3. Accounted(k)
  BY <1>1 DEF ShownInv, GridAgrees
<1> QED BY <1>1, <1>2, <1>3 DEF Accounted, Agrees, OpenAt, RowOf

(* When nothing is under way the grid shows what the server has, but for the *)
(* rows that are off, for any number of connections, rows, columns, values,  *)
(* saves and acts.                                                           *)
THEOREM GridShowsTheSaved == EditSpec => []ShownIsSaved
<1>1. EditInit => EditTyped /\ ShownInv
  BY EditTypedInit, ShownInvInit
<1>2. EditTyped /\ ShownInv /\ [EditNext]_editVars => (EditTyped /\ ShownInv)'
  BY EditTypedStep, ShownInvStep
<1>3. EditTyped /\ ShownInv => ShownIsSaved
  BY ShownInvSuffices
<1> QED BY <1>1, <1>2, <1>3, PTL DEF EditSpec
=============================================================================
