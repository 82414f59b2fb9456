---------------------------- MODULE ConnManager ----------------------------
(***************************************************************************)
(* The connection manager (src/internal/connection/manager.go) and the     *)
(* calls of the application that use it (src/app_connection.go).           *)
(*                                                                         *)
(* Wails runs every bound call in a goroutine of its own, so Connect,      *)
(* ConnectNew, Disconnect, Reconnect, TestConnection and the queries of    *)
(* several tabs interleave.  A member of Procs is one such goroutine; one  *)
(* action is what it does between two points where another can be seen:    *)
(* a section under m.mu, a network operation, the closing of a pool.       *)
(*                                                                         *)
(* A pool is a *sql.DB together with its SSH tunnel and the connEntry made *)
(* for it.  connectImpl draws a UUID and opens a pool in the same attempt, *)
(* so the UUID drawn by the attempt that opened pool h is written h: the   *)
(* runtime ids are the ids of saved configurations and the pool numbers.   *)
(***************************************************************************)
EXTENDS Naturals

CONSTANTS
    Procs,      \* goroutines serving calls
    Cfgs,       \* ids of saved connections (ConnectConfig.ID)
    NoCfg,      \* the empty ConnectConfig.ID of an unsaved connection
    Tunneled,   \* the configurations with UseSSH
    MaxPools    \* bound: how many pools one behaviour opens

Pools  == 1..MaxPools
NoPool == 0
NoId   == 0
Ids    == Cfgs \cup Pools

ASSUME ConstantsAssumption ==
    /\ MaxPools \in Nat
    /\ Cfgs \cap (Nat \cup {NoCfg}) = {}
    /\ NoCfg \notin Nat
    /\ Tunneled \subseteq Cfgs \cup {NoCfg}

VARIABLES
    conns,      \* Manager.conns: runtime id -> pool, NoPool when absent
    db,         \* state of each pool's *sql.DB
    tunnel,     \* state of each pool's SSH tunnel
    poolCfg,    \* entry.info.CfgID of each pool
    infoId,     \* entry.info.ID of each pool
    pc, op,     \* where each call stands, and which call it is
    target,     \* the connID argument of the call
    cfg,        \* the cfg.ID the call connects with
    held        \* the pool the call has a pointer to

poolVars == <<db, tunnel, poolCfg, infoId>>
callVars == <<pc, op, target, cfg, held>>
vars     == <<conns, poolVars, callVars>>

ConnectOps == {"connect", "connectNew", "test"}
SessionOps == {"disconnect", "reconnect", "use"}
Ops        == ConnectOps \cup SessionOps \cup {"none"}
Stages     == {"idle", "open", "ping", "remap", "probe",
               "lookup", "detach", "closeDb", "closeTunnel", "getDb", "run"}

(* The stages in which a call alone can reach the pool it holds.           *)
Private(p) == pc[p] \in {"ping", "closeDb", "closeTunnel"}

(* The stages in which a call works with a pool that was opened.           *)
Holding(p) == Private(p) \/ pc[p] \in {"remap", "probe", "run"}

TypeOK ==
    /\ conns \in [Ids -> Pools \cup {NoPool}]
    /\ db \in [Pools -> {"unused", "open", "closed"}]
    /\ tunnel \in [Pools -> {"none", "open", "closed"}]
    /\ poolCfg \in [Pools -> Cfgs \cup {NoCfg}]
    /\ infoId \in [Pools -> Ids]
    /\ pc \in [Procs -> Stages]
    /\ op \in [Procs -> Ops]
    /\ target \in [Procs -> Ids \cup {NoId}]
    /\ cfg \in [Procs -> Cfgs \cup {NoCfg}]
    /\ held \in [Procs -> Pools \cup {NoPool}]
    /\ \A p \in Procs : Holding(p) => held[p] # NoPool
    /\ \A p \in Procs :
        \/ pc[p] \in {"probe", "detach", "lookup", "remap", "getDb"}
        \/ op[p] = "reconnect"
        => target[p] # NoId

Init ==
    /\ conns = [id \in Ids |-> NoPool]
    /\ db = [h \in Pools |-> "unused"]
    /\ tunnel = [h \in Pools |-> "none"]
    /\ poolCfg = [h \in Pools |-> NoCfg]
    /\ infoId = [h \in Pools |-> h]
    /\ pc = [p \in Procs |-> "idle"]
    /\ op = [p \in Procs |-> "none"]
    /\ target = [p \in Procs |-> NoId]
    /\ cfg = [p \in Procs |-> NoCfg]
    /\ held = [p \in Procs |-> NoPool]

-----------------------------------------------------------------------------
(* Helpers.                                                                *)

Goto(p, stage) == pc' = [pc EXCEPT ![p] = stage]

(* The call returns: its arguments and local variables are gone.           *)
Return(p) ==
    /\ Goto(p, "idle")
    /\ op' = [op EXCEPT ![p] = "none"]
    /\ target' = [target EXCEPT ![p] = NoId]
    /\ cfg' = [cfg EXCEPT ![p] = NoCfg]
    /\ held' = [held EXCEPT ![p] = NoPool]

(* ConnectAsNewSession is asked for by ConnectNew and by the Reconnect of  *)
(* a session whose runtime id is not its saved id.                         *)
ForcesNewId(p) ==
    \/ op[p] = "connectNew"
    \/ op[p] = "reconnect" /\ cfg[p] # target[p]

(* connectImpl's choice of the runtime id, once pool h is opened.          *)
RuntimeId(p, h) == IF ForcesNewId(p) \/ cfg[p] = NoCfg THEN h ELSE cfg[p]

(* What follows Disconnect in the call that made it: Reconnect goes on to  *)
(* connect, whatever Disconnect returned.                                  *)
AfterDisconnect(p) ==
    IF op[p] = "reconnect"
    THEN /\ Goto(p, "open")
         /\ held' = [held EXCEPT ![p] = NoPool]
         /\ UNCHANGED <<op, target, cfg>>
    ELSE Return(p)

(* The pools GetDB may return for an id: the entry under that runtime id,  *)
(* else any entry of that saved id (Go's map order decides).               *)
Lookup(id) ==
    IF conns[id] # NoPool THEN {conns[id]}
    ELSE {h \in {conns[i] : i \in Ids} \ {NoPool} : poolCfg[h] = id}

ShutTunnel(h) ==
    tunnel' = [tunnel EXCEPT ![h] = IF @ = "open" THEN "closed" ELSE @]

-----------------------------------------------------------------------------
(* A call arrives.  The ones that connect bring a configuration, the       *)
(* others a connID: of a live session, a closed one or a saved connection. *)

CallConnect(p, o, c) ==
    /\ pc[p] = "idle"
    /\ op' = [op EXCEPT ![p] = o]
    /\ cfg' = [cfg EXCEPT ![p] = c]
    /\ Goto(p, "open")
    /\ UNCHANGED <<conns, poolVars, target, held>>

CallSession(p, o, id) ==
    /\ pc[p] = "idle"
    /\ op' = [op EXCEPT ![p] = o]
    /\ target' = [target EXCEPT ![p] = id]
    /\ Goto(p, CASE o = "disconnect" -> "detach"
                 [] o = "reconnect"  -> "lookup"
                 [] o = "use"        -> "getDb")
    /\ UNCHANGED <<conns, poolVars, cfg, held>>

-----------------------------------------------------------------------------
(* connectImpl.                                                            *)

(* The keychain cannot be read, the tunnel does not come up or the proxy   *)
(* cannot be registered: nothing was acquired and the call returns.        *)
OpenFails(p) ==
    /\ pc[p] = "open"
    /\ Return(p)
    /\ UNCHANGED <<conns, poolVars>>

(* The tunnel, if the configuration wants one, and sql.Open.               *)
Open(p) ==
    /\ pc[p] = "open"
    /\ \E h \in Pools :
        /\ db[h] = "unused"
        /\ \A g \in Pools : g < h => db[g] # "unused"
        /\ db' = [db EXCEPT ![h] = "open"]
        /\ tunnel' = [tunnel EXCEPT ![h] =
                           IF cfg[p] \in Tunneled THEN "open" ELSE "none"]
        /\ poolCfg' = [poolCfg EXCEPT ![h] = cfg[p]]
        /\ held' = [held EXCEPT ![p] = h]
    /\ Goto(p, "ping")
    /\ UNCHANGED <<conns, infoId, op, target, cfg>>

(* Fault: a failed ping returns without closing what it opened.            *)
PingFailsLeaks(p) ==
    /\ pc[p] = "ping"
    /\ Return(p)
    /\ UNCHANGED <<conns, poolVars>>

PingFails(p) ==
    /\ pc[p] = "ping"
    /\ db' = [db EXCEPT ![held[p]] = "closed"]
    /\ ShutTunnel(held[p])
    /\ Return(p)
    /\ UNCHANGED <<conns, poolCfg, infoId>>

(* The ping succeeds; the entry goes into the map under m.mu, over the     *)
(* entry that may be there already.                                        *)
Register(p) ==
    LET h  == held[p]
        id == RuntimeId(p, h) IN
    /\ pc[p] = "ping"
    /\ conns' = [conns EXCEPT ![id] = h]
    /\ infoId' = [infoId EXCEPT ![h] = id]
    /\ \/ /\ op[p] = "test"
          /\ Goto(p, "probe")
          /\ target' = [target EXCEPT ![p] = id]
          /\ UNCHANGED <<op, cfg, held>>
       \/ /\ op[p] = "reconnect" /\ id # target[p]
          /\ Goto(p, "remap")
          /\ UNCHANGED <<op, target, cfg, held>>
       \/ /\ op[p] # "test" /\ ~(op[p] = "reconnect" /\ id # target[p])
          /\ Return(p)
    /\ UNCHANGED <<db, tunnel, poolCfg>>

-----------------------------------------------------------------------------
(* Disconnect: the entry leaves the map under m.mu, then the pool and its  *)
(* tunnel are closed without the lock.                                     *)

DetachNotFound(p) ==
    /\ pc[p] = "detach"
    /\ conns[target[p]] = NoPool
    /\ AfterDisconnect(p)
    /\ UNCHANGED <<conns, poolVars>>

(* Fault: the entry stays in the map while its pool is closed.             *)
DetachKeepsEntry(p) ==
    /\ pc[p] = "detach"
    /\ conns[target[p]] # NoPool
    /\ held' = [held EXCEPT ![p] = conns[target[p]]]
    /\ Goto(p, "closeDb")
    /\ UNCHANGED <<conns, poolVars, op, target, cfg>>

(* Fault: the entry is read only after it was deleted from the map.        *)
DetachLosesEntry(p) ==
    /\ pc[p] = "detach"
    /\ conns[target[p]] # NoPool
    /\ conns' = [conns EXCEPT ![target[p]] = NoPool]
    /\ Goto(p, "closeDb")
    /\ UNCHANGED <<poolVars, op, target, cfg, held>>

Detach(p) ==
    /\ pc[p] = "detach"
    /\ conns[target[p]] # NoPool
    /\ held' = [held EXCEPT ![p] = conns[target[p]]]
    /\ conns' = [conns EXCEPT ![target[p]] = NoPool]
    /\ Goto(p, "closeDb")
    /\ UNCHANGED <<poolVars, op, target, cfg>>

CloseDb(p) ==
    /\ pc[p] = "closeDb"
    /\ db' = [db EXCEPT ![held[p]] = "closed"]
    /\ Goto(p, "closeTunnel")
    /\ UNCHANGED <<conns, tunnel, poolCfg, infoId, op, target, cfg, held>>

(* Fault: sshCloseFn is not called.                                        *)
CloseTunnelForgotten(p) ==
    /\ pc[p] = "closeTunnel"
    /\ AfterDisconnect(p)
    /\ UNCHANGED <<conns, poolVars>>

CloseTunnel(p) ==
    /\ pc[p] = "closeTunnel"
    /\ ShutTunnel(held[p])
    /\ AfterDisconnect(p)
    /\ UNCHANGED <<conns, db, poolCfg, infoId>>

-----------------------------------------------------------------------------
(* Reconnect: read the entry, Disconnect, connect again and, for a session *)
(* that got a new UUID, move the new entry back under the old one.         *)

ReconnectNotFound(p) ==
    /\ pc[p] = "lookup"
    /\ conns[target[p]] = NoPool
    /\ Return(p)
    /\ UNCHANGED <<conns, poolVars>>

ReconnectLookup(p) ==
    /\ pc[p] = "lookup"
    /\ conns[target[p]] # NoPool
    /\ cfg' = [cfg EXCEPT ![p] = poolCfg[conns[target[p]]]]
    /\ Goto(p, "detach")
    /\ UNCHANGED <<conns, poolVars, op, target, held>>

Remap(p) ==
    LET new == held[p]
        e   == conns[new] IN
    /\ pc[p] = "remap"
    /\ IF e = NoPool
       THEN UNCHANGED <<conns, infoId>>
       ELSE /\ conns' = [conns EXCEPT ![new] = NoPool, ![target[p]] = e]
            /\ infoId' = [infoId EXCEPT ![e] = target[p]]
    /\ Return(p)
    /\ UNCHANGED <<db, tunnel, poolCfg>>

-----------------------------------------------------------------------------
(* TestConnection asks the server for its version through its own entry,   *)
(* then disconnects (deferred, whatever the answer).                       *)
Probe(p) ==
    /\ pc[p] = "probe"
    /\ Goto(p, "detach")
    /\ UNCHANGED <<conns, poolVars, op, target, cfg, held>>

(* A query, ping or schema call: GetDB under the read lock, then the use   *)
(* of the pool it returned.                                                *)
GetDB(p) ==
    /\ pc[p] = "getDb"
    /\ \E h \in Lookup(target[p]) :
        held' = [held EXCEPT ![p] = h]
    /\ Goto(p, "run")
    /\ UNCHANGED <<conns, poolVars, op, target, cfg>>

GetDBNotFound(p) ==
    /\ pc[p] = "getDb"
    /\ Lookup(target[p]) = {}
    /\ Return(p)
    /\ UNCHANGED <<conns, poolVars>>

Run(p) ==
    /\ pc[p] = "run"
    /\ Return(p)
    /\ UNCHANGED <<conns, poolVars>>

-----------------------------------------------------------------------------

Call(p) ==
    \/ \E o \in ConnectOps, c \in Cfgs \cup {NoCfg} : CallConnect(p, o, c)
    \/ \E o \in SessionOps, id \in Ids : CallSession(p, o, id)

Step(p) ==
    \/ OpenFails(p) \/ Open(p) \/ PingFails(p) \/ Register(p)
    \/ DetachNotFound(p) \/ Detach(p) \/ CloseDb(p) \/ CloseTunnel(p)
    \/ ReconnectNotFound(p) \/ ReconnectLookup(p) \/ Remap(p)
    \/ Probe(p) \/ GetDB(p) \/ GetDBNotFound(p) \/ Run(p)

Next == \E p \in Procs : Call(p) \/ Step(p)

(* Closing a pool and a tunnel waits for nobody, so a Disconnect that has  *)
(* come so far goes on.  A handshake with a tunnel or a proxy has no       *)
(* timeout: what opens, pings or queries may stand still for ever, and no  *)
(* call need arrive.                                                       *)
Spec == Init /\ [][Next]_vars /\ \A p \in Procs : WF_vars(CloseDb(p) \/ CloseTunnel(p))

-----------------------------------------------------------------------------
(* Properties.                                                             *)

(* What GetDB can hand out works: no interleaving of Disconnect, Reconnect *)
(* and a failing ping leaves a closed pool, or one behind a closed tunnel, *)
(* in Manager.conns.                                                       *)
RegisteredUsable ==
    \A id \in Ids : conns[id] # NoPool =>
        db[conns[id]] = "open" /\ tunnel[conns[id]] # "closed"

(* The entry found under a runtime id says it has that id, so the ids that *)
(* ListConnections reports can be disconnected (Reconnect moves entries).  *)
KeyIsInfoId ==
    \A id \in Ids : conns[id] # NoPool => infoId[conns[id]] = id

(* A runtime id stands for the saved connection it was first opened for,   *)
(* however many reconnects replace its pool: a session never turns into a  *)
(* session with another server (BugFix-DA: the cfgId survives Reconnect).  *)
SessionCfg(id) == IF id \in Cfgs THEN id ELSE poolCfg[id]

SessionKeepsCfg ==
    \A id \in Ids : conns[id] # NoPool => poolCfg[conns[id]] = SessionCfg(id)

(* A pool or tunnel that is open and that nothing can close any more.      *)
Orphaned(h) ==
    /\ \A id \in Ids : conns[id] # h
    /\ \/ /\ db[h] = "open"
          /\ \A p \in Procs : ~(held[p] = h /\ pc[p] \in {"ping", "closeDb"})
       \/ /\ tunnel[h] = "open"
          /\ \A p \in Procs : ~(held[p] = h /\ Private(p))

(* No failure path and no interleaving leaks a pool, with one exception:   *)
(* an insert into Manager.conns over an entry that is still there.         *)
OnlyOverwriteLeaks ==
    [][\A h \in Pools : ~Orphaned(h) /\ Orphaned(h)' =>
          \E id \in Ids : conns[id] = h /\ conns'[id] \notin {h, NoPool}]_vars

(* A session taken out of the map is shut down: the connections to the     *)
(* server and the tunnel's listener do not outlive Disconnect.             *)
DetachedIsClosed ==
    \A h \in Pools :
        (\E p \in Procs : pc[p] = "closeDb" /\ held[p] = h)
            ~> (db[h] = "closed" /\ tunnel[h] # "open")

=============================================================================
