----------------------------- MODULE McpServer -----------------------------
(***************************************************************************)
(* The MCP server (src/internal/mcp) and the calls of the application that *)
(* manage it (src/app_mcp.go, the MCP steps of src/app_connection.go and   *)
(* src/app.go): an HTTP server inside the application through which AI     *)
(* clients list and query the open connections, under a token kept in the  *)
(* OS keychain and a policy kept in mcp.json.                              *)
(*                                                                         *)
(* Managers are goroutines serving the management calls; Start and Stop    *)
(* run under Server.mu, Save, Modify and the token calls do not.  Requests *)
(* are goroutines serving HTTP requests, which read the published token    *)
(* and policy without a lock.  A member of Servers is one http.Server with *)
(* its listener and Serve goroutine.  They all serve the one published     *)
(* token and policy, each on the port its Start read; two of them can be   *)
(* up at once only on different ports.                                     *)
(***************************************************************************)
EXTENDS Naturals, FiniteSets

CONSTANTS
    Managers,   \* goroutines serving management calls
    NoManager,  \* nobody holds Server.mu
    Requests,   \* goroutines serving HTTP requests
    ConnIDs,      \* ids of saved connections
    AnyConn,    \* the "*" of an allowlist
    Kinds,      \* the kinds of statement that clients send
    Ports,      \* the ports of 127.0.0.1 that are configured
    DefaultPort,
    Updates,    \* the configurations the settings dialog saves
    Calls,      \* the management calls the user makes
    MaxServers, \* bound: how many times the server comes up
    MaxTokens,  \* bound: how many tokens are generated
    MaxFails    \* bound: how many listeners are failed at a time

Servers  == 1..MaxServers
Tokens   == 1..MaxTokens
NoServer == 0
NoToken  == 0

(* What CheckExecutePolicy tells apart: the types of DetectQueryType,      *)
(* "multi" for several statements or an executable comment, and "browse"   *)
(* for the schema tools, which are under the allowlist only.               *)
AllKinds == {"browse", "select", "write", "ddl", "other", "multi"}
AllCalls == {"update", "start", "stop", "regenerate", "reveal", "delete", "reset"}

Configs == [enabled : BOOLEAN, port : Ports, write : BOOLEAN, ddl : BOOLEAN,
            allow : SUBSET (ConnIDs \cup {AnyConn})]

DefaultConfig == [enabled |-> FALSE, port |-> DefaultPort,
                  write |-> FALSE, ddl |-> FALSE, allow |-> {}]

ASSUME ConstantsAssumption ==
    /\ NoManager \notin Managers
    /\ AnyConn \notin ConnIDs
    /\ Kinds \subseteq AllKinds
    /\ DefaultPort \in Ports
    /\ Updates \subseteq Configs
    /\ Calls \subseteq AllCalls
    /\ MaxServers \in Nat
    /\ MaxTokens \in Nat
    /\ MaxFails \in Nat

VARIABLES
    disk,       \* mcp.json
    token,      \* the keychain's MCP token
    issued,     \* how many tokens were generated
    mu,         \* who holds Server.mu
    running,    \* Server.running
    current,    \* Server.httpSrv
    served,     \* Server.policy and Server.token
    inst,       \* state of each http.Server
    port,       \* where each of them listens, DefaultPort when it does not
    flips,      \* Serve goroutines about to store running = false
    pc, op,     \* where each management call stands, and which call it is
    loaded,     \* the configuration and token a Start has read
    req         \* the requests

serverVars  == <<running, current, served, inst, port, flips>>
callVars == <<pc, op, loaded>>
mcpVars     == <<disk, token, issued, mu, serverVars, callVars, req>>

Stages == {"idle", "stop", "drain", "start", "token", "mint", "listen",
           "status", "wipe", "forget", "quit"}
Ops    == {"none", "start", "stop", "restart", "regenerate", "reveal", "reset"}
Snapshot == [policy : Configs, token : Tokens \cup {NoToken}]
Unset    == [policy |-> DefaultConfig, token |-> NoToken]
NoReq    == [stage |-> "idle"]

McpTypeOK ==
    /\ disk \in Configs
    /\ token \in Tokens \cup {NoToken}
    /\ issued \in 0..MaxTokens
    /\ mu \in Managers \cup {NoManager}
    /\ running \in BOOLEAN
    /\ current \in Servers \cup {NoServer}
    /\ served \in Snapshot
    /\ inst \in [Servers -> {"unused", "up", "draining", "failed", "lost", "closed"}]
    /\ port \in [Servers -> Ports]
    /\ flips \subseteq Servers
    /\ pc \in [Managers -> Stages]
    /\ op \in [Managers -> Ops]
    /\ loaded \in [Managers -> Snapshot]
    /\ req \in [Requests ->
          {NoReq} \cup [stage : {"gate", "exec"}, server : Servers,
                        conn : ConnIDs, kind : Kinds]]
    /\ running => current # NoServer

(* The application was started: mcp.json holds a saved configuration, the  *)
(* keychain a token or none yet.  OnStartup's Start is a "start" call.     *)
McpInit ==
    /\ disk \in Updates \cup {DefaultConfig}
    /\ token \in {NoToken} \cup {t \in Tokens : t = 1}
    /\ issued = token
    /\ mu = NoManager
    /\ running = FALSE
    /\ current = NoServer
    /\ served = Unset
    /\ inst = [s \in Servers |-> "unused"]
    /\ port = [s \in Servers |-> DefaultPort]
    /\ flips = {}
    /\ pc = [p \in Managers |-> "idle"]
    /\ op = [p \in Managers |-> "none"]
    /\ loaded = [p \in Managers |-> Unset]
    /\ req = [r \in Requests |-> NoReq]

-----------------------------------------------------------------------------
(* Helpers.                                                                *)

IsConnAllowed(config, c) == {c, AnyConn} \cap config.allow # {}

CheckExecutePolicy(config, kind) ==
    CASE kind \in {"browse", "select"} -> TRUE
      [] kind \in {"write", "other"}   -> config.write
      [] kind = "ddl"                  -> config.ddl
      [] kind = "multi"                -> FALSE

Goto(p, stage) == pc' = [pc EXCEPT ![p] = stage]

Return(p) ==
    /\ Goto(p, "idle")
    /\ op' = [op EXCEPT ![p] = "none"]
    /\ loaded' = [loaded EXCEPT ![p] = Unset]

Unlock(p) == mu' = IF mu = p THEN NoManager ELSE mu

(* What follows Stop in the call that made it, whatever Stop returned.     *)
AfterStop(p) ==
    CASE op[p] \in {"restart", "regenerate"} ->
            Goto(p, "start") /\ UNCHANGED <<op, loaded>>
      [] op[p] = "reset" -> Goto(p, "wipe") /\ UNCHANGED <<op, loaded>>
      [] op[p] = "stop"  -> Return(p)

InFlight(s) == {r \in Requests : req[r].stage # "idle" /\ req[r].server = s}

-----------------------------------------------------------------------------
(* The management calls.                                                   *)

Begin(p, call, o, stage) ==
    /\ call \in Calls
    /\ pc[p] = "idle"
    /\ op' = [op EXCEPT ![p] = o]
    /\ Goto(p, stage)
    /\ UNCHANGED loaded

(* Fault: a disabling update is only saved.                                *)
UpdateWithoutStop(p, config) ==
    /\ IF config.enabled THEN Begin(p, "update", "restart", "stop")
       ELSE pc[p] = "idle" /\ UNCHANGED callVars
    /\ disk' = config
    /\ UNCHANGED <<token, issued, mu, serverVars, req>>

(* UpdateMCPConfig: Save, then Stop or Restart.  A failing Save ends the   *)
(* call with nothing done.                                                 *)
UpdateMCPConfig(p, config) ==
    /\ Begin(p, "update", IF config.enabled THEN "restart" ELSE "stop", "stop")
    /\ disk' = config
    /\ UNCHANGED <<token, issued, mu, serverVars, req>>

StartMCPServer(p) ==
    /\ Begin(p, "start", "start", "start")
    /\ UNCHANGED <<disk, token, issued, mu, serverVars, req>>

StopMCPServer(p) ==
    /\ Begin(p, "stop", "stop", "stop")
    /\ UNCHANGED <<disk, token, issued, mu, serverVars, req>>

(* RegenerateMCPToken: the new token is saved, then Status decides whether *)
(* the server is restarted.                                                *)
RegenerateMCPToken(p) ==
    /\ Begin(p, "regenerate", "regenerate", "status")
    /\ issued < MaxTokens
    /\ issued' = issued + 1
    /\ token' = issued + 1
    /\ UNCHANGED <<disk, mu, serverVars, req>>

Status(p) ==
    /\ pc[p] = "status"
    /\ IF running THEN Goto(p, "stop") /\ UNCHANGED <<op, loaded>> ELSE Return(p)
    /\ UNCHANGED <<disk, token, issued, mu, serverVars, req>>

(* RevealMCPToken, and the token that TestMCPConnection presents.          *)
RevealMCPToken(p) ==
    /\ Begin(p, "reveal", "reveal", "token")
    /\ UNCHANGED <<disk, token, issued, mu, serverVars, req>>

(* DeleteConnection takes the id off the allowlist on disk (Modify).       *)
CleanAllowlist(c) ==
    /\ "delete" \in Calls
    /\ c \in disk.allow
    /\ disk' = [disk EXCEPT !.allow = @ \ {c}]
    /\ UNCHANGED <<token, issued, mu, serverVars, callVars, req>>

(* ResetAllUserData: Stop, remove ~/.orcasql, delete the token; then the   *)
(* application lives for another 1.5 seconds.                              *)
ResetAllUserData(p) ==
    /\ Begin(p, "reset", "reset", "stop")
    /\ UNCHANGED <<disk, token, issued, mu, serverVars, req>>

Wipe(p) ==
    /\ pc[p] = "wipe"
    /\ disk' = DefaultConfig
    /\ Goto(p, "forget")
    /\ UNCHANGED <<token, issued, mu, serverVars, op, loaded, req>>

DeleteToken(p) ==
    /\ pc[p] = "forget"
    /\ token' = NoToken
    /\ Goto(p, "quit")
    /\ UNCHANGED <<disk, issued, mu, serverVars, op, loaded, req>>

-----------------------------------------------------------------------------
(* Server.Stop.                                                            *)

StopNotRunning(p) ==
    /\ pc[p] = "stop" /\ mu = NoManager
    /\ ~running
    /\ AfterStop(p)
    /\ UNCHANGED <<disk, token, issued, mu, serverVars, req>>

(* Shutdown closes the listener; Serve then returns ErrServerClosed.       *)
Shutdown(p) ==
    /\ pc[p] = "stop" /\ mu = NoManager
    /\ running
    /\ mu' = p
    /\ inst' = [inst EXCEPT ![current] = IF @ = "up" THEN "draining" ELSE @]
    /\ Goto(p, "drain")
    /\ UNCHANGED <<disk, token, issued, running, current, served, port, flips, op, loaded, req>>

(* Fault: Stop does not wait for the requests in flight.                   *)
DrainedAtOnce(p) ==
    /\ pc[p] = "drain"
    /\ running' = FALSE
    /\ inst' = [inst EXCEPT ![current] = "closed"]
    /\ port' = [port EXCEPT ![current] = DefaultPort]
    /\ current' = NoServer
    /\ Unlock(p)
    /\ AfterStop(p)
    /\ UNCHANGED <<disk, token, issued, served, flips, req>>

Drained(p) ==
    /\ pc[p] = "drain"
    /\ InFlight(current) = {}
    /\ running' = FALSE
    /\ inst' = [inst EXCEPT ![current] = "closed"]
    /\ port' = [port EXCEPT ![current] = DefaultPort]
    /\ current' = NoServer
    /\ Unlock(p)
    /\ AfterStop(p)
    /\ UNCHANGED <<disk, token, issued, served, flips, req>>

(* shutdownTimeout passes first: the requests go on without their server.  *)
DrainTimesOut(p) ==
    /\ pc[p] = "drain"
    /\ InFlight(current) # {}
    /\ running' = FALSE
    /\ inst' = [inst EXCEPT ![current] = "lost"]
    /\ port' = [port EXCEPT ![current] = DefaultPort]
    /\ current' = NoServer
    /\ Unlock(p)
    /\ AfterStop(p)
    /\ UNCHANGED <<disk, token, issued, served, flips, req>>

-----------------------------------------------------------------------------
(* Server.Start.                                                           *)

(* ErrAlreadyRunning or ErrDisabled.                                       *)
StartRefused(p) ==
    /\ pc[p] = "start" /\ mu = NoManager
    /\ running \/ ~disk.enabled
    /\ Return(p)
    /\ UNCHANGED <<disk, token, issued, mu, serverVars, req>>

(* mcp.json cannot be read or parsed.                                      *)
LoadFails(p) ==
    /\ pc[p] = "start" /\ mu = NoManager
    /\ ~running
    /\ Return(p)
    /\ UNCHANGED <<disk, token, issued, mu, serverVars, req>>

Load(p) ==
    /\ pc[p] = "start" /\ mu = NoManager
    /\ ~running /\ disk.enabled
    /\ mu' = p
    /\ loaded' = [loaded EXCEPT ![p].policy = disk]
    /\ Goto(p, "token")
    /\ UNCHANGED <<disk, token, issued, serverVars, op, req>>

(* GetOrCreateToken: the keychain is read, and a token is generated and    *)
(* saved when it has none.  No lock covers the two.                        *)
AfterToken(p, t) ==
    IF op[p] = "reveal" THEN Return(p)
    ELSE /\ loaded' = [loaded EXCEPT ![p].token = t]
         /\ Goto(p, "listen")
         /\ UNCHANGED op

TokenFound(p) ==
    /\ pc[p] = "token"
    /\ token # NoToken
    /\ AfterToken(p, token)
    /\ UNCHANGED <<disk, token, issued, mu, serverVars, req>>

TokenMissing(p) ==
    /\ pc[p] = "token"
    /\ token = NoToken
    /\ Goto(p, "mint")
    /\ UNCHANGED <<disk, token, issued, mu, serverVars, op, loaded, req>>

Mint(p) ==
    /\ pc[p] = "mint"
    /\ issued < MaxTokens
    /\ issued' = issued + 1
    /\ token' = issued + 1
    /\ AfterToken(p, issued + 1)
    /\ UNCHANGED <<disk, mu, serverVars, req>>

(* The keychain refuses.                                                   *)
TokenFails(p) ==
    /\ pc[p] \in {"token", "mint"}
    /\ Unlock(p)
    /\ Return(p)
    /\ UNCHANGED <<disk, token, issued, serverVars, req>>

(* net.Listen refuses a port that one of the servers still has.            *)
Free(n) == \A s \in Servers : inst[s] = "up" => port[s] # n

(* Fault: the new http.Server is not kept for Stop.                        *)
ListenKeepsOld(p) ==
    /\ pc[p] = "listen"
    /\ served' = loaded[p]
    /\ Free(loaded[p].policy.port)
    /\ \E s \in Servers :
        /\ inst[s] = "unused"
        /\ inst' = [inst EXCEPT ![s] = "up"]
        /\ port' = [port EXCEPT ![s] = loaded[p].policy.port]
    /\ running' = TRUE
    /\ Unlock(p)
    /\ Return(p)
    /\ UNCHANGED <<disk, token, issued, current, flips, req>>

(* The token and the policy are published, then the port is taken.         *)
Listen(p) ==
    /\ pc[p] = "listen"
    /\ served' = loaded[p]
    /\ Free(loaded[p].policy.port)
    /\ \E s \in Servers :
        /\ inst[s] = "unused"
        /\ \A t \in Servers : t < s => inst[t] # "unused"
        /\ inst' = [inst EXCEPT ![s] = "up"]
        /\ port' = [port EXCEPT ![s] = loaded[p].policy.port]
        /\ current' = s
    /\ running' = TRUE
    /\ Unlock(p)
    /\ Return(p)
    /\ UNCHANGED <<disk, token, issued, flips, req>>

ListenFails(p) ==
    /\ pc[p] = "listen"
    /\ served' = loaded[p]
    /\ Unlock(p)
    /\ Return(p)
    /\ UNCHANGED <<disk, token, issued, running, current, inst, port, flips, req>>

-----------------------------------------------------------------------------
(* The Serve goroutine: the listener fails, then lastErr and running are   *)
(* stored without the lock.                                                *)

ServeFails(s) ==
    /\ inst[s] = "up"
    /\ Cardinality(flips \cup {t \in Servers : inst[t] = "failed"}) < MaxFails
    /\ inst' = [inst EXCEPT ![s] = "failed"]
    /\ flips' = flips \cup {s}
    /\ UNCHANGED <<disk, token, issued, mu, running, current, served, port, callVars, req>>

StoreNotRunning(s) ==
    /\ s \in flips
    /\ flips' = flips \ {s}
    /\ running' = FALSE
    /\ UNCHANGED <<disk, token, issued, mu, current, served, inst, port, callVars, req>>

-----------------------------------------------------------------------------
(* A request: authMiddleware compares the token, the tool handler reads    *)
(* the policy once, checks the allowlist, the policy and GetDB, and runs.  *)

Accept(r, s, c, kind) ==
    /\ req[r].stage = "idle"
    /\ inst[s] = "up"
    /\ served.token # NoToken
    /\ req' = [req EXCEPT ![r] =
                 [stage |-> "gate", server |-> s, conn |-> c, kind |-> kind]]
    /\ UNCHANGED <<disk, token, issued, mu, serverVars, callVars>>

Permits(config, r) ==
    IsConnAllowed(config, req[r].conn) /\ CheckExecutePolicy(config, req[r].kind)

Admit(r) ==
    /\ req[r].stage = "gate"
    /\ Permits(served.policy, r)
    /\ req' = [req EXCEPT ![r].stage = "exec"]
    /\ UNCHANGED <<disk, token, issued, mu, serverVars, callVars>>

(* Not allowlisted, refused by the policy, or no session is open.          *)
Refuse(r) ==
    /\ req[r].stage = "gate"
    /\ req' = [req EXCEPT ![r] = NoReq]
    /\ UNCHANGED <<disk, token, issued, mu, serverVars, callVars>>

Respond(r) ==
    /\ req[r].stage = "exec"
    /\ req' = [req EXCEPT ![r] = NoReq]
    /\ UNCHANGED <<disk, token, issued, mu, serverVars, callVars>>

-----------------------------------------------------------------------------

Call(p) ==
    \/ \E config \in Updates : UpdateMCPConfig(p, config)
    \/ StartMCPServer(p) \/ StopMCPServer(p)
    \/ RegenerateMCPToken(p) \/ RevealMCPToken(p) \/ ResetAllUserData(p)

Step(p) ==
    \/ StopNotRunning(p) \/ Shutdown(p) \/ StartRefused(p)
    \/ LoadFails(p) \/ Load(p)
    \/ Status(p) \/ Wipe(p) \/ DeleteToken(p)
    \/ Drained(p) \/ DrainTimesOut(p)
    \/ TokenFound(p) \/ TokenMissing(p) \/ Mint(p) \/ TokenFails(p)
    \/ Listen(p) \/ ListenFails(p)

McpNext ==
    \/ \E p \in Managers : Call(p) \/ Step(p)
    \/ \E c \in ConnIDs : CleanAllowlist(c)
    \/ \E s \in Servers : ServeFails(s) \/ StoreNotRunning(s)
    \/ \E r \in Requests :
        \/ \E s \in Servers, c \in ConnIDs, kind \in Kinds : Accept(r, s, c, kind)
        \/ Admit(r) \/ Refuse(r) \/ Respond(r)

McpSpec == McpInit /\ [][McpNext]_mcpVars

-----------------------------------------------------------------------------
(* Properties.                                                             *)

Quiescent == \A p \in Managers : pc[p] = "idle"

(* When the settings calls have returned, the running server serves what   *)
(* mcp.json says, on the port it says, whichever of them overlapped and    *)
(* however their Stops and Starts mixed; only ids that DeleteConnection    *)
(* took off the allowlist may still be served, until the next restart.     *)
ServedIsSaved ==
    Quiescent /\ running =>
        /\ disk.allow \subseteq served.policy.allow
        /\ [served.policy EXCEPT !.allow = {}] = [disk EXCEPT !.allow = {}]
        /\ port[current] = disk.port

(* A server that no Stop waits for any more: its drain timed out, its      *)
(* listener failed, or a late store of running = false hid it, and it may  *)
(* be up still beside one that a later Start brought up on another port.   *)
OutOfReach(s) ==
    \/ inst[s] \in {"failed", "lost"}
    \/ inst[s] = "up" /\ (~running \/ s # current)

(* A permission the user took away is gone when the call returns: no       *)
(* statement of a kind that the saved settings refuse is still running,    *)
(* except on a server out of Stop's reach.                                 *)
RevokedIsOver ==
    Quiescent =>
        \A r \in Requests :
            req[r].stage = "exec" /\ ~OutOfReach(req[r].server) =>
                disk.enabled /\ CheckExecutePolicy(disk, req[r].kind)

=============================================================================
