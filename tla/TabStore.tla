------------------------------ MODULE TabStore ------------------------------
(* The store of the window (stores/connectionStore.ts): the open connections, *)
(* one session of query tabs for each, and the root copy of the session that  *)
(* is shown.  The window is single-threaded and every operation of the store  *)
(* runs to its end, so each is an operator from a store to a store; handlers   *)
(* compose them.  New tabs and new connections always go to the end of their   *)
(* list: ids are numbers in the order of creation, and "the last" is the       *)
(* greatest.                                                                   *)
EXTENDS Integers, FiniteSets

CONSTANTS Cfgs,       \* ids of saved connections (cfgId)
          Databases,  \* names of schemas
          Blank,      \* what a tab holds that has just been made
          Works,      \* what a tab may hold
          None        \* null

ASSUME NoneApart == None \notin Int \cup Cfgs \cup Databases
ASSUME BlankIsWork == Blank \in Works

Ids == Nat \ {0}
\* The id an earlier window's connection had: ConnectNew never gives it out again.
OldConn == 0

Tab == [conn : Nat \cup {None}, work : Works]
TabSets == UNION {[S -> Tab] : S \in SUBSET Ids}
Bench == [tabs : TabSets, active : Ids \cup {None}, db : Databases \cup {None}]

Last(S) == CHOOSE x \in S : \A y \in S : y <= x
First(S) == CHOOSE x \in S : \A y \in S : x <= y

Only(f, S) == [x \in S |-> f[x]]
With(f, x, v) == [y \in DOMAIN f \cup {x} |-> IF y = x THEN v ELSE f[y]]

-----------------------------------------------------------------------------
(* A store: the cfgId of each active connection, the bench (tabs, active tab,  *)
(* database) of each session, the session that is shown with its root copy,    *)
(* the selected connection, and the benches that wait for their connection.    *)

NewTab(c) == [conn |-> c, work |-> Blank]
Fresh(c, id) == [tabs |-> [x \in {id} |-> NewTab(c)], active |-> id, db |-> None]

EmptyStore(id) == [conns |-> <<>>, sessions |-> <<>>, shown |-> None, sel |-> None,
                   root |-> Fresh(None, id), pending |-> <<>>]

LoadSessionToRoot(st, s, id) ==
    IF s \in DOMAIN st.sessions THEN st.sessions[s] ELSE Fresh(None, id)

SaveRootToSession(st) ==
    IF st.shown \in DOMAIN st.sessions
    THEN [st EXCEPT !.sessions[st.shown] = st.root] ELSE st

PutRootOnly(st, b) == [st EXCEPT !.root = b]
\* A root that changed, with the copy in its session.
PutRoot(st, b) == SaveRootToSession([st EXCEPT !.root = b])

\* tab.connId || connId: a saved tab keeps the id of the connection it had.
TabsFromPersisted(saved, c, id) ==
    IF DOMAIN saved.tabs = {} THEN [Fresh(c, id) EXCEPT !.db = saved.db]
    ELSE [tabs |-> [x \in DOMAIN saved.tabs |->
                      [conn |-> IF saved.tabs[x].conn = None THEN c ELSE saved.tabs[x].conn,
                       work |-> saved.tabs[x].work]],
          active |-> IF saved.active \in DOMAIN saved.tabs THEN saved.active
                     ELSE First(DOMAIN saved.tabs),
          db |-> saved.db]

SetActiveSession(st, s, id) ==
    LET kept == SaveRootToSession(st)
    IN [kept EXCEPT !.root = LoadSessionToRoot(kept, s, id),
                    !.shown = s,
                    !.sel = IF s \in DOMAIN kept.sessions THEN s ELSE kept.sel]

SetSelectedConn(st, c, id) ==
    LET picked == [st EXCEPT !.sel = c]
    IN IF c # None /\ c \in DOMAIN st.sessions THEN SetActiveSession(picked, c, id) ELSE picked

SetSelectedDatabase(st, d) == PutRoot(st, [st.root EXCEPT !.db = d])

\* saved: the benches pendingSessions holds for the connection, one or none.
AddSession(st, c, saved, id) ==
    LET bench == IF saved = {} THEN Fresh(c, id)
                 ELSE TabsFromPersisted(CHOOSE b \in saved : TRUE, c, id)
        kept == SaveRootToSession(st)
    IN IF c \in DOMAIN st.sessions THEN [SetActiveSession(st, c, id) EXCEPT !.sel = c]
       ELSE [kept EXCEPT !.sessions = With(kept.sessions, c, bench),
                         !.root = bench, !.shown = c, !.sel = c]

AddActiveConnection(st, c, cfg, saved, id) ==
    AddSession([st EXCEPT !.conns = With(st.conns, c, cfg)], c, saved, id)

RemoveKeepsSelection(st, c) ==
    [st EXCEPT !.sessions = Only(st.sessions, DOMAIN st.sessions \ {c})]

RemoveSession(st, c, id) ==
    LET left == [st EXCEPT !.sessions = Only(st.sessions, DOMAIN st.sessions \ {c})]
        next == IF DOMAIN left.sessions = {} THEN None ELSE Last(DOMAIN left.sessions)
    IN IF st.shown # c THEN left
       ELSE [left EXCEPT !.root = LoadSessionToRoot(left, next, id),
                         !.shown = next, !.sel = next]

RemoveActiveConnection(st, c, id) ==
    RemoveSession([st EXCEPT !.conns = Only(st.conns, DOMAIN st.conns \ {c})], c, id)

-----------------------------------------------------------------------------
(* Query tabs: operations on the root copy. *)

AddTab(st, c, id) ==
    PutRoot(st, [tabs |-> With(st.root.tabs, id, NewTab(IF c = None THEN st.sel ELSE c)),
                 active |-> id, db |-> st.root.db])

CloseTab(st, t, id) ==
    LET left == DOMAIN st.root.tabs \ {t}
    IN PutRoot(st,
         IF left = {} THEN [Fresh(st.sel, id) EXCEPT !.db = st.root.db]
         ELSE [tabs |-> Only(st.root.tabs, left),
               active |-> IF st.root.active = t THEN Last(left) ELSE st.root.active,
               db |-> st.root.db])

KeepTabs(st, S, active) ==
    PutRoot(st, [tabs |-> Only(st.root.tabs, S), active |-> active, db |-> st.root.db])

CloseAllTabs(st) ==
    LET first == First(DOMAIN st.root.tabs)
    IN IF Cardinality(DOMAIN st.root.tabs) <= 1 THEN st ELSE KeepTabs(st, {first}, first)

CloseTabsToRight(st, t) ==
    LET left == {x \in DOMAIN st.root.tabs : x <= t}
    IN IF t \notin DOMAIN st.root.tabs \/ left = DOMAIN st.root.tabs THEN st
       ELSE KeepTabs(st, left, IF st.root.active \in left THEN st.root.active ELSE t)

SetActiveTab(st, t) == PutRoot(st, [st.root EXCEPT !.active = t])

\* Only the tabs of the session that is shown are looked at.
UpdateTab(st, t, w) ==
    IF t \in DOMAIN st.root.tabs THEN PutRoot(st, [st.root EXCEPT !.tabs[t].work = w])
    ELSE PutRoot(st, st.root)

SetPendingByCfgId(st, map) == [st EXCEPT !.pending = map]
ConsumePendingByCfg(st, cfg) ==
    [st EXCEPT !.pending = Only(st.pending, DOMAIN st.pending \ {cfg})]

-----------------------------------------------------------------------------
(* What _doSave sends: the benches by cfgId, a later session of one cfgId over *)
(* an earlier one and an open one over one that waits.                         *)

ConnsOf(st, cfg) == {c \in DOMAIN st.conns \cap DOMAIN st.sessions : st.conns[c] = cfg}
OpenCfgs(st) == {st.conns[c] : c \in DOMAIN st.conns}

DoSave(st) ==
    LET synced == SaveRootToSession(st)
        open == {cfg \in Cfgs : ConnsOf(synced, cfg) # {}}
    IN [perConnection |->
          [cfg \in open \cup DOMAIN st.pending |->
             IF cfg \in open THEN synced.sessions[Last(ConnsOf(synced, cfg))]
             ELSE st.pending[cfg]],
        activeCfgIds |-> OpenCfgs(st) \cup DOMAIN st.pending,
        selectedCfgId |-> IF st.sel \in DOMAIN st.conns THEN st.conns[st.sel] ELSE None]

\* The root is the session that is shown, tab by tab, the active tabs exist, every open
\* connection has its session, and the shown session is the one of an open connection.
RootIsSession(st) == st.shown # None =>
    /\ st.shown \in DOMAIN st.sessions
    /\ st.sessions[st.shown] = st.root
ActiveIsListed(st) ==
    /\ st.root.active \in DOMAIN st.root.tabs
    /\ \A s \in DOMAIN st.sessions : st.sessions[s].active \in DOMAIN st.sessions[s].tabs
SessionPerConn(st) == DOMAIN st.conns = DOMAIN st.sessions
Coherent(st) == RootIsSession(st) /\ ActiveIsListed(st) /\ SessionPerConn(st)
=============================================================================
