------------------------------ MODULE Workspace ------------------------------
(* The workspace of the window: the restore of the last session when the       *)
(* window starts (App/useSessionRestore.ts, stores/useRestoreStore.ts), the     *)
(* retries the status bar offers, the ways to open and close a connection by    *)
(* hand (Toolbar, SessionManager, ConnectionTabBar), the query tabs             *)
(* (UnifiedTabBar, useGlobalShortcuts) and the saves of session.json.            *)
(* The window is single-threaded: what interleaves is what lies between two      *)
(* awaits.  What the store does is module TabStore, what a save does to the     *)
(* disk is module SessionStore.                                                 *)
EXTENDS TabStore

CONSTANTS Hostings,  \* the ways host, port and user of the saved connections may be
          Clicks,    \* connects by hand that may be in flight at once
          NoFile,    \* no session.json
          Typed,     \* a tab somebody typed into
          MaxActs    \* bound on what the user does: clicks, keys, retries, quitting

ASSUME CfgsAreFinite == IsFiniteSet(Cfgs) /\ Cfgs # {}
ASSUME TypedIsWork == Typed \in Works
ASSUME BoundIsNat == MaxActs \in Nat

VARIABLES
    st,        \* useConnectionStore
    host,      \* the host, port and user of each saved connection
    up,        \* the window is open
    walk,      \* the loop of attemptCfgIds and the handler around it
    restore,   \* useRestoreStore
    opens,     \* the saved connection each connect by hand waits for, or None
    closing,   \* sessions whose Disconnect is in flight
    timer,     \* _persistTimer is set
    file,      \* session.json as LoadSession gives it
    nextConn, nextTab,
    acts,      \* what the user did so far
    loaded,    \* history: the benches LoadSession gave this window
    gone,      \* history: tabs closed, alone or with their session
    loose,     \* history: cfgIds opened by hand, or found to be open, before their bench was used
    raced      \* history: hosts two connects were under way to at once

ids == <<nextConn, nextTab>>
history == <<loaded, gone, loose, raced>>
vars == <<st, host, up, walk, restore, opens, closing, timer, file, ids, acts, history>>

Phases == {"idle", "restoring", "retrying", "partial", "done"}
WalkPcs == {"rest", "load", "next", "connect"}
Walk == [pc : WalkPcs, todo : SUBSET Cfgs, cfg : Cfgs \cup {None},
         found : Nat \cup {None}]
Restore == [phase : Phases, failed : SUBSET Cfgs, succeeded : Nat, total : Nat,
            firstPass : BOOLEAN, preferred : Cfgs \cup {None}]
Benches == UNION {[S -> Bench] : S \in SUBSET Cfgs}

NoWalk == [pc |-> "rest", todo |-> {}, cfg |-> None, found |-> None]
NoRestore == [phase |-> "idle", failed |-> {}, succeeded |-> 0, total |-> 0,
              firstPass |-> FALSE, preferred |-> None]

\* A file of an earlier window: its tabs hold connections that window had.
OldBench(t) == [tabs |-> [x \in {t} |-> [conn |-> OldConn, work |-> Typed]], active |-> t,
                db |-> None]
OldFile(number) == [perConnection |-> [c \in DOMAIN number |-> OldBench(number[c])],
                    activeCfgIds |-> DOMAIN number,
                    selectedCfgId |-> CHOOSE c \in DOMAIN number : TRUE]
Numberings == {f \in [Cfgs -> 1..Cardinality(Cfgs)] : \A c, d \in Cfgs : f[c] = f[d] => c = d}

Fetch == walk' = [NoWalk EXCEPT !.pc = "load"]

Init ==
    /\ host \in Hostings
    /\ file = OldFile(CHOOSE f \in Numberings : TRUE)
    /\ nextConn = 1 /\ nextTab = Cardinality(Cfgs) + 2
    /\ st = EmptyStore(Cardinality(Cfgs) + 1)
    /\ up = TRUE /\ acts = 0
    /\ walk = [NoWalk EXCEPT !.pc = "load"]
    /\ restore = NoRestore
    /\ opens = [q \in Clicks |-> None]
    /\ closing = {} /\ timer = FALSE
    /\ loaded = <<>> /\ gone = {} /\ loose = {} /\ raced = {}

-----------------------------------------------------------------------------
Put(new) == st' = new
Persist == timer' = TRUE
UseTab == nextTab' = nextTab + 1
UseConn == nextConn' = nextConn + 1
Act == acts < MaxActs /\ acts' = acts + 1

Dups(cfg) == {c \in DOMAIN st.conns : host[st.conns[c]] = host[cfg]}
FindActiveDuplicate(cfg) == IF Dups(cfg) = {} THEN None ELSE First(Dups(cfg))

\* Connects to a host that have passed the check and have not added their session.
UnderWay(h) == \/ walk.pc = "connect" /\ host[walk.cfg] = h
               \/ \E q \in Clicks : opens[q] # None /\ host[opens[q]] = h
Race(cfg) == raced' = IF UnderWay(host[cfg]) THEN raced \cup {host[cfg]} ELSE raced

\* ---- The restore of the last session.
LoadSession ==
    /\ up /\ walk.pc = "load"
    /\ IF file = NoFile \/ file.activeCfgIds = {}
       THEN walk' = NoWalk /\ UNCHANGED <<st, restore, loaded, loose>>
       ELSE /\ st' = SetPendingByCfgId(st, file.perConnection)
            /\ restore' = [NoRestore EXCEPT !.phase = "restoring",
                                            !.total = Cardinality(file.activeCfgIds),
                                            !.firstPass = TRUE,
                                            !.preferred = file.selectedCfgId]
            /\ walk' = [NoWalk EXCEPT !.pc = "next", !.todo = file.activeCfgIds]
            /\ loaded' = file.perConnection /\ loose' = OpenCfgs(st)
    /\ UNCHANGED <<host, up, opens, closing, timer, file, ids, acts, gone, raced>>

\* LoadSession throws: the file is reset and the window starts empty.
LoadFails ==
    /\ up /\ walk.pc = "load" /\ file # NoFile
    /\ walk' = NoWalk /\ file' = NoFile
    /\ UNCHANGED <<st, host, up, restore, opens, closing, timer, ids, acts, history>>

\* preferredCfgId wins, else the first that was found.
Found(cfg, c) == IF cfg = restore.preferred \/ walk.found = None THEN c ELSE walk.found
CountSuccess(cfg) == restore' = [restore EXCEPT !.failed = @ \ {cfg}, !.succeeded = @ + 1]

\* The credential of the next one is there.  A duplicate is not opened: its bench is
\* thrown away.  The order of activeCfgIds is left open.
CheckDuplicate ==
    /\ up /\ walk.pc = "next"
    /\ \E cfg \in walk.todo :
         LET dup == FindActiveDuplicate(cfg)
         IN IF dup = None
            THEN /\ walk' = [walk EXCEPT !.pc = "connect", !.cfg = cfg, !.todo = @ \ {cfg}]
                 /\ Race(cfg)
                 /\ UNCHANGED <<st, restore, loose>>
            ELSE /\ st' = ConsumePendingByCfg(st, cfg)
                 /\ CountSuccess(cfg)
                 /\ walk' = [walk EXCEPT !.todo = @ \ {cfg}, !.found = Found(cfg, dup)]
                 /\ loose' = loose \cup {cfg}
                 /\ UNCHANGED raced
    /\ UNCHANGED <<host, up, opens, closing, timer, file, ids, acts, loaded, gone>>

MarkFail(cfg) == /\ restore' = [restore EXCEPT !.failed = @ \cup {cfg}]
                 /\ walk' = [walk EXCEPT !.pc = "next", !.cfg = None, !.todo = @ \ {cfg}]
InHand == IF walk.pc = "connect" THEN {walk.cfg} ELSE walk.todo
AttemptDropsBench ==
    /\ up /\ walk.pc \in {"next", "connect"}
    /\ \E cfg \in InHand : MarkFail(cfg) /\ Put(ConsumePendingByCfg(st, cfg))
    /\ UNCHANGED <<host, up, opens, closing, timer, file, ids, acts, history>>

\* GetConnectionWithCredential, ConnectNew or UpdateConnectionLastUsed throws.
AttemptFails ==
    /\ up /\ walk.pc \in {"next", "connect"}
    /\ \E cfg \in InHand : MarkFail(cfg)
    /\ UNCHANGED <<st, host, up, opens, closing, timer, file, ids, acts, history>>

WaitingBench(cfg) == {st.pending[p] : p \in DOMAIN st.pending \cap {cfg}}

\* ConnectNew and UpdateConnectionLastUsed have answered.  Nothing is checked again.
Restored ==
    /\ up /\ walk.pc = "connect"
    /\ UseConn /\ UseTab
    /\ Put(ConsumePendingByCfg(
             AddActiveConnection(st, nextConn, walk.cfg, WaitingBench(walk.cfg), nextTab),
             walk.cfg))
    /\ CountSuccess(walk.cfg)
    /\ walk' = [walk EXCEPT !.pc = "next", !.cfg = None, !.found = Found(walk.cfg, nextConn)]
    /\ Persist
    /\ UNCHANGED <<host, up, opens, closing, file, acts, history>>

\* The loop is over: the handler selects what it found, and the bookkeeping follows.
Selected(c) == IF c = None THEN st
               ELSE IF restore.firstPass \/ st.sel = None
                    THEN SetSelectedConn(st, c, nextTab) ELSE st
PassEndsBusy ==
    /\ up /\ walk.pc = "next" /\ walk.todo = {}
    /\ Put(Selected(walk.found))
    /\ timer' = (timer \/ (walk.found # None /\ (restore.firstPass \/ st.sel = None)))
    /\ restore' = [restore EXCEPT !.phase = IF restore.failed = {} THEN "done" ELSE @]
    /\ walk' = NoWalk
    /\ UNCHANGED <<host, up, opens, closing, file, ids, acts, history>>
PassEnds ==
    /\ up /\ walk.pc = "next" /\ walk.todo = {}
    /\ Put(Selected(walk.found))
    /\ timer' = (timer \/ (walk.found # None /\ (restore.firstPass \/ st.sel = None)))
    /\ restore' = [restore EXCEPT !.phase = IF restore.failed = {} THEN "done" ELSE "partial"]
    /\ walk' = NoWalk
    /\ UNCHANGED <<host, up, opens, closing, file, ids, acts, history>>

\* finish(), which is scheduled when the first pass left nothing to retry.
Finish ==
    /\ up /\ restore.phase = "done" /\ restore.firstPass
    /\ restore' = NoRestore
    /\ UNCHANGED <<st, host, up, walk, opens, closing, timer, file, ids, acts, history>>

RetryAll ==
    /\ Act /\ up /\ restore.phase = "partial"
    /\ restore' = [restore EXCEPT !.phase = "retrying", !.firstPass = FALSE]
    /\ walk' = [NoWalk EXCEPT !.pc = "next", !.todo = DOMAIN loaded]
    /\ UNCHANGED <<st, host, up, opens, closing, timer, file, ids, history>>
RetryNow ==
    /\ Act /\ up /\ restore.phase = "partial"
    /\ restore' = [restore EXCEPT !.phase = "retrying", !.firstPass = FALSE]
    /\ walk' = [NoWalk EXCEPT !.pc = "next", !.todo = restore.failed]
    /\ UNCHANGED <<st, host, up, opens, closing, timer, file, ids, history>>

Dismiss ==
    /\ Act /\ up /\ restore.phase = "partial"
    /\ restore' = [restore EXCEPT !.phase = "idle"]
    /\ UNCHANGED <<st, host, up, walk, opens, closing, timer, file, ids, history>>

\* ---- Connections opened and closed by hand.
OpenByHandUnchecked(q) ==
    /\ Act /\ up /\ opens[q] = None
    /\ \E cfg \in Cfgs : opens' = [opens EXCEPT ![q] = cfg] /\ Race(cfg)
    /\ UNCHANGED <<st, timer, host, up, walk, restore, closing, file, ids,
                   loaded, gone, loose>>
OpenByHand(q) ==
    /\ Act /\ up /\ opens[q] = None
    /\ \E cfg \in Cfgs :
         LET dup == FindActiveDuplicate(cfg)
         IN IF dup # None
            THEN /\ Put(SetActiveSession(st, dup, nextTab)) /\ Persist
                 /\ UNCHANGED <<opens, raced>>
            ELSE /\ opens' = [opens EXCEPT ![q] = cfg]
                 /\ Race(cfg)
                 /\ UNCHANGED <<st, timer>>
    /\ UNCHANGED <<host, up, walk, restore, closing, file, ids, loaded, gone, loose>>

OpenFails(q) ==
    /\ up /\ opens[q] # None
    /\ opens' = [opens EXCEPT ![q] = None]
    /\ UNCHANGED <<st, host, up, walk, restore, closing, timer, file, ids, acts, history>>

Opened(q) ==
    /\ up /\ opens[q] # None
    /\ UseConn /\ UseTab
    /\ Put(SetSelectedConn(AddActiveConnection(st, nextConn, opens[q], {}, nextTab),
                           nextConn, nextTab))
    /\ loose' = IF opens[q] \in DOMAIN st.pending \cup OpenCfgs(st)
                THEN loose \cup {opens[q]} ELSE loose
    /\ opens' = [opens EXCEPT ![q] = None]
    /\ Persist
    /\ UNCHANGED <<host, up, walk, restore, closing, file, acts, loaded, gone, raced>>

\* One session, those left or right of it, or all.
CloseSessions ==
    /\ Act /\ up
    /\ \E c \in DOMAIN st.sessions :
       \E S \in {{c}, {d \in DOMAIN st.sessions : d < c}, {d \in DOMAIN st.sessions : d > c},
                 DOMAIN st.sessions} :
         S # {} /\ closing' = closing \cup S
    /\ UNCHANGED <<st, host, up, walk, restore, opens, timer, file, ids, history>>

TabsOf(c) == IF c \in DOMAIN st.sessions THEN DOMAIN st.sessions[c].tabs ELSE {}

\* Disconnect answers, or throws and is ignored.
Disconnected ==
    /\ up
    /\ \E c \in closing :
         /\ closing' = closing \ {c}
         /\ Put(RemoveActiveConnection(st, c, nextTab))
         /\ gone' = gone \cup TabsOf(c)
    /\ UseTab
    /\ Persist
    /\ UNCHANGED <<host, up, walk, restore, opens, file, nextConn, acts, loaded, loose, raced>>

\* ---- The tabs.
Switch ==
    /\ Act /\ up
    /\ \E c \in DOMAIN st.sessions \ {st.shown} :
         Put(SetActiveSession(st, c, nextTab))
    /\ Persist
    /\ UNCHANGED <<host, up, walk, restore, opens, closing, file, ids, history>>

SelectDatabase ==
    /\ Act /\ up /\ st.sel # None
    /\ \E d \in Databases : Put(SetSelectedDatabase(st, d))
    /\ Persist
    /\ UNCHANGED <<host, up, walk, restore, opens, closing, file, ids, history>>

MakeTab ==
    /\ Act /\ up /\ UseTab
    /\ Put(AddTab(st, None, nextTab))
    /\ UNCHANGED <<host, up, walk, restore, opens, closing, timer, file, nextConn, history>>

\* The x of a tab but the first, Ctrl+W of the active one while there is another,
\* "close all" and "close to the right".
DropTabs ==
    /\ Act /\ up
    /\ \E t \in DOMAIN st.root.tabs :
       \E new \in {CloseTab(st, t, nextTab), CloseAllTabs(st), CloseTabsToRight(st, t)} :
         /\ Cardinality(DOMAIN st.root.tabs) > 1 /\ new # st
         /\ t = First(DOMAIN st.root.tabs) => t = st.root.active \/ new # CloseTab(st, t, nextTab)
         /\ Put(new)
         /\ gone' = gone \cup (DOMAIN st.root.tabs \ DOMAIN new.root.tabs)
    /\ UNCHANGED <<host, up, walk, restore, opens, closing, timer, file, ids,
                   loaded, loose, raced>>

PickTab ==
    /\ Act /\ up
    /\ \E t \in DOMAIN st.root.tabs \ {st.root.active} : Put(SetActiveTab(st, t))
    /\ UNCHANGED <<host, up, walk, restore, opens, closing, timer, file, ids, history>>

Type ==
    /\ Act /\ up /\ Put(UpdateTab(st, st.root.active, Typed)) /\ st' # st
    /\ UNCHANGED <<host, up, walk, restore, opens, closing, timer, file, ids, history>>

\* ---- Saves.
\* SaveSession is not waited for and may fail, which is only logged.  A save that comes to
\* the disk after a later one leaves what the later one's failure would.
TimerFires ==
    /\ up /\ timer
    /\ timer' = FALSE
    /\ file' \in {DoSave(st), file}
    /\ UNCHANGED <<st, host, up, walk, restore, opens, closing, ids, acts, history>>

\* The window goes, and what it held: beforeunload flushes, a crash does not.
Quit ==
    /\ Act /\ up /\ up' = FALSE
    /\ file' \in {file, DoSave(st)}
    /\ UseTab /\ st' = EmptyStore(nextTab)
    /\ walk' = NoWalk /\ restore' = NoRestore
    /\ opens' = [q \in Clicks |-> None] /\ closing' = {} /\ timer' = FALSE
    /\ loaded' = <<>> /\ gone' = {} /\ loose' = {} /\ raced' = {}
    /\ UNCHANGED <<host, nextConn>>

Restart ==
    /\ ~up
    /\ up' = TRUE /\ Fetch
    /\ UNCHANGED <<st, host, restore, opens, closing, timer, file, ids, acts, history>>

WalkStep == LoadSession \/ LoadFails \/ CheckDuplicate \/ AttemptFails \/ Restored \/ PassEnds
ByHand == \E q \in Clicks : OpenByHand(q) \/ OpenFails(q) \/ Opened(q)
Tabs == Switch \/ SelectDatabase \/ MakeTab \/ DropTabs \/ PickTab \/ Type

Next == WalkStep \/ Finish \/ RetryNow \/ Dismiss \/ ByHand \/ CloseSessions \/ Disconnected
        \/ Tabs \/ TimerFires \/ Quit \/ Restart

\* The loop of the restore goes on by itself but for the ConnectNew it awaits: the handshakes
\* with a tunnel or a proxy have no timeout, so one that falls silent is awaited for ever.
\* Nobody has to click, type or quit, and the countdown to the one retry of its own need
\* not run out.
Awaits == walk.pc = "connect"
Spec == Init /\ [][Next]_vars /\ WF_vars(WalkStep /\ ~Awaits)

-----------------------------------------------------------------------------
TypeOK ==
    /\ DOMAIN st.conns \subseteq Ids /\ DOMAIN st.sessions \subseteq Ids
    /\ \A c \in DOMAIN st.conns : st.conns[c] \in Cfgs
    /\ st.shown \in Ids \cup {None} /\ st.sel \in Ids \cup {None}
    /\ host \in Hostings /\ up \in BOOLEAN /\ timer \in BOOLEAN
    /\ walk.pc \in WalkPcs /\ restore.phase \in Phases
    /\ restore.failed \subseteq Cfgs /\ restore.succeeded \in 0..restore.total
    /\ opens \in [Clicks -> Cfgs \cup {None}] /\ (walk.pc = "connect") = (walk.cfg \in Cfgs)
    /\ closing \subseteq Ids /\ nextConn \in Ids /\ nextTab \in Ids
    /\ acts \in 0..MaxActs

\* Whatever restore, the hand and the tabs do in between, the root copy is the session
\* that is shown, an active tab exists, and sessions and connections go together.
StoreIsCoherent == Coherent(st)

\* A tab of the last session is in every save until somebody closes it: while its
\* connection is tried, after it failed, while it is retried and once it is open.  Not so
\* for a connection that was opened by hand, or was a duplicate, before its bench was used.
WorkSaved ==
    up => \A cfg \in DOMAIN loaded \ loose :
              \A t \in DOMAIN loaded[cfg].tabs \ gone :
                  /\ cfg \in DoSave(st).activeCfgIds
                  /\ t \in DOMAIN DoSave(st).perConnection[cfg].tabs

\* Two sessions of one host only come from two connects that were under way at once: the
\* check for a duplicate comes before the call, and is not made again after it.
TwinsOnlyByRace ==
    \A c, d \in DOMAIN st.conns :
        c # d /\ host[st.conns[c]] = host[st.conns[d]] => host[st.conns[c]] \in raced

\* restore and each retry come to an end, whatever fails and whatever is clicked meanwhile,
\* unless one ConnectNew never answers.
RestoreEnds ==
    []<>(up => restore.phase \notin {"restoring", "retrying"}) \/ <>[]Awaits
=============================================================================
