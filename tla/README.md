# OrcaSQL in TLA+

OrcaSQL is a desktop client for MySQL: a Go backend (`app*.go`, `internal/`)
inside a Wails window whose user interface is React (`frontend/src`).  Every
call of the window runs in a goroutine of its own, several copies of the
application may run over the same `~/.orcasql`, and an optional MCP server lets
AI clients query the open connections.  What is hard in it is not SQL but what
these share: the map of connections, the files, the lock files, the settings of
the server, and the copies of all of them that windows keep.

This directory holds TLA+ modules of those parts, TLC configurations that check
them on small instances, and proofs for TLAPS of what matters most for every
size.  `PROJECT.json` lists components, runs, mutants, hazards, findings and
theorems, and the source lines each definition stands for.

## Inventory

| Part | State | Operations | Talks to | Hard because | Correct when | Status |
|---|---|---|---|---|---|---|
| Connection manager `internal/connection/manager.go`, `app_connection.go` | `Manager.conns`, one pool and tunnel per entry | Connect, ConnectNew, Disconnect, Reconnect, TestConnection, GetDB | keychain, tunnels, driver; every query | Reconnect and Disconnect are several steps around `m.mu` | what GetDB gives works, an id stays with its server, nothing leaks | modelled |
| MCP server `internal/mcp`, `app_mcp.go` | running flag, http.Server, published policy and token, mcp.json, keychain token | UpdateMCPConfig, Start, Stop, Regenerate, Reveal, requests, the cleanup of DeleteConnection, reset | settings file, keychain, connection manager | requests read without a lock; Serve reports late; drains time out | what runs and is permitted is what is saved | modelled, but for the editing of other agents' files |
| Session store `internal/session` | session.json, its .bak, a temporary file | Save, Load, Reset | workspace of the window | crash between two renames; two instances | one of the files stays valid | modelled |
| History store `internal/history`, `internal/filelock` | one file per day, its lock file, `Store.mu` | Add, DeleteByID, ClearAll, NewStore with migrateOld | executor, MCP tools, other instances | load before lock, merge at save, timeout under a mutex | no entry is lost, a deleted one is gone, calls return | modelled, one day |
| File of saved connections `app.go`, `app_import_export.go`, `internal/filelock` | connections.json, `.lock`, temporary file named after the process | modifyAppConfig, loadAppConfig, saveAppConfig, mergeImport, migrateLegacyPasswords | every handler of connections and groups | two callers do not lock; the temporary file is per process; every step may fail | it always loads; a call is atomic | modelled |
| Tree of saved connections `app_session_groups.go`, `SessionManager`, `ConnectionModal` | parent of each group, group of each connection; each window's copy and selection | new, rename, duplicate, drop, delete (with cascade), save, import | file of saved connections | handlers decide on copies that may be old | no cycle, no dangling reference, two levels | modelled without order and colours |
| Executor `internal/query/executor.go`, `app_query.go` | `cancelFuncs` by tab or connection; the database each pooled connection is in | Execute, ExecuteStream, ExecuteMulti, Cancel | connection manager, history | pooled connections keep the database of their last user; one key for two queries; a cancel is called after the lock | statements run in their database, a cancel ends nothing else, connections and calls come back | modelled without results and limits |
| Workspace `connectionStore.ts`, `useSessionRestore.ts`, `useRestoreStore.ts`, `Toolbar`, tab bars | sessions, their tabs, the copy of the one that is shown, benches that wait for their connection, the phase of the restore, the timer of the save | restore and its retries, connects and disconnects by hand, make, move, pick and close tabs, change the session, save, flush | session store, connection manager | one thread, but every await is a gap: check and use lie apart; saves are not waited for | the copy agrees with its session; what the user did not close is in every save; one session per host; restore ends | modelled, but for groups of tabs and tools beside them |
| Query runs `useQueryExec.ts`, `useMultiStatementConfirm.tsx`, `usePlaceholderStore.ts`, `QueryEditor` | runs in flight, questions on the screen, one dialog, results and plans per tab | run, answer, fail, continue, stop, reconnect, fill placeholders, EXPLAIN | executor, workspace | an update only reaches the tabs that are shown; runs of one tab overlap; a question is keyed by a number two runs share | statements are run once and in order; a tab tells the truth; plans stand beside their results | modelled; of a text, where it is cut |
| Result grid `ResultGrid/`, `ResultPanel` | cached rows per connection, local copy, unsaved cells, open editor, form | read, edit, commit one or all, discard, delete, insert, form view, refresh, change of the connection | `App.UpdateRowValue`, `InsertRow`, `DeleteRow` | row arrays are the keys of what is unsaved; rows come and go while calls are under way | writes go to the row they were typed for; the grid shows what the server has | modelled: the Data tab, without selection, sorting, paging, export |
| Data sync `internal/sync/data_sync.go`, `DataSync` | the selects of the panel, the difference it shows, the calls under way | choose source and target, compare, apply, close | connection manager, pools of `database/sql` | the selects stay open while a difference is shown; `USE` and the transaction take connections from a pool one after the other; tables are cut at a limit; keys are text | a difference goes to the table it was made for and makes its rows equal | modelled |
| Schema sync `internal/sync/schema_sync.go` | none between calls | compare two schemas | connection manager | | | not modelled |
| Favorites, import, dumper, designer, inspector, profiler, keychain, logger, reset, pass-through calls, other views | little or none | | | see `PROJECT.json` | | not modelled |

## Modules

| Module | What it is | Lines of the code |
|---|---|---|
| `ConnManager` | calls as goroutines that stop between two points where another can be seen | manager.go, app_connection.go |
| `McpServer` | management calls, the Serve goroutine and requests | server.go, config.go, policy.go, tools.go, app_mcp.go |
| `SessionStore` | Save in its file operations, Load, crashes, damage | session/store.go |
| `History` | the store of one day under `Store.mu` and the lock file | history/store.go, filelock.go |
| `Executor` | calls of one or several statements over the pool of one session, and CancelQuery | query/executor.go, app_query.go |
| `TabStore` | the store of sessions and tabs: each of its operations as a function of its state | connectionStore.ts |
| `Workspace` | the window over that store: restore, retries, clicks, tabs, saves, quitting | useSessionRestore.ts, useRestoreStore.ts, Toolbar, StatusBar, SessionManager, UnifiedTabBar |
| `QueryRuns` | overlapping runs of several tabs, up to what a tab shows | useQueryExec.ts, useMultiStatementConfirm.tsx, placeholders |
| `TableEdit` | the grid of one table, its cache and its calls to the server | ResultGrid/hooks, FormView, ResultPanel, app_query.go |
| `DataSync` | the panel, the comparison, and the call that applies it over a pool others use | data_sync.go, DataSync |
| `AtomicConfig` | what calls on connections.json promise: one effect at one moment, or none | app.go:391-393 |
| `AppConfig` | how they do it; implements `AtomicConfig` | app.go, app_import_export.go, filelock.go |
| `SessionGroups` | the tree of groups under the handlers of the windows | app_session_groups.go, SessionManager, ConnectionModal |
| `MC...` | the small instance of each for TLC | |
| `...Proofs` | the theorems | |

`AppConfig` and `SessionGroups` are two views of one file: the first has the
steps that replace it and takes a configuration as the set of its ids, the
second has what is in it and takes a call as one step.  That a call may be taken
as one step is what `AppConfig` shows by implementing `AtomicConfig`
(`Atomic == INSTANCE AtomicConfig WITH saved <- Loaded(main), todo <- ...`): the
moment of its effect is the rename.

`Workspace` EXTENDS `TabStore`: the store is one record `st`, its operations take
a record to the next, and the handlers of the window are actions over it.  What
`SaveSession` does to the disk is `SessionStore`; to `Workspace` a save replaces
session.json or fails.  `QueryRuns` sees of the store only which session is shown,
because that decides whether `updateTab` finds its tab, and of the executor where it
cuts a text and how far a call ran.

How the state corresponds:

- A member of `Procs` (`Managers`, `Requests`) is a goroutine serving a call;
  `pc` says before which visible step it stands, and its local variables
  (`cfg`, `held`, `loaded`, `mine`, `buf`) are functions of it.  A Go mutex
  whose section is one action needs no variable; one that is held over several
  (`Server.mu`, `Store.mu`) has one, and so has a lock file.
- A pool is a number.  The UUID drawn by the attempt that opened pool `h` is
  written `h`, which is how a fresh id is told from a saved one.
- Files hold a value that is compared (a generation, a set of entries), or one of
  the marks for missing, truncated and torn.
- A failure of a step is an action of its own (`OpenFails`, `CommitFails`,
  `LockTimesOut`), so that every early return of the code is a behaviour.
- The window is single-threaded.  An action there is what runs between two awaits:
  the check for a duplicate and the start of `ConnectNew` are one step, the answer
  is another, and everything the user does may lie between them.
- A row array of the grid is a record with a generation: an edit makes another
  array, as in the code, where unsaved cells are found by the array's identity.
- Definitions marked "fault" (`PingFailsLeaks`, `LockIgnored`) are bugs the code
  does not have.  They are used by nothing but the mutants in `PROJECT.json`:
  put in place of the true definition, each makes TLC find its property violated.

### What each module leaves out

- `ConnManager`: what a pool does inside (`database/sql`), retries of a ping, how
  passwords are found.
- `McpServer`: protocol messages, the contents of answers, configuration files of other
  agents.
- `SessionStore`: what a session contains.
- `History`: text and search; entries are numbered by their time, and one day stands for
  all because days share nothing but the mutex.
- `AppConfig`: what an entry contains beyond being there; the calls it has are `save`,
  `delete`, `touch` (last use), `import` and `migrate`.  Torn text is possible there as
  it is on POSIX systems, where a file may be renamed while a descriptor writes to it.
- `SessionGroups`: order, colours, names; ReorderGroups, which no view calls.
- `Executor`: what statements return, the limit on rows, the values of the timeouts
  (`Timeout` may happen to any context at any time), the history entry that follows a
  call (`History` has it), and the other sessions: `GetDBFails` is all it sees of
  `ConnManager`.  That a context ends what waits under it holds for the driver's own
  dialer; the one for a proxy ignores it (proxy_tunnel.go:85, 214), so that a call that
  needs a new connection through a proxy that says nothing waits for ever, and
  `QueriesReturn` is not about it.  `Expire` and `None` in `sess` stand for what
  `database/sql` does with connections between their uses.
- `Workspace`: what a tab holds is `Blank`, `Typed` or nothing else; the order of
  `activeCfgIds` and of tabs, groups of tabs, and the tools that open beside them.  The
  countdown to the retry is a step that may happen or not.
- `QueryRuns`: the words of texts and the contents of results; a text is a number of
  pieces, with the boundaries at which it is cut as it was written and as it is joined
  again.
- `TableEdit`: one table, which stays mounted and which nobody else writes; no read of
  it fails; one deletion, one insertion and one save of the form at a time, and one
  field of it in which something is typed (bounds: the form only bars the field that is
  being saved, and every field keeps its text), and at most `MaxSaves` saves of rows.
  The lock of the grid, which only hides its buttons, is left out.  A row is its primary
  key and its cells, and keys do not change.  Of what a write makes the server do,
  `Remakes` has what becomes of the row that is written (conversions, generated columns,
  triggers); other rows stay as they are.
- `DataSync`: the lists in the selects, the columns (a row is its key with its text, and
  one value), the wording of statements but for what the server takes their key and
  value for (`KeySent`, `ValSent`).  One function stands for INSERT and WHERE alike: a
  FLOAT key, which an INSERT stores and a WHERE does not find again, is not in it.  A
  value with `;\n` makes statements that fail and are rolled back (`SyncFails`).  There
  is one apply at a time (a bound: a panel that was closed and opened could have two).
  The pool is there from the start of an apply to its BEGIN, and only the database each
  idle connection is in.  The statements and the commit are one step: a row stays locked
  from the first statement that writes it on.

## Runs

| Run | Instance | Shows |
|---|---|---|
| `conn_manager` | 2 calls, 1 saved and one unsaved connection with tunnels, 3 pools | registered pools work, an id stays with its saved connection, only an overwrite leaks, a detached pool gets closed |
| `mcp_server` | 2 management calls, 1 request, 3 servers on 2 ports, 1 token, settings off / write / read-only on the other port | saved settings are served when calls end; what was revoked has ended |
| `session_store` | 1 instance, 5 saves, 2 damages | one file valid at every crash; when a start is empty |
| `history` | 2 goroutines and another instance, limit 2, 3 entries; any read may fail | no entry is lost but by a call that could not read the day it replaced; calls return |
| `history_delete` (finding) | 1 goroutine | a deleted entry is back |
| `session_groups` | 1 window, 3 groups, 1 connection, 3 writes, any library in order | no dangling connection, no cycle, orphans only by a third level |
| `app_config` | 2 goroutines of one instance and one of another, 1 entry, 4 calls, 1 crash | the file loads, calls are atomic |
| `executor` | 2 calls, 1 cancel, a tab and the connection as keys, 1 database, 1 pooled connection, up to 2 statements | statements run in their database, a cancel ends nothing of another key, what runs is registered, calls return |
| `workspace` | 2 saved connections on one host or two, 1 connect by hand in flight, 1 database, 3 acts of the user | the store agrees with itself, no tab of the last session drops out of a save, two sessions of a host only by a race, restore ends unless a host is silent |
| `query_runs` | 2 runs, of a text with a body under DELIMITER and a line comment (4 pieces) and of one of 2 statements, 2 tabs of a session and another session, 1 lost answer, 1 change of the session | statements whose answer came are run once and in order, a tab says that it runs when it does, plans stand beside their results |
| `table_edit` | 2 servers that may make another row of one that is written, 2 rows, 2 columns, 3 values, 4 acts of the user, 2 saves in flight | writes go to the row they were typed for and the server it was read from; what the grid shows at rest is saved |
| `data_sync` | 2 servers with the table at 3 places; 2 keys, one with two spellings, the other with a text of its own, with that of the first, the word NULL, or bytes that change on the way; values with NULL, the word, and one that changes on the way; limit 1 or 2, a pool that keeps 1, 4 acts | a difference goes to its target, the rows it is about are then those of the source |

Why the bounds are enough: a third pool is needed for Reconnect to meet a second
connect, a second server for a Restart, and a third for one beside a server that is
hidden on the other port; two saves make a generation with a backup and three a roll of
it; a limit of 2 with 3 entries makes the cut; three groups are the smallest tree with a
third level and the smallest chain that two drops could close.  A single window of
`session_groups` reads its two lists at different times, so that it already works on old
lists; two windows with two writes each were checked too and take minutes, and the
theorem covers any number. In `executor` one connection for two calls is the pool at its
limit; three contexts are one for each call and one that a cancel still has in hand. For
`app_config` the two goroutines share a temporary file and the third does not. In
`workspace` two saved connections are what makes one fail and the other open, and, on
one host, a duplicate; the restore and one click by hand are two connects under way at
once; three acts are a click, a close and a restart of the window. In `query_runs` two
runs are what overlaps, in one tab or two; the first text has a statement to fail before
each kind of boundary, and pieces behind it; one change to a session and one lost answer
let a run end out of sight, and go on after a broken connection.  In `table_edit` two
rows are what a deletion lets slide and two columns what a save can stop between; four
acts are an edit, a save, a second write and a change of the table; with a third value,
what is typed can differ from what it was typed over and from what the row holds by
then.  In `data_sync` a server with two places lets a choice of the target go wrong, two
keys with a limit of 1 cut a table, the two spellings of one lie on both sides of the
text of the other, so that its statements come in either order, and four acts are a
choice, a comparison, and an apply with a write or a choice between them. More
connections, runs or rows take TLC past its time; the theorems named below cover them,
and for what needs fairness nothing does.

Deadlock is checked wherever something must always be possible.  It is off for
`McpServer` because the application quits after a reset, and for `SessionGroups`,
`AppConfig`, `Workspace`, `QueryRuns`, `TableEdit` and `DataSync` because the user may stop
once the bound on what he does is used up.

### Properties that state an exemption

Some properties hold with one exception, and the exception is the point.

| Property | Not when | Name |
|---|---|---|
| `OnlyOverwriteLeaks` | a second insert under one id leaks the first pool |  |
| `RevokedIsOver` | a server out of Stop's reach: its drain timed out, its listener failed, or a late `running = false` hid it, after which another may come up beside it on another port | `OutOfReach` |
| `EmptyOnlyAfterCut` | a Save was cut between its renames, or files were damaged | `cut`; `damage` |
| `NoEntryLost` | the call that writes could not read the day under the lock | `blind` |
| `ConnsGrouped`, `NoCycle` | a write relied on a group another window moved or deleted | `misled` |
| `OrphanOnlyByDepth` | a third level | `deep` |
| `LoadsUnlessShared` | one temporary file was written twice at once | `shared` |
| `EachCallAtomic` | a call without the lock overlapped another, or a read failed | `loose` |
| `Cancellable` | calls under one key overlapped, and the first to end took the entry of the other with it | `mixed` |
| `WorkSaved` | a connection was opened by hand, or was a duplicate, before its tabs were used | `loose` |
| `TwinsOnlyByRace` | two connects to a host were under way at once | `raced` |
| `RestoreEnds` | a ConnectNew never answers | `Awaits` |
| `StatementsOnce` | what a call whose answer was lost had run is sent again; a rest that was joined is cut anew | `answered`, `Recut` |
| `RunningIsTrue` | an update found its tab out of sight; two runs overlapped in one tab | `lost`; `crossed` |
| `PlanBesideItsResult` | those, and a run that began before the plans of the last were there | `late` |
| `SentForItsRow` | sent while the table of the connection before was still shown; a reload was put over another table; a row slid under an open editor; another row came under a field of the form, with the value that what was typed there replaced | `early`; `crossed`; `shifted`; `twin` |
| `ShownIsSaved` | a write met a read, a deletion, another write or a lost answer, or the server made another row of it than was typed; the table was shown again from a cache older than the writes | `off`; `written` |
| `GoesToItsTarget` | another target was chosen after the comparison; others used the pool between USE and BEGIN | `moved`; `disturbed` |
| `SyncedRowsAreEqual` | the row changed since it was read; lies beyond the limit in one table; has a key whose text another has too; has a key that no statement names, like the word NULL, or that those of another name; has a value that changes on the way | `Settled`; `Seen`; `Alone`; `OwnName`; `Kept` |

`OutOfReach`, `blind`, `Awaits`, `answered`, `Recut` and those of `SyncedRowsAreEqual`
are read off the state; the others are history variables (`early`, `moved` and
`disturbed` also fields of a call), which no guard reads.

### Findings

One statement of the code is not what it does, and a run shows it: DeleteByID is
undone by the merge of its own save.  `PROJECT.json` has the lines.

### Observations

What the modules allow, because the code does, and no property forbids.

- `ConnManager`: GetDB takes any entry of a saved connection, in the order of the map,
  where there can be several (manager.go:338-345).  TestConnection registers its trial
  pool under a real id (app_connection.go:93); it may be handed to others, or overwrite
  and leak what was there.
- `McpServer`: a token that is regenerated while a Start is on its way, or that two
  callers generate at once, is shown and not served (app_mcp.go:105,
  mcp/config.go:207).  mcp.json.tmp is one name for all instances.  When the late
  `running = false` of a server (server.go:158) hides the next one, and the port is
  changed, the Start that follows binds the new port (server.go:130) and the hidden server
  goes on with the policy it had, until the application ends.
- `SessionStore`: with two instances both files can be missing for a moment that a
  crash makes last; they share the name of the temporary file (session/store.go:182).
- `History`: migrateOld removes the old file though a save failed
  (history/store.go:352).  A save that cannot read the day again under the lock replaces
  the file with what the call has loaded (store.go:261), and the entries that another
  instance saved in between are gone.
- `SessionGroups`: a drop of a group with groups makes three levels.
- `AppConfig`: a configuration that cannot be read is replaced by one with the one
  entry of the call (app.go:399).  Beside it, passwords of a group are deleted from
  the keychain inside a change that may still fail (app_session_groups.go:72).
- `Executor`: a Stop that comes between two statements of ExecuteMulti finds nothing
  to cancel, and the rest is run (query/executor.go:309).
- `QueryRuns`: a question that a second run replaces on the screen is never answered,
  and its run waits for ever (useMultiStatementConfirm.tsx:108).  The rest of a text is
  joined with `;` (query/executor.go:326-338) and cut anew without its DELIMITER: the
  statements of a body are run by themselves, and a line comment at the end of a statement
  swallows the `;` and makes one of it and the next.  After an error that looks like one of
  the connection the whole text is run again (useQueryExec.ts:105-110), whatever had
  been run of it.
- `Workspace`: what is typed before any connection is open is dropped
  (connectionStore.ts:366-383); the restore may end by selecting a session that was
  closed meanwhile (useSessionRestore.ts:184-188); a connection opened by hand while
  its tabs wait hides them from the next save (connectionStore.ts:562-566).  The restore
  awaits one connection after the other (useSessionRestore.ts:83), and neither the SSH
  handshake (ssh_tunnel.go:51-55, whose timeout is that of the TCP connection) nor those
  with a proxy (proxy_tunnel.go:85, 214) have a deadline: a host that accepts and says
  nothing keeps the window restoring for ever.  The tabs of
  a restored session keep the connection of the window before
  (connectionStore.ts:194), which is what they query (App.tsx:213).
- `TableEdit`: columns the server refused are dropped from the unsaved ones after a
  save that went half way (usePendingEdits.ts:66-68 against 90-104); a cell typed back
  to its first value stays unsaved (useInlineEdit.ts:200-204 against
  usePendingEdits.ts:131-132); the form view may look for a row beyond the last and
  throws; two commits of a row at once make the second fail, though all is saved.  What is typed
  in a field of the form stays there when another row with the same value at that place
  comes under it (FormView.tsx:277-285), and is saved to that one (304-309).  The grid shows
  what was typed, whatever the server made of it (usePendingEdits.ts:263-272,
  FormView.tsx:119), until the table is read again.
- `DataSync`: what is applied goes to whatever the selects name by then
  (DataSync/index.tsx:115); USE and the transaction may be on two connections
  (data_sync.go:123-127), so that statements without a database run in another one;
  rows beyond the limit of the source are deleted from the target (data_sync.go:231).
  A key that is the word NULL is written as NULL and found by no statement
  (data_sync.go:344, 383, 398); bytes that are not UTF-8 (257) reach the target as others,
  because the statements go through the window as JSON.  Of a key that the two servers
  spell in two ways the statements are an INSERT and a DELETE, in the order of the texts: an
  INSERT that comes first is refused, and nothing is applied.
- Outside the modules: SyncTableData splits at `;\n`, in values too
  (data_sync.go:132).
- Outside the modules: an instance overwrites the favorites another one saved.

## Fairness

Safety needs none.  `ConnManager` has weak fairness of the two steps that close what a
call took out of the map: the pool and then the tunnel, which end by themselves.
Connecting need never end, because the handshakes with an SSH host or a proxy have no
timeout, and no call need ever arrive; `DetachedIsClosed` follows without.  `History`
has weak fairness of the steps, and strong fairness of taking `Store.mu`: Go's
mutex hands over to a goroutine that has waited a millisecond, so that one that
is let go again and again is got.  The lock file needs no such assumption,
because waiting for it ends by its timeout.  `Executor` has weak fairness of the
timeout of each context, and of the steps of a call that are its own: those after
its context is over, returning the connection, and the registry.  Statements need
never end by themselves, and a connection need never come free: `QueriesReturn`
follows from the timeouts alone.  `Workspace` has weak fairness of the steps of the
restore (`WalkStep`) but for the answer of ConnectNew, which may never come (`Awaits`): its
other calls to the backend read a file or the open connection, and its loop goes on; that a
user clicks, or that a countdown runs out, is not assumed.  `RestoreEnds` says that a
window that stays open does not stay in the phases in which the status bar shows no
button, unless it waits for one ConnectNew for ever.

## Proofs

| Module | Theorem | For every | Proves |
|---|---|---|---|
| `ConnManagerProofs` | `TypeCorrect`, `MapUsable`, `SessionIdentity`, `LeakOnlyByOverwrite` | number of calls, configurations, pools | `TypeOK`, `RegisteredUsable`, `KeyIsInfoId /\ SessionKeepsCfg`, `OnlyOverwriteLeaks` |
| `ConnManagerProofs` (`TableEdit`) | `EditTypes`, `EditsReachTheirRow`, `GridShowsTheSaved` | connections, rows, columns and values of the table, what the server makes of a write, saves in flight, acts | `EditTypeOK`, `SentForItsRow`, `ShownIsSaved` |
| `SessionStoreProofs` | `SessionTypes`; `CrashLeavesOneValid`, `OnlyACutLosesTheSession` with one instance (`Alone`) | number of saves and damages | `TypeOK`; `OneValid`, `EmptyOnlyAfterCut` |
| `SessionGroupsProofs` | `TreeTypes`, `NoDanglingConnection`, `NoGroupUnderItself`, `OrphansNeedDepth` | set of groups, connections, windows; number of writes | `TypeOK`, `ConnsGrouped`, `NoCycle`, `OrphanOnlyByDepth` |
| `SessionGroupsProofs` (`McpServer`) | `McpTypes`, `McpServesTheSaved`, `McpRevokes` | number of management calls, requests, servers, ports, tokens, connections | `McpTypeOK`, `ServedIsSaved`, `RevokedIsOver` |
| `AppConfigProofs` | `FileTypes`, `AlwaysLoads`, `CallsAreAtomic` | number of goroutines, instances, entries, calls, crashes | `TypeOK`, `LoadsUnlessShared`, `EachCallAtomic` |
| `ExecutorProofs` | `TypeCorrect`, `StatementsInTheirDatabase`, `CancelsTheirKey`, `StaysCancellable`, `PoolKeepsConns` | number of calls, cancels, keys, databases, connections, statements | `TypeOK`, `RunsInItsDatabase`, `OnlyItsKey`, `Cancellable`, `ConnsReturn` |
| `QueryRunsProofs` | `RunTypesHold`, `EachStatementOnce`, `TabsTellTheTruth`, `PlansBesideTheirResults` | number of runs, tabs, sessions, changes, lost answers; any texts | `TypeOK`, `StatementsOnce`, `RunningIsTrue`, `PlanBesideItsResult` |
| `QueryRunsProofs` (`History`) | `HistoryTypes`, `HistoryKeepsEntries` | number of goroutines, instances, entries; any limit of the day | `HistoryTypeOK`, `NoEntryLost` |
| `WorkspaceProofs` | `WorkspaceHolds`, `WorkspaceTypes`, `StoreStaysCoherent`, `TwinsNeedARace`, `LastSessionIsSaved` | finite set of saved connections; any works, databases, hosts, clicks, acts | its invariant, `TypeOK`, `StoreIsCoherent`, `TwinsOnlyByRace`, `WorkSaved` |
| `DataSyncProofs` | `SyncTypes`, `DifferencesGoHome`, `SyncMakesEqual` | finite set of keys and of texts; any servers, values, limits, pools, acts, and anything the server takes a key or value for | `TypeOK`, `GoesToItsTarget`, `SyncedRowsAreEqual` |

Three proof modules hold the proofs of two components.  The names of one of the two
begin with its own (`McpSpec`, `HistoryInit`, `EditTypeOK`), so that both can be
extended; the components share nothing, and neither proof uses the other's lemmas.

`SessionIdentity` and `PoolKeepsConns` also state facts no run checks by themselves
(`KeyIsInfoId`, `ConnsReturn`): they are conjuncts the other proofs need.

They rest on the named assumptions about constants, which TLC evaluates in the
runs: that ids of different kinds differ, that bounds are numbers, that each
goroutine has an instance, that each tab has a session, that a pool keeps some
connection, that the saved connections, the keys of a table and their texts are finitely many
(`KeysHaveTexts`), that the server takes each key and each value that is sent for one
(`StatementsArrive`), that the boundaries of a text lie within it (`TextsAreCut`), and
that the keys of the rows of `TableEdit` are numbers (`PksAreOrdered`: their order is the
one the server returns them in).  `NoneIsNoCall` says that the value for "no call" is none
of the records for calls.

- `ConnManager`.  That a registered pool works is not inductive by itself: it
  takes that each pool is in the map under one id (`OneKey`), that a pool in the
  hands of a call that may close it (not yet registered, or detached) is not in
  the map (`PrivateIsDetached`) and in the hands of that call only
  (`PrivateIsExclusive`); together with what such pools look like they are
  `MapInv`.  Identity needs that what Reconnect read of the session is still
  right when it connects again and moves the new entry (`ReconnectCfg`,
  `RemapCfg`), which rests on UUIDs not coming twice (`KeyWasOpened`).  The leak
  property is an action property, proved step by step from `TypeOK`, `MapInv`
  and the fact that a pool is closed before its tunnel (`DbClosedFirst`).
- `SessionStore`.  The strengthening `Intact` says that nothing is bad unless
  damaged and that from Stat to its rename session.json is there; with one
  instance the stages exclude each other.
- `SessionGroups`.  Acyclicity is stated over sets (`Forest`: every set of groups
  closed under "parent" is empty), which needs no recursion and no induction:
  three lemmas say that a graft under a root, a new leaf and a removal keep it,
  a fourth that the merge with a payload of two levels does.  The invariant adds
  that windows list, and groups point at, only ids that were given out (`Known`),
  so that a new group is a leaf, and that the tree is flat until `deep`.
- `AppConfig`.  `OwnTmp`: unless shared, a goroutine that writes the temporary
  file of its instance is alone at it.  `HoldsLock`: a busy locked call has the
  lock.  `Calm`: unless loose, busy calls exclude each other, and what a call
  will write is its effect on what is in the file now.  With these each step is a
  step of `AtomicConfig` (`StepRefines`): Rename is Commit, every way to end
  otherwise is Fail, the step that makes the history loose is ComeLoose, and the
  rest stutters.

- `McpServer`.  That settings are served when no call is under way is not inductive:
  between the save and the Restart of a settings call the server does serve the old
  ones.  The invariant says it with that exception (`ServesWhatIsSaved`, `Pending`),
  says the same of a Start that read the settings and has not published them
  (`StartsWhatIsSaved`), and that a Start or a drain has the server's mutex
  (`HoldsServerMu`), so that no second one publishes under it.  `RevokedIsOver` adds
  that a server that drains is the current one and a call waits for it (`OneDrains`), and
  that what runs on the current server was let through by the policy it serves
  (`RequestsAreServed`): a request reads the policy without the lock, and Start replaces it
  only once the server before has gone or is out of reach.
- `History`.  The heart is `WritesCover`: what the call with the lock file is about to
  write has every entry that is in the file, or the `maxPerDay` latest of more, unless it
  is `blind`.  It
  is kept because nobody else writes while the file is locked, and made by the merge
  (`MergeCovers`).  The lemmas about "the n latest of a set" it needs are stated over
  cardinalities (`LatestEntry`, `EntriesAreCounted`, `LatestKeepsN`), so that no
  recursion over the list is needed.

- `Executor`.  `Owns`: a connection in the hands of a call is out, and in no other
  hands, so that nobody changes its database between `USE` and the statement.
  `OwnContext` and `UnderItsKey`: contexts are of one call and registered under
  its key only, which makes what a cancel looked up right when it is called.
  `Overlaps`: two statements under one key make it mixed before either can take
  the entry of the other away.

- `QueryRuns`.  `Progress` says what a run at each place has had: the answers cover the
  pieces before where it stands and none beyond (`Answered`), and nothing of the call it
  is in has been sent but by its own first try (`AtCall`).  With it a call that sends
  the pieces from there on, cut in whatever way its boundaries allow, sends none again
  whose answer came (`InTurn`), leaves none out (`NoneLeftOut`) and cuts as the text or
  its rest is cut (`AsWritten`); that is proved once, for any such call (`SendsOn`).
  One run is under way in each tab, unless `crossed` (`OneInEachTab`).  `OfPlans` says
  that plans in flight are of the run whose results the tab shows, and that no run is
  under way in their tab, unless `late`. `RunningIsTrue` then is inductive: each step
  that ends a run writes the tab or makes it `lost`.
- `Workspace`.  The first part of its proofs states, for each operation of the store, what it
  does to a sound store (`SoundBenches`, `SoundStores`: shapes, the root copy, the
  active tab), and that sound stores are coherent.  The invariant over them has three
  parts.  `Shapes`: the store is sound, the restore counts no more successes than it
  tried (`Budget`).  `Races`: while the restore connects, or a click does, what the
  check for a duplicate saw is still so unless the host is in `raced`.
  `WorkIsSomewhere`: the tabs of each saved connection that was loaded wait whole, or
  are in the one session that connection has, or were closed; without it nothing says
  why a tab that is not in a session is still in the save.
- `DataSync`.  `Statements` says what rows a difference is about, and `StatementsOfAKey`
  that what names an ordinary key was made of its own rows, so that a key has one
  statement, or, where the two servers spell it in two ways, an INSERT and a DELETE; if
  the INSERT was not refused it came last.  `RunMakesEqual` follows by whether the
  source, the target or both have the row, and is all the equality needs.  That a
  difference goes home rests on `UsedIsOnTop`: there was room in the pool for the
  connection USE came on, so it is the one on top.

- `TableEdit`.  Types first (`EditTyped`): the bound variable of nearly every step is a
  row array, and the grid has no two of one key (`Keyed`), which makes the row at a
  place one row.  `SentInv` follows a typed value on its way: into the editor, the queue
  of unsaved cells, the call, and what is left of a `commitAll`; at each place it is
  still with the row it was typed for, unless `shifted`, and that row is of the
  connection the call goes to, unless `early` or `crossed`.  What is typed in the form is
  over the value of the row at its place at all times, and of that row unless `twin`
  (`DraftForItsRow`).  `ShownInv` is what "the
  grid shows what is saved" has to say while calls are under way.  A write that has
  happened and is not yet answered is *open* (`OpenWrites`: of a save, a deletion, the
  form), and leaves a row behind in the grid once it is answered.  For each row that is
  not in `off`, either no write is open and the grid shows the server's row, or one
  is and its result is the server's row, or two are, which end in `off` (`Accounted`).  The
  caches and answers on their way agree with the server but for the rows written since they
  were read (`CachesAgree`, `ReadsAgree`, `ReloadAgrees`), and know of every open write
  (`OpenAreKnown`): a read must not bring back what an unanswered write then replaces.

Only model-checked: `DetachedIsClosed`, `CallsReturn`, `QueriesReturn` and
`RestoreEnds`, which need fairness and so are out of the prover's reach; and the
finding, `DeletedIsGone`, which is false.  Every other property of a run is the
statement of a theorem.

## Not modelled

- Schema sync, dumper, import, designer, inspector, profiler: reads of tables
  and of information_schema turned into text.  They keep nothing between calls; what
  could be wrong in them is the text.
- Favorites: a list in memory written whole; a small variant of the history store
  without its lock and merge.
- SSH and proxy tunnels, keychain, logger, reset: operating system and I/O; what the
  modelled parts need of them (fail, open, close, be removed) is in those parts.
- Views of the user interface (settings, schema tree, dialogs, column grid, languages,
  designer): drawing, and state of one view that nothing else reads.  They are most of
  the lines of the repository, and a model of them would restate their layout.
- Generated bindings: declarations.

## Plan

1. An abstract workspace (the set of tabs the user has) that `Workspace` implements
   until the first `loose` act.
2. Credentials next to `AppConfig` (the order of keychain and file), favorites.
