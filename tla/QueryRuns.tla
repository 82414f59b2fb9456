------------------------------ MODULE QueryRuns ------------------------------
(* The runs of SQL text in the query tabs of the window (hooks/useQueryExec.ts): *)
(* from the key or the button, over the dialog for placeholders, the call of     *)
(* ExecuteMultiQuery with one reconnect, the question after a statement failed,   *)
(* to the results and the plans (EXPLAIN) beside them.  Runs of several tabs, and *)
(* of one, overlap.  A handler's answer reaches a tab by updateTab, which sees    *)
(* only the tabs of the session that is shown (module TabStore).                  *)
(*                                                                               *)
(* ExecuteMulti cuts a text into statements; what is left after a failure is     *)
(* joined with `;` and cut anew when the user continues.  A text is a number of   *)
(* pieces, and a boundary between two of them may cut one time and not the       *)
(* other: a `;` in a body that DELIMITER protects cuts only after the joining    *)
(* (inner), and the `;` put behind a statement that ends in a line comment is    *)
(* part of the comment (swallowed).  The results of some statements have columns  *)
(* (selects, by their last piece).                                               *)
EXTENDS Integers, Sequences, FiniteSets

CONSTANTS Sessions,
          Home,      \* the session of each query tab
          MaxRuns,   \* bound on runs
          TextOf,    \* the text of each run
          MaxPieces, \* bound on the pieces of a text
          MaxSwitch, \* bound on changes of the session
          MaxLost,   \* bound on calls whose answer is lost
          None

Tabs == DOMAIN Home
Runs == 1..MaxRuns

ASSUME BoundsAreNat == MaxRuns \in Nat /\ MaxPieces \in Nat /\ MaxSwitch \in Nat /\ MaxLost \in Nat
ASSUME HomeIsSession == Home \in [Tabs -> Sessions]
ASSUME NoneIsNoRun == None \notin Runs \cup Tabs
ASSUME TextsAreCut ==
    \A r \in Runs : /\ TextOf[r].pieces \in 1..MaxPieces
                    /\ TextOf[r].inner \cup TextOf[r].swallowed \subseteq 1..(TextOf[r].pieces - 1)
                    /\ TextOf[r].selects \subseteq 1..TextOf[r].pieces

VARIABLES
    shown,     \* activeSessionId
    switches,  \* changes of the session so far
    rejects,   \* calls whose answer was lost
    tabs,      \* what each open tab shows
    run,       \* the runs
    toasts,    \* the questions on the screen, by index of the statement that failed
    request,   \* the placeholder dialog: the tab it was opened for
    plans,     \* GetExplain and GetExplainJSON in flight
    sent,      \* history: the statements of a run given to the server
    lost,      \* history: tabs an update of which was lost
    crossed,   \* history: tabs where a run began while an earlier one was not over
    late       \* history: tabs where a run began while plans of an earlier one were under way

vars == <<shown, switches, rejects, tabs, run, toasts, request, plans, sent, lost, crossed, late>>

Pieces == 1..MaxPieces
Statement == [call : Nat \ {0}, answered : BOOLEAN, from : Pieces, to : Pieces]
Result == [run : Runs, stmt : Pieces]  \* stmt: the last piece of the statement
Tab == [running : BOOLEAN, results : Seq(Result), plan : Seq(Runs \cup {None}),
        error : Runs \cup {None}]
Pcs == {"idle", "call", "reconnect", "again", "ask", "over"}
Run == [pc : Pcs, tab : Tabs \cup {None}, next : Nat, call : Nat \ {0}, done : Seq(Result)]

EmptyTab == [running |-> FALSE, results |-> <<>>, plan |-> <<>>, error |-> None]
NoRun == [pc |-> "idle", tab |-> None, next |-> 1, call |-> 1, done |-> <<>>]

Init ==
    /\ shown \in Sessions /\ switches = 0 /\ rejects = 0
    /\ tabs = [t \in Tabs |-> EmptyTab]
    /\ run = [r \in Runs |-> NoRun]
    /\ toasts = <<>> /\ request = None /\ plans = {}
    /\ sent = [r \in Runs |-> {}]
    /\ lost = {} /\ crossed = {} /\ late = {}

-----------------------------------------------------------------------------
Live(r) == run[r].pc \notin {"idle", "over"}
Reached(t) == t \in DOMAIN tabs /\ Home[t] = shown

\* updateTab: the tab becomes new, or nothing does.
UpdateTab(t, new) ==
    IF Reached(t) THEN tabs' = [tabs EXCEPT ![t] = new] /\ lost' = lost
    ELSE tabs' = tabs /\ lost' = lost \cup {t}

ExecuteKeepsPlan(t) ==
    \E r \in Runs :
      /\ run[r].pc = "idle" /\ \A q \in Runs : q < r => run[q].pc # "idle"
      /\ run' = [run EXCEPT ![r] = [NoRun EXCEPT !.pc = "call", !.tab = t]]
      /\ UpdateTab(t, [EmptyTab EXCEPT !.running = TRUE, !.plan = tabs[t].plan])
      /\ crossed' = IF \E q \in Runs : Live(q) /\ run[q].tab = t THEN crossed \cup {t} ELSE crossed
      /\ late' = IF \E p \in plans : run[p.run].tab = t THEN late \cup {t} ELSE late
Execute(t) ==
    \E r \in Runs :
      /\ run[r].pc = "idle" /\ \A q \in Runs : q < r => run[q].pc # "idle"
      /\ run' = [run EXCEPT ![r] = [NoRun EXCEPT !.pc = "call", !.tab = t]]
      /\ UpdateTab(t, [EmptyTab EXCEPT !.running = TRUE])
      /\ crossed' = IF \E q \in Runs : Live(q) /\ run[q].tab = t THEN crossed \cup {t} ELSE crossed
      /\ late' = IF \E p \in plans : run[p.run].tab = t THEN late \cup {t} ELSE late

\* F9 and the editor's keys do not look whether the tab is running already.
RunQuery(t) ==
    /\ Reached(t)
    /\ Execute(t) /\ UNCHANGED <<shown, switches, rejects, toasts, request, plans, sent>>

\* A text with placeholders opens the one dialog, over the one that may be open.
AskPlaceholders(t) ==
    /\ Reached(t)
    /\ request' = t
    /\ UNCHANGED <<shown, switches, rejects, tabs, run, toasts, plans, sent, lost, crossed, late>>

SubmitPlaceholders ==
    /\ request # None
    /\ Execute(request)
    /\ request' = None
    /\ UNCHANGED <<shown, switches, rejects, toasts, plans, sent>>

ClosePlaceholders ==
    /\ request # None /\ request' = None
    /\ UNCHANGED <<shown, switches, rejects, tabs, run, toasts, plans, sent, lost, crossed, late>>

-----------------------------------------------------------------------------
\* The results with columns are explained.
Explains(r, done) ==
    {[run |-> r, at |-> i] : i \in {j \in 1..Len(done) : done[j].stmt \in TextOf[r].selects}}

\* onSuccess: the results, no plan yet, and a call for the plan of each that has columns.
Succeed(r, done) ==
    /\ run' = [run EXCEPT ![r].pc = "over", ![r].done = done]
    /\ UpdateTab(run[r].tab, [tabs[run[r].tab] EXCEPT
                                !.running = FALSE, !.results = done,
                                !.plan = [i \in 1..Len(done) |-> None]])
    /\ plans' = plans \cup Explains(r, done)

\* The last pieces of the statements of the call: SplitStatements of the text as it was
\* written, or of the rest as joinStatements put it together.
Ends(r) ==
    LET x == TextOf[r]
    IN (run[r].next..x.pieces) \ (IF run[r].call = 1 THEN x.inner ELSE x.swallowed)

\* The statements up to piece k, which ExecuteMulti gives to the server one by one; its
\* answer comes or is lost.
Given(r, k, answered) ==
    {s \in [call : {run[r].call}, answered : {answered}, from : run[r].next..k, to : Ends(r)] :
       /\ s.from <= s.to /\ s.to <= k
       /\ s.from = run[r].next \/ s.from - 1 \in Ends(r)
       /\ \A e \in Ends(r) : ~(s.from <= e /\ e < s.to)}

\* The results of the statements that end in S, in their order, after those there are.
With(r, S) ==
    {run[r].done \o d : d \in {f \in [1..Cardinality(S) -> [run : {r}, stmt : S]] :
                                 \A i, j \in 1..Cardinality(S) : i < j => f[i].stmt < f[j].stmt}}
Before(r, k) == {e \in Ends(r) : e < k}

Answer(r) ==
    /\ run[r].pc \in {"call", "again"}
    /\ sent' = [sent EXCEPT ![r] = @ \cup Given(r, TextOf[r].pieces, TRUE)]
    /\ \E done \in With(r, Ends(r)) : Succeed(r, done)
    /\ UNCHANGED <<shown, switches, rejects, toasts, request, crossed, late>>

\* The last statement failed and none is left: the run is over with what it has.
AnswerLastFails(r) ==
    /\ run[r].pc \in {"call", "again"}
    /\ sent' = [sent EXCEPT ![r] = @ \cup Given(r, TextOf[r].pieces, TRUE)]
    /\ \E done \in With(r, Before(r, TextOf[r].pieces)) :
         LET t == run[r].tab
         IN /\ run' = [run EXCEPT ![r].pc = "over", ![r].done = done]
            /\ UpdateTab(t, [tabs[t] EXCEPT !.running = FALSE, !.results = done, !.error = r,
                                            !.plan = [i \in 1..Len(done) |-> None]])
            /\ plans' = plans \cup Explains(r, done)
    /\ UNCHANGED <<shown, switches, rejects, toasts, request, crossed, late>>

\* The question of run r about the statement with the given index.
Asks(r, index) ==
    toasts' = [i \in DOMAIN toasts \cup {index} |-> IF i = index THEN r ELSE toasts[i]]

AnswerFailsAtEnd(r) ==
    /\ run[r].pc \in {"call", "again"}
    /\ \E k \in Ends(r) : \E done \in With(r, Before(r, k)) :
         /\ sent' = [sent EXCEPT ![r] = @ \cup Given(r, k, TRUE)]
         /\ run' = [run EXCEPT ![r].pc = "ask", ![r].next = k + 1, ![r].done = done]
         /\ Asks(r, Cardinality(Before(r, k)))
    /\ UpdateTab(run[r].tab, [tabs[run[r].tab] EXCEPT !.error = r])
    /\ UNCHANGED <<shown, switches, rejects, request, plans, crossed, late>>

\* The statement that ends at k failed: the error is shown and the user asked.  A question
\* with the same index, of any tab, is replaced, and nobody answers that one.
AnswerFails(r) ==
    /\ run[r].pc \in {"call", "again"}
    /\ \E k \in Ends(r) \ {TextOf[r].pieces} : \E done \in With(r, Before(r, k)) :
         /\ sent' = [sent EXCEPT ![r] = @ \cup Given(r, k, TRUE)]
         /\ run' = [run EXCEPT ![r].pc = "ask", ![r].next = k + 1, ![r].done = done]
         /\ Asks(r, Cardinality(Before(r, k)))
    /\ UpdateTab(run[r].tab, [tabs[run[r].tab] EXCEPT !.error = r])
    /\ UNCHANGED <<shown, switches, rejects, request, plans, crossed, late>>

Dismissed(r) == toasts' = [i \in {j \in DOMAIN toasts : toasts[j] # r} |-> toasts[i]]
Asked(r) == run[r].pc = "ask" /\ r \in {toasts[i] : i \in DOMAIN toasts}

ContinueFromStart(r) ==
    /\ Asked(r) /\ Dismissed(r)
    /\ run' = [run EXCEPT ![r].pc = "call", ![r].next = 1, ![r].call = @ + 1]
    /\ UNCHANGED <<shown, switches, rejects, tabs, request, plans, sent, lost, crossed, late>>
\* The rest, joined and cut anew.
Continue(r) ==
    /\ Asked(r) /\ Dismissed(r)
    /\ run' = [run EXCEPT ![r].pc = "call", ![r].call = @ + 1]
    /\ UNCHANGED <<shown, switches, rejects, tabs, request, plans, sent, lost, crossed, late>>

Stop(r) ==
    /\ Asked(r) /\ Dismissed(r)
    /\ Succeed(r, run[r].done)
    /\ UNCHANGED <<shown, switches, rejects, request, sent, crossed, late>>

\* onError.
FailSilently(r) ==
    /\ run' = [run EXCEPT ![r].pc = "over"]
    /\ UNCHANGED <<tabs, lost>>
Fail(r) ==
    /\ run' = [run EXCEPT ![r].pc = "over"]
    /\ UpdateTab(run[r].tab, [tabs[run[r].tab] EXCEPT !.running = FALSE, !.error = r])

\* The call itself is rejected and its answer lost: the statements up to some piece, or all
\* or none of them, have been run.  An error that looks like one of the connection is tried
\* once again, with the same text.
CallRejected(r) ==
    /\ run[r].pc \in {"call", "again"}
    /\ rejects < MaxLost /\ rejects' = rejects + 1
    /\ \E k \in Ends(r) \cup {run[r].next - 1} : sent' = [sent EXCEPT ![r] = @ \cup Given(r, k, FALSE)]
    /\ \/ run[r].pc = "call" /\ run' = [run EXCEPT ![r].pc = "reconnect"] /\ UNCHANGED <<tabs, lost>>
       \/ Fail(r)
    /\ UNCHANGED <<shown, switches, toasts, request, plans, crossed, late>>

Reconnected(r) ==
    /\ run[r].pc = "reconnect"
    /\ run' = [run EXCEPT ![r].pc = "again"]
    /\ UNCHANGED <<shown, switches, rejects, tabs, toasts, request, plans, sent, lost, crossed, late>>

ReconnectFails(r) ==
    /\ run[r].pc = "reconnect"
    /\ Fail(r)
    /\ UNCHANGED <<shown, switches, rejects, toasts, request, plans, sent, crossed, late>>

\* A plan is put beside the result of its index, if its tab is in sight.
PlanArrives ==
    /\ \E p \in plans :
         LET t == run[p.run].tab
         IN /\ plans' = plans \ {p}
            /\ tabs' = IF ~Reached(t) THEN tabs
                       ELSE [tabs EXCEPT ![t].plan =
                               [i \in 1..(IF p.at > Len(@) THEN p.at ELSE Len(@)) |->
                                  IF i = p.at THEN p.run
                                  ELSE IF i <= Len(@) THEN @[i] ELSE None]]
    /\ UNCHANGED <<shown, switches, rejects, run, toasts, request, sent, lost, crossed, late>>

PlanFails ==
    /\ \E p \in plans : plans' = plans \ {p}
    /\ UNCHANGED <<shown, switches, rejects, tabs, run, toasts, request, sent, lost, crossed, late>>

-----------------------------------------------------------------------------
Switch ==
    /\ switches < MaxSwitch /\ switches' = switches + 1
    /\ shown' \in Sessions \ {shown}
    /\ UNCHANGED <<rejects, tabs, run, toasts, request, plans, sent, lost, crossed, late>>

\* A tab is closed while it runs; its run goes on.
CloseTab(t) ==
    /\ Reached(t)
    /\ \E u \in DOMAIN tabs : u # t /\ Home[u] = Home[t]
    /\ tabs' = [u \in DOMAIN tabs \ {t} |-> tabs[u]]
    /\ UNCHANGED <<shown, switches, rejects, run, toasts, request, plans, sent, lost, crossed, late>>

OfRun(r) == Answer(r) \/ AnswerLastFails(r) \/ AnswerFails(r) \/ Continue(r) \/ Stop(r)
            \/ CallRejected(r) \/ Reconnected(r) \/ ReconnectFails(r)
OfTab(t) == RunQuery(t) \/ AskPlaceholders(t) \/ CloseTab(t)

Next == (\E r \in Runs : OfRun(r)) \/ (\E t \in Tabs : OfTab(t))
        \/ SubmitPlaceholders \/ ClosePlaceholders \/ PlanArrives \/ PlanFails \/ Switch

Spec == Init /\ [][Next]_vars

-----------------------------------------------------------------------------
TypeOK ==
    /\ shown \in Sessions /\ switches \in 0..MaxSwitch /\ rejects \in 0..MaxLost
    /\ DOMAIN tabs \subseteq Tabs /\ \A t \in DOMAIN tabs : tabs[t] \in Tab
    /\ run \in [Runs -> Run]
    /\ \A r \in Runs : run[r].pc # "idle" => run[r].tab \in Tabs
    /\ \A r \in Runs : Live(r) => run[r].next \in 1..TextOf[r].pieces
    /\ sent \in [Runs -> SUBSET Statement]
    /\ \A i \in DOMAIN toasts : toasts[i] \in Runs
    /\ \A p \in plans : p.run \in Runs /\ p.at \in Pieces
    /\ request \in Tabs \cup {None} /\ lost \subseteq Tabs /\ crossed \subseteq Tabs /\ late \subseteq Tabs

\* A tab says that it is running exactly while a run of it is under way, unless an update
\* of it was lost to a change of the session or two of its runs overlapped.
RunningIsTrue ==
    \A t \in DOMAIN tabs \ (lost \cup crossed) :
        tabs[t].running = (\E r \in Runs : run[r].tab = t /\ Live(r))

\* A statement is one the user wrote, or a boundary of the joined rest made it another.
Written(x, s) ==
    /\ s.from - 1 \notin x.inner /\ s.to \notin x.inner
    /\ \A b \in s.from..(s.to - 1) : b \in x.inner
Recut(x, s) ==
    /\ s.call > 1
    /\ \/ s.from - 1 \in x.inner \/ s.to \in x.inner
       \/ \E b \in x.swallowed : s.from <= b /\ b < s.to

\* A statement whose answer came is never given to the server again, and those of later
\* calls come after it, with no piece of the text left out.  The server gets statements that
\* the user wrote, but where a joined rest was cut anew, and a run hands on results of
\* statements it had sent.
StatementsOnce ==
    \A r \in Runs :
        /\ \A s, q \in sent[r] : s.answered =>
             /\ s.call < q.call => s.to < q.from
             /\ s.call = q.call /\ q.answered /\ s # q => s.to < q.from \/ q.to < s.from
        /\ \A s \in sent[r] : \A p \in 1..s.to : \E q \in sent[r] :
             q.from <= p /\ p <= q.to /\ (q.answered \/ q.call = s.call)
        /\ \A s \in sent[r] : Written(TextOf[r], s) \/ Recut(TextOf[r], s)
        /\ \A i \in DOMAIN run[r].done : \E s \in sent[r] : s.answered /\ s.to = run[r].done[i].stmt
        /\ \A i, j \in DOMAIN run[r].done : i < j => run[r].done[i].stmt < run[r].done[j].stmt

\* A plan stands beside a result of its own run, unless a run began while plans of an
\* earlier one were under way.
PlanBesideItsResult ==
    \A t \in DOMAIN tabs \ (lost \cup crossed \cup late) :
        \A i \in DOMAIN tabs[t].plan :
            tabs[t].plan[i] # None =>
                i \in DOMAIN tabs[t].results /\ tabs[t].results[i].run = tabs[t].plan[i]
=============================================================================
