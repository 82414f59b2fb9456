-------------------------- MODULE QueryRunsProofs --------------------------
(* Proofs about what a window runs and about the history that its statements   *)
(* go into.  First the runs: what QueryRuns.cfg checks for two runs in three   *)
(* tabs, for any number of runs, statements, tabs, sessions and changes of the *)
(* session.  Then the history: what History.cfg checks for three calls of two  *)
(* instances, for any number of calls, instances and entries.                  *)
EXTENDS QueryRuns, History, TLAPS, FiniteSetTheorems

-----------------------------------------------------------------------------
(* The invariant.  The answers that a run under way has had are of statements  *)
(* before its next piece and cover all of them; nothing of a call was sent     *)
(* before it, but by its own first try, whose answer is lost.  Two runs under   *)
(* way in one tab have crossed.  A plan on its way is of a run that is over,   *)
(* whose results the tab shows, and has met no run that is under way, unless   *)
(* something was lost, crossed or late.                                        *)
InOrder(d) == \A i, j \in DOMAIN d : i < j => d[i].stmt < d[j].stmt
HandedOn(d, S) == \A i \in DOMAIN d : \E s \in S : s.answered /\ s.to = d[i].stmt
OfRunOnly(d, r) == \A i \in DOMAIN d : d[i].run = r

InTurn(S) ==
    \A s, q \in S : s.answered =>
        /\ s.call < q.call => s.to < q.from
        /\ s.call = q.call /\ q.answered /\ s # q => s.to < q.from \/ q.to < s.from
NoneLeftOut(S) ==
    \A s \in S : \A p \in 1..s.to : \E q \in S :
        q.from <= p /\ p <= q.to /\ (q.answered \/ q.call = s.call)
AsWritten(x, S) == \A s \in S : Written(x, s) \/ Recut(x, s)
SentOnce(x, S) == InTurn(S) /\ NoneLeftOut(S) /\ AsWritten(x, S)

Answered(S, n) ==
    /\ \A s \in S : s.answered => s.to < n
    /\ \A p \in 1..(n - 1) : \E q \in S : q.answered /\ q.from <= p /\ p <= q.to
AtCall(S, stage, c, n) ==
    /\ \A s \in S : s.call <= c
    /\ stage = "call" => \A s \in S : s.call < c
    /\ stage \in {"reconnect", "again"} => \A s \in S : s.answered => s.call < c
    /\ stage # "ask" /\ c = 1 => n = 1
UnderWay(S, stage, c, n) == Answered(S, n) /\ AtCall(S, stage, c, n)

Progress ==
    \A r \in Runs :
        /\ run[r].pc = "idle" => sent[r] = {} /\ run[r].done = <<>>
        /\ Live(r) => /\ UnderWay(sent[r], run[r].pc, run[r].call, run[r].next)
                      /\ Len(run[r].done) < run[r].next
        /\ Len(run[r].done) <= MaxPieces

OwnResults == \A r \in Runs : OfRunOnly(run[r].done, r)
SentInOrder ==
    \A r \in Runs : /\ SentOnce(TextOf[r], sent[r])
                    /\ HandedOn(run[r].done, sent[r]) /\ InOrder(run[r].done)

OneInEachTab ==
    \A q, r \in Runs : q # r /\ Live(q) /\ Live(r) /\ run[q].tab = run[r].tab
                       => run[r].tab \in crossed

PlansOfResults ==
    \A p \in plans : run[p.run].pc = "over" /\ p.at \in 1..Len(run[p.run].done)

PlansMeetNoRun ==
    \A p \in plans, r \in Runs : Live(r) /\ run[r].tab = run[p.run].tab
                                 => run[r].tab \in crossed \cup late

PlansOfTheTab ==
    \A p \in plans : run[p.run].tab \in DOMAIN tabs \ (lost \cup crossed \cup late)
                     => tabs[run[p.run].tab].results = run[p.run].done

OfRuns == Progress /\ OwnResults /\ SentInOrder /\ OneInEachTab
OfPlans == PlansOfResults /\ PlansMeetNoRun /\ PlansOfTheTab /\ PlanBesideItsResult
IInv == TypeOK /\ OfRuns /\ OfPlans /\ RunningIsTrue

LEMMA InitIInv == Init => IInv
<1> SUFFICES ASSUME Init PROVE IInv
    OBVIOUS
<1> USE BoundsAreNat, NoneIsNoRun DEF Init
<1>1. TypeOK
    BY DEF TypeOK, Live, Tab, EmptyTab, Run, NoRun, Pcs
<1>2. OfRuns
    BY DEF OfRuns, Progress, OwnResults, SentInOrder, SentOnce, InTurn, NoneLeftOut, AsWritten,
           HandedOn, InOrder, OfRunOnly, OneInEachTab, Live, NoRun
<1>3. OfPlans
    BY DEF OfPlans, PlansOfResults, PlansMeetNoRun, PlansOfTheTab, PlanBesideItsResult, EmptyTab
<1>4. RunningIsTrue
    BY DEF RunningIsTrue, Live, NoRun, EmptyTab
<1> QED
    BY <1>1, <1>2, <1>3, <1>4 DEF IInv

LEMMA SentInOrderIsOnce == SentInOrder <=> StatementsOnce
BY DEF SentInOrder, StatementsOnce, SentOnce, InTurn, NoneLeftOut, AsWritten, HandedOn, InOrder

-----------------------------------------------------------------------------
(* How a text is cut.  A piece that is not after the last end lies in the      *)
(* statement between the end before it and the first one not before it.        *)
LEMMA FirstOf ==
    ASSUME NEW S \in SUBSET Nat, S # {}
    PROVE  \E e \in S : \A f \in S : e <= f
<1>1. PICK e \in S : \A f \in S : ~(<<f, e>> \in OpToRel(<, Nat))
    BY NatLessThanWellFounded, WFMin
<1>2. ASSUME NEW f \in S PROVE e <= f
    <2>1. ~(f < e)
        BY <1>1 DEF OpToRel
    <2> QED
        BY <2>1
<1> QED
    BY <1>2

LEMMA LastOf ==
    ASSUME NEW m \in Nat, NEW S \in SUBSET 0..m, S # {}
    PROVE  \E e \in S : \A f \in S : f <= e
<1> DEFINE Ahead == {m - e : e \in S}
<1>1. \A e \in S : e \in Nat /\ m - e \in Nat
    OBVIOUS
<1>0. Ahead \in SUBSET Nat /\ Ahead # {}
    BY <1>1
<1>2. PICK c \in Ahead : \A d \in Ahead : c <= d
    BY <1>0, FirstOf
<1>3. PICK e \in S : c = m - e
    OBVIOUS
<1>4. \A f \in S : c <= m - f
    BY <1>2
<1> QED
    BY <1>1, <1>3, <1>4

IsCut(E, n, f, e) ==
    /\ e \in E /\ n <= f /\ f <= e /\ (f = n \/ f - 1 \in E)
    /\ \A x \in E : ~(f <= x /\ x < e)

LEMMA StatementAt ==
    ASSUME NEW n \in Nat \ {0}, NEW E \in SUBSET Nat, \A e \in E : n <= e,
           NEW top \in E, NEW p \in Nat, n <= p, p <= top
    PROVE  \E f, e \in Nat : /\ IsCut(E, n, f, e) /\ f <= p /\ p <= e /\ e <= top
                             /\ p \in E => e = p
<1>1. PICK e \in {x \in E : p <= x} : \A x \in {y \in E : p <= y} : e <= x
    BY FirstOf
<1> DEFINE B == {x \in E : x < p} \cup {n - 1}
<1>2. B \in SUBSET (0..p) /\ B # {}
    <2>1. n - 1 \in 0..p /\ \A x \in {y \in E : y < p} : x \in 0..p
        OBVIOUS
    <2> QED
        BY <2>1
<1>3. PICK g \in B : \A x \in B : x <= g
    BY <1>2, LastOf
<1>4. g \in Nat /\ g < p /\ n - 1 <= g
    BY <1>3
<1>5. IsCut(E, n, g + 1, e)
    <2>1. e \in E /\ n <= g + 1 /\ g + 1 <= e
        BY <1>1, <1>4
    <2>2. g + 1 = n \/ (g + 1) - 1 \in E
        BY <1>3, <1>4
    <2>3. ASSUME NEW x \in E, g + 1 <= x, x < e
          PROVE  FALSE
        BY <1>1, <1>3, <1>4, <2>3
    <2> QED
        BY <2>1, <2>2, <2>3 DEF IsCut
<1> QED
    BY <1>1, <1>4, <1>5

LEMMA EndsAre ==
    ASSUME IInv, NEW r \in Runs, Live(r)
    PROVE  /\ Ends(r) \in SUBSET Nat /\ Ends(r) \subseteq run[r].next..TextOf[r].pieces
           /\ run[r].next \in Nat \ {0} /\ run[r].next <= TextOf[r].pieces
           /\ TextOf[r].pieces \in Ends(r) /\ TextOf[r].pieces \in Pieces
           /\ TextOf[r].pieces \in Nat /\ TextOf[r].pieces <= MaxPieces
           /\ TextOf[r].inner \cup TextOf[r].swallowed \subseteq 1..(TextOf[r].pieces - 1)
           /\ run[r].call \in Nat \ {0}
<1>1. /\ TextOf[r].pieces \in 1..MaxPieces
      /\ TextOf[r].inner \cup TextOf[r].swallowed \subseteq 1..(TextOf[r].pieces - 1)
    BY TextsAreCut
<1>2. run[r].next \in 1..TextOf[r].pieces /\ run[r].call \in Nat \ {0}
    BY DEF IInv, TypeOK, Run
<1> QED
    BY <1>1, <1>2, BoundsAreNat DEF Ends, Pieces

LEMMA GivenIs ==
    ASSUME IInv, NEW r \in Runs, Live(r), NEW k \in Nat, k <= TextOf[r].pieces, NEW a \in BOOLEAN
    PROVE  /\ Given(r, k, a) \subseteq Statement
           /\ \A s \in Given(r, k, a) :
                /\ s.call = run[r].call /\ s.answered = a /\ s.to <= k
                /\ s.from \in Nat /\ s.to \in Nat
                /\ IsCut(Ends(r), run[r].next, s.from, s.to)
           /\ \A f, e \in Nat : IsCut(Ends(r), run[r].next, f, e) /\ e <= k =>
                [call |-> run[r].call, answered |-> a, from |-> f, to |-> e] \in Given(r, k, a)
<1> DEFINE n == run[r].next
           E == Ends(r)
           c == run[r].call
<1>1. /\ E \in SUBSET Nat /\ E \subseteq n..TextOf[r].pieces /\ n \in Nat \ {0}
      /\ TextOf[r].pieces \in Nat /\ TextOf[r].pieces <= MaxPieces /\ c \in Nat \ {0}
    BY EndsAre
<1>2. Given(r, k, a) = {s \in [call : {c}, answered : {a}, from : n..k, to : E] :
                          /\ s.from <= s.to /\ s.to <= k
                          /\ s.from = n \/ s.from - 1 \in E
                          /\ \A e \in E : ~(s.from <= e /\ e < s.to)}
    BY DEF Given
<1> HIDE DEF n, E, c
<1>3. n..k \subseteq Pieces /\ E \subseteq Pieces
    BY <1>1, BoundsAreNat DEF Pieces
<1>4. Given(r, k, a) \subseteq Statement
    BY <1>1, <1>2, <1>3 DEF Statement
<1>5. ASSUME NEW s \in Given(r, k, a)
      PROVE  /\ s.call = c /\ s.answered = a /\ s.to <= k
             /\ s.from \in Nat /\ s.to \in Nat /\ IsCut(E, n, s.from, s.to)
    <2>1. /\ s \in [call : {c}, answered : {a}, from : n..k, to : E]
          /\ s.from <= s.to /\ s.to <= k
          /\ s.from = n \/ s.from - 1 \in E
          /\ \A e \in E : ~(s.from <= e /\ e < s.to)
        BY <1>2, <1>5
    <2>2. s.call = c /\ s.answered = a /\ s.from \in n..k /\ s.to \in E
        BY <2>1
    <2>3. s.from \in Nat /\ n <= s.from /\ s.to \in Nat
        <3>1. n \in Nat /\ k \in Nat /\ s.from \in n..k
            BY <1>1, <2>2
        <3>2. s.from \in Nat /\ n <= s.from
            BY <3>1
        <3>3. s.to \in Nat
            BY <1>1, <2>2
        <3> QED
            BY <3>2, <3>3
    <2>4. IsCut(E, n, s.from, s.to)
        BY <2>1, <2>2, <2>3 DEF IsCut
    <2> QED
        BY <2>1, <2>2, <2>3, <2>4
<1>6. ASSUME NEW f \in Nat, NEW e \in Nat, IsCut(E, n, f, e), e <= k
      PROVE  [call |-> c, answered |-> a, from |-> f, to |-> e] \in Given(r, k, a)
    <2>1. f \in n..k /\ e \in E
        BY <1>1, <1>6 DEF IsCut
    <2> QED
        BY <1>2, <1>6, <2>1 DEF IsCut
<1> QED
    BY <1>4, <1>5, <1>6 DEF n, E, c

(* The set G has every statement up to k that the cut E makes of the pieces    *)
(* from n on.                                                                  *)
GivesAll(n, E, k, c, a, G) ==
    /\ n \in Nat \ {0} /\ E \in SUBSET Nat /\ k \in E
    /\ \A e \in E : n <= e
    /\ \A f, e \in Nat : IsCut(E, n, f, e) /\ e <= k =>
         [call |-> c, answered |-> a, from |-> f, to |-> e] \in G

LEMMA EachPieceGiven ==
    ASSUME NEW n, NEW E, NEW k, NEW c, NEW a, NEW G, GivesAll(n, E, k, c, a, G),
           NEW p \in Nat, n <= p, p <= k
    PROVE  \E q \in G : q.from <= p /\ p <= q.to /\ (p \in E => q.to = p)
<1>0. /\ n \in Nat \ {0} /\ E \in SUBSET Nat /\ k \in E /\ \A e \in E : n <= e
      /\ \A f, e \in Nat : IsCut(E, n, f, e) /\ e <= k =>
           [call |-> c, answered |-> a, from |-> f, to |-> e] \in G
    BY DEF GivesAll
<1>1. \E f, e \in Nat : /\ IsCut(E, n, f, e) /\ f <= p /\ p <= e /\ e <= k
                        /\ p \in E => e = p
    BY <1>0, StatementAt
<1>2. PICK f \in Nat, e \in Nat : /\ IsCut(E, n, f, e) /\ f <= p /\ p <= e /\ e <= k
                                  /\ p \in E => e = p
    BY <1>1
<1>3. [call |-> c, answered |-> a, from |-> f, to |-> e] \in G
    BY <1>0, <1>2
<1> QED
    BY <1>2, <1>3

(* What is added to the statements sent, call by call.                         *)
MaySend(x, S, G, c, n, k, a, E, m) ==
    /\ x.inner \cup x.swallowed \subseteq Nat \ {0}
    /\ S \in SUBSET Statement /\ G \in SUBSET Statement
    /\ c \in Nat \ {0} /\ n \in Nat \ {0} /\ k \in Nat /\ a \in BOOLEAN
    /\ E \in SUBSET Nat /\ m \in Nat
    /\ E = (n..m) \ (IF c = 1 THEN x.inner ELSE x.swallowed)
    /\ SentOnce(x, S) /\ Answered(S, n) /\ \A s \in S : s.call <= c
    /\ \A s \in S : s.answered => s.call < c
    /\ c = 1 => n = 1
    /\ k \in E \/ k = n - 1
    /\ k <= m
    /\ \A s \in G : /\ s.call = c /\ s.answered = a /\ s.to <= k
                    /\ IsCut(E, n, s.from, s.to)
    /\ \A p \in Nat : n <= p /\ p <= k =>
         \E q \in G : q.from <= p /\ p <= q.to /\ (p \in E => q.to = p)

LEMMA SendsOn ==
    ASSUME NEW x, NEW S, NEW G, NEW c, NEW n, NEW k, NEW a, NEW E, NEW m,
           MaySend(x, S, G, c, n, k, a, E, m)
    PROVE  /\ SentOnce(x, S \cup G)
           /\ a => Answered(S \cup G, k + 1)
           /\ ~a => Answered(S \cup G, n)
           /\ \A e \in E : e <= k => \E s \in G : s.to = e
<1> USE DEF MaySend
<1>1. \A s \in S \cup G : /\ s.call \in Nat /\ s.answered \in BOOLEAN
                          /\ s.from \in Nat /\ s.to \in Nat /\ s.from # 0 /\ s.to # 0
    BY BoundsAreNat DEF Statement, Pieces
<1>2. ASSUME NEW p \in Nat, n <= p, p <= k
      PROVE  \E q \in G : q.from <= p /\ p <= q.to /\ (p \in E => q.to = p)
    BY <1>2
<1>3. InTurn(S \cup G)
    <2> SUFFICES ASSUME NEW s \in S \cup G, NEW q \in S \cup G, s.answered
                 PROVE  /\ s.call < q.call => s.to < q.from
                        /\ s.call = q.call /\ q.answered /\ s # q => s.to < q.from \/ q.to < s.from
        BY DEF InTurn
    <2>1. CASE s \in S /\ q \in S
        BY <2>1 DEF SentOnce, InTurn
    <2>2. CASE s \in S /\ q \in G
        <3>1. s.to < n /\ n <= q.from
            BY <2>2 DEF Answered, IsCut
        <3> QED
            BY <1>1, <3>1
    <2>3. CASE s \in G /\ q \in S
        BY <1>1, <2>3
    <2>4. CASE s \in G /\ q \in G
        <3> SUFFICES ASSUME s # q PROVE s.to < q.from \/ q.to < s.from
            BY <1>1, <2>4
        <3>1. IsCut(E, n, s.from, s.to) /\ IsCut(E, n, q.from, q.to)
            BY <2>4
        <3>2. CASE s.to < q.to
            BY <1>1, <3>1, <3>2 DEF IsCut
        <3>3. CASE q.to < s.to
            BY <1>1, <3>1, <3>3 DEF IsCut
        <3>4. CASE s.to = q.to
            <4>1. s.from # q.from
                BY <2>4, <3>4 DEF Statement
            <4>2. CASE s.from < q.from
                <5>1. q.from - 1 \in E /\ s.from <= q.from - 1 /\ q.from - 1 < s.to
                    BY <1>1, <3>1, <3>4, <4>2 DEF IsCut
                <5> QED
                    BY <3>1, <5>1 DEF IsCut
            <4>3. CASE q.from < s.from
                <5>1. s.from - 1 \in E /\ q.from <= s.from - 1 /\ s.from - 1 < q.to
                    BY <1>1, <3>1, <3>4, <4>3 DEF IsCut
                <5> QED
                    BY <3>1, <5>1 DEF IsCut
            <4> QED
                BY <1>1, <4>1, <4>2, <4>3
        <3> QED
            BY <1>1, <3>2, <3>3, <3>4
    <2> QED
        BY <2>1, <2>2, <2>3, <2>4
<1>4. NoneLeftOut(S \cup G)
    <2> SUFFICES ASSUME NEW s \in S \cup G, NEW p \in 1..s.to
                 PROVE  \E q \in S \cup G : q.from <= p /\ p <= q.to
                                            /\ (q.answered \/ q.call = s.call)
        BY DEF NoneLeftOut
    <2>1. CASE s \in S
        BY <2>1 DEF SentOnce, NoneLeftOut
    <2>2. CASE s \in G /\ p < n
        <3>1. p \in 1..(n - 1)
            BY <1>1, <2>2
        <3> QED
            BY <3>1 DEF Answered
    <2>3. CASE s \in G /\ n <= p
        <3>1. p \in Nat /\ p <= k
            BY <1>1, <2>3
        <3>2. PICK q \in G : q.from <= p /\ p <= q.to
            BY <1>2, <2>3, <3>1
        <3> QED
            BY <2>3, <3>2
    <2> QED
        BY <1>1, <2>1, <2>2, <2>3
<1>5. AsWritten(x, S \cup G)
    <2> SUFFICES ASSUME NEW s \in G PROVE Written(x, s) \/ Recut(x, s)
        BY DEF SentOnce, AsWritten
    <2>1. /\ s.call = c /\ s.to \in E /\ s.from \in Nat /\ s.to \in Nat
          /\ n <= s.from /\ s.from <= s.to /\ (s.from = n \/ s.from - 1 \in E)
          /\ \A b \in s.from..(s.to - 1) : b \notin E /\ b \in n..m
        BY <1>1 DEF IsCut
    <2>2. CASE c = 1
        <3>1. s.from - 1 \notin x.inner /\ s.to \notin x.inner
            BY <2>1, <2>2
        <3>2. \A b \in s.from..(s.to - 1) : b \in x.inner
            BY <2>1, <2>2
        <3> QED
            BY <3>1, <3>2 DEF Written
    <2>3. CASE c # 1
        <3>0. s.call > 1
            BY <2>1, <2>3
        <3> SUFFICES ASSUME s.from - 1 \notin x.inner, s.to \notin x.inner,
                            \A b \in x.swallowed : ~(s.from <= b /\ b < s.to)
                     PROVE  Written(x, s)
            BY <3>0 DEF Recut
        <3>1. \A b \in s.from..(s.to - 1) : FALSE
            BY <2>1, <2>3
        <3> QED
            BY <3>1 DEF Written
    <2> QED
        BY <2>2, <2>3
<1>6. a => Answered(S \cup G, k + 1)
    <2> SUFFICES ASSUME a PROVE Answered(S \cup G, k + 1)
        OBVIOUS
    <2>1. n <= k + 1
        OBVIOUS
    <2>2. ASSUME NEW s \in S \cup G, s.answered PROVE s.to < k + 1
        <3>1. s.to \in Nat
            BY <1>1
        <3>2. CASE s \in S
            <4>1. s.to < n
                BY <2>2, <3>2 DEF Answered
            <4> QED
                BY <2>1, <3>1, <4>1
        <3>3. CASE s \in G
            <4>1. s.to <= k
                BY <3>3
            <4> QED
                BY <3>1, <4>1
        <3> QED
            BY <3>2, <3>3
    <2>3. ASSUME NEW p \in 1..((k + 1) - 1)
          PROVE  \E q \in S \cup G : q.answered /\ q.from <= p /\ p <= q.to
        <3>1. CASE p < n
            <4>1. p \in 1..(n - 1)
                BY <3>1
            <4> QED
                BY <4>1 DEF Answered
        <3>2. CASE n <= p
            <4>1. PICK q \in G : q.from <= p /\ p <= q.to
                BY <1>2, <3>2
            <4> QED
                BY <4>1
        <3> QED
            BY <3>1, <3>2
    <2> QED
        BY <2>2, <2>3 DEF Answered
<1>7. ~a => Answered(S \cup G, n)
    BY DEF Answered
<1>8. ASSUME NEW e \in E, e <= k PROVE \E s \in G : s.to = e
    BY <1>2, <1>8
<1> QED
    BY <1>3, <1>4, <1>5, <1>6, <1>7, <1>8 DEF SentOnce

-----------------------------------------------------------------------------
(* What a step of run r makes of it, when r is under way.                      *)
Becomes(r, stage, n, c, d) ==
    /\ run' \in [Runs -> Run]
    /\ \A q \in Runs : q # r => run'[q] = run[q]
    /\ run'[r].pc = stage /\ run'[r].tab = run[r].tab /\ run'[r].next = n
    /\ run'[r].call = c /\ run'[r].done = d

RunsTyped ==
    /\ run \in [Runs -> Run] /\ sent \in [Runs -> SUBSET Statement]
    /\ \A r \in Runs : run[r].pc # "idle" => run[r].tab \in Tabs
    /\ \A r \in Runs : Live(r) => run[r].next \in 1..TextOf[r].pieces

(* What is known of a run that is under way.                                   *)
LEMMA OfLive ==
    ASSUME IInv, NEW r \in Runs, Live(r)
    PROVE  /\ run[r].tab \in Tabs /\ run[r].next \in Nat \ {0}
           /\ run[r].next \in 1..TextOf[r].pieces /\ run[r].next <= MaxPieces
           /\ run[r].call \in Nat \ {0}
           /\ run[r].done \in Seq(Result) /\ Len(run[r].done) < run[r].next
           /\ Len(run[r].done) <= MaxPieces
           /\ sent[r] \in SUBSET Statement /\ SentOnce(TextOf[r], sent[r])
           /\ UnderWay(sent[r], run[r].pc, run[r].call, run[r].next)
           /\ HandedOn(run[r].done, sent[r]) /\ InOrder(run[r].done) /\ OfRunOnly(run[r].done, r)
<1>1. run[r].tab \in Tabs /\ run[r] \in Run /\ sent[r] \in SUBSET Statement
    BY DEF IInv, TypeOK, Live
<1>2. run[r].done \in Seq(Result)
    BY <1>1 DEF Run
<1>3. /\ Len(run[r].done) < run[r].next /\ Len(run[r].done) <= MaxPieces
      /\ UnderWay(sent[r], run[r].pc, run[r].call, run[r].next)
    BY DEF IInv, OfRuns, Progress
<1>4. /\ SentOnce(TextOf[r], sent[r]) /\ HandedOn(run[r].done, sent[r])
      /\ InOrder(run[r].done) /\ OfRunOnly(run[r].done, r)
    BY DEF IInv, OfRuns, SentInOrder, OwnResults
<1>5. /\ run[r].next \in Nat \ {0} /\ run[r].next \in 1..TextOf[r].pieces
      /\ run[r].call \in Nat \ {0} /\ run[r].next <= MaxPieces
    BY EndsAre, BoundsAreNat
<1> QED
    BY <1>1, <1>2, <1>3, <1>4, <1>5

LEMMA RunGoesOn ==
    ASSUME IInv, NEW r \in Runs, Live(r),
           NEW stage \in Pcs \ {"idle"}, NEW n \in Nat, NEW c \in Nat \ {0},
           NEW d \in Seq(Result), NEW S \in SUBSET Statement,
           Becomes(r, stage, n, c, d), sent' = [sent EXCEPT ![r] = S],
           SentOnce(TextOf[r], S), HandedOn(d, S), InOrder(d), OfRunOnly(d, r),
           Len(d) <= MaxPieces,
           stage # "over" => /\ n \in 1..TextOf[r].pieces /\ Len(d) < n
                             /\ UnderWay(S, stage, c, n),
           UNCHANGED crossed
    PROVE  /\ OfRuns' /\ RunsTyped'
           /\ \A q \in Runs : q # r => run'[q] = run[q]
           /\ \A q \in Runs : run'[q].tab = run[q].tab /\ (Live(q)' => Live(q))
           /\ Live(r)' <=> stage # "over"
           /\ run'[r].pc = stage /\ run'[r].done = d
<1> USE DEF Becomes
<1>1. run \in [Runs -> Run] /\ sent \in [Runs -> SUBSET Statement]
    BY DEF IInv, TypeOK
<1>2. /\ \A q \in Runs : q # r => run'[q] = run[q] /\ sent'[q] = sent[q]
      /\ sent'[r] = S
    BY <1>1
<1>3. /\ run'[r].pc = stage /\ run'[r].tab = run[r].tab /\ run'[r].next = n
      /\ run'[r].call = c /\ run'[r].done = d
    OBVIOUS
<1>4. /\ \A q \in Runs : run'[q].tab = run[q].tab /\ (Live(q)' => Live(q))
      /\ Live(r)' <=> stage # "over"
    BY <1>2, <1>3 DEF Live
<1>5. RunsTyped'
    <2>1. sent' \in [Runs -> SUBSET Statement]
        BY <1>1
    <2>2. \A q \in Runs : run'[q].pc # "idle" => run'[q].tab \in Tabs
        BY <1>2, <1>3, OfLive DEF IInv, TypeOK
    <2>3. \A q \in Runs : q # r => (Live(q)' => run'[q].next \in 1..TextOf[q].pieces)
        BY <1>2 DEF IInv, TypeOK, Live
    <2>4. Live(r)' => run'[r].next \in 1..TextOf[r].pieces
        BY <1>3, <1>4
    <2> QED
        BY <2>1, <2>2, <2>3, <2>4 DEF RunsTyped
<1>6. Progress'
    <2>1. ASSUME NEW q \in Runs, q # r
          PROVE  /\ run'[q].pc = "idle" => sent'[q] = {} /\ run'[q].done = <<>>
                 /\ Live(q)' => /\ UnderWay(sent'[q], run'[q].pc, run'[q].call, run'[q].next)
                                /\ Len(run'[q].done) < run'[q].next
                 /\ Len(run'[q].done) <= MaxPieces
        BY <1>2, <2>1 DEF Progress, IInv, OfRuns, Live
    <2>2. /\ run'[r].pc # "idle"
          /\ Live(r)' => /\ UnderWay(sent'[r], run'[r].pc, run'[r].call, run'[r].next)
                         /\ Len(run'[r].done) < run'[r].next
          /\ Len(run'[r].done) <= MaxPieces
        BY <1>2, <1>3, <1>4
    <2> QED
        BY <2>1, <2>2 DEF Progress
<1>7. OwnResults'
    BY <1>2, <1>3 DEF IInv, OfRuns, OwnResults
<1>8. SentInOrder'
    BY <1>2, <1>3 DEF IInv, OfRuns, SentInOrder
<1>9. OneInEachTab'
    BY <1>4 DEF OneInEachTab, IInv, OfRuns
<1> QED
    BY <1>2, <1>3, <1>4, <1>5, <1>6, <1>7, <1>8, <1>9 DEF OfRuns

LEMMA NoResults == <<>> \in Seq(Result) /\ 0 \in Nat
OBVIOUS

(* The handlers name the fields they change.                                   *)
LEMMA RunFields ==
    ASSUME TypeOK, NEW r \in Runs, NEW stage \in Pcs, NEW n \in Nat, NEW d \in Seq(Result)
    PROVE  /\ run' = [run EXCEPT ![r].pc = stage]
                  => Becomes(r, stage, run[r].next, run[r].call, run[r].done)
           /\ run' = [run EXCEPT ![r].pc = stage, ![r].call = @ + 1]
                  => Becomes(r, stage, run[r].next, run[r].call + 1, run[r].done)
           /\ run' = [run EXCEPT ![r].pc = stage, ![r].done = d]
                  => Becomes(r, stage, run[r].next, run[r].call, d)
           /\ run' = [run EXCEPT ![r].pc = stage, ![r].next = n, ![r].done = d]
                  => Becomes(r, stage, n, run[r].call, d)
<1>1. run \in [Runs -> Run]
    BY DEF TypeOK
<1>2. ASSUME run' = [run EXCEPT ![r].pc = stage]
      PROVE  Becomes(r, stage, run[r].next, run[r].call, run[r].done)
    BY <1>1, <1>2 DEF Becomes, Run
<1>3. ASSUME run' = [run EXCEPT ![r].pc = stage, ![r].call = @ + 1]
      PROVE  Becomes(r, stage, run[r].next, run[r].call + 1, run[r].done)
    <2>1. run[r].call + 1 \in Nat \ {0} /\ run[r] \in Run
        BY <1>1 DEF Run
    <2>2. run' \in [Runs -> Run]
        BY <1>1, <1>3, <2>1 DEF Run
    <2> QED
        BY <1>1, <1>3, <2>2 DEF Becomes, Run
<1>4. ASSUME run' = [run EXCEPT ![r].pc = stage, ![r].done = d]
      PROVE  Becomes(r, stage, run[r].next, run[r].call, d)
    BY <1>1, <1>4 DEF Becomes, Run
<1>5. ASSUME run' = [run EXCEPT ![r].pc = stage, ![r].next = n, ![r].done = d]
      PROVE  Becomes(r, stage, n, run[r].call, d)
    BY <1>1, <1>5 DEF Becomes, Run
<1> QED
    BY <1>2, <1>3, <1>4, <1>5

-----------------------------------------------------------------------------
(* An update of a tab reaches it, or the tab has lost one.                     *)
LEMMA TabUpdated ==
    ASSUME IInv, NEW t \in Tabs, NEW new, UpdateTab(t, new), t \in DOMAIN tabs => new \in Tab
    PROVE  /\ DOMAIN tabs' = DOMAIN tabs
           /\ \A u \in DOMAIN tabs : tabs'[u] \in Tab
           /\ \A u \in DOMAIN tabs \ {t} : tabs'[u] = tabs[u]
           /\ t \in DOMAIN tabs \ lost' => tabs'[t] = new
           /\ lost \subseteq lost' /\ lost' \subseteq Tabs
BY DEF UpdateTab, Reached, IInv, TypeOK

(* Tabs that show what they showed, plans that were there, runs that end.      *)
LEMMA PlansStay ==
    ASSUME IInv, plans' \subseteq plans,
           \A q \in Runs : /\ run'[q].tab = run[q].tab
                           /\ Live(q)' => Live(q)
                           /\ run[q].pc = "over" => run'[q] = run[q],
           lost \subseteq lost', crossed' = crossed, late' = late,
           \A t \in DOMAIN tabs' \ lost' : /\ t \in DOMAIN tabs
                                           /\ tabs'[t].results = tabs[t].results
                                           /\ tabs'[t].plan = tabs[t].plan
    PROVE  OfPlans'
<1>1. \A p \in plans' : p.run \in Runs /\ run[p.run].pc = "over" /\ run'[p.run] = run[p.run]
    BY DEF IInv, TypeOK, OfPlans, PlansOfResults
<1>2. PlansOfResults'
    BY <1>1 DEF IInv, OfPlans, PlansOfResults
<1>3. PlansMeetNoRun'
    BY <1>1 DEF IInv, OfPlans, PlansMeetNoRun
<1>4. PlansOfTheTab'
    BY <1>1 DEF IInv, OfPlans, PlansOfTheTab
<1>5. PlanBesideItsResult'
    BY DEF IInv, OfPlans, PlanBesideItsResult
<1> QED
    BY <1>2, <1>3, <1>4, <1>5 DEF OfPlans

LEMMA StillRunning ==
    ASSUME IInv, \A q \in Runs : run'[q].tab = run[q].tab /\ (Live(q)' <=> Live(q)),
           lost \subseteq lost', crossed' = crossed,
           \A t \in DOMAIN tabs' \ lost' : t \in DOMAIN tabs /\ tabs'[t].running = tabs[t].running
    PROVE  RunningIsTrue'
<1> SUFFICES ASSUME NEW t \in DOMAIN tabs' \ (lost' \cup crossed)
             PROVE  tabs'[t].running = (\E q \in Runs : run'[q].tab = t /\ Live(q)')
    BY DEF RunningIsTrue
<1>1. (\E q \in Runs : run'[q].tab = t /\ Live(q)') = (\E q \in Runs : run[q].tab = t /\ Live(q))
    OBVIOUS
<1> QED
    BY <1>1 DEF IInv, RunningIsTrue

(* The end of a run: its tab does not run any more, for no other run is in it. *)
LEMMA NoLongerRunning ==
    ASSUME IInv, NEW r \in Runs, Live(r), ~Live(r)',
           \A q \in Runs : q # r => run'[q] = run[q],
           run'[r].tab = run[r].tab,
           lost \subseteq lost', crossed' = crossed, DOMAIN tabs' = DOMAIN tabs,
           \A u \in DOMAIN tabs \ {run[r].tab} : tabs'[u] = tabs[u],
           run[r].tab \in DOMAIN tabs \ lost' => tabs'[run[r].tab].running = FALSE
    PROVE  RunningIsTrue'
<1> SUFFICES ASSUME NEW t \in DOMAIN tabs \ (lost' \cup crossed)
             PROVE  tabs'[t].running = (\E q \in Runs : run'[q].tab = t /\ Live(q)')
    BY DEF RunningIsTrue
<1>1. \A q \in Runs : q # r => run'[q].tab = run[q].tab /\ (Live(q)' <=> Live(q))
    BY DEF Live
<1>2. CASE t = run[r].tab
    <2>1. \A q \in Runs : ~(run'[q].tab = t /\ Live(q)')
        BY <1>1, <1>2 DEF IInv, OfRuns, OneInEachTab
    <2> QED
        BY <1>2, <2>1
<1>3. CASE t # run[r].tab
    <2>1. (\E q \in Runs : run'[q].tab = t /\ Live(q)')
             = (\E q \in Runs : run[q].tab = t /\ Live(q))
        BY <1>1, <1>3
    <2> QED
        BY <1>3, <2>1 DEF IInv, RunningIsTrue
<1> QED
    BY <1>2, <1>3

(* A run ends with results d: its tab shows them, without a plan, and the plans *)
(* are asked for.                                                              *)
LEMMA ResultsShown ==
    ASSUME IInv, NEW r \in Runs, Live(r), NEW d \in Seq(Result), Len(d) <= MaxPieces,
           run'[r].pc = "over", run'[r].done = d, run'[r].tab = run[r].tab,
           \A q \in Runs : q # r => run'[q] = run[q],
           lost \subseteq lost', crossed' = crossed, late' = late, DOMAIN tabs' = DOMAIN tabs,
           \A u \in DOMAIN tabs \ {run[r].tab} : tabs'[u] = tabs[u],
           run[r].tab \in DOMAIN tabs \ lost' =>
               /\ tabs'[run[r].tab].results = d
               /\ tabs'[run[r].tab].plan = [i \in 1..Len(d) |-> None],
           plans' = plans \cup Explains(r, d)
    PROVE  OfPlans' /\ \A p \in plans' : p.run \in Runs /\ p.at \in Pieces
<1>1. \A p \in plans : /\ p.run \in Runs /\ p.run # r /\ run[p.run].pc = "over"
                       /\ run'[p.run] = run[p.run]
    BY DEF IInv, TypeOK, OfPlans, PlansOfResults, Live
<1>2. \A p \in plans' : p \in plans \/ (p.run = r /\ p.at \in 1..Len(d))
    BY DEF Explains
<1>3. Len(d) \in Nat
    OBVIOUS
<1>4. \A p \in plans' : p.run \in Runs /\ p.at \in Pieces
    BY <1>2, <1>3, BoundsAreNat DEF IInv, TypeOK, Pieces
<1>5. PlansOfResults'
    BY <1>1, <1>2 DEF IInv, OfPlans, PlansOfResults
<1>6. PlansMeetNoRun'
    <2> SUFFICES ASSUME NEW p \in plans', NEW q \in Runs, Live(q)', run'[q].tab = run'[p.run].tab
                 PROVE  run'[q].tab \in crossed \cup late
        BY DEF PlansMeetNoRun
    <2>1. q # r /\ Live(q) /\ run'[q] = run[q]
        BY DEF Live
    <2> QED
        BY <1>1, <1>2, <2>1 DEF IInv, OfRuns, OneInEachTab, OfPlans, PlansMeetNoRun
<1>7. PlansOfTheTab'
    <2> SUFFICES ASSUME NEW p \in plans',
                        run'[p.run].tab \in DOMAIN tabs \ (lost' \cup crossed \cup late)
                 PROVE  tabs'[run'[p.run].tab].results = run'[p.run].done
        BY DEF PlansOfTheTab
    <2>1. CASE p \in plans
        <3>1. run[p.run].tab # run[r].tab
            BY <1>1, <2>1 DEF IInv, OfPlans, PlansMeetNoRun
        <3> QED
            BY <1>1, <2>1, <3>1 DEF IInv, OfPlans, PlansOfTheTab
    <2>2. CASE p.run = r
        BY <2>2
    <2> QED
        BY <1>2, <2>1, <2>2
<1>8. PlanBesideItsResult'
    <2> SUFFICES ASSUME NEW t \in DOMAIN tabs \ (lost' \cup crossed \cup late)
                 PROVE  \A i \in DOMAIN tabs'[t].plan :
                            tabs'[t].plan[i] # None =>
                                /\ i \in DOMAIN tabs'[t].results
                                /\ tabs'[t].results[i].run = tabs'[t].plan[i]
        BY DEF PlanBesideItsResult
    <2>1. CASE t = run[r].tab
        BY <2>1
    <2>2. CASE t # run[r].tab
        BY <2>2 DEF IInv, OfPlans, PlanBesideItsResult
    <2> QED
        BY <2>1, <2>2
<1> QED
    BY <1>4, <1>5, <1>6, <1>7, <1>8 DEF OfPlans

(* The statements up to piece k have been given to the server.                 *)
LEMMA SentUpTo ==
    ASSUME IInv, NEW r \in Runs, run[r].pc \in {"call", "again"}, NEW a \in BOOLEAN,
           NEW k \in Nat, k \in Ends(r) \/ k = run[r].next - 1
    PROVE  LET S == sent[r] \cup Given(r, k, a)
           IN /\ S \in SUBSET Statement /\ SentOnce(TextOf[r], S)
              /\ a => UnderWay(S, "ask", run[r].call, k + 1)
              /\ ~a => UnderWay(S, "reconnect", run[r].call, run[r].next)
              /\ \A e \in Ends(r) : e <= k => \E s \in Given(r, k, a) : s.answered = a /\ s.to = e
<1> DEFINE n == run[r].next
           c == run[r].call
           E == Ends(r)
           m == TextOf[r].pieces
           x == TextOf[r]
           G == Given(r, k, a)
           T == sent[r]
<1>0. Live(r)
    BY DEF Live
<1>1. /\ E \in SUBSET Nat /\ E \subseteq n..m /\ n \in Nat \ {0} /\ n <= m /\ m \in Nat
      /\ x.inner \cup x.swallowed \subseteq Nat \ {0} /\ c \in Nat \ {0}
    BY <1>0, EndsAre
<1>2. T \in SUBSET Statement /\ SentOnce(x, T) /\ UnderWay(T, run[r].pc, c, n)
    BY <1>0, OfLive
<1>3. /\ Answered(T, n) /\ \A s \in T : s.call <= c
      /\ \A s \in T : s.answered => s.call < c
      /\ c = 1 => n = 1
    BY <1>2 DEF UnderWay, AtCall
<1>4. k <= m
    BY <1>1
<1>5. /\ G \in SUBSET Statement
      /\ \A s \in G : /\ s.call = c /\ s.answered = a /\ s.to <= k
                      /\ IsCut(E, n, s.from, s.to)
      /\ \A f, e \in Nat : IsCut(E, n, f, e) /\ e <= k =>
           [call |-> c, answered |-> a, from |-> f, to |-> e] \in G
    BY <1>0, <1>4, GivenIs
<1>6. E = (n..m) \ (IF c = 1 THEN x.inner ELSE x.swallowed)
    BY DEF Ends
<1>7. k \in E \/ k = n - 1
    OBVIOUS
<1> HIDE DEF n, c, E, m, x, G, T
<1>70. ASSUME NEW p \in Nat, n <= p, p <= k
       PROVE  \E q \in G : q.from <= p /\ p <= q.to /\ (p \in E => q.to = p)
    <2>1. k \in E /\ \A e \in E : n <= e
        BY <1>1, <1>7, <1>70
    <2>2. GivesAll(n, E, k, c, a, G)
        BY <1>1, <1>5, <2>1 DEF GivesAll
    <2> QED
        BY <1>70, <2>2, EachPieceGiven
<1>8. /\ SentOnce(x, T \cup G)
      /\ a => Answered(T \cup G, k + 1)
      /\ ~a => Answered(T \cup G, n)
      /\ \A e \in E : e <= k => \E s \in G : s.to = e
    <2>1. \A p \in Nat : n <= p /\ p <= k =>
             \E q \in G : q.from <= p /\ p <= q.to /\ (p \in E => q.to = p)
        BY <1>70
    <2>2. MaySend(x, T, G, c, n, k, a, E, m)
        BY <1>1, <1>2, <1>3, <1>4, <1>5, <1>6, <1>7, <2>1 DEF MaySend
    <2> QED
        BY <2>2, SendsOn
<1>9. \A s \in T \cup G : s.call <= c /\ (~a /\ s.answered => s.call < c)
    BY <1>1, <1>3, <1>5
<1>10. /\ a => UnderWay(T \cup G, "ask", c, k + 1)
       /\ ~a => UnderWay(T \cup G, "reconnect", c, n)
    BY <1>3, <1>8, <1>9 DEF UnderWay, AtCall
<1> QED
    BY <1>2, <1>5, <1>8, <1>10 DEF n, c, E, x, G, T

(* The results of statements after those of earlier ones.                      *)
MayFollow(r, n, k, T, d, S, f, G) ==
    /\ r \in Runs /\ n \in Nat \ {0} /\ k \in Nat /\ n <= k + 1 /\ k <= MaxPieces
    /\ d \in Seq(Result) /\ Len(d) < n /\ InOrder(d) /\ HandedOn(d, T) /\ OfRunOnly(d, r)
    /\ \A s \in T : s.answered => s.to < n
    /\ S \in SUBSET (n..k)
    /\ f \in [1..Cardinality(S) -> [run : {r}, stmt : S]]
    /\ \A i, j \in 1..Cardinality(S) : i < j => f[i].stmt < f[j].stmt
    /\ \A e \in S : \E s \in G : s.answered /\ s.to = e

LEMMA ResultsInOrder ==
    ASSUME NEW r, NEW n, NEW k, NEW T, NEW d, NEW S, NEW f, NEW G,
           MayFollow(r, n, k, T, d, S, f, G)
    PROVE  /\ d \o f \in Seq(Result) /\ Len(d \o f) <= k /\ Len(d \o f) \in Nat
           /\ InOrder(d \o f) /\ HandedOn(d \o f, T \cup G) /\ OfRunOnly(d \o f, r)
<1> USE BoundsAreNat DEF MayFollow
<1> DEFINE m == Cardinality(S)
<1>1. m \in Nat /\ m <= k - n + 1
    <2>1. IsFiniteSet(n..k) /\ Cardinality(n..k) = k - n + 1
        <3>1. /\ n \in Int /\ k \in Int /\ IsFiniteSet(n..k)
              /\ Cardinality(n..k) = IF n > k THEN 0 ELSE k - n + 1
            <4>1. n \in Int /\ k \in Int
                OBVIOUS
            <4> QED
                BY <4>1, FS_Interval
        <3> QED
            BY <3>1
    <2> QED
        BY <2>1, FS_Subset, FS_CardinalityType
<1> HIDE DEF m
<1>2. f \in [1..m -> [run : {r}, stmt : S]] /\ \A i, j \in 1..m : i < j => f[i].stmt < f[j].stmt
    BY DEF m
<1>3. S \subseteq Pieces
    BY DEF Pieces
<1>4. f \in Seq(Result) /\ Len(f) = m
    <2>1. [run : {r}, stmt : S] \subseteq Result
        BY <1>3 DEF Result
    <2>2. f \in [1..m -> Result]
        BY <1>2, <2>1
    <2> HIDE DEF Result
    <2> QED
        BY <1>1, <2>2
<1> DEFINE e == d \o f
<1>5. e \in Seq(Result) /\ Len(e) = Len(d) + m /\ Len(d) \in Nat
    BY <1>4
<1>6. ASSUME NEW i \in 1..Len(d)
      PROVE  /\ e[i] = d[i] /\ d[i].run = r /\ d[i].stmt < n /\ d[i].stmt \in Nat
             /\ \E s \in T : s.answered /\ s.to = d[i].stmt
    <2>1. e[i] = d[i] /\ d[i] \in Result /\ i \in DOMAIN d
        BY <1>4
    <2> QED
        BY <2>1 DEF HandedOn, OfRunOnly, Result, Pieces
<1>7. ASSUME NEW i \in (Len(d) + 1)..Len(e)
      PROVE  /\ e[i] = f[i - Len(d)] /\ i - Len(d) \in 1..m
             /\ e[i].run = r /\ e[i].stmt \in S
    <2>1. e[i] = f[i - Len(d)] /\ i - Len(d) \in 1..m
        BY <1>4, <1>5
    <2>2. f[i - Len(d)] \in [run : {r}, stmt : S]
        BY <1>2, <2>1
    <2>3. f[i - Len(d)].run = r /\ f[i - Len(d)].stmt \in S
        BY <2>2
    <2> QED
        BY <2>1, <2>3
<1> HIDE DEF e
<1>8. DOMAIN e = 1..Len(e) /\ DOMAIN d = 1..Len(d)
    BY <1>5
<1>9. HandedOn(e, T \cup G) /\ OfRunOnly(e, r)
    <2> SUFFICES ASSUME NEW i \in 1..Len(e)
                 PROVE  /\ \E s \in T \cup G : s.answered /\ s.to = e[i].stmt
                        /\ e[i].run = r
        BY <1>8 DEF HandedOn, OfRunOnly
    <2>1. CASE i \in 1..Len(d)
        <3>1. PICK s \in T : s.answered /\ s.to = d[i].stmt
            BY <1>6, <2>1
        <3> QED
            BY <1>6, <2>1, <3>1
    <2>2. CASE i \in (Len(d) + 1)..Len(e)
        <3>1. PICK s \in G : s.answered /\ s.to = e[i].stmt
            BY <1>7, <2>2
        <3> QED
            BY <1>7, <2>2, <3>1
    <2> QED
        BY <1>5, <2>1, <2>2
<1>10. InOrder(e)
    <2> SUFFICES ASSUME NEW i \in 1..Len(e), NEW j \in 1..Len(e), i < j
                 PROVE  e[i].stmt < e[j].stmt
        BY <1>8 DEF InOrder
    <2>1. CASE j \in 1..Len(d)
        <3>1. i \in 1..Len(d) /\ e[i] = d[i] /\ e[j] = d[j]
            BY <1>5, <1>6, <2>1
        <3> QED
            BY <1>8, <2>1, <3>1 DEF InOrder
    <2>2. CASE j \in (Len(d) + 1)..Len(e) /\ i \in 1..Len(d)
        <3>1. e[i].stmt < n /\ e[i].stmt \in Nat /\ e[j].stmt \in n..k
            BY <1>6, <1>7, <2>2
        <3> QED
            BY <3>1
    <2>3. CASE j \in (Len(d) + 1)..Len(e) /\ i \in (Len(d) + 1)..Len(e)
        <3>1. /\ e[i] = f[i - Len(d)] /\ i - Len(d) \in 1..m
              /\ e[j] = f[j - Len(d)] /\ j - Len(d) \in 1..m
            BY <1>7, <2>3
        <3>2. i - Len(d) < j - Len(d)
            BY <1>5
        <3> QED
            BY <1>2, <3>1, <3>2
    <2> QED
        BY <1>5, <2>1, <2>2, <2>3
<1>11. Len(e) <= k
    BY <1>1, <1>5
<1> QED
    BY <1>5, <1>9, <1>10, <1>11 DEF e

LEMMA HandsOn ==
    ASSUME IInv, NEW r \in Runs, run[r].pc \in {"call", "again"},
           NEW k \in Nat, k \in Ends(r),
           NEW h \in Nat, h = k \/ h = k - 1,
           NEW S \in SUBSET Ends(r), \A e \in S : e <= h, NEW d \in With(r, S)
    PROVE  /\ d \in Seq(Result) /\ Len(d) <= h /\ Len(d) \in Nat /\ Len(d) <= MaxPieces
           /\ InOrder(d) /\ HandedOn(d, sent[r] \cup Given(r, k, TRUE)) /\ OfRunOnly(d, r)
<1> DEFINE n == run[r].next
           was == run[r].done
           T == sent[r]
           G == Given(r, k, TRUE)
<1>0. Live(r)
    BY DEF Live
<1>1. /\ Ends(r) \subseteq n..TextOf[r].pieces /\ n \in Nat \ {0}
      /\ TextOf[r].pieces \in Nat /\ TextOf[r].pieces <= MaxPieces
    BY <1>0, EndsAre
<1>2. /\ was \in Seq(Result) /\ Len(was) < n /\ InOrder(was) /\ HandedOn(was, T)
      /\ OfRunOnly(was, r) /\ UnderWay(T, run[r].pc, run[r].call, n)
    BY <1>0, OfLive
<1>3. PICK f \in [1..Cardinality(S) -> [run : {r}, stmt : S]] :
         /\ \A i, j \in 1..Cardinality(S) : i < j => f[i].stmt < f[j].stmt
         /\ d = was \o f
    BY DEF With
<1>4. n <= h + 1 /\ h <= MaxPieces /\ S \in SUBSET (n..h) /\ h <= k
    BY <1>1, BoundsAreNat
<1>5. \A e \in S : \E s \in G : s.answered /\ s.to = e
    <2>1. \A e \in Ends(r) : e <= k => \E s \in G : s.answered = TRUE /\ s.to = e
        BY SentUpTo
    <2>2. \A e \in S : e <= k
        BY <1>1, <1>4
    <2> QED
        BY <2>1, <2>2
<1>6. \A s \in T : s.answered => s.to < n
    BY <1>2 DEF UnderWay, Answered
<1> HIDE DEF n, was, T, G
<1>7. /\ was \o f \in Seq(Result) /\ Len(was \o f) <= h /\ Len(was \o f) \in Nat
      /\ InOrder(was \o f) /\ HandedOn(was \o f, T \cup G) /\ OfRunOnly(was \o f, r)
    <2>1. MayFollow(r, n, h, T, was, S, f, G)
        BY <1>1, <1>2, <1>3, <1>4, <1>5, <1>6 DEF MayFollow
    <2> QED
        BY <2>1, ResultsInOrder
<1>8. Len(d) <= MaxPieces
    BY <1>3, <1>4, <1>7, BoundsAreNat
<1> QED
    BY <1>3, <1>7, <1>8 DEF T, G

-----------------------------------------------------------------------------
(* What the actions that end a run with results have in common.                *)
LEMMA EndsWith ==
    ASSUME IInv, NEW r \in Runs, Live(r), NEW d \in Seq(Result), NEW S \in SUBSET Statement,
           NEW e \in Runs \cup {None},
           Becomes(r, "over", run[r].next, run[r].call, d), sent' = [sent EXCEPT ![r] = S],
           SentOnce(TextOf[r], S), HandedOn(d, S), InOrder(d), OfRunOnly(d, r),
           Len(d) <= MaxPieces,
           UpdateTab(run[r].tab, [tabs[run[r].tab] EXCEPT
                                    !.running = FALSE, !.results = d, !.error = e,
                                    !.plan = [i \in 1..Len(d) |-> None]]),
           plans' = plans \cup Explains(r, d),
           UNCHANGED <<shown, switches, rejects, request, crossed, late>>,
           \A i \in DOMAIN toasts' : toasts'[i] \in Runs
    PROVE  IInv'
<1> DEFINE t == run[r].tab
           new == [tabs[t] EXCEPT !.running = FALSE, !.results = d, !.error = e,
                                  !.plan = [i \in 1..Len(d) |-> None]]
<1>1. t \in Tabs /\ run[r].next \in Nat /\ run[r].call \in Nat \ {0}
    BY OfLive
<1>2. /\ OfRuns' /\ RunsTyped'
      /\ \A q \in Runs : q # r => run'[q] = run[q]
      /\ run'[r].tab = t /\ ~Live(r)' /\ run'[r].pc = "over" /\ run'[r].done = d
    BY <1>1, RunGoesOn DEF Pcs
<1>3. t \in DOMAIN tabs =>
          /\ new \in Tab /\ new.running = FALSE /\ new.results = d
          /\ new.plan = [i \in 1..Len(d) |-> None]
    <2>1. [i \in 1..Len(d) |-> None] \in Seq(Runs \cup {None})
        <3>1. Len(d) \in Nat
            OBVIOUS
        <3> QED
            BY <3>1
    <2> QED
        BY <2>1 DEF IInv, TypeOK, Tab
<1> HIDE DEF new
<1>4. /\ DOMAIN tabs' = DOMAIN tabs
      /\ \A u \in DOMAIN tabs : tabs'[u] \in Tab
      /\ \A u \in DOMAIN tabs \ {t} : tabs'[u] = tabs[u]
      /\ t \in DOMAIN tabs \ lost' => tabs'[t] = new
      /\ lost \subseteq lost' /\ lost' \subseteq Tabs
    <2>1. UpdateTab(t, new)
        BY DEF new
    <2> QED
        BY <1>1, <1>3, <2>1, TabUpdated
<1> HIDE DEF t
<1>5. OfPlans' /\ \A p \in plans' : p.run \in Runs /\ p.at \in Pieces
    BY <1>2, <1>3, <1>4, ResultsShown DEF t
<1>6. RunningIsTrue'
    BY <1>2, <1>3, <1>4, NoLongerRunning DEF t
<1>7. TypeOK'
    BY <1>2, <1>4, <1>5 DEF IInv, TypeOK, RunsTyped
<1> QED
    BY <1>2, <1>5, <1>6, <1>7 DEF IInv

(* Succeed, the end of a run by its last answer or by Stop.                    *)
LEMMA SucceedKeeps ==
    ASSUME IInv, NEW r \in Runs, Live(r), NEW d \in Seq(Result), NEW S \in SUBSET Statement,
           sent' = [sent EXCEPT ![r] = S],
           SentOnce(TextOf[r], S), HandedOn(d, S), InOrder(d), OfRunOnly(d, r),
           Len(d) <= MaxPieces,
           Succeed(r, d),
           UNCHANGED <<shown, switches, rejects, request, crossed, late>>,
           \A i \in DOMAIN toasts' : toasts'[i] \in Runs
    PROVE  IInv'
<1> DEFINE t == run[r].tab
           e == IF t \in DOMAIN tabs THEN tabs[t].error ELSE None
<1>1. Becomes(r, "over", run[r].next, run[r].call, d)
    BY RunFields, NoResults DEF IInv, Succeed, Pcs
<1>2. e \in Runs \cup {None}
    BY DEF IInv, TypeOK, Tab
<1>3. UpdateTab(t, [tabs[t] EXCEPT !.running = FALSE, !.results = d, !.error = e,
                                   !.plan = [i \in 1..Len(d) |-> None]])
    <2>1. t \in DOMAIN tabs =>
            [tabs[t] EXCEPT !.running = FALSE, !.results = d,
                            !.plan = [i \in 1..Len(d) |-> None]]
            = [tabs[t] EXCEPT !.running = FALSE, !.results = d, !.error = e,
                              !.plan = [i \in 1..Len(d) |-> None]]
        BY DEF IInv, TypeOK, Tab
    <2> QED
        BY <2>1 DEF Succeed, UpdateTab, Reached
<1>4. plans' = plans \cup Explains(r, d)
    BY DEF Succeed
<1> QED
    BY <1>1, <1>2, <1>3, <1>4, EndsWith

LEMMA AnswerKeeps ==
    ASSUME IInv, NEW r \in Runs, Answer(r)
    PROVE  IInv'
<1> DEFINE k == TextOf[r].pieces
           S == sent[r] \cup Given(r, k, TRUE)
<1>1. Live(r) /\ run[r].pc \in {"call", "again"}
    BY DEF Answer, Live
<1>2. k \in Nat /\ k \in Ends(r) /\ Ends(r) \in SUBSET Ends(r) /\ \A e \in Ends(r) : e <= k
    BY <1>1, EndsAre
<1>3. S \in SUBSET Statement /\ SentOnce(TextOf[r], S)
    BY <1>1, <1>2, SentUpTo
<1>4. PICK d \in With(r, Ends(r)) : Succeed(r, d)
    BY DEF Answer
<1>5. /\ d \in Seq(Result) /\ Len(d) <= MaxPieces
      /\ InOrder(d) /\ HandedOn(d, S) /\ OfRunOnly(d, r)
    BY <1>1, <1>2, HandsOn
<1>6. /\ sent' = [sent EXCEPT ![r] = S]
      /\ UNCHANGED <<shown, switches, rejects, toasts, request, crossed, late>>
      /\ \A i \in DOMAIN toasts' : toasts'[i] \in Runs
    BY DEF Answer, IInv, TypeOK
<1> HIDE DEF S
<1> QED
    BY <1>1, <1>3, <1>4, <1>5, <1>6, SucceedKeeps

LEMMA StopKeeps ==
    ASSUME IInv, NEW r \in Runs, Stop(r)
    PROVE  IInv'
<1> DEFINE d == run[r].done
           S == sent[r]
<1>1. Live(r)
    BY DEF Stop, Asked, Live
<1>2. /\ S \in SUBSET Statement /\ SentOnce(TextOf[r], S)
      /\ d \in Seq(Result) /\ Len(d) <= MaxPieces
      /\ InOrder(d) /\ HandedOn(d, S) /\ OfRunOnly(d, r)
    BY <1>1, OfLive
<1>3. sent' = [sent EXCEPT ![r] = S] /\ Succeed(r, d)
      /\ UNCHANGED <<shown, switches, rejects, request, crossed, late>>
    BY DEF Stop, IInv, TypeOK
<1>4. \A i \in DOMAIN toasts' : toasts'[i] \in Runs
    BY DEF Stop, Dismissed, IInv, TypeOK
<1> QED
    BY <1>1, <1>2, <1>3, <1>4, SucceedKeeps

LEMMA AnswerLastFailsKeeps ==
    ASSUME IInv, NEW r \in Runs, AnswerLastFails(r)
    PROVE  IInv'
<1> DEFINE k == TextOf[r].pieces
           t == run[r].tab
           S == sent[r] \cup Given(r, k, TRUE)
<1>1. Live(r) /\ run[r].pc \in {"call", "again"}
    BY DEF AnswerLastFails, Live
<1>2. /\ k \in Nat /\ k \in Ends(r) /\ k - 1 \in Nat
      /\ Before(r, k) \in SUBSET Ends(r) /\ \A e \in Before(r, k) : e <= k - 1
    BY <1>1, EndsAre DEF Before
<1>3. S \in SUBSET Statement /\ SentOnce(TextOf[r], S)
    BY <1>1, <1>2, SentUpTo
<1>4. PICK d \in With(r, Before(r, k)) :
        /\ run' = [run EXCEPT ![r].pc = "over", ![r].done = d]
        /\ UpdateTab(t, [tabs[t] EXCEPT !.running = FALSE, !.results = d, !.error = r,
                                        !.plan = [i \in 1..Len(d) |-> None]])
        /\ plans' = plans \cup Explains(r, d)
    BY DEF AnswerLastFails
<1>5. /\ d \in Seq(Result) /\ Len(d) <= MaxPieces
      /\ InOrder(d) /\ HandedOn(d, S) /\ OfRunOnly(d, r)
    BY <1>1, <1>2, HandsOn
<1>6. /\ sent' = [sent EXCEPT ![r] = S]
      /\ UNCHANGED <<shown, switches, rejects, toasts, request, crossed, late>>
      /\ \A i \in DOMAIN toasts' : toasts'[i] \in Runs
    BY DEF AnswerLastFails, IInv, TypeOK
<1>7. Becomes(r, "over", run[r].next, run[r].call, d) /\ r \in Runs \cup {None}
    BY <1>4, <1>5, RunFields, NoResults DEF IInv, Pcs
<1> HIDE DEF S, k
<1> QED
    BY <1>1, <1>3, <1>4, <1>5, <1>6, <1>7, EndsWith

(* Statement k failed and the user is asked, or a call or a reconnect is next. *)
LEMMA GoesOnKeeps ==
    ASSUME IInv, NEW r \in Runs, Live(r), NEW stage \in Pcs \ {"idle", "over"},
           NEW n \in Nat, NEW c \in Nat \ {0}, NEW d \in Seq(Result), NEW S \in SUBSET Statement,
           Becomes(r, stage, n, c, d), sent' = [sent EXCEPT ![r] = S],
           SentOnce(TextOf[r], S), HandedOn(d, S), InOrder(d), OfRunOnly(d, r),
           n \in 1..TextOf[r].pieces, Len(d) < n, UnderWay(S, stage, c, n),
           Len(d) <= MaxPieces,
           \A i \in DOMAIN toasts' : toasts'[i] \in Runs, rejects' \in 0..MaxLost,
           DOMAIN tabs' = DOMAIN tabs, \A u \in DOMAIN tabs : tabs'[u] \in Tab,
           \A u \in DOMAIN tabs \ lost' : /\ tabs'[u].running = tabs[u].running
                                          /\ tabs'[u].results = tabs[u].results
                                          /\ tabs'[u].plan = tabs[u].plan,
           lost \subseteq lost', lost' \subseteq Tabs,
           UNCHANGED <<shown, switches, request, plans, crossed, late>>
    PROVE  IInv'
<1>2. /\ OfRuns' /\ RunsTyped'
      /\ \A q \in Runs : q # r => run'[q] = run[q]
      /\ \A q \in Runs : run'[q].tab = run[q].tab /\ (Live(q)' => Live(q))
      /\ Live(r)'
    BY RunGoesOn DEF Pcs
<1>3. \A q \in Runs : Live(q)' <=> Live(q)
    BY <1>2 DEF Live
<1>4. OfPlans'
    <2>1. \A q \in Runs : run[q].pc = "over" => run'[q] = run[q]
        BY <1>2 DEF Live
    <2> QED
        BY <1>2, <2>1, PlansStay
<1>5. RunningIsTrue'
    BY <1>2, <1>3, StillRunning
<1>6. TypeOK'
    BY <1>2 DEF IInv, TypeOK, RunsTyped
<1> QED
    BY <1>2, <1>4, <1>5, <1>6 DEF IInv

LEMMA AnswerFailsKeeps ==
    ASSUME IInv, NEW r \in Runs, AnswerFails(r)
    PROVE  IInv'
<1>1. Live(r) /\ run[r].pc \in {"call", "again"}
    BY DEF AnswerFails, Live
<1>2. PICK k \in Ends(r) \ {TextOf[r].pieces} : \E d \in With(r, Before(r, k)) :
         /\ sent' = [sent EXCEPT ![r] = @ \cup Given(r, k, TRUE)]
         /\ run' = [run EXCEPT ![r].pc = "ask", ![r].next = k + 1, ![r].done = d]
         /\ Asks(r, Cardinality(Before(r, k)))
    BY DEF AnswerFails
<1> DEFINE t == run[r].tab
           S == sent[r] \cup Given(r, k, TRUE)
<1>3. /\ k \in Nat /\ k \in Ends(r) /\ k - 1 \in Nat /\ k + 1 \in Nat
      /\ k + 1 \in 1..TextOf[r].pieces
      /\ Before(r, k) \in SUBSET Ends(r) /\ \A e \in Before(r, k) : e <= k - 1
    BY <1>1, EndsAre DEF Before
<1>4. /\ S \in SUBSET Statement /\ SentOnce(TextOf[r], S)
      /\ UnderWay(S, "ask", run[r].call, k + 1)
    BY <1>1, <1>3, SentUpTo
<1>5. PICK d \in With(r, Before(r, k)) :
         run' = [run EXCEPT ![r].pc = "ask", ![r].next = k + 1, ![r].done = d]
    BY <1>2
<1>6. sent' = [sent EXCEPT ![r] = S] /\ Asks(r, Cardinality(Before(r, k)))
    BY <1>2
<1>7. /\ d \in Seq(Result) /\ Len(d) <= k - 1 /\ Len(d) \in Nat /\ Len(d) <= MaxPieces
      /\ InOrder(d) /\ HandedOn(d, S) /\ OfRunOnly(d, r)
    BY <1>1, <1>3, HandsOn
<1>8. \A i \in DOMAIN toasts' : toasts'[i] \in Runs
    BY <1>6 DEF Asks, IInv, TypeOK
<1>9. /\ UpdateTab(t, [tabs[t] EXCEPT !.error = r])
      /\ UNCHANGED <<shown, switches, rejects, request, plans, crossed, late>>
    BY DEF AnswerFails
<1>10. t \in DOMAIN tabs =>
          /\ [tabs[t] EXCEPT !.error = r] \in Tab
          /\ [tabs[t] EXCEPT !.error = r].running = tabs[t].running
          /\ [tabs[t] EXCEPT !.error = r].results = tabs[t].results
          /\ [tabs[t] EXCEPT !.error = r].plan = tabs[t].plan
    BY DEF IInv, TypeOK, Tab
<1>11. /\ DOMAIN tabs' = DOMAIN tabs /\ \A u \in DOMAIN tabs : tabs'[u] \in Tab
       /\ \A u \in DOMAIN tabs \ {t} : tabs'[u] = tabs[u]
       /\ t \in DOMAIN tabs \ lost' => tabs'[t] = [tabs[t] EXCEPT !.error = r]
       /\ lost \subseteq lost' /\ lost' \subseteq Tabs
    BY <1>1, <1>9, <1>10, OfLive, TabUpdated
<1> HIDE DEF t, S
<1>12. \A u \in DOMAIN tabs \ lost' : /\ tabs'[u].running = tabs[u].running
                                      /\ tabs'[u].results = tabs[u].results
                                      /\ tabs'[u].plan = tabs[u].plan
    BY <1>10, <1>11
<1>13. /\ Len(d) < k + 1 /\ "ask" \in Pcs \ {"idle", "over"} /\ rejects' \in 0..MaxLost
       /\ Becomes(r, "ask", k + 1, run[r].call, d) /\ run[r].call \in Nat \ {0}
    <2>1. TypeOK /\ "ask" \in Pcs /\ "ask" \in Pcs \ {"idle", "over"} /\ rejects' \in 0..MaxLost
        BY <1>9 DEF Pcs, IInv, TypeOK
    <2>2. Becomes(r, "ask", k + 1, run[r].call, d)
        BY <1>3, <1>5, <1>7, <2>1, RunFields
    <2>3. run[r].call \in Nat \ {0}
        BY <1>1, OfLive
    <2> QED
        BY <1>3, <1>7, <2>1, <2>2, <2>3
<1> QED
    BY <1>1, <1>3, <1>4, <1>6, <1>7, <1>8, <1>9, <1>11, <1>12, <1>13, GoesOnKeeps

-----------------------------------------------------------------------------
(* The steps that go on with what there is.                                    *)
LEMMA SameTabs ==
    ASSUME IInv, UNCHANGED <<tabs, lost>>
    PROVE  /\ DOMAIN tabs' = DOMAIN tabs /\ \A u \in DOMAIN tabs : tabs'[u] \in Tab
           /\ \A u \in DOMAIN tabs \ lost' : /\ tabs'[u].running = tabs[u].running
                                          /\ tabs'[u].results = tabs[u].results
                                          /\ tabs'[u].plan = tabs[u].plan
           /\ lost \subseteq lost' /\ lost' \subseteq Tabs
BY DEF IInv, TypeOK

LEMMA SameStatements ==
    ASSUME IInv, NEW r \in Runs, Live(r), NEW stage \in Pcs \ {"idle", "over"},
           NEW S \in SUBSET Statement, sent' = [sent EXCEPT ![r] = S], sent[r] \subseteq S,
           SentOnce(TextOf[r], S), NEW c \in Nat \ {0}, UnderWay(S, stage, c, run[r].next),
           Becomes(r, stage, run[r].next, c, run[r].done),
           \A i \in DOMAIN toasts' : toasts'[i] \in Runs, rejects' \in 0..MaxLost,
           UNCHANGED <<shown, switches, tabs, request, plans, lost, crossed, late>>
    PROVE  IInv'
<1> DEFINE d == run[r].done
           n == run[r].next
<1>1. /\ n \in 1..TextOf[r].pieces /\ n \in Nat /\ Len(d) <= MaxPieces
      /\ d \in Seq(Result) /\ Len(d) < n
      /\ InOrder(d) /\ HandedOn(d, sent[r]) /\ OfRunOnly(d, r)
    BY OfLive
<1>2. HandedOn(d, S)
    BY <1>1 DEF HandedOn
<1> HIDE DEF d, n
<1>3. Becomes(r, stage, n, c, d) /\ UnderWay(S, stage, c, n)
    BY DEF d, n
<1> QED
    BY <1>1, <1>2, <1>3, SameTabs, GoesOnKeeps

LEMMA ContinueKeeps ==
    ASSUME IInv, NEW r \in Runs, Continue(r)
    PROVE  IInv'
<1> DEFINE c == run[r].call + 1
<1>1. /\ Live(r) /\ run[r].pc = "ask" /\ "call" \in Pcs \ {"idle", "over"}
      /\ run' = [run EXCEPT ![r].pc = "call", ![r].call = @ + 1]
      /\ \A i \in DOMAIN toasts' : toasts'[i] \in Runs
      /\ rejects' \in 0..MaxLost
    BY DEF Continue, Asked, Dismissed, Live, Pcs, IInv, TypeOK
<1>2. /\ sent[r] \in SUBSET Statement /\ SentOnce(TextOf[r], sent[r])
      /\ UnderWay(sent[r], "ask", run[r].call, run[r].next) /\ run[r].call \in Nat \ {0}
    BY <1>1, OfLive
<1>3. c \in Nat \ {0} /\ UnderWay(sent[r], "call", c, run[r].next)
    <2>1. \A s \in sent[r] : s.call < c /\ s.call <= c
        BY <1>2 DEF UnderWay, AtCall, Statement
    <2> QED
        BY <1>2, <2>1 DEF UnderWay, AtCall
<1>4. Becomes(r, "call", run[r].next, c, run[r].done)
    BY <1>1, RunFields, NoResults DEF IInv
<1>5. sent' = [sent EXCEPT ![r] = sent[r]]
    BY DEF Continue, IInv, TypeOK
<1> HIDE DEF c
<1> QED
    BY <1>1, <1>2, <1>3, <1>4, <1>5, SameStatements DEF Continue

LEMMA ReconnectedKeeps ==
    ASSUME IInv, NEW r \in Runs, Reconnected(r)
    PROVE  IInv'
<1>1. /\ Live(r) /\ run[r].pc = "reconnect" /\ "again" \in Pcs \ {"idle", "over"}
      /\ run' = [run EXCEPT ![r].pc = "again"]
      /\ \A i \in DOMAIN toasts' : toasts'[i] \in Runs
      /\ rejects' \in 0..MaxLost
    BY DEF Reconnected, Live, Pcs, IInv, TypeOK
<1>2. /\ sent[r] \in SUBSET Statement /\ SentOnce(TextOf[r], sent[r])
      /\ UnderWay(sent[r], "reconnect", run[r].call, run[r].next) /\ run[r].call \in Nat \ {0}
    BY <1>1, OfLive
<1>3. UnderWay(sent[r], "again", run[r].call, run[r].next)
    BY <1>2 DEF UnderWay, AtCall
<1>4. Becomes(r, "again", run[r].next, run[r].call, run[r].done)
    BY <1>1, RunFields, NoResults DEF IInv
<1>5. sent' = [sent EXCEPT ![r] = sent[r]]
    BY DEF Reconnected, IInv, TypeOK
<1> QED
    BY <1>1, <1>2, <1>3, <1>4, <1>5, SameStatements DEF Reconnected

(* onError ends the run; results and plans stay.                               *)
LEMMA FailKeeps ==
    ASSUME IInv, NEW r \in Runs, Live(r), Fail(r),
           NEW S \in SUBSET Statement, sent' = [sent EXCEPT ![r] = S], sent[r] \subseteq S,
           SentOnce(TextOf[r], S), rejects' \in 0..MaxLost,
           UNCHANGED <<shown, switches, toasts, request, plans, crossed, late>>
    PROVE  IInv'
<1> DEFINE d == run[r].done
           n == run[r].next
           c == run[r].call
           t == run[r].tab
           new == [tabs[t] EXCEPT !.running = FALSE, !.error = r]
<1>1. /\ n \in Nat /\ c \in Nat \ {0} /\ d \in Seq(Result) /\ Len(d) <= MaxPieces
      /\ InOrder(d) /\ HandedOn(d, S) /\ OfRunOnly(d, r) /\ t \in Tabs
    BY OfLive DEF HandedOn
<1>2. Becomes(r, "over", n, c, d)
    BY RunFields, NoResults DEF IInv, Fail, Pcs
<1>3. t \in DOMAIN tabs => /\ new \in Tab /\ new.running = FALSE
                           /\ new.results = tabs[t].results /\ new.plan = tabs[t].plan
    BY DEF IInv, TypeOK, Tab
<1>4. UpdateTab(t, new)
    BY DEF Fail
<1> HIDE DEF d, n, c, new
<1>5. /\ OfRuns' /\ RunsTyped'
      /\ \A q \in Runs : q # r => run'[q] = run[q]
      /\ \A q \in Runs : run'[q].tab = run[q].tab /\ (Live(q)' => Live(q))
      /\ ~Live(r)'
    BY <1>1, <1>2, RunGoesOn DEF Pcs
<1>6. /\ DOMAIN tabs' = DOMAIN tabs
      /\ \A u \in DOMAIN tabs : tabs'[u] \in Tab
      /\ \A u \in DOMAIN tabs \ {t} : tabs'[u] = tabs[u]
      /\ t \in DOMAIN tabs \ lost' => tabs'[t] = new
      /\ lost \subseteq lost' /\ lost' \subseteq Tabs
    BY <1>1, <1>3, <1>4, TabUpdated
<1> HIDE DEF t
<1>7. OfPlans'
    <2>1. \A q \in Runs : run[q].pc = "over" => run'[q] = run[q]
        BY <1>5 DEF Live
    <2>2. \A u \in DOMAIN tabs' \ lost' : /\ u \in DOMAIN tabs
                                          /\ tabs'[u].results = tabs[u].results
                                          /\ tabs'[u].plan = tabs[u].plan
        BY <1>3, <1>6
    <2> QED
        BY <1>5, <1>6, <2>1, <2>2, PlansStay
<1>8. RunningIsTrue'
    BY <1>3, <1>5, <1>6, NoLongerRunning DEF t
<1>9. TypeOK'
    BY <1>5, <1>6 DEF IInv, TypeOK, RunsTyped
<1> QED
    BY <1>5, <1>7, <1>8, <1>9 DEF IInv

LEMMA CallRejectedKeeps ==
    ASSUME IInv, NEW r \in Runs, CallRejected(r)
    PROVE  IInv'
<1>1. Live(r) /\ run[r].pc \in {"call", "again"}
    BY DEF CallRejected, Live
<1>2. PICK k \in Ends(r) \cup {run[r].next - 1} :
         sent' = [sent EXCEPT ![r] = @ \cup Given(r, k, FALSE)]
    BY DEF CallRejected
<1> DEFINE S == sent[r] \cup Given(r, k, FALSE)
<1>3. k \in Nat
    BY <1>1, EndsAre
<1>4. /\ S \in SUBSET Statement /\ SentOnce(TextOf[r], S) /\ sent[r] \subseteq S
      /\ UnderWay(S, "reconnect", run[r].call, run[r].next)
    BY <1>1, <1>3, SentUpTo
<1>5. sent' = [sent EXCEPT ![r] = S]
    BY <1>2
<1> HIDE DEF S
<1>6. rejects' \in 0..MaxLost /\ \A i \in DOMAIN toasts' : toasts'[i] \in Runs
    BY BoundsAreNat DEF CallRejected, IInv, TypeOK
<1>7. CASE run' = [run EXCEPT ![r].pc = "reconnect"] /\ UNCHANGED <<tabs, lost>>
    <2>1. "reconnect" \in Pcs \ {"idle", "over"} /\ run[r].call \in Nat \ {0}
        BY <1>1, OfLive DEF Pcs
    <2>2. Becomes(r, "reconnect", run[r].next, run[r].call, run[r].done)
        BY <1>7, <2>1, RunFields, NoResults DEF IInv
    <2> QED
        BY <1>1, <1>4, <1>5, <1>6, <1>7, <2>1, <2>2, SameStatements DEF CallRejected
<1>8. CASE Fail(r)
    BY <1>1, <1>4, <1>5, <1>6, <1>8, FailKeeps DEF CallRejected
<1> QED
    BY <1>7, <1>8 DEF CallRejected

LEMMA ReconnectFailsKeeps ==
    ASSUME IInv, NEW r \in Runs, ReconnectFails(r)
    PROVE  IInv'
<1>1. Live(r)
    BY DEF ReconnectFails, Live
<1>2. /\ sent[r] \in SUBSET Statement /\ SentOnce(TextOf[r], sent[r])
      /\ sent' = [sent EXCEPT ![r] = sent[r]] /\ rejects' \in 0..MaxLost
    BY <1>1, OfLive DEF ReconnectFails, IInv, TypeOK
<1> QED
    BY <1>1, <1>2, FailKeeps DEF ReconnectFails

-----------------------------------------------------------------------------
(* A run begins: it crosses those under way in its tab and makes plans of      *)
(* earlier ones late.                                                          *)
LEMMA ExecuteKeeps ==
    ASSUME IInv, NEW t \in Tabs, Execute(t),
           UNCHANGED <<shown, switches, rejects, toasts, plans, sent>>,
           request' \in {request, None}
    PROVE  IInv'
<1> USE BoundsAreNat
<1>1. PICK r \in Runs :
         /\ run[r].pc = "idle"
         /\ run' = [run EXCEPT ![r] = [NoRun EXCEPT !.pc = "call", !.tab = t]]
         /\ UpdateTab(t, [EmptyTab EXCEPT !.running = TRUE])
    BY DEF Execute
<1>2. /\ crossed' = IF \E q \in Runs : Live(q) /\ run[q].tab = t THEN crossed \cup {t} ELSE crossed
      /\ late' = IF \E p \in plans : run[p.run].tab = t THEN late \cup {t} ELSE late
    BY DEF Execute
<1> DEFINE new == [EmptyTab EXCEPT !.running = TRUE]
<1>3. new \in Tab /\ new.running = TRUE /\ new.results = <<>> /\ new.plan = <<>>
    <2>1. EmptyTab \in Tab /\ EmptyTab.results = <<>> /\ EmptyTab.plan = <<>>
        BY DEF EmptyTab, Tab
    <2> QED
        BY <2>1 DEF Tab
<1>4. /\ DOMAIN tabs' = DOMAIN tabs
      /\ \A u \in DOMAIN tabs : tabs'[u] \in Tab
      /\ \A u \in DOMAIN tabs \ {t} : tabs'[u] = tabs[u]
      /\ t \in DOMAIN tabs \ lost' => tabs'[t] = new
      /\ lost \subseteq lost' /\ lost' \subseteq Tabs
    BY <1>1, <1>3, TabUpdated
<1> HIDE DEF new
<1>5. /\ run' \in [Runs -> Run]
      /\ \A q \in Runs : q # r => run'[q] = run[q]
      /\ run'[r].pc = "call" /\ run'[r].tab = t /\ run'[r].next = 1 /\ run'[r].call = 1
      /\ run'[r].done = <<>>
    <2>1. NoRun \in Run /\ NoRun.next = 1 /\ NoRun.call = 1 /\ NoRun.done = <<>>
        BY DEF NoRun, Run, Pcs
    <2>2. "call" \in Pcs /\ t \in Tabs \cup {None}
        BY DEF Pcs
    <2>3. run \in [Runs -> Run]
        BY DEF IInv, TypeOK
    <2> QED
        BY <1>1, <2>1, <2>2, <2>3 DEF Run
<1>6. /\ \A q \in Runs : q # r => (Live(q)' <=> Live(q))
      /\ Live(r)' /\ ~Live(r)
    BY <1>1, <1>5 DEF Live
<1>7. sent[r] = {} /\ sent' = sent
    BY <1>1 DEF IInv, OfRuns, Progress
<1>8. crossed \subseteq crossed' /\ late \subseteq late' /\ crossed' \subseteq Tabs /\ late' \subseteq Tabs
    BY <1>2 DEF IInv, TypeOK
<1>9. TypeOK'
    <2>1. 1 \in 1..TextOf[r].pieces
        BY TextsAreCut
    <2>2. RunsTyped'
        BY <1>5, <1>6, <1>7, <2>1 DEF IInv, TypeOK, RunsTyped, Live
    <2> QED
        BY <1>4, <1>8, <2>2 DEF IInv, TypeOK, RunsTyped
<1>10. OfRuns'
    <2>1. UnderWay({}, "call", 1, 1)
        BY DEF UnderWay, Answered, AtCall
    <2>2. Progress'
        <3>1. ASSUME NEW q \in Runs, q # r
              PROVE  /\ run'[q].pc = "idle" => sent'[q] = {} /\ run'[q].done = <<>>
                     /\ Live(q)' => /\ UnderWay(sent'[q], run'[q].pc, run'[q].call, run'[q].next)
                                    /\ Len(run'[q].done) < run'[q].next
                     /\ Len(run'[q].done) <= MaxPieces
            BY <1>5, <1>6, <1>7, <3>1 DEF IInv, OfRuns, Progress
        <3>2. /\ run'[r].pc # "idle" /\ Len(run'[r].done) = 0
              /\ UnderWay(sent'[r], run'[r].pc, run'[r].call, run'[r].next)
            BY <1>5, <1>7, <2>1
        <3> QED
            BY <1>5, <3>1, <3>2 DEF Progress
    <2>3. OwnResults' /\ SentInOrder'
        <3>1. run[r].done = <<>>
            BY <1>1 DEF IInv, OfRuns, Progress
        <3> QED
            BY <1>5, <1>7, <3>1 DEF IInv, OfRuns, OwnResults, SentInOrder
    <2>4. OneInEachTab'
        BY <1>2, <1>5, <1>6, <1>8 DEF IInv, OfRuns, OneInEachTab
    <2> QED
        BY <2>2, <2>3, <2>4 DEF OfRuns
<1>11. OfPlans'
    <2>1. \A p \in plans : p.run \in Runs /\ run[p.run].pc = "over" /\ p.run # r
                           /\ run'[p.run] = run[p.run]
        BY <1>1, <1>5 DEF IInv, TypeOK, OfPlans, PlansOfResults
    <2>2. PlansOfResults'
        BY <2>1 DEF IInv, OfPlans, PlansOfResults
    <2>3. PlansMeetNoRun'
        BY <1>2, <1>5, <1>6, <1>8, <2>1 DEF IInv, OfPlans, PlansMeetNoRun
    <2>4. PlansOfTheTab'
        BY <1>2, <1>4, <1>8, <2>1 DEF IInv, OfPlans, PlansOfTheTab
    <2>5. PlanBesideItsResult'
        <3> SUFFICES ASSUME NEW u \in DOMAIN tabs \ (lost' \cup crossed' \cup late')
                     PROVE  \A i \in DOMAIN tabs'[u].plan :
                                tabs'[u].plan[i] # None =>
                                    /\ i \in DOMAIN tabs'[u].results
                                    /\ tabs'[u].results[i].run = tabs'[u].plan[i]
            BY <1>4 DEF PlanBesideItsResult
        <3>1. CASE u = t
            BY <1>3, <1>4, <3>1
        <3>2. CASE u # t
            BY <1>4, <1>8, <3>2 DEF IInv, OfPlans, PlanBesideItsResult
        <3> QED
            BY <3>1, <3>2
    <2> QED
        BY <2>2, <2>3, <2>4, <2>5 DEF OfPlans
<1>12. RunningIsTrue'
    <2> SUFFICES ASSUME NEW u \in DOMAIN tabs \ (lost' \cup crossed')
                 PROVE  tabs'[u].running = (\E q \in Runs : run'[q].tab = u /\ Live(q)')
        BY <1>4 DEF RunningIsTrue
    <2>1. CASE u = t
        BY <1>3, <1>4, <1>5, <1>6, <2>1
    <2>2. CASE u # t
        <3>1. (\E q \in Runs : run'[q].tab = u /\ Live(q)')
                = (\E q \in Runs : run[q].tab = u /\ Live(q))
            BY <1>5, <1>6, <2>2
        <3> QED
            BY <1>4, <1>8, <2>2, <3>1 DEF IInv, RunningIsTrue
    <2> QED
        BY <2>1, <2>2
<1> QED
    BY <1>9, <1>10, <1>11, <1>12 DEF IInv

LEMMA RunQueryKeeps ==
    ASSUME IInv, NEW t \in Tabs, RunQuery(t)
    PROVE  IInv'
BY ExecuteKeeps DEF RunQuery

LEMMA SubmitKeeps ==
    ASSUME IInv, SubmitPlaceholders
    PROVE  IInv'
<1>1. request \in Tabs
    BY DEF SubmitPlaceholders, IInv, TypeOK
<1> QED
    BY <1>1, ExecuteKeeps DEF SubmitPlaceholders

(* The plans of a tab with v put at one place, which may be beyond their end.  *)
LEMMA PutAt ==
    ASSUME NEW was \in Seq(Runs \cup {None}), NEW at \in Nat \ {0}, NEW v \in Runs \cup {None}
    PROVE  LET k == IF at > Len(was) THEN at ELSE Len(was)
               plan == [i \in 1..k |-> IF i = at THEN v ELSE IF i <= Len(was) THEN was[i] ELSE None]
           IN /\ plan \in Seq(Runs \cup {None}) /\ DOMAIN plan = 1..k
              /\ DOMAIN was = 1..Len(was) /\ Len(was) \in Nat
<1> DEFINE k == IF at > Len(was) THEN at ELSE Len(was)
<1>1. Len(was) \in Nat /\ DOMAIN was = 1..Len(was) /\ k \in Nat
    OBVIOUS
<1>2. \A i \in 1..Len(was) : was[i] \in Runs \cup {None}
    OBVIOUS
<1> HIDE DEF k
<1>3. ASSUME NEW i \in 1..k
      PROVE  (IF i = at THEN v ELSE IF i <= Len(was) THEN was[i] ELSE None) \in Runs \cup {None}
    BY <1>1, <1>2
<1>4. [i \in 1..k |-> IF i = at THEN v ELSE IF i <= Len(was) THEN was[i] ELSE None]
          \in Seq(Runs \cup {None})
    BY <1>1, <1>3
<1> QED
    BY <1>1, <1>4 DEF k

(* A plan comes to its place: that of a result of its run, or the tab is one   *)
(* of the excepted.                                                            *)
LEMMA PlanArrivesKeeps ==
    ASSUME IInv, PlanArrives
    PROVE  IInv'
<1> USE BoundsAreNat
<1>1. PICK p \in plans :
         /\ plans' = plans \ {p}
         /\ tabs' = IF ~Reached(run[p.run].tab) THEN tabs
                    ELSE [tabs EXCEPT ![run[p.run].tab].plan =
                            [i \in 1..(IF p.at > Len(@) THEN p.at ELSE Len(@)) |->
                               IF i = p.at THEN p.run
                               ELSE IF i <= Len(@) THEN @[i] ELSE None]]
    BY DEF PlanArrives
<1>2. UNCHANGED <<shown, switches, rejects, run, toasts, request, sent, lost, crossed, late>>
    BY DEF PlanArrives
<1> DEFINE t == run[p.run].tab
           was == tabs[t].plan
           k == IF p.at > Len(was) THEN p.at ELSE Len(was)
           plan == [i \in 1..k |-> IF i = p.at THEN p.run
                                   ELSE IF i <= Len(was) THEN was[i] ELSE None]
<1>3. p.run \in Runs /\ p.at \in Pieces /\ run[p.run].pc = "over" /\ p.at \in 1..Len(run[p.run].done)
    BY DEF IInv, TypeOK, OfPlans, PlansOfResults
<1>4. ASSUME Reached(t)
      PROVE  /\ was \in Seq(Runs \cup {None}) /\ plan \in Seq(Runs \cup {None})
             /\ DOMAIN plan = 1..k /\ DOMAIN was = 1..Len(was) /\ Len(was) \in Nat
    <2>1. was \in Seq(Runs \cup {None})
        BY <1>4 DEF Reached, IInv, TypeOK, Tab
    <2>2. p.at \in Nat \ {0} /\ p.run \in Runs \cup {None}
        BY <1>3
    <2> HIDE DEF was
    <2> QED
        BY <2>1, <2>2, PutAt
<1>5. /\ DOMAIN tabs' = DOMAIN tabs
      /\ \A u \in DOMAIN tabs \ {t} : tabs'[u] = tabs[u]
      /\ ~Reached(t) => tabs' = tabs
      /\ Reached(t) => /\ t \in DOMAIN tabs
                       /\ tabs'[t] = [tabs[t] EXCEPT !.plan = plan]
    BY <1>1 DEF Reached
<1> HIDE DEF plan
<1>6. Reached(t) => /\ tabs'[t] \in Tab /\ tabs'[t].running = tabs[t].running
                    /\ tabs'[t].results = tabs[t].results /\ tabs'[t].plan = plan
    BY <1>4, <1>5 DEF IInv, TypeOK, Tab
<1> HIDE DEF t
<1>7. \A u \in DOMAIN tabs : /\ tabs'[u] \in Tab /\ tabs'[u].running = tabs[u].running
                             /\ tabs'[u].results = tabs[u].results
    BY <1>5, <1>6 DEF IInv, TypeOK
<1>8. TypeOK'
    BY <1>1, <1>2, <1>5, <1>7 DEF IInv, TypeOK, Live
<1>9. OfRuns'
    BY <1>2 DEF IInv, OfRuns, Progress, OwnResults, SentInOrder, OneInEachTab, Live
<1>10. RunningIsTrue'
    BY <1>2, <1>5, <1>7, StillRunning DEF Live
<1>11. OfPlans'
    <2>1. PlansOfResults' /\ PlansMeetNoRun'
        BY <1>1, <1>2 DEF IInv, OfPlans, PlansOfResults, PlansMeetNoRun, Live
    <2>2. PlansOfTheTab'
        BY <1>1, <1>2, <1>5, <1>7 DEF IInv, OfPlans, PlansOfTheTab
    <2>3. PlanBesideItsResult'
        <3> SUFFICES ASSUME NEW u \in DOMAIN tabs \ (lost \cup crossed \cup late),
                            NEW i \in DOMAIN tabs'[u].plan, tabs'[u].plan[i] # None
                     PROVE  /\ i \in DOMAIN tabs[u].results
                            /\ tabs[u].results[i].run = tabs'[u].plan[i]
            BY <1>2, <1>5, <1>7 DEF PlanBesideItsResult
        <3>1. CASE u # t \/ ~Reached(t)
            BY <1>5, <3>1 DEF IInv, OfPlans, PlanBesideItsResult
        <3>2. CASE u = t /\ Reached(t) /\ i = p.at
            <4>1. tabs[u].results = run[p.run].done
                BY <3>2 DEF IInv, OfPlans, PlansOfTheTab, t
            <4>2. run[p.run].done \in Seq(Result) /\ \A j \in DOMAIN run[p.run].done :
                                                          run[p.run].done[j].run = p.run
                BY <1>3 DEF IInv, TypeOK, Run, OfRuns, OwnResults, OfRunOnly
            <4>3. tabs'[u].plan[i] = p.run
                BY <1>4, <1>6, <3>2 DEF plan
            <4> QED
                BY <1>3, <3>2, <4>1, <4>2, <4>3
        <3>3. CASE u = t /\ Reached(t) /\ i # p.at
            <4>1. i \in 1..k /\ DOMAIN was = 1..Len(was) /\ Len(was) \in Nat /\ plan[i] # None
                BY <1>4, <1>6, <3>3
            <4>2. i <= Len(was) /\ tabs'[u].plan[i] = was[i]
                BY <1>6, <3>3, <4>1 DEF plan
            <4> QED
                BY <3>3, <4>1, <4>2 DEF IInv, OfPlans, PlanBesideItsResult
        <3> QED
            BY <3>1, <3>2, <3>3
    <2> QED
        BY <2>1, <2>2, <2>3 DEF OfPlans
<1> QED
    BY <1>8, <1>9, <1>10, <1>11 DEF IInv

(* Runs and the tabs that stay as they are.                                    *)
LEMMA OthersKeep ==
    ASSUME IInv, \/ \E t \in Tabs : AskPlaceholders(t) \/ CloseTab(t)
                 \/ ClosePlaceholders \/ PlanFails \/ Switch \/ UNCHANGED vars
    PROVE  IInv'
<1>1. /\ UNCHANGED <<run, rejects, toasts, sent, lost, crossed, late>>
      /\ plans' \subseteq plans /\ DOMAIN tabs' \subseteq DOMAIN tabs
      /\ \A u \in DOMAIN tabs' : tabs'[u] = tabs[u]
    <2>1. CASE \E t \in Tabs : CloseTab(t)
        BY <2>1 DEF CloseTab
    <2>2. CASE PlanFails
        BY <2>2 DEF PlanFails
    <2>3. CASE (\E t \in Tabs : AskPlaceholders(t)) \/ ClosePlaceholders \/ Switch \/ UNCHANGED vars
        BY <2>3 DEF AskPlaceholders, ClosePlaceholders, Switch, vars
    <2> QED
        BY <2>1, <2>2, <2>3
<1>2. /\ shown' \in Sessions /\ switches' \in 0..MaxSwitch
      /\ request' \in Tabs \cup {None}
    <2>1. /\ shown \in Sessions /\ switches \in 0..MaxSwitch
          /\ request \in Tabs \cup {None}
        BY DEF IInv, TypeOK
    <2>2. CASE \E t \in Tabs : AskPlaceholders(t)
        BY <2>1, <2>2 DEF AskPlaceholders
    <2>3. CASE Switch
        BY <2>1, <2>3, BoundsAreNat DEF Switch
    <2>4. CASE (\E t \in Tabs : CloseTab(t)) \/ ClosePlaceholders \/ PlanFails \/ UNCHANGED vars
        BY <2>1, <2>4 DEF CloseTab, ClosePlaceholders, PlanFails, vars
    <2> QED
        BY <2>2, <2>3, <2>4
<1>3. OfPlans'
    BY <1>1, PlansStay DEF Live
<1>4. RunningIsTrue'
    BY <1>1, StillRunning DEF Live
<1>5. OfRuns'
    BY <1>1, <1>2 DEF IInv, OfRuns, Progress, OwnResults, SentInOrder, OneInEachTab,
                      Live
<1>6. TypeOK'
    BY <1>1, <1>2 DEF IInv, TypeOK, Live
<1> QED
    BY <1>3, <1>4, <1>5, <1>6 DEF IInv

-----------------------------------------------------------------------------
LEMMA NextIInv == IInv /\ [Next]_vars => IInv'
<1> SUFFICES ASSUME IInv, [Next]_vars PROVE IInv'
    OBVIOUS
<1>1. ASSUME NEW r \in Runs, OfRun(r) PROVE IInv'
    BY <1>1, AnswerKeeps, AnswerLastFailsKeeps, AnswerFailsKeeps, ContinueKeeps, StopKeeps,
       CallRejectedKeeps, ReconnectedKeeps, ReconnectFailsKeeps DEF OfRun
<1>2. ASSUME NEW t \in Tabs, OfTab(t) PROVE IInv'
    BY <1>2, RunQueryKeeps, OthersKeep DEF OfTab
<1> QED
    BY <1>1, <1>2, SubmitKeeps, PlanArrivesKeeps, OthersKeep DEF Next

LEMMA Invariant == Spec => []IInv
BY InitIInv, NextIInv, PTL DEF Spec

(* Tabs, runs, questions and plans keep their shape: a plan on its way has the *)
(* index of a statement, a run under way has a statement left.                 *)
THEOREM RunTypesHold == Spec => []TypeOK
<1>1. IInv => TypeOK
    BY DEF IInv
<1> QED
    BY Invariant, <1>1, PTL

(* A statement whose answer has come is never sent again, nothing of a text is *)
(* left out, and only a joined rest is cut otherwise than the user wrote it,   *)
(* over failures, continuations, lost answers and reconnects.                  *)
THEOREM EachStatementOnce == Spec => []StatementsOnce
<1>1. IInv => StatementsOnce
    BY SentInOrderIsOnce DEF IInv, OfRuns
<1> QED
    BY Invariant, <1>1, PTL

(* A tab says that it runs exactly while one of its runs is under way, unless  *)
(* an update of it was lost or two runs crossed in it.                         *)
THEOREM TabsTellTheTruth == Spec => []RunningIsTrue
<1>1. IInv => RunningIsTrue
    BY DEF IInv
<1> QED
    BY Invariant, <1>1, PTL

(* A plan is shown beside a result of the run it was made for, unless one of   *)
(* those, or a run that began before the plans of the last were there.         *)
THEOREM PlansBesideTheirResults == Spec => []PlanBesideItsResult
<1>1. IInv => PlanBesideItsResult
    BY DEF IInv, OfPlans
<1> QED
    BY Invariant, <1>1, PTL

-----------------------------------------------------------------------------
(* The query history.                                                         *)

(* Entries are finitely many, and every set of them has a latest one.         *)
LEMMA LatestEntry ==
    ASSUME NEW S \in SUBSET Entries, S # {}
    PROVE  \E e \in S : \A f \in S : f <= e
<1>1. MaxEntries \in Nat /\ S \in SUBSET 0..MaxEntries
    BY ConstantsAssumption DEF Entries
<1> QED
    BY <1>1, LastOf

LEMMA EntriesAreCounted ==
    ASSUME NEW S \in SUBSET Entries
    PROVE  IsFiniteSet(S) /\ Cardinality(S) \in 0..MaxEntries
<1>1. IsFiniteSet(Entries) /\ Cardinality(Entries) = MaxEntries /\ MaxEntries \in Nat
    BY ConstantsAssumption, FS_Interval DEF Entries
<1>2. IsFiniteSet(S) /\ Cardinality(S) <= Cardinality(Entries) /\ Cardinality(S) \in Nat
    BY <1>1, FS_Subset, FS_CardinalityType
<1> QED
    BY <1>1, <1>2

(* The limit is not cut below: an entry that is not among the n latest of S   *)
(* has n later ones among them.                                               *)
LEMMA LatestKeepsN ==
    ASSUME NEW S \in SUBSET Entries, NEW n \in Nat, NEW e \in S \ Latest(S, n)
    PROVE  Cardinality({f \in Latest(S, n) : f > e}) >= n
<1> DEFINE Later(d) == {f \in S : f > d}
           Cut == {d \in S \ Latest(S, n) : d >= e}
           Kept == {f \in Latest(S, n) : f > e}
<1>1. Entries \subseteq Nat
    BY DEF Entries
<1>2. Cut \in SUBSET Entries /\ e \in Cut
    <2>1. e \in Nat /\ e \in S /\ e \notin Latest(S, n)
        BY <1>1
    <2>2. e >= e
        BY <2>1
    <2> QED
        BY <2>1, <2>2
<1>3. PICK d \in Cut : \A f \in Cut : f <= d
    BY <1>2, LatestEntry
<1>4. d \in S /\ e \in Nat /\ d \in Nat /\ d >= e /\ d \notin Latest(S, n)
    BY <1>1, <1>2, <1>3
<1>5. Later(d) \subseteq Kept
    <2> SUFFICES ASSUME NEW f \in S, f > d
                 PROVE  f \in Latest(S, n) /\ f > e
        OBVIOUS
    <2>1. f \in Nat /\ f > e /\ f >= e /\ ~(f <= d)
        BY <1>1, <1>4
    <2>2. f \notin Cut
        BY <1>3, <2>1
    <2> QED
        BY <2>1, <2>2
<1>6. Kept \in SUBSET Entries /\ Later(d) \in SUBSET Entries
    BY DEF Latest
<1>7. Cardinality(Later(d)) \in Nat /\ Cardinality(Kept) \in Nat /\ IsFiniteSet(Kept)
    BY <1>6, EntriesAreCounted
<1>8. Cardinality(Later(d)) <= Cardinality(Kept)
    BY <1>5, <1>7, FS_Subset
<1>9. ~(Cardinality(Later(d)) < n)
    BY <1>4 DEF Latest
<1> QED
    BY <1>7, <1>8, <1>9

(* What a save will leave of the file: what it drops has maxPerDay later ones. *)
Covers(new, S) ==
    \A e \in S \ new : Cardinality({f \in new : f > e}) >= MaxPerDay

LEMMA MergeCovers ==
    ASSUME NEW S \in SUBSET Entries, NEW new \in SUBSET Entries
    PROVE  Merge(S, new) \in SUBSET Entries /\ Covers(Merge(S, new), S)
<1>1. S \cup new \in SUBSET Entries /\ MaxPerDay \in Nat
    BY ConstantsAssumption
<1>2. Merge(S, new) = Latest(S \cup new, MaxPerDay)
    BY DEF Merge
<1> QED
    BY <1>1, <1>2, LatestKeepsN DEF Covers, Latest

LEMMA PrependTyped ==
    ASSUME NEW S \in SUBSET Entries, NEW e \in Entries, NEW repeats \in BOOLEAN
    PROVE  Prepend(S, e, repeats) \in SUBSET Entries
BY DEF Prepend, Latest

-----------------------------------------------------------------------------
(* The invariant: a call past the mutex holds it, the call that adds has an   *)
(* entry, and what the holder of the lock file is about to write covers the   *)
(* file, since nobody but ClearAll changes the file under it.                 *)
HoldsStoreMu ==
    \A p \in Procs : pc[p] \in {"lock", "write", "blind", "unlock", "removeOld"} => mu[InstOf[p]] = p
AddsAnEntry == \A p \in Procs : op[p] = "add" => entry[p] \in Entries
WritesCover == \A p \in Procs : pc[p] = "write" => Covers(mine[p], file)

HistoryInv == HistoryTypeOK /\ HoldsStoreMu /\ AddsAnEntry /\ WritesCover

LEMMA HistoryInitially ==
    ASSUME HistoryInit
    PROVE  HistoryInv
<1>1. stamped \in 0..MaxEntries
    BY EntriesAreCounted, ConstantsAssumption DEF HistoryInit
<1>2. HistoryTypeOK
    BY <1>1, ConstantsAssumption DEF HistoryInit, HistoryTypeOK, Stages, Ops
<1>3. HoldsStoreMu /\ AddsAnEntry /\ WritesCover
    BY DEF HistoryInit, HoldsStoreMu, AddsAnEntry, WritesCover
<1> QED
    BY <1>2, <1>3 DEF HistoryInv

(* A call that returns frees what it holds, and nothing else; ClearAll has    *)
(* emptied the file then.                                                     *)
LEMMA HistoryReturn ==
    ASSUME HistoryInv, NEW p \in Procs, Return(p), UNCHANGED stamped,
           old' \subseteq Entries, booted' \subseteq Instances, file' \in {file, {}}
    PROVE  HistoryInv'
<1> USE DEF HistoryInv
<1>1. HistoryTypeOK'
    <2>1. /\ pc' \in [Procs -> Stages] /\ op' \in [Procs -> Ops]
          /\ entry' \in [Procs -> 0..MaxEntries] /\ mine' \in [Procs -> SUBSET Entries]
          /\ file' \subseteq Entries
        BY ConstantsAssumption DEF HistoryTypeOK, Return, Stages, Ops
    <2>2. mu' \in [Instances -> Procs \cup {NoProc}] /\ flock' \in Procs \cup {NoProc}
        BY DEF HistoryTypeOK, Return
    <2>3. \A q \in Procs : flock' = q <=> pc'[q] \in {"write", "blind", "unlock"}
        BY ConstantsAssumption DEF HistoryTypeOK, Return
    <2> QED
        BY <2>1, <2>2, <2>3 DEF HistoryTypeOK
<1>2. HoldsStoreMu'
    BY ConstantsAssumption DEF HistoryTypeOK, HoldsStoreMu, Return
<1>3. AddsAnEntry'
    BY DEF HistoryTypeOK, AddsAnEntry, Return
<1>4. WritesCover'
    BY DEF HistoryTypeOK, WritesCover, Covers, Return
<1> QED
    BY <1>1, <1>2, <1>3, <1>4

(* A step of a call that neither takes nor gives the lock file.               *)
LEMMA HistoryGoes ==
    ASSUME HistoryInv, NEW p \in Procs, NEW stage \in {"load", "lock", "removeOld"},
           Goto(p, stage), UNCHANGED <<file, old, flock>>, stamped' \in 0..MaxEntries,
           booted' \subseteq Instances, pc[p] \notin {"write", "blind", "unlock"},
           mu' = mu \/ (mu[InstOf[p]] = NoProc /\ mu' = [mu EXCEPT ![InstOf[p]] = p]),
           stage # "load" => mu'[InstOf[p]] = p,
           op' \in [Procs -> Ops], \A q \in Procs \ {p} : op'[q] = op[q],
           entry' \in [Procs -> 0..MaxEntries], \A q \in Procs \ {p} : entry'[q] = entry[q],
           mine' \in [Procs -> SUBSET Entries], \A q \in Procs \ {p} : mine'[q] = mine[q],
           op'[p] = "add" => entry'[p] \in Entries
    PROVE  HistoryInv'
<1> USE DEF HistoryInv
<1>1. /\ pc' \in [Procs -> Stages] /\ pc'[p] = stage
      /\ \A q \in Procs \ {p} : pc'[q] = pc[q]
    BY DEF HistoryTypeOK, Goto, Stages
<1>2. mu' \in [Instances -> Procs \cup {NoProc}]
    BY ConstantsAssumption DEF HistoryTypeOK
<1>3. \A q \in Procs : flock' = q <=> pc'[q] \in {"write", "blind", "unlock"}
    BY <1>1 DEF HistoryTypeOK
<1>4. HistoryTypeOK'
    BY <1>1, <1>2, <1>3 DEF HistoryTypeOK
<1>5. HoldsStoreMu'
    BY <1>1, ConstantsAssumption DEF HistoryTypeOK, HoldsStoreMu
<1>6. AddsAnEntry' /\ WritesCover'
    BY <1>1 DEF AddsAnEntry, WritesCover, Covers
<1> QED
    BY <1>4, <1>5, <1>6

LEMMA HistoryBoot ==
    ASSUME HistoryInv, NEW p \in Procs,
           MigrateNothing(p) \/ OldUnreadable(p) \/ ReadOld(p) \/ RemoveOld(p)
    PROVE  HistoryInv'
<1> USE DEF HistoryInv
<1>1. InstOf[p] \in Instances
    BY ConstantsAssumption
<1>2. CASE MigrateNothing(p) \/ OldUnreadable(p)
    <2>1. /\ booted' \subseteq Instances
          /\ UNCHANGED <<file, old, stamped, lockVars, callVars>>
        BY <1>1, <1>2 DEF MigrateNothing, OldUnreadable, HistoryTypeOK
    <2> QED
        BY <2>1 DEF HistoryTypeOK, HoldsStoreMu, AddsAnEntry, WritesCover, Covers, lockVars, callVars
<1>3. CASE ReadOld(p)
    <2>1. /\ mu[InstOf[p]] = NoProc /\ mu' = [mu EXCEPT ![InstOf[p]] = p]
          /\ mine' = [mine EXCEPT ![p] = old] /\ op' = [op EXCEPT ![p] = "migrate"]
          /\ Goto(p, "lock") /\ UNCHANGED <<file, old, stamped, flock, booted, entry>>
        BY <1>3 DEF ReadOld
    <2>2. pc[p] \notin {"write", "blind", "unlock"}
        BY <2>1, ConstantsAssumption DEF HoldsStoreMu
    <2>3. mu'[InstOf[p]] = p
        BY <1>1, <2>1 DEF HistoryTypeOK
    <2>4. mine' \in [Procs -> SUBSET Entries] /\ \A q \in Procs \ {p} : mine'[q] = mine[q]
        BY <2>1 DEF HistoryTypeOK
    <2>5. /\ op' \in [Procs -> Ops] /\ op'[p] = "migrate"
          /\ \A q \in Procs \ {p} : op'[q] = op[q]
        BY <2>1 DEF HistoryTypeOK, Ops
    <2> QED
        BY <2>1, <2>2, <2>3, <2>4, <2>5, HistoryGoes DEF HistoryTypeOK
<1>4. CASE RemoveOld(p)
    <2>1. /\ old' \in {{}, old} /\ booted' = booted \cup {InstOf[p]} /\ Return(p)
          /\ UNCHANGED <<file, stamped>>
        BY <1>4 DEF RemoveOld
    <2> QED
        BY <1>1, <2>1, HistoryReturn DEF HistoryTypeOK
<1> QED
    BY <1>2, <1>3, <1>4

LEMMA HistoryCall ==
    ASSUME HistoryInv, NEW p \in Procs, Call(p)
    PROVE  HistoryInv'
<1> USE DEF HistoryInv
<1>1. PICK o \in Ops, n \in 0..MaxEntries :
          /\ pc[p] = "idle" /\ Goto(p, "load") /\ op' = [op EXCEPT ![p] = o]
          /\ entry' = [entry EXCEPT ![p] = n] /\ (o = "add" => n \in Entries)
          /\ stamped' \in 0..MaxEntries
          /\ UNCHANGED <<file, old, lockVars, booted, mine>>
    <2>1. CASE CallAdd(p)
        <3>1. /\ stamped \in 0..MaxEntries /\ stamped < MaxEntries /\ MaxEntries \in Nat
              /\ stamped' = stamped + 1 /\ entry' = [entry EXCEPT ![p] = stamped + 1]
              /\ op' = [op EXCEPT ![p] = "add"]
            BY <2>1, ConstantsAssumption DEF CallAdd, HistoryTypeOK
        <3>2. stamped + 1 \in 0..MaxEntries /\ stamped + 1 \in Entries /\ "add" \in Ops
            BY <3>1 DEF Entries, Ops
        <3> QED
            BY <2>1, <3>1, <3>2 DEF CallAdd
    <2>2. ASSUME NEW e \in Entries, CallDelete(p, e)
          PROVE  \E o \in Ops, n \in 0..MaxEntries :
                    /\ pc[p] = "idle" /\ Goto(p, "load") /\ op' = [op EXCEPT ![p] = o]
                    /\ entry' = [entry EXCEPT ![p] = n] /\ (o = "add" => n \in Entries)
                    /\ stamped' \in 0..MaxEntries
                    /\ UNCHANGED <<file, old, lockVars, booted, mine>>
        <3>1. e \in 0..MaxEntries /\ "delete" \in Ops
            BY DEF Entries, Ops
        <3> QED
            BY <2>2, <3>1 DEF CallDelete, HistoryTypeOK
    <2>3. CASE CallClear(p)
        <3>1. entry[p] \in 0..MaxEntries /\ entry' = [entry EXCEPT ![p] = entry[p]] /\ "clear" \in Ops
            BY <2>3 DEF CallClear, HistoryTypeOK, Ops
        <3> QED
            BY <2>3, <3>1 DEF CallClear, HistoryTypeOK
    <2> QED
        BY <2>1, <2>2, <2>3 DEF Call
<1>2. /\ op' \in [Procs -> Ops] /\ op'[p] = o /\ \A q \in Procs \ {p} : op'[q] = op[q]
      /\ entry' \in [Procs -> 0..MaxEntries] /\ entry'[p] = n
      /\ \A q \in Procs \ {p} : entry'[q] = entry[q]
    BY <1>1 DEF HistoryTypeOK
<1>3. /\ UNCHANGED <<file, old, flock, mu>> /\ booted' \subseteq Instances
      /\ mine' \in [Procs -> SUBSET Entries] /\ \A q \in Procs \ {p} : mine'[q] = mine[q]
      /\ pc[p] \notin {"write", "blind", "unlock"} /\ (op'[p] = "add" => entry'[p] \in Entries)
    BY <1>1, <1>2 DEF HistoryTypeOK, lockVars
<1> HIDE DEF HistoryInv
<1> QED
    BY <1>1, <1>2, <1>3, HistoryGoes

LEMMA HistoryAcquire ==
    ASSUME HistoryInv, NEW p \in Procs, Acquire(p)
    PROVE  HistoryInv'
<1> USE DEF HistoryInv
<1>1. InstOf[p] \in Instances /\ pc[p] = "load" /\ mu[InstOf[p]] = NoProc
    BY ConstantsAssumption DEF Acquire, Add, DeleteByID, ClearAll, LoadFails, Enter
<1>2. ASSUME NEW new \in SUBSET Entries, mine' = [mine EXCEPT ![p] = new],
             mu' = [mu EXCEPT ![InstOf[p]] = p], Goto(p, "lock"),
             UNCHANGED <<file, old, stamped, flock, booted, op, entry>>
      PROVE  HistoryInv'
    <2>1. mine' \in [Procs -> SUBSET Entries] /\ \A q \in Procs \ {p} : mine'[q] = mine[q]
        BY <1>2 DEF HistoryTypeOK
    <2>2. mu'[InstOf[p]] = p /\ (op'[p] = "add" => entry'[p] \in Entries)
        BY <1>1, <1>2 DEF HistoryTypeOK, AddsAnEntry
    <2> QED
        BY <1>1, <1>2, <2>1, <2>2, HistoryGoes DEF HistoryTypeOK
<1>3. CASE Add(p)
    <2>1. PICK repeats \in BOOLEAN : mine' = [mine EXCEPT ![p] = Prepend(file, entry[p], repeats)]
        BY <1>3 DEF Add
    <2>2. Prepend(file, entry[p], repeats) \in SUBSET Entries
        BY <1>3, PrependTyped DEF Add, Enter, AddsAnEntry, HistoryTypeOK
    <2> QED
        BY <1>2, <1>3, <2>1, <2>2 DEF Add
<1>4. CASE DeleteByID(p)
    <2>1. CASE entry[p] \in file
        <3>1. file \ {entry[p]} \in SUBSET Entries
            BY DEF HistoryTypeOK
        <3> QED
            BY <1>2, <1>4, <2>1, <3>1 DEF DeleteByID
    <2>2. CASE entry[p] \notin file
        BY <1>4, <2>2, HistoryReturn DEF DeleteByID, HistoryTypeOK
    <2> QED
        BY <2>1, <2>2
<1>5. CASE ClearAll(p) \/ LoadFails(p)
    BY <1>5, HistoryReturn DEF ClearAll, LoadFails, HistoryTypeOK
<1> QED
    BY <1>3, <1>4, <1>5 DEF Acquire

LEMMA HistoryLock ==
    ASSUME HistoryInv, NEW p \in Procs, Lock(p) \/ LockUnread(p)
    PROVE  HistoryInv'
<1> USE DEF HistoryInv
<1>1. PICK S \in {file, {}}, stage \in {"write", "blind"} :
          /\ mine' = [mine EXCEPT ![p] = Merge(S, mine[p])] /\ Goto(p, stage)
          /\ stage = "write" => S = file
    BY DEF Lock, LockUnread
<1>2. /\ pc[p] = "lock" /\ flock = NoProc /\ flock' = p
      /\ UNCHANGED <<file, old, stamped, mu, booted, op, entry>>
    BY DEF Lock, LockUnread
<1>3. Merge(S, mine[p]) \in SUBSET Entries /\ Covers(Merge(S, mine[p]), S)
    BY MergeCovers DEF HistoryTypeOK
<1>4. /\ mine' \in [Procs -> SUBSET Entries] /\ Covers(mine'[p], S)
      /\ \A q \in Procs \ {p} : mine'[q] = mine[q]
    BY <1>1, <1>3 DEF HistoryTypeOK
<1>5. /\ pc' \in [Procs -> Stages] /\ pc'[p] = stage
      /\ \A q \in Procs \ {p} : pc'[q] = pc[q] /\ pc[q] \notin {"write", "blind", "unlock"}
    BY <1>1, <1>2, ConstantsAssumption DEF HistoryTypeOK, Goto, Stages
<1>6. HistoryTypeOK'
    BY <1>2, <1>4, <1>5 DEF HistoryTypeOK
<1>7. HoldsStoreMu' /\ AddsAnEntry'
    BY <1>2, <1>5 DEF HoldsStoreMu, AddsAnEntry
<1>8. WritesCover'
    BY <1>1, <1>2, <1>4, <1>5 DEF WritesCover, Covers
<1> QED
    BY <1>6, <1>7, <1>8

LEMMA HistoryWrite ==
    ASSUME HistoryInv, NEW p \in Procs, Write(p)
    PROVE  HistoryInv'
<1> USE DEF HistoryInv
<1>1. /\ pc[p] \in {"write", "blind"} /\ file' = mine[p] /\ Goto(p, "unlock")
      /\ UNCHANGED <<old, stamped, lockVars, booted, op, entry, mine>>
    BY DEF Write
<1>2. /\ pc' \in [Procs -> Stages] /\ pc'[p] = "unlock"
      /\ \A q \in Procs \ {p} : pc'[q] = pc[q] /\ pc[q] # "write"
    BY <1>1 DEF HistoryTypeOK, Goto, Stages
<1>3. HistoryTypeOK'
    BY <1>1, <1>2 DEF HistoryTypeOK, lockVars
<1>4. HoldsStoreMu' /\ AddsAnEntry'
    BY <1>1, <1>2 DEF HoldsStoreMu, AddsAnEntry, lockVars
<1>5. WritesCover'
    BY <1>2 DEF WritesCover
<1> QED
    BY <1>3, <1>4, <1>5

LEMMA HistoryUnlock ==
    ASSUME HistoryInv, NEW p \in Procs, pc[p] \in {"write", "blind", "unlock"}, Unlock(p),
           UNCHANGED <<file, old, stamped, booted>>
    PROVE  HistoryInv'
<1> USE DEF HistoryInv
<1>1. CASE op[p] = "migrate"
    <2>1. Goto(p, "removeOld") /\ flock' = NoProc /\ UNCHANGED <<mu, op, entry, mine>>
        BY <1>1 DEF Unlock
    <2>2. flock = p
        BY DEF HistoryTypeOK
    <2>3. /\ pc' \in [Procs -> Stages] /\ pc'[p] = "removeOld"
          /\ \A q \in Procs \ {p} : pc'[q] = pc[q] /\ pc[q] \notin {"write", "blind", "unlock"}
        BY <2>1, <2>2 DEF HistoryTypeOK, Goto, Stages
    <2>4. HistoryTypeOK'
        BY <2>1, <2>3, ConstantsAssumption DEF HistoryTypeOK
    <2>5. HoldsStoreMu' /\ AddsAnEntry' /\ WritesCover'
        BY <2>1, <2>3 DEF HoldsStoreMu, AddsAnEntry, WritesCover
    <2> QED
        BY <2>4, <2>5
<1>2. CASE op[p] # "migrate"
    BY <1>2, HistoryReturn DEF Unlock, HistoryTypeOK
<1> QED
    BY <1>1, <1>2

LEMMA HistoryTimesOut ==
    ASSUME HistoryInv, NEW p \in Procs, LockTimesOut(p)
    PROVE  HistoryInv'
<1> USE DEF HistoryInv
<1>1. CASE op[p] = "migrate"
    <2>1. /\ pc[p] = "lock" /\ Goto(p, "removeOld")
          /\ UNCHANGED <<file, old, stamped, booted, lockVars, op, entry, mine>>
        BY <1>1 DEF LockTimesOut
    <2>2. mu[InstOf[p]] = p
        BY <2>1 DEF HoldsStoreMu
    <2> QED
        BY <2>1, <2>2, HistoryGoes DEF HistoryTypeOK, AddsAnEntry, lockVars
<1>2. CASE op[p] # "migrate"
    BY <1>2, HistoryReturn DEF LockTimesOut, HistoryTypeOK
<1> QED
    BY <1>1, <1>2

LEMMA HistoryCrash ==
    ASSUME HistoryInv, NEW i \in Instances, Crash(i)
    PROVE  HistoryInv'
<1> USE DEF HistoryInv, Crash
<1>1. HistoryTypeOK'
    <2>1. /\ pc' \in [Procs -> Stages] /\ op' \in [Procs -> Ops]
          /\ entry' \in [Procs -> 0..MaxEntries] /\ mine' \in [Procs -> SUBSET Entries]
        BY ConstantsAssumption DEF HistoryTypeOK, Stages, Ops
    <2>2. /\ mu' \in [Instances -> Procs \cup {NoProc}] /\ flock' \in Procs \cup {NoProc}
          /\ booted' \subseteq Instances
        BY DEF HistoryTypeOK
    <2>3. \A q \in Procs : flock' = q <=> pc'[q] \in {"write", "blind", "unlock"}
        BY ConstantsAssumption DEF HistoryTypeOK
    <2> QED
        BY <2>1, <2>2, <2>3 DEF HistoryTypeOK
<1>2. HoldsStoreMu'
    BY ConstantsAssumption DEF HistoryTypeOK, HoldsStoreMu
<1>3. AddsAnEntry' /\ WritesCover'
    BY DEF AddsAnEntry, WritesCover, Covers
<1> QED
    BY <1>1, <1>2, <1>3

LEMMA HistoryStep ==
    ASSUME HistoryInv, [HistoryNext]_historyVars
    PROVE  HistoryInv'
<1>1. ASSUME NEW p \in Procs, Call(p) \/ Step(p) PROVE HistoryInv'
    <2>1. WriteFails(p) \/ Saved(p) => HistoryInv'
        BY HistoryUnlock DEF WriteFails, Saved
    <2> QED
        BY <1>1, <2>1, HistoryCall, HistoryBoot, HistoryAcquire, HistoryLock, HistoryTimesOut,
           HistoryWrite DEF Step
<1>2. ASSUME NEW i \in Instances, Crash(i) PROVE HistoryInv'
    BY <1>2, HistoryCrash
<1>3. ASSUME UNCHANGED historyVars PROVE HistoryInv'
    BY <1>3 DEF historyVars, lockVars, callVars, HistoryInv, HistoryTypeOK, HoldsStoreMu,
       AddsAnEntry, WritesCover, Covers
<1> QED
    BY <1>1, <1>2, <1>3 DEF HistoryNext

(* The invariant of the history holds in every state.                         *)
THEOREM HistoryInvariant == HistorySpec => []HistoryInv
<1>1. HistoryInit => HistoryInv
    BY HistoryInitially
<1>2. HistoryInv /\ [HistoryNext]_historyVars => HistoryInv'
    BY HistoryStep
<1> QED
    BY <1>1, <1>2, PTL DEF HistorySpec

(* The day's file, the calls and both locks keep their types, and the lock    *)
(* file is held exactly by the call between Lock and Unlock                   *)
(* (saveDateFileLocked, WithExclusiveLock).                                   *)
THEOREM HistoryTypes == HistorySpec => []HistoryTypeOK
<1>1. HistoryInv => HistoryTypeOK
    BY DEF HistoryInv
<1> QED
    BY <1>1, HistoryInvariant, PTL

(* Saves of any number of instances that loaded the same file do not undo     *)
(* each other: an entry leaves the file when the history is cleared, when     *)
(* maxPerDay later entries are there (mergeHistoryEntries), or when the call  *)
(* that writes could not read the file under the lock (saveDateFileLocked).   *)
THEOREM HistoryKeepsEntries == HistorySpec => NoEntryLost
<1>1. ASSUME HistoryInv, [HistoryNext]_historyVars
      PROVE  [\A e \in file \ file' :
                 \/ file' = {}
                 \/ Cardinality({f \in file' : f > e}) >= MaxPerDay
                 \/ \E p \in Procs : pc[p] = "blind"]_file
    <2>1. \/ file' = file \/ file' = {}
          \/ \E p \in Procs : pc[p] \in {"write", "blind"} /\ file' = mine[p]
        BY <1>1 DEF HistoryNext, Call, CallAdd, CallDelete, CallClear, Step, MigrateNothing,
           OldUnreadable, ReadOld, RemoveOld, Acquire, Add, DeleteByID, LoadFails, ClearAll, Lock,
           LockUnread, LockTimesOut, Write, WriteFails, Saved, Crash, historyVars
    <2> QED
        BY <1>1, <2>1 DEF HistoryInv, WritesCover, Covers
<1> QED
    BY <1>1, HistoryInvariant, PTL DEF HistorySpec, NoEntryLost
=============================================================================
