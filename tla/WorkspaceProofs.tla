-------------------------- MODULE WorkspaceProofs --------------------------
(* The workspace keeps its store coherent, opens one host twice only through   *)
(* two connects under way at once, and has the tabs of the last session in     *)
(* every save, for any number of saved connections, hosts, tabs and clicks.    *)
EXTENDS Workspace, TLAPS, FiniteSetTheorems

-----------------------------------------------------------------------------
(* Functions on a part of X, and the two sets that ids form: they have a least *)
(* and a greatest member.                                                      *)
PFun(X, T) == UNION {[S -> T] : S \in SUBSET X}
Bounded(S) == \E m \in Nat : S \subseteq 1..m

LEMMA PFunIs ==
    ASSUME NEW X, NEW T, NEW f
    PROVE  f \in PFun(X, T) <=> /\ f = [x \in DOMAIN f |-> f[x]]
                                /\ DOMAIN f \subseteq X
                                /\ \A x \in DOMAIN f : f[x] \in T
<1>1. ASSUME f \in PFun(X, T)
      PROVE  /\ f = [x \in DOMAIN f |-> f[x]] /\ DOMAIN f \subseteq X
             /\ \A x \in DOMAIN f : f[x] \in T
    <2>1. PICK S \in SUBSET X : f \in [S -> T]
        BY <1>1 DEF PFun
    <2> QED
        BY <2>1
<1>2. ASSUME f = [x \in DOMAIN f |-> f[x]], DOMAIN f \subseteq X, \A x \in DOMAIN f : f[x] \in T
      PROVE  f \in PFun(X, T)
    <2>1. f \in [DOMAIN f -> T]
        BY <1>2
    <2> QED
        BY <1>2, <2>1 DEF PFun
<1> QED
    BY <1>1, <1>2

LEMMA LeastOf ==
    ASSUME NEW S, S \subseteq Nat, S # {}
    PROVE  \E x \in S : \A y \in S : x <= y
<1>1. PICK x \in S : \A y \in S : ~(<<y, x>> \in OpToRel(<, Nat))
    BY NatLessThanWellFounded, WFMin
<1>2. \A y \in S : ~(y < x)
    BY <1>1 DEF OpToRel
<1> QED
    BY <1>2

LEMMA GreatestOf ==
    ASSUME NEW S, Bounded(S), S # {}
    PROVE  \E x \in S : \A y \in S : y <= x
<1>1. PICK m \in Nat : S \subseteq 1..m
    BY DEF Bounded
<1> DEFINE T == {k \in Nat : m - k \in S}
<1>2. \A x \in S : x \in Int /\ m - x \in T
    <2>1. \A x \in S : x \in 1..m /\ m - x \in Nat /\ m - (m - x) = x
        BY <1>1
    <2> QED
        BY <2>1
<1>3. PICK t \in T : \A u \in T : t <= u
    BY <1>2, LeastOf
<1>4. m - t \in S /\ t \in Nat
    BY <1>3
<1>5. ASSUME NEW y \in S PROVE y <= m - t
    <2>1. t <= m - y /\ y \in Int
        BY <1>2, <1>3
    <2> QED
        BY <1>4, <2>1
<1> QED
    BY <1>4, <1>5

LEMMA FirstAndLast ==
    ASSUME NEW S, Bounded(S), S # {}
    PROVE  First(S) \in S /\ Last(S) \in S
<1>1. S \subseteq Nat
    BY DEF Bounded
<1> QED
    BY <1>1, LeastOf, GreatestOf DEF First, Last

LEMMA BoundedSets ==
    /\ Bounded({})
    /\ \A x \in Ids : Bounded({x})
    /\ \A S, T : Bounded(S) /\ T \subseteq S => Bounded(T)
    /\ \A S : Bounded(S) => S \subseteq Ids
    /\ \A S : \A x \in Ids : Bounded(S) => Bounded(S \cup {x})
<1>1. Bounded({})
    BY DEF Bounded
<1>2. \A x \in Ids : Bounded({x})
    BY DEF Bounded, Ids
<1>3. \A S, T : Bounded(S) /\ T \subseteq S => Bounded(T)
    BY DEF Bounded
<1>4. \A S : Bounded(S) => S \subseteq Ids
    BY DEF Bounded, Ids
<1>5. ASSUME NEW S, NEW x \in Ids, Bounded(S) PROVE Bounded(S \cup {x})
    <2>1. PICK m \in Nat : S \subseteq 1..m
        BY <1>5 DEF Bounded
    <2>2. m + x \in Nat /\ S \cup {x} \subseteq 1..(m + x)
        BY <2>1 DEF Ids
    <2> QED
        BY <2>2 DEF Bounded
<1> QED
    BY <1>1, <1>2, <1>3, <1>4, <1>5

-----------------------------------------------------------------------------
(* A sound bench has an active tab among its tabs; a sound store has sound     *)
(* benches and is coherent.                                                    *)
SoundBenches ==
    {b \in [tabs : PFun(Ids, Tab), active : Ids, db : Databases \cup {None}] :
        Bounded(DOMAIN b.tabs) /\ b.active \in DOMAIN b.tabs}
Stores == [conns : PFun(Ids, Cfgs), sessions : PFun(Ids, SoundBenches),
           shown : Ids \cup {None}, sel : Ids \cup {None}, root : SoundBenches,
           pending : PFun(Cfgs, SoundBenches)]
SoundStores ==
    {s \in Stores : Bounded(DOMAIN s.conns) /\ RootIsSession(s) /\ SessionPerConn(s)}

LEMMA NoneIsNoId == None \notin Ids /\ None \notin Cfgs /\ None \notin Nat
BY NoneApart DEF Ids

LEMMA SoundIsCoherent == \A s \in SoundStores : Coherent(s)
<1> SUFFICES ASSUME NEW s \in SoundStores PROVE Coherent(s)
    OBVIOUS
<1>1. s.root \in SoundBenches /\ s.sessions \in PFun(Ids, SoundBenches)
    BY DEF SoundStores, Stores
<1>2. \A x \in DOMAIN s.sessions : s.sessions[x] \in SoundBenches
    BY <1>1, PFunIs
<1>3. ActiveIsListed(s)
    BY <1>1, <1>2 DEF ActiveIsListed, SoundBenches
<1> QED
    BY <1>3 DEF Coherent, SoundStores

\* Parts of a function, and a function with one more member.
LEMMA OnlyIs ==
    ASSUME NEW X, NEW T, NEW f \in PFun(X, T), NEW S
    PROVE  /\ S \subseteq DOMAIN f => Only(f, S) \in PFun(X, T)
           /\ DOMAIN Only(f, S) = S
           /\ \A x \in S : Only(f, S)[x] = f[x]
<1>1. DOMAIN Only(f, S) = S /\ \A x \in S : Only(f, S)[x] = f[x]
    BY DEF Only
<1>2. ASSUME S \subseteq DOMAIN f PROVE Only(f, S) \in PFun(X, T)
    <2>1. DOMAIN f \subseteq X /\ \A x \in DOMAIN f : f[x] \in T
        BY PFunIs
    <2>2. Only(f, S) \in [S -> T] /\ S \in SUBSET X
        BY <1>2, <2>1 DEF Only
    <2> QED
        BY <2>2 DEF PFun
<1> QED
    BY <1>1, <1>2

LEMMA WithIs ==
    ASSUME NEW X, NEW T, NEW f \in PFun(X, T), NEW x \in X, NEW v \in T
    PROVE  /\ With(f, x, v) \in PFun(X, T)
           /\ DOMAIN With(f, x, v) = DOMAIN f \cup {x}
           /\ With(f, x, v)[x] = v
           /\ \A y \in DOMAIN f \ {x} : With(f, x, v)[y] = f[y]
<1>1. DOMAIN f \subseteq X /\ \A y \in DOMAIN f : f[y] \in T
    BY PFunIs
<1>2. With(f, x, v) \in [DOMAIN f \cup {x} -> T] /\ DOMAIN f \cup {x} \in SUBSET X
    BY <1>1 DEF With
<1> QED
    BY <1>2 DEF With, PFun

LEMMA ExceptIs ==
    ASSUME NEW X, NEW T, NEW f \in PFun(X, T), NEW x \in DOMAIN f, NEW v \in T
    PROVE  /\ [f EXCEPT ![x] = v] \in PFun(X, T)
           /\ DOMAIN [f EXCEPT ![x] = v] = DOMAIN f
           /\ [f EXCEPT ![x] = v][x] = v
           /\ \A y \in DOMAIN f \ {x} : [f EXCEPT ![x] = v][y] = f[y]
<1>1. PICK S \in SUBSET X : f \in [S -> T]
    BY DEF PFun
<1>2. [f EXCEPT ![x] = v] \in [S -> T]
    BY <1>1
<1> QED
    BY <1>1, <1>2 DEF PFun

-----------------------------------------------------------------------------
(* Benches. *)
LEMMA FreshIsSound ==
    ASSUME NEW c \in Nat \cup {None}, NEW id \in Ids
    PROVE  /\ Fresh(c, id) \in SoundBenches
           /\ \A d \in Databases \cup {None} : [Fresh(c, id) EXCEPT !.db = d] \in SoundBenches
<1> DEFINE one == [x \in {id} |-> NewTab(c)]
<1>1. NewTab(c) \in Tab
    BY BlankIsWork DEF NewTab, Tab
<1>2. one \in [{id} -> Tab] /\ {id} \in SUBSET Ids
    BY <1>1
<1>3. one \in PFun(Ids, Tab) /\ DOMAIN one = {id} /\ Bounded({id})
    BY <1>2, BoundedSets DEF PFun
<1>4. Fresh(c, id) = [tabs |-> one, active |-> id, db |-> None]
    BY DEF Fresh
<1> HIDE DEF one
<1> QED
    BY <1>3, <1>4 DEF SoundBenches

\* A bench made of some tabs of another one.
LEMMA PartIsSound ==
    ASSUME NEW b \in SoundBenches, NEW S, S \subseteq DOMAIN b.tabs, NEW t \in S
    PROVE  /\ [tabs |-> Only(b.tabs, S), active |-> t, db |-> b.db] \in SoundBenches
           /\ DOMAIN Only(b.tabs, S) = S
<1> DEFINE kept == Only(b.tabs, S)
<1>1. /\ b \in [tabs : PFun(Ids, Tab), active : Ids, db : Databases \cup {None}]
      /\ Bounded(DOMAIN b.tabs)
    BY DEF SoundBenches
<1>2. kept \in PFun(Ids, Tab) /\ DOMAIN kept = S
    BY <1>1, OnlyIs
<1>3. Bounded(S) /\ t \in Ids
    BY <1>1, BoundedSets
<1> HIDE DEF kept
<1>4. [tabs |-> kept, active |-> t, db |-> b.db] \in SoundBenches
    BY <1>1, <1>2, <1>3 DEF SoundBenches
<1> QED
    BY <1>2, <1>4 DEF kept

\* A tab list that came from the file keeps its tabs and gets the connection it lacks.
LEMMA PersistedIsSound ==
    ASSUME NEW b \in SoundBenches, NEW c \in Nat, NEW id \in Ids
    PROVE  /\ TabsFromPersisted(b, c, id) \in SoundBenches
           /\ DOMAIN TabsFromPersisted(b, c, id).tabs = DOMAIN b.tabs
<1> DEFINE kept == [x \in DOMAIN b.tabs |->
                      [conn |-> IF b.tabs[x].conn = None THEN c ELSE b.tabs[x].conn,
                       work |-> b.tabs[x].work]]
<1>1. /\ b \in [tabs : PFun(Ids, Tab), active : Ids, db : Databases \cup {None}]
      /\ Bounded(DOMAIN b.tabs) /\ b.active \in DOMAIN b.tabs
    BY DEF SoundBenches
<1>2. DOMAIN b.tabs \subseteq Ids /\ \A x \in DOMAIN b.tabs : b.tabs[x] \in Tab
    BY <1>1, PFunIs
<1>3. kept \in [DOMAIN b.tabs -> Tab]
    BY <1>2 DEF Tab
<1>4. kept \in PFun(Ids, Tab) /\ DOMAIN kept = DOMAIN b.tabs
    BY <1>2, <1>3 DEF PFun
<1>5. TabsFromPersisted(b, c, id) = [tabs |-> kept, active |-> b.active, db |-> b.db]
    BY <1>1 DEF TabsFromPersisted
<1> HIDE DEF kept
<1> QED
    BY <1>1, <1>4, <1>5 DEF SoundBenches

-----------------------------------------------------------------------------
(* Sessions. *)
LEMMA StoreFields ==
    ASSUME NEW s \in SoundStores
    PROVE  /\ s \in Stores /\ Bounded(DOMAIN s.conns) /\ DOMAIN s.sessions = DOMAIN s.conns
           /\ s.conns \in PFun(Ids, Cfgs) /\ s.sessions \in PFun(Ids, SoundBenches)
           /\ s.pending \in PFun(Cfgs, SoundBenches) /\ s.root \in SoundBenches
           /\ s.shown \in Ids \cup {None} /\ s.sel \in Ids \cup {None}
           /\ DOMAIN s.conns \subseteq Ids /\ DOMAIN s.sessions \subseteq Ids
           /\ \A x \in DOMAIN s.conns : s.conns[x] \in Cfgs
           /\ \A x \in DOMAIN s.sessions : s.sessions[x] \in SoundBenches
           /\ DOMAIN s.pending \subseteq Cfgs
           /\ \A x \in DOMAIN s.pending : s.pending[x] \in SoundBenches
           /\ s.shown # None => s.shown \in DOMAIN s.sessions /\ s.sessions[s.shown] = s.root
<1>1. /\ s \in Stores /\ Bounded(DOMAIN s.conns) /\ DOMAIN s.sessions = DOMAIN s.conns
      /\ s.shown # None => s.shown \in DOMAIN s.sessions /\ s.sessions[s.shown] = s.root
    BY DEF SoundStores, RootIsSession, SessionPerConn
<1>2. /\ s.conns \in PFun(Ids, Cfgs) /\ s.sessions \in PFun(Ids, SoundBenches)
      /\ s.pending \in PFun(Cfgs, SoundBenches) /\ s.root \in SoundBenches
      /\ s.shown \in Ids \cup {None} /\ s.sel \in Ids \cup {None}
    BY <1>1 DEF Stores
<1>3. DOMAIN s.conns \subseteq Ids /\ \A x \in DOMAIN s.conns : s.conns[x] \in Cfgs
    BY <1>2, PFunIs
<1>4. /\ DOMAIN s.sessions \subseteq Ids
      /\ \A x \in DOMAIN s.sessions : s.sessions[x] \in SoundBenches
    BY <1>2, PFunIs
<1>5. /\ DOMAIN s.pending \subseteq Cfgs
      /\ \A x \in DOMAIN s.pending : s.pending[x] \in SoundBenches
    BY <1>2, PFunIs
<1> QED
    BY <1>1, <1>2, <1>3, <1>4, <1>5

\* A coherent store has nothing to write back.
LEMMA NothingToSave ==
    ASSUME NEW s \in SoundStores
    PROVE  SaveRootToSession(s) = s
<1>1. CASE s.shown \in DOMAIN s.sessions
    <2>1. s.shown # None
        BY <1>1, StoreFields, NoneIsNoId
    <2>2. s.sessions[s.shown] = s.root /\ s \in Stores
        BY <2>1, StoreFields
    <2>3. s.sessions = [x \in DOMAIN s.sessions |-> s.sessions[x]]
        BY StoreFields, PFunIs
    <2>4. [s.sessions EXCEPT ![s.shown] = s.root] = s.sessions
        BY <1>1, <2>2, <2>3
    <2>5. [s EXCEPT !.sessions[s.shown] = s.root] = s
        BY <2>2, <2>4 DEF Stores
    <2> QED
        BY <1>1, <2>5 DEF SaveRootToSession
<1>2. CASE s.shown \notin DOMAIN s.sessions
    BY <1>2 DEF SaveRootToSession
<1> QED
    BY <1>1, <1>2

\* What every operation on the tabs does to the store.
RootBecomes(s, n, b) ==
    /\ n.conns = s.conns /\ n.pending = s.pending /\ n.shown = s.shown /\ n.sel = s.sel
    /\ n.root = b /\ DOMAIN n.sessions = DOMAIN s.sessions
    /\ \A x \in DOMAIN s.sessions :
            n.sessions[x] = IF x = s.shown THEN b ELSE s.sessions[x]

LEMMA PutRootIs ==
    ASSUME NEW s \in SoundStores, NEW b \in SoundBenches
    PROVE  PutRoot(s, b) \in SoundStores /\ RootBecomes(s, PutRoot(s, b), b)
<1> DEFINE m == [s EXCEPT !.root = b]
<1> DEFINE n == PutRoot(s, b)
<1>1. /\ m \in Stores /\ m.root = b /\ m.conns = s.conns /\ m.sessions = s.sessions
      /\ m.shown = s.shown /\ m.sel = s.sel /\ m.pending = s.pending
    BY StoreFields DEF Stores
<1>2. CASE s.shown \in DOMAIN s.sessions
    <2>1. n = [m EXCEPT !.sessions = [s.sessions EXCEPT ![s.shown] = b]]
        BY <1>1, <1>2 DEF PutRoot, SaveRootToSession
    <2> DEFINE new == [s.sessions EXCEPT ![s.shown] = b]
    <2>2. /\ new \in PFun(Ids, SoundBenches) /\ DOMAIN new = DOMAIN s.sessions
          /\ new[s.shown] = b
          /\ \A y \in DOMAIN s.sessions \ {s.shown} : new[y] = s.sessions[y]
        BY <1>2, StoreFields, ExceptIs
    <2> HIDE DEF new, m
    <2>3. /\ [m EXCEPT !.sessions = new] \in Stores
          /\ [m EXCEPT !.sessions = new].sessions = new
          /\ [m EXCEPT !.sessions = new].root = m.root
          /\ [m EXCEPT !.sessions = new].conns = m.conns
          /\ [m EXCEPT !.sessions = new].shown = m.shown
          /\ [m EXCEPT !.sessions = new].sel = m.sel
          /\ [m EXCEPT !.sessions = new].pending = m.pending
        BY <1>1, <2>2 DEF Stores
    <2>4. n = [m EXCEPT !.sessions = new]
        BY <2>1 DEF new
    <2> HIDE DEF n
    <2>5. /\ n \in Stores /\ n.sessions = new /\ n.root = b /\ n.conns = s.conns
          /\ n.shown = s.shown /\ n.sel = s.sel /\ n.pending = s.pending
        BY <1>1, <2>3, <2>4
    <2>6. n \in SoundStores
        BY <1>2, <2>2, <2>5, StoreFields DEF SoundStores, RootIsSession, SessionPerConn
    <2>7. RootBecomes(s, n, b)
        BY <1>2, <2>2, <2>5 DEF RootBecomes
    <2> QED
        BY <2>6, <2>7 DEF n
<1>3. CASE s.shown \notin DOMAIN s.sessions
    <2>1. n = m
        BY <1>1, <1>3 DEF PutRoot, SaveRootToSession
    <2>2. s.shown = None
        BY <1>3, StoreFields
    <2> HIDE DEF m, n
    <2>3. n \in SoundStores
        BY <1>1, <2>1, <2>2, StoreFields DEF SoundStores, RootIsSession, SessionPerConn
    <2>4. RootBecomes(s, n, b)
        BY <1>1, <1>3, <2>1 DEF RootBecomes
    <2> QED
        BY <2>3, <2>4 DEF n
<1> QED
    BY <1>2, <1>3

\* What showing another session does.
SameRooms(s, n) == n.conns = s.conns /\ n.sessions = s.sessions /\ n.pending = s.pending

LEMMA ShownIs ==
    ASSUME NEW s \in SoundStores, NEW c \in DOMAIN s.sessions, NEW id
    PROVE  /\ SetActiveSession(s, c, id) \in SoundStores
           /\ SameRooms(s, SetActiveSession(s, c, id))
           /\ SetActiveSession(s, c, id).shown = c
           /\ SetActiveSession(s, c, id).sel = c
<1> DEFINE n == SetActiveSession(s, c, id)
<1>1. n = [s EXCEPT !.root = s.sessions[c], !.shown = c, !.sel = c]
    BY NothingToSave DEF SetActiveSession, LoadSessionToRoot
<1>2. c \in Ids /\ s.sessions[c] \in SoundBenches /\ s \in Stores
    BY StoreFields
<1>3. /\ n.root = s.sessions[c] /\ n.shown = c /\ n.sel = c /\ n.conns = s.conns
      /\ n.sessions = s.sessions /\ n.pending = s.pending /\ n \in Stores
    BY <1>1, <1>2 DEF Stores
<1> HIDE DEF n
<1>4. n \in SoundStores
    BY <1>3, StoreFields DEF SoundStores, RootIsSession, SessionPerConn
<1> QED
    BY <1>3, <1>4 DEF n, SameRooms

\* Selecting a connection shows its session, when it has one.
LEMMA SelectedIs ==
    ASSUME NEW s \in SoundStores, NEW c \in Ids, NEW id
    PROVE  /\ SetSelectedConn(s, c, id) \in SoundStores
           /\ SameRooms(s, SetSelectedConn(s, c, id))
<1> DEFINE m == [s EXCEPT !.sel = c]
<1>1. /\ m \in Stores /\ m.sel = c /\ m.root = s.root /\ m.conns = s.conns
      /\ m.sessions = s.sessions /\ m.shown = s.shown /\ m.pending = s.pending
    BY StoreFields DEF Stores
<1>2. SetSelectedConn(s, c, id)
        = IF c # None /\ c \in DOMAIN s.sessions THEN SetActiveSession(m, c, id) ELSE m
    BY DEF SetSelectedConn
<1> HIDE DEF m
<1>3. m \in SoundStores /\ SameRooms(s, m)
    BY <1>1, StoreFields DEF SoundStores, RootIsSession, SessionPerConn, SameRooms
<1>4. CASE c \in DOMAIN s.sessions
    <2>1. c # None
        BY NoneIsNoId
    <2>2. SetActiveSession(m, c, id) \in SoundStores /\ SameRooms(m, SetActiveSession(m, c, id))
        BY <1>1, <1>3, <1>4, ShownIs
    <2> QED
        BY <1>2, <1>3, <1>4, <2>1, <2>2 DEF SameRooms
<1>5. CASE c \notin DOMAIN s.sessions
    BY <1>2, <1>3, <1>5
<1> QED
    BY <1>4, <1>5

\* A new connection shows a session of its own: what waits for it, or one empty tab.
Gains(s, n, c, cfg, saved) ==
    /\ n.pending = s.pending
    /\ DOMAIN n.conns = DOMAIN s.conns \cup {c} /\ n.conns[c] = cfg
    /\ \A x \in DOMAIN s.conns : n.conns[x] = s.conns[x]
    /\ DOMAIN n.sessions = DOMAIN s.sessions \cup {c}
    /\ \A x \in DOMAIN s.sessions : n.sessions[x] = s.sessions[x]
    /\ \A b : saved = {b} => DOMAIN n.sessions[c].tabs = DOMAIN b.tabs

LEMMA AddedIs ==
    ASSUME NEW s \in SoundStores, NEW c \in Ids \ DOMAIN s.conns, NEW cfg \in Cfgs,
           NEW saved \in SUBSET SoundBenches, NEW id \in Ids, NEW n,
           n = AddActiveConnection(s, c, cfg, saved, id)
    PROVE  n \in SoundStores /\ Gains(s, n, c, cfg, saved)
<1> DEFINE conns == With(s.conns, c, cfg)
<1> DEFINE m == [s EXCEPT !.conns = conns]
<1> DEFINE bench == IF saved = {} THEN Fresh(c, id)
                    ELSE TabsFromPersisted(CHOOSE b \in saved : TRUE, c, id)
<1> DEFINE sessions == With(s.sessions, c, bench)
<1>1. /\ conns \in PFun(Ids, Cfgs) /\ DOMAIN conns = DOMAIN s.conns \cup {c}
      /\ conns[c] = cfg /\ \A y \in DOMAIN s.conns : conns[y] = s.conns[y]
    <2>1. s.conns \in PFun(Ids, Cfgs) /\ c \in Ids /\ DOMAIN s.conns \ {c} = DOMAIN s.conns
        BY StoreFields
    <2> HIDE DEF bench, sessions
    <2>2. /\ DOMAIN conns = DOMAIN s.conns \cup {c} /\ conns[c] = cfg
          /\ \A y \in DOMAIN s.conns : conns[y] = s.conns[y]
        BY <2>1 DEF With
    <2>3. conns \in PFun(Ids, Cfgs)
        BY <2>1, WithIs, Zenon
    <2> QED
        BY <2>2, <2>3
<1>2. bench \in SoundBenches
    <2>1. c \in Nat /\ c \in Nat \cup {None}
        BY DEF Ids
    <2>2. Fresh(c, id) \in SoundBenches
        BY <2>1, FreshIsSound
    <2>3. \A b \in SoundBenches : TabsFromPersisted(b, c, id) \in SoundBenches
        BY <2>1, PersistedIsSound
    <2>4. saved # {} => (CHOOSE b \in saved : TRUE) \in SoundBenches
        OBVIOUS
    <2> QED
        BY <2>2, <2>3, <2>4
<1>3. \A b : saved = {b} => DOMAIN bench.tabs = DOMAIN b.tabs
    <2> SUFFICES ASSUME NEW b, saved = {b} PROVE DOMAIN bench.tabs = DOMAIN b.tabs
        OBVIOUS
    <2>1. bench = TabsFromPersisted(b, c, id) /\ b \in SoundBenches /\ c \in Nat
        BY DEF Ids
    <2> HIDE DEF bench
    <2> QED
        BY <2>1, PersistedIsSound
<1> HIDE DEF bench
<1>4. /\ sessions \in PFun(Ids, SoundBenches) /\ DOMAIN sessions = DOMAIN s.sessions \cup {c}
      /\ sessions[c] = bench /\ \A y \in DOMAIN s.sessions : sessions[y] = s.sessions[y]
    <2>1. s.sessions \in PFun(Ids, SoundBenches) /\ c \in Ids
        BY StoreFields
    <2>2. DOMAIN s.sessions \ {c} = DOMAIN s.sessions
        BY StoreFields
    <2> HIDE DEF conns
    <2>3. /\ DOMAIN sessions = DOMAIN s.sessions \cup {c} /\ sessions[c] = bench
          /\ \A y \in DOMAIN s.sessions : sessions[y] = s.sessions[y]
        BY <2>2 DEF With
    <2>4. sessions \in PFun(Ids, SoundBenches)
        BY <1>2, <2>1, WithIs, Zenon
    <2> QED
        BY <2>3, <2>4
<1> HIDE DEF conns, sessions
<1>5. /\ m \in Stores /\ m.conns = conns /\ m.sessions = s.sessions /\ m.root = s.root
      /\ m.shown = s.shown /\ m.sel = s.sel /\ m.pending = s.pending
    BY <1>1, StoreFields DEF Stores
<1>6. SaveRootToSession(m) = m
    <2>1. m.sessions[m.shown] = m.root \/ m.shown \notin DOMAIN m.sessions
        BY <1>5, StoreFields, NoneIsNoId
    <2>2. m.sessions = [x \in DOMAIN m.sessions |-> m.sessions[x]]
        BY <1>5, StoreFields, PFunIs
    <2>3. ASSUME m.shown \in DOMAIN m.sessions
          PROVE  [m.sessions EXCEPT ![m.shown] = m.root] = m.sessions
        BY <2>1, <2>2, <2>3
    <2> HIDE DEF m
    <2>4. ASSUME m.shown \in DOMAIN m.sessions
          PROVE  [m EXCEPT !.sessions[m.shown] = m.root] = m
        BY <1>5, <2>3, <2>4 DEF Stores
    <2> QED
        BY <2>4 DEF SaveRootToSession
<1>7. n = [m EXCEPT !.sessions = sessions, !.root = bench, !.shown = c, !.sel = c]
    <2>1. c \notin DOMAIN m.sessions
        BY <1>5, StoreFields
    <2>2. n = AddSession(m, c, saved, id)
        BY DEF AddActiveConnection, conns
    <2> HIDE DEF m
    <2> QED
        BY <1>5, <1>6, <2>1, <2>2 DEF AddSession, bench, sessions
<1> HIDE DEF m
<1>8. /\ n.conns = conns /\ n.sessions = sessions /\ n.root = bench /\ n.shown = c /\ n.sel = c
      /\ n.pending = s.pending /\ n \in Stores
    BY <1>2, <1>4, <1>5, <1>7 DEF Stores
<1>9. Bounded(DOMAIN n.conns)
    BY <1>1, <1>8, StoreFields, BoundedSets
<1>10. n \in SoundStores
    BY <1>1, <1>4, <1>8, <1>9, StoreFields DEF SoundStores, RootIsSession, SessionPerConn
<1> QED
    BY <1>1, <1>3, <1>4, <1>8, <1>10 DEF Gains

\* A closed connection takes its session along; another one is shown, if there is one.
Loses(s, n, c) ==
    /\ n.pending = s.pending
    /\ DOMAIN n.conns = DOMAIN s.conns \ {c}
    /\ \A x \in DOMAIN s.conns \ {c} : n.conns[x] = s.conns[x]
    /\ DOMAIN n.sessions = DOMAIN s.sessions \ {c}
    /\ \A x \in DOMAIN s.sessions \ {c} : n.sessions[x] = s.sessions[x]

LEMMA RemovedIs ==
    ASSUME NEW s \in SoundStores, NEW c, NEW id \in Ids, NEW n,
           n = RemoveActiveConnection(s, c, id)
    PROVE  n \in SoundStores /\ Loses(s, n, c)
<1> DEFINE conns == Only(s.conns, DOMAIN s.conns \ {c})
<1> DEFINE sessions == Only(s.sessions, DOMAIN s.sessions \ {c})
<1> DEFINE m == [s EXCEPT !.conns = conns]
<1> DEFINE left == [m EXCEPT !.sessions = sessions]
<1>1. /\ conns \in PFun(Ids, Cfgs) /\ DOMAIN conns = DOMAIN s.conns \ {c}
      /\ \A y \in DOMAIN s.conns \ {c} : conns[y] = s.conns[y]
    BY StoreFields, OnlyIs
<1>2. /\ sessions \in PFun(Ids, SoundBenches) /\ DOMAIN sessions = DOMAIN s.sessions \ {c}
      /\ \A y \in DOMAIN s.sessions \ {c} : sessions[y] = s.sessions[y]
    BY StoreFields, OnlyIs
<1>3. n = RemoveSession(m, c, id)
    BY DEF RemoveActiveConnection
<1>4. m.sessions = s.sessions
    BY StoreFields DEF Stores
<1> HIDE DEF conns, sessions
<1>5. /\ m \in Stores /\ m.conns = conns /\ m.sessions = s.sessions /\ m.root = s.root
      /\ m.shown = s.shown /\ m.sel = s.sel /\ m.pending = s.pending
    BY <1>1, StoreFields DEF Stores
<1> HIDE DEF m
<1>6. /\ left \in Stores /\ left.conns = conns /\ left.sessions = sessions
      /\ left.root = s.root /\ left.shown = s.shown /\ left.sel = s.sel
      /\ left.pending = s.pending
    BY <1>2, <1>5 DEF Stores
<1>7. left = [m EXCEPT !.sessions = Only(m.sessions, DOMAIN m.sessions \ {c})]
    BY <1>4 DEF sessions
<1> HIDE DEF left
<1>8. Bounded(DOMAIN conns)
    BY <1>1, StoreFields, BoundedSets
<1> DEFINE Rest == DOMAIN left.sessions
<1> DEFINE next == IF Rest = {} THEN None ELSE Last(Rest)
<1>9. Rest # {} => next \in Rest
    <2>1. Bounded(Rest)
        BY <1>1, <1>2, <1>6, <1>8, StoreFields
    <2> QED
        BY <2>1, FirstAndLast
<1>10. n = IF s.shown # c THEN left
           ELSE [left EXCEPT !.root = LoadSessionToRoot(left, next, id),
                             !.shown = next, !.sel = next]
    BY <1>3, <1>5, <1>7 DEF RemoveSession
<1>11. CASE s.shown # c
    <2>1. n = left
        BY <1>10, <1>11
    <2>2. n \in SoundStores
        BY <1>1, <1>2, <1>6, <1>8, <1>11, <2>1, StoreFields
        DEF SoundStores, RootIsSession, SessionPerConn
    <2> QED
        BY <1>1, <1>2, <1>6, <2>1, <2>2 DEF Loses
<1>12. CASE s.shown = c
    <2> DEFINE root == LoadSessionToRoot(left, next, id)
    <2>1. root \in SoundBenches /\ (next \in Rest => root = left.sessions[next])
        <3>1. CASE next \in Rest
            <4>1. left.sessions[next] \in SoundBenches
                BY <1>6, <1>2, <3>1, PFunIs
            <4> QED
                BY <3>1, <4>1 DEF LoadSessionToRoot
        <3>2. CASE next \notin Rest
            <4>1. Fresh(None, id) \in SoundBenches
                BY FreshIsSound
            <4> QED
                BY <3>2, <4>1 DEF LoadSessionToRoot
        <3> QED
            BY <3>1, <3>2
    <2>2. next \in Rest \cup {None}
        BY <1>9
    <2>3. n = [left EXCEPT !.root = root, !.shown = next, !.sel = next]
        BY <1>10, <1>12
    <2>4. next \in Ids \cup {None} /\ (next # None => next \in Rest)
        BY <1>2, <1>6, <2>2, StoreFields
    <2> HIDE DEF root, next
    <2>5. /\ n \in Stores /\ n.conns = conns /\ n.sessions = sessions /\ n.root = root
          /\ n.shown = next /\ n.pending = s.pending
        BY <1>6, <2>1, <2>3, <2>4 DEF Stores
    <2>6. n \in SoundStores
        BY <1>1, <1>2, <1>6, <1>8, <2>1, <2>4, <2>5, StoreFields
        DEF SoundStores, RootIsSession, SessionPerConn
    <2> QED
        BY <1>1, <1>2, <2>5, <2>6 DEF Loses
<1> QED
    BY <1>11, <1>12

-----------------------------------------------------------------------------
(* The tabs of the session that is shown. *)
LEMMA RootStays ==
    ASSUME NEW s \in SoundStores
    PROVE  RootBecomes(s, s, s.root)
BY StoreFields, NoneIsNoId DEF RootBecomes

LEMMA BenchFields ==
    ASSUME NEW b \in SoundBenches
    PROVE  /\ b \in [tabs : PFun(Ids, Tab), active : Ids, db : Databases \cup {None}]
           /\ b.tabs \in PFun(Ids, Tab) /\ b.active \in DOMAIN b.tabs /\ b.active \in Ids
           /\ b.db \in Databases \cup {None} /\ Bounded(DOMAIN b.tabs)
           /\ DOMAIN b.tabs \subseteq Ids /\ \A x \in DOMAIN b.tabs : b.tabs[x] \in Tab
<1>1. /\ b \in [tabs : PFun(Ids, Tab), active : Ids, db : Databases \cup {None}]
      /\ Bounded(DOMAIN b.tabs) /\ b.active \in DOMAIN b.tabs
    BY DEF SoundBenches
<1>2. b.tabs \in PFun(Ids, Tab) /\ b.active \in Ids /\ b.db \in Databases \cup {None}
    BY <1>1
<1> QED
    BY <1>1, <1>2, PFunIs

LEMMA MadeTabIs ==
    ASSUME NEW s \in SoundStores, NEW id \in Ids, NEW n, n = AddTab(s, None, id)
    PROVE  /\ n \in SoundStores /\ RootBecomes(s, n, n.root)
           /\ DOMAIN n.root.tabs = DOMAIN s.root.tabs \cup {id}
<1> DEFINE tabs == With(s.root.tabs, id, NewTab(s.sel))
<1> DEFINE b == [tabs |-> tabs, active |-> id, db |-> s.root.db]
<1>1. s.root \in SoundBenches /\ s.sel \in Nat \cup {None}
    BY StoreFields DEF Ids
<1>2. NewTab(s.sel) \in Tab
    BY <1>1, BlankIsWork DEF NewTab, Tab
<1>3. tabs \in PFun(Ids, Tab)
    BY <1>1, <1>2, BenchFields, WithIs, Zenon
<1>4. DOMAIN tabs = DOMAIN s.root.tabs \cup {id}
    BY DEF With
<1>5. n = PutRoot(s, b)
    BY DEF AddTab
<1> HIDE DEF tabs
<1>6. Bounded(DOMAIN tabs)
    BY <1>1, <1>4, BenchFields, BoundedSets
<1>7. b \in SoundBenches
    <2>1. id \in DOMAIN tabs /\ s.root.db \in Databases \cup {None}
        BY <1>1, <1>4, BenchFields
    <2> QED
        BY <1>3, <1>6, <2>1 DEF SoundBenches
<1>8. b.tabs = tabs
    OBVIOUS
<1> HIDE DEF b
<1>9. n \in SoundStores /\ RootBecomes(s, n, b)
    BY <1>5, <1>7, PutRootIs
<1>10. n.root = b
    BY <1>9 DEF RootBecomes
<1> QED
    BY <1>4, <1>8, <1>9, <1>10

LEMMA KeptTabsAre ==
    ASSUME NEW s \in SoundStores, NEW S, S \subseteq DOMAIN s.root.tabs, NEW t \in S
    PROVE  /\ KeepTabs(s, S, t) \in SoundStores
           /\ RootBecomes(s, KeepTabs(s, S, t), KeepTabs(s, S, t).root)
           /\ DOMAIN KeepTabs(s, S, t).root.tabs = S
<1> DEFINE b == [tabs |-> Only(s.root.tabs, S), active |-> t, db |-> s.root.db]
<1> DEFINE n == KeepTabs(s, S, t)
<1>1. s.root \in SoundBenches
    BY StoreFields
<1>2. b \in SoundBenches /\ DOMAIN b.tabs = S
    BY <1>1, PartIsSound
<1>3. n = PutRoot(s, b)
    BY DEF KeepTabs
<1> HIDE DEF b, n
<1>4. n \in SoundStores /\ RootBecomes(s, n, b)
    BY <1>2, <1>3, PutRootIs
<1>5. n.root = b
    BY <1>4 DEF RootBecomes
<1> QED
    BY <1>2, <1>4, <1>5 DEF n

\* Closing tabs, one, all but the first, or those to the right, leaves an active one.
LEMMA ClosedTabsAre ==
    ASSUME NEW s \in SoundStores, NEW t \in DOMAIN s.root.tabs, NEW id \in Ids, NEW n,
           n \in {CloseTab(s, t, id), CloseAllTabs(s), CloseTabsToRight(s, t)}
    PROVE  n \in SoundStores /\ RootBecomes(s, n, n.root)
<1> DEFINE all == DOMAIN s.root.tabs
<1>1. s.root \in SoundBenches
    BY StoreFields
<1>2. Bounded(all) /\ s.root.active \in all
    BY <1>1, BenchFields
<1>3. CASE n = CloseTab(s, t, id)
    <2> DEFINE left == all \ {t}
    <2>1. CASE left = {}
        <3> DEFINE b == [Fresh(s.sel, id) EXCEPT !.db = s.root.db]
        <3>1. s.sel \in Nat \cup {None} /\ s.root.db \in Databases \cup {None}
            BY <1>1, StoreFields, BenchFields DEF Ids
        <3>2. b \in SoundBenches
            BY <3>1, FreshIsSound
        <3>3. n = PutRoot(s, b)
            BY <1>3, <2>1 DEF CloseTab
        <3> HIDE DEF b
        <3>4. n \in SoundStores /\ RootBecomes(s, n, b)
            BY <3>2, <3>3, PutRootIs
        <3> QED
            BY <3>4 DEF RootBecomes
    <2>2. CASE left # {}
        <3> DEFINE active == IF s.root.active = t THEN Last(left) ELSE s.root.active
        <3>1. Bounded(left)
            BY <1>2, BoundedSets
        <3>2. active \in left
            BY <1>2, <2>2, <3>1, FirstAndLast
        <3>3. n = KeepTabs(s, left, active)
            BY <1>3, <2>2 DEF CloseTab, KeepTabs
        <3>4. left \subseteq DOMAIN s.root.tabs
            OBVIOUS
        <3> HIDE DEF left, active
        <3> QED
            BY <3>2, <3>3, <3>4, KeptTabsAre
    <2> QED
        BY <2>1, <2>2
<1>4. CASE n = CloseAllTabs(s)
    <2> DEFINE first == First(all)
    <2>1. first \in all
        BY <1>2, FirstAndLast
    <2>2. n = s \/ n = KeepTabs(s, {first}, first)
        BY <1>4 DEF CloseAllTabs
    <2>3. {first} \subseteq DOMAIN s.root.tabs /\ first \in {first}
        BY <2>1
    <2> HIDE DEF first
    <2> QED
        BY <2>2, <2>3, KeptTabsAre, RootStays
<1>5. CASE n = CloseTabsToRight(s, t)
    <2> DEFINE left == {x \in all : x <= t}
    <2> DEFINE active == IF s.root.active \in left THEN s.root.active ELSE t
    <2>1. t \in Ids
        BY <1>1, BenchFields
    <2>2. active \in left /\ left \subseteq DOMAIN s.root.tabs
        BY <2>1 DEF Ids
    <2>3. n = s \/ n = KeepTabs(s, left, active)
        BY <1>5 DEF CloseTabsToRight
    <2> HIDE DEF left, active
    <2> QED
        BY <2>2, <2>3, KeptTabsAre, RootStays
<1> QED
    BY <1>3, <1>4, <1>5

\* Picking a tab, typing into one and choosing a database leave the list of tabs alone.
LEMMA EditedIs ==
    ASSUME NEW s \in SoundStores, NEW n,
           \/ \E t \in DOMAIN s.root.tabs : n = SetActiveTab(s, t)
           \/ \E d \in Databases : n = SetSelectedDatabase(s, d)
           \/ \E w \in Works : n = UpdateTab(s, s.root.active, w)
    PROVE  /\ n \in SoundStores /\ RootBecomes(s, n, n.root)
           /\ DOMAIN n.root.tabs = DOMAIN s.root.tabs
<1>1. s.root \in SoundBenches
    BY StoreFields
<1>2. \E b \in SoundBenches : n = PutRoot(s, b) /\ DOMAIN b.tabs = DOMAIN s.root.tabs
    <2>1. CASE \E t \in DOMAIN s.root.tabs : n = SetActiveTab(s, t)
        <3>1. PICK t \in DOMAIN s.root.tabs : n = SetActiveTab(s, t)
            BY <2>1
        <3> DEFINE b == [s.root EXCEPT !.active = t]
        <3>2. n = PutRoot(s, b)
            BY <3>1 DEF SetActiveTab
        <3>3. t \in Ids
            BY <1>1, BenchFields
        <3>4. b \in SoundBenches /\ b.tabs = s.root.tabs
            BY <1>1, <3>3, BenchFields DEF SoundBenches
        <3> QED
            BY <3>2, <3>4
    <2>2. CASE \E d \in Databases : n = SetSelectedDatabase(s, d)
        <3>1. PICK d \in Databases : n = SetSelectedDatabase(s, d)
            BY <2>2
        <3> DEFINE b == [s.root EXCEPT !.db = d]
        <3>2. n = PutRoot(s, b)
            BY <3>1 DEF SetSelectedDatabase
        <3>3. b \in SoundBenches /\ b.tabs = s.root.tabs
            BY <1>1, BenchFields DEF SoundBenches
        <3> QED
            BY <3>2, <3>3
    <2>3. CASE \E w \in Works : n = UpdateTab(s, s.root.active, w)
        <3>1. PICK w \in Works : n = UpdateTab(s, s.root.active, w)
            BY <2>3
        <3> DEFINE t == s.root.active
        <3> DEFINE tab == [s.root.tabs[t] EXCEPT !.work = w]
        <3> DEFINE tabs == [s.root.tabs EXCEPT ![t] = tab]
        <3> DEFINE b == [s.root EXCEPT !.tabs = tabs]
        <3>2. t \in DOMAIN s.root.tabs /\ s.root.tabs[t] \in Tab /\ s.root.tabs \in PFun(Ids, Tab)
            BY <1>1, BenchFields
        <3>3. n = PutRoot(s, [s.root EXCEPT !.tabs[t].work = w])
            BY <3>1, <3>2 DEF UpdateTab
        <3>4. tab \in Tab
            BY <3>2 DEF Tab
        <3>5. [s.root EXCEPT !.tabs[t].work = w] = b
            OBVIOUS
        <3> HIDE DEF tab
        <3>6. tabs \in PFun(Ids, Tab) /\ DOMAIN tabs = DOMAIN s.root.tabs
            BY <3>2, <3>4, ExceptIs
        <3> HIDE DEF tabs
        <3>7. b \in SoundBenches /\ b.tabs = tabs
            BY <1>1, <3>6, BenchFields DEF SoundBenches
        <3> QED
            BY <3>3, <3>5, <3>6, <3>7
    <2> QED
        BY <2>1, <2>2, <2>3
<1>3. PICK b \in SoundBenches : n = PutRoot(s, b) /\ DOMAIN b.tabs = DOMAIN s.root.tabs
    BY <1>2
<1>4. n \in SoundStores /\ RootBecomes(s, n, b)
    BY <1>3, PutRootIs
<1> QED
    BY <1>3, <1>4 DEF RootBecomes

-----------------------------------------------------------------------------
(* The benches that wait. *)
LEMMA PendingIs ==
    ASSUME NEW s \in SoundStores, NEW map \in PFun(Cfgs, SoundBenches), NEW n,
           n = SetPendingByCfgId(s, map)
    PROVE  /\ n \in SoundStores /\ n.pending = map /\ n.conns = s.conns
           /\ n.sessions = s.sessions /\ n.shown = s.shown /\ n.root = s.root /\ n.sel = s.sel
<1>1. /\ n \in Stores /\ n.pending = map /\ n.conns = s.conns /\ n.sessions = s.sessions
      /\ n.shown = s.shown /\ n.root = s.root /\ n.sel = s.sel
    BY StoreFields DEF SetPendingByCfgId, Stores
<1> QED
    BY <1>1, StoreFields DEF SoundStores, RootIsSession, SessionPerConn

LEMMA ConsumedIs ==
    ASSUME NEW s \in SoundStores, NEW cfg, NEW n, n = ConsumePendingByCfg(s, cfg)
    PROVE  /\ n \in SoundStores /\ n.conns = s.conns /\ n.sessions = s.sessions
           /\ n.shown = s.shown /\ n.root = s.root /\ n.sel = s.sel
           /\ DOMAIN n.pending = DOMAIN s.pending \ {cfg}
           /\ \A x \in DOMAIN s.pending \ {cfg} : n.pending[x] = s.pending[x]
<1> DEFINE map == Only(s.pending, DOMAIN s.pending \ {cfg})
<1>1. /\ map \in PFun(Cfgs, SoundBenches) /\ DOMAIN map = DOMAIN s.pending \ {cfg}
      /\ \A x \in DOMAIN s.pending \ {cfg} : map[x] = s.pending[x]
    BY StoreFields, OnlyIs
<1>2. n = SetPendingByCfgId(s, map)
    BY DEF ConsumePendingByCfg, SetPendingByCfgId
<1> HIDE DEF map
<1> QED
    BY <1>1, <1>2, PendingIs

LEMMA EmptyIsSound ==
    ASSUME NEW id \in Ids
    PROVE  EmptyStore(id) \in SoundStores
<1>1. \A X, T : <<>> \in PFun(X, T)
    BY DEF PFun
<1>2. DOMAIN <<>> = {}
    OBVIOUS
<1>3. Fresh(None, id) \in SoundBenches
    BY FreshIsSound
<1>4. EmptyStore(id) \in Stores
    BY <1>1, <1>3 DEF EmptyStore, Stores
<1> QED
    BY <1>2, <1>4, BoundedSets DEF EmptyStore, SoundStores, RootIsSession, SessionPerConn

-----------------------------------------------------------------------------
(* The invariant, in parts. *)
Files == [perConnection : PFun(Cfgs, SoundBenches), activeCfgIds : SUBSET Cfgs,
          selectedCfgId : Cfgs \cup {None}]

StoreSound ==
    /\ st \in SoundStores /\ nextConn \in Ids /\ nextTab \in Ids
    /\ \A c \in DOMAIN st.conns : c < nextConn
    /\ file = NoFile \/ file \in Files
    /\ walk.found \in Ids \cup {None}

\* The loop and what it tells the status bar.
WalkShape ==
    /\ walk \in Walk /\ restore \in Restore
    /\ walk.pc \in {"next", "connect"} => restore.phase \in {"restoring", "retrying"}
    /\ walk.pc \in {"rest", "load"} => walk.todo = {}
    /\ (walk.pc = "connect") = (walk.cfg \in Cfgs)
    /\ walk.cfg \notin walk.todo

\* What is still tried, and what is left to retry.
Tried == walk.todo \cup restore.failed \cup ({walk.cfg} \cap Cfgs)
Budget == restore.succeeded + Cardinality(Tried) <= restore.total

OthersShape ==
    /\ host \in Hostings /\ up \in BOOLEAN /\ timer \in BOOLEAN
    /\ opens \in [Clicks -> Cfgs \cup {None}] /\ closing \subseteq Ids /\ acts \in 0..MaxActs

Shapes == StoreSound /\ WalkShape /\ Budget /\ OthersShape

\* A connect that is under way found its host free, or was not alone.
WalkIsAlone ==
    walk.cfg \in Cfgs =>
        \A c \in DOMAIN st.conns :
            (host[st.conns[c]] = host[walk.cfg] => host[walk.cfg] \in raced)
ClicksAreAlone ==
    \A q \in Clicks : opens[q] \in Cfgs =>
        \A c \in DOMAIN st.conns :
            (host[st.conns[c]] = host[opens[q]] => host[opens[q]] \in raced)
TwoUnderWay ==
    /\ \A q \in Clicks : (/\ opens[q] \in Cfgs /\ walk.cfg \in Cfgs
                          /\ host[opens[q]] = host[walk.cfg]) => host[walk.cfg] \in raced
    /\ \A q, r \in Clicks : (/\ q # r /\ opens[q] \in Cfgs /\ opens[r] \in Cfgs
                             /\ host[opens[q]] = host[opens[r]]) => host[opens[q]] \in raced
Races == TwinsOnlyByRace /\ WalkIsAlone /\ ClicksAreAlone /\ TwoUnderWay

\* Where the tabs of the last session are: they wait whole for their connection, or are in
\* the one session it has, but for those somebody closed.
Waits(cfg) == /\ cfg \in DOMAIN st.pending /\ cfg \notin OpenCfgs(st)
              /\ DOMAIN st.pending[cfg].tabs = DOMAIN loaded[cfg].tabs
Lives(cfg) == /\ cfg \notin DOMAIN st.pending
              /\ \E c \in DOMAIN st.conns :
                    /\ ConnsOf(st, cfg) = {c}
                    /\ DOMAIN loaded[cfg].tabs \ gone \subseteq DOMAIN st.sessions[c].tabs
Closed(cfg) == DOMAIN loaded[cfg].tabs \subseteq gone
WorkIsSomewhere ==
    \A cfg \in DOMAIN loaded \ loose :
        Waits(cfg) \/ (cfg \notin Tried /\ (Lives(cfg) \/ Closed(cfg)))

IInv == Shapes /\ Races /\ WorkIsSomewhere

-----------------------------------------------------------------------------
(* Lemmas about the operators of the workspace. *)
LEMMA DuplicateIs ==
    ASSUME st \in SoundStores, NEW cfg
    PROVE  /\ FindActiveDuplicate(cfg) = None <=> Dups(cfg) = {}
           /\ FindActiveDuplicate(cfg) # None =>
                 /\ FindActiveDuplicate(cfg) \in DOMAIN st.sessions
                 /\ FindActiveDuplicate(cfg) \in Ids
<1>1. Dups(cfg) \subseteq DOMAIN st.conns
    BY DEF Dups
<1>2. DOMAIN st.conns = DOMAIN st.sessions /\ DOMAIN st.conns \subseteq Ids
    BY StoreFields
<1>3. Bounded(Dups(cfg))
    BY <1>1, StoreFields, BoundedSets
<1>4. CASE Dups(cfg) = {}
    BY <1>4 DEF FindActiveDuplicate
<1>5. CASE Dups(cfg) # {}
    <2>1. FindActiveDuplicate(cfg) \in Dups(cfg)
        BY <1>3, <1>5, FirstAndLast DEF FindActiveDuplicate
    <2> QED
        BY <1>1, <1>2, <1>5, <2>1, NoneIsNoId
<1> QED
    BY <1>4, <1>5

LEMMA SavedIs ==
    ASSUME NEW s \in SoundStores
    PROVE  /\ DoSave(s) \in Files
           /\ \A cfg \in DOMAIN s.pending :
                 /\ cfg \in DoSave(s).activeCfgIds
                 /\ ConnsOf(s, cfg) = {} => DoSave(s).perConnection[cfg] = s.pending[cfg]
           /\ \A cfg \in Cfgs : \A c : ConnsOf(s, cfg) = {c} =>
                 /\ cfg \in DoSave(s).activeCfgIds
                 /\ DoSave(s).perConnection[cfg] = s.sessions[c]
<1> DEFINE open == {cfg \in Cfgs : ConnsOf(s, cfg) # {}}
<1> DEFINE per == [cfg \in open \cup DOMAIN s.pending |->
                     IF cfg \in open THEN s.sessions[Last(ConnsOf(s, cfg))] ELSE s.pending[cfg]]
<1> DEFINE sel == IF s.sel \in DOMAIN s.conns THEN s.conns[s.sel] ELSE None
<1>1. DoSave(s) = [perConnection |-> per, activeCfgIds |-> OpenCfgs(s) \cup DOMAIN s.pending,
                   selectedCfgId |-> sel]
    BY NothingToSave DEF DoSave
<1>2. ASSUME NEW cfg, ConnsOf(s, cfg) # {}
      PROVE  Last(ConnsOf(s, cfg)) \in ConnsOf(s, cfg)
    <2>1. Bounded(ConnsOf(s, cfg))
        BY StoreFields, BoundedSets DEF ConnsOf
    <2> QED
        BY <1>2, <2>1, FirstAndLast
<1>3. per \in [open \cup DOMAIN s.pending -> SoundBenches]
    <2>1. ASSUME NEW cfg \in open PROVE s.sessions[Last(ConnsOf(s, cfg))] \in SoundBenches
        <3>1. Last(ConnsOf(s, cfg)) \in DOMAIN s.sessions
            BY <1>2 DEF ConnsOf
        <3> QED
            BY <3>1, StoreFields
    <2>2. \A cfg \in DOMAIN s.pending : s.pending[cfg] \in SoundBenches
        BY StoreFields
    <2> HIDE DEF open
    <2> QED
        BY <2>1, <2>2
<1>4. open \cup DOMAIN s.pending \in SUBSET Cfgs
    BY StoreFields
<1>5. per \in PFun(Cfgs, SoundBenches)
    <2> HIDE DEF per, open
    <2> QED
        BY <1>3, <1>4 DEF PFun
<1>6. OpenCfgs(s) \subseteq Cfgs /\ DOMAIN s.pending \subseteq Cfgs /\ sel \in Cfgs \cup {None}
    BY StoreFields DEF OpenCfgs
<1>7. DoSave(s) \in Files
    <2> HIDE DEF per, sel
    <2> QED
        BY <1>1, <1>5, <1>6 DEF Files
<1>8. ASSUME NEW cfg \in DOMAIN s.pending
      PROVE  /\ cfg \in DoSave(s).activeCfgIds
             /\ ConnsOf(s, cfg) = {} => DoSave(s).perConnection[cfg] = s.pending[cfg]
    BY <1>1
<1>9. ASSUME NEW cfg \in Cfgs, NEW c, ConnsOf(s, cfg) = {c}
      PROVE  cfg \in DoSave(s).activeCfgIds /\ DoSave(s).perConnection[cfg] = s.sessions[c]
    <2>1. Last(ConnsOf(s, cfg)) = c
        BY <1>2, <1>9
    <2>2. cfg \in OpenCfgs(s)
        BY <1>9 DEF ConnsOf, OpenCfgs
    <2>3. cfg \in open
        BY <1>9
    <2>4. per[cfg] = s.sessions[c]
        BY <2>1, <2>3
    <2>5. DoSave(s).perConnection = per /\ cfg \in DoSave(s).activeCfgIds
        BY <1>1, <2>2
    <2> QED
        BY <2>4, <2>5
<1> QED
    BY <1>7, <1>8, <1>9

LEMMA Counted ==
    ASSUME NEW S \in SUBSET Cfgs
    PROVE  /\ Cardinality(S) \in Nat
           /\ \A x \in S : Cardinality(S \ {x}) = Cardinality(S) - 1
<1>1. IsFiniteSet(S)
    BY CfgsAreFinite, FS_Subset
<1>2. Cardinality(S) \in Nat
    BY <1>1, FS_CardinalityType
<1>3. \A x \in S : Cardinality(S \ {x}) = Cardinality(S) - 1
    BY <1>1, FS_RemoveElement
<1> QED
    BY <1>2, <1>3

\* The tabs of an old file can be numbered, and its benches are sound.
LEMMA NumberingExists == Numberings # {}
<1> DEFINE n == Cardinality(Cfgs)
<1>1. PICK f \in Bijection(1..n, Cfgs) : TRUE
    BY CfgsAreFinite, FS_CardinalityType DEF ExistsBijection
<1>2. /\ f \in [1..n -> Cfgs]
      /\ \A i, j \in 1..n : f[i] = f[j] => i = j
      /\ \A c \in Cfgs : \E i \in 1..n : f[i] = c
    BY <1>1 DEF Bijection, Injection, Surjection, IsInjective
<1> DEFINE g == [c \in Cfgs |-> CHOOSE i \in 1..n : f[i] = c]
<1>3. \A c \in Cfgs : g[c] \in 1..n /\ f[g[c]] = c
    BY <1>2
<1>4. g \in [Cfgs -> 1..n]
    BY <1>3
<1>5. \A c, d \in Cfgs : g[c] = g[d] => c = d
    BY <1>3
<1> HIDE DEF g
<1> QED
    BY <1>4, <1>5 DEF Numberings

LEMMA OldFileIsSound ==
    ASSUME NEW number \in Numberings
    PROVE  OldFile(number) \in Files
<1>1. number \in [Cfgs -> Ids]
    <2>1. number \in [Cfgs -> 1..Cardinality(Cfgs)] /\ Cardinality(Cfgs) \in Nat
        BY CfgsAreFinite, FS_CardinalityType DEF Numberings
    <2> QED
        BY <2>1 DEF Ids
<1>2. ASSUME NEW t \in Ids PROVE OldBench(t) \in SoundBenches
    <2> DEFINE tabs == [x \in {t} |-> [conn |-> OldConn, work |-> Typed]]
    <2>1. tabs \in [{t} -> Tab] /\ {t} \in SUBSET Ids
        BY TypedIsWork DEF Tab, OldConn
    <2>2. tabs \in PFun(Ids, Tab) /\ DOMAIN tabs = {t}
        BY <2>1 DEF PFun
    <2>3. Bounded({t})
        BY BoundedSets
    <2>4. OldBench(t) = [tabs |-> tabs, active |-> t, db |-> None]
        BY DEF OldBench
    <2> HIDE DEF tabs
    <2> QED
        BY <2>2, <2>3, <2>4 DEF SoundBenches
<1> DEFINE per == [c \in DOMAIN number |-> OldBench(number[c])]
<1>3. per \in [Cfgs -> SoundBenches]
    BY <1>1, <1>2
<1>4. per \in PFun(Cfgs, SoundBenches)
    <2> HIDE DEF per
    <2> QED
        BY <1>3 DEF PFun
<1>5. DOMAIN number = Cfgs /\ (CHOOSE c \in DOMAIN number : TRUE) \in Cfgs
    BY <1>1, CfgsAreFinite
<1> HIDE DEF per
<1> QED
    BY <1>4, <1>5 DEF OldFile, Files, per

-----------------------------------------------------------------------------
(* It holds at the start. *)
LEMMA NoRestoreIs ==
    /\ NoRestore \in Restore /\ NoRestore.phase = "idle" /\ NoRestore.failed = {}
    /\ NoRestore.succeeded = 0 /\ NoRestore.total = 0
BY DEF NoRestore, Restore, Phases

LEMMA InitHolds == Init => IInv
<1> SUFFICES ASSUME Init PROVE IInv
    OBVIOUS
<1> DEFINE n == Cardinality(Cfgs)
<1>1. n \in Nat /\ Cardinality({}) = 0
    BY CfgsAreFinite, FS_CardinalityType, FS_EmptySet
<1>2. n + 1 \in Ids /\ n + 2 \in Ids /\ 1 \in Ids
    BY <1>1 DEF Ids
<1>3. st \in SoundStores /\ DOMAIN st.conns = {} /\ DOMAIN st.sessions = {}
    <2>1. st = EmptyStore(n + 1)
        BY DEF Init
    <2>2. st \in SoundStores
        BY <1>2, <2>1, EmptyIsSound
    <2> QED
        BY <2>1, <2>2 DEF EmptyStore
<1>4. file \in Files
    BY NumberingExists, OldFileIsSound DEF Init
<1>5. walk = [pc |-> "load", todo |-> {}, cfg |-> None, found |-> None]
    BY DEF Init, NoWalk
<1>6. StoreSound
    BY <1>2, <1>3, <1>4, <1>5 DEF StoreSound, Init
<1>7. WalkShape
    <2>1. walk \in Walk
        BY <1>5 DEF Walk, WalkPcs
    <2>2. restore = NoRestore
        BY DEF Init
    <2> QED
        BY <1>5, <2>1, <2>2, NoRestoreIs, NoneIsNoId DEF WalkShape
<1>8. Budget
    <2>1. Tried = {}
        BY <1>5, NoneIsNoId DEF Tried, Init, NoRestore
    <2> QED
        BY <1>1, <2>1 DEF Budget, Init, NoRestore
<1>9. OthersShape
    <2>1. /\ host \in Hostings /\ up = TRUE /\ timer = FALSE /\ closing = {} /\ acts = 0
          /\ opens = [q \in Clicks |-> None]
        BY DEF Init
    <2>2. opens \in [Clicks -> Cfgs \cup {None}]
        BY <2>1
    <2>3. acts \in 0..MaxActs
        BY <2>1, BoundIsNat
    <2>4. up \in BOOLEAN /\ timer \in BOOLEAN /\ closing \subseteq Ids
        BY <2>1
    <2> QED
        BY <2>1, <2>2, <2>3, <2>4 DEF OthersShape
<1>10. Races
    BY <1>3, <1>5, NoneIsNoId
    DEF Races, TwinsOnlyByRace, WalkIsAlone, ClicksAreAlone, TwoUnderWay, Init
<1>11. WorkIsSomewhere
    BY DEF WorkIsSomewhere, Init
<1> QED
    BY <1>6, <1>7, <1>8, <1>9, <1>10, <1>11 DEF IInv, Shapes

-----------------------------------------------------------------------------
(* What the actions do to the store. *)

\* These leave connections, sessions and what waits alone; some show another session.
Quiet == \/ LoadFails \/ AttemptFails \/ PassEnds \/ Finish \/ RetryNow \/ Dismiss
         \/ CloseSessions \/ Switch \/ TimerFires \/ Restart
         \/ \E q \in Clicks : OpenByHand(q) \/ OpenFails(q)
\* These change the tabs of the session that is shown.
OnTabs == SelectDatabase \/ MakeTab \/ DropTabs \/ PickTab \/ Type

LEMMA SameIsQuiet == st' = st => SameRooms(st, st')
BY DEF SameRooms

LEMMA QuietIs ==
    ASSUME StoreSound, Quiet
    PROVE  st' \in SoundStores /\ SameRooms(st, st')
<1>1. st \in SoundStores /\ nextTab \in Ids /\ walk.found \in Ids \cup {None}
    BY DEF StoreSound
<1>2. CASE LoadFails \/ AttemptFails \/ Finish \/ RetryNow \/ Dismiss \/ CloseSessions
    <2>1. st' = st
        BY <1>2 DEF LoadFails, AttemptFails, Finish, RetryNow, Dismiss, CloseSessions
    <2> QED
        BY <1>1, <2>1, SameIsQuiet
<1>3. CASE TimerFires \/ Restart \/ \E q \in Clicks : OpenFails(q)
    <2>1. st' = st
        BY <1>3 DEF TimerFires, Restart, OpenFails
    <2> QED
        BY <1>1, <2>1, SameIsQuiet
<1>4. CASE PassEnds
    <2>1. st' = Selected(walk.found)
        BY <1>4 DEF PassEnds, Put
    <2>2. st' = st \/ (walk.found \in Ids /\ st' = SetSelectedConn(st, walk.found, nextTab))
        BY <1>1, <2>1 DEF Selected
    <2> QED
        BY <1>1, <2>2, SelectedIs, SameIsQuiet
<1>5. CASE Switch
    <2>1. PICK c \in DOMAIN st.sessions : st' = SetActiveSession(st, c, nextTab)
        BY <1>5 DEF Switch, Put
    <2> QED
        BY <1>1, <2>1, ShownIs
<1>6. CASE \E q \in Clicks : OpenByHand(q)
    <2>1. PICK q \in Clicks, cfg \in Cfgs :
            \/ /\ FindActiveDuplicate(cfg) # None
               /\ st' = SetActiveSession(st, FindActiveDuplicate(cfg), nextTab)
            \/ st' = st
        BY <1>6 DEF OpenByHand, Put
    <2>2. FindActiveDuplicate(cfg) # None => FindActiveDuplicate(cfg) \in DOMAIN st.sessions
        BY <1>1, DuplicateIs
    <2> QED
        BY <1>1, <2>1, <2>2, ShownIs, SameIsQuiet
<1> QED
    BY <1>2, <1>3, <1>4, <1>5, <1>6 DEF Quiet

LEMMA OnTabsIs ==
    ASSUME StoreSound, OnTabs
    PROVE  /\ st' \in SoundStores /\ RootBecomes(st, st', st'.root)
           /\ DOMAIN st.root.tabs \ gone' \subseteq DOMAIN st'.root.tabs
           /\ gone \subseteq gone'
<1>1. st \in SoundStores /\ nextTab \in Ids
    BY DEF StoreSound
<1>2. CASE SelectDatabase \/ PickTab \/ Type
    <2>1. \/ \E t \in DOMAIN st.root.tabs : st' = SetActiveTab(st, t)
          \/ \E d \in Databases : st' = SetSelectedDatabase(st, d)
          \/ \E w \in Works : st' = UpdateTab(st, st.root.active, w)
        BY <1>2, TypedIsWork DEF SelectDatabase, PickTab, Type, Put
    <2>2. gone' = gone
        BY <1>2 DEF SelectDatabase, PickTab, Type, history
    <2> QED
        BY <1>1, <2>1, <2>2, EditedIs
<1>3. CASE MakeTab
    <2>1. st' = AddTab(st, None, nextTab) /\ gone' = gone
        BY <1>3 DEF MakeTab, Put, history
    <2> QED
        BY <1>1, <2>1, MadeTabIs
<1>4. CASE DropTabs
    <2>1. PICK t \in DOMAIN st.root.tabs :
            st' \in {CloseTab(st, t, nextTab), CloseAllTabs(st), CloseTabsToRight(st, t)}
        BY <1>4 DEF DropTabs, Put
    <2>2. gone' = gone \cup (DOMAIN st.root.tabs \ DOMAIN st'.root.tabs)
        BY <1>4 DEF DropTabs, Put
    <2> QED
        BY <1>1, <2>1, <2>2, ClosedTabsAre
<1> QED
    BY <1>2, <1>3, <1>4 DEF OnTabs

\* A connection that is restored brings what waited for it, which then waits no longer.
LEMMA RestoredIs ==
    ASSUME StoreSound, WalkShape, Restored
    PROVE  /\ st' \in SoundStores /\ walk.cfg \in Cfgs /\ nextConn \notin DOMAIN st.conns
           /\ DOMAIN st'.conns = DOMAIN st.conns \cup {nextConn}
           /\ st'.conns[nextConn] = walk.cfg
           /\ \A x \in DOMAIN st.conns : st'.conns[x] = st.conns[x]
           /\ \A x \in DOMAIN st.sessions : st'.sessions[x] = st.sessions[x]
           /\ walk.cfg \in DOMAIN st.pending =>
                DOMAIN st'.sessions[nextConn].tabs = DOMAIN st.pending[walk.cfg].tabs
           /\ DOMAIN st'.pending = DOMAIN st.pending \ {walk.cfg}
           /\ \A x \in DOMAIN st.pending \ {walk.cfg} : st'.pending[x] = st.pending[x]
<1> DEFINE cfg == walk.cfg
<1> DEFINE saved == WaitingBench(cfg)
<1> DEFINE m == AddActiveConnection(st, nextConn, cfg, saved, nextTab)
<1>1. st \in SoundStores /\ nextTab \in Ids /\ nextConn \in Ids
    BY DEF StoreSound
<1>2. cfg \in Cfgs
    BY DEF Restored, WalkShape
<1>3. nextConn \notin DOMAIN st.conns
    <2>1. nextConn \in DOMAIN st.conns => nextConn < nextConn
        BY DEF StoreSound
    <2> QED
        BY <1>1, <2>1 DEF Ids
<1>4. saved \in SUBSET SoundBenches /\ (cfg \in DOMAIN st.pending => saved = {st.pending[cfg]})
    BY <1>1, StoreFields DEF WaitingBench
<1>5. st' = ConsumePendingByCfg(m, cfg)
    BY DEF Restored, Put
<1> HIDE DEF saved, cfg
<1>6. m \in SoundStores /\ Gains(st, m, nextConn, cfg, saved)
    BY <1>1, <1>2, <1>3, <1>4, AddedIs
<1> HIDE DEF m
<1>7. /\ st' \in SoundStores /\ st'.conns = m.conns /\ st'.sessions = m.sessions
      /\ DOMAIN st'.pending = DOMAIN m.pending \ {cfg}
      /\ \A x \in DOMAIN m.pending \ {cfg} : st'.pending[x] = m.pending[x]
    BY <1>5, <1>6, ConsumedIs
<1> QED
    BY <1>2, <1>3, <1>4, <1>6, <1>7, StoreFields DEF cfg, Gains

\* A connection opened by hand brings one empty tab; what waits goes on waiting.
LEMMA OpenedIs ==
    ASSUME StoreSound, NEW q \in Clicks, opens[q] \in Cfgs, Opened(q)
    PROVE  /\ st' \in SoundStores /\ nextConn \notin DOMAIN st.conns
           /\ DOMAIN st'.conns = DOMAIN st.conns \cup {nextConn}
           /\ st'.conns[nextConn] = opens[q]
           /\ \A x \in DOMAIN st.conns : st'.conns[x] = st.conns[x]
           /\ \A x \in DOMAIN st.sessions : st'.sessions[x] = st.sessions[x]
           /\ st'.pending = st.pending
<1> DEFINE m == AddActiveConnection(st, nextConn, opens[q], {}, nextTab)
<1>1. st \in SoundStores /\ nextTab \in Ids /\ nextConn \in Ids
    BY DEF StoreSound
<1>2. nextConn \notin DOMAIN st.conns
    <2>1. nextConn \in DOMAIN st.conns => nextConn < nextConn
        BY DEF StoreSound
    <2> QED
        BY <1>1, <2>1 DEF Ids
<1>3. st' = SetSelectedConn(m, nextConn, nextTab)
    BY DEF Opened, Put
<1>4. m \in SoundStores /\ Gains(st, m, nextConn, opens[q], {})
    <2>1. {} \in SUBSET SoundBenches
        OBVIOUS
    <2> QED
        BY <1>1, <1>2, <2>1, AddedIs
<1> HIDE DEF m
<1>5. st' \in SoundStores /\ SameRooms(m, st')
    BY <1>1, <1>3, <1>4, SelectedIs
<1> QED
    BY <1>2, <1>4, <1>5 DEF SameRooms, Gains

LEMMA DisconnectedIs ==
    ASSUME StoreSound, Disconnected
    PROVE  \E c \in closing :
             /\ st' \in SoundStores /\ Loses(st, st', c)
             /\ closing' = closing \ {c} /\ gone' = gone \cup TabsOf(c)
<1>1. PICK c \in closing : /\ st' = RemoveActiveConnection(st, c, nextTab)
                           /\ closing' = closing \ {c} /\ gone' = gone \cup TabsOf(c)
    BY DEF Disconnected, Put
<1>2. st' \in SoundStores /\ Loses(st, st', c)
    BY <1>1, RemovedIs DEF StoreSound
<1> QED
    BY <1>1, <1>2

\* A saved connection that is a duplicate throws its bench away.
LEMMA CheckedIs ==
    ASSUME StoreSound, WalkShape, CheckDuplicate
    PROVE  \E cfg \in walk.todo :
             \/ /\ Dups(cfg) = {} /\ st' = st /\ UNCHANGED <<restore, loose>> /\ Race(cfg)
                /\ walk' = [walk EXCEPT !.pc = "connect", !.cfg = cfg, !.todo = @ \ {cfg}]
             \/ /\ \E dup \in Ids :
                      walk' = [walk EXCEPT !.todo = @ \ {cfg}, !.found = Found(cfg, dup)]
                /\ CountSuccess(cfg) /\ loose' = loose \cup {cfg} /\ UNCHANGED raced
                /\ st' \in SoundStores /\ st'.conns = st.conns /\ st'.sessions = st.sessions
                /\ DOMAIN st'.pending = DOMAIN st.pending \ {cfg}
                /\ \A x \in DOMAIN st.pending \ {cfg} : st'.pending[x] = st.pending[x]
<1>1. PICK cfg \in walk.todo :
         LET dup == FindActiveDuplicate(cfg)
         IN IF dup = None
            THEN /\ walk' = [walk EXCEPT !.pc = "connect", !.cfg = cfg, !.todo = @ \ {cfg}]
                 /\ Race(cfg)
                 /\ UNCHANGED <<st, restore, loose>>
            ELSE /\ st' = ConsumePendingByCfg(st, cfg)
                 /\ CountSuccess(cfg)
                 /\ walk' = [walk EXCEPT !.todo = @ \ {cfg}, !.found = Found(cfg, dup)]
                 /\ loose' = loose \cup {cfg}
                 /\ UNCHANGED raced
    BY DEF CheckDuplicate
<1> DEFINE dup == FindActiveDuplicate(cfg)
<1>2. st \in SoundStores
    BY DEF StoreSound
<1>3. CASE dup = None
    <2>1. Dups(cfg) = {}
        BY <1>2, <1>3, DuplicateIs
    <2> QED
        BY <1>1, <1>3, <2>1
<1>4. CASE dup # None
    <2>1. dup \in Ids
        BY <1>2, <1>4, DuplicateIs
    <2>2. st' = ConsumePendingByCfg(st, cfg)
        BY <1>1, <1>4
    <2>3. /\ st' \in SoundStores /\ st'.conns = st.conns /\ st'.sessions = st.sessions
          /\ DOMAIN st'.pending = DOMAIN st.pending \ {cfg}
          /\ \A x \in DOMAIN st.pending \ {cfg} : st'.pending[x] = st.pending[x]
        BY <1>2, <2>2, ConsumedIs
    <2> QED
        BY <1>1, <1>4, <2>1, <2>3
<1> QED
    BY <1>3, <1>4

LEMMA QuitIs ==
    ASSUME StoreSound, Quit
    PROVE  st' \in SoundStores /\ DOMAIN st'.conns = {} /\ DOMAIN st'.pending = {}
<1>1. st' = EmptyStore(nextTab) /\ nextTab \in Ids
    BY DEF Quit, StoreSound
<1>2. st' \in SoundStores
    BY <1>1, EmptyIsSound
<1> QED
    BY <1>1, <1>2 DEF EmptyStore

LEMMA LoadedIs ==
    ASSUME StoreSound, LoadSession, ~(file = NoFile \/ file.activeCfgIds = {})
    PROVE  /\ file \in Files /\ st' \in SoundStores
           /\ st'.conns = st.conns /\ st'.sessions = st.sessions
           /\ st'.pending = file.perConnection /\ loaded' = file.perConnection
           /\ loose' = OpenCfgs(st)
<1>1. file \in Files /\ st \in SoundStores
    BY DEF StoreSound
<1>2. /\ st' = SetPendingByCfgId(st, file.perConnection)
      /\ loaded' = file.perConnection /\ loose' = OpenCfgs(st)
    BY DEF LoadSession
<1>3. file.perConnection \in PFun(Cfgs, SoundBenches)
    BY <1>1 DEF Files
<1> QED
    BY <1>1, <1>2, <1>3, PendingIs

-----------------------------------------------------------------------------
(* Each part of the invariant is kept. *)

LEMMA NumbersGrow ==
    ASSUME StoreSound
    PROVE  /\ \A c \in DOMAIN st.conns : c < nextConn + 1
           /\ nextConn + 1 \in Ids /\ nextTab + 1 \in Ids /\ nextConn < nextConn + 1
<1>1. st \in SoundStores
    BY DEF StoreSound
<1>2. DOMAIN st.conns \subseteq Ids
    BY <1>1, StoreFields
<1> QED
    BY <1>2 DEF StoreSound, Ids

LEMMA NoWalkIs ==
    /\ NoWalk \in Walk /\ NoWalk.pc = "rest" /\ NoWalk.todo = {} /\ NoWalk.cfg = None
    /\ NoWalk.found = None
BY DEF NoWalk, Walk, WalkPcs

LEMMA StartedIs ==
    ASSUME NEW T \in SUBSET Cfgs, NEW w, w = [NoWalk EXCEPT !.pc = "next", !.todo = T]
    PROVE  w \in Walk /\ w.pc = "next" /\ w.todo = T /\ w.cfg = None /\ w.found = None
<1>1. NoWalk \in Walk /\ "next" \in WalkPcs
    BY NoWalkIs DEF WalkPcs
<1> QED
    BY <1>1, NoWalkIs DEF Walk

LEMMA StoreStep ==
    ASSUME StoreSound, WalkShape, OthersShape, Next
    PROVE  StoreSound'
<1>1. /\ st \in SoundStores /\ nextConn \in Ids /\ nextTab \in Ids
      /\ \A c \in DOMAIN st.conns : c < nextConn
      /\ file = NoFile \/ file \in Files
      /\ walk.found \in Ids \cup {None}
    BY DEF StoreSound
<1>2. DoSave(st) \in Files
    BY <1>1, SavedIs
<1>3. CASE Quiet
    <2>1. st' \in SoundStores /\ st'.conns = st.conns
        BY <1>3, QuietIs DEF SameRooms
    <2>2. nextConn' = nextConn /\ nextTab' = nextTab
        BY <1>3
        DEF Quiet, LoadFails, AttemptFails, PassEnds, Finish, RetryNow, Dismiss, CloseSessions,
            Switch, TimerFires, Restart, OpenByHand, OpenFails, ids
    <2>3. file' \in {file, NoFile, DoSave(st)}
        BY <1>3
        DEF Quiet, LoadFails, AttemptFails, PassEnds, Finish, RetryNow, Dismiss, CloseSessions,
            Switch, TimerFires, Restart, OpenByHand, OpenFails
    <2>4. walk'.found \in {walk.found, None}
        <3>1. CASE LoadFails \/ PassEnds \/ Restart \/ RetryNow
            <4>1. NoWalk.found = None
                BY DEF NoWalk
            <4> QED
                BY <3>1, <4>1 DEF LoadFails, PassEnds, Restart, RetryNow, Fetch, NoWalk
        <3>2. CASE AttemptFails
            <4>1. walk \in Walk
                BY DEF WalkShape
            <4> QED
                BY <3>2, <4>1 DEF AttemptFails, MarkFail, Walk
        <3>3. CASE ~(LoadFails \/ PassEnds \/ Restart \/ RetryNow \/ AttemptFails)
            <4>1. walk' = walk
                BY <1>3, <3>3
                DEF Quiet, Finish, Dismiss, CloseSessions, Switch, TimerFires, OpenByHand,
                    OpenFails
            <4> QED
                BY <4>1
        <3> QED
            BY <3>1, <3>2, <3>3
    <2> QED
        BY <1>1, <1>2, <2>1, <2>2, <2>3, <2>4 DEF StoreSound
<1>4. CASE OnTabs
    <2>1. st' \in SoundStores /\ st'.conns = st.conns
        BY <1>4, OnTabsIs DEF RootBecomes
    <2>2. /\ nextConn' = nextConn /\ nextTab' \in {nextTab, nextTab + 1}
          /\ file' = file /\ walk' = walk
        BY <1>4
        DEF OnTabs, SelectDatabase, MakeTab, DropTabs, PickTab, Type, ids, UseTab
    <2> QED
        BY <1>1, <2>1, <2>2, NumbersGrow DEF StoreSound
<1>5. CASE LoadSession
    <2>1. nextConn' = nextConn /\ nextTab' = nextTab /\ file' = file
        BY <1>5 DEF LoadSession, ids
    <2>3. walk'.found = None
        <3>1. CASE file = NoFile \/ file.activeCfgIds = {}
            <4>1. walk' = NoWalk
                BY <1>5, <3>1 DEF LoadSession
            <4> QED
                BY <4>1, NoWalkIs
        <3>2. CASE ~(file = NoFile \/ file.activeCfgIds = {})
            <4>1. walk' = [NoWalk EXCEPT !.pc = "next", !.todo = file.activeCfgIds]
                BY <1>5, <3>2 DEF LoadSession
            <4>2. file.activeCfgIds \in SUBSET Cfgs
                BY <1>1, <3>2 DEF Files
            <4> QED
                BY <4>1, <4>2, StartedIs
        <3> QED
            BY <3>1, <3>2
    <2>2. st' \in SoundStores /\ st'.conns = st.conns
        <3>1. CASE file = NoFile \/ file.activeCfgIds = {}
            BY <1>1, <1>5, <3>1 DEF LoadSession
        <3>2. CASE ~(file = NoFile \/ file.activeCfgIds = {})
            BY <1>5, <3>2, LoadedIs
        <3> QED
            BY <3>1, <3>2
    <2> QED
        BY <1>1, <2>1, <2>2, <2>3 DEF StoreSound
<1>6. CASE CheckDuplicate
    <2>1. nextConn' = nextConn /\ nextTab' = nextTab /\ file' = file
        BY <1>6 DEF CheckDuplicate, ids
    <2>2. st' \in SoundStores /\ st'.conns = st.conns
        BY <1>1, <1>6, CheckedIs
    <2>3. walk'.found \in Ids \cup {None}
        <3>1. walk \in Walk
            BY DEF WalkShape
        <3>2. PICK cfg \in walk.todo :
                 \/ walk' = [walk EXCEPT !.pc = "connect", !.cfg = cfg, !.todo = @ \ {cfg}]
                 \/ \E dup \in Ids :
                       walk' = [walk EXCEPT !.todo = @ \ {cfg}, !.found = Found(cfg, dup)]
            BY <1>6, CheckedIs
        <3>3. \A dup \in Ids : Found(cfg, dup) \in Ids \cup {None}
            BY <1>1 DEF Found
        <3> QED
            BY <1>1, <3>1, <3>2, <3>3 DEF Walk
    <2> QED
        BY <1>1, <2>1, <2>2, <2>3 DEF StoreSound
<1>7. CASE Restored
    <2>1. nextConn' = nextConn + 1 /\ nextTab' = nextTab + 1 /\ file' = file
        BY <1>7 DEF Restored, UseConn, UseTab
    <2>2. st' \in SoundStores /\ DOMAIN st'.conns = DOMAIN st.conns \cup {nextConn}
        BY <1>7, RestoredIs
    <2>3. walk'.found \in Ids \cup {None}
        <3>1. walk \in Walk
            BY DEF WalkShape
        <3>2. Found(walk.cfg, nextConn) \in Ids \cup {None}
            BY <1>1 DEF Found
        <3>3. walk' = [walk EXCEPT !.pc = "next", !.cfg = None,
                                   !.found = Found(walk.cfg, nextConn)]
            BY <1>7 DEF Restored
        <3> HIDE DEF Found
        <3> QED
            BY <3>1, <3>2, <3>3 DEF Walk
    <2> QED
        BY <1>1, <2>1, <2>2, <2>3, NumbersGrow DEF StoreSound
<1>8. CASE \E q \in Clicks : Opened(q)
    <2>1. PICK q \in Clicks : Opened(q)
        BY <1>8
    <2>2. /\ nextConn' = nextConn + 1 /\ nextTab' = nextTab + 1 /\ file' = file /\ walk' = walk
        BY <2>1 DEF Opened, UseConn, UseTab
    <2>3. opens[q] \in Cfgs
        BY <2>1 DEF OthersShape, Opened
    <2>4. st' \in SoundStores /\ DOMAIN st'.conns = DOMAIN st.conns \cup {nextConn}
        BY <2>1, <2>3, OpenedIs
    <2> QED
        BY <1>1, <2>2, <2>4, NumbersGrow DEF StoreSound
<1>9. CASE Disconnected
    <2>1. nextConn' = nextConn /\ nextTab' = nextTab + 1 /\ file' = file /\ walk' = walk
        BY <1>9 DEF Disconnected, UseTab
    <2>2. st' \in SoundStores /\ DOMAIN st'.conns \subseteq DOMAIN st.conns
        BY <1>9, DisconnectedIs DEF Loses
    <2> QED
        BY <1>1, <2>1, <2>2, NumbersGrow DEF StoreSound
<1>10. CASE Quit
    <2>1. /\ nextConn' = nextConn /\ nextTab' = nextTab + 1 /\ file' \in {file, DoSave(st)}
          /\ walk'.found = None
        BY <1>10 DEF Quit, UseTab, NoWalk
    <2>2. st' \in SoundStores /\ DOMAIN st'.conns = {}
        BY <1>10, QuitIs
    <2> QED
        BY <1>1, <1>2, <2>1, <2>2, NumbersGrow DEF StoreSound
<1> QED
    BY <1>3, <1>4, <1>5, <1>6, <1>7, <1>8, <1>9, <1>10
    DEF Next, WalkStep, ByHand, Tabs, Quiet, OnTabs

LEMMA WalkFields ==
    ASSUME WalkShape
    PROVE  /\ walk.pc \in WalkPcs /\ walk.todo \in SUBSET Cfgs /\ walk.cfg \in Cfgs \cup {None}
           /\ restore.phase \in Phases /\ restore.failed \in SUBSET Cfgs
           /\ restore.succeeded \in Nat /\ restore.total \in Nat
           /\ Tried \in SUBSET Cfgs
<1>1. walk \in Walk /\ restore \in Restore
    BY DEF WalkShape
<1>2. walk.pc \in WalkPcs /\ walk.todo \in SUBSET Cfgs /\ walk.cfg \in Cfgs \cup {None}
    BY <1>1 DEF Walk
<1>3. /\ restore.phase \in Phases /\ restore.failed \in SUBSET Cfgs
      /\ restore.succeeded \in Nat /\ restore.total \in Nat
    BY <1>1 DEF Restore
<1> QED
    BY <1>2, <1>3 DEF Tried

\* Where the loop is not under way, only the failed ones are left to try.
LEMMA RestIsFailed ==
    ASSUME WalkShape, walk.pc \in {"rest", "load"} \/ (walk.pc = "next" /\ walk.todo = {})
    PROVE  Tried = restore.failed
<1>1. walk.todo = {} /\ walk.cfg \notin Cfgs
    BY DEF WalkShape
<1> QED
    BY <1>1 DEF Tried

LEMMA FewerTried ==
    ASSUME WalkShape, Budget, NEW x \in Tried, Tried' = Tried \ {x},
           restore'.succeeded = restore.succeeded + 1, restore'.total = restore.total
    PROVE  Budget'
<1>1. Tried \in SUBSET Cfgs /\ restore.succeeded \in Nat /\ restore.total \in Nat
    BY WalkFields
<1>2. Cardinality(Tried) \in Nat /\ Cardinality(Tried \ {x}) = Cardinality(Tried) - 1
    BY <1>1, Counted
<1> QED
    BY <1>1, <1>2 DEF Budget

LEMMA SameTried ==
    ASSUME Budget, Tried' = Tried,
           restore'.succeeded = restore.succeeded, restore'.total = restore.total
    PROVE  Budget'
BY DEF Budget

LEMMA NothingTried ==
    ASSUME Tried' = {}, restore' = NoRestore
    PROVE  Budget'
<1>1. Cardinality({}) = 0
    BY FS_EmptySet
<1>2. restore'.succeeded = 0 /\ restore'.total = 0
    BY NoRestoreIs
<1> QED
    BY <1>1, <1>2 DEF Budget

LEMMA CountedIs ==
    ASSUME WalkShape, NEW cfg, CountSuccess(cfg)
    PROVE  /\ restore' \in Restore /\ restore'.phase = restore.phase
           /\ restore'.failed = restore.failed \ {cfg}
           /\ restore'.succeeded = restore.succeeded + 1 /\ restore'.total = restore.total
<1> DEFINE left == restore.failed \ {cfg}
<1> DEFINE more == restore.succeeded + 1
<1>1. restore \in Restore /\ left \in SUBSET Cfgs /\ more \in Nat
    BY WalkFields DEF WalkShape
<1>2. restore' = [restore EXCEPT !.failed = left, !.succeeded = more]
    BY DEF CountSuccess
<1> HIDE DEF left, more
<1>3. /\ restore' \in Restore /\ restore'.phase = restore.phase
      /\ restore'.failed = left /\ restore'.succeeded = more /\ restore'.total = restore.total
    BY <1>1, <1>2 DEF Restore
<1> QED
    BY <1>3 DEF left, more

LEMMA WalkStepKeeps ==
    ASSUME StoreSound, WalkShape, Budget, Next
    PROVE  WalkShape' /\ Budget'
<1>1. /\ walk \in Walk /\ restore \in Restore
      /\ walk.pc \in {"next", "connect"} => restore.phase \in {"restoring", "retrying"}
      /\ walk.pc \in {"rest", "load"} => walk.todo = {}
      /\ (walk.pc = "connect") = (walk.cfg \in Cfgs)
      /\ walk.cfg \notin walk.todo
    BY DEF WalkShape
<1>2. /\ walk.pc \in WalkPcs /\ walk.todo \in SUBSET Cfgs /\ walk.cfg \in Cfgs \cup {None}
      /\ restore.phase \in Phases /\ restore.failed \in SUBSET Cfgs
      /\ restore.succeeded \in Nat /\ restore.total \in Nat
    BY WalkFields
<1>3. CASE UNCHANGED <<walk, restore>>
    BY <1>3 DEF WalkShape, Budget, Tried
<1>4. CASE LoadSession
    <2>1. CASE file = NoFile \/ file.activeCfgIds = {}
        <3>1. walk' = NoWalk /\ restore' = restore /\ walk.pc = "load"
            BY <1>4, <2>1 DEF LoadSession
        <3>2. WalkShape'
            BY <1>1, <3>1, NoWalkIs, NoneIsNoId DEF WalkShape
        <3>3. Tried = restore.failed /\ Tried' = restore.failed
            BY <3>1, RestIsFailed, NoWalkIs, NoneIsNoId DEF Tried
        <3> QED
            BY <3>1, <3>2, <3>3, SameTried
    <2>2. CASE ~(file = NoFile \/ file.activeCfgIds = {})
        <3> DEFINE all == file.activeCfgIds
        <3>1. file \in Files
            BY <1>4, <2>2, LoadedIs
        <3>2. all \in SUBSET Cfgs /\ file.selectedCfgId \in Cfgs \cup {None}
            BY <3>1 DEF Files
        <3>3. Cardinality(all) \in Nat
            BY <3>2, Counted
        <3>4. /\ walk' = [NoWalk EXCEPT !.pc = "next", !.todo = all]
              /\ restore' = [NoRestore EXCEPT !.phase = "restoring", !.total = Cardinality(all),
                                              !.firstPass = TRUE,
                                              !.preferred = file.selectedCfgId]
            BY <1>4, <2>2 DEF LoadSession
        <3>5. /\ walk' \in Walk /\ walk'.pc = "next" /\ walk'.todo = all /\ walk'.cfg = None
            BY <3>2, <3>4, StartedIs
        <3> HIDE DEF all
        <3>6. /\ restore' \in Restore /\ restore'.phase = "restoring"
              /\ restore'.total = Cardinality(all) /\ restore'.failed = {}
              /\ restore'.succeeded = 0
            BY <3>2, <3>3, <3>4, NoRestoreIs DEF Restore, Phases
        <3>7. WalkShape'
            BY <3>2, <3>5, <3>6, NoneIsNoId DEF WalkShape
        <3>8. Tried' = all
            BY <3>5, <3>6, NoneIsNoId DEF Tried
        <3>9. Budget'
            BY <3>3, <3>6, <3>8 DEF Budget
        <3> QED
            BY <3>7, <3>9
    <2> QED
        BY <2>1, <2>2
<1>5. CASE LoadFails \/ PassEnds
    <2>1. /\ walk' = NoWalk
          /\ restore' = restore \/ restore' = [restore EXCEPT !.phase = "done"]
             \/ restore' = [restore EXCEPT !.phase = "partial"]
             \/ restore' = [restore EXCEPT !.phase = @]
        BY <1>5 DEF LoadFails, PassEnds
    <2>2. /\ restore' \in Restore /\ restore'.failed = restore.failed
          /\ restore'.succeeded = restore.succeeded /\ restore'.total = restore.total
        BY <1>1, <2>1 DEF Restore, Phases
    <2>3. WalkShape'
        BY <2>1, <2>2, NoWalkIs, NoneIsNoId DEF WalkShape
    <2>4. Tried = restore.failed
        BY <1>5, RestIsFailed DEF LoadFails, PassEnds
    <2>5. Tried' = restore.failed
        BY <2>1, <2>2, NoWalkIs, NoneIsNoId DEF Tried
    <2> QED
        BY <2>2, <2>3, <2>4, <2>5, SameTried
<1>6. CASE CheckDuplicate
    <2>1. walk.pc = "next" /\ walk.cfg \notin Cfgs
        BY <1>1, <1>6 DEF CheckDuplicate
    <2>2. PICK cfg \in walk.todo :
             \/ /\ UNCHANGED restore
                /\ walk' = [walk EXCEPT !.pc = "connect", !.cfg = cfg, !.todo = @ \ {cfg}]
             \/ /\ \E dup \in Ids :
                      walk' = [walk EXCEPT !.todo = @ \ {cfg}, !.found = Found(cfg, dup)]
                /\ CountSuccess(cfg)
        BY <1>6, CheckedIs
    <2>3. cfg \in Cfgs
        BY <1>2
    <2>4. CASE /\ UNCHANGED restore
               /\ walk' = [walk EXCEPT !.pc = "connect", !.cfg = cfg, !.todo = @ \ {cfg}]
        <3>1. /\ walk' \in Walk /\ walk'.pc = "connect" /\ walk'.cfg = cfg
              /\ walk'.todo = walk.todo \ {cfg}
            BY <1>1, <2>3, <2>4 DEF Walk, WalkPcs
        <3>2. WalkShape'
            BY <1>1, <2>1, <2>3, <2>4, <3>1 DEF WalkShape
        <3>3. Tried' = Tried
            BY <2>1, <2>3, <2>4, <3>1 DEF Tried
        <3> QED
            BY <2>4, <3>2, <3>3, SameTried
    <2>5. CASE /\ \E dup \in Ids :
                     walk' = [walk EXCEPT !.todo = @ \ {cfg}, !.found = Found(cfg, dup)]
               /\ CountSuccess(cfg)
        <3>1. PICK dup \in Ids :
                walk' = [walk EXCEPT !.todo = @ \ {cfg}, !.found = Found(cfg, dup)]
            BY <2>5
        <3>2. Found(cfg, dup) \in Nat \cup {None}
            BY DEF Found, StoreSound, Ids
        <3>3. /\ walk' \in Walk /\ walk'.pc = walk.pc /\ walk'.cfg = walk.cfg
              /\ walk'.todo = walk.todo \ {cfg}
            BY <1>1, <3>1, <3>2 DEF Walk
        <3>4. /\ restore' \in Restore /\ restore'.phase = restore.phase
              /\ restore'.failed = restore.failed \ {cfg}
              /\ restore'.succeeded = restore.succeeded + 1 /\ restore'.total = restore.total
            BY <2>5, CountedIs
        <3>5. WalkShape'
            BY <1>1, <2>1, <3>3, <3>4 DEF WalkShape
        <3>6. Tried' = Tried \ {cfg} /\ cfg \in Tried
            BY <2>1, <2>2, <3>3, <3>4 DEF Tried
        <3> QED
            BY <3>4, <3>5, <3>6, FewerTried
    <2> QED
        BY <2>2, <2>4, <2>5
<1>7. CASE AttemptFails
    <2>1. PICK cfg \in InHand :
             /\ restore' = [restore EXCEPT !.failed = @ \cup {cfg}]
             /\ walk' = [walk EXCEPT !.pc = "next", !.cfg = None, !.todo = @ \ {cfg}]
        BY <1>7 DEF AttemptFails, MarkFail
    <2>2. /\ walk.pc \in {"next", "connect"} /\ cfg \in Cfgs
          /\ cfg \in walk.todo \/ cfg = walk.cfg
          /\ walk.cfg \in Cfgs => cfg = walk.cfg
        BY <1>1, <1>2, <1>7, <2>1 DEF AttemptFails, InHand
    <2>3. /\ walk' \in Walk /\ walk'.pc = "next" /\ walk'.cfg = None
          /\ walk'.todo = walk.todo \ {cfg}
        BY <1>1, <2>1 DEF Walk, WalkPcs
    <2>4. /\ restore' \in Restore /\ restore'.phase = restore.phase
          /\ restore'.failed = restore.failed \cup {cfg}
          /\ restore'.succeeded = restore.succeeded /\ restore'.total = restore.total
        BY <1>1, <1>2, <2>1, <2>2 DEF Restore
    <2>5. WalkShape'
        BY <1>1, <1>2, <2>2, <2>3, <2>4, NoneIsNoId DEF WalkShape
    <2>6. Tried' = Tried
        BY <2>2, <2>3, <2>4, NoneIsNoId DEF Tried
    <2> QED
        BY <2>4, <2>5, <2>6, SameTried
<1>8. CASE Restored
    <2>1. /\ walk' = [walk EXCEPT !.pc = "next", !.cfg = None,
                                  !.found = Found(walk.cfg, nextConn)]
          /\ CountSuccess(walk.cfg)
        BY <1>8 DEF Restored
    <2>2. walk.pc = "connect" /\ walk.cfg \in Cfgs
        BY <1>1, <1>8 DEF Restored
    <2>3. Found(walk.cfg, nextConn) \in Nat \cup {None}
        BY DEF Found, StoreSound, Ids
    <2>4. /\ walk' \in Walk /\ walk'.pc = "next" /\ walk'.cfg = None
          /\ walk'.todo = walk.todo
        BY <1>1, <2>1, <2>3 DEF Walk, WalkPcs
    <2>5. /\ restore' \in Restore /\ restore'.phase = restore.phase
          /\ restore'.failed = restore.failed \ {walk.cfg}
          /\ restore'.succeeded = restore.succeeded + 1 /\ restore'.total = restore.total
        BY <2>1, CountedIs
    <2>6. WalkShape'
        BY <1>1, <1>2, <2>2, <2>4, <2>5, NoneIsNoId DEF WalkShape
    <2>7. Tried' = Tried \ {walk.cfg} /\ walk.cfg \in Tried
        BY <1>1, <2>2, <2>4, <2>5, NoneIsNoId DEF Tried
    <2> QED
        BY <2>5, <2>6, <2>7, FewerTried
<1>9. CASE Finish
    <2>1. restore' = NoRestore /\ walk' = walk /\ restore.phase = "done"
        BY <1>9 DEF Finish
    <2>2. walk.pc \in {"rest", "load"}
        BY <1>1, <1>2, <2>1 DEF WalkPcs
    <2>3. walk.todo = {} /\ walk.cfg \notin Cfgs
        BY <1>1, <2>2
    <2>4. WalkShape'
        BY <1>1, <2>1, <2>2, NoRestoreIs DEF WalkShape
    <2>5. Tried' = {}
        BY <2>1, <2>3, NoRestoreIs DEF Tried
    <2> QED
        BY <2>1, <2>4, <2>5, NothingTried
<1>10. CASE RetryNow
    <2>1. /\ restore' = [restore EXCEPT !.phase = "retrying", !.firstPass = FALSE]
          /\ walk' = [NoWalk EXCEPT !.pc = "next", !.todo = restore.failed]
          /\ restore.phase = "partial"
        BY <1>10 DEF RetryNow
    <2>2. walk.pc \in {"rest", "load"}
        BY <1>1, <1>2, <2>1 DEF WalkPcs
    <2>3. Tried = restore.failed
        BY <2>2, RestIsFailed
    <2>4. /\ walk' \in Walk /\ walk'.pc = "next" /\ walk'.todo = restore.failed
          /\ walk'.cfg = None
        BY <1>2, <2>1, StartedIs
    <2>5. /\ restore' \in Restore /\ restore'.phase = "retrying"
          /\ restore'.failed = restore.failed
          /\ restore'.succeeded = restore.succeeded /\ restore'.total = restore.total
        BY <1>1, <2>1 DEF Restore, Phases
    <2>6. WalkShape'
        BY <1>2, <2>4, <2>5, NoneIsNoId DEF WalkShape
    <2>7. Tried' = restore.failed
        BY <2>4, <2>5, NoneIsNoId DEF Tried
    <2> QED
        BY <2>3, <2>5, <2>6, <2>7, SameTried
<1>11. CASE Dismiss
    <2>1. restore' = [restore EXCEPT !.phase = "idle"] /\ walk' = walk /\ restore.phase = "partial"
        BY <1>11 DEF Dismiss
    <2>2. /\ restore' \in Restore /\ restore'.failed = restore.failed
          /\ restore'.succeeded = restore.succeeded /\ restore'.total = restore.total
        BY <1>1, <2>1 DEF Restore, Phases
    <2>3. walk.pc \notin {"next", "connect"}
        BY <1>1, <2>1
    <2>4. WalkShape'
        BY <1>1, <2>1, <2>2, <2>3 DEF WalkShape
    <2>5. Tried' = Tried
        BY <2>1, <2>2 DEF Tried
    <2> QED
        BY <2>2, <2>4, <2>5, SameTried
<1>12. CASE Quit
    <2>1. walk' = NoWalk /\ restore' = NoRestore
        BY <1>12 DEF Quit
    <2>2. WalkShape'
        BY <2>1, NoWalkIs, NoRestoreIs, NoneIsNoId DEF WalkShape
    <2>3. Tried' = {}
        BY <2>1, NoWalkIs, NoRestoreIs, NoneIsNoId DEF Tried
    <2> QED
        BY <2>1, <2>2, <2>3, NothingTried
<1>13. CASE Restart
    <2>1. /\ walk' = [NoWalk EXCEPT !.pc = "load"] /\ restore' = restore
        BY <1>13 DEF Restart, Fetch
    <2>2. /\ walk' \in Walk /\ walk'.pc = "load" /\ walk'.todo = {} /\ walk'.cfg = None
        BY <2>1, NoWalkIs DEF Walk, WalkPcs
    <2>3. WalkShape'
        BY <1>1, <2>1, <2>2, NoneIsNoId DEF WalkShape
    <2>4. Tried' \in SUBSET Tried
        BY <2>1, <2>2, NoneIsNoId DEF Tried
    <2>5. Cardinality(Tried') \in Nat /\ Cardinality(Tried) \in Nat
          /\ Cardinality(Tried') <= Cardinality(Tried)
        <3>1. Tried \in SUBSET Cfgs /\ IsFiniteSet(Tried)
            BY WalkFields, CfgsAreFinite, FS_Subset
        <3> QED
            BY <2>4, <3>1, FS_Subset, FS_CardinalityType
    <2>6. Budget'
        BY <1>2, <2>1, <2>5 DEF Budget
    <2> QED
        BY <2>3, <2>6
<1>14. CASE ByHand \/ CloseSessions \/ Disconnected \/ TimerFires \/ Tabs
    <2>1. UNCHANGED <<walk, restore>>
        BY <1>14
        DEF ByHand, OpenByHand, OpenFails, Opened, CloseSessions, Disconnected, TimerFires,
            Tabs, Switch, SelectDatabase, MakeTab, DropTabs, PickTab, Type
    <2> QED
        BY <1>3, <2>1
<1> QED
    BY <1>4, <1>5, <1>6, <1>7, <1>8, <1>9, <1>10, <1>11, <1>12, <1>13, <1>14
    DEF Next, WalkStep

LEMMA OthersStep ==
    ASSUME StoreSound, OthersShape, Next
    PROVE  OthersShape'
<1>1. /\ host \in Hostings /\ up \in BOOLEAN /\ timer \in BOOLEAN
      /\ opens \in [Clicks -> Cfgs \cup {None}] /\ closing \subseteq Ids /\ acts \in 0..MaxActs
    BY DEF OthersShape
<1>2. acts < MaxActs => acts + 1 \in 0..MaxActs
    BY <1>1, BoundIsNat
<1>3. \A q \in Clicks : \A cfg \in Cfgs \cup {None} :
         [opens EXCEPT ![q] = cfg] \in [Clicks -> Cfgs \cup {None}]
    BY <1>1
<1>4. [q \in Clicks |-> None] \in [Clicks -> Cfgs \cup {None}]
    OBVIOUS
<1>5. DOMAIN st.sessions \subseteq Ids
    BY StoreFields DEF StoreSound
<1>6. CASE LoadSession \/ LoadFails \/ CheckDuplicate \/ AttemptFails \/ Finish
    <2>1. UNCHANGED <<host, up, timer, opens, closing, acts>>
        BY <1>6 DEF LoadSession, LoadFails, CheckDuplicate, AttemptFails, Finish
    <2> QED
        BY <1>1, <2>1 DEF OthersShape
<1>7. CASE PassEnds
    <2>1. UNCHANGED <<host, up, opens, closing, acts>>
        BY <1>7 DEF PassEnds
    <2>2. timer' \in BOOLEAN
        BY <1>7, Zenon DEF PassEnds
    <2> QED
        BY <1>1, <2>1, <2>2 DEF OthersShape
<1>8. CASE Restored
    <2>1. UNCHANGED <<host, up, opens, closing, acts>> /\ timer' = TRUE
        BY <1>8 DEF Restored, Persist
    <2> QED
        BY <1>1, <2>1 DEF OthersShape
<1>9. CASE RetryNow \/ Dismiss \/ MakeTab \/ DropTabs \/ PickTab \/ Type
    <2>1. UNCHANGED <<host, up, timer, opens, closing>> /\ acts < MaxActs /\ acts' = acts + 1
        BY <1>9 DEF RetryNow, Dismiss, MakeTab, DropTabs, PickTab, Type, Act
    <2> QED
        BY <1>1, <1>2, <2>1 DEF OthersShape
<1>10. CASE \E q \in Clicks : OpenByHand(q)
    <2>1. PICK q \in Clicks : OpenByHand(q)
        BY <1>10
    <2>2. /\ UNCHANGED <<host, up, closing>> /\ acts < MaxActs /\ acts' = acts + 1
          /\ timer' = TRUE \/ timer' = timer
          /\ opens' = opens \/ \E cfg \in Cfgs : opens' = [opens EXCEPT ![q] = cfg]
        BY <2>1 DEF OpenByHand, Act, Persist
    <2>3. opens' \in [Clicks -> Cfgs \cup {None}]
        BY <1>1, <1>3, <2>2
    <2>4. timer' \in BOOLEAN
        BY <1>1, <2>2
    <2> QED
        BY <1>1, <1>2, <2>2, <2>3, <2>4 DEF OthersShape
<1>11. CASE \E q \in Clicks : OpenFails(q) \/ Opened(q)
    <2>1. PICK q \in Clicks : OpenFails(q) \/ Opened(q)
        BY <1>11
    <2>2. /\ UNCHANGED <<host, up, closing, acts>>
          /\ timer' = TRUE \/ timer' = timer
          /\ opens' = [opens EXCEPT ![q] = None]
        BY <2>1 DEF OpenFails, Opened, Persist
    <2>3. timer' \in BOOLEAN
        BY <1>1, <2>2
    <2>4. opens' \in [Clicks -> Cfgs \cup {None}]
        BY <1>3, <2>2
    <2> QED
        BY <1>1, <2>2, <2>3, <2>4 DEF OthersShape
<1>12. CASE CloseSessions
    <2>1. UNCHANGED <<host, up, timer, opens>> /\ acts < MaxActs /\ acts' = acts + 1
        BY <1>12 DEF CloseSessions, Act
    <2>2. closing' \subseteq closing \cup DOMAIN st.sessions
        BY <1>12 DEF CloseSessions
    <2> QED
        BY <1>1, <1>2, <1>5, <2>1, <2>2 DEF OthersShape
<1>13. CASE Disconnected
    <2>1. UNCHANGED <<host, up, opens, acts>> /\ timer' = TRUE /\ closing' \subseteq closing
        BY <1>13 DEF Disconnected, Persist
    <2> QED
        BY <1>1, <2>1 DEF OthersShape
<1>14. CASE Switch \/ SelectDatabase
    <2>1. /\ UNCHANGED <<host, up, opens, closing>> /\ timer' = TRUE
          /\ acts < MaxActs /\ acts' = acts + 1
        BY <1>14 DEF Switch, SelectDatabase, Act, Persist
    <2> QED
        BY <1>1, <1>2, <2>1 DEF OthersShape
<1>15. CASE TimerFires
    <2>1. UNCHANGED <<host, up, opens, closing, acts>> /\ timer' = FALSE
        BY <1>15 DEF TimerFires
    <2> QED
        BY <1>1, <2>1 DEF OthersShape
<1>16. CASE Quit
    <2>1. /\ host' = host /\ up' = FALSE /\ timer' = FALSE /\ closing' = {}
          /\ opens' = [q \in Clicks |-> None] /\ acts < MaxActs /\ acts' = acts + 1
        BY <1>16 DEF Quit, Act
    <2> QED
        BY <1>1, <1>2, <1>4, <2>1 DEF OthersShape
<1>17. CASE Restart
    <2>1. UNCHANGED <<host, opens, closing, timer, acts>> /\ up' = TRUE
        BY <1>17 DEF Restart
    <2> QED
        BY <1>1, <2>1 DEF OthersShape
<1> QED
    BY <1>6, <1>7, <1>8, <1>9, <1>10, <1>11, <1>12, <1>13, <1>14, <1>15, <1>16, <1>17
    DEF Next, WalkStep, ByHand, Tabs

-----------------------------------------------------------------------------
(* Two sessions of one host come from two connects under way at once. *)

\* Fewer or the same connections, and connects that were there: no new pair.
FewerRooms ==
    /\ DOMAIN st'.conns \subseteq DOMAIN st.conns
    /\ \A c \in DOMAIN st'.conns : st'.conns[c] = st.conns[c]
FewerUnderWay ==
    /\ walk'.cfg \in Cfgs => walk'.cfg = walk.cfg
    /\ \A q \in Clicks : opens'[q] \in Cfgs => opens'[q] = opens[q]

LEMMA NoNewPair ==
    ASSUME Races, FewerRooms, FewerUnderWay, host' = host, raced' = raced
    PROVE  Races'
<1>1. TwinsOnlyByRace'
    BY DEF Races, FewerRooms, TwinsOnlyByRace
<1>2. WalkIsAlone'
    BY DEF Races, FewerRooms, FewerUnderWay, WalkIsAlone
<1>3. ClicksAreAlone'
    BY DEF Races, FewerRooms, FewerUnderWay, ClicksAreAlone
<1>4. TwoUnderWay'
    BY DEF Races, FewerUnderWay, TwoUnderWay
<1> QED
    BY <1>1, <1>2, <1>3, <1>4 DEF Races

\* A connect that is added after the check: its host is free, and if others are under way
\* to it, it is raced for.
LEMMA RacesStep ==
    ASSUME StoreSound, WalkShape, OthersShape, Races, Next
    PROVE  Races'
<1>1. /\ WalkShape /\ st \in SoundStores /\ opens \in [Clicks -> Cfgs \cup {None}]
      /\ walk \in Walk
    BY DEF StoreSound, OthersShape, WalkShape
<1>2. TwinsOnlyByRace /\ WalkIsAlone /\ ClicksAreAlone /\ TwoUnderWay
    BY DEF Races
<1>3. CASE CheckDuplicate
    <2>1. UNCHANGED <<host, opens>> /\ walk.cfg \notin Cfgs /\ walk.pc = "next"
        BY <1>1, <1>3 DEF CheckDuplicate, WalkShape
    <2>2. st'.conns = st.conns
        BY <1>3, CheckedIs
    <2>3. PICK cfg \in walk.todo :
             \/ /\ Dups(cfg) = {} /\ Race(cfg)
                /\ walk' = [walk EXCEPT !.pc = "connect", !.cfg = cfg, !.todo = @ \ {cfg}]
             \/ /\ raced' = raced
                /\ \E dup \in Ids :
                      walk' = [walk EXCEPT !.todo = @ \ {cfg}, !.found = Found(cfg, dup)]
        BY <1>3, CheckedIs
    <2>4. cfg \in Cfgs
        BY WalkFields
    <2>5. CASE raced' = raced /\ \E dup \in Ids :
                walk' = [walk EXCEPT !.todo = @ \ {cfg}, !.found = Found(cfg, dup)]
        <3>1. walk'.cfg = walk.cfg
            BY <1>1, <2>5 DEF Walk
        <3> QED
            BY <2>1, <2>2, <2>5, <3>1, NoNewPair DEF FewerRooms, FewerUnderWay
    <2>6. CASE /\ Dups(cfg) = {} /\ Race(cfg)
               /\ walk' = [walk EXCEPT !.pc = "connect", !.cfg = cfg, !.todo = @ \ {cfg}]
        <3>1. walk'.cfg = cfg
            BY <1>1, <2>6 DEF Walk
        <3>2. \A c \in DOMAIN st.conns : host[st.conns[c]] # host[cfg]
            BY <2>6 DEF Dups
        <3>3. raced \subseteq raced' /\ (UnderWay(host[cfg]) => host[cfg] \in raced')
            BY <2>6 DEF Race
        <3>4. TwinsOnlyByRace'
            BY <1>2, <2>1, <2>2, <3>3 DEF TwinsOnlyByRace
        <3>5. WalkIsAlone'
            BY <2>1, <2>2, <3>1, <3>2 DEF WalkIsAlone
        <3>6. ClicksAreAlone'
            BY <1>2, <2>1, <2>2, <3>3 DEF ClicksAreAlone
        <3>7. TwoUnderWay'
            <4>1. ASSUME NEW q \in Clicks, opens[q] \in Cfgs, host[opens[q]] = host[cfg]
                  PROVE  host[cfg] \in raced'
                BY <3>3, <4>1, NoneIsNoId DEF UnderWay
            <4> QED
                BY <1>2, <2>1, <3>1, <3>3, <4>1 DEF TwoUnderWay
        <3> QED
            BY <3>4, <3>5, <3>6, <3>7 DEF Races
    <2> QED
        BY <2>3, <2>5, <2>6
<1>4. CASE Restored
    <2>1. UNCHANGED <<host, opens, raced>> /\ walk'.cfg = None
        BY <1>1, <1>4 DEF Restored, history, Walk
    <2>2. /\ DOMAIN st'.conns = DOMAIN st.conns \cup {nextConn} /\ st'.conns[nextConn] = walk.cfg
          /\ \A x \in DOMAIN st.conns : st'.conns[x] = st.conns[x] /\ walk.cfg \in Cfgs
          /\ walk.cfg \in Cfgs
        BY <1>4, RestoredIs
    <2>3. TwinsOnlyByRace'
        BY <1>2, <2>1, <2>2 DEF TwinsOnlyByRace, WalkIsAlone
    <2>4. WalkIsAlone'
        BY <2>1, NoneIsNoId DEF WalkIsAlone
    <2>5. ClicksAreAlone'
        BY <1>2, <2>1, <2>2 DEF ClicksAreAlone, TwoUnderWay
    <2>6. TwoUnderWay'
        BY <1>2, <2>1, NoneIsNoId DEF TwoUnderWay
    <2> QED
        BY <2>3, <2>4, <2>5, <2>6 DEF Races
<1>5. CASE \E q \in Clicks : OpenByHand(q)
    <2>1. PICK q \in Clicks : OpenByHand(q)
        BY <1>5
    <2>2. st'.conns = st.conns
        BY <1>5, QuietIs DEF Quiet, SameRooms
    <2>3. UNCHANGED <<host, walk>> /\ opens[q] = None
        BY <2>1 DEF OpenByHand
    <2>4. PICK cfg \in Cfgs :
            \/ UNCHANGED <<opens, raced>>
            \/ /\ FindActiveDuplicate(cfg) = None
               /\ opens' = [opens EXCEPT ![q] = cfg] /\ Race(cfg)
        BY <2>1 DEF OpenByHand
    <2>5. CASE UNCHANGED <<opens, raced>>
        BY <2>2, <2>3, <2>5, NoNewPair DEF FewerRooms, FewerUnderWay
    <2>6. CASE /\ FindActiveDuplicate(cfg) = None
               /\ opens' = [opens EXCEPT ![q] = cfg] /\ Race(cfg)
        <3>1. opens'[q] = cfg /\ \A r \in Clicks \ {q} : opens'[r] = opens[r]
            BY <1>1, <2>6
        <3>2. \A c \in DOMAIN st.conns : host[st.conns[c]] # host[cfg]
            BY <1>1, <2>6, DuplicateIs DEF Dups
        <3>3. raced \subseteq raced' /\ (UnderWay(host[cfg]) => host[cfg] \in raced')
            BY <2>6 DEF Race
        <3>4. TwinsOnlyByRace'
            BY <1>2, <2>2, <2>3, <3>3 DEF TwinsOnlyByRace
        <3>5. WalkIsAlone'
            BY <1>2, <2>2, <2>3, <3>3 DEF WalkIsAlone
        <3>6. ClicksAreAlone'
            BY <1>2, <2>2, <2>3, <3>1, <3>2, <3>3 DEF ClicksAreAlone
        <3>7. ASSUME NEW r \in Clicks \ {q}, opens[r] \in Cfgs, host[opens[r]] = host[cfg]
              PROVE  host[cfg] \in raced'
            BY <3>3, <3>7, NoneIsNoId DEF UnderWay
        <3>8. walk.cfg \in Cfgs /\ host[cfg] = host[walk.cfg] => host[cfg] \in raced'
            BY <3>3 DEF UnderWay, WalkShape
        <3>9. \A r \in Clicks : (/\ opens'[r] \in Cfgs /\ walk'.cfg \in Cfgs
                                 /\ host'[opens'[r]] = host'[walk'.cfg])
                                    => host'[walk'.cfg] \in raced'
            BY <1>2, <2>3, <3>1, <3>3, <3>8 DEF TwoUnderWay
        <3>10. \A r, t \in Clicks : (/\ r # t /\ opens'[r] \in Cfgs /\ opens'[t] \in Cfgs
                                     /\ host'[opens'[r]] = host'[opens'[t]])
                                        => host'[opens'[r]] \in raced'
            BY <1>2, <2>3, <3>1, <3>3, <3>7 DEF TwoUnderWay
        <3> QED
            BY <3>4, <3>5, <3>6, <3>9, <3>10 DEF Races, TwoUnderWay
    <2> QED
        BY <2>4, <2>5, <2>6
<1>6. CASE \E q \in Clicks : Opened(q)
    <2>1. PICK q \in Clicks : Opened(q)
        BY <1>6
    <2>2. /\ UNCHANGED <<host, walk, raced>> /\ opens[q] \in Cfgs
          /\ opens' = [opens EXCEPT ![q] = None]
        BY <1>1, <2>1 DEF Opened
    <2>3. opens'[q] = None /\ \A r \in Clicks \ {q} : opens'[r] = opens[r]
        BY <1>1, <2>2
    <2>4. /\ DOMAIN st'.conns = DOMAIN st.conns \cup {nextConn} /\ st'.conns[nextConn] = opens[q]
          /\ \A x \in DOMAIN st.conns : st'.conns[x] = st.conns[x]
        BY <2>1, <2>2, OpenedIs
    <2>5. TwinsOnlyByRace'
        BY <1>2, <2>2, <2>4 DEF TwinsOnlyByRace, ClicksAreAlone
    <2>6. WalkIsAlone'
        BY <1>2, <2>2, <2>4 DEF WalkIsAlone, TwoUnderWay
    <2>7. ClicksAreAlone'
        BY <1>2, <2>2, <2>3, <2>4, NoneIsNoId DEF ClicksAreAlone, TwoUnderWay
    <2>8. TwoUnderWay'
        BY <1>2, <2>2, <2>3, NoneIsNoId DEF TwoUnderWay
    <2> QED
        BY <2>5, <2>6, <2>7, <2>8 DEF Races
<1>7. CASE Quit
    <2>1. /\ DOMAIN st'.conns = {} /\ walk' = NoWalk /\ host' = host
          /\ opens' = [q \in Clicks |-> None]
        BY <1>7, QuitIs DEF Quit
    <2>2. walk'.cfg = None /\ \A q \in Clicks : opens'[q] = None
        BY <2>1, NoWalkIs
    <2> QED
        BY <2>1, <2>2, NoneIsNoId
        DEF Races, TwinsOnlyByRace, WalkIsAlone, ClicksAreAlone, TwoUnderWay
<1>8. CASE Quiet /\ ~(\E q \in Clicks : OpenByHand(q))
    <2>1. UNCHANGED <<host, raced>> /\ FewerRooms
        BY <1>8, QuietIs
        DEF Quiet, LoadFails, AttemptFails, PassEnds, Finish, RetryNow, Dismiss, CloseSessions,
            Switch, TimerFires, Restart, OpenFails, SameRooms, FewerRooms, history
    <2>2. \A q \in Clicks : opens'[q] \in Cfgs => opens'[q] = opens[q]
        BY <1>1, <1>8, NoneIsNoId
        DEF Quiet, LoadFails, AttemptFails, PassEnds, Finish, RetryNow, Dismiss, CloseSessions,
            Switch, TimerFires, Restart, OpenFails
    <2>3. walk'.cfg = None \/ walk' = walk
        <3>1. CASE LoadFails \/ PassEnds
            BY <3>1, NoWalkIs DEF LoadFails, PassEnds
        <3>2. CASE AttemptFails
            BY <1>1, <3>2 DEF AttemptFails, MarkFail, Walk
        <3>3. CASE RetryNow
            <4>1. walk' = [NoWalk EXCEPT !.pc = "next", !.todo = restore.failed]
                BY <3>3 DEF RetryNow
            <4> QED
                BY <4>1, WalkFields, StartedIs
        <3>4. CASE Restart
            BY <3>4, NoWalkIs DEF Restart, Fetch, Walk
        <3>5. CASE \/ Finish \/ Dismiss \/ CloseSessions \/ Switch \/ TimerFires
                   \/ \E q \in Clicks : OpenFails(q)
            BY <3>5 DEF Finish, Dismiss, CloseSessions, Switch, TimerFires, OpenFails
        <3> QED
            BY <1>8, <3>1, <3>2, <3>3, <3>4, <3>5 DEF Quiet
    <2> QED
        BY <2>1, <2>2, <2>3, NoneIsNoId, NoNewPair DEF FewerUnderWay
<1>9. CASE OnTabs
    <2>1. FewerRooms
        BY <1>9, OnTabsIs DEF RootBecomes, FewerRooms
    <2>2. UNCHANGED <<host, raced, walk, opens>>
        BY <1>9 DEF OnTabs, SelectDatabase, MakeTab, DropTabs, PickTab, Type, history
    <2> QED
        BY <2>1, <2>2, NoNewPair DEF FewerUnderWay
<1>10. CASE Disconnected
    <2>1. FewerRooms
        BY <1>10, DisconnectedIs DEF Loses, FewerRooms
    <2>2. UNCHANGED <<host, raced, walk, opens>>
        BY <1>10 DEF Disconnected
    <2> QED
        BY <2>1, <2>2, NoNewPair DEF FewerUnderWay
<1>11. CASE LoadSession
    <2>1. UNCHANGED <<host, raced, opens>>
        BY <1>11 DEF LoadSession
    <2>2. st'.conns = st.conns
        <3>1. CASE file = NoFile \/ file.activeCfgIds = {}
            BY <1>11, <3>1 DEF LoadSession
        <3>2. CASE ~(file = NoFile \/ file.activeCfgIds = {})
            BY <1>11, <3>2, LoadedIs
        <3> QED
            BY <3>1, <3>2
    <2>3. walk'.cfg = None
        <3>1. CASE file = NoFile \/ file.activeCfgIds = {}
            BY <1>11, <3>1, NoWalkIs DEF LoadSession
        <3>2. CASE ~(file = NoFile \/ file.activeCfgIds = {})
            <4>1. walk' = [NoWalk EXCEPT !.pc = "next", !.todo = file.activeCfgIds]
                BY <1>11, <3>2 DEF LoadSession
            <4>2. file.activeCfgIds \in SUBSET Cfgs
                BY <1>11, <3>2, LoadedIs DEF Files
            <4> QED
                BY <4>1, <4>2, StartedIs
        <3> QED
            BY <3>1, <3>2
    <2> QED
        BY <2>1, <2>2, <2>3, NoneIsNoId, NoNewPair DEF FewerRooms, FewerUnderWay
<1> QED
    BY <1>3, <1>4, <1>5, <1>6, <1>7, <1>8, <1>9, <1>10, <1>11
    DEF Next, WalkStep, ByHand, Tabs, Quiet, OnTabs

-----------------------------------------------------------------------------
(* The tabs of the last session stay somewhere. *)

LEMMA RoomsOfOne ==
    ASSUME NEW s \in SoundStores, NEW cfg
    PROVE  /\ ConnsOf(s, cfg) = {c \in DOMAIN s.conns : s.conns[c] = cfg}
           /\ ConnsOf(s, cfg) = {} <=> cfg \notin OpenCfgs(s)
BY StoreFields DEF ConnsOf, OpenCfgs

\* Rooms and what waits stay, nothing more is tried.
LEMMA WorkStays ==
    ASSUME WorkIsSomewhere, SameRooms(st, st'), Tried' \subseteq Tried,
           loaded' = loaded, loose' = loose, gone' = gone
    PROVE  WorkIsSomewhere'
<1> SUFFICES ASSUME NEW cfg \in DOMAIN loaded \ loose
             PROVE  Waits(cfg)' \/ (cfg \notin Tried' /\ (Lives(cfg)' \/ Closed(cfg)'))
    BY DEF WorkIsSomewhere
<1>1. st'.conns = st.conns /\ st'.sessions = st.sessions /\ st'.pending = st.pending
    BY DEF SameRooms
<1>2. /\ Waits(cfg) => Waits(cfg)'
      /\ Lives(cfg) => Lives(cfg)'
      /\ Closed(cfg) => Closed(cfg)'
    BY <1>1 DEF Waits, Lives, Closed, OpenCfgs, ConnsOf
<1> QED
    BY <1>2 DEF WorkIsSomewhere

LEMMA QuietTriesNoMore ==
    ASSUME WalkShape, Quiet
    PROVE  Tried' \subseteq Tried
<1>1. /\ walk \in Walk /\ restore \in Restore /\ (walk.pc = "connect") = (walk.cfg \in Cfgs)
      /\ walk.pc \in WalkPcs
    BY WalkFields DEF WalkShape
<1>2. CASE LoadFails \/ PassEnds
    <2>1. /\ walk' = NoWalk
          /\ restore' = restore \/ restore' = [restore EXCEPT !.phase = "done"]
             \/ restore' = [restore EXCEPT !.phase = "partial"]
             \/ restore' = [restore EXCEPT !.phase = @]
        BY <1>2 DEF LoadFails, PassEnds
    <2>2. restore'.failed = restore.failed
        BY <1>1, <2>1 DEF Restore
    <2> QED
        BY <2>1, <2>2, NoWalkIs, NoneIsNoId DEF Tried
<1>3. CASE AttemptFails
    <2>1. PICK cfg \in InHand :
             /\ restore' = [restore EXCEPT !.failed = @ \cup {cfg}]
             /\ walk' = [walk EXCEPT !.pc = "next", !.cfg = None, !.todo = @ \ {cfg}]
        BY <1>3 DEF AttemptFails, MarkFail
    <2>2. walk'.cfg = None /\ walk'.todo = walk.todo \ {cfg}
        BY <1>1, <2>1 DEF Walk
    <2>3. restore'.failed = restore.failed \cup {cfg}
        BY <1>1, <2>1 DEF Restore
    <2>4. cfg \in Tried
        BY <1>1, <2>1 DEF InHand, Tried
    <2> QED
        BY <2>2, <2>3, <2>4, NoneIsNoId DEF Tried
<1>4. CASE Finish
    <2>1. restore' = NoRestore /\ walk' = walk
        BY <1>4 DEF Finish
    <2> QED
        BY <2>1, NoRestoreIs DEF Tried
<1>5. CASE RetryNow
    <2>1. /\ restore' = [restore EXCEPT !.phase = "retrying", !.firstPass = FALSE]
          /\ walk' = [NoWalk EXCEPT !.pc = "next", !.todo = restore.failed]
        BY <1>5 DEF RetryNow
    <2>2. walk'.todo = restore.failed /\ walk'.cfg = None
        BY <2>1, WalkFields, StartedIs
    <2>3. restore'.failed = restore.failed
        BY <1>1, <2>1 DEF Restore
    <2> QED
        BY <2>2, <2>3, NoneIsNoId DEF Tried
<1>6. CASE Dismiss
    <2>1. restore' = [restore EXCEPT !.phase = "idle"] /\ walk' = walk
        BY <1>6 DEF Dismiss
    <2>2. restore'.failed = restore.failed
        BY <1>1, <2>1 DEF Restore
    <2> QED
        BY <2>1, <2>2 DEF Tried
<1>7. CASE Restart
    <2>1. walk' = [NoWalk EXCEPT !.pc = "load"] /\ restore' = restore
        BY <1>7 DEF Restart, Fetch
    <2>2. walk'.todo = {} /\ walk'.cfg = None
        BY <2>1, NoWalkIs DEF Walk
    <2> QED
        BY <2>1, <2>2, NoneIsNoId DEF Tried
<1>8. CASE \/ CloseSessions \/ Switch \/ TimerFires
           \/ \E q \in Clicks : OpenByHand(q) \/ OpenFails(q)
    <2>1. walk' = walk /\ restore' = restore
        BY <1>8 DEF CloseSessions, Switch, TimerFires, OpenByHand, OpenFails
    <2> QED
        BY <2>1 DEF Tried
<1> QED
    BY <1>2, <1>3, <1>4, <1>5, <1>6, <1>7, <1>8 DEF Quiet

\* A new connection of another saved connection, or one that leaves, is no matter.
LEMMA OthersRoomsStay ==
    ASSUME st \in SoundStores, st' \in SoundStores, NEW cfg, NEW new,
           DOMAIN st'.conns = DOMAIN st.conns \cup {new}, new \notin DOMAIN st.conns,
           st'.conns[new] # cfg,
           \A x \in DOMAIN st.conns : st'.conns[x] = st.conns[x],
           \A x \in DOMAIN st.sessions : st'.sessions[x] = st.sessions[x],
           cfg \in DOMAIN st'.pending <=> cfg \in DOMAIN st.pending,
           cfg \in DOMAIN st.pending => st'.pending[cfg] = st.pending[cfg],
           loaded' = loaded, gone' = gone
    PROVE  /\ Waits(cfg) => Waits(cfg)'
           /\ Lives(cfg) => Lives(cfg)'
<1>1. ConnsOf(st', cfg) = ConnsOf(st, cfg)
    <2>1. ConnsOf(st, cfg) = {c \in DOMAIN st.conns : st.conns[c] = cfg}
        BY RoomsOfOne
    <2>2. ConnsOf(st', cfg) = {c \in DOMAIN st'.conns : st'.conns[c] = cfg}
        BY RoomsOfOne
    <2> QED
        BY <2>1, <2>2
<1>2. cfg \in OpenCfgs(st') <=> cfg \in OpenCfgs(st)
    BY <1>1, RoomsOfOne
<1>3. Waits(cfg) => Waits(cfg)'
    BY <1>2 DEF Waits
<1>4. ASSUME Lives(cfg) PROVE Lives(cfg)'
    <2>1. PICK c \in DOMAIN st.conns :
            /\ ConnsOf(st, cfg) = {c}
            /\ DOMAIN loaded[cfg].tabs \ gone \subseteq DOMAIN st.sessions[c].tabs
        BY <1>4 DEF Lives
    <2>2. c \in DOMAIN st.sessions /\ c \in DOMAIN st'.conns
        BY StoreFields
    <2>3. DOMAIN loaded'[cfg].tabs \ gone' \subseteq DOMAIN st'.sessions[c].tabs
        BY <2>1, <2>2
    <2>4. cfg \notin DOMAIN st'.pending
        BY <1>4 DEF Lives
    <2> QED
        BY <1>1, <2>1, <2>2, <2>3, <2>4 DEF Lives
<1> QED
    BY <1>3, <1>4

LEMMA WorkStep ==
    ASSUME StoreSound, WalkShape, OthersShape, WorkIsSomewhere, Next
    PROVE  WorkIsSomewhere'
<1>1. st \in SoundStores /\ walk \in Walk
    BY DEF StoreSound, WalkShape
<1>2. CASE Quiet
    <2>1. SameRooms(st, st') /\ Tried' \subseteq Tried
        BY <1>2, QuietIs, QuietTriesNoMore
    <2>2. loaded' = loaded /\ loose' = loose /\ gone' = gone
        BY <1>2
        DEF Quiet, LoadFails, AttemptFails, PassEnds, Finish, RetryNow, Dismiss, CloseSessions,
            Switch, TimerFires, Restart, OpenByHand, OpenFails, history
    <2> QED
        BY <2>1, <2>2, WorkStays
<1>3. CASE OnTabs
    <2>1. UNCHANGED <<walk, restore, loaded, loose>>
        BY <1>3 DEF OnTabs, SelectDatabase, MakeTab, DropTabs, PickTab, Type, history
    <2>2. /\ st' \in SoundStores /\ RootBecomes(st, st', st'.root)
          /\ DOMAIN st.root.tabs \ gone' \subseteq DOMAIN st'.root.tabs /\ gone \subseteq gone'
        BY <1>3, OnTabsIs
    <2> SUFFICES ASSUME NEW cfg \in DOMAIN loaded \ loose
                 PROVE  Waits(cfg)' \/ (cfg \notin Tried' /\ (Lives(cfg)' \/ Closed(cfg)'))
        BY <2>1 DEF WorkIsSomewhere
    <2>3. Tried' = Tried
        BY <2>1 DEF Tried
    <2>4. Waits(cfg) => Waits(cfg)'
        BY <2>1, <2>2 DEF Waits, RootBecomes, OpenCfgs
    <2>5. Closed(cfg) => Closed(cfg)'
        BY <2>1, <2>2 DEF Closed
    <2>6. ASSUME Lives(cfg) PROVE Lives(cfg)'
        <3>1. PICK c \in DOMAIN st.conns :
                /\ ConnsOf(st, cfg) = {c}
                /\ DOMAIN loaded[cfg].tabs \ gone \subseteq DOMAIN st.sessions[c].tabs
            BY <2>6 DEF Lives
        <3>2. c \in DOMAIN st.sessions /\ c # None
            BY <1>1, StoreFields, NoneIsNoId
        <3>3. DOMAIN loaded[cfg].tabs \ gone' \subseteq DOMAIN st'.sessions[c].tabs
            <4>1. CASE c = st.shown
                <5>1. st.sessions[c] = st.root
                    BY <1>1, <3>2, <4>1, StoreFields
                <5>2. st'.sessions[c] = st'.root
                    BY <2>2, <3>2, <4>1 DEF RootBecomes
                <5> QED
                    BY <2>2, <3>1, <5>1, <5>2
            <4>2. CASE c # st.shown
                <5>1. st'.sessions[c] = st.sessions[c]
                    BY <2>2, <3>2, <4>2 DEF RootBecomes
                <5> QED
                    BY <2>2, <3>1, <5>1
            <4> QED
                BY <4>1, <4>2
        <3>4. ConnsOf(st', cfg) = {c} /\ c \in DOMAIN st'.conns
            BY <2>2, <3>1 DEF RootBecomes, ConnsOf
        <3>5. cfg \notin DOMAIN st'.pending
            BY <2>2, <2>6 DEF Lives, RootBecomes
        <3> QED
            BY <2>1, <3>3, <3>4, <3>5 DEF Lives
    <2> QED
        BY <2>3, <2>4, <2>5, <2>6 DEF WorkIsSomewhere
<1>4. CASE LoadSession
    <2>1. gone' = gone
        BY <1>4 DEF LoadSession
    <2>2. CASE file = NoFile \/ file.activeCfgIds = {}
        <3>1. /\ walk' = NoWalk /\ UNCHANGED <<st, restore, loaded, loose>>
            BY <1>4, <2>2 DEF LoadSession
        <3>2. Tried' \subseteq Tried
            BY <3>1, NoWalkIs, NoneIsNoId DEF Tried
        <3> QED
            BY <2>1, <3>1, <3>2, WorkStays, SameIsQuiet
    <2>3. CASE ~(file = NoFile \/ file.activeCfgIds = {})
        <3>1. /\ st'.conns = st.conns /\ st'.pending = file.perConnection
              /\ loaded' = file.perConnection /\ loose' = OpenCfgs(st)
            BY <1>4, <2>3, LoadedIs
        <3>2. \A cfg \in DOMAIN loaded' \ loose' : Waits(cfg)'
            BY <3>1 DEF Waits, OpenCfgs
        <3> QED
            BY <3>2 DEF WorkIsSomewhere
    <2> QED
        BY <2>2, <2>3
<1>5. CASE CheckDuplicate
    <2>1. loaded' = loaded /\ gone' = gone /\ walk.cfg \notin Cfgs
        BY <1>5 DEF CheckDuplicate, WalkShape
    <2>2. PICK cfg \in walk.todo :
             \/ /\ st' = st /\ UNCHANGED <<restore, loose>>
                /\ walk' = [walk EXCEPT !.pc = "connect", !.cfg = cfg, !.todo = @ \ {cfg}]
             \/ /\ \E dup \in Ids :
                      walk' = [walk EXCEPT !.todo = @ \ {cfg}, !.found = Found(cfg, dup)]
                /\ CountSuccess(cfg) /\ loose' = loose \cup {cfg}
                /\ st' \in SoundStores /\ st'.conns = st.conns /\ st'.sessions = st.sessions
                /\ DOMAIN st'.pending = DOMAIN st.pending \ {cfg}
                /\ \A x \in DOMAIN st.pending \ {cfg} : st'.pending[x] = st.pending[x]
        BY <1>5, CheckedIs
    <2>3. CASE /\ st' = st /\ UNCHANGED <<restore, loose>>
               /\ walk' = [walk EXCEPT !.pc = "connect", !.cfg = cfg, !.todo = @ \ {cfg}]
        <3>1. walk'.cfg = cfg /\ walk'.todo = walk.todo \ {cfg}
            BY <1>1, <2>3 DEF Walk
        <3>2. Tried' \subseteq Tried
            BY <2>2, <2>3, <3>1 DEF Tried
        <3> QED
            BY <2>1, <2>3, <3>2, WorkStays, SameIsQuiet
    <2>4. CASE /\ \E dup \in Ids :
                     walk' = [walk EXCEPT !.todo = @ \ {cfg}, !.found = Found(cfg, dup)]
               /\ CountSuccess(cfg) /\ loose' = loose \cup {cfg}
               /\ st' \in SoundStores /\ st'.conns = st.conns /\ st'.sessions = st.sessions
               /\ DOMAIN st'.pending = DOMAIN st.pending \ {cfg}
               /\ \A x \in DOMAIN st.pending \ {cfg} : st'.pending[x] = st.pending[x]
        <3>1. walk'.cfg = walk.cfg /\ walk'.todo = walk.todo \ {cfg}
            BY <1>1, <2>4 DEF Walk
        <3>2. restore'.failed = restore.failed \ {cfg}
            BY <2>4, CountedIs
        <3>3. Tried' \subseteq Tried
            BY <3>1, <3>2 DEF Tried
        <3>4. ASSUME NEW x \in DOMAIN loaded \ loose, x # cfg
              PROVE  /\ Waits(x) => Waits(x)'
                     /\ Lives(x) => Lives(x)'
                     /\ Closed(x) => Closed(x)'
            BY <2>1, <2>4, <3>4 DEF Waits, Lives, Closed, OpenCfgs, ConnsOf
        <3> QED
            BY <2>1, <2>4, <3>3, <3>4 DEF WorkIsSomewhere
    <2> QED
        BY <2>2, <2>3, <2>4
<1>6. CASE Restored
    <2> PICK mine : mine = walk.cfg
        OBVIOUS
    <2>1. UNCHANGED <<loaded, loose, gone>> /\ CountSuccess(mine)
        BY <1>6 DEF Restored, history
    <2>2. /\ st' \in SoundStores /\ mine \in Cfgs /\ nextConn \notin DOMAIN st.conns
          /\ DOMAIN st'.conns = DOMAIN st.conns \cup {nextConn}
          /\ st'.conns[nextConn] = mine
          /\ \A x \in DOMAIN st.conns : st'.conns[x] = st.conns[x]
          /\ \A x \in DOMAIN st.sessions : st'.sessions[x] = st.sessions[x]
          /\ mine \in DOMAIN st.pending =>
                DOMAIN st'.sessions[nextConn].tabs = DOMAIN st.pending[mine].tabs
          /\ DOMAIN st'.pending = DOMAIN st.pending \ {mine}
          /\ \A x \in DOMAIN st.pending \ {mine} : st'.pending[x] = st.pending[x]
        BY <1>6, RestoredIs
    <2>3. walk'.cfg = None /\ walk'.todo = walk.todo /\ mine \notin walk.todo
        BY <1>1, <1>6 DEF Restored, Walk, WalkShape
    <2>4. restore'.failed = restore.failed \ {mine}
        BY <2>1, CountedIs
    <2>5. mine \in Tried /\ Tried' = Tried \ {mine}
        BY <2>2, <2>3, <2>4, NoneIsNoId DEF Tried
    <2> SUFFICES ASSUME NEW cfg \in DOMAIN loaded \ loose
                 PROVE  Waits(cfg)' \/ (cfg \notin Tried' /\ (Lives(cfg)' \/ Closed(cfg)'))
        BY <2>1 DEF WorkIsSomewhere
    <2>6. CASE cfg = mine
        <3>1. Waits(mine)
            BY <2>5, <2>6 DEF WorkIsSomewhere
        <3>2. ConnsOf(st', mine) = {nextConn}
            <4>1. \A x \in DOMAIN st.conns : st.conns[x] # mine
                BY <3>1 DEF Waits, OpenCfgs
            <4> QED
                BY <2>2, <4>1, RoomsOfOne
        <3>3. DOMAIN loaded[mine].tabs \ gone \subseteq DOMAIN st'.sessions[nextConn].tabs
            BY <2>2, <3>1 DEF Waits
        <3>4. Lives(mine)'
            BY <2>1, <2>2, <3>2, <3>3 DEF Lives
        <3> QED
            BY <2>5, <2>6, <3>4
    <2>7. CASE cfg # mine
        <3>1. (Waits(cfg) => Waits(cfg)') /\ (Lives(cfg) => Lives(cfg)')
            BY <1>1, <2>1, <2>2, <2>7, OthersRoomsStay
        <3>2. Closed(cfg) => Closed(cfg)'
            BY <2>1 DEF Closed
        <3> QED
            BY <2>5, <3>1, <3>2 DEF WorkIsSomewhere
    <2> QED
        BY <2>6, <2>7
<1>7. CASE \E q \in Clicks : Opened(q)
    <2>1. PICK q \in Clicks : Opened(q)
        BY <1>7
    <2> DEFINE mine == opens[q]
    <2>2. /\ UNCHANGED <<walk, restore, loaded, gone>> /\ mine \in Cfgs
          /\ loose' = IF mine \in DOMAIN st.pending \cup OpenCfgs(st)
                      THEN loose \cup {mine} ELSE loose
        BY <2>1 DEF Opened, OthersShape
    <2>3. /\ st' \in SoundStores /\ nextConn \notin DOMAIN st.conns
          /\ DOMAIN st'.conns = DOMAIN st.conns \cup {nextConn}
          /\ st'.conns[nextConn] = mine
          /\ \A x \in DOMAIN st.conns : st'.conns[x] = st.conns[x]
          /\ \A x \in DOMAIN st.sessions : st'.sessions[x] = st.sessions[x]
          /\ st'.pending = st.pending
        BY <2>1, <2>2, OpenedIs
    <2>4. Tried' = Tried
        BY <2>2 DEF Tried
    <2> HIDE DEF mine
    <2> SUFFICES ASSUME NEW cfg \in DOMAIN loaded \ loose'
                 PROVE  Waits(cfg)' \/ (cfg \notin Tried' /\ (Lives(cfg)' \/ Closed(cfg)'))
        BY <2>2 DEF WorkIsSomewhere
    <2>5. cfg \notin loose
        BY <2>2
    <2>6. Closed(cfg) => Closed(cfg)'
        BY <2>2 DEF Closed
    <2>7. CASE cfg = mine
        <3>1. cfg \notin DOMAIN st.pending /\ cfg \notin OpenCfgs(st)
            BY <2>2, <2>7
        <3>2. ~Waits(cfg) /\ ~Lives(cfg)
            BY <1>1, <3>1, RoomsOfOne DEF Waits, Lives
        <3> QED
            BY <2>4, <2>5, <2>6, <3>2 DEF WorkIsSomewhere
    <2>8. CASE cfg # mine
        <3>1. (Waits(cfg) => Waits(cfg)') /\ (Lives(cfg) => Lives(cfg)')
            BY <1>1, <2>2, <2>3, <2>8, OthersRoomsStay
        <3> QED
            BY <2>4, <2>5, <2>6, <3>1 DEF WorkIsSomewhere
    <2> QED
        BY <2>7, <2>8
<1>8. CASE Disconnected
    <2>1. UNCHANGED <<walk, restore, loaded, loose>>
        BY <1>8 DEF Disconnected
    <2>2. PICK gonec \in closing :
            st' \in SoundStores /\ Loses(st, st', gonec) /\ gone' = gone \cup TabsOf(gonec)
        BY <1>8, DisconnectedIs
    <2>3. Tried' = Tried
        BY <2>1 DEF Tried
    <2> SUFFICES ASSUME NEW cfg \in DOMAIN loaded \ loose
                 PROVE  Waits(cfg)' \/ (cfg \notin Tried' /\ (Lives(cfg)' \/ Closed(cfg)'))
        BY <2>1 DEF WorkIsSomewhere
    <2>4. Waits(cfg) => Waits(cfg)'
        BY <2>1, <2>2 DEF Waits, Loses, OpenCfgs
    <2>5. Closed(cfg) => Closed(cfg)'
        BY <2>1, <2>2 DEF Closed
    <2>6. ASSUME Lives(cfg) PROVE Lives(cfg)' \/ Closed(cfg)'
        <3>1. PICK c \in DOMAIN st.conns :
                /\ ConnsOf(st, cfg) = {c}
                /\ DOMAIN loaded[cfg].tabs \ gone \subseteq DOMAIN st.sessions[c].tabs
            BY <2>6 DEF Lives
        <3>2. c \in DOMAIN st.sessions
            BY <1>1, StoreFields
        <3>3. CASE c = gonec
            <4>1. TabsOf(c) = DOMAIN st.sessions[c].tabs
                BY <3>2 DEF TabsOf
            <4>2. DOMAIN loaded[cfg].tabs \subseteq gone'
                BY <2>2, <3>1, <3>3, <4>1
            <4> QED
                BY <2>1, <4>2 DEF Closed
        <3>4. CASE c # gonec
            <4>1. /\ c \in DOMAIN st'.conns /\ ConnsOf(st', cfg) = {c}
                  /\ st'.sessions[c] = st.sessions[c] /\ cfg \notin DOMAIN st'.pending
                BY <2>2, <2>6, <3>1, <3>2, <3>4 DEF Loses, ConnsOf, Lives
            <4>2. DOMAIN loaded[cfg].tabs \ gone' \subseteq DOMAIN st'.sessions[c].tabs
                BY <2>2, <3>1, <4>1
            <4> QED
                BY <2>1, <4>1, <4>2 DEF Lives
        <3> QED
            BY <3>3, <3>4
    <2> QED
        BY <2>3, <2>4, <2>5, <2>6 DEF WorkIsSomewhere
<1>9. CASE Quit
    <2>1. loaded' = <<>>
        BY <1>9 DEF Quit
    <2> QED
        BY <2>1 DEF WorkIsSomewhere
<1> QED
    BY <1>2, <1>3, <1>4, <1>5, <1>6, <1>7, <1>8, <1>9
    DEF Next, WalkStep, ByHand, Tabs, Quiet, OnTabs

-----------------------------------------------------------------------------
LEMMA StepKeeps == IInv /\ [Next]_vars => IInv'
<1> SUFFICES ASSUME IInv, [Next]_vars PROVE IInv'
    OBVIOUS
<1>1. /\ StoreSound /\ WalkShape /\ Budget /\ OthersShape /\ Races /\ WorkIsSomewhere
    BY DEF IInv, Shapes
<1>2. CASE Next
    <2>1. StoreSound'
        BY <1>1, <1>2, StoreStep
    <2>2. WalkShape' /\ Budget'
        BY <1>1, <1>2, WalkStepKeeps
    <2>3. OthersShape'
        BY <1>1, <1>2, OthersStep
    <2>4. Races'
        BY <1>1, <1>2, RacesStep
    <2>5. WorkIsSomewhere'
        BY <1>1, <1>2, WorkStep
    <2> QED
        BY <2>1, <2>2, <2>3, <2>4, <2>5 DEF IInv, Shapes
<1>3. CASE UNCHANGED vars
    <2>1. UNCHANGED <<st, host, up, walk, restore, opens, closing, timer, file, nextConn,
                      nextTab, acts, loaded, gone, loose, raced>>
        BY <1>3 DEF vars, ids, history
    <2>2. Tried' = Tried
        BY <2>1 DEF Tried
    <2>3. StoreSound' /\ WalkShape' /\ Budget' /\ OthersShape'
        BY <1>1, <2>1, <2>2 DEF StoreSound, WalkShape, Budget, OthersShape
    <2>4. Races'
        BY <1>1, <2>1, NoNewPair DEF FewerRooms, FewerUnderWay
    <2>5. WorkIsSomewhere'
        BY <1>1, <2>1, <2>2, WorkStays DEF SameRooms
    <2> QED
        BY <2>3, <2>4, <2>5 DEF IInv, Shapes
<1> QED
    BY <1>2, <1>3

\* The invariant of the workspace: what the theorems below follow from.
THEOREM WorkspaceHolds == Spec => []IInv
<1>1. IInv /\ [Next]_vars => IInv'
    BY StepKeeps
<1> QED
    BY InitHolds, <1>1, PTL DEF Spec

\* Every variable keeps its type, and restore never counts more successes than it has
\* connections to open.
THEOREM WorkspaceTypes == Spec => []TypeOK
<1>1. IInv => TypeOK
    <2> SUFFICES ASSUME IInv PROVE TypeOK
        OBVIOUS
    <2>1. StoreSound /\ WalkShape /\ Budget /\ OthersShape
        BY DEF IInv, Shapes
    <2>2. st \in SoundStores /\ nextConn \in Ids /\ nextTab \in Ids
        BY <2>1 DEF StoreSound
    <2>3. /\ DOMAIN st.conns \subseteq Ids /\ DOMAIN st.sessions \subseteq Ids
          /\ \A c \in DOMAIN st.conns : st.conns[c] \in Cfgs
          /\ st.shown \in Ids \cup {None} /\ st.sel \in Ids \cup {None}
        BY <2>2, StoreFields
    <2>4. /\ walk.pc \in WalkPcs /\ restore.phase \in Phases /\ restore.failed \subseteq Cfgs
          /\ restore.succeeded \in Nat /\ restore.total \in Nat /\ Tried \in SUBSET Cfgs
          /\ (walk.pc = "connect") = (walk.cfg \in Cfgs)
        BY <2>1, WalkFields DEF WalkShape
    <2>5. Cardinality(Tried) \in Nat
        BY <2>4, Counted
    <2>6. restore.succeeded \in 0..restore.total
        BY <2>1, <2>4, <2>5 DEF Budget
    <2> QED
        BY <2>1, <2>2, <2>3, <2>4, <2>6 DEF TypeOK, OthersShape
<1> QED
    BY WorkspaceHolds, <1>1, PTL

\* Whatever restore, the hand and the tabs do in between: the root copy is the session that
\* is shown, an active tab exists, sessions and connections go together.
THEOREM StoreStaysCoherent == Spec => []StoreIsCoherent
<1>1. IInv => StoreIsCoherent
    BY SoundIsCoherent DEF IInv, Shapes, StoreSound, StoreIsCoherent
<1> QED
    BY WorkspaceHolds, <1>1, PTL

\* Two sessions of one host only come from two connects that were under way at once.
THEOREM TwinsNeedARace == Spec => []TwinsOnlyByRace
<1>1. IInv => TwinsOnlyByRace
    BY DEF IInv, Races
<1> QED
    BY WorkspaceHolds, <1>1, PTL

\* A tab of the last session is in every save until somebody closes it.
THEOREM LastSessionIsSaved == Spec => []WorkSaved
<1>1. IInv => WorkSaved
    <2> SUFFICES ASSUME IInv, NEW cfg \in DOMAIN loaded \ loose,
                        NEW t \in DOMAIN loaded[cfg].tabs \ gone
                 PROVE  /\ cfg \in DoSave(st).activeCfgIds
                        /\ t \in DOMAIN DoSave(st).perConnection[cfg].tabs
        BY DEF WorkSaved
    <2>1. st \in SoundStores
        BY DEF IInv, Shapes, StoreSound
    <2>2. Waits(cfg) \/ Lives(cfg)
        BY DEF IInv, WorkIsSomewhere, Closed
    <2>3. CASE Waits(cfg)
        <3>1. ConnsOf(st, cfg) = {} /\ cfg \in DOMAIN st.pending
            BY <2>1, <2>3, RoomsOfOne DEF Waits
        <3>2. /\ cfg \in DoSave(st).activeCfgIds
              /\ DoSave(st).perConnection[cfg] = st.pending[cfg]
            BY <2>1, <3>1, SavedIs
        <3> QED
            BY <2>3, <3>2 DEF Waits
    <2>4. CASE Lives(cfg)
        <3>1. PICK c \in DOMAIN st.conns :
                /\ ConnsOf(st, cfg) = {c}
                /\ DOMAIN loaded[cfg].tabs \ gone \subseteq DOMAIN st.sessions[c].tabs
            BY <2>4 DEF Lives
        <3>2. cfg \in Cfgs
            <4>1. c \in ConnsOf(st, cfg)
                BY <3>1
            <4>2. st.conns[c] = cfg
                BY <4>1 DEF ConnsOf
            <4> QED
                BY <2>1, <3>1, <4>2, StoreFields
        <3>3. /\ cfg \in DoSave(st).activeCfgIds
              /\ DoSave(st).perConnection[cfg] = st.sessions[c]
            BY <2>1, <3>1, <3>2, SavedIs
        <3> QED
            BY <3>1, <3>3
    <2> QED
        BY <2>2, <2>3, <2>4
<1> QED
    BY WorkspaceHolds, <1>1, PTL
=============================================================================
