------------------------- MODULE SessionGroupsProofs -------------------------
(* Proofs about the two parts that keep ids of saved connections.  First the  *)
(* tree: what SessionGroups.cfg checks for three groups and three writes, for *)
(* every set of groups, connections and windows and any number of writes.     *)
(* Then the MCP server: what McpServer.cfg checks for two calls, one request  *)
(* and two servers, for every number of them.                                 *)
EXTENDS SessionGroups, McpServer, TLAPS

-----------------------------------------------------------------------------
(* Facts about parent functions, each for one way the code changes them.      *)

(* A group moved under a root group, or to the root, closes no cycle.         *)
LEMMA GraftKeepsForest ==
    ASSUME NEW gs \in Parents, Forest(gs), NEW g \in Groups, NEW p \in Places \cup {Absent},
           p \in Groups => p # g /\ gs[p] \notin Groups
    PROVE  Forest([gs EXCEPT ![g] = p])
<1> DEFINE new == [gs EXCEPT ![g] = p]
<1> SUFFICES ASSUME NEW S \in SUBSET Groups, S # {}, \A h \in S : new[h] \in S
             PROVE  FALSE
    BY DEF Forest
<1>1. CASE g \in S
    <2>1. p \in S /\ p # g
        BY <1>1 DEF Parents
    <2>2. new[p] = gs[p]
        BY <2>1 DEF Parents
    <2> QED
        BY <2>1, <2>2
<1>2. CASE g \notin S
    <2>1. \A h \in S : gs[h] \in S
        BY <1>2 DEF Parents
    <2> QED
        BY <2>1 DEF Forest
<1> QED
    BY <1>1, <1>2

(* A new group, which no group has as its parent, closes none anywhere.       *)
LEMMA LeafKeepsForest ==
    ASSUME NEW gs \in Parents, Forest(gs), NEW g \in Groups, NEW p \in Places \cup {Absent},
           p # g, \A h \in Groups : gs[h] # g
    PROVE  Forest([gs EXCEPT ![g] = p])
<1> DEFINE new == [gs EXCEPT ![g] = p]
<1> SUFFICES ASSUME NEW S \in SUBSET Groups, S # {}, \A h \in S : new[h] \in S
             PROVE  FALSE
    BY DEF Forest
<1> DEFINE T == S \ {g}
<1>1. T # {}
    BY DEF Parents
<1>2. PICK h \in T : gs[h] \notin T
    BY <1>1 DEF Forest
<1>3. new[h] = gs[h]
    BY <1>2 DEF Parents
<1> QED
    BY <1>2, <1>3

(* Groups removed close none.                                                 *)
LEMMA PruneKeepsForest ==
    ASSUME NEW gs \in Parents, Forest(gs), NEW D, IdsDiffer
    PROVE  Forest([h \in Groups |-> IF h \in D THEN Absent ELSE gs[h]])
<1> DEFINE new == [h \in Groups |-> IF h \in D THEN Absent ELSE gs[h]]
<1> SUFFICES ASSUME NEW S \in SUBSET Groups, S # {}, \A h \in S : new[h] \in S
             PROVE  FALSE
    BY DEF Forest
<1>1. \A h \in S : h \notin D /\ gs[h] \in S
    BY DEF IdsDiffer
<1> QED
    BY <1>1 DEF Forest

(* The payload of an import closes none: its groups have their parents in it. *)
LEMMA MergeKeepsForest ==
    ASSUME NEW gs \in Parents, Forest(gs), NEW e \in Exports, IdsDiffer
    PROVE  Forest([g \in Groups |-> IF e.groups[g] # Absent THEN e.groups[g] ELSE gs[g]])
<1> DEFINE new == [g \in Groups |-> IF e.groups[g] # Absent THEN e.groups[g] ELSE gs[g]]
<1> SUFFICES ASSUME NEW S \in SUBSET Groups, S # {}, \A h \in S : new[h] \in S
             PROVE  FALSE
    BY DEF Forest
<1>0. /\ e.groups \in Parents /\ Forest(e.groups)
      /\ \A g \in Groups : e.groups[g] \in Has(e.groups) \cup {Root, Absent}
    BY DEF Exports
<1> DEFINE T == S \cap Has(e.groups)
<1>1. CASE T = {}
    <2>1. \A h \in S : gs[h] \in S
        BY <1>1 DEF Has
    <2> QED
        BY <2>1 DEF Forest
<1>2. CASE T # {}
    <2>1. PICK h \in T : e.groups[h] \notin T
        BY <1>0, <1>2 DEF Forest, Has
    <2>2. e.groups[h] \in S
        BY <2>1 DEF Has
    <2> QED
        BY <1>0, <2>1, <2>2 DEF IdsDiffer
<1> QED
    BY <1>1, <1>2

-----------------------------------------------------------------------------
(* The invariant: as long as no write was misled, every group that anything   *)
(* points at has been born; a window lists only groups and connections that   *)
(* have; and without a third level so far the tree is flat.                   *)
Known ==
    /\ \A i \in Instances : Has(view[i].groups) \subseteq born
    /\ ~misled => \A g \in Groups : groups[g] \in Groups => groups[g] \in born

DeepSeen == deep \/ Flat(groups)

IInv == TypeOK /\ Known /\ DeepSeen /\ ConnsGrouped /\ NoCycle /\ OrphanOnlyByDepth

LEMMA InitIInv == Init => IInv
<1> SUFFICES ASSUME Init PROVE IInv
    OBVIOUS
<1>1. PICK e \in Exports : /\ groups = e.groups /\ conns = e.conns
                           /\ view = [i \in Instances |-> e]
                           /\ born = Has(groups) \cup {c \in Conns : conns[c] # Absent}
    BY DEF Init
<1>2. e \in [groups : Parents, conns : Homes]
    BY DEF Exports
<1>3. TypeOK
    <2>1. groups \in Parents /\ conns \in Homes
        BY <1>1, <1>2
    <2>2. view \in [Instances -> [groups : Parents, conns : Homes]]
        BY <1>1, <1>2
    <2>3. born \in SUBSET (Groups \cup Conns) /\ Has(groups) \subseteq born
        BY <1>1 DEF Has
    <2>4. /\ selected \in [Instances -> Groups \cup {Absent}]
          /\ misled \in BOOLEAN /\ deep \in BOOLEAN /\ ops \in 0..MaxOps
        <3>1. 0 \in 0..MaxOps
            BY MaxOpsNat
        <3> QED
            BY <3>1 DEF Init
    <2> QED
        BY <2>1, <2>2, <2>3, <2>4 DEF TypeOK
<1>4. /\ \A g \in Groups : groups[g] \in Has(groups) \cup {Root, Absent}
      /\ \A c \in Conns : conns[c] \in Has(groups) \cup {Root, Absent}
      /\ Flat(groups) /\ Forest(groups)
    BY <1>1 DEF Exports
<1>5. Known
    BY <1>1, <1>4, IdsDiffer DEF Known
<1> QED
    BY <1>3, <1>4, <1>5 DEF IInv, DeepSeen, ConnsGrouped, NoCycle, OrphanOnlyByDepth

-----------------------------------------------------------------------------
(* Steps that write the parent of one group: g gets parent p.  It is safe     *)
(* where p is the root or, unless the write is misled, a group that exists    *)
(* and either is at the root, or g is new, or p is the parent g already has.  *)
LEMMA SaveGroupStep ==
    ASSUME IInv, NEW g \in Groups, NEW p \in Places, SaveGroup(g, p),
           NEW B \in SUBSET (Groups \cup Conns), born' = born \cup B, g \in born \cup B,
           misled' \in BOOLEAN, misled => misled',
           ~misled' /\ p \in Groups =>
               \/ groups[g] = p
               \/ /\ p \in Has(groups)
                  /\ \/ groups[p] = Root /\ p # g
                     \/ g \notin born,
           UNCHANGED <<conns, view>>, selected' \in [Instances -> Groups \cup {Absent}], ops' \in 0..MaxOps
    PROVE  IInv'
<1> USE DEF SaveGroup, WriteGroups
<1>0. groups \in Parents /\ groups' = [groups EXCEPT ![g] = p]
    BY DEF IInv, TypeOK
<1>1. TypeOK'
    <2>1. groups' \in Parents
        BY <1>0 DEF Parents
    <2>2. Has(groups)' \subseteq born'
        BY <1>0 DEF IInv, TypeOK, Has, Parents
    <2> QED
        BY <2>1, <2>2 DEF IInv, TypeOK
<1>2. DeepSeen'
    BY DEF DeepSeen, IInv, TypeOK
<1>3. ASSUME ~misled' PROVE ~misled
    BY <1>3
<1>4. ASSUME ~misled' PROVE p \in Groups => p \in born
    BY <1>3, <1>4 DEF IInv, Known, TypeOK
<1>5. Known'
    <2>1. ASSUME ~misled', NEW h \in Groups, groups'[h] \in Groups PROVE groups'[h] \in born'
        BY <1>0, <1>3, <1>4, <2>1 DEF IInv, Known, Parents
    <2> QED
        BY <2>1 DEF IInv, Known
<1>6. ASSUME ~misled' PROVE Has(groups) \subseteq Has(groups')
    BY <1>0, IdsDiffer DEF Has, Parents, Places
<1>7. ConnsGrouped'
    BY <1>3, <1>6 DEF IInv, ConnsGrouped
<1>8. NoCycle'
    <2> SUFFICES ASSUME ~misled' PROVE Forest(groups')
        BY DEF NoCycle
    <2>1. Forest(groups)
        BY <1>3 DEF IInv, NoCycle
    <2>2. CASE p \notin Groups
        <3>1. Forest([groups EXCEPT ![g] = p])
            BY <1>0, <2>1, <2>2, GraftKeepsForest
        <3> QED
            BY <1>0, <3>1
    <2>3. CASE groups[g] = p
        <3>1. groups' = groups
            BY <1>0, <2>3 DEF Parents
        <3> QED
            BY <2>1, <3>1
    <2>4. CASE p \in Groups /\ groups[p] = Root /\ p # g
        <3>1. Forest([groups EXCEPT ![g] = p])
            BY <1>0, <2>1, <2>4, GraftKeepsForest, IdsDiffer
        <3> QED
            BY <1>0, <3>1
    <2>5. CASE p \in Has(groups) /\ g \notin born
        <3>1. \A h \in Groups : groups[h] # g
            BY <1>3, <2>5 DEF IInv, Known
        <3>2. p # g
            BY <2>5 DEF IInv, TypeOK
        <3>3. Forest([groups EXCEPT ![g] = p])
            BY <1>0, <2>1, <3>1, <3>2, LeafKeepsForest
        <3> QED
            BY <1>0, <3>3
    <2> QED
        BY <2>2, <2>3, <2>4, <2>5
<1>9. OrphanOnlyByDepth'
    <2> SUFFICES ASSUME ~misled', ~deep', NEW h \in Groups
                 PROVE  groups'[h] \in Has(groups') \cup {Root, Absent}
        BY DEF OrphanOnlyByDepth
    <2>1. \A k \in Groups : groups[k] \in Has(groups) \cup {Root, Absent}
        BY <1>3 DEF IInv, OrphanOnlyByDepth, TypeOK
    <2>2. p \in Has(groups) \cup {Root}
        BY <1>3, <2>1, IdsDiffer DEF Places
    <2> QED
        BY <1>0, <1>6, <2>1, <2>2 DEF Parents
<1> QED
    BY <1>1, <1>2, <1>5, <1>7, <1>8, <1>9 DEF IInv

-----------------------------------------------------------------------------
LEMMA StepIInv == IInv /\ [Next]_vars => IInv'
<1> SUFFICES ASSUME IInv, [Next]_vars PROVE IInv'
    OBVIOUS
<1> USE DEF Count, Notice
<1>0. /\ groups \in Parents /\ conns \in Homes
      /\ view \in [Instances -> [groups : Parents, conns : Homes]]
    BY DEF IInv, TypeOK
<1>1. ASSUME NEW i \in Instances, ReloadGroups(i) \/ ReloadConns(i)
      PROVE  IInv'
    <2>1. view' \in [Instances -> [groups : Parents, conns : Homes]]
        BY <1>0, <1>1 DEF ReloadGroups, ReloadConns
    <2>2. \A j \in Instances : Has(view'[j].groups) \subseteq born
        BY <1>0, <1>1 DEF IInv, Known, TypeOK, ReloadGroups, ReloadConns
    <2>3. UNCHANGED <<groups, conns, selected, born, misled, deep, ops>>
        BY <1>1 DEF ReloadGroups, ReloadConns
    <2> QED
        BY <2>1, <2>2, <2>3
        DEF IInv, TypeOK, Known, DeepSeen, ConnsGrouped, NoCycle, OrphanOnlyByDepth
<1>2. ASSUME NEW i \in Instances, NEW g \in Groups \cup {Absent}, Select(i, g)
      PROVE  IInv'
    BY <1>2 DEF Select, IInv, TypeOK, Known, DeepSeen, ConnsGrouped, NoCycle, OrphanOnlyByDepth
<1>3. ASSUME NEW i \in Instances, NEW g \in Groups, NewGroup(i, g)
      PROVE  IInv'
    <2> DEFINE s == selected[i]
               p == IF s \notin Groups \/ view[i].groups[s] \in Groups THEN Root ELSE s
    <2>1. /\ p \in Places /\ SaveGroup(g, p) /\ g \notin born /\ born' = born \cup {g}
          /\ misled' = (misled \/ Stale(i, p))
          /\ selected' = [selected EXCEPT ![i] = g]
          /\ UNCHANGED <<conns, view>> /\ ops' \in 0..MaxOps
        BY <1>3, MaxOpsNat DEF NewGroup, Places, IInv, TypeOK
    <2>2. ASSUME ~misled', p \in Groups PROVE p \in Has(groups)
        BY <2>1, <2>2 DEF Stale, Has
    <2>3. selected' \in [Instances -> Groups \cup {Absent}] /\ misled' \in BOOLEAN
        BY <2>1 DEF IInv, TypeOK, Stale
    <2>4. {g} \in SUBSET (Groups \cup Conns) /\ g \in born \cup {g} /\ (misled => misled')
        BY <2>1
    <2> QED
        BY <2>1, <2>2, <2>3, <2>4, SaveGroupStep
<1>4. ASSUME NEW i \in Instances, NEW g \in Groups, RenameGroup(i, g)
      PROVE  IInv'
    <2> DEFINE p == view[i].groups[g]
    <2>1. /\ p \in Places /\ SaveGroup(g, p) /\ g \in born /\ born' = born \cup {}
          /\ misled' = (misled \/ (p \in Groups /\ groups[g] # p))
          /\ UNCHANGED <<conns, view, selected>> /\ ops' \in 0..MaxOps
        BY <1>0, <1>4, MaxOpsNat DEF RenameGroup, Places, Parents, IInv, TypeOK, Known, Has
    <2>2. selected' \in [Instances -> Groups \cup {Absent}] /\ misled' \in BOOLEAN
        BY <2>1 DEF IInv, TypeOK
    <2> QED
        BY <2>1, <2>2, SaveGroupStep
<1>5. ASSUME NEW i \in Instances, NEW o \in Groups, NEW g \in Groups, DuplicateGroup(i, o, g)
      PROVE  IInv'
    <2> DEFINE p == view[i].groups[o]
    <2>1. /\ p \in Places /\ SaveGroup(g, p) /\ g \notin born /\ born' = born \cup {g}
          /\ misled' = (misled \/ (p \in Groups /\ groups[p] = Absent))
          /\ UNCHANGED <<conns, view, selected>> /\ ops' \in 0..MaxOps
        BY <1>0, <1>5, MaxOpsNat DEF DuplicateGroup, Places, Parents, IInv, TypeOK
    <2>2. ASSUME ~misled', p \in Groups PROVE p \in Has(groups)
        BY <2>1, <2>2 DEF Has
    <2>3. selected' \in [Instances -> Groups \cup {Absent}] /\ misled' \in BOOLEAN
        BY <2>1 DEF IInv, TypeOK
    <2>4. {g} \in SUBSET (Groups \cup Conns) /\ g \in born \cup {g} /\ (misled => misled')
        BY <2>1
    <2> HIDE DEF p
    <2> QED
        BY <2>1, <2>2, <2>3, <2>4, SaveGroupStep
<1>6. ASSUME NEW i \in Instances, NEW g \in Groups, NEW target \in Places, DropGroup(i, g, target)
      PROVE  IInv'
    <2> DEFINE p == DropPlace(i, target)
    <2>1. /\ SaveGroup(g, p) /\ g \in born /\ born' = born \cup {}
          /\ misled' = (misled \/ Stale(i, p)) /\ target # g
          /\ UNCHANGED <<conns, view, selected>> /\ ops' \in 0..MaxOps
        BY <1>0, <1>6, MaxOpsNat DEF DropGroup, IInv, TypeOK, Known
    <2>2. p \in Places /\ (p \in Groups => p = target /\ view[i].groups[p] \notin Groups)
        BY IdsDiffer DEF DropPlace, Places
    <2>3. ASSUME ~misled', p \in Groups PROVE p \in Has(groups) /\ groups[p] = Root
        BY <1>0, <2>1, <2>2, <2>3 DEF Stale, Has, Parents, Places
    <2>4. selected' \in [Instances -> Groups \cup {Absent}] /\ misled' \in BOOLEAN
        BY <2>1 DEF IInv, TypeOK, Stale
    <2> QED
        BY <2>1, <2>2, <2>3, <2>4, SaveGroupStep
<1>7. ASSUME NEW i \in Instances, NEW c \in Conns, NEW home \in Places, SaveConnection(i, c, home)
      PROVE  IInv'
    <2>1. /\ conns' = [conns EXCEPT ![c] = home] /\ born' = born \cup {c}
          /\ misled' = (misled \/ (home \in Groups /\ groups[home] = Absent))
          /\ UNCHANGED <<groups, view, selected, deep>> /\ ops' \in 0..MaxOps
        BY <1>7, MaxOpsNat DEF SaveConnection, SaveConn, IInv, TypeOK
    <2>2. TypeOK'
        BY <1>0, <2>1 DEF IInv, TypeOK, Homes
    <2>3. ConnsGrouped'
        <3> SUFFICES ASSUME ~misled', NEW d \in Conns
                     PROVE  conns'[d] \in Has(groups) \cup {Root, Absent}
            BY <2>1 DEF ConnsGrouped
        <3>1. home \in Has(groups) \cup {Root}
            BY <2>1 DEF Has, Places
        <3> QED
            BY <1>0, <2>1, <3>1 DEF IInv, ConnsGrouped, Homes
    <2> QED
        BY <2>1, <2>2, <2>3 DEF IInv, Known, DeepSeen, NoCycle, OrphanOnlyByDepth
<1>8. ASSUME NEW i \in Instances, NEW c \in Conns, DeleteConnection(i, c)
      PROVE  IInv'
    <2>1. /\ conns' = [conns EXCEPT ![c] = Absent]
          /\ UNCHANGED <<groups, view, selected, born, misled, deep>> /\ ops' \in 0..MaxOps
        BY <1>8, MaxOpsNat DEF DeleteConnection, SaveConn, IInv, TypeOK
    <2>2. TypeOK'
        BY <1>0, <2>1 DEF IInv, TypeOK, Homes
    <2>3. ConnsGrouped'
        BY <1>0, <2>1 DEF IInv, ConnsGrouped, Homes
    <2> QED
        BY <2>1, <2>2, <2>3 DEF IInv, Known, DeepSeen, NoCycle, OrphanOnlyByDepth
<1>9. ASSUME NEW i \in Instances, NEW g \in Groups, NEW cascade \in BOOLEAN,
             DeleteSessionGroup(i, g, cascade)
      PROVE  IInv'
    <2> DEFINE D == Doomed(g)
    <2>1. /\ groups' = [h \in Groups |-> IF h \in D THEN Absent ELSE groups[h]]
          /\ deep' = (deep \/ ~Flat(groups'))
          /\ UNCHANGED <<view, born, misled>> /\ ops' \in 0..MaxOps
        BY <1>9, MaxOpsNat DEF DeleteSessionGroup, WriteGroups, IInv, TypeOK
    <2>2. \A c \in Conns : conns'[c] \in {Root, Absent} \/ (conns'[c] = conns[c] /\ conns[c] \notin D)
        BY <1>9 DEF DeleteSessionGroup, Rehomed
    <2>3. conns' \in Homes
        BY <1>0, <1>9 DEF DeleteSessionGroup, Rehomed, Homes, Places
    <2>4. selected' \in [Instances -> Groups \cup {Absent}]
        BY <1>9 DEF DeleteSessionGroup, Deselected, IInv, TypeOK
    <2>5. groups' \in Parents /\ Has(groups') = Has(groups) \ D
        BY <1>0, <2>1 DEF Parents, Has
    <2>6. TypeOK'
        BY <2>1, <2>3, <2>4, <2>5 DEF IInv, TypeOK
    <2>7. Known'
        BY <1>0, <2>1, IdsDiffer DEF IInv, Known
    <2>8. DeepSeen'
        BY <2>1 DEF DeepSeen, IInv, TypeOK
    <2>9. ConnsGrouped'
        BY <2>1, <2>2, <2>5 DEF IInv, ConnsGrouped
    <2>10. NoCycle'
        BY <1>0, <2>1, PruneKeepsForest, IdsDiffer DEF IInv, NoCycle
    <2>11. OrphanOnlyByDepth'
        <3> SUFFICES ASSUME ~misled, ~deep, NEW h \in Groups, h \notin D, groups[h] \in Groups
                     PROVE  groups[h] \in Has(groups) \ D
            BY <1>0, <2>1, <2>5 DEF OrphanOnlyByDepth, Parents, Places
        <3>1. groups[h] \in Has(groups) /\ Flat(groups)
            BY IdsDiffer DEF IInv, OrphanOnlyByDepth, DeepSeen
        <3>2. groups[h] # g
            BY IdsDiffer DEF Doomed, Has
        <3>3. groups[groups[h]] # g
            BY <3>1 DEF Flat
        <3> QED
            BY <3>1, <3>2, <3>3 DEF Doomed
    <2> QED
        BY <2>6, <2>7, <2>8, <2>9, <2>10, <2>11 DEF IInv
<1>10. ASSUME NEW e \in Exports, ImportConnections(e)
       PROVE  IInv'
    <2>1. /\ groups' = [g \in Groups |-> IF e.groups[g] # Absent THEN e.groups[g] ELSE groups[g]]
          /\ conns' = [c \in Conns |-> IF e.conns[c] # Absent THEN e.conns[c] ELSE conns[c]]
          /\ born' = born \cup Has(e.groups) \cup {c \in Conns : e.conns[c] # Absent}
          /\ deep' = (deep \/ ~Flat(groups'))
          /\ UNCHANGED <<view, selected, misled>> /\ ops' \in 0..MaxOps
        BY <1>10, MaxOpsNat DEF ImportConnections, WriteGroups, IInv, TypeOK
    <2>2. /\ e.groups \in Parents /\ e.conns \in Homes
          /\ \A g \in Groups : e.groups[g] \in Has(e.groups) \cup {Root, Absent}
          /\ \A c \in Conns : e.conns[c] \in Has(e.groups) \cup {Root, Absent}
        BY DEF Exports
    <2>3. groups' \in Parents /\ conns' \in Homes
        BY <1>0, <2>1, <2>2 DEF Parents, Homes
    <2>4. Has(groups') = Has(groups) \cup Has(e.groups)
        BY <1>0, <2>1, <2>2 DEF Has
    <2>5. TypeOK'
        <3>1. Has(groups') \subseteq born' /\ born' \in SUBSET (Groups \cup Conns)
            BY <2>1, <2>4 DEF IInv, TypeOK, Has
        <3> QED
            BY <2>1, <2>3, <3>1 DEF IInv, TypeOK
    <2>6. Known'
        BY <2>1, <2>2, IdsDiffer DEF IInv, Known
    <2>7. DeepSeen'
        BY <2>1 DEF DeepSeen, IInv, TypeOK
    <2>8. ConnsGrouped'
        BY <2>1, <2>2, <2>4 DEF IInv, ConnsGrouped
    <2>9. NoCycle'
        BY <1>0, <2>1, MergeKeepsForest, IdsDiffer DEF IInv, NoCycle
    <2>10. OrphanOnlyByDepth'
        BY <2>1, <2>2, <2>4 DEF IInv, OrphanOnlyByDepth, TypeOK
    <2> QED
        BY <2>5, <2>6, <2>7, <2>8, <2>9, <2>10 DEF IInv
<1>11. CASE UNCHANGED vars
    BY <1>11 DEF vars, IInv, TypeOK, Known, DeepSeen, ConnsGrouped, NoCycle, OrphanOnlyByDepth
<1> QED
    BY <1>1, <1>2, <1>3, <1>4, <1>5, <1>6, <1>7, <1>8, <1>9, <1>10, <1>11 DEF Next

(* The invariant holds in every state of every behaviour.                     *)
THEOREM Invariance == Spec => []IInv
<1>1. Init => IInv
    BY InitIInv
<1>2. IInv /\ [Next]_vars => IInv'
    BY StepIInv
<1> QED
    BY <1>1, <1>2, PTL DEF Spec

(* The file and the windows' copies keep their shape, whatever is stale.      *)
THEOREM TreeTypes == Spec => []TypeOK
<1>1. IInv => TypeOK
    BY DEF IInv
<1> QED
    BY <1>1, Invariance, PTL

(* Deleting groups and importing never leave a connection in a group that is  *)
(* gone (app_session_groups.go:68); only a misled write can.                  *)
THEOREM NoDanglingConnection == Spec => []ConnsGrouped
<1>1. IInv => ConnsGrouped
    BY DEF IInv
<1> QED
    BY <1>1, Invariance, PTL

(* No drag, rename, deletion or import makes a group its own ancestor         *)
(* (SessionManager/index.tsx:785); only a misled write can.                   *)
THEOREM NoGroupUnderItself == Spec => []NoCycle
<1>1. IInv => NoCycle
    BY DEF IInv
<1> QED
    BY <1>1, Invariance, PTL

(* A group loses its parent only where a third level was made before          *)
(* (app_session_groups.go:52), or by a misled write.                          *)
THEOREM OrphansNeedDepth == Spec => []OrphanOnlyByDepth
<1>1. IInv => OrphanOnlyByDepth
    BY DEF IInv
<1> QED
    BY <1>1, Invariance, PTL

-----------------------------------------------------------------------------
(* The MCP server.                                                            *)

(* The invariant of the MCP server.  A call that Stop or Start has let in holds *)
(* Server.mu (reveal reads the token without it); what a Start has loaded, and *)
(* what is served, is what mcp.json says unless a call is still to stop the   *)
(* server, or the application is about to quit.                               *)
Starting(p) == pc[p] = "listen" \/ (pc[p] \in {"token", "mint"} /\ op[p] # "reveal")
Pending == \E p \in Managers : pc[p] \in {"stop", "drain", "forget", "quit"}
SameAs(config, old) ==
    /\ config.enabled = old.enabled /\ config.port = old.port
    /\ config.write = old.write /\ config.ddl = old.ddl
    /\ config.allow \subseteq old.allow

StoppersKnown ==
    \A p \in Managers :
        /\ pc[p] \in {"stop", "drain"} => op[p] \in {"restart", "stop", "regenerate", "reset"}
        /\ pc[p] = "status" => op[p] = "regenerate"
HoldsServerMu == \A p \in Managers : pc[p] = "drain" \/ Starting(p) => mu = p
StartsWhatIsSaved ==
    \A p \in Managers : Starting(p) =>
        ~running /\ loaded[p].policy.enabled /\ (SameAs(disk, loaded[p].policy) \/ Pending)
ServesWhatIsSaved ==
    running => /\ served.policy.enabled /\ port[current] = served.policy.port
               /\ SameAs(disk, served.policy) \/ Pending
OneDrains ==
    \A s \in Servers :
        inst[s] = "draining" => current = s /\ \E p \in Managers : pc[p] = "drain"
RequestsAreServed ==
    \A r \in Requests : req[r].stage # "idle" =>
        /\ inst[req[r].server] \notin {"unused", "closed"}
        /\ /\ req[r].stage = "exec" /\ req[r].server = current
           /\ inst[current] = "up" /\ running
           => CheckExecutePolicy(served.policy, req[r].kind)

McpInv == /\ McpTypeOK /\ StoppersKnown /\ HoldsServerMu /\ StartsWhatIsSaved
          /\ ServesWhatIsSaved /\ OneDrains /\ RequestsAreServed

(* The invariant is enough: when no call is under way, nothing is pending.    *)
LEMMA McpInvSuffices ==
    ASSUME McpInv
    PROVE  McpTypeOK /\ ServedIsSaved /\ RevokedIsOver
<1>1. McpTypeOK
    BY DEF McpInv
<1>2. disk \in Configs /\ served.policy \in Configs
    BY <1>1 DEF McpTypeOK, Snapshot
<1>3. ASSUME Quiescent PROVE ~Pending /\ \A p \in Managers : pc[p] # "drain"
    BY <1>3 DEF Quiescent, Pending
<1>4. ASSUME Quiescent, running
      PROVE  /\ disk.allow \subseteq served.policy.allow
             /\ [served.policy EXCEPT !.allow = {}] = [disk EXCEPT !.allow = {}]
             /\ port[current] = disk.port
    <2>1. SameAs(disk, served.policy) /\ port[current] = served.policy.port
        BY <1>3, <1>4 DEF McpInv, ServesWhatIsSaved
    <2> QED
        BY <1>2, <2>1 DEF SameAs, Configs
<1>5. ASSUME Quiescent, NEW r \in Requests, req[r].stage = "exec", ~OutOfReach(req[r].server)
      PROVE  disk.enabled /\ CheckExecutePolicy(disk, req[r].kind)
    <2>1. req[r].server \in Servers /\ inst[req[r].server] \in
              {"unused", "up", "draining", "failed", "lost", "closed"}
        BY <1>1, <1>5 DEF McpTypeOK, NoReq
    <2>2. inst[req[r].server] = "up" /\ running /\ req[r].server = current
        BY <1>3, <1>5, <2>1 DEF McpInv, OneDrains, RequestsAreServed, OutOfReach
    <2>3. CheckExecutePolicy(served.policy, req[r].kind)
        BY <1>5, <2>2 DEF McpInv, RequestsAreServed
    <2>4. SameAs(disk, served.policy) /\ served.policy.enabled
        BY <1>3, <1>5, <2>2 DEF McpInv, ServesWhatIsSaved
    <2> QED
        BY <2>3, <2>4 DEF SameAs, CheckExecutePolicy
<1> QED
    BY <1>1, <1>4, <1>5 DEF ServedIsSaved, RevokedIsOver

LEMMA McpInitially ==
    ASSUME McpInit
    PROVE  McpInv
<1>1. DefaultConfig \in Configs /\ Updates \subseteq Configs
    BY ConstantsAssumption DEF DefaultConfig, Configs
<1>2. Unset \in Snapshot
    BY <1>1 DEF Unset, Snapshot, NoToken
<1>3. token \in Tokens \cup {NoToken} /\ issued \in 0..MaxTokens
    BY ConstantsAssumption DEF McpInit, Tokens, NoToken
<1>4. McpTypeOK
    BY <1>1, <1>2, <1>3, ConstantsAssumption DEF McpInit, McpTypeOK, Stages, Ops, NoServer
<1>5. StoppersKnown /\ HoldsServerMu /\ StartsWhatIsSaved /\ ServesWhatIsSaved
    BY DEF McpInit, StoppersKnown, HoldsServerMu, StartsWhatIsSaved, ServesWhatIsSaved, Starting
<1>6. OneDrains /\ RequestsAreServed
    BY DEF McpInit, OneDrains, RequestsAreServed, NoReq
<1> QED
    BY <1>4, <1>5, <1>6 DEF McpInv

-----------------------------------------------------------------------------
(* What the helpers of the model do to the call that takes the step, and that *)
(* they leave the other calls alone.                                          *)
Elsewhere(p) ==
    \A q \in Managers \ {p} : pc'[q] = pc[q] /\ op'[q] = op[q] /\ loaded'[q] = loaded[q]
CallsTyped ==
    /\ pc \in [Managers -> Stages] /\ op \in [Managers -> Ops]
    /\ loaded \in [Managers -> Snapshot]

LEMMA McpUnset == Unset \in Snapshot
BY ConstantsAssumption DEF Unset, Snapshot, NoToken, DefaultConfig, Configs

LEMMA McpReturn ==
    ASSUME CallsTyped, NEW p \in Managers, Return(p)
    PROVE  CallsTyped' /\ Elsewhere(p) /\ pc'[p] = "idle" /\ op'[p] = "none"
BY McpUnset DEF CallsTyped, Elsewhere, Return, Goto, Stages, Ops

LEMMA McpGoto ==
    ASSUME CallsTyped, NEW p \in Managers, NEW stage \in Stages, Goto(p, stage),
           UNCHANGED <<op, loaded>>
    PROVE  CallsTyped' /\ Elsewhere(p) /\ pc'[p] = stage /\ op'[p] = op[p]
BY DEF CallsTyped, Elsewhere, Goto

LEMMA McpAfterStop ==
    ASSUME CallsTyped, NEW p \in Managers, AfterStop(p),
           op[p] \in {"restart", "stop", "regenerate", "reset"}
    PROVE  CallsTyped' /\ Elsewhere(p) /\ pc'[p] \in {"start", "wipe", "idle"}
<1>1. CASE op[p] \in {"restart", "regenerate"}
    <2>1. Goto(p, "start") /\ UNCHANGED <<op, loaded>>
        BY <1>1 DEF AfterStop
    <2> QED
        BY <2>1, McpGoto DEF Stages
<1>2. CASE op[p] = "reset"
    <2>1. Goto(p, "wipe") /\ UNCHANGED <<op, loaded>>
        BY <1>2 DEF AfterStop
    <2> QED
        BY <2>1, McpGoto DEF Stages
<1>3. CASE op[p] = "stop"
    <2>1. Return(p)
        BY <1>3 DEF AfterStop
    <2> QED
        BY <2>1, McpReturn
<1> QED
    BY <1>1, <1>2, <1>3

LEMMA McpAfterToken ==
    ASSUME CallsTyped, NEW p \in Managers, NEW t \in Tokens \cup {NoToken}, AfterToken(p, t)
    PROVE  /\ CallsTyped' /\ Elsewhere(p) /\ pc'[p] \in {"idle", "listen"}
           /\ pc'[p] = "listen" => /\ op[p] # "reveal" /\ op'[p] = op[p]
                                   /\ loaded'[p].policy = loaded[p].policy
<1>1. CASE op[p] = "reveal"
    <2>1. Return(p)
        BY <1>1 DEF AfterToken
    <2> QED
        BY <2>1, McpReturn
<1>2. CASE op[p] # "reveal"
    <2>1. /\ pc' = [pc EXCEPT ![p] = "listen"] /\ op' = op
          /\ loaded' = [loaded EXCEPT ![p].token = t]
        BY <1>2 DEF AfterToken, Goto
    <2>2. loaded[p] \in Snapshot /\ loaded'[p] = [loaded[p] EXCEPT !.token = t]
        BY <2>1 DEF CallsTyped
    <2>3. loaded'[p] \in Snapshot /\ loaded'[p].policy = loaded[p].policy
        BY <2>2 DEF Snapshot
    <2> QED
        BY <1>2, <2>1, <2>3 DEF CallsTyped, Elsewhere, Stages
<1> QED
    BY <1>1, <1>2

-----------------------------------------------------------------------------
(* A step of one management call that leaves the server alone: what it owes the *)
(* invariant is that it takes the lock from nobody, that a change of mcp.json is *)
(* followed by a Stop (or by the end), and that a call past the check of running *)
(* and enabled has loaded what is saved.                                      *)
LEMMA McpCallStep ==
    ASSUME McpInv, NEW p \in Managers,
           UNCHANGED <<serverVars, req>>,
           disk' \in Configs, token' \in Tokens \cup {NoToken}, issued' \in 0..MaxTokens,
           mu' \in Managers \cup {NoManager}, \A q \in Managers \ {p} : mu = q => mu' = q,
           CallsTyped', Elsewhere(p),
           disk' = disk \/ pc'[p] \in {"stop", "forget"},
           pc[p] # "drain" /\ pc'[p] # "drain",
           pc'[p] = "stop" => op'[p] \in {"restart", "stop", "regenerate", "reset"},
           pc'[p] = "status" => op'[p] = "regenerate",
           pc[p] \in {"stop", "forget", "quit"} =>
               pc'[p] \in {"stop", "forget", "quit"} \/ (~running /\ mu = NoManager),
           Starting(p)' =>
               /\ mu' = p /\ ~running /\ disk' = disk
               /\ loaded'[p].policy.enabled /\ (SameAs(disk, loaded'[p].policy) \/ Pending')
    PROVE  McpInv'
<1> USE DEF McpInv
<1>1. McpTypeOK'
    BY DEF McpTypeOK, CallsTyped, serverVars
<1>2. StoppersKnown'
    BY DEF StoppersKnown, Elsewhere
<1>3. ASSUME NEW q \in Managers, q # p PROVE Starting(q)' <=> Starting(q)
    BY <1>3 DEF Elsewhere, Starting
<1>4. HoldsServerMu'
    BY <1>3 DEF HoldsServerMu, Elsewhere
<1>5. Pending => Pending' \/ (~running /\ mu = NoManager)
    BY DEF Pending, Elsewhere
<1>6. disk' # disk => Pending'
    BY DEF Pending
<1>7. StartsWhatIsSaved'
    <2>1. ASSUME NEW q \in Managers, q # p, Starting(q)
          PROVE  /\ ~running' /\ loaded'[q].policy.enabled
                 /\ SameAs(disk', loaded'[q].policy) \/ Pending'
        <3>1. mu # NoManager
            BY <2>1, ConstantsAssumption DEF HoldsServerMu
        <3>2. loaded'[q] = loaded[q] /\ running' = running
            BY <2>1 DEF Elsewhere, serverVars
        <3> QED
            BY <1>5, <1>6, <2>1, <3>1, <3>2 DEF StartsWhatIsSaved
    <2>2. ASSUME Starting(p)'
          PROVE  /\ ~running' /\ loaded'[p].policy.enabled
                 /\ SameAs(disk', loaded'[p].policy) \/ Pending'
        BY <2>2 DEF serverVars
    <2> QED
        BY <1>3, <2>1, <2>2 DEF StartsWhatIsSaved, SameAs
<1>8. ServesWhatIsSaved'
    <2>1. SameAs(disk, served.policy) /\ disk' = disk => SameAs(disk', served'.policy)
        BY DEF serverVars
    <2> QED
        BY <1>5, <1>6, <2>1 DEF ServesWhatIsSaved, serverVars, SameAs
<1>9. OneDrains'
    BY DEF OneDrains, Elsewhere, serverVars
<1>10. RequestsAreServed'
    BY DEF RequestsAreServed, serverVars
<1> QED
    BY <1>1, <1>2, <1>4, <1>7, <1>8, <1>9, <1>10

LEMMA McpTyped ==
    ASSUME McpInv
    PROVE  /\ CallsTyped /\ disk \in Configs /\ token \in Tokens \cup {NoToken}
           /\ issued \in 0..MaxTokens /\ mu \in Managers \cup {NoManager}
           /\ NoManager \notin Managers /\ DefaultConfig \in Configs /\ Updates \subseteq Configs
BY ConstantsAssumption DEF McpInv, McpTypeOK, CallsTyped, DefaultConfig, Configs

LEMMA McpBegin ==
    ASSUME CallsTyped, NEW p \in Managers, NEW call, NEW o \in Ops, NEW stage \in Stages,
           Begin(p, call, o, stage)
    PROVE  /\ CallsTyped' /\ Elsewhere(p) /\ pc[p] = "idle"
           /\ pc'[p] = stage /\ op'[p] = o
BY DEF CallsTyped, Elsewhere, Begin, Goto

LEMMA McpUpdateMCPConfig ==
    ASSUME McpInv, NEW p \in Managers, NEW config \in Updates,
           UpdateMCPConfig(p, config)
    PROVE  McpInv'
<1> DEFINE o == IF config.enabled THEN "restart" ELSE "stop"
<1>1. o \in Ops /\ o \in {"restart", "stop"} /\ "stop" \in Stages
    BY DEF Ops, Stages
<1>2. Begin(p, "update", o, "stop") /\ disk' = config
      /\ UNCHANGED <<token, issued, mu, serverVars, req>>
    BY DEF UpdateMCPConfig
<1>3. CallsTyped' /\ Elsewhere(p) /\ pc[p] = "idle" /\ pc'[p] = "stop" /\ op'[p] = o
    BY <1>1, <1>2, McpTyped, McpBegin
<1> QED
    BY <1>1, <1>2, <1>3, McpTyped, McpCallStep DEF Starting

LEMMA McpOtherCalls ==
    ASSUME McpInv, NEW p \in Managers,
           \/ StartMCPServer(p) \/ StopMCPServer(p) \/ ResetAllUserData(p)
           \/ RegenerateMCPToken(p) \/ RevealMCPToken(p)
    PROVE  McpInv'
<1> DEFINE Frame == UNCHANGED <<disk, mu, serverVars, req>>
                    /\ token' \in Tokens \cup {NoToken} /\ issued' \in 0..MaxTokens
<1>1. PICK call, o \in Ops, stage \in Stages :
          /\ Begin(p, call, o, stage) /\ Frame
          /\ stage = "stop" => o \in {"stop", "reset"}
          /\ stage = "status" => o = "regenerate"
          /\ stage = "token" => o = "reveal"
          /\ stage \in {"start", "stop", "status", "token"}
    <2>1. CASE StartMCPServer(p)
        <3>1. Begin(p, "start", "start", "start") /\ Frame
            BY <2>1, McpTyped DEF StartMCPServer
        <3> QED
            BY <3>1 DEF Ops, Stages
    <2>2. CASE StopMCPServer(p)
        <3>1. Begin(p, "stop", "stop", "stop") /\ Frame
            BY <2>2, McpTyped DEF StopMCPServer
        <3> QED
            BY <3>1 DEF Ops, Stages
    <2>3. CASE ResetAllUserData(p)
        <3>1. Begin(p, "reset", "reset", "stop") /\ Frame
            BY <2>3, McpTyped DEF ResetAllUserData
        <3> QED
            BY <3>1 DEF Ops, Stages
    <2>4. CASE RegenerateMCPToken(p)
        <3>1. Begin(p, "regenerate", "regenerate", "status") /\ Frame
            BY <2>4, McpTyped, ConstantsAssumption DEF RegenerateMCPToken, Tokens
        <3> QED
            BY <3>1 DEF Ops, Stages
    <2>5. CASE RevealMCPToken(p)
        <3>1. Begin(p, "reveal", "reveal", "token") /\ Frame
            BY <2>5, McpTyped DEF RevealMCPToken
        <3> QED
            BY <3>1 DEF Ops, Stages
    <2> QED
        BY <2>1, <2>2, <2>3, <2>4, <2>5
<1>2. CallsTyped' /\ Elsewhere(p) /\ pc[p] = "idle" /\ pc'[p] = stage /\ op'[p] = o
    BY <1>1, McpTyped, McpBegin
<1>3. ~Starting(p)'
    BY <1>1, <1>2 DEF Starting
<1> QED
    BY <1>1, <1>2, <1>3, McpTyped, McpCallStep

LEMMA McpStatus ==
    ASSUME McpInv, NEW p \in Managers, Status(p)
    PROVE  McpInv'
<1>1. pc[p] = "status" /\ op[p] = "regenerate"
    BY DEF Status, McpInv, StoppersKnown
<1>2. /\ CallsTyped' /\ Elsewhere(p) /\ pc'[p] \in {"idle", "stop"}
      /\ pc'[p] = "stop" => op'[p] = "regenerate"
    BY <1>1, McpTyped, McpGoto, McpReturn DEF Status, Stages
<1>3. UNCHANGED <<disk, token, issued, mu, serverVars, req>>
    BY DEF Status
<1> QED
    BY <1>1, <1>2, <1>3, McpTyped, McpCallStep DEF Starting

LEMMA McpReset ==
    ASSUME McpInv, NEW p \in Managers, Wipe(p) \/ DeleteToken(p)
    PROVE  McpInv'
<1>1. CASE Wipe(p)
    <2>1. CallsTyped' /\ Elsewhere(p) /\ pc[p] = "wipe" /\ pc'[p] = "forget"
        BY <1>1, McpTyped, McpGoto DEF Wipe, Stages
    <2> QED
        BY <1>1, <2>1, McpTyped, McpCallStep DEF Starting, Wipe
<1>2. CASE DeleteToken(p)
    <2>1. CallsTyped' /\ Elsewhere(p) /\ pc[p] = "forget" /\ pc'[p] = "quit"
        BY <1>2, McpTyped, McpGoto DEF DeleteToken, Stages
    <2> QED
        BY <1>2, <2>1, McpTyped, McpCallStep DEF Starting, DeleteToken
<1> QED
    BY <1>1, <1>2

LEMMA McpStopNotRunning ==
    ASSUME McpInv, NEW p \in Managers, StopNotRunning(p)
    PROVE  McpInv'
<1>1. pc[p] = "stop" /\ mu = NoManager /\ ~running
      /\ UNCHANGED <<disk, token, issued, mu, serverVars, req>> /\ AfterStop(p)
    BY DEF StopNotRunning
<1>2. op[p] \in {"restart", "stop", "regenerate", "reset"}
    BY <1>1 DEF McpInv, StoppersKnown
<1>3. CallsTyped' /\ Elsewhere(p) /\ pc'[p] \in {"start", "wipe", "idle"}
    BY <1>1, <1>2, McpTyped, McpAfterStop
<1> QED
    BY <1>1, <1>3, McpTyped, McpCallStep DEF Starting

LEMMA McpBeginsStart ==
    ASSUME McpInv, NEW p \in Managers, StartRefused(p) \/ LoadFails(p) \/ Load(p)
    PROVE  McpInv'
<1>1. CASE StartRefused(p) \/ LoadFails(p)
    <2>1. CallsTyped' /\ Elsewhere(p) /\ pc[p] = "start" /\ pc'[p] = "idle"
        BY <1>1, McpTyped, McpReturn DEF StartRefused, LoadFails
    <2>2. UNCHANGED <<disk, token, issued, mu, serverVars, req>>
        BY <1>1 DEF StartRefused, LoadFails
    <2> QED
        BY <2>1, <2>2, McpTyped, McpCallStep DEF Starting
<1>2. CASE Load(p)
    <2>1. loaded[p] \in Snapshot /\ loaded' = [loaded EXCEPT ![p] = [loaded[p] EXCEPT !.policy = disk]]
        BY <1>2, McpTyped DEF Load, CallsTyped
    <2>2. [loaded[p] EXCEPT !.policy = disk] \in Snapshot
          /\ [loaded[p] EXCEPT !.policy = disk].policy = disk
        BY <2>1, McpTyped DEF Snapshot
    <2>3. loaded' \in [Managers -> Snapshot] /\ loaded'[p].policy = disk
          /\ \A q \in Managers \ {p} : loaded'[q] = loaded[q]
        BY <2>1, <2>2, McpTyped DEF CallsTyped
    <2>4. CallsTyped' /\ Elsewhere(p) /\ pc[p] = "start" /\ pc'[p] = "token"
        BY <1>2, <2>3, McpTyped DEF Load, Goto, CallsTyped, Elsewhere, Stages
    <2>5. mu = NoManager /\ mu' = p /\ ~running /\ disk.enabled
          /\ UNCHANGED <<disk, token, issued, serverVars, req>>
        BY <1>2 DEF Load
    <2>6. SameAs(disk, loaded'[p].policy) /\ loaded'[p].policy.enabled
        BY <2>3, <2>5 DEF SameAs
    <2> QED
        BY <2>4, <2>5, <2>6, McpTyped, McpCallStep
<1> QED
    BY <1>1, <1>2

(* A Start that has its token goes on with the configuration it has loaded;   *)
(* RevealMCPToken is over.                                                    *)
LEMMA McpTokenStep ==
    ASSUME McpInv, NEW p \in Managers,
           TokenFound(p) \/ TokenMissing(p) \/ Mint(p) \/ TokenFails(p)
    PROVE  McpInv'
<1>1. pc[p] \in {"token", "mint"} /\ UNCHANGED <<disk, serverVars, req>>
    BY DEF TokenFound, TokenMissing, Mint, TokenFails
<1>2. op[p] # "reveal" =>
          /\ mu = p /\ ~running /\ loaded[p].policy.enabled
          /\ SameAs(disk, loaded[p].policy) \/ Pending
    BY <1>1 DEF McpInv, HoldsServerMu, StartsWhatIsSaved, Starting
<1>3. ASSUME CallsTyped', Elsewhere(p), UNCHANGED mu, pc'[p] \in {"idle", "mint", "listen"},
             token' \in Tokens \cup {NoToken}, issued' \in 0..MaxTokens,
             Starting(p)' => op[p] # "reveal" /\ loaded'[p].policy = loaded[p].policy
      PROVE  McpInv'
    <2>1. Pending => Pending'
        BY <1>1, <1>3 DEF Pending, Elsewhere
    <2>2. Starting(p)' => /\ mu' = p /\ ~running /\ disk' = disk
                          /\ loaded'[p].policy.enabled
                          /\ SameAs(disk, loaded'[p].policy) \/ Pending'
        BY <1>1, <1>2, <1>3, <2>1
    <2> QED
        BY <1>1, <1>3, <2>2, McpTyped, McpCallStep
<1>4. CASE TokenFound(p) \/ Mint(p)
    <2>1. PICK t \in Tokens \cup {NoToken} :
              /\ AfterToken(p, t) /\ UNCHANGED mu
              /\ token' \in Tokens \cup {NoToken} /\ issued' \in 0..MaxTokens
        BY <1>4, McpTyped, ConstantsAssumption DEF TokenFound, Mint, Tokens
    <2>2. /\ CallsTyped' /\ Elsewhere(p) /\ pc'[p] \in {"idle", "listen"}
          /\ pc'[p] = "listen" => op[p] # "reveal" /\ loaded'[p].policy = loaded[p].policy
        BY <2>1, McpTyped, McpAfterToken
    <2> QED
        BY <1>3, <2>1, <2>2 DEF Starting
<1>5. CASE TokenMissing(p)
    <2>1. CallsTyped' /\ Elsewhere(p) /\ pc'[p] = "mint" /\ op'[p] = op[p]
        BY <1>5, McpTyped, McpGoto DEF TokenMissing, Stages
    <2>2. UNCHANGED <<token, issued, mu, loaded>>
        BY <1>5 DEF TokenMissing
    <2> QED
        BY <1>3, <2>1, <2>2, McpTyped DEF Starting
<1>6. CASE TokenFails(p)
    <2>1. CallsTyped' /\ Elsewhere(p) /\ pc'[p] = "idle"
        BY <1>6, McpTyped, McpReturn DEF TokenFails
    <2>2. /\ mu' \in Managers \cup {NoManager} /\ \A q \in Managers \ {p} : mu = q => mu' = q
          /\ UNCHANGED <<token, issued>>
        BY <1>6, McpTyped DEF TokenFails, Unlock
    <2> QED
        BY <1>1, <2>1, <2>2, McpTyped, McpCallStep DEF Starting
<1> QED
    BY <1>4, <1>5, <1>6

-----------------------------------------------------------------------------
(* The steps of the server itself: Shutdown and the end of a drain, the start of *)
(* a server, the Serve goroutine.                                             *)
LEMMA McpShutdown ==
    ASSUME McpInv, NEW p \in Managers, Shutdown(p)
    PROVE  McpInv'
<1> USE DEF McpInv
<1>1. /\ pc[p] = "stop" /\ mu = NoManager /\ running /\ mu' = p
      /\ UNCHANGED <<disk, token, issued, running, current, served, port, flips, op, loaded, req>>
      /\ inst' = [inst EXCEPT ![current] = IF @ = "up" THEN "draining" ELSE @]
    BY DEF Shutdown
<1>2. CallsTyped' /\ Elsewhere(p) /\ pc'[p] = "drain" /\ op'[p] = op[p]
    BY <1>1, McpTyped, McpGoto DEF Shutdown, Stages
<1>3. current \in Servers
    BY <1>1 DEF McpTypeOK
<1>4. McpTypeOK'
    BY <1>1, <1>2, <1>3, ConstantsAssumption DEF McpTypeOK, CallsTyped
<1>5. StoppersKnown'
    BY <1>1, <1>2 DEF StoppersKnown, Elsewhere
<1>6. \A q \in Managers : pc[q] # "drain" /\ ~Starting(q)
    BY <1>1, ConstantsAssumption DEF HoldsServerMu
<1>7. \A q \in Managers : ~Starting(q)'
    BY <1>2, <1>6 DEF Starting, Elsewhere
<1>8. HoldsServerMu' /\ StartsWhatIsSaved'
    BY <1>1, <1>2, <1>6, <1>7 DEF HoldsServerMu, StartsWhatIsSaved, Elsewhere
<1>9. ServesWhatIsSaved'
    BY <1>1, <1>2 DEF ServesWhatIsSaved, Pending
<1>10. OneDrains' /\ RequestsAreServed'
    BY <1>1, <1>2, <1>3 DEF McpTypeOK, OneDrains, RequestsAreServed, NoReq
<1> QED
    BY <1>4, <1>5, <1>8, <1>9, <1>10

(* Stop has shut the server down, drained or not: no server drains any more, and *)
(* no other call was past Start's checks.                                     *)
LEMMA McpStopped ==
    ASSUME McpInv, NEW p \in Managers, Drained(p) \/ DrainTimesOut(p)
    PROVE  McpInv'
<1> USE DEF McpInv
<1>1. PICK left \in {"closed", "lost"} :
          /\ inst' = [inst EXCEPT ![current] = left]
          /\ left = "closed" => InFlight(current) = {}
          /\ port' = [port EXCEPT ![current] = DefaultPort]
    BY DEF Drained, DrainTimesOut
<1>2. /\ pc[p] = "drain" /\ running' = FALSE /\ current' = NoServer
      /\ Unlock(p) /\ AfterStop(p)
      /\ UNCHANGED <<disk, token, issued, served, flips, req>>
    BY DEF Drained, DrainTimesOut
<1>3. mu = p /\ mu' = NoManager
    BY <1>2 DEF HoldsServerMu, Unlock
<1>4. op[p] \in {"restart", "stop", "regenerate", "reset"}
    BY <1>2 DEF StoppersKnown
<1>5. CallsTyped' /\ Elsewhere(p) /\ pc'[p] \in {"start", "wipe", "idle"}
    BY <1>2, <1>4, McpTyped, McpAfterStop
<1>6. McpTypeOK'
    BY <1>1, <1>2, <1>3, <1>5, ConstantsAssumption DEF McpTypeOK, CallsTyped
<1>7. StoppersKnown'
    BY <1>5 DEF StoppersKnown, Elsewhere
<1>8. \A q \in Managers : pc'[q] # "drain" /\ ~Starting(q)'
    BY <1>3, <1>5 DEF HoldsServerMu, Elsewhere, Starting
<1>9. HoldsServerMu' /\ StartsWhatIsSaved' /\ ServesWhatIsSaved'
    BY <1>2, <1>8 DEF HoldsServerMu, StartsWhatIsSaved, ServesWhatIsSaved
<1>10. \A s \in Servers : inst'[s] # "draining"
    BY <1>1 DEF OneDrains, McpTypeOK
<1>11. OneDrains'
    BY <1>10 DEF OneDrains
<1>12. RequestsAreServed'
    <2>1. ASSUME NEW r \in Requests, req[r].stage # "idle"
          PROVE  inst'[req[r].server] \notin {"unused", "closed"}
        <3>1. req[r].server \in Servers
            BY <2>1 DEF McpTypeOK, NoReq
        <3> QED
            BY <1>1, <2>1, <3>1 DEF RequestsAreServed, InFlight, McpTypeOK
    <2> QED
        BY <1>2, <2>1 DEF RequestsAreServed
<1> QED
    BY <1>6, <1>7, <1>9, <1>11, <1>12

LEMMA McpListen ==
    ASSUME McpInv, NEW p \in Managers, Listen(p)
    PROVE  McpInv'
<1> USE DEF McpInv
<1>1. PICK s \in Servers :
          /\ inst[s] = "unused" /\ inst' = [inst EXCEPT ![s] = "up"] /\ current' = s
          /\ port' = [port EXCEPT ![s] = loaded[p].policy.port]
    BY DEF Listen
<1>2. /\ pc[p] = "listen" /\ served' = loaded[p] /\ running' = TRUE
      /\ Unlock(p) /\ Return(p) /\ UNCHANGED <<disk, token, issued, flips, req>>
    BY DEF Listen
<1>3. CallsTyped' /\ Elsewhere(p) /\ pc'[p] = "idle"
    BY <1>2, McpTyped, McpReturn
<1>4. Starting(p) /\ mu = p /\ mu' = NoManager
    BY <1>2 DEF Starting, HoldsServerMu, Unlock
<1>5. loaded[p].policy.enabled /\ (SameAs(disk, loaded[p].policy) \/ Pending)
    BY <1>4 DEF StartsWhatIsSaved
<1>6. McpTypeOK'
    <2>1. loaded[p] \in Snapshot /\ loaded[p].policy.port \in Ports
        BY DEF McpTypeOK, Snapshot, Configs
    <2>2. served' \in Snapshot /\ port' \in [Servers -> Ports]
        BY <1>1, <1>2, <2>1 DEF McpTypeOK
    <2> QED
        BY <1>1, <1>2, <1>3, <1>4, <2>2, McpTyped, ConstantsAssumption
        DEF McpTypeOK, CallsTyped, Servers, NoServer
<1>7. StoppersKnown'
    BY <1>3 DEF StoppersKnown, Elsewhere
<1>8. \A q \in Managers : pc'[q] # "drain" /\ ~Starting(q)' /\ pc[q] # "drain"
    BY <1>2, <1>3, <1>4 DEF HoldsServerMu, Elsewhere, Starting
<1>9. HoldsServerMu' /\ StartsWhatIsSaved'
    BY <1>8 DEF HoldsServerMu, StartsWhatIsSaved
<1>10. Pending => Pending'
    BY <1>2, <1>3 DEF Pending, Elsewhere
<1>11. ServesWhatIsSaved'
    <2>1. served'.policy = loaded[p].policy /\ port'[current'] = served'.policy.port
        BY <1>1, <1>2 DEF McpTypeOK
    <2> QED
        BY <1>2, <1>5, <1>10, <2>1 DEF ServesWhatIsSaved, SameAs
<1>12. \A t \in Servers : inst[t] # "draining"
    BY <1>8 DEF OneDrains
<1>13. OneDrains'
    BY <1>1, <1>12 DEF OneDrains, McpTypeOK
<1>14. RequestsAreServed'
    <2>1. ASSUME NEW r \in Requests, req[r].stage # "idle"
          PROVE  inst'[req[r].server] \notin {"unused", "closed"} /\ req[r].server # current'
        <3>1. req[r].server \in Servers
            BY <2>1 DEF McpTypeOK, NoReq
        <3> QED
            BY <1>1, <1>2, <2>1, <3>1 DEF RequestsAreServed, McpTypeOK
    <2> QED
        BY <1>2, <2>1 DEF RequestsAreServed
<1> QED
    BY <1>6, <1>7, <1>9, <1>11, <1>13, <1>14

(* A Start that cannot listen has published its token and its policy all the  *)
(* same; the server is not running then, and stays so.                        *)
LEMMA McpListenFails ==
    ASSUME McpInv, NEW p \in Managers, ListenFails(p)
    PROVE  McpInv'
<1> USE DEF McpInv
<1>1. /\ pc[p] = "listen" /\ served' = loaded[p] /\ Unlock(p) /\ Return(p)
      /\ UNCHANGED <<disk, token, issued, running, current, inst, port, flips, req>>
    BY DEF ListenFails
<1>2. CallsTyped' /\ Elsewhere(p) /\ pc'[p] = "idle"
    BY <1>1, McpTyped, McpReturn
<1>3. Starting(p) /\ mu = p /\ mu' = NoManager /\ ~running
    BY <1>1 DEF Starting, HoldsServerMu, Unlock, StartsWhatIsSaved
<1>4. McpTypeOK'
    BY <1>1, <1>2, <1>3, McpTyped DEF McpTypeOK, CallsTyped
<1>5. StoppersKnown'
    BY <1>2 DEF StoppersKnown, Elsewhere
<1>6. \A q \in Managers : pc'[q] # "drain" /\ ~Starting(q)' /\ pc[q] # "drain"
    BY <1>1, <1>2, <1>3 DEF HoldsServerMu, Elsewhere, Starting
<1>7. HoldsServerMu' /\ StartsWhatIsSaved' /\ ServesWhatIsSaved'
    BY <1>1, <1>3, <1>6 DEF HoldsServerMu, StartsWhatIsSaved, ServesWhatIsSaved
<1>8. OneDrains' /\ RequestsAreServed'
    BY <1>1, <1>3, <1>6 DEF OneDrains, RequestsAreServed
<1> QED
    BY <1>4, <1>5, <1>7, <1>8

LEMMA McpServe ==
    ASSUME McpInv, NEW s \in Servers, ServeFails(s) \/ StoreNotRunning(s)
    PROVE  McpInv'
<1> USE DEF McpInv
<1>1. UNCHANGED <<disk, token, issued, mu, current, served, port, callVars, req>>
    BY DEF ServeFails, StoreNotRunning
<1>2. /\ inst' = inst \/ inst' = [inst EXCEPT ![s] = "failed"]
      /\ running' => running
      /\ flips' \subseteq Servers /\ running' \in BOOLEAN
    <2>1. CASE ServeFails(s)
        BY <2>1 DEF ServeFails, McpTypeOK
    <2>2. CASE StoreNotRunning(s)
        BY <2>2 DEF StoreNotRunning, McpTypeOK
    <2> QED
        BY <2>1, <2>2
<1>3. McpTypeOK'
    BY <1>1, <1>2 DEF McpTypeOK, callVars
<1>4. StoppersKnown' /\ HoldsServerMu'
    BY <1>1 DEF StoppersKnown, HoldsServerMu, Starting, callVars
<1>5. Pending <=> Pending'
    BY <1>1 DEF Pending, callVars
<1>6. StartsWhatIsSaved'
    BY <1>1, <1>2, <1>5 DEF StartsWhatIsSaved, Starting, SameAs, callVars
<1>7. ServesWhatIsSaved'
    BY <1>1, <1>2, <1>5 DEF ServesWhatIsSaved, SameAs
<1>8. OneDrains'
    BY <1>1, <1>2 DEF OneDrains, McpTypeOK, callVars
<1>9. RequestsAreServed'
    <2>1. ASSUME NEW r \in Requests, req[r].stage # "idle"
          PROVE  /\ inst'[req[r].server] \notin {"unused", "closed"}
                 /\ inst'[req[r].server] = "up" => inst[req[r].server] = "up"
                 /\ current = req[r].server => inst'[current] = inst'[req[r].server]
        <3>1. req[r].server \in Servers
            BY <2>1 DEF McpTypeOK, NoReq
        <3> QED
            BY <1>2, <2>1, <3>1 DEF RequestsAreServed, McpTypeOK
    <2> QED
        BY <1>1, <1>2, <2>1 DEF RequestsAreServed, CheckExecutePolicy
<1> QED
    BY <1>3, <1>4, <1>6, <1>7, <1>8, <1>9

LEMMA McpCleanAllowlist ==
    ASSUME McpInv, NEW c \in ConnIDs, CleanAllowlist(c)
    PROVE  McpInv'
<1> USE DEF McpInv
<1>1. /\ disk' = [disk EXCEPT !.allow = @ \ {c}]
      /\ UNCHANGED <<token, issued, mu, serverVars, callVars, req>>
    BY DEF CleanAllowlist
<1>2. disk \in Configs
    BY DEF McpTypeOK
<1>3. disk' \in Configs /\ SameAs(disk', disk)
    BY <1>1, <1>2 DEF Configs, SameAs
<1>4. McpTypeOK'
    BY <1>1, <1>3 DEF McpTypeOK, serverVars, callVars
<1>5. StoppersKnown' /\ HoldsServerMu' /\ OneDrains' /\ RequestsAreServed'
    BY <1>1 DEF StoppersKnown, HoldsServerMu, OneDrains, RequestsAreServed, Starting,
                CheckExecutePolicy, serverVars, callVars
<1>6. Pending <=> Pending'
    BY <1>1 DEF Pending, callVars
<1>7. StartsWhatIsSaved' /\ ServesWhatIsSaved'
    BY <1>1, <1>3, <1>6 DEF StartsWhatIsSaved, ServesWhatIsSaved, Starting, SameAs, serverVars, callVars
<1> QED
    BY <1>4, <1>5, <1>7

LEMMA McpRequest ==
    ASSUME McpInv, NEW r \in Requests,
           \/ \E s \in Servers, c \in ConnIDs, kind \in Kinds : Accept(r, s, c, kind)
           \/ Admit(r) \/ Refuse(r) \/ Respond(r)
    PROVE  McpInv'
<1> USE DEF McpInv
<1>1. UNCHANGED <<disk, token, issued, mu, serverVars, callVars>>
    BY DEF Accept, Admit, Refuse, Respond
<1>2. \/ req' = [req EXCEPT ![r] = NoReq]
      \/ \E s \in Servers, c \in ConnIDs, kind \in Kinds :
            /\ inst[s] = "up"
            /\ req' = [req EXCEPT ![r] =
                         [stage |-> "gate", server |-> s, conn |-> c, kind |-> kind]]
      \/ /\ req[r].stage = "gate" /\ CheckExecutePolicy(served.policy, req[r].kind)
         /\ req' = [req EXCEPT ![r] = [req[r] EXCEPT !.stage = "exec"]]
    BY DEF Accept, Admit, Refuse, Respond, Permits
<1>3. req[r].stage = "gate" =>
          [req[r] EXCEPT !.stage = "exec"] =
              [stage |-> "exec", server |-> req[r].server, conn |-> req[r].conn,
               kind |-> req[r].kind]
          /\ req[r].server \in Servers /\ req[r].conn \in ConnIDs /\ req[r].kind \in Kinds
    BY DEF McpTypeOK, NoReq
<1>4. McpTypeOK'
    BY <1>1, <1>2, <1>3 DEF McpTypeOK, serverVars, callVars
<1>5. StoppersKnown' /\ HoldsServerMu' /\ StartsWhatIsSaved' /\ ServesWhatIsSaved' /\ OneDrains'
    BY <1>1 DEF StoppersKnown, HoldsServerMu, StartsWhatIsSaved, ServesWhatIsSaved, OneDrains,
                Starting, Pending, SameAs, serverVars, callVars
<1>6. RequestsAreServed'
    <2>1. ASSUME NEW q \in Requests, q # r
          PROVE  req'[q] = req[q]
        BY <1>2, <2>1 DEF McpTypeOK
    <2>2. req'[r].stage # "idle" =>
              /\ inst[req'[r].server] \notin {"unused", "closed"}
              /\ req'[r].stage = "exec" => CheckExecutePolicy(served.policy, req'[r].kind)
        BY <1>2, <1>3 DEF McpTypeOK, RequestsAreServed, NoReq
    <2> QED
        BY <1>1, <2>1, <2>2 DEF RequestsAreServed, CheckExecutePolicy, serverVars
<1> QED
    BY <1>4, <1>5, <1>6

LEMMA McpStep ==
    ASSUME McpInv, [McpNext]_mcpVars
    PROVE  McpInv'
<1>1. ASSUME NEW p \in Managers, Call(p) PROVE McpInv'
    BY <1>1, McpUpdateMCPConfig, McpOtherCalls DEF Call
<1>2. ASSUME NEW p \in Managers, Step(p) PROVE McpInv'
    BY <1>2, McpStatus, McpReset, McpStopNotRunning, McpBeginsStart, McpTokenStep,
       McpShutdown, McpStopped, McpListen, McpListenFails DEF Step
<1>3. ASSUME NEW c \in ConnIDs, CleanAllowlist(c) PROVE McpInv'
    BY <1>3, McpCleanAllowlist
<1>4. ASSUME NEW s \in Servers, ServeFails(s) \/ StoreNotRunning(s) PROVE McpInv'
    BY <1>4, McpServe
<1>5. ASSUME NEW r \in Requests,
             \/ \E s \in Servers, c \in ConnIDs, kind \in Kinds : Accept(r, s, c, kind)
             \/ Admit(r) \/ Refuse(r) \/ Respond(r)
      PROVE  McpInv'
    BY <1>5, McpRequest
<1>6. ASSUME UNCHANGED mcpVars PROVE McpInv'
    BY <1>6 DEF mcpVars, serverVars, callVars, McpInv, McpTypeOK, StoppersKnown, HoldsServerMu,
       StartsWhatIsSaved, ServesWhatIsSaved, OneDrains, RequestsAreServed, Starting, Pending,
       SameAs, CheckExecutePolicy
<1> QED
    BY <1>1, <1>2, <1>3, <1>4, <1>5, <1>6 DEF McpNext

(* The invariant of the MCP server holds in every state.                      *)
THEOREM McpInvariant == McpSpec => []McpInv
<1>1. McpInit => McpInv
    BY McpInitially
<1>2. McpInv /\ [McpNext]_mcpVars => McpInv'
    BY McpStep
<1> QED
    BY <1>1, <1>2, PTL DEF McpSpec

(* Every variable of the MCP server keeps its type; a server that is running has *)
(* an http.Server (Server.Start, Server.Stop).                                *)
THEOREM McpTypes == McpSpec => []McpTypeOK
<1>1. McpInv => McpTypeOK
    BY DEF McpInv
<1> QED
    BY <1>1, McpInvariant, PTL

(* When no settings call is under way, a running server serves what mcp.json  *)
(* says (UpdateMCPConfig, DeleteConnection, Server.Start and Server.Stop).    *)
THEOREM McpServesTheSaved == McpSpec => []ServedIsSaved
<1>1. McpInv => ServedIsSaved
    BY McpInvSuffices
<1> QED
    BY <1>1, McpInvariant, PTL

(* When no settings call is under way, no statement that the saved policy     *)
(* refuses is still running on a server within Stop's reach.                  *)
THEOREM McpRevokes == McpSpec => []RevokedIsOver
<1>1. McpInv => RevokedIsOver
    BY McpInvSuffices
<1> QED
    BY <1>1, McpInvariant, PTL
=============================================================================
