---------------------------- MODULE SessionGroups ----------------------------
(* The folder tree of the saved connections.  connections.json holds for each *)
(* group its parent and for each connection its group; every window works on  *)
(* a copy it read earlier and writes one entry, or deletes one group with its *)
(* direct children, in one locked read-modify-write (app_session_groups.go,   *)
(* app_connection.go).  The handlers are those of SessionManager/index.tsx    *)
(* and ConnectionPanel.  How the file itself is written is module AppConfig.  *)
EXTENDS FiniteSets, Naturals

CONSTANTS Instances,  \* running copies of the application
          Groups,     \* ids of groups
          Conns,      \* ids of saved connections
          Root,       \* parentId or groupId ''
          Absent,     \* no entry of this id
          MaxOps      \* bound on the writes of a behaviour

ASSUME IdsDiffer ==
    /\ Root \notin Groups /\ Absent \notin Groups /\ Root # Absent
    /\ Groups \cap Conns = {}
ASSUME MaxOpsNat == MaxOps \in Nat

VARIABLES
    groups,    \* cfg.Groups: the parent of each group
    conns,     \* cfg.Connections: the group of each connection
    view,      \* what each window read last
    selected,  \* selectedId where selectedKind is 'group'
    born,      \* ids ever given out: ids are UUIDs and never come back
    misled,    \* history: a write relied on a group the file has no longer, or elsewhere
    deep,      \* history: a group was three levels down
    ops

vars == <<groups, conns, view, selected, born, misled, deep, ops>>

Places == Groups \cup {Root}
Parents == [Groups -> Places \cup {Absent}]
Homes == [Conns -> Places \cup {Absent}]

Has(gs) == {g \in Groups : gs[g] # Absent}

\* No group is its own ancestor: a set of groups closed under "parent" is a cycle.
Forest(gs) == \A S \in SUBSET Groups : S # {} => \E g \in S : gs[g] \notin S
Flat(gs) == \A g \in Groups : gs[g] \in Groups => gs[gs[g]] \notin Groups

\* What ExportConnections of a library in order holds, here or on another machine.
Exports == {e \in [groups : Parents, conns : Homes] :
              /\ \A g \in Groups : e.groups[g] \in Has(e.groups) \cup {Root, Absent}
              /\ \A c \in Conns : e.conns[c] \in Has(e.groups) \cup {Root, Absent}
              /\ Flat(e.groups) /\ Forest(e.groups)}

Init ==
    /\ \E e \in Exports : /\ groups = e.groups /\ conns = e.conns
                          /\ view = [i \in Instances |-> e]
                          /\ born = Has(groups) \cup {c \in Conns : conns[c] # Absent}
    /\ selected = [i \in Instances |-> Absent]
    /\ misled = FALSE /\ deep = FALSE /\ ops = 0

-----------------------------------------------------------------------------
Count == ops < MaxOps /\ ops' = ops + 1

WriteGroups(gs) == groups' = gs /\ deep' = (deep \/ ~Flat(gs))
SaveGroup(g, parent) == WriteGroups([groups EXCEPT ![g] = parent])
SaveConn(c, home) == conns' = [conns EXCEPT ![c] = home]
Notice(mistake) == misled' = (misled \/ mistake)
Stale(i, p) == p \in Groups /\ (groups[p] = Absent \/ groups[p] # view[i].groups[p])

\* GetSessionGroups and GetSavedConnections: two reads, another write may fall between.
ReloadGroups(i) ==
    /\ view' = [view EXCEPT ![i].groups = groups]
    /\ UNCHANGED <<groups, conns, selected, born, misled, deep, ops>>

ReloadConns(i) ==
    /\ view' = [view EXCEPT ![i].conns = conns]
    /\ UNCHANGED <<groups, conns, selected, born, misled, deep, ops>>

\* A click on a group, or on a connection (which deselects the group).
Select(i, g) ==
    /\ g \in Has(view[i].groups) \cup {Absent}
    /\ selected' = [selected EXCEPT ![i] = g]
    /\ UNCHANGED <<groups, conns, view, born, misled, deep, ops>>

\* handleNewGroup: under the selected group unless the view shows that it has a parent.
NewGroup(i, g) ==
    LET s == selected[i]
        parent == IF s \notin Groups \/ view[i].groups[s] \in Groups THEN Root ELSE s
    IN /\ g \notin born /\ born' = born \cup {g}
       /\ SaveGroup(g, parent)
       /\ selected' = [selected EXCEPT ![i] = g]
       /\ Notice(Stale(i, parent))
       /\ Count /\ UNCHANGED <<conns, view>>

\* handleDuplicate of a group: a new id under the same parent.
DuplicateGroup(i, orig, g) ==
    LET parent == view[i].groups[orig]
    IN /\ parent # Absent /\ g \notin born /\ born' = born \cup {g}
       /\ SaveGroup(g, parent)
       /\ Notice(parent \in Groups /\ groups[parent] = Absent)
       /\ Count /\ UNCHANGED <<conns, view, selected>>

\* handleRename of a group writes the whole entry, its parent as read earlier.
RenameGroup(i, g) ==
    LET parent == view[i].groups[g]
    IN /\ parent # Absent
       /\ SaveGroup(g, parent)
       /\ Notice(parent \in Groups /\ groups[g] # parent)
       /\ Count /\ UNCHANGED <<conns, view, selected, born>>

\* onDrop of a group on another group or, with Root, on a connection: under
\* the target if that is a root group, else to the root.
DropPlaceDeep(i, target) == target    \* fault: the level of the target is not looked at
DropPlace(i, target) ==
    IF target = Root \/ view[i].groups[target] \in Groups THEN Root ELSE target

DropGroup(i, g, target) ==
    /\ g \in Has(view[i].groups) /\ target \in Has(view[i].groups) \cup {Root} /\ target # g
    /\ SaveGroup(g, DropPlace(i, target))
    /\ Notice(Stale(i, DropPlace(i, target)))
    /\ Count /\ UNCHANGED <<conns, view, selected, born>>

\* SaveConnection of a connection the window lists, or of a new one: from a form,
\* which keeps the group picked when it was opened, or by a rename, drop or duplicate.
FormGroups == {Root} \cup (Groups \cap born)

SaveConnection(i, c, home) ==
    /\ view[i].conns[c] # Absent \/ c \notin born
    /\ home \in FormGroups
    /\ born' = born \cup {c}
    /\ SaveConn(c, home)
    /\ Notice(home \in Groups /\ groups[home] = Absent)
    /\ Count /\ UNCHANGED <<groups, view, selected, deep>>

DeleteConnection(i, c) ==
    /\ view[i].conns[c] # Absent
    /\ SaveConn(c, Absent)
    /\ Count /\ UNCHANGED <<groups, view, selected, born, misled, deep>>

\* What DeleteSessionGroup removes: the group and its direct children.
DoomedAlone(g) == {g}    \* fault: the children are forgotten
Doomed(g) == {g} \cup {h \in Has(groups) : groups[h] = g}

\* Their connections go too (cascade), or move to the root.
RehomedDirect(g, home) ==    \* fault: those of the children are forgotten
    [c \in Conns |-> IF conns[c] = g THEN home ELSE conns[c]]
Rehomed(g, home) == [c \in Conns |-> IF conns[c] \in Doomed(g) THEN home ELSE conns[c]]

\* Only the very group is deselected, not a child that went with it.
DeselectedToEmpty(i, g) == IF selected[i] = g THEN Root ELSE selected[i]    \* fault: '' for null
Deselected(i, g) == IF selected[i] = g THEN Absent ELSE selected[i]

\* cascade is only offered where the view shows connections of the group.
DeleteSessionGroup(i, g, cascade) ==
    /\ g \in Has(view[i].groups)
    /\ cascade => \E c \in Conns : view[i].conns[c] = g
    /\ WriteGroups([h \in Groups |-> IF h \in Doomed(g) THEN Absent ELSE groups[h]])
    /\ conns' = Rehomed(g, IF cascade THEN Absent ELSE Root)
    /\ selected' = [selected EXCEPT ![i] = Deselected(i, g)]
    /\ Count /\ UNCHANGED <<view, born, misled>>

\* mergeImport: the entries of the payload replace those of the same id.
ImportConnections(e) ==
    /\ WriteGroups([g \in Groups |-> IF e.groups[g] # Absent THEN e.groups[g] ELSE groups[g]])
    /\ conns' = [c \in Conns |-> IF e.conns[c] # Absent THEN e.conns[c] ELSE conns[c]]
    /\ born' = born \cup Has(e.groups) \cup {c \in Conns : e.conns[c] # Absent}
    /\ Count /\ UNCHANGED <<view, selected, misled>>

Next ==
    \/ \E i \in Instances :
         \/ ReloadGroups(i) \/ ReloadConns(i)
         \/ \E g \in Groups \cup {Absent} : Select(i, g)
         \/ \E g \in Groups : NewGroup(i, g) \/ RenameGroup(i, g)
         \/ \E g, h \in Groups : DuplicateGroup(i, g, h)
         \/ \E g \in Groups, target \in Places : DropGroup(i, g, target)
         \/ \E c \in Conns, home \in Places : SaveConnection(i, c, home)
         \/ \E c \in Conns : DeleteConnection(i, c)
         \/ \E g \in Groups, cascade \in BOOLEAN : DeleteSessionGroup(i, g, cascade)
    \/ \E e \in Exports : ImportConnections(e)

Spec == Init /\ [][Next]_vars

-----------------------------------------------------------------------------
(* The file holds a parent for each group and a group for each connection,    *)
(* and what a window shows and selects are such values too.                   *)
TypeOK ==
    /\ groups \in Parents /\ conns \in Homes
    /\ view \in [Instances -> [groups : Parents, conns : Homes]]
    /\ selected \in [Instances -> Groups \cup {Absent}]
    /\ born \in SUBSET (Groups \cup Conns) /\ Has(groups) \subseteq born
    /\ misled \in BOOLEAN /\ deep \in BOOLEAN /\ ops \in 0..MaxOps

(* As long as no write relied on a group that is gone, the group of every     *)
(* connection exists: deleting a group, with or without its connections, and  *)
(* importing never leave one pointing at nothing (app_session_groups.go:68).  *)
ConnsGrouped ==
    ~misled => \A c \in Conns : conns[c] \in Has(groups) \cup {Root, Absent}

(* As long as no write relied on a group that moved, no drag, rename, deletion *)
(* or import makes a group its own ancestor: such a group and everything in   *)
(* it would be drawn nowhere (SessionManager buildTree).                      *)
NoCycle == ~misled => Forest(groups)

(* A group whose parent does not exist is drawn nowhere either: it takes a    *)
(* misled write or a group three levels down, which DeleteSessionGroup, that  *)
(* looks at direct children only, does not reach (app_session_groups.go:52).  *)
OrphanOnlyByDepth ==
    ~misled /\ ~deep => \A g \in Groups : groups[g] \in Has(groups) \cup {Root, Absent}

=============================================================================
