----------------------------- MODULE AtomicConfig -----------------------------
(* What the calls that change connections.json promise together: each of them *)
(* takes effect at one moment, on the configuration that is there then, or    *)
(* fails and has no effect (app.go:391-393).  Once calls that do not take the *)
(* file lock have overlapped others, or a call that could not read the file   *)
(* has gone on as if it were empty, nothing is promised any more.             *)
CONSTANTS Procs,    \* goroutines that serve calls, in every running instance
          Entries,  \* ids of saved connections and groups
          None      \* no call

VARIABLES saved,    \* the entries of the configuration
          todo,     \* the effect each call has still to take
          loose     \* the promise is off

\* save puts an entry in, delete takes it out, touch and migrate keep the set.
Ops == {"save", "delete", "touch", "import", "migrate"} \X Entries

Apply(o, cfg) ==
    CASE o[1] \in {"save", "import"} -> cfg \cup {o[2]}
      [] o[1] = "delete" -> cfg \ {o[2]}
      [] OTHER -> cfg

Init ==
    /\ saved \in SUBSET Entries
    /\ todo = [p \in Procs |-> None]
    /\ loose = FALSE

Begin(p, o) ==
    /\ ~loose /\ todo[p] = None
    /\ todo' = [todo EXCEPT ![p] = o]
    /\ UNCHANGED <<saved, loose>>

Commit(p) ==
    /\ ~loose /\ todo[p] # None
    /\ saved' = Apply(todo[p], saved)
    /\ todo' = [todo EXCEPT ![p] = None]
    /\ UNCHANGED loose

\* Calls fail one by one, or, when an instance ends, all of its calls do.
Fail(P) ==
    /\ ~loose
    /\ todo' = [p \in Procs |-> IF p \in P THEN None ELSE todo[p]]
    /\ UNCHANGED <<saved, loose>>

ComeLoose ==
    /\ loose' = TRUE
    /\ todo' \in [Procs -> {None} \cup Ops]
    /\ (~loose => saved' = saved)

Next ==
    \/ \E p \in Procs, o \in Ops : Begin(p, o)
    \/ \E p \in Procs : Commit(p)
    \/ \E P \in SUBSET Procs : Fail(P)
    \/ ComeLoose

Spec == Init /\ [][Next]_<<saved, todo, loose>>
===============================================================================
