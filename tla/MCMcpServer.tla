---------------------------- MODULE MCMcpServer ----------------------------
(* Instances of McpServer small enough for TLC: the settings dialog        *)
(* switches between off, everything but DDL, and read-only on another port. *)
EXTENDS McpServer, TLC
CONSTANTS m1, m2, r1, c1

MCManagers == {m1, m2}
MCRequests == {r1}
MCSymmetry == Permutations(MCManagers)
MCConnIDs  == {c1}
MCKinds    == {"write"}
MCCalls    == AllCalls

MCOff      == [enabled |-> FALSE, port |-> 1, write |-> TRUE,  ddl |-> FALSE, allow |-> {}]
MCReadOnly == [enabled |-> TRUE,  port |-> 2, write |-> FALSE, ddl |-> FALSE, allow |-> {AnyConn}]
MCWrite    == [enabled |-> TRUE,  port |-> 1, write |-> TRUE,  ddl |-> FALSE, allow |-> {c1}]
MCUpdates  == {MCOff, MCReadOnly, MCWrite}
=============================================================================
