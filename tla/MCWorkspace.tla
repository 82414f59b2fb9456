---------------------------- MODULE MCWorkspace ----------------------------
(* Two saved connections on one host or two, and somebody who clicks.       *)
EXTENDS Workspace, TLC
CONSTANTS a, b, h1, h2, db, q1
MCCfgs == {a, b}
MCHostings == {a :> h1 @@ b :> h1, a :> h1 @@ b :> h2}
MCDatabases == {db}
MCClicks == {q1}
MCWorks == {Blank, Typed}
=============================================================================
