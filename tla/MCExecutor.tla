----------------------------- MODULE MCExecutor -----------------------------
(* Two calls and a cancel over a tab and the connection's own key, with one   *)
(* connection in the pool: the second call waits for the first, or until its  *)
(* own context is over. MaxStmts is the only bound on what a call does.       *)
EXTENDS Executor
=============================================================================
