------------------------------ MODULE MCTasks ------------------------------
(***************************************************************************)
(* Instances of Tasks for TLC.                                             *)
(***************************************************************************)
EXTENDS Tasks, TLC

CONSTANTS t1, t2, t3, f1, f2

\* Every task has fds of its own.
Disjoint == (t1 :> {f1}) @@ (t2 :> {f2}) @@ (t3 :> {})

\* Two tasks share an fd: a reader and a writer of one socket.
Shared == (t1 :> {f1}) @@ (t2 :> {f1}) @@ (t3 :> {f2})

=============================================================================
