---------------------------- MODULE MCThreadPool ----------------------------
(***************************************************************************)
(* ThreadPool for TLC: one worker to begin with and one the watcher may    *)
(* add, two deliverers, two tasks, three packages: enough for a refused    *)
(* task to be overtaken and for a package to be used again.                *)
(***************************************************************************)
EXTENDS ThreadPool

CONSTANTS d1, d2, w1, w2, x1, x2, p1, p2, p3

MCDeliverers == {d1, d2}
MCWorkers == {w1, w2}
MCFirstWorkers == {w1}
MCTasks == {x1, x2}
MCPackages == {p1, p2, p3}
=============================================================================
