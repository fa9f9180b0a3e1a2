---------------------------- MODULE MCThreadPool ----------------------------
(* Instances of ThreadPool small enough for TLC. *)
EXTENDS ThreadPoolRefinement

CONSTANTS w1, w2, n1, n2, n3

TwoWorkers == {w1, w2}
ThreeNodes == {n1, n2, n3}

\* test_threadpool.c: jobs, then the destruction of the pool as a last task.
TestScript == <<"job", "job", "destroy">>
\* lf_web.c: a task that pushes its successor, and then the destruction of the pool, which
\* the chain of successors may overtake.
RelayScript == <<"relay", "destroy">>
=============================================================================
