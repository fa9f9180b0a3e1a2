------------------------ MODULE ThreadPoolRefinement ------------------------
(***************************************************************************)
(* The refinement mapping from the linked list, the mutex and the program  *)
(* counters of ThreadPool to the abstract queue of TaskQueue.              *)
(***************************************************************************)
EXTENDS ThreadPool

\* The nodes that are linked and not yet unlinked.
PendingBar == SubSeq(accepted, served + 1, Len(accepted))

\* A worker holds a task from the moment it unlinks it until it calls it.
ClaimedBar ==
  [w \in Workers |->
     IF pc[w] \in {"pop_unlock", "pop_copy", "run"} THEN cur[w] ELSE NULL]

\* A worker has left when pthread_queue_pop has told it to.
LeftBar == {w \in Workers : pc[w] \in {"dereg_lock", "dereg_sub", "exited"}}

TQ == INSTANCE TaskQueue WITH
  Task <- Node, pending <- PendingBar, claimed <- ClaimedBar, calls <- runs,
  closed <- terminated, left <- LeftBar

\* The pool implements the abstract queue: FIFO claims, one call per task, and no
\* worker leaves while a task is pending.
ImplementsTaskQueue == TQ!Spec

=============================================================================
