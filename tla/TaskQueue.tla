----------------------------- MODULE TaskQueue ------------------------------
(***************************************************************************)
(* What the thread pool of IN_TD_Concurrent/threadpool.h promises: tasks   *)
(* are claimed in the order they were submitted, each by one worker, each  *)
(* called once, and a worker leaves only when the pool is closed and       *)
(* nothing is left to claim.                                               *)
(***************************************************************************)
EXTENDS Naturals, Sequences

CONSTANTS Workers, Task, NULL

VARIABLES
  pending,  \* submitted tasks not yet claimed, oldest first
  claimed,  \* the task each worker has claimed and not yet called
  calls,    \* how often each task was called
  closed,   \* whether the pool has been shut down
  left      \* the workers that have left

tqVars == <<pending, claimed, calls, closed, left>>

Init ==
  /\ pending = <<>>
  /\ claimed = [w \in Workers |-> NULL]
  /\ calls = [t \in Task |-> 0]
  /\ closed = FALSE
  /\ left = {}

\* Neither pending nor claimed nor called: submitted now for the first time.
New(t) == /\ \A i \in 1..Len(pending) : pending[i] # t
          /\ \A w \in Workers : claimed[w] # t
          /\ calls[t] = 0

Submit(t) == /\ New(t)
             /\ pending' = Append(pending, t)
             /\ UNCHANGED <<claimed, calls, closed, left>>

Claim(w) == /\ w \notin left
            /\ claimed[w] = NULL
            /\ pending # <<>>
            /\ claimed' = [claimed EXCEPT ![w] = Head(pending)]
            /\ pending' = Tail(pending)
            /\ UNCHANGED <<calls, closed, left>>

Call(w) == /\ claimed[w] # NULL
           /\ calls' = [calls EXCEPT ![claimed[w]] = @ + 1]
           /\ claimed' = [claimed EXCEPT ![w] = NULL]
           /\ UNCHANGED <<pending, closed, left>>

Close == /\ closed' = TRUE
         /\ UNCHANGED <<pending, claimed, calls, left>>

Leave(w) == /\ closed
            /\ pending = <<>>
            /\ claimed[w] = NULL
            /\ left' = left \cup {w}
            /\ UNCHANGED <<pending, claimed, calls, closed>>

Next == \/ \E t \in Task : Submit(t)
        \/ \E w \in Workers : Claim(w) \/ Call(w) \/ Leave(w)
        \/ Close

Spec == Init /\ [][Next]_tqVars

=============================================================================
