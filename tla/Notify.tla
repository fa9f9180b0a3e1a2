------------------------------- MODULE Notify -------------------------------
(***************************************************************************)
(* The termination pattern of IN_TD_POSIX/ex2.c: threads that count        *)
(* themselves completed under a semaphore and signal a condition variable, *)
(* and a main thread that waits on it once per thread, with no test.       *)
(*                                                                         *)
(* Main counts the threads it creates with an i that nothing initialises.  *)
(* From a negative i it creates more of them than it is asked for, and     *)
(* pthread_create stores their handles below the array Threads[] on its    *)
(* stack.  Depending on the layout of the build nothing is there that      *)
(* anybody uses, or the locals of main are, or a return address.           *)
(***************************************************************************)
EXTENDS Integers, FiniteSets

CONSTANTS
  Threads,       \* the threads that the system can create
  Wanted,        \* the number of threads on the command line
  Garbage,       \* what the uninitialised i, or a local that is overwritten, may hold
  MaxSpurious    \* bound on the spurious wakeups of pthread_cond_wait

MAXTHREADS == 256

ASSUME NotifyAssumption ==
  /\ IsFiniteSet(Threads) /\ Wanted \in Int /\ Wanted <= MAXTHREADS
  /\ Garbage \subseteq Int /\ Garbage # {} /\ MaxSpurious \in Nat

VARIABLES
  pc,         \* where each thread is
  main,       \* where main is
  i,          \* main's loop counter
  nThreads,   \* main's copy of the number of threads
  sem,        \* the value of ack_semaphore
  threadId,   \* shared_state.thread_id: the last thread that notified
  completed,  \* shared_state.completed_threads
  copy,       \* what a thread has loaded of completed_threads
  acks,       \* ack_threads
  result,     \* what main prints
  spurious,
  strayed     \* history: a handle was stored outside of the array Threads[]

vars == <<pc, main, i, nThreads, sem, threadId, completed, copy, acks, result, spurious, strayed>>

Nobody == "nobody"

Init ==
  /\ pc = [t \in Threads |-> "not_created"]
  /\ main = "create"
  /\ i \in Garbage
  /\ nThreads = Wanted
  /\ sem = 0
  /\ threadId = Nobody
  /\ completed = 0
  /\ copy = [t \in Threads |-> 0]
  /\ acks = 0
  /\ result = "none"
  /\ spurious = 0
  /\ strayed = FALSE

\* A step of a thread: the threads end with the process.
GoTo(t, from, to) ==
  /\ main \notin {"crashed", "exited"}
  /\ pc[t] = from /\ pc' = [pc EXCEPT ![t] = to]

-----------------------------------------------------------------------------
(* thread_job                                                              *)

\* Fault: the semaphore is not taken.
SemWait_Untaken(t) ==
  /\ sem > 0
  /\ GoTo(t, "job", "set_id")
  /\ UNCHANGED <<main, i, nThreads, sem, threadId, completed, copy, acks, result, spurious, strayed>>

SemWait(t) ==
  /\ sem > 0 /\ sem' = sem - 1
  /\ GoTo(t, "job", "set_id")
  /\ UNCHANGED <<main, i, nThreads, threadId, completed, copy, acks, result, spurious, strayed>>

SetId(t) ==
  /\ GoTo(t, "set_id", "store")
  /\ threadId' = t
  /\ copy' = [copy EXCEPT ![t] = completed]
  /\ UNCHANGED <<main, i, nThreads, sem, completed, acks, result, spurious, strayed>>

\* The store of completed_threads++, and sem_post.
Complete(t) ==
  /\ GoTo(t, "store", "signal")
  /\ completed' = copy[t] + 1
  /\ sem' = sem + 1
  /\ UNCHANGED <<main, i, nThreads, threadId, copy, acks, result, spurious, strayed>>

\* pthread_cond_signal, without the mutex: it wakes main if main waits, and is lost if not.
Signal(t) ==
  /\ GoTo(t, "signal", "exited")
  /\ main' = IF main = "waiting" THEN "woken" ELSE main
  /\ UNCHANGED <<i, nThreads, sem, threadId, completed, copy, acks, result, spurious, strayed>>

-----------------------------------------------------------------------------
(* main                                                                    *)

\* The handle of the new thread goes to Threads[i].  Outside of the array it ends the
\* process, or overwrites some of the locals of main, or nothing that is used.
StoreHandle ==
  IF i \in 0..(MAXTHREADS - 1)
  THEN i' = i + 1 /\ UNCHANGED <<main, nThreads, acks, strayed>>
  ELSE /\ strayed' = TRUE
       /\ \/ main' = "crashed" /\ UNCHANGED <<i, nThreads, acks>>
          \/ /\ i' \in {n + 1 : n \in Garbage \cup {i}}
             /\ nThreads' \in Garbage \cup {nThreads}
             /\ acks' \in Garbage \cup {acks}
             /\ UNCHANGED main

\* while (i < nThreads): one more thread.  When the system has no more, pthread_create
\* fails, and nobody looks.
Create ==
  /\ main = "create" /\ i < nThreads
  /\ \/ \E t \in Threads : GoTo(t, "not_created", "job")
     \/ (\A t \in Threads : pc[t] # "not_created") /\ UNCHANGED pc
  /\ StoreHandle
  /\ UNCHANGED <<sem, threadId, completed, copy, result, spurious>>

OpenSemaphore ==
  /\ main = "create" /\ i >= nThreads
  /\ main' = "test"
  /\ sem' = sem + 1
  /\ UNCHANGED <<pc, i, nThreads, threadId, completed, copy, acks, result, spurious, strayed>>

\* while (ack_threads != nThreads), the lock and the wait; nobody else takes the mutex.
Wait ==
  /\ main = "test" /\ acks # nThreads
  /\ main' = "waiting"
  /\ UNCHANGED <<pc, i, nThreads, sem, threadId, completed, copy, acks, result, spurious, strayed>>

Acknowledge ==
  /\ main = "woken"
  /\ main' = "test"
  /\ acks' = acks + 1
  /\ UNCHANGED <<pc, i, nThreads, sem, threadId, completed, copy, result, spurious, strayed>>

\* Fault: only the wakeups are compared with the number of threads.
Verdict_AcksOnly ==
  /\ main = "test" /\ acks = nThreads
  /\ main' = "end"
  /\ result' = "success"
  /\ UNCHANGED <<pc, i, nThreads, sem, threadId, completed, copy, acks, spurious, strayed>>

Verdict ==
  /\ main = "test" /\ acks = nThreads
  /\ main' = "end"
  /\ result' = IF acks = completed THEN "success" ELSE "fail"
  /\ UNCHANGED <<pc, i, nThreads, sem, threadId, completed, copy, acks, spurious, strayed>>

\* return from main ends the process.
Exit ==
  /\ main = "end" /\ main' = "exited"
  /\ UNCHANGED <<pc, i, nThreads, sem, threadId, completed, copy, acks, result, spurious, strayed>>

SpuriousWakeup ==
  /\ spurious < MaxSpurious
  /\ main = "waiting" /\ main' = "woken"
  /\ spurious' = spurious + 1
  /\ UNCHANGED <<pc, i, nThreads, sem, threadId, completed, copy, acks, result, strayed>>

-----------------------------------------------------------------------------
ThreadSteps(t) == SemWait(t) \/ SetId(t) \/ Complete(t) \/ Signal(t)
MainSteps == Create \/ OpenSemaphore \/ Wait \/ Acknowledge \/ Verdict \/ Exit

Next == MainSteps \/ (\E t \in Threads : ThreadSteps(t)) \/ SpuriousWakeup

Spec == Init /\ [][Next]_vars

\* Every thread that can run does; a semaphore is given to all that wait for it.
FairSpec ==
  Spec /\ WF_vars(MainSteps) /\ \A t \in Threads : SF_vars(SemWait(t)) /\ WF_vars(ThreadSteps(t))

-----------------------------------------------------------------------------
TypeOK ==
  /\ pc \in [Threads -> {"not_created", "job", "set_id", "store", "signal", "exited"}]
  /\ main \in {"create", "test", "waiting", "woken", "end", "crashed", "exited"}
  /\ i \in Int /\ nThreads \in Int
  /\ sem \in {0, 1}
  /\ threadId \in Threads \cup {Nobody}
  /\ completed \in Nat /\ acks \in Int
  /\ copy \in [Threads -> Nat]
  /\ result \in {"none", "success", "fail"}
  /\ spurious \in 0..MaxSpurious
  /\ strayed \in BOOLEAN

Created  == {t \in Threads : pc[t] # "not_created"}
Notified == {t \in Threads : pc[t] \in {"signal", "exited"}}

\* The semaphore protects the count: it counts the threads that notified, and the last
\* of them is named.
CountIsExact ==
  /\ completed = Cardinality(Notified)
  /\ (\A t \in Threads : pc[t] # "store") /\ completed > 0 => threadId \in Notified

\* ex2.c:106: SUCCESS is printed only when as many threads have notified as main waits
\* for, and, unless a handle was stored outside of Threads[], only when all that were
\* created have: although the wakeups may be spurious, i starts anywhere, and the count
\* is read without protection.
SuccessIsTrue ==
  result = "success" => /\ Cardinality(Notified) >= nThreads
                        /\ ~strayed => nThreads = Wanted /\ Notified = Created

\* The same without the proviso.  It does not hold if i starts below 0.
CreatedHaveNotified == result = "success" => Notified = Created

\* ex2.c:106: once all threads that were created have notified, the test is a success.
\* It is not when a thread signals before main waits.
AllNotifiedIsSuccess == main # "create" /\ Notified = Created ~> result = "success"

=============================================================================
