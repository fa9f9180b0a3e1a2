----------------------------- MODULE ThreadPool -----------------------------
(***************************************************************************)
(* The POSIX thread pool of IN_TD_Concurrent/threadpool.c: a FIFO of heap  *)
(* nodes guarded by a mutex and a condition variable, worker threads that  *)
(* pop and execute tasks, callers that push them, and the shutdown that is *)
(* itself run as a task by one of the workers.                             *)
(*                                                                         *)
(* A step is what a thread does between two points at which another thread *)
(* can see or disturb it.  The queue mutex is held over several steps; the *)
(* two pointer updates of a push, and of a pop, are one step each because  *)
(* both happen inside the critical section.                                *)
(***************************************************************************)
EXTENDS Naturals, Sequences, FiniteSets

CONSTANTS
  Workers,        \* threads created by pthread_pool_init
  Main,           \* the thread that owns the pool and feeds it
  Node,           \* heap blocks malloc can return; each one is handed out once
  NULL,           \* no node, no thread
  Script,         \* the routines Main passes to pthread_pool_exec, in order
  MallocMayFail,  \* whether malloc may return NULL before Node is exhausted
  MaxSpurious,    \* bound on the spurious wakeups of pthread_cond_wait
  SizeMax         \* thread_init is an unsigned counter modulo SizeMax

\* What a task's routine does: return at once; push its own routine again
\* before returning (the leader/follower server); destroy the pool.
Routine == {"job", "relay", "destroy"}

Thread == Workers \cup {Main}

ASSUME PoolAssumption ==
  /\ Main \notin Workers
  /\ NULL \notin Thread \cup Node
  /\ Script \in Seq(Routine)
  /\ MallocMayFail \in BOOLEAN
  /\ MaxSpurious \in Nat
  /\ SizeMax \in Nat \ {0}

VARIABLES
  pc,          \* where each thread is
  qowner,      \* thread holding queue->mutex
  first,       \* queue->first
  last,        \* queue->last
  next,        \* task->next of every node
  routine,     \* task->routine of every node
  terminated,  \* queue->terminated
  cur,         \* the node a thread pushes, or the task a worker executes
  allocated,   \* nodes malloc has returned
  freed,       \* nodes given to free
  powner,      \* thread holding pool->mutex
  destroyed,   \* whether pool->mutex has been destroyed
  threadInit,  \* pool->thread_init
  tmp,         \* the value of thread_init a worker has read
  sent,        \* how many routines of Script Main has passed to the pool
  spurious,    \* spurious wakeups so far
  accepted,    \* history: nodes in the order they were linked
  served,      \* history: how many nodes have been unlinked
  runs         \* history: how often each node's routine was called

queueVars == <<first, last, next, terminated, accepted, served>>
heapVars == <<routine, allocated, freed>>
poolVars == <<powner, destroyed, threadInit, tmp>>
vars == <<pc, qowner, queueVars, cur, heapVars, poolVars, sent, spurious, runs>>

Init ==
  /\ pc = [th \in Thread |-> IF th = Main THEN "create" ELSE "unborn"]
  /\ qowner = NULL
  /\ first = NULL /\ last = NULL
  /\ next = [n \in Node |-> NULL]
  /\ routine = [n \in Node |-> "job"]
  /\ terminated = FALSE
  /\ cur = [th \in Thread |-> NULL]
  /\ allocated = {} /\ freed = {}
  /\ powner = NULL /\ destroyed = FALSE
  /\ threadInit = 0
  /\ tmp = [w \in Workers |-> 0]
  /\ sent = 0 /\ spurious = 0
  /\ accepted = <<>> /\ served = 0
  /\ runs = [n \in Node |-> 0]

GoTo(th, from, to) == pc[th] = from /\ pc' = [pc EXCEPT ![th] = to]

\* Where a thread resumes when its pthread_pool_exec or pthread_pool_destroy
\* returns: Main goes on with its script, a worker pops its next task.
Resume(th) == IF th = Main THEN "main" ELSE "pop_lock"

-----------------------------------------------------------------------------
(* pthread_pool_init and Main                                              *)

\* pthread_create: the new worker may run before the others exist.
CreateWorker(w) ==
  /\ pc[Main] = "create" /\ pc[w] = "unborn"
  /\ pc' = [pc EXCEPT ![w] = "reg_lock"]
  /\ UNCHANGED <<qowner, queueVars, cur, heapVars, poolVars, sent, spurious, runs>>

InitDone ==
  /\ \A w \in Workers : pc[w] # "unborn"
  /\ GoTo(Main, "create", "main")
  /\ UNCHANGED <<qowner, queueVars, cur, heapVars, poolVars, sent, spurious, runs>>

\* Main calls pthread_pool_exec with the next routine of its script.
MainExec ==
  /\ sent < Len(Script)
  /\ GoTo(Main, "main", "malloc")
  /\ sent' = sent + 1
  /\ UNCHANGED <<qowner, queueVars, cur, heapVars, poolVars, spurious, runs>>

MainDone ==
  /\ sent = Len(Script)
  /\ GoTo(Main, "main", "exited")
  /\ UNCHANGED <<qowner, queueVars, cur, heapVars, poolVars, sent, spurious, runs>>

-----------------------------------------------------------------------------
(* pthread_pool_exec and pthread_queue_push                                *)

\* The routine a thread is passing to pthread_pool_exec.
Pushed(th) == IF th = Main THEN Script[sent] ELSE "relay"

\* malloc and pthread_task_init of the queue's own copy of the task.
MallocNode(th) ==
  /\ GoTo(th, "malloc", "push_lock")
  /\ \E n \in Node \ allocated :
       /\ allocated' = allocated \cup {n}
       /\ routine' = [routine EXCEPT ![n] = Pushed(th)]
       /\ next' = [next EXCEPT ![n] = NULL]
       /\ cur' = [cur EXCEPT ![th] = n]
  /\ UNCHANGED <<qowner, first, last, terminated, accepted, served, freed,
                 poolVars, sent, spurious, runs>>

\* malloc returned NULL: push returns EXIT_FAILURE and the task is dropped.
MallocFails(th) ==
  /\ MallocMayFail \/ allocated = Node
  /\ GoTo(th, "malloc", Resume(th))
  /\ UNCHANGED <<qowner, queueVars, cur, heapVars, poolVars, sent, spurious, runs>>

\* pthread_mutex_lock on queue->mutex, at the place named from.
LockQueue(th, from, to) ==
  /\ qowner = NULL
  /\ GoTo(th, from, to)
  /\ qowner' = th
  /\ UNCHANGED <<queueVars, cur, heapVars, poolVars, sent, spurious, runs>>

PushLock(th) == LockQueue(th, "push_lock", "push_link")

\* Enqueue the node at the tail of the FIFO.
PushLink(th) ==
  LET n == cur[th] IN
  /\ GoTo(th, "push_link", "push_signal")
  /\ IF last = NULL
       THEN first' = n /\ next' = next
       ELSE first' = first /\ next' = [next EXCEPT ![last] = n]
  /\ last' = n
  /\ accepted' = Append(accepted, n)
  /\ UNCHANGED <<qowner, terminated, served, cur, heapVars, poolVars, sent,
                 spurious, runs>>

Waiting == {w \in Workers : pc[w] = "cond_wait"}

\* Fault: the signal is forgotten.
PushSignal_NoSignal(th) ==
  /\ GoTo(th, "push_signal", Resume(th))
  /\ qowner' = NULL
  /\ UNCHANGED <<queueVars, cur, heapVars, poolVars, sent, spurious, runs>>

\* pthread_cond_signal wakes one waiting worker, if there is one, and the
\* mutex is released.  There is no test of queue->terminated.
PushSignal(th) ==
  /\ pc[th] = "push_signal"
  /\ qowner' = NULL
  /\ \/ /\ Waiting = {}
        /\ pc' = [pc EXCEPT ![th] = Resume(th)]
     \/ \E w \in Waiting : pc' = [pc EXCEPT ![th] = Resume(th), ![w] = "pop_relock"]
  /\ UNCHANGED <<queueVars, cur, heapVars, poolVars, sent, spurious, runs>>

-----------------------------------------------------------------------------
(* pthread_queue_pop                                                       *)

PopLock(w) == LockQueue(w, "pop_lock", "pop_test")

\* pthread_cond_wait takes the mutex back before it returns, and the loop
\* tests the queue again.
PopRelock(w) == LockQueue(w, "pop_relock", "pop_test")

\* The loop ends: there is a task to take.
PopFound(w) ==
  /\ first # NULL
  /\ GoTo(w, "pop_test", "pop_take")
  /\ UNCHANGED <<qowner, queueVars, cur, heapVars, poolVars, sent, spurious, runs>>

\* The queue is empty and terminated: unlock and return -1.
PopTerminated(w) ==
  /\ first = NULL /\ terminated
  /\ GoTo(w, "pop_test", "dereg_lock")
  /\ qowner' = NULL
  /\ UNCHANGED <<queueVars, cur, heapVars, poolVars, sent, spurious, runs>>

\* Fault: the wait is entered without the test of terminated.
PopWait_Untested(w) ==
  /\ first = NULL
  /\ GoTo(w, "pop_test", "cond_wait")
  /\ qowner' = NULL
  /\ UNCHANGED <<queueVars, cur, heapVars, poolVars, sent, spurious, runs>>

\* pthread_cond_wait releases the mutex and blocks, in one step.
PopWait(w) ==
  /\ first = NULL /\ ~terminated
  /\ GoTo(w, "pop_test", "cond_wait")
  /\ qowner' = NULL
  /\ UNCHANGED <<queueVars, cur, heapVars, poolVars, sent, spurious, runs>>

\* POSIX lets pthread_cond_wait return without a signal.
SpuriousWakeup(w) ==
  /\ spurious < MaxSpurious
  /\ GoTo(w, "cond_wait", "pop_relock")
  /\ spurious' = spurious + 1
  /\ UNCHANGED <<qowner, queueVars, cur, heapVars, poolVars, sent, runs>>

\* Fault: the last node leaves queue->last dangling.
PopTake_LastKept(w) ==
  /\ GoTo(w, "pop_take", "pop_unlock")
  /\ cur' = [cur EXCEPT ![w] = first]
  /\ first' = next[first]
  /\ served' = served + 1
  /\ UNCHANGED <<qowner, last, next, terminated, accepted, heapVars, poolVars, sent,
                 spurious, runs>>

\* Fault: the head is executed but stays in the list.
PopTake_HeadKept(w) ==
  /\ GoTo(w, "pop_take", "pop_unlock")
  /\ cur' = [cur EXCEPT ![w] = first]
  /\ served' = served + 1
  /\ UNCHANGED <<qowner, first, last, next, terminated, accepted, heapVars, poolVars,
                 sent, spurious, runs>>

\* Dequeue the node at the head of the FIFO.
PopTake(w) ==
  /\ GoTo(w, "pop_take", "pop_unlock")
  /\ cur' = [cur EXCEPT ![w] = first]
  /\ last' = IF first = last THEN NULL ELSE last
  /\ first' = next[first]
  /\ served' = served + 1
  /\ UNCHANGED <<qowner, next, terminated, accepted, heapVars, poolVars, sent,
                 spurious, runs>>

PopUnlock(w) ==
  /\ GoTo(w, "pop_unlock", "pop_copy")
  /\ qowner' = NULL
  /\ UNCHANGED <<queueVars, cur, heapVars, poolVars, sent, spurious, runs>>

\* After the unlock: copy the task out of the node and free the node.
PopCopy(w) ==
  /\ GoTo(w, "pop_copy", "run")
  /\ freed' = freed \cup {cur[w]}
  /\ UNCHANGED <<qowner, queueVars, cur, routine, allocated, poolVars, sent,
                 spurious, runs>>

-----------------------------------------------------------------------------
(* pthread_pool_routine                                                    *)

\* The call of the task's routine, up to the first call it makes to the pool.
AfterRun ==
  [r \in Routine |-> CASE r = "job" -> "pop_lock"
                      [] r = "relay" -> "malloc"
                      [] r = "destroy" -> "shut_lock"]

ExecTask(w) ==
  /\ GoTo(w, "run", AfterRun[routine[cur[w]]])
  /\ runs' = [runs EXCEPT ![cur[w]] = @ + 1]
  /\ UNCHANGED <<qowner, queueVars, cur, heapVars, poolVars, sent, spurious>>

\* pthread_mutex_lock on pool->mutex, and the read of thread_init.  On a
\* destroyed mutex the behaviour is undefined; glibc returns EINVAL and the
\* thread, which ignores the result, goes on without exclusion.
LockPool(w, from, to) ==
  /\ \/ destroyed /\ powner' = powner
     \/ ~destroyed /\ powner = NULL /\ powner' = w
  /\ GoTo(w, from, to)
  /\ tmp' = [tmp EXCEPT ![w] = threadInit]
  /\ UNCHANGED <<qowner, queueVars, cur, heapVars, destroyed, threadInit, sent,
                 spurious, runs>>

\* The write of thread_init, and pthread_mutex_unlock.
UnlockPool(w, from, to, value) ==
  /\ GoTo(w, from, to)
  /\ threadInit' = value
  /\ powner' = IF powner = w THEN NULL ELSE powner
  /\ UNCHANGED <<qowner, queueVars, cur, heapVars, destroyed, tmp, sent, spurious,
                 runs>>

RegLock(w) == LockPool(w, "reg_lock", "reg_add")
RegAdd(w) == UnlockPool(w, "reg_add", "pop_lock", (tmp[w] + 1) % SizeMax)

DeregLock(w) == LockPool(w, "dereg_lock", "dereg_sub")
DeregSub(w) ==
  UnlockPool(w, "dereg_sub", "exited", (tmp[w] + SizeMax - 1) % SizeMax)

-----------------------------------------------------------------------------
(* pthread_pool_destroy and pthread_queue_shutdown, run by a worker        *)

ShutLock(w) == LockQueue(w, "shut_lock", "shut_set")

ShutSet(w) ==
  /\ GoTo(w, "shut_set", "shut_wake")
  /\ terminated' = TRUE
  /\ UNCHANGED <<qowner, first, last, next, accepted, served, cur, heapVars,
                 poolVars, sent, spurious, runs>>

\* pthread_cond_broadcast and unlock.
ShutWake(w) ==
  /\ pc[w] = "shut_wake"
  /\ pc' = [th \in Thread |-> IF th = w THEN "pool_destroy"
                              ELSE IF th \in Waiting THEN "pop_relock" ELSE pc[th]]
  /\ qowner' = NULL
  /\ UNCHANGED <<queueVars, cur, heapVars, poolVars, sent, spurious, runs>>

\* pthread_mutex_destroy on pool->mutex, the workers not joined.  glibc
\* refuses (EBUSY, ignored) when the mutex is locked.
PoolDestroy(w) ==
  /\ GoTo(w, "pool_destroy", "pop_lock")
  /\ destroyed' = (destroyed \/ powner = NULL)
  /\ UNCHANGED <<qowner, queueVars, cur, heapVars, powner, threadInit, tmp, sent,
                 spurious, runs>>

-----------------------------------------------------------------------------
Push(th) == MallocNode(th) \/ MallocFails(th) \/ PushLock(th) \/ PushLink(th)
            \/ PushSignal(th)

MainStep == (\E w \in Workers : CreateWorker(w)) \/ InitDone \/ MainExec
            \/ MainDone \/ Push(Main)

Pop(w) == PopLock(w) \/ PopRelock(w) \/ PopFound(w) \/ PopTerminated(w)
          \/ PopWait(w) \/ PopTake(w) \/ PopUnlock(w) \/ PopCopy(w)

WorkerStep(w) == RegLock(w) \/ RegAdd(w) \/ Pop(w) \/ ExecTask(w) \/ Push(w)
                 \/ ShutLock(w) \/ ShutSet(w) \/ ShutWake(w) \/ PoolDestroy(w)
                 \/ DeregLock(w) \/ DeregSub(w)

\* Nothing left to do: Main is through its script and every worker has
\* returned, or waits for a task that nobody is going to push.
Quiescent ==
  /\ pc[Main] = "exited"
  /\ \A w \in Workers :
       pc[w] = "exited" \/ (pc[w] = "cond_wait" /\ first = NULL /\ ~terminated)
  /\ UNCHANGED vars

Next == MainStep \/ (\E w \in Workers : WorkerStep(w) \/ SpuriousWakeup(w))
        \/ Quiescent

\* Every thread keeps running when it can; nobody owes a spurious wakeup.
Fairness == WF_vars(MainStep) /\ \A w \in Workers : WF_vars(WorkerStep(w))

Spec == Init /\ [][Next]_vars
FairSpec == Spec /\ Fairness

-----------------------------------------------------------------------------
Location == {"create", "main", "unborn", "reg_lock", "reg_add", "malloc",
  "push_lock", "push_link", "push_signal", "pop_lock", "pop_relock", "pop_test",
  "cond_wait", "pop_take", "pop_unlock", "pop_copy", "run", "shut_lock", "shut_set",
  "shut_wake", "pool_destroy", "dereg_lock", "dereg_sub", "exited"}

TypeOK ==
  /\ pc \in [Thread -> Location]
  /\ qowner \in Thread \cup {NULL} /\ powner \in Workers \cup {NULL}
  /\ first \in Node \cup {NULL} /\ last \in Node \cup {NULL}
  /\ next \in [Node -> Node \cup {NULL}]
  /\ routine \in [Node -> Routine]
  /\ terminated \in BOOLEAN /\ destroyed \in BOOLEAN
  /\ cur \in [Thread -> Node \cup {NULL}]
  /\ allocated \in SUBSET Node /\ freed \in SUBSET Node
  /\ threadInit \in Nat /\ tmp \in [Workers -> Nat]
  /\ sent \in 0..Len(Script) /\ spurious \in Nat
  /\ accepted \in Seq(Node) /\ served \in Nat
  /\ runs \in [Node -> Nat]

\* The steps between pthread_mutex_lock and pthread_mutex_unlock on queue->mutex.
QueueCritical == {"push_link", "push_signal", "pop_test", "pop_take", "pop_unlock",
                  "shut_set", "shut_wake"}

\* Mutual exclusion on queue->mutex over push, pop and shutdown, through the
\* release and the reacquisition inside pthread_cond_wait: whoever is between
\* lock and unlock is the owner, so two threads never touch the list at once.
QueueMutex == \A th \in Thread : pc[th] \in QueueCritical <=> qowner = th

\* The pointers are the FIFO (threadpool.h:8 reports segfaults in the dequeue of
\* the original): first is the oldest node not yet taken, last the newest one,
\* next links them in the order they were pushed, and an empty queue has both
\* pointers NULL, so that the next push starts a new list.
ListIntact ==
  /\ first = IF served < Len(accepted) THEN accepted[served + 1] ELSE NULL
  /\ last = IF served < Len(accepted) THEN accepted[Len(accepted)] ELSE NULL
  /\ \A i \in served + 1 .. Len(accepted) - 1 : next[accepted[i]] = accepted[i + 1]
  /\ served < Len(accepted) => next[accepted[Len(accepted)]] = NULL

\* No node is freed while the queue still points to it or while a worker has yet
\* to copy the task out of it (the copy and the free come after the unlock).
NoUseAfterFree ==
  /\ first \notin freed /\ last \notin freed
  /\ \A w \in Workers : pc[w] \in {"pop_unlock", "pop_copy"} => cur[w] \notin freed

\* A pushed task is executed at most once, and only after it has been unlinked,
\* whatever the number of workers racing for it.
AtMostOnce ==
  \A n \in Node : /\ runs[n] <= 1
                  /\ runs[n] = 1 => \E i \in 1..served : accepted[i] = n

\* No lost wakeup: while a task is queued and nobody is inside the queue, some
\* worker is awake and on its way to the queue, or busy and due to come back.
NoTaskStranded ==
  first # NULL /\ qowner = NULL =>
    \E w \in Workers : pc[w] \notin {"cond_wait", "exited"}

\* Once the shutdown has released the mutex nobody sleeps on the condition
\* variable, whoever was waiting before and whoever comes later.
NoSleeperAfterShutdown ==
  terminated /\ (\A w \in Workers : pc[w] # "shut_wake") => Waiting = {}

\* Leader/followers (lf_web.c): a relay accepts a client before it pushes its
\* successor, so at most one thread is on its way to accept or in it, even when
\* the push fails.
OneLeader ==
  LET leading == {w \in Workers : pc[w] \in {"malloc", "push_lock", "push_link"}}
      claimed == {w \in Workers : /\ pc[w] \in {"pop_unlock", "pop_copy", "run"}
                                  /\ routine[cur[w]] = "relay"}
      queued == {i \in served + 1 .. Len(accepted) : routine[accepted[i]] = "relay"}
  IN  Cardinality(leading) + Cardinality(claimed) + Cardinality(queued) <= 1

\* "Destroy threadpool, handling graceful termination of the tasks"
\* (threadpool.h:42): no worker uses the pool's mutex once it is destroyed.
NoUseOfDestroyedMutex ==
  destroyed => \A w \in Workers :
                 pc[w] \notin {"reg_lock", "reg_add", "dereg_lock", "dereg_sub"}

\* Every task that pthread_pool_exec accepted is executed in the end.
EveryTaskRuns ==
  \A n \in Node : (\E i \in 1..Len(accepted) : accepted[i] = n) ~> (runs[n] = 1)

\* threadpool.h:9 reports deadlocks in the termination of the original: after the
\* shutdown every worker leaves its loop and returns.
EveryWorkerLeaves == terminated ~> (\A w \in Workers : pc[w] = "exited")

=============================================================================
