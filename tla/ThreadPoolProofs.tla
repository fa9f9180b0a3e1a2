-------------------------- MODULE ThreadPoolProofs --------------------------
(***************************************************************************)
(* Theorems about ThreadPool, for every number of workers, nodes, scripts  *)
(* and spurious wakeups.                                                   *)
(***************************************************************************)
EXTENDS ThreadPoolRefinement, SequenceTheorems, FiniteSetTheorems, TLAPS

(***************************************************************************)
(* Type correctness and mutual exclusion.  TypeOK alone is not inductive:  *)
(* a pop reads first->next, so first must not be NULL at that point, which *)
(* holds because the worker that tested it still owns the mutex.           *)
(***************************************************************************)
Holding == {"push_lock", "push_link", "pop_unlock", "pop_copy", "run"}

\* What a thread relies on at the places where it dereferences a node.
Locals ==
  /\ \A th \in Thread : pc[th] \in Holding => cur[th] \in Node
  /\ \A th \in Thread : pc[th] = "pop_take" => first # NULL
  /\ pc[Main] = "malloc" => sent \in 1..Len(Script)

MutexInv == TypeOK /\ QueueMutex /\ Locals

LEMMA MutexInvInit == Init => MutexInv
<1> SUFFICES ASSUME Init PROVE MutexInv
  OBVIOUS
<1> USE PoolAssumption DEF Init, Thread, Location
<1>1. TypeOK
  <2>1. accepted \in Seq(Node)
    OBVIOUS
  <2>2. sent \in 0..Len(Script) /\ routine \in [Node -> Routine]
    BY DEF Routine
  <2> QED BY <2>1, <2>2 DEF TypeOK
<1>2. QueueMutex
  BY DEF QueueMutex, QueueCritical
<1>3. Locals
  BY DEF Locals, Holding
<1> QED BY <1>1, <1>2, <1>3 DEF MutexInv

LEMMA ModNat == ASSUME NEW a \in Nat, NEW b \in Nat \ {0}
                PROVE a % b \in Nat
OBVIOUS

LEMMA MutexInvNext == MutexInv /\ [Next]_vars => MutexInv'
<1> SUFFICES ASSUME MutexInv, [Next]_vars PROVE MutexInv'
  OBVIOUS
<1> USE PoolAssumption DEF MutexInv, TypeOK, QueueMutex, Locals, Holding,
      QueueCritical, Thread, Routine, Location, GoTo, queueVars, heapVars, poolVars
<1>1. ASSUME NEW w \in Workers, CreateWorker(w) PROVE MutexInv'
  BY <1>1 DEF CreateWorker
<1>2. CASE InitDone
  BY <1>2 DEF InitDone
<1>3. CASE MainExec
  BY <1>3 DEF MainExec
<1>4. CASE MainDone
  BY <1>4 DEF MainDone
<1>5. ASSUME NEW th \in Thread, Push(th) PROVE MutexInv'
  <2>1. CASE MallocNode(th)
    BY <2>1 DEF MallocNode, Pushed
  <2>2. CASE MallocFails(th)
    BY <2>2 DEF MallocFails, Resume
  <2>3. CASE PushLock(th)
    <3>1. TypeOK'
      BY <2>3 DEF PushLock, LockQueue
    <3>2. QueueMutex'
      BY <2>3 DEF PushLock, LockQueue
    <3>3. Locals'
      BY <2>3 DEF PushLock, LockQueue
    <3> QED BY <3>1, <3>2, <3>3
  <2>4. CASE PushLink(th)
    <3> cur[th] \in Node
      BY <2>4 DEF PushLink
    <3> accepted' \in Seq(Node)
      BY <2>4 DEF PushLink
    <3> next' \in [Node -> Node \cup {NULL}]
      BY <2>4 DEF PushLink
    <3>1. TypeOK'
      BY <2>4 DEF PushLink
    <3>2. QueueMutex'
      BY <2>4 DEF PushLink
    <3>3. Locals'
      BY <2>4 DEF PushLink
    <3> QED BY <3>1, <3>2, <3>3
  <2>5. CASE PushSignal(th)
    <3>1. CASE pc' = [pc EXCEPT ![th] = Resume(th)]
      BY <2>5, <3>1 DEF PushSignal, Resume
    <3>2. ASSUME NEW w \in Waiting,
                 pc' = [pc EXCEPT ![th] = Resume(th), ![w] = "pop_relock"]
          PROVE MutexInv'
      BY <2>5, <3>2 DEF PushSignal, Waiting, Resume
    <3> QED BY <2>5, <3>1, <3>2 DEF PushSignal
  <2> QED BY <1>5, <2>1, <2>2, <2>3, <2>4, <2>5 DEF Push
<1>6. ASSUME NEW w \in Workers, Pop(w) PROVE MutexInv'
  <2>1. CASE PopLock(w)
    BY <2>1 DEF PopLock, LockQueue
  <2>2. CASE PopRelock(w)
    BY <2>2 DEF PopRelock, LockQueue
  <2>3. CASE PopFound(w)
    BY <2>3 DEF PopFound
  <2>4. CASE PopTerminated(w)
    BY <2>4 DEF PopTerminated
  <2>5. CASE PopWait(w)
    BY <2>5 DEF PopWait
  <2>6. CASE PopTake(w)
    <3> first \in Node
      BY <2>6 DEF PopTake
    <3>1. TypeOK'
      BY <2>6 DEF PopTake
    <3>2. QueueMutex'
      BY <2>6 DEF PopTake
    <3>3. Locals'
      BY <2>6 DEF PopTake
    <3> QED BY <3>1, <3>2, <3>3
  <2>7. CASE PopUnlock(w)
    BY <2>7 DEF PopUnlock
  <2>8. CASE PopCopy(w)
    BY <2>8 DEF PopCopy
  <2> QED BY <1>6, <2>1, <2>2, <2>3, <2>4, <2>5, <2>6, <2>7, <2>8 DEF Pop
<1>7. ASSUME NEW w \in Workers, SpuriousWakeup(w) PROVE MutexInv'
  <2>1. spurious' \in Nat
    BY <1>7 DEF SpuriousWakeup
  <2> QED BY <1>7, <2>1 DEF SpuriousWakeup
<1>8. ASSUME NEW w \in Workers, ExecTask(w) PROVE MutexInv'
  <2>1. routine[cur[w]] \in Routine /\ cur[w] \in Node
    BY <1>8 DEF ExecTask
  <2>2. PICK to \in {"pop_lock", "malloc", "shut_lock"} : pc' = [pc EXCEPT ![w] = to]
    BY <1>8, <2>1 DEF ExecTask, AfterRun
  <2>3. /\ pc[w] = "run" /\ runs' \in [Node -> Nat]
        /\ UNCHANGED <<qowner, queueVars, cur, heapVars, poolVars, sent, spurious>>
    BY <1>8, <2>1 DEF ExecTask
  <2>4. TypeOK'
    BY <2>2, <2>3
  <2>5. QueueMutex'
    BY <2>2, <2>3
  <2>6. Locals'
    BY <2>2, <2>3
  <2> QED BY <2>4, <2>5, <2>6
<1>9. ASSUME NEW w \in Workers, RegLock(w) \/ DeregLock(w) PROVE MutexInv'
  <2>1. PICK from \in {"reg_lock", "dereg_lock"}, to \in {"reg_add", "dereg_sub"} :
          LockPool(w, from, to)
    BY <1>9 DEF RegLock, DeregLock
  <2>2. /\ pc[w] \in {"reg_lock", "dereg_lock"}
        /\ pc' = [pc EXCEPT ![w] = to]
        /\ powner' \in Workers \cup {NULL}
        /\ tmp' \in [Workers -> Nat]
        /\ UNCHANGED <<qowner, queueVars, cur, heapVars, destroyed, threadInit, sent,
                       spurious, runs>>
    <3>1. /\ pc[w] = from /\ pc' = [pc EXCEPT ![w] = to]
          /\ UNCHANGED <<qowner, queueVars, cur, heapVars, destroyed, threadInit,
                         sent, spurious, runs>>
      BY <2>1 DEF LockPool
    <3>2. powner' \in Workers \cup {NULL}
      BY <2>1 DEF LockPool
    <3>3. tmp' = [tmp EXCEPT ![w] = threadInit] /\ threadInit \in Nat
      BY <2>1 DEF LockPool
    <3>4. tmp' \in [Workers -> Nat]
      BY <3>3
    <3> QED BY <3>1, <3>2, <3>4
  <2>3. TypeOK'
    BY <2>2
  <2>4. QueueMutex'
    BY <2>2
  <2>5. Locals'
    BY <2>2
  <2> QED BY <2>3, <2>4, <2>5
<1>10. ASSUME NEW w \in Workers, RegAdd(w) PROVE MutexInv'
  <2>1. threadInit' \in Nat /\ powner' \in Workers \cup {NULL}
    BY <1>10, ModNat DEF RegAdd, UnlockPool
  <2> QED BY <1>10, <2>1 DEF RegAdd, UnlockPool
<1>11. ASSUME NEW w \in Workers, DeregSub(w) PROVE MutexInv'
  <2>1. tmp[w] + SizeMax - 1 \in Nat
    OBVIOUS
  <2>2. threadInit' \in Nat /\ powner' \in Workers \cup {NULL}
    BY <1>11, <2>1, ModNat DEF DeregSub, UnlockPool
  <2> QED BY <1>11, <2>2 DEF DeregSub, UnlockPool
<1>12. ASSUME NEW w \in Workers, ShutLock(w) \/ ShutSet(w) PROVE MutexInv'
  <2>1. CASE ShutLock(w)
    <3>1. TypeOK'
      BY <2>1 DEF ShutLock, LockQueue
    <3>2. QueueMutex'
      BY <2>1 DEF ShutLock, LockQueue
    <3>3. Locals'
      BY <2>1 DEF ShutLock, LockQueue
    <3> QED BY <3>1, <3>2, <3>3
  <2>2. CASE ShutSet(w)
    BY <2>2 DEF ShutSet
  <2> QED BY <1>12, <2>1, <2>2
<1>13. ASSUME NEW w \in Workers, ShutWake(w) PROVE MutexInv'
  BY <1>13 DEF ShutWake, Waiting
<1>14. ASSUME NEW w \in Workers, PoolDestroy(w) PROVE MutexInv'
  BY <1>14 DEF PoolDestroy
<1>15. CASE UNCHANGED vars
  BY <1>15 DEF vars
<1> QED
  BY <1>1, <1>2, <1>3, <1>4, <1>5, <1>6, <1>7, <1>8, <1>9, <1>10, <1>11, <1>12,
     <1>13, <1>14, <1>15 DEF Next, MainStep, WorkerStep, Quiescent

\* Every variable keeps its type, whatever the interleaving.
THEOREM TypeCorrect == Spec => []TypeOK
<1>1. MutexInv => TypeOK
  BY DEF MutexInv
<1> QED
  BY MutexInvInit, MutexInvNext, <1>1, PTL DEF Spec

\* No two threads are between lock and unlock of the queue mutex.
THEOREM MutualExclusion == Spec => []QueueMutex
<1>1. MutexInv => QueueMutex
  BY DEF MutexInv
<1> QED
  BY MutexInvInit, MutexInvNext, <1>1, PTL DEF Spec

(***************************************************************************)
(* The list.  ListIntact is strengthened with where every node is: a node  *)
(* is linked at most once, the node a pusher is about to link is in no     *)
(* other hands, and the nodes that workers hold, have called or have freed *)
(* are among the served ones.                                              *)
(***************************************************************************)
Pushing == {"push_lock", "push_link"}
Reading == {"pop_unlock", "pop_copy"}
Owning == Reading \cup {"run"}

\* The node n has been unlinked.
Served(n) == \E i \in 1..served : accepted[i] = n

Order ==
  /\ served <= Len(accepted)
  /\ \A i, j \in 1..Len(accepted) : accepted[i] = accepted[j] => i = j
  /\ \A i \in 1..Len(accepted) : accepted[i] \in allocated

Fresh ==
  /\ \A th \in Thread : pc[th] \in Pushing =>
       /\ cur[th] \in allocated
       /\ next[cur[th]] = NULL
       /\ \A i \in 1..Len(accepted) : accepted[i] # cur[th]
  /\ \A t1, t2 \in Thread :
       pc[t1] \in Pushing /\ pc[t2] \in Pushing /\ cur[t1] = cur[t2] => t1 = t2

Owned ==
  /\ \A w \in Thread : pc[w] \in Owning => Served(cur[w]) /\ runs[cur[w]] = 0
  /\ \A w \in Thread : pc[w] \in Reading => cur[w] \notin freed
  /\ \A v, w \in Thread :
       pc[v] \in Owning /\ pc[w] \in Owning /\ cur[v] = cur[w] => v = w

Spent == /\ \A n \in freed : Served(n)
         /\ \A n \in Node : runs[n] <= 1 /\ (runs[n] = 1 => Served(n))

ListInv == ListIntact /\ Order /\ Fresh /\ Owned /\ Spent

LEMMA ListInvInit == Init => ListInv
BY PoolAssumption DEF Init, ListInv, ListIntact, Order, Fresh, Owned, Spent, Served,
   Pushing, Reading, Owning, Thread

\* Steps that leave the list and the heap alone, and bring no thread to a place
\* where it holds a node, preserve the invariant.
LEMMA ListFrame ==
  ASSUME ListInv,
         UNCHANGED <<first, last, next, accepted, served, cur, allocated, freed, runs>>,
         \A th \in Thread : /\ pc'[th] \in Pushing => pc[th] \in Pushing
                            /\ pc'[th] \in Reading => pc[th] \in Reading
                            /\ pc'[th] \in Owning => pc[th] \in Owning
  PROVE  ListInv'
<1>1. ListIntact'
  BY DEF ListInv, ListIntact
<1>2. Order'
  BY DEF ListInv, Order
<1>3. Fresh'
  BY DEF ListInv, Fresh
<1>4. Owned'
  BY DEF ListInv, Owned, Served
<1>5. Spent'
  BY DEF ListInv, Spent, Served
<1> QED BY <1>1, <1>2, <1>3, <1>4, <1>5 DEF ListInv

LEMMA MallocListInv ==
  ASSUME MutexInv, ListInv, NEW th \in Thread, MallocNode(th)
  PROVE  ListInv'
<1> USE PoolAssumption DEF MutexInv, TypeOK, ListInv, MallocNode, GoTo
<1>1. PICK n \in Node \ allocated :
        /\ allocated' = allocated \cup {n}
        /\ next' = [next EXCEPT ![n] = NULL]
        /\ cur' = [cur EXCEPT ![th] = n]
  OBVIOUS
<1>2. \A i \in 1..Len(accepted) : accepted[i] # n
  BY DEF Order
<1>3. ListIntact'
  BY <1>1, <1>2 DEF ListIntact, Order
<1>4. Order'
  BY <1>1 DEF Order
<1>5. Fresh'
  BY <1>1, <1>2 DEF Fresh, Pushing
<1>6. Owned'
  <2>1. ASSUME NEW v \in Thread, pc'[v] \in Owning
        PROVE  pc[v] \in Owning /\ cur'[v] = cur[v]
    BY <1>1, <2>1 DEF Owning, Reading
  <2>2. \A v \in Thread : pc'[v] \in Reading => pc[v] \in Reading /\ pc'[v] \in Owning
    BY <1>1 DEF Owning, Reading
  <2>3. accepted' = accepted /\ served' = served /\ runs' = runs /\ freed' = freed
    OBVIOUS
  <2> HIDE DEF MutexInv, TypeOK, MallocNode
  <2>4. \A v \in Thread : pc'[v] \in Owning =>
          (\E i \in 1..served' : accepted'[i] = cur'[v]) /\ runs'[cur'[v]] = 0
    BY <2>1, <2>3 DEF Owned, Served
  <2>5. \A v \in Thread : pc'[v] \in Reading => cur'[v] \notin freed'
    BY <2>1, <2>2, <2>3 DEF Owned
  <2>6. \A u, v \in Thread :
          pc'[u] \in Owning /\ pc'[v] \in Owning /\ cur'[u] = cur'[v] => u = v
    BY <2>1 DEF Owned
  <2> QED BY <2>4, <2>5, <2>6 DEF Owned, Served
<1>7. Spent'
  BY DEF Spent, Served
<1> QED BY <1>3, <1>4, <1>5, <1>6, <1>7

LEMMA LinkListInv ==
  ASSUME MutexInv, ListInv, NEW th \in Thread, PushLink(th)
  PROVE  ListInv'
<1> USE PoolAssumption DEF MutexInv, TypeOK, ListInv, PushLink, GoTo
<1> DEFINE n == cur[th]
<1>1. n \in allocated /\ next[n] = NULL /\ n # NULL
  BY DEF Fresh, Pushing
<1>2. \A i \in 1..Len(accepted) : accepted[i] # n
  BY DEF Fresh, Pushing
<1>3. /\ accepted' = Append(accepted, n)
      /\ Len(accepted') = Len(accepted) + 1
      /\ accepted'[Len(accepted) + 1] = n
      /\ \A i \in 1..Len(accepted) : accepted'[i] = accepted[i]
  <2>1. accepted' = Append(accepted, n) /\ accepted \in Seq(Node)
    OBVIOUS
  <2>2. n \in Node
    BY <1>1
  <2> QED BY <2>1, <2>2
<1>f. /\ served' = served /\ allocated' = allocated /\ cur' = cur
      /\ freed' = freed /\ runs' = runs
  BY DEF heapVars
<1> HIDE DEF n
<1>4. ListIntact'
  <2>1. last = NULL <=> served = Len(accepted)
    BY DEF ListIntact, Order
  <2>2. CASE last = NULL
    BY <1>1, <1>3, <1>f, <2>1, <2>2 DEF ListIntact, Order, n
  <2>3. CASE last # NULL
    <3>1. last = accepted[Len(accepted)] /\ last # n /\ served < Len(accepted)
      BY <1>2, <2>1, <2>3 DEF ListIntact, Order
    <3>2. first' = first /\ next' = [next EXCEPT ![last] = n] /\ last' = n
      BY <2>3 DEF n
    <3>3. \A i \in served + 1 .. Len(accepted) - 1 : next'[accepted[i]] = accepted[i + 1]
      BY <3>1, <3>2 DEF ListIntact, Order
    <3>4. next'[accepted[Len(accepted)]] = n /\ next'[n] = NULL
      BY <1>1, <3>1, <3>2 DEF Order
    <3>5. first' = accepted'[served' + 1] /\ last' = accepted'[Len(accepted')]
      BY <1>3, <1>f, <3>1, <3>2 DEF ListIntact, Order
    <3>6. ASSUME NEW i \in served + 1 .. Len(accepted)
          PROVE  next'[accepted'[i]] = accepted'[i + 1]
      <4>1. CASE i = Len(accepted)
        BY <1>3, <3>1, <3>4, <4>1
      <4>2. CASE i # Len(accepted)
        <5>1. i \in served + 1 .. Len(accepted) - 1
          BY <4>2
        <5>2. i \in 1..Len(accepted) /\ i + 1 \in 1..Len(accepted)
          BY <5>1
        <5> QED BY <1>3, <3>3, <5>1, <5>2
      <4> QED BY <4>1, <4>2
    <3> QED BY <1>3, <1>f, <3>1, <3>2, <3>4, <3>5, <3>6 DEF ListIntact, Order
  <2> QED BY <2>2, <2>3
<1>5. Order'
  BY <1>1, <1>2, <1>3, <1>f DEF Order
<1>6. Fresh'
  <2>1. ASSUME NEW t \in Thread, pc'[t] \in Pushing
        PROVE /\ t # th /\ pc[t] \in Pushing /\ cur[t] # n
    BY <2>1 DEF Fresh, Pushing, n
  <2>2. ASSUME NEW t \in Thread, pc'[t] \in Pushing PROVE next'[cur[t]] = NULL
    <3>1. next[cur[t]] = NULL /\ (\A i \in 1..Len(accepted) : accepted[i] # cur[t])
      BY <2>1, <2>2 DEF Fresh
    <3>3. cur[t] \in Node
      BY <2>1, <2>2 DEF Fresh
    <3>2. last # NULL => last # cur[t]
      BY <3>1 DEF ListIntact, Order
    <3> QED BY <3>1, <3>2, <3>3
  <2>3. ASSUME NEW t \in Thread, pc'[t] \in Pushing
        PROVE  \A i \in 1..Len(accepted') : accepted'[i] # cur'[t]
    BY <1>3, <1>f, <2>1, <2>3 DEF Fresh
  <2>4. \A t1, t2 \in Thread :
          pc'[t1] \in Pushing /\ pc'[t2] \in Pushing /\ cur'[t1] = cur'[t2] => t1 = t2
    BY <1>f, <2>1 DEF Fresh
  <2>5. \A t \in Thread : pc'[t] \in Pushing => cur'[t] \in allocated'
    BY <1>f, <2>1 DEF Fresh
  <2> QED BY <1>f, <2>2, <2>3, <2>4, <2>5 DEF Fresh
<1>7. Owned'
  <2>1. \A w \in Thread : pc'[w] \in Owning => pc[w] \in Owning
    BY DEF Owning, Reading
  <2>2. \A w \in Thread : pc'[w] \in Reading => pc[w] \in Reading
    BY DEF Reading
  <2>3. \A m : Served(m) => Served(m)'
    BY <1>3, <1>f DEF Served, Order
  <2> QED BY <1>3, <1>f, <2>1, <2>2, <2>3 DEF Owned
<1>8. Spent'
  BY <1>3, <1>f DEF Spent, Served, Order
<1> QED BY <1>4, <1>5, <1>6, <1>7, <1>8

LEMMA TakeListInv ==
  ASSUME MutexInv, ListInv, NEW w \in Workers, PopTake(w)
  PROVE  ListInv'
<1> USE PoolAssumption DEF MutexInv, TypeOK, ListInv, PopTake, GoTo
<1>1. served < Len(accepted) /\ first = accepted[served + 1] /\ first \in Node
  BY DEF Locals, ListIntact, Order, Thread
<1>2. /\ pc[w] = "pop_take" /\ pc' = [pc EXCEPT ![w] = "pop_unlock"]
      /\ cur' = [cur EXCEPT ![w] = first]
      /\ last' = IF first = last THEN NULL ELSE last
      /\ first' = next[first] /\ served' = served + 1
      /\ next' = next /\ accepted' = accepted /\ allocated' = allocated
      /\ freed' = freed /\ runs' = runs
  BY DEF heapVars
<1> HIDE DEF PopTake
<1>3. ListIntact'
  <2>1. first = last <=> served + 1 = Len(accepted)
    BY <1>1 DEF ListIntact, Order
  <2>2. CASE served + 1 = Len(accepted)
    BY <1>1, <1>2, <2>1, <2>2 DEF ListIntact
  <2>3. CASE served + 1 # Len(accepted)
    <3>1. next[accepted[served + 1]] = accepted[served + 2]
      BY <1>1, <2>3 DEF ListIntact
    <3> QED BY <1>1, <1>2, <2>1, <2>3, <3>1 DEF ListIntact
  <2> QED BY <2>2, <2>3
<1>4. Order'
  BY <1>1, <1>2 DEF Order
<1>5. Fresh'
  BY <1>2 DEF Fresh, Pushing
<1>6. \A n : Served(n) => Served(n)' /\ n # first
  <2>1. \A i \in 1..served : accepted[i] # first
    BY <1>1 DEF Order
  <2> QED BY <1>2, <2>1 DEF Served
<1>7. \E i \in 1..served' : accepted'[i] = first
  BY <1>1, <1>2
<1>8. Owned'
  <2>1. first \notin freed /\ runs[first] = 0
    BY <1>1, <1>6 DEF Spent
  <2>2. ASSUME NEW v \in Thread, pc'[v] \in Owning, v # w
        PROVE  pc[v] \in Owning /\ cur'[v] = cur[v] /\ cur[v] # first
    BY <1>2, <1>6, <2>2 DEF Owned
  <2>3. \A v \in Thread : v # w /\ pc'[v] \in Reading => pc[v] \in Reading
    BY <1>2
  <2>4. w \in Thread /\ cur'[w] = first
    BY <1>2 DEF Thread
  <2>5. Reading \subseteq Owning
    BY DEF Owning
  <2>6. \A v \in Thread : pc'[v] \in Owning => \E i \in 1..served' : accepted'[i] = cur'[v]
    <3>1. ASSUME NEW v \in Thread, v # w, pc'[v] \in Owning
          PROVE  \E i \in 1..served' : accepted'[i] = cur'[v]
      <4>1. Served(cur[v]) /\ cur'[v] = cur[v]
        BY <2>2, <3>1 DEF Owned
      <4> QED BY <1>6, <4>1 DEF Served
    <3> QED BY <1>7, <2>4, <3>1
  <2>7. \A v \in Thread : pc'[v] \in Owning => runs'[cur'[v]] = 0
    BY <1>2, <2>1, <2>2, <2>4 DEF Owned
  <2>8. \A v \in Thread : pc'[v] \in Reading => cur'[v] \notin freed'
    BY <1>2, <2>1, <2>2, <2>3, <2>4, <2>5 DEF Owned
  <2>9. \A u, v \in Thread :
          pc'[u] \in Owning /\ pc'[v] \in Owning /\ cur'[u] = cur'[v] => u = v
    BY <1>2, <2>2, <2>4 DEF Owned
  <2> QED BY <2>6, <2>7, <2>8, <2>9 DEF Owned, Served
<1>9. Spent'
  BY <1>2, <1>6 DEF Spent
<1> QED BY <1>3, <1>4, <1>5, <1>8, <1>9

LEMMA CopyListInv ==
  ASSUME MutexInv, ListInv, NEW w \in Workers, PopCopy(w)
  PROVE  ListInv'
<1> USE PoolAssumption DEF MutexInv, TypeOK, ListInv
<1>1. /\ pc[w] = "pop_copy" /\ pc' = [pc EXCEPT ![w] = "run"]
      /\ freed' = freed \cup {cur[w]}
      /\ UNCHANGED <<first, last, next, accepted, served, cur, allocated, runs>>
  BY DEF PopCopy, GoTo, queueVars
<1>2. w \in Thread
  BY DEF Thread
<1>3. ListIntact'
  BY <1>1 DEF ListIntact
<1>4. Order'
  BY <1>1 DEF Order
<1>5. Fresh'
  BY <1>1 DEF Fresh, Pushing
<1>6. Owned'
  <2>1. \A v \in Thread : pc'[v] \in Owning => pc[v] \in Owning
    BY <1>1 DEF Owning, Reading
  <2>2. \A v \in Thread : pc'[v] \in Reading => v # w /\ pc[v] \in Reading
    BY <1>1 DEF Reading
  <2>3. Reading \subseteq Owning /\ pc[w] \in Owning
    BY <1>1 DEF Owning, Reading
  <2>4. \A v \in Thread : pc'[v] \in Reading => cur'[v] \notin freed'
    BY <1>1, <1>2, <2>2, <2>3 DEF Owned
  <2> QED BY <1>1, <2>1, <2>4 DEF Owned, Served
<1>7. Spent'
  <2>1. Served(cur[w])
    BY <1>1, <1>2 DEF Owned, Owning, Reading
  <2> QED BY <1>1, <2>1 DEF Spent, Served
<1> QED BY <1>3, <1>4, <1>5, <1>6, <1>7

LEMMA ExecListInv ==
  ASSUME MutexInv, ListInv, NEW w \in Workers, ExecTask(w)
  PROVE  ListInv'
<1> USE PoolAssumption DEF MutexInv, TypeOK, ListInv
<1>1. w \in Thread /\ cur[w] \in Node
  BY DEF Thread, Locals, Holding, ExecTask, GoTo
<1>2. PICK to \in {"pop_lock", "malloc", "shut_lock"} : pc' = [pc EXCEPT ![w] = to]
  BY <1>1 DEF ExecTask, AfterRun, GoTo, Routine
<1>3. /\ pc[w] = "run"
      /\ runs' = [runs EXCEPT ![cur[w]] = runs[cur[w]] + 1]
      /\ UNCHANGED <<first, last, next, accepted, served, cur, allocated, freed>>
  BY DEF ExecTask, GoTo, queueVars, heapVars
<1>4. ListIntact'
  BY <1>3 DEF ListIntact
<1>5. Order'
  BY <1>3 DEF Order
<1>6. Fresh'
  BY <1>2, <1>3 DEF Fresh, Pushing
<1>7. Owned'
  <2>1. \A v \in Thread : pc'[v] \in Owning => v # w /\ pc[v] \in Owning
    BY <1>2, <1>3 DEF Owning, Reading
  <2>2. \A v \in Thread : pc'[v] \in Reading => pc[v] \in Reading
    BY <1>2, <1>3 DEF Reading
  <2>3. pc[w] \in Owning
    BY <1>3 DEF Owning
  <2>4. \A v \in Thread : pc'[v] \in Owning => runs'[cur'[v]] = 0
    BY <1>1, <1>3, <2>1, <2>3 DEF Owned
  <2> QED BY <1>3, <2>1, <2>2, <2>4 DEF Owned, Served
<1>8. Spent'
  <2>1. Served(cur[w]) /\ runs[cur[w]] = 0
    BY <1>1, <1>3 DEF Owned, Owning
  <2> QED BY <1>1, <1>3, <2>1 DEF Spent, Served
<1> QED BY <1>4, <1>5, <1>6, <1>7, <1>8

LEMMA ListInvNext == MutexInv /\ ListInv /\ [Next]_vars => ListInv'
<1> SUFFICES ASSUME MutexInv, ListInv, [Next]_vars PROVE ListInv'
  OBVIOUS
<1> DEFINE Frame ==
      /\ UNCHANGED <<first, last, next, accepted, served, cur, allocated, freed, runs>>
      /\ \A th \in Thread : /\ pc'[th] \in Pushing => pc[th] \in Pushing
                            /\ pc'[th] \in Reading => pc[th] \in Reading
                            /\ pc'[th] \in Owning => pc[th] \in Owning
<1> USE DEF Pushing, Reading, Owning, GoTo, queueVars, heapVars
<1>t. pc \in [Thread -> Location]
  BY DEF MutexInv, TypeOK
<1>w. Workers \subseteq Thread /\ Main \in Thread
  BY DEF Thread
<1>1. ASSUME NEW th \in Thread, Push(th) PROVE ListInv'
  <2>1. CASE MallocFails(th)
    <3>1. Frame
      BY <1>t, <2>1 DEF MallocFails, Resume
    <3> QED BY <3>1, ListFrame
  <2>2. CASE PushLock(th)
    <3>1. Frame
      BY <1>t, <2>2 DEF PushLock, LockQueue
    <3> QED BY <3>1, ListFrame
  <2>3. CASE PushSignal(th)
    <3>1. Frame
      BY <1>t, <1>w, <2>3 DEF PushSignal, Resume, Waiting
    <3> QED BY <3>1, ListFrame
  <2> QED BY <1>1, <2>1, <2>2, <2>3, MallocListInv, LinkListInv DEF Push
<1>2. CASE MainStep /\ ~Push(Main)
  <2>1. Frame
    BY <1>t, <1>w, <1>2 DEF MainStep, CreateWorker, InitDone, MainExec, MainDone
  <2> QED BY <2>1, ListFrame
<1>3. ASSUME NEW w \in Workers, Pop(w) PROVE ListInv'
  <2>1. CASE ~PopTake(w) /\ ~PopCopy(w)
    <3>1. Frame
      BY <1>t, <1>w, <1>3, <2>1 DEF Pop, PopLock, PopRelock, LockQueue, PopFound,
         PopTerminated, PopWait, PopUnlock
    <3> QED BY <3>1, ListFrame
  <2> QED BY <2>1, TakeListInv, CopyListInv
<1>4. ASSUME NEW w \in Workers, RegLock(w) \/ RegAdd(w) \/ DeregLock(w) \/ DeregSub(w)
      PROVE  ListInv'
  <2>1. Frame
    BY <1>t, <1>w, <1>4 DEF RegLock, RegAdd, DeregLock, DeregSub, LockPool, UnlockPool
  <2> QED BY <2>1, ListFrame
<1>5. ASSUME NEW w \in Workers, ShutLock(w) \/ ShutSet(w) \/ PoolDestroy(w)
      PROVE  ListInv'
  <2>1. Frame
    BY <1>t, <1>w, <1>5 DEF ShutLock, LockQueue, ShutSet, PoolDestroy
  <2> QED BY <2>1, ListFrame
<1>6. ASSUME NEW w \in Workers, ShutWake(w) PROVE ListInv'
  <2>1. Frame
    BY <1>t, <1>w, <1>6 DEF ShutWake, Waiting
  <2> QED BY <2>1, ListFrame
<1>7. ASSUME NEW w \in Workers, SpuriousWakeup(w) PROVE ListInv'
  <2>1. Frame
    BY <1>t, <1>w, <1>7 DEF SpuriousWakeup
  <2> QED BY <2>1, ListFrame
<1>8. CASE UNCHANGED vars
  <2>1. Frame
    BY <1>8 DEF vars
  <2> QED BY <2>1, ListFrame
<1> QED
  BY <1>w, <1>1, <1>2, <1>3, <1>4, <1>5, <1>6, <1>7, <1>8, ExecListInv
  DEF Next, MainStep, WorkerStep, Quiescent

LEMMA ListInvAlways == Spec => [](MutexInv /\ ListInv)
<1>1. Init => MutexInv /\ ListInv
  BY MutexInvInit, ListInvInit
<1>2. MutexInv /\ ListInv /\ [Next]_vars => (MutexInv /\ ListInv)'
  BY MutexInvNext, ListInvNext
<1> QED
  BY <1>1, <1>2, PTL DEF Spec

\* However pushes and pops interleave, the pointers are the FIFO of the nodes
\* pushed and not yet taken.
THEOREM ListStaysIntact == Spec => []ListIntact
<1>1. ListInv => ListIntact
  BY DEF ListInv
<1> QED
  BY ListInvAlways, <1>1, PTL

\* No task is executed twice, and none that was not pushed and taken.
THEOREM TasksRunAtMostOnce == Spec => []AtMostOnce
<1>1. ListInv => AtMostOnce
  BY DEF ListInv, Spent, Served, AtMostOnce
<1> QED
  BY ListInvAlways, <1>1, PTL

\* Neither the queue nor a worker about to copy its task points to a freed node.
THEOREM FreedNodesAreUnreachable == Spec => []NoUseAfterFree
<1>1. MutexInv /\ ListInv => NoUseAfterFree
  <2> SUFFICES ASSUME MutexInv, ListInv PROVE NoUseAfterFree
    OBVIOUS
  <2>1. NULL \notin freed
    BY PoolAssumption DEF MutexInv, TypeOK
  <2>2. ASSUME served < Len(accepted)
        PROVE  accepted[served + 1] \notin freed /\ accepted[Len(accepted)] \notin freed
    <3>1. served \in Nat /\ Len(accepted) \in Nat
      BY DEF MutexInv, TypeOK
    <3>2. ASSUME NEW j \in served + 1 .. Len(accepted) PROVE accepted[j] \notin freed
      <4>1. \A i \in 1..served : accepted[i] # accepted[j]
        BY <3>1, <2>2 DEF ListInv, Order
      <4> QED BY <4>1 DEF ListInv, Spent, Served
    <3> QED BY <2>2, <3>1, <3>2
  <2> QED
    BY <2>1, <2>2 DEF ListInv, ListIntact, Owned, Reading, NoUseAfterFree, Thread
<1> QED
  BY ListInvAlways, <1>1, PTL

-----------------------------------------------------------------------------
(***************************************************************************)
(* The shutdown wakes everybody.  The property is inductive: terminated is *)
(* never reset, a worker that goes to sleep has read it as FALSE while it  *)
(* owned the mutex, and the broadcast comes before the mutex is released.  *)
(***************************************************************************)

\* A step that puts nobody to sleep and leaves a shutdown in progress alone.
LEMMA SleeperFrame ==
  ASSUME NoSleeperAfterShutdown, terminated' = terminated,
         \A w \in Workers : /\ pc'[w] = "cond_wait" => pc[w] = "cond_wait"
                            /\ pc[w] = "shut_wake" => pc'[w] = "shut_wake"
  PROVE  NoSleeperAfterShutdown'
BY DEF NoSleeperAfterShutdown, Waiting

LEMMA SleeperNext ==
  ASSUME MutexInv, NoSleeperAfterShutdown, [Next]_vars
  PROVE  NoSleeperAfterShutdown'
<1> DEFINE Frame ==
      /\ terminated' = terminated
      /\ \A v \in Workers : /\ pc'[v] = "cond_wait" => pc[v] = "cond_wait"
                            /\ pc[v] = "shut_wake" => pc'[v] = "shut_wake"
<1>f. Frame => NoSleeperAfterShutdown'
  BY SleeperFrame
<1> USE DEF GoTo, queueVars
<1>t. pc \in [Thread -> Location] /\ Workers \subseteq Thread /\ Main \in Thread
  BY DEF MutexInv, TypeOK, Thread
<1>1. ASSUME NEW th \in Thread, Push(th) PROVE Frame
  <2>1. CASE ~PushSignal(th)
    BY <1>t, <1>1, <2>1
    DEF Push, MallocNode, MallocFails, PushLock, LockQueue, PushLink, Resume
  <2>2. CASE PushSignal(th)
    BY <1>t, <2>2 DEF PushSignal, Resume, Waiting
  <2> QED BY <2>1, <2>2
<1>2. ASSUME MainStep, ~Push(Main) PROVE Frame
  BY <1>t, <1>2, PoolAssumption DEF MainStep, CreateWorker, InitDone, MainExec, MainDone
<1>3. ASSUME NEW w \in Workers, Pop(w) PROVE NoSleeperAfterShutdown'
  <2>1. CASE PopWait(w)
    BY <2>1 DEF PopWait, NoSleeperAfterShutdown
  <2>2. CASE ~PopWait(w)
    <3>1. Frame
      BY <1>t, <1>3, <2>2
      DEF Pop, PopLock, PopRelock, LockQueue, PopFound, PopTerminated, PopTake,
          PopUnlock, PopCopy
    <3> QED BY <1>f, <3>1
  <2> QED BY <2>1, <2>2
<1>4. ASSUME NEW w \in Workers, RegLock(w) \/ RegAdd(w) \/ DeregLock(w) \/ DeregSub(w)
             \/ ShutLock(w) \/ PoolDestroy(w) \/ SpuriousWakeup(w)
      PROVE  Frame
  BY <1>t, <1>4
  DEF RegLock, RegAdd, DeregLock, DeregSub, LockPool, UnlockPool, ShutLock, LockQueue,
      PoolDestroy, SpuriousWakeup
<1>5. ASSUME NEW w \in Workers, ExecTask(w) PROVE Frame
  <2>1. cur[w] \in Node /\ routine[cur[w]] \in Routine
    BY <1>t, <1>5 DEF ExecTask, MutexInv, TypeOK, Locals, Holding
  <2>2. PICK to \in {"pop_lock", "malloc", "shut_lock"} : pc' = [pc EXCEPT ![w] = to]
    BY <1>5, <2>1 DEF ExecTask, AfterRun, Routine
  <2> QED BY <1>t, <1>5, <2>2 DEF ExecTask
<1>6. ASSUME NEW w \in Workers, ShutSet(w) PROVE NoSleeperAfterShutdown'
  BY <1>t, <1>6 DEF ShutSet, NoSleeperAfterShutdown
<1>7. ASSUME NEW w \in Workers, ShutWake(w) PROVE NoSleeperAfterShutdown'
  BY <1>t, <1>7 DEF ShutWake, NoSleeperAfterShutdown, Waiting
<1>8. CASE UNCHANGED vars
  BY <1>f, <1>8 DEF vars
<1> QED
  BY <1>f, <1>t, <1>1, <1>2, <1>3, <1>4, <1>5, <1>6, <1>7, <1>8
  DEF Next, MainStep, WorkerStep, Quiescent

\* Once the shutdown has released the mutex no worker sleeps in
\* pthread_cond_wait, for any number of workers and spurious wakeups.
THEOREM ShutdownWakesEverybody == Spec => []NoSleeperAfterShutdown
<1>1. Init => NoSleeperAfterShutdown
  BY DEF Init, NoSleeperAfterShutdown
<1>2. MutexInv /\ NoSleeperAfterShutdown /\ [Next]_vars => NoSleeperAfterShutdown'
  BY SleeperNext
<1> QED
  BY ListInvAlways, <1>1, <1>2, PTL DEF Spec

-----------------------------------------------------------------------------
(***************************************************************************)
(* The refinement of TaskQueue.  Linking a node submits its task, taking   *)
(* it off the list claims it, the call of its routine calls it; setting    *)
(* terminated closes the queue, and a worker that is told so leaves.       *)
(***************************************************************************)
Claimed == {"pop_unlock", "pop_copy", "run"}
Gone == {"dereg_lock", "dereg_sub", "exited"}

\* A step that moves no worker in or out of these places is a stutter.
LEMMA PoolStutters ==
  ASSUME UNCHANGED <<accepted, served, runs, terminated>>,
         \A w \in Workers : /\ pc'[w] \in Claimed <=> pc[w] \in Claimed
                            /\ pc[w] \in Claimed => cur'[w] = cur[w]
                            /\ pc'[w] \in Gone <=> pc[w] \in Gone
  PROVE  UNCHANGED <<PendingBar, ClaimedBar, runs, terminated, LeftBar>>
BY DEF PendingBar, ClaimedBar, LeftBar, Claimed, Gone

\* What an Append, and the removal of the head, do to the rest of a sequence.
LEMMA RestOfAppend ==
  ASSUME NEW S, NEW s \in Seq(S), NEW e \in S, NEW k \in 0..Len(s)
  PROVE  SubSeq(Append(s, e), k + 1, Len(s) + 1) = Append(SubSeq(s, k + 1, Len(s)), e)
<1> DEFINE t == Append(s, e)
           u == SubSeq(t, k + 1, Len(s) + 1)
           v == SubSeq(s, k + 1, Len(s))
<1>1. /\ Len(s) \in Nat /\ t \in Seq(S) /\ t[Len(s) + 1] = e
      /\ \A i \in 1..Len(s) : t[i] = s[i] /\ s[i] \in S
  BY AppendProperties, LenProperties, ElementOfSeq
<1> HIDE DEF t
<1>2. \A i \in k + 1 .. Len(s) + 1 : t[i] \in S
  <2>1. \A i \in k + 1 .. Len(s) + 1 : i \in 1..Len(s) \/ i = Len(s) + 1
    BY <1>1
  <2> QED BY <1>1, <2>1
<1>3. /\ u \in Seq(S) /\ Len(u) = Len(s) - k + 1
      /\ \A i \in 1 .. Len(s) - k + 1 : u[i] = t[k + i]
  <2>1. k + 1 \in Int /\ Len(s) + 1 \in Int /\ k + 1 <= Len(s) + 1
    BY <1>1
  <2> HIDE DEF u
  <2>2. /\ u \in Seq(S) /\ Len(u) = (Len(s) + 1) - (k + 1) + 1
        /\ \A i \in 1 .. (Len(s) + 1) - (k + 1) + 1 : u[i] = t[(k + 1) + i - 1]
    BY <1>2, <2>1, SubSeqProperties DEF u
  <2>3. (Len(s) + 1) - (k + 1) + 1 = Len(s) - k + 1 /\ \A i \in Int : (k + 1) + i - 1 = k + i
    BY <1>1
  <2> QED BY <2>2, <2>3
<1>4. /\ v \in Seq(S) /\ Len(v) = Len(s) - k
      /\ \A i \in 1 .. Len(s) - k : v[i] = s[k + i]
  <2>1. k + 1 \in Int /\ Len(s) \in Int /\ \A i \in k + 1 .. Len(s) : s[i] \in S
    BY <1>1
  <2> HIDE DEF v
  <2>2. /\ v \in Seq(S) /\ Len(v) = IF k + 1 <= Len(s) THEN Len(s) - (k + 1) + 1 ELSE 0
        /\ \A i \in 1 .. Len(s) - (k + 1) + 1 : v[i] = s[(k + 1) + i - 1]
    BY <2>1, SubSeqProperties DEF v
  <2>3. Len(s) - (k + 1) + 1 = Len(s) - k /\ \A i \in Int : (k + 1) + i - 1 = k + i
    BY <1>1
  <2>4. Len(v) = Len(s) - k
    <3>1. CASE k < Len(s)
      <4>1. k + 1 <= Len(s)
        BY <1>1, <3>1
      <4> QED BY <2>2, <2>3, <4>1
    <3>2. CASE k = Len(s)
      <4>1. ~(k + 1 <= Len(s)) /\ Len(s) - k = 0
        BY <1>1, <3>2
      <4> QED BY <2>2, <4>1
    <3> QED BY <1>1, <3>1, <3>2
  <2>5. ASSUME NEW i \in 1 .. Len(s) - k PROVE v[i] = s[k + i]
    <3>1. i \in 1 .. Len(s) - (k + 1) + 1 /\ (k + 1) + i - 1 = k + i
      BY <1>1, <2>3
    <3> QED BY <2>2, <3>1
  <2> QED BY <2>2, <2>4, <2>5
<1> HIDE DEF u, v
<1>5. /\ Append(v, e) \in Seq(S) /\ Len(Append(v, e)) = Len(s) - k + 1
      /\ Append(v, e)[Len(s) - k + 1] = e
      /\ \A i \in 1 .. Len(s) - k : Append(v, e)[i] = s[k + i]
  BY <1>4, AppendProperties
<1>6. ASSUME NEW i \in 1..Len(u) PROVE u[i] = Append(v, e)[i]
  <2>1. CASE i = Len(s) - k + 1
    <3>1. k + i = Len(s) + 1 /\ i \in 1 .. Len(s) - k + 1
      BY <1>1, <1>3, <2>1
    <3> QED BY <1>1, <1>3, <1>5, <2>1, <3>1
  <2>2. CASE i # Len(s) - k + 1
    <3>1. i \in 1 .. Len(s) - k /\ k + i \in 1..Len(s)
      BY <1>1, <1>3, <2>2
    <3> QED BY <1>1, <1>3, <1>5, <3>1
  <2> QED BY <2>1, <2>2
<1> QED BY <1>3, <1>5, <1>6, SeqEqual DEF u, v, t

LEMMA PoolRefinesInit == Init => TQ!Init
<1> SUFFICES ASSUME Init PROVE TQ!Init
  OBVIOUS
<1>1. PendingBar = <<>>
  <2>1. accepted = <<>> /\ served = 0
    BY DEF Init
  <2> QED BY <2>1, SubSeqEmpty DEF PendingBar
<1>2. ClaimedBar = [w \in Workers |-> NULL] /\ LeftBar = {}
  BY PoolAssumption DEF Init, ClaimedBar, LeftBar, Thread
<1> QED BY <1>1, <1>2 DEF Init, TQ!Init

LEMMA PoolRefinesNext ==
  MutexInv /\ ListInv /\ [Next]_vars
    => [TQ!Next]_<<PendingBar, ClaimedBar, runs, terminated, LeftBar>>
<1> SUFFICES ASSUME MutexInv, ListInv, [Next]_vars
             PROVE  [TQ!Next]_<<PendingBar, ClaimedBar, runs, terminated, LeftBar>>
  OBVIOUS
<1> DEFINE Still ==
      /\ UNCHANGED <<accepted, served, runs, terminated>>
      /\ \A v \in Workers : /\ pc'[v] \in Claimed <=> pc[v] \in Claimed
                            /\ pc[v] \in Claimed => cur'[v] = cur[v]
                            /\ pc'[v] \in Gone <=> pc[v] \in Gone
<1>f. Still => UNCHANGED <<PendingBar, ClaimedBar, runs, terminated, LeftBar>>
  BY PoolStutters
<1> HIDE DEF Still
<1> USE DEF GoTo, queueVars, heapVars
<1>t. /\ pc \in [Thread -> Location] /\ cur \in [Thread -> Node \cup {NULL}]
      /\ Workers \subseteq Thread /\ Main \in Thread /\ Main \notin Workers
      /\ accepted \in Seq(Node) /\ served \in Nat /\ runs \in [Node -> Nat]
  BY PoolAssumption DEF MutexInv, TypeOK, Thread
<1>r. served <= Len(accepted) /\ Len(accepted) \in Nat
  BY <1>t, LenProperties DEF ListInv, Order
<1>1. ASSUME NEW th \in Thread, Push(th), ~PushLink(th) PROVE Still
  BY <1>t, <1>1
  DEF Still, Claimed, Gone, Push, MallocNode, MallocFails, PushLock, LockQueue, PushSignal,
      Resume, Waiting
<1>2. ASSUME NEW th \in Thread, PushLink(th) PROVE \E t \in Node : TQ!Submit(t)
  <2> DEFINE n == cur[th]
  <2>1. /\ pc[th] = "push_link" /\ pc' = [pc EXCEPT ![th] = "push_signal"]
        /\ accepted' = Append(accepted, cur[th])
        /\ UNCHANGED <<served, terminated, cur, runs>>
    BY <1>2 DEF PushLink
  <2>2. cur[th] \in Node
    BY <1>t, <2>1 DEF MutexInv, Locals, Holding
  <2>3. \A i \in 1..Len(accepted) : accepted[i] # cur[th]
    BY <2>1 DEF ListInv, Fresh, Pushing
  <2>4. Len(accepted') = Len(accepted) + 1
    BY <1>t, <2>1, <2>2, AppendProperties
  <2>5. PendingBar' = Append(PendingBar, cur[th])
    <3>1. served \in 0..Len(accepted)
      BY <1>t, <1>r
    <3>2. SubSeq(Append(accepted, cur[th]), served + 1, Len(accepted) + 1)
            = Append(SubSeq(accepted, served + 1, Len(accepted)), cur[th])
      BY <1>t, <2>2, <3>1, RestOfAppend
    <3> QED BY <2>1, <2>4, <3>2 DEF PendingBar
  <2>6. ClaimedBar' = ClaimedBar /\ LeftBar' = LeftBar
    BY <1>t, <2>1 DEF ClaimedBar, LeftBar
  <2>7. TQ!New(cur[th])
    <3>1. ASSUME NEW i \in 1..Len(PendingBar) PROVE PendingBar[i] # cur[th]
      <4>1. /\ Len(PendingBar) = IF served + 1 <= Len(accepted)
                                 THEN Len(accepted) - (served + 1) + 1 ELSE 0
            /\ \A j \in 1 .. Len(accepted) - (served + 1) + 1 :
                 PendingBar[j] = accepted[(served + 1) + j - 1]
        <5>1. \A j \in served + 1 .. Len(accepted) : accepted[j] \in Node
          BY <1>t, <1>r, ElementOfSeq
        <5>2. served + 1 \in Int /\ Len(accepted) \in Int
          BY <1>t, <1>r
        <5> QED BY <5>1, <5>2, SubSeqProperties DEF PendingBar
      <4>2. i \in 1 .. Len(accepted) - (served + 1) + 1
            /\ (served + 1) + i - 1 \in 1..Len(accepted)
        BY <1>t, <1>r, <4>1
      <4> QED BY <2>3, <4>1, <4>2
    <3>2. ASSUME NEW w \in Workers, pc[w] \in Claimed PROVE cur[w] # cur[th]
      <4>1. \E i \in 1..served : accepted[i] = cur[w]
        BY <1>t, <3>2 DEF ListInv, Owned, Served, Owning, Reading, Claimed
      <4> QED BY <1>t, <1>r, <2>3, <4>1
    <3>3. \A w \in Workers : ClaimedBar[w] # cur[th]
      BY <2>2, <3>2, PoolAssumption DEF ClaimedBar, Claimed
    <3>4. runs[cur[th]] = 0
      <4>1. ~Served(cur[th])
        BY <1>t, <1>r, <2>3 DEF Served
      <4> QED BY <1>t, <2>2, <4>1 DEF ListInv, Spent
    <3> QED BY <3>1, <3>3, <3>4 DEF TQ!New
  <2> QED BY <2>1, <2>2, <2>5, <2>6, <2>7 DEF TQ!Submit
<1>3. CASE MainStep /\ ~Push(Main)
  <2>1. Still
    BY <1>t, <1>3 DEF Still, Claimed, Gone, MainStep, CreateWorker, InitDone, MainExec, MainDone
  <2> QED BY <1>f, <2>1
<1>4. ASSUME NEW w \in Workers, PopTake(w) PROVE TQ!Claim(w)
  <2>1. /\ pc[w] = "pop_take" /\ pc' = [pc EXCEPT ![w] = "pop_unlock"]
        /\ cur' = [cur EXCEPT ![w] = first] /\ served' = served + 1
        /\ UNCHANGED <<accepted, terminated, runs>>
    BY <1>4 DEF PopTake
  <2>2. first # NULL
    BY <1>t, <2>1 DEF MutexInv, Locals
  <2>3. served < Len(accepted) /\ first = accepted[served + 1]
    BY <2>2 DEF ListInv, ListIntact
  <2>4. served + 1 \in 1..Len(accepted) /\ Len(accepted) \in served + 1 .. Len(accepted)
    BY <1>t, <1>r, <2>3
  <2>5. Head(PendingBar) = first /\ PendingBar' = Tail(PendingBar)
    BY <1>t, <2>1, <2>3, <2>4, HeadTailOfSubSeq DEF PendingBar
  <2>6. PendingBar # <<>>
    <3>1. PendingBar \in Seq(Node) /\ Len(PendingBar) = Len(accepted) - (served + 1) + 1
      <4>1. \A j \in served + 1 .. Len(accepted) : accepted[j] \in Node
        BY <1>t, <1>r, ElementOfSeq
      <4>2. served + 1 \in Int /\ Len(accepted) \in Int
        BY <1>t, <1>r
      <4> QED BY <2>3, <2>4, <4>1, <4>2, SubSeqProperties DEF PendingBar
    <3>2. Len(PendingBar) # 0
      BY <1>t, <1>r, <2>3, <3>1
    <3> QED BY <3>2
  <2>7. ClaimedBar[w] = NULL /\ w \notin LeftBar
    BY <2>1 DEF ClaimedBar, LeftBar
  <2>8. ClaimedBar' = [ClaimedBar EXCEPT ![w] = first] /\ LeftBar' = LeftBar
    BY <1>t, <2>1 DEF ClaimedBar, LeftBar
  <2> QED BY <2>1, <2>5, <2>6, <2>7, <2>8 DEF TQ!Claim
<1>5. ASSUME NEW w \in Workers, PopTerminated(w) PROVE TQ!Leave(w)
  <2>1. /\ pc[w] = "pop_test" /\ pc' = [pc EXCEPT ![w] = "dereg_lock"]
        /\ first = NULL /\ terminated
        /\ UNCHANGED <<accepted, served, cur, terminated, runs>>
    BY <1>5 DEF PopTerminated
  <2>2. PendingBar = <<>> /\ PendingBar' = <<>>
    <3>1. ASSUME served < Len(accepted) PROVE FALSE
      <4>1. accepted[served + 1] \in Node
        BY <1>t, <1>r, <3>1, ElementOfSeq
      <4> QED BY <2>1, <3>1, <4>1, PoolAssumption DEF ListInv, ListIntact
    <3>2. Len(accepted) < served + 1 /\ served + 1 \in Int /\ Len(accepted) \in Int
      BY <1>t, <1>r, <3>1
    <3> QED BY <2>1, <3>2, SubSeqEmpty DEF PendingBar
  <2>3. ClaimedBar' = ClaimedBar /\ ClaimedBar[w] = NULL /\ LeftBar' = LeftBar \cup {w}
    BY <1>t, <2>1 DEF ClaimedBar, LeftBar
  <2> QED BY <2>1, <2>2, <2>3 DEF TQ!Leave
<1>6. ASSUME NEW w \in Workers, Pop(w), ~PopTake(w), ~PopTerminated(w) PROVE Still
  BY <1>t, <1>6
  DEF Still, Claimed, Gone, Pop, PopLock, PopRelock, LockQueue, PopFound, PopWait,
      PopUnlock, PopCopy
<1>7. ASSUME NEW w \in Workers, ExecTask(w) PROVE TQ!Call(w)
  <2>1. cur[w] \in Node /\ routine[cur[w]] \in Routine
    BY <1>t, <1>7 DEF ExecTask, MutexInv, TypeOK, Locals, Holding
  <2>2. PICK to \in {"pop_lock", "malloc", "shut_lock"} : pc' = [pc EXCEPT ![w] = to]
    BY <1>7, <2>1 DEF ExecTask, AfterRun, Routine
  <2>3. /\ pc[w] = "run" /\ runs' = [runs EXCEPT ![cur[w]] = runs[cur[w]] + 1]
        /\ UNCHANGED <<accepted, served, terminated, cur>>
    BY <1>7 DEF ExecTask
  <2>4. PendingBar' = PendingBar /\ LeftBar' = LeftBar
    BY <1>t, <2>2, <2>3 DEF PendingBar, LeftBar
  <2>5. ClaimedBar[w] = cur[w] /\ ClaimedBar' = [ClaimedBar EXCEPT ![w] = NULL]
    BY <1>t, <2>2, <2>3 DEF ClaimedBar
  <2>6. cur[w] # NULL
    BY <2>1, PoolAssumption
  <2> QED BY <2>3, <2>4, <2>5, <2>6 DEF TQ!Call
<1>8. ASSUME NEW w \in Workers, ShutSet(w) PROVE TQ!Close
  BY <1>t, <1>8 DEF ShutSet, TQ!Close, PendingBar, ClaimedBar, LeftBar
<1>9. ASSUME NEW w \in Workers, ShutWake(w) PROVE Still
  BY <1>t, <1>9 DEF Still, Claimed, Gone, ShutWake, Waiting
<1>10. ASSUME NEW w \in Workers,
              RegLock(w) \/ RegAdd(w) \/ DeregLock(w) \/ DeregSub(w) \/ ShutLock(w)
              \/ PoolDestroy(w) \/ SpuriousWakeup(w)
       PROVE  Still
  BY <1>t, <1>10
  DEF Still, Claimed, Gone, RegLock, RegAdd, DeregLock, DeregSub, LockPool, UnlockPool,
      ShutLock, LockQueue, PoolDestroy, SpuriousWakeup
<1>11. CASE UNCHANGED vars
  BY <1>f, <1>11 DEF vars, Still
<1> QED
  BY <1>t, <1>f, <1>1, <1>2, <1>3, <1>4, <1>5, <1>6, <1>7, <1>8, <1>9, <1>10, <1>11
  DEF Next, MainStep, WorkerStep, Quiescent, TQ!Next

\* threadpool.c implements the abstract queue: tasks are claimed in the order they
\* were submitted, each by one worker, and called once; a worker leaves only when the
\* pool is closed and empty.
THEOREM PoolIsImplemented == Spec => ImplementsTaskQueue
<1>1. MutexInv /\ ListInv /\ [Next]_vars
        => [TQ!Next]_<<PendingBar, ClaimedBar, runs, terminated, LeftBar>>
  BY PoolRefinesNext
<1> QED
  BY ListInvAlways, PoolRefinesInit, <1>1, PTL DEF Spec, ImplementsTaskQueue, TQ!Spec, TQ!tqVars

-----------------------------------------------------------------------------
(***************************************************************************)
(* No task is stranded.  That needs a script that destroys the pool last:  *)
(* then a worker that has left knows that Main has nothing more to push,   *)
(* since the shutdown was a task, taken after Main had linked it.          *)
(***************************************************************************)
DestroysLast == \A i \in 1 .. Len(Script) - 1 : Script[i] # "destroy"

\* The node of the shutdown is the last that Main submits.
ShutdownIsLast ==
  \A n \in Node : routine[n] = "destroy" =>
    /\ n \in allocated
    /\ sent = Len(Script) /\ pc[Main] \notin {"create", "malloc"}
    /\ pc[Main] \in Pushing => cur[Main] = n

\* The shutdown is going on or has been: its task was taken.
ShuttingDown ==
  terminated \/ \E w \in Workers : pc[w] \in {"shut_lock", "shut_set", "shut_wake", "pool_destroy"}

ShutdownWasTaken == ShuttingDown => \E n \in Node : routine[n] = "destroy" /\ Served(n)

LeftByShutdown == \A w \in Workers : pc[w] \in Gone => terminated

Awake(w) == pc[w] \notin {"cond_wait"} \cup Gone

\* Somebody is going to look at the queue, or Main is about to wake a sleeper.
Attended ==
  first # NULL =>
    \/ \E w \in Workers : Awake(w)
    \/ pc[Main] = "push_signal" /\ \E w \in Workers : pc[w] = "cond_wait"

StrandInv == ShutdownIsLast /\ ShutdownWasTaken /\ LeftByShutdown /\ Attended

LEMMA StrandInvInit == Init => StrandInv
BY PoolAssumption
DEF Init, StrandInv, ShutdownIsLast, ShutdownWasTaken, ShuttingDown, LeftByShutdown, Attended, Gone,
    Thread

\* Main does not link a node once the shutdown has begun.
LEMMA MainIsThrough ==
  ASSUME MutexInv, ListInv, StrandInv, ShuttingDown
  PROVE  pc[Main] \notin Pushing /\ pc[Main] # "malloc" /\ sent = Len(Script)
<1>1. PICK n \in Node : routine[n] = "destroy" /\ Served(n)
  BY DEF StrandInv, ShutdownWasTaken
<1>2. \E i \in 1..Len(accepted) : accepted[i] = n
  <2>1. served \in Nat /\ Len(accepted) \in Nat /\ served <= Len(accepted)
    BY LenProperties DEF MutexInv, TypeOK, ListInv, Order
  <2> QED BY <1>1, <2>1 DEF Served
<1> QED BY <1>1, <1>2 DEF StrandInv, ShutdownIsLast, ListInv, Fresh, Thread

\* Steps that leave the list and the heap alone, and put nobody to sleep.
LEMMA StrandFrame ==
  ASSUME StrandInv,
         UNCHANGED <<first, accepted, served, cur, routine, allocated, sent>>,
         \A n \in Node : Served(n) => Served(n)',
         ShuttingDown' => ShuttingDown,
         terminated => terminated',
         pc'[Main] \in {"create", "malloc"} => pc[Main] \in {"create", "malloc"},
         pc'[Main] \in Pushing => pc[Main] \in Pushing,
         pc[Main] = "push_signal" => pc'[Main] = "push_signal",
         \A w \in Workers : /\ Awake(w) => Awake(w)'
                            /\ pc[w] = "cond_wait" => pc'[w] = "cond_wait" \/ Awake(w)'
                            /\ pc'[w] \in Gone => pc[w] \in Gone
  PROVE  StrandInv'
<1>1. ShutdownIsLast'
  BY DEF StrandInv, ShutdownIsLast
<1>2. ShutdownWasTaken' /\ LeftByShutdown'
  BY DEF StrandInv, ShutdownWasTaken, LeftByShutdown
<1>3. Attended'
  BY DEF StrandInv, Attended
<1> QED BY <1>1, <1>2, <1>3 DEF StrandInv

\* The pushes.
LEMMA StrandPush ==
  ASSUME DestroysLast, Workers # {}, MutexInv, ListInv, StrandInv,
         NEW th \in Thread, Push(th)
  PROVE  StrandInv'
<1> USE DEF GoTo, queueVars, heapVars
<1>t. /\ pc \in [Thread -> Location] /\ Workers \subseteq Thread /\ Main \in Thread
      /\ Main \notin Workers /\ cur \in [Thread -> Node \cup {NULL}]
      /\ routine \in [Node -> Routine] /\ Len(Script) \in Nat
      /\ th = Main \/ th \in Workers
  BY PoolAssumption, LenProperties DEF MutexInv, TypeOK, Thread
<1>1. CASE MallocNode(th)
  <2>1. PICK n \in Node \ allocated :
          /\ allocated' = allocated \cup {n}
          /\ routine' = [routine EXCEPT ![n] = Pushed(th)]
          /\ cur' = [cur EXCEPT ![th] = n]
    BY <1>1 DEF MallocNode
  <2>2. /\ pc[th] = "malloc" /\ pc' = [pc EXCEPT ![th] = "push_lock"]
        /\ UNCHANGED <<first, accepted, served, terminated, sent>>
    BY <1>1 DEF MallocNode
  <2>3. ShutdownIsLast'
    <3>1. CASE th = Main
      <4>1. \A m \in Node : routine[m] # "destroy"
        BY <2>2, <3>1 DEF StrandInv, ShutdownIsLast
      <4>2. sent \in 1..Len(Script)
        BY <2>2, <3>1 DEF MutexInv, Locals
      <4>3. Pushed(th) = "destroy" => sent = Len(Script)
        BY <1>t, <3>1, <4>2 DEF Pushed, DestroysLast
      <4> QED BY <1>t, <2>1, <2>2, <3>1, <4>1, <4>3 DEF ShutdownIsLast
    <3>2. CASE th # Main
      <4>1. pc'[Main] = pc[Main] /\ cur'[Main] = cur[Main]
        BY <1>t, <2>1, <2>2, <3>2
      <4>2. \A m \in Node : routine'[m] = "destroy" => routine[m] = "destroy"
        BY <1>t, <2>1, <3>2 DEF Pushed
      <4> QED BY <2>1, <2>2, <4>1, <4>2 DEF StrandInv, ShutdownIsLast
    <3> QED BY <3>1, <3>2
  <2>4. ShutdownWasTaken'
    <3>1. ShuttingDown' => ShuttingDown
      BY <1>t, <2>2 DEF ShuttingDown
    <3>2. \A m : Served(m)' <=> Served(m)
      BY <2>2 DEF Served
    <3>3. \A m \in Node : routine[m] = "destroy" => routine'[m] = "destroy"
      BY <1>t, <2>1 DEF StrandInv, ShutdownIsLast
    <3> QED BY <3>1, <3>2, <3>3 DEF StrandInv, ShutdownWasTaken
  <2>5. LeftByShutdown' /\ Attended'
    BY <1>t, <2>2 DEF StrandInv, LeftByShutdown, Attended, Awake, Gone
  <2> QED BY <2>3, <2>4, <2>5 DEF StrandInv
<1>2. CASE MallocFails(th) \/ PushLock(th)
  <2>1. /\ UNCHANGED <<first, accepted, served, cur, routine, allocated, sent, terminated>>
        /\ pc[th] \in {"malloc", "push_lock"} /\ \E to \in {"main", "pop_lock", "push_link"} :
             pc' = [pc EXCEPT ![th] = to] /\ (to = "push_link" => pc[th] \in Pushing)
    BY <1>2 DEF MallocFails, Resume, PushLock, LockQueue, Pushing
  <2>2. ShuttingDown' => ShuttingDown
    BY <1>t, <2>1 DEF ShuttingDown
  <2>3. \A n : Served(n) => Served(n)'
    BY <2>1 DEF Served
  <2> QED BY <1>t, <2>1, <2>2, <2>3, StrandFrame DEF Awake, Gone, Pushing
<1>3. CASE PushLink(th)
  <2>1. /\ pc[th] = "push_link" /\ pc' = [pc EXCEPT ![th] = "push_signal"]
        /\ accepted' = Append(accepted, cur[th])
        /\ UNCHANGED <<served, cur, routine, allocated, sent, terminated>>
    BY <1>3 DEF PushLink
  <2>2. ShutdownIsLast'
    BY <1>t, <2>1 DEF StrandInv, ShutdownIsLast, Pushing
  <2>3. ShutdownWasTaken'
    <3>1. ShuttingDown' => ShuttingDown
      BY <1>t, <2>1 DEF ShuttingDown
    <3>2. ASSUME NEW n \in Node, Served(n) PROVE Served(n)'
      <4>1. cur[th] \in Node /\ accepted \in Seq(Node) /\ served \in Nat
            /\ Len(accepted) \in Nat /\ served <= Len(accepted)
        BY <2>1, LenProperties DEF MutexInv, TypeOK, Locals, Holding, ListInv, Order
      <4>2. \A i \in 1..Len(accepted) : accepted'[i] = accepted[i]
        BY <2>1, <4>1, AppendProperties
      <4> QED BY <2>1, <3>2, <4>1, <4>2 DEF Served
    <3> QED BY <2>1, <3>1, <3>2 DEF StrandInv, ShutdownWasTaken
  <2>4. LeftByShutdown'
    BY <1>t, <2>1 DEF StrandInv, LeftByShutdown, Gone
  <2>5. Attended'
    <3>1. CASE th = Main
      <4>1. ~terminated
        BY <2>1, <3>1, MainIsThrough DEF ShuttingDown, Pushing
      <4>2. PICK w \in Workers : TRUE
        OBVIOUS
      <4>3. pc[w] \notin Gone
        BY <4>1 DEF StrandInv, LeftByShutdown
      <4>4. pc'[w] = pc[w] /\ pc'[Main] = "push_signal"
        BY <1>t, <2>1, <3>1
      <4> QED BY <4>3, <4>4 DEF Attended, Awake
    <3>2. CASE th \in Workers
      BY <1>t, <2>1, <3>2 DEF Attended, Awake, Gone
    <3> QED BY <1>t, <3>1, <3>2
  <2> QED BY <2>2, <2>3, <2>4, <2>5 DEF StrandInv
<1>4. CASE PushSignal(th)
  <2>1. /\ UNCHANGED <<first, accepted, served, cur, routine, allocated, sent, terminated>>
        /\ pc[th] = "push_signal" /\ pc'[th] = Resume(th)
        /\ \A v \in Thread : v # th => pc'[v] = pc[v] \/ (pc[v] = "cond_wait" /\ pc'[v] = "pop_relock")
        /\ (\E w \in Workers : pc[w] = "cond_wait") => \E w \in Workers : pc'[w] = "pop_relock"
    BY <1>t, <1>4 DEF PushSignal, Waiting, Resume
  <2>2. ShutdownIsLast'
    BY <1>t, <2>1 DEF StrandInv, ShutdownIsLast, Resume, Pushing
  <2>3. ShuttingDown' => ShuttingDown
    BY <1>t, <2>1 DEF ShuttingDown, Resume
  <2>4. ShutdownWasTaken'
    BY <2>1, <2>3 DEF StrandInv, ShutdownWasTaken, Served
  <2>5. LeftByShutdown'
    BY <1>t, <2>1 DEF StrandInv, LeftByShutdown, Gone, Resume
  <2>6. Attended'
    <3>1. ASSUME NEW w \in Workers, Awake(w) PROVE Awake(w)'
      BY <1>t, <2>1, <3>1 DEF Awake, Gone, Resume
    <3>2. ASSUME NEW w \in Workers, pc'[w] = "pop_relock" PROVE Awake(w)'
      BY <3>2 DEF Awake, Gone
    <3> QED BY <2>1, <3>1, <3>2 DEF StrandInv, Attended
  <2> QED BY <2>2, <2>4, <2>5, <2>6 DEF StrandInv
<1> QED BY <1>1, <1>2, <1>3, <1>4 DEF Push

LEMMA StrandInvNext ==
  ASSUME DestroysLast, Workers # {}, MutexInv, ListInv, StrandInv, [Next]_vars
  PROVE  StrandInv'
<1> DEFINE Frame ==
      /\ UNCHANGED <<first, accepted, served, cur, routine, allocated, sent>>
      /\ terminated => terminated'
      /\ ShuttingDown' => ShuttingDown
      /\ pc'[Main] \in {"create", "malloc"} => pc[Main] \in {"create", "malloc"}
      /\ pc'[Main] \in Pushing => pc[Main] \in Pushing
      /\ pc[Main] = "push_signal" => pc'[Main] = "push_signal"
      /\ \A v \in Workers : /\ Awake(v) => Awake(v)'
                            /\ pc[v] = "cond_wait" => pc'[v] = "cond_wait" \/ Awake(v)'
                            /\ pc'[v] \in Gone => pc[v] \in Gone
<1>f. Frame => StrandInv'
  <2> SUFFICES ASSUME Frame PROVE StrandInv'
    OBVIOUS
  <2>1. \A n \in Node : Served(n) => Served(n)'
    BY DEF Served
  <2> QED BY <2>1, StrandFrame
<1> HIDE DEF Frame
<1> USE DEF GoTo, queueVars, heapVars
<1>t. /\ pc \in [Thread -> Location] /\ Workers \subseteq Thread /\ Main \in Thread
      /\ Main \notin Workers /\ Len(Script) \in Nat /\ sent \in 0..Len(Script)
      /\ served \in Nat
  BY PoolAssumption, LenProperties DEF MutexInv, TypeOK, Thread
<1>1. CASE MainStep /\ ~Push(Main)
  <2>1. CASE MainExec
    <3>1. /\ sent < Len(Script) /\ pc[Main] = "main" /\ pc' = [pc EXCEPT ![Main] = "malloc"]
          /\ UNCHANGED <<first, accepted, served, cur, routine, allocated, terminated>>
      BY <2>1 DEF MainExec
    <3>2. \A n \in Node : routine[n] # "destroy"
      BY <1>t, <3>1 DEF StrandInv, ShutdownIsLast
    <3>3. ShuttingDown' => ShuttingDown
      BY <1>t, <3>1 DEF ShuttingDown
    <3>4. ShutdownIsLast' /\ ShutdownWasTaken'
      BY <3>1, <3>2, <3>3 DEF StrandInv, ShutdownIsLast, ShutdownWasTaken
    <3>5. LeftByShutdown' /\ Attended'
      BY <1>t, <3>1 DEF StrandInv, LeftByShutdown, Attended, Awake, Gone
    <3> QED BY <3>4, <3>5 DEF StrandInv
  <2>2. CASE ~MainExec
    <3>1. Frame
      BY <1>t, <1>1, <2>2
      DEF Frame, MainStep, CreateWorker, InitDone, MainDone, ShuttingDown, Awake, Gone, Pushing
    <3> QED BY <1>f, <3>1
  <2> QED BY <2>1, <2>2
<1>2. ASSUME NEW w \in Workers, PopTake(w) PROVE StrandInv'
  <2>1. /\ pc[w] = "pop_take" /\ pc' = [pc EXCEPT ![w] = "pop_unlock"]
        /\ cur' = [cur EXCEPT ![w] = first] /\ served' = served + 1
        /\ UNCHANGED <<accepted, terminated, routine, allocated, sent>>
    BY <1>2 DEF PopTake
  <2>2. ShutdownIsLast'
    BY <1>t, <2>1 DEF StrandInv, ShutdownIsLast
  <2>3. ShuttingDown' => ShuttingDown
    BY <1>t, <2>1 DEF ShuttingDown
  <2>4. \A n \in Node : Served(n) => Served(n)'
    BY <1>t, <2>1 DEF Served
  <2>5. ShutdownWasTaken'
    BY <2>1, <2>3, <2>4 DEF StrandInv, ShutdownWasTaken
  <2>6. LeftByShutdown'
    BY <1>t, <2>1 DEF StrandInv, LeftByShutdown, Gone
  <2>7. Awake(w)'
    BY <1>t, <2>1 DEF Awake, Gone
  <2> QED BY <2>2, <2>5, <2>6, <2>7 DEF StrandInv, Attended
<1>3. ASSUME NEW w \in Workers, PopWait(w) \/ PopTerminated(w) PROVE StrandInv'
  <2>1. /\ pc[w] = "pop_test" /\ first' = NULL
        /\ UNCHANGED <<accepted, served, cur, routine, allocated, terminated, sent>>
        /\ \/ pc' = [pc EXCEPT ![w] = "cond_wait"]
           \/ terminated /\ pc' = [pc EXCEPT ![w] = "dereg_lock"]
    BY <1>3 DEF PopWait, PopTerminated
  <2>2. ShutdownIsLast'
    BY <1>t, <2>1 DEF StrandInv, ShutdownIsLast
  <2>3. ShuttingDown' => ShuttingDown
    BY <1>t, <2>1 DEF ShuttingDown
  <2>4. ShutdownWasTaken'
    BY <2>1, <2>3 DEF StrandInv, ShutdownWasTaken, Served
  <2>5. LeftByShutdown'
    BY <1>t, <2>1 DEF StrandInv, LeftByShutdown, Gone
  <2> QED BY <2>1, <2>2, <2>4, <2>5 DEF StrandInv, Attended
<1>4. ASSUME NEW w \in Workers, Pop(w), ~PopTake(w), ~PopWait(w), ~PopTerminated(w)
      PROVE  Frame
  BY <1>t, <1>4
  DEF Frame, ShuttingDown, Awake, Gone, Pushing, Pop, PopLock, PopRelock, LockQueue, PopFound,
      PopUnlock, PopCopy
<1>5. ASSUME NEW w \in Workers, ExecTask(w) PROVE StrandInv'
  <2>1. cur[w] \in Node /\ routine[cur[w]] \in Routine
    BY <1>t, <1>5 DEF ExecTask, MutexInv, TypeOK, Locals, Holding
  <2>2. PICK to \in {"pop_lock", "malloc", "shut_lock"} :
          pc' = [pc EXCEPT ![w] = to] /\ (to = "shut_lock" => routine[cur[w]] = "destroy")
    BY <1>5, <2>1 DEF ExecTask, AfterRun, Routine
  <2>3. /\ pc[w] = "run" /\ Served(cur[w])
        /\ UNCHANGED <<first, accepted, served, cur, routine, allocated, terminated, sent>>
    BY <1>t, <1>5 DEF ExecTask, ListInv, Owned, Owning
  <2>4. ShutdownIsLast'
    BY <1>t, <2>2, <2>3 DEF StrandInv, ShutdownIsLast
  <2>5. ShutdownWasTaken'
    <3>1. ShuttingDown' => ShuttingDown \/ routine[cur[w]] = "destroy"
      BY <1>t, <2>2, <2>3 DEF ShuttingDown
    <3> QED BY <2>1, <2>3, <3>1 DEF StrandInv, ShutdownWasTaken, Served
  <2>6. LeftByShutdown' /\ Attended'
    BY <1>t, <2>2, <2>3 DEF StrandInv, LeftByShutdown, Attended, Awake, Gone
  <2> QED BY <2>4, <2>5, <2>6 DEF StrandInv
<1>6. ASSUME NEW w \in Workers, DeregSub(w) PROVE Frame
  BY <1>t, <1>6 DEF Frame, ShuttingDown, Awake, Gone, Pushing, DeregSub, UnlockPool
<1>7. ASSUME NEW w \in Workers,
             RegLock(w) \/ RegAdd(w) \/ DeregLock(w) \/ ShutLock(w) \/ ShutSet(w)
             \/ PoolDestroy(w) \/ SpuriousWakeup(w)
      PROVE  Frame
  BY <1>t, <1>7
  DEF Frame, ShuttingDown, Awake, Gone, Pushing, RegLock, RegAdd, DeregLock, LockPool, UnlockPool,
      ShutLock, LockQueue, ShutSet, PoolDestroy, SpuriousWakeup
<1>8. ASSUME NEW w \in Workers, ShutWake(w) PROVE Frame
  BY <1>t, <1>8 DEF Frame, ShuttingDown, Awake, Gone, Pushing, ShutWake, Waiting
<1>9. CASE UNCHANGED vars
  BY <1>f, <1>9 DEF Frame, ShuttingDown, Awake, vars
<1> QED
  BY <1>f, <1>t, <1>1, <1>2, <1>3, <1>4, <1>5, <1>6, <1>7, <1>8, <1>9, StrandPush
  DEF Next, MainStep, WorkerStep, Quiescent

\* A queued task is never left to sleeping workers, for any number of them, if the
\* pool is destroyed by the last task that Main submits.
THEOREM NoTaskIsStranded ==
  ASSUME DestroysLast, Workers # {}
  PROVE  Spec => []NoTaskStranded
<1>1. MutexInv /\ ListInv /\ StrandInv /\ [Next]_vars => StrandInv'
  BY StrandInvNext
<1>2. MutexInv /\ StrandInv => NoTaskStranded
  BY PoolAssumption
  DEF StrandInv, Attended, Awake, Gone, NoTaskStranded, MutexInv, QueueMutex, QueueCritical, Thread
<1> QED
  BY ListInvAlways, StrandInvInit, <1>1, <1>2, PTL DEF Spec

-----------------------------------------------------------------------------
(***************************************************************************)
(* One leader.  If Script has one relay at most, the right to accept is a  *)
(* token that is in one place: still with Main, in the queue, or with one  *)
(* worker, from the unlinking of its task to the linking of the next.      *)
(***************************************************************************)
OneRelay == \A i, j \in 1..Len(Script) : Script[i] = "relay" /\ Script[j] = "relay" => i = j

Leading == {"malloc"} \cup Pushing

Leads(w) == pc[w] \in Leading \/ (pc[w] \in Owning /\ routine[cur[w]] = "relay")

Queued(i) == i \in served + 1 .. Len(accepted) /\ routine[accepted[i]] = "relay"

MainRelay == \/ \E i \in sent + 1 .. Len(Script) : Script[i] = "relay"
             \/ pc[Main] \in Leading /\ Script[sent] = "relay"

\* What is pushed is what Pushed says.
Pushes ==
  /\ \A w \in Workers : pc[w] \in Pushing => routine[cur[w]] = "relay"
  /\ pc[Main] \in Pushing => sent \in 1..Len(Script) /\ routine[cur[Main]] = Script[sent]

OneToken ==
  /\ \A v, w \in Workers : Leads(v) /\ Leads(w) => v = w
  /\ \A i, j \in Nat : Queued(i) /\ Queued(j) => i = j
  /\ \A w \in Workers, i \in Nat : ~(Leads(w) /\ Queued(i))
  /\ MainRelay => (\A w \in Workers : ~Leads(w)) /\ (\A i \in Nat : ~Queued(i))

LeaderInv == Pushes /\ OneToken

LEMMA LeaderInvInit == Init => LeaderInv
BY PoolAssumption
DEF Init, LeaderInv, Pushes, OneToken, Leads, Queued, MainRelay, Leading, Pushing, Owning, Reading,
    Thread

\* The token stays where it is, or is lost.
LEMMA LeaderFrame ==
  ASSUME LeaderInv, Pushes', \A w \in Workers : Leads(w)' => Leads(w),
         \A i \in Nat : Queued(i)' => Queued(i), MainRelay' => MainRelay
  PROVE  LeaderInv'
BY DEF LeaderInv, OneToken

\* Steps that leave the list, the heap and the script alone, and bring no thread to a
\* place where it holds the token.
LEMMA LeaderStay ==
  ASSUME LeaderInv, UNCHANGED <<accepted, served, cur, routine, sent>>,
         \A th \in Thread : /\ pc'[th] \in Pushing => pc[th] \in Pushing
                            /\ pc'[th] \in Owning => pc[th] \in Owning
                            /\ pc'[th] \in Leading => pc[th] \in Leading
  PROVE  LeaderInv'
<1>1. Pushes'
  BY DEF LeaderInv, Pushes, Thread
<1>2. \A w \in Workers : Leads(w)' => Leads(w)
  BY DEF Leads, Thread
<1>3. (\A i \in Nat : Queued(i)' => Queued(i)) /\ (MainRelay' => MainRelay)
  BY DEF Queued, MainRelay, Thread
<1> QED BY <1>1, <1>2, <1>3, LeaderFrame

LEMMA LeaderMalloc ==
  ASSUME MutexInv, ListInv, LeaderInv, NEW th \in Thread, MallocNode(th)
  PROVE  LeaderInv'
<1>t. /\ pc \in [Thread -> Location] /\ Workers \subseteq Thread /\ Main \in Thread
      /\ Main \notin Workers /\ cur \in [Thread -> Node \cup {NULL}]
      /\ routine \in [Node -> Routine] /\ (th = Main \/ th \in Workers)
      /\ served \in Nat /\ Len(accepted) \in Nat /\ served <= Len(accepted)
  BY PoolAssumption, LenProperties DEF MutexInv, TypeOK, Thread, ListInv, Order
<1>1. PICK n \in Node \ allocated :
        /\ routine' = [routine EXCEPT ![n] = Pushed(th)]
        /\ cur' = [cur EXCEPT ![th] = n]
  BY DEF MallocNode
<1>2. /\ pc[th] = "malloc" /\ pc' = [pc EXCEPT ![th] = "push_lock"]
      /\ UNCHANGED <<accepted, served, sent>>
  BY DEF MallocNode, GoTo
<1>3. \A m : m # n => routine'[m] = routine[m]
  BY <1>t, <1>1
<1>4. \A i \in 1..Len(accepted) : accepted[i] # n
  BY DEF ListInv, Order
<1>5. \A v \in Thread : pc[v] \in Owning \cup Pushing => cur[v] # n
  <2>1. \A v \in Thread : pc[v] \in Owning => cur[v] # n
    BY <1>t, <1>4 DEF ListInv, Owned, Served
  <2> QED BY <2>1 DEF ListInv, Fresh
<1>6. \A v \in Thread : v # th => pc'[v] = pc[v] /\ cur'[v] = cur[v]
  BY <1>t, <1>1, <1>2
<1>7. pc'[th] = "push_lock" /\ cur'[th] = n /\ routine'[n] = Pushed(th)
  <2>1. pc'[th] = "push_lock" /\ cur'[th] = n
    BY <1>t, <1>1, <1>2
  <2>2. routine'[n] = Pushed(th)
    BY <1>t, <1>1
  <2> QED BY <2>1, <2>2
<1>8. Pushes'
  <2>1. ASSUME NEW w \in Workers, pc'[w] \in Pushing PROVE routine'[cur'[w]] = "relay"
    BY <1>t, <1>3, <1>5, <1>6, <1>7, <2>1 DEF LeaderInv, Pushes, Pushed
  <2>2. ASSUME pc'[Main] \in Pushing
        PROVE  sent' \in 1..Len(Script) /\ routine'[cur'[Main]] = Script[sent']
    <3>1. CASE th = Main
      BY <1>2, <1>7, <3>1 DEF MutexInv, Locals, Pushed
    <3>2. CASE th # Main
      BY <1>t, <1>2, <1>3, <1>5, <1>6, <2>2, <3>2 DEF LeaderInv, Pushes
    <3> QED BY <3>1, <3>2
  <2> QED BY <2>1, <2>2 DEF Pushes
<1>9. \A w \in Workers : Leads(w)' => Leads(w)
  <2> SUFFICES ASSUME NEW w \in Workers, Leads(w)' PROVE Leads(w)
    OBVIOUS
  <2>1. CASE w = th
    BY <1>2, <2>1 DEF Leads, Leading
  <2>2. CASE w # th
    <3>1. pc'[w] = pc[w] /\ cur'[w] = cur[w]
      BY <1>t, <1>6, <2>2
    <3> QED BY <1>t, <1>3, <1>5, <3>1 DEF Leads
  <2> QED BY <2>1, <2>2
<1>10. \A i \in Nat : Queued(i)' => Queued(i)
  BY <1>t, <1>2, <1>3, <1>4 DEF Queued
<1>11. MainRelay' => MainRelay
  BY <1>t, <1>2, <1>6 DEF MainRelay, Leading
<1> QED BY <1>8, <1>9, <1>10, <1>11, LeaderFrame

LEMMA LeaderLink ==
  ASSUME OneRelay, MutexInv, ListInv, LeaderInv, NEW th \in Thread, PushLink(th)
  PROVE  LeaderInv'
<1>t. /\ pc \in [Thread -> Location] /\ Workers \subseteq Thread /\ Main \in Thread
      /\ Main \notin Workers /\ (th = Main \/ th \in Workers)
      /\ served \in Nat /\ Len(accepted) \in Nat /\ served <= Len(accepted)
      /\ accepted \in Seq(Node) /\ sent \in Nat /\ Len(Script) \in Nat
  BY PoolAssumption, LenProperties DEF MutexInv, TypeOK, Thread, ListInv, Order
<1>1. /\ pc[th] = "push_link" /\ pc' = [pc EXCEPT ![th] = "push_signal"]
      /\ accepted' = Append(accepted, cur[th])
      /\ UNCHANGED <<served, cur, routine, sent>>
  BY DEF PushLink, GoTo, heapVars
<1>2. cur[th] \in Node
  BY <1>1 DEF MutexInv, Locals, Holding
<1>3. /\ Len(accepted') = Len(accepted) + 1 /\ accepted'[Len(accepted) + 1] = cur[th]
      /\ \A i \in 1..Len(accepted) : accepted'[i] = accepted[i]
  BY <1>t, <1>1, <1>2, AppendProperties
<1>4. \A i \in Nat : Queued(i)' =>
        Queued(i) \/ (i = Len(accepted) + 1 /\ routine[cur[th]] = "relay")
  BY <1>t, <1>1, <1>3 DEF Queued
<1>5. /\ pc'[th] \notin Leading \cup Pushing \cup Owning
      /\ \A v \in Thread : v # th => pc'[v] = pc[v]
  BY <1>t, <1>1 DEF Leading, Pushing, Owning, Reading
<1>6. \A w \in Workers : Leads(w)' => Leads(w) /\ w # th
  BY <1>t, <1>1, <1>5 DEF Leads
<1>7. Pushes'
  BY <1>t, <1>1, <1>5 DEF LeaderInv, Pushes
<1>8. CASE th = Main /\ Script[sent] # "relay"
  <2>1. routine[cur[th]] # "relay"
    BY <1>1, <1>8 DEF LeaderInv, Pushes, Pushing
  <2>2. MainRelay' => MainRelay
    BY <1>1, <1>5, <1>8 DEF MainRelay
  <2> QED BY <1>4, <1>6, <1>7, <2>1, <2>2, LeaderFrame
<1>9. CASE th = Main /\ Script[sent] = "relay"
  <2>1. MainRelay
    BY <1>1, <1>9 DEF MainRelay, Leading, Pushing
  <2>2. sent \in 1..Len(Script)
    BY <1>1, <1>9 DEF LeaderInv, Pushes, Pushing
  <2>3. ~MainRelay'
    BY <1>t, <1>1, <1>5, <1>9, <2>2 DEF MainRelay, OneRelay
  <2> QED BY <1>4, <1>6, <1>7, <2>1, <2>3 DEF LeaderInv, OneToken
<1>10. CASE th \in Workers
  <2>1. Leads(th)
    BY <1>1 DEF Leads, Leading, Pushing
  <2>2. MainRelay' => MainRelay
    BY <1>t, <1>1, <1>5, <1>10 DEF MainRelay
  <2> QED BY <1>4, <1>6, <1>7, <1>10, <2>1, <2>2 DEF LeaderInv, OneToken
<1> QED BY <1>t, <1>8, <1>9, <1>10

LEMMA LeaderTake ==
  ASSUME MutexInv, ListInv, LeaderInv, NEW w \in Workers, PopTake(w)
  PROVE  LeaderInv'
<1>t. /\ pc \in [Thread -> Location] /\ Workers \subseteq Thread /\ Main \in Thread
      /\ Main \notin Workers /\ cur \in [Thread -> Node \cup {NULL}]
      /\ served \in Nat /\ Len(accepted) \in Nat /\ served <= Len(accepted)
  BY PoolAssumption, LenProperties DEF MutexInv, TypeOK, Thread, ListInv, Order
<1>1. /\ pc[w] = "pop_take" /\ pc' = [pc EXCEPT ![w] = "pop_unlock"]
      /\ cur' = [cur EXCEPT ![w] = first] /\ served' = served + 1
      /\ UNCHANGED <<accepted, routine, sent>>
  BY DEF PopTake, GoTo, heapVars
<1>2. served < Len(accepted) /\ first = accepted[served + 1]
  BY <1>t, <1>1 DEF MutexInv, Locals, ListInv, ListIntact
<1>3. \A v \in Thread : v # w => pc'[v] = pc[v] /\ cur'[v] = cur[v]
  BY <1>t, <1>1
<1>4. pc'[w] = "pop_unlock" /\ cur'[w] = first
  BY <1>t, <1>1
<1>5. \A v \in Workers : Leads(v)' => Leads(v) \/ (v = w /\ Queued(served + 1))
  <2>1. \A v \in Workers : v # w /\ Leads(v)' => Leads(v)
    BY <1>t, <1>1, <1>3 DEF Leads
  <2>2. Leads(w)' => Queued(served + 1)
    BY <1>t, <1>1, <1>2, <1>4 DEF Leads, Leading, Pushing, Queued
  <2> QED BY <2>1, <2>2
<1>6. \A i \in Nat : Queued(i)' => Queued(i) /\ i # served + 1
  BY <1>t, <1>1 DEF Queued
<1>7. Pushes'
  BY <1>t, <1>1, <1>3, <1>4 DEF LeaderInv, Pushes, Pushing
<1>8. MainRelay' => MainRelay
  BY <1>t, <1>1, <1>3 DEF MainRelay
<1> QED BY <1>t, <1>5, <1>6, <1>7, <1>8 DEF LeaderInv, OneToken

LEMMA LeaderInvNext ==
  ASSUME OneRelay, MutexInv, ListInv, LeaderInv, [Next]_vars
  PROVE  LeaderInv'
<1> DEFINE Stay ==
      /\ UNCHANGED <<accepted, served, cur, routine, sent>>
      /\ \A th \in Thread : /\ pc'[th] \in Pushing => pc[th] \in Pushing
                            /\ pc'[th] \in Owning => pc[th] \in Owning
                            /\ pc'[th] \in Leading => pc[th] \in Leading
<1>s. Stay => LeaderInv'
  BY LeaderStay
<1> HIDE DEF Stay
<1> USE DEF GoTo, queueVars, heapVars
<1>t. /\ pc \in [Thread -> Location] /\ Workers \subseteq Thread /\ Main \in Thread
      /\ Main \notin Workers /\ Len(Script) \in Nat /\ sent \in Nat
  BY PoolAssumption, LenProperties DEF MutexInv, TypeOK, Thread
<1>1. ASSUME NEW th \in Thread, Push(th) PROVE LeaderInv'
  <2>1. CASE MallocNode(th)
    BY <2>1, LeaderMalloc
  <2>2. CASE PushLink(th)
    BY <2>2, LeaderLink
  <2>3. CASE MallocFails(th) \/ PushLock(th)
    BY <1>s, <1>t, <2>3
    DEF Stay, MallocFails, PushLock, LockQueue, Resume, Leading, Pushing, Owning, Reading
  <2>4. CASE PushSignal(th)
    BY <1>s, <1>t, <2>4 DEF Stay, PushSignal, Waiting, Resume, Leading, Pushing, Owning, Reading
  <2> QED BY <1>1, <2>1, <2>2, <2>3, <2>4 DEF Push
<1>2. CASE MainExec
  <2>1. /\ sent < Len(Script) /\ pc[Main] = "main" /\ pc' = [pc EXCEPT ![Main] = "malloc"]
        /\ sent' = sent + 1 /\ UNCHANGED <<accepted, served, cur, routine>>
    BY <1>2 DEF MainExec
  <2>2. pc'[Main] = "malloc" /\ \A w \in Workers : pc'[w] = pc[w]
    BY <1>t, <2>1
  <2>3. Pushes'
    BY <1>t, <2>1, <2>2 DEF LeaderInv, Pushes, Pushing
  <2>4. (\A w \in Workers : Leads(w)' => Leads(w)) /\ (\A i \in Nat : Queued(i)' => Queued(i))
    BY <2>1, <2>2 DEF Leads, Queued
  <2>5. MainRelay' => MainRelay
    BY <1>t, <2>1 DEF MainRelay
  <2> QED BY <2>3, <2>4, <2>5, LeaderFrame
<1>3. CASE InitDone \/ MainDone \/ \E w \in Workers : CreateWorker(w)
  BY <1>s, <1>t, <1>3
  DEF Stay, InitDone, MainDone, CreateWorker, Leading, Pushing, Owning, Reading
<1>4. ASSUME NEW w \in Workers, Pop(w) PROVE LeaderInv'
  <2>1. CASE PopTake(w)
    BY <2>1, LeaderTake
  <2>2. CASE ~PopTake(w)
    BY <1>s, <1>t, <1>4, <2>2
    DEF Stay, Pop, PopLock, PopRelock, LockQueue, PopFound, PopTerminated, PopWait, PopUnlock,
        PopCopy, Leading, Pushing, Owning, Reading
  <2> QED BY <2>1, <2>2
<1>5. ASSUME NEW w \in Workers, ExecTask(w) PROVE LeaderInv'
  <2>1. cur[w] \in Node /\ routine[cur[w]] \in Routine
    BY <1>t, <1>5 DEF ExecTask, MutexInv, TypeOK, Locals, Holding
  <2>2. PICK to \in {"pop_lock", "malloc", "shut_lock"} :
          pc' = [pc EXCEPT ![w] = to] /\ (to = "malloc" => routine[cur[w]] = "relay")
    BY <1>5, <2>1 DEF ExecTask, AfterRun, Routine
  <2>3. /\ pc[w] = "run" /\ UNCHANGED <<accepted, served, cur, routine, sent>>
    BY <1>5 DEF ExecTask
  <2>4. pc'[w] = to /\ \A th \in Thread : th # w => pc'[th] = pc[th]
    BY <1>t, <2>2
  <2>5. Pushes'
    BY <1>t, <2>3, <2>4 DEF LeaderInv, Pushes, Pushing
  <2>6. \A v \in Workers : Leads(v)' => Leads(v)
    BY <1>t, <2>2, <2>3, <2>4 DEF Leads, Leading, Pushing, Owning, Reading
  <2>7. (\A i \in Nat : Queued(i)' => Queued(i)) /\ (MainRelay' => MainRelay)
    BY <1>t, <2>3, <2>4 DEF Queued, MainRelay
  <2> QED BY <2>5, <2>6, <2>7, LeaderFrame
<1>6. ASSUME NEW w \in Workers,
             RegLock(w) \/ RegAdd(w) \/ DeregLock(w) \/ DeregSub(w) \/ ShutLock(w)
             \/ ShutSet(w) \/ PoolDestroy(w) \/ SpuriousWakeup(w)
      PROVE  LeaderInv'
  BY <1>s, <1>t, <1>6
  DEF Stay, RegLock, RegAdd, DeregLock, DeregSub, LockPool, UnlockPool, ShutLock, LockQueue,
      ShutSet, PoolDestroy, SpuriousWakeup, Leading, Pushing, Owning, Reading
<1>7. ASSUME NEW w \in Workers, ShutWake(w) PROVE LeaderInv'
  BY <1>s, <1>t, <1>7 DEF Stay, ShutWake, Waiting, Leading, Pushing, Owning, Reading
<1>8. CASE UNCHANGED vars
  BY <1>s, <1>8 DEF Stay, vars
<1> QED
  BY <1>t, <1>1, <1>2, <1>3, <1>4, <1>5, <1>6, <1>7, <1>8
  DEF Next, MainStep, WorkerStep, Quiescent

\* In a pool that is given one relay at most there is never a second leader, for any
\* number of workers and whatever allocations fail.
THEOREM OneThreadLeads ==
  ASSUME OneRelay
  PROVE  Spec => []OneLeader
<1>1. MutexInv /\ ListInv /\ LeaderInv /\ [Next]_vars => LeaderInv'
  BY LeaderInvNext
<1>2. MutexInv /\ LeaderInv => OneLeader
  <2> SUFFICES ASSUME MutexInv, LeaderInv PROVE OneLeader
    OBVIOUS
  <2> DEFINE L == {w \in Workers : pc[w] \in {"malloc", "push_lock", "push_link"}}
             C == {w \in Workers : /\ pc[w] \in {"pop_unlock", "pop_copy", "run"}
                                   /\ routine[cur[w]] = "relay"}
             Q == {i \in served + 1 .. Len(accepted) : routine[accepted[i]] = "relay"}
  <2>1. \A w \in Workers : Leads(w) <=> w \in L \/ w \in C
    BY DEF Leads, Leading, Pushing, Owning, Reading
  <2>2. served \in Nat /\ Len(accepted) \in Nat
    BY LenProperties DEF MutexInv, TypeOK
  <2>3. \A i : i \in Q => i \in Nat /\ Queued(i)
    BY <2>2 DEF Queued
  <2>4. \A w : ~(w \in L /\ w \in C)
    OBVIOUS
  <2>5. L \subseteq Workers /\ C \subseteq Workers
    OBVIOUS
  <2> HIDE DEF L, C, Q
  <2>6. CASE L = {} /\ C = {} /\ Q = {}
    <3>1. Cardinality(L) = 0 /\ Cardinality(C) = 0 /\ Cardinality(Q) = 0
      BY <2>6, FS_EmptySet
    <3> QED BY <3>1 DEF OneLeader, L, C, Q
  <2>7. ASSUME NEW w \in L PROVE OneLeader
    <3>1. L = {w} /\ C = {} /\ Q = {}
      BY <2>1, <2>3, <2>4, <2>5, <2>7 DEF LeaderInv, OneToken
    <3>2. Cardinality(L) = 1 /\ Cardinality(C) = 0 /\ Cardinality(Q) = 0
      BY <3>1, FS_EmptySet, FS_Singleton
    <3> QED BY <3>2 DEF OneLeader, L, C, Q
  <2>8. ASSUME NEW w \in C PROVE OneLeader
    <3>1. C = {w} /\ L = {} /\ Q = {}
      BY <2>1, <2>3, <2>4, <2>5, <2>8 DEF LeaderInv, OneToken
    <3>2. Cardinality(C) = 1 /\ Cardinality(L) = 0 /\ Cardinality(Q) = 0
      BY <3>1, FS_EmptySet, FS_Singleton
    <3> QED BY <3>2 DEF OneLeader, L, C, Q
  <2>9. ASSUME NEW i \in Q PROVE OneLeader
    <3>1. Q = {i} /\ L = {} /\ C = {}
      BY <2>1, <2>3, <2>5, <2>9 DEF LeaderInv, OneToken
    <3>2. Cardinality(Q) = 1 /\ Cardinality(L) = 0 /\ Cardinality(C) = 0
      BY <3>1, FS_EmptySet, FS_Singleton
    <3> QED BY <3>2 DEF OneLeader, L, C, Q
  <2> QED BY <2>6, <2>7, <2>8, <2>9
<1> QED
  BY ListInvAlways, LeaderInvInit, <1>1, <1>2, PTL DEF Spec

=============================================================================
