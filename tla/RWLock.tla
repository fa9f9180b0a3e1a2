------------------------------- MODULE RWLock -------------------------------
(***************************************************************************)
(* The readers/writer lock of IN_TD_POSIX/ex3.c, a mutex with two          *)
(* condition variables, and the reader and writer jobs that use it.        *)
(*                                                                         *)
(* Every call of the lock is: take the mutex; test, wait or update while   *)
(* holding it; release it.  A wait releases the mutex, and takes it back   *)
(* before the loop tests its condition again.                              *)
(***************************************************************************)
EXTENDS Integers, FiniteSets, Functions

CONSTANTS
  Readers, Writers,
  NULL,          \* no owner
  MaxValue,      \* MAXVALUE: the jobs stop when shared_data has reached it
  Increment,     \* args->increment of each writer
  MaxSpurious    \* bound on the spurious wakeups of pthread_cond_wait

Thread == Readers \cup Writers

ASSUME RWAssumption ==
  /\ Readers \cap Writers = {}
  /\ IsFiniteSet(Readers) /\ IsFiniteSet(Writers)
  /\ NULL \notin Thread
  /\ MaxValue \in Nat \ {0}
  /\ Increment \in [Writers -> Nat \ {0}]
  /\ MaxSpurious \in Nat

VARIABLES
  pc,              \* where each thread is
  owner,           \* the thread that holds rw_lock->lock
  nReaders,        \* rw_lock->n_readers
  writersWaiting,  \* rw_lock->writers_waiting
  sharedData,      \* shared_data
  copy,            \* local_copy of a reader, the value read by a writer
  added,           \* history: the initial value plus every increment made
  spurious         \* spurious wakeups so far

vars == <<pc, owner, nReaders, writersWaiting, sharedData, copy, added, spurious>>
data == <<sharedData, copy, added>>

InitialData == IF Writers = {} THEN MaxValue ELSE 1

Init ==
  /\ pc = [th \in Thread |-> IF th \in Readers THEN "r_lock" ELSE "w_check"]
  /\ owner = NULL
  /\ nReaders = 0
  /\ writersWaiting = 0
  /\ sharedData = InitialData
  /\ copy = [th \in Thread |-> 0]
  /\ added = InitialData
  /\ spurious = 0

GoTo(th, from, to) == pc[th] = from /\ pc' = [pc EXCEPT ![th] = to]

\* Fault: no exclusion on the mutex.
Acquire_Unguarded(th, from, to) ==
  /\ GoTo(th, from, to)
  /\ owner' = th
  /\ UNCHANGED <<nReaders, writersWaiting, data, spurious>>

\* pthread_mutex_lock, and the reacquisition at the end of pthread_cond_wait.
Acquire(th, from, to) ==
  /\ owner = NULL
  /\ GoTo(th, from, to)
  /\ owner' = th
  /\ UNCHANGED <<nReaders, writersWaiting, data, spurious>>

\* The threads that pthread_cond_wait has put to sleep.
Sleeping(S, at) == {th \in S : pc[th] = at}

-----------------------------------------------------------------------------
(* r_lock and r_unlock                                                     *)

RLock(r) == Acquire(r, "r_lock", "r_test")
RRelock(r) == Acquire(r, "r_relock", "r_test")

\* Fault: waiting writers are not counted, so that readers overtake them.
RMustWait_NoPreference == nReaders = -1

\* A writer holds the lock or waits for it.
RMustWait == nReaders = -1 \/ writersWaiting > 0

RWait(r) ==
  /\ RMustWait
  /\ GoTo(r, "r_test", "r_wait")
  /\ owner' = NULL
  /\ UNCHANGED <<nReaders, writersWaiting, data, spurious>>

\* The loop ends, with the mutex held.
RPass(r) ==
  /\ ~RMustWait
  /\ GoTo(r, "r_test", "r_enter")
  /\ UNCHANGED <<owner, nReaders, writersWaiting, data, spurious>>

REnter(r) ==
  /\ GoTo(r, "r_enter", "reading")
  /\ nReaders' = nReaders + 1
  /\ owner' = NULL
  /\ UNCHANGED <<writersWaiting, data, spurious>>

RUnlock(r) == Acquire(r, "r_unlock", "r_leave")

\* Fault: the last reader does not look for waiting writers.
RLeave_NoSignal(r) ==
  /\ GoTo(r, "r_leave", "r_check")
  /\ nReaders' = nReaders - 1
  /\ owner' = NULL
  /\ UNCHANGED <<writersWaiting, data, spurious>>

\* The last reader frees one writer, if there are any.
RLeave(r) ==
  /\ pc[r] = "r_leave"
  /\ IF nReaders = 1 /\ writersWaiting > 0 /\ Sleeping(Writers, "w_wait") # {}
       THEN \E w \in Sleeping(Writers, "w_wait") :
              pc' = [pc EXCEPT ![r] = "r_check", ![w] = "w_relock"]
       ELSE pc' = [pc EXCEPT ![r] = "r_check"]
  /\ nReaders' = nReaders - 1
  /\ owner' = NULL
  /\ UNCHANGED <<writersWaiting, data, spurious>>

-----------------------------------------------------------------------------
(* w_lock and w_unlock                                                     *)

WLock(w) == Acquire(w, "w_lock", "w_register")
WRelock(w) == Acquire(w, "w_relock", "w_test")

WRegister(w) ==
  /\ GoTo(w, "w_register", "w_test")
  /\ writersWaiting' = writersWaiting + 1
  /\ UNCHANGED <<owner, nReaders, data, spurious>>

WWait(w) ==
  /\ nReaders # 0
  /\ GoTo(w, "w_test", "w_wait")
  /\ owner' = NULL
  /\ UNCHANGED <<nReaders, writersWaiting, data, spurious>>

\* Fault: the loop is an if, so that a woken writer goes on without a second test.
WPass_Untested(w) ==
  /\ GoTo(w, "w_test", "w_enter")
  /\ UNCHANGED <<owner, nReaders, writersWaiting, data, spurious>>

WPass(w) ==
  /\ nReaders = 0
  /\ GoTo(w, "w_test", "w_enter")
  /\ UNCHANGED <<owner, nReaders, writersWaiting, data, spurious>>

WEnter(w) ==
  /\ GoTo(w, "w_enter", "w_read")
  /\ nReaders' = -1
  /\ writersWaiting' = writersWaiting - 1
  /\ owner' = NULL
  /\ UNCHANGED <<data, spurious>>

WUnlock(w) == Acquire(w, "w_unlock", "w_leave")

\* Fault: writers_waiting is not looked at, so that only readers are woken.
WLeave_ReadersOnly(w) ==
  /\ pc[w] = "w_leave"
  /\ pc' = [th \in Thread |->
              IF th = w THEN "w_check"
              ELSE IF th \in Sleeping(Readers, "r_wait") THEN "r_relock"
              ELSE pc[th]]
  /\ nReaders' = 0
  /\ owner' = NULL
  /\ UNCHANGED <<writersWaiting, data, spurious>>

\* One writer is freed if there are any, all the readers otherwise.
WLeave(w) ==
  /\ pc[w] = "w_leave"
  /\ IF writersWaiting = 0
       THEN pc' = [th \in Thread |->
                     IF th = w THEN "w_check"
                     ELSE IF th \in Sleeping(Readers, "r_wait") THEN "r_relock"
                     ELSE pc[th]]
       ELSE IF Sleeping(Writers, "w_wait") = {}
              THEN pc' = [pc EXCEPT ![w] = "w_check"]
              ELSE \E v \in Sleeping(Writers, "w_wait") :
                     pc' = [pc EXCEPT ![w] = "w_check", ![v] = "w_relock"]
  /\ nReaders' = 0
  /\ owner' = NULL
  /\ UNCHANGED <<writersWaiting, data, spurious>>

\* POSIX lets pthread_cond_wait return without a signal.
SpuriousWakeup(th) ==
  /\ spurious < MaxSpurious
  /\ GoTo(th, "r_wait", "r_relock") \/ GoTo(th, "w_wait", "w_relock")
  /\ spurious' = spurious + 1
  /\ UNCHANGED <<owner, nReaders, writersWaiting, data>>

-----------------------------------------------------------------------------
(* reader_job and writer_job                                               *)

ReadData(r) ==
  /\ GoTo(r, "reading", "r_unlock")
  /\ copy' = [copy EXCEPT ![r] = sharedData]
  /\ UNCHANGED <<owner, nReaders, writersWaiting, sharedData, added, spurious>>

\* while (local_copy < MAXVALUE)
RCheck(r) ==
  /\ GoTo(r, "r_check", IF copy[r] < MaxValue THEN "r_lock" ELSE "done")
  /\ UNCHANGED <<owner, nReaders, writersWaiting, data, spurious>>

\* Fault: one turn too many.
WCheck_OneTooMany(w) ==
  /\ GoTo(w, "w_check", IF sharedData <= MaxValue THEN "w_lock" ELSE "done")
  /\ UNCHANGED <<owner, nReaders, writersWaiting, data, spurious>>

\* while (shared_data < MAXVALUE), without the lock.
WCheck(w) ==
  /\ GoTo(w, "w_check", IF sharedData < MaxValue THEN "w_lock" ELSE "done")
  /\ UNCHANGED <<owner, nReaders, writersWaiting, data, spurious>>

\* shared_data = shared_data + increment is a read and a write.
WRead(w) ==
  /\ GoTo(w, "w_read", "w_write")
  /\ copy' = [copy EXCEPT ![w] = sharedData]
  /\ UNCHANGED <<owner, nReaders, writersWaiting, sharedData, added, spurious>>

WWrite(w) ==
  /\ GoTo(w, "w_write", "w_unlock")
  /\ sharedData' = copy[w] + Increment[w]
  /\ added' = added + Increment[w]
  /\ UNCHANGED <<owner, nReaders, writersWaiting, copy, spurious>>

-----------------------------------------------------------------------------
ReaderAcquires(r) == RLock(r) \/ RRelock(r) \/ RUnlock(r)
ReaderSteps(r) == RWait(r) \/ RPass(r) \/ REnter(r) \/ RLeave(r) \/ ReadData(r) \/ RCheck(r)
WriterAcquires(w) == WLock(w) \/ WRelock(w) \/ WUnlock(w)
WriterSteps(w) == WRegister(w) \/ WWait(w) \/ WPass(w) \/ WEnter(w) \/ WLeave(w)
                  \/ WCheck(w) \/ WRead(w) \/ WWrite(w)

AllDone == \A th \in Thread : pc[th] = "done"

\* Every job has returned and main has joined them all.
Joined == AllDone /\ UNCHANGED vars

Next == \/ \E r \in Readers : ReaderAcquires(r) \/ ReaderSteps(r)
        \/ \E w \in Writers : WriterAcquires(w) \/ WriterSteps(w)
        \/ \E th \in Thread : SpuriousWakeup(th)
        \/ Joined

\* A thread that can run does; and because the jobs sleep between two calls, a
\* thread that asks for the mutex again and again gets it.
Fairness ==
  /\ \A r \in Readers : WF_vars(ReaderSteps(r)) /\ SF_vars(ReaderAcquires(r))
  /\ \A w \in Writers : WF_vars(WriterSteps(w)) /\ SF_vars(WriterAcquires(w))

Spec == Init /\ [][Next]_vars
FairSpec == Spec /\ Fairness

-----------------------------------------------------------------------------
ReaderLocation == {"r_lock", "r_relock", "r_test", "r_wait", "r_enter", "reading", "r_unlock",
                   "r_leave", "r_check", "done"}
WriterLocation == {"w_check", "w_lock", "w_register", "w_test", "w_wait", "w_relock",
                   "w_enter", "w_read", "w_write", "w_unlock", "w_leave", "done"}

TypeOK ==
  /\ pc \in [Thread -> ReaderLocation \cup WriterLocation]
  /\ \A r \in Readers : pc[r] \in ReaderLocation
  /\ \A w \in Writers : pc[w] \in WriterLocation
  /\ owner \in Thread \cup {NULL}
  /\ nReaders \in Nat \cup {-1}
  /\ writersWaiting \in Nat
  /\ sharedData \in Nat /\ added \in Nat
  /\ copy \in [Thread -> Nat]
  /\ spurious \in 0..MaxSpurious

\* Between its lock call and its unlock call a thread holds the R/W lock.
Reading == {r \in Readers : pc[r] \in {"reading", "r_unlock", "r_leave"}}
Writing == {w \in Writers : pc[w] \in {"w_read", "w_write", "w_unlock", "w_leave"}}

\* Between writers_waiting++ and writers_waiting--.
Wanting == {w \in Writers : pc[w] \in {"w_test", "w_wait", "w_relock", "w_enter"}}

\* A writer holds the lock alone, through every wait, wakeup and handover.
Exclusion == /\ Writing # {} => Reading = {}
             /\ \A v, w \in Writing : v = w

\* The meaning ex3.c:25-29 gives to n_readers, and :23 to writers_waiting.
CountersExact ==
  /\ nReaders = IF Writing # {} THEN -1 ELSE Cardinality(Reading)
  /\ writersWaiting = Cardinality(Wanting)

\* No wakeup is lost.  When the lock is free and writers want it, one of them is on
\* its way; when no writer holds or wants it, no reader sleeps.
NoLostWakeup ==
  owner = NULL =>
    /\ nReaders = 0 /\ Wanting # {} => \E w \in Wanting : pc[w] = "w_relock"
    /\ nReaders # -1 /\ Wanting = {} => Sleeping(Readers, "r_wait") = {}

\* No increment of a writer is lost or made twice.
NoLostUpdate == sharedData = added

\* The writers that have seen shared_data < MAXVALUE and have not added yet.
Committed == {w \in Writers : pc[w] \in {"w_lock", "w_register", "w_test", "w_wait",
                                         "w_relock", "w_enter", "w_read", "w_write"}}
SumOf(S) == FoldFunctionOnSet(+, 0, Increment, S)

\* The writers test shared_data without the lock, so the value they act upon may be
\* stale: each of them may add once beyond MAXVALUE, and not more.
BoundedOvershoot ==
  Writers # {} =>
    sharedData + SumOf(Committed) <= MaxValue - 1 + SumOf(Writers)

\* Every job ends, so that main, which joins them all, returns.
Termination == <>AllDone

RW == INSTANCE RWLockAbstract WITH inside <- Reading \cup Writing, wanting <- Wanting

\* The mutex and the two condition variables implement the abstract lock: readers
\* together or one writer alone, and no reader gets in while a writer wants to.
ImplementsRWLock == RW!Spec

=============================================================================
