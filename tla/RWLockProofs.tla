---------------------------- MODULE RWLockProofs ----------------------------
(***************************************************************************)
(* Theorems about RWLock, for any finite sets of readers and writers, any  *)
(* increments and any number of spurious wakeups.                          *)
(*                                                                         *)
(* Exclusion is not inductive: what keeps two threads apart is a counter.  *)
(* The invariant therefore says what the two counters count, and that the  *)
(* result of a test of the counters stays true until it is acted upon,     *)
(* because the thread that tested them still owns the mutex.               *)
(***************************************************************************)
EXTENDS RWLock, FiniteSetTheorems, WellFoundedInduction, TLAPS

\* The places between pthread_mutex_lock and pthread_mutex_unlock.
Critical == {"r_test", "r_enter", "r_leave", "w_register", "w_test", "w_enter",
             "w_leave"}

MutexHeld == \A th \in Thread : pc[th] \in Critical <=> owner = th

TestStillTrue ==
  /\ \A r \in Readers : pc[r] = "r_enter" => nReaders # -1 /\ writersWaiting = 0
  /\ \A w \in Writers : pc[w] = "w_enter" => nReaders = 0

RWInv == TypeOK /\ MutexHeld /\ TestStillTrue /\ Exclusion /\ CountersExact

LEMMA CountFacts ==
  /\ IsFiniteSet(Reading) /\ Cardinality(Reading) \in Nat
  /\ Cardinality(Reading) = 0 <=> Reading = {}
  /\ IsFiniteSet(Wanting) /\ Cardinality(Wanting) \in Nat
  /\ Cardinality(Wanting) = 0 <=> Wanting = {}
<1>1. Reading \subseteq Readers /\ Wanting \subseteq Writers
  BY DEF Reading, Wanting
<1>2. IsFiniteSet(Reading) /\ IsFiniteSet(Wanting)
  BY <1>1, RWAssumption, FS_Subset
<1> QED BY <1>2, FS_CardinalityType, FS_EmptySet

LEMMA RWInvInit == Init => RWInv
<1> SUFFICES ASSUME Init PROVE RWInv
  OBVIOUS
<1> USE RWAssumption DEF Init, Thread
<1>1. TypeOK
  BY DEF TypeOK, ReaderLocation, WriterLocation, InitialData
<1>2. MutexHeld /\ TestStillTrue
  BY DEF MutexHeld, TestStillTrue, Critical
<1>3. Reading = {} /\ Writing = {} /\ Wanting = {}
  BY DEF Reading, Writing, Wanting
<1> QED BY <1>1, <1>2, <1>3, FS_EmptySet DEF RWInv, Exclusion, CountersExact

\* A step that changes no counter and moves no thread in or out of the three sets.
LEMMA CountFrame ==
  ASSUME Exclusion, CountersExact, Reading' = Reading, Writing' = Writing,
         Wanting' = Wanting, nReaders' = nReaders, writersWaiting' = writersWaiting
  PROVE  Exclusion' /\ CountersExact'
BY DEF Exclusion, CountersExact

LEMMA AcquireInv ==
  ASSUME RWInv, NEW th \in Thread, NEW from, NEW to, Acquire(th, from, to),
         from \notin Critical, to \in Critical,
         to # "r_enter", to # "w_enter",
         th \in Readers => to \in ReaderLocation,
         th \in Writers => to \in WriterLocation,
         from = "r_unlock" <=> to = "r_leave",
         from = "w_unlock" <=> to = "w_leave",
         from = "w_relock" <=> to = "w_test",
         from \notin {"reading", "w_read", "w_write", "w_wait"}
  PROVE  RWInv'
<1> USE RWAssumption DEF RWInv, Acquire, GoTo, data
<1>1. TypeOK'
  BY DEF TypeOK, Thread
<1>2. MutexHeld'
  BY DEF MutexHeld, TypeOK
<1>3. TestStillTrue'
  BY DEF TestStillTrue, TypeOK, Thread
<1>4. Reading' = Reading /\ Writing' = Writing /\ Wanting' = Wanting
  BY DEF Reading, Writing, Wanting, TypeOK, Critical, Thread
<1> QED BY <1>1, <1>2, <1>3, <1>4, CountFrame

\* The acquisitions, by name.
LEMMA AcquiresInv ==
  ASSUME RWInv, NEW th \in Thread,
         \/ th \in Readers /\ ReaderAcquires(th)
         \/ th \in Writers /\ WriterAcquires(th)
  PROVE  RWInv'
<1> USE RWAssumption, AcquireInv DEF Critical, ReaderLocation, WriterLocation
<1>1. CASE th \in Readers /\ ReaderAcquires(th)
  <2>1. th \notin Writers
    BY <1>1
  <2> QED BY <1>1, <2>1 DEF ReaderAcquires, RLock, RRelock, RUnlock
<1>2. CASE th \in Writers /\ WriterAcquires(th)
  <2>1. th \notin Readers
    BY <1>2
  <2> QED BY <1>2, <2>1 DEF WriterAcquires, WLock, WRelock, WUnlock
<1> QED BY <1>1, <1>2

LEMMA REnterInv ==
  ASSUME RWInv, NEW r \in Readers, REnter(r) PROVE RWInv'
<1> USE RWAssumption DEF RWInv, REnter, GoTo, data
<1>1. TypeOK'
  BY DEF TypeOK, Thread, ReaderLocation
<1>2. MutexHeld'
  BY DEF MutexHeld, TypeOK, Critical, Thread
<1>3. owner = r
  BY DEF MutexHeld, Critical, Thread
<1>4. TestStillTrue'
  BY <1>3 DEF TestStillTrue, MutexHeld, Critical, TypeOK, Thread
<1>5. nReaders # -1 /\ Writing = {} /\ nReaders = Cardinality(Reading)
  BY CountFacts DEF TestStillTrue, CountersExact
<1>6. Reading' = Reading \cup {r} /\ r \notin Reading
  BY DEF Reading, TypeOK, Thread
<1>7. Writing' = {} /\ Wanting' = Wanting
  BY <1>5 DEF Writing, Wanting, TypeOK, Thread
<1>8. Cardinality(Reading') = Cardinality(Reading) + 1
  BY <1>6, CountFacts, FS_AddElement
<1> QED BY <1>1, <1>2, <1>4, <1>5, <1>7, <1>8 DEF Exclusion, CountersExact

LEMMA RLeaveInv ==
  ASSUME RWInv, NEW r \in Readers, RLeave(r) PROVE RWInv'
<1> USE RWAssumption DEF RWInv, data
<1>1. PICK W \in SUBSET Sleeping(Writers, "w_wait") :
        pc' = [th \in Thread |-> IF th = r THEN "r_check"
                                 ELSE IF th \in W THEN "w_relock" ELSE pc[th]]
  <2>1. CASE pc' = [pc EXCEPT ![r] = "r_check"]
    BY <2>1 DEF TypeOK, Thread
  <2>2. CASE \E w \in Sleeping(Writers, "w_wait") :
               pc' = [pc EXCEPT ![r] = "r_check", ![w] = "w_relock"]
    <3>1. PICK w \in Sleeping(Writers, "w_wait") :
            pc' = [pc EXCEPT ![r] = "r_check", ![w] = "w_relock"]
      BY <2>2
    <3>2. w # r /\ {w} \in SUBSET Sleeping(Writers, "w_wait")
      BY DEF Sleeping
    <3>3. pc' = [th \in Thread |-> IF th = r THEN "r_check"
                                   ELSE IF th \in {w} THEN "w_relock" ELSE pc[th]]
      BY <3>1, <3>2 DEF TypeOK, Thread
    <3> QED BY <3>2, <3>3
  <2> QED BY <2>1, <2>2 DEF RLeave
<1>2. /\ pc[r] = "r_leave" /\ nReaders' = nReaders - 1 /\ owner' = NULL
      /\ UNCHANGED <<writersWaiting, sharedData, copy, added, spurious>>
  BY DEF RLeave
<1>3. \A w \in W : w \in Writers /\ pc[w] = "w_wait" /\ w # r
  BY <1>2 DEF Sleeping
<1>4. r \in Reading /\ Writing = {} /\ nReaders = Cardinality(Reading)
  BY <1>2 DEF Reading, Exclusion, CountersExact
<1>5. nReaders \in Nat \ {0}
  BY <1>4, CountFacts
<1>6. TypeOK'
  BY <1>1, <1>2, <1>3, <1>5 DEF TypeOK, Thread, ReaderLocation, WriterLocation
<1>7. owner = r
  BY <1>2 DEF MutexHeld, Critical, Thread
<1>8. MutexHeld'
  BY <1>1, <1>2, <1>3, <1>7 DEF MutexHeld, Critical, Thread
<1>9. TestStillTrue'
  BY <1>1, <1>2, <1>3, <1>5, <1>7 DEF TestStillTrue, MutexHeld, Critical, Thread, TypeOK
<1>10. Reading' = Reading \ {r}
  BY <1>1, <1>2, <1>3 DEF Reading, Thread
<1>11. Writing' = {} /\ Wanting' = Wanting
  BY <1>1, <1>2, <1>3, <1>4 DEF Writing, Wanting, Thread
<1>12. Cardinality(Reading') = Cardinality(Reading) - 1
  BY <1>4, <1>10, CountFacts, FS_RemoveElement
<1> QED
  BY <1>2, <1>4, <1>6, <1>8, <1>9, <1>11, <1>12 DEF Exclusion, CountersExact

LEMMA WRegisterInv ==
  ASSUME RWInv, NEW w \in Writers, WRegister(w) PROVE RWInv'
<1> USE RWAssumption DEF RWInv, WRegister, GoTo, data
<1>1. TypeOK'
  BY DEF TypeOK, Thread, WriterLocation
<1>2. MutexHeld'
  BY DEF MutexHeld, TypeOK, Critical, Thread
<1>7. owner = w
  BY DEF MutexHeld, Critical, Thread
<1>3. TestStillTrue'
  BY <1>7 DEF TestStillTrue, MutexHeld, Critical, TypeOK, Thread
<1>4. Wanting' = Wanting \cup {w} /\ w \notin Wanting
  BY DEF Wanting, TypeOK, Thread
<1>5. Reading' = Reading /\ Writing' = Writing
  BY DEF Reading, Writing, TypeOK, Thread
<1>6. Cardinality(Wanting') = Cardinality(Wanting) + 1
  BY <1>4, CountFacts, FS_AddElement
<1> QED BY <1>1, <1>2, <1>3, <1>5, <1>6 DEF Exclusion, CountersExact

LEMMA WEnterInv ==
  ASSUME RWInv, NEW w \in Writers, WEnter(w) PROVE RWInv'
<1> USE RWAssumption DEF RWInv, WEnter, GoTo, data
<1>1. w \in Wanting /\ writersWaiting = Cardinality(Wanting)
  BY DEF Wanting, CountersExact
<1>2. writersWaiting \in Nat \ {0}
  BY <1>1, CountFacts
<1>3. TypeOK'
  BY <1>2 DEF TypeOK, Thread, WriterLocation
<1>4. MutexHeld'
  BY DEF MutexHeld, TypeOK, Critical, Thread
<1>5. owner = w
  BY DEF MutexHeld, Critical, Thread
<1>6. TestStillTrue'
  BY <1>5 DEF TestStillTrue, MutexHeld, Critical, TypeOK, Thread
<1>7. Writing = {} /\ Reading = {}
  BY CountFacts DEF TestStillTrue, CountersExact
<1>8. Writing' = {w} /\ Reading' = {}
  BY <1>7 DEF Writing, Reading, TypeOK, Thread
<1>9. Wanting' = Wanting \ {w}
  BY DEF Wanting, TypeOK, Thread
<1>10. Cardinality(Wanting') = Cardinality(Wanting) - 1
  BY <1>1, <1>9, CountFacts, FS_RemoveElement
<1> QED BY <1>1, <1>3, <1>4, <1>6, <1>8, <1>10 DEF Exclusion, CountersExact

LEMMA WLeaveInv ==
  ASSUME RWInv, NEW w \in Writers, WLeave(w) PROVE RWInv'
<1> USE RWAssumption DEF RWInv, data
<1>1. PICK R \in SUBSET Sleeping(Readers, "r_wait"), W \in SUBSET Sleeping(Writers, "w_wait") :
        pc' = [th \in Thread |-> IF th = w THEN "w_check"
                                 ELSE IF th \in R THEN "r_relock"
                                 ELSE IF th \in W THEN "w_relock" ELSE pc[th]]
  <2>1. CASE writersWaiting = 0
    <3>1. pc' = [th \in Thread |->
                   IF th = w THEN "w_check"
                   ELSE IF th \in Sleeping(Readers, "r_wait") THEN "r_relock"
                   ELSE IF th \in {} THEN "w_relock" ELSE pc[th]]
      BY <2>1 DEF WLeave
    <3> QED BY <3>1
  <2>2. CASE pc' = [pc EXCEPT ![w] = "w_check"]
    <3>1. pc' = [th \in Thread |-> IF th = w THEN "w_check"
                                   ELSE IF th \in {} THEN "r_relock"
                                   ELSE IF th \in {} THEN "w_relock" ELSE pc[th]]
      BY <2>2 DEF TypeOK, Thread
    <3> QED BY <3>1
  <2>3. CASE \E v \in Sleeping(Writers, "w_wait") :
               pc' = [pc EXCEPT ![w] = "w_check", ![v] = "w_relock"] /\ pc[w] = "w_leave"
    <3>1. PICK v \in Sleeping(Writers, "w_wait") :
            pc' = [pc EXCEPT ![w] = "w_check", ![v] = "w_relock"] /\ pc[w] = "w_leave"
      BY <2>3
    <3>2. v # w /\ {v} \in SUBSET Sleeping(Writers, "w_wait")
      BY <3>1 DEF Sleeping
    <3>3. pc' = [th \in Thread |-> IF th = w THEN "w_check"
                                   ELSE IF th \in {} THEN "r_relock"
                                   ELSE IF th \in {v} THEN "w_relock" ELSE pc[th]]
      BY <3>1, <3>2 DEF TypeOK, Thread
    <3> QED BY <3>2, <3>3
  <2> QED BY <2>1, <2>2, <2>3 DEF WLeave
<1>2. /\ pc[w] = "w_leave" /\ nReaders' = 0 /\ owner' = NULL
      /\ UNCHANGED <<writersWaiting, sharedData, copy, added, spurious>>
  BY DEF WLeave
<1>3. /\ \A v \in W : v \in Writers /\ pc[v] = "w_wait" /\ v # w
      /\ \A r \in R : r \in Readers /\ pc[r] = "r_wait" /\ r # w
  BY <1>2 DEF Sleeping
<1>4. TypeOK'
  BY <1>1, <1>2, <1>3 DEF TypeOK, Thread, ReaderLocation, WriterLocation
<1>5. owner = w
  BY <1>2 DEF MutexHeld, Critical, Thread
<1>6. MutexHeld'
  BY <1>1, <1>2, <1>3, <1>5 DEF MutexHeld, Critical, Thread
<1>7. TestStillTrue'
  BY <1>1, <1>2, <1>3, <1>5 DEF TestStillTrue, MutexHeld, Critical, Thread
<1>8. w \in Writing /\ Writing = {w} /\ Reading = {}
  BY <1>2 DEF Writing, Exclusion
<1>9. Writing' = {}
  BY <1>1, <1>3, <1>8 DEF Writing, Thread
<1>10. Reading' = {} /\ Wanting' = Wanting
  BY <1>1, <1>2, <1>3, <1>8 DEF Reading, Wanting, Thread
<1> QED
  BY <1>2, <1>4, <1>6, <1>7, <1>9, <1>10, FS_EmptySet DEF Exclusion, CountersExact

\* The steps that leave the counters alone and release the mutex or do not touch it.
LEMMA QuietInv ==
  ASSUME RWInv, NEW th \in Thread,
         \/ th \in Readers /\ (RWait(th) \/ RPass(th) \/ ReadData(th) \/ RCheck(th))
         \/ th \in Writers /\ (WWait(th) \/ WPass(th) \/ WCheck(th) \/ WRead(th)
                               \/ WWrite(th))
         \/ SpuriousWakeup(th)
  PROVE  RWInv'
<1> USE RWAssumption DEF RWInv, RWait, RPass, ReadData, RCheck, WWait, WPass, WCheck,
      WRead, WWrite, SpuriousWakeup, GoTo, data, Thread
<1>1. TypeOK'
  BY DEF TypeOK, ReaderLocation, WriterLocation
<1>2. MutexHeld'
  BY DEF MutexHeld, TypeOK, Critical
<1>3. TestStillTrue'
  BY DEF TestStillTrue, TypeOK, RMustWait
<1>4. Reading' = Reading /\ Writing' = Writing /\ Wanting' = Wanting
  BY DEF Reading, Writing, Wanting, TypeOK
<1>5. nReaders' = nReaders /\ writersWaiting' = writersWaiting
  OBVIOUS
<1> QED BY <1>1, <1>2, <1>3, <1>4, <1>5, CountFrame

LEMMA RWInvNext == RWInv /\ [Next]_vars => RWInv'
<1> SUFFICES ASSUME RWInv, [Next]_vars PROVE RWInv'
  OBVIOUS
<1>1. ASSUME NEW r \in Readers, ReaderAcquires(r) \/ ReaderSteps(r) PROVE RWInv'
  BY <1>1, AcquiresInv, REnterInv, RLeaveInv, QuietInv DEF ReaderSteps, Thread
<1>2. ASSUME NEW w \in Writers, WriterAcquires(w) \/ WriterSteps(w) PROVE RWInv'
  BY <1>2, AcquiresInv, WRegisterInv, WEnterInv, WLeaveInv, QuietInv
  DEF WriterSteps, Thread
<1>3. ASSUME NEW th \in Thread, SpuriousWakeup(th) PROVE RWInv'
  BY <1>3, QuietInv
<1>4. CASE UNCHANGED vars
  BY <1>4 DEF vars, RWInv, TypeOK, MutexHeld, TestStillTrue, Exclusion, CountersExact,
     Reading, Writing, Wanting
<1> QED BY <1>1, <1>2, <1>3, <1>4 DEF Next, Joined

\* A writer is alone with the data, however readers and writers interleave.
THEOREM LockExcludes == Spec => []Exclusion
<1>1. RWInv => Exclusion
  BY DEF RWInv
<1> QED BY RWInvInit, RWInvNext, <1>1, PTL DEF Spec

\* n_readers and writers_waiting always mean what ex3.c:23-29 says.
THEOREM CountersMean == Spec => []CountersExact
<1>1. RWInv => CountersExact
  BY DEF RWInv
<1> QED BY RWInvInit, RWInvNext, <1>1, PTL DEF Spec

\* Every variable of the lock and of its jobs keeps its type.
THEOREM RWTypeCorrect == Spec => []TypeOK
<1>1. RWInv => TypeOK
  BY DEF RWInv
<1> QED BY RWInvInit, RWInvNext, <1>1, PTL DEF Spec

(***************************************************************************)
(* The data the lock protects.                                             *)
(***************************************************************************)
DataInv == /\ NoLostUpdate
           /\ \A w \in Writers : pc[w] = "w_write" => copy[w] = sharedData

LEMMA DataInvNext == RWInv /\ DataInv /\ [Next]_vars => DataInv'
<1> SUFFICES ASSUME RWInv, DataInv, [Next]_vars PROVE DataInv'
  OBVIOUS
<1> USE RWAssumption DEF RWInv, TypeOK, DataInv, NoLostUpdate, GoTo, data, Thread
<1> DEFINE Frame == /\ UNCHANGED data
                    /\ \A w \in Writers : pc'[w] = "w_write" => pc[w] = "w_write"
<1>f. Frame => DataInv'
  OBVIOUS
<1>1. ASSUME NEW r \in Readers, ReaderAcquires(r) PROVE DataInv'
  <2>1. Frame
    BY <1>1 DEF ReaderAcquires, RLock, RRelock, RUnlock, Acquire
  <2> QED BY <2>1, <1>f
<1>2. ASSUME NEW r \in Readers, RWait(r) \/ RPass(r) \/ REnter(r) \/ RCheck(r)
      PROVE  DataInv'
  <2>1. Frame
    BY <1>2 DEF RWait, RPass, REnter, RCheck
  <2> QED BY <2>1, <1>f
<1>3. ASSUME NEW r \in Readers, RLeave(r) PROVE DataInv'
  <2>1. Frame
    BY <1>3 DEF RLeave
  <2> QED BY <2>1, <1>f
<1>4. ASSUME NEW r \in Readers, ReadData(r) PROVE DataInv'
  BY <1>4 DEF ReadData
<1>5. ASSUME NEW w \in Writers, WriterAcquires(w) PROVE DataInv'
  <2>1. Frame
    BY <1>5 DEF WriterAcquires, WLock, WRelock, WUnlock, Acquire
  <2> QED BY <2>1, <1>f
<1>6. ASSUME NEW w \in Writers, WRegister(w) \/ WWait(w) \/ WPass(w) \/ WEnter(w) \/ WCheck(w)
      PROVE  DataInv'
  <2>1. Frame
    BY <1>6 DEF WRegister, WWait, WPass, WEnter, WCheck
  <2> QED BY <2>1, <1>f
<1>7. ASSUME NEW w \in Writers, WLeave(w) PROVE DataInv'
  <2>1. Frame
    BY <1>7 DEF WLeave
  <2> QED BY <2>1, <1>f
<1>8. ASSUME NEW w \in Writers, WRead(w) PROVE DataInv'
  BY <1>8 DEF WRead
<1>9. ASSUME NEW w \in Writers, WWrite(w) PROVE DataInv'
  <2>1. \A v \in Writers : v # w => pc[v] # "w_write"
    BY <1>9 DEF WWrite, Exclusion, Writing
  <2>2. sharedData' = added'
    BY <1>9 DEF WWrite
  <2>3. \A v \in Writers : pc'[v] # "w_write"
    BY <1>9, <2>1 DEF WWrite
  <2> QED BY <2>2, <2>3
<1>10. ASSUME NEW th \in Thread, SpuriousWakeup(th) PROVE DataInv'
  <2>1. Frame
    BY <1>10 DEF SpuriousWakeup
  <2> QED BY <2>1, <1>f
<1>11. CASE UNCHANGED vars
  BY <1>11 DEF vars
<1> QED
  BY <1>1, <1>2, <1>3, <1>4, <1>5, <1>6, <1>7, <1>8, <1>9, <1>10, <1>11
  DEF Next, Joined, ReaderSteps, WriterSteps

\* shared_data is the sum of all the increments made, none lost and none made twice.
THEOREM NoUpdateIsLost == Spec => []NoLostUpdate
<1>1. Init => RWInv /\ DataInv
  BY RWInvInit, RWAssumption DEF Init, DataInv, NoLostUpdate, Thread
<1>2. RWInv /\ DataInv /\ [Next]_vars => (RWInv /\ DataInv)'
  BY RWInvNext, DataInvNext
<1>3. DataInv => NoLostUpdate
  BY DEF DataInv
<1> QED BY <1>1, <1>2, <1>3, PTL DEF Spec

(***************************************************************************)
(* The refinement: every step is a step of the abstract lock or leaves its *)
(* two sets alone.                                                         *)
(***************************************************************************)
Inside == Reading \cup Writing

LEMMA RefinesInit == Init => RW!Init
BY RWAssumption DEF Init, RW!Init, Reading, Writing, Wanting, Thread

LEMMA RefinesNext == RWInv /\ [Next]_vars => [RW!Next]_<<Inside, Wanting>>
<1> SUFFICES ASSUME RWInv, [Next]_vars PROVE [RW!Next]_<<Inside, Wanting>>
  OBVIOUS
<1> USE RWAssumption DEF RWInv, TypeOK, GoTo, data, Thread
<1> DEFINE Same == Reading' = Reading /\ Writing' = Writing /\ Wanting' = Wanting
<1>f. Same => UNCHANGED <<Inside, Wanting>>
  BY DEF Inside
<1>1. ASSUME NEW r \in Readers, ReaderAcquires(r) \/ RWait(r) \/ RPass(r) \/ ReadData(r)
                               \/ RCheck(r)
      PROVE  Same
  BY <1>1 DEF ReaderAcquires, RLock, RRelock, RUnlock, Acquire, RWait, RPass, ReadData,
     RCheck, Reading, Writing, Wanting
<1>2. ASSUME NEW r \in Readers, REnter(r) PROVE RW!ReaderEnters(r)
  <2>1. nReaders # -1 /\ writersWaiting = 0
    BY <1>2 DEF REnter, TestStillTrue
  <2>2. Writing = {} /\ Wanting = {}
    BY <2>1, CountFacts DEF CountersExact
  <2>3. r \notin Reading /\ Reading' = Reading \cup {r} /\ Writing' = {} /\ Wanting' = {}
    BY <1>2, <2>2 DEF REnter, Reading, Writing, Wanting
  <2>4. Reading \subseteq Readers
    BY DEF Reading
  <2> QED BY <2>2, <2>3, <2>4 DEF RW!ReaderEnters
<1>3. ASSUME NEW r \in Readers, RLeave(r) PROVE RW!Leaves(r)
  <2>1. r \in Reading /\ Writing = {}
    BY <1>3 DEF RLeave, Reading, Exclusion
  <2>2. Reading' = Reading \ {r} /\ Writing' = {} /\ Wanting' = Wanting
    BY <1>3, <2>1 DEF RLeave, Sleeping, Reading, Writing, Wanting
  <2> QED BY <2>1, <2>2 DEF RW!Leaves
<1>4. ASSUME NEW w \in Writers, WriterAcquires(w) \/ WWait(w) \/ WPass(w) \/ WCheck(w)
                               \/ WRead(w) \/ WWrite(w)
      PROVE  Same
  BY <1>4 DEF WriterAcquires, WLock, WRelock, WUnlock, Acquire, WWait, WPass, WCheck,
     WRead, WWrite, Reading, Writing, Wanting
<1>5. ASSUME NEW w \in Writers, WRegister(w) PROVE RW!WriterWants(w)
  <2>1. w \notin Reading \cup Writing \cup Wanting
    BY <1>5 DEF WRegister, Reading, Writing, Wanting
  <2>2. Reading' = Reading /\ Writing' = Writing /\ Wanting' = Wanting \cup {w}
    BY <1>5 DEF WRegister, Reading, Writing, Wanting
  <2> QED BY <2>1, <2>2 DEF RW!WriterWants
<1>6. ASSUME NEW w \in Writers, WEnter(w) PROVE RW!WriterEnters(w)
  <2>1. Reading = {} /\ Writing = {} /\ w \in Wanting
    BY <1>6, CountFacts DEF WEnter, TestStillTrue, CountersExact, Wanting
  <2>2. Reading' = {} /\ Writing' = {w} /\ Wanting' = Wanting \ {w}
    BY <1>6, <2>1 DEF WEnter, Reading, Writing, Wanting
  <2> QED BY <2>1, <2>2 DEF RW!WriterEnters
<1>7. ASSUME NEW w \in Writers, WLeave(w) PROVE RW!Leaves(w)
  <2>1. Writing = {w} /\ Reading = {}
    BY <1>7 DEF WLeave, Writing, Exclusion
  <2>2. Reading' = {} /\ Writing' = {} /\ Wanting' = Wanting
    BY <1>7, <2>1 DEF WLeave, Sleeping, Reading, Writing, Wanting
  <2> QED BY <2>1, <2>2 DEF RW!Leaves
<1>8. ASSUME NEW th \in Thread, SpuriousWakeup(th) PROVE Same
  BY <1>8 DEF SpuriousWakeup, Reading, Writing, Wanting
<1>9. CASE UNCHANGED vars
  BY <1>9 DEF vars, Reading, Writing, Wanting, Inside
<1> QED
  BY <1>f, <1>1, <1>2, <1>3, <1>4, <1>5, <1>6, <1>7, <1>8, <1>9
  DEF Next, Joined, ReaderSteps, WriterSteps, RW!Next

\* ex3.c implements the abstract lock: readers together or one writer alone, and a
\* writer that has asked keeps new readers out.
THEOREM LockIsImplemented == Spec => ImplementsRWLock
<1>1. RWInv /\ [Next]_vars => [RW!Next]_<<Reading \cup Writing, Wanting>>
  BY RefinesNext DEF Inside
<1> QED
  BY RWInvInit, RWInvNext, RefinesInit, <1>1, PTL DEF Spec, ImplementsRWLock, RW!Spec

(***************************************************************************)
(* No wakeup is lost.  With the mutex held the writer on its way may also  *)
(* be at its test or past it; the rest is inductive as it stands.          *)
(***************************************************************************)
OnItsWay == {w \in Writers : pc[w] \in {"w_relock", "w_test", "w_enter"}}

WakeInv ==
  /\ nReaders = 0 /\ Wanting # {} => OnItsWay # {}
  /\ nReaders # -1 /\ Wanting = {} => Sleeping(Readers, "r_wait") = {}

\* A step that leaves nReaders and Wanting alone, stops no writer and puts no
\* reader to sleep.
LEMMA WakeFrame ==
  ASSUME WakeInv, nReaders' = nReaders, Wanting' = Wanting,
         \A w \in Writers : w \in OnItsWay => w \in OnItsWay',
         \A r \in Readers : pc'[r] = "r_wait" => pc[r] = "r_wait"
  PROVE  WakeInv'
<1>1. OnItsWay # {} => OnItsWay' # {}
  BY DEF OnItsWay
<1>2. Sleeping(Readers, "r_wait") = {} => Sleeping(Readers, "r_wait")' = {}
  BY DEF Sleeping
<1> QED BY <1>1, <1>2 DEF WakeInv

\* When the lock becomes free, either a sleeping writer is woken or every writer
\* that wants it is awake.
LEMMA WakeNext == RWInv /\ WakeInv /\ [Next]_vars => WakeInv'
<1> SUFFICES ASSUME RWInv, WakeInv, [Next]_vars PROVE WakeInv'
  OBVIOUS
<1> USE RWAssumption DEF RWInv, TypeOK, GoTo, data, Thread
<1>c. writersWaiting > 0 <=> Wanting # {}
  BY CountFacts DEF CountersExact
<1> DEFINE Frame ==
      /\ nReaders' = nReaders /\ Wanting' = Wanting
      /\ \A w \in Writers : w \in OnItsWay => w \in OnItsWay'
      /\ \A r \in Readers : pc'[r] = "r_wait" => pc[r] = "r_wait"
<1>f. Frame => WakeInv'
  BY WakeFrame
<1>1. ASSUME NEW r \in Readers, ReaderAcquires(r) \/ RPass(r) \/ ReadData(r) \/ RCheck(r)
      PROVE  Frame
  BY <1>1 DEF ReaderAcquires, RLock, RRelock, RUnlock, Acquire, RPass, ReadData, RCheck,
     Wanting, OnItsWay
<1>2. ASSUME NEW r \in Readers, RWait(r) PROVE WakeInv'
  <2>1. /\ nReaders = -1 \/ Wanting # {}
        /\ nReaders' = nReaders /\ Wanting' = Wanting /\ OnItsWay' = OnItsWay
    BY <1>2, <1>c DEF RWait, RMustWait, Wanting, OnItsWay
  <2> QED BY <2>1 DEF WakeInv
<1>3. ASSUME NEW r \in Readers, REnter(r) PROVE WakeInv'
  <2>1. nReaders # -1 /\ Wanting = {}
    BY <1>3, <1>c DEF REnter, TestStillTrue
  <2>2. nReaders' # 0 /\ Wanting' = {}
    BY <1>3, <2>1 DEF REnter, Wanting
  <2>3. Sleeping(Readers, "r_wait")' = {}
    BY <1>3, <2>1 DEF REnter, WakeInv, Sleeping
  <2> QED BY <2>2, <2>3 DEF WakeInv
<1>4. ASSUME NEW r \in Readers, RLeave(r) PROVE WakeInv'
  <2>1. nReaders = Cardinality(Reading) /\ nReaders # -1 /\ nReaders' = nReaders - 1
    BY <1>4, CountFacts DEF RLeave, Reading, Exclusion, CountersExact
  <2>2. Wanting' = Wanting
    BY <1>4 DEF RLeave, Sleeping, Wanting
  <2>3. Wanting = {} => Sleeping(Readers, "r_wait")' = {}
    BY <1>4, <2>1 DEF RLeave, Sleeping, WakeInv
  <2>4. ASSUME nReaders' = 0, Wanting # {} PROVE OnItsWay' # {}
    <3>1. nReaders = 1 /\ writersWaiting > 0
      BY <1>c, <2>1, <2>4
    <3>2. CASE Sleeping(Writers, "w_wait") # {}
      BY <1>4, <3>1, <3>2 DEF RLeave, Sleeping, OnItsWay
    <3>3. CASE Sleeping(Writers, "w_wait") = {}
      <4>1. PICK w \in Writers : w \in Wanting
        BY <2>4 DEF Wanting
      <4>2. pc[w] \in {"w_relock", "w_test", "w_enter"} /\ pc'[w] = pc[w]
        BY <1>4, <3>3, <4>1 DEF RLeave, Sleeping, Wanting
      <4> QED BY <4>2 DEF OnItsWay
    <3> QED BY <3>2, <3>3
  <2> QED BY <2>2, <2>3, <2>4 DEF WakeInv
<1>5. ASSUME NEW w \in Writers, WriterAcquires(w) \/ WPass(w) \/ WCheck(w) \/ WRead(w)
                               \/ WWrite(w)
      PROVE  Frame
  BY <1>5 DEF WriterAcquires, WLock, WRelock, WUnlock, Acquire, WPass, WCheck, WRead,
     WWrite, Wanting, OnItsWay
<1>6. ASSUME NEW w \in Writers, WRegister(w) PROVE WakeInv'
  <2>1. w \in OnItsWay' /\ w \in Wanting'
    BY <1>6 DEF WRegister, OnItsWay, Wanting
  <2> QED BY <2>1 DEF WakeInv
<1>7. ASSUME NEW w \in Writers, WWait(w) PROVE WakeInv'
  <2>1. nReaders' # 0 /\ w \in Wanting'
    BY <1>7 DEF WWait, Wanting
  <2> QED BY <2>1 DEF WakeInv
<1>8. ASSUME NEW w \in Writers, WEnter(w) PROVE WakeInv'
  BY <1>8 DEF WEnter, WakeInv
<1>9. ASSUME NEW w \in Writers, WLeave(w) PROVE WakeInv'
  <2>1. Wanting' = Wanting
    BY <1>9 DEF WLeave, Sleeping, Wanting
  <2>2. ASSUME Wanting = {} PROVE Sleeping(Readers, "r_wait")' = {}
    <3>1. writersWaiting = 0
      BY <1>c, <2>2
    <3> QED BY <1>9, <3>1 DEF WLeave, Sleeping
  <2>3. ASSUME Wanting # {} PROVE OnItsWay' # {}
    <3>1. writersWaiting # 0
      BY <1>c, <2>3
    <3>2. CASE Sleeping(Writers, "w_wait") # {}
      BY <1>9, <3>1, <3>2 DEF WLeave, Sleeping, OnItsWay
    <3>3. CASE Sleeping(Writers, "w_wait") = {}
      <4>1. PICK u \in Writers : u \in Wanting
        BY <2>3 DEF Wanting
      <4>2. pc[u] \in {"w_relock", "w_test", "w_enter"} /\ pc'[u] = pc[u]
        BY <1>9, <3>1, <3>3, <4>1 DEF WLeave, Sleeping, Wanting
      <4> QED BY <4>2 DEF OnItsWay
    <3> QED BY <3>2, <3>3
  <2> QED BY <2>1, <2>2, <2>3 DEF WakeInv
<1>10. ASSUME NEW th \in Thread, SpuriousWakeup(th) PROVE Frame
  BY <1>10 DEF SpuriousWakeup, Wanting, OnItsWay
<1>11. CASE UNCHANGED vars
  BY <1>f, <1>11 DEF vars, Wanting, OnItsWay
<1> QED
  BY <1>f, <1>1, <1>2, <1>3, <1>4, <1>5, <1>6, <1>7, <1>8, <1>9, <1>10, <1>11
  DEF Next, Joined, ReaderSteps, WriterSteps

\* When the lock is free one of the writers that want it is awake, and no reader
\* sleeps when no writer holds or wants it.
THEOREM NobodySleepsOnAFreeLock == Spec => []NoLostWakeup
<1>1. Init => RWInv /\ WakeInv
  BY RWInvInit, RWAssumption DEF Init, WakeInv, Wanting, Sleeping, Thread
<1>2. RWInv /\ WakeInv /\ [Next]_vars => (RWInv /\ WakeInv)'
  BY RWInvNext, WakeNext
<1>3. RWInv /\ WakeInv => NoLostWakeup
  <2> SUFFICES ASSUME RWInv, WakeInv, owner = NULL PROVE NoLostWakeup
    BY DEF NoLostWakeup
  <2>1. \A w \in Writers : pc[w] \notin {"w_test", "w_enter"}
    BY RWAssumption DEF RWInv, MutexHeld, Critical, Thread
  <2>2. OnItsWay # {} => \E w \in Wanting : pc[w] = "w_relock"
    BY <2>1 DEF OnItsWay, Wanting
  <2> QED BY <2>2 DEF WakeInv, NoLostWakeup
<1> QED BY <1>1, <1>2, <1>3, PTL DEF Spec

-----------------------------------------------------------------------------
(* The sum of the increments of a set of writers                           *)

\* g adds up the increments of every set in Sets, one chosen element at a time.
Adds(g, Sets) ==
  g = [s \in Sets |-> IF s = {} THEN 0
                      ELSE LET x == CHOOSE x \in s : TRUE
                           IN Increment[x] + g[s \ {x}]]

Small(n) == {s \in SUBSET Writers : Cardinality(s) <= n}

\* The sizes of the sets of writers, and of what is left without one of them.
LEMMA SizeFacts ==
  ASSUME NEW S \in SUBSET Writers
  PROVE  /\ Cardinality(S) \in Nat
         /\ Cardinality(S) <= Cardinality(Writers)
         /\ Cardinality(S) = 0 <=> S = {}
         /\ \A x \in S : Cardinality(S \ {x}) = Cardinality(S) - 1
<1>1. IsFiniteSet(S)
  BY RWAssumption, FS_Subset
<1> QED BY <1>1, RWAssumption, FS_Subset, FS_CardinalityType, FS_EmptySet, FS_RemoveElement

\* A property that the numbers inherit upwards from 0 is one of all of them.
LEMMA Upwards ==
  ASSUME NEW T, 0 \in T, \A n \in Nat : n \in T => n + 1 \in T
  PROVE  Nat \subseteq T
<1> DEFINE Bad == {n \in Nat : n \notin T}
<1> SUFFICES ASSUME Bad # {} PROVE FALSE
  OBVIOUS
<1>1. PICK m \in Bad : \A n \in Bad : ~(<<n, m>> \in OpToRel(<, Nat))
  <2>1. Bad \subseteq Nat
    OBVIOUS
  <2> HIDE DEF Bad
  <2> QED BY <2>1, NatLessThanWellFounded, WFMin
<1>2. \A n \in Bad : ~(n < m)
  BY <1>1 DEF OpToRel
<1>3. m # 0 /\ m - 1 \in Nat /\ m - 1 \in T
  BY <1>2
<1> QED BY <1>3

\* One such function serves all the sets of writers.
LEMMA SomethingAdds == \E g : Adds(g, SUBSET Writers)
<1> DEFINE T == {n \in Nat : \E g : Adds(g, Small(n))}
<1>1. 0 \in T
  <2>1. Small(0) = {{}}
    BY SizeFacts DEF Small
  <2>2. Adds([s \in {{}} |-> 0], {{}})
    BY DEF Adds
  <2> QED BY <2>1, <2>2
<1>2. ASSUME NEW n \in Nat, n \in T PROVE n + 1 \in T
  <2>1. PICK g : Adds(g, Small(n))
    BY <1>2
  <2> DEFINE h == [s \in Small(n + 1) |->
                     IF s = {} THEN 0
                     ELSE LET x == CHOOSE x \in s : TRUE
                          IN Increment[x] + g[s \ {x}]]
  <2>2. \A s \in Small(n) : h[s] = g[s]
    BY <2>1, SizeFacts DEF Adds, Small
  <2>3. \A s \in Small(n + 1) : s # {} => s \ {CHOOSE x \in s : TRUE} \in Small(n)
    BY SizeFacts DEF Small
  <2>4. Adds(h, Small(n + 1))
    BY <2>2, <2>3 DEF Adds
  <2> QED BY <2>4
<1>3. Cardinality(Writers) \in T
  <2> HIDE DEF T
  <2> QED BY <1>1, <1>2, Upwards, SizeFacts
<1>4. Small(Cardinality(Writers)) = SUBSET Writers
  BY SizeFacts DEF Small
<1> QED BY <1>3, <1>4

Total == CHOOSE g : Adds(g, SUBSET Writers)

\* ... and what the fold of the community modules computes is its value.
LEMMA SumIsTotal == ASSUME NEW S \in SUBSET Writers PROVE SumOf(S) = Total[S]
<1>1. Adds(Total, SUBSET Writers)
  BY SomethingAdds DEF Total
<1> DEFINE part == [s \in SUBSET S |-> Total[s]]
           fold == CHOOSE g : Adds(g, SUBSET S)
<1>2. Adds(part, SUBSET S)
  BY <1>1 DEF Adds
<1>3. Adds(fold, SUBSET S)
  <2> HIDE DEF part
  <2> QED BY <1>2
<1>4. SumOf(S) = fold[S]
  BY DEF SumOf, FoldFunctionOnSet, MapThenFoldSet, Adds
<1>5. \A s \in SUBSET S : fold[s] = part[s]
  <2> HIDE DEF part, fold
  <2> DEFINE T == {n \in Nat : \A s \in SUBSET S : Cardinality(s) <= n => fold[s] = part[s]}
  <2>1. 0 \in T
    BY <1>2, <1>3, SizeFacts DEF Adds
  <2>2. ASSUME NEW n \in Nat, n \in T PROVE n + 1 \in T
    <3> SUFFICES ASSUME NEW s \in SUBSET S, Cardinality(s) <= n + 1 PROVE fold[s] = part[s]
      OBVIOUS
    <3>1. CASE s = {}
      BY <3>1, <1>2, <1>3 DEF Adds
    <3>2. CASE s # {}
      <4> DEFINE x == CHOOSE x \in s : TRUE
      <4>1. x \in s /\ s \ {x} \in SUBSET S
        BY <3>2
      <4>2. Cardinality(s \ {x}) <= n
        BY <4>1, SizeFacts
      <4>3. fold[s \ {x}] = part[s \ {x}]
        BY <2>2, <4>1, <4>2
      <4> QED BY <3>2, <4>3, <1>2, <1>3 DEF Adds
    <3> QED BY <3>1, <3>2
  <2>3. Cardinality(Writers) \in T
    <3> HIDE DEF T
    <3> QED BY <2>1, <2>2, Upwards, SizeFacts
  <2> QED BY <2>3, SizeFacts
<1> QED BY <1>4, <1>5

\* The order in which the fold takes the writers does not matter.
LEMMA TotalSplits ==
  ASSUME NEW S \in SUBSET Writers
  PROVE  /\ Total[S] \in Nat
         /\ Total[{}] = 0
         /\ \A w \in S : Total[S] = Increment[w] + Total[S \ {w}]
<1>1. Adds(Total, SUBSET Writers)
  BY SomethingAdds DEF Total
<1> HIDE DEF Total
<1> DEFINE Splits(s) == /\ Total[s] \in Nat
                        /\ \A w \in s : Total[s] = Increment[w] + Total[s \ {w}]
           T == {n \in Nat : \A s \in SUBSET Writers : Cardinality(s) <= n => Splits(s)}
<1>0. Total[{}] = 0
  BY <1>1 DEF Adds
<1>5. Splits({})
  BY <1>0
<1>2. 0 \in T
  <2>1. \A s \in SUBSET Writers : Cardinality(s) <= 0 => s = {}
    BY SizeFacts
  <2> QED BY <2>1, <1>5
<1>3. ASSUME NEW n \in Nat, n \in T PROVE n + 1 \in T
  <2> SUFFICES ASSUME NEW s \in SUBSET Writers, Cardinality(s) <= n + 1, s # {}
               PROVE  Splits(s)
    <3> HIDE DEF Splits
    <3> QED BY <1>5
  <2> DEFINE x == CHOOSE x \in s : TRUE
  <2>1. x \in s /\ Increment[x] \in Nat
    BY RWAssumption
  <2>2. Total[s] = Increment[x] + Total[s \ {x}]
    BY <1>1 DEF Adds
  <2> HIDE DEF x
  <2>3. \A w \in s : Splits(s \ {w})
    BY <1>3, SizeFacts
  <2>4. ASSUME NEW w \in s, w # x PROVE Total[s] = Increment[w] + Total[s \ {w}]
    <3> DEFINE both == s \ {w, x}
    <3>1. (s \ {x}) \ {w} = both /\ (s \ {w}) \ {x} = both
      OBVIOUS
    <3>2. Total[s \ {x}] = Increment[w] + Total[both]
      BY <2>1, <2>3, <2>4, <3>1
    <3>3. Total[s \ {w}] = Increment[x] + Total[both]
      BY <2>1, <2>3, <2>4, <3>1
    <3>4. Total[both] \in Nat /\ Increment[w] \in Nat
      <4>1. s \ {x} \in SUBSET Writers /\ both \in SUBSET Writers /\ w \in s \ {x}
        BY <2>4
      <4>2. Cardinality(s \ {x}) = Cardinality(s) - 1 /\ Cardinality(s) \in Nat
        BY <2>1, SizeFacts
      <4>4. Cardinality(both) = Cardinality(s \ {x}) - 1
        <5>1. Cardinality((s \ {x}) \ {w}) = Cardinality(s \ {x}) - 1
          BY <4>1, SizeFacts
        <5> QED BY <5>1, <3>1
      <4>3. Cardinality(both) <= n
        BY <4>2, <4>4
      <4> QED BY <4>1, <4>3, <1>3, RWAssumption
    <3> QED BY <2>1, <2>2, <3>2, <3>3, <3>4
  <2>5. \A w \in s : Total[s] = Increment[w] + Total[s \ {w}]
    BY <2>2, <2>4
  <2>6. Total[s] \in Nat
    <3>1. Total[s \ {x}] \in Nat
      BY <2>1, <2>3
    <3> HIDE DEF Splits
    <3> QED BY <2>1, <2>2, <3>1
  <2> QED BY <2>5, <2>6
<1>4. Cardinality(Writers) \in T
  <2> HIDE DEF T
  <2> QED BY <1>2, <1>3, Upwards, SizeFacts
<1> QED BY <1>0, <1>4, SizeFacts

\* A set of writers adds no more than all of them.
LEMMA TotalGrows == ASSUME NEW S \in SUBSET Writers PROVE Total[S] <= Total[Writers]
<1> DEFINE T == {n \in Nat : \A s \in SUBSET Writers :
                   Cardinality(Writers \ s) <= n => Total[s] <= Total[Writers]}
<1>0. Total[Writers] <= Total[Writers]
  <2>1. Total[Writers] \in Nat
    BY TotalSplits
  <2> QED BY <2>1
<1>1. 0 \in T
  <2> SUFFICES ASSUME NEW s \in SUBSET Writers, Cardinality(Writers \ s) <= 0
               PROVE  Total[s] <= Total[Writers]
    OBVIOUS
  <2> DEFINE left == Writers \ s
  <2>1. left \in SUBSET Writers /\ Cardinality(left) <= 0
    OBVIOUS
  <2>2. left = {}
    <3> HIDE DEF left
    <3> QED BY <2>1, SizeFacts
  <2>3. s = Writers
    BY <2>2
  <2> QED BY <2>3, <1>0
<1>2. ASSUME NEW n \in Nat, n \in T PROVE n + 1 \in T
  <2> SUFFICES ASSUME NEW s \in SUBSET Writers, Cardinality(Writers \ s) <= n + 1,
                      s # Writers
               PROVE  Total[s] <= Total[Writers]
    <3> SUFFICES ASSUME NEW s \in SUBSET Writers, Cardinality(Writers \ s) <= n + 1
                 PROVE  Total[s] <= Total[Writers]
      OBVIOUS
    <3> QED BY <1>0
  <2>1. PICK w \in Writers : w \notin s
    OBVIOUS
  <2> DEFINE more == s \cup {w}
  <2>2. more \in SUBSET Writers /\ more \ {w} = s /\ w \in more
    BY <2>1
  <2>3. Cardinality(Writers \ more) <= n
    <3>1. Writers \ more = (Writers \ s) \ {w} /\ w \in Writers \ s
      BY <2>1
    <3>2. /\ Cardinality((Writers \ s) \ {w}) = Cardinality(Writers \ s) - 1
          /\ Cardinality(Writers \ s) \in Nat
      <4> DEFINE left == Writers \ s
      <4>1. left \in SUBSET Writers /\ w \in left
        BY <3>1
      <4>2. Cardinality(left \ {w}) = Cardinality(left) - 1 /\ Cardinality(left) \in Nat
        <5> HIDE DEF left
        <5> QED BY <4>1, SizeFacts
      <4> QED BY <4>2
    <3>3. Cardinality(Writers \ more) = Cardinality((Writers \ s) \ {w})
      BY <3>1
    <3>4. Cardinality(Writers \ s) <= n + 1
      OBVIOUS
    <3> QED BY <3>2, <3>3, <3>4
  <2>4. Total[more] <= Total[Writers]
    BY <1>2, <2>2, <2>3
  <2>5. Total[more] = Increment[w] + Total[s]
    BY <2>2, TotalSplits
  <2>6. Total[s] \in Nat /\ Total[Writers] \in Nat /\ Increment[w] \in Nat
    BY TotalSplits, RWAssumption
  <2> QED BY <2>4, <2>5, <2>6
<1>3. Cardinality(Writers \ S) \in T
  <2> HIDE DEF T
  <2> QED BY <1>1, <1>2, Upwards, SizeFacts
<1> QED BY <1>3, SizeFacts

(***************************************************************************)
(* The overshoot.  A writer that passes its test joins Committed while     *)
(* shared_data is below MAXVALUE, and leaves it by adding its increment.   *)
(***************************************************************************)
Overshoot ==
  Writers # {} => sharedData + Total[Committed] <= MaxValue - 1 + Total[Writers]

LEMMA OvershootMeans == Overshoot => BoundedOvershoot
<1>1. Committed \in SUBSET Writers
  BY DEF Committed
<1>2. SumOf(Committed) = Total[Committed] /\ SumOf(Writers) = Total[Writers]
  BY <1>1, SumIsTotal
<1> QED BY <1>2 DEF Overshoot, BoundedOvershoot

LEMMA OvershootInit == Init => Overshoot
<1> SUFFICES ASSUME Init, NEW w \in Writers PROVE Overshoot
  BY DEF Overshoot
<1>1. Committed = {} /\ sharedData = 1
  BY RWAssumption DEF Init, InitialData, Committed, Thread
<1>2. Total[Committed] = 0
  BY <1>1, TotalSplits
<1>3. Total[Writers] = Increment[w] + Total[Writers \ {w}]
  BY TotalSplits
<1>4. Total[Writers \ {w}] \in Nat /\ Increment[w] \in Nat \ {0}
  BY TotalSplits, RWAssumption
<1> QED BY <1>1, <1>2, <1>3, <1>4, RWAssumption DEF Overshoot

\* A step that changes neither the data nor the writers that are bound to add.
LEMMA OvershootFrame ==
  ASSUME Overshoot, Committed' = Committed, sharedData' = sharedData
  PROVE  Overshoot'
BY DEF Overshoot

LEMMA OvershootNext ==
  RWInv /\ DataInv /\ Overshoot /\ [Next]_vars => Overshoot'
<1> SUFFICES ASSUME RWInv, DataInv, Overshoot, [Next]_vars
             PROVE  Overshoot'
  OBVIOUS
<1> USE RWAssumption DEF RWInv, TypeOK, GoTo, data, Thread
<1> DEFINE Frame == Committed' = Committed /\ sharedData' = sharedData
<1>f. Frame => Overshoot'
  BY OvershootFrame
<1>1. ASSUME NEW r \in Readers, ReaderAcquires(r) PROVE Frame
  BY <1>1 DEF ReaderAcquires, RLock, RRelock, RUnlock, Acquire, Committed
<1>2. ASSUME NEW r \in Readers, RWait(r) \/ RPass(r) \/ REnter(r) \/ RCheck(r) \/ ReadData(r)
      PROVE  Frame
  BY <1>2 DEF RWait, RPass, REnter, RCheck, ReadData, Committed
<1>3. ASSUME NEW r \in Readers, RLeave(r) PROVE Frame
  BY <1>3 DEF RLeave, Sleeping, Committed
<1>4. ASSUME NEW w \in Writers, WriterAcquires(w) PROVE Frame
  BY <1>4 DEF WriterAcquires, WLock, WRelock, WUnlock, Acquire, Committed
<1>5. ASSUME NEW w \in Writers, WRegister(w) \/ WWait(w) \/ WPass(w) \/ WEnter(w) \/ WRead(w)
      PROVE  Frame
  BY <1>5 DEF WRegister, WWait, WPass, WEnter, WRead, Committed
<1>6. ASSUME NEW w \in Writers, WLeave(w) PROVE Frame
  BY <1>6 DEF WLeave, Sleeping, Committed
<1>7. ASSUME NEW w \in Writers, WCheck(w) PROVE Overshoot'
  <2>1. CASE sharedData < MaxValue
    <3>1. sharedData' = sharedData /\ Committed' \in SUBSET Writers
      BY <1>7 DEF WCheck, Committed
    <3>3. Total[Committed'] <= Total[Writers]
      BY <3>1, TotalGrows
    <3>4. Total[Committed'] \in Nat /\ Total[Writers] \in Nat
      BY <3>1, TotalSplits
    <3> QED BY <2>1, <3>1, <3>3, <3>4 DEF Overshoot
  <2>2. CASE ~(sharedData < MaxValue)
    <3>1. Frame
      BY <1>7, <2>2 DEF WCheck, Committed
    <3> QED BY <3>1, <1>f
  <2> QED BY <2>1, <2>2
<1>8. ASSUME NEW w \in Writers, WWrite(w) PROVE Overshoot'
  <2>1. sharedData' = sharedData + Increment[w] /\ Increment[w] \in Nat
    BY <1>8 DEF WWrite, DataInv
  <2>2. /\ w \in Committed /\ Committed \in SUBSET Writers
        /\ Committed' = Committed \ {w}
    BY <1>8 DEF WWrite, Committed
  <2>3. Total[Committed] = Increment[w] + Total[Committed \ {w}]
    BY <2>2, TotalSplits
  <2>5. Total[Committed \ {w}] \in Nat /\ Total[Writers] \in Nat
    BY <2>2, TotalSplits
  <2> QED BY <2>1, <2>2, <2>3, <2>5 DEF Overshoot
<1>9. ASSUME NEW th \in Thread, SpuriousWakeup(th) PROVE Frame
  BY <1>9 DEF SpuriousWakeup, Committed
<1>10. CASE UNCHANGED vars
  BY <1>f, <1>10 DEF vars, Committed
<1> QED
  BY <1>f, <1>1, <1>2, <1>3, <1>4, <1>5, <1>6, <1>7, <1>8, <1>9, <1>10
  DEF Next, Joined, ReaderSteps, WriterSteps

\* The unlocked test of the writers lets shared_data exceed MAXVALUE - 1 by one
\* increment of each of them and no more, whatever the increments are.
THEOREM OvershootIsBounded == Spec => []BoundedOvershoot
<1>1. Init => RWInv /\ DataInv /\ Overshoot
  BY RWInvInit, OvershootInit, RWAssumption DEF Init, DataInv, NoLostUpdate, Thread
<1>2. RWInv /\ DataInv /\ Overshoot /\ [Next]_vars
        => (RWInv /\ DataInv /\ Overshoot)'
  BY RWInvNext, DataInvNext, OvershootNext
<1> QED BY <1>1, <1>2, OvershootMeans, PTL DEF Spec

=============================================================================
