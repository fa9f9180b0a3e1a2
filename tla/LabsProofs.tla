----------------------------- MODULE LabsProofs -----------------------------
(***************************************************************************)
(* Theorems about the small programs, for any numbers of threads, clients  *)
(* and processes, any images, and any values drawn.                        *)
(***************************************************************************)
EXTENDS Labs, FiniteSetTheorems, SequenceTheorems, WellFoundedInduction, TLAPS

\* The programs share nothing: a step of one is a step of it or none of its variables.
LEMMA LabRuns ==
  /\ LabsInit => Init /\ Filter!Init /\ Udp!Init /\ Tcp!Init /\ Image!Init /\ Ceiling!Init
  /\ [LabsNext]_labsVars => [Next]_vars
  /\ [LabsNext]_labsVars => [Filter!Next]_(Filter!vars)
  /\ [LabsNext]_labsVars => [Udp!Next]_(Udp!minUdpVars)
  /\ [LabsNext]_labsVars => [Tcp!Next]_(Tcp!minTcpVars)
  /\ [LabsNext]_labsVars => [Image!Next]_(Image!partitionVars)
  /\ [LabsNext]_labsVars => [Ceiling!Next]_ceilingVars
<1> USE DEF LabsNext, RunNotify, RunFilter, RunUdp, RunTcp, RunImage, RunRate, RunCeiling,
            Stop, labsVars, notifyVars, filterVars, udpVars, tcpVars, imageVars
<1>1. LabsInit => Init /\ Filter!Init /\ Udp!Init /\ Tcp!Init /\ Image!Init /\ Ceiling!Init
  BY DEF LabsInit
<1>2. [LabsNext]_labsVars => [Next]_vars
  OBVIOUS
<1>3. [LabsNext]_labsVars => [Filter!Next]_(Filter!vars)
  BY DEF Filter!vars, Filter!masterVars, Filter!workerVars
<1>4. [LabsNext]_labsVars => [Udp!Next]_(Udp!minUdpVars)
  BY DEF Udp!minUdpVars
<1>5. [LabsNext]_labsVars => [Tcp!Next]_(Tcp!minTcpVars)
  BY DEF Tcp!minTcpVars
<1>6. [LabsNext]_labsVars => [Image!Next]_(Image!partitionVars)
  BY DEF Image!partitionVars
<1>7. [LabsNext]_labsVars => [Ceiling!Next]_ceilingVars
  BY DEF ceilingVars
<1> QED BY <1>1, <1>2, <1>3, <1>4, <1>5, <1>6, <1>7

(***************************************************************************)
(* Termination by notification: the count is exact because the semaphore   *)
(* excludes, and main creates no more threads than it waits for as long as *)
(* it stores their handles in Threads[].                                   *)
(***************************************************************************)
\* The threads that have taken the semaphore.
Inside == {t \in Threads : pc[t] \in {"set_id", "store"}}

Exclusive ==
  /\ \A s, t \in Inside : s = t
  /\ sem = 1 => Inside = {}
  /\ main = "create" => sem = 0 /\ Inside = {}

Loaded == \A t \in Threads : pc[t] = "store" => copy[t] = completed /\ threadId = t

\* Unless a handle went astray, i counts at least the threads created.
InBounds ==
  ~strayed => /\ nThreads = Wanted
              /\ Created = {} \/ (Cardinality(Created) <= i /\ i <= nThreads)

VerdictIsLast == result = "success" => main \in {"end", "exited"}

NotifyInv ==
  /\ TypeOK /\ Exclusive /\ Loaded /\ InBounds /\ VerdictIsLast
  /\ CountIsExact /\ SuccessIsTrue

LEMMA CountNotified ==
  /\ Notified \subseteq Created
  /\ IsFiniteSet(Notified) /\ Cardinality(Notified) \in Nat
  /\ IsFiniteSet(Created) /\ Cardinality(Created) \in Nat
  /\ Cardinality(Created) <= Cardinality(Notified) => Notified = Created
<1>1. Notified \subseteq Created /\ Created \subseteq Threads /\ IsFiniteSet(Threads)
  BY NotifyAssumption DEF Notified, Created
<1> QED BY <1>1, FS_Subset, FS_CardinalityType

LEMMA NotifyInit == Init => NotifyInv
<1> SUFFICES ASSUME Init PROVE NotifyInv
  OBVIOUS
<1> USE NotifyAssumption DEF Init
<1>1. Inside = {} /\ Notified = {} /\ Created = {}
  BY DEF Inside, Notified, Created
<1>2. Cardinality(Notified) = 0
  BY <1>1, FS_EmptySet
<1>3. TypeOK
  <2>1. i \in Int /\ nThreads \in Int
    OBVIOUS
  <2>2. strayed \in BOOLEAN
    BY Zenon
  <2> QED BY <2>1, <2>2 DEF TypeOK
<1>4. Exclusive /\ Loaded /\ VerdictIsLast /\ SuccessIsTrue
  BY <1>1 DEF Exclusive, Loaded, VerdictIsLast, SuccessIsTrue
<1>5. InBounds
  BY <1>1 DEF InBounds
<1>6. CountIsExact
  BY <1>2 DEF CountIsExact
<1> QED BY <1>3, <1>4, <1>5, <1>6 DEF NotifyInv

\* A step that moves no thread in or out of the three sets and writes no shared state.
LEMMA NotifyFrame ==
  ASSUME NotifyInv, TypeOK', Inside' = Inside, Notified' = Notified, Created' = Created,
         UNCHANGED <<i, nThreads, sem, threadId, completed, copy, result, strayed>>,
         main = "create" \/ main' # "create",
         main \in {"end", "exited"} => main' \in {"end", "exited"},
         \A t \in Threads : (pc'[t] = "store") <=> (pc[t] = "store")
  PROVE  NotifyInv'
BY DEF NotifyInv, Exclusive, Loaded, InBounds, VerdictIsLast, CountIsExact, SuccessIsTrue

LEMMA CreateInv == NotifyInv /\ Create => NotifyInv'
<1> SUFFICES ASSUME NotifyInv, Create PROVE NotifyInv'
  OBVIOUS
<1>1. TypeOK /\ main = "create" /\ i < nThreads /\ i \in Int /\ nThreads \in Int /\ acks \in Int
  BY DEF NotifyInv, TypeOK, Create
<1>2. UNCHANGED <<sem, threadId, completed, copy, result, spurious>>
  BY DEF Create
<1>3. \/ \E t \in Threads : pc[t] = "not_created" /\ pc' = [pc EXCEPT ![t] = "job"]
      \/ pc' = pc
  BY DEF Create, GoTo
<1>4. main' \in {"create", "crashed"} /\ i' \in Int /\ nThreads' \in Int /\ acks' \in Int /\ strayed' \in BOOLEAN
  <2>1. strayed \in BOOLEAN /\ StoreHandle
    BY <1>1 DEF TypeOK, Create
  <2>2. CASE i \in 0..(MAXTHREADS - 1)
    <3>1. i' = i + 1 /\ UNCHANGED <<main, nThreads, acks, strayed>>
      BY <2>1, <2>2 DEF StoreHandle
    <3> QED BY <1>1, <2>1, <3>1
  <2>3. CASE i \notin 0..(MAXTHREADS - 1)
    <3>1. strayed' = TRUE
      BY <2>1, <2>3 DEF StoreHandle
    <3>2. \/ main' = "crashed" /\ UNCHANGED <<i, nThreads, acks>>
          \/ /\ \E n \in Garbage \cup {i} : i' = n + 1
             /\ nThreads' \in Garbage \cup {nThreads} /\ acks' \in Garbage \cup {acks}
             /\ UNCHANGED main
      BY <2>1, <2>3 DEF StoreHandle
    <3>3. Garbage \subseteq Int
      BY NotifyAssumption
    <3>4. strayed' \in BOOLEAN
      BY <3>1, Zenon
    <3>5. CASE main' = "crashed" /\ UNCHANGED <<i, nThreads, acks>>
      <4>1. i' \in Int /\ nThreads' \in Int /\ acks' \in Int
        BY <1>1, <3>5
      <4> QED BY <3>5, <4>1, <3>4
    <3>6. CASE main' = main /\ \E n \in Garbage \cup {i} : i' = n + 1
      <4>1. i' \in Int
        BY <1>1, <3>3, <3>6
      <4>2. nThreads' \in Int /\ acks' \in Int
        BY <1>1, <3>2, <3>3
      <4>3. main' = "create"
        BY <1>1, <3>6
      <4> QED BY <4>1, <4>2, <4>3, <3>4
    <3> QED BY <3>2, <3>5, <3>6
  <2> QED BY <2>2, <2>3
<1>5. TypeOK'
  BY <1>1, <1>2, <1>3, <1>4 DEF TypeOK
<1>6. Inside' = Inside /\ Notified' = Notified /\ \A t \in Threads : (pc'[t] = "store") <=> (pc[t] = "store")
  BY <1>1, <1>3 DEF TypeOK, Inside, Notified
<1>7. result # "success"
  BY <1>1 DEF NotifyInv, VerdictIsLast
<1>8. InBounds'
  <2> SUFFICES ASSUME ~strayed'
               PROVE  nThreads' = Wanted /\ (Created' = {} \/ (Cardinality(Created') <= i' /\ i' <= nThreads'))
    BY DEF InBounds
  <2>1. i >= 0 /\ i' = i + 1 /\ nThreads' = nThreads /\ ~strayed
    BY <1>1 DEF Create, StoreHandle
  <2>2. nThreads = Wanted /\ (Created = {} \/ Cardinality(Created) <= i)
    BY <2>1 DEF NotifyInv, InBounds
  <2>3. Cardinality(Created) <= i
    BY <2>1, <2>2, FS_EmptySet
  <2>4. \/ Created' = Created
        \/ \E t \in Threads : t \notin Created /\ Created' = Created \cup {t}
    BY <1>1, <1>3 DEF TypeOK, Created
  <2>5. Cardinality(Created') <= Cardinality(Created) + 1
    BY <2>4, CountNotified, FS_AddElement
  <2>6. Cardinality(Created') \in Nat
    <3>1. IsFiniteSet(Created')
      BY <2>4, CountNotified, FS_AddElement
    <3> QED BY <3>1, FS_CardinalityType
  <2>7. \A c, d \in Nat : c <= i /\ d <= c + 1 => d <= i + 1 /\ i + 1 <= nThreads
    BY <1>1
  <2>8. Cardinality(Created') <= i + 1 /\ i + 1 <= nThreads
    BY <2>3, <2>5, <2>6, <2>7, CountNotified
  <2> QED BY <2>1, <2>2, <2>8
<1> QED BY <1>1, <1>2, <1>4, <1>5, <1>6, <1>7, <1>8
  DEF NotifyInv, Exclusive, Loaded, VerdictIsLast, CountIsExact, SuccessIsTrue

LEMMA NotifyNext == NotifyInv /\ [Next]_vars => NotifyInv'
<1> SUFFICES ASSUME NotifyInv, [Next]_vars PROVE NotifyInv'
  OBVIOUS
<1> USE NotifyAssumption DEF TypeOK, GoTo
<1>t. TypeOK
  BY DEF NotifyInv
<1>1. ASSUME NEW t \in Threads, SemWait(t) PROVE NotifyInv'
  <2>1. sem = 1 /\ sem' = 0 /\ TypeOK'
    BY <1>t, <1>1 DEF SemWait
  <2>2. Inside = {} /\ Inside' = {t} /\ Notified' = Notified /\ Created' = Created /\ main # "create"
    BY <1>t, <1>1, <2>1 DEF SemWait, NotifyInv, Exclusive, Inside, Notified, Created
  <2> QED BY <1>t, <1>1, <2>1, <2>2
    DEF SemWait, NotifyInv, Exclusive, Loaded, InBounds, VerdictIsLast, CountIsExact, SuccessIsTrue
<1>2. ASSUME NEW t \in Threads, SetId(t) PROVE NotifyInv'
  <2>1. TypeOK'
    BY <1>t, <1>2 DEF SetId
  <2>2. Inside' = Inside /\ Inside = {t} /\ Notified' = Notified /\ Created' = Created
    BY <1>t, <1>2 DEF SetId, NotifyInv, Exclusive, Inside, Notified, Created
  <2>3. \A s \in Threads : s # t => pc[s] # "store" /\ pc'[s] # "store"
    BY <1>t, <1>2, <2>2 DEF SetId, Inside
  <2> QED BY <1>t, <1>2, <2>1, <2>2, <2>3
    DEF SetId, NotifyInv, Exclusive, Loaded, InBounds, VerdictIsLast, CountIsExact, SuccessIsTrue
<1>3. ASSUME NEW t \in Threads, Complete(t) PROVE NotifyInv'
  <2>1. /\ Inside = {t} /\ Inside' = {} /\ Created' = Created /\ t \in Created
        /\ Notified' = Notified \cup {t} /\ t \notin Notified
    BY <1>t, <1>3 DEF Complete, NotifyInv, Exclusive, Inside, Notified, Created
  <2>2. sem = 0 /\ sem' = 1 /\ main # "create"
    BY <1>t, <1>3, <2>1 DEF Complete, NotifyInv, Exclusive
  <2>3. completed' = completed + 1 /\ threadId = t
    BY <1>t, <1>3 DEF Complete, NotifyInv, Loaded
  <2>4. Cardinality(Notified') = Cardinality(Notified) + 1
    BY <2>1, CountNotified, FS_AddElement
  <2>5. TypeOK'
    BY <1>t, <1>3, <2>2, <2>3 DEF Complete
  <2>6. \A s \in Threads : pc'[s] # "store"
    BY <1>t, <1>3, <2>1 DEF Complete, Inside
  <2>7. SuccessIsTrue'
    <3>1. UNCHANGED <<result, nThreads, strayed>>
      BY <1>3 DEF Complete
    <3>2. result = "success" => Cardinality(Notified) >= nThreads /\ strayed
      BY <2>1 DEF NotifyInv, SuccessIsTrue
    <3> QED BY <1>t, <2>4, <3>1, <3>2, CountNotified DEF SuccessIsTrue
  <2>8. InBounds' /\ VerdictIsLast'
    BY <1>3, <2>1 DEF Complete, NotifyInv, InBounds, VerdictIsLast
  <2> QED BY <1>t, <1>3, <2>1, <2>2, <2>3, <2>4, <2>5, <2>6, <2>7, <2>8
    DEF Complete, NotifyInv, Exclusive, Loaded, CountIsExact
<1>4. ASSUME NEW t \in Threads, Signal(t) PROVE NotifyInv'
  <2>1. /\ TypeOK' /\ (main = "create" \/ main' # "create")
        /\ main \in {"end", "exited"} => main' \in {"end", "exited"}
    BY <1>t, <1>4 DEF Signal
  <2>2. Inside' = Inside /\ Notified' = Notified /\ Created' = Created
    BY <1>t, <1>4 DEF Signal, Inside, Notified, Created
  <2>3. \A s \in Threads : (pc'[s] = "store") <=> (pc[s] = "store")
    BY <1>t, <1>4 DEF Signal
  <2> QED BY <1>4, <2>1, <2>2, <2>3, NotifyFrame DEF Signal
<1>5. CASE Create
  BY <1>5, CreateInv
<1>6. CASE OpenSemaphore
  <2>1. sem = 0 /\ sem' = 1 /\ Inside = {} /\ TypeOK'
    BY <1>t, <1>6 DEF OpenSemaphore, NotifyInv, Exclusive
  <2>2. Inside' = Inside /\ Notified' = Notified /\ Created' = Created
    BY <1>6 DEF OpenSemaphore, Inside, Notified, Created
  <2> QED BY <1>6, <2>1, <2>2
    DEF OpenSemaphore, NotifyInv, Exclusive, Loaded, InBounds, VerdictIsLast, CountIsExact, SuccessIsTrue
<1>7. CASE Wait \/ Acknowledge \/ Exit \/ SpuriousWakeup
  <2>1. /\ TypeOK' /\ main' # "create" /\ pc' = pc
        /\ main \in {"end", "exited"} => main' \in {"end", "exited"}
    BY <1>t, <1>7 DEF Wait, Acknowledge, Exit, SpuriousWakeup
  <2>2. Inside' = Inside /\ Notified' = Notified /\ Created' = Created
    BY <2>1 DEF Inside, Notified, Created
  <2> QED BY <1>7, <2>1, <2>2, NotifyFrame DEF Wait, Acknowledge, Exit, SpuriousWakeup
<1>8. CASE Verdict
  <2>1. TypeOK' /\ main' = "end" /\ pc' = pc
    BY <1>t, <1>8 DEF Verdict
  <2>2. Inside' = Inside /\ Notified' = Notified /\ Created' = Created
    BY <2>1 DEF Inside, Notified, Created
  <2>3. result' = "success" => Cardinality(Notified) = nThreads
    BY <1>8 DEF Verdict, NotifyInv, CountIsExact
  <2>4. Cardinality(Notified) = nThreads /\ ~strayed => nThreads = Wanted /\ Notified = Created
    <3> SUFFICES ASSUME Cardinality(Notified) = nThreads, ~strayed
                 PROVE  nThreads = Wanted /\ Notified = Created
      OBVIOUS
    <3>1. nThreads = Wanted /\ (Created = {} \/ Cardinality(Created) <= nThreads)
      BY <1>t, CountNotified DEF NotifyInv, InBounds
    <3> QED BY <3>1, CountNotified
  <2>5. SuccessIsTrue'
    BY <1>t, <1>8, <2>2, <2>3, <2>4 DEF Verdict, SuccessIsTrue
  <2> QED BY <1>8, <2>1, <2>2, <2>5
    DEF Verdict, NotifyInv, Exclusive, Loaded, InBounds, VerdictIsLast, CountIsExact
<1>9. CASE UNCHANGED vars
  BY <1>9 DEF vars, NotifyInv, Exclusive, Loaded, InBounds, VerdictIsLast, CountIsExact, SuccessIsTrue,
              Inside, Notified, Created
<1> QED BY <1>1, <1>2, <1>3, <1>4, <1>5, <1>6, <1>7, <1>8, <1>9
  DEF Next, MainSteps, ThreadSteps

\* completed_threads counts the threads that have notified: the semaphore excludes.
THEOREM CompletedIsExact == LabsSpec => []CountIsExact
<1>1. NotifyInv => CountIsExact
  BY DEF NotifyInv
<1> QED BY <1>1, NotifyInit, NotifyNext, LabRuns, PTL DEF LabsSpec

\* ex2.c prints SUCCESS only when as many threads have notified as main waits for, in
\* spite of the lost and spurious wakeups, and only when all that were created have,
\* unless the uninitialised i led it to store a handle outside of Threads[].
THEOREM SuccessIsNeverFalse == LabsSpec => []SuccessIsTrue
<1>1. NotifyInv => SuccessIsTrue
  BY DEF NotifyInv
<1> QED BY <1>1, NotifyInit, NotifyNext, LabRuns, PTL DEF LabsSpec

\* What is true of the datagram d.
Genuine(d) ==
  /\ d.id \in Udp!Processus /\ d.number \in 1..sends[d.id]
  /\ d.number = sends[d.id] => d.value = v[d.id]

\* What is true of the entry of p in the table.
Entry(p) ==
  /\ served[p] \in 0..sends[p]
  /\ served[p] = sends[p] => processusValues[p] = v[p]

UdpInv ==
  /\ v \in [Udp!Processus -> Numbers \cup {INT_MAX}]
  /\ sends \in [Udp!Processus -> Nat]
  /\ served \in [Udp!Processus -> Nat]
  /\ DOMAIN processusValues = Udp!Processus
  /\ \A d \in network : Genuine(d)
  /\ \A p \in Udp!Processus : Entry(p)
  /\ old_minimum = Udp!Minimum(processusValues)

LEMMA UdpInvInit == Udp!Init => UdpInv
<1> SUFFICES ASSUME Udp!Init PROVE UdpInv
  OBVIOUS
<1>1. Udp!Minimum(processusValues) = INT_MAX
  <2>1. {processusValues[p] : p \in Udp!Processus} \cup {INT_MAX} = {INT_MAX}
    BY DEF Udp!Init
  <2>2. Udp!Min({INT_MAX}) = INT_MAX
    BY DEF Udp!Min
  <2> QED BY <2>1, <2>2 DEF Udp!Minimum
<1> QED BY <1>1 DEF Udp!Init, UdpInv, Genuine, Entry

LEMMA SendInv == ASSUME UdpInv, NEW p \in Udp!Processus, Udp!Send(p) PROVE UdpInv'
<1> USE DEF UdpInv
<1>1. PICK x \in Numbers :
        /\ v' = [v EXCEPT ![p] = x]
        /\ network' = network \cup {[id |-> p, value |-> x, number |-> sends[p] + 1]}
  BY DEF Udp!Send
<1>2. /\ sends' = [sends EXCEPT ![p] = sends[p] + 1]
      /\ UNCHANGED <<processusValues, old_minimum, served>>
  BY DEF Udp!Send
<1>3. \A d \in network' : Genuine(d)'
  <2>1. ASSUME NEW d \in network PROVE Genuine(d)'
    BY <1>1, <1>2 DEF Genuine
  <2>2. ASSUME NEW d \in network' \ network PROVE Genuine(d)'
    <3>1. d.id = p /\ d.value = x /\ d.number = sends[p] + 1
      BY <1>1
    <3> QED BY <1>1, <1>2, <3>1 DEF Genuine
  <2> QED BY <2>1, <2>2
<1>4. \A q \in Udp!Processus : Entry(q)'
  BY <1>1, <1>2 DEF Entry
<1>5. Udp!Minimum(processusValues)' = Udp!Minimum(processusValues)
  BY <1>2 DEF Udp!Minimum
<1> QED BY <1>1, <1>2, <1>3, <1>4, <1>5

LEMMA ServeInv ==
  ASSUME UdpInv, NEW d \in network, Udp!Serve(d), network' \subseteq network
  PROVE  UdpInv'
<1> USE DEF UdpInv
<1> DEFINE values == [processusValues EXCEPT ![d.id] = d.value]
<1>1. /\ processusValues' = values /\ old_minimum' = Udp!Minimum(values)
      /\ served' = [served EXCEPT ![d.id] = d.number] /\ v' = v /\ sends' = sends
  BY DEF Udp!Serve
<1>2. Genuine(d) /\ d.number \in Nat
  BY DEF Genuine
<1>3. \A e \in network' : Genuine(e)'
  BY <1>1 DEF Genuine
<1>4. \A p \in Udp!Processus : Entry(p)'
  BY <1>1, <1>2 DEF Entry, Genuine
<1>5. old_minimum' = Udp!Minimum(processusValues)'
  BY <1>1 DEF Udp!Minimum
<1> QED BY <1>1, <1>2, <1>3, <1>4, <1>5 DEF Genuine

LEMMA UdpInvNext == UdpInv /\ [Udp!Next]_(Udp!minUdpVars) => UdpInv'
<1> SUFFICES ASSUME UdpInv, [Udp!Next]_(Udp!minUdpVars) PROVE UdpInv'
  OBVIOUS
<1>1. CASE Udp!Receive \/ Udp!Duplicate
  BY <1>1, ServeInv DEF Udp!Receive, Udp!Duplicate
<1>2. ASSUME Udp!Lose \/ UNCHANGED Udp!minUdpVars PROVE UdpInv'
  <2>1. /\ network' \subseteq network
        /\ UNCHANGED <<v, sends, processusValues, old_minimum, served>>
    BY <1>2 DEF Udp!Lose, Udp!minUdpVars
  <2> QED BY <2>1 DEF UdpInv, Genuine, Entry, Udp!Minimum
<1> QED BY <1>1, <1>2, SendInv DEF Udp!Next

\* When the last datagram of every client has been the last one received from it,
\* the printed minimum is that of the clients' values.
THEOREM PrintedMinimumIsCurrent == LabsSpec => []MinimumIsCurrent
<1>1. UdpInv => MinimumIsCurrent
  <2> SUFFICES ASSUME UdpInv, \A p \in Udp!Processus : sends[p] > 0 => served[p] = sends[p]
               PROVE  old_minimum = Udp!Min({v[p] : p \in Udp!Processus} \cup {INT_MAX})
    BY DEF MinimumIsCurrent, Udp!MinimumIsCurrent
  <2>1. \A p \in Udp!Processus : processusValues[p] = v[p]
    BY DEF UdpInv, Entry
  <2>2. {processusValues[p] : p \in Udp!Processus} = {v[p] : p \in Udp!Processus}
    BY <2>1
  <2> QED BY <2>2 DEF UdpInv, Udp!Minimum
<1> QED BY UdpInvInit, UdpInvNext, LabRuns, <1>1, PTL DEF LabsSpec

(***************************************************************************)
(* The minimum over TCP.  In a turn the server asks, then reads: what is   *)
(* on its way between it and a client that is there follows from how far   *)
(* its two loops have come.                                                *)
(***************************************************************************)
\* A property that the numbers inherit upwards from 0 is one of all of them.
LEMMA Upwards ==
  ASSUME NEW S, 0 \in S, \A m \in Nat : m \in S => m + 1 \in S
  PROVE  Nat \subseteq S
<1> DEFINE Bad == {m \in Nat : m \notin S}
<1> SUFFICES ASSUME Bad # {} PROVE FALSE
  OBVIOUS
<1>1. PICK m \in Bad : \A l \in Bad : ~(<<l, m>> \in OpToRel(<, Nat))
  <2>1. Bad \subseteq Nat
    OBVIOUS
  <2> HIDE DEF Bad
  <2> QED BY <2>1, NatLessThanWellFounded, WFMin
<1>2. \A l \in Bad : ~(l < m)
  BY <1>1 DEF OpToRel
<1>3. m # 0 /\ m - 1 \in Nat /\ m - 1 \in S
  BY <1>2
<1> QED BY <1>3

LEMMA TcpConstants == nb_clients \in Nat \ {0} /\ Draws \subseteq Int
BY LabsAssumption

\* The values of all clients have a minimum.
LEMMA LeastClient ==
  ASSUME NEW f \in [Tcp!Clients -> Int]
  PROVE  \E m \in Tcp!Clients : /\ \A c \in Tcp!Clients : f[m] <= f[c]
                                /\ Tcp!Min({f[c] : c \in Tcp!Clients}) = f[m]
<1> USE TcpConstants DEF Tcp!Clients
<1> DEFINE S == {j \in Nat : j + 1 <= nb_clients =>
                   \E m \in 1..(j + 1) : \A c \in 1..(j + 1) : f[m] <= f[c]}
<1>1. 0 \in S
  <2>1. \A c \in 1..(0 + 1) : c = 1
    OBVIOUS
  <2> QED BY <2>1
<1>2. ASSUME NEW j \in Nat, j \in S PROVE j + 1 \in S
  <2> SUFFICES ASSUME j + 2 <= nb_clients
               PROVE  \E m \in 1..(j + 2) : \A c \in 1..(j + 2) : f[m] <= f[c]
    OBVIOUS
  <2>1. PICK m \in 1..(j + 1) : \A c \in 1..(j + 1) : f[m] <= f[c]
    BY <1>2
  <2>4. /\ \A c \in 1..(j + 2) : f[c] \in Int /\ (c \in 1..(j + 1) \/ c = j + 2)
        /\ m \in 1..(j + 2) /\ j + 2 \in 1..(j + 2)
    OBVIOUS
  <2>2. CASE f[m] <= f[j + 2]
    BY <2>1, <2>2, <2>4
  <2>3. CASE ~(f[m] <= f[j + 2])
    <3>1. \A c \in 1..(j + 2) : f[j + 2] <= f[c]
      BY <2>1, <2>3, <2>4
    <3> QED BY <3>1, <2>4
  <2> QED BY <2>2, <2>3
<1>3. nb_clients - 1 \in S
  <2>1. nb_clients - 1 \in Nat
    BY TcpConstants
  <2>2. Nat \subseteq S
    <3> HIDE DEF S
    <3> QED BY <1>1, <1>2, Upwards
  <2> HIDE DEF S
  <2> QED BY <2>1, <2>2
<1>4. PICK m \in Tcp!Clients : \A c \in Tcp!Clients : f[m] <= f[c]
  BY <1>3
<1>5. Tcp!Min({f[c] : c \in Tcp!Clients}) = f[m]
  <2> DEFINE V == {f[c] : c \in Tcp!Clients}
  <2>1. f[m] \in V /\ \A y \in V : f[m] <= y
    BY <1>4
  <2>2. \A y \in V : y \in Int
    OBVIOUS
  <2> HIDE DEF V
  <2>3. \A x \in V : (\A y \in V : x <= y) => x = f[m]
    BY <2>1, <2>2
  <2>4. Tcp!Min(V) \in V /\ \A y \in V : Tcp!Min(V) <= y
    BY <2>1 DEF Tcp!Min
  <2>5. Tcp!Min(V) = f[m]
    BY <2>3, <2>4
  <2> QED BY <2>5 DEF V
<1> QED BY <1>4, <1>5

\* A turn of a loop of the server over its clients.
LEMMA LoopTurns ==
  ASSUME k \in Tcp!Clients, NEW from, NEW after, Tcp!Loop(from, after)
  PROVE  /\ spc = from /\ k' \in Tcp!Clients
         /\ \/ k' = k + 1 /\ spc' = from /\ \A c \in Tcp!Clients : (c < k' <=> (c < k \/ c = k))
            \/ k' = 1 /\ spc' = after /\ \A c \in Tcp!Clients : c < k \/ c = k
BY TcpConstants DEF Tcp!Loop, Tcp!Clients

\* The clients that were asked, and those that were read, in the present turn.
Asked == IF spc = "write" THEN {c \in Tcp!Clients : c < k}
         ELSE IF spc \in {"read", "minimum", "sleep"} THEN Tcp!Clients ELSE {}
Heard == IF spc = "read" THEN {c \in Tcp!Clients : c < k}
         ELSE IF spc \in {"minimum", "sleep"} THEN Tcp!Clients ELSE {}

Quiet(c) == requests[c] = 0 /\ answers[c] = <<>>
Given(c, x) == given[c].value = x /\ given[c].round = round

ClientOK(c) ==
  /\ conn[c] = "none" => Quiet(c) /\ (spc = "bind" \/ (spc = "accept" /\ ~(c < k)))
  /\ conn[c] = "open" =>
       \/ c \notin Asked /\ Quiet(c)
       \/ c \in Asked /\ c \notin Heard /\ requests[c] = 1 /\ answers[c] = <<>>
       \/ /\ c \in Asked /\ c \notin Heard /\ requests[c] = 0
          /\ \E x \in Int : answers[c] = <<x>> /\ Given(c, x)
       \/ c \in Heard /\ Quiet(c) /\ Given(c, response[c])

TcpTypes ==
  /\ spc \in {"bind", "accept", "write", "read", "minimum", "sleep", "killed"}
  /\ k \in Tcp!Clients /\ round \in Nat
  /\ response \in [Tcp!Clients -> Int]
  /\ conn \in [Tcp!Clients -> {"none", "open", "closed", "reset"}]
  /\ requests \in [Tcp!Clients -> Nat]
  /\ answers \in [Tcp!Clients -> Seq(Int)]
  /\ given \in [Tcp!Clients -> [value : Int, round : Nat]]

TcpInv ==
  /\ TcpTypes
  /\ spc # "killed" => \A c \in Tcp!Clients : ClientOK(c)
  /\ spc \in {"bind", "minimum", "sleep"} => k = 1
  /\ spc = "sleep" => min = Tcp!Min({response[c] : c \in Tcp!Clients})

LEMMA TcpInvInit == Tcp!Init => TcpInv
<1> SUFFICES ASSUME Tcp!Init PROVE TcpInv
  OBVIOUS
<1> USE LabsAssumption DEF Tcp!Init, Tcp!Clients
<1>1. TcpTypes
  BY DEF TcpTypes, Tcp!Nothing
<1>2. \A c \in Tcp!Clients : ClientOK(c)
  BY DEF ClientOK, Quiet
<1> QED BY <1>1, <1>2 DEF TcpInv

LEMMA TcpTypesNext == TcpTypes /\ [Tcp!Next]_(Tcp!minTcpVars) => TcpTypes'
<1> SUFFICES ASSUME TcpTypes, [Tcp!Next]_(Tcp!minTcpVars) PROVE TcpTypes'
  OBVIOUS
<1> USE TcpConstants DEF TcpTypes
<1>1. CASE Tcp!Bind \/ Tcp!BrokenPipe \/ Tcp!Sleep
  BY <1>1 DEF Tcp!Bind, Tcp!BrokenPipe, Tcp!Sleep
<1>10. CASE Tcp!Accept
  BY <1>10, LoopTurns DEF Tcp!Accept
<1>2. CASE Tcp!Write
  <2>1. /\ k' \in Tcp!Clients /\ spc' \in {"write", "read"}
        /\ UNCHANGED <<round, response, answers, given>>
    BY <1>2, LoopTurns DEF Tcp!Write
  <2>2. \/ requests' = [requests EXCEPT ![k] = requests[k] + 1] /\ conn' = conn
        \/ conn' = [conn EXCEPT ![k] = "reset"] /\ requests' = requests
    BY <1>2 DEF Tcp!Write
  <2>3. requests' \in [Tcp!Clients -> Nat]
    <3>1. requests[k] + 1 \in Nat
      OBVIOUS
    <3>2. CASE requests' = [requests EXCEPT ![k] = requests[k] + 1]
      BY <3>1, <3>2
    <3> QED BY <2>2, <3>2
  <2>4. conn' \in [Tcp!Clients -> {"none", "open", "closed", "reset"}]
    BY <2>2
  <2> QED BY <2>1, <2>3, <2>4
<1>3. CASE Tcp!Read
  <2>1. k' \in Tcp!Clients /\ spc' \in {"read", "minimum"}
    BY <1>3, LoopTurns DEF Tcp!Read
  <2>2. CASE answers[k] # <<>> /\ response' = [response EXCEPT ![k] = Head(answers[k])]
             /\ answers' = [answers EXCEPT ![k] = Tail(answers[k])]
    <3>1. Head(answers[k]) \in Int /\ Tail(answers[k]) \in Seq(Int)
      BY <2>2
    <3> QED BY <1>3, <2>1, <2>2, <3>1 DEF Tcp!Read
  <2>3. CASE /\ \E x \in Draws \cup {0, response[k]} : response' = [response EXCEPT ![k] = x]
             /\ UNCHANGED answers
    BY <1>3, <2>1, <2>3 DEF Tcp!Read
  <2> QED BY <1>3, <2>2, <2>3 DEF Tcp!Read
<1>4. CASE Tcp!Minimum
  BY <1>4 DEF Tcp!Minimum
<1>5. ASSUME NEW c \in Tcp!Clients, Tcp!Connect(c) PROVE TcpTypes'
  BY <1>5 DEF Tcp!Connect
<1>11. ASSUME NEW c \in Tcp!Clients, Tcp!Die(c) PROVE TcpTypes'
  BY <1>11 DEF Tcp!Die
<1>6. ASSUME NEW c \in Tcp!Clients, Tcp!Answer(c) PROVE TcpTypes'
  <2>1. PICK x \in Draws : /\ answers' = [answers EXCEPT ![c] = Append(answers[c], x)]
                           /\ given' = [given EXCEPT ![c] = [value |-> x, round |-> round]]
    BY <1>6 DEF Tcp!Answer
  <2>2. Append(answers[c], x) \in Seq(Int)
    OBVIOUS
  <2> QED BY <1>6, <2>1, <2>2 DEF Tcp!Answer
<1>7. CASE UNCHANGED Tcp!minTcpVars
  BY <1>7 DEF Tcp!minTcpVars
<1> QED BY <1>1, <1>2, <1>3, <1>4, <1>5, <1>6, <1>7, <1>10, <1>11 DEF Tcp!Next

LEMMA TcpInvNext == TcpInv /\ [Tcp!Next]_(Tcp!minTcpVars) => TcpInv'
<1> SUFFICES ASSUME TcpInv, [Tcp!Next]_(Tcp!minTcpVars) PROVE TcpInv'
  OBVIOUS
<1>t. TcpTypes /\ TcpTypes'
  BY TcpTypesNext DEF TcpInv
<1> SUFFICES ASSUME spc # "killed", spc' # "killed"
             PROVE  TcpInv'
  <2>1. spc = "killed" => spc' = "killed"
    BY DEF Tcp!Next, Tcp!minTcpVars, Tcp!Bind, Tcp!Accept, Tcp!Write, Tcp!BrokenPipe, Tcp!Read,
       Tcp!Loop, Tcp!Minimum, Tcp!Sleep, Tcp!Connect, Tcp!Answer, Tcp!Die
  <2>2. spc' = "killed" => TcpInv'
    BY <1>t DEF TcpInv
  <2> QED BY <2>1, <2>2
<1> USE DEF ClientOK, Quiet, Given, Asked, Heard
<1>c. \A c \in Tcp!Clients : ClientOK(c)
  BY DEF TcpInv
<1>1. CASE Tcp!Bind
  <2>1. /\ spc = "bind" /\ spc' = "accept"
        /\ UNCHANGED <<k, round, response, min, conn, requests, answers, given>>
    BY <1>1 DEF Tcp!Bind
  <2>3. k = 1 /\ \A c \in Tcp!Clients : ~(c < 1)
    BY <2>1, TcpConstants DEF TcpInv, Tcp!Clients
  <2>2. ASSUME NEW c \in Tcp!Clients PROVE ClientOK(c)'
    BY <1>c, <2>1, <2>3
  <2> QED BY <1>t, <2>1, <2>2 DEF TcpInv
<1>2. CASE Tcp!Accept
  <2>1. /\ k \in Tcp!Clients /\ conn[k] # "none" /\ spc = "accept"
        /\ UNCHANGED <<round, response, min, conn, requests, answers, given>>
        /\ \/ spc' = "accept" /\ \A c \in Tcp!Clients : (c < k' <=> (c < k \/ c = k))
           \/ k' = 1 /\ spc' = "write" /\ \A c \in Tcp!Clients : c < k \/ c = k
    BY <1>t, <1>2, LoopTurns DEF Tcp!Accept, TcpTypes
  <2>2. \A c \in Tcp!Clients : ~(c < 1)
    BY TcpConstants DEF Tcp!Clients
  <2>3. ASSUME NEW c \in Tcp!Clients PROVE ClientOK(c)'
    BY <1>c, <2>1, <2>2
  <2> QED BY <1>t, <2>1, <2>3 DEF TcpInv
<1>3. CASE Tcp!Write
  <2>1. /\ k \in Tcp!Clients /\ spc = "write"
        /\ UNCHANGED <<round, response, min, answers, given>>
        /\ \/ spc' = "write" /\ \A c \in Tcp!Clients : (c < k' <=> (c < k \/ c = k))
           \/ k' = 1 /\ spc' = "read" /\ \A c \in Tcp!Clients : c < k \/ c = k
        /\ IF conn[k] = "open"
             THEN requests' = [requests EXCEPT ![k] = requests[k] + 1] /\ conn' = conn
             ELSE conn' = [conn EXCEPT ![k] = "reset"] /\ requests' = requests
    BY <1>t, <1>3, LoopTurns DEF Tcp!Write, TcpTypes
  <2>2. /\ \A c \in Tcp!Clients : ~(c < 1) /\ ~(c < c)
        /\ DOMAIN requests = Tcp!Clients /\ DOMAIN conn = Tcp!Clients
    BY <1>t, TcpConstants DEF Tcp!Clients, TcpTypes
  <2>3. ASSUME NEW c \in Tcp!Clients PROVE ClientOK(c)'
    <3>1. CASE c = k
      BY <1>c, <2>1, <2>2, <3>1
    <3>2. CASE c # k
      BY <1>c, <2>1, <2>2, <3>2
    <3> QED BY <3>1, <3>2
  <2> QED BY <1>t, <2>1, <2>3 DEF TcpInv
<1>4. CASE Tcp!Read
  <2>1. /\ k \in Tcp!Clients /\ spc = "read"
        /\ UNCHANGED <<round, min, conn, requests, given>>
        /\ \/ spc' = "read" /\ \A c \in Tcp!Clients : (c < k' <=> (c < k \/ c = k))
           \/ k' = 1 /\ spc' = "minimum" /\ \A c \in Tcp!Clients : c < k \/ c = k
    BY <1>t, <1>4, LoopTurns DEF Tcp!Read, TcpTypes
  <2>2. /\ \A c \in Tcp!Clients : ~(c < 1) /\ ~(c < c)
        /\ DOMAIN response = Tcp!Clients /\ DOMAIN answers = Tcp!Clients
    BY <1>t, TcpConstants DEF Tcp!Clients, TcpTypes
  <2>3. /\ \A c \in Tcp!Clients : c # k => response'[c] = response[c] /\ answers'[c] = answers[c]
        /\ \/ response'[k] = Head(answers[k]) /\ answers'[k] = Tail(answers[k])
              /\ answers[k] # <<>>
           \/ conn[k] # "open"
    BY <2>1, <2>2, <1>4 DEF Tcp!Read
  <2>4. ASSUME NEW c \in Tcp!Clients PROVE ClientOK(c)'
    <3>1. CASE c = k /\ conn[k] = "open"
      <4>1. PICK x \in Int : answers[k] = <<x>> /\ Given(k, x) /\ requests[k] = 0
        BY <1>c, <2>1, <2>2, <2>3, <3>1
      <4>2. response'[k] = x /\ answers'[k] = <<>>
        BY <2>3, <3>1, <4>1
      <4> QED BY <2>1, <3>1, <4>1, <4>2
    <3>2. CASE c = k /\ conn[k] # "open"
      BY <1>c, <2>1, <2>2, <3>2
    <3>3. CASE c # k
      BY <1>c, <2>1, <2>2, <2>3, <3>3
    <3> QED BY <3>1, <3>2, <3>3
  <2> QED BY <1>t, <2>1, <2>4 DEF TcpInv
<1>5. CASE Tcp!Minimum
  <2>1. \A c \in Tcp!Clients : ClientOK(c)'
    BY <1>t, <1>c, <1>5 DEF Tcp!Minimum, TcpTypes
  <2> QED BY <1>t, <1>5, <2>1 DEF Tcp!Minimum, TcpInv
<1>6. CASE Tcp!Sleep
  <2>1. k = 1 /\ \A c \in Tcp!Clients : ~(c < 1)
    BY <1>6, TcpConstants DEF TcpInv, Tcp!Sleep, Tcp!Clients
  <2>2. \A c \in Tcp!Clients : ClientOK(c)'
    BY <1>t, <1>c, <1>6, <2>1 DEF TcpInv, Tcp!Sleep, TcpTypes
  <2> QED BY <1>t, <1>6, <2>2 DEF Tcp!Sleep, TcpInv
<1>7. ASSUME NEW d \in Tcp!Clients, Tcp!Connect(d) PROVE TcpInv'
  <2>1. /\ UNCHANGED <<spc, k, round, response, min, requests, answers, given>>
        /\ conn[d] = "none" /\ conn'[d] = "open"
        /\ \A c \in Tcp!Clients : c # d => conn'[c] = conn[c]
    BY <1>t, <1>7 DEF Tcp!Connect, TcpTypes
  <2>2. \A c \in Tcp!Clients : ClientOK(c)'
    BY <1>t, <1>c, <2>1
  <2> QED BY <1>t, <2>1, <2>2 DEF TcpInv
<1>10. ASSUME NEW d \in Tcp!Clients, Tcp!Die(d) PROVE TcpInv'
  <2>1. /\ UNCHANGED <<spc, k, round, response, min, answers, given>>
        /\ conn'[d] \in {"closed", "reset"}
        /\ \A c \in Tcp!Clients : c # d => conn'[c] = conn[c] /\ requests'[c] = requests[c]
    BY <1>t, <1>10 DEF Tcp!Die, TcpTypes
  <2>2. \A c \in Tcp!Clients : ClientOK(c)'
    BY <1>t, <1>c, <2>1
  <2> QED BY <1>t, <2>1, <2>2 DEF TcpInv
<1>8. ASSUME NEW d \in Tcp!Clients, Tcp!Answer(d) PROVE TcpInv'
  <2>1. PICK x \in Draws : /\ answers' = [answers EXCEPT ![d] = Append(answers[d], x)]
                           /\ given' = [given EXCEPT ![d] = [value |-> x, round |-> round]]
    BY <1>8 DEF Tcp!Answer
  <2>2. /\ UNCHANGED <<spc, k, round, response, min, conn>>
        /\ conn[d] = "open" /\ requests[d] > 0 /\ requests'[d] = 0
        /\ given'[d].value = x /\ given'[d].round = round /\ x \in Int
        /\ answers'[d] = Append(answers[d], x)
        /\ \A c \in Tcp!Clients : c # d => /\ requests'[c] = requests[c]
                                          /\ answers'[c] = answers[c] /\ given'[c] = given[c]
    BY <1>t, <1>8, <2>1, TcpConstants DEF Tcp!Answer, TcpTypes
  <2>3. ASSUME NEW c \in Tcp!Clients PROVE ClientOK(c)'
    <3>1. CASE c = d
      <4>1. d \in Asked /\ d \notin Heard /\ answers[d] = <<>>
        BY <1>c, <2>2
      <4>2. answers'[d] = <<x>>
        BY <2>2, <4>1
      <4> QED BY <2>2, <3>1, <4>1, <4>2
    <3>2. CASE c # d
      BY <1>c, <2>2, <3>2
    <3> QED BY <3>1, <3>2
  <2> QED BY <1>t, <2>2, <2>3 DEF TcpInv
<1>9. CASE UNCHANGED Tcp!minTcpVars
  BY <1>t, <1>9 DEF Tcp!minTcpVars, TcpInv
<1> QED BY <1>1, <1>2, <1>3, <1>4, <1>5, <1>6, <1>7, <1>8, <1>9, <1>10
  DEF Tcp!Next, Tcp!BrokenPipe

\* The minimum printed in a turn misses no client that is there, and is one of this
\* turn's values while nobody has died, whenever clients connect, answer and die.
THEOREM TurnMinimumIsSound == LabsSpec => []MinimumOfRound
<1>1. TcpInv => MinimumOfRound
  <2> SUFFICES ASSUME TcpInv, spc = "sleep" PROVE Tcp!MinimumOfRound
    BY DEF MinimumOfRound, Tcp!MinimumOfRound
  <2>1. \A c \in Tcp!Clients : conn[c] = "open" => Given(c, response[c])
    BY DEF TcpInv, ClientOK, Asked, Heard
  <2>2. PICK m \in Tcp!Clients : /\ \A c \in Tcp!Clients : response[m] <= response[c]
                                 /\ Tcp!Min({response[c] : c \in Tcp!Clients}) = response[m]
    BY LeastClient DEF TcpInv, TcpTypes
  <2>3. min = response[m]
    BY <2>2 DEF TcpInv
  <2> QED BY <2>1, <2>2, <2>3 DEF Tcp!MinimumOfRound, Given
<1> QED BY TcpInvInit, TcpInvNext, LabRuns, <1>1, PTL DEF LabsSpec

(***************************************************************************)
(* The convolution: t lines over n processes.  Everyone gets t \div n of   *)
(* them and the processes after the first one more until none remains, so  *)
(* that the lines of a process begin where those of the one before end.    *)
(***************************************************************************)
Lines(t, n, p) == (t \div n) + (IF p \in 1..(t % n) THEN 1 ELSE 0)
Before(t, n, p) ==
  (t \div n) * p + (IF p = 0 THEN 0 ELSE IF p - 1 <= t % n THEN p - 1 ELSE t % n)

LEMMA SharesAddUp ==
  ASSUME NEW t \in Nat, NEW n \in Nat \ {0}
  PROVE  /\ \A p \in Nat : Lines(t, n, p) \in Nat /\ Before(t, n, p) \in Nat
         /\ \A p \in Nat : Before(t, n, p + 1) = Before(t, n, p) + Lines(t, n, p)
         /\ Before(t, n, 0) = 0 /\ Before(t, n, n) = t
         /\ Lines(t, n, 0) = t \div n
         /\ t % n \in Nat /\ t \div n \in Nat
<1> DEFINE q == t \div n
           r == t % n
<1>1. t = q * n + r /\ r \in 0..(n - 1) /\ q \in Nat
  OBVIOUS
<1> HIDE DEF q, r
<1>e. \A p \in Nat :
        /\ Lines(t, n, p) = q + (IF p \in 1..r THEN 1 ELSE 0)
        /\ Before(t, n, p) =
             q * p + (IF p = 0 THEN 0 ELSE IF p - 1 <= r THEN p - 1 ELSE r)
  BY DEF Lines, Before, q, r
<1>f. t % n = r /\ t \div n = q
  BY DEF q, r
<1>2. r \in Nat /\ q \in Nat
  BY <1>1
<1>3. \A p \in Nat : q * p \in Nat /\ q * (p + 1) = q * p + q
  BY <1>2
<1>4. q * 0 = 0
  BY <1>2
<1>5. \A p \in Nat : Lines(t, n, p) \in Nat /\ Before(t, n, p) \in Nat
  BY <1>2, <1>3, <1>e
<1>6. ASSUME NEW p \in Nat PROVE Before(t, n, p + 1) = Before(t, n, p) + Lines(t, n, p)
  <2>1. p + 1 \in Nat /\ p + 1 # 0 /\ p + 1 - 1 = p
    OBVIOUS
  <2>2. Before(t, n, p + 1) = (q * p + q) + (IF p <= r THEN p ELSE r)
    BY <1>3, <1>e, <2>1
  <2>3. q * p \in Nat
    BY <1>3
  <2>4. Before(t, n, p) = q * p + (IF p = 0 THEN 0 ELSE IF p - 1 <= r THEN p - 1 ELSE r)
    BY <1>e
  <2>5. Lines(t, n, p) = q + (IF p \in 1..r THEN 1 ELSE 0)
    BY <1>e
  <2> QED BY <1>2, <2>2, <2>3, <2>4, <2>5
<1>7. Before(t, n, 0) = 0 /\ Lines(t, n, 0) = q
  BY <1>2, <1>4, <1>e
<1>8. Before(t, n, n) = t
  BY <1>1, <1>e
<1> QED BY <1>2, <1>5, <1>6, <1>7, <1>8, <1>f

LEMMA SharesInOrder ==
  ASSUME NEW t \in Nat, NEW n \in Nat \ {0}, NEW p \in 0..(n - 1)
  PROVE  /\ \A s \in 0..(n - 1) : p < s => Before(t, n, p) + Lines(t, n, p) <= Before(t, n, s)
         /\ Before(t, n, p) + Lines(t, n, p) <= t
<1> DEFINE S == {j \in Nat : Before(t, n, p + 1) <= Before(t, n, p + 1 + j)}
<1>1. 0 \in S
  <2>1. Before(t, n, p + 1) \in Nat
    BY SharesAddUp
  <2> QED BY <2>1
<1>2. ASSUME NEW j \in Nat, j \in S PROVE j + 1 \in S
  <2>0. p + 1 \in Nat /\ p + 1 + j \in Nat
    OBVIOUS
  <2>1. /\ Before(t, n, p + 1) \in Nat /\ Before(t, n, p + 1 + j) \in Nat
        /\ Lines(t, n, p + 1 + j) \in Nat
        /\ Before(t, n, p + 1 + j + 1) = Before(t, n, p + 1 + j) + Lines(t, n, p + 1 + j)
    BY <2>0, SharesAddUp
  <2>2. p + 1 + (j + 1) = p + 1 + j + 1
    OBVIOUS
  <2> QED BY <1>2, <2>1, <2>2
<1>3. \A j \in Nat : Before(t, n, p + 1) <= Before(t, n, p + 1 + j)
  <2>1. Nat \subseteq S
    <3> HIDE DEF S
    <3> QED BY <1>1, <1>2, Upwards
  <2> QED BY <2>1
<1>4. Before(t, n, p + 1) = Before(t, n, p) + Lines(t, n, p)
  BY SharesAddUp
<1>5. ASSUME NEW s \in 0..n, p < s PROVE Before(t, n, p) + Lines(t, n, p) <= Before(t, n, s)
  <2>1. s - (p + 1) \in Nat /\ p + 1 + (s - (p + 1)) = s
    BY <1>5
  <2> QED BY <1>3, <1>4, <2>1
<1>6. Before(t, n, n) = t
  BY SharesAddUp
<1> QED BY <1>5, <1>6

\* Every line is the share of some process.
LEMMA SharesCover ==
  ASSUME NEW t \in Nat, NEW n \in Nat \ {0}, NEW y \in 1..t
  PROVE  \E p \in 0..(n - 1) :
           y \in (Before(t, n, p) + 1)..(Before(t, n, p) + Lines(t, n, p))
<1> DEFINE S == {j \in Nat : j <= n /\ y <= Before(t, n, j) =>
                   \E p \in 0..(j - 1) : Before(t, n, p) < y /\ y <= Before(t, n, p + 1)}
<1>1. 0 \in S
  BY SharesAddUp
<1>2. ASSUME NEW j \in Nat, j \in S PROVE j + 1 \in S
  <2> SUFFICES ASSUME j + 1 <= n, y <= Before(t, n, j + 1)
               PROVE  \E p \in 0..j : Before(t, n, p) < y /\ y <= Before(t, n, p + 1)
    OBVIOUS
  <2>1. Before(t, n, j) \in Nat
    BY SharesAddUp
  <2>2. CASE Before(t, n, j) < y
    BY <2>2
  <2>3. CASE y <= Before(t, n, j)
    BY <1>2, <2>3
  <2> QED BY <2>1, <2>2, <2>3
<1>3. n \in S
  <2> HIDE DEF S
  <2> QED BY <1>1, <1>2, Upwards
<1>4. y <= Before(t, n, n)
  BY SharesAddUp
<1>5. PICK p \in 0..(n - 1) : Before(t, n, p) < y /\ y <= Before(t, n, p + 1)
  BY <1>3, <1>4
<1>6. /\ Before(t, n, p + 1) = Before(t, n, p) + Lines(t, n, p)
      /\ Before(t, n, p) \in Nat /\ Lines(t, n, p) \in Nat
  BY SharesAddUp
<1> QED BY <1>5, <1>6

L(p) == Lines(ih - 3, nb_process, p)
B(p) == Before(ih - 3, nb_process, p)

\* The counts and the displacement of p, in pixels and in lines.
Shared(p) ==
  /\ sendcounts[p] = (L(p) + 2) * w /\ displs_send[p] = B(p) * w
  /\ nb_lines[p] = L(p) + 2

Received(p) == chunk[p] = B(p)..(B(p) + L(p) + 1)

Own(p) == (B(p) + 1)..(B(p) + L(p))

Landed(p) ==
  /\ gathered[p] = (B(p) * w + (IF p = 0 THEN 0 ELSE 1))
                     ..(B(p) * w + (IF p = 0 THEN 0 ELSE 1) + L(p) * w - 1)
  /\ p # 0 => sendcounts[p] = (nb_lines[p] - 2) * w

ImageInv ==
  /\ ih \in Nat \ (0..2) /\ w \in Nat \ {0} /\ nb_process \in Nat \ {0}
  /\ place \in {"share", "compute", "done"}
  /\ next \in 1..nb_process
  /\ nb_elem_remain = ((ih - 3) % nb_process) - (next - 1)
  /\ DOMAIN sendcounts = Image!Ranks /\ DOMAIN displs_send = Image!Ranks
  /\ DOMAIN nb_lines = Image!Ranks
  /\ computed \in [Image!Ranks -> SUBSET Int]
  /\ place = "share" => \A p \in Image!Ranks : computed[p] = {} /\ (p < next => Shared(p))
  /\ place = "compute" => \A p \in Image!Ranks :
       Shared(p) /\ Received(p) /\ computed[p] \in {{}, Own(p)}
  /\ place = "done" => \A p \in Image!Ranks : Landed(p) /\ computed[p] = Own(p)

LEMMA SizesOK ==
  ASSUME ih \in Nat \ (0..2), nb_process \in Nat \ {0}, w \in Nat \ {0}
  PROVE  /\ ih - 3 \in Nat /\ 0 \in Image!Ranks /\ Image!Ranks \subseteq Nat
         /\ \A p \in Nat : /\ B(p) \in Nat /\ L(p) \in Nat /\ B(p + 1) = B(p) + L(p)
                           /\ B(p) * w \in Nat /\ L(p) * w \in Nat
                           /\ (B(p) + L(p)) * w = B(p) * w + L(p) * w
                           /\ (L(p) + 2) * w = L(p) * w + 2 * w
         /\ L(0) = Image!nb_elem_to_handle /\ B(0) = 0
         /\ \A p \in Nat \ {0} : L(p) = Image!nb_elem_to_handle +
                                 (IF ((ih - 3) % nb_process) - (p - 1) > 0 THEN 1 ELSE 0)
         /\ (ih - 3) % nb_process \in Nat /\ Image!nb_elem_to_handle \in Nat
<1> DEFINE t == ih - 3
<1>1. t \in Nat /\ 0 \in Image!Ranks /\ Image!Ranks \subseteq Nat
  BY DEF Image!Ranks
<1>2. \A p \in Nat : B(p) \in Nat /\ L(p) \in Nat /\ B(p + 1) = B(p) + L(p)
  BY <1>1, SharesAddUp DEF B, L
<1>3. ASSUME NEW b \in Nat, NEW l \in Nat
      PROVE  /\ b * w \in Nat /\ l * w \in Nat
             /\ (b + l) * w = b * w + l * w
             /\ (l + 2) * w = l * w + 2 * w
  OBVIOUS
<1>4. L(0) = Image!nb_elem_to_handle /\ B(0) = 0
  BY <1>1, SharesAddUp DEF B, L, Image!nb_elem_to_handle
<1>5. (ih - 3) % nb_process \in Nat /\ Image!nb_elem_to_handle \in Nat
  BY <1>1, SharesAddUp DEF Image!nb_elem_to_handle
<1>6. \A p \in Nat \ {0} : L(p) = Image!nb_elem_to_handle +
        (IF ((ih - 3) % nb_process) - (p - 1) > 0 THEN 1 ELSE 0)
  BY <1>5 DEF L, Lines, Image!nb_elem_to_handle
<1> QED BY <1>1, <1>2, <1>3, <1>4, <1>5, <1>6

LEMMA ImageInvInit == Image!Init => ImageInv
<1> SUFFICES ASSUME Image!Init PROVE ImageInv
  OBVIOUS
<1>1. ih \in Nat \ (0..2) /\ w \in Nat \ {0} /\ nb_process \in Nat \ {0}
  BY LabsAssumption DEF Image!Init
<1>2. \A p \in Image!Ranks : p < 1 => p = 0
  BY <1>1, SizesOK
<1>3. Shared(0)
  <2>1. /\ sendcounts[0] = (Image!nb_elem_to_handle + 2) * w /\ displs_send[0] = 0
        /\ nb_lines[0] = Image!nb_elem_to_handle + 2
    BY <1>1, SizesOK DEF Image!Init
  <2>2. 0 * w = 0
    BY <1>1
  <2> QED BY <1>1, <2>1, <2>2, SizesOK DEF Shared
<1>4. \A p \in Image!Ranks : computed[p] = {}
  BY DEF Image!Init
<1>5. computed \in [Image!Ranks -> SUBSET Int]
  BY DEF Image!Init
<1>6. /\ place = "share" /\ next = 1 /\ next \in 1..nb_process
      /\ nb_elem_remain = ((ih - 3) % nb_process) - (next - 1)
      /\ DOMAIN sendcounts = Image!Ranks /\ DOMAIN displs_send = Image!Ranks
      /\ DOMAIN nb_lines = Image!Ranks
  BY <1>1, SizesOK DEF Image!Init
<1> QED BY <1>1, <1>2, <1>3, <1>4, <1>5, <1>6 DEF ImageInv

LEMMA ImageFrame ==
  ASSUME UNCHANGED <<ih, w, nb_process>>
  PROVE  /\ Image!Ranks' = Image!Ranks
         /\ \A p : L(p)' = L(p) /\ B(p)' = B(p) /\ Own(p)' = Own(p)
BY DEF Image!Ranks, L, B, Own

LEMMA ShareInv == ASSUME ImageInv, Image!Share PROVE ImageInv'
<1> USE DEF ImageInv
<1>s. UNCHANGED <<ih, w, nb_process>>
  BY DEF Image!Share
<1>1. /\ next \in Image!Ranks /\ next - 1 \in Image!Ranks /\ next \in Nat \ {0}
      /\ next' = next + 1 /\ next' \in 1..nb_process /\ place = "share"
  BY DEF Image!Share, Image!Ranks
<1>2. Shared(next - 1)
  BY <1>1
<1>3. L(next) = Image!nb_elem_to_handle + Image!Extra
  BY <1>1, SizesOK DEF Image!Extra
<1>4. /\ nb_lines' = [nb_lines EXCEPT ![next] = L(next) + 2]
      /\ sendcounts' = [sendcounts EXCEPT ![next] = (L(next) + 2) * w]
  <2>1. 2 + Image!nb_elem_to_handle + Image!Extra = L(next) + 2
    <3>1. Image!nb_elem_to_handle \in Nat
      BY SizesOK
    <3>2. Image!Extra \in Nat
      BY DEF Image!Extra
    <3> QED BY <1>3, <3>1, <3>2
  <2>2. nb_lines' = [nb_lines EXCEPT ![next] = L(next) + 2]
    BY <2>1 DEF Image!Share
  <2>3. nb_lines'[next] = L(next) + 2
    BY <1>1, <2>2
  <2> QED BY <2>2, <2>3 DEF Image!Share
<1>5. displs_send' = [displs_send EXCEPT ![next] = B(next) * w]
  <2> DEFINE b == B(next - 1)
             l == L(next - 1)
  <2>1. /\ b \in Nat /\ l \in Nat /\ b * w \in Nat /\ l * w \in Nat /\ 2 * w \in Nat
        /\ (b + l) * w = b * w + l * w /\ (l + 2) * w = l * w + 2 * w
        /\ B(next) = b + l
    <3>1. next - 1 \in Nat /\ (next - 1) + 1 = next
      BY <1>1
    <3>2. 2 * w \in Nat
      OBVIOUS
    <3> QED BY <3>1, <3>2, SizesOK
  <2>2. displs_send[next - 1] + sendcounts[next - 1] - 2 * w = b * w + (l + 2) * w - 2 * w
    BY <1>2 DEF Shared
  <2> HIDE DEF b, l
  <2>3. b * w + (l + 2) * w - 2 * w = B(next) * w
    BY <2>1
  <2> QED BY <2>2, <2>3 DEF Image!Share
<1>6. ASSUME NEW p \in Image!Ranks, p < next + 1 PROVE Shared(p)'
  <2>1. CASE p = next
    BY <1>s, <1>1, <1>4, <1>5, <2>1, ImageFrame DEF Shared
  <2>2. CASE p # next
    <3>1. p < next
      BY <1>1, <1>6, <2>2, SizesOK
    <3>2. Shared(p)
      BY <1>1, <3>1
    <3> QED BY <1>s, <1>4, <1>5, <2>2, <3>2, ImageFrame DEF Shared
  <2> QED BY <2>1, <2>2
<1>7. /\ place' = "share" /\ computed' = computed
      /\ nb_elem_remain' = ((ih - 3) % nb_process) - (next' - 1)
  BY <1>1, SizesOK DEF Image!Share
<1> QED BY <1>s, <1>1, <1>4, <1>5, <1>6, <1>7, ImageFrame

LEMMA ScatterInv == ASSUME ImageInv, Image!Scatter PROVE ImageInv'
<1> USE DEF ImageInv
<1>s. UNCHANGED <<ih, w, nb_process, next, nb_elem_remain, sendcounts, displs_send, nb_lines, computed>>
  BY DEF Image!Scatter
<1>1. /\ place = "share" /\ place' = "compute" /\ next = nb_process
      /\ chunk' = [p \in Image!Ranks |-> (displs_send[p] \div w)
                                         ..((displs_send[p] + sendcounts[p]) \div w - 1)]
  BY DEF Image!Scatter
<1>2. ASSUME NEW p \in Image!Ranks
      PROVE  Shared(p)' /\ Received(p)' /\ computed'[p] = {}
  <2>1. Shared(p) /\ computed[p] = {} /\ p \in Nat
    BY <1>1 DEF Image!Ranks
  <2> DEFINE b == B(p)
             l == L(p)
  <2>2. /\ b \in Nat /\ l \in Nat /\ b * w \in Nat
        /\ displs_send[p] = b * w /\ sendcounts[p] = (l + 2) * w
    BY <2>1, SizesOK DEF Shared
  <2> HIDE DEF b, l
  <2>3. b * w + (l + 2) * w = (b + l + 2) * w
    BY <2>2
  <2>4. (b * w) \div w = b
    BY <2>2
  <2>5. ((b + l + 2) * w) \div w = b + l + 2
    BY <2>2
  <2>6. chunk'[p] = b..(b + l + 2 - 1)
    BY <1>1, <2>2, <2>3, <2>4, <2>5
  <2>7. chunk'[p] = b..(b + l + 1)
    BY <2>2, <2>6
  <2>8. Received(p)'
    BY <1>s, <2>7, ImageFrame DEF Received, b, l
  <2> QED BY <1>s, <2>1, <2>8, ImageFrame DEF Shared
<1> QED BY <1>s, <1>1, <1>2, ImageFrame

LEMMA ComputeInv == ASSUME ImageInv, NEW r \in Image!Ranks, Image!Compute(r) PROVE ImageInv'
<1> USE DEF ImageInv
<1>s. UNCHANGED <<ih, w, nb_process, place, next, nb_elem_remain, sendcounts, displs_send,
                  nb_lines, chunk, gathered>>
  BY DEF Image!Compute
<1>1. place = "compute" /\ Received(r) /\ r \in Nat
  BY DEF Image!Compute, Image!Ranks
<1>2. computed' = [computed EXCEPT ![r] = Own(r)]
  <2>1. B(r) \in Nat /\ L(r) \in Nat
    BY <1>1, SizesOK
  <2>2. {y \in chunk[r] : y - 1 \in chunk[r] /\ y + 1 \in chunk[r]} = Own(r)
    BY <1>1, <2>1 DEF Received, Own
  <2> QED BY <2>2 DEF Image!Compute
<1>3. Own(r) \subseteq Int
  BY DEF Own
<1>4. \A p \in Image!Ranks : Shared(p)' /\ Received(p)' /\ computed'[p] \in {{}, Own(p)}
  BY <1>s, <1>1, <1>2, ImageFrame DEF Shared, Received
<1> QED BY <1>s, <1>1, <1>2, <1>3, <1>4, ImageFrame

LEMMA GatherInv == ASSUME ImageInv, Image!Gather PROVE ImageInv'
<1> USE DEF ImageInv
<1>s. UNCHANGED <<ih, w, nb_process, next, nb_elem_remain, nb_lines, chunk, computed>>
  BY DEF Image!Gather
<1>1. place = "compute" /\ place' = "done"
  BY DEF Image!Gather
<1>2. ASSUME NEW p \in Image!Ranks PROVE Landed(p)' /\ computed[p] = Own(p)
  <2>1. /\ Shared(p) /\ computed[p] \in {{}, Own(p)} /\ p \in Nat
        /\ computed[p] # {} \/ nb_lines[p] = 2
    BY <1>1 DEF Image!Gather, Image!Ranks
  <2>2. /\ B(p) \in Nat /\ L(p) \in Nat /\ B(p) * w \in Nat /\ L(p) * w \in Nat
        /\ (L(p) + 2) * w = L(p) * w + 2 * w
    BY <2>1, SizesOK
  <2>3. computed[p] = Own(p)
    <3>1. CASE L(p) = 0
      <4>1. Own(p) = {}
        BY <2>2, <3>1 DEF Own
      <4> QED BY <2>1, <4>1
    <3>2. CASE L(p) # 0
      <4>1. nb_lines[p] # 2
        BY <2>1, <2>2, <3>2 DEF Shared
      <4> QED BY <2>1, <4>1
    <3> QED BY <3>1, <3>2
  <2>8. /\ displs_send'[p] = IF p = 0 THEN displs_send[p] ELSE displs_send[p] + 1
        /\ sendcounts'[p] = IF p = 0 THEN sendcounts[p] ELSE sendcounts[p] - 2 * w
        /\ gathered'[p] = displs_send'[p]..(displs_send'[p] + (nb_lines[p] - 2) * w - 1)
    BY DEF Image!Gather
  <2>4. displs_send'[p] = B(p) * w + (IF p = 0 THEN 0 ELSE 1)
    BY <2>1, <2>2, <2>8 DEF Shared
  <2>5. nb_lines[p] - 2 = L(p)
    BY <2>1, <2>2 DEF Shared
  <2>6. p # 0 => sendcounts'[p] = L(p) * w
    <3>1. 2 * w \in Nat
      OBVIOUS
    <3> QED BY <2>1, <2>2, <2>8, <3>1 DEF Shared
  <2>7. Landed(p)'
    BY <1>s, <2>4, <2>5, <2>6, <2>8, ImageFrame DEF Landed
  <2> QED BY <2>3, <2>7
<1>3. DOMAIN sendcounts' = Image!Ranks /\ DOMAIN displs_send' = Image!Ranks
  BY DEF Image!Gather
<1> QED BY <1>s, <1>1, <1>2, <1>3, ImageFrame

LEMMA ImageInvNext == ImageInv /\ [Image!Next]_(Image!partitionVars) => ImageInv'
<1> SUFFICES ASSUME ImageInv, [Image!Next]_(Image!partitionVars) PROVE ImageInv'
  OBVIOUS
<1>1. ASSUME UNCHANGED Image!partitionVars PROVE ImageInv'
  BY <1>1 DEF Image!partitionVars, ImageInv, Image!Ranks, L, B, Own, Shared, Received, Landed
<1> QED BY <1>1, ShareInv, ScatterInv, ComputeInv, GatherInv DEF Image!Next

\* Every line inside the image is computed by exactly one process and no result is laid
\* over another or out of the image, for images of any size over any number of processes.
THEOREM EveryLineIsComputedOnce == LabsSpec => []EveryLineOnce
<1>1. ImageInv => EveryLineOnce
  <2> SUFFICES ASSUME ImageInv, place = "done" PROVE Image!EveryLineOnce
    BY DEF EveryLineOnce, Image!EveryLineOnce
  <2> USE DEF ImageInv
  <2> DEFINE t == ih - 3
             n == nb_process
             Pos(p) == B(p) * w
             Len1(p) == L(p) * w
  <2>0. t \in Nat /\ n \in Nat \ {0} /\ Image!Ranks = 0..(n - 1)
    BY DEF Image!Ranks
  <2>1. \A p \in Image!Ranks : computed[p] = Own(p) /\ Landed(p)
    OBVIOUS
  <2>2. \A p \in Image!Ranks : B(p) \in Nat /\ L(p) \in Nat /\ B(p) + L(p) <= t
    BY <2>0, SharesInOrder, SizesOK DEF B, L
  <2>3. \A p, q \in Image!Ranks : p < q => B(p) + L(p) <= B(q)
    BY <2>0, SharesInOrder DEF B, L
  <2>4. ASSUME NEW y \in 1..t
        PROVE  \E p \in Image!Ranks : \A q \in Image!Ranks : y \in computed[q] <=> p = q
    <3>1. PICK p \in Image!Ranks : y \in Own(p)
      BY <2>0, SharesCover DEF Own, B, L
    <3>2. ASSUME NEW q \in Image!Ranks, q # p PROVE y \notin Own(q)
      <4>1. p < q \/ q < p
        BY <2>0, <3>2
      <4> QED BY <2>2, <2>3, <3>1, <4>1 DEF Own
    <3> QED BY <2>1, <3>1, <3>2
  <2>5. \A p \in Image!Ranks : computed[p] \subseteq 1..t
    <3> SUFFICES ASSUME NEW p \in Image!Ranks, NEW y \in Own(p) PROVE y \in 1..t
      BY <2>1
    <3>1. y \in Int /\ B(p) + 1 <= y /\ y <= B(p) + L(p)
      BY <2>2 DEF Own
    <3>2. B(p) \in Nat /\ L(p) \in Nat /\ B(p) + L(p) <= t /\ t \in Nat
      BY <2>0, <2>2
    <3> HIDE DEF t
    <3> QED BY <3>1, <3>2
  <2>6. /\ \A p \in Image!Ranks : Pos(p) \in Nat /\ Len1(p) \in Nat
        /\ \A p, q \in Image!Ranks : p < q => Pos(p) + Len1(p) <= Pos(q)
        /\ \A p \in Image!Ranks : Pos(p) + Len1(p) <= t * w
    <3>1. ASSUME NEW b \in Nat, NEW l \in Nat, NEW c \in Nat, b + l <= c
          PROVE  b * w \in Nat /\ l * w \in Nat /\ b * w + l * w <= c * w
      <4>1. (b + l) * w <= c * w
        BY <3>1
      <4> QED BY <4>1
    <3> QED BY <2>0, <2>2, <2>3, <3>1
  <2>7. t * w \in Nat /\ ih * w \in Nat /\ t * w + 1 <= ih * w
    <3>1. t * w + 3 * w = ih * w /\ 3 * w >= 3
      BY <2>0
    <3> QED BY <2>0, <3>1
  <2>8. \A p \in Image!Ranks :
          gathered[p] = (Pos(p) + (IF p = 0 THEN 0 ELSE 1))
                          ..(Pos(p) + (IF p = 0 THEN 0 ELSE 1) + Len1(p) - 1)
    BY <2>1 DEF Landed
  <2> HIDE DEF Pos, Len1, t
  <2>9. \A p \in Image!Ranks : gathered[p] \subseteq 0..(ih * w - 1)
    <3> SUFFICES ASSUME NEW p \in Image!Ranks, NEW y \in gathered[p] PROVE y \in 0..(ih * w - 1)
      OBVIOUS
    <3>1. Pos(p) \in Nat /\ Len1(p) \in Nat /\ Pos(p) + Len1(p) <= t * w
      BY <2>6
    <3>2. y \in Int /\ Pos(p) <= y /\ y <= Pos(p) + Len1(p)
      <4> DEFINE e == IF p = 0 THEN 0 ELSE 1
      <4>1. e \in {0, 1} /\ y \in (Pos(p) + e)..(Pos(p) + e + Len1(p) - 1)
        BY <2>8
      <4> HIDE DEF e
      <4> QED BY <3>1, <4>1
    <3> DEFINE all == t * w
               room == ih * w
    <3>3. all \in Nat /\ room \in Nat /\ all + 1 <= room /\ Pos(p) + Len1(p) <= all
      BY <2>7, <3>1
    <3> HIDE DEF all, room
    <3>4. y \in 0..(room - 1)
      BY <3>1, <3>2, <3>3
    <3> QED BY <3>4 DEF room
  <2>10. ASSUME NEW p \in Image!Ranks, NEW q \in Image!Ranks, p < q
         PROVE  gathered[p] \cap gathered[q] = {}
    <3>1. Pos(p) + Len1(p) <= Pos(q) /\ q # 0
      BY <2>0, <2>6, <2>10
    <3>2. Pos(p) \in Nat /\ Len1(p) \in Nat /\ Pos(q) \in Nat /\ Len1(q) \in Nat
      BY <2>6
    <3>3. \A y \in gathered[p] : y \in Int /\ y <= Pos(p) + Len1(p)
      BY <2>8, <3>2
    <3>4. \A y \in gathered[q] : y \in Int /\ Pos(q) + 1 <= y
      BY <2>8, <3>1, <3>2
    <3> QED BY <3>1, <3>2, <3>3, <3>4
  <2>11. \A p, q \in Image!Ranks : p # q => gathered[p] \cap gathered[q] = {}
    <3>1. \A p, q \in Image!Ranks : p # q => p < q \/ q < p
      BY <2>0
    <3> QED BY <2>10, <3>1
  <2>12. \A p \in Image!Ranks \ {0} : sendcounts[p] = (nb_lines[p] - 2) * w
    BY <2>1 DEF Landed
  <2> QED BY <2>4, <2>5, <2>9, <2>11, <2>12 DEF Image!EveryLineOnce, t
<1> QED BY ImageInvInit, ImageInvNext, LabRuns, <1>1, PTL DEF LabsSpec

(***************************************************************************)
(* The parallel filter.  What the master sends to a worker, and a worker   *)
(* to the master, is a fixed stream; a channel holds what has been sent    *)
(* and not been received of it.                                            *)
(***************************************************************************)
IsSeq(s) == Len(s) \in Nat /\ s = [j \in 1..Len(s) |-> s[j]]

\* s holds the elements a + 1 to b of the stream f.
Segment(s, f, a, b) ==
  /\ IsSeq(s) /\ a \in Nat /\ b \in Nat
  /\ Len(s) = b - a
  /\ \A j \in 1..Len(s) : s[j] = f[a + j]

LEMMA SegmentEmpty == ASSUME NEW f PROVE Segment(<<>>, f, 0, 0)
BY DEF Segment, IsSeq

LEMMA SegmentAppend ==
  ASSUME NEW s, NEW f, NEW a, NEW b, Segment(s, f, a, b)
  PROVE  Segment(Append(s, f[b + 1]), f, a, b + 1)
<1> DEFINE S == {s[j] : j \in 1..Len(s)} \cup {f[b + 1]}
           t == Append(s, f[b + 1])
<1>1. s \in Seq(S) /\ f[b + 1] \in S /\ Len(s) = b - a /\ a \in Nat /\ b \in Nat
  BY DEF Segment, IsSeq
<1>2. /\ Len(t) = Len(s) + 1 /\ t = [j \in 1..Len(t) |-> t[j]]
      /\ \A j \in 1..Len(s) : t[j] = s[j]
      /\ t[Len(s) + 1] = f[b + 1]
  <2> HIDE DEF S
  <2> QED BY <1>1
<1> HIDE DEF t
<1>3. \A j \in 1..Len(s) : s[j] = f[a + j]
  BY DEF Segment
<1>4. \A j \in 1..Len(t) : t[j] = f[a + j]
  <2> SUFFICES ASSUME NEW j \in 1..Len(t) PROVE t[j] = f[a + j]
    OBVIOUS
  <2>1. j \in 1..Len(s) \/ (j = Len(s) + 1 /\ a + j = b + 1)
    BY <1>1, <1>2
  <2> QED BY <1>2, <1>3, <2>1
<1> QED BY <1>1, <1>2, <1>4 DEF Segment, IsSeq, t

LEMMA SegmentTail ==
  ASSUME NEW s, NEW f, NEW a, NEW b, Segment(s, f, a, b), s # <<>>
  PROVE  a < b /\ Head(s) = f[a + 1] /\ Segment(Tail(s), f, a + 1, b)
<1> DEFINE S == {s[j] : j \in 1..Len(s)}
           t == Tail(s)
<1>1. s \in Seq(S) /\ Len(s) = b - a /\ a \in Nat /\ b \in Nat
  BY DEF Segment, IsSeq
<1>2. /\ Len(s) \in Nat \ {0} /\ Head(s) = s[1]
      /\ Len(t) = Len(s) - 1 /\ t = [j \in 1..Len(t) |-> t[j]]
      /\ \A j \in 1..Len(t) : t[j] = s[j + 1]
  <2> HIDE DEF S
  <2>1. Len(s) \in Nat \ {0}
    BY <1>1, EmptySeq
  <2>2. /\ t \in Seq(S) /\ Len(t) = Len(s) - 1
        /\ \A j \in 1..Len(t) : t[j] = s[j + 1]
    BY <1>1, HeadTailProperties
  <2>3. t = [j \in 1..Len(t) |-> t[j]]
    <3> HIDE DEF t
    <3> QED BY <2>2, LenProperties
  <2>4. Head(s) = s[1]
    BY <1>1, <2>1
  <2> QED BY <2>1, <2>2, <2>3, <2>4
<1> HIDE DEF t
<1>3. \A j \in 1..Len(s) : s[j] = f[a + j]
  BY DEF Segment
<1>4. \A j \in 1..Len(t) : t[j] = f[a + 1 + j]
  <2> SUFFICES ASSUME NEW j \in 1..Len(t) PROVE t[j] = f[a + 1 + j]
    OBVIOUS
  <2>1. j + 1 \in 1..Len(s) /\ a + (j + 1) = a + 1 + j
    BY <1>1, <1>2
  <2> QED BY <1>2, <1>3, <2>1
<1>5. Head(s) = f[a + 1] /\ a < b
  <2>1. 1 \in 1..Len(s)
    BY <1>2
  <2>2. s[1] = f[a + 1]
    BY <1>3, <2>1
  <2> QED BY <1>1, <1>2, <2>2
<1> QED BY <1>1, <1>2, <1>4, <1>5 DEF Segment, IsSeq, t

\* The lines of a worker, but for the last that it is sent and sends back, are those
\* from From(p) on, Part of them.
Part == Filter!MasterNbLine
From(p) == (p - 1) * Part

LEMMA PartFacts ==
  ASSUME h \in Nat \ {0}
  PROVE  /\ Part \in Nat
         /\ \A p \in Filter!Worker :
              /\ p \in Nat \ {0} /\ p <= Size - 1
              /\ From(p) \in Nat /\ p * Part = From(p) + Part
              /\ From(p) + Part + Part <= h
         /\ \A p, q \in Filter!Worker : p < q => From(p) + Part <= From(q)
         /\ \A p \in Filter!Worker : p < Size - 1 => p + 1 \in Filter!Worker
                                                  /\ From(p + 1) = From(p) + Part
         /\ From(1) = 0 /\ 1 \in Filter!Worker
<1> USE LabsAssumption
<1>1. Part \in Nat /\ Size * Part <= h
  BY DEF Part, Filter!MasterNbLine
<1>2. \A p \in Filter!Worker : p \in Nat \ {0} /\ p <= Size - 1
  BY DEF Filter!Worker
<1>3. ASSUME NEW p \in Nat \ {0}
      PROVE  /\ (p - 1) * Part \in Nat /\ p * Part = (p - 1) * Part + Part
             /\ (p + 1 - 1) * Part = (p - 1) * Part + Part
             /\ (p + 1) * Part = (p - 1) * Part + Part + Part
             /\ \A q \in Nat : p <= q => p * Part <= q * Part
  BY <1>1
<1>4. \A p \in Filter!Worker : (p + 1) * Part <= Size * Part
  BY <1>2, <1>3
<1>5. ASSUME NEW p \in Filter!Worker, NEW q \in Filter!Worker, p < q
      PROVE  (p - 1) * Part + Part <= (q - 1) * Part
  <2>1. p <= q - 1 /\ q - 1 \in Nat
    BY <1>2, <1>5
  <2> QED BY <1>2, <1>3, <2>1
<1>6. ASSUME NEW p \in Filter!Worker
      PROVE  From(p) \in Nat /\ p * Part = From(p) + Part /\ From(p) + Part + Part <= h
  <2>1. Size * Part \in Nat /\ (p + 1) * Part \in Nat
    BY <1>1, <1>2
  <2> QED BY <1>1, <1>2, <1>3, <1>4, <2>1 DEF From
<1>7. ASSUME NEW p \in Filter!Worker, p < Size - 1
      PROVE  p + 1 \in Filter!Worker /\ From(p + 1) = From(p) + Part
  BY <1>2, <1>3, <1>7 DEF From, Filter!Worker
<1>8. From(1) = 0 /\ 1 \in Filter!Worker
  BY <1>1 DEF From, Filter!Worker
<1>9. \A p, q \in Filter!Worker : p < q => From(p) + Part <= From(q)
  BY <1>5 DEF From
<1> QED BY <1>1, <1>2, <1>6, <1>7, <1>8, <1>9

Stream(p) == [j \in Nat |-> IF j = 1 THEN Part ELSE IF j = 2 THEN "w"
                            ELSE Filter!Line(From(p) + (j - 3))]
Results(p) == [j \in Nat |-> filtered[p][From(p) + (j - 1)]]

\* How far the master and the worker are in the two streams of the worker.
Sent(p) ==
  IF fpc = "nb_line" THEN (IF p < id THEN 2 ELSE 0)
  ELSE IF fpc = "w" THEN (IF p < id THEN 2 ELSE IF p = id THEN 1 ELSE 0)
  ELSE IF fpc = "lines"
    THEN (IF p < id THEN Part + 3 ELSE IF p = id THEN 2 + (ligne - From(p)) ELSE 2)
  ELSE Part + 3

Got(p) ==
  IF wpc[p] = "nb_line" THEN 0 ELSE IF wpc[p] = "w" THEN 1
  ELSE IF wpc[p] = "lines" THEN 2 + (line[p] - From(p)) ELSE 2 + Part

SentBack(p) ==
  IF wpc[p] = "results" THEN line[p] - From(p)
  ELSE IF wpc[p] \in {"finalize", "done"} THEN Part + 1 ELSE 0

GotBack(p) ==
  IF fpc = "results"
    THEN (IF p < id THEN Part + 1 ELSE IF p = id THEN ligne - From(p) ELSE 0)
  ELSE IF fpc = "done" THEN Part + 1 ELSE 0

\* The lines the worker p filters from lines that it has all received.
Inner(p, j) == Filter!Read(j) \subseteq From(p)..(From(p) + Part - 1)

LEMMA InnerFacts ==
  ASSUME h \in Nat \ {0}, NEW p \in Filter!Worker, NEW k1 \in Nat, Inner(p, k1)
  PROVE  /\ k1 \in From(p)..(From(p) + Part - 1)
         /\ k1 # 0 => /\ k1 - 1 \in From(p)..(From(p) + Part - 1)
                      /\ k1 + 1 \in From(p)..(From(p) + Part - 1)
                      /\ k1 # h - 1
         /\ \A q \in Filter!Worker : k1 \in From(q)..(From(q) + Part) => q = p
<1>1. k1 \in From(p)..(From(p) + Part - 1)
  BY DEF Inner, Filter!Read
<1>2. k1 # 0 => /\ k1 - 1 \in From(p)..(From(p) + Part - 1)
                /\ k1 + 1 \in From(p)..(From(p) + Part - 1)
  BY DEF Inner, Filter!Read
<1>3. /\ From(p) \in Nat /\ Part \in Nat /\ From(p) + Part + Part <= h /\ p \in Nat
      /\ \A q \in Filter!Worker : From(q) \in Nat /\ q \in Nat
      /\ \A q \in Filter!Worker : q < p => From(q) + Part <= From(p)
      /\ \A q \in Filter!Worker : p < q => From(p) + Part <= From(q)
  BY PartFacts
<1>4. k1 # 0 => k1 # h - 1
  BY <1>2, <1>3
<1>5. ASSUME NEW q \in Filter!Worker, k1 \in From(q)..(From(q) + Part) PROVE q = p
  BY <1>1, <1>2, <1>3, <1>5
<1> QED BY <1>1, <1>2, <1>4, <1>5

LinesIn(p, end) == \A j \in From(p)..end : imageIn[p][j] = Filter!Line(j)

FilteredOK(p) == \A k1 \in 0..(h - 1) :
  Inner(p, k1) /\ k1 # wh[p] - 1 => filtered[p][k1] = Filter!Reference(k1)

WorkerOK(p) ==
  /\ DOMAIN imageIn[p] = 0..h
  /\ wpc[p] # "nb_line" => nbLine[p] = Part
  /\ wpc[p] = "lines" => /\ line[p] \in From(p)..(From(p) + Part - 1)
                         /\ LinesIn(p, line[p] - 1)
  /\ wpc[p] \in {"filter", "results", "finalize", "done"} => LinesIn(p, From(p) + Part - 1)
  /\ wpc[p] \in {"results", "finalize", "done"} => FilteredOK(p)
  /\ wpc[p] = "results" => line[p] \in From(p)..(From(p) + Part)

ChannelsOK(p) ==
  /\ Segment(toWorker[p], Stream(p), Got(p), Sent(p))
  /\ Segment(toMaster[p], Results(p), GotBack(p), SentBack(p))

MasterOK ==
  /\ h \in Nat \ {0} /\ id \in Filter!Worker
  /\ fpc \in {"nb_line", "w", "lines", "results", "done"}
  /\ fpc \in {"lines", "results"} => ligne \in From(id)..(From(id) + Part)
  /\ fpc \in {"nb_line", "w"} => ligne = 0
  /\ DOMAIN imageOut = 0..h

OutOK == \A p \in Filter!Worker, k1 \in 0..(h - 1) :
  Inner(p, k1) /\ k1 # wh[p] - 1 /\ k1 - From(p) < GotBack(p)
    => imageOut[k1] = Filter!Reference(k1)

WorkerPlace == {"nb_line", "w", "lines", "filter", "results", "finalize", "done"}

WorkerTypes ==
  /\ wpc \in [Filter!Worker -> WorkerPlace]
  /\ DOMAIN nbLine = Filter!Worker /\ DOMAIN line = Filter!Worker
  /\ DOMAIN imageIn = Filter!Worker /\ DOMAIN filtered = Filter!Worker
  /\ DOMAIN toWorker = Filter!Worker /\ DOMAIN toMaster = Filter!Worker

FilterInv ==
  /\ MasterOK /\ WorkerTypes /\ OutOK
  /\ \A p \in Filter!Worker : WorkerOK(p) /\ ChannelsOK(p)

LEMMA FilterInvInit == Filter!Init => FilterInv
<1> SUFFICES ASSUME Filter!Init PROVE FilterInv
  OBVIOUS
<1>1. h \in Nat \ {0} /\ Part \in Nat /\ 1 \in Filter!Worker /\ From(1) = 0
  BY LabsAssumption, PartFacts DEF Filter!Init
<1>2. MasterOK /\ WorkerTypes
  BY <1>1 DEF Filter!Init, MasterOK, WorkerTypes, WorkerPlace
<1>3. ASSUME NEW p \in Filter!Worker PROVE WorkerOK(p) /\ ChannelsOK(p) /\ GotBack(p) = 0
  <2>1. /\ Got(p) = 0 /\ Sent(p) = 0 /\ SentBack(p) = 0 /\ GotBack(p) = 0
        /\ toWorker[p] = <<>> /\ toMaster[p] = <<>>
    <3>1. ~(p < 1)
      BY <1>1, PartFacts
    <3> QED BY <3>1 DEF Filter!Init, Got, Sent, SentBack, GotBack
  <2>2. WorkerOK(p)
    BY DEF Filter!Init, WorkerOK
  <2> QED BY <2>1, <2>2, SegmentEmpty DEF ChannelsOK
<1>4. OutOK
  <2> SUFFICES ASSUME NEW p \in Filter!Worker, NEW k1 \in 0..(h - 1), Inner(p, k1)
               PROVE  ~(k1 - From(p) < GotBack(p))
    BY DEF OutOK
  <2>1. k1 \in From(p)..(From(p) + Part - 1) /\ From(p) \in Nat
    BY <1>1, InnerFacts, PartFacts
  <2> QED BY <1>3, <2>1
<1> QED BY <1>2, <1>3, <1>4 DEF FilterInv

\* While h stays, the streams of lines do.
LEMMA PartFrame ==
  ASSUME UNCHANGED h
  PROVE  /\ Part' = Part
         /\ \A p : From(p)' = From(p) /\ Stream(p)' = Stream(p)
         /\ \A q, j : Inner(q, j)' = Inner(q, j)
         /\ \A j : Filter!Reference(j)' = Filter!Reference(j)
BY DEF Part, From, Stream, Filter!MasterNbLine, Inner, Filter!Reference

\* What a step leaves alone of the worker p.
Untouched(p) ==
  /\ wpc'[p] = wpc[p] /\ nbLine'[p] = nbLine[p] /\ line'[p] = line[p]
  /\ imageIn'[p] = imageIn[p] /\ filtered'[p] = filtered[p]

LEMMA WorkerFrame ==
  ASSUME UNCHANGED <<h, wh>>, NEW p \in Filter!Worker, Untouched(p)
  PROVE  /\ WorkerOK(p) => WorkerOK(p)'
         /\ Got(p)' = Got(p) /\ SentBack(p)' = SentBack(p) /\ Results(p)' = Results(p)
<1> USE PartFrame DEF Untouched
<1>1. WorkerOK(p) => WorkerOK(p)'
  BY DEF WorkerOK, LinesIn, FilteredOK
<1>2. Got(p)' = Got(p) /\ SentBack(p)' = SentBack(p)
  BY DEF Got, SentBack
<1>3. Results(p)' = Results(p)
  BY DEF Results
<1> QED BY <1>1, <1>2, <1>3

\* A send of the master.
LEMMA MasterSendInv ==
  ASSUME FilterInv, NEW m, Filter!MasterSends(m), m = Stream(id)[Sent(id) + 1], MasterOK',
         \A p \in Filter!Worker :
           /\ Sent(p)' = IF p = id THEN Sent(p) + 1 ELSE Sent(p)
           /\ GotBack(p)' = GotBack(p)
  PROVE  FilterInv'
<1>1. /\ UNCHANGED <<h, imageOut, wpc, nbLine, line, wh, imageIn, filtered, toMaster>>
      /\ toWorker' = [toWorker EXCEPT ![id] = Append(toWorker[id], Stream(id)[Sent(id) + 1])]
  BY DEF Filter!MasterSends, Filter!workerVars
<1>2. ASSUME NEW p \in Filter!Worker PROVE WorkerOK(p)' /\ ChannelsOK(p)'
  <2>1. Untouched(p) /\ WorkerOK(p) /\ ChannelsOK(p) /\ toMaster'[p] = toMaster[p]
    BY <1>1 DEF Untouched, FilterInv
  <2>2. /\ WorkerOK(p)' /\ Got(p)' = Got(p) /\ SentBack(p)' = SentBack(p)
        /\ Results(p)' = Results(p) /\ Stream(p)' = Stream(p)
    BY <1>1, <2>1, WorkerFrame, PartFrame
  <2>3. Segment(toMaster[p], Results(p), GotBack(p), SentBack(p))'
    BY <2>1, <2>2 DEF ChannelsOK, Segment, IsSeq
  <2>4. Segment(toWorker'[p], Stream(p), Got(p), Sent(p)')
    <3>1. CASE p = id
      <4>1. toWorker'[p] = Append(toWorker[p], Stream(p)[Sent(p) + 1])
        BY <1>1, <3>1 DEF FilterInv, WorkerTypes
      <4> QED BY <2>1, <3>1, <4>1, SegmentAppend DEF ChannelsOK
    <3>2. CASE p # id
      <4>1. toWorker'[p] = toWorker[p]
        BY <1>1, <3>2 DEF FilterInv, WorkerTypes
      <4> QED BY <2>1, <3>2, <4>1 DEF ChannelsOK
    <3> QED BY <3>1, <3>2
  <2>5. Segment(toWorker[p], Stream(p), Got(p), Sent(p))'
    BY <2>2, <2>4 DEF Segment, IsSeq
  <2> QED BY <2>2, <2>3, <2>5 DEF ChannelsOK
<1>3. OutOK'
  BY <1>1, PartFrame DEF OutOK, FilterInv
<1>4. WorkerTypes'
  BY <1>1 DEF FilterInv, WorkerTypes
<1> QED BY <1>2, <1>3, <1>4 DEF FilterInv

LEMMA SendHeaderInv ==
  ASSUME FilterInv, Filter!SendNbLine \/ Filter!SendW PROVE FilterInv'
<1> DEFINE To == Filter!Worker
<1>1. /\ MasterOK /\ Part \in Nat /\ 1 \in To /\ From(1) = 0
      /\ \A p \in To : p \in Nat \ {0} /\ p <= Size - 1 /\ Size \in Nat
  BY LabsAssumption, PartFacts DEF FilterInv, MasterOK
<1>2. CASE Filter!SendNbLine
  <2>1. /\ fpc = "nb_line" /\ fpc' = "w" /\ id' = id /\ ligne' = ligne /\ UNCHANGED <<h, imageOut>>
        /\ Filter!MasterSends(Part)
    BY <1>2 DEF Filter!SendNbLine, Filter!MasterSends, Part
  <2>2. Part = Stream(id)[Sent(id) + 1]
    BY <1>1, <2>1 DEF Stream, Sent, MasterOK
  <2>3. MasterOK'
    BY <1>1, <2>1, PartFrame DEF MasterOK, Filter!Worker
  <2>4. \A p \in To : /\ Sent(p)' = IF p = id THEN Sent(p) + 1 ELSE Sent(p)
                      /\ GotBack(p)' = GotBack(p)
    BY <1>1, <2>1 DEF Sent, GotBack, MasterOK
  <2> HIDE DEF To
  <2> QED BY <2>1, <2>2, <2>3, <2>4, MasterSendInv DEF To
<1>3. CASE Filter!SendW
  <2>1. /\ fpc = "w" /\ ligne' = ligne /\ UNCHANGED <<h, imageOut>>
        /\ Filter!MasterSends("w")
        /\ \/ id < Size - 1 /\ fpc' = "nb_line" /\ id' = id + 1
           \/ ~(id < Size - 1) /\ fpc' = "lines" /\ id' = 1
    BY <1>3 DEF Filter!SendW, Filter!MasterSends
  <2>2. "w" = Stream(id)[Sent(id) + 1]
    BY <1>1, <2>1 DEF Stream, Sent, MasterOK
  <2>3. MasterOK'
    <3>1. id' \in To
      BY <1>1, <2>1, PartFacts DEF MasterOK
    <3>2. ligne = 0 /\ 0 \in From(1)..(From(1) + Part)
      BY <1>1, <2>1 DEF MasterOK
    <3>3. Part' = Part /\ From(id)' = From(id')
      BY <2>1, PartFrame DEF From
    <3>4. fpc' = "lines" => (ligne \in From(id)..(From(id) + Part))'
      <4> SUFFICES ASSUME fpc' = "lines" PROVE ligne' \in From(id)'..(From(id)' + Part')
        OBVIOUS
      <4>1. ligne' = ligne /\ id' = 1
        BY <2>1
      <4> QED BY <3>2, <3>3, <4>1
    <3>5. /\ h' = h /\ imageOut' = imageOut /\ (Filter!Worker)' = Filter!Worker
          /\ fpc' \in {"nb_line", "lines"}
      BY <2>1 DEF Filter!Worker
    <3> QED BY <1>1, <2>1, <3>1, <3>2, <3>4, <3>5 DEF MasterOK
  <2>4. ASSUME NEW p \in To
        PROVE  /\ Sent(p)' = IF p = id THEN Sent(p) + 1 ELSE Sent(p)
               /\ GotBack(p)' = GotBack(p)
    <3>1. id \in Nat \ {0} /\ id <= Size - 1
      BY <1>1 DEF MasterOK
    <3>2. CASE id < Size - 1
      BY <1>1, <2>1, <3>1, <3>2 DEF Sent, GotBack
    <3>3. CASE ~(id < Size - 1)
      <4>1. id = Size - 1 /\ p \in Nat \ {0} /\ (p < id \/ p = id)
        BY <1>1, <3>1, <3>3
      <4>2. Sent(p) = IF p = id THEN 1 ELSE 2
        BY <2>1, <4>1 DEF Sent
      <4>3. Sent(p)' = 2
        <5>1. From(p)' = From(p) /\ (p = 1 => ligne - From(p) = 0)
          BY <1>1, <2>1, PartFrame DEF MasterOK
        <5>2. fpc' = "lines" /\ id' = 1 /\ ligne' = ligne /\ ~(p < 1)
          BY <2>1, <3>3, <4>1
        <5> QED BY <5>1, <5>2 DEF Sent
      <4>4. GotBack(p)' = GotBack(p)
        BY <2>1, <3>3 DEF GotBack
      <4> QED BY <4>2, <4>3, <4>4
    <3> QED BY <3>2, <3>3
  <2> HIDE DEF To
  <2> QED BY <2>1, <2>2, <2>3, <2>4, MasterSendInv DEF To
<1> QED BY <1>2, <1>3

\* The loops of the master.
LEMMA NextLineInv ==
  ASSUME FilterInv, fpc \in {"lines", "results"}, UNCHANGED h, DOMAIN imageOut' = DOMAIN imageOut,
         Filter!NextLine(IF fpc = "lines" THEN "results" ELSE "done")
  PROVE  /\ MasterOK'
         /\ \A p \in Filter!Worker :
              /\ Sent(p)' = IF p = id /\ fpc = "lines" THEN Sent(p) + 1 ELSE Sent(p)
              /\ GotBack(p)' = IF p = id /\ fpc = "results" THEN GotBack(p) + 1 ELSE GotBack(p)
<1> DEFINE after == IF fpc = "lines" THEN "results" ELSE "done"
<1>1. /\ MasterOK /\ Part \in Nat /\ 1 \in Filter!Worker /\ From(1) = 0 /\ Size \in Nat
      /\ id \in Filter!Worker /\ id \in Nat \ {0} /\ id <= Size - 1
      /\ From(id) \in Nat /\ ligne \in From(id)..(From(id) + Part)
      /\ id * Part = From(id) + Part
  BY LabsAssumption, PartFacts DEF FilterInv, MasterOK
<1>2. \A p \in Filter!Worker : p \in Nat \ {0} /\ p <= Size - 1
  BY <1>1, PartFacts DEF MasterOK
<1>3. \/ /\ ligne < From(id) + Part /\ ligne' = ligne + 1 /\ id' = id /\ fpc' = fpc
      \/ /\ ligne = From(id) + Part /\ id < Size - 1
         /\ ligne' = From(id) + Part /\ id' = id + 1 /\ fpc' = fpc
      \/ /\ ligne = From(id) + Part /\ id = Size - 1 /\ ligne' = 0 /\ id' = 1 /\ fpc' = after
  <2>1. \/ ligne < id * Part /\ ligne' = ligne + 1 /\ id' = id /\ fpc' = fpc
        \/ ~(ligne < id * Part) /\ id < Size - 1 /\ ligne' = id * Part /\ id' = id + 1 /\ fpc' = fpc
        \/ ~(ligne < id * Part) /\ ~(id < Size - 1) /\ ligne' = 0 /\ id' = 1 /\ fpc' = after
    BY DEF Filter!NextLine, Filter!LastLine, Part
  <2> HIDE DEF after
  <2> QED BY <1>1, <2>1
<1>4. id < Size - 1 => id + 1 \in Filter!Worker /\ From(id + 1) = From(id) + Part
  BY <1>1, PartFacts DEF MasterOK
<1>5. /\ id' \in Filter!Worker
      /\ fpc' # "done" => ligne' \in From(id')..(From(id') + Part)
  BY <1>1, <1>3, <1>4
<1>6. MasterOK'
  <2>1. Part' = Part /\ From(id)' = From(id') /\ (Filter!Worker)' = Filter!Worker /\ h' = h
    BY PartFrame DEF Filter!Worker, From
  <2>2. fpc' # "done" => (ligne \in From(id)..(From(id) + Part))'
    <3> SUFFICES fpc' # "done" => ligne' \in From(id)'..(From(id)' + Part')
      OBVIOUS
    <3> QED BY <1>5, <2>1
  <2>3. fpc' \in {"lines", "results", "done"}
    BY <1>3
  <2> QED BY <1>1, <1>5, <2>1, <2>2, <2>3 DEF MasterOK
<1>7. ASSUME NEW p \in Filter!Worker
      PROVE  Sent(p)' = IF p = id /\ fpc = "lines" THEN Sent(p) + 1 ELSE Sent(p)
  <2>1. From(p)' = From(p) /\ Part' = Part /\ From(p) \in Nat
    BY <1>1, PartFrame, PartFacts DEF MasterOK
  <2>2. CASE fpc = "results"
    BY <1>3, <2>1, <2>2 DEF Sent
  <2>3. CASE fpc = "lines"
    <3>1. Sent(p) = IF p < id THEN Part + 3 ELSE IF p = id THEN 2 + (ligne - From(p)) ELSE 2
      BY <2>3 DEF Sent
    <3>2. Sent(p)' = IF fpc' # "lines" THEN Part + 3
                     ELSE IF p < id' THEN Part + 3
                     ELSE IF p = id' THEN 2 + (ligne' - From(p)) ELSE 2
      BY <1>3, <2>1, <2>3 DEF Sent
    <3>3. p \in Nat /\ p <= Size - 1
      BY <1>2
    <3> QED BY <1>1, <1>3, <1>4, <2>1, <2>3, <3>1, <3>2, <3>3
  <2> QED BY <2>2, <2>3
<1>8. ASSUME NEW p \in Filter!Worker
      PROVE  GotBack(p)' = IF p = id /\ fpc = "results" THEN GotBack(p) + 1 ELSE GotBack(p)
  <2>1. From(p)' = From(p) /\ Part' = Part /\ From(p) \in Nat
    BY <1>1, PartFrame, PartFacts DEF MasterOK
  <2>2. p \in Nat \ {0} /\ p <= Size - 1
    BY <1>2
  <2>3. CASE fpc = "lines"
    <3>1. GotBack(p) = 0
      BY <2>3 DEF GotBack
    <3>2. fpc' = "lines" => GotBack(p)' = 0
      BY DEF GotBack
    <3>3. fpc' # "lines" => fpc' = "results" /\ id' = 1 /\ ligne' = 0
      BY <1>3, <2>3
    <3>4. fpc' # "lines" => GotBack(p)' = 0
      BY <1>1, <2>1, <2>2, <3>3 DEF GotBack
    <3> QED BY <2>3, <3>1, <3>2, <3>4
  <2>4. CASE fpc = "results"
    <3>1. GotBack(p) = IF p < id THEN Part + 1 ELSE IF p = id THEN ligne - From(p) ELSE 0
      BY <2>4 DEF GotBack
    <3>2. GotBack(p)' = IF fpc' # "results" THEN Part + 1
                        ELSE IF p < id' THEN Part + 1
                        ELSE IF p = id' THEN ligne' - From(p) ELSE 0
      BY <1>3, <2>1, <2>4 DEF GotBack
    <3> QED BY <1>1, <1>3, <1>4, <2>1, <2>2, <2>4, <3>1, <3>2
  <2> QED BY <2>3, <2>4
<1> QED BY <1>6, <1>7, <1>8

LEMMA SendLineInv == ASSUME FilterInv, Filter!SendLine PROVE FilterInv'
<1>1. /\ fpc = "lines" /\ UNCHANGED <<h, imageOut>>
      /\ Filter!MasterSends(Filter!Line(ligne)) /\ Filter!NextLine("results")
  BY DEF Filter!SendLine, Filter!MasterSends
<1>2. Filter!NextLine(IF fpc = "lines" THEN "results" ELSE "done")
  BY <1>1
<1>3. /\ MasterOK'
      /\ \A p \in Filter!Worker : /\ Sent(p)' = IF p = id THEN Sent(p) + 1 ELSE Sent(p)
                                 /\ GotBack(p)' = GotBack(p)
  BY <1>1, <1>2, NextLineInv
<1>4. Filter!Line(ligne) = Stream(id)[Sent(id) + 1]
  <2>1. /\ MasterOK /\ id \in Nat /\ From(id) \in Nat /\ Part \in Nat
        /\ ligne \in From(id)..(From(id) + Part)
    BY <1>1, PartFacts DEF FilterInv, MasterOK
  <2>2. Sent(id) = 2 + (ligne - From(id))
    BY <1>1, <2>1 DEF Sent
  <2> DEFINE n == Sent(id) + 1
  <2>3. n \in Nat /\ n # 1 /\ n # 2 /\ From(id) + (n - 3) = ligne
    BY <2>1, <2>2
  <2> HIDE DEF n
  <2>4. Stream(id)[n] = Filter!Line(From(id) + (n - 3))
    BY <2>3 DEF Stream
  <2> QED BY <2>3, <2>4 DEF n
<1> QED BY <1>1, <1>3, <1>4, MasterSendInv

LEMMA RecvResultInv == ASSUME FilterInv, Filter!RecvResult PROVE FilterInv'
<1>1. /\ fpc = "results" /\ toMaster[id] # <<>>
      /\ imageOut' = [imageOut EXCEPT ![ligne] = Head(toMaster[id])]
      /\ toMaster' = [toMaster EXCEPT ![id] = Tail(toMaster[id])]
      /\ UNCHANGED <<h, wpc, nbLine, line, wh, imageIn, filtered, toWorker>>
      /\ Filter!NextLine("done")
  BY DEF Filter!RecvResult, Filter!workerVars
<1>2. Filter!NextLine(IF fpc = "lines" THEN "results" ELSE "done")
  BY <1>1
<1>3. /\ MasterOK'
      /\ \A p \in Filter!Worker : /\ Sent(p)' = Sent(p)
                                 /\ GotBack(p)' = IF p = id THEN GotBack(p) + 1 ELSE GotBack(p)
  BY <1>1, <1>2, NextLineInv
<1>4. /\ MasterOK /\ OutOK /\ WorkerTypes /\ id \in Filter!Worker /\ h \in Nat \ {0}
      /\ \A p \in Filter!Worker : WorkerOK(p) /\ ChannelsOK(p)
      /\ ligne \in From(id)..(From(id) + Part) /\ DOMAIN imageOut = 0..h
  BY <1>1 DEF FilterInv, MasterOK
<1>5. /\ Part \in Nat /\ From(id) \in Nat
      /\ \A p \in Filter!Worker : From(p) \in Nat
  BY <1>4, PartFacts
<1>6. GotBack(id) = ligne - From(id)
  <2>1. ~(id < id)
    BY <1>4, PartFacts
  <2> QED BY <1>1, <2>1 DEF GotBack
<1>7. /\ GotBack(id) < SentBack(id) /\ Head(toMaster[id]) = Results(id)[GotBack(id) + 1]
      /\ Segment(Tail(toMaster[id]), Results(id), GotBack(id) + 1, SentBack(id))
  <2>1. Segment(toMaster[id], Results(id), GotBack(id), SentBack(id)) /\ toMaster[id] # <<>>
    BY <1>1, <1>4 DEF ChannelsOK
  <2> QED BY <2>1, SegmentTail
<1>8. Head(toMaster[id]) = filtered[id][ligne]
  <2> DEFINE n == GotBack(id) + 1
  <2>1. n \in Nat /\ From(id) + (n - 1) = ligne
    BY <1>4, <1>5, <1>6
  <2> HIDE DEF n
  <2>2. Results(id)[n] = filtered[id][From(id) + (n - 1)]
    BY <2>1 DEF Results
  <2> QED BY <1>7, <2>1, <2>2 DEF n
<1>9. FilteredOK(id)
  <2>1. SentBack(id) # 0
    BY <1>4, <1>5, <1>6, <1>7
  <2>2. wpc[id] \in {"results", "finalize", "done"}
    BY <2>1 DEF SentBack
  <2> QED BY <1>4, <2>2 DEF WorkerOK
<1>10. OutOK'
  <2>1. SUFFICES ASSUME NEW p \in Filter!Worker, NEW k1 \in 0..(h - 1), Inner(p, k1), k1 # wh[p] - 1,
                        k1 - From(p) < GotBack(p)'
                 PROVE  imageOut'[k1] = Filter!Reference(k1)
    <3>1. h' = h /\ wh' = wh /\ (Filter!Worker)' = Filter!Worker
      BY <1>1 DEF Filter!Worker
    <3>2. /\ \A p : From(p)' = From(p)
          /\ \A q, j : Inner(q, j)' = Inner(q, j)
          /\ \A j : Filter!Reference(j)' = Filter!Reference(j)
      BY <3>1, PartFrame
    <3> QED BY <3>1, <3>2 DEF OutOK
  <2>2. k1 \in Nat /\ k1 \in DOMAIN imageOut
    BY <1>4
  <2>3. CASE k1 = ligne
    <3>1. p = id
      BY <1>4, <2>1, <2>2, <2>3, InnerFacts
    <3>2. imageOut'[k1] = filtered[id][ligne]
      BY <1>1, <1>8, <2>2, <2>3
    <3> QED BY <1>9, <2>1, <2>3, <3>1, <3>2 DEF FilteredOK
  <2>4. CASE k1 # ligne
    <3>1. imageOut'[k1] = imageOut[k1]
      BY <1>1, <2>2, <2>4
    <3>2. k1 - From(p) < GotBack(p)
      BY <1>3, <1>4, <1>5, <1>6, <2>1, <2>2, <2>4
    <3> QED BY <1>4, <2>1, <3>1, <3>2 DEF OutOK
  <2> QED BY <2>3, <2>4
<1>11. WorkerTypes'
  BY <1>1, <1>4 DEF WorkerTypes, Filter!Worker
<1>12. ASSUME NEW p \in Filter!Worker PROVE WorkerOK(p)' /\ ChannelsOK(p)'
  <2>1. /\ Untouched(p) /\ WorkerOK(p) /\ ChannelsOK(p) /\ toWorker'[p] = toWorker[p]
        /\ UNCHANGED <<h, wh>>
    BY <1>1, <1>4 DEF Untouched
  <2>2. /\ WorkerOK(p)' /\ Got(p)' = Got(p) /\ SentBack(p)' = SentBack(p)
        /\ Results(p)' = Results(p) /\ Stream(p)' = Stream(p)
    BY <2>1, WorkerFrame, PartFrame
  <2>3. Segment(toWorker[p], Stream(p), Got(p), Sent(p))'
    BY <1>3, <2>1, <2>2 DEF ChannelsOK, Segment, IsSeq
  <2>4. Segment(toMaster'[p], Results(p), GotBack(p)', SentBack(p))
    <3>1. CASE p = id
      <4>1. toMaster'[p] = Tail(toMaster[p])
        BY <1>1, <1>4, <3>1 DEF WorkerTypes
      <4> QED BY <1>3, <1>7, <3>1, <4>1
    <3>2. CASE p # id
      <4>1. toMaster'[p] = toMaster[p]
        BY <1>1, <1>4, <3>2 DEF WorkerTypes
      <4> QED BY <1>3, <2>1, <3>2, <4>1 DEF ChannelsOK
    <3> QED BY <3>1, <3>2
  <2>5. Segment(toMaster[p], Results(p), GotBack(p), SentBack(p))'
    BY <2>2, <2>4 DEF Segment, IsSeq
  <2> QED BY <2>2, <2>3, <2>5 DEF ChannelsOK
<1> QED BY <1>3, <1>10, <1>11, <1>12 DEF FilterInv

\* A step of a worker changes nothing of the master and of the other workers.
LEMMA WorkerStepInv ==
  ASSUME FilterInv, NEW p \in Filter!Worker,
         UNCHANGED <<h, wh, fpc, id, ligne, imageOut>>, WorkerTypes', WorkerOK(p)', ChannelsOK(p)',
         \A q \in Filter!Worker \ {p} :
           Untouched(q) /\ toWorker'[q] = toWorker[q] /\ toMaster'[q] = toMaster[q]
  PROVE  FilterInv'
<1>1. /\ (Filter!Worker)' = Filter!Worker /\ Part' = Part
      /\ \A q : From(q)' = From(q) /\ Stream(q)' = Stream(q)
      /\ \A q, j : Inner(q, j)' = Inner(q, j)
      /\ \A j : Filter!Reference(j)' = Filter!Reference(j)
  BY PartFrame DEF Filter!Worker
<1>2. \A q \in Filter!Worker : Sent(q)' = Sent(q) /\ GotBack(q)' = GotBack(q)
  BY <1>1 DEF Sent, GotBack
<1>3. ASSUME NEW q \in Filter!Worker PROVE WorkerOK(q)' /\ ChannelsOK(q)'
  <2>1. CASE q = p
    BY <2>1
  <2>2. CASE q # p
    <3>1. /\ Untouched(q) /\ toWorker'[q] = toWorker[q] /\ toMaster'[q] = toMaster[q]
          /\ WorkerOK(q) /\ ChannelsOK(q)
      BY <2>2 DEF FilterInv
    <3>2. /\ WorkerOK(q)' /\ Got(q)' = Got(q) /\ SentBack(q)' = SentBack(q)
          /\ Results(q)' = Results(q)
      BY <3>1, WorkerFrame
    <3> QED BY <1>1, <1>2, <3>1, <3>2 DEF ChannelsOK, Segment, IsSeq
  <2> QED BY <2>1, <2>2
<1>4. MasterOK'
  <2>1. From(id)' = From(id)
    BY <1>1 DEF From
  <2> QED BY <1>1, <2>1 DEF FilterInv, MasterOK
<1>5. OutOK'
  BY <1>1, <1>2 DEF FilterInv, OutOK
<1> QED BY <1>1, <1>3, <1>4, <1>5 DEF FilterInv

\* What a receive of a worker does to its channels.
LEMMA ReceiveInv ==
  ASSUME FilterInv, NEW p \in Filter!Worker, Filter!WorkerReceives(p),
         Got(p)' = Got(p) + 1, SentBack(p)' = SentBack(p)
  PROVE  /\ ChannelsOK(p)'
         /\ Head(toWorker[p]) = Stream(p)[Got(p) + 1]
         /\ DOMAIN toWorker' = Filter!Worker /\ DOMAIN toMaster' = Filter!Worker
         /\ UNCHANGED <<h, wh, fpc, id, ligne, imageOut, filtered>>
         /\ \A q \in Filter!Worker \ {p} : toWorker'[q] = toWorker[q] /\ toMaster'[q] = toMaster[q]
<1>1. /\ toWorker[p] # <<>> /\ toWorker' = [toWorker EXCEPT ![p] = Tail(toWorker[p])]
      /\ UNCHANGED <<h, wh, fpc, id, ligne, imageOut, filtered, toMaster>>
  BY DEF Filter!WorkerReceives, Filter!masterVars
<1>2. WorkerTypes /\ ChannelsOK(p)
  BY DEF FilterInv
<1>3. /\ Head(toWorker[p]) = Stream(p)[Got(p) + 1]
      /\ Segment(Tail(toWorker[p]), Stream(p), Got(p) + 1, Sent(p))
  <2>1. Segment(toWorker[p], Stream(p), Got(p), Sent(p))
    BY <1>2 DEF ChannelsOK
  <2> QED BY <1>1, <2>1, SegmentTail
<1>4. /\ Stream(p)' = Stream(p) /\ Results(p)' = Results(p)
      /\ Sent(p)' = Sent(p) /\ GotBack(p)' = GotBack(p)
  <2>1. Part' = Part /\ From(p)' = From(p) /\ Stream(p)' = Stream(p)
    BY <1>1, PartFrame
  <2> QED BY <1>1, <2>1 DEF Results, Sent, GotBack
<1>5. toWorker'[p] = Tail(toWorker[p])
  BY <1>1, <1>2 DEF WorkerTypes
<1>6. Segment(toWorker[p], Stream(p), Got(p), Sent(p))'
  BY <1>3, <1>4, <1>5 DEF Segment, IsSeq
<1>7. Segment(toMaster[p], Results(p), GotBack(p), SentBack(p))'
  BY <1>1, <1>2, <1>4 DEF ChannelsOK, Segment, IsSeq
<1>8. /\ DOMAIN toWorker' = Filter!Worker /\ DOMAIN toMaster' = Filter!Worker
      /\ \A q \in Filter!Worker \ {p} : toWorker'[q] = toWorker[q] /\ toMaster'[q] = toMaster[q]
  BY <1>1, <1>2 DEF WorkerTypes
<1> QED BY <1>1, <1>3, <1>6, <1>7, <1>8 DEF ChannelsOK

LEMMA RecvHeaderInv ==
  ASSUME FilterInv, NEW p \in Filter!Worker, Filter!RecvNbLine(p) \/ Filter!RecvW(p)
  PROVE  FilterInv'
<1>1. /\ MasterOK /\ WorkerTypes /\ WorkerOK(p) /\ h \in Nat \ {0}
      /\ Part \in Nat /\ From(p) \in Nat /\ p * Part = From(p) + Part
      /\ Filter!WorkerReceives(p) /\ UNCHANGED <<h, wh, filtered>>
  BY PartFacts DEF FilterInv, MasterOK, Filter!RecvNbLine, Filter!RecvW, Filter!WorkerReceives
<1>2. /\ Part' = Part /\ From(p)' = From(p) /\ (Filter!Worker)' = Filter!Worker
      /\ wpc[p] \in WorkerPlace
  BY <1>1, PartFrame DEF Filter!Worker, WorkerTypes
<1>3. CASE Filter!RecvNbLine(p)
  <2>1. /\ wpc[p] = "nb_line" /\ wpc' = [wpc EXCEPT ![p] = "w"]
        /\ nbLine' = [nbLine EXCEPT ![p] = Head(toWorker[p])]
        /\ UNCHANGED <<line, imageIn>>
    BY <1>3 DEF Filter!RecvNbLine, Filter!GoTo
  <2>2. wpc'[p] = "w" /\ nbLine'[p] = Head(toWorker[p])
    BY <1>1, <2>1 DEF WorkerTypes
  <2>3. Got(p) = 0 /\ Got(p)' = 1 /\ SentBack(p)' = SentBack(p)
    BY <2>1, <2>2 DEF Got, SentBack
  <2>4. /\ ChannelsOK(p)' /\ Head(toWorker[p]) = Stream(p)[1]
        /\ DOMAIN toWorker' = Filter!Worker /\ DOMAIN toMaster' = Filter!Worker
        /\ UNCHANGED <<h, wh, fpc, id, ligne, imageOut, filtered>>
        /\ \A q \in Filter!Worker \ {p} : toWorker'[q] = toWorker[q] /\ toMaster'[q] = toMaster[q]
    BY <1>1, <2>3, ReceiveInv
  <2>5. WorkerOK(p)'
    <3>1. nbLine'[p] = Part
      BY <2>2, <2>4 DEF Stream
    <3> QED BY <1>1, <1>2, <2>1, <2>2, <3>1 DEF WorkerOK
  <2>6. WorkerTypes'
    BY <1>1, <1>2, <2>1, <2>4 DEF WorkerTypes, WorkerPlace
  <2>7. \A q \in Filter!Worker \ {p} : Untouched(q)
    BY <1>1, <2>1 DEF Untouched, WorkerTypes
  <2> QED BY <2>4, <2>5, <2>6, <2>7, WorkerStepInv
<1>4. CASE Filter!RecvW(p)
  <2>1. /\ wpc[p] = "w" /\ wpc' = [wpc EXCEPT ![p] = IF nbLine[p] = 0 THEN "filter" ELSE "lines"]
        /\ line' = [line EXCEPT ![p] = (p - 1) * nbLine[p]]
        /\ UNCHANGED <<nbLine, imageIn>>
    BY <1>4 DEF Filter!RecvW, Filter!GoTo, Filter!FirstOf
  <2>2. /\ nbLine[p] = Part
        /\ wpc'[p] = IF Part = 0 THEN "filter" ELSE "lines"
        /\ line'[p] = From(p)
    BY <1>1, <2>1 DEF WorkerTypes, WorkerOK, From
  <2>3. Got(p) = 1 /\ Got(p)' = 2 /\ SentBack(p)' = SentBack(p)
    BY <1>1, <1>2, <2>1, <2>2 DEF Got, SentBack
  <2>4. /\ ChannelsOK(p)'
        /\ DOMAIN toWorker' = Filter!Worker /\ DOMAIN toMaster' = Filter!Worker
        /\ UNCHANGED <<h, wh, fpc, id, ligne, imageOut, filtered>>
        /\ \A q \in Filter!Worker \ {p} : toWorker'[q] = toWorker[q] /\ toMaster'[q] = toMaster[q]
    BY <1>1, <2>3, ReceiveInv
  <2>5. WorkerOK(p)'
    <3>1. Part = 0 => From(p)..(From(p) + Part - 1) = {}
      BY <1>1
    <3>2. From(p)..(From(p) - 1) = {} /\ (Part # 0 => From(p) \in From(p)..(From(p) + Part - 1))
      BY <1>1
    <3> QED BY <1>1, <1>2, <2>1, <2>2, <3>1, <3>2 DEF WorkerOK, LinesIn
  <2>6. WorkerTypes'
    BY <1>1, <1>2, <2>1, <2>4 DEF WorkerTypes, WorkerPlace
  <2>7. \A q \in Filter!Worker \ {p} : Untouched(q)
    BY <1>1, <2>1 DEF Untouched, WorkerTypes
  <2> QED BY <2>4, <2>5, <2>6, <2>7, WorkerStepInv
<1> QED BY <1>3, <1>4

LEMMA RecvLineInv ==
  ASSUME FilterInv, NEW p \in Filter!Worker, Filter!RecvLine(p) PROVE FilterInv'
<1>1. /\ MasterOK /\ WorkerTypes /\ WorkerOK(p) /\ h \in Nat \ {0}
      /\ Part \in Nat /\ From(p) \in Nat /\ p * Part = From(p) + Part
      /\ From(p) + Part + Part <= h
      /\ Filter!WorkerReceives(p) /\ UNCHANGED <<h, wh, filtered>>
  BY PartFacts DEF FilterInv, MasterOK, Filter!RecvLine, Filter!WorkerReceives
<1>2. /\ Part' = Part /\ From(p)' = From(p) /\ (Filter!Worker)' = Filter!Worker
      /\ wpc[p] \in WorkerPlace
  BY <1>1, PartFrame DEF Filter!Worker, WorkerTypes
<1> DEFINE n == line[p]
<1>3. /\ wpc[p] = "lines" /\ nbLine[p] = Part
      /\ n \in From(p)..(From(p) + Part - 1) /\ LinesIn(p, n - 1) /\ DOMAIN imageIn[p] = 0..h
  BY <1>1 DEF Filter!RecvLine, Filter!GoTo, WorkerOK
<1>4. /\ wpc' = [wpc EXCEPT ![p] = IF n + 1 < From(p) + Part THEN "lines" ELSE "filter"]
      /\ imageIn' = [imageIn EXCEPT ![p] = [imageIn[p] EXCEPT ![n] = Head(toWorker[p])]]
      /\ line' = [line EXCEPT ![p] = n + 1]
      /\ nbLine' = nbLine
  BY <1>1, <1>3 DEF Filter!RecvLine, Filter!GoTo
<1>5. /\ wpc'[p] = IF n + 1 < From(p) + Part THEN "lines" ELSE "filter"
      /\ imageIn'[p] = [imageIn[p] EXCEPT ![n] = Head(toWorker[p])]
      /\ line'[p] = n + 1 /\ nbLine'[p] = Part
  BY <1>1, <1>3, <1>4 DEF WorkerTypes
<1>6. Got(p) = 2 + (n - From(p)) /\ Got(p)' = Got(p) + 1 /\ SentBack(p)' = SentBack(p)
  <2>1. Got(p) = 2 + (n - From(p))
    BY <1>3 DEF Got
  <2>2. Got(p)' = IF n + 1 < From(p) + Part THEN 2 + ((n + 1) - From(p)) ELSE 2 + Part
    BY <1>2, <1>5 DEF Got
  <2>3. SentBack(p)' = SentBack(p)
    <3>1. wpc'[p] \in {"lines", "filter"}
      BY <1>5
    <3> QED BY <1>3, <3>1 DEF SentBack
  <2> HIDE DEF n
  <2>4. n \in Int /\ From(p) <= n /\ n <= From(p) + Part - 1
    BY <1>1, <1>3
  <2>5. CASE n + 1 < From(p) + Part
    BY <1>1, <2>1, <2>2, <2>3, <2>4, <2>5
  <2>6. CASE ~(n + 1 < From(p) + Part)
    BY <1>1, <2>1, <2>2, <2>3, <2>4, <2>6
  <2> QED BY <2>5, <2>6
<1>7. /\ ChannelsOK(p)' /\ Head(toWorker[p]) = Stream(p)[Got(p) + 1]
      /\ DOMAIN toWorker' = Filter!Worker /\ DOMAIN toMaster' = Filter!Worker
      /\ UNCHANGED <<h, wh, fpc, id, ligne, imageOut, filtered>>
      /\ \A q \in Filter!Worker \ {p} : toWorker'[q] = toWorker[q] /\ toMaster'[q] = toMaster[q]
  BY <1>1, <1>6, ReceiveInv
<1>8. Head(toWorker[p]) = Filter!Line(n)
  <2> DEFINE e == Got(p) + 1
  <2>1. e \in Nat /\ e # 1 /\ e # 2 /\ From(p) + (e - 3) = n
    <3> HIDE DEF n
    <3> QED BY <1>1, <1>3, <1>6
  <2> HIDE DEF e
  <2>2. Stream(p)[e] = Filter!Line(From(p) + (e - 3))
    BY <2>1 DEF Stream
  <2> QED BY <1>7, <2>1, <2>2 DEF e
<1>9. WorkerOK(p)'
  <2>1. \A j \in From(p)..n : imageIn'[p][j] = Filter!Line(j)
    <3> SUFFICES ASSUME NEW j \in From(p)..n PROVE imageIn'[p][j] = Filter!Line(j)
      OBVIOUS
    <3> HIDE DEF n
    <3>1. j \in 0..h /\ (j # n => j \in From(p)..(n - 1))
      BY <1>1, <1>3
    <3> QED BY <1>3, <1>5, <1>8, <3>1 DEF LinesIn
  <2>2. DOMAIN imageIn'[p] = 0..h
    BY <1>3, <1>5
  <2>3. /\ n + 1 < From(p) + Part => n + 1 \in From(p)..(From(p) + Part - 1)
        /\ ~(n + 1 < From(p) + Part) => n = From(p) + Part - 1
        /\ n + 1 - 1 = n
    <3> HIDE DEF n
    <3> QED BY <1>1, <1>3
  <2>4. CASE n + 1 < From(p) + Part
    <3>1. wpc'[p] = "lines" /\ line'[p] \in From(p)..(From(p) + Part - 1) /\ line'[p] - 1 = n
      <4> HIDE DEF n
      <4> QED BY <1>1, <1>3, <1>5, <2>3, <2>4
    <3> HIDE DEF n
    <3> QED BY <1>2, <1>5, <1>7, <2>1, <2>2, <3>1 DEF WorkerOK, LinesIn
  <2>5. CASE ~(n + 1 < From(p) + Part)
    <3>1. wpc'[p] = "filter" /\ n = From(p) + Part - 1
      BY <1>5, <2>3, <2>5
    <3> HIDE DEF n
    <3> QED BY <1>2, <1>5, <1>7, <2>1, <2>2, <3>1 DEF WorkerOK, LinesIn
  <2> QED BY <2>4, <2>5
<1>10. WorkerTypes'
  BY <1>1, <1>2, <1>4, <1>7 DEF WorkerTypes, WorkerPlace
<1>11. \A q \in Filter!Worker \ {p} : Untouched(q)
  BY <1>1, <1>4 DEF Untouched, WorkerTypes
<1> QED BY <1>7, <1>9, <1>10, <1>11, WorkerStepInv

LEMMA FilterLinesInv ==
  ASSUME FilterInv, NEW p \in Filter!Worker, Filter!FilterLines(p) PROVE FilterInv'
<1>1. /\ MasterOK /\ WorkerTypes /\ WorkerOK(p) /\ ChannelsOK(p) /\ h \in Nat \ {0}
      /\ Part \in Nat /\ From(p) \in Nat /\ p * Part = From(p) + Part
      /\ From(p) + Part + Part <= h
      /\ UNCHANGED <<h, wh, fpc, id, ligne, imageOut, nbLine, imageIn, toWorker, toMaster>>
  BY PartFacts DEF FilterInv, MasterOK, Filter!FilterLines, Filter!masterVars
<1>2. /\ Part' = Part /\ From(p)' = From(p) /\ (Filter!Worker)' = Filter!Worker
      /\ wpc[p] \in WorkerPlace
  BY <1>1, PartFrame DEF Filter!Worker, WorkerTypes
<1>3. /\ wpc[p] = "filter" /\ nbLine[p] = Part /\ LinesIn(p, From(p) + Part - 1)
      /\ DOMAIN imageIn[p] = 0..h
  BY <1>1 DEF Filter!FilterLines, Filter!GoTo, WorkerOK
<1>4. /\ wpc' = [wpc EXCEPT ![p] = "results"]
      /\ filtered' = [filtered EXCEPT ![p] =
           [j \in 0..h |-> IF j \in From(p)..(From(p) + Part) THEN Filter!Filtered(p, j)
                           ELSE filtered[p][j]]]
      /\ line' = [line EXCEPT ![p] = From(p)]
  BY <1>1, <1>3 DEF Filter!FilterLines, Filter!GoTo, Filter!FirstOf, From
<1>5. /\ wpc'[p] = "results" /\ line'[p] = From(p)
      /\ \A j \in 0..h : j \in From(p)..(From(p) + Part) => filtered'[p][j] = Filter!Filtered(p, j)
  BY <1>1, <1>4 DEF WorkerTypes
<1>6. FilteredOK(p)'
  <2>1. SUFFICES ASSUME NEW k1 \in 0..(h - 1), Inner(p, k1), k1 # wh[p] - 1
                 PROVE  filtered'[p][k1] = Filter!Reference(k1)
    <3>1. /\ \A q, j : Inner(q, j)' = Inner(q, j)
          /\ \A j : Filter!Reference(j)' = Filter!Reference(j)
      BY <1>1, PartFrame
    <3> QED BY <1>1, <3>1 DEF FilteredOK
  <2>2. /\ k1 \in Nat /\ k1 \in 0..h /\ k1 \in From(p)..(From(p) + Part - 1)
        /\ k1 # 0 => /\ k1 - 1 \in From(p)..(From(p) + Part - 1)
                     /\ k1 + 1 \in From(p)..(From(p) + Part - 1)
                     /\ k1 # h - 1
    BY <1>1, <2>1, InnerFacts
  <2>3. filtered'[p][k1] = Filter!Filtered(p, k1)
    BY <1>1, <1>5, <2>2
  <2>4. CASE k1 = 0
    BY <1>3, <2>2, <2>3, <2>4 DEF Filter!Filtered, Filter!Reference, LinesIn
  <2>5. CASE k1 # 0
    BY <1>3, <2>1, <2>2, <2>3, <2>5 DEF Filter!Filtered, Filter!Reference, LinesIn
  <2> QED BY <2>4, <2>5
<1>7. WorkerOK(p)'
  <2>1. From(p) \in From(p)..(From(p) + Part)
    BY <1>1
  <2> QED BY <1>1, <1>2, <1>3, <1>5, <1>6, <2>1 DEF WorkerOK, LinesIn
<1>8. ChannelsOK(p)'
  <2>1. /\ Got(p) = 2 + Part /\ Got(p)' = 2 + Part /\ SentBack(p) = 0
    BY <1>2, <1>3, <1>5 DEF Got, SentBack
  <2>2. SentBack(p)' = 0
    BY <1>1, <1>2, <1>5 DEF SentBack
  <2>3. Sent(p)' = Sent(p) /\ GotBack(p)' = GotBack(p) /\ Stream(p)' = Stream(p)
    <3>1. Stream(p)' = Stream(p)
      BY <1>1, PartFrame
    <3> QED BY <1>1, <1>2, <3>1 DEF Sent, GotBack
  <2>4. Segment(toWorker[p], Stream(p), Got(p), Sent(p))'
    BY <1>1, <2>1, <2>3 DEF ChannelsOK, Segment, IsSeq
  <2>5. Segment(toMaster[p], Results(p), GotBack(p), 0)
    BY <1>1, <2>1 DEF ChannelsOK
  <2>6. Len(toMaster[p]) = 0 /\ GotBack(p) = 0
    BY <2>5 DEF Segment, IsSeq
  <2>7. Segment(toMaster[p], Results(p), GotBack(p), SentBack(p))'
    BY <1>1, <2>2, <2>3, <2>5, <2>6 DEF Segment, IsSeq
  <2> QED BY <2>4, <2>7 DEF ChannelsOK
<1>9. WorkerTypes'
  BY <1>1, <1>2, <1>4 DEF WorkerTypes, WorkerPlace
<1>10. \A q \in Filter!Worker \ {p} :
         Untouched(q) /\ toWorker'[q] = toWorker[q] /\ toMaster'[q] = toMaster[q]
  BY <1>1, <1>4 DEF Untouched, WorkerTypes
<1> QED BY <1>1, <1>7, <1>8, <1>9, <1>10, WorkerStepInv

LEMMA SendResultInv ==
  ASSUME FilterInv, NEW p \in Filter!Worker, Filter!SendResult(p) \/ Filter!Finalize(p)
  PROVE  FilterInv'
<1>1. /\ MasterOK /\ WorkerTypes /\ WorkerOK(p) /\ ChannelsOK(p) /\ h \in Nat \ {0}
      /\ Part \in Nat /\ From(p) \in Nat /\ p * Part = From(p) + Part
      /\ UNCHANGED <<h, wh, fpc, id, ligne, imageOut, nbLine, imageIn, filtered, toWorker>>
  BY PartFacts
     DEF FilterInv, MasterOK, Filter!SendResult, Filter!Finalize, Filter!masterVars
<1>2. /\ Part' = Part /\ From(p)' = From(p) /\ (Filter!Worker)' = Filter!Worker
      /\ wpc[p] \in WorkerPlace /\ Stream(p)' = Stream(p) /\ Results(p)' = Results(p)
      /\ FilteredOK(p)' = FilteredOK(p)
      /\ Sent(p)' = Sent(p) /\ GotBack(p)' = GotBack(p)
  <2>1. /\ Part' = Part /\ From(p)' = From(p) /\ Stream(p)' = Stream(p)
        /\ \A q, j : Inner(q, j)' = Inner(q, j)
        /\ \A j : Filter!Reference(j)' = Filter!Reference(j)
    BY <1>1, PartFrame
  <2> QED BY <1>1, <2>1 DEF Filter!Worker, WorkerTypes, Results, FilteredOK, Sent, GotBack
<1>3. CASE Filter!SendResult(p)
  <2> DEFINE n == line[p]
  <2>1. /\ wpc[p] = "results" /\ nbLine[p] = Part /\ n \in From(p)..(From(p) + Part)
        /\ LinesIn(p, From(p) + Part - 1) /\ FilteredOK(p) /\ DOMAIN imageIn[p] = 0..h
    BY <1>1, <1>3 DEF Filter!SendResult, Filter!GoTo, WorkerOK
  <2>2. /\ wpc' = [wpc EXCEPT ![p] = IF n < From(p) + Part THEN "results" ELSE "finalize"]
        /\ toMaster' = [toMaster EXCEPT ![p] = Append(toMaster[p], filtered[p][n])]
        /\ line' = [line EXCEPT ![p] = n + 1]
    BY <1>1, <1>3, <2>1 DEF Filter!SendResult, Filter!GoTo
  <2>3. /\ wpc'[p] = IF n < From(p) + Part THEN "results" ELSE "finalize"
        /\ toMaster'[p] = Append(toMaster[p], filtered[p][n])
        /\ line'[p] = n + 1
    BY <1>1, <2>2 DEF WorkerTypes
  <2>4. /\ SentBack(p) = n - From(p) /\ SentBack(p)' = SentBack(p) + 1
        /\ Got(p)' = Got(p)
    <3>1. SentBack(p) = n - From(p)
      BY <2>1 DEF SentBack
    <3>2. SentBack(p)' = IF n < From(p) + Part THEN (n + 1) - From(p) ELSE Part + 1
      BY <1>2, <2>3 DEF SentBack
    <3>3. Got(p)' = Got(p)
      BY <1>2, <2>1, <2>3 DEF Got
    <3> HIDE DEF n
    <3> QED BY <1>1, <2>1, <3>1, <3>2, <3>3
  <2>5. filtered[p][n] = Results(p)[SentBack(p) + 1]
    <3> DEFINE e == SentBack(p) + 1
    <3>1. e \in Nat /\ From(p) + (e - 1) = n
      <4> HIDE DEF n
      <4> QED BY <1>1, <2>1, <2>4
    <3> HIDE DEF e
    <3>2. Results(p)[e] = filtered[p][From(p) + (e - 1)]
      BY <3>1 DEF Results
    <3> QED BY <3>1, <3>2 DEF e
  <2>6. ChannelsOK(p)'
    <3>1. Segment(toWorker[p], Stream(p), Got(p), Sent(p))'
      BY <1>1, <1>2, <2>4 DEF ChannelsOK, Segment, IsSeq
    <3>2. Segment(toMaster'[p], Results(p), GotBack(p), SentBack(p) + 1)
      BY <1>1, <2>3, <2>5, SegmentAppend DEF ChannelsOK
    <3>3. Segment(toMaster[p], Results(p), GotBack(p), SentBack(p))'
      BY <1>2, <2>4, <3>2 DEF Segment, IsSeq
    <3> QED BY <3>1, <3>3 DEF ChannelsOK
  <2>7. WorkerOK(p)'
    <3>1. n < From(p) + Part => n + 1 \in From(p)..(From(p) + Part)
      <4> HIDE DEF n
      <4> QED BY <1>1, <2>1
    <3> HIDE DEF n
    <3> QED BY <1>1, <1>2, <2>1, <2>3, <3>1 DEF WorkerOK, LinesIn
  <2>8. WorkerTypes'
    BY <1>1, <1>2, <2>2 DEF WorkerTypes, WorkerPlace
  <2>9. \A q \in Filter!Worker \ {p} :
          Untouched(q) /\ toWorker'[q] = toWorker[q] /\ toMaster'[q] = toMaster[q]
    BY <1>1, <2>2 DEF Untouched, WorkerTypes
  <2> QED BY <1>1, <2>6, <2>7, <2>8, <2>9, WorkerStepInv
<1>4. CASE Filter!Finalize(p)
  <2>1. /\ wpc[p] = "finalize" /\ wpc' = [wpc EXCEPT ![p] = "done"]
        /\ UNCHANGED <<line, toMaster>>
    BY <1>4 DEF Filter!Finalize, Filter!GoTo
  <2>2. wpc'[p] = "done" /\ line'[p] = line[p]
    BY <1>1, <2>1 DEF WorkerTypes
  <2>3. Got(p)' = Got(p) /\ SentBack(p)' = SentBack(p)
    BY <1>2, <2>1, <2>2 DEF Got, SentBack
  <2>4. ChannelsOK(p)'
    BY <1>1, <1>2, <2>1, <2>3 DEF ChannelsOK, Segment, IsSeq
  <2>5. WorkerOK(p)'
    BY <1>1, <1>2, <2>1, <2>2 DEF WorkerOK, LinesIn
  <2>6. WorkerTypes'
    BY <1>1, <1>2, <2>1 DEF WorkerTypes, WorkerPlace
  <2>7. \A q \in Filter!Worker \ {p} :
          Untouched(q) /\ toWorker'[q] = toWorker[q] /\ toMaster'[q] = toMaster[q]
    BY <1>1, <2>1 DEF Untouched, WorkerTypes
  <2> QED BY <1>1, <2>4, <2>5, <2>6, <2>7, WorkerStepInv
<1> QED BY <1>3, <1>4

LEMMA FilterInvNext == FilterInv /\ [Filter!Next]_(Filter!vars) => FilterInv'
<1> SUFFICES ASSUME FilterInv, [Filter!Next]_(Filter!vars) PROVE FilterInv'
  OBVIOUS
<1>1. CASE Filter!Master
  BY <1>1, SendHeaderInv, SendLineInv, RecvResultInv DEF Filter!Master
<1>2. ASSUME NEW p \in Filter!Worker, Filter!WorkerStep(p) PROVE FilterInv'
  BY <1>2, RecvHeaderInv, RecvLineInv, FilterLinesInv, SendResultInv DEF Filter!WorkerStep
<1>3. CASE UNCHANGED Filter!vars
  <2>1. /\ UNCHANGED <<h, fpc, id, ligne, imageOut, wpc, nbLine, line, wh, imageIn, filtered>>
        /\ UNCHANGED <<toWorker, toMaster>>
    BY <1>3 DEF Filter!vars, Filter!masterVars, Filter!workerVars
  <2>2. /\ (Filter!Worker)' = Filter!Worker /\ Part' = Part
        /\ \A q : From(q)' = From(q) /\ Stream(q)' = Stream(q)
        /\ \A q, j : Inner(q, j)' = Inner(q, j)
        /\ \A j : Filter!Reference(j)' = Filter!Reference(j)
    BY <2>1, PartFrame DEF Filter!Worker
  <2>3. ASSUME NEW q \in Filter!Worker
        PROVE  WorkerOK(q)' /\ ChannelsOK(q)' /\ GotBack(q)' = GotBack(q)
    <3>1. Sent(q)' = Sent(q) /\ GotBack(q)' = GotBack(q)
      BY <2>1, <2>2 DEF Sent, GotBack
    <3>2. Untouched(q) /\ WorkerOK(q) /\ ChannelsOK(q)
      BY <2>1 DEF Untouched, FilterInv
    <3>3. /\ WorkerOK(q)' /\ Got(q)' = Got(q) /\ SentBack(q)' = SentBack(q)
          /\ Results(q)' = Results(q)
      BY <2>1, <3>2, WorkerFrame
    <3> QED BY <2>1, <2>2, <3>1, <3>2, <3>3 DEF ChannelsOK, Segment, IsSeq
  <2>4. MasterOK'
    <3>1. From(id)' = From(id)
      BY <2>1, <2>2 DEF From
    <3> QED BY <2>1, <2>2, <3>1 DEF FilterInv, MasterOK
  <2>5. OutOK'
    BY <2>1, <2>2, <2>3 DEF FilterInv, OutOK
  <2>6. WorkerTypes'
    BY <2>1, <2>2 DEF FilterInv, WorkerTypes
  <2> QED BY <2>2, <2>3, <2>4, <2>5, <2>6 DEF FilterInv
<1> QED BY <1>1, <1>2, <1>3 DEF Filter!Next, Filter!Ended

(* A line of which one worker has received the neighbours comes out as the *)
(* sequential filter makes it: for every number of processes, every height *)
(* and every capacity of the channels (be-p.c).                            *)
THEOREM InnerLinesAreFiltered == LabsSpec => []InsideIsFiltered
<1>1. LabsInit => FilterInv
  BY FilterInvInit DEF LabsInit
<1>2. FilterInv /\ [LabsNext]_labsVars => FilterInv'
  BY FilterInvNext, LabRuns
<1>3. FilterInv => InsideIsFiltered
  <2> SUFFICES ASSUME FilterInv, fpc = "done", NEW p \in Filter!Worker, NEW k1 \in 0..(h - 1),
                      Filter!Read(k1) \subseteq ((p - 1) * Filter!MasterNbLine)..
                                                  (p * Filter!MasterNbLine - 1),
                      k1 # wh[p] - 1
               PROVE  imageOut[k1] = Filter!Reference(k1)
    BY DEF InsideIsFiltered, Filter!InsideIsFiltered
  <2>1. /\ h \in Nat \ {0} /\ From(p) \in Nat /\ Part \in Nat /\ p * Part = From(p) + Part
    BY PartFacts DEF FilterInv, MasterOK
  <2>2. Inner(p, k1)
    BY <2>1 DEF Inner, From, Part
  <2>3. k1 - From(p) < GotBack(p)
    <3>1. k1 \in From(p)..(From(p) + Part - 1)
      BY <2>1, <2>2, InnerFacts
    <3>2. GotBack(p) = Part + 1
      BY DEF GotBack
    <3> QED BY <2>1, <3>1, <3>2
  <2> QED BY <2>2, <2>3 DEF FilterInv, OutOK
<1> QED BY <1>1, <1>2, <1>3, PTL DEF LabsSpec

(***************************************************************************)
(* The priority ceiling.                                                   *)
(***************************************************************************)
TaskPlace == {"none", "start", "asleep", "obtain", "blocked", "critical", "compute", "done",
              "deleted"}

\* Who holds the semaphore is awake and runs at the priority of task 1; who waits for it
\* waits for such a task; task 2 does neither.
CeilingInv ==
  /\ step \in [0..3 -> TaskPlace \cup {"wait", "lower"}] /\ prio \in [0..3 -> Int] /\ holder \in 0..3
  /\ \A t \in 1..3 : step[t] \in TaskPlace
  /\ step[2] \notin {"obtain", "blocked", "critical"}
  /\ \A t \in 1..3 : step[t] = "none" <=> step[0] \in {"wait", "start"}
  /\ \A t \in 1..3 : step[t] = "critical" <=> holder = t
  /\ \A t \in 1..3 : prio[t] = IF holder = t THEN 21 ELSE 20 + t
  /\ \A t \in 1..3 : step[t] = "blocked" => holder # 0

LEMMA CeilingConstants ==
  /\ Ceiling!Tasks = 1..3 /\ Ceiling!All = 0..3 /\ Ceiling!MAIN = 0 /\ Ceiling!Ceiling = 21
  /\ \A t \in 1..3 : Ceiling!Task_Priority[t] = 20 + t
BY DEF Ceiling!Tasks, Ceiling!All, Ceiling!MAIN, Ceiling!Ceiling, Ceiling!Task_Priority,
       Ceiling!MAX_TASKS

LEMMA CeilingInvInit == Ceiling!Init => CeilingInv
BY CeilingConstants DEF Ceiling!Init, CeilingInv, TaskPlace

\* A task goes on to a place where it neither takes nor holds the semaphore.
LEMMA CeilingMove ==
  ASSUME CeilingInv, NEW t \in 1..3, NEW to \in {"asleep", "obtain", "compute", "done", "deleted"},
         step[t] \notin {"none", "critical"}, step' = [step EXCEPT ![t] = to],
         t = 2 => to # "obtain", UNCHANGED <<prio, holder>>
  PROVE  CeilingInv'
<1>1. /\ step' \in [0..3 -> TaskPlace \cup {"wait", "lower"}]
      /\ step'[t] = to /\ \A u \in 0..3 : u # t => step'[u] = step[u]
  BY DEF CeilingInv, TaskPlace
<1> QED BY <1>1 DEF CeilingInv, TaskPlace

LEMMA CeilingInvNext == CeilingInv /\ [Ceiling!Next]_ceilingVars => CeilingInv'
<1> SUFFICES ASSUME CeilingInv, Ceiling!Next PROVE CeilingInv'
  BY DEF CeilingInv, ceilingVars
<1> USE CeilingConstants
<1>1. CASE Ceiling!WaitEnds
  BY <1>1 DEF Ceiling!WaitEnds, CeilingInv, TaskPlace
<1>2. CASE Ceiling!StartTasks
  BY <1>2 DEF Ceiling!StartTasks, CeilingInv, TaskPlace
<1>3. CASE Ceiling!Lower \/ Ceiling!Delete(Ceiling!MAIN)
  BY <1>3 DEF Ceiling!Lower, Ceiling!Delete, Ceiling!GoTo, CeilingInv, TaskPlace
<1>4. ASSUME NEW t \in 1..3,
             Ceiling!Start(t) \/ Ceiling!WakeUp(t) \/ Ceiling!Compute(t) \/ Ceiling!Delete(t)
      PROVE  CeilingInv'
  BY <1>4, CeilingMove DEF Ceiling!Start, Ceiling!WakeUp, Ceiling!Compute, Ceiling!Delete, Ceiling!GoTo
<1>5. ASSUME NEW t \in 1..3, Ceiling!Obtain(t) PROVE CeilingInv'
  <2>1. CASE holder = 0
    BY <1>5, <2>1 DEF Ceiling!Obtain, Ceiling!GoTo, CeilingInv, TaskPlace
  <2>2. CASE holder # 0
    BY <1>5, <2>2 DEF Ceiling!Obtain, Ceiling!GoTo, CeilingInv, TaskPlace
  <2> QED BY <2>1, <2>2
<1>6. ASSUME NEW t \in 1..3, Ceiling!Release(t) PROVE CeilingInv'
  <2> DEFINE heir == IF \E u \in 1..3 : step[u] = "blocked"
                     THEN CHOOSE u \in 1..3 : step[u] = "blocked" ELSE 0
  <2>1. /\ step[t] = "critical" /\ holder' = heir
        /\ step' = [u \in 0..3 |-> IF u = t THEN "compute"
                                  ELSE IF u = heir /\ u # 0 THEN "critical" ELSE step[u]]
        /\ prio' = [u \in 0..3 |-> IF u = t THEN 20 + t
                                  ELSE IF u = heir /\ u # 0 THEN 21 ELSE prio[u]]
    BY <1>6 DEF Ceiling!Release
  <2>2. \/ heir = 0 /\ \A u \in 1..3 : step[u] # "blocked"
        \/ heir \in 1..3 /\ step[heir] = "blocked"
    OBVIOUS
  <2>3. \A u \in 1..3 : step[u] = "blocked" => u = heir
    <3>1. t \in {1, 3} /\ heir # t /\ step[2] # "blocked" /\ step[t] # "blocked"
      BY <2>1, <2>2 DEF CeilingInv
    <3> HIDE DEF heir
    <3> QED BY <2>2, <3>1
  <2> HIDE DEF heir
  <2>4. holder = t
    BY <2>1 DEF CeilingInv
  <2>5. CASE heir = 0
    BY <2>1, <2>3, <2>4, <2>5 DEF CeilingInv, TaskPlace
  <2>6. CASE heir # 0
    BY <2>1, <2>2, <2>3, <2>4, <2>6 DEF CeilingInv, TaskPlace
  <2> QED BY <2>5, <2>6
<1> QED BY <1>1, <1>2, <1>3, <1>4, <1>5, <1>6 DEF Ceiling!Next

\* Task 2 runs: task 1 is not awake, and if it were blocked the task it waits for would run.
LEMMA TaskTwoRuns ==
  ASSUME CeilingInv, Ceiling!Runs(2), step[2] \in {"start", "compute", "done"}
  PROVE  step[1] \in {"asleep", "deleted"}
<1> USE CeilingConstants
<1>1. \A u \in 1..3 : Ceiling!Awake(u) => prio[2] <= prio[u]
  BY DEF Ceiling!Runs
<1>2. prio[2] = 22 /\ step[1] # "none" /\ step[1] \in TaskPlace
  BY DEF CeilingInv
<1>3. holder \in {1, 3} => Ceiling!Awake(holder) /\ prio[holder] = 21
  BY DEF CeilingInv, Ceiling!Awake
<1>4. holder \notin {1, 3}
  <2> SUFFICES ASSUME holder \in {1, 3} PROVE FALSE
    OBVIOUS
  <2>1. prio[2] <= prio[holder] /\ prio[holder] = 21
    BY <1>1, <1>3
  <2> QED BY <1>2, <2>1
<1>5. step[1] # "blocked" /\ prio[1] = 21
  BY <1>4 DEF CeilingInv
<1>6. ~Ceiling!Awake(1)
  <2> SUFFICES ASSUME Ceiling!Awake(1) PROVE FALSE
    OBVIOUS
  <2> QED BY <1>1, <1>2, <1>5
<1> QED BY <1>2, <1>5, <1>6 DEF Ceiling!Awake, TaskPlace

(* Task 2 never runs while task 1 is awake or waits for task 3             *)
(* (IN_LAB_RTEMS/ex2).                                                     *)
THEOREM NoPriorityInversion == LabsSpec => NoInversion
<1>1. LabsInit => CeilingInv
  BY CeilingInvInit, LabRuns
<1>2. CeilingInv /\ [LabsNext]_labsVars => CeilingInv'
  BY CeilingInvNext, LabRuns
<1>3. CeilingInv /\ [LabsNext]_labsVars => [Ceiling!TaskTwoWaits]_ceilingVars
  <2> SUFFICES ASSUME CeilingInv, Ceiling!Next, step'[2] # step[2],
                      step[2] \in {"start", "compute", "done"}
               PROVE  step[1] \in {"asleep", "deleted"}
    BY LabRuns DEF Ceiling!TaskTwoWaits
  <2> USE CeilingConstants
  <2>1. Ceiling!Runs(2)
    <3>1. step \in [0..3 -> TaskPlace \cup {"wait", "lower"}] /\ step[2] # "blocked" /\ step[2] # "none"
      BY DEF CeilingInv
    <3>2. ~Ceiling!WaitEnds /\ ~Ceiling!StartTasks /\ ~Ceiling!Lower /\ ~Ceiling!Delete(Ceiling!MAIN)
      BY <3>1 DEF Ceiling!WaitEnds, Ceiling!StartTasks, Ceiling!Lower, Ceiling!Delete, Ceiling!GoTo,
                  CeilingInv
    <3>3. ASSUME NEW t \in 1..3,
                 \/ Ceiling!Start(t) \/ Ceiling!WakeUp(t) \/ Ceiling!Obtain(t)
                 \/ Ceiling!Compute(t) \/ Ceiling!Delete(t)
          PROVE  Ceiling!Runs(2)
      <4>1. t = 2
        BY <3>1, <3>3 DEF Ceiling!Start, Ceiling!WakeUp, Ceiling!Obtain, Ceiling!Compute,
                          Ceiling!Delete, Ceiling!GoTo
      <4> QED BY <3>3, <4>1 DEF Ceiling!Start, Ceiling!WakeUp, Ceiling!Obtain, Ceiling!Compute,
                                Ceiling!Delete, Ceiling!GoTo
    <3>4. ASSUME NEW t \in 1..3, Ceiling!Release(t) PROVE Ceiling!Runs(2)
      <4> DEFINE heir == IF \E u \in 1..3 : step[u] = "blocked"
                         THEN CHOOSE u \in 1..3 : step[u] = "blocked" ELSE 0
      <4>1. /\ Ceiling!Runs(t)
            /\ step'[2] = IF 2 = t THEN "compute" ELSE IF 2 = heir THEN "critical" ELSE step[2]
        BY <3>4 DEF Ceiling!Release
      <4>2. heir # 2
        BY <3>1
      <4> HIDE DEF heir
      <4> QED BY <4>1, <4>2
    <3> QED BY <3>2, <3>3, <3>4 DEF Ceiling!Next
  <2> QED BY <2>1, TaskTwoRuns
<1> QED BY <1>1, <1>2, <1>3, PTL DEF LabsSpec, NoInversion

=============================================================================
