--------------------------- MODULE WebServerProofs ---------------------------
(***************************************************************************)
(* Theorems about WebServer, for any numbers of workers, clients, requests *)
(* and failures: types, the single acceptor of lf_web.c, and the ownership *)
(* of descriptors in the programs that do not share client_fd.             *)
(***************************************************************************)
EXTENDS WebServer, FiniteSetTheorems, SequenceTheorems, TLAPS

LEMMA FdFacts == Fd \subseteq Nat /\ -1 \notin Fd
<1>1. IsFiniteSet(1..Requests)
  BY WebAssumption, FS_Interval
<1>2. IsFiniteSet(Conn)
  BY <1>1, WebAssumption, FS_Product DEF Conn
<1>3. Cardinality(Conn) \in Nat
  BY <1>2, FS_CardinalityType
<1> QED BY <1>3 DEF Fd

LEMMA CurrentIsConn == TypeOK => \A c \in Client : Current(c) \in Conn
BY DEF TypeOK, Current, Conn

-----------------------------------------------------------------------------
(* Types                                                                   *)

LEMMA TypeOKInit == Init => TypeOK
<1> SUFFICES ASSUME Init PROVE TypeOK
  OBVIOUS
<1>1. tasks \in Seq(Fd \cup {-1}) /\ backlog \in Seq(Conn)
  BY DEF Init
<1>2. turn \in [Client -> 1..Requests]
  BY WebAssumption DEF Init
<1>3. pc \in [Thread -> {"idle", "accept", "exec", "spin", "recv", "receiving", "send", "close"}]
  BY DEF Init
<1>4. failures \in 0..MaxFailures
  BY WebAssumption DEF Init
<1> QED BY <1>1, <1>2, <1>3, <1>4, WebAssumption DEF Init, TypeOK

LEMMA TypeOKNext == TypeOK /\ [Next]_vars => TypeOK'
<1> SUFFICES ASSUME TypeOK, [Next]_vars PROVE TypeOK'
  OBVIOUS
<1> USE WebAssumption DEF TypeOK, GoTo, CGoTo, clientVars, netVars, serverVars, Place, Thread
<1>1. ASSUME NEW t \in Thread, ServerStep(t) PROVE TypeOK'
  <2>1. CASE Accept(t)
    <3>1. Head(backlog) \in Conn /\ Tail(backlog) \in Seq(Conn)
      BY <2>1 DEF Accept
    <3> QED BY <2>1, <3>1 DEF Accept, AfterAccept
  <2>2. CASE AcceptFails(t)
    BY <2>2 DEF AcceptFails, AfterFailure, AfterAccept
  <2>3. CASE Exec(t)
    BY <2>3 DEF Exec, AfterExec, Pointed
  <2>4. CASE ExecFails(t)
    BY <2>4 DEF ExecFails, AfterExec
  <2>5. CASE Take(t)
    <3>1. Head(tasks) \in Fd \cup {-1} /\ Tail(tasks) \in Seq(Fd \cup {-1})
      BY <2>5 DEF Take
    <3> QED BY <2>5, <3>1 DEF Take
  <2>6. CASE RecvCall(t)
    BY <2>6 DEF RecvCall, Target
  <2>7. CASE RecvReturn(t)
    BY <2>7 DEF RecvReturn
  <2>8. CASE Send(t)
    BY <2>8 DEF Send
  <2>9. CASE Close(t)
    BY <2>9 DEF Close, Target
  <2> QED BY <1>1, <2>1, <2>2, <2>3, <2>4, <2>5, <2>6, <2>7, <2>8, <2>9 DEF ServerStep, Serve
<1>2. ASSUME NEW c \in Client, ClientStep(c) PROVE TypeOK'
  <2>0. \A x \in Client : Current(x) \in Conn
    BY CurrentIsConn
  <2>1. CASE ClearName(c)
    BY <2>1 DEF ClearName
  <2>2. CASE FillName(c)
    BY <2>2 DEF FillName
  <2>3. CASE Connect(c)
    BY <2>0, <2>3 DEF Connect
  <2>4. CASE Refused(c)
    <3>1. {Current(x) : x \in {y \in Client : cpc[y] \in {"send", "read"}}} \subseteq Conn
      BY <2>0
    <3>2. hungup' \subseteq Conn /\ up' \in BOOLEAN
      BY <2>4, <3>1 DEF Refused
    <3> QED BY <2>4, <3>2 DEF Refused
  <2>5. CASE SendRequest(c)
    BY <2>0, <2>5 DEF SendRequest
  <2>6. CASE ReadAnswer(c)
    BY <2>0, <2>6 DEF ReadAnswer
  <2> QED BY <1>2, <2>1, <2>2, <2>3, <2>4, <2>5, <2>6 DEF ClientStep
<1>3. CASE UNCHANGED vars
  BY <1>3 DEF vars
<1> QED BY <1>1, <1>2, <1>3 DEF Next

\* Every variable keeps its type, in the three programs and their client.
THEOREM WebTypeCorrect == Spec => []TypeOK
BY TypeOKInit, TypeOKNext, PTL DEF Spec

-----------------------------------------------------------------------------
(* The acceptor of lf_web.c.  Its main thread must be known to submit one  *)
(* task and never to accept.                                               *)

LEMMA ProgramStays == [Next]_vars => program' = program
<1>1. ASSUME NEW t \in Thread, ServerStep(t) PROVE program' = program
  BY <1>1 DEF ServerStep, Serve, Accept, AcceptFails, Exec, ExecFails, Take, RecvCall, RecvReturn,
              Send, Close
<1>2. ASSUME NEW c \in Client, ClientStep(c) PROVE program' = program
  BY <1>2 DEF ClientStep, ClearName, FillName, Connect, Refused, SendRequest, ReadAnswer
<1> QED BY <1>1, <1>2 DEF Next, vars

AcceptorInv == (program = "lf" => pc[Main] \in {"exec", "spin"}) /\ OneAcceptor

LEMMA AcceptorInvInit == Init => AcceptorInv
<1> SUFFICES ASSUME Init, program = "lf" PROVE AcceptorInv
  BY DEF AcceptorInv, OneAcceptor
<1>1. Main \in Thread /\ Accepting = {Main}
  BY WebAssumption DEF Init, Accepting, Thread
<1> QED BY <1>1 DEF Init, AcceptorInv, OneAcceptor

LEMMA AcceptorInvNext == TypeOK /\ AcceptorInv /\ [Next]_vars => AcceptorInv'
<1> SUFFICES ASSUME TypeOK, AcceptorInv, [Next]_vars PROVE AcceptorInv'
  OBVIOUS
<1>0. program' # "lf" => AcceptorInv'
  BY DEF AcceptorInv, OneAcceptor
<1> SUFFICES ASSUME program = "lf", program' = "lf" PROVE AcceptorInv'
  BY <1>0, ProgramStays
<1> USE WebAssumption DEF TypeOK, AcceptorInv, OneAcceptor, GoTo, Thread
<1>1. ASSUME NEW t \in Thread, ServerStep(t) PROVE AcceptorInv'
  <2>1. CASE Accept(t) \/ AcceptFails(t)
    <3>1. t # Main /\ Accepting' = Accepting /\ UNCHANGED <<tasks, lost>> /\ pc'[Main] = pc[Main]
      BY <2>1 DEF Accept, AcceptFails, AfterAccept, AfterFailure, Accepting
    <3> QED BY <3>1
  <2>2. CASE Exec(t)
    <3>1. t \in Accepting
      BY <2>2 DEF Exec, Accepting
    <3>2. Accepting = {t} /\ tasks = <<>> /\ ~lost
      BY <3>1
    <3>3. Accepting' = {}
      BY <2>2, <3>2 DEF Exec, AfterExec, Accepting
    <3>4. Len(tasks') = 1 /\ lost' = lost
      BY <2>2, <3>2 DEF Exec
    <3>5. pc'[Main] \in {"exec", "spin"}
      BY <2>2 DEF Exec, AfterExec
    <3> QED BY <3>2, <3>3, <3>4, <3>5
  <2>3. CASE ExecFails(t)
    <3>1. t \in Accepting
      BY <2>3 DEF ExecFails, Accepting
    <3>2. Accepting = {t} /\ tasks = <<>>
      BY <3>1
    <3>3. Accepting' = {} /\ tasks' = <<>> /\ lost'
      BY <2>3, <3>2 DEF ExecFails, AfterExec, Accepting
    <3>4. pc'[Main] \in {"exec", "spin"}
      BY <2>3 DEF ExecFails, AfterExec
    <3> QED BY <3>3, <3>4
  <2>4. CASE Take(t)
    <3>1. Len(tasks) = 1 /\ Accepting = {} /\ ~lost
      BY <2>4 DEF Take
    <3>2. tasks' = <<>> /\ lost' = lost
      <4>1. tasks' = Tail(tasks) /\ lost' = lost
        BY <2>4 DEF Take
      <4>2. Len(Tail(tasks)) = 0 /\ Tail(tasks) \in Seq(Fd \cup {-1})
        BY <2>4, <3>1, HeadTailProperties DEF Take
      <4> QED BY <4>1, <4>2, EmptySeq
    <3>3. Accepting' = {t} /\ t # Main
      BY <2>4, <3>1 DEF Take, Accepting
    <3> QED BY <2>4, <3>1, <3>2, <3>3 DEF Take
  <2>5. CASE Serve(t)
    <3>1. /\ t # Main /\ Accepting' = Accepting
          /\ UNCHANGED <<tasks, lost>> /\ pc'[Main] = pc[Main]
      BY <2>5 DEF Serve, RecvCall, RecvReturn, Send, Close, Accepting
    <3> QED BY <3>1
  <2> QED BY <1>1, <2>1, <2>2, <2>3, <2>4, <2>5 DEF ServerStep
<1>2. ASSUME NEW c \in Client, ClientStep(c) PROVE AcceptorInv'
  <2>1. UNCHANGED serverVars
    BY <1>2 DEF ClientStep, ClearName, FillName, Connect, Refused, SendRequest, ReadAnswer
  <2> QED BY <2>1 DEF serverVars, Accepting
<1>3. CASE UNCHANGED vars
  BY <1>3 DEF vars, serverVars, Accepting
<1> QED BY <1>1, <1>2, <1>3 DEF Next

\* lf_web.c: the thread that has accepted promotes one successor, so that two threads
\* never accept at once; none does after a task is lost, and one always does before.
THEOREM OneThreadAccepts == Spec => []OneAcceptor
<1>1. AcceptorInv => OneAcceptor
  BY DEF AcceptorInv
<1> QED BY <1>1, WebTypeCorrect, AcceptorInvInit, AcceptorInvNext, PTL DEF Spec

-----------------------------------------------------------------------------
(* The descriptors.  In simple_web_1.c only main serves, in lf_web.c only   *)
(* the others; so whoever serves uses its own client_fd.                    *)

Roles ==
  /\ program \in Programs
  /\ program = "simple" => /\ tasks = <<>> /\ pc[Main] # "exec"
                           /\ \A w \in Worker : pc[w] = "idle"
  /\ program = "lf" => pc[Main] \in {"exec", "spin"}

\* DescriptorsOwned with the thread's own variable.
Owned ==
  /\ \A d \in Fd : file[d] # NULL =>
       \E t \in Serving : fd[t] = d /\ \A s \in Serving : fd[s] = d => s = t
  /\ \A t \in Serving : fd[t] # -1 => file[fd[t]] # NULL

NoPointer == "tp" \notin Programs

LEMMA OwnPlace ==
  ASSUME NoPointer, TypeOK, Roles
  PROVE  /\ \A t \in Serving : Place(t) = t
         /\ \A t \in Thread : ServerStep(t) => Place(t) = t
<1>1. CASE program = "lf"
  BY <1>1 DEF Place
<1>2. CASE program = "simple"
  <2>1. \A t \in Thread : t = Main \/ pc[t] = "idle"
    BY <1>2 DEF Roles, Thread
  <2>2. \A t \in Serving : t = Main
    BY <2>1 DEF Serving
  <2>3. ASSUME NEW t \in Thread, ServerStep(t) PROVE t = Main
    BY <1>2, <2>1, <2>3 DEF ServerStep, Serve, Accept, AcceptFails, Exec, ExecFails, Take, RecvCall,
                            RecvReturn, Send, Close, GoTo, Roles
  <2> QED BY <1>2, <2>2, <2>3 DEF Place
<1> QED BY <1>1, <1>2 DEF NoPointer, Roles, TypeOK

LEMMA OwnedIsOwned ==
  ASSUME NoPointer, TypeOK, Roles
  PROVE  Owned <=> DescriptorsOwned
BY OwnPlace DEF Owned, DescriptorsOwned

LEMMA RolesNext == TypeOK /\ Roles /\ [Next]_vars => Roles'
<1> SUFFICES ASSUME TypeOK, Roles, [Next]_vars PROVE Roles'
  OBVIOUS
<1> USE WebAssumption, ProgramStays DEF TypeOK, Roles, GoTo, Thread
<1>1. ASSUME NEW t \in Thread, ServerStep(t) PROVE Roles'
  BY <1>1 DEF ServerStep, Serve, Accept, AcceptFails, AfterAccept, AfterFailure, Exec, ExecFails,
              AfterExec, Take, RecvCall, RecvReturn, Send, Close
<1>2. ASSUME NEW c \in Client, ClientStep(c) PROVE Roles'
  BY <1>2 DEF ClientStep, ClearName, FillName, Connect, Refused, SendRequest, ReadAnswer, serverVars
<1>3. CASE UNCHANGED vars
  BY <1>3 DEF vars, serverVars
<1> QED BY <1>1, <1>2, <1>3 DEF Next

LEMMA OwnedNext ==
  ASSUME NoPointer, TypeOK, Roles, Owned, [Next]_vars
  PROVE  Owned'
<1> USE WebAssumption, ProgramStays DEF TypeOK, GoTo, Thread
<1>0. program = "simple" \/ program = "lf"
  BY DEF NoPointer, Roles
<1>1. ASSUME Serving' = Serving, UNCHANGED <<fd, file>> PROVE Owned'
  BY <1>1 DEF Owned
<1>2. ASSUME NEW t \in Thread, ServerStep(t) PROVE Owned'
  <2>0. Place(t) = t
    BY <1>2, OwnPlace
  <2>1. CASE Accept(t)
    <3>1. PICK d \in Fd : /\ file[d] = NULL
                          /\ file' = [file EXCEPT ![d] = Head(backlog)]
                          /\ fd' = [fd EXCEPT ![t] = d]
      BY <2>0, <2>1 DEF Accept
    <3>2. Head(backlog) # NULL
      BY <2>1 DEF Accept, Conn
    <3>3. t \notin Serving /\ Serving' = Serving \cup {t}
      BY <1>0, <2>1 DEF Accept, AfterAccept, Serving, Roles
    <3>4. d # -1 /\ \A s \in Serving : fd'[s] = fd[s] /\ fd[s] # d
      <4>1. d # -1
        BY FdFacts
      <4>2. ASSUME NEW s \in Serving PROVE fd'[s] = fd[s] /\ fd[s] # d
        <5>1. s \in Thread /\ s # t
          BY <3>3 DEF Serving
        <5>2. fd[s] # -1 => file[fd[s]] # NULL
          BY DEF Owned
        <5> QED BY <3>1, <4>1, <5>1, <5>2
      <4> QED BY <4>1, <4>2
    <3>5. ASSUME NEW e \in Fd, file'[e] # NULL
          PROVE  \E u \in Serving' : fd'[u] = e /\ \A s \in Serving' : fd'[s] = e => s = u
      <4>1. CASE e = d
        BY <3>1, <3>3, <3>4, <4>1
      <4>2. CASE e # d
        <5>1. PICK u \in Serving : fd[u] = e /\ \A s \in Serving : fd[s] = e => s = u
          BY <3>1, <3>5, <4>2 DEF Owned
        <5>2. fd'[t] = d
          BY <3>1
        <5>3. u \in Serving' /\ fd'[u] = e
          BY <3>3, <3>4, <5>1
        <5>4. ASSUME NEW s \in Serving', fd'[s] = e PROVE s = u
          BY <3>3, <3>4, <4>2, <5>1, <5>2, <5>4
        <5> QED BY <5>3, <5>4
      <4> QED BY <4>1, <4>2
    <3>6. ASSUME NEW u \in Serving', fd'[u] # -1 PROVE file'[fd'[u]] # NULL
      BY <3>1, <3>2, <3>3, <3>4, <3>6 DEF Owned, Serving
    <3> QED BY <3>5, <3>6 DEF Owned
  <2>2. CASE AcceptFails(t)
    <3>1. fd' = [fd EXCEPT ![t] = -1] /\ file' = file
      BY <2>0, <2>2 DEF AcceptFails
    <3>2. t \notin Serving /\ Serving' = Serving \cup {t}
      BY <1>0, <2>2 DEF AcceptFails, AfterFailure, AfterAccept, Serving, Roles
    <3>3. \A s \in Serving : fd'[s] = fd[s]
      BY <3>1, <3>2
    <3>4. fd'[t] = -1
      BY <3>1
    <3>5. ASSUME NEW e \in Fd, file'[e] # NULL
          PROVE  \E u \in Serving' : fd'[u] = e /\ \A s \in Serving' : fd'[s] = e => s = u
      <4>1. PICK u \in Serving : fd[u] = e /\ \A s \in Serving : fd[s] = e => s = u
        BY <3>1, <3>5 DEF Owned
      <4>2. e # -1
        BY FdFacts
      <4>3. u \in Serving' /\ fd'[u] = e
        BY <3>2, <3>3, <4>1
      <4>4. ASSUME NEW s \in Serving', fd'[s] = e PROVE s = u
        BY <3>2, <3>3, <3>4, <4>1, <4>2, <4>4
      <4> QED BY <4>3, <4>4
    <3>6. \A u \in Serving' : fd'[u] # -1 => file'[fd'[u]] # NULL
      BY <3>1, <3>2, <3>3, <3>4 DEF Owned
    <3> QED BY <3>5, <3>6 DEF Owned
  <2>3. CASE Exec(t) \/ ExecFails(t)
    <3>1. Serving' = Serving
      BY <1>0, <2>3 DEF Exec, ExecFails, AfterExec, Serving, Roles
    <3> QED BY <1>1, <2>3, <3>1 DEF Exec, ExecFails
  <2>4. CASE Take(t)
    <3>1. Serving' = Serving
      BY <1>0, <2>4 DEF Take, Serving, Roles
    <3> QED BY <1>1, <2>4, <3>1 DEF Take
  <2>5. CASE RecvCall(t) \/ RecvReturn(t) \/ Send(t)
    <3>1. Serving' = Serving
      BY <2>5 DEF RecvCall, RecvReturn, Send, Serving
    <3> QED BY <1>1, <2>5, <3>1 DEF RecvCall, RecvReturn, Send
  <2>6. CASE Close(t)
    <3>1. t \in Serving /\ Serving' = Serving \ {t}
      BY <2>6 DEF Close, Serving
    <3>2. file' = [d \in Fd |-> IF d = fd[t] THEN NULL ELSE file[d]]
      BY <2>0, <2>6 DEF Close
    <3>3. \A s \in Serving \ {t} : fd'[s] = fd[s]
      BY <2>6, <3>1 DEF Close, Serving
    <3>4. \A s \in Serving \ {t} : fd[s] = fd[t] => fd[s] = -1
      BY <3>1 DEF Owned, Serving
    <3>5. ASSUME NEW e \in Fd, file'[e] # NULL
          PROVE  \E u \in Serving' : fd'[u] = e /\ \A s \in Serving' : fd'[s] = e => s = u
      <4>1. e # fd[t] /\ file[e] # NULL
        BY <3>2, <3>5
      <4>2. PICK u \in Serving : fd[u] = e /\ \A s \in Serving : fd[s] = e => s = u
        BY <4>1 DEF Owned
      <4> QED BY <3>1, <3>3, <4>1, <4>2
    <3>6. ASSUME NEW u \in Serving', fd'[u] # -1 PROVE file'[fd'[u]] # NULL
      <4>1. u \in Serving \ {t} /\ fd'[u] = fd[u] /\ fd[u] # fd[t]
        BY <3>1, <3>3, <3>4, <3>6
      <4> QED BY <3>2, <3>6, <4>1 DEF Owned, Serving
    <3> QED BY <3>5, <3>6 DEF Owned
  <2> QED BY <1>2, <2>1, <2>2, <2>3, <2>4, <2>5, <2>6 DEF ServerStep, Serve
<1>3. ASSUME NEW c \in Client, ClientStep(c) PROVE Owned'
  <2>1. UNCHANGED serverVars
    BY <1>3 DEF ClientStep, ClearName, FillName, Connect, Refused, SendRequest, ReadAnswer
  <2> QED BY <1>1, <2>1 DEF serverVars, Serving
<1>4. CASE UNCHANGED vars
  BY <1>1, <1>4 DEF vars, serverVars, Serving
<1> QED BY <1>2, <1>3, <1>4 DEF Next

\* Without the shared client_fd of tp_web_1.c, every open descriptor is in the hands of
\* one thread, and nobody serves or closes one that is not open, although their numbers
\* are given out again.
THEOREM NoDescriptorIsShared ==
  ASSUME NoPointer
  PROVE  Spec => []DescriptorsOwned
<1> DEFINE Inv == TypeOK /\ Roles /\ Owned
<1>1. Init => Inv
  <2> SUFFICES ASSUME Init PROVE Roles /\ Owned
    BY TypeOKInit
  <2>1. Serving = {}
    BY WebAssumption DEF Init, Serving, NoPointer, Thread
  <2>2. Owned
    BY <2>1 DEF Init, Owned
  <2>3. Roles
    BY WebAssumption DEF Init, Roles, Thread
  <2> QED BY <2>2, <2>3
<1>2. Inv /\ [Next]_vars => Inv'
  BY TypeOKNext, RolesNext, OwnedNext
<1>3. Inv => DescriptorsOwned
  BY OwnedIsOwned
<1> HIDE DEF Inv
<1> QED BY <1>1, <1>2, <1>3, PTL DEF Spec

-----------------------------------------------------------------------------
(* The answers.  A connection is known to the server from connect on, in    *)
(* one place only: it waits, or is open, or was closed.                     *)

Waits(c) == \E i \in 1..Len(backlog) : backlog[i] = c
Open(c) == \E d \in Fd : file[d] = c

Apart ==
  /\ \A i, j \in 1..Len(backlog) : backlog[i] = backlog[j] => i = j
  /\ \A d, e \in Fd : file[d] = file[e] /\ file[d] # NULL => d = e
  /\ \A c \in Conn : ~(Waits(c) /\ Open(c)) /\ (c \in closed => ~Waits(c) /\ ~Open(c))

\* A client thread has not made this connection yet.
NotYet(x, k) ==
  k > turn[x] \/ (k = turn[x] /\ cpc[x] \in {"clear", "fill", "connect"})

Unknown ==
  \A x \in Client, k \in 1..Requests :
    NotYet(x, k) => ~Waits(<<x, k>>) /\ ~Open(<<x, k>>) /\ <<x, k>> \notin closed

\* The connection that the thread t has served and not closed.
Served(t, c) == pc[t] = "close" /\ fd[t] # -1 /\ file[fd[t]] = c

\* An answer has been sent on the connections closed and about to be closed; what a
\* running client has closed was answered.
Counted ==
  /\ \A c \in Conn : answers[c] = IF c \in closed \/ \E t \in Thread : Served(t, c)
                                  THEN 1 ELSE 0
  /\ up => \A c \in hungup : answers[c] = 1

AnswerInv == Apart /\ Unknown /\ Counted

LEMMA AnswerInvInit == Init => AnswerInv
<1> SUFFICES ASSUME Init PROVE AnswerInv
  OBVIOUS
<1>1. \A c \in Conn : ~Waits(c) /\ ~Open(c) /\ c \notin closed
  BY WebAssumption DEF Init, Waits, Open, Conn
<1>2. Apart
  BY <1>1 DEF Init, Apart
<1>3. Unknown
  BY <1>1 DEF Unknown, Conn
<1>4. Counted
  BY DEF Init, Counted, Served
<1> QED BY <1>2, <1>3, <1>4 DEF AnswerInv

\* A step that leaves the connections where they are, and neither sends nor closes.
LEMMA AnswerFrame ==
  ASSUME AnswerInv,
         UNCHANGED <<backlog, file, closed, answers>>,
         \A t \in Thread, c \in Conn : Served(t, c)' <=> Served(t, c),
         \A x \in Client, k \in 1..Requests : NotYet(x, k)' => NotYet(x, k),
         up' => up /\ \A c \in hungup' : answers[c] = 1
  PROVE  AnswerInv'
<1>1. \A c : (Waits(c)' <=> Waits(c)) /\ (Open(c)' <=> Open(c))
  BY DEF Waits, Open
<1>2. Apart' /\ Unknown'
  BY <1>1 DEF AnswerInv, Apart, Unknown
<1>3. Counted'
  BY DEF AnswerInv, Counted
<1> QED BY <1>2, <1>3 DEF AnswerInv

LEMMA AnswerServer ==
  ASSUME NoPointer, TypeOK, Roles, Owned, AnswerInv, NEW t \in Thread, ServerStep(t)
  PROVE  AnswerInv'
<1> USE WebAssumption DEF TypeOK, GoTo, Thread
<1>0. Place(t) = t
  BY OwnPlace
<1>n. NULL \notin Conn /\ -1 \notin Fd
  BY FdFacts DEF Conn
<1>c. ASSUME UNCHANGED clientVars
      PROVE  \A x \in Client, k \in 1..Requests : NotYet(x, k)' <=> NotYet(x, k)
  BY <1>c DEF clientVars, NotYet
<1>o. \A s \in Thread : pc[s] = "close" /\ fd[s] # -1 => file[fd[s]] \in Conn
  BY DEF Owned, Serving
<1>1. CASE Accept(t)
  <2>1. PICK d \in Fd : /\ file[d] = NULL
                        /\ file' = [file EXCEPT ![d] = Head(backlog)]
                        /\ fd' = [fd EXCEPT ![t] = d]
    BY <1>0, <1>1 DEF Accept
  <2>2. /\ backlog # <<>> /\ backlog' = Tail(backlog)
        /\ pc[t] = "accept" /\ pc'[t] # "close"
        /\ \A s \in Thread : s # t => pc'[s] = pc[s]
        /\ UNCHANGED <<clientVars, answers, closed>>
    BY <1>1 DEF Accept, AfterAccept
  <2>3. /\ Head(backlog) = backlog[1] /\ backlog[1] \in Conn
        /\ Len(backlog') = Len(backlog) - 1 /\ Len(backlog) \in Nat \ {0}
        /\ \A i \in 1..Len(backlog') : backlog'[i] = backlog[i + 1]
    BY <2>2
  <2>4. \A c \in Conn : Waits(c)' <=> Waits(c) /\ c # backlog[1]
    <3>1. ASSUME NEW c \in Conn, Waits(c)' PROVE Waits(c) /\ c # backlog[1]
      <4>1. PICK i \in 1..Len(backlog') : backlog'[i] = c
        BY <3>1 DEF Waits
      <4>2. i + 1 \in 1..Len(backlog) /\ 1 \in 1..Len(backlog) /\ backlog[i + 1] = c /\ i + 1 # 1
        BY <2>3, <4>1
      <4> QED BY <4>2 DEF Waits, AnswerInv, Apart
    <3>2. ASSUME NEW c \in Conn, Waits(c), c # backlog[1] PROVE Waits(c)'
      <4>1. PICK i \in 1..Len(backlog) : backlog[i] = c
        BY <3>2 DEF Waits
      <4>2. i - 1 \in 1..Len(backlog') /\ backlog'[i - 1] = c
        BY <2>3, <3>2, <4>1
      <4> QED BY <4>2 DEF Waits
    <3> QED BY <3>1, <3>2
  <2>5. \A c \in Conn : Open(c)' <=> Open(c) \/ c = backlog[1]
    BY <1>n, <2>1, <2>3 DEF Open
  <2>6. Waits(backlog[1]) /\ ~Open(backlog[1]) /\ backlog[1] \notin closed
    <3>1. Waits(backlog[1])
      BY <2>3 DEF Waits
    <3> QED BY <2>3, <3>1 DEF AnswerInv, Apart
  <2>7. Apart'
    <3>1. ASSUME NEW i \in 1..Len(backlog'), NEW j \in 1..Len(backlog'), backlog'[i] = backlog'[j]
          PROVE  i = j
      <4>1. i + 1 \in 1..Len(backlog) /\ j + 1 \in 1..Len(backlog)
        BY <2>3
      <4>2. backlog[i + 1] = backlog[j + 1]
        BY <2>3, <3>1
      <4>3. i + 1 = j + 1
        BY <4>1, <4>2 DEF AnswerInv, Apart
      <4> QED BY <4>3
    <3>2. \A e \in Fd : file[e] # backlog[1]
      BY <2>6 DEF Open
    <3>3. \A e, g \in Fd : file'[e] = file'[g] /\ file'[e] # NULL => e = g
      BY <2>1, <2>3, <3>2 DEF AnswerInv, Apart
    <3>4. ASSUME NEW c \in Conn
          PROVE  ~(Waits(c)' /\ Open(c)') /\ (c \in closed' => ~Waits(c)' /\ ~Open(c)')
      BY <2>2, <2>4, <2>5, <2>6 DEF AnswerInv, Apart
    <3> QED BY <3>1, <3>3, <3>4 DEF Apart
  <2>8. Unknown'
    <3>1. ASSUME NEW x \in Client, NEW k \in 1..Requests, NotYet(x, k)'
          PROVE  ~Waits(<<x, k>>)' /\ ~Open(<<x, k>>)' /\ <<x, k>> \notin closed'
      <4>1. <<x, k>> \in Conn /\ ~Waits(<<x, k>>) /\ ~Open(<<x, k>>) /\ <<x, k>> \notin closed
        BY <1>c, <2>2, <3>1 DEF AnswerInv, Unknown, Conn
      <4>2. <<x, k>> # backlog[1]
        BY <2>6, <4>1
      <4> QED BY <2>2, <2>4, <2>5, <4>1, <4>2
    <3> QED BY <3>1 DEF Unknown
  <2>9. Counted'
    <3>1. \A s \in Thread, c \in Conn : Served(s, c)' <=> Served(s, c)
      <4>1. ASSUME NEW s \in Thread, s # t, pc[s] = "close", fd[s] # -1 PROVE fd[s] # d
        BY <1>n, <1>o, <2>1, <4>1
      <4> QED BY <2>1, <2>2, <4>1 DEF Served
    <3> QED BY <2>2, <3>1 DEF AnswerInv, Counted, clientVars
  <2> QED BY <2>7, <2>8, <2>9 DEF AnswerInv
<1>2. CASE AcceptFails(t) \/ Exec(t) \/ ExecFails(t) \/ Take(t) \/ RecvCall(t) \/ RecvReturn(t)
  <2>1. /\ UNCHANGED <<backlog, file, closed, answers, clientVars>>
        /\ pc[t] # "close" /\ pc'[t] # "close"
        /\ \A s \in Thread : s # t => pc'[s] = pc[s] /\ fd'[s] = fd[s]
    BY <1>0, <1>2 DEF AcceptFails, AfterFailure, AfterAccept, Exec, ExecFails, AfterExec, Take,
                      RecvCall, RecvReturn, netVars
  <2>2. \A s \in Thread, c \in Conn : Served(s, c)' <=> Served(s, c)
    BY <2>1 DEF Served
  <2>3. up' => up /\ \A c \in hungup' : answers[c] = 1
    BY <2>1 DEF AnswerInv, Counted, clientVars
  <2> QED BY <1>c, <2>1, <2>2, <2>3, AnswerFrame
<1>3. CASE Send(t)
  <2>1. /\ pc[t] = "send" /\ pc' = [pc EXCEPT ![t] = "close"]
        /\ answers' = [c \in Conn |-> IF c = Target(t) THEN answers[c] + 1 ELSE answers[c]]
        /\ UNCHANGED <<fd, file, clientVars, backlog, closed>>
    BY <1>3 DEF Send
  <2>2. Apart' /\ Unknown'
    <3>1. \A c : (Waits(c)' <=> Waits(c)) /\ (Open(c)' <=> Open(c))
      BY <2>1 DEF Waits, Open
    <3> QED BY <1>c, <2>1, <3>1 DEF AnswerInv, Apart, Unknown
  <2>3. \A s \in Thread, c \in Conn :
          Served(s, c)' <=> Served(s, c) \/ (s = t /\ c = Target(t))
    BY <1>0, <1>n, <2>1 DEF Served, Target
  <2>4. ASSUME Target(t) \in Conn
        PROVE  Target(t) \notin closed /\ \A s \in Thread : ~Served(s, Target(t))
    <3>1. fd[t] \in Fd /\ file[fd[t]] = Target(t)
      BY <1>0, <1>n, <2>4 DEF Target
    <3>2. Target(t) \notin closed
      BY <2>4, <3>1 DEF AnswerInv, Apart, Open
    <3>3. ASSUME NEW s \in Thread, Served(s, Target(t)) PROVE FALSE
      <4>1. fd[s] = fd[t]
        BY <1>n, <2>4, <3>1, <3>3 DEF Served, AnswerInv, Apart
      <4>2. s \in Serving /\ t \in Serving /\ s # t
        BY <2>1, <3>3 DEF Served, Serving
      <4> QED BY <1>n, <2>4, <3>1, <4>1, <4>2 DEF Owned
    <3> QED BY <3>2, <3>3
  <2>5. \A c \in Conn : answers'[c] = IF c = Target(t) THEN 1 ELSE answers[c]
    BY <2>1, <2>4 DEF AnswerInv, Counted
  <2>6. Counted'
    BY <2>1, <2>3, <2>4, <2>5 DEF AnswerInv, Counted, clientVars
  <2> QED BY <2>2, <2>6 DEF AnswerInv
<1>4. CASE Close(t)
  <2>1. /\ pc[t] = "close" /\ pc'[t] # "close"
        /\ \A s \in Thread : s # t => pc'[s] = pc[s] /\ fd'[s] = fd[s]
        /\ closed' = closed \cup ({Target(t)} \ {NULL})
        /\ file' = [d \in Fd |-> IF d = fd[t] THEN NULL ELSE file[d]]
        /\ UNCHANGED <<clientVars, backlog, answers>>
    BY <1>0, <1>4 DEF Close
  <2>2. \A c \in Conn : /\ Waits(c)' <=> Waits(c)
                        /\ c = Target(t) <=> Served(t, c)
                        /\ Open(c)' <=> Open(c) /\ c # Target(t)
    <3>1. \A c \in Conn : c = Target(t) <=> fd[t] \in Fd /\ file[fd[t]] = c
      BY <1>0, <1>n DEF Target
    <3>2. \A d \in Fd : file[d] \in Conn /\ file[d] = Target(t) => d = fd[t]
      BY <1>n, <3>1 DEF AnswerInv, Apart
    <3>3. \A c \in Conn : Open(c)' <=> Open(c) /\ c # Target(t)
      BY <1>n, <2>1, <3>1, <3>2 DEF Open
    <3> QED BY <1>n, <2>1, <3>1, <3>3 DEF Waits, Served
  <2>3. \A c \in Conn : c \in closed' <=> c \in closed \/ c = Target(t)
    BY <1>n, <2>1
  <2>4. Apart'
    <3>1. \A d, e \in Fd : file'[d] = file'[e] /\ file'[d] # NULL => d = e
      BY <2>1 DEF AnswerInv, Apart
    <3>2. ASSUME NEW c \in Conn, c = Target(t) PROVE ~Waits(c)
      <4>1. Open(c)
        BY <1>n, <2>2, <3>2 DEF Open, Served
      <4> QED BY <4>1 DEF AnswerInv, Apart
    <3>3. ASSUME NEW c \in Conn
          PROVE  ~(Waits(c)' /\ Open(c)') /\ (c \in closed' => ~Waits(c)' /\ ~Open(c)')
      BY <2>2, <2>3, <3>2 DEF AnswerInv, Apart
    <3>4. \A i, j \in 1..Len(backlog') : backlog'[i] = backlog'[j] => i = j
      BY <2>1 DEF AnswerInv, Apart
    <3> QED BY <3>1, <3>3, <3>4 DEF Apart
  <2>5. Unknown'
    <3>1. ASSUME NEW x \in Client, NEW k \in 1..Requests, NotYet(x, k)'
          PROVE  ~Waits(<<x, k>>)' /\ ~Open(<<x, k>>)' /\ <<x, k>> \notin closed'
      <4>1. <<x, k>> \in Conn /\ ~Waits(<<x, k>>) /\ ~Open(<<x, k>>) /\ <<x, k>> \notin closed
        BY <1>c, <2>1, <3>1 DEF AnswerInv, Unknown, Conn
      <4>2. <<x, k>> # Target(t)
        BY <1>n, <2>2, <4>1 DEF Served, Open
      <4> QED BY <2>2, <2>3, <4>1, <4>2
    <3> QED BY <3>1 DEF Unknown
  <2>6. \A s \in Thread, c \in Conn : Served(s, c)' <=> Served(s, c) /\ s # t
    <3>1. ASSUME NEW s \in Thread, s # t, pc[s] = "close", fd[s] # -1 PROVE fd[s] # fd[t]
      <4>1. s \in Serving /\ t \in Serving /\ file[fd[s]] # NULL
        BY <1>n, <1>o, <2>1, <3>1 DEF Serving
      <4> QED BY <3>1, <4>1 DEF Owned
    <3> QED BY <1>n, <2>1, <3>1 DEF Served
  <2>7. Counted'
    <3>1. ASSUME NEW c \in Conn
          PROVE  (c \in closed' \/ \E s \in Thread : Served(s, c)')
                 <=> (c \in closed \/ \E s \in Thread : Served(s, c))
      BY <2>2, <2>3, <2>6
    <3> QED BY <2>1, <3>1 DEF AnswerInv, Counted, clientVars
  <2> QED BY <2>4, <2>5, <2>7 DEF AnswerInv
<1> QED BY <1>1, <1>2, <1>3, <1>4 DEF ServerStep, Serve

LEMMA AnswerClient ==
  ASSUME TypeOK, AnswerInv, NEW c \in Client, ClientStep(c)
  PROVE  AnswerInv'
<1> USE WebAssumption DEF TypeOK, CGoTo
<1>s. UNCHANGED <<pc, fd, file, answers, closed>>
  BY DEF ClientStep, ClearName, FillName, Connect, Refused, SendRequest, ReadAnswer, serverVars,
         netVars
<1>0. \A t \in Thread, e \in Conn : Served(t, e)' <=> Served(t, e)
  BY <1>s DEF Served
<1>1. CASE ClearName(c) \/ FillName(c) \/ SendRequest(c)
  <2>1. UNCHANGED <<backlog, turn, up, hungup>>
    BY <1>1 DEF ClearName, FillName, SendRequest, netVars
  <2>2. \A x \in Client : cpc'[x] \in {"clear", "fill", "connect"}
                          => cpc[x] \in {"clear", "fill", "connect"}
    BY <1>1 DEF ClearName, FillName, SendRequest
  <2>3. \A x \in Client, k \in 1..Requests : NotYet(x, k)' => NotYet(x, k)
    BY <2>1, <2>2 DEF NotYet
  <2> QED BY <1>0, <1>s, <2>1, <2>3, AnswerFrame DEF AnswerInv, Counted
<1>2. CASE Connect(c)
  <2>1. /\ cpc[c] = "connect" /\ cpc' = [cpc EXCEPT ![c] = "send"]
        /\ backlog' = Append(backlog, Current(c)) /\ UNCHANGED <<turn, hungup, up>>
    BY <1>2 DEF Connect
  <2>2. Current(c) \in Conn /\ Current(c) = <<c, turn[c]>>
    BY CurrentIsConn DEF Current
  <2>3. ~Waits(Current(c)) /\ ~Open(Current(c)) /\ Current(c) \notin closed
    <3>1. NotYet(c, turn[c]) /\ turn[c] \in 1..Requests
      BY <2>1 DEF NotYet
    <3> QED BY <2>2, <3>1 DEF AnswerInv, Unknown
  <2>n. PICK new \in Conn : new = Current(c)
    BY <2>2
  <2>4. /\ Len(backlog') = Len(backlog) + 1 /\ Len(backlog) \in Nat
        /\ backlog'[Len(backlog) + 1] = new
        /\ \A i \in 1..Len(backlog) : backlog'[i] = backlog[i]
    BY <2>1, <2>n
  <2>5. \A e : (Waits(e)' <=> Waits(e) \/ e = new) /\ (Open(e)' <=> Open(e))
    <3>1. \A e : Waits(e)' => Waits(e) \/ e = new
      <4>1. ASSUME NEW i \in 1..Len(backlog'), i \notin 1..Len(backlog)
            PROVE  i = Len(backlog) + 1
        BY <2>4, <4>1
      <4> QED BY <2>4, <4>1 DEF Waits
    <3>2. \A e : Waits(e) => Waits(e)'
      <4>1. \A i \in 1..Len(backlog) : i \in 1..Len(backlog')
        BY <2>4
      <4> QED BY <2>4, <4>1 DEF Waits
    <3>3. Waits(new)'
      <4>1. Len(backlog) + 1 \in 1..Len(backlog')
        BY <2>4
      <4> QED BY <2>4, <4>1 DEF Waits
    <3> QED BY <1>s, <3>1, <3>2, <3>3 DEF Open
  <2>6. Apart'
    <3>1. \A i \in 1..Len(backlog) : backlog[i] # new
      BY <2>3, <2>n DEF Waits
    <3>2. ASSUME NEW i \in 1..Len(backlog'), NEW j \in 1..Len(backlog'), backlog'[i] = backlog'[j]
          PROVE  i = j
      <4>1. \A k \in 1..Len(backlog') : k \in 1..Len(backlog) \/ k = Len(backlog) + 1
        BY <2>4
      <4>2. CASE i \in 1..Len(backlog) /\ j \in 1..Len(backlog)
        BY <2>4, <3>2, <4>2 DEF AnswerInv, Apart
      <4>3. CASE i \notin 1..Len(backlog) \/ j \notin 1..Len(backlog)
        BY <2>4, <3>1, <3>2, <4>1, <4>3
      <4> QED BY <4>2, <4>3
    <3>3. ASSUME NEW e \in Conn
          PROVE  ~(Waits(e)' /\ Open(e)') /\ (e \in closed' => ~Waits(e)' /\ ~Open(e)')
      BY <1>s, <2>3, <2>5, <2>n DEF AnswerInv, Apart
    <3> QED BY <1>s, <3>2, <3>3 DEF AnswerInv, Apart
  <2>7. Unknown'
    <3>1. ASSUME NEW x \in Client, NEW k \in 1..Requests, NotYet(x, k)'
          PROVE  NotYet(x, k) /\ <<x, k>> # new
      BY <2>1, <2>2, <2>n, <3>1 DEF NotYet
    <3> QED BY <1>s, <2>5, <3>1 DEF AnswerInv, Unknown
  <2>8. Counted'
    BY <1>0, <1>s, <2>1 DEF AnswerInv, Counted
  <2> QED BY <2>6, <2>7, <2>8 DEF AnswerInv
<1>3. CASE Refused(c)
  <2>1. ~up' /\ backlog' = backlog /\ turn' = turn /\ cpc' = [x \in Client |-> "done"]
    BY <1>3 DEF Refused, netVars
  <2>2. \A x \in Client, k \in 1..Requests : NotYet(x, k)' => NotYet(x, k)
    BY <2>1 DEF NotYet
  <2> QED BY <1>0, <1>s, <2>1, <2>2, AnswerFrame
<1>4. CASE ReadAnswer(c)
  <2>1. /\ cpc[c] = "read" /\ cpc' = [cpc EXCEPT ![c] = IF turn[c] = Requests THEN "done" ELSE "clear"]
        /\ turn' = [turn EXCEPT ![c] = IF turn[c] = Requests THEN turn[c] ELSE turn[c] + 1]
        /\ UNCHANGED <<backlog, up>> /\ hungup' = hungup \cup {Current(c)}
        /\ answers[Current(c)] > 0 \/ Current(c) \in closed
    BY <1>4 DEF ReadAnswer, netVars
  <2>2. \A x \in Client, k \in 1..Requests : NotYet(x, k)' => NotYet(x, k)
    BY <2>1 DEF NotYet
  <2>3. answers[Current(c)] = 1
    <3>1. Current(c) \in Conn
      BY CurrentIsConn
    <3>2. answers[Current(c)] = IF \/ Current(c) \in closed
                                   \/ \E t \in Thread : Served(t, Current(c))
                                THEN 1 ELSE 0
      BY <3>1 DEF AnswerInv, Counted
    <3> QED BY <2>1, <3>2
  <2>4. up' => up /\ \A e \in hungup' : answers[e] = 1
    BY <2>1, <2>3 DEF AnswerInv, Counted
  <2> QED BY <1>0, <1>s, <2>1, <2>2, <2>4, AnswerFrame
<1> QED BY <1>1, <1>2, <1>3, <1>4 DEF ClientStep

\* simple_web_1.c and lf_web.c answer every connection once before either side closes it,
\* unless the client is gone.
THEOREM EachIsAnsweredOnce ==
  ASSUME NoPointer
  PROVE  Spec => []AnsweredOnce
<1> DEFINE Inv == TypeOK /\ Roles /\ Owned /\ AnswerInv
<1>1. Init => Inv
  <2> SUFFICES ASSUME Init PROVE Roles /\ Owned
    BY TypeOKInit, AnswerInvInit
  <2>1. Serving = {}
    BY WebAssumption DEF Init, Serving, NoPointer, Thread
  <2> QED BY <2>1, WebAssumption DEF Init, Owned, Roles, Thread
<1>2. Inv /\ [Next]_vars => Inv'
  <2> SUFFICES ASSUME Inv, [Next]_vars PROVE AnswerInv'
    BY TypeOKNext, RolesNext, OwnedNext
  <2>1. CASE UNCHANGED vars
    <3>1. UNCHANGED <<pc, fd, file, backlog, closed, answers, cpc, turn, up, hungup>>
      BY <2>1 DEF vars, serverVars, netVars, clientVars
    <3> QED BY <3>1 DEF AnswerInv, Apart, Unknown, Counted, Waits, Open, NotYet, Served
  <2> QED BY <2>1, AnswerServer, AnswerClient DEF Next
<1>3. Inv => AnsweredOnce
  <2> SUFFICES ASSUME Inv, NEW c \in Conn
               PROVE  /\ answers[c] <= 1
                      /\ c \in closed \/ (up /\ c \in hungup) => answers[c] = 1
    BY DEF AnsweredOnce
  <2>1. answers[c] = IF c \in closed \/ \E t \in Thread : Served(t, c) THEN 1 ELSE 0
    BY DEF AnswerInv, Counted
  <2>2. up /\ c \in hungup => answers[c] = 1
    BY DEF AnswerInv, Counted
  <2> QED BY <2>1, <2>2
<1> HIDE DEF Inv
<1> QED BY <1>1, <1>2, <1>3, PTL DEF Spec

=============================================================================
