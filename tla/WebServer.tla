------------------------------ MODULE WebServer ------------------------------
(***************************************************************************)
(* The three web servers of IN_TD_Concurrent with the client that loads    *)
(* them: simple_web_1.c serves in main, tp_web_1.c accepts in main and     *)
(* serves in the thread pool, lf_web.c accepts and serves in the pool,     *)
(* where the thread that has accepted promotes its successor before it     *)
(* serves.  The client, web_client.c, is one process of several threads.   *)
(*                                                                         *)
(* The pool is the abstract one of TaskQueue, which ThreadPool implements. *)
(* Left out: the bytes exchanged, the latencies, and the setting up of the *)
(* listening socket, which precedes the first connection.                  *)
(***************************************************************************)
EXTENDS Integers, Sequences, FiniteSets

CONSTANTS
  Programs,     \* the servers considered, among "simple", "tp" and "lf"
  Worker,       \* the threads of the pool
  Main,         \* the main thread of the server
  Client,       \* the threads of web_client
  Requests,     \* n, the connections each of them makes
  NULL,         \* no connection
  MaxFailures   \* bound on the calls of accept and of pthread_pool_exec that fail

ASSUME WebAssumption ==
  /\ Programs \subseteq {"simple", "tp", "lf"}
  /\ Main \notin Worker
  /\ Requests \in Nat \ {0} /\ MaxFailures \in Nat
  /\ NULL \notin Client \X (1..Requests)
  /\ IsFiniteSet(Client) /\ IsFiniteSet(Worker)

Thread == Worker \cup {Main}
Conn == Client \X (1..Requests)

\* The descriptors that accept may return; there are always enough of them.
Fd == 1..Cardinality(Conn)

VARIABLES
  program,     \* which server runs
  pc, fd,      \* of each thread: where it is, and its variable client_fd
  on,          \* the connection a thread has called recv on
  file,        \* what each descriptor of the server refers to
  tasks,       \* the queue of the pool; history: what data pointed to when submitted
  given,       \* history: that value, for the task a thread has taken
  failures, lost, \* how many calls failed; a task could not be queued
  backlog,     \* the connections that wait to be accepted
  request,     \* the connections whose request waits to be read
  answers,     \* how many answers were sent on each connection
  closed,      \* the connections that the server has closed
  cpc, turn,   \* of each client thread: where it is, and its loop counter
  portname,    \* isocket.c: is the address that all client threads share whole?
  hungup,      \* the connections that the client has closed
  up           \* the client process runs

serverVars == <<pc, fd, on, file, tasks, given, failures, lost>>
clientVars == <<cpc, turn, portname, hungup, up>>
netVars == <<backlog, request, answers, closed>>
vars == <<program, serverVars, clientVars, netVars>>

Init ==
  /\ program \in Programs
  /\ pc = [t \in Thread |-> IF t # Main THEN "idle" ELSE IF program = "lf" THEN "exec" ELSE "accept"]
  /\ fd = [t \in Thread |-> -1]
  /\ on = [t \in Thread |-> NULL]
  /\ file = [d \in Fd |-> NULL]
  /\ tasks = <<>>
  /\ given = [t \in Thread |-> -1]
  /\ failures = 0 /\ lost = FALSE
  /\ backlog = <<>> /\ request = {} /\ answers = [c \in Conn |-> 0] /\ closed = {}
  /\ cpc = [c \in Client |-> "clear"]
  /\ turn = [c \in Client |-> 1]
  /\ portname = FALSE
  /\ hungup = {} /\ up = TRUE

-----------------------------------------------------------------------------
(* The server                                                              *)

GoTo(t, from, to) == pc[t] = from /\ pc' = [pc EXCEPT ![t] = to]

\* Fault: client_fd is shared by all threads in lf_web.c too, as a static variable.
Place_Shared(t) == Main

\* Whose client_fd a thread uses: webserver_process has its own in lf_web.c, and gets a
\* pointer to main's in the two others.
Place(t) == IF program = "lf" THEN t ELSE Main

\* Where a thread goes when accept has returned.
AfterAccept == IF program = "simple" THEN "recv" ELSE "exec"

\* Fault: a thread that failed to accept gives up before it promotes a successor.
AfterFailure_GivesUp == IF program = "lf" THEN "idle" ELSE AfterAccept

\* perror, and then as after a success, with the descriptor -1.
AfterFailure == AfterAccept

Accept(t) ==
  /\ backlog # <<>>
  /\ GoTo(t, "accept", AfterAccept)
  /\ \E d \in Fd :
       /\ file[d] = NULL /\ \A e \in 1..(d - 1) : file[e] # NULL
       /\ file' = [file EXCEPT ![d] = Head(backlog)]
       /\ fd' = [fd EXCEPT ![Place(t)] = d]
  /\ backlog' = Tail(backlog)
  /\ UNCHANGED <<program, on, tasks, given, failures, lost, clientVars, request, answers, closed>>

AcceptFails(t) ==
  /\ failures < MaxFailures /\ failures' = failures + 1
  /\ GoTo(t, "accept", AfterFailure)
  /\ fd' = [fd EXCEPT ![Place(t)] = -1]
  /\ UNCHANGED <<program, on, file, tasks, given, lost, clientVars, netVars>>

\* Where a thread goes after pthread_pool_exec: main of lf_web.c spins.
AfterExec(t) == IF t # Main THEN "recv" ELSE IF program = "lf" THEN "spin" ELSE "accept"

\* What data points to, when it is client_fd; the data of lf_web.c never changes.
Pointed == IF program = "tp" THEN fd[Main] ELSE -1

\* Fault: the thread that accepted promotes two successors.
Exec_Twice(t) ==
  /\ GoTo(t, "exec", AfterExec(t))
  /\ tasks' = tasks \o <<Pointed, Pointed>>
  /\ UNCHANGED <<program, fd, on, file, given, failures, lost, clientVars, netVars>>

Exec(t) ==
  /\ GoTo(t, "exec", AfterExec(t))
  /\ tasks' = Append(tasks, Pointed)
  /\ UNCHANGED <<program, fd, on, file, given, failures, lost, clientVars, netVars>>

\* No memory for the node: nobody tests what pthread_pool_exec returns.
ExecFails(t) ==
  /\ failures < MaxFailures /\ failures' = failures + 1
  /\ GoTo(t, "exec", AfterExec(t))
  /\ lost' = TRUE
  /\ UNCHANGED <<program, fd, on, file, tasks, given, clientVars, netVars>>

\* A thread of the pool runs webserver_process, which begins with accept in lf_web.c.
Take(t) ==
  /\ tasks # <<>>
  /\ GoTo(t, "idle", IF program = "lf" THEN "accept" ELSE "recv")
  /\ given' = [given EXCEPT ![t] = Head(tasks)]
  /\ tasks' = Tail(tasks)
  /\ UNCHANGED <<program, fd, on, file, failures, lost, clientVars, netVars>>

\* What a thread's descriptor refers to; nothing when it is -1 or closed.
Target(t) == LET d == fd[Place(t)] IN IF d = -1 THEN NULL ELSE file[d]

RecvCall(t) ==
  /\ GoTo(t, "recv", "receiving")
  /\ on' = [on EXCEPT ![t] = Target(t)]
  /\ UNCHANGED <<program, fd, file, tasks, given, failures, lost, clientVars, netVars>>

\* recv returns with the request, at the end of the stream, or with an error.
RecvReturn(t) ==
  /\ on[t] \in request \cup hungup \cup {NULL}
  /\ GoTo(t, "receiving", "send")
  /\ request' = request \ {on[t]}
  /\ on' = [on EXCEPT ![t] = NULL]
  /\ UNCHANGED <<program, fd, file, tasks, given, failures, lost, clientVars, backlog, answers, closed>>

Send(t) ==
  /\ GoTo(t, "send", "close")
  /\ answers' = [c \in Conn |-> IF c = Target(t) THEN answers[c] + 1 ELSE answers[c]]
  /\ UNCHANGED <<program, fd, on, file, tasks, given, failures, lost, clientVars, backlog, request, closed>>

\* Fault: the connection is left open.
Close_Forgotten(t) ==
  /\ GoTo(t, "close", IF t = Main THEN "accept" ELSE "idle")
  /\ UNCHANGED <<program, fd, on, file, tasks, given, failures, lost, clientVars, netVars>>

\* close, and webserver_process returns.  client_fd is dead in lf_web.c.
Close(t) ==
  /\ GoTo(t, "close", IF t = Main THEN "accept" ELSE "idle")
  /\ closed' = closed \cup ({Target(t)} \ {NULL})
  /\ file' = [d \in Fd |-> IF d = fd[Place(t)] THEN NULL ELSE file[d]]
  /\ fd' = IF program = "lf" THEN [fd EXCEPT ![t] = -1] ELSE fd
  /\ UNCHANGED <<program, on, tasks, given, failures, lost, clientVars, backlog, request, answers>>

Serve(t) == RecvCall(t) \/ RecvReturn(t) \/ Send(t) \/ Close(t)
ServerStep(t) ==
  \/ Accept(t) \/ AcceptFails(t) \/ Exec(t) \/ ExecFails(t) \/ Take(t) \/ Serve(t)

-----------------------------------------------------------------------------
(* web_client: connect_get and i_connect                                   *)

CGoTo(c, from, to) == cpc[c] = from /\ cpc' = [cpc EXCEPT ![c] = to]
Current(c) == <<c, turn[c]>>

\* bzero(&portname)
ClearName(c) ==
  /\ CGoTo(c, "clear", "fill")
  /\ portname' = FALSE
  /\ UNCHANGED <<program, serverVars, netVars, turn, hungup, up>>

\* The port, the family and the address; every thread writes the same.
FillName(c) ==
  /\ CGoTo(c, "fill", "connect")
  /\ portname' = TRUE
  /\ UNCHANGED <<program, serverVars, netVars, turn, hungup, up>>

\* With an address that another thread has cleared connect may succeed as well.
Connect(c) ==
  /\ CGoTo(c, "connect", "send")
  /\ backlog' = Append(backlog, Current(c))
  /\ UNCHANGED <<program, serverVars, request, answers, closed, turn, portname, hungup, up>>

\* The connection is refused: exit(1) ends all threads and closes their connections.
Refused(c) ==
  /\ cpc[c] = "connect" /\ ~portname
  /\ up' = FALSE
  /\ cpc' = [x \in Client |-> "done"]
  /\ hungup' = hungup \cup {Current(x) : x \in {y \in Client : cpc[y] \in {"send", "read"}}}
  /\ UNCHANGED <<program, serverVars, netVars, turn, portname>>

SendRequest(c) ==
  /\ CGoTo(c, "send", "read")
  /\ request' = request \cup {Current(c)}
  /\ UNCHANGED <<program, serverVars, backlog, answers, closed, turn, portname, hungup, up>>

\* read returns the answer or the end of the stream; close, and the next turn.  After
\* the last one the thread adds its latency and ends.
ReadAnswer(c) ==
  /\ answers[Current(c)] > 0 \/ Current(c) \in closed
  /\ CGoTo(c, "read", IF turn[c] = Requests THEN "done" ELSE "clear")
  /\ hungup' = hungup \cup {Current(c)}
  /\ turn' = [turn EXCEPT ![c] = IF @ = Requests THEN @ ELSE @ + 1]
  /\ UNCHANGED <<program, serverVars, netVars, portname, up>>

ClientStep(c) ==
  \/ ClearName(c) \/ FillName(c) \/ Connect(c) \/ Refused(c) \/ SendRequest(c) \/ ReadAnswer(c)

-----------------------------------------------------------------------------
Next == (\E t \in Thread : ServerStep(t)) \/ (\E c \in Client : ClientStep(c))

Spec == Init /\ [][Next]_vars

\* Every thread that can run does at some time.
Fairness ==
  /\ \A t \in Thread : WF_vars(ServerStep(t))
  /\ \A c \in Client : WF_vars(ClientStep(c))
FairSpec == Spec /\ Fairness

-----------------------------------------------------------------------------
TypeOK ==
  /\ program \in {"simple", "tp", "lf"}
  /\ pc \in [Thread -> {"idle", "accept", "exec", "spin", "recv", "receiving", "send", "close"}]
  /\ fd \in [Thread -> Fd \cup {-1}] /\ given \in [Thread -> Fd \cup {-1}]
  /\ on \in [Thread -> Conn \cup {NULL}]
  /\ file \in [Fd -> Conn \cup {NULL}]
  /\ tasks \in Seq(Fd \cup {-1})
  /\ failures \in 0..MaxFailures /\ lost \in BOOLEAN
  /\ backlog \in Seq(Conn)
  /\ request \subseteq Conn /\ closed \subseteq Conn /\ hungup \subseteq Conn
  /\ answers \in [Conn -> Nat]
  /\ cpc \in [Client -> {"clear", "fill", "connect", "send", "read", "done"}]
  /\ turn \in [Client -> 1..Requests]
  /\ portname \in BOOLEAN /\ up \in BOOLEAN

\* A thread with a connection to serve.
Serving == {t \in Thread : \/ pc[t] \in {"recv", "receiving", "send", "close"}
                           \/ pc[t] = "exec" /\ t # Main}

\* An open descriptor is in the hands of one thread, and a thread that serves holds an
\* open one: no descriptor leaks, and none is used or closed by two threads, although
\* the system gives the number of a closed one to the next accept.
DescriptorsOwned ==
  /\ \A d \in Fd : file[d] # NULL =>
       \E t \in Serving : /\ fd[Place(t)] = d
                          /\ \A s \in Serving : fd[Place(s)] = d => s = t
  /\ \A t \in Serving : fd[Place(t)] # -1 => file[fd[Place(t)]] # NULL

\* A connection is answered once, and closed by neither side before it was answered,
\* unless the client is gone.
AnsweredOnce ==
  \A c \in Conn : /\ answers[c] <= 1
                  /\ c \in closed \/ (up /\ c \in hungup) => answers[c] = 1

\* lf_web.c: one thread accepts or promotes its successor, or one task waits that will,
\* until a task is lost, and nobody after that.
Accepting == {t \in Thread : pc[t] \in {"accept", "exec"}}
OneAcceptor ==
  program = "lf" =>
    IF lost THEN Accepting = {} /\ tasks = <<>>
    ELSE \/ tasks = <<>> /\ \E t \in Thread : Accepting = {t}
         \/ Len(tasks) = 1 /\ Accepting = {}

\* Every request is answered, after failures of accept too.
AllAnswered ==
  \A c \in Client : cpc[c] = "read" ~> cpc[c] # "read" \/ lost

\* threadpool.h:35: a task finds in data what was submitted.
DataIsIntact ==
  program = "tp" => \A t \in Worker \cap Serving : fd[Place(t)] = given[t]

=============================================================================
