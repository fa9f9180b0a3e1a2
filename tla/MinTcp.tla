------------------------------- MODULE MinTcp -------------------------------
(***************************************************************************)
(* The distributed minimum over TCP (IN_BE_DSYS_RENOU_ARNAUD): the server  *)
(* accepts its clients one after the other, and then asks all of them for  *)
(* a value, reads the answers and prints the minimum, once a second.       *)
(*                                                                         *)
(* A client may die at any time.  TCP then ends its connection: a read of  *)
(* the server finds nothing more, and of two writes the second kills the   *)
(* server (SIGPIPE).                                                       *)
(***************************************************************************)
EXTENDS Integers, Sequences, FiniteSetsExt

CONSTANTS
  nb_clients,    \* the argument of the server
  Draws,         \* the random values considered
  MaxRounds      \* bound on the turns of the server's loop

Clients == 1..nb_clients

VARIABLES
  spc, k,        \* the server: where it is, and its loop counter
  round,         \* the turn it is in
  response,      \* what the array on its stack holds
  min,           \* what it has printed last
  conn,          \* the connections: "none", "open", "closed" by a death, or "reset"
  requests,      \* requests on their way to each client
  answers,       \* answers on their way to the server
  given          \* the value each client gave last, and in which turn

minTcpVars == <<spc, k, round, response, min, conn, requests, answers, given>>

Nothing == [value |-> 0, round |-> 0]

Init ==
  /\ spc = "bind" /\ k = 1 /\ round = 1 /\ min = 0
  /\ response = [c \in Clients |-> 0]
  /\ conn = [c \in Clients |-> "none"]
  /\ requests = [c \in Clients |-> 0]
  /\ answers = [c \in Clients |-> <<>>]
  /\ given = [c \in Clients |-> Nothing]

-----------------------------------------------------------------------------
(* The server.                                                             *)
Bind ==
  /\ spc = "bind" /\ spc' = "accept"
  /\ UNCHANGED <<k, round, response, min, conn, requests, answers, given>>

(* A loop over the clients: the next one, or what comes after the loop.    *)
Loop(from, after) ==
  /\ spc = from
  /\ IF k < nb_clients THEN k' = k + 1 /\ UNCHANGED spc ELSE k' = 1 /\ spc' = after

Accept ==
  /\ Loop("accept", "write")
  /\ conn[k] # "none"
  /\ UNCHANGED <<round, response, min, conn, requests, answers, given>>

Write ==
  /\ spc = "write" /\ conn[k] # "reset"
  /\ Loop("write", "read")
  /\ IF conn[k] = "open" THEN requests' = [requests EXCEPT ![k] = @ + 1] /\ UNCHANGED conn
     ELSE conn' = [conn EXCEPT ![k] = "reset"] /\ UNCHANGED requests
  /\ UNCHANGED <<round, response, min, answers, given>>

BrokenPipe ==
  /\ spc = "write" /\ conn[k] = "reset"
  /\ spc' = "killed"
  /\ UNCHANGED <<k, round, response, min, conn, requests, answers, given>>

\* Fault: the answer of the first client is not read.
Read_FromSecond ==
  /\ Loop("read", "minimum")
  /\ \/ answers[k] # <<>> /\ k > 1 /\ response' = [response EXCEPT ![k] = Head(answers[k])]
                          /\ answers' = [answers EXCEPT ![k] = Tail(@)]
     \/ (k = 1 \/ (answers[k] = <<>> /\ conn[k] # "open")) /\ UNCHANGED <<response, answers>>
  /\ UNCHANGED <<round, min, conn, requests, given>>

(* The result of read is not tested: of a client that is gone, response    *)
(* keeps what the stack held.                                              *)
Read ==
  /\ Loop("read", "minimum")
  /\ \/ /\ answers[k] # <<>>
        /\ response' = [response EXCEPT ![k] = Head(answers[k])]
        /\ answers' = [answers EXCEPT ![k] = Tail(@)]
     \/ /\ answers[k] = <<>> /\ conn[k] # "open"
        /\ \E x \in Draws \cup {0, response[k]} : response' = [response EXCEPT ![k] = x]
        /\ UNCHANGED answers
  /\ UNCHANGED <<round, min, conn, requests, given>>

Minimum ==
  /\ spc = "minimum" /\ spc' = "sleep"
  /\ min' = Min({response[c] : c \in Clients})
  /\ UNCHANGED <<k, round, response, conn, requests, answers, given>>

Sleep ==
  /\ spc = "sleep" /\ round < MaxRounds
  /\ spc' = "write" /\ round' = round + 1
  /\ UNCHANGED <<k, response, min, conn, requests, answers, given>>

-----------------------------------------------------------------------------
(* The clients.                                                            *)
Connect(c) ==
  /\ conn[c] = "none" /\ spc # "bind"
  /\ conn' = [conn EXCEPT ![c] = "open"]
  /\ UNCHANGED <<spc, k, round, response, min, requests, answers, given>>

Answer(c) ==
  /\ conn[c] = "open" /\ requests[c] > 0
  /\ requests' = [requests EXCEPT ![c] = 0]
  /\ \E x \in Draws : /\ answers' = [answers EXCEPT ![c] = Append(@, x)]
                      /\ given' = [given EXCEPT ![c] = [value |-> x, round |-> round]]
  /\ UNCHANGED <<spc, k, round, response, min, conn>>

(* A request that is never read resets the connection.                     *)
Die(c) ==
  /\ conn[c] = "open"
  /\ conn' = [conn EXCEPT ![c] = IF requests[c] > 0 THEN "reset" ELSE "closed"]
  /\ requests' = [requests EXCEPT ![c] = 0]
  /\ UNCHANGED <<spc, k, round, response, min, answers, given>>

Next == \/ Bind \/ Accept \/ Write \/ BrokenPipe \/ Read \/ Minimum \/ Sleep
        \/ \E c \in Clients : Connect(c) \/ Answer(c) \/ Die(c)

Spec == Init /\ [][Next]_minTcpVars
-----------------------------------------------------------------------------
(* The minimum printed in a turn misses no client that is still there: it  *)
(* is not above the value that the client drew in this very turn.  While   *)
(* nobody has died it is one of these values.                              *)
MinimumOfRound ==
  spc = "sleep" =>
    /\ \A c \in Clients : conn[c] = "open" => given[c].round = round /\ min <= given[c].value
    /\ (\A c \in Clients : conn[c] = "open") => \E c \in Clients : min = given[c].value
=============================================================================
