------------------------------- MODULE MinUdp -------------------------------
(***************************************************************************)
(* The distributed minimum over UDP (IN_BE_DSYS): clients send their value *)
(* again and again, the server keeps the last value of each and prints the *)
(* minimum when it changes.                                                *)
(*                                                                         *)
(* A datagram carries, besides the id and the value, its number among      *)
(* those of its client: the program does not, the property needs it.       *)
(***************************************************************************)
EXTENDS Integers, FiniteSetsExt

CONSTANTS
  N_PROCESSUS,   \* the clients are 0 to N_PROCESSUS - 1
  Numbers,       \* the random values considered
  INT_MAX,       \* above all of them
  MaxSends       \* bound on the datagrams of a client

Processus == 0..(N_PROCESSUS - 1)

VARIABLES
  v,                \* the value each client drew last
  sends,            \* how many datagrams each client has sent
  network,          \* the datagrams on their way
  processusValues,  \* the table of the server
  old_minimum,      \* the minimum that it printed last
  printed,          \* and the process it named with it
  served            \* the number of the last datagram received from each client

minUdpVars == <<v, sends, network, processusValues, old_minimum, printed, served>>

Nobody == -1

Init ==
  /\ v = [p \in Processus |-> INT_MAX] /\ sends = [p \in Processus |-> 0]
  /\ network = {}
  /\ processusValues = [p \in Processus |-> INT_MAX]
  /\ old_minimum = INT_MAX /\ printed = Nobody
  /\ served = [p \in Processus |-> 0]

(* One turn of a client's loop.                                            *)
Send(p) ==
  /\ sends[p] < MaxSends
  /\ \E x \in Numbers :
       /\ v' = [v EXCEPT ![p] = x]
       /\ network' = network \cup {[id |-> p, value |-> x, number |-> sends[p] + 1]}
  /\ sends' = [sends EXCEPT ![p] = @ + 1]
  /\ UNCHANGED <<processusValues, old_minimum, printed, served>>

\* Fault: the minimum of the last turn is not forgotten.
Minimum_Kept(values) == Min({values[p] : p \in Processus} \cup {old_minimum})

Minimum(values) == Min({values[p] : p \in Processus} \cup {INT_MAX})

(* One turn of the server's loop: the first process with the minimum is    *)
(* printed with it, when it has changed.                                   *)
Serve(d) ==
  LET values == [processusValues EXCEPT ![d.id] = d.value]
      min_id == Min({p \in Processus : values[p] = Minimum(values)})
  IN  /\ processusValues' = values
      /\ old_minimum' = Minimum(values)
      /\ printed' = IF Minimum(values) # old_minimum THEN min_id ELSE printed
      /\ served' = [served EXCEPT ![d.id] = d.number]
      /\ UNCHANGED <<v, sends>>

(* UDP delivers datagrams in any order, some twice and some never.         *)
Receive   == \E d \in network : Serve(d) /\ network' = network \ {d}
Duplicate == \E d \in network : Serve(d) /\ UNCHANGED network
Lose      == \E d \in network : network' = network \ {d}
               /\ UNCHANGED <<v, sends, processusValues, old_minimum, printed, served>>

Next == (\E p \in Processus : Send(p)) \/ Receive \/ Duplicate \/ Lose

Spec == Init /\ [][Next]_minUdpVars
-----------------------------------------------------------------------------
(* When the datagram that the server received last from each client is the *)
(* last one the client sent, the minimum printed is that of the clients'   *)
(* values, whatever was lost, overtaken or repeated before, and whether    *)
(* values rose or fell.                                                    *)
MinimumIsCurrent ==
  (\A p \in Processus : sends[p] > 0 => served[p] = sends[p])
    => old_minimum = Min({v[p] : p \in Processus} \cup {INT_MAX})
=============================================================================
