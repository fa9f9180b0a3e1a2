-------------------------------- MODULE Labs --------------------------------
(***************************************************************************)
(* The small programs of the repository, side by side: lab says which one  *)
(* a behaviour is about, the others stay in one initial state.  They share *)
(* nothing.                                                                *)
(***************************************************************************)
EXTENDS Notify, Sequences

CONSTANTS
  Labs,                                   \* the programs considered
  Size, Heights, Capacity, WorkerGarbage, \* those of ParallelFilter
  N_PROCESSUS, Numbers, INT_MAX, MaxSends,
  nb_clients, Draws, MaxRounds,
  ImageHeights, Widths, Processes,
  PERIODIC_TASKS, MAX_TOTAL_PASSES

(* What the programs are run with: at least one worker, images of at least *)
(* one line (three for the convolution, whose filter takes three), one     *)
(* client, one process; random values are integers.                        *)
ASSUME LabsAssumption ==
  /\ Size \in Nat \ {0, 1} /\ Heights \subseteq Nat \ {0} /\ Capacity \in Nat
  /\ WorkerGarbage \subseteq Int
  /\ N_PROCESSUS \in Nat /\ Numbers \subseteq Int /\ INT_MAX \in Int /\ MaxSends \in Nat
  /\ nb_clients \in Nat \ {0} /\ Draws \subseteq Int /\ MaxRounds \in Nat
  /\ ImageHeights \subseteq Nat \ (0..2) /\ Widths \subseteq Nat \ {0}
  /\ Processes \subseteq Nat \ {0}
  /\ PERIODIC_TASKS \in Nat \ {0} /\ MAX_TOTAL_PASSES \in Nat

VARIABLES
  lab,
  h, fpc, id, ligne, imageOut, wpc, nbLine, line, wh, imageIn, filtered, toWorker, toMaster,
  v, sends, network, processusValues, old_minimum, printed, served,
  spc, k, round, response, min, conn, requests, answers, given,
  ih, w, nb_process, place, next, nb_elem_remain, sendcounts, displs_send, nb_lines, chunk,
  computed, gathered,
  at, priority, Total_Passes, loaded, Done, asked,
  step, prio, holder, running

Filter == INSTANCE ParallelFilter WITH Garbage <- WorkerGarbage, pc <- fpc
Udp == INSTANCE MinUdp
Tcp == INSTANCE MinTcp
Image == INSTANCE ImagePartition
Rate == INSTANCE RateMonotonic WITH MAX_TASKS <- PERIODIC_TASKS
Ceiling == INSTANCE PriorityCeiling

One(S) == CHOOSE x \in S : TRUE

(* One initial state for the labs that are not chosen.                     *)
LabsInit ==
  /\ lab \in Labs
  /\ Init /\ Filter!Init /\ Udp!Init /\ Tcp!Init /\ Image!Init /\ Rate!Init /\ Ceiling!Init
  /\ lab # "notify" => i = One(Garbage)
  /\ lab # "filter" => h = One(Heights) /\ \A p \in DOMAIN wh : wh[p] = One(WorkerGarbage)
  /\ lab # "image"  => ih = One(ImageHeights) /\ w = One(Widths) /\ nb_process = One(Processes)

notifyVars == vars
filterVars == <<h, fpc, id, ligne, imageOut, wpc, nbLine, line, wh, imageIn, filtered, toWorker, toMaster>>
udpVars == <<v, sends, network, processusValues, old_minimum, printed, served>>
tcpVars == <<spc, k, round, response, min, conn, requests, answers, given>>
imageVars == <<ih, w, nb_process, place, next, nb_elem_remain, sendcounts, displs_send, nb_lines,
               chunk, computed, gathered>>
rateVars == <<at, priority, Total_Passes, loaded, Done, asked>>
ceilingVars == <<step, prio, holder, running>>

labsVars == <<lab, notifyVars, filterVars, udpVars, tcpVars, imageVars, rateVars, ceilingVars>>

RunNotify ==
  /\ lab = "notify" /\ Next
  /\ UNCHANGED <<lab, filterVars, udpVars, tcpVars, imageVars,
                 rateVars, ceilingVars>>
RunFilter ==
  /\ lab = "filter" /\ Filter!Next
  /\ UNCHANGED <<lab, notifyVars, udpVars, tcpVars, imageVars,
                 rateVars, ceilingVars>>
RunUdp ==
  /\ lab = "min over UDP" /\ Udp!Next
  /\ UNCHANGED <<lab, notifyVars, filterVars, tcpVars, imageVars,
                 rateVars, ceilingVars>>
RunTcp ==
  /\ lab = "min over TCP" /\ Tcp!Next
  /\ UNCHANGED <<lab, notifyVars, filterVars, udpVars, imageVars,
                 rateVars, ceilingVars>>
RunImage ==
  /\ lab = "image" /\ Image!Next
  /\ UNCHANGED <<lab, notifyVars, filterVars, udpVars, tcpVars,
                 rateVars, ceilingVars>>
RunRate ==
  /\ lab = "rate monotonic" /\ Rate!Next
  /\ UNCHANGED <<lab, notifyVars, filterVars, udpVars, tcpVars,
                 imageVars, ceilingVars>>
RunCeiling ==
  /\ lab = "priority ceiling" /\ Ceiling!Next
  /\ UNCHANGED <<lab, notifyVars, filterVars, udpVars, tcpVars,
                 imageVars, rateVars>>

(* Where a lab may stop: ex2.c has ended or waits for a signal that was    *)
(* lost, the servers have come to the bounds or were killed, or all is     *)
(* done.                                                                   *)
Stopped ==
  \/ lab = "notify" /\ \/ main \in {"exited", "crashed"}
                       \/ main = "waiting" /\ \A t \in Threads : pc[t] \in {"exited", "not_created"}
  \/ lab = "min over UDP" /\ network = {} /\ \A p \in Udp!Processus : sends[p] = MaxSends
  \/ lab = "min over TCP" /\ (spc = "killed" \/ (spc = "sleep" /\ round = MaxRounds))
  \/ lab = "image" /\ place = "done"
  \/ lab = "rate monotonic" /\ Rate!Ended
  \/ lab = "priority ceiling" /\ Ceiling!Ended

Stop == Stopped /\ UNCHANGED labsVars

LabsNext == \/ RunNotify \/ RunFilter \/ RunUdp \/ RunTcp \/ RunImage \/ RunRate \/ RunCeiling \/ Stop

(* The fairness of the two labs with a liveness property, as they state it.*)
LabsSpec ==
  /\ LabsInit /\ [][LabsNext]_labsVars
  /\ WF_filterVars(lab = "filter" /\ Filter!Master)
  /\ \A p \in Filter!Worker : WF_filterVars(lab = "filter" /\ Filter!WorkerStep(p))
  /\ WF_rateVars(lab = "rate monotonic" /\ Rate!Processor)
  /\ \A t \in Rate!Tasks : WF_rateVars(lab = "rate monotonic" /\ Rate!PeriodEnds(t))
-----------------------------------------------------------------------------
(* be-p.c: a line is filtered as be-np.c filters it when one worker has    *)
(* received all the lines this takes.                                      *)
InsideIsFiltered == lab = "filter" => Filter!InsideIsFiltered

(* be-p.c: all processes end, although one line more is sent to each       *)
(* worker than it receives.                                                *)
EveryoneEnds == lab = "filter" => Filter!EveryoneEnds

(* IN_BE_DSYS: once the last datagram of each client has been received     *)
(* last, the minimum printed is that of the clients' values.               *)
MinimumIsCurrent == lab = "min over UDP" => Udp!MinimumIsCurrent

(* IN_BE_DSYS_RENOU_ARNAUD: the minimum printed in a turn misses no client *)
(* that is still there, and is one of their values while all are.          *)
MinimumOfRound == lab = "min over TCP" => Tcp!MinimumOfRound

(* image_conv.c: every line is computed by exactly one process, and no     *)
(* result is laid over another.                                            *)
EveryLineOnce == lab = "image" => Image!EveryLineOnce

(* IN_LAB_RTEMS/ex1: all tasks leave, whatever passes their count loses.   *)
EveryTaskLeaves == lab = "rate monotonic" => Rate!EveryTaskLeaves

(* IN_LAB_RTEMS/ex2: task 2 does not run while task 1 is awake.            *)
NoInversion == [][Ceiling!TaskTwoWaits]_ceilingVars
=============================================================================
