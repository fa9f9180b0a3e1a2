--------------------------- MODULE ParallelFilter ---------------------------
(***************************************************************************)
(* The parallel image filter of IN_TD_MPI/be-p.c: process 0, the master,   *)
(* deals the lines of the image out to the others, the workers; a worker   *)
(* filters its lines and sends them back.                                  *)
(*                                                                         *)
(* An image holds lines as wholes, each named by what it was computed      *)
(* from; pixels are left out.  MPI keeps the messages of two processes in  *)
(* order.  MPI_Send returns when MPI has buffered the message or the       *)
(* receiver has taken it: how much it buffers is the library's choice.     *)
(***************************************************************************)
EXTENDS Integers, Sequences, FiniteSets

CONSTANTS
  Size,       \* the number of processes, master included
  Heights,    \* the heights of image considered
  Capacity,   \* how many messages from one process to another MPI buffers
  Garbage     \* what the h of a worker, which nothing initialises, may hold

Worker == 1..(Size - 1)

VARIABLES
  h,                  \* the height of the image
  pc, id, ligne,      \* the master: where it is, and its loop counters
  imageOut,           \* image_out of the master
  wpc, nbLine, line,  \* each worker: where it is, its nb_line and its loop counter
  wh,                 \* its h
  imageIn, filtered,  \* its image_in and its image_out
  toWorker, toMaster  \* the messages on their way to and from each worker

masterVars == <<pc, id, ligne, imageOut>>
workerVars == <<wpc, nbLine, line, wh, imageIn, filtered>>
vars == <<h, masterVars, workerVars, toWorker, toMaster>>

\* A line of zeros: the images are global variables.
Zero == <<>>

Init ==
  /\ h \in Heights
  /\ pc = "nb_line" /\ id = 1 /\ ligne = 0
  /\ imageOut = [k \in 0..h |-> Zero]
  /\ wpc = [p \in Worker |-> "nb_line"]
  /\ nbLine = [p \in Worker |-> 0]
  /\ line = [p \in Worker |-> 0]
  /\ wh \in [Worker -> Garbage]
  /\ imageIn = [p \in Worker |-> [k \in 0..h |-> Zero]]
  /\ filtered = [p \in Worker |-> [k \in 0..h |-> Zero]]
  /\ toWorker = [p \in Worker |-> <<>>]
  /\ toMaster = [p \in Worker |-> <<>>]

\* The line of the image file, and what the filter makes of lines.
Line(k) == <<"line", k>>
Filter(above, this, below) == <<"filter", above, this, below>>

\* What be-np.c computes for the line k.
Reference(k) == IF k \in {0, h - 1} THEN Line(k) ELSE Filter(Line(k - 1), Line(k), Line(k + 1))

-----------------------------------------------------------------------------
(* The master                                                              *)

MasterNbLine == h \div Size

\* The last MPI_Send of the master has returned.
MasterReturned == \A p \in Worker : Len(toWorker[p]) <= Capacity

MasterSends(m) ==
  /\ MasterReturned
  /\ toWorker' = [toWorker EXCEPT ![id] = Append(@, m)]
  /\ UNCHANGED <<h, imageOut, workerVars, toMaster>>

SendNbLine ==
  /\ pc = "nb_line" /\ pc' = "w"
  /\ MasterSends(MasterNbLine)
  /\ UNCHANGED <<id, ligne>>

\* w, which comes to nothing here; the next worker, or the first chunk.
SendW ==
  /\ pc = "w"
  /\ MasterSends("w")
  /\ IF id < Size - 1 THEN pc' = "nb_line" /\ id' = id + 1
                      ELSE pc' = "lines" /\ id' = 1
  /\ UNCHANGED ligne

\* Fault: two lines more than the worker's own are sent, as if one for each neighbour.
LastLine_TwoMore == IF pc = "lines" THEN id * MasterNbLine + 1 ELSE id * MasterNbLine

\* How far the master goes with a worker, beyond the first of its lines.
LastLine == id * MasterNbLine

\* The end of a turn of the two loops over the workers and their lines.
NextLine(after) ==
  IF ligne < LastLine THEN ligne' = ligne + 1 /\ UNCHANGED <<id, pc>>
  ELSE IF id < Size - 1 THEN ligne' = id * MasterNbLine /\ id' = id + 1 /\ UNCHANGED pc
  ELSE ligne' = 0 /\ id' = 1 /\ pc' = after

SendLine ==
  /\ pc = "lines"
  /\ MasterSends(Line(ligne))
  /\ NextLine("results")

\* After the last line the master writes the image.
RecvResult ==
  /\ pc = "results"
  /\ MasterReturned
  /\ toMaster[id] # <<>>
  /\ imageOut' = [imageOut EXCEPT ![ligne] = Head(toMaster[id])]
  /\ toMaster' = [toMaster EXCEPT ![id] = Tail(@)]
  /\ NextLine("done")
  /\ UNCHANGED <<h, workerVars, toWorker>>

Master == SendNbLine \/ SendW \/ SendLine \/ RecvResult

-----------------------------------------------------------------------------
(* The workers                                                             *)

GoTo(p, from, to) == wpc[p] = from /\ wpc' = [wpc EXCEPT ![p] = to]

WorkerReceives(p) ==
  /\ toWorker[p] # <<>>
  /\ toWorker' = [toWorker EXCEPT ![p] = Tail(@)]
  /\ UNCHANGED <<h, masterVars, wh, filtered, toMaster>>

RecvNbLine(p) ==
  /\ GoTo(p, "nb_line", "w")
  /\ WorkerReceives(p)
  /\ nbLine' = [nbLine EXCEPT ![p] = Head(toWorker[p])]
  /\ UNCHANGED <<line, imageIn>>

FirstOf(p) == (p - 1) * nbLine[p]

RecvW(p) ==
  /\ GoTo(p, "w", IF nbLine[p] = 0 THEN "filter" ELSE "lines")
  /\ WorkerReceives(p)
  /\ line' = [line EXCEPT ![p] = FirstOf(p)]
  /\ UNCHANGED <<nbLine, imageIn>>

\* Fault: a worker stores its lines from the start of its image.
RecvLine_FromZero(p) ==
  /\ GoTo(p, "lines", IF line[p] + 1 < p * nbLine[p] THEN "lines" ELSE "filter")
  /\ WorkerReceives(p)
  /\ imageIn' = [imageIn EXCEPT ![p][line[p] - FirstOf(p)] = Head(toWorker[p])]
  /\ line' = [line EXCEPT ![p] = @ + 1]
  /\ UNCHANGED nbLine

\* nb_line lines, one less than the master sends.
RecvLine(p) ==
  /\ GoTo(p, "lines", IF line[p] + 1 < p * nbLine[p] THEN "lines" ELSE "filter")
  /\ WorkerReceives(p)
  /\ imageIn' = [imageIn EXCEPT ![p][line[p]] = Head(toWorker[p])]
  /\ line' = [line EXCEPT ![p] = @ + 1]
  /\ UNCHANGED nbLine

\* What a worker makes of its line k, one of nb_line + 1.
Filtered(p, k) ==
  IF k = 0 \/ k = wh[p] - 1 THEN imageIn[p][k]
  ELSE Filter(imageIn[p][k - 1], imageIn[p][k], imageIn[p][k + 1])

FilterLines(p) ==
  /\ GoTo(p, "filter", "results")
  /\ filtered' = [filtered EXCEPT ![p] =
       [k \in 0..h |-> IF k \in FirstOf(p)..(p * nbLine[p]) THEN Filtered(p, k) ELSE @[k]]]
  /\ line' = [line EXCEPT ![p] = FirstOf(p)]
  /\ UNCHANGED <<h, masterVars, nbLine, wh, imageIn, toWorker, toMaster>>

\* The last MPI_Send of a worker has returned.
WorkerReturned(p) == Len(toMaster[p]) <= Capacity

SendResult(p) ==
  /\ WorkerReturned(p)
  /\ GoTo(p, "results", IF line[p] < p * nbLine[p] THEN "results" ELSE "finalize")
  /\ toMaster' = [toMaster EXCEPT ![p] = Append(@, filtered[p][line[p]])]
  /\ line' = [line EXCEPT ![p] = @ + 1]
  /\ UNCHANGED <<h, masterVars, nbLine, wh, imageIn, filtered, toWorker>>

Finalize(p) ==
  /\ WorkerReturned(p)
  /\ GoTo(p, "finalize", "done")
  /\ UNCHANGED <<h, masterVars, nbLine, line, wh, imageIn, filtered, toWorker, toMaster>>

WorkerStep(p) ==
  \/ RecvNbLine(p) \/ RecvW(p) \/ RecvLine(p) \/ FilterLines(p) \/ SendResult(p) \/ Finalize(p)

-----------------------------------------------------------------------------
AllDone == pc = "done" /\ \A p \in Worker : wpc[p] = "done"
Ended == AllDone /\ UNCHANGED vars

Next == Master \/ (\E p \in Worker : WorkerStep(p)) \/ Ended

Spec == Init /\ [][Next]_vars

\* Every process that can go on does.
FairSpec == Spec /\ WF_vars(Master) /\ \A p \in Worker : WF_vars(WorkerStep(p))

-----------------------------------------------------------------------------
\* The lines that the filter of the line k reads.
Read(k) == IF k = 0 THEN {0} ELSE {k - 1, k, k + 1}

\* A line is filtered as be-np.c filters it when one worker has received all the lines
\* this takes, and does not take it for the last line of the image: neither the lines
\* that are dealt out twice nor the order of the results disturb it.
InsideIsFiltered ==
  pc = "done" =>
    \A p \in Worker, k \in 0..(h - 1) :
      /\ Read(k) \subseteq ((p - 1) * MasterNbLine)..(p * MasterNbLine - 1)
      /\ k # wh[p] - 1
      => imageOut[k] = Reference(k)

\* All processes end, although every worker is sent one line more than it receives and
\* nobody takes a result before all lines are sent: it takes one message that MPI buffers.
EveryoneEnds == <>AllDone

=============================================================================
