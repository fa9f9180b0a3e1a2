--------------------------- MODULE ImagePartition ---------------------------
(***************************************************************************)
(* The convolution of an image by scatter and gather                       *)
(* (IN_TD_MPI/convolution_image/image_conv.c): process 0 shares the lines  *)
(* of an image out among all processes, itself included; each computes the *)
(* lines inside its chunk; process 0 gathers the results.                  *)
(*                                                                         *)
(* Counts and displacements are in pixels, as MPI takes them.  The image   *)
(* that results is recorded as the range of pixels each process fills.     *)
(***************************************************************************)
EXTENDS Integers

CONSTANTS
  ImageHeights, Widths,   \* the images considered
  Processes               \* the numbers of processes considered

VARIABLES
  ih, w, nb_process,          \* the image, and the number of processes
  place,                      \* where process 0 is
  next,                       \* the process it deals with next: i
  nb_elem_remain,
  sendcounts, displs_send,
  nb_lines,                   \* the lines of each process's chunk, once it knows them
  chunk,                      \* the lines it has received
  computed,                   \* the lines it has computed
  gathered                    \* the pixels of image_out that its result fills

partitionVars == <<ih, w, nb_process, place, next, nb_elem_remain, sendcounts, displs_send,
                   nb_lines, chunk, computed, gathered>>

Ranks == 0..(nb_process - 1)

nb_elem_to_handle == (ih - 3) \div nb_process

Init ==
  /\ ih \in ImageHeights /\ w \in Widths /\ nb_process \in Processes
  /\ place = "share" /\ next = 1
  /\ nb_elem_remain = (ih - 3) % nb_process
  /\ sendcounts = [p \in Ranks |-> IF p = 0 THEN (nb_elem_to_handle + 2) * w ELSE 0]
  /\ displs_send = [p \in Ranks |-> 0]
  /\ nb_lines = [p \in Ranks |-> IF p = 0 THEN nb_elem_to_handle + 2 ELSE 0]
  /\ chunk = [p \in Ranks |-> {}] /\ computed = [p \in Ranks |-> {}]
  /\ gathered = [p \in Ranks |-> {}]

\* Fault: a line more than remains is given away.
Extra_OneMore == IF nb_elem_remain >= 0 THEN 1 ELSE 0

Extra == IF nb_elem_remain > 0 THEN 1 ELSE 0

(* Process 0 tells a process how many lines it will get.                   *)
Share ==
  /\ place = "share" /\ next < nb_process
  /\ nb_lines' = [nb_lines EXCEPT ![next] = 2 + nb_elem_to_handle + Extra]
  /\ sendcounts' = [sendcounts EXCEPT ![next] = nb_lines'[next] * w]
  /\ displs_send' = [displs_send EXCEPT ![next] = displs_send[next - 1] + sendcounts[next - 1] - 2 * w]
  /\ nb_elem_remain' = nb_elem_remain - 1
  /\ next' = next + 1
  /\ UNCHANGED <<ih, w, nb_process, place, chunk, computed, gathered>>

(* MPI_Scatterv.  The displacements are whole lines.                       *)
Scatter ==
  /\ place = "share" /\ next = nb_process
  /\ place' = "compute"
  /\ chunk' = [p \in Ranks |-> (displs_send[p] \div w)..((displs_send[p] + sendcounts[p]) \div w - 1)]
  /\ UNCHANGED <<ih, w, nb_process, next, nb_elem_remain, sendcounts, displs_send, nb_lines, computed, gathered>>

(* compute_sub_image_out: all lines but the first and the last of a chunk. *)
Compute(p) ==
  /\ place = "compute" /\ computed[p] = {}
  /\ computed' = [computed EXCEPT ![p] = {y \in chunk[p] : y - 1 \in chunk[p] /\ y + 1 \in chunk[p]}]
  /\ UNCHANGED <<ih, w, nb_process, place, next, nb_elem_remain, sendcounts, displs_send, nb_lines, chunk, gathered>>

(* The counts lose two lines and the displacements gain one pixel, but     *)
(* those of process 0; MPI_Gatherv puts the results there.                 *)
Gather ==
  /\ place = "compute" /\ \A p \in Ranks : computed[p] # {} \/ nb_lines[p] = 2
  /\ place' = "done"
  /\ displs_send' = [p \in Ranks |-> IF p = 0 THEN displs_send[p] ELSE displs_send[p] + 1]
  /\ sendcounts' = [p \in Ranks |-> IF p = 0 THEN sendcounts[p] ELSE sendcounts[p] - 2 * w]
  /\ gathered' = [p \in Ranks |-> displs_send'[p]..(displs_send'[p] + (nb_lines[p] - 2) * w - 1)]
  /\ UNCHANGED <<ih, w, nb_process, next, nb_elem_remain, nb_lines, chunk, computed>>

Next == Share \/ Scatter \/ (\E p \in Ranks : Compute(p)) \/ Gather

Spec == Init /\ [][Next]_partitionVars
-----------------------------------------------------------------------------
(* Each line from the second to the last but two is computed by exactly    *)
(* one process, however the lines divide; no result is laid over another   *)
(* or out of the image, and each is as large as the room counted for it.   *)
EveryLineOnce ==
  place = "done" =>
    /\ \A y \in 1..(ih - 3) : \E p \in Ranks : \A q \in Ranks : y \in computed[q] <=> p = q
    /\ \A p \in Ranks : computed[p] \subseteq 1..(ih - 3)
    /\ \A p, q \in Ranks : p # q => gathered[p] \cap gathered[q] = {}
    /\ \A p \in Ranks : gathered[p] \subseteq 0..(ih * w - 1)
    /\ \A p \in Ranks \ {0} : sendcounts[p] = (nb_lines[p] - 2) * w
=============================================================================
