------------------------------- MODULE Train --------------------------------
(***************************************************************************)
(* The single-track railway of IN_TD_POSIX/train.c: one thread per train,  *)
(* a semaphore G for the track, a semaphore F per direction, and a count T *)
(* of the trains of each direction, which no lock protects.                *)
(*                                                                         *)
(* T[dir]++ and T[dir]-- are a load and a store, so that updates can be    *)
(* lost and the counts can be wrong, or negative.                          *)
(***************************************************************************)
EXTENDS Integers

CONSTANTS
  Trains,      \* the threads
  Direction    \* the directions that random() % 2 takes, among 0 and 1

VARIABLES
  pc,     \* where each train is
  dir,    \* its direction
  n,      \* its local n, the number of trains it found
  copy,   \* what it has loaded of T[dir]
  T,      \* the counts
  F, G    \* the values of the semaphores

vars == <<pc, dir, n, copy, T, F, G>>

Init ==
  /\ pc = [t \in Trains |-> "look"]
  /\ dir \in [Trains -> Direction]
  /\ n = [t \in Trains |-> 0]
  /\ copy = [t \in Trains |-> 0]
  /\ T = [d \in {0, 1} |-> 0]
  /\ F = [d \in {0, 1} |-> 0]
  /\ G = 1

GoTo(t, from, to) == pc[t] = from /\ pc' = [pc EXCEPT ![t] = to]

\* n = T[dir]
Look(t) ==
  /\ GoTo(t, "look", "load")
  /\ n' = [n EXCEPT ![t] = T[dir[t]]]
  /\ UNCHANGED <<dir, copy, T, F, G>>

\* A load of T[dir], for the increment or for the decrement.
Load(t) ==
  /\ GoTo(t, "load", "store") \/ GoTo(t, "unload", "unstore")
  /\ copy' = [copy EXCEPT ![t] = T[dir[t]]]
  /\ UNCHANGED <<dir, n, T, F, G>>

\* The store of T[dir]++; a train that found nobody waits for the track, another one
\* for its turn.
Count(t) ==
  /\ GoTo(t, "store", IF n[t] = 0 THEN "wait_G" ELSE "wait_F")
  /\ T' = [T EXCEPT ![dir[t]] = copy[t] + 1]
  /\ UNCHANGED <<dir, n, copy, F, G>>

\* sem_wait(&G)
EnterFirst(t) ==
  /\ G > 0 /\ G' = G - 1
  /\ GoTo(t, "wait_G", "moving")
  /\ UNCHANGED <<dir, n, copy, T, F>>

\* sem_wait(&F[dir])
EnterNext(t) ==
  /\ F[dir[t]] > 0 /\ F' = [F EXCEPT ![dir[t]] = @ - 1]
  /\ GoTo(t, "wait_F", "moving")
  /\ UNCHANGED <<dir, n, copy, T, G>>

\* sleep(1) is over.
Arrive(t) ==
  /\ GoTo(t, "moving", "unload")
  /\ UNCHANGED <<dir, n, copy, T, F, G>>

Uncount(t) ==
  /\ GoTo(t, "unstore", "leave")
  /\ T' = [T EXCEPT ![dir[t]] = copy[t] - 1]
  /\ UNCHANGED <<dir, n, copy, F, G>>

\* The last train of its direction gives the track back, another one calls the next.
Leave(t) ==
  /\ GoTo(t, "leave", IF T[dir[t]] = 0 THEN "switch" ELSE "done")
  /\ IF T[dir[t]] = 0 THEN G' = G + 1 /\ UNCHANGED F
                      ELSE F' = [F EXCEPT ![dir[t]] = @ + 1] /\ UNCHANGED G
  /\ UNCHANGED <<dir, n, copy, T>>

\* sem_post(&F[1 - dir])
Switch(t) ==
  /\ GoTo(t, "switch", "done")
  /\ F' = [F EXCEPT ![1 - dir[t]] = @ + 1]
  /\ UNCHANGED <<dir, n, copy, T, G>>

Next == \E t \in Trains :
  \/ Look(t) \/ Load(t) \/ Count(t) \/ EnterFirst(t) \/ EnterNext(t)
  \/ Arrive(t) \/ Uncount(t) \/ Leave(t) \/ Switch(t)

Spec == Init /\ [][Next]_vars

-----------------------------------------------------------------------------
Location == {"look", "load", "store", "wait_G", "wait_F", "moving", "unload", "unstore",
             "leave", "switch", "done"}

TypeOK ==
  /\ pc \in [Trains -> Location]
  /\ dir \in [Trains -> Direction]
  /\ n \in [Trains -> Int] /\ copy \in [Trains -> Int]
  /\ T \in [{0, 1} -> Int]
  /\ F \in [{0, 1} -> Nat] /\ G \in Nat

\* A train is on the track from its sem_wait until it posts.
OnTrack == {t \in Trains : pc[t] \in {"moving", "unload", "unstore", "leave"}}

\* train.c:61: only one train is on the track.  It holds when all trains have the same
\* direction, however wrong the counts are; it does not when a train gives the track to
\* both semaphores of the other side.
OneTrain == \A s, t \in OnTrack : s = t

=============================================================================
