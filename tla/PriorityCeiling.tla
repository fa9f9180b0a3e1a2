--------------------------- MODULE PriorityCeiling ---------------------------
(***************************************************************************)
(* The three tasks of IN_LAB_RTEMS/ex2: task 1, the most urgent, shares a  *)
(* semaphore with task 3, the least; task 2 only computes.  They run on    *)
(* one processor, the task with the smallest priority number first.  The   *)
(* semaphore has a priority ceiling: who holds it runs at the priority of  *)
(* task 1.                                                                 *)
(*                                                                         *)
(* The code computes for as long as it takes to make things happen: a wait *)
(* may end in the middle of it.                                            *)
(***************************************************************************)
EXTENDS Integers

VARIABLES
  step,      \* where each task, and main, is
  prio,      \* its current priority
  holder,    \* the task that holds Semaphore_id[1], or main for none
  running    \* the task that took the last step

ceilingVars == <<step, prio, holder, running>>

MAX_TASKS == 3
Tasks == 1..MAX_TASKS
MAIN == 0
All == Tasks \cup {MAIN}

Task_Priority == [t \in Tasks |-> 20 + t]
Ceiling == Task_Priority[1]

Init ==
  /\ step = [t \in All |-> IF t = MAIN THEN "wait" ELSE "none"]
  /\ prio = [t \in All |-> IF t = MAIN THEN 1 ELSE Task_Priority[t]]
  /\ holder = MAIN /\ running = MAIN

Awake(t) == step[t] \notin {"none", "wait", "asleep", "blocked", "deleted"}

(* The most urgent task that is awake; between equals, the one that runs.  *)
Runs(t) ==
  /\ Awake(t)
  /\ \A u \in All : Awake(u) => prio[t] <= prio[u]
  /\ Awake(running) /\ prio[running] = prio[t] => running = t

GoTo(t, from, to) ==
  /\ Runs(t) /\ running' = t
  /\ step[t] = from /\ step' = [step EXCEPT ![t] = to]

-----------------------------------------------------------------------------
(* rtems_task_wake_after: offsets of 500 and 600 for tasks 1 and 2, none   *)
(* for task 3.                                                             *)
Start(t) == GoTo(t, "start", IF t = 3 THEN "obtain" ELSE "asleep") /\ UNCHANGED <<prio, holder>>

WakeUp(t) ==
  /\ step[t] = "asleep" /\ \A u \in Tasks : u < t => step[u] # "asleep"
  /\ step' = [step EXCEPT ![t] = IF t = 2 THEN "compute" ELSE "obtain"]
  /\ UNCHANGED <<prio, holder, running>>

\* Fault: a semaphore without ceiling.
Obtain_NoCeiling(t) ==
  IF holder = MAIN THEN GoTo(t, "obtain", "critical") /\ holder' = t /\ UNCHANGED prio
  ELSE GoTo(t, "obtain", "blocked") /\ UNCHANGED <<prio, holder>>

Obtain(t) ==
  IF holder = MAIN
  THEN GoTo(t, "obtain", "critical") /\ holder' = t /\ prio' = [prio EXCEPT ![t] = Ceiling]
  ELSE GoTo(t, "obtain", "blocked") /\ UNCHANGED <<prio, holder>>

(* The semaphore goes to the task that waits for it, if there is one.      *)
Release(t) ==
  /\ Runs(t) /\ running' = t /\ step[t] = "critical"
  /\ LET next == IF \E u \in Tasks : step[u] = "blocked" THEN CHOOSE u \in Tasks : step[u] = "blocked" ELSE MAIN
     IN  /\ holder' = next
         /\ step' = [u \in All |-> IF u = t THEN "compute" ELSE IF u = next /\ u # MAIN THEN "critical" ELSE step[u]]
         /\ prio' = [u \in All |-> IF u = t THEN Task_Priority[t]
                                   ELSE IF u = next /\ u # MAIN THEN Ceiling ELSE prio[u]]

(* WASTE_CPU, and rtems_task_delete.                                       *)
Compute(t) == GoTo(t, "compute", "done") /\ UNCHANGED <<prio, holder>>
Delete(t) == GoTo(t, "done", "deleted") /\ UNCHANGED <<prio, holder>>

-----------------------------------------------------------------------------
(* Init, the main task: it starts the others at priority 10 and lets them  *)
(* run at priority 40.                                                     *)
WaitEnds ==
  /\ step[MAIN] = "wait" /\ step' = [step EXCEPT ![MAIN] = "start"]
  /\ UNCHANGED <<prio, holder, running>>

StartTasks ==
  /\ Runs(MAIN) /\ running' = MAIN /\ step[MAIN] = "start"
  /\ step' = [t \in All |-> IF t = MAIN THEN "lower" ELSE "start"]
  /\ prio' = [prio EXCEPT ![MAIN] = 10]
  /\ UNCHANGED holder

Lower == GoTo(MAIN, "lower", "done") /\ prio' = [prio EXCEPT ![MAIN] = 40] /\ UNCHANGED holder

Next ==
  \/ WaitEnds \/ StartTasks \/ Lower \/ Delete(MAIN)
  \/ \E t \in Tasks : Start(t) \/ WakeUp(t) \/ Obtain(t) \/ Release(t) \/ Compute(t) \/ Delete(t)

Spec == Init /\ [][Next]_ceilingVars
-----------------------------------------------------------------------------
Ended == \A t \in All : step[t] = "deleted"

(* No priority inversion: from the moment task 1 is awake until it has     *)
(* ended, task 2 does not run, although task 1 may have to wait for what   *)
(* the less urgent task 3 holds.                                           *)
TaskTwoWaits ==
  step'[2] # step[2] /\ step[2] \in {"start", "compute", "done"} => step[1] \in {"asleep", "deleted"}

NoInversion == [][TaskTwoWaits]_ceilingVars
=============================================================================
