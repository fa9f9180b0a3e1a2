---------------------------- MODULE RateMonotonic ----------------------------
(***************************************************************************)
(* The periodic tasks of IN_LAB_RTEMS/ex1: they run one after the other on *)
(* one processor, the task with the smallest priority first, and stop once *)
(* they have counted enough passes together; main then lets them go.       *)
(*                                                                         *)
(* The end of a period comes at any time.  A larger number is a lower      *)
(* priority.  Total_Passes++ is a load and a store.                        *)
(***************************************************************************)
EXTENDS Integers

CONSTANTS
  MAX_TASKS,          \* the tasks are 1 to MAX_TASKS
  MAX_TOTAL_PASSES

Tasks == 1..MAX_TASKS
MAIN == 0

VARIABLES
  at,            \* where each task, and main, is
  priority,      \* of main, which changes it
  Total_Passes,
  loaded,        \* what each task has loaded of it
  Done,
  asked          \* main: the next task it looks at, or resumes; Main_Done while it looks

rateVars == <<at, priority, Total_Passes, loaded, Done, asked>>

Init ==
  /\ at = [t \in Tasks \cup {MAIN} |-> IF t = MAIN THEN "start" ELSE "none"]
  /\ priority = 10
  /\ Total_Passes = 0 /\ loaded = [t \in Tasks |-> 0]
  /\ Done = [t \in Tasks |-> 0]
  /\ asked = [j |-> 1, Main_Done |-> 1]

Priority(t) == IF t = MAIN THEN priority ELSE 19 + t

Blocked == {"none", "period", "suspended", "deleted"}
Ready(t) == at[t] \notin Blocked

(* Preemption: nobody runs while a task of higher priority is ready.       *)
Runs(t) == Ready(t) /\ \A u \in DOMAIN at : Ready(u) => Priority(t) <= Priority(u)

GoTo(t, from, to) == Runs(t) /\ at[t] = from /\ at' = [at EXCEPT ![t] = to]

-----------------------------------------------------------------------------
(* The_Task                                                                *)
NextPeriod(t) ==
  /\ GoTo(t, "loop", "period")
  /\ UNCHANGED <<priority, Total_Passes, loaded, Done, asked>>

(* The clock ends a period.                                                *)
PeriodEnds(t) ==
  /\ at[t] = "period" /\ at' = [at EXCEPT ![t] = "work"]
  /\ UNCHANGED <<priority, Total_Passes, loaded, Done, asked>>

Load(t) ==
  /\ GoTo(t, "work", "store")
  /\ loaded' = [loaded EXCEPT ![t] = Total_Passes]
  /\ UNCHANGED <<priority, Total_Passes, Done, asked>>

Store(t) ==
  /\ GoTo(t, "store", "test")
  /\ Total_Passes' = loaded[t] + 1
  /\ UNCHANGED <<priority, loaded, Done, asked>>

Test(t) ==
  /\ GoTo(t, "test", IF Total_Passes >= MAX_TOTAL_PASSES THEN "finish" ELSE "loop")
  /\ UNCHANGED <<priority, Total_Passes, loaded, Done, asked>>

Finish(t) ==
  /\ GoTo(t, "finish", "suspend")
  /\ Done' = [Done EXCEPT ![t] = 1]
  /\ UNCHANGED <<priority, Total_Passes, loaded, asked>>

Suspend(t) ==
  /\ GoTo(t, "suspend", "suspended")
  /\ UNCHANGED <<priority, Total_Passes, loaded, Done, asked>>

Delete(t) ==
  /\ GoTo(t, "delete", "deleted")
  /\ UNCHANGED <<priority, Total_Passes, loaded, Done, asked>>

-----------------------------------------------------------------------------
(* Init, the main task.  It starts the others, which have to wait.         *)
StartTasks ==
  /\ Runs(MAIN) /\ at[MAIN] = "start"
  /\ at' = [t \in DOMAIN at |-> IF t = MAIN THEN "lower" ELSE "loop"]
  /\ UNCHANGED <<priority, Total_Passes, loaded, Done, asked>>

\* Fault: main stays at its high priority.
LowerPriority_Kept ==
  /\ GoTo(MAIN, "lower", "look")
  /\ UNCHANGED <<priority, Total_Passes, loaded, Done, asked>>

LowerPriority ==
  /\ GoTo(MAIN, "lower", "look")
  /\ priority' = 50
  /\ UNCHANGED <<Total_Passes, loaded, Done, asked>>

(* It looks at Done, again and again, until it has seen all tasks done.    *)
Look ==
  /\ Runs(MAIN) /\ at[MAIN] = "look"
  /\ LET seen == IF Done[asked.j] = 0 THEN 0 ELSE asked.Main_Done
     IN  IF asked.j < MAX_TASKS
         THEN asked' = [j |-> asked.j + 1, Main_Done |-> seen] /\ UNCHANGED at
         ELSE /\ asked' = [j |-> 1, Main_Done |-> 1]
              /\ at' = IF seen = 1 THEN [at EXCEPT ![MAIN] = "resume"] ELSE at
  /\ UNCHANGED <<priority, Total_Passes, loaded, Done>>

(* rtems_task_resume of a task that is not suspended does nothing.         *)
Resume ==
  /\ Runs(MAIN) /\ at[MAIN] = "resume"
  /\ at' = [t \in DOMAIN at |->
             IF t = asked.j /\ at[t] = "suspended" THEN "delete"
             ELSE IF t = MAIN /\ asked.j = MAX_TASKS THEN "delete" ELSE at[t]]
  /\ asked' = [asked EXCEPT !.j = IF @ < MAX_TASKS THEN @ + 1 ELSE 1]
  /\ UNCHANGED <<priority, Total_Passes, loaded, Done>>

-----------------------------------------------------------------------------
Step(t) == NextPeriod(t) \/ Load(t) \/ Store(t) \/ Test(t) \/ Finish(t) \/ Suspend(t)

Main == StartTasks \/ LowerPriority \/ Look \/ Resume

Processor == Main \/ (\E t \in Tasks : Step(t)) \/ (\E t \in DOMAIN at : Delete(t))

Clock == \E t \in Tasks : PeriodEnds(t)

Next == Processor \/ Clock

Spec == Init /\ [][Next]_rateVars

(* The processor runs whatever is ready, and every period ends.            *)
Fairness == WF_rateVars(Processor) /\ \A t \in Tasks : WF_rateVars(PeriodEnds(t))
FairSpec == Spec /\ Fairness
-----------------------------------------------------------------------------
Ended == \A t \in DOMAIN at : at[t] = "deleted"

(* All tasks leave, although passes are lost from the count, a late store  *)
(* may set it back, and a task that main resumed before it is suspended    *)
(* would never wake up.                                                    *)
EveryTaskLeaves == <>Ended
=============================================================================
