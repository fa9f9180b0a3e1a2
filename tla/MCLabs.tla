------------------------------- MODULE MCLabs -------------------------------
(***************************************************************************)
(* An instance of Labs small enough for TLC: ex2.c asked for two threads,  *)
(* where the system has three and i starts from -1, 0 or 1; four processes *)
(* for images of 12 and 14 lines and of less lines than processes, where   *)
(* the h of a worker names no line or its second; two clients over UDP and *)
(* three over TCP; images that divide among one to four processes and      *)
(* others that do not; three periodic tasks.                               *)
(***************************************************************************)
EXTENDS Labs

CONSTANTS t1, t2, t3

ThreeThreads == {t1, t2, t3}
NoLineOrSecond == {-1, 2}
AroundZero == {-1, 0, 1}

=============================================================================
