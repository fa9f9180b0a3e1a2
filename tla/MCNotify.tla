------------------------------ MODULE MCNotify ------------------------------
(* Instances of Notify small enough for TLC. *)
EXTENDS Notify

CONSTANTS t1, t2

TwoThreads == {t1, t2}

=============================================================================
