------------------------------ MODULE MCRWLock ------------------------------
(* Instances of RWLock small enough for TLC. *)
EXTENDS RWLock, TLC

CONSTANTS r1, r2, w1, w2

TwoReaders == {r1, r2}
TwoWriters == {w1, w2}

\* main gives writer i the increment i + 1.
TwoIncrements == w1 :> 1 @@ w2 :> 2

=============================================================================
