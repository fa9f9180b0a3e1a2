------------------------------- MODULE MCTrain ------------------------------
(* Instances of Train small enough for TLC. *)
EXTENDS Train, TLC

CONSTANTS t1, t2, t3

ThreeTrains == {t1, t2, t3}
BothWays == {0, 1}
TrainSymmetry == Permutations(ThreeTrains)

=============================================================================
