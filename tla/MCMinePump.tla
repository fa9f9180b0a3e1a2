----------------------------- MODULE MCMinePump -----------------------------
(* Instances of MinePump small enough for TLC. *)
EXTENDS MinePump

BothBuilds == BOOLEAN

\* With the GUI the posts may pile up; without it the water already makes many states.
PostBounds == [g \in BOOLEAN |-> IF g THEN 2 ELSE 1]

\* The values next to the two thresholds of the methane sensor.
Thresholds == {70, 71, 100, 101}

=============================================================================
