------------------------------ MODULE MCMsgBox ------------------------------
(* Instances of MsgBox small enough for TLC. *)
EXTENDS MsgBox

CONSTANTS s1, s2, r1, r2, on, off

TwoSenders == {s1, s2}
TwoReceivers == {r1, r2}

\* Messages of two bytes: a mixture of the two is no message.
TwoBytes == {0, 1}
BothValues == {on, off}
WholeMessages == {[b \in TwoBytes |-> v] : v \in BothValues}

=============================================================================
