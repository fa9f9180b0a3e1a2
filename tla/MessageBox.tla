----------------------------- MODULE MessageBox -----------------------------
(***************************************************************************)
(* What msg_box.h promises: a box of size 1 whose messages are            *)
(* overwritten.  A send never blocks and replaces what the box holds; a    *)
(* receive waits for a message, gets it whole and leaves the box empty.    *)
(***************************************************************************)
CONSTANTS Receiver, Message, NULL

VARIABLES
  content,    \* the message in the box, or NULL
  received    \* the last message each receiver got, or NULL

Init == content = NULL /\ received = [r \in Receiver |-> NULL]

Send == content' \in Message /\ UNCHANGED received

Receive(r) ==
  /\ content # NULL
  /\ received' = [received EXCEPT ![r] = content]
  /\ content' = NULL

Next == Send \/ \E r \in Receiver : Receive(r)

Spec == Init /\ [][Next]_<<content, received>>

=============================================================================
