------------------------------- MODULE MsgBox -------------------------------
(***************************************************************************)
(* The message box of IN_BE_Pump/msg_box.c: a buffer of elt_size bytes, a  *)
(* flag, a mutex and a condition variable.  Any number of tasks send and   *)
(* receive.  The two memcpy move the message one byte at a time, in an     *)
(* order of their own, so that exclusion is what keeps messages whole.     *)
(***************************************************************************)
EXTENDS Integers

CONSTANTS
  Sender, Receiver,   \* the tasks that call msg_box_send, msg_box_receive
  Byte,               \* the positions 0 .. elt_size - 1 of a message
  Value,              \* what a byte holds
  Message,            \* the messages sent, each a value for every position
  NULL,
  MaxSpurious         \* bound on the spurious wakeups of pthread_cond_wait

Task == Sender \cup Receiver

ASSUME MsgBoxAssumption ==
  /\ Sender \cap Receiver = {}
  /\ Message \subseteq [Byte -> Value]
  /\ Message # {}
  /\ NULL \notin Task /\ NULL \notin Message
  /\ MaxSpurious \in Nat

VARIABLES
  pc,         \* where each task is
  owner,      \* the task that holds mbox->mutex
  buf,        \* mbox->buf
  empty,      \* mbox->empty
  mine,       \* the caller's buffer
  left,       \* the positions the caller's memcpy has still to copy
  latest,     \* history: the message of the last send that set empty to false
  received,   \* history: the last message each receive returned
  spurious

vars == <<pc, owner, buf, empty, mine, left, latest, received, spurious>>

\* malloc leaves the buffer as it is.
Init ==
  /\ pc = [t \in Task |-> "idle"]
  /\ owner = NULL
  /\ buf \in [Byte -> Value]
  /\ empty = TRUE
  /\ mine \in [Task -> Message]
  /\ left = [t \in Task |-> {}]
  /\ latest = NULL
  /\ received = [r \in Receiver |-> NULL]
  /\ spurious = 0

GoTo(t, from, to) == pc[t] = from /\ pc' = [pc EXCEPT ![t] = to]

\* Fault: no exclusion.
Acquire_Unguarded(t, from, to) ==
  /\ GoTo(t, from, to)
  /\ owner' = t
  /\ UNCHANGED <<buf, empty, mine, latest, received, spurious>>

Acquire(t, from, to) ==
  /\ owner = NULL
  /\ GoTo(t, from, to)
  /\ owner' = t
  /\ UNCHANGED <<buf, empty, mine, latest, received, spurious>>

-----------------------------------------------------------------------------
(* msg_box_send                                                            *)

SendCall(s) ==
  /\ GoTo(s, "idle", "s_lock")
  /\ \E m \in Message : mine' = [mine EXCEPT ![s] = m]
  /\ UNCHANGED <<owner, buf, empty, left, latest, received, spurious>>

SLock(s) == Acquire(s, "s_lock", "s_copy") /\ left' = [left EXCEPT ![s] = Byte]

SCopy(s) ==
  /\ pc[s] = "s_copy"
  /\ \E b \in left[s] :
       /\ buf' = [buf EXCEPT ![b] = mine[s][b]]
       /\ left' = [left EXCEPT ![s] = @ \ {b}]
  /\ UNCHANGED <<pc, owner, empty, mine, latest, received, spurious>>

SFill(s) ==
  /\ left[s] = {}
  /\ GoTo(s, "s_copy", "s_signal")
  /\ empty' = FALSE
  /\ latest' = mine[s]
  /\ UNCHANGED <<owner, buf, mine, left, received, spurious>>

Sleeping == {r \in Receiver : pc[r] = "r_wait"}

\* Fault: nobody is signalled.
SUnlock_NoSignal(s) ==
  /\ GoTo(s, "s_signal", "idle")
  /\ owner' = NULL
  /\ UNCHANGED <<buf, empty, mine, left, latest, received, spurious>>

\* pthread_cond_signal wakes one receiver, if one sleeps; then the mutex is released.
SUnlock(s) ==
  /\ pc[s] = "s_signal"
  /\ IF Sleeping = {}
       THEN pc' = [pc EXCEPT ![s] = "idle"]
       ELSE \E r \in Sleeping : pc' = [pc EXCEPT ![s] = "idle", ![r] = "r_relock"]
  /\ owner' = NULL
  /\ UNCHANGED <<buf, empty, mine, left, latest, received, spurious>>

-----------------------------------------------------------------------------
(* msg_box_receive                                                         *)

ReceiveCall(r) ==
  /\ GoTo(r, "idle", "r_lock")
  /\ UNCHANGED <<owner, buf, empty, mine, left, latest, received, spurious>>

RLock(r) == Acquire(r, "r_lock", "r_test") /\ UNCHANGED left
RRelock(r) == Acquire(r, "r_relock", "r_test") /\ UNCHANGED left

RWait(r) ==
  /\ empty
  /\ GoTo(r, "r_test", "r_wait")
  /\ owner' = NULL
  /\ UNCHANGED <<buf, empty, mine, left, latest, received, spurious>>

RPass(r) ==
  /\ ~empty
  /\ GoTo(r, "r_test", "r_copy")
  /\ left' = [left EXCEPT ![r] = Byte]
  /\ UNCHANGED <<owner, buf, empty, mine, latest, received, spurious>>

RCopy(r) ==
  /\ pc[r] = "r_copy"
  /\ \E b \in left[r] :
       /\ mine' = [mine EXCEPT ![r][b] = buf[b]]
       /\ left' = [left EXCEPT ![r] = @ \ {b}]
  /\ UNCHANGED <<pc, owner, buf, empty, latest, received, spurious>>

\* Fault: the flag is not set back, so that a message is received again.
RTake_NotEmptied(r) ==
  /\ left[r] = {}
  /\ GoTo(r, "r_copy", "idle")
  /\ received' = [received EXCEPT ![r] = mine[r]]
  /\ owner' = NULL
  /\ UNCHANGED <<buf, empty, mine, left, latest, spurious>>

RTake(r) ==
  /\ left[r] = {}
  /\ GoTo(r, "r_copy", "idle")
  /\ empty' = TRUE
  /\ received' = [received EXCEPT ![r] = mine[r]]
  /\ owner' = NULL
  /\ UNCHANGED <<buf, mine, left, latest, spurious>>

SpuriousWakeup(r) ==
  /\ spurious < MaxSpurious
  /\ GoTo(r, "r_wait", "r_relock")
  /\ spurious' = spurious + 1
  /\ UNCHANGED <<owner, buf, empty, mine, left, latest, received>>

-----------------------------------------------------------------------------
SenderSteps(s) == SCopy(s) \/ SFill(s) \/ SUnlock(s)
ReceiverAcquires(r) == RLock(r) \/ RRelock(r)
ReceiverSteps(r) == ReceiveCall(r) \/ RWait(r) \/ RPass(r) \/ RCopy(r) \/ RTake(r)

Next == \/ \E s \in Sender : SendCall(s) \/ SLock(s) \/ SenderSteps(s)
        \/ \E r \in Receiver : ReceiverAcquires(r) \/ ReceiverSteps(r) \/ SpuriousWakeup(r)

\* A send is never forced to begin, one that has begun ends.  A receiver comes back
\* for the next message (CmdAlarm_Body), and it gets the mutex, because the senders
\* are activated by a period and do not hold it for ever.
Fairness ==
  /\ \A s \in Sender : SF_vars(SLock(s)) /\ WF_vars(SenderSteps(s))
  /\ \A r \in Receiver : SF_vars(ReceiverAcquires(r)) /\ WF_vars(ReceiverSteps(r))

Spec == Init /\ [][Next]_vars
FairSpec == Spec /\ Fairness

-----------------------------------------------------------------------------
SenderLocation == {"idle", "s_lock", "s_copy", "s_signal"}
ReceiverLocation == {"idle", "r_lock", "r_relock", "r_test", "r_wait", "r_copy"}

TypeOK ==
  /\ pc \in [Task -> SenderLocation \cup ReceiverLocation]
  /\ \A s \in Sender : pc[s] \in SenderLocation /\ mine[s] \in Message
  /\ \A r \in Receiver : pc[r] \in ReceiverLocation
  /\ owner \in Task \cup {NULL}
  /\ buf \in [Byte -> Value]
  /\ empty \in BOOLEAN
  /\ mine \in [Task -> [Byte -> Value]]
  /\ left \in [Task -> SUBSET Byte]
  /\ latest \in Message \cup {NULL}
  /\ received \in [Receiver -> [Byte -> Value] \cup {NULL}]
  /\ spurious \in 0..MaxSpurious

\* No wakeup is lost: when the box holds a message and nobody holds the mutex, either
\* no receiver sleeps or one of them is on its way to the box.
NoLostWakeup ==
  ~empty /\ owner = NULL /\ Sleeping # {} => \E r \in Receiver : pc[r] = "r_relock"

\* A message that was sent is received, or replaced by one that is.
MessageLeavesTheBox == ~empty ~> empty

\* While a sender copies, the box of the promise still holds the message before.
Box == INSTANCE MessageBox WITH content <- IF empty THEN NULL ELSE latest

\* msg_box.h: the box holds the latest message, a receive gets it whole and once.
ImplementsMessageBox == Box!Spec

=============================================================================
