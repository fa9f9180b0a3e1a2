---------------------------- MODULE MsgBoxProofs ----------------------------
(***************************************************************************)
(* Theorems about MsgBox, for any sets of senders and receivers, any set   *)
(* of bytes and any messages.                                              *)
(*                                                                         *)
(* That a message arrives whole rests on the mutex and on what the buffers *)
(* hold in the middle of a memcpy: the bytes already copied are right.     *)
(***************************************************************************)
EXTENDS MsgBox, TLAPS

\* The places between pthread_mutex_lock and pthread_mutex_unlock.
Critical == {"s_copy", "s_signal", "r_test", "r_copy"}

MutexHeld == \A t \in Task : pc[t] \in Critical <=> owner = t

\* The bytes a task has copied so far are the source's.
CopiedSoFar ==
  /\ \A s \in Sender : pc[s] = "s_copy" => \A b \in Byte \ left[s] : buf[b] = mine[s][b]
  /\ \A r \in Receiver :
       pc[r] = "r_copy" => ~empty /\ \A b \in Byte \ left[r] : mine[r][b] = buf[b]

\* When no sender is at work, the buffer of a full box is the latest message.
FullBox ==
  ~empty => /\ latest \in Message
            /\ (\A s \in Sender : pc[s] # "s_copy") => buf = latest

\* While the box is full, a sleeper is about to be signalled, or some receiver is on
\* its way to empty the box.
Answering ==
  ~empty /\ Sleeping # {} =>
    \/ \E s \in Sender : pc[s] = "s_signal"
    \/ \E r \in Receiver : pc[r] \in {"r_relock", "r_test", "r_copy"}

BoxInv == TypeOK /\ MutexHeld /\ CopiedSoFar /\ FullBox /\ Answering

LEMMA BoxInvInit == Init => BoxInv
BY MsgBoxAssumption
DEF Init, BoxInv, TypeOK, MutexHeld, CopiedSoFar, FullBox, Answering, Task, Critical,
    SenderLocation, ReceiverLocation

LEMMA TypeOKNext == TypeOK /\ [Next]_vars => TypeOK'
<1> SUFFICES ASSUME TypeOK, [Next]_vars PROVE TypeOK'
  OBVIOUS
<1> USE MsgBoxAssumption DEF TypeOK, Task, SenderLocation, ReceiverLocation, GoTo, Acquire
<1>1. ASSUME NEW s \in Sender, SendCall(s) PROVE TypeOK'
  BY <1>1 DEF SendCall
<1>2. ASSUME NEW s \in Sender, SLock(s) PROVE TypeOK'
  BY <1>2 DEF SLock
<1>3. ASSUME NEW s \in Sender, SCopy(s) PROVE TypeOK'
  BY <1>3 DEF SCopy
<1>4. ASSUME NEW s \in Sender, SFill(s) PROVE TypeOK'
  BY <1>4 DEF SFill
<1>5. ASSUME NEW s \in Sender, SUnlock(s) PROVE TypeOK'
  BY <1>5 DEF SUnlock, Sleeping
<1>6. ASSUME NEW r \in Receiver, ReceiveCall(r) PROVE TypeOK'
  BY <1>6 DEF ReceiveCall
<1>7. ASSUME NEW r \in Receiver, ReceiverAcquires(r) PROVE TypeOK'
  BY <1>7 DEF ReceiverAcquires, RLock, RRelock
<1>8. ASSUME NEW r \in Receiver, RWait(r) \/ RPass(r) PROVE TypeOK'
  BY <1>8 DEF RWait, RPass
<1>9. ASSUME NEW r \in Receiver, RCopy(r) PROVE TypeOK'
  <2>1. PICK b \in left[r] : mine' = [mine EXCEPT ![r][b] = buf[b]]
    BY <1>9 DEF RCopy
  <2>2. mine' \in [Task -> [Byte -> Value]] /\ \A s \in Sender : mine'[s] = mine[s]
    BY <2>1
  <2> QED BY <1>9, <2>2 DEF RCopy
<1>10. ASSUME NEW r \in Receiver, RTake(r) PROVE TypeOK'
  BY <1>10 DEF RTake
<1>11. ASSUME NEW r \in Receiver, SpuriousWakeup(r) PROVE TypeOK'
  BY <1>11 DEF SpuriousWakeup
<1>12. CASE UNCHANGED vars
  BY <1>12 DEF vars
<1> QED BY <1>1, <1>2, <1>3, <1>4, <1>5, <1>6, <1>7, <1>8, <1>9, <1>10, <1>11, <1>12
  DEF Next, SenderSteps, ReceiverSteps

LEMMA MutexHeldNext == TypeOK /\ MutexHeld /\ [Next]_vars => MutexHeld'
<1> SUFFICES ASSUME TypeOK, MutexHeld, [Next]_vars PROVE MutexHeld'
  OBVIOUS
<1> USE MsgBoxAssumption DEF TypeOK, MutexHeld, Task, Critical, GoTo, Acquire
<1>1. ASSUME NEW s \in Sender, SendCall(s) \/ SLock(s) \/ SCopy(s) \/ SFill(s)
      PROVE  MutexHeld'
  BY <1>1 DEF SendCall, SLock, SCopy, SFill
<1>2. ASSUME NEW s \in Sender, SUnlock(s) PROVE MutexHeld'
  BY <1>2 DEF SUnlock, Sleeping
<1>3. ASSUME NEW r \in Receiver, ReceiveCall(r) \/ ReceiverAcquires(r) PROVE MutexHeld'
  BY <1>3 DEF ReceiveCall, ReceiverAcquires, RLock, RRelock
<1>4. ASSUME NEW r \in Receiver,
             RWait(r) \/ RPass(r) \/ RCopy(r) \/ RTake(r) \/ SpuriousWakeup(r)
      PROVE  MutexHeld'
  BY <1>4 DEF RWait, RPass, RCopy, RTake, SpuriousWakeup
<1>5. CASE UNCHANGED vars
  BY <1>5 DEF vars
<1> QED BY <1>1, <1>2, <1>3, <1>4, <1>5 DEF Next, SenderSteps, ReceiverSteps

LEMMA BuffersNext ==
  TypeOK /\ MutexHeld /\ CopiedSoFar /\ FullBox /\ [Next]_vars => CopiedSoFar' /\ FullBox'
<1> SUFFICES ASSUME TypeOK, MutexHeld, CopiedSoFar, FullBox, [Next]_vars
             PROVE  CopiedSoFar' /\ FullBox'
  OBVIOUS
<1> USE MsgBoxAssumption DEF TypeOK, Task, GoTo, Acquire
<1>1. ASSUME NEW s \in Sender, SendCall(s) PROVE CopiedSoFar' /\ FullBox'
  BY <1>1 DEF SendCall, CopiedSoFar, FullBox
<1>2. ASSUME NEW s \in Sender, SLock(s) PROVE CopiedSoFar' /\ FullBox'
  BY <1>2 DEF SLock, CopiedSoFar, FullBox
<1>3. ASSUME NEW s \in Sender, SCopy(s) PROVE CopiedSoFar' /\ FullBox'
  <2>1. \A t \in Task : t # s => pc[t] \notin Critical
    BY <1>3 DEF SCopy, MutexHeld, Critical
  <2>2. FullBox'
    BY <1>3 DEF SCopy, FullBox
  <2> QED BY <1>3, <2>1, <2>2 DEF SCopy, CopiedSoFar, Critical
<1>4. ASSUME NEW s \in Sender, SFill(s) PROVE CopiedSoFar' /\ FullBox'
  <2>1. buf = mine[s]
    BY <1>4 DEF SFill, CopiedSoFar
  <2>2. CopiedSoFar'
    BY <1>4 DEF SFill, CopiedSoFar
  <2> QED BY <1>4, <2>1, <2>2 DEF SFill, FullBox
<1>5. ASSUME NEW s \in Sender, SUnlock(s) PROVE CopiedSoFar' /\ FullBox'
  BY <1>5 DEF SUnlock, Sleeping, CopiedSoFar, FullBox
<1>6. ASSUME NEW r \in Receiver,
             ReceiveCall(r) \/ ReceiverAcquires(r) \/ RWait(r) \/ SpuriousWakeup(r)
      PROVE  CopiedSoFar' /\ FullBox'
  <2>1. UNCHANGED <<buf, empty, mine, latest>>
    BY <1>6 DEF ReceiveCall, ReceiverAcquires, RLock, RRelock, RWait, SpuriousWakeup
  <2>2. \A t \in Task : pc'[t] \in {"s_copy", "r_copy"} => pc[t] = pc'[t] /\ left'[t] = left[t]
    BY <1>6 DEF ReceiveCall, ReceiverAcquires, RLock, RRelock, RWait, SpuriousWakeup
  <2>3. \A s \in Sender : pc'[s] = pc[s]
    BY <1>6 DEF ReceiveCall, ReceiverAcquires, RLock, RRelock, RWait, SpuriousWakeup
  <2> QED BY <2>1, <2>2, <2>3 DEF CopiedSoFar, FullBox
<1>7. ASSUME NEW r \in Receiver, RPass(r) PROVE CopiedSoFar' /\ FullBox'
  BY <1>7 DEF RPass, CopiedSoFar, FullBox
<1>8. ASSUME NEW r \in Receiver, RCopy(r) PROVE CopiedSoFar' /\ FullBox'
  BY <1>8 DEF RCopy, CopiedSoFar, FullBox
<1>9. ASSUME NEW r \in Receiver, RTake(r) PROVE CopiedSoFar' /\ FullBox'
  <2>1. \A t \in Task : t # r => pc[t] \notin Critical
    BY <1>9 DEF RTake, MutexHeld, Critical
  <2> QED BY <1>9, <2>1 DEF RTake, CopiedSoFar, FullBox, Critical
<1>10. CASE UNCHANGED vars
  BY <1>10 DEF vars, CopiedSoFar, FullBox
<1> QED BY <1>1, <1>2, <1>3, <1>4, <1>5, <1>6, <1>7, <1>8, <1>9, <1>10
  DEF Next, SenderSteps, ReceiverSteps

LEMMA AnsweringNext == TypeOK /\ Answering /\ [Next]_vars => Answering'
<1> SUFFICES ASSUME TypeOK, Answering, [Next]_vars PROVE Answering'
  OBVIOUS
<1> USE MsgBoxAssumption DEF TypeOK, Task, GoTo, Acquire, Answering, Sleeping
<1>1. ASSUME NEW s \in Sender, SendCall(s) \/ SLock(s) \/ SCopy(s) \/ SFill(s)
      PROVE  Answering'
  BY <1>1 DEF SendCall, SLock, SCopy, SFill
<1>2. ASSUME NEW s \in Sender, SUnlock(s) PROVE Answering'
  BY <1>2 DEF SUnlock
<1>3. ASSUME NEW r \in Receiver, ReceiveCall(r) \/ ReceiverAcquires(r) PROVE Answering'
  BY <1>3 DEF ReceiveCall, ReceiverAcquires, RLock, RRelock
<1>4. ASSUME NEW r \in Receiver,
             RWait(r) \/ RPass(r) \/ RCopy(r) \/ RTake(r) \/ SpuriousWakeup(r)
      PROVE  Answering'
  BY <1>4 DEF RWait, RPass, RCopy, RTake, SpuriousWakeup
<1>5. CASE UNCHANGED vars
  BY <1>5 DEF vars
<1> QED BY <1>1, <1>2, <1>3, <1>4, <1>5 DEF Next, SenderSteps, ReceiverSteps

LEMMA BoxInvNext == BoxInv /\ [Next]_vars => BoxInv'
BY TypeOKNext, MutexHeldNext, BuffersNext, AnsweringNext DEF BoxInv

LEMMA BoxInvAlways == Spec => []BoxInv
BY BoxInvInit, BoxInvNext, PTL DEF Spec

-----------------------------------------------------------------------------
\* Every variable keeps its type; what a sender sends is a message throughout.
THEOREM BoxTypeCorrect == Spec => []TypeOK
<1>1. BoxInv => TypeOK
  BY DEF BoxInv
<1> QED BY <1>1, BoxInvAlways, PTL

\* msg_box.c loses no wakeup: a receiver does not sleep on a full, free box without
\* another one being on its way.
THEOREM NoReceiverIsForgotten == Spec => []NoLostWakeup
<1>1. BoxInv => NoLostWakeup
  <2> SUFFICES ASSUME BoxInv, ~empty, owner = NULL, Sleeping # {}
               PROVE  \E r \in Receiver : pc[r] = "r_relock"
    BY DEF NoLostWakeup
  <2>1. \A t \in Task : pc[t] \notin Critical
    BY MsgBoxAssumption DEF BoxInv, MutexHeld
  <2> QED BY <2>1 DEF BoxInv, Answering, Critical, Task
<1> QED BY <1>1, BoxInvAlways, PTL

\* msg_box.c implements the overwriting box of msg_box.h: whatever the interleaving of
\* the memcpy of several tasks, a receive gets the latest message, whole, and once.
THEOREM BoxIsImplemented == Spec => ImplementsMessageBox
<1>1. Init => Box!Init
  BY DEF Init, Box!Init
<1>2. BoxInv /\ [Next]_vars => [Box!Next]_<<IF empty THEN NULL ELSE latest, received>>
  <2> SUFFICES ASSUME BoxInv, [Next]_vars
               PROVE  [Box!Next]_<<IF empty THEN NULL ELSE latest, received>>
    OBVIOUS
  <2> USE MsgBoxAssumption DEF BoxInv, TypeOK, Task, GoTo
  <2>1. ASSUME NEW s \in Sender, SendCall(s) \/ SLock(s) \/ SCopy(s) \/ SUnlock(s)
        PROVE  UNCHANGED <<empty, latest, received>>
    BY <2>1 DEF SendCall, SLock, Acquire, SCopy, SUnlock
  <2>2. ASSUME NEW s \in Sender, SFill(s) PROVE Box!Send
    BY <2>2 DEF SFill, Box!Send
  <2>3. ASSUME NEW r \in Receiver,
               \/ ReceiveCall(r) \/ ReceiverAcquires(r) \/ RWait(r) \/ RPass(r)
               \/ RCopy(r) \/ SpuriousWakeup(r)
        PROVE  UNCHANGED <<empty, latest, received>>
    BY <2>3 DEF ReceiveCall, ReceiverAcquires, RLock, RRelock, Acquire, RWait, RPass, RCopy,
       SpuriousWakeup
  <2>4. ASSUME NEW r \in Receiver, RTake(r) PROVE Box!Receive(r)
    <3>1. ~empty /\ \A b \in Byte : mine[r][b] = buf[b]
      BY <2>4 DEF RTake, CopiedSoFar
    <3>2. \A s \in Sender : pc[s] # "s_copy"
      BY <2>4 DEF RTake, MutexHeld, Critical
    <3>3. latest \in Message /\ buf = latest
      BY <3>1, <3>2 DEF FullBox
    <3>4. mine[r] = latest /\ latest # NULL
      BY <3>1, <3>3
    <3> QED BY <2>4, <3>1, <3>4 DEF RTake, Box!Receive
  <2>5. CASE UNCHANGED vars
    BY <2>5 DEF vars
  <2> QED BY <2>1, <2>2, <2>3, <2>4, <2>5 DEF Next, SenderSteps, ReceiverSteps, Box!Next
<1> QED BY <1>1, <1>2, BoxInvAlways, PTL DEF Spec, ImplementsMessageBox, Box!Spec

=============================================================================
