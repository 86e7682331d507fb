-------------------------- MODULE TxPublish_proofs --------------------------
(***************************************************************************)
(* Proofs about TxPublish, for every ring size, number of messages, batch   *)
(* size, set of broker faults and number of them: Inv is inductive, and     *)
(* with it the two threads implement AtLeastOnceLog.                        *)
(***************************************************************************)
EXTENDS TxPublish, SequenceTheorems, TLAPS

-----------------------------------------------------------------------------
(* Slots of the ring *)

LEMMA DivisionProperties ==
  ASSUME NEW s \in Nat
  PROVE  /\ s % RingSize \in 0..(RingSize - 1)
         /\ s \div RingSize \in Int
         /\ s = RingSize * (s \div RingSize) + (s % RingSize)
BY RingSizeAssumption, SMT DEF RingSizeAssumption

LEMMA MultiplesOfRingSize ==
  ASSUME NEW q \in Int
  PROVE  /\ RingSize * q \in Int
         /\ RingSize * q >= RingSize \/ RingSize * q <= 0
<1>1. CASE q >= 1
  BY <1>1, RingSizeAssumption, SMT DEF RingSizeAssumption
<1>2. CASE q <= 0
  BY <1>2, RingSizeAssumption, SMT DEF RingSizeAssumption
<1> QED
  BY <1>1, <1>2

LEMMA SlotType == ASSUME NEW s \in Nat PROVE Slot(s) \in 0..(RingSize - 1)
BY DivisionProperties DEF Slot

\* Two sequences less than a ring apart never share a slot.
LEMMA SlotsDiffer ==
  ASSUME NEW s \in Nat, NEW t \in Nat, s < t, t < s + RingSize
  PROVE  Slot(s) # Slot(t)
<1> SUFFICES ASSUME Slot(s) = Slot(t) PROVE FALSE
  OBVIOUS
<1> DEFINE q == (t \div RingSize) - (s \div RingSize)
<1>1. q \in Int
  BY DivisionProperties
<1>2. t - s = RingSize * q
  BY DivisionProperties, RingSizeAssumption DEF Slot, RingSizeAssumption
<1> HIDE DEF q
<1>3. RingSize * q \in Int /\ (RingSize * q >= RingSize \/ RingSize * q <= 0)
  BY <1>1, MultiplesOfRingSize
<1> QED
  BY <1>2, <1>3, RingSizeAssumption DEF RingSizeAssumption

\* A sequence and the one a whole ring later share their slot.
LEMMA SlotRepeats ==
  ASSUME NEW s \in Nat
  PROVE  Slot(s + RingSize) = Slot(s)
<1> DEFINE t == s + RingSize
           q == (t \div RingSize) - (s \div RingSize) - 1
<1>1. t \in Nat /\ RingSize \in Nat
  BY RingSizeAssumption DEF RingSizeAssumption
<1>2. q \in Int /\ s \div RingSize \in Int /\ t \div RingSize \in Int
  BY <1>1, DivisionProperties
<1>3. RingSize * q = Slot(s) - Slot(t)
  BY <1>1, <1>2, DivisionProperties, RingSizeAssumption DEF Slot, RingSizeAssumption
<1>4. Slot(s) \in 0..(RingSize - 1) /\ Slot(t) \in 0..(RingSize - 1)
  BY <1>1, SlotType
<1>5. ASSUME NEW p \in Int, RingSize * p < RingSize, RingSize * p > -RingSize
      PROVE  RingSize * p = 0
  <2>1. RingSize * p <= 0
    BY <1>1, <1>5, MultiplesOfRingSize
  <2>2. RingSize * (-p) = -(RingSize * p)
    BY <1>1
  <2>3. RingSize * (-p) <= 0
    BY <1>1, <1>5, <2>2, MultiplesOfRingSize
  <2> QED
    BY <2>1, <2>2, <2>3, MultiplesOfRingSize
<1> HIDE DEF q
<1>6. RingSize * q < RingSize /\ RingSize * q > -RingSize
  BY <1>1, <1>3, <1>4
<1>7. RingSize * q = 0
  BY <1>2, <1>5, <1>6
<1> QED
  BY <1>3, <1>4, <1>7

-----------------------------------------------------------------------------
(* Facts about single states *)

Working == {"onEvent", "checkBatch", "close", "resend", "resending", "clear"}

\* The handler works on the published, unspoilt event of nextSequence.
LEMMA CurrentEventIs ==
  ASSUME Inv, proc \in Working
  PROVE  /\ nextSequence \in 0..MessageCount
         /\ nextSequence <= cursor
         /\ CurrentEvent = EventAt(nextSequence)
<1> USE RingSizeAssumption, TxPublishAssumption DEF RingSizeAssumption, TxPublishAssumption
<1>1. nextSequence \in (sequence + 1)..available /\ available <= cursor
  BY DEF Inv, SequencesInv, Working
<1>2. nextSequence \in 0..MessageCount /\ nextSequence <= cursor
  BY <1>1 DEF Inv, TypeOK, RingTypeOK
<1>3. nextSequence \in nextSequence..(nextSequence + RingSize - 1)
  BY <1>2
<1>4. ring[Slot(nextSequence)] = Content(nextSequence)
  BY <1>3 DEF Inv, SlotsInv
<1>5. Content(nextSequence) = EventAt(nextSequence)
  BY <1>2 DEF Content, Working
<1> QED
  BY <1>2, <1>4, <1>5 DEF CurrentEvent

\* Only the event behind the last message closes the publisher.
LEMMA CloseEventIsLast ==
  ASSUME NEW s \in 0..MessageCount
  PROVE  /\ EventAt(s).type = "CLOSE_PUB" <=> s = MessageCount
         /\ s < MessageCount => EventAt(s).msg = s + 1
BY TxPublishAssumption DEF TxPublishAssumption, EventAt, MessageEvent, NoEvent

LEMMA CloseOrderType ==
  /\ Len(CloseOrder) \in Nat \ {0}
  /\ \A c \in 1..Len(CloseOrder) : CloseOrder[c] \in JMSObjects
<1>1. CASE CloseOrder = QueueSenderClose
  BY <1>1 DEF QueueSenderClose, JMSObjects
<1>2. CASE CloseOrder = TopicPublisherClose
  BY <1>2 DEF TopicPublisherClose, JMSObjects
<1> QED
  BY <1>1, <1>2, SessionAssumption DEF SessionAssumption

-----------------------------------------------------------------------------
(* The session keeps its types whatever a call does *)

LEMMA FaultType ==
  ASSUME faults \in 0..MaxFaults, NEW call, Fault(call)
  PROVE  faults' \in 0..MaxFaults
BY SessionAssumption DEF SessionAssumption, Fault

LEMMA DropType ==
  ASSUME SessionTypeOK, Drop
  PROVE  tx' \in Seq(Message) /\ closed' \subseteq JMSObjects /\ faults' \in 0..MaxFaults
BY FaultType, EmptySeq DEF SessionTypeOK, Drop

LEMMA SendType ==
  ASSUME SessionTypeOK, NEW m \in Message, Send(m) \/ SendThrows(m)
  PROVE  SessionTypeOK'
<1>1. Append(tx, m) \in Seq(Message)
  BY DEF SessionTypeOK
<1>2. CASE Drop /\ UNCHANGED <<queue, doubt>>
  BY <1>2, DropType DEF SessionTypeOK
<1>3. CASE UNCHANGED sessionVars
  BY <1>3 DEF SessionTypeOK, sessionVars
<1>4. CASE Send(m)
  BY <1>1, <1>4 DEF Send, SessionTypeOK
<1>5. CASE Fault("send") /\ tx' \in {tx, Append(tx, m)} /\ UNCHANGED <<closed, queue, doubt>>
  BY <1>1, <1>5, FaultType DEF SessionTypeOK
<1> QED
  BY <1>2, <1>3, <1>4, <1>5 DEF SendThrows

LEMMA CommitType ==
  ASSUME SessionTypeOK, Commit \/ CommitThrows
  PROVE  SessionTypeOK'
<1>1. queue \o tx \in Seq(Message) /\ << >> \in Seq(Message)
  BY EmptySeq, ConcatProperties DEF SessionTypeOK
<1>2. CASE /\ Drop
           /\ \/ UNCHANGED <<queue, doubt>>
              \/ queue' = queue \o tx /\ doubt' = TRUE
  BY <1>1, <1>2, DropType DEF SessionTypeOK
<1>3. CASE UNCHANGED sessionVars
  BY <1>3 DEF SessionTypeOK, sessionVars
<1>4. CASE Commit
  BY <1>1, <1>4 DEF Commit, SessionTypeOK
<1>5. CASE Fault("commit") /\ tx' \in {tx, << >>} /\ UNCHANGED <<queue, closed, doubt>>
  BY <1>1, <1>5, FaultType DEF SessionTypeOK
<1>6. CASE Fault("lostReply") /\ queue' = queue \o tx /\ tx' = << >>
            /\ doubt' = TRUE /\ UNCHANGED closed
  BY <1>1, <1>6, FaultType DEF SessionTypeOK
<1> QED
  BY <1>2, <1>3, <1>4, <1>5, <1>6 DEF CommitThrows

LEMMA RollbackType ==
  ASSUME SessionTypeOK, Rollback \/ RollbackThrows
  PROVE  SessionTypeOK'
<1>1. << >> \in Seq(Message)
  BY EmptySeq
<1>2. CASE Drop /\ UNCHANGED <<queue, doubt>>
  BY <1>2, DropType DEF SessionTypeOK
<1>3. CASE UNCHANGED sessionVars
  BY <1>3 DEF SessionTypeOK, sessionVars
<1>4. CASE Rollback
  BY <1>1, <1>4 DEF Rollback, SessionTypeOK
<1>5. CASE Fault("rollback") /\ tx' \in {tx, << >>} /\ UNCHANGED <<closed, queue, doubt>>
  BY <1>1, <1>5, FaultType DEF SessionTypeOK
<1> QED
  BY <1>2, <1>3, <1>4, <1>5 DEF RollbackThrows

LEMMA CloseType ==
  ASSUME SessionTypeOK, NEW r \in JMSObjects, Close(r) \/ CloseThrows(r)
  PROVE  SessionTypeOK'
<1>1. (IF r = "session" THEN << >> ELSE tx) \in Seq(Message)
  BY EmptySeq DEF SessionTypeOK
<1>2. CASE Drop /\ UNCHANGED <<queue, doubt>>
  BY <1>2, DropType DEF SessionTypeOK
<1>3. CASE Close(r)
  BY <1>1, <1>3 DEF Close, SessionTypeOK
<1>4. CASE /\ Fault("close") /\ UNCHANGED <<queue, doubt>>
           /\ \/ UNCHANGED <<closed, tx>>
              \/ /\ closed' = closed \cup {r}
                 /\ tx' = IF r = "session" THEN << >> ELSE tx
  BY <1>1, <1>4, FaultType DEF SessionTypeOK
<1> QED
  BY <1>2, <1>3, <1>4 DEF CloseThrows

-----------------------------------------------------------------------------
(* Inv is inductive: the types *)

LEMMA RingTypeStep ==
  ASSUME Inv, Next
  PROVE  RingTypeOK'
<1> USE RingSizeAssumption, TxPublishAssumption
    DEF RingSizeAssumption, TxPublishAssumption, RingTypeOK
<1>1. RingTypeOK /\ i \in 1..(MessageCount + 1)
  BY DEF Inv, TypeOK, PublisherTypeOK
<1>2. ASSUME UNCHANGED ringVars PROVE RingTypeOK'
  BY <1>1, <1>2 DEF ringVars
<1>3. ASSUME NEW s \in Nat, NEW e \in [type : EventType, msg : 0..MessageCount],
             ring' = [ring EXCEPT ![Slot(s)] = e]
      PROVE  ring' \in [0..(RingSize - 1) -> [type : EventType, msg : 0..MessageCount]]
  BY <1>1, <1>3, SlotType
<1>4. CASE ClaimSlot
  <2>1. claimed + 1 \in -1..MessageCount
    BY <1>1, <1>4 DEF ClaimSlot, PublisherMoves, Inv, SequencesInv
  <2> QED
    BY <1>1, <1>4, <2>1 DEF ClaimSlot, RingNext, handlerVars
<1>5. ASSUME pub = "set" PROVE claimed \in Nat
  BY <1>1, <1>5 DEF Inv, SequencesInv
<1>6. CASE SetMessage
  <2>1. MessageEvent(i) \in [type : EventType, msg : 0..MessageCount]
    BY <1>1, <1>6 DEF SetMessage, MessageEvent, EventType
  <2>2. ring' \in [0..(RingSize - 1) -> [type : EventType, msg : 0..MessageCount]]
    BY <1>3, <1>5, <1>6, <2>1 DEF SetMessage, SetEvent, PublisherMoves
  <2> QED
    BY <1>1, <1>6, <2>2 DEF SetMessage, SetEvent, producerVars, handlerVars
<1>7. CASE SetClosePub
  <2>1. claimed \in Nat
    BY <1>5, <1>7 DEF SetClosePub, PublisherMoves
  <2>2. ring[Slot(claimed)] \in [type : EventType, msg : 0..MessageCount]
    BY <1>1, <2>1, SlotType
  <2>3. [ring[Slot(claimed)] EXCEPT !.type = "CLOSE_PUB"]
          \in [type : EventType, msg : 0..MessageCount]
    BY <2>2 DEF EventType
  <2>4. ring' \in [0..(RingSize - 1) -> [type : EventType, msg : 0..MessageCount]]
    BY <1>3, <1>7, <2>1, <2>3 DEF SetClosePub, SetEvent
  <2> QED
    BY <1>1, <1>7, <2>4 DEF SetClosePub, SetEvent, producerVars, handlerVars
<1>8. CASE PublishMessage \/ PublishClosePub
  BY <1>1, <1>8 DEF PublishMessage, PublishClosePub, RingPublish, handlerVars
<1>9. CASE WaitFor
  BY <1>1, <1>9 DEF WaitFor, RingWaitFor, producerVars
<1>10. CASE ClearEvent
  <2>1. NoEvent \in [type : EventType, msg : 0..MessageCount]
    BY DEF NoEvent, EventType
  <2>2. ring' \in [0..(RingSize - 1) -> [type : EventType, msg : 0..MessageCount]]
    BY <1>1, <1>3, <1>10, <2>1 DEF ClearEvent, ClearSlot
  <2> QED
    BY <1>1, <1>10, <2>2 DEF ClearEvent, ClearSlot, producerVars, handlerVars
<1>11. CASE Advance
  <2>1. nextSequence <= available
    BY <1>1, <1>11 DEF Advance, HandlerMoves, Inv, SequencesInv
  <2> QED
    BY <1>1, <1>11, <2>1 DEF Advance, RingAdvance, producerVars
<1>12. CASE ShutdownDrained \/ ShutdownTimesOut \/ AwaitTermination \/ Exit
  BY <1>2, <1>12 DEF ShutdownDrained, ShutdownTimesOut, AwaitTermination, Exit
<1>13. CASE AddAndSend \/ SeeClose \/ CommitBatch \/ BatchNotFull \/ CloseObject
  BY <1>2, <1>13 DEF AddAndSend, SeeClose, CommitBatch, BatchNotFull, CloseObject
<1>14. CASE ResendRollback \/ ResendNext \/ ResendCommit
  BY <1>2, <1>14 DEF ResendRollback, ResendNext, ResendCommit
<1>15. CASE Terminated
  BY <1>2, <1>15 DEF Terminated, vars
<1> QED
  BY <1>4, <1>6, <1>7, <1>8, <1>9, <1>10, <1>11, <1>12, <1>13, <1>14, <1>15
  DEF Next, PublisherStep, HandlerStep

\* The message that AddAndSend adds is the next one.
LEMMA NextMessage ==
  ASSUME Inv, proc = "onEvent", ~IsClose
  PROVE  CurrentEvent.msg = nextSequence + 1 /\ nextSequence + 1 \in Message
<1>1. nextSequence \in 0..MessageCount /\ CurrentEvent = EventAt(nextSequence)
  BY CurrentEventIs DEF Working
<1>2. nextSequence < MessageCount
  BY <1>1, CloseEventIsLast, TxPublishAssumption DEF IsClose, TxPublishAssumption
<1> QED
  BY <1>1, <1>2, CloseEventIsLast, TxPublishAssumption DEF Message, TxPublishAssumption

LEMMA SessionTypeStep ==
  ASSUME Inv, Next
  PROVE  SessionTypeOK'
<1>1. SessionTypeOK /\ messagesList \in Seq(Message)
  BY DEF Inv, TypeOK, HandlerTypeOK
<1>2. ASSUME UNCHANGED sessionVars PROVE SessionTypeOK'
  BY <1>1, <1>2 DEF sessionVars, SessionTypeOK
<1>3. CASE PublisherStep
  BY <1>2, <1>3 DEF PublisherStep, PublisherMoves, ClaimSlot, SetMessage, SetClosePub,
     PublishMessage, PublishClosePub, ShutdownDrained, ShutdownTimesOut, AwaitTermination
<1>4. CASE WaitFor \/ Exit \/ ClearEvent \/ Advance \/ SeeClose \/ BatchNotFull
  BY <1>2, <1>4 DEF WaitFor, Exit, ClearEvent, Advance, SeeClose, BatchNotFull
<1>5. CASE AddAndSend
  <2>1. CurrentEvent.msg \in Message
    BY <1>5, NextMessage DEF AddAndSend, HandlerMoves
  <2> QED
    BY <1>1, <1>5, <2>1, SendType DEF AddAndSend
<1>6. CASE CommitBatch
  BY <1>1, <1>6, CommitType DEF CommitBatch
<1>7. CASE CloseObject
  <2>1. CloseOrder[k] \in JMSObjects
    BY <1>7, CloseOrderType DEF CloseObject, HandlerMoves, Inv, CallInv
  <2> QED
    BY <1>1, <1>7, <2>1, CloseType DEF CloseObject
<1>8. CASE ResendRollback
  BY <1>1, <1>8, RollbackType DEF ResendRollback
<1>9. CASE ResendNext
  <2>1. messagesList[k] \in Message
    BY <1>1, <1>9 DEF ResendNext, Inv, TypeOK, HandlerTypeOK
  <2> QED
    BY <1>1, <1>9, <2>1, SendType DEF ResendNext
<1>10. CASE ResendCommit
  BY <1>1, <1>10, CommitType DEF ResendCommit
<1>11. CASE Terminated
  BY <1>2, <1>11 DEF Terminated, vars
<1> QED
  BY <1>3, <1>4, <1>5, <1>6, <1>7, <1>8, <1>9, <1>10, <1>11 DEF Next, HandlerStep

\* Counting a batch counts messages that were handled, never more.
LEMMA CountBatchType ==
  ASSUME Inv, CountBatch
  PROVE  /\ sentCount' \in 0..MessageCount
         /\ messagesList' \in Seq(Message)
         /\ sentCount' = Handled /\ Len(messagesList') = 0
<1> USE TxPublishAssumption DEF TxPublishAssumption
<1>1. sentCount + Len(messagesList) = Handled
  BY DEF Inv, ListInv
<1>2. Handled \in 0..MessageCount
  BY DEF Inv, TypeOK, RingTypeOK, Handled
<1> QED
  BY <1>1, <1>2, EmptySeq DEF CountBatch

LEMMA PublisherTypeStep ==
  ASSUME Inv, Next
  PROVE  PublisherTypeOK'
<1> USE DEF PublisherTypeOK
<1>1. PublisherTypeOK
  BY DEF Inv, TypeOK
<1>2. ASSUME UNCHANGED pubVars PROVE PublisherTypeOK'
  BY <1>1, <1>2 DEF pubVars
<1>3. CASE ClaimSlot \/ SetMessage \/ SetClosePub \/ ShutdownTimesOut \/ AwaitTermination
  BY <1>1, <1>3 DEF PublisherMoves, ClaimSlot, SetMessage, SetClosePub, ShutdownTimesOut,
     AwaitTermination
<1>4. CASE PublishMessage \/ PublishClosePub
  BY <1>1, <1>4, TxPublishAssumption
  DEF PublisherMoves, PublishMessage, PublishClosePub, TxPublishAssumption
<1>5. CASE ShutdownDrained
  BY <1>1, <1>5, Zenon DEF PublisherMoves, ShutdownDrained
<1>6. CASE HandlerStep
  BY <1>2, <1>6 DEF HandlerStep, HandlerMoves, WaitFor, Exit, ClearEvent, Advance,
     AddAndSend, SeeClose, CommitBatch, BatchNotFull, CloseObject, ResendRollback,
     ResendNext, ResendCommit
<1>7. CASE Terminated
  BY <1>2, <1>7 DEF Terminated, vars
<1> QED
  BY <1>3, <1>4, <1>5, <1>6, <1>7 DEF Next, PublisherStep

LEMMA HandlerTypeStep ==
  ASSUME Inv, Next
  PROVE  HandlerTypeOK'
<1> USE DEF HandlerTypeOK
<1>1. HandlerTypeOK
  BY DEF Inv, TypeOK
<1>2. ASSUME UNCHANGED procVars PROVE HandlerTypeOK'
  BY <1>1, <1>2 DEF procVars
<1>3. CASE PublisherStep
  BY <1>2, <1>3 DEF PublisherStep, PublisherMoves, ClaimSlot, SetMessage, SetClosePub,
     PublishMessage, PublishClosePub, ShutdownDrained, ShutdownTimesOut, AwaitTermination
<1>4. CASE WaitFor \/ Exit \/ ClearEvent \/ Advance
  BY <1>1, <1>4 DEF HandlerMoves, WaitFor, Exit, ClearEvent, Advance
<1>5. CASE SeeClose \/ BatchNotFull
  BY <1>1, <1>5 DEF HandlerMoves, SeeClose, BatchNotFull, AfterBatch
<1>6. CASE AddAndSend
  <2>1. CurrentEvent.msg \in Message
    BY <1>6, NextMessage DEF AddAndSend, HandlerMoves
  <2> QED
    BY <1>1, <1>6, <2>1 DEF AddAndSend, HandlerMoves
<1>7. CASE CommitBatch
  <2>1. CASE CountBatch
    BY <1>7, <2>1, CountBatchType DEF CommitBatch, HandlerMoves, AfterBatch
  <2>2. CASE UNCHANGED <<messagesList, sentCount>>
    BY <1>1, <1>7, <2>2 DEF CommitBatch, HandlerMoves, AfterBatch
  <2> QED
    BY <1>7, <2>1, <2>2 DEF CommitBatch
<1>8. CASE ResendCommit
  <2>1. CASE CountBatch
    BY <1>1, <1>8, <2>1, CountBatchType DEF ResendCommit, HandlerMoves
  <2>2. CASE UNCHANGED <<messagesList, sentCount>>
    BY <1>1, <1>8, <2>2 DEF ResendCommit, HandlerMoves
  <2> QED
    BY <1>8, <2>1, <2>2 DEF ResendCommit
<1>9. CASE CloseObject \/ ResendRollback \/ ResendNext
  BY <1>1, <1>9 DEF HandlerMoves, CloseObject, ResendRollback, ResendNext
<1>10. CASE Terminated
  BY <1>2, <1>10 DEF Terminated, vars
<1> QED
  BY <1>3, <1>4, <1>5, <1>6, <1>7, <1>8, <1>9, <1>10 DEF Next, HandlerStep

-----------------------------------------------------------------------------
(* Inv is inductive: the sequences *)

LEMMA SequencesStep ==
  ASSUME Inv, Next
  PROVE  SequencesInv'
<1> USE RingSizeAssumption, TxPublishAssumption
    DEF RingSizeAssumption, TxPublishAssumption, SequencesInv
<1>1. SequencesInv /\ RingTypeOK /\ PublisherTypeOK /\ HandlerTypeOK
  BY DEF Inv, TypeOK
<1>2. CASE ClaimSlot
  BY <1>1, <1>2 DEF ClaimSlot, PublisherMoves, RingNext, handlerVars, procVars
<1>3. CASE SetMessage
  BY <1>1, <1>3 DEF SetMessage, PublisherMoves, SetEvent, producerVars, handlerVars, procVars
<1>4. CASE SetClosePub
  BY <1>1, <1>4 DEF SetClosePub, PublisherMoves, SetEvent, producerVars, handlerVars, procVars
<1>5. CASE PublishMessage
  BY <1>1, <1>5 DEF PublishMessage, PublisherMoves, RingPublish, handlerVars, procVars,
     RingTypeOK, PublisherTypeOK, HandlerTypeOK
<1>6. CASE PublishClosePub
  BY <1>1, <1>6 DEF PublishClosePub, PublisherMoves, RingPublish, handlerVars, procVars,
     RingTypeOK, PublisherTypeOK, HandlerTypeOK
<1>7. CASE ShutdownDrained \/ ShutdownTimesOut \/ AwaitTermination
  BY <1>1, <1>7 DEF ShutdownDrained, ShutdownTimesOut, AwaitTermination, PublisherMoves,
     ringVars, procVars
<1>8. CASE WaitFor
  BY <1>1, <1>8 DEF WaitFor, HandlerMoves, RingWaitFor, producerVars, pubVars,
     RingTypeOK, PublisherTypeOK, HandlerTypeOK
<1>9. CASE Exit
  BY <1>1, <1>9 DEF Exit, HandlerMoves, ringVars, pubVars
<1>10. CASE ClearEvent
  BY <1>1, <1>10 DEF ClearEvent, HandlerMoves, ClearSlot, producerVars, handlerVars, pubVars
<1>11. CASE Advance
  BY <1>1, <1>11 DEF Advance, HandlerMoves, RingAdvance, EndOfBatch, producerVars, pubVars,
     RingTypeOK, PublisherTypeOK, HandlerTypeOK
<1>12. CASE AddAndSend \/ SeeClose \/ CommitBatch \/ BatchNotFull \/ CloseObject
  BY <1>1, <1>12 DEF AddAndSend, SeeClose, CommitBatch, BatchNotFull, CloseObject,
     HandlerMoves, AfterBatch, ringVars, pubVars
<1>13. CASE ResendRollback \/ ResendNext \/ ResendCommit
  BY <1>1, <1>13 DEF ResendRollback, ResendNext, ResendCommit, HandlerMoves, ringVars, pubVars
<1>14. CASE Terminated
  BY <1>1, <1>14 DEF Terminated, vars, ringVars, pubVars, procVars
<1> QED
  BY <1>2, <1>3, <1>4, <1>5, <1>6, <1>7, <1>8, <1>9, <1>10, <1>11, <1>12, <1>13, <1>14
  DEF Next, PublisherStep, HandlerStep

-----------------------------------------------------------------------------
(* Inv is inductive: the slots *)

Window == nextSequence..(nextSequence + RingSize - 1)

\* Two sequences of the window have two slots.
LEMMA WindowSlotsDiffer ==
  ASSUME nextSequence \in Nat, NEW s \in Window, NEW t \in Window, s # t
  PROVE  Slot(s) # Slot(t)
<1>1. s \in Nat /\ t \in Nat /\ RingSize \in Nat
  BY RingSizeAssumption DEF Window, RingSizeAssumption
<1>2. CASE s < t
  BY <1>1, <1>2, SlotsDiffer DEF Window
<1>3. CASE t < s
  BY <1>1, <1>3, SlotsDiffer DEF Window
<1> QED
  BY <1>1, <1>2, <1>3

\* Writing one slot of the window leaves the others alone.
LEMMA WindowWrite ==
  ASSUME RingTypeOK, NEW t \in Window, NEW e, ring' = [ring EXCEPT ![Slot(t)] = e]
  PROVE  /\ ring'[Slot(t)] = e
         /\ \A s \in Window \ {t} : ring'[Slot(s)] = ring[Slot(s)]
<1>1. nextSequence \in Nat /\ t \in Nat
  BY TxPublishAssumption, RingSizeAssumption
  DEF RingTypeOK, Window, TxPublishAssumption, RingSizeAssumption
<1>2. Slot(t) \in DOMAIN ring
  BY <1>1, SlotType DEF RingTypeOK
<1>3. ASSUME NEW s \in Window \ {t} PROVE ring'[Slot(s)] = ring[Slot(s)]
  <2>1. Slot(s) # Slot(t)
    BY <1>1, <1>3, WindowSlotsDiffer
  <2>2. Slot(s) \in DOMAIN ring
    <3>1. s \in Nat
      BY <1>1, RingSizeAssumption DEF Window, RingSizeAssumption
    <3> QED
      BY <3>1, SlotType DEF RingTypeOK
  <2> QED
    BY <2>1, <2>2
<1> QED
  BY <1>2, <1>3

\* The slot the publisher thread fills is the first one past the cursor.
LEMMA ClaimedInWindow ==
  ASSUME Inv, pub \in {"set", "publish"}
  PROVE  claimed \in Window /\ claimed = cursor + 1 /\ claimed = i - 1
BY RingSizeAssumption, TxPublishAssumption
DEF Inv, TypeOK, RingTypeOK, PublisherTypeOK, SequencesInv, Window, RingSizeAssumption,
    TxPublishAssumption

LEMMA SlotsStep ==
  ASSUME Inv, Next
  PROVE  SlotsInv'
<1> USE RingSizeAssumption, TxPublishAssumption DEF RingSizeAssumption, TxPublishAssumption
<1>1. /\ RingTypeOK /\ PublisherTypeOK
      /\ \A s \in Window : ring[Slot(s)] = Content(s)
      /\ Window \subseteq Nat
  BY DEF Inv, TypeOK, SlotsInv, Window, RingTypeOK
<1>2. ASSUME UNCHANGED nextSequence,
             \A s \in Window : ring'[Slot(s)] = Content(s)'
      PROVE  SlotsInv'
  BY <1>2 DEF SlotsInv, Window
<1>3. ASSUME UNCHANGED <<ring, nextSequence>>,
             \A s \in Window : Content(s)' = Content(s)
      PROVE  SlotsInv'
  BY <1>1, <1>2, <1>3
<1>4. CASE ClaimSlot
  <2>1. \A s \in Window : Content(s)' = Content(s)
    BY <1>4 DEF ClaimSlot, PublisherMoves, RingNext, handlerVars, procVars, Content, EventAt
  <2> QED
    BY <1>3, <1>4, <2>1 DEF ClaimSlot, RingNext, handlerVars
<1>5. ASSUME pub = "set", pub' = "publish", SetEvent(EventAt(claimed)), UNCHANGED proc
      PROVE  SlotsInv'
  <2>1. claimed \in Window /\ claimed = cursor + 1
    BY <1>5, ClaimedInWindow
  <2>2. /\ ring'[Slot(claimed)] = EventAt(claimed)
        /\ \A s \in Window \ {claimed} : ring'[Slot(s)] = ring[Slot(s)]
    BY <1>1, <1>5, <2>1, WindowWrite DEF SetEvent
  <2>3. ASSUME NEW s \in Window, s = claimed PROVE Content(s)' = EventAt(s)
    BY <1>1, <1>5, <2>1, <2>3 DEF SetEvent, producerVars, Content, EventAt, RingTypeOK
  <2>4. \A s \in Window \ {claimed} : Content(s)' = Content(s)
    BY <1>5 DEF SetEvent, producerVars, handlerVars, Content, EventAt
  <2>5. \A s \in Window : ring'[Slot(s)] = Content(s)'
    BY <1>1, <2>2, <2>3, <2>4
  <2> QED
    BY <1>2, <1>5, <2>5 DEF SetEvent, handlerVars
<1>6. CASE SetMessage
  <2>1. claimed = i - 1
    BY <1>6, ClaimedInWindow DEF SetMessage, PublisherMoves
  <2>2. EventAt(claimed) = MessageEvent(i)
    BY <1>1, <1>6, <2>1 DEF SetMessage, EventAt, PublisherTypeOK
  <2> QED
    BY <1>5, <1>6, <2>2 DEF SetMessage, PublisherMoves, procVars
<1>7. CASE SetClosePub
  <2>1. claimed \in Window /\ claimed = cursor + 1 /\ claimed = i - 1 /\ cursor \in Int
    BY <1>1, <1>7, ClaimedInWindow DEF SetClosePub, PublisherMoves, RingTypeOK
  <2>2. ring[Slot(claimed)] = NoEvent
    BY <1>1, <1>7, <2>1 DEF SetClosePub, PublisherMoves, Content
  <2>3. EventAt(claimed) = [NoEvent EXCEPT !.type = "CLOSE_PUB"]
    BY <1>1, <1>7, <2>1 DEF SetClosePub, EventAt, PublisherTypeOK
  <2> QED
    BY <1>5, <1>7, <2>2, <2>3 DEF SetClosePub, PublisherMoves, procVars
<1>8. CASE PublishMessage \/ PublishClosePub
  <2>1. pub = "publish" /\ cursor' = claimed /\ pub' # "publish"
        /\ UNCHANGED <<ring, claimed, nextSequence, proc>>
    BY <1>8 DEF PublishMessage, PublishClosePub, PublisherMoves, RingPublish, handlerVars,
       procVars
  <2>2. claimed = cursor + 1 /\ cursor \in Int
    BY <1>1, <2>1, ClaimedInWindow DEF RingTypeOK
  <2>3. proc = "advance" => nextSequence <= cursor
    BY <1>1 DEF Inv, SequencesInv, RingTypeOK
  <2>4. \A s \in Window : Content(s)' = Content(s)
    BY <1>1, <2>1, <2>2, <2>3 DEF Content, EventAt
  <2> QED
    BY <1>3, <2>1, <2>4
<1>9. ASSUME UNCHANGED <<ring, claimed, cursor, nextSequence>>,
             (pub = "publish") = (pub' = "publish"),
             (proc = "advance") = (proc' = "advance")
      PROVE  SlotsInv'
  <2>1. \A s \in Window : Content(s)' = Content(s)
    BY <1>9 DEF Content, EventAt
  <2> QED
    BY <1>3, <1>9, <2>1
<1>10. CASE ShutdownDrained \/ ShutdownTimesOut \/ AwaitTermination
  BY <1>9, <1>10 DEF ShutdownDrained, ShutdownTimesOut, AwaitTermination, PublisherMoves,
     ringVars, procVars
<1>11. CASE WaitFor \/ Exit
  BY <1>9, <1>11 DEF WaitFor, Exit, HandlerMoves, RingWaitFor, producerVars, ringVars, pubVars
<1>12. CASE AddAndSend \/ SeeClose \/ CommitBatch \/ BatchNotFull \/ CloseObject
  BY <1>9, <1>12 DEF AddAndSend, SeeClose, CommitBatch, BatchNotFull, CloseObject,
     HandlerMoves, AfterBatch, ringVars, pubVars
<1>13. CASE ResendRollback \/ ResendNext \/ ResendCommit
  BY <1>9, <1>13 DEF ResendRollback, ResendNext, ResendCommit, HandlerMoves, ringVars, pubVars
<1>14. CASE Terminated
  BY <1>9, <1>14 DEF Terminated, vars, ringVars, pubVars, procVars
<1>15. CASE ClearEvent
  <2>1. nextSequence \in Window /\ nextSequence <= cursor
    BY <1>1, <1>15, CurrentEventIs DEF ClearEvent, HandlerMoves, Window, RingTypeOK, Working
  <2>2. /\ ring'[Slot(nextSequence)] = NoEvent
        /\ \A s \in Window \ {nextSequence} : ring'[Slot(s)] = ring[Slot(s)]
    BY <1>1, <1>15, <2>1, WindowWrite DEF ClearEvent, ClearSlot
  <2>3. ASSUME NEW s \in Window, s = nextSequence PROVE Content(s)' = NoEvent
    BY <1>15, <2>1, <2>3 DEF ClearEvent, HandlerMoves, ClearSlot, producerVars, handlerVars, Content
  <2>4. \A s \in Window \ {nextSequence} : Content(s)' = Content(s)
    BY <1>15 DEF ClearEvent, HandlerMoves, ClearSlot, producerVars, handlerVars, pubVars,
       Content, EventAt
  <2> QED
    BY <1>1, <1>2, <1>15, <2>2, <2>3, <2>4 DEF ClearEvent, ClearSlot, handlerVars
<1>16. CASE Advance
  <2> DEFINE last == nextSequence + RingSize
  <2>1. /\ UNCHANGED <<ring, claimed, cursor, pub>>
        /\ proc = "advance" /\ proc' # "advance"
        /\ nextSequence' = nextSequence + 1
    BY <1>16 DEF Advance, HandlerMoves, RingAdvance, producerVars, pubVars
  <2>2. nextSequence \in Nat /\ nextSequence <= cursor /\ claimed < last /\ cursor <= claimed
    <3>1. nextSequence \in (sequence + 1)..available /\ available <= cursor
      BY <2>1 DEF Inv, SequencesInv
    <3>2. claimed - RingSize <= sequence /\ cursor <= claimed
      BY <1>1 DEF Inv, SequencesInv, RingTypeOK
    <3> QED
      BY <1>1, <3>1, <3>2 DEF RingTypeOK
  <2>3. \A s \in Window \ {nextSequence} : ring'[Slot(s)] = Content(s)'
    BY <1>1, <2>1, <2>2 DEF Content, EventAt, Window
  <2>4. ASSUME NEW s \in Nat, s = last PROVE ring'[Slot(s)] = Content(s)'
    <3>1. Slot(last) = Slot(nextSequence)
      BY <2>2, SlotRepeats
    <3>2. nextSequence \in Window
      BY <2>2 DEF Window
    <3>3. ring[Slot(nextSequence)] = NoEvent
      BY <1>1, <2>1, <2>2, <3>2 DEF Content
    <3>4. Content(s)' = NoEvent
      BY <1>1, <2>1, <2>2, <2>4 DEF Content, RingTypeOK
    <3> QED
      BY <2>1, <2>4, <3>1, <3>3, <3>4
  <2>5. \A s \in nextSequence'..(nextSequence' + RingSize - 1) :
          s \in Window \ {nextSequence} \/ (s \in Nat /\ s = last)
    BY <2>1, <2>2 DEF Window
  <2>6. \A s \in nextSequence'..(nextSequence' + RingSize - 1) :
          ring'[Slot(s)] = Content(s)'
    BY <2>3, <2>4, <2>5
  <2> QED
    BY <2>6 DEF SlotsInv
<1> QED
  BY <1>4, <1>6, <1>7, <1>8, <1>10, <1>11, <1>12, <1>13, <1>14, <1>15, <1>16
  DEF Next, PublisherStep, HandlerStep

-----------------------------------------------------------------------------
(* Inv is inductive: the list and the transaction *)

\* The next message extends the run of messages behind the counted ones.
LEMMA RunAppend ==
  ASSUME NEW n \in Nat, sentCount \in Nat
  PROVE  Append(Log!Run(n), sentCount + n + 1) = Log!Run(n + 1)
BY DEF Log!Run

LEMMA RunEmpty == Log!Run(0) = << >>
BY DEF Log!Run

LEMMA ListStep ==
  ASSUME Inv, Next
  PROVE  ListInv'
<1> USE TxPublishAssumption DEF TxPublishAssumption
<1>1. /\ ListInv /\ HandlerTypeOK
      /\ Len(messagesList) \in Nat /\ sentCount \in Nat
      /\ nextSequence \in 0..(MessageCount + 1)
  BY DEF Inv, TypeOK, RingTypeOK, HandlerTypeOK
<1>2. ASSUME UNCHANGED <<messagesList, sentCount>>, Handled' = Handled,
             \/ proc' \in {"checkBatch", "resend", "resending"}
             \/ BatchSize > 0 => Len(messagesList) < BatchSize
      PROVE  ListInv'
  BY <1>1, <1>2 DEF ListInv, Log!Run
<1>3. CASE PublisherStep
  <2>1. UNCHANGED <<messagesList, sentCount, proc, nextSequence>>
    BY <1>3 DEF PublisherStep, PublisherMoves, ClaimSlot, SetMessage, SetClosePub,
       PublishMessage, PublishClosePub, ShutdownDrained, ShutdownTimesOut,
       AwaitTermination, procVars, RingNext, SetEvent, RingPublish, handlerVars, ringVars
  <2> QED
    BY <1>1, <2>1 DEF ListInv, Log!Run, Handled
<1>4. CASE WaitFor \/ Exit \/ ClearEvent
  BY <1>1, <1>2, <1>4 DEF WaitFor, Exit, ClearEvent, HandlerMoves, RingWaitFor, ClearSlot,
     handlerVars, ringVars, ListInv, Handled
<1>5. CASE Advance
  BY <1>1, <1>2, <1>5 DEF Advance, HandlerMoves, RingAdvance, ListInv, Handled
<1>6. CASE SeeClose
  <2>1. nextSequence = MessageCount
    BY <1>6, CurrentEventIs, CloseEventIsLast DEF SeeClose, HandlerMoves, IsClose, Working
  <2> QED
    BY <1>1, <1>2, <1>6, <2>1 DEF SeeClose, HandlerMoves, ringVars, Handled
<1>7. CASE AddAndSend
  <2>1. proc = "onEvent" /\ proc' \in {"checkBatch", "resend"}
        /\ messagesList' = Append(messagesList, CurrentEvent.msg)
        /\ UNCHANGED <<nextSequence, sentCount>>
    BY <1>7 DEF AddAndSend, HandlerMoves, ringVars
  <2>2. CurrentEvent.msg = nextSequence + 1 /\ nextSequence + 1 \in 1..MessageCount
    BY <1>7, <2>1, NextMessage DEF AddAndSend, Message
  <2>3. Handled = nextSequence /\ Handled' = nextSequence + 1
    BY <1>1, <2>1, <2>2 DEF Handled
  <2>4. Len(messagesList') = Len(messagesList) + 1
    BY <1>1, <2>1 DEF HandlerTypeOK
  <2>5. sentCount' + Len(messagesList') = Handled'
    BY <1>1, <2>1, <2>3, <2>4 DEF ListInv
  <2>6. messagesList' = Log!Run(Len(messagesList) + 1)
    BY <1>1, <2>1, <2>2, <2>3, RunAppend DEF ListInv
  <2>7. messagesList' = Log!Run(Len(messagesList))'
    BY <2>1, <2>4, <2>6 DEF Log!Run
  <2> QED
    BY <1>1, <2>1, <2>4, <2>5, <2>7 DEF ListInv
<1>8. ASSUME CountBatch, Handled' = Handled PROVE ListInv'
  <2>1. messagesList' = << >> /\ Len(messagesList') = 0 /\ sentCount' = Handled
    BY <1>8, CountBatchType DEF CountBatch
  <2>2. messagesList' = Log!Run(Len(messagesList))'
    BY <2>1 DEF Log!Run
  <2>3. Handled \in Nat
    BY <1>1 DEF Handled
  <2> QED
    BY <1>8, <2>1, <2>2, <2>3 DEF ListInv
<1>9. CASE CommitBatch
  <2>1. Handled' = Handled
    BY <1>9 DEF CommitBatch, HandlerMoves, AfterBatch, ringVars, Handled
  <2>2. CASE CountBatch
    BY <1>8, <2>1, <2>2
  <2>3. CASE UNCHANGED <<messagesList, sentCount>> /\ proc' = "resend"
    BY <1>2, <2>1, <2>3
  <2> QED
    BY <1>9, <2>2, <2>3 DEF CommitBatch, HandlerMoves
<1>10. CASE BatchNotFull
  BY <1>1, <1>2, <1>10 DEF BatchNotFull, BatchFull, HandlerMoves, AfterBatch, ringVars, ListInv, Handled
<1>11. CASE CloseObject \/ ResendRollback \/ ResendNext
  BY <1>1, <1>2, <1>11 DEF CloseObject, ResendRollback, ResendNext, HandlerMoves, ringVars,
     ListInv, Handled
<1>12. CASE ResendCommit
  <2>1. Handled' = Handled
    BY <1>12 DEF ResendCommit, HandlerMoves, ringVars, Handled
  <2>2. CASE CountBatch
    BY <1>8, <2>1, <2>2
  <2>3. CASE UNCHANGED <<messagesList, sentCount>> /\ proc' = "resend"
    BY <1>2, <2>1, <2>3
  <2> QED
    BY <1>12, <2>2, <2>3 DEF ResendCommit, HandlerMoves
<1>13. CASE Terminated
  <2>1. UNCHANGED <<messagesList, sentCount, proc, nextSequence>>
    BY <1>13 DEF Terminated, vars, procVars, ringVars
  <2> QED
    BY <1>1, <2>1 DEF ListInv, Log!Run, Handled
<1> QED
  BY <1>3, <1>4, <1>5, <1>6, <1>7, <1>9, <1>10, <1>11, <1>12, <1>13 DEF Next, HandlerStep

LEMMA TransactionStep ==
  ASSUME Inv, Next
  PROVE  TransactionInv'
<1> USE DEF TransactionInv, SessionOpen
<1>1. TransactionInv /\ HandlerTypeOK /\ SessionTypeOK /\ CallInv
  BY DEF Inv, TypeOK
<1>2. CASE PublisherStep
  BY <1>1, <1>2 DEF PublisherStep, PublisherMoves, ClaimSlot, SetMessage, SetClosePub,
     PublishMessage, PublishClosePub, ShutdownDrained, ShutdownTimesOut, AwaitTermination,
     procVars, sessionVars
<1>3. CASE WaitFor \/ Exit \/ ClearEvent \/ Advance \/ SeeClose \/ BatchNotFull
  BY <1>1, <1>3 DEF WaitFor, Exit, ClearEvent, Advance, SeeClose, BatchNotFull,
     HandlerMoves, AfterBatch, sessionVars
<1>4. CASE AddAndSend
  BY <1>1, <1>4 DEF AddAndSend, HandlerMoves, Send, SenderOpen
<1>5. CASE CommitBatch
  BY <1>1, <1>5 DEF CommitBatch, HandlerMoves, AfterBatch, Commit, CountBatch
<1>6. CASE CloseObject
  BY <1>1, <1>6 DEF CloseObject, HandlerMoves, Close
<1>7. CASE ResendRollback
  <2>1. SubSeq(messagesList', 1, 0) = << >>
    BY SubSeqEmpty
  <2>2. CASE Rollback /\ proc' = "resending"
    <3>1. tx' = << >> /\ k' - 1 = 0
      BY <1>7, <2>2 DEF ResendRollback, Rollback
    <3> QED
      BY <2>1, <2>2, <3>1
  <2>3. CASE proc' = "resend"
    BY <2>3
  <2> QED
    BY <1>7, <2>2, <2>3 DEF ResendRollback, HandlerMoves
<1>8. CASE ResendNext
  <2>1. CASE proc' = "resend"
    BY <2>1
  <2>2. CASE Send(messagesList[k]) /\ proc = "resending" /\ proc' = "resending" /\ k' = k + 1
    <3>1. k \in 1..Len(messagesList) /\ messagesList' = messagesList
      BY <1>1, <1>8 DEF ResendNext, HandlerTypeOK
    <3>2. SubSeq(messagesList, 1, k) = Append(SubSeq(messagesList, 1, k - 1), messagesList[k])
      BY <1>1, <3>1 DEF HandlerTypeOK
    <3> QED
      BY <1>1, <2>2, <3>1, <3>2 DEF Send, HandlerTypeOK
  <2> QED
    BY <1>8, <2>1, <2>2 DEF ResendNext, HandlerMoves
<1>9. CASE ResendCommit
  BY <1>1, <1>9 DEF ResendCommit, HandlerMoves, Commit, CountBatch
<1>10. CASE Terminated
  BY <1>1, <1>10 DEF Terminated, vars, procVars, sessionVars
<1> QED
  BY <1>2, <1>3, <1>4, <1>5, <1>6, <1>7, <1>8, <1>9, <1>10 DEF Next, HandlerStep

LEMMA CallStep ==
  ASSUME Inv, Next
  PROVE  CallInv'
<1> USE DEF CallInv
<1>1. CallInv /\ HandlerTypeOK
  BY DEF Inv, TypeOK
<1>2. CASE PublisherStep
  BY <1>1, <1>2 DEF PublisherStep, PublisherMoves, ClaimSlot, SetMessage, SetClosePub,
     PublishMessage, PublishClosePub, ShutdownDrained, ShutdownTimesOut, AwaitTermination,
     procVars
<1>3. CASE WaitFor \/ Exit \/ ClearEvent \/ Advance \/ AddAndSend \/ SeeClose
  BY <1>1, <1>3 DEF WaitFor, Exit, ClearEvent, Advance, AddAndSend, SeeClose, HandlerMoves
<1>4. CASE CommitBatch \/ BatchNotFull
  BY <1>1, <1>4, CloseOrderType DEF CommitBatch, BatchNotFull, HandlerMoves, AfterBatch
<1>5. CASE CloseObject
  BY <1>1, <1>5, CloseOrderType DEF CloseObject, HandlerMoves
<1>6. CASE ResendRollback
  BY <1>1, <1>6 DEF ResendRollback, HandlerMoves, HandlerTypeOK
<1>7. CASE ResendNext
  BY <1>1, <1>7 DEF ResendNext, HandlerMoves, HandlerTypeOK
<1>8. CASE ResendCommit
  BY <1>1, <1>8 DEF ResendCommit, HandlerMoves
<1>9. CASE Terminated
  BY <1>1, <1>9 DEF Terminated, vars, procVars
<1> QED
  BY <1>2, <1>3, <1>4, <1>5, <1>6, <1>7, <1>8, <1>9 DEF Next, HandlerStep

-----------------------------------------------------------------------------
(* Theorems *)

LEMMA InvInit == Init => Inv
<1> USE RingSizeAssumption, TxPublishAssumption, SessionAssumption
    DEF RingSizeAssumption, TxPublishAssumption, SessionAssumption
<1> SUFFICES ASSUME Init PROVE Inv
  OBVIOUS
<1> USE DEF Init, RingInit, SessionInit
<1>1. RingTypeOK
  BY DEF RingTypeOK, NoEvent, EventType
<1>2. SessionTypeOK
  BY EmptySeq DEF SessionTypeOK
<1>3. PublisherTypeOK
  <2>1. alerted \in BOOLEAN
    BY Zenon
  <2> QED
    BY <2>1 DEF PublisherTypeOK
<1>4. HandlerTypeOK
  BY EmptySeq DEF HandlerTypeOK
<1>5. SequencesInv
  BY DEF SequencesInv
<1>6. SlotsInv
  <2> SUFFICES ASSUME NEW s \in nextSequence..(nextSequence + RingSize - 1)
               PROVE  ring[Slot(s)] = Content(s)
    BY DEF SlotsInv
  <2>1. Slot(s) \in 0..(RingSize - 1)
    BY SlotType
  <2> QED
    BY <2>1 DEF Content
<1>7. ListInv
  BY RunEmpty, EmptySeq DEF ListInv, Handled
<1>8. TransactionInv /\ CallInv
  BY DEF TransactionInv, CallInv
<1> QED
  BY <1>1, <1>2, <1>3, <1>4, <1>5, <1>6, <1>7, <1>8 DEF Inv, TypeOK

LEMMA InvStutter == Inv /\ UNCHANGED vars => Inv'
<1> SUFFICES ASSUME Inv, UNCHANGED vars PROVE Inv'
  OBVIOUS
<1> USE DEF Inv, TypeOK, vars, ringVars, sessionVars, pubVars, procVars
<1>1. TypeOK'
  BY DEF RingTypeOK, SessionTypeOK, PublisherTypeOK, HandlerTypeOK
<1>2. SequencesInv'
  BY DEF SequencesInv
<1>3. SlotsInv'
  <2>1. \A s : Content(s)' = Content(s)
    BY DEF Content, EventAt
  <2> QED
    BY <2>1 DEF SlotsInv
<1>4. ListInv'
  BY DEF ListInv, Log!Run, Handled
<1>5. TransactionInv' /\ CallInv'
  BY DEF TransactionInv, SessionOpen, CallInv
<1> QED
  BY <1>1, <1>2, <1>3, <1>4, <1>5

\* Inv is an inductive invariant of the two threads.
THEOREM TxPublishInvariant == Spec => []Inv
<1>1. Inv /\ [Next]_vars => Inv'
  BY RingTypeStep, SessionTypeStep, PublisherTypeStep, HandlerTypeStep, SequencesStep,
     SlotsStep, ListStep, TransactionStep, CallStep, InvStutter DEF Inv, TypeOK
<1> QED
  BY <1>1, InvInit, PTL DEF Spec

\* Every variable keeps its type.
THEOREM TxPublishTypeOK == Spec => []TypeOK
<1>1. Inv => TypeOK
  BY DEF Inv
<1> QED
  BY <1>1, TxPublishInvariant, PTL

\* A published event stays what the publisher put into the slot until the
\* handler has finished with it, for every ring size.
THEOREM TxPublishNoStaleEvent == Spec => []NoStaleEvent
<1>1. Inv => NoStaleEvent
  <2> USE RingSizeAssumption DEF RingSizeAssumption
  <2> SUFFICES ASSUME Inv, NEW s \in nextSequence..cursor,
                      ~(s = nextSequence /\ proc = "advance")
               PROVE  ring[Slot(s)] = EventAt(s)
    BY DEF NoStaleEvent
  <2>1. cursor <= claimed /\ claimed - RingSize <= sequence /\ sequence < nextSequence
    BY SMTT(30) DEF Inv, TypeOK, RingTypeOK, SequencesInv
  <2>2. s \in nextSequence..(nextSequence + RingSize - 1) /\ s <= cursor
    BY <2>1, SMTT(30) DEF Inv, TypeOK, RingTypeOK
  <2> QED
    BY <2>2, SMTT(30) DEF Inv, SlotsInv, Content
<1> QED
  BY <1>1, TxPublishInvariant, PTL

\* Between two events nothing is unaccounted for, and less than a batch waits.
THEOREM TxPublishLossBounded == Spec => []LossBounded
<1>1. Inv => LossBounded
  BY TxPublishAssumption
  DEF Inv, TypeOK, RingTypeOK, HandlerTypeOK, ListInv, Handled, LossBounded,
      TxPublishAssumption
<1> QED
  BY <1>1, TxPublishInvariant, PTL

\* The publisher thread never writes a slot whose event is not finished with.
THEOREM TxPublishNoOverwrite == Spec => NoOverwrite
<1>1. ASSUME Inv, Next, pub' # pub, nextSequence <= cursor
      PROVE  ring'[Slot(nextSequence)] = ring[Slot(nextSequence)]
  <2>1. CASE SetMessage \/ SetClosePub
    <3>1. claimed \in Window /\ claimed = cursor + 1 /\ cursor \in Int
      BY <1>1, <2>1, ClaimedInWindow
      DEF SetMessage, SetClosePub, PublisherMoves, Inv, TypeOK, RingTypeOK
    <3>2. nextSequence \in Window \ {claimed}
      BY <1>1, <3>1, RingSizeAssumption
      DEF Window, Inv, TypeOK, RingTypeOK, RingSizeAssumption
    <3> QED
      BY <1>1, <2>1, <3>1, <3>2, WindowWrite DEF SetMessage, SetClosePub, SetEvent, Inv, TypeOK
  <2>2. CASE ~(SetMessage \/ SetClosePub)
    BY <1>1, <2>2 DEF Next, PublisherStep, ClaimSlot, RingNext, PublishMessage,
       PublishClosePub, RingPublish, ShutdownDrained, ShutdownTimesOut, AwaitTermination,
       ringVars, HandlerStep, HandlerMoves, WaitFor, Exit, ClearEvent, Advance, AddAndSend,
       SeeClose, CommitBatch, BatchNotFull, CloseObject, ResendRollback, ResendNext,
       ResendCommit, pubVars, Terminated, vars
  <2> QED
    BY <2>1, <2>2
<1>2. Inv /\ [Next]_vars
        => [pub' # pub /\ nextSequence <= cursor /\ proc # "advance"
              => ring'[Slot(nextSequence)] = ring[Slot(nextSequence)]]_vars
  BY <1>1 DEF vars
<1> QED
  BY <1>2, TxPublishInvariant, PTL DEF Spec, NoOverwrite

-----------------------------------------------------------------------------
(* What a commit, successful or not, does *)

\* Wherever the code commits, the open transaction is exactly the list, the
\* list is the run behind the counted messages, and all of it was accepted.
LEMMA CommitsTheList ==
  ASSUME Inv, SessionOpen,
         proc = "checkBatch" \/ (proc = "resending" /\ k > Len(messagesList))
  PROVE  /\ tx = messagesList
         /\ messagesList = Log!Run(Len(messagesList))
         /\ Len(messagesList) \in 0..(i - 1 - sentCount)
<1> USE TxPublishAssumption DEF TxPublishAssumption
<1>1. tx = messagesList
  <2>1. CASE proc = "checkBatch"
    BY <2>1 DEF Inv, TransactionInv
  <2>2. CASE proc = "resending" /\ k > Len(messagesList)
    <3>1. k - 1 = Len(messagesList)
      BY <2>2 DEF Inv, TypeOK, HandlerTypeOK, CallInv
    <3>2. SubSeq(messagesList, 1, Len(messagesList)) = messagesList
      BY SubSeqFull DEF Inv, TypeOK, HandlerTypeOK
    <3> QED
      BY <2>2, <3>1, <3>2 DEF Inv, TransactionInv
  <2> QED
    BY <2>1, <2>2
<1>2. nextSequence \in 0..MessageCount /\ nextSequence <= cursor
  BY CurrentEventIs DEF Working
<1>3. Handled \in 0..(i - 1)
  BY <1>2 DEF Inv, TypeOK, RingTypeOK, PublisherTypeOK, SequencesInv, Handled
<1> QED
  BY <1>1, <1>3 DEF Inv, ListInv, TypeOK, HandlerTypeOK, PublisherTypeOK

\* A step either leaves the destination alone or appends the list to it.
LEMMA QueueStep ==
  ASSUME Inv, Next
  PROVE  \/ /\ UNCHANGED <<queue, sentCount>>
            /\ closed \subseteq closed'
         \/ /\ SessionOpen
            /\ proc = "checkBatch" \/ (proc = "resending" /\ k > Len(messagesList))
            /\ queue' = queue \o messagesList
            /\ sentCount' \in {sentCount, sentCount + Len(messagesList)}
            /\ UNCHANGED i
<1> DEFINE Quiet == UNCHANGED <<queue, sentCount>> /\ closed \subseteq closed'
           Appends == /\ SessionOpen
                      /\ \/ proc = "checkBatch"
                         \/ proc = "resending" /\ k > Len(messagesList)
                      /\ queue' = queue \o messagesList
                      /\ sentCount' \in {sentCount, sentCount + Len(messagesList)}
                      /\ UNCHANGED i
<1>1. closed \subseteq JMSObjects
  BY DEF Inv, TypeOK, SessionTypeOK
<1>2. CASE PublisherStep
  BY <1>2 DEF PublisherStep, PublisherMoves, ClaimSlot, SetMessage, SetClosePub,
     PublishMessage, PublishClosePub, ShutdownDrained, ShutdownTimesOut, AwaitTermination,
     procVars, sessionVars
<1>3. CASE WaitFor \/ Exit \/ ClearEvent \/ Advance \/ SeeClose \/ BatchNotFull
  BY <1>3 DEF WaitFor, Exit, ClearEvent, Advance, SeeClose, BatchNotFull, sessionVars
<1>4. CASE AddAndSend
  BY <1>1, <1>4 DEF AddAndSend, Send, SendThrows, Drop, sessionVars
<1>5. CASE CloseObject
  BY <1>1, <1>5 DEF CloseObject, Close, CloseThrows, Drop
<1>6. CASE ResendRollback
  BY <1>1, <1>6 DEF ResendRollback, Rollback, RollbackThrows, Drop, sessionVars
<1>7. CASE ResendNext
  BY <1>1, <1>7 DEF ResendNext, Send, SendThrows, Drop, sessionVars
<1>8. ASSUME proc = "checkBatch" \/ (proc = "resending" /\ k > Len(messagesList)),
             UNCHANGED i,
             \/ Commit /\ CountBatch
             \/ CommitThrows /\ UNCHANGED <<messagesList, sentCount>>
      PROVE  Quiet \/ Appends
  <2>1. CASE SessionOpen /\ queue' = queue \o tx
    <3>1. tx = messagesList
      BY <1>8, <2>1, CommitsTheList
    <3> QED
      BY <1>8, <2>1, <3>1 DEF CountBatch
  <2>2. CASE ~(SessionOpen /\ queue' = queue \o tx)
    BY <1>1, <1>8, <2>2 DEF Commit, CommitThrows, Drop, sessionVars
  <2> QED
    BY <2>1, <2>2
<1>9. CASE CommitBatch
  BY <1>8, <1>9 DEF CommitBatch, HandlerMoves, pubVars
<1>10. CASE ResendCommit
  BY <1>8, <1>10 DEF ResendCommit, HandlerMoves, pubVars
<1>11. CASE Terminated
  BY <1>11 DEF Terminated, vars, procVars, sessionVars
<1> QED
  BY <1>2, <1>3, <1>4, <1>5, <1>6, <1>7, <1>9, <1>10, <1>11 DEF Next, HandlerStep

\* Every commit takes effect on the whole list and nothing else.
THEOREM TxPublishWholeBatches == Spec => WholeBatches
<1>1. Inv /\ [Next]_vars
        => [queue' # queue => queue' = queue \o messagesList]_vars
  BY QueueStep DEF vars
<1> QED
  BY <1>1, TxPublishInvariant, PTL DEF Spec, WholeBatches

-----------------------------------------------------------------------------
(* The two threads implement the at-least-once log *)

LEMMA LogStep ==
  ASSUME Inv, [Next]_vars
  PROVE  [Log!Next]_(Log!logVars)
<1> USE DEF Log!logVars
<1>1. CASE UNCHANGED vars
  BY <1>1 DEF vars, pubVars, procVars, sessionVars
<1>2. ASSUME Next, UNCHANGED <<queue, sentCount, i>>, closed \subseteq closed'
      PROVE  [Log!Next]_(Log!logVars)
  <2>1. CASE "session" \in closed'
    BY <1>2, <2>1 DEF Log!Next, Log!Shut
  <2>2. CASE "session" \notin closed'
    BY <1>2, <2>2
  <2> QED
    BY <2>1, <2>2
<1>3. CASE PublishMessage
  <2>1. Log!Accept
    BY <1>3, TxPublishAssumption
    DEF PublishMessage, PublisherMoves, Log!Accept, procVars, sessionVars, Inv, TypeOK,
        PublisherTypeOK, TxPublishAssumption
  <2> QED
    BY <2>1 DEF Log!Next
<1>4. ASSUME Next, ~PublishMessage PROVE UNCHANGED i
  BY <1>4 DEF Next, PublisherStep, ClaimSlot, SetMessage, SetClosePub, PublishClosePub,
     ShutdownDrained, ShutdownTimesOut, AwaitTermination, Terminated, vars, pubVars,
     HandlerStep, HandlerMoves, WaitFor, Exit, ClearEvent, Advance, AddAndSend, SeeClose,
     CommitBatch, BatchNotFull, CloseObject, ResendRollback, ResendNext, ResendCommit
<1>5. ASSUME Next, SessionOpen,
             proc = "checkBatch" \/ (proc = "resending" /\ k > Len(messagesList)),
             queue' = queue \o messagesList,
             sentCount' \in {sentCount, sentCount + Len(messagesList)},
             UNCHANGED i
      PROVE  [Log!Next]_(Log!logVars)
  <2> DEFINE n == Len(messagesList)
  <2>1. messagesList = Log!Run(n) /\ n \in 0..((i - 1) - sentCount)
    BY <1>5, CommitsTheList
  <2>2. CASE n = 0
    <3>1. messagesList = << >>
      BY <2>2, EmptySeq DEF Inv, TypeOK, HandlerTypeOK
    <3>2. queue' = queue /\ sentCount' = sentCount
      BY <1>5, <2>2, <3>1, ConcatEmptySeq
      DEF Inv, TypeOK, HandlerTypeOK, SessionTypeOK
    <3>3. CASE "session" \in closed'
      BY <1>5, <3>2, <3>3 DEF Log!Next, Log!Shut
    <3>4. CASE "session" \notin closed'
      BY <1>5, <3>2, <3>4 DEF SessionOpen
    <3> QED
      BY <3>3, <3>4
  <2>3. CASE n > 0
    <3>1. n \in 1..((i - 1) - sentCount)
      BY <2>1, <2>3
    <3>2. Log!Deliver(n)
      <4>1. ("session" \in closed)' \in BOOLEAN
        OBVIOUS
      <4> QED
        BY <1>5, <2>1, <4>1 DEF Log!Deliver, SessionOpen
    <3> QED
      BY <3>1, <3>2 DEF Log!Next
  <2> QED
    BY <2>1, <2>2, <2>3
<1> QED
  BY <1>1, <1>2, <1>3, <1>4, <1>5, QueueStep

\* Every behaviour of the two threads, whatever the broker does, is one of the
\* at-least-once log.
THEOREM TxPublishImplementsLog == Spec => ImplementsLog
<1>1. Init => Log!Init
  BY DEF Init, SessionInit, Log!Init
<1> QED
  BY <1>1, LogStep, TxPublishInvariant, PTL DEF Spec, ImplementsLog, Log!Spec

LogProofs == INSTANCE AtLeastOnceLog_proofs
               WITH accepted <- i - 1, settled <- sentCount, log <- queue,
                    shut <- "session" \in closed

\* What the abstract log guarantees holds of the destination.
LEMMA LogGuarantees == ImplementsLog => []NoGap /\ []CountedIsCommitted
<1>1. LogProofs!LogAssumption
  BY TxPublishAssumption DEF LogProofs!LogAssumption, TxPublishAssumption
<1>2. LogProofs!Spec => []LogProofs!LogHasNoGap
  BY <1>1, LogProofs!LogNoGap
<1>3. LogProofs!Spec => []LogProofs!SettledInLog
  BY <1>1, LogProofs!LogSettled
<1>4. /\ Log!Init <=> LogProofs!Init
      /\ [Log!Next]_(Log!logVars) <=> [LogProofs!Next]_(LogProofs!logVars)
  BY DEF Log!Init, LogProofs!Init, Log!Next, LogProofs!Next, Log!Accept, LogProofs!Accept,
     Log!Deliver, LogProofs!Deliver, Log!Shut, LogProofs!Shut, Log!Run, LogProofs!Run,
     Log!logVars, LogProofs!logVars
<1>5. LogProofs!LogHasNoGap => NoGap
  BY DEF LogProofs!LogHasNoGap, NoGap
<1>6. LogProofs!SettledInLog => CountedIsCommitted
  BY DEF LogProofs!SettledInLog, CountedIsCommitted
<1> QED
  BY <1>2, <1>3, <1>4, <1>5, <1>6, PTL DEF ImplementsLog, Log!Spec, LogProofs!Spec

\* No message is committed before a message that precedes it.
THEOREM TxPublishNoGap == Spec => []NoGap
BY TxPublishImplementsLog, LogGuarantees, PTL

\* No counted message is ever missing from the destination.
THEOREM TxPublishCountedIsCommitted == Spec => []CountedIsCommitted
BY TxPublishImplementsLog, LogGuarantees, PTL

-----------------------------------------------------------------------------
(* Before the first lost reply *)

\* Until a commit throws and has been applied all the same, the destination holds
\* the counted messages, each once: resend duplicates nothing by itself.
THEOREM TxPublishExactlyOnce == Spec => []ExactlyOnce
<1>1. Init => ExactlyOnce
  BY DEF Init, SessionInit, ExactlyOnce
<1>2. ASSUME Inv, ExactlyOnce, Next PROVE ExactlyOnce'
  <2> DEFINE n == Len(messagesList)
  <2>1. n \in Nat /\ sentCount \in Nat
    BY <1>2 DEF Inv, TypeOK, HandlerTypeOK
  <2>2. CASE UNCHANGED <<queue, sentCount, doubt>>
    BY <1>2, <2>2 DEF ExactlyOnce
  <2>3. ASSUME Commit, CountBatch,
               proc = "checkBatch" \/ (proc = "resending" /\ k > Len(messagesList))
        PROVE  ExactlyOnce'
    <3> SUFFICES ASSUME ~doubt PROVE ExactlyOnce'
      BY <2>3 DEF Commit, ExactlyOnce
    <3>1. queue' = queue \o Log!Run(n) /\ sentCount' = sentCount + n
      BY <1>2, <2>3, CommitsTheList DEF Commit, CountBatch
    <3>2. queue' = [m \in 1..sentCount |-> m] \o [j \in 1..n |-> sentCount + j]
      BY <1>2, <3>1 DEF ExactlyOnce, Log!Run
    <3>3. [m \in 1..sentCount |-> m] \o [j \in 1..n |-> sentCount + j]
            = [m \in 1..(sentCount + n) |-> m]
      BY <2>1
    <3> QED
      BY <3>1, <3>2, <3>3 DEF ExactlyOnce
  <2>4. CASE CommitThrows /\ UNCHANGED sentCount
    BY <2>2, <2>4 DEF CommitThrows, Drop, Fault, sessionVars, ExactlyOnce
  <2>5. CASE CommitBatch \/ ResendCommit
    BY <2>3, <2>4, <2>5 DEF CommitBatch, ResendCommit, HandlerMoves
  <2>6. CASE Next /\ ~(CommitBatch \/ ResendCommit)
    <3>1. UNCHANGED <<queue, sentCount, doubt>>
      BY <2>6 DEF Next, PublisherStep, PublisherMoves, ClaimSlot, SetMessage, SetClosePub,
         PublishMessage, PublishClosePub, ShutdownDrained, ShutdownTimesOut,
         AwaitTermination, Terminated, vars, procVars, sessionVars, HandlerStep, WaitFor,
         Exit, ClearEvent, Advance, AddAndSend, SeeClose, BatchNotFull, CloseObject,
         ResendRollback, ResendNext, Send, SendThrows, Rollback, RollbackThrows, Close,
         CloseThrows
    <3> QED
      BY <2>2, <3>1
  <2> QED
    BY <1>2, <2>5, <2>6
<1>3. ASSUME ExactlyOnce, UNCHANGED vars PROVE ExactlyOnce'
  BY <1>3 DEF ExactlyOnce, vars, procVars, sessionVars
<1>4. Inv /\ ExactlyOnce /\ [Next]_vars => ExactlyOnce'
  BY <1>2, <1>3
<1> QED
  BY <1>1, <1>4, TxPublishInvariant, PTL DEF Spec
=============================================================================
