----------------------------- MODULE EventRing -----------------------------
(***************************************************************************)
(* The LMAX ring buffer between a publisher thread and the event handler    *)
(* thread of one transactional publisher: Disruptor 3.3.2 built by          *)
(* DisruptorBasedPublisher with ProducerType.SINGLE and one handler.        *)
(*                                                                         *)
(* The slots are PublishEvent objects allocated once and reused for ever,   *)
(* so the safety of the hand-over rests on the sequences: the producer may  *)
(* claim a slot only when the handler has released it, and the handler may  *)
(* read a slot only when the producer has published it.  Everything here is *)
(* the library's (external), except the slot's contents and its clear().    *)
(* This module has the operations; TxPublish calls them.                    *)
(***************************************************************************)
EXTENDS Integers

CONSTANT RingSize   \* DEFAULT_DISRUPTOR_BUFFER_SIZE, 4096 in the code

ASSUME RingSizeAssumption == RingSize \in Nat \ {0}

VARIABLES
  ring,          \* slot -> PublishEvent
  claimed,       \* the producer's last claimed sequence (nextValue)
  cursor,        \* the last published sequence
  sequence,      \* the last sequence released by the handler (gates the producer)
  nextSequence,  \* the sequence the handler works on or waits for
  available      \* the last sequence of the handler's current batch of events

ringVars     == <<ring, claimed, cursor, sequence, nextSequence, available>>
producerVars == <<claimed, cursor>>
handlerVars  == <<sequence, nextSequence, available>>

\* PublishEvent: a type and a message; null is "null" and 0.
EventType == {"null", "MessageEvent", "CLOSE_PUB"}
NoEvent   == [type |-> "null", msg |-> 0]

Slot(s) == s % RingSize

RingInit ==
  /\ ring = [s \in 0..(RingSize - 1) |-> NoEvent]
  /\ claimed = -1
  /\ cursor = -1
  /\ sequence = -1
  /\ nextSequence = 0
  /\ available = -1

-----------------------------------------------------------------------------
(* The producer's side *)

\* Variant: next() gated by the slot the handler works on, not the released one.
RingNextEarly ==
  /\ claimed + 1 - RingSize <= nextSequence
  /\ claimed' = claimed + 1
  /\ UNCHANGED <<ring, cursor, handlerVars>>

\* Variant: next() off by one, a ring one slot longer than it is.
RingNextOffByOne ==
  /\ claimed - RingSize <= sequence
  /\ claimed' = claimed + 1
  /\ UNCHANGED <<ring, cursor, handlerVars>>

\* ringBuffer.next(): parks until the slot to claim has been released.
RingNext ==
  /\ claimed + 1 - RingSize <= sequence
  /\ claimed' = claimed + 1
  /\ UNCHANGED <<ring, cursor, handlerVars>>

\* evt.setAtcMessage / evt.setType on the claimed, unpublished slot.
SetEvent(e) ==
  /\ ring' = [ring EXCEPT ![Slot(claimed)] = e]
  /\ UNCHANGED <<producerVars, handlerVars>>

\* ringBuffer.publish(sequence): the handler may now see the slot.
RingPublish ==
  /\ cursor' = claimed
  /\ UNCHANGED <<ring, claimed, handlerVars>>

\* disruptor.shutdown polls this until it is false.
HasBacklog == cursor > sequence

-----------------------------------------------------------------------------
(* The handler's side: BatchEventProcessor.run *)

CurrentEvent == ring[Slot(nextSequence)]

\* waitFor(nextSequence) returns everything published so far: one batch.
RingWaitFor ==
  /\ nextSequence <= cursor
  /\ available' = cursor
  /\ UNCHANGED <<ring, producerVars, sequence, nextSequence>>

\* PublishEvent.clear()
ClearSlot ==
  /\ ring' = [ring EXCEPT ![Slot(nextSequence)] = NoEvent]
  /\ UNCHANGED <<producerVars, handlerVars>>

\* Slots are released to the producer only at the end of a batch.
EndOfBatch == nextSequence = available

\* Variant: the batch ends and its slots stay taken.
RingAdvanceNoRelease ==
  /\ nextSequence' = nextSequence + 1
  /\ UNCHANGED <<ring, producerVars, sequence, available>>

RingAdvance ==
  /\ nextSequence' = nextSequence + 1
  /\ sequence' = IF EndOfBatch THEN available ELSE sequence
  /\ UNCHANGED <<ring, producerVars, available>>

=============================================================================
