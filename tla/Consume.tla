------------------------------ MODULE Consume ------------------------------
(***************************************************************************)
(* ConsumerThread.run over AMQPQueueReceiver, AMQPTopicSubscriber and        *)
(* AMQPDurableTopicSubscriber: receive messageCount messages, count each     *)
(* one, unsubscribe if the test says so, and close.  The session acknowledges *)
(* by itself, or the receiver does it per message, or it is transacted and   *)
(* nothing is ever committed.                                               *)
(***************************************************************************)
EXTENDS ClientThread

Ack(t) == Config(t).ack

\* Variant: a transacted session acknowledges like one in AUTO_ACKNOWLEDGE mode.
AutoAcknowledgesAll(t) == Ack(t) # "client"

\* createSession(true, AUTO_ACKNOWLEDGE) is transacted: the mode is ignored.
AutoAcknowledges(t) == Ack(t) = "auto"

\* consumer.receive() blocks until there is a message.
Receive(t) ==
  /\ IsConsumer(t)
  /\ InLoop(t)
  /\ Goes(t, "loop", IF Ack(t) = "client" THEN "ack" ELSE "count")
  /\ Take(t, Endpoint(t), AutoAcknowledges(t))
  /\ hand' = [hand EXCEPT ![t] = Head(stored[Endpoint(t)])]
  /\ UNCHANGED <<i, counted, toClose, faults, jvm>>

\* The connection fails, or the thread is interrupted: receive() throws, or
\* returns null, on which the next use of the message is a NullPointerException.
ReceiveFails(t) ==
  /\ IsConsumer(t)
  /\ InLoop(t)
  /\ Goes(t, "loop", "failed") \/ Goes(t, "loop", "dead")
  /\ \/ Fault /\ EndSession(t, Endpoint(t), Config(t).kind = "durable")
     \/ Interrupted /\ UNCHANGED <<faults, brokerVars>>
  /\ UNCHANGED <<i, hand, counted, toClose, jvm>>

\* message.acknowledge() in CLIENT_ACKNOWLEDGE mode; when it throws, the message
\* may be settled or not, and run() returns without close().
Acknowledge(t) ==
  /\ IsConsumer(t)
  /\ \/ Goes(t, "ack", "count") /\ Settle(t) /\ UNCHANGED faults
     \/ Goes(t, "ack", "failed") /\ Fault /\ (Settle(t) \/ UNCHANGED brokerVars)
  /\ UNCHANGED <<i, hand, counted, toClose, jvm>>

\* fromJMSToATC answers null for a message that is no text; message.getTimeStamp()
\* is then an exception that run() does not catch.
CountReceived(t) ==
  /\ IsConsumer(t)
  /\ IF hand[t] = Foreign
       THEN Goes(t, "count", "dead") /\ UNCHANGED <<i, counted>>
       ELSE EndIteration(t)
  /\ UNCHANGED <<brokerVars, hand, toClose, faults, jvm>>

ConsumerLoopEnds(t) ==
  /\ IsConsumer(t)
  /\ ~InLoop(t)
  /\ Goes(t, "loop", IF Config(t).unsubscribe THEN "unsubscribe" ELSE "close")
  /\ UNCHANGED <<brokerVars, i, hand, counted, toClose, faults, jvm>>

\* unsubscribe() of a queue receiver and of a topic subscriber does nothing; that of
\* a durable one runs while its subscriber is still open, and may throw.
Unsubscribe(t) ==
  /\ IsConsumer(t)
  /\ \/ /\ Goes(t, "unsubscribe", "close")
        /\ IF Config(t).kind = "durable" THEN RemoveSubscription(t)
                                         ELSE UNCHANGED brokerVars
        /\ UNCHANGED faults
     \/ /\ Config(t).kind = "durable"
        /\ Goes(t, "unsubscribe", "failed")
        /\ Fault
        /\ UNCHANGED brokerVars
  /\ UNCHANGED <<i, hand, counted, toClose, jvm>>

ConsumeStep(t) ==
  \/ Receive(t) \/ ReceiveFails(t) \/ Acknowledge(t) \/ CountReceived(t)
  \/ ConsumerLoopEnds(t) \/ Unsubscribe(t)

=============================================================================
