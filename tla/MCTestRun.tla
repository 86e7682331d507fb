----------------------------- MODULE MCTestRun -----------------------------
(* Instances of TestRun for TLC: small tests of up to three threads. *)
EXTENDS TestRun

Sub(kind, count, ack, unsubscribe) ==
  [kind |-> kind, count |-> count, ack |-> ack, unsubscribe |-> unsubscribe]
Plain(kind, count) ==
  [kind |-> kind, count |-> count, transactional |-> FALSE, batch |-> 0]
Tx(kind, count, batch) ==
  [kind |-> kind, count |-> count, transactional |-> TRUE, batch |-> batch]

NoThreads == [topicSubscribers |-> << >>, queueSubscribers |-> << >>,
              durableTopicSubscribers |-> << >>, topicPublishers |-> << >>,
              queuePublishers |-> << >>]

\* Two receivers share a queue and acknowledge each message.
QueueTests ==
  {[NoThreads EXCEPT !.queueSubscribers = <<Sub("queue", 1, "client", TRUE), Sub("queue", 1, "client", FALSE)>>,
                     !.queuePublishers = <<Plain("queue", 2)>>]}

\* A topic subscriber and a durable one, each waiting for everything.
TopicTests ==
  {[NoThreads EXCEPT !.topicSubscribers = <<Sub("topic", 2, "auto", FALSE)>>,
                     !.durableTopicSubscribers = <<Sub("durable", 1, "client", TRUE)>>,
                     !.topicPublishers = <<Plain("topic", 2)>>]}

\* A transactional publisher: a transacted receiver that waits for the committed
\* batch, and a receiver that waits for the tail too.
TailTests ==
  {[NoThreads EXCEPT !.queueSubscribers = <<s>>, !.queuePublishers = <<Tx("queue", 3, 2)>>] :
     s \in {Sub("queue", 2, "transacted", FALSE), Sub("queue", 3, "auto", FALSE)}}

\* A transactional publisher without a batch size, which commits nothing unless a call
\* throws.
NoBatchTests ==
  {[NoThreads EXCEPT !.queueSubscribers = <<Sub("queue", 1, "client", FALSE)>>,
                     !.queuePublishers = <<Tx("queue", 1, 0)>>]}

\* A publisher and a receiver whose message counts are the largest int.
OverflowTests ==
  {[NoThreads EXCEPT !.queueSubscribers = <<Sub("queue", 4, "auto", FALSE)>>,
                     !.queuePublishers = <<Plain("queue", 4)>>]}

AllTests == QueueTests \cup TopicTests \cup TailTests \cup NoBatchTests \cup OverflowTests
=============================================================================
