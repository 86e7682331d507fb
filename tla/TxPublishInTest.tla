-------------------------- MODULE TxPublishInTest --------------------------
(***************************************************************************)
(* TxPublish, the ring and the JMS calls of one transactional publisher,    *)
(* implements BatchPublish, the publisher a whole test is checked with: the  *)
(* test here has this publisher and no other thread.                        *)
(***************************************************************************)
EXTENDS TxPublish

Kind == IF CloseOrder = QueueSenderClose THEN "queue" ELSE "topic"

ThisPublisher ==
  [kind |-> Kind, count |-> MessageCount, transactional |-> TRUE, batch |-> BatchSize]

ThisTest ==
  [topicSubscribers |-> << >>, queueSubscribers |-> << >>,
   durableTopicSubscribers |-> << >>,
   topicPublishers |-> IF Kind = "topic" THEN <<ThisPublisher>> ELSE << >>,
   queuePublishers |-> IF Kind = "queue" THEN <<ThisPublisher>> ELSE << >>]

AtClosePub == nextSequence >= MessageCount

\* Where BatchPublish has the handler thread: it sees an event as done once the list is
\* dealt with, and a CLOSE_PUB as untouched until the check of the list is over.
HandlerInTest ==
  CASE alerted                                  -> "exited"
    [] proc \in {"resend", "resending"}         -> IF AtClosePub THEN "resendClose" ELSE "resend"
    [] proc = "close"                           -> "close"
    [] proc = "checkBatch" /\ ~AtClosePub       -> IF BatchFull THEN "commit" ELSE "onEvent"
    [] proc \in {"onEvent", "checkBatch"}       -> "onEvent"
    [] proc \in {"clear", "advance", "waitFor"} ->
         IF AtClosePub /\ (proc = "waitFor" => nextSequence > MessageCount)
           THEN "drained" ELSE "onEvent"
    [] OTHER                                    -> "exited"

InDestination == [p \in 1..Len(queue) |-> [from |-> 1, id |-> queue[p]]]
StillOpen(r)  == r \notin closed

Test == INSTANCE BatchPublish
  WITH Tests      <- {ThisTest},
       IntMax     <- MessageCount + 1,
       MaxCounted <- MessageCount,
       test       <- ThisTest,
       state      <- <<IF pub \in {"await", "done"} THEN "ended" ELSE "loop">>,
       i          <- <<Handled + 1>>,
       hand       <- <<[from |-> 0, id |-> 0]>>,
       counted    <- <<sentCount>>,
       toClose    <- <<SelectSeq(CloseOrder, StillOpen)>>,
       handler    <- <<HandlerInTest>>,
       jvm        <- "up",
       stored     <- [e \in {0, 1} |-> IF e = 0 /\ Kind = "queue" THEN InDestination ELSE << >>],
       unacked    <- << << >> >>,
       settled    <- << << >> >>,
       subscribed <- {},
       sentLog    <- [d \in {"queue", "topic"} |-> IF d = Kind THEN InDestination ELSE << >>]

\* Each step of the two threads, on the ring or the session, is a step of the publisher
\* that a whole test is checked with, or changes nothing a test sees: what a commit
\* brings and counts behind shifted batches, failed closes and repeated lists, and when
\* the publisher thread and the handler thread end.
ImplementsBatchPublish ==
  [][Test!HandlerStep(1) \/ Test!BatchPublishStep(1)]_<<Test!threadVars, Test!brokerVars,
                                                         HandlerInTest, faults>>

=============================================================================
