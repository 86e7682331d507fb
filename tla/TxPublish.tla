----------------------------- MODULE TxPublish -----------------------------
(***************************************************************************)
(* One transactional publisher: two threads, a ring and a JMS session.      *)
(*                                                                         *)
(* The publisher thread (PublisherThread.transactionalPublish) numbers the  *)
(* messages 1..MessageCount, puts each one into the ring, puts a CLOSE_PUB  *)
(* event behind them and shuts the disruptor down.  The handler thread      *)
(* (BatchEventProcessor calling TxPublishHandler.onEvent) sends each        *)
(* message, commits every BatchSize of them, and on any ATCException rolls  *)
(* back and sends its list again until a commit succeeds.                   *)
(*                                                                         *)
(* A ring operation and a JMS call are each one atomic step.  Message       *)
(* content, rate limiting, the sleeps and the meters change no state the    *)
(* properties see and are left out.                                         *)
(***************************************************************************)
EXTENDS EventRing, TxSession

CONSTANTS
  MessageCount,  \* PublisherConfig.messageCount
  BatchSize,     \* PublisherConfig.transactionBatchSize, 0 when not configured
  MayTimeOut     \* may the 10 s waits of DisruptorBasedPublisher.shutdown expire?

ASSUME TxPublishAssumption ==
  /\ MessageCount \in Nat
  /\ BatchSize \in Nat
  /\ MayTimeOut \in BOOLEAN

VARIABLES
  pub,           \* where the publisher thread is
  i,             \* the loop counter of transactionalPublish
  alerted,       \* disruptor.halt() has alerted the handler's barrier (and the
                 \* executor has been shut down: the two always go together)
  proc,          \* where the handler thread is
  messagesList,  \* the messages of the current batch
  k,             \* the next call of a resend loop or of close()
  sentCount      \* messages counted as sent, had the gauge never been read

pubVars  == <<pub, i, alerted>>
procVars == <<proc, messagesList, k, sentCount>>
vars     == <<ringVars, sessionVars, pubVars, procVars>>

Message    == 1..MessageCount
MessageEvent(m) == [type |-> "MessageEvent", msg |-> m]

Init ==
  /\ RingInit
  /\ SessionInit
  /\ pub = "next"
  /\ i = 1
  /\ alerted = FALSE
  /\ proc = "waitFor"
  /\ messagesList = << >>
  /\ k = 1
  /\ sentCount = 0

-----------------------------------------------------------------------------
(* The publisher thread *)

PublisherMoves(from, to) ==
  /\ pub = from
  /\ pub' = to
  /\ UNCHANGED <<sessionVars, procVars>>

\* publish() and closePublisher() begin alike: claim the next slot.
ClaimSlot ==
  /\ PublisherMoves("next", "set")
  /\ RingNext
  /\ UNCHANGED <<i, alerted>>

SetMessage ==
  /\ i <= MessageCount
  /\ PublisherMoves("set", "publish")
  /\ SetEvent(MessageEvent(i))
  /\ UNCHANGED <<i, alerted>>

\* closePublisher sets the type only: the message is what the slot held.
SetClosePub ==
  /\ i > MessageCount
  /\ PublisherMoves("set", "publish")
  /\ SetEvent([ring[Slot(claimed)] EXCEPT !.type = "CLOSE_PUB"])
  /\ UNCHANGED <<i, alerted>>

PublishMessage ==
  /\ i <= MessageCount
  /\ PublisherMoves("publish", "next")
  /\ RingPublish
  /\ i' = i + 1
  /\ UNCHANGED alerted

PublishClosePub ==
  /\ i > MessageCount
  /\ PublisherMoves("publish", "shutdown")
  /\ RingPublish
  /\ UNCHANGED <<i, alerted>>

\* Variant: the executor is shut down and the disruptor never halted.
ShutdownNoHalt ==
  /\ ~HasBacklog
  /\ PublisherMoves("shutdown", "await")
  /\ UNCHANGED <<i, alerted, ringVars>>

\* disruptor.shutdown(10, SECONDS): poll until there is no backlog, then halt;
\* executorPool.shutdown() follows.
ShutdownDrained ==
  /\ ~HasBacklog
  /\ PublisherMoves("shutdown", "await")
  /\ alerted' = TRUE
  /\ UNCHANGED <<i, ringVars>>

\* A backlog after 10 s: TimeoutException, which skips the halt and the
\* executor's shutdown and is logged.
ShutdownTimesOut ==
  /\ HasBacklog
  /\ MayTimeOut
  /\ PublisherMoves("shutdown", "done")
  /\ UNCHANGED <<i, alerted, ringVars>>

\* executorPool.awaitTermination(10, SECONDS), whose answer is ignored.
AwaitTermination ==
  /\ proc = "exited" \/ MayTimeOut
  /\ PublisherMoves("await", "done")
  /\ UNCHANGED <<i, alerted, ringVars>>

-----------------------------------------------------------------------------
(* The handler thread: the event loop *)

HandlerMoves(from, to) ==
  /\ proc = from
  /\ proc' = to
  /\ UNCHANGED pubVars

WaitFor ==
  /\ ~alerted
  /\ HandlerMoves("waitFor", "onEvent")
  /\ RingWaitFor
  /\ UNCHANGED <<sessionVars, messagesList, k, sentCount>>

\* waitFor throws AlertException once halted, and the loop ends.
Exit ==
  /\ alerted
  /\ HandlerMoves("waitFor", "exited")
  /\ UNCHANGED <<ringVars, sessionVars, messagesList, k, sentCount>>

\* finally { event.clear(); }
ClearEvent ==
  /\ HandlerMoves("clear", "advance")
  /\ ClearSlot
  /\ UNCHANGED <<sessionVars, messagesList, k, sentCount>>

\* The batch goes on with the next event or releases its slots.
Advance ==
  /\ HandlerMoves("advance", IF EndOfBatch THEN "waitFor" ELSE "onEvent")
  /\ RingAdvance
  /\ UNCHANGED <<sessionVars, messagesList, k, sentCount>>

-----------------------------------------------------------------------------
(* TxPublishHandler.onEvent *)

IsClose == CurrentEvent.type = "CLOSE_PUB"

AddAndSend ==
  /\ ~IsClose
  /\ messagesList' = Append(messagesList, CurrentEvent.msg)
  /\ \/ /\ HandlerMoves("onEvent", "checkBatch")
        /\ Send(CurrentEvent.msg)
     \/ /\ HandlerMoves("onEvent", "resend")
        /\ SendThrows(CurrentEvent.msg)
  /\ UNCHANGED <<ringVars, k, sentCount>>

SeeClose ==
  /\ IsClose
  /\ HandlerMoves("onEvent", "checkBatch")
  /\ UNCHANGED <<ringVars, sessionVars, messagesList, k, sentCount>>

\* Where onEvent goes behind its batch check.
AfterBatch == IF IsClose THEN "close" ELSE "clear"

\* Variant: the list of a committed batch is not cleared.
CountBatchKeepsList ==
  /\ sentCount' = sentCount + Len(messagesList)
  /\ UNCHANGED messagesList

\* Variant: every commit counts as a full batch.
CountBatchSize ==
  /\ sentCount' = sentCount + BatchSize
  /\ messagesList' = << >>

\* The effect of a commit that returned: count the batch and clear it.
CountBatch ==
  /\ sentCount' = sentCount + Len(messagesList)
  /\ messagesList' = << >>

\* Variant: the batch is full one message late.
BatchOverfull == Len(messagesList) > BatchSize

\* messagesList.size() == batchSize: never true for a batch size of 0 and a
\* message in the list.
BatchFull == Len(messagesList) = BatchSize

\* Variant: the batch is counted before the commit, which may throw.
CountThenCommit ==
  /\ BatchFull
  /\ k' = 1
  /\ \/ HandlerMoves("checkBatch", AfterBatch) /\ Commit
     \/ HandlerMoves("checkBatch", "resend") /\ CommitThrows
  /\ CountBatch
  /\ UNCHANGED ringVars

CommitBatch ==
  /\ BatchFull
  /\ k' = 1
  /\ \/ /\ HandlerMoves("checkBatch", AfterBatch)
        /\ Commit
        /\ CountBatch
     \/ /\ HandlerMoves("checkBatch", "resend")
        /\ CommitThrows
        /\ UNCHANGED <<messagesList, sentCount>>
  /\ UNCHANGED ringVars

BatchNotFull ==
  /\ ~BatchFull
  /\ k' = 1
  /\ HandlerMoves("checkBatch", AfterBatch)
  /\ UNCHANGED <<ringVars, sessionVars, messagesList, sentCount>>

\* publisher.close() closes its JMS objects one after the other.
CloseObject ==
  /\ \/ /\ HandlerMoves("close", IF k = Len(CloseOrder) THEN "clear" ELSE "close")
        /\ Close(CloseOrder[k])
        /\ k' = k + 1
     \/ /\ HandlerMoves("close", "resend")
        /\ CloseThrows(CloseOrder[k])
        /\ k' = k
  /\ UNCHANGED <<ringVars, messagesList, sentCount>>

-----------------------------------------------------------------------------
(* TxPublishHandler.resend, which calls itself on any ATCException *)

\* Variant: the retry starts behind the first message of the list.
ResendFromSecond ==
  /\ \/ HandlerMoves("resend", "resending") /\ Rollback
     \/ HandlerMoves("resend", "resend") /\ RollbackThrows
  /\ k' = 2
  /\ UNCHANGED <<ringVars, messagesList, sentCount>>

\* Variant: the list is sent again without a rollback.
ResendNoRollback ==
  /\ HandlerMoves("resend", "resending")
  /\ k' = 1
  /\ UNCHANGED <<ringVars, sessionVars, messagesList, sentCount>>

ResendRollback ==
  /\ \/ HandlerMoves("resend", "resending") /\ Rollback
     \/ HandlerMoves("resend", "resend") /\ RollbackThrows
  /\ k' = 1
  /\ UNCHANGED <<ringVars, messagesList, sentCount>>

ResendNext ==
  /\ k <= Len(messagesList)
  /\ \/ /\ HandlerMoves("resending", "resending")
        /\ Send(messagesList[k])
        /\ k' = k + 1
     \/ /\ HandlerMoves("resending", "resend")
        /\ SendThrows(messagesList[k])
        /\ k' = k
  /\ UNCHANGED <<ringVars, messagesList, sentCount>>

ResendCommit ==
  /\ k > Len(messagesList)
  /\ \/ /\ HandlerMoves("resending", "clear")
        /\ Commit
        /\ CountBatch
     \/ /\ HandlerMoves("resending", "resend")
        /\ CommitThrows
        /\ UNCHANGED <<messagesList, sentCount>>
  /\ UNCHANGED <<ringVars, k>>

-----------------------------------------------------------------------------

PublisherStep ==
  \/ ClaimSlot \/ SetMessage \/ SetClosePub \/ PublishMessage \/ PublishClosePub
  \/ ShutdownDrained \/ ShutdownTimesOut \/ AwaitTermination

HandlerStep ==
  \/ WaitFor \/ Exit \/ ClearEvent \/ Advance
  \/ AddAndSend \/ SeeClose \/ CommitBatch \/ BatchNotFull \/ CloseObject
  \/ ResendRollback \/ ResendNext \/ ResendCommit

\* Both threads have ended, or the publisher thread gave up waiting and the
\* handler thread waits for an event that nobody will publish.
Terminated ==
  /\ pub = "done"
  /\ proc = "exited" \/ (proc = "waitFor" /\ ~alerted /\ nextSequence > cursor)
  /\ UNCHANGED vars

Next == PublisherStep \/ HandlerStep \/ Terminated

\* The JVM schedules both threads; every JMS call returns or throws
\* (Main sets qpid.flow_control_wait_failure to bound a blocked send).
Fairness ==
  /\ WF_vars(PublisherStep)
  /\ WF_vars(HandlerStep)

Spec     == Init /\ [][Next]_vars
FairSpec == Spec /\ Fairness

-----------------------------------------------------------------------------
(* Safety *)

EventAt(s) ==
  IF s < MessageCount THEN MessageEvent(s + 1) ELSE [NoEvent EXCEPT !.type = "CLOSE_PUB"]

RingTypeOK ==
  /\ ring \in [0..(RingSize - 1) -> [type : EventType, msg : 0..MessageCount]]
  /\ claimed \in -1..MessageCount
  /\ cursor \in -1..MessageCount
  /\ sequence \in -1..MessageCount
  /\ nextSequence \in 0..(MessageCount + 1)
  /\ available \in -1..MessageCount

SessionTypeOK ==
  /\ tx \in Seq(Message)
  /\ queue \in Seq(Message)
  /\ closed \subseteq JMSObjects
  /\ faults \in 0..MaxFaults
  /\ doubt \in BOOLEAN

PublisherTypeOK ==
  /\ pub \in {"next", "set", "publish", "shutdown", "await", "done"}
  /\ i \in 1..(MessageCount + 1)
  /\ alerted \in BOOLEAN

HandlerTypeOK ==
  /\ proc \in {"waitFor", "onEvent", "checkBatch", "close", "resend", "resending",
               "clear", "advance", "exited"}
  /\ messagesList \in Seq(Message)
  /\ k \in Nat \ {0}
  /\ sentCount \in 0..MessageCount

\* The values of the ring's, the session's and the two threads' variables.
TypeOK == RingTypeOK /\ SessionTypeOK /\ PublisherTypeOK /\ HandlerTypeOK

\* Whatever interleaving of the two threads, a published event the handler has
\* not finished with is still the event the publisher put there: the producer
\* never laps the handler onto a slot it has not released, and event.clear()
\* never wipes a slot that was already handed back (PublishEvent is reused).
NoStaleEvent ==
  \A s \in nextSequence..cursor :
    \/ ring[Slot(s)] = EventAt(s)
    \/ s = nextSequence /\ proc = "advance"

\* A message reaches the destination only after every message before it: no
\* retry skips one or commits part of a batch (resend sends the whole list).
NoGap ==
  \A p \in 1..Len(queue) : \A m \in 1..(queue[p] - 1) :
    \E q \in 1..(p - 1) : queue[q] = m

\* What the sent counter has counted is committed: the statistics never report
\* a message that a later rollback takes back.
CountedIsCommitted ==
  \A m \in 1..sentCount : \E p \in 1..Len(queue) : queue[p] = m

\* Until a commit throws although the broker has applied it, the destination
\* holds exactly the counted messages, each once and in order, whatever else
\* fails and is retried.
ExactlyOnce == ~doubt => queue = [m \in 1..sentCount |-> m]

\* Between two events, what was handled is either counted or in the list, so
\* nothing is dropped or counted twice; the list never holds a full batch, so
\* a close event loses less than one batch (with BatchSize 0 it may lose all).
LossBounded ==
  proc \in {"clear", "advance"} =>
    LET handled == IF nextSequence < MessageCount THEN nextSequence + 1
                                                  ELSE MessageCount
    IN  /\ sentCount + Len(messagesList) = handled
        /\ BatchSize > 0 => Len(messagesList) < BatchSize

\* A commit takes effect on the whole list and nothing else: no leftover of a
\* failed attempt is committed with it, so a duplicate is always a whole batch.
WholeBatches ==
  [][queue' # queue => queue' = queue \o messagesList]_vars

\* The publisher thread never writes the slot of an event the handler waits for
\* or works on, between that event's publication and its clear().
NoOverwrite ==
  [][pub' # pub /\ nextSequence <= cursor /\ proc # "advance"
       => ring'[Slot(nextSequence)] = ring[Slot(nextSequence)]]_vars

\* The handler thread and the publisher thread together implement an
\* at-least-once, gap-free log fed by the loop of transactionalPublish.
Log == INSTANCE AtLeastOnceLog
         WITH accepted <- i - 1, settled <- sentCount, log <- queue,
              shut <- "session" \in closed

ImplementsLog == Log!Spec

-----------------------------------------------------------------------------
(* The inductive invariant behind the safety properties *)

\* Each thread's position agrees with the sequences, and the producer is never
\* more than a ring ahead of the slots the handler has released.
SequencesInv ==
  /\ cursor = IF pub \in {"next", "set", "publish"} THEN i - 2 ELSE i - 1
  /\ pub \in {"shutdown", "await", "done"} => i = MessageCount + 1
  /\ claimed = IF pub \in {"set", "publish"} THEN cursor + 1 ELSE cursor
  /\ claimed - RingSize <= sequence
  /\ available <= cursor
  /\ IF proc \in {"waitFor", "exited"}
       THEN sequence = nextSequence - 1 /\ available = nextSequence - 1
       ELSE nextSequence \in (sequence + 1)..available

\* What the slot of sequence s holds, for the RingSize sequences from
\* nextSequence on: they take every slot of the ring exactly once.
Content(s) ==
  IF s <= cursor
    THEN IF s = nextSequence /\ proc = "advance" THEN NoEvent ELSE EventAt(s)
    ELSE IF s = claimed /\ pub = "publish" THEN EventAt(s) ELSE NoEvent

SlotsInv ==
  \A s \in nextSequence..(nextSequence + RingSize - 1) : ring[Slot(s)] = Content(s)

\* The messages taken from the ring so far.
Handled ==
  LET n == IF proc \in {"waitFor", "onEvent", "exited"} THEN nextSequence
                                                        ELSE nextSequence + 1
  IN  IF n > MessageCount THEN MessageCount ELSE n

\* The list is the run of messages between the counted and the handled ones,
\* shorter than a batch except while a batch is being committed.
ListInv ==
  /\ sentCount + Len(messagesList) = Handled
  /\ messagesList = Log!Run(Len(messagesList))
  /\ BatchSize > 0 =>
       \/ Len(messagesList) < BatchSize
       \/ /\ Len(messagesList) = BatchSize
          /\ proc \in {"checkBatch", "resend", "resending"}

\* The open transaction is the list, or the part of it that is sent again;
\* after a failed call it can be anything until the rollback.
TransactionInv ==
  SessionOpen =>
    /\ proc \notin {"resend", "resending"} => tx = messagesList
    /\ proc = "resending" => tx = SubSeq(messagesList, 1, k - 1)

CallInv ==
  /\ proc = "close" => k \in 1..Len(CloseOrder)
  /\ proc = "resending" => k \in 1..(Len(messagesList) + 1)

Inv == TypeOK /\ SequencesInv /\ SlotsInv /\ ListInv /\ TransactionInv /\ CallInv

-----------------------------------------------------------------------------
(* Liveness, under Fairness *)

\* transactionalPublish returns: the loop never waits for ever on a full ring
\* and shutdown() never for ever on the backlog, however often the handler has
\* to retry a batch.
PublisherEnds == <>(pub = "done")

\* Without a timeout the drained disruptor is halted and its non-daemon thread
\* ends, which is what lets the JVM exit.
DisruptorStops == <>(proc = "exited")

\* In the end less than a batch is left uncommitted, wherever the retries have put the
\* bounds of the batches: a resend() commits its list as short as it is, so what is left
\* need not be MessageCount % BatchSize messages, and may be none.
LessThanBatchLeft == BatchSize > 0 => <>(MessageCount - sentCount < BatchSize)

\* The javadoc of DisruptorBasedPublisher.publish: "Eventually this will be
\* published to broker".
EventuallyPublished ==
  \A m \in Message : <>(\E p \in 1..Len(queue) : queue[p] = m)

=============================================================================
