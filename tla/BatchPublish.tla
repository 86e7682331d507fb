---------------------------- MODULE BatchPublish ----------------------------
(***************************************************************************)
(* A transactional publisher as the other parts of a test see it: the       *)
(* publisher thread, which ends when its disruptor has shut down or is no    *)
(* longer waited for, and the handler thread, whose commits bring lists of  *)
(* messages to the destination.  TxPublish has the ring and the single JMS   *)
(* calls; it implements this module (TxPublishInTest).                      *)
(*                                                                         *)
(* For a transactional publisher t, i[t] is the message the handler takes   *)
(* next, counted[t] what it has committed and counted; the list is what lies *)
(* between.  toClose[t] tells which JMS objects are open.                   *)
(***************************************************************************)
EXTENDS PlainPublish

CONSTANT RingSize   \* DEFAULT_DISRUPTOR_BUFFER_SIZE, 4096 in the code

ASSUME RingAssumption == RingSize \in Nat \ {0}

VARIABLE handler    \* thread -> where its handler thread is

HandlerState ==
  {"onEvent", "commit", "resend", "close", "resendClose", "drained", "exited"}

messagesList(t) ==
  [m \in 1..(i[t] - 1 - counted[t]) |-> MessageAt(t, counted[t] + m)]

BatchFull(t) == i[t] - counted[t] = Config(t).batch

SessionOpen(t) == toClose[t] # << >> /\ Head(toClose[t]) \in {"sender", "session"}

\* A rollback, the sends of the list and a commit would all work.
CanResend(t) ==
  SessionOpen(t) /\ (Head(toClose[t]) = "sender" \/ i[t] - 1 = counted[t])

HandlerGoes(t, from, to) ==
  /\ state[t] # "new"
  /\ jvm # "halted"
  /\ handler[t] = from
  /\ handler' = [handler EXCEPT ![t] = to]
  /\ UNCHANGED <<state, hand, jvm>>

\* A fault of the broker: one call throws, or the connection drops and nothing is
\* left to close.
CallThrows(t) ==
  /\ Fault
  /\ toClose' = toClose \/ toClose' = [toClose EXCEPT ![t] = << >>]

\* The list reaches the destination in one transaction, and is counted and
\* cleared; or a call throws on the way there, the commit perhaps behind its effect.
CommitList(t, from, behind, retry) ==
  /\ \/ /\ HandlerGoes(t, from, behind)
        /\ CanResend(t)
        /\ Arrive(Config(t).kind, messagesList(t))
        /\ counted' = [counted EXCEPT ![t] = i[t] - 1]
        /\ UNCHANGED <<toClose, faults>>
     \/ /\ HandlerGoes(t, from, retry)
        /\ SessionOpen(t)
        /\ CallThrows(t)
        /\ \/ UNCHANGED brokerVars
           \/ CanResend(t) /\ Arrive(Config(t).kind, messagesList(t))
        /\ UNCHANGED counted
  /\ UNCHANGED i

-----------------------------------------------------------------------------
(* TxPublishHandler.onEvent *)

\* A message: into the list, and sent.
SendToBatch(t) ==
  /\ InLoop(t)
  /\ \/ /\ HandlerGoes(t, "onEvent", IF BatchFull(t) THEN "commit" ELSE "onEvent")
        /\ UNCHANGED <<toClose, faults>>
     \/ HandlerGoes(t, "onEvent", "resend") /\ CallThrows(t)
  /\ i' = [i EXCEPT ![t] = @ + 1]
  /\ UNCHANGED <<brokerVars, counted>>

CommitBatch(t) == CommitList(t, "commit", "onEvent", "resend")

\* Variant: a list that is not empty is committed in front of close().
SeeCloseCommitsTail(t) ==
  /\ ~InLoop(t)
  /\ CommitList(t, "onEvent", "close", "resendClose")

\* CLOSE_PUB.  With a batch size of 0 the empty list counts as a full batch, and its
\* commit, which brings nothing, may throw.
SeeClose(t) ==
  /\ ~InLoop(t)
  /\ \/ HandlerGoes(t, "onEvent", "close") /\ UNCHANGED <<toClose, faults>>
     \/ /\ Config(t).batch = 0 /\ i[t] - 1 = counted[t]
        /\ HandlerGoes(t, "onEvent", "resendClose")
        /\ CallThrows(t)
  /\ UNCHANGED <<brokerVars, i, counted>>

\* One call of publisher.close(), which is answered by resend() when it throws.
CloseObject(t) ==
  /\ toClose[t] # << >>
  /\ \/ /\ HandlerGoes(t, "close", IF Len(toClose[t]) = 1 THEN "drained" ELSE "close")
        /\ toClose' = [toClose EXCEPT ![t] = Tail(@)]
        /\ UNCHANGED faults
     \/ /\ HandlerGoes(t, "close", "resendClose")
        /\ \/ CallThrows(t)
           \/ Fault /\ toClose' = [toClose EXCEPT ![t] = Tail(@)]
  /\ UNCHANGED <<brokerVars, i, counted>>

\* Variant: resend() counts the list whether or not its commit throws.
ResendCountsAnyway(t) ==
  \E p \in {<<"resend", "onEvent">>, <<"resendClose", "drained">>} :
    /\ HandlerGoes(t, p[1], p[2])
    /\ UNCHANGED brokerVars \/ Arrive(Config(t).kind, messagesList(t))
    /\ counted' = [counted EXCEPT ![t] = i[t] - 1]
    /\ UNCHANGED <<i, toClose, faults>>

\* resend(): whatever the list holds is committed, and behind it the event is done.
\* Without a session, or a sender for a list that is not empty, it calls itself
\* for ever.
Resend(t) ==
  \/ CommitList(t, "resend", "onEvent", "resend")
  \/ CommitList(t, "resendClose", "drained", "resendClose")

HandlerStep(t) ==
  /\ IsTransactional(t)
  /\ SendToBatch(t) \/ CommitBatch(t) \/ SeeClose(t) \/ CloseObject(t) \/ Resend(t)

-----------------------------------------------------------------------------
(* The end of PublisherThread.transactionalPublish: DisruptorBasedPublisher.shutdown *)

\* The handler is through with CLOSE_PUB: the disruptor is halted and the handler
\* thread ends.
ShutdownDrained(t) ==
  /\ IsTransactional(t)
  /\ handler[t] = "drained"
  /\ Goes(t, "loop", "ended")
  /\ handler' = [handler EXCEPT ![t] = "exited"]
  /\ UNCHANGED <<brokerVars, i, hand, counted, toClose, faults, jvm>>

\* All events are in the ring and the handler has not released them 10 s later: the
\* publisher thread ends, and nobody halts the disruptor any more.
ShutdownTimesOut(t) ==
  /\ IsTransactional(t)
  /\ Config(t).count + 2 - i[t] <= RingSize
  /\ Goes(t, "loop", "ended")
  /\ UNCHANGED <<brokerVars, i, hand, counted, toClose, faults, jvm, handler>>

BatchPublishStep(t) == ShutdownDrained(t) \/ ShutdownTimesOut(t)

=============================================================================
