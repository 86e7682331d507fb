---------------------------- MODULE PlainPublish ----------------------------
(***************************************************************************)
(* PublisherThread.publish: a thread that sends messageCount messages over   *)
(* an AUTO_ACKNOWLEDGE session, counts each one behind its send and gives up *)
(* on the first exception.  (BatchPublish has the transactional publisher.)  *)
(***************************************************************************)
EXTENDS ClientThread

IsPlain(t)         == ~IsConsumer(t) /\ ~Config(t).transactional
IsTransactional(t) == ~IsConsumer(t) /\ Config(t).transactional

MessageAt(t, n) == [from |-> t, id |-> n]

\* publisher.send(atcMessage): when it throws, the message may have arrived and
\* run() returns without close().
SendNext(t) ==
  /\ IsPlain(t)
  /\ InLoop(t)
  /\ \/ /\ Goes(t, "loop", "count")
        /\ Arrive(Config(t).kind, <<MessageAt(t, i[t])>>)
        /\ UNCHANGED faults
     \/ /\ Goes(t, "loop", "failed")
        /\ Arrive(Config(t).kind, <<MessageAt(t, i[t])>>) \/ UNCHANGED brokerVars
        /\ Fault
  /\ UNCHANGED <<i, hand, counted, toClose, jvm>>

CountSent(t) ==
  /\ IsPlain(t)
  /\ EndIteration(t)
  /\ UNCHANGED <<brokerVars, hand, toClose, faults, jvm>>

\* Behind the last message: publisher.close().
PublisherLoopEnds(t) ==
  /\ IsPlain(t)
  /\ ~InLoop(t)
  /\ Goes(t, "loop", "close")
  /\ UNCHANGED <<brokerVars, i, hand, counted, toClose, faults, jvm>>

PublishStep(t) == SendNext(t) \/ CountSent(t) \/ PublisherLoopEnds(t)

=============================================================================
