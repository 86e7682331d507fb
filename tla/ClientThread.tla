---------------------------- MODULE ClientThread ----------------------------
(***************************************************************************)
(* What the publisher and consumer threads of a test have in common: the    *)
(* test they belong to, where each one is, its loop counter and the JMS      *)
(* objects it has yet to close.                                             *)
(***************************************************************************)
EXTENDS Broker

CONSTANTS
  Tests,      \* the test configurations of this instance
  MaxFaults,  \* how many JMS calls may throw
  IntMax,     \* the largest int
  MaxCounted  \* bound: what a thread whose loop never ends counts

\* A TestConfiguration after ConfigReader: five lists.
Subscriber == [kind : {"queue", "topic", "durable"}, count : Nat,
               ack : {"auto", "client", "transacted"}, unsubscribe : BOOLEAN]
Publisher  == [kind : {"queue", "topic"}, count : Nat, transactional : BOOLEAN,
               batch : Nat]
TestConfiguration ==
  [topicSubscribers : Seq({s \in Subscriber : s.kind = "topic"}),
   queueSubscribers : Seq({s \in Subscriber : s.kind = "queue"}),
   durableTopicSubscribers : Seq({s \in Subscriber : s.kind = "durable"}),
   topicPublishers : Seq({p \in Publisher : p.kind = "topic"}),
   queuePublishers : Seq({p \in Publisher : p.kind = "queue"})]

ASSUME ClientAssumption ==
  /\ Tests \subseteq TestConfiguration
  /\ MaxFaults \in Nat
  /\ IntMax \in Nat \ {0}
  /\ MaxCounted \in Nat
  /\ \A tc \in Tests : \A p \in 1..Len(tc.queuePublishers) :
       tc.queuePublishers[p].transactional => tc.queuePublishers[p].count < IntMax
  /\ \A tc \in Tests : \A p \in 1..Len(tc.topicPublishers) :
       tc.topicPublishers[p].transactional => tc.topicPublishers[p].count < IntMax

VARIABLES
  test,      \* the test that runs
  state,     \* thread -> where its run() is
  i,         \* thread -> the int loop counter
  hand,      \* thread -> the message received last
  counted,   \* thread -> what its counter has counted (as if never drained)
  toClose,   \* thread -> the close() calls it has still to make, in order
  faults,    \* JMS calls that have thrown
  jvm        \* "up", "hook", "reported" (threads are interrupted), "halted"

threadVars == <<state, i, hand, counted, toClose>>

-----------------------------------------------------------------------------
(* The order in which main starts the threads *)

Subscribers == test.topicSubscribers \o test.queueSubscribers
                 \o test.durableTopicSubscribers
Publishers  == test.topicPublishers \o test.queuePublishers

Threads     == 1..(Len(Subscribers) + Len(Publishers))
IsConsumer(t) == t <= Len(Subscribers)
Config(t)   == IF IsConsumer(t) THEN Subscribers[t] ELSE Publishers[t - Len(Subscribers)]

Endpoint(t) == IF Config(t).kind = "queue" THEN TheQueue ELSE t

\* run() has returned, with everything closed ("ended") or not ("failed"), or an
\* exception nobody catches has ended the thread ("dead").
Over == {"ended", "failed", "dead"}

-----------------------------------------------------------------------------

\* Variant: the counter is a long too.
NextLong(n) == n + 1

\* i++ on an int.
Next32(n) == IF n = IntMax THEN -IntMax - 1 ELSE n + 1

\* for (int i = 1; i <= messageCount; i++): messageCount is a long.
InLoop(t) == i[t] <= Config(t).count

Fault == faults < MaxFaults /\ faults' = faults + 1

Interrupted == jvm = "reported"

Goes(t, from, to) ==
  /\ jvm # "halted"
  /\ state[t] = from
  /\ state' = [state EXCEPT ![t] = to]

\* The end of an iteration: the delay between messages, which an interrupt
\* turns into a return from run() without close().
EndIteration(t) ==
  /\ \/ Goes(t, "count", "loop")
     \/ Interrupted /\ Goes(t, "count", "failed")
  /\ counted[t] < MaxCounted
  /\ counted' = [counted EXCEPT ![t] = @ + 1]
  /\ i' = [i EXCEPT ![t] = Next32(@)]

\* The calls of close(), by publisher and subscriber class.
CloseCalls(t) ==
  LET kind == Config(t).kind
  IN  IF IsConsumer(t)
        THEN IF kind = "queue" THEN <<"consumer", "session", "stop", "connection">>
             ELSE IF kind = "topic" THEN <<"consumer", "session", "stop">>
                                    ELSE <<"consumer", "session", "connection">>
        ELSE IF kind = "queue" THEN <<"sender", "session", "connection">>
                               ELSE <<"sender", "session", "stop", "connection">>

\* One call of close(); the session ends with it or with its connection.  A call
\* that throws may have had its effect, and leaves the rest open.
CloseNext(t) ==
  LET endsSession == IsConsumer(t) /\ Head(toClose[t]) \in {"session", "connection"}
      effect == IF endsSession THEN EndSession(t, Endpoint(t), Config(t).kind = "durable")
                               ELSE UNCHANGED brokerVars
  IN  /\ toClose[t] # << >>
      /\ \/ /\ Goes(t, "close", IF Len(toClose[t]) = 1 THEN "ended" ELSE "close")
            /\ toClose' = [toClose EXCEPT ![t] = Tail(@)]
            /\ effect
            /\ UNCHANGED faults
         \/ /\ Goes(t, "close", "failed")
            /\ Fault
            /\ effect \/ UNCHANGED brokerVars
            /\ UNCHANGED toClose
      /\ UNCHANGED <<i, hand, counted, jvm>>

=============================================================================
