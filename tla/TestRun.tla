------------------------------ MODULE TestRun ------------------------------
(***************************************************************************)
(* A whole run of the test client: Main.main starts the subscribers, waits,  *)
(* starts the publishers, registers the shutdown hook and joins all threads. *)
(* An exception while a thread is prepared ends main and nothing else.  The  *)
(* JVM exits when its last thread has ended or on a signal, and runs the     *)
(* hook if there is one.  The threads and the broker are those of            *)
(* PlainPublish, BatchPublish, Consume and Broker.                           *)
(***************************************************************************)
EXTENDS BatchPublish, Consume, FiniteSets, Functions

VARIABLES
  main,      \* "start", "join", "done", or "dead" behind an exception
  mainAt,    \* threads started, then threads joined
  hook,      \* the shutdown hook is registered
  report,    \* the hook has made the final report
  killed     \* history: a signal ended the run

mainVars == <<main, mainAt, hook, report, killed>>
vars     == <<test, threadVars, handler, brokerVars, mainVars, faults, jvm>>

Init ==
  /\ test \in Tests
  /\ BrokerInit(Threads)
  /\ state = [t \in Threads |-> "new"]
  /\ i = [t \in Threads |-> 1]
  /\ hand = [t \in Threads |-> Foreign]
  /\ counted = [t \in Threads |-> 0]
  /\ toClose = [t \in Threads |-> CloseCalls(t)]
  /\ handler = [t \in Threads |-> "onEvent"]
  /\ faults = 0
  /\ jvm = "up"
  /\ main = "start"
  /\ mainAt = 0
  /\ hook = FALSE
  /\ report = FALSE
  /\ killed = FALSE

-----------------------------------------------------------------------------
(* Main.main *)

\* Variant: the publishers are started first.
StartOrderPublishersFirst(n) ==
  IF n <= Len(Publishers) THEN Len(Subscribers) + n ELSE n - Len(Publishers)

\* The n-th thread main starts.
StartOrder(n) == n

\* subscribe() or init(), the thread's constructor, start().
StartThread ==
  LET t == StartOrder(mainAt + 1)
  IN  /\ main = "start"
      /\ mainAt < Cardinality(Threads)
      /\ Goes(t, "new", "loop")
      /\ mainAt' = mainAt + 1
      /\ subscribed' = IF IsConsumer(t) /\ Endpoint(t) # TheQueue
                         THEN subscribed \cup {t} ELSE subscribed
      /\ UNCHANGED <<test, main, hook, report, killed, i, hand, counted, toClose,
                     handler, stored, unacked, settled, sentLog, faults, jvm>>

\* An ATCException, a NamingException or an IllegalArgumentException (a gauge
\* with this name is registered) propagates out of main.
StartFails ==
  /\ main = "start"
  /\ jvm = "up"
  /\ mainAt < Cardinality(Threads)
  /\ Fault
  /\ main' = "dead"
  /\ UNCHANGED <<test, threadVars, handler, brokerVars, mainAt, hook, report, killed, jvm>>

RegisterHook ==
  /\ main = "start"
  /\ jvm = "up"
  /\ mainAt = Cardinality(Threads)
  /\ hook' = TRUE
  /\ main' = "join"
  /\ mainAt' = 0
  /\ UNCHANGED <<test, threadVars, handler, brokerVars, report, killed, faults, jvm>>

\* thread.join() for each thread of the list; behind the last one main is done.
JoinThread ==
  /\ main = "join"
  /\ jvm # "halted"
  /\ IF mainAt = Cardinality(Threads)
       THEN main' = "done" /\ UNCHANGED mainAt
       ELSE /\ state[mainAt + 1] \in Over
            /\ mainAt' = mainAt + 1
            /\ UNCHANGED main
  /\ UNCHANGED <<test, threadVars, handler, brokerVars, hook, report, killed, faults, jvm>>

-----------------------------------------------------------------------------
(* The JVM *)

StartShutdown ==
  /\ jvm = "up"
  /\ jvm' = IF hook THEN "hook" ELSE "halted"
  /\ UNCHANGED <<test, threadVars, handler, brokerVars, main, mainAt, hook, report, faults>>

\* Variant: the handler threads are daemons.
LastThreadEndsDaemons ==
  /\ main \in {"done", "dead"}
  /\ \A t \in Threads : state[t] \in Over \cup {"new"}
  /\ StartShutdown
  /\ UNCHANGED killed

\* The last thread that is no daemon has ended; main knows nothing of handler threads.
LastThreadEnds ==
  /\ main \in {"done", "dead"}
  /\ \A t \in Threads : state[t] \in Over \cup {"new"}
  /\ \A t \in Threads : IsTransactional(t) => state[t] = "new" \/ handler[t] = "exited"
  /\ StartShutdown
  /\ UNCHANGED killed

Signal == StartShutdown /\ killed' = TRUE

\* The hook reports, then interrupts every thread of the list.
HookRuns ==
  /\ jvm = "hook"
  /\ jvm' = "reported"
  /\ report' = TRUE
  /\ UNCHANGED <<test, threadVars, handler, brokerVars, main, mainAt, hook, killed, faults>>

Halt ==
  /\ jvm = "reported"
  /\ jvm' = "halted"
  /\ UNCHANGED <<test, threadVars, handler, brokerVars, mainVars, faults>>

ThreadStep(t) ==
  /\ \/ (PublishStep(t) \/ ConsumeStep(t) \/ CloseNext(t)) /\ UNCHANGED handler
     \/ BatchPublishStep(t)
  /\ UNCHANGED <<test, mainVars>>

\* A step of the handler thread of a transactional publisher.
BatchStep(t) == HandlerStep(t) /\ UNCHANGED <<test, mainVars>>

MainStep == StartThread \/ RegisterHook \/ JoinThread

Halted == jvm = "halted" /\ UNCHANGED vars

Next ==
  \/ \E t \in Threads : ThreadStep(t) \/ BatchStep(t)
  \/ MainStep \/ StartFails
  \/ LastThreadEnds \/ Signal \/ HookRuns \/ Halt
  \/ Halted

Size(tc) == Len(tc.topicSubscribers) + Len(tc.queueSubscribers)
              + Len(tc.durableTopicSubscribers) + Len(tc.topicPublishers)
              + Len(tc.queuePublishers)

\* Every thread that can go on does; the JVM exits when it can.  Nothing makes a
\* call throw or a signal arrive.
Fairness ==
  /\ \A t \in UNION {1..Size(tc) : tc \in Tests} :
       /\ WF_vars(t \in Threads /\ ThreadStep(t) /\ UNCHANGED faults)
       /\ WF_vars(t \in Threads /\ BatchStep(t) /\ UNCHANGED faults)
  /\ WF_vars(MainStep)
  /\ WF_vars(LastThreadEnds \/ HookRuns \/ Halt)

Spec     == Init /\ [][Next]_vars
FairSpec == Spec /\ Fairness

-----------------------------------------------------------------------------
(* Safety *)

Message == [from : Nat, id : Int]

\* The values of the threads', the broker's and main's variables.
TypeOK ==
  /\ test \in Tests
  /\ state \in [Threads -> {"new", "loop", "ack", "count", "unsubscribe", "close"} \cup Over]
  /\ i \in [Threads -> (-IntMax - 1)..IntMax]
  /\ hand \in [Threads -> Message]
  /\ counted \in [Threads -> Nat]
  /\ toClose \in [Threads -> Seq({"consumer", "sender", "session", "stop", "connection"})]
  /\ handler \in [Threads -> HandlerState]
  /\ faults \in 0..MaxFaults
  /\ jvm \in {"up", "hook", "reported", "halted"}
  /\ stored \in [{TheQueue} \cup Threads -> Seq(Message)]
  /\ unacked \in [Threads -> Seq(Message)]
  /\ settled \in [Threads -> Seq(Message)]
  /\ subscribed \subseteq Threads
  /\ sentLog \in [Destination -> Seq(Message)]
  /\ main \in {"start", "join", "done", "dead"}
  /\ mainAt \in 0..Cardinality(Threads)
  /\ hook \in BOOLEAN /\ report \in BOOLEAN /\ killed \in BOOLEAN

\* Every topic subscription has seen everything published to the topic since
\* the test began, in order and once, whatever it has done with it: main starts
\* the publishers behind the subscribers.
NothingMissed ==
  \A t \in subscribed : settled[t] \o unacked[t] \o stored[t] = sentLog["topic"]

QueueReceivers == {t \in Threads : IsConsumer(t) /\ Config(t).kind = "queue"}

AckReceivers == {t \in QueueReceivers : Ack(t) # "transacted"}

\* A message leaves the queue only by the acknowledgement of a receiver that is
\* not transacted: a transacted one returns everything, however much it counted.
QueueConserved ==
  LET held == SumFunctionOnSet([t \in Threads |-> Len(unacked[t])], QueueReceivers)
      kept == SumFunctionOnSet([t \in Threads |-> Len(settled[t])], AckReceivers)
  IN  Len(stored[TheQueue]) + held + kept - Len(sentLog["queue"]) \in {0, 1}

SentBy(t) == Cardinality({n \in DOMAIN sentLog[Config(t).kind] :
                            sentLog[Config(t).kind][n].from = t})

\* The counters tell what the broker has seen.  A publisher's is behind what it has
\* sent by at most one message: the one it is about to count, or the one whose send
\* threw.  A transactional publisher's is never ahead, and behind only by lists whose
\* commit has thrown.  A consumer that acknowledges counts nothing that is not settled,
\* although an acknowledgement may throw and the message come back.
CountsAreTrue ==
  \A t \in Threads :
    IF IsConsumer(t) THEN Ack(t) # "transacted" => counted[t] <= Len(settled[t])
    ELSE IF IsTransactional(t)
      THEN counted[t] <= SentBy(t) /\ (faults = 0 => counted[t] = SentBy(t))
      ELSE \/ SentBy(t) = counted[t]
           \/ SentBy(t) = counted[t] + 1 /\ state[t] \in {"count", "failed"}

Drained(t) == handler[t] \in {"drained", "exited"}

\* run() comes to its normal end only behind exactly messageCount messages: never
\* early, and never at all if messageCount exceeds what the int loop counter can pass.
\* A transactional publisher may end with any number left when its shutdown expires;
\* but its handler is through, and the JVM down without a signal, only when less than a
\* batch is left, wherever its retries have moved the bounds of the batches.
NormalEndIsComplete ==
  \A t \in Threads :
    IF IsTransactional(t)
      THEN /\ Config(t).batch > 0
           /\ Drained(t) \/ (state[t] # "new" /\ jvm # "up" /\ ~killed)
           => Config(t).count - counted[t] < Config(t).batch
      ELSE state[t] = "ended" => counted[t] = Config(t).count /\ Config(t).count < IntMax

\* What a transactional publisher commits when no call throws.
FullBatches(t) ==
  IF Config(t).batch = 0 THEN 0 ELSE (Config(t).count \div Config(t).batch) * Config(t).batch

\* What the publishers of a destination bring there at most, as long as no commit is
\* repeated: a resend() may commit the tail too.
PublishersOf(dest) == {t \in Threads : ~IsConsumer(t) /\ Config(t).kind = dest}
Brings(t) == IF IsTransactional(t) /\ faults = 0 THEN FullBatches(t) ELSE Config(t).count
Arrives(dest) == SumFunctionOnSet([t \in Threads |-> Brings(t)], PublishersOf(dest))

\* What the receivers in S wait for.
Awaited(S) == SumFunctionOnSet([t \in Threads |-> Config(t).count], S)
Source(t)  == IF Config(t).kind = "queue" THEN "queue" ELSE "topic"

Overflows == \E t \in Threads : ~IsTransactional(t) /\ Config(t).count >= IntMax

\* Nobody has to wait for a message that another receiver has got.
Balanced ==
  /\ ~Overflows
  /\ Awaited(QueueReceivers) <= Arrives("queue")
  /\ \A t \in Threads : IsConsumer(t) /\ Source(t) = "topic" =>
       Config(t).count <= Arrives("topic")

\* Somebody has to, in whatever order they receive.  What a transacted receiver
\* has counted comes back, and another one may count it again.
Starved ==
  \/ Overflows
  \/ Awaited(AckReceivers) > Arrives("queue")
  \/ \E t \in Threads : IsConsumer(t) /\ Config(t).count > Arrives(Source(t))

Disturbed == faults > 0 \/ killed \/ \E n \in DOMAIN stored[TheQueue] :
                                         stored[TheQueue][n] = Foreign

\* A commit has thrown behind its effect, and its list came or will come again.
Repeated(t) == IsTransactional(t) /\ SentBy(t) > counted[t]

\* A test whose consumers wait for more than the publishers bring never completes by
\* itself.  Without a fault that is more than the full batches: the barrier waits for
\* the uncommitted tail.  With faults a resend() may bring the tail, and only a
\* repeated list more than that.
StarvedNeverDone ==
  Starved /\ main = "done" =>
    \E t \in Threads : state[t] \in {"failed", "dead"} \/ Repeated(t)

-----------------------------------------------------------------------------
(* Liveness, under Fairness *)

\* A test whose consumers wait for no more than is committed ends, unless a call
\* throws, a signal arrives, or the queue held a message that is no text.
BarrierEnds == Balanced => <>(main = "done" \/ Disturbed)

\* Main's comment: "console reporter is created by default to provide a report
\* when shutting down".  A run that was not killed has made its report.
ReportAtExit == jvm = "halted" /\ ~killed => report

=============================================================================
