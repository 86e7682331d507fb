--------------------------- MODULE TestRun_proofs ---------------------------
(***************************************************************************)
(* Proofs about TestRun, for all tests, any int width and any number of      *)
(* faults.                                                                   *)
(***************************************************************************)
EXTENDS TestRun, SumLemmas, SequenceTheorems
-----------------------------------------------------------------------------
(* The inductive invariant *)

\* How many of the messages in s are in M.
Occurrences(s, M) == Cardinality({n \in DOMAIN s : s[n] \in M})
Own     == Message \ {Foreign}
From(t) == {m \in Message : m.from = t}

\* main has started the threads up to mainAt and then joined those up to mainAt.
MainInv ==
  /\ main \in {"start", "dead"} => \A t \in Threads : state[t] = "new" <=> t > mainAt
  /\ main \in {"join", "done"} => \A t \in Threads : state[t] # "new"
  /\ main = "join" => \A t \in 1..mainAt : state[t] \in Over
  /\ main = "done" => \A t \in Threads : state[t] \in Over

\* A thread that is not started has done nothing, and the publishers are started last.
NewInv ==
  /\ \A t \in Threads : state[t] = "new" =>
       /\ i[t] = 1 /\ counted[t] = 0 /\ t \notin subscribed
       /\ unacked[t] = << >> /\ settled[t] = << >>
  /\ (\E t \in Threads : IsConsumer(t) /\ state[t] = "new") =>
       \A d \in Destination : sentLog[d] = << >>

\* Where a thread can be, by what it is.
PlaceInv ==
  \A t \in Threads :
    /\ ~IsConsumer(t) => state[t] \notin {"ack", "unsubscribe"} /\ unacked[t] = << >>
    /\ IsTransactional(t) => state[t] \in {"new", "loop", "ended"}
    /\ IsConsumer(t) => /\ state[t] = "ack" => Ack(t) = "client"
                        /\ Ack(t) = "auto" => unacked[t] = << >>

\* A subscription lives as long as its thread listens, and holds nothing when it does not.
SubscriptionInv ==
  /\ \A t \in subscribed : IsConsumer(t) /\ Endpoint(t) # TheQueue
  /\ \A t \in Threads : IsConsumer(t) /\ Endpoint(t) # TheQueue =>
       /\ state[t] \in {"loop", "ack", "count", "unsubscribe"} => t \in subscribed
       /\ t \notin subscribed => stored[t] = << >> /\ unacked[t] = << >>

\* The loop counter is one ahead of the count, unless it can overflow: then the
\* loop has no end.
LoopOf(t) ==
  IF Config(t).count < IntMax
    THEN /\ i[t] = counted[t] + 1
         /\ counted[t] <= Config(t).count
         /\ state[t] \in {"ack", "count"} => counted[t] < Config(t).count
         /\ state[t] \in {"unsubscribe", "close", "ended"} => counted[t] = Config(t).count
    ELSE state[t] \notin {"unsubscribe", "close", "ended"}

LoopInv == \A t \in Threads : ~IsTransactional(t) => LoopOf(t)

\* The list of a transactional publisher: behind CLOSE_PUB it has all that is not
\* committed, and a full one waits for its commit.  Until a call throws, what is
\* committed is a number of full batches.
Listed(t) == i[t] - 1 - counted[t]

BatchOf(t) ==
  /\ i[t] <= Config(t).count + 1 /\ Listed(t) >= 0
  /\ handler[t] \in {"close", "resendClose", "drained", "exited"} =>
       i[t] = Config(t).count + 1
  /\ handler[t] = "commit" => Listed(t) = Config(t).batch
  /\ Config(t).batch > 0 =>
       \/ Listed(t) < Config(t).batch
       \/ Listed(t) = Config(t).batch /\ handler[t] \in {"commit", "resend"}
  /\ faults = 0 => /\ handler[t] \notin {"resend", "resendClose"}
                   /\ \E k \in Nat : counted[t] = k * Config(t).batch

BatchInv == \A t \in Threads : IsTransactional(t) => BatchOf(t)

\* Nothing but a signal ends the JVM while main or a started handler has work to do.
ExitInv ==
  jvm # "up" /\ ~killed =>
    /\ main \in {"done", "dead"}
    /\ \A t \in Threads : IsTransactional(t) => state[t] = "new" \/ handler[t] = "exited"

\* What a publisher has sent, against its count; everything is sent by some publisher.
SentOf(t) ==
  IF IsTransactional(t)
    THEN counted[t] <= SentBy(t) /\ (faults = 0 => SentBy(t) = counted[t])
    ELSE \/ SentBy(t) = counted[t] /\ state[t] # "count"
         \/ SentBy(t) = counted[t] + 1 /\ state[t] \in {"count", "failed"}
Sent(d) == SumFunctionOnSet([t \in Threads |-> SentBy(t)], PublishersOf(d))

SentInv ==
  /\ \A t \in Threads : ~IsConsumer(t) => SentOf(t)
  /\ \A d \in Destination : Len(sentLog[d]) = Sent(d)

\* The books of the queue, kept for the messages in M.
CountOf(logs, threads, S, M) ==
  SumFunctionOnSet([t \in threads |-> Occurrences(logs[t], M)], S)
Held(M) == CountOf(unacked, Threads, QueueReceivers, M)
Kept(M) == CountOf(settled, Threads, AckReceivers, M)
Balance(M) ==
  Occurrences(stored[TheQueue], M) + Held(M) + Kept(M) - Occurrences(sentLog["queue"], M)

BalanceInv == Balance(Own) = 0 /\ Balance(Message) \in {0, 1}

\* What a consumer has in hand and is about to count.
Due(t) == IF state[t] = "count" /\ hand[t] # Foreign THEN 1 ELSE 0

\* What a consumer counts it has acknowledged, or holds; and it was sent.
CountedOf(t) ==
  /\ Ack(t) # "transacted" => counted[t] + Due(t) <= Occurrences(settled[t], Own)
  /\ state[t] = "ack" /\ hand[t] # Foreign => Occurrences(unacked[t], Own) > 0
  /\ Ack(t) = "transacted" /\ state[t] \in {"loop", "count"} =>
       counted[t] + Due(t) <= Occurrences(unacked[t], Own)
  /\ Source(t) = "topic" => Len(settled[t]) <= Len(sentLog["topic"])
  /\ counted[t] + Due(t) <= Len(sentLog[Source(t)])

CountInv == \A t \in Threads : IsConsumer(t) => CountedOf(t)

IInv ==
  /\ TypeOK /\ MainInv /\ NewInv /\ PlaceInv /\ SubscriptionInv /\ NothingMissed
  /\ LoopInv /\ BatchInv /\ ExitInv /\ SentInv /\ BalanceInv /\ CountInv
-----------------------------------------------------------------------------
(* The test that runs *)

\* The lists of a test are lists of subscribers and publishers, and a transacted
\* publisher's count fits its int counter.
LEMMA TestType ==
  ASSUME test \in Tests
  PROVE  /\ Subscribers \in Seq(Subscriber) /\ Publishers \in Seq(Publisher)
         /\ \A p \in 1..Len(Publishers) :
              Publishers[p].transactional => Publishers[p].count < IntMax
<1>1. test \in TestConfiguration
  BY ClientAssumption DEF ClientAssumption
<1>2. /\ test.topicSubscribers \in Seq(Subscriber)
      /\ test.queueSubscribers \in Seq(Subscriber)
      /\ test.durableTopicSubscribers \in Seq(Subscriber)
      /\ test.topicPublishers \in Seq(Publisher)
      /\ test.queuePublishers \in Seq(Publisher)
  <2> DEFINE S(k) == {s \in Subscriber : s.kind = k}
             P(k) == {p \in Publisher : p.kind = k}
  <2>1. /\ test.topicSubscribers \in Seq(S("topic"))
        /\ test.queueSubscribers \in Seq(S("queue"))
        /\ test.durableTopicSubscribers \in Seq(S("durable"))
        /\ test.topicPublishers \in Seq(P("topic"))
        /\ test.queuePublishers \in Seq(P("queue"))
    BY <1>1 DEF TestConfiguration
  <2>2. \A k : S(k) \subseteq Subscriber /\ P(k) \subseteq Publisher
    OBVIOUS
  <2> HIDE DEF S, P
  <2> QED
    BY <2>1, <2>2, SeqMonotonic
<1>3. Subscribers \in Seq(Subscriber) /\ Publishers \in Seq(Publisher)
  BY <1>2, ConcatProperties DEF Subscribers, Publishers
<1>4. ASSUME NEW p \in 1..Len(Publishers), Publishers[p].transactional
      PROVE  Publishers[p].count < IntMax
  <2> DEFINE a == test.topicPublishers
             b == test.queuePublishers
  <2>1. /\ \A n \in 1..Len(a) : a[n].transactional => a[n].count < IntMax
        /\ \A n \in 1..Len(b) : b[n].transactional => b[n].count < IntMax
    BY ClientAssumption DEF ClientAssumption
  <2>2. /\ Len(a) \in Nat /\ Len(b) \in Nat /\ Len(Publishers) = Len(a) + Len(b)
        /\ Publishers[p] = IF p <= Len(a) THEN a[p] ELSE b[p - Len(a)]
    BY <1>2, ConcatProperties, LenProperties DEF Publishers
  <2> HIDE DEF a, b
  <2> QED
    BY <1>4, <2>1, <2>2
<1> QED
  BY <1>3, <1>4

\* The threads are numbered from 1, consumers first.
LEMMA ThreadsFinite ==
  ASSUME test \in Tests
  PROVE  /\ IsFiniteSet(Threads) /\ Threads \subseteq Nat \ {0}
         /\ Cardinality(Threads) \in Nat /\ Threads = 1..Cardinality(Threads)
         /\ \A t \in Threads : ~IsConsumer(t) => \A u \in Threads : IsConsumer(u) => u < t
<1>1. Len(Subscribers) \in Nat /\ Len(Publishers) \in Nat
  BY TestType
<1> DEFINE n == Len(Subscribers) + Len(Publishers)
<1>2. n \in Nat /\ Threads = 1..n
  BY <1>1 DEF Threads
<1> HIDE DEF n
<1>3. IsFiniteSet(Threads) /\ Cardinality(Threads) = n
  BY <1>2, FS_Interval
<1>4. \A t, u \in Threads : ~IsConsumer(t) /\ IsConsumer(u) => u < t
  BY <1>1, <1>2 DEF IsConsumer
<1> QED
  BY <1>2, <1>3, <1>4

\* A thread's configuration is of its kind.
LEMMA ConfigType ==
  ASSUME test \in Tests, NEW t \in Threads
  PROVE  /\ IsConsumer(t) => Config(t) \in Subscriber
         /\ ~IsConsumer(t) => Config(t) \in Publisher
         /\ IsTransactional(t) => Config(t).count < IntMax
<1>1. Len(Subscribers) \in Nat /\ Len(Publishers) \in Nat
  BY TestType
<1>2. IsConsumer(t) => t \in 1..Len(Subscribers)
  BY <1>1 DEF Threads, IsConsumer
<1>3. ~IsConsumer(t) => t - Len(Subscribers) \in 1..Len(Publishers)
  BY <1>1 DEF Threads, IsConsumer
<1> QED
  BY <1>2, <1>3, TestType, ElementOfSeq DEF Config, IsTransactional

\* What the other lemmas need to know of a thread's configuration.
LEMMA ConfigKinds ==
  ASSUME test \in Tests, NEW t \in Threads
  PROVE  /\ Config(t).count \in Nat
         /\ IsConsumer(t) => /\ Config(t).kind \in {"queue", "topic", "durable"}
                             /\ Ack(t) \in {"auto", "client", "transacted"}
         /\ ~IsConsumer(t) => Config(t).kind \in Destination /\ Config(t).batch \in Nat
         /\ ~IsConsumer(t) => (IsPlain(t) <=> ~IsTransactional(t))
         /\ IsPlain(t) \/ IsTransactional(t) => ~IsConsumer(t)
         /\ Source(t) \in Destination
         /\ ~IsConsumer(t) => Source(t) = Config(t).kind
         /\ Endpoint(t) \in {TheQueue, t} /\ t # TheQueue
         /\ Endpoint(t) = TheQueue <=> Source(t) = "queue"
         /\ Endpoint(t) = TheQueue <=> Config(t).kind = "queue"
<1> USE DEF Ack, Destination, Source, Endpoint, TheQueue, IsPlain, IsTransactional
<1>1. t # 0
  BY ThreadsFinite
<1>2. CASE IsConsumer(t)
  BY <1>1, <1>2, ConfigType DEF Subscriber
<1>3. CASE ~IsConsumer(t)
  BY <1>1, <1>3, ConfigType DEF Publisher
<1> QED
  BY <1>2, <1>3

\* The test does not change.
LEMMA TestFixed ==
  ASSUME test' = test
  PROVE  /\ Threads' = Threads /\ QueueReceivers' = QueueReceivers
         /\ AckReceivers' = AckReceivers
         /\ \A d : PublishersOf(d)' = PublishersOf(d)
         /\ \A t : /\ IsConsumer(t)' = IsConsumer(t) /\ Config(t)' = Config(t)
                   /\ Endpoint(t)' = Endpoint(t) /\ Source(t)' = Source(t)
                   /\ Ack(t)' = Ack(t) /\ FullBatches(t)' = FullBatches(t)
                   /\ IsPlain(t)' = IsPlain(t) /\ IsTransactional(t)' = IsTransactional(t)
<1>1. Subscribers' = Subscribers /\ Publishers' = Publishers
  BY DEF Subscribers, Publishers
<1>2. Threads' = Threads
  BY <1>1 DEF Threads
<1>3. \A t : IsConsumer(t)' = IsConsumer(t)
  BY <1>1 DEF IsConsumer
<1>4. \A t : Config(t)' = Config(t)
  BY <1>1, <1>3 DEF Config
<1>5. \A t : /\ Endpoint(t)' = Endpoint(t) /\ Source(t)' = Source(t)
             /\ Ack(t)' = Ack(t) /\ FullBatches(t)' = FullBatches(t)
             /\ IsPlain(t)' = IsPlain(t) /\ IsTransactional(t)' = IsTransactional(t)
  BY <1>3, <1>4 DEF Endpoint, Source, Ack, FullBatches, IsPlain, IsTransactional
<1>6. QueueReceivers' = QueueReceivers
  BY <1>2, <1>3, <1>4 DEF QueueReceivers
<1>7. AckReceivers' = AckReceivers
  BY <1>5, <1>6 DEF AckReceivers
<1>8. \A d : PublishersOf(d)' = PublishersOf(d)
  BY <1>2, <1>3, <1>4 DEF PublishersOf
<1> QED
  BY <1>2, <1>3, <1>4, <1>5, <1>6, <1>7, <1>8

-----------------------------------------------------------------------------
(* Messages in a sequence *)

\* The number of messages of M in s is at most the length of s.
LEMMA OccurrencesType ==
  ASSUME NEW S, NEW s \in Seq(S), NEW M
  PROVE  /\ Occurrences(s, M) \in Nat /\ Occurrences(s, M) <= Len(s)
         /\ (\A n \in 1..Len(s) : s[n] \in M) => Occurrences(s, M) = Len(s)
         /\ (\A n \in 1..Len(s) : s[n] \notin M) => Occurrences(s, M) = 0
<1> DEFINE D == {n \in DOMAIN s : s[n] \in M}
<1>1. Len(s) \in Nat /\ DOMAIN s = 1..Len(s)
  BY LenProperties
<1>2. IsFiniteSet(1..Len(s)) /\ Cardinality(1..Len(s)) = Len(s)
  BY <1>1, FS_Interval, SMTT(30)
<1>3. D \in SUBSET (1..Len(s))
  BY <1>1, SMTT(30)
<1>4. Occurrences(s, M) = Cardinality(D)
  BY DEF Occurrences
<1>5. IsFiniteSet(D) /\ Cardinality(D) \in Nat /\ Cardinality(D) <= Len(s)
  BY <1>2, <1>3, FS_Subset, FS_CardinalityType
<1>6. ASSUME \A n \in 1..Len(s) : s[n] \in M PROVE Cardinality(D) = Len(s)
  <2>1. D = 1..Len(s)
    BY <1>1, <1>6
  <2> QED
    BY <1>2, <2>1
<1>7. ASSUME \A n \in 1..Len(s) : s[n] \notin M PROVE Cardinality(D) = 0
  <2>1. D = {}
    BY <1>1, <1>7
  <2> QED
    BY <2>1, FS_EmptySet
<1> QED
  BY <1>4, <1>5, <1>6, <1>7

\* Nothing occurs in the empty log.
LEMMA OccurrencesEmpty == \A M : Occurrences(<< >>, M) = 0
<1> TAKE M
<1>1. << >> \in Seq(Message) /\ Len(<< >>) = 0
  BY EmptySeq
<1>2. Occurrences(<< >>, M) \in Nat /\ Occurrences(<< >>, M) <= Len(<< >>)
  BY <1>1, OccurrencesType
<1> QED
  BY <1>1, <1>2

\* A message occurs once in the log of it alone.
LEMMA OccurrencesOne ==
  ASSUME NEW S, NEW m \in S, NEW M
  PROVE  Occurrences(<<m>>, M) = IF m \in M THEN 1 ELSE 0
<1> DEFINE s == <<m>>
<1>1. s \in Seq(S) /\ Len(s) = 1 /\ s[1] = m
  OBVIOUS
<1> HIDE DEF s
<1>2. CASE m \in M
  <2>1. \A n \in 1..Len(s) : s[n] \in M
    BY <1>1, <1>2
  <2>2. Occurrences(s, M) = Len(s)
    BY <1>1, <2>1, OccurrencesType
  <2> QED
    BY <1>1, <1>2, <2>2 DEF s
<1>3. CASE m \notin M
  <2>1. \A n \in 1..Len(s) : s[n] \notin M
    BY <1>1, <1>3
  <2>2. Occurrences(s, M) = 0
    BY <1>1, <2>1, OccurrencesType
  <2> QED
    BY <1>3, <2>2 DEF s
<1> QED
  BY <1>2, <1>3

\* Counting distributes over concatenation.
LEMMA OccurrencesConcat ==
  ASSUME NEW S, NEW s \in Seq(S), NEW u \in Seq(S), NEW M
  PROVE  Occurrences(s \o u, M) = Occurrences(s, M) + Occurrences(u, M)
<1> DEFINE k == Len(s)
           A == {n \in DOMAIN s : s[n] \in M}
           B == {n \in DOMAIN u : u[n] \in M}
           C == {n \in DOMAIN (s \o u) : (s \o u)[n] \in M}
           shift == [n \in B |-> n + k]
           T == C \ A
<1>1. /\ k \in Nat /\ Len(u) \in Nat /\ DOMAIN s = 1..k /\ DOMAIN u = 1..Len(u)
      /\ s \o u \in Seq(S) /\ DOMAIN (s \o u) = 1..(k + Len(u))
      /\ \A n \in 1..(k + Len(u)) : (s \o u)[n] = IF n <= k THEN s[n] ELSE u[n - k]
  BY LenProperties, ConcatProperties
<1> HIDE DEF k
<1>2. A \subseteq C /\ A \subseteq 1..k /\ B \subseteq 1..Len(u) /\ C \subseteq 1..(k + Len(u))
  BY <1>1
<1>3. T = {n \in (k + 1)..(k + Len(u)) : u[n - k] \in M}
  BY <1>1
<1>4. ExistsBijection(B, T)
  <2>1. \A n \in B : n \in Int /\ n + k \in T
    BY <1>1, <1>3
  <2>2. \A m \in T : m \in Int /\ m - k \in B
    BY <1>1, <1>3
  <2> HIDE DEF B, T
  <2>3. shift \in [B -> T]
    BY <2>1
  <2>4. \A a, b \in B : shift[a] = shift[b] => a = b
    BY <1>1, <2>1
  <2>5. \A m \in T : \E n \in B : shift[n] = m
    <3> TAKE m \in T
    <3>1. m - k \in B /\ shift[m - k] = m
      BY <1>1, <2>2
    <3> QED
      BY <3>1
  <2> HIDE DEF shift
  <2>6. shift \in Bijection(B, T)
    BY <2>3, <2>4, <2>5 DEF Bijection, Injection, Surjection, IsInjective
  <2> QED
    BY <2>6 DEF ExistsBijection
<1>5. IsFiniteSet(A) /\ IsFiniteSet(B) /\ IsFiniteSet(C) /\ Cardinality(A) \in Nat
      /\ Cardinality(B) \in Nat /\ Cardinality(C) \in Nat
  <2>1. /\ IsFiniteSet(1..k) /\ IsFiniteSet(1..Len(u)) /\ IsFiniteSet(1..(k + Len(u)))
    BY <1>1, FS_Interval
  <2> HIDE DEF A, B, C
  <2> QED
    BY <1>2, <2>1, FS_Subset, FS_CardinalityType
<1>6. Cardinality(T) = Cardinality(B)
  BY <1>4, <1>5, FS_Bijection
<1>7. Cardinality(T) = Cardinality(C) - Cardinality(A)
  <2>1. C \cap A = A
    BY <1>2
  <2> HIDE DEF A, C
  <2> QED
    BY <1>5, <2>1, FS_Difference
<1>8. Cardinality(C) = Cardinality(A) + Cardinality(B)
  <2> HIDE DEF A, B, C, T
  <2> QED
    BY <1>5, <1>6, <1>7
<1> QED
  BY <1>8 DEF Occurrences

\* Appending a message counts it.
LEMMA OccurrencesAppend ==
  ASSUME NEW S, NEW s \in Seq(S), NEW m \in S, NEW M
  PROVE  Occurrences(Append(s, m), M) = Occurrences(s, M) + IF m \in M THEN 1 ELSE 0
<1>1. Append(s, m) = s \o <<m>> /\ <<m>> \in Seq(S)
  BY AppendIsConcat
<1>2. Occurrences(s \o <<m>>, M) = Occurrences(s, M) + Occurrences(<<m>>, M)
  BY <1>1, OccurrencesConcat
<1> QED
  BY <1>1, <1>2, OccurrencesOne

\* A log is its head and its tail.
LEMMA HeadTail ==
  ASSUME NEW S, NEW s \in Seq(S), s # << >>
  PROVE  <<Head(s)>> \in Seq(S) /\ Tail(s) \in Seq(S) /\ s = <<Head(s)>> \o Tail(s)
<1>1. Head(s) \in S /\ Tail(s) \in Seq(S)
  BY HeadTailProperties
<1>2. SubSeq(s, 1, Len(s)) = <<s[1]>> \o SubSeq(s, 2, Len(s))
  <2>1. 1 \in 1..Len(s) /\ Len(s) \in 1..Len(s)
    BY EmptySeq
  <2> QED
    BY <2>1, SubSeqRecursiveFirst
<1>3. SubSeq(s, 1, Len(s)) = s /\ Tail(s) = SubSeq(s, 2, Len(s)) /\ Head(s) = s[1]
  BY SubSeqFull, TailIsSubSeq
<1> QED
  BY <1>1, <1>2, <1>3

\* Taking the head off a log uncounts it.
LEMMA OccurrencesTail ==
  ASSUME NEW S, NEW s \in Seq(S), s # << >>, NEW M
  PROVE  /\ Head(s) \in S /\ Tail(s) \in Seq(S)
         /\ Occurrences(Tail(s), M) = Occurrences(s, M) - IF Head(s) \in M THEN 1 ELSE 0
<1>1. Head(s) \in S
  BY HeadTailProperties
<1>2. <<Head(s)>> \in Seq(S) /\ Tail(s) \in Seq(S) /\ s = <<Head(s)>> \o Tail(s)
  BY HeadTail
<1>3. Occurrences(<<Head(s)>> \o Tail(s), M) = Occurrences(<<Head(s)>>, M) + Occurrences(Tail(s), M)
  BY <1>2, OccurrencesConcat
<1>4. /\ Occurrences(<<Head(s)>>, M) = IF Head(s) \in M THEN 1 ELSE 0
      /\ Occurrences(Tail(s), M) \in Nat
  BY <1>1, <1>2, OccurrencesOne, OccurrencesType
<1>5. Occurrences(s, M) = Occurrences(<<Head(s)>> \o Tail(s), M) /\ Tail(s) \in Seq(S)
  BY <1>2, Zenon
<1> QED
  BY <1>1, <1>3, <1>4, <1>5

-----------------------------------------------------------------------------
(* A step of a thread *)

\* What a step of thread t does to the broker, and where the thread is then.
Effect(t) ==
  \/ UNCHANGED brokerVars
  \/ /\ ~IsConsumer(t)
     /\ \E ms \in Seq(From(t)) : Arrive(Config(t).kind, ms)
  \/ /\ IsConsumer(t) /\ state[t] = "loop"
     /\ state'[t] = IF Ack(t) = "client" THEN "ack" ELSE "count"
     /\ hand'[t] = Head(stored[Endpoint(t)])
     /\ Take(t, Endpoint(t), AutoAcknowledges(t))
  \/ /\ IsConsumer(t) /\ state[t] = "ack"
     /\ Settle(t)
  \/ /\ IsConsumer(t) /\ state[t] \in {"loop", "close"}
     /\ state'[t] \in {"failed", "dead", "close", "ended"}
     /\ EndSession(t, Endpoint(t), Config(t).kind = "durable")
  \/ /\ IsConsumer(t) /\ Config(t).kind = "durable"
     /\ state[t] = "unsubscribe" /\ state'[t] = "close"
     /\ RemoveSubscription(t)

\* What it leaves alone.
Frame(t) ==
  /\ test' = test /\ main' = main /\ mainAt' = mainAt /\ killed' = killed
  /\ jvm' = jvm /\ jvm # "halted" /\ (faults' = 0 => faults = 0)
  /\ state[t] # "new" /\ (state[t] \in Over => state'[t] = state[t])
  /\ \A u \in Threads \ {t} :
       /\ state'[u] = state[u] /\ i'[u] = i[u] /\ hand'[u] = hand[u]
       /\ counted'[u] = counted[u] /\ toClose'[u] = toClose[u]
       /\ handler'[u] = handler[u]
       /\ unacked'[u] = unacked[u] /\ settled'[u] = settled[u]

\* A step of the thread, or of the handler thread behind it.
AnyStep(t) == ThreadStep(t) \/ BatchStep(t)

\* The list holds messages of its own thread.
LEMMA ListType ==
  ASSUME NEW t \in Nat, i[t] \in Int, counted[t] \in Int, Listed(t) >= 0
  PROVE  /\ messagesList(t) \in Seq(From(t)) /\ Len(messagesList(t)) = Listed(t)
         /\ Listed(t) \in Nat
<1> DEFINE n == i[t] - 1 - counted[t]
           c == counted[t]
           ms == [m \in 1..n |-> MessageAt(t, c + m)]
<1>1. n \in Nat /\ c \in Int /\ messagesList(t) = ms /\ n = Listed(t)
  BY DEF Listed, messagesList
<1> HIDE DEF n, c
<1>2. \A m \in 1..n : MessageAt(t, c + m) \in From(t)
  BY <1>1 DEF MessageAt, From, Message
<1>3. ms \in [1..n -> From(t)]
  BY <1>2
<1>4. ms \in Seq(From(t))
  BY <1>1, <1>3, SeqDef
<1>5. Len(ms) = n
  BY <1>1
<1> QED
  BY <1>1, <1>4, <1>5

\* A batch of one.
LEMMA OneMessage ==
  ASSUME NEW t \in Nat, NEW k \in Int
  PROVE  <<MessageAt(t, k)>> \in Seq(From(t))
<1>1. MessageAt(t, k) \in From(t)
  BY DEF MessageAt, From, Message
<1> QED
  BY <1>1

Calls == {"consumer", "sender", "session", "stop", "connection"}

\* A step of the handler takes a message into the list; commits the list; calls in
\* vain; or does neither.
EventTaken(t) ==
  /\ UNCHANGED <<brokerVars, counted>>
  /\ InLoop(t) /\ i' = [i EXCEPT ![t] = @ + 1]
  /\ handler[t] = "onEvent"
  /\ \/ handler'[t] = IF BatchFull(t) THEN "commit" ELSE "onEvent"
     \/ handler'[t] = "resend" /\ faults' # 0
ListCommitted(t) ==
  /\ Arrive(Config(t).kind, messagesList(t))
  /\ counted' = [counted EXCEPT ![t] = i[t] - 1] /\ UNCHANGED <<i, faults>>
  /\ \/ handler[t] \in {"commit", "resend"} /\ handler'[t] = "onEvent"
     \/ handler[t] = "resendClose" /\ handler'[t] = "drained"
CallFailed(t) ==
  /\ UNCHANGED <<i, counted>> /\ faults' # 0
  /\ UNCHANGED brokerVars \/ Arrive(Config(t).kind, messagesList(t))
  /\ \/ handler[t] \in {"commit", "resend"} /\ handler'[t] = "resend"
     \/ handler[t] = "onEvent" /\ ~InLoop(t) /\ handler'[t] = "resendClose"
     \/ handler[t] \in {"close", "resendClose"} /\ handler'[t] = "resendClose"
HandlerMoved(t) ==
  /\ UNCHANGED <<brokerVars, i, counted, faults>>
  /\ \/ handler[t] = "onEvent" /\ ~InLoop(t) /\ handler'[t] = "close"
     \/ handler[t] = "close" /\ handler'[t] \in {"close", "drained"}
Handled(t) == EventTaken(t) \/ ListCommitted(t) \/ CallFailed(t) \/ HandlerMoved(t)

\* A call that throws is a fault.
LEMMA FaultCounts ==
  ASSUME TypeOK, Fault
  PROVE  faults' \in 0..MaxFaults /\ faults' # 0
BY ClientAssumption DEF TypeOK, Fault, ClientAssumption

\* What a step of the handler leaves alone,
LEMMA HandlerLeaves ==
  ASSUME TypeOK, NEW t \in Threads, BatchStep(t)
  PROVE  /\ IsTransactional(t) /\ state[t] # "new" /\ jvm # "halted"
         /\ UNCHANGED <<test, mainVars, state, hand, jvm>>
         /\ \E h \in HandlerState : handler' = [handler EXCEPT ![t] = h]
         /\ \/ toClose' = toClose
            \/ \E s \in Seq(Calls) : toClose' = [toClose EXCEPT ![t] = s]
         /\ faults' = faults \/ (faults' \in 0..MaxFaults /\ faults' # 0)
<1>1. IsTransactional(t) /\ UNCHANGED <<test, mainVars>>
  BY DEF BatchStep, HandlerStep
<1>2. << >> \in Seq(Calls) /\ (toClose[t] # << >> => Tail(toClose[t]) \in Seq(Calls))
  BY EmptySeq, HeadTailProperties DEF TypeOK, Calls
<1>3. CASE SendToBatch(t)
  BY <1>1, <1>2, <1>3, FaultCounts DEF SendToBatch, HandlerGoes, CallThrows, HandlerState
<1>4. CASE CommitBatch(t)
  BY <1>1, <1>2, <1>4, FaultCounts DEF CommitBatch, CommitList, HandlerGoes, CallThrows, HandlerState
<1>5. CASE SeeClose(t)
  BY <1>1, <1>2, <1>5, FaultCounts DEF SeeClose, HandlerGoes, CallThrows, HandlerState
<1>6. CASE CloseObject(t)
  BY <1>1, <1>2, <1>6, FaultCounts DEF CloseObject, HandlerGoes, CallThrows, HandlerState
<1>7. CASE Resend(t)
  BY <1>1, <1>2, <1>7, FaultCounts DEF Resend, CommitList, HandlerGoes, CallThrows, HandlerState
<1> QED
  BY <1>3, <1>4, <1>5, <1>6, <1>7 DEF BatchStep, HandlerStep

\* and what it does.
LEMMA HandlerCases ==
  ASSUME TypeOK, NEW t \in Threads, BatchStep(t)
  PROVE  IsTransactional(t) /\ Handled(t)
<1>1. IsTransactional(t) /\ t \in DOMAIN handler
  BY DEF BatchStep, HandlerStep, TypeOK
<1> SUFFICES Handled(t)
  BY <1>1
<1>2. CASE SendToBatch(t)
  BY <1>1, <1>2, FaultCounts DEF SendToBatch, HandlerGoes, CallThrows, Handled, EventTaken
<1>3. CASE CommitBatch(t)
  BY <1>1, <1>3, FaultCounts
     DEF CommitBatch, CommitList, HandlerGoes, CallThrows, Handled, ListCommitted, CallFailed
<1>4. CASE SeeClose(t)
  BY <1>1, <1>4, FaultCounts
     DEF SeeClose, HandlerGoes, CallThrows, Handled, HandlerMoved, CallFailed
<1>5. CASE CloseObject(t)
  BY <1>1, <1>5, FaultCounts
     DEF CloseObject, HandlerGoes, CallThrows, Handled, HandlerMoved, CallFailed
<1>6. CASE Resend(t)
  BY <1>1, <1>6, FaultCounts
     DEF Resend, CommitList, HandlerGoes, CallThrows, Handled, ListCommitted, CallFailed
<1> QED
  BY <1>2, <1>3, <1>4, <1>5, <1>6 DEF BatchStep, HandlerStep

\* A step of a thread has one of the effects listed, and leaves test and main alone.
LEMMA StepEffect ==
  ASSUME TypeOK, BatchInv, NEW t \in Threads, AnyStep(t)
  PROVE  Effect(t) /\ test' = test /\ main' = main /\ mainAt' = mainAt
<1>1. test' = test /\ main' = main /\ mainAt' = mainAt
  BY DEF AnyStep, ThreadStep, BatchStep, mainVars
<1>2. t \in Nat /\ i[t] \in Int /\ counted[t] \in Int
  BY ThreadsFinite, ClientAssumption DEF TypeOK, ClientAssumption
<1>3. CASE SendNext(t)
  <2>1. Arrive(Config(t).kind, <<MessageAt(t, i[t])>>) \/ UNCHANGED brokerVars
    BY <1>3 DEF SendNext
  <2>2. ~IsConsumer(t)
    BY <1>3 DEF SendNext, IsPlain
  <2> QED
    BY <1>1, <1>2, <2>1, <2>2, OneMessage DEF Effect
<1>4. CASE BatchStep(t) \/ BatchPublishStep(t)
  <2>1. CASE BatchPublishStep(t)
    BY <1>1, <2>1 DEF BatchPublishStep, ShutdownDrained, ShutdownTimesOut, Effect
  <2>2. CASE BatchStep(t)
    <3>1. IsTransactional(t) /\ Handled(t)
      BY <2>2, HandlerCases
    <3>2. UNCHANGED brokerVars \/ Arrive(Config(t).kind, messagesList(t))
      BY <3>1 DEF Handled, EventTaken, ListCommitted, CallFailed, HandlerMoved
    <3>3. messagesList(t) \in Seq(From(t)) /\ ~IsConsumer(t)
      BY <1>2, <3>1, ListType DEF BatchInv, BatchOf, IsTransactional
    <3> QED
      BY <1>1, <3>2, <3>3 DEF Effect
  <2> QED
    BY <1>4, <2>1, <2>2
<1>5. CASE CountSent(t) \/ PublisherLoopEnds(t) \/ CountReceived(t) \/ ConsumerLoopEnds(t)
  <2>1. UNCHANGED brokerVars
    BY <1>5 DEF CountSent, PublisherLoopEnds, CountReceived, ConsumerLoopEnds
  <2> QED
    BY <1>1, <2>1 DEF Effect
<1>6. CASE Receive(t)
  BY <1>1, <1>6 DEF Receive, Goes, Effect, TypeOK
<1>7. CASE ReceiveFails(t)
  <2>1. /\ IsConsumer(t) /\ state[t] = "loop" /\ state'[t] \in {"failed", "dead"}
        /\ \/ EndSession(t, Endpoint(t), Config(t).kind = "durable")
           \/ UNCHANGED brokerVars
    BY <1>7 DEF ReceiveFails, Goes, TypeOK
  <2> QED
    BY <1>1, <2>1 DEF Effect
<1>8. CASE Acknowledge(t)
  BY <1>1, <1>8 DEF Acknowledge, Goes, Effect
<1>9. CASE Unsubscribe(t)
  <2>1. \/ UNCHANGED brokerVars
        \/ /\ IsConsumer(t) /\ Config(t).kind = "durable"
           /\ state[t] = "unsubscribe" /\ state'[t] = "close" /\ RemoveSubscription(t)
    BY <1>9 DEF Unsubscribe, Goes, TypeOK
  <2> QED
    BY <1>1, <2>1 DEF Effect
<1>10. CASE CloseNext(t)
  <2>1. \/ UNCHANGED brokerVars
        \/ /\ IsConsumer(t) /\ state[t] = "close"
           /\ state'[t] \in {"failed", "close", "ended"}
           /\ EndSession(t, Endpoint(t), Config(t).kind = "durable")
    BY <1>10 DEF CloseNext, Goes, TypeOK
  <2> QED
    BY <1>1, <2>1 DEF Effect
<1> QED
  BY <1>3, <1>4, <1>5, <1>6, <1>7, <1>8, <1>9, <1>10
     DEF AnyStep, ThreadStep, PublishStep, ConsumeStep

\* A step of a thread leaves what is other threads' alone.
LEMMA StepFrame ==
  ASSUME TypeOK, BatchInv, NEW t \in Threads, AnyStep(t)
  PROVE  Frame(t)
<1> USE DEF TypeOK
<1>1. Effect(t) /\ test' = test /\ main' = main /\ mainAt' = mainAt
  BY StepEffect
<1>2. \A u \in Threads \ {t} : unacked'[u] = unacked[u] /\ settled'[u] = settled[u]
  <2> TAKE u \in Threads \ {t}
  <2>1. CASE UNCHANGED brokerVars
    BY <2>1 DEF brokerVars
  <2>2. CASE \E ms \in Seq(From(t)) : Arrive(Config(t).kind, ms)
    BY <2>2 DEF Arrive
  <2>3. CASE Take(t, Endpoint(t), AutoAcknowledges(t))
    BY <2>3 DEF Take
  <2>4. CASE Settle(t)
    BY <2>4 DEF Settle
  <2>5. CASE EndSession(t, Endpoint(t), Config(t).kind = "durable")
    BY <2>5 DEF EndSession
  <2>6. CASE RemoveSubscription(t)
    BY <2>6 DEF RemoveSubscription
  <2> QED
    BY <1>1, <2>1, <2>2, <2>3, <2>4, <2>5, <2>6 DEF Effect
<1>0. killed' = killed
  BY DEF AnyStep, ThreadStep, BatchStep, mainVars
<1> USE <1>0, FaultCounts DEF Goes, Over
<1>3. CASE SendNext(t) /\ UNCHANGED handler
  BY <1>3, <1>1, <1>2 DEF SendNext, Frame
<1>4. CASE BatchPublishStep(t)
  BY <1>4, <1>1, <1>2 DEF BatchPublishStep, ShutdownDrained, ShutdownTimesOut, Frame
<1>5. CASE CountSent(t) /\ UNCHANGED handler
  BY <1>5, <1>1, <1>2 DEF CountSent, EndIteration, Frame
<1>6. CASE PublisherLoopEnds(t) /\ UNCHANGED handler
  BY <1>6, <1>1, <1>2 DEF PublisherLoopEnds, Frame
<1>7. CASE Receive(t) /\ UNCHANGED handler
  BY <1>7, <1>1, <1>2 DEF Receive, Frame
<1>8. CASE ReceiveFails(t) /\ UNCHANGED handler
  BY <1>8, <1>1, <1>2 DEF ReceiveFails, Frame
<1>9. CASE Acknowledge(t) /\ UNCHANGED handler
  BY <1>9, <1>1, <1>2 DEF Acknowledge, Frame
<1>10. CASE CountReceived(t) /\ UNCHANGED handler
  BY <1>10, <1>1, <1>2 DEF CountReceived, EndIteration, Frame
<1>11. CASE ConsumerLoopEnds(t) /\ UNCHANGED handler
  BY <1>11, <1>1, <1>2 DEF ConsumerLoopEnds, Frame
<1>12. CASE Unsubscribe(t) /\ UNCHANGED handler
  BY <1>12, <1>1, <1>2 DEF Unsubscribe, Frame
<1>13. CASE CloseNext(t) /\ UNCHANGED handler
  BY <1>13, <1>1, <1>2 DEF CloseNext, Frame
<1>14. CASE BatchStep(t)
  <2>1. /\ UNCHANGED <<state, hand, jvm>> /\ state[t] # "new" /\ jvm # "halted"
        /\ \A u \in Threads \ {t} : handler'[u] = handler[u] /\ toClose'[u] = toClose[u]
        /\ faults' = 0 => faults = 0
    BY <1>14, HandlerLeaves
  <2>2. \A u \in Threads \ {t} : i'[u] = i[u] /\ counted'[u] = counted[u]
    BY <1>14, HandlerCases DEF Handled, EventTaken, ListCommitted, CallFailed, HandlerMoved
  <2> QED
    BY <1>1, <1>2, <2>1, <2>2 DEF Frame
<1> QED
  BY <1>3, <1>4, <1>5, <1>6, <1>7, <1>8, <1>9, <1>10, <1>11, <1>12, <1>13, <1>14
     DEF AnyStep, ThreadStep, PublishStep, ConsumeStep

-----------------------------------------------------------------------------
(* Full batches *)

\* The whole batches in a count are no more than the count.
LEMMA WholeBatches ==
  ASSUME NEW a \in Nat, NEW b \in Nat \ {0}
  PROVE  /\ a \div b \in Nat /\ (a \div b) * b \in Nat
         /\ (a \div b) * b <= a
<1>1. a \div b \in Int /\ a % b \in 0..(b - 1) /\ a = b * (a \div b) + (a % b)
  OBVIOUS
<1>2. a \div b >= 0
  OBVIOUS
<1> DEFINE q == a \div b
           r == a % b
<1>3. q \in Nat /\ r \in Nat /\ a = b * q + r
  BY <1>1, <1>2
<1> HIDE DEF q, r
<1>4. q * b \in Nat /\ q * b = b * q
  BY <1>3
<1>5. q * b <= a
  BY <1>3, <1>4
<1> QED
  BY <1>3, <1>4, <1>5 DEF q

\* Batches that fit in a count are no more than its whole batches.
LEMMA BatchesFit ==
  ASSUME NEW a \in Nat, NEW b \in Nat \ {0}, NEW k \in Nat, k * b <= a
  PROVE  k * b <= (a \div b) * b
<1> DEFINE q == a \div b
           r == a % b
<1>1. q \in Int /\ r \in 0..(b - 1) /\ a = b * q + r
  OBVIOUS
<1> HIDE DEF q, r
<1>2. k <= q
  <2> SUFFICES ASSUME k >= q + 1 PROVE FALSE
    BY <1>1
  <2>1. \A m, n \in Int : m >= n => m * b >= n * b
    OBVIOUS
  <2>2. k * b >= (q + 1) * b
    BY <1>1, <2>1
  <2>3. (q + 1) * b = b * q + b
    BY <1>1
  <2>4. b * q \in Int /\ k * b \in Int
    BY <1>1
  <2> QED
    BY <1>1, <2>2, <2>3, <2>4
<1>3. \A m, n \in Int : m <= n => m * b <= n * b
  OBVIOUS
<1> QED
  BY <1>1, <1>2, <1>3 DEF q

\* Until a call throws, a transactional publisher has committed no more than its full
\* batches.
LEMMA CommittedFull ==
  ASSUME TypeOK, BatchInv, NEW t \in Threads, IsTransactional(t), faults = 0
  PROVE  counted[t] <= FullBatches(t) /\ FullBatches(t) \in Nat
<1> DEFINE a == Config(t).count
           b == Config(t).batch
           c == counted[t]
<1>1. a \in Nat /\ b \in Nat /\ c \in Nat /\ i[t] \in Int
  BY ConfigKinds, ClientAssumption DEF TypeOK, ClientAssumption
<1>2. PICK k \in Nat : c = k * b
  BY DEF BatchInv, BatchOf
<1>3. c <= a
  BY <1>1 DEF BatchInv, BatchOf, Listed
<1>4. FullBatches(t) = IF b = 0 THEN 0 ELSE (a \div b) * b
  BY DEF FullBatches
<1> HIDE DEF a, b, c
<1>5. CASE b = 0
  BY <1>1, <1>2, <1>4, <1>5 DEF c
<1>6. CASE b # 0
  <2>1. c <= (a \div b) * b
    BY <1>1, <1>2, <1>3, <1>6, BatchesFit
  <2>2. (a \div b) * b \in Nat
    BY <1>1, <1>6, WholeBatches
  <2> QED
    BY <1>4, <1>6, <2>1, <2>2 DEF c
<1> QED
  BY <1>5, <1>6

-----------------------------------------------------------------------------
(* Types *)

BrokerTypes ==
  /\ stored \in [{TheQueue} \cup Threads -> Seq(Message)]
  /\ unacked \in [Threads -> Seq(Message)]
  /\ settled \in [Threads -> Seq(Message)]
  /\ subscribed \subseteq Threads
  /\ sentLog \in [Destination -> Seq(Message)]

\* A thread's step keeps the broker's variables in their types.
LEMMA BrokerTypeStep ==
  ASSUME TypeOK, BatchInv, NEW t \in Threads, AnyStep(t)
  PROVE  BrokerTypes'
<1>1. Effect(t) /\ Threads' = Threads
  BY StepEffect, TestFixed
<1> USE DEF TypeOK
<1>0. /\ stored \in [{TheQueue} \cup Threads -> Seq(Message)]
      /\ unacked \in [Threads -> Seq(Message)] /\ settled \in [Threads -> Seq(Message)]
      /\ subscribed \subseteq Threads /\ sentLog \in [Destination -> Seq(Message)]
  OBVIOUS
<1>2. Endpoint(t) \in {TheQueue} \cup Threads
  BY ConfigKinds
<1> SUFFICES /\ stored' \in [{TheQueue} \cup Threads -> Seq(Message)]
             /\ unacked' \in [Threads -> Seq(Message)]
             /\ settled' \in [Threads -> Seq(Message)]
             /\ subscribed' \subseteq Threads
             /\ sentLog' \in [Destination -> Seq(Message)]
  BY <1>1 DEF BrokerTypes
<1>3. CASE UNCHANGED brokerVars
  BY <1>3 DEF brokerVars
<1>4. ASSUME ~IsConsumer(t), NEW ms \in Seq(From(t)), Arrive(Config(t).kind, ms)
      PROVE  /\ stored' \in [{TheQueue} \cup Threads -> Seq(Message)]
             /\ unacked' \in [Threads -> Seq(Message)]
             /\ settled' \in [Threads -> Seq(Message)]
             /\ subscribed' \subseteq Threads
             /\ sentLog' \in [Destination -> Seq(Message)]
  <2>1. ms \in Seq(Message)
    <3>1. From(t) \subseteq Message
      BY DEF From
    <3> QED
      BY <3>1, SeqMonotonic
  <2>2. \A s \in Seq(Message) : s \o ms \in Seq(Message)
    BY <2>1, ConcatProperties
  <2> QED
    BY <1>4, <2>2 DEF Arrive
<1>5. CASE Take(t, Endpoint(t), AutoAcknowledges(t))
  <2> DEFINE q == stored[Endpoint(t)]
  <2>1. Head(q) \in Message /\ Tail(q) \in Seq(Message)
    BY <1>2, <1>5, HeadTailProperties DEF Take
  <2>2. \A s \in Seq(Message) : Append(s, Head(q)) \in Seq(Message)
    BY <2>1, AppendProperties
  <2> HIDE DEF TypeOK
  <2>3. stored' \in [{TheQueue} \cup Threads -> Seq(Message)]
    BY <1>0, <1>2, <1>5, <2>1 DEF Take
  <2> DEFINE kept == Append(settled[t], Head(q))
             held == Append(unacked[t], Head(q))
  <2>4. /\ \/ settled' = [settled EXCEPT ![t] = kept] /\ unacked' = unacked
           \/ unacked' = [unacked EXCEPT ![t] = held] /\ settled' = settled
        /\ subscribed' = subscribed /\ sentLog' = sentLog
    BY <1>5 DEF Take
  <2>5. kept \in Seq(Message) /\ held \in Seq(Message)
    BY <1>0, <2>2
  <2> HIDE DEF q, kept, held
  <2>6. settled' \in [Threads -> Seq(Message)] /\ unacked' \in [Threads -> Seq(Message)]
    BY <1>0, <2>4, <2>5
  <2> QED
    BY <1>0, <2>3, <2>4, <2>6
<1>6. CASE Settle(t)
  <2>1. settled[t] \o unacked[t] \in Seq(Message)
    BY ConcatProperties
  <2> QED
    BY <1>6, <2>1 DEF Settle
<1>7. CASE EndSession(t, Endpoint(t), Config(t).kind = "durable")
  <2>1. unacked[t] \o stored[Endpoint(t)] \in Seq(Message)
    BY <1>2, ConcatProperties
  <2> HIDE DEF TypeOK
  <2>2. /\ settled' \in [Threads -> Seq(Message)] /\ unacked' \in [Threads -> Seq(Message)]
        /\ subscribed' \subseteq Threads /\ sentLog' \in [Destination -> Seq(Message)]
    BY <1>0, <1>7 DEF EndSession
  <2>3. stored' \in [{TheQueue} \cup Threads -> Seq(Message)]
    <3> DEFINE E == {TheQueue} \cup Threads
               back == unacked[t] \o stored[Endpoint(t)]
    <3>1. \/ stored' = [stored EXCEPT ![Endpoint(t)] = back]
          \/ stored' = [stored EXCEPT ![Endpoint(t)] = << >>]
      BY <1>7 DEF EndSession
    <3>2. stored \in [E -> Seq(Message)] /\ back \in Seq(Message) /\ << >> \in Seq(Message)
      BY <1>0, <2>1, EmptySeq
    <3> HIDE DEF E, back
    <3> QED
      BY <3>1, <3>2 DEF E
  <2> QED
    BY <2>2, <2>3
<1>8. CASE RemoveSubscription(t)
  BY <1>8 DEF RemoveSubscription
<1> QED
  BY <1>1, <1>3, <1>4, <1>5, <1>6, <1>7, <1>8 DEF Effect

ThreadTypes ==
  /\ state \in [Threads -> {"new", "loop", "ack", "count", "unsubscribe", "close"} \cup Over]
  /\ i \in [Threads -> (-IntMax - 1)..IntMax]
  /\ hand \in [Threads -> Message]
  /\ counted \in [Threads -> Nat]
  /\ toClose \in [Threads -> Seq(Calls)]
  /\ handler \in [Threads -> HandlerState]
  /\ faults \in 0..MaxFaults
  /\ jvm \in {"up", "hook", "reported", "halted"}

\* An int plus one is an int, whatever it wraps to.
LEMMA NextInt ==
  ASSUME NEW n \in (-IntMax - 1)..IntMax
  PROVE  Next32(n) \in (-IntMax - 1)..IntMax
BY ClientAssumption DEF Next32, ClientAssumption

\* A thread's step keeps the threads' variables in their types.
LEMMA ThreadTypeStep ==
  ASSUME TypeOK, BatchInv, NEW t \in Threads, AnyStep(t)
  PROVE  ThreadTypes'
<1> DEFINE States == {"new", "loop", "ack", "count", "unsubscribe", "close"} \cup Over
           Ints == (-IntMax - 1)..IntMax
           Types == /\ state' \in [Threads -> States] /\ i' \in [Threads -> Ints]
                    /\ hand' \in [Threads -> Message] /\ counted' \in [Threads -> Nat]
                    /\ toClose' \in [Threads -> Seq(Calls)]
                    /\ handler' \in [Threads -> HandlerState]
                    /\ faults' \in 0..MaxFaults
                    /\ jvm' \in {"up", "hook", "reported", "halted"}
<1>1. Threads' = Threads
  BY StepEffect, TestFixed
<1> SUFFICES Types
  BY <1>1 DEF ThreadTypes, Over
<1>2. /\ state \in [Threads -> States] /\ i \in [Threads -> Ints]
      /\ hand \in [Threads -> Message] /\ counted \in [Threads -> Nat]
      /\ toClose \in [Threads -> Seq(Calls)]
      /\ handler \in [Threads -> HandlerState]
      /\ faults \in 0..MaxFaults
      /\ jvm \in {"up", "hook", "reported", "halted"}
  BY DEF TypeOK, Calls
<1>3. Fault => faults' \in 0..MaxFaults
  BY <1>2, ClientAssumption DEF Fault, ClientAssumption
<1>4. \A s : s \in {"loop", "ack", "count", "unsubscribe", "close", "ended", "failed", "dead"}
             => s \in States
  BY DEF Over
<1>5. EndIteration(t) => /\ state' \in [Threads -> States] /\ i' \in [Threads -> Ints]
                         /\ counted' \in [Threads -> Nat]
  <2>1. Next32(i[t]) \in Ints
    BY <1>2, NextInt
  <2> HIDE DEF Ints, States
  <2> SUFFICES ASSUME EndIteration(t)
               PROVE  /\ state' \in [Threads -> States] /\ i' \in [Threads -> Ints]
                      /\ counted' \in [Threads -> Nat]
    OBVIOUS
  <2>2. state' \in [Threads -> States]
    BY <1>2, <1>4 DEF EndIteration, Goes
  <2>3. i' \in [Threads -> Ints]
    BY <1>2, <2>1 DEF EndIteration
  <2>4. counted' \in [Threads -> Nat]
    BY <1>2 DEF EndIteration
  <2> QED
    BY <2>2, <2>3, <2>4
<1> HIDE DEF States
<1>6. CASE SendNext(t) /\ UNCHANGED handler
  BY <1>2, <1>3, <1>4, <1>6 DEF SendNext, Goes
<1>7. CASE BatchPublishStep(t)
  <2>1. state' \in [Threads -> States] /\ handler' \in [Threads -> HandlerState]
    BY <1>2, <1>4, <1>7
       DEF BatchPublishStep, ShutdownDrained, ShutdownTimesOut, Goes, HandlerState
  <2> QED
    BY <1>2, <1>7, <2>1 DEF BatchPublishStep, ShutdownDrained, ShutdownTimesOut
<1>17. CASE BatchStep(t)
  <2>1. handler' \in [Threads -> HandlerState] /\ toClose' \in [Threads -> Seq(Calls)]
    <3> HIDE DEF Ints
    <3> QED
      BY <1>2, <1>17, HandlerLeaves
  <2>2. /\ UNCHANGED <<state, hand, jvm>> /\ faults' \in 0..MaxFaults
    BY <1>2, <1>17, HandlerLeaves
  <2>3. IsTransactional(t) /\ Handled(t)
    BY <1>17, HandlerCases
  <2>4. /\ Config(t).count \in Nat /\ Config(t).count < IntMax /\ IntMax \in Nat
        /\ i[t] \in Int /\ counted[t] \in Nat /\ Listed(t) >= 0
    BY <1>2, <2>3, ConfigKinds, ConfigType, ClientAssumption
       DEF ClientAssumption, TypeOK, BatchInv, BatchOf
  <2>5. i' \in [Threads -> Ints]
    <3>1. InLoop(t) => i[t] + 1 \in Ints
      BY <1>2, <2>4 DEF InLoop
    <3> HIDE DEF Ints
    <3> QED
      BY <1>2, <2>3, <3>1 DEF Handled, EventTaken, ListCommitted, CallFailed, HandlerMoved
  <2>6. counted' \in [Threads -> Nat]
    <3>1. i[t] - 1 \in Nat
      BY <2>4 DEF Listed
    <3> QED
      BY <1>2, <2>3, <3>1 DEF Handled, EventTaken, ListCommitted, CallFailed, HandlerMoved
  <2> QED
    BY <1>2, <2>1, <2>2, <2>5, <2>6
<1> HIDE DEF Ints
<1>8. CASE CountSent(t) /\ UNCHANGED handler
  BY <1>2, <1>5, <1>8 DEF CountSent
<1>9. CASE PublisherLoopEnds(t) /\ UNCHANGED handler
  BY <1>2, <1>4, <1>9 DEF PublisherLoopEnds, Goes
<1>10. CASE Receive(t) /\ UNCHANGED handler
  <2>1. Head(stored[Endpoint(t)]) \in Message
    <3>1. stored[Endpoint(t)] \in Seq(Message) /\ stored[Endpoint(t)] # << >>
      BY <1>10, ConfigKinds DEF Receive, Take, TypeOK
    <3> QED
      BY <3>1, HeadTailProperties
  <2> QED
    BY <1>2, <1>4, <1>10, <2>1 DEF Receive, Goes
<1>11. CASE ReceiveFails(t) /\ UNCHANGED handler
  BY <1>2, <1>3, <1>4, <1>11 DEF ReceiveFails, Goes
<1>12. CASE Acknowledge(t) /\ UNCHANGED handler
  BY <1>2, <1>3, <1>4, <1>12 DEF Acknowledge, Goes
<1>13. CASE CountReceived(t) /\ UNCHANGED handler
  BY <1>2, <1>4, <1>5, <1>13 DEF CountReceived, Goes
<1>14. CASE ConsumerLoopEnds(t) /\ UNCHANGED handler
  BY <1>2, <1>4, <1>14 DEF ConsumerLoopEnds, Goes
<1>15. CASE Unsubscribe(t) /\ UNCHANGED handler
  BY <1>2, <1>3, <1>4, <1>15 DEF Unsubscribe, Goes
<1>16. CASE CloseNext(t) /\ UNCHANGED handler
  <2>1. Tail(toClose[t]) \in Seq(Calls)
    BY <1>2, <1>16, HeadTailProperties DEF CloseNext
  <2> QED
    BY <1>2, <1>3, <1>4, <1>16, <2>1 DEF CloseNext, Goes
<1> QED
  BY <1>6, <1>7, <1>8, <1>9, <1>10, <1>11, <1>12, <1>13, <1>14, <1>15, <1>16, <1>17
     DEF AnyStep, ThreadStep, PublishStep, ConsumeStep

\* The steps of main and of the JVM that no thread and no broker takes part in.
Quiet == UNCHANGED <<test, threadVars, handler, brokerVars>> /\ (faults' = 0 => faults = 0)

MainTypes ==
  /\ main \in {"start", "join", "done", "dead"}
  /\ mainAt \in 0..Cardinality(Threads)
  /\ hook \in BOOLEAN /\ report \in BOOLEAN /\ killed \in BOOLEAN

\* Where a step of main and of the JVM leads.
LEMMA QuietCases ==
  ASSUME TypeOK, Next, ~(\E t \in Threads : AnyStep(t)), ~StartThread
  PROVE  /\ Quiet
         /\ \/ main' = main /\ mainAt' = mainAt
            \/ main = "start" /\ main' = "dead" /\ mainAt' = mainAt
            \/ /\ main = "start" /\ mainAt = Cardinality(Threads)
               /\ main' = "join" /\ mainAt' = 0
            \/ /\ main = "join" /\ mainAt = Cardinality(Threads)
               /\ main' = "done" /\ mainAt' = mainAt
            \/ /\ main = "join" /\ mainAt # Cardinality(Threads)
               /\ main' = main /\ mainAt' = mainAt + 1 /\ state[mainAt + 1] \in Over
<1> USE DEF Quiet, mainVars
<1>1. CASE StartFails
  BY <1>1, FaultCounts DEF StartFails
<1>2. CASE RegisterHook
  BY <1>2 DEF RegisterHook
<1>3. CASE JoinThread
  BY <1>3 DEF JoinThread
<1>4. CASE LastThreadEnds \/ Signal
  BY <1>4 DEF LastThreadEnds, Signal, StartShutdown
<1>5. CASE HookRuns \/ Halt \/ Halted
  BY <1>5 DEF HookRuns, Halt, Halted, vars
<1> QED
  BY <1>1, <1>2, <1>3, <1>4, <1>5 DEF Next, AnyStep, MainStep

\* What Main's starting of a thread does.
LEMMA StartEffect ==
  ASSUME TypeOK, StartThread
  PROVE  /\ mainAt + 1 \in Threads /\ state[mainAt + 1] = "new"
         /\ state' = [state EXCEPT ![mainAt + 1] = "loop"]
         /\ subscribed' = IF IsConsumer(mainAt + 1) /\ Endpoint(mainAt + 1) # TheQueue
                            THEN subscribed \cup {mainAt + 1} ELSE subscribed
         /\ main = "start" /\ mainAt' = mainAt + 1
         /\ UNCHANGED <<test, main, hook, report, killed, i, hand, counted, toClose, jvm,
                        handler, stored, unacked, settled, sentLog, faults>>
<1>1. mainAt + 1 \in Threads
  BY ThreadsFinite DEF TypeOK, StartThread
<1> QED
  BY <1>1 DEF StartThread, StartOrder, Goes

\* Every step keeps every variable in its type.
LEMMA TypeStep ==
  ASSUME TypeOK, BatchInv, [Next]_vars
  PROVE  TypeOK'
<1>1. CASE UNCHANGED vars
  <2>1. Threads' = Threads
    BY <1>1, TestFixed DEF vars
  <2> QED
    BY <1>1, <2>1 DEF TypeOK, vars, threadVars, brokerVars, mainVars
<1>2. ASSUME NEW t \in Threads, AnyStep(t) PROVE TypeOK'
  <2>1. test' = test /\ Threads' = Threads /\ UNCHANGED mainVars
    BY <1>2, StepEffect, TestFixed DEF AnyStep, ThreadStep, BatchStep
  <2>2. MainTypes'
    BY <2>1 DEF TypeOK, MainTypes, mainVars
  <2>3. test' \in Tests
    BY <2>1 DEF TypeOK
  <2> QED
    BY <1>2, <2>2, <2>3, BrokerTypeStep, ThreadTypeStep
       DEF TypeOK, BrokerTypes, ThreadTypes, MainTypes, Calls
<1>3. CASE StartThread
  <2>1. Threads' = Threads
    BY <1>3, StartEffect, TestFixed
  <2>2. state' \in [Threads -> {"new", "loop", "ack", "count", "unsubscribe", "close"} \cup Over]
    BY <1>3, StartEffect DEF TypeOK
  <2>3. subscribed' \subseteq Threads
    BY <1>3, StartEffect DEF TypeOK
  <2>4. mainAt' \in 0..Cardinality(Threads)
    BY <1>3, StartEffect, ThreadsFinite DEF TypeOK
  <2> QED
    BY <1>3, <2>1, <2>2, <2>3, <2>4, StartEffect DEF TypeOK
<1>4. CASE Next /\ ~(\E t \in Threads : AnyStep(t)) /\ ~StartThread
  <2>1. Quiet
    BY <1>4, QuietCases
  <2>2. Threads' = Threads
    BY <2>1, TestFixed DEF Quiet
  <2>3. test' \in Tests /\ BrokerTypes'
    BY <2>1, <2>2 DEF TypeOK, BrokerTypes, Quiet, brokerVars
  <2>4. faults' \in 0..MaxFaults
    BY <1>4, ClientAssumption
       DEF Next, AnyStep, MainStep, StartFails, Fault, RegisterHook, JoinThread, LastThreadEnds, Signal,
           StartShutdown, HookRuns, Halt, Halted, vars, TypeOK, ClientAssumption
  <2>5. jvm' \in {"up", "hook", "reported", "halted"}
    BY <1>4 DEF Next, AnyStep, MainStep, StartFails, RegisterHook, JoinThread, LastThreadEnds, Signal,
           StartShutdown, HookRuns, Halt, Halted, vars, TypeOK
  <2>6. hook' \in BOOLEAN /\ report' \in BOOLEAN /\ killed' \in BOOLEAN
    BY <1>4 DEF Next, AnyStep, MainStep, StartFails, RegisterHook, JoinThread, LastThreadEnds, Signal,
           StartShutdown, HookRuns, Halt, Halted, vars, mainVars, TypeOK
  <2>7. ThreadTypes'
    BY <2>1, <2>2, <2>4, <2>5 DEF TypeOK, ThreadTypes, Quiet, threadVars, Calls
  <2>8. main' \in {"start", "join", "done", "dead"} /\ mainAt' \in 0..Cardinality(Threads)
    BY <1>4, QuietCases, ThreadsFinite DEF TypeOK
  <2>9. MainTypes'
    BY <2>2, <2>6, <2>8 DEF MainTypes
  <2> QED
    BY <2>3, <2>7, <2>9 DEF TypeOK, BrokerTypes, ThreadTypes, MainTypes, Calls
<1> QED
  BY <1>1, <1>2, <1>3, <1>4

-----------------------------------------------------------------------------
(* Starting and joining *)

\* A thread that takes a step is started, and once it closes it receives no more.
Live == {"loop", "ack", "count", "unsubscribe"}

\* No step makes a thread new again or brings an ended one back.
LEMMA StepState ==
  ASSUME TypeOK, NEW t \in Threads, AnyStep(t)
  PROVE  state'[t] # "new" /\ (state'[t] \in Live => state[t] \in Live)
<1>1. CASE BatchStep(t)
  BY <1>1, HandlerLeaves
<1>2. CASE ThreadStep(t)
  BY <1>2 DEF TypeOK, ThreadStep, PublishStep, ConsumeStep, SendNext, CountSent,
       BatchPublishStep, ShutdownDrained, ShutdownTimesOut, PublisherLoopEnds, Receive,
       ReceiveFails, Acknowledge, CountReceived, ConsumerLoopEnds, Unsubscribe, CloseNext,
       EndIteration, Goes, Live
<1> QED
  BY <1>1, <1>2 DEF AnyStep

\* Every step keeps what is known of Main.
LEMMA MainStepInv ==
  ASSUME TypeOK, BatchInv, MainInv, Next
  PROVE  MainInv'
<1>1. ASSUME NEW t \in Threads, AnyStep(t) PROVE MainInv'
  <2>1. Frame(t) /\ Threads' = Threads
    BY <1>1, StepFrame, TestFixed DEF Frame
  <2>2. state'[t] # "new"
    BY <1>1, StepState
  <2>3. \A u \in Threads : /\ state'[u] = "new" <=> state[u] = "new"
                           /\ state[u] \in Over => state'[u] \in Over
    BY <2>1, <2>2 DEF Frame, Over
  <2>4. 1..mainAt \subseteq Threads
    BY ThreadsFinite DEF TypeOK
  <2> QED
    BY <2>1, <2>3, <2>4 DEF MainInv, Frame
<1>2. CASE StartThread
  <2>1. Threads' = Threads
    BY <1>2, StartEffect, TestFixed
  <2>2. mainAt \in Nat /\ state \in [Threads -> {"new", "loop", "ack", "count", "unsubscribe", "close"} \cup Over]
    BY ThreadsFinite DEF TypeOK
  <2>3. ASSUME NEW u \in Threads PROVE state'[u] = "new" <=> u > mainAt + 1
    <3>1. u \in Nat
      BY ThreadsFinite DEF TypeOK
    <3>2. state[u] = "new" <=> u > mainAt
      BY <1>2, StartEffect DEF MainInv
    <3>3. state'[u] = IF u = mainAt + 1 THEN "loop" ELSE state[u]
      BY <1>2, <2>2, StartEffect
    <3> QED
      BY <2>2, <3>1, <3>2, <3>3
  <2> QED
    BY <1>2, <2>1, <2>3, StartEffect DEF MainInv
<1>3. CASE ~(\E t \in Threads : AnyStep(t)) /\ ~StartThread
  <2>1. Quiet
    BY <1>3, QuietCases
  <2>2. Threads' = Threads /\ state' = state
    BY <2>1, TestFixed DEF Quiet, threadVars
  <2>3. \A u \in Threads : u \in Nat /\ u <= Cardinality(Threads)
    BY ThreadsFinite DEF TypeOK
  <2>4. Threads = 1..Cardinality(Threads) /\ Cardinality(Threads) \in Nat /\ mainAt \in Nat
    BY ThreadsFinite DEF TypeOK
  <2> QED
    BY <1>3, <2>2, <2>3, <2>4, QuietCases DEF MainInv
<1> QED
  BY <1>1, <1>2, <1>3

\* Every step keeps what is known of the end of the JVM.
LEMMA ExitStepInv ==
  ASSUME TypeOK, BatchInv, ExitInv, Next
  PROVE  ExitInv'
<1>1. ASSUME NEW t \in Threads, AnyStep(t) PROVE ExitInv'
  <2>1. /\ Frame(t) /\ Threads' = Threads
        /\ \A u : IsTransactional(u)' = IsTransactional(u)
    BY <1>1, StepFrame, TestFixed DEF Frame
  <2>2. ASSUME IsTransactional(t), handler[t] = "exited" PROVE handler'[t] = "exited"
    <3>1. ~BatchStep(t)
      BY <2>2, HandlerCases DEF Handled, EventTaken, ListCommitted, CallFailed, HandlerMoved
    <3> QED
      BY <1>1, <2>2, <3>1
         DEF AnyStep, ThreadStep, BatchPublishStep, ShutdownDrained, ShutdownTimesOut
  <2>3. state[t] # "new"
    BY <2>1 DEF Frame
  <2> QED
    BY <2>1, <2>2, <2>3 DEF ExitInv, Frame
<1>2. CASE StartThread
  BY <1>2, StartEffect DEF ExitInv
<1>3. CASE ~(\E t \in Threads : AnyStep(t)) /\ ~StartThread
  <2>1. Quiet
    BY <1>3, QuietCases
  <2>2. /\ Threads' = Threads /\ state' = state /\ handler' = handler
        /\ \A u : IsTransactional(u)' = IsTransactional(u)
    BY <2>1, TestFixed DEF Quiet, threadVars
  <2>3. CASE StartFails \/ RegisterHook \/ JoinThread
    <3>1. jvm' = jvm /\ killed' = killed /\ main \in {"start", "join"}
      BY <2>3 DEF StartFails, RegisterHook, JoinThread
    <3> QED
      BY <3>1 DEF ExitInv
  <2>4. CASE LastThreadEnds
    BY <2>2, <2>4 DEF LastThreadEnds, StartShutdown, ExitInv
  <2>5. CASE Signal
    BY <2>5 DEF Signal, ExitInv
  <2>6. CASE HookRuns \/ Halt \/ Halted
    <3>1. jvm # "up" /\ killed' = killed /\ main' = main
      BY <2>6 DEF HookRuns, Halt, Halted, vars, mainVars
    <3> QED
      BY <2>2, <3>1 DEF ExitInv
  <2> QED
    BY <1>3, <2>3, <2>4, <2>5, <2>6 DEF Next, AnyStep, MainStep
<1> QED
  BY <1>1, <1>2, <1>3

\* Publishers leave the subscriptions alone, consumers what is sent.
LEMMA StepBroker ==
  ASSUME TypeOK, BatchInv, NEW t \in Threads, AnyStep(t)
  PROVE  /\ subscribed' \subseteq subscribed
         /\ \A u \in Threads \ {t} : u \in subscribed => u \in subscribed'
         /\ state'[t] \in Live => subscribed' = subscribed
         /\ IsConsumer(t) => sentLog' = sentLog
         /\ ~IsConsumer(t) => UNCHANGED <<unacked, settled, subscribed>>
<1>1. Effect(t)
  BY StepEffect
<1> QED
  BY <1>1 DEF Effect, Arrive, Take, Settle, EndSession, RemoveSubscription, brokerVars, Live

\* Threads not yet started remain untouched when another steps,
LEMMA NewStep ==
  ASSUME TypeOK, BatchInv, MainInv, NewInv, NEW t \in Threads, AnyStep(t)
  PROVE  NewInv'
<1>1. Frame(t) /\ Threads' = Threads /\ \A u : IsConsumer(u)' = IsConsumer(u)
  BY StepFrame, TestFixed DEF Frame
<1>2. ASSUME NEW u \in Threads, state'[u] = "new"
      PROVE  /\ u # t /\ state[u] = "new"
             /\ i'[u] = 1 /\ counted'[u] = 0 /\ u \notin subscribed'
             /\ unacked'[u] = << >> /\ settled'[u] = << >>
  BY <1>1, <1>2, StepState, StepBroker DEF Frame, NewInv
<1>3. ASSUME NEW u \in Threads, IsConsumer(u), state'[u] = "new"
      PROVE  \A d \in Destination : sentLog'[d] = << >>
  <2>1. \A d \in Destination : sentLog[d] = << >>
    BY <1>2, <1>3 DEF NewInv
  <2>2. CASE IsConsumer(t)
    BY <2>1, <2>2, StepBroker
  <2>3. CASE ~IsConsumer(t)
    <3>1. u \in Nat /\ t \in Nat /\ u < t /\ mainAt \in Nat
      BY <1>3, <2>3, ThreadsFinite DEF TypeOK
    <3>2. main \in {"start", "dead"} /\ u > mainAt
      BY <1>2, <1>3 DEF MainInv, TypeOK
    <3>3. state[t] = "new"
      BY <3>1, <3>2 DEF MainInv
    <3> QED
      BY <1>1, <3>3 DEF Frame
  <2> QED
    BY <2>2, <2>3
<1> QED
  BY <1>1, <1>2, <1>3 DEF NewInv

\* and when another starts.
LEMMA NewStart ==
  ASSUME TypeOK, MainInv, NewInv, StartThread
  PROVE  NewInv'
<1>1. Threads' = Threads /\ \A u : IsConsumer(u)' = IsConsumer(u)
  BY StartEffect, TestFixed
<1>2. ASSUME NEW u \in Threads, state'[u] = "new"
      PROVE  u # mainAt + 1 /\ state[u] = "new"
  BY <1>2, StartEffect DEF TypeOK
<1> QED
  BY <1>1, <1>2, StartEffect DEF NewInv

\* Messages are kept where they belong when a thread steps,
LEMMA PlaceStep ==
  ASSUME TypeOK, BatchInv, PlaceInv, NEW t \in Threads, AnyStep(t)
  PROVE  PlaceInv'
<1>1. /\ Frame(t) /\ Threads' = Threads
      /\ \A u : /\ IsConsumer(u)' = IsConsumer(u) /\ Ack(u)' = Ack(u)
                /\ IsTransactional(u)' = IsTransactional(u)
  BY StepFrame, TestFixed DEF Frame
<1>0. BatchStep(t) => state' = state /\ IsTransactional(t)
  BY HandlerLeaves
<1>2. ASSUME ~IsConsumer(t) PROVE state'[t] \notin {"ack", "unsubscribe"}
  BY <1>0, <1>2 DEF TypeOK, PlaceInv, IsPlain, IsTransactional, AnyStep, ThreadStep, PublishStep,
       ConsumeStep, SendNext, CountSent, BatchPublishStep, ShutdownDrained, ShutdownTimesOut,
       PublisherLoopEnds, Receive, ReceiveFails, Acknowledge, CountReceived, ConsumerLoopEnds,
       Unsubscribe, CloseNext, EndIteration, Goes
<1>3. ASSUME IsTransactional(t) PROVE state'[t] \in {"new", "loop", "ended"}
  BY <1>0, <1>3 DEF TypeOK, PlaceInv, IsPlain, IsTransactional, AnyStep, ThreadStep, PublishStep,
       ConsumeStep, SendNext, CountSent, BatchPublishStep, ShutdownDrained, ShutdownTimesOut,
       PublisherLoopEnds, Receive, ReceiveFails, Acknowledge, CountReceived, ConsumerLoopEnds,
       Unsubscribe, CloseNext, EndIteration, Goes
<1>4. ASSUME IsConsumer(t), state'[t] = "ack" PROVE Ack(t) = "client"
  BY <1>0, <1>4 DEF TypeOK, PlaceInv, IsPlain, IsTransactional, AnyStep, ThreadStep, PublishStep,
       ConsumeStep, SendNext, CountSent, BatchPublishStep, ShutdownDrained, ShutdownTimesOut,
       PublisherLoopEnds, Receive, ReceiveFails, Acknowledge, CountReceived, ConsumerLoopEnds,
       Unsubscribe, CloseNext, EndIteration, Goes
<1>5. ASSUME ~IsConsumer(t) \/ Ack(t) = "auto", unacked[t] = << >> PROVE unacked'[t] = << >>
  <2>1. CASE ~IsConsumer(t)
    BY <1>5, <2>1, StepBroker
  <2>2. CASE IsConsumer(t) /\ Ack(t) = "auto"
    <3>1. Effect(t)
      BY StepEffect
    <3> QED
      BY <1>5, <2>2, <3>1 DEF Effect, Take, AutoAcknowledges, Settle, EndSession,
         RemoveSubscription, brokerVars, TypeOK
  <2> QED
    BY <1>5, <2>1, <2>2
<1>6. ASSUME NEW u \in Threads
      PROVE  /\ ~IsConsumer(u) => state'[u] \notin {"ack", "unsubscribe"} /\ unacked'[u] = << >>
             /\ IsTransactional(u) => state'[u] \in {"new", "loop", "ended"}
             /\ IsConsumer(u) => /\ state'[u] = "ack" => Ack(u) = "client"
                                 /\ Ack(u) = "auto" => unacked'[u] = << >>
  <2>1. CASE u # t
    BY <1>1, <2>1 DEF PlaceInv, Frame
  <2>2. CASE u = t
    BY <1>2, <1>3, <1>4, <1>5, <2>2 DEF PlaceInv
  <2> QED
    BY <2>1, <2>2
<1> QED
  BY <1>1, <1>6 DEF PlaceInv

\* and when one starts.
LEMMA PlaceStart ==
  ASSUME TypeOK, PlaceInv, StartThread
  PROVE  PlaceInv'
<1>1. /\ Threads' = Threads
      /\ \A u : /\ IsConsumer(u)' = IsConsumer(u) /\ Ack(u)' = Ack(u)
                /\ IsTransactional(u)' = IsTransactional(u)
  BY StartEffect, TestFixed
<1>2. \A u \in Threads : state'[u] = state[u] \/ state'[u] = "loop"
  BY StartEffect DEF TypeOK
<1> QED
  BY <1>1, <1>2, StartEffect DEF PlaceInv

-----------------------------------------------------------------------------
(* Subscriptions *)

\* Live consumers stay subscribed when a thread steps,
LEMMA SubscriptionStep ==
  ASSUME TypeOK, BatchInv, SubscriptionInv, NEW t \in Threads, AnyStep(t)
  PROVE  SubscriptionInv'
<1>1. /\ Frame(t) /\ Effect(t) /\ Threads' = Threads
      /\ \A u : IsConsumer(u)' = IsConsumer(u) /\ Endpoint(u)' = Endpoint(u)
  BY StepEffect, StepFrame, TestFixed
<1> DEFINE OnTopic(u) == IsConsumer(u) /\ Endpoint(u) # TheQueue
<1>2. \A u \in subscribed' : OnTopic(u)
  BY StepBroker DEF SubscriptionInv
<1>3. \A u \in Threads : OnTopic(u) => Endpoint(u) = u /\ u # TheQueue
  BY ConfigKinds DEF TypeOK
<1>4. ASSUME NEW u \in Threads, OnTopic(u), state'[u] \in Live PROVE u \in subscribed'
  BY <1>1, <1>4, StepState, StepBroker DEF SubscriptionInv, Frame, Live
<1>5. ASSUME NEW u \in Threads, OnTopic(u), u \notin subscribed', u # t
      PROVE  stored'[u] = << >> /\ unacked'[u] = << >>
  <2>1. u \notin subscribed /\ stored[u] = << >> /\ unacked[u] = << >>
    BY <1>5, StepBroker DEF SubscriptionInv
  <2>2. unacked'[u] = unacked[u]
    BY <1>1, <1>5 DEF Frame
  <2>3. u # TheQueue /\ Endpoint(t) \in {TheQueue, t}
    BY <1>3, <1>5, ConfigKinds DEF TypeOK
  <2>4. stored'[u] = stored[u]
    BY <1>1, <1>5, <2>1, <2>3 DEF Effect, Arrive, Take, Settle, EndSession,
       RemoveSubscription, brokerVars, TypeOK
  <2> QED
    BY <2>1, <2>2, <2>4
<1>6. ASSUME OnTopic(t), t \notin subscribed'
      PROVE  stored'[t] = << >> /\ unacked'[t] = << >>
  <2>1. /\ Endpoint(t) = t /\ t \in DOMAIN stored /\ t \in DOMAIN unacked
        /\ t \notin subscribed => stored[t] = << >> /\ unacked[t] = << >>
    BY <1>3, <1>6 DEF SubscriptionInv, TypeOK
  <2>2. CASE UNCHANGED brokerVars
    BY <1>6, <2>1, <2>2 DEF brokerVars
  <2>3. CASE Take(t, Endpoint(t), AutoAcknowledges(t))
    BY <1>6, <2>1, <2>3 DEF Take
  <2>4. CASE Settle(t)
    BY <1>6, <2>1, <2>4 DEF Settle
  <2>5. CASE EndSession(t, Endpoint(t), Config(t).kind = "durable")
    <3>1. << >> \o << >> = << >>
      OBVIOUS
    <3> QED
      BY <1>3, <1>6, <2>1, <2>5, <3>1 DEF EndSession
  <2>6. CASE RemoveSubscription(t)
    BY <2>1, <2>6 DEF RemoveSubscription
  <2> QED
    BY <1>1, <1>6, <2>2, <2>3, <2>4, <2>5, <2>6 DEF Effect
<1> QED
  BY <1>1, <1>2, <1>4, <1>5, <1>6 DEF SubscriptionInv, Live

\* and one is subscribed when it starts.
LEMMA SubscriptionStart ==
  ASSUME TypeOK, SubscriptionInv, StartThread
  PROVE  SubscriptionInv'
<1>1. /\ Threads' = Threads
      /\ \A u : IsConsumer(u)' = IsConsumer(u) /\ Endpoint(u)' = Endpoint(u)
  BY StartEffect, TestFixed
<1>2. \A u \in Threads : u # mainAt + 1 => state'[u] = state[u]
  BY StartEffect DEF TypeOK
<1> QED
  BY <1>1, <1>2, StartEffect DEF SubscriptionInv

\* The messages of a subscription keep their order wherever they are.
LEMMA Regroup ==
  ASSUME NEW a \in Seq(Message), NEW u \in Seq(Message), NEW s \in Seq(Message)
  PROVE  /\ a \o << >> \o (u \o s) = a \o u \o s
         /\ (a \o u) \o << >> \o s = a \o u \o s
         /\ \A ms \in Seq(Message) : a \o u \o (s \o ms) = (a \o u \o s) \o ms
         /\ s # << >> => /\ a \o Append(u, Head(s)) \o Tail(s) = a \o u \o s
                         /\ Append(a, Head(s)) \o << >> \o Tail(s) = a \o << >> \o s
<1>1. a \o << >> = a /\ (a \o u) \o << >> = a \o u /\ a \o u \in Seq(Message)
      /\ u \o s \in Seq(Message)
  BY ConcatEmptySeq, ConcatProperties
<1>2. a \o (u \o s) = a \o u \o s
  BY ConcatAssociative, SMTT(30)
<1>3. ASSUME NEW ms \in Seq(Message) PROVE a \o u \o (s \o ms) = (a \o u \o s) \o ms
  BY <1>1, ConcatAssociative, SMTT(30)
<1>4. ASSUME s # << >>
      PROVE  /\ a \o Append(u, Head(s)) \o Tail(s) = a \o u \o s
             /\ Append(a, Head(s)) \o << >> \o Tail(s) = a \o << >> \o s
  <2> DEFINE h == <<Head(s)>>
             r == Tail(s)
  <2>1. h \in Seq(Message) /\ r \in Seq(Message) /\ s = h \o r
    BY <1>4, HeadTail
  <2>2. Append(u, Head(s)) = u \o h /\ Append(a, Head(s)) = a \o h
    <3>1. Head(s) \in Message
      BY <1>4, HeadTailProperties
    <3> QED
      BY <3>1, AppendIsConcat
  <2> HIDE DEF h, r
  <2>3. a \o (u \o h) \o r = a \o u \o (h \o r)
    <3>1. a \o (u \o h) = (a \o u) \o h
      BY <2>1, ConcatAssociative, SMTT(30)
    <3>2. (a \o u) \o h \o r = a \o u \o (h \o r)
      BY <1>1, <2>1, ConcatAssociative, SMTT(30)
    <3> QED
      BY <3>1, <3>2, SMTT(30)
  <2>4. (a \o h) \o << >> = a \o h /\ (a \o h) \o r = a \o (h \o r)
    <3>1. a \o h \in Seq(Message)
      BY <2>1, ConcatProperties
    <3> QED
      BY <2>1, <3>1, ConcatEmptySeq, ConcatAssociative, SMTT(30)
  <2> QED
    BY <1>1, <2>1, <2>2, <2>3, <2>4 DEF h, r
<1> QED
  BY <1>1, <1>2, <1>3, <1>4

\* A step of any thread moves a topic's messages along a subscription in order,
LEMMA NothingMissedStep ==
  ASSUME TypeOK, BatchInv, PlaceInv, SubscriptionInv, NothingMissed, NEW t \in Threads, AnyStep(t)
  PROVE  NothingMissed'
<1>1. Frame(t) /\ Effect(t) /\ subscribed' \subseteq subscribed /\ subscribed \subseteq Threads
  BY StepEffect, StepFrame, StepBroker DEF TypeOK
<1> SUFFICES ASSUME NEW u \in subscribed'
             PROVE  settled'[u] \o unacked'[u] \o stored'[u] = sentLog'["topic"]
  BY DEF NothingMissed
<1> DEFINE a == settled[u]
           h == unacked[u]
           s == stored[u]
<1>2. /\ u \in Threads /\ a \in Seq(Message) /\ h \in Seq(Message) /\ s \in Seq(Message)
      /\ u \in DOMAIN settled /\ u \in DOMAIN unacked /\ u \in DOMAIN stored
      /\ "topic" \in DOMAIN sentLog
  BY <1>1 DEF TypeOK, Destination
<1>3. a \o h \o s = sentLog["topic"] /\ IsConsumer(u) /\ Endpoint(u) # TheQueue
  BY <1>1 DEF NothingMissed, SubscriptionInv
<1>4. Endpoint(u) = u /\ u # TheQueue /\ Endpoint(t) \in {TheQueue, t}
  BY <1>2, <1>3, ConfigKinds DEF TypeOK
<1>5. CASE UNCHANGED brokerVars
  BY <1>3, <1>5 DEF brokerVars
<1>6. ASSUME ~IsConsumer(t), NEW ms \in Seq(From(t)), Arrive(Config(t).kind, ms)
      PROVE  settled'[u] \o unacked'[u] \o stored'[u] = sentLog'["topic"]
  <2>1. ms \in Seq(Message)
    <3>1. From(t) \subseteq Message
      BY DEF From
    <3> QED
      BY <3>1, SeqMonotonic
  <2>2. CASE Config(t).kind = "queue"
    BY <1>2, <1>3, <1>4, <1>6, <2>2 DEF Arrive
  <2>3. CASE Config(t).kind = "topic"
    <3>1. /\ settled'[u] = a /\ unacked'[u] = h /\ stored'[u] = s \o ms
          /\ sentLog'["topic"] = (a \o h \o s) \o ms
      BY <1>2, <1>3, <1>4, <1>6, <2>3 DEF Arrive
    <3> HIDE DEF a, h, s
    <3>2. a \o h \o (s \o ms) = (a \o h \o s) \o ms
      BY <1>2, <2>1, Regroup, SMTT(60)
    <3> QED
      BY <3>1, <3>2
  <2> QED
    BY <1>6, <2>2, <2>3, ConfigKinds DEF Destination, TypeOK
<1>7. CASE u # t /\ (\/ Take(t, Endpoint(t), AutoAcknowledges(t)) \/ Settle(t)
                     \/ EndSession(t, Endpoint(t), Config(t).kind = "durable")
                     \/ RemoveSubscription(t))
  <2>1. stored'[u] = s /\ settled'[u] = a /\ unacked'[u] = h /\ sentLog' = sentLog
    BY <1>1, <1>2, <1>4, <1>7 DEF Frame, Take, Settle, EndSession, RemoveSubscription
  <2> QED
    BY <1>3, <2>1
<1>8. CASE u = t /\ IsConsumer(t) /\ Take(t, Endpoint(t), AutoAcknowledges(t))
  <2>1. s # << >> /\ stored'[u] = Tail(s) /\ sentLog' = sentLog
    BY <1>2, <1>4, <1>8 DEF Take
  <2>2. CASE AutoAcknowledges(t)
    <3>1. h = << >>
      BY <1>2, <1>8, <2>2 DEF PlaceInv, AutoAcknowledges
    <3>2. settled'[u] = Append(a, Head(s)) /\ unacked'[u] = h
      BY <1>2, <1>4, <1>8, <2>2 DEF Take
    <3> HIDE DEF a, h, s
    <3>3. Append(a, Head(s)) \o << >> \o Tail(s) = a \o << >> \o s
      BY <1>2, <2>1, Regroup
    <3> QED
      BY <1>3, <2>1, <3>1, <3>2, <3>3
  <2>3. CASE ~AutoAcknowledges(t)
    <3>1. settled'[u] = a /\ unacked'[u] = Append(h, Head(s))
      BY <1>2, <1>4, <1>8, <2>3 DEF Take
    <3> HIDE DEF a, h, s
    <3>2. a \o Append(h, Head(s)) \o Tail(s) = a \o h \o s
      BY <1>2, <2>1, Regroup, ZenonT(60)
    <3>3. a \o h \o s = sentLog'["topic"]
      BY <1>3, <2>1
    <3> QED
      BY <2>1, <3>1, <3>2, <3>3
  <2> QED
    BY <2>2, <2>3
<1>9. CASE u = t /\ Settle(t)
  <2>1. settled'[u] = a \o h /\ unacked'[u] = << >> /\ stored'[u] = s /\ sentLog' = sentLog
    BY <1>2, <1>9 DEF Settle
  <2> HIDE DEF a, h, s
  <2> QED
    BY <1>2, <1>3, <2>1, Regroup
<1>10. CASE u = t /\ EndSession(t, Endpoint(t), Config(t).kind = "durable")
  <2>1. /\ settled'[u] = a /\ unacked'[u] = << >> /\ stored'[u] = h \o s
        /\ sentLog' = sentLog
    BY <1>2, <1>4, <1>10 DEF EndSession
  <2> HIDE DEF a, h, s
  <2>2. a \o << >> \o (h \o s) = a \o h \o s
    BY <1>2, Regroup
  <2> QED
    BY <1>3, <2>1, <2>2
<1>11. ~(u = t /\ RemoveSubscription(t))
  BY DEF RemoveSubscription
<1> QED
  BY <1>1, <1>5, <1>6, <1>7, <1>8, <1>9, <1>10, <1>11 DEF Effect

\* and a new subscription has missed nothing of what it is entitled to.
LEMMA NothingMissedStart ==
  ASSUME TypeOK, NewInv, SubscriptionInv, NothingMissed, StartThread
  PROVE  NothingMissed'
<1> DEFINE n == mainAt + 1
<1>1. /\ n \in Threads /\ state[n] = "new" /\ subscribed \subseteq Threads
      /\ UNCHANGED <<settled, unacked, stored, sentLog>>
      /\ subscribed' = IF IsConsumer(n) /\ Endpoint(n) # TheQueue
                         THEN subscribed \cup {n} ELSE subscribed
  BY StartEffect DEF TypeOK
<1> HIDE DEF n
<1>2. ASSUME IsConsumer(n), Endpoint(n) # TheQueue
      PROVE  settled[n] \o unacked[n] \o stored[n] = sentLog["topic"]
  <2>1. /\ settled[n] = << >> /\ unacked[n] = << >> /\ stored[n] = << >>
        /\ sentLog["topic"] = << >>
    BY <1>1, <1>2 DEF NewInv, SubscriptionInv, Destination
  <2>2. << >> \o << >> \o << >> = << >>
    OBVIOUS
  <2> QED
    BY <2>1, <2>2
<1> QED
  BY <1>1, <1>2 DEF NothingMissed

-----------------------------------------------------------------------------
(* The books of the queue *)

\* When one thread's log changes, the total over R changes by that log's change.
LEMMA SumOfLogs ==
  ASSUME test \in Tests, NEW R \in SUBSET Threads, NEW M,
         NEW a \in [Threads -> Seq(Message)], NEW b \in [Threads -> Seq(Message)],
         NEW t \in Threads, \A u \in Threads \ {t} : b[u] = a[u]
  PROVE  /\ CountOf(a, Threads, R, M) \in Nat /\ CountOf(b, Threads, R, M) \in Nat
         /\ t \notin R => CountOf(b, Threads, R, M) = CountOf(a, Threads, R, M)
         /\ t \in R => CountOf(b, Threads, R, M) = CountOf(a, Threads, R, M)
                          - Occurrences(a[t], M) + Occurrences(b[t], M)
<1> DEFINE f == [u \in Threads |-> Occurrences(a[u], M)]
           g == [u \in Threads |-> Occurrences(b[u], M)]
<1>1. IsFiniteSet(R)
  BY ThreadsFinite, FS_Subset
<1>2. \A u \in Threads : /\ Occurrences(a[u], M) \in Nat /\ Occurrences(b[u], M) \in Nat
  BY OccurrencesType
<1>3. \A u \in Threads : f[u] \in Nat /\ g[u] \in Nat
  BY <1>2
<1>4. \A u \in Threads : u # t => g[u] = f[u]
  OBVIOUS
<1>5. f[t] = Occurrences(a[t], M) /\ g[t] = Occurrences(b[t], M)
  OBVIOUS
<1> HIDE DEF f, g
<1>6. SumFunctionOnSet(f, R) \in Nat /\ SumFunctionOnSet(g, R) \in Nat
  <2>1. \A x \in R : f[x] \in Nat /\ g[x] \in Nat
    BY <1>3
  <2> QED
    BY <1>1, <2>1, SumOfNaturals
<1>7. t \notin R => SumFunctionOnSet(g, R) = SumFunctionOnSet(f, R)
  <2>1. t \notin R => \A x \in R : f[x] \in Int /\ g[x] = f[x]
    BY <1>3, <1>4
  <2> QED
    BY <1>1, <2>1, SumSame
<1>8. t \in R => SumFunctionOnSet(g, R) = SumFunctionOnSet(f, R) - f[t] + g[t]
  <2>1. \A y \in R : f[y] \in Int /\ g[y] \in Int /\ (y # t => g[y] = f[y])
    BY <1>3, <1>4
  <2> QED
    BY <1>1, <2>1, SumUpdate
<1>9. CountOf(a, Threads, R, M) = SumFunctionOnSet(f, R)
      /\ CountOf(b, Threads, R, M) = SumFunctionOnSet(g, R)
  BY DEF CountOf, f, g
<1> QED
  BY <1>5, <1>6, <1>7, <1>8, <1>9

\* A step of thread t changes what is held and kept for it only.
LEMMA BooksOf ==
  ASSUME TypeOK, BrokerTypes', NEW t \in Threads, Frame(t), NEW M
  PROVE  /\ Held(M) \in Nat /\ Held(M)' \in Nat /\ Kept(M) \in Nat /\ Kept(M)' \in Nat
         /\ t \notin QueueReceivers => Held(M)' = Held(M) /\ Kept(M)' = Kept(M)
         /\ t \in QueueReceivers =>
              Held(M)' = Held(M) - Occurrences(unacked[t], M) + Occurrences(unacked'[t], M)
         /\ t \in AckReceivers =>
              Kept(M)' = Kept(M) - Occurrences(settled[t], M) + Occurrences(settled'[t], M)
         /\ t \notin AckReceivers => Kept(M)' = Kept(M)
<1>1. /\ test \in Tests /\ Threads' = Threads /\ QueueReceivers' = QueueReceivers
      /\ AckReceivers' = AckReceivers
  BY TestFixed DEF TypeOK, Frame
<1>2. QueueReceivers \in SUBSET Threads /\ AckReceivers \in SUBSET QueueReceivers
  BY DEF QueueReceivers, AckReceivers
<1>3. /\ unacked \in [Threads -> Seq(Message)] /\ unacked' \in [Threads -> Seq(Message)]
      /\ settled \in [Threads -> Seq(Message)] /\ settled' \in [Threads -> Seq(Message)]
  BY <1>1 DEF TypeOK, BrokerTypes
<1>4. \A u \in Threads \ {t} : unacked'[u] = unacked[u] /\ settled'[u] = settled[u]
  BY DEF Frame
<1>5. /\ Held(M)' = CountOf(unacked', Threads, QueueReceivers, M)
      /\ Kept(M)' = CountOf(settled', Threads, AckReceivers, M)
  BY <1>1 DEF Held, Kept
<1>6. ASSUME NEW R \in SUBSET Threads,
             NEW a \in [Threads -> Seq(Message)], NEW b \in [Threads -> Seq(Message)],
             \A u \in Threads \ {t} : b[u] = a[u]
      PROVE  /\ CountOf(a, Threads, R, M) \in Nat /\ CountOf(b, Threads, R, M) \in Nat
             /\ t \notin R => CountOf(b, Threads, R, M) = CountOf(a, Threads, R, M)
             /\ t \in R => CountOf(b, Threads, R, M) = CountOf(a, Threads, R, M)
                              - Occurrences(a[t], M) + Occurrences(b[t], M)
  BY <1>1, <1>6, SumOfLogs
<1>7. /\ Held(M) \in Nat /\ Held(M)' \in Nat
      /\ t \notin QueueReceivers => Held(M)' = Held(M)
      /\ t \in QueueReceivers =>
           Held(M)' = Held(M) - Occurrences(unacked[t], M) + Occurrences(unacked'[t], M)
  <2>1. QueueReceivers \in SUBSET Threads
    BY <1>2
  <2> QED
    BY <1>3, <1>4, <1>5, <1>6, <2>1, ZenonT(60) DEF Held
<1>8. /\ Kept(M) \in Nat /\ Kept(M)' \in Nat
      /\ t \notin AckReceivers => Kept(M)' = Kept(M)
      /\ t \in AckReceivers =>
           Kept(M)' = Kept(M) - Occurrences(settled[t], M) + Occurrences(settled'[t], M)
  <2>1. AckReceivers \in SUBSET Threads
    BY <1>2
  <2> QED
    BY <1>3, <1>4, <1>5, <1>6, <2>1, ZenonT(60) DEF Kept
<1> QED
  BY <1>2, <1>7, <1>8

\* A thread's step neither makes nor loses a message of M on the queue.
LEMMA BalanceStep ==
  ASSUME TypeOK, BatchInv, PlaceInv, NEW t \in Threads, AnyStep(t), NEW M
  PROVE  Balance(M)' = Balance(M)
<1> DEFINE q == stored[TheQueue]
           a == settled[t]
           h == unacked[t]
           l == sentLog["queue"]
<1>1. Frame(t) /\ Effect(t) /\ BrokerTypes'
  BY StepEffect, StepFrame, BrokerTypeStep
<1>2. /\ q \in Seq(Message) /\ a \in Seq(Message) /\ h \in Seq(Message) /\ l \in Seq(Message)
      /\ TheQueue \in DOMAIN stored /\ t \in DOMAIN settled /\ t \in DOMAIN unacked
      /\ "queue" \in DOMAIN sentLog
  BY DEF TypeOK, Destination
<1>3. /\ Occurrences(q, M) \in Nat /\ Occurrences(a, M) \in Nat
      /\ Occurrences(h, M) \in Nat /\ Occurrences(l, M) \in Nat
  BY <1>2, OccurrencesType
<1>4. Occurrences(<< >>, M) = 0
  BY OccurrencesEmpty
<1>5. /\ IsConsumer(t) => (t \in QueueReceivers <=> Endpoint(t) = TheQueue)
      /\ Endpoint(t) \in {TheQueue, t} /\ t # TheQueue
      /\ t \in AckReceivers <=> t \in QueueReceivers /\ Ack(t) # "transacted"
  BY ConfigKinds DEF QueueReceivers, AckReceivers, TypeOK
<1>6. /\ Held(M) \in Nat /\ Held(M)' \in Nat /\ Kept(M) \in Nat /\ Kept(M)' \in Nat
      /\ t \notin QueueReceivers => Held(M)' = Held(M) /\ Kept(M)' = Kept(M)
      /\ t \in QueueReceivers =>
           Held(M)' = Held(M) - Occurrences(h, M) + Occurrences(unacked'[t], M)
      /\ t \in AckReceivers =>
           Kept(M)' = Kept(M) - Occurrences(a, M) + Occurrences(settled'[t], M)
      /\ t \notin AckReceivers => Kept(M)' = Kept(M)
  BY <1>1, BooksOf
<1>7. Balance(M)' = Occurrences(stored'[TheQueue], M) + Held(M)' + Kept(M)'
                      - Occurrences(sentLog'["queue"], M)
  BY DEF Balance
<1>8. Balance(M) = Occurrences(q, M) + Held(M) + Kept(M) - Occurrences(l, M)
  BY DEF Balance
<1> HIDE DEF q, a, h, l
<1> DEFINE Untouched == /\ Occurrences(stored'[TheQueue], M) = Occurrences(q, M)
                        /\ Occurrences(sentLog'["queue"], M) = Occurrences(l, M)
                        /\ unacked'[t] = h /\ settled'[t] = a
<1>9. CASE Untouched
  BY <1>3, <1>5, <1>6, <1>7, <1>8, <1>9
<1>10. CASE UNCHANGED brokerVars
  BY <1>9, <1>10 DEF brokerVars, q, a, h, l
<1>11. ASSUME ~IsConsumer(t), NEW ms \in Seq(From(t)), Arrive(Config(t).kind, ms)
       PROVE  Balance(M)' = Balance(M)
  <2>1. t \notin QueueReceivers
    BY <1>11 DEF QueueReceivers
  <2>2. CASE Config(t).kind = "queue"
    <3>1. ms \in Seq(Message)
      <4>1. From(t) \subseteq Message
        BY DEF From
      <4> QED
        BY <4>1, SeqMonotonic
    <3>2. /\ Occurrences(q \o ms, M) = Occurrences(q, M) + Occurrences(ms, M)
          /\ Occurrences(l \o ms, M) = Occurrences(l, M) + Occurrences(ms, M)
          /\ Occurrences(ms, M) \in Nat
      BY <1>2, <3>1, OccurrencesConcat, OccurrencesType
    <3>3. stored'[TheQueue] = q \o ms /\ sentLog'["queue"] = l \o ms
      BY <1>2, <1>11, <2>2 DEF Arrive, q, l
    <3> QED
      BY <1>3, <1>6, <1>7, <1>8, <2>1, <3>2, <3>3
  <2>3. CASE Config(t).kind = "topic"
    <3>1. Untouched
      <4>1. TheQueue \notin subscribed
        BY ThreadsFinite DEF TypeOK, TheQueue
      <4> QED
        BY <1>2, <1>11, <2>3, <4>1 DEF Arrive, q, l, a, h
    <3> QED
      BY <1>9, <3>1
  <2> QED
    BY <1>11, <2>2, <2>3, ConfigKinds DEF Destination, TypeOK
<1>12. ASSUME IsConsumer(t), Take(t, Endpoint(t), AutoAcknowledges(t))
       PROVE  Balance(M)' = Balance(M)
  <2>1. CASE Endpoint(t) = TheQueue
    <3> DEFINE one == IF Head(q) \in M THEN 1 ELSE 0
    <3>1. q # << >> /\ stored'[TheQueue] = Tail(q) /\ sentLog'["queue"] = l
      BY <1>2, <1>12, <2>1 DEF Take, q, l
    <3>2. Head(q) \in Message /\ Occurrences(Tail(q), M) = Occurrences(q, M) - one
      BY <1>2, <3>1, OccurrencesTail
    <3>3. /\ Occurrences(Append(a, Head(q)), M) = Occurrences(a, M) + one
          /\ Occurrences(Append(h, Head(q)), M) = Occurrences(h, M) + one
      BY <1>2, <3>2, OccurrencesAppend
    <3>4. one \in Int
      OBVIOUS
    <3> HIDE DEF one
    <3>7. /\ Occurrences(stored'[TheQueue], M) = Occurrences(q, M) - one
           /\ Occurrences(sentLog'["queue"], M) = Occurrences(l, M)
      BY <3>1, <3>2
    <3>5. CASE AutoAcknowledges(t)
      <4>1. settled'[t] = Append(a, Head(q)) /\ unacked'[t] = h
        BY <1>2, <1>12, <2>1, <3>5 DEF Take, q, a, h
      <4>2. t \in AckReceivers /\ t \in QueueReceivers
        BY <1>5, <1>12, <2>1, <3>5 DEF AutoAcknowledges
      <4>3. /\ Occurrences(settled'[t], M) = Occurrences(a, M) + one
            /\ Occurrences(unacked'[t], M) = Occurrences(h, M)
        BY <3>3, <4>1
      <4> QED
        BY <1>3, <1>6, <1>7, <1>8, <3>7, <3>4, <4>2, <4>3
    <3>6. CASE ~AutoAcknowledges(t)
      <4>1. unacked'[t] = Append(h, Head(q)) /\ settled'[t] = a
        BY <1>2, <1>12, <2>1, <3>6 DEF Take, q, a, h
      <4>2. t \in QueueReceivers
        BY <1>5, <1>12, <2>1
      <4>3. /\ Occurrences(unacked'[t], M) = Occurrences(h, M) + one
            /\ Occurrences(settled'[t], M) = Occurrences(a, M)
        BY <3>3, <4>1
      <4> QED
        BY <1>3, <1>6, <1>7, <1>8, <3>7, <3>4, <4>2, <4>3
    <3> QED
      BY <3>5, <3>6
  <2>2. CASE Endpoint(t) # TheQueue
    <3>1. t \notin QueueReceivers /\ stored'[TheQueue] = q /\ sentLog'["queue"] = l
      BY <1>2, <1>5, <1>12, <2>2 DEF Take, q, l
    <3> QED
      BY <1>3, <1>6, <1>7, <1>8, <3>1
  <2> QED
    BY <2>1, <2>2
<1>13. ASSUME IsConsumer(t), state[t] = "ack", Settle(t)
       PROVE  Balance(M)' = Balance(M)
  <2>1. Ack(t) = "client"
    BY <1>13 DEF PlaceInv
  <2>2. /\ settled'[t] = a \o h /\ unacked'[t] = << >> /\ stored'[TheQueue] = q
        /\ sentLog'["queue"] = l
    BY <1>2, <1>13 DEF Settle, q, a, h, l
  <2>3. Occurrences(a \o h, M) = Occurrences(a, M) + Occurrences(h, M)
    BY <1>2, OccurrencesConcat
  <2>6. /\ Occurrences(settled'[t], M) = Occurrences(a, M) + Occurrences(h, M)
        /\ Occurrences(unacked'[t], M) = 0
        /\ Occurrences(stored'[TheQueue], M) = Occurrences(q, M)
        /\ Occurrences(sentLog'["queue"], M) = Occurrences(l, M)
    BY <2>2, <2>3, OccurrencesEmpty
  <2>4. CASE t \in QueueReceivers
    <3>1. t \in AckReceivers
      BY <1>5, <2>1, <2>4
    <3> HIDE DEF a, h, q, l
    <3> QED
      BY <1>3, <1>6, <1>7, <1>8, <2>4, <2>6, <3>1
  <2>5. CASE t \notin QueueReceivers
    BY <1>3, <1>6, <1>7, <1>8, <2>2, <2>5
  <2> QED
    BY <2>4, <2>5
<1>14. ASSUME IsConsumer(t), EndSession(t, Endpoint(t), Config(t).kind = "durable")
       PROVE  Balance(M)' = Balance(M)
  <2>1. unacked'[t] = << >> /\ settled'[t] = a /\ sentLog'["queue"] = l
    BY <1>2, <1>14 DEF EndSession, a, l
  <2>2. CASE Endpoint(t) = TheQueue
    <3>1. stored'[TheQueue] = h \o q
      BY <1>2, <1>14, <2>2 DEF EndSession, h, q
    <3>2. Occurrences(h \o q, M) = Occurrences(h, M) + Occurrences(q, M)
      BY <1>2, OccurrencesConcat
    <3>3. t \in QueueReceivers
      BY <1>5, <1>14, <2>2
    <3>4. /\ Occurrences(stored'[TheQueue], M) = Occurrences(h, M) + Occurrences(q, M)
          /\ Occurrences(unacked'[t], M) = 0 /\ Occurrences(settled'[t], M) = Occurrences(a, M)
          /\ Occurrences(sentLog'["queue"], M) = Occurrences(l, M)
      BY <1>4, <2>1, <3>1, <3>2
    <3> QED
      BY <1>3, <1>6, <1>7, <1>8, <3>3, <3>4
  <2>3. CASE Endpoint(t) # TheQueue
    <3>1. t \notin QueueReceivers /\ stored'[TheQueue] = q
      BY <1>2, <1>5, <1>14, <2>3 DEF EndSession, q
    <3> QED
      BY <1>3, <1>6, <1>7, <1>8, <2>1, <3>1
  <2> QED
    BY <2>2, <2>3
<1>15. ASSUME IsConsumer(t), Config(t).kind = "durable", RemoveSubscription(t)
       PROVE  Balance(M)' = Balance(M)
  <2>1. t \notin QueueReceivers /\ stored'[TheQueue] = q /\ sentLog'["queue"] = l
    BY <1>2, <1>5, <1>15 DEF RemoveSubscription, QueueReceivers, q, l
  <2> QED
    BY <1>3, <1>6, <1>7, <1>8, <2>1
<1> QED
  BY <1>1, <1>10, <1>11, <1>12, <1>13, <1>14, <1>15 DEF Effect

-----------------------------------------------------------------------------
(* Loops *)

\* A plain publisher's or consumer's int counter stays with its count,
LEMMA LoopStep ==
  ASSUME TypeOK, BatchInv, LoopInv, NEW t \in Threads, AnyStep(t)
  PROVE  LoopInv'
<1>1. /\ Frame(t) /\ Threads' = Threads
      /\ \A u : Config(u)' = Config(u) /\ IsTransactional(u)' = IsTransactional(u)
  BY StepFrame, TestFixed DEF Frame
<1>2. ASSUME NEW u \in Threads \ {t}, ~IsTransactional(u) PROVE LoopOf(u)'
  BY <1>1, <1>2 DEF LoopInv, LoopOf, Frame
<1>3. ASSUME ~IsTransactional(t) PROVE LoopOf(t)'
  <2> DEFINE c == Config(t).count
  <2>1. /\ c \in Nat /\ IntMax \in Nat \ {0} /\ i[t] \in (-IntMax - 1)..IntMax
        /\ counted[t] \in Nat
        /\ t \in DOMAIN i /\ t \in DOMAIN counted /\ t \in DOMAIN state
    BY ConfigKinds, ClientAssumption DEF ClientAssumption, TypeOK
  <2>2. LoopOf(t)
    BY <1>3 DEF LoopInv
  <2>3. Config(t)' = Config(t)
    BY <1>1
  <2>4. ASSUME EndIteration(t) PROVE LoopOf(t)'
    <3>1. /\ state[t] = "count" /\ state'[t] \in {"loop", "failed"}
          /\ counted'[t] = counted[t] + 1 /\ i'[t] = Next32(i[t])
      BY <2>1, <2>4 DEF EndIteration, Goes
    <3> HIDE DEF c
    <3>2. CASE c < IntMax
      <4>1. i[t] = counted[t] + 1 /\ counted[t] < c
        BY <2>2, <3>1, <3>2 DEF LoopOf, c
      <4>2. i'[t] = counted'[t] + 1 /\ counted'[t] <= c
        BY <2>1, <3>1, <3>2, <4>1 DEF Next32
      <4> QED
        BY <2>3, <3>1, <3>2, <4>2 DEF LoopOf, c
    <3>3. CASE ~(c < IntMax)
      BY <2>3, <3>1, <3>3 DEF LoopOf, c
    <3> QED
      BY <3>2, <3>3
  <2>5. ASSUME i'[t] = i[t], counted'[t] = counted[t],
               state'[t] \in {"failed", "dead", "loop"}
        PROVE  LoopOf(t)'
    BY <2>2, <2>3, <2>5 DEF LoopOf
  <2>6. ASSUME i'[t] = i[t], counted'[t] = counted[t], InLoop(t),
               state'[t] \in {"ack", "count"}
        PROVE  LoopOf(t)'
    BY <2>1, <2>2, <2>3, <2>6 DEF LoopOf, InLoop
  <2>7. ASSUME i'[t] = i[t], counted'[t] = counted[t], ~InLoop(t),
               state'[t] \in {"unsubscribe", "close"}
        PROVE  LoopOf(t)'
    BY <2>1, <2>2, <2>3, <2>7 DEF LoopOf, InLoop
  <2> HIDE DEF c
  <2>8. CASE SendNext(t)
    <3>1. /\ i'[t] = i[t] /\ counted'[t] = counted[t] /\ InLoop(t)
          /\ state'[t] \in {"count", "failed"}
      BY <2>1, <2>8 DEF SendNext, Goes
    <3> QED
      BY <2>5, <2>6, <3>1
  <2>9. CASE CountSent(t)
    BY <2>4, <2>9 DEF CountSent
  <2>10. ~BatchPublishStep(t) /\ ~BatchStep(t)
    BY <1>3, HandlerLeaves DEF BatchPublishStep, ShutdownDrained, ShutdownTimesOut
  <2>11. CASE PublisherLoopEnds(t)
    <3>1. /\ i'[t] = i[t] /\ counted'[t] = counted[t] /\ ~InLoop(t) /\ state'[t] = "close"
      BY <1>3, <2>1, <2>11 DEF PublisherLoopEnds, Goes, IsPlain, IsTransactional
    <3> QED
      BY <2>7, <3>1
  <2>12. CASE Receive(t)
    <3>1. /\ i'[t] = i[t] /\ counted'[t] = counted[t] /\ InLoop(t)
          /\ state'[t] \in {"ack", "count"}
      BY <2>1, <2>12 DEF Receive, Goes
    <3> QED
      BY <2>6, <3>1
  <2>13. CASE ReceiveFails(t)
    <3>1. i'[t] = i[t] /\ counted'[t] = counted[t] /\ state'[t] \in {"failed", "dead"}
      BY <2>1, <2>13 DEF ReceiveFails, Goes
    <3> QED
      BY <2>5, <3>1
  <2>14. CASE Acknowledge(t)
    <3>1. /\ i'[t] = i[t] /\ counted'[t] = counted[t]
          /\ state[t] = "ack" /\ state'[t] \in {"count", "failed"}
      BY <2>1, <2>14 DEF Acknowledge, Goes
    <3> QED
      BY <2>2, <2>3, <3>1 DEF LoopOf
  <2>15. CASE CountReceived(t)
    <3>1. CASE hand[t] = Foreign
      <4>1. i'[t] = i[t] /\ counted'[t] = counted[t] /\ state'[t] = "dead"
        BY <2>1, <2>15, <3>1 DEF CountReceived, Goes
      <4> QED
        BY <2>5, <4>1
    <3>2. CASE hand[t] # Foreign
      BY <2>4, <2>15, <3>2 DEF CountReceived
    <3> QED
      BY <3>1, <3>2
  <2>16. CASE ConsumerLoopEnds(t)
    <3>1. /\ i'[t] = i[t] /\ counted'[t] = counted[t] /\ ~InLoop(t)
          /\ state'[t] \in {"unsubscribe", "close"}
      BY <2>1, <2>16 DEF ConsumerLoopEnds, Goes
    <3> QED
      BY <2>7, <3>1
  <2>17. CASE Unsubscribe(t)
    <3>1. /\ i'[t] = i[t] /\ counted'[t] = counted[t]
          /\ state[t] = "unsubscribe" /\ state'[t] \in {"close", "failed"}
      BY <2>1, <2>17 DEF Unsubscribe, Goes
    <3> QED
      BY <2>2, <2>3, <3>1 DEF LoopOf
  <2>18. CASE CloseNext(t)
    <3>1. /\ i'[t] = i[t] /\ counted'[t] = counted[t]
          /\ state[t] = "close" /\ state'[t] \in {"close", "ended", "failed"}
      BY <2>1, <2>18 DEF CloseNext, Goes
    <3> QED
      BY <2>2, <2>3, <3>1 DEF LoopOf
  <2> QED
    BY <2>8, <2>9, <2>10, <2>11, <2>12, <2>13, <2>14, <2>15, <2>16, <2>17, <2>18
       DEF AnyStep, ThreadStep, PublishStep, ConsumeStep
<1> QED
  BY <1>1, <1>2, <1>3 DEF LoopInv

\* and a transactional one's list with its handler.
LEMMA BatchListStep ==
  ASSUME TypeOK, PlaceInv, BatchInv, NEW t \in Threads, AnyStep(t)
  PROVE  BatchInv'
<1>1. /\ Frame(t) /\ Threads' = Threads
      /\ \A u : Config(u)' = Config(u) /\ IsTransactional(u)' = IsTransactional(u)
  BY StepFrame, TestFixed DEF Frame
<1>2. ASSUME NEW u \in Threads \ {t}, IsTransactional(u) PROVE BatchOf(u)'
  <2>1. /\ i'[u] = i[u] /\ counted'[u] = counted[u] /\ handler'[u] = handler[u]
        /\ faults' = 0 => faults = 0
    BY <1>1 DEF Frame
  <2>2. BatchOf(u) /\ Config(u)' = Config(u) /\ Listed(u)' = Listed(u)
    BY <1>1, <1>2, <2>1 DEF BatchInv, Listed
  <2> QED
    BY <2>1, <2>2 DEF BatchOf
<1>3. ASSUME IsTransactional(t) PROVE BatchOf(t)'
  <2> DEFINE a == Config(t).count
             b == Config(t).batch
             c == counted[t]
  <2>1. /\ i[t] \in Int /\ c \in Nat /\ a \in Nat /\ b \in Nat
        /\ t \in DOMAIN i /\ t \in DOMAIN counted /\ t \in DOMAIN handler
    BY <1>3, ConfigKinds, ClientAssumption DEF ClientAssumption, TypeOK, IsTransactional
  <2>2. BatchOf(t)
    BY <1>3 DEF BatchInv
  <2>3. Config(t)'.count = a /\ Config(t)'.batch = b /\ Listed(t) = i[t] - 1 - c
        /\ Listed(t)' = i'[t] - 1 - counted'[t]
    BY <1>1 DEF Listed
  <2>4. /\ i[t] <= a + 1 /\ i[t] - 1 - c >= 0
        /\ handler[t] \in {"close", "resendClose", "drained", "exited"} => i[t] = a + 1
        /\ handler[t] = "commit" => i[t] - 1 - c = b
        /\ b > 0 => \/ i[t] - 1 - c < b
                    \/ i[t] - 1 - c = b /\ handler[t] \in {"commit", "resend"}
        /\ faults = 0 => /\ handler[t] \notin {"resend", "resendClose"}
                         /\ \E k \in Nat : c = k * b
    BY <2>2, <2>3 DEF BatchOf
  <2> HIDE DEF a, b, c
  <2> SUFFICES
        /\ i'[t] <= a + 1 /\ i'[t] - 1 - counted'[t] >= 0
        /\ handler'[t] \in {"close", "resendClose", "drained", "exited"} => i'[t] = a + 1
        /\ handler'[t] = "commit" => i'[t] - 1 - counted'[t] = b
        /\ b > 0 => \/ i'[t] - 1 - counted'[t] < b
                    \/ i'[t] - 1 - counted'[t] = b /\ handler'[t] \in {"commit", "resend"}
        /\ faults' = 0 => /\ handler'[t] \notin {"resend", "resendClose"}
                          /\ \E k \in Nat : counted'[t] = k * b
    BY <2>3 DEF BatchOf
  <2>5. CASE EventTaken(t)
    <3>1. /\ i[t] <= a /\ i'[t] = i[t] + 1 /\ counted'[t] = c /\ handler[t] = "onEvent"
          /\ \/ handler'[t] = IF i[t] - c = b THEN "commit" ELSE "onEvent"
             \/ handler'[t] = "resend" /\ faults' # 0
      BY <2>1, <2>5 DEF EventTaken, InLoop, BatchFull, a, b, c
    <3>2. faults' = 0 => faults = 0
      BY <1>1 DEF Frame
    <3> QED
      BY <2>1, <2>4, <3>1, <3>2
  <2>6. CASE ListCommitted(t)
    <3>1. /\ i'[t] = i[t] /\ counted'[t] = i[t] - 1 /\ faults' = faults
          /\ \/ handler[t] \in {"commit", "resend"} /\ handler'[t] = "onEvent"
             \/ handler[t] = "resendClose" /\ handler'[t] = "drained"
      BY <2>1, <2>6 DEF ListCommitted
    <3>2. ASSUME faults' = 0 PROVE \E k \in Nat : counted'[t] = k * b
      <4>1. handler[t] = "commit" /\ i[t] - 1 - c = b
        BY <2>4, <3>1, <3>2
      <4>2. PICK k \in Nat : c = k * b
        BY <2>4, <3>1, <3>2
      <4>3. (k + 1) * b = k * b + b
        BY <2>1
      <4>4. counted'[t] = c + b
        BY <2>1, <3>1, <4>1
      <4>5. counted'[t] = (k + 1) * b
        BY <4>2, <4>3, <4>4
      <4> QED
        BY <4>5
    <3>3. i'[t] - 1 - counted'[t] = 0 /\ handler'[t] \in {"onEvent", "drained"}
      BY <2>1, <3>1
    <3>4. i'[t] <= a + 1 /\ (handler'[t] = "drained" => i'[t] = a + 1)
      BY <2>4, <3>1
    <3> QED
      BY <2>1, <3>2, <3>3, <3>4
  <2>7. CASE CallFailed(t)
    <3>1. /\ i'[t] = i[t] /\ counted'[t] = c /\ faults' # 0
          /\ \/ handler[t] \in {"commit", "resend"} /\ handler'[t] = "resend"
             \/ handler[t] = "onEvent" /\ i[t] > a /\ handler'[t] = "resendClose"
             \/ handler[t] \in {"close", "resendClose"} /\ handler'[t] = "resendClose"
      BY <2>1, <2>7 DEF CallFailed, InLoop, a, c
    <3> QED
      BY <2>1, <2>4, <3>1
  <2>8. CASE HandlerMoved(t)
    <3>1. /\ i'[t] = i[t] /\ counted'[t] = c /\ faults' = faults
          /\ \/ handler[t] = "onEvent" /\ i[t] > a /\ handler'[t] = "close"
             \/ handler[t] = "close" /\ handler'[t] \in {"close", "drained"}
      BY <2>1, <2>8 DEF HandlerMoved, InLoop, a, c
    <3> QED
      BY <2>1, <2>4, <3>1
  <2>9. CASE BatchPublishStep(t)
    <3>1. /\ i'[t] = i[t] /\ counted'[t] = c /\ faults' = faults
          /\ \/ handler'[t] = handler[t]
             \/ handler[t] = "drained" /\ handler'[t] = "exited"
      BY <2>1, <2>9 DEF BatchPublishStep, ShutdownDrained, ShutdownTimesOut, c
    <3> QED
      BY <2>1, <2>4, <3>1
  <2>10. ~IsPlain(t) /\ ~IsConsumer(t) /\ state[t] # "close"
    BY <1>3 DEF IsPlain, IsTransactional, PlaceInv
  <2>11. ~PublishStep(t) /\ ~ConsumeStep(t) /\ ~CloseNext(t)
    BY <2>10
       DEF PublishStep, ConsumeStep, SendNext, CountSent, PublisherLoopEnds, Receive,
           ReceiveFails, Acknowledge, CountReceived, ConsumerLoopEnds, Unsubscribe,
           CloseNext, Goes
  <2> QED
    BY <2>5, <2>6, <2>7, <2>8, <2>9, <2>11, HandlerCases DEF AnyStep, ThreadStep, Handled
<1> QED
  BY <1>1, <1>2, <1>3 DEF BatchInv

\* A started thread begins with both.
LEMMA LoopsStart ==
  ASSUME TypeOK, LoopInv, BatchInv, StartThread
  PROVE  LoopInv' /\ BatchInv'
<1>1. /\ Threads' = Threads /\ UNCHANGED <<i, counted, handler, faults>>
      /\ \A u : Config(u)' = Config(u) /\ IsTransactional(u)' = IsTransactional(u)
  BY StartEffect, TestFixed
<1>2. \A u \in Threads : state'[u] = state[u] \/ state'[u] = "loop"
  BY StartEffect DEF TypeOK
<1>3. ASSUME NEW u \in Threads, ~IsTransactional(u) PROVE LoopOf(u)'
  BY <1>1, <1>2, <1>3 DEF LoopInv, LoopOf
<1>4. ASSUME NEW u \in Threads, IsTransactional(u) PROVE BatchOf(u)'
  BY <1>1, <1>4 DEF BatchInv, BatchOf, Listed
<1> QED
  BY <1>1, <1>3, <1>4 DEF LoopInv, BatchInv

-----------------------------------------------------------------------------
(* What the publishers send *)

\* What the broker has of a publisher, as a count of occurrences.
LEMMA SentByIs ==
  ASSUME test \in Tests, sentLog \in [Destination -> Seq(Message)],
         NEW t \in Threads, ~IsConsumer(t)
  PROVE  /\ Config(t).kind \in Destination
         /\ SentBy(t) = Occurrences(sentLog[Config(t).kind], From(t)) /\ SentBy(t) \in Nat
<1> DEFINE s == sentLog[Config(t).kind]
<1>1. Config(t).kind \in Destination
  BY ConfigKinds
<1>2. s \in Seq(Message)
  BY <1>1
<1>3. {n \in DOMAIN s : s[n].from = t} = {n \in DOMAIN s : s[n] \in From(t)}
  BY <1>2, LenProperties, ElementOfSeq DEF From
<1>4. SentBy(t) = Occurrences(s, From(t))
  BY <1>3 DEF SentBy, Occurrences
<1>5. Occurrences(s, From(t)) \in Nat
  BY <1>2, OccurrencesType
<1> QED
  BY <1>1, <1>4, <1>5

\* Sending changes one publisher's account, by what it sends.
LEMMA Sending ==
  ASSUME TypeOK, BrokerTypes', test' = test, NEW t \in Threads, ~IsConsumer(t),
         NEW ms \in Seq(From(t)), Arrive(Config(t).kind, ms)
  PROVE  /\ Len(ms) \in Nat /\ SentBy(t) \in Nat /\ SentBy(t)' = SentBy(t) + Len(ms)
         /\ \A u \in Threads \ {t} : ~IsConsumer(u) => SentBy(u)' = SentBy(u)
         /\ \A d \in Destination : Len(sentLog[d]) \in Nat
         /\ \A d \in Destination :
              Len(sentLog'[d]) = Len(sentLog[d]) + IF d = Config(t).kind THEN Len(ms) ELSE 0
<1> DEFINE k == Config(t).kind
<1>1. /\ test \in Tests /\ Threads' = Threads
      /\ \A u : Config(u)' = Config(u) /\ IsConsumer(u)' = IsConsumer(u)
      /\ sentLog \in [Destination -> Seq(Message)] /\ sentLog' \in [Destination -> Seq(Message)]
  BY TestFixed DEF TypeOK, BrokerTypes
<1>2. k \in Destination
  BY <1>1, ConfigKinds
<1>3. sentLog' = [sentLog EXCEPT ![k] = @ \o ms]
  BY DEF Arrive
<1>4. ms \in Seq(Message) /\ Len(ms) \in Nat /\ \A n \in 1..Len(ms) : ms[n] \in From(t)
  <2>1. From(t) \subseteq Message
    BY DEF From
  <2> QED
    BY <2>1, SeqMonotonic, LenProperties, ElementOfSeq
<1> HIDE DEF k
<1>5. ASSUME NEW u \in Threads, ~IsConsumer(u)
      PROVE  SentBy(u)' = Occurrences(sentLog'[Config(u).kind], From(u))
  <2>1. test' \in Tests /\ sentLog' \in [Destination -> Seq(Message)] /\ u \in Threads' /\ ~IsConsumer(u)'
    BY <1>1, <1>5
  <2>2. sentLog'[Config(u).kind] \in Seq(Message)
    BY <1>1, <1>5, ConfigKinds
  <2> DEFINE s == sentLog'[Config(u).kind]
  <2>3. {n \in DOMAIN s : s[n].from = u} = {n \in DOMAIN s : s[n] \in From(u)}
    BY <2>2, LenProperties, ElementOfSeq DEF From
  <2> QED
    BY <1>1, <2>3 DEF SentBy, Occurrences
<1>6. ASSUME NEW u \in Threads, NEW s \in Seq(Message)
      PROVE  Occurrences(s \o ms, From(u)) = Occurrences(s, From(u))
                                               + IF u = t THEN Len(ms) ELSE 0
  <2>1. Occurrences(s \o ms, From(u)) = Occurrences(s, From(u)) + Occurrences(ms, From(u))
    BY <1>4, OccurrencesConcat
  <2>2. Occurrences(ms, From(u)) = IF u = t THEN Len(ms) ELSE 0
    <3>1. CASE u = t
      BY <1>4, <3>1, OccurrencesType
    <3>2. CASE u # t
      <4>1. \A n \in 1..Len(ms) : ms[n] \notin From(u)
        BY <1>4, <3>2 DEF From
      <4> QED
        BY <1>4, <3>2, <4>1, OccurrencesType
    <3> QED
      BY <3>1, <3>2
  <2> QED
    BY <2>1, <2>2
<1>7. ASSUME NEW u \in Threads, ~IsConsumer(u)
      PROVE  SentBy(u) \in Nat /\ SentBy(u)' = SentBy(u) + IF u = t THEN Len(ms) ELSE 0
  <2>1. /\ SentBy(u) = Occurrences(sentLog[Config(u).kind], From(u))
        /\ SentBy(u) \in Nat /\ Config(u).kind \in Destination
    BY <1>1, <1>7, SentByIs
  <2>2. CASE Config(u).kind = k
    <3>1. sentLog'[Config(u).kind] = sentLog[Config(u).kind] \o ms
      BY <1>1, <1>2, <1>3, <2>2
    <3>2. sentLog[Config(u).kind] \in Seq(Message)
      BY <1>1, <2>1
    <3> QED
      BY <1>5, <1>6, <1>7, <2>1, <3>1, <3>2
  <2>3. CASE Config(u).kind # k
    <3>1. sentLog'[Config(u).kind] = sentLog[Config(u).kind] /\ u # t
      BY <1>1, <1>2, <1>3, <2>1, <2>3 DEF k
    <3> QED
      BY <1>5, <1>7, <2>1, <3>1
  <2> QED
    BY <2>2, <2>3
<1>8. ASSUME NEW d \in Destination
      PROVE  /\ Len(sentLog[d]) \in Nat
             /\ Len(sentLog'[d]) = Len(sentLog[d]) + IF d = k THEN Len(ms) ELSE 0
  <2>1. sentLog[d] \in Seq(Message) /\ Len(sentLog[d]) \in Nat
    BY <1>1, LenProperties
  <2>2. Len(sentLog[d] \o ms) = Len(sentLog[d]) + Len(ms)
    BY <1>4, <2>1, ConcatProperties
  <2>3. CASE d = k
    <3>1. sentLog'[d] = sentLog[d] \o ms
      BY <1>1, <1>3, <2>3
    <3> QED
      BY <2>1, <2>2, <2>3, <3>1
  <2>4. CASE d # k
    <3>1. sentLog'[d] = sentLog[d]
      BY <1>1, <1>3, <2>4
    <3> QED
      BY <2>1, <2>4, <3>1
  <2> QED
    BY <2>3, <2>4
<1>9. SentBy(t) \in Nat /\ SentBy(t)' = SentBy(t) + Len(ms)
  BY <1>7
<1>10. \A u \in Threads \ {t} : ~IsConsumer(u) => SentBy(u)' = SentBy(u)
  BY <1>7
<1> QED
  BY <1>4, <1>8, <1>9, <1>10 DEF k

\* If no log of the broker changes, nobody has sent more.
LEMMA NothingSent ==
  ASSUME test' = test, sentLog' = sentLog
  PROVE  (\A u : SentBy(u)' = SentBy(u)) /\ (\A d : Sent(d)' = Sent(d))
<1>1. /\ Threads' = Threads /\ \A d : PublishersOf(d)' = PublishersOf(d)
      /\ \A u : Config(u)' = Config(u)
  BY TestFixed
<1>2. \A u : SentBy(u)' = SentBy(u)
  BY <1>1 DEF SentBy
<1>3. \A d : Sent(d)' = Sent(d)
  BY <1>1, <1>2 DEF Sent
<1> QED
  BY <1>2, <1>3

\* The length of a destination's log is the sum of what its publishers sent.
LEMMA SentTotal ==
  ASSUME TypeOK, BrokerTypes', test' = test, NEW t \in Threads, ~IsConsumer(t),
         NEW ms \in Seq(From(t)), Arrive(Config(t).kind, ms),
         \A d \in Destination : Len(sentLog[d]) = Sent(d)
  PROVE  \A d \in Destination : Len(sentLog'[d]) = Sent(d)'
<1> TAKE d \in Destination
<1> DEFINE f == [u \in Threads |-> SentBy(u)]
           g == [u \in Threads |-> SentBy(u)']
           P == PublishersOf(d)
<1>1. /\ Len(ms) \in Nat /\ SentBy(t) \in Nat /\ SentBy(t)' = SentBy(t) + Len(ms)
      /\ \A u \in Threads \ {t} : ~IsConsumer(u) => SentBy(u)' = SentBy(u)
      /\ Len(sentLog[d]) \in Nat
      /\ Len(sentLog'[d]) = Len(sentLog[d]) + IF d = Config(t).kind THEN Len(ms) ELSE 0
  BY Sending
<1>2. P \in SUBSET Threads /\ IsFiniteSet(P) /\ \A u \in P : ~IsConsumer(u)
  <2>1. P \in SUBSET Threads /\ \A u \in P : ~IsConsumer(u)
    BY DEF PublishersOf
  <2> QED
    BY <2>1, ThreadsFinite, FS_Subset DEF TypeOK
<1>3. \A u \in P : SentBy(u) \in Nat
  BY <1>2, SentByIs DEF TypeOK
<1>4. Sent(d) = SumFunctionOnSet(f, P) /\ Sent(d)' = SumFunctionOnSet(g, P)
  BY TestFixed DEF Sent
<1>5. \A u \in P : /\ f[u] \in Int /\ g[u] \in Int
                   /\ (u # t => g[u] = f[u])
  BY <1>1, <1>2, <1>3
<1>6. t \in P => f[t] = SentBy(t) /\ g[t] = SentBy(t) + Len(ms)
  BY <1>1, <1>2
<1>7. t \in P <=> d = Config(t).kind
  BY DEF PublishersOf
<1> HIDE DEF f, g, P
<1>8. CASE t \in P
  <2>1. SumFunctionOnSet(g, P) = SumFunctionOnSet(f, P) - f[t] + g[t]
    BY <1>2, <1>5, <1>8, SumUpdate
  <2>2. SumFunctionOnSet(f, P) \in Int
    BY <1>2, <1>5, SumType
  <2>3. Sent(d)' = Sent(d) + Len(ms)
    BY <1>1, <1>4, <1>6, <1>8, <2>1, <2>2
  <2> QED
    BY <1>1, <1>7, <1>8, <2>3
<1>9. CASE t \notin P
  <2>1. SumFunctionOnSet(g, P) = SumFunctionOnSet(f, P)
    <3>1. \A u \in P : f[u] \in Int /\ g[u] = f[u]
      BY <1>5, <1>9
    <3> QED
      BY <1>2, <3>1, SumSame
  <2> QED
    <3>1. Len(sentLog'[d]) = Len(sentLog[d])
      <4>1. d # Config(t).kind
        BY <1>7, <1>9
      <4>2. Len(sentLog'[d]) = Len(sentLog[d]) + 0 /\ Len(sentLog[d]) \in Nat
        BY <1>1, <4>1
      <4> QED
        BY <4>2
    <3>2. Len(sentLog[d]) = Sent(d)
      OBVIOUS
    <3> QED
      BY <1>4, <2>1, <3>1, <3>2
<1> QED
  BY <1>8, <1>9

\* The publishers' counters agree with the broker when a thread steps,
LEMMA SentStep ==
  ASSUME TypeOK, PlaceInv, BatchInv, SentInv, NEW t \in Threads, AnyStep(t)
  PROVE  SentInv'
<1>1. /\ Frame(t) /\ Effect(t) /\ BrokerTypes' /\ test' = test /\ Threads' = Threads
      /\ \A u : IsConsumer(u)' = IsConsumer(u) /\ IsTransactional(u)' = IsTransactional(u)
  BY StepEffect, StepFrame, BrokerTypeStep, TestFixed
<1>2. /\ \A d \in Destination : Len(sentLog'[d]) = Sent(d)'
      /\ \A u \in Threads \ {t} : ~IsConsumer(u) => SentBy(u)' = SentBy(u)
  <2>1. CASE sentLog' = sentLog
    BY <1>1, <2>1, NothingSent DEF SentInv
  <2>2. ASSUME ~IsConsumer(t), NEW ms \in Seq(From(t)), Arrive(Config(t).kind, ms)
        PROVE  /\ \A d \in Destination : Len(sentLog'[d]) = Sent(d)'
               /\ \A u \in Threads \ {t} : ~IsConsumer(u) => SentBy(u)' = SentBy(u)
    BY <1>1, <2>2, Sending, SentTotal DEF SentInv
  <2> QED
    BY <1>1, <2>1, <2>2 DEF Effect, Take, Settle, EndSession, RemoveSubscription, brokerVars
<1>3. ASSUME NEW u \in Threads \ {t}, ~IsConsumer(u) PROVE SentOf(u)'
  BY <1>1, <1>2, <1>3 DEF SentInv, SentOf, Frame
<1>4. ASSUME IsPlain(t) PROVE SentOf(t)'
  <2>0. ~IsConsumer(t) /\ ~IsTransactional(t) /\ ~IsTransactional(t)'
    BY <1>1, <1>4 DEF IsPlain, IsTransactional
  <2>1. /\ SentOf(t) /\ SentBy(t) \in Nat /\ counted[t] \in Nat
        /\ t \in DOMAIN counted /\ t \in DOMAIN state /\ t \in Nat /\ i[t] \in Int
    BY <2>0, SentByIs, ThreadsFinite, ClientAssumption DEF SentInv, TypeOK, ClientAssumption
  <2>2. UNCHANGED brokerVars => SentBy(t)' = SentBy(t)
    BY <1>1, NothingSent DEF brokerVars
  <2>3. ASSUME NEW ms \in Seq(From(t)), Arrive(Config(t).kind, ms)
        PROVE  SentBy(t)' = SentBy(t) + Len(ms)
    BY <1>1, <2>0, <2>3, Sending
  <2>5. CASE SendNext(t)
    <3>1. /\ state[t] = "loop" /\ counted'[t] = counted[t]
          /\ \/ state'[t] \in {"count", "failed"} /\ Arrive(Config(t).kind, <<MessageAt(t, i[t])>>)
             \/ state'[t] = "failed" /\ UNCHANGED brokerVars
      BY <2>1, <2>5 DEF SendNext, Goes
    <3>2. <<MessageAt(t, i[t])>> \in Seq(From(t)) /\ Len(<<MessageAt(t, i[t])>>) = 1
      BY <2>1, OneMessage
    <3>3. CASE Arrive(Config(t).kind, <<MessageAt(t, i[t])>>)
      <4>1. SentBy(t)' = SentBy(t) + 1
        BY <2>3, <3>2, <3>3
      <4>2. state'[t] \in {"count", "failed"}
        BY <3>1
      <4> QED
        BY <2>0, <2>1, <3>1, <4>1, <4>2 DEF SentOf
    <3>4. CASE state'[t] = "failed" /\ UNCHANGED brokerVars
      BY <2>0, <2>1, <2>2, <3>1, <3>4 DEF SentOf
    <3> QED
      BY <3>1, <3>3, <3>4
  <2>6. CASE CountSent(t)
    <3>1. /\ state[t] = "count" /\ state'[t] \in {"loop", "failed"}
          /\ counted'[t] = counted[t] + 1 /\ SentBy(t)' = SentBy(t)
      BY <2>1, <2>2, <2>6 DEF CountSent, EndIteration, Goes
    <3> QED
      BY <2>0, <2>1, <3>1 DEF SentOf
  <2>8. CASE PublisherLoopEnds(t)
    <3>1. /\ state[t] = "loop" /\ state'[t] = "close"
          /\ counted'[t] = counted[t] /\ SentBy(t)' = SentBy(t)
      BY <2>1, <2>2, <2>8 DEF PublisherLoopEnds, Goes
    <3> QED
      BY <2>0, <2>1, <3>1 DEF SentOf
  <2>9. CASE CloseNext(t)
    <3>1. /\ state[t] = "close" /\ state'[t] \in {"close", "ended", "failed"}
          /\ counted'[t] = counted[t] /\ SentBy(t)' = SentBy(t)
      BY <2>0, <2>1, <2>2, <2>9 DEF CloseNext, Goes
    <3> QED
      BY <2>0, <2>1, <3>1 DEF SentOf
  <2>10. ~ConsumeStep(t) /\ ~BatchPublishStep(t) /\ ~BatchStep(t)
    BY <2>0, HandlerLeaves
       DEF ConsumeStep, Receive, ReceiveFails, Acknowledge, CountReceived, ConsumerLoopEnds,
           Unsubscribe, BatchPublishStep, ShutdownDrained, ShutdownTimesOut
  <2> QED
    BY <2>5, <2>6, <2>8, <2>9, <2>10 DEF AnyStep, ThreadStep, PublishStep
<1>5. ASSUME IsTransactional(t) PROVE SentOf(t)'
  <2>1. ~IsConsumer(t) /\ IsTransactional(t)'
    BY <1>1, <1>5 DEF IsTransactional
  <2>2. /\ SentBy(t) \in Nat /\ counted[t] \in Nat /\ i[t] \in Int /\ t \in Nat
        /\ t \in DOMAIN counted
        /\ counted[t] <= SentBy(t) /\ (faults = 0 => SentBy(t) = counted[t])
    BY <1>5, <2>1, SentByIs, ThreadsFinite, ClientAssumption
       DEF SentInv, SentOf, TypeOK, ClientAssumption
  <2>3. UNCHANGED brokerVars => SentBy(t)' = SentBy(t)
    BY <1>1, NothingSent DEF brokerVars
  <2>4. /\ Arrive(Config(t).kind, messagesList(t)) => SentBy(t)' = SentBy(t) + Listed(t)
        /\ Listed(t) \in Nat /\ Listed(t) = i[t] - 1 - counted[t]
    <3>1. /\ messagesList(t) \in Seq(From(t)) /\ Len(messagesList(t)) = Listed(t)
          /\ Listed(t) \in Nat
      BY <1>5, <2>2, ListType DEF BatchInv, BatchOf
    <3> QED
      BY <1>1, <2>1, <3>1, Sending DEF Listed
  <2> SUFFICES counted'[t] <= SentBy(t)' /\ (faults' = 0 => SentBy(t)' = counted'[t])
    BY <2>1 DEF SentOf
  <2>5. CASE BatchStep(t)
    <3>1. Handled(t) /\ (faults' = 0 => faults = 0)
      BY <1>1, <2>5, HandlerCases DEF Frame
    <3>2. CASE EventTaken(t) \/ HandlerMoved(t)
      BY <2>2, <2>3, <3>1, <3>2 DEF EventTaken, HandlerMoved
    <3>3. CASE ListCommitted(t)
      <4>1. SentBy(t)' = SentBy(t) + Listed(t) /\ counted'[t] = i[t] - 1 /\ faults' = faults
        BY <2>2, <2>4, <3>3 DEF ListCommitted
      <4> QED
        BY <2>2, <2>4, <4>1
    <3>4. CASE CallFailed(t)
      <4>1. /\ counted'[t] = counted[t] /\ faults' # 0
            /\ SentBy(t)' = SentBy(t) \/ SentBy(t)' = SentBy(t) + Listed(t)
        BY <2>3, <2>4, <3>4 DEF CallFailed
      <4> QED
        BY <2>2, <2>4, <4>1
    <3> QED
      BY <3>1, <3>2, <3>3, <3>4 DEF Handled
  <2>6. CASE BatchPublishStep(t)
    BY <2>2, <2>3, <2>6 DEF BatchPublishStep, ShutdownDrained, ShutdownTimesOut
  <2>7. ~IsPlain(t) /\ state[t] # "close"
    BY <1>5 DEF IsPlain, IsTransactional, PlaceInv
  <2>8. ~PublishStep(t) /\ ~ConsumeStep(t) /\ ~CloseNext(t)
    BY <2>1, <2>7
       DEF PublishStep, ConsumeStep, SendNext, CountSent, PublisherLoopEnds, Receive,
           ReceiveFails, Acknowledge, CountReceived, ConsumerLoopEnds, Unsubscribe,
           CloseNext, Goes
  <2> QED
    BY <2>5, <2>6, <2>8 DEF AnyStep, ThreadStep
<1>6. ~IsConsumer(t) => IsPlain(t) \/ IsTransactional(t)
  BY DEF IsPlain, IsTransactional
<1> QED
  BY <1>1, <1>2, <1>3, <1>4, <1>5, <1>6 DEF SentInv

\* and when one starts.
LEMMA SentStart ==
  ASSUME TypeOK, SentInv, StartThread
  PROVE  SentInv'
<1>1. /\ Threads' = Threads /\ \A u : IsConsumer(u)' = IsConsumer(u) /\ IsTransactional(u)' = IsTransactional(u)
      /\ \A u : SentBy(u)' = SentBy(u)
      /\ \A d : Sent(d)' = Sent(d)
      /\ UNCHANGED <<counted, sentLog, faults>>
  BY StartEffect, TestFixed, NothingSent
<1>2. \A u \in Threads : state'[u] = state[u] \/ (state[u] = "new" /\ state'[u] = "loop")
  BY StartEffect DEF TypeOK
<1>3. ASSUME NEW u \in Threads, ~IsConsumer(u) PROVE SentOf(u)'
  BY <1>1, <1>2, <1>3 DEF SentInv, SentOf
<1> QED
  BY <1>1, <1>3 DEF SentInv

-----------------------------------------------------------------------------
(* What the consumers count *)

\* What waits for a consumer, what it holds and what it has acknowledged was sent.
LEMMA Delivered ==
  ASSUME TypeOK, NothingMissed, Balance(Own) = 0, NEW t \in Threads, IsConsumer(t),
         Source(t) = "topic" => t \in subscribed
  PROVE  /\ Occurrences(stored[Endpoint(t)], Own) + Occurrences(unacked[t], Own)
              + (IF Ack(t) # "transacted" THEN Occurrences(settled[t], Own) ELSE 0)
              <= Len(sentLog[Source(t)])
         /\ Source(t) = "topic" =>
              Len(settled[t]) + Len(unacked[t]) + Len(stored[t]) = Len(sentLog["topic"])
<1> DEFINE a == settled[t]
           h == unacked[t]
           s == stored[Endpoint(t)]
           l == sentLog[Source(t)]
<1>1. /\ Source(t) \in Destination /\ (Endpoint(t) = TheQueue <=> Source(t) = "queue")
      /\ Endpoint(t) \in {TheQueue, t}
      /\ Endpoint(t) = TheQueue <=> Config(t).kind = "queue"
  BY ConfigKinds DEF TypeOK
<1>2. /\ a \in Seq(Message) /\ h \in Seq(Message) /\ s \in Seq(Message) /\ l \in Seq(Message)
  BY <1>1 DEF TypeOK
<1>3. /\ Occurrences(a, Own) \in Nat /\ Occurrences(h, Own) \in Nat
      /\ Occurrences(s, Own) \in Nat /\ Occurrences(l, Own) \in Nat
      /\ Len(l) \in Nat /\ Occurrences(l, Own) <= Len(l)
  BY <1>2, OccurrencesType, LenProperties
<1>4. CASE Source(t) = "topic"
  <2>1. a \o h \o s = l /\ Endpoint(t) = t
    BY <1>1, <1>4 DEF NothingMissed
  <2>2. a \o h \in Seq(Message) /\ Len(a \o h) = Len(a) + Len(h) /\ Len(a \o h \o s) = Len(a \o h) + Len(s)
    BY <1>2, ConcatProperties
  <2>3. /\ Occurrences(a \o h, Own) = Occurrences(a, Own) + Occurrences(h, Own)
        /\ Occurrences(a \o h \o s, Own) = Occurrences(a \o h, Own) + Occurrences(s, Own)
    BY <1>2, <2>2, OccurrencesConcat, ZenonT(60)
  <2>4. Occurrences(l, Own) = Occurrences(a, Own) + Occurrences(h, Own) + Occurrences(s, Own)
    <3> HIDE DEF a, h, s, l
    <3> QED
      BY <2>1, <2>3
  <2>5. Len(l) = Len(a) + Len(h) + Len(s)
    BY <2>1, <2>2
  <2>6. /\ Occurrences(s, Own) + Occurrences(h, Own)
             + (IF Ack(t) # "transacted" THEN Occurrences(a, Own) ELSE 0) <= Len(l)
    <3> HIDE DEF a, h, s, l
    <3> QED
      BY <1>3, <2>4
  <2> QED
    BY <1>4, <2>1, <2>5, <2>6
<1>5. CASE Source(t) = "queue"
  <2>1. t \in QueueReceivers /\ (t \in AckReceivers <=> Ack(t) # "transacted")
    BY <1>1, <1>5 DEF QueueReceivers, AckReceivers
  <2>2. Occurrences(stored[TheQueue], Own) + Held(Own) + Kept(Own) = Occurrences(sentLog["queue"], Own)
        /\ Held(Own) \in Nat /\ Kept(Own) \in Nat /\ Occurrences(h, Own) <= Held(Own)
        /\ (t \in AckReceivers => Occurrences(a, Own) <= Kept(Own))
    <3> DEFINE f == [u \in Threads |-> Occurrences(unacked[u], Own)]
               g == [u \in Threads |-> Occurrences(settled[u], Own)]
    <3>1. \A u \in Threads : f[u] \in Nat /\ g[u] \in Nat
      <4>1. \A u \in Threads : unacked[u] \in Seq(Message) /\ settled[u] \in Seq(Message)
        BY DEF TypeOK
      <4> QED
        BY <4>1, OccurrencesType
    <3>2. f[t] = Occurrences(h, Own) /\ g[t] = Occurrences(a, Own)
      OBVIOUS
    <3>3. Held(Own) = SumFunctionOnSet(f, QueueReceivers) /\ Kept(Own) = SumFunctionOnSet(g, AckReceivers)
      BY DEF Held, Kept, CountOf
    <3>4. /\ QueueReceivers \in SUBSET Threads /\ AckReceivers \in SUBSET Threads
          /\ IsFiniteSet(QueueReceivers) /\ IsFiniteSet(AckReceivers)
      <4>1. QueueReceivers \in SUBSET Threads /\ AckReceivers \in SUBSET Threads
        BY DEF QueueReceivers, AckReceivers
      <4> QED
        BY <4>1, ThreadsFinite, FS_Subset DEF TypeOK
    <3> HIDE DEF f, g
    <3>5. Held(Own) \in Nat /\ f[t] <= Held(Own)
      <4>1. \A x \in QueueReceivers : f[x] \in Nat
        BY <3>1, <3>4
      <4> QED
        BY <2>1, <3>3, <3>4, <4>1, SumOfNaturals
    <3>6. Kept(Own) \in Nat /\ (t \in AckReceivers => g[t] <= Kept(Own))
      <4>1. \A x \in AckReceivers : g[x] \in Nat
        BY <3>1, <3>4
      <4> QED
        BY <3>3, <3>4, <4>1, SumOfNaturals
    <3>7. /\ Occurrences(stored[TheQueue], Own) \in Nat
          /\ Occurrences(sentLog["queue"], Own) \in Nat
      BY <1>1, <1>3, <1>5
    <3>8. Occurrences(stored[TheQueue], Own) + Held(Own) + Kept(Own)
            - Occurrences(sentLog["queue"], Own) = 0
      BY DEF Balance
    <3> DEFINE x == Occurrences(stored[TheQueue], Own)
               y == Occurrences(sentLog["queue"], Own)
    <3>9. x + Held(Own) + Kept(Own) = y
      <4>1. x \in Nat /\ y \in Nat /\ x + Held(Own) + Kept(Own) - y = 0
        BY <3>7, <3>8
      <4>2. \A b, c, d, e \in Nat : b + c + d - e = 0 => b + c + d = e
        OBVIOUS
      <4> HIDE DEF x, y
      <4> QED
        BY <3>5, <3>6, <4>1, <4>2
    <3> QED
      BY <3>2, <3>5, <3>6, <3>9
  <2>3. s = stored[TheQueue] /\ l = sentLog["queue"]
    BY <1>1, <1>5
  <2> HIDE DEF a, h, s, l
  <2>4. Occurrences(s, Own) + Held(Own) + Kept(Own) = Occurrences(l, Own)
    BY <2>2, <2>3
  <2>5. Occurrences(s, Own) + Occurrences(h, Own)
          + (IF Ack(t) # "transacted" THEN Occurrences(a, Own) ELSE 0) <= Len(l)
    BY <1>3, <2>1, <2>2, <2>4
  <2> QED
    BY <1>5, <2>5 DEF a, h, s, l
<1> QED
  BY <1>1, <1>4, <1>5 DEF Destination

\* What was sent to a destination never shrinks.
LEMMA SentGrows ==
  ASSUME TypeOK, BatchInv, NEW t \in Threads, AnyStep(t), NEW d \in Destination
  PROVE  Len(sentLog[d]) \in Nat /\ Len(sentLog'[d]) \in Nat /\ Len(sentLog[d]) <= Len(sentLog'[d])
<1>1. Effect(t) /\ BrokerTypes' /\ test' = test
  BY StepEffect, BrokerTypeStep
<1>2. Len(sentLog[d]) \in Nat
  BY LenProperties DEF TypeOK
<1>3. CASE sentLog' = sentLog
  BY <1>2, <1>3
<1>4. ASSUME ~IsConsumer(t), NEW ms \in Seq(From(t)), Arrive(Config(t).kind, ms)
      PROVE  Len(sentLog'[d]) \in Nat /\ Len(sentLog[d]) <= Len(sentLog'[d])
  <2>1. /\ Len(ms) \in Nat
        /\ Len(sentLog'[d]) = Len(sentLog[d]) + IF d = Config(t).kind THEN Len(ms) ELSE 0
    BY <1>1, <1>4, Sending
  <2> DEFINE x == Len(sentLog[d])
             y == Len(sentLog'[d])
             z == Len(ms)
  <2>2. z \in Nat /\ (y = x + z \/ y = x + 0) /\ x \in Nat
    BY <1>2, <2>1
  <2> HIDE DEF x, y, z
  <2>3. y \in Nat /\ x <= y
    BY <2>2
  <2> QED
    BY <2>3 DEF x, y
<1> QED
  BY <1>1, <1>2, <1>3, <1>4 DEF Effect, Take, Settle, EndSession, RemoveSubscription, brokerVars

\* A consumer's counter agrees with the broker when a thread steps,
LEMMA CountStep ==
  ASSUME TypeOK, BatchInv, PlaceInv, SubscriptionInv, NothingMissed, Balance(Own) = 0, CountInv,
         NEW t \in Threads, AnyStep(t)
  PROVE  CountInv'
<1>1. /\ Frame(t) /\ Effect(t) /\ Threads' = Threads
      /\ \A u : /\ IsConsumer(u)' = IsConsumer(u) /\ Ack(u)' = Ack(u)
                /\ Source(u)' = Source(u)
  BY StepEffect, StepFrame, TestFixed
<1>2. \A d \in Destination : /\ Len(sentLog[d]) \in Nat /\ Len(sentLog'[d]) \in Nat
                             /\ Len(sentLog[d]) <= Len(sentLog'[d])
  BY SentGrows
<1>3. ASSUME NEW u \in Threads
      PROVE  /\ counted[u] \in Nat /\ Due(u) \in {0, 1} /\ Source(u) \in Destination
             /\ settled[u] \in Seq(Message) /\ Len(settled[u]) \in Nat
             /\ Occurrences(settled[u], Own) \in Nat /\ Occurrences(unacked[u], Own) \in Nat
  BY OccurrencesType, LenProperties, ConfigKinds DEF TypeOK, Due
<1>4. ASSUME NEW u \in Threads \ {t}, IsConsumer(u) PROVE CountedOf(u)'
  <2>1. Due(u)' = Due(u)
    BY <1>1 DEF Due, Frame
  <2>2. CountedOf(u) /\ "topic" \in Destination
    BY <1>4 DEF CountInv, Destination
  <2>3. /\ counted'[u] = counted[u] /\ settled'[u] = settled[u] /\ unacked'[u] = unacked[u]
        /\ state'[u] = state[u] /\ hand'[u] = hand[u]
    BY <1>1 DEF Frame
  <2>4. counted'[u] + Due(u)' <= Len(sentLog'[Source(u)])
    BY <1>2, <1>3, <2>1, <2>2, <2>3, SMTT(30) DEF CountedOf
  <2>5. Source(u) = "topic" => Len(settled'[u]) <= Len(sentLog'["topic"])
    <3>1. /\ Len(sentLog["topic"]) \in Nat /\ Len(sentLog'["topic"]) \in Nat
          /\ Len(sentLog["topic"]) <= Len(sentLog'["topic"])
      BY <1>2, <2>2
    <3>2. Source(u) = "topic" => Len(settled[u]) <= Len(sentLog["topic"])
      BY <2>2 DEF CountedOf
    <3>3. Len(settled'[u]) = Len(settled[u]) /\ Len(settled[u]) \in Nat
      BY <1>3, <2>3
    <3> QED
      BY <3>1, <3>2, <3>3
  <2> QED
    BY <1>1, <2>1, <2>2, <2>3, <2>4, <2>5 DEF CountedOf
<1>5. ASSUME IsConsumer(t) PROVE CountedOf(t)'
  <2> DEFINE c == counted[t]
             A == Occurrences(settled[t], Own)
             H == Occurrences(unacked[t], Own)
             S == Occurrences(stored[Endpoint(t)], Own)
             L == Len(sentLog[Source(t)])
             k == Due(t)'
  <2>1. /\ t \in DOMAIN state /\ t \in DOMAIN counted /\ t \in DOMAIN hand
        /\ t \in DOMAIN settled /\ t \in DOMAIN unacked
        /\ stored[Endpoint(t)] \in Seq(Message) /\ unacked[t] \in Seq(Message)
        /\ Ack(t) \in {"auto", "client", "transacted"}
    BY <1>5, ConfigKinds DEF TypeOK
  <2>2. /\ c \in Nat /\ A \in Nat /\ H \in Nat /\ S \in Nat /\ L \in Nat
        /\ k = IF state'[t] = "count" /\ hand'[t] # Foreign THEN 1 ELSE 0
    BY <1>2, <1>3, <2>1, OccurrencesType DEF Due
  <2>3. CountedOf(t) /\ sentLog' = sentLog
    BY <1>5, StepBroker DEF CountInv
  <2>4. state[t] \in {"loop", "ack"} =>
          /\ S + H + (IF Ack(t) # "transacted" THEN A ELSE 0) <= L
          /\ Source(t) = "topic" =>
               Len(settled[t]) + Len(unacked[t]) + Len(stored[t]) = Len(sentLog["topic"])
    <3>1. state[t] \in {"loop", "ack"} /\ Source(t) = "topic" => t \in subscribed
      BY <1>5, ConfigKinds DEF SubscriptionInv, TypeOK
    <3> QED
      BY <1>5, <3>1, Delivered
  <2>5. ASSUME settled'[t] = settled[t], counted'[t] = counted[t],
               state'[t] \notin {"loop", "ack", "count"}
        PROVE  CountedOf(t)'
    <3>1. k = 0 /\ Due(t) \in {0, 1}
      BY <1>3, <2>2, <2>5
    <3>2. c + k <= c + Due(t)
      BY <2>2, <3>1
    <3>3. /\ Ack(t) # "transacted" => c + k <= A
          /\ c + k <= L
          /\ Source(t) = "topic" => Len(settled[t]) <= Len(sentLog["topic"])
      BY <2>2, <2>3, <3>1 DEF CountedOf
    <3> QED
      BY <1>1, <2>3, <2>5, <3>3 DEF CountedOf
  <2>6. CASE Receive(t)
    <3> DEFINE q == stored[Endpoint(t)]
               one == IF Head(q) \in Own THEN 1 ELSE 0
    <3>1. /\ state[t] = "loop" /\ counted'[t] = c /\ hand'[t] = Head(q)
          /\ state'[t] = IF Ack(t) = "client" THEN "ack" ELSE "count"
          /\ Take(t, Endpoint(t), AutoAcknowledges(t)) /\ q # << >>
      BY <2>1, <2>6 DEF Receive, Goes, Take
    <3>2. /\ Head(q) \in Message /\ Occurrences(Tail(q), Own) = S - one
          /\ Occurrences(Tail(q), Own) \in Nat
      <4>1. q \in Seq(Message) /\ q # << >>
        BY <2>1, <3>1
      <4> HIDE DEF q
      <4>2. /\ Head(q) \in Message /\ Tail(q) \in Seq(Message)
            /\ Occurrences(Tail(q), Own) = Occurrences(q, Own) - one
        BY <4>1, OccurrencesTail
      <4>3. Occurrences(Tail(q), Own) \in Nat
        BY <4>2, OccurrencesType
      <4> QED
        BY <4>2, <4>3 DEF q
    <3>3. (Head(q) # Foreign => one = 1) /\ one \in {0, 1}
      BY <3>2 DEF Own
    <3> HIDE DEF one
    <3>4. one <= S
      BY <2>2, <3>2, <3>3
    <3>5. Due(t) = 0
      BY <3>1 DEF Due
    <3>6. k <= one /\ k \in {0, 1} /\ (Ack(t) = "client" => k = 0)
      BY <2>2, <3>1, <3>3
    <3>7. /\ Ack(t) # "transacted" => c <= A
          /\ Ack(t) = "transacted" => c <= H
          /\ c <= L /\ (Source(t) = "topic" => Len(settled[t]) <= Len(sentLog["topic"]))
      BY <2>2, <2>3, <3>1, <3>5 DEF CountedOf
    <3>8. S + H + (IF Ack(t) # "transacted" THEN A ELSE 0) <= L
      BY <2>4, <3>1
    <3>9. CASE Ack(t) = "auto"
      <4>1. /\ settled'[t] = Append(settled[t], Head(q)) /\ unacked'[t] = unacked[t]
            /\ state'[t] = "count"
        BY <2>1, <3>1, <3>9 DEF Take, AutoAcknowledges
      <4>2. /\ Occurrences(settled'[t], Own) = A + one
            /\ Len(settled'[t]) = Len(settled[t]) + 1
        BY <1>3, <3>2, <4>1, OccurrencesAppend, AppendProperties DEF one
      <4>3. c + k <= A + one /\ c + k <= L
        BY <2>2, <3>4, <3>6, <3>7, <3>8, <3>9, <3>3
      <4>4. Source(t) = "topic" => Len(settled'[t]) <= Len(sentLog["topic"])
        <5>1. Endpoint(t) = t <=> Source(t) = "topic"
          BY <1>3, ConfigKinds DEF Destination, TypeOK
        <5>2. Source(t) = "topic" => stored[t] # << >> /\ stored[t] \in Seq(Message)
          BY <2>1, <3>1, <5>1
        <5>3. Source(t) = "topic" => Len(stored[t]) \in Nat /\ Len(stored[t]) > 0
          BY <5>2, EmptySeq
        <5>4. Len(unacked[t]) \in Nat
          BY <2>1, LenProperties
        <5>5. Source(t) = "topic" =>
                Len(settled[t]) + Len(unacked[t]) + Len(stored[t]) = Len(sentLog["topic"])
          BY <2>4, <3>1
        <5>6. \A x, y, z \in Nat : z > 0 => x + 1 <= x + y + z
          OBVIOUS
        <5>7. Source(t) = "topic" =>
                Len(settled[t]) + 1 <= Len(settled[t]) + Len(unacked[t]) + Len(stored[t])
          BY <1>3, <5>3, <5>4, <5>6
        <5> QED
          BY <4>2, <5>5, <5>7
      <4> QED
        BY <1>1, <2>3, <3>1, <3>9, <4>1, <4>2, <4>3, <4>4 DEF CountedOf
    <3>10. CASE Ack(t) # "auto"
      <4>1. settled'[t] = settled[t] /\ unacked'[t] = Append(unacked[t], Head(q))
        BY <2>1, <3>1, <3>10 DEF Take, AutoAcknowledges
      <4>2. Occurrences(unacked'[t], Own) = H + one
        BY <2>1, <3>2, <4>1, OccurrencesAppend DEF one
      <4>3. /\ Ack(t) = "transacted" => c + k <= H + one /\ c + k <= L
            /\ Ack(t) = "client" => c + k <= A /\ c + k <= L
        BY <2>2, <3>3, <3>4, <3>6, <3>7, <3>8
      <4>4. state'[t] = "ack" /\ hand'[t] # Foreign => H + one > 0
        BY <2>2, <3>1, <3>3
      <4> QED
        BY <1>1, <2>1, <2>3, <3>1, <3>7, <3>10, <4>1, <4>2, <4>3, <4>4 DEF CountedOf
    <3> QED
      BY <3>9, <3>10
  <2>7. CASE ReceiveFails(t)
    <3>1. counted'[t] = counted[t] /\ state'[t] \in {"failed", "dead"} /\ settled'[t] = settled[t]
      BY <2>1, <2>7 DEF ReceiveFails, Goes, EndSession, brokerVars
    <3> QED
      BY <2>5, <3>1
  <2>8. CASE Acknowledge(t)
    <3>1. /\ state[t] = "ack" /\ counted'[t] = c /\ hand'[t] = hand[t] /\ Ack(t) = "client"
          /\ \/ state'[t] \in {"count", "failed"} /\ Settle(t)
             \/ state'[t] = "failed" /\ UNCHANGED brokerVars
      BY <1>5, <2>1, <2>8 DEF Acknowledge, Goes, PlaceInv
    <3>2. CASE UNCHANGED brokerVars /\ state'[t] = "failed"
      BY <2>5, <3>1, <3>2 DEF brokerVars
    <3>3. CASE Settle(t) /\ state'[t] \in {"count", "failed"}
      <4>1. settled'[t] = settled[t] \o unacked[t]
        BY <2>1, <3>3 DEF Settle
      <4>2. /\ Occurrences(settled'[t], Own) = A + H
            /\ Len(settled'[t]) = Len(settled[t]) + Len(unacked[t])
        BY <1>3, <2>1, <4>1, OccurrencesConcat, ConcatProperties
      <4>3. Due(t) = 0 /\ k \in {0, 1} /\ k <= H
        BY <2>2, <2>3, <3>1 DEF Due, CountedOf
      <4>4. c <= A /\ S + H + A <= L
        BY <2>2, <2>3, <2>4, <3>1, <4>3 DEF CountedOf
      <4>5. c + k <= A + H /\ c + k <= L
        BY <2>2, <4>3, <4>4
      <4>6. Source(t) = "topic" => Len(settled'[t]) <= Len(sentLog["topic"])
        <5>1. Endpoint(t) = t <=> Source(t) = "topic"
          BY <1>3, ConfigKinds DEF Destination, TypeOK
        <5>2. Len(unacked[t]) \in Nat /\ (Source(t) = "topic" => Len(stored[t]) \in Nat)
          BY <2>1, <5>1, LenProperties
        <5>3. Source(t) = "topic" =>
                Len(settled[t]) + Len(unacked[t]) + Len(stored[t]) = Len(sentLog["topic"])
          BY <2>4, <3>1
        <5>4. \A x, y, z \in Nat : x + y <= x + y + z
          OBVIOUS
        <5>5. Source(t) = "topic" =>
                Len(settled[t]) + Len(unacked[t]) <= Len(settled[t]) + Len(unacked[t]) + Len(stored[t])
          BY <1>3, <5>2, <5>4
        <5> QED
          BY <4>2, <5>3, <5>5
      <4> QED
        BY <1>1, <2>3, <3>1, <3>3, <4>2, <4>5, <4>6 DEF CountedOf
    <3> QED
      BY <3>1, <3>2, <3>3
  <2>9. CASE CountReceived(t)
    <3>1. CASE hand[t] = Foreign
      <4>1. counted'[t] = counted[t] /\ state'[t] = "dead" /\ settled'[t] = settled[t]
        BY <2>1, <2>9, <3>1 DEF CountReceived, Goes, brokerVars
      <4> QED
        BY <2>5, <4>1
    <3>2. CASE hand[t] # Foreign
      <4>1. /\ counted'[t] = c + 1 /\ state[t] = "count" /\ state'[t] \in {"loop", "failed"}
            /\ settled'[t] = settled[t] /\ unacked'[t] = unacked[t]
        BY <2>1, <2>9, <3>2 DEF CountReceived, EndIteration, Goes, brokerVars
      <4>2. Due(t) = 1 /\ k = 0
        BY <2>2, <3>2, <4>1 DEF Due
      <4>3. /\ Ack(t) # "transacted" => c + 1 <= A
            /\ Ack(t) = "transacted" => c + 1 <= H
            /\ c + 1 <= L /\ (Source(t) = "topic" => Len(settled[t]) <= Len(sentLog["topic"]))
        BY <2>3, <4>1, <4>2 DEF CountedOf
      <4>4. counted'[t] + k = c + 1
        BY <2>2, <4>1, <4>2
      <4> QED
        BY <1>1, <2>3, <4>1, <4>3, <4>4 DEF CountedOf
    <3> QED
      BY <3>1, <3>2
  <2>10. CASE ConsumerLoopEnds(t)
    <3>1. /\ counted'[t] = counted[t] /\ state'[t] \in {"unsubscribe", "close"}
          /\ settled'[t] = settled[t]
      BY <2>1, <2>10 DEF ConsumerLoopEnds, Goes, brokerVars
    <3> QED
      BY <2>5, <3>1
  <2>11. CASE Unsubscribe(t)
    <3>1. counted'[t] = counted[t] /\ state'[t] \in {"close", "failed"} /\ settled'[t] = settled[t]
      BY <2>1, <2>11 DEF Unsubscribe, Goes, RemoveSubscription, brokerVars
    <3> QED
      BY <2>5, <3>1
  <2>12. CASE CloseNext(t)
    <3>1. /\ counted'[t] = counted[t] /\ state'[t] \in {"close", "ended", "failed"}
          /\ settled'[t] = settled[t]
      BY <2>1, <2>12 DEF CloseNext, Goes, EndSession, brokerVars
    <3> QED
      BY <2>5, <3>1
  <2>13. ~PublishStep(t) /\ ~BatchPublishStep(t) /\ ~BatchStep(t)
    BY <1>5, HandlerLeaves
       DEF PublishStep, SendNext, CountSent, PublisherLoopEnds, IsPlain, IsTransactional,
           BatchPublishStep, ShutdownDrained, ShutdownTimesOut
  <2> QED
    BY <2>6, <2>7, <2>8, <2>9, <2>10, <2>11, <2>12, <2>13
       DEF AnyStep, ThreadStep, ConsumeStep
<1> QED
  BY <1>1, <1>4, <1>5 DEF CountInv

\* and when one starts.
LEMMA CountStart ==
  ASSUME TypeOK, NewInv, CountInv, StartThread
  PROVE  CountInv'
<1>1. /\ Threads' = Threads /\ UNCHANGED <<counted, settled, unacked, sentLog, hand>>
      /\ \A u : /\ IsConsumer(u)' = IsConsumer(u) /\ Ack(u)' = Ack(u)
                /\ Source(u)' = Source(u)
  BY StartEffect, TestFixed
<1>2. \A u \in Threads : \/ state'[u] = state[u]
                         \/ state[u] = "new" /\ state'[u] = "loop"
  BY StartEffect DEF TypeOK
<1>3. ASSUME NEW u \in Threads, IsConsumer(u) PROVE CountedOf(u)'
  <2>1. Due(u)' = Due(u)
    BY <1>1, <1>2 DEF Due
  <2>2. CountedOf(u)
    BY <1>3 DEF CountInv
  <2>3. CASE state'[u] = state[u]
    BY <1>1, <2>1, <2>2, <2>3 DEF CountedOf
  <2>4. CASE state[u] = "new" /\ state'[u] = "loop"
    <3>1. counted[u] = 0 /\ unacked[u] = << >> /\ Due(u) = 0
      BY <2>4 DEF NewInv, Due
    <3>2. counted[u] + Due(u) <= Occurrences(unacked[u], Own)
      BY <3>1, OccurrencesEmpty
    <3> QED
      BY <1>1, <2>1, <2>2, <2>4, <3>2 DEF CountedOf
  <2> QED
    BY <1>2, <2>3, <2>4
<1> QED
  BY <1>1, <1>3 DEF CountInv

-----------------------------------------------------------------------------
(* The inductive invariant holds *)

\* The invariant holds at first: types,
LEMMA InitType ==
  ASSUME Init
  PROVE  TypeOK
<1>1. test \in Tests
  BY DEF Init
<1>2. \A t \in Threads : CloseCalls(t) \in Seq(Calls)
  <2> SUFFICES ASSUME NEW t \in Threads PROVE CloseCalls(t) \in Seq(Calls)
    OBVIOUS
  <2>1. <<"consumer", "session", "stop", "connection">> \in Seq(Calls)
    BY DEF Calls
  <2>2. <<"consumer", "session", "stop">> \in Seq(Calls)
    BY DEF Calls
  <2>3. <<"consumer", "session", "connection">> \in Seq(Calls)
    BY DEF Calls
  <2>4. <<"sender", "session", "connection">> \in Seq(Calls)
    BY DEF Calls
  <2>5. <<"sender", "session", "stop", "connection">> \in Seq(Calls)
    BY DEF Calls
  <2> QED
    BY <2>1, <2>2, <2>3, <2>4, <2>5 DEF CloseCalls
<1>3. toClose \in [Threads -> Seq(Calls)]
  BY <1>2 DEF Init
<1>4. Foreign \in Message /\ << >> \in Seq(Message) /\ <<Foreign>> \in Seq(Message)
  BY DEF Foreign, Message
<1>5. /\ stored \in [{TheQueue} \cup Threads -> Seq(Message)]
      /\ unacked \in [Threads -> Seq(Message)] /\ settled \in [Threads -> Seq(Message)]
      /\ subscribed \subseteq Threads
      /\ sentLog \in [Destination -> Seq(Message)]
  BY <1>4 DEF Init, BrokerInit
<1>6. /\ state \in [Threads -> {"new", "loop", "ack", "count", "unsubscribe", "close"} \cup Over]
      /\ i \in [Threads -> (-IntMax - 1)..IntMax]
      /\ hand \in [Threads -> Message]
      /\ counted \in [Threads -> Nat] /\ handler \in [Threads -> HandlerState]
  BY <1>4, ClientAssumption DEF Init, ClientAssumption, HandlerState
<1>7. /\ faults \in 0..MaxFaults /\ mainAt \in 0..Cardinality(Threads)
  BY <1>1, ThreadsFinite, ClientAssumption DEF Init, ClientAssumption
<1> QED
  BY <1>1, <1>3, <1>5, <1>6, <1>7 DEF Init, TypeOK, Calls

\* publishers' counters,
LEMMA InitSent ==
  ASSUME Init
  PROVE  SentInv
<1>1. test \in Tests /\ \A d \in Destination : sentLog[d] = << >>
  BY DEF Init, BrokerInit
<1>2. ASSUME NEW t \in Threads, ~IsConsumer(t) PROVE SentBy(t) = 0
  <2>1. Config(t).kind \in Destination
    BY <1>1, <1>2, ConfigKinds
  <2>2. sentLog[Config(t).kind] = << >>
    BY <1>1, <2>1
  <2>3. {n \in DOMAIN sentLog[Config(t).kind] : sentLog[Config(t).kind][n].from = t} = {}
    BY <2>2
  <2> QED
    BY <2>3, FS_EmptySet DEF SentBy
<1>3. ASSUME NEW t \in Threads, ~IsConsumer(t) PROVE SentOf(t)
  BY <1>2, <1>3 DEF SentOf, Init
<1>4. ASSUME NEW d \in Destination PROVE Len(sentLog[d]) = Sent(d)
  <2> DEFINE f == [t \in Threads |-> SentBy(t)]
  <2>1. /\ PublishersOf(d) \in SUBSET Threads
        /\ \A t \in PublishersOf(d) : ~IsConsumer(t)
    BY DEF PublishersOf
  <2>2. IsFiniteSet(PublishersOf(d))
    BY <1>1, <2>1, ThreadsFinite, FS_Subset
  <2>3. \A t \in PublishersOf(d) : f[t] = 0
    BY <1>2, <2>1
  <2> HIDE DEF f
  <2>4. SumFunctionOnSet(f, PublishersOf(d)) = 0
    BY <2>2, <2>3, SumZero
  <2>5. Len(sentLog[d]) = 0
    BY <1>1
  <2> QED
    BY <2>4, <2>5 DEF Sent, f
<1> QED
  BY <1>3, <1>4 DEF SentInv

\* the queue's balance,
LEMMA InitBalance ==
  ASSUME Init
  PROVE  BalanceInv
<1>1. /\ test \in Tests /\ unacked = [t \in Threads |-> << >>]
      /\ settled = [t \in Threads |-> << >>] /\ sentLog["queue"] = << >>
      /\ stored[TheQueue] \in {<< >>, <<Foreign>>}
  BY DEF Init, BrokerInit, Destination
<1>2. ASSUME NEW M, NEW R \in SUBSET Threads
      PROVE  CountOf([t \in Threads |-> << >>], Threads, R, M) = 0
  <2> DEFINE f == [t \in Threads |-> Occurrences([u \in Threads |-> << >>][t], M)]
  <2>1. IsFiniteSet(R)
    BY <1>1, ThreadsFinite, FS_Subset
  <2>2. \A t \in R : f[t] = 0
    BY OccurrencesEmpty
  <2> HIDE DEF f
  <2>3. SumFunctionOnSet(f, R) = 0
    BY <2>1, <2>2, SumZero
  <2> QED
    BY <2>3 DEF CountOf, f
<1>3. QueueReceivers \in SUBSET Threads /\ AckReceivers \in SUBSET Threads
  BY DEF QueueReceivers, AckReceivers
<1>4. ASSUME NEW M PROVE Held(M) = 0 /\ Kept(M) = 0 /\ Occurrences(sentLog["queue"], M) = 0
  BY <1>1, <1>2, <1>3, OccurrencesEmpty DEF Held, Kept
<1>5. ASSUME NEW M PROVE Balance(M) = Occurrences(stored[TheQueue], M) + 0 + 0 - 0
  BY <1>4 DEF Balance
<1>6. Foreign \in Message /\ Foreign \notin Own
  BY DEF Foreign, Message, Own
<1>7. /\ Occurrences(<< >>, Own) = 0 /\ Occurrences(<< >>, Message) = 0
      /\ Occurrences(<<Foreign>>, Own) = 0 /\ Occurrences(<<Foreign>>, Message) = 1
  BY <1>6, OccurrencesEmpty, OccurrencesOne
<1>8. Occurrences(stored[TheQueue], Own) = 0 /\ Occurrences(stored[TheQueue], Message) \in {0, 1}
  BY <1>1, <1>7
<1> QED
  BY <1>5, <1>8 DEF BalanceInv

\* and the rest.
LEMMA InitInv ==
  ASSUME Init
  PROVE  IInv
<1>1. TypeOK /\ test \in Tests
  BY InitType DEF Init
<1>2. MainInv /\ NewInv /\ PlaceInv /\ ExitInv /\ NothingMissed
  <2>1. \A t \in Threads : t > 0
    BY <1>1, ThreadsFinite
  <2> QED
    BY <2>1 DEF Init, BrokerInit, MainInv, NewInv, PlaceInv, ExitInv, NothingMissed
<1>3. SubscriptionInv
  <2>1. \A t \in Threads : t # TheQueue
    BY <1>1, ThreadsFinite DEF TheQueue
  <2> QED
    BY <2>1 DEF Init, BrokerInit, SubscriptionInv
<1>4. LoopInv
  <2> SUFFICES ASSUME NEW t \in Threads, ~IsTransactional(t) PROVE LoopOf(t)
    BY DEF LoopInv
  <2>1. i[t] = 1 /\ counted[t] = 0 /\ state[t] = "new" /\ Config(t).count \in Nat
    BY <1>1, ConfigKinds DEF Init
  <2> QED
    BY <2>1 DEF LoopOf
<1>5. BatchInv
  <2> SUFFICES ASSUME NEW t \in Threads, IsTransactional(t) PROVE BatchOf(t)
    BY DEF BatchInv
  <2>1. /\ i[t] = 1 /\ counted[t] = 0 /\ handler[t] = "onEvent" /\ Listed(t) = 0
        /\ Config(t).count \in Nat /\ Config(t).batch \in Nat
    BY <1>1, ConfigKinds DEF Init, IsTransactional, Listed
  <2>2. 0 \in Nat /\ counted[t] = 0 * Config(t).batch
    BY <2>1
  <2> QED
    BY <2>1, <2>2 DEF BatchOf
<1>6. CountInv
  <2> SUFFICES ASSUME NEW t \in Threads, IsConsumer(t) PROVE CountedOf(t)
    BY DEF CountInv
  <2>1. /\ counted[t] = 0 /\ state[t] = "new" /\ settled[t] = << >> /\ unacked[t] = << >>
        /\ \A d \in Destination : sentLog[d] = << >>
    BY DEF Init, BrokerInit
  <2>2. Source(t) \in Destination /\ "topic" \in Destination /\ Len(<< >>) = 0
    BY <1>1, ConfigKinds DEF Destination
  <2>3. Occurrences(<< >>, Own) = 0 /\ Due(t) = 0
    BY <2>1, OccurrencesEmpty DEF Due
  <2> QED
    BY <2>1, <2>2, <2>3 DEF CountedOf
<1> QED
  BY <1>1, <1>2, <1>3, <1>4, <1>5, <1>6, InitSent, InitBalance DEF IInv

\* Steps of Main, the hook and the JVM that touch no thread keep the invariant;
LEMMA QuietKeeps ==
  ASSUME IInv, Quiet
  PROVE  /\ NewInv' /\ PlaceInv' /\ SubscriptionInv' /\ NothingMissed'
         /\ LoopInv' /\ BatchInv' /\ SentInv' /\ BalanceInv' /\ CountInv'
<1>1. /\ test' = test /\ UNCHANGED <<state, i, hand, counted, toClose, handler>>
      /\ (faults' = 0 => faults = 0)
      /\ UNCHANGED <<stored, unacked, settled, subscribed, sentLog>>
  BY DEF Quiet, threadVars, brokerVars
<1>2. /\ Threads' = Threads /\ QueueReceivers' = QueueReceivers
      /\ AckReceivers' = AckReceivers
      /\ \A t : /\ IsConsumer(t)' = IsConsumer(t) /\ Config(t)' = Config(t)
                /\ Endpoint(t)' = Endpoint(t) /\ Source(t)' = Source(t)
                /\ Ack(t)' = Ack(t) /\ FullBatches(t)' = FullBatches(t)
                /\ IsPlain(t)' = IsPlain(t) /\ IsTransactional(t)' = IsTransactional(t)
  BY <1>1, TestFixed
<1> USE <1>1, <1>2 DEF IInv
<1>3. NewInv'
  BY DEF NewInv
<1>4. PlaceInv'
  BY DEF PlaceInv
<1>5. SubscriptionInv' /\ NothingMissed'
  BY DEF SubscriptionInv, NothingMissed
<1>6. LoopInv'
  BY DEF LoopInv, LoopOf
<1>7. BatchInv'
  BY DEF BatchInv, BatchOf, Listed
<1>8. SentInv'
  <2>1. (\A u : SentBy(u)' = SentBy(u)) /\ (\A d : Sent(d)' = Sent(d))
    BY NothingSent
  <2> QED
    BY <2>1 DEF SentInv, SentOf
<1>9. BalanceInv'
  <2>1. \A M : Balance(M)' = Balance(M)
    BY DEF Balance, Held, Kept
  <2> QED
    BY <2>1 DEF BalanceInv
<1>10. CountInv'
  <2>1. \A t : Due(t)' = Due(t)
    BY DEF Due
  <2> QED
    BY <2>1 DEF CountInv, CountedOf
<1> QED
  BY <1>3, <1>4, <1>5, <1>6, <1>7, <1>8, <1>9, <1>10

\* so do the threads' steps,
LEMMA ThreadKeeps ==
  ASSUME IInv, NEW t \in Threads, AnyStep(t)
  PROVE  /\ NewInv' /\ PlaceInv' /\ SubscriptionInv' /\ NothingMissed'
         /\ LoopInv' /\ BatchInv' /\ SentInv' /\ BalanceInv' /\ CountInv'
<1> USE DEF IInv
<1>1. NewInv' /\ PlaceInv' /\ SubscriptionInv' /\ NothingMissed'
  BY NewStep, PlaceStep, SubscriptionStep, NothingMissedStep
<1>2. LoopInv' /\ BatchInv' /\ SentInv'
  BY LoopStep, BatchListStep, SentStep
<1>3. BalanceInv'
  <2>1. Balance(Own)' = Balance(Own) /\ Balance(Message)' = Balance(Message)
    BY BalanceStep
  <2> QED
    BY <2>1 DEF BalanceInv
<1>4. CountInv'
  BY CountStep DEF BalanceInv
<1> QED
  BY <1>1, <1>2, <1>3, <1>4

\* and Main's starting of a thread.
LEMMA StartKeeps ==
  ASSUME IInv, StartThread
  PROVE  /\ NewInv' /\ PlaceInv' /\ SubscriptionInv' /\ NothingMissed'
         /\ LoopInv' /\ BatchInv' /\ SentInv' /\ BalanceInv' /\ CountInv'
<1> USE DEF IInv
<1>1. NewInv' /\ PlaceInv' /\ SubscriptionInv' /\ NothingMissed'
  BY NewStart, PlaceStart, SubscriptionStart, NothingMissedStart
<1>2. LoopInv' /\ BatchInv' /\ SentInv' /\ CountInv'
  BY LoopsStart, SentStart, CountStart
<1>3. BalanceInv'
  <2>1. /\ Threads' = Threads /\ QueueReceivers' = QueueReceivers
        /\ AckReceivers' = AckReceivers /\ UNCHANGED <<stored, unacked, settled, sentLog>>
    BY StartEffect, TestFixed
  <2>2. \A M : Balance(M)' = Balance(M)
    BY <2>1 DEF Balance, Held, Kept
  <2> QED
    BY <2>2 DEF BalanceInv
<1> QED
  BY <1>1, <1>2, <1>3

\* The invariant is inductive.
LEMMA StepInv ==
  ASSUME IInv, [Next]_vars
  PROVE  IInv'
<1>1. TypeOK'
  BY TypeStep DEF IInv
<1>2. CASE UNCHANGED vars
  <2>1. /\ Quiet /\ main' = main /\ mainAt' = mainAt /\ Threads' = Threads /\ state' = state
        /\ UNCHANGED <<jvm, killed, handler>>
        /\ \A t : IsTransactional(t)' = IsTransactional(t)
    BY <1>2, TestFixed DEF Quiet, vars, mainVars, threadVars
  <2>2. MainInv' /\ ExitInv'
    BY <2>1 DEF IInv, MainInv, ExitInv
  <2> QED
    BY <1>1, <2>1, <2>2, QuietKeeps DEF IInv
<1>3. CASE Next
  <2>1. MainInv' /\ ExitInv'
    BY <1>3, MainStepInv, ExitStepInv DEF IInv
  <2>2. CASE \E t \in Threads : AnyStep(t)
    BY <1>1, <2>1, <2>2, ThreadKeeps DEF IInv
  <2>3. CASE StartThread
    BY <1>1, <2>1, <2>3, StartKeeps DEF IInv
  <2>4. CASE ~(\E t \in Threads : AnyStep(t)) /\ ~StartThread
    BY <1>1, <1>3, <2>1, <2>4, QuietCases, QuietKeeps DEF IInv
  <2> QED
    BY <2>2, <2>3, <2>4
<1> QED
  BY <1>2, <1>3

\* The inductive invariant holds in every state of every test.
THEOREM Invariant == Spec => []IInv
BY InitInv, StepInv, PTL DEF Spec

-----------------------------------------------------------------------------
(* What follows *)

\* The variables of threads, broker and main have values of their types.
THEOREM TypeCorrect == Spec => []TypeOK
<1>1. IInv => TypeOK
  BY DEF IInv
<1> QED
  BY <1>1, Invariant, PTL

\* A topic subscription has everything published since the test began, in order
\* and once, in any test and behind any faults.
THEOREM TopicComplete == Spec => []NothingMissed
<1>1. IInv => NothingMissed
  BY DEF IInv
<1> QED
  BY <1>1, Invariant, PTL

\* The queue neither loses a message nor delivers one twice, but by the
\* acknowledgement of a receiver that is not transacted.
THEOREM QueueComplete == Spec => []QueueConserved
<1>1. IInv => QueueConserved
  <2> SUFFICES ASSUME IInv PROVE QueueConserved
    OBVIOUS
  <2> DEFINE f == [t \in Threads |-> Len(unacked[t])]
             g == [t \in Threads |-> Len(settled[t])]
             h == [t \in Threads |-> Occurrences(unacked[t], Message)]
             k == [t \in Threads |-> Occurrences(settled[t], Message)]
  <2>1. ASSUME NEW s \in Seq(Message)
        PROVE  Occurrences(s, Message) = Len(s) /\ Len(s) \in Nat
    BY OccurrencesType, ElementOfSeq, LenProperties
  <2>2. \A t \in Threads : h[t] \in Int /\ f[t] = h[t] /\ k[t] \in Int /\ g[t] = k[t]
    <3>1. \A t \in Threads : unacked[t] \in Seq(Message) /\ settled[t] \in Seq(Message)
      BY DEF IInv, TypeOK
    <3> QED
      BY <2>1, <3>1
  <2>3. /\ QueueReceivers \in SUBSET Threads /\ AckReceivers \in SUBSET Threads
        /\ IsFiniteSet(QueueReceivers) /\ IsFiniteSet(AckReceivers)
    <3>1. QueueReceivers \in SUBSET Threads /\ AckReceivers \in SUBSET Threads
      BY DEF QueueReceivers, AckReceivers
    <3> QED
      BY <3>1, ThreadsFinite, FS_Subset DEF IInv, TypeOK
  <2>4. Held(Message) = SumFunctionOnSet(h, QueueReceivers) /\ Kept(Message) = SumFunctionOnSet(k, AckReceivers)
    BY DEF Held, Kept, CountOf
  <2> HIDE DEF f, g, h, k
  <2>5. SumFunctionOnSet(f, QueueReceivers) = SumFunctionOnSet(h, QueueReceivers)
    <3>1. \A t \in QueueReceivers : h[t] \in Int /\ f[t] = h[t]
      BY <2>2, <2>3
    <3> QED
      BY <2>3, <3>1, SumSame
  <2>6. SumFunctionOnSet(g, AckReceivers) = SumFunctionOnSet(k, AckReceivers)
    <3>1. \A t \in AckReceivers : k[t] \in Int /\ g[t] = k[t]
      BY <2>2, <2>3
    <3> QED
      BY <2>3, <3>1, SumSame
  <2>7. /\ Occurrences(stored[TheQueue], Message) = Len(stored[TheQueue])
        /\ Occurrences(sentLog["queue"], Message) = Len(sentLog["queue"])
    <3>1. stored[TheQueue] \in Seq(Message) /\ sentLog["queue"] \in Seq(Message)
      BY DEF IInv, TypeOK, Destination
    <3> QED
      BY <2>1, <3>1
  <2>8. Len(stored[TheQueue]) + SumFunctionOnSet(f, QueueReceivers)
          + SumFunctionOnSet(g, AckReceivers) - Len(sentLog["queue"]) \in {0, 1}
    BY <2>4, <2>5, <2>6, <2>7 DEF IInv, BalanceInv, Balance
  <2> QED
    BY <2>8 DEF QueueConserved, f, g
<1> QED
  BY <1>1, Invariant, PTL

\* No counter of a thread claims what the broker has not seen.
THEOREM CountersTrue == Spec => []CountsAreTrue
<1>1. IInv => CountsAreTrue
  <2> SUFFICES ASSUME IInv, NEW t \in Threads
               PROVE  IF IsConsumer(t) THEN Ack(t) # "transacted" => counted[t] <= Len(settled[t])
                      ELSE IF IsTransactional(t)
                        THEN counted[t] <= SentBy(t) /\ (faults = 0 => counted[t] = SentBy(t))
                        ELSE \/ SentBy(t) = counted[t]
                             \/ SentBy(t) = counted[t] + 1 /\ state[t] \in {"count", "failed"}
    BY DEF CountsAreTrue
  <2>1. CASE ~IsConsumer(t)
    BY <2>1 DEF IInv, SentInv, SentOf
  <2>2. CASE IsConsumer(t) /\ Ack(t) # "transacted"
    <3>1. /\ counted[t] \in Nat /\ Due(t) \in {0, 1} /\ settled[t] \in Seq(Message)
          /\ counted[t] + Due(t) <= Occurrences(settled[t], Own)
      BY <2>2 DEF IInv, TypeOK, Due, CountInv, CountedOf
    <3>2. /\ Occurrences(settled[t], Own) \in Nat /\ Len(settled[t]) \in Nat
          /\ Occurrences(settled[t], Own) <= Len(settled[t])
      BY <3>1, OccurrencesType, LenProperties
    <3> QED
      BY <2>2, <3>1, <3>2
  <2> QED
    BY <2>1, <2>2
<1> QED
  BY <1>1, Invariant, PTL

\* A thread that is no transactional publisher ends normally only behind exactly the
\* messages it is to send or receive, and never if their number exceeds its int
\* counter; and a handler that is through leaves less than a batch in its list.
LEMMA EndIsComplete ==
  ASSUME IInv
  PROVE  NormalEndIsComplete
<1> USE DEF IInv
<1>1. ASSUME NEW t \in Threads, ~IsTransactional(t), state[t] = "ended"
      PROVE  counted[t] = Config(t).count /\ Config(t).count < IntMax
  BY <1>1 DEF LoopInv, LoopOf
<1>2. ASSUME NEW t \in Threads, IsTransactional(t), Config(t).batch > 0,
             Drained(t) \/ (state[t] # "new" /\ jvm # "up" /\ ~killed)
      PROVE  Config(t).count - counted[t] < Config(t).batch
  <2>1. handler[t] \in {"drained", "exited"}
    BY <1>2 DEF Drained, ExitInv
  <2>2. i[t] = Config(t).count + 1 /\ Listed(t) < Config(t).batch
    BY <1>2, <2>1 DEF BatchInv, BatchOf
  <2>3. Config(t).count \in Nat /\ i[t] \in Int /\ counted[t] \in Nat
    BY ConfigKinds, ClientAssumption DEF TypeOK, ClientAssumption
  <2> QED
    BY <2>2, <2>3 DEF Listed
<1> QED
  BY <1>1, <1>2 DEF NormalEndIsComplete

\* Whatever calls throw, a plain publisher or a consumer that ends normally has counted
\* its message count; and the JVM does not end by itself before the handler of each
\* transactional publisher is through, with less than a batch left.
THEOREM EndsComplete == Spec => []NormalEndIsComplete
BY EndIsComplete, Invariant, PTL

\* When all threads have ended normally and no list was repeated, nobody has sent more
\* than it brings.
LEMMA AllSent ==
  ASSUME IInv, \A t \in Threads : state[t] = "ended" /\ ~Repeated(t), NEW d \in Destination
  PROVE  Len(sentLog[d]) <= Arrives(d) /\ Arrives(d) \in Int
<1> USE DEF IInv
<1> DEFINE P == PublishersOf(d)
           f == [t \in Threads |-> SentBy(t)]
           g == [t \in Threads |-> Brings(t)]
<1>1. P \in SUBSET Threads /\ IsFiniteSet(P) /\ \A t \in P : ~IsConsumer(t)
  <2>1. P \in SUBSET Threads /\ \A t \in P : ~IsConsumer(t)
    BY DEF PublishersOf
  <2> QED
    BY <2>1, ThreadsFinite, FS_Subset DEF TypeOK
<1>2. ASSUME NEW t \in P PROVE f[t] \in Int /\ g[t] \in Int /\ f[t] <= g[t]
  <2>1. /\ t \in Threads /\ ~IsConsumer(t) /\ SentBy(t) \in Nat /\ counted[t] \in Nat
        /\ Config(t).count \in Nat /\ i[t] \in Int
    BY <1>1, SentByIs, ConfigKinds, ClientAssumption DEF TypeOK, ClientAssumption
  <2>2. CASE IsTransactional(t)
    <3>1. SentBy(t) <= counted[t]
      BY <2>1, <2>2 DEF Repeated
    <3>2. counted[t] <= Config(t).count
      BY <2>1, <2>2 DEF BatchInv, BatchOf, Listed
    <3>3. faults = 0 => counted[t] <= FullBatches(t) /\ FullBatches(t) \in Nat
      BY <2>1, <2>2, CommittedFull
    <3>4. Brings(t) \in Int /\ SentBy(t) <= Brings(t)
      <4>1. Brings(t) = IF faults = 0 THEN FullBatches(t) ELSE Config(t).count
        BY <2>2 DEF Brings
      <4> QED
        BY <2>1, <3>1, <3>2, <3>3, <4>1
    <3> QED
      BY <2>1, <3>4
  <2>3. CASE ~IsTransactional(t)
    <3>1. SentBy(t) = counted[t] /\ counted[t] = Config(t).count /\ Brings(t) = Config(t).count
      BY <2>1, <2>3, EndIsComplete DEF NormalEndIsComplete, SentInv, SentOf, Brings
    <3> QED
      BY <2>1, <3>1
  <2> QED
    BY <2>2, <2>3
<1>3. Sent(d) = SumFunctionOnSet(f, P) /\ Arrives(d) = SumFunctionOnSet(g, P)
  BY DEF Sent, Arrives
<1> HIDE DEF f, g, P
<1>4. SumFunctionOnSet(f, P) <= SumFunctionOnSet(g, P) /\ SumFunctionOnSet(g, P) \in Int
  BY <1>1, <1>2, SumMonotone, SumType
<1> QED
  BY <1>3, <1>4 DEF SentInv

\* A test some of whose consumers must starve never completes by itself, unless a
\* thread failed or a transactional publisher repeated a list.
THEOREM NeverDone == Spec => []StarvedNeverDone
<1>1. IInv => StarvedNeverDone
  <2> SUFFICES ASSUME IInv, Starved, \A t \in Threads : state[t] = "ended" /\ ~Repeated(t)
               PROVE  FALSE
    BY DEF StarvedNeverDone, IInv, MainInv, Over
  <2>1. NormalEndIsComplete /\ test \in Tests
    BY EndIsComplete DEF IInv, TypeOK
  <2>2. \A d \in Destination : Len(sentLog[d]) <= Arrives(d) /\ Arrives(d) \in Int
    BY AllSent
  <2>3. \A t \in Threads : Config(t).count \in Nat
    BY <2>1, ConfigKinds
  <2>4. ASSUME NEW t \in Threads, IsConsumer(t)
        PROVE  /\ counted[t] = Config(t).count /\ Due(t) = 0
               /\ counted[t] <= Len(sentLog[Source(t)])
               /\ t \in AckReceivers => counted[t] <= Occurrences(settled[t], Own)
    <3>1. counted[t] = Config(t).count /\ Due(t) = 0
      BY <2>1, <2>4 DEF NormalEndIsComplete, IsTransactional, Due
    <3>2. CountedOf(t) /\ counted[t] \in Nat
      BY <2>4 DEF IInv, CountInv, TypeOK
    <3>3. counted[t] + Due(t) = counted[t]
      BY <3>1, <3>2
    <3> QED
      BY <3>1, <3>2, <3>3 DEF CountedOf, AckReceivers
  <2>5. ~Overflows
    <3> SUFFICES ASSUME NEW t \in Threads, ~IsTransactional(t), Config(t).count >= IntMax PROVE FALSE
      BY DEF Overflows
    <3>1. Config(t).count < IntMax
      BY <2>1 DEF NormalEndIsComplete
    <3> QED
      BY <2>3, <3>1, ClientAssumption DEF ClientAssumption
  <2>6. \A t \in Threads : IsConsumer(t) => ~(Config(t).count > Arrives(Source(t)))
    <3> TAKE t \in Threads
    <3> HAVE IsConsumer(t)
    <3>1. Source(t) \in Destination
      BY <2>1, ConfigKinds
    <3>2. /\ Config(t).count <= Len(sentLog[Source(t)])
          /\ Len(sentLog[Source(t)]) <= Arrives(Source(t)) /\ Arrives(Source(t)) \in Int
      BY <2>2, <2>4, <3>1
    <3>3. Len(sentLog[Source(t)]) \in Nat
      BY <3>1, LenProperties DEF IInv, TypeOK
    <3> QED
      BY <2>3, <3>2, <3>3
  <2>7. ~(Awaited(AckReceivers) > Arrives("queue"))
    <3> DEFINE f == [t \in Threads |-> Config(t).count]
               g == [t \in Threads |-> Occurrences(settled[t], Own)]
    <3>1. /\ AckReceivers \in SUBSET Threads /\ IsFiniteSet(AckReceivers)
          /\ \A t \in AckReceivers : IsConsumer(t)
      <4>1. AckReceivers \in SUBSET Threads /\ \A t \in AckReceivers : IsConsumer(t)
        BY DEF QueueReceivers, AckReceivers
      <4> QED
        BY <2>1, <4>1, ThreadsFinite, FS_Subset
    <3>2. ASSUME NEW t \in AckReceivers
          PROVE  f[t] \in Int /\ g[t] \in Int /\ f[t] <= g[t]
      <4>1. settled[t] \in Seq(Message) /\ IsConsumer(t) /\ t \in Threads
        BY <3>1 DEF IInv, TypeOK
      <4>2. Occurrences(settled[t], Own) \in Nat
        BY <4>1, OccurrencesType
      <4> QED
        BY <2>3, <2>4, <4>1, <4>2
    <3>3. Awaited(AckReceivers) = SumFunctionOnSet(f, AckReceivers) /\ Kept(Own) = SumFunctionOnSet(g, AckReceivers)
      BY DEF Awaited, Kept, CountOf
    <3> HIDE DEF f, g
    <3>4. Awaited(AckReceivers) <= Kept(Own) /\ Awaited(AckReceivers) \in Int /\ Kept(Own) \in Int
      BY <3>1, <3>2, <3>3, SumMonotone, SumType
    <3>5. Kept(Own) <= Len(sentLog["queue"])
      <4> DEFINE x == Occurrences(stored[TheQueue], Own)
                 y == Occurrences(sentLog["queue"], Own)
      <4>1. stored[TheQueue] \in Seq(Message) /\ sentLog["queue"] \in Seq(Message)
        BY DEF IInv, TypeOK, Destination
      <4>2. x \in Nat /\ y \in Nat /\ y <= Len(sentLog["queue"]) /\ Len(sentLog["queue"]) \in Nat
        BY <4>1, OccurrencesType, LenProperties
      <4>3. Held(Own) \in Nat
        <5> DEFINE k == [t \in Threads |-> Occurrences(unacked[t], Own)]
        <5>1. QueueReceivers \in SUBSET Threads /\ IsFiniteSet(QueueReceivers)
          <6>1. QueueReceivers \in SUBSET Threads
            BY DEF QueueReceivers
          <6> QED
            BY <2>1, <6>1, ThreadsFinite, FS_Subset
        <5>2. \A t \in QueueReceivers : k[t] \in Nat
          <6>1. \A t \in Threads : unacked[t] \in Seq(Message)
            BY DEF IInv, TypeOK
          <6> QED
            BY <5>1, <6>1, OccurrencesType
        <5>3. Held(Own) = SumFunctionOnSet(k, QueueReceivers)
          BY DEF Held, CountOf
        <5> HIDE DEF k
        <5> QED
          BY <5>1, <5>2, <5>3, SumOfNaturals
      <4>4. x + Held(Own) + Kept(Own) - y = 0
        BY DEF IInv, BalanceInv, Balance
      <4>5. \A a, b \in Nat, c, d \in Int : a + b + c - d = 0 => c <= d
        OBVIOUS
      <4> HIDE DEF x, y
      <4>6. Kept(Own) <= y
        BY <3>4, <4>2, <4>3, <4>4, <4>5
      <4> QED
        BY <3>4, <4>2, <4>6
    <3>6. /\ Len(sentLog["queue"]) <= Arrives("queue") /\ Arrives("queue") \in Int
          /\ Len(sentLog["queue"]) \in Nat
      BY <2>2, LenProperties DEF IInv, TypeOK, Destination
    <3> QED
      BY <3>4, <3>5, <3>6
  <2> QED
    BY <2>5, <2>6, <2>7 DEF Starved
<1> QED
  BY <1>1, Invariant, PTL

=============================================================================
