------------------------------- MODULE Broker -------------------------------
(***************************************************************************)
(* The JMS broker as the test client sees it (external): one queue and one  *)
(* topic.  An endpoint is what messages wait at: endpoint 0 is the queue,    *)
(* which all queue receivers share; endpoint t is the topic subscription of *)
(* client thread t.  A message that is delivered and not acknowledged goes  *)
(* back to its endpoint when the session ends.                              *)
(***************************************************************************)
EXTENDS Sequences, Integers

VARIABLES
  stored,      \* endpoint -> the messages waiting there, in order
  unacked,     \* thread -> messages delivered to it and not acknowledged
  settled,     \* thread -> messages it has acknowledged, in order (history)
  subscribed,  \* the topic subscriptions that exist
  sentLog      \* destination -> everything published to it (history)

brokerVars == <<stored, unacked, settled, subscribed, sentLog>>

TheQueue == 0

Destination == {"queue", "topic"}

\* A message some other client left on the queue; it is no TextMessage.
Foreign == [from |-> 0, id |-> 0]

BrokerInit(threads) ==
  /\ stored \in {[e \in {TheQueue} \cup threads |-> IF e = TheQueue THEN left ELSE << >>] :
                   left \in {<< >>, <<Foreign>>}}
  /\ unacked = [t \in threads |-> << >>]
  /\ settled = [t \in threads |-> << >>]
  /\ subscribed = {}
  /\ sentLog = [d \in Destination |-> << >>]

\* Messages ms reach destination dest: every subscription gets its own copy.
Arrive(dest, ms) ==
  LET receivers == IF dest = "queue" THEN {TheQueue} ELSE subscribed
  IN  /\ stored' = [e \in DOMAIN stored |->
                      IF e \in receivers THEN stored[e] \o ms ELSE stored[e]]
      /\ sentLog' = [sentLog EXCEPT ![dest] = @ \o ms]
      /\ UNCHANGED <<unacked, settled, subscribed>>

\* Thread t is handed the next message of endpoint e; `acknowledges` when the
\* session does so by itself on the way out of receive().
Take(t, e, acknowledges) ==
  /\ stored[e] # << >>
  /\ stored' = [stored EXCEPT ![e] = Tail(@)]
  /\ IF acknowledges
       THEN /\ settled' = [settled EXCEPT ![t] = Append(@, Head(stored[e]))]
            /\ UNCHANGED unacked
       ELSE /\ unacked' = [unacked EXCEPT ![t] = Append(@, Head(stored[e]))]
            /\ UNCHANGED settled
  /\ UNCHANGED <<subscribed, sentLog>>

\* message.acknowledge() acknowledges everything its session has delivered.
Settle(t) ==
  /\ settled' = [settled EXCEPT ![t] = @ \o unacked[t]]
  /\ unacked' = [unacked EXCEPT ![t] = << >>]
  /\ UNCHANGED <<stored, subscribed, sentLog>>

\* The session of t ends: what is not acknowledged waits at its endpoint again.
\* A subscription that is not durable ends with it.
EndSession(t, e, durable) ==
  /\ unacked' = [unacked EXCEPT ![t] = << >>]
  /\ IF e = TheQueue \/ durable
       THEN /\ stored' = [stored EXCEPT ![e] = unacked[t] \o @]
            /\ UNCHANGED subscribed
       ELSE /\ stored' = [stored EXCEPT ![e] = << >>]
            /\ subscribed' = subscribed \ {t}
  /\ UNCHANGED <<settled, sentLog>>

\* A durable subscription is deleted with what it holds.
RemoveSubscription(t) ==
  /\ subscribed' = subscribed \ {t}
  /\ stored' = [stored EXCEPT ![t] = << >>]
  /\ unacked' = [unacked EXCEPT ![t] = << >>]
  /\ UNCHANGED <<settled, sentLog>>

=============================================================================
