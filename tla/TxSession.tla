----------------------------- MODULE TxSession -----------------------------
(***************************************************************************)
(* A transacted JMS session as the publishers use it: AMQPQueueSender and   *)
(* AMQPTopicPublisher wrap send, commit, rollback and close, turning every  *)
(* JMSException into an ATCException.  The broker behind them is external;  *)
(* each call may fail in the ways a remote transaction can:                 *)
(*   - a send that throws may or may not have reached the transaction;      *)
(*   - a commit that throws may have been applied (the reply was lost);     *)
(*   - a rollback that throws may or may not have emptied the transaction;  *)
(*   - a close that throws may or may not have closed its object;           *)
(*   - the connection may drop in any call, and everything fails after it.  *)
(* FaultyCalls selects the faults of a run, MaxFaults bounds their number.  *)
(* A call on a closed object always throws, which is no fault of the        *)
(* broker and is not counted.                                               *)
(***************************************************************************)
EXTENDS Sequences, Integers

CONSTANTS
  FaultyCalls,   \* the kinds of fault the broker shows in this run
  MaxFaults,     \* how many faults it shows
  CloseOrder     \* the calls of SimplePublisher.close(), in order

QueueSenderClose    == <<"sender", "session", "connection">>
TopicPublisherClose == <<"sender", "session", "stop", "connection">>

ASSUME SessionAssumption ==
  /\ FaultyCalls \subseteq
       {"send", "commit", "lostReply", "rollback", "close", "drop"}
  /\ MaxFaults \in Nat
  /\ CloseOrder \in {QueueSenderClose, TopicPublisherClose}

VARIABLES
  tx,       \* messages sent in the open transaction
  queue,    \* messages committed to the destination, in order
  closed,   \* the JMS objects that are closed (or stopped)
  faults,   \* faults shown so far
  doubt     \* history: a commit has thrown although it was applied

sessionVars == <<tx, queue, closed, faults, doubt>>

JMSObjects == {"sender", "session", "stop", "connection"}

SessionInit ==
  /\ tx = << >>
  /\ queue = << >>
  /\ closed = {}
  /\ faults = 0
  /\ doubt = FALSE

Fault(call) ==
  /\ call \in FaultyCalls
  /\ faults < MaxFaults
  /\ faults' = faults + 1

\* The connection is lost with everything opened on it; the broker discards
\* the transaction.
Drop ==
  /\ Fault("drop")
  /\ closed' = JMSObjects
  /\ tx' = << >>

SenderOpen  == closed \cap {"sender", "session"} = {}
SessionOpen == "session" \notin closed

-----------------------------------------------------------------------------

Send(m) ==
  /\ SenderOpen
  /\ tx' = Append(tx, m)
  /\ UNCHANGED <<queue, closed, faults, doubt>>

SendThrows(m) ==
  \/ ~SenderOpen /\ UNCHANGED sessionVars
  \/ /\ SenderOpen
     /\ \/ Fault("send") /\ tx' \in {tx, Append(tx, m)} /\ UNCHANGED closed
        \/ Drop
     /\ UNCHANGED <<queue, doubt>>

Commit ==
  /\ SessionOpen
  /\ queue' = queue \o tx
  /\ tx' = << >>
  /\ UNCHANGED <<closed, faults, doubt>>

CommitThrows ==
  \/ ~SessionOpen /\ UNCHANGED sessionVars
  \/ /\ SessionOpen
     /\ \/ /\ Fault("commit")
           /\ tx' \in {tx, << >>}
           /\ UNCHANGED <<queue, closed, doubt>>
        \/ /\ Fault("lostReply")
           /\ queue' = queue \o tx
           /\ tx' = << >>
           /\ doubt' = TRUE
           /\ UNCHANGED closed
        \/ /\ Drop
           /\ \/ UNCHANGED <<queue, doubt>>
              \/ queue' = queue \o tx /\ doubt' = TRUE

Rollback ==
  /\ SessionOpen
  /\ tx' = << >>
  /\ UNCHANGED <<queue, closed, faults, doubt>>

RollbackThrows ==
  \/ ~SessionOpen /\ UNCHANGED sessionVars
  \/ /\ SessionOpen
     /\ \/ Fault("rollback") /\ tx' \in {tx, << >>} /\ UNCHANGED closed
        \/ Drop
     /\ UNCHANGED <<queue, doubt>>

\* Closing the session rolls its open transaction back.
Close(r) ==
  /\ closed' = closed \cup {r}
  /\ tx' = IF r = "session" THEN << >> ELSE tx
  /\ UNCHANGED <<queue, faults, doubt>>

CloseThrows(r) ==
  /\ \/ /\ Fault("close")
        /\ \/ UNCHANGED <<closed, tx>>
           \/ /\ closed' = closed \cup {r}
              /\ tx' = IF r = "session" THEN << >> ELSE tx
     \/ Drop
  /\ UNCHANGED <<queue, doubt>>

=============================================================================
