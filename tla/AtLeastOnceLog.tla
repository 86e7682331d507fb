--------------------------- MODULE AtLeastOnceLog ---------------------------
(***************************************************************************)
(* What a transactional publisher promises its destination.  The test       *)
(* accepts messages 1..MessageCount in order.  A delivery appends a run of  *)
(* accepted messages that starts right behind the last settled one; it may  *)
(* settle the run or leave it unsettled, and an unsettled run is delivered  *)
(* again from its start.  So duplicates are possible (at least once), gaps  *)
(* are not.  The log may be shut at any time, with the delivery itself too  *)
(* (a connection lost behind a commit): nothing is delivered after that.    *)
(*                                                                         *)
(* TxPublish implements this with accepted the loop's progress, log the     *)
(* committed messages and settled the sent counter.                         *)
(***************************************************************************)
EXTENDS Sequences, Integers

CONSTANT MessageCount

ASSUME LogAssumption == MessageCount \in Nat

VARIABLES accepted, settled, log, shut

logVars == <<accepted, settled, log, shut>>

\* Variant: one message further.
RunOffByOne(n) == [j \in 1..n |-> settled + j + 1]

\* The n messages behind the settled ones.
Run(n) == [j \in 1..n |-> settled + j]

Init ==
  /\ accepted = 0
  /\ settled = 0
  /\ log = << >>
  /\ shut = FALSE

Accept ==
  /\ accepted < MessageCount
  /\ accepted' = accepted + 1
  /\ UNCHANGED <<settled, log, shut>>

Deliver(n) ==
  /\ ~shut
  /\ log' = log \o Run(n)
  /\ settled' \in {settled, settled + n}
  /\ shut' \in BOOLEAN
  /\ UNCHANGED accepted

Shut ==
  /\ shut' = TRUE
  /\ UNCHANGED <<accepted, settled, log>>

Next ==
  \/ Accept
  \/ \E n \in 1..(accepted - settled) : Deliver(n)
  \/ Shut

Spec == Init /\ [][Next]_logVars

\* Every message of the log is preceded by all messages before it.
LogHasNoGap ==
  \A p \in 1..Len(log) : \A m \in 1..(log[p] - 1) : \E q \in 1..(p - 1) : log[q] = m

\* Settled messages are in the log.
SettledInLog ==
  \A m \in 1..settled : \E p \in 1..Len(log) : log[p] = m

=============================================================================
