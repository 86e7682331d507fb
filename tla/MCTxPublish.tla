---------------------------- MODULE MCTxPublish ----------------------------
(* Instances of TxPublish for TLC: the constants a .cfg cannot write down. *)
EXTENDS TxPublishInTest

\* Transient faults: the connection stays up and close() works.
TransientFaults == {"send", "commit", "rollback"}

\* The same, and commits whose reply is lost.
LossyFaults == TransientFaults \cup {"lostReply"}

CloseFaults == {"close"}

\* Everything that can go wrong.
AllFaults == LossyFaults \cup {"close", "drop"}

NoFaults == {}
=============================================================================
