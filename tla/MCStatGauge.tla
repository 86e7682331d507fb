---------------------------- MODULE MCStatGauge ----------------------------
(* Instances of StatGauge for TLC. *)
EXTENDS StatGauge

\* Single counts (publish, receive) and transaction batches of two.
SinglesAndBatches == {1, 2}
=============================================================================
