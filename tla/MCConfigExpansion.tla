------------------------- MODULE MCConfigExpansion -------------------------
(* Instances of ConfigExpansion for TLC: all lists of up to two entries from a
   few names, with up to three threads each. *)
EXTENDS ConfigExpansion

MCStems == {"a", "b"}

SomeEntries ==
  {[id |-> i, queueName |-> [stem |-> "a", num |-> q], subscriptionID |-> s,
    setting |-> g, parallelThreads |-> t] :
     i \in {[stem |-> "a", copies |-> << >>], [stem |-> "b", copies |-> << >>],
            [stem |-> "a", copies |-> <<2>>]},
     q \in {NoNumber, Placeholder},
     s \in {Blank, [stem |-> "a", num |-> Placeholder], [stem |-> "b", num |-> NoNumber]},
     g \in {"absent", "own"}, t \in 0..MaxThreads}

MCInputs == SeqOf({e \in SomeEntries : e.setting = "own" \/ e.queueName.num = Placeholder}, 2)
=============================================================================
