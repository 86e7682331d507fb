-------------------------- MODULE ConfigExpansion --------------------------
(***************************************************************************)
(* What ConfigReader does with one list of publishers or subscribers that    *)
(* the YAML file holds: fill in the global settings that are absent, then    *)
(* walk the list from its last entry to its first, append parallelThreads-1  *)
(* copies of each entry to the list that is being walked, and number them.   *)
(*                                                                         *)
(* Strings are modelled by their structure: an id is a word and the numbers   *)
(* that follow it ("__2"), to which a copy adds its own; a queue name or      *)
(* subscription id is a word with a number, with the placeholder "%d" in     *)
(* place of one, or with neither.                                           *)
(***************************************************************************)
EXTENDS Integers, SequencesExt

CONSTANTS
  Stems,       \* the words names are made of
  MaxThreads,  \* bound: the largest parallelThreads
  Inputs       \* the lists of this instance

NoNumber    == 0
Placeholder == -1

Name  == [stem : Stems, num : Nat \cup {Placeholder}]
Blank == [stem |-> "", num |-> NoNumber]

\* A publisher has no subscription id: it is Blank.  A setting (port, hostname and
\* so on) is absent, the entry's own, or the global one.
Entry == [id : [stem : Stems, copies : Seq(Nat)], queueName : Name, subscriptionID : Name \cup {Blank},
          setting : {"absent", "own", "global"}, parallelThreads : 0..MaxThreads]

ASSUME ExpansionAssumption ==
  /\ MaxThreads \in Nat \ {0}
  /\ "" \notin Stems
  /\ Inputs \subseteq {l \in Seq(Entry) :
                         \A n \in 1..Len(l) : l[n].setting \in {"absent", "own"}}

VARIABLES
  input,   \* the list as the file has it
  list,    \* the list as it is
  pos,     \* the entry the current loop is at
  copied,  \* copies of that entry already made
  phase    \* "defaults", "copies" or "done"

vars == <<input, list, pos, copied, phase>>

Init ==
  /\ input \in Inputs
  /\ list = input
  /\ pos = 1
  /\ copied = 0
  /\ phase = "defaults"

-----------------------------------------------------------------------------

\* addGlobalConfigurationsIfAbsent
WithDefaults(e) == [e EXCEPT !.setting = IF @ = "absent" THEN "global" ELSE @]

\* replace("%d", ...)
Numbered(name, n) == IF name.num = Placeholder THEN [name EXCEPT !.num = n] ELSE name

\* isNotBlank guards the subscription id.
NumberedID(name, n) == IF name = Blank THEN Blank ELSE Numbered(name, n)

\* The copy's id: the original's, "__" and the number.
CopyId(id, n) == [id EXCEPT !.copies = Append(@, n)]

\* Variant: a copy keeps the subscription id of its original.
CopySameSubscription(e, n) ==
  [e EXCEPT !.id = CopyId(@, n), !.queueName = Numbered(@, n)]

\* The n-th thread's copy of entry e.
Copy(e, n) ==
  [e EXCEPT !.id = CopyId(@, n), !.queueName = Numbered(@, n),
            !.subscriptionID = NumberedID(@, n)]

\* What is left of %d in the original becomes 1.
Original(e) == [e EXCEPT !.queueName = Numbered(@, 1), !.subscriptionID = NumberedID(@, 1)]

SetDefaults ==
  /\ phase = "defaults"
  /\ pos <= Len(list)
  /\ list' = [list EXCEPT ![pos] = WithDefaults(@)]
  /\ pos' = pos + 1
  /\ UNCHANGED <<input, copied, phase>>

StartCopying ==
  /\ phase = "defaults"
  /\ pos > Len(list)
  /\ phase' = "copies"
  /\ pos' = Len(list)
  /\ UNCHANGED <<input, list, copied>>

\* for (int j = 0; j < parallelThreads - 1; j++)
MoreCopies == copied < list[pos].parallelThreads - 1

\* Variant: %d is replaced in the original before its copies are made.
AddCopyOfNumbered ==
  /\ phase = "copies"
  /\ pos > 0
  /\ MoreCopies
  /\ list' = Append([list EXCEPT ![pos] = Original(@)], Copy(Original(list[pos]), copied + 2))
  /\ copied' = copied + 1
  /\ UNCHANGED <<input, pos, phase>>

AddCopy ==
  /\ phase = "copies"
  /\ pos > 0
  /\ MoreCopies
  /\ list' = Append(list, Copy(list[pos], copied + 2))
  /\ copied' = copied + 1
  /\ UNCHANGED <<input, pos, phase>>

NumberOriginal ==
  /\ phase = "copies"
  /\ pos > 0
  /\ ~MoreCopies
  /\ list' = [list EXCEPT ![pos] = Original(@)]
  /\ pos' = pos - 1
  /\ copied' = 0
  /\ UNCHANGED <<input, phase>>

Finish ==
  /\ phase = "copies"
  /\ pos = 0
  /\ phase' = "done"
  /\ UNCHANGED <<input, list, pos, copied>>

Done == phase = "done" /\ UNCHANGED vars

Next == SetDefaults \/ StartCopying \/ AddCopy \/ NumberOriginal \/ Finish \/ Done

Spec == Init /\ [][Next]_vars

-----------------------------------------------------------------------------

Entries == 1..Len(input)

\* As many threads as the file asks for; parallelThreads 0 (not configured) is one.
ExtraThreads(n) == IF input[n].parallelThreads = 0 THEN 0 ELSE input[n].parallelThreads - 1

\* The result in one line: the numbered originals, then the copies of the last
\* entry, of the one before it, and so on.
Expected ==
  LET e(n) == WithDefaults(input[n])
      copies(n) == [c \in 1..ExtraThreads(n) |-> Copy(e(n), c + 1)]
  IN  [n \in Entries |-> Original(e(n))]
        \o FlattenSeq([n \in Entries |-> copies(Len(input) + 1 - n)])

\* The walk computes the same list, in the same order.
MatchesReference == phase = "done" => list = Expected

\* Main registers one gauge per id and dies of a second one with the same name:
\* ids stay distinct if they are in the file, unless one of the file's looks like
\* the copy of another.
DistinctIds ==
  LET clash == \E m, n \in Entries :
                 \/ m # n /\ input[m].id = input[n].id
                 \/ \E c \in 2..input[n].parallelThreads : 
                      input[m].id = CopyId(input[n].id, c)
  IN  phase = "done" /\ ~clash => \A p, q \in DOMAIN list : list[p].id = list[q].id => p = q

\* A broker lets one subscriber at a time use a durable subscription: if every entry
\* with several threads has a %d in its subscription id and no two entries share a
\* stem, no two threads share a subscription.
DistinctSubscriptions ==
  LET apart == \A n \in Entries :
                 /\ input[n].subscriptionID # Blank
                 /\ input[n].parallelThreads > 1 => input[n].subscriptionID.num = Placeholder
                 /\ \A m \in Entries :
                      m # n => input[m].subscriptionID.stem # input[n].subscriptionID.stem
  IN  phase = "done" /\ apart =>
        \A p, q \in DOMAIN list : list[p].subscriptionID = list[q].subscriptionID => p = q

\* Both, of the same list.
DistinctNames == DistinctIds /\ DistinctSubscriptions

=============================================================================
