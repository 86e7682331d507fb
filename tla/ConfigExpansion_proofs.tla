------------------------ MODULE ConfigExpansion_proofs ------------------------
(***************************************************************************)
(* The expansion of a list of any length, with any numbers of threads.      *)
(***************************************************************************)
EXTENDS ConfigExpansion, SumLemmas, SequenceTheorems

-----------------------------------------------------------------------------
(* FlattenSeq of the community modules *)

\* The recursive function it is defined by.
IsFlat(f, ss) == f = [i \in 1..Len(ss) |-> IF i = 1 THEN ss[i] ELSE f[i - 1] \o ss[i]]

\* There is one.
LEMMA FlatExists ==
  ASSUME NEW S, NEW ss \in Seq(Seq(S))
  PROVE  \E f : IsFlat(f, ss)
<1> DEFINE n == Len(ss)
           Step(f, i) == IF i = 1 THEN ss[i] ELSE f[i - 1] \o ss[i]
           Has(k) == \E f : f \in [1..k -> Seq(S)] /\ \A i \in 1..k : f[i] = Step(f, i)
           Good == {k \in Nat : k <= n => Has(k)}
<1>1. n \in Nat /\ \A i \in 1..n : ss[i] \in Seq(S)
  BY LenProperties, ElementOfSeq
<1>2. 0 \in Good
  <2> DEFINE f == [i \in 1..0 |-> << >>]
  <2>1. f \in [1..0 -> Seq(S)] /\ \A i \in 1..0 : f[i] = Step(f, i)
    OBVIOUS
  <2> HIDE DEF f, Step
  <2> QED
    BY <2>1
<1>3. ASSUME NEW k \in Nat, k \in Good PROVE k + 1 \in Good
  <2> HIDE DEF Step
  <2> SUFFICES ASSUME k + 1 <= n
               PROVE  Has(k + 1)
    <3> HIDE DEF Has, n
    <3> QED
      OBVIOUS
  <2>1. PICK f : f \in [1..k -> Seq(S)] /\ \A i \in 1..k : f[i] = Step(f, i)
    <3>1. k <= n
      BY <1>1
    <3> QED
      BY <1>3, <3>1
  <2> DEFINE g == [i \in 1..(k + 1) |-> Step(f, i)]
  <2>2. \A i \in 1..k : g[i] = f[i]
    BY <2>1
  <2>3. ASSUME NEW i \in 1..(k + 1)
        PROVE  Step(f, i) \in Seq(S)
    <3>1. ss[i] \in Seq(S)
      BY <1>1
    <3>2. i # 1 => f[i - 1] \in Seq(S)
      BY <2>1
    <3> QED
      BY <3>1, <3>2, ConcatProperties DEF Step
  <2>4. ASSUME NEW i \in 1..(k + 1)
        PROVE  Step(g, i) = Step(f, i)
    <3>1. i # 1 => i - 1 \in 1..k
      OBVIOUS
    <3> HIDE DEF g
    <3>2. i # 1 => g[i - 1] = f[i - 1]
      BY <2>2, <3>1
    <3> QED
      BY <3>2 DEF Step
  <2>5. g \in [1..(k + 1) -> Seq(S)] /\ \A i \in 1..(k + 1) : g[i] = Step(f, i)
    BY <2>3
  <2> HIDE DEF g
  <2> QED
    BY <2>4, <2>5
<1>4. n \in Good
  <2> HIDE DEF Good, n
  <2> QED
    BY <1>1, <1>2, <1>3, SetInduction
<1>5. PICK f : f \in [1..n -> Seq(S)] /\ \A i \in 1..n : f[i] = Step(f, i)
  BY <1>1, <1>4
<1>6. f = [i \in 1..n |-> Step(f, i)]
  <2> HIDE DEF Step, n
  <2> QED
    BY <1>5
<1> QED
  BY <1>6 DEF IsFlat

\* On the sequences two of them share they agree, and what they give is a sequence.
LEMMA FlatUnique ==
  ASSUME NEW S, NEW ss \in Seq(Seq(S)), NEW n \in Nat, n <= Len(ss), NEW tt, Len(tt) \in Nat, n <= Len(tt),
         \A i \in 1..n : tt[i] = ss[i],
         NEW f, NEW g, IsFlat(f, ss), IsFlat(g, tt)
  PROVE  \A i \in 1..n : f[i] = g[i] /\ f[i] \in Seq(S)
<1> DEFINE Good == {k \in Nat : \A i \in 1..n : i <= k => f[i] = g[i] /\ f[i] \in Seq(S)}
<1>1. Len(ss) \in Nat /\ \A i \in 1..n : ss[i] \in Seq(S)
  BY LenProperties, ElementOfSeq
<1>2. ASSUME NEW i \in 1..n
      PROVE  /\ f[i] = IF i = 1 THEN ss[i] ELSE f[i - 1] \o ss[i]
             /\ g[i] = IF i = 1 THEN tt[i] ELSE g[i - 1] \o tt[i]
  <2>1. i \in 1..Len(ss) /\ i \in 1..Len(tt)
    BY <1>1
  <2>2. f[i] = IF i = 1 THEN ss[i] ELSE f[i - 1] \o ss[i]
    BY <2>1, Zenon DEF IsFlat
  <2>3. g[i] = IF i = 1 THEN tt[i] ELSE g[i - 1] \o tt[i]
    BY <2>1, Zenon DEF IsFlat
  <2> QED
    BY <2>2, <2>3
<1>3. 0 \in Good
  OBVIOUS
<1>4. ASSUME NEW k \in Nat, k \in Good PROVE k + 1 \in Good
  <2> SUFFICES ASSUME k + 1 \in 1..n
               PROVE  f[k + 1] = g[k + 1] /\ f[k + 1] \in Seq(S)
    BY <1>4
  <2>1. CASE k = 0
    <3>1. 1 \in 1..n /\ k + 1 = 1
      BY <2>1
    <3>2. f[1] = ss[1] /\ g[1] = tt[1] /\ tt[1] = ss[1] /\ ss[1] \in Seq(S)
      BY <1>1, <1>2, <3>1
    <3> QED
      BY <3>1, <3>2
  <2>2. CASE k # 0
    <3>1. k \in 1..n /\ (k + 1) - 1 = k /\ k + 1 # 1
      BY <2>2
    <3>2. f[k] = g[k] /\ f[k] \in Seq(S)
      BY <1>4, <3>1
    <3>3. f[k + 1] = f[k] \o ss[k + 1] /\ g[k + 1] = g[k] \o tt[k + 1] /\ tt[k + 1] = ss[k + 1] /\ ss[k + 1] \in Seq(S)
      BY <1>1, <1>2, <3>1
    <3> QED
      BY <3>2, <3>3, ConcatProperties
  <2> QED
    BY <2>1, <2>2
<1>5. n \in Good
  <2> HIDE DEF Good
  <2> QED
    BY <1>3, <1>4, SetInduction
<1> QED
  BY <1>5

\* Nothing flattened is nothing.
LEMMA FlattenEmpty == FlattenSeq(<< >>) = << >>
BY DEF FlattenSeq

\* One more sequence comes behind the others.
LEMMA FlattenAppend ==
  ASSUME NEW S, NEW ss \in Seq(Seq(S)), NEW tt \in Seq(Seq(S)),
         Len(tt) = Len(ss) + 1, \A i \in 1..Len(ss) : tt[i] = ss[i]
  PROVE  /\ FlattenSeq(ss) \in Seq(S)
         /\ FlattenSeq(tt) = FlattenSeq(ss) \o tt[Len(tt)]
<1> DEFINE n == Len(ss)
           f == CHOOSE x : IsFlat(x, ss)
           g == CHOOSE x : IsFlat(x, tt)
<1>1. n \in Nat /\ Len(tt) \in Nat /\ \A i \in 1..(n + 1) : tt[i] \in Seq(S)
  BY LenProperties, ElementOfSeq
<1>2. IsFlat(f, ss) /\ IsFlat(g, tt)
  BY FlatExists
<1>3. /\ FlattenSeq(ss) = IF n = 0 THEN ss ELSE f[n]
      /\ FlattenSeq(tt) = g[n + 1]
  BY <1>1 DEF FlattenSeq, IsFlat
<1> HIDE DEF f, g, n
<1>4. g[n + 1] = IF n = 0 THEN tt[1] ELSE g[n] \o tt[n + 1]
  <2>1. n + 1 \in 1..Len(tt) /\ (n + 1) - 1 = n /\ (n = 0 <=> n + 1 = 1)
    BY <1>1 DEF n
  <2>2. g[n + 1] = IF n + 1 = 1 THEN tt[n + 1] ELSE g[(n + 1) - 1] \o tt[n + 1]
    BY <1>2, <2>1, Zenon DEF IsFlat
  <2> QED
    BY <2>1, <2>2
<1>5. CASE n = 0
  <2>1. ss = << >>
    BY <1>5, EmptySeq DEF n
  <2> QED
    BY <1>1, <1>3, <1>4, <1>5, <2>1, EmptySeq, ConcatEmptySeq DEF n
<1>6. CASE n # 0
  <2>1. n \in 1..n
    BY <1>1, <1>6
  <2>2. f[n] = g[n] /\ f[n] \in Seq(S)
    <3>1. n <= Len(ss) /\ n <= Len(tt) /\ \A i \in 1..n : tt[i] = ss[i]
      BY <1>1 DEF n
    <3>2. \A i \in 1..n : f[i] = g[i] /\ f[i] \in Seq(S)
      BY <1>1, <1>2, <3>1, FlatUnique
    <3> QED
      BY <2>1, <3>2
  <2> QED
    BY <1>3, <1>4, <1>6, <2>2 DEF n
<1> QED
  BY <1>5, <1>6

-----------------------------------------------------------------------------
(* Sequences in parts *)

\* An element of the first part changes.
LEMMA ExceptFront ==
  ASSUME NEW S, NEW a \in Seq(S), NEW b \in Seq(S), NEW i \in 1..Len(a), NEW y \in S
  PROVE  [a \o b EXCEPT ![i] = y] = [a EXCEPT ![i] = y] \o b
<1> DEFINE la == Len(a)
           lb == Len(b)
           ab == a \o b
           a2 == [a EXCEPT ![i] = y]
           s == [ab EXCEPT ![i] = y]
           t == a2 \o b
<1>1. /\ ab \in Seq(S) /\ Len(ab) = la + lb /\ la \in Nat /\ lb \in Nat
      /\ \A j \in 1..(la + lb) : ab[j] = IF j <= la THEN a[j] ELSE b[j - la]
  BY ConcatProperties, LenProperties
<1>2. /\ a2 \in Seq(S) /\ Len(a2) = la
      /\ \A j \in 1..la : a2[j] = IF j = i THEN y ELSE a[j]
  BY ExceptSeq
<1>a. i \in 1..la
  OBVIOUS
<1> HIDE DEF ab, la, lb
<1>3. /\ s \in Seq(S) /\ Len(s) = la + lb
      /\ \A j \in 1..(la + lb) : s[j] = IF j = i THEN y ELSE ab[j]
  <2>1. i \in 1..Len(ab)
    BY <1>1, <1>a
  <2> QED
    BY <1>1, <2>1, ExceptSeq
<1> HIDE DEF a2
<1>4. /\ t \in Seq(S) /\ Len(t) = la + lb
      /\ \A j \in 1..(la + lb) : t[j] = IF j <= la THEN a2[j] ELSE b[j - la]
  <2>1. /\ t \in Seq(S) /\ Len(t) = Len(a2) + Len(b)
        /\ \A j \in 1..(Len(a2) + Len(b)) : t[j] = IF j <= Len(a2) THEN a2[j] ELSE b[j - Len(a2)]
    BY <1>2, ConcatProperties
  <2>2. Len(a2) = la /\ Len(b) = lb
    BY <1>2 DEF lb
  <2> HIDE DEF t
  <2> QED
    BY <2>1, <2>2
<1> HIDE DEF s, t
<1>5. ASSUME NEW j \in 1..(la + lb)
      PROVE  s[j] = t[j]
  <2>1. s[j] = IF j = i THEN y ELSE ab[j]
    BY <1>3
  <2>2. ab[j] = IF j <= la THEN a[j] ELSE b[j - la]
    BY <1>1
  <2>3. t[j] = IF j <= la THEN a2[j] ELSE b[j - la]
    BY <1>4
  <2>4. CASE j <= la
    <3>1. j \in 1..la
      BY <1>1, <2>4
    <3> QED
      BY <1>2, <2>1, <2>2, <2>3, <2>4, <3>1
  <2>5. CASE ~(j <= la)
    <3>1. j # i
      BY <1>1, <1>a, <2>5
    <3> QED
      BY <2>1, <2>2, <2>3, <2>5, <3>1
  <2> QED
    BY <2>4, <2>5
<1>6. s = t
  BY <1>3, <1>4, <1>5, SeqEqual
<1> QED
  BY <1>6 DEF s, t, a2, ab

-----------------------------------------------------------------------------
(* The walk *)

\* What becomes of the n-th entry of the file, and its copies.
Entered(n)   == WithDefaults(input[n])
CopiesOf(n)  == [c \in 1..ExtraThreads(n) |-> Copy(Entered(n), c + 1)]

\* The list, when the walk is at entry p and has made c copies of it.
Originals(p) == [n \in Entries |-> IF n > p THEN Original(Entered(n)) ELSE Entered(n)]
Backwards(k) == [n \in 1..k |-> CopiesOf(Len(input) + 1 - n)]
Begun(p, c)  == [d \in 1..c |-> Copy(Entered(p), d + 1)]
Walked(p, c) == Originals(p) \o (FlattenSeq(Backwards(Len(input) - p)) \o Begun(p, c))

PosInv ==
  /\ input \in Inputs
  /\ phase \in {"defaults", "copies", "done"} /\ copied \in Nat
  /\ phase = "defaults" => pos \in 1..(Len(input) + 1) /\ copied = 0
  /\ phase = "copies" => /\ pos \in 0..Len(input)
                         /\ IF pos = 0 THEN copied = 0 ELSE copied <= ExtraThreads(pos)
  /\ phase = "done" => pos = 0 /\ copied = 0

ListInv ==
  list = IF phase = "defaults" THEN [n \in Entries |-> IF n < pos THEN Entered(n) ELSE input[n]]
         ELSE Walked(pos, copied)

\* An entry stays one.
LEMMA EntryTypes ==
  ASSUME NEW e \in Entry
  PROVE  /\ WithDefaults(e) \in Entry /\ Original(e) \in Entry
         /\ \A n \in Nat : Copy(e, n) \in Entry
<1>1. /\ e.id \in [stem : Stems, copies : Seq(Nat)] /\ e.queueName \in Name
      /\ e.subscriptionID \in Name \cup {Blank}
      /\ e.setting \in {"absent", "own", "global"} /\ e.parallelThreads \in 0..MaxThreads
      /\ e = [id |-> e.id, queueName |-> e.queueName, subscriptionID |-> e.subscriptionID,
              setting |-> e.setting, parallelThreads |-> e.parallelThreads]
  BY DEF Entry
<1>2. ASSUME NEW q \in Name, NEW n \in Nat PROVE Numbered(q, n) \in Name
  BY DEF Numbered, Name
<1>3. ASSUME NEW q \in Name \cup {Blank}, NEW n \in Nat PROVE NumberedID(q, n) \in Name \cup {Blank}
  BY <1>2 DEF NumberedID
<1>4. WithDefaults(e) \in Entry
  BY DEF WithDefaults, Entry
<1>5. Original(e) \in Entry
  <2>1. Numbered(e.queueName, 1) \in Name /\ NumberedID(e.subscriptionID, 1) \in Name \cup {Blank}
    BY <1>1, <1>2, <1>3
  <2>2. Original(e) = [e EXCEPT !.queueName = Numbered(e.queueName, 1), !.subscriptionID = NumberedID(e.subscriptionID, 1)]
    BY DEF Original, Entry
  <2> QED
    BY <2>1, <2>2 DEF Entry
<1>6. ASSUME NEW n \in Nat PROVE Copy(e, n) \in Entry
  <2>1. Numbered(e.queueName, n) \in Name /\ NumberedID(e.subscriptionID, n) \in Name \cup {Blank}
    BY <1>1, <1>2, <1>3
  <2>2. CopyId(e.id, n) \in [stem : Stems, copies : Seq(Nat)]
    BY <1>1, AppendProperties DEF CopyId
  <2>3. Copy(e, n) = [e EXCEPT !.id = CopyId(e.id, n), !.queueName = Numbered(e.queueName, n),
                               !.subscriptionID = NumberedID(e.subscriptionID, n)]
    BY DEF Copy
  <2> QED
    BY <2>1, <2>2, <2>3 DEF Entry
<1> QED
  BY <1>4, <1>5, <1>6

\* A function on 1..n is a sequence.
LEMMA FunctionIsSeq ==
  ASSUME NEW S, NEW n \in Nat, NEW f \in [1..n -> S]
  PROVE  f \in Seq(S) /\ Len(f) = n
OBVIOUS

\* What a list is made of.
LEMMA Pieces ==
  ASSUME input \in Seq(Entry), NEW n \in Entries
  PROVE  /\ input[n] \in Entry /\ Entered(n) \in Entry /\ Original(Entered(n)) \in Entry
         /\ ExtraThreads(n) \in Nat
         /\ \A c \in Nat : Begun(n, c) \in Seq(Entry) /\ Len(Begun(n, c)) = c
         /\ CopiesOf(n) \in Seq(Entry) /\ CopiesOf(n) = Begun(n, ExtraThreads(n))
<1>1. input[n] \in Entry
  BY ElementOfSeq DEF Entries
<1>2. Entered(n) \in Entry
  BY <1>1, EntryTypes DEF Entered
<1>3. Original(Entered(n)) \in Entry /\ \A c \in Nat : Copy(Entered(n), c) \in Entry
  BY <1>2, EntryTypes
<1>4. ExtraThreads(n) \in Nat
  <2>1. input[n].parallelThreads \in 0..MaxThreads /\ MaxThreads \in Nat
    BY <1>1, ExpansionAssumption DEF Entry
  <2> QED
    BY <2>1 DEF ExtraThreads
<1>5. ASSUME NEW c \in Nat PROVE Begun(n, c) \in Seq(Entry) /\ Len(Begun(n, c)) = c
  <2>1. ASSUME NEW d \in 1..c PROVE Copy(Entered(n), d + 1) \in Entry
    BY <1>3
  <2>2. Begun(n, c) \in [1..c -> Entry]
    BY <2>1 DEF Begun
  <2> QED
    BY <2>2, FunctionIsSeq
<1>6. CopiesOf(n) = Begun(n, ExtraThreads(n))
  BY DEF CopiesOf, Begun
<1> QED
  BY <1>1, <1>2, <1>3, <1>4, <1>5, <1>6

\* The originals, as many as the file has entries.
LEMMA OriginalsTypes ==
  ASSUME input \in Seq(Entry), NEW p \in Int
  PROVE  /\ Originals(p) \in Seq(Entry) /\ Len(Originals(p)) = Len(input)
         /\ \A n \in Entries : Originals(p)[n] = IF n > p THEN Original(Entered(n)) ELSE Entered(n)
<1>1. Len(input) \in Nat
  BY LenProperties
<1>2. Originals(p) \in [1..Len(input) -> Entry]
  BY Pieces DEF Originals, Entries
<1>3. \A n \in Entries : Originals(p)[n] = IF n > p THEN Original(Entered(n)) ELSE Entered(n)
  BY DEF Originals
<1> QED
  BY <1>1, <1>2, <1>3, FunctionIsSeq

\* The copies, a sequence for each of the last k entries.
LEMMA BackwardsTypes ==
  ASSUME input \in Seq(Entry), NEW k \in 0..Len(input)
  PROVE  /\ Backwards(k) \in Seq(Seq(Entry)) /\ Len(Backwards(k)) = k
         /\ \A n \in 1..k : Backwards(k)[n] = CopiesOf(Len(input) + 1 - n)
<1>1. Len(input) \in Nat
  BY LenProperties
<1>2. ASSUME NEW n \in 1..k PROVE CopiesOf(Len(input) + 1 - n) \in Seq(Entry)
  <2>1. Len(input) + 1 - n \in Entries
    BY <1>1 DEF Entries
  <2> QED
    BY <2>1, Pieces
<1>3. Backwards(k) \in [1..k -> Seq(Entry)]
  BY <1>2 DEF Backwards
<1>4. \A n \in 1..k : Backwards(k)[n] = CopiesOf(Len(input) + 1 - n)
  BY DEF Backwards
<1> QED
  BY <1>1, <1>3, <1>4, FunctionIsSeq

\* One more entry has all its copies.
LEMMA OneMoreEntry ==
  ASSUME input \in Seq(Entry), NEW p \in Entries
  PROVE  /\ FlattenSeq(Backwards(Len(input) - p)) \in Seq(Entry)
         /\ FlattenSeq(Backwards(Len(input) - (p - 1))) =
              FlattenSeq(Backwards(Len(input) - p)) \o Begun(p, ExtraThreads(p))
<1> DEFINE k == Len(input) - p
           s == Backwards(k)
           t == Backwards(k + 1)
<1>1. Len(input) \in Nat /\ p \in 1..Len(input)
  BY LenProperties DEF Entries
<1>2. k \in 0..Len(input) /\ k + 1 \in 0..Len(input) /\ Len(input) - (p - 1) = k + 1
  BY <1>1
<1>3. /\ s \in Seq(Seq(Entry)) /\ Len(s) = k
      /\ \A n \in 1..k : s[n] = CopiesOf(Len(input) + 1 - n)
  BY <1>2, BackwardsTypes
<1>4. /\ t \in Seq(Seq(Entry)) /\ Len(t) = k + 1
      /\ \A n \in 1..(k + 1) : t[n] = CopiesOf(Len(input) + 1 - n)
  BY <1>2, BackwardsTypes
<1>5. t[k + 1] = CopiesOf(p)
  <2>1. k + 1 \in 1..(k + 1) /\ Len(input) + 1 - (k + 1) = p
    BY <1>1
  <2> HIDE DEF k, t
  <2> QED
    BY <1>4, <2>1
<1>6. CopiesOf(p) = Begun(p, ExtraThreads(p))
  BY Pieces
<1> HIDE DEF s, t, k
<1>7. \A n \in 1..k : t[n] = s[n]
  BY <1>1, <1>2, <1>3, <1>4
<1>8. FlattenSeq(s) \in Seq(Entry) /\ FlattenSeq(t) = FlattenSeq(s) \o t[Len(t)]
  BY <1>3, <1>4, <1>7, FlattenAppend
<1>9. FlattenSeq(t) = FlattenSeq(s) \o Begun(p, ExtraThreads(p))
  BY <1>4, <1>5, <1>6, <1>8
<1> QED
  BY <1>2, <1>8, <1>9 DEF s, t, k

-----------------------------------------------------------------------------
(* The steps *)

\* The file's list is one of entries.
LEMMA InputTypes ==
  ASSUME input \in Inputs
  PROVE  input \in Seq(Entry) /\ Len(input) \in Nat
<1>1. input \in Seq(Entry)
  BY ExpansionAssumption
<1> QED
  BY <1>1, LenProperties

\* At first no entry has its defaults.
LEMMA InitList == Init => PosInv /\ ListInv
<1> SUFFICES ASSUME Init PROVE PosInv /\ ListInv
  OBVIOUS
<1>1. input \in Inputs /\ list = input /\ pos = 1 /\ copied = 0 /\ phase = "defaults"
  BY DEF Init
<1>2. input \in Seq(Entry) /\ Len(input) \in Nat
  BY <1>1, InputTypes
<1>3. list = [n \in Entries |-> IF n < pos THEN Entered(n) ELSE input[n]]
  <2>1. ASSUME NEW n \in 1..Len(input) PROVE ~(n < pos)
    BY <1>1, <1>2
  <2>2. input = [n \in 1..Len(input) |-> input[n]]
    BY <1>2, LenProperties
  <2>3. [n \in 1..Len(input) |-> IF n < pos THEN Entered(n) ELSE input[n]] = [n \in 1..Len(input) |-> input[n]]
    BY <2>1, Zenon
  <2> QED
    BY <1>1, <2>2, <2>3 DEF Entries
<1>4. PosInv
  BY <1>1, <1>2 DEF PosInv
<1> QED
  BY <1>1, <1>3, <1>4 DEF ListInv

\* The entry at hand gets its defaults.
LEMMA SetDefaultsList == PosInv /\ ListInv /\ SetDefaults => PosInv' /\ ListInv'
<1> SUFFICES ASSUME PosInv, ListInv, SetDefaults PROVE PosInv' /\ ListInv'
  OBVIOUS
<1>1. /\ phase = "defaults" /\ phase' = "defaults" /\ input' = input /\ copied' = copied /\ copied = 0
      /\ pos <= Len(list) /\ list' = [list EXCEPT ![pos] = WithDefaults(list[pos])] /\ pos' = pos + 1
      /\ pos \in 1..(Len(input) + 1) /\ input \in Inputs
      /\ list = [n \in Entries |-> IF n < pos THEN Entered(n) ELSE input[n]]
  BY DEF SetDefaults, PosInv, ListInv
<1>2. input \in Seq(Entry) /\ Len(input) \in Nat
  BY <1>1, InputTypes
<1>3. Len(list) = Len(input)
  <2>1. \A n \in 1..Len(input) : input[n] \in Entry /\ Entered(n) \in Entry
    BY <1>2, Pieces DEF Entries
  <2>2. list \in [1..Len(input) -> Entry]
    BY <1>1, <2>1 DEF Entries
  <2> QED
    BY <1>2, <2>2, FunctionIsSeq
<1>4. pos \in Entries
  BY <1>1, <1>2, <1>3 DEF Entries
<1>5. ASSUME NEW n \in Entries
      PROVE  list'[n] = IF n < pos + 1 THEN Entered(n) ELSE input[n]
  <2>1. n \in Int /\ pos \in Int
    BY <1>1, <1>2 DEF Entries
  <2>2. CASE n = pos
    <3>1. list[pos] = input[pos]
      BY <1>1, <1>4, <2>1
    <3>2. list'[pos] = WithDefaults(input[pos])
      BY <1>1, <1>4, <3>1
    <3> QED
      BY <2>1, <2>2, <3>2 DEF Entered
  <2>3. CASE n # pos
    <3>1. list'[n] = list[n]
      BY <1>1, <2>3
    <3> QED
      BY <1>1, <2>1, <2>3, <3>1
  <2> QED
    BY <2>2, <2>3
<1>6. list' = [n \in Entries |-> IF n < pos + 1 THEN Entered(n) ELSE input[n]]
  <2>1. DOMAIN list' = Entries /\ list' = [n \in DOMAIN list' |-> list'[n]]
    BY <1>1, Zenon
  <2> QED
    BY <1>5, <2>1, Zenon
<1>7. PosInv'
  BY <1>1, <1>2, <1>4 DEF PosInv, Entries
<1> QED
  BY <1>1, <1>6, <1>7 DEF ListInv, Entries, Entered

\* With the defaults filled in the list is that of the originals.
LEMMA Filled ==
  ASSUME PosInv, ListInv, StartCopying
  PROVE  /\ input \in Seq(Entry) /\ Len(input) \in Nat
         /\ Len(list) = Len(input) /\ list = Originals(Len(input))
<1>1. /\ phase = "defaults" /\ pos > Len(list)
      /\ pos \in 1..(Len(input) + 1) /\ input \in Inputs
      /\ list = [n \in Entries |-> IF n < pos THEN Entered(n) ELSE input[n]]
  BY DEF StartCopying, PosInv, ListInv
<1>2. input \in Seq(Entry) /\ Len(input) \in Nat
  BY <1>1, InputTypes
<1>3. Len(list) = Len(input)
  <2>1. \A n \in 1..Len(input) : input[n] \in Entry /\ Entered(n) \in Entry
    BY <1>2, Pieces DEF Entries
  <2>2. list \in [1..Len(input) -> Entry]
    BY <1>1, <2>1 DEF Entries
  <2> QED
    BY <1>2, <2>2, FunctionIsSeq
<1>4. list = Originals(Len(input))
  <2>1. \A n \in Entries : n < pos /\ ~(n > Len(input))
    BY <1>1, <1>2, <1>3 DEF Entries
  <2>2. list = [n \in Entries |-> Entered(n)]
    BY <1>1, <2>1, Zenon
  <2>3. Originals(Len(input)) = [n \in Entries |-> Entered(n)]
    BY <2>1, Zenon DEF Originals
  <2> QED
    BY <2>2, <2>3
<1> QED
  BY <1>2, <1>3, <1>4

\* The walk starts at the last entry, with no copies.
LEMMA StartCopyingList == PosInv /\ ListInv /\ StartCopying => PosInv' /\ ListInv'
<1> SUFFICES ASSUME PosInv, ListInv, StartCopying PROVE PosInv' /\ ListInv'
  OBVIOUS
<1>1. /\ phase = "defaults" /\ phase' = "copies" /\ input' = input /\ copied' = copied /\ copied = 0
      /\ list' = list /\ pos' = Len(list) /\ input \in Inputs
  BY DEF StartCopying, PosInv, ListInv
<1>2. input \in Seq(Entry) /\ Len(input) \in Nat
  BY Filled
<1>3. Len(list) = Len(input)
  BY Filled
<1>4. list = Originals(Len(input))
  BY Filled
<1>5. Walked(Len(input), 0) = Originals(Len(input))
  <2>1. Len(input) - Len(input) = 0
    BY <1>2
  <2>2. Backwards(0) = << >> /\ Begun(Len(input), 0) = << >>
    BY DEF Backwards, Begun
  <2>3. Walked(Len(input), 0) = Originals(Len(input)) \o (FlattenSeq(<< >>) \o << >>)
    BY <2>1, <2>2 DEF Walked
  <2>4. FlattenSeq(<< >>) \o << >> = << >>
    BY FlattenEmpty, ConcatEmptySeq, EmptySeq
  <2> QED
    BY <1>2, <2>3, <2>4, OriginalsTypes, ConcatEmptySeq
<1>6. PosInv'
  <2>1. \A n \in Entries : 0 <= ExtraThreads(n)
    BY <1>2, Pieces
  <2> QED
    BY <1>1, <1>2, <1>3, <2>1 DEF PosInv, Entries, ExtraThreads
<1>7. list' = Walked(Len(input), 0)
  BY <1>1, <1>4, <1>5
<1>8. ListInv'
  BY <1>1, <1>3, <1>7 DEF ListInv, Walked, Originals, Backwards, Begun, CopiesOf, ExtraThreads, Entered, Entries
<1> QED
  BY <1>6, <1>8

\* Where the walk is, the entry is still without numbers and its copies are counted.
LEMMA AtEntry ==
  ASSUME PosInv, ListInv, phase = "copies", pos > 0
  PROVE  /\ pos \in Entries /\ list = Walked(pos, copied) /\ list[pos] = Entered(pos)
         /\ input \in Seq(Entry) /\ Len(input) \in Nat /\ copied \in 0..ExtraThreads(pos)
         /\ MoreCopies <=> copied < ExtraThreads(pos)
<1>1. /\ pos \in 0..Len(input) /\ pos # 0 /\ copied \in Nat /\ copied <= ExtraThreads(pos)
      /\ input \in Inputs /\ list = Walked(pos, copied)
  BY DEF PosInv, ListInv
<1>2. input \in Seq(Entry) /\ Len(input) \in Nat
  BY <1>1, InputTypes
<1>3. pos \in Entries
  BY <1>1, <1>2 DEF Entries
<1>4. ExtraThreads(pos) \in Nat
  BY <1>2, <1>3, Pieces
<1>5. list[pos] = Entered(pos)
  <2> DEFINE a == Originals(pos)
             b == FlattenSeq(Backwards(Len(input) - pos)) \o Begun(pos, copied)
  <2>1. a \in Seq(Entry) /\ Len(a) = Len(input) /\ a[pos] = Entered(pos)
    BY <1>1, <1>2, <1>3, OriginalsTypes
  <2>2. b \in Seq(Entry)
    BY <1>1, <1>2, <1>3, OneMoreEntry, Pieces, ConcatProperties
  <2>3. list = a \o b
    BY <1>1 DEF Walked
  <2> HIDE DEF a, b
  <2>4. /\ Len(b) \in Nat
        /\ \A i \in 1..(Len(a) + Len(b)) : list[i] = IF i <= Len(a) THEN a[i] ELSE b[i - Len(a)]
    BY <2>1, <2>2, <2>3, LenProperties, ConcatProperties
  <2>5. pos \in 1..(Len(a) + Len(b)) /\ pos <= Len(a)
    BY <1>1, <1>2, <2>1, <2>4
  <2> QED
    BY <2>1, <2>4, <2>5
<1>6. MoreCopies <=> copied < ExtraThreads(pos)
  <2>1. Entered(pos).parallelThreads = input[pos].parallelThreads
    BY <1>2, <1>3, Pieces DEF Entered, WithDefaults, Entry
  <2>2. input[pos].parallelThreads \in 0..MaxThreads /\ MaxThreads \in Nat
    BY <1>2, <1>3, Pieces, ExpansionAssumption DEF Entry
  <2> QED
    BY <1>1, <1>5, <2>1, <2>2 DEF MoreCopies, ExtraThreads
<1> QED
  BY <1>1, <1>2, <1>3, <1>4, <1>5, <1>6

\* One more copy goes behind the copies that entry has.
LEMMA AddCopyList == PosInv /\ ListInv /\ AddCopy => PosInv' /\ ListInv'
<1> SUFFICES ASSUME PosInv, ListInv, AddCopy PROVE PosInv' /\ ListInv'
  OBVIOUS
<1>1. /\ phase = "copies" /\ pos > 0 /\ MoreCopies
      /\ list' = Append(list, Copy(list[pos], copied + 2)) /\ copied' = copied + 1
      /\ input' = input /\ pos' = pos /\ phase' = phase
  BY DEF AddCopy
<1>2. /\ pos \in Entries /\ list = Walked(pos, copied) /\ list[pos] = Entered(pos)
      /\ input \in Seq(Entry) /\ Len(input) \in Nat /\ copied \in Nat /\ copied < ExtraThreads(pos)
  BY <1>1, AtEntry
<1> DEFINE a == Originals(pos)
           f == FlattenSeq(Backwards(Len(input) - pos))
           b == Begun(pos, copied)
           x == Copy(Entered(pos), copied + 2)
<1>3. a \in Seq(Entry) /\ f \in Seq(Entry) /\ b \in Seq(Entry) /\ x \in Entry
  <2>1. pos \in Int
    BY <1>2 DEF Entries
  <2> QED
    BY <1>2, <2>1, OriginalsTypes, OneMoreEntry, Pieces, EntryTypes
<1>4. Append(b, x) = Begun(pos, copied + 1)
  <2> DEFINE g == Begun(pos, copied + 1)
  <2>1. g \in Seq(Entry) /\ Len(g) = copied + 1 /\ Len(b) = copied
    BY <1>2, Pieces
  <2>2. ASSUME NEW d \in 1..(copied + 1) PROVE Append(b, x)[d] = g[d]
    <3>1. g[d] = Copy(Entered(pos), d + 1)
      BY DEF Begun
    <3>2. CASE d \in 1..copied
      <4>1. b[d] = Copy(Entered(pos), d + 1)
        BY <3>2 DEF Begun
      <4>2. Append(b, x)[d] = b[d]
        BY <1>3, <2>1, <3>2, AppendProperties
      <4> QED
        BY <3>1, <4>1, <4>2
    <3>3. CASE d = copied + 1
      <4>1. Append(b, x)[copied + 1] = x
        BY <1>3, <2>1, AppendProperties
      <4>2. d + 1 = copied + 2
        BY <1>2, <3>3
      <4> QED
        BY <3>1, <3>3, <4>1, <4>2
    <3>4. d \in 1..copied \/ d = copied + 1
      BY <1>2
    <3> QED
      BY <3>2, <3>3, <3>4
  <2> HIDE DEF b, g, x
  <2>3. Append(b, x) \in Seq(Entry) /\ Len(Append(b, x)) = copied + 1
    BY <1>3, <2>1, AppendProperties
  <2>4. Append(b, x) = g
    BY <2>1, <2>2, <2>3, SeqEqual
  <2> QED
    BY <2>4 DEF g
<1>5. list' = a \o (f \o Begun(pos, copied + 1))
  <2>1. list' = Append(a \o (f \o b), x)
    BY <1>1, <1>2 DEF Walked
  <2> HIDE DEF a, f, b, x
  <2>a. ASSUME NEW u \in Seq(Entry), NEW v \in Seq(Entry), NEW z \in Entry
        PROVE  Append(u \o v, z) = u \o Append(v, z)
    <3>1. u \o v \in Seq(Entry) /\ <<z>> \in Seq(Entry)
      BY ConcatProperties
    <3>2. Append(u \o v, z) = (u \o v) \o <<z>> /\ Append(v, z) = v \o <<z>>
      BY <3>1, AppendIsConcat
    <3>3. (u \o v) \o <<z>> = u \o (v \o <<z>>)
      BY <3>1, ConcatAssociative
    <3> QED
      BY <3>2, <3>3
  <2>b. f \o b \in Seq(Entry)
    BY <1>3, ConcatProperties
  <2>2. Append(a \o (f \o b), x) = a \o Append(f \o b, x)
    BY <1>3, <2>a, <2>b
  <2>3. Append(f \o b, x) = f \o Append(b, x)
    BY <1>3, <2>a
  <2> QED
    BY <1>4, <2>1, <2>2, <2>3
<1>6. list' = Walked(pos, copied + 1)
  BY <1>5 DEF Walked
<1>7. ExtraThreads(pos) \in Nat
  BY <1>2, Pieces
<1>8. PosInv'
  BY <1>1, <1>2, <1>7 DEF PosInv, ExtraThreads
<1>9. ListInv'
  BY <1>1, <1>6 DEF ListInv, Walked, Originals, Backwards, Begun, CopiesOf, ExtraThreads, Entered, Entries
<1> QED
  BY <1>8, <1>9

\* The entry's copies complete those of the entries behind it.
LEMMA NumberOriginalList == PosInv /\ ListInv /\ NumberOriginal => PosInv' /\ ListInv'
<1> SUFFICES ASSUME PosInv, ListInv, NumberOriginal PROVE PosInv' /\ ListInv'
  OBVIOUS
<1>1. /\ phase = "copies" /\ pos > 0 /\ ~MoreCopies
      /\ list' = [list EXCEPT ![pos] = Original(list[pos])] /\ pos' = pos - 1 /\ copied' = 0
      /\ input' = input /\ phase' = phase
  BY DEF NumberOriginal
<1>2. /\ pos \in Entries /\ list = Walked(pos, copied) /\ list[pos] = Entered(pos)
      /\ input \in Seq(Entry) /\ Len(input) \in Nat /\ copied \in 0..ExtraThreads(pos)
      /\ ~(copied < ExtraThreads(pos))
  BY <1>1, AtEntry
<1>3. ExtraThreads(pos) \in Nat /\ copied = ExtraThreads(pos)
  <2>1. ExtraThreads(pos) \in Nat
    BY <1>2, Pieces
  <2> QED
    BY <1>2, <2>1
<1> DEFINE a == Originals(pos)
           f == FlattenSeq(Backwards(Len(input) - pos))
           b == Begun(pos, copied)
           y == Original(Entered(pos))
<1>4. /\ a \in Seq(Entry) /\ Len(a) = Len(input) /\ f \in Seq(Entry) /\ b \in Seq(Entry) /\ y \in Entry
      /\ pos \in Int /\ pos \in 1..Len(a)
  <2>1. pos \in Int /\ pos \in 1..Len(input)
    BY <1>2 DEF Entries
  <2> QED
    BY <1>2, <1>3, <2>1, OriginalsTypes, OneMoreEntry, Pieces
<1>5. [a EXCEPT ![pos] = y] = Originals(pos - 1)
  <2>1. ASSUME NEW n \in Entries
        PROVE  (IF n > pos - 1 THEN Original(Entered(n)) ELSE Entered(n)) =
                 IF n = pos THEN y ELSE IF n > pos THEN Original(Entered(n)) ELSE Entered(n)
    <3>1. n \in Int
      BY <1>2 DEF Entries
    <3>2. n = pos => n > pos - 1
      BY <1>4, <3>1
    <3>3. n # pos => (n > pos - 1 <=> n > pos)
      BY <1>4, <3>1
    <3> HIDE DEF y
    <3>4. CASE n = pos
      BY <3>2, <3>4 DEF y
    <3>5. CASE n # pos
      BY <3>3, <3>5, Zenon
    <3> QED
      BY <3>4, <3>5
  <2>2. DOMAIN a = Entries /\ \A n \in Entries : a[n] = IF n > pos THEN Original(Entered(n)) ELSE Entered(n)
    BY Zenon DEF Originals
  <2> HIDE DEF a, y
  <2>3. [a EXCEPT ![pos] = y] = [n \in Entries |-> IF n = pos THEN y ELSE a[n]]
    BY <2>2
  <2>4. Originals(pos - 1) = [n \in Entries |-> IF n = pos THEN y ELSE IF n > pos THEN Original(Entered(n)) ELSE Entered(n)]
    BY <2>1, Zenon DEF Originals
  <2> QED
    BY <2>2, <2>3, <2>4
<1>6. list' = Originals(pos - 1) \o (f \o b)
  <2>1. list' = [a \o (f \o b) EXCEPT ![pos] = y]
    BY <1>1, <1>2 DEF Walked
  <2> HIDE DEF a, f, b, y
  <2>2. f \o b \in Seq(Entry)
    BY <1>4, ConcatProperties
  <2>3. [a \o (f \o b) EXCEPT ![pos] = y] = [a EXCEPT ![pos] = y] \o (f \o b)
    <3> DEFINE c == f \o b
    <3>1. a \in Seq(Entry) /\ c \in Seq(Entry) /\ y \in Entry /\ pos \in 1..Len(a)
      BY <1>4, <2>2
    <3> HIDE DEF c
    <3>2. [a \o c EXCEPT ![pos] = y] = [a EXCEPT ![pos] = y] \o c
      BY <3>1, ExceptFront
    <3> QED
      BY <3>2 DEF c
  <2> QED
    BY <1>5, <2>1, <2>3
<1>7. f \o b = FlattenSeq(Backwards(Len(input) - (pos - 1)))
  BY <1>2, <1>3, OneMoreEntry
<1>8. Begun(pos - 1, 0) = << >>
  BY DEF Begun
<1>9. list' = Walked(pos - 1, 0)
  <2>1. f \o b \in Seq(Entry)
    BY <1>4, ConcatProperties
  <2>2. (f \o b) \o << >> = f \o b
    BY <2>1, ConcatEmptySeq
  <2> QED
    BY <1>6, <1>7, <1>8, <2>2 DEF Walked
<1>10. PosInv'
  <2>1. \A n \in Entries : 0 <= ExtraThreads(n)
    BY <1>2, Pieces
  <2>2. pos - 1 \in 0..Len(input) /\ (pos - 1 # 0 => pos - 1 \in Entries)
    BY <1>2 DEF Entries
  <2> QED
    BY <1>1, <2>1, <2>2 DEF PosInv, ExtraThreads
<1>11. ListInv'
  <2>1. Originals(pos)' = Originals(pos - 1)
    BY <1>1 DEF Originals, Entered, Entries
  <2>2. Begun(pos, copied)' = Begun(pos - 1, 0)
    BY <1>1 DEF Begun, Entered
  <2>3. Backwards(Len(input) - pos)' = Backwards(Len(input) - (pos - 1))
    BY <1>1 DEF Backwards, CopiesOf, ExtraThreads, Entered
  <2>4. Walked(pos, copied)' = Walked(pos - 1, 0)
    BY <2>1, <2>2, <2>3 DEF Walked
  <2> QED
    BY <1>1, <1>9, <2>4 DEF ListInv
<1> QED
  BY <1>10, <1>11

\* The last two steps keep the list.
LEMMA RestList == PosInv /\ ListInv /\ (Finish \/ UNCHANGED vars) => PosInv' /\ ListInv'
<1> SUFFICES ASSUME PosInv, ListInv, Finish \/ UNCHANGED vars PROVE PosInv' /\ ListInv'
  OBVIOUS
<1>1. input' = input /\ list' = list /\ pos' = pos /\ copied' = copied
  BY DEF Finish, vars
<1>2. \/ phase' = phase
      \/ phase = "copies" /\ phase' = "done" /\ pos = 0
  BY DEF Finish, vars
<1>3. PosInv'
  BY <1>1, <1>2 DEF PosInv, ExtraThreads
<1>4. ListInv'
  BY <1>1, <1>2 DEF ListInv, Walked, Originals, Backwards, Begun, CopiesOf, ExtraThreads, Entered, Entries
<1> QED
  BY <1>3, <1>4

\* The list is what the walk has made of the file's at every step.
THEOREM ListAsWalked == Spec => [](PosInv /\ ListInv)
<1>1. Init => PosInv /\ ListInv
  BY InitList
<1>2. PosInv /\ ListInv /\ [Next]_vars => PosInv' /\ ListInv'
  BY SetDefaultsList, StartCopyingList, AddCopyList, NumberOriginalList, RestList DEF Next, Done
<1> QED
  BY <1>1, <1>2, PTL DEF Spec

\* MatchesReference, of a list of any length with any numbers of threads.
THEOREM WalkIsExpansion == Spec => []MatchesReference
<1>1. PosInv /\ ListInv => MatchesReference
  <2> SUFFICES ASSUME PosInv, ListInv, phase = "done" PROVE list = Expected
    BY DEF MatchesReference
  <2>1. pos = 0 /\ copied = 0 /\ list = Walked(0, 0) /\ input \in Inputs
    BY DEF PosInv, ListInv
  <2>2. input \in Seq(Entry) /\ Len(input) \in Nat
    BY <2>1, InputTypes
  <2>3. Originals(0) = [n \in Entries |-> Original(WithDefaults(input[n]))]
    <3>1. \A n \in Entries : n > 0
      BY <2>2 DEF Entries
    <3> QED
      BY <3>1, Zenon DEF Originals, Entered
  <2> DEFINE f == FlattenSeq(Backwards(Len(input)))
  <2>4. f \o << >> = f
    <3>1. CASE Len(input) = 0
      <4>1. Backwards(0) = << >>
        BY DEF Backwards
      <4> QED
        BY <3>1, <4>1, FlattenEmpty, EmptySeq, ConcatEmptySeq
    <3>2. CASE Len(input) # 0
      <4>1. 1 \in Entries /\ Len(input) - (1 - 1) = Len(input)
        BY <2>2, <3>2 DEF Entries
      <4>2. /\ f = FlattenSeq(Backwards(Len(input) - 1)) \o Begun(1, ExtraThreads(1))
            /\ FlattenSeq(Backwards(Len(input) - 1)) \in Seq(Entry)
        BY <2>2, <4>1, OneMoreEntry
      <4>3. Begun(1, ExtraThreads(1)) \in Seq(Entry)
        BY <2>2, <4>1, Pieces
      <4>4. f \in Seq(Entry)
        BY <4>2, <4>3, ConcatProperties
      <4> HIDE DEF f
      <4> QED
        BY <4>4, ConcatEmptySeq
    <3> QED
      BY <3>1, <3>2
  <2>5. Walked(0, 0) = Originals(0) \o f
    <3>1. Begun(0, 0) = << >> /\ Len(input) - 0 = Len(input)
      BY <2>2 DEF Begun
    <3> QED
      BY <2>4, <3>1 DEF Walked
  <2>6. Backwards(Len(input)) =
          [n \in Entries |-> [c \in 1..ExtraThreads(Len(input) + 1 - n) |->
                                Copy(WithDefaults(input[Len(input) + 1 - n]), c + 1)]]
    BY DEF Backwards, CopiesOf, Entered, Entries
  <2> QED
    BY <2>1, <2>3, <2>5, <2>6 DEF Expected
<1> QED
  BY <1>1, ListAsWalked, PTL

-----------------------------------------------------------------------------
(* Where each entry of the list comes from *)

\* The p-th of the list is the c-th thread of the file's n-th entry.
FromFile(p, n, c) ==
  IF p <= Len(input)
  THEN n = p /\ c = 1 /\ list[p] = IF p > pos THEN Original(Entered(p)) ELSE Entered(p)
  ELSE /\ c \in 2..(ExtraThreads(n) + 1)
       /\ list[p] = Copy(Entered(n), c)
       /\ (n > pos \/ (n = pos /\ c <= copied + 1))

\* No two are the same thread.
IsOrigin(en, th) ==
  /\ en \in [1..Len(list) -> Entries] /\ th \in [1..Len(list) -> Nat]
  /\ \A p, q \in 1..Len(list) : en[p] = en[q] /\ th[p] = th[q] => p = q
  /\ \A p \in 1..Len(list) : FromFile(p, en[p], th[p])

OriginInv ==
  phase # "defaults" =>
    list \in Seq(Entry) /\ Len(list) >= Len(input) /\ \E en, th : IsOrigin(en, th)

\* Every entry is its own first thread.
LEMMA StartCopyingOrigin == PosInv /\ ListInv /\ StartCopying => OriginInv'
<1> SUFFICES ASSUME PosInv, ListInv, StartCopying PROVE OriginInv'
  OBVIOUS
<1>1. phase' = "copies" /\ input' = input /\ list' = list /\ pos' = Len(list)
  BY DEF StartCopying
<1>2. /\ input \in Seq(Entry) /\ Len(input) \in Nat
      /\ Len(list) = Len(input) /\ list = Originals(Len(input))
  BY Filled
<1>3. list \in Seq(Entry) /\ \A n \in Entries : list[n] = Entered(n)
  <2>1. \A n \in Entries : ~(n > Len(input))
    BY <1>2 DEF Entries
  <2>2. /\ Originals(Len(input)) \in Seq(Entry)
        /\ \A n \in Entries : Originals(Len(input))[n] = IF n > Len(input) THEN Original(Entered(n)) ELSE Entered(n)
    <3>1. input \in Seq(Entry) /\ Len(input) \in Int
      BY <1>2
    <3> QED
      BY <3>1, OriginalsTypes, SMTT(30)
  <2> QED
    BY <1>2, <2>1, <2>2, Zenon
<1> DEFINE en == [p \in Entries |-> p]
           th == [p \in Entries |-> 1]
<1>4. Entries = 1..Len(list) /\ Entries' = Entries
  BY <1>1, <1>2 DEF Entries
<1>5. ASSUME NEW p \in Entries PROVE FromFile(p, p, 1)'
  <2>1. p <= Len(input) /\ ~(p > Len(list))
    BY <1>2 DEF Entries
  <2>2. list[p] = Entered(p)
    BY <1>3
  <2> QED
    BY <1>1, <2>1, <2>2 DEF FromFile, Entered
<1>6. IsOrigin(en, th)'
  BY <1>1, <1>4, <1>5 DEF IsOrigin
<1> HIDE DEF en, th
<1> QED
  BY <1>1, <1>2, <1>3, <1>6 DEF OriginInv

\* The copy is a thread its entry did not have.
LEMMA AddCopyOrigin == PosInv /\ ListInv /\ OriginInv /\ AddCopy => OriginInv'
<1> SUFFICES ASSUME PosInv, ListInv, OriginInv, AddCopy PROVE OriginInv'
  OBVIOUS
<1>1. /\ phase = "copies" /\ pos > 0 /\ MoreCopies
      /\ list' = Append(list, Copy(list[pos], copied + 2)) /\ copied' = copied + 1
      /\ input' = input /\ pos' = pos /\ phase' = phase
  BY DEF AddCopy
<1>2. /\ pos \in Entries /\ list[pos] = Entered(pos)
      /\ input \in Seq(Entry) /\ Len(input) \in Nat /\ copied \in Nat /\ copied < ExtraThreads(pos)
      /\ MoreCopies
  BY <1>1, AtEntry
<1>3. ExtraThreads(pos) \in Nat /\ pos \in Int
  BY <1>2, Pieces DEF Entries
<1>4. PICK en, th : IsOrigin(en, th)
  BY <1>1 DEF OriginInv
<1> DEFINE x == Copy(Entered(pos), copied + 2)
           l == Len(list)
<1>5. list \in Seq(Entry) /\ l \in Nat /\ l >= Len(input) /\ x \in Entry
  BY <1>1, <1>2, Pieces, EntryTypes, LenProperties DEF OriginInv
<1>6. list' \in Seq(Entry) /\ Len(list') = l + 1 /\ list'[l + 1] = x /\ \A p \in 1..l : list'[p] = list[p]
  <2>1. list' = Append(list, x)
    BY <1>1, <1>2
  <2> HIDE DEF x, l
  <2> QED
    BY <1>5, <2>1, AppendProperties DEF l
<1> HIDE DEF l, x
<1>7. /\ en \in [1..l -> Entries] /\ th \in [1..l -> Nat]
      /\ \A p, q \in 1..l : en[p] = en[q] /\ th[p] = th[q] => p = q
      /\ \A p \in 1..l : FromFile(p, en[p], th[p])
  BY <1>4 DEF IsOrigin, l
<1>a. PICK en2, th2 : /\ en2 = [p \in 1..(l + 1) |-> IF p = l + 1 THEN pos ELSE en[p]]
                      /\ th2 = [p \in 1..(l + 1) |-> IF p = l + 1 THEN copied + 2 ELSE th[p]]
  OBVIOUS
<1>8. ASSUME NEW p \in 1..(l + 1)
      PROVE  \/ p \in 1..l /\ p # l + 1 /\ en2[p] = en[p] /\ th2[p] = th[p]
             \/ p = l + 1 /\ en2[p] = pos /\ th2[p] = copied + 2
  BY <1>5, <1>a
<1>9. en2 \in [1..(l + 1) -> Entries] /\ th2 \in [1..(l + 1) -> Nat]
  <2>1. ASSUME NEW p \in 1..(l + 1)
        PROVE  /\ (IF p = l + 1 THEN pos ELSE en[p]) \in Entries
               /\ (IF p = l + 1 THEN copied + 2 ELSE th[p]) \in Nat
    BY <1>2, <1>7, <1>8
  <2> QED
    BY <1>a, <2>1
<1>10. ASSUME NEW p \in 1..l PROVE ~(en[p] = pos /\ th[p] = copied + 2)
  <2>1. FromFile(p, en[p], th[p]) /\ th[p] \in Nat /\ en[p] \in Int
    BY <1>7 DEF Entries
  <2>2. CASE p <= Len(input)
    BY <1>2, <2>1, <2>2 DEF FromFile
  <2>3. CASE ~(p <= Len(input))
    BY <1>2, <1>3, <2>1, <2>3 DEF FromFile
  <2> QED
    BY <2>2, <2>3
<1>11. ASSUME NEW p \in 1..(l + 1), NEW q \in 1..(l + 1), en2[p] = en2[q], th2[p] = th2[q]
       PROVE  p = q
  BY <1>7, <1>8, <1>10, <1>11
<1>12. ASSUME NEW p \in 1..(l + 1) PROVE FromFile(p, en2[p], th2[p])'
  <2>1. CASE p \in 1..l /\ en2[p] = en[p] /\ th2[p] = th[p]
    <3>1. FromFile(p, en[p], th[p]) /\ list'[p] = list[p] /\ th[p] \in Nat
      BY <1>6, <1>7, <2>1
    <3>2. CASE p <= Len(input)
      BY <1>1, <2>1, <3>1, <3>2 DEF FromFile, Entered
    <3>3. CASE ~(p <= Len(input))
      <4>1. /\ th[p] \in 2..(ExtraThreads(en[p]) + 1) /\ list[p] = Copy(Entered(en[p]), th[p])
            /\ (en[p] > pos \/ (en[p] = pos /\ th[p] <= copied + 1))
        BY <3>1, <3>3 DEF FromFile
      <4>2. en[p] > pos \/ (en[p] = pos /\ th[p] <= copied + 1 + 1)
        BY <1>2, <3>1, <4>1
      <4>3. ExtraThreads(en[p])' = ExtraThreads(en[p]) /\ Entered(en[p])' = Entered(en[p])
        BY <1>1 DEF ExtraThreads, Entered
      <4> QED
        BY <1>1, <2>1, <3>1, <3>3, <4>1, <4>2, <4>3 DEF FromFile
    <3> QED
      BY <3>2, <3>3
  <2>2. CASE p = l + 1 /\ en2[p] = pos /\ th2[p] = copied + 2
    <3>1. ~(p <= Len(input)) /\ list'[p] = Copy(Entered(pos), copied + 2)
      BY <1>2, <1>5, <1>6, <2>2 DEF x
    <3>2. copied + 2 \in 2..(ExtraThreads(pos) + 1)
      BY <1>2, <1>3
    <3>3. copied + 2 <= copied + 1 + 1
      BY <1>2
    <3>4. ExtraThreads(pos)' = ExtraThreads(pos) /\ Entered(pos)' = Entered(pos)
      BY <1>1 DEF ExtraThreads, Entered
    <3> QED
      BY <1>1, <2>2, <3>1, <3>2, <3>3, <3>4 DEF FromFile
  <2> QED
    BY <1>8, <2>1, <2>2
<1>13. Entries' = Entries
  BY <1>1 DEF Entries
<1>14. IsOrigin(en2, th2)'
  BY <1>6, <1>9, <1>11, <1>12, <1>13 DEF IsOrigin
<1> QED
  BY <1>1, <1>2, <1>5, <1>6, <1>14 DEF OriginInv

\* The numbers in the original leave every thread where it was.
LEMMA NumberOriginalOrigin == PosInv /\ ListInv /\ OriginInv /\ NumberOriginal => OriginInv'
<1> SUFFICES ASSUME PosInv, ListInv, OriginInv, NumberOriginal PROVE OriginInv'
  OBVIOUS
<1>1. /\ phase = "copies" /\ pos > 0
      /\ list' = [list EXCEPT ![pos] = Original(list[pos])] /\ pos' = pos - 1 /\ copied' = 0
      /\ input' = input /\ phase' = phase
  BY DEF NumberOriginal
<1>2. /\ pos \in Entries /\ list[pos] = Entered(pos)
      /\ input \in Seq(Entry) /\ Len(input) \in Nat
  BY <1>1, AtEntry
<1>3. pos \in Int /\ pos \in 1..Len(input)
  BY <1>2 DEF Entries
<1>4. PICK en, th : IsOrigin(en, th)
  BY <1>1 DEF OriginInv
<1>5. list \in Seq(Entry) /\ Len(list) \in Nat /\ Len(list) >= Len(input)
  BY <1>1, LenProperties DEF OriginInv
<1>6. /\ list' \in Seq(Entry) /\ Len(list') = Len(list)
      /\ \A p \in 1..Len(list) : list'[p] = IF p = pos THEN Original(Entered(pos)) ELSE list[p]
  <2>1. list' = [list EXCEPT ![pos] = Original(Entered(pos))]
    BY <1>1, <1>2
  <2>2. pos \in 1..Len(list) /\ Original(Entered(pos)) \in Entry
    BY <1>2, <1>3, <1>5, Pieces
  <2> QED
    BY <1>5, <2>1, <2>2, ExceptSeq
<1>7. /\ en \in [1..Len(list) -> Entries] /\ th \in [1..Len(list) -> Nat]
      /\ \A p, q \in 1..Len(list) : en[p] = en[q] /\ th[p] = th[q] => p = q
      /\ \A p \in 1..Len(list) : FromFile(p, en[p], th[p])
  BY <1>4 DEF IsOrigin
<1>8. ASSUME NEW p \in 1..Len(list) PROVE FromFile(p, en[p], th[p])'
  <2>1. FromFile(p, en[p], th[p]) /\ p \in Int /\ en[p] \in Int
    BY <1>7 DEF Entries
  <2>2. CASE p <= Len(input)
    <3>1. en[p] = p /\ th[p] = 1 /\ list[p] = IF p > pos THEN Original(Entered(p)) ELSE Entered(p)
      BY <2>1, <2>2 DEF FromFile
    <3>2. list'[p] = IF p > pos - 1 THEN Original(Entered(p)) ELSE Entered(p)
      <4>1. CASE p = pos
        BY <1>3, <1>6, <4>1
      <4>2. CASE p # pos
        <5>1. p > pos - 1 <=> p > pos
          BY <1>3, <2>1, <4>2
        <5> QED
          BY <1>6, <3>1, <4>2, <5>1
      <4> QED
        BY <4>1, <4>2
    <3>3. Entered(p)' = Entered(p)
      BY <1>1 DEF Entered
    <3> QED
      BY <1>1, <2>2, <3>1, <3>2, <3>3 DEF FromFile
  <2>3. CASE ~(p <= Len(input))
    <3>1. /\ th[p] \in 2..(ExtraThreads(en[p]) + 1) /\ list[p] = Copy(Entered(en[p]), th[p])
          /\ (en[p] > pos \/ en[p] = pos)
      BY <2>1, <2>3 DEF FromFile
    <3>2. en[p] > pos - 1
      BY <1>3, <2>1, <3>1
    <3>3. list'[p] = list[p]
      BY <1>2, <1>3, <1>6, <2>1, <2>3
    <3>4. ExtraThreads(en[p])' = ExtraThreads(en[p]) /\ Entered(en[p])' = Entered(en[p])
      BY <1>1 DEF ExtraThreads, Entered
    <3> QED
      BY <1>1, <2>3, <3>1, <3>2, <3>3, <3>4 DEF FromFile
  <2> QED
    BY <2>2, <2>3
<1>9. Entries' = Entries
  BY <1>1 DEF Entries
<1>10. IsOrigin(en, th)'
  BY <1>6, <1>7, <1>8, <1>9 DEF IsOrigin
<1> QED
  BY <1>1, <1>5, <1>6, <1>10 DEF OriginInv

\* Nor does the end of the walk change anything.
LEMMA RestOrigin == PosInv /\ OriginInv /\ (Finish \/ UNCHANGED vars) => OriginInv'
<1> SUFFICES ASSUME PosInv, OriginInv, Finish \/ UNCHANGED vars PROVE OriginInv'
  OBVIOUS
<1>1. input' = input /\ list' = list /\ pos' = pos /\ copied' = copied
  BY DEF Finish, vars
<1>2. phase' # "defaults" => phase # "defaults"
  BY DEF Finish, vars
<1>3. ASSUME NEW en, NEW th, IsOrigin(en, th) PROVE IsOrigin(en, th)'
  BY <1>1, <1>3 DEF IsOrigin, FromFile, Entries, Entered, ExtraThreads
<1> QED
  BY <1>1, <1>2, <1>3 DEF OriginInv

\* Every entry of the list is one thread of one entry of the file, and no other is.
THEOREM EntriesAreThreads == Spec => []OriginInv
<1>1. Init => OriginInv
  BY DEF Init, OriginInv
<1>2. ASSUME PosInv, ListInv, OriginInv, [Next]_vars PROVE OriginInv'
  <2>1. CASE SetDefaults
    BY <2>1 DEF SetDefaults, OriginInv
  <2>2. CASE StartCopying
    BY <1>2, <2>2, StartCopyingOrigin
  <2>3. CASE AddCopy
    BY <1>2, <2>3, AddCopyOrigin
  <2>4. CASE NumberOriginal
    BY <1>2, <2>4, NumberOriginalOrigin
  <2>5. CASE Finish \/ UNCHANGED vars
    BY <1>2, <2>5, RestOrigin
  <2> QED
    BY <1>2, <2>1, <2>2, <2>3, <2>4, <2>5 DEF Next, Done
<1> QED
  BY <1>1, <1>2, ListAsWalked, PTL DEF Spec

\* What the threads of an entry are called.
LEMMA ThreadNames ==
  ASSUME PosInv, OriginInv, phase = "done", NEW en, NEW th, IsOrigin(en, th),
         NEW p \in 1..Len(list)
  PROVE  /\ input \in Seq(Entry) /\ Len(input) \in Nat /\ en[p] \in Entries /\ th[p] \in Nat
         /\ list[p] = IF th[p] = 1 THEN Original(Entered(en[p])) ELSE Copy(Entered(en[p]), th[p])
         /\ th[p] = 1 \/ th[p] \in 2..input[en[p]].parallelThreads
         /\ input[en[p]] \in Entry
<1>1. input \in Inputs /\ pos = 0
  BY DEF PosInv
<1>2. input \in Seq(Entry) /\ Len(input) \in Nat
  BY <1>1, InputTypes
<1>3. en[p] \in Entries /\ th[p] \in Nat /\ FromFile(p, en[p], th[p])
  BY DEF IsOrigin
<1>4. input[en[p]] \in Entry
  BY <1>2, <1>3, Pieces
<1>5. CASE p <= Len(input)
  <2>1. en[p] = p /\ th[p] = 1 /\ list[p] = IF p > pos THEN Original(Entered(p)) ELSE Entered(p)
    BY <1>3, <1>5 DEF FromFile
  <2>2. p > pos
    BY <1>1
  <2> QED
    BY <1>2, <1>3, <1>4, <2>1, <2>2
<1>6. CASE ~(p <= Len(input))
  <2>1. th[p] \in 2..(ExtraThreads(en[p]) + 1) /\ list[p] = Copy(Entered(en[p]), th[p])
    BY <1>3, <1>6 DEF FromFile
  <2>2. input[en[p]].parallelThreads \in 0..MaxThreads /\ MaxThreads \in Nat
    BY <1>4, ExpansionAssumption DEF Entry
  <2>3. th[p] \in 2..input[en[p]].parallelThreads
    BY <2>1, <2>2 DEF ExtraThreads
  <2>4. th[p] # 1
    BY <1>3, <2>1
  <2> QED
    BY <1>2, <1>3, <1>4, <2>1, <2>3, <2>4
<1> QED
  BY <1>5, <1>6

\* What numbering makes of the names.
LEMMA NamesOf ==
  ASSUME NEW e \in Entry, NEW c \in Nat
  PROVE  /\ Original(WithDefaults(e)).id = e.id
         /\ Copy(WithDefaults(e), c).id = CopyId(e.id, c)
         /\ Original(WithDefaults(e)).subscriptionID = NumberedID(e.subscriptionID, 1)
         /\ Copy(WithDefaults(e), c).subscriptionID = NumberedID(e.subscriptionID, c)
<1>1. WithDefaults(e) \in Entry /\ WithDefaults(e).id = e.id
      /\ WithDefaults(e).subscriptionID = e.subscriptionID
  BY EntryTypes DEF WithDefaults, Entry
<1> DEFINE w == WithDefaults(e)
<1>2. w \in Entry /\ w.id = e.id /\ w.subscriptionID = e.subscriptionID
  BY <1>1
<1> HIDE DEF w
<1>3. Original(w).id = w.id /\ Original(w).subscriptionID = NumberedID(w.subscriptionID, 1)
  BY <1>2 DEF Original, Entry
<1>4. Copy(w, c).id = CopyId(w.id, c) /\ Copy(w, c).subscriptionID = NumberedID(w.subscriptionID, c)
  BY <1>2 DEF Copy, Entry
<1> QED
  BY <1>2, <1>3, <1>4 DEF w

\* A copied id is that of one entry and one thread.
LEMMA CopyIdInjective ==
  ASSUME NEW s \in [stem : Stems, copies : Seq(Nat)], NEW t \in [stem : Stems, copies : Seq(Nat)],
         NEW c \in Nat, NEW d \in Nat, CopyId(s, c) = CopyId(t, d)
  PROVE  s = t /\ c = d
<1>1. s = [stem |-> s.stem, copies |-> s.copies] /\ t = [stem |-> t.stem, copies |-> t.copies]
  OBVIOUS
<1>2. s.copies \in Seq(Nat) /\ t.copies \in Seq(Nat)
  OBVIOUS
<1>3. CopyId(s, c).stem = s.stem /\ CopyId(t, d).stem = t.stem
  BY DEF CopyId
<1>4. CopyId(s, c).copies = Append(s.copies, c) /\ CopyId(t, d).copies = Append(t.copies, d)
  BY DEF CopyId
<1>5. Append(s.copies, c) = Append(t.copies, d)
  BY <1>4
<1>6. s.copies = t.copies /\ c = d
  BY <1>2, <1>5, AppendInjective
<1> QED
  BY <1>1, <1>3, <1>6

\* Two threads with one id are one thread, unless the file's ids clash.
LEMMA IdsApart ==
  ASSUME PosInv, OriginInv
  PROVE  DistinctIds
<1> DEFINE Clash == \E m, n \in Entries :
                      \/ m # n /\ input[m].id = input[n].id
                      \/ \E c \in 2..input[n].parallelThreads :
                           input[m].id = CopyId(input[n].id, c)
<1> SUFFICES ASSUME phase = "done", ~Clash, NEW p \in DOMAIN list, NEW q \in DOMAIN list,
                    list[p].id = list[q].id
             PROVE  p = q
  BY DEF DistinctIds
<1>1. list \in Seq(Entry)
  BY DEF OriginInv
<1>2. PICK en, th : IsOrigin(en, th)
  BY DEF OriginInv
<1>3. p \in 1..Len(list) /\ q \in 1..Len(list)
  BY <1>1, LenProperties
<1> DEFINE m == en[p]
           n == en[q]
           c == th[p]
           d == th[q]
<1>4. /\ m \in Entries /\ c \in Nat /\ input[m] \in Entry
      /\ list[p] = IF c = 1 THEN Original(Entered(m)) ELSE Copy(Entered(m), c)
      /\ c = 1 \/ c \in 2..input[m].parallelThreads
  BY <1>2, <1>3, ThreadNames
<1>5. /\ n \in Entries /\ d \in Nat /\ input[n] \in Entry
      /\ list[q] = IF d = 1 THEN Original(Entered(n)) ELSE Copy(Entered(n), d)
      /\ d = 1 \/ d \in 2..input[n].parallelThreads
  BY <1>2, <1>3, ThreadNames
<1>6. m = n /\ c = d => p = q
  BY <1>2, <1>3 DEF IsOrigin
<1> HIDE DEF m, n, c, d
<1>7. list[p].id = IF c = 1 THEN input[m].id ELSE CopyId(input[m].id, c)
  BY <1>4, NamesOf DEF Entered
<1>8. list[q].id = IF d = 1 THEN input[n].id ELSE CopyId(input[n].id, d)
  BY <1>5, NamesOf DEF Entered
<1>9. m = n /\ c = d
  <2>1. CASE c = 1 /\ d = 1
    <3>1. input[m].id = input[n].id
      BY <1>7, <1>8, <2>1
    <3> QED
      BY <1>4, <1>5, <2>1, <3>1
  <2>2. CASE c = 1 /\ d # 1
    <3>1. input[m].id = CopyId(input[n].id, d) /\ d \in 2..input[n].parallelThreads
      BY <1>5, <1>7, <1>8, <2>2
    <3> QED
      BY <1>4, <1>5, <3>1
  <2>3. CASE c # 1 /\ d = 1
    <3>1. input[n].id = CopyId(input[m].id, c) /\ c \in 2..input[m].parallelThreads
      BY <1>4, <1>7, <1>8, <2>3
    <3> QED
      BY <1>4, <1>5, <3>1
  <2>4. CASE c # 1 /\ d # 1
    <3>1. CopyId(input[m].id, c) = CopyId(input[n].id, d)
      BY <1>7, <1>8, <2>4
    <3>2. /\ input[m].id \in [stem : Stems, copies : Seq(Nat)]
          /\ input[n].id \in [stem : Stems, copies : Seq(Nat)]
      BY <1>4, <1>5 DEF Entry
    <3>3. input[m].id = input[n].id /\ c = d
      BY <1>4, <1>5, <3>1, <3>2, CopyIdInjective
    <3> QED
      BY <1>4, <1>5, <3>3
  <2> QED
    BY <2>1, <2>2, <2>3, <2>4
<1> QED
  BY <1>6, <1>9

\* Two threads with one subscription are one thread, unless the file has them share it.
LEMMA SubscriptionsApart ==
  ASSUME PosInv, OriginInv
  PROVE  DistinctSubscriptions
<1> DEFINE Apart == \A n \in Entries :
                      /\ input[n].subscriptionID # Blank
                      /\ input[n].parallelThreads > 1 => input[n].subscriptionID.num = Placeholder
                      /\ \A m \in Entries :
                           m # n => input[m].subscriptionID.stem # input[n].subscriptionID.stem
<1> SUFFICES ASSUME phase = "done", Apart, NEW p \in DOMAIN list, NEW q \in DOMAIN list,
                    list[p].subscriptionID = list[q].subscriptionID
             PROVE  p = q
  BY DEF DistinctSubscriptions
<1>1. list \in Seq(Entry)
  BY DEF OriginInv
<1>2. PICK en, th : IsOrigin(en, th)
  BY DEF OriginInv
<1>3. p \in 1..Len(list) /\ q \in 1..Len(list)
  BY <1>1, LenProperties
<1> DEFINE m == en[p]
           n == en[q]
           c == th[p]
           d == th[q]
<1>4. /\ m \in Entries /\ c \in Nat /\ input[m] \in Entry
      /\ list[p] = IF c = 1 THEN Original(Entered(m)) ELSE Copy(Entered(m), c)
      /\ c = 1 \/ c \in 2..input[m].parallelThreads
  BY <1>2, <1>3, ThreadNames
<1>5. /\ n \in Entries /\ d \in Nat /\ input[n] \in Entry
      /\ list[q] = IF d = 1 THEN Original(Entered(n)) ELSE Copy(Entered(n), d)
      /\ d = 1 \/ d \in 2..input[n].parallelThreads
  BY <1>2, <1>3, ThreadNames
<1>6. m = n /\ c = d => p = q
  BY <1>2, <1>3 DEF IsOrigin
<1> HIDE DEF m, n, c, d
<1>7. list[p].subscriptionID = NumberedID(input[m].subscriptionID, c)
  BY <1>4, NamesOf DEF Entered
<1>8. list[q].subscriptionID = NumberedID(input[n].subscriptionID, d)
  BY <1>5, NamesOf DEF Entered
<1>9. ASSUME NEW s \in Name, NEW k \in Nat
      PROVE  /\ Numbered(s, k).stem = s.stem
             /\ s.num = Placeholder => Numbered(s, k).num = k
  BY DEF Numbered, Name
<1>10. /\ input[m].subscriptionID \in Name /\ input[m].subscriptionID # Blank
       /\ input[n].subscriptionID \in Name /\ input[n].subscriptionID # Blank
  BY <1>4, <1>5 DEF Entry
<1>11. Numbered(input[m].subscriptionID, c) = Numbered(input[n].subscriptionID, d)
  BY <1>7, <1>8, <1>10 DEF NumberedID
<1>12. m = n
  <2>1. input[m].subscriptionID.stem = input[n].subscriptionID.stem
    BY <1>4, <1>5, <1>9, <1>10, <1>11
  <2> QED
    BY <1>4, <1>5, <2>1
<1>13. c = d
  <2>1. CASE c = 1 /\ d = 1
    BY <2>1
  <2>2. CASE c # 1 \/ d # 1
    <3>1. input[m].parallelThreads > 1
      <4>1. input[m].parallelThreads \in 0..MaxThreads /\ MaxThreads \in Nat
        BY <1>4, ExpansionAssumption DEF Entry
      <4> QED
        BY <1>4, <1>5, <1>12, <2>2, <4>1
    <3>2. input[m].subscriptionID.num = Placeholder
      BY <1>4, <3>1
    <3>3. /\ Numbered(input[m].subscriptionID, c).num = c
          /\ Numbered(input[m].subscriptionID, d).num = d
      BY <1>4, <1>5, <1>9, <1>10, <3>2
    <3> QED
      BY <1>11, <1>12, <3>3
  <2> QED
    BY <2>1, <2>2
<1> QED
  BY <1>6, <1>12, <1>13

\* DistinctNames, of a list of any length with any numbers of threads.
THEOREM NamesApart == Spec => []DistinctNames
<1>1. PosInv /\ ListInv /\ OriginInv => DistinctNames
  BY IdsApart, SubscriptionsApart DEF DistinctNames
<1> QED
  BY <1>1, ListAsWalked, EntriesAreThreads, PTL
=============================================================================
