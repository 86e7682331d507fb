-------------------------- MODULE ChartData_proofs --------------------------
(***************************************************************************)
(* What the operators of ChartData return, for files of any length.        *)
(***************************************************************************)
EXTENDS ChartData, SumLemmas, SequenceTheorems

-----------------------------------------------------------------------------
(* Least and greatest numbers *)

\* Min and Max of a finite set of integers are its bounds, and in it.
LEMMA MinMax ==
  ASSUME NEW S \in SUBSET Int, IsFiniteSet(S), S # {}
  PROVE  /\ Min(S) \in S /\ \A y \in S : Min(S) <= y
         /\ Max(S) \in S /\ \A y \in S : y <= Max(S)
<1> DEFINE G == {s \in SUBSET S : s # {} => /\ \E x \in s : \A y \in s : x <= y
                                            /\ \E x \in s : \A y \in s : y <= x}
<1>1. {} \in G
  OBVIOUS
<1>2. ASSUME NEW s \in SUBSET S, s # {},
             \A u \in SUBSET S : Cardinality(u) < Cardinality(s) => u \in G
      PROVE  s \in G
  <2>1. PICK z \in s : TRUE
    BY <1>2
  <2> DEFINE u == s \ {z}
  <2>2. u \in G
    <3>1. u \in SUBSET S /\ Cardinality(u) < Cardinality(s)
      <4>1. Cardinality(s) \in Nat /\ \A x \in s : Cardinality(s \ {x}) = Cardinality(s) - 1
        BY Smaller
      <4> QED
        BY <4>1
    <3> HIDE DEF G, u
    <3> QED
      BY <1>2, <3>1
  <2>3. z \in Int /\ \A y \in s : y \in Int /\ (y = z \/ y \in u)
    OBVIOUS
  <2>4. \E x \in s : \A y \in s : x <= y
    <3>1. CASE u = {}
      BY <2>3, <3>1
    <3>2. CASE u # {}
      <4>1. PICK x \in u : \A y \in u : x <= y
        BY <2>2, <3>2
      <4>2. CASE x <= z
        BY <2>3, <4>1, <4>2
      <4>3. CASE ~(x <= z)
        <5>1. \A y \in s : z <= y
          BY <2>3, <4>1, <4>3
        <5> QED
          BY <5>1
      <4> QED
        BY <4>2, <4>3
    <3> QED
      BY <3>1, <3>2
  <2>5. \E x \in s : \A y \in s : y <= x
    <3>1. CASE u = {}
      BY <2>3, <3>1
    <3>2. CASE u # {}
      <4>1. PICK x \in u : \A y \in u : y <= x
        BY <2>2, <3>2
      <4>2. CASE z <= x
        BY <2>3, <4>1, <4>2
      <4>3. CASE ~(z <= x)
        <5>1. \A y \in s : y <= z
          BY <2>3, <4>1, <4>3
        <5> QED
          BY <5>1
      <4> QED
        BY <4>2, <4>3
    <3> QED
      BY <3>1, <3>2
  <2> QED
    BY <2>4, <2>5
<1>3. S \in G
  <2> HIDE DEF G
  <2> QED
    BY <1>1, <1>2, SizeInduction
<1>4. (\E x \in S : \A y \in S : x =< y) /\ (\E x \in S : \A y \in S : x >= y)
  BY <1>3
<1> QED
  BY <1>4 DEF Min, Max

\* The same for indexes.
LEMMA IndexMinMax ==
  ASSUME NEW n \in Int, NEW S \in SUBSET (1..n), S # {}
  PROVE  /\ Min(S) \in S /\ \A y \in S : Min(S) <= y
         /\ Max(S) \in S /\ \A y \in S : y <= Max(S)
<1>1. IsFiniteSet(1..n) /\ 1..n \in SUBSET Int
  BY FS_Interval
<1>2. IsFiniteSet(S) /\ S \in SUBSET Int
  BY <1>1, FS_Subset
<1> QED
  BY <1>2, MinMax

-----------------------------------------------------------------------------
(* Folds over a set, or a sequence, whose result stays in X *)

IsFoldOf(g, base, step, pick, S) ==
  g = [s \in SUBSET S |-> IF s = {} THEN base ELSE step[<<g[s \ {pick[s]}], pick[s]>>]]

\* The recursion of a fold over the parts of S ends: a function in X satisfies it.
LEMMA FoldExists ==
  ASSUME NEW X, NEW base \in X, NEW S, IsFiniteSet(S),
         NEW pick, \A s \in SUBSET S : s # {} => pick[s] \in s,
         NEW step \in [X \X S -> X]
  PROVE  \E g \in [SUBSET S -> X] : IsFoldOf(g, base, step, pick, S)
<1> DEFINE Small(n) == {s \in SUBSET S : Cardinality(s) <= n}
           Def(g, s) == IF s = {} THEN base ELSE step[<<g[s \ {pick[s]}], pick[s]>>]
           Good == {n \in Nat : \E g \in [Small(n) -> X] : \A s \in Small(n) : g[s] = Def(g, s)}
<1>1. 0 \in Good
  <2> DEFINE h == [s \in Small(0) |-> base]
  <2>1. \A s \in Small(0) : s = {}
    BY Smaller
  <2>2. h \in [Small(0) -> X] /\ \A s \in Small(0) : h[s] = Def(h, s)
    BY <2>1
  <2> HIDE DEF h, Def, Small
  <2> QED
    BY <2>2
<1>2. ASSUME NEW n \in Nat, n \in Good PROVE n + 1 \in Good
  <2>1. PICK g \in [Small(n) -> X] : \A s \in Small(n) : g[s] = Def(g, s)
    BY <1>2
  <2> DEFINE h == [s \in Small(n + 1) |-> Def(g, s)]
  <2>2. ASSUME NEW s \in Small(n) PROVE s \in Small(n + 1) /\ h[s] = g[s]
    <3>1. s \in Small(n + 1)
      BY Smaller
    <3> QED
      BY <2>1, <3>1
  <2>3. ASSUME NEW s \in Small(n + 1) PROVE Def(g, s) = Def(h, s) /\ Def(g, s) \in X
    <3>1. CASE s = {}
      BY <3>1
    <3>2. CASE s # {}
      <4>1. pick[s] \in s /\ s \ {pick[s]} \in Small(n)
        <5>1. pick[s] \in s
          BY <3>2
        <5>2. Cardinality(s) \in Nat /\ Cardinality(s \ {pick[s]}) = Cardinality(s) - 1
          BY <5>1, Smaller
        <5> QED
          BY <5>1, <5>2
      <4>2. h[s \ {pick[s]}] = g[s \ {pick[s]}]
        BY <4>1, <2>2
      <4>3. g[s \ {pick[s]}] \in X /\ pick[s] \in S
        BY <4>1
      <4> HIDE DEF h, Small
      <4> QED
        BY <3>2, <4>2, <4>3
    <3> QED
      BY <3>1, <3>2
  <2>4. h \in [Small(n + 1) -> X] /\ \A s \in Small(n + 1) : h[s] = Def(h, s)
    <3> DEFINE d(s) == Def(h, s)
    <3>1. \A s \in Small(n + 1) : Def(g, s) = d(s) /\ Def(g, s) \in X
      BY <2>3
    <3> HIDE DEF d, Def, Small
    <3>2. h \in [Small(n + 1) -> X] /\ \A s \in Small(n + 1) : h[s] = d(s)
      BY <3>1
    <3> QED
      BY <3>2 DEF d
  <2> HIDE DEF h, Small, Def
  <2>5. n + 1 \in Nat
    OBVIOUS
  <2> QED
    BY <2>4, <2>5
<1>3. Cardinality(S) \in Nat
  BY FS_CardinalityType
<1>4. Cardinality(S) \in Good
  <2> HIDE DEF Good
  <2> QED
    BY <1>1, <1>2, <1>3, SetInduction
<1>5. Small(Cardinality(S)) = SUBSET S
  BY FS_Subset
<1>6. PICK g \in [SUBSET S -> X] : \A s \in SUBSET S : g[s] = Def(g, s)
  <2> HIDE DEF Small, Def
  <2> QED
    BY <1>4, <1>5
<1>7. g = [s \in SUBSET S |-> Def(g, s)]
  <2> HIDE DEF Def
  <2> QED
    BY <1>6
<1> QED
  BY <1>7, Zenon DEF IsFoldOf

\* Induction along a sequence of n elements.
LEMMA PrefixInduction ==
  ASSUME NEW n \in Nat, NEW h, NEW X, h[1..0] \in X,
         \A k \in 1..n : h[1..(k - 1)] \in X => h[1..k] \in X
  PROVE  h[1..n] \in X
<1> DEFINE G == {k \in Nat : k <= n => h[1..k] \in X}
<1>1. 0 \in G
  OBVIOUS
<1>2. ASSUME NEW k \in Nat, k \in G PROVE k + 1 \in G
  <2> SUFFICES ASSUME k + 1 <= n PROVE h[1..(k + 1)] \in X
    OBVIOUS
  <2>1. k + 1 \in 1..n /\ (k + 1) - 1 = k /\ h[1..k] \in X
    BY <1>2
  <2> QED
    BY <2>1
<1>3. n \in G
  <2> HIDE DEF G
  <2> QED
    BY <1>1, <1>2, SetInduction
<1> QED
  BY <1>3

\* The greatest of 1..k, without which 1..(k-1) is left.
LEMMA LastOf ==
  ASSUME NEW n \in Nat, NEW k \in 1..n
  PROVE  /\ 1..k \in SUBSET (1..n) /\ 1..k # {}
         /\ Max(1..k) = k /\ (1..k) \ {Max(1..k)} = 1..(k - 1)
<1>1. 1..k \in SUBSET (1..n) /\ 1..k # {} /\ k \in 1..k
  OBVIOUS
<1>2. Max(1..k) \in 1..k /\ k <= Max(1..k)
  BY <1>1, IndexMinMax, k \in Int
<1>3. Max(1..k) = k
  BY <1>2
<1>4. (1..k) \ {k} = 1..(k - 1)
  OBVIOUS
<1> QED
  BY <1>1, <1>3, <1>4

\* The rows of the lines in front of each line are in X, and grow line by line.
ParsesWithin(kind, lines, X) ==
  \E g \in [0..Len(lines) -> X] :
    /\ g[0] = << >> /\ g[Len(lines)] = AllLines(kind, lines)
    /\ \A k \in 1..Len(lines) : g[k] = AddLine(kind, g[k - 1], lines[k])

\* The same for the rows that are sorted one by one.
SortsWithin(rows, X) ==
  \E g \in [0..Len(rows) -> X] :
    /\ g[0] = << >> /\ g[Len(rows)] = SortRows(rows)
    /\ \A k \in 1..Len(rows) : g[k] = InsertRow(g[k - 1], rows[k])

\* All lines are added one by one: what AddLine keeps true of the rows is true of
\* those of all lines.
LEMMA AddLines ==
  ASSUME NEW kind, NEW L, NEW lines \in Seq(L), NEW X, << >> \in X,
         \A r \in X : \A l \in L : AddLine(kind, r, l) \in X
  PROVE  AllLines(kind, lines) \in X /\ ParsesWithin(kind, lines, X)
<1> DEFINE n == Len(lines)
           IsFold(h) == h = [s \in SUBSET DOMAIN lines |->
                               IF s = {} THEN << >>
                               ELSE AddLine(kind, h[s \ {Max(s)}], lines[Max(s)])]
           f == CHOOSE h : IsFold(h)
<1>1. n \in Nat /\ n \in Int /\ DOMAIN lines = 1..n /\ \A k \in 1..n : lines[k] \in L
  BY LenProperties, ElementOfSeq
<1>2. AllLines(kind, lines) = f[DOMAIN lines]
  BY DEF AllLines, FoldLeft, MapThenFoldSet
<1>3. \E h : IsFold(h)
  <2> DEFINE pick == [s \in SUBSET (1..n) |-> Max(s)]
             step == [p \in X \X (1..n) |-> AddLine(kind, p[1], lines[p[2]])]
  <2>1. IsFiniteSet(1..n)
    BY <1>1, FS_Interval
  <2>2. \A s \in SUBSET (1..n) : s # {} => pick[s] \in s
    <3> SUFFICES ASSUME NEW s \in SUBSET (1..n), s # {} PROVE Max(s) \in s
      OBVIOUS
    <3> HIDE DEF n
    <3> QED
      BY <1>1, IndexMinMax, Zenon
  <2>3. step \in [X \X (1..n) -> X]
    BY <1>1
  <2>4. PICK g \in [SUBSET (1..n) -> X] :
          IsFoldOf(g, << >>, step, pick, 1..n)
    <3> DEFINE S == 1..n
    <3> HIDE DEF pick, step, S
    <3>1. IsFiniteSet(S) /\ (\A s \in SUBSET S : s # {} => pick[s] \in s) /\ step \in [X \X S -> X]
      BY <2>1, <2>2, <2>3 DEF S
    <3>2. \E g \in [SUBSET S -> X] : IsFoldOf(g, << >>, step, pick, S)
      BY <3>1, FoldExists
    <3> QED
      BY <3>2 DEF S
  <2>5. ASSUME NEW s \in SUBSET (1..n), s # {}
        PROVE  step[<<g[s \ {pick[s]}], pick[s]>>] = AddLine(kind, g[s \ {Max(s)}], lines[Max(s)])
    <3>1. pick[s] = Max(s) /\ Max(s) \in 1..n /\ g[s \ {Max(s)}] \in X
      BY <2>2, <2>5
    <3> QED
      BY <3>1
  <2>6. IsFold(g)
    <3> HIDE DEF pick, step
    <3> QED
      BY <1>1, <2>4, <2>5 DEF IsFoldOf
  <2> QED
    BY <2>6
<1>4. IsFold(f)
  BY <1>3
<1> HIDE DEF f
<1>5. f[1..0] \in X
  BY <1>1, <1>4
<1>6. ASSUME NEW k \in 1..n PROVE f[1..k] = AddLine(kind, f[1..(k - 1)], lines[k])
  <2>1. /\ 1..k \in SUBSET (1..n) /\ 1..k # {}
        /\ Max(1..k) = k /\ (1..k) \ {Max(1..k)} = 1..(k - 1)
    BY <1>1, LastOf
  <2> QED
    BY <1>1, <1>4, <2>1
<1>7. ASSUME NEW m \in 0..n PROVE f[1..m] \in X
  <2>1. m \in Nat /\ m <= n
    BY <1>1
  <2>2. \A k \in 1..m : f[1..(k - 1)] \in X => f[1..k] \in X
    <3> TAKE k \in 1..m
    <3>1. k \in 1..n
      BY <1>1, <2>1
    <3> QED
      BY <1>1, <1>6, <3>1
  <2> HIDE DEF n
  <2> QED
    BY <1>5, <2>1, <2>2, PrefixInduction
<1> DEFINE g == [k \in 0..n |-> f[1..k]]
<1>8. g \in [0..n -> X] /\ 0 \in 0..n /\ n \in 0..n
  BY <1>1, <1>7
<1>9. f[1..0] = << >> /\ f[1..n] = AllLines(kind, lines)
  BY <1>1, <1>2, <1>4
<1>10. ASSUME NEW k \in 1..n PROVE g[k] = AddLine(kind, g[k - 1], lines[k])
  <2>1. k \in 0..n /\ k - 1 \in 0..n
    BY <1>1
  <2> QED
    BY <1>6, <2>1
<1>11. g[0] = << >> /\ g[n] = AllLines(kind, lines)
  BY <1>8, <1>9
<1> HIDE DEF g
<1> QED
  BY <1>8, <1>10, <1>11 DEF ParsesWithin

\* Rows are sorted one by one: what InsertRow keeps true of the rows is true of
\* the sorted rows.
LEMMA InsertRows ==
  ASSUME NEW L, NEW rows \in Seq(L), NEW X, << >> \in X,
         \A r \in X : \A l \in L : InsertRow(r, l) \in X
  PROVE  SortRows(rows) \in X /\ SortsWithin(rows, X)
<1> DEFINE n == Len(rows)
           IsFold(h) == h = [s \in SUBSET DOMAIN rows |->
                               IF s = {} THEN << >>
                               ELSE InsertRow(h[s \ {Max(s)}], rows[Max(s)])]
           f == CHOOSE h : IsFold(h)
<1>1. n \in Nat /\ n \in Int /\ DOMAIN rows = 1..n /\ \A k \in 1..n : rows[k] \in L
  BY LenProperties, ElementOfSeq
<1>2. SortRows(rows) = f[DOMAIN rows]
  BY DEF SortRows, FoldLeft, MapThenFoldSet
<1>3. \E h : IsFold(h)
  <2> DEFINE pick == [s \in SUBSET (1..n) |-> Max(s)]
             step == [p \in X \X (1..n) |-> InsertRow(p[1], rows[p[2]])]
  <2>1. IsFiniteSet(1..n)
    BY <1>1, FS_Interval
  <2>2. \A s \in SUBSET (1..n) : s # {} => pick[s] \in s
    <3> SUFFICES ASSUME NEW s \in SUBSET (1..n), s # {} PROVE Max(s) \in s
      OBVIOUS
    <3> HIDE DEF n
    <3> QED
      BY <1>1, IndexMinMax, Zenon
  <2>3. step \in [X \X (1..n) -> X]
    BY <1>1
  <2>4. PICK g \in [SUBSET (1..n) -> X] : IsFoldOf(g, << >>, step, pick, 1..n)
    <3> DEFINE S == 1..n
    <3> HIDE DEF pick, step, S
    <3>1. IsFiniteSet(S) /\ (\A s \in SUBSET S : s # {} => pick[s] \in s) /\ step \in [X \X S -> X]
      BY <2>1, <2>2, <2>3 DEF S
    <3>2. \E g \in [SUBSET S -> X] : IsFoldOf(g, << >>, step, pick, S)
      BY <3>1, FoldExists
    <3> QED
      BY <3>2 DEF S
  <2>5. ASSUME NEW s \in SUBSET (1..n), s # {}
        PROVE  step[<<g[s \ {pick[s]}], pick[s]>>] = InsertRow(g[s \ {Max(s)}], rows[Max(s)])
    <3>1. pick[s] = Max(s) /\ Max(s) \in 1..n /\ g[s \ {Max(s)}] \in X
      BY <2>2, <2>5
    <3> QED
      BY <3>1
  <2>6. IsFold(g)
    <3> HIDE DEF pick, step
    <3> QED
      BY <1>1, <2>4, <2>5 DEF IsFoldOf
  <2> QED
    BY <2>6
<1>4. IsFold(f)
  BY <1>3
<1> HIDE DEF f
<1>5. f[1..0] \in X
  BY <1>1, <1>4
<1>6. ASSUME NEW k \in 1..n PROVE f[1..k] = InsertRow(f[1..(k - 1)], rows[k])
  <2>1. /\ 1..k \in SUBSET (1..n) /\ 1..k # {}
        /\ Max(1..k) = k /\ (1..k) \ {Max(1..k)} = 1..(k - 1)
    BY <1>1, LastOf
  <2> QED
    BY <1>1, <1>4, <2>1
<1>7. ASSUME NEW m \in 0..n PROVE f[1..m] \in X
  <2>1. m \in Nat /\ m <= n
    BY <1>1
  <2>2. \A k \in 1..m : f[1..(k - 1)] \in X => f[1..k] \in X
    <3> TAKE k \in 1..m
    <3>1. k \in 1..n
      BY <1>1, <2>1
    <3> QED
      BY <1>1, <1>6, <3>1
  <2> HIDE DEF n
  <2> QED
    BY <1>5, <2>1, <2>2, PrefixInduction
<1> DEFINE g == [k \in 0..n |-> f[1..k]]
<1>8. g \in [0..n -> X] /\ 0 \in 0..n /\ n \in 0..n
  BY <1>1, <1>7
<1>9. f[1..0] = << >> /\ f[1..n] = SortRows(rows)
  BY <1>1, <1>2, <1>4
<1>10. ASSUME NEW k \in 1..n PROVE g[k] = InsertRow(g[k - 1], rows[k])
  <2>1. k \in 0..n /\ k - 1 \in 0..n
    BY <1>1
  <2> QED
    BY <1>6, <2>1
<1>11. g[0] = << >> /\ g[n] = SortRows(rows)
  BY <1>8, <1>9
<1> HIDE DEF g
<1> QED
  BY <1>8, <1>10, <1>11 DEF SortsWithin

-----------------------------------------------------------------------------
(* Parsing a file of plain values *)

Value == Int \cup {Null, NaN}
Line  == {l \in Seq(Value \cup {Junk}) : Len(l) >= 2 => l[1] \in Int}
Row   == {r \in Seq(Value) : Len(r) >= 2 /\ r[1] \in Int}

Sorted(rows) == \A i, j \in 1..Len(rows) : i <= j => rows[i][1] <= rows[j][1]

\* A line with two fields becomes a row.
LEMMA ParseLineType ==
  ASSUME NEW line \in Line, Len(line) >= 2
  PROVE  ParseLine("plain", line) \in Row
<1>1. \A field : ParseFields("plain", field) = ParseFloat(field)
  BY Zenon DEF ParseFields
<1>2. line \in Seq(Value \cup {Junk}) /\ line[1] \in Int
  BY DEF Line
<1>3. Len(line) \in Nat /\ DOMAIN line = 1..Len(line) /\ \A j \in 1..Len(line) : line[j] \in Value \cup {Junk}
  BY <1>2, LenProperties, ElementOfSeq
<1> DEFINE e(j) == IF j = 1 THEN line[1] ELSE ParseFloat(line[j])
<1>4. ParseLine("plain", line) = [j \in 1..Len(line) |-> e(j)]
  BY <1>1, <1>3 DEF ParseLine
<1>5. \A j \in 1..Len(line) : e(j) \in Value
  BY <1>2, <1>3 DEF ParseFloat, Value
<1> HIDE DEF e
<1>6. ParseLine("plain", line) \in Seq(Value) /\ Len(ParseLine("plain", line)) = Len(line)
  BY <1>3, <1>4, <1>5
<1>7. ParseLine("plain", line)[1] = line[1]
  BY <1>3, <1>4 DEF e
<1> QED
  BY <1>2, <1>6, <1>7 DEF Row

\* So the rows are a sequence of rows.
LEMMA AllLinesType ==
  ASSUME NEW lines \in Seq(Line)
  PROVE  AllLines("plain", lines) \in Seq(Row)
<1>1. ASSUME NEW r \in Seq(Row), NEW l \in Line PROVE AddLine("plain", r, l) \in Seq(Row)
  BY ParseLineType, AppendProperties DEF AddLine
<1>2. << >> \in Seq(Row)
  BY EmptySeq
<1> QED
  BY <1>1, <1>2, AddLines

-----------------------------------------------------------------------------
(* Sorting *)

\* Where InsertAt puts the elements.
LEMMA Insertion ==
  ASSUME NEW X, NEW s \in Seq(X), NEW e \in X, NEW i \in 1..(Len(s) + 1)
  PROVE  /\ InsertAt(s, i, e) \in Seq(X)
         /\ Len(InsertAt(s, i, e)) = Len(s) + 1
         /\ \A j \in 1..(Len(s) + 1) :
              InsertAt(s, i, e)[j] = IF j < i THEN s[j] ELSE IF j = i THEN e ELSE s[j - 1]
<1> DEFINE n == Len(s)
           a == SubSeq(s, 1, i - 1)
           b == SubSeq(s, i, n)
<1>1. n \in Nat /\ i \in Int /\ i - 1 \in Int /\ 1 <= i /\ i <= n + 1 /\ \A j \in 1..n : s[j] \in X
  BY LenProperties, ElementOfSeq
<1>2. /\ a \in Seq(X) /\ Len(a) = i - 1
      /\ \A j \in 1..(i - 1) : a[j] = s[j]
  <2>1. \A j \in 1..(i - 1) : s[j] \in X
    BY <1>1
  <2>2. /\ SubSeq(s, 1, i - 1) \in Seq(X)
        /\ Len(SubSeq(s, 1, i - 1)) = IF 1 <= i - 1 THEN (i - 1) - 1 + 1 ELSE 0
        /\ \A j \in 1..((i - 1) - 1 + 1) : SubSeq(s, 1, i - 1)[j] = s[1 + j - 1]
    BY <1>1, <2>1, SubSeqProperties, 1 \in Int
  <2> QED
    BY <1>1, <2>2
<1>3. /\ b \in Seq(X) /\ Len(b) = n - i + 1
      /\ \A j \in 1..(n - i + 1) : b[j] = s[i + j - 1]
  <2>1. \A j \in i..n : s[j] \in X
    BY <1>1
  <2>2. /\ SubSeq(s, i, n) \in Seq(X)
        /\ Len(SubSeq(s, i, n)) = IF i <= n THEN n - i + 1 ELSE 0
        /\ \A j \in 1..(n - i + 1) : SubSeq(s, i, n)[j] = s[i + j - 1]
    BY <1>1, <2>1, SubSeqProperties, n \in Int
  <2> QED
    BY <1>1, <2>2
<1>4. InsertAt(s, i, e) = a \o <<e>> \o b
  BY DEF InsertAt
<1> HIDE DEF n, a, b
<1>5. <<e>> \in Seq(X) /\ Len(<<e>>) = 1 /\ <<e>>[1] = e
  OBVIOUS
<1> DEFINE ae == a \o <<e>>
<1>6. /\ ae \in Seq(X) /\ Len(ae) = i
      /\ \A j \in 1..i : ae[j] = IF j < i THEN s[j] ELSE e
  <2>1. /\ ae \in Seq(X) /\ Len(ae) = Len(a) + Len(<<e>>)
        /\ \A j \in 1..(Len(a) + Len(<<e>>)) : ae[j] = IF j <= Len(a) THEN a[j] ELSE <<e>>[j - Len(a)]
    BY <1>2, <1>5, ConcatProperties
  <2>2. Len(ae) = i
    BY <1>1, <1>2, <1>5, <2>1
  <2>3. ASSUME NEW j \in 1..i PROVE ae[j] = IF j < i THEN s[j] ELSE e
    <3>1. ae[j] = IF j <= i - 1 THEN a[j] ELSE <<e>>[j - (i - 1)]
      BY <1>1, <1>2, <1>5, <2>1
    <3>2. CASE j < i
      <4>1. j \in 1..(i - 1)
        BY <1>1, <3>2
      <4> QED
        BY <1>1, <1>2, <3>1, <3>2, <4>1
    <3>3. CASE ~(j < i)
      <4>1. j - (i - 1) = 1 /\ ~(j <= i - 1)
        BY <1>1, <3>3
      <4> QED
        BY <1>5, <3>1, <3>3, <4>1
    <3> QED
      BY <3>2, <3>3
  <2> QED
    BY <2>1, <2>2, <2>3
<1> HIDE DEF ae
<1>7. /\ ae \o b \in Seq(X) /\ Len(ae \o b) = Len(ae) + Len(b)
      /\ \A j \in 1..(Len(ae) + Len(b)) : (ae \o b)[j] = IF j <= Len(ae) THEN ae[j] ELSE b[j - Len(ae)]
  BY <1>3, <1>6, ConcatProperties
<1>8. Len(ae) + Len(b) = n + 1
  BY <1>1, <1>3, <1>6
<1>9. ASSUME NEW j \in 1..(n + 1)
      PROVE  (ae \o b)[j] = IF j < i THEN s[j] ELSE IF j = i THEN e ELSE s[j - 1]
  <2>1. (ae \o b)[j] = IF j <= i THEN ae[j] ELSE b[j - i]
    BY <1>6, <1>7, <1>8
  <2>2. CASE j <= i
    <3>1. j \in 1..i
      BY <1>1, <2>2
    <3> QED
      BY <1>1, <1>6, <2>1, <2>2, <3>1
  <2>3. CASE ~(j <= i)
    <3>1. j - i \in 1..(n - i + 1) /\ i + (j - i) - 1 = j - 1 /\ j # i /\ ~(j < i)
      BY <1>1, <2>3
    <3> QED
      BY <1>3, <2>1, <2>3, <3>1
  <2> QED
    BY <2>2, <2>3
<1> QED
  BY <1>4, <1>7, <1>8, <1>9 DEF ae, n

\* A row is inserted where the rows stay sorted.
LEMMA InsertRowSorted ==
  ASSUME NEW rows \in Seq(Row), Sorted(rows), NEW row \in Row
  PROVE  InsertRow(rows, row) \in Seq(Row) /\ Sorted(InsertRow(rows, row))
<1> DEFINE n == Len(rows)
           B == {i \in 1..n : rows[i][1] <= row[1]}
           k == IF B = {} THEN 0 ELSE Max(B)
<1>1. n \in Nat /\ DOMAIN rows = 1..n /\ (\A i \in 1..n : rows[i] \in Row)
  BY LenProperties, ElementOfSeq
<1>2. (\A i \in 1..n : rows[i][1] \in Int) /\ row[1] \in Int
  BY <1>1 DEF Row
<1>3. k \in 0..n /\ B = 1..k
  <2>1. CASE B = {}
    <3>1. k = 0 /\ 1..0 = {}
      BY <2>1
    <3> QED
      BY <1>1, <2>1, <3>1
  <2>2. CASE B # {}
    <3>1. B \in SUBSET (1..n) /\ k = Max(B)
      BY <2>2
    <3> HIDE DEF k, B
    <3>2. k \in B /\ \A y \in B : y <= k
      BY <1>1, <2>2, <3>1, IndexMinMax, n \in Int, Zenon
    <3>3. k \in 1..n
      BY <3>1, <3>2
    <3>4. ASSUME NEW i \in 1..k PROVE i \in B
      <4>1. i \in 1..n /\ i <= k /\ rows[k][1] <= row[1]
        BY <1>1, <3>2, <3>3 DEF B
      <4>2. rows[i][1] <= rows[k][1]
        BY <3>3, <4>1 DEF Sorted
      <4>3. rows[i][1] <= row[1]
        BY <1>2, <3>3, <4>1, <4>2
      <4> QED
        BY <4>1, <4>3 DEF B
    <3>5. \A i \in B : i \in 1..k
      BY <3>1, <3>2, <3>3
    <3>6. B = 1..k
      BY <3>4, <3>5
    <3>7. k \in 0..n
      BY <3>3
    <3> QED
      BY <3>6, <3>7
  <2> QED
    BY <2>1, <2>2
<1>4. InsertRow(rows, row) = InsertAt(rows, k + 1, row)
  <2>1. Cardinality(1..k) = k
    <3> HIDE DEF k, B
    <3>1. k \in Int /\ 0 <= k /\ n \in Int
      BY <1>1, <1>3
    <3>2. Cardinality(1..k) = IF 1 > k THEN 0 ELSE k - 1 + 1
      BY <3>1, FS_Interval, 1 \in Int
    <3> QED
      BY <3>1, <3>2
  <2>2. Cardinality({i \in DOMAIN rows : rows[i][1] <= row[1]}) = k
    BY <1>1, <1>3, <2>1
  <2> QED
    BY <2>2 DEF InsertRow
<1> HIDE DEF k
<1> DEFINE t == InsertAt(rows, k + 1, row)
<1>5. /\ t \in Seq(Row) /\ Len(t) = n + 1
      /\ \A j \in 1..(n + 1) : t[j] = IF j < k + 1 THEN rows[j] ELSE IF j = k + 1 THEN row ELSE rows[j - 1]
  <2>1. k + 1 \in 1..(Len(rows) + 1)
    BY <1>1, <1>3
  <2>2. ASSUME NEW i \in 1..(Len(rows) + 1)
        PROVE  /\ InsertAt(rows, i, row) \in Seq(Row) /\ Len(InsertAt(rows, i, row)) = Len(rows) + 1
               /\ \A j \in 1..(Len(rows) + 1) :
                    InsertAt(rows, i, row)[j] = IF j < i THEN rows[j] ELSE IF j = i THEN row ELSE rows[j - 1]
    BY Insertion, SMTT(30)
  <2> QED
    BY <2>1, <2>2
<1>6. Sorted(t)
  <2> SUFFICES ASSUME NEW i \in 1..(n + 1), NEW j \in 1..(n + 1), i < j PROVE t[i][1] <= t[j][1]
    <3>1. \A i \in 1..(n + 1) : t[i][1] <= t[i][1]
      BY <1>5, ElementOfSeq DEF Row
    <3> QED
      BY <1>5, <3>1 DEF Sorted
  <2> HIDE DEF t
  <2>1. \A x \in 1..n : (x \in 1..k <=> rows[x][1] <= row[1])
    BY <1>3
  <2> HIDE DEF B, n
  <2>2. \A x, y \in 1..n : x <= y => rows[x][1] <= rows[y][1]
    BY DEF Sorted, n
  <2>3. k \in Int /\ 0 <= k /\ k <= n /\ n \in Int
    BY <1>1, <1>3
  <2>4. CASE j < k + 1
    <3>1. i \in 1..n /\ j \in 1..n /\ i <= j /\ i < k + 1
      BY <2>3, <2>4
    <3> QED
      BY <1>5, <2>2, <2>4, <3>1
  <2>5. CASE j = k + 1
    <3>1. i \in 1..n /\ i \in 1..k /\ i < k + 1
      BY <2>3, <2>5
    <3>2. t[i] = rows[i] /\ t[j] = row
      BY <1>5, <2>3, <2>5, <3>1
    <3> QED
      BY <2>1, <3>1, <3>2
  <2>6. CASE j > k + 1
    <3>1. j - 1 \in 1..n /\ t[j] = rows[j - 1] /\ ~(j - 1 \in 1..k)
      BY <1>5, <2>3, <2>6
    <3>2. CASE i < k + 1
      <4>1. i \in 1..n /\ i <= j - 1 /\ t[i] = rows[i]
        BY <1>5, <2>3, <2>6, <3>2
      <4> QED
        BY <2>2, <3>1, <4>1
    <3>3. CASE i = k + 1
      <4>1. t[i] = row
        BY <1>5, <2>3, <3>3
      <4>2. ~(rows[j - 1][1] <= row[1])
        BY <2>1, <3>1
      <4> QED
        BY <1>2, <3>1, <4>1, <4>2
    <3>4. CASE i > k + 1
      <4>1. i - 1 \in 1..n /\ i - 1 <= j - 1 /\ t[i] = rows[i - 1]
        BY <1>5, <2>3, <3>4
      <4> QED
        BY <2>2, <3>1, <4>1
    <3> QED
      BY <2>3, <3>2, <3>3, <3>4
  <2> QED
    BY <2>3, <2>4, <2>5, <2>6
<1> QED
  BY <1>4, <1>5, <1>6

\* Rows none of which is before its neighbour are sorted.
LEMMA NeighboursSorted ==
  ASSUME NEW rows \in Seq(Row), \A i \in 2..Len(rows) : ~(rows[i][1] < rows[i - 1][1])
  PROVE  Sorted(rows)
<1> DEFINE n == Len(rows)
           G == {j \in Nat : j <= n => \A i \in 1..j : rows[i][1] <= rows[j][1]}
<1>1. n \in Nat /\ \A i \in 1..n : rows[i][1] \in Int
  BY LenProperties, ElementOfSeq DEF Row
<1> HIDE DEF n
<1>2. 0 \in G
  OBVIOUS
<1>3. ASSUME NEW j \in Nat, j \in G PROVE j + 1 \in G
  <2> SUFFICES ASSUME j + 1 <= n, NEW i \in 1..(j + 1) PROVE rows[i][1] <= rows[j + 1][1]
    OBVIOUS
  <2>1. j + 1 \in 1..n /\ rows[j + 1][1] \in Int
    BY <1>1
  <2>2. CASE i = j + 1
    BY <2>1, <2>2
  <2>3. CASE i # j + 1
    <3>1. i \in 1..j /\ i \in 1..n /\ j \in 1..n /\ j + 1 \in 2..n /\ (j + 1) - 1 = j
      BY <1>1, <2>3
    <3>2. rows[i][1] <= rows[j][1]
      BY <1>3, <3>1
    <3>3. ~(rows[j + 1][1] < rows[j][1])
      BY <3>1 DEF n
    <3>4. rows[i][1] \in Int /\ rows[j][1] \in Int
      BY <1>1, <3>1
    <3> QED
      BY <2>1, <3>2, <3>3, <3>4
  <2> QED
    BY <2>2, <2>3
<1>4. ASSUME NEW i \in 1..n, NEW j \in 1..n, i <= j PROVE rows[i][1] <= rows[j][1]
  <2> HIDE DEF G
  <2>1. j \in Nat /\ j <= n /\ i \in 1..j
    BY <1>1, <1>4
  <2>2. j \in G
    BY <1>2, <1>3, <2>1, SetInduction
  <2> QED
    BY <2>1, <2>2 DEF G
<1> QED
  BY <1>4 DEF Sorted, n

\* A file becomes sorted rows.
LEMMA ParseCSVType ==
  ASSUME NEW lines \in Seq(Line)
  PROVE  ParseCSV("plain", lines) \in Seq(Row) /\ Sorted(ParseCSV("plain", lines))
<1> DEFINE ret == AllLines("plain", lines)
           outOfOrder == \E i \in 2..Len(ret) : ret[i][1] < ret[i - 1][1]
<1>1. ret \in Seq(Row)
  BY AllLinesType
<1>2. ParseCSV("plain", lines) = IF outOfOrder THEN SortRows(ret) ELSE ret
  BY DEF ParseCSV
<1> HIDE DEF ret
<1>3. CASE outOfOrder
  <2> DEFINE X == {r \in Seq(Row) : Sorted(r)}
  <2>1. << >> \in X
    <3>1. << >> \in Seq(Row) /\ Len(<< >>) = 0
      BY EmptySeq
    <3>2. Sorted(<< >>)
      BY <3>1 DEF Sorted
    <3> QED
      BY <3>1, <3>2
  <2>2. \A r \in X : \A l \in Row : InsertRow(r, l) \in X
    BY InsertRowSorted
  <2>3. SortRows(ret) \in X
    <3> HIDE DEF X
    <3> QED
      BY <1>1, <2>1, <2>2, InsertRows
  <2> QED
    BY <1>2, <1>3, <2>3
<1>4. CASE ~outOfOrder
  <2>1. Sorted(ret)
    BY <1>1, <1>4, NeighboursSorted
  <2> QED
    BY <1>1, <1>2, <1>4, <2>1
<1> QED
  BY <1>3, <1>4

-----------------------------------------------------------------------------
(* The series of a file of plain values *)

Sample == Int \X Value
Point  == [xval : Int, yval : Value, idx : Nat \ {0}]

\* Two sequences of one element.
LEMMA Pair ==
  ASSUME NEW x, NEW y
  PROVE  <<x>> \o <<y>> = <<x, y>>
<1> DEFINE X == {x, y}
<1>1. <<x>> \in Seq(X) /\ <<y>> \in Seq(X) /\ <<x, y>> \in Seq(X)
  OBVIOUS
<1>2. Len(<<x>>) = 1 /\ Len(<<y>>) = 1 /\ Len(<<x, y>>) = 2
  OBVIOUS
<1> HIDE DEF X
<1>3. /\ <<x>> \o <<y>> \in Seq(X) /\ Len(<<x>> \o <<y>>) = 2
      /\ \A i \in 1..2 : (<<x>> \o <<y>>)[i] = IF i <= 1 THEN <<x>>[i] ELSE <<y>>[i - 1]
  BY <1>1, <1>2, ConcatProperties
<1>4. \A i \in 1..2 : (<<x>> \o <<y>>)[i] = <<x, y>>[i]
  BY <1>3
<1> QED
  BY <1>1, <1>2, <1>3, <1>4, SeqEqual

\* A row becomes a sample.
LEMMA ExtractDefaultType ==
  ASSUME NEW raw \in Seq(Row)
  PROVE  /\ ExtractDefault(raw, FALSE) \in Seq(Sample)
         /\ Len(ExtractDefault(raw, FALSE)) = Len(raw)
<1>1. Len(raw) \in Nat /\ DOMAIN raw = 1..Len(raw) /\ \A j \in 1..Len(raw) : raw[j] \in Row
  BY LenProperties, ElementOfSeq
<1>2. ASSUME NEW j \in 1..Len(raw)
      PROVE  <<raw[j][1]>> \o <<raw[j][2]>> = <<raw[j][1], raw[j][2]>> /\ raw[j][1] \in Int /\ raw[j][2] \in Value
  <2>1. raw[j] \in Seq(Value) /\ Len(raw[j]) >= 2 /\ raw[j][1] \in Int
    BY <1>1 DEF Row
  <2>2. raw[j][2] \in Value
    BY <2>1, ElementOfSeq, LenProperties
  <2> QED
    BY <2>1, <2>2, Pair
<1>3. ExtractDefault(raw, FALSE) = [j \in 1..Len(raw) |-> <<raw[j][1], raw[j][2]>>]
  BY <1>1, <1>2 DEF ExtractDefault, Extract
<1> DEFINE n == Len(raw)
           e(j) == <<raw[j][1], raw[j][2]>>
<1>4. ExtractDefault(raw, FALSE) = [j \in 1..n |-> e(j)]
  BY <1>3
<1>5. \A j \in 1..n : e(j) \in Sample
  BY <1>2 DEF Sample
<1>6. n \in Nat /\ n = Len(raw)
  BY <1>1
<1> HIDE DEF e, n
<1>7. [j \in 1..n |-> e(j)] \in Seq(Sample) /\ Len([j \in 1..n |-> e(j)]) = n
  BY <1>5, <1>6
<1> QED
  BY <1>4, <1>6, <1>7

\* Averaging keeps the places of a series.
LEMMA RollDefaultType ==
  ASSUME NEW series \in Seq(Sample), NEW p \in Nat
  PROVE  /\ RollDefault(series, p) \in Seq(Sample)
         /\ Len(RollDefault(series, p)) = Len(series)
<1> DEFINE l == Len(series)
           n == Min2(p, l)
           ok(i) == {j \in RollWindow(n, i) : ~Missing(series[j][2])}
           at(i) == IF ok(i) = {} THEN Null
                    ELSE Total([j \in ok(i) |-> series[j][2]]) \div Cardinality(ok(i))
<1>1. l \in Nat /\ DOMAIN series = 1..l /\ \A j \in 1..l : series[j] \in Sample
  BY LenProperties, ElementOfSeq
<1>2. n \in Nat
  BY <1>1 DEF Min2
<1>3. ASSUME NEW i \in 1..l PROVE at(i) \in Value
  <2> DEFINE S == ok(i)
             f == [j \in S |-> series[j][2]]
  <2>1. RollWindow(n, i) \in SUBSET (1..l)
    <3> HIDE DEF n, l
    <3> QED
      BY <1>1, <1>2 DEF RollWindow, Max2
  <2>2. S \in SUBSET (1..l) /\ IsFiniteSet(S)
    <3>1. IsFiniteSet(1..l)
      BY <1>1, FS_Interval
    <3>2. S \in SUBSET (1..l)
      BY <2>1
    <3> QED
      BY <3>1, <3>2, FS_Subset
  <2>3. \A j \in S : f[j] \in Int
    BY <1>1, <2>2 DEF Missing, Sample, Value
  <2>4. at(i) = IF S = {} THEN Null ELSE SumFunctionOnSet(f, S) \div Cardinality(S)
    <3> HIDE DEF ok
    <3>1. Total([j \in S |-> series[j][2]]) = SumFunctionOnSet(f, S)
      BY DEF Total
    <3> QED
      BY <3>1
  <2> HIDE DEF S, f, at
  <2>5. SumFunctionOnSet(f, S) \in Int
    BY <2>2, <2>3, SumType
  <2>6. S # {} => Cardinality(S) \in Nat /\ Cardinality(S) > 0
    BY <2>2, FS_CardinalityType, FS_EmptySet
  <2>7. S # {} => SumFunctionOnSet(f, S) \div Cardinality(S) \in Int
    BY <2>5, <2>6
  <2> QED
    BY <2>4, <2>7 DEF Value
<1>4. RollDefault(series, p) = IF n = 1 THEN series
                               ELSE [i \in 1..l |-> <<series[i][1], at(i)>>]
  BY <1>1 DEF RollDefault
<1> HIDE DEF at, n
<1>5. ASSUME NEW i \in 1..l PROVE <<series[i][1], at(i)>> \in Sample
  BY <1>1, <1>3 DEF Sample
<1>6. CASE n = 1
  BY <1>4, <1>6
<1>7. CASE n # 1
  <2> DEFINE e(i) == <<series[i][1], at(i)>>
  <2>1. RollDefault(series, p) = [i \in 1..l |-> e(i)] /\ \A i \in 1..l : e(i) \in Sample
    BY <1>4, <1>5, <1>7
  <2> HIDE DEF e, l
  <2> QED
    BY <1>1, <2>1 DEF l
<1> QED
  BY <1>6, <1>7

-----------------------------------------------------------------------------
(* The part of a series that is drawn *)

\* The boundary ids are places of the series, if it has any.
LEMMA BoundaryIdsType ==
  ASSUME NEW series \in Seq(Sample), NEW window \in Int \X Int \cup {Null}
  PROVE  \E a \in Nat \ {0}, b \in 0..Len(series) :
           /\ BoundaryIds(series, window) = <<a, b>>
           /\ window = Null => a = 1 /\ b = Len(series)
<1> DEFINE n == Len(series)
           above == {i \in 1..n : series[i][1] >= window[1]}
           below == {i \in 1..n : series[i][1] <= window[2]}
           first == IF above = {} THEN 1 ELSE Min(above)
           last == IF below = {} THEN n ELSE Max(below)
           a == NeighbourBefore(series, first)
           b == NeighbourBehind(series, last)
<1>1. n \in Nat
  BY LenProperties
<1>2. BoundaryIds(series, window) = IF window = Null THEN <<1, n>> ELSE <<a, b>>
  BY DEF BoundaryIds
<1>3. first \in 1..n \/ first = 1
  <2>1. above \in SUBSET (1..n)
    OBVIOUS
  <2> HIDE DEF above, n
  <2> QED
    BY <1>1, <2>1, IndexMinMax, n \in Int, Zenon
<1>4. last \in 0..n
  <2>1. below \in SUBSET (1..n)
    OBVIOUS
  <2>2. below # {} => Max(below) \in 1..n
    <3> HIDE DEF below, n
    <3> QED
      BY <1>1, <2>1, IndexMinMax, n \in Int, Zenon
  <2> HIDE DEF below, n
  <2> QED
    BY <1>1, <2>2
<1> HIDE DEF first, last
<1>5. a \in Nat \ {0}
  <2> DEFINE S == {j \in 1..(first - 1) : series[j][2] # Null}
  <2>1. S \in SUBSET (1..(first - 1)) /\ first - 1 \in Int
    BY <1>1, <1>3
  <2>2. a = IF S = {} THEN 1 ELSE Max(S)
    BY DEF NeighbourBefore
  <2>3. S # {} => Max(S) \in 1..(first - 1)
    <3> HIDE DEF S
    <3> QED
      BY <2>1, IndexMinMax, Zenon
  <2> HIDE DEF S, a
  <2> QED
    BY <2>1, <2>2, <2>3
<1>6. b \in 0..n
  <2> DEFINE S == {j \in (last + 1)..n : series[j][2] # Null}
  <2>1. S \in SUBSET (1..n)
    BY <1>1, <1>4
  <2>2. b = IF S = {} THEN n ELSE Min(S)
    BY DEF NeighbourBehind
  <2>3. S # {} => Min(S) \in 1..n
    <3> HIDE DEF S, n
    <3> QED
      BY <1>1, <2>1, IndexMinMax, n \in Int, Zenon
  <2> HIDE DEF S, b, n
  <2> QED
    BY <1>1, <2>1, <2>2, <2>3
<1>7. CASE window = Null
  BY <1>1, <1>2, <1>7
<1>8. CASE window # Null
  BY <1>2, <1>5, <1>6, <1>8
<1> QED
  BY <1>7, <1>8

\* The samples between the boundary ids become points.
LEMMA SeriesToPointsType ==
  ASSUME NEW series \in Seq(Sample), NEW a \in Nat \ {0}, NEW b \in 0..Len(series)
  PROVE  /\ SeriesToPoints(series, <<a, b>>) \in Seq(Point)
         /\ a = 1 => Len(SeriesToPoints(series, <<a, b>>)) = b
<1> DEFINE n == Len(series)
           m == b - a + 1
           k == IF m < 0 THEN 0 ELSE m
           pt(i) == [xval |-> series[i][1], yval |-> series[i][2], idx |-> i]
           e(j) == pt(a + j - 1)
<1>1. n \in Nat /\ \A j \in 1..n : series[j] \in Sample
  BY LenProperties, ElementOfSeq
<1>2. b \in Int /\ b <= n /\ a \in Int /\ a >= 1
  BY <1>1
<1>3. SeriesToPoints(series, <<a, b>>) = [j \in 1..m |-> e(j)]
  BY DEF SeriesToPoints
<1>4. \A i \in 1..n : pt(i) \in Point
  BY <1>1 DEF Sample, Point
<1> HIDE DEF n, pt
<1>5. ASSUME NEW j \in 1..m PROVE e(j) \in Point
  <2>1. a + j - 1 \in 1..n
    BY <1>1, <1>2
  <2> QED
    BY <1>4, <2>1
<1>6. 1..m = 1..k /\ k \in Nat /\ (a = 1 => k = b)
  BY <1>1, <1>2
<1> HIDE DEF e, m, k
<1>7. SeriesToPoints(series, <<a, b>>) = [j \in 1..k |-> e(j)] /\ \A j \in 1..k : e(j) \in Point
  BY <1>3, <1>5, <1>6
<1> QED
  BY <1>6, <1>7

\* The extremes of a series bound its values, if it has any.
LEMMA ExtremesDefaultType ==
  ASSUME NEW series \in Seq(Sample)
  PROVE  \/ /\ ExtremesDefault(series) = <<Null, Null>>
            /\ \A j \in DOMAIN series : Missing(series[j][2])
         \/ \E low, high \in Int :
              /\ low <= high /\ ExtremesDefault(series) = <<low, high>>
              /\ \A j \in DOMAIN series :
                   ~Missing(series[j][2]) => low <= series[j][2] /\ series[j][2] <= high
<1> DEFINE I == {j \in DOMAIN series : ~Missing(series[j][2])}
           ys == {series[i][2] : i \in I}
<1>1. Len(series) \in Nat /\ DOMAIN series = 1..Len(series) /\ \A j \in 1..Len(series) : series[j] \in Sample
  BY LenProperties, ElementOfSeq
<1>2. IsFiniteSet(I)
  <2>1. IsFiniteSet(1..Len(series)) /\ I \in SUBSET (1..Len(series))
    BY <1>1, FS_Interval
  <2> QED
    BY <2>1, FS_Subset
<1>3. ys \in SUBSET Int /\ IsFiniteSet(ys)
  <2>1. \A i \in I : series[i][2] \in Int
    BY <1>1 DEF Missing, Sample, Value
  <2>2. IsFiniteSet(ys)
    <3> DEFINE f == [i \in I |-> series[i][2]]
    <3>1. f \in Surjection(I, ys)
      <4> HIDE DEF I
      <4> QED
        BY DEF Surjection
    <3> HIDE DEF f, ys, I
    <3> QED
      BY <1>2, <3>1, FS_Surjection
  <2> QED
    BY <2>1, <2>2
<1>4. ExtremesDefault(series) = IF ys = {} THEN <<Null, Null>> ELSE <<Min(ys), Max(ys)>>
  BY DEF ExtremesDefault
<1>5. \A j \in DOMAIN series : ~Missing(series[j][2]) => series[j][2] \in ys
  OBVIOUS
<1> HIDE DEF ys
<1>6. CASE ys = {}
  BY <1>4, <1>6, <1>5
<1>7. CASE ys # {}
  <2>1. /\ Min(ys) \in ys /\ \A y \in ys : Min(ys) <= y
        /\ Max(ys) \in ys /\ \A y \in ys : y <= Max(ys)
    BY <1>3, <1>7, MinMax
  <2>2. Min(ys) \in Int /\ Max(ys) \in Int /\ Min(ys) <= Max(ys)
    BY <1>3, <2>1
  <2>3. PICK low, high \in Int : low = Min(ys) /\ high = Max(ys)
    BY <2>2
  <2> QED
    BY <1>4, <1>7, <1>5, <2>1, <2>2, <2>3
<1> QED
  BY <1>6, <1>7

\* What drawGraph_ takes from a series.
LEMMA GatherDatasetsType ==
  ASSUME NEW series \in Seq(Sample), NEW window \in Int \X Int \cup {Null}
  PROVE  LET g == GatherDatasets(series, window)
         IN  /\ g.points \in Seq(Point)
             /\ window = Null => Len(g.points) = Len(series)
             /\ \/ g.extremes = <<Null, Null>>
                \/ \E low, high \in Int : low <= high /\ g.extremes = <<low, high>>
<1>1. PICK a \in Nat \ {0}, b \in 0..Len(series) :
        /\ BoundaryIds(series, window) = <<a, b>>
        /\ window = Null => a = 1 /\ b = Len(series)
  BY BoundaryIdsType
<1> DEFINE part == SubSeq(series, a, b)
           g == GatherDatasets(series, window)
<1>2. g.points = SeriesToPoints(series, <<a, b>>) /\ g.extremes = ExtremesDefault(part)
  BY <1>1 DEF GatherDatasets
<1>3. part \in Seq(Sample)
  <2>1. Len(series) \in Nat /\ \A j \in 1..Len(series) : series[j] \in Sample
    BY LenProperties, ElementOfSeq
  <2>2. a \in Int /\ b \in Int /\ \A j \in a..b : series[j] \in Sample
    BY <2>1
  <2> QED
    BY <2>2, SubSeqProperties
<1> HIDE DEF part, g
<1>4. SeriesToPoints(series, <<a, b>>) \in Seq(Point) /\ (a = 1 => Len(SeriesToPoints(series, <<a, b>>)) = b)
  BY SeriesToPointsType
<1>5. \/ ExtremesDefault(part) = <<Null, Null>>
      \/ \E low, high \in Int : low <= high /\ ExtremesDefault(part) = <<low, high>>
  BY <1>3, ExtremesDefaultType
<1>6. /\ g.points \in Seq(Point)
      /\ window = Null => Len(g.points) = Len(series)
      /\ \/ g.extremes = <<Null, Null>>
         \/ \E low, high \in Int : low <= high /\ g.extremes = <<low, high>>
  BY <1>1, <1>2, <1>4, <1>5
<1> QED
  BY <1>6 DEF g

-----------------------------------------------------------------------------
(* The range of the y axis *)

\* The range goes upwards, and holds the extremes if there are any.
LEMMA ExtremeRangeType ==
  ASSUME NEW extremes,
         \/ extremes = <<Null, Null>>
         \/ \E low, high \in Int : low <= high /\ extremes = <<low, high>>
  PROVE  \E low, high \in Int :
           /\ low <= high /\ ExtremeRange({extremes}, FALSE, FALSE) = <<low, high>>
           /\ extremes # <<Null, Null>> => low <= 10 * extremes[1] /\ 10 * extremes[2] <= high
<1> DEFINE lows  == {e[1] : e \in {extremes}} \ {Null}
           highs == {e[2] : e \in {extremes}} \ {Null}
           least == IF lows = {} THEN 0 ELSE Min(lows)
           most  == IF highs = {} THEN 1 ELSE Max(highs)
           span  == IF most # least THEN most - least
                    ELSE IF most # 0 THEN Max2(most, -most) ELSE 1
           maxY  == IF most = least /\ most = 0 THEN 1 ELSE most
           low   == 10 * least - span
           high  == 10 * maxY + span
           a == IF low < 0 /\ least >= 0 THEN 0 ELSE low
           b == IF high > 0 /\ maxY <= 0 THEN 0 ELSE high
<1>1. ExtremeRange({extremes}, FALSE, FALSE) = <<a, b>>
  BY ZenonT(60) DEF ExtremeRange
<1>2. /\ least \in Int /\ most \in Int /\ least <= most
      /\ extremes # <<Null, Null>> => least = extremes[1] /\ most = extremes[2]
  <2>1. CASE extremes = <<Null, Null>>
    <3>1. lows = {} /\ highs = {}
      BY <2>1
    <3> QED
      BY <3>1
  <2>2. CASE extremes # <<Null, Null>>
    <3>1. PICK l, h \in Int : l <= h /\ extremes = <<l, h>>
      BY <2>2
    <3>2. lows = {l} /\ highs = {h}
      BY <3>1, ValuesAssumption
    <3> HIDE DEF lows, highs
    <3>3. Min({l}) = l /\ Max({h}) = h
      <4>1. IsFiniteSet({l}) /\ IsFiniteSet({h})
        BY FS_Singleton
      <4>2. Min({l}) \in {l} /\ Max({h}) \in {h}
        BY <4>1, MinMax
      <4> QED
        BY <4>2
    <3> QED
      BY <3>1, <3>2, <3>3
  <2> QED
    BY <2>1, <2>2
<1> HIDE DEF least, most
<1>3. /\ a \in Int /\ b \in Int /\ a <= b
      /\ a <= 10 * least /\ 10 * most <= b
  BY <1>2 DEF Max2
<1> HIDE DEF a, b
<1> QED
  BY <1>1, <1>2, <1>3

\* Where the boundary ids of a window lie: outside the samples inside it, and
\* at the nearest samples on either side that are not null, if there are any.
LEMMA BoundaryIdsFrame ==
  ASSUME NEW series \in Seq(Sample), Sorted(series), series # << >>,
         NEW window \in Int \X Int, window[1] <= window[2], window # Null
  PROVE  LET n == Len(series)
             lo == BoundaryIds(series, window)[1]
             hi == BoundaryIds(series, window)[2]
             inside == {i \in 1..n : window[1] <= series[i][1] /\ series[i][1] <= window[2]}
             before == {i \in 1..n : series[i][1] < window[1] /\ series[i][2] # Null}
             behind == {i \in 1..n : series[i][1] > window[2] /\ series[i][2] # Null}
         IN  /\ lo \in 1..n /\ hi \in 1..n
             /\ inside \subseteq lo..hi
             /\ before # {} => Max(before) \in lo..hi
             /\ behind # {} => Min(behind) \in lo..hi
             /\ inside # {} => before \cap (lo..hi) \subseteq {lo} /\ behind \cap (lo..hi) \subseteq {hi}
<1> DEFINE n == Len(series)
           above == {i \in 1..n : series[i][1] >= window[1]}
           below == {i \in 1..n : series[i][1] <= window[2]}
           first == IF above = {} THEN 1 ELSE Min(above)
           last == IF below = {} THEN n ELSE Max(below)
           lo == NeighbourBefore(series, first)
           hi == NeighbourBehind(series, last)
           inside == {i \in 1..n : window[1] <= series[i][1] /\ series[i][1] <= window[2]}
           before == {i \in 1..n : series[i][1] < window[1] /\ series[i][2] # Null}
           behind == {i \in 1..n : series[i][1] > window[2] /\ series[i][2] # Null}
<1>1. n \in Nat /\ n >= 1 /\ \A i \in 1..n : series[i] \in Sample
  BY LenProperties, ElementOfSeq, EmptySeq
<1>2. BoundaryIds(series, window)[1] = lo /\ BoundaryIds(series, window)[2] = hi
  BY DEF BoundaryIds
<1>3. (\A i \in 1..n : series[i][1] \in Int) /\ window[1] \in Int /\ window[2] \in Int
  BY <1>1 DEF Sample
<1>4. \A i, j \in 1..n : i <= j => series[i][1] <= series[j][1]
  BY DEF Sorted
<1>5. /\ first \in 1..n
      /\ \A i \in above : first <= i
      /\ \A i \in 1..n : i < first => series[i][1] < window[1]
      /\ above # {} => first \in above
  <2>1. above \in SUBSET (1..n) /\ n \in Int
    BY <1>1
  <2>2. above # {} => Min(above) \in above /\ \A y \in above : Min(above) <= y
    <3> HIDE DEF above, n
    <3> QED
      BY <2>1, IndexMinMax, Zenon
  <2>3. first \in 1..n /\ \A i \in above : first <= i
    <3> HIDE DEF n
    <3>1. CASE above = {}
      BY <1>1, <3>1
    <3>2. CASE above # {}
      <4>1. first = Min(above)
        BY <3>2
      <4> HIDE DEF above, first
      <4> QED
        BY <2>1, <2>2, <3>2, <4>1
    <3> QED
      BY <3>1, <3>2
  <2>4. ASSUME NEW i \in 1..n, i < first PROVE series[i][1] < window[1]
    <3>1. i \notin above
      <4> HIDE DEF above, first, n
      <4>1. i \in Int /\ first \in Int
        BY <2>3
      <4> QED
        BY <2>3, <2>4, <4>1
    <3> HIDE DEF first
    <3> QED
      BY <1>3, <3>1
  <2>5. above # {} => first = Min(above)
    OBVIOUS
  <2> HIDE DEF above, first, n
  <2> QED
    BY <2>2, <2>3, <2>4, <2>5
<1>6. /\ last \in 1..n
      /\ \A i \in below : i <= last
      /\ \A i \in 1..n : i > last => series[i][1] > window[2]
      /\ below # {} => last \in below
  <2>1. below \in SUBSET (1..n) /\ n \in Int
    BY <1>1
  <2>2. below # {} => Max(below) \in below /\ \A y \in below : y <= Max(below)
    <3> HIDE DEF below, n
    <3> QED
      BY <2>1, IndexMinMax, Zenon
  <2>3. last \in 1..n /\ \A i \in below : i <= last
    <3> HIDE DEF n
    <3>1. CASE below = {}
      BY <1>1, <3>1
    <3>2. CASE below # {}
      <4>1. last = Max(below)
        BY <3>2
      <4> HIDE DEF below, last
      <4> QED
        BY <2>1, <2>2, <3>2, <4>1
    <3> QED
      BY <3>1, <3>2
  <2>4. ASSUME NEW i \in 1..n, i > last PROVE series[i][1] > window[2]
    <3>1. i \notin below
      <4> HIDE DEF below, last, n
      <4>1. i \in Int /\ last \in Int
        BY <2>3
      <4> QED
        BY <2>3, <2>4, <4>1
    <3> HIDE DEF last
    <3> QED
      BY <1>3, <3>1
  <2>5. below # {} => last = Max(below)
    OBVIOUS
  <2> HIDE DEF below, last, n
  <2> QED
    BY <2>2, <2>3, <2>4, <2>5
<1> HIDE DEF first, last
<1>7. /\ lo \in 1..first
      /\ \A j \in 1..n : j < first /\ series[j][2] # Null => j <= lo
      /\ lo = 1 \/ (lo < first /\ series[lo][2] # Null)
  <2> DEFINE S == {j \in 1..(first - 1) : series[j][2] # Null}
  <2>1. S \in SUBSET (1..(first - 1)) /\ first - 1 \in Int /\ first \in Int /\ first >= 1
    BY <1>1, <1>5
  <2>2. lo = IF S = {} THEN 1 ELSE Max(S)
    BY DEF NeighbourBefore
  <2>3. S # {} => Max(S) \in S /\ \A y \in S : y <= Max(S)
    <3> HIDE DEF S
    <3> QED
      BY <2>1, IndexMinMax, Zenon
  <2>4. \A j \in 1..n : j < first /\ series[j][2] # Null => j \in S
    BY <2>1
  <2>5. \A j \in S : j \in 1..(first - 1) /\ series[j][2] # Null
    OBVIOUS
  <2> HIDE DEF S, lo, n
  <2>6. CASE S = {}
    BY <2>1, <2>2, <2>4, <2>6
  <2>7. CASE S # {}
    <3>1. lo \in S /\ \A y \in S : y <= lo
      BY <2>2, <2>3, <2>7
    <3> QED
      BY <2>1, <2>4, <2>5, <3>1
  <2> QED
    BY <2>6, <2>7
<1>8. /\ hi \in last..n
      /\ \A j \in 1..n : j > last /\ series[j][2] # Null => hi <= j
      /\ hi = n \/ (hi > last /\ series[hi][2] # Null)
  <2> DEFINE S == {j \in (last + 1)..n : series[j][2] # Null}
  <2>1. last \in Int /\ 1 <= last /\ last <= n /\ n \in Int
    BY <1>1, <1>6
  <2>2. hi = IF S = {} THEN n ELSE Min(S)
    BY DEF NeighbourBehind
  <2>3. S # {} => Min(S) \in S /\ \A y \in S : Min(S) <= y
    <3>1. S \in SUBSET (1..n)
      BY <2>1
    <3> HIDE DEF S, n
    <3> QED
      BY <2>1, <3>1, IndexMinMax, Zenon
  <2>4. \A j \in 1..n : j > last /\ series[j][2] # Null => j \in S
    BY <2>1
  <2>5. \A j \in S : j \in (last + 1)..n /\ series[j][2] # Null
    OBVIOUS
  <2> HIDE DEF S, hi, n
  <2>6. CASE S = {}
    BY <2>1, <2>2, <2>4, <2>6
  <2>7. CASE S # {}
    <3>1. hi \in S /\ \A y \in S : hi <= y
      BY <2>2, <2>3, <2>7
    <3> QED
      BY <2>1, <2>4, <2>5, <3>1
  <2> QED
    BY <2>6, <2>7
<1>9. /\ lo \in 1..n /\ hi \in 1..n /\ lo <= first /\ last <= hi
      /\ lo \in Int /\ hi \in Int /\ first \in Int /\ last \in Int /\ n \in Int
  <2> HIDE DEF lo, hi, n
  <2> QED
    BY <1>1, <1>5, <1>6, <1>7, <1>8
<1>10. /\ \A i \in 1..n : window[1] <= series[i][1] => i \in above
       /\ \A i \in 1..n : series[i][1] <= window[2] => i \in below
  BY <1>3
<1>11. /\ \A i \in 1..n : i \in before <=> series[i][1] < window[1] /\ series[i][2] # Null
       /\ \A i \in 1..n : i \in behind <=> series[i][1] > window[2] /\ series[i][2] # Null
       /\ before \in SUBSET (1..n) /\ behind \in SUBSET (1..n)
  OBVIOUS
<1>12. inside \subseteq lo..hi
  <2> SUFFICES ASSUME NEW i \in inside PROVE i \in lo..hi
    OBVIOUS
  <2>1. i \in 1..n /\ i \in above /\ i \in below
    BY <1>10
  <2> HIDE DEF inside, above, below, lo, hi, n
  <2> QED
    BY <1>5, <1>6, <1>9, <2>1
<1>13. before # {} => Max(before) \in lo..hi
  <2> SUFFICES ASSUME before # {} PROVE Max(before) \in lo..hi
    OBVIOUS
  <2> HIDE DEF inside, above, below, before, lo, hi, n
  <2>1. Max(before) \in before /\ \A y \in before : y <= Max(before)
    BY <1>9, <1>11, IndexMinMax, Zenon
  <2>2. PICK m : m = Max(before)
    OBVIOUS
  <2>3. m \in 1..n /\ series[m][1] < window[1]
    BY <1>11, <2>1, <2>2
  <2>4. m <= last
    <3>1. series[m][1] <= window[2]
      BY <1>3, <2>3
    <3> QED
      BY <1>6, <1>10, <2>3, <3>1
  <2>5. lo <= m
    <3>1. CASE lo = 1
      BY <2>3, <3>1
    <3>2. CASE lo # 1
      <4>1. lo < first /\ series[lo][2] # Null
        BY <1>7, <3>2
      <4>2. lo \in before
        BY <1>5, <1>9, <1>11, <4>1
      <4> QED
        BY <2>1, <2>2, <4>2
    <3> QED
      BY <3>1, <3>2
  <2>6. m \in lo..hi
    BY <1>9, <2>3, <2>4, <2>5
  <2> QED
    BY <2>2, <2>6
<1>14. behind # {} => Min(behind) \in lo..hi
  <2> SUFFICES ASSUME behind # {} PROVE Min(behind) \in lo..hi
    OBVIOUS
  <2> HIDE DEF inside, above, below, behind, lo, hi, n
  <2>1. Min(behind) \in behind /\ \A y \in behind : Min(behind) <= y
    BY <1>9, <1>11, IndexMinMax, Zenon
  <2>2. PICK m : m = Min(behind)
    OBVIOUS
  <2>3. m \in 1..n /\ series[m][1] > window[2]
    BY <1>11, <2>1, <2>2
  <2>4. first <= m
    <3>1. window[1] <= series[m][1]
      BY <1>3, <2>3
    <3> QED
      BY <1>5, <1>10, <2>3, <3>1
  <2>5. m <= hi
    <3>1. CASE hi = n
      BY <1>9, <2>3, <3>1
    <3>2. CASE hi # n
      <4>1. hi > last /\ series[hi][2] # Null
        BY <1>8, <3>2
      <4>2. hi \in behind
        BY <1>6, <1>9, <1>11, <4>1
      <4> QED
        BY <2>1, <2>2, <4>2
    <3> QED
      BY <3>1, <3>2
  <2>6. m \in lo..hi
    BY <1>9, <2>3, <2>4, <2>5
  <2> QED
    BY <2>2, <2>6
<1>15. inside # {} => before \cap (lo..hi) \subseteq {lo} /\ behind \cap (lo..hi) \subseteq {hi}
  <2> SUFFICES ASSUME NEW i \in inside
               PROVE  before \cap (lo..hi) \subseteq {lo} /\ behind \cap (lo..hi) \subseteq {hi}
    OBVIOUS
  <2>1. i \in 1..n /\ i \in above /\ i \in below
    BY <1>10
  <2>2. series[first][1] >= window[1] /\ series[last][1] <= window[2]
    BY <1>5, <1>6, <2>1
  <2> HIDE DEF inside, above, below, before, behind, lo, hi, n
  <2>3. ASSUME NEW j \in before \cap (lo..hi) PROVE j = lo
    <3>1. j \in 1..n /\ series[j][1] < window[1] /\ series[j][2] # Null /\ lo <= j /\ j \in Int
      BY <1>11
    <3>2. j < first
      <4> SUFFICES ASSUME first <= j PROVE FALSE
        BY <1>9, <3>1
      <4>1. series[first][1] <= series[j][1] /\ series[first][1] \in Int /\ series[j][1] \in Int
        BY <1>3, <1>4, <1>5, <3>1
      <4> QED
        BY <1>3, <2>2, <3>1, <4>1
    <3> QED
      BY <1>7, <1>9, <3>1, <3>2
  <2>4. ASSUME NEW j \in behind \cap (lo..hi) PROVE j = hi
    <3>1. j \in 1..n /\ series[j][1] > window[2] /\ series[j][2] # Null /\ j <= hi /\ j \in Int
      BY <1>11
    <3>2. j > last
      <4> SUFFICES ASSUME j <= last PROVE FALSE
        BY <1>9, <3>1
      <4>1. series[j][1] <= series[last][1] /\ series[last][1] \in Int /\ series[j][1] \in Int
        BY <1>3, <1>4, <1>6, <3>1
      <4> QED
        BY <1>3, <2>2, <3>1, <4>1
    <3> QED
      BY <1>8, <1>9, <3>1, <3>2
  <2> QED
    BY <2>3, <2>4
<1> QED
  BY <1>2, <1>9, <1>12, <1>13, <1>14, <1>15

\* Every value between the boundary ids lies in the range of the y axis.
LEMMA ShownInRange ==
  ASSUME NEW series \in Seq(Sample), NEW window,
         NEW lo \in 1..Len(series), NEW hi \in 1..Len(series),
         BoundaryIds(series, window) = <<lo, hi>>,
         NEW i \in lo..hi, ~Missing(series[i][2])
  PROVE  LET range == ExtremeRange({GatherDatasets(series, window).extremes}, FALSE, FALSE)
         IN  range[1] <= 10 * series[i][2] /\ 10 * series[i][2] <= range[2]
<1> DEFINE n == Len(series)
           part == SubSeq(series, lo, hi)
           k == i - lo + 1
           e == ExtremesDefault(part)
<1>1. n \in Nat /\ lo \in Int /\ hi \in Int /\ i \in Int /\ lo <= i /\ i <= hi
      /\ (\A j \in lo..hi : series[j] \in Sample) /\ series[i][2] \in Int
  <2>1. n \in Nat /\ (\A j \in 1..n : series[j] \in Sample)
    BY LenProperties, ElementOfSeq
  <2>2. i \in 1..n /\ \A j \in lo..hi : j \in 1..n
    BY <2>1
  <2>3. series[i][2] \in Int
    BY <2>1, <2>2 DEF Sample, Value, Missing
  <2> HIDE DEF n
  <2> QED
    BY <2>1, <2>2, <2>3
<1>2. GatherDatasets(series, window).extremes = e
  BY DEF GatherDatasets
<1>3. /\ part \in Seq(Sample) /\ Len(part) = hi - lo + 1
      /\ \A j \in 1..(hi - lo + 1) : part[j] = series[lo + j - 1]
  <2>1. /\ SubSeq(series, lo, hi) \in Seq(Sample)
        /\ Len(SubSeq(series, lo, hi)) = IF lo <= hi THEN hi - lo + 1 ELSE 0
        /\ \A j \in 1..(hi - lo + 1) : SubSeq(series, lo, hi)[j] = series[lo + j - 1]
    BY <1>1, SubSeqProperties
  <2> QED
    BY <1>1, <2>1
<1>4. k \in DOMAIN part /\ part[k] = series[i]
  <2>1. k \in 1..(hi - lo + 1) /\ lo + k - 1 = i
    BY <1>1
  <2>2. DOMAIN part = 1..(hi - lo + 1)
    BY <1>3, LenProperties
  <2> HIDE DEF part, k
  <2> QED
    BY <1>3, <2>1, <2>2
<1> HIDE DEF part, k
<1>5. PICK low, high \in Int :
        /\ low <= high /\ e = <<low, high>>
        /\ low <= series[i][2] /\ series[i][2] <= high
  BY <1>3, <1>4, ExtremesDefaultType
<1> HIDE DEF e
<1>6. PICK a, b \in Int :
        /\ a <= b /\ ExtremeRange({e}, FALSE, FALSE) = <<a, b>>
        /\ e # <<Null, Null>> => a <= 10 * e[1] /\ 10 * e[2] <= b
  BY <1>5, ExtremeRangeType
<1>7. e # <<Null, Null>> /\ e[1] = low /\ e[2] = high
  BY <1>5, ValuesAssumption
<1>8. a <= 10 * series[i][2] /\ 10 * series[i][2] <= b
  BY <1>1, <1>5, <1>6, <1>7
<1> DEFINE range == ExtremeRange({GatherDatasets(series, window).extremes}, FALSE, FALSE)
<1>9. range = <<a, b>>
  BY <1>2, <1>6
<1> HIDE DEF range
<1>10. range[1] <= 10 * series[i][2] /\ 10 * series[i][2] <= range[2]
  BY <1>8, <1>9
<1> QED
  BY <1>10 DEF range

-----------------------------------------------------------------------------
(* The same file in two forms *)

\* h of every element.
Mapped(h, s) == [j \in 1..Len(s) |-> h[s[j]]]

\* h tells every row of R in the form of S, and leaves its x alone.
Retells(h, R, S) == h \in [R -> S] /\ \A r \in R : h[r][1] = r[1]

\* h of every element is a sequence of its values,
LEMMA MappedType ==
  ASSUME NEW R, NEW S, NEW h, Retells(h, R, S), NEW s \in Seq(R)
  PROVE  Mapped(h, s) \in Seq(S)
<1>0. h \in [R -> S]
  BY DEF Retells
<1> DEFINE n == Len(s)
           e(j) == h[s[j]]
<1>1. n \in Nat /\ \A j \in 1..n : s[j] \in R
  BY LenProperties, ElementOfSeq
<1>2. Mapped(h, s) = [j \in 1..n |-> e(j)] /\ \A j \in 1..n : e(j) \in S
  BY <1>0, <1>1 DEF Mapped
<1> HIDE DEF n, e
<1> QED
  BY <1>1, <1>2

\* is as long, and has them in the same places.
LEMMA MappedLen ==
  ASSUME NEW h, NEW s, Len(s) \in Nat
  PROVE  /\ Len(Mapped(h, s)) = Len(s) /\ DOMAIN Mapped(h, s) = 1..Len(s)
         /\ \A j \in 1..Len(s) : Mapped(h, s)[j] = h[s[j]]
<1> DEFINE n == Len(s)
           e(j) == h[s[j]]
<1>1. Mapped(h, s) = [j \in 1..n |-> e(j)] /\ n \in Nat
  BY DEF Mapped
<1> HIDE DEF n, e
<1>2. Len(Mapped(h, s)) = n /\ DOMAIN Mapped(h, s) = 1..n
      /\ \A j \in 1..n : Mapped(h, s)[j] = e(j)
  BY <1>1
<1> QED
  BY <1>2 DEF n, e

\* It does not matter whether an element is mapped before it is appended.
LEMMA MappedAppend ==
  ASSUME NEW R, NEW S, NEW h, Retells(h, R, S), NEW s \in Seq(R), NEW r \in R
  PROVE  Append(Mapped(h, s), h[r]) = Mapped(h, Append(s, r))
<1> DEFINE n == Len(s)
           a == Append(s, r)
           m == Mapped(h, s)
           b == Append(m, h[r])
<1>0. ASSUME NEW z \in Seq(R)
      PROVE  /\ Mapped(h, z) \in Seq(S) /\ Len(Mapped(h, z)) = Len(z)
             /\ \A j \in 1..Len(z) : z[j] \in R /\ Mapped(h, z)[j] = h[z[j]]
  <2>1. Mapped(h, z) \in Seq(S)
    BY MappedType
  <2>2. Len(Mapped(h, z)) = Len(z) /\ \A j \in 1..Len(z) : Mapped(h, z)[j] = h[z[j]]
    BY LenProperties, MappedLen
  <2>3. ASSUME NEW j \in 1..Len(z) PROVE z[j] \in R
    BY ElementOfSeq
  <2> QED
    BY <2>1, <2>2, <2>3
<1>1. n \in Nat /\ m \in Seq(S) /\ Len(m) = n /\ h[r] \in S
      /\ \A j \in 1..n : m[j] = h[s[j]]
  BY <1>0, LenProperties DEF Retells
<1>2. a \in Seq(R) /\ Len(a) = n + 1 /\ a[n + 1] = r /\ \A j \in 1..n : a[j] = s[j]
  BY AppendProperties
<1> HIDE DEF a, m
<1>3. b \in Seq(S) /\ Len(b) = n + 1 /\ b[n + 1] = h[r] /\ \A j \in 1..n : b[j] = m[j]
  BY <1>1, AppendProperties
<1>4. Mapped(h, a) \in Seq(S) /\ Len(Mapped(h, a)) = n + 1
      /\ \A j \in 1..(n + 1) : Mapped(h, a)[j] = h[a[j]]
  BY <1>0, <1>2
<1> HIDE DEF b, n
<1>5. ASSUME NEW j \in 1..(n + 1) PROVE b[j] = Mapped(h, a)[j]
  <2>1. CASE j = n + 1
    BY <1>2, <1>3, <1>4, <2>1
  <2>2. CASE j # n + 1
    <3>1. j \in 1..n
      BY <1>1, <2>2
    <3> QED
      BY <1>1, <1>2, <1>3, <1>4, <3>1
  <2> QED
    BY <2>1, <2>2
<1> QED
  BY <1>3, <1>4, <1>5, SeqEqual DEF a, b, m

\* A sequence stays one of the same set when a row is inserted.
LEMMA InsertRowType ==
  ASSUME NEW X, NEW s \in Seq(X), NEW r \in X
  PROVE  InsertRow(s, r) \in Seq(X)
<1> DEFINE n == Len(s)
           B == {i \in 1..n : s[i][1] <= r[1]}
           k == Cardinality(B)
<1>1. n \in Nat /\ DOMAIN s = 1..n
  BY LenProperties
<1>2. k + 1 \in 1..(n + 1)
  <2>1. IsFiniteSet(1..n) /\ Cardinality(1..n) = n
    <3>1. 1 \in Int /\ n \in Int /\ n >= 0
      BY <1>1
    <3>2. IsFiniteSet(1..n) /\ Cardinality(1..n) = IF 1 > n THEN 0 ELSE n - 1 + 1
      BY <3>1, FS_Interval
    <3> QED
      BY <3>1, <3>2
  <2>2. B \in SUBSET (1..n)
    OBVIOUS
  <2>3. IsFiniteSet(B) /\ Cardinality(B) <= Cardinality(1..n)
    BY <2>1, <2>2, FS_Subset
  <2>4. k \in Nat
    BY <2>3, FS_CardinalityType
  <2> HIDE DEF B, n, k
  <2>5. k <= n
    BY <2>1, <2>3 DEF k
  <2> QED
    BY <1>1, <2>4, <2>5
<1>3. InsertRow(s, r) = InsertAt(s, k + 1, r)
  BY <1>1 DEF InsertRow
<1> HIDE DEF k
<1>4. ASSUME NEW i \in 1..(Len(s) + 1) PROVE InsertAt(s, i, r) \in Seq(X)
  BY Insertion, SMTT(30)
<1> QED
  BY <1>2, <1>3, <1>4

\* Nor whether a row is mapped before it is inserted, if its x stays.
LEMMA MappedInsert ==
  ASSUME NEW R, NEW S, NEW h, Retells(h, R, S), NEW s \in Seq(R), NEW r \in R
  PROVE  /\ InsertRow(s, r) \in Seq(R)
         /\ InsertRow(Mapped(h, s), h[r]) = Mapped(h, InsertRow(s, r))
<1> DEFINE n == Len(s)
           m == Mapped(h, s)
           B == {i \in 1..n : s[i][1] <= r[1]}
           k == Cardinality(B)
<1>0. ASSUME NEW z \in Seq(R)
      PROVE  /\ Mapped(h, z) \in Seq(S) /\ Len(Mapped(h, z)) = Len(z)
             /\ \A j \in 1..Len(z) : z[j] \in R /\ Mapped(h, z)[j] = h[z[j]]
  <2>1. Mapped(h, z) \in Seq(S)
    BY MappedType
  <2>2. Len(Mapped(h, z)) = Len(z) /\ \A j \in 1..Len(z) : Mapped(h, z)[j] = h[z[j]]
    BY LenProperties, MappedLen
  <2>3. ASSUME NEW j \in 1..Len(z) PROVE z[j] \in R
    BY ElementOfSeq
  <2> QED
    BY <2>1, <2>2, <2>3
<1>1. n \in Nat /\ m \in Seq(S) /\ Len(m) = n /\ h[r] \in S
      /\ \A j \in 1..n : s[j] \in R /\ m[j] = h[s[j]]
  BY <1>0, LenProperties DEF Retells
<1>2. DOMAIN s = 1..n /\ DOMAIN m = 1..n
  BY <1>1, LenProperties
<1>3. k \in Nat /\ k + 1 \in 1..(n + 1)
  <2>1. IsFiniteSet(1..n) /\ Cardinality(1..n) = n
    <3>1. 1 \in Int /\ n \in Int /\ n >= 0
      BY <1>1
    <3>2. IsFiniteSet(1..n) /\ Cardinality(1..n) = IF 1 > n THEN 0 ELSE n - 1 + 1
      BY <3>1, FS_Interval
    <3> QED
      BY <3>1, <3>2
  <2>2. B \in SUBSET (1..n)
    OBVIOUS
  <2>3. IsFiniteSet(B) /\ Cardinality(B) <= Cardinality(1..n)
    BY <2>1, <2>2, FS_Subset
  <2>4. k \in Nat
    BY <2>3, FS_CardinalityType
  <2> HIDE DEF B, n, k
  <2>5. k <= n
    BY <2>1, <2>3 DEF k
  <2> QED
    BY <1>1, <2>4, <2>5
<1>4. InsertRow(s, r) = InsertAt(s, k + 1, r)
  BY <1>2 DEF InsertRow
<1>5. InsertRow(m, h[r]) = InsertAt(m, k + 1, h[r])
  <2>1. \A i \in 1..n : m[i][1] <= h[r][1] <=> s[i][1] <= r[1]
    BY <1>1 DEF Retells
  <2> HIDE DEF m
  <2>2. {i \in DOMAIN m : m[i][1] <= h[r][1]} = B
    BY <1>2, <2>1
  <2> HIDE DEF B
  <2> QED
    BY <2>2 DEF InsertRow
<1> HIDE DEF k, B
<1> DEFINE t == InsertAt(s, k + 1, r)
           u == InsertAt(m, k + 1, h[r])
<1>6. /\ t \in Seq(R) /\ Len(t) = n + 1
      /\ \A j \in 1..(n + 1) : t[j] = IF j < k + 1 THEN s[j] ELSE IF j = k + 1 THEN r ELSE s[j - 1]
  BY <1>3, Insertion
<1> HIDE DEF m
<1>7. /\ u \in Seq(S) /\ Len(u) = n + 1
      /\ \A j \in 1..(n + 1) : u[j] = IF j < k + 1 THEN m[j] ELSE IF j = k + 1 THEN h[r] ELSE m[j - 1]
  <2>1. k + 1 \in 1..(Len(m) + 1)
    BY <1>1, <1>3
  <2>2. ASSUME NEW i \in 1..(Len(m) + 1)
        PROVE  /\ InsertAt(m, i, h[r]) \in Seq(S) /\ Len(InsertAt(m, i, h[r])) = Len(m) + 1
               /\ \A j \in 1..(Len(m) + 1) : InsertAt(m, i, h[r])[j] =
                     IF j < i THEN m[j] ELSE IF j = i THEN h[r] ELSE m[j - 1]
    <3>1. PICK e \in S : e = h[r]
      BY <1>1
    <3>2. PICK q \in Seq(S) : q = m
      BY <1>1
    <3>3. i \in 1..(Len(q) + 1)
      BY <3>2
    <3>4. /\ InsertAt(q, i, e) \in Seq(S)
          /\ Len(InsertAt(q, i, e)) = Len(q) + 1
          /\ \A j \in 1..(Len(q) + 1) :
               InsertAt(q, i, e)[j] = IF j < i THEN q[j] ELSE IF j = i THEN e ELSE q[j - 1]
      BY <3>3, Insertion, SMTT(30)
    <3> QED
      BY <3>1, <3>2, <3>4
  <2> QED
    BY <1>1, <2>1, <2>2
<1> HIDE DEF t, u
<1>8. Mapped(h, t) \in Seq(S) /\ Len(Mapped(h, t)) = n + 1
      /\ \A j \in 1..(n + 1) : Mapped(h, t)[j] = h[t[j]]
  BY <1>0, <1>6
<1> HIDE DEF n
<1>9. ASSUME NEW j \in 1..(n + 1) PROVE u[j] = Mapped(h, t)[j]
  <2>1. CASE j < k + 1
    <3>1. j \in 1..n
      BY <1>1, <1>3, <2>1
    <3> QED
      BY <1>1, <1>6, <1>7, <1>8, <2>1, <3>1
  <2>2. CASE j = k + 1
    <3>1. ~(j < k + 1)
      BY <1>3, <2>2
    <3> QED
      BY <1>6, <1>7, <1>8, <2>2, <3>1
  <2>3. CASE j > k + 1
    <3>1. j - 1 \in 1..n /\ ~(j < k + 1) /\ j # k + 1
      BY <1>1, <1>3, <2>3
    <3>2. u[j] = m[j - 1] /\ t[j] = s[j - 1]
      BY <1>6, <1>7, <3>1
    <3> QED
      BY <1>1, <1>8, <3>1, <3>2
  <2> QED
    BY <1>1, <1>3, <2>1, <2>2, <2>3
<1>10. u = Mapped(h, t)
  BY <1>7, <1>8, <1>9, SeqEqual
<1> QED
  BY <1>4, <1>5, <1>6, <1>10 DEF t, u, m

\* It does not matter whether rows are mapped before they are sorted.
LEMMA MappedSort ==
  ASSUME NEW R, NEW S, NEW h, Retells(h, R, S), NEW rows \in Seq(R)
  PROVE  /\ SortRows(rows) \in Seq(R)
         /\ SortRows(Mapped(h, rows)) = Mapped(h, SortRows(rows))
<1> DEFINE n == Len(rows)
           m == Mapped(h, rows)
<1>1. n \in Nat /\ n \in Int /\ \A k \in 1..n : rows[k] \in R
  BY LenProperties, ElementOfSeq
<1>2. m \in Seq(S) /\ Len(m) = n /\ \A k \in 1..n : m[k] = h[rows[k]]
  <2>1. m \in Seq(S)
    BY MappedType
  <2> QED
    BY <1>1, <2>1, MappedLen
<1> HIDE DEF m
<1>3. ASSUME NEW s \in Seq(R), NEW r \in R
      PROVE  /\ InsertRow(s, r) \in Seq(R)
             /\ InsertRow(Mapped(h, s), h[r]) = Mapped(h, InsertRow(s, r))
  <2>1. InsertRow(s, r) \in Seq(R)
    BY InsertRowType
  <2>2. InsertRow(Mapped(h, s), h[r]) = Mapped(h, InsertRow(s, r))
    BY MappedInsert
  <2> QED
    BY <2>1, <2>2
<1>4. ASSUME NEW s \in Seq(S), NEW r \in S PROVE InsertRow(s, r) \in Seq(S)
  BY InsertRowType
<1>5. << >> \in Seq(R) /\ << >> \in Seq(S)
  OBVIOUS
<1>6. /\ SortRows(rows) \in Seq(R)
      /\ \E g \in [0..n -> Seq(R)] :
           /\ g[0] = << >> /\ g[n] = SortRows(rows)
           /\ \A k \in 1..n : g[k] = InsertRow(g[k - 1], rows[k])
  <2> DEFINE X == Seq(R)
  <2>1. rows \in Seq(R) /\ << >> \in X /\ \A r \in X : \A l \in R : InsertRow(r, l) \in X
    BY <1>3, <1>5
  <2> HIDE DEF X
  <2>2. SortRows(rows) \in X
    BY <2>1, InsertRows
  <2>3. SortsWithin(rows, X)
    BY <2>1, InsertRows
  <2> QED
    BY <2>2, <2>3 DEF SortsWithin, X
<1>7. \E g \in [0..n -> Seq(S)] :
           /\ g[0] = << >> /\ g[n] = SortRows(m)
           /\ \A k \in 1..n : g[k] = InsertRow(g[k - 1], m[k])
  <2> DEFINE X == Seq(S)
  <2>1. m \in Seq(S) /\ << >> \in X /\ \A r \in X : \A l \in S : InsertRow(r, l) \in X
    BY <1>2, <1>4, <1>5
  <2> HIDE DEF X
  <2>2. SortsWithin(m, X)
    BY <2>1, InsertRows
  <2> QED
    BY <1>2, <2>2 DEF SortsWithin, X
<1>8. PICK g \in [0..n -> Seq(R)] :
           /\ g[0] = << >> /\ g[n] = SortRows(rows)
           /\ \A k \in 1..n : g[k] = InsertRow(g[k - 1], rows[k])
  BY <1>6
<1>9. PICK g2 \in [0..n -> Seq(S)] :
           /\ g2[0] = << >> /\ g2[n] = SortRows(m)
           /\ \A k \in 1..n : g2[k] = InsertRow(g2[k - 1], m[k])
  BY <1>7
<1> DEFINE G == {k \in Nat : k <= n => g2[k] = Mapped(h, g[k])}
<1> HIDE DEF n
<1>10. 0 \in G
  <2>1. Mapped(h, << >>) = << >>
    BY DEF Mapped
  <2> QED
    BY <1>8, <1>9, <2>1
<1>11. ASSUME NEW k \in Nat, k \in G PROVE k + 1 \in G
  <2> SUFFICES ASSUME k + 1 <= n PROVE g2[k + 1] = Mapped(h, g[k + 1])
    OBVIOUS
  <2>1. k + 1 \in 1..n /\ (k + 1) - 1 = k /\ k \in 0..n /\ k <= n
    BY <1>1
  <2>2. g2[k] = Mapped(h, g[k]) /\ g[k] \in Seq(R) /\ rows[k + 1] \in R
    BY <1>1, <1>11, <2>1
  <2>3. g[k + 1] = InsertRow(g[k], rows[k + 1]) /\ g2[k + 1] = InsertRow(g2[k], m[k + 1])
    BY <1>8, <1>9, <2>1
  <2>4. m[k + 1] = h[rows[k + 1]]
    BY <1>2, <2>1
  <2> HIDE DEF G
  <2> QED
    BY <1>3, <2>2, <2>3, <2>4
<1>12. n \in G
  <2> HIDE DEF G
  <2> QED
    BY <1>1, <1>10, <1>11, SetInduction
<1>13. g2[n] = Mapped(h, g[n])
  BY <1>1, <1>12
<1> QED
  BY <1>6, <1>8, <1>9, <1>13 DEF m

\* alt puts every line of L in another form, so that a row in R becomes h of it, in S.
RetellsLines(alt, h, L, R, S, kind, other) ==
  /\ Retells(h, R, S)
  /\ \A l \in L :
       /\ (Len(alt[l]) >= 2) = (Len(l) >= 2)
       /\ Len(l) >= 2 => /\ ParseLine(kind, l) \in R
                         /\ ParseLine(other, alt[l]) = h[ParseLine(kind, l)]

\* Two files whose lines are the same rows in two forms become the same rows in
\* two forms, whatever the order of the lines.
LEMMA ParseCSVMap ==
  ASSUME NEW kind, NEW other, NEW L, NEW lines \in Seq(L), NEW alt, NEW R, NEW S, NEW h,
         RetellsLines(alt, h, L, R, S, kind, other)
  PROVE  /\ ParseCSV(kind, lines) \in Seq(R)
         /\ ParseCSV(other, [i \in DOMAIN lines |-> alt[lines[i]]]) = Mapped(h, ParseCSV(kind, lines))
<1>0. /\ Retells(h, R, S)
      /\ \A l \in L : Len(l) >= 2 => ParseLine(kind, l) \in R
      /\ \A l \in L : (Len(alt[l]) >= 2) = (Len(l) >= 2)
      /\ \A l \in L : Len(l) >= 2 => ParseLine(other, alt[l]) = h[ParseLine(kind, l)]
  BY DEF RetellsLines
<1> DEFINE n == Len(lines)
           M == {alt[l] : l \in L}
           e(i) == alt[lines[i]]
           lines2 == [i \in DOMAIN lines |-> alt[lines[i]]]
<1>1. n \in Nat /\ n \in Int /\ DOMAIN lines = 1..n /\ \A k \in 1..n : lines[k] \in L
  BY LenProperties, ElementOfSeq
<1>2. lines2 \in Seq(M) /\ Len(lines2) = n /\ \A k \in 1..n : lines2[k] = alt[lines[k]]
  <2>1. lines2 = [i \in 1..n |-> e(i)] /\ \A i \in 1..n : e(i) \in M
    BY <1>1
  <2> HIDE DEF n, e, M, lines2
  <2>2. lines2 \in Seq(M) /\ Len(lines2) = n /\ \A k \in 1..n : lines2[k] = e(k)
    BY <1>1, <2>1
  <2> QED
    BY <2>2 DEF e
<1> HIDE DEF lines2
<1>3. ASSUME NEW s \in Seq(R), NEW l \in L
      PROVE  /\ AddLine(kind, s, l) \in Seq(R)
             /\ AddLine(other, Mapped(h, s), alt[l]) = Mapped(h, AddLine(kind, s, l))
  <2>1. CASE Len(l) >= 2
    <3>1. ParseLine(kind, l) \in R /\ ParseLine(other, alt[l]) = h[ParseLine(kind, l)]
          /\ Len(alt[l]) >= 2
      BY <1>0, <2>1
    <3>2. /\ AddLine(kind, s, l) = Append(s, ParseLine(kind, l))
          /\ AddLine(other, Mapped(h, s), alt[l]) = Append(Mapped(h, s), h[ParseLine(kind, l)])
      BY <2>1, <3>1 DEF AddLine
    <3>3. Append(s, ParseLine(kind, l)) \in Seq(R)
      BY <3>1, AppendProperties
    <3>4. Append(Mapped(h, s), h[ParseLine(kind, l)]) = Mapped(h, Append(s, ParseLine(kind, l)))
      BY <1>0, <3>1, MappedAppend
    <3> QED
      BY <3>2, <3>3, <3>4
  <2>2. CASE ~(Len(l) >= 2)
    <3>1. ~(Len(alt[l]) >= 2)
      BY <1>0, <2>2
    <3> QED
      BY <2>2, <3>1 DEF AddLine
  <2> QED
    BY <2>1, <2>2
<1>4. ASSUME NEW s \in Seq(S), NEW q \in M PROVE AddLine(other, s, q) \in Seq(S)
  <2>1. PICK l \in L : q = alt[l]
    OBVIOUS
  <2>2. CASE Len(l) >= 2
    <3>1. ParseLine(other, q) \in S
      BY <1>0, <2>1, <2>2 DEF Retells
    <3> QED
      BY <3>1, AppendProperties DEF AddLine
  <2>3. CASE ~(Len(l) >= 2)
    BY <1>0, <2>1, <2>3 DEF AddLine
  <2> QED
    BY <2>2, <2>3
<1>5. << >> \in Seq(R) /\ << >> \in Seq(S)
  OBVIOUS
<1>6. /\ AllLines(kind, lines) \in Seq(R)
      /\ \E g \in [0..n -> Seq(R)] :
           /\ g[0] = << >> /\ g[n] = AllLines(kind, lines)
           /\ \A k \in 1..n : g[k] = AddLine(kind, g[k - 1], lines[k])
  <2> DEFINE X == Seq(R)
  <2>1. << >> \in X /\ \A r \in X : \A l \in L : AddLine(kind, r, l) \in X
    BY <1>3, <1>5
  <2> HIDE DEF X
  <2>2. AllLines(kind, lines) \in X
    BY <2>1, AddLines
  <2>3. ParsesWithin(kind, lines, X)
    BY <2>1, AddLines
  <2> QED
    BY <2>2, <2>3 DEF ParsesWithin, X
<1>7. \E g \in [0..n -> Seq(S)] :
           /\ g[0] = << >> /\ g[n] = AllLines(other, lines2)
           /\ \A k \in 1..n : g[k] = AddLine(other, g[k - 1], lines2[k])
  <2> DEFINE X == Seq(S)
  <2>1. << >> \in X /\ \A r \in X : \A l \in M : AddLine(other, r, l) \in X
    BY <1>4, <1>5
  <2> HIDE DEF X, M
  <2>2. ParsesWithin(other, lines2, X)
    BY <1>2, <2>1, AddLines
  <2> QED
    BY <1>2, <2>2 DEF ParsesWithin, X
<1>8. PICK g \in [0..n -> Seq(R)] :
           /\ g[0] = << >> /\ g[n] = AllLines(kind, lines)
           /\ \A k \in 1..n : g[k] = AddLine(kind, g[k - 1], lines[k])
  BY <1>6
<1>9. PICK g2 \in [0..n -> Seq(S)] :
           /\ g2[0] = << >> /\ g2[n] = AllLines(other, lines2)
           /\ \A k \in 1..n : g2[k] = AddLine(other, g2[k - 1], lines2[k])
  BY <1>7
<1> DEFINE G == {k \in Nat : k <= n => g2[k] = Mapped(h, g[k])}
<1> HIDE DEF n
<1>10. 0 \in G
  <2>1. Mapped(h, << >>) = << >>
    BY DEF Mapped
  <2> QED
    BY <1>8, <1>9, <2>1
<1>11. ASSUME NEW k \in Nat, k \in G PROVE k + 1 \in G
  <2> SUFFICES ASSUME k + 1 <= n PROVE g2[k + 1] = Mapped(h, g[k + 1])
    OBVIOUS
  <2>1. k + 1 \in 1..n /\ (k + 1) - 1 = k /\ k \in 0..n /\ k <= n
    BY <1>1
  <2>2. g2[k] = Mapped(h, g[k]) /\ g[k] \in Seq(R) /\ lines[k + 1] \in L
    BY <1>1, <1>11, <2>1
  <2>3. /\ g[k + 1] = AddLine(kind, g[k], lines[k + 1])
        /\ g2[k + 1] = AddLine(other, g2[k], lines2[k + 1])
    BY <1>8, <1>9, <2>1
  <2>4. lines2[k + 1] = alt[lines[k + 1]]
    BY <1>2, <2>1
  <2> HIDE DEF G
  <2> QED
    BY <1>3, <2>2, <2>3, <2>4
<1>12. n \in G
  <2> HIDE DEF G
  <2> QED
    BY <1>1, <1>10, <1>11, SetInduction
<1> DEFINE ret == AllLines(kind, lines)
           ret2 == AllLines(other, lines2)
           bad(s) == \E i \in 2..Len(s) : s[i][1] < s[i - 1][1]
<1>13. ret2 = Mapped(h, ret) /\ ret \in Seq(R)
  BY <1>1, <1>6, <1>8, <1>9, <1>12
<1> HIDE DEF ret, ret2
<1>14. bad(ret2) <=> bad(ret)
  <2>1. /\ Len(ret) \in Nat /\ Len(ret2) = Len(ret)
        /\ \A i \in 1..Len(ret) : ret[i] \in R /\ ret2[i] = h[ret[i]]
    BY <1>13, LenProperties, ElementOfSeq, MappedLen
  <2>2. \A i \in 1..Len(ret) : ret2[i][1] = ret[i][1]
    BY <1>0, <2>1 DEF Retells
  <2>3. \A i \in 2..Len(ret) : ret2[i][1] = ret[i][1] /\ ret2[i - 1][1] = ret[i - 1][1]
    BY <2>1, <2>2
  <2> QED
    BY <2>1, <2>3
<1>15. SortRows(ret) \in Seq(R) /\ SortRows(ret2) = Mapped(h, SortRows(ret))
  <2>1. SortRows(ret) \in Seq(R)
    BY <1>0, <1>13, MappedSort
  <2>2. SortRows(Mapped(h, ret)) = Mapped(h, SortRows(ret))
    BY <1>0, <1>13, MappedSort
  <2> QED
    BY <1>13, <2>1, <2>2
<1>16. /\ ParseCSV(kind, lines) = IF bad(ret) THEN SortRows(ret) ELSE ret
       /\ ParseCSV(other, lines2) = IF bad(ret2) THEN SortRows(ret2) ELSE ret2
  BY DEF ParseCSV, ret, ret2
<1> HIDE DEF bad
<1>17. ParseCSV(kind, lines) \in Seq(R) /\ ParseCSV(other, lines2) = Mapped(h, ParseCSV(kind, lines))
  BY <1>13, <1>14, <1>15, <1>16
<1> QED
  BY <1>17 DEF lines2

-----------------------------------------------------------------------------
(* The files of the pipeline: every row holds a value for each of two series *)

PlainLine == {l \in Line : Len(l) >= 2 => Len(l) = 3}
PlainRow == {r \in Row : Len(r) = 3}

\* What is in a row of such a file.
LEMMA PlainParse ==
  ASSUME NEW l \in PlainLine, Len(l) >= 2
  PROVE  /\ ParseLine("plain", l) \in PlainRow
         /\ ParseLine("plain", l)[1] = l[1]
         /\ ParseLine("plain", l)[2] = ParseFloat(l[2]) /\ ParseFloat(l[2]) \in Value
<1>1. \A field : ParseFields("plain", field) = ParseFloat(field)
  BY Zenon DEF ParseFields
<1>2. l \in Line /\ l \in Seq(Value \cup {Junk}) /\ Len(l) = 3
  BY DEF PlainLine, Line
<1>3. DOMAIN l = 1..3 /\ l[2] \in Value \cup {Junk}
  BY <1>2, LenProperties, ElementOfSeq
<1> DEFINE e(j) == IF j = 1 THEN l[1] ELSE ParseFloat(l[j])
<1>4. ParseLine("plain", l) = [j \in 1..3 |-> e(j)]
  BY <1>1, <1>3 DEF ParseLine
<1>5. ParseLine("plain", l) \in Row
  BY <1>2, ParseLineType
<1> HIDE DEF e
<1>6. Len(ParseLine("plain", l)) = 3
  BY <1>4
<1>7. ParseLine("plain", l)[1] = e(1) /\ ParseLine("plain", l)[2] = e(2)
  BY <1>4
<1>8. ParseFloat(l[2]) \in Value
  BY <1>3 DEF ParseFloat, Value
<1> QED
  BY <1>5, <1>6, <1>7, <1>8 DEF PlainRow, e

\* Such a file becomes sorted rows of this kind.
LEMMA PlainRows ==
  ASSUME NEW lines \in Seq(PlainLine)
  PROVE  ParseCSV("plain", lines) \in Seq(PlainRow) /\ Sorted(ParseCSV("plain", lines))
<1> DEFINE alt == [l \in PlainLine |-> l]
           h == [r \in PlainRow |-> r]
<1>1. Retells(h, PlainRow, PlainRow)
  BY DEF Retells
<1>2. \A l \in PlainLine : Len(l) >= 2 => ParseLine("plain", l) \in PlainRow
  BY PlainParse
<1>3. RetellsLines(alt, h, PlainLine, PlainRow, PlainRow, "plain", "plain")
  BY <1>1, <1>2 DEF RetellsLines
<1> HIDE DEF alt, h
<1>4. ParseCSV("plain", lines) \in Seq(PlainRow)
  BY <1>3, ParseCSVMap
<1>5. lines \in Seq(Line)
  <2>1. PlainLine \subseteq Line
    BY DEF PlainLine
  <2>2. /\ Len(lines) \in Nat /\ lines = [i \in 1..Len(lines) |-> lines[i]]
        /\ \A i \in 1..Len(lines) : lines[i] \in PlainLine
    BY LenProperties, ElementOfSeq
  <2> QED
    BY <2>1, <2>2
<1> QED
  BY <1>4, <1>5, ParseCSVType

\* A series of such a file has the x and the value of every row.
LEMMA PlainSeries ==
  ASSUME NEW raw \in Seq(PlainRow), NEW s \in 1..2
  PROVE  LET series == ExtractDefault(ColumnOf(raw, s), FALSE)
         IN  /\ series \in Seq(Sample) /\ Len(series) = Len(raw)
             /\ \A j \in 1..Len(raw) : series[j] = <<raw[j][1], raw[j][s + 1]>>
             /\ Sorted(raw) => Sorted(series)
<1> DEFINE n == Len(raw)
           col(j) == <<raw[j][1], raw[j][s + 1]>>
           series == ExtractDefault(ColumnOf(raw, s), FALSE)
<1>1. n \in Nat /\ DOMAIN raw = 1..n /\ \A j \in 1..n : raw[j] \in PlainRow
  BY LenProperties, ElementOfSeq
<1>2. ASSUME NEW j \in 1..n PROVE raw[j][1] \in Int /\ raw[j][s + 1] \in Value
  <2>1. raw[j] \in Seq(Value) /\ Len(raw[j]) = 3 /\ raw[j][1] \in Int
    BY <1>1 DEF PlainRow, Row
  <2>2. s + 1 \in 1..Len(raw[j])
    BY <2>1
  <2>3. raw[j][s + 1] \in Value
    BY <2>1, <2>2, ElementOfSeq
  <2> QED
    BY <2>1, <2>3
<1>3. \A j \in 1..n : col(j)[1] = raw[j][1] /\ col(j)[2] = raw[j][s + 1] /\ col(j) \in Sample
  BY <1>2 DEF Sample
<1>4. ColumnOf(raw, s) = [j \in 1..n |-> col(j)]
  BY <1>1 DEF ColumnOf
<1> HIDE DEF n
<1>5. series = [j \in 1..n |-> col(j)]
  <2>1. \A j \in 1..n : <<col(j)[1]>> \o <<col(j)[2]>> = col(j)
    BY <1>3, Pair
  <2> HIDE DEF col
  <2>2. DOMAIN ColumnOf(raw, s) = 1..n /\ \A j \in 1..n : ColumnOf(raw, s)[j] = col(j)
    BY <1>4
  <2>3. series = [j \in DOMAIN ColumnOf(raw, s) |->
                    <<ColumnOf(raw, s)[j][1]>> \o <<ColumnOf(raw, s)[j][2]>>]
    BY DEF ExtractDefault, Extract
  <2> QED
    BY <2>1, <2>2, <2>3
<1> HIDE DEF series, col
<1>6. series \in Seq(Sample) /\ Len(series) = n /\ \A j \in 1..n : series[j] = col(j)
  BY <1>1, <1>3, <1>5
<1>7. ASSUME Sorted(raw), NEW i \in 1..n, NEW j \in 1..n, i <= j
      PROVE  series[i][1] <= series[j][1]
  BY <1>3, <1>6, <1>7 DEF Sorted, n
<1>8. Sorted(raw) => Sorted(series)
  BY <1>6, <1>7 DEF Sorted
<1> QED
  BY <1>6, <1>8 DEF series, n, col

-----------------------------------------------------------------------------
(* The running sums of a rolling average *)

\* From one sample to the next the window takes one in, and lets one go when it is full.
LEMMA WindowSlides ==
  ASSUME NEW n \in Nat, n >= 1, NEW i \in Nat, i >= 1
  PROVE  /\ IsFiniteSet(RollWindow(n, i)) /\ IsFiniteSet(RollWindow(n, i - 1))
         /\ RollWindow(n, i) \subseteq 1..i /\ RollWindow(n, i - 1) \subseteq 1..(i - 1)
         /\ RollWindow(n, i - 1) = (RollWindow(n, i - 1) \cup {i}) \ {i}
         /\ i > n => /\ i - n \in RollWindow(n, i - 1) \cup {i} /\ i - n \in 1..i
                     /\ RollWindow(n, i) = (RollWindow(n, i - 1) \cup {i}) \ {i - n}
         /\ ~(i > n) => RollWindow(n, i) = RollWindow(n, i - 1) \cup {i}
<1> DEFINE a == Max2(1, i - n + 1)
           b == Max2(1, i - 1 - n + 1)
<1>1. RollWindow(n, i) = a..i /\ RollWindow(n, i - 1) = b..(i - 1)
  BY DEF RollWindow
<1>2. /\ a \in Int /\ b \in Int /\ a >= 1 /\ b >= 1
      /\ i > n => a = i - n + 1 /\ b = i - n
      /\ ~(i > n) => a = 1 /\ b = 1
  BY DEF Max2
<1> HIDE DEF a, b
<1>3. IsFiniteSet(a..i) /\ IsFiniteSet(b..(i - 1))
  BY <1>2, FS_Interval
<1>4. a..i \subseteq 1..i /\ b..(i - 1) \subseteq 1..(i - 1)
  BY <1>2
<1>5. b..(i - 1) = (b..(i - 1) \cup {i}) \ {i}
  BY <1>2
<1>6. ASSUME i > n
      PROVE  /\ i - n \in b..(i - 1) \cup {i} /\ i - n \in 1..i
             /\ a..i = (b..(i - 1) \cup {i}) \ {i - n}
  BY <1>2, <1>6
<1>7. ~(i > n) => a..i = b..(i - 1) \cup {i}
  BY <1>2
<1> QED
  BY <1>1, <1>3, <1>4, <1>5, <1>6, <1>7

\* So does the sum of what is in it.
LEMMA SumSlides ==
  ASSUME NEW n \in Nat, n >= 1, NEW i \in Nat, i >= 1,
         NEW f, \A j \in 1..i : f[j] \in Int
  PROVE  /\ SumFunctionOnSet(f, RollWindow(n, i)) \in Int
         /\ SumFunctionOnSet(f, RollWindow(n, i - 1)) \in Int
         /\ SumFunctionOnSet(f, RollWindow(n, i)) =
              LET entered == SumFunctionOnSet(f, RollWindow(n, i - 1)) + f[i]
              IN  IF i > n THEN entered - f[i - n] ELSE entered
<1> DEFINE W == RollWindow(n, i)
           V == RollWindow(n, i - 1)
           E == V \cup {i}
<1>1. /\ IsFiniteSet(W) /\ IsFiniteSet(V) /\ W \subseteq 1..i /\ V \subseteq 1..(i - 1) /\ V = E \ {i}
      /\ i > n => i - n \in E /\ i - n \in 1..i /\ W = E \ {i - n}
      /\ ~(i > n) => W = E
  BY WindowSlides
<1> HIDE DEF W, V
<1>2. IsFiniteSet(E) /\ E \subseteq 1..i /\ i \in E
  BY <1>1, FS_AddElement
<1> HIDE DEF E
<1>3. /\ (\A j \in W : f[j] \in Int) /\ (\A j \in V : f[j] \in Int) /\ (\A j \in E : f[j] \in Int)
  BY <1>1, <1>2
<1>4. SumFunctionOnSet(f, W) \in Int
  BY <1>1, <1>3, SumType
<1>5. SumFunctionOnSet(f, V) \in Int
  BY <1>1, <1>3, SumType
<1>6. \A j \in E : SumFunctionOnSet(f, E) = f[j] + SumFunctionOnSet(f, E \ {j})
  BY <1>2, <1>3, SumRemove
<1>7. f[i] \in Int /\ SumFunctionOnSet(f, E) = f[i] + SumFunctionOnSet(f, V)
  BY <1>1, <1>2, <1>6
<1>8. CASE i > n
  <2>1. f[i - n] \in Int /\ SumFunctionOnSet(f, E) = f[i - n] + SumFunctionOnSet(f, W)
    BY <1>1, <1>6, <1>8
  <2> DEFINE x == SumFunctionOnSet(f, E)
             w == SumFunctionOnSet(f, W)
             v == SumFunctionOnSet(f, V)
  <2>2. w \in Int /\ v \in Int /\ x = f[i] + v /\ x = f[i - n] + w
    BY <1>4, <1>5, <1>7, <2>1
  <2> HIDE DEF x, w, v
  <2>3. w = (v + f[i]) - f[i - n]
    BY <1>7, <2>1, <2>2
  <2> QED
    BY <1>4, <1>5, <1>8, <2>3 DEF w, v, W, V
<1>9. CASE ~(i > n)
  <2>1. SumFunctionOnSet(f, W) = SumFunctionOnSet(f, V) + f[i]
    BY <1>1, <1>5, <1>7, <1>9
  <2> QED
    BY <1>4, <1>5, <1>9, <2>1 DEF W, V
<1> QED
  BY <1>8, <1>9

\* Before the first sample the window is empty.
LEMMA WindowStarts ==
  ASSUME NEW n \in Nat, n >= 1, NEW f
  PROVE  RollWindow(n, 0) = {} /\ SumFunctionOnSet(f, RollWindow(n, 0)) = 0
<1>1. RollWindow(n, 0) = {}
  BY DEF RollWindow, Max2
<1> QED
  BY <1>1, SumEmpty

-----------------------------------------------------------------------------
(* The bars of CustomBarsHandler *)

\* What a sample adds to the running sums, or takes from them.
BarAdd(acc, s, sign) ==
  IF Missing(s[2]) THEN acc
  ELSE [low |-> acc.low + sign * AsNumber(s[3][1]),
        mid |-> acc.mid + sign * s[2],
        high |-> acc.high + sign * AsNumber(s[3][2]),
        count |-> acc.count + sign]

Acc(low, mid, high, count) == [low |-> low, mid |-> mid, high |-> high, count |-> count]

\* The recursion of the running sums.
BarSums(series, n, sums) ==
  sums = [i \in 0..Len(series) |->
            IF i = 0 THEN [low |-> 0, mid |-> 0, high |-> 0, count |-> 0]
            ELSE LET entered == BarAdd(sums[i - 1], series[i], 1)
                 IN  IF i > n THEN BarAdd(entered, series[i - n], -1) ELSE entered]

\* It is the one of RollCustom.
LEMMA RollCustomIs ==
  ASSUME NEW series, NEW period
  PROVE  RollCustom(series, period) =
           LET sums == CHOOSE sums : BarSums(series, Min2(period, Len(series)), sums)
               at(x, a) == IF a.count = 0 THEN <<x, Null, <<Null, Null>>>>
                           ELSE <<x, a.mid \div a.count,
                                  <<a.low \div a.count, a.high \div a.count>>>>
           IN  [i \in DOMAIN series |-> at(series[i][1], sums[i])]
BY Zenon DEF RollCustom, BarSums, BarAdd

\* low, mid, high and one are what each sample of a series adds to the sums.
BarsOf(series, low, mid, high, one) ==
  \A j \in 1..Len(series) :
    /\ low[j] \in Int /\ mid[j] \in Int /\ high[j] \in Int /\ one[j] \in Int
    /\ Missing(series[j][2]) => low[j] = 0 /\ mid[j] = 0 /\ high[j] = 0 /\ one[j] = 0
    /\ ~Missing(series[j][2]) => /\ series[j][2] = mid[j] /\ one[j] = 1
                                 /\ series[j][3][1] = low[j] /\ series[j][3][2] = high[j]

\* A sample adds and takes just that.
LEMMA BarAdds ==
  ASSUME NEW series, NEW low, NEW mid, NEW high, NEW one,
         BarsOf(series, low, mid, high, one), NEW j \in 1..Len(series),
         NEW a \in Int, NEW b \in Int, NEW c \in Int, NEW d \in Int
  PROVE  /\ BarAdd(Acc(a, b, c, d), series[j], 1) = Acc(a + low[j], b + mid[j], c + high[j], d + one[j])
         /\ BarAdd(Acc(a, b, c, d), series[j], -1) = Acc(a - low[j], b - mid[j], c - high[j], d - one[j])
<1> DEFINE acc == Acc(a, b, c, d)
           l == low[j]
           m == mid[j]
           h == high[j]
           o == one[j]
           s == series[j]
<1>1. l \in Int /\ m \in Int /\ h \in Int /\ o \in Int
  BY DEF BarsOf
<1>2. Missing(s[2]) => l = 0 /\ m = 0 /\ h = 0 /\ o = 0
  BY DEF BarsOf
<1>3. ~Missing(s[2]) => s[2] = m /\ o = 1 /\ s[3][1] = l /\ s[3][2] = h
  BY DEF BarsOf
<1> HIDE DEF l, m, h, o, s
<1>4. CASE Missing(s[2])
  <2>1. BarAdd(acc, s, 1) = acc /\ BarAdd(acc, s, -1) = acc
    BY <1>4 DEF BarAdd
  <2>2. a + 0 = a /\ b + 0 = b /\ c + 0 = c /\ d + 0 = d /\ a - 0 = a /\ b - 0 = b /\ c - 0 = c /\ d - 0 = d
    OBVIOUS
  <2> QED
    BY <1>2, <1>4, <2>1, <2>2 DEF l, m, h, o, s
<1>5. CASE ~Missing(s[2])
  <2>1. AsNumber(l) = l /\ AsNumber(h) = h
    BY <1>1, ValuesAssumption DEF AsNumber
  <2>2. /\ BarAdd(acc, s, 1) =
             Acc(a + 1 * l, b + 1 * m, c + 1 * h, d + 1)
        /\ BarAdd(acc, s, -1) =
             Acc(a + (-1) * l, b + (-1) * m, c + (-1) * h, d + (-1))
    BY <1>3, <1>5, <2>1 DEF BarAdd, Acc
  <2>3. /\ a + 1 * l = a + l /\ b + 1 * m = b + m /\ c + 1 * h = c + h /\ d + 1 = d + o
        /\ a + (-1) * l = a - l /\ b + (-1) * m = b - m /\ c + (-1) * h = c - h /\ d + (-1) = d - o
    BY <1>1, <1>3, <1>5
  <2> QED
    BY <2>2, <2>3 DEF l, m, h, o, s
<1> QED
  BY <1>4, <1>5

\* The running sums hold exactly the samples of the window.
LEMMA BarSumsAre ==
  ASSUME NEW series, Len(series) \in Nat, NEW n \in Nat, n >= 1,
         NEW low, NEW mid, NEW high, NEW one, BarsOf(series, low, mid, high, one),
         NEW i \in 0..Len(series)
  PROVE  (CHOOSE sums : BarSums(series, n, sums))[i] =
           Acc(SumFunctionOnSet(low, RollWindow(n, i)), SumFunctionOnSet(mid, RollWindow(n, i)),
               SumFunctionOnSet(high, RollWindow(n, i)), SumFunctionOnSet(one, RollWindow(n, i)))
<1> DEFINE N == Len(series)
           S(f, k) == SumFunctionOnSet(f, RollWindow(n, k))
           At(k) == Acc(S(low, k), S(mid, k), S(high, k), S(one, k))
           Step(acc, k) == LET entered == BarAdd(acc, series[k], 1)
                           IN  IF k > n THEN BarAdd(entered, series[k - n], -1) ELSE entered
           zero == Acc(0, 0, 0, 0)
<1>1. At(0) = zero
  BY WindowStarts
<1>2. ASSUME NEW k \in 1..N PROVE At(k) = Step(At(k - 1), k)
  <2>1. k \in Nat /\ k >= 1 /\ k - 1 \in Nat
    OBVIOUS
  <2>2. ASSUME NEW f, \A j \in 1..N : f[j] \in Int
        PROVE  /\ S(f, k) \in Int /\ S(f, k - 1) \in Int
               /\ k > n => S(f, k) = (S(f, k - 1) + f[k]) - f[k - n]
               /\ ~(k > n) => S(f, k) = S(f, k - 1) + f[k]
    <3>1. \A j \in 1..k : f[j] \in Int
      BY <2>2
    <3> QED
      BY <2>1, <3>1, SumSlides
  <2>3. /\ \A j \in 1..N : low[j] \in Int
        /\ \A j \in 1..N : mid[j] \in Int
        /\ \A j \in 1..N : high[j] \in Int
        /\ \A j \in 1..N : one[j] \in Int
    BY DEF BarsOf
  <2> HIDE DEF S
  <2>4. /\ S(low, k) \in Int /\ S(low, k - 1) \in Int
        /\ k > n => S(low, k) = (S(low, k - 1) + low[k]) - low[k - n]
        /\ ~(k > n) => S(low, k) = S(low, k - 1) + low[k]
    BY <2>2, <2>3
  <2>5. /\ S(mid, k) \in Int /\ S(mid, k - 1) \in Int
        /\ k > n => S(mid, k) = (S(mid, k - 1) + mid[k]) - mid[k - n]
        /\ ~(k > n) => S(mid, k) = S(mid, k - 1) + mid[k]
    BY <2>2, <2>3
  <2>6. /\ S(high, k) \in Int /\ S(high, k - 1) \in Int
        /\ k > n => S(high, k) = (S(high, k - 1) + high[k]) - high[k - n]
        /\ ~(k > n) => S(high, k) = S(high, k - 1) + high[k]
    BY <2>2, <2>3
  <2>7. /\ S(one, k) \in Int /\ S(one, k - 1) \in Int
        /\ k > n => S(one, k) = (S(one, k - 1) + one[k]) - one[k - n]
        /\ ~(k > n) => S(one, k) = S(one, k - 1) + one[k]
    BY <2>2, <2>3
  <2>8. PICK a \in Int, b \in Int, c \in Int, d \in Int :
          a = S(low, k - 1) /\ b = S(mid, k - 1) /\ c = S(high, k - 1) /\ d = S(one, k - 1)
    BY <2>4, <2>5, <2>6, <2>7
  <2>9. At(k - 1) = Acc(a, b, c, d)
    BY <2>8
  <2>10. BarAdd(Acc(a, b, c, d), series[k], 1) = Acc(a + low[k], b + mid[k], c + high[k], d + one[k])
    BY BarAdds
  <2>11. CASE k > n
    <3>1. k - n \in 1..N
      BY <2>11
    <3>2. low[k] \in Int /\ mid[k] \in Int /\ high[k] \in Int /\ one[k] \in Int
      BY <2>3
    <3> DEFINE a1 == a + low[k]
               b1 == b + mid[k]
               c1 == c + high[k]
               d1 == d + one[k]
    <3>3. a1 \in Int /\ b1 \in Int /\ c1 \in Int /\ d1 \in Int
      BY <3>2
    <3>4. BarAdd(Acc(a1, b1, c1, d1), series[k - n], -1) =
            Acc(a1 - low[k - n], b1 - mid[k - n], c1 - high[k - n], d1 - one[k - n])
      <4>1. PICK j \in 1..N : j = k - n
        BY <3>1
      <4> HIDE DEF a1, b1, c1, d1
      <4>2. BarAdd(Acc(a1, b1, c1, d1), series[j], -1) =
              Acc(a1 - low[j], b1 - mid[j], c1 - high[j], d1 - one[j])
        BY <3>3, BarAdds
      <4> QED
        BY <4>1, <4>2
    <3>5. At(k) = Acc(a1 - low[k - n], b1 - mid[k - n], c1 - high[k - n], d1 - one[k - n])
      BY <2>4, <2>5, <2>6, <2>7, <2>8, <2>11
    <3>6. Step(At(k - 1), k) = BarAdd(BarAdd(At(k - 1), series[k], 1), series[k - n], -1)
      BY <2>11
    <3> HIDE DEF At, Step
    <3> QED
      BY <2>9, <2>10, <3>4, <3>5, <3>6
  <2>12. CASE ~(k > n)
    <3>1. At(k) = Acc(a + low[k], b + mid[k], c + high[k], d + one[k])
      BY <2>4, <2>5, <2>6, <2>7, <2>8, <2>12
    <3>2. Step(At(k - 1), k) = BarAdd(At(k - 1), series[k], 1)
      BY <2>12
    <3> HIDE DEF At, Step
    <3> QED
      BY <2>9, <2>10, <3>1, <3>2
  <2> QED
    BY <2>11, <2>12
<1> HIDE DEF S, At, Step, zero
<1> DEFINE c == [k \in 0..N |-> At(k)]
           Is(sums) == sums = [k \in 0..N |-> IF k = 0 THEN zero ELSE Step(sums[k - 1], k)]
<1>3. \A sums : BarSums(series, n, sums) <=> Is(sums)
  BY DEF BarSums, Step, zero, Acc
<1>4. Is(c)
  <2>1. ASSUME NEW k \in 0..N PROVE At(k) = IF k = 0 THEN zero ELSE Step(c[k - 1], k)
    <3>1. CASE k = 0
      BY <1>1, <3>1
    <3>2. CASE k # 0
      <4>1. k \in 1..N /\ k - 1 \in 0..N
        BY <3>2
      <4>2. c[k - 1] = At(k - 1)
        BY <4>1
      <4> HIDE DEF c
      <4> QED
        BY <1>2, <3>2, <4>1, <4>2
    <3> QED
      BY <3>1, <3>2
  <2> QED
    BY <2>1
<1> HIDE DEF c, Is
<1> DEFINE sums == CHOOSE x : BarSums(series, n, x)
<1>5. Is(sums)
  BY <1>3, <1>4
<1> HIDE DEF sums
<1> DEFINE G == {k \in Nat : k <= N => sums[k] = At(k)}
<1>6. 0 \in G
  BY <1>1, <1>5 DEF Is
<1>7. ASSUME NEW k \in Nat, k \in G PROVE k + 1 \in G
  <2> SUFFICES ASSUME k + 1 <= N PROVE sums[k + 1] = At(k + 1)
    OBVIOUS
  <2>1. k + 1 \in 1..N /\ k + 1 \in 0..N /\ k + 1 # 0 /\ (k + 1) - 1 = k /\ sums[k] = At(k)
    BY <1>7
  <2>2. sums[k + 1] = Step(sums[(k + 1) - 1], k + 1)
    BY <1>5, <2>1 DEF Is
  <2>3. At(k + 1) = Step(At((k + 1) - 1), k + 1)
    BY <1>2, <2>1
  <2> HIDE DEF G
  <2> QED
    BY <2>1, <2>2, <2>3
<1>8. i \in G
  <2> HIDE DEF G
  <2> QED
    BY <1>6, <1>7, SetInduction
<1> QED
  BY <1>8 DEF sums, At, S

-----------------------------------------------------------------------------
(* The running sums of a fraction *)

\* What a part of a fraction does to its sum.
Plus(a, b, sign) == IF NaN \in {a, b} THEN NaN ELSE a + sign * AsNumber(b)
PlusBoth(acc, s, k, sign) == <<Plus(acc[1], s[3][k], sign), Plus(acc[2], s[3][k + 1], sign)>>

\* The recursion of the running sums.
FractionSums(series, n, k, sums) ==
  sums = [i \in 0..Len(series) |->
            IF i = 0 THEN <<0, 0>>
            ELSE LET entered == PlusBoth(sums[i - 1], series[i], k, 1)
                 IN  IF i > n THEN PlusBoth(entered, series[i - n], k, -1) ELSE entered]

\* It is the one of RunningFraction.
LEMMA RunningFractionIs ==
  ASSUME NEW series, NEW period, NEW k
  PROVE  RunningFraction(series, period, k) =
           LET sums == CHOOSE sums : FractionSums(series, Min2(period, Len(series)), k, sums)
           IN  [i \in DOMAIN series |-> <<series[i][1], Ratio(sums[i][1], sums[i][2])>>]
BY Zenon DEF RunningFraction, FractionSums, PlusBoth, Plus

\* The numerators, as numbers where they are not NaN, and the denominators.
FractionsOf(series, k, num, den) ==
  \A j \in 1..Len(series) :
    /\ num[j] \in Int /\ den[j] \in Int
    /\ series[j][3][k] # NaN => AsNumber(series[j][3][k]) = num[j]
    /\ series[j][3][k + 1] = den[j]

\* NaN has been among the first i numerators.
NaNSeen(series, k, i) == \E j \in 1..i : series[j][3][k] = NaN

\* The sums hold exactly the samples of the window, until there is a NaN.
SumsAt(series, n, k, num, den, i) ==
  <<IF NaNSeen(series, k, i) THEN NaN ELSE SumFunctionOnSet(num, RollWindow(n, i)),
    SumFunctionOnSet(den, RollWindow(n, i))>>

\* They go from one sample to the next as those of the code do.
LEMMA SumsStep ==
  ASSUME NEW series, Len(series) \in Nat, NEW n \in Nat, n >= 1, NEW k,
         NEW num, NEW den, FractionsOf(series, k, num, den), NEW i \in 1..Len(series)
  PROVE  SumsAt(series, n, k, num, den, i) =
           LET entered == PlusBoth(SumsAt(series, n, k, num, den, i - 1), series[i], k, 1)
           IN  IF i > n THEN PlusBoth(entered, series[i - n], k, -1) ELSE entered
<1> DEFINE N == Len(series)
           S(f, j) == SumFunctionOnSet(f, RollWindow(n, j))
           seen(j) == NaNSeen(series, k, j)
           Num(j) == IF seen(j) THEN NaN ELSE S(num, j)
           Den(j) == S(den, j)
           y(j) == series[j][3][k]
<1>1. i \in Nat /\ i >= 1 /\ i \in 1..N /\ (i > n => i - n \in 1..N /\ i - n \in 1..i)
  OBVIOUS
<1>2. ASSUME NEW f, \A j \in 1..N : f[j] \in Int
      PROVE  /\ S(f, i) \in Int /\ S(f, i - 1) \in Int
             /\ i > n => S(f, i) = (S(f, i - 1) + f[i]) - f[i - n]
             /\ ~(i > n) => S(f, i) = S(f, i - 1) + f[i]
  <2>1. \A j \in 1..i : f[j] \in Int
    BY <1>2
  <2> QED
    BY <1>1, <2>1, SumSlides
<1>3. (\A j \in 1..N : num[j] \in Int) /\ (\A j \in 1..N : den[j] \in Int)
  BY DEF FractionsOf
<1>4. ASSUME NEW j \in 1..N
      PROVE  /\ num[j] \in Int /\ den[j] \in Int /\ series[j][3][k + 1] = den[j]
             /\ y(j) # NaN => AsNumber(y(j)) = num[j]
  BY DEF FractionsOf
<1>5. seen(i) <=> seen(i - 1) \/ y(i) = NaN
  <2>1. \A j \in 1..i : j \in 1..(i - 1) \/ j = i
    OBVIOUS
  <2>2. \A j \in 1..(i - 1) : j \in 1..i
    OBVIOUS
  <2>3. i \in 1..i
    OBVIOUS
  <2> QED
    BY <2>1, <2>2, <2>3 DEF NaNSeen
<1>6. i > n /\ y(i - n) = NaN => seen(i)
  BY <1>1 DEF NaNSeen
<1> HIDE DEF S, seen, y
<1>7. /\ S(num, i) \in Int /\ S(num, i - 1) \in Int
      /\ i > n => S(num, i) = (S(num, i - 1) + num[i]) - num[i - n]
      /\ ~(i > n) => S(num, i) = S(num, i - 1) + num[i]
  BY <1>2, <1>3
<1>8. /\ S(den, i) \in Int /\ S(den, i - 1) \in Int
      /\ i > n => S(den, i) = (S(den, i - 1) + den[i]) - den[i - n]
      /\ ~(i > n) => S(den, i) = S(den, i - 1) + den[i]
  BY <1>2, <1>3
<1>9. \A a \in Int : a # NaN /\ a # Null /\ AsNumber(a) = a
  BY ValuesAssumption DEF AsNumber
<1>10. \A a, c \in Int : \A b : b # NaN /\ AsNumber(b) = c => Plus(a, b, 1) = a + c /\ a + c \in Int
  BY <1>9 DEF Plus
<1>10a. \A a, c \in Int : \A b : b # NaN /\ AsNumber(b) = c => Plus(a, b, -1) = a - c
  <2> SUFFICES ASSUME NEW a \in Int, NEW c \in Int, NEW b, b # NaN, AsNumber(b) = c
               PROVE  Plus(a, b, -1) = a - c
    OBVIOUS
  <2>1. NaN \notin {a, b}
    BY <1>9
  <2>2. a + (-1) * c = a - c
    OBVIOUS
  <2> QED
    BY <2>1, <2>2 DEF Plus
<1>11. \A b, sign : Plus(NaN, b, sign) = NaN /\ Plus(b, NaN, sign) = NaN
  BY DEF Plus
<1> DEFINE e1 == Plus(Num(i - 1), y(i), 1)
           e2 == Plus(Den(i - 1), series[i][3][k + 1], 1)
<1>12. e1 = IF seen(i) THEN NaN ELSE S(num, i - 1) + num[i]
  <2>1. CASE seen(i - 1)
    BY <1>5, <1>11, <2>1
  <2>2. CASE y(i) = NaN
    BY <1>5, <1>11, <2>2
  <2>3. CASE ~seen(i - 1) /\ y(i) # NaN
    <3>1. AsNumber(y(i)) = num[i] /\ num[i] \in Int
      BY <1>1, <1>4, <2>3
    <3>2. Plus(S(num, i - 1), y(i), 1) = S(num, i - 1) + num[i]
      BY <1>7, <1>10, <2>3, <3>1
    <3> QED
      BY <1>5, <2>3, <3>2
  <2> QED
    BY <2>1, <2>2, <2>3
<1>13. e2 = S(den, i - 1) + den[i] /\ e2 \in Int
  <2>1. den[i] \in Int /\ series[i][3][k + 1] = den[i]
    BY <1>1, <1>4
  <2>2. Plus(S(den, i - 1), den[i], 1) = S(den, i - 1) + den[i] /\ S(den, i - 1) + den[i] \in Int
    BY <1>8, <1>9, <1>10, <2>1
  <2> QED
    BY <2>1, <2>2
<1> HIDE DEF e1, e2
<1>14. CASE i > n
  <2>0. PICK p \in 1..N : p = i - n
    BY <1>1, <1>14
  <2>1. num[p] \in Int /\ den[p] \in Int /\ series[p][3][k + 1] = den[p]
        /\ (y(p) # NaN => AsNumber(y(p)) = num[p]) /\ num[i] \in Int
    BY <1>1, <1>4
  <2>2. Plus(e1, y(i - n), -1) = Num(i)
    <3>1. CASE seen(i)
      BY <1>11, <1>12, <3>1
    <3>2. CASE ~seen(i)
      <4>1. y(p) # NaN /\ e1 = S(num, i - 1) + num[i] /\ e1 \in Int
        BY <1>6, <1>7, <1>12, <1>14, <2>0, <2>1, <3>2
      <4>2. Plus(e1, y(p), -1) = e1 - num[p]
        BY <1>10a, <2>1, <4>1
      <4> QED
        BY <1>7, <1>14, <2>0, <3>2, <4>1, <4>2
    <3> QED
      BY <3>1, <3>2
  <2>3. Plus(e2, series[i - n][3][k + 1], -1) = Den(i)
    <3>1. den[p] # NaN /\ AsNumber(den[p]) = den[p]
      BY <1>9, <2>1
    <3>2. Plus(e2, den[p], -1) = e2 - den[p]
      BY <1>10a, <1>13, <2>1, <3>1
    <3> QED
      BY <1>8, <1>13, <1>14, <2>0, <2>1, <3>2
  <2> DEFINE acc == SumsAt(series, n, k, num, den, i - 1)
             entered == PlusBoth(acc, series[i], k, 1)
  <2>4. acc = <<Num(i - 1), Den(i - 1)>>
    BY DEF SumsAt, S, seen
  <2>5. entered = <<e1, e2>>
    <3> HIDE DEF acc, Num, Den
    <3> QED
      BY <2>4 DEF PlusBoth, e1, e2, y
  <2> HIDE DEF entered
  <2>6. PlusBoth(entered, series[i - n], k, -1) = <<Num(i), Den(i)>>
    <3> HIDE DEF Num, Den
    <3> QED
      BY <2>2, <2>3, <2>5 DEF PlusBoth, y
  <2>7. SumsAt(series, n, k, num, den, i) = <<Num(i), Den(i)>>
    BY DEF SumsAt, S, seen
  <2> HIDE DEF Num, Den
  <2> QED
    BY <1>14, <2>6, <2>7 DEF entered
<1>15. CASE ~(i > n)
  <2>1. e1 = Num(i) /\ e2 = Den(i)
    BY <1>7, <1>8, <1>12, <1>13, <1>15
  <2> DEFINE acc == SumsAt(series, n, k, num, den, i - 1)
             entered == PlusBoth(acc, series[i], k, 1)
  <2>2. acc = <<Num(i - 1), Den(i - 1)>>
    BY DEF SumsAt, S, seen
  <2>3. entered = <<e1, e2>>
    <3> HIDE DEF acc, Num, Den
    <3> QED
      BY <2>2 DEF PlusBoth, e1, e2, y
  <2> HIDE DEF entered
  <2>4. SumsAt(series, n, k, num, den, i) = <<Num(i), Den(i)>>
    BY DEF SumsAt, S, seen
  <2> HIDE DEF Num, Den
  <2> QED
    BY <1>15, <2>1, <2>3, <2>4 DEF entered
<1> QED
  BY <1>14, <1>15

\* So the code's sums are these.
LEMMA FractionSumsAre ==
  ASSUME NEW series, Len(series) \in Nat, NEW n \in Nat, n >= 1, NEW k,
         NEW num, NEW den, FractionsOf(series, k, num, den), NEW i \in 0..Len(series)
  PROVE  (CHOOSE sums : FractionSums(series, n, k, sums))[i] = SumsAt(series, n, k, num, den, i)
<1> DEFINE N == Len(series)
           At(j) == SumsAt(series, n, k, num, den, j)
           Step(acc, j) == LET entered == PlusBoth(acc, series[j], k, 1)
                           IN  IF j > n THEN PlusBoth(entered, series[j - n], k, -1) ELSE entered
<1>1. At(0) = <<0, 0>>
  <2>1. ~NaNSeen(series, k, 0)
    BY DEF NaNSeen
  <2> QED
    BY <2>1, WindowStarts DEF SumsAt
<1>2. ASSUME NEW j \in 1..N PROVE At(j) = Step(At(j - 1), j)
  BY SumsStep
<1> HIDE DEF At, Step
<1> DEFINE c == [j \in 0..N |-> At(j)]
           Is(sums) == sums = [j \in 0..N |-> IF j = 0 THEN <<0, 0>> ELSE Step(sums[j - 1], j)]
<1>3. \A sums : FractionSums(series, n, k, sums) <=> Is(sums)
  BY DEF FractionSums, Step
<1>4. Is(c)
  <2>1. ASSUME NEW j \in 0..N PROVE At(j) = IF j = 0 THEN <<0, 0>> ELSE Step(c[j - 1], j)
    <3>1. CASE j = 0
      BY <1>1, <3>1
    <3>2. CASE j # 0
      <4>1. j \in 1..N /\ j - 1 \in 0..N
        BY <3>2
      <4>2. c[j - 1] = At(j - 1)
        BY <4>1
      <4> HIDE DEF c
      <4> QED
        BY <1>2, <3>2, <4>1, <4>2
    <3> QED
      BY <3>1, <3>2
  <2> QED
    BY <2>1
<1> HIDE DEF c, Is
<1> DEFINE sums == CHOOSE x : FractionSums(series, n, k, x)
<1>5. Is(sums)
  BY <1>3, <1>4
<1> HIDE DEF sums
<1> DEFINE G == {j \in Nat : j <= N => sums[j] = At(j)}
<1>6. 0 \in G
  BY <1>1, <1>5 DEF Is
<1>7. ASSUME NEW j \in Nat, j \in G PROVE j + 1 \in G
  <2> SUFFICES ASSUME j + 1 <= N PROVE sums[j + 1] = At(j + 1)
    OBVIOUS
  <2>1. j + 1 \in 1..N /\ j + 1 \in 0..N /\ j + 1 # 0 /\ (j + 1) - 1 = j /\ sums[j] = At(j)
    BY <1>7
  <2>2. sums[j + 1] = Step(sums[(j + 1) - 1], j + 1)
    BY <1>5, <2>1 DEF Is
  <2>3. At(j + 1) = Step(At((j + 1) - 1), j + 1)
    BY <1>2, <2>1
  <2> HIDE DEF G
  <2> QED
    BY <2>1, <2>2, <2>3
<1>8. i \in G
  <2> HIDE DEF G
  <2> QED
    BY <1>6, <1>7, SetInduction
<1> QED
  BY <1>8 DEF sums, At

-----------------------------------------------------------------------------
(* What the rolling averages of bars and of fractions return *)

\* The averages of bars are those of the samples of the window.
LEMMA RollCustomAt ==
  ASSUME NEW series, NEW N \in Nat, Len(series) = N, DOMAIN series = 1..N,
         NEW period \in Nat, period >= 1,
         NEW low, NEW mid, NEW high, NEW one, BarsOf(series, low, mid, high, one),
         NEW i \in 1..N, NEW W, W = RollWindow(Min2(period, N), i)
  PROVE  LET count == SumFunctionOnSet(one, W)
         IN  RollCustom(series, period)[i] =
               IF count = 0 THEN <<series[i][1], Null, <<Null, Null>>>>
               ELSE <<series[i][1], SumFunctionOnSet(mid, W) \div count,
                      <<SumFunctionOnSet(low, W) \div count, SumFunctionOnSet(high, W) \div count>>>>
<1> DEFINE n == Min2(period, Len(series))
           sums == CHOOSE sums : BarSums(series, n, sums)
           a == Acc(SumFunctionOnSet(low, W), SumFunctionOnSet(mid, W),
                    SumFunctionOnSet(high, W), SumFunctionOnSet(one, W))
           at(x, r) == IF r.count = 0 THEN <<x, Null, <<Null, Null>>>>
                       ELSE <<x, r.mid \div r.count, <<r.low \div r.count, r.high \div r.count>>>>
<1>1. n \in Nat /\ n >= 1 /\ i \in 0..Len(series)
  BY DEF Min2
<1>2. RollCustom(series, period) = [j \in DOMAIN series |-> at(series[j][1], sums[j])]
  BY RollCustomIs
<1>3. W = RollWindow(n, i)
  OBVIOUS
<1> HIDE DEF n
<1>4. sums[i] = a
  BY <1>1, <1>3, BarSumsAre
<1> HIDE DEF sums, a, at
<1>5. RollCustom(series, period)[i] = at(series[i][1], a)
  BY <1>2, <1>4
<1> QED
  BY <1>5 DEF at, a, Acc

\* The fractions are those of the sums over the window, or come to nothing
\* behind a NaN.
LEMMA RunningFractionAt ==
  ASSUME NEW series, NEW N \in Nat, Len(series) = N, DOMAIN series = 1..N,
         NEW period \in Nat, period >= 1, NEW k,
         NEW num, NEW den, FractionsOf(series, k, num, den),
         NEW i \in 1..N, NEW W, W = RollWindow(Min2(period, N), i)
  PROVE  RunningFraction(series, period, k)[i] =
           <<series[i][1],
             Ratio(IF NaNSeen(series, k, i) THEN NaN ELSE SumFunctionOnSet(num, W),
                   SumFunctionOnSet(den, W))>>
<1> DEFINE n == Min2(period, Len(series))
           sums == CHOOSE sums : FractionSums(series, n, k, sums)
           a == SumsAt(series, n, k, num, den, i)
<1>1. n \in Nat /\ n >= 1 /\ i \in 0..Len(series)
  BY DEF Min2
<1>2. RunningFraction(series, period, k) =
        [j \in DOMAIN series |-> <<series[j][1], Ratio(sums[j][1], sums[j][2])>>]
  BY RunningFractionIs
<1>3. W = RollWindow(n, i)
  OBVIOUS
<1> HIDE DEF n
<1>4. sums[i] = a
  BY <1>1, FractionSumsAre
<1> HIDE DEF sums, a
<1>5. RunningFraction(series, period, k)[i] = <<series[i][1], Ratio(a[1], a[2])>>
  BY <1>2, <1>4
<1> QED
  BY <1>3, <1>5 DEF SumsAt, a

\* One element in front of two.
LEMMA Triple ==
  ASSUME NEW x, NEW y, NEW z
  PROVE  <<x>> \o <<y, z>> = <<x, y, z>>
<1> DEFINE X == {x, y, z}
<1>1. <<x>> \in Seq(X) /\ <<y, z>> \in Seq(X) /\ <<x, y, z>> \in Seq(X)
  OBVIOUS
<1>2. Len(<<x>>) = 1 /\ Len(<<y, z>>) = 2 /\ Len(<<x, y, z>>) = 3
  OBVIOUS
<1> HIDE DEF X
<1>3. /\ <<x>> \o <<y, z>> \in Seq(X) /\ Len(<<x>> \o <<y, z>>) = 3
      /\ \A i \in 1..3 : (<<x>> \o <<y, z>>)[i] = IF i <= 1 THEN <<x>>[i] ELSE <<y, z>>[i - 1]
  BY <1>1, <1>2, ConcatProperties
<1>4. \A i \in 1..3 : (<<x>> \o <<y, z>>)[i] = <<x, y, z>>[i]
  BY <1>3
<1> QED
  BY <1>1, <1>2, <1>3, <1>4, SeqEqual

\* What is summed over the window where there is a value is the total of the values.
LEMMA ValuedTotal ==
  ASSUME NEW f, NEW W, IsFiniteSet(W), \A j \in W : f[j] \in Int,
         NEW ok \in SUBSET W, \A j \in W \ ok : f[j] = 0,
         NEW g, DOMAIN g = ok, \A j \in ok : g[j] = f[j]
  PROVE  SumFunctionOnSet(f, W) = Total(g)
<1>1. IsFiniteSet(ok)
  BY FS_Subset
<1>2. SumFunctionOnSet(f, W) = SumFunctionOnSet(f, ok)
  BY SumPart
<1>3. \A j \in ok : f[j] \in Int /\ g[j] = f[j]
  OBVIOUS
<1>4. SumFunctionOnSet(g, ok) = SumFunctionOnSet(f, ok)
  BY <1>1, <1>3, SumSame
<1> QED
  BY <1>2, <1>4 DEF Total

\* Where one is counted, their sum is their number.
LEMMA ValuedCount ==
  ASSUME NEW f, NEW W, IsFiniteSet(W), NEW ok \in SUBSET W,
         \A j \in ok : f[j] = 1, \A j \in W \ ok : f[j] = 0
  PROVE  SumFunctionOnSet(f, W) = Cardinality(ok) /\ Cardinality(ok) \in Nat
<1>1. IsFiniteSet(ok) /\ \A j \in W : f[j] \in Int
  BY FS_Subset
<1>2. SumFunctionOnSet(f, W) = SumFunctionOnSet(f, ok)
  BY <1>1, SumPart
<1>3. SumFunctionOnSet(f, ok) = 1 * Cardinality(ok)
  <2>1. 1 \in Int
    OBVIOUS
  <2> QED
    BY <1>1, <2>1, SumConstant
<1>4. Cardinality(ok) \in Nat
  BY <1>1, FS_CardinalityType
<1> QED
  BY <1>2, <1>3, <1>4

=============================================================================
