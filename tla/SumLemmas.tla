------------------------------ MODULE SumLemmas ------------------------------
(***************************************************************************)
(* Sums of integers over finite sets: what the community modules' recursive  *)
(* SumFunctionOnSet gives when an element is added, removed or changed.  The *)
(* induction is by a least counterexample, a set of naturals, for the        *)
(* provers cannot instantiate the library's induction over a predicate.      *)
(***************************************************************************)
EXTENDS Functions, FiniteSetTheorems, TLAPS

\* The library's order on the naturals, as a set of pairs.
LEMMA LessThan == OpToRel(<, Nat) = {ss \in Nat \X Nat : ss[1] < ss[2]}
BY Zenon DEF OpToRel

\* A non-empty set of naturals has a least element.
LEMMA LeastNatural ==
  ASSUME NEW T \in SUBSET Nat, T # {}
  PROVE  \E x \in T : \A y \in T : x <= y
<1> DEFINE R == {ss \in Nat \X Nat : ss[1] < ss[2]}
<1>1. IsWellFoundedOn(R, Nat)
  BY NatLessThanWellFounded, LessThan, Zenon
<1>2. \A x, y \in Nat : y < x => <<y, x>> \in R
  OBVIOUS
<1> HIDE DEF R
<1>3. PICK x \in T : \A y \in T : ~(<<y, x>> \in R)
  BY <1>1, WFMin
<1>4. \A y \in T : x <= y
  <2> TAKE y \in T
  <2>1. x \in Nat /\ y \in Nat
    OBVIOUS
  <2>2. ~(y < x)
    BY <1>2, <1>3, <2>1
  <2> QED
    BY <2>1, <2>2
<1> QED
  BY <1>4

\* Induction over a set, not over a predicate.
LEMMA SetInduction ==
  ASSUME NEW S, 0 \in S, \A n \in Nat : n \in S => n + 1 \in S
  PROVE  Nat \subseteq S
<1> DEFINE T == Nat \ S
<1> SUFFICES ASSUME T # {} PROVE FALSE
  OBVIOUS
<1>1. PICK x \in T : \A y \in T : x <= y
  BY LeastNatural
<1>2. x # 0 /\ x - 1 \in Nat
  OBVIOUS
<1>3. x - 1 \in S
  BY <1>1, <1>2
<1> QED
  BY <1>2, <1>3

-----------------------------------------------------------------------------
(* The recursion behind SumFunctionOnSet *)

PickOf(s) == CHOOSE x \in s : TRUE

\* g is the function that the fold of f over S defines.
IsIter(g, f, S) ==
  g = [s \in SUBSET S |-> IF s = {} THEN 0 ELSE f[PickOf(s)] + g[s \ {PickOf(s)}]]

\* SumFunctionOnSet is the recursion of IsIter.
LEMMA SumIsIter ==
  ASSUME NEW f, NEW S
  PROVE  SumFunctionOnSet(f, S) = (CHOOSE g : IsIter(g, f, S))[S]
BY DEF SumFunctionOnSet, FoldFunctionOnSet, MapThenFoldSet, IsIter, PickOf

\* The chosen element is one of the set.
LEMMA PickIn == ASSUME NEW s, s # {} PROVE PickOf(s) \in s
BY DEF PickOf

\* Without its picked element a finite set is smaller.
LEMMA Smaller ==
  ASSUME NEW S, IsFiniteSet(S), NEW s \in SUBSET S
  PROVE  /\ IsFiniteSet(s) /\ Cardinality(s) \in Nat
         /\ \A x \in s : /\ s \ {x} \in SUBSET S
                         /\ Cardinality(s \ {x}) = Cardinality(s) - 1
         /\ s # {} => Cardinality(s) > 0
<1>1. IsFiniteSet(s) /\ Cardinality(s) \in Nat
  BY FS_Subset, FS_CardinalityType
<1> QED
  BY <1>1, FS_RemoveElement, FS_EmptySet

\* The recursion ends, so there is such a function.
LEMMA IterExists ==
  ASSUME NEW f, NEW S, IsFiniteSet(S)
  PROVE  \E g : IsIter(g, f, S)
<1> DEFINE Small(n) == {s \in SUBSET S : Cardinality(s) <= n}
           Def(g, s) == IF s = {} THEN 0 ELSE f[PickOf(s)] + g[s \ {PickOf(s)}]
           Good == {n \in Nat : \E g : g = [s \in Small(n) |-> Def(g, s)]}
<1>1. 0 \in Good
  <2> DEFINE h == [s \in Small(0) |-> 0]
  <2>1. \A s \in Small(0) : s = {}
    BY Smaller
  <2>2. h = [s \in Small(0) |-> Def(h, s)]
    BY <2>1
  <2> QED
    BY <2>2
<1>2. ASSUME NEW n \in Nat, n \in Good PROVE n + 1 \in Good
  <2>1. PICK g : g = [s \in Small(n) |-> Def(g, s)]
    BY <1>2
  <2> DEFINE h == [s \in Small(n + 1) |-> Def(g, s)]
  <2>2. ASSUME NEW s \in Small(n) PROVE s \in Small(n + 1) /\ h[s] = g[s]
    <3>1. s \in Small(n + 1)
      BY Smaller
    <3> QED
      BY <2>1, <3>1
  <2>3. ASSUME NEW s \in Small(n + 1) PROVE Def(g, s) = Def(h, s)
    <3>1. CASE s = {}
      BY <3>1
    <3>2. CASE s # {}
      <4>1. s \ {PickOf(s)} \in Small(n)
        BY <3>2, PickIn, Smaller
      <4>2. h[s \ {PickOf(s)}] = g[s \ {PickOf(s)}]
        BY <4>1, <2>2
      <4> HIDE DEF h
      <4> QED
        BY <4>2
    <3> QED
      BY <3>1, <3>2
  <2>4. h = [s \in Small(n + 1) |-> Def(h, s)]
    <3> DEFINE d(s) == Def(h, s)
    <3>1. \A s \in Small(n + 1) : Def(g, s) = d(s)
      BY <2>3
    <3> HIDE DEF d
    <3>2. h = [s \in Small(n + 1) |-> d(s)]
      BY <3>1
    <3> QED
      BY <3>2 DEF d
  <2>5. \E x : x = [s \in Small(n + 1) |-> Def(x, s)]
    <3> WITNESS h
    <3> QED
      BY <2>4, Zenon
  <2>6. n + 1 \in Nat
    OBVIOUS
  <2> HIDE DEF Small, Def
  <2> QED
    BY <2>5, <2>6, Zenon
<1>3. Cardinality(S) \in Nat
  BY FS_CardinalityType
<1>4. Cardinality(S) \in Good
  <2> HIDE DEF Good
  <2> QED
    BY <1>1, <1>2, <1>3, SetInduction
<1>5. Small(Cardinality(S)) = SUBSET S
  BY FS_Subset
<1> QED
  BY <1>4, <1>5 DEF IsIter

\* The sum of a finite part of a set does not depend on which set it is part of.
LEMMA IterUnique ==
  ASSUME NEW f, NEW S, IsFiniteSet(S), NEW T \in SUBSET S, NEW g, NEW h,
         IsIter(g, f, S), IsIter(h, f, T)
  PROVE  \A s \in SUBSET T : g[s] = h[s]
<1> DEFINE Good == {n \in Nat : \A s \in SUBSET T : Cardinality(s) <= n => g[s] = h[s]}
<1>1. \A s \in SUBSET T : s \in SUBSET S
  OBVIOUS
<1>2. ASSUME NEW s \in SUBSET T, s # {}
      PROVE  /\ g[s] = f[PickOf(s)] + g[s \ {PickOf(s)}]
             /\ h[s] = f[PickOf(s)] + h[s \ {PickOf(s)}]
  BY <1>1, <1>2, PickIn DEF IsIter
<1>3. 0 \in Good
  <2>1. \A s \in SUBSET T : Cardinality(s) <= 0 => s = {}
    BY <1>1, Smaller
  <2>2. g[{}] = 0 /\ h[{}] = 0
    BY DEF IsIter
  <2> QED
    BY <2>1, <2>2
<1>4. ASSUME NEW n \in Nat, n \in Good PROVE n + 1 \in Good
  <2> SUFFICES ASSUME NEW s \in SUBSET T, Cardinality(s) <= n + 1, s # {} PROVE g[s] = h[s]
    <3>1. g[{}] = 0 /\ h[{}] = 0
      BY DEF IsIter
    <3> QED
      BY <3>1
  <2>1. s \ {PickOf(s)} \in SUBSET T /\ Cardinality(s \ {PickOf(s)}) <= n
    BY <1>1, PickIn, Smaller
  <2>2. g[s \ {PickOf(s)}] = h[s \ {PickOf(s)}]
    BY <1>4, <2>1
  <2> QED
    BY <1>2, <2>2
<1>5. Nat \subseteq Good
  <2> HIDE DEF Good
  <2> QED
    BY <1>3, <1>4, SetInduction
<1> QED
  BY <1>1, <1>5, Smaller

-----------------------------------------------------------------------------
(* Sums of integers *)

\* Sums can be taken apart at the picked element.
LEMMA SumPick ==
  ASSUME NEW f, NEW S, IsFiniteSet(S)
  PROVE  SumFunctionOnSet(f, S) =
           IF S = {} THEN 0 ELSE f[PickOf(S)] + SumFunctionOnSet(f, S \ {PickOf(S)})
<1> DEFINE g == CHOOSE x : IsIter(x, f, S)
           T == S \ {PickOf(S)}
           h == CHOOSE x : IsIter(x, f, T)
<1>1. IsIter(g, f, S) /\ SumFunctionOnSet(f, S) = g[S]
  BY IterExists, SumIsIter
<1>2. IsFiniteSet(T) /\ T \in SUBSET S
  BY FS_Subset
<1>3. IsIter(h, f, T) /\ SumFunctionOnSet(f, T) = h[T]
  BY <1>2, IterExists, SumIsIter
<1>4. g[T] = h[T]
  <2> HIDE DEF g, h
  <2> QED
    BY <1>1, <1>2, <1>3, IterUnique
<1>5. g[S] = IF S = {} THEN 0 ELSE f[PickOf(S)] + g[T]
  <2> HIDE DEF g
  <2> QED
    BY <1>1 DEF IsIter
<1> HIDE DEF g, h
<1> QED
  BY <1>1, <1>3, <1>4, <1>5

\* The empty sum is 0.
LEMMA SumEmpty == \A f : SumFunctionOnSet(f, {}) = 0
<1> TAKE f
<1>1. IsFiniteSet({})
  BY FS_EmptySet
<1> QED
  BY <1>1, SumPick

\* Induction over the finite parts of S by their size.
LEMMA SizeInduction ==
  ASSUME NEW S, IsFiniteSet(S), NEW G,
         {} \in G,
         \A s \in SUBSET S :
           s # {} /\ (\A u \in SUBSET S : Cardinality(u) < Cardinality(s) => u \in G) => s \in G
  PROVE  S \in G
<1> DEFINE Good == {n \in Nat : \A s \in SUBSET S : Cardinality(s) <= n => s \in G}
<1>1. 0 \in Good
  <2>1. \A s \in SUBSET S : Cardinality(s) <= 0 => s = {}
    BY Smaller
  <2> QED
    BY <2>1
<1>2. ASSUME NEW n \in Nat, n \in Good PROVE n + 1 \in Good
  <2> SUFFICES ASSUME NEW s \in SUBSET S, Cardinality(s) <= n + 1, s # {} PROVE s \in G
    OBVIOUS
  <2>1. ASSUME NEW u \in SUBSET S, Cardinality(u) < Cardinality(s) PROVE u \in G
    <3>1. Cardinality(u) <= n
      BY <2>1, Smaller
    <3> QED
      BY <1>2, <3>1
  <2> QED
    BY <2>1
<1>3. Nat \subseteq Good
  <2> HIDE DEF Good
  <2> QED
    BY <1>1, <1>2, SetInduction
<1>4. Cardinality(S) \in Nat
  BY FS_CardinalityType
<1> QED
  BY <1>3, <1>4

\* A sum of integers is an integer.
LEMMA SumType ==
  ASSUME NEW f, NEW S, IsFiniteSet(S), \A x \in S : f[x] \in Int
  PROVE  SumFunctionOnSet(f, S) \in Int
<1> DEFINE G == {s \in SUBSET S : SumFunctionOnSet(f, s) \in Int}
<1>1. {} \in G
  BY SumEmpty
<1>2. ASSUME NEW s \in SUBSET S, s # {},
             \A u \in SUBSET S : Cardinality(u) < Cardinality(s) => u \in G
      PROVE  s \in G
  <2>1. PickOf(s) \in s /\ s \ {PickOf(s)} \in SUBSET S
    BY <1>2, PickIn
  <2>2. s \ {PickOf(s)} \in G
    BY <1>2, <2>1, Smaller
  <2>3. SumFunctionOnSet(f, s) = f[PickOf(s)] + SumFunctionOnSet(f, s \ {PickOf(s)})
    BY <1>2, SumPick, Smaller
  <2> QED
    BY <2>1, <2>2, <2>3
<1> QED
  <2> HIDE DEF G
  <2>1. S \in G
    BY <1>1, <1>2, SizeInduction
  <2> QED
    BY <2>1 DEF G

\* Sums can be taken apart at any element.
LEMMA SumRemove ==
  ASSUME NEW f, NEW S, IsFiniteSet(S), \A x \in S : f[x] \in Int
  PROVE  \A x \in S : SumFunctionOnSet(f, S) = f[x] + SumFunctionOnSet(f, S \ {x})
<1> DEFINE Sum(s) == SumFunctionOnSet(f, s)
           G == {s \in SUBSET S : \A x \in s : Sum(s) = f[x] + Sum(s \ {x})}
<1>1. {} \in G
  OBVIOUS
<1>2. ASSUME NEW s \in SUBSET S, s # {},
             \A u \in SUBSET S : Cardinality(u) < Cardinality(s) => u \in G
      PROVE  s \in G
  <2> SUFFICES ASSUME NEW x \in s PROVE Sum(s) = f[x] + Sum(s \ {x})
    OBVIOUS
  <2> DEFINE c == PickOf(s)
             u == s \ {c}
             v == s \ {x}
  <2>1. c \in s /\ Sum(s) = f[c] + Sum(u)
    BY <1>2, PickIn, SumPick, Smaller
  <2>2. CASE x = c
    BY <2>1, <2>2
  <2>3. CASE x # c
    <3>1. u \in SUBSET S /\ v \in SUBSET S /\ x \in u /\ c \in v
      BY <2>1, <2>3
    <3>2. u \in G /\ v \in G
      <4>1. Cardinality(u) < Cardinality(s) /\ Cardinality(v) < Cardinality(s)
        BY <2>1, Smaller
      <4> QED
        BY <1>2, <3>1, <4>1
    <3>3. Sum(u) = f[x] + Sum(u \ {x}) /\ Sum(v) = f[c] + Sum(v \ {c})
      BY <3>1, <3>2
    <3>4. u \ {x} = v \ {c} /\ u \ {x} \in SUBSET S
      OBVIOUS
    <3>5. Sum(u \ {x}) \in Int
      BY <3>4, SumType, Smaller
    <3>6. f[x] \in Int /\ f[c] \in Int
      BY <2>1
    <3>7. /\ Sum(s) = f[c] + Sum(u)
          /\ Sum(u) = f[x] + Sum(u \ {x})
          /\ Sum(v) = f[c] + Sum(u \ {x})
      BY <2>1, <3>3, <3>4
    <3>8. Sum(s) = f[x] + Sum(v)
      <4> HIDE DEF Sum, u, v, c
      <4> QED
        BY <3>5, <3>6, <3>7
    <3> QED
      BY <3>8
  <2> QED
    BY <2>2, <2>3
<1> QED
  <2> HIDE DEF G
  <2>1. S \in G
    BY <1>1, <1>2, SizeInduction
  <2> QED
    BY <2>1 DEF G

\* Larger amounts have a larger sum; the same amounts the same.
LEMMA SumMonotone ==
  ASSUME NEW f, NEW g, NEW S, IsFiniteSet(S),
         \A x \in S : f[x] \in Int /\ g[x] \in Int /\ f[x] <= g[x]
  PROVE  SumFunctionOnSet(f, S) <= SumFunctionOnSet(g, S)
<1> DEFINE G == {s \in SUBSET S : SumFunctionOnSet(f, s) <= SumFunctionOnSet(g, s)}
<1>1. {} \in G
  BY SumEmpty
<1>2. ASSUME NEW s \in SUBSET S, s # {},
             \A u \in SUBSET S : Cardinality(u) < Cardinality(s) => u \in G
      PROVE  s \in G
  <2> DEFINE c == PickOf(s)
             u == s \ {c}
  <2>1. c \in s /\ u \in SUBSET S
    BY <1>2, PickIn
  <2>2. u \in G
    BY <1>2, <2>1, Smaller
  <2>3. /\ SumFunctionOnSet(f, s) = f[c] + SumFunctionOnSet(f, u)
        /\ SumFunctionOnSet(g, s) = g[c] + SumFunctionOnSet(g, u)
    BY <1>2, SumPick, Smaller
  <2>4. SumFunctionOnSet(f, u) \in Int /\ SumFunctionOnSet(g, u) \in Int
    BY <2>1, SumType, Smaller
  <2>5. SumFunctionOnSet(f, u) <= SumFunctionOnSet(g, u)
    BY <2>2
  <2> HIDE DEF u, c
  <2>6. f[c] \in Int /\ g[c] \in Int /\ f[c] <= g[c]
    BY <2>1
  <2> QED
    BY <2>3, <2>4, <2>5, <2>6
<1> QED
  <2> HIDE DEF G
  <2>1. S \in G
    BY <1>1, <1>2, SizeInduction
  <2> QED
    BY <2>1 DEF G

\* The same amounts have the same sum.
LEMMA SumSame ==
  ASSUME NEW f, NEW g, NEW S, IsFiniteSet(S),
         \A x \in S : f[x] \in Int /\ g[x] = f[x]
  PROVE  SumFunctionOnSet(g, S) = SumFunctionOnSet(f, S)
<1>1. /\ SumFunctionOnSet(f, S) <= SumFunctionOnSet(g, S)
      /\ SumFunctionOnSet(g, S) <= SumFunctionOnSet(f, S)
  BY SumMonotone
<1>2. SumFunctionOnSet(f, S) \in Int /\ SumFunctionOnSet(g, S) \in Int
  BY SumType
<1> QED
  BY <1>1, <1>2

\* A sum of zeros is zero.
LEMMA SumZero ==
  ASSUME NEW f, NEW S, IsFiniteSet(S), \A x \in S : f[x] = 0
  PROVE  SumFunctionOnSet(f, S) = 0
<1> DEFINE G == {s \in SUBSET S : SumFunctionOnSet(f, s) = 0}
<1>1. {} \in G
  BY SumEmpty
<1>2. ASSUME NEW s \in SUBSET S, s # {},
             \A u \in SUBSET S : Cardinality(u) < Cardinality(s) => u \in G
      PROVE  s \in G
  <2>1. PickOf(s) \in s /\ s \ {PickOf(s)} \in SUBSET S
    BY <1>2, PickIn
  <2>2. s \ {PickOf(s)} \in G
    BY <1>2, <2>1, Smaller
  <2>3. SumFunctionOnSet(f, s) = f[PickOf(s)] + SumFunctionOnSet(f, s \ {PickOf(s)})
    BY <1>2, SumPick, Smaller
  <2> QED
    BY <2>1, <2>2, <2>3
<1> QED
  <2> HIDE DEF G
  <2>1. S \in G
    BY <1>1, <1>2, SizeInduction
  <2> QED
    BY <2>1 DEF G

\* A change of one amount is the change of the sum.
LEMMA SumUpdate ==
  ASSUME NEW f, NEW g, NEW S, IsFiniteSet(S), NEW x \in S,
         \A y \in S : f[y] \in Int /\ g[y] \in Int /\ (y # x => g[y] = f[y])
  PROVE  SumFunctionOnSet(g, S) = SumFunctionOnSet(f, S) - f[x] + g[x]
<1> DEFINE T == S \ {x}
<1>1. IsFiniteSet(T)
  BY FS_RemoveElement
<1>2. /\ SumFunctionOnSet(f, S) = f[x] + SumFunctionOnSet(f, T)
      /\ SumFunctionOnSet(g, S) = g[x] + SumFunctionOnSet(g, T)
  BY SumRemove
<1>3. SumFunctionOnSet(g, T) = SumFunctionOnSet(f, T) /\ SumFunctionOnSet(f, T) \in Int
  BY <1>1, SumSame, SumType
<1> HIDE DEF T
<1>4. f[x] \in Int /\ g[x] \in Int
  OBVIOUS
<1> QED
  BY <1>2, <1>3, <1>4

\* A sum of naturals is a natural and none of them exceeds it.
LEMMA SumOfNaturals ==
  ASSUME NEW f, NEW S, IsFiniteSet(S), \A x \in S : f[x] \in Nat
  PROVE  /\ SumFunctionOnSet(f, S) \in Nat
         /\ \A x \in S : f[x] <= SumFunctionOnSet(f, S)
<1> DEFINE G == {s \in SUBSET S : SumFunctionOnSet(f, s) \in Nat}
<1>1. {} \in G
  BY SumEmpty
<1>2. ASSUME NEW s \in SUBSET S PROVE s \in G
  <2> SUFFICES SumFunctionOnSet(f, s) \in Nat
    OBVIOUS
  <2> DEFINE H == {u \in SUBSET s : SumFunctionOnSet(f, u) \in Nat}
  <2>1. IsFiniteSet(s) /\ {} \in H
    BY <1>1, Smaller
  <2>2. ASSUME NEW u \in SUBSET s, u # {},
               \A w \in SUBSET s : Cardinality(w) < Cardinality(u) => w \in H
        PROVE  u \in H
    <3>1. PickOf(u) \in u /\ u \ {PickOf(u)} \in H
      BY <2>1, <2>2, PickIn, Smaller
    <3>2. SumFunctionOnSet(f, u) = f[PickOf(u)] + SumFunctionOnSet(f, u \ {PickOf(u)})
      BY <2>1, <2>2, SumPick, Smaller
    <3> QED
      BY <3>1, <3>2
  <2> HIDE DEF H
  <2>3. s \in H
    BY <2>1, <2>2, SizeInduction
  <2> QED
    BY <2>3 DEF H
<1>3. ASSUME NEW x \in S PROVE f[x] <= SumFunctionOnSet(f, S)
  <2>1. S \ {x} \in G
    BY <1>2
  <2>2. SumFunctionOnSet(f, S) = f[x] + SumFunctionOnSet(f, S \ {x})
    BY SumRemove
  <2> QED
    BY <2>1, <2>2
<1> QED
  BY <1>2, <1>3

\* What is 0 need not be summed.
LEMMA SumPart ==
  ASSUME NEW f, NEW S, IsFiniteSet(S), \A x \in S : f[x] \in Int,
         NEW T \in SUBSET S, \A x \in S \ T : f[x] = 0
  PROVE  SumFunctionOnSet(f, S) = SumFunctionOnSet(f, T)
<1> DEFINE Sum(s) == SumFunctionOnSet(f, s)
           D == S \ T
           G == {s \in SUBSET D : Sum(T \cup s) = Sum(T)}
<1>1. {} \in G
  <2>1. T \cup {} = T
    OBVIOUS
  <2> HIDE DEF Sum, D
  <2> QED
    BY <2>1
<1>2. IsFiniteSet(D)
  BY FS_Subset
<1>3. ASSUME NEW s \in SUBSET D, s # {},
             \A u \in SUBSET D : Cardinality(u) < Cardinality(s) => u \in G
      PROVE  s \in G
  <2>1. PICK x \in s : TRUE
    BY <1>3
  <2> DEFINE u == s \ {x}
             E == T \cup s
  <2>2. u \in SUBSET D /\ Cardinality(u) < Cardinality(s)
    <3>1. Cardinality(s) \in Nat /\ \A y \in s : Cardinality(s \ {y}) = Cardinality(s) - 1
      BY <1>2, Smaller
    <3> QED
      BY <3>1
  <2>3. Sum(T \cup u) = Sum(T)
    <3> HIDE DEF u
    <3> QED
      BY <1>3, <2>2
  <2>4. IsFiniteSet(E) /\ (\A y \in E : f[y] \in Int) /\ x \in E /\ f[x] = 0
    <3>1. E \in SUBSET S
      OBVIOUS
    <3> QED
      BY <3>1, FS_Subset
  <2>5. E \ {x} = T \cup u
    OBVIOUS
  <2> HIDE DEF E, u
  <2>6. SumFunctionOnSet(f, E) = f[x] + SumFunctionOnSet(f, E \ {x})
    BY <2>4, SumRemove
  <2>7. SumFunctionOnSet(f, E) \in Int /\ SumFunctionOnSet(f, E \ {x}) \in Int
    <3>1. IsFiniteSet(E \ {x}) /\ \A y \in E \ {x} : f[y] \in Int
      BY <2>4, FS_RemoveElement
    <3> QED
      BY <2>4, <3>1, SumType
  <2>8. SumFunctionOnSet(f, E) = SumFunctionOnSet(f, E \ {x})
    BY <2>4, <2>6, <2>7
  <2> QED
    BY <2>3, <2>5, <2>8 DEF E
<1>4. D \in G
  <2> HIDE DEF G, D
  <2> QED
    BY <1>1, <1>2, <1>3, SizeInduction
<1>5. T \cup D = S
  OBVIOUS
<1> QED
  BY <1>4, <1>5

\* c, once for every element.
LEMMA SumConstant ==
  ASSUME NEW f, NEW S, IsFiniteSet(S), NEW c \in Int, \A x \in S : f[x] = c
  PROVE  SumFunctionOnSet(f, S) = c * Cardinality(S)
<1> DEFINE Sum(s) == SumFunctionOnSet(f, s)
           G == {s \in SUBSET S : Sum(s) = c * Cardinality(s)}
<1>1. {} \in G
  <2>1. Sum({}) = 0 /\ Cardinality({}) = 0
    BY SumEmpty, FS_EmptySet
  <2>2. c * 0 = 0
    OBVIOUS
  <2> HIDE DEF Sum
  <2> QED
    BY <2>1, <2>2
<1>2. ASSUME NEW s \in SUBSET S, s # {},
             \A u \in SUBSET S : Cardinality(u) < Cardinality(s) => u \in G
      PROVE  s \in G
  <2>1. PICK x \in s : TRUE
    BY <1>2
  <2> DEFINE u == s \ {x}
  <2>2. /\ IsFiniteSet(s) /\ Cardinality(s) \in Nat /\ Cardinality(u) = Cardinality(s) - 1
        /\ u \in SUBSET S
    BY Smaller
  <2>3. Sum(u) = c * Cardinality(u)
    <3>1. Cardinality(u) < Cardinality(s)
      BY <2>2
    <3> HIDE DEF u
    <3> QED
      BY <1>2, <2>2, <3>1
  <2>4. SumFunctionOnSet(f, s) = f[x] + SumFunctionOnSet(f, u)
    <3>1. IsFiniteSet(s) /\ (\A y \in s : f[y] \in Int) /\ x \in s
      BY <2>2
    <3> QED
      BY <3>1, SumRemove
  <2>5. f[x] = c
    OBVIOUS
  <2> DEFINE k == Cardinality(s)
  <2>6. k \in Nat /\ c + c * (k - 1) = c * k
    BY <2>2
  <2> HIDE DEF u, G
  <2>7. Sum(s) = c * k
    BY <2>2, <2>3, <2>4, <2>5, <2>6
  <2> QED
    BY <2>7 DEF G
<1>3. S \in G
  <2> HIDE DEF G
  <2> QED
    BY <1>1, <1>2, SizeInduction
<1> QED
  BY <1>3
=============================================================================
