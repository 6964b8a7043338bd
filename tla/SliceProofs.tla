---------------------------- MODULE SliceProofs ----------------------------
(***************************************************************************)
(* Facts about the operators on sequences, sets and sums that the models   *)
(* are built from: those of Slices, and those of the libraries that the    *)
(* models use.                                                             *)
(***************************************************************************)
EXTENDS Slices, SequencesExt, FiniteSetTheorems, FunctionTheorems, TLAPS

\* No element of a slice occurs twice.
NoRepeat(s) == \A i, j \in DOMAIN s : s[i] = s[j] => i = j

\* The position an index of I takes in KeepAt(s, I).
Rank(I, i) == Cardinality({j \in I : j <= i})

\* Ranks number the indices of a finite set of positions from 1 without a gap,
\* which is what makes KeepAt well defined (RemoveIndex and RemoveValue, that
\* is, the in-place filters of removeAvailableLocked and
\* removeQueuedRequestLocked).
LEMMA RankBijection ==
  ASSUME NEW n \in Nat, NEW I \in SUBSET (1..n)
  PROVE  /\ Cardinality(I) \in Nat
         /\ \A i \in I : Rank(I, i) \in 1..Cardinality(I)
         /\ \A i, j \in I : i < j => Rank(I, i) < Rank(I, j)
         /\ \A i, j \in I : Rank(I, i) = Rank(I, j) => i = j
         /\ \A m \in 1..Cardinality(I) : \E i \in I : Rank(I, i) = m
<1> DEFINE Below(i) == {j \in I : j <= i}
           rank == [i \in I |-> Rank(I, i)]
<1>1. IsFiniteSet(I) /\ Cardinality(I) \in Nat
  <2>1. IsFiniteSet(1..n)
    BY FS_Interval
  <2>2. IsFiniteSet(I)
    BY <2>1, FS_Subset
  <2> QED BY <2>2, FS_CardinalityType
<1>2. \A i \in I : IsFiniteSet(Below(i)) /\ Cardinality(Below(i)) \in Nat
                   /\ Cardinality(Below(i)) <= Cardinality(I)
  BY <1>1, FS_Subset, FS_CardinalityType
<1>3. \A i \in I : Cardinality(Below(i)) # 0
  BY <1>2, FS_EmptySet
<1>4. \A i \in I : Rank(I, i) \in 1..Cardinality(I)
  BY <1>1, <1>2, <1>3 DEF Rank
<1>5. ASSUME NEW i \in I, NEW j \in I, i < j PROVE Rank(I, i) < Rank(I, j)
  <2>1. Below(i) \subseteq Below(j) /\ j \in Below(j) /\ j \notin Below(i)
    <3>1. \A k \in I : k \in Int
      OBVIOUS
    <3>2. i \in Int /\ j \in Int /\ \A k \in Int : k <= i => k <= j
      BY <1>5, <3>1
    <3>3. Below(i) \subseteq Below(j)
      BY <3>1, <3>2
    <3>4. j <= j /\ ~(j <= i)
      BY <1>5, <3>2
    <3> QED BY <3>3, <3>4
  <2>2. Cardinality(Below(i)) <= Cardinality(Below(j))
        /\ (Cardinality(Below(j)) = Cardinality(Below(i)) => Below(j) = Below(i))
    BY <1>2, <2>1, FS_Subset
  <2> QED BY <1>2, <2>1, <2>2 DEF Rank
<1>6. \A i, j \in I : Rank(I, i) = Rank(I, j) => i = j
  BY <1>4, <1>5
<1>7. rank \in Injection(I, 1..Cardinality(I))
  BY <1>4, <1>6 DEF Injection, IsInjective
<1>8. IsFiniteSet(1..Cardinality(I))
      /\ Cardinality(1..Cardinality(I)) = Cardinality(I)
  BY <1>1, FS_Interval
<1>9. rank \in Surjection(I, 1..Cardinality(I))
  BY <1>7, <1>8, FS_Injection
<1>10. \A m \in 1..Cardinality(I) : \E i \in I : Rank(I, i) = m
  BY <1>9 DEF Surjection
<1> QED BY <1>1, <1>4, <1>5, <1>6, <1>10

\* KeepAt keeps exactly the elements at the given indices, and keeps a slice
\* without repetition free of repetition.
LEMMA KeepAtFacts ==
  ASSUME NEW S, NEW s \in Seq(S), NEW I \in SUBSET DOMAIN s
  PROVE  /\ KeepAt(s, I) \in Seq(S)
         /\ ToSet(KeepAt(s, I)) = {s[i] : i \in I}
         /\ NoRepeat(s) => NoRepeat(KeepAt(s, I))
<1> DEFINE At(m) == CHOOSE i \in I : Rank(I, i) = m
           N == Cardinality(I)
<1>1. /\ N \in Nat
      /\ \A i \in I : Rank(I, i) \in 1..N
      /\ \A i, j \in I : Rank(I, i) = Rank(I, j) => i = j
      /\ \A m \in 1..N : \E i \in I : Rank(I, i) = m
  <2>1. Len(s) \in Nat /\ I \in SUBSET (1..Len(s))
    OBVIOUS
  <2> QED BY <2>1, RankBijection
<1>2. \A m \in 1..N : At(m) \in I /\ Rank(I, At(m)) = m
  BY <1>1
<1>3. \A i \in I : At(Rank(I, i)) = i
  BY <1>1, <1>2
<1>4. KeepAt(s, I) = [m \in 1..N |-> s[At(m)]]
  BY DEF KeepAt, Rank
<1> HIDE DEF At, N
<1>5. KeepAt(s, I) \in Seq(S)
  BY <1>1, <1>2, <1>4
<1>6. DOMAIN KeepAt(s, I) = 1..N
  BY <1>4
<1>7. ToSet(KeepAt(s, I)) = {s[i] : i \in I}
  BY <1>1, <1>2, <1>3, <1>4, <1>6 DEF ToSet
<1>8. NoRepeat(s) => NoRepeat(KeepAt(s, I))
  BY <1>1, <1>2, <1>4, <1>6 DEF NoRepeat
<1> QED BY <1>5, <1>7, <1>8

\* Cutting the element at an index out of a slice without repetition.
LEMMA RemoveIndexFacts ==
  ASSUME NEW S, NEW s \in Seq(S), NEW k \in DOMAIN s, NoRepeat(s)
  PROVE  /\ RemoveIndex(s, k) \in Seq(S)
         /\ ToSet(RemoveIndex(s, k)) = ToSet(s) \ {s[k]}
         /\ NoRepeat(RemoveIndex(s, k))
<1>1. {s[i] : i \in DOMAIN s \ {k}} = ToSet(s) \ {s[k]}
  BY DEF ToSet, NoRepeat
<1> QED BY <1>1, KeepAtFacts DEF RemoveIndex

\* Filtering a value out of a slice.
LEMMA RemoveValueFacts ==
  ASSUME NEW S, NEW s \in Seq(S), NEW e
  PROVE  /\ RemoveValue(s, e) \in Seq(S)
         /\ ToSet(RemoveValue(s, e)) = ToSet(s) \ {e}
         /\ NoRepeat(s) => NoRepeat(RemoveValue(s, e))
<1> DEFINE I == {i \in DOMAIN s : s[i] # e}
<1>1. {s[i] : i \in I} = ToSet(s) \ {e}
  BY DEF ToSet
<1> QED BY <1>1, KeepAtFacts DEF RemoveValue

\* Appending to a slice.
LEMMA AppendFacts ==
  ASSUME NEW S, NEW s \in Seq(S), NEW e \in S
  PROVE  /\ Append(s, e) \in Seq(S)
         /\ ToSet(Append(s, e)) = ToSet(s) \cup {e}
         /\ NoRepeat(s) /\ e \notin ToSet(s) => NoRepeat(Append(s, e))
<1>1. /\ Append(s, e) \in Seq(S)
      /\ DOMAIN s = 1..Len(s) /\ Len(s) \in Nat
      /\ DOMAIN Append(s, e) = 1..Len(s) + 1
      /\ \A i \in 1..Len(s) : Append(s, e)[i] = s[i]
      /\ Append(s, e)[Len(s) + 1] = e
  OBVIOUS
<1>2. ToSet(Append(s, e)) = ToSet(s) \cup {e}
  <2>1. ToSet(Append(s, e)) \subseteq ToSet(s) \cup {e}
    BY <1>1 DEF ToSet
  <2>2. \A i \in DOMAIN s : s[i] \in ToSet(Append(s, e))
    BY <1>1 DEF ToSet
  <2>3. e \in ToSet(Append(s, e))
    BY <1>1 DEF ToSet
  <2> QED BY <2>1, <2>2, <2>3 DEF ToSet
<1>3. NoRepeat(s) /\ e \notin ToSet(s) => NoRepeat(Append(s, e))
  BY <1>1 DEF ToSet, NoRepeat
<1> QED BY <1>1, <1>2, <1>3

\* The first element of a list and the rest.
LEMMA HeadTailFacts ==
  ASSUME NEW S, NEW s \in Seq(S), s # <<>>
  PROVE  /\ Head(s) \in S /\ Tail(s) \in Seq(S)
         /\ ToSet(s) = {Head(s)} \cup ToSet(Tail(s))
<1>1. /\ Len(s) \in Nat \ {0} /\ DOMAIN s = 1..Len(s) /\ Head(s) = s[1]
      /\ Head(s) \in S /\ Tail(s) \in Seq(S)
      /\ Len(Tail(s)) = Len(s) - 1 /\ DOMAIN Tail(s) = 1..Len(s) - 1
      /\ \A i \in 1..Len(s) - 1 : Tail(s)[i] = s[i + 1]
  OBVIOUS
<1>2. \A i \in 2..Len(s) : i - 1 \in 1..Len(s) - 1 /\ s[i] = Tail(s)[i - 1]
  BY <1>1
<1>3. ToSet(s) \subseteq {Head(s)} \cup ToSet(Tail(s))
  <2>1. \A i \in 2..Len(s) : s[i] \in ToSet(Tail(s))
    BY <1>1, <1>2 DEF ToSet
  <2>2. \A i \in 1..Len(s) : s[i] \in {Head(s)} \cup ToSet(Tail(s))
    BY <1>1, <2>1
  <2> QED BY <1>1, <2>2 DEF ToSet
<1>4. Head(s) \in ToSet(s)
  BY <1>1 DEF ToSet
<1>5. ToSet(Tail(s)) \subseteq ToSet(s)
  BY <1>1 DEF ToSet
<1> QED BY <1>1, <1>3, <1>4, <1>5

\* Two lists, one after the other.
LEMMA ConcatFacts ==
  ASSUME NEW S, NEW s \in Seq(S), NEW t \in Seq(S)
  PROVE  /\ s \o t \in Seq(S)
         /\ ToSet(s \o t) = ToSet(s) \cup ToSet(t)
<1>1. /\ s \o t \in Seq(S) /\ Len(s) \in Nat /\ Len(t) \in Nat
      /\ DOMAIN s = 1..Len(s) /\ DOMAIN t = 1..Len(t)
      /\ DOMAIN (s \o t) = 1..Len(s) + Len(t)
      /\ \A i \in 1..Len(s) : (s \o t)[i] = s[i]
      /\ \A i \in Len(s) + 1..Len(s) + Len(t) : (s \o t)[i] = t[i - Len(s)]
  OBVIOUS
<1>2. \A i \in 1..Len(t) : /\ i + Len(s) \in Len(s) + 1..Len(s) + Len(t)
                           /\ (s \o t)[i + Len(s)] = t[i]
  BY <1>1
<1>3. ToSet(s \o t) \subseteq ToSet(s) \cup ToSet(t)
  BY <1>1 DEF ToSet
<1>4. ToSet(s) \subseteq ToSet(s \o t)
  BY <1>1 DEF ToSet
<1>5. ToSet(t) \subseteq ToSet(s \o t)
  <2>1. \A i \in 1..Len(t) : i + Len(s) \in 1..Len(s) + Len(t)
    BY <1>1
  <2>2. \A i \in DOMAIN t : t[i] \in ToSet(s \o t)
    BY <1>1, <1>2, <2>1 DEF ToSet
  <2> QED BY <2>2 DEF ToSet
<1> QED BY <1>1, <1>3, <1>4, <1>5

\* A list of a few elements.
LEMMA ShortFacts ==
  ASSUME NEW S
  PROVE  /\ <<>> \in Seq(S) /\ ToSet(<<>>) = {}
         /\ \A a \in S : <<a>> \in Seq(S) /\ ToSet(<<a>>) = {a}
         /\ \A a, b \in S : <<a, b>> \in Seq(S) /\ ToSet(<<a, b>>) = {a, b}
BY DEF ToSet

\* Three elements, split after the second or after the first.
LEMMA ThreeFacts ==
  ASSUME NEW S, NEW a \in S, NEW b \in S, NEW c \in S
  PROVE  <<a, b>> \o <<c>> = <<a, b, c>> /\ <<a>> \o <<b, c>> = <<a, b, c>>
<1>1. /\ <<a>> \in Seq(S) /\ <<c>> \in Seq(S) /\ <<a, b>> \in Seq(S)
      /\ <<b, c>> \in Seq(S) /\ <<a, b, c>> \in Seq(S)
  OBVIOUS
<1>2. /\ <<a, b>> \o <<c>> \in Seq(S) /\ <<a>> \o <<b, c>> \in Seq(S)
      /\ Len(<<a, b>> \o <<c>>) = 3 /\ Len(<<a>> \o <<b, c>>) = 3
  BY <1>1
<1>3. \A i \in 1..3 : /\ (<<a, b>> \o <<c>>)[i] = <<a, b, c>>[i]
                      /\ (<<a>> \o <<b, c>>)[i] = <<a, b, c>>[i]
  BY <1>1
<1>4. ASSUME NEW s \in Seq(S), NEW t \in Seq(S), Len(s) = 3, Len(t) = 3,
             \A i \in 1..3 : s[i] = t[i]
      PROVE  s = t
  BY <1>4
<1>5. Len(<<a, b, c>>) = 3
  OBVIOUS
<1>6. <<a, b>> \o <<c>> = <<a, b, c>>
  BY <1>1, <1>2, <1>3, <1>4, <1>5
<1>7. <<a>> \o <<b, c>> = <<a, b, c>>
  BY <1>1, <1>2, <1>3, <1>4, <1>5
<1> QED BY <1>6, <1>7

\* SetToSeq lists the elements of a finite set.
LEMMA SetToSeqFacts ==
  ASSUME NEW S, NEW T \in SUBSET S, IsFiniteSet(T)
  PROVE  SetToSeq(T) \in Seq(S) /\ ToSet(SetToSeq(T)) = T
<1> DEFINE n == Cardinality(T)
<1>1. n \in Nat /\ ExistsBijection(1..n, T)
  BY FS_CardinalityType, FS_NatBijection, FS_CountingElements
<1>2. PICK f : f \in Bijection(1..n, T)
  BY <1>1 DEF ExistsBijection
<1>3. f \in [1..n -> T] /\ IsInjective(f)
  BY <1>2 DEF Bijection, Injection
<1>4. SetToSeq(T) \in [1..n -> T] /\ IsInjective(SetToSeq(T))
  BY <1>3 DEF SetToSeq
<1>5. SetToSeq(T) \in Injection(1..n, T)
  BY <1>4 DEF Injection
<1>6. IsFiniteSet(1..n) /\ Cardinality(1..n) = n
  BY <1>1, FS_Interval
<1>7. SetToSeq(T) \in Surjection(1..n, T)
  BY <1>5, <1>6, FS_Injection
<1>8. ToSet(SetToSeq(T)) = T
  BY <1>7 DEF Surjection, ToSet
<1> QED BY <1>1, <1>4, <1>8

\* A set of indices that is not empty has a least one.
LEMMA MinFacts ==
  ASSUME NEW n \in Nat, NEW I \in SUBSET (1..n), I # {}
  PROVE  Min(I) \in I /\ \A i \in I : Min(I) <= i
<1>1. /\ Cardinality(I) \in Nat
      /\ \A i \in I : Rank(I, i) \in 1..Cardinality(I)
      /\ \A i, j \in I : i < j => Rank(I, i) < Rank(I, j)
      /\ \A m \in 1..Cardinality(I) : \E i \in I : Rank(I, i) = m
  BY RankBijection
<1>2. PICK i \in I : Rank(I, i) = 1
  <2>1. PICK i \in I : TRUE
    OBVIOUS
  <2>2. Rank(I, i) \in 1..Cardinality(I)
    BY <1>1, <2>1
  <2>3. 1 \in 1..Cardinality(I)
    BY <1>1, <2>2
  <2> QED BY <1>1, <2>3
<1>3. \A j \in I : ~(j < i)
  BY <1>1, <1>2
<1>4. \A j \in I : i <= j
  BY <1>3
<1> QED BY <1>4 DEF Min

-----------------------------------------------------------------------------
(* Sums over finite sets: what the folds of the libraries compute *)

\* Among the subsets of a finite set that have some property there is a smallest.
LEMMA SmallestSubset ==
  ASSUME NEW S, IsFiniteSet(S), NEW B \in SUBSET (SUBSET S), B # {}
  PROVE  \E T \in B : \A x \in T : T \ {x} \notin B
<1> DEFINE n == Cardinality(S)
           Sizes == {k \in 1..n + 1 : \E T \in B : Cardinality(T) + 1 = k}
<1>1. n \in Nat
  BY FS_CardinalityType
<1>2. \A T \in B : /\ IsFiniteSet(T) /\ Cardinality(T) \in Nat
                   /\ Cardinality(T) <= n
  BY FS_Subset, FS_CardinalityType
<1>3. \A T \in B : Cardinality(T) + 1 \in Sizes
  BY <1>1, <1>2
<1>4. PICK k \in Sizes : \A i \in Sizes : k <= i
  <2>1. n + 1 \in Nat /\ Sizes \in SUBSET (1..n + 1) /\ Sizes # {}
    BY <1>1, <1>3
  <2> HIDE DEF Sizes
  <2> QED BY <2>1, MinFacts
<1>5. PICK T \in B : Cardinality(T) + 1 = k
  BY <1>4
<1>6. ASSUME NEW x \in T, T \ {x} \in B PROVE FALSE
  <2>1. Cardinality(T \ {x}) = Cardinality(T) - 1
    BY <1>2, <1>6, FS_RemoveElement
  <2>2. k <= Cardinality(T \ {x}) + 1
    BY <1>3, <1>4, <1>6
  <2> QED BY <1>2, <1>5, <2>1, <2>2
<1> QED BY <1>6

\* g gives every subset of S the sum of what f gives to its elements.
SumsUp(g, f, S) ==
  /\ g \in [SUBSET S -> Int]
  /\ g[{}] = 0
  /\ \A T \in SUBSET S : \A x \in T : g[T] = g[T \ {x}] + f[x]

\* There are such sums.
LEMMA SumsExist ==
  ASSUME NEW S, IsFiniteSet(S), NEW f \in [S -> Int]
  PROVE  \E g : SumsUp(g, f, S)
<1> DEFINE B == {T \in SUBSET S : ~\E g : SumsUp(g, f, T)}
<1>1. SUFFICES ASSUME B # {} PROVE FALSE
  OBVIOUS
<1>2. PICK T \in B : \A x \in T : T \ {x} \notin B
  BY <1>1, SmallestSubset
<1>3. CASE T = {}
  <2>1. SumsUp([U \in SUBSET {} |-> 0], f, {})
    BY DEF SumsUp
  <2> QED BY <1>2, <1>3, <2>1
<1>4. CASE T # {}
  <2>1. PICK x \in T : TRUE
    BY <1>4
  <2>2. PICK g : SumsUp(g, f, T \ {x})
    BY <1>2, <2>1
  <2>3. x \in S /\ f[x] \in Int /\ \A y \in T : f[y] \in Int
    BY <1>2, <2>1
  <2> DEFINE h == [U \in SUBSET T |-> IF x \in U THEN g[U \ {x}] + f[x] ELSE g[U]]
  <2>4. h \in [SUBSET T -> Int] /\ h[{}] = 0
    BY <2>2, <2>3 DEF SumsUp
  <2>5. ASSUME NEW U \in SUBSET T, NEW y \in U PROVE h[U] = h[U \ {y}] + f[y]
    <3>1. CASE x \notin U
      BY <2>2, <3>1 DEF SumsUp
    <3>2. CASE x \in U /\ y = x
      BY <2>2, <3>2 DEF SumsUp
    <3>3. CASE x \in U /\ y # x
      <4>1. (U \ {y}) \ {x} = (U \ {x}) \ {y}
        OBVIOUS
      <4>2. /\ h[U] = g[U \ {x}] + f[x]
            /\ h[U \ {y}] = g[(U \ {x}) \ {y}] + f[x]
        BY <3>3, <4>1
      <4>3. g[U \ {x}] = g[(U \ {x}) \ {y}] + f[y]
        BY <2>2, <3>3 DEF SumsUp
      <4>4. g[(U \ {x}) \ {y}] \in Int
        BY <2>2 DEF SumsUp
      <4>5. f[x] \in Int /\ f[y] \in Int
        BY <2>3, <2>5
      <4> HIDE DEF h
      <4> QED BY <4>2, <4>3, <4>4, <4>5
    <3> QED BY <3>1, <3>2, <3>3
  <2> HIDE DEF h
  <2>6. SumsUp(h, f, T)
    BY <2>4, <2>5 DEF SumsUp
  <2> QED BY <1>2, <2>6
<1> QED BY <1>3, <1>4

\* h is computed by adding up one element after the other, in some order.
AddsUp(h, f, S) ==
  /\ h[{}] = 0
  /\ \A T \in SUBSET S : T # {} =>
       \E x \in T : /\ f[x] \in Int
                    /\ h[T] \in {h[T \ {x}] + f[x], f[x] + h[T \ {x}]}

\* Adding up in any order gives the same.
LEMMA SumsUnique ==
  ASSUME NEW S, IsFiniteSet(S), NEW R, S \subseteq R, NEW f,
         NEW g, SumsUp(g, f, R), NEW h, AddsUp(h, f, S)
  PROVE  h[S] = g[S]
<1> DEFINE B == {T \in SUBSET S : h[T] # g[T]}
<1>1. SUFFICES ASSUME B # {} PROVE FALSE
  OBVIOUS
<1>2. PICK T \in B : \A x \in T : T \ {x} \notin B
  BY <1>1, SmallestSubset
<1>3. T # {}
  BY <1>2 DEF SumsUp, AddsUp
<1>4. PICK x \in T : /\ f[x] \in Int
                     /\ h[T] \in {h[T \ {x}] + f[x], f[x] + h[T \ {x}]}
  BY <1>2, <1>3 DEF AddsUp
<1>5. h[T \ {x}] = g[T \ {x}]
  BY <1>2, <1>4
<1>6. g[T] = g[T \ {x}] + f[x] /\ g[T \ {x}] \in Int
  BY <1>2, <1>4 DEF SumsUp
<1>7. g[T \ {x}] + f[x] = f[x] + g[T \ {x}]
  BY <1>4, <1>6
<1> QED BY <1>2, <1>4, <1>5, <1>6, <1>7

\* The sum of what f gives to the elements of S.
SumOver(f, S) == (CHOOSE g : SumsUp(g, f, S))[S]

\* A sum is a number, and that of no elements is zero.
LEMMA SumOverFacts ==
  ASSUME NEW S, IsFiniteSet(S), NEW f \in [S -> Int]
  PROVE  SumOver(f, S) \in Int /\ (S = {} => SumOver(f, S) = 0)
<1> DEFINE g == CHOOSE k : SumsUp(k, f, S)
<1>1. SumsUp(g, f, S)
  BY SumsExist
<1>2. SumOver(f, S) = g[S]
  BY DEF SumOver
<1> HIDE DEF g
<1> QED BY <1>1, <1>2 DEF SumsUp

\* Two functions give the same to the elements of S.
Agree(f, h, S) == \A x \in S : f[x] = h[x]

\* A sum is that of one element and of the others, and it depends on nothing but
\* the values at the elements of the set.
LEMMA SumOverWithout ==
  ASSUME NEW S, IsFiniteSet(S), NEW f \in [S -> Int], NEW x \in S,
         NEW R, R = S \ {x}, NEW h \in [R -> Int], Agree(h, f, R)
  PROVE  SumOver(f, S) = SumOver(h, R) + f[x]
<1> DEFINE g == CHOOSE k : SumsUp(k, f, S)
           k == CHOOSE m : SumsUp(m, h, R)
<1>1. SumsUp(g, f, S) /\ SumOver(f, S) = g[S]
  BY SumsExist DEF SumOver
<1>2. IsFiniteSet(R) /\ R \subseteq S
  BY FS_Subset
<1>3. SumsUp(k, h, R) /\ SumOver(h, R) = k[R]
  BY <1>2, SumsExist DEF SumOver
<1> HIDE DEF g, k
<1>4. k[{}] = 0 /\ \A T \in SUBSET R : \A y \in T : k[T] = k[T \ {y}] + f[y]
  BY <1>3 DEF SumsUp, Agree
<1>5. AddsUp(k, f, R)
  BY <1>4 DEF AddsUp
<1>6. k[R] = g[R]
  BY <1>1, <1>2, <1>5, SumsUnique
<1>7. g[S] = g[S \ {x}] + f[x]
  BY <1>1 DEF SumsUp
<1> QED BY <1>1, <1>3, <1>6, <1>7

\* A function that is the sum of one element and of the others, for a choice of the
\* element, is the sum: this is how the folds of the libraries are defined.
LEMMA FoldIsSum ==
  ASSUME NEW S, IsFiniteSet(S), NEW f \in [S -> Int], NEW h, AddsUp(h, f, S)
  PROVE  h[S] = SumOver(f, S)
<1> DEFINE g == CHOOSE k : SumsUp(k, f, S)
<1>1. SumsUp(g, f, S)
  BY SumsExist
<1>2. SumOver(f, S) = g[S]
  BY DEF SumOver
<1> HIDE DEF g
<1>3. S \subseteq S
  OBVIOUS
<1>4. h[S] = g[S]
  BY <1>1, <1>3, SumsUnique
<1> QED BY <1>2, <1>4

\* A set of indices that is not empty has a greatest one.
LEMMA MaxFacts ==
  ASSUME NEW n \in Nat, NEW I \in SUBSET (1..n), I # {}
  PROVE  Max(I) \in I
<1>1. /\ Cardinality(I) \in Nat
      /\ \A i \in I : Rank(I, i) \in 1..Cardinality(I)
      /\ \A i, j \in I : i < j => Rank(I, i) < Rank(I, j)
      /\ \A m \in 1..Cardinality(I) : \E i \in I : Rank(I, i) = m
  BY RankBijection
<1>2. PICK i \in I : Rank(I, i) = Cardinality(I)
  <2>1. PICK i \in I : TRUE
    OBVIOUS
  <2>2. Rank(I, i) \in 1..Cardinality(I)
    BY <1>1, <2>1
  <2>3. Cardinality(I) \in 1..Cardinality(I)
    BY <1>1, <2>2
  <2> QED BY <1>1, <2>3
<1>3. \A j \in I : ~(i < j)
  BY <1>1, <1>2
<1>4. \A j \in I : j <= i
  BY <1>3
<1> QED BY <1>4 DEF Max

\* What one function gives is nowhere more than what the other gives.
AtMost(f, h, S) == \A x \in S : f[x] <= h[x]

\* Larger terms have a larger sum, and a single term that changes changes the sum by
\* as much.
LEMMA SumOverCompare ==
  ASSUME NEW S, IsFiniteSet(S), NEW f \in [S -> Int], NEW h \in [S -> Int]
  PROVE  /\ AtMost(f, h, S) => SumOver(f, S) <= SumOver(h, S)
         /\ \A x \in S : Agree(f, h, S \ {x}) =>
              SumOver(h, S) = SumOver(f, S) + (h[x] - f[x])
<1>1. ASSUME AtMost(f, h, S) PROVE SumOver(f, S) <= SumOver(h, S)
  <2> DEFINE g == CHOOSE k : SumsUp(k, f, S)
             k == CHOOSE m : SumsUp(m, h, S)
             B == {T \in SUBSET S : ~(g[T] <= k[T])}
  <2>1. /\ SumsUp(g, f, S) /\ SumOver(f, S) = g[S]
        /\ SumsUp(k, h, S) /\ SumOver(h, S) = k[S]
    BY SumsExist DEF SumOver
  <2> HIDE DEF g, k
  <2>2. SUFFICES ASSUME B # {} PROVE FALSE
    BY <2>1
  <2>3. PICK T \in B : \A x \in T : T \ {x} \notin B
    BY <2>2, SmallestSubset
  <2>4. T # {}
    <3>1. g[{}] = 0 /\ k[{}] = 0
      BY <2>1 DEF SumsUp
    <3>2. g[{}] <= k[{}]
      BY <3>1
    <3> QED BY <2>3, <3>2
  <2>5. PICK x \in T : TRUE
    BY <2>4
  <2>6. /\ g[T] = g[T \ {x}] + f[x] /\ k[T] = k[T \ {x}] + h[x]
        /\ g[T \ {x}] \in Int /\ k[T \ {x}] \in Int
    BY <2>1, <2>3, <2>5 DEF SumsUp
  <2>7. g[T \ {x}] <= k[T \ {x}] /\ ~(g[T] <= k[T])
    BY <2>3, <2>5
  <2>8. f[x] \in Int /\ h[x] \in Int /\ f[x] <= h[x]
    BY <1>1, <2>3, <2>5 DEF AtMost
  <2> QED BY <2>6, <2>7, <2>8
<1>2. ASSUME NEW x \in S, Agree(f, h, S \ {x})
      PROVE  SumOver(h, S) = SumOver(f, S) + (h[x] - f[x])
  <2> DEFINE R == S \ {x}
             k == [y \in R |-> f[y]]
  <2>1. k \in [R -> Int] /\ Agree(k, f, R) /\ Agree(k, h, R)
    BY <1>2 DEF Agree
  <2>2. IsFiniteSet(R)
    BY FS_Subset
  <2> HIDE DEF k
  <2>3. SumOver(f, S) = SumOver(k, R) + f[x] /\ SumOver(h, S) = SumOver(k, R) + h[x]
    BY <2>1, SumOverWithout
  <2>4. SumOver(k, R) \in Int
    BY <2>1, <2>2, SumOverFacts
  <2>5. f[x] \in Int /\ h[x] \in Int
    OBVIOUS
  <2> HIDE DEF R
  <2> QED BY <2>3, <2>4, <2>5
<1> QED BY <1>1, <1>2

\* Where the elements are after Append.
LEMMA AppendIndices ==
  ASSUME NEW S, NEW s \in Seq(S), NEW e \in S
  PROVE  /\ Append(s, e) \in Seq(S) /\ Len(Append(s, e)) = Len(s) + 1
         /\ Append(s, e)[Len(s) + 1] = e
         /\ \A i \in 1..Len(s) : Append(s, e)[i] = s[i] /\ i # Len(s) + 1
         /\ DOMAIN Append(s, e) = 1..(Len(s) + 1) /\ DOMAIN s = 1..Len(s)
         /\ \A i \in 1..(Len(s) + 1) : i = Len(s) + 1 \/ i \in 1..Len(s)
OBVIOUS

-----------------------------------------------------------------------------
(* Joining sequences *)

Joined(s, t) == s \o t

\* What the proofs below use of concatenation.
LEMMA JoinedFacts ==
  ASSUME NEW S
  PROVE  /\ <<>> \in Seq(S)
         /\ \A s \in Seq(S) : Joined(s, <<>>) = s /\ Joined(<<>>, s) = s
         /\ \A s, t \in Seq(S) : Joined(s, t) \in Seq(S)
         /\ \A s, t, u \in Seq(S) : Joined(Joined(s, t), u) = Joined(s, Joined(t, u))
<1>1. \A s, t, u \in Seq(S) : (s \o t) \o u = s \o (t \o u)
  OBVIOUS
<1> QED BY <1>1 DEF Joined

\* c[i] is a followed by the first i of the n sequences ss.
Joins(c, a, ss, n) ==
  /\ c[0] = a
  /\ \A i \in 1..n : c[i] = Joined(c[i - 1], ss[i])

\* Sequences can be joined one after the other.
LEMMA JoinsExist ==
  ASSUME NEW S, NEW n \in Nat, NEW ss \in [1..n -> Seq(S)], NEW a \in Seq(S)
  PROVE  \E c \in [0..n -> Seq(S)] : Joins(c, a, ss, n)
<1> DEFINE Good(m) == \E c \in [0..m -> Seq(S)] : Joins(c, a, ss, m)
           Bad == {m \in 1..n : ~Good(m)}
<1>1. Good(0)
  <2>1. [i \in 0..0 |-> a] \in [0..0 -> Seq(S)] /\ Joins([i \in 0..0 |-> a], a, ss, 0)
    BY DEF Joins
  <2> QED BY <2>1
<1>2. ASSUME NEW m \in 1..n, Good(m - 1) PROVE Good(m)
  <2>1. PICK c \in [0..(m - 1) -> Seq(S)] : Joins(c, a, ss, m - 1)
    BY <1>2
  <2>2. PICK x \in Seq(S) : x = Joined(c[m - 1], ss[m])
    <3>1. c[m - 1] \in Seq(S) /\ ss[m] \in Seq(S)
      BY <2>1
    <3> QED BY <3>1, JoinedFacts
  <2> DEFINE d == [i \in 0..m |-> IF i = m THEN x ELSE c[i]]
  <2>3. d \in [0..m -> Seq(S)] /\ d[m] = x /\ \A i \in 0..(m - 1) : d[i] = c[i]
    BY <2>1, <2>2
  <2> HIDE DEF d
  <2>4. d[0] = a
    BY <2>1, <2>3 DEF Joins
  <2>5. ASSUME NEW i \in 1..m PROVE d[i] = Joined(d[i - 1], ss[i])
    <3>1. d[i - 1] = c[i - 1]
      BY <2>3
    <3>2. CASE i = m
      BY <2>2, <2>3, <3>1, <3>2
    <3>3. CASE i # m
      BY <2>1, <2>3, <3>1, <3>3 DEF Joins
    <3> QED BY <3>2, <3>3
  <2> QED BY <2>3, <2>4, <2>5 DEF Joins
<1> HIDE DEF Good
<1>3. Bad = {}
  <2>1. SUFFICES ASSUME Bad # {} PROVE FALSE
    OBVIOUS
  <2>2. Bad \in SUBSET (1..n)
    OBVIOUS
  <2>3. PICK m \in Bad : \A i \in Bad : m <= i
    BY <2>1, <2>2, MinFacts
  <2>4. m \in 1..n /\ ~Good(m) /\ (m - 1 = 0 \/ m - 1 \in 1..n) /\ m - 1 \notin Bad
    BY <2>3
  <2>5. Good(m - 1)
    BY <1>1, <2>4
  <2> QED BY <1>2, <2>4, <2>5
<1>4. Good(n)
  BY <1>1, <1>3
<1> QED BY <1>4 DEF Good

\* FlattenSeq joins what comes after a.
LEMMA JoinsFlatten ==
  ASSUME NEW S, NEW ss \in Seq(Seq(S)), NEW a \in Seq(S), NEW c, Joins(c, a, ss, Len(ss))
  PROVE  FlattenSeq(ss) \in Seq(S) /\ c[Len(ss)] = Joined(a, FlattenSeq(ss))
<1>1. PICK n \in Nat : n = Len(ss)
  OBVIOUS
<1>2. ss \in [1..n -> Seq(S)]
  BY <1>1
<1>3. CASE n = 0
  <2>1. FlattenSeq(ss) = ss
    BY <1>1, <1>3 DEF FlattenSeq
  <2>3. ss = <<>>
    <3>1. ASSUME NEW T, NEW s \in Seq(T), Len(s) = 0 PROVE s = <<>>
      BY <3>1
    <3> QED BY <1>1, <1>3, <3>1
  <2>2. c[n] = a
    BY <1>3 DEF Joins
  <2> QED BY <1>1, <2>1, <2>2, <2>3, JoinedFacts
<1>4. CASE n # 0
  <2> DEFINE Rec(f) == f = [i \in 1..n |-> IF i = 1 THEN ss[i] ELSE Joined(f[i - 1], ss[i])]
             flatten == CHOOSE f : Rec(f)
  <2>1. FlattenSeq(ss) = flatten[n]
    BY <1>1, <1>4 DEF FlattenSeq, Joined
  <2>2. PICK d \in [0..n -> Seq(S)] : Joins(d, <<>>, ss, n)
    BY <1>2, JoinsExist, JoinedFacts
  <2>3. PICK g : g = [i \in 1..n |-> d[i]]
    OBVIOUS
  <2>4. Rec(g)
    <3>1. ASSUME NEW i \in 1..n
          PROVE  g[i] = IF i = 1 THEN ss[i] ELSE Joined(g[i - 1], ss[i])
      <4>1. CASE i = 1
        <5>1. d[1] = Joined(<<>>, ss[1])
          BY <2>2, <4>1 DEF Joins
        <5>2. ss[1] \in Seq(S)
          BY <1>2, <4>1
        <5>3. Joined(<<>>, ss[1]) = ss[1]
          BY <5>2, JoinedFacts
        <5> QED BY <2>3, <4>1, <5>1, <5>3
      <4>2. CASE i # 1
        <5>1. i - 1 \in 1..n /\ d[i] = Joined(d[i - 1], ss[i])
          BY <2>2, <4>2 DEF Joins
        <5> QED BY <2>3, <4>2, <5>1
      <4> QED BY <4>1, <4>2
    <3> QED BY <2>3, <3>1
  <2>5. Rec(flatten)
    BY <2>4
  <2>6. \A i \in 1..n : flatten[i] = IF i = 1 THEN ss[i] ELSE Joined(flatten[i - 1], ss[i])
    BY <2>5
  <2> HIDE DEF flatten, Rec
  <2> DEFINE Good(i) == flatten[i] \in Seq(S) /\ c[i] = Joined(a, flatten[i])
             Bad == {i \in 1..n : ~Good(i)}
  <2>7. ASSUME NEW i \in 1..n, i = 1 \/ Good(i - 1) PROVE Good(i)
    <3>1. ss[i] \in Seq(S) /\ c[i] = Joined(c[i - 1], ss[i])
      BY <1>1, <1>2 DEF Joins
    <3>2. CASE i = 1
      <4>1. flatten[i] = ss[i] /\ c[0] = a /\ i - 1 = 0
        BY <2>6, <3>2 DEF Joins
      <4> QED BY <3>1, <4>1
    <3>3. CASE i # 1
      <4>1. Good(i - 1) /\ flatten[i] = Joined(flatten[i - 1], ss[i])
        BY <2>6, <2>7, <3>3
      <4>2. PICK s \in Seq(S) : s = flatten[i - 1] /\ c[i - 1] = Joined(a, s)
        BY <4>1
      <4>3. Joined(s, ss[i]) \in Seq(S) /\ Joined(Joined(a, s), ss[i]) = Joined(a, Joined(s, ss[i]))
        <5>1. PICK t \in Seq(S) : t = ss[i]
          BY <3>1
        <5>2. Joined(s, t) \in Seq(S) /\ Joined(Joined(a, s), t) = Joined(a, Joined(s, t))
          BY JoinedFacts
        <5> QED BY <5>1, <5>2
      <4> QED BY <3>1, <4>1, <4>2, <4>3
    <3> QED BY <3>2, <3>3
  <2> HIDE DEF Good
  <2>8. Bad = {}
    <3>1. SUFFICES ASSUME Bad # {} PROVE FALSE
      OBVIOUS
    <3>2. Bad \in SUBSET (1..n)
      OBVIOUS
    <3>3. PICK i \in Bad : \A j \in Bad : i <= j
      BY <3>1, <3>2, MinFacts
    <3>4. i \in 1..n /\ ~Good(i) /\ (i = 1 \/ i - 1 \in 1..n) /\ i - 1 \notin Bad
      BY <3>3
    <3> QED BY <2>7, <3>4
  <2>9. Good(n)
    <3>1. n \in 1..n
      BY <1>4
    <3> QED BY <2>8, <3>1
  <2> QED BY <1>1, <2>1, <2>9 DEF Good
<1> QED BY <1>3, <1>4

\* How FlattenSeq follows a queue whose entries are sequences.
LEMMA FlattenFacts ==
  ASSUME NEW S, NEW ss \in Seq(Seq(S))
  PROVE  /\ FlattenSeq(ss) \in Seq(S)
         /\ ss = <<>> => FlattenSeq(ss) = <<>>
         /\ \A x \in Seq(S) : FlattenSeq(Append(ss, x)) = Joined(FlattenSeq(ss), x)
         /\ ss # <<>> => FlattenSeq(ss) = Joined(Head(ss), FlattenSeq(Tail(ss)))
<1>1. PICK n \in Nat : n = Len(ss)
  OBVIOUS
<1>2. ss \in [1..n -> Seq(S)]
  BY <1>1
<1>3. PICK e \in Seq(S) : e = <<>>
  BY JoinedFacts
<1>4. PICK c \in [0..n -> Seq(S)] : Joins(c, e, ss, n)
  BY <1>2, <1>3, JoinsExist
<1>5. FlattenSeq(ss) \in Seq(S) /\ c[n] = FlattenSeq(ss)
  <2>1. FlattenSeq(ss) \in Seq(S) /\ c[n] = Joined(e, FlattenSeq(ss))
    BY <1>1, <1>3, <1>4, JoinsFlatten
  <2>2. Joined(e, FlattenSeq(ss)) = FlattenSeq(ss)
    BY <1>3, <2>1, JoinedFacts
  <2> QED BY <2>1, <2>2
<1>6. ss = <<>> => FlattenSeq(ss) = <<>>
  BY DEF FlattenSeq
<1>7. ASSUME NEW x \in Seq(S) PROVE FlattenSeq(Append(ss, x)) = Joined(FlattenSeq(ss), x)
  <2>1. PICK tt \in Seq(Seq(S)) :
          /\ tt = Append(ss, x) /\ Len(tt) = n + 1 /\ tt[n + 1] = x
          /\ \A i \in 1..n : tt[i] = ss[i]
    <3>1. ASSUME NEW T, NEW s \in Seq(T), NEW y \in T
          PROVE  /\ Append(s, y) \in Seq(T) /\ Len(Append(s, y)) = Len(s) + 1
                 /\ Append(s, y)[Len(s) + 1] = y
                 /\ \A i \in 1..Len(s) : Append(s, y)[i] = s[i]
      OBVIOUS
    <3>2. PICK T : T = Seq(S)
      OBVIOUS
    <3>3. ss \in Seq(T) /\ x \in T
      BY <3>2
    <3>4. /\ Append(ss, x) \in Seq(T) /\ Len(Append(ss, x)) = n + 1
          /\ Append(ss, x)[n + 1] = x
          /\ \A i \in 1..n : Append(ss, x)[i] = ss[i]
      BY <1>1, <3>1, <3>3
    <3>5. Append(ss, x) \in Seq(Seq(S))
      BY <3>2, <3>4, Zenon
    <3> QED BY <3>4, <3>5, Zenon
  <2>2. PICK d : d = [i \in 0..(n + 1) |-> IF i = n + 1 THEN Joined(c[n], x) ELSE c[i]]
    OBVIOUS
  <2>3. d[n + 1] = Joined(c[n], x) /\ \A i \in 0..n : d[i] = c[i]
    BY <2>2
  <2>4. ASSUME NEW i \in 1..(n + 1) PROVE d[i] = Joined(d[i - 1], tt[i])
    <3>1. d[i - 1] = c[i - 1]
      BY <2>3
    <3>2. CASE i = n + 1
      BY <2>1, <2>3, <3>1, <3>2
    <3>3. CASE i # n + 1
      <4>1. i \in 1..n /\ i \in 0..n
        BY <3>3
      <4>2. c[i] = Joined(c[i - 1], ss[i])
        BY <1>4, <4>1 DEF Joins
      <4> QED BY <2>1, <2>3, <3>1, <4>1, <4>2
    <3> QED BY <3>2, <3>3
  <2>5. d[0] = e
    BY <1>4, <2>3 DEF Joins
  <2>6. Joins(d, e, tt, Len(tt))
    BY <2>1, <2>4, <2>5 DEF Joins
  <2>7. FlattenSeq(tt) \in Seq(S) /\ d[Len(tt)] = Joined(e, FlattenSeq(tt))
    BY <2>6, JoinsFlatten
  <2>8. d[n + 1] = FlattenSeq(tt)
    BY <1>3, <2>1, <2>7, JoinedFacts
  <2> QED BY <1>5, <2>1, <2>3, <2>8
<1>8. ASSUME ss # <<>> PROVE FlattenSeq(ss) = Joined(Head(ss), FlattenSeq(Tail(ss)))
  <2> DEFINE T == Seq(S)
  <2>10. ss \in Seq(T)
    OBVIOUS
  <2> HIDE DEF T
  <2>11. /\ Len(ss) # 0 /\ Tail(ss) \in Seq(T) /\ Len(Tail(ss)) = Len(ss) - 1
        /\ \A i \in 1..(Len(ss) - 1) : Tail(ss)[i] = ss[i + 1]
    BY <1>8, <2>10
  <2>1. PICK m \in Nat : n = m + 1
    <3>1. n - 1 \in Nat /\ n = (n - 1) + 1
      BY <1>1, <2>11
    <3> QED BY <3>1
  <2>2. PICK tt \in Seq(Seq(S)) :
          tt = Tail(ss) /\ Len(tt) = m /\ \A i \in 1..m : tt[i] = ss[i + 1]
    <3>1. Len(Tail(ss)) = m /\ \A i \in 1..m : Tail(ss)[i] = ss[i + 1]
      <4>1. Len(ss) - 1 = m
        BY <1>1, <2>1
      <4> QED BY <2>11, <4>1, Zenon
    <3>2. Tail(ss) \in Seq(Seq(S))
      BY <2>11, Zenon DEF T
    <3> QED BY <3>1, <3>2, Zenon
  <2>3. PICK a \in Seq(S) : a = Head(ss) /\ a = ss[1]
    BY <1>1, <1>2, <1>8, <2>1
  <2>4. PICK d : d = [i \in 0..m |-> c[i + 1]]
    OBVIOUS
  <2>5. d[0] = a
    <3>1. c[1] = Joined(e, a)
      BY <1>4, <2>1, <2>3 DEF Joins
    <3>2. c[1] = a
      BY <1>3, <3>1, JoinedFacts
    <3> QED BY <2>1, <2>4, <3>2
  <2>6. ASSUME NEW i \in 1..m PROVE d[i] = Joined(d[i - 1], tt[i])
    <3>1. i + 1 \in 1..n /\ (i + 1) - 1 = i /\ (i - 1) + 1 = i
      BY <2>1
    <3>2. c[i + 1] = Joined(c[i], ss[i + 1])
      BY <1>4, <3>1 DEF Joins
    <3>3. d[i] = c[i + 1] /\ d[i - 1] = c[i]
      BY <2>1, <2>4, <3>1
    <3> QED BY <2>2, <3>2, <3>3
  <2>7. Joins(d, a, tt, Len(tt))
    BY <2>2, <2>5, <2>6 DEF Joins
  <2>8. d[m] = Joined(a, FlattenSeq(tt))
    BY <2>2, <2>7, JoinsFlatten
  <2>9. d[m] = FlattenSeq(ss)
    BY <1>5, <2>1, <2>4
  <2> QED BY <2>2, <2>3, <2>8, <2>9
<1> QED BY <1>5, <1>6, <1>7, <1>8

=============================================================================
