----------------------------- MODULE NumberLemmas -----------------------------
(***************************************************************************)
(* What the proofs about the components need of numbers and of finite sets *)
(* of them: a least and a greatest one, counting, and sums.                *)
(*                                                                         *)
(* The sum of the community module (MapThenSumSet) takes the elements in   *)
(* an order that CHOOSE picks.  Sums says what it computes; that the order *)
(* does not matter, and how a sum changes, is shown here by looking at a   *)
(* smallest set for which it would not be so.                              *)
(***************************************************************************)
EXTENDS Integers, Sequences, FiniteSets, FiniteSetsExt, SequencesExt, FiniteSetTheorems,
        SequenceTheorems, NaturalsInduction, WellFoundedInduction, TLAPS

\* A set of numbers has a least one.
LEMMA LeastNumber ==
    ASSUME NEW S, S \subseteq Nat, S # {}
    PROVE  \E x \in S : \A y \in S : x <= y
<1>1. PICK x \in S : \A y \in S : ~ (<<y, x>> \in OpToRel(<, Nat))
  BY NatLessThanWellFounded, WFMin
<1>2. \A y \in S : ~(y < x)
  BY <1>1 DEF OpToRel
<1>3. \A y \in S : x \in Int /\ y \in Int
  OBVIOUS
<1> QED BY <1>2, <1>3

\* The least of a set of numbers is one of them.
LEMMA MinIs ==
    ASSUME NEW S, S \subseteq Nat, S # {}
    PROVE  Min(S) \in S /\ \A x \in S : Min(S) <= x
BY LeastNumber DEF Min

\* A set of numbers no larger than one of them has a largest.
LEMMA Greatest ==
    ASSUME NEW S, S \subseteq Nat, S # {}, NEW top \in Nat, \A x \in S : x <= top
    PROVE  Max(S) \in S /\ \A y \in S : y <= Max(S)
<1> DEFINE T == {top - x : x \in S}
<1>1. T \subseteq Nat /\ T # {}
  <2>1. \A x \in S : top - x \in Nat
    OBVIOUS
  <2>2. PICK x \in S : TRUE
    OBVIOUS
  <2> QED BY <2>1, <2>2
<1>2. PICK t \in T : \A u \in T : ~ (<<u, t>> \in OpToRel(<, Nat))
  <2> HIDE DEF T
  <2> QED BY <1>1, NatLessThanWellFounded, WFMin
<1>3. \A u \in T : ~ (<<u, t>> \in {ss \in Nat \X Nat : ss[1] < ss[2]})
  BY <1>2, Zenon DEF OpToRel
<1>4. ASSUME NEW u \in T PROVE t <= u
  <2> HIDE DEF T
  <2>1. t \in Nat /\ u \in Nat /\ <<u, t>> \in Nat \X Nat /\ <<u, t>>[1] = u /\ <<u, t>>[2] = t
    BY <1>1
  <2>2. ~ (<<u, t>>[1] < <<u, t>>[2])
    BY <1>3, <2>1, Zenon
  <2> QED BY <2>1, <2>2
<1>5. PICK m \in S : t = top - m
  OBVIOUS
<1>6. ASSUME NEW y \in S PROVE m >= y
  <2>1. t <= top - y
    BY <1>4
  <2> HIDE DEF T
  <2> QED BY <1>5, <2>1
<1>7. Max(S) \in S /\ \A y \in S : Max(S) >= y
  BY <1>6 DEF Max
<1> QED BY <1>7

\* The larger and the smaller of two numbers.
LEMMA OfTwo ==
    ASSUME NEW a \in Int, NEW b \in Int
    PROVE  /\ Max({a, b}) \in {a, b} /\ Max({a, b}) >= a /\ Max({a, b}) >= b
           /\ Min({a, b}) \in {a, b} /\ Min({a, b}) <= a /\ Min({a, b}) <= b
<1>1. \E x \in {a, b} : \A y \in {a, b} : x >= y
  OBVIOUS
<1>2. \E x \in {a, b} : \A y \in {a, b} : x <= y
  OBVIOUS
<1>3. Max({a, b}) \in {a, b} /\ \A y \in {a, b} : Max({a, b}) >= y
  BY <1>1 DEF Max
<1>4. Min({a, b}) \in {a, b} /\ \A y \in {a, b} : Min({a, b}) <= y
  BY <1>2 DEF Min
<1> QED BY <1>3, <1>4

----------------------------------------------------------------------------
\* Of some subsets of a finite set one has none of the others below it.
LEMMA Smallest ==
    ASSUME NEW S, IsFiniteSet(S), NEW A, A \subseteq SUBSET S, A # {}
    PROVE  \E T \in A : \A U \in A : U \subseteq T => U = T
<1>1. FiniteSubsetsOf(S) = SUBSET S
  BY FS_FiniteSubsetsOfFinite
<1>2. IsWellFoundedOn(StrictSubsetOrdering(S), SUBSET S)
  BY <1>1, FS_StrictSubsetOrderingWellFounded
<1>3. PICK T \in A : \A U \in A : ~(<<U, T>> \in StrictSubsetOrdering(S))
  BY <1>2, WFMin
<1>4. ASSUME NEW U \in A, U \subseteq T PROVE U = T
  <2>1. ~(<<U, T>> \in StrictSubsetOrdering(S))
    BY <1>3
  <2>2. U \in SUBSET S /\ T \in SUBSET S
    OBVIOUS
  <2> QED BY <1>4, <2>1, <2>2 DEF StrictSubsetOrdering
<1> QED BY <1>4

\* Some places of a sequence of numbers, and what they hold, counted.
LEMMA PlacesAre ==
    ASSUME NEW s \in Seq(Int), NEW I, I \subseteq DOMAIN s
    PROVE  /\ IsFiniteSet(I) /\ Cardinality(I) \in Nat /\ Cardinality(I) <= Len(s)
           /\ Cardinality(I) = 0 <=> I = {}
           /\ \A J : J \subseteq I => Cardinality(J) <= Cardinality(I) /\ Cardinality(J) \in Nat
           /\ Len(s) \in Nat /\ DOMAIN s = 1..Len(s) /\ Cardinality(DOMAIN s) = Len(s)
<1>1. Len(s) \in Nat /\ DOMAIN s = 1..Len(s)
  OBVIOUS
<1>2. IsFiniteSet(1..Len(s)) /\ Cardinality(1..Len(s)) = IF 1 > Len(s) THEN 0 ELSE Len(s) - 1 + 1
  BY <1>1, FS_Interval
<1>3. IsFiniteSet(DOMAIN s) /\ Cardinality(DOMAIN s) = Len(s)
  BY <1>1, <1>2
<1>4. IsFiniteSet(I) /\ Cardinality(I) <= Len(s)
  BY <1>3, FS_Subset
<1>5. Cardinality(I) \in Nat
  BY <1>4, FS_CardinalityType
<1>6. Cardinality(I) = 0 <=> I = {}
  BY <1>4, FS_EmptySet
<1>7. ASSUME NEW J, J \subseteq I PROVE Cardinality(J) <= Cardinality(I) /\ Cardinality(J) \in Nat
  <2>1. IsFiniteSet(J) /\ Cardinality(J) <= Cardinality(I)
    BY <1>4, <1>7, FS_Subset
  <2> QED BY <2>1, FS_CardinalityType
<1> QED BY <1>1, <1>3, <1>4, <1>5, <1>6, <1>7

\* One of them holds the most, and one the least.
LEMMA MostAndLeast ==
    ASSUME NEW s \in Seq(Int), NEW I, I \subseteq DOMAIN s, I # {}
    PROVE  /\ \E m \in I : \A i \in I : s[i] <= s[m]
           /\ \E m \in I : \A i \in I : s[m] <= s[i]
<1>0. /\ IsFiniteSet(I) /\ \A i \in I : s[i] \in Int
  <2>1. IsFiniteSet(I)
    BY PlacesAre
  <2> QED BY <2>1
<1> DEFINE Above(x) == {i \in I : s[i] > s[x]}
           Below(x) == {i \in I : s[i] < s[x]}
<1>1. \E m \in I : \A i \in I : s[i] <= s[m]
  <2> DEFINE A == {Above(x) : x \in I}
  <2>1. A \subseteq SUBSET I /\ A # {}
    OBVIOUS
  <2>2. PICK T \in A : \A U \in A : U \subseteq T => U = T
    <3> HIDE DEF A
    <3> QED BY <1>0, <2>1, Smallest
  <2>3. PICK m \in I : T = Above(m)
    OBVIOUS
  <2>4. ASSUME NEW j \in I, s[j] > s[m] PROVE FALSE
    <3>1. Above(j) \subseteq Above(m)
      BY <1>0, <2>4
    <3>2. j \in Above(m) /\ j \notin Above(j)
      BY <1>0, <2>4
    <3>3. Above(j) \in A
      OBVIOUS
    <3> QED BY <2>2, <2>3, <3>1, <3>2, <3>3
  <2> QED BY <1>0, <2>4
<1>2. \E m \in I : \A i \in I : s[m] <= s[i]
  <2> DEFINE A == {Below(x) : x \in I}
  <2>1. A \subseteq SUBSET I /\ A # {}
    OBVIOUS
  <2>2. PICK T \in A : \A U \in A : U \subseteq T => U = T
    <3> HIDE DEF A
    <3> QED BY <1>0, <2>1, Smallest
  <2>3. PICK m \in I : T = Below(m)
    OBVIOUS
  <2>4. ASSUME NEW j \in I, s[j] < s[m] PROVE FALSE
    <3>1. Below(j) \subseteq Below(m)
      BY <1>0, <2>4
    <3>2. j \in Below(m) /\ j \notin Below(j)
      BY <1>0, <2>4
    <3>3. Below(j) \in A
      OBVIOUS
    <3> QED BY <2>2, <2>3, <3>1, <3>2, <3>3
  <2> QED BY <1>0, <2>4
<1> QED BY <1>1, <1>2

----------------------------------------------------------------------------
\* The element that a sum takes first.
First(T) == CHOOSE x \in T : TRUE

\* g gives the sum of w over every subset of S, one chosen element at a time.
Sums(w, S, g) ==
    g = [T \in SUBSET S |-> IF T = {} THEN 0
                            ELSE w[First(T)] + g[T \ {First(T)}]]

\* One step of the sum.
LEMMA SumsStep ==
    ASSUME NEW w, NEW S, NEW g, Sums(w, S, g)
    PROVE  /\ g[{}] = 0
           /\ \A T \in SUBSET S : T # {} =>
                First(T) \in T /\ g[T] = w[First(T)] + g[T \ {First(T)}]
<1>1. \A T : T # {} => First(T) \in T
  BY DEF First
<1>2. g[{}] = 0
  BY DEF Sums
<1>3. ASSUME NEW T \in SUBSET S, T # {}
      PROVE  g[T] = w[First(T)] + g[T \ {First(T)}]
  BY <1>3 DEF Sums
<1> QED BY <1>1, <1>2, <1>3

\* The sum over T depends on w over T only.
LEMMA SumsSame ==
    ASSUME NEW w, NEW v, NEW S, NEW U, NEW g, NEW h, Sums(w, S, g), Sums(v, U, h),
           NEW T, IsFiniteSet(T), T \subseteq S, T \subseteq U, \A s \in T : w[s] = v[s]
    PROVE  g[T] = h[T]
<1> DEFINE A == {B \in SUBSET T : g[B] # h[B]}
<1>1. SUFFICES ASSUME A # {} PROVE FALSE
  BY DEF A
<1>2. A \subseteq SUBSET T
  OBVIOUS
<1>3. PICK B \in A : \A C \in A : C \subseteq B => C = B
  <2> HIDE DEF A
  <2> QED BY <1>1, <1>2, Smallest
<1>4. B \subseteq T /\ g[B] # h[B] /\ B \in SUBSET S /\ B \in SUBSET U
  BY <1>3
<1>0. \A C \in SUBSET T : C \subseteq B /\ C # B => g[C] = h[C]
  BY <1>3
<1>5. CASE B = {}
  BY <1>4, <1>5, SumsStep
<1> HIDE DEF A
<1>6. CASE B # {}
  <2> DEFINE x == First(B)
  <2>4. \A C \in SUBSET S : C # {} => First(C) \in C /\ g[C] = w[First(C)] + g[C \ {First(C)}]
    BY SumsStep
  <2>5. \A C \in SUBSET U : C # {} => First(C) \in C /\ h[C] = v[First(C)] + h[C \ {First(C)}]
    BY SumsStep
  <2>1. x \in B /\ g[B] = w[x] + g[B \ {x}]
    BY <1>4, <1>6, <2>4, Zenon
  <2>2. h[B] = v[x] + h[B \ {x}]
    BY <1>4, <1>6, <2>5, Zenon
  <2> HIDE DEF x
  <2>3. g[B \ {x}] = h[B \ {x}]
    BY <1>0, <1>4, <2>1
  <2> QED BY <1>4, <2>1, <2>2, <2>3
<1> QED BY <1>5, <1>6

\* There is such a g.
LEMMA SumsExist == ASSUME NEW w, NEW S, IsFiniteSet(S) PROVE \E g : Sums(w, S, g)
<1> DEFINE A == {T \in SUBSET S : ~ \E g : Sums(w, T, g)}
<1>1. SUFFICES ASSUME A # {} PROVE FALSE
  BY DEF A
<1>2. A \subseteq SUBSET S
  OBVIOUS
<1>3. PICK T \in A : \A U \in A : U \subseteq T => U = T
  <2> HIDE DEF A
  <2> QED BY <1>1, <1>2, Smallest
<1>4. T \subseteq S /\ (\A g : ~Sums(w, T, g))
  BY <1>3
<1>5. \A U \in SUBSET T : U # T => \E g : Sums(w, U, g)
  BY <1>3, <1>4
<1> HIDE DEF A
<1> DEFINE G(U) == CHOOSE g : Sums(w, U, g)
           h == [U \in SUBSET T |-> IF U = {} THEN 0
                    ELSE w[First(U)] + G(U \ {First(U)})[U \ {First(U)}]]
<1>6. \A U \in SUBSET T : U # T => Sums(w, U, G(U))
  BY <1>5
<1>7. ASSUME NEW U \in SUBSET T, U # T PROVE h[U] = G(U)[U]
  <2>1. Sums(w, U, G(U))
    BY <1>6, <1>7
  <2>2. CASE U = {}
    <3>1. h[U] = 0
      BY <2>2
    <3> HIDE DEF G, h
    <3> QED BY <2>1, <2>2, <3>1, SumsStep
  <2>3. CASE U # {}
    <3> DEFINE x == First(U)
    <3>1. x \in U
      BY <2>3 DEF First
    <3>2. h[U] = w[x] + G(U \ {x})[U \ {x}]
      BY <2>3
    <3>3. Sums(w, U \ {x}, G(U \ {x}))
      <4>1. U \ {x} \in SUBSET T /\ U \ {x} # T
        BY <3>1
      <4> HIDE DEF G, x
      <4> QED BY <1>6, <4>1
    <3>4. IsFiniteSet(U \ {x})
      BY <1>4, FS_Subset
    <3>5. G(U)[U] = w[x] + G(U)[U \ {x}]
      <4> HIDE DEF G
      <4> QED BY <2>1, <2>3, SumsStep
    <3>6. G(U)[U \ {x}] = G(U \ {x})[U \ {x}]
      <4>1. U \ {x} \subseteq U \ {x} /\ U \ {x} \subseteq U
        OBVIOUS
      <4> DEFINE B == U \ {x}
      <4> HIDE DEF G, x, B
      <4>2. IsFiniteSet(B) /\ B \subseteq U /\ Sums(w, B, G(B))
        BY <3>3, <3>4, <4>1 DEF B
      <4>3. G(U)[B] = G(B)[B]
        BY <2>1, <4>2, SumsSame
      <4> QED BY <4>3 DEF B
    <3> HIDE DEF G, h, x
    <3> QED BY <3>2, <3>5, <3>6
  <2> QED BY <2>2, <2>3
<1>8. Sums(w, T, h)
  <2>1. ASSUME NEW U \in SUBSET T, U # {}
        PROVE  h[U] = w[First(U)] + h[U \ {First(U)}]
    <3> DEFINE x == First(U)
    <3>1. x \in U
      BY <2>1 DEF First
    <3>2. U \ {x} \in SUBSET T /\ U \ {x} # T
      BY <3>1
    <3>3. h[U \ {x}] = G(U \ {x})[U \ {x}]
      <4> HIDE DEF G, h, x
      <4> QED BY <1>7, <3>2
    <3>4. h[U] = w[x] + G(U \ {x})[U \ {x}]
      BY <2>1
    <3>5. h[U] = w[x] + h[U \ {x}]
      <4> HIDE DEF G, h, x
      <4> QED BY <3>3, <3>4
    <3> HIDE DEF G, h
    <3> QED BY <3>5
  <2>2. h[{}] = 0
    OBVIOUS
  <2>3. DOMAIN h = SUBSET T /\ h = [U \in SUBSET T |-> h[U]]
    OBVIOUS
  <2> HIDE DEF h
  <2>4. \A U \in SUBSET T : h[U] = IF U = {} THEN 0
                            ELSE w[First(U)] + h[U \ {First(U)}]
    BY <2>1, <2>2
  <2>5. h = [U \in SUBSET T |-> IF U = {} THEN 0
                            ELSE w[First(U)] + h[U \ {First(U)}]]
    BY <2>3, <2>4, Zenon
  <2> QED BY <2>5 DEF Sums
<1> QED BY <1>4, <1>8

\* Sums of amounts are amounts.
LEMMA SumsType ==
    ASSUME NEW S, IsFiniteSet(S), NEW w \in [S -> Nat], NEW g, Sums(w, S, g),
           NEW T, T \subseteq S
    PROVE  g[T] \in Nat
<1> DEFINE A == {B \in SUBSET S : g[B] \notin Nat}
<1>1. SUFFICES ASSUME A # {} PROVE FALSE
  BY DEF A
<1>2. PICK B \in A : \A C \in A : C \subseteq B => C = B
  <2>1. A \subseteq SUBSET S
    OBVIOUS
  <2> HIDE DEF A
  <2> QED BY <1>1, <2>1, Smallest
<1>3. B \in SUBSET S /\ g[B] \notin Nat
  OBVIOUS
<1>4. CASE B = {}
  BY <1>3, <1>4, SumsStep
<1>6. \A C \in SUBSET S : C \subseteq B /\ C # B => g[C] \in Nat
  BY <1>2
<1> HIDE DEF A
<1>5. CASE B # {}
  <2> DEFINE x == First(B)
  <2>1. x \in B /\ g[B] = w[x] + g[B \ {x}]
    <3>1. \A C \in SUBSET S : C # {} =>
             First(C) \in C /\ g[C] = w[First(C)] + g[C \ {First(C)}]
      BY SumsStep
    <3> QED BY <1>3, <1>5, <3>1, Zenon
  <2> HIDE DEF x
  <2>2. g[B \ {x}] \in Nat
    BY <1>3, <1>6, <2>1
  <2>3. w[x] \in Nat
    BY <1>3, <2>1
  <2> QED BY <1>3, <2>1, <2>2, <2>3
<1> QED BY <1>4, <1>5

\* Any name may be taken first.
LEMMA SumsTake ==
    ASSUME NEW S, IsFiniteSet(S), NEW w \in [S -> Nat], NEW g, Sums(w, S, g),
           NEW T, T \subseteq S, NEW y \in T
    PROVE  g[T] = w[y] + g[T \ {y}]
<1> DEFINE A == {B \in SUBSET S : \E z \in B : g[B] # w[z] + g[B \ {z}]}
<1>1. SUFFICES ASSUME A # {} PROVE FALSE
  BY DEF A
<1>2. PICK B \in A : \A C \in A : C \subseteq B => C = B
  <2>1. A \subseteq SUBSET S
    OBVIOUS
  <2> HIDE DEF A
  <2> QED BY <1>1, <2>1, Smallest
<1>3. B \in SUBSET S
  OBVIOUS
<1>4. PICK z \in B : g[B] # w[z] + g[B \ {z}]
  OBVIOUS
<1> HIDE DEF A
<1> DEFINE x == First(B)
<1>5. x \in B /\ g[B] = w[x] + g[B \ {x}]
  BY <1>3, SumsStep
<1> HIDE DEF x
<1>6. z # x
  BY <1>4, <1>5
<1> DEFINE C == B \ {x}
           D == B \ {z}
           E == C \ {z}
<1>7. g[C] = w[z] + g[E]
  <2> USE DEF A
  <2>1. C \in SUBSET S /\ C \notin A /\ z \in C
    <3>1. C \subseteq B /\ C # B
      BY <1>5
    <3>2. C \notin A
      <4> HIDE DEF A, C
      <4> QED BY <1>2, <3>1
    <3> QED BY <1>3, <1>6, <3>2
  <2> HIDE DEF C
  <2> QED BY <2>1
<1>8. g[D] = w[x] + g[E]
  <2> USE DEF A
  <2>1. D \in SUBSET S /\ D \notin A /\ x \in D
    <3>1. D \subseteq B /\ D # B
      OBVIOUS
    <3>2. D \notin A
      <4> HIDE DEF A, D
      <4> QED BY <1>2, <3>1
    <3> QED BY <1>3, <1>5, <1>6, <3>2
  <2>2. D \ {x} = E
    OBVIOUS
  <2> HIDE DEF D, E
  <2> QED BY <2>1, <2>2
<1>9. w[x] \in Nat /\ w[z] \in Nat /\ g[E] \in Nat
  <2>1. E \subseteq S
    BY <1>3
  <2> HIDE DEF E
  <2> QED BY <1>3, <1>5, <2>1, SumsType
<1> HIDE DEF A, C, D, E
<1>10. g[B] # w[z] + g[D] /\ g[B] = w[x] + g[C]
  BY <1>4, <1>5 DEF C, D
<1> QED BY <1>7, <1>8, <1>9, <1>10

\* More of them sum up to no less.
LEMMA SumsGrow ==
    ASSUME NEW S, IsFiniteSet(S), NEW w \in [S -> Nat], NEW g, Sums(w, S, g),
           NEW U, U \subseteq S, NEW T, T \subseteq U
    PROVE  g[T] <= g[U] /\ g[T] \in Nat /\ g[U] \in Nat
<1> DEFINE A == {B \in SUBSET U : T \subseteq B /\ ~(g[T] <= g[B])}
<1>1. \A B \in SUBSET U : g[B] \in Nat
  BY SumsType
<1>2. g[T] \in Nat /\ g[U] \in Nat
  BY <1>1
<1>3. SUFFICES ASSUME A # {} PROVE FALSE
  BY <1>2
<1>4. PICK B \in A : \A C \in A : C \subseteq B => C = B
  <2>1. A \subseteq SUBSET U /\ IsFiniteSet(U)
    BY FS_Subset
  <2> HIDE DEF A
  <2> QED BY <1>3, <2>1, Smallest
<1>5. B \subseteq U /\ T \subseteq B /\ ~(g[T] <= g[B])
  OBVIOUS
<1>6. PICK y \in B : y \notin T
  BY <1>2, <1>5
<1> DEFINE C == B \ {y}
<1>7. C \subseteq U /\ T \subseteq C /\ C \subseteq B /\ C # B
  BY <1>5, <1>6
<1>8. g[T] <= g[C]
  <2>1. C \notin A
    <3> HIDE DEF A, C
    <3> QED BY <1>4, <1>7
  <2> QED BY <1>7, <2>1
<1>9. g[B] = w[y] + g[C] /\ w[y] \in Nat
  <2>1. B \subseteq S /\ y \in S
    BY <1>5, <1>6
  <2> QED BY <1>6, <2>1, SumsTake
<1> HIDE DEF A, C
<1>10. g[B] \in Nat /\ g[C] \in Nat
  BY <1>1, <1>5, <1>7
<1> QED BY <1>2, <1>5, <1>8, <1>9, <1>10
=============================================================================
