----------------------------- MODULE FiniteSums -----------------------------
(***************************************************************************)
(* Sums of integers over finite sets (FiniteSetsExt!MapThenSumSet): what a *)
(* proof about a budget or a cart needs to know of them.                   *)
(*                                                                         *)
(* A fold takes its elements in an order of its own (Pick). The lemmas say *)
(* that the order does not matter: a sum is an integer, loses exactly what *)
(* is removed (SumRemove), and depends on nothing outside its set          *)
(* (SumCongruence).                                                        *)
(***************************************************************************)
EXTENDS FiniteSetsExt, FiniteSetTheorems, WellFoundedInduction, NaturalsInduction, TLAPS

\* The sum of f over S.
SumOver(f, S) == MapThenSumSet(LAMBDA x : f[x], S)

Pick(s) == CHOOSE x \in s : TRUE

\* The sum over s, given the sums over its subsets.
Adding(f, g, s) == IF s = {} THEN 0 ELSE f[Pick(s)] + g[s \ {Pick(s)}]

\* The sums over every subset of S.
Sums(f, S) == CHOOSE g : g = [s \in SUBSET S |-> Adding(f, g, s)]

LEMMA SumOverIs ==
  ASSUME NEW f, NEW S
  PROVE  SumOver(f, S) = Sums(f, S)[S]
  BY Zenon DEF SumOver, MapThenSumSet, MapThenFoldSet, Sums, Adding, Pick

-----------------------------------------------------------------------------
(* The sums are well defined *)

\* A set of numbers that has one has a least one.
LEMMA LeastOf ==
  ASSUME NEW S \in SUBSET Nat, S # {}
  PROVE  \E x \in S : \A y \in S : x <= y
<1>1. PICK x \in S : \A y \in S : <<y, x>> \notin OpToRel(<, Nat)
  BY NatLessThanWellFounded, WFMin
<1>2. \A y \in S : ~(y < x)
  BY <1>1 DEF OpToRel
<1> QED BY <1>2

\* g has the sums over the subsets of at most n elements.
SumsUpTo(n, f, g, S) == \A s \in SUBSET S : Cardinality(s) <= n => g[s] = Adding(f, g, s)

\* What is picked from a nonempty set is in it, and what is left is smaller.
LEMMA Picked ==
  ASSUME NEW S, IsFiniteSet(S), NEW s \in SUBSET S, s # {}
  PROVE  /\ Pick(s) \in s
         /\ s \ {Pick(s)} \in SUBSET S
         /\ Cardinality(s) \in Nat
         /\ Cardinality(s \ {Pick(s)}) = Cardinality(s) - 1
<1>1. Pick(s) \in s
  BY DEF Pick
<1>2. IsFiniteSet(s)
  BY FS_Subset
<1> QED BY <1>1, <1>2, FS_RemoveElement, FS_CardinalityType

LEMMA SumsUpToNext ==
  ASSUME NEW S, IsFiniteSet(S), NEW f, \A x \in S : f[x] \in Int, NEW n \in Nat,
         NEW g \in [SUBSET S -> Int], SumsUpTo(n, f, g, S)
  PROVE  \E h \in [SUBSET S -> Int] : SumsUpTo(n + 1, f, h, S)
<1> DEFINE h == [s \in SUBSET S |-> Adding(f, g, s)]
<1>1. ASSUME NEW s \in SUBSET S PROVE Adding(f, g, s) \in Int
  <2>1. CASE s = {}
    BY <2>1 DEF Adding
  <2>2. CASE s # {}
    <3>1. Pick(s) \in S /\ s \ {Pick(s)} \in SUBSET S
      BY <2>2, Picked
    <3>2. f[Pick(s)] \in Int /\ g[s \ {Pick(s)}] \in Int
      BY <3>1
    <3> QED BY <2>2, <3>2 DEF Adding
  <2> QED BY <2>1, <2>2
<1>2. h \in [SUBSET S -> Int]
  BY <1>1
<1>3. ASSUME NEW s \in SUBSET S, Cardinality(s) <= n + 1
      PROVE  h[s] = Adding(f, h, s)
  <2>1. CASE s = {}
    BY <2>1 DEF Adding
  <2>2. CASE s # {}
    <3>1. s \ {Pick(s)} \in SUBSET S /\ Cardinality(s \ {Pick(s)}) <= n
      BY <1>3, <2>2, Picked
    <3>2. h[s \ {Pick(s)}] = g[s \ {Pick(s)}]
      BY <3>1 DEF SumsUpTo
    <3> QED BY <2>2, <3>2 DEF Adding
  <2> QED BY <2>1, <2>2
<1> HIDE DEF h
<1> QED BY <1>2, <1>3 DEF SumsUpTo

LEMMA SumsUpToAny ==
  ASSUME NEW S, IsFiniteSet(S), NEW f, \A x \in S : f[x] \in Int, NEW n \in Nat
  PROVE  \E g \in [SUBSET S -> Int] : SumsUpTo(n, f, g, S)
<1> DEFINE missing == {m \in Nat : ~\E g \in [SUBSET S -> Int] : SumsUpTo(m, f, g, S)}
<1>1. 0 \notin missing
  <2> DEFINE g == [s \in SUBSET S |-> 0]
  <2>1. ASSUME NEW s \in SUBSET S, Cardinality(s) <= 0 PROVE s = {}
    <3>1. IsFiniteSet(s)
      BY FS_Subset
    <3> QED BY <2>1, <3>1, FS_EmptySet, FS_CardinalityType
  <2>2. SumsUpTo(0, f, g, S)
    BY <2>1 DEF SumsUpTo, Adding
  <2>3. g \in [SUBSET S -> Int]
    OBVIOUS
  <2> HIDE DEF g
  <2> QED BY <2>2, <2>3
<1>2. SUFFICES missing = {}
  OBVIOUS
<1>3. SUFFICES ASSUME missing # {} PROVE FALSE
  OBVIOUS
<1>4. PICK m \in missing : \A k \in missing : m <= k
  <2>1. missing \in SUBSET Nat
    OBVIOUS
  <2> HIDE DEF missing
  <2> QED BY <1>3, <2>1, LeastOf
<1>5. m # 0 /\ m \in Nat
  BY <1>1, <1>4
<1>6. m - 1 \in Nat /\ m - 1 \notin missing
  <2>1. m - 1 \in Nat /\ ~(m <= m - 1)
    BY <1>5
  <2> HIDE DEF missing
  <2> QED BY <1>4, <2>1
<1>7. PICK g \in [SUBSET S -> Int] : SumsUpTo(m - 1, f, g, S)
  BY <1>6
<1>8. \E h \in [SUBSET S -> Int] : SumsUpTo((m - 1) + 1, f, h, S)
  BY <1>6, <1>7, SumsUpToNext
<1>9. (m - 1) + 1 = m
  BY <1>5
<1> QED BY <1>4, <1>8, <1>9

\* The recursion has a solution, so the fold is one.
LEMMA SumsSolve ==
  ASSUME NEW S, IsFiniteSet(S), NEW f, \A x \in S : f[x] \in Int
  PROVE  Sums(f, S) = [s \in SUBSET S |-> Adding(f, Sums(f, S), s)]
<1>1. Cardinality(S) \in Nat
  BY FS_CardinalityType
<1>2. PICK g \in [SUBSET S -> Int] : SumsUpTo(Cardinality(S), f, g, S)
  BY <1>1, SumsUpToAny
<1>3. \A s \in SUBSET S : Cardinality(s) <= Cardinality(S)
  BY FS_Subset
<1>4. g = [s \in SUBSET S |-> Adding(f, g, s)]
  BY <1>2, <1>3 DEF SumsUpTo
<1>5. \E h : h = [s \in SUBSET S |-> Adding(f, h, s)]
  BY <1>4
<1> QED BY <1>5, Zenon DEF Sums

-----------------------------------------------------------------------------
(* What a sum depends on *)

\* The fold over S takes a subset as the fold over T does, when f and h agree on it.
LEMMA SumsAgree ==
  ASSUME NEW S, IsFiniteSet(S), NEW f, \A x \in S : f[x] \in Int,
         NEW T, IsFiniteSet(T), NEW h, \A x \in T : h[x] \in Int,
         NEW U \in SUBSET (S \cap T), \A x \in U : f[x] = h[x]
  PROVE  Sums(f, S)[U] = Sums(h, T)[U] /\ Sums(f, S)[U] \in Int
<1> DEFINE good(s) == Sums(f, S)[s] = Sums(h, T)[s] /\ Sums(f, S)[s] \in Int
           sizes == {n \in Nat : \E s \in SUBSET U : Cardinality(s) = n /\ ~good(s)}
<1>1. ASSUME NEW s \in SUBSET U
      PROVE  /\ Sums(f, S)[s] = Adding(f, Sums(f, S), s)
             /\ Sums(h, T)[s] = Adding(h, Sums(h, T), s)
  <2> DEFINE one == [t \in SUBSET S |-> Adding(f, Sums(f, S), t)]
             two == [t \in SUBSET T |-> Adding(h, Sums(h, T), t)]
  <2>1. Sums(f, S) = one /\ Sums(h, T) = two
    BY SumsSolve
  <2>2. one[s] = Adding(f, Sums(f, S), s) /\ two[s] = Adding(h, Sums(h, T), s)
    OBVIOUS
  <2> HIDE DEF one, two
  <2> QED BY <2>1, <2>2
<1>2. ASSUME NEW s \in SUBSET U, s # {}, good(s \ {Pick(s)}) PROVE good(s)
  <2>1. Pick(s) \in U
    BY <1>2 DEF Pick
  <2>2. f[Pick(s)] = h[Pick(s)] /\ f[Pick(s)] \in Int
    BY <2>1
  <2>3. /\ Sums(f, S)[s] = Adding(f, Sums(f, S), s)
        /\ Sums(h, T)[s] = Adding(h, Sums(h, T), s)
    BY <1>1
  <2>4. /\ Sums(f, S)[s] = f[Pick(s)] + Sums(f, S)[s \ {Pick(s)}]
        /\ Sums(h, T)[s] = h[Pick(s)] + Sums(h, T)[s \ {Pick(s)}]
    BY <1>2, <2>3, Zenon DEF Adding
  <2> QED BY <1>2, <2>2, <2>4
<1>3. good({})
  <2>1. /\ Sums(f, S)[{}] = Adding(f, Sums(f, S), {})
        /\ Sums(h, T)[{}] = Adding(h, Sums(h, T), {})
    BY <1>1
  <2>2. Sums(f, S)[{}] = 0 /\ Sums(h, T)[{}] = 0
    BY <2>1, Zenon DEF Adding
  <2> QED BY <2>2
<1>4. IsFiniteSet(U)
  BY FS_Subset
<1>5. ASSUME sizes # {} PROVE FALSE
  <2>1. PICK n \in sizes : \A k \in sizes : n <= k
    <3>1. sizes \in SUBSET Nat
      OBVIOUS
    <3> HIDE DEF sizes
    <3> QED BY <1>5, <3>1, LeastOf
  <2>2. PICK s \in SUBSET U : Cardinality(s) = n /\ ~good(s)
    BY <2>1
  <2>3. s # {}
    BY <1>3, <2>2
  <2>4. s \ {Pick(s)} \in SUBSET U /\ n \in Nat /\ Cardinality(s \ {Pick(s)}) = n - 1
    BY <1>4, <2>2, <2>3, Picked
  <2>5. n - 1 \in Nat /\ ~(n <= n - 1)
    BY <1>4, <2>2, <2>3, <2>4, FS_Subset, FS_EmptySet
  <2>6. n - 1 \notin sizes
    <3> HIDE DEF sizes
    <3> QED BY <2>1, <2>5
  <2>7. good(s \ {Pick(s)})
    <3> HIDE DEF good
    <3> QED BY <2>4, <2>5, <2>6
  <2> QED BY <1>2, <2>2, <2>3, <2>7
<1>6. Cardinality(U) \in Nat
  BY <1>4, FS_CardinalityType
<1>7. good(U)
  <2> HIDE DEF good
  <2> QED BY <1>5, <1>6
<1> QED BY <1>7

\* Nothing is added up to nothing.
LEMMA SumEmpty == ASSUME NEW f PROVE SumOver(f, {}) = 0
<1>1. \A x \in {} : f[x] \in Int
  OBVIOUS
<1> DEFINE step == [t \in SUBSET {} |-> Adding(f, Sums(f, {}), t)]
<1>2. Sums(f, {}) = step
  BY <1>1, SumsSolve, FS_EmptySet
<1>3. step[{}] = 0
  BY DEF Adding
<1> QED BY <1>2, <1>3, SumOverIs

\* A sum of integers is one, and depends on no more than its terms.
LEMMA SumCongruence ==
  ASSUME NEW S, IsFiniteSet(S), NEW f, NEW h,
         \A x \in S : f[x] \in Int /\ f[x] = h[x]
  PROVE  SumOver(f, S) = SumOver(h, S) /\ SumOver(f, S) \in Int
<1>1. S \in SUBSET (S \cap S)
  OBVIOUS
<1> QED BY <1>1, SumsAgree, SumOverIs

LEMMA SumType ==
  ASSUME NEW S, IsFiniteSet(S), NEW f, \A x \in S : f[x] \in Int
  PROVE  SumOver(f, S) \in Int
  BY SumCongruence

\* The element the fold picks is added to the sum of the others.
LEMMA SumPicked ==
  ASSUME NEW S, IsFiniteSet(S), S # {}, NEW f, \A x \in S : f[x] \in Int
  PROVE  SumOver(f, S) = f[Pick(S)] + SumOver(f, S \ {Pick(S)})
<1> DEFINE rest == S \ {Pick(S)}
           step == [t \in SUBSET S |-> Adding(f, Sums(f, S), t)]
<1>1. Sums(f, S) = step
  BY SumsSolve
<1>2. Sums(f, S)[S] = Adding(f, Sums(f, S), S)
  <2>1. step[S] = Adding(f, Sums(f, S), S)
    OBVIOUS
  <2> HIDE DEF step
  <2> QED BY <1>1, <2>1
<1>3. Sums(f, S)[rest] = Sums(f, rest)[rest]
  <2>1. IsFiniteSet(rest) /\ rest \in SUBSET (S \cap rest)
    BY FS_RemoveElement
  <2> HIDE DEF rest
  <2>2. \A x \in rest : f[x] \in Int
    BY <2>1
  <2> QED BY <2>1, <2>2, SumsAgree
<1> QED BY <1>2, <1>3, SumOverIs DEF Adding

-----------------------------------------------------------------------------
(* The order does not matter *)

\* Removing any element of a sum takes its term from it.
LEMMA SumRemove ==
  ASSUME NEW S, IsFiniteSet(S), NEW f, \A y \in S : f[y] \in Int, NEW x \in S
  PROVE  SumOver(f, S) = f[x] + SumOver(f, S \ {x})
<1> DEFINE good(s) == \A y \in s : SumOver(f, s) = f[y] + SumOver(f, s \ {y})
           sizes == {n \in Nat : \E s \in SUBSET S : Cardinality(s) = n /\ ~good(s)}
<1>1. ASSUME NEW s \in SUBSET S, s # {},
             \A t \in SUBSET S : Cardinality(t) = Cardinality(s) - 1 => good(t)
      PROVE  good(s)
  <2> SUFFICES ASSUME NEW y \in s PROVE SumOver(f, s) = f[y] + SumOver(f, s \ {y})
    OBVIOUS
  <2> DEFINE p == Pick(s)
  <2>1. IsFiniteSet(s) /\ p \in s
    BY <1>1, Picked, FS_Subset
  <2>2. \A z \in s : f[z] \in Int
    OBVIOUS
  <2>3. SumOver(f, s) = f[p] + SumOver(f, s \ {p})
    BY <1>1, <2>1, <2>2, SumPicked
  <2>4. CASE y = p
    BY <2>3, <2>4
  <2>5. CASE y # p
    <3>1. ASSUME NEW z \in s
          PROVE  good(s \ {z}) /\ IsFiniteSet((s \ {z}) \ {p}) /\ IsFiniteSet(s \ {z})
      <4>1. Cardinality(s \ {z}) = Cardinality(s) - 1 /\ s \ {z} \in SUBSET S
        BY <2>1, FS_RemoveElement
      <4> HIDE DEF good
      <4> QED BY <1>1, <2>1, <4>1, FS_RemoveElement
    <3>2. SumOver(f, s \ {p}) = f[y] + SumOver(f, (s \ {p}) \ {y})
      <4>1. y \in s \ {p}
        BY <2>5
      <4>2. good(s \ {p})
        BY <2>1, <3>1
      <4> HIDE DEF p
      <4> QED BY <4>1, <4>2
    <3>3. SumOver(f, s \ {y}) = f[p] + SumOver(f, (s \ {y}) \ {p})
      <4>1. p \in s \ {y}
        BY <2>1, <2>5
      <4>2. good(s \ {y})
        BY <3>1
      <4> HIDE DEF p
      <4> QED BY <4>1, <4>2
    <3>4. SumOver(f, (s \ {p}) \ {y}) = SumOver(f, (s \ {y}) \ {p})
      <4>1. (s \ {p}) \ {y} = (s \ {y}) \ {p}
        OBVIOUS
      <4> QED BY <4>1, Zenon
    <3>5. SumOver(f, (s \ {y}) \ {p}) \in Int
      <4>1. \A z \in (s \ {y}) \ {p} : f[z] \in Int
        OBVIOUS
      <4> HIDE DEF p
      <4> QED BY <3>1, <4>1, SumType
    <3>6. f[p] \in Int /\ f[y] \in Int
      BY <2>1, <2>2
    <3> HIDE DEF p
    <3> QED BY <2>3, <3>2, <3>3, <3>4, <3>5, <3>6
  <2> QED BY <2>4, <2>5
<1>2. ASSUME sizes # {} PROVE FALSE
  <2>1. PICK n \in sizes : \A k \in sizes : n <= k
    <3>1. sizes \in SUBSET Nat
      OBVIOUS
    <3> HIDE DEF sizes
    <3> QED BY <1>2, <3>1, LeastOf
  <2>2. PICK s \in SUBSET S : Cardinality(s) = n /\ ~good(s)
    BY <2>1
  <2>3. s # {} /\ n \in Nat
    BY <2>2
  <2>4. ~(n <= n - 1)
    BY <2>3
  <2>5. n - 1 \notin sizes
    <3> HIDE DEF sizes
    <3> QED BY <2>1, <2>4
  <2>6. n - 1 \in Nat
    BY <2>2, <2>3, FS_Subset, FS_EmptySet
  <2>7. \A t \in SUBSET S : Cardinality(t) = n - 1 => good(t)
    <3> HIDE DEF good
    <3> QED BY <2>5, <2>6
  <2> HIDE DEF good
  <2> QED BY <1>1, <2>2, <2>3, <2>7
<1>3. Cardinality(S) \in Nat
  BY FS_CardinalityType
<1>4. good(S)
  <2> HIDE DEF good
  <2> QED BY <1>2, <1>3
<1> QED BY <1>4

\* Adding a new element adds its term.
LEMMA SumAdd ==
  ASSUME NEW S, IsFiniteSet(S), NEW f, NEW x, x \notin S, \A y \in S \cup {x} : f[y] \in Int
  PROVE  SumOver(f, S \cup {x}) = f[x] + SumOver(f, S)
<1>1. IsFiniteSet(S \cup {x}) /\ x \in S \cup {x}
  BY FS_AddElement
<1>2. (S \cup {x}) \ {x} = S
  OBVIOUS
<1> QED BY <1>1, <1>2, SumRemove

LEMMA SumSingleton ==
  ASSUME NEW f, NEW x, f[x] \in Int
  PROVE  SumOver(f, {x}) = f[x]
<1>1. IsFiniteSet({}) /\ x \notin {} /\ {} \cup {x} = {x} /\ SumOver(f, {}) = 0
  BY FS_EmptySet, SumEmpty
<1> QED BY <1>1, SumAdd

\* A part of what is not negative is no more than the whole.
LEMMA SumOfPart ==
  ASSUME NEW S, IsFiniteSet(S), NEW f, \A x \in S : f[x] \in Nat, NEW T \in SUBSET S
  PROVE  SumOver(f, T) <= SumOver(f, S)
<1> DEFINE between == {U \in SUBSET S : T \subseteq U /\ ~(SumOver(f, T) <= SumOver(f, U))}
           sizes == {n \in Nat : \E U \in between : Cardinality(U) = n}
<1>1. ASSUME NEW U \in SUBSET S
      PROVE  IsFiniteSet(U) /\ Cardinality(U) \in Nat /\ SumOver(f, U) \in Int
  BY FS_Subset, FS_CardinalityType, SumType
<1>2. ASSUME sizes # {} PROVE FALSE
  <2>1. PICK n \in sizes : \A k \in sizes : n <= k
    <3>1. sizes \in SUBSET Nat
      OBVIOUS
    <3> HIDE DEF sizes
    <3> QED BY <1>2, <3>1, LeastOf
  <2>2. PICK U \in between : Cardinality(U) = n
    BY <2>1
  <2>3. T # U /\ n \in Nat
    BY <1>1, <2>2
  <2>4. PICK x \in U : x \notin T
    BY <2>2, <2>3
  <2>5. SumOver(f, U) = f[x] + SumOver(f, U \ {x})
    BY <1>1, SumRemove
  <2>6. U \ {x} \in SUBSET S /\ T \subseteq U \ {x} /\ f[x] \in Nat
    BY <2>4
  <2>7. ~(SumOver(f, T) <= SumOver(f, U \ {x}))
    <3>1. SumOver(f, T) \in Int /\ SumOver(f, U) \in Int /\ SumOver(f, U \ {x}) \in Int
      BY <1>1, <2>6
    <3> QED BY <2>2, <2>5, <2>6, <3>1
  <2>8. Cardinality(U \ {x}) = n - 1 /\ n - 1 \in Nat
    <3>1. U \in SUBSET S
      OBVIOUS
    <3>2. Cardinality(U \ {x}) = Cardinality(U) - 1 /\ Cardinality(U \ {x}) \in Nat
      BY <1>1, <2>4, <2>6, <3>1, FS_RemoveElement
    <3> QED BY <2>2, <3>2
  <2>9. n - 1 \in sizes
    <3>1. U \ {x} \in between
      BY <2>6, <2>7
    <3> HIDE DEF between
    <3> QED BY <2>8, <3>1
  <2>10. ~(n <= n - 1)
    BY <2>3
  <2> HIDE DEF sizes
  <2> QED BY <2>1, <2>9, <2>10
<1>3. S \notin between
  <2>1. Cardinality(S) \in Nat
    BY FS_CardinalityType
  <2> HIDE DEF between
  <2> QED BY <1>2, <2>1
<1> QED BY <1>3
=============================================================================
