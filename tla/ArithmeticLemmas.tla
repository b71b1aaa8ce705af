------------------------ MODULE ArithmeticLemmas ------------------------
(***************************************************************************)
(* What the proofs of this project need of arithmetic and the library does *)
(* not state in a form the provers can use: induction, sums over finite    *)
(* sets, powers of two and division.                                       *)
(*                                                                         *)
(* Induction is first-order here: the fact is membership in a set T, which *)
(* every use of it defines.                                                *)
(***************************************************************************)
EXTENDS Integers, FiniteSets, FiniteSetTheorems, Functions, WellFoundedInduction, TLAPS

-----------------------------------------------------------------------------
(* Induction. *)

LEMMA NatMinimum ==
    ASSUME NEW S \in SUBSET Nat, S # {}
    PROVE  \E i \in S : \A j \in S : i <= j
<1>1. PICK i \in S : \A j \in S : ~(<<j, i>> \in OpToRel(<, Nat))
  BY WFMin, NatLessThanWellFounded
<1>2. \A j \in S : ~(j < i)
  BY <1>1 DEF OpToRel
<1> QED BY <1>2

\* Induction over the subsets of a finite set: T holds those for which a fact is
\* known.
LEMMA SubsetInduction ==
    ASSUME NEW S, IsFiniteSet(S), NEW T,
           \A U \in SUBSET S : (\A x \in U : U \ {x} \in T) => U \in T
    PROVE  SUBSET S \subseteq T
<1> DEFINE Left == {U \in SUBSET S : U \notin T}
           Sizes == {Cardinality(U) : U \in Left}
<1> SUFFICES ASSUME Left # {} PROVE FALSE
  OBVIOUS
<1>1. \A U \in SUBSET S : IsFiniteSet(U) /\ Cardinality(U) \in Nat
  BY FS_Subset, FS_CardinalityType
<1>2. Sizes \in SUBSET Nat /\ Sizes # {}
  BY <1>1
<1>3. PICK n \in Sizes : \A m \in Sizes : n <= m
  BY <1>2, NatMinimum
<1>4. PICK U \in Left : Cardinality(U) = n
  OBVIOUS
<1>5. ASSUME NEW x \in U PROVE U \ {x} \in T
  <2>1. Cardinality(U \ {x}) = n - 1 /\ U \ {x} \in SUBSET S
    BY <1>1, <1>4, FS_RemoveElement
  <2>2. n \in Nat /\ ~(n <= n - 1)
    BY <1>2, <1>3
  <2>3. n - 1 \notin Sizes
    BY <1>3, <2>2
  <2> QED BY <2>1, <2>3
<1> QED BY <1>5

\* Induction over the natural numbers.
LEMMA NatInductive ==
    ASSUME NEW T, 0 \in T, \A n \in Nat : n \in T => n + 1 \in T
    PROVE  Nat \subseteq T
<1> DEFINE Left == {n \in Nat : n \notin T}
<1> SUFFICES ASSUME Left # {} PROVE FALSE
  OBVIOUS
<1>1. PICK n \in Left : \A m \in Left : n <= m
  BY NatMinimum
<1>2. n - 1 \in Nat /\ ~(n <= n - 1) /\ (n - 1) + 1 = n
  BY <1>1
<1>3. n - 1 \in T
  BY <1>1, <1>2
<1> QED BY <1>1, <1>2, <1>3

-----------------------------------------------------------------------------
(* Sums. *)

\* The sums over the subsets of S, of which MapThenSumSet takes that over S.
Sums(f, S) ==
    CHOOSE sum : sum = [U \in SUBSET S |->
        IF U = {} THEN 0
        ELSE LET c == CHOOSE c \in U : TRUE IN f[c] + sum[U \ {c}]]

SomeElement(U) == CHOOSE c \in U : TRUE

SumOver(f, S) == Sums(f, S)[S]

\* The recursion of the sums ends, since a finite set is never without end.
LEMMA SumsDefined ==
    ASSUME NEW f, NEW S, IsFiniteSet(S)
    PROVE  /\ Sums(f, S)[{}] = 0
           /\ \A U \in SUBSET S :
                U # {} => Sums(f, S)[U] = f[SomeElement(U)] + Sums(f, S)[U \ {SomeElement(U)}]
<1> DEFINE Sum(g, U) == IF U = {} THEN 0 ELSE f[SomeElement(U)] + g[U \ {SomeElement(U)}]
           Sub(n) == {U \in SUBSET S : Cardinality(U) <= n}
           T == {n \in Nat : \E g : g = [U \in Sub(n) |-> Sum(g, U)]}
<1>1. \A U \in SUBSET S : IsFiniteSet(U) /\ Cardinality(U) \in Nat
  BY FS_Subset, FS_CardinalityType
<1>2. ASSUME NEW n \in Nat, NEW U \in Sub(n + 1), U # {}
      PROVE  U \ {SomeElement(U)} \in Sub(n)
  <2>1. SomeElement(U) \in U
    BY <1>2 DEF SomeElement
  <2>2. Cardinality(U \ {SomeElement(U)}) = Cardinality(U) - 1
    BY <1>1, <2>1, FS_RemoveElement
  <2> QED BY <1>1, <2>2
<1>3. 0 \in T
  <2> DEFINE g == [U \in Sub(0) |-> 0]
  <2>1. \A U \in Sub(0) : U = {}
    BY <1>1, FS_EmptySet
  <2>2. \A U \in Sub(0) : g[U] = Sum(g, U)
    BY <2>1
  <2>3. g = [U \in Sub(0) |-> Sum(g, U)]
    BY <2>2
  <2> QED BY <2>3
<1>4. ASSUME NEW n \in Nat, n \in T PROVE n + 1 \in T
  <2>1. PICK g : g = [U \in Sub(n) |-> Sum(g, U)]
    BY <1>4
  <2> DEFINE h == [U \in Sub(n + 1) |-> Sum(g, U)]
  <2>2. \A U \in Sub(n) : U \in Sub(n + 1)
    BY <1>1
  <2>3. \A U \in Sub(n) : g[U] = h[U]
    BY <2>1, <2>2
  <2>4. \A U \in Sub(n + 1) : Sum(g, U) = Sum(h, U)
    BY <1>2, <2>3
  <2>5. h = [U \in Sub(n + 1) |-> Sum(h, U)]
    BY <2>4
  <2>6. n + 1 \in Nat
    OBVIOUS
  <2> HIDE DEF h
  <2> QED BY <2>5, <2>6
<1>5. Nat \subseteq T
  <2> HIDE DEF T
  <2> QED BY <1>3, <1>4, NatInductive
<1>6. Cardinality(S) \in T /\ Sub(Cardinality(S)) = SUBSET S
  BY <1>1, <1>5, FS_Subset, FS_CardinalityType
<1>7. \E g : g = [U \in SUBSET S |-> Sum(g, U)]
  BY <1>6
<1>8. Sums(f, S) = [U \in SUBSET S |-> Sum(Sums(f, S), U)]
  BY <1>7 DEF Sums, SomeElement
<1> QED BY <1>8

\* The summands are integers.
Summable(f, S) == \A c \in S : f[c] \in Int

\* Any element of a set may be the next summand.
Splits(f, S) ==
    \A U \in SUBSET S :
       /\ Sums(f, S)[U] \in Int
       /\ \A c \in U : Sums(f, S)[U] = f[c] + Sums(f, S)[U \ {c}]

\* A sum does not depend on the order in which its summands are taken.
LEMMA SumsSplit ==
    ASSUME NEW S, IsFiniteSet(S), NEW f, Summable(f, S)
    PROVE  Splits(f, S)
<1> USE DEF Summable
<1> DEFINE sum == Sums(f, S)
           Split(U) == sum[U] \in Int /\ \A c \in U : sum[U] = f[c] + sum[U \ {c}]
           T == {U \in SUBSET S : \A V \in SUBSET U : Split(V)}
<1>1. sum[{}] = 0
  BY SumsDefined
<1>2. \A U \in SUBSET S : U # {} => SomeElement(U) \in U /\ sum[U] = f[SomeElement(U)] + sum[U \ {SomeElement(U)}]
  <2> HIDE DEF Split, T
  <2>1. ASSUME NEW U \in SUBSET S, U # {} PROVE sum[U] = f[SomeElement(U)] + sum[U \ {SomeElement(U)}]
    BY <2>1, SumsDefined DEF SomeElement
  <2>2. \A U \in SUBSET S : U # {} => SomeElement(U) \in U
    BY DEF SomeElement
  <2> QED BY <2>1, <2>2
<1> HIDE DEF sum
<1>4. ASSUME NEW U \in SUBSET S, \A V \in SUBSET U : V # U => Split(V)
      PROVE  Split(U)
  <2>1. CASE U = {}
    BY <1>1, <2>1
  <2>2. CASE U # {}
    <3> DEFINE d == SomeElement(U)
    <3>1. d \in U /\ sum[U] = f[d] + sum[U \ {d}] /\ f[d] \in Int /\ sum[U \ {d}] \in Int
      BY <1>2, <1>4, <2>2
    <3> HIDE DEF d
    <3>2. ASSUME NEW c \in U, c # d PROVE sum[U] = f[c] + sum[U \ {c}]
      <4>1. sum[U \ {d}] = f[c] + sum[(U \ {d}) \ {c}]
        BY <1>4, <3>1, <3>2
      <4>2. sum[U \ {c}] = f[d] + sum[(U \ {c}) \ {d}]
        BY <1>4, <3>1, <3>2
      <4>3. (U \ {d}) \ {c} = (U \ {c}) \ {d}
        OBVIOUS
      <4>4. f[c] \in Int /\ sum[(U \ {d}) \ {c}] \in Int
        BY <1>4, <3>1
      <4> DEFINE rest == sum[(U \ {d}) \ {c}]
      <4>5. sum[U \ {d}] = f[c] + rest /\ sum[U \ {c}] = f[d] + rest /\ rest \in Int
        BY <4>1, <4>2, <4>3, <4>4
      <4> HIDE DEF rest
      <4> QED BY <3>1, <4>4, <4>5
    <3>3. \A c \in U : sum[U] = f[c] + sum[U \ {c}]
      BY <3>1, <3>2
    <3> QED BY <3>1, <3>3
  <2> QED BY <2>1, <2>2
<1> HIDE DEF Split
<1>5. ASSUME NEW U \in SUBSET S, \A y \in U : U \ {y} \in T PROVE U \in T
  <2>1. ASSUME NEW V \in SUBSET U, V # U PROVE Split(V)
    <3>1. PICK y \in U : V \in SUBSET (U \ {y})
      BY <2>1
    <3> QED BY <1>5, <3>1
  <2>2. Split(U)
    BY <1>4, <2>1
  <2> QED BY <2>1, <2>2
<1> HIDE DEF T
<1>6. SUBSET S \subseteq T
  BY <1>5, SubsetInduction
<1> QED BY <1>6 DEF T, Split, sum, Splits

SameOn(f, h, W) == \A c \in W : f[c] = h[c]

\* Sums of the same numbers are the same.
LEMMA SumsAgree ==
    ASSUME NEW S, IsFiniteSet(S), NEW f, Summable(f, S),
           NEW R, IsFiniteSet(R), NEW h, Summable(h, R),
           NEW W \in SUBSET S, W \in SUBSET R, SameOn(f, h, W)
    PROVE  Sums(f, S)[W] = Sums(h, R)[W]
<1> DEFINE p == Sums(f, S)
           q == Sums(h, R)
           T == {U \in SUBSET W : p[U] = q[U]}
<1>1. IsFiniteSet(W)
  BY FS_Subset
<1>2. p[{}] = 0 /\ q[{}] = 0
  BY SumsDefined
<1>3. \A U \in SUBSET W : \A c \in U : p[U] = f[c] + p[U \ {c}] /\ q[U] = h[c] + q[U \ {c}]
  <2>1. Splits(f, S) /\ Splits(h, R)
    BY SumsSplit
  <2> QED BY <2>1 DEF Splits
<1> HIDE DEF p, q
<1>4. ASSUME NEW U \in SUBSET W, \A x \in U : U \ {x} \in T PROVE U \in T
  <2>1. CASE U = {}
    BY <1>2, <2>1
  <2>2. CASE U # {}
    <3>1. PICK x \in U : TRUE
      BY <2>2
    <3>2. p[U] = f[x] + p[U \ {x}] /\ q[U] = h[x] + q[U \ {x}]
      BY <1>3, <3>1
    <3>3. f[x] = h[x] /\ p[U \ {x}] = q[U \ {x}]
      BY <1>4, <3>1 DEF SameOn
    <3> QED BY <3>2, <3>3
  <2> QED BY <2>1, <2>2
<1>5. SUBSET W \subseteq T
  <2> HIDE DEF T
  <2> QED BY <1>1, <1>4, SubsetInduction
<1> QED BY <1>5 DEF p, q

\* The three facts that determine a sum.
LEMMA SumOfNothing == ASSUME NEW f PROVE SumOver(f, {}) = 0
BY SumsDefined, FS_EmptySet DEF SumOver

LEMMA SumSplit ==
    ASSUME NEW S, IsFiniteSet(S), NEW f, Summable(f, S), NEW c \in S
    PROVE  /\ SumOver(f, S \ {c}) \in Int
           /\ SumOver(f, S) = f[c] + SumOver(f, S \ {c})
<1> DEFINE R == S \ {c}
<1>1. IsFiniteSet(R) /\ Summable(f, R) /\ SameOn(f, f, R)
  BY FS_RemoveElement DEF Summable, SameOn
<1>2. R \in SUBSET S /\ R \in SUBSET R /\ S \in SUBSET S
  OBVIOUS
<1>3. Splits(f, S)
  BY SumsSplit
<1>4. Sums(f, S)[S] = f[c] + Sums(f, S)[R] /\ Sums(f, S)[R] \in Int
  BY <1>2, <1>3 DEF Splits
<1> HIDE DEF R
<1>5. Sums(f, S)[R] = Sums(f, R)[R]
  BY <1>1, <1>2, SumsAgree
<1> QED BY <1>4, <1>5 DEF SumOver, R

LEMMA SumsOfSame ==
    ASSUME NEW S, IsFiniteSet(S), NEW f, Summable(f, S), NEW h, Summable(h, S), SameOn(f, h, S)
    PROVE  SumOver(f, S) = SumOver(h, S)
<1>1. S \in SUBSET S
  OBVIOUS
<1> QED BY <1>1, SumsAgree DEF SumOver

LEMMA SumType ==
    ASSUME NEW S, IsFiniteSet(S), NEW f \in [S -> Int] PROVE SumOver(f, S) \in Int
<1>1. Splits(f, S)
  BY SumsSplit DEF Summable
<1> QED BY <1>1 DEF Splits, SumOver

LEMMA SumOfZeros ==
    ASSUME NEW S, IsFiniteSet(S), NEW f, \A c \in S : f[c] = 0 PROVE SumOver(f, S) = 0
<1> DEFINE p == Sums(f, S)
           T == {U \in SUBSET S : p[U] = 0}
<1>1. p[{}] = 0
  BY SumsDefined
<1>2. \A U \in SUBSET S : \A c \in U : p[U] = f[c] + p[U \ {c}]
  <2>1. Splits(f, S)
    BY SumsSplit DEF Summable
  <2> QED BY <2>1 DEF Splits
<1> HIDE DEF p
<1>3. ASSUME NEW U \in SUBSET S, \A x \in U : U \ {x} \in T PROVE U \in T
  <2>1. CASE U = {}
    BY <1>1, <2>1
  <2>2. CASE U # {}
    <3>1. PICK x \in U : TRUE
      BY <2>2
    <3>2. p[U] = f[x] + p[U \ {x}] /\ f[x] = 0 /\ p[U \ {x}] = 0
      BY <1>2, <1>3, <3>1
    <3> QED BY <3>2
  <2> QED BY <2>1, <2>2
<1>4. SUBSET S \subseteq T
  <2> HIDE DEF T
  <2> QED BY <1>3, SubsetInduction
<1> QED BY <1>4 DEF p, SumOver

\* One summand grows, and the sum with it.
LEMMA SumGrows ==
    ASSUME NEW S, IsFiniteSet(S), NEW f \in [S -> Int], NEW c \in S, NEW n \in Int,
           NEW h, h = [f EXCEPT ![c] = @ + n]
    PROVE  SumOver(h, S) = SumOver(f, S) + n
<1>1. /\ Summable(f, S) /\ Summable(h, S) /\ f[c] \in Int
      /\ h[c] = f[c] + n /\ \A d \in S \ {c} : f[d] = h[d]
  BY DEF Summable
<1> DEFINE rest == S \ {c}
<1>2. /\ Sums(f, S)[S] = f[c] + Sums(f, S)[rest] /\ Sums(h, S)[S] = h[c] + Sums(h, S)[rest]
      /\ Sums(f, S)[rest] \in Int
  <2>1. Splits(f, S) /\ Splits(h, S)
    BY <1>1, SumsSplit
  <2> QED BY <2>1 DEF Splits
<1>3. Sums(f, S)[rest] = Sums(h, S)[rest]
  <2>1. rest \in SUBSET S /\ SameOn(f, h, rest)
    BY <1>1 DEF SameOn
  <2> HIDE DEF rest
  <2> QED BY <1>1, <2>1, SumsAgree
<1> QED BY <1>1, <1>2, <1>3 DEF SumOver

\* Sums of natural numbers, and of numbers that differ by no more than w.
LEMMA SumIsNat ==
    ASSUME NEW S, IsFiniteSet(S), NEW f, \A c \in S : f[c] \in Nat
    PROVE  SumOver(f, S) \in Nat
<1> DEFINE T == {U \in SUBSET S : SumOver(f, U) \in Nat}
<1>1. ASSUME NEW U \in SUBSET S, \A x \in U : U \ {x} \in T PROVE U \in T
  <2>1. CASE U = {}
    BY <2>1, SumOfNothing
  <2>2. CASE U # {}
    <3>1. PICK x \in U : TRUE
      BY <2>2
    <3>2. IsFiniteSet(U) /\ Summable(f, U)
      BY FS_Subset DEF Summable
    <3>3. SumOver(f, U) = f[x] + SumOver(f, U \ {x})
      BY <3>2, SumSplit
    <3>4. f[x] \in Nat /\ SumOver(f, U \ {x}) \in Nat
      BY <1>1
    <3> QED BY <3>3, <3>4
  <2> QED BY <2>1, <2>2
<1>2. SUBSET S \subseteq T
  <2> HIDE DEF T
  <2> QED BY <1>1, SubsetInduction
<1> QED BY <1>2

LEMMA SumBounded ==
    ASSUME NEW S, IsFiniteSet(S), NEW f, Summable(f, S), NEW h, Summable(h, S),
           NEW w \in Int, \A c \in S : h[c] <= f[c] + w
    PROVE  SumOver(h, S) <= SumOver(f, S) + Cardinality(S) * w
<1> DEFINE T == {U \in SUBSET S : SumOver(h, U) <= SumOver(f, U) + Cardinality(U) * w}
<1>1. ASSUME NEW U \in SUBSET S, \A x \in U : U \ {x} \in T PROVE U \in T
  <2>1. CASE U = {}
    <3>1. Cardinality(U) = 0 /\ SumOver(h, U) = 0 /\ SumOver(f, U) = 0
      BY <2>1, SumOfNothing, FS_EmptySet
    <3> QED BY <3>1
  <2>2. CASE U # {}
    <3>1. PICK x \in U : TRUE
      BY <2>2
    <3> DEFINE R == U \ {x}
               k == Cardinality(R)
    <3>2. IsFiniteSet(U) /\ Summable(f, U) /\ Summable(h, U)
      BY FS_Subset DEF Summable
    <3>3. /\ SumOver(f, U) = f[x] + SumOver(f, R) /\ SumOver(f, R) \in Int
          /\ SumOver(h, U) = h[x] + SumOver(h, R) /\ SumOver(h, R) \in Int
      BY <3>2, SumSplit
    <3>4. f[x] \in Int /\ h[x] \in Int /\ h[x] <= f[x] + w
      BY DEF Summable
    <3>5. IsFiniteSet(R) /\ Cardinality(R) = Cardinality(U) - 1
      BY <3>1, <3>2, FS_RemoveElement
    <3>6. Cardinality(U) = k + 1 /\ k \in Int
      BY <3>2, <3>5, FS_CardinalityType
    <3>7. SumOver(h, R) <= SumOver(f, R) + k * w
      BY <1>1
    <3> HIDE DEF R, k
    <3>8. (k + 1) * w = k * w + w /\ k * w \in Int
      BY <3>6
    <3>9. SumOver(h, U) <= SumOver(f, U) + Cardinality(U) * w
      BY <3>3, <3>4, <3>6, <3>7, <3>8
    <3> QED BY <3>9
  <2> QED BY <2>1, <2>2
<1>2. SUBSET S \subseteq T
  <2> HIDE DEF T
  <2> QED BY <1>1, SubsetInduction
<1> QED BY <1>2

\* The sum over an interval, from either end.
LastOf(n) ==
    n + 1 \in 1..(n + 1) /\ (1..(n + 1)) \ {n + 1} = 1..n /\ IsFiniteSet(1..(n + 1))

LEMMA IntervalLast == ASSUME NEW n \in Nat PROVE LastOf(n)
<1>1. n + 1 \in 1..(n + 1) /\ (1..(n + 1)) \ {n + 1} = 1..n
  OBVIOUS
<1>2. IsFiniteSet(1..(n + 1))
  <2>1. 1 \in Int /\ n + 1 \in Int
    OBVIOUS
  <2> QED BY <2>1, FS_Interval
<1> QED BY <1>1, <1>2 DEF LastOf

LEMMA SumLast ==
    ASSUME NEW n \in Nat, NEW f, Summable(f, 1..(n + 1))
    PROVE  SumOver(f, 1..(n + 1)) = f[n + 1] + SumOver(f, 1..n)
<1>1. LastOf(n)
  BY IntervalLast
<1> QED BY <1>1, SumSplit DEF LastOf

\* The numbers of h are those of f behind the first.
Shifted(f, h, n) == Summable(f, 1..(n + 1)) /\ \A i \in 1..n : h[i] = f[i + 1]

LEMMA SumFirst ==
    ASSUME NEW n \in Nat, NEW f, NEW h, Shifted(f, h, n)
    PROVE  SumOver(f, 1..(n + 1)) = f[1] + SumOver(h, 1..n)
<1> DEFINE T == {k \in Nat : k <= n => SumOver(f, 1..(k + 1)) = f[1] + SumOver(h, 1..k)}
<1>1. /\ \A i \in 1..(n + 1) : f[i] \in Int
      /\ \A i \in 1..n : h[i] = f[i + 1] /\ i + 1 \in 1..(n + 1)
  BY DEF Shifted, Summable
<1>2. 0 \in T
  <2>1. 1..0 = {} /\ 0 + 1 = 1 /\ 0 \in Nat
    OBVIOUS
  <2>2. Summable(f, 1..(0 + 1))
    BY <1>1 DEF Summable
  <2>3. SumOver(f, 1..(0 + 1)) = f[0 + 1] + SumOver(f, 1..0)
    BY <2>1, <2>2, SumLast
  <2>4. SumOver(f, 1..0) = 0 /\ SumOver(h, 1..0) = 0
    BY <2>1, SumOfNothing
  <2> QED BY <2>1, <2>3, <2>4
<1>3. ASSUME NEW k \in Nat, k \in T PROVE k + 1 \in T
  <2> SUFFICES ASSUME k + 1 <= n
               PROVE  SumOver(f, 1..((k + 1) + 1)) = f[1] + SumOver(h, 1..(k + 1))
    OBVIOUS
  <2> DEFINE m == k + 1
  <2>1. m \in Nat /\ m <= n /\ k <= n /\ m \in 1..n /\ m + 1 \in 1..(n + 1)
    OBVIOUS
  <2>2. Summable(f, 1..(m + 1)) /\ Summable(h, 1..(k + 1))
    BY <1>1, <2>1 DEF Summable
  <2>3. SumOver(f, 1..m) = f[1] + SumOver(h, 1..k)
    BY <1>3, <2>1
  <2>4. SumOver(h, 1..(k + 1)) = h[k + 1] + SumOver(h, 1..k)
    BY <2>2, SumLast
  <2> HIDE DEF m
  <2>5. SumOver(f, 1..(m + 1)) = f[m + 1] + SumOver(f, 1..m)
    BY <2>1, <2>2, SumLast
  <2>6. h[m] = f[m + 1] /\ f[m + 1] \in Int /\ f[1] \in Int
    BY <1>1, <2>1
  <2>7. SumOver(h, 1..k) \in Int
    <3>1. LastOf(k)
      BY IntervalLast
    <3> QED BY <2>2, <3>1, SumSplit DEF LastOf
  <2>8. SumOver(h, 1..m) = h[m] + SumOver(h, 1..k)
    BY <2>4 DEF m
  <2>9. SumOver(f, 1..(m + 1)) = f[1] + SumOver(h, 1..m)
    BY <2>3, <2>5, <2>6, <2>7, <2>8
  <2> QED BY <2>9 DEF m
<1>4. Nat \subseteq T
  <2> HIDE DEF T
  <2> QED BY <1>2, <1>3, NatInductive
<1> QED BY <1>4

-----------------------------------------------------------------------------
(* Powers of two. *)

\* There are 2^n subsets of n elements, and as many again that have one more.
LEMMA SubsetsCounted ==
    ASSUME NEW n \in Nat
    PROVE  /\ IsFiniteSet(SUBSET (1..n))
           /\ Cardinality(SUBSET (1..n)) = 2^n
           /\ 2^n \in Nat \ {0}
<1>1. IsFiniteSet(1..n) /\ Cardinality(1..n) = n
  <2>1. 1 \in Int /\ n \in Int /\ (IF 1 > n THEN 0 ELSE n - 1 + 1) = n
    OBVIOUS
  <2> QED BY <2>1, FS_Interval
<1>2. IsFiniteSet(SUBSET (1..n)) /\ Cardinality(SUBSET (1..n)) = 2^n
  BY <1>1, FS_SUBSET
<1>3. Cardinality(SUBSET (1..n)) \in Nat
  BY <1>2, FS_CardinalityType
<1>4. Cardinality(SUBSET (1..n)) # 0
  BY <1>2, FS_EmptySet
<1> QED BY <1>2, <1>3, <1>4

LEMMA PowerStep ==
    ASSUME NEW n \in Nat
    PROVE  2^(n + 1) = 2 * 2^n
<1> DEFINE Old == SUBSET (1..n)
           With(U) == U \cup {n + 1}
           New == {With(U) : U \in Old}
<1>1. n + 1 \in Nat /\ n + 1 \notin 1..n /\ 1..(n + 1) = 1..n \cup {n + 1}
  OBVIOUS
<1>2. SUBSET (1..(n + 1)) = Old \cup New
  <2>1. ASSUME NEW U \in SUBSET (1..(n + 1)) PROVE U \in Old \cup New
    <3>1. CASE n + 1 \in U
      <4>1. U \ {n + 1} \in Old /\ U = With(U \ {n + 1})
        BY <1>1, <3>1
      <4> QED BY <4>1
    <3>2. CASE n + 1 \notin U
      BY <1>1, <3>2
    <3> QED BY <3>1, <3>2
  <2>2. \A U \in Old \cup New : U \in SUBSET (1..(n + 1))
    BY <1>1
  <2> QED BY <2>1, <2>2
<1>3. Old \cap New = {}
  BY <1>1
<1>4. IsFiniteSet(New) /\ Cardinality(New) = Cardinality(Old)
  <2> DEFINE f == [U \in Old |-> With(U)]
  <2>1. \A U, V \in Old : With(U) = With(V) => U = V
    BY <1>1
  <2> HIDE DEF With
  <2>2. f \in Bijection(Old, New)
    BY <2>1 DEF Bijection, Injection, IsInjective, Surjection
  <2>3. ExistsBijection(Old, New)
    BY <2>2 DEF ExistsBijection
  <2> QED BY <2>3, SubsetsCounted, FS_Bijection
<1>5. Cardinality(Old) = 2^n /\ 2^n \in Nat /\ IsFiniteSet(Old)
  BY SubsetsCounted
<1>6. Cardinality(SUBSET (1..(n + 1))) = 2^(n + 1)
  BY <1>1, SubsetsCounted
<1> HIDE DEF Old, New
<1>7. Cardinality(Old \cup New) = 2^n + 2^n - Cardinality(Old \cap New)
  BY <1>4, <1>5, FS_Union
<1>8. Cardinality(Old \cap New) = 0
  BY <1>3, FS_EmptySet
<1>9. 2^(n + 1) = 2^n + 2^n - 0
  BY <1>2, <1>6, <1>7, <1>8
<1> QED BY <1>5, <1>9

LEMMA PowerType == \A n \in Nat : 2^n \in Nat \ {0}
BY SubsetsCounted

LEMMA PowerSum == \A m, n \in Nat : 2^(m + n) = 2^m * 2^n
<1> SUFFICES ASSUME NEW m \in Nat PROVE \A n \in Nat : 2^(m + n) = 2^m * 2^n
  OBVIOUS
<1> DEFINE T == {n \in Nat : 2^(m + n) = 2^m * 2^n}
<1>1. 2^m \in Nat
  BY PowerType
<1>2. 0 \in T
  <2>1. m + 0 = m /\ 2^0 = 1
    OBVIOUS
  <2>2. 2^m = 2^m * 1
    BY <1>1
  <2> QED BY <2>1, <2>2
<1>3. ASSUME NEW n \in Nat, n \in T PROVE n + 1 \in T
  <2>1. m + n \in Nat /\ m + (n + 1) = (m + n) + 1 /\ n + 1 \in Nat
    OBVIOUS
  <2>2. 2^(m + (n + 1)) = 2 * 2^(m + n) /\ 2^(n + 1) = 2 * 2^n
    BY <2>1, PowerStep
  <2>3. 2^(m + n) = 2^m * 2^n
    BY <1>3
  <2>4. 2^n \in Nat
    BY PowerType
  <2>5. \A a, b \in Nat : 2 * (a * b) = a * (2 * b)
    OBVIOUS
  <2>6. 2^(m + (n + 1)) = 2^m * 2^(n + 1)
    BY <1>1, <2>2, <2>3, <2>4, <2>5
  <2> QED BY <2>1, <2>6
<1>4. Nat \subseteq T
  <2> HIDE DEF T
  <2> QED BY <1>2, <1>3, NatInductive
<1> QED BY <1>4

LEMMA PowerGrows == \A m, n \in Nat : m <= n => 2^m <= 2^n
<1> SUFFICES ASSUME NEW m \in Nat, NEW n \in Nat, m <= n PROVE 2^m <= 2^n
  OBVIOUS
<1>1. n - m \in Nat /\ m + (n - m) = n
  OBVIOUS
<1>2. 2^n = 2^m * 2^(n - m)
  BY <1>1, PowerSum
<1>3. 2^m \in Nat \ {0} /\ 2^(n - m) \in Nat \ {0}
  BY <1>1, PowerType
<1>4. \A a, b \in Nat \ {0} : a <= a * b
  OBVIOUS
<1> QED BY <1>2, <1>3, <1>4

LEMMA PowerIsGreater == \A n \in Nat : n < 2^n
<1> DEFINE T == {n \in Nat : n < 2^n}
<1>1. 0 \in T
  <2>1. 2^0 = 1
    OBVIOUS
  <2> QED BY <2>1
<1>2. ASSUME NEW n \in Nat, n \in T PROVE n + 1 \in T
  <2>1. 2^(n + 1) = 2 * 2^n /\ 2^n \in Nat /\ n < 2^n
    BY <1>2, PowerStep, PowerType
  <2> QED BY <2>1
<1>3. Nat \subseteq T
  <2> HIDE DEF T
  <2> QED BY <1>1, <1>2, NatInductive
<1> QED BY <1>3

-----------------------------------------------------------------------------
(* Division. *)

LEMMA Quotient ==
    ASSUME NEW a \in Int, NEW d \in Nat \ {0}
    PROVE  /\ a \div d \in Int
           /\ a % d \in 0..(d - 1)
           /\ a = d * (a \div d) + (a % d)
<1>1. a \div d \in Int
  OBVIOUS
<1>2. a % d \in Int /\ 0 <= a % d /\ a % d < d
  OBVIOUS
<1>3. a = d * (a \div d) + (a % d)
  OBVIOUS
<1> QED BY <1>1, <1>2, <1>3

LEMMA QuotientUnique ==
    ASSUME NEW a \in Int, NEW d \in Nat \ {0}, NEW q \in Int, NEW r \in 0..(d - 1),
           a = d * q + r
    PROVE  a \div d = q /\ a % d = r
OBVIOUS

LEMMA QuotientOfQuotient ==
    ASSUME NEW a \in Int, NEW d \in Nat \ {0}, NEW e \in Nat \ {0}
    PROVE  a \div (d * e) = (a \div d) \div e
<1> DEFINE x == a \div d
           r == a % d
           y == x \div e
           s == x % e
<1>1. x \in Int /\ r \in 0..(d - 1) /\ a = d * x + r
  BY Quotient
<1>2. y \in Int /\ s \in 0..(e - 1) /\ x = e * y + s
  BY <1>1, Quotient
<1> HIDE DEF x, r, y, s
<1>3. d * e \in Nat \ {0}
  OBVIOUS
<1>4. a = (d * e) * y + (d * s + r)
  <2>1. \A k \in Int : d * (e * y + k) = (d * e) * y + d * k
    BY <1>2
  <2>2. d * x = (d * e) * y + d * s
    BY <1>2, <2>1
  <2> QED BY <1>1, <1>2, <2>2
<1>5. d * s + r \in 0..(d * e - 1)
  <2>1. \A k \in 0..(e - 1) : d * k <= d * (e - 1) /\ d * k \in Nat
    OBVIOUS
  <2>2. d * (e - 1) = d * e - d
    OBVIOUS
  <2> QED BY <1>1, <1>2, <2>1, <2>2, <1>3
<1>6. a \div (d * e) = y
  BY <1>2, <1>3, <1>4, <1>5, QuotientUnique
<1> QED BY <1>6 DEF x, y

\* What is added in multiples of the divisor is added to the quotient.
LEMMA QuotientOfSum ==
    ASSUME NEW a \in Int, NEW d \in Nat \ {0}, NEW k \in Int
    PROVE  /\ (a + d * k) \div d = a \div d + k
           /\ (a + d * k) % d = a % d
<1> DEFINE q == a \div d
           r == a % d
<1>1. q \in Int /\ r \in 0..(d - 1) /\ a = d * q + r
  BY Quotient
<1> HIDE DEF q, r
<1>2. d * (q + k) = d * q + d * k
  BY <1>1
<1>3. a + d * k = d * (q + k) + r /\ a + d * k \in Int /\ q + k \in Int
  BY <1>1, <1>2
<1> QED BY <1>1, <1>3, QuotientUnique DEF q, r
=========================================================================
