----------------------------- MODULE FiniteLemmas -----------------------------
(***************************************************************************)
(* Induction, folds, sums and enumerations over finite sets, for the       *)
(* proofs about what the model computes of any data.                       *)
(*                                                                         *)
(* The induction theorems of the library take a predicate as an operator.  *)
(* Here it is a set, the set of those for which the claim holds: what is   *)
(* to be proved is that it has everything.                                 *)
(***************************************************************************)
EXTENDS Integers, Selection, SequencesExt, FiniteSetsExt, FiniteSetTheorems, WellFoundedInduction, TLAPS

\* A set of naturals has a least element.
LEMMA LeastOf ==
  ASSUME NEW T, T \subseteq Nat, T # {}
  PROVE  \E i \in T : \A j \in T : i <= j
<1>1. PICK i \in T : \A j \in T : <<j, i>> \notin OpToRel(<, Nat)
  BY NatLessThanWellFounded, WFMin
<1>2. ASSUME NEW j \in T PROVE i <= j
  <2>1. i \in Nat /\ j \in Nat
    OBVIOUS
  <2>2. ~(j < i)
    BY <1>1, <2>1 DEF OpToRel
  <2>. QED  BY <2>1, <2>2
<1>. QED  BY <1>2

LEMMA OverNumbers ==
  ASSUME NEW Good, 0 \in Good, \A n \in Nat : n \in Good => n + 1 \in Good
  PROVE  Nat \subseteq Good
<1> SUFFICES ASSUME Nat \ Good # {} PROVE FALSE
  OBVIOUS
<1>1. PICK n \in Nat \ Good : \A m \in Nat \ Good : n <= m
  BY LeastOf
<1>2. n # 0 /\ n - 1 \in Nat /\ n = (n - 1) + 1 /\ ~(n <= n - 1)
  BY <1>1
<1>3. n - 1 \in Good
  BY <1>1, <1>2
<1>. QED  BY <1>1, <1>2, <1>3

LEMMA OverSubsets ==
  ASSUME NEW S, IsFiniteSet(S), NEW Good, {} \in Good,
         \A s \in SUBSET S : s # {} /\ (\A x \in s : s \ {x} \in Good) => s \in Good
  PROVE  SUBSET S \subseteq Good
<1> SUFFICES ASSUME NEW t \in SUBSET S, t \notin Good PROVE FALSE
  OBVIOUS
<1> DEFINE sizes == {Cardinality(s) : s \in (SUBSET S) \ Good}
<1>1. \A s \in SUBSET S : IsFiniteSet(s) /\ Cardinality(s) \in Nat
  BY FS_Subset, FS_CardinalityType
<1>2. sizes \subseteq Nat /\ sizes # {}
  BY <1>1
<1>3. PICK n \in sizes : \A m \in sizes : n <= m
  BY <1>2, LeastOf
<1>4. PICK s \in (SUBSET S) \ Good : n = Cardinality(s)
  OBVIOUS
<1>5. s # {}
  BY <1>4
<1>6. ASSUME NEW x \in s PROVE s \ {x} \in Good
  <2>1. Cardinality(s \ {x}) = Cardinality(s) - 1 /\ s \ {x} \in SUBSET S
    BY <1>1, <1>4, FS_RemoveElement
  <2>2. ~(n <= n - 1)
    BY <1>1, <1>4
  <2>. QED  BY <1>3, <1>4, <2>1, <2>2
<1>. QED  BY <1>4, <1>5, <1>6

LEMMA ImageFinite ==
  ASSUME NEW S, IsFiniteSet(S), NEW f
  PROVE  IsFiniteSet({f[x] : x \in S})
<1> DEFINE T == {f[x] : x \in S}
           g == [x \in S |-> f[x]]
<1>1. g \in [S -> T] /\ \A t \in T : \E x \in S : g[x] = t
  OBVIOUS
<1> HIDE DEF T, g
<1>2. g \in Surjection(S, T)
  BY <1>1 DEF Surjection
<1>3. IsFiniteSet(T)
  BY <1>2, FS_Surjection
<1>. QED  BY <1>3 DEF T
-----------------------------------------------------------------------------
(***************************************************************************)
(* Folds.  What MapThenFoldSet computes is a function on the subsets; one  *)
(* of the kind exists, whatever order the elements are taken in.           *)
(***************************************************************************)
Folds(it, base, step, pick, S) ==
  it = [s \in SUBSET S |-> IF s = {} THEN base ELSE step[<<pick[s], it[s \ {pick[s]}]>>]]

LEMMA FoldExists ==
  ASSUME NEW S, IsFiniteSet(S), NEW A, NEW base \in A, NEW step \in [S \X A -> A],
         NEW pick, \A s \in SUBSET S : s # {} => pick[s] \in s
  PROVE  \E it \in [SUBSET S -> A] : Folds(it, base, step, pick, S)
<1> DEFINE Size(n) == {s \in SUBSET S : Cardinality(s) <= n}
           Known(it, n) == \A s \in Size(n) : it[s] = IF s = {} THEN base ELSE step[<<pick[s], it[s \ {pick[s]}]>>]
           Reached == {n \in Nat : \E it \in [Size(n) -> A] : Known(it, n)}
<1>1. \A s \in SUBSET S : IsFiniteSet(s) /\ Cardinality(s) \in Nat /\ Cardinality(s) <= Cardinality(S)
  BY FS_Subset, FS_CardinalityType
<1>2. \A s \in SUBSET S : s # {} =>
        /\ pick[s] \in S /\ s \ {pick[s]} \in SUBSET S
        /\ Cardinality(s \ {pick[s]}) = Cardinality(s) - 1
  BY <1>1, FS_RemoveElement
<1>3. 0 \in Reached
  <2> DEFINE it == [s \in Size(0) |-> base]
  <2>1. \A s \in Size(0) : s = {}
    BY <1>1, FS_EmptySet
  <2>2. it \in [Size(0) -> A] /\ Known(it, 0)
    BY <2>1
  <2>. QED  BY <2>2
<1>4. ASSUME NEW n \in Nat, n \in Reached PROVE n + 1 \in Reached
  <2>1. PICK it \in [Size(n) -> A] : Known(it, n)
    BY <1>4
  <2> DEFINE more == [s \in Size(n + 1) |-> IF s \in Size(n) THEN it[s] ELSE step[<<pick[s], it[s \ {pick[s]}]>>]]
  <2>2. ASSUME NEW s \in Size(n + 1)
        PROVE  s # {} => s \ {pick[s]} \in Size(n) /\ s \ {pick[s]} \in Size(n + 1)
    BY <1>1, <1>2
  <2>3. {} \in Size(n)
    BY FS_EmptySet
  <2>4. ASSUME NEW s \in Size(n + 1)
        PROVE  more[s] \in A /\ more[s] = IF s = {} THEN base ELSE step[<<pick[s], more[s \ {pick[s]}]>>]
    <3>1. CASE s \in Size(n)
      BY <2>1, <2>2, <3>1
    <3>2. CASE s \notin Size(n)
      <4>1. s # {} /\ s \ {pick[s]} \in Size(n) /\ pick[s] \in S
        BY <1>2, <2>2, <2>3, <3>2
      <4>2. more[s] = step[<<pick[s], it[s \ {pick[s]}]>>] /\ more[s \ {pick[s]}] = it[s \ {pick[s]}]
        BY <2>2, <3>2, <4>1
      <4>3. it[s \ {pick[s]}] \in A
        BY <4>1
      <4>. QED  BY <4>1, <4>2, <4>3
    <3>. QED  BY <3>1, <3>2
  <2>5. more \in [Size(n + 1) -> A] /\ Known(more, n + 1)
    BY <2>4
  <2>6. \E m \in [Size(n + 1) -> A] : Known(m, n + 1)
    <3> HIDE DEF more, Size, Known
    <3>. QED  BY <2>5
  <2> HIDE DEF Size, Known
  <2>. QED  BY <2>6
<1>5. Cardinality(S) \in Reached
  <2> HIDE DEF Reached
  <2>1. Nat \subseteq Reached
    BY <1>3, <1>4, OverNumbers
  <2>. QED  BY <1>1, <2>1
<1>6. Size(Cardinality(S)) = SUBSET S
  BY <1>1
<1>7. PICK it \in [SUBSET S -> A] : Known(it, Cardinality(S))
  BY <1>5, <1>6
<1>8. \A s \in SUBSET S : it[s] = IF s = {} THEN base ELSE step[<<pick[s], it[s \ {pick[s]}]>>]
  BY <1>6, <1>7
<1>9. it = [s \in SUBSET S |-> it[s]]
  OBVIOUS
<1>10. Folds(it, base, step, pick, S)
  BY <1>8, <1>9 DEF Folds
<1>. QED  BY <1>10
-----------------------------------------------------------------------------
(***************************************************************************)
(* Sums of numbers                                                         *)
(***************************************************************************)
SumOf(f, S) == FoldFunctionOnSet(+, 0, f, S)

AnyOf(s) == CHOOSE x \in s : TRUE
IsSum(it, f, S) == it = [s \in SUBSET S |-> IF s = {} THEN 0 ELSE f[AnyOf(s)] + it[s \ {AnyOf(s)}]]

LEMMA SumIs == ASSUME NEW f, NEW S PROVE SumOf(f, S) = (CHOOSE it : IsSum(it, f, S))[S]
BY DEF SumOf, FoldFunctionOnSet, MapThenFoldSet, IsSum, AnyOf

LEMMA SumExists ==
  ASSUME NEW S, IsFiniteSet(S), NEW f, \A x \in S : f[x] \in Nat
  PROVE  \E it : IsSum(it, f, S)
<1> DEFINE step == [p \in S \X Nat |-> f[p[1]] + p[2]]
           pick == [s \in SUBSET S |-> AnyOf(s)]
<1>1. step \in [S \X Nat -> Nat]
  OBVIOUS
<1>2. \A s \in SUBSET S : s # {} => pick[s] \in s
  BY DEF AnyOf
<1>3. PICK it \in [SUBSET S -> Nat] : Folds(it, 0, step, pick, S)
  <2> HIDE DEF step, pick
  <2>. QED  BY <1>1, <1>2, FoldExists
<1>4. ASSUME NEW s \in SUBSET S, s # {}
      PROVE  step[<<pick[s], it[s \ {pick[s]}]>>] = f[AnyOf(s)] + it[s \ {AnyOf(s)}]
  <2>1. pick[s] = AnyOf(s) /\ AnyOf(s) \in S /\ it[s \ {AnyOf(s)}] \in Nat
    BY <1>2, <1>4
  <2>. QED  BY <2>1
<1>5. it = [s \in SUBSET S |-> IF s = {} THEN 0 ELSE f[AnyOf(s)] + it[s \ {AnyOf(s)}]]
  <2> HIDE DEF step, pick
  <2>. QED  BY <1>3, <1>4 DEF Folds
<1>. QED  BY <1>5 DEF IsSum

LEMMA SumAgrees ==
  ASSUME NEW S, IsFiniteSet(S), NEW f, NEW g, IsSum(g, f, S),
         NEW T \in SUBSET S, NEW h, IsSum(h, f, T)
  PROVE  \A s \in SUBSET T : h[s] = g[s]
<1> DEFINE Good == {s \in SUBSET T : h[s] = g[s]}
<1>1. {} \in Good
  BY DEF IsSum
<1>2. ASSUME NEW s \in SUBSET T, s # {}, \A x \in s : s \ {x} \in Good PROVE s \in Good
  <2>1. AnyOf(s) \in s
    BY <1>2 DEF AnyOf
  <2>2. h[s] = f[AnyOf(s)] + h[s \ {AnyOf(s)}] /\ g[s] = f[AnyOf(s)] + g[s \ {AnyOf(s)}]
    BY <1>2 DEF IsSum
  <2>. QED  BY <1>2, <2>1, <2>2
<1>3. IsFiniteSet(T)
  BY FS_Subset
<1> HIDE DEF Good
<1>4. SUBSET T \subseteq Good
  BY <1>1, <1>2, <1>3, OverSubsets
<1>. QED  BY <1>4 DEF Good

\* The sum over a set is the number of one of its elements and the sum over the rest.
LEMMA SumUnfolds ==
  ASSUME NEW S, IsFiniteSet(S), NEW f, \A x \in S : f[x] \in Nat
  PROVE  /\ SumOf(f, {}) = 0
         /\ \A T \in SUBSET S : T # {} => SumOf(f, T) = f[AnyOf(T)] + SumOf(f, T \ {AnyOf(T)})
<1>1. ASSUME NEW T \in SUBSET S PROVE IsFiniteSet(T) /\ \E it : IsSum(it, f, T)
  BY FS_Subset, SumExists
<1> DEFINE it(T) == CHOOSE h : IsSum(h, f, T)
<1>2. ASSUME NEW T \in SUBSET S PROVE IsSum(it(T), f, T) /\ SumOf(f, T) = it(T)[T]
  BY <1>1, SumIs
<1> HIDE DEF it
<1>3. SumOf(f, {}) = 0
  BY <1>2 DEF IsSum
<1>4. ASSUME NEW T \in SUBSET S, T # {} PROVE SumOf(f, T) = f[AnyOf(T)] + SumOf(f, T \ {AnyOf(T)})
  <2> DEFINE rest == T \ {AnyOf(T)}
  <2>1. rest \in SUBSET T /\ rest \in SUBSET S /\ rest \in SUBSET rest
    OBVIOUS
  <2>2. it(T)[T] = f[AnyOf(T)] + it(T)[rest]
    BY <1>2, <1>4 DEF IsSum
  <2>3. it(rest)[rest] = it(T)[rest]
    BY <1>1, <1>2, <2>1, SumAgrees
  <2>. QED  BY <1>2, <2>1, <2>2, <2>3
<1>. QED  BY <1>3, <1>4

LEMMA SumType ==
  ASSUME NEW S, IsFiniteSet(S), NEW f, \A x \in S : f[x] \in Nat
  PROVE  SumOf(f, S) \in Nat
<1> DEFINE Good == {s \in SUBSET S : SumOf(f, s) \in Nat}
<1>1. {} \in Good
  BY SumUnfolds
<1>2. ASSUME NEW s \in SUBSET S, s # {}, \A x \in s : s \ {x} \in Good PROVE s \in Good
  <2>1. AnyOf(s) \in s
    BY <1>2 DEF AnyOf
  <2>2. SumOf(f, s) = f[AnyOf(s)] + SumOf(f, s \ {AnyOf(s)})
    BY <1>2, SumUnfolds
  <2>. QED  BY <1>2, <2>1, <2>2
<1> HIDE DEF Good
<1>3. SUBSET S \subseteq Good
  BY <1>1, <1>2, OverSubsets
<1>. QED  BY <1>3 DEF Good

\* Whichever element is taken out.
LEMMA SumWithout ==
  ASSUME NEW S, IsFiniteSet(S), NEW f, \A x \in S : f[x] \in Nat
  PROVE  \A x \in S : SumOf(f, S) = f[x] + SumOf(f, S \ {x})
<1> DEFINE Good == {s \in SUBSET S : \A x \in s : SumOf(f, s) = f[x] + SumOf(f, s \ {x})}
<1>1. {} \in Good
  OBVIOUS
<1>2. ASSUME NEW s \in SUBSET S PROVE IsFiniteSet(s) /\ SumOf(f, s) \in Nat
  BY FS_Subset, SumType
<1>3. ASSUME NEW s \in SUBSET S, s # {}, \A x \in s : s \ {x} \in Good PROVE s \in Good
  <2> DEFINE a == AnyOf(s)
  <2>1. a \in s
    BY <1>3 DEF AnyOf
  <2>2. SumOf(f, s) = f[a] + SumOf(f, s \ {a})
    BY <1>3, SumUnfolds
  <2> HIDE DEF a
  <2>3. ASSUME NEW x \in s PROVE SumOf(f, s) = f[x] + SumOf(f, s \ {x})
    <3>1. CASE x = a
      BY <2>2, <3>1
    <3>2. CASE x # a
      <4>1. x \in s \ {a} /\ a \in s \ {x} /\ (s \ {a}) \ {x} = (s \ {x}) \ {a}
        BY <2>1, <3>2
      <4>2. SumOf(f, s \ {a}) = f[x] + SumOf(f, (s \ {a}) \ {x})
        BY <1>3, <2>1, <4>1
      <4>3. SumOf(f, s \ {x}) = f[a] + SumOf(f, (s \ {x}) \ {a})
        BY <1>3, <4>1
      <4>4. f[a] \in Nat /\ f[x] \in Nat /\ SumOf(f, (s \ {x}) \ {a}) \in Nat
        BY <1>2, <2>1
      <4>5. SumOf(f, s \ {a}) = f[x] + SumOf(f, (s \ {x}) \ {a})
        BY <4>1, <4>2
      <4>. QED  BY <2>2, <4>3, <4>4, <4>5
    <3>. QED  BY <3>1, <3>2
  <2>. QED  BY <2>3
<1> HIDE DEF Good
<1>4. SUBSET S \subseteq Good
  BY <1>1, <1>3, OverSubsets
<1>. QED  BY <1>4 DEF Good

LEMMA SumMonotonic ==
  ASSUME NEW S, IsFiniteSet(S), NEW f, \A x \in S : f[x] \in Nat, NEW T \in SUBSET S
  PROVE  SumOf(f, T) <= SumOf(f, S)
<1> DEFINE Good == {s \in SUBSET S : SumOf(f, s \cap T) <= SumOf(f, s)}
<1>1. ASSUME NEW s \in SUBSET S PROVE IsFiniteSet(s) /\ SumOf(f, s) \in Nat
  BY FS_Subset, SumType
<1>2. {} \in Good
  BY <1>1
<1>3. ASSUME NEW s \in SUBSET S, s # {}, \A x \in s : s \ {x} \in Good PROVE s \in Good
  <2>1. PICK x \in s : TRUE
    BY <1>3
  <2>2. SumOf(f, s) = f[x] + SumOf(f, s \ {x}) /\ f[x] \in Nat
    BY <1>1, SumWithout
  <2>3. SumOf(f, (s \ {x}) \cap T) <= SumOf(f, s \ {x})
    BY <1>3
  <2>4. CASE x \in T
    <3>1. (s \cap T) \ {x} = (s \ {x}) \cap T
      OBVIOUS
    <3>2. SumOf(f, s \cap T) = f[x] + SumOf(f, (s \cap T) \ {x})
      BY <1>1, <2>4, SumWithout
    <3>3. SumOf(f, (s \cap T) \ {x}) <= SumOf(f, s \ {x})
      BY <2>3, <3>1
    <3>4. SumOf(f, (s \cap T) \ {x}) \in Nat /\ SumOf(f, s \ {x}) \in Nat
      BY <1>1
    <3>5. SumOf(f, s \cap T) <= SumOf(f, s)
      BY <2>2, <3>2, <3>3, <3>4
    <3>. QED  BY <3>5
  <2>5. CASE x \notin T
    <3>1. s \cap T = (s \ {x}) \cap T
      BY <2>5
    <3>2. SumOf(f, s \cap T) \in Nat /\ SumOf(f, s \ {x}) \in Nat
      BY <1>1
    <3>. QED  BY <2>2, <2>3, <3>1, <3>2
  <2>. QED  BY <2>4, <2>5
<1> HIDE DEF Good
<1>4. SUBSET S \subseteq Good
  BY <1>2, <1>3, OverSubsets
<1>5. S \cap T = T /\ S \in Good
  BY <1>4
<1>. QED  BY <1>5 DEF Good

\* A sum is as large as its numbers allow: n for each of A, one more for those of B.
LEMMA SumWithin ==
  ASSUME NEW S, IsFiniteSet(S), NEW f, NEW n \in Nat, NEW A \in SUBSET S, NEW B \in SUBSET A,
         \A x \in S : f[x] \in Nat /\ f[x] <= IF x \in B THEN n + 1 ELSE IF x \in A THEN n ELSE 0
  PROVE  SumOf(f, S) <= n * Cardinality(A) + Cardinality(B)
<1> DEFINE Size(s, T) == Cardinality(s \cap T)
           Good == {s \in SUBSET S : SumOf(f, s) <= n * Size(s, A) + Size(s, B)}
<1>1. ASSUME NEW s \in SUBSET S
      PROVE  SumOf(f, s) \in Nat /\ \A T \in SUBSET S : IsFiniteSet(s \cap T) /\ Size(s, T) \in Nat
  <2>1. \A t \in SUBSET S : IsFiniteSet(t) /\ Cardinality(t) \in Nat
    BY FS_Subset, FS_CardinalityType
  <2>2. SumOf(f, s) \in Nat
    BY <2>1, SumType
  <2>. QED  BY <2>1, <2>2
<1>2. {} \in Good
  <2>1. SumOf(f, {}) = 0 /\ \A T : {} \cap T = {}
    BY SumUnfolds
  <2>2. Size({}, A) = 0 /\ Size({}, B) = 0
    BY <2>1, FS_EmptySet
  <2>. QED  BY <2>1, <2>2
<1>3. ASSUME NEW s \in SUBSET S, s # {}, \A x \in s : s \ {x} \in Good PROVE s \in Good
  <2>1. PICK x \in s : TRUE
    BY <1>3
  <2> DEFINE rest == s \ {x}
  <2>2. SumOf(f, s) = f[x] + SumOf(f, rest) /\ rest \in SUBSET S
    <3>1. IsFiniteSet(s)
      BY FS_Subset
    <3>. QED  BY <3>1, SumWithout
  <2>3. ASSUME NEW T \in SUBSET S PROVE Size(s, T) = Size(rest, T) + IF x \in T THEN 1 ELSE 0
    <3>1. CASE x \in T
      <4>1. (s \cap T) \ {x} = rest \cap T /\ x \in s \cap T /\ IsFiniteSet(s \cap T)
        BY <1>1, <3>1
      <4>2. Cardinality((s \cap T) \ {x}) = Cardinality(s \cap T) - 1
        BY <4>1, FS_RemoveElement, ZenonT(40)
      <4>3. Size(rest, T) = Size(s, T) - 1 /\ Size(s, T) \in Nat
        BY <1>1, <4>1, <4>2
      <4>. QED  BY <3>1, <4>3
    <3>2. CASE x \notin T
      <4>1. s \cap T = rest \cap T
        BY <3>2
      <4>2. Size(s, T) = Size(rest, T) /\ Size(rest, T) \in Nat
        BY <1>1, <2>2, <4>1
      <4>. QED  BY <3>2, <4>2
    <3>. QED  BY <3>1, <3>2
  <2>4. SumOf(f, rest) <= n * Size(rest, A) + Size(rest, B)
    BY <1>3, <2>1
  <2>5. /\ SumOf(f, rest) \in Nat /\ f[x] \in Nat /\ f[x] <= IF x \in B THEN n + 1 ELSE IF x \in A THEN n ELSE 0
        /\ Size(rest, A) \in Nat /\ Size(rest, B) \in Nat
        /\ Size(s, A) = Size(rest, A) + (IF x \in A THEN 1 ELSE 0)
        /\ Size(s, B) = Size(rest, B) + (IF x \in B THEN 1 ELSE 0)
    BY <1>1, <2>2, <2>3
  <2> DEFINE a == Size(rest, A)
             b == Size(rest, B)
             sum == SumOf(f, rest)
  <2>6. n * (a + 1) = n * a + n /\ n * a \in Nat
    BY <2>5
  <2> HIDE DEF Size, rest, a, b, sum
  <2>7. f[x] + sum <= n * Size(s, A) + Size(s, B)
    <3>1. CASE x \in B
      <4>1. Size(s, A) = a + 1 /\ Size(s, B) = b + 1 /\ f[x] <= n + 1
        BY <2>5, <3>1 DEF a, b
      <4>. QED  BY <2>4, <2>5, <2>6, <4>1 DEF a, b, sum
    <3>2. CASE x \in A \ B
      <4>1. Size(s, A) = a + 1 /\ Size(s, B) = b + 0 /\ f[x] <= n
        BY <2>5, <3>2 DEF a, b
      <4>. QED  BY <2>4, <2>5, <2>6, <4>1 DEF a, b, sum
    <3>3. CASE x \notin A
      <4>1. Size(s, A) = a /\ Size(s, B) = b /\ f[x] = 0
        BY <2>5, <3>3 DEF a, b
      <4>. QED  BY <2>4, <2>5, <4>1 DEF a, b, sum
    <3>. QED  BY <3>1, <3>2, <3>3
  <2>. QED  BY <2>2, <2>7 DEF sum
<1>4. SUBSET S \subseteq Good
  <2> HIDE DEF Good
  <2>. QED  BY <1>2, <1>3, OverSubsets
<1>5. S \cap A = A /\ S \cap B = B /\ S \in Good
  BY <1>4
<1>. QED  BY <1>5

\* Numbers that are at most the sum of two others, one by one, are so in sum.
LEMMA SumsCompare ==
  ASSUME NEW S, IsFiniteSet(S), NEW f, NEW g, NEW h,
         \A x \in S : f[x] \in Nat /\ g[x] \in Nat /\ h[x] \in Nat /\ h[x] <= f[x] + g[x]
  PROVE  SumOf(h, S) <= SumOf(f, S) + SumOf(g, S)
<1> DEFINE Good == {s \in SUBSET S : SumOf(h, s) <= SumOf(f, s) + SumOf(g, s)}
<1>1. ASSUME NEW s \in SUBSET S PROVE SumOf(f, s) \in Nat /\ SumOf(g, s) \in Nat /\ SumOf(h, s) \in Nat /\ IsFiniteSet(s)
  <2>1. IsFiniteSet(s)
    BY FS_Subset
  <2>. QED  BY <2>1, SumType
<1>2. {} \in Good
  <2>1. SumOf(f, {}) = 0 /\ SumOf(g, {}) = 0 /\ SumOf(h, {}) = 0
    BY SumUnfolds
  <2>. QED  BY <2>1
<1>3. ASSUME NEW s \in SUBSET S, s # {}, \A x \in s : s \ {x} \in Good PROVE s \in Good
  <2>1. PICK x \in s : TRUE
    BY <1>3
  <2> DEFINE rest == s \ {x}
  <2>2. SumOf(f, s) = f[x] + SumOf(f, rest) /\ SumOf(g, s) = g[x] + SumOf(g, rest)
        /\ SumOf(h, s) = h[x] + SumOf(h, rest)
    BY <1>1, SumWithout
  <2>3. SumOf(h, rest) <= SumOf(f, rest) + SumOf(g, rest) /\ rest \in SUBSET S
    BY <1>3, <2>1
  <2> HIDE DEF rest
  <2>4. SumOf(f, rest) \in Nat /\ SumOf(g, rest) \in Nat /\ SumOf(h, rest) \in Nat
    BY <1>1, <2>3
  <2>. QED  BY <2>1, <2>2, <2>3, <2>4
<1>4. SUBSET S \subseteq Good
  <2> HIDE DEF Good
  <2>. QED  BY <1>2, <1>3, OverSubsets
<1>. QED  BY <1>4

\* What is left over after equal shares.
LEMMA Divides ==
  ASSUME NEW left \in Nat, NEW c \in Nat, c > 0
  PROVE  left \div c \in Nat /\ left % c \in Nat /\ (left \div c) * c + (left % c) = left
OBVIOUS
-----------------------------------------------------------------------------
(***************************************************************************)
(* What is picked from a sequence                                          *)
(***************************************************************************)
LEMMA LargestOf ==
  ASSUME NEW T, IsFiniteSet(T), T \subseteq Nat, T # {}
  PROVE  Max(T) \in T /\ \A j \in T : j <= Max(T)
<1> DEFINE Good == {s \in SUBSET T : s # {} => \E i \in s : \A j \in s : j <= i}
<1>1. {} \in Good
  OBVIOUS
<1>2. ASSUME NEW s \in SUBSET T, s # {}, \A x \in s : s \ {x} \in Good PROVE s \in Good
  <2>1. PICK x \in s : TRUE
    BY <1>2
  <2>2. CASE s \ {x} = {}
    <3>1. x \in Nat /\ \A j \in s : j = x
      BY <2>2
    <3>2. \A j \in s : j <= x
      BY <3>1
    <3>. QED  BY <2>1, <3>2
  <2>3. CASE s \ {x} # {}
    <3>1. PICK i \in s \ {x} : \A j \in s \ {x} : j <= i
      BY <1>2, <2>3
    <3>2. i \in Nat /\ x \in Nat /\ s \subseteq Nat
      OBVIOUS
    <3>3. CASE i <= x
      <4>1. \A j \in s : j <= x
        BY <3>1, <3>2, <3>3
      <4>. QED  BY <4>1
    <3>4. CASE ~(i <= x)
      <4>1. \A j \in s : j <= i
        BY <3>1, <3>2, <3>4
      <4>. QED  BY <4>1
    <3>. QED  BY <3>3, <3>4
  <2>. QED  BY <2>2, <2>3
<1> HIDE DEF Good
<1>3. SUBSET T \subseteq Good
  BY <1>1, <1>2, OverSubsets
<1>4. \E i \in T : \A j \in T : j <= i
  BY <1>3 DEF Good
<1>5. \E i \in T : \A j \in T : i >= j
  BY <1>4
<1>6. Max(T) \in T /\ \A j \in T : Max(T) >= j
  BY <1>5 DEF Max
<1>. QED  BY <1>6

\* e lists the places in I, from the first to the last.
Lists(e, m, I) ==
  /\ e \in [1..m -> I]
  /\ \A i, j \in 1..m : i < j => e[i] < e[j]
  /\ \A x \in I : \E k \in 1..m : e[k] = x

Picked(seq, S, s) == {i \in s : seq[i] \in S}
IsAmong(it, seq, S) ==
  it = [s \in SUBSET (DOMAIN seq) |->
          IF s = {} THEN <<>>
          ELSE IF seq[Max(s)] \in S THEN Append(it[s \ {Max(s)}], seq[Max(s)]) ELSE it[s \ {Max(s)}]]

LEMMA AmongFolds ==
  ASSUME NEW seq, NEW S
  PROVE  Among(seq, S) = (CHOOSE it : IsAmong(it, seq, S))[DOMAIN seq]
BY DEF Among, MapThenFoldSet, IsAmong, Max

LEMMA AmongExists ==
  ASSUME NEW D, IsFiniteSet(D), D \subseteq Nat, NEW seq, DOMAIN seq = D, NEW S
  PROVE  \E it : IsAmong(it, seq, S)
<1> DEFINE T == {seq[i] : i \in D}
           step == [p \in D \X Seq(T) |-> IF seq[p[1]] \in S THEN Append(p[2], seq[p[1]]) ELSE p[2]]
           pick == [s \in SUBSET D |-> Max(s)]
<1>2. step \in [D \X Seq(T) -> Seq(T)]
  OBVIOUS
<1>3. \A s \in SUBSET D : s # {} => pick[s] \in s
  <2>1. ASSUME NEW s \in SUBSET D, s # {} PROVE Max(s) \in s
    <3>1. IsFiniteSet(s) /\ s \subseteq Nat
      BY FS_Subset
    <3>. QED  BY <2>1, <3>1, LargestOf
  <2>. QED  BY <2>1
<1>4. <<>> \in Seq(T)
  OBVIOUS
<1>5. PICK it \in [SUBSET D -> Seq(T)] : Folds(it, <<>>, step, pick, D)
  <2> HIDE DEF step, pick, T
  <2>. QED  BY <1>2, <1>3, <1>4, FoldExists
<1>6. ASSUME NEW s \in SUBSET D, s # {}
      PROVE  step[<<pick[s], it[s \ {pick[s]}]>>]
               = IF seq[Max(s)] \in S THEN Append(it[s \ {Max(s)}], seq[Max(s)]) ELSE it[s \ {Max(s)}]
  <2>1. pick[s] = Max(s) /\ Max(s) \in D /\ it[s \ {Max(s)}] \in Seq(T)
    BY <1>3, <1>6
  <2>. QED  BY <2>1
<1>7. it = [s \in SUBSET D |->
              IF s = {} THEN <<>>
              ELSE IF seq[Max(s)] \in S THEN Append(it[s \ {Max(s)}], seq[Max(s)]) ELSE it[s \ {Max(s)}]]
  <2> HIDE DEF step, pick, T
  <2>. QED  BY <1>5, <1>6 DEF Folds
<1>. QED  BY <1>7 DEF IsAmong

\* What is in S, in the order it has in the sequence.
LEMMA AmongIs ==
  ASSUME NEW n \in Nat, NEW seq, DOMAIN seq = 1..n, NEW S
  PROVE  \E m \in Nat : \E e : /\ Lists(e, m, Picked(seq, S, 1..n))
                               /\ Among(seq, S) = [k \in 1..m |-> seq[e[k]]]
<1> DEFINE D  == 1..n
           it == CHOOSE h : IsAmong(h, seq, S)
           Good == {s \in SUBSET D :
                      \E m \in Nat : \E e : /\ Lists(e, m, Picked(seq, S, s))
                                            /\ it[s] = [k \in 1..m |-> seq[e[k]]]}
<1>2. IsFiniteSet(D) /\ D \subseteq Nat /\ DOMAIN seq = D /\ (\A i \in D : i \in 1..n) /\ D = 1..n
  BY FS_Interval
<1> HIDE DEF D
<1>1. IsAmong(it, seq, S) /\ Among(seq, S) = it[D]
  BY <1>2, AmongExists, AmongFolds
<1> HIDE DEF it
<1>3. {} \in Good
  <2> DEFINE e == [k \in 1..0 |-> k]
  <2>1. 1..0 = {}
    OBVIOUS
  <2>2. Lists(e, 0, Picked(seq, S, {}))
    BY <2>1 DEF Lists, Picked
  <2>3. it[{}] = <<>> /\ <<>> = [k \in 1..0 |-> seq[e[k]]]
    BY <1>1, <2>1 DEF IsAmong
  <2> HIDE DEF e
  <2>4. it[{}] = [k \in 1..0 |-> seq[e[k]]] /\ 0 \in Nat
    BY <2>3
  <2>5. \E m \in Nat : \E d : Lists(d, m, Picked(seq, S, {})) /\ it[{}] = [k \in 1..m |-> seq[d[k]]]
    BY <2>2, <2>4
  <2>. QED  BY <2>5
<1>4. ASSUME NEW s \in SUBSET D, s # {}, \A x \in s : s \ {x} \in Good PROVE s \in Good
  <2> DEFINE x == Max(s)
             rest == s \ {x}
  <2>1. x \in s /\ \A j \in s : j <= x
    <3>1. IsFiniteSet(s) /\ s \subseteq Nat
      BY <1>2, FS_Subset
    <3>. QED  BY <1>4, <3>1, LargestOf
  <2>2. it[s] = IF seq[x] \in S THEN Append(it[rest], seq[x]) ELSE it[rest]
    BY <1>1, <1>2, <1>4 DEF IsAmong
  <2> HIDE DEF x
  <2>3. PICK m \in Nat : \E e : Lists(e, m, Picked(seq, S, rest)) /\ it[rest] = [k \in 1..m |-> seq[e[k]]]
    BY <1>4, <2>1
  <2>4. PICK e : Lists(e, m, Picked(seq, S, rest)) /\ it[rest] = [k \in 1..m |-> seq[e[k]]]
    BY <2>3
  <2>5. CASE seq[x] \notin S
    <3>1. Picked(seq, S, s) = Picked(seq, S, rest)
      BY <2>5 DEF Picked
    <3>2. Lists(e, m, Picked(seq, S, s)) /\ it[s] = [k \in 1..m |-> seq[e[k]]]
      BY <2>2, <2>4, <2>5, <3>1
    <3>. QED  BY <3>2, ZenonT(40)
  <2>6. CASE seq[x] \in S
    <3> DEFINE I == Picked(seq, S, rest)
               J == Picked(seq, S, s)
               more == [k \in 1..(m + 1) |-> IF k = m + 1 THEN x ELSE e[k]]
    <3>1. J = I \cup {x} /\ I \subseteq 1..n /\ x \in 1..n /\ \A i \in I : i < x
      <4>1. I \subseteq D /\ x \in D /\ J = I \cup {x}
        BY <2>1, <2>6 DEF Picked
      <4>2. \A i \in I : i <= x /\ i # x
        BY <2>1 DEF Picked
      <4>3. I \subseteq 1..n /\ x \in 1..n
        BY <1>2, <4>1
      <4> HIDE DEF I, J
      <4>4. \A i \in I : i < x
        BY <4>2, <4>3
      <4>. QED  BY <4>1, <4>3, <4>4
    <3>2. \A k \in 1..m : e[k] \in I
      BY <2>4 DEF Lists
    <3>3. \A k \in 1..(m + 1) : k = m + 1 \/ k \in 1..m
      OBVIOUS
    <3>4. more \in [1..(m + 1) -> J]
      BY <3>1, <3>2, <3>3
    <3>5. \A i, j \in 1..(m + 1) : i < j => more[i] < more[j]
      <4>1. ASSUME NEW i \in 1..(m + 1), NEW j \in 1..(m + 1), i < j PROVE more[i] < more[j]
        <5>1. i \in 1..m
          BY <4>1
        <5>2. CASE j = m + 1
          <6>1. more[j] = x /\ e[i] \in I
            BY <3>2, <5>1, <5>2
          <6>2. more[i] = e[i]
            BY <5>1
          <6>. QED  BY <3>1, <6>1, <6>2
        <5>3. CASE j # m + 1
          <6>1. j \in 1..m /\ more[j] = e[j] /\ more[i] = e[i]
            BY <5>1, <5>3
          <6>. QED  BY <2>4, <4>1, <5>1, <6>1 DEF Lists
        <5>. QED  BY <5>2, <5>3
      <4>. QED  BY <4>1
    <3>6. \A y \in J : \E k \in 1..(m + 1) : more[k] = y
      <4>1. ASSUME NEW y \in J PROVE \E k \in 1..(m + 1) : more[k] = y
        <5>1. CASE y = x
          <6>1. m + 1 \in 1..(m + 1) /\ more[m + 1] = x
            OBVIOUS
          <6>. QED  BY <5>1, <6>1
        <5>2. CASE y # x
          <6>1. PICK k \in 1..m : e[k] = y
            BY <2>4, <3>1, <5>2 DEF Lists
          <6>2. k \in 1..(m + 1) /\ more[k] = y
            BY <6>1
          <6>. QED  BY <6>2
        <5>. QED  BY <5>1, <5>2
      <4>. QED  BY <4>1
    <3>7. Lists(more, m + 1, J)
      <4> HIDE DEF more, J
      <4>. QED  BY <3>4, <3>5, <3>6 DEF Lists
    <3>8. it[s] = [k \in 1..(m + 1) |-> seq[more[k]]]
      <4> DEFINE T == {seq[i] : i \in 1..n}
                 old == it[rest]
      <4>1. old = [k \in 1..m |-> seq[e[k]]] /\ \A k \in 1..m : e[k] \in 1..n
        BY <2>4, <3>1, <3>2
      <4>2. old \in Seq(T) /\ Len(old) = m
        <5>1. \A k \in 1..m : seq[e[k]] \in T
          BY <4>1
        <5>2. old \in [1..m -> T]
          BY <4>1, <5>1
        <5> HIDE DEF T, old
        <5>. QED  BY <5>2
      <4> HIDE DEF old
      <4>3. it[s] = Append(old, seq[x])
        BY <2>2, <2>6 DEF old
      <4>4. Append(old, seq[x]) = [k \in 1..(m + 1) |-> IF k = m + 1 THEN seq[x] ELSE old[k]]
        BY <4>2
      <4>5. \A k \in 1..(m + 1) : (IF k = m + 1 THEN seq[x] ELSE old[k]) = seq[more[k]]
        BY <3>3, <4>1
      <4>. QED  BY <4>3, <4>4, <4>5
    <3> HIDE DEF more, J
    <3>9. \E q \in Nat : \E d : Lists(d, q, J) /\ it[s] = [k \in 1..q |-> seq[d[k]]]
      <4>1. m + 1 \in Nat
        OBVIOUS
      <4>. QED  BY <3>7, <3>8, <4>1
    <3>. QED  BY <3>9 DEF J
  <2>. QED  BY <2>5, <2>6
<1> HIDE DEF Good
<1>5. SUBSET D \subseteq Good
  BY <1>2, <1>3, <1>4, OverSubsets
<1>6. D \in Good
  BY <1>5
<1>7. PICK m \in Nat : \E e : /\ Lists(e, m, Picked(seq, S, D))
                               /\ it[D] = [k \in 1..m |-> seq[e[k]]]
  BY ONLY <1>6 DEF Good
<1>8. PICK e : Lists(e, m, Picked(seq, S, D)) /\ it[D] = [k \in 1..m |-> seq[e[k]]]
  BY <1>7
<1>9. Lists(e, m, Picked(seq, S, 1..n)) /\ Among(seq, S) = [k \in 1..m |-> seq[e[k]]]
  <2>1. D = 1..n /\ Among(seq, S) = it[D]
    BY <1>1, <1>2
  <2>2. Lists(e, m, Picked(seq, S, 1..n))
    BY <1>8, <2>1
  <2>. QED  BY <1>8, <2>1, <2>2
<1>. QED  BY <1>9

LEMMA AmongKeeps ==
  ASSUME NEW T, NEW seq \in Seq(T), NEW S
  PROVE  /\ Among(seq, S) \in Seq(T)
         /\ \A x : x \in Range(Among(seq, S)) <=> x \in Range(seq) /\ x \in S
         /\ IsInjective(seq) => IsInjective(Among(seq, S))
         /\ Among(seq, S) = <<>> <=> \A x \in Range(seq) : x \notin S
<1> DEFINE n == Len(seq)
           kept == Among(seq, S)
<1>1. n \in Nat /\ DOMAIN seq = 1..n /\ \A i \in 1..n : seq[i] \in T
  OBVIOUS
<1> HIDE DEF n
<1> DEFINE I == Picked(seq, S, 1..n)
<1>2. PICK m \in Nat : \E e : Lists(e, m, I) /\ kept = [k \in 1..m |-> seq[e[k]]]
  BY <1>1, AmongIs
<1>3. PICK e : Lists(e, m, I) /\ kept = [k \in 1..m |-> seq[e[k]]]
  BY <1>2
<1> HIDE DEF kept
<1>4. \A k \in 1..m : e[k] \in 1..n /\ kept[k] = seq[e[k]] /\ kept[k] \in S
  BY <1>3 DEF Lists, Picked
<1>5. \A i \in 1..n : seq[i] \in S => \E k \in 1..m : e[k] = i
  BY <1>3 DEF Lists, Picked
<1>6. kept \in Seq(T) /\ DOMAIN kept = 1..m
  <2>1. kept \in [1..m -> T]
    BY <1>1, <1>3, <1>4
  <2>. QED  BY <2>1
<1>7. ASSUME NEW x PROVE x \in Range(kept) <=> x \in Range(seq) /\ x \in S
  <2>1. ASSUME x \in Range(kept) PROVE x \in Range(seq) /\ x \in S
    <3>1. PICK k \in 1..m : x = kept[k]
      BY <1>6, <2>1 DEF Range
    <3>. QED  BY <1>1, <1>4, <3>1 DEF Range
  <2>2. ASSUME x \in Range(seq), x \in S PROVE x \in Range(kept)
    <3>1. PICK i \in 1..n : x = seq[i]
      BY <1>1, <2>2 DEF Range
    <3>2. PICK k \in 1..m : e[k] = i
      BY <1>5, <2>2, <3>1
    <3>. QED  BY <1>4, <1>6, <3>1, <3>2 DEF Range
  <2>. QED  BY <2>1, <2>2
<1>8. ASSUME IsInjective(seq) PROVE IsInjective(kept)
  <2>1. ASSUME NEW i \in 1..m, NEW j \in 1..m, kept[i] = kept[j] PROVE i = j
    <3>1. e[i] = e[j] /\ e[i] \in Nat
      BY <1>1, <1>4, <1>8, <2>1 DEF IsInjective
    <3>2. (i < j => e[i] < e[j]) /\ (j < i => e[j] < e[i])
      BY <1>3 DEF Lists
    <3>. QED  BY <3>1, <3>2
  <2>. QED  BY <1>6, <2>1 DEF IsInjective
<1>9. kept = <<>> <=> \A x \in Range(seq) : x \notin S
  <2>1. kept = <<>> => Range(kept) = {}
    BY DEF Range
  <2>2. ASSUME Range(kept) = {} PROVE kept = <<>>
    <3>1. \A k \in 1..m : FALSE
      BY <1>6, <2>2 DEF Range
    <3>2. m = 0
      BY <3>1
    <3>. QED  BY <1>6, <3>2
  <2>. QED  BY <1>7, <2>1, <2>2
<1>. QED  BY <1>6, <1>7, <1>8, <1>9 DEF kept

\* A finite set of places is listed from the first to the last.
LEMMA Enumerates ==
  ASSUME NEW n \in Nat, NEW T \in SUBSET (1..n)
  PROVE  \E e : Lists(e, Cardinality(T), T)
<1>0. \A x \in T : x \in Nat
  OBVIOUS
<1> DEFINE seq == [i \in 1..n |-> i]
<1>1. Picked(seq, T, 1..n) = T
  BY DEF Picked
<1>2. PICK m \in Nat : \E e : Lists(e, m, Picked(seq, T, 1..n)) /\ Among(seq, T) = [k \in 1..m |-> seq[e[k]]]
  <2>1. DOMAIN seq = 1..n
    OBVIOUS
  <2> HIDE DEF seq
  <2>. QED  BY <2>1, AmongIs
<1>3. PICK e : Lists(e, m, T)
  BY <1>1, <1>2
<1>4. e \in Bijection(1..m, T)
  <2>1. e \in [1..m -> T] /\ (\A x \in T : \E k \in 1..m : e[k] = x)
    BY <1>3 DEF Lists
  <2>2. ASSUME NEW i \in 1..m, NEW j \in 1..m, e[i] = e[j] PROVE i = j
    <3>1. e[i] \in Nat /\ e[j] \in Nat
      <4>1. e[i] \in T /\ e[j] \in T
        BY <2>1
      <4>. QED  BY <1>0, <4>1
    <3>2. (i < j => e[i] < e[j]) /\ (j < i => e[j] < e[i])
      BY <1>3 DEF Lists
    <3>. QED  BY <2>2, <3>1, <3>2
  <2>. QED  BY <2>1, <2>2 DEF Bijection, Injection, Surjection, IsInjective
<1>5. Cardinality(T) = m
  <2>1. IsFiniteSet(1..m) /\ Cardinality(1..m) = m
    BY FS_Interval
  <2>. QED  BY <1>4, <2>1, FS_Bijection DEF ExistsBijection
<1>. QED  BY <1>3, <1>5

-----------------------------------------------------------------------------
(***************************************************************************)
(* Recursion over numbers                                                  *)
(***************************************************************************)
StepsIn(step, A) == \A i \in Nat : \A x \in A : step[<<i, x>>] \in A
Iterated(f, n, base, step, A) ==
  f \in [0..n -> A] /\ f[0] = base /\ \A i \in 1..n : f[i] = step[<<i, f[i - 1]>>]

LEMMA Iterates ==
  ASSUME NEW A, NEW base, base \in A, NEW step, StepsIn(step, A), NEW n \in Nat
  PROVE  \E f : Iterated(f, n, base, step, A)
<1> SUFFICES \A k \in Nat : \E f : Iterated(f, k, base, step, A)
  OBVIOUS
<1> DEFINE Runs(f, k) == f \in [0..k -> A] /\ f[0] = base /\ \A i \in 1..k : f[i] = step[<<i, f[i - 1]>>]
           Good == {k \in Nat : \E f : Runs(f, k)}
<1>1. 0 \in Good
  <2> DEFINE f == [i \in 0..0 |-> base]
  <2>1. 0..0 = {0} /\ 1..0 = {}
    OBVIOUS
  <2>2. Runs(f, 0)
    BY <2>1
  <2>. QED  BY <2>2
<1>2. ASSUME NEW m \in Nat, m \in Good PROVE m + 1 \in Good
  <2>1. PICK f : Runs(f, m)
    BY <1>2
  <2> DEFINE x == step[<<m + 1, f[m]>>]
             more == [i \in 0..(m + 1) |-> IF i = m + 1 THEN x ELSE f[i]]
  <2>2. m \in 0..m /\ m + 1 \in Nat
    OBVIOUS
  <2>3. f[m] \in A
    BY <2>1, <2>2
  <2>4. x \in A
    BY <2>2, <2>3 DEF StepsIn
  <2>5. x = step[<<m + 1, f[m]>>]
    OBVIOUS
  <2> HIDE DEF x
  <2>6. \A i \in 0..(m + 1) : i = m + 1 \/ (i # m + 1 /\ i \in 0..m)
    OBVIOUS
  <2>7. more \in [0..(m + 1) -> A] /\ more[0] = base
    BY <2>1, <2>4, <2>6
  <2>8. ASSUME NEW i \in 1..(m + 1) PROVE more[i] = step[<<i, more[i - 1]>>]
    <3>1. CASE i = m + 1
      <4>1. i - 1 = m /\ m \in 0..(m + 1) /\ m # m + 1 /\ m + 1 \in 0..(m + 1)
        BY <3>1
      <4>. QED  BY <2>5, <3>1, <4>1
    <3>2. CASE i # m + 1
      <4>1. i \in 1..m /\ i \in 0..(m + 1) /\ i - 1 \in 0..(m + 1) /\ i - 1 # m + 1
        BY <3>2
      <4>. QED  BY <2>1, <3>2, <4>1
    <3>. QED  BY <3>1, <3>2
  <2> HIDE DEF more
  <2>9. \E g : Runs(g, m + 1)
    BY <2>7, <2>8
  <2> HIDE DEF Runs
  <2>. QED  BY <2>2, <2>9
<1> HIDE DEF Good
<1>3. Nat \subseteq Good
  BY <1>1, <1>2, OverNumbers
<1>. QED  BY <1>3 DEF Good, Iterated

Joins(f, seqs) == f = [i \in 0..Len(seqs) |-> IF i = 0 THEN <<>> ELSE f[i - 1] \o seqs[i]]

\* A sequence of all that is in the sequences.
LEMMA JoinedIs ==
  ASSUME NEW seqs, NEW n \in Nat, Len(seqs) = n, DOMAIN seqs = 1..n,
         NEW T, \A i \in 1..n : seqs[i] \in Seq(T)
  PROVE  /\ Joined(seqs) \in Seq(T)
         /\ n = 1 => Joined(seqs) = seqs[1]
<1> DEFINE f == CHOOSE g : Joins(g, seqs)
<1>1. Joined(seqs) = f[n]
  BY DEF Joined, Joins
<1>2. \E g : Joins(g, seqs)
  <2> DEFINE step == [p \in Nat \X Seq(T) |-> IF p[1] \in 1..n THEN p[2] \o seqs[p[1]] ELSE p[2]]
  <2>1. \A i \in Nat : \A x \in Seq(T) : step[<<i, x>>] = IF i \in 1..n THEN x \o seqs[i] ELSE x
    OBVIOUS
  <2>2. \A i \in Nat : \A x \in Seq(T) : step[<<i, x>>] \in Seq(T)
    <3>1. ASSUME NEW i \in Nat, NEW x \in Seq(T) PROVE step[<<i, x>>] \in Seq(T)
      <4>1. i \in 1..n => x \o seqs[i] \in Seq(T)
        OBVIOUS
      <4> HIDE DEF step
      <4>. QED  BY <2>1, <4>1
    <3>. QED  BY <3>1
  <2> HIDE DEF step
  <2> DEFINE A == Seq(T)
  <2>3. StepsIn(step, A) /\ <<>> \in A
    BY <2>2 DEF StepsIn
  <2> HIDE DEF A
  <2>4. PICK h : Iterated(h, n, <<>>, step, A)
    BY <2>3, Iterates
  <2>5. h \in [0..n -> Seq(T)] /\ h[0] = <<>> /\ \A i \in 1..n : h[i] = step[<<i, h[i - 1]>>]
    BY <2>4 DEF A, Iterated
  <2>6. \A i \in 0..n : i \in Nat /\ (i # 0 => i \in 1..n /\ i - 1 \in 0..n)
    OBVIOUS
  <2>7. ASSUME NEW i \in 0..n PROVE h[i] = IF i = 0 THEN <<>> ELSE h[i - 1] \o seqs[i]
    <3>1. CASE i = 0
      BY <2>5, <3>1
    <3>2. CASE i # 0
      <4>1. i \in 1..n /\ i \in Nat /\ h[i - 1] \in Seq(T)
        BY <2>5, <2>6, <3>2
      <4>2. h[i] = step[<<i, h[i - 1]>>]
        BY <2>5, <4>1
      <4>. QED  BY <2>1, <3>2, <4>1, <4>2
    <3>. QED  BY <3>1, <3>2
  <2>8. h = [i \in 0..n |-> h[i]]
    BY <2>5
  <2>9. Joins(h, seqs)
    BY <2>7, <2>8 DEF Joins
  <2>. QED  BY <2>9
<1>3. Joins(f, seqs)
  BY <1>2
<1> HIDE DEF f
<1>4. \A i \in 0..n : f[i] = IF i = 0 THEN <<>> ELSE f[i - 1] \o seqs[i]
  BY <1>3 DEF Joins
<1> DEFINE Good == {i \in Nat : i <= n => f[i] \in Seq(T)}
<1>5. 0 \in Good
  <2>1. f[0] = <<>> /\ <<>> \in Seq(T)
    BY <1>4
  <2>2. f[0] \in Seq(T)
    BY <2>1
  <2>. QED  BY <2>2
<1>6. ASSUME NEW i \in Nat, i \in Good PROVE i + 1 \in Good
  <2>1. ASSUME i + 1 <= n PROVE f[i + 1] \in Seq(T)
    <3>1. i <= n /\ i + 1 \in 1..n /\ i + 1 \in 0..n /\ i + 1 # 0 /\ (i + 1) - 1 = i
      BY <2>1
    <3>2. f[i] \in Seq(T) /\ seqs[i + 1] \in Seq(T)
      BY <1>6, <3>1
    <3>3. f[i + 1] = f[i] \o seqs[i + 1]
      BY <1>4, <3>1
    <3>. QED  BY <3>2, <3>3
  <2>. QED  BY <2>1
<1> HIDE DEF Good
<1>7. Nat \subseteq Good
  BY <1>5, <1>6, OverNumbers
<1>8. f[n] \in Seq(T)
  <2>1. n <= n
    OBVIOUS
  <2>. QED  BY <1>7, <2>1 DEF Good
<1>9. ASSUME n = 1 PROVE f[n] = seqs[1]
  <2>1. f[0] = <<>> /\ f[1] = f[0] \o seqs[1] /\ seqs[1] \in Seq(T)
    BY <1>4, <1>9
  <2>. QED  BY <1>9, <2>1
<1>. QED  BY <1>1, <1>8, <1>9

\* At stands for the places it takes the entries from.
StandsFor(e, seq, I) ==
  /\ e \in Seq({i \in DOMAIN seq : i \in I})
  /\ IsInjective(e) /\ Range(e) = {i \in DOMAIN seq : i \in I}
  /\ At(seq, I) = [k \in 1..Len(e) |-> seq[e[k]]]

LEMMA AtStands ==
  ASSUME NEW T, NEW seq \in Seq(T), NEW I
  PROVE  \E e : StandsFor(e, seq, I)
<1> DEFINE n == Len(seq)
           all == [i \in 1..n |-> i]
           places == Among(all, I)
<1>1. n \in Nat /\ DOMAIN seq = 1..n
  OBVIOUS
<1>2. all \in Seq(1..n) /\ DOMAIN all = 1..n /\ IsInjective(all) /\ Range(all) = 1..n
  BY <1>1 DEF IsInjective, Range
<1>3. Places(seq, I) = places
  BY <1>1 DEF Places
<1> HIDE DEF all
<1>4. /\ places \in Seq(1..n) /\ IsInjective(places)
      /\ \A i : i \in Range(places) <=> i \in 1..n /\ i \in I
  BY <1>2, AmongKeeps
<1> HIDE DEF places
<1>5. Len(places) \in Nat /\ DOMAIN places = 1..Len(places)
  BY <1>4
<1>6. At(seq, I) = [k \in 1..Len(places) |-> seq[places[k]]]
  BY <1>3, <1>5 DEF At
<1> DEFINE here == {i \in DOMAIN seq : i \in I}
<1>7. Range(places) = here
  BY <1>1, <1>4
<1>8. \A k \in 1..Len(places) : places[k] \in here
  BY <1>5, <1>7 DEF Range
<1>9. places = [k \in 1..Len(places) |-> places[k]]
  BY <1>4
<1> HIDE DEF here
<1>10. places \in Seq(here)
  BY <1>5, <1>8, <1>9
<1>11. StandsFor(places, seq, I)
  BY <1>4, <1>6, <1>7, <1>10 DEF here, StandsFor
<1>. QED  BY <1>11

LEMMA AtIs ==
  ASSUME NEW T, NEW seq \in Seq(T), NEW I
  PROVE  \E e \in Seq({i \in DOMAIN seq : i \in I}) :
           /\ IsInjective(e) /\ Range(e) = {i \in DOMAIN seq : i \in I}
           /\ At(seq, I) = [k \in 1..Len(e) |-> seq[e[k]]]
<1>1. PICK e : StandsFor(e, seq, I)
  BY AtStands
<1>. QED  BY <1>1 DEF StandsFor

\* What At returns: entries of the sequence, those at the places asked for, each
\* of them once when no two of these are the same.
LEMMA AtKeeps ==
  ASSUME NEW T, NEW seq \in Seq(T), NEW I
  PROVE  /\ At(seq, I) \in Seq(T)
         /\ \A x : x \in Range(At(seq, I)) <=> \E i \in DOMAIN seq : i \in I /\ x = seq[i]
         /\ (\A i, j \in DOMAIN seq : i \in I /\ j \in I /\ seq[i] = seq[j] => i = j) => IsInjective(At(seq, I))
<1> DEFINE here == {i \in DOMAIN seq : i \in I}
           at == At(seq, I)
<1> HIDE DEF at
<1>0. PICK e : StandsFor(e, seq, I)
  BY AtStands
<1>1. e \in Seq(here) /\ IsInjective(e) /\ Range(e) = here /\ at = [k \in 1..Len(e) |-> seq[e[k]]]
  BY <1>0 DEF StandsFor, at
<1>2. \A i \in DOMAIN seq : seq[i] \in T
  OBVIOUS
<1>3. /\ Len(e) \in Nat /\ DOMAIN e = 1..Len(e)
      /\ \A k \in 1..Len(e) : e[k] \in DOMAIN seq /\ e[k] \in I
  <2> HIDE DEF here
  <2>1. Len(e) \in Nat /\ DOMAIN e = 1..Len(e) /\ \A k \in 1..Len(e) : e[k] \in here
    BY <1>1
  <2>. QED  BY <2>1 DEF here
<1>4. at \in Seq(T)
  BY <1>1, <1>2, <1>3
<1>5. ASSUME NEW x PROVE x \in Range(at) <=> \E i \in DOMAIN seq : i \in I /\ x = seq[i]
  <2>1. x \in Range(at) <=> \E k \in 1..Len(e) : x = seq[e[k]]
    BY <1>1, <1>3 DEF Range
  <2>2. (\E k \in 1..Len(e) : x = seq[e[k]]) <=> \E i \in DOMAIN seq : i \in I /\ x = seq[i]
    BY <1>1, <1>3 DEF Range
  <2>. QED  BY <2>1, <2>2
<1>6. ASSUME \A i, j \in DOMAIN seq : i \in I /\ j \in I /\ seq[i] = seq[j] => i = j
      PROVE  IsInjective(at)
  BY <1>1, <1>3, <1>6 DEF IsInjective
<1>. QED  BY <1>4, <1>5, <1>6 DEF at

\* Distinct leaves nothing out and has nothing twice.
LEMMA DistinctKeeps ==
  ASSUME NEW T, NEW seq \in Seq(T)
  PROVE  /\ Distinct(seq) \in Seq(T) /\ IsInjective(Distinct(seq))
         /\ Range(Distinct(seq)) = Range(seq)
<1> DEFINE first == {i \in DOMAIN seq : \A j \in 1..(i - 1) : seq[j] # seq[i]}
<1>1. Distinct(seq) = At(seq, first)
  BY DEF Distinct
<1>2. DOMAIN seq = 1..Len(seq) /\ Len(seq) \in Nat
  OBVIOUS
<1>3. ASSUME NEW i \in DOMAIN seq, NEW j \in DOMAIN seq, i \in first, j \in first, seq[i] = seq[j]
      PROVE  i = j
  <2>1. i \in Int /\ j \in Int /\ i >= 1 /\ j >= 1
    BY <1>2
  <2>2. ~(j < i) /\ ~(i < j)
    BY <1>3, <2>1
  <2>. QED  BY <2>1, <2>2
<1>4. ASSUME NEW i \in DOMAIN seq
      PROVE  \E k \in DOMAIN seq : k \in first /\ seq[i] = seq[k]
  <2> DEFINE same == {k \in DOMAIN seq : seq[k] = seq[i]}
  <2>1. same \subseteq Nat /\ same # {}
    BY <1>2, <1>4
  <2>2. PICK k \in same : \A j \in same : k <= j
    BY <2>1, LeastOf
  <2>3. \A j \in 1..(k - 1) : seq[j] # seq[k]
    BY <1>2, <2>2
  <2>. QED  BY <2>2, <2>3
<1> HIDE DEF first
<1>5. /\ At(seq, first) \in Seq(T)
      /\ \A x : x \in Range(At(seq, first)) <=> \E i \in DOMAIN seq : i \in first /\ x = seq[i]
      /\ IsInjective(At(seq, first))
  BY <1>3, AtKeeps
<1>6. Range(At(seq, first)) = Range(seq)
  BY <1>4, <1>5 DEF Range
<1>. QED  BY <1>1, <1>5, <1>6
=============================================================================
