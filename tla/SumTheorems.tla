----------------------------- MODULE SumTheorems -----------------------------
(***************************************************************************)
(* What the proofs about balances need to know of sums over finite sets:   *)
(* SumFunctionOnSet is defined by recursion over the subsets of a set, and *)
(* the facts below replace that definition. They say nothing of wallets.   *)
(***************************************************************************)
EXTENDS Integers, FiniteSets, Functions, FiniteSetTheorems,
        WellFoundedInduction, TLAPS

(***************************************************************************)
(* A non-empty set of naturals has a smallest number: the library's well-  *)
(* founded order, for the one relation that is needed here. Induction      *)
(* enters every proof below through this lemma, as a smallest              *)
(* counterexample.                                                         *)
(***************************************************************************)
LEMMA SmallestNumber ==
  ASSUME NEW T \in SUBSET Nat, T # {}
  PROVE  \E n \in T : \A m \in T : n <= m
<1> DEFINE R == {ss \in Nat \X Nat : ss[1] < ss[2]}
<1>1. IsWellFoundedOn(R, Nat)
  BY NatLessThanWellFounded, Zenon DEF OpToRel
<1> HIDE DEF R
<1>2. \E x \in T : \A y \in T : ~ (<<y, x>> \in R)
  BY <1>1, WFMin
<1>3. PICK x \in T : \A y \in T : ~ (<<y, x>> \in R)
  BY <1>2
<1>4. \A y \in T : ~ (y < x)
  BY <1>3 DEF R
<1>5. QED
  BY <1>4

(***************************************************************************)
(* Of any subsets of a finite set, one is smallest.                        *)
(***************************************************************************)
LEMMA SmallestSubset ==
  ASSUME NEW S, IsFiniteSet(S), NEW F \in SUBSET SUBSET S, F # {}
  PROVE  \E T \in F : \A U \in F : Cardinality(T) <= Cardinality(U)
<1> DEFINE N == {Cardinality(T) : T \in F}
<1>1. \A T \in F : Cardinality(T) \in Nat
  BY FS_Subset, FS_CardinalityType
<1>2. N \in SUBSET Nat /\ N # {}
  BY <1>1
<1>3. PICK n \in N : \A m \in N : n <= m
  BY <1>2, SmallestNumber
<1>4. QED
  BY <1>3

(***************************************************************************)
(* The equation by which the sums g of all subsets of S are defined, and   *)
(* its solutions.                                                          *)
(***************************************************************************)
SumEquation(f, g, s) ==
  IF s = {} THEN 0
  ELSE LET x == CHOOSE x \in s : TRUE IN f[x] + g[s \ {x}]

IsSumOf(f, S, g) == g = [s \in SUBSET S |-> SumEquation(f, g, s)]

(***************************************************************************)
(* It has a solution: up to each number of members, from the solution for  *)
(* one less.                                                               *)
(***************************************************************************)
LEMMA SumsExist ==
  ASSUME NEW f, NEW S, IsFiniteSet(S)
  PROVE  \E g : IsSumOf(f, S, g)
<1> DEFINE UpTo(n) == {s \in SUBSET S : Cardinality(s) <= n}
           Bad == {n \in Nat :
                     ~ \E g : g = [s \in UpTo(n) |-> SumEquation(f, g, s)]}
<1>0. \A s \in SUBSET S : IsFiniteSet(s) /\ Cardinality(s) \in Nat
  BY FS_Subset, FS_CardinalityType
<1>1. SUFFICES Bad = {}
  <2>1. UpTo(Cardinality(S)) = SUBSET S /\ Cardinality(S) \in Nat
    BY FS_Subset, FS_CardinalityType
  <2>2. QED
    <3>1. \E g : g = [s \in UpTo(Cardinality(S)) |-> SumEquation(f, g, s)]
      BY <1>1, <2>1
    <3> HIDE DEF UpTo
    <3>2. QED
      BY <2>1, <3>1 DEF IsSumOf
<1>2. SUFFICES ASSUME Bad # {} PROVE FALSE
  OBVIOUS
<1>3. PICK n \in Bad : \A m \in Bad : n <= m
  BY <1>2, SmallestNumber
<1>4. n # 0
  <2>1. UpTo(0) = {{}}
    BY <1>0, FS_EmptySet
  <2> DEFINE g == [s \in UpTo(0) |-> 0]
  <2>2. g = [s \in UpTo(0) |-> SumEquation(f, g, s)]
    BY <2>1 DEF SumEquation
  <2> HIDE DEF g
  <2>3. QED
    BY <2>2
<1>5. n - 1 \in Nat /\ n - 1 \notin Bad
  <2>1. n \in Nat
    OBVIOUS
  <2> HIDE DEF Bad
  <2>2. QED
    BY <1>3, <1>4, <2>1
<1>6. PICK g : g = [s \in UpTo(n - 1) |-> SumEquation(f, g, s)]
  BY <1>5
<1> DEFINE h == [s \in UpTo(n) |-> SumEquation(f, g, s)]
<1>7. ASSUME NEW s \in UpTo(n)
      PROVE  SumEquation(f, h, s) = SumEquation(f, g, s)
  <2>1. CASE s = {}
    BY <2>1 DEF SumEquation
  <2>2. CASE s # {}
    <3> DEFINE x == CHOOSE x \in s : TRUE
               u == s \ {x}
    <3>1. x \in s
      BY <2>2
    <3>2. Cardinality(u) = Cardinality(s) - 1
      BY <3>1, <1>0, FS_RemoveElement
    <3>3. u \in UpTo(n - 1) /\ u \in UpTo(n)
      BY <3>2, <1>0, <1>3
    <3> HIDE DEF u
    <3>4. h[u] = g[u]
      BY <3>3, <1>6
    <3> HIDE DEF h
    <3>5. QED
      BY <2>2, <3>4 DEF SumEquation, u
  <2>3. QED
    BY <2>1, <2>2
<1>8. h = [s \in UpTo(n) |-> SumEquation(f, h, s)]
  BY <1>7
<1> HIDE DEF h
<1>9. QED
  BY <1>8, <1>3

(***************************************************************************)
(* SumFunctionOnSet is the value of one of its solutions.                  *)
(***************************************************************************)
LEMMA SumIsValue ==
  ASSUME NEW f, NEW S, IsFiniteSet(S)
  PROVE  \E g : IsSumOf(f, S, g) /\ SumFunctionOnSet(f, S) = g[S]
<1>1. PICK g : g = [s \in SUBSET S |-> SumEquation(f, g, s)]
  BY SumsExist DEF IsSumOf
<1>2. \E h : /\ h = [s \in SUBSET S |-> SumEquation(f, h, s)]
             /\ SumFunctionOnSet(f, S) = h[S]
  BY <1>1 DEF SumEquation, SumFunctionOnSet, FoldFunctionOnSet, MapThenFoldSet
<1>3. QED
  BY <1>2 DEF IsSumOf

(***************************************************************************)
(* Solutions agree wherever their summands do, whatever set each was       *)
(* defined on.                                                             *)
(***************************************************************************)
LEMMA SumsAgree ==
  ASSUME NEW f, NEW S, IsFiniteSet(S), NEW g, IsSumOf(f, S, g),
         NEW e, NEW T \in SUBSET S, NEW h, IsSumOf(e, T, h),
         \A x \in T : f[x] = e[x]
  PROVE  \A s \in SUBSET T : g[s] = h[s]
<1> DEFINE Bad == {s \in SUBSET T : g[s] # h[s]}
<1>1. SUFFICES ASSUME Bad # {} PROVE FALSE
  OBVIOUS
<1>2. IsFiniteSet(T)
  BY FS_Subset
<1>3. PICK s \in Bad : \A t \in Bad : Cardinality(s) <= Cardinality(t)
  BY <1>1, <1>2, SmallestSubset
<1>4. /\ s \in SUBSET T /\ s \in SUBSET S
      /\ g[s] = SumEquation(f, g, s)
      /\ h[s] = SumEquation(e, h, s)
  BY DEF IsSumOf
<1>5. s # {}
  BY <1>4 DEF SumEquation
<1> DEFINE x == CHOOSE x \in s : TRUE
           u == s \ {x}
<1>6. x \in s
  BY <1>5
<1>7. u \notin Bad
  <2>1. IsFiniteSet(s) /\ Cardinality(s) \in Nat
    BY <1>2, <1>4, FS_Subset, FS_CardinalityType
  <2>2. Cardinality(u) = Cardinality(s) - 1
    BY <1>6, <2>1, FS_RemoveElement
  <2> HIDE DEF Bad, u
  <2>3. QED
    BY <1>3, <2>1, <2>2
<1>8. g[u] = h[u] /\ f[x] = e[x]
  BY <1>4, <1>6, <1>7
<1>9. g[s] = f[x] + g[u] /\ h[s] = e[x] + h[u]
  BY <1>4, <1>5 DEF SumEquation
<1> QED
  BY <1>8, <1>9

(***************************************************************************)
(* A sum of integers is an integer, and does not depend on the order in    *)
(* which its summands are taken.                                           *)
(***************************************************************************)
LEMMA SumsInAnyOrder ==
  ASSUME NEW S, IsFiniteSet(S), NEW f, \A x \in S : f[x] \in Int,
         NEW g, IsSumOf(f, S, g)
  PROVE  \A s \in SUBSET S :
           /\ g[s] \in Int
           /\ \A x \in s : g[s] = f[x] + g[s \ {x}]
<1> DEFINE Good(s) == /\ g[s] \in Int
                      /\ \A x \in s : g[s] = f[x] + g[s \ {x}]
           Bad == {s \in SUBSET S : ~ Good(s)}
<1>1. SUFFICES ASSUME Bad # {} PROVE FALSE
  OBVIOUS
<1>2. PICK s \in Bad : \A t \in Bad : Cardinality(s) <= Cardinality(t)
  <2> HIDE DEF Bad
  <2> QED BY <1>1, SmallestSubset DEF Bad
<1>3. s \in SUBSET S /\ g[s] = SumEquation(f, g, s)
  BY DEF IsSumOf
<1>4. IsFiniteSet(s) /\ Cardinality(s) \in Nat
  BY <1>3, FS_Subset, FS_CardinalityType
<1>5. ASSUME NEW t \in SUBSET s, Cardinality(t) < Cardinality(s)
      PROVE  Good(t)
  <2>1. Cardinality(t) \in Nat
    BY <1>4, FS_Subset, FS_CardinalityType
  <2>2. t \notin Bad
    <3> HIDE DEF Bad
    <3> QED BY <1>2, <1>4, <1>5, <2>1
  <2>3. QED
    BY <2>2, <1>3
<1>6. ASSUME NEW x \in s PROVE Good(s \ {x})
  <2>1. Cardinality(s \ {x}) = Cardinality(s) - 1
    BY <1>4, FS_RemoveElement
  <2> HIDE DEF Good
  <2> QED BY <1>4, <1>5, <2>1
<1>7. s # {}
  <2>1. Good({})
    BY DEF IsSumOf, SumEquation
  <2> QED BY <2>1
<1> DEFINE y == CHOOSE x \in s : TRUE
<1>8. y \in s /\ g[s] = f[y] + g[s \ {y}]
  BY <1>3, <1>7 DEF SumEquation
<1> HIDE DEF y
<1>9. \A x \in s : f[x] \in Int
  BY <1>3
<1>10. g[s \ {y}] \in Int
  BY <1>6, <1>8
<1>11. g[s] \in Int
  BY <1>9, <1>10, <1>8
<1>12. ASSUME NEW x \in s PROVE g[s] = f[x] + g[s \ {x}]
  <2>1. CASE x = y
    BY <2>1, <1>8
  <2>2. CASE x # y
    <3>1. g[s \ {y}] = f[x] + g[(s \ {y}) \ {x}]
      BY <1>6, <1>8, <2>2
    <3>2. g[s \ {x}] = f[y] + g[(s \ {x}) \ {y}]
      BY <1>6, <1>8, <2>2
    <3>3. (s \ {y}) \ {x} = (s \ {x}) \ {y}
      OBVIOUS
    <3>4. g[(s \ {y}) \ {x}] \in Int
      <4>1. IsFiniteSet(s \ {y}) /\ Cardinality(s \ {y}) = Cardinality(s) - 1
        BY <1>4, <1>8, FS_RemoveElement
      <4>2. Cardinality((s \ {y}) \ {x}) = Cardinality(s) - 2
        <5>1. x \in s \ {y}
          BY <2>2
        <5>2. Cardinality((s \ {y}) \ {x}) = Cardinality(s \ {y}) - 1
          BY <5>1, <4>1, FS_RemoveElement
        <5> QED
          BY <5>2, <4>1, <1>4
      <4>3. (s \ {y}) \ {x} \in SUBSET s
        OBVIOUS
      <4>4. Good((s \ {y}) \ {x})
        <5> HIDE DEF Good
        <5> QED BY <1>4, <1>5, <4>2, <4>3
      <4> QED BY <4>4
    <3>5. f[x] \in Int /\ f[y] \in Int
      BY <1>9, <1>8
    <3> DEFINE rest == g[(s \ {y}) \ {x}]
    <3>6. /\ g[s] = f[y] + (f[x] + rest)
          /\ g[s \ {x}] = f[y] + rest
          /\ rest \in Int
      BY <1>8, <3>1, <3>2, <3>3, <3>4
    <3> HIDE DEF rest
    <3> QED BY <3>5, <3>6
  <2>3. QED
    BY <2>1, <2>2
<1> QED
  BY <1>11, <1>12

(***************************************************************************)
(* The sum over the empty set.                                             *)
(***************************************************************************)
LEMMA SumOfNothing ==
  ASSUME NEW f
  PROVE  SumFunctionOnSet(f, {}) = 0
<1>1. PICK g : IsSumOf(f, {}, g) /\ SumFunctionOnSet(f, {}) = g[{}]
  BY SumIsValue, FS_EmptySet
<1> QED
  BY <1>1 DEF IsSumOf, SumEquation

(***************************************************************************)
(* The type of a sum of integers.                                          *)
(***************************************************************************)
LEMMA SumIsInteger ==
  ASSUME NEW S, IsFiniteSet(S), NEW f, \A x \in S : f[x] \in Int
  PROVE  SumFunctionOnSet(f, S) \in Int
<1>1. PICK g : IsSumOf(f, S, g) /\ SumFunctionOnSet(f, S) = g[S]
  BY SumIsValue
<1> QED
  BY <1>1, SumsInAnyOrder

(***************************************************************************)
(* A sum depends on the summands in its set only.                          *)
(***************************************************************************)
LEMMA SumOfSame ==
  ASSUME NEW S, IsFiniteSet(S), NEW f, NEW e, \A x \in S : f[x] = e[x]
  PROVE  SumFunctionOnSet(f, S) = SumFunctionOnSet(e, S)
<1>1. PICK g : IsSumOf(f, S, g) /\ SumFunctionOnSet(f, S) = g[S]
  BY SumIsValue
<1>2. PICK h : IsSumOf(e, S, h) /\ SumFunctionOnSet(e, S) = h[S]
  BY SumIsValue
<1> QED
  BY <1>1, <1>2, SumsAgree

(***************************************************************************)
(* A sum is any summand and the sum of the others.                         *)
(***************************************************************************)
LEMMA SumWithout ==
  ASSUME NEW S, IsFiniteSet(S), NEW f, \A x \in S : f[x] \in Int, NEW x \in S
  PROVE  SumFunctionOnSet(f, S) = f[x] + SumFunctionOnSet(f, S \ {x})
<1>1. IsFiniteSet(S \ {x}) /\ S \ {x} \in SUBSET S
  BY FS_RemoveElement
<1>2. PICK g : IsSumOf(f, S, g) /\ SumFunctionOnSet(f, S) = g[S]
  BY SumIsValue
<1>3. PICK h : /\ IsSumOf(f, S \ {x}, h)
               /\ SumFunctionOnSet(f, S \ {x}) = h[S \ {x}]
  BY <1>1, SumIsValue
<1>4. g[S \ {x}] = h[S \ {x}]
  BY <1>1, <1>2, <1>3, SumsAgree
<1>5. g[S] = f[x] + g[S \ {x}]
  BY <1>2, SumsInAnyOrder
<1> QED
  BY <1>2, <1>3, <1>4, <1>5

(***************************************************************************)
(* A sum grows by the summand of a new member.                             *)
(***************************************************************************)
LEMMA SumWith ==
  ASSUME NEW S, IsFiniteSet(S), NEW x, x \notin S,
         NEW f, \A y \in S \cup {x} : f[y] \in Int
  PROVE  SumFunctionOnSet(f, S \cup {x}) = SumFunctionOnSet(f, S) + f[x]
<1>1. IsFiniteSet(S \cup {x}) /\ (S \cup {x}) \ {x} = S
  BY FS_AddElement
<1>2. SumFunctionOnSet(f, S \cup {x}) = f[x] + SumFunctionOnSet(f, S)
  BY <1>1, SumWithout
<1>3. SumFunctionOnSet(f, S) \in Int
  BY SumIsInteger
<1> QED
  BY <1>2, <1>3

(***************************************************************************)
(* A sum changes as its only summand that changes.                         *)
(***************************************************************************)
LEMMA SumWithChange ==
  ASSUME NEW S, IsFiniteSet(S), NEW x \in S,
         NEW f, \A y \in S : f[y] \in Int,
         NEW e, \A y \in S : e[y] \in Int,
         \A y \in S \ {x} : f[y] = e[y]
  PROVE  SumFunctionOnSet(e, S) = SumFunctionOnSet(f, S) + e[x] - f[x]
<1>1. IsFiniteSet(S \ {x})
  BY FS_RemoveElement
<1>2. SumFunctionOnSet(f, S) = f[x] + SumFunctionOnSet(f, S \ {x})
  BY SumWithout
<1>3. SumFunctionOnSet(e, S) = e[x] + SumFunctionOnSet(e, S \ {x})
  BY SumWithout
<1>4. SumFunctionOnSet(f, S \ {x}) = SumFunctionOnSet(e, S \ {x})
  BY <1>1, SumOfSame
<1>5. SumFunctionOnSet(f, S \ {x}) \in Int
  BY <1>1, SumIsInteger
<1> QED
  BY <1>2, <1>3, <1>4, <1>5

(***************************************************************************)
(* Larger summands have a larger sum.                                      *)
(***************************************************************************)
LEMMA SumIsMonotone ==
  ASSUME NEW S, IsFiniteSet(S),
         NEW f, \A x \in S : f[x] \in Int,
         NEW e, \A x \in S : e[x] \in Int,
         \A x \in S : f[x] <= e[x]
  PROVE  SumFunctionOnSet(f, S) <= SumFunctionOnSet(e, S)
<1> DEFINE Bad == {s \in SUBSET S :
                     ~ (SumFunctionOnSet(f, s) <= SumFunctionOnSet(e, s))}
<1>1. SUFFICES ASSUME Bad # {} PROVE FALSE
  OBVIOUS
<1>2. PICK s \in Bad : \A t \in Bad : Cardinality(s) <= Cardinality(t)
  BY <1>1, SmallestSubset
<1>3. IsFiniteSet(s) /\ Cardinality(s) \in Nat
  BY FS_Subset, FS_CardinalityType
<1>4. PICK x \in s : TRUE
  BY SumOfNothing
<1>5. IsFiniteSet(s \ {x}) /\ Cardinality(s \ {x}) = Cardinality(s) - 1
  BY <1>3, FS_RemoveElement
<1>6. s \ {x} \notin Bad
  <2> HIDE DEF Bad
  <2> QED BY <1>2, <1>3, <1>5
<1>7. SumFunctionOnSet(f, s \ {x}) <= SumFunctionOnSet(e, s \ {x})
  BY <1>6
<1>8. /\ SumFunctionOnSet(f, s) = f[x] + SumFunctionOnSet(f, s \ {x})
      /\ SumFunctionOnSet(e, s) = e[x] + SumFunctionOnSet(e, s \ {x})
  BY <1>3, SumWithout
<1>9. /\ SumFunctionOnSet(f, s \ {x}) \in Int
      /\ SumFunctionOnSet(e, s \ {x}) \in Int
  BY <1>5, SumIsInteger
<1>10. f[x] \in Int /\ e[x] \in Int /\ f[x] <= e[x]
  OBVIOUS
<1>11. ~ (SumFunctionOnSet(f, s) <= SumFunctionOnSet(e, s))
  OBVIOUS
<1> QED
  BY <1>7, <1>8, <1>9, <1>10, <1>11

=============================================================================
