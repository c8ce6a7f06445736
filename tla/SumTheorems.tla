---------------------------- MODULE SumTheorems ----------------------------
(***************************************************************************)
(* Sums over finite sets, as the models write them: SumFunctionOnSet(f, S) *)
(* of the community module Functions.  It is a fold, that is, the value at *)
(* S of a function defined by recursion over the subsets of S; the lemmas  *)
(* say that this recursion has a solution, that the sum does not depend on *)
(* the order the recursion picks the elements in, and how a sum changes    *)
(* with its function and its set.                                          *)
(*                                                                         *)
(* Induction is stated over a set of good subsets or numbers instead of a  *)
(* predicate, and comes from the library's theorem that a nonempty subset  *)
(* of a well-founded order has a minimal element.                          *)
(***************************************************************************)
EXTENDS Functions, FiniteSetTheorems, TLAPS

(* A nonempty set of naturals has a least one.                             *)
LEMMA LeastNat ==
  ASSUME NEW T, T \subseteq Nat, T # {}
  PROVE  \E n \in T : \A m \in T : n <= m
<1>1. PICK n \in T : \A m \in T : <<m, n>> \notin OpToRel(<, Nat)
  BY NatLessThanWellFounded, WFMin
<1>2. \A m \in T : ~ (m < n)
  BY <1>1 DEF OpToRel
<1>. QED
  BY <1>2

(* Induction over a finite set: what holds of a subset whenever it holds   *)
(* of that subset less any one element holds of the whole set.             *)
LEMMA FiniteInduction ==
  ASSUME NEW S, IsFiniteSet(S), NEW Good,
         \A s \in SUBSET S : (\A x \in s : s \ {x} \in Good) => s \in Good
  PROVE  S \in Good
<1>. SUFFICES ASSUME S \notin Good PROVE FALSE
  OBVIOUS
<1>. DEFINE T == {s \in SUBSET S : s \notin Good}
<1>1. T \subseteq FiniteSubsetsOf(S) /\ T # {}
  BY FS_FiniteSubsetsOfFinite
<1>2. PICK s \in T : \A r \in T : <<r, s>> \notin StrictSubsetOrdering(S)
  <2>. HIDE DEF T
  <2>. QED
    BY <1>1, FS_StrictSubsetOrderingWellFounded, WFMin
<1>3. ASSUME NEW x \in s, s \ {x} \notin Good PROVE FALSE
  <2>. DEFINE r == s \ {x}
  <2>1. r \in T /\ r # s /\ <<r, s>> \in (SUBSET S) \X (SUBSET S)
    BY <1>3
  <2>2. <<r, s>> \in StrictSubsetOrdering(S)
    BY <2>1 DEF StrictSubsetOrdering
  <2>. QED
    BY <1>2, <2>1, <2>2
<1>. QED
  BY <1>3

(* The recursion of the fold: the empty set adds up to zero, any other set *)
(* to the value of an element of it and the sum of the rest.               *)
ChosenOf(s) == CHOOSE x \in s : TRUE

SumStep(g, f, s) == IF s = {} THEN 0 ELSE f[ChosenOf(s)] + g[s \ {ChosenOf(s)}]

IsSum(g, f, S) == g = [s \in SUBSET S |-> SumStep(g, f, s)]

(* The fold is the recursion IsSum.                                        *)
LEMMA SumUnfold ==
  ASSUME NEW f, NEW S
  PROVE SumFunctionOnSet(f, S) = (CHOOSE g : IsSum(g, f, S))[S]
BY DEF SumFunctionOnSet, FoldFunctionOnSet, MapThenFoldSet, IsSum, ChosenOf, SumStep

(* The recursion takes an element of the set.                              *)
LEMMA ChosenIn == ASSUME NEW S, S # {} PROVE ChosenOf(S) \in S
BY DEF ChosenOf

(* The subsets of S with at most n elements.                               *)
Upto(S, n) == {s \in SUBSET S : Cardinality(s) <= n}

(* The recursion has a solution on a finite set: one for the subsets of up *)
(* to n - 1 elements extends to those of n.                                *)
LEMMA SumExists ==
  ASSUME NEW f, NEW S, IsFiniteSet(S)
  PROVE  \E g : IsSum(g, f, S)
<1>. DEFINE Good(g, n) == \A s \in Upto(S, n) : g[s] = SumStep(g, f, s)
            Bad == {n \in Nat : ~ \E g : Good(g, n)}
<1>1. \A s \in SUBSET S : IsFiniteSet(s) /\ Cardinality(s) \in Nat /\ Cardinality(s) <= Cardinality(S)
  BY FS_Subset, FS_CardinalityType
<1>2. Bad = {}
  <2>. SUFFICES ASSUME Bad # {} PROVE FALSE
    OBVIOUS
  <2>1. PICK n \in Bad : \A m \in Bad : n <= m
    BY LeastNat
  <2>2. n # 0
    <3>1. Good([s \in SUBSET S |-> 0], 0)
      BY <1>1, FS_EmptySet DEF Upto, SumStep
    <3>. QED
      BY <3>1
  <2>3. PICK g : Good(g, n - 1)
    <3>1. n - 1 \in Nat /\ n - 1 \notin Bad
      BY <2>1, <2>2
    <3>. QED
      BY <3>1
  <2>. DEFINE h == [s \in SUBSET S |-> SumStep(g, f, s)]
  <2>4. Good(h, n)
    <3>. SUFFICES ASSUME NEW s \in Upto(S, n) PROVE h[s] = SumStep(h, f, s)
      OBVIOUS
    <3>1. CASE s = {}
      BY <3>1 DEF Upto, SumStep
    <3>2. CASE s # {}
      <4>. DEFINE r == s \ {ChosenOf(s)}
      <4>1. s \in SUBSET S /\ ChosenOf(s) \in s /\ r \in SUBSET S
        BY <3>2, ChosenIn DEF Upto
      <4>2. r \in Upto(S, n - 1)
        BY <1>1, <2>1, <4>1, FS_RemoveElement DEF Upto
      <4>3. h[r] = g[r]
        BY <2>3, <4>1, <4>2
      <4>. QED
        BY <3>2, <4>1, <4>3 DEF SumStep
    <3>. QED
      BY <3>1, <3>2
  <2>. QED
    BY <2>4
<1>3. PICK g : Good(g, Cardinality(S))
  BY <1>2, FS_CardinalityType
<1>. DEFINE h == [s \in SUBSET S |-> g[s]]
<1>4. \A s \in SUBSET S : g[s] = SumStep(g, f, s)
  BY <1>1, <1>3 DEF Upto
<1>5. \A s \in SUBSET S : h[s] = SumStep(h, f, s)
  <2>. TAKE s \in SUBSET S
  <2>1. s # {} => s \ {ChosenOf(s)} \in SUBSET S
    OBVIOUS
  <2>. QED
    BY <1>4, <2>1 DEF SumStep
<1>6. IsSum(h, f, S)
  BY <1>5 DEF IsSum
<1>. QED
  BY <1>6

(* Two solutions agree wherever both are defined.                          *)
LEMMA SumUnique ==
  ASSUME NEW f, NEW S, NEW R, IsFiniteSet(R), R \subseteq S,
         NEW g, IsSum(g, f, S), NEW h, IsSum(h, f, R)
  PROVE  g[R] = h[R]
<1>. DEFINE Good == {s \in SUBSET R : g[s] = h[s]}
<1>1. ASSUME NEW s \in SUBSET R, \A x \in s : s \ {x} \in Good PROVE s \in Good
  <2>1. g[s] = SumStep(g, f, s) /\ h[s] = SumStep(h, f, s)
    BY DEF IsSum
  <2>2. s # {} => g[s \ {ChosenOf(s)}] = h[s \ {ChosenOf(s)}]
    BY <1>1, ChosenIn
  <2>. QED
    BY <2>1, <2>2 DEF SumStep
<1>2. R \in Good
  <2>. HIDE DEF Good
  <2>. QED
    BY <1>1, FiniteInduction
<1>. QED
  BY <1>2

(* Nothing adds up to zero.                                                *)
LEMMA SumEmpty == ASSUME NEW f PROVE SumFunctionOnSet(f, {}) = 0
<1>1. IsSum(CHOOSE g : IsSum(g, f, {}), f, {})
  BY SumExists, FS_EmptySet
<1>. QED
  BY <1>1, SumUnfold DEF IsSum, SumStep

(* The recursion equation of the fold.                                     *)
LEMMA SumChosen ==
  ASSUME NEW f, NEW S, IsFiniteSet(S), S # {}
  PROVE  SumFunctionOnSet(f, S) = f[ChosenOf(S)] + SumFunctionOnSet(f, S \ {ChosenOf(S)})
<1>. DEFINE R == S \ {ChosenOf(S)}
            g == CHOOSE x : IsSum(x, f, S)
            h == CHOOSE x : IsSum(x, f, R)
<1>1. IsFiniteSet(R)
  BY FS_RemoveElement
<1>2. IsSum(g, f, S) /\ IsSum(h, f, R)
  BY <1>1, SumExists
<1>3. SumFunctionOnSet(f, S) = g[S] /\ SumFunctionOnSet(f, R) = h[R]
  BY SumUnfold
<1>4. g[R] = h[R]
  <2>. HIDE DEF g, h, R
  <2>1. R \subseteq S
    BY DEF R
  <2>. QED
    BY <1>1, <1>2, <2>1, SumUnique
<1>5. g[S] = f[ChosenOf(S)] + g[R]
  <2>. HIDE DEF g
  <2>. QED
    BY <1>2 DEF IsSum, SumStep
<1>. QED
  BY <1>3, <1>4, <1>5

(* A sum of integers is an integer, and any element may be split off: the  *)
(* order of the recursion does not matter.                                 *)
LEMMA SumRemove ==
  ASSUME NEW S, IsFiniteSet(S), NEW f, \A x \in S : f[x] \in Int
  PROVE  /\ SumFunctionOnSet(f, S) \in Int
         /\ \A x \in S : SumFunctionOnSet(f, S) = f[x] + SumFunctionOnSet(f, S \ {x})
<1>. DEFINE sum(s) == SumFunctionOnSet(f, s)
            Removable(s) == \A x \in s : sum(s \ {x}) \in Int /\ sum(s) = f[x] + sum(s \ {x})
            Good == {s \in SUBSET S : sum(s) \in Int /\ Removable(s)}
<1>1. ASSUME NEW s \in SUBSET S, \A x \in s : s \ {x} \in Good PROVE s \in Good
  <2>. DEFINE p == ChosenOf(s)
  <2>1. CASE s = {}
    BY <2>1, SumEmpty
  <2>2. CASE s # {}
    <3>1. p \in s /\ sum(s) = f[p] + sum(s \ {p})
      BY <2>2, FS_Subset, ChosenIn, SumChosen
    <3>. HIDE DEF sum, p
    <3>2. sum(s) \in Int
      BY <1>1, <3>1
    <3>3. ASSUME NEW x \in s PROVE sum(s) = f[x] + sum(s \ {x})
      <4>1. CASE x = p
        BY <3>1, <4>1
      <4>2. CASE x # p
        <5>. DEFINE r == s \ {x, p}
        <5>1. (s \ {p}) \ {x} = r /\ x \in s \ {p} /\ (s \ {x}) \ {p} = r /\ p \in s \ {x}
          BY <3>1, <4>2
        <5>. HIDE DEF r
        <5>2. sum(r) \in Int /\ sum(s \ {p}) = f[x] + sum(r) /\ sum(s \ {x}) = f[p] + sum(r)
          BY <1>1, <3>1, <5>1
        <5>3. f[x] \in Int /\ f[p] \in Int
          BY <3>1
        <5>. QED
          BY <3>1, <5>2, <5>3
      <4>. QED
        BY <4>1, <4>2
    <3>. QED
      BY <1>1, <3>2, <3>3
  <2>. QED
    BY <2>1, <2>2
<1>2. S \in Good
  <2>. HIDE DEF Good
  <2>. QED
    BY <1>1, FiniteInduction
<1>. QED
  BY <1>2

(* The first half of SumRemove.                                            *)
LEMMA SumInt ==
  ASSUME NEW S, IsFiniteSet(S), NEW f, \A x \in S : f[x] \in Int
  PROVE  SumFunctionOnSet(f, S) \in Int
BY SumRemove

(* A new element adds its value.                                           *)
LEMMA SumAdd ==
  ASSUME NEW S, IsFiniteSet(S), NEW x, x \notin S,
         NEW f, \A y \in S \cup {x} : f[y] \in Int
  PROVE  SumFunctionOnSet(f, S \cup {x}) = SumFunctionOnSet(f, S) + f[x]
<1>1. IsFiniteSet(S \cup {x}) /\ (S \cup {x}) \ {x} = S
  BY FS_AddElement
<1>2. SumFunctionOnSet(f, S) \in Int
  BY SumInt
<1>3. SumFunctionOnSet(f, S \cup {x}) = f[x] + SumFunctionOnSet(f, S)
  <2>1. \A y \in S \cup {x} :
          SumFunctionOnSet(f, S \cup {x}) = f[y] + SumFunctionOnSet(f, (S \cup {x}) \ {y})
    BY <1>1, SumRemove
  <2>. QED
    BY <1>1, <2>1
<1>. QED
  BY <1>2, <1>3

(* Larger values have a larger sum.                                        *)
LEMMA SumMonotone ==
  ASSUME NEW S, IsFiniteSet(S), NEW f, NEW g,
         \A x \in S : f[x] \in Int /\ g[x] \in Int /\ f[x] <= g[x]
  PROVE  SumFunctionOnSet(f, S) <= SumFunctionOnSet(g, S)
<1>. DEFINE sf(s) == SumFunctionOnSet(f, s)
            sg(s) == SumFunctionOnSet(g, s)
            Good == {s \in SUBSET S : sf(s) <= sg(s)}
<1>1. ASSUME NEW s \in SUBSET S, \A x \in s : s \ {x} \in Good PROVE s \in Good
  <2>1. CASE s = {}
    BY <2>1, SumEmpty
  <2>2. ASSUME NEW x \in s PROVE sf(s) <= sg(s)
    <3>1. IsFiniteSet(s) /\ IsFiniteSet(s \ {x})
      BY FS_Subset
    <3>2. sf(s) = f[x] + sf(s \ {x}) /\ sg(s) = g[x] + sg(s \ {x})
      BY <3>1, SumRemove
    <3>3. sf(s \ {x}) \in Int /\ sg(s \ {x}) \in Int
      BY <3>1, SumInt
    <3>4. sf(s \ {x}) <= sg(s \ {x})
      BY <1>1
    <3>5. f[x] \in Int /\ g[x] \in Int /\ f[x] <= g[x]
      OBVIOUS
    <3>. HIDE DEF sf, sg
    <3>. QED
      BY <3>2, <3>3, <3>4, <3>5
  <2>. QED
    BY <2>1, <2>2
<1>2. S \in Good
  <2>. HIDE DEF Good
  <2>. QED
    BY <1>1, FiniteInduction
<1>. QED
  BY <1>2

(* The sum depends only on the values on the set.                          *)
LEMMA SumEqual ==
  ASSUME NEW S, IsFiniteSet(S), NEW f, NEW g,
         \A x \in S : f[x] \in Int /\ g[x] = f[x]
  PROVE  SumFunctionOnSet(g, S) = SumFunctionOnSet(f, S)
<1>1. /\ SumFunctionOnSet(g, S) <= SumFunctionOnSet(f, S)
      /\ SumFunctionOnSet(f, S) <= SumFunctionOnSet(g, S)
  BY SumMonotone
<1>2. SumFunctionOnSet(g, S) \in Int /\ SumFunctionOnSet(f, S) \in Int
  BY SumInt
<1>. QED
  BY <1>1, <1>2

(* Changing one value changes the sum by the difference.                   *)
LEMMA SumChange ==
  ASSUME NEW S, IsFiniteSet(S), NEW x \in S, NEW f, NEW g,
         \A y \in S : f[y] \in Int /\ g[y] \in Int,
         \A y \in S \ {x} : g[y] = f[y]
  PROVE  SumFunctionOnSet(g, S) = SumFunctionOnSet(f, S) + (g[x] - f[x])
<1>. DEFINE R == S \ {x}
<1>1. IsFiniteSet(R)
  BY FS_RemoveElement
<1>2. SumFunctionOnSet(g, R) = SumFunctionOnSet(f, R) /\ SumFunctionOnSet(f, R) \in Int
  BY <1>1, SumEqual, SumInt
<1>3. /\ SumFunctionOnSet(f, S) = f[x] + SumFunctionOnSet(f, R)
      /\ SumFunctionOnSet(g, S) = g[x] + SumFunctionOnSet(g, R)
  BY SumRemove
<1>. QED
  BY <1>2, <1>3

(* The sum of two functions is the sum of their sums.                      *)
LEMMA SumPlus ==
  ASSUME NEW S, IsFiniteSet(S), NEW f, NEW g, NEW h,
         \A x \in S : f[x] \in Int /\ g[x] \in Int /\ h[x] = f[x] + g[x]
  PROVE  SumFunctionOnSet(h, S) = SumFunctionOnSet(f, S) + SumFunctionOnSet(g, S)
<1>. DEFINE sf(s) == SumFunctionOnSet(f, s)
            sg(s) == SumFunctionOnSet(g, s)
            sh(s) == SumFunctionOnSet(h, s)
            Good == {s \in SUBSET S : sh(s) = sf(s) + sg(s)}
<1>1. ASSUME NEW s \in SUBSET S, \A x \in s : s \ {x} \in Good PROVE s \in Good
  <2>1. CASE s = {}
    BY <2>1, SumEmpty
  <2>2. ASSUME NEW x \in s PROVE sh(s) = sf(s) + sg(s)
    <3>1. IsFiniteSet(s) /\ IsFiniteSet(s \ {x})
      BY FS_Subset
    <3>2. /\ sf(s) = f[x] + sf(s \ {x}) /\ sg(s) = g[x] + sg(s \ {x})
          /\ sh(s) = h[x] + sh(s \ {x})
      BY <3>1, SumRemove
    <3>3. sf(s \ {x}) \in Int /\ sg(s \ {x}) \in Int
      BY <3>1, SumInt
    <3>4. sh(s \ {x}) = sf(s \ {x}) + sg(s \ {x})
      BY <1>1
    <3>5. f[x] \in Int /\ g[x] \in Int /\ h[x] = f[x] + g[x]
      OBVIOUS
    <3>. HIDE DEF sf, sg, sh
    <3>. QED
      BY <3>2, <3>3, <3>4, <3>5
  <2>. QED
    BY <2>1, <2>2
<1>2. S \in Good
  <2>. HIDE DEF Good
  <2>. QED
    BY <1>1, FiniteInduction
<1>. QED
  BY <1>2

(* Zeros add up to zero.                                                   *)
LEMMA SumZero ==
  ASSUME NEW S, IsFiniteSet(S), NEW f, \A x \in S : f[x] = 0
  PROVE  SumFunctionOnSet(f, S) = 0
<1>1. SumFunctionOnSet(f, S) = SumFunctionOnSet(f, S) + SumFunctionOnSet(f, S)
  BY SumPlus
<1>2. SumFunctionOnSet(f, S) \in Int
  BY SumInt
<1>. QED
  BY <1>1, <1>2

(* A sum of naturals is a natural.                                         *)
LEMMA SumNat ==
  ASSUME NEW S, IsFiniteSet(S), NEW f, \A x \in S : f[x] \in Nat
  PROVE  SumFunctionOnSet(f, S) \in Nat
<1>. DEFINE z == [x \in S |-> 0]
<1>1. SumFunctionOnSet(z, S) = 0
  BY SumZero
<1>2. SumFunctionOnSet(z, S) <= SumFunctionOnSet(f, S) /\ SumFunctionOnSet(f, S) \in Int
  BY SumMonotone, SumInt
<1>. QED
  BY <1>1, <1>2

(* Over the whole domain.                                                  *)
LEMMA SumOver ==
  ASSUME NEW f, NEW S, DOMAIN f = S
  PROVE  SumFunction(f) = SumFunctionOnSet(f, S)
BY DEF SumFunction, FoldFunction, SumFunctionOnSet
============================================================================
