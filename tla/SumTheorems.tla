---------------------------- MODULE SumTheorems ----------------------------
(***************************************************************************)
(* Facts about finite sets that the proofs about counters, ids and costs   *)
(* need: a smallest counterexample exists, a largest element exists, and   *)
(* SumFunctionOnSet, which the community modules define by recursion over  *)
(* the subsets of a set, is the sum one expects.  Each induction is an     *)
(* argument about a smallest counterexample.                               *)
(***************************************************************************)
EXTENDS FiniteSetsExt, FiniteSetTheorems, TLAPS

(* A set of natural numbers has a least element. *)
LEMMA LeastNumber ==
  ASSUME NEW T, T \subseteq Nat, T # {} PROVE \E n \in T : \A k \in T : n <= k
<1> DEFINE R == {p \in Nat \X Nat : p[1] < p[2]}
<1>1. R = OpToRel(<, Nat) BY DEF OpToRel
<1>2. IsWellFoundedOn(R, Nat) BY <1>1, NatLessThanWellFounded
<1>3. PICK n \in T : \A k \in T : ~(<<k, n>> \in R)
  <2> HIDE DEF R
  <2> QED BY <1>2, WFMin
<1>4. \A k \in T : n <= k
  <2> TAKE k \in T
  <2>1. k \in Nat /\ n \in Nat OBVIOUS
  <2>2. ~(k < n) BY <1>3, <2>1
  <2> HIDE DEF R
  <2> QED BY <2>1, <2>2
<1> QED BY <1>4

(* A set of subsets of a finite set has a minimal element. *)
LEMMA LeastSubset ==
  ASSUME NEW S, IsFiniteSet(S), NEW B, B \subseteq SUBSET S, B # {}
  PROVE  \E s \in B : \A t \in B : t \subseteq s => t = s
<1>1. IsWellFoundedOn(StrictSubsetOrdering(S), SUBSET S)
  BY FS_StrictSubsetOrderingWellFounded, FS_FiniteSubsetsOfFinite
<1>2. PICK s \in B : \A t \in B : ~(<<t, s>> \in StrictSubsetOrdering(S))
  BY <1>1, WFMin
<1> QED BY <1>2 DEF StrictSubsetOrdering

LEMMA FirstNumbers ==
  ASSUME NEW n \in Nat
  PROVE  /\ IsFiniteSet(0 .. n) /\ Cardinality(0 .. n) = n + 1
         /\ IsFiniteSet(1 .. n) /\ Cardinality(1 .. n) = n
<1>1. /\ IsFiniteSet(0 .. n) /\ Cardinality(0 .. n) = IF 0 > n THEN 0 ELSE n - 0 + 1
      /\ IsFiniteSet(1 .. n) /\ Cardinality(1 .. n) = IF 1 > n THEN 0 ELSE n - 1 + 1
  BY FS_Interval
<1> QED BY <1>1

LEMMA LargestExists ==
  ASSUME NEW S, IsFiniteSet(S), \A x \in S : x \in Int
  PROVE  S # {} => \E m \in S : \A x \in S : x <= m
<1> DEFINE Bad == {T \in SUBSET S : T # {} /\ ~\E m \in T : \A x \in T : x <= m}
<1>1. Bad = {}
  <2> SUFFICES ASSUME Bad # {} PROVE FALSE OBVIOUS
  <2>1. \E T \in Bad : \A U \in Bad : U \subseteq T => U = T
    <3>1. Bad \subseteq SUBSET S /\ Bad # {} OBVIOUS
    <3> HIDE DEF Bad
    <3> QED BY <3>1, LeastSubset
  <2> PICK T \in Bad : \A U \in Bad : U \subseteq T => U = T BY <2>1
  <2>2. PICK x \in T : TRUE OBVIOUS
  <2>3. CASE T = {x} BY <2>3
  <2>4. CASE T # {x}
    <3>1. T \ {x} # {} /\ T \ {x} \in SUBSET S /\ T \ {x} # T BY <2>2, <2>4
    <3>2. T \ {x} \notin Bad
      <4> HIDE DEF Bad
      <4> QED BY <2>1, <3>1
    <3>3. PICK m \in T \ {x} : \A y \in T \ {x} : y <= m BY <3>1, <3>2
    <3>4. m \in Int /\ x \in Int BY <2>2
    <3>5. CASE x <= m BY <3>3, <3>5
    <3>6. CASE m < x
      <4>1. \A y \in T : y <= x BY <3>3, <3>4, <3>6
      <4> QED BY <2>2, <4>1
    <3> QED BY <3>4, <3>5, <3>6
  <2> QED BY <2>3, <2>4
<1> QED BY <1>1

LEMMA LargestNumber ==
  ASSUME NEW S, IsFiniteSet(S), S # {}, \A x \in S : x \in Int
  PROVE  Max(S) \in S /\ \A x \in S : x <= Max(S)
<1>1. PICK m \in S : \A x \in S : x <= m BY LargestExists
<1>2. \E n \in S : \A x \in S : n >= x BY <1>1
<1>3. Max(S) \in S /\ \A x \in S : Max(S) >= x BY <1>2 DEF Max
<1> QED BY <1>3
-----------------------------------------------------------------------------
(* What SumFunctionOnSet stands for: a function on the subsets of S. *)
Picked(s) == CHOOSE x \in s : TRUE
SumStep(f, s, g) == IF s = {} THEN 0 ELSE f[Picked(s)] + g[s \ {Picked(s)}]
Sums(f, S, g) == g = [s \in SUBSET S |-> SumStep(f, s, g)]
SumsOf(f, S) == CHOOSE g : Sums(f, S, g)

LEMMA SumUnfolded ==
  ASSUME NEW f, NEW S
  PROVE  SumFunctionOnSet(f, S) = SumsOf(f, S)[S]
BY DEF SumFunctionOnSet, FoldFunctionOnSet, MapThenFoldSet, SumsOf, Sums, Picked, SumStep

LEMMA Smaller ==
  ASSUME NEW S, IsFiniteSet(S), NEW s \in SUBSET S
  PROVE  /\ Cardinality(s) \in Nat /\ Cardinality(s) <= Cardinality(S)
         /\ s # {} => /\ Picked(s) \in s /\ s \ {Picked(s)} \in SUBSET S
                      /\ Cardinality(s \ {Picked(s)}) = Cardinality(s) - 1
         /\ Cardinality(s) = 0 <=> s = {}
<1>1. IsFiniteSet(s) /\ Cardinality(s) \in Nat BY FS_Subset, FS_CardinalityType
<1>2. s # {} => Picked(s) \in s BY DEF Picked
<1> QED BY <1>1, <1>2, FS_Subset, FS_RemoveElement, FS_EmptySet

(* The sums of the subsets of at most n elements. *)
SumsUpTo(f, S, n, g) ==
  g = [s \in SUBSET S |-> IF Cardinality(s) > n THEN 0 ELSE SumStep(f, s, g)]

LEMMA SumsExist ==
  ASSUME NEW f, NEW S, IsFiniteSet(S)
  PROVE  \E g : Sums(f, S, g)
<1> DEFINE Bad == {n \in Nat : ~\E g : SumsUpTo(f, S, n, g)}
<1>1. Bad = {}
  <2> SUFFICES ASSUME Bad # {} PROVE FALSE OBVIOUS
  <2>1. PICK n \in Bad : \A k \in Bad : n <= k
    <3>1. Bad \subseteq Nat OBVIOUS
    <3> HIDE DEF Bad
    <3> QED BY <3>1, LeastNumber
  <2>2. n \in Nat /\ \A g : ~SumsUpTo(f, S, n, g) OBVIOUS
  <2>3. CASE n = 0
    <3> DEFINE g == [s \in SUBSET S |-> 0]
    <3>1. ASSUME NEW s \in SUBSET S, ~(Cardinality(s) > n) PROVE SumStep(f, s, g) = 0
      <4>1. Cardinality(s) \in Nat /\ (Cardinality(s) = 0 <=> s = {}) BY Smaller
      <4>2. s = {} BY <2>3, <3>1, <4>1
      <4> QED BY <4>2 DEF SumStep
    <3>2. g = [s \in SUBSET S |-> IF Cardinality(s) > n THEN 0 ELSE SumStep(f, s, g)]
      BY <3>1
    <3> QED BY <2>2, <3>2 DEF SumsUpTo
  <2>4. CASE n # 0
    <3>1. n - 1 \in Nat /\ n - 1 \notin Bad
      <4>1. n - 1 \in Nat /\ ~(n <= n - 1) BY <2>2, <2>4
      <4> HIDE DEF Bad
      <4> QED BY <2>1, <4>1
    <3>2. PICK g : SumsUpTo(f, S, n - 1, g) BY <3>1
    <3> DEFINE h == [s \in SUBSET S |-> IF Cardinality(s) = n THEN SumStep(f, s, g) ELSE g[s]]
    <3>3. ASSUME NEW s \in SUBSET S
          PROVE  h[s] = IF Cardinality(s) > n THEN 0 ELSE SumStep(f, s, h)
      <4>1. g[s] = IF Cardinality(s) > n - 1 THEN 0 ELSE SumStep(f, s, g)
        BY <3>2 DEF SumsUpTo
      <4>2. Cardinality(s) <= n => SumStep(f, s, h) = SumStep(f, s, g)
        <5>1. CASE s = {} BY <5>1 DEF SumStep
        <5>2. CASE s # {} /\ Cardinality(s) <= n
          <6>1. /\ s \ {Picked(s)} \in SUBSET S
                /\ Cardinality(s \ {Picked(s)}) # n
            BY <2>2, <5>2, Smaller
          <6>2. h[s \ {Picked(s)}] = g[s \ {Picked(s)}] BY <6>1
          <6> HIDE DEF h
          <6> QED BY <6>2 DEF SumStep
        <5> QED BY <5>1, <5>2
      <4>3. Cardinality(s) \in Nat BY Smaller
      <4>4. h[s] = IF Cardinality(s) = n THEN SumStep(f, s, g) ELSE g[s] OBVIOUS
      <4> HIDE DEF h
      <4> QED BY <2>2, <4>1, <4>2, <4>3, <4>4
    <3>4. h = [s \in SUBSET S |-> h[s]] OBVIOUS
    <3> HIDE DEF h
    <3>5. h = [s \in SUBSET S |-> IF Cardinality(s) > n THEN 0 ELSE SumStep(f, s, h)]
      BY <3>3, <3>4
    <3> QED BY <2>2, <3>5 DEF SumsUpTo
  <2> QED BY <2>3, <2>4
<1>2. Cardinality(S) \in Nat BY FS_CardinalityType
<1>3. PICK g : SumsUpTo(f, S, Cardinality(S), g) BY <1>1, <1>2
<1>4. ASSUME NEW s \in SUBSET S PROVE ~(Cardinality(s) > Cardinality(S))
  <2>1. Cardinality(s) \in Nat /\ Cardinality(s) <= Cardinality(S) BY Smaller
  <2> QED BY <1>2, <2>1
<1> QED BY <1>3, <1>4 DEF SumsUpTo, Sums

(* Two functions that sum the subsets of two sets agree where both do. *)
LEMMA SumsAgree ==
  ASSUME NEW f, NEW S, IsFiniteSet(S), NEW T \in SUBSET S, NEW g, Sums(f, S, g),
         NEW h, Sums(f, T, h)
  PROVE  g[T] = h[T]
<1> DEFINE Bad == {s \in SUBSET T : g[s] # h[s]}
<1>0. \A s \in SUBSET T : g[s] = SumStep(f, s, g) /\ h[s] = SumStep(f, s, h)
  BY DEF Sums
<1>1. Bad = {}
  <2> SUFFICES ASSUME Bad # {} PROVE FALSE OBVIOUS
  <2>1. PICK s \in Bad : \A t \in Bad : t \subseteq s => t = s
    <3>1. Bad \subseteq SUBSET S OBVIOUS
    <3> HIDE DEF Bad
    <3> QED BY <3>1, LeastSubset
  <2>2. CASE s = {} BY <1>0, <2>2 DEF SumStep
  <2>3. CASE s # {}
    <3>1. Picked(s) \in s BY <2>3 DEF Picked
    <3>2. s \ {Picked(s)} \in SUBSET T /\ s \ {Picked(s)} # s BY <3>1
    <3>3. s \ {Picked(s)} \notin Bad
      <4> HIDE DEF Bad
      <4> QED BY <2>1, <3>2
    <3>4. g[s \ {Picked(s)}] = h[s \ {Picked(s)}] BY <3>2, <3>3
    <3>5. SumStep(f, s, g) = SumStep(f, s, h) BY <3>4 DEF SumStep
    <3> QED BY <1>0, <3>5
  <2> QED BY <2>2, <2>3
<1>2. T \in SUBSET T OBVIOUS
<1> QED BY <1>1, <1>2

LEMMA SumEmpty == ASSUME NEW f PROVE SumFunctionOnSet(f, {}) = 0
<1>1. PICK g : Sums(f, {}, g) BY SumsExist, FS_EmptySet
<1>2. Sums(f, {}, SumsOf(f, {})) BY <1>1 DEF SumsOf
<1>3. SumsOf(f, {})[{}] = 0 BY <1>2 DEF Sums, SumStep
<1> QED BY <1>3, SumUnfolded

LEMMA SumPicked ==
  ASSUME NEW f, NEW S, IsFiniteSet(S), S # {}
  PROVE  SumFunctionOnSet(f, S) =
           f[Picked(S)] + SumFunctionOnSet(f, S \ {Picked(S)})
<1> DEFINE R == S \ {Picked(S)}
<1>1. R \in SUBSET S /\ IsFiniteSet(R) BY FS_Subset
<1>2. Sums(f, S, SumsOf(f, S)) BY SumsExist DEF SumsOf
<1>3. Sums(f, R, SumsOf(f, R))
  <2> HIDE DEF R
  <2> QED BY <1>1, SumsExist DEF SumsOf
<1>4. SumsOf(f, S)[R] = SumsOf(f, R)[R]
  <2> HIDE DEF R
  <2> QED BY <1>1, <1>2, <1>3, SumsAgree
<1>5. SumsOf(f, S)[S] = f[Picked(S)] + SumsOf(f, S)[R] BY <1>2 DEF Sums, SumStep
<1> QED BY <1>4, <1>5, SumUnfolded

(* Any element can be taken out first. *)
LEMMA SumElement ==
  ASSUME NEW S, IsFiniteSet(S), NEW f, \A y \in S : f[y] \in Int, NEW x \in S
  PROVE  /\ SumFunctionOnSet(f, S) \in Int
         /\ SumFunctionOnSet(f, S \ {x}) \in Int
         /\ SumFunctionOnSet(f, S) = f[x] + SumFunctionOnSet(f, S \ {x})
<1> DEFINE Sum(s) == SumFunctionOnSet(f, s)
           Good(s) == /\ Sum(s) \in Int
                      /\ \A y \in s : Sum(s) = f[y] + Sum(s \ {y})
           Bad == {s \in SUBSET S : ~Good(s)}
<1>1. Bad = {}
  <2> SUFFICES ASSUME Bad # {} PROVE FALSE OBVIOUS
  <2>1. \E s \in Bad : \A t \in Bad : t \subseteq s => t = s
    <3>1. Bad \subseteq SUBSET S /\ Bad # {} OBVIOUS
    <3> HIDE DEF Bad
    <3> QED BY <3>1, LeastSubset
  <2>2. PICK s \in Bad : \A t \in Bad : t \subseteq s => t = s BY <2>1
  <2>3. s \in SUBSET S /\ ~Good(s) OBVIOUS
  <2>4. \A y \in s : s \ {y} \in SUBSET S /\ s \ {y} # s BY <2>3
  <2>5. \A y \in s : Good(s \ {y})
    <3>1. \A y \in s : s \ {y} \notin Bad
      <4> HIDE DEF Bad
      <4> QED BY <2>2, <2>4
    <3> HIDE DEF Good
    <3> QED BY <2>4, <3>1
  <2>6. CASE s = {} BY <2>3, <2>6, SumEmpty
  <2>7. CASE s # {}
    <3> DEFINE c == Picked(s)
    <3>1. c \in s BY <2>7 DEF Picked
    <3>2. Sum(s) = f[c] + Sum(s \ {c}) BY <2>3, <2>7, FS_Subset, SumPicked
    <3>3. f[c] \in Int /\ Sum(s \ {c}) \in Int BY <2>3, <2>5, <3>1
    <3>4. ASSUME NEW y \in s, y # c PROVE Sum(s) = f[y] + Sum(s \ {y})
      <4>1. y \in s \ {c} /\ c \in s \ {y} /\ (s \ {c}) \ {y} = (s \ {y}) \ {c} BY <3>1, <3>4
      <4>2. Sum(s \ {c}) = f[y] + Sum((s \ {c}) \ {y}) BY <2>5, <3>1, <4>1
      <4>3. Sum(s \ {y}) = f[c] + Sum((s \ {y}) \ {c}) BY <2>5, <4>1
      <4>4. Good(s \ {y}) BY <2>5
      <4>5. f[y] \in Int /\ Sum(s \ {y}) \in Int BY <2>3, <4>4
      <4>6. Sum((s \ {c}) \ {y}) \in Int
        <5>1. (s \ {c}) \ {y} \in SUBSET S /\ (s \ {c}) \ {y} \subseteq s
              /\ (s \ {c}) \ {y} # s
          BY <2>3, <3>1
        <5>2. (s \ {c}) \ {y} \notin Bad
          <6> HIDE DEF Bad
          <6> QED BY <2>2, <5>1
        <5> QED BY <5>1, <5>2
      <4>7. Sum((s \ {y}) \ {c}) = Sum((s \ {c}) \ {y}) BY <4>1
      <4> HIDE DEF c, Sum, Good, Bad
      <4> QED BY <3>2, <3>3, <4>2, <4>3, <4>5, <4>6, <4>7
    <3>5. \A y \in s : Sum(s) = f[y] + Sum(s \ {y}) BY <3>2, <3>4
    <3>6. Sum(s) \in Int BY <3>2, <3>3
    <3> QED BY <2>3, <3>5, <3>6
  <2> QED BY <2>6, <2>7
<1>2. Good(S) BY <1>1
<1>3. Good(S \ {x}) BY <1>1
<1> QED BY <1>2, <1>3

LEMMA SumInt ==
  ASSUME NEW S, IsFiniteSet(S), NEW f, \A y \in S : f[y] \in Int
  PROVE  SumFunctionOnSet(f, S) \in Int
<1>1. CASE S = {} BY <1>1, SumEmpty
<1>2. CASE S # {}
  <2>1. PICK x \in S : TRUE BY <1>2
  <2> QED BY <2>1, SumElement
<1> QED BY <1>1, <1>2

(* Sums are added point by point. *)
LEMMA SumAdded ==
  ASSUME NEW S, IsFiniteSet(S), NEW f, NEW g, NEW h,
         \A y \in S : f[y] \in Int /\ g[y] \in Int /\ h[y] = f[y] + g[y]
  PROVE  SumFunctionOnSet(h, S) = SumFunctionOnSet(f, S) + SumFunctionOnSet(g, S)
<1> DEFINE Good(s) ==
      SumFunctionOnSet(h, s) = SumFunctionOnSet(f, s) + SumFunctionOnSet(g, s)
           Bad == {s \in SUBSET S : ~Good(s)}
<1>1. Bad = {}
  <2> SUFFICES ASSUME Bad # {} PROVE FALSE OBVIOUS
  <2>1. \E s \in Bad : \A t \in Bad : t \subseteq s => t = s
    <3>1. Bad \subseteq SUBSET S /\ Bad # {} OBVIOUS
    <3> HIDE DEF Bad
    <3> QED BY <3>1, LeastSubset
  <2>2. PICK s \in Bad : \A t \in Bad : t \subseteq s => t = s BY <2>1
  <2>3. s \in SUBSET S /\ ~Good(s) OBVIOUS
  <2>4. CASE s = {} BY <2>3, <2>4, SumEmpty
  <2>5. CASE s # {}
    <3>1. PICK x \in s : TRUE BY <2>5
    <3>2. s \ {x} \in SUBSET S /\ s \ {x} \subseteq s /\ s \ {x} # s BY <2>3, <3>1
    <3>3. s \ {x} \notin Bad
      <4> HIDE DEF Bad
      <4> QED BY <2>2, <3>2
    <3>4. Good(s \ {x}) BY <3>2, <3>3
    <3>5. IsFiniteSet(s) /\ \A y \in s : f[y] \in Int /\ g[y] \in Int /\ h[y] \in Int
                                      /\ h[y] = f[y] + g[y]
      BY <2>3, FS_Subset
    <3>6. /\ SumFunctionOnSet(f, s) = f[x] + SumFunctionOnSet(f, s \ {x})
          /\ SumFunctionOnSet(f, s \ {x}) \in Int
      BY <3>5, SumElement
    <3>7. /\ SumFunctionOnSet(g, s) = g[x] + SumFunctionOnSet(g, s \ {x})
          /\ SumFunctionOnSet(g, s \ {x}) \in Int
      BY <3>5, SumElement
    <3>8. SumFunctionOnSet(h, s) = h[x] + SumFunctionOnSet(h, s \ {x}) BY <3>5, SumElement
    <3> QED BY <2>3, <3>4, <3>5, <3>6, <3>7, <3>8
  <2> QED BY <2>4, <2>5
<1> QED BY <1>1

(* The sum depends on the values on S only. *)
LEMMA SumSame ==
  ASSUME NEW S, IsFiniteSet(S), NEW f, NEW g, \A y \in S : f[y] \in Int /\ g[y] = f[y]
  PROVE  SumFunctionOnSet(g, S) = SumFunctionOnSet(f, S)
<1> DEFINE zero == [y \in S |-> 0]
<1>1. SumFunctionOnSet(f, S) = SumFunctionOnSet(f, S) + SumFunctionOnSet(zero, S)
  <2>1. \A y \in S : f[y] \in Int /\ zero[y] \in Int /\ f[y] = f[y] + zero[y] OBVIOUS
  <2> HIDE DEF zero
  <2> QED BY <2>1, SumAdded
<1>2. SumFunctionOnSet(g, S) = SumFunctionOnSet(f, S) + SumFunctionOnSet(zero, S)
  <2>1. \A y \in S : f[y] \in Int /\ zero[y] \in Int /\ g[y] = f[y] + zero[y] OBVIOUS
  <2> HIDE DEF zero
  <2> QED BY <2>1, SumAdded
<1> QED BY <1>1, <1>2

(* A sum is monotone, and it is 0 only when every value is. *)
LEMMA SumAtLeast ==
  ASSUME NEW S, IsFiniteSet(S), NEW f, \A y \in S : f[y] \in Nat, NEW x \in S
  PROVE  SumFunctionOnSet(f, S) \in Nat /\ f[x] <= SumFunctionOnSet(f, S)
<1> DEFINE Bad == {s \in SUBSET S : SumFunctionOnSet(f, s) \notin Nat}
<1>1. Bad = {}
  <2> SUFFICES ASSUME Bad # {} PROVE FALSE OBVIOUS
  <2>1. \E s \in Bad : \A t \in Bad : t \subseteq s => t = s
    <3>1. Bad \subseteq SUBSET S /\ Bad # {} OBVIOUS
    <3> HIDE DEF Bad
    <3> QED BY <3>1, LeastSubset
  <2>2. PICK s \in Bad : \A t \in Bad : t \subseteq s => t = s BY <2>1
  <2>3. s \in SUBSET S /\ SumFunctionOnSet(f, s) \notin Nat OBVIOUS
  <2>4. CASE s = {} BY <2>3, <2>4, SumEmpty
  <2>5. CASE s # {}
    <3>1. PICK y \in s : TRUE BY <2>5
    <3>2. s \ {y} \in SUBSET S /\ s \ {y} \subseteq s /\ s \ {y} # s BY <2>3, <3>1
    <3>3. s \ {y} \notin Bad
      <4> HIDE DEF Bad
      <4> QED BY <2>2, <3>2
    <3>4. SumFunctionOnSet(f, s \ {y}) \in Nat BY <3>2, <3>3
    <3>5. IsFiniteSet(s) /\ f[y] \in Nat /\ \A z \in s : f[z] \in Int BY <2>3, FS_Subset
    <3>6. SumFunctionOnSet(f, s) = f[y] + SumFunctionOnSet(f, s \ {y})
      BY <3>5, SumElement
    <3> QED BY <2>3, <3>4, <3>5, <3>6
  <2> QED BY <2>4, <2>5
<1>2. \A s \in SUBSET S : SumFunctionOnSet(f, s) \in Nat BY <1>1
<1>3. S \in SUBSET S /\ S \ {x} \in SUBSET S OBVIOUS
<1>4. SumFunctionOnSet(f, S) = f[x] + SumFunctionOnSet(f, S \ {x}) BY SumElement
<1>5. f[x] \in Nat OBVIOUS
<1> QED BY <1>2, <1>3, <1>4, <1>5

LEMMA SumZero ==
  ASSUME NEW S, IsFiniteSet(S), NEW f, \A y \in S : f[y] = 0
  PROVE  SumFunctionOnSet(f, S) = 0
<1>1. SumFunctionOnSet(f, S) = SumFunctionOnSet(f, S) + SumFunctionOnSet(f, S)
  <2>1. \A y \in S : f[y] \in Int /\ f[y] = f[y] + f[y] OBVIOUS
  <2> QED BY <2>1, SumAdded
<1>2. SumFunctionOnSet(f, S) \in Int
  <2>1. \A y \in S : f[y] \in Int OBVIOUS
  <2> QED BY <2>1, SumInt
<1> DEFINE sum == SumFunctionOnSet(f, S)
<1>3. sum = sum + sum /\ sum \in Int BY <1>1, <1>2
<1> HIDE DEF sum
<1>4. sum = 0 BY <1>3
<1> QED BY <1>4 DEF sum

LEMMA SumMonotone ==
  ASSUME NEW S, IsFiniteSet(S), NEW f, NEW g,
         \A y \in S : f[y] \in Nat /\ g[y] \in Nat /\ f[y] <= g[y]
  PROVE  SumFunctionOnSet(f, S) <= SumFunctionOnSet(g, S)
<1> DEFINE more == [y \in S |-> g[y] - f[y]]
<1>1. \A y \in S : more[y] \in Nat /\ g[y] = f[y] + more[y] OBVIOUS
<1> HIDE DEF more
<1>2. SumFunctionOnSet(g, S) = SumFunctionOnSet(f, S) + SumFunctionOnSet(more, S)
  <2>1. \A y \in S : f[y] \in Int /\ more[y] \in Int /\ g[y] = f[y] + more[y] BY <1>1
  <2> QED BY <2>1, SumAdded
<1>3. SumFunctionOnSet(f, S) \in Int
  <2>1. \A y \in S : f[y] \in Int OBVIOUS
  <2> QED BY <2>1, SumInt
<1>4. SumFunctionOnSet(more, S) \in Nat
  <2>1. CASE S = {} BY <2>1, SumEmpty
  <2>2. CASE S # {} BY <1>1, <2>2, SumAtLeast
  <2> QED BY <2>1, <2>2
<1> QED BY <1>2, <1>3, <1>4

(* What is 0 outside of T can be left out of the sum. *)
LEMMA SumRestricted ==
  ASSUME NEW S, IsFiniteSet(S), NEW T \in SUBSET S, NEW f, NEW g,
         \A y \in T : f[y] \in Int /\ g[y] = f[y], \A y \in S \ T : g[y] = 0
  PROVE  SumFunctionOnSet(g, S) = SumFunctionOnSet(f, T)
<1> DEFINE Bad == {s \in SUBSET S : SumFunctionOnSet(g, s) # SumFunctionOnSet(f, s \intersect T)}
<1>0. \A y \in S : g[y] \in Int OBVIOUS
<1>1. Bad = {}
  <2> SUFFICES ASSUME Bad # {} PROVE FALSE OBVIOUS
  <2>1. \E s \in Bad : \A t \in Bad : t \subseteq s => t = s
    <3>1. Bad \subseteq SUBSET S /\ Bad # {} OBVIOUS
    <3> HIDE DEF Bad
    <3> QED BY <3>1, LeastSubset
  <2>2. PICK s \in Bad : \A t \in Bad : t \subseteq s => t = s BY <2>1
  <2>3. s \in SUBSET S /\ SumFunctionOnSet(g, s) # SumFunctionOnSet(f, s \intersect T) OBVIOUS
  <2>4. CASE s = {}
    <3>1. s \intersect T = {} BY <2>4
    <3> QED BY <2>3, <2>4, <3>1, SumEmpty
  <2>5. CASE s # {}
    <3>1. PICK x \in s : TRUE BY <2>5
    <3> DEFINE R == s \ {x}
    <3>2. R \in SUBSET S /\ R \subseteq s /\ R # s BY <2>3, <3>1
    <3>3. R \notin Bad
      <4> HIDE DEF Bad
      <4> QED BY <2>2, <3>2
    <3>4. SumFunctionOnSet(g, R) = SumFunctionOnSet(f, R \intersect T) BY <3>2, <3>3
    <3>5. SumFunctionOnSet(g, s) = g[x] + SumFunctionOnSet(g, R)
          /\ SumFunctionOnSet(g, R) \in Int
      <4>1. IsFiniteSet(s) /\ \A y \in s : g[y] \in Int BY <1>0, <2>3, FS_Subset
      <4> QED BY <3>1, <4>1, SumElement
    <3>6. CASE x \in T
      <4> DEFINE U == s \intersect T
      <4>1. x \in U /\ U \ {x} = R \intersect T /\ U \in SUBSET S BY <3>1, <3>6
      <4>2. \A y \in U : f[y] \in Int OBVIOUS
      <4>3. IsFiniteSet(U) BY <4>1, FS_Subset
      <4> HIDE DEF U, R
      <4>4. SumFunctionOnSet(f, U) = f[x] + SumFunctionOnSet(f, U \ {x})
        BY <4>1, <4>2, <4>3, SumElement
      <4>5. g[x] = f[x] BY <3>6
      <4>6. SumFunctionOnSet(f, U) = SumFunctionOnSet(g, s)
        BY <3>4, <3>5, <4>1, <4>4, <4>5
      <4> QED BY <2>3, <4>6 DEF U
    <3>7. CASE x \notin T
      <4>1. R \intersect T = s \intersect T BY <3>7
      <4>2. g[x] = 0 BY <2>3, <3>1, <3>7
      <4>3. SumFunctionOnSet(g, R) = SumFunctionOnSet(f, s \intersect T) BY <3>4, <4>1
      <4> DEFINE sum == SumFunctionOnSet(g, R)
      <4>4. sum \in Int /\ SumFunctionOnSet(g, s) = 0 + sum BY <3>5, <4>2
      <4>5. sum # SumFunctionOnSet(g, s) BY <2>3, <4>3
      <4> HIDE DEF sum
      <4> QED BY <4>4, <4>5
    <3> QED BY <3>6, <3>7
  <2> QED BY <2>4, <2>5
<1>2. S \in SUBSET S /\ S \intersect T = T OBVIOUS
<1>3. SumFunctionOnSet(g, S) = SumFunctionOnSet(f, S \intersect T) BY <1>1, <1>2
<1> QED BY <1>2, <1>3

(* A sum of one value. *)
LEMMA SumConstant ==
  ASSUME NEW S, IsFiniteSet(S), NEW c \in Int, NEW f, \A y \in S : f[y] = c
  PROVE  SumFunctionOnSet(f, S) = c * Cardinality(S)
<1> DEFINE Bad == {s \in SUBSET S : SumFunctionOnSet(f, s) # c * Cardinality(s)}
<1>1. Bad = {}
  <2> SUFFICES ASSUME Bad # {} PROVE FALSE OBVIOUS
  <2>1. \E s \in Bad : \A t \in Bad : t \subseteq s => t = s
    <3>1. Bad \subseteq SUBSET S /\ Bad # {} OBVIOUS
    <3> HIDE DEF Bad
    <3> QED BY <3>1, LeastSubset
  <2>2. PICK s \in Bad : \A t \in Bad : t \subseteq s => t = s BY <2>1
  <2>3. s \in SUBSET S /\ SumFunctionOnSet(f, s) # c * Cardinality(s) OBVIOUS
  <2>4. CASE s = {}
    <3>1. c * 0 = 0 OBVIOUS
    <3> QED BY <2>3, <2>4, <3>1, SumEmpty, FS_EmptySet
  <2>5. CASE s # {}
    <3>1. PICK x \in s : TRUE BY <2>5
    <3> DEFINE R == s \ {x}
    <3>2. R \in SUBSET S /\ R \subseteq s /\ R # s BY <2>3, <3>1
    <3>3. R \notin Bad
      <4> HIDE DEF Bad
      <4> QED BY <2>2, <3>2
    <3>4. SumFunctionOnSet(f, R) = c * Cardinality(R) BY <3>2, <3>3
    <3>5. IsFiniteSet(s) /\ Cardinality(s) \in Nat /\ Cardinality(R) = Cardinality(s) - 1
      BY <2>3, <3>1, FS_Subset, FS_CardinalityType, FS_RemoveElement
    <3>6. SumFunctionOnSet(f, s) = c + SumFunctionOnSet(f, R)
      <4>1. \A y \in s : f[y] \in Int BY <2>3
      <4>2. SumFunctionOnSet(f, s) = f[x] + SumFunctionOnSet(f, R) BY <3>1, <3>5, <4>1, SumElement
      <4> QED BY <2>3, <3>1, <4>2
    <3> DEFINE k == Cardinality(s)
    <3>7. k \in Nat /\ Cardinality(R) = k - 1 BY <3>5
    <3>8. SumFunctionOnSet(f, s) # c * k BY <2>3
    <3> HIDE DEF k, R
    <3>9. c + c * (k - 1) = c * k BY <3>7
    <3>10. SumFunctionOnSet(f, s) = c * k BY <3>4, <3>6, <3>7, <3>9
    <3> QED BY <3>8, <3>10
  <2> QED BY <2>4, <2>5
<1> QED BY <1>1

(* The same values, at other places. *)
LEMMA SumMapped ==
  ASSUME NEW S, IsFiniteSet(S), NEW T, NEW b \in [S -> T],
         \A x, y \in S : b[x] = b[y] => x = y, \A t \in T : \E x \in S : b[x] = t,
         NEW f, NEW g, \A x \in S : f[x] \in Int /\ g[b[x]] = f[x]
  PROVE  SumFunctionOnSet(g, T) = SumFunctionOnSet(f, S)
<1> DEFINE Image(s) == {b[x] : x \in s}
           Bad == {s \in SUBSET S : SumFunctionOnSet(g, Image(s)) # SumFunctionOnSet(f, s)}
<1>1. Bad = {}
  <2> SUFFICES ASSUME Bad # {} PROVE FALSE OBVIOUS
  <2>1. \E s \in Bad : \A t \in Bad : t \subseteq s => t = s
    <3>1. Bad \subseteq SUBSET S /\ Bad # {} OBVIOUS
    <3> HIDE DEF Bad
    <3> QED BY <3>1, LeastSubset
  <2>2. PICK s \in Bad : \A t \in Bad : t \subseteq s => t = s BY <2>1
  <2>3. s \in SUBSET S /\ SumFunctionOnSet(g, Image(s)) # SumFunctionOnSet(f, s) OBVIOUS
  <2>4. CASE s = {}
    <3>1. Image(s) = {} BY <2>4
    <3> QED BY <2>3, <2>4, <3>1, SumEmpty
  <2>5. CASE s # {}
    <3>1. PICK x \in s : TRUE BY <2>5
    <3> DEFINE R == s \ {x}
    <3>2. R \in SUBSET S /\ R \subseteq s /\ R # s BY <2>3, <3>1
    <3>3. R \notin Bad
      <4> HIDE DEF Bad
      <4> QED BY <2>2, <3>2
    <3>4. SumFunctionOnSet(g, Image(R)) = SumFunctionOnSet(f, R) BY <3>2, <3>3
    <3>5. IsFiniteSet(s) /\ \A y \in s : f[y] \in Int BY <2>3, FS_Subset
    <3>6. SumFunctionOnSet(f, s) = f[x] + SumFunctionOnSet(f, R) BY <3>1, <3>5, SumElement
    <3>7. b[x] \in Image(s) /\ Image(s) \ {b[x]} = Image(R) BY <2>3, <3>1
    <3>8. \A t \in Image(s) : g[t] \in Int BY <2>3, <3>5
    <3>9. IsFiniteSet(Image(s))
      <4> DEFINE h == [y \in s |-> b[y]]
      <4>1. h \in Surjection(s, Image(s)) BY DEF Surjection
      <4> HIDE DEF h, Image
      <4> QED BY <3>5, <4>1, FS_Surjection
    <3>10. SumFunctionOnSet(g, Image(s)) = g[b[x]] + SumFunctionOnSet(g, Image(s) \ {b[x]})
      <4> HIDE DEF Image
      <4> QED BY <3>7, <3>8, <3>9, SumElement
    <3>11. g[b[x]] = f[x] BY <2>3, <3>1
    <3> HIDE DEF Image, R
    <3> QED BY <2>3, <3>4, <3>6, <3>7, <3>10, <3>11
  <2> QED BY <2>4, <2>5
<1>2. S \in SUBSET S /\ Image(S) = T OBVIOUS
<1>3. SumFunctionOnSet(g, Image(S)) = SumFunctionOnSet(f, S)
  <2>1. S \notin Bad BY <1>1
  <2> HIDE DEF Image
  <2> QED BY <1>2, <2>1
<1> QED BY <1>2, <1>3
-----------------------------------------------------------------------------
(* Counting. *)
Marks(T, S) == [x \in S |-> IF x \in T THEN 1 ELSE 0]

LEMMA SumOfMarks ==
  ASSUME NEW S, IsFiniteSet(S), NEW T \in SUBSET S
  PROVE  SumFunctionOnSet(Marks(T, S), S) = Cardinality(T)
<1> DEFINE ones == [x \in T |-> 1]
<1>1. /\ \A y \in T : ones[y] \in Int /\ Marks(T, S)[y] = ones[y]
      /\ \A y \in S \ T : Marks(T, S)[y] = 0
  BY DEF Marks
<1>2. \A y \in T : ones[y] = 1 OBVIOUS
<1>3. IsFiniteSet(T) /\ Cardinality(T) \in Nat BY FS_Subset, FS_CardinalityType
<1> HIDE DEF ones
<1>4. SumFunctionOnSet(Marks(T, S), S) = SumFunctionOnSet(ones, T) BY <1>1, SumRestricted
<1>5. SumFunctionOnSet(ones, T) = 1 * Cardinality(T) BY <1>2, <1>3, SumConstant
<1> QED BY <1>3, <1>4, <1>5

(* The pairs of a relation, counted by rows and by columns. *)
RowOf(R, x, B) == {y \in B : <<x, y>> \in R}
ColumnOf(R, y, A) == {x \in A : <<x, y>> \in R}

LEMMA CountedBothWays ==
  ASSUME NEW A, IsFiniteSet(A), NEW B, IsFiniteSet(B), NEW R
  PROVE  SumFunctionOnSet([x \in A |-> Cardinality(RowOf(R, x, B))], A) =
           SumFunctionOnSet([y \in B |-> Cardinality(ColumnOf(R, y, A))], B)
<1> DEFINE rows(s) == [x \in A |-> Cardinality(RowOf(R, x, s))]
           columns == [y \in B |-> Cardinality(ColumnOf(R, y, A))]
           Good(s) == SumFunctionOnSet(rows(s), A) = SumFunctionOnSet(columns, s)
           Bad == {s \in SUBSET B : ~Good(s)}
<1>0. \A y \in B : columns[y] \in Int
  <2> TAKE y \in B
  <2>1. ColumnOf(R, y, A) \subseteq A BY DEF ColumnOf
  <2>2. Cardinality(ColumnOf(R, y, A)) \in Nat BY <2>1, FS_Subset, FS_CardinalityType
  <2> QED BY <2>2
<1>1. ASSUME NEW s \in SUBSET B, NEW x \in A
      PROVE  rows(s)[x] = Cardinality(RowOf(R, x, s)) /\ rows(s)[x] \in Nat
             /\ IsFiniteSet(RowOf(R, x, s))
  <2>1. RowOf(R, x, s) \subseteq B BY DEF RowOf
  <2> QED BY <2>1, FS_Subset, FS_CardinalityType
<1>2. Bad = {}
  <2> SUFFICES ASSUME Bad # {} PROVE FALSE OBVIOUS
  <2>1. \E s \in Bad : \A t \in Bad : t \subseteq s => t = s
    <3>1. Bad \subseteq SUBSET B /\ Bad # {} OBVIOUS
    <3> HIDE DEF Bad
    <3> QED BY <3>1, LeastSubset
  <2>2. PICK s \in Bad : \A t \in Bad : t \subseteq s => t = s BY <2>1
  <2>3. s \in SUBSET B /\ ~Good(s) OBVIOUS
  <2>4. CASE s = {}
    <3>1. \A x \in A : rows(s)[x] = 0
      <4> TAKE x \in A
      <4>1. RowOf(R, x, s) = {} BY <2>4 DEF RowOf
      <4> QED BY <4>1, FS_EmptySet
    <3> HIDE DEF rows
    <3>2. SumFunctionOnSet(rows(s), A) = 0 BY <3>1, SumZero
    <3>3. SumFunctionOnSet(columns, s) = 0 BY <2>4, SumEmpty
    <3> QED BY <2>3, <3>2, <3>3
  <2>5. CASE s # {}
    <3>1. PICK y \in s : TRUE BY <2>5
    <3> DEFINE rest == s \ {y}
               marks == Marks(ColumnOf(R, y, A), A)
    <3>2. rest \in SUBSET B /\ rest \subseteq s /\ rest # s BY <2>3, <3>1
    <3>3. rest \notin Bad
      <4> HIDE DEF Bad
      <4> QED BY <2>2, <3>2
    <3>4. Good(rest) BY <3>2, <3>3
    <3>5. ASSUME NEW x \in A PROVE rows(s)[x] = rows(rest)[x] + marks[x]
      <4>1. rows(s)[x] = Cardinality(RowOf(R, x, s)) /\ IsFiniteSet(RowOf(R, x, s))
            /\ Cardinality(RowOf(R, x, s)) \in Nat
        BY <1>1, <2>3
      <4>2. rows(rest)[x] = Cardinality(RowOf(R, x, rest)) BY <1>1, <3>2
      <4>3. CASE <<x, y>> \in R
        <5>1. y \in RowOf(R, x, s) /\ RowOf(R, x, rest) = RowOf(R, x, s) \ {y}
          BY <3>1, <4>3 DEF RowOf
        <5>2. Cardinality(RowOf(R, x, rest)) = Cardinality(RowOf(R, x, s)) - 1
          <6> DEFINE row == RowOf(R, x, s)
          <6>1. Cardinality(row \ {y}) = Cardinality(row) - 1
            <7> HIDE DEF row
            <7> QED BY <4>1, <5>1, FS_RemoveElement DEF row
          <6> QED BY <5>1, <6>1
        <5>3. marks[x] = 1 BY <4>3 DEF Marks, ColumnOf
        <5> HIDE DEF rows, rest, marks
        <5> QED BY <4>1, <4>2, <5>2, <5>3
      <4>4. CASE <<x, y>> \notin R
        <5>1. RowOf(R, x, rest) = RowOf(R, x, s) BY <4>4 DEF RowOf
        <5>2. marks[x] = 0 BY <4>4 DEF Marks, ColumnOf
        <5> HIDE DEF rows, rest, marks
        <5> QED BY <4>1, <4>2, <5>1, <5>2
      <4> QED BY <4>3, <4>4
    <3>6. \A x \in A : marks[x] \in Int BY DEF Marks
    <3>7. \A x \in A : rows(s)[x] \in Int /\ rows(rest)[x] \in Int
      <4> HIDE DEF rows, rest
      <4> QED BY <1>1, <2>3, <3>2
    <3>8. SumFunctionOnSet(marks, A) = columns[y]
      <4>1. ColumnOf(R, y, A) \in SUBSET A BY DEF ColumnOf
      <4>2. SumFunctionOnSet(marks, A) = Cardinality(ColumnOf(R, y, A)) BY <4>1, SumOfMarks
      <4> QED BY <2>3, <3>1, <4>2
    <3> HIDE DEF rows, marks
    <3>9. SumFunctionOnSet(rows(s), A) =
            SumFunctionOnSet(rows(rest), A) + SumFunctionOnSet(marks, A)
      <4> HIDE DEF rest
      <4> QED BY <3>5, <3>6, <3>7, SumAdded
    <3>10. /\ SumFunctionOnSet(columns, s) = columns[y] + SumFunctionOnSet(columns, rest)
           /\ columns[y] \in Int /\ SumFunctionOnSet(columns, rest) \in Int
      <4>1. IsFiniteSet(s) /\ \A z \in s : columns[z] \in Int BY <1>0, <2>3, FS_Subset
      <4> HIDE DEF columns
      <4> QED BY <3>1, <4>1, SumElement
    <3> HIDE DEF columns, rest
    <3> QED BY <2>3, <3>4, <3>8, <3>9, <3>10
  <2> QED BY <2>4, <2>5
<1>3. B \in SUBSET B OBVIOUS
<1> HIDE DEF rows, columns
<1>4. Good(B) BY <1>2, <1>3
<1> QED BY <1>4 DEF rows, columns
=============================================================================
