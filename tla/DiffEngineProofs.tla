-------------------------- MODULE DiffEngineProofs --------------------------
(***************************************************************************)
(* What the diff engine computes, for every matching problem, every pair   *)
(* of documents and every pair of versions that satisfy the assumptions:   *)
(* the reduction to a square assignment is exact, every section is         *)
(* accounted for, a renumbered copy has no changes and a stricter duty is  *)
(* never understated.                                                      *)
(***************************************************************************)
EXTENDS DiffEngine, SumTheorems
-----------------------------------------------------------------------------
(* policy_engine/changes.py. *)
USE DEF NONE, LOW, MEDIUM, HIGH

LEMMA FiredLevels ==
  ASSUME NEW old, NEW new
  PROVE  /\ Fired(old, new) \subseteq {LOW, MEDIUM, HIGH}
         /\ IsFiniteSet(Fired(old, new))
<1>1. DeadlineRule(old, new) \in {LOW, MEDIUM, HIGH}
  <2> DEFINE was == Days(old.deadline)
             is == Days(new.deadline)
  <2>1. DeadlineRule(old, new) =
          CASE was = {} \/ is = {} -> MEDIUM
            [] Below(is, was) -> HIGH
            [] Below(was, is) -> MEDIUM
            [] OTHER -> LOW
    BY DEF DeadlineRule
  <2> HIDE DEF was, is
  <2> QED BY <2>1
<1>2. ActorRule(old, new) \in {LOW, MEDIUM, HIGH} BY DEF ActorRule
<1>3. \A a, b : IntroducedRule(a, b) \in {LOW, MEDIUM, HIGH} BY DEF IntroducedRule
<1>4. FrequencyRule(old, new) \in {LOW, MEDIUM, HIGH} BY DEF FrequencyRule
<1>5. Fired(old, new) \subseteq {LOW, MEDIUM, HIGH}
  <2> DEFINE changed == DiffFields(old, new)
             d == DeadlineRule(old, new)
             a == ActorRule(old, new)
             e == IntroducedRule(old.evidence, new.evidence)
             p == IntroducedRule(old.penalty, new.penalty)
             f == FrequencyRule(old, new)
  <2>1. Fired(old, new) =
          (IF "deadline" \in changed THEN {d} ELSE {}) \union
          (IF changed \intersect {"actor", "applicability"} # {} THEN {a} ELSE {}) \union
          (IF "evidence" \in changed THEN {e} ELSE {}) \union
          (IF "penalty" \in changed THEN {p} ELSE {}) \union
          (IF "frequency" \in changed THEN {f} ELSE {}) \union
          (IF changed \intersect {"conditions", "exceptions", "action"} # {} THEN {MEDIUM} ELSE {})
    BY DEF Fired
  <2>2. d \in {LOW, MEDIUM, HIGH} /\ a \in {LOW, MEDIUM, HIGH} /\ e \in {LOW, MEDIUM, HIGH}
        /\ p \in {LOW, MEDIUM, HIGH} /\ f \in {LOW, MEDIUM, HIGH}
    BY <1>1, <1>2, <1>3, <1>4
  <2> HIDE DEF changed, d, a, e, p, f
  <2> QED BY <2>1, <2>2
<1>6. IsFiniteSet({LOW, MEDIUM, HIGH})
  <2>1. 3 \in Nat /\ {LOW, MEDIUM, HIGH} \subseteq 0 .. 3 OBVIOUS
  <2>2. IsFiniteSet(0 .. 3) BY <2>1, FirstNumbers
  <2> QED BY <2>1, <2>2, FS_Subset
<1> QED BY <1>5, <1>6, FS_Subset

(* The materiality of a pair of versions: none when nothing differs, else the
   highest level a rule fired. *)
LEMMA MaterialityLevels ==
  ASSUME NEW old, NEW new
  PROVE  /\ Materiality(old, new) \in NONE .. HIGH
         /\ Materiality(old, new) = NONE <=> DiffFields(old, new) = {}
         /\ \A level \in Fired(old, new) :
              DiffFields(old, new) # {} => level <= Materiality(old, new)
<1> DEFINE fired == Fired(old, new)
<1>1. fired \subseteq {LOW, MEDIUM, HIGH} /\ IsFiniteSet(fired) BY FiredLevels
<1>2. fired # {} => Max(fired) \in fired /\ \A level \in fired : level <= Max(fired)
  <2>1. \A level \in fired : level \in Int BY <1>1
  <2> HIDE DEF fired
  <2> QED BY <1>1, <2>1, LargestNumber
<1>3. Materiality(old, new) =
        IF DiffFields(old, new) = {} THEN NONE
        ELSE IF fired = {} THEN LOW
        ELSE Max(fired)
  BY DEF Materiality, Join
<1> HIDE DEF fired
<1>4. CASE DiffFields(old, new) = {} BY <1>3, <1>4
<1>5. CASE DiffFields(old, new) # {} /\ fired = {}
  BY <1>3, <1>5 DEF fired
<1>6. CASE DiffFields(old, new) # {} /\ fired # {}
  <2>1. Materiality(old, new) = Max(fired) BY <1>3, <1>6
  <2>2. Max(fired) \in {LOW, MEDIUM, HIGH} BY <1>1, <1>2, <1>6
  <2> QED BY <1>2, <1>6, <2>1, <2>2 DEF fired
<1> QED BY <1>4, <1>5, <1>6

(* A phrase that the table ranks lower is in truth not more frequent. *)
LEMMA FrequenciesRanked ==
  ASSUME NEW a \in DOMAIN FrequencyRank, NEW b \in DOMAIN FrequencyRank,
         Below(Rank(a), Rank(b))
  PROVE  TimesAYear[a] <= TimesAYear[b]
<1> DEFINE Phrases == {"real_time", "daily", "weekly", "bi_weekly", "fortnightly", "monthly",
                       "quarterly", "semi_annual", "half_yearly", "yearly", "annually"}
<1>1. a \in Phrases /\ b \in Phrases BY DEF FrequencyRank
<1>2. PICK x \in Rank(a), y \in Rank(b) : x < y BY DEF Below
<1>3. ASSUME NEW c \in Phrases, NEW r \in Rank(c)
      PROVE  /\ r \in 0 .. 7 /\ TimesAYear[c] \in Nat
             /\ r = 7 => TimesAYear[c] = 10000
             /\ r = 6 => TimesAYear[c] = 365
             /\ r = 5 => TimesAYear[c] \in 26 .. 52
             /\ r = 4 => FALSE
             /\ r = 3 => TimesAYear[c] = 12
             /\ r = 2 => TimesAYear[c] = 4
             /\ r = 1 => TimesAYear[c] = 2
             /\ r = 0 => TimesAYear[c] \in 1 .. 2
  <2>1. r \in FrequencyRank[c] BY DEF Rank
  <2> QED BY <2>1 DEF FrequencyRank, TimesAYear
<1> QED BY <1>1, <1>2, <1>3

(* A rule of the pair fired HIGH. *)
LEMMA HighIsHigh ==
  ASSUME NEW old, NEW new, HIGH \in Fired(old, new), DiffFields(old, new) # {}
  PROVE  Materiality(old, new) = HIGH
<1>1. Materiality(old, new) \in NONE .. HIGH /\ HIGH <= Materiality(old, new)
  BY MaterialityLevels
<1> DEFINE level == Materiality(old, new)
<1> HIDE DEF level
<1>2. level = HIGH BY <1>1 DEF level
<1> QED BY <1>2 DEF level

LEMMA VersionsRatedRight ==
  ASSUME NEW old, NEW new, IsVersion(old), IsVersion(new)
  PROVE  LET level == Materiality(old, new) IN
         /\ Below(Days(new.deadline), Days(old.deadline)) => level = HIGH
         /\ Actors(old) \subseteq Actors(new) /\ Actors(old) # Actors(new) => level = HIGH
         /\ (old.evidence = "" /\ new.evidence # "") \/ (old.penalty = "" /\ new.penalty # "") =>
              level = HIGH
         /\ old.frequency # "" /\ new.frequency # "" =>
              (TimesAYear[new.frequency] > TimesAYear[old.frequency] => RequiresConfirmation(level))
         /\ level = NONE <=> old = new
<1> DEFINE level == Materiality(old, new)
           changed == DiffFields(old, new)
<1>1. ASSUME Below(Days(new.deadline), Days(old.deadline)) PROVE level = HIGH
  <2>1. PICK x \in Days(new.deadline), y \in Days(old.deadline) : x < y BY <1>1 DEF Below
  <2>2. old.deadline # new.deadline
    <3>1. SUFFICES ASSUME old.deadline = new.deadline PROVE FALSE OBVIOUS
    <3>2. old.deadline \in DOMAIN DeadlineDays /\ x \in DeadlineDays[old.deadline]
          /\ y \in DeadlineDays[old.deadline]
      BY <2>1, <3>1 DEF IsVersion, Days
    <3> QED BY <2>1, <3>2 DEF DeadlineDays
  <2>3. "deadline" \in changed BY <2>2 DEF DiffFields, Fields
  <2>4. DeadlineRule(old, new) = HIGH
    <3> DEFINE was == Days(old.deadline)
               is == Days(new.deadline)
    <3>1. DeadlineRule(old, new) =
            CASE was = {} \/ is = {} -> MEDIUM
              [] Below(is, was) -> HIGH
              [] Below(was, is) -> MEDIUM
              [] OTHER -> LOW
      BY DEF DeadlineRule
    <3>2. is = {x} /\ was = {y} /\ x \in Nat /\ y \in Nat
      <4>1. /\ new.deadline \in DOMAIN DeadlineDays /\ is = DeadlineDays[new.deadline]
            /\ old.deadline \in DOMAIN DeadlineDays /\ was = DeadlineDays[old.deadline]
        BY <2>1 DEF IsVersion, Days
      <4>2. x \in is /\ y \in was BY <2>1
      <4> HIDE DEF is, was
      <4> QED BY <4>1, <4>2 DEF DeadlineDays
    <3>3. ~(was = {} \/ is = {}) /\ Below(is, was) /\ ~Below(was, is)
      <4> HIDE DEF is, was
      <4> QED BY <2>1, <3>2 DEF Below
    <3> HIDE DEF was, is
    <3> QED BY <3>1, <3>3
  <2>5. HIGH \in Fired(old, new) BY <2>3, <2>4 DEF Fired
  <2> QED BY <2>3, <2>5, HighIsHigh
<1>2. ASSUME Actors(old) \subseteq Actors(new), Actors(old) # Actors(new) PROVE level = HIGH
  <2>1. old.actor # new.actor \/ old.applicability # new.applicability BY <1>2 DEF Actors
  <2>2. changed \intersect {"actor", "applicability"} # {} BY <2>1 DEF DiffFields, Fields
  <2>3. ActorRule(old, new) = HIGH BY <1>2 DEF ActorRule
  <2>4. HIGH \in Fired(old, new) BY <2>2, <2>3 DEF Fired
  <2> QED BY <2>2, <2>4, HighIsHigh
<1>3. ASSUME old.evidence = "", new.evidence # "" PROVE level = HIGH
  <2>1. "evidence" \in changed BY <1>3 DEF DiffFields, Fields
  <2>2. IntroducedRule(old.evidence, new.evidence) = HIGH BY <1>3 DEF IntroducedRule
  <2>3. HIGH \in Fired(old, new) BY <2>1, <2>2 DEF Fired
  <2> QED BY <2>1, <2>3, HighIsHigh
<1>4. ASSUME old.penalty = "", new.penalty # "" PROVE level = HIGH
  <2>1. "penalty" \in changed BY <1>4 DEF DiffFields, Fields
  <2>2. IntroducedRule(old.penalty, new.penalty) = HIGH BY <1>4 DEF IntroducedRule
  <2>3. HIGH \in Fired(old, new) BY <2>1, <2>2 DEF Fired
  <2> QED BY <2>1, <2>3, HighIsHigh
<1>5. ASSUME old.frequency # "", new.frequency # "",
             TimesAYear[new.frequency] > TimesAYear[old.frequency]
      PROVE  RequiresConfirmation(level)
  <2>1. old.frequency \in DOMAIN FrequencyRank /\ new.frequency \in DOMAIN FrequencyRank
    BY <1>5 DEF IsVersion
  <2>2. TimesAYear[old.frequency] \in Nat /\ TimesAYear[new.frequency] \in Nat
    BY <2>1 DEF FrequencyRank, TimesAYear
  <2>3. ~Below(Rank(new.frequency), Rank(old.frequency))
    <3> DEFINE a == new.frequency
               b == old.frequency
    <3>1. a \in DOMAIN FrequencyRank /\ b \in DOMAIN FrequencyRank
          /\ TimesAYear[b] \in Nat /\ TimesAYear[a] \in Nat /\ TimesAYear[a] > TimesAYear[b]
      BY <1>5, <2>1, <2>2
    <3>2. SUFFICES ASSUME Below(Rank(a), Rank(b)) PROVE FALSE OBVIOUS
    <3> HIDE DEF a, b
    <3>3. TimesAYear[a] <= TimesAYear[b] BY <3>1, <3>2, FrequenciesRanked
    <3> QED BY <3>1, <3>3
  <2>4. FrequencyRule(old, new) = MEDIUM BY <2>3 DEF FrequencyRule
  <2>5. "frequency" \in changed
    <3> DEFINE often == TimesAYear[new.frequency]
               was == TimesAYear[old.frequency]
    <3>1. old.frequency # new.frequency
      <4>1. often # was
        <5>1. often \in Nat /\ was \in Nat /\ often > was BY <1>5, <2>2
        <5> HIDE DEF often, was
        <5> QED BY <5>1
      <4> QED BY <4>1
    <3> QED BY <3>1 DEF DiffFields, Fields
  <2>6. MEDIUM \in Fired(old, new) BY <2>4, <2>5 DEF Fired
  <2>7. level \in NONE .. HIGH /\ MEDIUM <= level BY <2>5, <2>6, MaterialityLevels
  <2> QED BY <2>7 DEF RequiresConfirmation
<1>6. level = NONE <=> old = new
  <2>1. changed = {} <=> old = new
    <3>1. ASSUME changed = {} PROVE old = new
      <4>1. \A f \in Fields : old[f] = new[f] BY <3>1 DEF DiffFields
      <4>2. old = [f \in Fields |-> old[f]] /\ new = [f \in Fields |-> new[f]] BY DEF IsVersion
      <4> QED BY <4>1, <4>2
    <3> QED BY <3>1 DEF DiffFields
  <2> QED BY <2>1, MaterialityLevels
<1> QED BY <1>1, <1>2, <1>3, <1>4, <1>5, <1>6
-----------------------------------------------------------------------------
(* The engine chooses an input and computes its output once. *)
RatedInv ==
  /\ input \in Inputs
  /\ Computed("assess") => output = [level |-> Materiality(input.pair[1], input.pair[2])]

(* A shorter deadline, more actors, a first evidence requirement or penalty is
   HIGH, a duty that recurs more often needs confirmation, and only equal
   versions are NONE (policy_engine/changes.py: assess_materiality), whatever
   else changed between any two versions. *)
THEOREM StricterIsNeverUnderstated == EngineSpec => []NeverUnderstated
<1>1. EngineInit => RatedInv BY DEF EngineInit, RatedInv, Computed
<1>2. RatedInv /\ [EngineNext]_engineVars => RatedInv'
  BY DEF RatedInv, EngineNext, Match, Diff, Rate, Computed, engineVars
<1>3. RatedInv => NeverUnderstated
  <2> SUFFICES ASSUME RatedInv, Computed("assess") PROVE NeverUnderstated
    BY DEF NeverUnderstated
  <2> DEFINE old == input.pair[1]
             new == input.pair[2]
  <2>1. IsVersion(old) /\ IsVersion(new)
    BY EngineAssumption DEF RatedInv, Inputs, Computed, VersionsAssumption
  <2>2. output.level = Materiality(old, new) BY DEF RatedInv
  <2> DEFINE level == Materiality(old, new)
  <2>3. /\ Below(Days(new.deadline), Days(old.deadline)) => level = HIGH
        /\ Actors(old) \subseteq Actors(new) /\ Actors(old) # Actors(new) => level = HIGH
        /\ (old.evidence = "" /\ new.evidence # "") \/ (old.penalty = "" /\ new.penalty # "") =>
             level = HIGH
        /\ old.frequency # "" /\ new.frequency # "" =>
             (TimesAYear[new.frequency] > TimesAYear[old.frequency] => RequiresConfirmation(level))
        /\ level = NONE <=> old = new
    <3> HIDE DEF old, new
    <3> QED BY <2>1, VersionsRatedRight
  <2>4. output.level = level BY <2>2
  <2> HIDE DEF level
  <2> QED BY <2>3, <2>4 DEF NeverUnderstated
<1> QED BY <1>1, <1>2, <1>3, PTL DEF EngineSpec
-----------------------------------------------------------------------------
(* matching.py: the square assignment.  An order of the columns is a
   permutation. *)
Orders(size) == Injection(1 .. size, 1 .. size)

LEMMA OrdersAreOntos ==
  ASSUME NEW size \in Nat, NEW p \in Orders(size)
  PROVE  /\ p \in [1 .. size -> 1 .. size]
         /\ \A x, y \in 1 .. size : p[x] = p[y] => x = y
         /\ \A w \in 1 .. size : \E v \in 1 .. size : p[v] = w
<1> DEFINE S == 1 .. size
<1>1. IsFiniteSet(S) BY FirstNumbers
<1>2. p \in Injection(S, S) BY DEF Orders
<1> HIDE DEF S
<1>3. p \in Surjection(S, S) BY <1>1, <1>2, FS_Injection
<1>4. /\ p \in [S -> S]
      /\ \A x, y \in S : p[x] = p[y] => x = y
      /\ \A w \in S : \E v \in S : p[v] = w
  BY <1>2, <1>3 DEF Injection, Surjection, IsInjective
<1> QED BY <1>4 DEF S

SquareCosts(square, size) == \A i, j \in 1 .. size : square[<<i, j>>] \in Nat

LEMMA TotalsAreNumbers ==
  ASSUME NEW size \in Nat, NEW square, SquareCosts(square, size), NEW p \in Orders(size)
  PROVE  Assigned(square, size, p) \in Nat
<1> DEFINE S == 1 .. size
           f == [i \in 1 .. size |-> square[<<i, p[i]>>]]
<1>1. IsFiniteSet(S) BY FirstNumbers
<1>2. \A i \in S : f[i] \in Nat
  <2>1. \A i \in S : p[i] \in S BY OrdersAreOntos
  <2> QED BY <2>1 DEF SquareCosts
<1>3. Assigned(square, size, p) = SumFunctionOnSet(f, S) BY DEF Assigned
<1> HIDE DEF S, f
<1>4. CASE S = {} BY <1>3, <1>4, SumEmpty
<1>5. CASE S # {} BY <1>1, <1>2, <1>3, <1>5, SumAtLeast
<1> QED BY <1>4, <1>5

(* An optimal order exists, and none costs less. *)
LEMMA OptimaExist ==
  ASSUME NEW size \in Nat, NEW square, SquareCosts(square, size)
  PROVE  /\ LinearSumAssignment(square, size) # {}
         /\ \A p \in LinearSumAssignment(square, size) :
              /\ p \in Orders(size)
              /\ \A q \in Orders(size) : Assigned(square, size, p) <= Assigned(square, size, q)
<1> DEFINE total == [p \in Injection(1 .. size, 1 .. size) |-> Assigned(square, size, p)]
           T == {total[p] : p \in DOMAIN total}
           least == Min(T)
<1>1. LinearSumAssignment(square, size) = {p \in DOMAIN total : total[p] = least}
  BY DEF LinearSumAssignment
<1>2. DOMAIN total = Orders(size) BY DEF Orders
<1>3. \A p \in Orders(size) : total[p] = Assigned(square, size, p) BY DEF Orders
<1> HIDE DEF total
<1>4. T \subseteq Nat BY <1>2, <1>3, TotalsAreNumbers
<1>5. T # {}
  <2> DEFINE same == [i \in 1 .. size |-> i]
  <2>1. same \in Orders(size) BY DEF Orders, Injection, IsInjective
  <2> QED BY <1>2, <2>1
<1>6. least \in T /\ \A t \in T : least <= t
  <2> HIDE DEF T
  <2>1. \E n \in T : \A k \in T : n <= k BY <1>4, <1>5, LeastNumber
  <2> QED BY <2>1 DEF Min
<1>7. PICK p \in DOMAIN total : total[p] = least BY <1>6
<1>8. \A q \in DOMAIN total : least <= total[q] BY <1>6
<1> HIDE DEF least, T
<1> QED BY <1>1, <1>2, <1>3, <1>7, <1>8

LEMMA SquareIsCosts ==
  ASSUME NEW m \in Nat, NEW n \in Nat, NEW null \in Nat, NEW cost,
         \A cell \in (1 .. m) \X (1 .. n) : cost[cell] \in Nat
  PROVE  /\ SquareCosts(Square(cost, m, n, null), m + n)
         /\ \A i, j \in 1 .. m + n : Square(cost, m, n, null)[<<i, j>>] =
              IF i <= m
                THEN IF j <= n THEN IF cost[<<i, j>>] < null THEN cost[<<i, j>>] ELSE Forbidden
                     ELSE IF j = n + i THEN null ELSE Forbidden
                ELSE IF j <= n THEN IF i = m + j THEN null ELSE Forbidden
                     ELSE 0
<1>1. \A i, j \in 1 .. m + n : Square(cost, m, n, null)[<<i, j>>] =
        CASE i <= m /\ j <= n -> IF cost[<<i, j>>] < null THEN cost[<<i, j>>] ELSE Forbidden
          [] i <= m /\ j > n -> IF j = n + i THEN null ELSE Forbidden
          [] i > m /\ j <= n -> IF i = m + j THEN null ELSE Forbidden
          [] i > m /\ j > n -> 0
  BY DEF Square
<1>2. ASSUME NEW i \in 1 .. m + n, NEW j \in 1 .. m + n
      PROVE  Square(cost, m, n, null)[<<i, j>>] =
               IF i <= m
                 THEN IF j <= n THEN IF cost[<<i, j>>] < null THEN cost[<<i, j>>] ELSE Forbidden
                      ELSE IF j = n + i THEN null ELSE Forbidden
                 ELSE IF j <= n THEN IF i = m + j THEN null ELSE Forbidden
                      ELSE 0
  <2> DEFINE square == Square(cost, m, n, null)[<<i, j>>]
             c == cost[<<i, j>>]
  <2>1. square = CASE i <= m /\ j <= n -> IF c < null THEN c ELSE Forbidden
                   [] i <= m /\ j > n -> IF j = n + i THEN null ELSE Forbidden
                   [] i > m /\ j <= n -> IF i = m + j THEN null ELSE Forbidden
                   [] i > m /\ j > n -> 0
    BY <1>1
  <2> HIDE DEF square, c
  <2>2. square = IF i <= m
                   THEN IF j <= n THEN IF c < null THEN c ELSE Forbidden
                        ELSE IF j = n + i THEN null ELSE Forbidden
                   ELSE IF j <= n THEN IF i = m + j THEN null ELSE Forbidden
                        ELSE 0
    BY <2>1
  <2> QED BY <2>2 DEF square, c
<1>3. ASSUME NEW i \in 1 .. m + n, NEW j \in 1 .. m + n
      PROVE  Square(cost, m, n, null)[<<i, j>>] \in Nat
  <2> DEFINE square == Square(cost, m, n, null)[<<i, j>>]
             c == cost[<<i, j>>]
  <2>1. i <= m /\ j <= n => c \in Nat
    <3>1. i <= m /\ j <= n => <<i, j>> \in (1 .. m) \X (1 .. n) OBVIOUS
    <3> QED BY <3>1
  <2>2. square = IF i <= m
                   THEN IF j <= n THEN IF c < null THEN c ELSE Forbidden
                        ELSE IF j = n + i THEN null ELSE Forbidden
                   ELSE IF j <= n THEN IF i = m + j THEN null ELSE Forbidden
                        ELSE 0
    BY <1>2
  <2> HIDE DEF square, c
  <2>3. square \in Nat BY <2>1, <2>2 DEF Forbidden
  <2> QED BY <2>3 DEF square
<1> QED BY <1>2, <1>3 DEF SquareCosts

(* What is matched is always a one-to-one matching above the threshold. *)
LEMMA HungarianMatchesPairs ==
  ASSUME NEW m \in Nat, NEW n \in Nat, NEW null, NEW cost,
         NEW pairs \in HungarianMatchings(cost, m, n, null)
  PROVE  pairs \in Matchings(cost, m, n, null)
<1>1. CASE m = 0 \/ n = 0
  <2>1. pairs = {} BY <1>1 DEF HungarianMatchings
  <2> QED BY <2>1 DEF Matchings
<1>2. CASE ~(m = 0 \/ n = 0)
  <2>1. PICK p \in LinearSumAssignment(Reduction(cost, m, n, null), m + n) :
          pairs = Matched(cost, m, n, null, p)
    BY <1>2 DEF HungarianMatchings
  <2>2. p \in Orders(m + n) BY <2>1 DEF LinearSumAssignment, Orders
  <2>3. /\ p \in [1 .. m + n -> 1 .. m + n]
        /\ \A x, y \in 1 .. m + n : p[x] = p[y] => x = y
    <3> DEFINE size == m + n
    <3>1. size \in Nat /\ p \in Orders(size) BY <2>2
    <3> HIDE DEF size
    <3>2. /\ p \in [1 .. size -> 1 .. size]
          /\ \A x, y \in 1 .. size : p[x] = p[y] => x = y
      BY <3>1, OrdersAreOntos
    <3> QED BY <3>2 DEF size
  <2>4. pairs \subseteq {cell \in (1 .. m) \X (1 .. n) : cost[cell] < null}
    <3> SUFFICES ASSUME NEW i \in 1 .. m, p[i] <= n, cost[<<i, p[i]>>] < null
                 PROVE  <<i, p[i]>> \in (1 .. m) \X (1 .. n)
      BY <2>1 DEF Matched
    <3>1. i \in 1 .. m + n OBVIOUS
    <3>2. p[i] \in 1 .. n BY <2>3, <3>1
    <3> QED BY <3>2
  <2>5. ASSUME NEW x \in pairs, NEW y \in pairs, x # y PROVE x[1] # y[1] /\ x[2] # y[2]
    <3>1. PICK i \in 1 .. m : x = <<i, p[i]>> BY <2>1 DEF Matched
    <3>2. PICK k \in 1 .. m : y = <<k, p[k]>> BY <2>1 DEF Matched
    <3>3. i # k BY <2>5, <3>1, <3>2
    <3>4. i \in 1 .. m + n /\ k \in 1 .. m + n OBVIOUS
    <3>5. p[i] # p[k] BY <2>3, <3>3, <3>4
    <3> QED BY <3>1, <3>2, <3>3, <3>5
  <2> QED BY <2>4, <2>5 DEF Matchings
<1> QED BY <1>1, <1>2

(* A matching has as many pairs as first, and as second, members. *)
LEMMA FirstsAndSeconds ==
  ASSUME NEW A, IsFiniteSet(A), NEW B, IsFiniteSet(B), NEW pairs \in SUBSET (A \X B),
         \A p, q \in pairs : p # q => p[1] # q[1] /\ p[2] # q[2]
  PROVE  /\ IsFiniteSet(pairs)
         /\ Firsts(pairs) \subseteq A /\ Cardinality(Firsts(pairs)) = Cardinality(pairs)
         /\ Seconds(pairs) \subseteq B /\ Cardinality(Seconds(pairs)) = Cardinality(pairs)
<1>1. Firsts(pairs) \subseteq A /\ Seconds(pairs) \subseteq B BY DEF Firsts, Seconds
<1>2. IsFiniteSet(Firsts(pairs)) /\ IsFiniteSet(Seconds(pairs)) BY <1>1, FS_Subset
<1> DEFINE f == [p \in pairs |-> p[1]]
           s == [p \in pairs |-> p[2]]
<1>3. f \in Injection(pairs, Firsts(pairs)) /\ f \in Surjection(pairs, Firsts(pairs))
  BY DEF Injection, Surjection, IsInjective, Firsts
<1>4. s \in Injection(pairs, Seconds(pairs)) /\ s \in Surjection(pairs, Seconds(pairs))
  BY DEF Injection, Surjection, IsInjective, Seconds
<1> HIDE DEF f, s
<1> QED BY <1>1, <1>2, <1>3, <1>4, FS_Injection

(* An order that uses no forbidden cell. *)
Allowed(cost, m, n, null, q) ==
  /\ \A i \in 1 .. m : (q[i] <= n /\ cost[<<i, q[i]>>] < null) \/ q[i] = n + i
  /\ \A j \in 1 .. n : q[m + j] > n \/ q[m + j] = j

(* It costs what the matching costs that it stands for: each pair its cell, and
   each unmatched item, of either side, the null cost. *)
LEMMA AllowedCost ==
  ASSUME NEW m \in Nat, NEW n \in Nat, NEW null \in Nat, NEW cost,
         \A cell \in (1 .. m) \X (1 .. n) : cost[cell] \in Nat,
         NEW q \in Orders(m + n), Allowed(cost, m, n, null, q)
  PROVE  Assigned(Square(cost, m, n, null), m + n, q) =
           AssignmentCost(cost, m, n, null, Matched(cost, m, n, null, q))
<1> DEFINE N == 1 .. m + n
           A == 1 .. m
           B == 1 .. n
           M == Matched(cost, m, n, null, q)
           F == {i \in A : q[i] <= n}
           L == {i \in N : q[i] <= n}
           UA == A \ F
           UB == L \ F
           f == [i \in N |-> Square(cost, m, n, null)[<<i, q[i]>>]]
           g == [i \in N |-> IF i \in F THEN cost[<<i, q[i]>>] ELSE 0]
           h == [i \in N |-> IF i \in UA \union UB THEN null ELSE 0]
<1>1. /\ q \in [N -> N]
      /\ \A x, y \in N : q[x] = q[y] => x = y
      /\ \A w \in N : \E v \in N : q[v] = w
  <2> DEFINE size == m + n
  <2>1. size \in Nat /\ q \in Orders(size) /\ N = 1 .. size OBVIOUS
  <2> HIDE DEF size, N
  <2>2. /\ q \in [1 .. size -> 1 .. size]
        /\ \A x, y \in 1 .. size : q[x] = q[y] => x = y
        /\ \A w \in 1 .. size : \E v \in 1 .. size : q[v] = w
    BY <2>1, OrdersAreOntos
  <2> QED BY <2>1, <2>2
<1>2. /\ IsFiniteSet(N) /\ IsFiniteSet(A) /\ Cardinality(A) = m
      /\ IsFiniteSet(B) /\ Cardinality(B) = n
  <2>1. m + n \in Nat OBVIOUS
  <2> QED BY <2>1, FirstNumbers
<1>3. /\ A \subseteq N /\ B \subseteq N /\ F \subseteq A /\ F \subseteq L /\ L \subseteq N
      /\ \A i \in F : q[i] \in B /\ cost[<<i, q[i]>>] < null /\ cost[<<i, q[i]>>] \in Nat
  <2>1. A \subseteq N /\ B \subseteq N OBVIOUS
  <2>2. ASSUME NEW i \in F
        PROVE  q[i] \in B /\ cost[<<i, q[i]>>] < null /\ cost[<<i, q[i]>>] \in Nat
    <3>1. i \in A /\ i \in N /\ q[i] <= n BY <2>1
    <3>2. q[i] \in N BY <1>1, <3>1
    <3>3. q[i] \in B BY <3>1, <3>2
    <3>4. cost[<<i, q[i]>>] < null BY <3>1, <3>3 DEF Allowed
    <3>5. <<i, q[i]>> \in A \X B BY <3>1, <3>3
    <3> QED BY <3>3, <3>4, <3>5
  <2> QED BY <2>1, <2>2
<1>4. M = {<<i, q[i]>> : i \in F}
  <2>1. M = {<<i, q[i]>> : i \in {i \in A : q[i] <= n /\ cost[<<i, q[i]>>] < null}}
    BY DEF Matched
  <2>2. {i \in A : q[i] <= n /\ cost[<<i, q[i]>>] < null} = F BY <1>3
  <2> QED BY <2>1, <2>2
<1>5. Assigned(Square(cost, m, n, null), m + n, q) = SumFunctionOnSet(f, N) BY DEF Assigned
<1>6. \A i \in N : f[i] = g[i] + h[i] /\ g[i] \in Nat /\ h[i] \in Nat
  <2> SUFFICES ASSUME NEW i \in N PROVE f[i] = g[i] + h[i] /\ g[i] \in Nat /\ h[i] \in Nat
    OBVIOUS
  <2> DEFINE c == cost[<<i, q[i]>>]
  <2>1. q[i] \in N BY <1>1
  <2>2. f[i] = IF i <= m
                 THEN IF q[i] <= n THEN IF c < null THEN c ELSE Forbidden
                      ELSE IF q[i] = n + i THEN null ELSE Forbidden
                 ELSE IF q[i] <= n THEN IF i = m + q[i] THEN null ELSE Forbidden
                      ELSE 0
    BY <2>1, SquareIsCosts
  <2>3. CASE i <= m /\ q[i] <= n
    <3>1. i \in F /\ i \notin UA \union UB BY <2>3
    <3>2. c < null /\ c \in Nat BY <1>3, <3>1
    <3>3. g[i] = c /\ h[i] = 0 BY <3>1
    <3>4. f[i] = c BY <2>2, <2>3, <3>2
    <3> QED BY <3>2, <3>3, <3>4
  <2>4. CASE i <= m /\ ~(q[i] <= n)
    <3>1. i \in A /\ i \notin F /\ i \in UA BY <2>4
    <3>2. q[i] = n + i BY <2>4, <3>1 DEF Allowed
    <3>3. g[i] = 0 /\ h[i] = null BY <3>1
    <3>4. f[i] = null BY <2>2, <2>4, <3>2
    <3> QED BY <3>3, <3>4
  <2>5. CASE ~(i <= m) /\ q[i] <= n
    <3>1. i \notin F /\ i \in UB BY <2>5
    <3>2. i - m \in 1 .. n /\ m + (i - m) = i BY <2>5
    <3>3. q[m + (i - m)] > n \/ q[m + (i - m)] = i - m BY <3>2 DEF Allowed
    <3>4. i = m + q[i] BY <2>1, <2>5, <3>2, <3>3
    <3>5. g[i] = 0 /\ h[i] = null BY <3>1
    <3>6. f[i] = null BY <2>2, <2>5, <3>4
    <3> QED BY <3>5, <3>6
  <2>6. CASE ~(i <= m) /\ ~(q[i] <= n)
    <3>1. i \notin F /\ i \notin UA \union UB BY <2>6
    <3>2. g[i] = 0 /\ h[i] = 0 BY <3>1
    <3>3. f[i] = 0 BY <2>2, <2>6
    <3> QED BY <3>2, <3>3
  <2> QED BY <2>3, <2>4, <2>5, <2>6
<1>7. SumFunctionOnSet(f, N) = SumFunctionOnSet(g, N) + SumFunctionOnSet(h, N)
  <2>1. \A i \in N : g[i] \in Int /\ h[i] \in Int /\ f[i] = g[i] + h[i] BY <1>6
  <2> HIDE DEF N, f, g, h
  <2> QED BY <1>2, <2>1, SumAdded
<1>8. SumFunctionOnSet(g, N) = SumFunctionOnSet(cost, M)
  <2> DEFINE b == [i \in F |-> <<i, q[i]>>]
  <2>1. F \in SUBSET N /\ IsFiniteSet(F) BY <1>2, <1>3, FS_Subset
  <2>2. SumFunctionOnSet(g, N) = SumFunctionOnSet(g, F)
    <3>1. /\ \A y \in F : g[y] \in Int /\ g[y] = g[y]
          /\ \A y \in N \ F : g[y] = 0
      BY <1>6, <2>1
    <3> HIDE DEF N, F, g
    <3> QED BY <1>2, <2>1, <3>1, SumRestricted
  <2>3. b \in [F -> M] BY <1>4
  <2>4. \A x, y \in F : b[x] = b[y] => x = y OBVIOUS
  <2>5. \A t \in M : \E x \in F : b[x] = t BY <1>4
  <2>6. \A x \in F : g[x] \in Int /\ cost[b[x]] = g[x] BY <1>6, <2>1
  <2>7. SumFunctionOnSet(cost, M) = SumFunctionOnSet(g, F)
    <3>1. IsFiniteSet(F) BY <2>1
    <3> HIDE DEF F, M, b, g
    <3>2. \A x \in F : g[x] \in Int /\ cost[b[x]] = g[x] BY <2>6
    <3> QED BY <3>1, <2>3, <2>4, <2>5, <3>2, SumMapped, SMTT(60)
  <2> QED BY <2>2, <2>7
<1>9. Cardinality(F) = Cardinality(M) /\ Cardinality(F) \in Nat /\ IsFiniteSet(F)
  <2> DEFINE b == [i \in F |-> <<i, q[i]>>]
  <2>1. IsFiniteSet(F) BY <1>2, <1>3, FS_Subset
  <2>2. b \in Injection(F, M) /\ b \in Surjection(F, M)
    BY <1>4 DEF Injection, Surjection, IsInjective
  <2>3. Cardinality(M) = Cardinality(F)
    <3> HIDE DEF F, M, b
    <3> QED BY <2>1, <2>2, FS_Surjection
  <2> QED BY <2>1, <2>3, FS_CardinalityType
<1>10. Cardinality(L) = n /\ IsFiniteSet(L)
  <2> DEFINE r == [i \in L |-> q[i]]
  <2>1. IsFiniteSet(L) BY <1>2, FS_Subset
  <2>2. r \in [L -> B]
    <3>1. \A i \in L : q[i] \in B BY <1>1
    <3> QED BY <3>1
  <2>3. \A x, y \in L : r[x] = r[y] => x = y BY <1>1
  <2>4. \A w \in B : \E v \in L : r[v] = w
    <3> SUFFICES ASSUME NEW w \in B PROVE \E v \in L : r[v] = w OBVIOUS
    <3>1. PICK v \in N : q[v] = w BY <1>1, <1>3
    <3>2. v \in L BY <3>1
    <3> QED BY <3>1, <3>2
  <2>5. r \in Injection(L, B) /\ r \in Surjection(L, B)
    <3> HIDE DEF r, L, B
    <3> QED BY <2>2, <2>3, <2>4 DEF Injection, Surjection, IsInjective
  <2> HIDE DEF r, L, B
  <2> QED BY <1>2, <2>1, <2>5, FS_Injection
<1>11. /\ IsFiniteSet(UA \union UB)
       /\ Cardinality(UA \union UB) = m + n - 2 * Cardinality(M)
  <2>1. UA \intersect UB = {} /\ A \intersect F = F /\ L \intersect F = F BY <1>3
  <2>2. /\ IsFiniteSet(UA) /\ Cardinality(UA) = m - Cardinality(F)
        /\ IsFiniteSet(UB) /\ Cardinality(UB) = n - Cardinality(F)
    <3>1. IsFiniteSet(A \ F) /\ Cardinality(A \ F) = Cardinality(A) - Cardinality(A \intersect F)
          /\ IsFiniteSet(L \ F) /\ Cardinality(L \ F) = Cardinality(L) - Cardinality(L \intersect F)
      <4> HIDE DEF A, L, F
      <4> QED BY <1>2, <1>10, FS_Difference
    <3> QED BY <1>2, <1>10, <2>1, <3>1
  <2> HIDE DEF UA, UB
  <2>3. /\ IsFiniteSet(UA \union UB)
        /\ Cardinality(UA \union UB) = Cardinality(UA) + Cardinality(UB) - 0
    BY <2>1, <2>2, FS_Union, FS_EmptySet
  <2> HIDE DEF F, M
  <2> QED BY <1>9, <2>2, <2>3
<1>12. SumFunctionOnSet(h, N) = null * (m + n - 2 * Cardinality(M))
  <2> DEFINE U == UA \union UB
             k == [i \in U |-> null]
  <2>1. U \in SUBSET N BY <1>3
  <2>2. /\ \A y \in U : k[y] \in Int /\ h[y] = k[y]
        /\ \A y \in N \ U : h[y] = 0
    BY <2>1
  <2>3. \A y \in U : k[y] = null OBVIOUS
  <2>4. IsFiniteSet(U) /\ Cardinality(U) = m + n - 2 * Cardinality(M) BY <1>11
  <2> HIDE DEF N, U, h, k, M
  <2>5. SumFunctionOnSet(h, N) = SumFunctionOnSet(k, U) BY <1>2, <2>1, <2>2, SumRestricted
  <2>6. SumFunctionOnSet(k, U) = null * Cardinality(U) BY <2>3, <2>4, SumConstant
  <2> QED BY <2>4, <2>5, <2>6
<1> HIDE DEF N, M, f, g, h
<1> QED BY <1>5, <1>7, <1>8, <1>12 DEF AssignmentCost, M

(* Every matching is what some order without a forbidden cell stands for: an
   unmatched item takes its own dummy, and the dummies of a pair each other. *)
LEMMA OrderOfMatching ==
  ASSUME NEW m \in Nat, NEW n \in Nat, NEW null, NEW cost,
         NEW pairs \in Matchings(cost, m, n, null)
  PROVE  \E q \in Orders(m + n) :
           Allowed(cost, m, n, null, q) /\ Matched(cost, m, n, null, q) = pairs
<1> DEFINE N == 1 .. m + n
           A == 1 .. m
           B == 1 .. n
           To(i) == {j \in B : <<i, j>> \in pairs}
           From(j) == {i \in A : <<i, j>> \in pairs}
           Column(i) == IF To(i) = {} THEN n + i ELSE CHOOSE j \in To(i) : TRUE
           Dummy(j) == IF From(j) = {} THEN j ELSE n + (CHOOSE i \in From(j) : TRUE)
           q == [x \in N |-> IF x <= m THEN Column(x) ELSE Dummy(x - m)]
<1>1. /\ pairs \subseteq A \X B
      /\ \A x, y \in pairs : x # y => x[1] # y[1] /\ x[2] # y[2]
      /\ \A x \in pairs : cost[x] < null
  BY DEF Matchings
<1>2. ASSUME NEW i \in A, NEW j \in B, <<i, j>> \in pairs
      PROVE  To(i) = {j} /\ From(j) = {i} /\ Column(i) = j /\ Dummy(j) = n + i
  <2>1. \A k \in B : <<i, k>> \in pairs => k = j
    <3> SUFFICES ASSUME NEW k \in B, <<i, k>> \in pairs, k # j PROVE FALSE OBVIOUS
    <3>1. <<i, k>> # <<i, j>> OBVIOUS
    <3>2. <<i, k>>[1] # <<i, j>>[1] BY <1>1, <1>2, <3>1
    <3> QED BY <3>2
  <2>2. \A k \in A : <<k, j>> \in pairs => k = i
    <3> SUFFICES ASSUME NEW k \in A, <<k, j>> \in pairs, k # i PROVE FALSE OBVIOUS
    <3>1. <<k, j>> # <<i, j>> OBVIOUS
    <3>2. <<k, j>>[2] # <<i, j>>[2] BY <1>1, <1>2, <3>1
    <3> QED BY <3>2
  <2>3. To(i) = {j} /\ From(j) = {i} BY <1>2, <2>1, <2>2
  <2> QED BY <2>3
<1>3. \A i \in A : Column(i) = n + i \/ (Column(i) \in B /\ <<i, Column(i)>> \in pairs)
  <2> SUFFICES ASSUME NEW i \in A, To(i) # {}
               PROVE  Column(i) \in B /\ <<i, Column(i)>> \in pairs
    OBVIOUS
  <2>1. PICK j \in B : <<i, j>> \in pairs OBVIOUS
  <2>2. Column(i) = j
    <3> HIDE DEF Column
    <3> QED BY <1>2, <2>1
  <2> QED BY <2>1, <2>2
<1>4. \A j \in B : \/ Dummy(j) = j /\ From(j) = {}
                   \/ \E i \in A : <<i, j>> \in pairs /\ Dummy(j) = n + i
  <2> SUFFICES ASSUME NEW j \in B, From(j) # {}
               PROVE  \E i \in A : <<i, j>> \in pairs /\ Dummy(j) = n + i
    OBVIOUS
  <2>1. PICK i \in A : <<i, j>> \in pairs OBVIOUS
  <2>2. Dummy(j) = n + i
    <3> HIDE DEF Dummy
    <3> QED BY <1>2, <2>1
  <2> QED BY <2>1, <2>2
<1>5. /\ \A i \in A : i \in N /\ q[i] = Column(i)
      /\ \A j \in B : m + j \in N /\ q[m + j] = Dummy(j)
      /\ \A x \in N : x \in A \/ (x - m \in B /\ x = m + (x - m))
  <2>1. \A i \in A : i \in N /\ i <= m OBVIOUS
  <2>2. \A j \in B : m + j \in N /\ ~(m + j <= m) /\ (m + j) - m = j OBVIOUS
  <2>3. \A x \in N : x \in A \/ (x - m \in B /\ x = m + (x - m)) OBVIOUS
  <2> HIDE DEF N, A, B, Column, Dummy
  <2> QED BY <2>1, <2>2, <2>3
<1> HIDE DEF q, Column, Dummy
<1>5a. B \subseteq N /\ \A i \in A : n + i \in N
  OBVIOUS
<1>6. ASSUME NEW x \in N PROVE q[x] \in N
  <2>1. CASE x \in A
    <3> HIDE DEF A, B, N
    <3> QED BY <1>5a, <1>3, <1>5, <2>1
  <2>2. CASE x - m \in B /\ x = m + (x - m)
    <3> DEFINE j == x - m
    <3>1. j \in B /\ q[x] = Dummy(j) BY <1>5, <2>2
    <3> HIDE DEF j, A, B, N
    <3>2. Dummy(j) \in N BY <1>5a, <1>4, <3>1
    <3> QED BY <3>1, <3>2
  <2> QED BY <1>5, <2>1, <2>2
<1>7. ASSUME NEW i \in A, NEW k \in A, Column(i) = Column(k) PROVE i = k
  <2>1. CASE Column(i) = n + i /\ Column(k) = n + k
    <3>1. n + i = n + k BY <1>7, <2>1
    <3> QED BY <3>1
  <2>2. CASE Column(i) \in B /\ Column(k) \in B
    <3>1. <<i, Column(i)>> \in pairs /\ <<k, Column(k)>> \in pairs BY <1>3, <2>2
    <3> QED BY <1>1, <1>7, <3>1
  <2>3. CASE Column(i) = n + i /\ Column(k) \in B BY <1>7, <2>3
  <2>4. CASE Column(i) \in B /\ Column(k) = n + k BY <1>7, <2>4
  <2> QED BY <1>3, <2>1, <2>2, <2>3, <2>4
<1>8. ASSUME NEW j \in B, NEW l \in B, Dummy(j) = Dummy(l) PROVE j = l
  <2>1. CASE Dummy(j) = j /\ Dummy(l) = l BY <1>8, <2>1
  <2>2. ASSUME NEW i \in A, NEW k \in A, <<i, j>> \in pairs, Dummy(j) = n + i,
               <<k, l>> \in pairs, Dummy(l) = n + k
        PROVE  j = l
    <3>1. n + i = n + k BY <1>8, <2>2
    <3>2. i = k BY <3>1
    <3> QED BY <1>1, <2>2, <3>2
  <2>3. ASSUME NEW k \in A, Dummy(j) = j, Dummy(l) = n + k PROVE FALSE
    <3>1. j = n + k BY <1>8, <2>3
    <3> QED BY <3>1
  <2>4. ASSUME NEW k \in A, Dummy(l) = l, Dummy(j) = n + k PROVE FALSE
    <3>1. l = n + k BY <1>8, <2>4
    <3> QED BY <3>1
  <2> QED BY <1>4, <2>1, <2>2, <2>3, <2>4
<1>9. ASSUME NEW i \in A, NEW j \in B PROVE Column(i) # Dummy(j)
  <2> SUFFICES ASSUME Column(i) = Dummy(j) PROVE FALSE OBVIOUS
  <2>1. CASE Dummy(j) = j /\ From(j) = {}
    <3>1. Column(i) = j /\ j # n + i BY <2>1
    <3>2. <<i, j>> \in pairs BY <1>3, <3>1
    <3> QED BY <2>1, <3>2
  <2>2. ASSUME NEW k \in A, <<k, j>> \in pairs, Dummy(j) = n + k PROVE FALSE
    <3>1. Column(i) = n + i
      <4>1. Column(i) = n + k /\ n + k \notin B BY <2>2
      <4> QED BY <1>3, <4>1
    <3>2. i = k BY <2>2, <3>1
    <3>3. Column(i) = j BY <1>2, <2>2, <3>2
    <3> QED BY <3>1, <3>3
  <2> QED BY <1>4, <2>1, <2>2
<1>10. ASSUME NEW x \in N, NEW y \in N, q[x] = q[y] PROVE x = y
  <2>1. CASE x \in A /\ y \in A
    <3>1. Column(x) = Column(y) BY <1>5, <1>10, <2>1
    <3> QED BY <1>7, <2>1, <3>1
  <2>2. CASE x \in A /\ y - m \in B /\ y = m + (y - m)
    <3>1. q[x] = Column(x) /\ q[y] = Dummy(y - m) BY <1>5, <2>2
    <3> QED BY <1>9, <1>10, <2>2, <3>1
  <2>3. CASE x - m \in B /\ x = m + (x - m) /\ y \in A
    <3>1. q[x] = Dummy(x - m) /\ q[y] = Column(y) BY <1>5, <2>3
    <3> QED BY <1>9, <1>10, <2>3, <3>1
  <2>4. CASE x - m \in B /\ x = m + (x - m) /\ y - m \in B /\ y = m + (y - m)
    <3>1. q[x] = Dummy(x - m) /\ q[y] = Dummy(y - m) BY <1>5, <2>4
    <3>2. x - m = y - m BY <1>8, <1>10, <2>4, <3>1
    <3> QED BY <3>2
  <2> QED BY <1>5, <2>1, <2>2, <2>3, <2>4
<1>11. q \in Orders(m + n)
  <2>1. q = [x \in N |-> q[x]] BY DEF q
  <2>2. q \in [N -> N] BY <1>6, <2>1
  <2>3. q \in Injection(N, N)
    <3> HIDE DEF N
    <3> QED BY <1>10, <2>2 DEF Injection, IsInjective
  <2> QED BY <2>3 DEF Orders
<1>12. Allowed(cost, m, n, null, q)
  <2>1. ASSUME NEW i \in A
        PROVE  (q[i] <= n /\ cost[<<i, q[i]>>] < null) \/ q[i] = n + i
    <3>1. CASE q[i] = n + i BY <3>1
    <3>2. CASE q[i] \in B /\ <<i, q[i]>> \in pairs BY <1>1, <3>2
    <3> QED BY <1>3, <1>5, <3>1, <3>2
  <2>2. ASSUME NEW j \in B PROVE q[m + j] > n \/ q[m + j] = j
    <3>1. q[m + j] = Dummy(j) BY <1>5
    <3>2. CASE Dummy(j) = j BY <3>1, <3>2
    <3>3. ASSUME NEW i \in A, Dummy(j) = n + i PROVE q[m + j] > n
      <4>1. q[m + j] = n + i BY <3>1, <3>3
      <4>2. n + i > n OBVIOUS
      <4> HIDE DEF A, B, N
      <4> QED BY <4>1, <4>2
    <3> QED BY <1>4, <3>2, <3>3
  <2> QED BY <2>1, <2>2 DEF Allowed
<1>13. Matched(cost, m, n, null, q) = pairs
  <2>1. ASSUME NEW i \in A, q[i] <= n, cost[<<i, q[i]>>] < null
        PROVE  <<i, q[i]>> \in pairs
    <3>1. q[i] = Column(i) /\ q[i] # n + i BY <1>5, <2>1
    <3> QED BY <1>3, <3>1
  <2>2. ASSUME NEW x \in pairs PROVE x \in Matched(cost, m, n, null, q)
    <3>1. PICK i \in A, j \in B : x = <<i, j>> BY <1>1
    <3>2. q[i] = j BY <1>2, <1>5, <2>2, <3>1
    <3>3. q[i] <= n /\ cost[<<i, q[i]>>] < null BY <1>1, <3>1, <3>2
    <3>4. i \in {i_1 \in A : q[i_1] <= n /\ cost[<<i_1, q[i_1]>>] < null} BY <3>3
    <3> QED BY <3>1, <3>2, <3>4 DEF Matched
  <2> QED BY <2>1, <2>2 DEF Matched
<1> QED BY <1>11, <1>12, <1>13

(* The reduction is exact: an optimal order uses no forbidden cell, since
   leaving everything unmatched costs less than one, and no matching costs less
   than the matching it stands for. *)
LEMMA HungarianIsOptimal ==
  ASSUME NEW m \in Nat, NEW n \in Nat, NEW null \in Nat, NEW cost,
         \A cell \in (1 .. m) \X (1 .. n) : cost[cell] \in Nat,
         null * (m + n) < Forbidden,
         NEW found \in HungarianMatchings(cost, m, n, null),
         NEW pairs \in Matchings(cost, m, n, null)
  PROVE  AssignmentCost(cost, m, n, null, found) <= AssignmentCost(cost, m, n, null, pairs)
<1> DEFINE size == m + n
           square == Square(cost, m, n, null)
           paid(p) == Assigned(square, size, p)
           price(M) == AssignmentCost(cost, m, n, null, M)
<1>1. size \in Nat /\ SquareCosts(square, size) BY SquareIsCosts
<1>2. ASSUME NEW M \in Matchings(cost, m, n, null)
      PROVE  \E q \in Orders(size) : paid(q) = price(M)
  <2>1. PICK q \in Orders(m + n) :
          Allowed(cost, m, n, null, q) /\ Matched(cost, m, n, null, q) = M
    BY OrderOfMatching
  <2>2. paid(q) = price(M) BY <2>1, AllowedCost
  <2> QED BY <2>1, <2>2
<1>3. CASE m = 0 \/ n = 0
  <2>1. found = {} BY <1>3 DEF HungarianMatchings
  <2>2. pairs = {} BY <1>3 DEF Matchings
  <2>3. price({}) \in Nat
    <3>1. {} \in Matchings(cost, m, n, null) BY DEF Matchings
    <3>2. PICK q \in Orders(size) : paid(q) = price({}) BY <1>2, <3>1
    <3> HIDE DEF size, square
    <3>3. paid(q) \in Nat BY <1>1, TotalsAreNumbers
    <3> QED BY <3>2, <3>3
  <2> DEFINE c == price({})
  <2>4. c \in Nat /\ price(found) = c /\ price(pairs) = c BY <2>1, <2>2, <2>3
  <2> HIDE DEF c
  <2> QED BY <2>4
<1>4. CASE ~(m = 0 \/ n = 0)
  <2>1. PICK p \in LinearSumAssignment(square, size) : found = Matched(cost, m, n, null, p)
    BY <1>4 DEF HungarianMatchings, Reduction
  <2>2. p \in Orders(size) /\ \A q \in Orders(size) : paid(p) <= paid(q)
    <3> HIDE DEF size, square
    <3> QED BY <1>1, <2>1, OptimaExist
  <2>3. paid(p) < Forbidden /\ paid(p) \in Nat
    <3>1. {} \in Matchings(cost, m, n, null) BY DEF Matchings
    <3>2. price({}) = null * (m + n)
      <4>1. SumFunctionOnSet(cost, {}) = 0 /\ Cardinality({}) = 0 BY SumEmpty, FS_EmptySet
      <4>2. price({}) = 0 + null * (m + n - 2 * 0) BY <4>1 DEF AssignmentCost
      <4>3. 0 + null * (m + n - 2 * 0) = null * (m + n) OBVIOUS
      <4> HIDE DEF price
      <4> QED BY <4>2, <4>3
    <3>3. PICK q \in Orders(size) : paid(q) = price({}) BY <1>2, <3>1
    <3>4. paid(p) \in Nat /\ paid(q) \in Nat /\ paid(p) <= paid(q)
      <4> HIDE DEF size, square
      <4> QED BY <1>1, <2>2, TotalsAreNumbers
    <3> DEFINE a == paid(p)
               b == paid(q)
               c == null * (m + n)
    <3>5. a \in Nat /\ b \in Nat /\ a <= b /\ b = c /\ c < Forbidden
      BY <3>2, <3>3, <3>4
    <3> HIDE DEF a, b, c
    <3>6. a < Forbidden /\ a \in Nat BY <3>5 DEF Forbidden
    <3> QED BY <3>6 DEF a
  <2>4. \A i \in 1 .. size : square[<<i, p[i]>>] # Forbidden
    <3> DEFINE S == 1 .. size
               f == [i \in S |-> square[<<i, p[i]>>]]
    <3>1. IsFiniteSet(S)
      <4> HIDE DEF size
      <4> QED BY <1>1, FirstNumbers
    <3>2. \A i \in S : p[i] \in S
      <4> HIDE DEF size
      <4> QED BY <1>1, <2>2, OrdersAreOntos
    <3>3. \A i \in S : f[i] \in Nat
      <4> HIDE DEF square, size
      <4> QED BY <1>1, <3>2 DEF SquareCosts
    <3>4. paid(p) = SumFunctionOnSet(f, S) BY DEF Assigned
    <3> SUFFICES ASSUME NEW i \in S, square[<<i, p[i]>>] = Forbidden PROVE FALSE OBVIOUS
    <3>5. f[i] = Forbidden OBVIOUS
    <3> HIDE DEF S, f
    <3>6. Forbidden <= SumFunctionOnSet(f, S) BY <3>1, <3>3, <3>5, SumAtLeast
    <3>7. Forbidden <= paid(p) BY <3>4, <3>6
    <3> DEFINE a == paid(p)
    <3>8. a < Forbidden /\ a \in Nat /\ Forbidden <= a BY <2>3, <3>7
    <3> HIDE DEF a
    <3> QED BY <3>8 DEF Forbidden
  <2>5. Allowed(cost, m, n, null, p)
    <3>1. \A i \in 1 .. size : p[i] \in 1 .. size
      <4> HIDE DEF size
      <4> QED BY <1>1, <2>2, OrdersAreOntos
    <3>2. \A i, j \in 1 .. size : square[<<i, j>>] =
            IF i <= m
              THEN IF j <= n THEN IF cost[<<i, j>>] < null THEN cost[<<i, j>>] ELSE Forbidden
                   ELSE IF j = n + i THEN null ELSE Forbidden
              ELSE IF j <= n THEN IF i = m + j THEN null ELSE Forbidden
                   ELSE 0
      BY SquareIsCosts
    <3>3. ASSUME NEW i \in 1 .. m
          PROVE  (p[i] <= n /\ cost[<<i, p[i]>>] < null) \/ p[i] = n + i
      <4>1. i \in 1 .. size /\ i <= m OBVIOUS
      <4>2. p[i] \in 1 .. size /\ square[<<i, p[i]>>] # Forbidden BY <2>4, <3>1, <4>1
      <4>3. square[<<i, p[i]>>] =
              IF p[i] <= n
                THEN IF cost[<<i, p[i]>>] < null THEN cost[<<i, p[i]>>] ELSE Forbidden
                ELSE IF p[i] = n + i THEN null ELSE Forbidden
        BY <3>2, <4>1, <4>2
      <4> HIDE DEF square, size
      <4> QED BY <4>2, <4>3
    <3>4. ASSUME NEW j \in 1 .. n PROVE p[m + j] > n \/ p[m + j] = j
      <4>1. m + j \in 1 .. size /\ ~(m + j <= m) OBVIOUS
      <4>2. p[m + j] \in 1 .. size /\ square[<<m + j, p[m + j]>>] # Forbidden
        BY <2>4, <3>1, <4>1
      <4>3. square[<<m + j, p[m + j]>>] =
              IF p[m + j] <= n THEN IF m + j = m + p[m + j] THEN null ELSE Forbidden ELSE 0
        BY <3>2, <4>1, <4>2
      <4>4. CASE p[m + j] <= n
        <5> DEFINE c == p[m + j]
        <5>1. m + j = m + c /\ c \in Int BY <4>2, <4>3, <4>4
        <5> HIDE DEF c
        <5>2. c = j BY <5>1
        <5> QED BY <5>2 DEF c
      <4>5. CASE ~(p[m + j] <= n) BY <4>2, <4>5
      <4> QED BY <4>4, <4>5
    <3> QED BY <3>3, <3>4 DEF Allowed
  <2>6. paid(p) = price(found) BY <2>1, <2>2, <2>5, AllowedCost
  <2>7. PICK q \in Orders(size) : paid(q) = price(pairs) BY <1>2
  <2>8. paid(p) <= paid(q) BY <2>2
  <2> QED BY <2>6, <2>7, <2>8
<1> QED BY <1>3, <1>4

(* Where the output of a matching problem comes from. *)
MatchInv ==
  /\ input \in Inputs
  /\ Computed("match") =>
       LET x == input.problem IN
       output \in [pairs : HungarianMatchings(x.cost, x.m, x.n, TitleNull)]

(* The matching that is computed is a one-to-one matching of pairs above the
   threshold that costs no more than any other (matching.py:
   hungarian_matching), for every matrix. *)
THEOREM MatchesAreOptimal == EngineSpec => []MatchingIsOptimal
<1>1. EngineInit => MatchInv BY DEF EngineInit, MatchInv, Computed
<1>2. MatchInv /\ [EngineNext]_engineVars => MatchInv'
  BY DEF MatchInv, EngineNext, Match, Diff, Rate, Computed, engineVars
<1>3. MatchInv => MatchingIsOptimal
  <2> SUFFICES ASSUME MatchInv, Computed("match") PROVE MatchingIsOptimal
    BY DEF MatchingIsOptimal
  <2> DEFINE x == input.problem
             m == x.m
             n == x.n
             cost == x.cost
             found == output.pairs
  <2>1. /\ m \in Nat /\ n \in Nat /\ TitleNull * (m + n) < Forbidden
        /\ \A cell \in (1 .. m) \X (1 .. n) : cost[cell] \in Nat
    BY EngineAssumption DEF MatchInv, Inputs, Computed, MatricesAssumption
  <2>2. found \in HungarianMatchings(cost, m, n, TitleNull) BY DEF MatchInv
  <2>3. TitleNull \in Nat BY DEF TitleNull
  <2>4. /\ found \in Matchings(cost, m, n, TitleNull)
        /\ \A pairs \in Matchings(cost, m, n, TitleNull) :
             AssignmentCost(cost, m, n, TitleNull, found) <=
               AssignmentCost(cost, m, n, TitleNull, pairs)
    <3> HIDE DEF m, n, cost, found
    <3> QED BY <2>1, <2>2, <2>3, HungarianMatchesPairs, HungarianIsOptimal
  <2> QED BY <2>4 DEF MatchingIsOptimal
<1> QED BY <1>1, <1>2, <1>3, PTL DEF EngineSpec
-----------------------------------------------------------------------------
(* structural_diff.py: the alignment by title, section by section. *)
Aligning(old, new, k, g) ==
  g = [i \in 0 .. k |-> IF i = 0 THEN {} ELSE Align(old, new, g[i - 1], i)]

LEMMA AlignmentExists ==
  ASSUME NEW old, NEW new, NEW k \in Nat
  PROVE  \E g : Aligning(old, new, k, g)
<1> DEFINE Bad == {i \in Nat : ~\E g : Aligning(old, new, i, g)}
<1>1. Bad = {}
  <2> SUFFICES ASSUME Bad # {} PROVE FALSE OBVIOUS
  <2>1. PICK i \in Bad : \A j \in Bad : i <= j
    <3>1. Bad \subseteq Nat OBVIOUS
    <3> HIDE DEF Bad
    <3> QED BY <3>1, LeastNumber
  <2>2. i \in Nat /\ \A g : ~Aligning(old, new, i, g) OBVIOUS
  <2>3. CASE i = 0
    <3> DEFINE g == [j \in 0 .. 0 |-> {}]
    <3>1. g = [j \in 0 .. 0 |-> IF j = 0 THEN {} ELSE Align(old, new, g[j - 1], j)] OBVIOUS
    <3> QED BY <2>2, <2>3, <3>1 DEF Aligning
  <2>4. CASE i # 0
    <3>1. i - 1 \in Nat /\ i - 1 \notin Bad
      <4>1. i - 1 \in Nat /\ ~(i <= i - 1) BY <2>2, <2>4
      <4> HIDE DEF Bad
      <4> QED BY <2>1, <4>1
    <3>2. PICK g : Aligning(old, new, i - 1, g) BY <3>1
    <3> DEFINE h == [j \in 0 .. i |-> IF j = i THEN Align(old, new, g[i - 1], i) ELSE g[j]]
    <3>3. ASSUME NEW j \in 0 .. i
          PROVE  h[j] = IF j = 0 THEN {} ELSE Align(old, new, h[j - 1], j)
      <4>1. CASE j = 0
        <5>1. g[0] = {} BY <2>2, <3>1, <3>2 DEF Aligning
        <5> QED BY <2>4, <4>1, <5>1
      <4>2. CASE j # 0
        <5>1. j - 1 \in 0 .. i - 1 /\ j - 1 \in 0 .. i /\ j - 1 # i BY <2>2, <4>2
        <5>2. h[j - 1] = g[j - 1] BY <5>1
        <5>3. CASE j = i
          <6>1. h[j] = Align(old, new, g[i - 1], i) BY <5>3
          <6> HIDE DEF h
          <6> QED BY <4>2, <5>2, <5>3, <6>1
        <5>4. CASE j # i
          <6>1. j \in 0 .. i - 1 BY <2>2, <5>4
          <6>2. g[j] = Align(old, new, g[j - 1], j) BY <3>2, <4>2, <6>1 DEF Aligning
          <6>3. h[j] = g[j] BY <5>4
          <6> HIDE DEF h
          <6> QED BY <4>2, <5>2, <6>2, <6>3
        <5> QED BY <5>3, <5>4
      <4> QED BY <4>1, <4>2
    <3>4. h = [j \in 0 .. i |-> h[j]] OBVIOUS
    <3> HIDE DEF h
    <3>5. h = [j \in 0 .. i |-> IF j = 0 THEN {} ELSE Align(old, new, h[j - 1], j)]
      BY <3>3, <3>4
    <3> QED BY <2>2, <3>5 DEF Aligning
  <2> QED BY <2>3, <2>4
<1> QED BY <1>1

(* The steps of the alignment. *)
Aligned(old, new) == CHOOSE g : Aligning(old, new, Len(old), g)

LEMMA AlignmentSteps ==
  ASSUME NEW old, NEW new, Len(old) \in Nat
  PROVE  /\ AlignSections(old, new) = Aligned(old, new)[Len(old)]
         /\ Aligned(old, new)[0] = {}
         /\ \A i \in 1 .. Len(old) :
              Aligned(old, new)[i] = Align(old, new, Aligned(old, new)[i - 1], i)
<1>1. Aligning(old, new, Len(old), Aligned(old, new)) BY AlignmentExists DEF Aligned
<1>2. AlignSections(old, new) = Aligned(old, new)[Len(old)]
  BY DEF AlignSections, Aligned, Aligning
<1> DEFINE g == Aligned(old, new)
           k == Len(old)
<1>3. g = [i \in 0 .. k |-> IF i = 0 THEN {} ELSE Align(old, new, g[i - 1], i)]
  BY <1>1 DEF Aligning
<1> HIDE DEF g, k
<1>4. k \in Nat BY DEF k
<1>5. g[0] = {} BY <1>3, <1>4
<1>6. \A i \in 1 .. k : g[i] = Align(old, new, g[i - 1], i)
  <2> TAKE i \in 1 .. k
  <2>1. i \in 0 .. k /\ i # 0 BY <1>4
  <2> QED BY <1>3, <2>1
<1> QED BY <1>2, <1>5, <1>6 DEF g, k

(* One-to-one pairs of sections. *)
OneToOne(old, new, pairs) ==
  /\ pairs \subseteq (DOMAIN old) \X (DOMAIN new)
  /\ \A p, q \in pairs : p # q => p[1] # q[1] /\ p[2] # q[2]

LEMMA NearestIsFree ==
  ASSUME NEW s, s.number \in Nat, NEW new, NEW free, free \subseteq DOMAIN new, free # {},
         IsDocument(new)
  PROVE  /\ Nearest(s, new, free) \in free
         /\ \A k \in free : Distance(s, new[Nearest(s, new, free)]) <= Distance(s, new[k])
<1>0. DOMAIN new = 1 .. Len(new) /\ Len(new) \in Nat BY DEF IsDocument, IsSequence
<1>1. \A j \in free : Distance(s, new[j]) \in Nat
  <2> TAKE j \in free
  <2> DEFINE a == s.number
             b == new[j].number
  <2>1. a \in Nat /\ b \in Nat BY DEF IsDocument
  <2>2. Distance(s, new[j]) = IF a > b THEN a - b ELSE b - a BY DEF Distance
  <2> HIDE DEF a, b
  <2> QED BY <2>1, <2>2
<1> DEFINE T == {Distance(s, new[j]) : j \in free}
<1>2. PICK j \in free : \A k \in free : Distance(s, new[j]) <= Distance(s, new[k])
  <2>1. T \subseteq Nat /\ T # {} BY <1>1
  <2> HIDE DEF T
  <2>2. PICK t \in T : \A u \in T : t <= u BY <2>1, LeastNumber
  <2> QED BY <2>2 DEF T
<1> DEFINE ties == {k \in free : Distance(s, new[k]) = Distance(s, new[j])}
<1>3. PICK i \in ties : \A k \in ties : i <= k
  <2>1. ties \subseteq Nat /\ ties # {} BY <1>0
  <2> HIDE DEF ties
  <2> QED BY <2>1, LeastNumber
<1>4. \A k \in free : \/ Distance(s, new[i]) < Distance(s, new[k])
                      \/ Distance(s, new[i]) = Distance(s, new[k]) /\ i <= k
  <2> TAKE k \in free
  <2> DEFINE a == Distance(s, new[i])
             b == Distance(s, new[k])
  <2>1. a \in Nat /\ b \in Nat /\ a <= b BY <1>1, <1>2
  <2>2. a = b => i <= k BY <1>3
  <2> HIDE DEF a, b
  <2>3. a < b \/ (a = b /\ i <= k) BY <2>1, <2>2
  <2> QED BY <2>3 DEF a, b
<1>5. /\ Nearest(s, new, free) \in free
      /\ \A k \in free :
           \/ Distance(s, new[Nearest(s, new, free)]) < Distance(s, new[k])
           \/ /\ Distance(s, new[Nearest(s, new, free)]) = Distance(s, new[k])
              /\ Nearest(s, new, free) <= k
  BY <1>3, <1>4 DEF Nearest
<1> DEFINE n == Nearest(s, new, free)
<1>6. \A k \in free : Distance(s, new[n]) <= Distance(s, new[k])
  <2> TAKE k \in free
  <2> DEFINE a == Distance(s, new[n])
             b == Distance(s, new[k])
  <2>1. a \in Nat /\ b \in Nat /\ (a < b \/ a = b) BY <1>1, <1>5
  <2> HIDE DEF a, b, n
  <2>2. a <= b BY <2>1
  <2> QED BY <2>2 DEF a, b
<1> QED BY <1>5, <1>6

(* The pairs of the first i sections are one-to-one and of equal titles. *)
LEMMA AlignmentOneToOne ==
  ASSUME NEW old, NEW new, IsDocument(old), IsDocument(new), NEW i \in 0 .. Len(old)
  PROVE  /\ OneToOne(old, new, Aligned(old, new)[i])
         /\ \A p \in Aligned(old, new)[i] : p[1] <= i /\ old[p[1]].title = new[p[2]].title
<1>0. /\ DOMAIN old = 1 .. Len(old) /\ Len(old) \in Nat
      /\ DOMAIN new = 1 .. Len(new) /\ Len(new) \in Nat
  BY DEF IsDocument, IsSequence
<1> DEFINE g == Aligned(old, new)
           Good(k) == /\ OneToOne(old, new, g[k])
                      /\ \A p \in g[k] : p[1] <= k /\ old[p[1]].title = new[p[2]].title
           Bad == {k \in 0 .. Len(old) : ~Good(k)}
<1>1. Bad = {}
  <2> SUFFICES ASSUME Bad # {} PROVE FALSE OBVIOUS
  <2>1. PICK k \in Bad : \A j \in Bad : k <= j
    <3>1. Bad \subseteq Nat OBVIOUS
    <3> HIDE DEF Bad
    <3> QED BY <3>1, LeastNumber
  <2>2. k \in 0 .. Len(old) /\ ~Good(k) OBVIOUS
  <2>3. CASE k = 0
    <3>1. g[0] = {} BY <1>0, AlignmentSteps
    <3> QED BY <2>2, <2>3, <3>1 DEF OneToOne
  <2>4. CASE k # 0
    <3> DEFINE before == g[k - 1]
               free == Free(old[k], new, before)
               j == Nearest(old[k], new, free)
    <3>1. k - 1 \in 0 .. Len(old) /\ k \in 1 .. Len(old) /\ ~(k <= k - 1)
      BY <1>0, <2>2, <2>4
    <3>2. k - 1 \notin Bad
      <4> HIDE DEF Bad
      <4> QED BY <2>1, <3>1
    <3>3. Good(k - 1) BY <3>1, <3>2
    <3>4. g[k] = IF free = {} THEN before ELSE before \union {<<k, j>>}
      <4>1. g[k] = Align(old, new, before, k) BY <1>0, <3>1, AlignmentSteps
      <4>2. Align(old, new, before, k) = IF free = {} THEN before ELSE before \union {<<k, j>>}
        BY DEF Align
      <4> QED BY <4>1, <4>2
    <3>5. \A p \in before : p[1] \in DOMAIN old /\ p[1] <= k - 1 /\ p[1] < k
      <4> TAKE p \in before
      <4>1. p[1] \in DOMAIN old /\ p[1] <= k - 1 BY <3>3 DEF OneToOne
      <4>2. p[1] \in Nat BY <1>0, <4>1
      <4> QED BY <3>1, <4>1, <4>2
    <3>6. CASE free = {}
      <4>1. g[k] = before BY <3>4, <3>6
      <4>2. Good(k) <=> /\ OneToOne(old, new, before)
                        /\ \A p \in before : p[1] <= k /\ old[p[1]].title = new[p[2]].title
        BY <4>1
      <4>3. \A p \in before : p[1] <= k
        <5> TAKE p \in before
        <5>1. p[1] \in Nat /\ p[1] < k BY <1>0, <3>5
        <5> QED BY <3>1, <5>1
      <4> QED BY <2>2, <3>3, <4>2, <4>3
    <3>7. CASE free # {}
      <4>1. j \in free
        <5>1. free \subseteq DOMAIN new BY DEF Free
        <5>2. old[k].number \in Nat BY <1>0, <3>1 DEF IsDocument
        <5> HIDE DEF free
        <5> QED BY <3>7, <5>1, <5>2, NearestIsFree
      <4>2. j \in DOMAIN new /\ new[j].title = old[k].title /\ \A p \in before : p[2] # j
        BY <4>1 DEF Free
      <4>3. k \in DOMAIN old BY <1>0, <3>1
      <4> HIDE DEF j, free
      <4>4. g[k] = before \union {<<k, j>>} BY <3>4, <3>7
      <4>5. OneToOne(old, new, before \union {<<k, j>>})
        <5>1. before \union {<<k, j>>} \subseteq (DOMAIN old) \X (DOMAIN new)
          BY <3>3, <4>2, <4>3 DEF OneToOne
        <5>2. \A p \in before : p[1] # k /\ p[2] # j
          <6> TAKE p \in before
          <6>1. p[1] \in Nat /\ p[1] < k BY <1>0, <3>5
          <6> QED BY <3>1, <4>2, <6>1
        <5>3. \A p, q \in before : p # q => p[1] # q[1] /\ p[2] # q[2]
          BY <3>3 DEF OneToOne
        <5> HIDE DEF before
        <5> QED BY <5>1, <5>2, <5>3 DEF OneToOne
      <4>6. \A p \in before \union {<<k, j>>} : p[1] <= k /\ old[p[1]].title = new[p[2]].title
        <5>1. \A p \in before : p[1] <= k /\ old[p[1]].title = new[p[2]].title
          <6> TAKE p \in before
          <6>1. p[1] \in Nat /\ p[1] < k BY <1>0, <3>5
          <6> QED BY <3>1, <3>3, <6>1
        <5>2. <<k, j>>[1] <= k /\ old[<<k, j>>[1]].title = new[<<k, j>>[2]].title
          BY <3>1, <4>2
        <5> HIDE DEF before
        <5> QED BY <5>1, <5>2
      <4> QED BY <2>2, <4>4, <4>5, <4>6
    <3> QED BY <3>6, <3>7
  <2> QED BY <2>3, <2>4
<1> QED BY <1>1
-----------------------------------------------------------------------------
(* engine.py: the pairs of a run. *)

(* SetToSeq lists a set without repetition. *)
LEMMA Listed ==
  ASSUME NEW S, IsFiniteSet(S)
  PROVE  LET s == SetToSeq(S) IN
         /\ DOMAIN s = 1 .. Cardinality(S) /\ Len(s) = Cardinality(S) /\ Len(s) \in Nat
         /\ \A i \in DOMAIN s : s[i] \in S
         /\ \A i, j \in DOMAIN s : s[i] = s[j] => i = j
<1> DEFINE c == Cardinality(S)
           s == SetToSeq(S)
<1>1. c \in Nat /\ ExistsBijection(1 .. c, S) BY FS_CardinalityType
<1> HIDE DEF c
<1>2. \E f \in [1 .. c -> S] : IsInjective(f)
  BY <1>1 DEF ExistsBijection, Bijection, Injection
<1>3. s \in [1 .. c -> S] /\ IsInjective(s) BY <1>2 DEF SetToSeq, c
<1> HIDE DEF s
<1>4. Len(s) = c BY <1>1, <1>3
<1>5. /\ DOMAIN s = 1 .. c /\ \A i \in DOMAIN s : s[i] \in S
      /\ \A i, j \in DOMAIN s : s[i] = s[j] => i = j
  BY <1>3 DEF IsInjective
<1> QED BY <1>1, <1>4, <1>5 DEF s, c

LEMMA DocumentFacts ==
  ASSUME NEW d, IsDocument(d)
  PROVE  /\ Len(d) \in Nat /\ DOMAIN d = 1 .. Len(d)
         /\ IsFiniteSet(DOMAIN d) /\ Cardinality(DOMAIN d) = Len(d)
         /\ \A i, j \in DOMAIN d : d[i].number = d[j].number => i = j
<1>1. Len(d) \in Nat /\ DOMAIN d = 1 .. Len(d) BY DEF IsDocument, IsSequence
<1>2. \A i, j \in DOMAIN d : d[i].number = d[j].number => i = j
  <2> SUFFICES ASSUME NEW i \in DOMAIN d, NEW j \in DOMAIN d, d[i].number = d[j].number, i # j
               PROVE  FALSE
    OBVIOUS
  <2>1. i \in Nat /\ j \in Nat BY <1>1
  <2>2. i < j \/ j < i BY <2>1
  <2> DEFINE a == d[i].number
             b == d[j].number
  <2>3. a \in Nat /\ b \in Nat /\ (a < b \/ b < a) /\ a = b BY <2>2 DEF IsDocument
  <2> HIDE DEF a, b
  <2> QED BY <2>3
<1> QED BY <1>1, <1>2, FirstNumbers

(* The result of a run lists the rows of a one-to-one matching that extends
   the alignment by title. *)
LEMMA PipelineMatches ==
  ASSUME NEW old, NEW new, IsDocument(old), IsDocument(new), NEW result \in Pipeline(old, new)
  PROVE  \E matched :
           /\ OneToOne(old, new, matched)
           /\ Firsts(AlignSections(old, new)) = DOMAIN old => matched = AlignSections(old, new)
           /\ result = ChangeRows(old, new, matched)
<1> DEFINE aligned == AlignSections(old, new)
           A == DOMAIN old \ Firsts(aligned)
           B == DOMAIN new \ Seconds(aligned)
           lo == SetToSeq(A)
           ln == SetToSeq(B)
           cost == [cell \in (DOMAIN lo) \X (DOMAIN ln) |->
                      TitleCost(old[lo[cell[1]]].title, new[ln[cell[2]]].title)]
           Lifted(pairs) == {<<lo[p[1]], ln[p[2]]>> : p \in pairs}
<1>1. OneToOne(old, new, aligned)
  <2>1. Len(old) \in Nat /\ Len(old) \in 0 .. Len(old) BY DocumentFacts
  <2>2. aligned = Aligned(old, new)[Len(old)] BY <2>1, AlignmentSteps
  <2> HIDE DEF aligned
  <2> QED BY <2>1, <2>2, AlignmentOneToOne
<1>2. PICK pairs \in HungarianMatchings(cost, Len(lo), Len(ln), TitleNull) :
        result = ChangeRows(old, new, aligned \union Lifted(pairs))
  BY DEF Pipeline, Leftover
<1>3. IsFiniteSet(A) /\ IsFiniteSet(B)
  <2> HIDE DEF aligned
  <2>1. A \subseteq DOMAIN old /\ B \subseteq DOMAIN new OBVIOUS
  <2> QED BY <2>1, DocumentFacts, FS_Subset
<1>4. /\ DOMAIN lo = 1 .. Len(lo) /\ Len(lo) = Cardinality(A) /\ Len(lo) \in Nat
      /\ \A i \in DOMAIN lo : lo[i] \in A
      /\ \A i, j \in DOMAIN lo : lo[i] = lo[j] => i = j
  <2> HIDE DEF A
  <2> QED BY <1>3, Listed
<1>5. /\ DOMAIN ln = 1 .. Len(ln) /\ Len(ln) = Cardinality(B) /\ Len(ln) \in Nat
      /\ \A i \in DOMAIN ln : ln[i] \in B
      /\ \A i, j \in DOMAIN ln : ln[i] = ln[j] => i = j
  <2> HIDE DEF B
  <2> QED BY <1>3, Listed
<1> HIDE DEF lo, ln, cost
<1>6. /\ pairs \subseteq (DOMAIN lo) \X (DOMAIN ln)
      /\ \A p, q \in pairs : p # q => p[1] # q[1] /\ p[2] # q[2]
  <2>1. pairs \in Matchings(cost, Len(lo), Len(ln), TitleNull)
    BY <1>2, <1>4, <1>5, HungarianMatchesPairs
  <2> QED BY <1>4, <1>5, <2>1 DEF Matchings
<1>7. OneToOne(old, new, aligned \union Lifted(pairs))
  <2>1. \A p \in pairs : p[1] \in DOMAIN lo /\ p[2] \in DOMAIN ln BY <1>6
  <2>2. \A x \in Lifted(pairs) : x \in A \X B
    <3> SUFFICES ASSUME NEW p \in pairs PROVE <<lo[p[1]], ln[p[2]]>> \in A \X B OBVIOUS
    <3> HIDE DEF A, B
    <3>1. lo[p[1]] \in A /\ ln[p[2]] \in B BY <1>4, <1>5, <2>1
    <3> QED BY <3>1
  <2>3. \A x, y \in Lifted(pairs) : x # y => x[1] # y[1] /\ x[2] # y[2]
    <3> SUFFICES ASSUME NEW p \in pairs, NEW q \in pairs,
                        <<lo[p[1]], ln[p[2]]>> # <<lo[q[1]], ln[q[2]]>>
                 PROVE  lo[p[1]] # lo[q[1]] /\ ln[p[2]] # ln[q[2]]
      OBVIOUS
    <3>1. p # q OBVIOUS
    <3>2. p[1] # q[1] /\ p[2] # q[2] BY <1>6, <3>1
    <3> QED BY <1>4, <1>5, <2>1, <3>2
  <2>4. \A x \in aligned : x[1] \in Firsts(aligned) /\ x[2] \in Seconds(aligned)
    BY DEF Firsts, Seconds
  <2>5. /\ aligned \subseteq (DOMAIN old) \X (DOMAIN new)
        /\ \A p, q \in aligned : p # q => p[1] # q[1] /\ p[2] # q[2]
    BY <1>1 DEF OneToOne
  <2>6. \A x \in aligned, y \in Lifted(pairs) : x[1] # y[1] /\ x[2] # y[2]
    <3> SUFFICES ASSUME NEW x \in aligned, NEW y \in Lifted(pairs)
                 PROVE  x[1] # y[1] /\ x[2] # y[2]
      OBVIOUS
    <3>1. y[1] \in A /\ y[2] \in B BY <2>2
    <3> HIDE DEF aligned, Lifted
    <3> QED BY <2>4, <3>1
  <2>7. Lifted(pairs) \subseteq (DOMAIN old) \X (DOMAIN new) BY <2>2
  <2> HIDE DEF aligned, Lifted, A, B
  <2> QED BY <2>3, <2>5, <2>6, <2>7 DEF OneToOne
<1>8. Firsts(aligned) = DOMAIN old => aligned \union Lifted(pairs) = aligned
  <2> SUFFICES ASSUME Firsts(aligned) = DOMAIN old PROVE pairs = {} OBVIOUS
  <2>1. A = {} OBVIOUS
  <2>2. DOMAIN lo = {} BY <1>4, <2>1
  <2> QED BY <1>6, <2>2
<1> QED BY <1>2, <1>7, <1>8

(* The highest of some levels. *)
LEMMA HighestLevel ==
  ASSUME NEW X, X \subseteq NONE .. HIGH, X # {}
  PROVE  Max(X) \in NONE .. HIGH /\ \A x \in X : x <= Max(X)
<1>1. 3 \in Nat /\ X \subseteq 0 .. 3 OBVIOUS
<1>2. IsFiniteSet(X) /\ \A x \in X : x \in Int
  <2> DEFINE D == 0 .. 3
  <2>1. IsFiniteSet(D) BY <1>1, FirstNumbers
  <2>2. X \in SUBSET D /\ \A x \in X : x \in Int BY <1>1
  <2> HIDE DEF D
  <2> QED BY <2>1, <2>2, FS_Subset
<1>3. Max(X) \in X /\ \A x \in X : x <= Max(X) BY <1>2, LargestNumber
<1> QED BY <1>1, <1>3

(* A pair that is reported has a field that changed, and a level. *)
LEMMA ModifiedSaysWhat ==
  ASSUME NEW s, NEW t, Substantive(s, t)
  PROVE  DiffPair(s, t).fields # {} /\ DiffPair(s, t).level >= LOW
<1> DEFINE titles == DiffFields(SectionFields(s), SectionFields(t))
           rated == Materiality(SectionFields(s), SectionFields(t))
           trusted == HasFieldDelta(s.obligations, t.obligations)
           deltas == FieldDeltas(s.obligations, t.obligations)
           raised == ObligationLevel(s.obligations, t.obligations)
           X == {rated} \union (IF trusted THEN {raised} ELSE {})
           Y == {NONE} \union {Materiality(p[1], p[2]) : p \in MatchedObligations(s.obligations, t.obligations)}
<1>1. /\ DiffPair(s, t).fields = titles \union (IF trusted THEN deltas ELSE {})
      /\ DiffPair(s, t).level = Max(X)
  BY DEF DiffPair, Row
<1>2. rated \in NONE .. HIGH /\ (titles # {} => rated >= LOW)
  <2>1. rated \in NONE .. HIGH /\ (rated = NONE <=> titles = {}) BY MaterialityLevels
  <2> HIDE DEF rated, titles
  <2> QED BY <2>1
<1>3. Y \subseteq NONE .. HIGH BY MaterialityLevels
<1>4. raised = Max(Y) BY DEF ObligationLevel
<1>5. raised \in NONE .. HIGH /\ \A y \in Y : y <= raised
  <2> HIDE DEF Y
  <2>1. Y # {} BY DEF Y
  <2> QED BY <1>3, <1>4, <2>1, HighestLevel
<1>6. Max(X) \in NONE .. HIGH /\ \A x \in X : x <= Max(X)
  <2>1. X \subseteq NONE .. HIGH /\ X # {} BY <1>2, <1>5
  <2> HIDE DEF X
  <2> QED BY <2>1, HighestLevel
<1>7. CASE titles # {}
  <2>1. rated <= Max(X) BY <1>6
  <2> DEFINE a == rated
             b == Max(X)
  <2>2. a >= LOW /\ a <= b /\ a \in NONE .. HIGH /\ b \in NONE .. HIGH BY <1>2, <1>6, <1>7, <2>1
  <2>3. b >= LOW
    <3> HIDE DEF a, b
    <3> QED BY <2>2
  <2> QED BY <1>1, <1>7, <2>3
<1>8. CASE titles = {}
  <2>1. trusted /\ deltas # {} BY <1>8 DEF Substantive, Flips, HasFieldDelta
  <2>2. PICK p \in MatchedObligations(s.obligations, t.obligations) : DiffFields(p[1], p[2]) # {}
    BY <2>1 DEF FieldDeltas
  <2>3. Materiality(p[1], p[2]) \in Y /\ Materiality(p[1], p[2]) # NONE
    BY <2>2, MaterialityLevels
  <2>4. raised \in X BY <2>1
  <2> DEFINE a == Materiality(p[1], p[2])
             b == raised
             c == Max(X)
  <2>5. a \in NONE .. HIGH /\ a # NONE /\ a <= b /\ b <= c
        /\ b \in NONE .. HIGH /\ c \in NONE .. HIGH
    BY <1>3, <1>5, <1>6, <2>3, <2>4
  <2>6. c >= LOW
    <3> HIDE DEF a, b, c
    <3> QED BY <2>5
  <2> QED BY <1>1, <2>1, <2>6
<1> QED BY <1>7, <1>8

(* The rows of a one-to-one matching account for every section. *)
Accounted(result, old, new) ==
  LET Of(types) == {r \in result.rows : r.type \in types} IN
  /\ Cardinality(Of({"removed", "modified"})) + result.suppressed = Len(old)
  /\ Cardinality(Of({"created", "modified"})) + result.suppressed = Len(new)
  /\ \A r, q \in result.rows : r # q =>
       (r.old # q.old \/ r.old = 0) /\ (r.new # q.new \/ r.new = 0)
  /\ \A r \in Of({"modified"}) : r.fields # {} /\ r.level >= LOW

LEMMA RowsAccountForSections ==
  ASSUME NEW old, NEW new, IsDocument(old), IsDocument(new),
         NEW matched, OneToOne(old, new, matched),
         NEW result, result = ChangeRows(old, new, matched)
  PROVE  Accounted(result, old, new)
<1> DEFINE O == DOMAIN old
           N == DOMAIN new
           S == {p \in matched : Substantive(old[p[1]], new[p[2]])}
           R == O \ Firsts(matched)
           C == N \ Seconds(matched)
           modified == {DiffPair(old[p[1]], new[p[2]]) : p \in S}
           created == {DiffCreated(new[j]) : j \in C}
           removed == {DiffRemoved(old[i]) : i \in R}
           Of(types) == {r \in result.rows : r.type \in types}
<1>1. result.rows = modified \union created \union removed
      /\ result.suppressed = Cardinality(matched \ S)
  BY DEF ChangeRows
<1>2. /\ matched \subseteq O \X N
      /\ \A p, q \in matched : p # q => p[1] # q[1] /\ p[2] # q[2]
  BY DEF OneToOne
<1>3. /\ IsFiniteSet(O) /\ Cardinality(O) = Len(old) /\ Len(old) \in Nat
      /\ IsFiniteSet(N) /\ Cardinality(N) = Len(new) /\ Len(new) \in Nat
      /\ \A i, j \in O : old[i].number = old[j].number => i = j
      /\ \A i, j \in N : new[i].number = new[j].number => i = j
  BY DocumentFacts
<1>4. /\ IsFiniteSet(matched)
      /\ Firsts(matched) \subseteq O /\ Cardinality(Firsts(matched)) = Cardinality(matched)
      /\ Seconds(matched) \subseteq N /\ Cardinality(Seconds(matched)) = Cardinality(matched)
  <2> HIDE DEF O, N
  <2> QED BY <1>2, <1>3, FirstsAndSeconds
<1>5. \A p \in matched : p[1] \in O /\ p[2] \in N /\ p[1] \in Firsts(matched)
                         /\ p[2] \in Seconds(matched)
  BY <1>2 DEF Firsts, Seconds
<1>6. /\ \A p \in S : DiffPair(old[p[1]], new[p[2]]).type = "modified"
                      /\ DiffPair(old[p[1]], new[p[2]]).old = old[p[1]].number
                      /\ DiffPair(old[p[1]], new[p[2]]).new = new[p[2]].number
      /\ \A j \in C : DiffCreated(new[j]).type = "created" /\ DiffCreated(new[j]).old = 0
                      /\ DiffCreated(new[j]).new = new[j].number
      /\ \A i \in R : DiffRemoved(old[i]).type = "removed" /\ DiffRemoved(old[i]).new = 0
                      /\ DiffRemoved(old[i]).old = old[i].number
  BY DEF DiffPair, DiffCreated, DiffRemoved, Row
<1>7. /\ IsFiniteSet(S) /\ S \subseteq matched
      /\ IsFiniteSet(R) /\ Cardinality(R) = Len(old) - Cardinality(matched)
      /\ IsFiniteSet(C) /\ Cardinality(C) = Len(new) - Cardinality(matched)
      /\ Cardinality(matched \ S) = Cardinality(matched) - Cardinality(S)
      /\ Cardinality(S) \in Nat /\ Cardinality(matched) \in Nat
  <2>1. S \subseteq matched /\ matched \intersect S = S OBVIOUS
  <2>2. O \intersect Firsts(matched) = Firsts(matched)
        /\ N \intersect Seconds(matched) = Seconds(matched)
    BY <1>4
  <2> HIDE DEF S, O, N
  <2>3. IsFiniteSet(S) /\ Cardinality(matched \ S) = Cardinality(matched) - Cardinality(S)
        /\ Cardinality(S) \in Nat /\ Cardinality(matched) \in Nat
    <3>1. IsFiniteSet(S) BY <1>4, <2>1, FS_Subset
    <3>2. Cardinality(S) \in Nat /\ Cardinality(matched) \in Nat BY <1>4, <3>1, FS_CardinalityType
    <3>3. Cardinality(matched \ S) = Cardinality(matched) - Cardinality(matched \intersect S)
      BY <1>4, FS_Difference
    <3> QED BY <2>1, <3>1, <3>2, <3>3
  <2>4. IsFiniteSet(R) /\ Cardinality(R) = Len(old) - Cardinality(matched)
    <3>1. IsFiniteSet(R)
          /\ Cardinality(R) = Cardinality(O) - Cardinality(O \intersect Firsts(matched))
      BY <1>3, FS_Difference
    <3> QED BY <1>3, <1>4, <2>2, <3>1
  <2>5. IsFiniteSet(C) /\ Cardinality(C) = Len(new) - Cardinality(matched)
    <3>1. IsFiniteSet(C)
          /\ Cardinality(C) = Cardinality(N) - Cardinality(N \intersect Seconds(matched))
      BY <1>3, FS_Difference
    <3> QED BY <1>3, <1>4, <2>2, <3>1
  <2> QED BY <2>1, <2>3, <2>4, <2>5
<1>8. \A p, q \in S : p # q => /\ old[p[1]].number # old[q[1]].number
                               /\ new[p[2]].number # new[q[2]].number
  <2> SUFFICES ASSUME NEW p \in S, NEW q \in S, p # q
               PROVE  /\ old[p[1]].number # old[q[1]].number
                      /\ new[p[2]].number # new[q[2]].number
    OBVIOUS
  <2>1. p[1] # q[1] /\ p[2] # q[2] BY <1>2
  <2>2. p[1] \in O /\ q[1] \in O /\ p[2] \in N /\ q[2] \in N BY <1>5
  <2> HIDE DEF O, N, S
  <2> QED BY <1>3, <2>1, <2>2
<1>9. /\ \A i, j \in R : i # j => old[i].number # old[j].number
      /\ \A i, j \in C : i # j => new[i].number # new[j].number
      /\ \A p \in S, i \in R : old[p[1]].number # old[i].number
      /\ \A p \in S, j \in C : new[p[2]].number # new[j].number
  <2>1. \A i \in R : i \in O /\ i \notin Firsts(matched) OBVIOUS
  <2>2. \A j \in C : j \in N /\ j \notin Seconds(matched) OBVIOUS
  <2>3. \A p \in S : p[1] \in O /\ p[2] \in N /\ p[1] \in Firsts(matched)
                     /\ p[2] \in Seconds(matched)
    BY <1>5
  <2> HIDE DEF O, N, S, R, C
  <2> QED BY <1>3, <2>1, <2>2, <2>3
<1>10. /\ IsFiniteSet(modified) /\ Cardinality(modified) = Cardinality(S)
       /\ IsFiniteSet(created) /\ Cardinality(created) = Cardinality(C)
       /\ IsFiniteSet(removed) /\ Cardinality(removed) = Cardinality(R)
  <2> DEFINE f == [p \in S |-> DiffPair(old[p[1]], new[p[2]])]
             g == [j \in C |-> DiffCreated(new[j])]
             h == [i \in R |-> DiffRemoved(old[i])]
  <2>1. f \in [S -> modified] /\ (\A x \in modified : \E p \in S : f[p] = x)
        /\ \A p, q \in S : f[p] = f[q] => p = q
    <3>1. \A p, q \in S : f[p] = f[q] => p = q
      <4> SUFFICES ASSUME NEW p \in S, NEW q \in S, p # q PROVE f[p] # f[q] OBVIOUS
      <4>1. f[p].old = old[p[1]].number /\ f[q].old = old[q[1]].number BY <1>6
      <4> QED BY <1>8, <4>1
    <3> QED BY <3>1
  <2>2. g \in [C -> created] /\ (\A x \in created : \E p \in C : g[p] = x)
        /\ \A p, q \in C : g[p] = g[q] => p = q
    <3>1. \A p, q \in C : g[p] = g[q] => p = q
      <4> SUFFICES ASSUME NEW p \in C, NEW q \in C, p # q PROVE g[p] # g[q] OBVIOUS
      <4>1. g[p].new = new[p].number /\ g[q].new = new[q].number BY <1>6
      <4> QED BY <1>9, <4>1
    <3> QED BY <3>1
  <2>3. h \in [R -> removed] /\ (\A x \in removed : \E p \in R : h[p] = x)
        /\ \A p, q \in R : h[p] = h[q] => p = q
    <3>1. \A p, q \in R : h[p] = h[q] => p = q
      <4> SUFFICES ASSUME NEW p \in R, NEW q \in R, p # q PROVE h[p] # h[q] OBVIOUS
      <4>1. h[p].old = old[p].number /\ h[q].old = old[q].number BY <1>6
      <4> QED BY <1>9, <4>1
    <3> QED BY <3>1
  <2> HIDE DEF S, R, C, modified, created, removed, f, g, h
  <2>4. f \in Injection(S, modified) /\ f \in Surjection(S, modified)
    BY <2>1 DEF Injection, IsInjective, Surjection
  <2>5. g \in Injection(C, created) /\ g \in Surjection(C, created)
    BY <2>2 DEF Injection, IsInjective, Surjection
  <2>6. h \in Injection(R, removed) /\ h \in Surjection(R, removed)
    BY <2>3 DEF Injection, IsInjective, Surjection
  <2> QED BY <1>7, <2>4, <2>5, <2>6, FS_Surjection
<1>11. Of({"removed", "modified"}) = removed \union modified
       /\ Of({"created", "modified"}) = created \union modified
       /\ Of({"modified"}) = modified
       /\ removed \intersect modified = {} /\ created \intersect modified = {}
  <2>1. /\ \A x \in modified : x.type = "modified"
        /\ \A x \in created : x.type = "created"
        /\ \A x \in removed : x.type = "removed"
    BY <1>6
  <2> HIDE DEF modified, created, removed
  <2> QED BY <1>1, <2>1
<1>12. Cardinality(Of({"removed", "modified"})) + result.suppressed = Len(old)
       /\ Cardinality(Of({"created", "modified"})) + result.suppressed = Len(new)
  <2> HIDE DEF S, R, C, modified, created, removed, Of
  <2>1. Cardinality(removed \union modified) = Cardinality(removed) + Cardinality(modified) - 0
        /\ Cardinality(created \union modified) = Cardinality(created) + Cardinality(modified) - 0
    <3>1. Cardinality(removed \intersect modified) = 0 /\ Cardinality(created \intersect modified) = 0
      BY <1>11, FS_EmptySet
    <3>2. Cardinality(removed \union modified) =
            Cardinality(removed) + Cardinality(modified) - Cardinality(removed \intersect modified)
      BY <1>10, FS_Union
    <3>3. Cardinality(created \union modified) =
            Cardinality(created) + Cardinality(modified) - Cardinality(created \intersect modified)
      BY <1>10, FS_Union
    <3> QED BY <3>1, <3>2, <3>3
  <2> DEFINE o == Len(old)
             n == Len(new)
             s == Cardinality(S)
             k == Cardinality(matched)
  <2>2. /\ Cardinality(Of({"removed", "modified"})) = (o - k) + s - 0
        /\ Cardinality(Of({"created", "modified"})) = (n - k) + s - 0
        /\ result.suppressed = k - s
    BY <1>1, <1>7, <1>10, <1>11, <2>1
  <2>3. o \in Nat /\ n \in Nat /\ s \in Nat /\ k \in Nat BY <1>3, <1>7
  <2>4. ((o - k) + s - 0) + (k - s) = o /\ ((n - k) + s - 0) + (k - s) = n
    <3> HIDE DEF o, n, s, k
    <3> QED BY <2>3
  <2> QED BY <2>2, <2>4
<1>13. \A r, q \in result.rows : r # q =>
         (r.old # q.old \/ r.old = 0) /\ (r.new # q.new \/ r.new = 0)
  <2>1. /\ \A r \in modified : \E p \in S : r = DiffPair(old[p[1]], new[p[2]])
                                          /\ r.old = old[p[1]].number /\ r.new = new[p[2]].number
        /\ \A r \in created : \E j \in C : r = DiffCreated(new[j]) /\ r.old = 0
                                          /\ r.new = new[j].number
        /\ \A r \in removed : \E i \in R : r = DiffRemoved(old[i]) /\ r.new = 0
                                          /\ r.old = old[i].number
    BY <1>6
  <2> HIDE DEF S, R, C, modified, created, removed
  <2>2. \A r, q \in modified : r # q => r.old # q.old /\ r.new # q.new BY <1>8, <2>1
  <2>3. \A r, q \in created : r # q => r.old = 0 /\ r.new # q.new BY <1>9, <2>1
  <2>4. \A r, q \in removed : r # q => r.new = 0 /\ r.old # q.old BY <1>9, <2>1
  <2>5. \A r \in modified, q \in created : q.old = 0 /\ r.new # q.new BY <1>9, <2>1
  <2>6. \A r \in modified, q \in removed : q.new = 0 /\ r.old # q.old BY <1>9, <2>1
  <2>7. \A r \in created, q \in removed : r.old = 0 /\ q.new = 0 BY <2>1
  <2> QED BY <1>1, <2>2, <2>3, <2>4, <2>5, <2>6, <2>7
<1>14. \A r \in Of({"modified"}) : r.fields # {} /\ r.level >= LOW
  BY <1>11, ModifiedSaysWhat
<1> QED BY <1>12, <1>13, <1>14 DEF Accounted

(* Where the result of a run comes from. *)
DiffInv ==
  /\ input \in Inputs
  /\ Computed("diff") => output \in Pipeline(input.pair[1], input.pair[2])

LEMMA AlwaysDiffInv == EngineSpec => []DiffInv
<1>1. EngineInit => DiffInv BY DEF EngineInit, DiffInv, Computed
<1>2. DiffInv /\ [EngineNext]_engineVars => DiffInv'
  BY DEF DiffInv, EngineNext, Match, Diff, Rate, Computed, engineVars
<1> QED BY <1>1, <1>2, PTL DEF EngineSpec

LEMMA InputsAreDocuments ==
  ASSUME input \in Inputs, input.do = "diff"
  PROVE  IsDocument(input.pair[1]) /\ IsDocument(input.pair[2])
BY EngineAssumption DEF Inputs, DocumentsAssumption

(* No section of any two documents is lost or reported twice, and a modified
   row says what changed and is rated (engine.py: run_diff_pipeline). *)
THEOREM EverySectionIsAccountedFor == EngineSpec => []SectionsAccountedFor
<1>1. DiffInv => SectionsAccountedFor
  <2> SUFFICES ASSUME DiffInv, Computed("diff") PROVE SectionsAccountedFor
    BY DEF SectionsAccountedFor
  <2> DEFINE old == input.pair[1]
             new == input.pair[2]
             result == output
  <2>1. IsDocument(old) /\ IsDocument(new) BY InputsAreDocuments DEF DiffInv, Computed
  <2>2. result \in Pipeline(old, new) BY DEF DiffInv
  <2>3. Accounted(result, old, new)
    <3> HIDE DEF old, new, result
    <3>1. PICK matched : OneToOne(old, new, matched) /\ result = ChangeRows(old, new, matched)
      BY <2>1, <2>2, PipelineMatches
    <3> QED BY <2>1, <3>1, RowsAccountForSections
  <2> QED BY <2>3 DEF SectionsAccountedFor, Accounted
<1> QED BY <1>1, AlwaysDiffInv, PTL
-----------------------------------------------------------------------------
(* Nothing is invented. *)
TextsDiffer(duties) == \A k, l \in DOMAIN duties : k # l => duties[k].text # duties[l].text
TitlesDiffer(doc) == \A i, j \in DOMAIN doc : i # j => doc[i].title # doc[j].title

(* The obligations of a section, compared with themselves, have not changed:
   each can be matched with itself only. *)
LEMMA SameObligations ==
  ASSUME NEW duties, IsSequence(duties), TextsDiffer(duties)
  PROVE  FieldDeltas(duties, duties) = {}
<1> DEFINE D == DOMAIN duties
           k == Len(duties)
           cost == [cell \in D \X D |-> ObligationCost(duties[cell[1]], duties[cell[2]])]
           all == HungarianMatchings(cost, k, k, ObligationNull)
           pairs == CHOOSE pairs \in all : TRUE
<1>1. k \in Nat /\ D = 1 .. k BY DEF IsSequence
<1>2. MatchedObligations(duties, duties) = {<<duties[p[1]], duties[p[2]]>> : p \in pairs}
  BY DEF MatchedObligations
<1>3. \A cell \in (1 .. k) \X (1 .. k) :
        cost[cell] = ObligationCost(duties[cell[1]], duties[cell[2]]) /\ cost[cell] \in Nat
  BY <1>1 DEF ObligationCost
<1> HIDE DEF D, k, cost
<1>4. all # {}
  <2>1. CASE k = 0 BY <2>1 DEF HungarianMatchings
  <2>2. CASE k # 0
    <3> DEFINE size == k + k
               square == Square(cost, k, k, ObligationNull)
    <3>1. size \in Nat /\ SquareCosts(square, size)
      <4>1. ObligationNull \in Nat BY DEF ObligationNull
      <4> QED BY <1>1, <1>3, <4>1, SquareIsCosts
    <3>2. LinearSumAssignment(square, size) # {}
      <4> HIDE DEF size, square
      <4> QED BY <3>1, OptimaExist
    <3> QED BY <2>2, <3>2 DEF HungarianMatchings, Reduction
  <2> QED BY <2>1, <2>2
<1>5. pairs \in all
  <2> HIDE DEF all
  <2> QED BY <1>4
<1>6. pairs \in Matchings(cost, k, k, ObligationNull)
  <2> HIDE DEF pairs
  <2> QED BY <1>1, <1>5, HungarianMatchesPairs
<1> HIDE DEF all, pairs
<1>7. ASSUME NEW p \in pairs PROVE DiffFields(duties[p[1]], duties[p[2]]) = {}
  <2>1. p \in (1 .. k) \X (1 .. k) /\ cost[p] < ObligationNull BY <1>6 DEF Matchings
  <2>2. cost[p] = ObligationCost(duties[p[1]], duties[p[2]]) BY <1>3, <2>1
  <2>3. duties[p[1]].text = duties[p[2]].text
    BY <2>1, <2>2 DEF ObligationCost, ObligationNull
  <2>4. p[1] \in D /\ p[2] \in D BY <1>1, <2>1
  <2>5. p[1] = p[2] BY <2>3, <2>4 DEF TextsDiffer, D
  <2> QED BY <2>5 DEF DiffFields
<1> QED BY <1>2, <1>7 DEF FieldDeltas

(* A pair of one title is cosmetic if it is a stable renumbering, or if its
   obligations are the same. *)
LEMMA SilentPair ==
  ASSUME NEW s, NEW t, s.title = t.title,
         \/ s.number # t.number /\ s.body = t.body
         \/ FieldDeltas(s.obligations, t.obligations) = {}
  PROVE  ~Substantive(s, t)
<1>1. SectionFields(s) = SectionFields(t) BY DEF SectionFields
<1>2. DiffFields(SectionFields(s), SectionFields(t)) = {} BY <1>1 DEF DiffFields
<1>3. ~Flips(s, t) BY DEF Flips, HasFieldDelta, StableRenumbering
<1> QED BY <1>2, <1>3 DEF Substantive

LEMMA SilentRows ==
  ASSUME NEW old, NEW new, NEW matched,
         Firsts(matched) = DOMAIN old, Seconds(matched) = DOMAIN new,
         \A p \in matched : ~Substantive(old[p[1]], new[p[2]])
  PROVE  ChangeRows(old, new, matched).rows = {}
<1>1. {p \in matched : Substantive(old[p[1]], new[p[2]])} = {} OBVIOUS
<1>2. DOMAIN new \ Seconds(matched) = {} /\ DOMAIN old \ Firsts(matched) = {} OBVIOUS
<1>3. ChangeRows(old, new, matched).rows =
        {DiffPair(old[p[1]], new[p[2]]) :
           p \in {p \in matched : Substantive(old[p[1]], new[p[2]])}}
          \union {DiffCreated(new[j]) : j \in DOMAIN new \ Seconds(matched)}
          \union {DiffRemoved(old[i]) : i \in DOMAIN old \ Firsts(matched)}
  BY DEF ChangeRows
<1> QED BY <1>1, <1>2, <1>3

(* A document is aligned with itself section by section, even when its titles
   are repeated: a section of the same title is nearer than any other only if
   it has the same number. *)
LEMMA SelfAlignment ==
  ASSUME NEW d, IsDocument(d)
  PROVE  AlignSections(d, d) = {<<k, k>> : k \in DOMAIN d}
<1>0. Len(d) \in Nat /\ DOMAIN d = 1 .. Len(d) BY DocumentFacts
<1> DEFINE g == Aligned(d, d)
           Good(i) == g[i] = {<<k, k>> : k \in 1 .. i}
           Bad == {i \in 0 .. Len(d) : ~Good(i)}
<1>1. Bad = {}
  <2> SUFFICES ASSUME Bad # {} PROVE FALSE OBVIOUS
  <2>1. PICK i \in Bad : \A j \in Bad : i <= j
    <3>1. Bad \subseteq Nat OBVIOUS
    <3> HIDE DEF Bad
    <3> QED BY <3>1, LeastNumber
  <2>2. i \in 0 .. Len(d) /\ ~Good(i) OBVIOUS
  <2>3. CASE i = 0
    <3>1. g[0] = {} BY <1>0, AlignmentSteps
    <3>2. {<<k, k>> : k \in 1 .. 0} = {} OBVIOUS
    <3> QED BY <2>2, <2>3, <3>1, <3>2
  <2>4. CASE i # 0
    <3> DEFINE before == g[i - 1]
               free == Free(d[i], d, before)
               j == Nearest(d[i], d, free)
    <3>1. i - 1 \in 0 .. Len(d) /\ i \in 1 .. Len(d) /\ ~(i <= i - 1) BY <1>0, <2>2, <2>4
    <3>2. i - 1 \notin Bad
      <4> HIDE DEF Bad
      <4> QED BY <2>1, <3>1
    <3>3. before = {<<k, k>> : k \in 1 .. i - 1} BY <3>1, <3>2
    <3>4. i \in DOMAIN d /\ d[i].number \in Nat BY <1>0, <3>1 DEF IsDocument
    <3> HIDE DEF before
    <3>5. i \in free
      <4>1. \A p \in before : p[2] # i BY <3>1, <3>3
      <4> QED BY <3>4, <4>1 DEF Free
    <3>6. free \subseteq DOMAIN d BY DEF Free
    <3>7. j = i
      <4> HIDE DEF free
      <4>1. j \in free /\ Distance(d[i], d[j]) <= Distance(d[i], d[i])
        BY <3>4, <3>5, <3>6, NearestIsFree
      <4>2. d[j].number \in Nat BY <3>6, <4>1 DEF IsDocument
      <4> HIDE DEF j
      <4> DEFINE a == d[i].number
                 b == d[j].number
      <4>3. /\ Distance(d[i], d[i]) = IF a > a THEN a - a ELSE a - a
            /\ Distance(d[i], d[j]) = IF a > b THEN a - b ELSE b - a
        BY DEF Distance
      <4>4. a \in Nat /\ b \in Nat BY <3>4, <4>2
      <4>5. a = b
        <5> HIDE DEF a, b
        <5> QED BY <4>1, <4>3, <4>4
      <4> QED BY <3>4, <3>6, <4>1, <4>5, DocumentFacts
    <3>8. g[i] = Align(d, d, g[i - 1], i) BY <1>0, <3>1, AlignmentSteps
    <3>9. g[i] = before \union {<<i, j>>}
      <4>1. Align(d, d, before, i) = before \union {<<i, j>>} BY <3>5 DEF Align
      <4> QED BY <3>8, <4>1 DEF before
    <3>10. before \union {<<i, i>>} = {<<k, k>> : k \in 1 .. i}
      <4>1. 1 .. i = (1 .. i - 1) \union {i} BY <1>0, <3>1
      <4> QED BY <3>3, <4>1
    <3>11. g[i] = {<<k, k>> : k \in 1 .. i}
      <4> HIDE DEF j, g
      <4> QED BY <3>7, <3>9, <3>10
    <3> QED BY <2>2, <3>11
  <2> QED BY <2>3, <2>4
<1>2. Len(d) \in 0 .. Len(d) BY <1>0
<1>3. Good(Len(d)) BY <1>1, <1>2
<1> QED BY <1>0, <1>3, AlignmentSteps

LEMMA DiagonalPairs ==
  ASSUME NEW D
  PROVE  /\ Firsts({<<k, k>> : k \in D}) = D
         /\ Seconds({<<k, k>> : k \in D}) = D
<1> DEFINE diagonal == {<<k, k>> : k \in D}
<1>1. ASSUME NEW p \in diagonal PROVE p[1] \in D /\ p[2] \in D OBVIOUS
<1>2. ASSUME NEW k \in D PROVE <<k, k>> \in diagonal /\ <<k, k>>[1] = k /\ <<k, k>>[2] = k
  OBVIOUS
<1> HIDE DEF diagonal
<1>3. {p[1] : p \in diagonal} = D
  <2>1. {p[1] : p \in diagonal} \subseteq D BY <1>1
  <2>2. ASSUME NEW k \in D PROVE k \in {p[1] : p \in diagonal} BY <1>2
  <2> QED BY <2>1, <2>2
<1>4. {p[2] : p \in diagonal} = D
  <2>1. {p[2] : p \in diagonal} \subseteq D BY <1>1
  <2>2. ASSUME NEW k \in D PROVE k \in {p[2] : p \in diagonal} BY <1>2
  <2> QED BY <2>1, <2>2
<1> QED BY <1>3, <1>4 DEF Firsts, Seconds, diagonal

LEMMA FirstsGrow ==
  ASSUME NEW P, NEW i, NEW j
  PROVE  Firsts(P \union {<<i, j>>}) = Firsts(P) \union {i}
<1>1. <<i, j>>[1] = i OBVIOUS
<1>2. ASSUME NEW x \in {p[1] : p \in P \union {<<i, j>>}}
      PROVE  x \in {p[1] : p \in P} \union {i}
  BY <1>1
<1>3. ASSUME NEW x \in {p[1] : p \in P} \union {i}
      PROVE  x \in {p[1] : p \in P \union {<<i, j>>}}
  BY <1>1
<1> QED BY <1>2, <1>3 DEF Firsts

(* When every section has a counterpart and no title is repeated, all sections
   are aligned by title. *)
LEMMA FullAlignment ==
  ASSUME NEW old, NEW new, IsDocument(old), IsDocument(new), TitlesDiffer(old),
         \A i \in DOMAIN old : \E j \in DOMAIN new : old[i].title = new[j].title
  PROVE  Firsts(AlignSections(old, new)) = DOMAIN old
<1>0. Len(old) \in Nat /\ DOMAIN old = 1 .. Len(old) BY DocumentFacts
<1> DEFINE g == Aligned(old, new)
           Good(i) == Firsts(g[i]) = 1 .. i
           Bad == {i \in 0 .. Len(old) : ~Good(i)}
<1>1. Bad = {}
  <2> SUFFICES ASSUME Bad # {} PROVE FALSE OBVIOUS
  <2>1. PICK i \in Bad : \A j \in Bad : i <= j
    <3>1. Bad \subseteq Nat OBVIOUS
    <3> HIDE DEF Bad
    <3> QED BY <3>1, LeastNumber
  <2>2. i \in 0 .. Len(old) /\ ~Good(i) OBVIOUS
  <2>3. CASE i = 0
    <3>1. g[0] = {} BY <1>0, AlignmentSteps
    <3>2. Firsts({}) = 1 .. 0 BY DEF Firsts
    <3> QED BY <2>2, <2>3, <3>1, <3>2
  <2>4. CASE i # 0
    <3> DEFINE before == g[i - 1]
               free == Free(old[i], new, before)
               j == Nearest(old[i], new, free)
    <3>1. i - 1 \in 0 .. Len(old) /\ i \in 1 .. Len(old) /\ ~(i <= i - 1)
      BY <1>0, <2>2, <2>4
    <3>2. i - 1 \notin Bad
      <4> HIDE DEF Bad
      <4> QED BY <2>1, <3>1
    <3>3. Firsts(before) = 1 .. i - 1 BY <3>1, <3>2
    <3>4. /\ OneToOne(old, new, before)
          /\ \A p \in before : p[1] <= i - 1 /\ old[p[1]].title = new[p[2]].title
      BY <3>1, AlignmentOneToOne
    <3>5. i \in DOMAIN old BY <1>0, <3>1
    <3>6. PICK k \in DOMAIN new : old[i].title = new[k].title BY <3>5
    <3> HIDE DEF before
    <3>7. k \in free
      <4>1. ASSUME NEW p \in before, p[2] = k PROVE FALSE
        <5>1. p[1] \in DOMAIN old /\ p[1] \in 1 .. i - 1
          BY <3>3, <3>4 DEF OneToOne, Firsts
        <5>2. p[1] # i BY <3>1, <5>1
        <5>3. old[p[1]].title = old[i].title BY <3>4, <3>6, <4>1
        <5> QED BY <3>5, <5>1, <5>2, <5>3 DEF TitlesDiffer
      <4> QED BY <3>6, <4>1 DEF Free
    <3>8. g[i] = Align(old, new, g[i - 1], i) BY <1>0, <3>1, AlignmentSteps
    <3>9. g[i] = before \union {<<i, j>>}
      <4>1. Align(old, new, before, i) = before \union {<<i, j>>} BY <3>7 DEF Align
      <4> QED BY <3>8, <4>1 DEF before
    <3>10. Firsts(before \union {<<i, j>>}) = Firsts(before) \union {i}
      <4> HIDE DEF j
      <4> QED BY FirstsGrow
    <3>11. 1 .. i = (1 .. i - 1) \union {i} BY <1>0, <3>1
    <3>12. Firsts(g[i]) = 1 .. i
      <4> HIDE DEF j, g
      <4> QED BY <3>3, <3>9, <3>10, <3>11
    <3> QED BY <2>2, <3>12
  <2> QED BY <2>3, <2>4
<1>2. Len(old) \in 0 .. Len(old) BY <1>0
<1>3. Good(Len(old)) BY <1>1, <1>2
<1> QED BY <1>0, <1>3, AlignmentSteps

LEMMA SameDocumentIsSilent ==
  ASSUME NEW d, IsDocument(d), \A i \in DOMAIN d : TextsDiffer(d[i].obligations),
         NEW result \in Pipeline(d, d)
  PROVE  result.rows = {}
<1> DEFINE aligned == AlignSections(d, d)
<1>1. aligned = {<<k, k>> : k \in DOMAIN d} BY SelfAlignment
<1>2. Firsts(aligned) = DOMAIN d /\ Seconds(aligned) = DOMAIN d
  BY <1>1, DiagonalPairs
<1>3. result = ChangeRows(d, d, aligned) BY <1>2, PipelineMatches
<1>4. ASSUME NEW p \in aligned PROVE ~Substantive(d[p[1]], d[p[2]])
  <2>1. PICK k \in DOMAIN d : p = <<k, k>> BY <1>1
  <2>2. IsSequence(d[k].obligations) BY DEF IsDocument
  <2>3. FieldDeltas(d[k].obligations, d[k].obligations) = {} BY <2>2, SameObligations
  <2> QED BY <2>1, <2>3, SilentPair
<1> HIDE DEF aligned
<1> QED BY <1>2, <1>3, <1>4, SilentRows

LEMMA RenumberedCopyIsSilent ==
  ASSUME NEW old, NEW new, IsDocument(old), IsDocument(new),
         \A i \in DOMAIN old : TextsDiffer(old[i].obligations),
         TitlesDiffer(old), TitlesDiffer(new), Len(old) = Len(new),
         \A i \in DOMAIN old : \E j \in DOMAIN new :
           /\ old[i].title = new[j].title
           /\ old[i].body = new[j].body
           /\ old[i].number # new[j].number \/ old[i].obligations = new[j].obligations,
         NEW result \in Pipeline(old, new)
  PROVE  result.rows = {}
<1> DEFINE aligned == AlignSections(old, new)
<1>1. Firsts(aligned) = DOMAIN old BY FullAlignment
<1>2. /\ OneToOne(old, new, aligned)
      /\ \A p \in aligned : old[p[1]].title = new[p[2]].title
  <2>1. Len(old) \in Nat /\ Len(old) \in 0 .. Len(old) BY DocumentFacts
  <2>2. aligned = Aligned(old, new)[Len(old)] BY <2>1, AlignmentSteps
  <2> HIDE DEF aligned
  <2> QED BY <2>1, <2>2, AlignmentOneToOne
<1>3. result = ChangeRows(old, new, aligned) BY <1>1, PipelineMatches
<1> HIDE DEF aligned
<1>4. Seconds(aligned) = DOMAIN new
  <2> DEFINE O == DOMAIN old
             N == DOMAIN new
  <2>1. /\ IsFiniteSet(O) /\ Cardinality(O) = Len(old)
        /\ IsFiniteSet(N) /\ Cardinality(N) = Len(new)
    BY DocumentFacts
  <2>2. aligned \in SUBSET (O \X N) /\ \A p, q \in aligned : p # q => p[1] # q[1] /\ p[2] # q[2]
    BY <1>2 DEF OneToOne
  <2>3. Firsts(aligned) = O BY <1>1
  <2> HIDE DEF O, N
  <2>4. /\ Cardinality(Firsts(aligned)) = Cardinality(aligned)
        /\ Seconds(aligned) \subseteq N /\ Cardinality(Seconds(aligned)) = Cardinality(aligned)
    BY <2>1, <2>2, FirstsAndSeconds
  <2>5. Cardinality(N) = Cardinality(Seconds(aligned)) BY <2>1, <2>3, <2>4
  <2>6. Seconds(aligned) = N BY <2>1, <2>4, <2>5, FS_Subset
  <2> QED BY <2>6 DEF N
<1>5. ASSUME NEW p \in aligned PROVE ~Substantive(old[p[1]], new[p[2]])
  <2>1. p[1] \in DOMAIN old /\ p[2] \in DOMAIN new BY <1>2 DEF OneToOne
  <2>2. PICK j \in DOMAIN new :
          /\ old[p[1]].title = new[j].title
          /\ old[p[1]].body = new[j].body
          /\ old[p[1]].number # new[j].number \/ old[p[1]].obligations = new[j].obligations
    BY <2>1
  <2>3. j = p[2] BY <1>2, <2>1, <2>2 DEF TitlesDiffer
  <2> DEFINE s == old[p[1]]
             t == new[p[2]]
  <2>4. s.title = t.title /\ s.body = t.body
        /\ (s.number # t.number \/ s.obligations = t.obligations)
    BY <2>2, <2>3
  <2>5. FieldDeltas(s.obligations, s.obligations) = {}
    <3>1. IsSequence(s.obligations) BY <2>1 DEF IsDocument
    <3> QED BY <2>1, <3>1, SameObligations
  <2> HIDE DEF s, t
  <2>6. ~Substantive(s, t) BY <2>4, <2>5, SilentPair
  <2> QED BY <2>6 DEF s, t
<1> QED BY <1>1, <1>3, <1>4, <1>5, SilentRows

(* A document has no changes against itself, nor against a renumbered or
   reordered copy (obligation_diff.py: diff_pair), for any two documents. *)
THEOREM RenumberingStaysSilent == EngineSpec => []RenumberingIsSilent
<1>1. DiffInv => RenumberingIsSilent
  <2> SUFFICES ASSUME DiffInv, Computed("diff") PROVE RenumberingIsSilent
    BY DEF RenumberingIsSilent
  <2> DEFINE old == input.pair[1]
             new == input.pair[2]
             result == output
             Counterparts ==
               \A i \in DOMAIN old : \E j \in DOMAIN new :
                 /\ old[i].title = new[j].title
                 /\ old[i].body = new[j].body
                 /\ old[i].number # new[j].number \/ old[i].obligations = new[j].obligations
  <2>1. IsDocument(old) /\ IsDocument(new) BY InputsAreDocuments DEF DiffInv, Computed
  <2>2. result \in Pipeline(old, new) BY DEF DiffInv
  <2>3. ASSUME \A i \in DOMAIN old : TextsDiffer(old[i].obligations)
        PROVE  /\ old = new => result.rows = {}
               /\ (TitlesDiffer(old) /\ TitlesDiffer(new) /\ Len(old) = Len(new) /\ Counterparts)
                    => result.rows = {}
    <3> HIDE DEF old, new, result
    <3> QED BY <2>1, <2>2, <2>3, SameDocumentIsSilent, RenumberedCopyIsSilent
  <2> QED BY <2>3 DEF RenumberingIsSilent, TextsDiffer, TitlesDiffer
<1> QED BY <1>1, AlwaysDiffInv, PTL
=============================================================================
