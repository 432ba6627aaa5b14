----------------------------- MODULE DiffEngine -----------------------------
(***************************************************************************)
(* packages/diff_engine: the change list of two documents.  Sections are   *)
(* aligned by title, the rest by an optimal assignment with a null option, *)
(* and every aligned pair is compared with its obligations.  The engine    *)
(* only calculates: an input is chosen, and one step computes its output.  *)
(*                                                                         *)
(* A document is the sequence of its sections in the order of their        *)
(* numbers; extracting them from the text, and the similarity of two texts,*)
(* are abstracted: similarities are given by tables below.                 *)
(***************************************************************************)
EXTENDS PolicyChanges, SequencesExt

VARIABLES input, output

engineVars == <<input, output>>
-----------------------------------------------------------------------------
(* matching.py: hungarian_matching.  Costs are in hundredths; a matrix maps
   the cells of 1 .. m \X 1 .. n. *)
Forbidden == 100000000

Square(cost, m, n, null) ==
  [cell \in (1 .. m + n) \X (1 .. m + n) |->
     LET i == cell[1]
         j == cell[2]
     IN CASE i <= m /\ j <= n -> IF cost[cell] < null THEN cost[cell] ELSE Forbidden
          [] i <= m /\ j > n -> IF j = n + i THEN null ELSE Forbidden
          [] i > m /\ j <= n -> IF i = m + j THEN null ELSE Forbidden
          [] i > m /\ j > n -> 0]

(* scipy: a permutation of least total cost - any of them. *)
Assigned(square, size, p) ==
  SumFunctionOnSet([i \in 1 .. size |-> square[<<i, p[i]>>]], 1 .. size)
LinearSumAssignment(square, size) ==
  LET total == [p \in Injection(1 .. size, 1 .. size) |-> Assigned(square, size, p)]
      least == Min({total[p] : p \in DOMAIN total})
  IN {p \in DOMAIN total : total[p] = least}

Matched(cost, m, n, null, p) ==
  {<<i, p[i]>> : i \in {i \in 1 .. m : p[i] <= n /\ cost[<<i, p[i]>>] < null}}

SquareNoNull(cost, m, n, null) ==       \* mutant: new items have no null option
  [cell \in DOMAIN Square(cost, m, n, null) |->
     IF cell[1] > m /\ cell[2] <= n THEN 0 ELSE Square(cost, m, n, null)[cell]]
Reduction(cost, m, n, null) == Square(cost, m, n, null)

HungarianMatchings(cost, m, n, null) ==
  IF m = 0 \/ n = 0 THEN {{}}
  ELSE {Matched(cost, m, n, null, p) :
          p \in LinearSumAssignment(Reduction(cost, m, n, null), m + n)}

(* What it stands for. *)
Matchings(cost, m, n, null) ==
  {pairs \in SUBSET {cell \in (1 .. m) \X (1 .. n) : cost[cell] < null} :
     \A p, q \in pairs : p # q => p[1] # q[1] /\ p[2] # q[2]}
AssignmentCost(cost, m, n, null, pairs) ==
  SumFunctionOnSet(cost, pairs) + null * (m + n - 2 * Cardinality(pairs))
-----------------------------------------------------------------------------
(* Titles: a quotation mark makes another title of the same canonical form;
   two of them are similar enough to be matched. *)
Canonical ==
  [audit |-> "audit", quoted_audit |-> "audit", audits |-> "audits", forms |-> "forms"]
Titles == DOMAIN Canonical
HighRisk(title) == title # "forms"          \* _HIGH_RISK names audits
TitleNull == 25                             \* 1 - DEFAULT_TAU
TitleCost(a, b) ==
  CASE a = b -> 0
    [] {a, b} = {"audit", "quoted_audit"} -> 5
    [] {a, b} = {"audit", "audits"} -> 20
    [] {a, b} = {"quoted_audit", "audits"} -> 24
    [] OTHER -> 90

Section(number, title, body, obligations) ==
  [number |-> number, title |-> title, body |-> body, obligations |-> obligations]

(* structural_diff.py: in the order of the old document, a section takes the
   free section of the same title whose number is nearest. *)
Distance(s, t) == IF s.number > t.number THEN s.number - t.number ELSE t.number - s.number
Nearest(s, new, free) ==
  CHOOSE j \in free : \A k \in free :
    \/ Distance(s, new[j]) < Distance(s, new[k])
    \/ Distance(s, new[j]) = Distance(s, new[k]) /\ j <= k

Free(s, new, pairs) ==
  {j \in DOMAIN new : new[j].title = s.title /\ \A p \in pairs : p[2] # j}
Align(old, new, pairs, i) ==
  LET free == Free(old[i], new, pairs) IN
  IF free = {} THEN pairs ELSE pairs \union {<<i, Nearest(old[i], new, free)>>}
AlignSections(old, new) ==
  LET aligned[i \in 0 .. Len(old)] ==
        IF i = 0 THEN {} ELSE Align(old, new, aligned[i - 1], i)
  IN aligned[Len(old)]

(* What is left for the assignment, in any order: it only breaks ties. *)
LeftoverAll(side, taken) == SetToSeq(DOMAIN side)    \* mutant: nothing was taken
Leftover(side, taken) == SetToSeq(DOMAIN side \ taken)
-----------------------------------------------------------------------------
(* obligation_diff.py: compare_obligations, over the obligations extracted for
   two aligned sections.  Obligations of one text are near-identical, others
   are below the similarity floor. *)
ObligationNull == 28                        \* 1 - _OBLIGATION_TAU
ObligationCost(o, p) == IF o.text = p.text THEN 0 ELSE 80

MatchedObligations(old, new) ==
  LET cost == [cell \in (DOMAIN old) \X (DOMAIN new) |-> ObligationCost(old[cell[1]], new[cell[2]])]
      pairs == CHOOSE pairs \in HungarianMatchings(cost, Len(old), Len(new), ObligationNull) : TRUE
  IN {<<old[p[1]], new[p[2]]>> : p \in pairs}

(* coverage_ratio >= 0.8. *)
Comparable(old, new) ==
  LET larger == Max({Len(old), Len(new)}) IN
  larger > 0 /\ 10 * Cardinality(MatchedObligations(old, new)) >= 8 * larger

FieldDeltas(old, new) == UNION {DiffFields(p[1], p[2]) : p \in MatchedObligations(old, new)}
HasFieldDelta(old, new) == FieldDeltas(old, new) # {} /\ Comparable(old, new)
ObligationLevel(old, new) ==
  Max({NONE} \union {Materiality(p[1], p[2]) : p \in MatchedObligations(old, new)})

(* diff_pair. *)
SectionFields(s) == [NoFields EXCEPT !.text = Canonical[s.title], !.object = Canonical[s.title]]

StableRenumberingNever(s, t) == FALSE   \* mutant: no guard against renumbering
StableRenumbering(s, t) ==
  s.number # t.number /\ Canonical[s.title] = Canonical[t.title] /\ s.body = t.body

Flips(s, t) == HasFieldDelta(s.obligations, t.obligations) /\ ~StableRenumbering(s, t)
Substantive(s, t) == DiffFields(SectionFields(s), SectionFields(t)) # {} \/ Flips(s, t)

Row(type, old, new, fields, level) ==
  [type |-> type, old |-> old, new |-> new, fields |-> fields, level |-> level]

DiffPair(s, t) ==
  LET trusted == HasFieldDelta(s.obligations, t.obligations) IN
  Row("modified", s.number, t.number,
      DiffFields(SectionFields(s), SectionFields(t)) \union
        (IF trusted THEN FieldDeltas(s.obligations, t.obligations) ELSE {}),
      Max({Materiality(SectionFields(s), SectionFields(t))} \union
        (IF trusted THEN {ObligationLevel(s.obligations, t.obligations)} ELSE {})))
DiffCreated(t) == Row("created", 0, t.number, {}, CreatedMateriality(HighRisk(t.title)))
DiffRemoved(s) == Row("removed", s.number, 0, {}, RemovedMateriality)
-----------------------------------------------------------------------------
(* engine.py: run_diff_pipeline.  Its result for one optimal assignment of
   the sections that were left over. *)
Firsts(pairs) == {p[1] : p \in pairs}
Seconds(pairs) == {p[2] : p \in pairs}

ChangeRows(old, new, matched) ==
  LET substantive == {p \in matched : Substantive(old[p[1]], new[p[2]])} IN
  [rows |-> {DiffPair(old[p[1]], new[p[2]]) : p \in substantive}
              \union {DiffCreated(new[j]) : j \in DOMAIN new \ Seconds(matched)}
              \union {DiffRemoved(old[i]) : i \in DOMAIN old \ Firsts(matched)},
   suppressed |-> Cardinality(matched \ substantive)]

Pipeline(old, new) ==
  LET aligned == AlignSections(old, new)
      lo == Leftover(old, Firsts(aligned))
      ln == Leftover(new, Seconds(aligned))
      cost == [cell \in (DOMAIN lo) \X (DOMAIN ln) |->
                 TitleCost(old[lo[cell[1]]].title, new[ln[cell[2]]].title)]
  IN {ChangeRows(old, new, aligned \union {<<lo[p[1]], ln[p[2]]>> : p \in pairs}) :
        pairs \in HungarianMatchings(cost, Len(lo), Len(ln), TitleNull)}
-----------------------------------------------------------------------------
CONSTANTS
  Matrices,      \* matching problems: [m, n, cost]
  Documents,     \* pairs of documents
  Versions       \* pairs of versions of an obligation

(* Costs are not negative; the forbidden cost exceeds what it costs to leave
   everything unmatched: a section number has three digits at most. *)
MatricesAssumption ==
  \A x \in Matrices :
    /\ x.m \in Nat /\ x.n \in Nat /\ TitleNull * (x.m + x.n) < Forbidden
    /\ \A cell \in (1 .. x.m) \X (1 .. x.n) : x.cost[cell] \in Nat

(* extract_sections sorts the section numbers, the keys of a table. *)
IsSequence(s) == s \in Seq(Range(s))
IsDocument(d) ==
  /\ IsSequence(d)
  /\ \A i \in DOMAIN d :
       d[i].number \in Nat /\ d[i].title \in Titles /\ IsSequence(d[i].obligations)
  /\ \A i, j \in DOMAIN d : i < j => d[i].number < d[j].number
DocumentsAssumption == \A pair \in Documents : IsDocument(pair[1]) /\ IsDocument(pair[2])

(* The phrases that the tables of PolicyChanges know. *)
IsVersion(o) ==
  /\ o = [f \in Fields |-> o[f]]
  /\ o.deadline \in {""} \union DOMAIN DeadlineDays
  /\ o.frequency \in {""} \union DOMAIN FrequencyRank
VersionsAssumption == \A pair \in Versions : IsVersion(pair[1]) /\ IsVersion(pair[2])

ASSUME EngineAssumption == MatricesAssumption /\ DocumentsAssumption /\ VersionsAssumption

Inputs ==
  [do : {"match"}, problem : Matrices] \union [do : {"diff"}, pair : Documents] \union
  [do : {"assess"}, pair : Versions]

NotComputed == [none |-> TRUE]
EngineInit == input \in Inputs /\ output = NotComputed

Match ==
  /\ input.do = "match"
  /\ LET x == input.problem IN
       output' \in [pairs : HungarianMatchings(x.cost, x.m, x.n, TitleNull)]
Diff ==
  /\ input.do = "diff"
  /\ output' \in Pipeline(input.pair[1], input.pair[2])
Rate ==
  /\ input.do = "assess"
  /\ output' = [level |-> Materiality(input.pair[1], input.pair[2])]

EngineNext == output = NotComputed /\ (Match \/ Diff \/ Rate) /\ UNCHANGED input
EngineSpec == EngineInit /\ [][EngineNext]_engineVars
Computed(what) == output # NotComputed /\ input.do = what
-----------------------------------------------------------------------------
(* The reduction to a square assignment is exact: what is matched is a
   one-to-one matching of pairs strictly above the threshold, and none of
   these costs less, the unmatched counted at the null cost (matching.py:60). *)
MatchingIsOptimal ==
  Computed("match") =>
    LET x == input.problem
        all == Matchings(x.cost, x.m, x.n, TitleNull)
        cost(pairs) == AssignmentCost(x.cost, x.m, x.n, TitleNull, pairs)
    IN output.pairs \in all /\ \A pairs \in all : cost(output.pairs) <= cost(pairs)

(* Every section of either document is in one row, or in one of the pairs that
   are counted as cosmetic: none is lost between the levels, none is reported
   twice, and a modified row says what changed (engine.py:57-91). *)
SectionsAccountedFor ==
  Computed("diff") =>
    LET old == input.pair[1]
        new == input.pair[2]
        Of(types) == {r \in output.rows : r.type \in types}
    IN
    /\ Cardinality(Of({"removed", "modified"})) + output.suppressed = Len(old)
    /\ Cardinality(Of({"created", "modified"})) + output.suppressed = Len(new)
    /\ \A r, q \in output.rows : r # q =>
         (r.old # q.old \/ r.old = 0) /\ (r.new # q.new \/ r.new = 0)
    /\ \A r \in Of({"modified"}) : r.fields # {} /\ r.level >= LOW

(* Nothing is invented: a document compared with itself has no changes, nor
   has one compared with a copy whose sections were renumbered in the same
   order, or reordered, as long as titles are not repeated - even when the
   second extraction gave other fields to the same obligations of a renumbered
   section (obligation_diff.py:230).  Two obligations of one text in a section
   could be matched crosswise. *)
RenumberingIsSilent ==
  Computed("diff") =>
    LET old == input.pair[1]
        new == input.pair[2]
        Distinct(doc) == \A i, j \in DOMAIN doc : i # j => doc[i].title # doc[j].title
        TextsDiffer(duties) ==
          \A k, l \in DOMAIN duties : k # l => duties[k].text # duties[l].text
    IN
    (\A i \in DOMAIN old : TextsDiffer(old[i].obligations)) =>
    /\ old = new => output.rows = {}
    /\ (/\ Distinct(old) /\ Distinct(new) /\ Len(old) = Len(new)
        /\ \A i \in DOMAIN old : \E j \in DOMAIN new :
             /\ old[i].title = new[j].title
             /\ old[i].body = new[j].body
             /\ old[i].number # new[j].number \/ old[i].obligations = new[j].obligations)
       => output.rows = {}

(* Real frequencies, times a year. *)
TimesAYear ==
  [real_time |-> 10000, daily |-> 365, weekly |-> 52, bi_weekly |-> 26, fortnightly |-> 26,
   monthly |-> 12, quarterly |-> 4, semi_annual |-> 2, half_yearly |-> 2, yearly |-> 1,
   annually |-> 1]

(* A stricter duty is never understated, whatever else changed with it: a
   shorter deadline that both texts state in days, more actors, a first
   evidence requirement or penalty are HIGH; a duty that in truth recurs more
   often needs confirmation although some phrases are ranked wrongly
   (changes.py:201); and only equal versions are NONE. *)
NeverUnderstated ==
  Computed("assess") =>
    LET old == input.pair[1]
        new == input.pair[2]
        level == output.level
    IN
    /\ Below(Days(new.deadline), Days(old.deadline)) => level = HIGH
    /\ Actors(old) \subseteq Actors(new) /\ Actors(old) # Actors(new) => level = HIGH
    /\ (old.evidence = "" /\ new.evidence # "") \/ (old.penalty = "" /\ new.penalty # "") =>
         level = HIGH
    /\ old.frequency # "" /\ new.frequency # "" =>
         (TimesAYear[new.frequency] > TimesAYear[old.frequency] => RequiresConfirmation(level))
    /\ level = NONE <=> old = new
=============================================================================
