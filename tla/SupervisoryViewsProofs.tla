----------------------- MODULE SupervisoryViewsProofs -----------------------
(***************************************************************************)
(* CoverageWasReal and ViewsAgree hold for any population and registry.    *)
(* What a query has loaded was committed at some moment since the request  *)
(* began, and what was committed all along has been loaded.  The views     *)
(* agree because each counts the same pairs: a sum over the intermediaries *)
(* and one over the obligations or changes are the two ways to count them. *)
(***************************************************************************)
EXTENDS SupervisoryViews, SumTheorems

Pcs == {"new", "authorized", "population", "changes", "duties", "controls", "evidence", "loaded",
        "refused"}
ViewTypes ==
  /\ request.pc \in Pcs
  /\ db.population \subseteq Orgs /\ request.market.population \subseteq Orgs
  /\ db.duties \subseteq Duties /\ request.market.duties \subseteq Duties
  /\ IsFiniteSet(request.market.changes)

(* The history covers the committed rows from the start of the request on. *)
Watched ==
  request.pc # "new" =>
    /\ db.controls \subseteq seen.controlled
    /\ ValidPairs(db) \subseteq seen.valid
    /\ seen.always \subseteq db.controls \intersect ValidPairs(db)

Asked(market) == market.population \X market.duties
ControlsWereReal ==
  /\ request.market.controlled \subseteq seen.controlled
  /\ seen.always \intersect Asked(request.market) \subseteq request.market.controlled
EvidenceWasReal ==
  /\ \A m \in request.market.evidence : m.status = "valid" => <<m.org, m.duty>> \in seen.valid
  /\ \A o \in request.market.population, d \in request.market.duties :
       <<o, d>> \in seen.always =>
         \E m \in request.market.evidence : m.org = o /\ m.duty = d /\ m.status = "valid"

ViewInv ==
  /\ ViewTypes
  /\ Watched
  /\ request.pc \in {"controls", "evidence", "loaded"} => ControlsWereReal
  /\ request.pc \in {"evidence", "loaded"} => EvidenceWasReal

LEMMA InitViews == ViewsInit => ViewInv
BY FS_EmptySet DEF ViewsInit, ViewInv, ViewTypes, Watched, NoMarket, Pcs

LEMMA EditKeepsViews ==
  ASSUME ViewInv, NEW new, Edit(new), new.population \subseteq Orgs, new.duties \subseteq Duties
  PROVE  ViewInv'
<1>1. /\ db' = new /\ request' = request /\ request.pc \notin {"loaded", "refused"}
      /\ seen' = IF request.pc = "new" THEN seen ELSE Observed(seen, new)
  BY DEF Edit
<1>2. CASE request.pc = "new"
  BY <1>1, <1>2 DEF ViewInv, ViewTypes, Watched
<1>3. CASE request.pc # "new"
  <2>1. /\ seen'.controlled = seen.controlled \union new.controls
        /\ seen'.valid = seen.valid \union ValidPairs(new)
        /\ seen'.always = seen.always \intersect new.controls \intersect ValidPairs(new)
    BY <1>1, <1>3 DEF Observed
  <2>2. Watched'
    <3>1. ValidPairs(db)' = ValidPairs(new) BY <1>1 DEF ValidPairs
    <3> QED BY <1>1, <2>1, <3>1 DEF Watched
  <2>3. ControlsWereReal => ControlsWereReal'
    BY <1>1, <2>1 DEF ControlsWereReal, Asked
  <2>4. EvidenceWasReal => EvidenceWasReal' BY <1>1, <2>1 DEF EvidenceWasReal
  <2>5. ViewTypes' BY <1>1 DEF ViewInv, ViewTypes
  <2> QED BY <1>1, <2>2, <2>3, <2>4, <2>5 DEF ViewInv
<1> QED BY <1>2, <1>3

LEMMA StartKeepsViews ==
  ASSUME ViewInv, NEW anonymous, Authorize(anonymous) PROVE ViewInv'
<1>1. /\ db' = db /\ request'.pc \in {"authorized", "refused"} /\ request'.market = NoMarket
      /\ seen' = Observed(NothingSeen, db)
  BY DEF Authorize, To
<1>2. /\ seen'.controlled = db.controls /\ seen'.valid = ValidPairs(db)
      /\ seen'.always \subseteq db.controls \intersect ValidPairs(db)
  BY <1>1 DEF Observed, NothingSeen
<1>3. ValidPairs(db)' = ValidPairs(db) BY <1>1 DEF ValidPairs
<1> QED BY <1>1, <1>2, <1>3, FS_EmptySet DEF ViewInv, ViewTypes, Watched, Pcs, NoMarket

(* A query: what it adds to the market was committed just now. *)
LEMMA LoadKeepsViews ==
  ASSUME ViewInv, NEW from, NEW to \in Pcs, NEW market, Load(from, to, market),
         to # "new", from # "new",
         market.population \subseteq Orgs, market.duties \subseteq Duties,
         IsFiniteSet(market.changes),
         to \in {"controls", "evidence", "loaded"} =>
           /\ market.population = request.market.population
           /\ market.duties = request.market.duties
           /\ \/ from \in {"controls", "evidence"} /\ market.controlled = request.market.controlled
              \/ market.controlled = Loaded(db.controls, request.market.duties),
         to \in {"evidence", "loaded"} =>
           \/ from = "evidence" /\ market.evidence = request.market.evidence
           \/ market.evidence = {m \in db.evidence : m.org \in request.market.population
                         /\ m.duty \in request.market.duties /\ SameOwner(m)}
  PROVE  ViewInv'
<1>1. /\ request.pc = from /\ request'.pc = to /\ request'.market = market
      /\ db' = db /\ seen' = seen
  BY DEF Load, To
<1>2. ViewTypes' BY <1>1 DEF ViewInv, ViewTypes
<1>3. /\ db.controls \subseteq seen.controlled /\ ValidPairs(db) \subseteq seen.valid
      /\ seen.always \subseteq db.controls \intersect ValidPairs(db)
  BY <1>1 DEF ViewInv, Watched
<1>4. Watched' BY <1>1, <1>3 DEF Watched, ValidPairs
<1>5. ASSUME to \in {"controls", "evidence", "loaded"} PROVE ControlsWereReal'
  <2>1. CASE market.controlled = Loaded(db.controls, request.market.duties)
    BY <1>1, <1>3, <1>5, <2>1 DEF ControlsWereReal, Loaded, Asked
  <2>2. CASE from \in {"controls", "evidence"} /\ market.controlled = request.market.controlled
    BY <1>1, <1>5, <2>2 DEF ViewInv, ControlsWereReal, Asked
  <2> QED BY <1>5, <2>1, <2>2
<1>6. ASSUME to \in {"evidence", "loaded"} PROVE EvidenceWasReal'
  <2>0. market.population = request.market.population /\ market.duties = request.market.duties
    BY <1>6
  <2>1. CASE from = "evidence" /\ market.evidence = request.market.evidence
    BY <1>1, <2>0, <2>1 DEF ViewInv, EvidenceWasReal
  <2>2. CASE market.evidence = {m \in db.evidence : m.org \in request.market.population
                           /\ m.duty \in request.market.duties /\ SameOwner(m)}
    <3>1. ASSUME NEW m \in market.evidence, m.status = "valid"
          PROVE  <<m.org, m.duty>> \in seen.valid
      <4>1. m \in db.evidence /\ m.owner = m.org BY <2>2, <3>1 DEF SameOwner
      <4>2. <<m.org, m.duty>> \in ValidPairs(db) BY <3>1, <4>1 DEF ValidPairs
      <4> QED BY <1>3, <4>2
    <3>2. ASSUME NEW o \in market.population, NEW d \in market.duties,
                 <<o, d>> \in seen.always
          PROVE  \E m \in market.evidence : m.org = o /\ m.duty = d /\ m.status = "valid"
      <4>1. <<o, d>> \in ValidPairs(db) BY <1>3, <3>2
      <4>2. PICK m \in db.evidence : m.status = "valid" /\ m.owner = m.org
                                    /\ <<o, d>> = <<m.org, m.duty>>
        BY <4>1 DEF ValidPairs
      <4>3. o = m.org /\ d = m.duty BY <4>2
      <4>4. m \in market.evidence BY <2>0, <2>2, <4>2, <4>3 DEF SameOwner
      <4> QED BY <4>2, <4>3, <4>4
    <3> QED BY <1>1, <3>1, <3>2 DEF EvidenceWasReal
  <2> QED BY <1>6, <2>1, <2>2
<1> QED BY <1>1, <1>2, <1>4, <1>5, <1>6 DEF ViewInv

LEMMA QueriesKeepViews ==
  ASSUME ViewInv,
         LoadPopulation \/ LoadChanges \/ LoadDuties \/ LoadControlled \/ LoadEvidence
           \/ LoadCompleted
  PROVE  ViewInv'
<1> DEFINE market == request.market
<1>0. market.population \subseteq Orgs /\ market.duties \subseteq Duties
      /\ db.population \subseteq Orgs /\ db.duties \subseteq Duties
      /\ IsFiniteSet(market.changes) /\ IsFiniteSet({})
  BY FS_EmptySet DEF ViewInv, ViewTypes
<1>1. ASSUME NEW from, Refuse(from), from # "new" PROVE ViewInv'
  <2>1. /\ NoMarket.population = {} /\ NoMarket.duties = {} /\ NoMarket.changes = {}
    BY DEF NoMarket
  <2>2. Load(from, "refused", NoMarket) BY <1>1 DEF Refuse
  <2> QED BY <1>0, <1>1, <2>1, <2>2, LoadKeepsViews DEF Pcs
<1>2. CASE LoadPopulation
  <2> DEFINE loaded == [NoMarket EXCEPT !.population = db.population]
  <2>1. /\ loaded.population \subseteq Orgs /\ loaded.duties \subseteq Duties
        /\ IsFiniteSet(loaded.changes)
    BY <1>0 DEF NoMarket
  <2>2. Refuse("authorized") \/ Load("authorized", "population", loaded)
    BY <1>2 DEF LoadPopulation
  <2> HIDE DEF loaded
  <2> QED BY <1>1, <2>1, <2>2, LoadKeepsViews DEF Pcs
<1>3. CASE LoadChanges
  <2> DEFINE tracked == Tracked(db.run)
             loaded == [market EXCEPT !.changes = tracked]
  <2>3. IsFiniteSet(tracked) BY FS_Singleton DEF Tracked
  <2> HIDE DEF tracked
  <2>1. /\ loaded.population \subseteq Orgs /\ loaded.duties \subseteq Duties
        /\ IsFiniteSet(loaded.changes)
    BY <1>0, <2>3
  <2>2. Load("population", "changes", loaded) BY <1>3 DEF LoadChanges, tracked
  <2> HIDE DEF loaded
  <2> QED BY <2>1, <2>2, LoadKeepsViews DEF Pcs
<1>4. CASE LoadDuties
  <2> DEFINE loaded == [market EXCEPT !.duties = db.duties]
  <2>1. /\ loaded.population \subseteq Orgs /\ loaded.duties \subseteq Duties
        /\ IsFiniteSet(loaded.changes)
    BY <1>0
  <2>2. Load("changes", "duties", loaded) BY <1>4 DEF LoadDuties
  <2> HIDE DEF loaded
  <2> QED BY <2>1, <2>2, LoadKeepsViews DEF Pcs
<1>5. CASE LoadControlled
  <2> DEFINE loaded == [market EXCEPT !.controlled = Loaded(db.controls, market.duties)]
  <2>1. /\ loaded.population = market.population /\ loaded.duties = market.duties
        /\ loaded.changes = market.changes
        /\ loaded.controlled = Loaded(db.controls, market.duties)
    OBVIOUS
  <2>2. Load("duties", "controls", loaded) BY <1>5 DEF LoadControlled
  <2> HIDE DEF loaded
  <2> QED BY <1>0, <2>1, <2>2, LoadKeepsViews DEF Pcs
<1>6. CASE LoadEvidence
  <2> DEFINE rows == {m \in db.evidence : m.org \in market.population
                                        /\ m.duty \in market.duties /\ SameOwner(m)}
             loaded == [market EXCEPT !.evidence = rows]
  <2>1. /\ loaded.population = market.population /\ loaded.duties = market.duties
        /\ loaded.changes = market.changes
        /\ loaded.evidence = rows /\ loaded.controlled = market.controlled
    OBVIOUS
  <2>2. Load("controls", "evidence", loaded) BY <1>6 DEF LoadEvidence
  <2> HIDE DEF loaded
  <2> QED BY <1>0, <2>1, <2>2, LoadKeepsViews DEF Pcs
<1>7. CASE LoadCompleted
  <2> DEFINE loaded == [market EXCEPT !.completed = Loaded(db.completed, market.changes)]
  <2>1. /\ loaded.population = market.population /\ loaded.duties = market.duties
        /\ loaded.changes = market.changes
        /\ loaded.evidence = market.evidence /\ loaded.controlled = market.controlled
    OBVIOUS
  <2>2. Load("evidence", "loaded", loaded) BY <1>7 DEF LoadCompleted
  <2> HIDE DEF loaded
  <2> QED BY <1>0, <2>1, <2>2, LoadKeepsViews DEF Pcs
<1> QED BY <1>2, <1>3, <1>4, <1>5, <1>6, <1>7

LEMMA ViewStep == ViewInv /\ [ViewsNext]_viewVars => ViewInv'
<1> SUFFICES ASSUME ViewInv, [ViewsNext]_viewVars PROVE ViewInv'
  OBVIOUS
<1>0. db.population \subseteq Orgs /\ db.duties \subseteq Duties BY DEF ViewInv, ViewTypes
<1> DEFINE Edits == \E new : Edit(new) /\ new.population \subseteq Orgs /\ new.duties \subseteq Duties
<1>1. ASSUME NEW o \in Orgs, EditPopulation(o) PROVE Edits
  <2> DEFINE new == [db EXCEPT !.population = Flip(o, @)]
  <2>1. Edit(new) BY <1>1 DEF EditPopulation
  <2>2. Flip(o, db.population) \subseteq Orgs BY <1>0 DEF Flip
  <2>3. new.population \subseteq Orgs /\ new.duties \subseteq Duties BY <1>0, <2>2
  <2> HIDE DEF new
  <2> QED BY <2>1, <2>3
<1>2. ASSUME NEW d \in Duties, EditRegistry(d) PROVE Edits
  <2> DEFINE new == [db EXCEPT !.duties = Flip(d, @)]
  <2>1. Edit(new) BY <1>2 DEF EditRegistry
  <2>2. Flip(d, db.duties) \subseteq Duties BY <1>0 DEF Flip
  <2>3. new.population \subseteq Orgs /\ new.duties \subseteq Duties BY <1>0, <2>2
  <2> HIDE DEF new
  <2> QED BY <2>1, <2>3
<1>3. ASSUME NEW o \in Orgs, NEW d \in Duties, EditControl(o, d) PROVE Edits
  <2> DEFINE new == [db EXCEPT !.controls = Flip(<<o, d>>, @)]
  <2>1. Edit(new) BY <1>3 DEF EditControl
  <2>2. new.population \subseteq Orgs /\ new.duties \subseteq Duties BY <1>0
  <2> HIDE DEF new
  <2> QED BY <2>1, <2>2
<1>4. ASSUME NEW m \in Mappings, EditEvidence(m) PROVE Edits
  <2> DEFINE new == [db EXCEPT !.evidence = Flip(m, @)]
  <2>1. Edit(new) BY <1>4 DEF EditEvidence
  <2>2. new.population \subseteq Orgs /\ new.duties \subseteq Duties BY <1>0
  <2> HIDE DEF new
  <2> QED BY <2>1, <2>2
<1>5. ASSUME NEW o \in Orgs, NEW c \in Modifications, EditTask(o, c) PROVE Edits
  <2> DEFINE new == [db EXCEPT !.completed = Flip(<<o, c>>, @)]
  <2>1. Edit(new) BY <1>5 DEF EditTask
  <2>2. new.population \subseteq Orgs /\ new.duties \subseteq Duties BY <1>0
  <2> HIDE DEF new
  <2> QED BY <2>1, <2>2
<1>6. ASSUME EditMembership PROVE Edits
  <2> DEFINE new == [db EXCEPT !.member = ~@]
  <2>1. Edit(new) BY <1>6 DEF EditMembership
  <2>2. new.population \subseteq Orgs /\ new.duties \subseteq Duties BY <1>0
  <2> HIDE DEF new
  <2> QED BY <2>1, <2>2
<1>7. ASSUME NewDiffRun PROVE Edits
  <2> DEFINE new == [db EXCEPT !.run = 3 - @]
  <2>1. Edit(new) BY <1>7 DEF NewDiffRun
  <2>2. new.population \subseteq Orgs /\ new.duties \subseteq Duties BY <1>0
  <2> HIDE DEF new
  <2> QED BY <2>1, <2>2
<1>8. ASSUME Edits PROVE ViewInv' BY <1>8, EditKeepsViews
<1>9. CASE UNCHANGED viewVars
  BY <1>9 DEF viewVars, ViewInv, ViewTypes, Watched, ValidPairs, ControlsWereReal, EvidenceWasReal,
     Asked
<1> HIDE DEF Edits
<1> QED BY <1>1, <1>2, <1>3, <1>4, <1>5, <1>6, <1>7, <1>8, <1>9, StartKeepsViews, QueriesKeepViews
        DEF ViewsNext

LEMMA AlwaysViewInv == ViewsSpec => []ViewInv
BY InitViews, ViewStep, PTL DEF ViewsSpec

LEMMA ValidExactly ==
  ASSUME NEW market, NEW o, NEW d
  PROVE  EvidenceState(market, o, d) = "valid" <=>
           \E m \in market.evidence : m.org = o /\ m.duty = d /\ m.status = "valid"
<1> DEFINE statuses == {m.status : m \in {m \in market.evidence : m.org = o /\ m.duty = d}}
<1>1. EvidenceState(market, o, d) = "valid" <=> "valid" \in statuses
  <2> HIDE DEF statuses
  <2> QED BY DEF EvidenceState, statuses
<1> QED BY <1>1

(* Whatever was edited between the queries: coverage that is reported was
   there in its parts, and coverage that was there all along is reported. *)
THEOREM ReportedCoverageWasReal == ViewsSpec => []CoverageWasReal
<1>1. ViewInv => CoverageWasReal
  <2> SUFFICES ASSUME ViewInv, request.pc = "loaded",
                      NEW o \in request.market.population, NEW d \in request.market.duties
               PROVE  /\ d \in Covered(request.market, o) =>
                            <<o, d>> \in seen.controlled \intersect seen.valid
                      /\ <<o, d>> \in seen.always => d \in Covered(request.market, o)
    BY DEF CoverageWasReal
  <2>1. ControlsWereReal /\ EvidenceWasReal BY DEF ViewInv
  <2>2. d \in Covered(request.market, o) <=>
          <<o, d>> \in request.market.controlled
          /\ \E m \in request.market.evidence : m.org = o /\ m.duty = d /\ m.status = "valid"
    BY ValidExactly DEF Covered, Controlled
  <2>3. ASSUME d \in Covered(request.market, o) PROVE <<o, d>> \in seen.controlled \intersect seen.valid
    BY <2>1, <2>2, <2>3 DEF ControlsWereReal, EvidenceWasReal
  <2>4. ASSUME <<o, d>> \in seen.always PROVE d \in Covered(request.market, o)
    BY <2>1, <2>2, <2>4 DEF ControlsWereReal, EvidenceWasReal, Asked
  <2> QED BY <2>3, <2>4
<1> QED BY <1>1, AlwaysViewInv, PTL
-----------------------------------------------------------------------------
(* One intermediary: its obligations are covered or gaps, and valid, stale or
   without evidence. *)
DutiesIn(market, o, s) == {d \in market.duties : EvidenceState(market, o, d) = s}

LEMMA Parts ==
  ASSUME NEW S, IsFiniteSet(S), NEW T, T \subseteq S
  PROVE  /\ IsFiniteSet(T) /\ Cardinality(T) \in Nat /\ Cardinality(S) \in Nat
         /\ Cardinality(S \ T) \in Nat /\ Cardinality(T) + Cardinality(S \ T) = Cardinality(S)
         /\ Cardinality(T) <= Cardinality(S)
<1>1. IsFiniteSet(T) /\ IsFiniteSet(S \ T) BY FS_Subset
<1>2. S \intersect T = T OBVIOUS
<1>3. Cardinality(S \ T) = Cardinality(S) - Cardinality(T) BY <1>2, FS_Difference
<1>4. Cardinality(T) \in Nat /\ Cardinality(S) \in Nat /\ Cardinality(S \ T) \in Nat
  BY <1>1, FS_CardinalityType
<1> QED BY <1>1, <1>3, <1>4

LEMMA PostureAdds ==
  ASSUME NEW market, IsFiniteSet(market.duties), NEW o
  PROVE  LET P == Posture(market, o) IN
         /\ P.covered \in Nat /\ P.total \in Nat /\ Cardinality(DOMAIN P.gaps) \in Nat
         /\ \A s \in {"valid", "stale", "missing"} : P.freshness[s] \in Nat
         /\ P.covered + Cardinality(DOMAIN P.gaps) = P.total
         /\ P.freshness["valid"] + P.freshness["stale"] + P.freshness["missing"] = P.total
         /\ P.covered <= P.freshness["valid"]
<1> DEFINE D == market.duties
           In(s) == DutiesIn(market, o, s)
           n(s) == Cardinality(In(s))
<1>1. Covered(market, o) \subseteq D /\ Covered(market, o) \subseteq In("valid")
  BY DEF Covered, DutiesIn
<1>2. \A s : In(s) \subseteq D BY DEF DutiesIn
<1>3. /\ Cardinality(Covered(market, o)) \in Nat /\ Cardinality(D) \in Nat
      /\ Cardinality(D \ Covered(market, o)) \in Nat
      /\ Cardinality(Covered(market, o)) + Cardinality(D \ Covered(market, o)) = Cardinality(D)
  BY <1>1, Parts
<1>4. \A s : n(s) \in Nat /\ IsFiniteSet(In(s)) BY <1>2, Parts
<1>5. n("valid") + n("stale") + n("missing") = Cardinality(D)
  <2> DEFINE rest == D \ In("valid")
  <2>1. \A d : EvidenceState(market, o, d) \in {"valid", "stale", "missing"}
    BY DEF EvidenceState
  <2>2. /\ In("stale") \subseteq rest /\ rest \ In("stale") = In("missing")
        /\ rest \subseteq D
    BY <2>1 DEF DutiesIn
  <2>3. IsFiniteSet(rest) BY <2>2, FS_Subset
  <2>4. n("stale") + Cardinality(rest \ In("stale")) = Cardinality(rest)
    <3> HIDE DEF rest, In
    <3> QED BY <2>2, <2>3, Parts
  <2>5. n("valid") + Cardinality(rest) = Cardinality(D) BY <1>2, Parts
  <2>6. n("stale") + n("missing") = Cardinality(rest) BY <2>2, <2>4
  <2>7. n("valid") \in Nat /\ n("stale") \in Nat /\ n("missing") \in Nat BY <1>4
  <2> HIDE DEF n, rest
  <2> QED BY <2>5, <2>6, <2>7
<1>6. Cardinality(Covered(market, o)) <= n("valid") BY <1>1, <1>4, Parts
<1>7. DOMAIN Gaps(market, o) = D \ Covered(market, o) BY DEF Gaps
<1> DEFINE P == Posture(market, o)
<1>8. /\ P.covered = Cardinality(Covered(market, o)) /\ P.total = Cardinality(D)
      /\ P.gaps = Gaps(market, o)
      /\ P.freshness = [s \in {"valid", "stale", "missing"} |-> n(s)]
  BY DEF Posture, DutiesIn
<1>9. \A s \in {"valid", "stale", "missing"} : P.freshness[s] = n(s)
  <2> HIDE DEF n, P
  <2> QED BY <1>8
<1> HIDE DEF P, n, In
<1>10. Cardinality(DOMAIN P.gaps) = Cardinality(D \ Covered(market, o)) BY <1>7, <1>8
<1>11. /\ P.freshness["valid"] = n("valid") /\ P.freshness["stale"] = n("stale")
       /\ P.freshness["missing"] = n("missing")
  BY <1>9
<1>12. /\ P.covered \in Nat /\ P.total \in Nat /\ Cardinality(DOMAIN P.gaps) \in Nat
       /\ P.covered + Cardinality(DOMAIN P.gaps) = P.total
       /\ P.freshness["valid"] + P.freshness["stale"] + P.freshness["missing"] = P.total
       /\ P.covered <= P.freshness["valid"]
  BY <1>3, <1>5, <1>6, <1>8, <1>10, <1>11
<1>13. \A s \in {"valid", "stale", "missing"} : P.freshness[s] \in Nat BY <1>4, <1>9
<1> QED BY <1>12, <1>13 DEF P

(* Every gap has a reason, and is found by its obligation. *)
LEMMA GapsHaveReasons ==
  ASSUME NEW market, NEW o \in market.population, NEW d \in DOMAIN Gaps(market, o)
  PROVE  Gaps(market, o)[d] # {} /\ DutyGap(market, d)[o] = Gaps(market, o)[d]
<1>1. d \in market.duties \ Covered(market, o) /\ Gaps(market, o)[d] = GapTypes(market, o, d)
  BY DEF Gaps
<1>2. ~Controlled(market, o, d) \/ EvidenceState(market, o, d) # "valid" BY <1>1 DEF Covered
<1>3. EvidenceState(market, o, d) \in {"valid", "stale", "missing"} BY DEF EvidenceState
<1>4. GapTypes(market, o, d) # {}
  <2>1. CASE ~Controlled(market, o, d) BY <2>1 DEF GapTypes
  <2>2. CASE EvidenceState(market, o, d) = "stale" BY <2>2 DEF GapTypes
  <2>3. CASE EvidenceState(market, o, d) = "missing" BY <2>3 DEF GapTypes
  <2> QED BY <1>2, <1>3, <2>1, <2>2, <2>3
<1>5. DutyGap(market, d)[o] = Gaps(market, o)[d] BY DEF DutyGap
<1> QED BY <1>1, <1>4, <1>5

LEMMA MarketAgrees ==
  ASSUME NEW market, IsFiniteSet(market.population), IsFiniteSet(market.duties),
         IsFiniteSet(market.changes)
  PROVE  Agree(market)
<1> DEFINE O == market.population
           D == market.duties
           C == market.changes
           P(o) == Posture(market, o)
           Sum(f) == SumFunctionOnSet(f, O)
           covered == [o \in O |-> P(o).covered]
           total == [o \in O |-> P(o).total]
           fresh(s) == [o \in O |-> P(o).freshness[s]]
           gaps == [o \in O |-> Cardinality(DOMAIN P(o).gaps)]
           adopted == [o \in O |-> P(o).adopted]
           affected == [d \in D |-> Cardinality(DOMAIN DutyGap(market, d))]
           adopters == [c \in C |-> Cardinality(Adopters(market, c))]
           rollup == Rollup(market)
<1>1. /\ rollup.covered = Sum(covered) /\ rollup.total = Sum(total)
      /\ rollup.gaps = Sum(gaps) /\ rollup.adopted = Sum(adopted)
      /\ rollup.freshness = [s \in {"valid", "stale", "missing"} |-> Sum(fresh(s))]
  BY DEF Rollup, SumFunction
<1>2. /\ rollup.freshness["valid"] = Sum(fresh("valid"))
      /\ rollup.freshness["stale"] = Sum(fresh("stale"))
      /\ rollup.freshness["missing"] = Sum(fresh("missing"))
  <2> HIDE DEF rollup, fresh
  <2> QED BY <1>1
<1>3. ASSUME NEW o \in O
      PROVE  /\ covered[o] \in Nat /\ total[o] \in Nat /\ gaps[o] \in Nat
             /\ fresh("valid")[o] \in Nat /\ fresh("stale")[o] \in Nat
             /\ fresh("missing")[o] \in Nat
             /\ total[o] = covered[o] + gaps[o]
             /\ total[o] = fresh("valid")[o] + fresh("stale")[o] + fresh("missing")[o]
             /\ covered[o] <= fresh("valid")[o]
  <2>1. /\ covered[o] = P(o).covered /\ total[o] = P(o).total
        /\ gaps[o] = Cardinality(DOMAIN P(o).gaps)
        /\ fresh("valid")[o] = P(o).freshness["valid"]
        /\ fresh("stale")[o] = P(o).freshness["stale"]
        /\ fresh("missing")[o] = P(o).freshness["missing"]
    OBVIOUS
  <2>2. /\ P(o).covered \in Nat /\ P(o).total \in Nat /\ Cardinality(DOMAIN P(o).gaps) \in Nat
        /\ P(o).freshness["valid"] \in Nat /\ P(o).freshness["stale"] \in Nat
        /\ P(o).freshness["missing"] \in Nat
        /\ P(o).covered + Cardinality(DOMAIN P(o).gaps) = P(o).total
        /\ P(o).freshness["valid"] + P(o).freshness["stale"] + P(o).freshness["missing"]
             = P(o).total
        /\ P(o).covered <= P(o).freshness["valid"]
    BY PostureAdds
  <2> HIDE DEF P, covered, total, gaps, fresh
  <2> QED BY <2>1, <2>2
<1>4. Sum(total) = Sum(covered) + Sum(gaps)
  <2>1. \A o \in O : covered[o] \in Int /\ gaps[o] \in Int /\ total[o] = covered[o] + gaps[o]
    <3> HIDE DEF covered, gaps, total, fresh
    <3> TAKE o \in O
    <3>1. covered[o] \in Nat /\ gaps[o] \in Nat /\ total[o] = covered[o] + gaps[o] BY <1>3
    <3> QED BY <3>1
  <2> HIDE DEF covered, gaps, total
  <2> QED BY <2>1, SumAdded
<1>5. Sum(total) = Sum(fresh("valid")) + Sum(fresh("stale")) + Sum(fresh("missing"))
  <2> DEFINE old == [o \in O |-> fresh("valid")[o] + fresh("stale")[o]]
  <2>1. \A o \in O : /\ fresh("valid")[o] \in Int /\ fresh("stale")[o] \in Int
                     /\ fresh("missing")[o] \in Int /\ old[o] \in Int
                     /\ old[o] = fresh("valid")[o] + fresh("stale")[o]
                     /\ total[o] = old[o] + fresh("missing")[o]
    <3>1. \A o \in O : old[o] = fresh("valid")[o] + fresh("stale")[o] OBVIOUS
    <3> HIDE DEF covered, gaps, fresh, total, old
    <3> TAKE o \in O
    <3>2. /\ fresh("valid")[o] \in Nat /\ fresh("stale")[o] \in Nat
          /\ fresh("missing")[o] \in Nat
          /\ total[o] = fresh("valid")[o] + fresh("stale")[o] + fresh("missing")[o]
      BY <1>3
    <3> QED BY <3>1, <3>2
  <2> HIDE DEF fresh, total, old
  <2>2. Sum(old) = Sum(fresh("valid")) + Sum(fresh("stale")) BY <2>1, SumAdded
  <2>3. Sum(total) = Sum(old) + Sum(fresh("missing")) BY <2>1, SumAdded
  <2> QED BY <2>2, <2>3
<1>6. Sum(covered) <= Sum(fresh("valid"))
  <2>1. \A o \in O : covered[o] \in Nat /\ fresh("valid")[o] \in Nat
                     /\ covered[o] <= fresh("valid")[o]
    <3> HIDE DEF covered, fresh
    <3> QED BY <1>3
  <2> HIDE DEF covered, fresh
  <2> QED BY <2>1, SumMonotone
<1>7. SumFunctionOnSet(affected, D) = Sum(gaps)
  <2> DEFINE R == {p \in D \X O : p[1] \in DOMAIN Gaps(market, p[2])}
  <2>1. affected = [d \in D |-> Cardinality(RowOf(R, d, O))]
    <3>1. \A d \in D : DOMAIN DutyGap(market, d) = RowOf(R, d, O) BY DEF DutyGap, RowOf
    <3> HIDE DEF R
    <3> QED BY <3>1
  <2>2. gaps = [o \in O |-> Cardinality(ColumnOf(R, o, D))]
    <3>1. \A o \in O : DOMAIN Gaps(market, o) = ColumnOf(R, o, D) BY DEF Gaps, ColumnOf
    <3>2. \A o \in O : P(o).gaps = Gaps(market, o) BY DEF Posture
    <3> HIDE DEF R, P
    <3> QED BY <3>1, <3>2
  <2> HIDE DEF R, affected, gaps
  <2> QED BY <2>1, <2>2, CountedBothWays
<1>8. SumFunctionOnSet(adopters, C) = Sum(adopted)
  <2> DEFINE R == {p \in C \X O : Completed(market, p[2], p[1])}
  <2>1. adopters = [c \in C |-> Cardinality(RowOf(R, c, O))]
    <3>1. \A c \in C : Adopters(market, c) = RowOf(R, c, O) BY DEF Adopters, RowOf
    <3> HIDE DEF R
    <3> QED BY <3>1
  <2>2. adopted = [o \in O |-> Cardinality(ColumnOf(R, o, C))]
    <3>1. \A o \in O : {c \in C : Completed(market, o, c)} = ColumnOf(R, o, C) BY DEF ColumnOf
    <3>2. \A o \in O : P(o).adopted = Cardinality({c \in C : Completed(market, o, c)})
      BY DEF Posture
    <3> HIDE DEF R, P
    <3> QED BY <3>1, <3>2
  <2> HIDE DEF R, adopters, adopted
  <2> QED BY <2>1, <2>2, CountedBothWays
<1>9. \A c \in C : Cardinality(DOMAIN ChangeGap(market, c)) + adopters[c] = Cardinality(O)
  <2> TAKE c \in C
  <2>1. Adopters(market, c) \subseteq O BY DEF Adopters
  <2>2. DOMAIN ChangeGap(market, c) = O \ Adopters(market, c) BY DEF ChangeGap, NotAdopters
  <2>3. /\ Cardinality(Adopters(market, c)) + Cardinality(O \ Adopters(market, c)) = Cardinality(O)
        /\ Cardinality(Adopters(market, c)) \in Nat
        /\ Cardinality(O \ Adopters(market, c)) \in Nat
    BY <2>1, Parts
  <2>4. adopters[c] = Cardinality(Adopters(market, c)) OBVIOUS
  <2> HIDE DEF adopters
  <2> QED BY <2>2, <2>3, <2>4
<1>10. \A o \in O : \A d \in DOMAIN Gaps(market, o) :
         Gaps(market, o)[d] # {} /\ DutyGap(market, d)[o] = Gaps(market, o)[d]
  BY GapsHaveReasons
<1>11. SumFunction(affected) = SumFunctionOnSet(affected, D)
       /\ SumFunction(adopters) = SumFunctionOnSet(adopters, C)
  BY DEF SumFunction
<1>12. Agree(market) <=>
         /\ rollup.covered + rollup.gaps = rollup.total
         /\ rollup.freshness["valid"] + rollup.freshness["stale"] + rollup.freshness["missing"]
              = rollup.total
         /\ rollup.covered <= rollup.freshness["valid"]
         /\ \A o \in O : \A d \in DOMAIN Gaps(market, o) :
              Gaps(market, o)[d] # {} /\ DutyGap(market, d)[o] = Gaps(market, o)[d]
         /\ rollup.gaps = SumFunction(affected)
         /\ rollup.adopted = SumFunction(adopters)
         /\ \A c \in C : Cardinality(DOMAIN ChangeGap(market, c)) + adopters[c] = Cardinality(O)
  BY Zenon DEF Agree
<1> HIDE DEF rollup, covered, total, fresh, gaps, adopted, affected, adopters
<1> QED BY <1>1, <1>2, <1>4, <1>5, <1>6, <1>7, <1>8, <1>9, <1>10, <1>11, <1>12

(* The views of a request agree, for any population and registry. *)
THEOREM AllViewsAgree == ViewsSpec => []ViewsAgree
<1>1. ViewInv => ViewsAgree
  <2> SUFFICES ASSUME ViewInv PROVE Agree(request.market) BY DEF ViewsAgree
  <2>1. /\ IsFiniteSet(request.market.population) /\ IsFiniteSet(request.market.duties)
        /\ IsFiniteSet(request.market.changes)
    BY ViewsAssumption, FS_Subset DEF ViewInv, ViewTypes
  <2> QED BY <2>1, MarketAgrees
<1> QED BY <1>1, AlwaysViewInv, PTL
=============================================================================
