-------------------------- MODULE SupervisoryViews --------------------------
(***************************************************************************)
(* The supervisor's aggregate views: load_market (packages/suptech/        *)
(* access.py) reads the posture of the intermediaries in seven queries,    *)
(* each of which sees what is committed when it runs, and the pure         *)
(* functions of aggregation.py build posture, adoption and gap views from  *)
(* the result.  Controls, evidence, tasks and diff runs are edited by      *)
(* others meanwhile.                                                       *)
(***************************************************************************)
EXTENDS Naturals, FiniteSets, FiniteSetsExt

CONSTANTS
  Orgs,          \* intermediaries that are configured as population
  Duties,        \* obligations of the registry document they share
  MaxEdits       \* bound on the edits of the database

ASSUME ViewsAssumption == MaxEdits \in Nat /\ IsFiniteSet(Orgs) /\ IsFiniteSet(Duties)

VARIABLES
  db,            \* the committed rows the queries select from
  request,       \* a request of the supervisory API, and the market it loads
  edits,         \* edits so far
  seen           \* what was the case since the request began (history)

viewVars == <<db, request, edits, seen>>
-----------------------------------------------------------------------------
(* A completed diff run has two changes; one is created or modified and of
   medium or high materiality, which is what is tracked. *)
DiffRuns == 1 .. 2
Modifications == DiffRuns \X {"tracked", "other"}
Tracked(run) == {<<run, "tracked">>}

(* A mapping of an intermediary's obligation to an artifact.  Expired: its
   status is valid, its valid_until has passed. *)
Mapping(org, duty, owner, status) ==
  [org |-> org, duty |-> duty, owner |-> owner, status |-> status]
Mappings ==
  {Mapping(o, d, o, s) : o \in Orgs, d \in Duties, s \in {"valid", "expired", "stale"}}
    \union {Mapping(o, d, p, "valid") : o \in Orgs, d \in Duties, p \in Orgs}

NoMarket == [population |-> {}, changes |-> {}, duties |-> {}, controlled |-> {},
             evidence |-> {}, completed |-> {}]
NothingSeen == [controlled |-> {}, valid |-> {}, always |-> Orgs \X Duties]

ViewsInit ==
  /\ db = [population |-> Orgs, run |-> 1, duties |-> Duties, controls |-> {},
           evidence |-> {}, completed |-> {}, member |-> TRUE]
  /\ request = [pc |-> "new", market |-> NoMarket]
  /\ edits = 0
  /\ seen = NothingSeen
-----------------------------------------------------------------------------
(* History: pairs of intermediary and obligation that have an active control,
   or valid evidence of the intermediary's own, and those that always had. *)
ValidPairs(state) ==
  {<<m.org, m.duty>> : m \in {m \in state.evidence : m.status = "valid" /\ m.owner = m.org}}
Observed(history, state) ==
  [controlled |-> history.controlled \union state.controls,
   valid |-> history.valid \union ValidPairs(state),
   always |-> history.always \intersect state.controls \intersect ValidPairs(state)]

(* Edits by others; those that come after the last query are left out. *)
Edit(new) ==
  /\ edits < MaxEdits
  /\ request.pc \notin {"loaded", "refused"}
  /\ db' = new
  /\ edits' = edits + 1
  /\ seen' = IF request.pc = "new" THEN seen ELSE Observed(seen, new)
  /\ UNCHANGED request

Flip(x, set) == IF x \in set THEN set \ {x} ELSE set \union {x}

EditPopulation(o) == Edit([db EXCEPT !.population = Flip(o, @)])
EditRegistry(d) == Edit([db EXCEPT !.duties = Flip(d, @)])
EditControl(o, d) == Edit([db EXCEPT !.controls = Flip(<<o, d>>, @)])
EditEvidence(m) == Edit([db EXCEPT !.evidence = Flip(m, @)])
EditTask(o, c) == Edit([db EXCEPT !.completed = Flip(<<o, c>>, @)])
EditMembership == Edit([db EXCEPT !.member = ~@])
NewDiffRun == Edit([db EXCEPT !.run = 3 - @])
-----------------------------------------------------------------------------
(* The request. *)
To(pc, market) == request' = [pc |-> pc, market |-> market]
Load(from, to, market) ==
  request.pc = from /\ To(to, market) /\ UNCHANGED <<db, edits, seen>>
Refuse(from) == Load(from, "refused", NoMarket)

(* Anonymous readers get the demo view; a user needs an active membership as
   supervisory viewer of a supervisor organization. *)
Authorize(anonymous) ==
  /\ request.pc = "new"
  /\ To(IF anonymous \/ db.member THEN "authorized" ELSE "refused", NoMarket)
  /\ seen' = Observed(NothingSeen, db)
  /\ UNCHANGED <<db, edits>>

(* No population: SupTechDataError.  The circular and a completed diff run of it
   exist from the start. *)
LoadPopulation ==
  IF db.population = {} THEN Refuse("authorized")
  ELSE Load("authorized", "population", [NoMarket EXCEPT !.population = db.population])
LoadChanges == Load("population", "changes", [request.market EXCEPT !.changes = Tracked(db.run)])
LoadDuties == Load("changes", "duties", [request.market EXCEPT !.duties = db.duties])

Loaded(pairs, keys) == pairs \intersect (request.market.population \X keys)

LoadControlled ==
  Load("duties", "controls",
       [request.market EXCEPT !.controlled = Loaded(db.controls, request.market.duties)])

(* The artifact must belong to the intermediary that mapped it. *)
SameOwnerAny(m) == TRUE                 \* mutant: the join without the organization
SameOwner(m) == m.owner = m.org
LoadEvidence ==
  Load("controls", "evidence", [request.market EXCEPT !.evidence =
    {m \in db.evidence : m.org \in request.market.population
                         /\ m.duty \in request.market.duties /\ SameOwner(m)}])

LoadCompleted ==
  Load("evidence", "loaded",
       [request.market EXCEPT !.completed = Loaded(db.completed, request.market.changes)])

ViewsNext ==
  \/ \E o \in Orgs : EditPopulation(o)
  \/ \E d \in Duties : EditRegistry(d)
  \/ \E o \in Orgs, d \in Duties : EditControl(o, d)
  \/ \E m \in Mappings : EditEvidence(m)
  \/ \E o \in Orgs, c \in Modifications : EditTask(o, c)
  \/ EditMembership
  \/ NewDiffRun
  \/ \E anonymous \in BOOLEAN : Authorize(anonymous)
  \/ LoadPopulation \/ LoadChanges \/ LoadDuties \/ LoadControlled \/ LoadEvidence
  \/ LoadCompleted

ViewsSpec == ViewsInit /\ [][ViewsNext]_viewVars
-----------------------------------------------------------------------------
(* aggregation.py. *)
EvidenceState(market, o, d) ==
  LET statuses == {m.status : m \in {m \in market.evidence : m.org = o /\ m.duty = d}} IN
  CASE "valid" \in statuses -> "valid"
    [] "valid" \notin statuses /\ statuses # {} -> "stale"
    [] OTHER -> "missing"

Controlled(market, o, d) == <<o, d>> \in market.controlled
Covered(market, o) ==
  {d \in market.duties : Controlled(market, o, d) /\ EvidenceState(market, o, d) = "valid"}

GapTypes(market, o, d) ==
  (IF Controlled(market, o, d) THEN {} ELSE {"control_missing"}) \union
  (CASE EvidenceState(market, o, d) = "stale" -> {"evidence_stale"}
     [] EvidenceState(market, o, d) = "missing" -> {"evidence_missing"}
     [] OTHER -> {})
Gaps(market, o) ==
  [d \in market.duties \ Covered(market, o) |-> GapTypes(market, o, d)]

Completed(market, o, c) == <<o, c>> \in market.completed

Posture(market, o) ==
  [total |-> Cardinality(market.duties),
   covered |-> Cardinality(Covered(market, o)),
   freshness |-> [s \in {"valid", "stale", "missing"} |->
                    Cardinality({d \in market.duties : EvidenceState(market, o, d) = s})],
   gaps |-> Gaps(market, o),
   adopted |-> Cardinality({c \in market.changes : Completed(market, o, c)})]

Rollup(market) ==
  LET P(o) == Posture(market, o) IN
  [covered |-> SumFunction([o \in market.population |-> P(o).covered]),
   total |-> SumFunction([o \in market.population |-> P(o).total]),
   freshness |-> [s \in {"valid", "stale", "missing"} |->
                    SumFunction([o \in market.population |-> P(o).freshness[s]])],
   gaps |-> SumFunction([o \in market.population |-> Cardinality(DOMAIN P(o).gaps)]),
   adopted |-> SumFunction([o \in market.population |-> P(o).adopted])]

(* build_adoption_view: who has operationalized a change. *)
Adopters(market, c) == {o \in market.population : Completed(market, o, c)}

(* build_gap_view: the intermediaries it names, and why; none: no such gap. *)
DutyGap(market, d) ==
  [o \in {o \in market.population : d \in DOMAIN Gaps(market, o)} |-> Gaps(market, o)[d]]

NotAdoptersAll(market, c) == market.population    \* mutant: adopters are not skipped
NotAdopters(market, c) == market.population \ Adopters(market, c)
ChangeGap(market, c) == [o \in NotAdopters(market, c) |-> {"not_operationalized"}]
-----------------------------------------------------------------------------
(* The views of one market: every obligation of every intermediary is covered
   or a gap, and in one state of freshness; every gap on a card has a reason
   and can be drilled into, and the drill-down names exactly the intermediaries
   that show it; adoption adds up the same by change and by intermediary. *)
Agree(market) ==
  LET rollup == Rollup(market)
      freshness == rollup.freshness
      affected == [d \in market.duties |-> Cardinality(DOMAIN DutyGap(market, d))]
      adopters == [c \in market.changes |-> Cardinality(Adopters(market, c))]
  IN
  /\ rollup.covered + rollup.gaps = rollup.total
  /\ freshness["valid"] + freshness["stale"] + freshness["missing"] = rollup.total
  /\ rollup.covered <= freshness["valid"]
  /\ \A o \in market.population : \A d \in DOMAIN Gaps(market, o) :
       Gaps(market, o)[d] # {} /\ DutyGap(market, d)[o] = Gaps(market, o)[d]
  /\ rollup.gaps = SumFunction(affected)
  /\ rollup.adopted = SumFunction(adopters)
  /\ \A c \in market.changes :
       Cardinality(DOMAIN ChangeGap(market, c)) + adopters[c] = Cardinality(market.population)

(* The three views of one request agree with each other, whatever the queries
   caught in between (load_market, aggregation.py). *)
ViewsAgree == request.pc = "loaded" => Agree(request.market)

(* An obligation that is reported covered had, while the request ran, an
   active control and valid evidence that the intermediary itself owns - not
   necessarily at the same moment, the queries see different states; and what
   had both all the time is reported covered. *)
CoverageWasReal ==
  request.pc = "loaded" =>
    \A o \in request.market.population, d \in request.market.duties :
      /\ d \in Covered(request.market, o) => <<o, d>> \in seen.controlled \intersect seen.valid
      /\ <<o, d>> \in seen.always => d \in Covered(request.market, o)
=============================================================================
