----------------------------- MODULE MCPlatform -----------------------------
(***************************************************************************)
(* Five parts over one database that share no variable: its migrations,    *)
(* the accounts and sessions, diff runs with their impact assessments, the *)
(* supervisory views, and the diff engine with its policy rules, which     *)
(* only calculates.  A step of one leaves the others as they are, so the   *)
(* subject of a behaviour is chosen once and the others stand still: their *)
(* interleavings would add states and nothing to see.                      *)
(***************************************************************************)
EXTENDS SchemaCatalogue, SchemaMigrations, Sessions, ChangeAssessment, SupervisoryViews,
        DiffEngine, TLC

VARIABLE subject

(* The inputs of the diff engine.  Costs on both sides of the null option and
   equal to it; documents of two sections at most, of repeated and of similar
   titles, the new one with room to renumber; a section with two obligations of
   one text alone in its document. *)
MCMatrices ==
  UNION {[m : {m}, n : {n}, cost : [(1 .. m) \X (1 .. n) -> {0, 10, 24, 25}]] :
           m \in 1 .. 2, n \in 1 .. 3}

Obligation(text, deadline) == [NoFields EXCEPT !.text = text, !.deadline = deadline]
Contents ==
  {<<"x", <<Obligation("p", "within_7_days")>>>>,
   <<"x", <<Obligation("p", "same_day")>>>>,
   <<"y", <<Obligation("p", "same_day"), Obligation("r", "")>>>>}
Repeated == <<"y", <<Obligation("p", "same_day"), Obligation("p", "")>>>>
Sections(numbers, contents) ==
  {Section(n, t, c[1], c[2]) : n \in numbers, t \in Titles, c \in contents}
Numbered(numbers) ==
  {<<>>} \union {<<s>> : s \in Sections(numbers, Contents \union {Repeated})} \union
  {d \in Sections(numbers, Contents) \X Sections(numbers, Contents) : d[1].number < d[2].number}
MCDocuments == Numbered(1 .. 2) \X Numbered(1 .. 3)

(* Versions of an obligation: two of its rules have something to compare, the
   other fields are absent on both sides. *)
Compared ==
  [deadline |-> {[deadline |-> p] : p \in {""} \union DOMAIN DeadlineDays},
   frequency |-> {[frequency |-> p] : p \in {""} \union DOMAIN FrequencyRank},
   introduced |-> [evidence : {"", "log", "report"}, penalty : {"", "fine"}],
   wording |-> [text : {"p", "q"}, action : {"file", "keep"}],
   actors |-> [actor : {"", "broker"}, applicability : SUBSET {"broker", "depository"}],
   conditions |-> [conditions : SUBSET {"on request"}]]
VersionsBy(r, s) == {c @@ d @@ NoFields : c \in Compared[r], d \in Compared[s]}
MCVersions ==
  UNION {VersionsBy(r, s) \X VersionsBy(r, s) : r \in DOMAIN Compared, s \in DOMAIN Compared}

MCInit ==
  /\ SchemaInit /\ SessionsInit /\ ChangeInit /\ ViewsInit
  /\ \/ /\ subject \in {"migrations", "sessions", "changes", "views"}
        /\ input = NotComputed
        /\ output = NotComputed
     \/ subject = "engine" /\ EngineInit

Migrate ==
  /\ subject = "migrations" /\ SchemaNext
  /\ UNCHANGED <<sessionVars, changeVars, viewVars, engineVars, subject>>
SignIn ==
  /\ subject = "sessions" /\ SessionsNext
  /\ UNCHANGED <<schemaVars, changeVars, viewVars, engineVars, subject>>
Compare ==
  /\ subject = "changes" /\ ChangeNext
  /\ UNCHANGED <<schemaVars, sessionVars, viewVars, engineVars, subject>>
Supervise ==
  /\ subject = "views" /\ ViewsNext
  /\ UNCHANGED <<schemaVars, sessionVars, changeVars, engineVars, subject>>
Calculate ==
  /\ subject = "engine" /\ EngineNext
  /\ UNCHANGED <<schemaVars, sessionVars, changeVars, viewVars, subject>>

MCNext == Migrate \/ SignIn \/ Compare \/ Supervise \/ Calculate

MCSpec ==
  MCInit /\ [][MCNext]_<<schemaVars, sessionVars, changeVars, viewVars, engineVars, subject>>

Symmetry == Permutations(Jobs) \union Permutations(Callers)
=============================================================================
