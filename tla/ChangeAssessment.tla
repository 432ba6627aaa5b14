-------------------------- MODULE ChangeAssessment --------------------------
(***************************************************************************)
(* Diff runs and what is built on them.  run_diff_async                    *)
(* (apps/api/services/diff_service.py) compares two documents, inline for  *)
(* POST /diff or as a Celery task that retries; the change list of a run   *)
(* is a function of the two documents.  persist_latest_change_impacts      *)
(* (apps/api/services/impact_service.py) assesses the changes of the       *)
(* newest run: one transaction creates the operational links of the most   *)
(* material change, a second one assesses the others.  It is a script:     *)
(* runs of it may overlap, and may die between the two transactions.       *)
(***************************************************************************)
EXTENDS Naturals, FiniteSets, FiniteSetsExt

CONSTANTS
  Jobs,          \* diff requests
  Callers,       \* runs of the impact script
  MaxRuns        \* bound on DiffRun rows

ASSUME ChangeAssumption == MaxRuns \in Nat

VARIABLES
  diffRuns,      \* DiffRun rows, by id; an id orders them by created_at
  job,           \* diff jobs
  links,         \* Control rows, counted by the change they were created for
  evidence,      \* EvidenceRequirement rows of the audit obligation, likewise
  nodes,         \* changes that have a GraphNode (unique by type and entity)
  assessments,   \* ImpactAssessment rows, counted by change
  caller,        \* runs of the script
  overlapped     \* two runs of the script were active at once (history)

assessmentVars == <<links, evidence, nodes, assessments, caller, overlapped>>
changeVars == <<diffRuns, job, assessmentVars>>
-----------------------------------------------------------------------------
RunIds == 1 .. MaxRuns
MaxRetries == 2
MaxChanges == 2                         \* bound on the changes of a run
Changes == RunIds \X (1 .. MaxChanges) \* in order of materiality
NoChange == <<0, 0>>

NoRun == [status |-> "none", changes |-> {}, attempt |-> <<>>]
NewJob == [pc |-> "new", attempt |-> 0, run |-> 0]
NewCaller == [pc |-> "new", change |-> NoChange, seenLink |-> FALSE, seenEvidence |-> FALSE,
              seenNode |-> FALSE, missing |-> {}]

ChangeInit ==
  /\ diffRuns = [r \in RunIds |-> NoRun]
  /\ job = [j \in Jobs |-> NewJob]
  /\ links = [x \in Changes |-> 0]
  /\ evidence = [x \in Changes |-> 0]
  /\ nodes = {}
  /\ assessments = [x \in Changes |-> 0]
  /\ caller = [c \in Callers |-> NewCaller]
  /\ overlapped = FALSE
-----------------------------------------------------------------------------
(* run_diff_async.  The RUNNING row is flushed, not committed. *)
Reserved == {r \in RunIds : diffRuns[r].status # "none" \/ \E j \in Jobs : job[j].run = r}

NextRun == Max(Reserved \union {0}) + 1

StartDiff(j) ==
  /\ job[j].pc = "new"
  /\ NextRun \in RunIds
  /\ job' = [job EXCEPT ![j].pc = "running", ![j].run = NextRun]
  /\ UNCHANGED <<diffRuns, assessmentVars>>

RunRow(j, status, changes) ==
  [status |-> status, changes |-> changes, attempt |-> <<j, job[j].attempt>>]

CompleteDiff(j) ==
  /\ job[j].pc = "running"
  /\ \E n \in 0 .. MaxChanges :
       diffRuns' = [diffRuns EXCEPT ![job[j].run] = RunRow(j, "COMPLETED", 1 .. n)]
  /\ job' = [job EXCEPT ![j] = [NewJob EXCEPT !.pc = "done"]]
  /\ UNCHANGED assessmentVars

(* A document without text, or the engine raises: FAILED is committed and the
   exception goes on - to the caller of POST /diff, or to self.retry of the
   task.  When that commit raises too, no row is left. *)
RetriesLeftMore(j) == job[j].attempt <= MaxRetries    \* mutant: off by one
RetriesLeft(j) == job[j].attempt < MaxRetries

FailDiff(j) ==
  /\ job[j].pc = "running"
  /\ \E recorded \in BOOLEAN :
       diffRuns' = IF recorded
                   THEN [diffRuns EXCEPT ![job[j].run] = RunRow(j, "FAILED", {})]
                   ELSE diffRuns
  /\ \/ job' = [job EXCEPT ![j] = [NewJob EXCEPT !.pc = "failed"]]
     \/ RetriesLeft(j) /\ job' = [job EXCEPT ![j] = [NewJob EXCEPT !.attempt = job[j].attempt + 1]]
  /\ UNCHANGED assessmentVars
-----------------------------------------------------------------------------
(* persist_demo_blast_radius.  The newest run and its most material change
   are read in a session of their own; without a change max() raises. *)
Recorded == {r \in RunIds : diffRuns[r].status # "none"}
Newest == CHOOSE r \in Recorded : \A q \in Recorded : q <= r
ChangesOf(r) == {<<r, k>> : k \in diffRuns[r].changes}
Ended(c, pc) == caller' = [caller EXCEPT ![c] = [NewCaller EXCEPT !.pc = pc]]
Active(c) == caller[c].pc \notin {"new", "raised", "done"}

PickChange(c) ==
  /\ caller[c].pc = "new"
  /\ overlapped' = (overlapped \/ \E d \in Callers : Active(d))
  /\ IF Recorded = {} \/ diffRuns[Newest].changes = {}
     THEN Ended(c, "raised")
     ELSE caller' = [caller EXCEPT ![c].pc = "picked", ![c].change = <<Newest, 1>>]
  /\ UNCHANGED <<diffRuns, job, links, evidence, nodes, assessments>>

EvidenceRows == SumFunctionOnSet(evidence, Changes)

(* Rows that exist already are looked up, and created only when there are
   none; scalar_one_or_none raises when there are two. *)
Unassessed(changes) == {x \in changes : assessments[x] = 0}

LookUp(c) ==
  LET x == caller[c].change IN
  /\ caller[c].pc = "picked"
  /\ IF assessments[x] > 1 \/ EvidenceRows > 1
     THEN Ended(c, "raised")
     ELSE caller' = [caller EXCEPT ![c] =
            [pc |-> "looked up", change |-> x, seenLink |-> links[x] > 0,
             seenEvidence |-> EvidenceRows > 0, seenNode |-> x \in nodes,
             missing |-> Unassessed({x})]]
  /\ UNCHANGED <<diffRuns, job, links, evidence, nodes, assessments, overlapped>>

(* The graph node of the change: an INSERT waits for the transaction that
   inserted the same node, and fails when that has committed. *)
HoldsNode(x) == {c \in Callers : caller[c].pc = "linking" /\ caller[c].change = x}
NodeTakenNever(x) == FALSE              \* mutant: no unique (node_type, entity_id)
NodeTaken(x) == x \in nodes

InsertNode(c) ==
  LET x == caller[c].change IN
  /\ caller[c].pc = "looked up"
  /\ caller[c].seenNode \/ HoldsNode(x) = {}
  /\ IF ~caller[c].seenNode /\ NodeTaken(x)
     THEN Ended(c, "raised")
     ELSE caller' = [caller EXCEPT ![c].pc = "linking"]
  /\ UNCHANGED <<diffRuns, job, links, evidence, nodes, assessments, overlapped>>

OneMore(rows, changes) == [x \in Changes |-> rows[x] + (IF x \in changes THEN 1 ELSE 0)]

CommitLinks(c) ==
  LET me == caller[c] IN
  /\ me.pc = "linking"
  /\ links' = OneMore(links, IF me.seenLink THEN {} ELSE {me.change})
  /\ evidence' = OneMore(evidence, IF me.seenEvidence THEN {} ELSE {me.change})
  /\ nodes' = nodes \union {me.change}
  /\ assessments' = OneMore(assessments, me.missing)
  /\ caller' = [caller EXCEPT ![c] = [NewCaller EXCEPT !.pc = "linked", !.change = me.change]]
  /\ UNCHANGED <<diffRuns, job, overlapped>>
-----------------------------------------------------------------------------
(* The second transaction: the newest run is read again, and those of its
   changes that have no assessment get one. *)
ReadOthers(c) ==
  LET others == ChangesOf(Newest) \ {caller[c].change} IN
  /\ caller[c].pc = "linked"
  /\ IF \E x \in others : assessments[x] > 1
     THEN Ended(c, "raised")
     ELSE caller' = [caller EXCEPT ![c].pc = "others", ![c].missing = Unassessed(others)]
  /\ UNCHANGED <<diffRuns, job, links, evidence, nodes, assessments, overlapped>>

CommitOthers(c) ==
  /\ caller[c].pc = "others"
  /\ assessments' = OneMore(assessments, caller[c].missing)
  /\ Ended(c, "done")
  /\ UNCHANGED <<diffRuns, job, links, evidence, nodes, overlapped>>

(* The script dies and is started again; nothing uncommitted survives. *)
Restart(c) ==
  /\ caller[c].pc # "new"
  /\ caller' = [caller EXCEPT ![c] = NewCaller]
  /\ UNCHANGED <<diffRuns, job, links, evidence, nodes, assessments, overlapped>>

Assess(c) ==
  PickChange(c) \/ LookUp(c) \/ InsertNode(c) \/ CommitLinks(c) \/ ReadOthers(c)
    \/ CommitOthers(c)

ChangeNext ==
  \/ \E j \in Jobs : StartDiff(j) \/ CompleteDiff(j) \/ FailDiff(j)
  \/ \E c \in Callers : Assess(c) \/ Restart(c)

ChangeSpec == ChangeInit /\ [][ChangeNext]_changeVars
-----------------------------------------------------------------------------
(* A diff job leaves at most one run per attempt, at most three, and once a
   run of it has completed it makes no other: what failed on the way stays
   visible as FAILED rows (diff_service.py:149, tasks/diff.py). *)
RunsAreAttempts ==
  \A j \in Jobs :
    LET Mine == {r \in Recorded : diffRuns[r].attempt[1] = j} IN
    /\ Cardinality(Mine) <= MaxRetries + 1
    /\ \A q, r \in Mine :
         diffRuns[q].status = "COMPLETED" /\ q # r => r < q /\ diffRuns[r].status = "FAILED"

(* Two runs of the script never both link one change: its graph node is
   unique, so one of them is rolled back with all its rows.  Without overlap,
   however often the script dies and is started again and whatever diffs
   complete meanwhile, every change is assessed at most once and the evidence
   requirement exists once (impact_service.py:90, 384). *)
LinkedOnce ==
  /\ \A x \in Changes : links[x] <= 1 /\ evidence[x] <= 1
  /\ ~overlapped => EvidenceRows <= 1 /\ \A x \in Changes : assessments[x] <= 1
=============================================================================
