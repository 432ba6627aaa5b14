--------------------------- MODULE VerificationRun ---------------------------
(***************************************************************************)
(* The Phase-3 verification service of CircularOS:                         *)
(* apps/api/services/verification_service.py with the routing gates of     *)
(* packages/ai/workflows/verification.py.                                  *)
(*                                                                         *)
(* An operator starts run_document_verification, which selects the newest  *)
(* open run of the document or creates one, asks the critic model about    *)
(* the obligations the run has not finished, one batch after another,      *)
(* commits one transaction per verdict, and seals the run.  The process    *)
(* may die anywhere; the operator starts it again.  Several operators may  *)
(* run it at once.  Reviewers decide the review tasks that verdicts open;  *)
(* the critic configuration and the extraction pipeline change meanwhile.  *)
(*                                                                         *)
(* Every action is one interval between two points where the process       *)
(* waits: a SELECT whose result is used later, a row lock, a commit or a   *)
(* call of the model.  Transactions are PostgreSQL READ COMMITTED: an      *)
(* uncommitted write is visible only as the row lock it holds.             *)
(***************************************************************************)
EXTENDS Integers, FiniteSets

CONSTANTS
  Workers,        \* operator processes that may run the script
  Reviewers,      \* requests of reviewers that are handled at the same time
  Obligations,    \* rows of the obligations table
  NoObligation,
  Sources,        \* extraction runs; a publication activates one's rows
  FirstSource,    \* the registry published when the history begins
  SourceOf,       \* extraction_run_id of an obligation
  Grounded,       \* the obligations all of whose citations verify
  Critics,        \* critic provider/model configurations
  Deletable,      \* the obligations a compliance officer may delete
  ReviewActions,  \* the review decisions that are used
  MaxBatch,       \* rows of a model call
  MaxStarts,      \* bound: how often the script is started
  MaxFaults,      \* bound: crashes and provider or database failures
  MaxPublications \* bound: registry replacements during the history

Routes == {"AUTO_REGISTER", "HUMAN_REVIEW", "REJECT"}
Signals == {"entailment", "neutral", "contradiction"}
Bands == {"high", "medium", "low"}
Statuses == {"none", "CANDIDATE", "VALIDATED", "REVIEW_PENDING", "APPROVED", "REJECTED"}
ReviewStatuses == {"awaiting_verification", "not_required", "pending", "approved",
                   "approved_with_edits", "rejected", "reprocessing_requested", "escalated"}
Decisions == {"APPROVE", "REJECT", "EDIT_AND_APPROVE", "REQUEST_REPROCESSING", "ESCALATE"}
PCs == {"idle", "find", "adopt", "create", "ask", "lock", "route", "commit",
        "failed", "pause", "seal"}

RunIds == 1..MaxStarts      \* in order of created_at; a start creates at most one
MaybeRun == 0..MaxStarts    \* 0: no run

ASSUME ConstantsAssumption ==
  /\ MaxStarts \in Nat /\ MaxFaults \in Nat /\ MaxBatch \in Nat /\ MaxPublications \in Nat
  /\ NoObligation \notin Obligations
  /\ FirstSource \in Sources
  /\ SourceOf \in [Obligations -> Sources]
  /\ Grounded \subseteq Obligations
  /\ Deletable \subseteq Obligations
  /\ Critics # {}
  /\ ReviewActions \subseteq Decisions

VARIABLES
  runs,          \* extraction_runs rows of the verification workflow
  validated,     \* groups of validation_results rows, by run and obligation
  registry,      \* the obligations table
  author,        \* history: the run whose verdict an obligation's payload holds
  pendingTasks,  \* the pending obligation_review tasks of an obligation
  critic,        \* the configured critic
  publications,  \* the extraction runs that have been published
  worker,        \* local state of each operator process
  desk,          \* local state of each reviewer's request
  starts, faults \* bounded counters

database == <<runs, validated, registry, author, pendingTasks>>
environment == <<critic, publications>>
vars == <<database, environment, worker, desk, starts, faults>>
-----------------------------------------------------------------------------
RunRow == [status: {"none", "RUNNING", "PAUSED", "COMPLETED"},
           source: Sources, critic: Critics,
           completed: SUBSET Obligations,        \* checkpoint_data.completed_ids
           tally: [Routes -> Nat]]               \* approved / review / rejected
ObligationRow == [status: Statuses, review: ReviewStatuses, live: BOOLEAN,
                  run: MaybeRun]                 \* payload verification_run_id

(* A task is named by the verdict that opened it. *)
Tasks == RunIds \X Nat
LoadedRow == [status: Statuses, review: ReviewStatuses]
NotLoaded == [status |-> "none", review |-> "awaiting_verification"]

(* Locals: the stale copies a process holds across its waits. *)
Locals == [pc: PCs, critic: Critics, source: Sources, run: MaybeRun,
           seen: SUBSET Obligations,             \* completed_ids as last read
           seenStatus: {"none", "RUNNING", "PAUSED", "COMPLETED"},
           todo: SUBSET Obligations, batch: SUBSET Obligations,
           current: Obligations \cup {NoObligation}, route: Routes,
           seenRow: LoadedRow, seenTask: BOOLEAN,
           relabel: [Obligations -> MaybeRun]]   \* payloads the seal rewrites

NoRelabel == [o \in Obligations |-> 0]
Idle == [pc |-> "idle", critic |-> CHOOSE c \in Critics : TRUE, source |-> FirstSource,
         run |-> 0, seen |-> {}, seenStatus |-> "none", todo |-> {}, batch |-> {},
         current |-> NoObligation, route |-> "REJECT",
         seenRow |-> NotLoaded, seenTask |-> FALSE, relabel |-> NoRelabel]

Desks == [pc: {"closed", "task", "decide"}, obligation: Obligations \cup {NoObligation},
          task: SUBSET Tasks,                    \* the one task of the request
          seenRow: LoadedRow]
Closed == [pc |-> "closed", obligation |-> NoObligation, task |-> {}, seenRow |-> NotLoaded]

(* The registry as a publication of source s leaves it (CANDIDATE rows that
   await verification); rows of other extraction runs are soft-deleted or do
   not exist yet. *)
Candidate == [status |-> "CANDIDATE", review |-> "awaiting_verification",
              live |-> TRUE, run |-> 0]
Unpublished == [Candidate EXCEPT !.status = "none", !.live = FALSE]

Init ==
  /\ runs = [r \in RunIds |-> [status |-> "none", source |-> FirstSource,
                               critic |-> CHOOSE c \in Critics : TRUE,
                               completed |-> {}, tally |-> [t \in Routes |-> 0]]]
  /\ validated = [r \in RunIds |-> [o \in Obligations |-> 0]]
  /\ registry = [o \in Obligations |->
                   IF SourceOf[o] = FirstSource THEN Candidate ELSE Unpublished]
  /\ author = [o \in Obligations |-> 0]
  /\ pendingTasks = [o \in Obligations |-> {}]
  /\ critic \in Critics
  /\ publications = {FirstSource}
  /\ worker = [w \in Workers |-> Idle]
  /\ desk = [v \in Reviewers |-> Closed]
  /\ starts = 0
  /\ faults = 0
-----------------------------------------------------------------------------
Live == {o \in Obligations : registry[o].live}
ValidatedBy(r) == {o \in Obligations : validated[r][o] > 0}
OpenRunsWithSealed == {r \in RunIds : runs[r].status # "none"}
                                        \* mutant: COMPLETED is not filtered out
OpenRuns == {r \in RunIds : runs[r].status \in {"RUNNING", "PAUSED"}}

(* SELECT ... FOR UPDATE of the run, held until the verdict commits. *)
HoldsRun(w, r) == worker[w].pc \in {"route", "commit"} /\ worker[w].run = r
RunFree(w, r) == \A v \in Workers \ {w} : ~HoldsRun(v, r)

(* The flushed UPDATE of an obligation holds its row until the commit; only
   the routes that look for a review task flush before they commit. *)
NeverHoldsRow(w, o) == FALSE            \* mutant: the look does not flush
HoldsRow(w, o) == /\ worker[w].pc = "commit"
                  /\ worker[w].current = o
                  /\ worker[w].route # "AUTO_REGISTER"
RowFree(w, o) == \A v \in Workers \ {w} : ~HoldsRow(v, o)

(* An ORM UPDATE names only the columns whose new value differs from the
   loaded one; any other column keeps what is in the table by then. *)
Written(loaded, new, stored) == IF new = loaded THEN stored ELSE new

(* aggregate_confidence: the bands that a verdict can fall in. *)
PossibleBands(valid, signal) ==
  IF ~valid \/ signal = "contradiction" THEN {"low"} ELSE Bands

(* route_verification *)
RouteVerification(valid, signal, band) ==
  CASE ~valid \/ signal = "contradiction"          -> "REJECT"
    [] valid /\ signal = "entailment" /\ band = "high" -> "AUTO_REGISTER"
    [] OTHER                                        -> "HUMAN_REVIEW"
-----------------------------------------------------------------------------
(* run_document_verification up to _create_or_resume_run: one non-empty
   active registry from one extraction run, its candidates, and the critic of
   this process (settings are read once per process). *)
Start(w) ==
  /\ worker[w].pc = "idle"
  /\ starts < MaxStarts
  /\ \E s \in Sources :
       /\ Live # {}
       /\ \A o \in Live : SourceOf[o] = s
       /\ worker' = [worker EXCEPT ![w] =
            [Idle EXCEPT !.pc = "find", !.critic = critic, !.source = s, !.todo = Live]]
  /\ starts' = starts + 1
  /\ UNCHANGED <<database, environment, desk, faults>>

(* The checkpoint records the source extraction run and the critic. *)
SameSource(r, me) == runs[r].source = me.source      \* mutant: any critic
SameProvenance(r, me) == runs[r].source = me.source /\ runs[r].critic = me.critic

(* SELECT the newest RUNNING or PAUSED run; it is resumed only when its
   recorded provenance is that of this process. *)
IsNewestOpen(r) == r \in OpenRuns /\ \A q \in OpenRuns : q <= r

FindResumable(w) ==
  LET me == worker[w] IN
  /\ me.pc = "find"
  /\ \E r \in RunIds :
       /\ IsNewestOpen(r)
       /\ SameProvenance(r, me)
       /\ worker' = [worker EXCEPT ![w] =
            [me EXCEPT !.pc = "adopt", !.run = r, !.seen = runs[r].completed,
                       !.seenStatus = runs[r].status]]
  /\ UNCHANGED <<database, environment, desk, starts, faults>>

FindNone(w) ==
  LET me == worker[w] IN
  /\ me.pc = "find"
  /\ ~\E r \in RunIds : IsNewestOpen(r) /\ SameProvenance(r, me)
  /\ worker' = [worker EXCEPT ![w].pc = "create"]
  /\ UNCHANGED <<database, environment, desk, starts, faults>>

(* The candidates a resumed run has not finished. *)
AllCandidates(me) == me.todo            \* mutant: completed_ids are ignored
Remaining(me) == me.todo \ me.seen

(* COMMIT of the resumed run.  An already RUNNING row is not updated. *)
AdoptRun(w) ==
  LET me == worker[w] IN
  /\ me.pc = "adopt"
  /\ me.seenStatus = "RUNNING" \/ RunFree(w, me.run)
  /\ runs' = [runs EXCEPT ![me.run].status = Written(me.seenStatus, "RUNNING", @)]
  /\ worker' = [worker EXCEPT ![w] =
       [me EXCEPT !.pc = "ask", !.todo = Remaining(me),
                  !.seen = {}, !.seenStatus = "none"]]
  /\ UNCHANGED <<validated, registry, author, pendingTasks, environment, desk, starts, faults>>

(* INSERT of a new run: the next row. *)
NextRow(r) == runs[r].status = "none" /\ \A q \in 1..(r - 1) : runs[q].status # "none"

CreateRun(w) ==
  LET me == worker[w] IN
  /\ me.pc = "create"
  /\ \E r \in RunIds :
       /\ NextRow(r)
       /\ runs' = [runs EXCEPT ![r] =
            [status |-> "RUNNING", source |-> me.source, critic |-> me.critic,
             completed |-> {}, tally |-> [t \in Routes |-> 0]]]
       /\ worker' = [worker EXCEPT ![w] = [me EXCEPT !.pc = "ask", !.run = r]]
  /\ UNCHANGED <<validated, registry, author, pendingTasks, environment, desk, starts, faults>>

(* run_verification_batch answers for the next batch.  Rows are bounded by
   MaxBatch; the bound on characters may close a batch earlier, and the order
   of the candidates is abstracted. *)
AskCritic(w) ==
  LET me == worker[w] IN
  /\ me.pc = "ask" /\ me.batch = {}
  /\ \E b \in SUBSET me.todo :
       /\ b # {}
       /\ Cardinality(b) <= MaxBatch
       /\ worker' = [worker EXCEPT ![w].batch = b, ![w].todo = @ \ b]
  /\ UNCHANGED <<database, environment, desk, starts, faults>>

(* _persist_outcome, first SELECT: the obligation as this transaction loads
   it.  The verdict of the model for it is chosen here. *)
LoadObligation(w) ==
  LET me == worker[w] IN
  /\ me.pc = "ask"
  /\ \E o \in me.batch, signal \in Signals :
       \E band \in PossibleBands(o \in Grounded, signal) :
         worker' = [worker EXCEPT ![w] =
           [me EXCEPT !.pc = "lock", !.current = o, !.batch = @ \ {o},
                      !.route = RouteVerification(o \in Grounded, signal, band),
                      !.seenRow = [status |-> registry[o].status,
                                   review |-> registry[o].review]]]
  /\ UNCHANGED <<database, environment, desk, starts, faults>>

(* SELECT run FOR UPDATE. *)
LockRun(w) ==
  /\ worker[w].pc = "lock"
  /\ RunFree(w, worker[w].run)
  /\ worker' = [worker EXCEPT ![w].pc = "route"]
  /\ UNCHANGED <<database, environment, desk, starts, faults>>

(* scalar_one_or_none raises on two rows. *)
Ambiguous(o) == \E t, u \in pendingTasks[o] : t # u

(* The look for a pending review task flushes the obligation, which takes its
   row; an auto-registered obligation does neither. *)
RouteObligation(w) ==
  LET me == worker[w] IN
  /\ me.pc = "route"
  /\ IF me.route = "AUTO_REGISTER"
     THEN worker' = [worker EXCEPT ![w].pc = "commit"]
     ELSE /\ RowFree(w, me.current)
          /\ worker' = [worker EXCEPT
               ![w].pc = IF Ambiguous(me.current) THEN "failed" ELSE "commit",
               ![w].seenTask = pendingTasks[me.current] # {}]
  /\ UNCHANGED <<database, environment, desk, starts, faults>>

RoutedStatus(route) ==
  CASE route = "AUTO_REGISTER" -> "VALIDATED"
    [] route = "REJECT"        -> "REJECTED"
    [] route = "HUMAN_REVIEW"  -> "REVIEW_PENDING"
StatusInReview(route) == RoutedStatus(route)    \* mutant: the columns are swapped
RoutedReview(route) == IF route = "AUTO_REGISTER" THEN "not_required" ELSE "pending"

(* A review task is inserted unless the look found one. *)
InsertsTask(me) == me.route # "AUTO_REGISTER" /\ ~me.seenTask

(* completed_ids after a verdict. *)
CheckpointsBatch(me) == runs[me.run].completed \cup {me.current} \cup me.batch
                                        \* mutant: the batch counts as done
ForgetsCheckpoint(me) == runs[me.run].completed      \* mutant: not recorded
Checkpointed(me) == runs[me.run].completed \cup {me.current}

(* verification_run_id stamped into the payload. *)
KeepsStamp(me) == registry[me.current].run           \* mutant: not stamped
Stamped(me) == me.run

(* COMMIT of one verdict: validation rows, obligation, review task unless one
   was seen, checkpoint and counters of the locked run.  The checkpoint takes
   an obligation once, the counters take it every time. *)
CommitVerdict(w) ==
  LET me == worker[w]
      o == me.current
      r == me.run
  IN
  /\ me.pc = "commit"
  /\ RowFree(w, o)
  /\ validated' = [validated EXCEPT ![r][o] = @ + 1]
  /\ registry' = [registry EXCEPT
       ![o].status = Written(me.seenRow.status, RoutedStatus(me.route), @),
       ![o].review = Written(me.seenRow.review, RoutedReview(me.route), @),
       ![o].run = Stamped(me)]
  /\ author' = [author EXCEPT ![o] = r]
  /\ pendingTasks' = [pendingTasks EXCEPT ![o] =
       IF InsertsTask(me) THEN @ \cup {<<r, validated[r][o] + 1>>} ELSE @]
  /\ runs' = [runs EXCEPT ![r].completed = Checkpointed(me),
                          ![r].tally[me.route] = @ + 1]
  /\ worker' = [worker EXCEPT ![w] =
       [Idle EXCEPT !.pc = "ask", !.critic = me.critic, !.source = me.source,
                    !.run = r, !.todo = me.todo, !.batch = me.batch]]
  /\ UNCHANGED <<environment, desk, starts, faults>>

(* An exception inside the loop: the provider (only between batches) or the
   database; an open transaction rolls back. *)
LoopFails(w) ==
  LET me == worker[w] IN
  /\ \/ me.pc = "ask" /\ me.todo \cup me.batch # {}
     \/ me.pc \in {"lock", "route", "commit"}
  /\ faults < MaxFaults
  /\ faults' = faults + 1
  /\ worker' = [worker EXCEPT ![w].pc = "failed"]
  /\ UNCHANGED <<database, environment, desk, starts>>

(* The handler reads the run without a lock ... *)
ReadForPause(w) ==
  LET me == worker[w] IN
  /\ me.pc = "failed"
  /\ worker' = [worker EXCEPT ![w] =
       [Idle EXCEPT !.pc = "pause", !.critic = me.critic, !.source = me.source,
                    !.run = me.run, !.seen = runs[me.run].completed,
                    !.seenStatus = runs[me.run].status]]
  /\ UNCHANGED <<database, environment, desk, starts, faults>>

StatusOnFailureDone == "COMPLETED"      \* mutant: marked complete on the way out
StatusOnFailure == "PAUSED"

FailuresOnly(me) == {}                  \* mutant: a fresh checkpoint
PausedCheckpoint(me) == me.seen

(* ... and writes back the whole checkpoint it read; then it re-raises. *)
PauseRun(w) ==
  LET me == worker[w] IN
  /\ me.pc = "pause"
  /\ RunFree(w, me.run)
  /\ runs' = [runs EXCEPT ![me.run].status = Written(me.seenStatus, StatusOnFailure, @),
                          ![me.run].completed = PausedCheckpoint(me)]
  /\ worker' = [worker EXCEPT ![w] = Idle]
  /\ UNCHANGED <<validated, registry, author, pendingTasks, environment, desk, starts, faults>>
-----------------------------------------------------------------------------
(* After the loop: read the run, the active obligations and the obligations
   with validation rows of this run. *)
FinishedLoop(w) == worker[w].pc = "ask" /\ worker[w].todo = {} /\ worker[w].batch = {}
SealAgrees(r) == Live = runs[r].completed /\ Live = ValidatedBy(r)

(* They differ: the exception is outside the handler, the run stays open. *)
RefuseSeal(w) ==
  /\ FinishedLoop(w)
  /\ ~SealAgrees(worker[w].run)
  /\ worker' = [worker EXCEPT ![w] = Idle]
  /\ UNCHANGED <<database, environment, desk, starts, faults>>

(* They agree: every payload not labelled with this run is to be rewritten
   with the contents loaded here. *)
ReadForSeal(w) ==
  LET me == worker[w]
      r == me.run
  IN
  /\ FinishedLoop(w)
  /\ SealAgrees(r)
  /\ worker' = [worker EXCEPT ![w] =
       [me EXCEPT !.pc = "seal", !.seen = runs[r].completed, !.seenStatus = runs[r].status,
                  !.relabel = [o \in Obligations |->
                     IF o \in Live /\ registry[o].run # r THEN author[o] ELSE 0]]]
  /\ UNCHANGED <<database, environment, desk, starts, faults>>

SealRun(w) ==
  LET me == worker[w]
      r == me.run
      Relabelled == {o \in Obligations : me.relabel[o] # 0}
  IN
  /\ me.pc = "seal"
  /\ RunFree(w, r)
  /\ \A o \in Relabelled : RowFree(w, o)
  /\ runs' = [runs EXCEPT ![r].status = Written(me.seenStatus, "COMPLETED", @),
                          ![r].completed = me.seen]
  /\ registry' = [o \in Obligations |->
       IF o \in Relabelled THEN [registry[o] EXCEPT !.run = r] ELSE registry[o]]
  /\ author' = [o \in Obligations |->
       IF o \in Relabelled THEN me.relabel[o] ELSE author[o]]
  /\ worker' = [worker EXCEPT ![w] = Idle]
  /\ UNCHANGED <<validated, pendingTasks, environment, desk, starts, faults>>

(* The process is killed; an open transaction rolls back. *)
Crash(w) ==
  /\ worker[w].pc # "idle"
  /\ faults < MaxFaults
  /\ faults' = faults + 1
  /\ worker' = [worker EXCEPT ![w] = Idle]
  /\ UNCHANGED <<database, environment, desk, starts>>
-----------------------------------------------------------------------------
Unlocked(o) == \A w \in Workers : ~HoldsRow(w, o)

(* submit_review_decision reads the task, which must be pending, ... *)
OpenTask(v) ==
  /\ desk[v].pc = "closed"
  /\ \E o \in Obligations : \E t \in pendingTasks[o] :
       desk' = [desk EXCEPT ![v] = [Closed EXCEPT !.pc = "task", !.obligation = o, !.task = {t}]]
  /\ UNCHANGED <<database, environment, worker, starts, faults>>

(* ... then its obligation, deleted or not, ... *)
LoadReviewed(v) ==
  /\ desk[v].pc = "task"
  /\ desk' = [desk EXCEPT ![v].pc = "decide",
       ![v].seenRow = [status |-> registry[desk[v].obligation].status,
                       review |-> registry[desk[v].obligation].review]]
  /\ UNCHANGED <<database, environment, worker, starts, faults>>

DecisionStatus(action, status) ==
  CASE action \in {"APPROVE", "EDIT_AND_APPROVE"} -> "APPROVED"
    [] action = "REJECT"                          -> "REJECTED"
    [] action = "REQUEST_REPROCESSING"            -> "CANDIDATE"
    [] action = "ESCALATE"                        -> status
DecisionReview(action) ==
  CASE action = "APPROVE"              -> "approved"
    [] action = "EDIT_AND_APPROVE"     -> "approved_with_edits"
    [] action = "REJECT"               -> "rejected"
    [] action = "REQUEST_REPROCESSING" -> "reprocessing_requested"
    [] action = "ESCALATE"             -> "escalated"

(* ... and commits the decision and the completion of the task. *)
Decide(v, action) ==
  LET o == desk[v].obligation
      seen == desk[v].seenRow
  IN
  /\ desk[v].pc = "decide"
  /\ Unlocked(o)
  /\ registry' = [registry EXCEPT
       ![o].status = Written(seen.status, DecisionStatus(action, seen.status), @),
       ![o].review = Written(seen.review, DecisionReview(action), @)]
  /\ pendingTasks' = [pendingTasks EXCEPT ![o] = @ \ desk[v].task]
  /\ desk' = [desk EXCEPT ![v] = Closed]
  /\ UNCHANGED <<runs, validated, author, environment, worker, starts, faults>>

(* The request fails or is cancelled: its session rolls back. *)
AbandonDecision(v) ==
  /\ desk[v].pc # "closed"
  /\ desk' = [desk EXCEPT ![v] = Closed]
  /\ UNCHANGED <<database, environment, worker, starts, faults>>

(* delete_obligation: a soft delete that leaves review tasks alone. *)
DeleteObligation(o) ==
  /\ registry[o].live
  /\ Unlocked(o)
  /\ registry' = [registry EXCEPT ![o].live = FALSE]
  /\ UNCHANGED <<runs, validated, author, pendingTasks, environment, worker, desk, starts, faults>>

(* _publish_atomically of a new extraction run: the active rows are
   soft-deleted and the rows of s inserted in one transaction. *)
Publish(s) ==
  /\ s \notin publications
  /\ Cardinality(publications) <= MaxPublications
  /\ \A o \in Live : Unlocked(o)
  /\ registry' = [o \in Obligations |->
       IF SourceOf[o] = s THEN Candidate ELSE [registry[o] EXCEPT !.live = FALSE]]
  /\ publications' = publications \cup {s}
  /\ UNCHANGED <<runs, validated, author, pendingTasks, critic, worker, desk, starts, faults>>

(* The operator points CRITIC_MODEL_* at another model; processes already
   running keep theirs. *)
Reconfigure(c) ==
  /\ critic # c
  /\ critic' = c
  /\ UNCHANGED <<database, publications, worker, desk, starts, faults>>

Verify(w) ==
  \/ FindResumable(w) \/ FindNone(w) \/ AdoptRun(w) \/ CreateRun(w) \/ AskCritic(w)
  \/ LoadObligation(w) \/ LockRun(w) \/ RouteObligation(w) \/ CommitVerdict(w)
  \/ ReadForPause(w) \/ PauseRun(w)
  \/ RefuseSeal(w) \/ ReadForSeal(w) \/ SealRun(w)

Next ==
  \/ \E w \in Workers : Start(w) \/ Verify(w) \/ LoopFails(w) \/ Crash(w)
  \/ \E v \in Reviewers : OpenTask(v) \/ LoadReviewed(v) \/ AbandonDecision(v)
  \/ \E v \in Reviewers, action \in ReviewActions : Decide(v, action)
  \/ \E o \in Deletable : DeleteObligation(o)
  \/ \E s \in Sources : Publish(s)
  \/ \E c \in Critics : Reconfigure(c)

Spec == Init /\ [][Next]_vars
-----------------------------------------------------------------------------
(* What a run is to a reader of the database: whether it is there and whether
   it is complete, its checkpoint, and the number of verdicts it counted. *)
Total(row) == row.tally["AUTO_REGISTER"] + row.tally["HUMAN_REVIEW"] + row.tally["REJECT"]
RunState(status) ==
  CASE status = "none"      -> "absent"
    [] status = "COMPLETED" -> "sealed"
    [] OTHER                -> "open"
Entry(row) == [state |-> RunState(row.status), source |-> row.source,
               verified |-> row.completed, verdicts |-> Total(row)]

Ledger == INSTANCE VerificationLedger WITH
  Runs <- RunIds, ledger <- [r \in RunIds |-> Entry(runs[r])],
  active <- Live, published <- publications
-----------------------------------------------------------------------------
(* Progress: a started script runs on, and the operator starts it again while
   the registry is not sealed.  Faults, users and publications are not fair. *)
Sealed == \E r \in RunIds : runs[r].status = "COMPLETED"
FairSpec ==
  /\ Spec
  /\ \A w \in Workers : WF_vars(Verify(w)) /\ WF_vars(~Sealed /\ Start(w))
-----------------------------------------------------------------------------
(* Every variable ranges over the values the tables and locals allow. *)
TypeOK ==
  /\ runs \in [RunIds -> RunRow]
  /\ validated \in [RunIds -> [Obligations -> Nat]]
  /\ registry \in [Obligations -> ObligationRow]
  /\ author \in [Obligations -> MaybeRun]
  /\ pendingTasks \in [Obligations -> SUBSET Tasks]
  /\ critic \in Critics
  /\ publications \subseteq Sources
  /\ worker \in [Workers -> Locals]
  /\ desk \in [Reviewers -> Desks]
  /\ starts \in 0..MaxStarts
  /\ faults \in 0..MaxFaults

(* A checkpoint never lists an obligation the run has no validation rows for,
   so a resumed run never skips unverified work: whatever the interleaving of
   commits, of pauses writing back stale checkpoints and of seals. *)
CheckpointBacked ==
  \A r \in RunIds : runs[r].completed \subseteq ValidatedBy(r)

(* The look-then-insert of _persist_outcome never leaves two pending
   obligation_review tasks for one obligation (the next verdict's
   scalar_one_or_none would raise), because the flush that precedes the look
   takes the obligation's row. *)
OnePendingTask == \A o \in Obligations : ~Ambiguous(o)

(* Whatever overwrites what, an obligation whose review_status is "pending"
   is in some reviewer's queue. *)
ReviewQueued ==
  \A o \in Obligations : registry[o].review = "pending" => pendingTasks[o] # {}

(* The three counters of a run add up to its checkpoint: the totals that the
   summary reports are those of the obligations it verified. *)
CountersMatchCheckpoint ==
  \A r \in RunIds : Total(runs[r]) = Cardinality(runs[r].completed)

(* A run verifies an obligation once, however often it crashes and resumes. *)
VerifiedOnce ==
  \A r \in RunIds, o \in Obligations : validated[r][o] <= 1

(* A COMPLETED run has verified every obligation of its extraction run that
   is still active. *)
SealedCoversRegistry ==
  \A r \in RunIds : runs[r].status = "COMPLETED" =>
    {o \in Live : SourceOf[o] = runs[r].source} \subseteq runs[r].completed

(* The verification_run_id in an obligation's payload names the run whose
   verdict the payload holds. *)
AttributionFaithful ==
  \A o \in Obligations : registry[o].run = author[o]

(* The verdicts that a completed run signs for were given by one critic. *)
SealedByOneCritic ==
  \A r \in RunIds : runs[r].status = "COMPLETED" =>
    \A o \in Live : registry[o].run = r => runs[author[o]].critic = runs[r].critic

(* A completed run is final: no later step reopens it or changes its
   checkpoint or its counters. *)
SealIsFinal ==
  [][\A r \in RunIds : runs[r].status = "COMPLETED" => runs'[r] = runs[r]]_vars

(* A checkpoint only grows: verified work is never forgotten. *)
CheckpointGrows ==
  [][\A r \in RunIds : runs[r].completed \subseteq runs'[r].completed]_vars

(* A process only ever works for a run with its own source and critic: a run
   is never resumed under another critic. *)
RunKeepsProvenance ==
  \A w \in Workers : worker[w].run # 0 =>
    /\ runs[worker[w].run].source = worker[w].source
    /\ runs[worker[w].run].critic = worker[w].critic

(* The service implements the ledger it promises: however it dies, pauses and
   resumes, its runs change only by opening, by one verdict per obligation of
   their own registry, and by a seal over all that is active of it. *)
ImplementsLedger == Ledger!Spec

(* As long as starts outnumber faults, some run ends COMPLETED. *)
EventuallySealed == <>Sealed
=============================================================================
