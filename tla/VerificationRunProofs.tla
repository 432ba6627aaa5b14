------------------------ MODULE VerificationRunProofs ------------------------
(***************************************************************************)
(* Safety of the verification service.  For any number of operators,       *)
(* obligations, runs, critics and publications: types, checkpoints that    *)
(* are backed, provenance that is kept, one pending task.  For one         *)
(* operator: ResumeInv, checkpoints and seals; CoverInv, what a seal       *)
(* covers; and with one critic AttributionInv, whose verdict a payload     *)
(* holds.                                                                  *)
(***************************************************************************)
EXTENDS VerificationRun, SumTheorems, TLAPS

(* A process that has found a run works for it until it stops, and from the
   load of an obligation to the commit of its verdict it has one in hand. *)
InHand ==
  \A w \in Workers :
    /\ worker[w].pc \in {"adopt", "ask", "lock", "route", "commit", "failed", "pause", "seal"}
         => worker[w].run \in RunIds
    /\ worker[w].pc \in {"lock", "route", "commit"} => worker[w].current \in Obligations

(* An open request of a reviewer is about an obligation. *)
DeskInHand ==
  \A v \in Reviewers : desk[v].pc # "closed" => desk[v].obligation \in Obligations

TypeInv == TypeOK /\ InHand /\ DeskInHand
-----------------------------------------------------------------------------
(* The labels and numbers the actions write are of their types. *)
LEMMA Labels ==
  /\ \A label \in {"idle", "find", "adopt", "create", "ask", "lock", "route", "commit",
                   "failed", "pause", "seal"} : label \in PCs
  /\ \A status \in {"none", "CANDIDATE"} : status \in Statuses
  /\ "awaiting_verification" \in ReviewStatuses
  /\ "REJECT" \in Routes
  /\ RunIds \subseteq MaybeRun
  /\ 0 \in MaybeRun
BY ConstantsAssumption DEF PCs, Statuses, ReviewStatuses, Routes, RunIds, MaybeRun

LEMMA IdleTyped == Idle \in Locals /\ NoRelabel \in [Obligations -> MaybeRun]
<1>1. (CHOOSE c \in Critics : TRUE) \in Critics
  BY ConstantsAssumption
<1>2. NoRelabel \in [Obligations -> MaybeRun]
  BY Labels DEF NoRelabel
<1>3. QED
  BY <1>1, <1>2, Labels, ConstantsAssumption DEF Idle, Locals, LoadedRow, NotLoaded

LEMMA ClosedTyped == Closed \in Desks
BY Labels DEF Closed, Desks, LoadedRow, NotLoaded

LEMMA InitTyped == Init => TypeOK
<1> SUFFICES ASSUME Init PROVE TypeOK
  OBVIOUS
<1>1. (CHOOSE c \in Critics : TRUE) \in Critics
  BY ConstantsAssumption
<1>2. runs \in [RunIds -> RunRow]
  BY <1>1, ConstantsAssumption DEF Init, RunRow
<1>3. registry \in [Obligations -> ObligationRow]
  <2>1. Candidate \in ObligationRow /\ Unpublished \in ObligationRow
    BY Labels DEF Candidate, Unpublished, ObligationRow
  <2>2. QED
    BY <2>1 DEF Init
<1>4. worker \in [Workers -> Locals]
  BY IdleTyped DEF Init
<1>5. validated \in [RunIds -> [Obligations -> Nat]]
  BY DEF Init
<1>6. author \in [Obligations -> MaybeRun] /\ pendingTasks \in [Obligations -> SUBSET Tasks]
  BY Labels DEF Init
<1>7. critic \in Critics /\ publications \subseteq Sources
  BY ConstantsAssumption DEF Init
<1>8. starts \in 0..MaxStarts /\ faults \in 0..MaxFaults /\ desk \in [Reviewers -> Desks]
  BY ConstantsAssumption, ClosedTyped DEF Init
<1>9. QED
  BY <1>2, <1>3, <1>4, <1>5, <1>6, <1>7, <1>8 DEF TypeOK

(* The values that the helpers of the actions compute. *)
LEMMA RoutingTyped ==
  ASSUME NEW o, NEW signal \in Signals, NEW band \in PossibleBands(o \in Grounded, signal)
  PROVE  RouteVerification(o \in Grounded, signal, band) \in Routes
BY DEF RouteVerification, PossibleBands, Routes, Signals, Bands

LEMMA RoutedTyped ==
  ASSUME NEW route \in Routes
  PROVE  RoutedStatus(route) \in Statuses /\ RoutedReview(route) \in ReviewStatuses
BY DEF Routes, RoutedStatus, RoutedReview, Statuses, ReviewStatuses

(* An UPDATE of a run's row leaves a row. *)
LEMMA RowTyped ==
  ASSUME NEW row \in RunRow,
         NEW loaded \in {"none", "RUNNING", "PAUSED", "COMPLETED"},
         NEW new \in {"RUNNING", "PAUSED", "COMPLETED"},
         NEW completed \in SUBSET Obligations
  PROVE  /\ [row EXCEPT !.status = Written(loaded, new, row.status)] \in RunRow
         /\ [row EXCEPT !.status = Written(loaded, new, row.status),
                        !.completed = completed] \in RunRow
<1>1. Written(loaded, new, row.status) \in {"none", "RUNNING", "PAUSED", "COMPLETED"}
  BY DEF Written, RunRow
<1>2. ASSUME NEW s \in {"none", "RUNNING", "PAUSED", "COMPLETED"}
      PROVE  /\ [row EXCEPT !.status = s] \in RunRow
             /\ [row EXCEPT !.status = s, !.completed = completed] \in RunRow
  BY DEF RunRow
<1>3. QED
  BY <1>1, <1>2

LEMMA DecisionTyped ==
  ASSUME NEW action \in Decisions, NEW status \in Statuses
  PROVE  DecisionStatus(action, status) \in Statuses /\ DecisionReview(action) \in ReviewStatuses
BY DEF Decisions, DecisionStatus, DecisionReview, Statuses, ReviewStatuses
-----------------------------------------------------------------------------
(* Type correctness, one lemma per action or pair of actions. *)
LEMMA StartTyped ==
  ASSUME TypeOK, NEW w \in Workers, Start(w) PROVE TypeOK'
<1>1. PICK s \in Sources :
        worker' = [worker EXCEPT ![w] =
          [Idle EXCEPT !.pc = "find", !.critic = critic, !.source = s, !.todo = Live]]
  BY DEF Start
<1>2. Live \subseteq Obligations /\ critic \in Critics
  BY DEF Live, TypeOK
<1>3. [Idle EXCEPT !.pc = "find", !.critic = critic, !.source = s, !.todo = Live] \in Locals
  BY <1>2, IdleTyped, Labels DEF Locals
<1>4. starts' \in 0..MaxStarts
  BY ConstantsAssumption DEF Start, TypeOK
<1>5. worker' \in [Workers -> Locals]
  BY <1>1, <1>3 DEF TypeOK
<1>6. QED
  BY <1>4, <1>5 DEF Start, TypeOK, database, environment

LEMMA FindTyped ==
  ASSUME TypeOK, NEW w \in Workers, FindResumable(w) \/ FindNone(w) PROVE TypeOK'
<1>0. worker[w] \in Locals
  BY DEF TypeOK
<1>1. CASE FindResumable(w)
  <2>1. PICK r \in RunIds : worker' = [worker EXCEPT ![w] =
          [worker[w] EXCEPT !.pc = "adopt", !.run = r, !.seen = runs[r].completed,
                            !.seenStatus = runs[r].status]]
    BY <1>1 DEF FindResumable
  <2>2. /\ r \in MaybeRun
        /\ runs[r].completed \in SUBSET Obligations
        /\ runs[r].status \in {"none", "RUNNING", "PAUSED", "COMPLETED"}
    BY Labels DEF TypeOK, RunRow
  <2>3. [worker[w] EXCEPT !.pc = "adopt", !.run = r, !.seen = runs[r].completed,
                          !.seenStatus = runs[r].status] \in Locals
    BY <1>0, <2>2, Labels DEF Locals
  <2>4. worker' \in [Workers -> Locals]
    BY <2>1, <2>3 DEF TypeOK
  <2>5. QED
    BY <1>1, <2>4 DEF FindResumable, TypeOK, database, environment
<1>2. CASE FindNone(w)
  <2>1. [worker[w] EXCEPT !.pc = "create"] \in Locals
    BY <1>0, Labels DEF Locals
  <2>2. worker' \in [Workers -> Locals]
    BY <1>2, <2>1 DEF FindNone, TypeOK
  <2>3. QED
    BY <1>2, <2>2 DEF FindNone, TypeOK, database, environment
<1>3. QED
  BY <1>1, <1>2

LEMMA AdoptTyped ==
  ASSUME TypeOK, InHand, NEW w \in Workers, AdoptRun(w) PROVE TypeOK'
<1>0. worker[w] \in Locals
  BY DEF TypeOK
<1>1. [worker[w] EXCEPT !.pc = "ask", !.todo = Remaining(worker[w]),
                        !.seen = {}, !.seenStatus = "none"] \in Locals
  BY <1>0, Labels DEF Locals, Remaining
<1>2. worker' \in [Workers -> Locals]
  BY <1>1 DEF AdoptRun, TypeOK
<1>3. runs' \in [RunIds -> RunRow]
  <2>1. worker[w].run \in RunIds /\ runs[worker[w].run] \in RunRow
    BY DEF AdoptRun, InHand, TypeOK
  <2>2. [runs[worker[w].run] EXCEPT !.status =
           Written(worker[w].seenStatus, "RUNNING", runs[worker[w].run].status)] \in RunRow
    BY <1>0, <2>1, RowTyped DEF Locals
  <2>3. QED
    BY <2>1, <2>2 DEF AdoptRun, TypeOK
<1>4. QED
  BY <1>2, <1>3 DEF AdoptRun, TypeOK, environment

LEMMA CreateTyped ==
  ASSUME TypeOK, NEW w \in Workers, CreateRun(w) PROVE TypeOK'
<1>0. worker[w] \in Locals
  BY DEF TypeOK
<1> DEFINE row == [status |-> "RUNNING", source |-> worker[w].source, critic |-> worker[w].critic,
                   completed |-> {}, tally |-> [t \in Routes |-> 0]]
<1>1. PICK r \in RunIds :
        /\ runs' = [runs EXCEPT ![r] = row]
        /\ worker' = [worker EXCEPT ![w] = [worker[w] EXCEPT !.pc = "ask", !.run = r]]
  BY DEF CreateRun
<1>2. [worker[w] EXCEPT !.pc = "ask", !.run = r] \in Locals
  BY <1>0, Labels DEF Locals
<1>3. row \in RunRow
  BY <1>0 DEF Locals, RunRow
<1>4. worker' \in [Workers -> Locals] /\ runs' \in [RunIds -> RunRow]
  <2> HIDE DEF row
  <2>1. QED
    BY <1>1, <1>2, <1>3 DEF TypeOK
<1>5. QED
  BY <1>4 DEF CreateRun, TypeOK, environment

LEMMA AskTyped ==
  ASSUME TypeOK, NEW w \in Workers, AskCritic(w) PROVE TypeOK'
<1>0. worker[w] \in Locals
  BY DEF TypeOK
<1>1. PICK b \in SUBSET worker[w].todo :
        worker' = [worker EXCEPT ![w].batch = b, ![w].todo = @ \ b]
  BY DEF AskCritic
<1>2. [worker[w] EXCEPT !.batch = b, !.todo = worker[w].todo \ b] \in Locals
  BY <1>0 DEF Locals
<1>3. worker' = [worker EXCEPT ![w] = [worker[w] EXCEPT !.batch = b, !.todo = worker[w].todo \ b]]
  BY <1>0, <1>1 DEF TypeOK, Locals
<1>4. worker' \in [Workers -> Locals]
  BY <1>2, <1>3 DEF TypeOK
<1>5. QED
  BY <1>4 DEF AskCritic, TypeOK, database, environment

LEMMA LoadTyped ==
  ASSUME TypeOK, NEW w \in Workers, LoadObligation(w) PROVE TypeOK'
<1>0. worker[w] \in Locals
  BY DEF TypeOK
<1> DEFINE Loaded(o, route) ==
      [worker[w] EXCEPT !.pc = "lock", !.current = o, !.batch = @ \ {o}, !.route = route,
                        !.seenRow = [status |-> registry[o].status,
                                     review |-> registry[o].review]]
<1>1. \E o \in worker[w].batch, signal \in Signals :
        \E band \in PossibleBands(o \in Grounded, signal) :
          worker' = [worker EXCEPT ![w] =
            Loaded(o, RouteVerification(o \in Grounded, signal, band))]
  BY DEF LoadObligation
<1>2. PICK o \in worker[w].batch, route \in Routes :
        worker' = [worker EXCEPT ![w] = Loaded(o, route)]
  BY <1>1, RoutingTyped
<1>3. o \in Obligations
  BY <1>0 DEF Locals
<1>4. Loaded(o, route) \in Locals
  BY <1>0, <1>3, Labels DEF Locals, LoadedRow, TypeOK, ObligationRow
<1>5. worker' \in [Workers -> Locals]
  <2> HIDE DEF Loaded
  <2>1. QED
    BY <1>2, <1>4 DEF TypeOK
<1>6. QED
  BY <1>5 DEF LoadObligation, TypeOK, database, environment

LEMMA LockRouteTyped ==
  ASSUME TypeOK, InHand, NEW w \in Workers, LockRun(w) \/ RouteObligation(w) PROVE TypeOK'
<1>0. worker[w] \in Locals
  BY DEF TypeOK
<1>1. CASE LockRun(w)
  <2>1. [worker[w] EXCEPT !.pc = "route"] \in Locals
    BY <1>0, Labels DEF Locals
  <2>2. worker' \in [Workers -> Locals]
    BY <1>1, <2>1 DEF LockRun, TypeOK
  <2>3. QED
    BY <1>1, <2>2 DEF LockRun, TypeOK, database, environment
<1>2. CASE RouteObligation(w) /\ worker[w].route = "AUTO_REGISTER"
  <2>1. [worker[w] EXCEPT !.pc = "commit"] \in Locals
    BY <1>0, Labels DEF Locals
  <2>2. worker' \in [Workers -> Locals]
    BY <1>2, <2>1 DEF RouteObligation, TypeOK
  <2>3. QED
    BY <1>2, <2>2 DEF RouteObligation, TypeOK, database, environment
<1>3. CASE RouteObligation(w) /\ worker[w].route # "AUTO_REGISTER"
  <2> DEFINE pc == IF Ambiguous(worker[w].current) THEN "failed" ELSE "commit"
             found == pendingTasks[worker[w].current] # {}
  <2>1. worker' = [worker EXCEPT ![w].pc = pc, ![w].seenTask = found]
    BY <1>3 DEF RouteObligation
  <2>2. pc \in PCs
    BY Labels
  <2>3. found \in BOOLEAN
    OBVIOUS
  <2>4. [worker[w] EXCEPT !.pc = pc, !.seenTask = found] \in Locals
    <3> HIDE DEF pc, found
    <3>1. QED
      BY <1>0, <2>2, <2>3 DEF Locals
  <2>5. worker' = [worker EXCEPT ![w] = [worker[w] EXCEPT !.pc = pc, !.seenTask = found]]
    BY <1>0, <2>1 DEF TypeOK, Locals
  <2>6. worker' \in [Workers -> Locals]
    <3> HIDE DEF pc, found
    <3>1. QED
      BY <2>4, <2>5 DEF TypeOK
  <2>7. QED
    BY <1>3, <2>6 DEF RouteObligation, TypeOK, database, environment
<1>4. QED
  BY <1>1, <1>2, <1>3

LEMMA CommitTyped ==
  ASSUME TypeOK, InHand, NEW w \in Workers, CommitVerdict(w) PROVE TypeOK'
<1> DEFINE me == worker[w]
           o == me.current
           r == me.run
<1>1. me \in Locals /\ o \in Obligations /\ r \in RunIds
  BY DEF TypeOK, InHand, CommitVerdict
<1>2. r \in MaybeRun /\ me.route \in Routes
  BY <1>1, Labels DEF Locals
<1>3. validated' \in [RunIds -> [Obligations -> Nat]]
  <2>1. validated' = [validated EXCEPT ![r][o] = @ + 1]
    BY DEF CommitVerdict
  <2>2. QED
    BY <1>1, <2>1 DEF TypeOK
<1>4. registry' \in [Obligations -> ObligationRow]
  <2> DEFINE row == [registry[o] EXCEPT
         !.status = Written(me.seenRow.status, RoutedStatus(me.route), @),
         !.review = Written(me.seenRow.review, RoutedReview(me.route), @),
         !.run = Stamped(me)]
  <2>0. registry' = [registry EXCEPT
         ![o].status = Written(me.seenRow.status, RoutedStatus(me.route), @),
         ![o].review = Written(me.seenRow.review, RoutedReview(me.route), @),
         ![o].run = Stamped(me)]
    BY DEF CommitVerdict
  <2>1. registry' = [registry EXCEPT ![o] = row]
    BY <1>1, <2>0, ZenonT(60) DEF TypeOK, ObligationRow
  <2>2. row \in ObligationRow
    <3>1. registry[o] \in ObligationRow
      BY <1>1 DEF TypeOK
    <3>2. /\ Written(me.seenRow.status, RoutedStatus(me.route), registry[o].status) \in Statuses
          /\ Written(me.seenRow.review, RoutedReview(me.route), registry[o].review)
               \in ReviewStatuses
      BY <1>2, <3>1, RoutedTyped DEF ObligationRow, Written
    <3>3. QED
      BY <1>2, <3>1, <3>2 DEF ObligationRow, Stamped
  <2>3. QED
    <3> HIDE DEF row
    <3>1. QED
      BY <2>1, <2>2 DEF TypeOK
<1>5. author' \in [Obligations -> MaybeRun]
  BY <1>2 DEF CommitVerdict, TypeOK
<1>6. pendingTasks' \in [Obligations -> SUBSET Tasks]
  <2>1. <<r, validated[r][o] + 1>> \in Tasks
    BY <1>1 DEF TypeOK, Tasks
  <2>2. QED
    BY <1>1, <2>1 DEF CommitVerdict, TypeOK
<1>7. runs' \in [RunIds -> RunRow]
  <2> DEFINE row == [runs[r] EXCEPT !.completed = Checkpointed(me), !.tally[me.route] = @ + 1]
  <2>0. runs' = [runs EXCEPT ![r].completed = Checkpointed(me), ![r].tally[me.route] = @ + 1]
    BY DEF CommitVerdict
  <2>1. runs' = [runs EXCEPT ![r] = row]
    BY <1>1, <2>0, ZenonT(60) DEF TypeOK, RunRow
  <2>2. row \in RunRow
    <3>1. runs[r] \in RunRow /\ Checkpointed(me) \in SUBSET Obligations
      BY <1>1 DEF TypeOK, RunRow, Checkpointed
    <3>2. [runs[r].tally EXCEPT ![me.route] = @ + 1] \in [Routes -> Nat]
      BY <1>2, <3>1 DEF RunRow
    <3>3. QED
      BY <3>1, <3>2 DEF RunRow
  <2>3. QED
    <3> HIDE DEF row
    <3>1. QED
      BY <2>1, <2>2 DEF TypeOK
<1>8. worker' \in [Workers -> Locals]
  <2> DEFINE next == [Idle EXCEPT !.pc = "ask", !.critic = me.critic, !.source = me.source,
                                  !.run = r, !.todo = me.todo, !.batch = me.batch]
  <2>1. next \in Locals
    BY <1>1, <1>2, IdleTyped, Labels DEF Locals
  <2>2. worker' = [worker EXCEPT ![w] = next]
    BY DEF CommitVerdict
  <2>3. QED
    <3> HIDE DEF next
    <3>1. QED
      BY <2>1, <2>2 DEF TypeOK
<1>9. QED
  BY <1>3, <1>4, <1>5, <1>6, <1>7, <1>8 DEF CommitVerdict, TypeOK, environment

LEMMA FailTyped ==
  ASSUME TypeOK, InHand, NEW w \in Workers,
         LoopFails(w) \/ ReadForPause(w) \/ PauseRun(w) \/ Crash(w) \/ RefuseSeal(w)
  PROVE  TypeOK'
<1>0. worker[w] \in Locals
  BY DEF TypeOK
<1>1. CASE LoopFails(w)
  <2>1. [worker[w] EXCEPT !.pc = "failed"] \in Locals
    BY <1>0, Labels DEF Locals
  <2>2. worker' \in [Workers -> Locals]
    BY <1>1, <2>1 DEF LoopFails, TypeOK
  <2>3. faults' \in 0..MaxFaults
    BY <1>1, ConstantsAssumption DEF LoopFails, TypeOK
  <2>4. QED
    BY <1>1, <2>2, <2>3 DEF LoopFails, TypeOK, database, environment
<1>2. CASE ReadForPause(w)
  <2> DEFINE next == [Idle EXCEPT !.pc = "pause", !.critic = worker[w].critic,
                        !.source = worker[w].source, !.run = worker[w].run,
                        !.seen = runs[worker[w].run].completed,
                        !.seenStatus = runs[worker[w].run].status]
  <2>1. runs[worker[w].run] \in RunRow
    BY <1>2 DEF ReadForPause, TypeOK, InHand
  <2>2. next \in Locals
    BY <1>0, <2>1, IdleTyped, Labels DEF Locals, RunRow
  <2>3. worker' = [worker EXCEPT ![w] = next]
    BY <1>2 DEF ReadForPause
  <2>4. worker' \in [Workers -> Locals]
    <3> HIDE DEF next
    <3>1. QED
      BY <2>2, <2>3 DEF TypeOK
  <2>5. QED
    BY <1>2, <2>4 DEF ReadForPause, TypeOK, database, environment
<1>3. CASE PauseRun(w)
  <2> DEFINE r == worker[w].run
             row == [runs[r] EXCEPT
                       !.status = Written(worker[w].seenStatus, StatusOnFailure, @),
                       !.completed = PausedCheckpoint(worker[w])]
  <2>1. r \in RunIds /\ runs[r] \in RunRow
    BY <1>3 DEF PauseRun, InHand, TypeOK
  <2>2. row \in RunRow
    BY <1>0, <2>1, RowTyped DEF Locals, StatusOnFailure, PausedCheckpoint
  <2>3. runs' = [runs EXCEPT ![r] = row]
    BY <1>3, <2>1 DEF PauseRun, TypeOK, RunRow
  <2>4. runs' \in [RunIds -> RunRow]
    <3> HIDE DEF row
    <3>1. QED
      BY <2>2, <2>3 DEF TypeOK
  <2>5. worker' \in [Workers -> Locals]
    BY <1>3, IdleTyped DEF PauseRun, TypeOK
  <2>6. QED
    BY <1>3, <2>4, <2>5 DEF PauseRun, TypeOK, environment
<1>4. CASE Crash(w)
  <2>1. worker' \in [Workers -> Locals]
    BY <1>4, IdleTyped DEF Crash, TypeOK
  <2>2. faults' \in 0..MaxFaults
    BY <1>4, ConstantsAssumption DEF Crash, TypeOK
  <2>3. QED
    BY <1>4, <2>1, <2>2 DEF Crash, TypeOK, database, environment
<1>5. CASE RefuseSeal(w)
  <2>1. worker' \in [Workers -> Locals]
    BY <1>5, IdleTyped DEF RefuseSeal, TypeOK
  <2>2. QED
    BY <1>5, <2>1 DEF RefuseSeal, TypeOK, database, environment
<1>6. QED
  BY <1>1, <1>2, <1>3, <1>4, <1>5

LEMMA SealTyped ==
  ASSUME TypeOK, InHand, NEW w \in Workers, ReadForSeal(w) \/ SealRun(w) PROVE TypeOK'
<1> DEFINE me == worker[w]
           r == me.run
<1>0. me \in Locals
  BY DEF TypeOK
<1>1. CASE ReadForSeal(w)
  <2> DEFINE labels == [o \in Obligations |->
                          IF o \in Live /\ registry[o].run # r THEN author[o] ELSE 0]
  <2>1. runs[r] \in RunRow
    BY <1>1 DEF ReadForSeal, FinishedLoop, TypeOK, InHand
  <2>2. labels \in [Obligations -> MaybeRun]
    BY Labels DEF TypeOK
  <2>3. worker' = [worker EXCEPT ![w] =
          [me EXCEPT !.pc = "seal", !.seen = runs[r].completed, !.seenStatus = runs[r].status,
                     !.relabel = labels]]
    BY <1>1 DEF ReadForSeal
  <2>4. [me EXCEPT !.pc = "seal", !.seen = runs[r].completed, !.seenStatus = runs[r].status,
                   !.relabel = labels] \in Locals
    <3> HIDE DEF labels
    <3>1. QED
      BY <1>0, <2>1, <2>2, Labels DEF Locals, RunRow
  <2>5. worker' \in [Workers -> Locals]
    <3> HIDE DEF labels
    <3>1. QED
      BY <2>3, <2>4 DEF TypeOK
  <2>6. QED
    BY <1>1, <2>5 DEF ReadForSeal, TypeOK, database, environment
<1>2. CASE SealRun(w)
  <2> DEFINE row == [runs[r] EXCEPT !.status = Written(me.seenStatus, "COMPLETED", @),
                                    !.completed = me.seen]
  <2>1. r \in RunIds /\ r \in MaybeRun /\ runs[r] \in RunRow
    BY <1>2, Labels DEF SealRun, InHand, TypeOK
  <2>2. row \in RunRow
    BY <1>0, <2>1, RowTyped DEF Locals
  <2>3. runs' = [runs EXCEPT ![r] = row]
    BY <1>2, <2>1 DEF SealRun, TypeOK, RunRow
  <2>4. runs' \in [RunIds -> RunRow]
    <3> HIDE DEF row
    <3>1. QED
      BY <2>2, <2>3 DEF TypeOK
  <2>5. \A o \in Obligations : [registry[o] EXCEPT !.run = r] \in ObligationRow
    BY <2>1 DEF TypeOK, ObligationRow
  <2>6. registry' \in [Obligations -> ObligationRow]
    BY <1>2, <2>5 DEF SealRun, TypeOK
  <2>7. author' \in [Obligations -> MaybeRun]
    BY <1>0, <1>2 DEF SealRun, TypeOK, Locals
  <2>8. worker' \in [Workers -> Locals]
    BY <1>2, IdleTyped DEF SealRun, TypeOK
  <2>9. QED
    BY <1>2, <2>4, <2>6, <2>7, <2>8 DEF SealRun, TypeOK, environment
<1>3. QED
  BY <1>1, <1>2

LEMMA ReviewTyped ==
  ASSUME TypeOK, DeskInHand, NEW v \in Reviewers,
         \/ OpenTask(v) \/ LoadReviewed(v) \/ AbandonDecision(v)
         \/ \E action \in ReviewActions : Decide(v, action)
  PROVE  TypeOK'
<1>0. desk[v] \in Desks /\ desk \in [Reviewers -> Desks]
  BY DEF TypeOK
<1>1. CASE OpenTask(v)
  <2>1. PICK o \in Obligations, t \in Tasks :
          desk' = [desk EXCEPT ![v] =
            [Closed EXCEPT !.pc = "task", !.obligation = o, !.task = {t}]]
    BY <1>1 DEF OpenTask, TypeOK
  <2>2. [Closed EXCEPT !.pc = "task", !.obligation = o, !.task = {t}] \in Desks
    BY ClosedTyped DEF Desks
  <2>3. desk' \in [Reviewers -> Desks]
    BY <1>0, <2>1, <2>2
  <2>4. QED
    BY <1>1, <2>3 DEF OpenTask, TypeOK, database, environment
<1>2. CASE LoadReviewed(v)
  <2> DEFINE row == [status |-> registry[desk[v].obligation].status,
                     review |-> registry[desk[v].obligation].review]
  <2>1. row \in LoadedRow
    BY <1>2 DEF LoadReviewed, DeskInHand, TypeOK, ObligationRow, LoadedRow
  <2>2. [desk[v] EXCEPT !.pc = "decide", !.seenRow = row] \in Desks
    <3> HIDE DEF row
    <3>1. QED
      BY <1>0, <2>1 DEF Desks
  <2>3. desk' = [desk EXCEPT ![v] = [desk[v] EXCEPT !.pc = "decide", !.seenRow = row]]
    BY <1>0, <1>2 DEF LoadReviewed, Desks
  <2>4. desk' \in [Reviewers -> Desks]
    <3> HIDE DEF row
    <3>1. QED
      BY <1>0, <2>2, <2>3
  <2>5. QED
    BY <1>2, <2>4 DEF LoadReviewed, TypeOK, database, environment
<1>3. CASE AbandonDecision(v)
  <2>1. desk' \in [Reviewers -> Desks]
    BY <1>0, <1>3, ClosedTyped DEF AbandonDecision
  <2>2. QED
    BY <1>3, <2>1 DEF AbandonDecision, TypeOK, database, environment
<1>4. CASE \E action \in ReviewActions : Decide(v, action)
  <2>1. PICK action \in ReviewActions : Decide(v, action)
    BY <1>4
  <2> DEFINE o == desk[v].obligation
             seen == desk[v].seenRow
             row == [registry[o] EXCEPT
                       !.status = Written(seen.status, DecisionStatus(action, seen.status), @),
                       !.review = Written(seen.review, DecisionReview(action), @)]
  <2>2. seen \in LoadedRow /\ action \in Decisions
    BY <1>0, ConstantsAssumption DEF Desks
  <2>3. /\ DecisionStatus(action, seen.status) \in Statuses
        /\ DecisionReview(action) \in ReviewStatuses
    BY <2>2, DecisionTyped DEF LoadedRow
  <2>4. registry' = [registry EXCEPT ![o] = row]
    BY <2>1 DEF Decide, TypeOK, ObligationRow
  <2>5. o \in Obligations => row \in ObligationRow
    BY <2>3 DEF TypeOK, ObligationRow, Written
  <2>6. registry' \in [Obligations -> ObligationRow]
    <3> HIDE DEF row, o
    <3>1. QED
      BY <2>4, <2>5 DEF TypeOK
  <2>7. pendingTasks' \in [Obligations -> SUBSET Tasks]
    BY <2>1 DEF Decide, TypeOK
  <2>8. desk' \in [Reviewers -> Desks]
    BY <1>0, <2>1, ClosedTyped DEF Decide
  <2>9. QED
    BY <2>1, <2>6, <2>7, <2>8 DEF Decide, TypeOK, environment
<1>5. QED
  BY <1>1, <1>2, <1>3, <1>4

(* A request is about the obligation of the task it opened until it ends. *)
LEMMA DeskStep ==
  ASSUME TypeOK, DeskInHand, NEW v \in Reviewers,
         \/ OpenTask(v) \/ LoadReviewed(v) \/ AbandonDecision(v)
         \/ \E action \in ReviewActions : Decide(v, action)
  PROVE  DeskInHand'
<1>0. desk[v] \in Desks /\ desk \in [Reviewers -> Desks]
  BY DEF TypeOK
<1>1. CASE OpenTask(v)
  <2>1. PICK o \in Obligations, t \in Tasks :
          desk' = [desk EXCEPT ![v] =
            [Closed EXCEPT !.pc = "task", !.obligation = o, !.task = {t}]]
    BY <1>1 DEF OpenTask, TypeOK
  <2>2. [Closed EXCEPT !.pc = "task", !.obligation = o, !.task = {t}].obligation = o
    BY DEF Closed
  <2>3. QED
    BY <1>0, <2>1, <2>2 DEF DeskInHand
<1>2. CASE LoadReviewed(v)
  BY <1>0, <1>2 DEF LoadReviewed, DeskInHand, Desks
<1>3. CASE AbandonDecision(v) \/ \E action \in ReviewActions : Decide(v, action)
  <2>1. desk' = [desk EXCEPT ![v] = Closed] /\ Closed.pc = "closed"
    BY <1>3 DEF AbandonDecision, Decide, Closed
  <2>2. QED
    BY <1>0, <2>1 DEF DeskInHand
<1>4. QED
  BY <1>1, <1>2, <1>3

LEMMA EnvironmentTyped ==
  ASSUME TypeOK,
         \/ \E o \in Deletable : DeleteObligation(o)
         \/ \E s \in Sources : Publish(s)
         \/ \E c \in Critics : Reconfigure(c)
  PROVE  TypeOK'
<1>1. CASE \E o \in Deletable : DeleteObligation(o)
  <2>1. PICK o \in Deletable : DeleteObligation(o)
    BY <1>1
  <2>2. [registry[o] EXCEPT !.live = FALSE] \in ObligationRow
    <3>1. registry[o] \in ObligationRow
      BY ConstantsAssumption DEF TypeOK
    <3>2. QED
      BY <3>1 DEF ObligationRow
  <2>3. registry' \in [Obligations -> ObligationRow]
    <3> DEFINE row == [registry[o] EXCEPT !.live = FALSE]
    <3>1. registry' = [registry EXCEPT ![o].live = FALSE]
      BY <2>1 DEF DeleteObligation
    <3>2. registry' = [registry EXCEPT ![o] = row]
      BY <3>1 DEF TypeOK, ObligationRow
    <3>3. QED
      <4> HIDE DEF row
      <4>1. QED
        BY <2>2, <3>2 DEF TypeOK, row
  <2>4. QED
    BY <2>1, <2>3 DEF DeleteObligation, TypeOK, environment
<1>2. CASE \E s \in Sources : Publish(s)
  <2>1. PICK s \in Sources : Publish(s)
    BY <1>2
  <2>2. Candidate \in ObligationRow
    BY Labels DEF Candidate, ObligationRow
  <2>3. \A o \in Obligations : [registry[o] EXCEPT !.live = FALSE] \in ObligationRow
    BY DEF TypeOK, ObligationRow
  <2>4. registry' \in [Obligations -> ObligationRow]
    BY <2>1, <2>2, <2>3 DEF Publish
  <2>5. QED
    BY <2>1, <2>4 DEF Publish, TypeOK
<1>3. CASE \E c \in Critics : Reconfigure(c)
  BY <1>3 DEF Reconfigure, TypeOK, database
<1>4. QED
  BY <1>1, <1>2, <1>3

LEMMA VerifyTyped ==
  ASSUME TypeInv, NEW w \in Workers, Verify(w) PROVE TypeOK'
BY FindTyped, AdoptTyped, CreateTyped, AskTyped, LoadTyped, LockRouteTyped, CommitTyped,
   FailTyped, SealTyped
DEF TypeInv, Verify

LEMMA InHandStep ==
  ASSUME TypeInv, NEW w \in Workers, Start(w) \/ Verify(w) \/ LoopFails(w) \/ Crash(w)
  PROVE  InHand'
<1>0. worker[w] \in Locals /\ worker \in [Workers -> Locals]
  BY DEF TypeInv, TypeOK
<1>1. CASE Start(w)
  <2>1. worker'[w].pc = "find" /\ \A v \in Workers \ {w} : worker'[v] = worker[v]
    <3>1. PICK s \in Sources : worker' = [worker EXCEPT ![w] =
            [Idle EXCEPT !.pc = "find", !.critic = critic, !.source = s, !.todo = Live]]
      BY <1>1 DEF Start
    <3>2. [Idle EXCEPT !.pc = "find", !.critic = critic, !.source = s, !.todo = Live].pc = "find"
      BY DEF Idle
    <3>3. QED
      BY <1>0, <3>1, <3>2
  <2>2. QED
    BY <2>1 DEF InHand, TypeInv
<1>2. CASE FindResumable(w)
  BY <1>0, <1>2 DEF FindResumable, InHand, TypeInv, Locals
<1>3. CASE FindNone(w)
  BY <1>0, <1>3 DEF FindNone, InHand, TypeInv, Locals
<1>4. CASE AdoptRun(w)
  BY <1>0, <1>4 DEF AdoptRun, InHand, TypeInv, Locals
<1>5. CASE CreateRun(w)
  BY <1>0, <1>5 DEF CreateRun, InHand, TypeInv, Locals
<1>6. CASE AskCritic(w)
  BY <1>0, <1>6 DEF AskCritic, InHand, TypeInv, Locals
<1>7. CASE LoadObligation(w)
  <2>1. PICK o \in worker[w].batch :
          /\ worker'[w].current = o
          /\ worker'[w].run = worker[w].run
          /\ worker[w].pc = "ask"
          /\ \A v \in Workers \ {w} : worker'[v] = worker[v]
    BY <1>0, <1>7 DEF LoadObligation, Locals
  <2>2. QED
    BY <1>0, <2>1 DEF InHand, TypeInv, Locals
<1>8. CASE LockRun(w)
  BY <1>0, <1>8 DEF LockRun, InHand, TypeInv, Locals
<1>9. CASE RouteObligation(w)
  <2>1. /\ worker'[w].current = worker[w].current
        /\ worker'[w].run = worker[w].run
        /\ worker[w].pc = "route"
        /\ \A v \in Workers \ {w} : worker'[v] = worker[v]
    BY <1>0, <1>9 DEF RouteObligation, Locals
  <2>2. QED
    BY <2>1 DEF InHand, TypeInv
<1>10. CASE CommitVerdict(w)
  BY <1>0, <1>10 DEF CommitVerdict, InHand, TypeInv, Idle
<1>11. CASE ReadForPause(w)
  BY <1>0, <1>11 DEF ReadForPause, InHand, TypeInv, Idle
<1>12. CASE PauseRun(w) \/ RefuseSeal(w) \/ SealRun(w) \/ Crash(w)
  BY <1>0, <1>12 DEF PauseRun, RefuseSeal, SealRun, Crash, InHand, TypeInv, Idle
<1>13. CASE ReadForSeal(w)
  BY <1>0, <1>13 DEF ReadForSeal, FinishedLoop, InHand, TypeInv, Locals
<1>14. CASE LoopFails(w)
  BY <1>0, <1>14 DEF LoopFails, InHand, TypeInv, Locals
<1>15. QED
  BY <1>1, <1>2, <1>3, <1>4, <1>5, <1>6, <1>7, <1>8, <1>9, <1>10, <1>11, <1>12, <1>13, <1>14
  DEF Verify

LEMMA TypeStep == TypeInv /\ [Next]_vars => TypeInv'
<1> SUFFICES ASSUME TypeInv, [Next]_vars PROVE TypeInv'
  OBVIOUS
<1>1. CASE \E w \in Workers : Start(w) \/ Verify(w) \/ LoopFails(w) \/ Crash(w)
  <2>1. PICK w \in Workers : Start(w) \/ Verify(w) \/ LoopFails(w) \/ Crash(w)
    BY <1>1
  <2>2. TypeOK' /\ InHand'
    BY <2>1, StartTyped, VerifyTyped, FailTyped, InHandStep DEF TypeInv
  <2>3. desk' = desk
    BY <2>1 DEF Verify, Start, LoopFails, Crash, FindResumable, FindNone, AdoptRun, CreateRun,
       AskCritic, LoadObligation, LockRun, RouteObligation, CommitVerdict, ReadForPause,
       PauseRun, RefuseSeal, ReadForSeal, SealRun
  <2>4. QED
    BY <2>2, <2>3 DEF TypeInv, DeskInHand
<1>2. CASE \E v \in Reviewers :
             \/ OpenTask(v) \/ LoadReviewed(v) \/ AbandonDecision(v)
             \/ \E action \in ReviewActions : Decide(v, action)
  <2>1. worker' = worker
    BY <1>2 DEF OpenTask, LoadReviewed, AbandonDecision, Decide
  <2>2. QED
    BY <1>2, <2>1, ReviewTyped, DeskStep DEF TypeInv, InHand
<1>3. CASE \/ \E o \in Deletable : DeleteObligation(o)
           \/ \E s \in Sources : Publish(s)
           \/ \E c \in Critics : Reconfigure(c)
  <2>1. worker' = worker /\ desk' = desk
    BY <1>3 DEF DeleteObligation, Publish, Reconfigure
  <2>2. QED
    BY <1>3, <2>1, EnvironmentTyped DEF TypeInv, InHand, DeskInHand
<1>4. CASE UNCHANGED vars
  BY <1>4 DEF vars, database, environment, TypeInv, TypeOK, InHand, DeskInHand
<1>5. QED
  BY <1>1, <1>2, <1>3, <1>4 DEF Next

LEMMA TypeInvInit == Init => TypeInv
<1>1. Init => InHand /\ DeskInHand
  BY DEF Init, InHand, DeskInHand, Idle, Closed
<1>2. QED
  BY <1>1, InitTyped DEF TypeInv

LEMMA TypeInvHolds == Spec => []TypeInv
BY TypeInvInit, TypeStep, PTL DEF Spec

(* Every table and every local copy keeps the type its column or variable has,
   whatever the number of processes and the order of their transactions. *)
THEOREM TypeCorrect == Spec => []TypeOK
<1>1. TypeInv => TypeOK
  BY DEF TypeInv
<1>2. QED
  BY <1>1, TypeInvHolds, PTL
-----------------------------------------------------------------------------
(***************************************************************************)
(* What holds of the verification service under any number of concurrent   *)
(* operators and reviewers: checkpoints are backed by validation rows, an  *)
(* obligation has one open review task, and a run keeps its provenance.    *)
(***************************************************************************)
(* A step of one process leaves the locals of the others alone. *)
LEMMA OthersKeep ==
  ASSUME NEW w \in Workers, Start(w) \/ Verify(w) \/ LoopFails(w) \/ Crash(w),
         worker \in [Workers -> Locals]
  PROVE  \A v \in Workers \ {w} : worker'[v] = worker[v]
<1>1. CASE Start(w) \/ LoopFails(w) \/ Crash(w)
  BY <1>1 DEF Start, LoopFails, Crash
<1>2. CASE FindResumable(w) \/ FindNone(w) \/ AdoptRun(w) \/ CreateRun(w) \/ AskCritic(w)
  BY <1>2 DEF FindResumable, FindNone, AdoptRun, CreateRun, AskCritic
<1>3. CASE LoadObligation(w) \/ LockRun(w) \/ RouteObligation(w) \/ CommitVerdict(w)
  BY <1>3 DEF LoadObligation, LockRun, RouteObligation, CommitVerdict
<1>4. CASE ReadForPause(w) \/ PauseRun(w) \/ RefuseSeal(w) \/ ReadForSeal(w) \/ SealRun(w)
  BY <1>4 DEF ReadForPause, PauseRun, RefuseSeal, ReadForSeal, SealRun
<1>5. QED
  BY <1>1, <1>2, <1>3, <1>4 DEF Verify

(* What a process does in a step of the system. *)
LEMMA AnyStep ==
  ASSUME TypeInv, [Next]_vars, NEW v \in Workers
  PROVE  worker'[v] = worker[v] \/ Start(v) \/ Verify(v) \/ LoopFails(v) \/ Crash(v)
<1>1. CASE \E w \in Workers : Start(w) \/ Verify(w) \/ LoopFails(w) \/ Crash(w)
  BY <1>1, OthersKeep DEF TypeInv, TypeOK
<1>2. CASE ~\E w \in Workers : Start(w) \/ Verify(w) \/ LoopFails(w) \/ Crash(w)
  BY <1>2 DEF Next, vars, OpenTask, LoadReviewed, AbandonDecision, Decide, DeleteObligation, Publish, Reconfigure
<1>3. QED
  BY <1>1, <1>2

(* Only the two reads lead to the labels that write a checkpoint back. *)
LEMMA WorkerSteps ==
  ASSUME TypeInv, [Next]_vars, NEW v \in Workers
  PROVE  \/ worker'[v] = worker[v]
         \/ ReadForPause(v) \/ ReadForSeal(v)
         \/ worker'[v].pc \in {"find", "adopt", "create", "ask", "lock", "route", "commit",
                               "failed", "idle"}
<1>0. worker \in [Workers -> Locals] /\ worker[v] \in Locals
  BY DEF TypeInv, TypeOK
<1>1. CASE Start(v)
  <2>1. PICK s \in Sources : worker' = [worker EXCEPT ![v] =
          [Idle EXCEPT !.pc = "find", !.critic = critic, !.source = s, !.todo = Live]]
    BY <1>1 DEF Start
  <2>2. [Idle EXCEPT !.pc = "find", !.critic = critic, !.source = s, !.todo = Live].pc = "find"
    BY DEF Idle
  <2>3. QED
    BY <1>0, <2>1, <2>2
<1>2. CASE FindResumable(v)
  BY <1>0, <1>2 DEF FindResumable, Locals
<1>3. CASE FindNone(v)
  BY <1>0, <1>3 DEF FindNone, Locals
<1>4. CASE AdoptRun(v)
  BY <1>0, <1>4 DEF AdoptRun, Locals
<1>5. CASE CreateRun(v)
  BY <1>0, <1>5 DEF CreateRun, Locals
<1>6. CASE AskCritic(v)
  BY <1>0, <1>6 DEF AskCritic, Locals
<1>7. CASE LoadObligation(v)
  BY <1>0, <1>7 DEF LoadObligation, Locals
<1>8. CASE LockRun(v)
  BY <1>0, <1>8 DEF LockRun, Locals
<1>9. CASE RouteObligation(v)
  <2>1. worker'[v].pc \in {"commit", "failed"}
    BY <1>0, <1>9 DEF RouteObligation, Locals
  <2>2. QED
    BY <2>1
<1>10. CASE CommitVerdict(v)
  BY <1>0, <1>10 DEF CommitVerdict, Idle
<1>11. CASE LoopFails(v)
  BY <1>0, <1>11 DEF LoopFails, Locals
<1>12. CASE PauseRun(v) \/ RefuseSeal(v) \/ SealRun(v) \/ Crash(v)
  BY <1>0, <1>12 DEF PauseRun, RefuseSeal, SealRun, Crash, Idle
<1>13. QED
  BY <1>1, <1>2, <1>3, <1>4, <1>5, <1>6, <1>7, <1>8, <1>9, <1>10, <1>11, <1>12, AnyStep DEF Verify
(* Which steps write the validation rows, the runs and the review tasks. *)
WritesRuns(w) ==
  CommitVerdict(w) \/ PauseRun(w) \/ SealRun(w) \/ CreateRun(w) \/ AdoptRun(w)

LEMMA Frame ==
  ASSUME [Next]_vars
  PROVE  /\ validated' = validated \/ \E w \in Workers : CommitVerdict(w)
         /\ runs' = runs \/ \E w \in Workers : WritesRuns(w)
         /\ \/ pendingTasks' = pendingTasks
            \/ \E w \in Workers : CommitVerdict(w)
            \/ \E q \in Reviewers, action \in ReviewActions : Decide(q, action)
<1>1. CASE UNCHANGED database
  BY <1>1 DEF database
<1>2. CASE UNCHANGED vars
  BY <1>1, <1>2 DEF vars
<1>3. CASE \E w \in Workers : Verify(w)
  <2>1. PICK w \in Workers : Verify(w)
    BY <1>3
  <2>2. CASE WritesRuns(w)
    <3>1. CASE CommitVerdict(w)
      BY <3>1 DEF WritesRuns
    <3>2. CASE ~CommitVerdict(w)
      BY <2>2, <3>2 DEF WritesRuns, AdoptRun, CreateRun, PauseRun, SealRun
    <3>3. QED
      BY <3>1, <3>2
  <2>3. CASE FindResumable(w) \/ FindNone(w) \/ AskCritic(w) \/ LoadObligation(w)
    BY <1>1, <2>3 DEF FindResumable, FindNone, AskCritic, LoadObligation
  <2>4. CASE LockRun(w) \/ RouteObligation(w)
    BY <1>1, <2>4 DEF LockRun, RouteObligation
  <2>5. CASE ReadForPause(w) \/ RefuseSeal(w) \/ ReadForSeal(w)
    BY <1>1, <2>5 DEF ReadForPause, RefuseSeal, ReadForSeal
  <2>6. QED
    BY <2>1, <2>2, <2>3, <2>4, <2>5 DEF Verify, WritesRuns
<1>4. CASE \E w \in Workers : Start(w) \/ LoopFails(w) \/ Crash(w)
  BY <1>1, <1>4 DEF Start, LoopFails, Crash
<1>5. CASE \E q \in Reviewers : OpenTask(q) \/ LoadReviewed(q) \/ AbandonDecision(q)
  BY <1>1, <1>5 DEF OpenTask, LoadReviewed, AbandonDecision
<1>6. CASE \E q \in Reviewers, action \in ReviewActions : Decide(q, action)
  BY <1>6 DEF Decide
<1>7. CASE \/ \E o \in Deletable : DeleteObligation(o)
           \/ \E s \in Sources : Publish(s)
           \/ \E c \in Critics : Reconfigure(c)
  BY <1>1, <1>7 DEF DeleteObligation, Publish, Reconfigure
<1>8. QED
  BY <1>2, <1>3, <1>4, <1>5, <1>6, <1>7 DEF Next
-----------------------------------------------------------------------------
(* The checkpoint: what a process is about to write back is backed too. *)
SnapshotBacked ==
  \A w \in Workers : worker[w].pc \in {"pause", "seal"} =>
    worker[w].seen \subseteq ValidatedBy(worker[w].run)

CheckpointInv == TypeInv /\ CheckpointBacked /\ SnapshotBacked

(* Validation rows are only ever added. *)
LEMMA ValidatedGrows ==
  ASSUME TypeInv, [Next]_vars, NEW r \in MaybeRun, r \in RunIds
  PROVE  ValidatedBy(r) \subseteq ValidatedBy(r)'
<1>1. CASE \E w \in Workers : CommitVerdict(w)
  <2>1. PICK w \in Workers : CommitVerdict(w)
    BY <1>1
  <2>2. validated' = [validated EXCEPT ![worker[w].run][worker[w].current] = @ + 1]
    BY <2>1 DEF CommitVerdict
  <2>3. \A o \in Obligations : validated[r][o] > 0 => validated'[r][o] > 0
    BY <2>2 DEF TypeInv, TypeOK
  <2>4. QED
    BY <2>3 DEF ValidatedBy
<1>2. CASE ~\E w \in Workers : CommitVerdict(w)
  <2>1. validated' = validated
    BY <1>2, Frame
  <2>2. QED
    BY <2>1 DEF ValidatedBy
<1>3. QED
  BY <1>1, <1>2

(* A checkpoint changes in four actions; each writes a backed one. *)
LEMMA CheckpointStep ==
  ASSUME CheckpointInv, [Next]_vars, NEW r \in RunIds
  PROVE  runs'[r].completed \subseteq ValidatedBy(r)'
<1>0. /\ ValidatedBy(r) \subseteq ValidatedBy(r)'
      /\ runs[r].completed \subseteq ValidatedBy(r)
      /\ runs \in [RunIds -> RunRow] /\ worker \in [Workers -> Locals]
  BY ValidatedGrows, Labels DEF CheckpointInv, CheckpointBacked, TypeInv, TypeOK
<1>1. CASE \E w \in Workers : CommitVerdict(w)
  <2>1. PICK w \in Workers : CommitVerdict(w)
    BY <1>1
  <2>2. worker[w].run \in RunIds /\ worker[w].current \in Obligations
    BY <2>1 DEF CommitVerdict, CheckpointInv, TypeInv, InHand
  <2>3. CASE worker[w].run = r
    <3>0. runs' = [runs EXCEPT ![r].completed = Checkpointed(worker[w]),
                               ![r].tally[worker[w].route] = @ + 1]
      BY <2>1, <2>3 DEF CommitVerdict
    <3>1. runs'[r].completed = runs[r].completed \cup {worker[w].current}
      <4>1. runs'[r].completed = Checkpointed(worker[w])
        BY <1>0, <3>0 DEF RunRow
      <4>2. QED
        BY <2>3, <4>1 DEF Checkpointed
    <3>2. validated'[r][worker[w].current] > 0
      <4>1. validated' = [validated EXCEPT ![r][worker[w].current] = @ + 1]
        BY <2>1, <2>3 DEF CommitVerdict
      <4>2. QED
        BY <2>2, <4>1 DEF CheckpointInv, TypeInv, TypeOK
    <3>3. QED
      BY <1>0, <2>2, <3>1, <3>2 DEF ValidatedBy
  <2>4. CASE worker[w].run # r
    BY <1>0, <2>1, <2>2, <2>4 DEF CommitVerdict
  <2>5. QED
    BY <2>3, <2>4
<1>2. CASE \E w \in Workers : PauseRun(w) \/ SealRun(w)
  <2>1. PICK w \in Workers : PauseRun(w) \/ SealRun(w)
    BY <1>2
  <2>2. worker[w].run \in RunIds /\ worker[w].seen \subseteq ValidatedBy(worker[w].run)
    BY <2>1 DEF PauseRun, SealRun, CheckpointInv, TypeInv, InHand, SnapshotBacked
  <2>3. runs'[r].completed \in {runs[r].completed, worker[w].seen}
        /\ (worker[w].run # r => runs'[r] = runs[r])
    BY <1>0, <2>1, <2>2 DEF PauseRun, SealRun, PausedCheckpoint, RunRow
  <2>4. QED
    BY <1>0, <2>2, <2>3
<1>3. CASE \E w \in Workers : CreateRun(w)
  <2>1. runs'[r].completed \in {runs[r].completed, {}}
    BY <1>0, <1>3 DEF CreateRun, RunRow
  <2>2. QED
    BY <1>0, <2>1
<1>4. CASE \E w \in Workers : AdoptRun(w)
  <2>1. runs'[r].completed = runs[r].completed
    BY <1>0, <1>4 DEF AdoptRun, RunRow
  <2>2. QED
    BY <1>0, <2>1
<1>5. CASE ~\E w \in Workers :
              CommitVerdict(w) \/ PauseRun(w) \/ SealRun(w) \/ CreateRun(w) \/ AdoptRun(w)
  <2>1. runs' = runs
    BY <1>5, Frame DEF WritesRuns
  <2>2. QED
    BY <1>0, <2>1
<1>6. QED
  BY <1>1, <1>2, <1>3, <1>4, <1>5

(* A snapshot is taken from a run whose checkpoint is backed. *)
LEMMA SnapshotStep ==
  ASSUME CheckpointInv, [Next]_vars PROVE SnapshotBacked'
<1> SUFFICES ASSUME NEW v \in Workers, worker'[v].pc \in {"pause", "seal"}
             PROVE  \A o \in Obligations :
                      o \in worker'[v].seen => validated'[worker'[v].run][o] > 0
  <2>1. TypeInv'
    BY TypeStep DEF CheckpointInv
  <2>2. \A v \in Workers : worker'[v].seen \subseteq Obligations
    BY <2>1 DEF TypeInv, TypeOK, Locals
  <2>3. QED
    BY <2>2 DEF SnapshotBacked, ValidatedBy
<1>0. worker \in [Workers -> Locals] /\ worker[v] \in Locals
  BY DEF CheckpointInv, TypeInv, TypeOK
<1>1. ASSUME NEW r \in RunIds, NEW o \in Obligations, validated[r][o] > 0
      PROVE  validated'[r][o] > 0
  BY <1>1, ValidatedGrows, Labels DEF CheckpointInv, ValidatedBy
<1>2. CASE ReadForPause(v) \/ ReadForSeal(v)
  <2>1. worker[v].run \in RunIds
    BY <1>2 DEF ReadForPause, ReadForSeal, FinishedLoop, CheckpointInv, TypeInv, InHand
  <2>2. worker'[v].run = worker[v].run /\ worker'[v].seen = runs[worker[v].run].completed
    <3>1. CASE ReadForPause(v)
      BY <1>0, <3>1 DEF ReadForPause, Idle
    <3>2. CASE ReadForSeal(v)
      BY <1>0, <3>2 DEF ReadForSeal, Locals
    <3>3. QED
      BY <1>2, <3>1, <3>2
  <2>3. QED
    BY <1>1, <2>1, <2>2 DEF CheckpointInv, CheckpointBacked, ValidatedBy
<1>3. CASE worker'[v] = worker[v]
  BY <1>1, <1>3 DEF CheckpointInv, TypeInv, InHand, SnapshotBacked, ValidatedBy
<1>4. CASE worker'[v].pc \in {"find", "adopt", "create", "ask", "lock", "route", "commit",
                              "failed", "idle"}
  BY <1>4
<1>5. QED
  BY <1>2, <1>3, <1>4, WorkerSteps DEF CheckpointInv

(* A checkpoint never lists an obligation without validation rows of its run,
   so a resumed or sealed run has skipped no work: for any number of
   processes that verify, pause and seal the same run in any order. *)
THEOREM CheckpointIsBacked == Spec => []CheckpointBacked
<1>1. Init => CheckpointInv
  <2>1. Init => TypeInv
    BY TypeInvInit
  <2>2. Init => CheckpointBacked /\ SnapshotBacked
    BY DEF Init, CheckpointBacked, SnapshotBacked, Idle
  <2>3. QED
    BY <2>1, <2>2 DEF CheckpointInv
<1>2. CheckpointInv /\ [Next]_vars => CheckpointInv'
  <2> SUFFICES ASSUME CheckpointInv, [Next]_vars PROVE CheckpointInv'
    OBVIOUS
  <2>1. TypeInv'
    BY TypeStep DEF CheckpointInv
  <2>2. CheckpointBacked'
    BY CheckpointStep DEF CheckpointBacked
  <2>3. QED
    BY <2>1, <2>2, SnapshotStep DEF CheckpointInv
<1>3. CheckpointInv => CheckpointBacked
  BY DEF CheckpointInv
<1>4. QED
  BY <1>1, <1>2, <1>3, PTL DEF Spec
-----------------------------------------------------------------------------
(* The review queue: while a process holds the row of an obligation, what its
   look for a pending task found is still so. *)
LookIsCurrent ==
  \A w \in Workers, o \in Obligations :
    HoldsRow(w, o) => (worker[w].seenTask <=> pendingTasks[o] # {})

QueueInv == TypeInv /\ LookIsCurrent /\ OnePendingTask

(* Tasks change at a commit or a decision, and never under a holder. *)
LEMMA TasksUnderLock ==
  ASSUME TypeInv, [Next]_vars, NEW v \in Workers, NEW o \in Obligations, HoldsRow(v, o),
         ~CommitVerdict(v)
  PROVE  pendingTasks'[o] = pendingTasks[o]
<1>0. pendingTasks \in [Obligations -> SUBSET Tasks]
  BY DEF TypeInv, TypeOK
<1>1. CASE \E w \in Workers : CommitVerdict(w)
  <2>1. PICK w \in Workers : CommitVerdict(w)
    BY <1>1
  <2>2. worker[w].current # o
    BY <2>1 DEF CommitVerdict, RowFree
  <2>3. QED
    BY <1>0, <2>1, <2>2 DEF CommitVerdict
<1>2. CASE \E q \in Reviewers, action \in ReviewActions : Decide(q, action)
  <2>1. PICK q \in Reviewers, action \in ReviewActions : Decide(q, action)
    BY <1>2
  <2>2. desk[q].obligation # o
    BY <2>1 DEF Decide, Unlocked
  <2>3. QED
    BY <1>0, <2>1, <2>2 DEF Decide
<1>3. CASE /\ ~\E w \in Workers : CommitVerdict(w)
           /\ ~\E q \in Reviewers, action \in ReviewActions : Decide(q, action)
  <2>1. pendingTasks' = pendingTasks
    BY <1>3, Frame
  <2>2. QED
    BY <2>1
<1>4. QED
  BY <1>1, <1>2, <1>3

(* A process comes to hold a row only by the look that counts the tasks. *)
LEMMA HolderSteps ==
  ASSUME TypeInv, [Next]_vars, NEW v \in Workers, worker'[v].pc = "commit"
  PROVE  worker'[v] = worker[v] \/ RouteObligation(v)
<1>0. worker \in [Workers -> Locals] /\ worker[v] \in Locals
  BY DEF TypeInv, TypeOK
<1>1. CASE Start(v)
  <2>1. PICK s \in Sources : worker' = [worker EXCEPT ![v] =
          [Idle EXCEPT !.pc = "find", !.critic = critic, !.source = s, !.todo = Live]]
    BY <1>1 DEF Start
  <2>2. [Idle EXCEPT !.pc = "find", !.critic = critic, !.source = s, !.todo = Live].pc = "find"
    BY DEF Idle
  <2>3. QED
    BY <1>0, <2>1, <2>2
<1>2. CASE FindResumable(v)
  BY <1>0, <1>2 DEF FindResumable, Locals
<1>3. CASE FindNone(v)
  BY <1>0, <1>3 DEF FindNone, Locals
<1>4. CASE AdoptRun(v)
  BY <1>0, <1>4 DEF AdoptRun, Locals
<1>5. CASE CreateRun(v)
  BY <1>0, <1>5 DEF CreateRun, Locals
<1>6. CASE AskCritic(v)
  BY <1>0, <1>6 DEF AskCritic, Locals
<1>7. CASE LoadObligation(v)
  BY <1>0, <1>7 DEF LoadObligation, Locals
<1>8. CASE LockRun(v) \/ LoopFails(v)
  BY <1>0, <1>8 DEF LockRun, LoopFails, Locals
<1>9. CASE CommitVerdict(v)
  BY <1>0, <1>9 DEF CommitVerdict, Idle
<1>10. CASE ReadForPause(v)
  BY <1>0, <1>10 DEF ReadForPause, Idle
<1>11. CASE ReadForSeal(v)
  BY <1>0, <1>11 DEF ReadForSeal, Locals
<1>12. CASE PauseRun(v) \/ RefuseSeal(v) \/ SealRun(v) \/ Crash(v)
  BY <1>0, <1>12 DEF PauseRun, RefuseSeal, SealRun, Crash, Idle
<1>13. QED
  BY <1>1, <1>2, <1>3, <1>4, <1>5, <1>6, <1>7, <1>8, <1>9, <1>10, <1>11, <1>12, AnyStep
  DEF Verify

LEMMA LookStep ==
  ASSUME QueueInv, [Next]_vars PROVE LookIsCurrent'
<1> SUFFICES ASSUME NEW v \in Workers, NEW o \in Obligations, HoldsRow(v, o)'
             PROVE  worker'[v].seenTask <=> pendingTasks'[o] # {}
  BY DEF LookIsCurrent
<1>0. worker \in [Workers -> Locals] /\ worker[v] \in Locals
  BY DEF QueueInv, TypeInv, TypeOK
<1>1. CASE RouteObligation(v)
  <2>1. worker[v].route # "AUTO_REGISTER" /\ worker[v].current = o
    BY <1>0, <1>1 DEF RouteObligation, HoldsRow, Locals
  <2>2. worker'[v].seenTask = (pendingTasks[o] # {})
    BY <1>0, <1>1, <2>1 DEF RouteObligation, Locals
  <2>3. QED
    BY <1>1, <2>2 DEF RouteObligation, database
<1>2. CASE worker'[v] = worker[v]
  <2>1. HoldsRow(v, o)
    BY <1>2 DEF HoldsRow
  <2>2. ~CommitVerdict(v)
    <3>1. SUFFICES ASSUME CommitVerdict(v) PROVE FALSE
      OBVIOUS
    <3>2. worker'[v].pc = "ask"
      BY <1>0, <3>1 DEF CommitVerdict, Idle
    <3>3. QED
      BY <1>2, <2>1, <3>2 DEF HoldsRow
  <2>3. QED
    BY <1>2, <2>1, <2>2, TasksUnderLock DEF QueueInv, LookIsCurrent
<1>3. QED
  BY <1>1, <1>2, HolderSteps DEF HoldsRow, QueueInv

(* A commit inserts a task only where there is none; a decision removes one. *)
LEMMA UniqueStep ==
  ASSUME QueueInv, [Next]_vars, NEW o \in Obligations
  PROVE  \A t, u \in pendingTasks'[o] : t = u
<1>0. pendingTasks \in [Obligations -> SUBSET Tasks] /\ \A t, u \in pendingTasks[o] : t = u
  BY DEF QueueInv, TypeInv, TypeOK, OnePendingTask, Ambiguous
<1>1. CASE \E w \in Workers : CommitVerdict(w)
  <2>1. PICK w \in Workers : CommitVerdict(w)
    BY <1>1
  <2> DEFINE me == worker[w]
             task == <<me.run, validated[me.run][me.current] + 1>>
  <2>2. pendingTasks' = [pendingTasks EXCEPT ![me.current] =
          IF InsertsTask(me) THEN @ \cup {task} ELSE @]
    BY <2>1 DEF CommitVerdict
  <2>3. CASE me.current = o /\ InsertsTask(me)
    <3>1. HoldsRow(w, o) /\ ~me.seenTask
      BY <2>1, <2>3 DEF CommitVerdict, HoldsRow, InsertsTask
    <3>2. pendingTasks[o] = {}
      BY <3>1 DEF QueueInv, LookIsCurrent
    <3>3. pendingTasks'[o] = {task}
      BY <1>0, <2>2, <2>3, <3>2
    <3>4. QED
      BY <3>3
  <2>4. CASE ~(me.current = o /\ InsertsTask(me))
    <3>1. pendingTasks'[o] = pendingTasks[o]
      BY <1>0, <2>2, <2>4
    <3>2. QED
      BY <1>0, <3>1
  <2>5. QED
    BY <2>3, <2>4
<1>2. CASE \E q \in Reviewers, action \in ReviewActions : Decide(q, action)
  <2>1. pendingTasks'[o] \subseteq pendingTasks[o]
    BY <1>0, <1>2 DEF Decide
  <2>2. QED
    BY <1>0, <2>1
<1>3. CASE /\ ~\E w \in Workers : CommitVerdict(w)
           /\ ~\E q \in Reviewers, action \in ReviewActions : Decide(q, action)
  <2>1. pendingTasks' = pendingTasks
    BY <1>3, Frame
  <2>2. QED
    BY <1>0, <2>1
<1>4. QED
  BY <1>1, <1>2, <1>3

(* However many operators persist verdicts while reviewers decide, an
   obligation never has two pending review tasks, so the look for one in
   _persist_outcome never raises. *)
THEOREM PendingTaskIsUnique == Spec => []OnePendingTask
<1>1. Init => QueueInv
  <2>1. Init => LookIsCurrent /\ OnePendingTask
    BY DEF Init, LookIsCurrent, HoldsRow, Idle, OnePendingTask, Ambiguous
  <2>2. QED
    BY <2>1, TypeInvInit DEF QueueInv
<1>2. QueueInv /\ [Next]_vars => QueueInv'
  <2> SUFFICES ASSUME QueueInv, [Next]_vars PROVE QueueInv'
    OBVIOUS
  <2>1. OnePendingTask'
    BY UniqueStep DEF OnePendingTask, Ambiguous
  <2>2. QED
    BY <2>1, TypeStep, LookStep DEF QueueInv
<1>3. QueueInv => OnePendingTask
  BY DEF QueueInv
<1>4. QED
  BY <1>1, <1>2, <1>3, PTL DEF Spec
-----------------------------------------------------------------------------
(* Provenance: a run that a process works for exists and is not replaced. *)
ProvenanceInv ==
  TypeInv /\ \A w \in Workers : worker[w].run # 0 =>
    /\ runs[worker[w].run].status # "none"
    /\ runs[worker[w].run].source = worker[w].source
    /\ runs[worker[w].run].critic = worker[w].critic

(* The rows of existing runs keep their source and critic. *)
LEMMA RowsKeep ==
  ASSUME TypeInv, [Next]_vars, NEW r \in RunIds, runs[r].status # "none"
  PROVE  /\ runs'[r].status # "none"
         /\ runs'[r].source = runs[r].source /\ runs'[r].critic = runs[r].critic
<1>0. runs \in [RunIds -> RunRow] /\ runs[r] \in RunRow
  BY DEF TypeInv, TypeOK
<1>1. CASE \E w \in Workers : CreateRun(w)
  <2>1. PICK q \in RunIds : NextRow(q) /\ \E row : runs' = [runs EXCEPT ![q] = row]
    BY <1>1 DEF CreateRun
  <2>2. q # r
    BY <2>1 DEF NextRow
  <2>3. QED
    BY <1>0, <2>1, <2>2
<1>2. CASE \E w \in Workers : AdoptRun(w)
  <2>1. PICK q, s : runs' = [runs EXCEPT ![q].status = s] /\ (q = r => s # "none")
    <3>1. PICK w \in Workers : AdoptRun(w)
      BY <1>2
    <3>2. runs' = [runs EXCEPT ![worker[w].run].status =
                     Written(worker[w].seenStatus, "RUNNING", @)]
      BY <3>1 DEF AdoptRun
    <3>3. worker[w].run = r => Written(worker[w].seenStatus, "RUNNING", runs[r].status) # "none"
      BY DEF Written
    <3>4. QED
      BY <3>2, <3>3
  <2>2. QED
    BY <1>0, <2>1 DEF RunRow
<1>3. CASE \E w \in Workers : CommitVerdict(w)
  <2>1. PICK w \in Workers : CommitVerdict(w)
    BY <1>3
  <2>2. runs' = [runs EXCEPT ![worker[w].run].completed = Checkpointed(worker[w]),
                             ![worker[w].run].tally[worker[w].route] = @ + 1]
    BY <2>1 DEF CommitVerdict
  <2>3. CASE worker[w].run = r
    <3>1. /\ runs'[r].status = runs[r].status
          /\ runs'[r].source = runs[r].source /\ runs'[r].critic = runs[r].critic
      BY <1>0, <2>2, <2>3 DEF RunRow
    <3>2. QED
      BY <3>1
  <2>4. CASE worker[w].run # r
    BY <1>0, <2>2, <2>4
  <2>5. QED
    BY <2>3, <2>4
<1>4. CASE \E w \in Workers : PauseRun(w) \/ SealRun(w)
  <2>1. PICK w \in Workers : PauseRun(w) \/ SealRun(w)
    BY <1>4
  <2>2. ASSUME NEW s \in {"PAUSED", "COMPLETED"}, NEW done,
               runs' = [runs EXCEPT ![worker[w].run].status = Written(worker[w].seenStatus, s, @),
                                    ![worker[w].run].completed = done]
        PROVE  /\ runs'[r].status # "none"
               /\ runs'[r].source = runs[r].source /\ runs'[r].critic = runs[r].critic
    <3>1. worker[w].run = r => Written(worker[w].seenStatus, s, runs[r].status) # "none"
      BY DEF Written
    <3>2. QED
      BY <1>0, <2>2, <3>1 DEF RunRow
  <2>3. CASE PauseRun(w)
    <3>1. runs' = [runs EXCEPT ![worker[w].run].status = Written(worker[w].seenStatus, "PAUSED", @),
                               ![worker[w].run].completed = PausedCheckpoint(worker[w])]
      BY <2>3 DEF PauseRun, StatusOnFailure
    <3>2. QED
      BY <2>2, <3>1
  <2>4. CASE SealRun(w)
    <3>1. runs' = [runs EXCEPT ![worker[w].run].status = Written(worker[w].seenStatus, "COMPLETED", @),
                               ![worker[w].run].completed = worker[w].seen]
      BY <2>4 DEF SealRun
    <3>2. QED
      BY <2>2, <3>1
  <2>5. QED
    BY <2>1, <2>3, <2>4
<1>5. CASE ~\E w \in Workers :
              CommitVerdict(w) \/ PauseRun(w) \/ SealRun(w) \/ CreateRun(w) \/ AdoptRun(w)
  <2>1. runs' = runs
    BY <1>5, Frame DEF WritesRuns
  <2>2. QED
    BY <2>1
<1>6. QED
  BY <1>1, <1>2, <1>3, <1>4, <1>5

(* A step keeps the provenance of a process, releases its run, or takes one
   of the process's own provenance. *)
LEMMA LocalsKeep ==
  ASSUME TypeInv, [Next]_vars, NEW v \in Workers
  PROVE  \/ /\ worker'[v].run = worker[v].run
            /\ worker'[v].source = worker[v].source /\ worker'[v].critic = worker[v].critic
         \/ worker'[v].run = 0
         \/ FindResumable(v) \/ CreateRun(v)
<1>0. worker \in [Workers -> Locals] /\ worker[v] \in Locals
  BY DEF TypeInv, TypeOK
<1>1. CASE Start(v)
  <2>1. PICK s \in Sources : worker' = [worker EXCEPT ![v] =
          [Idle EXCEPT !.pc = "find", !.critic = critic, !.source = s, !.todo = Live]]
    BY <1>1 DEF Start
  <2>2. [Idle EXCEPT !.pc = "find", !.critic = critic, !.source = s, !.todo = Live].run = 0
    BY DEF Idle
  <2>3. QED
    BY <1>0, <2>1, <2>2
<1>2. CASE FindNone(v) \/ LockRun(v) \/ LoopFails(v)
  BY <1>0, <1>2 DEF FindNone, LockRun, LoopFails, Locals
<1>3. CASE AdoptRun(v)
  BY <1>0, <1>3 DEF AdoptRun, Locals
<1>4. CASE AskCritic(v)
  BY <1>0, <1>4 DEF AskCritic, Locals
<1>5. CASE LoadObligation(v)
  BY <1>0, <1>5 DEF LoadObligation, Locals
<1>6. CASE RouteObligation(v)
  BY <1>0, <1>6 DEF RouteObligation, Locals
<1>7. CASE CommitVerdict(v)
  BY <1>0, <1>7 DEF CommitVerdict, Idle
<1>8. CASE ReadForPause(v)
  BY <1>0, <1>8 DEF ReadForPause, Idle
<1>9. CASE ReadForSeal(v)
  BY <1>0, <1>9 DEF ReadForSeal, Locals
<1>10. CASE PauseRun(v) \/ RefuseSeal(v) \/ SealRun(v) \/ Crash(v)
  BY <1>0, <1>10 DEF PauseRun, RefuseSeal, SealRun, Crash, Idle
<1>11. QED
  BY <1>1, <1>2, <1>3, <1>4, <1>5, <1>6, <1>7, <1>8, <1>9, <1>10, AnyStep DEF Verify

LEMMA ProvenanceStep == ProvenanceInv /\ [Next]_vars => ProvenanceInv'
<1> SUFFICES ASSUME ProvenanceInv, [Next]_vars PROVE ProvenanceInv'
  OBVIOUS
<1>0. /\ worker \in [Workers -> Locals] /\ runs \in [RunIds -> RunRow]
      /\ \A w \in Workers : worker[w].run \in RunIds \cup {0}
  BY DEF ProvenanceInv, TypeInv, TypeOK, Locals, RunIds, MaybeRun
<1>1. TypeInv'
  BY TypeStep DEF ProvenanceInv
<1>2. ASSUME NEW v \in Workers, worker'[v].run # 0
      PROVE  /\ runs'[worker'[v].run].status # "none"
             /\ runs'[worker'[v].run].source = worker'[v].source
             /\ runs'[worker'[v].run].critic = worker'[v].critic
  <2>1. CASE /\ worker'[v].run = worker[v].run
             /\ worker'[v].source = worker[v].source /\ worker'[v].critic = worker[v].critic
    BY <1>0, <1>2, <2>1, RowsKeep DEF ProvenanceInv
  <2>2. CASE FindResumable(v)
    <3>1. PICK r \in RunIds :
            /\ r \in OpenRuns /\ SameProvenance(r, worker[v])
            /\ worker' = [worker EXCEPT ![v] =
                 [worker[v] EXCEPT !.pc = "adopt", !.run = r, !.seen = runs[r].completed,
                                   !.seenStatus = runs[r].status]]
      BY <2>2 DEF FindResumable, IsNewestOpen
    <3>2. /\ worker'[v].run = r
          /\ worker'[v].source = worker[v].source /\ worker'[v].critic = worker[v].critic
      BY <1>0, <3>1 DEF Locals
    <3>3. runs' = runs
      BY <2>2 DEF FindResumable, database
    <3>4. QED
      BY <3>1, <3>2, <3>3 DEF OpenRuns, SameProvenance
  <2>3. CASE CreateRun(v)
    <3>1. PICK r \in RunIds :
            /\ runs' = [runs EXCEPT ![r] =
                 [status |-> "RUNNING", source |-> worker[v].source,
                  critic |-> worker[v].critic,
                  completed |-> {}, tally |-> [t \in Routes |-> 0]]]
            /\ worker' = [worker EXCEPT ![v] = [worker[v] EXCEPT !.pc = "ask", !.run = r]]
      BY <2>3 DEF CreateRun
    <3>2. /\ worker'[v].run = r
          /\ worker'[v].source = worker[v].source /\ worker'[v].critic = worker[v].critic
      BY <1>0, <3>1 DEF Locals
    <3>3. QED
      BY <1>0, <3>1, <3>2
  <2>4. QED
    BY <1>2, <2>1, <2>2, <2>3, LocalsKeep DEF ProvenanceInv
<1>3. QED
  BY <1>1, <1>2 DEF ProvenanceInv

(* No process ever verifies under a run of another extraction run or another
   critic, whatever is reconfigured, republished or resumed meanwhile. *)
THEOREM ProvenanceIsKept == Spec => []RunKeepsProvenance
<1>1. Init => ProvenanceInv
  <2>1. Init => TypeInv
    BY TypeInvInit
  <2>2. QED
    BY <2>1 DEF Init, ProvenanceInv, Idle
<1>2. ProvenanceInv => RunKeepsProvenance
  BY DEF ProvenanceInv, RunKeepsProvenance
<1>3. QED
  BY <1>1, <1>2, ProvenanceStep, PTL DEF Spec
-----------------------------------------------------------------------------
(***************************************************************************)
(* What holds of the verification service when one operator runs it,       *)
(* however often the script dies, pauses and is started again, and         *)
(* whatever reviewers, deletions, publications and critics do meanwhile:   *)
(* an obligation is verified once, checkpoints only grow, a sealed run is  *)
(* final and covers its registry.                                          *)
(***************************************************************************)
Open == {"RUNNING", "PAUSED"}
Working == {"adopt", "ask", "lock", "route", "commit", "failed", "pause", "seal"}

(* Nothing that is still to be verified is verified, or twice in hand. *)
Unverified(me, rs) ==
  /\ me.todo \cap me.batch = {}
  /\ (me.todo \cup me.batch) \cap rs[me.run].completed = {}
  /\ me.pc \in {"lock", "route", "commit"} =>
       me.current \notin me.todo \cup me.batch \cup rs[me.run].completed

(* The run of the process is open, and what it has read of it is current. *)
Hand(me, rs) ==
  /\ me.pc \in Working => rs[me.run].status \in Open
  /\ me.pc \in {"adopt", "pause", "seal"} =>
       me.seen = rs[me.run].completed /\ me.seenStatus = rs[me.run].status
  /\ me.pc \in {"find", "create", "adopt"} => me.batch = {}
  /\ me.pc \in {"ask", "lock", "route", "commit"} => Unverified(me, rs)
HandInv == \A w \in Workers : Hand(worker[w], runs)

(* A checkpoint, the validation rows and the counters of a run agree. *)
Agrees(row, rows) ==
  /\ IsFiniteSet(row.completed) /\ Total(row) = Cardinality(row.completed)
  /\ \A o \in Obligations : rows[o] = IF o \in row.completed THEN 1 ELSE 0
  /\ row.status = "none" => row.completed = {}
Accounts == \A r \in RunIds : Agrees(runs[r], validated[r])

ResumeInv == TypeInv /\ HandInv /\ Accounts

(* What a step does to the runs that are there. *)
Kept ==
  \A r \in RunIds : /\ runs[r].completed \subseteq runs'[r].completed
                    /\ runs[r].status = "COMPLETED" => runs'[r] = runs[r]
SealsNone == \A r \in RunIds : runs'[r].status = "COMPLETED" => runs[r].status = "COMPLETED"

LEMMA InitResume == Init => ResumeInv
<1> SUFFICES ASSUME Init PROVE HandInv /\ Accounts BY TypeInvInit DEF ResumeInv
<1>1. HandInv BY DEF Init, HandInv, Hand, Idle, Working
<1>2. ASSUME NEW r \in RunIds PROVE Agrees(runs[r], validated[r])
  <2>1. /\ runs[r].status = "none" /\ runs[r].completed = {}
        /\ runs[r].tally = [t \in Routes |-> 0] /\ validated[r] = [o \in Obligations |-> 0]
    BY DEF Init
  <2>2. IsFiniteSet({}) /\ Cardinality({}) = 0 BY FS_EmptySet
  <2> QED BY <2>1, <2>2 DEF Agrees, Total, Routes
<1> QED BY <1>1, <1>2 DEF Accounts

(* The only process holds what it is given. *)
LEMMA Alone ==
  ASSUME NEW w, Workers = {w}, TypeInv, NEW next, worker' = [worker EXCEPT ![w] = next],
         NEW rs, runs' = rs, Hand(next, rs)
  PROVE  HandInv'
<1>1. worker'[w] = next BY DEF TypeInv, TypeOK
<1>2. \A v \in Workers : worker'[v] = next BY <1>1
<1> QED BY <1>2 DEF HandInv, Hand, Unverified

LEMMA IdleHolds == ASSUME NEW rs PROVE Hand(Idle, rs)
BY DEF Hand, Idle, Working

LEMMA RunsStand ==
  ASSUME Accounts, runs' = runs, validated' = validated PROVE Accounts' /\ Kept /\ SealsNone
BY DEF Accounts, Agrees, Total, Kept, SealsNone

(* A write to one row, which is not sealed. *)
LEMMA RowWritten ==
  ASSUME TypeInv, Accounts, NEW r \in RunIds, runs[r].status # "COMPLETED", NEW row, NEW rows,
         Agrees(row, rows), runs[r].completed \subseteq row.completed,
         runs' = [runs EXCEPT ![r] = row], validated' = [validated EXCEPT ![r] = rows]
  PROVE  Accounts' /\ Kept /\ (row.status # "COMPLETED" => SealsNone)
<1>1. /\ runs'[r] = row /\ \A q \in RunIds : q # r => runs'[q] = runs[q]
      /\ validated'[r] = rows /\ \A q \in RunIds : q # r => validated'[q] = validated[q]
  BY DEF TypeInv, TypeOK
<1>2. ASSUME NEW q \in RunIds PROVE Agrees(runs'[q], validated'[q])
  <2>1. CASE q = r BY <1>1, <2>1
  <2>2. CASE q # r BY <1>1, <2>2 DEF Accounts
  <2> QED BY <2>1, <2>2
<1>3. Accounts' BY <1>2 DEF Accounts, Agrees, Total
<1>4. Kept BY <1>1 DEF Kept
<1>5. row.status # "COMPLETED" => SealsNone BY <1>1 DEF SealsNone
<1> QED BY <1>3, <1>4, <1>5

(* A row whose checkpoint and counters stay. *)
LEMMA StatusWritten ==
  ASSUME TypeInv, Accounts, NEW r \in RunIds, runs[r].status \in Open, NEW row,
         row.completed = runs[r].completed, row.tally = runs[r].tally,
         row.status \in Open \cup {"COMPLETED"},
         runs' = [runs EXCEPT ![r] = row], validated' = validated
  PROVE  Accounts' /\ Kept /\ (row.status # "COMPLETED" => SealsNone)
<1>1. validated' = [validated EXCEPT ![r] = validated[r]] BY DEF TypeInv, TypeOK
<1>2. Agrees(row, validated[r]) BY DEF Accounts, Agrees, Total, Open
<1>3. runs[r].status # "COMPLETED" /\ runs[r].completed \subseteq row.completed BY DEF Open
<1> QED BY <1>1, <1>2, <1>3, RowWritten
-----------------------------------------------------------------------------
LEMMA SoleTypes ==
  ASSUME NEW w, Workers = {w}, ResumeInv
  PROVE  /\ TypeInv /\ Accounts /\ Hand(worker[w], runs) /\ worker[w] \in Locals
         /\ runs \in [RunIds -> RunRow] /\ validated \in [RunIds -> [Obligations -> Nat]]
         /\ worker[w].pc \in Working => worker[w].run \in RunIds /\ runs[worker[w].run] \in RunRow
         /\ worker[w].pc \in {"lock", "route", "commit"} => worker[w].current \in Obligations
         /\ worker[w].todo \subseteq Obligations /\ worker[w].batch \subseteq Obligations
<1>1. worker[w] \in Locals BY DEF ResumeInv, TypeInv, TypeOK
<1>2. worker[w].pc \in Working => worker[w].run \in RunIds
  BY DEF ResumeInv, TypeInv, InHand, Working
<1>3. worker[w].todo \subseteq Obligations /\ worker[w].batch \subseteq Obligations
  BY <1>1 DEF Locals
<1> QED BY <1>1, <1>2, <1>3 DEF ResumeInv, HandInv, TypeInv, TypeOK, InHand

LEMMA StartResumes ==
  ASSUME NEW w, Workers = {w}, ResumeInv, Start(w) PROVE HandInv' /\ Accounts' /\ Kept /\ SealsNone
<1>1. PICK s : worker' = [worker EXCEPT ![w] =
        [Idle EXCEPT !.pc = "find", !.critic = critic, !.source = s, !.todo = Live]]
  BY DEF Start
<1> DEFINE next == [Idle EXCEPT !.pc = "find", !.critic = critic, !.source = s, !.todo = Live]
<1>2. worker' = [worker EXCEPT ![w] = next] /\ runs' = runs /\ validated' = validated
  BY <1>1 DEF Start, database
<1>3. next.pc = "find" /\ next.batch = {} BY DEF Idle
<1> HIDE DEF next
<1>4. Hand(next, runs) BY <1>3 DEF Hand, Working
<1> QED BY <1>2, <1>4, Alone, RunsStand DEF ResumeInv

LEMMA FindResumes ==
  ASSUME NEW w, Workers = {w}, ResumeInv, FindResumable(w) \/ FindNone(w)
  PROVE  HandInv' /\ Accounts' /\ Kept /\ SealsNone
<1> DEFINE me == worker[w]
<1>0. /\ Accounts /\ Hand(me, runs) /\ me \in Locals /\ me.pc = "find" /\ TypeInv
      /\ runs' = runs /\ validated' = validated
  BY SoleTypes DEF FindResumable, FindNone, database
<1>1. me.batch = {} BY <1>0 DEF Hand
<1>2. CASE FindResumable(w)
  <2>1. PICK r \in RunIds : /\ IsNewestOpen(r)
          /\ worker' = [worker EXCEPT ![w] =
               [me EXCEPT !.pc = "adopt", !.run = r, !.seen = runs[r].completed,
                          !.seenStatus = runs[r].status]]
    BY <1>2 DEF FindResumable
  <2> DEFINE completed == runs[r].completed
             status == runs[r].status
             next == [me EXCEPT !.pc = "adopt", !.run = r, !.seen = completed,
                                !.seenStatus = status]
  <2>2. worker' = [worker EXCEPT ![w] = next] BY <2>1
  <2>3. status \in Open BY <2>1 DEF IsNewestOpen, OpenRuns, Open
  <2>4. /\ next.pc = "adopt" /\ next.run = r /\ next.seen = completed
        /\ next.seenStatus = status /\ next.batch = {}
    <3> HIDE DEF completed, status
    <3> QED BY <1>0, <1>1 DEF Locals
  <2> HIDE DEF next
  <2>5. Hand(next, runs) BY <2>3, <2>4 DEF Hand, Working
  <2> QED BY <1>0, <2>2, <2>5, Alone, RunsStand
<1>3. CASE FindNone(w)
  <2> DEFINE next == [me EXCEPT !.pc = "create"]
  <2>1. worker' = [worker EXCEPT ![w] = next] BY <1>0, <1>3 DEF FindNone, TypeInv, TypeOK
  <2>2. next.pc = "create" /\ next.batch = {} BY <1>0, <1>1 DEF Locals
  <2> HIDE DEF next
  <2>3. Hand(next, runs) BY <2>2 DEF Hand, Working
  <2> QED BY <1>0, <2>1, <2>3, Alone, RunsStand
<1> QED BY <1>2, <1>3

LEMMA AdoptResumes ==
  ASSUME NEW w, Workers = {w}, ResumeInv, AdoptRun(w)
  PROVE  HandInv' /\ Accounts' /\ Kept /\ SealsNone
<1> DEFINE me == worker[w]
           status == Written(me.seenStatus, "RUNNING", runs[me.run].status)
           row == [runs[me.run] EXCEPT !.status = status]
           todo == Remaining(me)
           next == [me EXCEPT !.pc = "ask", !.todo = todo, !.seen = {}, !.seenStatus = "none"]
<1>0. /\ TypeInv /\ Accounts /\ Hand(me, runs) /\ me \in Locals /\ me.pc = "adopt"
      /\ me.run \in RunIds /\ runs[me.run] \in RunRow
  BY SoleTypes DEF AdoptRun, Working
<1>1. /\ runs[me.run].status \in Open /\ me.seen = runs[me.run].completed
      /\ me.batch = {}
  BY <1>0 DEF Hand, Working
<1>2. status \in Open BY <1>1 DEF Written, Open
<1>3. /\ runs' = [runs EXCEPT ![me.run] = row] /\ validated' = validated
      /\ worker' = [worker EXCEPT ![w] = next]
  BY DEF AdoptRun
<1>4. todo \cap runs[me.run].completed = {} BY <1>1 DEF Remaining
<1> HIDE DEF status, todo
<1>5. /\ row.status = status /\ row.completed = runs[me.run].completed
      /\ row.tally = runs[me.run].tally
  BY <1>0 DEF RunRow
<1> HIDE DEF row
<1>6. next.pc = "ask" /\ next.todo = todo /\ next.batch = {} /\ next.run = me.run
  BY <1>0, <1>1 DEF Locals
<1> HIDE DEF next
<1>7. runs'[me.run] = row BY <1>0, <1>3 DEF TypeInv, TypeOK
<1>8. Hand(next, runs') BY <1>2, <1>4, <1>5, <1>6, <1>7 DEF Hand, Working, Unverified
<1>9. HandInv' BY <1>0, <1>3, <1>8, Alone
<1>10. Accounts' /\ Kept /\ SealsNone BY <1>0, <1>1, <1>2, <1>3, <1>5, StatusWritten DEF Open
<1> QED BY <1>9, <1>10

LEMMA CreateResumes ==
  ASSUME NEW w, Workers = {w}, ResumeInv, CreateRun(w)
  PROVE  HandInv' /\ Accounts' /\ Kept /\ SealsNone
<1> DEFINE me == worker[w]
<1>0. /\ TypeInv /\ Accounts /\ Hand(me, runs) /\ me \in Locals /\ me.pc = "create"
      /\ validated \in [RunIds -> [Obligations -> Nat]]
  BY SoleTypes DEF CreateRun
<1> DEFINE row == [status |-> "RUNNING", source |-> me.source, critic |-> me.critic,
                   completed |-> {}, tally |-> [t \in Routes |-> 0]]
<1>1. PICK r \in RunIds : /\ NextRow(r) /\ runs' = [runs EXCEPT ![r] = row]
                          /\ worker' = [worker EXCEPT ![w] = [me EXCEPT !.pc = "ask", !.run = r]]
  BY DEF CreateRun
<1> DEFINE next == [me EXCEPT !.pc = "ask", !.run = r]
<1>2. me.batch = {} BY <1>0 DEF Hand
<1>3. row.status = "RUNNING" /\ row.completed = {} /\ Total(row) = 0 BY DEF Total, Routes
<1> HIDE DEF row
<1>4. next.pc = "ask" /\ next.batch = {} /\ next.run = r BY <1>0, <1>2 DEF Locals
<1>5. worker' = [worker EXCEPT ![w] = next] BY <1>1
<1> HIDE DEF next
<1>6. runs'[r] = row BY <1>0, <1>1 DEF TypeInv, TypeOK
<1>7. Hand(next, runs') BY <1>3, <1>4, <1>6 DEF Hand, Working, Unverified, Open
<1>8. HandInv' BY <1>0, <1>5, <1>7, Alone
<1>9. runs[r].status = "none" BY <1>1 DEF NextRow
<1>10. runs[r].completed = {} /\ \A o \in Obligations : validated[r][o] = 0
  BY <1>0, <1>9 DEF Accounts, Agrees
<1>11. Agrees(row, validated[r]) BY <1>3, <1>10, FS_EmptySet DEF Agrees
<1>12. validated' = [validated EXCEPT ![r] = validated[r]] BY <1>0 DEF CreateRun
<1>13. Accounts' /\ Kept /\ SealsNone
  BY <1>0, <1>1, <1>3, <1>9, <1>10, <1>11, <1>12, RowWritten
<1> QED BY <1>8, <1>13

(* The steps between the commits: the database stays as it is. *)
LEMMA WorkResumes ==
  ASSUME NEW w, Workers = {w}, ResumeInv,
         \/ AskCritic(w) \/ LoadObligation(w) \/ LockRun(w) \/ RouteObligation(w) \/ LoopFails(w)
         \/ ReadForPause(w) \/ ReadForSeal(w)
  PROVE  HandInv' /\ Accounts' /\ Kept /\ SealsNone
<1> DEFINE me == worker[w]
<1>0. /\ TypeInv /\ Accounts /\ Hand(me, runs) /\ me \in Locals /\ worker \in [Workers -> Locals]
      /\ me.pc \in Working => me.run \in RunIds
      /\ runs' = runs /\ validated' = validated
  BY SoleTypes DEF AskCritic, LoadObligation, LockRun, RouteObligation, LoopFails, ReadForPause,
                   ReadForSeal, database, TypeInv, TypeOK
<1>1. CASE AskCritic(w)
  <2>1. PICK b \in SUBSET me.todo :
          worker' = [worker EXCEPT ![w].batch = b, ![w].todo = @ \ b]
    BY <1>1 DEF AskCritic
  <2> DEFINE next == [me EXCEPT !.batch = b, !.todo = @ \ b]
  <2>2. worker' = [worker EXCEPT ![w] = next] BY <1>0, <2>1
  <2>3. me.pc = "ask" BY <1>1 DEF AskCritic
  <2>4. next.pc = "ask" /\ next.batch = b /\ next.todo = me.todo \ b /\ next.run = me.run
    BY <1>0, <2>3 DEF Locals
  <2> HIDE DEF next
  <2>5. Hand(next, runs) BY <1>0, <2>3, <2>4 DEF Hand, Working, Unverified
  <2> QED BY <1>0, <2>2, <2>5, Alone, RunsStand
<1>2. CASE LoadObligation(w)
  <2>0. PICK o \in me.batch, signal \in Signals :
         \E band \in PossibleBands(o \in Grounded, signal) :
          worker' = [worker EXCEPT ![w] =
            [me EXCEPT !.pc = "lock", !.current = o, !.batch = @ \ {o},
                       !.route = RouteVerification(o \in Grounded, signal, band),
                       !.seenRow = [status |-> registry[o].status,
                                    review |-> registry[o].review]]]
    BY <1>2 DEF LoadObligation
  <2>1. PICK route, row : worker' = [worker EXCEPT ![w] =
          [me EXCEPT !.pc = "lock", !.current = o, !.batch = @ \ {o}, !.route = route,
                     !.seenRow = row]]
    BY <2>0
  <2> DEFINE next == [me EXCEPT !.pc = "lock", !.current = o, !.batch = @ \ {o}, !.route = route,
                                !.seenRow = row]
  <2>2. worker' = [worker EXCEPT ![w] = next] BY <2>1
  <2>3. me.pc = "ask" BY <1>2 DEF LoadObligation
  <2>4. /\ next.pc = "lock" /\ next.batch = me.batch \ {o} /\ next.todo = me.todo
        /\ next.run = me.run /\ next.current = o
    BY <1>0 DEF Locals
  <2> HIDE DEF next
  <2>5. Unverified(next, runs) BY <1>0, <2>3, <2>4 DEF Hand, Unverified
  <2>6. Hand(next, runs) BY <1>0, <2>3, <2>4, <2>5 DEF Hand, Working
  <2> QED BY <1>0, <2>2, <2>6, Alone, RunsStand
<1>3. CASE LockRun(w) \/ RouteObligation(w) \/ LoopFails(w)
  <2>1. PICK next : /\ worker' = [worker EXCEPT ![w] = next]
                    /\ next.pc \in {"route", "commit", "failed"} /\ next.run = me.run
                    /\ next.todo = me.todo /\ next.batch = me.batch /\ next.current = me.current
    <3>1. CASE LockRun(w)
      <4> DEFINE next == [me EXCEPT !.pc = "route"]
      <4>1. worker' = [worker EXCEPT ![w] = next] BY <1>0, <3>1 DEF LockRun
      <4>2. /\ next.pc = "route" /\ next.run = me.run /\ next.todo = me.todo
            /\ next.batch = me.batch /\ next.current = me.current
        BY <1>0 DEF Locals
      <4> HIDE DEF next
      <4> QED BY <4>1, <4>2
    <3>2. CASE RouteObligation(w)
      <4> DEFINE pc == IF me.route # "AUTO_REGISTER" /\ Ambiguous(me.current) THEN "failed"
                       ELSE "commit"
                 seen == IF me.route = "AUTO_REGISTER" THEN me.seenTask
                         ELSE pendingTasks[me.current] # {}
                 next == [me EXCEPT !.pc = pc, !.seenTask = seen]
      <4>1. worker' = [worker EXCEPT ![w] = next]
        <5>1. CASE me.route = "AUTO_REGISTER"
          <6>1. worker' = [worker EXCEPT ![w].pc = "commit"] BY <3>2, <5>1 DEF RouteObligation
          <6>2. pc = "commit" /\ seen = me.seenTask BY <5>1
          <6> HIDE DEF pc, seen
          <6>3. next = [me EXCEPT !.pc = "commit"] BY <1>0, <6>2 DEF Locals
          <6> QED BY <1>0, <6>1, <6>3
        <5>2. CASE me.route # "AUTO_REGISTER"
          <6>1. worker' = [worker EXCEPT ![w].pc = pc, ![w].seenTask = seen]
            BY <3>2, <5>2 DEF RouteObligation
          <6> HIDE DEF pc, seen
          <6> QED BY <1>0, <6>1
        <5> QED BY <5>1, <5>2
      <4>2. pc \in {"commit", "failed"} OBVIOUS
      <4> HIDE DEF pc, seen
      <4>3. /\ next.pc = pc /\ next.run = me.run /\ next.todo = me.todo
            /\ next.batch = me.batch /\ next.current = me.current
        BY <1>0 DEF Locals
      <4> HIDE DEF next
      <4> QED BY <4>1, <4>2, <4>3
    <3>3. CASE LoopFails(w)
      <4> DEFINE next == [me EXCEPT !.pc = "failed"]
      <4>1. worker' = [worker EXCEPT ![w] = next] BY <1>0, <3>3 DEF LoopFails
      <4>2. /\ next.pc = "failed" /\ next.run = me.run /\ next.todo = me.todo
            /\ next.batch = me.batch /\ next.current = me.current
        BY <1>0 DEF Locals
      <4> HIDE DEF next
      <4> QED BY <4>1, <4>2
    <3> QED BY <1>3, <3>1, <3>2, <3>3
  <2>2. me.pc \in Working BY <1>3 DEF LockRun, RouteObligation, LoopFails, Working
  <2>3. next.pc # "failed" => me.pc \in {"lock", "route"}
    <3>1. CASE LoopFails(w)
      <4>1. worker'[w].pc = "failed" BY <1>0, <3>1 DEF LoopFails, Locals
      <4> QED BY <1>0, <2>1, <4>1
    <3>2. CASE LockRun(w) \/ RouteObligation(w) BY <3>2 DEF LockRun, RouteObligation
    <3> QED BY <1>3, <3>1, <3>2
  <2>4. Hand(next, runs) BY <1>0, <2>1, <2>2, <2>3 DEF Hand, Working, Unverified
  <2> QED BY <1>0, <2>1, <2>4, Alone, RunsStand
<1>4. CASE ReadForPause(w)
  <2> DEFINE completed == runs[me.run].completed
             status == runs[me.run].status
             next == [Idle EXCEPT !.pc = "pause", !.critic = me.critic, !.source = me.source,
                                  !.run = me.run, !.seen = completed, !.seenStatus = status]
  <2>1. worker' = [worker EXCEPT ![w] = next] BY <1>4 DEF ReadForPause
  <2>2. status \in Open BY <1>0, <1>4 DEF Hand, Working, ReadForPause
  <2>3. /\ next.pc = "pause" /\ next.run = me.run /\ next.seen = completed
        /\ next.seenStatus = status
    BY DEF Idle
  <2> HIDE DEF next
  <2>4. Hand(next, runs) BY <2>2, <2>3 DEF Hand, Working
  <2> QED BY <1>0, <2>1, <2>4, Alone, RunsStand
<1>5. CASE ReadForSeal(w)
  <2> DEFINE completed == runs[me.run].completed
             status == runs[me.run].status
             relabel == [o \in Obligations |->
                          IF o \in Live /\ registry[o].run # me.run THEN author[o] ELSE 0]
             next == [me EXCEPT !.pc = "seal", !.seen = completed, !.seenStatus = status,
                                !.relabel = relabel]
  <2>1. worker' = [worker EXCEPT ![w] = next] BY <1>5 DEF ReadForSeal
  <2>2. status \in Open BY <1>0, <1>5 DEF Hand, Working, ReadForSeal, FinishedLoop
  <2> HIDE DEF relabel, completed, status
  <2>3. /\ next.pc = "seal" /\ next.run = me.run /\ next.seen = completed
        /\ next.seenStatus = status
    BY <1>0 DEF Locals
  <2> HIDE DEF next
  <2>4. Hand(next, runs) BY <2>2, <2>3 DEF Hand, Working, completed, status
  <2> QED BY <1>0, <2>1, <2>4, Alone, RunsStand
<1> QED BY <1>1, <1>2, <1>3, <1>4, <1>5
-----------------------------------------------------------------------------
(* A verdict adds its obligation to the checkpoint, the counters and the
   validation rows together. *)
LEMMA CommitResumes ==
  ASSUME NEW w, Workers = {w}, ResumeInv, CommitVerdict(w)
  PROVE  HandInv' /\ Accounts' /\ Kept /\ SealsNone
<1> DEFINE me == worker[w]
           o == me.current
           r == me.run
           completed == Checkpointed(me)
           tally == [runs[r].tally EXCEPT ![me.route] = @ + 1]
           row == [runs[r] EXCEPT !.completed = completed, !.tally = tally]
           rows == [validated[r] EXCEPT ![o] = @ + 1]
           next == [Idle EXCEPT !.pc = "ask", !.critic = me.critic, !.source = me.source,
                                !.run = r, !.todo = me.todo, !.batch = me.batch]
<1>0. /\ TypeInv /\ Accounts /\ Hand(me, runs) /\ me \in Locals /\ me.pc = "commit"
      /\ r \in RunIds /\ runs[r] \in RunRow /\ o \in Obligations
      /\ runs \in [RunIds -> RunRow] /\ validated \in [RunIds -> [Obligations -> Nat]]
  BY SoleTypes DEF CommitVerdict, Working
<1>1. runs[r].status \in Open /\ Unverified(me, runs) BY <1>0 DEF Hand, Working
<1>2. /\ runs' = [runs EXCEPT ![r] = row] /\ validated' = [validated EXCEPT ![r] = rows]
      /\ worker' = [worker EXCEPT ![w] = next]
  <2>1. runs' = [runs EXCEPT ![r].completed = Checkpointed(me), ![r].tally[me.route] = @ + 1]
    BY DEF CommitVerdict
  <2>2. validated' = [validated EXCEPT ![r][o] = @ + 1] BY DEF CommitVerdict
  <2>3. runs' = [runs EXCEPT ![r] = row] BY <1>0, <2>1
  <2>4. validated' = [validated EXCEPT ![r] = rows] BY <1>0, <2>2
  <2> QED BY <2>3, <2>4 DEF CommitVerdict
<1>3. completed = runs[r].completed \cup {o} BY DEF Checkpointed
<1>4. me.route \in Routes /\ runs[r].tally \in [Routes -> Nat] BY <1>0 DEF Locals, RunRow
<1>5. /\ tally["AUTO_REGISTER"] + tally["HUMAN_REVIEW"] + tally["REJECT"] = Total(runs[r]) + 1
      /\ Total(runs[r]) \in Nat
  BY <1>4 DEF Total, Routes
<1>6. \A p \in Obligations : rows[p] = IF p = o THEN validated[r][p] + 1 ELSE validated[r][p]
  BY <1>0
<1> HIDE DEF completed, tally, rows
<1>7. row.status = runs[r].status /\ row.completed = completed /\ row.tally = tally
  BY <1>0 DEF RunRow
<1> HIDE DEF row
<1>8. /\ next.pc = "ask" /\ next.todo = me.todo /\ next.batch = me.batch /\ next.run = r
  BY DEF Idle
<1> HIDE DEF next
<1>9. runs'[r] = row BY <1>0, <1>2 DEF TypeInv, TypeOK
<1>10. Unverified(next, runs') BY <1>0, <1>1, <1>3, <1>7, <1>8, <1>9 DEF Unverified
<1>11. Hand(next, runs') BY <1>1, <1>7, <1>8, <1>9, <1>10 DEF Hand
<1>12. HandInv' BY <1>0, <1>2, <1>11, Alone
<1>13. Agrees(row, rows)
  <2>1. /\ IsFiniteSet(runs[r].completed) /\ Total(runs[r]) = Cardinality(runs[r].completed)
        /\ \A p \in Obligations : validated[r][p] = IF p \in runs[r].completed THEN 1 ELSE 0
    BY <1>0 DEF Accounts, Agrees
  <2>2. o \notin runs[r].completed BY <1>0, <1>1 DEF Unverified
  <2>3. IsFiniteSet(completed) /\ Cardinality(completed) = Cardinality(runs[r].completed) + 1
    BY <1>3, <2>1, <2>2, FS_AddElement
  <2>4. Total(row) = Cardinality(completed) BY <1>5, <1>7, <2>1, <2>3 DEF Total
  <2>5. \A p \in Obligations : rows[p] = IF p \in completed THEN 1 ELSE 0
    BY <1>3, <1>6, <2>1, <2>2
  <2>6. row.status # "none" BY <1>1, <1>7 DEF Open
  <2> QED BY <1>7, <2>3, <2>4, <2>5, <2>6 DEF Agrees
<1>14. runs[r].status # "COMPLETED" /\ row.status # "COMPLETED" BY <1>1, <1>7 DEF Open
<1>15. runs[r].completed \subseteq row.completed BY <1>3, <1>7
<1>16. Accounts' /\ Kept /\ SealsNone BY <1>0, <1>2, <1>13, <1>14, <1>15, RowWritten
<1> QED BY <1>12, <1>16

(* What a pause or a seal writes back is what is there, but for the status. *)
LEMMA WriteBackResumes ==
  ASSUME NEW w, Workers = {w}, ResumeInv, PauseRun(w) \/ SealRun(w)
  PROVE  HandInv' /\ Accounts' /\ Kept /\ (PauseRun(w) => SealsNone)
<1> DEFINE me == worker[w]
<1>0. /\ TypeInv /\ Accounts /\ Hand(me, runs) /\ me \in Locals /\ me.pc \in {"pause", "seal"}
      /\ me.run \in RunIds /\ runs[me.run] \in RunRow /\ runs \in [RunIds -> RunRow]
  BY SoleTypes DEF PauseRun, SealRun, Working
<1>1. runs[me.run].status \in Open /\ me.seen = runs[me.run].completed
  BY <1>0 DEF Hand, Working
<1>2. PICK status : /\ status \in Open \cup {"COMPLETED"}
                    /\ PauseRun(w) => status \in Open
                    /\ runs' = [runs EXCEPT ![me.run].status = status,
                                            ![me.run].completed = me.seen]
  <2>1. CASE PauseRun(w)
    <3> DEFINE status == Written(me.seenStatus, "PAUSED", runs[me.run].status)
    <3>1. status \in Open BY <1>1 DEF Written, Open
    <3>2. runs' = [runs EXCEPT ![me.run].status = status, ![me.run].completed = me.seen]
      BY <2>1 DEF PauseRun, StatusOnFailure, PausedCheckpoint
    <3> HIDE DEF status
    <3> QED BY <3>1, <3>2
  <2>2. CASE SealRun(w)
    <3> DEFINE status == Written(me.seenStatus, "COMPLETED", runs[me.run].status)
    <3>1. status \in Open \cup {"COMPLETED"} BY <1>1 DEF Written, Open
    <3>2. runs' = [runs EXCEPT ![me.run].status = status, ![me.run].completed = me.seen]
      BY <2>2 DEF SealRun
    <3>3. ~PauseRun(w) BY <2>2 DEF PauseRun, SealRun
    <3> HIDE DEF status
    <3> QED BY <3>1, <3>2, <3>3
  <2> QED BY <2>1, <2>2
<1> DEFINE row == [runs[me.run] EXCEPT !.status = status, !.completed = me.seen]
<1>3. runs' = [runs EXCEPT ![me.run] = row] BY <1>0, <1>2
<1>4. /\ row.status = status /\ row.completed = runs[me.run].completed
      /\ row.tally = runs[me.run].tally
  BY <1>0, <1>1 DEF RunRow
<1> HIDE DEF row
<1>5. validated' = validated /\ worker' = [worker EXCEPT ![w] = Idle] BY DEF PauseRun, SealRun
<1>6. HandInv' BY <1>0, <1>3, <1>5, IdleHolds, Alone
<1>7. Accounts' /\ Kept /\ (row.status # "COMPLETED" => SealsNone)
  BY <1>0, <1>1, <1>2, <1>3, <1>4, <1>5, StatusWritten
<1> QED BY <1>2, <1>4, <1>6, <1>7 DEF Open

LEMMA GivesUpResumes ==
  ASSUME NEW w, Workers = {w}, ResumeInv, RefuseSeal(w) \/ Crash(w)
  PROVE  HandInv' /\ Accounts' /\ Kept /\ SealsNone
<1>1. worker' = [worker EXCEPT ![w] = Idle] /\ runs' = runs /\ validated' = validated
  BY DEF RefuseSeal, Crash, database
<1> QED BY <1>1, IdleHolds, Alone, RunsStand DEF ResumeInv

LEMMA StepResume ==
  ASSUME NEW w, Workers = {w}, ResumeInv, [Next]_vars
  PROVE  ResumeInv' /\ Kept /\ (SealsNone \/ SealRun(w))
<1>0. TypeInv' BY TypeStep DEF ResumeInv
<1>1. CASE Start(w) \/ LoopFails(w) \/ Crash(w)
  BY <1>0, <1>1, StartResumes, WorkResumes, GivesUpResumes DEF ResumeInv
<1>2. CASE Verify(w)
  BY <1>0, <1>2, FindResumes, AdoptResumes, CreateResumes, WorkResumes, CommitResumes,
     WriteBackResumes, GivesUpResumes DEF Verify, ResumeInv
<1>3. ASSUME UNCHANGED <<runs, validated, worker>> PROVE ResumeInv' /\ Kept /\ SealsNone
  <2>1. HandInv' BY <1>3 DEF ResumeInv, HandInv, Hand, Unverified
  <2> QED BY <1>0, <1>3, <2>1, RunsStand DEF ResumeInv
<1>4. CASE \/ \E v \in Reviewers : OpenTask(v) \/ LoadReviewed(v) \/ AbandonDecision(v)
           \/ \E v \in Reviewers, action \in ReviewActions : Decide(v, action)
  <2>1. UNCHANGED <<runs, validated, worker>>
    BY <1>4 DEF OpenTask, LoadReviewed, AbandonDecision, Decide, database
  <2> QED BY <1>3, <2>1
<1>5. CASE \/ \E o \in Deletable : DeleteObligation(o)
           \/ \E s \in Sources : Publish(s)
           \/ \E c \in Critics : Reconfigure(c)
           \/ UNCHANGED vars
  <2>1. UNCHANGED <<runs, validated, worker>>
    BY <1>5 DEF DeleteObligation, Publish, Reconfigure, vars, database
  <2> QED BY <1>3, <2>1
<1> QED BY <1>1, <1>2, <1>4, <1>5 DEF Next

LEMMA AlwaysResumeInv ==
  ASSUME NEW w, Workers = {w} PROVE Spec => []ResumeInv
<1>1. ResumeInv /\ [Next]_vars => ResumeInv' BY StepResume
<1> QED BY <1>1, InitResume, PTL DEF Spec

(* However often the script dies, pauses and is started again, a run verifies
   an obligation once. *)
THEOREM ResumeVerifiesOnce ==
  ASSUME NEW w, Workers = {w} PROVE Spec => []VerifiedOnce
<1>1. ResumeInv => VerifiedOnce BY DEF ResumeInv, Accounts, Agrees, VerifiedOnce
<1> QED BY <1>1, AlwaysResumeInv, PTL

(* The three counters of a run add up to its checkpoint, whatever stopped it. *)
THEOREM CountersKeepUp ==
  ASSUME NEW w, Workers = {w} PROVE Spec => []CountersMatchCheckpoint
<1>1. ResumeInv => CountersMatchCheckpoint
  BY DEF ResumeInv, Accounts, Agrees, Total, CountersMatchCheckpoint
<1> QED BY <1>1, AlwaysResumeInv, PTL

(* No step of the script forgets verified work. *)
THEOREM CheckpointsGrow ==
  ASSUME NEW w, Workers = {w} PROVE Spec => CheckpointGrows
<1>1. ResumeInv /\ [Next]_vars =>
        \A r \in RunIds : runs[r].completed \subseteq runs'[r].completed
  BY StepResume DEF Kept
<1> QED BY <1>1, AlwaysResumeInv, PTL DEF Spec, CheckpointGrows

(* No step of the script changes a sealed run. *)
THEOREM SealsAreFinal ==
  ASSUME NEW w, Workers = {w} PROVE Spec => SealIsFinal
<1>1. ResumeInv /\ [Next]_vars =>
        \A r \in RunIds : runs[r].status = "COMPLETED" => runs'[r] = runs[r]
  BY StepResume DEF Kept
<1> QED BY <1>1, AlwaysResumeInv, PTL DEF Spec, SealIsFinal
-----------------------------------------------------------------------------
(* Everything there is was published: active rows, and the extraction runs
   that processes and verification runs are for. *)
RowsPublished == \A o \in Live : SourceOf[o] \in publications
WorkPublished ==
  \A w \in Workers : worker[w].pc # "idle" => worker[w].source \in publications
RunsPublished ==
  \A r \in RunIds : runs[r].status # "none" => runs[r].source \in publications
Published == RowsPublished /\ WorkPublished /\ RunsPublished

(* A run that is sealed, or is about to be, covers its registry. *)
Signed(r) == \/ runs[r].status = "COMPLETED"
             \/ \E w \in Workers : worker[w].pc = "seal" /\ worker[w].run = r
Covers(row, rows) ==
  \A o \in Obligations : rows[o].live /\ SourceOf[o] = row.source => o \in row.completed
CoverInv ==
  /\ ResumeInv /\ Published
  /\ \A r \in RunIds : Signed(r) => Covers(runs[r], registry)

LEMMA InitCovers == Init => CoverInv
<1> SUFFICES ASSUME Init PROVE CoverInv OBVIOUS
<1>1. /\ \A w \in Workers : worker[w].pc = "idle"
      /\ \A r \in RunIds : runs[r].status = "none"
  BY DEF Init, Idle
<1>2. RowsPublished BY DEF Init, RowsPublished, Live, Unpublished, Candidate
<1>3. \A r \in RunIds : ~Signed(r) BY <1>1 DEF Signed
<1> QED BY <1>1, <1>2, <1>3, InitResume DEF CoverInv, Published, WorkPublished, RunsPublished

(* Only deletions and publications change which rows are active. *)
LEMMA LiveStands ==
  ASSUME TypeInv, [Next]_vars
  PROVE  \/ /\ publications' = publications /\ Live' = Live
            /\ \A o \in Obligations : registry'[o].live = registry[o].live
         \/ \E d \in Deletable : DeleteObligation(d)
         \/ \E s \in Sources : Publish(s)
<1>0. registry \in [Obligations -> ObligationRow]
  BY DEF TypeInv, TypeOK
<1> DEFINE Stands == /\ publications' = publications
                     /\ \A o \in Obligations : registry'[o].live = registry[o].live
<1>1. ASSUME NEW w \in Workers, Start(w) \/ Verify(w) \/ LoopFails(w) \/ Crash(w) PROVE Stands
  <2>1. CASE CommitVerdict(w)
    <3>1. PICK status, review, run : registry' = [registry EXCEPT
            ![worker[w].current].status = status, ![worker[w].current].review = review,
            ![worker[w].current].run = run]
      BY <2>1 DEF CommitVerdict
    <3>2. publications' = publications BY <2>1 DEF CommitVerdict, environment
    <3> QED BY <1>0, <3>1, <3>2 DEF ObligationRow
  <2>2. CASE SealRun(w)
    <3>1. \A o \in Obligations : \/ registry'[o] = registry[o]
                                 \/ registry'[o] = [registry[o] EXCEPT !.run = worker[w].run]
      BY <2>2 DEF SealRun
    <3>2. publications' = publications BY <2>2 DEF SealRun, environment
    <3>3. ASSUME NEW o \in Obligations PROVE registry'[o].live = registry[o].live
      BY <1>0, <3>1 DEF ObligationRow
    <3> QED BY <3>2, <3>3
  <2>3. CASE Start(w) \/ LoopFails(w) \/ Crash(w)
    BY <2>3 DEF Start, LoopFails, Crash, database, environment
  <2>4. CASE FindResumable(w) \/ FindNone(w) \/ AdoptRun(w) \/ CreateRun(w) \/ AskCritic(w)
    BY <2>4 DEF FindResumable, FindNone, AdoptRun, CreateRun, AskCritic, database, environment
  <2>5. CASE LoadObligation(w) \/ LockRun(w) \/ RouteObligation(w)
    BY <2>5 DEF LoadObligation, LockRun, RouteObligation, database, environment
  <2>6. CASE ReadForPause(w) \/ PauseRun(w) \/ RefuseSeal(w) \/ ReadForSeal(w)
    BY <2>6 DEF ReadForPause, PauseRun, RefuseSeal, ReadForSeal, database, environment
  <2> QED BY <1>1, <2>1, <2>2, <2>3, <2>4, <2>5, <2>6 DEF Verify
<1>2. ASSUME NEW v \in Reviewers, OpenTask(v) \/ LoadReviewed(v) \/ AbandonDecision(v)
      PROVE  Stands
  BY <1>2 DEF OpenTask, LoadReviewed, AbandonDecision, database, environment
<1>3. ASSUME NEW v \in Reviewers, NEW action \in ReviewActions, Decide(v, action) PROVE Stands
  <2>1. PICK status, review : registry' = [registry EXCEPT
          ![desk[v].obligation].status = status, ![desk[v].obligation].review = review]
    BY <1>3 DEF Decide
  <2>2. publications' = publications BY <1>3 DEF Decide, environment
  <2> QED BY <1>0, <2>1, <2>2 DEF ObligationRow
<1>4. ASSUME NEW c \in Critics, Reconfigure(c) PROVE Stands
  BY <1>4 DEF Reconfigure, database
<1>5. UNCHANGED vars => Stands BY DEF vars, database, environment
<1>6. Stands => Live' = Live BY DEF Live
<1> QED BY <1>1, <1>2, <1>3, <1>4, <1>5, <1>6 DEF Next

(* Rows become active only by the first publication of their source. *)
LEMMA LiveRows ==
  ASSUME TypeInv, [Next]_vars
  PROVE  /\ publications \subseteq publications'
         /\ \A o \in Obligations : registry'[o].live =>
              \/ registry[o].live
              \/ SourceOf[o] \notin publications /\ SourceOf[o] \in publications'
<1>0. registry \in [Obligations -> ObligationRow]
  BY DEF TypeInv, TypeOK
<1>1. ASSUME NEW d \in Deletable, DeleteObligation(d)
      PROVE  /\ publications' = publications
             /\ \A o \in Obligations : registry'[o].live => registry[o].live
  <2>1. registry' = [registry EXCEPT ![d].live = FALSE] /\ publications' = publications
    BY <1>1 DEF DeleteObligation, environment
  <2> QED BY <1>0, <2>1 DEF ObligationRow
<1>2. ASSUME NEW s \in Sources, Publish(s)
      PROVE  /\ publications \subseteq publications'
             /\ \A o \in Obligations : registry'[o].live =>
                  SourceOf[o] \notin publications /\ SourceOf[o] \in publications'
  <2>1. \A o \in Obligations : registry'[o].live => SourceOf[o] = s
    BY <1>0, <1>2 DEF Publish, ObligationRow
  <2> QED BY <1>2, <2>1 DEF Publish
<1> QED BY <1>1, <1>2, LiveStands

(* A process works for one source from its start on. *)
LEMMA WorkerKeepsSource ==
  ASSUME TypeInv, [Next]_vars, NEW v \in Workers, worker'[v].pc # "idle"
  PROVE  \/ worker[v].pc # "idle" /\ worker'[v].source = worker[v].source
         \/ Live # {} /\ \A o \in Live : SourceOf[o] = worker'[v].source
<1>0. worker \in [Workers -> Locals] /\ worker[v] \in Locals
  BY DEF TypeInv, TypeOK
<1>1. CASE Start(v)
  <2>1. PICK s \in Sources :
          /\ Live # {} /\ \A o \in Live : SourceOf[o] = s
          /\ worker' = [worker EXCEPT ![v] =
               [Idle EXCEPT !.pc = "find", !.critic = critic, !.source = s, !.todo = Live]]
    BY <1>1 DEF Start
  <2>2. [Idle EXCEPT !.pc = "find", !.critic = critic, !.source = s, !.todo = Live].source = s
    BY DEF Idle
  <2> QED BY <1>0, <2>1, <2>2
<1>2. CASE FindResumable(v) BY <1>0, <1>2 DEF FindResumable, Locals
<1>3. CASE FindNone(v) \/ LockRun(v) BY <1>0, <1>3 DEF FindNone, LockRun, Locals
<1>4. CASE LoopFails(v) BY <1>0, <1>4 DEF LoopFails, Locals
<1>5. CASE AdoptRun(v) BY <1>0, <1>5 DEF AdoptRun, Locals
<1>6. CASE CreateRun(v) BY <1>0, <1>6 DEF CreateRun, Locals
<1>7. CASE AskCritic(v) BY <1>0, <1>7 DEF AskCritic, Locals
<1>8. CASE LoadObligation(v) BY <1>0, <1>8 DEF LoadObligation, Locals
<1>9. CASE RouteObligation(v) BY <1>0, <1>9 DEF RouteObligation, Locals
<1>10. CASE CommitVerdict(v) BY <1>0, <1>10 DEF CommitVerdict, Idle
<1>11. CASE ReadForPause(v) BY <1>0, <1>11 DEF ReadForPause, Idle
<1>12. CASE ReadForSeal(v) BY <1>0, <1>12 DEF ReadForSeal, FinishedLoop, Locals
<1>13. CASE PauseRun(v) \/ RefuseSeal(v) \/ SealRun(v) \/ Crash(v)
  BY <1>0, <1>13 DEF PauseRun, RefuseSeal, SealRun, Crash, Idle
<1>14. CASE worker'[v] = worker[v] BY <1>14
<1> QED
  BY <1>1, <1>2, <1>3, <1>4, <1>5, <1>6, <1>7, <1>8, <1>9, <1>10, <1>11, <1>12, <1>13, <1>14,
     AnyStep DEF Verify

(* A run appears as the next row, open and empty. *)
LEMMA RunAppears ==
  ASSUME ResumeInv, [Next]_vars, NEW r \in RunIds, runs[r].status = "none",
         runs'[r].status # "none"
  PROVE  \E w \in Workers : CreateRun(w) /\ NextRow(r) /\ runs'[r].source = worker[w].source
<1>0. runs \in [RunIds -> RunRow] BY DEF ResumeInv, TypeInv, TypeOK
<1>1. PICK w \in Workers : WritesRuns(w) BY Frame
<1>2. CASE CreateRun(w)
  <2>1. PICK q \in RunIds : NextRow(q) /\ runs' = [runs EXCEPT ![q] =
          [status |-> "RUNNING", source |-> worker[w].source, critic |-> worker[w].critic,
           completed |-> {}, tally |-> [t \in Routes |-> 0]]]
    BY <1>2 DEF CreateRun
  <2>2. q = r BY <1>0, <2>1
  <2>3. runs'[r].source = worker[w].source BY <1>0, <2>1, <2>2
  <2> QED BY <1>2, <2>1, <2>2, <2>3
<1>3. CASE ~CreateRun(w)
  <2>1. worker[w].pc \in Working
    BY <1>1, <1>3 DEF WritesRuns, AdoptRun, CommitVerdict, PauseRun, SealRun, Working
  <2>2. runs[worker[w].run].status # "none"
    BY <2>1 DEF ResumeInv, HandInv, Hand, Open
  <2>3. \A q \in RunIds : q # worker[w].run => runs'[q] = runs[q]
    BY <1>0, <1>1, <1>3 DEF WritesRuns, AdoptRun, CommitVerdict, PauseRun, SealRun
  <2> QED BY <2>2, <2>3
<1> QED BY <1>2, <1>3

LEMMA NewRun ==
  ASSUME ResumeInv, [Next]_vars, NEW r \in RunIds, runs[r].status = "none",
         runs'[r].status # "none"
  PROVE  \E w \in Workers : worker[w].pc # "idle" /\ runs'[r].source = worker[w].source
BY RunAppears DEF CreateRun

LEMMA PublishedStep == ASSUME ResumeInv, Published, [Next]_vars PROVE Published'
<1>0. /\ TypeInv /\ publications \subseteq publications'
      /\ \A o \in Obligations : registry'[o].live =>
           registry[o].live \/ SourceOf[o] \in publications'
  BY LiveRows DEF ResumeInv
<1>1. RowsPublished' BY <1>0 DEF Published, RowsPublished, Live
<1>2. \A s : (Live # {} /\ \A o \in Live : SourceOf[o] = s) => s \in publications
  BY DEF Published, RowsPublished
<1>3. WorkPublished'
  <2> SUFFICES ASSUME NEW w \in Workers, worker'[w].pc # "idle"
               PROVE  worker'[w].source \in publications'
    BY DEF WorkPublished
  <2> QED BY <1>0, <1>2, WorkerKeepsSource DEF Published, WorkPublished
<1>4. RunsPublished'
  <2> SUFFICES ASSUME NEW r \in RunIds, runs'[r].status # "none"
               PROVE  runs'[r].source \in publications'
    BY DEF RunsPublished
  <2>1. CASE runs[r].status # "none"
    BY <1>0, <2>1, RowsKeep DEF Published, RunsPublished
  <2>2. CASE runs[r].status = "none"
    BY <1>0, <2>2, NewRun DEF Published, WorkPublished
  <2> QED BY <2>1, <2>2
<1> QED BY <1>1, <1>3, <1>4 DEF Published

(* What covers its registry keeps doing so. *)
LEMMA CoverKept ==
  ASSUME CoverInv, [Next]_vars, Kept, NEW r \in RunIds, Signed(r)
  PROVE  Covers(runs'[r], registry')
<1>1. runs[r].status # "none" /\ Covers(runs[r], registry)
  BY DEF CoverInv, Signed, ResumeInv, HandInv, Hand, Working, Open
<1>2. runs[r].source \in publications BY <1>1 DEF CoverInv, Published, RunsPublished
<1>3. /\ runs'[r].source = runs[r].source /\ runs[r].completed \subseteq runs'[r].completed
      /\ \A o \in Obligations : registry'[o].live =>
           registry[o].live \/ SourceOf[o] \notin publications
  BY <1>1, RowsKeep, LiveRows DEF CoverInv, ResumeInv, Kept
<1> QED BY <1>1, <1>2, <1>3 DEF Covers

LEMMA SignedStep ==
  ASSUME NEW w, Workers = {w}, CoverInv, [Next]_vars, NEW r \in RunIds, Signed(r)'
  PROVE  Signed(r) \/ (ReadForSeal(w) /\ worker[w].run = r)
<1>0. /\ TypeInv /\ worker \in [Workers -> Locals] /\ runs \in [RunIds -> RunRow]
      /\ worker[w] \in Locals
  BY DEF CoverInv, ResumeInv, TypeInv, TypeOK
<1>1. CASE runs'[r].status = "COMPLETED"
  <2>1. SealsNone \/ SealRun(w) BY StepResume DEF CoverInv
  <2>2. CASE SealsNone BY <1>1, <2>2 DEF SealsNone, Signed
  <2>3. CASE SealRun(w)
    <3>1. worker[w].pc = "seal" BY <2>3 DEF SealRun
    <3>2. worker[w].run # r => runs'[r] = runs[r] BY <1>0, <2>3 DEF SealRun
    <3> QED BY <1>1, <3>1, <3>2 DEF Signed
  <2> QED BY <2>1, <2>2, <2>3
<1>2. CASE worker'[w].pc = "seal" /\ worker'[w].run = r
  <2>1. CASE worker'[w] = worker[w] BY <1>2, <2>1 DEF Signed
  <2>2. CASE ReadForSeal(w) BY <1>0, <1>2, <2>2 DEF ReadForSeal, FinishedLoop, Locals
  <2>3. CASE ReadForPause(w) BY <1>0, <1>2, <2>3 DEF ReadForPause, Idle
  <2> QED BY <1>0, <1>2, <2>1, <2>2, <2>3, WorkerSteps
<1> QED BY <1>1, <1>2 DEF Signed

LEMMA StepCovers ==
  ASSUME NEW w, Workers = {w}, CoverInv, [Next]_vars PROVE CoverInv'
<1>1. ResumeInv' /\ Kept BY StepResume DEF CoverInv
<1>2. Published' BY PublishedStep DEF CoverInv
<1>3. ASSUME NEW r \in RunIds, Signed(r)' PROVE Covers(runs'[r], registry')
  <2>1. CASE Signed(r) BY <1>1, <2>1, CoverKept
  <2>2. CASE ReadForSeal(w) /\ worker[w].run = r
    <3>1. runs' = runs /\ registry' = registry BY <2>2 DEF ReadForSeal, database
    <3>2. Covers(runs[r], registry) BY <2>2 DEF ReadForSeal, SealAgrees, Covers, Live
    <3> QED BY <3>1, <3>2
  <2> QED BY <1>3, <2>1, <2>2, SignedStep
<1> QED BY <1>1, <1>2, <1>3 DEF CoverInv, Covers

(* Whatever reviewers, deletions and publications do between the reads of a
   seal and its commit, a sealed run has verified every obligation of its
   extraction run that is still active. *)
THEOREM SealsCoverRegistry ==
  ASSUME NEW w, Workers = {w} PROVE Spec => []SealedCoversRegistry
<1>1. CoverInv => SealedCoversRegistry
  BY DEF CoverInv, Signed, Covers, SealedCoversRegistry, Live
<1>2. CoverInv /\ [Next]_vars => CoverInv' BY StepCovers
<1> QED BY <1>1, <1>2, InitCovers, PTL DEF Spec
-----------------------------------------------------------------------------
(***************************************************************************)
(* With one operator and one critic, the label of an obligation's payload  *)
(* names the run that verified it: the seal finds nothing to relabel.      *)
(***************************************************************************)
Exists(r) == runs[r].status # "none"
Gone(s, published, live) == s \in published /\ \A o \in live : SourceOf[o] # s
Superseded(s) == Gone(s, publications, Live)

(* What a process holds, and what a run has verified, is of its source. *)
Held(me) == me.todo \cup me.batch
            \cup (IF me.pc \in {"lock", "route", "commit"} THEN {me.current} ELSE {})
HandSourced ==
  \A w \in Workers : worker[w].pc # "idle" =>
    \A o \in Held(worker[w]) : SourceOf[o] = worker[w].source
SourcedInv == CoverInv /\ ProvenanceInv /\ HandSourced
VerifiedSourced ==
  \A r \in RunIds, o \in Obligations : validated[r][o] > 0 => SourceOf[o] = runs[r].source

(* Runs of one source follow each other: a run of another source comes after
   them only when the registry of theirs is gone. *)
Succession ==
  \A q, r \in RunIds : q < r /\ Exists(r) =>
    Exists(q) /\ (runs[q].source = runs[r].source \/ Superseded(runs[q].source))

(* What a process that looks for a run will find. *)
Newest(me) ==
  me.pc \in {"find", "create"} =>
    \A r \in RunIds : Exists(r) =>
      /\ runs[r].source = me.source \/ Superseded(runs[r].source)
      /\ \A q \in RunIds : q < r /\ runs[q].source = me.source => runs[r].source = me.source
NothingToResume(me) ==
  me.pc = "create" => \A r \in OpenRuns : runs[r].source # me.source
LookInv == \A w \in Workers : Newest(worker[w]) /\ NothingToResume(worker[w])
OneOpenRun == \A q, r \in OpenRuns : runs[q].source = runs[r].source => q = r

(* The label of what an open run has verified is the run. *)
OpenRunSigns ==
  \A r \in OpenRuns, o \in Obligations : validated[r][o] > 0 => registry[o].run = r
AuthorsPublished == \A o \in Obligations : author[o] # 0 => SourceOf[o] \in publications
RelabelsNothing == \A w \in Workers : worker[w].pc = "seal" => worker[w].relabel = NoRelabel

AttributionInv ==
  /\ CoverInv /\ ProvenanceInv
  /\ HandSourced /\ VerifiedSourced /\ Succession /\ LookInv /\ OneOpenRun
  /\ OpenRunSigns /\ AuthorsPublished /\ RelabelsNothing /\ AttributionFaithful

LEMMA InitAttribution == Init => AttributionInv
<1> SUFFICES ASSUME Init PROVE AttributionInv OBVIOUS
<1>1. CoverInv /\ TypeInv BY InitCovers DEF CoverInv, ResumeInv
<1>2. \A w \in Workers : worker[w] = Idle BY DEF Init
<1>3. Idle.pc = "idle" /\ Idle.run = 0 BY DEF Idle
<1>4. \A r \in RunIds : runs[r].status = "none" BY DEF Init
<1>5. \A r \in RunIds, o \in Obligations : validated[r][o] = 0 BY DEF Init
<1>6. \A o \in Obligations : author[o] = 0 /\ registry[o].run = 0
  BY DEF Init, Unpublished, Candidate
<1>7. ProvenanceInv BY <1>1, <1>2, <1>3 DEF ProvenanceInv
<1>8. HandSourced /\ LookInv /\ RelabelsNothing
  BY <1>2, <1>3 DEF HandSourced, LookInv, Newest, NothingToResume, RelabelsNothing
<1>9. VerifiedSourced /\ Succession /\ OneOpenRun /\ OpenRunSigns
  BY <1>4, <1>5 DEF VerifiedSourced, Succession, Exists, OneOpenRun, OpenRunSigns, OpenRuns
<1> QED BY <1>1, <1>6, <1>7, <1>8, <1>9 DEF AttributionInv, AuthorsPublished, AttributionFaithful

(* A superseded registry never comes back. *)
LEMMA StaysSuperseded ==
  ASSUME TypeInv, [Next]_vars, NEW s, Superseded(s) PROVE Gone(s, publications', Live')
BY LiveRows DEF Superseded, Gone, Live

(* The registry that a process starts on supersedes every other. *)
LEMMA StartFindsNewest ==
  ASSUME AttributionInv, NEW w \in Workers, Start(w)
  PROVE  LET s == worker'[w].source IN
         /\ worker'[w].pc = "find" /\ worker'[w].todo = Live /\ worker'[w].batch = {}
         /\ \A o \in Live : SourceOf[o] = s
         /\ \A r \in RunIds : Exists(r) =>
              /\ runs[r].source = s \/ Superseded(runs[r].source)
              /\ \A q \in RunIds : q < r /\ runs[q].source = s => runs[r].source = s
<1>1. PICK s \in Sources :
        /\ Live # {} /\ \A o \in Live : SourceOf[o] = s
        /\ worker' = [worker EXCEPT ![w] =
             [Idle EXCEPT !.pc = "find", !.critic = critic, !.source = s, !.todo = Live]]
  BY DEF Start
<1> DEFINE next == [Idle EXCEPT !.pc = "find", !.critic = critic, !.source = s, !.todo = Live]
<1>2. next.source = s /\ next.pc = "find" /\ next.todo = Live /\ next.batch = {} BY DEF Idle
<1> HIDE DEF next
<1>3. worker'[w] = next BY <1>1 DEF AttributionInv, ProvenanceInv, TypeInv, TypeOK, next
<1>4. \A r \in RunIds : Exists(r) => runs[r].source \in publications
  BY DEF AttributionInv, CoverInv, Published, RunsPublished, Exists
<1>5. \A r \in RunIds : Exists(r) => runs[r].source = s \/ Superseded(runs[r].source)
  BY <1>1, <1>4 DEF Superseded, Gone
<1>6. ~Superseded(s) BY <1>1 DEF Superseded, Gone
<1>7. ASSUME NEW r \in RunIds, Exists(r), NEW q \in RunIds, q < r, runs[q].source = s
      PROVE  runs[r].source = s
  BY <1>6, <1>7 DEF AttributionInv, Succession
<1> QED BY <1>1, <1>2, <1>3, <1>5, <1>7

(* With one critic, no open run of its source is passed over. *)
LEMMA NothingPassedOver ==
  ASSUME NEW c, Critics = {c}, AttributionInv, NEW w \in Workers, FindNone(w)
  PROVE  \A r \in OpenRuns : runs[r].source # worker[w].source
<1> SUFFICES ASSUME NEW r \in OpenRuns, runs[r].source = worker[w].source PROVE FALSE OBVIOUS
<1>1. /\ runs \in [RunIds -> RunRow] /\ worker[w] \in Locals /\ worker[w].pc = "find"
  BY DEF AttributionInv, ProvenanceInv, TypeInv, TypeOK, FindNone
<1>2. IsFiniteSet(OpenRuns) /\ \A q \in OpenRuns : q \in Int
  <2>1. MaxStarts \in Nat BY ConstantsAssumption
  <2>2. IsFiniteSet(RunIds) /\ RunIds \subseteq Int BY <2>1, FirstNumbers DEF RunIds
  <2>3. OpenRuns \subseteq RunIds BY DEF OpenRuns
  <2> QED BY <2>2, <2>3, FS_Subset
<1>3. PICK m \in OpenRuns : \A q \in OpenRuns : q <= m BY <1>2, LargestExists
<1>4. m \in RunIds /\ r \in RunIds /\ IsNewestOpen(m) /\ Exists(m)
  BY <1>3 DEF OpenRuns, IsNewestOpen, Exists
<1>5. runs[m].critic = worker[w].critic BY <1>1, <1>4 DEF RunRow, Locals
<1>6. runs[m].source # worker[w].source BY <1>4, <1>5 DEF FindNone, SameProvenance
<1>7. r < m BY <1>2, <1>3, <1>6
<1> QED BY <1>1, <1>4, <1>6, <1>7 DEF AttributionInv, LookInv, Newest
-----------------------------------------------------------------------------
(* After its start a process only drops obligations from what it holds. *)
LEMMA HeldShrinks ==
  ASSUME TypeInv, [Next]_vars, NEW v \in Workers, worker'[v].pc # "idle"
  PROVE  \/ Start(v)
         \/ /\ worker[v].pc # "idle" /\ worker'[v].source = worker[v].source
            /\ Held(worker'[v]) \subseteq Held(worker[v])
<1> DEFINE me == worker[v]
           Goal == /\ me.pc # "idle" /\ worker'[v].source = me.source
                   /\ Held(worker'[v]) \subseteq Held(me)
<1>0. worker \in [Workers -> Locals] /\ me \in Locals
  BY DEF TypeInv, TypeOK
<1>1. CASE FindResumable(v)
  BY <1>0, <1>1 DEF FindResumable, Locals, Held
<1>2. CASE FindNone(v) BY <1>0, <1>2 DEF FindNone, Locals, Held
<1>3. CASE LockRun(v) BY <1>0, <1>3 DEF LockRun, Locals, Held
<1>4. CASE LoopFails(v) BY <1>0, <1>4 DEF LoopFails, Locals, Held
<1>5. CASE AdoptRun(v)
  <2> DEFINE todo == Remaining(me)
             next == [me EXCEPT !.pc = "ask", !.todo = todo, !.seen = {}, !.seenStatus = "none"]
  <2>1. worker'[v] = next /\ me.pc = "adopt" BY <1>0, <1>5 DEF AdoptRun
  <2>2. todo \subseteq me.todo BY DEF Remaining
  <2> HIDE DEF todo
  <2>3. next.pc = "ask" /\ next.todo = todo /\ next.batch = me.batch /\ next.source = me.source
    BY <1>0 DEF Locals
  <2> HIDE DEF next
  <2> QED BY <2>1, <2>2, <2>3 DEF Held
<1>6. CASE CreateRun(v) BY <1>0, <1>6 DEF CreateRun, Locals, Held
<1>7. CASE AskCritic(v)
  <2>1. PICK b \in SUBSET me.todo :
          worker' = [worker EXCEPT ![v].batch = b, ![v].todo = @ \ b]
    BY <1>7 DEF AskCritic
  <2> DEFINE next == [me EXCEPT !.batch = b, !.todo = @ \ b]
  <2>2. worker'[v] = next /\ me.pc = "ask" BY <1>0, <1>7, <2>1 DEF AskCritic
  <2>3. /\ next.pc = "ask" /\ next.batch = b /\ next.todo = me.todo \ b
        /\ next.source = me.source
    BY <1>0, <2>2 DEF Locals
  <2> HIDE DEF next
  <2> QED BY <2>1, <2>2, <2>3 DEF Held
<1>8. CASE LoadObligation(v)
  <2>1. PICK o, route, row :
          /\ o \in me.batch
          /\ worker' = [worker EXCEPT ![v] =
               [me EXCEPT !.pc = "lock", !.current = o, !.batch = @ \ {o}, !.route = route,
                          !.seenRow = row]]
    <3>1. PICK o \in me.batch, signal \in Signals :
           \E band \in PossibleBands(o \in Grounded, signal) :
            worker' = [worker EXCEPT ![v] =
              [me EXCEPT !.pc = "lock", !.current = o, !.batch = @ \ {o},
                         !.route = RouteVerification(o \in Grounded, signal, band),
                         !.seenRow = [status |-> registry[o].status,
                                      review |-> registry[o].review]]]
      BY <1>8 DEF LoadObligation
    <3> QED BY <3>1
  <2> DEFINE next == [me EXCEPT !.pc = "lock", !.current = o, !.batch = @ \ {o},
                                !.route = route, !.seenRow = row]
  <2>2. worker'[v] = next /\ me.pc = "ask" BY <1>0, <1>8, <2>1 DEF LoadObligation
  <2>3. /\ next.pc = "lock" /\ next.batch = me.batch \ {o} /\ next.todo = me.todo
        /\ next.source = me.source /\ next.current = o
    BY <1>0 DEF Locals
  <2> HIDE DEF next
  <2> QED BY <2>1, <2>2, <2>3 DEF Held
<1>9. CASE RouteObligation(v)
  <2>1. /\ me.pc = "route" /\ worker'[v].pc \in {"commit", "failed"}
        /\ worker'[v].source = me.source /\ worker'[v].todo = me.todo
        /\ worker'[v].batch = me.batch /\ worker'[v].current = me.current
    BY <1>0, <1>9 DEF RouteObligation, Locals
  <2> QED BY <2>1 DEF Held
<1>10. CASE CommitVerdict(v) BY <1>0, <1>10 DEF CommitVerdict, Idle, Held
<1>11. CASE ReadForPause(v) BY <1>0, <1>11 DEF ReadForPause, Idle, Held
<1>12. CASE ReadForSeal(v)
  <2>1. /\ me.pc = "ask" /\ worker'[v].pc = "seal" /\ worker'[v].source = me.source
        /\ worker'[v].todo = me.todo /\ worker'[v].batch = me.batch
    BY <1>0, <1>12 DEF ReadForSeal, FinishedLoop, Locals
  <2> QED BY <2>1 DEF Held
<1>13. CASE PauseRun(v) \/ RefuseSeal(v) \/ SealRun(v) \/ Crash(v)
  BY <1>0, <1>13 DEF PauseRun, RefuseSeal, SealRun, Crash, Idle
<1>14. CASE worker'[v] = worker[v] BY <1>14
<1> QED
  BY <1>1, <1>2, <1>3, <1>4, <1>5, <1>6, <1>7, <1>8, <1>9, <1>10, <1>11, <1>12, <1>13, <1>14,
     AnyStep DEF Verify

(* It starts with the active obligations, which are of its source. *)
LEMMA StartTakesRegistry ==
  ASSUME TypeInv, NEW v \in Workers, Start(v)
  PROVE  \A o \in Held(worker'[v]) : o \in Live /\ SourceOf[o] = worker'[v].source
<1>1. PICK s \in Sources :
        /\ \A o \in Live : SourceOf[o] = s
        /\ worker' = [worker EXCEPT ![v] =
             [Idle EXCEPT !.pc = "find", !.critic = critic, !.source = s, !.todo = Live]]
  BY DEF Start
<1> DEFINE next == [Idle EXCEPT !.pc = "find", !.critic = critic, !.source = s, !.todo = Live]
<1>2. next.source = s /\ next.pc = "find" /\ next.todo = Live /\ next.batch = {} BY DEF Idle
<1> HIDE DEF next
<1>3. worker'[v] = next BY <1>1 DEF TypeInv, TypeOK, next
<1> QED BY <1>1, <1>2, <1>3 DEF Held

LEMMA HandSourcedStep ==
  ASSUME SourcedInv, [Next]_vars PROVE HandSourced'
<1> SUFFICES ASSUME NEW v \in Workers, worker'[v].pc # "idle", NEW o \in Held(worker'[v])
             PROVE  SourceOf[o] = worker'[v].source
  BY DEF HandSourced
<1>0. TypeInv BY DEF SourcedInv, ProvenanceInv
<1>1. CASE Start(v) BY <1>0, <1>1, StartTakesRegistry
<1>2. CASE ~Start(v) BY <1>0, <1>2, HeldShrinks DEF SourcedInv, HandSourced
<1> QED BY <1>1, <1>2

(* What a run has verified grows by the verdict that is committed. *)
LEMMA NewlyVerified ==
  ASSUME AttributionInv, [Next]_vars, NEW r \in RunIds, NEW o \in Obligations,
         validated'[r][o] > 0
  PROVE  \/ validated[r][o] > 0
         \/ \E w \in Workers : /\ CommitVerdict(w) /\ worker[w].run = r
                               /\ worker[w].current = o
<1>0. validated \in [RunIds -> [Obligations -> Nat]]
  BY DEF AttributionInv, ProvenanceInv, TypeInv, TypeOK
<1>1. CASE validated' = validated BY <1>1
<1>2. CASE \E w \in Workers : CommitVerdict(w)
  <2>1. PICK w \in Workers : CommitVerdict(w) BY <1>2
  <2>2. validated' = [validated EXCEPT ![worker[w].run][worker[w].current] = @ + 1]
    BY <2>1 DEF CommitVerdict
  <2>3. CASE worker[w].run = r /\ worker[w].current = o BY <2>1, <2>3
  <2>4. CASE ~(worker[w].run = r /\ worker[w].current = o)
    <3>1. validated'[r][o] = validated[r][o] BY <1>0, <2>2, <2>4
    <3> QED BY <3>1
  <2> QED BY <2>3, <2>4
<1> QED BY <1>1, <1>2, Frame

(* The verdict of a process is about an obligation of the run's source. *)
LEMMA CommitsOwnSource ==
  ASSUME SourcedInv, NEW w \in Workers, CommitVerdict(w)
  PROVE  /\ worker[w].run \in RunIds /\ worker[w].current \in Obligations
         /\ runs[worker[w].run].status \in Open
         /\ SourceOf[worker[w].current] = runs[worker[w].run].source
         /\ runs[worker[w].run].source \in publications
<1>0. worker[w].pc = "commit" BY DEF CommitVerdict
<1>1. worker[w].run \in RunIds /\ worker[w].current \in Obligations
  BY <1>0 DEF SourcedInv, ProvenanceInv, TypeInv, InHand
<1>2. runs[worker[w].run].status \in Open
  BY <1>0 DEF SourcedInv, CoverInv, ResumeInv, HandInv, Hand, Working
<1>3. worker[w].run # 0
  <2>1. MaxStarts \in Nat BY ConstantsAssumption
  <2> QED BY <1>1, <2>1 DEF RunIds
<1>4. runs[worker[w].run].source = worker[w].source
  BY <1>3 DEF SourcedInv, ProvenanceInv
<1>5. SourceOf[worker[w].current] = worker[w].source
  BY <1>0 DEF SourcedInv, HandSourced, Held
<1>6. runs[worker[w].run].source \in publications
  BY <1>1, <1>2 DEF SourcedInv, CoverInv, Published, RunsPublished, Open
<1> QED BY <1>1, <1>2, <1>4, <1>5, <1>6

LEMMA VerifiedExists ==
  ASSUME AttributionInv, NEW r \in RunIds, NEW o \in Obligations, validated[r][o] > 0
  PROVE  runs[r].status # "none"
BY DEF AttributionInv, CoverInv, ResumeInv, Accounts, Agrees

LEMMA VerifiedSourcedStep ==
  ASSUME AttributionInv, [Next]_vars PROVE VerifiedSourced'
<1> SUFFICES ASSUME NEW r \in RunIds, NEW o \in Obligations, validated'[r][o] > 0
             PROVE  SourceOf[o] = runs'[r].source
  BY DEF VerifiedSourced
<1>0. TypeInv BY DEF AttributionInv, ProvenanceInv
<1>1. runs[r].status # "none" /\ SourceOf[o] = runs[r].source
  <2>1. CASE validated[r][o] > 0
    BY <2>1, VerifiedExists DEF AttributionInv, VerifiedSourced
  <2>2. CASE ~(validated[r][o] > 0)
    <3>1. PICK w \in Workers : CommitVerdict(w) /\ worker[w].run = r /\ worker[w].current = o
      BY <2>2, NewlyVerified
    <3> QED BY <3>1, CommitsOwnSource DEF Open, AttributionInv, SourcedInv
  <2> QED BY <2>1, <2>2
<1> QED BY <1>0, <1>1, RowsKeep
-----------------------------------------------------------------------------
(* What a run that exists after a step was before it. *)
LEMMA RunHistory ==
  ASSUME AttributionInv, [Next]_vars, NEW r \in RunIds, runs'[r].status # "none"
  PROVE  \/ Exists(r) /\ runs'[r].source = runs[r].source
         \/ ~Exists(r) /\ \E w \in Workers :
              CreateRun(w) /\ NextRow(r) /\ runs'[r].source = worker[w].source
<1>1. TypeInv /\ ResumeInv BY DEF AttributionInv, ProvenanceInv, CoverInv
<1> QED BY <1>1, RowsKeep, RunAppears DEF Exists

LEMMA CreatorLooks ==
  ASSUME AttributionInv, NEW w \in Workers, CreateRun(w)
  PROVE  /\ \A r \in RunIds : Exists(r) =>
              /\ runs[r].source = worker[w].source \/ Superseded(runs[r].source)
              /\ \A q \in RunIds : q < r /\ runs[q].source = worker[w].source =>
                   runs[r].source = worker[w].source
         /\ \A r \in OpenRuns : runs[r].source # worker[w].source
BY DEF AttributionInv, LookInv, Newest, NothingToResume, CreateRun

LEMMA SuccessionStep ==
  ASSUME AttributionInv, [Next]_vars PROVE Succession'
<1> SUFFICES ASSUME NEW q \in RunIds, NEW r \in RunIds, q < r, runs'[r].status # "none"
             PROVE  /\ runs'[q].status # "none"
                    /\ \/ runs'[q].source = runs'[r].source
                       \/ Gone(runs'[q].source, publications', Live')
  BY DEF Succession, Exists, Superseded
<1>0. TypeInv BY DEF AttributionInv, ProvenanceInv
<1>1. Exists(q) /\ (runs[q].source = runs'[r].source \/ Superseded(runs[q].source))
  <2>1. CASE Exists(r) /\ runs'[r].source = runs[r].source
    BY <2>1 DEF AttributionInv, Succession
  <2>2. CASE ~Exists(r) /\ \E w \in Workers :
              CreateRun(w) /\ NextRow(r) /\ runs'[r].source = worker[w].source
    <3>1. PICK w \in Workers :
            CreateRun(w) /\ NextRow(r) /\ runs'[r].source = worker[w].source
      BY <2>2
    <3>2. q \in 1 .. (r - 1)
      <4>1. MaxStarts \in Nat BY ConstantsAssumption
      <4> QED BY <4>1 DEF RunIds
    <3>3. Exists(q) BY <3>1, <3>2 DEF NextRow, Exists
    <3> QED BY <3>1, <3>3, CreatorLooks
  <2> QED BY <2>1, <2>2, RunHistory
<1>2. runs'[q].status # "none" /\ runs'[q].source = runs[q].source
  BY <1>0, <1>1, RowsKeep DEF Exists
<1> QED BY <1>0, <1>1, <1>2, StaysSuperseded

(* Only the creation of a run opens one. *)
LEMMA OpensOnlyNew ==
  ASSUME NEW w, Workers = {w}, AttributionInv, [Next]_vars, NEW r \in OpenRuns'
  PROVE  \/ r \in OpenRuns /\ runs'[r].source = runs[r].source
         \/ /\ CreateRun(w) /\ NextRow(r) /\ ~Exists(r)
            /\ runs'[r].source = worker[w].source
<1>1. r \in RunIds /\ runs'[r].status \in {"RUNNING", "PAUSED"} BY DEF OpenRuns
<1>2. Kept BY StepResume DEF AttributionInv, CoverInv
<1>3. runs[r].status # "COMPLETED" BY <1>1, <1>2 DEF Kept
<1>4. runs[r].status \in {"none", "RUNNING", "PAUSED", "COMPLETED"}
  <2>1. runs[r] \in RunRow BY <1>1 DEF AttributionInv, ProvenanceInv, TypeInv, TypeOK
  <2> QED BY <2>1 DEF RunRow
<1>5. CASE Exists(r) /\ runs'[r].source = runs[r].source
  BY <1>1, <1>3, <1>4, <1>5 DEF OpenRuns, Exists
<1>6. CASE ~(Exists(r) /\ runs'[r].source = runs[r].source)
  BY <1>1, <1>6, RunHistory
<1> QED BY <1>5, <1>6

LEMMA OneOpenRunStep ==
  ASSUME NEW w, Workers = {w}, AttributionInv, [Next]_vars PROVE OneOpenRun'
<1> SUFFICES ASSUME NEW q \in OpenRuns', NEW r \in OpenRuns', runs'[q].source = runs'[r].source
             PROVE  q = r
  BY DEF OneOpenRun
<1> DEFINE New(x) == CreateRun(w) /\ NextRow(x) /\ ~Exists(x) /\ runs'[x].source = worker[w].source
           Old(x) == x \in OpenRuns /\ runs'[x].source = runs[x].source
<1>1. (Old(q) \/ New(q)) /\ (Old(r) \/ New(r)) BY OpensOnlyNew
<1>2. CASE Old(q) /\ Old(r) BY <1>2 DEF AttributionInv, OneOpenRun
<1>3. CASE (Old(q) /\ New(r)) \/ (New(q) /\ Old(r)) BY <1>3, CreatorLooks
<1>4. CASE New(q) /\ New(r)
  <2>1. q \in RunIds /\ r \in RunIds BY DEF OpenRuns
  <2>2. MaxStarts \in Nat BY ConstantsAssumption
  <2>3. q \in Nat /\ r \in Nat /\ 1 <= q /\ 1 <= r BY <2>1, <2>2 DEF RunIds
  <2>4. ~(q < r) /\ ~(r < q) BY <1>4, <2>3 DEF NextRow, Exists
  <2> QED BY <2>3, <2>4
<1> QED BY <1>1, <1>2, <1>3, <1>4

(* The look is right when it is taken, and stays so until the row is there. *)
LEMMA LookInvStep ==
  ASSUME NEW c, Critics = {c}, NEW w, Workers = {w}, AttributionInv, [Next]_vars
  PROVE  LookInv'
<1>0. /\ TypeInv /\ worker \in [Workers -> Locals] /\ worker[w] \in Locals
      /\ \A s : Superseded(s) => Gone(s, publications', Live')
  BY StaysSuperseded DEF AttributionInv, ProvenanceInv, TypeInv, TypeOK
<1>1. CASE worker'[w].pc \notin {"find", "create"}
  BY <1>1 DEF LookInv, Newest, NothingToResume
<1>2. CASE worker'[w].pc \in {"find", "create"}
  <2>1. \/ Start(w) \/ FindNone(w) \/ worker'[w] = worker[w]
    <3>1. CASE FindResumable(w) BY <1>0, <1>2, <3>1 DEF FindResumable, Locals
    <3>2. CASE AdoptRun(w) BY <1>0, <1>2, <3>2 DEF AdoptRun, Locals
    <3>3. CASE CreateRun(w) BY <1>0, <1>2, <3>3 DEF CreateRun, Locals
    <3>4. CASE AskCritic(w) BY <1>0, <1>2, <3>4 DEF AskCritic, Locals
    <3>5. CASE LoadObligation(w) BY <1>0, <1>2, <3>5 DEF LoadObligation, Locals
    <3>6. CASE LockRun(w) BY <1>0, <1>2, <3>6 DEF LockRun, Locals
    <3>7. CASE RouteObligation(w) BY <1>0, <1>2, <3>7 DEF RouteObligation, Locals
    <3>8. CASE CommitVerdict(w) BY <1>0, <1>2, <3>8 DEF CommitVerdict, Idle
    <3>9. CASE LoopFails(w) BY <1>0, <1>2, <3>9 DEF LoopFails, Locals
    <3>10. CASE ReadForPause(w) BY <1>0, <1>2, <3>10 DEF ReadForPause, Idle
    <3>11. CASE ReadForSeal(w) BY <1>0, <1>2, <3>11 DEF ReadForSeal, Locals
    <3>12. CASE PauseRun(w) \/ RefuseSeal(w) \/ SealRun(w) \/ Crash(w)
      BY <1>0, <1>2, <3>12 DEF PauseRun, RefuseSeal, SealRun, Crash, Idle
    <3> QED BY <1>0, <3>1, <3>2, <3>3, <3>4, <3>5, <3>6, <3>7, <3>8, <3>9, <3>10, <3>11, <3>12,
               AnyStep DEF Verify
  <2> DEFINE s == worker'[w].source
  <2>2. /\ \A r \in RunIds : Exists(r) =>
              /\ runs[r].source = s \/ Superseded(runs[r].source)
              /\ \A q \in RunIds : q < r /\ runs[q].source = s => runs[r].source = s
        /\ worker'[w].pc = "create" => \A r \in OpenRuns : runs[r].source # s
    <3>1. CASE Start(w) BY <3>1, StartFindsNewest
    <3>2. CASE FindNone(w)
      <4>1. s = worker[w].source /\ worker[w].pc = "find"
        BY <1>0, <3>2 DEF FindNone, Locals
      <4>2. \A r \in OpenRuns : runs[r].source # s BY <3>2, <4>1, NothingPassedOver
      <4> HIDE DEF s
      <4> QED BY <4>1, <4>2 DEF AttributionInv, LookInv, Newest
    <3>3. CASE worker'[w] = worker[w]
      BY <1>2, <3>3 DEF AttributionInv, LookInv, Newest, NothingToResume
    <3> QED BY <2>1, <3>1, <3>2, <3>3
  <2>3. runs' = runs
    <3>1. ~CreateRun(w)
      <4>1. CASE CreateRun(w)
        <5>1. worker'[w].pc = "ask" BY <1>0, <4>1 DEF CreateRun, Locals
        <5> QED BY <1>2, <5>1
      <4> QED BY <4>1
    <3>2. ~WritesRuns(w)
      <4>1. ~AdoptRun(w) /\ ~CommitVerdict(w) /\ ~PauseRun(w) /\ ~SealRun(w)
        <5>1. CASE AdoptRun(w) BY <1>0, <1>2, <5>1 DEF AdoptRun, Locals
        <5>2. CASE CommitVerdict(w) BY <1>0, <1>2, <5>2 DEF CommitVerdict, Idle
        <5>3. CASE PauseRun(w) \/ SealRun(w)
          BY <1>0, <1>2, <5>3 DEF PauseRun, SealRun, Idle
        <5> QED BY <5>1, <5>2, <5>3
      <4> QED BY <3>1, <4>1 DEF WritesRuns
    <3> QED BY <3>2, Frame
  <2> HIDE DEF s
  <2>4. \A r \in RunIds : runs'[r].status # "none" =>
          /\ runs'[r].source = s \/ Gone(runs'[r].source, publications', Live')
          /\ \A q \in RunIds : q < r /\ runs'[q].source = s => runs'[r].source = s
    BY <1>0, <2>2, <2>3 DEF Exists
  <2>5. worker'[w].pc = "create" => \A r \in OpenRuns' : runs'[r].source # s
    BY <2>2, <2>3 DEF OpenRuns
  <2> QED BY <2>4, <2>5 DEF LookInv, Newest, NothingToResume, Exists, Superseded, s
<1> QED BY <1>1, <1>2
-----------------------------------------------------------------------------
(* A label changes with the verdict it names, or with the first publication
   of its obligation. *)
LEMMA LabelStep ==
  ASSUME NEW w, Workers = {w}, AttributionInv, [Next]_vars, NEW o \in Obligations
  PROVE  \/ registry'[o].run = registry[o].run /\ author'[o] = author[o]
         \/ /\ CommitVerdict(w) /\ o = worker[w].current
            /\ registry'[o].run = worker[w].run /\ author'[o] = worker[w].run
         \/ SourceOf[o] \notin publications /\ registry'[o].run = 0 /\ author'[o] = author[o]
<1>0. /\ registry \in [Obligations -> ObligationRow] /\ registry[o] \in ObligationRow
      /\ author \in [Obligations -> MaybeRun]
  BY DEF AttributionInv, ProvenanceInv, TypeInv, TypeOK
<1> DEFINE Stands == registry'[o].run = registry[o].run /\ author'[o] = author[o]
<1>1. CASE CommitVerdict(w)
  <2> DEFINE p == worker[w].current
  <2>1. PICK status, review : registry' = [registry EXCEPT
          ![p].status = status, ![p].review = review, ![p].run = worker[w].run]
    BY <1>1 DEF CommitVerdict, Stamped
  <2>2. author' = [author EXCEPT ![p] = worker[w].run] BY <1>1 DEF CommitVerdict
  <2>3. CASE o = p
    <3>1. registry'[o].run = worker[w].run /\ author'[o] = worker[w].run
      BY <1>0, <2>1, <2>2, <2>3 DEF ObligationRow
    <3> QED BY <1>1, <2>3, <3>1
  <2>4. CASE o # p BY <1>0, <2>1, <2>2, <2>4
  <2> QED BY <2>3, <2>4
<1>2. CASE SealRun(w)
  <2>1. worker[w].relabel = NoRelabel
    BY <1>2 DEF AttributionInv, RelabelsNothing, SealRun
  <2>2. worker[w].relabel[o] = 0 BY <2>1 DEF NoRelabel
  <2>3. registry'[o] = registry[o] /\ author'[o] = author[o] BY <1>2, <2>2 DEF SealRun
  <2> QED BY <2>3
<1>3. CASE Start(w) \/ LoopFails(w) \/ Crash(w)
  BY <1>3 DEF Start, LoopFails, Crash, database
<1>4. CASE FindResumable(w) \/ FindNone(w) \/ AdoptRun(w) \/ CreateRun(w) \/ AskCritic(w)
  BY <1>4 DEF FindResumable, FindNone, AdoptRun, CreateRun, AskCritic, database
<1>5. CASE LoadObligation(w) \/ LockRun(w) \/ RouteObligation(w)
  BY <1>5 DEF LoadObligation, LockRun, RouteObligation, database
<1>6. CASE ReadForPause(w) \/ PauseRun(w) \/ RefuseSeal(w) \/ ReadForSeal(w)
  BY <1>6 DEF ReadForPause, PauseRun, RefuseSeal, ReadForSeal, database
<1>7. CASE \E v \in Reviewers : OpenTask(v) \/ LoadReviewed(v) \/ AbandonDecision(v)
  BY <1>7 DEF OpenTask, LoadReviewed, AbandonDecision, database
<1>8. CASE \E v \in Reviewers, action \in ReviewActions : Decide(v, action)
  <2>1. PICK v \in Reviewers, action \in ReviewActions : Decide(v, action) BY <1>8
  <2>2. PICK status, review : registry' = [registry EXCEPT
          ![desk[v].obligation].status = status, ![desk[v].obligation].review = review]
    BY <2>1 DEF Decide
  <2>3. author' = author BY <2>1 DEF Decide
  <2> QED BY <1>0, <2>2, <2>3 DEF ObligationRow
<1>9. CASE \E d \in Deletable : DeleteObligation(d)
  <2>1. PICK d : registry' = [registry EXCEPT ![d].live = FALSE] /\ author' = author
    BY <1>9 DEF DeleteObligation
  <2> QED BY <1>0, <2>1 DEF ObligationRow
<1>10. CASE \E s \in Sources : Publish(s)
  <2>1. PICK s \in Sources : Publish(s) BY <1>10
  <2>2. CASE SourceOf[o] = s
    <3>1. registry'[o] = Candidate /\ author' = author /\ s \notin publications
      BY <2>1, <2>2 DEF Publish
    <3> QED BY <2>2, <3>1 DEF Candidate
  <2>3. CASE SourceOf[o] # s
    <3>1. registry'[o] = [registry[o] EXCEPT !.live = FALSE] /\ author' = author
      BY <2>1, <2>3 DEF Publish
    <3> QED BY <1>0, <3>1 DEF ObligationRow
  <2> QED BY <2>2, <2>3
<1>11. CASE (\E x \in Critics : Reconfigure(x)) \/ UNCHANGED vars
  BY <1>11 DEF Reconfigure, vars, database
<1> QED BY <1>1, <1>2, <1>3, <1>4, <1>5, <1>6, <1>7, <1>8, <1>9, <1>10, <1>11 DEF Next, Verify

LEMMA AttributionKept ==
  ASSUME NEW w, Workers = {w}, AttributionInv, [Next]_vars
  PROVE  AttributionFaithful' /\ AuthorsPublished'
<1>0. TypeInv /\ publications \subseteq publications'
  BY LiveRows DEF AttributionInv, ProvenanceInv
<1>1. ASSUME NEW o \in Obligations
      PROVE  /\ registry'[o].run = author'[o]
             /\ author'[o] # 0 => SourceOf[o] \in publications'
  <2>1. registry[o].run = author[o] /\ (author[o] # 0 => SourceOf[o] \in publications)
    BY DEF AttributionInv, AttributionFaithful, AuthorsPublished
  <2>2. CASE registry'[o].run = registry[o].run /\ author'[o] = author[o]
    BY <1>0, <2>1, <2>2
  <2>3. CASE /\ CommitVerdict(w) /\ o = worker[w].current
             /\ registry'[o].run = worker[w].run /\ author'[o] = worker[w].run
    <3>1. SourceOf[o] \in publications BY <2>3, CommitsOwnSource DEF AttributionInv, SourcedInv
    <3> QED BY <1>0, <2>3, <3>1
  <2>4. CASE SourceOf[o] \notin publications /\ registry'[o].run = 0 /\ author'[o] = author[o]
    BY <2>1, <2>4
  <2> QED BY <2>2, <2>3, <2>4, LabelStep
<1> QED BY <1>1 DEF AttributionFaithful, AuthorsPublished

LEMMA OpenRunSignsStep ==
  ASSUME NEW w, Workers = {w}, AttributionInv, [Next]_vars PROVE OpenRunSigns'
<1> SUFFICES ASSUME NEW r \in OpenRuns', NEW o \in Obligations, validated'[r][o] > 0
             PROVE  registry'[o].run = r
  BY DEF OpenRunSigns
<1>0. r \in RunIds BY DEF OpenRuns
<1>1. CASE CommitVerdict(w) /\ o = worker[w].current /\ worker[w].run = r
  <2>1. SourceOf[o] \in publications BY <1>1, CommitsOwnSource DEF AttributionInv, SourcedInv
  <2>2. registry'[o].run = registry[o].run /\ author'[o] = author[o] => registry'[o].run = r
    <3>1. author'[o] = r
      <4>1. author' = [author EXCEPT ![o] = r] BY <1>1 DEF CommitVerdict
      <4> QED BY <4>1 DEF AttributionInv, ProvenanceInv, TypeInv, TypeOK
    <3> QED BY <3>1, AttributionKept DEF AttributionFaithful
  <2> QED BY <1>1, <2>1, <2>2, LabelStep
<1>2. CASE ~(CommitVerdict(w) /\ o = worker[w].current /\ worker[w].run = r)
  <2>1. validated[r][o] > 0 BY <1>0, <1>2, NewlyVerified
  <2>2. Exists(r) BY <1>0, <2>1, VerifiedExists DEF Exists
  <2>3. r \in OpenRuns BY <2>2, OpensOnlyNew
  <2>4. registry[o].run = r /\ SourceOf[o] = runs[r].source
    BY <1>0, <2>1, <2>3 DEF AttributionInv, OpenRunSigns, VerifiedSourced
  <2>5. SourceOf[o] \in publications
    BY <1>0, <2>2, <2>4 DEF AttributionInv, CoverInv, Published, RunsPublished, Exists
  <2>6. CASE CommitVerdict(w) /\ o = worker[w].current
    <3>1. /\ worker[w].run \in OpenRuns
          /\ runs[worker[w].run].source = runs[r].source
      BY <2>4, <2>6, CommitsOwnSource DEF OpenRuns, Open, AttributionInv, SourcedInv
    <3>2. worker[w].run = r BY <2>3, <3>1 DEF AttributionInv, OneOpenRun
    <3> QED BY <1>2, <2>6, <3>2
  <2> QED BY <2>4, <2>5, <2>6, LabelStep
<1> QED BY <1>1, <1>2

(* Every payload of the registry that a seal finds verified carries the run. *)
LEMMA RelabelsNothingStep ==
  ASSUME NEW w, Workers = {w}, AttributionInv, [Next]_vars PROVE RelabelsNothing'
<1> SUFFICES ASSUME worker'[w].pc = "seal" PROVE worker'[w].relabel = NoRelabel
  BY DEF RelabelsNothing
<1>0. TypeInv /\ worker \in [Workers -> Locals] /\ worker[w] \in Locals
  BY DEF AttributionInv, ProvenanceInv, TypeInv, TypeOK
<1>1. CASE worker'[w] = worker[w] BY <1>1 DEF AttributionInv, RelabelsNothing
<1>2. CASE ReadForPause(w) BY <1>0, <1>2 DEF ReadForPause, Idle
<1>3. CASE ReadForSeal(w)
  <2> DEFINE r == worker[w].run
  <2>1. worker[w].pc = "ask" /\ Live = ValidatedBy(r)
    BY <1>3 DEF ReadForSeal, FinishedLoop, SealAgrees
  <2>2. r \in OpenRuns
    <3>1. r \in RunIds BY <2>1 DEF AttributionInv, ProvenanceInv, TypeInv, InHand
    <3>2. runs[r].status \in Open
      BY <2>1 DEF AttributionInv, CoverInv, ResumeInv, HandInv, Hand, Working
    <3> QED BY <3>1, <3>2 DEF OpenRuns, Open
  <2>3. \A o \in Live : registry[o].run = r
    <3>1. \A o \in Live : o \in Obligations /\ validated[r][o] > 0
      BY <2>1 DEF ValidatedBy
    <3> QED BY <2>2, <3>1 DEF AttributionInv, OpenRunSigns
  <2> DEFINE relabel == [o \in Obligations |->
                           IF o \in Live /\ registry[o].run # r THEN author[o] ELSE 0]
  <2>4. relabel = NoRelabel BY <2>3 DEF NoRelabel
  <2>5. PICK seen, status : worker' = [worker EXCEPT ![w] =
          [worker[w] EXCEPT !.pc = "seal", !.seen = seen, !.seenStatus = status,
                            !.relabel = relabel]]
    BY <1>3 DEF ReadForSeal
  <2> HIDE DEF relabel
  <2>6. worker'[w].relabel = relabel BY <1>0, <2>5 DEF Locals
  <2> QED BY <2>4, <2>6
<1> QED BY <1>0, <1>1, <1>2, <1>3, WorkerSteps

LEMMA StepAttribution ==
  ASSUME NEW c, Critics = {c}, NEW w, Workers = {w}, AttributionInv, [Next]_vars
  PROVE  AttributionInv'
<1>1. CoverInv' BY StepCovers DEF AttributionInv
<1>2. ProvenanceInv' BY ProvenanceStep DEF AttributionInv
<1>3. HandSourced' BY HandSourcedStep DEF AttributionInv, SourcedInv
<1>4. VerifiedSourced' BY VerifiedSourcedStep
<1>5. Succession' BY SuccessionStep
<1>6. LookInv' BY LookInvStep
<1>7. OneOpenRun' BY OneOpenRunStep
<1>8. OpenRunSigns' BY OpenRunSignsStep
<1>9. RelabelsNothing' BY RelabelsNothingStep
<1>10. AttributionFaithful' /\ AuthorsPublished' BY AttributionKept
<1> QED BY <1>1, <1>2, <1>3, <1>4, <1>5, <1>6, <1>7, <1>8, <1>9, <1>10 DEF AttributionInv

(* However often the script dies, pauses and is started again, over however
   many publications: with one operator and one critic the label of every
   payload names the run whose verdict it holds, and a seal relabels
   nothing. *)
THEOREM LabelsAreFaithful ==
  ASSUME NEW w, Workers = {w}, NEW c, Critics = {c} PROVE Spec => []AttributionFaithful
<1>1. AttributionInv /\ [Next]_vars => AttributionInv' BY StepAttribution
<1>2. AttributionInv => AttributionFaithful BY DEF AttributionInv
<1> QED BY <1>1, <1>2, InitAttribution, PTL DEF Spec
-----------------------------------------------------------------------------
(***************************************************************************)
(* With one operator the service implements VerificationLedger, under any  *)
(* number of critics.                                                      *)
(***************************************************************************)
Book == [r \in RunIds |-> Entry(runs[r])]
LiveStand == Live' = Live /\ publications' = publications

LEMMA StateOf ==
  /\ RunState("none") = "absent" /\ RunState("COMPLETED") = "sealed"
  /\ \A status \in Open : RunState(status) = "open"
BY DEF RunState, Open

LEMMA BookWritten ==
  ASSUME TypeInv, NEW r \in RunIds, NEW row, runs' = [runs EXCEPT ![r] = row]
  PROVE  Book' = [Book EXCEPT ![r] = Entry(row)]
<1>1. /\ runs'[r] = row /\ \A q \in RunIds : q # r => runs'[q] = runs[q]
  BY DEF TypeInv, TypeOK
<1>2. Book' = [q \in RunIds |-> Entry(runs'[q])]
  BY DEF Book, Entry, Total, RunState
<1>3. Book = [q \in RunIds |-> Entry(runs[q])] BY DEF Book
<1> QED BY <1>1, <1>2, <1>3

LEMMA InitLedger == Init => Ledger!Init
<1> SUFFICES ASSUME Init PROVE Ledger!Init OBVIOUS
<1>1. ASSUME NEW r \in RunIds
      PROVE  Entry(runs[r]) = [state |-> "absent", source |-> FirstSource,
                               verified |-> {}, verdicts |-> 0]
  <2>1. /\ runs[r].status = "none" /\ runs[r].completed = {} /\ runs[r].source = FirstSource
        /\ runs[r].tally = [t \in Routes |-> 0]
    BY <1>1 DEF Init
  <2>2. Total(runs[r]) = 0 BY <2>1 DEF Total, Routes
  <2> QED BY <2>1, <2>2, StateOf DEF Entry
<1>2. Live = Ledger!RowsOf(FirstSource)
  BY DEF Init, Live, Ledger!RowsOf, Candidate, Unpublished
<1>3. publications = {FirstSource} BY DEF Init
<1> QED BY <1>1, <1>2, <1>3 DEF Ledger!Init

(* A run is created for the registry that its process started on. *)
LEMMA CreateOpens ==
  ASSUME SourcedInv, NEW w \in Workers, CreateRun(w), LiveStand
  PROVE  Ledger!Next
<1> DEFINE row == [status |-> "RUNNING", source |-> worker[w].source,
                   critic |-> worker[w].critic, completed |-> {}, tally |-> [t \in Routes |-> 0]]
<1>1. PICK r \in RunIds : NextRow(r) /\ runs' = [runs EXCEPT ![r] = row]
  BY DEF CreateRun
<1>2. TypeInv /\ worker[w] \in Locals
  BY DEF SourcedInv, ProvenanceInv, TypeInv, TypeOK
<1>3. worker[w].source \in Sources /\ worker[w].source \in publications
  <2>1. worker[w].pc # "idle" BY DEF CreateRun
  <2> QED BY <1>2, <2>1 DEF Locals, SourcedInv, CoverInv, Published, WorkPublished
<1>4. Entry(row) = [state |-> "open", source |-> worker[w].source, verified |-> {}, verdicts |-> 0]
  <2>1. Total(row) = 0 BY DEF Total, Routes
  <2> HIDE DEF row
  <2>2. row.status = "RUNNING" /\ row.source = worker[w].source /\ row.completed = {}
    BY DEF row
  <2> QED BY <2>1, <2>2, StateOf DEF Entry, Open
<1> HIDE DEF row
<1>5. Book' = [Book EXCEPT ![r] = Entry(row)] BY <1>1, <1>2, BookWritten
<1>6. Book[r].state = "absent" BY <1>1, StateOf DEF Book, Entry, NextRow
<1>7. Ledger!Open(r, worker[w].source)
  BY <1>3, <1>4, <1>5, <1>6 DEF Ledger!Open, Book, LiveStand
<1> QED BY <1>3, <1>7 DEF Ledger!Next

LEMMA EntryWritten ==
  ASSUME NEW old, NEW row, row.status = old.status, row.source = old.source
  PROVE  Entry(row) = [Entry(old) EXCEPT !.verified = row.completed, !.verdicts = Total(row)]
<1> DEFINE entry == Entry(old)
           half == [entry EXCEPT !.verified = row.completed]
<1>1. half = [state |-> RunState(old.status), source |-> old.source,
              verified |-> row.completed, verdicts |-> Total(old)]
  BY DEF Entry
<1>2. [half EXCEPT !.verdicts = Total(row)] = Entry(row)
  <2> HIDE DEF half
  <2> QED BY <1>1 DEF Entry
<1>3. [entry EXCEPT !.verified = row.completed, !.verdicts = Total(row)]
        = [half EXCEPT !.verdicts = Total(row)]
  <2> HIDE DEF entry
  <2> QED OBVIOUS
<1> QED BY <1>2, <1>3

(* A verdict is about an obligation of the run's registry that it had not
   verified. *)
LEMMA CommitVerifies ==
  ASSUME NEW w, Workers = {w}, SourcedInv, CommitVerdict(w), LiveStand
  PROVE  Ledger!Next
<1> DEFINE me == worker[w]
           o == me.current
           r == me.run
           completed == Checkpointed(me)
           tally == [runs[r].tally EXCEPT ![me.route] = @ + 1]
           row == [runs[r] EXCEPT !.completed = completed, !.tally = tally]
<1>0. /\ TypeInv /\ Hand(me, runs) /\ me \in Locals /\ me.pc = "commit"
      /\ r \in RunIds /\ runs[r] \in RunRow /\ o \in Obligations
  BY SoleTypes DEF CommitVerdict, Working, SourcedInv, CoverInv
<1>1. runs[r].status \in Open /\ o \notin runs[r].completed
  BY <1>0 DEF Hand, Working, Unverified
<1>2. SourceOf[o] = runs[r].source BY CommitsOwnSource
<1>3. runs' = [runs EXCEPT ![r] = row]
  <2>1. runs' = [runs EXCEPT ![r].completed = Checkpointed(me), ![r].tally[me.route] = @ + 1]
    BY DEF CommitVerdict
  <2> QED BY <1>0, <2>1 DEF TypeInv, TypeOK
<1>4. completed = runs[r].completed \cup {o} BY DEF Checkpointed
<1>5. me.route \in Routes /\ runs[r].tally \in [Routes -> Nat] BY <1>0 DEF Locals, RunRow
<1>6. tally["AUTO_REGISTER"] + tally["HUMAN_REVIEW"] + tally["REJECT"] = Total(runs[r]) + 1
  BY <1>5 DEF Total, Routes
<1> HIDE DEF completed, tally
<1>7. /\ row.status = runs[r].status /\ row.completed = completed /\ row.tally = tally
      /\ row.source = runs[r].source
  BY <1>0 DEF RunRow
<1> HIDE DEF row
<1>8. Entry(row) = [Entry(runs[r]) EXCEPT !.verified = @ \cup {o}, !.verdicts = @ + 1]
  <2>1. Total(row) = Total(runs[r]) + 1 BY <1>6, <1>7 DEF Total
  <2>2. Entry(row) = [Entry(runs[r]) EXCEPT !.verified = row.completed, !.verdicts = Total(row)]
    BY <1>7, EntryWritten
  <2>3. /\ Entry(runs[r]).verified \cup {o} = row.completed
        /\ Entry(runs[r]).verdicts + 1 = Total(row)
    BY <1>4, <1>7, <2>1 DEF Entry
  <2> QED BY <2>2, <2>3
<1>9. Book' = [Book EXCEPT ![r] = Entry(row)] BY <1>0, <1>3, BookWritten
<1>10. /\ Book[r] = Entry(runs[r]) /\ Book[r].state = "open" /\ Book[r].source = runs[r].source
       /\ Book[r].verified = runs[r].completed
  BY <1>0, <1>1, StateOf DEF Book, Entry
<1>11. Book' = [Book EXCEPT ![r].verified = @ \cup {o}, ![r].verdicts = @ + 1]
  BY <1>0, <1>8, <1>9, <1>10
<1>12. Ledger!Verify(r, o)
  BY <1>1, <1>2, <1>10, <1>11 DEF Ledger!Verify, Book, LiveStand
<1> QED BY <1>0, <1>12 DEF Ledger!Next

(* A row that is written back with another status. *)
LEMMA WriteBackBooked ==
  ASSUME TypeInv, NEW r \in RunIds, NEW status, NEW completed, completed = runs[r].completed,
         runs' = [runs EXCEPT ![r].status = status, ![r].completed = completed]
  PROVE  Book' = [Book EXCEPT ![r].state = RunState(status)]
<1> DEFINE row == [runs[r] EXCEPT !.status = status, !.completed = completed]
<1>0. runs[r] \in RunRow BY DEF TypeInv, TypeOK
<1>1. runs' = [runs EXCEPT ![r] = row] BY DEF TypeInv, TypeOK
<1>2. /\ row.status = status /\ row.completed = runs[r].completed
      /\ row.tally = runs[r].tally /\ row.source = runs[r].source
  BY <1>0 DEF RunRow
<1> HIDE DEF row
<1>3. Entry(row) = [Entry(runs[r]) EXCEPT !.state = RunState(status)]
  BY <1>2 DEF Entry, Total
<1>4. Book' = [Book EXCEPT ![r] = Entry(row)] BY <1>1, BookWritten
<1>5. Book[r] = Entry(runs[r]) BY DEF Book
<1> QED BY <1>3, <1>4, <1>5

(* What stays open is not seen to change. *)
LEMMA OpenStands ==
  ASSUME NEW r \in RunIds, runs[r].status \in Open, NEW status \in Open,
         Book' = [Book EXCEPT ![r].state = RunState(status)]
  PROVE  Book' = Book
<1>1. Book[r].state = "open" /\ RunState(status) = "open" BY StateOf DEF Book, Entry
<1>2. [Book[r] EXCEPT !.state = "open"] = Book[r] BY <1>1 DEF Book, Entry
<1> QED BY <1>1, <1>2 DEF Book

LEMMA AdoptAndPauseUnseen ==
  ASSUME NEW w, Workers = {w}, SourcedInv, AdoptRun(w) \/ PauseRun(w)
  PROVE  Book' = Book
<1> DEFINE me == worker[w]
<1>0. /\ TypeInv /\ Hand(me, runs) /\ me.pc \in {"adopt", "pause"} /\ me.run \in RunIds
      /\ runs[me.run] \in RunRow
  BY SoleTypes DEF AdoptRun, PauseRun, Working, SourcedInv, CoverInv
<1>1. runs[me.run].status \in Open /\ me.seen = runs[me.run].completed
  BY <1>0 DEF Hand, Working
<1>2. PICK status \in Open : runs' = [runs EXCEPT ![me.run].status = status,
                                                  ![me.run].completed = me.seen]
  <2>1. CASE AdoptRun(w)
    <3> DEFINE status == Written(me.seenStatus, "RUNNING", runs[me.run].status)
    <3>1. status \in Open BY <1>1 DEF Written, Open
    <3>2. runs' = [runs EXCEPT ![me.run].status = status] BY <2>1 DEF AdoptRun
    <3> HIDE DEF status
    <3>3. runs' = [runs EXCEPT ![me.run].status = status, ![me.run].completed = me.seen]
      BY <1>0, <1>1, <3>2 DEF TypeInv, TypeOK, RunRow
    <3> QED BY <3>1, <3>3
  <2>2. CASE PauseRun(w)
    <3> DEFINE status == Written(me.seenStatus, "PAUSED", runs[me.run].status)
    <3>1. status \in Open BY <1>1 DEF Written, Open
    <3>2. runs' = [runs EXCEPT ![me.run].status = status, ![me.run].completed = me.seen]
      BY <2>2 DEF PauseRun, StatusOnFailure, PausedCheckpoint
    <3> HIDE DEF status
    <3> QED BY <3>1, <3>2
  <2> QED BY <2>1, <2>2
<1>3. Book' = [Book EXCEPT ![me.run].state = RunState(status)]
  BY <1>0, <1>1, <1>2, WriteBackBooked
<1> QED BY <1>0, <1>1, <1>3, OpenStands

(* A seal signs for all that is active of the run's registry. *)
LEMMA SealSeals ==
  ASSUME NEW w, Workers = {w}, SourcedInv, SealRun(w), LiveStand
  PROVE  Ledger!Next
<1> DEFINE me == worker[w]
           r == me.run
<1>0. TypeInv /\ Hand(me, runs) /\ me.pc = "seal" /\ r \in RunIds
  BY SoleTypes DEF SealRun, Working, SourcedInv, CoverInv
<1>1. /\ runs[r].status \in Open /\ me.seen = runs[r].completed
      /\ me.seenStatus = runs[r].status
  BY <1>0 DEF Hand, Working
<1>2. runs' = [runs EXCEPT ![r].status = "COMPLETED", ![r].completed = me.seen]
  <2>1. Written(me.seenStatus, "COMPLETED", runs[r].status) = "COMPLETED"
    BY <1>1 DEF Written, Open
  <2> QED BY <2>1 DEF SealRun
<1>3. Book' = [Book EXCEPT ![r].state = "sealed"]
  <2>1. Book' = [Book EXCEPT ![r].state = RunState("COMPLETED")]
    BY <1>0, <1>1, <1>2, WriteBackBooked
  <2> QED BY <2>1, StateOf
<1>4. /\ Book[r].state = "open" /\ Book[r].source = runs[r].source
      /\ Book[r].verified = runs[r].completed
  BY <1>0, <1>1, StateOf DEF Book, Entry
<1>5. Covers(runs[r], registry) BY <1>0 DEF SourcedInv, CoverInv, Signed
<1>6. Live \cap Ledger!RowsOf(runs[r].source) \subseteq runs[r].completed
  BY <1>5 DEF Covers, Live, Ledger!RowsOf
<1>7. Ledger!Seal(r) BY <1>3, <1>4, <1>6 DEF Ledger!Seal, Book, LiveStand
<1> QED BY <1>0, <1>7 DEF Ledger!Next

(* A deletion withdraws an active obligation, a publication replaces the
   registry; neither touches a run. *)
LEMMA RegistryMoves ==
  ASSUME TypeInv, \/ \E d \in Deletable : DeleteObligation(d)
                  \/ \E s \in Sources : Publish(s)
  PROVE  Ledger!Next
<1>0. registry \in [Obligations -> ObligationRow] BY DEF TypeInv, TypeOK
<1>1. Book' = Book
  <2>1. runs' = runs BY DEF DeleteObligation, Publish
  <2> QED BY <2>1 DEF Book, Entry, Total, RunState
<1>2. ASSUME NEW d \in Deletable, DeleteObligation(d) PROVE Ledger!Next
  <2>1. d \in Obligations BY ConstantsAssumption
  <2>2. registry' = [registry EXCEPT ![d].live = FALSE] /\ publications' = publications
        /\ registry[d].live
    BY <1>2 DEF DeleteObligation, environment
  <2>3. \A o \in Obligations : registry'[o].live <=> (registry[o].live /\ o # d)
    BY <1>0, <2>1, <2>2 DEF ObligationRow
  <2>4. d \in Live /\ Live' = Live \ {d} BY <2>1, <2>2, <2>3 DEF Live
  <2>5. Ledger!Withdraw(d) BY <1>1, <2>2, <2>4 DEF Ledger!Withdraw, Book
  <2> QED BY <2>1, <2>5 DEF Ledger!Next
<1>3. ASSUME NEW s \in Sources, Publish(s) PROVE Ledger!Next
  <2>1. registry' = [o \in Obligations |->
          IF SourceOf[o] = s THEN Candidate ELSE [registry[o] EXCEPT !.live = FALSE]]
    BY <1>3 DEF Publish
  <2>2. \A o \in Obligations : registry'[o].live <=> SourceOf[o] = s
    BY <1>0, <2>1 DEF Candidate, ObligationRow
  <2>3. Live' = Ledger!RowsOf(s) BY <2>2 DEF Live, Ledger!RowsOf
  <2>4. s \notin publications /\ publications' = publications \cup {s} BY <1>3 DEF Publish
  <2>5. Ledger!Publish(s) BY <1>1, <2>3, <2>4 DEF Ledger!Publish, Book
  <2> QED BY <2>5 DEF Ledger!Next
<1> QED BY <1>2, <1>3

(* Every step is one of the ledger or is not seen in it. *)
LEMMA StepInLedger ==
  ASSUME NEW w, Workers = {w}, SourcedInv, [Next]_vars
  PROVE  [Ledger!Next]_<<[r \in RunIds |-> Entry(runs[r])], Live, publications>>
<1>0. TypeInv BY DEF SourcedInv, ProvenanceInv
<1>1. Book' = Book /\ LiveStand =>
        UNCHANGED <<[r \in RunIds |-> Entry(runs[r])], Live, publications>>
  BY DEF Book, LiveStand
<1>2. CASE \/ \E d \in Deletable : DeleteObligation(d)
           \/ \E s \in Sources : Publish(s)
  <2>1. Ledger!Next BY <1>0, <1>2, RegistryMoves
  <2> QED BY <2>1
<1>3. CASE LiveStand
  <2>1. CASE runs' = runs
    <3>1. Book' = Book BY <2>1 DEF Book, Entry, Total, RunState
    <3> QED BY <1>1, <1>3, <3>1
  <2>2. CASE AdoptRun(w) \/ PauseRun(w)
    <3>1. Book' = Book BY <2>2, AdoptAndPauseUnseen
    <3> QED BY <1>1, <1>3, <3>1
  <2>3. CASE CreateRun(w) \/ CommitVerdict(w) \/ SealRun(w)
    <3>1. Ledger!Next BY <1>3, <2>3, CreateOpens, CommitVerifies, SealSeals
    <3> QED BY <3>1
  <2>4. runs' = runs \/ WritesRuns(w) BY Frame
  <2> QED BY <2>1, <2>2, <2>3, <2>4 DEF WritesRuns
<1> QED BY <1>0, <1>2, <1>3, LiveStands DEF LiveStand

LEMMA SourcedStep ==
  ASSUME NEW w, Workers = {w}, SourcedInv, [Next]_vars PROVE SourcedInv'
BY StepCovers, ProvenanceStep, HandSourcedStep DEF SourcedInv

(* However often the script dies, pauses and is started again, and whatever
   reviewers, deletions, publications and changes of the critic do meanwhile:
   with one operator the service implements the ledger, in which a run
   verifies each obligation of its own registry at most once, is sealed only
   over all that is active of it, and never changes afterwards. *)
THEOREM ServiceImplementsLedger ==
  ASSUME NEW w, Workers = {w} PROVE Spec => ImplementsLedger
<1>1. Init => SourcedInv /\ Ledger!Init
  BY InitAttribution, InitLedger DEF AttributionInv, SourcedInv
<1>2. SourcedInv /\ [Next]_vars =>
        /\ SourcedInv'
        /\ [Ledger!Next]_<<[r \in RunIds |-> Entry(runs[r])], Live, publications>>
  BY SourcedStep, StepInLedger
<1> QED BY <1>1, <1>2, PTL DEF Spec, ImplementsLedger, Ledger!Spec
=============================================================================
