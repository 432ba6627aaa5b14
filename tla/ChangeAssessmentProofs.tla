----------------------- MODULE ChangeAssessmentProofs -----------------------
(***************************************************************************)
(* RunsAreAttempts and LinkedOnce hold for any number of diff jobs, script *)
(* runs and diff runs.  The runs of a job come in the order of its         *)
(* attempts, and a run that completes is its last.  A graph node guards    *)
(* what is created together with it; what a script run has looked up is    *)
(* still so when it commits, unless two of them overlapped.                *)
(***************************************************************************)
EXTENDS ChangeAssessment, SumTheorems

JobStates ==
  [pc : {"new", "running", "done", "failed"}, attempt : 0 .. MaxRetries, run : 0 .. MaxRuns]
DiffRunRows ==
  [status : {"none", "COMPLETED", "FAILED"}, changes : SUBSET (1 .. MaxChanges),
   attempt : {<<>>} \union (Jobs \X (0 .. MaxRetries))]
JobTypes == diffRuns \in [RunIds -> DiffRunRows] /\ job \in [Jobs -> JobStates]

(* A running job has an id of its own, which no row has yet; others have none. *)
OwnRun ==
  \A j \in Jobs :
    IF job[j].pc = "running"
    THEN /\ job[j].run \in RunIds \ Recorded
         /\ \A i \in Jobs : job[i].run = job[j].run => i = j
    ELSE job[j].run = 0

(* The rows of a job were written by earlier attempts, in their order. *)
ByAttempt(r) == diffRuns[r].attempt \in Jobs \X (0 .. MaxRetries)
IsPast(r, me) ==
  /\ me.pc \in {"new", "running"} =>
       diffRuns[r].attempt[2] < me.attempt /\ diffRuns[r].status = "FAILED"
  /\ me.pc = "running" => r < me.run
RowsArePast == \A r \in Recorded : ByAttempt(r) /\ IsPast(r, job[diffRuns[r].attempt[1]])
Precedes(r, q) ==
  diffRuns[r].attempt[1] = diffRuns[q].attempt[1] /\ r < q =>
    diffRuns[r].attempt[2] < diffRuns[q].attempt[2] /\ diffRuns[r].status = "FAILED"
InOrder == \A q, r \in Recorded : Precedes(r, q)

JobInv == JobTypes /\ OwnRun /\ RowsArePast /\ InOrder

LEMMA InitJobs == ChangeInit => JobInv
BY ChangeAssumption DEF ChangeInit, JobInv, JobTypes, OwnRun, RowsArePast, InOrder, Recorded, NoRun, NewJob,
   JobStates, DiffRunRows, RunIds, MaxRetries, MaxChanges

LEMMA NextRunIsNew ==
  ASSUME JobTypes
  PROVE  NextRun \in Nat /\ NextRun > 0 /\ \A r \in Reserved : r < NextRun
<1> DEFINE S == Reserved \union {0}
<1>1. S \subseteq 0 .. MaxRuns BY ChangeAssumption DEF Reserved, RunIds
<1>2. IsFiniteSet(0 .. MaxRuns) BY ChangeAssumption, FS_Interval
<1>3. IsFiniteSet(S) /\ \A x \in S : x \in Int
  <2>1. 0 .. MaxRuns \subseteq Int BY ChangeAssumption
  <2> HIDE DEF S
  <2>2. \A x \in S : x \in Int BY <1>1, <2>1
  <2>3. IsFiniteSet(S) BY <1>1, <1>2, FS_Subset
  <2> QED BY <2>2, <2>3
<1>4. 0 \in S OBVIOUS
<1>5. Max(S) \in S /\ \A x \in S : x <= Max(S)
  <2> HIDE DEF S
  <2> QED BY <1>3, <1>4, LargestNumber
<1> DEFINE m == Max(S)
<1>6. NextRun = m + 1 BY DEF NextRun
<1>7. m \in Nat /\ \A r \in Reserved : r \in Int /\ r <= m BY <1>1, <1>3, <1>5
<1> HIDE DEF m, S
<1> QED BY <1>6, <1>7

(* What a job does to itself and to its row. *)
LEMMA StartKeepsOrder ==
  ASSUME JobInv, NEW j \in Jobs, StartDiff(j) PROVE JobInv'
<1> DEFINE next == [job[j] EXCEPT !.pc = "running", !.run = NextRun]
<1>0. /\ job \in [Jobs -> JobStates] /\ job[j].pc = "new" /\ diffRuns' = diffRuns
      /\ NextRun \in RunIds /\ job' = [job EXCEPT ![j] = next]
  BY DEF JobInv, JobTypes, StartDiff
<1>1. \A r \in Reserved : r < NextRun BY NextRunIsNew DEF JobInv
<1>2. NextRun \notin Reserved /\ RunIds \subseteq Nat
  BY <1>0, <1>1 DEF RunIds
<1>3. /\ next.pc = "running" /\ next.run = NextRun /\ next.attempt = job[j].attempt
      /\ next \in JobStates
  <2>1. job[j] \in JobStates BY <1>0
  <2>2. NextRun \in 0 .. MaxRuns BY <1>0, ChangeAssumption DEF RunIds
  <2> DEFINE new == NextRun
  <2> HIDE DEF new
  <2>3. next = [job[j] EXCEPT !.pc = "running", !.run = new] BY DEF new
  <2>4. new \in 0 .. MaxRuns BY <2>2 DEF new
  <2> HIDE DEF next
  <2>5. next.pc = "running" /\ next.run = new /\ next.attempt = job[j].attempt
    BY <2>1, <2>3 DEF JobStates
  <2>6. next \in JobStates BY <2>1, <2>3, <2>4 DEF JobStates
  <2> QED BY <2>5, <2>6 DEF new
<1> HIDE DEF next
<1>4. Recorded' = Recorded /\ Recorded \subseteq Reserved BY <1>0 DEF Recorded, Reserved
<1>5. JobTypes' BY <1>0, <1>3 DEF JobInv, JobTypes
<1>6. OwnRun'
  <2>1. \A i \in Jobs : job[i].run # NextRun BY <1>0, <1>2 DEF Reserved
  <2> QED BY <1>0, <1>2, <1>3, <1>4, <2>1 DEF JobInv, OwnRun, RunIds
<1>7. RowsArePast'
  <2> SUFFICES ASSUME NEW r \in Recorded PROVE ByAttempt(r)' /\ IsPast(r, job[diffRuns[r].attempt[1]])'
    BY <1>4 DEF RowsArePast
  <2>1. ByAttempt(r) /\ IsPast(r, job[diffRuns[r].attempt[1]]) BY DEF JobInv, RowsArePast
  <2>2. r < NextRun BY <1>1, <1>4
  <2> QED BY <1>0, <1>3, <2>1, <2>2 DEF ByAttempt, IsPast
<1>8. InOrder' BY <1>0, <1>4 DEF JobInv, InOrder, Precedes
<1> QED BY <1>5, <1>6, <1>7, <1>8 DEF JobInv

(* A job ends its attempt, with or without a row. *)
LEMMA EndKeepsOrder ==
  ASSUME JobInv, NEW j \in Jobs, job[j].pc = "running",
         NEW next \in JobStates, job' = [job EXCEPT ![j] = next], next.run = 0,
         next.pc = "new" => next.attempt > job[j].attempt, next.pc # "running",
         NEW row, row \in DiffRunRows, row.status # "none",
         row.attempt = <<j, job[j].attempt>>,
         row.status = "COMPLETED" => next.pc = "done",
         diffRuns' = diffRuns \/ diffRuns' = [diffRuns EXCEPT ![job[j].run] = row]
  PROVE  JobInv'
<1> DEFINE new == job[j].run
<1>0. /\ job \in [Jobs -> JobStates] /\ diffRuns \in [RunIds -> DiffRunRows]
      /\ new \in RunIds \ Recorded /\ job[j].attempt \in 0 .. MaxRetries
      /\ \A i \in Jobs : job[i].run = new => i = j
      /\ RunIds \subseteq Nat
  BY DEF JobInv, JobTypes, OwnRun, JobStates, RunIds
<1>1. \A r \in RunIds : r # new => diffRuns'[r] = diffRuns[r] BY <1>0
<1>2. diffRuns'[new] = row \/ (diffRuns' = diffRuns) BY <1>0
<1>3. Recorded' \subseteq Recorded \union {new} /\ Recorded \subseteq RunIds
  BY <1>1 DEF Recorded
<1>4. JobTypes' BY <1>0 DEF JobTypes
<1>5. \A i \in Jobs : i # j => job'[i] = job[i] BY <1>0
<1>6. job'[j] = next BY <1>0
<1>7. OwnRun'
  <2> SUFFICES ASSUME NEW i \in Jobs
               PROVE  IF job'[i].pc = "running"
                      THEN /\ job'[i].run \in RunIds \ Recorded'
                           /\ \A k \in Jobs : job'[k].run = job'[i].run => k = i
                      ELSE job'[i].run = 0
    BY DEF OwnRun
  <2>1. CASE i = j
    <3>1. job'[i].pc # "running" /\ job'[i].run = 0 BY <1>6, <2>1
    <3> QED BY <3>1
  <2>2. CASE i # j
    <3>1. job'[i] = job[i] BY <1>5, <2>2
    <3>2. CASE job[i].pc = "running"
      <4>1. /\ job[i].run \in RunIds \ Recorded /\ job[i].run # new
            /\ \A k \in Jobs : job[k].run = job[i].run => k = i
        BY <1>0, <2>2, <3>2 DEF JobInv, OwnRun
      <4>2. job[i].run # 0 BY <4>1 DEF RunIds
      <4>3. job'[i].run \in RunIds \ Recorded' BY <1>3, <3>1, <4>1
      <4>4. \A k \in Jobs : job'[k].run = job'[i].run => k = i
        BY <1>5, <1>6, <3>1, <4>1, <4>2
      <4> QED BY <3>1, <3>2, <4>3, <4>4
    <3>3. CASE job[i].pc # "running" BY <3>1, <3>3 DEF JobInv, OwnRun
    <3> QED BY <3>2, <3>3
  <2> QED BY <2>1, <2>2
<1>8. ASSUME NEW r \in Recorded
      PROVE  /\ r # new /\ diffRuns'[r] = diffRuns[r] /\ ByAttempt(r)
             /\ IsPast(r, job[diffRuns[r].attempt[1]])
  BY <1>0, <1>1, <1>3 DEF JobInv, RowsArePast
<1>9. RowsArePast'
  <2> SUFFICES ASSUME NEW r \in Recorded'
               PROVE  ByAttempt(r)' /\ IsPast(r, job[diffRuns[r].attempt[1]])'
    BY DEF RowsArePast
  <2>1. CASE r \in Recorded
    <3>1. diffRuns[r].attempt \in Jobs \X (0 .. MaxRetries) BY <1>8, <2>1 DEF ByAttempt
    <3>2. CASE diffRuns[r].attempt[1] = j
      <4>1. diffRuns[r].attempt[2] < job[j].attempt /\ diffRuns[r].status = "FAILED"
        BY <1>8, <2>1, <3>2 DEF IsPast
      <4>2. next.attempt \in Nat /\ job[j].attempt \in Nat /\ diffRuns[r].attempt[2] \in Nat
        BY <1>0, <3>1 DEF JobStates
      <4> QED BY <1>6, <1>8, <2>1, <3>1, <3>2, <4>1, <4>2 DEF ByAttempt, IsPast
    <3>3. CASE diffRuns[r].attempt[1] # j
      BY <1>5, <1>8, <2>1, <3>1, <3>3 DEF ByAttempt, IsPast
    <3> QED BY <3>2, <3>3
  <2>2. CASE r \notin Recorded
    <3>1. r = new /\ diffRuns'[r] = row
      BY <1>2, <1>3, <2>2 DEF Recorded
    <3>2. row.attempt \in Jobs \X (0 .. MaxRetries) /\ row.attempt[1] = j
          /\ row.attempt[2] = job[j].attempt
      BY <1>0
    <3>3. row.status = "COMPLETED" \/ row.status = "FAILED" BY DEF DiffRunRows
    <3>4. next.attempt \in Nat /\ job[j].attempt \in Nat BY <1>0 DEF JobStates
    <3> QED BY <1>6, <3>1, <3>2, <3>3, <3>4 DEF ByAttempt, IsPast
  <2> QED BY <2>1, <2>2
<1>10. InOrder'
  <2> SUFFICES ASSUME NEW q \in Recorded', NEW r \in Recorded' PROVE Precedes(r, q)'
    BY DEF InOrder
  <2>1. CASE q \in Recorded /\ r \in Recorded
    BY <1>8, <2>1 DEF JobInv, InOrder, Precedes
  <2>2. ASSUME r \in Recorded, q \notin Recorded PROVE Precedes(r, q)'
    <3>1. q = new /\ diffRuns'[q] = row BY <1>2, <1>3, <2>2 DEF Recorded
    <3>2. diffRuns[r].attempt[1] = j =>
            diffRuns[r].attempt[2] < job[j].attempt /\ diffRuns[r].status = "FAILED"
      BY <1>8, <2>2 DEF IsPast
    <3> QED BY <1>8, <2>2, <3>1, <3>2 DEF Precedes
  <2>3. ASSUME r \notin Recorded, q \in Recorded PROVE Precedes(r, q)'
    <3>1. r = new /\ diffRuns'[r] = row BY <1>2, <1>3, <2>3 DEF Recorded
    <3>2. diffRuns[q].attempt[1] = j => q < new BY <1>8, <2>3 DEF IsPast
    <3>3. q \in Nat /\ new \in Nat BY <1>0, <1>3, <2>3
    <3> QED BY <1>8, <2>3, <3>1, <3>2, <3>3 DEF Precedes
  <2>4. CASE r \notin Recorded /\ q \notin Recorded
    <3>1. r = new /\ q = new /\ new \in Nat BY <1>0, <1>3, <2>4
    <3> QED BY <3>1 DEF Precedes
  <2> QED BY <2>1, <2>2, <2>3, <2>4
<1> QED BY <1>4, <1>7, <1>9, <1>10 DEF JobInv

LEMMA JobStep == JobInv /\ [ChangeNext]_changeVars => JobInv'
<1> SUFFICES ASSUME JobInv, [ChangeNext]_changeVars PROVE JobInv'
  OBVIOUS
<1> DEFINE Same == diffRuns' = diffRuns /\ job' = job
<1>1. ASSUME Same PROVE JobInv'
  BY <1>1 DEF JobInv, JobTypes, OwnRun, RowsArePast, InOrder, Recorded, ByAttempt, IsPast, Precedes
<1>2. ASSUME NEW j \in Jobs, StartDiff(j) PROVE JobInv' BY <1>2, StartKeepsOrder
<1>3. ASSUME NEW j \in Jobs, job[j].pc = "running"
      PROVE  job[j].attempt \in 0 .. MaxRetries /\ job \in [Jobs -> JobStates]
  BY DEF JobInv, JobTypes, JobStates
<1>4. ASSUME NEW j \in Jobs, CompleteDiff(j) PROVE JobInv'
  <2>1. job[j].pc = "running" /\ job' = [job EXCEPT ![j] = [NewJob EXCEPT !.pc = "done"]]
    BY <1>4 DEF CompleteDiff
  <2>2. PICK n \in 0 .. MaxChanges :
          diffRuns' = [diffRuns EXCEPT ![job[j].run] = RunRow(j, "COMPLETED", 1 .. n)]
    BY <1>4 DEF CompleteDiff
  <2> DEFINE next == [NewJob EXCEPT !.pc = "done"]
             row == RunRow(j, "COMPLETED", 1 .. n)
  <2>3. next \in JobStates /\ next.run = 0 /\ next.pc = "done"
    BY ChangeAssumption DEF NewJob, JobStates, MaxRetries
  <2>4. 1 .. n \subseteq 1 .. MaxChanges BY DEF MaxChanges
  <2>5. /\ row \in DiffRunRows /\ row.status = "COMPLETED"
        /\ row.attempt = <<j, job[j].attempt>>
    BY <1>3, <2>1, <2>4 DEF RunRow, DiffRunRows
  <2> HIDE DEF next, row
  <2> QED BY <2>1, <2>2, <2>3, <2>5, EndKeepsOrder DEF next, row
<1>5. ASSUME NEW j \in Jobs, FailDiff(j) PROVE JobInv'
  <2> DEFINE over == [NewJob EXCEPT !.pc = "failed"]
             again == [NewJob EXCEPT !.attempt = job[j].attempt + 1]
             row == RunRow(j, "FAILED", {})
  <2>1. job[j].pc = "running" BY <1>5 DEF FailDiff
  <2>2. PICK next \in {over, again} :
          /\ job' = [job EXCEPT ![j] = next]
          /\ next = again => job[j].attempt < MaxRetries \/ next = over
    BY <1>5 DEF FailDiff, RetriesLeft
  <2>3. diffRuns' = diffRuns \/ diffRuns' = [diffRuns EXCEPT ![job[j].run] = row]
    BY <1>5 DEF FailDiff
  <2>4. /\ row \in DiffRunRows /\ row.status = "FAILED"
        /\ row.attempt = <<j, job[j].attempt>>
    BY <1>3, <2>1 DEF RunRow, DiffRunRows
  <2>5. over \in JobStates /\ over.run = 0 /\ over.pc = "failed"
    BY ChangeAssumption DEF NewJob, JobStates, MaxRetries
  <2>6. ASSUME job[j].attempt < MaxRetries
        PROVE  /\ again \in JobStates /\ again.run = 0 /\ again.pc = "new"
               /\ again.attempt > job[j].attempt
    <3>1. job[j].attempt \in 0 .. MaxRetries BY <1>3, <2>1
    <3> DEFINE a == job[j].attempt + 1
    <3>2. a \in 0 .. MaxRetries /\ a > job[j].attempt BY <2>6, <3>1 DEF MaxRetries
    <3>3. again = [NewJob EXCEPT !.attempt = a] OBVIOUS
    <3> HIDE DEF a, again
    <3> QED BY <3>2, <3>3, ChangeAssumption DEF NewJob, JobStates
  <2>7. /\ next \in JobStates /\ next.run = 0 /\ next.pc # "running"
        /\ next.pc = "new" => next.attempt > job[j].attempt
    <3> HIDE DEF over, again
    <3> QED BY <2>2, <2>5, <2>6
  <2> HIDE DEF over, again, row
  <2> QED BY <2>1, <2>2, <2>3, <2>4, <2>7, EndKeepsOrder
<1>6. ASSUME NEW c \in Callers, Assess(c) \/ Restart(c) PROVE Same
  BY <1>6 DEF Assess, PickChange, LookUp, InsertNode, CommitLinks, ReadOthers, CommitOthers, Restart
<1>7. UNCHANGED changeVars => Same BY DEF changeVars
<1> HIDE DEF Same
<1> QED BY <1>1, <1>2, <1>4, <1>5, <1>6, <1>7 DEF ChangeNext

LEMMA AlwaysJobInv == ChangeSpec => []JobInv
BY InitJobs, JobStep, PTL DEF ChangeSpec

(* However many jobs run at once, a job leaves at most one run for each of
   its three attempts, and a completed run is the last of them. *)
THEOREM EveryRunIsAnAttempt == ChangeSpec => []RunsAreAttempts
<1>1. JobInv => RunsAreAttempts
  <2> SUFFICES ASSUME JobInv, NEW j \in Jobs
               PROVE  LET Mine == {r \in Recorded : diffRuns[r].attempt[1] = j}
                      IN  /\ Cardinality(Mine) <= MaxRetries + 1
                          /\ \A q, r \in Mine : diffRuns[q].status = "COMPLETED" /\ q # r =>
                               r < q /\ diffRuns[r].status = "FAILED"
    BY DEF RunsAreAttempts
  <2> DEFINE Mine == {r \in Recorded : diffRuns[r].attempt[1] = j}
             attemptOf == [r \in Mine |-> diffRuns[r].attempt[2]]
  <2>1. \A r \in Mine : diffRuns[r].attempt[2] \in 0 .. MaxRetries /\ r \in Nat
    BY DEF JobInv, RowsArePast, ByAttempt, Recorded, RunIds
  <2>2. ASSUME NEW q \in Mine, NEW r \in Mine, q # r
        PROVE  \/ diffRuns[r].attempt[2] < diffRuns[q].attempt[2]
                  /\ r < q /\ diffRuns[r].status = "FAILED"
               \/ diffRuns[q].attempt[2] < diffRuns[r].attempt[2]
                  /\ q < r /\ diffRuns[q].status = "FAILED"
    <3>1. Precedes(r, q) /\ Precedes(q, r) BY DEF JobInv, InOrder
    <3>2. q < r \/ r < q BY <2>1, <2>2
    <3> QED BY <3>1, <3>2 DEF Precedes
  <2>3. attemptOf \in Injection(Mine, 0 .. MaxRetries)
    <3>1. \A q, r \in Mine : q # r => attemptOf[q] # attemptOf[r]
      BY <2>1, <2>2
    <3>2. attemptOf \in [Mine -> 0 .. MaxRetries] BY <2>1
    <3> QED BY <3>1, <3>2 DEF Injection, IsInjective
  <2>4. IsFiniteSet(0 .. MaxRetries) /\ Cardinality(0 .. MaxRetries) = MaxRetries + 1
    BY FirstNumbers DEF MaxRetries
  <2>5. Cardinality(Mine) <= MaxRetries + 1
    <3> HIDE DEF Mine, attemptOf
    <3> QED BY <2>3, <2>4, FS_Injection
  <2>6. \A q, r \in Mine : diffRuns[q].status = "COMPLETED" /\ q # r =>
          r < q /\ diffRuns[r].status = "FAILED"
    BY <2>2
  <2> QED BY <2>5, <2>6
<1> QED BY <1>1, AlwaysJobInv, PTL
-----------------------------------------------------------------------------
CallerStates ==
  [pc : {"new", "picked", "looked up", "linking", "linked", "others", "raised", "done"},
   change : Changes \union {NoChange}, seenLink : BOOLEAN, seenEvidence : BOOLEAN,
   seenNode : BOOLEAN, missing : SUBSET Changes]
LinkTypes ==
  /\ links \in [Changes -> Nat]
  /\ evidence \in [Changes -> Nat]
  /\ assessments \in [Changes -> Nat]
  /\ nodes \subseteq Changes
  /\ caller \in [Callers -> CallerStates]

(* What a run of the script works on exists. *)
HasChange(me) ==
  /\ me.pc \in {"picked", "looked up", "linking", "linked"} => me.change \in Changes
  /\ me.pc \notin {"new", "raised", "done"} => Recorded # {}

(* The link of a change comes with its node, and both with the requirement. *)
NodeGuards ==
  /\ \A x \in Changes : links[x] = (IF x \in nodes THEN 1 ELSE 0) /\ evidence[x] <= links[x]
  /\ nodes # {} => EvidenceRows > 0

(* What was found when looking up stays, and the rows go together. *)
Found(me) ==
  me.pc \in {"looked up", "linking"} =>
    /\ me.seenLink = me.seenNode
    /\ me.seenNode => me.change \in nodes /\ me.seenEvidence
    /\ me.seenEvidence => EvidenceRows > 0
    /\ me.missing \subseteq {me.change}

(* Of the runs that create the node of a change one at a time is linking. *)
Creates(c) == caller[c].pc = "linking" /\ ~caller[c].seenNode
Creator ==
  \A c \in Callers : Creates(c) =>
    caller[c].change \notin nodes /\ HoldsNode(caller[c].change) = {c}

(* Without overlap, what was missing when looking up still is. *)
StillMissing(me) ==
  /\ me.pc \in {"looked up", "linking"} /\ ~me.seenEvidence => EvidenceRows = 0
  /\ me.pc \in {"looked up", "linking", "others"} => \A x \in me.missing : assessments[x] = 0
Alone ==
  /\ \A c, d \in Callers : Active(c) /\ Active(d) => c = d
  /\ \A c \in Callers : StillMissing(caller[c])
  /\ EvidenceRows <= 1
  /\ \A x \in Changes : assessments[x] <= 1

LinkInv ==
  /\ LinkTypes
  /\ \A c \in Callers : HasChange(caller[c]) /\ Found(caller[c])
  /\ NodeGuards
  /\ Creator
  /\ ~overlapped => Alone

(* The number of evidence rows is a natural number, and grows by one with the
   row of one change. *)
LEMMA EvidenceCounted ==
  ASSUME LinkTypes
  PROVE  /\ IsFiniteSet(Changes) /\ EvidenceRows \in Nat
         /\ \A x \in Changes : evidence[x] <= EvidenceRows
<1>1. IsFiniteSet(RunIds) /\ IsFiniteSet(1 .. MaxChanges)
  BY ChangeAssumption, FirstNumbers DEF RunIds, MaxChanges
<1>2. IsFiniteSet(Changes) BY <1>1, FS_Product DEF Changes
<1>3. \A x \in Changes : evidence[x] \in Nat BY DEF LinkTypes
<1>4. \A x \in Changes :
        SumFunctionOnSet(evidence, Changes) \in Nat
        /\ evidence[x] <= SumFunctionOnSet(evidence, Changes)
  BY <1>2, <1>3, SumAtLeast
<1>5. Changes = {} => SumFunctionOnSet(evidence, Changes) = 0 BY SumEmpty
<1> QED BY <1>2, <1>4, <1>5 DEF EvidenceRows

LEMMA EvidenceAdded ==
  ASSUME LinkTypes, NEW x \in Changes, evidence' = OneMore(evidence, {x})
  PROVE  EvidenceRows' = EvidenceRows + 1
<1> DEFINE more == OneMore(evidence, {x})
           Sum(f, S) == SumFunctionOnSet(f, S)
<1>1. IsFiniteSet(Changes) BY EvidenceCounted
<1>2. \A y \in Changes : evidence[y] \in Nat BY DEF LinkTypes
<1>3. \A y \in Changes : more[y] = evidence[y] + (IF y = x THEN 1 ELSE 0)
  BY DEF OneMore
<1> HIDE DEF more
<1>4. \A y \in Changes : more[y] \in Int /\ evidence[y] \in Int BY <1>2, <1>3
<1>5. Sum(more, Changes) = more[x] + Sum(more, Changes \ {x}) BY <1>1, <1>4, SumElement
<1>6. /\ Sum(evidence, Changes) = evidence[x] + Sum(evidence, Changes \ {x})
      /\ Sum(evidence, Changes \ {x}) \in Int
  BY <1>1, <1>4, SumElement
<1>7. Sum(more, Changes \ {x}) = Sum(evidence, Changes \ {x})
  <2>1. IsFiniteSet(Changes \ {x}) BY <1>1, FS_Subset
  <2>2. \A y \in Changes \ {x} : evidence[y] \in Int /\ more[y] = evidence[y]
    BY <1>2, <1>3
  <2> QED BY <2>1, <2>2, SumSame
<1>8. more[x] = evidence[x] + 1 BY <1>3
<1>9. Sum(more, Changes) = Sum(evidence, Changes) + 1
  BY <1>2, <1>5, <1>6, <1>7, <1>8
<1> QED BY <1>9 DEF EvidenceRows, more

LEMMA InitLinks == ChangeInit => LinkInv
<1> SUFFICES ASSUME ChangeInit PROVE LinkInv OBVIOUS
<1>1. LinkTypes BY DEF ChangeInit, LinkTypes, CallerStates, NewCaller
<1>2. EvidenceRows = 0
  <2>1. \A x \in Changes : evidence[x] = 0 BY DEF ChangeInit
  <2>2. \A x \in Changes : evidence[x] \in Int /\ evidence[x] + evidence[x] = evidence[x]
    BY <2>1
  <2>3. IsFiniteSet(Changes) /\ EvidenceRows \in Nat BY <1>1, EvidenceCounted
  <2>4. SumFunctionOnSet(evidence, Changes) =
          SumFunctionOnSet(evidence, Changes) + SumFunctionOnSet(evidence, Changes)
    BY <2>2, <2>3, SumAdded
  <2> DEFINE e == EvidenceRows
  <2>5. e = e + e BY <2>4 DEF EvidenceRows
  <2>6. e \in Nat BY <2>3
  <2> HIDE DEF e
  <2>7. e = 0 BY <2>5, <2>6
  <2> QED BY <2>7 DEF e
<1>3. \A c \in Callers : HasChange(caller[c]) /\ Found(caller[c])
  BY DEF ChangeInit, HasChange, Found, NewCaller
<1>4. NodeGuards BY DEF ChangeInit, NodeGuards
<1>5. Creator BY DEF ChangeInit, Creator, Creates, NewCaller
<1>6. Alone
  <2>1. \A c \in Callers : caller[c].pc = "new" BY DEF ChangeInit, NewCaller
  <2>2. \A x \in Changes : assessments[x] = 0 BY DEF ChangeInit
  <2>3. \A c \in Callers : ~Active(c) /\ StillMissing(caller[c])
    BY <2>1 DEF Active, StillMissing
  <2>4. EvidenceRows <= 1 BY <1>2
  <2>5. \A x \in Changes : assessments[x] <= 1 BY <2>2
  <2> QED BY <2>3, <2>4, <2>5 DEF Alone
<1> QED BY <1>1, <1>3, <1>4, <1>5, <1>6 DEF LinkInv

LEMMA NewestIsRecorded ==
  ASSUME Recorded # {} PROVE Newest \in Recorded /\ Newest \in RunIds
<1>1. Recorded \subseteq RunIds /\ RunIds \subseteq Int BY DEF Recorded, RunIds
<1>2. IsFiniteSet(Recorded) BY <1>1, ChangeAssumption, FirstNumbers, FS_Subset DEF RunIds
<1>3. \E r \in Recorded : \A q \in Recorded : q <= r BY <1>1, <1>2, LargestExists
<1> QED BY <1>1, <1>3 DEF Newest

(* No step of a diff job takes a run away. *)
LEMMA RunsStay ==
  ASSUME JobInv, NEW j \in Jobs, StartDiff(j) \/ CompleteDiff(j) \/ FailDiff(j)
  PROVE  Recorded \subseteq Recorded'
<1>1. diffRuns \in [RunIds -> DiffRunRows] BY DEF JobInv, JobTypes
<1>2. ASSUME NEW r \in RunIds, diffRuns[r].status # "none" PROVE diffRuns'[r].status # "none"
  <2>1. CASE StartDiff(j) BY <1>2, <2>1 DEF StartDiff
  <2>2. CASE CompleteDiff(j)
    <3>1. PICK n \in 0 .. MaxChanges :
            diffRuns' = [diffRuns EXCEPT ![job[j].run] = RunRow(j, "COMPLETED", 1 .. n)]
      BY <2>2 DEF CompleteDiff
    <3>2. RunRow(j, "COMPLETED", 1 .. n).status # "none" BY DEF RunRow
    <3> QED BY <1>1, <1>2, <3>1, <3>2
  <2>3. CASE FailDiff(j)
    <3>1. \/ diffRuns' = diffRuns
          \/ diffRuns' = [diffRuns EXCEPT ![job[j].run] = RunRow(j, "FAILED", {})]
      BY <2>3 DEF FailDiff
    <3>2. RunRow(j, "FAILED", {}).status # "none" BY DEF RunRow
    <3> QED BY <1>1, <1>2, <3>1, <3>2
  <2> QED BY <2>1, <2>2, <2>3
<1> QED BY <1>2 DEF Recorded

LEMMA JobsKeepLinks ==
  ASSUME LinkInv, assessmentVars' = assessmentVars, Recorded \subseteq Recorded'
  PROVE  LinkInv'
<1>1. /\ links' = links /\ evidence' = evidence /\ nodes' = nodes
      /\ assessments' = assessments /\ caller' = caller /\ overlapped' = overlapped
  BY DEF assessmentVars
<1>2. EvidenceRows' = EvidenceRows BY <1>1 DEF EvidenceRows
<1>3. LinkTypes' BY <1>1 DEF LinkInv, LinkTypes
<1>4. \A c \in Callers : HasChange(caller[c])' /\ Found(caller[c])'
  BY <1>1, <1>2 DEF LinkInv, HasChange, Found
<1>5. NodeGuards' BY <1>1, <1>2 DEF LinkInv, NodeGuards
<1>6. Creator' BY <1>1 DEF LinkInv, Creator, Creates, HoldsNode
<1>7. ~overlapped' => Alone' BY <1>1, <1>2 DEF LinkInv, Alone, Active, StillMissing
<1> QED BY <1>3, <1>4, <1>5, <1>6, <1>7 DEF LinkInv

(* A run of the script changes what it knows, and no row. *)
LEMMA CallersKeepLinks ==
  ASSUME LinkInv, NEW c \in Callers, NEW me \in CallerStates,
         caller' = [caller EXCEPT ![c] = me],
         UNCHANGED <<diffRuns, links, evidence, nodes, assessments>>,
         overlapped => overlapped',
         HasChange(me), Found(me),
         me.pc = "linking" /\ ~me.seenNode =>
           me.change \notin nodes /\ HoldsNode(me.change) \subseteq {c},
         ~overlapped' => StillMissing(me),
         ~overlapped' /\ me.pc \notin {"new", "raised", "done"} =>
           \A d \in Callers \ {c} : ~Active(d)
  PROVE  LinkInv'
<1>1. caller' \in [Callers -> CallerStates] /\ caller'[c] = me
      /\ \A d \in Callers : d # c => caller'[d] = caller[d]
  BY DEF LinkInv, LinkTypes
<1>2. EvidenceRows' = EvidenceRows BY DEF EvidenceRows
<1>3. Recorded' = Recorded BY DEF Recorded
<1>4. LinkTypes' BY <1>1 DEF LinkInv, LinkTypes
<1>5. \A d \in Callers : HasChange(caller[d])' /\ Found(caller[d])'
  <2> TAKE d \in Callers
  <2>1. HasChange(caller'[d]) /\ Found(caller'[d]) BY <1>1 DEF LinkInv
  <2> QED BY <1>2, <1>3, <2>1 DEF HasChange, Found
<1>6. NodeGuards' BY <1>2 DEF LinkInv, NodeGuards
<1>7. Creator'
  <2> SUFFICES ASSUME NEW d \in Callers, Creates(d)'
               PROVE  caller'[d].change \notin nodes /\ HoldsNode(caller[d].change)' = {d}
    BY DEF Creator
  <2>1. caller'[d].pc = "linking" /\ ~caller'[d].seenNode BY DEF Creates
  <2>2. CASE d = c
    <3>1. me.change \notin nodes /\ HoldsNode(me.change) \subseteq {c} BY <1>1, <2>1, <2>2
    <3>2. HoldsNode(me.change)' = {c} BY <1>1, <2>1, <2>2, <3>1 DEF HoldsNode
    <3> QED BY <1>1, <2>2, <3>1, <3>2
  <2>3. CASE d # c
    <3>1. caller'[d] = caller[d] BY <1>1, <2>3
    <3>2. caller[d].change \notin nodes /\ HoldsNode(caller[d].change) = {d}
      BY <2>1, <3>1 DEF LinkInv, Creator, Creates
    <3>3. ~(me.pc = "linking" /\ me.change = caller[d].change)
      <4> SUFFICES ASSUME me.pc = "linking", me.change = caller[d].change PROVE FALSE
        OBVIOUS
      <4>1. CASE me.seenNode BY <3>2, <4>1 DEF Found
      <4>2. CASE ~me.seenNode BY <2>3, <3>2, <4>2
      <4> QED BY <4>1, <4>2
    <3> QED BY <1>1, <3>1, <3>2, <3>3 DEF HoldsNode
  <2> QED BY <2>2, <2>3
<1>8. ASSUME ~overlapped' PROVE Alone'
  <2>1. Alone /\ ~overlapped BY <1>8 DEF LinkInv
  <2>2. \A d \in Callers : StillMissing(caller[d])'
    <3> TAKE d \in Callers
    <3>1. StillMissing(caller'[d]) BY <1>1, <1>8, <2>1 DEF Alone
    <3> QED BY <1>2, <3>1 DEF StillMissing
  <2>3. \A d, e \in Callers : Active(d)' /\ Active(e)' => d = e
    BY <1>1, <1>8, <2>1 DEF Alone, Active
  <2> QED BY <1>2, <2>1, <2>2, <2>3 DEF Alone
<1> QED BY <1>4, <1>5, <1>6, <1>7, <1>8 DEF LinkInv

(* Starting over, and ending without a commit. *)
LEMMA IdleKeepsLinks ==
  ASSUME LinkInv, NEW c \in Callers, NEW pc \in {"new", "raised", "done"},
         caller' = [caller EXCEPT ![c] = [NewCaller EXCEPT !.pc = pc]],
         UNCHANGED <<diffRuns, links, evidence, nodes, assessments>>,
         overlapped => overlapped'
  PROVE  LinkInv'
<1> DEFINE me == [NewCaller EXCEPT !.pc = pc]
<1>1. me \in CallerStates /\ me.pc = pc /\ me.missing = {} /\ me.pc # "linking"
  BY DEF NewCaller, CallerStates
<1>2. caller' = [caller EXCEPT ![c] = me] OBVIOUS
<1>3. HasChange(me) /\ Found(me) /\ StillMissing(me)
  <2> HIDE DEF me
  <2> QED BY <1>1 DEF HasChange, Found, StillMissing
<1> HIDE DEF me
<1> QED BY <1>1, <1>2, <1>3, CallersKeepLinks

LEMMA PickKeepsLinks ==
  ASSUME JobInv, LinkInv, NEW c \in Callers, PickChange(c) PROVE LinkInv'
<1> DEFINE me == [caller[c] EXCEPT !.pc = "picked", !.change = <<Newest, 1>>]
<1>1. /\ caller[c].pc = "new" /\ overlapped' = (overlapped \/ \E d \in Callers : Active(d))
      /\ UNCHANGED <<diffRuns, links, evidence, nodes, assessments>>
  BY DEF PickChange
<1>2. CASE Ended(c, "raised") BY <1>1, <1>2, IdleKeepsLinks DEF Ended
<1>3. CASE Recorded # {} /\ caller' = [caller EXCEPT ![c] = me]
  <2>1. <<Newest, 1>> \in Changes BY <1>3, NewestIsRecorded DEF Changes, MaxChanges
  <2>2. caller[c] \in CallerStates BY DEF LinkInv, LinkTypes
  <2> DEFINE x == <<Newest, 1>>
  <2>3. x \in Changes /\ me = [caller[c] EXCEPT !.pc = "picked", !.change = x] BY <2>1
  <2> HIDE DEF me, x
  <2>4. me \in CallerStates /\ me.pc = "picked" /\ me.change \in Changes
    BY <2>2, <2>3 DEF CallerStates
  <2>5. HasChange(me) /\ Found(me) /\ StillMissing(me)
    BY <1>3, <2>4 DEF HasChange, Found, StillMissing
  <2>6. ~overlapped' => \A d \in Callers \ {c} : ~Active(d) BY <1>1
  <2>7. me.pc # "linking" BY <2>4
  <2> QED BY <1>1, <1>3, <2>4, <2>5, <2>6, <2>7, CallersKeepLinks
<1> HIDE DEF me
<1> QED BY <1>2, <1>3 DEF PickChange, me

(* What an active run of the script may rely on when none overlaps it. *)
LEMMA OthersIdle ==
  ASSUME LinkInv, NEW c \in Callers, Active(c), ~overlapped
  PROVE  \A d \in Callers \ {c} : ~Active(d)
BY DEF LinkInv, Alone

LEMMA LookUpKeepsLinks ==
  ASSUME LinkInv, NEW c \in Callers, LookUp(c) PROVE LinkInv'
<1> DEFINE x == caller[c].change
           me == [pc |-> "looked up", change |-> x, seenLink |-> links[x] > 0,
                  seenEvidence |-> EvidenceRows > 0, seenNode |-> x \in nodes,
                  missing |-> Unassessed({x})]
<1>1. /\ caller[c].pc = "picked" /\ overlapped' = overlapped
      /\ UNCHANGED <<diffRuns, links, evidence, nodes, assessments>>
  BY DEF LookUp
<1>2. CASE Ended(c, "raised") BY <1>1, <1>2, IdleKeepsLinks DEF Ended
<1>3. CASE caller' = [caller EXCEPT ![c] = me]
  <2>1. x \in Changes /\ Recorded # {} BY <1>1 DEF LinkInv, HasChange
  <2>2. links[x] = (IF x \in nodes THEN 1 ELSE 0) /\ (x \in nodes => EvidenceRows > 0)
    BY <2>1 DEF LinkInv, NodeGuards
  <2>3. EvidenceRows \in Nat BY EvidenceCounted DEF LinkInv
  <2>4. me \in CallerStates BY <2>1 DEF CallerStates, Unassessed
  <2>5. /\ me.pc = "looked up" /\ me.change = x /\ me.seenLink = me.seenNode
        /\ me.seenNode = (x \in nodes) /\ me.seenEvidence = (EvidenceRows > 0)
        /\ me.missing \subseteq {x} /\ \A y \in me.missing : assessments[y] = 0
    BY <2>2 DEF Unassessed
  <2> HIDE DEF me
  <2>6. HasChange(me) BY <2>1, <2>5 DEF HasChange
  <2>7. Found(me) BY <2>2, <2>5 DEF Found
  <2>8. ~me.seenEvidence => EvidenceRows = 0
    <3>1. ~(EvidenceRows > 0) => EvidenceRows = 0 BY <2>3
    <3> QED BY <2>5, <3>1
  <2>9. StillMissing(me) BY <2>5, <2>8 DEF StillMissing
  <2>10. ~overlapped' => \A d \in Callers \ {c} : ~Active(d)
    BY <1>1, OthersIdle DEF Active
  <2>11. me.pc # "linking" BY <2>5
  <2> QED BY <1>1, <1>3, <2>4, <2>6, <2>7, <2>9, <2>10, <2>11, CallersKeepLinks
<1>4. Ended(c, "raised") \/ caller' = [caller EXCEPT ![c] = me] BY DEF LookUp
<1> HIDE DEF me
<1> QED BY <1>2, <1>3, <1>4

LEMMA InsertKeepsLinks ==
  ASSUME LinkInv, NEW c \in Callers, InsertNode(c) PROVE LinkInv'
<1> DEFINE x == caller[c].change
           me == [caller[c] EXCEPT !.pc = "linking"]
<1>1. /\ caller[c].pc = "looked up" /\ overlapped' = overlapped
      /\ UNCHANGED <<diffRuns, links, evidence, nodes, assessments>>
      /\ caller[c].seenNode \/ HoldsNode(x) = {}
  BY DEF InsertNode
<1>2. CASE Ended(c, "raised") BY <1>1, <1>2, IdleKeepsLinks DEF Ended
<1>3. CASE (caller[c].seenNode \/ x \notin nodes) /\ caller' = [caller EXCEPT ![c] = me]
  <2>1. caller[c] \in CallerStates BY DEF LinkInv, LinkTypes
  <2>2. /\ me \in CallerStates /\ me.pc = "linking" /\ me.change = x
        /\ me.seenNode = caller[c].seenNode /\ me.seenLink = caller[c].seenLink
        /\ me.seenEvidence = caller[c].seenEvidence /\ me.missing = caller[c].missing
    BY <2>1 DEF CallerStates
  <2> HIDE DEF me
  <2>3. HasChange(me) /\ Found(me)
    BY <1>1, <2>2 DEF LinkInv, HasChange, Found
  <2>4. ~overlapped' => StillMissing(me) BY <1>1, <2>2 DEF LinkInv, Alone, StillMissing
  <2>5. ~overlapped' => \A d \in Callers \ {c} : ~Active(d)
    BY <1>1, OthersIdle DEF Active
  <2>6. ~me.seenNode => me.change \notin nodes /\ HoldsNode(me.change) \subseteq {c}
    BY <1>1, <1>3, <2>2
  <2> QED BY <1>1, <1>3, <2>2, <2>3, <2>4, <2>5, <2>6, CallersKeepLinks
<1>4. \/ Ended(c, "raised")
      \/ (caller[c].seenNode \/ x \notin nodes) /\ caller' = [caller EXCEPT ![c] = me]
  BY DEF InsertNode, NodeTaken
<1> HIDE DEF me
<1> QED BY <1>2, <1>3, <1>4

LEMMA ReadKeepsLinks ==
  ASSUME JobInv, LinkInv, NEW c \in Callers, ReadOthers(c) PROVE LinkInv'
<1> DEFINE others == Unassessed(ChangesOf(Newest) \ {caller[c].change})
           me == [caller[c] EXCEPT !.pc = "others", !.missing = others]
<1>1. /\ caller[c].pc = "linked" /\ overlapped' = overlapped
      /\ UNCHANGED <<diffRuns, links, evidence, nodes, assessments>>
  BY DEF ReadOthers
<1>2. CASE Ended(c, "raised") BY <1>1, <1>2, IdleKeepsLinks DEF Ended
<1>3. CASE caller' = [caller EXCEPT ![c] = me]
  <2>1. Recorded # {} BY <1>1 DEF LinkInv, HasChange
  <2>2. Newest \in RunIds BY <2>1, NewestIsRecorded
  <2>3. diffRuns[Newest].changes \subseteq 1 .. MaxChanges
    BY <2>2 DEF JobInv, JobTypes, DiffRunRows
  <2>4. others \subseteq Changes /\ \A y \in others : assessments[y] = 0
    BY <2>2, <2>3 DEF Unassessed, ChangesOf, Changes
  <2>5. caller[c] \in CallerStates BY DEF LinkInv, LinkTypes
  <2> HIDE DEF others
  <2>6. me \in CallerStates /\ me.pc = "others" /\ me.missing = others
    BY <2>4, <2>5 DEF CallerStates
  <2> HIDE DEF me
  <2>7. HasChange(me) /\ Found(me) /\ StillMissing(me)
    BY <2>1, <2>4, <2>6 DEF HasChange, Found, StillMissing
  <2>8. ~overlapped' => \A d \in Callers \ {c} : ~Active(d)
    BY <1>1, OthersIdle DEF Active
  <2>9. me.pc # "linking" BY <2>6
  <2> QED BY <1>1, <1>3, <2>6, <2>7, <2>8, <2>9, CallersKeepLinks
<1>4. Ended(c, "raised") \/ caller' = [caller EXCEPT ![c] = me] BY DEF ReadOthers
<1> HIDE DEF me
<1> QED BY <1>2, <1>3, <1>4

(* The first transaction commits what was missing when it looked. *)
LEMMA LinksKeepLinks ==
  ASSUME LinkInv, NEW c \in Callers, CommitLinks(c) PROVE LinkInv'
<1> DEFINE me == caller[c]
           x == me.change
           next == [NewCaller EXCEPT !.pc = "linked", !.change = x]
<1>1. /\ me.pc = "linking" /\ overlapped' = overlapped /\ diffRuns' = diffRuns
      /\ links' = OneMore(links, IF me.seenLink THEN {} ELSE {x})
      /\ evidence' = OneMore(evidence, IF me.seenEvidence THEN {} ELSE {x})
      /\ nodes' = nodes \union {x}
      /\ assessments' = OneMore(assessments, me.missing)
      /\ caller' = [caller EXCEPT ![c] = next]
  BY DEF CommitLinks
<1>2. LinkTypes /\ NodeGuards /\ Creator /\ x \in Changes /\ Recorded # {}
  BY <1>1 DEF LinkInv, HasChange
<1>3. /\ me.seenLink = me.seenNode
      /\ me.seenNode => x \in nodes /\ me.seenEvidence
      /\ me.seenEvidence => EvidenceRows > 0
      /\ me.missing \subseteq {x}
  BY <1>1 DEF LinkInv, Found
<1>4. ~me.seenNode => x \notin nodes /\ HoldsNode(x) = {c}
  BY <1>1, <1>2 DEF Creator, Creates
<1>5. /\ next \in CallerStates /\ next.pc = "linked" /\ next.change = x
  BY <1>2 DEF NewCaller, CallerStates
<1> HIDE DEF next
<1>6. /\ caller' \in [Callers -> CallerStates] /\ caller'[c] = next
      /\ \A d \in Callers : d # c => caller'[d] = caller[d]
  BY <1>1, <1>2, <1>5 DEF LinkTypes
<1>7. /\ links \in [Changes -> Nat] /\ evidence \in [Changes -> Nat]
      /\ assessments \in [Changes -> Nat] /\ nodes \subseteq Changes
  BY <1>2 DEF LinkTypes
<1>8. LinkTypes' BY <1>1, <1>2, <1>6, <1>7 DEF LinkTypes, OneMore
<1>9. Recorded' = Recorded BY <1>1 DEF Recorded
<1>10. \A y \in Changes : /\ y # x => links'[y] = links[y] /\ evidence'[y] = evidence[y]
                          /\ links'[x] = links[x] + (IF me.seenLink THEN 0 ELSE 1)
                          /\ evidence'[x] = evidence[x] + (IF me.seenEvidence THEN 0 ELSE 1)
                          /\ assessments'[y] = assessments[y] + (IF y \in me.missing THEN 1 ELSE 0)
  BY <1>1, <1>2, <1>7 DEF OneMore
<1>11. EvidenceRows \in Nat BY <1>2, EvidenceCounted
<1>12. /\ me.seenEvidence => EvidenceRows' = EvidenceRows
       /\ ~me.seenEvidence => EvidenceRows' = EvidenceRows + 1
  <2>1. CASE me.seenEvidence
    <3>1. evidence' = evidence BY <1>1, <1>7, <2>1 DEF OneMore
    <3> QED BY <2>1, <3>1 DEF EvidenceRows
  <2>2. CASE ~me.seenEvidence
    <3>1. evidence' = OneMore(evidence, {x}) BY <1>1, <2>2
    <3> QED BY <1>2, <2>2, <3>1, EvidenceAdded
  <2> QED BY <2>1, <2>2
<1>13. EvidenceRows' > 0 /\ (EvidenceRows > 0 => EvidenceRows' > 0)
  BY <1>3, <1>11, <1>12
<1>14. NodeGuards'
  <2>1. ASSUME NEW y \in Changes
        PROVE  links'[y] = (IF y \in nodes' THEN 1 ELSE 0) /\ evidence'[y] <= links'[y]
    <3>1. links[y] = (IF y \in nodes THEN 1 ELSE 0) /\ evidence[y] <= links[y]
          /\ evidence[y] \in Nat
      BY <1>2, <1>7 DEF NodeGuards
    <3>2. CASE y # x BY <1>1, <1>10, <3>1, <3>2
    <3>3. CASE y = x /\ me.seenNode
      <4>1. me.seenLink /\ me.seenEvidence /\ x \in nodes /\ x \in nodes' BY <1>1, <1>3, <3>3
      <4>2. links'[x] = links[x] /\ evidence'[x] = evidence[x] BY <1>2, <1>7, <1>10, <4>1
      <4> QED BY <3>1, <3>3, <4>1, <4>2
    <3>4. CASE y = x /\ ~me.seenNode
      <4>1. ~me.seenLink /\ x \notin nodes /\ x \in nodes' BY <1>1, <1>3, <1>4, <3>4
      <4>2. links[x] = 0 /\ evidence[x] = 0 BY <3>1, <3>4, <4>1
      <4>3. links'[x] = 1 BY <1>10, <4>1, <4>2, <1>2
      <4>4. evidence'[x] <= 1 BY <1>10, <4>2, <1>2
      <4> QED BY <3>4, <4>1, <4>3, <4>4
    <3> QED BY <3>2, <3>3, <3>4
  <2> QED BY <1>13, <2>1 DEF NodeGuards
<1>15. \A d \in Callers : HasChange(caller[d])' /\ Found(caller[d])'
  <2> TAKE d \in Callers
  <2>1. CASE d = c BY <1>2, <1>5, <1>6, <1>9, <2>1 DEF HasChange, Found
  <2>2. CASE d # c
    <3>1. HasChange(caller[d]) /\ Found(caller[d]) BY DEF LinkInv
    <3>2. nodes \subseteq nodes' BY <1>1
    <3> QED BY <1>6, <1>9, <1>13, <2>2, <3>1, <3>2 DEF HasChange, Found
  <2> QED BY <2>1, <2>2
<1>16. Creator'
  <2> SUFFICES ASSUME NEW d \in Callers, Creates(d)'
               PROVE  caller'[d].change \notin nodes' /\ HoldsNode(caller[d].change)' = {d}
    BY DEF Creator
  <2>1. d # c /\ caller'[d] = caller[d] /\ Creates(d) BY <1>5, <1>6 DEF Creates
  <2>2. caller[d].change \notin nodes /\ HoldsNode(caller[d].change) = {d}
    BY <1>2, <2>1 DEF Creator
  <2>3. caller[d].change # x
    <3>1. CASE me.seenNode BY <1>3, <2>2, <3>1
    <3>2. CASE ~me.seenNode
      <4>1. HoldsNode(x) = {c} /\ caller[d].pc = "linking" BY <1>4, <2>1, <3>2 DEF Creates
      <4>2. caller[d].change = x => d \in HoldsNode(x) BY <4>1 DEF HoldsNode
      <4> QED BY <2>1, <4>1, <4>2
    <3> QED BY <3>1, <3>2
  <2>5. HoldsNode(caller[d].change)' = {d} BY <1>5, <1>6, <2>1, <2>2 DEF HoldsNode
  <2> QED BY <1>1, <2>1, <2>2, <2>3, <2>5
<1>17. ASSUME ~overlapped' PROVE Alone'
  <2>1. Alone /\ \A d \in Callers \ {c} : ~Active(d)
    BY <1>1, <1>17, OthersIdle DEF LinkInv, Active
  <2>2. StillMissing(me) BY <2>1 DEF Alone
  <2>3. EvidenceRows' <= 1
    <3>1. EvidenceRows <= 1 /\ (~me.seenEvidence => EvidenceRows = 0)
      BY <1>1, <2>1, <2>2 DEF Alone, StillMissing
    <3> QED BY <1>11, <1>12, <3>1
  <2>4. ASSUME NEW y \in Changes PROVE assessments'[y] <= 1
    <3>1. assessments[y] <= 1 /\ assessments[y] \in Nat BY <1>7, <2>1 DEF Alone
    <3>2. y \in me.missing => assessments[y] = 0 BY <1>1, <2>2 DEF StillMissing
    <3> QED BY <1>10, <3>1, <3>2
  <2>5. \A d \in Callers \ {c} : ~Active(d)' BY <1>6, <2>1 DEF Active
  <2>6. \A d \in Callers : StillMissing(caller[d])'
    <3> TAKE d \in Callers
    <3>1. CASE d = c
      <4>1. caller'[d].pc = "linked" BY <1>5, <1>6, <3>1
      <4> QED BY <4>1 DEF StillMissing
    <3>2. CASE d # c
      <4>1. caller'[d].pc \in {"new", "raised", "done"} BY <2>5, <3>2 DEF Active
      <4> QED BY <4>1 DEF StillMissing
    <3> QED BY <3>1, <3>2
  <2> QED BY <2>3, <2>4, <2>5, <2>6 DEF Alone
<1> QED BY <1>8, <1>14, <1>15, <1>16, <1>17 DEF LinkInv

(* The second transaction. *)
LEMMA OthersKeepLinks ==
  ASSUME LinkInv, NEW c \in Callers, CommitOthers(c) PROVE LinkInv'
<1> DEFINE me == caller[c]
           next == [NewCaller EXCEPT !.pc = "done"]
<1>1. /\ me.pc = "others" /\ overlapped' = overlapped
      /\ UNCHANGED <<diffRuns, links, evidence, nodes>>
      /\ assessments' = OneMore(assessments, me.missing)
      /\ caller' = [caller EXCEPT ![c] = next]
  BY DEF CommitOthers, Ended
<1>2. next \in CallerStates /\ next.pc = "done" BY DEF NewCaller, CallerStates
<1> HIDE DEF next
<1>3. /\ caller' \in [Callers -> CallerStates] /\ caller'[c] = next
      /\ \A d \in Callers : d # c => caller'[d] = caller[d]
  BY <1>1, <1>2 DEF LinkInv, LinkTypes
<1>4. assessments \in [Changes -> Nat] BY DEF LinkInv, LinkTypes
<1>5. LinkTypes' BY <1>1, <1>3, <1>4 DEF LinkInv, LinkTypes, OneMore
<1>6. Recorded' = Recorded /\ EvidenceRows' = EvidenceRows BY <1>1 DEF Recorded, EvidenceRows
<1>7. \A d \in Callers : HasChange(caller[d])' /\ Found(caller[d])'
  <2> TAKE d \in Callers
  <2>1. CASE d = c BY <1>2, <1>3, <2>1 DEF HasChange, Found
  <2>2. CASE d # c
    <3>1. HasChange(caller[d]) /\ Found(caller[d]) BY DEF LinkInv
    <3> QED BY <1>1, <1>3, <1>6, <2>2, <3>1 DEF HasChange, Found
  <2> QED BY <2>1, <2>2
<1>8. NodeGuards' BY <1>1, <1>6 DEF LinkInv, NodeGuards
<1>9. Creator'
  <2> SUFFICES ASSUME NEW d \in Callers, Creates(d)'
               PROVE  caller'[d].change \notin nodes' /\ HoldsNode(caller[d].change)' = {d}
    BY DEF Creator
  <2>1. d # c /\ caller'[d] = caller[d] /\ Creates(d) BY <1>2, <1>3 DEF Creates
  <2>2. caller[d].change \notin nodes /\ HoldsNode(caller[d].change) = {d}
    BY <2>1 DEF LinkInv, Creator
  <2>3. HoldsNode(caller[d].change)' = {d} BY <1>2, <1>3, <2>1, <2>2 DEF HoldsNode
  <2> QED BY <1>1, <2>1, <2>2, <2>3
<1>10. ASSUME ~overlapped' PROVE Alone'
  <2>1. Alone /\ \A d \in Callers \ {c} : ~Active(d)
    BY <1>1, <1>10, OthersIdle DEF LinkInv, Active
  <2>2. StillMissing(me) BY <2>1 DEF Alone
  <2>3. ASSUME NEW y \in Changes PROVE assessments'[y] <= 1
    <3>1. assessments[y] <= 1 /\ assessments[y] \in Nat BY <1>4, <2>1 DEF Alone
    <3>2. y \in me.missing => assessments[y] = 0 BY <1>1, <2>2 DEF StillMissing
    <3> QED BY <1>1, <1>4, <3>1, <3>2 DEF OneMore
  <2>4. \A d \in Callers : ~Active(d)' BY <1>2, <1>3, <2>1 DEF Active
  <2>5. \A d \in Callers : StillMissing(caller[d])' BY <2>4 DEF Active, StillMissing
  <2>6. EvidenceRows' <= 1 BY <1>6, <2>1 DEF Alone
  <2> QED BY <2>3, <2>4, <2>5, <2>6 DEF Alone
<1> QED BY <1>5, <1>7, <1>8, <1>9, <1>10 DEF LinkInv

LEMMA LinkStep == JobInv /\ LinkInv /\ [ChangeNext]_changeVars => LinkInv'
<1> SUFFICES ASSUME JobInv, LinkInv, [ChangeNext]_changeVars PROVE LinkInv'
  OBVIOUS
<1>1. ASSUME NEW j \in Jobs, StartDiff(j) \/ CompleteDiff(j) \/ FailDiff(j) PROVE LinkInv'
  <2>1. assessmentVars' = assessmentVars BY <1>1 DEF StartDiff, CompleteDiff, FailDiff
  <2> QED BY <1>1, <2>1, RunsStay, JobsKeepLinks
<1>2. ASSUME NEW c \in Callers, Assess(c) PROVE LinkInv'
  BY <1>2, PickKeepsLinks, LookUpKeepsLinks, InsertKeepsLinks, LinksKeepLinks,
     ReadKeepsLinks, OthersKeepLinks DEF Assess
<1>3. ASSUME NEW c \in Callers, Restart(c) PROVE LinkInv'
  <2>1. [NewCaller EXCEPT !.pc = "new"] = NewCaller
    <3> DEFINE idle == NewCaller
    <3>1. idle \in CallerStates /\ idle.pc = "new" BY DEF NewCaller, CallerStates
    <3> HIDE DEF idle
    <3>2. [idle EXCEPT !.pc = "new"] = idle BY <3>1 DEF CallerStates
    <3> QED BY <3>2 DEF idle
  <2>2. /\ caller' = [caller EXCEPT ![c] = [NewCaller EXCEPT !.pc = "new"]]
        /\ UNCHANGED <<diffRuns, links, evidence, nodes, assessments>>
        /\ overlapped' = overlapped
    BY <1>3, <2>1 DEF Restart
  <2> QED BY <2>2, IdleKeepsLinks
<1>4. CASE UNCHANGED changeVars
  <2>1. assessmentVars' = assessmentVars /\ Recorded' = Recorded
    BY <1>4 DEF changeVars, Recorded
  <2> QED BY <2>1, JobsKeepLinks
<1> QED BY <1>1, <1>2, <1>3, <1>4 DEF ChangeNext

(* However many runs of the script overlap, a change is linked once; without
   overlap it is assessed once and its evidence requirement exists once. *)
THEOREM EveryChangeLinkedOnce == ChangeSpec => []LinkedOnce
<1>1. LinkInv => LinkedOnce
  <2> SUFFICES ASSUME LinkInv PROVE LinkedOnce OBVIOUS
  <2>1. ASSUME NEW x \in Changes PROVE links[x] <= 1 /\ evidence[x] <= 1
    <3>1. links[x] = (IF x \in nodes THEN 1 ELSE 0) /\ evidence[x] <= links[x]
          /\ evidence[x] \in Nat
      BY DEF LinkInv, NodeGuards, LinkTypes
    <3> QED BY <3>1
  <2>2. ~overlapped => EvidenceRows <= 1 /\ \A x \in Changes : assessments[x] <= 1
    BY DEF LinkInv, Alone
  <2> QED BY <2>1, <2>2 DEF LinkedOnce
<1> QED BY <1>1, AlwaysJobInv, InitLinks, LinkStep, PTL DEF ChangeSpec
=============================================================================
