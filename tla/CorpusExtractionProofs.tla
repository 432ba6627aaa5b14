----------------------- MODULE CorpusExtractionProofs -----------------------
(***************************************************************************)
(* Safety of the extraction script.  For any number of processes,          *)
(* documents, chunks, starts and faults: types, and publications that are  *)
(* whole.  For one operator: ResumeInv, what a restarted script can rely   *)
(* on, and RefinementInv, by which the script implements                   *)
(* RegistryPublication.                                                    *)
(***************************************************************************)
EXTENDS CorpusExtraction, FiniteSetTheorems, WellFoundedInduction, TLAPS

(* The largest of some numbers below a bound is one of them. *)
LEMMA MaxIsMember ==
  ASSUME NEW N \in Nat, NEW S \in SUBSET (0 .. N), S # {}
  PROVE  Max(S) \in S /\ \A y \in S : Max(S) >= y
<1> DEFINE T == {n \in Nat : N - n \in S}
<1>1. T \subseteq Nat /\ T # {}
  <2>1. PICK x \in S : TRUE OBVIOUS
  <2>2. N - x \in Nat /\ N - (N - x) = x BY <2>1
  <2> QED BY <2>1, <2>2
<1>2. PICK n \in T : \A m \in T : <<m, n>> \notin OpToRel(<, Nat)
  BY <1>1, WFMin, NatLessThanWellFounded, Zenon
<1>3. \A m \in T : ~(m < n) BY <1>1, <1>2, Zenon DEF OpToRel
<1>4. N - n \in S /\ \A y \in S : N - n >= y
  <2> SUFFICES ASSUME NEW y \in S PROVE N - n >= y BY <1>2
  <2>1. y \in Nat /\ y <= N OBVIOUS
  <2>2. N - y \in T BY <2>1
  <2>3. ~(N - y < n) BY <2>2, <1>3
  <2>4. n \in Nat BY <1>1
  <2> HIDE DEF T
  <2> QED BY <2>1, <2>3, <2>4
<1>5. \E x \in S : \A y \in S : x >= y BY <1>4
<1> QED BY <1>5 DEF Max

-----------------------------------------------------------------------------
HoldsRun == {"adopt", "work", "record", "pause"}
InHand == \A p \in Processes : process[p].pc \in HoldsRun => process[p].run \in RunIds
TypeInv == TypeOK /\ InHand

LEMMA Numbers ==
  /\ MaxStarts \in Nat /\ NumDocuments \in Nat /\ 1 \in Documents
  /\ MaxStarts * NumDocuments \in Nat
  /\ 0 \in Corpora /\ 0 \in MaybeRun /\ RunIds \subseteq MaybeRun
  /\ \A d \in Documents : ChunksOf[d] \subseteq Chunks
<1>1. MaxStarts \in Nat /\ NumDocuments \in Nat /\ NumDocuments # 0
      /\ ChunksOf \in [Documents -> SUBSET Chunks]
  BY ConstantsAssumption
<1>2. MaxStarts * NumDocuments \in Nat BY <1>1
<1> QED BY <1>1, <1>2 DEF Documents, Corpora, MaybeRun, RunIds

LEMMA IdleTypes == ASSUME config \in Configs PROVE Idle \in Locals
<1>1. (CHOOSE c \in Configs : TRUE) \in Configs OBVIOUS
<1>2. NotReady \in [Documents -> [run : MaybeRun, sections : SUBSET Chunks]]
  BY Numbers DEF NotReady
<1> QED BY <1>1, <1>2, Numbers DEF Idle, Locals, PCs, RunStatuses, Corpora

LEMMA NoRunTypes == ASSUME config \in Configs PROVE NoRun \in RunRow
<1>1. (CHOOSE c \in Configs : TRUE) \in Configs OBVIOUS
<1> QED BY <1>1, Numbers DEF NoRun, RunRow, RunStatuses

LEMMA InitTypes == Init => TypeInv
<1> SUFFICES ASSUME Init PROVE TypeInv OBVIOUS
<1> USE DEF Init
<1>1. runs \in [RunIds -> RunRow] BY NoRunTypes
<1>2. calls \in [RunIds -> [Chunks -> Nat]] OBVIOUS
<1>3. active \subseteq ObligationRow
  BY Numbers DEF RowsOf, ObligationRow, Corpora
<1>4. process \in [Processes -> Locals] BY IdleTypes
<1>5. starts \in 0 .. MaxStarts /\ faults \in 0 .. MaxFaults BY ConstantsAssumption
<1>6. InHand BY DEF InHand, HoldsRun, Idle
<1> QED BY <1>1, <1>2, <1>3, <1>4, <1>5, <1>6 DEF TypeInv, TypeOK

(* A step of process p that gives it a well-typed local state, and keeps the
   types of the database, keeps them all. *)
LEMMA OneProcess ==
  ASSUME TypeInv, NEW p \in Processes, NEW next,
         next \in Locals, next.pc \in HoldsRun => next.run \in RunIds,
         process' = [process EXCEPT ![p] = next]
  PROVE  process' \in [Processes -> Locals] /\ InHand'
<1>1. process' \in [Processes -> Locals] BY DEF TypeInv, TypeOK
<1>2. ASSUME NEW q \in Processes, process'[q].pc \in HoldsRun PROVE process'[q].run \in RunIds
  <2>1. CASE q = p BY <1>2, <2>1 DEF TypeInv, TypeOK
  <2>2. CASE q # p BY <1>2, <2>2 DEF TypeInv, TypeOK, InHand
  <2> QED BY <2>1, <2>2
<1> QED BY <1>1, <1>2 DEF InHand

LEMMA LocalTypes ==
  ASSUME TypeInv, NEW p \in Processes
  PROVE  /\ process[p] \in Locals
         /\ process[p].start \in Corpora /\ process[p].config \in Configs
         /\ process[p].corpus \in Corpora /\ process[p].document \in Documents
         /\ process[p].run \in MaybeRun /\ process[p].seen \subseteq Chunks
         /\ process[p].seenStatus \in RunStatuses /\ process[p].todo \subseteq Chunks
         /\ process[p].answered \subseteq Chunks /\ process[p].chunk \subseteq Chunks
         /\ process[p].ready \in [Documents -> [run : MaybeRun, sections : SUBSET Chunks]]
         /\ process[p].superseded \subseteq ObligationRow
BY DEF TypeInv, TypeOK, Locals, Corpora

LEMMA RunTypes ==
  ASSUME TypeInv, NEW r \in RunIds
  PROVE  /\ runs[r] \in RunRow /\ runs[r].status \in RunStatuses
         /\ runs[r].document \in Documents /\ runs[r].corpus \in Corpora
         /\ runs[r].config \in Configs /\ runs[r].sections \subseteq Chunks
BY DEF TypeInv, TypeOK, RunRow

(* The steps that only change the local state. *)
LEMMA StartTypes ==
  ASSUME TypeInv, NEW p \in Processes, Start(p) PROVE TypeInv'
<1> DEFINE next == [Idle EXCEPT !.pc = "resolve", !.start = starts + 1, !.config = config]
<1>1. config \in Configs /\ starts + 1 \in 0 .. MaxStarts
  BY Numbers DEF Start, TypeInv, TypeOK
<1>2. next \in Locals BY <1>1, IdleTypes DEF Locals, PCs
<1>3. next.pc \notin HoldsRun BY DEF HoldsRun, Idle
<1>4. process' = [process EXCEPT ![p] = next] BY DEF Start
<1> HIDE DEF next
<1>5. process' \in [Processes -> Locals] /\ InHand' BY <1>2, <1>3, <1>4, OneProcess
<1>6. runs' = runs /\ calls' = calls /\ active' = active /\ config' = config
      /\ starts' \in 0 .. MaxStarts /\ faults' = faults
  BY <1>1 DEF Start, database
<1> QED BY <1>5, <1>6 DEF TypeInv, TypeOK

LEMMA CorporaFound ==
  ASSUME TypeInv, NEW cfg, IncompleteCorpora(cfg) # {}
  PROVE  Max(IncompleteCorpora(cfg)) \in Corpora
<1>1. IncompleteCorpora(cfg) \subseteq 0 .. MaxStarts
  BY RunTypes DEF IncompleteCorpora, Incomplete, Corpora
<1> QED BY <1>1, MaxIsMember, Numbers DEF Corpora

LEMMA CandidateFound ==
  ASSUME NEW me, Candidates(me) # {} PROVE Max(Candidates(me)) \in Candidates(me)
<1>1. Candidates(me) \subseteq 0 .. MaxStarts * NumDocuments
  BY Numbers DEF Candidates, Incomplete, RunIds
<1> QED BY <1>1, MaxIsMember, Numbers

LEMMA ResolveTypes ==
  ASSUME TypeInv, NEW p \in Processes, ResolveCorpus(p) PROVE TypeInv'
<1> DEFINE me == process[p]
           found == IncompleteCorpora(me.config)
           corpus == IF found = {} THEN me.start ELSE Max(found)
           joined == [me EXCEPT !.pc = "find", !.corpus = corpus]
           next == IF Cardinality(found) > 1 THEN Idle ELSE joined
<1>0. me \in Locals BY LocalTypes
<1>1. corpus \in Corpora BY LocalTypes, CorporaFound
<1>2. joined \in Locals /\ joined.pc = "find"
  <2> HIDE DEF corpus
  <2> QED BY <1>1, <1>0 DEF Locals, PCs
<1>3. Idle \in Locals /\ Idle.pc = "idle" BY IdleTypes DEF TypeInv, TypeOK, Idle
<1>4. process' = [process EXCEPT ![p] = next] BY DEF ResolveCorpus
<1>5. UNCHANGED <<runs, calls, active, config, starts, faults>> BY DEF ResolveCorpus, database
<1> HIDE DEF joined, found
<1>6. next \in Locals /\ next.pc \notin HoldsRun BY <1>2, <1>3 DEF HoldsRun
<1> HIDE DEF next
<1>7. process' \in [Processes -> Locals] /\ InHand' BY <1>4, <1>6, OneProcess
<1> QED BY <1>5, <1>7 DEF TypeInv, TypeOK

LEMMA FindTypes ==
  ASSUME TypeInv, NEW p \in Processes, FindRun(p) PROVE TypeInv'
<1> DEFINE me == process[p]
           run == Max(Candidates(me))
           missing == [me EXCEPT !.pc = "create"]
           adopting == [me EXCEPT !.pc = "adopt", !.run = run, !.seen = runs[run].sections,
                                  !.seenStatus = runs[run].status]
           next == IF Candidates(me) = {} THEN missing ELSE adopting
<1>0. me \in Locals BY LocalTypes
<1>1. missing \in Locals /\ missing.pc \notin HoldsRun BY <1>0 DEF Locals, PCs, HoldsRun
<1>2. ASSUME Candidates(me) # {} PROVE adopting \in Locals /\ adopting.run \in RunIds
  <2>1. run \in RunIds BY <1>2, CandidateFound DEF Candidates, Incomplete
  <2> HIDE DEF run
  <2>2. runs[run].sections \subseteq Chunks /\ runs[run].status \in RunStatuses /\ run \in MaybeRun
    BY <2>1, RunTypes, Numbers
  <2> QED BY <2>1, <2>2, <1>0 DEF Locals, PCs
<1>3. process' = [process EXCEPT ![p] = next] BY DEF FindRun
<1>4. UNCHANGED <<runs, calls, active, config, starts, faults>> BY DEF FindRun, database
<1> HIDE DEF missing, adopting
<1>5. next \in Locals /\ (next.pc \in HoldsRun => next.run \in RunIds) BY <1>1, <1>2
<1> HIDE DEF next
<1>6. process' \in [Processes -> Locals] /\ InHand' BY <1>3, <1>5, OneProcess
<1> QED BY <1>4, <1>6 DEF TypeInv, TypeOK

LEMMA ReadTypes ==
  ASSUME TypeInv, NEW p \in Processes, ReadCheckpoint(p) PROVE TypeInv'
<1> DEFINE me == process[p]
<1>0. me \in Locals BY LocalTypes
<1>1. me.run \in RunIds BY DEF ReadCheckpoint, TypeInv, InHand, HoldsRun
<1>2. PICK c \in Recordable(me) :
        process' = [process EXCEPT ![p] =
          [me EXCEPT !.pc = "record", !.chunk = {c}, !.seen = runs[me.run].sections,
                     !.answered = @ \ {c}, !.todo = @ \ {c}]]
  BY DEF ReadCheckpoint
<1> DEFINE next == [me EXCEPT !.pc = "record", !.chunk = {c}, !.seen = runs[me.run].sections,
                              !.answered = @ \ {c}, !.todo = @ \ {c}]
<1>3. c \in Chunks BY LocalTypes DEF Recordable
<1>4. runs[me.run].sections \subseteq Chunks BY <1>1, RunTypes
<1>5. next \in Locals BY <1>3, <1>4, <1>0 DEF Locals, PCs
<1>6. next.run \in RunIds BY <1>1, <1>0 DEF Locals
<1> HIDE DEF next
<1>7. process' \in [Processes -> Locals] /\ InHand' BY <1>2, <1>5, <1>6, OneProcess DEF next
<1>8. UNCHANGED <<runs, calls, active, config, starts, faults>> BY DEF ReadCheckpoint, database
<1> QED BY <1>7, <1>8 DEF TypeInv, TypeOK

LEMMA ExtractBatchTypes ==
  ASSUME TypeInv, NEW p \in Processes, ExtractBatch(p) PROVE TypeInv'
<1> DEFINE me == process[p]
<1>0. me \in Locals BY LocalTypes
<1>1. PICK batch \in SUBSET me.todo, lost \in SUBSET me.todo :
        /\ faults + Cardinality(lost) <= MaxFaults
        /\ faults' = faults + Cardinality(lost)
        /\ process' = [process EXCEPT ![p] =
             [me EXCEPT !.todo = @ \ batch, !.answered = batch \ lost, !.failed = lost # {}]]
  BY DEF ExtractBatch
<1> DEFINE next ==
      [me EXCEPT !.todo = @ \ batch, !.answered = batch \ lost, !.failed = lost # {}]
<1>2. next \in Locals /\ next.pc = me.pc /\ next.run = me.run BY <1>0 DEF Locals
<1>3. next.pc \in HoldsRun => next.run \in RunIds BY <1>2 DEF TypeInv, InHand
<1>4. faults' \in 0 .. MaxFaults
  <2>1. lost \in SUBSET Chunks BY LocalTypes
  <2>2. Cardinality(lost) \in Nat BY <2>1, FS_Subset, FS_CardinalityType, ConstantsAssumption
  <2> QED BY <1>1, <2>2, ConstantsAssumption DEF TypeInv, TypeOK
<1> HIDE DEF next
<1>5. process' \in [Processes -> Locals] /\ InHand' BY <1>1, <1>2, <1>3, OneProcess DEF next
<1>6. UNCHANGED <<runs, calls, active, config, starts>> BY DEF ExtractBatch, database
<1> QED BY <1>4, <1>5, <1>6 DEF TypeInv, TypeOK

LEMMA ReadForPauseTypes ==
  ASSUME TypeInv, NEW p \in Processes, ReadForPause(p) PROVE TypeInv'
<1> DEFINE me == process[p]
           next == [me EXCEPT !.pc = "pause", !.seen = runs[me.run].sections,
                              !.seenStatus = runs[me.run].status]
<1>0. me \in Locals BY LocalTypes
<1>1. me.run \in RunIds BY DEF ReadForPause, TypeInv, InHand, HoldsRun
<1>2. runs[me.run].sections \subseteq Chunks /\ runs[me.run].status \in RunStatuses
  BY <1>1, RunTypes
<1>3. next \in Locals /\ next.run = me.run BY <1>2, <1>0 DEF Locals, PCs
<1>4. process' = [process EXCEPT ![p] = next] BY DEF ReadForPause
<1> HIDE DEF next
<1>5. process' \in [Processes -> Locals] /\ InHand' BY <1>1, <1>3, <1>4, OneProcess
<1>6. UNCHANGED <<runs, calls, active, config, starts, faults>> BY DEF ReadForPause, database
<1> QED BY <1>5, <1>6 DEF TypeInv, TypeOK

LEMMA FinishTypes ==
  ASSUME TypeInv, NEW p \in Processes, FinishDocument(p) PROVE TypeInv'
<1> DEFINE me == process[p]
           d == me.document
           done == [run |-> me.run, sections |-> runs[me.run].sections]
           pc == IF d < NumDocuments THEN "find" ELSE "select"
           next == [me EXCEPT !.ready[d] = done, !.run = 0, !.document = NextDocument(d),
                              !.pc = pc]
<1>0. me \in Locals BY LocalTypes
<1>1. me.run \in RunIds BY DEF FinishDocument, TypeInv, InHand, HoldsRun
<1>2. done \in [run : MaybeRun, sections : SUBSET Chunks] BY <1>1, RunTypes, Numbers
<1>3. NextDocument(d) \in Documents BY LocalTypes, Numbers DEF NextDocument, Documents
<1>4. pc \in PCs \ HoldsRun BY DEF PCs, HoldsRun
<1>5. process' = [process EXCEPT ![p] = next] BY DEF FinishDocument
<1> HIDE DEF done, pc
<1>6. next \in Locals /\ next.pc \notin HoldsRun BY <1>2, <1>3, <1>4, <1>0, Numbers DEF Locals
<1> HIDE DEF next
<1>7. process' \in [Processes -> Locals] /\ InHand' BY <1>5, <1>6, OneProcess
<1>8. UNCHANGED <<runs, calls, active, config, starts, faults>> BY DEF FinishDocument, database
<1> QED BY <1>7, <1>8 DEF TypeInv, TypeOK

LEMMA SelectTypes ==
  ASSUME TypeInv, NEW p \in Processes, SelectActive(p) PROVE TypeInv'
<1> DEFINE next == [process[p] EXCEPT !.pc = "publish", !.superseded = active]
<1>0. process[p] \in Locals /\ active \subseteq ObligationRow BY LocalTypes DEF TypeInv, TypeOK
<1>1. next \in Locals /\ next.pc \notin HoldsRun BY <1>0 DEF Locals, PCs, HoldsRun
<1>2. process' = [process EXCEPT ![p] = next] BY DEF SelectActive
<1> HIDE DEF next
<1>3. process' \in [Processes -> Locals] /\ InHand' BY <1>1, <1>2, OneProcess
<1>4. UNCHANGED <<runs, calls, active, config, starts, faults>> BY DEF SelectActive, database
<1> QED BY <1>3, <1>4 DEF TypeInv, TypeOK

(* Back to idle: a refused publication, a crash. *)
LEMMA BackToIdle ==
  ASSUME TypeInv, NEW p \in Processes, process' = [process EXCEPT ![p] = Idle]
  PROVE  process' \in [Processes -> Locals] /\ InHand'
<1>1. Idle \in Locals /\ Idle.pc \notin HoldsRun
  BY IdleTypes DEF TypeInv, TypeOK, Idle, HoldsRun
<1> QED BY <1>1, OneProcess

LEMMA RefuseTypes ==
  ASSUME TypeInv, NEW p \in Processes, RefusePublication(p) PROVE TypeInv'
<1>1. process' = [process EXCEPT ![p] = Idle] BY DEF RefusePublication
<1>2. process' \in [Processes -> Locals] /\ InHand' BY <1>1, BackToIdle
<1>3. UNCHANGED <<runs, calls, active, config, starts, faults>> BY DEF RefusePublication, database
<1> QED BY <1>2, <1>3 DEF TypeInv, TypeOK

LEMMA CrashTypes ==
  ASSUME TypeInv, NEW p \in Processes, Crash(p) PROVE TypeInv'
<1>1. process' = [process EXCEPT ![p] = Idle] BY DEF Crash
<1>2. process' \in [Processes -> Locals] /\ InHand' BY <1>1, BackToIdle
<1>3. faults' \in 0 .. MaxFaults BY ConstantsAssumption DEF Crash, TypeInv, TypeOK
<1>4. UNCHANGED <<runs, calls, active, config, starts>> BY DEF Crash, database
<1> QED BY <1>2, <1>3, <1>4 DEF TypeInv, TypeOK

(* The steps that write a run. *)
LEMMA AdoptTypes ==
  ASSUME TypeInv, NEW p \in Processes, AdoptRun(p) PROVE TypeInv'
<1> DEFINE me == process[p]
           status == Written(me.seenStatus, "RUNNING", runs[me.run].status)
           next == [me EXCEPT !.pc = "work", !.todo = Unfinished(me), !.seen = {},
                              !.seenStatus = "none"]
<1>0. me \in Locals BY LocalTypes
<1>1. me.run \in RunIds BY DEF AdoptRun, TypeInv, InHand, HoldsRun
<1>2. status \in RunStatuses BY <1>1, RunTypes DEF Written, RunStatuses
<1>3. runs' = [runs EXCEPT ![me.run].status = status] BY DEF AdoptRun
<1> HIDE DEF status
<1>4. runs' \in [RunIds -> RunRow] BY <1>1, <1>2, <1>3 DEF TypeInv, TypeOK, RunRow
<1>5. Unfinished(me) \subseteq Chunks BY LocalTypes, Numbers DEF Unfinished
<1>6. next \in Locals /\ next.run = me.run BY <1>5, <1>0 DEF Locals, PCs, RunStatuses
<1>7. process' = [process EXCEPT ![p] = next] BY DEF AdoptRun
<1> HIDE DEF next
<1>8. process' \in [Processes -> Locals] /\ InHand' BY <1>1, <1>6, <1>7, OneProcess
<1>9. UNCHANGED <<calls, active, config, starts, faults>> BY DEF AdoptRun
<1> QED BY <1>4, <1>8, <1>9 DEF TypeInv, TypeOK

LEMMA CreateTypes ==
  ASSUME TypeInv, NEW p \in Processes, CreateRun(p) PROVE TypeInv'
<1> DEFINE me == process[p]
           r == Cardinality(CreatedRuns) + 1
           row == [status |-> "RUNNING", document |-> me.document, corpus |-> me.corpus,
                   config |-> me.config, sections |-> {}]
           next == [me EXCEPT !.pc = "work", !.run = r, !.todo = ChunksOf[me.document]]
<1>0. me \in Locals BY LocalTypes
<1>1. r \in RunIds BY DEF CreateRun
<1>2. row \in RunRow BY LocalTypes DEF RunRow, RunStatuses
<1>3. runs' = [runs EXCEPT ![r] = row] /\ process' = [process EXCEPT ![p] = next]
  BY DEF CreateRun
<1> HIDE DEF r, row
<1>4. runs' \in [RunIds -> RunRow] BY <1>2, <1>3 DEF TypeInv, TypeOK
<1>5. next \in Locals /\ next.run \in RunIds BY <1>1, <1>0, Numbers DEF Locals, PCs
<1> HIDE DEF next
<1>6. process' \in [Processes -> Locals] /\ InHand' BY <1>3, <1>5, OneProcess
<1>7. UNCHANGED <<calls, active, config, starts, faults>> BY DEF CreateRun
<1> QED BY <1>4, <1>6, <1>7 DEF TypeInv, TypeOK

LEMMA RecordTypes ==
  ASSUME TypeInv, NEW p \in Processes, RecordSection(p) PROVE TypeInv'
<1> DEFINE me == process[p]
           counted == [c \in Chunks |-> IF c \in me.chunk THEN calls[me.run][c] + 1
                                        ELSE calls[me.run][c]]
           next == [me EXCEPT !.pc = "work", !.chunk = {}, !.seen = {}]
<1>0. me \in Locals BY LocalTypes
<1>1. me.run \in RunIds BY DEF RecordSection, TypeInv, InHand, HoldsRun
<1>2. WithChunk(me) \subseteq Chunks BY LocalTypes DEF WithChunk
<1>3. runs' = [runs EXCEPT ![me.run].sections = WithChunk(me)] BY DEF RecordSection
<1>4. runs' \in [RunIds -> RunRow] BY <1>1, <1>2, <1>3 DEF TypeInv, TypeOK, RunRow
<1>5. calls' = [calls EXCEPT ![me.run] = counted] BY DEF RecordSection
<1>6. counted \in [Chunks -> Nat] BY <1>1 DEF TypeInv, TypeOK
<1> HIDE DEF counted
<1>7. calls' \in [RunIds -> [Chunks -> Nat]] BY <1>5, <1>6 DEF TypeInv, TypeOK
<1>8. next \in Locals /\ next.run = me.run BY <1>0 DEF Locals, PCs
<1>9. process' = [process EXCEPT ![p] = next] BY DEF RecordSection
<1> HIDE DEF next
<1>10. process' \in [Processes -> Locals] /\ InHand' BY <1>1, <1>8, <1>9, OneProcess
<1>11. UNCHANGED <<active, config, starts, faults>> BY DEF RecordSection
<1> QED BY <1>4, <1>7, <1>10, <1>11 DEF TypeInv, TypeOK

LEMMA PauseTypes ==
  ASSUME TypeInv, NEW p \in Processes, PauseRun(p) PROVE TypeInv'
<1> DEFINE me == process[p]
           status == Written(me.seenStatus, "PAUSED", runs[me.run].status)
<1>1. me.run \in RunIds BY DEF PauseRun, TypeInv, InHand, HoldsRun
<1>2. status \in RunStatuses BY <1>1, RunTypes DEF Written, RunStatuses
<1>3. runs' = [runs EXCEPT ![me.run] = [@ EXCEPT !.sections = me.seen, !.status = status]]
  BY <1>1 DEF PauseRun, TypeInv, TypeOK
<1> HIDE DEF status
<1>4. runs' \in [RunIds -> RunRow]
  <2>1. runs[me.run] \in RunRow /\ me.seen \subseteq Chunks BY <1>1, RunTypes, LocalTypes
  <2>2. [runs[me.run] EXCEPT !.sections = me.seen, !.status = status] \in RunRow
    BY <1>2, <2>1 DEF RunRow
  <2> QED BY <1>3, <2>2 DEF TypeInv, TypeOK
<1>5. process' = [process EXCEPT ![p] = Idle] BY DEF PauseRun
<1>6. process' \in [Processes -> Locals] /\ InHand' BY <1>5, BackToIdle
<1>7. UNCHANGED <<calls, active, config, starts, faults>> BY DEF PauseRun
<1> QED BY <1>4, <1>6, <1>7 DEF TypeInv, TypeOK

LEMMA RowsAreRows ==
  ASSUME TypeInv, NEW p \in Processes, NEW d \in Documents
  PROVE  PublishedRows(process[p], d) \subseteq ObligationRow
BY LocalTypes, Numbers DEF PublishedRows, RowsOf, ObligationRow, Corpora

LEMMA PublishTypes ==
  ASSUME TypeInv, NEW p \in Processes, Publish(p) PROVE TypeInv'
<1> DEFINE me == process[p]
<1>1. active' \subseteq ObligationRow
  BY RowsAreRows DEF Publish, TypeInv, TypeOK
<1>2. runs' = [r \in RunIds |-> IF r \in PublishedRuns(me)
                               THEN [runs[r] EXCEPT !.status = "COMPLETED"] ELSE runs[r]]
  BY DEF Publish
<1>3. \A r \in RunIds : [runs[r] EXCEPT !.status = "COMPLETED"] \in RunRow
  BY RunTypes DEF RunRow, RunStatuses
<1>4. runs' \in [RunIds -> RunRow] BY <1>2, <1>3, RunTypes
<1>5. process' = [process EXCEPT ![p] = Idle] BY DEF Publish
<1>6. process' \in [Processes -> Locals] /\ InHand' BY <1>5, BackToIdle
<1>7. UNCHANGED <<calls, config, starts, faults>> BY DEF Publish
<1> QED BY <1>1, <1>4, <1>6, <1>7 DEF TypeInv, TypeOK

LEMMA ReconfigureTypes ==
  ASSUME TypeInv, NEW c \in Configs, Reconfigure(c) PROVE TypeInv'
BY DEF Reconfigure, database, TypeInv, TypeOK, InHand

LEMMA StepTypes == TypeInv /\ [Next]_vars => TypeInv'
<1> SUFFICES ASSUME TypeInv, [Next]_vars PROVE TypeInv' OBVIOUS
<1>1. ASSUME NEW p \in Processes, Start(p) PROVE TypeInv' BY <1>1, StartTypes
<1>2. ASSUME NEW p \in Processes, Extract(p) PROVE TypeInv'
  BY <1>2, ResolveTypes, FindTypes, AdoptTypes, CreateTypes, ReadTypes, RecordTypes,
     ExtractBatchTypes, ReadForPauseTypes, PauseTypes, FinishTypes, SelectTypes,
     PublishTypes, RefuseTypes DEF Extract
<1>3. ASSUME NEW p \in Processes, Crash(p) PROVE TypeInv' BY <1>3, CrashTypes
<1>4. ASSUME NEW c \in Configs, Reconfigure(c) PROVE TypeInv' BY <1>4, ReconfigureTypes
<1>5. CASE UNCHANGED vars BY <1>5 DEF vars, database, TypeInv, TypeOK, InHand
<1> QED BY <1>1, <1>2, <1>3, <1>4, <1>5 DEF Next

(* Every variable keeps its type, however many operators, documents, chunks,
   configurations, starts and faults there are. *)
THEOREM ExtractionTypesHold == Spec => []TypeOK
<1>1. TypeInv => TypeOK BY DEF TypeInv
<1> QED BY <1>1, InitTypes, StepTypes, PTL DEF Spec
-----------------------------------------------------------------------------
(* A set of registry rows that consists of whole publications, each row about
   a chunk of its document. *)
Sibling(row, d, c) == [document |-> d, chunk |-> c, corpus |-> row.corpus, by |-> row.by]
Whole(rows) ==
  \A row \in rows :
    /\ row.chunk \in ChunksOf[row.document]
    /\ \A d \in Documents : \A c \in ChunksOf[d] : Sibling(row, d, c) \in rows

(* What a publication replaces was read earlier: others may have published
   since, but it was whole when it was read. *)
SelectedWhole == \A p \in Processes : Whole(process[p].superseded)
PublicationInv == TypeInv /\ Whole(active) /\ SelectedWhole

LEMMA SiblingOfSibling ==
  ASSUME NEW row \in ObligationRow, NEW d \in Documents, NEW c \in Chunks
  PROVE  Sibling(Sibling(row, d, c), row.document, row.chunk) = row
BY DEF Sibling, ObligationRow

LEMMA WholeWithout ==
  ASSUME NEW rows \in SUBSET ObligationRow, NEW gone \in SUBSET ObligationRow,
         Whole(rows), Whole(gone)
  PROVE  Whole(rows \ gone)
<1> SUFFICES ASSUME NEW row \in rows \ gone, NEW d \in Documents, NEW c \in ChunksOf[d]
             PROVE  Sibling(row, d, c) \notin gone
  BY DEF Whole
<1>1. c \in Chunks BY Numbers
<1>2. row \in ObligationRow /\ row.document \in Documents /\ row.chunk \in ChunksOf[row.document]
  BY DEF Whole, ObligationRow
<1>3. ASSUME Sibling(row, d, c) \in gone PROVE FALSE
  <2>1. Sibling(Sibling(row, d, c), row.document, row.chunk) \in gone BY <1>2, <1>3 DEF Whole
  <2> QED BY <2>1, <1>1, <1>2, SiblingOfSibling
<1> QED BY <1>3

LEMMA WholeUnion ==
  ASSUME NEW S, NEW T, Whole(S), Whole(T) PROVE Whole(S \union T)
BY DEF Whole

LEMMA PublishedWhole ==
  ASSUME NEW me, Complete(me)
  PROVE  Whole(UNION {PublishedRows(me, d) : d \in Documents})
<1> DEFINE rows == UNION {PublishedRows(me, d) : d \in Documents}
           Published(d, c) == [document |-> d, chunk |-> c, corpus |-> me.corpus, by |-> me.start]
<1>1. \A d \in Documents : PublishedRows(me, d) = {Published(d, c) : c \in ChunksOf[d]}
  BY DEF PublishedRows, RowsOf, Complete
<1>2. \A d \in Documents : \A c \in ChunksOf[d] : Published(d, c) \in rows BY <1>1
<1>3. \A row \in rows : \E d \in Documents : \E c \in ChunksOf[d] : row = Published(d, c) BY <1>1
<1>4. ASSUME NEW row \in rows
      PROVE  /\ row.chunk \in ChunksOf[row.document]
             /\ row.corpus = me.corpus /\ row.by = me.start
  BY <1>3, <1>4
<1> HIDE DEF rows
<1>5. ASSUME NEW row \in rows, NEW d \in Documents, NEW c \in ChunksOf[d]
      PROVE  Sibling(row, d, c) \in rows
  BY <1>2, <1>4 DEF Sibling
<1> QED BY <1>4, <1>5 DEF Whole, rows

LEMMA InitWhole == Init => PublicationInv
<1> SUFFICES ASSUME Init PROVE Whole(active) /\ SelectedWhole BY InitTypes DEF PublicationInv
<1>1. Whole(active) BY DEF Init, RowsOf, Whole, Sibling
<1>2. SelectedWhole BY DEF Init, Idle, SelectedWhole, Whole
<1> QED BY <1>1, <1>2

(* Only a publication changes the registry, and only the selection of the
   active rows what a process will replace. *)
LEMMA SelectionStands ==
  ASSUME PublicationInv, NEW p \in Processes, NEW next, Whole(next.superseded),
         process' = [process EXCEPT ![p] = next]
  PROVE  SelectedWhole'
<1> SUFFICES ASSUME NEW q \in Processes PROVE Whole(process'[q].superseded)
  BY DEF SelectedWhole, Whole
<1>1. CASE q = p BY <1>1 DEF PublicationInv, TypeInv, TypeOK
<1>2. CASE q # p BY <1>2 DEF PublicationInv, SelectedWhole
<1> QED BY <1>1, <1>2

SelectsNothing(p) ==
  \E next : /\ process' = [process EXCEPT ![p] = next]
            /\ next.superseded \in {process[p].superseded, {}}

LEMMA MostSelectNothing ==
  ASSUME TypeInv, NEW p \in Processes,
         \/ Start(p) \/ ResolveCorpus(p) \/ FindRun(p) \/ AdoptRun(p) \/ CreateRun(p)
         \/ ReadCheckpoint(p) \/ RecordSection(p) \/ ExtractBatch(p) \/ ReadForPause(p)
         \/ PauseRun(p) \/ FinishDocument(p) \/ RefusePublication(p) \/ Crash(p)
  PROVE  active' = active /\ SelectsNothing(p)
<1> DEFINE me == process[p]
<1>1. me \in Locals BY LocalTypes
<1>2. Idle.superseded = {} BY DEF Idle
<1>3. CASE Start(p)
  <2> DEFINE next == [Idle EXCEPT !.pc = "resolve", !.start = starts + 1, !.config = config]
  <2>1. process' = [process EXCEPT ![p] = next] /\ active' = active BY <1>3 DEF Start, database
  <2>2. next.superseded = {} BY DEF Idle
  <2> QED BY <2>1, <2>2 DEF SelectsNothing
<1>4. CASE ResolveCorpus(p)
  <2> DEFINE corpus == IF IncompleteCorpora(me.config) = {} THEN me.start
                       ELSE Max(IncompleteCorpora(me.config))
             joined == [me EXCEPT !.pc = "find", !.corpus = corpus]
             next == IF Cardinality(IncompleteCorpora(me.config)) > 1 THEN Idle ELSE joined
  <2>1. process' = [process EXCEPT ![p] = next] /\ active' = active
    BY <1>4 DEF ResolveCorpus, database
  <2> HIDE DEF corpus
  <2>2. joined.superseded = me.superseded BY <1>1 DEF Locals
  <2> QED BY <2>1, <2>2, <1>2 DEF SelectsNothing
<1>5. CASE FindRun(p)
  <2> DEFINE run == Max(Candidates(me))
             adopting == [me EXCEPT !.pc = "adopt", !.run = run, !.seen = runs[run].sections,
                                    !.seenStatus = runs[run].status]
             missing == [me EXCEPT !.pc = "create"]
             next == IF Candidates(me) = {} THEN missing ELSE adopting
  <2>1. process' = [process EXCEPT ![p] = next] /\ active' = active BY <1>5 DEF FindRun, database
  <2> HIDE DEF run
  <2>2. missing.superseded = me.superseded /\ adopting.superseded = me.superseded
    BY <1>1 DEF Locals
  <2> QED BY <2>1, <2>2 DEF SelectsNothing
<1>6. CASE AdoptRun(p)
  <2> DEFINE next == [me EXCEPT !.pc = "work", !.todo = Unfinished(me), !.seen = {},
                                !.seenStatus = "none"]
  <2>1. process' = [process EXCEPT ![p] = next] /\ active' = active BY <1>6 DEF AdoptRun
  <2>2. next.superseded = me.superseded BY <1>1 DEF Locals
  <2> QED BY <2>1, <2>2 DEF SelectsNothing
<1>7. CASE CreateRun(p)
  <2> DEFINE r == Cardinality(CreatedRuns) + 1
             next == [me EXCEPT !.pc = "work", !.run = r, !.todo = ChunksOf[me.document]]
  <2>1. process' = [process EXCEPT ![p] = next] /\ active' = active BY <1>7 DEF CreateRun
  <2> HIDE DEF r
  <2>2. next.superseded = me.superseded BY <1>1 DEF Locals
  <2> QED BY <2>1, <2>2 DEF SelectsNothing
<1>8. CASE ReadCheckpoint(p)
  <2> PICK c \in Recordable(me) :
        process' = [process EXCEPT ![p] =
          [me EXCEPT !.pc = "record", !.chunk = {c}, !.seen = runs[me.run].sections,
                     !.answered = @ \ {c}, !.todo = @ \ {c}]]
    BY <1>8 DEF ReadCheckpoint
  <2> DEFINE next == [me EXCEPT !.pc = "record", !.chunk = {c}, !.seen = runs[me.run].sections,
                                !.answered = @ \ {c}, !.todo = @ \ {c}]
  <2>1. next.superseded = me.superseded BY <1>1 DEF Locals
  <2>2. active' = active BY <1>8 DEF ReadCheckpoint, database
  <2> QED BY <2>1, <2>2 DEF SelectsNothing
<1>9. CASE RecordSection(p)
  <2> DEFINE next == [me EXCEPT !.pc = "work", !.chunk = {}, !.seen = {}]
  <2>1. process' = [process EXCEPT ![p] = next] /\ active' = active BY <1>9 DEF RecordSection
  <2>2. next.superseded = me.superseded BY <1>1 DEF Locals
  <2> QED BY <2>1, <2>2 DEF SelectsNothing
<1>10. CASE ExtractBatch(p)
  <2> PICK batch \in SUBSET me.todo, lost \in SUBSET me.todo :
        process' = [process EXCEPT ![p] =
          [me EXCEPT !.todo = @ \ batch, !.answered = batch \ lost, !.failed = lost # {}]]
    BY <1>10 DEF ExtractBatch
  <2> DEFINE failed == lost # {}
             next == [me EXCEPT !.todo = @ \ batch, !.answered = batch \ lost, !.failed = failed]
  <2>1. process' = [process EXCEPT ![p] = next] OBVIOUS
  <2> HIDE DEF failed
  <2>2. next.superseded = me.superseded BY <1>1 DEF Locals
  <2>3. active' = active BY <1>10 DEF ExtractBatch, database
  <2> QED BY <2>1, <2>2, <2>3 DEF SelectsNothing
<1>11. CASE ReadForPause(p)
  <2> DEFINE next == [me EXCEPT !.pc = "pause", !.seen = runs[me.run].sections,
                                !.seenStatus = runs[me.run].status]
  <2>1. process' = [process EXCEPT ![p] = next] /\ active' = active
    BY <1>11 DEF ReadForPause, database
  <2>2. next.superseded = me.superseded BY <1>1 DEF Locals
  <2> QED BY <2>1, <2>2 DEF SelectsNothing
<1>12. CASE FinishDocument(p)
  <2> DEFINE d == me.document
             done == [run |-> me.run, sections |-> runs[me.run].sections]
             pc == IF d < NumDocuments THEN "find" ELSE "select"
             next == [me EXCEPT !.ready[d] = done, !.run = 0, !.document = NextDocument(d),
                                !.pc = pc]
  <2>1. process' = [process EXCEPT ![p] = next] /\ active' = active
    BY <1>12 DEF FinishDocument, database
  <2> HIDE DEF done, pc
  <2>2. next.superseded = me.superseded BY <1>1 DEF Locals
  <2> QED BY <2>1, <2>2 DEF SelectsNothing
<1>13. CASE PauseRun(p) \/ RefusePublication(p) \/ Crash(p)
  <2>1. process' = [process EXCEPT ![p] = Idle] /\ active' = active
    BY <1>13 DEF PauseRun, RefusePublication, Crash, database
  <2> QED BY <2>1, <1>2 DEF SelectsNothing
<1> QED BY <1>3, <1>4, <1>5, <1>6, <1>7, <1>8, <1>9, <1>10, <1>11, <1>12, <1>13

LEMMA StepWhole == PublicationInv /\ [Next]_vars => PublicationInv'
<1> SUFFICES ASSUME PublicationInv, [Next]_vars PROVE PublicationInv' OBVIOUS
<1>0. TypeInv /\ TypeInv' BY StepTypes DEF PublicationInv
<1>1. ASSUME NEW p \in Processes, active' = active, SelectsNothing(p) PROVE PublicationInv'
  <2> PICK next : /\ process' = [process EXCEPT ![p] = next]
                  /\ next.superseded \in {process[p].superseded, {}}
    BY <1>1 DEF SelectsNothing
  <2>1. Whole({}) BY DEF Whole
  <2>2. Whole(process[p].superseded) BY DEF PublicationInv, SelectedWhole
  <2>3. Whole(next.superseded) BY <2>1, <2>2
  <2>4. SelectedWhole' BY <2>3, SelectionStands
  <2> QED BY <1>0, <1>1, <2>4 DEF PublicationInv, Whole
<1>2. ASSUME NEW p \in Processes, SelectActive(p) PROVE PublicationInv'
  <2> DEFINE next == [process[p] EXCEPT !.pc = "publish", !.superseded = active]
  <2>1. next.superseded = active BY <1>0, LocalTypes DEF Locals
  <2>2. process' = [process EXCEPT ![p] = next] /\ active' = active
    BY <1>2 DEF SelectActive, database
  <2> HIDE DEF next
  <2>3. SelectedWhole' BY <2>1, <2>2, SelectionStands DEF PublicationInv
  <2> QED BY <1>0, <2>2, <2>3 DEF PublicationInv, Whole
<1>3. ASSUME NEW p \in Processes, Publish(p) PROVE PublicationInv'
  <2> DEFINE me == process[p]
             published == UNION {PublishedRows(me, d) : d \in Documents}
  <2>1. Whole(published) BY <1>3, PublishedWhole DEF Publish
  <2>2. Whole(active \ me.superseded)
    BY <1>0, LocalTypes, WholeWithout DEF PublicationInv, SelectedWhole, TypeInv, TypeOK
  <2>3. active' = (active \ me.superseded) \union published BY <1>3 DEF Publish, Superseded
  <2> HIDE DEF published
  <2>4. Whole(active') BY <2>1, <2>2, <2>3, WholeUnion
  <2>5. process' = [process EXCEPT ![p] = Idle] BY <1>3 DEF Publish
  <2>6. Whole(Idle.superseded) BY DEF Idle, Whole
  <2>7. SelectedWhole' BY <2>5, <2>6, SelectionStands
  <2> QED BY <1>0, <2>4, <2>7 DEF PublicationInv, Whole
<1>4. ASSUME NEW c \in Configs, Reconfigure(c) PROVE PublicationInv'
  BY <1>0, <1>4 DEF Reconfigure, database, PublicationInv, SelectedWhole, Whole
<1>5. CASE UNCHANGED vars
  BY <1>0, <1>5 DEF vars, database, PublicationInv, SelectedWhole, Whole
<1> QED BY <1>0, <1>1, <1>2, <1>3, <1>4, <1>5, MostSelectNothing DEF Next, Extract

(* However many processes publish, in whatever order: the registry never shows
   a part of a publication.  The rows a transaction soft-deletes were selected
   before others published, but they are whole publications too. *)
THEOREM RegistryIsWhole == Spec => []PublicationWhole
<1>1. PublicationInv => PublicationWhole BY DEF PublicationInv, Whole, Sibling, PublicationWhole
<1> QED BY <1>1, InitWhole, StepWhole, PTL DEF Spec
-----------------------------------------------------------------------------
(***************************************************************************)
(* What holds when one operator runs the script, however often it dies and *)
(* is started again, and however many documents and chunks there are:      *)
(* answers are recorded once and kept, a restarted script finds one batch  *)
(* at most, and the runs of a corpus are completed together.               *)
(***************************************************************************)
Open == {"RUNNING", "PAUSED"}

(* What the process holds, in relation to the runs. *)
OfRun(me, rs) ==
  /\ rs[me.run].status \in Open
  /\ rs[me.run].document = me.document
  /\ rs[me.run].corpus = me.corpus
  /\ rs[me.run].config = me.config

(* Nothing it will ask for or record is recorded, and nothing is twice in it. *)
Unrecorded(me, rs) ==
  /\ me.todo \cap me.answered = {}
  /\ (me.todo \cup me.answered) \cap rs[me.run].sections = {}
  /\ me.pc = "record" =>
       me.chunk \cap (me.todo \cup me.answered \cup rs[me.run].sections) = {}

Joined(me, rs) ==
  \A r \in RunIds :
    rs[r].status \in Open /\ rs[r].config = me.config => rs[r].corpus = me.corpus

Extracted(me, rs) ==
  \A d \in Documents :
    \/ me.ready[d].sections = {}
    \/ /\ me.ready[d].run \in RunIds
       /\ rs[me.ready[d].run].status # "none"
       /\ rs[me.ready[d].run].document = d
       /\ rs[me.ready[d].run].corpus = me.corpus

Hand(me, rs) ==
  /\ me.pc \in HoldsRun => OfRun(me, rs)
  /\ me.pc \in {"adopt", "record", "pause"} => me.seen = rs[me.run].sections
  /\ me.pc \in {"work", "record"} => Unrecorded(me, rs)
  /\ me.pc \in {"resolve", "find", "adopt", "create"} => me.answered = {}
  /\ me.pc = "resolve" => me.ready = NotReady
  /\ me.pc \notin {"idle", "resolve"} => Joined(me, rs)
  /\ me.pc \notin {"idle", "resolve"} => Extracted(me, rs)

HandInv == \A p \in Processes : Hand(process[p], runs)

(* Runs are created one after the other; one that does not exist has no calls. *)
Fresh ==
  \A r \in RunIds : runs[r].status = "none" =>
    /\ \A c \in Chunks : calls[r][c] = 0
    /\ \A q \in RunIds : q > r => runs[q].status = "none"

RunsInv == Fresh /\ RecordedIsKept /\ RecordedOnce /\ OneIncompleteBatch /\ CompletedTogether
ResumeInv == TypeInv /\ HandInv /\ RunsInv

LEMMA InitResume == Init => ResumeInv
<1> SUFFICES ASSUME Init PROVE HandInv /\ RunsInv BY InitTypes DEF ResumeInv
<1>1. HandInv BY DEF Init, HandInv, Hand, Idle, HoldsRun
<1>2. \A r \in RunIds : runs[r].status = "none" /\ calls[r] = [c \in Chunks |-> 0]
  BY DEF Init, NoRun
<1>3. Fresh /\ RecordedIsKept /\ RecordedOnce BY <1>2 DEF Fresh, RecordedIsKept, RecordedOnce
<1>4. OneIncompleteBatch /\ CompletedTogether BY <1>2 DEF OneIncompleteBatch, CompletedTogether
<1> QED BY <1>1, <1>3, <1>4 DEF RunsInv

(* The only process holds what it is given. *)
LEMMA Alone ==
  ASSUME NEW p, Processes = {p}, TypeInv, NEW next, process' = [process EXCEPT ![p] = next],
         NEW rs, runs' = rs, Hand(next, rs)
  PROVE  HandInv'
<1>1. process'[p] = next BY DEF TypeInv, TypeOK
<1>2. \A q \in Processes : process'[q] = next BY <1>1
<1> QED BY <1>2 DEF HandInv, Hand, OfRun, Unrecorded, Joined, Extracted

(* What a process holds of its batch and of its run goes on with it. *)
LEMMA SameBatch ==
  ASSUME NEW me, NEW next, NEW rs, Joined(me, rs), Extracted(me, rs),
         next.corpus = me.corpus, next.config = me.config, next.ready = me.ready
  PROVE  Joined(next, rs) /\ Extracted(next, rs)
BY DEF Joined, Extracted

LEMMA SameRun ==
  ASSUME NEW me, NEW next, NEW rs, OfRun(me, rs), next.run = me.run,
         next.document = me.document, next.corpus = me.corpus, next.config = me.config
  PROVE  OfRun(next, rs)
BY DEF OfRun

LEMMA IdleHolds == ASSUME NEW rs PROVE Hand(Idle, rs)
BY DEF Hand, Idle, HoldsRun

LEMMA RunsStand == ASSUME RunsInv, runs' = runs, calls' = calls PROVE RunsInv'
BY DEF RunsInv, Fresh, RecordedIsKept, RecordedOnce, OneIncompleteBatch, CompletedTogether

(* A run that is written back open, as the same run of its batch. *)
LEMMA StillOpen ==
  ASSUME TypeInv, RunsInv, NEW r \in RunIds, runs[r].status \in Open, NEW row,
         row.status \in Open, row.document = runs[r].document, row.corpus = runs[r].corpus,
         row.config = runs[r].config, runs' = [runs EXCEPT ![r] = row]
  PROVE  /\ OneIncompleteBatch' /\ CompletedTogether'
         /\ \A me : Joined(me, runs) => Joined(me, runs')
         /\ \A me : Extracted(me, runs) => Extracted(me, runs')
         /\ \A q \in RunIds : /\ runs'[q].status = "none" <=> runs[q].status = "none"
                              /\ q # r => runs'[q] = runs[q]
<1>1. runs'[r] = row /\ \A q \in RunIds : q # r => runs'[q] = runs[q] BY DEF TypeInv, TypeOK
<1>2. \A q \in RunIds :
        /\ runs'[q].status \in Open <=> runs[q].status \in Open
        /\ runs'[q].status = "COMPLETED" <=> runs[q].status = "COMPLETED"
        /\ runs'[q].status = "none" <=> runs[q].status = "none"
        /\ runs'[q].document = runs[q].document /\ runs'[q].corpus = runs[q].corpus
        /\ runs'[q].config = runs[q].config
  BY <1>1 DEF Open
<1>3. OneIncompleteBatch' BY <1>2 DEF RunsInv, OneIncompleteBatch, Open
<1>4. CompletedTogether' BY <1>2 DEF RunsInv, CompletedTogether
<1>5. \A me : Joined(me, runs) => Joined(me, runs') BY <1>2 DEF Joined
<1>6. \A me : Extracted(me, runs) => Extracted(me, runs') BY <1>2 DEF Extracted
<1> QED BY <1>1, <1>2, <1>3, <1>4, <1>5, <1>6
-----------------------------------------------------------------------------
LEMMA StartResumes ==
  ASSUME NEW p, Processes = {p}, ResumeInv, Start(p) PROVE HandInv' /\ RunsInv'
<1> DEFINE next == [Idle EXCEPT !.pc = "resolve", !.start = starts + 1, !.config = config]
<1>1. process' = [process EXCEPT ![p] = next] /\ runs' = runs /\ calls' = calls
  BY DEF Start, database
<1>2. next.pc = "resolve" /\ next.answered = {} /\ next.ready = NotReady BY DEF Idle
<1> HIDE DEF next
<1>3. Hand(next, runs) BY <1>2 DEF Hand, HoldsRun
<1> QED BY <1>1, <1>3, Alone, RunsStand DEF ResumeInv

LEMMA OnlyOneBatch ==
  ASSUME TypeInv, OneIncompleteBatch, NEW cfg, NEW r \in RunIds, runs[r].status \in Open,
         runs[r].config = cfg
  PROVE  Max(IncompleteCorpora(cfg)) = runs[r].corpus
<1> DEFINE found == IncompleteCorpora(cfg)
<1>1. runs[r].corpus \in found BY DEF IncompleteCorpora, Incomplete, Open
<1>2. \A c \in found : c = runs[r].corpus
  BY DEF IncompleteCorpora, Incomplete, OneIncompleteBatch, Open
<1>3. found \subseteq 0 .. MaxStarts BY RunTypes DEF IncompleteCorpora, Incomplete, Corpora
<1>4. Max(found) \in found BY <1>1, <1>3, MaxIsMember, Numbers
<1> QED BY <1>2, <1>4

LEMMA ResolveResumes ==
  ASSUME NEW p, Processes = {p}, ResumeInv, ResolveCorpus(p) PROVE HandInv' /\ RunsInv'
<1> DEFINE me == process[p]
           found == IncompleteCorpora(me.config)
           corpus == IF found = {} THEN me.start ELSE Max(found)
           joined == [me EXCEPT !.pc = "find", !.corpus = corpus]
           next == IF Cardinality(found) > 1 THEN Idle ELSE joined
<1>0. TypeInv /\ Hand(me, runs) /\ RunsInv /\ me.pc = "resolve" /\ me \in Locals
  BY LocalTypes DEF ResumeInv, HandInv, ResolveCorpus
<1>1. process' = [process EXCEPT ![p] = next] /\ runs' = runs /\ calls' = calls
  BY DEF ResolveCorpus, database
<1>2. me.answered = {} /\ me.ready = NotReady BY <1>0 DEF Hand
<1>3. \A r \in RunIds : runs[r].status \in Open /\ runs[r].config = me.config =>
        runs[r].corpus = corpus
  <2> SUFFICES ASSUME NEW r \in RunIds, runs[r].status \in Open, runs[r].config = me.config
               PROVE  runs[r].corpus = corpus
    OBVIOUS
  <2>1. found # {} BY DEF IncompleteCorpora, Incomplete, Open
  <2>2. Max(found) = runs[r].corpus BY <1>0, OnlyOneBatch DEF RunsInv
  <2> QED BY <2>1, <2>2
<1> HIDE DEF corpus
<1>4. /\ joined.pc = "find" /\ joined.corpus = corpus /\ joined.config = me.config
      /\ joined.answered = {} /\ joined.ready = NotReady
  BY <1>0, <1>2 DEF Locals
<1> HIDE DEF joined
<1>5. Joined(joined, runs) BY <1>3, <1>4 DEF Joined
<1>6. Extracted(joined, runs) BY <1>4 DEF Extracted, NotReady
<1>7. Hand(joined, runs) BY <1>4, <1>5, <1>6 DEF Hand, HoldsRun
<1>8. Hand(next, runs) BY <1>7, IdleHolds
<1> HIDE DEF next
<1> QED BY <1>0, <1>1, <1>8, Alone, RunsStand

LEMMA FindResumes ==
  ASSUME NEW p, Processes = {p}, ResumeInv, FindRun(p) PROVE HandInv' /\ RunsInv'
<1> DEFINE me == process[p]
           run == Max(Candidates(me))
           sections == runs[run].sections
           status == runs[run].status
           missing == [me EXCEPT !.pc = "create"]
           adopting == [me EXCEPT !.pc = "adopt", !.run = run, !.seen = sections,
                                  !.seenStatus = status]
           next == IF Candidates(me) = {} THEN missing ELSE adopting
<1>0. TypeInv /\ Hand(me, runs) /\ RunsInv /\ me.pc = "find" /\ me \in Locals
  BY LocalTypes DEF ResumeInv, HandInv, FindRun
<1>1. process' = [process EXCEPT ![p] = next] /\ runs' = runs /\ calls' = calls
  BY DEF FindRun, database
<1>2. me.answered = {} /\ Joined(me, runs) /\ Extracted(me, runs) BY <1>0 DEF Hand
<1>3. /\ missing.pc = "create" /\ missing.answered = {} /\ missing.config = me.config
      /\ missing.corpus = me.corpus /\ missing.ready = me.ready
  BY <1>0, <1>2 DEF Locals
<1>4. Candidates(me) # {} =>
        /\ runs[run].status \in Open /\ runs[run].document = me.document
        /\ runs[run].corpus = me.corpus /\ runs[run].config = me.config
  BY CandidateFound DEF Candidates, Incomplete, Open
<1> HIDE DEF run
<1>5. /\ adopting.pc = "adopt" /\ adopting.run = run /\ adopting.seen = sections
      /\ adopting.answered = {} /\ adopting.config = me.config /\ adopting.corpus = me.corpus
      /\ adopting.document = me.document /\ adopting.ready = me.ready
  <2> HIDE DEF sections, status
  <2> QED BY <1>0, <1>2 DEF Locals
<1> HIDE DEF missing, adopting
<1>6. Hand(missing, runs) BY <1>2, <1>3 DEF Hand, HoldsRun, Joined, Extracted
<1>7. Candidates(me) # {} => Hand(adopting, runs)
  BY <1>2, <1>4, <1>5 DEF Hand, HoldsRun, OfRun, Joined, Extracted
<1>8. Hand(next, runs) BY <1>6, <1>7
<1> HIDE DEF next
<1> QED BY <1>0, <1>1, <1>8, Alone, RunsStand

LEMMA AdoptResumes ==
  ASSUME NEW p, Processes = {p}, ResumeInv, AdoptRun(p) PROVE HandInv' /\ RunsInv'
<1> DEFINE me == process[p]
           status == Written(me.seenStatus, "RUNNING", runs[me.run].status)
           row == [runs[me.run] EXCEPT !.status = status]
           todo == Unfinished(me)
           next == [me EXCEPT !.pc = "work", !.todo = todo, !.seen = {}, !.seenStatus = "none"]
<1>0. TypeInv /\ Hand(me, runs) /\ RunsInv /\ me.pc = "adopt" /\ me \in Locals
  BY LocalTypes DEF ResumeInv, HandInv, AdoptRun
<1>1. me.run \in RunIds /\ runs[me.run] \in RunRow
  BY <1>0, RunTypes DEF TypeInv, InHand, HoldsRun
<1>2. /\ OfRun(me, runs) /\ me.seen = runs[me.run].sections /\ me.answered = {}
      /\ Joined(me, runs) /\ Extracted(me, runs)
  BY <1>0 DEF Hand, HoldsRun
<1>3. status \in Open BY <1>2 DEF Written, OfRun, Open
<1>4. /\ process' = [process EXCEPT ![p] = next]
      /\ runs' = [runs EXCEPT ![me.run] = row] /\ calls' = calls
  BY DEF AdoptRun
<1> HIDE DEF status
<1>5. /\ row.status = status /\ row.document = runs[me.run].document
      /\ row.corpus = runs[me.run].corpus /\ row.config = runs[me.run].config
      /\ row.sections = runs[me.run].sections
  BY <1>1 DEF RunRow
<1>6. todo \cap row.sections = {} BY <1>2, <1>5 DEF Unfinished
<1> HIDE DEF row, todo
<1>7. /\ next.pc = "work" /\ next.todo = todo /\ next.answered = {} /\ next.run = me.run
      /\ next.document = me.document /\ next.corpus = me.corpus /\ next.config = me.config
      /\ next.ready = me.ready
  BY <1>0, <1>2 DEF Locals
<1>8. runs'[me.run] = row BY <1>1, <1>4, <1>0 DEF TypeInv, TypeOK
<1>9. /\ OneIncompleteBatch' /\ CompletedTogether'
      /\ Joined(me, runs') /\ Extracted(me, runs')
      /\ \A q \in RunIds : /\ runs'[q].status = "none" <=> runs[q].status = "none"
                           /\ q # me.run => runs'[q] = runs[q]
  BY <1>0, <1>1, <1>2, <1>3, <1>4, <1>5, StillOpen DEF OfRun
<1> HIDE DEF next
<1>10. Hand(next, runs')
  <2>1. OfRun(me, runs') BY <1>2, <1>3, <1>5, <1>8 DEF OfRun
  <2>2. OfRun(next, runs') /\ Joined(next, runs') /\ Extracted(next, runs')
    BY <1>7, <1>9, <2>1, SameBatch, SameRun
  <2>3. Unrecorded(next, runs') BY <1>6, <1>7, <1>8 DEF Unrecorded
  <2> QED BY <1>7, <2>2, <2>3 DEF Hand
<1>11. HandInv' BY <1>0, <1>4, <1>10, Alone
<1>12. Fresh' BY <1>0, <1>4, <1>9 DEF RunsInv, Fresh
<1>13. RecordedIsKept' BY <1>0, <1>4, <1>5, <1>8, <1>9 DEF RunsInv, RecordedIsKept
<1>14. RecordedOnce' BY <1>0, <1>4 DEF RunsInv, RecordedOnce
<1> QED BY <1>9, <1>11, <1>12, <1>13, <1>14 DEF RunsInv

(* The next run is the first that does not exist. *)
LEMMA NextRunIsFresh ==
  ASSUME Fresh, NEW r, r = Cardinality(CreatedRuns) + 1, r \in RunIds
  PROVE  runs[r].status = "none" /\ \A q \in RunIds : q < r => runs[q].status # "none"
<1>1. RunIds = 1 .. MaxStarts * NumDocuments /\ MaxStarts * NumDocuments \in Nat
  BY Numbers DEF RunIds
<1>2. IsFiniteSet(RunIds) BY <1>1, FS_Interval
<1>3. IsFiniteSet(CreatedRuns) /\ Cardinality(CreatedRuns) \in Nat
  BY <1>2, FS_Subset, FS_CardinalityType DEF CreatedRuns
<1>4. ASSUME runs[r].status # "none" PROVE FALSE
  <2>1. ASSUME NEW x \in 1 .. r PROVE x \in CreatedRuns
    <3>1. x \in RunIds /\ (x = r \/ r > x) BY <1>1
    <3> QED BY <1>4, <3>1 DEF CreatedRuns, Fresh
  <2>2. Cardinality(1 .. r) = r BY <1>1, FS_Interval
  <2>3. r <= Cardinality(CreatedRuns) BY <1>3, <2>1, <2>2, FS_Subset
  <2> QED BY <1>3, <2>3
<1>5. ASSUME NEW q \in RunIds, q < r, runs[q].status = "none" PROVE FALSE
  <2>1. CreatedRuns \subseteq 1 .. (q - 1) BY <1>1, <1>5 DEF CreatedRuns, Fresh
  <2>2. IsFiniteSet(1 .. (q - 1)) /\ Cardinality(1 .. (q - 1)) = q - 1
    <3>1. q - 1 \in Nat BY <1>1
    <3> HIDE DEF RunIds
    <3>2. \A n \in Nat : IsFiniteSet(1 .. n) /\ Cardinality(1 .. n) = n BY FS_Interval
    <3> QED BY <3>1, <3>2
  <2>3. Cardinality(CreatedRuns) <= q - 1 BY <2>1, <2>2, FS_Subset
  <2> QED BY <1>1, <1>3, <1>5, <2>3
<1> QED BY <1>4, <1>5

LEMMA CreateResumes ==
  ASSUME NEW p, Processes = {p}, ResumeInv, CreateRun(p) PROVE HandInv' /\ RunsInv'
<1> DEFINE me == process[p]
           r == Cardinality(CreatedRuns) + 1
           row == [status |-> "RUNNING", document |-> me.document, corpus |-> me.corpus,
                   config |-> me.config, sections |-> {}]
           todo == ChunksOf[me.document]
           next == [me EXCEPT !.pc = "work", !.run = r, !.todo = todo]
<1>0. TypeInv /\ Hand(me, runs) /\ RunsInv /\ me.pc = "create" /\ me \in Locals
  BY LocalTypes DEF ResumeInv, HandInv, CreateRun
<1>1. r \in RunIds BY DEF CreateRun
<1>2. me.answered = {} /\ Joined(me, runs) /\ Extracted(me, runs) BY <1>0 DEF Hand
<1>3. /\ process' = [process EXCEPT ![p] = next]
      /\ runs' = [runs EXCEPT ![r] = row] /\ calls' = calls
  BY DEF CreateRun
<1>4. runs[r].status = "none" /\ \A q \in RunIds : q < r => runs[q].status # "none"
  BY <1>0, <1>1, NextRunIsFresh DEF RunsInv
<1>5. /\ row.status = "RUNNING" /\ row.document = me.document /\ row.corpus = me.corpus
      /\ row.config = me.config /\ row.sections = {}
  OBVIOUS
<1> HIDE DEF r, row, todo
<1>6. runs'[r] = row /\ \A q \in RunIds : q # r => runs'[q] = runs[q]
  BY <1>0, <1>1, <1>3 DEF TypeInv, TypeOK
<1>7. /\ next.pc = "work" /\ next.todo = todo /\ next.answered = {} /\ next.run = r
      /\ next.document = me.document /\ next.corpus = me.corpus /\ next.config = me.config
      /\ next.ready = me.ready
  BY <1>0, <1>2 DEF Locals
<1> HIDE DEF next
<1>8. OfRun(next, runs') BY <1>5, <1>6, <1>7 DEF OfRun, Open
<1>9. Unrecorded(next, runs') BY <1>5, <1>6, <1>7 DEF Unrecorded
<1>10. Joined(next, runs') BY <1>2, <1>5, <1>6, <1>7 DEF Joined
<1>11. Extracted(next, runs') BY <1>2, <1>4, <1>5, <1>6, <1>7 DEF Extracted
<1>12. Hand(next, runs') BY <1>7, <1>8, <1>9, <1>10, <1>11 DEF Hand
<1>13. HandInv' BY <1>0, <1>3, <1>12, Alone
<1>14. Fresh'
  <2> SUFFICES ASSUME NEW q \in RunIds, runs'[q].status = "none"
               PROVE  /\ \A c \in Chunks : calls'[q][c] = 0
                      /\ \A s \in RunIds : s > q => runs'[s].status = "none"
    BY DEF Fresh
  <2>1. q # r /\ runs[q].status = "none" BY <1>5, <1>6
  <2>2. q > r BY <1>1, <1>4, <2>1, Numbers DEF RunIds
  <2>3. \A s \in RunIds : s > q => s # r BY <1>1, <2>2, Numbers DEF RunIds
  <2> QED BY <1>0, <1>3, <1>6, <2>1, <2>3 DEF RunsInv, Fresh
<1>15. RecordedIsKept' /\ RecordedOnce'
  <2>1. \A c \in Chunks : calls[r][c] = 0 BY <1>0, <1>1, <1>4 DEF RunsInv, Fresh
  <2> QED BY <1>0, <1>3, <1>6, <2>1 DEF RunsInv, RecordedIsKept, RecordedOnce
<1>16. OneIncompleteBatch'
  BY <1>0, <1>2, <1>5, <1>6 DEF RunsInv, OneIncompleteBatch, Joined, Open
<1>17. CompletedTogether'
  <2> SUFFICES ASSUME NEW q \in RunIds, runs'[q].status = "COMPLETED", NEW d \in Documents
               PROVE  \E s \in RunIds : /\ runs'[s].status = "COMPLETED"
                                        /\ runs'[s].document = d
                                        /\ runs'[s].corpus = runs'[q].corpus
    BY DEF CompletedTogether
  <2>1. q # r /\ runs[q].status = "COMPLETED" BY <1>5, <1>6
  <2>2. PICK s \in RunIds : /\ runs[s].status = "COMPLETED" /\ runs[s].document = d
                            /\ runs[s].corpus = runs[q].corpus
    BY <1>0, <2>1 DEF RunsInv, CompletedTogether
  <2>3. s # r BY <1>4, <2>2
  <2> QED BY <1>6, <2>1, <2>2, <2>3
<1> QED BY <1>13, <1>14, <1>15, <1>16, <1>17 DEF RunsInv
-----------------------------------------------------------------------------
LEMMA ReadResumes ==
  ASSUME NEW p, Processes = {p}, ResumeInv, ReadCheckpoint(p) PROVE HandInv' /\ RunsInv'
<1> DEFINE me == process[p]
           sections == runs[me.run].sections
<1>0. TypeInv /\ Hand(me, runs) /\ RunsInv /\ me.pc = "work" /\ me \in Locals
  BY LocalTypes DEF ResumeInv, HandInv, ReadCheckpoint
<1>1. PICK c \in Recordable(me) :
        process' = [process EXCEPT ![p] =
          [me EXCEPT !.pc = "record", !.chunk = {c}, !.seen = sections,
                     !.answered = @ \ {c}, !.todo = @ \ {c}]]
  BY DEF ReadCheckpoint
<1> DEFINE next == [me EXCEPT !.pc = "record", !.chunk = {c}, !.seen = sections,
                              !.answered = @ \ {c}, !.todo = @ \ {c}]
<1>2. OfRun(me, runs) /\ Unrecorded(me, runs) /\ Joined(me, runs) /\ Extracted(me, runs)
  BY <1>0 DEF Hand, HoldsRun
<1>3. c \in me.todo \cup me.answered BY DEF Recordable
<1>4. process' = [process EXCEPT ![p] = next] /\ runs' = runs /\ calls' = calls
  BY <1>1 DEF ReadCheckpoint, database
<1> HIDE DEF sections
<1>5. /\ next.pc = "record" /\ next.chunk = {c} /\ next.seen = sections
      /\ next.answered = me.answered \ {c} /\ next.todo = me.todo \ {c} /\ next.run = me.run
      /\ next.document = me.document /\ next.corpus = me.corpus /\ next.config = me.config
      /\ next.ready = me.ready
  BY <1>0 DEF Locals
<1> HIDE DEF next
<1>6. Unrecorded(next, runs) BY <1>2, <1>3, <1>5 DEF Unrecorded
<1>7. OfRun(next, runs) /\ Joined(next, runs) /\ Extracted(next, runs)
  BY <1>2, <1>5, SameBatch, SameRun
<1>8. Hand(next, runs) BY <1>5, <1>6, <1>7 DEF Hand, sections
<1> QED BY <1>0, <1>4, <1>8, Alone, RunsStand

LEMMA RecordResumes ==
  ASSUME NEW p, Processes = {p}, ResumeInv, RecordSection(p) PROVE HandInv' /\ RunsInv'
<1> DEFINE me == process[p]
           row == [runs[me.run] EXCEPT !.sections = WithChunk(me)]
           counted == [c \in Chunks |-> IF c \in me.chunk THEN calls[me.run][c] + 1
                                        ELSE calls[me.run][c]]
           next == [me EXCEPT !.pc = "work", !.chunk = {}, !.seen = {}]
<1>0. TypeInv /\ Hand(me, runs) /\ RunsInv /\ me.pc = "record" /\ me \in Locals
  BY LocalTypes DEF ResumeInv, HandInv, RecordSection
<1>1. me.run \in RunIds /\ runs[me.run] \in RunRow
  BY <1>0, RunTypes DEF TypeInv, InHand, HoldsRun
<1>2. /\ OfRun(me, runs) /\ Unrecorded(me, runs) /\ me.seen = runs[me.run].sections
      /\ Joined(me, runs) /\ Extracted(me, runs)
  BY <1>0 DEF Hand, HoldsRun
<1>3. /\ process' = [process EXCEPT ![p] = next]
      /\ runs' = [runs EXCEPT ![me.run] = row] /\ calls' = [calls EXCEPT ![me.run] = counted]
  BY DEF RecordSection
<1>4. /\ row.status = runs[me.run].status /\ row.document = runs[me.run].document
      /\ row.corpus = runs[me.run].corpus /\ row.config = runs[me.run].config
      /\ row.sections = runs[me.run].sections \cup me.chunk
  BY <1>1, <1>2 DEF RunRow, WithChunk
<1>5. \A c \in Chunks : /\ c \in me.chunk => counted[c] = calls[me.run][c] + 1
                        /\ c \notin me.chunk => counted[c] = calls[me.run][c]
  OBVIOUS
<1> HIDE DEF row, counted
<1>6. /\ next.pc = "work" /\ next.todo = me.todo /\ next.answered = me.answered
      /\ next.run = me.run /\ next.document = me.document /\ next.corpus = me.corpus
      /\ next.config = me.config /\ next.ready = me.ready
  BY <1>0 DEF Locals
<1> HIDE DEF next
<1>7. runs'[me.run] = row BY <1>0, <1>1, <1>3 DEF TypeInv, TypeOK
<1>8. /\ OneIncompleteBatch' /\ CompletedTogether'
      /\ Joined(me, runs') /\ Extracted(me, runs')
      /\ \A q \in RunIds : /\ runs'[q].status = "none" <=> runs[q].status = "none"
                           /\ q # me.run => runs'[q] = runs[q]
  BY <1>0, <1>1, <1>2, <1>3, <1>4, StillOpen DEF OfRun
<1>9. Unrecorded(next, runs') BY <1>0, <1>2, <1>4, <1>6, <1>7 DEF Unrecorded
<1>10. OfRun(next, runs') /\ Joined(next, runs') /\ Extracted(next, runs')
  <2>1. OfRun(me, runs') BY <1>2, <1>4, <1>7 DEF OfRun
  <2> QED BY <1>6, <1>8, <2>1, SameBatch, SameRun
<1>11. Hand(next, runs') BY <1>6, <1>9, <1>10 DEF Hand
<1>12. HandInv' BY <1>0, <1>3, <1>11, Alone
<1>13. /\ calls'[me.run] = counted
       /\ \A q \in RunIds : q # me.run => calls'[q] = calls[q]
  BY <1>0, <1>1, <1>3 DEF TypeInv, TypeOK
<1>14. Fresh'
  <2>1. runs[me.run].status # "none" BY <1>2 DEF OfRun, Open
  <2> QED BY <1>0, <1>8, <1>13, <2>1 DEF RunsInv, Fresh
<1>15. \A c \in me.chunk \cap Chunks : calls[me.run][c] = 0
  <2>1. \A c \in me.chunk : c \notin runs[me.run].sections BY <1>0, <1>2 DEF Unrecorded
  <2>2. \A c \in Chunks : calls[me.run][c] \in Nat BY <1>0, <1>1 DEF TypeInv, TypeOK
  <2> QED BY <1>0, <1>1, <2>1, <2>2 DEF RunsInv, RecordedIsKept
<1>16. RecordedIsKept'
  <2> SUFFICES ASSUME NEW q \in RunIds, NEW c \in Chunks, calls'[q][c] > 0
               PROVE  c \in runs'[q].sections
    BY DEF RecordedIsKept
  <2>1. CASE q # me.run BY <1>0, <1>8, <1>13, <2>1 DEF RunsInv, RecordedIsKept
  <2>2. CASE q = me.run
    BY <1>0, <1>4, <1>5, <1>7, <1>13, <2>2 DEF RunsInv, RecordedIsKept
  <2> QED BY <2>1, <2>2
<1>17. RecordedOnce'
  <2> SUFFICES ASSUME NEW q \in RunIds, NEW c \in Chunks PROVE calls'[q][c] <= 1
    BY DEF RecordedOnce
  <2>1. CASE q # me.run BY <1>0, <1>13, <2>1 DEF RunsInv, RecordedOnce
  <2>2. CASE q = me.run BY <1>0, <1>5, <1>13, <1>15, <2>2 DEF RunsInv, RecordedOnce
  <2> QED BY <2>1, <2>2
<1> QED BY <1>8, <1>12, <1>14, <1>16, <1>17 DEF RunsInv

LEMMA ExtractBatchResumes ==
  ASSUME NEW p, Processes = {p}, ResumeInv, ExtractBatch(p) PROVE HandInv' /\ RunsInv'
<1> DEFINE me == process[p]
<1>0. TypeInv /\ Hand(me, runs) /\ RunsInv /\ me.pc = "work" /\ me \in Locals
  BY LocalTypes DEF ResumeInv, HandInv, ExtractBatch
<1>1. PICK batch \in SUBSET me.todo, lost \in SUBSET me.todo :
        process' = [process EXCEPT ![p] =
          [me EXCEPT !.todo = @ \ batch, !.answered = batch \ lost, !.failed = lost # {}]]
  BY DEF ExtractBatch
<1> DEFINE failed == lost # {}
           next == [me EXCEPT !.todo = @ \ batch, !.answered = batch \ lost, !.failed = failed]
<1>2. OfRun(me, runs) /\ Unrecorded(me, runs) /\ Joined(me, runs) /\ Extracted(me, runs)
  BY <1>0 DEF Hand, HoldsRun
<1>3. process' = [process EXCEPT ![p] = next] /\ runs' = runs /\ calls' = calls
  BY <1>1 DEF ExtractBatch, database
<1> HIDE DEF failed
<1>4. /\ next.pc = "work" /\ next.answered = batch \ lost /\ next.todo = me.todo \ batch
      /\ next.run = me.run /\ next.document = me.document /\ next.corpus = me.corpus
      /\ next.config = me.config /\ next.ready = me.ready
  BY <1>0 DEF Locals
<1> HIDE DEF next
<1>5. Unrecorded(next, runs) BY <1>2, <1>4 DEF Unrecorded
<1>6. OfRun(next, runs) /\ Joined(next, runs) /\ Extracted(next, runs)
  BY <1>2, <1>4, SameBatch, SameRun
<1>7. Hand(next, runs) BY <1>4, <1>5, <1>6 DEF Hand
<1> QED BY <1>0, <1>3, <1>7, Alone, RunsStand

LEMMA ReadForPauseResumes ==
  ASSUME NEW p, Processes = {p}, ResumeInv, ReadForPause(p) PROVE HandInv' /\ RunsInv'
<1> DEFINE me == process[p]
           sections == runs[me.run].sections
           status == runs[me.run].status
           next == [me EXCEPT !.pc = "pause", !.seen = sections, !.seenStatus = status]
<1>0. TypeInv /\ Hand(me, runs) /\ RunsInv /\ me.pc = "work" /\ me \in Locals
  BY LocalTypes DEF ResumeInv, HandInv, ReadForPause
<1>1. OfRun(me, runs) /\ Joined(me, runs) /\ Extracted(me, runs) BY <1>0 DEF Hand, HoldsRun
<1>2. process' = [process EXCEPT ![p] = next] /\ runs' = runs /\ calls' = calls
  BY DEF ReadForPause, database
<1> HIDE DEF sections, status
<1>3. /\ next.pc = "pause" /\ next.seen = sections
      /\ next.run = me.run /\ next.document = me.document /\ next.corpus = me.corpus
      /\ next.config = me.config /\ next.ready = me.ready
  BY <1>0 DEF Locals
<1> HIDE DEF next
<1>4. OfRun(next, runs) /\ Joined(next, runs) /\ Extracted(next, runs)
  BY <1>1, <1>3, SameBatch, SameRun
<1>5. Hand(next, runs) BY <1>3, <1>4 DEF Hand, sections
<1> QED BY <1>0, <1>2, <1>5, Alone, RunsStand

LEMMA PauseResumes ==
  ASSUME NEW p, Processes = {p}, ResumeInv, PauseRun(p) PROVE HandInv' /\ RunsInv'
<1> DEFINE me == process[p]
           status == Written(me.seenStatus, "PAUSED", runs[me.run].status)
           row == [runs[me.run] EXCEPT !.sections = me.seen, !.status = status]
<1>0. TypeInv /\ Hand(me, runs) /\ RunsInv /\ me.pc = "pause" /\ me \in Locals
  BY LocalTypes DEF ResumeInv, HandInv, PauseRun
<1>1. me.run \in RunIds /\ runs[me.run] \in RunRow
  BY <1>0, RunTypes DEF TypeInv, InHand, HoldsRun
<1>2. OfRun(me, runs) /\ me.seen = runs[me.run].sections BY <1>0 DEF Hand, HoldsRun
<1>3. status \in Open BY <1>2 DEF Written, OfRun, Open
<1>4. /\ process' = [process EXCEPT ![p] = Idle] /\ calls' = calls
      /\ runs' = [runs EXCEPT ![me.run] = row]
  BY <1>0, <1>1 DEF PauseRun, TypeInv, TypeOK
<1> HIDE DEF status
<1>5. /\ row.status = status /\ row.document = runs[me.run].document
      /\ row.corpus = runs[me.run].corpus /\ row.config = runs[me.run].config
      /\ row.sections = runs[me.run].sections
  BY <1>1, <1>2 DEF RunRow
<1> HIDE DEF row
<1>6. runs'[me.run] = row BY <1>0, <1>1, <1>4 DEF TypeInv, TypeOK
<1>7. /\ OneIncompleteBatch' /\ CompletedTogether'
      /\ \A q \in RunIds : /\ runs'[q].status = "none" <=> runs[q].status = "none"
                           /\ q # me.run => runs'[q] = runs[q]
  BY <1>0, <1>1, <1>2, <1>3, <1>4, <1>5, StillOpen DEF OfRun
<1>8. HandInv' BY <1>0, <1>4, IdleHolds, Alone
<1>9. Fresh' BY <1>0, <1>4, <1>7 DEF RunsInv, Fresh
<1>10. RecordedIsKept' BY <1>0, <1>4, <1>5, <1>6, <1>7 DEF RunsInv, RecordedIsKept
<1>11. RecordedOnce' BY <1>0, <1>4 DEF RunsInv, RecordedOnce
<1> QED BY <1>7, <1>8, <1>9, <1>10, <1>11 DEF RunsInv
-----------------------------------------------------------------------------
LEMMA FinishResumes ==
  ASSUME NEW p, Processes = {p}, ResumeInv, FinishDocument(p) PROVE HandInv' /\ RunsInv'
<1> DEFINE me == process[p]
           d == me.document
           done == [run |-> me.run, sections |-> runs[me.run].sections]
           pc == IF d < NumDocuments THEN "find" ELSE "select"
           next == [me EXCEPT !.ready[d] = done, !.run = 0, !.document = NextDocument(d),
                              !.pc = pc]
<1>0. TypeInv /\ Hand(me, runs) /\ RunsInv /\ me.pc = "work" /\ me \in Locals /\ me.answered = {}
  BY LocalTypes DEF ResumeInv, HandInv, FinishDocument
<1>1. OfRun(me, runs) /\ Joined(me, runs) /\ Extracted(me, runs) BY <1>0 DEF Hand, HoldsRun
<1>2. me.run \in RunIds BY <1>0 DEF TypeInv, InHand, HoldsRun
<1>3. process' = [process EXCEPT ![p] = next] /\ runs' = runs /\ calls' = calls
  BY DEF FinishDocument, database
<1>4. pc \in {"find", "select"} /\ done.run = me.run OBVIOUS
<1>5. me.ready \in [Documents -> [run : MaybeRun, sections : SUBSET Chunks]] BY <1>0 DEF Locals
<1> HIDE DEF done, pc
<1>6. /\ next.pc = pc /\ next.answered = {} /\ next.corpus = me.corpus /\ next.config = me.config
      /\ next.ready = [me.ready EXCEPT ![d] = done]
  BY <1>0 DEF Locals
<1>7. next.ready[d] = done /\ \A e \in Documents : e # d => next.ready[e] = me.ready[e]
  BY <1>5, <1>6, <1>0 DEF Locals
<1> HIDE DEF next
<1>8. runs[me.run].status # "none" /\ runs[me.run].document = d /\ runs[me.run].corpus = me.corpus
  BY <1>1 DEF OfRun, Open
<1>9. Extracted(next, runs)
  <2> SUFFICES ASSUME NEW e \in Documents, next.ready[e].sections # {}
               PROVE  /\ next.ready[e].run \in RunIds
                      /\ runs[next.ready[e].run].status # "none"
                      /\ runs[next.ready[e].run].document = e
                      /\ runs[next.ready[e].run].corpus = next.corpus
    BY DEF Extracted
  <2>1. CASE e = d BY <1>2, <1>4, <1>6, <1>7, <1>8, <2>1
  <2>2. CASE e # d
    <3>1. next.ready[e] = me.ready[e] BY <1>7, <2>2
    <3> QED BY <1>1, <1>6, <3>1 DEF Extracted
  <2> QED BY <2>1, <2>2
<1>10. Joined(next, runs) BY <1>1, <1>6 DEF Joined
<1>11. Hand(next, runs) BY <1>4, <1>6, <1>9, <1>10 DEF Hand, HoldsRun
<1> QED BY <1>0, <1>3, <1>11, Alone, RunsStand

LEMMA SelectResumes ==
  ASSUME NEW p, Processes = {p}, ResumeInv, SelectActive(p) PROVE HandInv' /\ RunsInv'
<1> DEFINE me == process[p]
           next == [me EXCEPT !.pc = "publish", !.superseded = active]
<1>0. TypeInv /\ Hand(me, runs) /\ RunsInv /\ me.pc = "select" /\ me \in Locals
  BY LocalTypes DEF ResumeInv, HandInv, SelectActive
<1>1. Joined(me, runs) /\ Extracted(me, runs) BY <1>0 DEF Hand
<1>2. process' = [process EXCEPT ![p] = next] /\ runs' = runs /\ calls' = calls
  BY DEF SelectActive, database
<1>3. /\ next.pc = "publish" /\ next.corpus = me.corpus /\ next.config = me.config
      /\ next.ready = me.ready
  BY <1>0 DEF Locals
<1> HIDE DEF next
<1>4. Hand(next, runs) BY <1>1, <1>3 DEF Hand, HoldsRun, Joined, Extracted
<1> QED BY <1>0, <1>2, <1>4, Alone, RunsStand

LEMMA PublishResumes ==
  ASSUME NEW p, Processes = {p}, ResumeInv, Publish(p) PROVE HandInv' /\ RunsInv'
<1> DEFINE me == process[p]
           published == PublishedRuns(me)
<1>0. TypeInv /\ Hand(me, runs) /\ RunsInv /\ me.pc = "publish" /\ Complete(me)
  BY DEF ResumeInv, HandInv, Publish
<1>1. Extracted(me, runs) BY <1>0 DEF Hand
<1>2. ASSUME NEW d \in Documents
      PROVE  /\ me.ready[d].run \in RunIds
             /\ runs[me.ready[d].run].status # "none"
             /\ runs[me.ready[d].run].document = d
             /\ runs[me.ready[d].run].corpus = me.corpus
  <2>1. me.ready[d].sections # {} BY <1>0, ConstantsAssumption DEF Complete
  <2> QED BY <1>1, <2>1 DEF Extracted
<1>3. /\ process' = [process EXCEPT ![p] = Idle] /\ calls' = calls
      /\ runs' = [r \in RunIds |-> IF r \in published
                               THEN [runs[r] EXCEPT !.status = "COMPLETED"] ELSE runs[r]]
  BY DEF Publish
<1>4. ASSUME NEW r \in RunIds
      PROVE  /\ r \in published => runs'[r].status = "COMPLETED" /\ runs[r].status # "none"
             /\ r \notin published => runs'[r].status = runs[r].status
             /\ runs'[r].document = runs[r].document /\ runs'[r].corpus = runs[r].corpus
             /\ runs'[r].config = runs[r].config /\ runs'[r].sections = runs[r].sections
  <2>1. runs[r] \in RunRow BY <1>0, RunTypes
  <2>2. r \in published => runs[r].status # "none" BY <1>2 DEF PublishedRuns
  <2>3. CASE r \in published
    <3>1. runs'[r] = [runs[r] EXCEPT !.status = "COMPLETED"] BY <1>3, <2>3
    <3> QED BY <2>1, <2>2, <2>3, <3>1 DEF RunRow
  <2>4. CASE r \notin published BY <1>3, <2>4
  <2> QED BY <2>3, <2>4
<1>5. HandInv' BY <1>0, <1>3, IdleHolds, Alone
<1>6. Fresh' BY <1>0, <1>3, <1>4 DEF RunsInv, Fresh
<1>7. RecordedIsKept' /\ RecordedOnce' BY <1>0, <1>3, <1>4 DEF RunsInv, RecordedIsKept, RecordedOnce
<1>8. OneIncompleteBatch' BY <1>0, <1>4 DEF RunsInv, OneIncompleteBatch
<1>9. CompletedTogether'
  <2> SUFFICES ASSUME NEW r \in RunIds, runs'[r].status = "COMPLETED", NEW d \in Documents
               PROVE  \E q \in RunIds : /\ runs'[q].status = "COMPLETED"
                                        /\ runs'[q].document = d
                                        /\ runs'[q].corpus = runs'[r].corpus
    BY DEF CompletedTogether
  <2>1. CASE r \in published
    <3>1. runs[r].corpus = me.corpus BY <1>2, <2>1 DEF PublishedRuns
    <3>2. me.ready[d].run \in published BY DEF PublishedRuns
    <3> QED BY <1>2, <1>4, <3>1, <3>2
  <2>2. CASE r \notin published
    <3>1. PICK q \in RunIds : /\ runs[q].status = "COMPLETED" /\ runs[q].document = d
                              /\ runs[q].corpus = runs[r].corpus
      BY <1>0, <1>4, <2>2 DEF RunsInv, CompletedTogether
    <3>2. runs'[q].status = "COMPLETED" BY <1>4, <3>1
    <3> QED BY <1>4, <3>1, <3>2
  <2> QED BY <2>1, <2>2
<1> QED BY <1>5, <1>6, <1>7, <1>8, <1>9 DEF RunsInv

LEMMA GivesUpResumes ==
  ASSUME NEW p, Processes = {p}, ResumeInv, RefusePublication(p) \/ Crash(p)
  PROVE  HandInv' /\ RunsInv'
<1>1. process' = [process EXCEPT ![p] = Idle] /\ runs' = runs /\ calls' = calls
  BY DEF RefusePublication, Crash, database
<1> QED BY <1>1, IdleHolds, Alone, RunsStand DEF ResumeInv

LEMMA StepResume ==
  ASSUME NEW p, Processes = {p} PROVE ResumeInv /\ [Next]_vars => ResumeInv'
<1> SUFFICES ASSUME ResumeInv, [Next]_vars PROVE ResumeInv' OBVIOUS
<1>0. TypeInv' BY StepTypes DEF ResumeInv
<1>1. CASE Start(p) BY <1>0, <1>1, StartResumes DEF ResumeInv
<1>2. CASE Extract(p)
  BY <1>0, <1>2, ResolveResumes, FindResumes, AdoptResumes, CreateResumes, ReadResumes,
     RecordResumes, ExtractBatchResumes, ReadForPauseResumes, PauseResumes, FinishResumes,
     SelectResumes, PublishResumes, GivesUpResumes DEF Extract, ResumeInv
<1>3. CASE Crash(p) BY <1>0, <1>3, GivesUpResumes DEF ResumeInv
<1>4. ASSUME runs' = runs, calls' = calls, process' = process PROVE ResumeInv'
  <2>1. HandInv' BY <1>4 DEF ResumeInv, HandInv, Hand, OfRun, Unrecorded, Joined, Extracted
  <2> QED BY <1>0, <1>4, <2>1, RunsStand DEF ResumeInv
<1>5. ASSUME NEW c \in Configs, Reconfigure(c) PROVE ResumeInv'
  BY <1>4, <1>5 DEF Reconfigure, database
<1>6. CASE UNCHANGED vars BY <1>4, <1>6 DEF vars, database
<1> QED BY <1>1, <1>2, <1>3, <1>5, <1>6 DEF Next

LEMMA AlwaysResumeInv ==
  ASSUME NEW p, Processes = {p} PROVE Spec => []ResumeInv
<1>1. ResumeInv /\ [Next]_vars => ResumeInv' BY StepResume
<1> QED BY <1>1, InitResume, PTL DEF Spec

(* However often one operator's script dies, pauses and is started again, what
   it recorded stays in its checkpoint. *)
THEOREM ResumeKeepsRecords ==
  ASSUME NEW p, Processes = {p} PROVE Spec => []RecordedIsKept
<1>1. ResumeInv => RecordedIsKept BY DEF ResumeInv, RunsInv
<1> QED BY <1>1, AlwaysResumeInv, PTL

(* And what it recorded is never extracted again. *)
THEOREM ResumeRecordsOnce ==
  ASSUME NEW p, Processes = {p} PROVE Spec => []RecordedOnce
<1>1. ResumeInv => RecordedOnce BY DEF ResumeInv, RunsInv
<1> QED BY <1>1, AlwaysResumeInv, PTL

(* A restarted script never finds two batches to choose from. *)
THEOREM BatchesStayWhole ==
  ASSUME NEW p, Processes = {p} PROVE Spec => []OneIncompleteBatch
<1>1. ResumeInv => OneIncompleteBatch BY DEF ResumeInv, RunsInv
<1> QED BY <1>1, AlwaysResumeInv, PTL

(* It completes the runs of a corpus together. *)
THEOREM CorporaAreCompleted ==
  ASSUME NEW p, Processes = {p} PROVE Spec => []CompletedTogether
<1>1. ResumeInv => CompletedTogether BY DEF ResumeInv, RunsInv
<1> QED BY <1>1, AlwaysResumeInv, PTL
-----------------------------------------------------------------------------
(* A batch belongs to the start that opened it, has one configuration and one
   open run of a document, and is open or completed as a whole. *)
Numbered(rs, n) == \A r \in RunIds : rs[r].status # "none" => rs[r].corpus \in 1 .. n
OneConfig(rs) ==
  \A r, q \in RunIds :
    /\ rs[r].status # "none" /\ rs[q].status # "none" /\ rs[r].corpus = rs[q].corpus
    => rs[r].config = rs[q].config
OneOpenRun(rs) ==
  \A r, q \in RunIds :
    /\ rs[r].status \in Open /\ rs[q].status \in Open
    /\ rs[r].corpus = rs[q].corpus /\ rs[r].document = rs[q].document
    => r = q
OpenOrCompleted(rs) ==
  \A r, q \in RunIds :
    rs[r].status \in Open /\ rs[q].status = "COMPLETED" => rs[r].corpus # rs[q].corpus

(* The batch of the process is not published yet, and what it will replace is
   the whole registry. *)
NewStart(me, rs, n) == \A r \in RunIds : rs[r].status # "none" => rs[r].corpus < n
NewBatch(me, rs, n) ==
  /\ me.corpus \in 1 .. n
  /\ \A r \in RunIds : rs[r].status # "none" /\ rs[r].corpus = me.corpus =>
       rs[r].status # "COMPLETED" /\ rs[r].config = me.config
Ready(me, rs) ==
  \A d \in Documents :
    me.ready[d].sections = {} \/ rs[me.ready[d].run].status \in Open
Missing(me, rs) ==
  \A r \in RunIds :
    rs[r].status \in Open /\ rs[r].corpus = me.corpus => rs[r].document # me.document

Batch(me, rs, n, rows) ==
  /\ me.pc # "idle" => me.start = n /\ n \in 1 .. MaxStarts /\ Ready(me, rs)
  /\ me.pc = "resolve" => NewStart(me, rs, n)
  /\ me.pc \notin {"idle", "resolve"} => NewBatch(me, rs, n)
  /\ me.pc = "create" => Missing(me, rs)
  /\ me.pc = "publish" => me.superseded = rows

Batches ==
  /\ Numbered(runs, starts) /\ OneConfig(runs) /\ OneOpenRun(runs) /\ OpenOrCompleted(runs)
  /\ \A p \in Processes : Batch(process[p], runs, starts, active)

LEMMA InitBatches == Init => Batches
<1> SUFFICES ASSUME Init PROVE Batches OBVIOUS
<1>1. \A r \in RunIds : runs[r].status = "none" BY DEF Init, NoRun
<1>2. \A p \in Processes : process[p].pc = "idle" BY DEF Init, Idle
<1> QED BY <1>1, <1>2 DEF Batches, Numbered, OneConfig, OneOpenRun, OpenOrCompleted, Batch, Open

(* Runs that are written back as the runs they were. *)
Similar(rs, next) ==
  \A r \in RunIds :
    /\ next[r].status = "none" <=> rs[r].status = "none"
    /\ next[r].status \in Open <=> rs[r].status \in Open
    /\ next[r].status = "COMPLETED" <=> rs[r].status = "COMPLETED"
    /\ next[r].document = rs[r].document /\ next[r].corpus = rs[r].corpus
    /\ next[r].config = rs[r].config

(* What readers of the registry see stays the same. *)
Steady == active' = active /\ PublishedCorpora' = PublishedCorpora

(* A step of the only process that leaves runs what they are, and the registry. *)
LEMMA BatchesStand ==
  ASSUME NEW p, Processes = {p}, TypeInv, Batches, NEW next,
         process' = [process EXCEPT ![p] = next], Similar(runs, runs'),
         starts' = starts, active' = active, Batch(next, runs', starts, active)
  PROVE  Batches' /\ Steady
<1>1. Numbered(runs', starts') BY DEF Batches, Numbered, Similar
<1>2. OneConfig(runs') BY DEF Batches, OneConfig, Similar
<1>3. OneOpenRun(runs') BY DEF Batches, OneOpenRun, Similar
<1>4. OpenOrCompleted(runs') BY DEF Batches, OpenOrCompleted, Similar
<1>5. process'[p] = next BY DEF TypeInv, TypeOK
<1>6. \A q \in Processes : Batch(process'[q], runs', starts', active')
  BY <1>5
<1>7. Steady BY DEF Steady, PublishedCorpora, Similar
<1> QED BY <1>1, <1>2, <1>3, <1>4, <1>6, <1>7
        DEF Batches, Numbered, OneConfig, OneOpenRun, OpenOrCompleted, Batch, NewStart, NewBatch,
            Ready, Missing

LEMMA SimilarSame == Similar(runs, runs)
BY DEF Similar

LEMMA IdleBatch == ASSUME NEW rs, NEW n, NEW rows PROVE Batch(Idle, rs, n, rows)
BY DEF Idle, Batch

(* A process that works on. *)
LEMMA WorksOn ==
  ASSUME TypeInv, NEW me, NEW next, NEW rs, Batch(me, runs, starts, active), Extracted(me, runs),
         me.pc \notin {"idle", "resolve"}, Similar(runs, rs),
         next.pc \notin {"idle", "resolve", "create", "publish"},
         next.start = me.start, next.corpus = me.corpus, next.config = me.config,
         next.ready = me.ready
  PROVE  Batch(next, rs, starts, active)
<1>1. NewBatch(next, rs, starts) BY DEF Batch, NewBatch, Similar
<1>2. Ready(next, rs) BY DEF Batch, Ready, Similar, Extracted
<1> QED BY <1>1, <1>2 DEF Batch
-----------------------------------------------------------------------------
LEMMA StartBatches ==
  ASSUME NEW p, Processes = {p}, ResumeInv, Batches, Start(p) PROVE Batches' /\ Steady
<1> DEFINE next == [Idle EXCEPT !.pc = "resolve", !.start = starts + 1, !.config = config]
<1>1. /\ process' = [process EXCEPT ![p] = next] /\ runs' = runs /\ active' = active
      /\ starts' = starts + 1 /\ starts < MaxStarts
  BY DEF Start, database
<1>2. starts \in Nat /\ starts + 1 \in 1 .. MaxStarts
  BY <1>1, Numbers DEF ResumeInv, TypeInv, TypeOK
<1>3. next.pc = "resolve" /\ next.start = starts + 1 /\ next.ready = NotReady BY DEF Idle
<1> HIDE DEF next
<1>4. Ready(next, runs) BY <1>3 DEF Ready, NotReady
<1>5. NewStart(next, runs, starts + 1) BY <1>2 DEF Batches, Numbered, NewStart
<1>6. Batch(next, runs, starts + 1, active) BY <1>2, <1>3, <1>4, <1>5 DEF Batch
<1>7. process'[p] = next BY <1>1 DEF ResumeInv, TypeInv, TypeOK
<1>8. Numbered(runs, starts + 1) BY <1>2 DEF Batches, Numbered
<1>9. Steady BY <1>1 DEF Steady, PublishedCorpora
<1> QED BY <1>1, <1>6, <1>7, <1>8, <1>9
        DEF Batches, Numbered, OneConfig, OneOpenRun, OpenOrCompleted, Batch, NewStart, NewBatch,
            Ready, Missing

LEMMA ResolveBatches ==
  ASSUME NEW p, Processes = {p}, ResumeInv, Batches, ResolveCorpus(p) PROVE Batches' /\ Steady
<1> DEFINE me == process[p]
           found == IncompleteCorpora(me.config)
           corpus == IF found = {} THEN me.start ELSE Max(found)
           joined == [me EXCEPT !.pc = "find", !.corpus = corpus]
           next == IF Cardinality(found) > 1 THEN Idle ELSE joined
<1>0. TypeInv /\ RunsInv /\ me.pc = "resolve" /\ me \in Locals /\ Batch(me, runs, starts, active)
  BY LocalTypes DEF ResumeInv, Batches, ResolveCorpus
<1>1. process' = [process EXCEPT ![p] = next] /\ UNCHANGED <<runs, active, starts>>
  BY DEF ResolveCorpus, database
<1>2. me.start = starts /\ starts \in 1 .. MaxStarts /\ NewStart(me, runs, starts) /\ Ready(me, runs)
  BY <1>0 DEF Batch
<1>3. /\ corpus \in 1 .. starts
      /\ \A r \in RunIds : runs[r].status # "none" /\ runs[r].corpus = corpus =>
           runs[r].status # "COMPLETED" /\ runs[r].config = me.config
  <2>1. CASE found = {} BY <1>2, <2>1 DEF NewStart
  <2>2. CASE found # {}
    <3>1. PICK r \in RunIds : runs[r].status \in Open /\ runs[r].config = me.config
      BY <2>2 DEF IncompleteCorpora, Incomplete, Open
    <3>2. corpus = runs[r].corpus BY <1>0, <2>2, <3>1, OnlyOneBatch DEF RunsInv
    <3>3. runs[r].status # "none" BY <3>1 DEF Open
    <3> HIDE DEF corpus
    <3> QED BY <3>1, <3>2, <3>3 DEF Batches, Numbered, OneConfig, OpenOrCompleted
  <2> QED BY <2>1, <2>2
<1> HIDE DEF corpus
<1>4. /\ joined.pc = "find" /\ joined.corpus = corpus /\ joined.config = me.config
      /\ joined.start = me.start /\ joined.ready = me.ready
  BY <1>0 DEF Locals
<1> HIDE DEF joined
<1>5. NewBatch(joined, runs, starts) BY <1>3, <1>4 DEF NewBatch
<1>6. Ready(joined, runs) BY <1>2, <1>4 DEF Ready
<1>7. Batch(joined, runs, starts, active) BY <1>2, <1>4, <1>5, <1>6 DEF Batch
<1>8. Batch(next, runs, starts, active) BY <1>7, IdleBatch
<1> HIDE DEF next
<1> QED BY <1>0, <1>1, <1>8, BatchesStand, SimilarSame

LEMMA FindBatches ==
  ASSUME NEW p, Processes = {p}, ResumeInv, Batches, FindRun(p) PROVE Batches' /\ Steady
<1> DEFINE me == process[p]
           run == Max(Candidates(me))
           sections == runs[run].sections
           status == runs[run].status
           missing == [me EXCEPT !.pc = "create"]
           adopting == [me EXCEPT !.pc = "adopt", !.run = run, !.seen = sections,
                                  !.seenStatus = status]
           next == IF Candidates(me) = {} THEN missing ELSE adopting
<1>0. /\ TypeInv /\ Hand(me, runs) /\ me.pc = "find" /\ me \in Locals
      /\ Batch(me, runs, starts, active)
  BY LocalTypes DEF ResumeInv, HandInv, Batches, FindRun
<1>1. process' = [process EXCEPT ![p] = next] /\ UNCHANGED <<runs, active, starts>>
  BY DEF FindRun, database
<1>2. /\ missing.pc = "create" /\ missing.document = me.document /\ missing.config = me.config
      /\ missing.corpus = me.corpus /\ missing.ready = me.ready /\ missing.start = me.start
  BY <1>0 DEF Locals
<1> HIDE DEF run
<1>3. /\ adopting.pc = "adopt" /\ adopting.config = me.config /\ adopting.corpus = me.corpus
      /\ adopting.start = me.start /\ adopting.ready = me.ready
  <2> HIDE DEF sections, status
  <2> QED BY <1>0 DEF Locals
<1> HIDE DEF missing, adopting
<1>4. Extracted(me, runs) BY <1>0 DEF Hand
<1>5. Batch(adopting, runs, starts, active) BY <1>0, <1>3, <1>4, WorksOn, SimilarSame
<1>6. ASSUME Candidates(me) = {} PROVE Batch(missing, runs, starts, active)
  <2>1. NewBatch(me, runs, starts) /\ Ready(me, runs) /\ me.start = starts /\ starts \in 1 .. MaxStarts
    BY <1>0 DEF Batch
  <2>2. NewBatch(missing, runs, starts) /\ Ready(missing, runs)
    BY <1>2, <2>1 DEF NewBatch, Ready
  <2>3. Missing(missing, runs)
    <3> SUFFICES ASSUME NEW r \in RunIds, runs[r].status \in Open, runs[r].corpus = me.corpus,
                        runs[r].document = me.document
                 PROVE  FALSE
      BY <1>2 DEF Missing
    <3>1. runs[r].config = me.config BY <2>1 DEF NewBatch, Open
    <3> QED BY <1>6, <3>1 DEF Candidates, Incomplete, Open
  <2> QED BY <1>2, <2>1, <2>2, <2>3 DEF Batch
<1>7. Batch(next, runs, starts, active) BY <1>5, <1>6
<1> HIDE DEF next
<1> QED BY <1>0, <1>1, <1>7, BatchesStand, SimilarSame

LEMMA CreateBatches ==
  ASSUME NEW p, Processes = {p}, ResumeInv, Batches, CreateRun(p) PROVE Batches' /\ Steady
<1> DEFINE me == process[p]
           r == Cardinality(CreatedRuns) + 1
           row == [status |-> "RUNNING", document |-> me.document, corpus |-> me.corpus,
                   config |-> me.config, sections |-> {}]
           todo == ChunksOf[me.document]
           next == [me EXCEPT !.pc = "work", !.run = r, !.todo = todo]
<1>0. /\ TypeInv /\ Hand(me, runs) /\ RunsInv /\ me.pc = "create" /\ me \in Locals
      /\ Batch(me, runs, starts, active)
  BY LocalTypes DEF ResumeInv, HandInv, Batches, CreateRun
<1>1. r \in RunIds BY DEF CreateRun
<1>2. /\ NewBatch(me, runs, starts) /\ Ready(me, runs) /\ Missing(me, runs) /\ Extracted(me, runs)
      /\ me.start = starts /\ starts \in 1 .. MaxStarts
  BY <1>0 DEF Batch, Hand
<1>3. /\ process' = [process EXCEPT ![p] = next]
      /\ runs' = [runs EXCEPT ![r] = row] /\ UNCHANGED <<starts, active>>
  BY DEF CreateRun
<1>4. runs[r].status = "none" BY <1>0, <1>1, NextRunIsFresh DEF RunsInv
<1>5. /\ row.status = "RUNNING" /\ row.document = me.document /\ row.corpus = me.corpus
      /\ row.config = me.config
  OBVIOUS
<1> HIDE DEF r, row, todo
<1>6. runs'[r] = row /\ \A q \in RunIds : q # r => runs'[q] = runs[q]
  BY <1>0, <1>1, <1>3 DEF TypeInv, TypeOK
<1>7. /\ next.pc = "work" /\ next.start = me.start /\ next.corpus = me.corpus
      /\ next.config = me.config /\ next.ready = me.ready
  BY <1>0 DEF Locals
<1> HIDE DEF next
<1>8. process'[p] = next BY <1>0, <1>3 DEF TypeInv, TypeOK
<1>9. NewBatch(next, runs', starts) BY <1>2, <1>5, <1>6, <1>7 DEF NewBatch
<1>10. Ready(next, runs')
  <2>1. \A d \in Documents : me.ready[d].sections # {} => me.ready[d].run \in RunIds \ {r}
    BY <1>2, <1>4 DEF Extracted
  <2> QED BY <1>2, <1>6, <1>7, <2>1 DEF Ready
<1>11. Batch(next, runs', starts, active) BY <1>2, <1>7, <1>9, <1>10 DEF Batch
<1>12. Numbered(runs', starts) BY <1>2, <1>5, <1>6 DEF Batches, Numbered, NewBatch
<1>13. OneConfig(runs') BY <1>2, <1>5, <1>6 DEF Batches, OneConfig, NewBatch
<1>14. OneOpenRun(runs') BY <1>2, <1>5, <1>6 DEF Batches, OneOpenRun, Missing
<1>15. OpenOrCompleted(runs')
  <2>1. \A q \in RunIds : runs'[q].status = "COMPLETED" => q # r /\ runs[q].status = "COMPLETED"
    BY <1>5, <1>6
  <2>2. \A q \in RunIds : runs[q].status = "COMPLETED" => runs[q].corpus # me.corpus
    BY <1>2 DEF NewBatch
  <2> QED BY <1>5, <1>6, <2>1, <2>2 DEF Batches, OpenOrCompleted
<1>16. Steady
  <2>1. \A q \in RunIds : /\ runs'[q].status = "COMPLETED" <=> runs[q].status = "COMPLETED"
                          /\ runs[q].status = "COMPLETED" => runs'[q].corpus = runs[q].corpus
    BY <1>4, <1>5, <1>6
  <2> QED BY <1>3, <2>1 DEF Steady, PublishedCorpora
<1> QED BY <1>3, <1>8, <1>11, <1>12, <1>13, <1>14, <1>15, <1>16
        DEF Batches, Numbered, OneConfig, OneOpenRun, OpenOrCompleted, Batch, NewStart, NewBatch,
            Ready, Missing

(* A run that is written back open is what it was. *)
LEMMA SimilarRow ==
  ASSUME TypeInv, NEW r \in RunIds, runs[r].status \in Open, NEW row, row.status \in Open,
         row.document = runs[r].document, row.corpus = runs[r].corpus,
         row.config = runs[r].config, runs' = [runs EXCEPT ![r] = row]
  PROVE  Similar(runs, runs')
<1>1. runs'[r] = row /\ \A q \in RunIds : q # r => runs'[q] = runs[q] BY DEF TypeInv, TypeOK
<1> QED BY <1>1 DEF Similar, Open

LEMMA AdoptBatches ==
  ASSUME NEW p, Processes = {p}, ResumeInv, Batches, AdoptRun(p) PROVE Batches' /\ Steady
<1> DEFINE me == process[p]
           status == Written(me.seenStatus, "RUNNING", runs[me.run].status)
           row == [runs[me.run] EXCEPT !.status = status]
           todo == Unfinished(me)
           next == [me EXCEPT !.pc = "work", !.todo = todo, !.seen = {}, !.seenStatus = "none"]
<1>0. /\ TypeInv /\ Hand(me, runs) /\ me.pc = "adopt" /\ me \in Locals
      /\ Batch(me, runs, starts, active)
  BY LocalTypes DEF ResumeInv, HandInv, Batches, AdoptRun
<1>1. me.run \in RunIds /\ runs[me.run] \in RunRow
  BY <1>0, RunTypes DEF TypeInv, InHand, HoldsRun
<1>2. OfRun(me, runs) /\ Extracted(me, runs) BY <1>0 DEF Hand, HoldsRun
<1>3. status \in Open BY <1>2 DEF Written, OfRun, Open
<1>4. /\ process' = [process EXCEPT ![p] = next]
      /\ runs' = [runs EXCEPT ![me.run] = row] /\ UNCHANGED <<active, starts>>
  BY DEF AdoptRun
<1> HIDE DEF status, todo
<1>5. /\ row.status = status /\ row.document = runs[me.run].document
      /\ row.corpus = runs[me.run].corpus /\ row.config = runs[me.run].config
  BY <1>1 DEF RunRow
<1> HIDE DEF row
<1>6. /\ next.pc = "work" /\ next.start = me.start /\ next.corpus = me.corpus
      /\ next.config = me.config /\ next.ready = me.ready
  BY <1>0 DEF Locals
<1> HIDE DEF next
<1>7. Similar(runs, runs') BY <1>0, <1>1, <1>2, <1>3, <1>4, <1>5, SimilarRow DEF OfRun
<1>8. Batch(next, runs', starts, active) BY <1>0, <1>2, <1>6, <1>7, WorksOn
<1> QED BY <1>0, <1>4, <1>7, <1>8, BatchesStand

LEMMA RecordBatches ==
  ASSUME NEW p, Processes = {p}, ResumeInv, Batches, RecordSection(p) PROVE Batches' /\ Steady
<1> DEFINE me == process[p]
           sections == WithChunk(me)
           row == [runs[me.run] EXCEPT !.sections = sections]
           next == [me EXCEPT !.pc = "work", !.chunk = {}, !.seen = {}]
<1>0. /\ TypeInv /\ Hand(me, runs) /\ me.pc = "record" /\ me \in Locals
      /\ Batch(me, runs, starts, active)
  BY LocalTypes DEF ResumeInv, HandInv, Batches, RecordSection
<1>1. me.run \in RunIds /\ runs[me.run] \in RunRow
  BY <1>0, RunTypes DEF TypeInv, InHand, HoldsRun
<1>2. OfRun(me, runs) /\ Extracted(me, runs) BY <1>0 DEF Hand, HoldsRun
<1>3. /\ process' = [process EXCEPT ![p] = next]
      /\ runs' = [runs EXCEPT ![me.run] = row] /\ UNCHANGED <<active, starts>>
  BY DEF RecordSection
<1> HIDE DEF sections
<1>4. /\ row.status = runs[me.run].status /\ row.document = runs[me.run].document
      /\ row.corpus = runs[me.run].corpus /\ row.config = runs[me.run].config
  BY <1>1 DEF RunRow
<1> HIDE DEF row
<1>5. /\ next.pc = "work" /\ next.start = me.start /\ next.corpus = me.corpus
      /\ next.config = me.config /\ next.ready = me.ready
  BY <1>0 DEF Locals
<1> HIDE DEF next
<1>6. Similar(runs, runs') BY <1>0, <1>1, <1>2, <1>3, <1>4, SimilarRow DEF OfRun
<1>7. Batch(next, runs', starts, active) BY <1>0, <1>2, <1>5, <1>6, WorksOn
<1> QED BY <1>0, <1>3, <1>6, <1>7, BatchesStand

LEMMA PauseBatches ==
  ASSUME NEW p, Processes = {p}, ResumeInv, Batches, PauseRun(p) PROVE Batches' /\ Steady
<1> DEFINE me == process[p]
           status == Written(me.seenStatus, "PAUSED", runs[me.run].status)
           row == [runs[me.run] EXCEPT !.sections = me.seen, !.status = status]
<1>0. TypeInv /\ Hand(me, runs) /\ me.pc = "pause"
  BY DEF ResumeInv, HandInv, PauseRun
<1>1. me.run \in RunIds /\ runs[me.run] \in RunRow
  BY <1>0, RunTypes DEF TypeInv, InHand, HoldsRun
<1>2. OfRun(me, runs) BY <1>0 DEF Hand, HoldsRun
<1>3. status \in Open BY <1>2 DEF Written, OfRun, Open
<1>4. /\ process' = [process EXCEPT ![p] = Idle] /\ UNCHANGED <<active, starts>>
      /\ runs' = [runs EXCEPT ![me.run] = row]
  BY <1>0, <1>1 DEF PauseRun, TypeInv, TypeOK
<1> HIDE DEF status
<1>5. /\ row.status = status /\ row.document = runs[me.run].document
      /\ row.corpus = runs[me.run].corpus /\ row.config = runs[me.run].config
  BY <1>1 DEF RunRow
<1> HIDE DEF row
<1>6. Similar(runs, runs') BY <1>0, <1>1, <1>2, <1>3, <1>4, <1>5, SimilarRow DEF OfRun
<1> QED BY <1>0, <1>4, <1>6, IdleBatch, BatchesStand

(* The steps of a process at work that leave the database as it is. *)
LEMMA WorkBatches ==
  ASSUME NEW p, Processes = {p}, ResumeInv, Batches,
         ReadCheckpoint(p) \/ ExtractBatch(p) \/ ReadForPause(p)
  PROVE  Batches' /\ Steady
<1> DEFINE me == process[p]
<1>0. /\ TypeInv /\ Hand(me, runs) /\ me.pc = "work" /\ me \in Locals
      /\ Batch(me, runs, starts, active) /\ UNCHANGED <<runs, active, starts>>
  BY LocalTypes DEF ResumeInv, HandInv, Batches, ReadCheckpoint, ExtractBatch, ReadForPause, database
<1>1. PICK next : /\ process' = [process EXCEPT ![p] = next]
                  /\ next.pc \in {"record", "work", "pause"} /\ next.start = me.start
                  /\ next.corpus = me.corpus /\ next.config = me.config /\ next.ready = me.ready
  <2>1. CASE ReadCheckpoint(p)
    <3> DEFINE sections == runs[me.run].sections
    <3>1. PICK c \in Recordable(me) : process' = [process EXCEPT ![p] =
            [me EXCEPT !.pc = "record", !.chunk = {c}, !.seen = sections,
                       !.answered = @ \ {c}, !.todo = @ \ {c}]]
      BY <2>1 DEF ReadCheckpoint
    <3> HIDE DEF sections
    <3> DEFINE next == [me EXCEPT !.pc = "record", !.chunk = {c}, !.seen = sections,
                                  !.answered = @ \ {c}, !.todo = @ \ {c}]
    <3>2. /\ next.pc = "record" /\ next.start = me.start
          /\ next.corpus = me.corpus /\ next.config = me.config /\ next.ready = me.ready
      BY <1>0 DEF Locals
    <3>3. process' = [process EXCEPT ![p] = next] BY <3>1
    <3> HIDE DEF next
    <3> QED BY <3>2, <3>3
  <2>2. CASE ExtractBatch(p)
    <3>1. PICK batch \in SUBSET me.todo, lost \in SUBSET me.todo :
            process' = [process EXCEPT ![p] =
              [me EXCEPT !.todo = @ \ batch, !.answered = batch \ lost, !.failed = lost # {}]]
      BY <2>2 DEF ExtractBatch
    <3> DEFINE failed == lost # {}
               next == [me EXCEPT !.todo = @ \ batch, !.answered = batch \ lost,
                                  !.failed = failed]
    <3>2. process' = [process EXCEPT ![p] = next] BY <3>1
    <3> HIDE DEF failed
    <3>3. /\ next.pc = "work" /\ next.start = me.start
          /\ next.corpus = me.corpus /\ next.config = me.config /\ next.ready = me.ready
      BY <1>0 DEF Locals
    <3> HIDE DEF next
    <3> QED BY <3>2, <3>3
  <2>3. CASE ReadForPause(p)
    <3> DEFINE sections == runs[me.run].sections
               status == runs[me.run].status
               next == [me EXCEPT !.pc = "pause", !.seen = sections, !.seenStatus = status]
    <3>1. process' = [process EXCEPT ![p] = next] BY <2>3 DEF ReadForPause
    <3> HIDE DEF sections, status
    <3>2. /\ next.pc = "pause" /\ next.start = me.start
          /\ next.corpus = me.corpus /\ next.config = me.config /\ next.ready = me.ready
      BY <1>0 DEF Locals
    <3> HIDE DEF next
    <3> QED BY <3>1, <3>2
  <2> QED BY <2>1, <2>2, <2>3
<1>2. Extracted(me, runs) BY <1>0 DEF Hand
<1>3. Similar(runs, runs') BY <1>0, SimilarSame
<1>4. Batch(next, runs', starts, active) BY <1>0, <1>1, <1>2, <1>3, WorksOn
<1> QED BY <1>0, <1>1, <1>3, <1>4, BatchesStand

LEMMA FinishBatches ==
  ASSUME NEW p, Processes = {p}, ResumeInv, Batches, FinishDocument(p) PROVE Batches' /\ Steady
<1> DEFINE me == process[p]
           d == me.document
           done == [run |-> me.run, sections |-> runs[me.run].sections]
           pc == IF d < NumDocuments THEN "find" ELSE "select"
           next == [me EXCEPT !.ready[d] = done, !.run = 0, !.document = NextDocument(d),
                              !.pc = pc]
<1>0. /\ TypeInv /\ Hand(me, runs) /\ me.pc = "work" /\ me \in Locals
      /\ Batch(me, runs, starts, active)
  BY LocalTypes DEF ResumeInv, HandInv, Batches, FinishDocument
<1>1. runs[me.run].status \in Open BY <1>0 DEF Hand, HoldsRun, OfRun
<1>2. process' = [process EXCEPT ![p] = next] /\ UNCHANGED <<runs, active, starts>>
  BY DEF FinishDocument, database
<1>3. pc \in {"find", "select"} /\ done.run = me.run OBVIOUS
<1>4. me.ready \in [Documents -> [run : MaybeRun, sections : SUBSET Chunks]] BY <1>0 DEF Locals
<1> HIDE DEF done, pc
<1>5. /\ next.pc = pc /\ next.start = me.start /\ next.corpus = me.corpus
      /\ next.config = me.config /\ next.ready = [me.ready EXCEPT ![d] = done]
  BY <1>0 DEF Locals
<1>6. next.ready[d] = done /\ \A e \in Documents : e # d => next.ready[e] = me.ready[e]
  BY <1>4, <1>5, <1>0 DEF Locals
<1> HIDE DEF next
<1>7. /\ NewBatch(me, runs, starts) /\ Ready(me, runs) /\ me.start = starts
      /\ starts \in 1 .. MaxStarts
  BY <1>0 DEF Batch
<1>8. Ready(next, runs)
  <2> SUFFICES ASSUME NEW e \in Documents, next.ready[e].sections # {}
               PROVE  runs[next.ready[e].run].status \in Open
    BY DEF Ready
  <2>1. CASE e = d BY <1>1, <1>3, <1>6, <2>1
  <2>2. CASE e # d
    <3>1. next.ready[e] = me.ready[e] BY <1>6, <2>2
    <3> QED BY <1>7, <3>1 DEF Ready
  <2> QED BY <2>1, <2>2
<1>9. NewBatch(next, runs, starts) BY <1>5, <1>7 DEF NewBatch
<1>10. Batch(next, runs, starts, active) BY <1>3, <1>5, <1>7, <1>8, <1>9 DEF Batch
<1> QED BY <1>0, <1>2, <1>10, BatchesStand, SimilarSame

LEMMA SelectBatches ==
  ASSUME NEW p, Processes = {p}, ResumeInv, Batches, SelectActive(p) PROVE Batches' /\ Steady
<1> DEFINE me == process[p]
           next == [me EXCEPT !.pc = "publish", !.superseded = active]
<1>0. TypeInv /\ me.pc = "select" /\ me \in Locals /\ Batch(me, runs, starts, active)
  BY LocalTypes DEF ResumeInv, Batches, SelectActive
<1>1. process' = [process EXCEPT ![p] = next] /\ UNCHANGED <<runs, active, starts>>
  BY DEF SelectActive, database
<1>2. /\ next.pc = "publish" /\ next.superseded = active /\ next.start = me.start
      /\ next.corpus = me.corpus /\ next.config = me.config /\ next.ready = me.ready
  BY <1>0 DEF Locals
<1> HIDE DEF next
<1>3. NewBatch(next, runs, starts) /\ Ready(next, runs) BY <1>0, <1>2 DEF Batch, NewBatch, Ready
<1>4. Batch(next, runs, starts, active) BY <1>0, <1>2, <1>3 DEF Batch
<1> QED BY <1>0, <1>1, <1>4, BatchesStand, SimilarSame

LEMMA GivesUpBatches ==
  ASSUME NEW p, Processes = {p}, ResumeInv, Batches, RefusePublication(p) \/ Crash(p)
  PROVE  Batches' /\ Steady
<1>1. process' = [process EXCEPT ![p] = Idle] /\ UNCHANGED <<runs, active, starts>>
  BY DEF RefusePublication, Crash, database
<1> QED BY <1>1, IdleBatch, BatchesStand, SimilarSame DEF ResumeInv
-----------------------------------------------------------------------------
(* The publication replaces the whole registry and completes all of a batch. *)
Publication(c, by) == UNION {RowsOf(d, ChunksOf[d], c, by) : d \in Documents}

LEMMA PublishedAll ==
  ASSUME NEW p \in Processes, ResumeInv, Batches, Publish(p)
  PROVE  LET me == process[p] IN
         /\ active' = Publication(me.corpus, me.start)
         /\ me.corpus \in 1 .. starts
         /\ \A r \in RunIds : r \in PublishedRuns(me) =>
              /\ runs[r].status \in Open /\ runs[r].corpus = me.corpus
              /\ runs'[r].status = "COMPLETED"
         /\ \A r \in RunIds : r \notin PublishedRuns(me) => runs'[r] = runs[r]
         /\ \A r \in RunIds : runs[r].status \in Open /\ runs[r].corpus = me.corpus =>
              r \in PublishedRuns(me)
         /\ \A r \in RunIds : /\ runs'[r].document = runs[r].document
                              /\ runs'[r].corpus = runs[r].corpus
                              /\ runs'[r].config = runs[r].config
         /\ PublishedRuns(me) \cap RunIds # {}
<1> DEFINE me == process[p]
           published == PublishedRuns(me)
<1>0. /\ TypeInv /\ Hand(me, runs) /\ Batch(me, runs, starts, active) /\ OneOpenRun(runs)
      /\ me.pc = "publish" /\ Complete(me)
  BY DEF ResumeInv, HandInv, Batches, Publish
<1>1. /\ Extracted(me, runs) /\ Ready(me, runs) /\ NewBatch(me, runs, starts)
      /\ me.superseded = active
  BY <1>0 DEF Hand, Batch
<1>2. ASSUME NEW d \in Documents
      PROVE  /\ me.ready[d].run \in RunIds /\ me.ready[d].run \in published
             /\ runs[me.ready[d].run].status \in Open
             /\ runs[me.ready[d].run].document = d
             /\ runs[me.ready[d].run].corpus = me.corpus
  <2>1. me.ready[d].sections # {} BY <1>0, ConstantsAssumption DEF Complete
  <2> QED BY <1>1, <2>1 DEF Extracted, Ready, PublishedRuns
<1>3. \A d \in Documents : PublishedRows(me, d) = RowsOf(d, ChunksOf[d], me.corpus, me.start)
  <2> SUFFICES ASSUME NEW d \in Documents
               PROVE  PublishedRows(me, d) = RowsOf(d, ChunksOf[d], me.corpus, me.start)
    OBVIOUS
  <2>1. ChunksOf[d] \cap me.ready[d].sections = ChunksOf[d] BY <1>0 DEF Complete
  <2> QED BY <2>1 DEF PublishedRows
<1>4. active' = Publication(me.corpus, me.start)
  <2>1. active' = (active \ me.superseded) \cup UNION {PublishedRows(me, d) : d \in Documents}
    BY DEF Publish, Superseded
  <2>2. {PublishedRows(me, d) : d \in Documents} =
          {RowsOf(d, ChunksOf[d], me.corpus, me.start) : d \in Documents}
    BY <1>3
  <2> QED BY <1>1, <2>1, <2>2 DEF Publication
<1>5. runs' = [r \in RunIds |-> IF r \in published
                               THEN [runs[r] EXCEPT !.status = "COMPLETED"] ELSE runs[r]]
  BY DEF Publish
<1>6. \A r \in published : r \in RunIds /\ runs[r].status \in Open /\ runs[r].corpus = me.corpus
  BY <1>2 DEF PublishedRuns
<1>7. ASSUME NEW r \in RunIds
      PROVE  /\ r \in published => runs'[r].status = "COMPLETED"
             /\ r \notin published => runs'[r] = runs[r]
             /\ runs'[r].document = runs[r].document /\ runs'[r].corpus = runs[r].corpus
             /\ runs'[r].config = runs[r].config
  <2>1. runs[r] \in RunRow BY <1>0, RunTypes
  <2>2. CASE r \in published
    <3>1. runs'[r] = [runs[r] EXCEPT !.status = "COMPLETED"] BY <1>5, <2>2
    <3> QED BY <2>1, <2>2, <3>1 DEF RunRow
  <2>3. CASE r \notin published BY <1>5, <2>3
  <2> QED BY <2>2, <2>3
<1>8. ASSUME NEW r \in RunIds, runs[r].status \in Open, runs[r].corpus = me.corpus
      PROVE  r \in published
  <2> DEFINE q == me.ready[runs[r].document].run
  <2>1. runs[r].document \in Documents BY <1>0, RunTypes
  <2>2. /\ q \in RunIds /\ q \in published /\ runs[q].status \in Open
        /\ runs[q].document = runs[r].document /\ runs[q].corpus = me.corpus
    BY <1>2, <2>1
  <2> HIDE DEF q
  <2>3. r = q BY <1>0, <1>8, <2>2 DEF OneOpenRun
  <2> QED BY <2>2, <2>3
<1>9. published \cap RunIds # {} BY <1>2, Numbers
<1>10. me.corpus \in 1 .. starts BY <1>1 DEF NewBatch
<1> HIDE DEF published
<1> QED BY <1>4, <1>6, <1>7, <1>8, <1>9, <1>10 DEF published

LEMMA PublishBatches ==
  ASSUME NEW p, Processes = {p}, ResumeInv, Batches, Publish(p) PROVE Batches'
<1> DEFINE me == process[p]
           published == PublishedRuns(me)
<1>1. /\ \A r \in RunIds : r \in published =>
           /\ runs[r].status \in Open /\ runs[r].corpus = me.corpus
           /\ runs'[r].status = "COMPLETED"
      /\ \A r \in RunIds : r \notin published => runs'[r] = runs[r]
      /\ \A r \in RunIds : runs[r].status \in Open /\ runs[r].corpus = me.corpus =>
           r \in published
      /\ \A r \in RunIds : /\ runs'[r].document = runs[r].document
                           /\ runs'[r].corpus = runs[r].corpus
                           /\ runs'[r].config = runs[r].config
  BY PublishedAll
<1>2. process' = [process EXCEPT ![p] = Idle] /\ starts' = starts BY DEF Publish
<1> HIDE DEF published
<1>3. \A r \in RunIds : /\ runs'[r].status = "none" <=> runs[r].status = "none"
                        /\ runs'[r].status \in Open =>
                             runs[r].status \in Open /\ runs[r].corpus # me.corpus
                        /\ runs'[r].status = "COMPLETED" =>
                             runs[r].status = "COMPLETED" \/ runs[r].corpus = me.corpus
  BY <1>1 DEF Open
<1>4. Numbered(runs', starts) BY <1>1, <1>3 DEF Batches, Numbered
<1>5. OneConfig(runs') BY <1>1, <1>3 DEF Batches, OneConfig
<1>6. OneOpenRun(runs') BY <1>1, <1>3 DEF Batches, OneOpenRun
<1>7. OpenOrCompleted(runs') BY <1>1, <1>3 DEF Batches, OpenOrCompleted
<1>8. process'[p] = Idle BY <1>2 DEF ResumeInv, TypeInv, TypeOK
<1>9. Batch(Idle, runs', starts, active') BY IdleBatch
<1> QED BY <1>2, <1>4, <1>5, <1>6, <1>7, <1>8, <1>9
        DEF Batches, Numbered, OneConfig, OneOpenRun, OpenOrCompleted, Batch, NewStart, NewBatch,
            Ready, Missing

(* The rows of one publication give every document its corpus as version. *)
OfDocument(rows, d) == {row \in rows : row.document = d}
ChunksIn(rows) == {row.chunk : row \in rows}
CorporaIn(rows) == {row.corpus : row \in rows}

LEMMA VersionPublished ==
  ASSUME NEW c \in Corpora, NEW by, NEW rows, NEW d \in Documents,
         rows = Publication(c, by)
  PROVE  /\ ChunksIn(OfDocument(rows, d)) = ChunksOf[d]
         /\ Cardinality(OfDocument(rows, d)) = Cardinality(ChunksOf[d])
         /\ CorporaIn(OfDocument(rows, d)) = {c}
<1> DEFINE mine == OfDocument(rows, d)
           Row(e, k) == [document |-> e, chunk |-> k, corpus |-> c, by |-> by]
<1>1. \A row : row \in rows <=> \E e \in Documents : \E k \in ChunksOf[e] : row = Row(e, k)
  <2>1. \A e \in Documents : RowsOf(e, ChunksOf[e], c, by) = {Row(e, k) : k \in ChunksOf[e]}
    BY DEF RowsOf
  <2>2. rows = UNION {RowsOf(e, ChunksOf[e], c, by) : e \in Documents} BY DEF Publication
  <2> QED BY <2>1, <2>2
<1>2. \A e, k : /\ Row(e, k).document = e /\ Row(e, k).chunk = k /\ Row(e, k).corpus = c
  OBVIOUS
<1> HIDE DEF Row
<1>3. \A row : row \in mine <=> \E k \in ChunksOf[d] : row = Row(d, k)
  BY <1>1, <1>2 DEF OfDocument
<1> HIDE DEF mine
<1>4. ChunksIn(mine) = ChunksOf[d]
  <2>1. \A k \in ChunksOf[d] : Row(d, k) \in mine /\ Row(d, k).chunk = k BY <1>2, <1>3
  <2>2. \A row \in mine : row.chunk \in ChunksOf[d] BY <1>2, <1>3
  <2> QED BY <2>1, <2>2 DEF ChunksIn
<1>5. CorporaIn(mine) = {c}
  <2>1. PICK k \in ChunksOf[d] : TRUE BY ConstantsAssumption
  <2>2. Row(d, k) \in mine /\ Row(d, k).corpus = c BY <1>2, <1>3
  <2>3. \A row \in mine : row.corpus = c BY <1>2, <1>3
  <2> QED BY <2>2, <2>3 DEF CorporaIn
<1>6. Cardinality(mine) = Cardinality(ChunksOf[d])
  <2> DEFINE f == [k \in ChunksOf[d] |-> Row(d, k)]
  <2>1. \A k \in ChunksOf[d] : f[k] = Row(d, k) /\ f[k] \in mine BY <1>3
  <2>2. f \in [ChunksOf[d] -> mine] BY <2>1
  <2>3. \A k, l \in ChunksOf[d] : f[k] = f[l] => k = l BY <1>2, <2>1
  <2>4. \A row \in mine : \E k \in ChunksOf[d] : f[k] = row BY <1>3, <2>1
  <2> HIDE DEF f
  <2>5. f \in Bijection(ChunksOf[d], mine)
    BY <2>2, <2>3, <2>4 DEF Bijection, Injection, IsInjective, Surjection
  <2>6. IsFiniteSet(ChunksOf[d]) BY ConstantsAssumption, FS_Subset
  <2> QED BY <2>5, <2>6, FS_Bijection DEF ExistsBijection
<1> QED BY <1>4, <1>5, <1>6 DEF mine

LEMMA TheOnlyCorpus == ASSUME NEW c \in Corpora PROVE Cardinality({c}) = 1 /\ Max({c}) = c
<1>1. {c} \in SUBSET (0 .. MaxStarts) /\ {c} # {} BY DEF Corpora
<1>2. Max({c}) \in {c} BY <1>1, MaxIsMember, Numbers
<1> QED BY <1>2, FS_Singleton

LEMMA InitRegistry == Init => Registry!Init /\ OnePublicationActive
<1> SUFFICES ASSUME Init PROVE Registry!Init /\ OnePublicationActive OBVIOUS
<1>1. active = Publication(0, 0) BY DEF Init, Publication
<1>2. \A d \in Documents : VersionOf(d) = 0
  <2> SUFFICES ASSUME NEW d \in Documents PROVE VersionOf(d) = 0 OBVIOUS
  <2>1. /\ ChunksIn(OfDocument(active, d)) = ChunksOf[d]
        /\ Cardinality(OfDocument(active, d)) = Cardinality(ChunksOf[d])
        /\ CorporaIn(OfDocument(active, d)) = {0}
    BY <1>1, VersionPublished, Numbers
  <2>2. Cardinality({0}) = 1 /\ Max({0}) = 0 BY TheOnlyCorpus, Numbers
  <2> QED BY <2>1, <2>2 DEF VersionOf, RowsOfDocument, OfDocument, ChunksIn, CorporaIn
<1>3. PublishedCorpora = {0} BY DEF Init, NoRun, PublishedCorpora
<1>4. OnePublicationActive BY <1>1 DEF OnePublicationActive, Publication, RowsOf
<1> QED BY <1>2, <1>3, <1>4 DEF Registry!Init

LEMMA PublishRegistry ==
  ASSUME NEW p, Processes = {p}, ResumeInv, Batches, Publish(p)
  PROVE  Registry!Next /\ OnePublicationActive'
<1> DEFINE me == process[p]
           published == PublishedRuns(me)
           corpus == me.corpus
           by == me.start
<1>1. /\ active' = Publication(corpus, by)
      /\ corpus \in 1 .. starts
      /\ \A r \in RunIds : r \in published =>
           /\ runs[r].status \in Open /\ runs[r].corpus = corpus
           /\ runs'[r].status = "COMPLETED"
      /\ \A r \in RunIds : r \notin published => runs'[r] = runs[r]
      /\ \A r \in RunIds : runs'[r].corpus = runs[r].corpus
      /\ published \cap RunIds # {}
  BY PublishedAll
<1>2. \A r \in RunIds : runs[r].status = "COMPLETED" => runs[r].corpus # corpus
  BY DEF Batches, Batch, NewBatch, Publish
<1>3. starts \in 0 .. MaxStarts BY DEF ResumeInv, TypeInv, TypeOK
<1> HIDE DEF published, corpus, by
<1>4. corpus \in Corpora /\ corpus # 0 BY <1>1, <1>3, Numbers DEF Corpora
<1>5. corpus \notin PublishedCorpora BY <1>2, <1>4 DEF PublishedCorpora
<1>6. PublishedCorpora' = PublishedCorpora \cup {corpus}
  <2>1. \A r \in RunIds : runs[r].status = "COMPLETED" => r \notin published BY <1>1 DEF Open
  <2>2. \A r \in RunIds : runs'[r].status = "COMPLETED" <=>
                            runs[r].status = "COMPLETED" \/ r \in published
    BY <1>1, <2>1
  <2>3. \A c : c \in PublishedCorpora' <=> c \in PublishedCorpora \/ c = corpus
    BY <1>1, <2>2 DEF PublishedCorpora
  <2> QED BY <2>3
<1>7. \A d \in Documents : VersionOf(d)' = corpus
  <2> SUFFICES ASSUME NEW d \in Documents PROVE VersionOf(d)' = corpus OBVIOUS
  <2>1. /\ ChunksIn(OfDocument(active', d)) = ChunksOf[d]
        /\ Cardinality(OfDocument(active', d)) = Cardinality(ChunksOf[d])
        /\ CorporaIn(OfDocument(active', d)) = {corpus}
    BY <1>1, <1>4, VersionPublished
  <2>2. Cardinality({corpus}) = 1 /\ Max({corpus}) = corpus BY <1>4, TheOnlyCorpus
  <2> QED BY <2>1, <2>2 DEF VersionOf, RowsOfDocument, OfDocument, ChunksIn, CorporaIn
<1>8. OnePublicationActive' BY <1>1 DEF OnePublicationActive, Publication, RowsOf
<1> QED BY <1>4, <1>5, <1>6, <1>7, <1>8 DEF Registry!Next, Registry!Publish

(* Every other step leaves the registry and the published corpora alone. *)
LEMMA SteadyRegistry ==
  ASSUME Steady
  PROVE  /\ UNCHANGED <<[d \in Documents |-> VersionOf(d)], PublishedCorpora>>
         /\ OnePublicationActive => OnePublicationActive'
BY DEF Steady, VersionOf, RowsOfDocument, OnePublicationActive

RefinementInv == ResumeInv /\ Batches /\ OnePublicationActive

LEMMA StepRefines ==
  ASSUME NEW p, Processes = {p}, RefinementInv, [Next]_vars
  PROVE  /\ RefinementInv'
         /\ [Registry!Next]_<<[d \in Documents |-> VersionOf(d)], PublishedCorpora>>
<1>0. ResumeInv /\ Batches /\ ResumeInv' BY StepResume DEF RefinementInv
<1>1. ASSUME Batches', Steady
      PROVE  /\ RefinementInv'
             /\ [Registry!Next]_<<[d \in Documents |-> VersionOf(d)], PublishedCorpora>>
  BY <1>0, <1>1, SteadyRegistry DEF RefinementInv
<1>2. CASE Publish(p) BY <1>0, <1>2, PublishBatches, PublishRegistry DEF RefinementInv
<1>3. CASE Start(p) \/ Crash(p) \/ (Extract(p) /\ ~Publish(p))
  <2>1. Batches' /\ Steady
    BY <1>0, <1>3, StartBatches, ResolveBatches, FindBatches, AdoptBatches, CreateBatches,
       WorkBatches, RecordBatches, PauseBatches, FinishBatches, SelectBatches, GivesUpBatches
       DEF Extract
  <2> QED BY <1>1, <2>1
<1>4. CASE UNCHANGED <<runs, active, process, starts>>
  <2>1. Batches'
    BY <1>0, <1>4 DEF Batches, Numbered, OneConfig, OneOpenRun, OpenOrCompleted, Batch, NewStart,
                      NewBatch, Ready, Missing
  <2>2. Steady BY <1>4 DEF Steady, PublishedCorpora
  <2> QED BY <1>1, <2>1, <2>2
<1>5. ASSUME NEW c \in Configs, Reconfigure(c) PROVE UNCHANGED <<runs, active, process, starts>>
  BY <1>5 DEF Reconfigure, database
<1>6. UNCHANGED vars => UNCHANGED <<runs, active, process, starts>> BY DEF vars, database
<1> QED BY <1>2, <1>3, <1>4, <1>5, <1>6 DEF Next

(* With one operator the script implements the registry it promises: every
   publication moves all documents at once to a corpus that was never
   published, and nothing else it does, dying included, is seen by readers. *)
THEOREM ScriptImplementsRegistry ==
  ASSUME NEW p, Processes = {p} PROVE Spec => ImplementsRegistry
<1>1. Init => RefinementInv /\ Registry!Init
  BY InitResume, InitBatches, InitRegistry DEF RefinementInv
<1>2. RefinementInv /\ [Next]_vars =>
        /\ RefinementInv'
        /\ [Registry!Next]_<<[d \in Documents |-> VersionOf(d)], PublishedCorpora>>
  BY StepRefines
<1> QED BY <1>1, <1>2, PTL DEF Spec, ImplementsRegistry, Registry!Spec

(* With one operator the rows of two publications are never active together. *)
THEOREM PublicationsReplace ==
  ASSUME NEW p, Processes = {p} PROVE Spec => []OnePublicationActive
<1>1. Init => RefinementInv BY InitResume, InitBatches, InitRegistry DEF RefinementInv
<1>2. RefinementInv /\ [Next]_vars => RefinementInv' BY StepRefines
<1>3. RefinementInv => OnePublicationActive BY DEF RefinementInv
<1> QED BY <1>1, <1>2, <1>3, PTL DEF Spec
=============================================================================
