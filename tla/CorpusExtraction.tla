-------------------------- MODULE CorpusExtraction --------------------------
(***************************************************************************)
(* scripts/extract_obligations_full.py: the resumable extraction of a      *)
(* corpus of documents and its atomic publication.                         *)
(*                                                                         *)
(* An operator starts main.  It joins the incomplete corpus batch of the   *)
(* present configuration or opens a new one, extracts the documents in     *)
(* title order, each in batches of concurrent model calls, commits a       *)
(* checkpoint per chunk, and replaces the active registry of all documents *)
(* in one transaction.  The process may die anywhere, model calls may      *)
(* fail, and several processes may run at once.                            *)
(*                                                                         *)
(* A row of the registry stands for the obligations of one chunk.  Every   *)
(* action ends where the process waits: after a SELECT whose result is     *)
(* used later, at a commit, or for the model.  No session holds a lock     *)
(* across such a wait except the publication, which is committed in the    *)
(* action that writes.                                                     *)
(***************************************************************************)
EXTENDS Integers, FiniteSets, FiniteSetsExt

CONSTANTS
  Processes,
  NumDocuments,   \* documents are numbered in title order
  Chunks,
  ChunksOf,       \* chunks of a document
  Blank,          \* chunks without text, recorded without a model call
  Configs,        \* run configurations (hash of prompt, model, chunking, ...)
  Concurrency,    \* model calls in flight
  MaxStarts,      \* bound: how often main is started
  MaxFaults       \* bound: crashes and failed calls

Documents == 1..NumDocuments
Corpora == 0..MaxStarts          \* the uuid a start would draw; 0: the old registry
RunIds == 1..(MaxStarts * NumDocuments)
MaybeRun == 0..(MaxStarts * NumDocuments)
RunStatuses == {"none", "RUNNING", "PAUSED", "COMPLETED"}
PCs == {"idle", "resolve", "find", "adopt", "create", "work", "record", "failed",
        "pause", "select", "publish"}

ASSUME ConstantsAssumption ==
  /\ NumDocuments \in Nat \ {0}
  /\ IsFiniteSet(Chunks)
  /\ ChunksOf \in [Documents -> SUBSET Chunks]
  /\ \A d \in Documents : ChunksOf[d] # {}
  /\ Blank \subseteq Chunks
  /\ Concurrency \in Nat \ {0} /\ MaxStarts \in Nat /\ MaxFaults \in Nat

VARIABLES
  runs,      \* extraction_runs rows of the full_section workflow, by creation
  calls,     \* AgentRun rows: how often a chunk was recorded for a run
  active,    \* obligation rows that are not soft-deleted
  config,    \* the configuration the code and settings give a new process
  process,   \* local state of each operator process
  starts, faults

database == <<runs, calls, active>>
vars == <<database, config, process, starts, faults>>
-----------------------------------------------------------------------------
RunRow == [status: RunStatuses, document: Documents, corpus: Corpora, config: Configs,
           sections: SUBSET Chunks]            \* checkpoint_data.sections
ObligationRow == [document: Documents, chunk: Chunks, corpus: Corpora,
                  by: 0..MaxStarts]            \* history: the publishing start
Locals == [pc: PCs, start: 0..MaxStarts, config: Configs, corpus: Corpora,
           document: Documents, run: MaybeRun,
           seen: SUBSET Chunks, seenStatus: RunStatuses,
           todo: SUBSET Chunks,
           answered: SUBSET Chunks, failed: BOOLEAN,   \* of the current batch
           chunk: SUBSET Chunks,                       \* being recorded
           ready: [Documents -> [run: MaybeRun, sections: SUBSET Chunks]],
           superseded: SUBSET ObligationRow]

NotReady == [d \in Documents |-> [run |-> 0, sections |-> {}]]
Idle == [pc |-> "idle", start |-> 0, config |-> CHOOSE c \in Configs : TRUE, corpus |-> 0,
         document |-> 1, run |-> 0, seen |-> {}, seenStatus |-> "none", todo |-> {},
         answered |-> {}, failed |-> FALSE, chunk |-> {}, ready |-> NotReady,
         superseded |-> {}]
NoRun == [status |-> "none", document |-> 1, corpus |-> 0,
          config |-> CHOOSE c \in Configs : TRUE, sections |-> {}]

RowsOf(d, chunks, corpus, by) ==
  {[document |-> d, chunk |-> c, corpus |-> corpus, by |-> by] : c \in chunks}

Init ==
  /\ runs = [r \in RunIds |-> NoRun]
  /\ calls = [r \in RunIds |-> [c \in Chunks |-> 0]]
  /\ active = UNION {RowsOf(d, ChunksOf[d], 0, 0) : d \in Documents}
  /\ config \in Configs
  /\ process = [p \in Processes |-> Idle]
  /\ starts = 0
  /\ faults = 0
-----------------------------------------------------------------------------
CreatedRuns == {r \in RunIds : runs[r].status # "none"}
PausedOnly == {r \in RunIds : runs[r].status = "PAUSED"}
                                        \* mutant: a crashed RUNNING run is not resumed
Incomplete == {r \in RunIds : runs[r].status \in {"RUNNING", "PAUSED"}}
IncompleteCorpora(cfg) == {runs[r].corpus : r \in {q \in Incomplete : runs[q].config = cfg}}

(* An ORM UPDATE names only the columns that differ from the loaded values. *)
Written(loaded, new, stored) == IF new = loaded THEN stored ELSE new

Start(p) ==
  /\ process[p].pc = "idle"
  /\ starts < MaxStarts
  /\ starts' = starts + 1
  /\ process' = [process EXCEPT ![p] =
       [Idle EXCEPT !.pc = "resolve", !.start = starts + 1, !.config = config]]
  /\ UNCHANGED <<database, config, faults>>

(* _resolve_corpus_run_id: join the one compatible incomplete batch, else draw
   a new identity; two batches are an error. *)
ResolveCorpus(p) ==
  LET me == process[p]
      found == IncompleteCorpora(me.config)
  IN
  /\ me.pc = "resolve"
  /\ process' = [process EXCEPT ![p] =
       IF Cardinality(found) > 1 THEN Idle
       ELSE [me EXCEPT !.pc = "find",
                       !.corpus = IF found = {} THEN me.start ELSE Max(found)]]
  /\ UNCHANGED <<database, config, starts, faults>>

(* _get_or_create_run: the newest incomplete run of the document with this
   corpus and configuration. *)
Candidates(me) ==
  {r \in Incomplete : /\ runs[r].document = me.document
                      /\ runs[r].corpus = me.corpus
                      /\ runs[r].config = me.config}

FindRun(p) ==
  LET me == process[p]
      found == Candidates(me)
  IN
  /\ me.pc = "find"
  /\ process' = [process EXCEPT ![p] =
       IF found = {} THEN [me EXCEPT !.pc = "create"]
       ELSE [me EXCEPT !.pc = "adopt", !.run = Max(found),
                       !.seen = runs[Max(found)].sections,
                       !.seenStatus = runs[Max(found)].status]]
  /\ UNCHANGED <<database, config, starts, faults>>

AllChunks(me) == ChunksOf[me.document]  \* mutant: the checkpoint is ignored
Unfinished(me) == ChunksOf[me.document] \ me.seen

AdoptRun(p) ==
  LET me == process[p] IN
  /\ me.pc = "adopt"
  /\ runs' = [runs EXCEPT ![me.run].status = Written(me.seenStatus, "RUNNING", @)]
  /\ process' = [process EXCEPT ![p] =
       [me EXCEPT !.pc = "work", !.todo = Unfinished(me),
                  !.seen = {}, !.seenStatus = "none"]]
  /\ UNCHANGED <<calls, active, config, starts, faults>>

CreateRun(p) ==
  LET me == process[p]
      r == Cardinality(CreatedRuns) + 1
  IN
  /\ me.pc = "create"
  /\ r \in RunIds                  \* never binds: a start creates a run per document
  /\ runs' = [runs EXCEPT ![r] =
       [status |-> "RUNNING", document |-> me.document, corpus |-> me.corpus,
        config |-> me.config, sections |-> {}]]
  /\ process' = [process EXCEPT ![p] =
       [me EXCEPT !.pc = "work", !.run = r, !.todo = ChunksOf[me.document]]]
  /\ UNCHANGED <<calls, active, config, starts, faults>>
-----------------------------------------------------------------------------
(* The next thing to record: a chunk the model answered for, or a blank one
   before any batch.  _record_section reads the checkpoint ... *)
Recordable(me) == IF me.answered # {} THEN me.answered ELSE me.todo \cap Blank

ReadCheckpoint(p) ==
  LET me == process[p] IN
  /\ me.pc = "work"
  /\ \E c \in Recordable(me) :
       process' = [process EXCEPT ![p] =
         [me EXCEPT !.pc = "record", !.chunk = {c}, !.seen = runs[me.run].sections,
                    !.answered = @ \ {c}, !.todo = @ \ {c}]]
  /\ UNCHANGED <<database, config, starts, faults>>

ChunkOnly(me) == me.chunk               \* mutant: the section map is replaced
WithChunk(me) == me.seen \cup me.chunk

(* ... and commits it with the chunk added, and the AgentRun row. *)
RecordSection(p) ==
  LET me == process[p] IN
  /\ me.pc = "record"
  /\ runs' = [runs EXCEPT ![me.run].sections = WithChunk(me)]
  /\ calls' = [calls EXCEPT ![me.run] =
       [c \in Chunks |-> IF c \in me.chunk THEN @[c] + 1 ELSE @[c]]]
  /\ process' = [process EXCEPT ![p] =
       [me EXCEPT !.pc = "work", !.chunk = {}, !.seen = {}]]
  /\ UNCHANGED <<active, config, starts, faults>>

(* asyncio.gather over a batch: every call ends before any result is used;
   some calls may have failed in all their attempts. *)
ExtractBatch(p) ==
  LET me == process[p] IN
  /\ me.pc = "work"
  /\ Recordable(me) = {} /\ ~me.failed
  /\ \E batch \in SUBSET me.todo, lost \in SUBSET me.todo :
       /\ batch # {}
       /\ Cardinality(batch) = Concurrency \/ batch = me.todo
       /\ Cardinality(batch) <= Concurrency
       /\ lost \subseteq batch
       /\ faults + Cardinality(lost) <= MaxFaults
       /\ faults' = faults + Cardinality(lost)
       /\ process' = [process EXCEPT ![p] =
            [me EXCEPT !.todo = @ \ batch, !.answered = batch \ lost,
                       !.failed = lost # {}]]
  /\ UNCHANGED <<database, config, starts>>

(* _mark_interrupted after the successes were recorded: read the run, ... *)
ReadForPause(p) ==
  LET me == process[p] IN
  /\ me.pc = "work" /\ me.failed /\ me.answered = {}
  /\ process' = [process EXCEPT ![p] =
       [me EXCEPT !.pc = "pause", !.seen = runs[me.run].sections,
                  !.seenStatus = runs[me.run].status]]
  /\ UNCHANGED <<database, config, starts, faults>>

(* ... write the whole checkpoint back as PAUSED, and give up. *)
PauseRun(p) ==
  LET me == process[p] IN
  /\ me.pc = "pause"
  /\ runs' = [runs EXCEPT ![me.run].sections = me.seen,
                          ![me.run].status = Written(me.seenStatus, "PAUSED", @)]
  /\ process' = [process EXCEPT ![p] = Idle]
  /\ UNCHANGED <<calls, active, config, starts, faults>>

RunsOff(d) == d + 1                     \* mutant: no end of the list
NextDocument(d) == IF d < NumDocuments THEN d + 1 ELSE d

(* The document is extracted: its run is read again for the publication and
   stays RUNNING, at stage ready_to_publish. *)
FinishDocument(p) ==
  LET me == process[p]
      d == me.document
  IN
  /\ me.pc = "work" /\ me.todo = {} /\ me.answered = {} /\ ~me.failed
  /\ process' = [process EXCEPT ![p] =
       [me EXCEPT
          !.ready[d] = [run |-> me.run, sections |-> runs[me.run].sections],
          !.run = 0,
          !.document = NextDocument(d),
          !.pc = IF d < NumDocuments THEN "find" ELSE "select"]]
  /\ UNCHANGED <<database, config, starts, faults>>
-----------------------------------------------------------------------------
(* _publish_atomically: the transaction selects the active rows ... *)
SelectActive(p) ==
  /\ process[p].pc = "select"
  /\ process' = [process EXCEPT ![p].pc = "publish", ![p].superseded = active]
  /\ UNCHANGED <<database, config, starts, faults>>

(* ... soft-deletes them, inserts the rows of every checkpointed chunk and
   completes the runs; a chunk missing from a checkpoint rolls it all back. *)
AnyProgress(me) == \A d \in Documents : me.ready[d].run # 0
                                        \* mutant: missing chunks are skipped
Complete(me) == \A d \in Documents : ChunksOf[d] \subseteq me.ready[d].sections

PublishedRows(me, d) == RowsOf(d, ChunksOf[d] \cap me.ready[d].sections, me.corpus, me.start)

(* The runs whose status the publication sets. *)
LastRunOnly(me) == {me.ready[NumDocuments].run}      \* mutant: outside the loop
PublishedRuns(me) == {me.ready[d].run : d \in Documents}

KeepsNothing(me) == {}                  \* mutant: superseded rows stay active
Superseded(me) == me.superseded

Publish(p) ==
  LET me == process[p] IN
  /\ me.pc = "publish"
  /\ Complete(me)
  /\ active' = (active \ Superseded(me)) \cup
       UNION {PublishedRows(me, d) : d \in Documents}
  /\ runs' = [r \in RunIds |->
       IF r \in PublishedRuns(me)
       THEN [runs[r] EXCEPT !.status = "COMPLETED"] ELSE runs[r]]
  /\ process' = [process EXCEPT ![p] = Idle]
  /\ UNCHANGED <<calls, config, starts, faults>>

RefusePublication(p) ==
  /\ process[p].pc = "publish"
  /\ ~Complete(process[p])
  /\ process' = [process EXCEPT ![p] = Idle]
  /\ UNCHANGED <<database, config, starts, faults>>

Crash(p) ==
  /\ process[p].pc # "idle"
  /\ faults < MaxFaults
  /\ faults' = faults + 1
  /\ process' = [process EXCEPT ![p] = Idle]
  /\ UNCHANGED <<database, config, starts>>

(* A new prompt, schema or chunking version is installed between starts. *)
Reconfigure(c) ==
  /\ config # c
  /\ config' = c
  /\ UNCHANGED <<database, process, starts, faults>>

Extract(p) ==
  \/ ResolveCorpus(p) \/ FindRun(p) \/ AdoptRun(p) \/ CreateRun(p)
  \/ ReadCheckpoint(p) \/ RecordSection(p) \/ ExtractBatch(p)
  \/ ReadForPause(p) \/ PauseRun(p)
  \/ FinishDocument(p) \/ SelectActive(p) \/ Publish(p) \/ RefusePublication(p)

Next ==
  \/ \E p \in Processes : Start(p) \/ Extract(p) \/ Crash(p)
  \/ \E c \in Configs : Reconfigure(c)

Spec == Init /\ [][Next]_vars
-----------------------------------------------------------------------------
(* A started process runs on, and the operator starts main again until a new
   corpus is published.  Faults and reconfigurations are not fair. *)
NewCorpusActive == \A row \in active : row.corpus # 0
FairSpec ==
  /\ Spec
  /\ \A p \in Processes : WF_vars(Extract(p)) /\ WF_vars(~NewCorpusActive /\ Start(p))
-----------------------------------------------------------------------------
TypeOK ==
  /\ runs \in [RunIds -> RunRow]
  /\ calls \in [RunIds -> [Chunks -> Nat]]
  /\ active \subseteq ObligationRow
  /\ config \in Configs
  /\ process \in [Processes -> Locals]
  /\ starts \in 0..MaxStarts
  /\ faults \in 0..MaxFaults

(* The rows a publication left in the active registry are all of its rows or
   none: no interleaving shows a partial corpus. *)
PublicationWhole ==
  \A row \in active, d \in Documents : \A c \in ChunksOf[d] :
    [document |-> d, chunk |-> c, corpus |-> row.corpus, by |-> row.by] \in active

(* The active registry is that of one publication: replacing it leaves no row
   of the registry it replaces. *)
OnePublicationActive == \A x, y \in active : x.by = y.by

(* A restarted script never finds two batches to choose from, which it would
   refuse ever after. *)
OneIncompleteBatch ==
  \A r, q \in RunIds :
    /\ {runs[r].status, runs[q].status} \subseteq {"RUNNING", "PAUSED"}
    /\ runs[r].config = runs[q].config
    => runs[r].corpus = runs[q].corpus

(* The runs of a corpus are completed together, one for each document. *)
CompletedTogether ==
  \A r \in RunIds : runs[r].status = "COMPLETED" =>
    \A d \in Documents : \E q \in RunIds :
      runs[q].status = "COMPLETED" /\ runs[q].document = d /\ runs[q].corpus = runs[r].corpus

(* What a crashed or paused run has recorded is never extracted again. *)
RecordedOnce == \A r \in RunIds, c \in Chunks : calls[r][c] <= 1

(* Every answer that was recorded is in the checkpoint. *)
RecordedIsKept ==
  \A r \in RunIds, c \in Chunks : calls[r][c] > 0 => c \in runs[r].sections

(* The abstract registry: a document's version is the corpus of its active
   rows when these are exactly one row per chunk. *)
RowsOfDocument(d) == {row \in active : row.document = d}
VersionOf(d) ==
  LET corpora == {row.corpus : row \in RowsOfDocument(d)}
      whole == /\ {row.chunk : row \in RowsOfDocument(d)} = ChunksOf[d]
               /\ Cardinality(RowsOfDocument(d)) = Cardinality(ChunksOf[d])
  IN IF whole /\ Cardinality(corpora) = 1 THEN Max(corpora) ELSE -1
PublishedCorpora ==
  {0} \cup {runs[r].corpus : r \in {q \in RunIds : runs[q].status = "COMPLETED"}}

Registry == INSTANCE RegistryPublication WITH
  FirstCorpus <- 0,
  version <- [d \in Documents |-> VersionOf(d)],
  published <- PublishedCorpora

(* The script implements the registry it promises: all documents move at once
   to one complete corpus that was never published before. *)
ImplementsRegistry == Registry!Spec

(* While starts outnumber faults a new corpus becomes the active registry. *)
EventuallyPublished == <>NewCorpusActive
=============================================================================
