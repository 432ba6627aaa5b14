---------------------- MODULE DocumentIngestionProofs ----------------------
(***************************************************************************)
(* The safety properties of ingestion, for any number of requests, workers,*)
(* clauses and faults, in four steps.  Ingested: types, and that clauses   *)
(* and extraction follow the pages, which the unique constraint allows     *)
(* once.  FateInv: what a status says of the history of its document.      *)
(* TaskInv: what the tasks of a document have done unless they were        *)
(* delivered again.  HalfwayInv: which task a halfway document still has.  *)
(***************************************************************************)
EXTENDS DocumentIngestion, FiniteSetTheorems, TLAPS

PCs == {"idle", "load", "processing", "parse", "dispatch", "begin", "graph", "raised", "ack"}
WorkerStates ==
  [pc : PCs, message : Messages \union {NoMessage}, seen : Statuses, clauses : Nat]
DocumentRows == [status : Statuses, source : Sources \union {"none"}, file : BOOLEAN]
RunCounts == [completed : Nat, failed : Nat]

(* Pages and clauses come in one commit. *)
OneStructure == \A d \in Requests : structure[d] = IF d \in pages THEN 1 ELSE 0

(* Extraction follows the commit of the pages. *)
TasksHavePages == \A m \in queue : m.task = "extract" => m.doc \in pages

HasPages(state, hasPages) ==
  state.pc # "idle" =>
    /\ state.message \in Messages
    /\ state.message.task = "extract" => state.message.doc \in hasPages
    /\ state.pc = "dispatch" => state.message.doc \in hasPages
    /\ state.pc \in {"begin", "graph"} => state.message.task = "extract"

WorkHasPages == \A w \in Workers : HasPages(worker[w], pages)

RunsHavePages == \A d \in Requests : runs[d].completed + runs[d].failed > 0 => d \in pages

Ingested == TypeOK /\ OneStructure /\ TasksHavePages /\ WorkHasPages /\ RunsHavePages
-----------------------------------------------------------------------------
LEMMA InitIngested == Init => Ingested
<1> SUFFICES ASSUME Init PROVE Ingested
  OBVIOUS
<1>1. IdleWorker \in WorkerStates /\ IdleWorker.pc = "idle"
  BY DEF IdleWorker, WorkerStates, PCs, Statuses
<1>2. TypeOK
  <2>1. worker \in [Workers -> WorkerStates]
    BY <1>1 DEF Init
  <2>2. faults \in 0 .. MaxFaults
    BY IngestionAssumption DEF Init
  <2> QED
    BY <2>1, <2>2 DEF Init, TypeOK, WorkerStates, PCs, Statuses
<1> QED
  BY <1>1, <1>2 DEF Init, Ingested, OneStructure, TasksHavePages, WorkHasPages, HasPages, RunsHavePages

(* A worker goes on with the task it has, and the pages stay. *)
LEMMA WorkerGoesOn ==
  ASSUME Ingested, NEW w \in Workers, NEW state \in WorkerStates,
         worker' = [worker EXCEPT ![w] = state], pages \subseteq pages',
         HasPages(state, pages')
  PROVE  worker' \in [Workers -> WorkerStates] /\ WorkHasPages'
<1>1. worker \in [Workers -> WorkerStates]
  BY DEF Ingested, TypeOK, WorkerStates, PCs
<1>2. \A v \in Workers : worker'[v] = IF v = w THEN state ELSE worker[v]
  BY <1>1
<1>3. \A v \in Workers : v # w => HasPages(worker'[v], pages')
  BY <1>2 DEF Ingested, WorkHasPages, HasPages
<1> QED
  BY <1>1, <1>2, <1>3 DEF WorkHasPages, HasPages

(* A worker that takes no pages away and leaves queue and rows alone. *)
LEMMA WorkerStep ==
  ASSUME Ingested, NEW w \in Workers, NEW state \in WorkerStates,
         worker' = [worker EXCEPT ![w] = state], HasPages(state, pages),
         docs' \in [Requests -> DocumentRows],
         UNCHANGED <<request, pages, structure, runs, queue, faults>>
  PROVE  Ingested'
<1>1. HasPages(state, pages') /\ pages \subseteq pages'
  BY DEF HasPages
<1>2. worker' \in [Workers -> WorkerStates] /\ WorkHasPages'
  BY <1>1, WorkerGoesOn
<1>3. TypeOK'
  BY <1>2 DEF Ingested, TypeOK, DocumentRows, WorkerStates, PCs
<1>4. OneStructure' /\ TasksHavePages' /\ RunsHavePages'
  BY DEF Ingested, OneStructure, TasksHavePages, RunsHavePages
<1> QED
  BY <1>2, <1>3, <1>4 DEF Ingested

(* The requests only write a document's row and send its processing task. *)
LEMMA StepRequests ==
  ASSUME Ingested, NEW r \in Requests,
         (\E source \in Sources : CheckDuplicate(r, source)) \/ Handle(r)
  PROVE  Ingested'
<1> USE DEF Ingested
<1>1. /\ UNCHANGED <<pages, structure, runs, worker, faults>>
      /\ queue' = queue \/ queue' = queue \union {Message("process", r)}
      /\ docs' \in [Requests -> DocumentRows]
      /\ request' \in [Requests -> Sources \union {"idle", "sent url", "sent upload", "done", "refused"}]
  <2>1. ASSUME NEW source \in Sources, CheckDuplicate(r, source)
        PROVE  request' \in [Requests -> Sources \union {"idle", "sent url", "sent upload", "done", "refused"}]
    BY <2>1 DEF CheckDuplicate, TypeOK
  <2>2. ASSUME CommitRequest(r)
        PROVE  docs' \in [Requests -> DocumentRows]
    BY <2>2 DEF CommitRequest, TypeOK, DocumentRows, Statuses, Sources
  <2> QED
    BY <2>1, <2>2 DEF CheckDuplicate, Handle, SendProcess, CommitRequest, RequestFails, TypeOK,
        service, DocumentRows
<1>2. Message("process", r) \in Messages /\ Message("process", r).task = "process"
  BY IngestionAssumption DEF Message, Messages, Tasks, MaxRetries
<1>3. queue' \subseteq Messages /\ TasksHavePages'
  BY <1>1, <1>2 DEF TypeOK, TasksHavePages
<1>4. TypeOK'
  BY <1>1, <1>3 DEF TypeOK, DocumentRows
<1>5. OneStructure' /\ WorkHasPages' /\ RunsHavePages'
  BY <1>1 DEF OneStructure, WorkHasPages, HasPages, RunsHavePages
<1> QED
  BY <1>3, <1>4, <1>5

(* The broker and the life of a worker process. *)
LEMMA StepDeliveries ==
  ASSUME Ingested, NEW w \in Workers,
         \/ \E m \in queue : Deliver(w, m) \/ VisibilityTimeout(m)
         \/ Crash(w) \/ Acknowledge(w) \/ Retry(w) \/ GiveUp(w)
  PROVE  Ingested'
<1> USE DEF Ingested
<1>0. /\ worker \in [Workers -> WorkerStates] /\ worker[w] \in WorkerStates
      /\ docs \in [Requests -> DocumentRows] /\ queue \subseteq Messages
      /\ HasPages(worker[w], pages)
  BY DEF TypeOK, WorkerStates, PCs, DocumentRows, WorkHasPages
<1>a. faults \in 0 .. MaxFaults
  BY DEF TypeOK
<1>b. faults < MaxFaults => faults + 1 \in 0 .. MaxFaults
  BY ONLY <1>a, IngestionAssumption
<1>1. IdleWorker \in WorkerStates /\ HasPages(IdleWorker, pages) /\ HasPages(IdleWorker, pages')
  BY DEF IdleWorker, WorkerStates, PCs, Statuses, HasPages
<1>2. ASSUME NEW m \in queue, Deliver(w, m) PROVE Ingested'
  <2> DEFINE state == [IdleWorker EXCEPT !.pc = FirstStep(m.task), !.message = m]
  <2>1. m \in Messages /\ m.task \in Tasks /\ FirstStep(m.task) \in PCs
    BY <1>0 DEF Messages, FirstStep, PCs
  <2>2. state \in WorkerStates
    BY <2>1 DEF IdleWorker, WorkerStates, Statuses
  <2>3. state.pc = FirstStep(m.task) /\ state.message = m
    BY DEF IdleWorker
  <2>4. HasPages(state, pages)
    BY <2>1, <2>3 DEF HasPages, TasksHavePages, FirstStep, Tasks
  <2>5. /\ worker' = [worker EXCEPT ![w] = state]
        /\ UNCHANGED <<request, docs, pages, structure, runs, queue, faults>>
    BY <1>2 DEF Deliver, service
  <2> HIDE DEF state, Ingested
  <2> QED
    BY <1>0, <2>2, <2>4, <2>5, WorkerStep
<1>3. ASSUME NEW m \in queue, VisibilityTimeout(m) PROVE Ingested'
  <2> DEFINE again == [m EXCEPT !.delivery = faults + 1]
  <2>1. /\ UNCHANGED <<request, docs, pages, structure, runs, worker>>
        /\ faults < MaxFaults /\ faults' = faults + 1 /\ queue' = queue \union {again}
    BY <1>3 DEF VisibilityTimeout, service
  <2>2. faults \in 0 .. MaxFaults /\ faults' \in 0 .. MaxFaults
    BY <1>a, <1>b, <2>1
  <2>3. again \in Messages /\ again.task = m.task /\ again.doc = m.doc
    BY <1>0, <2>1, <2>2 DEF Messages
  <2>4. queue' \subseteq Messages /\ TasksHavePages'
    BY <1>0, <2>1, <2>3 DEF TasksHavePages
  <2>5. TypeOK'
    BY <2>1, <2>2, <2>4 DEF TypeOK
  <2>6. OneStructure' /\ WorkHasPages' /\ RunsHavePages'
    BY <2>1 DEF OneStructure, WorkHasPages, HasPages, RunsHavePages
  <2> QED
    BY <2>4, <2>5, <2>6
<1>4. ASSUME worker' = [worker EXCEPT ![w] = IdleWorker],
             UNCHANGED <<request, docs, pages, structure, runs>>,
             queue' \subseteq Messages, TasksHavePages', faults' \in 0 .. MaxFaults
      PROVE  Ingested'
  <2>1. worker' \in [Workers -> WorkerStates] /\ WorkHasPages'
    <3> HIDE DEF Ingested
    <3> QED
      BY <1>1, <1>4, WorkerGoesOn
  <2>2. TypeOK'
    BY <1>4, <2>1 DEF TypeOK, WorkerStates, PCs
  <2>3. OneStructure' /\ RunsHavePages'
    BY <1>4 DEF OneStructure, RunsHavePages
  <2> QED
    BY <1>4, <2>1, <2>2, <2>3
<1>5. ASSUME Crash(w) PROVE Ingested'
  <2>1. /\ worker' = [worker EXCEPT ![w] = IdleWorker]
        /\ UNCHANGED <<request, docs, pages, structure, runs, queue>>
        /\ faults < MaxFaults /\ faults' = faults + 1
    BY <1>5 DEF Crash, KeptByCrash, service
  <2>2. faults' \in 0 .. MaxFaults
    BY <1>b, <2>1
  <2>3. TasksHavePages'
    BY <2>1 DEF TasksHavePages
  <2> QED
    BY <1>0, <1>4, <2>1, <2>2, <2>3
<1>6. ASSUME Acknowledge(w) PROVE Ingested'
  <2>1. /\ worker' = [worker EXCEPT ![w] = IdleWorker]
        /\ UNCHANGED <<request, docs, pages, structure, runs, faults>>
        /\ queue' \subseteq queue
    BY <1>6 DEF Acknowledge, service
  <2>2. TasksHavePages' /\ faults' \in 0 .. MaxFaults
    BY <2>1 DEF TasksHavePages, TypeOK
  <2> QED
    BY <1>0, <1>4, <2>1, <2>2
<1>7. ASSUME Retry(w) PROVE Ingested'
  <2> DEFINE m == worker[w].message
             again == [m EXCEPT !.attempt = @ + 1]
  <2>1. /\ worker' = [worker EXCEPT ![w] = IdleWorker]
        /\ UNCHANGED <<request, docs, pages, structure, runs, faults>>
        /\ queue' = (queue \ {m}) \union {again}
        /\ m.attempt < MaxRetries /\ worker[w].pc = "raised"
    BY <1>7 DEF Retry, RetriesLeft, service
  <2>2. m \in Messages /\ (m.task = "extract" => m.doc \in pages)
    BY <1>0, <2>1 DEF HasPages
  <2>3. again \in Messages /\ again.task = m.task /\ again.doc = m.doc
    BY <2>1, <2>2 DEF Messages, MaxRetries
  <2>4. queue' \subseteq Messages /\ TasksHavePages' /\ faults' \in 0 .. MaxFaults
    BY <1>0, <2>1, <2>2, <2>3 DEF TasksHavePages, TypeOK
  <2> QED
    BY <1>4, <2>1, <2>4
<1>8. ASSUME GiveUp(w) PROVE Ingested'
  <2> DEFINE state == [worker[w] EXCEPT !.pc = "ack"]
  <2>1. state \in WorkerStates /\ state.pc = "ack" /\ state.message = worker[w].message
    BY <1>0 DEF WorkerStates, PCs
  <2>2. /\ worker' = [worker EXCEPT ![w] = state] /\ worker[w].pc = "raised"
        /\ UNCHANGED <<request, docs, pages, structure, runs, queue, faults>>
    BY <1>8 DEF GiveUp, service
  <2>3. HasPages(state, pages)
    BY <1>0, <2>1, <2>2 DEF HasPages
  <2> HIDE DEF state, Ingested
  <2> QED
    BY <1>0, <2>1, <2>2, <2>3, WorkerStep
<1> QED
  BY <1>2, <1>3, <1>5, <1>6, <1>7, <1>8

(* The processing task. *)
LEMMA StepProcess ==
  ASSUME Ingested, NEW w \in Workers, Process(w)
  PROVE  Ingested'
<1> USE DEF Ingested
<1> DEFINE moved(pc) == [worker[w] EXCEPT !.pc = pc]
           d == Doc(w)
<1>0. /\ worker \in [Workers -> WorkerStates] /\ worker[w] \in WorkerStates
      /\ docs \in [Requests -> DocumentRows] /\ queue \subseteq Messages
      /\ HasPages(worker[w], pages)
  BY DEF TypeOK, WorkerStates, PCs, DocumentRows, WorkHasPages
<1>1. ASSUME NEW pc \in PCs
      PROVE  /\ moved(pc) \in WorkerStates
             /\ moved(pc).pc = pc /\ moved(pc).message = worker[w].message
  BY <1>0 DEF WorkerStates
<1>2. worker[w].pc # "idle" /\ worker[w].pc \notin {"begin", "graph"}
  BY DEF Process, DocumentNotFound, LoadDocument, MarkProcessing, ProcessingFails, Structure,
         StructureConflicts, DispatchExtraction, DispatchRefused
<1>3. worker[w].message \in Messages /\ d \in Requests /\ docs[d] \in DocumentRows
  BY <1>0, <1>2 DEF HasPages, Messages, Doc
<1>4. ASSUME NEW pc \in {"processing", "parse", "raised", "ack"} PROVE HasPages(moved(pc), pages)
  <2>1. pc \in PCs
    BY DEF PCs
  <2> QED
    BY <1>0, <1>1, <1>2, <2>1 DEF HasPages
<1>5. ASSUME NEW status \in Statuses, NEW file \in BOOLEAN
      PROVE  [docs EXCEPT ![d].status = status, ![d].file = file] \in [Requests -> DocumentRows]
  BY <1>0, <1>3 DEF DocumentRows
<1>6. ASSUME NEW status \in Statuses
      PROVE  [docs EXCEPT ![d].status = status] \in [Requests -> DocumentRows]
  BY <1>0, <1>3 DEF DocumentRows
<1>7. docs[d].status \in Statuses /\ docs[d].file \in BOOLEAN /\ worker[w].seen \in Statuses
  BY <1>0, <1>3 DEF DocumentRows, WorkerStates
<1>8. ASSUME NEW pc \in {"processing", "parse", "raised", "ack"},
             worker' = [worker EXCEPT ![w] = moved(pc)],
             docs' \in [Requests -> DocumentRows],
             UNCHANGED <<request, pages, structure, runs, queue, faults>>
      PROVE  Ingested'
  <2>1. moved(pc) \in WorkerStates /\ HasPages(moved(pc), pages)
    BY <1>1, <1>4 DEF PCs
  <2> HIDE DEF moved, Ingested
  <2> QED
    BY <1>8, <2>1, WorkerStep
<1>9. CASE DocumentNotFound(w)
  BY <1>0, <1>8, <1>9 DEF DocumentNotFound, service
<1>10. CASE LoadDocument(w)
  <2> DEFINE state == [worker[w] EXCEPT !.pc = "processing", !.seen = docs[d].status]
  <2>1. state \in WorkerStates /\ state.pc = "processing" /\ state.message = worker[w].message
    BY <1>0, <1>7 DEF WorkerStates, PCs
  <2>2. HasPages(state, pages)
    BY <1>0, <1>2, <2>1 DEF HasPages
  <2>3. /\ worker' = [worker EXCEPT ![w] = state]
        /\ UNCHANGED <<request, docs, pages, structure, runs, queue, faults>>
    BY <1>10 DEF LoadDocument, service
  <2> HIDE DEF state, Ingested
  <2> QED
    BY <1>0, <2>1, <2>2, <2>3, WorkerStep
<1>11. CASE MarkProcessing(w)
  <2>1. Written(worker[w].seen, "PROCESSING", docs[d].status) \in Statuses
    BY <1>7 DEF Written, Statuses
  <2>2. docs' = [docs EXCEPT ![d].status = Written(worker[w].seen, "PROCESSING", docs[d].status)]
    BY <1>3, <1>11 DEF MarkProcessing
  <2>3. docs' \in [Requests -> DocumentRows]
    BY <1>6, <2>1, <2>2
  <2> QED
    BY <1>8, <1>11, <2>3 DEF MarkProcessing
<1>12. CASE ProcessingFails(w)
  <2>1. PICK downloaded \in BOOLEAN :
          docs' = [docs EXCEPT ![d].status = "FAILED", ![d].file = docs[d].file \/ downloaded]
    BY <1>3, <1>12 DEF ProcessingFails, StatusOnFailure
  <2>2. docs' \in [Requests -> DocumentRows]
    BY <1>5, <1>7, <2>1 DEF Statuses
  <2> QED
    BY <1>8, <1>12, <2>2 DEF ProcessingFails
<1>13. CASE Structure(w)
  <2>1. /\ d \notin pages
        /\ pages' = pages \union {d}
        /\ structure' = [structure EXCEPT ![d] = structure[d] + 1]
        /\ docs' = [docs EXCEPT ![d].status = "STRUCTURED", ![d].file = TRUE]
        /\ worker' = [worker EXCEPT ![w] = moved("dispatch")]
        /\ UNCHANGED <<request, runs, queue, faults>>
    BY <1>13 DEF Structure, PagesExist
  <2>2. docs' \in [Requests -> DocumentRows]
    BY <1>5, <2>1 DEF Statuses
  <2>3. structure' \in [Requests -> Nat] /\ OneStructure'
    <3>1. structure \in [Requests -> Nat] /\ structure[d] = 0 /\ OneStructure
      BY <1>3, <2>1 DEF TypeOK, OneStructure
    <3>2. \A e \in Requests : structure'[e] = IF e = d THEN 1 ELSE structure[e]
      BY <1>3, <2>1, <3>1
    <3>3. structure' \in [Requests -> Nat]
      BY <1>3, <2>1, <3>1
    <3> HIDE DEF d, Ingested
    <3> QED
      BY <1>3, <2>1, <3>1, <3>2, <3>3 DEF OneStructure
  <2>4. moved("dispatch") \in WorkerStates /\ HasPages(moved("dispatch"), pages')
    BY <1>0, <1>1, <1>2, <1>3, <2>1 DEF HasPages, PCs, Doc
  <2>5. worker' \in [Workers -> WorkerStates] /\ WorkHasPages'
    <3> HIDE DEF moved, Ingested, d
    <3> QED
      BY <2>1, <2>4, WorkerGoesOn
  <2>6. TypeOK'
    BY <1>3, <2>1, <2>2, <2>3, <2>5 DEF TypeOK, WorkerStates, PCs, DocumentRows
  <2>7. TasksHavePages' /\ RunsHavePages'
    BY <2>1 DEF TasksHavePages, RunsHavePages
  <2> QED
    BY <2>3, <2>5, <2>6, <2>7
<1>14. CASE StructureConflicts(w)
  BY <1>0, <1>8, <1>14 DEF StructureConflicts, service
<1>15. CASE DispatchExtraction(w)
  <2>1. d \in pages
    BY <1>0, <1>15 DEF DispatchExtraction, HasPages, Doc
  <2>2. /\ worker' = [worker EXCEPT ![w] = moved("ack")]
        /\ queue' = queue \union {Message("extract", d)}
        /\ UNCHANGED <<request, docs, pages, structure, runs, faults>>
    BY <1>15 DEF DispatchExtraction, ExtractionTasks, service
  <2>3. Message("extract", d) \in Messages /\ Message("extract", d).doc = d
    BY <1>3, IngestionAssumption DEF Message, Messages, Tasks, MaxRetries
  <2>4. queue' \subseteq Messages /\ TasksHavePages'
    BY <1>0, <2>1, <2>2, <2>3 DEF TasksHavePages
  <2>5. moved("ack") \in WorkerStates /\ HasPages(moved("ack"), pages')
    BY <1>1, <1>4, <2>2 DEF PCs, HasPages
  <2>6. worker' \in [Workers -> WorkerStates] /\ WorkHasPages'
    <3> HIDE DEF moved, Ingested
    <3> QED
      BY <2>2, <2>5, WorkerGoesOn
  <2>7. TypeOK'
    BY <1>0, <2>2, <2>4, <2>6 DEF TypeOK, WorkerStates, PCs
  <2>8. OneStructure' /\ RunsHavePages'
    BY <2>2 DEF OneStructure, RunsHavePages
  <2> QED
    BY <2>4, <2>6, <2>7, <2>8
<1>16. CASE DispatchRefused(w)
  <2>1. docs' \in [Requests -> DocumentRows]
    BY <1>6, <1>16 DEF DispatchRefused, Statuses
  <2> QED
    BY <1>8, <1>16, <2>1 DEF DispatchRefused
<1> QED
  BY <1>9, <1>10, <1>11, <1>12, <1>13, <1>14, <1>15, <1>16 DEF Process

(* The extraction task: its document has its pages. *)
LEMMA StepExtract ==
  ASSUME Ingested, NEW w \in Workers, Extract(w)
  PROVE  Ingested'
<1> USE DEF Ingested
<1> DEFINE d == Doc(w)
           finished == [worker[w] EXCEPT !.pc = "ack"]
<1>0. /\ worker \in [Workers -> WorkerStates] /\ worker[w] \in WorkerStates
      /\ docs \in [Requests -> DocumentRows] /\ runs \in [Requests -> RunCounts]
      /\ HasPages(worker[w], pages) /\ structure \in [Requests -> Nat]
  BY DEF TypeOK, WorkerStates, PCs, DocumentRows, WorkHasPages, RunCounts
<1>1. worker[w].pc \in {"begin", "graph"}
  BY DEF Extract, BeginExtraction, FinishExtraction, ExtractionFails
<1>2. /\ worker[w].message \in Messages /\ worker[w].message.task = "extract"
      /\ d \in Requests /\ d \in pages /\ docs[d] \in DocumentRows
  BY <1>0, <1>1 DEF HasPages, Messages, Doc
<1>3. docs[d].status \in Statuses /\ worker[w].seen \in Statuses /\ structure[d] \in Nat
  BY <1>0, <1>2 DEF DocumentRows, WorkerStates
<1>4. CASE BeginExtraction(w)
  <2> DEFINE state == [worker[w] EXCEPT !.pc = "graph", !.seen = docs[d].status, !.clauses = structure[d]]
  <2>1. state \in WorkerStates /\ state.pc = "graph" /\ state.message = worker[w].message
    BY <1>0, <1>3 DEF WorkerStates, PCs
  <2>2. HasPages(state, pages)
    BY <1>2, <2>1 DEF HasPages, Doc
  <2>3. /\ worker' = [worker EXCEPT ![w] = state]
        /\ UNCHANGED <<request, docs, pages, structure, runs, queue, faults>>
    BY <1>4 DEF BeginExtraction, service
  <2> HIDE DEF state, Ingested
  <2> QED
    BY <1>0, <2>1, <2>2, <2>3, WorkerStep
<1>5. ASSUME NEW status \in Statuses, NEW count \in RunCounts,
             docs' = [docs EXCEPT ![d].status = Written(worker[w].seen, status, @)],
             runs' = [runs EXCEPT ![d] = count],
             worker' = [worker EXCEPT ![w] = finished],
             UNCHANGED <<request, pages, structure, queue, faults>>
      PROVE  Ingested'
  <2>1. Written(worker[w].seen, status, docs[d].status) \in Statuses
    BY <1>3 DEF Written
  <2>2. docs' \in [Requests -> DocumentRows]
    BY <1>0, <1>2, <1>5, <2>1 DEF DocumentRows
  <2>3. finished \in WorkerStates /\ finished.pc = "ack" /\ finished.message = worker[w].message
    BY <1>0 DEF WorkerStates, PCs
  <2>4. HasPages(finished, pages')
    BY <1>2, <1>5, <2>3 DEF HasPages, Doc
  <2>5. worker' \in [Workers -> WorkerStates] /\ WorkHasPages'
    <3> HIDE DEF finished, Ingested
    <3> QED
      BY <1>5, <2>3, <2>4, WorkerGoesOn
  <2>6. runs' \in [Requests -> RunCounts] /\ RunsHavePages'
    BY <1>0, <1>2, <1>5 DEF RunsHavePages
  <2>7. TypeOK'
    BY <1>5, <2>2, <2>5, <2>6 DEF TypeOK, WorkerStates, PCs, DocumentRows, RunCounts
  <2>8. OneStructure' /\ TasksHavePages'
    BY <1>5 DEF OneStructure, TasksHavePages
  <2> QED
    BY <2>5, <2>6, <2>7, <2>8
<1>6. /\ [runs[d] EXCEPT !.completed = runs[d].completed + 1] \in RunCounts
      /\ [runs[d] EXCEPT !.failed = runs[d].failed + 1] \in RunCounts
  BY <1>0, <1>2 DEF RunCounts
<1>7. CASE FinishExtraction(w)
  <2>1. runs' = [runs EXCEPT ![d] = [runs[d] EXCEPT !.completed = runs[d].completed + 1]]
    BY <1>0, <1>2, <1>7 DEF FinishExtraction
  <2> QED
    BY <1>5, <1>6, <1>7, <2>1 DEF FinishExtraction, Statuses
<1>8. CASE ExtractionFails(w)
  <2>1. runs' = [runs EXCEPT ![d] = [runs[d] EXCEPT !.failed = runs[d].failed + 1]]
    BY <1>0, <1>2, <1>8 DEF ExtractionFails, FailedRun
  <2> QED
    BY <1>5, <1>6, <1>8, <2>1 DEF ExtractionFails, Statuses
<1> QED
  BY <1>4, <1>7, <1>8 DEF Extract

LEMMA StepIngested == Ingested /\ [Next]_vars => Ingested'
<1>1. ASSUME Ingested, UNCHANGED vars PROVE Ingested'
  BY <1>1 DEF Ingested, TypeOK, OneStructure, TasksHavePages, WorkHasPages, HasPages, RunsHavePages,
              vars, service
<1>2. ASSUME Ingested, Next, Workers = {} PROVE Ingested'
  <2>1. ASSUME NEW m \in queue, VisibilityTimeout(m) PROVE FALSE
    BY <1>2, <2>1 DEF VisibilityTimeout, Held
  <2> QED
    BY <1>2, <2>1, StepRequests DEF Next
<1>3. ASSUME Ingested, Next, Workers # {} PROVE Ingested'
  BY <1>3, StepRequests, StepDeliveries, StepProcess, StepExtract DEF Next, Work
<1> QED
  BY <1>1, <1>2, <1>3
-----------------------------------------------------------------------------
(* Every variable keeps its type: the retries stay within the limit of the
   tasks however deliveries and crashes mix. *)
THEOREM TypesHold == Spec => []TypeOK
<1>1. Ingested => TypeOK
  BY DEF Ingested
<1> QED
  BY <1>1, InitIngested, StepIngested, PTL DEF Spec

LEMMA IngestedSuffices == Ingested => StructuredOnce
<1> SUFFICES ASSUME Ingested, NEW d \in Requests
    PROVE  /\ structure[d] <= 1
           /\ structure[d] = 0 =>
                /\ \A m \in queue : m.doc = d => m.task = "process"
                /\ runs[d].completed + runs[d].failed = 0
  BY DEF StructuredOnce
<1>1. runs[d].completed \in Nat /\ runs[d].failed \in Nat
  BY DEF Ingested, TypeOK
<1>2. \A m \in queue : m.task \in {"process", "extract"}
  BY DEF Ingested, TypeOK, Messages, Tasks
<1> QED
  BY <1>1, <1>2 DEF Ingested, OneStructure, TasksHavePages, RunsHavePages

(* However often, late and concurrently the processing task of a document is
   delivered, its clauses are inserted at most once, and neither an extraction
   task nor a run of it exists before. *)
THEOREM ClausesAreInsertedOnce == Spec => []StructuredOnce
BY InitIngested, StepIngested, IngestedSuffices, PTL DEF Spec
-----------------------------------------------------------------------------
(***************************************************************************)
(* What the status of a document says about its history: FateInv follows a *)
(* document from its request to the worker that moves it on.               *)
(***************************************************************************)
(* A document exists once its request is done, and has no pages before. *)
CommittedIsDone ==
  /\ \A r \in Requests : docs[r].status # "none" <=> request[r] = "done"
  /\ pages \subseteq Committed

(* How it came, and that an upload has its file. *)
SourceIsKnown ==
  \A d \in Committed : docs[d].source \in Sources /\ (docs[d].source = "upload" => docs[d].file)

(* What a request had seen before it was let through. *)
CameBy(r) ==
  IF request[r] \in {"url", "sent url"} THEN "url"
  ELSE IF request[r] \in {"upload", "sent upload"} THEN "upload"
  ELSE docs[r].source
PassedTheCheck ==
  \A d, e \in Requests : <<d, e>> \in history.before =>
    /\ docs[d].status # "none"
    /\ request[e] \notin {"idle", "refused"} => docs[d].source # CameBy(e)

(* A worker writes the rows of committed documents only, and a processing task
   that has gone past its first commit has moved its document. *)
Waiting == {"none", "PENDING", "DOWNLOADED"}
Fits(state, rows, overtaken) ==
  LET d == state.message.doc IN
  /\ state.pc \in {"processing", "parse", "dispatch", "begin", "graph"} => rows[d].status # "none"
  /\ state.pc \in {"processing", "graph"} /\ state.seen \notin Waiting =>
       rows[d].status \notin Waiting
  /\ state.pc \in {"parse", "dispatch", "raised", "ack"} /\ state.message.task = "process" =>
       d \in overtaken \/ rows[d].status \notin Waiting
WorkFits == \A w \in Workers : Fits(worker[w], docs, history.overtaken)

(* Until then the task is in the queue. *)
SentIsQueued ==
  \A d \in Requests :
    /\ request[d] \in {"sent url", "sent upload", "done"}
    /\ docs[d].status \in Waiting /\ d \notin history.overtaken
    => \E m \in queue : m.task = "process" /\ m.doc = d

FateInv ==
  Ingested /\ CommittedIsDone /\ SourceIsKnown /\ PassedTheCheck /\ WorkFits /\ SentIsQueued
-----------------------------------------------------------------------------
LEMMA WorkTypes ==
  ASSUME Ingested, NEW w \in Workers
  PROVE  /\ worker \in [Workers -> WorkerStates] /\ worker[w] \in WorkerStates
         /\ docs \in [Requests -> DocumentRows] /\ queue \subseteq Messages
         /\ worker[w].pc # "idle" => worker[w].message \in Messages /\ Doc(w) \in Requests
BY DEF Ingested, TypeOK, WorkerStates, PCs, DocumentRows, WorkHasPages, HasPages, Messages, Doc

LEMMA InitFate == Init => FateInv
<1> SUFFICES ASSUME Init PROVE FateInv OBVIOUS
<1>1. Ingested BY InitIngested
<1>2. \A r \in Requests : docs[r].status = "none" /\ request[r] = "idle" BY DEF Init
<1>3. CommittedIsDone /\ SourceIsKnown
  BY <1>2 DEF Init, CommittedIsDone, SourceIsKnown, Committed
<1>4. PassedTheCheck BY DEF Init, PassedTheCheck
<1>5. WorkFits BY DEF Init, IdleWorker, WorkFits, Fits
<1>6. SentIsQueued BY <1>2 DEF SentIsQueued
<1> QED BY <1>1, <1>3, <1>4, <1>5, <1>6 DEF FateInv

(* Workers move rows on: a row stays committed and moved, keeps its source, and
   loses no file. *)
RowsGoOn(rows, next) ==
  \A d \in Requests :
    /\ next[d].source = rows[d].source
    /\ rows[d].file => next[d].file
    /\ next[d].status = "none" <=> rows[d].status = "none"
    /\ rows[d].status \notin Waiting => next[d].status \notin Waiting

LEMMA SameRows == RowsGoOn(docs, docs)
BY DEF RowsGoOn

LEMMA OneRow ==
  ASSUME Ingested, NEW d \in Requests, docs[d].status # "none",
         NEW status \in Statuses \ {"none"}, NEW file \in BOOLEAN, docs[d].file => file,
         docs[d].status \notin Waiting => status \notin Waiting,
         \/ docs' = [docs EXCEPT ![d].status = status, ![d].file = file]
         \/ docs' = [docs EXCEPT ![d].status = status]
  PROVE  RowsGoOn(docs, docs') /\ docs'[d].status = status
<1>1. docs \in [Requests -> DocumentRows] /\ docs[d] \in DocumentRows
  BY DEF Ingested, TypeOK, DocumentRows
<1>2. \A e \in Requests : e # d => docs'[e] = docs[e] BY <1>1
<1>3. /\ docs'[d].status = status /\ docs'[d].source = docs[d].source
      /\ docs[d].file => docs'[d].file
  BY <1>1 DEF DocumentRows
<1> QED BY <1>2, <1>3 DEF RowsGoOn

LEMMA RowsStand ==
  ASSUME FateInv, request' = request, RowsGoOn(docs, docs'), history'.before = history.before,
         pages' \subseteq pages \union Committed
  PROVE  CommittedIsDone' /\ SourceIsKnown' /\ PassedTheCheck'
<1>1. \A d \in Requests : (docs'[d].status = "none" <=> docs[d].status = "none")
                          /\ docs'[d].source = docs[d].source /\ (docs[d].file => docs'[d].file)
  BY DEF RowsGoOn
<1>2. pages \subseteq Committed BY DEF FateInv, CommittedIsDone
<1>3. CommittedIsDone' BY <1>1, <1>2 DEF FateInv, CommittedIsDone, Committed
<1>4. SourceIsKnown' BY <1>1 DEF FateInv, SourceIsKnown, Committed
<1>5. ASSUME NEW d \in Requests, NEW e \in Requests, <<d, e>> \in history'.before
      PROVE  /\ docs'[d].status # "none"
             /\ request'[e] \notin {"idle", "refused"} => docs'[d].source # CameBy(e)'
  <2>1. /\ docs[d].status # "none"
        /\ request[e] \notin {"idle", "refused"} => docs[d].source # CameBy(e)
    BY <1>5 DEF FateInv, PassedTheCheck
  <2>2. CameBy(e)' = CameBy(e) BY <1>1 DEF CameBy
  <2> QED BY <1>1, <2>1, <2>2
<1>6. PassedTheCheck' BY <1>5 DEF PassedTheCheck
<1> QED BY <1>3, <1>4, <1>6

LEMMA WorkStands ==
  ASSUME FateInv, NEW w \in Workers, NEW state, worker' = [worker EXCEPT ![w] = state],
         RowsGoOn(docs, docs'), history.overtaken \subseteq history'.overtaken,
         Fits(state, docs', history'.overtaken)
  PROVE  WorkFits'
<1>1. worker \in [Workers -> WorkerStates] /\ Ingested BY WorkTypes DEF FateInv
<1>2. ASSUME NEW v \in Workers, v # w PROVE Fits(worker'[v], docs', history'.overtaken)
  <2>1. worker'[v] = worker[v] BY <1>1, <1>2
  <2>2. Fits(worker[v], docs, history.overtaken) BY DEF FateInv, WorkFits
  <2>3. worker[v].pc # "idle" => worker[v].message.doc \in Requests
    BY <1>1, WorkTypes DEF Doc
  <2> QED BY <2>1, <2>2, <2>3 DEF Fits, RowsGoOn
<1>3. worker'[w] = state BY <1>1
<1> QED BY <1>2, <1>3 DEF WorkFits, Fits

LEMMA QueueStands ==
  ASSUME FateInv, request' = request, RowsGoOn(docs, docs'),
         history.overtaken \subseteq history'.overtaken,
         \A m \in queue :
           m.task = "process" /\ docs'[m.doc].status \in Waiting /\ m.doc \notin history'.overtaken
           => \E n \in queue' : n.task = "process" /\ n.doc = m.doc
  PROVE  SentIsQueued'
<1> SUFFICES ASSUME NEW d \in Requests, request[d] \in {"sent url", "sent upload", "done"},
                    docs'[d].status \in Waiting, d \notin history'.overtaken
             PROVE  \E m \in queue' : m.task = "process" /\ m.doc = d
  BY DEF SentIsQueued
<1>1. docs[d].status \in Waiting /\ d \notin history.overtaken BY DEF RowsGoOn
<1>2. PICK m \in queue : m.task = "process" /\ m.doc = d BY <1>1 DEF FateInv, SentIsQueued
<1> QED BY <1>2
-----------------------------------------------------------------------------
LEMMA RequestsKeepFate ==
  ASSUME FateInv, NEW r \in Requests,
         (\E source \in Sources : CheckDuplicate(r, source)) \/ Handle(r)
  PROVE  FateInv'
<1>0. Ingested /\ Ingested' BY StepRequests DEF FateInv
<1>a. /\ request \in [Requests -> Sources \union {"idle", "sent url", "sent upload", "done", "refused"}]
      /\ docs \in [Requests -> DocumentRows] /\ worker \in [Workers -> WorkerStates]
  BY <1>0 DEF Ingested, TypeOK, DocumentRows, WorkerStates, PCs
<1>b. CommittedIsDone /\ SourceIsKnown /\ PassedTheCheck /\ WorkFits /\ SentIsQueued
  BY DEF FateInv
(* The rows stay as they are until the request commits. *)
<1>1. ASSUME UNCHANGED <<docs, pages, worker>>, history'.overtaken = history.overtaken,
             NEW state, request' = [request EXCEPT ![r] = state],
             request[r] # "done", state # "done",
             PassedTheCheck', queue \subseteq queue',
             state \in {"sent url", "sent upload"} =>
               \E m \in queue' : m.task = "process" /\ m.doc = r
      PROVE  FateInv'
  <2>1. request'[r] = state /\ \A e \in Requests \ {r} : request'[e] = request[e] BY <1>a, <1>1
  <2>2. CommittedIsDone' BY <1>b, <1>1, <2>1 DEF CommittedIsDone, Committed
  <2>3. SourceIsKnown' BY <1>b, <1>1 DEF SourceIsKnown, Committed
  <2>4. WorkFits' BY <1>b, <1>1 DEF WorkFits, Fits
  <2>5. SentIsQueued' BY <1>b, <1>1, <2>1 DEF SentIsQueued
  <2> QED BY <1>0, <1>1, <2>2, <2>3, <2>4, <2>5 DEF FateInv
<1>2. ASSUME NEW source \in Sources, CheckDuplicate(r, source) PROVE FateInv'
  <2> DEFINE state == IF Duplicates(source) = {} THEN source ELSE "refused"
  <2>1. /\ UNCHANGED <<docs, pages, queue, worker>> /\ request[r] = "idle"
        /\ request' = [request EXCEPT ![r] = state]
    BY <1>2 DEF CheckDuplicate, service
  <2>2. \A d, e \in Requests : <<d, e>> \in history'.before =>
          <<d, e>> \in history.before \/ (d \in Committed /\ e = r)
    BY <1>2 DEF CheckDuplicate
  <2>3. history'.overtaken = history.overtaken BY <1>2 DEF CheckDuplicate
  <2>4. state \in Sources \union {"refused"} BY DEF state
  <2>5. state \in Sources => \A d \in Committed : docs[d].source # state
    BY <1>b DEF Duplicates, SourceIsKnown, Sources
  <2> HIDE DEF state
  <2>6. request'[r] = state /\ \A e \in Requests \ {r} : request'[e] = request[e] BY <1>a, <2>1
  <2>7. ASSUME NEW d \in Requests, NEW e \in Requests, <<d, e>> \in history'.before
        PROVE  /\ docs'[d].status # "none"
               /\ request'[e] \notin {"idle", "refused"} => docs'[d].source # CameBy(e)'
    <3>1. docs[d].status # "none" BY <1>b, <2>2, <2>7 DEF PassedTheCheck, Committed
    <3>2. CASE e = r
      <4>1. state \in Sources => CameBy(r)' = state BY <2>6 DEF CameBy, Sources
      <4> QED BY <2>1, <2>4, <2>5, <2>6, <3>1, <3>2, <4>1 DEF Committed
    <3>3. CASE e # r
      <4>1. CameBy(e)' = CameBy(e) BY <2>1, <2>6, <3>3 DEF CameBy
      <4> QED BY <1>b, <2>1, <2>2, <2>6, <2>7, <3>1, <3>3, <4>1 DEF PassedTheCheck
    <3> QED BY <3>2, <3>3
  <2>8. PassedTheCheck' BY <2>7 DEF PassedTheCheck
  <2> QED BY <1>1, <2>1, <2>3, <2>4, <2>8 DEF Sources
<1>3. ASSUME NEW state, request' = [request EXCEPT ![r] = state],
             \/ state = "refused"
             \/ state = "sent url" /\ request[r] = "url"
             \/ state = "sent upload" /\ request[r] = "upload",
             docs' = docs, history' = history
      PROVE  PassedTheCheck'
  <2>1. request'[r] = state /\ \A e \in Requests \ {r} : request'[e] = request[e] BY <1>a, <1>3
  <2>2. ASSUME NEW e \in Requests, request'[e] # "refused"
        PROVE  CameBy(e)' = CameBy(e) /\ (request'[e] = "idle" <=> request[e] = "idle")
               /\ request[e] # "refused"
    BY <1>3, <2>1, <2>2 DEF CameBy
  <2>3. ASSUME NEW d \in Requests, NEW e \in Requests, <<d, e>> \in history'.before
        PROVE  /\ docs'[d].status # "none"
               /\ request'[e] \notin {"idle", "refused"} => docs'[d].source # CameBy(e)'
    BY <1>b, <1>3, <2>2, <2>3 DEF PassedTheCheck
  <2> QED BY <2>3 DEF PassedTheCheck
<1>4. ASSUME SendProcess(r) PROVE FateInv'
  <2> DEFINE state == IF request[r] = "url" THEN "sent url" ELSE "sent upload"
  <2>1. /\ UNCHANGED <<docs, pages, worker, history>> /\ request[r] \in Sources
        /\ request' = [request EXCEPT ![r] = state]
        /\ queue' = queue \union {Message("process", r)}
    BY <1>4, <1>a DEF SendProcess, service
  <2>2. \/ state = "sent url" /\ request[r] = "url"
        \/ state = "sent upload" /\ request[r] = "upload"
    BY <2>1 DEF Sources
  <2>3. Message("process", r).task = "process" /\ Message("process", r).doc = r BY DEF Message
  <2> HIDE DEF state
  <2>4. PassedTheCheck' BY <1>3, <2>1, <2>2
  <2> QED BY <1>1, <2>1, <2>2, <2>3, <2>4
<1>5. ASSUME RequestFails(r) PROVE FateInv'
  <2>1. /\ UNCHANGED <<docs, pages, worker, history, queue>> /\ request[r] # "done"
        /\ request' = [request EXCEPT ![r] = "refused"]
    BY <1>5 DEF RequestFails, service, Sources
  <2>2. PassedTheCheck' BY <1>3, <2>1
  <2> QED BY <1>1, <2>1, <2>2
<1>6. ASSUME CommitRequest(r) PROVE FateInv'
  <2> DEFINE row == IF request[r] = "sent url"
                    THEN [status |-> "PENDING", source |-> "url", file |-> FALSE]
                    ELSE [status |-> "DOWNLOADED", source |-> "upload", file |-> TRUE]
  <2>1. /\ UNCHANGED <<pages, worker, queue, history>>
        /\ request[r] \in {"sent url", "sent upload"}
        /\ docs' = [docs EXCEPT ![r] = row] /\ request' = [request EXCEPT ![r] = "done"]
    BY <1>6 DEF CommitRequest
  <2>2. /\ row.status \in Waiting /\ row.status # "none" /\ row.source \in Sources
        /\ row.source = "upload" => row.file
        /\ row.source = CameBy(r)
    BY <2>1 DEF Waiting, CameBy, Sources
  <2> HIDE DEF row
  <2>3. /\ docs'[r] = row /\ request'[r] = "done"
        /\ \A d \in Requests \ {r} : docs'[d] = docs[d] /\ request'[d] = request[d]
    BY <1>a, <2>1
  <2>4. docs[r].status = "none" BY <1>b, <2>1 DEF CommittedIsDone
  <2>5. CommittedIsDone'
    <3>1. Committed \subseteq Committed' BY <2>3, <2>4 DEF Committed
    <3>2. \A e \in Requests : docs'[e].status # "none" <=> request'[e] = "done"
      BY <1>b, <2>2, <2>3 DEF CommittedIsDone
    <3>3. pages' \subseteq Committed' BY <1>b, <2>1, <3>1 DEF CommittedIsDone
    <3> QED BY <3>2, <3>3 DEF CommittedIsDone
  <2>6. SourceIsKnown' BY <1>b, <2>2, <2>3 DEF SourceIsKnown, Committed
  <2>7. ASSUME NEW d \in Requests, NEW e \in Requests, <<d, e>> \in history'.before
        PROVE  /\ docs'[d].status # "none"
               /\ request'[e] \notin {"idle", "refused"} => docs'[d].source # CameBy(e)'
    <3>1. /\ docs[d].status # "none"
          /\ request[e] \notin {"idle", "refused"} => docs[d].source # CameBy(e)
      BY <1>b, <2>1, <2>7 DEF PassedTheCheck
    <3>2. docs'[d] = docs[d] BY <2>3, <2>4, <3>1
    <3>3. CameBy(e)' = CameBy(e)
      BY <2>2, <2>3 DEF CameBy
    <3>4. request[e] \in {"idle", "refused"} => request'[e] \in {"idle", "refused"}
      BY <2>1, <2>3
    <3> QED BY <3>1, <3>2, <3>3, <3>4
  <2>8. PassedTheCheck' BY <2>7 DEF PassedTheCheck
  <2>9. ASSUME NEW w \in Workers PROVE Fits(worker'[w], docs', history'.overtaken)
    <3>1. Fits(worker[w], docs, history.overtaken) BY <1>b DEF WorkFits
    <3>2. worker[w].pc # "idle" => worker[w].message.doc \in Requests
      BY <1>0, WorkTypes DEF Doc
    <3>3. worker'[w] = worker[w] /\ history' = history BY <2>1
    <3>4. "none" \in Waiting BY DEF Waiting
    <3> QED BY <2>2, <2>3, <2>4, <3>1, <3>2, <3>3, <3>4 DEF Fits
  <2>10. WorkFits' BY <2>9 DEF WorkFits, Fits
  <2>11. ASSUME NEW d \in Requests, request'[d] \in {"sent url", "sent upload", "done"},
                docs'[d].status \in Waiting, d \notin history'.overtaken
         PROVE  \E m \in queue' : m.task = "process" /\ m.doc = d
    <3>1. request[d] \in {"sent url", "sent upload", "done"} BY <2>1, <2>3, <2>11
    <3>2. docs[d].status \in Waiting BY <2>3, <2>4, <2>11 DEF Waiting
    <3> QED BY <1>b, <2>1, <2>11, <3>1, <3>2 DEF SentIsQueued
  <2>12. SentIsQueued' BY <2>11 DEF SentIsQueued
  <2> QED BY <1>0, <2>5, <2>6, <2>8, <2>10, <2>12 DEF FateInv
<1> QED BY <1>2, <1>4, <1>5, <1>6 DEF Handle

(* What the step of a worker owes: its own state fits, and a processing task
   leaves the queue only when its document has moved. *)
LEMMA WorkerKeepsFate ==
  ASSUME FateInv, Ingested', NEW w \in Workers, NEW state,
         worker' = [worker EXCEPT ![w] = state], request' = request,
         RowsGoOn(docs, docs'), pages' \subseteq pages \union Committed,
         history'.before = history.before, history.overtaken \subseteq history'.overtaken,
         Fits(state, docs', history'.overtaken),
         \A m \in queue :
           m.task = "process" /\ docs'[m.doc].status \in Waiting /\ m.doc \notin history'.overtaken
           => \E n \in queue' : n.task = "process" /\ n.doc = m.doc
  PROVE  FateInv'
BY RowsStand, WorkStands, QueueStands DEF FateInv

LEMMA DeliveriesKeepFate ==
  ASSUME FateInv, NEW w \in Workers,
         \/ \E m \in queue : Deliver(w, m) \/ VisibilityTimeout(m)
         \/ Crash(w) \/ Acknowledge(w) \/ Retry(w) \/ GiveUp(w)
  PROVE  FateInv'
<1>0. /\ Ingested /\ Ingested' /\ worker[w] \in WorkerStates /\ queue \subseteq Messages
      /\ worker[w].pc # "idle" => worker[w].message \in Messages /\ Doc(w) \in Requests
      /\ Fits(worker[w], docs, history.overtaken)
  BY StepDeliveries, WorkTypes DEF FateInv, WorkFits
<1>1. RowsGoOn(docs, docs) BY SameRows
<1>2. ASSUME NEW m \in queue, Deliver(w, m) PROVE FateInv'
  <2> DEFINE state == [IdleWorker EXCEPT !.pc = FirstStep(m.task), !.message = m]
  <2>1. /\ UNCHANGED <<request, docs, pages, queue, history>>
        /\ worker' = [worker EXCEPT ![w] = state]
    BY <1>2 DEF Deliver, service
  <2>2. state.pc = FirstStep(m.task) /\ state.message = m BY DEF IdleWorker
  <2>3. m \in Messages /\ m.task \in Tasks /\ m.doc \in Requests BY <1>0 DEF Messages
  <2>4. m.task = "extract" => docs[m.doc].status # "none"
    BY <1>0 DEF Ingested, TasksHavePages, FateInv, CommittedIsDone, Committed
  <2>5. Fits(state, docs, history.overtaken) BY <2>2, <2>3, <2>4 DEF Fits, FirstStep, Tasks
  <2> HIDE DEF state
  <2> QED BY <1>0, <1>1, <2>1, <2>5, WorkerKeepsFate
<1>3. ASSUME NEW m \in queue, VisibilityTimeout(m) PROVE FateInv'
  <2>1. /\ UNCHANGED <<request, docs, pages, worker>> /\ queue \subseteq queue'
        /\ history'.overtaken = history.overtaken /\ history'.before = history.before
    BY <1>3 DEF VisibilityTimeout, service
  <2>2. CommittedIsDone' /\ SourceIsKnown' /\ PassedTheCheck' BY <1>1, <2>1, RowsStand
  <2>3. WorkFits' BY <2>1 DEF FateInv, WorkFits, Fits
  <2>4. SentIsQueued' BY <1>1, <2>1, QueueStands
  <2> QED BY <1>0, <2>2, <2>3, <2>4 DEF FateInv
<1>4. Fits(IdleWorker, docs, history'.overtaken) BY DEF Fits, IdleWorker
<1>5. ASSUME Crash(w) PROVE FateInv'
  <2>1. /\ UNCHANGED <<request, docs, pages, queue>> /\ worker' = [worker EXCEPT ![w] = IdleWorker]
        /\ history'.overtaken = history.overtaken /\ history'.before = history.before
    BY <1>5 DEF Crash, KeptByCrash, service
  <2> QED BY <1>0, <1>1, <1>4, <2>1, WorkerKeepsFate
<1>6. ASSUME Acknowledge(w) PROVE FateInv'
  <2>1. /\ UNCHANGED <<request, docs, pages, history>>
        /\ worker' = [worker EXCEPT ![w] = IdleWorker]
        /\ queue' = queue \ {worker[w].message} /\ worker[w].pc = "ack"
    BY <1>6 DEF Acknowledge, service
  <2>2. worker[w].message.task = "process" =>
          Doc(w) \in history.overtaken \/ docs[Doc(w)].status \notin Waiting
    BY <1>0, <2>1 DEF Fits, Doc
  <2> QED BY <1>0, <1>1, <1>4, <2>1, <2>2, WorkerKeepsFate DEF Doc
<1>7. ASSUME Retry(w) PROVE FateInv'
  <2> DEFINE again == [worker[w].message EXCEPT !.attempt = @ + 1]
  <2>1. /\ UNCHANGED <<request, docs, pages, history>>
        /\ worker' = [worker EXCEPT ![w] = IdleWorker]
        /\ queue' = (queue \ {worker[w].message}) \union {again} /\ worker[w].pc = "raised"
    BY <1>7 DEF Retry, service
  <2>2. again.task = worker[w].message.task /\ again.doc = worker[w].message.doc
    BY <1>0, <2>1 DEF Messages
  <2> HIDE DEF again
  <2> QED BY <1>0, <1>1, <1>4, <2>1, <2>2, WorkerKeepsFate
<1>8. ASSUME GiveUp(w) PROVE FateInv'
  <2> DEFINE state == [worker[w] EXCEPT !.pc = "ack"]
  <2>1. /\ UNCHANGED <<request, docs, pages, queue, history>> /\ worker[w].pc = "raised"
        /\ worker' = [worker EXCEPT ![w] = state]
    BY <1>8 DEF GiveUp, service
  <2>2. state.pc = "ack" /\ state.message = worker[w].message BY <1>0 DEF WorkerStates
  <2>3. Fits(state, docs, history.overtaken) BY <1>0, <2>1, <2>2 DEF Fits
  <2> HIDE DEF state
  <2> QED BY <1>0, <1>1, <2>1, <2>3, WorkerKeepsFate
<1> QED BY <1>2, <1>3, <1>5, <1>6, <1>7, <1>8

LEMMA ProcessKeepsFate ==
  ASSUME FateInv, NEW w \in Workers, Process(w)
  PROVE  FateInv'
<1> DEFINE d == Doc(w)
           moved(pc) == [worker[w] EXCEPT !.pc = pc]
<1>0. /\ Ingested /\ Ingested' /\ worker[w] \in WorkerStates /\ queue \subseteq Messages
      /\ worker[w].pc # "idle" => worker[w].message \in Messages /\ d \in Requests
      /\ Fits(worker[w], docs, history.overtaken)
      /\ docs \in [Requests -> DocumentRows]
  BY StepProcess, WorkTypes DEF FateInv, WorkFits
<1>1. RowsGoOn(docs, docs) BY SameRows
<1>2. \A pc \in PCs : moved(pc).pc = pc /\ moved(pc).message = worker[w].message
  BY <1>0 DEF WorkerStates
<1>3. {"processing", "parse", "dispatch", "raised", "ack"} \subseteq PCs BY DEF PCs
<1>4. worker[w].pc # "idle" => docs[d] \in DocumentRows /\ docs[d].file \in BOOLEAN
                               /\ docs[d].status \in Statuses
  BY <1>0 DEF DocumentRows
(* A step that moves the document, or finds it moved. *)
<1>5. ASSUME NEW pc \in {"parse", "dispatch", "raised", "ack"},
             worker' = [worker EXCEPT ![w] = moved(pc)], UNCHANGED <<request, queue>>,
             RowsGoOn(docs, docs'), docs'[d].status # "none",
             d \in history'.overtaken \/ docs'[d].status \notin Waiting,
             pages' \subseteq pages \union Committed,
             history'.before = history.before, history.overtaken \subseteq history'.overtaken
      PROVE  FateInv'
  <2>1. moved(pc).pc = pc /\ moved(pc).message = worker[w].message BY <1>2, <1>3
  <2>2. Fits(moved(pc), docs', history'.overtaken)
    BY <1>5, <2>1 DEF Fits, Doc
  <2> HIDE DEF moved
  <2> QED BY <1>0, <1>5, <2>2, WorkerKeepsFate
<1>6. CASE DocumentNotFound(w)
  <2>1. /\ UNCHANGED <<request, docs, pages, queue>> /\ history'.before = history.before
        /\ history'.overtaken = history.overtaken \union {d}
        /\ worker' = [worker EXCEPT ![w] = moved("ack")]
    BY <1>6 DEF DocumentNotFound, service
  <2>2. Fits(moved("ack"), docs, history'.overtaken) BY <1>2, <1>3, <2>1 DEF Fits, Doc
  <2> HIDE DEF moved
  <2> QED BY <1>0, <1>1, <2>1, <2>2, WorkerKeepsFate
<1>7. CASE LoadDocument(w)
  <2> DEFINE state == [worker[w] EXCEPT !.pc = "processing", !.seen = docs[d].status]
  <2>1. /\ UNCHANGED <<request, docs, pages, queue, history>>
        /\ worker' = [worker EXCEPT ![w] = state] /\ d \in Committed
    BY <1>7 DEF LoadDocument, service
  <2>2. state.pc = "processing" /\ state.message = worker[w].message /\ state.seen = docs[d].status
    BY <1>0 DEF WorkerStates
  <2>3. Fits(state, docs, history.overtaken) BY <2>1, <2>2 DEF Fits, Doc, Committed
  <2> HIDE DEF state
  <2> QED BY <1>0, <1>1, <2>1, <2>3, WorkerKeepsFate
<1>8. CASE MarkProcessing(w)
  <2> DEFINE status == Written(worker[w].seen, "PROCESSING", docs[d].status)
  <2>1. /\ UNCHANGED <<request, pages, queue, history>> /\ worker[w].pc = "processing"
        /\ worker' = [worker EXCEPT ![w] = moved("parse")]
        /\ docs' = [docs EXCEPT ![d].status = status]
    BY <1>0, <1>8 DEF MarkProcessing
  <2>2. /\ docs[d].status # "none"
        /\ worker[w].seen \notin Waiting => docs[d].status \notin Waiting
    BY <1>0, <2>1 DEF Fits, Doc
  <2>3. status \in Statuses \ {"none"} /\ status \notin Waiting
    BY <1>4, <2>1, <2>2 DEF Written, Statuses, Waiting
  <2> HIDE DEF status, d
  <2>4. RowsGoOn(docs, docs') /\ docs'[d].status = status
    BY <1>0, <1>4, <2>1, <2>2, <2>3, OneRow
  <2> QED BY <1>5, <2>1, <2>3, <2>4
<1>9. CASE ProcessingFails(w)
  <2>1. PICK downloaded \in BOOLEAN :
          docs' = [docs EXCEPT ![d].status = "FAILED", ![d].file = docs[d].file \/ downloaded]
    BY <1>0, <1>9 DEF ProcessingFails, StatusOnFailure
  <2> DEFINE file == docs[d].file \/ downloaded
  <2>2. /\ UNCHANGED <<request, pages, queue, history>> /\ worker[w].pc = "parse"
        /\ worker' = [worker EXCEPT ![w] = moved("ack")]
    BY <1>9 DEF ProcessingFails
  <2>3. docs[d].status # "none" BY <1>0, <2>2 DEF Fits, Doc
  <2>4. "FAILED" \in Statuses \ {"none"} /\ "FAILED" \notin Waiting BY DEF Statuses, Waiting
  <2>5. file \in BOOLEAN /\ (docs[d].file => file) BY <1>4, <2>2
  <2> HIDE DEF file, d
  <2>6. RowsGoOn(docs, docs') /\ docs'[d].status = "FAILED"
    <3>1. docs' = [docs EXCEPT ![d].status = "FAILED", ![d].file = file] BY <2>1 DEF file
    <3> QED BY <1>0, <2>2, <2>3, <2>4, <2>5, <3>1, OneRow
  <2> QED BY <1>5, <2>2, <2>4, <2>6
<1>10. CASE Structure(w)
  <2>1. /\ UNCHANGED <<request, queue, history>> /\ worker[w].pc = "parse"
        /\ worker' = [worker EXCEPT ![w] = moved("dispatch")] /\ pages' = pages \union {d}
        /\ docs' = [docs EXCEPT ![d].status = "STRUCTURED", ![d].file = TRUE]
    BY <1>10 DEF Structure
  <2>2. docs[d].status # "none" /\ d \in Committed
    BY <1>0, <2>1 DEF Fits, Doc, Committed
  <2>3. "STRUCTURED" \in Statuses \ {"none"} /\ "STRUCTURED" \notin Waiting
    BY DEF Statuses, Waiting
  <2> HIDE DEF d
  <2>4. RowsGoOn(docs, docs') /\ docs'[d].status = "STRUCTURED"
    BY <1>0, <2>1, <2>2, <2>3, OneRow
  <2> QED BY <1>5, <2>1, <2>2, <2>3, <2>4
<1>11. CASE StructureConflicts(w)
  <2>1. /\ UNCHANGED <<request, docs, pages, queue, history>> /\ worker[w].pc = "parse"
        /\ worker' = [worker EXCEPT ![w] = moved("raised")]
    BY <1>11 DEF StructureConflicts, service
  <2>2. Fits(moved("raised"), docs, history.overtaken)
    BY <1>0, <1>2, <1>3, <2>1 DEF Fits
  <2> HIDE DEF moved
  <2> QED BY <1>0, <1>1, <2>1, <2>2, WorkerKeepsFate
<1>12. CASE DispatchExtraction(w)
  <2>1. /\ UNCHANGED <<request, docs, pages, history>> /\ worker[w].pc = "dispatch"
        /\ worker' = [worker EXCEPT ![w] = moved("ack")] /\ queue \subseteq queue'
    BY <1>12 DEF DispatchExtraction, service
  <2>2. Fits(moved("ack"), docs, history.overtaken)
    BY <1>0, <1>2, <1>3, <2>1 DEF Fits
  <2> HIDE DEF moved
  <2> QED BY <1>0, <1>1, <2>1, <2>2, WorkerKeepsFate
<1>13. CASE DispatchRefused(w)
  <2>1. /\ UNCHANGED <<request, pages, queue>> /\ worker[w].pc = "dispatch"
        /\ worker' = [worker EXCEPT ![w] = moved("ack")]
        /\ docs' = [docs EXCEPT ![d].status = "FAILED"]
        /\ history'.overtaken = history.overtaken /\ history'.before = history.before
    BY <1>13 DEF DispatchRefused
  <2>2. docs[d].status # "none" BY <1>0, <2>1 DEF Fits, Doc
  <2>3. "FAILED" \in Statuses \ {"none"} /\ "FAILED" \notin Waiting BY DEF Statuses, Waiting
  <2> HIDE DEF d
  <2>4. RowsGoOn(docs, docs') /\ docs'[d].status = "FAILED"
    BY <1>0, <1>4, <2>1, <2>2, <2>3, OneRow
  <2> QED BY <1>5, <2>1, <2>3, <2>4
<1> QED BY <1>6, <1>7, <1>8, <1>9, <1>10, <1>11, <1>12, <1>13 DEF Process

LEMMA ExtractKeepsFate ==
  ASSUME FateInv, NEW w \in Workers, Extract(w)
  PROVE  FateInv'
<1> DEFINE d == Doc(w)
<1>0. /\ Ingested /\ Ingested' /\ worker[w] \in WorkerStates /\ queue \subseteq Messages
      /\ worker[w].pc # "idle" => worker[w].message \in Messages /\ d \in Requests
      /\ Fits(worker[w], docs, history.overtaken)
      /\ docs \in [Requests -> DocumentRows]
  BY StepExtract, WorkTypes DEF FateInv, WorkFits
<1>1. worker[w].pc \in {"begin", "graph"}
  BY DEF Extract, BeginExtraction, FinishExtraction, ExtractionFails
<1>2. /\ docs[d] \in DocumentRows /\ docs[d].status \in Statuses \ {"none"}
      /\ worker[w].message.task = "extract"
  BY <1>0, <1>1 DEF DocumentRows, Fits, Doc, Ingested, WorkHasPages, HasPages
<1>3. RowsGoOn(docs, docs) BY SameRows
<1>4. CASE BeginExtraction(w)
  <2> DEFINE state == [worker[w] EXCEPT !.pc = "graph", !.seen = docs[d].status,
                                        !.clauses = structure[d]]
  <2>1. /\ UNCHANGED <<request, docs, pages, queue, history>>
        /\ worker' = [worker EXCEPT ![w] = state]
    BY <1>4 DEF BeginExtraction, service
  <2>2. state.pc = "graph" /\ state.message = worker[w].message /\ state.seen = docs[d].status
    BY <1>0 DEF WorkerStates
  <2>3. Fits(state, docs, history.overtaken) BY <1>2, <2>2 DEF Fits, Doc
  <2> HIDE DEF state
  <2> QED BY <1>0, <1>3, <2>1, <2>3, WorkerKeepsFate
<1>5. ASSUME NEW status \in {"PROCESSED", "FAILED"}, worker[w].pc = "graph",
             docs' = [docs EXCEPT ![d].status = Written(worker[w].seen, status, @)],
             worker' = [worker EXCEPT ![w].pc = "ack"],
             UNCHANGED <<request, pages, queue, history>>
      PROVE  FateInv'
  <2> DEFINE state == [worker[w] EXCEPT !.pc = "ack"]
             written == Written(worker[w].seen, status, docs[d].status)
  <2>1. worker' = [worker EXCEPT ![w] = state] /\ docs' = [docs EXCEPT ![d].status = written]
    BY <1>0, <1>1, <1>5
  <2>2. state.pc = "ack" /\ state.message = worker[w].message BY <1>0 DEF WorkerStates
  <2>3. worker[w].seen \notin Waiting => docs[d].status \notin Waiting
    BY <1>0, <1>5 DEF Fits, Doc
  <2>4. written \in Statuses \ {"none"} /\ written \notin Waiting
    BY <1>2, <1>5, <2>3 DEF Written, Statuses, Waiting
  <2>5. Fits(state, docs', history.overtaken) BY <1>2, <2>2 DEF Fits
  <2> HIDE DEF state, written, d
  <2>6. RowsGoOn(docs, docs')
    <3>1. docs[d].file \in BOOLEAN BY <1>2 DEF DocumentRows
    <3> QED BY <1>0, <1>1, <1>2, <2>1, <2>4, <3>1, OneRow
  <2> QED BY <1>0, <1>5, <2>1, <2>5, <2>6, WorkerKeepsFate
<1>6. CASE FinishExtraction(w) BY <1>5, <1>6 DEF FinishExtraction
<1>7. CASE ExtractionFails(w) BY <1>5, <1>7 DEF ExtractionFails
<1> QED BY <1>4, <1>6, <1>7 DEF Extract

LEMMA StepFate == FateInv /\ [Next]_vars => FateInv'
<1>1. ASSUME FateInv, UNCHANGED vars PROVE FateInv'
  <2>1. Ingested' BY <1>1, StepIngested DEF FateInv
  <2>2. UNCHANGED <<request, docs, pages, queue, worker, history>> BY <1>1 DEF vars, service
  <2>3. CommittedIsDone' /\ SourceIsKnown' /\ PassedTheCheck'
    BY <1>1, <2>2, SameRows, RowsStand
  <2>4. WorkFits' BY <1>1, <2>2 DEF FateInv, WorkFits, Fits
  <2>5. SentIsQueued' BY <1>1, <2>2 DEF FateInv, SentIsQueued
  <2> QED BY <2>1, <2>3, <2>4, <2>5 DEF FateInv
<1>2. ASSUME FateInv, Next, Workers = {} PROVE FateInv'
  <2>1. ASSUME NEW m \in queue, VisibilityTimeout(m) PROVE FALSE
    BY <1>2, <2>1 DEF VisibilityTimeout, Held
  <2> QED BY <1>2, <2>1, RequestsKeepFate DEF Next
<1>3. ASSUME FateInv, Next, Workers # {} PROVE FateInv'
  BY <1>3, RequestsKeepFate, DeliveriesKeepFate, ProcessKeepsFate, ExtractKeepsFate DEF Next, Work
<1> QED BY <1>1, <1>2, <1>3
-----------------------------------------------------------------------------
(* A document that nobody will process and nobody processed was overtaken: until
   a worker has moved it, its task is in the queue (documents.py:276). *)
THEOREM UnclaimedTasksWereOvertaken == Spec => []UnclaimedWasOvertaken
<1>1. ASSUME FateInv PROVE UnclaimedWasOvertaken
  <2> SUFFICES ASSUME NEW d \in Committed, docs[d].status \in {"PENDING", "DOWNLOADED"},
                      Concerns(d) = {}, d \notin history.overtaken
               PROVE  FALSE
    BY DEF UnclaimedWasOvertaken
  <2>1. d \in Requests /\ request[d] = "done"
    BY <1>1 DEF FateInv, CommittedIsDone, Committed
  <2>2. \E m \in queue : m.task = "process" /\ m.doc = d
    BY <1>1, <2>1 DEF FateInv, SentIsQueued, Waiting
  <2> QED BY <2>2 DEF Concerns
<1> QED BY <1>1, InitFate, StepFate, PTL DEF Spec

(* Copies of a circular that came by one route were requested at the same
   time: neither was committed when the other was checked
   (documents.py:249, 319). *)
THEOREM CopiesOverlapped == Spec => []DuplicatesOverlapped
<1>1. ASSUME FateInv PROVE DuplicatesOverlapped
  <2> SUFFICES ASSUME NEW d \in Committed, NEW e \in Committed, d # e,
                      docs[d].source = docs[e].source, <<d, e>> \in history.before
               PROVE  FALSE
    BY DEF DuplicatesOverlapped
  <2>1. d \in Requests /\ e \in Requests /\ request[e] = "done"
    BY <1>1 DEF FateInv, CommittedIsDone, Committed
  <2>2. CameBy(e) = docs[e].source BY <2>1 DEF CameBy
  <2> QED BY <1>1, <2>1, <2>2 DEF FateInv, PassedTheCheck
<1> QED BY <1>1, InitFate, StepFate, PTL DEF Spec
-----------------------------------------------------------------------------
(***************************************************************************)
(* What happens to the tasks of a document, for any number of requests,    *)
(* workers, clauses and faults.  TaskInv says what holds of a task that    *)
(* was never delivered again: there is one processing task and one         *)
(* extraction task of a document, each with one worker at a time, and what *)
(* it has done already shows where that worker is.                         *)
(***************************************************************************)
(* A delivery is one worker's, and its message is kept meanwhile. *)
HeldOnce ==
  \A w \in Workers : worker[w].pc # "idle" =>
    /\ worker[w].message \in queue
    /\ \A v \in Workers : worker[v].pc # "idle" /\ worker[v].message = worker[w].message => v = w

KnowsItsTask ==
  \A w \in Workers :
    /\ worker[w].pc = "idle" => worker[w] = IdleWorker
    /\ worker[w].pc \in {"load", "processing", "parse", "dispatch", "raised"} =>
         worker[w].message.task = "process"

Again(task, d) == <<task, d>> \in history.redelivered
TasksOf(task, d) == {m \in queue : m.task = task /\ m.doc = d}
Has(w, task, d) ==
  worker[w].pc # "idle" /\ worker[w].message.task = task /\ worker[w].message.doc = d

(* A processing task that was not delivered again is alone, and it finds the
   pages only where it has written them. *)
ProcessedOnce ==
  \A d \in Requests :
    /\ request[d] \in {"idle"} \union Sources => TasksOf("process", d) = {}
    /\ ~Again("process", d) =>
         /\ \A m, n \in TasksOf("process", d) : m = n
         /\ d \in pages =>
              /\ TasksOf("process", d) \subseteq Held
              /\ \A w \in Workers : Has(w, "process", d) => worker[w].pc \in {"dispatch", "ack"}

(* Extraction is sent once; not delivered again, it ends in one run. *)
Total(d) == runs[d].completed + runs[d].failed
SentOnce ==
  \A d \in Requests, w \in Workers : worker[w].pc = "dispatch" /\ Doc(w) = d =>
    /\ TasksOf("extract", d) = {} /\ Total(d) = 0
    /\ \A v \in Workers : worker[v].pc = "dispatch" /\ Doc(v) = d => v = w
ExtractedOnce ==
  \A d \in Requests : ~Again("extract", d) =>
    /\ TasksOf("extract", d) \subseteq {Message("extract", d)}
    /\ Total(d) <= 1
    /\ Total(d) > 0 =>
         /\ TasksOf("extract", d) \subseteq Held
         /\ \A w \in Workers : Has(w, "extract", d) => worker[w].pc = "ack"

RunsAreNumbered == \A o \in obligations : o.doc \in Requests /\ o.run \in 1 .. runs[o.doc].completed

TaskInv ==
  /\ Ingested /\ HeldOnce /\ KnowsItsTask /\ ProcessedOnce /\ SentOnce /\ ExtractedOnce
  /\ RunsAreNumbered /\ FailureExplained
-----------------------------------------------------------------------------
LEMMA InitTasks == Init => TaskInv
<1> SUFFICES ASSUME Init PROVE TaskInv OBVIOUS
<1>1. Ingested BY InitIngested
<1>2. \A w \in Workers : worker[w] = IdleWorker /\ worker[w].pc = "idle" BY DEF Init, IdleWorker
<1>3. HeldOnce /\ KnowsItsTask BY <1>2 DEF HeldOnce, KnowsItsTask
<1>4. \A d \in Requests : d \notin pages /\ Total(d) = 0 /\ docs[d].status = "none"
  BY DEF Init, Total
<1>5. \A d : TasksOf("process", d) = {} /\ TasksOf("extract", d) = {} BY DEF Init, TasksOf
<1>6. ProcessedOnce /\ SentOnce /\ ExtractedOnce
  BY <1>2, <1>4, <1>5 DEF ProcessedOnce, SentOnce, ExtractedOnce
<1>7. RunsAreNumbered /\ FailureExplained
  BY <1>4 DEF Init, RunsAreNumbered, FailureExplained, Committed
<1> QED BY <1>1, <1>3, <1>6, <1>7 DEF TaskInv

(* What of the work is counted. *)
Counts == <<pages, runs, obligations, reviewTasks, history.redelivered>>
Failures == {d \in Requests : docs[d].status = "FAILED"}
Blamed == {d \in Requests :
  d \notin pages \/ runs[d].failed > 0 \/ d \in history.refused \/ Again("process", d)}

LEMMA FailuresBlamed == FailureExplained <=> Failures \subseteq Blamed
BY DEF FailureExplained, Failures, Blamed, Again, Committed

(* A worker that keeps its message. *)
LEMMA KeepsMessage ==
  ASSUME TaskInv, NEW w \in Workers, NEW state, worker' = [worker EXCEPT ![w] = state],
         worker[w].pc # "idle", state.pc # "idle", state.message = worker[w].message,
         state.pc \in {"load", "processing", "parse", "dispatch", "raised"} =>
           state.message.task = "process",
         queue \subseteq queue'
  PROVE  /\ HeldOnce' /\ KnowsItsTask' /\ Held' = Held
         /\ worker'[w] = state /\ \A v \in Workers \ {w} : worker'[v] = worker[v]
         /\ \A v \in Workers : \A task, d : Has(v, task, d)' <=> Has(v, task, d)
<1>1. worker \in [Workers -> WorkerStates] BY WorkTypes DEF TaskInv
<1>2. worker'[w] = state /\ \A v \in Workers \ {w} : worker'[v] = worker[v] BY <1>1
<1>3. \A v \in Workers : worker'[v].message = worker[v].message
                         /\ (worker'[v].pc = "idle" <=> worker[v].pc = "idle")
  BY <1>2
<1>4. HeldOnce' BY <1>3 DEF TaskInv, HeldOnce
<1>5. KnowsItsTask' BY <1>2 DEF TaskInv, KnowsItsTask
<1>6. Held' = Held BY <1>3 DEF Held
<1>7. \A v \in Workers : \A task, d : Has(v, task, d)' <=> Has(v, task, d) BY <1>3 DEF Has
<1> QED BY <1>2, <1>4, <1>5, <1>6, <1>7

(* A worker that gives its message up. *)
LEMMA DropsMessage ==
  ASSUME TaskInv, NEW w \in Workers, worker' = [worker EXCEPT ![w] = IdleWorker],
         worker[w].pc # "idle", queue \ {worker[w].message} \subseteq queue'
  PROVE  /\ HeldOnce' /\ KnowsItsTask' /\ Held \ {worker[w].message} \subseteq Held'
         /\ worker'[w] = IdleWorker /\ \A v \in Workers \ {w} : worker'[v] = worker[v]
<1>1. worker \in [Workers -> WorkerStates] BY WorkTypes DEF TaskInv
<1>2. worker'[w] = IdleWorker /\ \A v \in Workers \ {w} : worker'[v] = worker[v] BY <1>1
<1>3. IdleWorker.pc = "idle" BY DEF IdleWorker
<1>4. HeldOnce' BY <1>2, <1>3 DEF TaskInv, HeldOnce
<1>5. KnowsItsTask' BY <1>2, <1>3 DEF TaskInv, KnowsItsTask
<1>6. Held \ {worker[w].message} \subseteq Held' BY <1>2 DEF Held
<1> QED BY <1>2, <1>4, <1>5, <1>6

(* A worker that goes on, while rows and tasks stay. *)
LEMMA GoesOn ==
  ASSUME TaskInv, Ingested', NEW w \in Workers, NEW state, worker' = [worker EXCEPT ![w] = state],
         worker[w].pc # "idle", state.pc \notin {"idle", "dispatch"},
         state.message = worker[w].message,
         state.pc \in {"load", "processing", "parse", "dispatch", "raised"} =>
           state.message.task = "process",
         worker[w].pc \in {"dispatch", "ack"} => state.pc = "ack",
         UNCHANGED <<request, queue, Counts>>, FailureExplained'
  PROVE  TaskInv'
<1>1. /\ HeldOnce' /\ KnowsItsTask' /\ Held' = Held
      /\ worker'[w] = state /\ \A v \in Workers \ {w} : worker'[v] = worker[v]
      /\ \A v \in Workers : \A task, d : Has(v, task, d)' <=> Has(v, task, d)
  BY KeepsMessage
<1>2. UNCHANGED <<request, queue, pages, runs, obligations>>
      /\ history'.redelivered = history.redelivered
  BY DEF Counts
<1>3. /\ \A task, d : TasksOf(task, d)' = TasksOf(task, d)
      /\ \A task, d : Again(task, d)' <=> Again(task, d)
      /\ \A d : Total(d)' = Total(d)
  BY <1>2 DEF TasksOf, Again, Total
<1>4. \A v \in Workers : worker[v].pc \in {"dispatch", "ack"} => worker'[v].pc \in {"dispatch", "ack"}
  BY <1>1
<1>5. \A v \in Workers : worker[v].pc = "ack" => worker'[v].pc = "ack"
  BY <1>1
<1>6. \A v \in Workers : worker'[v].pc = "dispatch" => worker'[v] = worker[v]
  BY <1>1
<1>7. ProcessedOnce' BY <1>1, <1>2, <1>3, <1>4 DEF TaskInv, ProcessedOnce
<1>8. SentOnce' BY <1>3, <1>6 DEF TaskInv, SentOnce, Doc
<1>9. ExtractedOnce' BY <1>1, <1>3, <1>5 DEF TaskInv, ExtractedOnce
<1>10. RunsAreNumbered' BY <1>2 DEF TaskInv, RunsAreNumbered
<1> QED BY <1>1, <1>7, <1>8, <1>9, <1>10 DEF TaskInv

LEMMA RequestsKeepTasks ==
  ASSUME FateInv, TaskInv, NEW r \in Requests,
         (\E source \in Sources : CheckDuplicate(r, source)) \/ Handle(r)
  PROVE  TaskInv'
<1>0. Ingested /\ Ingested' BY StepRequests DEF TaskInv
<1>1. /\ UNCHANGED <<worker, Counts>> /\ history'.refused = history.refused
      /\ history'.redelivered = history.redelivered
  <2>1. ASSUME NEW source \in Sources, CheckDuplicate(r, source)
        PROVE  /\ UNCHANGED <<worker, pages, runs, obligations, reviewTasks>>
               /\ history'.refused = history.refused /\ history'.redelivered = history.redelivered
    BY <2>1 DEF CheckDuplicate, service
  <2>2. CASE Handle(r)
    BY <2>2 DEF Handle, SendProcess, CommitRequest, RequestFails, service, Counts
  <2> QED BY <2>1, <2>2 DEF Counts
<1>2. /\ UNCHANGED <<pages, runs, obligations>>
      /\ \A d : Total(d)' = Total(d)
      /\ \A task, d : Again(task, d)' <=> Again(task, d)
      /\ \A v \in Workers : \A task, d : Has(v, task, d)' <=> Has(v, task, d)
      /\ Held' = Held
  BY <1>1 DEF Counts, Total, Again, Has, Held
<1>3. /\ request \in [Requests -> Sources \union {"idle", "sent url", "sent upload", "done", "refused"}]
      /\ docs \in [Requests -> DocumentRows]
  BY <1>0 DEF Ingested, TypeOK, DocumentRows
<1>4. \A d \in Requests : request'[d] \in {"idle"} \union Sources =>
        request[d] \in {"idle"} \union Sources /\ (d = r => queue' = queue)
  BY <1>3 DEF CheckDuplicate, Handle, SendProcess, CommitRequest, RequestFails, Sources
<1>5. queue' = queue \/ (queue' = queue \union {Message("process", r)} /\ request[r] \in Sources)
  BY DEF CheckDuplicate, Handle, SendProcess, CommitRequest, RequestFails
<1>6. Message("process", r).task = "process" /\ Message("process", r).doc = r BY DEF Message
<1>7. /\ \A d : TasksOf("extract", d)' = TasksOf("extract", d)
      /\ \A d : d # r => TasksOf("process", d)' = TasksOf("process", d)
      /\ queue' = queue \/ TasksOf("process", r)' = TasksOf("process", r) \union {Message("process", r)}
      /\ queue' = queue => TasksOf("process", r)' = TasksOf("process", r)
  BY <1>5, <1>6 DEF TasksOf
<1>8. HeldOnce' /\ KnowsItsTask' BY <1>1, <1>5 DEF TaskInv, HeldOnce, KnowsItsTask
<1>9. ASSUME queue' # queue PROVE TasksOf("process", r) = {} /\ r \notin pages
  BY <1>5, <1>9 DEF TaskInv, ProcessedOnce, FateInv, CommittedIsDone, Committed, Sources
<1>10. ProcessedOnce'
  <2> SUFFICES ASSUME NEW d \in Requests
               PROVE  /\ request'[d] \in {"idle"} \union Sources => TasksOf("process", d)' = {}
                      /\ ~Again("process", d)' =>
                           /\ \A m, n \in TasksOf("process", d)' : m = n
                           /\ d \in pages' =>
                                /\ TasksOf("process", d)' \subseteq Held'
                                /\ \A w \in Workers : Has(w, "process", d)' =>
                                     worker'[w].pc \in {"dispatch", "ack"}
    BY DEF ProcessedOnce
  <2>1. CASE TasksOf("process", d)' = TasksOf("process", d)
    BY <1>1, <1>2, <1>4, <2>1 DEF TaskInv, ProcessedOnce
  <2>2. CASE d = r /\ queue' # queue
    BY <1>2, <1>4, <1>7, <1>9, <2>2
  <2> QED BY <1>7, <2>1, <2>2
<1>11. SentOnce' BY <1>1, <1>2, <1>7 DEF TaskInv, SentOnce, Doc
<1>12. ExtractedOnce' BY <1>1, <1>2, <1>7 DEF TaskInv, ExtractedOnce
<1>13. RunsAreNumbered' BY <1>2 DEF TaskInv, RunsAreNumbered
<1>14. FailureExplained'
  <2>1. \A d \in Requests : docs'[d].status = "FAILED" => docs[d].status = "FAILED"
    <3>1. CASE CommitRequest(r)
      <4>1. \A d \in Requests : d # r => docs'[d] = docs[d] BY <1>3, <3>1 DEF CommitRequest
      <4>2. docs'[r].status # "FAILED" BY <1>3, <3>1 DEF CommitRequest
      <4> QED BY <4>1, <4>2
    <3>2. CASE docs' = docs BY <3>2
    <3> QED BY <3>1, <3>2 DEF CheckDuplicate, Handle, SendProcess, RequestFails, service
  <2>2. Failures' \subseteq Failures /\ Blamed' = Blamed
    BY <1>1, <1>2, <2>1 DEF Failures, Blamed
  <2> QED BY <2>2, FailuresBlamed DEF TaskInv, FailureExplained, Failures, Blamed, Again, Committed
<1> QED BY <1>0, <1>8, <1>10, <1>11, <1>12, <1>13, <1>14 DEF TaskInv

(* A delivery is counted among the tasks of its document. *)
LEMMA TaskOfWorker ==
  ASSUME TaskInv, NEW w \in Workers, worker[w].pc # "idle"
  PROVE  /\ worker[w].message \in queue /\ worker[w].message \in Messages /\ Doc(w) \in Requests
         /\ worker[w].message.task \in {"process", "extract"}
         /\ worker[w].message \in TasksOf(worker[w].message.task, Doc(w))
         /\ worker[w].message \in Held
         /\ worker[w].pc \in {"begin", "graph"} => worker[w].message.task = "extract"
         /\ worker[w].pc = "dispatch" => Doc(w) \in pages
<1>1. worker[w].message \in queue BY DEF TaskInv, HeldOnce
<1>2. worker[w].message \in Messages /\ Doc(w) \in Requests BY WorkTypes DEF TaskInv
<1>3. worker[w].message.task \in {"process", "extract"} BY <1>2 DEF Messages, Tasks
<1>4. worker[w].message \in TasksOf(worker[w].message.task, Doc(w)) BY <1>1 DEF TasksOf, Doc
<1>5. worker[w].message \in Held BY DEF Held
<1>6. HasPages(worker[w], pages) BY DEF TaskInv, Ingested, WorkHasPages
<1>7. /\ worker[w].pc \in {"begin", "graph"} => worker[w].message.task = "extract"
      /\ worker[w].pc = "dispatch" => Doc(w) \in pages
  BY <1>6 DEF HasPages, Doc
<1> QED BY <1>1, <1>2, <1>3, <1>4, <1>5, <1>7

(* Tasks that were only taken away from, or delivered again. *)
LEMMA FewerTasks ==
  ASSUME TaskInv, Ingested', HeldOnce', KnowsItsTask',
         UNCHANGED <<request, docs, pages, runs, obligations>>,
         history'.refused = history.refused, history.redelivered \subseteq history'.redelivered,
         \A v \in Workers : worker'[v].pc = "idle" \/ worker'[v] = worker[v],
         \A task, d : TasksOf(task, d)' # {} => TasksOf(task, d) # {},
         \A task, d : ~Again(task, d)' =>
           /\ TasksOf(task, d)' \subseteq TasksOf(task, d)
           /\ TasksOf(task, d) \subseteq Held => TasksOf(task, d)' \subseteq Held'
  PROVE  TaskInv'
<1>1. \A task, d : Again(task, d) => Again(task, d)' BY DEF Again
<1>2. /\ \A v \in Workers : worker'[v].pc \notin {"idle"} => worker'[v] = worker[v]
      /\ \A v \in Workers : \A task, d : Has(v, task, d)' => Has(v, task, d) /\ worker'[v] = worker[v]
  BY DEF Has
<1>3. ProcessedOnce' BY <1>1, <1>2 DEF TaskInv, ProcessedOnce
<1>4. \A d : Total(d)' = Total(d) BY DEF Total
<1>5. SentOnce' BY <1>2, <1>4 DEF TaskInv, SentOnce, Doc
<1>6. ExtractedOnce' BY <1>1, <1>2, <1>4 DEF TaskInv, ExtractedOnce
<1>7. RunsAreNumbered' BY DEF TaskInv, RunsAreNumbered
<1>8. FailureExplained' BY DEF TaskInv, FailureExplained, Committed
<1> QED BY <1>3, <1>5, <1>6, <1>7, <1>8 DEF TaskInv

LEMMA DeliveriesKeepTasks ==
  ASSUME TaskInv, NEW w \in Workers,
         \/ \E m \in queue : Deliver(w, m) \/ VisibilityTimeout(m)
         \/ Crash(w) \/ Acknowledge(w) \/ Retry(w) \/ GiveUp(w)
  PROVE  TaskInv'
<1>0. /\ Ingested /\ Ingested' /\ worker[w] \in WorkerStates /\ queue \subseteq Messages
      /\ worker \in [Workers -> WorkerStates]
  BY StepDeliveries, WorkTypes DEF TaskInv
<1>1. ASSUME NEW m \in queue, Deliver(w, m) PROVE TaskInv'
  <2> DEFINE state == [IdleWorker EXCEPT !.pc = FirstStep(m.task), !.message = m]
  <2>1. /\ UNCHANGED <<request, docs, pages, runs, obligations, queue, history>>
        /\ worker' = [worker EXCEPT ![w] = state] /\ worker[w].pc = "idle" /\ m \notin Held
    BY <1>1 DEF Deliver, service
  <2>2. state.pc = FirstStep(m.task) /\ state.message = m BY DEF IdleWorker
  <2>3. m.task \in {"process", "extract"} BY <1>0 DEF Messages, Tasks
  <2>4. /\ state.pc \in {"load", "begin"}
        /\ state.pc \in {"load", "processing", "parse", "dispatch", "raised"} => m.task = "process"
    BY <2>2, <2>3 DEF FirstStep
  <2> HIDE DEF state
  <2>5. worker'[w] = state /\ \A v \in Workers \ {w} : worker'[v] = worker[v] BY <1>0, <2>1
  <2>6. \A v \in Workers : worker[v].message # m BY <2>1 DEF Held
  <2>7. HeldOnce' BY <2>1, <2>2, <2>5, <2>6 DEF TaskInv, HeldOnce
  <2>8. KnowsItsTask' BY <2>2, <2>4, <2>5 DEF TaskInv, KnowsItsTask
  <2>9. /\ \A d : Total(d)' = Total(d)
        /\ \A task, d : TasksOf(task, d)' = TasksOf(task, d)
        /\ \A task, d : Again(task, d)' <=> Again(task, d)
    BY <2>1 DEF Total, TasksOf, Again
  (* The work of the documents whose task is in hand already. *)
  <2>10. ASSUME NEW task, NEW d, TasksOf(task, d) \subseteq Held
         PROVE  /\ TasksOf(task, d)' \subseteq Held'
                /\ \A v \in Workers : Has(v, task, d)' => Has(v, task, d) /\ worker'[v] = worker[v]
    <3>1. m \notin TasksOf(task, d) BY <2>1, <2>10
    <3>2. ~(m.task = task /\ m.doc = d) BY <3>1 DEF TasksOf
    <3>3. ASSUME NEW n \in TasksOf(task, d) PROVE n \in Held'
      <4>1. n \in queue /\ n # NoMessage BY <1>0 DEF TasksOf, Messages, Tasks, NoMessage
      <4>2. PICK v \in Workers : worker[v].message = n BY <2>10 DEF Held
      <4>3. worker[w].message = NoMessage BY <2>1 DEF TaskInv, KnowsItsTask, IdleWorker
      <4> QED BY <2>5, <4>1, <4>2, <4>3 DEF Held
    <3>4. \A v \in Workers : Has(v, task, d)' => v # w BY <2>2, <2>5, <3>2 DEF Has
    <3> QED BY <2>5, <2>9, <3>3, <3>4 DEF Has
  <2>11. ProcessedOnce' BY <2>1, <2>9, <2>10 DEF TaskInv, ProcessedOnce
  <2>12. SentOnce' BY <2>4, <2>5, <2>9 DEF TaskInv, SentOnce, Doc
  <2>13. ExtractedOnce' BY <2>9, <2>10 DEF TaskInv, ExtractedOnce
  <2>14. RunsAreNumbered' BY <2>1 DEF TaskInv, RunsAreNumbered
  <2>15. FailureExplained' BY <2>1 DEF TaskInv, FailureExplained, Committed
  <2> QED BY <1>0, <2>7, <2>8, <2>11, <2>12, <2>13, <2>14, <2>15 DEF TaskInv
<1>2. ASSUME NEW m \in queue, VisibilityTimeout(m) PROVE TaskInv'
  <2> DEFINE again == [m EXCEPT !.delivery = faults + 1]
  <2>1. /\ UNCHANGED <<request, docs, pages, runs, obligations, worker>>
        /\ queue' = queue \union {again} /\ history'.refused = history.refused
        /\ history'.redelivered = history.redelivered \union {<<m.task, m.doc>>}
    BY <1>2 DEF VisibilityTimeout, service
  <2>2. again.task = m.task /\ again.doc = m.doc BY <1>0 DEF Messages
  <2> HIDE DEF again
  <2>3. HeldOnce' /\ KnowsItsTask' /\ Held' = Held
    BY <2>1 DEF TaskInv, HeldOnce, KnowsItsTask, Held
  <2>4. \A task, d : TasksOf(task, d)' # {} => TasksOf(task, d) # {}
    BY <2>1, <2>2 DEF TasksOf
  <2>5. \A task, d : ~Again(task, d)' => TasksOf(task, d)' = TasksOf(task, d)
    BY <2>1, <2>2 DEF TasksOf, Again
  <2> QED BY <1>0, <2>1, <2>3, <2>4, <2>5, FewerTasks
<1>3. ASSUME worker' = [worker EXCEPT ![w] = IdleWorker], worker[w].pc # "idle",
             UNCHANGED <<request, docs, pages, runs, obligations>>,
             history'.refused = history.refused, history.redelivered \subseteq history'.redelivered,
             \/ queue' = queue /\ <<worker[w].message.task, Doc(w)>> \in history'.redelivered
             \/ queue' = queue \ {worker[w].message}
      PROVE  TaskInv'
  <2>1. /\ HeldOnce' /\ KnowsItsTask' /\ Held \ {worker[w].message} \subseteq Held'
        /\ worker'[w] = IdleWorker /\ \A v \in Workers \ {w} : worker'[v] = worker[v]
    BY <1>3, DropsMessage
  <2>2. \A v \in Workers : worker'[v].pc = "idle" \/ worker'[v] = worker[v]
    BY <2>1 DEF IdleWorker
  <2>3. \A task, d : TasksOf(task, d)' \subseteq TasksOf(task, d) BY <1>3 DEF TasksOf
  <2>4. ASSUME NEW task, NEW d, ~Again(task, d)' PROVE worker[w].message \notin TasksOf(task, d)'
    BY <1>3, <2>4 DEF TasksOf, Doc, Again
  <2> QED BY <1>0, <1>3, <2>1, <2>2, <2>3, <2>4, FewerTasks
<1>4. ASSUME Crash(w) PROVE TaskInv'
  <2>1. /\ UNCHANGED <<request, docs, pages, runs, obligations, queue>> /\ worker[w].pc # "idle"
        /\ worker' = [worker EXCEPT ![w] = IdleWorker] /\ history'.refused = history.refused
        /\ history'.redelivered = history.redelivered \union {<<worker[w].message.task, Doc(w)>>}
    BY <1>4 DEF Crash, KeptByCrash, service, Doc
  <2> QED BY <1>3, <2>1
<1>5. ASSUME Acknowledge(w) PROVE TaskInv'
  BY <1>3, <1>5 DEF Acknowledge, service
<1>6. ASSUME Retry(w) PROVE TaskInv'
  <2> DEFINE m == worker[w].message
             again == [m EXCEPT !.attempt = @ + 1]
  <2>1. /\ UNCHANGED <<request, docs, pages, runs, obligations, history>>
        /\ worker' = [worker EXCEPT ![w] = IdleWorker] /\ worker[w].pc = "raised"
        /\ queue' = (queue \ {m}) \union {again}
    BY <1>6 DEF Retry, service
  <2>a. PICK d \in Requests : d = Doc(w) BY <2>1, TaskOfWorker
  <2>2. /\ m \in Messages /\ m.task = "process" /\ m.doc = d /\ d \in Requests
        /\ m \in TasksOf("process", d) /\ Has(w, "process", d)
    BY <2>1, <2>a, TaskOfWorker DEF TaskInv, KnowsItsTask, Has, Doc
  <2>3. again.task = "process" /\ again.doc = d BY <2>2 DEF Messages
  <2> HIDE DEF again, m
  <2>4. /\ HeldOnce' /\ KnowsItsTask' /\ Held \ {m} \subseteq Held'
        /\ worker'[w] = IdleWorker /\ \A v \in Workers \ {w} : worker'[v] = worker[v]
    BY <2>1, DropsMessage DEF m
  <2>5. /\ \A v \in Workers : worker'[v].pc # "idle" => worker'[v] = worker[v]
        /\ \A v \in Workers : \A task, e : Has(v, task, e)' => Has(v, task, e) /\ worker'[v] = worker[v]
    BY <2>4 DEF Has, IdleWorker
  <2>6. /\ \A e : Total(e)' = Total(e)
        /\ \A task, e : Again(task, e)' <=> Again(task, e)
    BY <2>1 DEF Total, Again
  <2>7. /\ \A e : TasksOf("extract", e)' = TasksOf("extract", e) /\ m \notin TasksOf("extract", e)
        /\ \A e : e # d => TasksOf("process", e)' = TasksOf("process", e)
                           /\ m \notin TasksOf("process", e)
        /\ TasksOf("process", d)' = (TasksOf("process", d) \ {m}) \union {again}
    <3>1. \A e : TasksOf("extract", e)' = TasksOf("extract", e) /\ m \notin TasksOf("extract", e)
      BY <2>1, <2>2, <2>3 DEF TasksOf
    <3>2. \A e : e # d => TasksOf("process", e)' = TasksOf("process", e)
                          /\ m \notin TasksOf("process", e)
      BY <2>1, <2>2, <2>3 DEF TasksOf
    <3>3. \A n : n \in TasksOf("process", d)' <=>
                   n \in (TasksOf("process", d) \ {m}) \union {again}
      BY <2>1, <2>2, <2>3 DEF TasksOf
    <3> QED BY <3>1, <3>2, <3>3
  <2>8. \A task, e : m \notin TasksOf(task, e) /\ TasksOf(task, e) \subseteq Held =>
          TasksOf(task, e) \subseteq Held'
    BY <2>4
  <2>9. ~Again("process", d) => d \notin pages
    BY <2>1, <2>2 DEF TaskInv, ProcessedOnce
  <2>10. ASSUME NEW e \in Requests
         PROVE  /\ request'[e] \in {"idle"} \union Sources => TasksOf("process", e)' = {}
                /\ ~Again("process", e)' =>
                     /\ \A n, o \in TasksOf("process", e)' : n = o
                     /\ e \in pages' =>
                          /\ TasksOf("process", e)' \subseteq Held'
                          /\ \A v \in Workers : Has(v, "process", e)' =>
                               worker'[v].pc \in {"dispatch", "ack"}
    <3>1. CASE e = d
      <4>1. request[d] \notin {"idle"} \union Sources
        BY <2>2 DEF TaskInv, ProcessedOnce
      <4>2. ~Again("process", d) => \A n \in TasksOf("process", d) : n = m
        BY <2>2 DEF TaskInv, ProcessedOnce
      <4>3. ~Again("process", d) => \A n \in TasksOf("process", d)' : n = again
        BY <2>7, <4>2
      <4>4. request'[d] \notin {"idle"} \union Sources BY <2>1, <4>1
      <4>5. ~Again("process", d)' => ~Again("process", d) /\ d \notin pages'
        BY <2>1, <2>6, <2>9
      <4> QED BY <3>1, <4>3, <4>4, <4>5
    <3>2. CASE e # d
      BY <2>1, <2>5, <2>6, <2>7, <2>8, <3>2 DEF TaskInv, ProcessedOnce
    <3> QED BY <3>1, <3>2
  <2>11. ProcessedOnce' BY <2>10 DEF ProcessedOnce
  <2>12. SentOnce' BY <2>5, <2>6, <2>7 DEF TaskInv, SentOnce, Doc
  <2>13. ExtractedOnce' BY <2>5, <2>6, <2>7, <2>8 DEF TaskInv, ExtractedOnce
  <2>14. RunsAreNumbered' /\ FailureExplained'
    BY <2>1 DEF TaskInv, RunsAreNumbered, FailureExplained, Committed
  <2> QED BY <1>0, <2>4, <2>11, <2>12, <2>13, <2>14 DEF TaskInv
<1>7. ASSUME GiveUp(w) PROVE TaskInv'
  <2> DEFINE state == [worker[w] EXCEPT !.pc = "ack"]
  <2>1. /\ UNCHANGED <<request, docs, queue, history, Counts>> /\ worker[w].pc = "raised"
        /\ worker' = [worker EXCEPT ![w] = state]
    BY <1>7 DEF GiveUp, service, Counts
  <2>2. state.pc = "ack" /\ state.message = worker[w].message BY <1>0 DEF WorkerStates
  <2>3. FailureExplained' BY <2>1 DEF TaskInv, FailureExplained, Committed, Counts
  <2> HIDE DEF state
  <2> QED BY <1>0, <2>1, <2>2, <2>3, GoesOn
<1> QED BY <1>1, <1>2, <1>4, <1>5, <1>6, <1>7

(* One row changes: what that says of failures. *)
LEMMA OneFailure ==
  ASSUME TaskInv, NEW d \in Requests, \A e \in Requests \ {d} : docs'[e].status = docs[e].status,
         UNCHANGED <<pages, runs, history.redelivered>>, history.refused \subseteq history'.refused,
         docs'[d].status = "FAILED" =>
           \/ docs[d].status = "FAILED" \/ d \notin pages
           \/ d \in history'.refused \/ Again("process", d)
  PROVE  FailureExplained'
BY DEF TaskInv, FailureExplained, Committed, Again

LEMMA ProcessKeepsTasks ==
  ASSUME TaskInv, NEW w \in Workers, Process(w)
  PROVE  TaskInv'
<1> DEFINE moved(pc) == [worker[w] EXCEPT !.pc = pc]
<1>0. /\ Ingested /\ Ingested' /\ worker[w] \in WorkerStates /\ queue \subseteq Messages
      /\ worker \in [Workers -> WorkerStates] /\ docs \in [Requests -> DocumentRows]
  BY StepProcess, WorkTypes DEF TaskInv
<1>1. worker[w].pc \in {"load", "processing", "parse", "dispatch"}
  BY DEF Process, DocumentNotFound, LoadDocument, MarkProcessing, ProcessingFails, Structure,
         StructureConflicts, DispatchExtraction, DispatchRefused
<1>2. PICK d \in Requests : d = Doc(w) BY <1>1, TaskOfWorker
<1>3. /\ worker[w].message.task = "process" /\ worker[w].message.doc = d
      /\ Has(w, "process", d)
  BY <1>1, <1>2 DEF TaskInv, KnowsItsTask, Has, Doc
<1>4. \A pc \in PCs : moved(pc).pc = pc /\ moved(pc).message = worker[w].message
  BY <1>0 DEF WorkerStates
<1>5. {"processing", "parse", "dispatch", "raised", "ack"} \subseteq PCs BY DEF PCs
<1>6. docs[d] \in DocumentRows BY <1>0
(* A worker that goes on without inserting or sending anything. *)
<1>7. ASSUME NEW pc \in {"parse", "raised", "ack"}, worker[w].pc = "dispatch" => pc = "ack",
             worker' = [worker EXCEPT ![w] = moved(pc)], UNCHANGED <<request, queue, Counts>>,
             FailureExplained'
      PROVE  TaskInv'
  <2>1. moved(pc).pc = pc /\ moved(pc).message = worker[w].message BY <1>4, <1>5
  <2> HIDE DEF moved
  <2> QED BY <1>0, <1>1, <1>3, <1>7, <2>1, GoesOn
<1>8. CASE DocumentNotFound(w)
  <2>1. /\ UNCHANGED <<request, docs, queue, Counts>> /\ history'.refused = history.refused
        /\ worker' = [worker EXCEPT ![w] = moved("ack")]
    BY <1>8 DEF DocumentNotFound, service, Counts
  <2>2. FailureExplained' BY <2>1 DEF TaskInv, FailureExplained, Committed, Counts
  <2> QED BY <1>7, <2>1, <2>2
<1>9. CASE LoadDocument(w)
  <2> DEFINE state == [worker[w] EXCEPT !.pc = "processing", !.seen = docs[Doc(w)].status]
  <2>1. /\ UNCHANGED <<request, docs, queue, Counts>> /\ history' = history
        /\ worker' = [worker EXCEPT ![w] = state] /\ worker[w].pc = "load"
    BY <1>9 DEF LoadDocument, service, Counts
  <2>2. FailureExplained' BY <2>1 DEF TaskInv, FailureExplained, Committed, Counts
  <2>3. state.pc = "processing" /\ state.message = worker[w].message BY <1>0 DEF WorkerStates
  <2> HIDE DEF state
  <2> QED BY <1>0, <1>3, <2>1, <2>2, <2>3, GoesOn
<1>10. CASE MarkProcessing(w)
  <2> DEFINE status == Written(worker[w].seen, "PROCESSING", docs[d].status)
  <2>1. /\ UNCHANGED <<request, queue, Counts>> /\ history' = history
        /\ worker' = [worker EXCEPT ![w] = moved("parse")]
        /\ docs' = [docs EXCEPT ![d].status = status] /\ worker[w].pc = "processing"
    BY <1>0, <1>2, <1>10 DEF MarkProcessing, Counts
  <2>2. status = "FAILED" => docs[d].status = "FAILED" BY DEF Written
  <2> HIDE DEF status
  <2>3. docs'[d].status = status /\ \A e \in Requests \ {d} : docs'[e] = docs[e]
    BY <1>0, <1>6, <2>1 DEF DocumentRows
  <2>4. FailureExplained' BY <2>1, <2>2, <2>3, OneFailure DEF Counts
  <2> QED BY <1>7, <2>1, <2>4
<1>11. CASE ProcessingFails(w)
  <2>1. PICK downloaded \in BOOLEAN :
          docs' = [docs EXCEPT ![d].status = "FAILED", ![d].file = docs[d].file \/ downloaded]
    BY <1>0, <1>2, <1>11 DEF ProcessingFails, StatusOnFailure
  <2>2. /\ UNCHANGED <<request, queue, Counts>> /\ history' = history /\ worker[w].pc = "parse"
        /\ worker' = [worker EXCEPT ![w] = moved("ack")]
    BY <1>11 DEF ProcessingFails, Counts
  <2>3. \A e \in Requests \ {d} : docs'[e] = docs[e] BY <1>0, <2>1
  <2>4. d \notin pages \/ Again("process", d)
    BY <1>3, <2>2 DEF TaskInv, ProcessedOnce
  <2>5. FailureExplained' BY <2>2, <2>3, <2>4, OneFailure DEF Counts
  <2> QED BY <1>7, <2>2, <2>5
<1>12. CASE StructureConflicts(w)
  <2>1. /\ UNCHANGED <<request, docs, queue, history, Counts>> /\ worker[w].pc = "parse"
        /\ worker' = [worker EXCEPT ![w] = moved("raised")]
    BY <1>12 DEF StructureConflicts, service, Counts
  <2>2. FailureExplained' BY <2>1 DEF TaskInv, FailureExplained, Committed, Counts
  <2> QED BY <1>7, <2>1, <2>2
<1>13. CASE DispatchRefused(w)
  <2>1. /\ UNCHANGED <<request, queue, Counts>>
        /\ history'.refused = history.refused \union {d}
        /\ worker' = [worker EXCEPT ![w] = moved("ack")]
        /\ docs' = [docs EXCEPT ![d].status = "FAILED"]
    BY <1>2, <1>13 DEF DispatchRefused, Counts
  <2>2. \A e \in Requests \ {d} : docs'[e] = docs[e] BY <1>0, <2>1
  <2>3. FailureExplained' BY <2>1, <2>2, OneFailure DEF Counts
  <2> QED BY <1>7, <2>1, <2>3
(* A worker that keeps its message while the pages or the queue grow. *)
<1>14. CASE Structure(w)
  <2>1. /\ UNCHANGED <<request, runs, obligations, queue, history>> /\ worker[w].pc = "parse"
        /\ worker' = [worker EXCEPT ![w] = moved("dispatch")]
        /\ pages' = pages \union {d} /\ d \notin pages
        /\ docs' = [docs EXCEPT ![d].status = "STRUCTURED", ![d].file = TRUE]
    BY <1>2, <1>14 DEF Structure, PagesExist
  <2>2. moved("dispatch").pc = "dispatch" /\ moved("dispatch").message = worker[w].message
    BY <1>4, <1>5
  <2> HIDE DEF moved
  <2>3. /\ HeldOnce' /\ KnowsItsTask' /\ Held' = Held
        /\ worker'[w] = moved("dispatch") /\ \A v \in Workers \ {w} : worker'[v] = worker[v]
        /\ \A v \in Workers : \A task, e : Has(v, task, e)' <=> Has(v, task, e)
    BY <1>3, <2>1, <2>2, KeepsMessage
  <2>4. /\ \A task, e : TasksOf(task, e)' = TasksOf(task, e)
        /\ \A task, e : Again(task, e)' <=> Again(task, e)
        /\ \A e : Total(e)' = Total(e)
    BY <2>1 DEF TasksOf, Again, Total
  <2>5. TasksOf("extract", d) = {} /\ Total(d) = 0
    <3>1. TasksOf("extract", d) = {} BY <1>0, <2>1 DEF Ingested, TasksHavePages, TasksOf
    <3>2. Total(d) \in Nat
      <4>1. runs[d] \in [completed : Nat, failed : Nat] BY <1>0 DEF Ingested, TypeOK
      <4> QED BY <4>1 DEF Total
    <3>3. ~(Total(d) > 0) BY <1>0, <2>1 DEF Ingested, RunsHavePages, Total
    <3> QED BY <3>1, <3>2, <3>3
  <2>6. \A v \in Workers : worker[v].pc = "dispatch" => Doc(v) # d
    BY <2>1, TaskOfWorker
  <2>7. ASSUME NEW e \in Requests
        PROVE  /\ request'[e] \in {"idle"} \union Sources => TasksOf("process", e)' = {}
               /\ ~Again("process", e)' =>
                    /\ \A m, n \in TasksOf("process", e)' : m = n
                    /\ e \in pages' =>
                         /\ TasksOf("process", e)' \subseteq Held'
                         /\ \A v \in Workers : Has(v, "process", e)' =>
                              worker'[v].pc \in {"dispatch", "ack"}
    <3>1. /\ request'[e] \in {"idle"} \union Sources => TasksOf("process", e)' = {}
          /\ ~Again("process", e)' => \A m, n \in TasksOf("process", e)' : m = n
      BY <2>1, <2>4 DEF TaskInv, ProcessedOnce
    <3>2. CASE e # d
      <4>1. \A v \in Workers : Has(v, "process", e) => v # w BY <1>3, <3>2 DEF Has
      <4> QED BY <2>1, <2>3, <2>4, <3>1, <3>2, <4>1 DEF TaskInv, ProcessedOnce
    <3>3. CASE e = d /\ ~Again("process", d)
      <4>1. worker[w].message \in TasksOf("process", d) /\ worker[w].message \in Held
        BY <1>1, <1>2, <1>3, TaskOfWorker
      <4>2. \A m \in TasksOf("process", d) : m = worker[w].message
        BY <3>3, <4>1 DEF TaskInv, ProcessedOnce
      <4>3. ASSUME NEW v \in Workers, Has(v, "process", d) PROVE v = w
        <5>1. worker[v].message = worker[w].message
          BY <4>2, <4>3, TaskOfWorker DEF Has, Doc
        <5> QED BY <1>1, <4>3, <5>1 DEF TaskInv, HeldOnce, Has
      <4> QED BY <2>2, <2>3, <2>4, <3>1, <3>3, <4>1, <4>2, <4>3
    <3> QED BY <2>4, <3>1, <3>2, <3>3
  <2>8. ProcessedOnce' BY <2>7 DEF ProcessedOnce
  <2>9. SentOnce'
    <3>1. Doc(w)' = d BY <1>3, <2>2, <2>3 DEF Doc
    <3>2. \A v \in Workers \ {w} : Doc(v)' = Doc(v) BY <2>3 DEF Doc
    <3> QED BY <2>3, <2>4, <2>5, <2>6, <3>1, <3>2 DEF TaskInv, SentOnce
  <2>10. ExtractedOnce'
    <3>1. \A v \in Workers : \A e : Has(v, "extract", e) => v # w BY <1>3 DEF Has
    <3> QED BY <2>3, <2>4, <3>1 DEF TaskInv, ExtractedOnce
  <2>11. RunsAreNumbered' BY <2>1 DEF TaskInv, RunsAreNumbered
  <2>12. FailureExplained'
    <3>1. docs'[d].status = "STRUCTURED" /\ \A e \in Requests \ {d} : docs'[e] = docs[e]
      BY <1>0, <1>6, <2>1 DEF DocumentRows
    <3> QED BY <2>1, <3>1 DEF TaskInv, FailureExplained, Committed
  <2> QED BY <1>0, <2>3, <2>8, <2>9, <2>10, <2>11, <2>12 DEF TaskInv
<1>15. CASE DispatchExtraction(w)
  <2>1. /\ UNCHANGED <<request, docs, Counts, history>> /\ worker[w].pc = "dispatch"
        /\ worker' = [worker EXCEPT ![w] = moved("ack")]
        /\ queue' = queue \union {Message("extract", d)}
    BY <1>2, <1>15 DEF DispatchExtraction, ExtractionTasks, service, Counts
  <2>2. moved("ack").pc = "ack" /\ moved("ack").message = worker[w].message
    BY <1>4, <1>5
  <2> HIDE DEF moved
  <2>3. /\ HeldOnce' /\ KnowsItsTask' /\ Held' = Held
        /\ worker'[w] = moved("ack") /\ \A v \in Workers \ {w} : worker'[v] = worker[v]
        /\ \A v \in Workers : \A task, e : Has(v, task, e)' <=> Has(v, task, e)
    BY <1>3, <2>1, <2>2, KeepsMessage
  <2>4. UNCHANGED <<pages, runs, obligations>> BY <2>1 DEF Counts
  <2>5. Message("extract", d).task = "extract" /\ Message("extract", d).doc = d BY DEF Message
  <2>6. /\ \A e : TasksOf("process", e)' = TasksOf("process", e)
        /\ \A e : e # d => TasksOf("extract", e)' = TasksOf("extract", e)
        /\ TasksOf("extract", d)' = TasksOf("extract", d) \union {Message("extract", d)}
    BY <2>1, <2>5 DEF TasksOf
  <2>7. /\ \A task, e : Again(task, e)' <=> Again(task, e)
        /\ \A e : Total(e)' = Total(e)
    BY <2>1, <2>4 DEF Again, Total
  <2>8. /\ TasksOf("extract", d) = {} /\ Total(d) = 0
        /\ \A v \in Workers : worker[v].pc = "dispatch" /\ Doc(v) = d => v = w
    BY <1>2, <2>1 DEF TaskInv, SentOnce
  <2>9. \A v \in Workers : worker[v].pc \in {"dispatch", "ack"} => worker'[v].pc \in {"dispatch", "ack"}
    BY <2>2, <2>3
  <2>10. ProcessedOnce' BY <2>1, <2>3, <2>4, <2>6, <2>7, <2>9 DEF TaskInv, ProcessedOnce
  <2>11. SentOnce'
    <3>1. \A v \in Workers : worker'[v].pc = "dispatch" => worker'[v] = worker[v] /\ v # w
      BY <2>2, <2>3
    <3>2. \A v \in Workers : worker'[v].pc = "dispatch" => Doc(v)' = Doc(v) /\ Doc(v) # d
      BY <2>8, <3>1 DEF Doc
    <3> QED BY <2>6, <2>7, <3>1, <3>2 DEF TaskInv, SentOnce
  <2>12. ExtractedOnce'
    <3>1. \A v \in Workers : worker[v].pc = "ack" => worker'[v].pc = "ack" BY <2>2, <2>3
    <3> QED BY <2>3, <2>6, <2>7, <2>8, <3>1 DEF TaskInv, ExtractedOnce
  <2>13. RunsAreNumbered' /\ FailureExplained'
    BY <2>1, <2>4 DEF TaskInv, RunsAreNumbered, FailureExplained, Committed
  <2> QED BY <1>0, <2>3, <2>10, <2>11, <2>12, <2>13 DEF TaskInv
<1> QED BY <1>8, <1>9, <1>10, <1>11, <1>12, <1>13, <1>14, <1>15 DEF Process

LEMMA ExtractKeepsTasks ==
  ASSUME TaskInv, NEW w \in Workers, Extract(w)
  PROVE  TaskInv'
<1> DEFINE finished == [worker[w] EXCEPT !.pc = "ack"]
<1>0. /\ Ingested /\ Ingested' /\ worker[w] \in WorkerStates /\ queue \subseteq Messages
      /\ worker \in [Workers -> WorkerStates] /\ docs \in [Requests -> DocumentRows]
      /\ runs \in [Requests -> RunCounts]
  BY StepExtract, WorkTypes DEF TaskInv, Ingested, TypeOK, RunCounts
<1>1. worker[w].pc \in {"begin", "graph"}
  BY DEF Extract, BeginExtraction, FinishExtraction, ExtractionFails
<1>2. PICK d \in Requests : d = Doc(w) BY <1>1, TaskOfWorker
<1>3. /\ worker[w].message.task = "extract" /\ worker[w].message.doc = d
      /\ Has(w, "extract", d) /\ worker[w].message \in TasksOf("extract", d)
      /\ worker[w].message \in Held
  BY <1>1, <1>2, TaskOfWorker DEF Has, Doc
<1>4. finished.pc = "ack" /\ finished.message = worker[w].message BY <1>0 DEF WorkerStates
<1>5. docs[d] \in DocumentRows /\ runs[d] \in RunCounts BY <1>0
<1>6. CASE BeginExtraction(w)
  <2> DEFINE state == [worker[w] EXCEPT !.pc = "graph", !.seen = docs[Doc(w)].status,
                                        !.clauses = structure[Doc(w)]]
  <2>1. /\ UNCHANGED <<request, docs, queue, history, Counts>>
        /\ worker' = [worker EXCEPT ![w] = state]
    BY <1>6 DEF BeginExtraction, service, Counts
  <2>2. FailureExplained' BY <2>1 DEF TaskInv, FailureExplained, Committed, Counts
  <2>3. state.pc = "graph" /\ state.message = worker[w].message BY <1>0 DEF WorkerStates
  <2> HIDE DEF state
  <2> QED BY <1>0, <1>1, <2>1, <2>2, <2>3, GoesOn
(* A run ends: the only one there is, unless the task was delivered again. *)
<1>7. ASSUME worker[w].pc = "graph", worker' = [worker EXCEPT ![w] = finished],
             UNCHANGED <<request, queue, pages, history>>,
             NEW count \in RunCounts, runs' = [runs EXCEPT ![d] = count],
             count.completed + count.failed = Total(d) + 1,
             RunsAreNumbered', FailureExplained'
      PROVE  TaskInv'
  <2> HIDE DEF finished
  <2>1. /\ HeldOnce' /\ KnowsItsTask' /\ Held' = Held
        /\ worker'[w] = finished /\ \A v \in Workers \ {w} : worker'[v] = worker[v]
        /\ \A v \in Workers : \A task, e : Has(v, task, e)' <=> Has(v, task, e)
    BY <1>4, <1>7, KeepsMessage
  <2>2. /\ \A task, e : TasksOf(task, e)' = TasksOf(task, e)
        /\ \A task, e : Again(task, e)' <=> Again(task, e)
    BY <1>7 DEF TasksOf, Again
  <2>3. Total(d)' = Total(d) + 1 /\ \A e \in Requests \ {d} : Total(e)' = Total(e)
    BY <1>0, <1>7 DEF Total
  <2>4. Total(d) \in Nat BY <1>5 DEF Total, RunCounts
  <2>5. ProcessedOnce'
    <3>1. \A v \in Workers : \A e : Has(v, "process", e) => v # w BY <1>3 DEF Has
    <3> QED BY <1>7, <2>1, <2>2, <3>1 DEF TaskInv, ProcessedOnce
  <2>6. SentOnce'
    <3>1. \A v \in Workers : worker'[v].pc = "dispatch" => worker'[v] = worker[v]
      BY <1>4, <2>1
    <3>2. \A v \in Workers : worker[v].pc = "dispatch" => Doc(v) # d
      BY <1>3 DEF TaskInv, SentOnce
    <3>3. \A v \in Workers : worker'[v].pc = "dispatch" => Doc(v)' = Doc(v) BY <3>1 DEF Doc
    <3> QED BY <2>2, <2>3, <3>1, <3>2, <3>3 DEF TaskInv, SentOnce
  <2>7. ASSUME NEW e \in Requests, ~Again("extract", e)'
        PROVE  /\ TasksOf("extract", e)' \subseteq {Message("extract", e)}
               /\ Total(e)' <= 1
               /\ Total(e)' > 0 =>
                    /\ TasksOf("extract", e)' \subseteq Held'
                    /\ \A v \in Workers : Has(v, "extract", e)' => worker'[v].pc = "ack"
    <3>0. /\ TasksOf("extract", e) \subseteq {Message("extract", e)}
          /\ Total(e) <= 1
          /\ Total(e) > 0 =>
               /\ TasksOf("extract", e) \subseteq Held
               /\ \A v \in Workers : Has(v, "extract", e) => worker[v].pc = "ack"
      BY <2>2, <2>7 DEF TaskInv, ExtractedOnce
    <3>1. CASE e # d
      <4>1. \A v \in Workers : Has(v, "extract", e) => v # w BY <1>3, <3>1 DEF Has
      <4> QED BY <2>1, <2>2, <2>3, <3>0, <3>1, <4>1
    <3>2. CASE e = d
      <4>1. Total(d) = 0 BY <1>3, <1>7, <2>4, <3>0, <3>2
      <4>2. \A m \in TasksOf("extract", d) : m = worker[w].message BY <1>3, <3>0, <3>2
      <4>3. ASSUME NEW v \in Workers, Has(v, "extract", d) PROVE v = w
        <5>1. worker[v].message = worker[w].message
          BY <4>2, <4>3, TaskOfWorker DEF Has, Doc
        <5> QED BY <1>1, <4>3, <5>1 DEF TaskInv, HeldOnce, Has
      <4> QED BY <1>3, <1>4, <2>1, <2>2, <2>3, <3>0, <3>2, <4>1, <4>2, <4>3
    <3> QED BY <3>1, <3>2
  <2>8. ExtractedOnce' BY <2>7 DEF ExtractedOnce
  <2> QED BY <1>0, <1>7, <2>1, <2>5, <2>6, <2>8 DEF TaskInv
<1>8. CASE FinishExtraction(w)
  <2> DEFINE run == runs[d].completed + 1
             count == [runs[d] EXCEPT !.completed = run]
             written == Written(worker[w].seen, "PROCESSED", docs[d].status)
  <2>1. /\ UNCHANGED <<request, queue, pages, history>> /\ worker[w].pc = "graph"
        /\ worker' = [worker EXCEPT ![w] = finished]
        /\ runs' = [runs EXCEPT ![d] = count]
        /\ docs' = [docs EXCEPT ![d].status = written]
    BY <1>0, <1>2, <1>8 DEF FinishExtraction
  <2>2. \A o \in obligations' : o \in obligations \/ (o.doc = d /\ o.run = run)
    BY <1>2, <1>8 DEF FinishExtraction, Obligation
  <2>3. /\ count \in RunCounts /\ count.completed = run /\ count.failed = runs[d].failed
        /\ count.completed + count.failed = Total(d) + 1 /\ run \in Nat /\ runs[d].completed \in Nat
    BY <1>5 DEF RunCounts, Total
  <2>4. written = "FAILED" => docs[d].status = "FAILED" BY DEF Written
  <2>5. /\ docs'[d].status = written /\ \A e \in Requests \ {d} : docs'[e] = docs[e]
    BY <1>0, <1>5, <2>1 DEF DocumentRows
  <2> HIDE DEF count, written
  <2>6. runs'[d] = count /\ \A e \in Requests \ {d} : runs'[e] = runs[e] BY <1>0, <2>1
  <2>7. RunsAreNumbered'
    <3>1. ASSUME NEW o \in obligations' PROVE o.doc \in Requests /\ o.run \in 1 .. runs'[o.doc].completed
      <4>1. CASE o.doc = d /\ o.run = run BY <2>3, <2>6, <4>1
      <4>2. CASE o \in obligations
        <5>1. o.doc \in Requests /\ o.run \in 1 .. runs[o.doc].completed
          BY <4>2 DEF TaskInv, RunsAreNumbered
        <5>2. CASE o.doc = d BY <2>3, <2>6, <5>1, <5>2
        <5>3. CASE o.doc # d BY <2>6, <5>1, <5>3
        <5> QED BY <5>2, <5>3
      <4> QED BY <2>2, <4>1, <4>2
    <3> QED BY <3>1 DEF RunsAreNumbered
  <2>8. FailureExplained'
    BY <2>1, <2>3, <2>4, <2>5, <2>6 DEF TaskInv, FailureExplained, Committed
  <2> HIDE DEF finished
  <2> QED BY <1>7, <2>1, <2>3, <2>7, <2>8
<1>9. CASE ExtractionFails(w)
  <2> DEFINE count == [runs[d] EXCEPT !.failed = runs[d].failed + 1]
             written == Written(worker[w].seen, "FAILED", docs[d].status)
  <2>1. /\ UNCHANGED <<request, queue, pages, history, obligations>> /\ worker[w].pc = "graph"
        /\ worker' = [worker EXCEPT ![w] = finished]
        /\ runs' = [runs EXCEPT ![d] = count]
        /\ docs' = [docs EXCEPT ![d].status = written]
    BY <1>0, <1>2, <1>9 DEF ExtractionFails, FailedRun
  <2>2. /\ count \in RunCounts /\ count.completed = runs[d].completed /\ count.failed > 0
        /\ count.completed + count.failed = Total(d) + 1
    BY <1>5 DEF RunCounts, Total
  <2>3. \A e \in Requests \ {d} : docs'[e] = docs[e] BY <1>0, <2>1
  <2> HIDE DEF count, written
  <2>4. runs'[d] = count /\ \A e \in Requests \ {d} : runs'[e] = runs[e] BY <1>0, <2>1
  <2>5. RunsAreNumbered' BY <2>1, <2>2, <2>4 DEF TaskInv, RunsAreNumbered
  <2>6. FailureExplained' BY <2>1, <2>2, <2>3, <2>4 DEF TaskInv, FailureExplained, Committed
  <2> HIDE DEF finished
  <2> QED BY <1>7, <2>1, <2>2, <2>5, <2>6
<1> QED BY <1>6, <1>8, <1>9 DEF Extract

LEMMA StepTasks == FateInv /\ TaskInv /\ [Next]_vars => TaskInv'
<1>1. ASSUME TaskInv, UNCHANGED vars PROVE TaskInv'
  <2>1. Ingested' BY <1>1, StepIngested DEF TaskInv
  <2>2. UNCHANGED <<request, docs, pages, runs, obligations, queue, worker, history>>
    BY <1>1 DEF vars, service
  <2>3. /\ HeldOnce' /\ KnowsItsTask'
        /\ \A task, d : TasksOf(task, d)' = TasksOf(task, d) /\ (Again(task, d)' <=> Again(task, d))
        /\ Held' = Held
    BY <1>1, <2>2 DEF TaskInv, HeldOnce, KnowsItsTask, TasksOf, Again, Held
  <2> QED BY <1>1, <2>1, <2>2, <2>3, FewerTasks
<1>2. ASSUME FateInv, TaskInv, Next, Workers = {} PROVE TaskInv'
  <2>1. ASSUME NEW m \in queue, VisibilityTimeout(m) PROVE FALSE
    BY <1>2, <2>1 DEF VisibilityTimeout, Held
  <2> QED BY <1>2, <2>1, RequestsKeepTasks DEF Next
<1>3. ASSUME FateInv, TaskInv, Next, Workers # {} PROVE TaskInv'
  BY <1>3, RequestsKeepTasks, DeliveriesKeepTasks, ProcessKeepsTasks, ExtractKeepsTasks DEF Next, Work
<1> QED BY <1>1, <1>2, <1>3
-----------------------------------------------------------------------------
(* What FAILED means, however tasks were retried and delivered: a structured
   document is FAILED only through its extraction, a refused dispatch or a
   second delivery of its processing task (document.py:98-104). *)
THEOREM FailuresAreExplained == Spec => []FailureExplained
<1>1. TaskInv => FailureExplained BY DEF TaskInv
<1>2. FateInv /\ TaskInv /\ [Next]_vars => (FateInv /\ TaskInv)' BY StepFate, StepTasks
<1> QED BY <1>1, <1>2, InitFate, InitTasks, PTL DEF Spec

(* The obligations of a document come from at most as many runs as completed,
   and it has a second run only after its extraction task was delivered again
   (extraction.py:53). *)
THEOREM SecondRunsWereRedelivered == Spec => []CopiesWereRedelivered
<1>1. ASSUME TaskInv PROVE CopiesWereRedelivered
  <2> SUFFICES ASSUME NEW d \in Requests
               PROVE  /\ Cardinality({o.run : o \in {o \in obligations : o.doc = d}})
                           <= runs[d].completed
                      /\ runs[d].completed + runs[d].failed > 1 =>
                           <<"extract", d>> \in history.redelivered
    BY DEF CopiesWereRedelivered
  <2> DEFINE numbers == {o.run : o \in {o \in obligations : o.doc = d}}
             n == runs[d].completed
  <2>1. runs[d] \in [completed : Nat, failed : Nat] BY <1>1 DEF TaskInv, Ingested, TypeOK
  <2>2. n \in Nat /\ Total(d) \in Nat BY <2>1 DEF Total
  <2>3. numbers \subseteq 1 .. n BY <1>1 DEF TaskInv, RunsAreNumbered
  <2> HIDE DEF numbers, n
  <2>4. IsFiniteSet(1 .. n) /\ Cardinality(1 .. n) = n BY <2>2, FS_Interval
  <2>5. Cardinality(numbers) <= n BY <2>3, <2>4, FS_Subset
  <2>6. Total(d) > 1 => Again("extract", d) BY <1>1, <2>2 DEF TaskInv, ExtractedOnce
  <2> QED BY <2>5, <2>6 DEF numbers, n, Total, Again
<1>2. FateInv /\ TaskInv /\ [Next]_vars => (FateInv /\ TaskInv)' BY StepFate, StepTasks
<1> QED BY <1>1, <1>2, InitFate, InitTasks, PTL DEF Spec
-----------------------------------------------------------------------------
(***************************************************************************)
(* A document that is halfway - structured, or in processing without pages *)
(* - has a task that still has something to do, however tasks are retried, *)
(* delivered again and lost with their worker.                             *)
(***************************************************************************)
(* Each delivery of a task has one message in the queue. *)
Lineages ==
  /\ \A m \in queue : m.delivery <= faults
  /\ \A m, n \in queue : m.task = n.task /\ m.doc = n.doc /\ m.delivery = n.delivery => m = n

(* A task is retried only because the pages are there. *)
RetriesHavePages ==
  /\ \A m \in queue : m.attempt > 0 => m.doc \in pages
  /\ \A w \in Workers : worker[w].pc = "raised" => Doc(w) \in pages

(* What a worker knows of a document that is STRUCTURED: a retried task has
   seen that, and no extraction of it has ended. *)
Sees(state, status) ==
  state.pc # "idle" /\ status = "STRUCTURED" =>
    /\ state.pc = "graph" => state.seen = "STRUCTURED"
    /\ state.pc = "processing" /\ state.message.attempt > 0 => state.seen = "STRUCTURED"
    /\ state.pc \in {"parse", "raised"} => state.message.attempt = 0
    /\ state.pc = "ack" => state.message.task = "process"
SeesStructured == \A w \in Workers : Sees(worker[w], docs[Doc(w)].status)

StructuredHasPages == \A d \in Requests : docs[d].status = "STRUCTURED" => d \in pages
MarkedAgain ==
  \A d \in Requests : docs[d].status = "PROCESSING" /\ d \in pages => Again("process", d)

(* A task that is not finished: no worker is about to acknowledge it. *)
Unfinished(m) ==
  \A w \in Workers : worker[w].pc # "idle" /\ worker[w].message = m => worker[w].pc # "ack"
Halfway(d) == docs[d].status = "STRUCTURED" \/ (docs[d].status = "PROCESSING" /\ d \notin pages)
GoesFurther(d) ==
  TasksOf("extract", d) # {} \/ \E m \in TasksOf("process", d) : Unfinished(m)
HalfwayGoesFurther == \A d \in Requests : Halfway(d) => GoesFurther(d)

HalfwayInv ==
  /\ Lineages /\ RetriesHavePages /\ SeesStructured /\ StructuredHasPages
  /\ MarkedAgain /\ HalfwayGoesFurther

LEMMA InitHalfway == Init => HalfwayInv
<1> SUFFICES ASSUME Init PROVE HalfwayInv OBVIOUS
<1>1. \A w \in Workers : worker[w].pc = "idle" BY DEF Init, IdleWorker
<1>2. \A d \in Requests : docs[d].status = "none" /\ d \notin pages BY DEF Init
<1>3. Lineages /\ RetriesHavePages BY <1>1 DEF Init, Lineages, RetriesHavePages
<1>4. SeesStructured BY <1>1 DEF SeesStructured, Sees
<1> QED BY <1>2, <1>3, <1>4
        DEF HalfwayInv, StructuredHasPages, MarkedAgain, HalfwayGoesFurther, Halfway

(* A worker goes on with the task it has, and writes one row. *)
LEMMA HalfwayGoesOn ==
  ASSUME TaskInv, HalfwayInv, NEW w \in Workers, NEW state, NEW d \in Requests, d = Doc(w),
         worker' = [worker EXCEPT ![w] = state], worker[w].pc # "idle", state.pc # "idle",
         state.message = worker[w].message,
         faults' = faults, history'.redelivered = history.redelivered,
         pages \subseteq pages', \A e \in Requests \ {d} : e \in pages' => e \in pages,
         \/ queue' = queue
         \/ queue' = queue \union {Message("extract", d)} /\ TasksOf("extract", d) = {},
         \A e \in Requests \ {d} : docs'[e] = docs[e],
         docs'[d].status = "STRUCTURED" =>
           docs[d].status = "STRUCTURED" \/ (d \notin pages /\ d \in pages'),
         Sees(state, docs'[d].status), state.pc = "raised" => d \in pages',
         docs'[d].status = "PROCESSING" /\ d \in pages' => Again("process", d),
         docs'[d].status = "STRUCTURED" \/ (docs'[d].status = "PROCESSING" /\ d \notin pages') =>
           \/ Message("extract", d) \in queue'
           \/ state.message.task = "extract"
           \/ state.message.task = "process" /\ state.pc # "ack"
  PROVE  HalfwayInv'
<1>0. /\ worker \in [Workers -> WorkerStates] /\ queue \subseteq Messages /\ Ingested
      /\ faults \in Nat
  <2>1. worker \in [Workers -> WorkerStates] /\ queue \subseteq Messages /\ Ingested
    BY WorkTypes DEF TaskInv
  <2>2. faults \in 0 .. MaxFaults BY <2>1 DEF Ingested, TypeOK
  <2> QED BY <2>1, <2>2, IngestionAssumption
<1>1. worker'[w] = state /\ \A v \in Workers \ {w} : worker'[v] = worker[v] BY <1>0
<1>2. \A v \in Workers : worker'[v].message = worker[v].message /\ Doc(v)' = Doc(v)
  BY <1>1 DEF Doc
<1>3. /\ Message("extract", d).task = "extract" /\ Message("extract", d).doc = d
      /\ Message("extract", d).attempt = 0 /\ Message("extract", d).delivery = 0
  BY DEF Message
<1>4. worker[w].message \in queue /\ worker[w].message.doc = d
  BY DEF TaskInv, HeldOnce, Doc
<1>5. Lineages'
  <2>1. CASE queue' = queue BY <2>1 DEF HalfwayInv, Lineages
  <2>2. CASE queue' = queue \union {Message("extract", d)} /\ TasksOf("extract", d) = {}
    <3>1. \A m \in queue : ~(m.task = "extract" /\ m.doc = d) BY <2>2 DEF TasksOf
    <3> QED BY <1>0, <1>3, <2>2, <3>1 DEF HalfwayInv, Lineages
  <2> QED BY <2>1, <2>2
<1>6. RetriesHavePages'
  <2>1. \A m \in queue' : m.attempt > 0 => m.doc \in pages'
    BY <1>3 DEF HalfwayInv, RetriesHavePages
  <2>2. \A v \in Workers : worker'[v].pc = "raised" => Doc(v)' \in pages'
    BY <1>1, <1>2 DEF HalfwayInv, RetriesHavePages
  <2> QED BY <2>1, <2>2 DEF RetriesHavePages
<1>7. SeesStructured'
  <2> SUFFICES ASSUME NEW v \in Workers PROVE Sees(worker'[v], docs'[Doc(v)'].status)
    BY DEF SeesStructured, Doc
  <2>1. CASE v = w BY <1>1, <1>2, <2>1
  <2>2. CASE v # w /\ worker[v].pc = "idle" BY <1>1, <2>2 DEF Sees
  <2>3. CASE v # w /\ worker[v].pc # "idle"
    <3>1. worker'[v] = worker[v] /\ Doc(v)' = Doc(v) BY <1>1, <1>2, <2>3
    <3>2. Sees(worker[v], docs[Doc(v)].status) BY DEF HalfwayInv, SeesStructured
    <3>3. Doc(v) \in Requests /\ worker[v].message \in queue /\ worker[v].message \in Messages
      BY <2>3, TaskOfWorker
    <3>4. CASE docs'[Doc(v)].status = "STRUCTURED" => docs[Doc(v)].status = "STRUCTURED"
      BY <3>1, <3>2, <3>4 DEF Sees
    <3>5. CASE Doc(v) = d /\ d \notin pages
      <4>1. worker[v].message.attempt \in Nat /\ ~(worker[v].message.attempt > 0)
        BY <3>3, <3>5 DEF HalfwayInv, RetriesHavePages, Doc, Messages
      <4>2. worker[v].message.task # "extract"
        BY <3>3, <3>5 DEF TaskInv, Ingested, TasksHavePages, Doc
      <4>3. worker[v].pc # "graph" /\ worker[v].message.task = "process"
        BY <2>3, <4>2, TaskOfWorker
      <4> QED BY <3>1, <4>1, <4>3 DEF Sees
    <3> QED BY <3>3, <3>4, <3>5
  <2> QED BY <2>1, <2>2, <2>3
<1>8. StructuredHasPages' BY DEF HalfwayInv, StructuredHasPages
<1>9. MarkedAgain' BY DEF HalfwayInv, MarkedAgain, Again
<1>10. HalfwayGoesFurther'
  <2> SUFFICES ASSUME NEW e \in Requests, Halfway(e)' PROVE GoesFurther(e)'
    BY DEF HalfwayGoesFurther
  <2>1. queue \subseteq queue' OBVIOUS
  <2>2. CASE e = d
    <3>1. CASE Message("extract", d) \in queue' BY <1>3, <2>2, <3>1 DEF GoesFurther, TasksOf
    <3>2. CASE state.message.task = "extract"
      BY <1>4, <2>1, <2>2, <3>2 DEF GoesFurther, TasksOf
    <3>3. CASE state.message.task = "process" /\ state.pc # "ack"
      <4>1. Unfinished(state.message)'
        <5>1. \A v \in Workers : worker[v].pc # "idle" /\ worker[v].message = state.message => v = w
          BY DEF TaskInv, HeldOnce
        <5> QED BY <1>1, <3>3, <5>1 DEF Unfinished
      <4>2. state.message \in TasksOf("process", e)' BY <1>4, <2>1, <2>2, <3>3 DEF TasksOf
      <4> QED BY <4>1, <4>2 DEF GoesFurther
    <3> QED BY <2>2, <3>1, <3>2, <3>3 DEF Halfway
  <2>3. CASE e # d
    <3>1. GoesFurther(e) BY <2>3 DEF HalfwayInv, HalfwayGoesFurther, Halfway
    <3>2. CASE TasksOf("extract", e) # {} BY <2>1, <3>2 DEF GoesFurther, TasksOf
    <3>3. CASE \E m \in TasksOf("process", e) : Unfinished(m)
      <4>1. PICK m \in TasksOf("process", e) : Unfinished(m) BY <3>3
      <4>2. m \in queue' /\ m.task = "process" /\ m.doc = e /\ m # worker[w].message
        BY <1>4, <2>1, <2>3, <4>1 DEF TasksOf
      <4>3. Unfinished(m)' BY <1>1, <4>1, <4>2 DEF Unfinished
      <4> QED BY <4>2, <4>3 DEF GoesFurther, TasksOf
    <3> QED BY <3>1, <3>2, <3>3 DEF GoesFurther
  <2> QED BY <2>2, <2>3
<1> QED BY <1>5, <1>6, <1>7, <1>8, <1>9, <1>10 DEF HalfwayInv

LEMMA RequestsKeepHalfway ==
  ASSUME TaskInv, HalfwayInv, NEW r \in Requests,
         (\E source \in Sources : CheckDuplicate(r, source)) \/ Handle(r)
  PROVE  HalfwayInv'
<1>0. /\ docs \in [Requests -> DocumentRows] /\ queue \subseteq Messages /\ Ingested
      /\ faults \in Nat
  <2>1. docs \in [Requests -> DocumentRows] /\ queue \subseteq Messages /\ Ingested
    BY DEF TaskInv, Ingested, TypeOK, DocumentRows
  <2>2. faults \in 0 .. MaxFaults BY <2>1 DEF Ingested, TypeOK
  <2> QED BY <2>1, <2>2, IngestionAssumption
<1> DEFINE sent == Message("process", r)
<1>1. sent.task = "process" /\ sent.doc = r /\ sent.attempt = 0 /\ sent.delivery = 0
  BY DEF Message
<1>2. /\ UNCHANGED <<worker, pages, faults>> /\ history'.redelivered = history.redelivered
      /\ \/ queue' = queue
         \/ queue' = queue \union {sent} /\ request[r] \in Sources
      /\ \A d \in Requests : docs'[d].status \in {"STRUCTURED", "PROCESSING"} => docs'[d] = docs[d]
  <2>1. CASE CommitRequest(r)
    <3>1. \A d \in Requests \ {r} : docs'[d] = docs[d] BY <1>0, <2>1 DEF CommitRequest
    <3>2. docs'[r].status \in {"PENDING", "DOWNLOADED"} BY <1>0, <2>1 DEF CommitRequest
    <3> QED BY <2>1, <3>1, <3>2 DEF CommitRequest
  <2>2. CASE SendProcess(r) BY <2>2 DEF SendProcess, service
  <2>3. CASE RequestFails(r) BY <2>3 DEF RequestFails, service
  <2>4. CASE \E source \in Sources : CheckDuplicate(r, source)
    BY <2>4 DEF CheckDuplicate, service
  <2> QED BY <2>1, <2>2, <2>3, <2>4 DEF Handle
<1>3. request[r] \in Sources => \A m \in queue : ~(m.task = "process" /\ m.doc = r)
  BY DEF TaskInv, ProcessedOnce, TasksOf
<1> HIDE DEF sent
<1>4. Lineages' BY <1>0, <1>1, <1>2, <1>3 DEF HalfwayInv, Lineages
<1>5. RetriesHavePages' BY <1>1, <1>2 DEF HalfwayInv, RetriesHavePages, Doc
<1>6. SeesStructured'
  <2> SUFFICES ASSUME NEW w \in Workers PROVE Sees(worker'[w], docs'[Doc(w)].status)
    BY <1>2 DEF SeesStructured, Doc
  <2>1. Sees(worker[w], docs[Doc(w)].status) /\ worker'[w] = worker[w]
    BY <1>2 DEF HalfwayInv, SeesStructured
  <2>2. worker[w].pc # "idle" => Doc(w) \in Requests BY TaskOfWorker
  <2> QED BY <1>2, <2>1, <2>2 DEF Sees
<1>7. StructuredHasPages' /\ MarkedAgain'
  BY <1>2 DEF HalfwayInv, StructuredHasPages, MarkedAgain, Again
<1>8. HalfwayGoesFurther'
  <2> SUFFICES ASSUME NEW d \in Requests, Halfway(d)' PROVE GoesFurther(d)'
    BY DEF HalfwayGoesFurther
  <2>1. GoesFurther(d) BY <1>2 DEF HalfwayInv, HalfwayGoesFurther, Halfway
  <2>2. queue \subseteq queue' /\ \A m : Unfinished(m)' <=> Unfinished(m)
    BY <1>2 DEF Unfinished
  <2> QED BY <2>1, <2>2 DEF GoesFurther, TasksOf
<1> QED BY <1>4, <1>5, <1>6, <1>7, <1>8 DEF HalfwayInv

(* A task is handed over: rows and pages stay. *)
LEMMA HandedOver ==
  ASSUME TaskInv, HalfwayInv, NEW w \in Workers, NEW state,
         worker' = [worker EXCEPT ![w] = state],
         state.pc \in {"idle", "load", "begin"},
         UNCHANGED <<docs, pages>>, history.redelivered \subseteq history'.redelivered,
         Lineages', \A m \in queue' : m.attempt > 0 => m.doc \in pages,
         \A d \in Requests : Halfway(d) /\ GoesFurther(d) => GoesFurther(d)'
  PROVE  HalfwayInv'
<1>0. worker \in [Workers -> WorkerStates] BY WorkTypes DEF TaskInv
<1>1. worker'[w] = state /\ \A v \in Workers \ {w} : worker'[v] = worker[v] BY <1>0
<1>2. ASSUME NEW v \in Workers
      PROVE  /\ Sees(worker'[v], docs[worker'[v].message.doc].status)
             /\ worker'[v].pc = "raised" => worker'[v].message.doc \in pages
  <2>1. CASE v = w BY <1>1, <2>1 DEF Sees
  <2>2. CASE v # w
    BY <1>1, <2>2 DEF HalfwayInv, SeesStructured, RetriesHavePages, Doc
  <2> QED BY <2>1, <2>2
<1>3. RetriesHavePages' BY <1>2 DEF RetriesHavePages, Doc
<1>4. SeesStructured' BY <1>2 DEF SeesStructured, Doc
<1>5. StructuredHasPages' /\ MarkedAgain'
  BY DEF HalfwayInv, StructuredHasPages, MarkedAgain, Again
<1>6. HalfwayGoesFurther' BY DEF HalfwayInv, HalfwayGoesFurther, Halfway
<1> QED BY <1>3, <1>4, <1>5, <1>6 DEF HalfwayInv

LEMMA DeliveriesKeepHalfway ==
  ASSUME TaskInv, HalfwayInv, NEW w \in Workers,
         \/ \E m \in queue : Deliver(w, m)
         \/ Crash(w) \/ Acknowledge(w) \/ Retry(w)
  PROVE  HalfwayInv'
<1>0. /\ worker[w] \in WorkerStates /\ queue \subseteq Messages /\ worker \in [Workers -> WorkerStates]
      /\ Ingested /\ faults \in 0 .. MaxFaults
  BY WorkTypes DEF TaskInv, Ingested, TypeOK
<1>a. faults \in Nat BY <1>0, IngestionAssumption
<1>b. Lineages /\ RetriesHavePages BY DEF HalfwayInv
<1>c. IdleWorker.pc = "idle" BY DEF IdleWorker
<1>1. ASSUME NEW m \in queue, Deliver(w, m) PROVE HalfwayInv'
  <2> DEFINE state == [IdleWorker EXCEPT !.pc = FirstStep(m.task), !.message = m]
  <2>1. /\ UNCHANGED <<docs, pages, queue, history, faults>>
        /\ worker' = [worker EXCEPT ![w] = state]
    BY <1>1 DEF Deliver, service
  <2>2. state.pc \in {"load", "begin"} BY DEF IdleWorker, FirstStep
  <2> HIDE DEF state
  <2>3. worker'[w] = state /\ \A v \in Workers \ {w} : worker'[v] = worker[v] BY <1>0, <2>1
  <2>4. \A n : Unfinished(n) => Unfinished(n)' BY <2>2, <2>3 DEF Unfinished
  <2>5. \A d \in Requests : GoesFurther(d) => GoesFurther(d)'
    BY <2>1, <2>4 DEF GoesFurther, TasksOf
  <2>6. Lineages' /\ \A n \in queue' : n.attempt > 0 => n.doc \in pages
    BY <1>b, <2>1 DEF Lineages, RetriesHavePages
  <2> QED BY <2>1, <2>2, <2>5, <2>6, HandedOver
<1>2. ASSUME Crash(w) PROVE HalfwayInv'
  <2>1. /\ UNCHANGED <<docs, pages, queue>> /\ faults' = faults + 1
        /\ worker' = [worker EXCEPT ![w] = IdleWorker]
        /\ history.redelivered \subseteq history'.redelivered
    BY <1>2 DEF Crash, KeptByCrash, service
  <2>2. worker'[w] = IdleWorker /\ \A v \in Workers \ {w} : worker'[v] = worker[v]
    BY <1>0, <2>1
  <2>3. \A n : Unfinished(n) => Unfinished(n)' BY <1>c, <2>2 DEF Unfinished
  <2>4. \A d \in Requests : GoesFurther(d) => GoesFurther(d)'
    BY <2>1, <2>3 DEF GoesFurther, TasksOf
  <2>5. \A n \in queue : n.delivery \in Nat BY <1>0 DEF Messages
  <2>6. Lineages' /\ \A n \in queue' : n.attempt > 0 => n.doc \in pages
    BY <1>a, <1>b, <2>1, <2>5 DEF Lineages, RetriesHavePages
  <2> QED BY <1>c, <2>1, <2>4, <2>6, HandedOver
<1>3. ASSUME Acknowledge(w) PROVE HalfwayInv'
  <2> DEFINE m == worker[w].message
  <2>1. /\ UNCHANGED <<docs, pages, faults, history>> /\ queue' = queue \ {m}
        /\ worker' = [worker EXCEPT ![w] = IdleWorker] /\ worker[w].pc = "ack"
    BY <1>3 DEF Acknowledge, service
  <2>2. worker'[w] = IdleWorker /\ \A v \in Workers \ {w} : worker'[v] = worker[v]
    BY <1>0, <2>1
  <2>3. \A n : Unfinished(n) => Unfinished(n)' /\ n # m
    BY <1>c, <2>1, <2>2 DEF Unfinished
  <2>4. ASSUME NEW d \in Requests, Halfway(d), GoesFurther(d) PROVE GoesFurther(d)'
    <3>1. CASE \E n \in TasksOf("process", d) : Unfinished(n)
      BY <2>1, <2>3, <3>1 DEF GoesFurther, TasksOf
    <3>2. CASE TasksOf("extract", d) # {}
      <4>1. PICK n \in queue : n.task = "extract" /\ n.doc = d BY <3>2 DEF TasksOf
      <4>2. docs[d].status = "STRUCTURED"
        BY <2>4, <4>1 DEF TaskInv, Ingested, TasksHavePages, Halfway
      <4>3. n # m
        BY <2>1, <4>1, <4>2 DEF HalfwayInv, SeesStructured, Sees, Doc
      <4> QED BY <2>1, <4>1, <4>3 DEF GoesFurther, TasksOf
    <3> QED BY <2>4, <3>1, <3>2 DEF GoesFurther
  <2> HIDE DEF m
  <2>5. Lineages' /\ \A n \in queue' : n.attempt > 0 => n.doc \in pages
    BY <1>b, <2>1 DEF Lineages, RetriesHavePages
  <2> QED BY <1>c, <2>1, <2>4, <2>5, HandedOver
<1>4. ASSUME Retry(w) PROVE HalfwayInv'
  <2>m. PICK m : m = worker[w].message OBVIOUS
  <2>n. PICK again : again = [m EXCEPT !.attempt = @ + 1] OBVIOUS
  <2>1. /\ UNCHANGED <<docs, pages, faults, history>> /\ queue' = (queue \ {m}) \union {again}
        /\ worker' = [worker EXCEPT ![w] = IdleWorker] /\ worker[w].pc = "raised"
    BY <1>4, <2>m, <2>n DEF Retry, service
  <2>2. m \in queue /\ m \in Messages /\ m.task = "process" /\ m.doc \in pages
    BY <2>1, <2>m, TaskOfWorker DEF TaskInv, KnowsItsTask, HalfwayInv, RetriesHavePages, Doc
  <2>3. m.attempt \in Nat BY <2>2 DEF Messages
  <2>4. /\ again.task = m.task /\ again.doc = m.doc /\ again.delivery = m.delivery
        /\ again.attempt = m.attempt + 1
    BY <2>2, <2>n DEF Messages
  <2>5. worker'[w] = IdleWorker /\ \A v \in Workers \ {w} : worker'[v] = worker[v]
    BY <1>0, <2>1
  <2>6. \A v \in Workers : worker[v].pc # "idle" => worker[v].message \in queue
    BY DEF TaskInv, HeldOnce
  <2>7. again \notin queue BY <1>b, <2>2, <2>3, <2>4 DEF Lineages
  <2>8. \A n : Unfinished(n) => Unfinished(n)' BY <1>c, <2>5 DEF Unfinished
  <2>9. Unfinished(again)' BY <1>c, <2>5, <2>6, <2>7 DEF Unfinished
  <2>10. ASSUME NEW d \in Requests, GoesFurther(d) PROVE GoesFurther(d)'
    <3>1. CASE TasksOf("extract", d) # {}
      BY <2>1, <2>2, <3>1 DEF GoesFurther, TasksOf
    <3>2. CASE \E n \in TasksOf("process", d) : Unfinished(n)
      <4>1. PICK n \in TasksOf("process", d) : Unfinished(n) BY <3>2
      <4>2. CASE n = m BY <2>1, <2>2, <2>4, <2>9, <4>1, <4>2 DEF GoesFurther, TasksOf
      <4>3. CASE n # m BY <2>1, <2>8, <4>1, <4>3 DEF GoesFurther, TasksOf
      <4> QED BY <4>2, <4>3
    <3> QED BY <2>10, <3>1, <3>2 DEF GoesFurther
  <2>11. Lineages' BY <1>b, <2>1, <2>2, <2>4 DEF Lineages
  <2>12. \A n \in queue' : n.attempt > 0 => n.doc \in pages
    BY <1>b, <2>1, <2>2, <2>4 DEF RetriesHavePages
  <2> QED BY <1>c, <2>1, <2>10, <2>11, <2>12, HandedOver
<1> QED BY <1>1, <1>2, <1>3, <1>4

LEMMA TimeoutKeepsHalfway ==
  ASSUME TaskInv, HalfwayInv, NEW m \in queue, VisibilityTimeout(m) PROVE HalfwayInv'
<1> DEFINE again == [m EXCEPT !.delivery = faults + 1]
<1>0. queue \subseteq Messages /\ faults \in Nat
  <2>1. queue \subseteq Messages /\ faults \in 0 .. MaxFaults BY DEF TaskInv, Ingested, TypeOK
  <2> QED BY <2>1, IngestionAssumption
<1>1. /\ UNCHANGED <<docs, pages, worker>> /\ queue' = queue \union {again}
      /\ faults' = faults + 1 /\ history.redelivered \subseteq history'.redelivered
  BY DEF VisibilityTimeout, service
<1>2. /\ again.task = m.task /\ again.doc = m.doc /\ again.attempt = m.attempt
      /\ again.delivery = faults + 1
  BY <1>0 DEF Messages
<1>3. \A n \in queue : n.delivery \in Nat BY <1>0 DEF Messages
<1> HIDE DEF again
<1>4. Lineages' BY <1>0, <1>1, <1>2, <1>3 DEF HalfwayInv, Lineages
<1>5. RetriesHavePages' BY <1>1, <1>2 DEF HalfwayInv, RetriesHavePages, Doc
<1>6. SeesStructured' BY <1>1 DEF HalfwayInv, SeesStructured, Sees, Doc
<1>7. StructuredHasPages' /\ MarkedAgain'
  BY <1>1 DEF HalfwayInv, StructuredHasPages, MarkedAgain, Again
<1>8. HalfwayGoesFurther'
  <2>1. queue \subseteq queue' /\ \A n : Unfinished(n)' <=> Unfinished(n)
    BY <1>1 DEF Unfinished
  <2> QED BY <1>1, <2>1
          DEF HalfwayInv, HalfwayGoesFurther, GoesFurther, TasksOf, Halfway
<1> QED BY <1>4, <1>5, <1>6, <1>7, <1>8 DEF HalfwayInv

LEMMA ProcessKeepsHalfway ==
  ASSUME TaskInv, HalfwayInv, NEW w \in Workers, Process(w)
  PROVE  HalfwayInv'
<1> DEFINE moved(pc) == [worker[w] EXCEPT !.pc = pc]
<1>0. /\ worker[w] \in WorkerStates /\ worker \in [Workers -> WorkerStates]
      /\ docs \in [Requests -> DocumentRows]
  BY WorkTypes DEF TaskInv
<1>1. worker[w].pc \in {"load", "processing", "parse", "dispatch"}
  BY DEF Process, DocumentNotFound, LoadDocument, MarkProcessing, ProcessingFails, Structure,
         StructureConflicts, DispatchExtraction, DispatchRefused
<1>2. PICK d \in Requests : d = Doc(w) BY <1>1, TaskOfWorker
<1>3. /\ worker[w].message.task = "process" /\ worker[w].message.doc = d
      /\ worker[w].message \in Messages /\ Has(w, "process", d)
  BY <1>1, <1>2, TaskOfWorker DEF TaskInv, KnowsItsTask, Has, Doc
<1>4. worker[w].message.attempt \in Nat BY <1>3 DEF Messages
<1>5. \A pc \in PCs : moved(pc).pc = pc /\ moved(pc).message = worker[w].message
                      /\ moved(pc).seen = worker[w].seen
  BY <1>0 DEF WorkerStates
<1>6. {"processing", "parse", "dispatch", "raised", "ack"} \subseteq PCs BY DEF PCs
<1>7. docs[d] \in DocumentRows BY <1>0
<1>8. /\ Sees(worker[w], docs[d].status)
      /\ docs[d].status = "PROCESSING" /\ d \in pages => Again("process", d)
  BY <1>2 DEF HalfwayInv, SeesStructured, MarkedAgain
(* Rows, pages and tasks stay, or one row is written. *)
<1>9. ASSUME NEW state, worker' = [worker EXCEPT ![w] = state], state.pc \in PCs \ {"idle"},
             state.message = worker[w].message,
             UNCHANGED <<pages, queue, faults>>, history'.redelivered = history.redelivered,
             \A e \in Requests \ {d} : docs'[e] = docs[e],
             docs'[d].status = "STRUCTURED" => docs[d].status = "STRUCTURED",
             Sees(state, docs'[d].status), state.pc = "raised" => d \in pages,
             docs'[d].status = "PROCESSING" /\ d \in pages => Again("process", d),
             state.pc = "ack" => docs'[d].status \notin {"PROCESSING", "STRUCTURED"}
      PROVE  HalfwayInv'
  <2>1. /\ pages \subseteq pages' /\ \A e \in Requests \ {d} : e \in pages' => e \in pages
        /\ worker[w].pc # "idle" /\ state.pc # "idle" /\ state.message.task = "process"
        /\ queue' = queue /\ faults' = faults
    BY <1>1, <1>3, <1>9
  <2>2. /\ state.pc = "raised" => d \in pages'
        /\ docs'[d].status = "PROCESSING" /\ d \in pages' => Again("process", d)
        /\ docs'[d].status = "STRUCTURED" \/ (docs'[d].status = "PROCESSING" /\ d \notin pages')
           => state.message.task = "process" /\ state.pc # "ack"
    BY <1>9, <2>1
  <2> QED BY <1>2, <1>9, <2>1, <2>2, HalfwayGoesOn
<1>10. CASE DocumentNotFound(w)
  <2>1. /\ UNCHANGED <<docs, pages, queue, faults>> /\ history'.redelivered = history.redelivered
        /\ worker' = [worker EXCEPT ![w] = moved("ack")] /\ docs[d].status = "none"
    BY <1>2, <1>10 DEF DocumentNotFound, Committed, service
  <2>2. moved("ack").pc = "ack" /\ moved("ack").message = worker[w].message BY <1>5, <1>6
  <2> HIDE DEF moved
  <2>3. Sees(moved("ack"), docs'[d].status) BY <2>1 DEF Sees
  <2> QED BY <1>6, <1>9, <2>1, <2>2, <2>3
<1>11. CASE LoadDocument(w)
  <2> DEFINE state == [worker[w] EXCEPT !.pc = "processing", !.seen = docs[d].status]
  <2>1. /\ UNCHANGED <<docs, pages, queue, faults, history>>
        /\ worker' = [worker EXCEPT ![w] = state]
    BY <1>2, <1>11 DEF LoadDocument, service
  <2>2. state.pc = "processing" /\ state.message = worker[w].message /\ state.seen = docs[d].status
    BY <1>0 DEF WorkerStates
  <2> HIDE DEF state
  <2>3. Sees(state, docs'[d].status) BY <2>1, <2>2 DEF Sees
  <2> QED BY <1>6, <1>8, <1>9, <2>1, <2>2, <2>3
<1>12. CASE MarkProcessing(w)
  <2> DEFINE status == Written(worker[w].seen, "PROCESSING", docs[d].status)
  <2>1. /\ UNCHANGED <<pages, queue, faults, history>>
        /\ worker' = [worker EXCEPT ![w] = moved("parse")]
        /\ docs' = [docs EXCEPT ![d].status = status] /\ worker[w].pc = "processing"
    BY <1>0, <1>2, <1>12 DEF MarkProcessing
  <2>2. moved("parse").pc = "parse" /\ moved("parse").message = worker[w].message BY <1>5, <1>6
  <2>3. status = "STRUCTURED" => docs[d].status = "STRUCTURED" /\ worker[w].seen = "PROCESSING"
    BY DEF Written
  <2> HIDE DEF moved, status
  <2>4. docs'[d].status = status /\ \A e \in Requests \ {d} : docs'[e] = docs[e]
    BY <1>0, <1>7, <2>1 DEF DocumentRows
  (* A retried task has seen STRUCTURED, so it writes PROCESSING. *)
  <2>5. status = "STRUCTURED" => worker[w].message.attempt = 0
    BY <1>4, <1>8, <2>1, <2>3 DEF Sees
  <2>6. Sees(moved("parse"), docs'[d].status) BY <2>2, <2>4, <2>5 DEF Sees
  <2>7. d \in pages => Again("process", d) BY <1>3, <2>1 DEF TaskInv, ProcessedOnce
  <2> QED BY <1>6, <1>9, <2>1, <2>2, <2>3, <2>4, <2>6, <2>7
<1>13. CASE ProcessingFails(w)
  <2>1. PICK downloaded \in BOOLEAN :
          docs' = [docs EXCEPT ![d].status = "FAILED", ![d].file = docs[d].file \/ downloaded]
    BY <1>0, <1>2, <1>13 DEF ProcessingFails, StatusOnFailure
  <2>2. /\ UNCHANGED <<pages, queue, faults, history>>
        /\ worker' = [worker EXCEPT ![w] = moved("ack")]
    BY <1>13 DEF ProcessingFails
  <2>3. docs'[d].status = "FAILED" /\ \A e \in Requests \ {d} : docs'[e] = docs[e]
    BY <1>0, <1>7, <2>1 DEF DocumentRows
  <2>4. moved("ack").pc = "ack" /\ moved("ack").message = worker[w].message BY <1>5, <1>6
  <2> HIDE DEF moved
  <2>5. Sees(moved("ack"), docs'[d].status) BY <2>3 DEF Sees
  <2> QED BY <1>6, <1>9, <2>2, <2>3, <2>4, <2>5
<1>14. CASE StructureConflicts(w)
  <2>1. /\ UNCHANGED <<docs, pages, queue, faults, history>> /\ d \in pages
        /\ worker' = [worker EXCEPT ![w] = moved("raised")] /\ worker[w].pc = "parse"
    BY <1>2, <1>14 DEF StructureConflicts, PagesExist, service
  <2>2. moved("raised").pc = "raised" /\ moved("raised").message = worker[w].message
    BY <1>5, <1>6
  <2> HIDE DEF moved
  <2>3. Sees(moved("raised"), docs'[d].status) BY <1>8, <2>1, <2>2 DEF Sees
  <2> QED BY <1>6, <1>8, <1>9, <2>1, <2>2, <2>3
<1>15. CASE DispatchRefused(w)
  <2>1. /\ UNCHANGED <<pages, queue, faults>> /\ history'.redelivered = history.redelivered
        /\ worker' = [worker EXCEPT ![w] = moved("ack")]
        /\ docs' = [docs EXCEPT ![d].status = "FAILED"]
    BY <1>2, <1>15 DEF DispatchRefused
  <2>2. moved("ack").pc = "ack" /\ moved("ack").message = worker[w].message BY <1>5, <1>6
  <2> HIDE DEF moved
  <2>3. docs'[d].status = "FAILED" /\ \A e \in Requests \ {d} : docs'[e] = docs[e]
    BY <1>0, <1>7, <2>1 DEF DocumentRows
  <2>4. Sees(moved("ack"), docs'[d].status) BY <2>3 DEF Sees
  <2> QED BY <1>6, <1>9, <2>1, <2>2, <2>3, <2>4
<1>16. CASE Structure(w)
  <2>1. /\ UNCHANGED <<queue, faults, history>>
        /\ worker' = [worker EXCEPT ![w] = moved("dispatch")]
        /\ pages' = pages \union {d} /\ d \notin pages
        /\ docs' = [docs EXCEPT ![d].status = "STRUCTURED", ![d].file = TRUE]
    BY <1>2, <1>16 DEF Structure, PagesExist
  <2>2. moved("dispatch").pc = "dispatch" /\ moved("dispatch").message = worker[w].message
    BY <1>5, <1>6
  <2> HIDE DEF moved
  <2>3. docs'[d].status = "STRUCTURED" /\ \A e \in Requests \ {d} : docs'[e] = docs[e]
    BY <1>0, <1>7, <2>1 DEF DocumentRows
  <2>4. Sees(moved("dispatch"), docs'[d].status) BY <2>2 DEF Sees
  <2> QED BY <1>1, <1>2, <1>3, <2>1, <2>2, <2>3, <2>4, HalfwayGoesOn
<1>17. CASE DispatchExtraction(w)
  <2>1. /\ UNCHANGED <<docs, pages, faults, history>> /\ worker[w].pc = "dispatch"
        /\ worker' = [worker EXCEPT ![w] = moved("ack")]
        /\ queue' = queue \union {Message("extract", d)}
    BY <1>2, <1>17 DEF DispatchExtraction, ExtractionTasks, service
  <2>2. moved("ack").pc = "ack" /\ moved("ack").message = worker[w].message BY <1>5, <1>6
  <2> HIDE DEF moved
  <2>3. Sees(moved("ack"), docs'[d].status) BY <1>3, <2>2 DEF Sees
  <2>4. TasksOf("extract", d) = {} BY <1>2, <2>1 DEF TaskInv, SentOnce
  <2> QED BY <1>1, <1>2, <1>3, <1>8, <2>1, <2>2, <2>3, <2>4, HalfwayGoesOn
<1> QED BY <1>10, <1>11, <1>12, <1>13, <1>14, <1>15, <1>16, <1>17 DEF Process

(* Nobody gives a document up that is halfway. *)
LEMMA GiveUpKeepsHalfway ==
  ASSUME TaskInv, HalfwayInv, NEW w \in Workers, GiveUp(w) PROVE HalfwayInv'
<1> DEFINE state == [worker[w] EXCEPT !.pc = "ack"]
<1>0. worker[w] \in WorkerStates BY WorkTypes DEF TaskInv
<1>1. /\ UNCHANGED <<docs, pages, queue, faults, history>> /\ worker[w].pc = "raised"
      /\ worker' = [worker EXCEPT ![w] = state] /\ ~(worker[w].message.attempt < MaxRetries)
  BY DEF GiveUp, RetriesLeft, service
<1>2. state.pc = "ack" /\ state.message = worker[w].message BY <1>0 DEF WorkerStates
<1> HIDE DEF state
<1>3. PICK d \in Requests : d = Doc(w) BY <1>1, TaskOfWorker
<1>4. /\ Sees(worker[w], docs[d].status) /\ d \in pages
      /\ docs[d].status = "PROCESSING" => Again("process", d)
  BY <1>1, <1>3 DEF HalfwayInv, SeesStructured, RetriesHavePages, MarkedAgain
<1>5. docs[d].status # "STRUCTURED" BY <1>1, <1>4 DEF Sees, MaxRetries
<1>6. Sees(state, docs'[d].status) BY <1>1, <1>5 DEF Sees
<1> QED BY <1>1, <1>2, <1>3, <1>4, <1>5, <1>6, HalfwayGoesOn

LEMMA ExtractKeepsHalfway ==
  ASSUME TaskInv, HalfwayInv, NEW w \in Workers, Extract(w) PROVE HalfwayInv'
<1>0. /\ worker[w] \in WorkerStates /\ worker \in [Workers -> WorkerStates]
      /\ docs \in [Requests -> DocumentRows]
  BY WorkTypes DEF TaskInv
<1>1. worker[w].pc \in {"begin", "graph"}
  BY DEF Extract, BeginExtraction, FinishExtraction, ExtractionFails
<1>2. PICK d \in Requests : d = Doc(w) BY <1>1, TaskOfWorker
<1>3. worker[w].message.task = "extract" BY <1>1, TaskOfWorker
<1>4. docs[d] \in DocumentRows BY <1>0
<1>5. /\ Sees(worker[w], docs[d].status)
      /\ docs[d].status = "PROCESSING" /\ d \in pages => Again("process", d)
  BY <1>2 DEF HalfwayInv, SeesStructured, MarkedAgain
<1>6. CASE BeginExtraction(w)
  <2> DEFINE state == [worker[w] EXCEPT !.pc = "graph", !.seen = docs[d].status,
                                        !.clauses = structure[d]]
  <2>1. /\ UNCHANGED <<docs, pages, queue, faults, history>>
        /\ worker' = [worker EXCEPT ![w] = state]
    BY <1>2, <1>6 DEF BeginExtraction, service
  <2>2. state.pc = "graph" /\ state.message = worker[w].message /\ state.seen = docs[d].status
    BY <1>0 DEF WorkerStates
  <2> HIDE DEF state
  <2>3. Sees(state, docs'[d].status) BY <2>1, <2>2 DEF Sees
  <2> QED BY <1>1, <1>2, <1>3, <1>5, <2>1, <2>2, <2>3, HalfwayGoesOn
(* An extraction that began on a structured document writes its status. *)
<1>7. ASSUME NEW new \in {"PROCESSED", "FAILED"}, worker[w].pc = "graph",
             worker' = [worker EXCEPT ![w].pc = "ack"],
             docs' = [docs EXCEPT ![d].status = Written(worker[w].seen, new, docs[d].status)],
             UNCHANGED <<pages, queue, faults, history>>
      PROVE  HalfwayInv'
  <2> DEFINE state == [worker[w] EXCEPT !.pc = "ack"]
             status == Written(worker[w].seen, new, docs[d].status)
  <2>1. state.pc = "ack" /\ state.message = worker[w].message BY <1>0 DEF WorkerStates
  <2>2. worker' = [worker EXCEPT ![w] = state] BY <1>7
  <2>3. status \in {new, docs[d].status} /\ (status = docs[d].status \/ worker[w].seen # new)
    BY DEF Written
  <2>4. status = "STRUCTURED" => FALSE
    <3>1. docs[d].status = "STRUCTURED" => worker[w].seen = "STRUCTURED"
      BY <1>5, <1>7 DEF Sees
    <3> QED BY <3>1 DEF Written
  <2> HIDE DEF state, status
  <2>5. docs'[d].status = status /\ \A e \in Requests \ {d} : docs'[e] = docs[e]
    BY <1>0, <1>4, <1>7 DEF DocumentRows, status
  <2>6. Sees(state, docs'[d].status) BY <2>4, <2>5 DEF Sees
  <2>7. docs'[d].status = "PROCESSING" /\ d \in pages' => Again("process", d)
    BY <1>5, <1>7, <2>3, <2>5
  <2>8. /\ pages \subseteq pages' /\ \A e \in Requests \ {d} : e \in pages' => e \in pages
        /\ worker[w].pc # "idle" /\ state.pc # "idle" /\ state.pc # "raised"
        /\ state.message.task = "extract" /\ queue' = queue /\ faults' = faults
        /\ history'.redelivered = history.redelivered
    BY <1>1, <1>3, <1>7, <2>1
  <2> QED BY <1>2, <2>1, <2>2, <2>4, <2>5, <2>6, <2>7, <2>8, HalfwayGoesOn
<1>8. CASE FinishExtraction(w)
  <2>1. docs' = [docs EXCEPT ![d].status = Written(worker[w].seen, "PROCESSED", docs[d].status)]
    BY <1>0, <1>2, <1>8 DEF FinishExtraction
  <2> QED BY <1>7, <1>8, <2>1 DEF FinishExtraction
<1>9. CASE ExtractionFails(w)
  <2>1. docs' = [docs EXCEPT ![d].status = Written(worker[w].seen, "FAILED", docs[d].status)]
    BY <1>0, <1>2, <1>9 DEF ExtractionFails
  <2> QED BY <1>7, <1>9, <2>1 DEF ExtractionFails
<1> QED BY <1>6, <1>8, <1>9 DEF Extract

LEMMA StepHalfway == TaskInv /\ HalfwayInv /\ [Next]_vars => HalfwayInv'
<1>1. ASSUME TaskInv, HalfwayInv, UNCHANGED vars PROVE HalfwayInv'
  <2>1. UNCHANGED <<docs, pages, queue, worker, faults, history>> BY <1>1 DEF vars, service
  <2>2. Lineages' /\ RetriesHavePages' /\ SeesStructured' /\ StructuredHasPages' /\ MarkedAgain'
    BY <1>1, <2>1 DEF HalfwayInv, Lineages, RetriesHavePages, SeesStructured, Sees, Doc,
       StructuredHasPages, MarkedAgain, Again
  <2>3. HalfwayGoesFurther'
    BY <1>1, <2>1
       DEF HalfwayInv, HalfwayGoesFurther, Halfway, GoesFurther, TasksOf, Unfinished
  <2> QED BY <2>2, <2>3 DEF HalfwayInv
<1>2. ASSUME TaskInv, HalfwayInv, Next PROVE HalfwayInv'
  BY <1>2, RequestsKeepHalfway, DeliveriesKeepHalfway, TimeoutKeepsHalfway, ProcessKeepsHalfway,
     GiveUpKeepsHalfway, ExtractKeepsHalfway DEF Next, Work
<1> QED BY <1>1, <1>2

(* A document left halfway with no task is one in processing that had been
   structured before, and its processing task was delivered again: that delivery
   marked it PROCESSING a second time and could not insert its pages
   (document.py:65). *)
THEOREM StrandedTasksWereRedelivered == Spec => []StrandedWasRedelivered
<1>1. ASSUME HalfwayInv PROVE StrandedWasRedelivered
  <2> SUFFICES ASSUME NEW d \in Committed, docs[d].status \in {"PROCESSING", "STRUCTURED"},
                      Concerns(d) = {}
               PROVE  docs[d].status = "PROCESSING" /\ d \in pages /\ Again("process", d)
    BY DEF StrandedWasRedelivered, Again
  <2>1. ~GoesFurther(d) BY DEF Concerns, GoesFurther, TasksOf
  <2>2. d \in Requests /\ ~Halfway(d)
    BY <1>1, <2>1 DEF HalfwayInv, HalfwayGoesFurther, Committed
  <2> QED BY <1>1, <2>2 DEF HalfwayInv, MarkedAgain, Halfway
<1> QED BY <1>1, InitFate, StepFate, InitTasks, StepTasks, InitHalfway, StepHalfway, PTL DEF Spec
=============================================================================
