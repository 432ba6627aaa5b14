------------------------- MODULE DocumentIngestion -------------------------
(***************************************************************************)
(* From an ingestion request to extracted obligations: the two ingest      *)
(* routes (apps/api/routes/documents.py), the Celery tasks                 *)
(* process_document and run_extraction_workflow (apps/worker/tasks) and    *)
(* the extraction graph (packages/ai/workflows/extraction.py).  The broker *)
(* is at-least-once: tasks are acknowledged late (apps/worker/main.py), so *)
(* a worker that dies, or a visibility timeout, delivers a task again.     *)
(*                                                                         *)
(* All requests of the model are about one and the same circular.          *)
(***************************************************************************)
EXTENDS Naturals, FiniteSets

CONSTANTS
  Requests,      \* ingest requests; the document of a request bears its name
  Workers,       \* Celery worker processes
  Clauses,       \* the clauses the parser finds in the circular
  MaxFaults      \* bound on crashes and second deliveries

ASSUME IngestionAssumption == MaxFaults \in Nat

VARIABLES
  request,       \* request handlers
  docs,          \* RegulatoryDocument rows, by request
  pages,         \* documents whose DocumentPage rows exist (unique by page)
  structure,     \* how often the clauses of a document were inserted
  runs,          \* per document, how many runs COMPLETED and how many FAILED
  obligations,   \* Obligation rows: document, run, clause, status
  reviewTasks,   \* ReviewTask rows: the clause they are about, and their link
  queue,         \* tasks that are not acknowledged
  worker,        \* worker processes
  faults,        \* crashes and second deliveries so far
  history        \* what happened, for the properties only

service == <<docs, pages, structure, runs, obligations, reviewTasks>>
vars == <<request, service, queue, worker, faults, history>>
-----------------------------------------------------------------------------
Sources == {"url", "upload"}
Statuses == {"none", "PENDING", "DOWNLOADED", "PROCESSING", "STRUCTURED", "PROCESSED", "FAILED"}
MaxRetries == 3
Tasks == {"process", "extract"}
Messages ==
  [task : Tasks, doc : Requests, attempt : 0 .. MaxRetries, delivery : 0 .. MaxFaults]
Message(task, d) == [task |-> task, doc |-> d, attempt |-> 0, delivery |-> 0]

NoMessage == [task |-> "none"]
IdleWorker == [pc |-> "idle", message |-> NoMessage, seen |-> "none", clauses |-> 0]

(* What the graph makes of a clause: not an obligation (or its classification
   failed), extracted, extracted with needs_human_review, or extraction
   failed: no obligations, needs_review set. *)
Outcomes == {"other", "clear", "flagged", "failed"}
Extracted == {"clear", "flagged"}

Obligation(d, run, c, status) == [doc |-> d, run |-> run, clause |-> c, status |-> status]
NoLink == [doc |-> "none"]
ReviewTask(d, run, c, link) == [doc |-> d, run |-> run, clause |-> c, link |-> link]

Init ==
  /\ request = [r \in Requests |-> "idle"]
  /\ docs = [r \in Requests |-> [status |-> "none", source |-> "none", file |-> FALSE]]
  /\ pages = {}
  /\ structure = [r \in Requests |-> 0]
  /\ runs = [r \in Requests |-> [completed |-> 0, failed |-> 0]]
  /\ obligations = {}
  /\ reviewTasks = {}
  /\ queue = {}
  /\ worker = [w \in Workers |-> IdleWorker]
  /\ faults = 0
  /\ history = [overtaken |-> {}, redelivered |-> {}, refused |-> {}, before |-> {}]

Committed == {d \in Requests : docs[d].status # "none"}
-----------------------------------------------------------------------------
(* POST /documents/ingest/url and /ingest/upload, within one transaction. *)

(* The duplicate query: by URL, or by the SHA-256 of the content, which a
   document ingested by URL has once its download was committed. *)
DuplicatesProcessed(source) ==          \* mutant: only finished documents count
  {d \in Committed : docs[d].status = "PROCESSED"}
Duplicates(source) ==
  {d \in Committed : IF source = "url" THEN docs[d].source = "url" ELSE docs[d].file}

CheckDuplicate(r, source) ==
  /\ request[r] = "idle"
  /\ request' = [request EXCEPT ![r] =
                   IF Duplicates(source) = {} THEN source ELSE "refused"]
  /\ history' = [history EXCEPT !.before = @ \union
                   {<<d, r>> : d \in Committed}]
  /\ UNCHANGED <<service, queue, worker, faults>>

(* The row is flushed, the processing task is sent, and only then does
   get_db commit. *)
SendProcess(r) ==
  /\ request[r] \in Sources
  /\ queue' = queue \union {Message("process", r)}
  /\ request' = [request EXCEPT ![r] = IF @ = "url" THEN "sent url" ELSE "sent upload"]
  /\ UNCHANGED <<service, worker, faults, history>>

CommitRequest(r) ==
  /\ request[r] \in {"sent url", "sent upload"}
  /\ docs' = [docs EXCEPT ![r] =
       IF request[r] = "sent url"
       THEN [status |-> "PENDING", source |-> "url", file |-> FALSE]
       ELSE [status |-> "DOWNLOADED", source |-> "upload", file |-> TRUE]]
  /\ request' = [request EXCEPT ![r] = "done"]
  /\ UNCHANGED <<pages, structure, runs, obligations, reviewTasks, queue, worker, faults, history>>

(* The broker or the commit fails: the transaction is rolled back; a task
   that was sent stays sent. *)
RequestFails(r) ==
  /\ request[r] \in Sources \union {"sent url", "sent upload"}
  /\ request' = [request EXCEPT ![r] = "refused"]
  /\ UNCHANGED <<service, queue, worker, faults, history>>
-----------------------------------------------------------------------------
(* Deliveries. *)
HeldNothing == {}                       \* mutant: a delivery hides nothing
Held == {worker[w].message : w \in Workers}

FirstStep(task) == IF task = "process" THEN "load" ELSE "begin"

Deliver(w, m) ==
  /\ worker[w].pc = "idle"
  /\ m \in queue \ Held
  /\ worker' = [worker EXCEPT ![w] = [IdleWorker EXCEPT !.pc = FirstStep(m.task), !.message = m]]
  /\ UNCHANGED <<request, service, queue, faults, history>>

(* The visibility timeout of the broker passes while a worker still runs the
   task: it is queued once more, as a delivery of its own. *)
VisibilityTimeout(m) ==
  /\ m \in queue \intersect Held
  /\ faults < MaxFaults
  /\ faults' = faults + 1
  /\ queue' = queue \union {[m EXCEPT !.delivery = faults + 1]}
  /\ history' = [history EXCEPT !.redelivered = @ \union {<<m.task, m.doc>>}]
  /\ UNCHANGED <<request, service, worker>>

(* The worker process dies; its uncommitted work is lost, its task is not. *)
KeptByCrashNot(w) == queue \ {worker[w].message}     \* mutant: acknowledged early
KeptByCrash(w) == queue
Crash(w) ==
  /\ worker[w].pc # "idle"
  /\ faults < MaxFaults
  /\ faults' = faults + 1
  /\ history' = [history EXCEPT !.redelivered =
                   @ \union {<<worker[w].message.task, worker[w].message.doc>>}]
  /\ queue' = KeptByCrash(w)
  /\ worker' = [worker EXCEPT ![w] = IdleWorker]
  /\ UNCHANGED <<request, service>>

(* The task returned, or raised for the last time. *)
Acknowledge(w) ==
  /\ worker[w].pc = "ack"
  /\ queue' = queue \ {worker[w].message}
  /\ worker' = [worker EXCEPT ![w] = IdleWorker]
  /\ UNCHANGED <<request, service, faults, history>>

(* self.retry sends the task once more and acknowledges this delivery. *)
RetriesLeftOneMore(m) == m.attempt <= MaxRetries     \* mutant: off by one
RetriesLeft(m) == m.attempt < MaxRetries
Retry(w) ==
  LET m == worker[w].message IN
  /\ worker[w].pc = "raised"
  /\ RetriesLeft(m)
  /\ queue' = (queue \ {m}) \union {[m EXCEPT !.attempt = @ + 1]}
  /\ worker' = [worker EXCEPT ![w] = IdleWorker]
  /\ UNCHANGED <<request, service, faults, history>>

GiveUp(w) ==
  /\ worker[w].pc = "raised"
  /\ ~RetriesLeft(worker[w].message)
  /\ worker' = [worker EXCEPT ![w].pc = "ack"]
  /\ UNCHANGED <<request, service, queue, faults, history>>
-----------------------------------------------------------------------------
(* process_document_async. *)
Doc(w) == worker[w].message.doc

(* Only a column whose value differs from the one loaded is updated. *)
Written(seen, new, current) == IF seen = new THEN current ELSE new

DocumentNotFound(w) ==
  /\ worker[w].pc = "load"
  /\ Doc(w) \notin Committed
  /\ history' = [history EXCEPT !.overtaken = @ \union {Doc(w)}]
  /\ worker' = [worker EXCEPT ![w].pc = "ack"]
  /\ UNCHANGED <<request, service, queue, faults>>

LoadDocument(w) ==
  /\ worker[w].pc = "load"
  /\ Doc(w) \in Committed
  /\ worker' = [worker EXCEPT ![w].pc = "processing", ![w].seen = docs[Doc(w)].status]
  /\ UNCHANGED <<request, service, queue, faults, history>>

MarkProcessing(w) ==
  /\ worker[w].pc = "processing"
  /\ docs' = [docs EXCEPT ![Doc(w)].status = Written(worker[w].seen, "PROCESSING", @)]
  /\ worker' = [worker EXCEPT ![w].pc = "parse"]
  /\ UNCHANGED <<request, pages, structure, runs, obligations, reviewTasks, queue, faults, history>>

StatusOnFailureKept == "PROCESSING"     \* mutant: the handler forgets the status
StatusOnFailure == "FAILED"

(* The download, the integrity check or the parser fails; a file that was
   downloaded before that is recorded with the failure. *)
ProcessingFails(w) ==
  /\ worker[w].pc = "parse"
  /\ \E downloaded \in BOOLEAN :
       docs' = [docs EXCEPT ![Doc(w)].status = StatusOnFailure, ![Doc(w)].file = @ \/ downloaded]
  /\ worker' = [worker EXCEPT ![w].pc = "ack"]
  /\ UNCHANGED <<request, pages, structure, runs, obligations, reviewTasks, queue, faults, history>>

(* Pages and clauses of a parsed document are inserted in one commit with
   STRUCTURED. *)
PagesExistNever(d) == FALSE             \* mutant: no unique (document_id, page_number)
PagesExist(d) == d \in pages
Structure(w) ==
  /\ worker[w].pc = "parse"
  /\ ~PagesExist(Doc(w))
  /\ pages' = pages \union {Doc(w)}
  /\ structure' = [structure EXCEPT ![Doc(w)] = @ + 1]
  /\ docs' = [docs EXCEPT ![Doc(w)].status = "STRUCTURED", ![Doc(w)].file = TRUE]
  /\ worker' = [worker EXCEPT ![w].pc = "dispatch"]
  /\ UNCHANGED <<request, runs, obligations, reviewTasks, queue, faults, history>>

(* Otherwise the flush violates the unique constraint, and the commit of the
   FAILED handler raises as well: its transaction is already broken. *)
StructureConflicts(w) ==
  /\ worker[w].pc = "parse"
  /\ PagesExist(Doc(w))
  /\ worker' = [worker EXCEPT ![w].pc = "raised"]
  /\ UNCHANGED <<request, service, queue, faults, history>>

ExtractionTasksNone(d) == {}            \* mutant: extraction is never triggered
ExtractionTasks(d) == {Message("extract", d)}
DispatchExtraction(w) ==
  /\ worker[w].pc = "dispatch"
  /\ queue' = queue \union ExtractionTasks(Doc(w))
  /\ worker' = [worker EXCEPT ![w].pc = "ack"]
  /\ UNCHANGED <<request, service, faults, history>>

(* The broker refuses the task: the handler marks the document FAILED. *)
DispatchRefused(w) ==
  /\ worker[w].pc = "dispatch"
  /\ docs' = [docs EXCEPT ![Doc(w)].status = "FAILED"]
  /\ history' = [history EXCEPT !.refused = @ \union {Doc(w)}]
  /\ worker' = [worker EXCEPT ![w].pc = "ack"]
  /\ UNCHANGED <<request, pages, structure, runs, obligations, reviewTasks, queue, faults>>
-----------------------------------------------------------------------------
(* run_extraction_workflow_async: the document and its clauses are read; the
   run row stays uncommitted until the end. *)
BeginExtraction(w) ==
  /\ worker[w].pc = "begin"
  /\ worker' = [worker EXCEPT ![w].pc = "graph", ![w].seen = docs[Doc(w)].status,
                              ![w].clauses = structure[Doc(w)]]
  /\ UNCHANGED <<request, service, queue, faults, history>>

(* One row per extracted obligation; those of a clause that needs review are
   CANDIDATE and get a review task each.  obl.id is generated by the flush, so
   the task is built with obligation_id None. *)
LinkOf(d, run, c) == NoLink

StatusOf(outcome) == IF outcome = "flagged" THEN "CANDIDATE" ELSE "APPROVED"

FinishExtraction(w) ==
  LET d == Doc(w)
      run == runs[d].completed + 1
  IN
  /\ worker[w].pc = "graph"
  /\ \E result \in [Clauses -> Outcomes] :
       /\ obligations' = obligations \union
            {Obligation(d, run, c, StatusOf(result[c])) :
               c \in {c \in Clauses : worker[w].clauses > 0 /\ result[c] \in Extracted}}
       /\ reviewTasks' = reviewTasks \union
            {ReviewTask(d, run, c, LinkOf(d, run, c)) :
               c \in {c \in Clauses : worker[w].clauses > 0 /\ result[c] = "flagged"}}
  /\ runs' = [runs EXCEPT ![d].completed = run]
  /\ docs' = [docs EXCEPT ![d].status = Written(worker[w].seen, "PROCESSED", @)]
  /\ worker' = [worker EXCEPT ![w].pc = "ack"]
  /\ UNCHANGED <<request, pages, structure, queue, faults, history>>

FailedRunLost(d) == runs[d]             \* mutant: the run row is rolled back
FailedRun(d) == [runs[d] EXCEPT !.failed = @ + 1]

(* The graph raises (a missing prompt or model, its recursion limit). *)
ExtractionFails(w) ==
  LET d == Doc(w) IN
  /\ worker[w].pc = "graph"
  /\ runs' = [runs EXCEPT ![d] = FailedRun(d)]
  /\ docs' = [docs EXCEPT ![d].status = Written(worker[w].seen, "FAILED", @)]
  /\ worker' = [worker EXCEPT ![w].pc = "ack"]
  /\ UNCHANGED <<request, pages, structure, obligations, reviewTasks, queue, faults, history>>
-----------------------------------------------------------------------------
Handle(r) == SendProcess(r) \/ CommitRequest(r) \/ RequestFails(r)

Process(w) ==
  \/ DocumentNotFound(w) \/ LoadDocument(w) \/ MarkProcessing(w) \/ ProcessingFails(w)
  \/ Structure(w) \/ StructureConflicts(w) \/ DispatchExtraction(w) \/ DispatchRefused(w)

Extract(w) == BeginExtraction(w) \/ FinishExtraction(w) \/ ExtractionFails(w)

Work(w) ==
  \/ \E m \in queue : Deliver(w, m)
  \/ Process(w)
  \/ Extract(w)
  \/ Acknowledge(w)
  \/ Retry(w)
  \/ GiveUp(w)

Next ==
  \/ \E r \in Requests, source \in Sources : CheckDuplicate(r, source)
  \/ \E r \in Requests : Handle(r)
  \/ \E w \in Workers : Work(w)
  \/ \E m \in queue : VisibilityTimeout(m)
  \/ \E w \in Workers : Crash(w)

(* A request that has begun goes on, and so do the workers. *)
Fairness ==
  /\ \A r \in Requests : WF_vars(Handle(r))
  /\ \A w \in Workers : WF_vars(Work(w))

Spec == Init /\ [][Next]_vars /\ Fairness
-----------------------------------------------------------------------------
TypeOK ==
  /\ request \in [Requests -> Sources \union {"idle", "sent url", "sent upload", "done", "refused"}]
  /\ docs \in [Requests -> [status : Statuses, source : Sources \union {"none"}, file : BOOLEAN]]
  /\ pages \subseteq Requests
  /\ structure \in [Requests -> Nat]
  /\ runs \in [Requests -> [completed : Nat, failed : Nat]]
  /\ queue \subseteq Messages
  /\ worker \in [Workers ->
       [pc : {"idle", "load", "processing", "parse", "dispatch", "begin", "graph", "raised", "ack"},
        message : Messages \union {NoMessage},
        seen : Statuses, clauses : Nat]]
  /\ faults \in 0 .. MaxFaults

(* However often a processing task is delivered, the clauses of a document are
   inserted once and its extraction is dispatched at most once: only pages are
   unique, and the clauses and the dispatch hang on that (document.py:64-98). *)
StructuredOnce ==
  \A d \in Requests :
    /\ structure[d] <= 1
    /\ structure[d] = 0 =>
         /\ \A m \in queue : m.doc = d => m.task = "process"
         /\ runs[d].completed + runs[d].failed = 0

Concerns(d) == {m \in queue \union (Held \ {NoMessage}) : m.doc = d}

(* A committed document that nobody will process any more, and that was never
   processed, was overtaken: a worker took its task before the request
   committed (documents.py:276). *)
UnclaimedWasOvertaken ==
  \A d \in Committed :
    docs[d].status \in {"PENDING", "DOWNLOADED"} /\ Concerns(d) = {} => d \in history.overtaken

(* A document that stays halfway with no task left is in PROCESSING, had been
   structured before, and its processing task was delivered again
   (document.py:65). *)
StrandedWasRedelivered ==
  \A d \in Committed :
    docs[d].status \in {"PROCESSING", "STRUCTURED"} /\ Concerns(d) = {} =>
      docs[d].status = "PROCESSING" /\ d \in pages /\ <<"process", d>> \in history.redelivered

(* A FAILED document is one that could not be structured, one whose extraction
   failed, or - although it is structured - one whose extraction task the
   broker refused (document.py:98). *)
FailureExplained ==
  \A d \in Committed : docs[d].status = "FAILED" =>
    \/ d \notin pages
    \/ runs[d].failed > 0
    \/ d \in history.refused
    \/ <<"process", d>> \in history.redelivered

(* Two documents of the circular that came by the same route were requested
   at the same time: neither had been committed when the other was checked
   (documents.py:249, 319). *)
DuplicatesOverlapped ==
  \A d, e \in Committed :
    d # e /\ docs[d].source = docs[e].source => <<d, e>> \notin history.before

(* A document has several runs of obligations only if its extraction task was
   delivered again; failed runs add none. *)
CopiesWereRedelivered ==
  \A d \in Requests :
    /\ Cardinality({o.run : o \in {o \in obligations : o.doc = d}}) <= runs[d].completed
    /\ runs[d].completed + runs[d].failed > 1 => <<"extract", d>> \in history.redelivered

(* Without a crash or a second delivery every committed document that was not
   overtaken ends PROCESSED or FAILED. *)
Settles ==
  \A d \in Requests :
    docs[d].status # "none" ~>
      \/ docs[d].status \in {"PROCESSED", "FAILED"}
      \/ d \in history.overtaken
      \/ faults > 0

(* ARCHITECTURE.md: a worker crash is answered by "acks_late, idempotent
   tasks": a document's obligations are there once. *)
IdempotentTasks == \A d \in Requests : runs[d].completed <= 1

(* The graph's header: "Flag complex items for human review".  A candidate
   has a task through which a reviewer's decision reaches it. *)
FlaggedReachReviewer ==
  \A o \in obligations : o.status = "CANDIDATE" => \E t \in reviewTasks : t.link = o
=============================================================================
