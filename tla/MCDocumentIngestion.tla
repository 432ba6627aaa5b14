------------------------ MODULE MCDocumentIngestion ------------------------
(***************************************************************************)
(* Requests meet only in the duplicate query and workers only at the row   *)
(* and the tasks of one document.  Instead of the product of two requests  *)
(* and two workers, a crew is chosen at the start: both requests with one  *)
(* worker, or one request with both workers and a fault more; the others   *)
(* stay idle.                                                              *)
(***************************************************************************)
EXTENDS DocumentIngestion

CONSTANTS r1, r2, w1, w2

VARIABLE crew

Crews == {[requests |-> {r1, r2}, workers |-> {w1}, faults |-> 1],
          [requests |-> {r1}, workers |-> {w1, w2}, faults |-> 2]}

MCInit == Init /\ crew \in Crews

OnDuty ==
  /\ \A r \in Requests \ crew.requests : request'[r] = "idle"
  /\ \A w \in Workers \ crew.workers : worker'[w] = IdleWorker
  /\ faults' <= crew.faults

MCNext == Next /\ OnDuty /\ UNCHANGED crew

MCFairness ==
  /\ \A r \in Requests : WF_vars(Handle(r))
  /\ \A w \in Workers : WF_vars(w \in crew.workers /\ Work(w))

MCSpec == MCInit /\ [][MCNext]_<<vars, crew>> /\ MCFairness
=============================================================================
