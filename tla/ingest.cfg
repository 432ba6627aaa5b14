SPECIFICATION MCSpec
CONSTANTS
  r1 = r1
  r2 = r2
  w1 = w1
  w2 = w2
  Requests = {r1, r2}
  Workers = {w1, w2}
  Clauses = {c1}
  MaxFaults = 2
INVARIANTS TypeOK StructuredOnce   FailureExplained DuplicatesOverlapped CopiesWereRedelivered
 
\* The service rests when every request is answered and no task is left.
CHECK_DEADLOCK FALSE
