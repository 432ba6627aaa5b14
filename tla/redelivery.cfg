SPECIFICATION MCSpec
CONSTANTS
  r1 = r1
  r2 = r2
  w1 = w1
  w2 = w2
  Requests = {r1, r2}
  Workers = {w1, w2}
  Clauses = {c1}
  MaxFaults = 1
INVARIANT IdempotentTasks
CHECK_DEADLOCK FALSE
