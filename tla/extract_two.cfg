SPECIFICATION Spec
CONSTANTS
  p1 = p1  p2 = p2  a1 = a1  a2 = a2  a3 = a3  b1 = b1  g1 = g1  g2 = g2
  Processes = {p1, p2}
  NumDocuments = 2
  Chunks = {a1, a2, b1}
  ChunksOf <- MCChunksOfTwo
  Blank = {}
  Configs = {g1}
  Concurrency = 2
  MaxStarts = 3
  MaxFaults = 1
INVARIANTS PublicationWhole
SYMMETRY Twins
CHECK_DEADLOCK FALSE
