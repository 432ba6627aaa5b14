SPECIFICATION FairSpec
CONSTANTS
  p1 = p1  p2 = p2  a1 = a1  a2 = a2  a3 = a3  b1 = b1  g1 = g1  g2 = g2
  Processes = {p1}
  NumDocuments = 2
  Chunks = {a1, a2, a3, b1}
  ChunksOf <- MCChunksOf
  Blank = {a3}
  Configs = {g1, g2}
  Concurrency = 2
  MaxStarts = 4
  MaxFaults = 3
INVARIANTS TypeOK OneIncompleteBatch CompletedTogether RecordedOnce RecordedIsKept
PROPERTIES ImplementsRegistry EventuallyPublished
CHECK_DEADLOCK FALSE
