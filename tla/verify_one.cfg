SPECIFICATION FairSpec
CONSTANTS
  w1 = w1  w2 = w2  o1 = o1  o2 = o2  o3 = o3  s1 = s1  s2 = s2  c1 = c1  c2 = c2  v1 = v1  v2 = v2
  Workers = {w1}
  Reviewers = {}
  Obligations = {o1, o2, o3}
  NoObligation = NoObligation
  Sources = {s1, s2}
  FirstSource = s1
  SourceOf <- MCSourceOf
  Grounded = {o1, o3}
  Critics = {c1}
  Deletable = {}
  ReviewActions = {}
  MaxBatch = 2
  MaxStarts = 5
  MaxFaults = 3
  MaxPublications = 1
INVARIANTS TypeOK CountersMatchCheckpoint VerifiedOnce SealedCoversRegistry AttributionFaithful
PROPERTIES ImplementsLedger SealIsFinal EventuallySealed
CHECK_DEADLOCK FALSE
