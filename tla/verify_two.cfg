SPECIFICATION Spec
CONSTANTS
  w1 = w1  w2 = w2  o1 = o1  o2 = o2  o3 = o3  s1 = s1  s2 = s2  c1 = c1  c2 = c2  v1 = v1  v2 = v2
  Workers = {w1, w2}
  Reviewers = {}
  Obligations = {o1, o2}
  NoObligation = NoObligation
  Sources = {s1}
  FirstSource = s1
  SourceOf <- MCSourceOfOne
  Grounded = {o1}
  Critics = {c1, c2}
  Deletable = {o2}
  ReviewActions = {}
  MaxBatch = 2
  MaxStarts = 2
  MaxFaults = 1
  MaxPublications = 0
INVARIANTS CheckpointBacked RunKeepsProvenance
CHECK_DEADLOCK FALSE
SYMMETRY Twins
