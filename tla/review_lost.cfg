SPECIFICATION Spec
CONSTANTS
  w1 = w1  w2 = w2  o1 = o1  o2 = o2  o3 = o3  s1 = s1  s2 = s2  c1 = c1  c2 = c2  v1 = v1  v2 = v2
  Workers = {w1, w2}
  Reviewers = {v1}
  Obligations = {o1}
  NoObligation = NoObligation
  Sources = {s1}
  FirstSource = s1
  SourceOf <- MCSourceOfSingle
  Grounded = {o1}
  Critics = {c1}
  Deletable = {}
  ReviewActions = {"APPROVE"}
  MaxBatch = 2
  MaxStarts = 3
  MaxFaults = 1
  MaxPublications = 0
INVARIANTS ReviewQueued
CHECK_DEADLOCK FALSE
SYMMETRY Twins
