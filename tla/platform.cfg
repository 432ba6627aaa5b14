SPECIFICATION MCSpec
CONSTANTS
  Created <- InitialTables
  Dropped <- InitialDowngrade
  Added <- PhaseTwoTable
  AddedTypes <- PhaseTwoTypes
  Altering <- PhaseTwoAltered
  AlteringTypes <- PhaseTwoColumnTypes
  AlteringKey <- PhaseTwoKey
  Declared <- Models
  Handlers = {h1, h2, h3, h4}
  Emails = {e1, e2}
  Slugs = {s1, s2}
  MaxTokens = 4
  Jobs = {j1, j2}
  Callers = {c1, c2}
  MaxRuns = 4
  Orgs = {o1, o2}
  Duties = {d1, d2}
  MaxEdits = 3
  Matrices <- MCMatrices
  Documents <- MCDocuments
  Versions <- MCVersions
INVARIANTS RevisionDescribesTables TypesMatchTables OnlyStrandedTypesRefuse TenantsAreWhole RotationForksOnlyConcurrently   ViewsAgree CoverageWasReal MatchingIsOptimal SectionsAccountedFor RenumberingIsSilent NeverUnderstated
SYMMETRY Symmetry
\* Every request is answered once and every script run comes to its end.
CHECK_DEADLOCK FALSE
