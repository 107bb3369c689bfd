SPECIFICATION Spec
CONSTANTS
  f1 = f1
  q1 = q1
  Findings = {f1}
  Order <- JustOne
  Confidence <- AllHigh
  MinConfidence = 3
  MinOccurrences = 1
  MaxActions = 1
  Targets = {f1}
  Wildcard = {f1}
  Protected = {}
  MaxSlack = 1
  PodNames = {q1}
  MaxDeletions = 1
  Persist = TRUE
  Retries = 1
  Configs <- LiveDryOrOff
  Envs <- Around
INVARIANTS
  PipelineTypeOK
  AppliedRowsTrue
  PassAccountsForChanges
  HaltedAttemptInert
PROPERTIES
  TrimmedAfterSightings
  RunningPodsSpared
