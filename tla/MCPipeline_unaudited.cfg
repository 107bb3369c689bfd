SPECIFICATION Spec
CONSTANTS
  f1 = f1
  q1 = q1
  Findings = {}
  Order <- NoOrder
  Confidence <- AllHigh
  MinConfidence = 3
  MinOccurrences = 1
  MaxActions = 1
  Targets = {}
  Wildcard = {}
  Protected = {}
  MaxSlack = 1
  PodNames = {}
  MaxDeletions = 1
  Persist = TRUE
  Retries = 1
  Configs <- OnlyLive
  Envs <- OnlyCordons
PROPERTY ReversalReachesAudit
