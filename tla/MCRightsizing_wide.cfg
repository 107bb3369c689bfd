SPECIFICATION FairSpec
CONSTANTS
  Policy <- WidePolicy
  Targets <- ExampleTargets
  Workloads <- All
  Order <- InOrder
  Namespace <- Spaces
  Protected <- Managed
  Scenes <- AllScenes
INVARIANT RightsizingTypeOK
PROPERTIES
  TrimCoversUsage
  TrimsWithinLimits
  PullMovesAsFound
  PullCoversUsage
  TrimsConverge
