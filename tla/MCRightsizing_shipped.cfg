SPECIFICATION FairSpec
CONSTANTS
  Policy <- ShippedPolicy
  Targets <- ExampleTargets
  Workloads <- All
  Order <- InOrder
  Namespace <- Spaces
  Protected <- Managed
  Scenes <- QuietScene
PROPERTY TrimsConverge
