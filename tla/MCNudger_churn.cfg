SPECIFICATION Spec
CONSTANTS
  n1 = n1
  n2 = n2
  n3 = n3
  p1 = p1
  p2 = p2
  p3 = p3
  p4 = p4
  pdb = pdb
  Nowhere = Nowhere
  Nodes = {n1, n2, n3}
  Pools = {"main"}
  PoolOf <- OnePool
  Runs = {r1}
  r1 = r1
  r2 = r2
  Pods = {p1, p2, p3, p4}
  SelfPods = {}
  Pinned = {p3}
  Named = {p2}
  Resource <- Resources
  Cap <- Three
  Size <- Mixed
  Pdbs = {pdb}
  PdbPods <- PdbOverTwo
  PdbMin <- OneStays
  SelectorPdbs = {pdb}
  Verdicts <- AllVerdicts
  TTL = 1
  Cooldown = 1
  MaxLag = 0
  Modes = {TRUE, FALSE}
  Overlap = FALSE
  Env = {"autoscaler", "kubelet", "restart"}
  InitHosts <- AllPending
SYMMETRY Interchangeable
INVARIANTS
  HomeNotCordoned
  CordonHasHeadroom
  DrainedFindRoom
PROPERTIES
  ToolLeavesMinimum
  DryRunReadOnly
  EvictsFromCordonedNode
