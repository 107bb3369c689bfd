SPECIFICATION Spec
CONSTANTS
  n1 = n1
  n2 = n2
  n3 = n3
  p1 = p1
  p2 = p2
  p3 = p3
  p4 = p4
  pdb = pdb
  Nowhere = Nowhere
  Nodes = {n1, n2}
  Pools = {"main"}
  PoolOf <- OnePool
  Runs = {r1, r2}
  r1 = r1
  r2 = r2
  Pods = {p1}
  SelfPods = {}
  Pinned = {}
  Named = {}
  Resource <- Resources
  Cap <- Even
  Size <- Unit
  Pdbs = {}
  PdbPods <- NoPdb
  PdbMin <- NoMin
  SelectorPdbs = {}
  Verdicts <- OneVerdict
  TTL = 1
  Cooldown = 1
  MaxLag = 0
  Modes = {TRUE}
  Overlap = TRUE
  Env = {"operator"}
  InitHosts <- AllOnOne
INVARIANT EveryToolCordonMarked
