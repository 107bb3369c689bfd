SPECIFICATION SwitchedSpec
CONSTANTS
  t1 = t1
  t2 = t2
  k1 = k1
  k2 = k2
  Tabs = {t1, t2}
  Clusters = {k1, k2}
  TTL = 1
  Limit = 1
  MinDays = 1
  Sessions <- AllSessions
  i1 = i1
  i2 = i2
  Images = {i1, i2}
  Tags = {"latest"}
  Slots = {"c1", "c2"}
  NoImage = NoImage
  SizeOf <- Sizes
  Threshold = 2
  MaxRemovals = 1
  Modes = {TRUE, FALSE}
SYMMETRY Interchangeable
INVARIANTS
  DashboardTypeOK
  StatusBounded
  ToggleShown
  NodeTypeOK
PROPERTIES
  DispatchCurrent
  UsedImagesSpared
  HaltedRunRemovesNothing
