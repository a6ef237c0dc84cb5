SPECIFICATION Spec
CONSTANTS
  d1 = d1
  d2 = d2
  d3 = d3
  Device = {d1, d2, d3}
  MaxCopy = 2
  MaxItems = 1
  Batch = 1
  MaxBeacons = 3
  Env = {"eviction", "restart", "full", "purge"}
SYMMETRY Symmetry
INVARIANTS
  TypeOK
  HeldIsAccounted
