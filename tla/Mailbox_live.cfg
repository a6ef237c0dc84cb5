SPECIFICATION FairSpec
CONSTANTS
  d1 = d1
  d2 = d2
  Device = {d1, d2}
  Owner = {d1, d2}
  Restless = {d1}
  Slow = {d1}
  MaxMsg = 2
  Kinds = {"text"}
  Window = 1
  TextLimit = 2
  MediaQuota = 1
  Env = {"announce", "nudge"}
INVARIANTS
  HeldInOrder
PROPERTIES
  HeldMailLeaves
