SPECIFICATION FairSpec
CONSTANTS
  d1 = d1
  d2 = d2
  Device = {d1, d2}
  MaxCopy = 2
  MaxItems = 2
  Batch = 1
  MaxBeacons = 2
  Env = {"restart", "ageing", "rehello", "roster", "sleep"}
INVARIANTS
  RevokedIsOut
PROPERTIES
  BacklogDrains
