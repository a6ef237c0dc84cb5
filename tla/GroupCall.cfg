SPECIFICATION Spec
CONSTANTS
  a = a
  b = b
  c = c
  None = None
  Device = {a, b, c}
  Rank <- Fingerprints
  Starters = {b}
  Adders = {b}
  Talking <- FirstTwo
  Shared = FALSE
  Seats = 8
  HeldMax = 40
  Routes = 1
  MaxAccepts = 1
  MaxGoes = 1
  MaxStale = 1
CHECK_DEADLOCK FALSE
INVARIANTS
  TypeOK
  LegsAreHeld
  MeshIsWhole
