SPECIFICATION FairSpec
CONSTANTS
  Chunks = 2
  Sizes = {"small", "medium", "large"}
  Receipts = {TRUE, FALSE}
  MaxAsks = 3
  MaxLosses = 3
  MaxReloads = 1
CHECK_DEADLOCK FALSE
INVARIANTS
  TypeOK
  ConsentFirst
  GivesUpWithReason
  SentLiveArrives
PROPERTIES
  RecordsGo
  ImplementsParcel
