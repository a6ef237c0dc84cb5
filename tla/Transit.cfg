SPECIFICATION FairSpec
CONSTANTS
  m1 = m1
  l1 = l1
  l2 = l2
  Msg = {m1}
  Link = {l1, l2}
  MaxTries = 2
  WaitCap = 1
  Env = {"socket", "restart", "half-open"}
INVARIANTS
  TypeOK
  BusyWasNotCarried
PROPERTIES
  OneAnswerEach
  ImplementsCourier
  EveryEnvelopeFinished
