SPECIFICATION Spec
CONSTANTS
  d1 = d1
  x = x
  Device = {d1, x}
  Owner = {d1}
  Restless = {d1}
  Slow = {}
  MaxMsg = 2
  Kinds = {"text", "media", "offer"}
  Window = 1
  TextLimit = 1
  MediaQuota = 1
  Env = {"save", "crash", "stop", "ageing", "takeback", "operator", "announce", "nudge"}
INVARIANTS
  TypeOK
  NoSilentLoss
  SaveDiscipline
PROPERTIES
  MailOnlyToOwner
  NeverResurrected
