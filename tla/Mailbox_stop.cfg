SPECIFICATION Spec
CONSTANTS
  d1 = d1
  d2 = d2
  Device = {d1, d2}
  Owner = {d1, d2}
  Restless = {}
  Slow = {}
  MaxMsg = 2
  Kinds = {"text", "eph"}
  Window = 1
  TextLimit = 2
  MediaQuota = 1
  Env = {"save", "stop"}
PROPERTIES
  GracefulStopKeepsMail
