SPECIFICATION SuiteSpec
CONSTANTS
  Callers = {a, b}
  j1 = j1
  j2 = j2
  Jobs = {j1, j2}
  Runs = {w1, w2}
  Kinds = {"payment", "envelope"}
  MaxLost = 1
  MaxMisses = 1
  KeysExpire = TRUE
  r1 = r1
  r2 = r2
  r3 = r3
  h1 = h1
  h2 = h2
  Requests = {r1, r2, r3}
  Hosts = {h1, h2}
  HostOf <- ThreeOnTwo
  NoToken = NoToken
  LeasesExpire = TRUE
  Mortal = {h1}
  RpcCalls = {c1, c2, c3}
  OptedIn = {c3}
  Signers = {w1}
  ThirtySeconds = 1
  PreviewLimit = 1
  MaxCalls = 2
INVARIANTS
  QueueSafety
  SequenceSafety
PROPERTIES
  SubmissionsEnd
  RpcServes
  ClientKeepsWord
CHECK_DEADLOCK FALSE
