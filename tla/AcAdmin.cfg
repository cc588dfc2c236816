SPECIFICATION WarmSpec
SYMMETRY Threadwise
CONSTANTS
  a = a
  b = b
  web = web
  u = u
  c = c
  d = d
  Workers = {w1, w2}
  Ager = ager
  Nodes = {n1, n2}
  None = None
  Macs = {a, b}
  JunkMac = JunkMac
  Users = {u}
  JunkUser = JunkUser
  Cmds = {c, d}
  NoCmd = NoCmd
  Clients = {a, b, web}
  HashLen = 3
  Sections = 1
  Bucket <- MCBucket
  InitModes = {"ADMIN"}
  Msgs <- AdminMsgs
  MaxRecv = 3
  FrameSurvives = TRUE
INVARIANTS TypeOK LocksMatchSections FoundNodesStay UniqueMac OfflineIsEmpty
PROPERTIES FreshNodesSurviveAgeing RegisteredApsStay ImplementsRegistry
