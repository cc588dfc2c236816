SPECIFICATION WarmFairSpec
CONSTANTS
  a = a
  b = b
  web = web
  u = u
  c = c
  d = d
  Workers = {w1, w2}
  Ager = ager
  Nodes = {n1}
  None = None
  Macs = {a, b}
  JunkMac = JunkMac
  Users = {u}
  JunkUser = JunkUser
  Cmds = {c, d}
  NoCmd = NoCmd
  Clients = {a, b, web}
  HashLen = 3
  Sections = 2
  Bucket <- MCBucket
  InitModes = {"ADMIN"}
  Msgs <- LiveMsgs
  MaxRecv = 3
  FrameSurvives = TRUE
PROPERTIES WorkersReturn SilentApIsNoticed
