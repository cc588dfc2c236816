SPECIFICATION Spec
CONSTANTS
  a = a
  b = b
  site = site
  none = none
  empty = empty
  default = default
  u1 = u1
  u2 = u2
  s1 = s1
  s2 = s2
  cl1 = cl1
  guest = guest
  Base = 256
  SeqMod = 65536
  Headers = 40
  BigEndian = TRUE
  Cpus = {1, 2}
  Senders = {s1, s2}
  Stations = {cl1, guest}
  Addrs = {a, b, site}
  Swapped <- Turned
  NoAddr = none
  Slots = 2
  Size = 2
  NoUrl = empty
  DefaultUrl = default
  Urls = {u1, u2}
  LongUrls = {u2}
  Portals <- TwoPortals
  Whites <- TwoWhites
  InPackets <- SomeIn
  OutPackets <- SomeOut
  NoPacket = none
  Client = cl1
  Server = site
  Isns <- WrapIsns
  Cuts <- TwoCuts
  PageLen <- OddLengths
  Plans <- Visits
INVARIANT RepliesVerify
CHECK_DEADLOCK FALSE
