SPECIFICATION Spec
CONSTANTS
  a = a
  b = b
  Users = {a, b}
  HashLen = 3
  Bucket <- MCBucket
  Mac <- MCMac
  HZ = 2
  Wrap = 16
  Cfgs <- OneCfg
  Minute = 4
  Skew = 0
  HalfStamp = FALSE
  Slack = 1
  LoginWithin = 9
PROPERTY LoginSticks
