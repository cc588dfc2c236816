SPECIFICATION Spec
CONSTANTS
  a = a
  b = b
  Users = {a, b}
  HashLen = 3
  Bucket <- MCBucket
  Mac <- MCMac
  HZ = 2
  Wrap = 12
  Cfgs <- TwoCfgs
  Minute = 3
  Skew = 1
  HalfStamp = FALSE
  Slack = 1
  LoginWithin = 3
INVARIANTS TypeOK IdleIsExact AcKnowsWhoPasses UpUsersAreListed NobodyStaysUp
PROPERTY ImplementsLease
