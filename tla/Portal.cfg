SPECIFICATION FairSpec
CONSTANTS
  l = l
  u = u
  Lists = {l}
  Urls = {u}
  Intervals = {1, 2}
  Commands <- NoCommands
  Databases <- OneStored
  Stall = 1
  Far = 16
  Work = 0
INVARIANT PortalGivenUpInTime
PROPERTIES TimeoutNeedsSilence PortalClosesWhenSilent PortalOpensWhenAnswered
