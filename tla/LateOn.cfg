SPECIFICATION FairSpec
CONSTANTS
  l = l
  u = u
  Lists = {l}
  Urls = {u}
  Intervals = {1}
  Commands <- SwitchOn
  Databases <- OneStored
  Stall = 0
  Far = 4
  Work = 1
PROPERTIES PortalClosesWhenSilent
