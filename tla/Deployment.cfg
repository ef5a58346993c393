SPECIFICATION Spec
CONSTANTS
  usr = usr
  home = home
  new = new
  old = old
  vibegram = vibegram
  admin = admin
  good = good
  bad = bad
  NoUser = NoUser
  None = None
  Torn = Torn
  Paths <- MCPaths
  Versions <- MCVersions
  Users <- MCUsers
  Configs <- MCConfigs
  Valid <- MCValid
  MaxTime = 1
  MaxCommands = 3
SYMMETRY Same
INVARIANT TypeOK
INVARIANT NoVersionIsLost
INVARIANT UpgradeTakesEffect
INVARIANT InstalledServiceCanRead
