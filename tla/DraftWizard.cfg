SPECIFICATION Spec
CONSTANTS
  slash = slash
  home = home
  apps = apps
  api = api
  docs = docs
  Users = {alice}
  Providers = {codex, claude}
  NoProvider = NoProvider
  Folders <- MCFolders
  Parent <- MCParent
  Sorted <- MCSorted
  Slash = slash
  Home = home
  NoFolder = NoFolder
  Fleeting = {api}
  BrowseLimit = 1
INVARIANT TypeOK
INVARIANT StaysUnderStart
INVARIANT LaunchesAsPrompted
INVARIANT LastCardOpensWhatItNames
INVARIANT OneSessionPerDraft
