SPECIFICATION Spec
CONSTANTS
  Branches <- MCBranches
  Leaves <- MCLeaves
  Servers <- MCServers
  MaxDepth = 1
  CacheSize = 2
  Limits <- MCLimits
  MaxAttempts = 1
  Numeral <- MCNumeral
  Numbers <- MCNumbers
  Parse <- MCParse
  CountLimit = 3
  DefaultCount = 2
INVARIANTS Inv ChildrenOfTheBranch DiscoveryIsSound
PROPERTIES BrowseIsWhole
