SPECIFICATION AnySpec
CHECK_DEADLOCK FALSE
CONSTANTS
  Remotes = {r1}
  NoRemote = NoRemote
  Length <- MCLength
  MaxLength = 3
  Names = {n1}
  NoPath = NoPath
  MaxVariant = 2
  ChunkSize = 2
  MaxDownloads = 3
  MaxPending = 2
  Pair = {p1, p2}
  NoCall = NoCall
  Ids = {"i1", "i2"}
  Pinned = {"i2"}
  Stampers = {other}
  Forms = 2
  MaxOps = 3
  Browsers = {browser}
  RemoteVariants = 1
  Chunks = 2
  MaxRemoteTurns = 1
  Root = 0
  Trees <- MCTrees
  Blocked <- MCBlocked
  MaxEntries = 3
  MaxTreeFiles = 4
  MaxTreeDepth = 1
  Hosts = {"gw", "db"}
  NoHost = "none"
  key1 = key1
  key2 = key2
  key3 = key3
  Keys = {key1, key2, key3}
  NoKey = NoKey
  Algorithm <- MCAlgorithm
  Passwords = {w1, w2}
  NoPassword = NoPassword
  Layouts <- MCLayouts
  AtOnce <- MCAtOnce
  Presented <- MCPresented
  MaxHops = 2
  MaxLines = 0
  MaxChanges = 1
  Lists <- MCLists
  StatusTtl = 1
  ResourceTtl = 2
  MaxTime = 1
  MaxClientTurns = 1
  Stores <- MCStores
  HopLimits = {1, 2, 3}
  Commands <- MCCommands
  Catalog <- MCCatalog
  Presses <- MCPresses
  Bits = 4
  CgnatBase = 8
  CgnatPrefix = 2
  PCs <- MCPCs
  Addresses <- MCAddresses
  Resources <- MCResources
SYMMETRY Alike
INVARIANTS
  FinalIsWhole
  NothingLeftBehind
  IntactAlone
  DoneIsWhole
  MirrorsTheTree
  KeyBeforeCredential
  RefusedNotKept
  FreshUnlessShared
  Resolves
  BothAreAssessed
  StartsAsOffered
  BlamesTheOwner
PROPERTIES
  KeepBothKeeps
