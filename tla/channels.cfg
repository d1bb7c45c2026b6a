SPECIFICATION AnySpec
CHECK_DEADLOCK FALSE
CONSTANTS
  Calls = {c1, c2, c3}
  TaskCalls = {c1}
  NoCall = NoCall
  Task = t1
  Tasks <- MCTasks
  Journal = Journal
  What <- MCWhat
  MaxStreams = 1
  MaxOpening = 2
  MaxSessions = 1
  Pair = {p1, p2}
  MaxShells = 1
  MaxIds = 3
  ShellSessions = 2
  Bytes <- MCBytes
  Programs <- MCPrograms
  ExitCodes = {"zero"}
  Passwords = {"old", "new"}
  NoPassword = NoPassword
  SudoSessions = 2
  Machines <- MCMachines
  Delays <- MCDelays
  MaxDelay = 2
  ServiceHosts <- MCServiceHosts
  Odd <- MCOdd
  ServiceTurns = 1
  Platforms <- MCPlatforms
  Interfaces <- MCInterfaces
  Virtual = {}
  Ignored = {}
  Disks = {}
  Parts <- MCParts
  MaxTime = 1
  MaxWork = 4
  MaxSamples = 2
SYMMETRY Alike
INVARIANTS
  OpenIsCounted
  OvershootBounded
  OwnOutcome
  JournalsAreClosed
  CapHolds
  TextIsKept
  KeptWasAccepted
  AsAsked
  AnswersItsOwn
  NeverMoreThanCarried
PROPERTIES
  OutcomeStays
