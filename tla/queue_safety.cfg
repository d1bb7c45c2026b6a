SPECIFICATION Spec
CONSTANTS
  Hosts = {h1, h2}
  NoHost = NoHost
  Callers = {c1, c2}
  MaxTransfers = 2
  MaxHistory = 0
  DefaultConcurrent = 1
  MinConcurrent = 1
  MaxConcurrentCap = 2
  CapChoices = {0, 2, 9}
  PriorityChoices = {1, 2}
SYMMETRY Interchangeable
INVARIANTS
  TypeOK
  RunningHasOwner
  HandedOutOnce
  StoppedNeverDone
PROPERTIES
  OutcomeIsFinal
