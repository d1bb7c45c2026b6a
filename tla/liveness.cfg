SPECIFICATION FairAnySpec
CONSTANTS
  Hosts = {h1}
  NoHost = NoHost
  Callers = {c1, c2}
  MaxTransfers = 2
  MaxHistory = 0
  DefaultConcurrent = 1
  MinConcurrent = 1
  MaxConcurrentCap = 2
  CapChoices = {2}
  PriorityChoices = {1}
  Beats = {b1}
PROPERTIES
  RunningSettles
  CommandsReturn
  StatusIsHonest
