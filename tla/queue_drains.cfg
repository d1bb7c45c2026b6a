SPECIFICATION SteadySpec
CONSTANTS
  Hosts = {h1}
  NoHost = NoHost
  Callers = {c1}
  MaxTransfers = 2
  MaxHistory = 1
  DefaultConcurrent = 1
  MinConcurrent = 1
  MaxConcurrentCap = 2
  CapChoices = {1}
  PriorityChoices = {1}
PROPERTIES
  QueueDrains
