SPECIFICATION Spec
CONSTANTS
  Hosts = {h1}
  NoHost = NoHost
  Callers = {c1}
  MaxTransfers = 3
  MaxHistory = 1
  DefaultConcurrent = 1
  MinConcurrent = 1
  MaxConcurrentCap = 2
  CapChoices = {2}
  PriorityChoices = {1, 2}
PROPERTIES
  PlacesInOrder
  KeepsContract
