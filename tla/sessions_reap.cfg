SPECIFICATION AnySpec
CHECK_DEADLOCK FALSE
CONSTANTS
  Hosts = {h1}
  NoHost = NoHost
  Users = {u1}
  Beats = {b1}
  MaxSessions = 1
  MaxMissedBeats = 2
  MissedCeiling = 3
  TunnelCalls = {c1}
  Addresses = {a1}
  Conns = {k1}
  MaxTunnels = 1
PROPERTIES
  ReapsOnlyChecked
