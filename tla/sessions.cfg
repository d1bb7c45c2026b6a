SPECIFICATION FairAnySpec
CHECK_DEADLOCK FALSE
CONSTANTS
  Hosts = {h1}
  NoHost = NoHost
  Users = {u1, u2}
  Beats = {b1}
  MaxSessions = 2
  MaxMissedBeats = 2
  MissedCeiling = 3
  TunnelCalls = {c1}
  Addresses = {a1}
  Conns = {k1}
  MaxTunnels = 2
INVARIANTS
  NoLeak
  OneKeeper
PROPERTIES
  SlowReplySpared
  DeadIsReaped
  OutIsClosed
  GoneTunnelsEnd
