\* One process of each kind, with room for two entries in the log channel.
SPECIFICATION FairSpec
CONSTANTS
  u1 = u1
  a1 = a1
  Loop = Loop
  LogCap = 2
  ViewCap = 1
  Servers = {s1}
  Requests = {r1}
  Upstreams = {u1}
  Addrs = {a1}
  NoUpstream = NoUpstream
  Initial <- MCInitial
  Inputs <- MCInputs
  Found <- MCFound
  None = None
  Absent = Absent
  Empty = Empty
  Torn = Torn
INVARIANTS
  TypeOK
  StatusTrue
  StoppedAtExit
PROPERTIES
  LoopResponds
  SignalEnds
CHECK_DEADLOCK FALSE
