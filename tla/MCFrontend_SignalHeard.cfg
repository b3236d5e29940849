\* Not what the code does.
SPECIFICATION FairSpec
CONSTANTS
  u1 = u1
  a1 = a1
  Loop = Loop
  LogCap = 2
  ViewCap = 1
  Servers = {s1}
  Requests = {r1}
  Upstreams = {u1}
  Addrs = {a1}
  NoUpstream = NoUpstream
  Initial <- MCInitial
  Inputs <- MCInputs
  Found <- MCFound
  None = None
  Absent = Absent
  Empty = Empty
  Torn = Torn
PROPERTY SignalHeard
CHECK_DEADLOCK FALSE
