\* Two goroutines use one Handle; one request may be in flight at a time.
SPECIFICATION FairSpec
CONSTANTS
  u1 = u1
  u2 = u2
  a1 = a1
  a2 = a2
  Callers = {c1, c2}
  Servers = {s1, s2}
  Requests = {r1}
  Upstreams = {u1, u2}
  Addrs = {a1, a2}
  NoUpstream = NoUpstream
  Initial <- MCInitial
  Inputs <- MCInputs
  Found <- MCFound
  None = None
  Absent = Absent
  Empty = Empty
  Torn = Torn
INVARIANTS
  TypeOK
  NoLeakedServer
  OneOwner
  ServesCurrentConfig
  ServesNormalized
  CleanStopDrained
  FileAgrees
PROPERTIES
  ImplementsManagedServer
  CallsReturn
