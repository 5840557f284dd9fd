\* Two servers that want one address, two services and two subscribers each,
\* Run called twice for one of them.
CONSTANTS
  addr = addr
  s1 = s1
  s2 = s2
  Servers = {s1, s2}
  Services = {a, b}
  Subs = {p, q}
  Registry = {s1, s2}
  Etcd = {s1}
  Timed = {s2}
  Broker = {s1}
  Addrs = {addr}
  Addr <- MCAddr
  MaxRuns <- MCRuns
  None = None
SPECIFICATION FairSpec
INVARIANTS
  ListedIsServed
  ServesSubscribed
PROPERTIES
  StopReturns
CHECK_DEADLOCK FALSE
