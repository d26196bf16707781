SPECIFICATION FairSpec
CONSTANTS
  Fds <- MCFds
  Pids = {1}
  Servers = {s1}
  Conns = {c1, c2}
  Clients = {k1}
  Watchers = {w1}
  Children = {p1, p2}
  MaxObjects = 3
  MaxAddrs = 3
  MaxData = 1
  Nothing = Nothing
  Foreign = Foreign
INVARIANTS
  OwnsItsNumber
  OnlyFailuresLeak
  StraysOnlyAfterTerminate
  WrongProcessOnlyAfterPoll
PROPERTIES
  ConnectEnds
CHECK_DEADLOCK FALSE
