SPECIFICATION Spec
CONSTANTS
  Paths = {p1, p2}
  Inodes = {i1, i2}
  Absent = Absent
  MaxWatches = 3
  MaxQueue = 3
  Room = 2
INVARIANTS
  MapMatchesKernel
  ThrowsOnlyForRemoved
  NoReportAfterRemoval
