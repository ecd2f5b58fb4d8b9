SPECIFICATION TreeSpec
CONSTANTS
  TreeThreads = {t1, t2}
  Dentries = {1, 2, 3, 4, 5}
  FileNames = {"a", "b"}
  TreeCalls = 3
  Workload <- MCWorkload
  UidLimit = 5
INVARIANTS NoDangling HandlesExact LinksExact
PROPERTY TreeCallsReturn
CHECK_DEADLOCK FALSE
