SPECIFICATION RevalSpec
CONSTANTS
  RevalThreads = {t1, t2}
  NoThread = NoThread
  RevalOps = {"read", "write_ip", "write_dp", "sync", "unmount"}
  MaxCalls = 2
  MaxEvents = 2
INVARIANTS NoForeignWrite LossIsNoticed ExtentsPointAtData
PROPERTY RevalCallsReturn
CHECK_DEADLOCK FALSE
