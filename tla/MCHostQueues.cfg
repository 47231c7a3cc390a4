CONSTANTS
  t1 = t1
  t2 = t2
  t3 = t3
  t4 = t4
  Tasks <- MCTasks
  MaxDepth = 2
  Events = {"fault", "monitor", "stall", "warning"}
  Priority <- MCPriority
  Serious = {"fault", "monitor"}
  HasMacro = {"monitor", "stall"}
  MaxEvents = 5
  MaxPauses = 1
SPECIFICATION HostSpec
INVARIANTS
  HostTypeOK
  LockIsSound
  EventsInOrder
PROPERTIES
  ImplementsLock
  RequestsEnd
CHECK_DEADLOCK FALSE
