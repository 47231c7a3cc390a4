\* Three moves fit into the ring.
CONSTANTS
  Prints <- MacroPrints
  Macro <- MoveMacro
  Segments <- AllSegments
  RingSize = 4
  QueueSize = 2
SPECIFICATION Spec
INVARIANT NothingIsSkipped
CHECK_DEADLOCK FALSE
