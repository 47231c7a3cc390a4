\* Buffers run out with one reply of two buffers, or with two of one.
CONSTANTS
  Buffers = 2
  Reserved = 0
  StackDepth = 2
  Clients = {"web", "phone"}
  MaxReplies = 2
  Tasks = {"main", "net"}
  Writers = {"main"}
  Handles <- MCHandles
  Slots = 3
  Length <- MCLength
  Elements = 1
  BlockSize = 6
  MaxBlocks = 1
  MaxReferences = 2
SPECIFICATION ServicesSpec
\* A print ends, all replies may have been stored, and all handles be in use.
CHECK_DEADLOCK FALSE
INVARIANTS
  ServicesTypeOK
  NothingIsSkipped
  BuffersAreAccounted
  VariablesKeepTheirValues
PROPERTY
  PauseCompletes
