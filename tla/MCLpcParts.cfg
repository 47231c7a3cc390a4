\* Eight slots: a block of nine bytes waits for room while half of the buffer is
\* sent, and the indices wrap.  Four slots and ten bytes: the buffer overflows
\* again and again, and the indices wrap.  Pins: two changes of a level, one lost
\* frame, and one reboot or time-out.  Two frames of models lost in a row: a third
\* could join the parts of two models.
CONSTANTS
  TransmitSlots = 8
  MaxBlock = 9
  MaxSent = 13
  ReceiveSlots = 4
  MaxArrived = 10
  Main = main
  Heat = heat
  Inputs = {runout}
  Outputs = {fan}
  Duties = {"off", "part", "full"}
  PinCapacity = 6
  MaxReports = 2
  MaxPings = 1
  MaxOperations = 2
  MaxLosses = 1
  MaxFaults = 1
  MaxChanges = 2
  Models = {m1, m2, m3}
  Invalid = {m3}
  MaxRun = 2
SPECIFICATION Spec
INVARIANTS
  TypeOK
  BytesStayInOrder
  NothingIsStranded
  PinsFollow
  ModelIsSound
PROPERTIES
  CallsAreWhole
  EveryCallReturns
  ReadingRecovers
