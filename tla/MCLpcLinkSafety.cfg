\* The largest of the three instances' sizes: two versions, two pings and two
\* statuses under way, three operations, one lost frame and one reboot.
CONSTANTS
  Items = {"thermistor", "model", "heater"}
  Settings = {"thermistor", "model", "heater"}
  Commands = {"on", "off", "suspend", "resetFault", "unregister"}
  MaxVersion = 2
  Capacity = 6
  MaxPings = 2
  MaxStatuses = 2
  MaxLosses = 1
  MaxReboots = 1
  MaxOperations = 3
SPECIFICATION SafetySpec
INVARIANTS
  MirrorInSync
  FaultedHeaterIsOff
  ReplaySparesHeater
PROPERTIES
  FaultIsSticky
