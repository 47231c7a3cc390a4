\* One operation on, one off and one lost frame are enough.
CONSTANTS
  Items = {"thermistor", "model", "heater"}
  Settings = {}
  Commands = {"on", "off"}
  MaxVersion = 1
  Capacity = 5
  MaxPings = 1
  MaxStatuses = 1
  MaxLosses = 1
  MaxReboots = 0
  MaxOperations = 2
SPECIFICATION FairConnectedSpec
PROPERTIES
  OffEndsHeating
