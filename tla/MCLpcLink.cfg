\* Two operations, one lost frame and one reboot of a connected pair.
CONSTANTS
  Items = {"thermistor", "model", "heater"}
  Settings = {}
  Commands = {"on", "off", "suspend", "resetFault", "unregister"}
  MaxVersion = 1
  Capacity = 5
  MaxPings = 1
  MaxStatuses = 1
  MaxLosses = 1
  MaxReboots = 1
  MaxOperations = 2
SPECIFICATION FairConnectedSpec
PROPERTIES
  LinkRecovers
  StopIsObeyed
  HostAgrees
