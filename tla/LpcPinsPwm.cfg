\* Three operations: a PWM pin with its duty, and another use of it.
CONSTANTS
  Inputs = {runout}
  Outputs = {fan}
  Duties = {"off", "part", "full"}
  Capacity = 6
  MaxReports = 2
  MaxPings = 2
  MaxOperations = 3
  MaxLosses = 0
  MaxFaults = 0
  MaxChanges = 2
SPECIFICATION Spec
INVARIANT PwmStartsAsAsked
