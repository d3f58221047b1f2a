SPECIFICATION Spec
CONSTANTS
  Entry = {"n2a", "n2b", "n1", "p1", "drop", "push", "pull"}
  Time <- StartTime
  Initial <- Launch
  OnHost = {"n1"}
  DataOnly = {"drop"}
  Transfers = {"pull"}
  Unloadable = {"push", "drop"}
  Tolerant = {"push"}
  Reboots <- OneReboot
  initial_time <- Earliest
  MaxFaults = 1
INVARIANTS
  LocalBarrier
  ConfiguredMeansDone
PROPERTIES
  ImplementsOrder
