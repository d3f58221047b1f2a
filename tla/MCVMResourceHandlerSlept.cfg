SPECIFICATION Spec
CONSTANTS
  Entry = {"n1", "p1"}
  Time <- StartTime
  Initial <- Late
  OnHost = {"n1"}
  DataOnly = {"drop"}
  Transfers = {"pull"}
  Unloadable = {}
  Tolerant = {"push"}
  Reboots <- OneReboot
  initial_time <- Earliest
  MaxFaults = 1
INVARIANTS
  NeverSleepsOnWork
