SPECIFICATION FairSpec
CONSTANTS
  Entry = {"n1", "p1", "push"}
  Time <- StartTime
  Initial <- Empty
  OnHost = {"n1"}
  DataOnly = {"drop"}
  Transfers = {"pull"}
  Unloadable = {}
  Tolerant = {"push"}
  Reboots <- OneReboot
  initial_time <- Earliest
  MaxFaults = 0
PROPERTIES
  EveryEntryRuns
  BecomesConfigured
