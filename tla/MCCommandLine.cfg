SPECIFICATION MCSpec
CONSTANTS
  Host = {"h", "i"}
  Session = {"s", "t"}
  Sections <- MCSections
  ExitCodes = {0, 1, 2}
  MaxOutages = 1
  VM = {"vm1", "vm10", "b"}
  WithinName <- MCWithinName
  SSH = {"s"}
  PSSH = {"p", "q"}
  Target <- MCTarget
  Lines = {"vm10", "b"}
  num_tries = 2
  max_call_attempts = 1
  Repository = {"r", "q"}
  Component = {"m", "n"}
  In <- MCIn
  Flags = {"m"}
  Command = {"c", "d"}
  MaxCommands = 2
  Uploader = {"u", "v"}
  File = {"i", "j"}
  Image = {"i", "j"}
  NameOf <- MCNameOf
  Versions <- MCVersions
  ContentOf <- MCContentOf
  MaxEdits = 1
  MaxFaults = 1
INVARIANTS
  ZeroMeansAllDone
  NotStartedAgain
  EveryHostHasItsAddress
  RepositoriesAreThoseInstalled
  FlagMeansInstalled
  StoreIsCurrent
PROPERTIES
  CallsEnd
\* Every command, call and upload may have ended.
CHECK_DEADLOCK FALSE
