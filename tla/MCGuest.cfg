SPECIFICATION MCSpec
CONSTANTS
  Runner = {"a"}
  Watcher = {"w"}
  Wants <- MCWants
  Preloaded = {}
  Powershell = {"a"}
  MaxLost = 2
  Looks = 1
  Size = 2
  MaxAttempts = 3
  File <- MCFile
  MaxWrites = 2
  MaxTime = 2
  MaxCommandsLost = 2
INVARIANTS
  ExitCodeIsOwn
  StartedOnce
  OutputOnce
  RebootHonoured
  LoadedIsWhole
PROPERTIES
  EveryResourceIsDealtWith
  ChangesAreCopied
\* A command without a timeout whose answer is lost stops every thread, and a
\* RuntimeError ends the loading or the transfer of a file.
CHECK_DEADLOCK FALSE
