SPECIFICATION FairSpec
CONSTANTS
  VM = {v1, v2, v3, v4}
  Unmanaged = {v4}
  MayFail = {v3}
  MaxFaults = 1
  None = None
INVARIANTS
  StartOnlyWhenAllReached
  OneStartTime
PROPERTIES
  ImplementsBarrier
  EveryVMStarts
\* The handlers' work ends once every VM has learned the start time.
CHECK_DEADLOCK FALSE
