SPECIFICATION LifecycleSpec
CONSTANTS
  VM = {"a1", "a2", "b1", "b2"}
  Unmanaged = {"b2"}
  MayFail = {"a2"}
  MaxFaults = 0
  None = None
  Cohort <- TwoExperiments
INVARIANTS
  OldMappingsGone
\* The last experiment may simply be over.
CHECK_DEADLOCK FALSE
