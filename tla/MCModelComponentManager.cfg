SPECIFICATION Spec
CONSTANTS
  topology = topology
  Name = {"m", "n", "o"}
  Attribute = {topology}
  Rank <- AlphabeticalRank
  Repositories <- FewDeclarations
  CommandLines <- UpToTwo
  Defaults <- OneDefault
  MaxFailures = 1
INVARIANTS
  EveryComponentHasAReason
  DependenciesRunFirst
  RefusedOnlyForCycles
  RoundsAreFew
\* Building ends with the experiment, or with the error that stops it.
CHECK_DEADLOCK FALSE
