SPECIFICATION Spec
CONSTANTS
  topology = topology
  Name = {"m", "n", "o", "p", "q"}
  Attribute = {topology}
  Rank <- AlphabeticalRank
  Repositories <- Consistent
  CommandLines <- JustM
  Defaults <- NoDefault
  MaxFailures = 0
INVARIANTS
  PrecedesHonoured
\* Building ends with the experiment, or with the error that stops it.
CHECK_DEADLOCK FALSE
