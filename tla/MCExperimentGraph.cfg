SPECIFICATION MCSpec
CONSTANTS
  VertexHandle = {a, b, c}
  EdgeHandle = {e, f}
  MaxId = 3
  Instance = {"v", "w"}
  Class = {"VM", "Host", "Router", "Host2"}
  ClassName <- MCClassName
  Entry = {"delete", "start", "boot", "up", "name"}
  Entries <- MCEntries
  Own = {"delete"}
  OwnLater = {"name"}
  Assigns <- MCAssigns
  LabelOf <- MCLabelOf
  Requires <- MCRequires
  Handler = {"any"}
  Merges <- MCMerges
  Declared <- MCDeclared
  Vertex = {1, 2, 3}
  Reach <- MCReach
  Filters <- MCFilters
  Worker = {"p", "q"}
  STOP = STOP
INVARIANTS
  UsableVertexIsInGraph
  EdgesJoinUsableVertices
  EveryDecoratorKeepsItsEntries
  RequiredAreInitializedFirst
  EveryPairOnce
PROPERTIES
  SearchesEnd
\* Every handle may have been made and deleted, and a search may have ended.
CHECK_DEADLOCK FALSE
