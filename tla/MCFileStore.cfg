SPECIFICATION Spec
CHECK_DEADLOCK FALSE
CONSTANTS
    h1 = h1
    h2 = h2
    r1 = r1
    r2 = r2
    add = add
    Host = {h1, h2}
    Head = h1
    Reader = {r1, r2}
    Adder = add
    Site <- MCSite
    Size <- Larger
    None = None
    Part = Part
    Attempts = 2
    MaxFaults = 1
INVARIANTS
    WholeFiles
PROPERTIES
    AddedEverywhere
    EveryGetEnds
