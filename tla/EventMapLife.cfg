SPECIFICATION Spec

CONSTANTS
    Names <- TwoNames
    Walk <- TreeWalk
    Structs <- FiveStructs
    Number <- Numbers
    Module = "module"
    InputPath <- PathOfEvents
    Checkouts <- OneCheckout
    Flags <- NoFlag
    Apps = {p1, p2}
    MaxBatch = 2
    MaxChanges = 4
    MaxRuns = 2
    MaxStored = 2

SYMMETRY Symmetry

INVARIANTS
    TypeOK
    NextBuildReadsAll
    GeneratedTestsPass

PROPERTIES
    ImplementsEventStream

CHECK_DEADLOCK FALSE
