SPECIFICATION Spec

CONSTANTS
    Names <- TwoNames
    Walk <- TreeWalk
    Structs <- FiveStructs
    Number <- Numbers
    Module = "module"
    InputPath <- PathOfEvents
    Checkouts <- BesideBranch2
    Flags <- UsualFlags
    Apps = {p1, p2}
    MaxBatch = 2
    MaxChanges = 3
    MaxRuns = 2
    MaxStored = 2

INVARIANTS
    NextBuildReadsAll

CHECK_DEADLOCK FALSE
