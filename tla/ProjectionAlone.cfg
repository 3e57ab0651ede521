SPECIFICATION FairSpec

CONSTANTS
    w0 = w0
    w1 = w1
    a = a
    b = b
    Workers = {w0}
    Aggregates = {a, b}
    Scope = {a}
    OneWriter = TRUE
    MaxPosition = 3
    HashRange = 16
    IntWraps = FALSE
    BatchSize = 2
    MaxMishaps = 2
    Totals <- One
    Key <- Keys
    Hash <- HashOf

INVARIANTS
    TypeOK
    NothingSkipped
    RepeatsAreBounded
    CheckpointGuards

PROPERTIES
    CheckpointsNeverMoveBack
    EveryEventIsHandled
