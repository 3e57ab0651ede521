SPECIFICATION Spec

CONSTANTS
    w0 = w0
    w1 = w1
    a = a
    b = b
    Workers = {w0, w1}
    Aggregates = {a, b}
    Scope = {a, b}
    OneWriter = TRUE
    MaxPosition = 3
    HashRange = 16
    IntWraps = FALSE
    BatchSize = 2
    MaxMishaps = 2
    Totals <- TwoThenThree
    Key <- Keys
    Hash <- HashOf

INVARIANTS
    NothingSkipped
