SPECIFICATION Spec

CONSTANTS
    w0 = w0
    w1 = w1
    a = a
    b = b
    Workers = {w0}
    Aggregates = {a, b}
    Scope = {a, b}
    OneWriter = TRUE
    MaxPosition = 3
    HashRange = 16
    IntWraps = FALSE
    BatchSize = 2
    MaxMishaps = 1
    Totals <- One
    Key <- Keys
    Hash <- HashOf

INVARIANTS
    HandlerErrorEndsRun
