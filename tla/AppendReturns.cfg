SPECIFICATION FairSpec

CONSTANTS
    NoAggregate = NoAggregate
    Clients = {c1, c2}
    Aggregates = {a1, a2}
    EventIDs = {e1, e2, e3}
    Expectations <- OnlyAny
    Dialects = {"postgres", "sqlite"}
    MaxBatch = 1
    MaxAppends = 2
    MaxPosition = 3

PROPERTIES
    AppendReturns

CHECK_DEADLOCK FALSE
