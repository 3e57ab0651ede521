SPECIFICATION CommandSpec

CONSTANTS
    NoAggregate = NoAggregate
    Clients = {c1, c2}
    Aggregates = {a1}
    EventIDs = {e1, e2, e3}
    Expectations <- AnyNoStreamExact
    Dialects = {"postgres", "mysql", "sqlite"}
    DBTXs = {"tx", "db"}
    MaxBatch = 2
    MaxAppends = 2
    MaxPosition = 3
    MaxCommands = 2

SYMMETRY Symmetry

INVARIANTS
    CommandTypeOK
    DecisionsAreCurrent
    HeadNeverAhead
    OnlyDisorderTears
    FirstInsertClaimsBatch

PROPERTIES
    TornForGood
    ImplementsEventLog

CHECK_DEADLOCK FALSE
