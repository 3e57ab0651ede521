SPECIFICATION Spec

CONSTANTS
    NoAggregate = NoAggregate
    Clients = {c1, c2}
    Aggregates = {a1, a2}
    EventIDs = {e1, e2, e3}
    Expectations <- AnyNoStreamExact
    Dialects = {"postgres", "mysql", "sqlite"}
    MaxBatch = 2
    MaxAppends = 2
    MaxPosition = 2

SYMMETRY Symmetry

INVARIANTS
    TypeOK
    HeadsAgree
    OneWriterPerAggregate
    EventsAreUnique
    AggregateOrder
    UpsertNeverWaits
    WriterInv
    OrderInv

PROPERTIES
    HeadsNeverMoveBack
    ImplementsEventLog
    ImplementsEventFeed
    SqliteKeepsOrder

CHECK_DEADLOCK FALSE
