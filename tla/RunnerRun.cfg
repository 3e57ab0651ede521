SPECIFICATION FairSpec

CONSTANTS
    Projections = {p1, p2, p3}
    Nil = Nil
    Causes = {"canceled", "deadline"}

INVARIANTS
    TypeOK
    NoSendAfterClose
    ResultTellsTheCause
    SendNeverBlocks
    RunnerInv

PROPERTIES
    RunReturns
    GoroutinesEnd

CHECK_DEADLOCK FALSE
