---------------------------- MODULE MCEventStore ----------------------------
(* EventStore for TLC: values of its constants and their symmetry.         *)
EXTENDS EventStore

AnyNoStreamExact == {Any} \cup 0..3
OnlyAny          == {Any}

T == INSTANCE TLC

Symmetry ==
    T!Permutations(Clients) \cup T!Permutations(Aggregates)
        \cup T!Permutations(EventIDs)

=============================================================================
