-------------------------- MODULE MCCommandHandling --------------------------
(* CommandHandling for TLC: values of its constants and their symmetry.    *)
EXTENDS CommandHandling

AnyNoStreamExact == {Any} \cup 0..5

T == INSTANCE TLC

Symmetry ==
    T!Permutations(Clients) \cup T!Permutations(Aggregates)
        \cup T!Permutations(EventIDs)

=============================================================================
