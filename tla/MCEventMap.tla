------------------------------ MODULE MCEventMap ------------------------------
(* EventMap for TLC: a source tree with two events and three directories   *)
(* below the input directory, and the machines it is checked out on.       *)
EXTENDS EventMap

TwoNames == <<"UserDeleted", "UserRegistered">>

(* Where an event lives before it has versions, a directory whose package  *)
(* has the name of another one, and the two version directories.           *)
TreeWalk  == << << >>, <<"old", "v1">>, <<"v1">>, <<"v2">> >>
FiveStructs ==
    {[name |-> "UserDeleted", dir |-> <<"v1">>]}
        \cup [name : {"UserRegistered"}, dir : {TreeWalk[k] : k \in 1..4}]
PathOfEvents == <<"events">>
Numbers   == [v1 |-> 1, v2 |-> 2]

Laptop   == [path |-> <<"home">>, goMod |-> "module first"]
Branch2  == [path |-> <<"home", "v2">>, goMod |-> "module first"]

OneCheckout   == {Laptop}
BesideBranch2 == {Laptop, Branch2}

(* No flag, and the path of the module itself.                             *)
UsualFlags == {<< >>, <<"module">>}
NoFlag     == {<< >>}

T == INSTANCE TLC

Symmetry == T!Permutations(Apps)

=============================================================================
