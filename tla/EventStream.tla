----------------------------- MODULE EventStream -----------------------------
(***************************************************************************)
(* What the generated event mapping promises to an application: storing    *)
(* domain events and reading them back is as if the structs themselves     *)
(* were kept.  A projection sees the stored events in their order, each as *)
(* the struct it was stored from; it may lag behind, but it neither skips  *)
(* an event nor sees it as another version of itself.                      *)
(*                                                                         *)
(* The promise is the comment of cmd/eventmap-gen and the section "Schema  *)
(* Evolution" of examples/eventmap-codegen.  EventMap implements it.       *)
(***************************************************************************)
EXTENDS Naturals, Sequences

CONSTANTS
    Apps,           \* running instances of the application
    Schemas,        \* what tells domain events apart: name and version
    MaxBatch        \* bound: events converted in one call

VARIABLES
    stored,         \* the domain events stored so far
    seen            \* per instance: what its projection has handled

Init == stored = << >> /\ seen = [a \in Apps |-> << >>]

StoreEvents ==
    /\ \E n \in 1..MaxBatch : \E batch \in [1..n -> Schemas] :
            stored' = stored \o batch
    /\ UNCHANGED seen

SeeNext(a) ==
    /\ Len(seen[a]) < Len(stored)
    /\ seen' = [seen EXCEPT ![a] = Append(@, stored[Len(@) + 1])]
    /\ UNCHANGED stored

Next == StoreEvents \/ \E a \in Apps : SeeNext(a)

Spec == Init /\ [][Next]_<<stored, seen>>

=============================================================================
