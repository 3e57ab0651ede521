------------------------------ MODULE EventLog ------------------------------
(***************************************************************************)
(* What the event store promises to the writers of aggregates, without     *)
(* tables, locks or transactions in flight: the accepted appends form one  *)
(* history, in commit order, and every append in it was legal at the point *)
(* of the history where it stands.  An append is legal when the version    *)
(* its caller expected is the version the aggregate had there, and when it *)
(* takes the consecutive versions right after that one.                    *)
(*                                                                         *)
(* The promise is the interface comment of EventStore.Append, the two      *)
(* version types are ExpectedVersion and AppendResult.                     *)
(***************************************************************************)
EXTENDS Integers, Sequences, FiniteSetsExt

CONSTANTS
    Aggregates,    \* (bounded context, type, id) triples
    Expectations,  \* the expected versions callers pass: Any, NoStream, Exact
    MaxAppends     \* bound on the appends of one transaction

-----------------------------------------------------------------------------
(* NoStream() is 0, Exact(n) is n: the version the aggregate must have.    *)
Any == -1

IsAny(expected) == expected = Any

(* What AppendResult tells: versions from+1 .. to were written.            *)
Entries == [aggregate : Aggregates, expected : Expectations,
            from : Nat, to : Nat \ {0}]

-----------------------------------------------------------------------------
VARIABLES
    history,    \* the accepted appends, in commit order
    version     \* the current version of each aggregate, 0 if it has none

(* The version of an aggregate at the end of a history.                    *)
VersionIn(h, a) ==
    Max({0} \cup {h[i].to : i \in {j \in DOMAIN h : h[j].aggregate = a}})

Accepts(h, e) ==
    /\ e.from = VersionIn(h, e.aggregate)
    /\ e.to > e.from
    /\ ~IsAny(e.expected) => e.expected = e.from

Init ==
    /\ history = << >>
    /\ version = [a \in Aggregates |-> 0]

(* A transaction commits all its appends at once, or none: each of them    *)
(* is accepted by the history before it.                                   *)
CommitAppends ==
    /\ Len(history') \in (Len(history) + 1)..(Len(history) + MaxAppends)
    /\ SubSeq(history', 1, Len(history)) = history
    /\ \A i \in (Len(history) + 1)..Len(history') :
        /\ history'[i] \in Entries
        /\ Accepts(SubSeq(history', 1, i - 1), history'[i])
    /\ version' = [a \in Aggregates |-> VersionIn(history', a)]

Next == CommitAppends

Spec == Init /\ [][Next]_<<history, version>>

=============================================================================
