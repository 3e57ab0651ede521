------------------------------ MODULE EventFeed ------------------------------
(***************************************************************************)
(* The events table as its readers know it.  Writers insert events at      *)
(* global positions, and a commit makes the events of one transaction      *)
(* readable at once.  Positions are handed out before the insert that uses *)
(* them takes effect, so an event may become readable after events with    *)
(* higher positions have been read; only the events of one aggregate keep  *)
(* their order.  With one writer at a time (sqlite) all of them keep it.   *)
(*                                                                         *)
(* EventStore implements this specification; Processor reads from it.      *)
(***************************************************************************)
EXTENDS Naturals

CONSTANTS
    Aggregates,     \* (bounded context, type, id) triples
    OneWriter,      \* TRUE: transactions write one after the other
    MaxPosition     \* bound: the highest global position

VARIABLES
    log,            \* the committed events
    inFlight        \* the inserted events of running transactions

feed == <<log, inFlight>>

(* What a reader tells events apart by.                                    *)
Event      == [position : Nat \ {0}, aggregate : Aggregates]
FeedEvents == [position : 1..MaxPosition, aggregate : Aggregates]

(* Two events whose order the database keeps.                              *)
Ordered(e, f) == OneWriter \/ e.aggregate = f.aggregate

FeedInit == log = {} /\ inFlight = {}

Insert(e) ==
    /\ \A f \in log \cup inFlight :
        /\ f.position # e.position
        /\ Ordered(e, f) => f.position < e.position
    /\ inFlight' = inFlight \cup {e}
    /\ UNCHANGED log

(* The transaction that inserted the events of S commits.                  *)
CommitEvents(S) ==
    /\ S # {}
    /\ \A e \in S : \A f \in inFlight : Ordered(e, f) => f \in S
    /\ log' = log \cup S
    /\ inFlight' = inFlight \ S

(* ... or ends without a trace.                                            *)
AbortEvents(S) ==
    /\ S # {}
    /\ inFlight' = inFlight \ S
    /\ UNCHANGED log

TransactionEnds == \E S \in SUBSET inFlight : CommitEvents(S) \/ AbortEvents(S)

FeedNext == (\E e \in FeedEvents : Insert(e)) \/ TransactionEnds

FeedSpec == FeedInit /\ [][FeedNext]_feed

(* The same without the bound on positions: what a store has to implement. *)
FeedStep == (\E e \in inFlight' : e \in Event /\ Insert(e)) \/ TransactionEnds

=============================================================================
