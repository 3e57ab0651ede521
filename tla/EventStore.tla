----------------------------- MODULE EventStore -----------------------------
(***************************************************************************)
(* Store.Append of the three SQL adapters (es/adapters/postgres, mysql and *)
(* sqlite), run by concurrent clients, each inside a transaction of its    *)
(* own that may hold several appends.  One step is one SQL statement or    *)
(* one transaction boundary.  The database is the one the adapters are     *)
(* written against: unique keys with waits on uncommitted rows, statement  *)
(* or snapshot visibility, and auto-increment positions that are handed    *)
(* out outside of the transaction (postgres, mysql) or under the one write *)
(* lock (sqlite).                                                          *)
(*                                                                         *)
(* An event carries what the properties tell apart: its aggregate, its     *)
(* version, its EventID and its global position.                           *)
(***************************************************************************)
EXTENDS Integers, Sequences, FiniteSets

CONSTANTS
    Clients,        \* goroutines or processes that append
    Aggregates,     \* (bounded context, type, id) triples
    NoAggregate,    \* the aggregate of no call
    EventIDs,       \* the EventID of an event: chosen by the caller
    Expectations,   \* the expected versions callers pass: Any, NoStream, Exact
    Dialects,       \* the adapters, and so the databases, of the instance
    MaxBatch,       \* bound: events of one Append call
    MaxAppends,     \* bound: accepted Append calls of one transaction
    MaxPosition     \* bound: no Append starts beyond this position

ASSUME DialectsAssumption == Dialects \subseteq {"postgres", "mysql", "sqlite"}

ASSUME NoAggregateAssumption == NoAggregate \notin Aggregates

ASSUME BoundsAssumption ==
    /\ MaxBatch \in Nat \ {0}
    /\ MaxAppends \in Nat \ {0}
    /\ MaxPosition \in Nat \ {0}

Any      == -1
NoStream == 0

IsAny(expected)      == expected = Any
IsNoStream(expected) == expected = NoStream
IsExact(expected)    == expected > 0

(* es.Exact panics for a negative version.                                 *)
ASSUME ExpectationsAssumption == Expectations \subseteq Nat \cup {Any}

-----------------------------------------------------------------------------
VARIABLES
    dialect,        \* the database behind the store: never changes
    events,         \* committed rows of the events table
    heads,          \* committed rows of aggregate_heads, 0 for no row
    nextPosition,   \* the sequence behind global_position
    phase,          \* per client: where its transaction stands
    snapshot,       \* per client: the heads its snapshot reads see
    rows,           \* per client: events inserted, not committed
    newHeads,       \* per client: heads upserted, not committed, 0 for none
    call,           \* per client: the Append call that is running
    accepted,       \* per client: history of the transaction's appends
    history         \* history: the appends of committed transactions

database == <<dialect, events, heads, nextPosition>>
private  == <<phase, snapshot, rows, newHeads, call, accepted>>
vars     == <<database, private, history>>

(* InnoDB reads at REPEATABLE READ and sqlite in WAL mode keep the state   *)
(* of the first read; postgres at READ COMMITTED sees each new commit.     *)
SnapshotReads == dialect \in {"mysql", "sqlite"}

(* sqlite has one writer at a time and takes positions under its lock.     *)
SingleWriter  == dialect = "sqlite"

(* "idle": no transaction.  "begun": BeginTx, no statement so far.         *)
(* "open": between statements, outside of Append.  "inserting",            *)
(* "positioned", "upserting": inside Append, before the next INSERT, in    *)
(* the middle of it, and before the upsert of the head.  "conflict" and    *)
(* "error": Append returned ErrOptimisticConcurrency, or another error,    *)
(* after a statement failed.                                               *)
InAppend == {"inserting", "positioned", "upserting"}
Failed   == {"conflict", "error"}
Phases   == {"idle", "begun", "open"} \cup InAppend \cup Failed

NoCall == [aggregate |-> NoAggregate, expected |-> Any, from |-> 0,
           ids |-> << >>, inserted |-> 0, position |-> 0]

Batches == UNION {[1..n -> EventIDs] : n \in 1..MaxBatch}

NoHeads == [a \in Aggregates |-> 0]

Init ==
    /\ dialect \in Dialects
    /\ events = {}
    /\ heads = NoHeads
    /\ nextPosition = 1
    /\ phase = [c \in Clients |-> "idle"]
    /\ snapshot = [c \in Clients |-> NoHeads]
    /\ rows = [c \in Clients |-> {}]
    /\ newHeads = [c \in Clients |-> NoHeads]
    /\ call = [c \in Clients |-> NoCall]
    /\ accepted = [c \in Clients |-> << >>]
    /\ history = << >>

-----------------------------------------------------------------------------
(* What the database shows and whom it makes wait.                         *)

(* SELECT aggregate_version FROM aggregate_heads: own writes first.        *)
VisibleHead(c, a) ==
    IF newHeads[c][a] # 0 THEN newHeads[c][a]
    ELSE IF SnapshotReads /\ phase[c] # "begun" THEN snapshot[c][a]
    ELSE heads[a]

(* Variant: an exact version need only have been reached.                  *)
VersionReached(expected, current) ==
    /\ IsNoStream(expected) => current = 0
    /\ IsExact(expected) => current >= expected

(* The switch on expectedVersion at the start of Append.                   *)
VersionMatches(expected, current) ==
    /\ IsNoStream(expected) => current = 0
    /\ IsExact(expected) => current = expected

(* Variant: versions start from the current one.                           *)
RowWithoutStep(c) == [aggregate |-> call[c].aggregate,
                      version   |-> call[c].from + call[c].inserted,
                      id        |-> call[c].ids[call[c].inserted + 1],
                      position  |-> call[c].position]

(* The row the running INSERT adds.                                        *)
NewRow(c) == [aggregate |-> call[c].aggregate,
              version   |-> call[c].from + call[c].inserted + 1,
              id        |-> call[c].ids[call[c].inserted + 1],
              position  |-> call[c].position]

(* Variant: a schema without the key on aggregate and version.             *)
SameEventID(r, s) == r.id = s.id

(* UNIQUE (bounded_context, aggregate_type, aggregate_id,                  *)
(* aggregate_version) and UNIQUE event_id.                                 *)
SameKey(r, s) ==
    \/ r.aggregate = s.aggregate /\ r.version = s.version
    \/ r.id = s.id

(* Variant: a schema that does not check event_id.                         *)
DuplicateVersion(c) == \E r \in events \cup rows[c] :
    r.aggregate = NewRow(c).aggregate /\ r.version = NewRow(c).version

Duplicate(c)  == \E r \in events \cup rows[c] : SameKey(r, NewRow(c))

(* An INSERT waits while another transaction holds a row with its key.     *)
InsertWaitsFor(c) ==
    {d \in Clients \ {c} : \E r \in rows[d] : SameKey(r, NewRow(c))}

(* An upsert waits while another transaction holds the head's row.         *)
UpsertWaitsFor(c) ==
    {d \in Clients \ {c} : newHeads[d][call[c].aggregate] # 0}

(* A sqlite transaction holds the write lock from its first INSERT on.     *)
HoldsWriteLock(c) == rows[c] # {} \/ phase[c] \in {"positioned", "conflict"}

WriteLockWaitsFor(c) ==
    IF SingleWriter THEN {d \in Clients \ {c} : HoldsWriteLock(d)} ELSE {}

(* SQLITE_BUSY_SNAPSHOT: a read transaction whose snapshot is outdated     *)
(* cannot become a writer.                                                 *)
StaleSnapshot(c) ==
    SingleWriter /\ ~HoldsWriteLock(c) /\ snapshot[c] # heads

(* Variant: a sequence that does not see the transaction's own rows.       *)
CommittedPosition(c) == nextPosition

(* AUTOINCREMENT takes the sequence inside the transaction, a postgres or  *)
(* InnoDB sequence moves on at once and for good.                          *)
FreshPosition(c) ==
    IF SingleWriter THEN nextPosition + Cardinality(rows[c]) ELSE nextPosition

-----------------------------------------------------------------------------
(* db.BeginTx by the caller.                                               *)
Begin(c) ==
    /\ phase[c] = "idle"
    /\ phase' = [phase EXCEPT ![c] = "begun"]
    /\ UNCHANGED <<database, snapshot, rows, newHeads, call, accepted, history>>

TakeSnapshot(c) ==
    snapshot' = IF SnapshotReads /\ phase[c] = "begun"
                THEN [snapshot EXCEPT ![c] = heads]
                ELSE snapshot

(* Append reads the head and accepts the expected version.                 *)
AppendStarts(c, a, expected, ids) ==
    /\ phase[c] \in {"begun", "open"}
    /\ FreshPosition(c) <= MaxPosition
    /\ Len(accepted[c]) < MaxAppends
    /\ VersionMatches(expected, VisibleHead(c, a))
    /\ phase' = [phase EXCEPT ![c] = "inserting"]
    /\ TakeSnapshot(c)
    /\ call' = [call EXCEPT ![c] =
                    [aggregate |-> a, expected |-> expected,
                     from |-> VisibleHead(c, a), ids |-> ids,
                     inserted |-> 0, position |-> 0]]
    /\ UNCHANGED <<database, rows, newHeads, accepted, history>>

(* Append reads the head and returns ErrOptimisticConcurrency: nothing was *)
(* written and the transaction can go on.                                  *)
AppendRefused(c, a, expected) ==
    /\ phase[c] \in {"begun", "open"}
    /\ ~VersionMatches(expected, VisibleHead(c, a))
    /\ phase' = [phase EXCEPT ![c] = "open"]
    /\ TakeSnapshot(c)
    /\ UNCHANGED <<database, rows, newHeads, call, accepted, history>>

(* INSERT INTO events, first half: the row gets its global_position.       *)
TakePosition(c) ==
    /\ phase[c] = "inserting"
    /\ WriteLockWaitsFor(c) = {}
    /\ phase' = [phase EXCEPT ![c] = "positioned"]
    /\ call' = [call EXCEPT ![c].position = FreshPosition(c)]
    /\ nextPosition' = IF SingleWriter THEN nextPosition ELSE nextPosition + 1
    /\ UNCHANGED <<dialect, events, heads, snapshot, rows, newHeads, accepted, history>>

AssignPosition(c) == ~StaleSnapshot(c) /\ TakePosition(c)

(* INSERT INTO events, second half: the row enters the unique indexes.     *)
InsertRow(c) ==
    /\ phase[c] = "positioned"
    /\ InsertWaitsFor(c) = {}
    /\ ~Duplicate(c)
    /\ rows' = [rows EXCEPT ![c] = @ \cup {NewRow(c)}]
    /\ call' = [call EXCEPT ![c] =
                    [call[c] EXCEPT !.inserted = @ + 1, !.position = 0]]
    /\ phase' = [phase EXCEPT ![c] =
                    IF call[c].inserted + 1 = Len(call[c].ids)
                    THEN "upserting" ELSE "inserting"]
    /\ UNCHANGED <<database, snapshot, newHeads, accepted, history>>

(* Variant: Append tries the same INSERT again.                            *)
RetryInsert(c) ==
    /\ phase[c] = "positioned"
    /\ Duplicate(c)
    /\ UNCHANGED vars

(* The INSERT meets a committed row, or one of its own transaction, with   *)
(* its key: a unique violation, returned as ErrOptimisticConcurrency.      *)
InsertConflicts(c) ==
    /\ phase[c] = "positioned"
    /\ Duplicate(c)
    /\ phase' = [phase EXCEPT ![c] = "conflict"]
    /\ UNCHANGED <<database, snapshot, rows, newHeads, call, accepted, history>>

(* Variant: the head becomes the number of events of the batch.            *)
LatestOfBatch(c) == Len(call[c].ids)

(* Variant: the next version to be given, not the last one given.          *)
NextOfBatch(c) == call[c].from + Len(call[c].ids) + 1

(* The version of the last event of the batch.                             *)
LatestVersion(c) == call[c].from + Len(call[c].ids)

(* The upsert of aggregate_heads sets the head without looking at it, and  *)
(* Append returns its AppendResult.                                        *)
UpsertHead(c) ==
    LET latest == LatestVersion(c) IN
    /\ phase[c] = "upserting"
    /\ UpsertWaitsFor(c) = {}
    /\ newHeads' = [newHeads EXCEPT ![c][call[c].aggregate] = latest]
    /\ accepted' = [accepted EXCEPT ![c] =
                        Append(@, [aggregate |-> call[c].aggregate,
                                   expected |-> call[c].expected,
                                   from |-> call[c].from, to |-> latest])]
    /\ phase' = [phase EXCEPT ![c] = "open"]
    /\ call' = [call EXCEPT ![c] = NoCall]
    /\ UNCHANGED <<database, snapshot, rows, history>>

(* A statement of Append fails for a reason that is no unique violation:   *)
(* the connection is lost, the context ends, the database chose this       *)
(* transaction to break a deadlock or answers SQLITE_BUSY.                 *)
StatementFails(c) ==
    /\ phase[c] \in InAppend
    /\ phase' = [phase EXCEPT ![c] = "error"]
    /\ UNCHANGED <<database, snapshot, rows, newHeads, call, accepted, history>>

EndTransaction(c) ==
    /\ phase' = [phase EXCEPT ![c] = "idle"]
    /\ snapshot' = [snapshot EXCEPT ![c] = NoHeads]
    /\ rows' = [rows EXCEPT ![c] = {}]
    /\ newHeads' = [newHeads EXCEPT ![c] = NoHeads]
    /\ call' = [call EXCEPT ![c] = NoCall]
    /\ accepted' = [accepted EXCEPT ![c] = << >>]

(* What a client has written becomes readable, all at once.                *)
Publish(c) ==
    /\ events' = events \cup rows[c]
    /\ heads' = [a \in Aggregates |->
                    IF newHeads[c][a] # 0 THEN newHeads[c][a] ELSE heads[a]]
    /\ history' = history \o accepted[c]
    /\ nextPosition' = IF SingleWriter THEN FreshPosition(c) ELSE nextPosition
    /\ UNCHANGED dialect

(* tx.Commit by the caller, after its last Append.                         *)
Commit(c) ==
    /\ phase[c] \in {"begun", "open"}
    /\ Publish(c)
    /\ EndTransaction(c)

(* tx.Rollback by the caller, or the end of its process or connection at   *)
(* any point.                                                              *)
Rollback(c) ==
    /\ phase[c] # "idle"
    /\ EndTransaction(c)
    /\ UNCHANGED <<database, history>>

-----------------------------------------------------------------------------
AppendStep(c) ==
    \/ AssignPosition(c)
    \/ InsertRow(c)
    \/ InsertConflicts(c)
    \/ UpsertHead(c)

Next == \E c \in Clients :
    \/ Begin(c)
    \/ \E a \in Aggregates, expected \in Expectations, ids \in Batches :
            AppendStarts(c, a, expected, ids)
    \/ \E a \in Aggregates, expected \in Expectations :
            AppendRefused(c, a, expected)
    \/ AppendStep(c)
    \/ StatementFails(c)
    \/ Commit(c)
    \/ Rollback(c)

Spec == Init /\ [][Next]_vars

-----------------------------------------------------------------------------
(* Fairness.  A statement that can run, runs.  A caller whose Append has   *)
(* returned ends its transaction in the end, as every caller of the        *)
(* repository does with Commit and a deferred Rollback.  The database      *)
(* breaks a cycle of waiting transactions by failing one of them, and      *)
(* sqlite gives up waiting for its write lock.                             *)

WaitsFor(c) ==
    CASE phase[c] = "inserting"  -> WriteLockWaitsFor(c)
      [] phase[c] = "positioned" -> InsertWaitsFor(c)
      [] phase[c] = "upserting"  -> UpsertWaitsFor(c)
      [] OTHER -> {}

Tangled(S)   == S # {} /\ \A c \in S : WaitsFor(c) \cap S # {}
WaitCycle(S) == Tangled(S) /\ \A T \in SUBSET S : Tangled(T) => T = S

BreakDeadlock ==
    \E S \in SUBSET Clients : WaitCycle(S) /\ \E c \in S : StatementFails(c)

LockTimeout(c) ==
    SingleWriter /\ phase[c] = "inserting" /\ StatementFails(c)

CallerEnds(c) ==
    Commit(c) \/ (phase[c] \notin InAppend /\ Rollback(c))

Fairness ==
    /\ \A c \in Clients :
        WF_vars(AppendStep(c)) /\ WF_vars(CallerEnds(c)) /\ WF_vars(LockTimeout(c))
    /\ WF_vars(BreakDeadlock)

FairSpec == Spec /\ Fairness

-----------------------------------------------------------------------------
(* Properties.                                                             *)

StoredEvents == [aggregate : Aggregates, version : Nat \ {0},
                 id : EventIDs, position : Nat \ {0}]

Calls == [aggregate : Aggregates, expected : Expectations, from : Nat,
          ids : Batches, inserted : 0..MaxBatch, position : Nat]

AppendRecords == [aggregate : Aggregates, expected : Expectations,
                  from : Nat, to : Nat \ {0}]

(* A call in progress has a batch, and has inserted all of it exactly when *)
(* the upsert of the head is next.                                         *)
CallFitsPhase(c) == phase[c] \in InAppend =>
    /\ call[c] \in Calls
    /\ call[c].inserted <= Len(call[c].ids)
    /\ phase[c] = "upserting" <=> call[c].inserted = Len(call[c].ids)
    /\ phase[c] = "positioned" => call[c].position > 0

(* Types, and what the phase of a client says about its running call.      *)
TypeOK ==
    /\ dialect \in Dialects
    /\ events \in SUBSET StoredEvents
    /\ heads \in [Aggregates -> Nat]
    /\ nextPosition \in Nat \ {0}
    /\ phase \in [Clients -> Phases]
    /\ snapshot \in [Clients -> [Aggregates -> Nat]]
    /\ rows \in [Clients -> SUBSET StoredEvents]
    /\ \A c \in Clients : IsFiniteSet(rows[c])
    /\ newHeads \in [Clients -> [Aggregates -> Nat]]
    /\ call \in [Clients -> Calls \cup {NoCall}]
    /\ accepted \in [Clients -> Seq(AppendRecords)]
    /\ history \in Seq(AppendRecords)
    /\ \A c \in Clients : CallFitsPhase(c)

VersionsOf(S, a) == {r.version : r \in {s \in S : s.aggregate = a}}

(* The two tables agree: the committed events of an aggregate have the     *)
(* versions 1, 2, ... up to its head, with no gap and none beyond, however *)
(* the statements of concurrent appends, their failures and rollbacks      *)
(* interleave (the head is read without a lock and written blindly).       *)
HeadsAgree == \A a \in Aggregates : VersionsOf(events, a) = 1..heads[a]

(* The keys of the events table: no event is stored twice, not even when a *)
(* caller that lost the answer of its Commit appends the same events again *)
(* with Any(); no version and no position is given to two events.          *)
EventsAreUnique == \A r, s \in events : r # s =>
    /\ ~SameKey(r, s)
    /\ r.position # s.position

(* A reader that goes through the events by global_position sees each      *)
(* aggregate in the order of its versions, although positions are handed   *)
(* out before the insert that takes them has waited for its turn.          *)
AggregateOrder == \A r, s \in events :
    r.aggregate = s.aggregate /\ r.version < s.version
        => r.position < s.position

(* Between its first INSERT for an aggregate and the end of its            *)
(* transaction a client is the aggregate's only writer.                    *)
OneWriterPerAggregate == \A c, d \in Clients : c # d =>
    \A r \in rows[c], s \in rows[d] : r.aggregate # s.aggregate

(* Why these hold: the inductive invariant of the proofs.  The uncommitted *)
(* versions of a client follow the committed head of their aggregate       *)
(* without a gap; a call that has inserted nothing started from a head     *)
(* that is at most the committed one, or from the one its own transaction  *)
(* left.  So a first INSERT succeeds only right after the committed head,  *)
(* on the one version every other writer of the aggregate would need.      *)
PendingHead(c, a) ==
    IF call[c].aggregate = a /\ call[c].inserted > 0
    THEN call[c].from + call[c].inserted
    ELSE newHeads[c][a]

FollowsCommitted(c) == \A a \in Aggregates :
    /\ VersionsOf(rows[c], a) = (heads[a] + 1)..PendingHead(c, a)
    /\ PendingHead(c, a) # 0 => PendingHead(c, a) > heads[a]

StartedFromHead(c) ==
    phase[c] \in {"inserting", "positioned"} /\ call[c].inserted = 0 =>
        IF newHeads[c][call[c].aggregate] # 0
        THEN call[c].from = newHeads[c][call[c].aggregate]
        ELSE call[c].from <= heads[call[c].aggregate]

ClientInv(c) ==
    /\ FollowsCommitted(c)
    /\ StartedFromHead(c)
    /\ \A a \in Aggregates : snapshot[c][a] <= heads[a]
    /\ phase[c] \notin InAppend \cup Failed => call[c] = NoCall

WriterInv ==
    /\ HeadsAgree
    /\ OneWriterPerAggregate
    /\ \A c \in Clients : ClientInv(c)

(* The rows of the events table, uncommitted ones too, and the position a  *)
(* running INSERT has taken.                                               *)
AllRows == events \cup UNION {rows[c] : c \in Clients}

Positioned == {c \in Clients : phase[c] = "positioned"}

(* Why positions follow versions: the inductive invariant of that proof.   *)
(* Every position given away lies below those that may still be given; in  *)
(* sqlite, which gives the positions of a rolled back transaction away     *)
(* again, only the one writer has any that lie above the committed ones.   *)
PositionsAreTaken ==
    /\ \A r \in events : r.position < nextPosition
    /\ \A c \in Clients : \A r \in rows[c] :
        /\ r.position < FreshPosition(c)
        /\ SingleWriter => r.position >= nextPosition
    /\ \A c \in Positioned :
        IF SingleWriter THEN call[c].position = FreshPosition(c)
                        ELSE call[c].position < nextPosition

OneLockHolder == SingleWriter =>
    \A c, d \in Clients : HoldsWriteLock(c) /\ HoldsWriteLock(d) => c = d

PositionsDiffer ==
    /\ \A r, s \in AllRows : r # s => ~SameKey(r, s) /\ r.position # s.position
    /\ \A c \in Positioned : \A r \in AllRows : r.position # call[c].position
    /\ \A c, d \in Positioned : c # d => call[c].position # call[d].position

(* An INSERT that has taken its position, and waits, is after the versions *)
(* below its own.  A lower one could only come later from a writer that    *)
(* started before: its version is taken by then, and it conflicts.         *)
PositionsFollowVersions ==
    /\ \A r, s \in AllRows : r.aggregate = s.aggregate /\ r.version < s.version
            => r.position < s.position
    /\ \A c \in Positioned : \A r \in AllRows :
        r.aggregate = call[c].aggregate /\ r.version < NewRow(c).version
            => r.position < call[c].position

OrderInv ==
    /\ PositionsAreTaken
    /\ OneLockHolder
    /\ PositionsDiffer
    /\ PositionsFollowVersions

(* The upsert of the head never waits for another transaction and never    *)
(* overwrites one: the version keys of the inserted events are the lock.   *)
UpsertNeverWaits == \A c \in Clients :
    phase[c] = "upserting" => UpsertWaitsFor(c) = {}

(* No commit ever lowers the version of an aggregate (the upsert sets it   *)
(* to a value computed from a head read earlier).                          *)
HeadsNeverMoveBack == [][\A a \in Aggregates : heads'[a] >= heads[a]]_vars

(* Append's promise to its callers: the appends of committed transactions  *)
(* are one legal history, each standing right where its caller expected    *)
(* the aggregate to be, and aggregate_heads is its summary.                *)
Log == INSTANCE EventLog WITH version <- heads
ImplementsEventLog == Log!Spec

(* What the readers of the events table may rely on: an aggregate's events *)
(* become readable in order and one transaction's at once.                 *)
ReaderView(S) == {[position |-> r.position, aggregate |-> r.aggregate] : r \in S}

Feed(oneWriter) == INSTANCE EventFeed
    WITH log <- ReaderView(events),
         inFlight <- ReaderView(UNION {rows[c] : c \in Clients}),
         OneWriter <- oneWriter
ImplementsEventFeed ==
    Feed(FALSE)!FeedInit /\ [][Feed(FALSE)!FeedStep]_<<events, rows>>

(* With sqlite all events, not only those of one aggregate, become         *)
(* readable in the order of their positions: its steps are also steps of   *)
(* the feed of a single writer.                                            *)
SqliteKeepsOrder == [][SingleWriter => Feed(TRUE)!FeedStep]_<<events, rows>>

(* Every Append returns: no client waits for ever for a row of another     *)
(* one, whatever order the transactions touch their aggregates in.         *)
AppendReturns == \A c \in Clients : phase[c] \in InAppend ~> phase[c] \notin InAppend

=============================================================================
