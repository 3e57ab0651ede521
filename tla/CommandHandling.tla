--------------------------- MODULE CommandHandling ---------------------------
(***************************************************************************)
(* Callers of the event store that handle commands: they read the stream   *)
(* of an aggregate (ReadAggregateStream), decide on what they read, and    *)
(* append with the stream's version as the expected one.  The calls take   *)
(* any DBTX, and the callers are not all careful: some pass the *sql.DB,   *)
(* where every statement commits by itself, and some go on with their      *)
(* transaction after an Append that failed, which mysql and sqlite allow.  *)
(*                                                                         *)
(* The statements of Append, and the database, are those of EventStore.    *)
(***************************************************************************)
EXTENDS EventStore, FiniteSetsExt

CONSTANTS
    DBTXs,          \* what callers pass to the store: "tx", "db"
    MaxCommands     \* bound: commands of all clients

ASSUME CallersAssumption ==
    /\ DBTXs \subseteq {"tx", "db"}
    /\ MaxCommands \in Nat

VARIABLES
    dbtx,           \* per client: what it passes to its calls
    stream,         \* per client: the Stream.Version() it knows
    snapshotEvents, \* per client: versions its snapshot reads see
    orderly,        \* history: no caller did what the header tells
    commands        \* bound: counts commands

callers == <<dbtx, stream, snapshotEvents, orderly, commands>>

CommandInit ==
    /\ Init
    /\ dbtx = [c \in Clients |-> "tx"]
    /\ stream = [c \in Clients |-> NoHeads]
    /\ snapshotEvents = [c \in Clients |-> NoHeads]
    /\ orderly = TRUE
    /\ commands = 0

(* The last version among events, 0 if there is none: Stream.Version().    *)
Version(S, a) == Max({0} \cup {r.version : r \in {s \in S : s.aggregate = a}})

-----------------------------------------------------------------------------
(* IsUniqueViolation: the adapters of postgres and mysql look at the code  *)
(* of the error, the one of sqlite at its text, where "constraint failed"  *)
(* stands for every kind of constraint.                                    *)

IsUniqueViolation(error) ==
    \/ error = "unique"
    \/ error = "not null" /\ dialect = "sqlite"

(* An INSERT fails, and Append returns the error its class stands for.     *)
InsertFails(c, error) ==
    /\ phase' = [phase EXCEPT ![c] =
                    IF IsUniqueViolation(error) THEN "conflict" ELSE "error"]
    /\ UNCHANGED <<database, snapshot, rows, newHeads, call, accepted, history>>

(* SELECT ... WHERE aggregate_version >= from AND aggregate_version <= to  *)
(* ORDER BY aggregate_version, and the Version() of what it returns.       *)
ReadAggregateStream(S, a, from, to) ==
    Version({r \in S : from <= r.version /\ r.version <= to}, a)

-----------------------------------------------------------------------------
(* A transaction keeps the snapshot of its first read; a statement on the  *)
(* *sql.DB sees what is committed.                                         *)
FirstRead(c) == SnapshotReads /\ phase[c] = "begun"

SnapshotOfEvents(c) ==
    snapshotEvents' =
        IF FirstRead(c)
        THEN [snapshotEvents EXCEPT ![c] = [a \in Aggregates |-> Version(events, a)]]
        ELSE snapshotEvents

VisibleEvents(c) ==
    rows[c] \cup {r \in events :
        ~SnapshotReads \/ phase[c] = "begun"
            \/ r.version <= snapshotEvents[c][r.aggregate]}

(* A caller begins a transaction, or takes the *sql.DB for one Append.     *)
StartCommand(c, target) ==
    /\ commands < MaxCommands
    /\ commands' = commands + 1
    /\ Begin(c)
    /\ dbtx' = [dbtx EXCEPT ![c] = target]
    /\ orderly' = (orderly /\ target = "tx")
    /\ UNCHANGED <<stream, snapshotEvents>>

(* It reads a stream, or a range of it, and remembers its version.         *)
LoadStream(c, a, from, to) ==
    /\ phase[c] \in {"begun", "open"}
    /\ stream' = [stream EXCEPT ![c][a] =
                    ReadAggregateStream(VisibleEvents(c), a, from, to)]
    /\ phase' = [phase EXCEPT ![c] = IF dbtx[c] = "tx" THEN "open" ELSE @]
    /\ TakeSnapshot(c)
    /\ SnapshotOfEvents(c)
    /\ UNCHANGED <<database, rows, newHeads, call, accepted, history,
                   dbtx, orderly, commands>>

(* The expected version: the one the decision was made on, or Any(); of    *)
(* those that the callers of the instance pass.                            *)
ExpectedBy(c, a) == {stream[c][a], Any} \cap Expectations

AppendCommand(c, a, expected, ids) ==
    /\ dbtx[c] = "db" => phase[c] = "begun"
    /\ AppendStarts(c, a, expected, ids)
    /\ SnapshotOfEvents(c)
    /\ UNCHANGED <<dbtx, stream, orderly, commands>>

RefuseCommand(c, a, expected) ==
    /\ dbtx[c] = "db" => phase[c] = "begun"
    /\ AppendRefused(c, a, expected)
    /\ SnapshotOfEvents(c)
    /\ UNCHANGED <<dbtx, stream, orderly, commands>>

-----------------------------------------------------------------------------
(* The statements of an Append that was started.                           *)

(* On the *sql.DB no snapshot of an earlier statement can be outdated.     *)
InsertStarts(c) ==
    /\ IF dbtx[c] = "tx" THEN AssignPosition(c) ELSE TakePosition(c)
    /\ UNCHANGED callers

InsertSucceeds(c) ==
    /\ InsertRow(c)
    /\ UNCHANGED callers

(* A key of the row is taken, or a column that must not be null is (the    *)
(* payload of the event is nil).                                           *)
InsertIsRefused(c) ==
    /\ phase[c] = "positioned"
    /\ \/ Duplicate(c) /\ InsertFails(c, "unique")
       \/ InsertFails(c, "not null")
    /\ UNCHANGED callers

UpsertSucceeds(c) ==
    /\ dbtx[c] = "db" => WriteLockWaitsFor(c) = {}
    /\ UpsertHead(c)
    /\ UNCHANGED callers

(* A statement on the *sql.DB that has taken effect commits at once.       *)
Unpublished(c) == dbtx[c] = "db" /\ (rows[c] # {} \/ newHeads[c] # NoHeads)

StatementCommits(c) ==
    /\ Unpublished(c)
    /\ Publish(c)
    /\ rows' = [rows EXCEPT ![c] = {}]
    /\ newHeads' = [newHeads EXCEPT ![c] = NoHeads]
    /\ accepted' = [accepted EXCEPT ![c] = << >>]
    /\ UNCHANGED <<phase, snapshot, call, callers>>

(* The caller goes on although an INSERT has failed.  In mysql and sqlite  *)
(* only that INSERT is undone and the transaction, with the rows inserted *)
(* before, lives on; postgres refuses everything but a rollback.           *)
GoOn(c) ==
    /\ phase[c] \in Failed
    /\ dbtx[c] = "db" \/ dialect \in {"mysql", "sqlite"}
    /\ phase' = [phase EXCEPT ![c] = "open"]
    /\ call' = [call EXCEPT ![c] = NoCall]
    /\ orderly' = FALSE
    /\ UNCHANGED <<database, snapshot, rows, newHeads, accepted, history,
                   dbtx, stream, snapshotEvents, commands>>

(* The transaction ends: by its caller, with the process, or with the      *)
(* connection, the context or a deadlock that makes a statement fail.      *)
EndCommand(c) ==
    /\ Commit(c) \/ Rollback(c)
    /\ dbtx' = [dbtx EXCEPT ![c] = "tx"]
    /\ snapshotEvents' = [snapshotEvents EXCEPT ![c] = NoHeads]
    /\ UNCHANGED <<stream, orderly, commands>>

(* What a statement on the *sql.DB writes is committed before anybody's    *)
(* next step.                                                              *)
CommandNext == \E c \in Clients :
    /\ \A d \in Clients \ {c} : ~Unpublished(d)
    /\ \/ StatementCommits(c)
       \/ /\ ~Unpublished(c)
          /\ \/ \E target \in DBTXs : StartCommand(c, target)
             \/ \E a \in Aggregates, from, to \in 1..MaxPosition :
                    LoadStream(c, a, from, to)
             \/ \E a \in Aggregates, ids \in Batches :
                    \E expected \in ExpectedBy(c, a) : AppendCommand(c, a, expected, ids)
             \/ \E a \in Aggregates :
                    \E expected \in ExpectedBy(c, a) : RefuseCommand(c, a, expected)
             \/ InsertStarts(c)
             \/ InsertSucceeds(c)
             \/ InsertIsRefused(c)
             \/ UpsertSucceeds(c)
             \/ GoOn(c)
             \/ EndCommand(c)

CommandSpec == CommandInit /\ [][CommandNext]_<<vars, callers>>

-----------------------------------------------------------------------------
(* Properties.                                                             *)

(* Types, and what a client passes to its calls.                           *)
CommandTypeOK ==
    /\ TypeOK
    /\ dbtx \in [Clients -> DBTXs \cup {"tx"}]
    /\ stream \in [Clients -> [Aggregates -> Nat]]
    /\ snapshotEvents \in [Clients -> [Aggregates -> Nat]]
    /\ orderly \in BOOLEAN
    /\ commands \in 0..MaxCommands
    /\ \A c \in Clients : Unpublished(c) => phase[c] \in InAppend \cup {"open"}

(* An append that was decided on a stream is accepted only if the stream   *)
(* had all the events of its aggregate, and until the transaction ends     *)
(* nobody else's event joins them: not a decision on an old snapshot, on a *)
(* stream loaded in an earlier transaction, or on a part of the stream,    *)
(* whose Version() is not the aggregate's.                                 *)
DecisionsAreCurrent == \A c \in Clients : \A i \in DOMAIN accepted[c] :
    LET append == accepted[c][i] IN
    dbtx[c] = "tx" /\ ~IsAny(append.expected) =>
        \A v \in VersionsOf(events, append.aggregate) : v <= append.expected

(* Whatever the callers do, no aggregate has a gap in its versions, and    *)
(* its head never claims an event that is not there: readers of a stream   *)
(* get a prefix of the truth.                                              *)
HeadNeverAhead == \A a \in Aggregates :
    /\ VersionsOf(events, a) = 1..Version(events, a)
    /\ heads[a] <= Version(events, a)

(* The head falls behind the events only where a caller passed a *sql.DB   *)
(* or went on after a failed Append.                                       *)
OnlyDisorderTears == orderly => HeadsAgree

(* An aggregate is torn when its events run past its head and no Append on *)
(* the *sql.DB is about to write the head.                                 *)
BeingAppended(a) == \E c \in Clients : dbtx[c] = "db" /\
    (newHeads[c][a] # 0 \/ (call[c].aggregate = a /\ phase[c] \in InAppend))

Torn(a) == Version(events, a) > heads[a] /\ ~BeingAppended(a)

(* What an Append broken off half-way costs: the head is read, the next    *)
(* version is taken, and every later Append to the aggregate, whatever it  *)
(* expects, is refused; no call of the store can repair it.                *)
TornForGood ==
    [][\A a \in Aggregates : Torn(a) =>
            heads'[a] = heads[a] /\ Version(events', a) = Version(events, a)]_database

(* Append reads the head once, without a lock, and gives the versions of   *)
(* its batch away one INSERT at a time.  Only the first INSERT can meet    *)
(* another event's version: once it has succeeded nobody, careful or not,  *)
(* stores or holds a version that the rest of the batch needs.  So a call  *)
(* that fails on a version has written nothing, and going on after it      *)
(* tears nothing; what stops a batch half-way is an EventID that is taken  *)
(* or a column that must not be null.                                      *)
FirstInsertClaimsBatch == \A c \in Clients :
    phase[c] \in {"inserting", "positioned"} /\ call[c].inserted > 0 =>
        \A v \in VersionsOf(AllRows, call[c].aggregate) :
            v <= call[c].from + call[c].inserted

=============================================================================
