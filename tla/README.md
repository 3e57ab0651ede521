# TLA+ models of pupsourcing

pupsourcing is a Go library for event sourcing on a SQL database. Writers append
events to aggregates; projections read the events in the order of a global
position, keep a checkpoint and hand the events to a handler. There are three
adapters (postgres, mysql, sqlite), a runner for several projections in one
process, and two code generators, one for the schema and one for the mapping
between domain structs and stored events.

These modules model the parts in which concurrency, failure and order decide
whether the library is correct. TLC checks them on small instances, TLAPS proves
the most important results for every instance.

## Inventory

| Part | State it keeps | Operations | What is hard |
|---|---|---|---|
| `Store.Append` (es/adapters/*/store.go) | tables `events` and `aggregate_heads`, the sequence of `global_position`; all in the caller's transaction | read the head, check the expected version, insert the events, upsert the head | the head is read without a lock and written without a look; positions are taken before inserts wait; several appends in a transaction wait for each other; every statement may fail; the "transaction" may be a `*sql.DB` |
| `Store.ReadEvents`, checkpoints | table `projection_checkpoints` | read by position, get and upsert a checkpoint | events become readable out of order; the upsert is blind |
| `Store.ReadAggregateStream`, `Stream`, `AppendResult` | none | read an aggregate or a range of it, its version | a version read earlier, or of a part of the stream, becomes an expectation |
| `IsUniqueViolation` | none | classify driver errors | any unique key counts as a version conflict, with sqlite any constraint |
| `Processor` (es/adapters/*/processor.go, three identical files) | the transaction of a batch, `lastPosition` | `Run`, `processBatch` | crash, cancellation and failure between any two statements; handler effects outside of the transaction; shared partitions; changed partition counts |
| `HashPartitionStrategy` (es/projection) | none | `ShouldProcess` | conversion of the hash to `int` |
| `Runner` (es/projection/runner) | goroutines, an error channel, a WaitGroup, a context | `Run` | who ends first, errors after Run has returned, errors caused by cancellation |
| migrations generator | writes a SQL file | three dialects | its keys are what the rest relies on |
| eventmap generator (es/eventmap, cmd/eventmap-gen) | two Go files | discover event structs, generate the mapping and its tests | the walk and the writes are not atomic; versions come from paths; what older and newer builds read of each other's events |
| generated mapping (examples/eventmap-codegen) | none | `ToESEvents`, `FromESEvent`, helpers | version routing across deployments |
| examples, DBTX, Logger | callers and interfaces | | environment of the models |

How they interact: a `Processor` reads the table that `Append` writes, only
through the database; a `Runner` calls `Processor.Run` in goroutines and shares a
context with them; handlers are callbacks of `processBatch`; callers of `Append`
own the transaction and so decide about commit and rollback; the generated code
converts what callers append and what handlers are given.

What makes each part correct: the two tables of the store agree and the appends
form one legal history (Append); no decision is accepted that was made without
an event (commands); events of an aggregate are read in order (feed);
nothing is skipped, repeats are bounded, checkpoints only grow, everything is
handled in the end (processor); each aggregate has one owner (partitions); Run
returns, tells the real cause and leaves no goroutine behind (runner); storing
and reading back is as if the structs themselves were kept (event mapping). The
list of hazards, each with its line and its properties, is in PROJECT.json.

## Modules

| Module | Models | Checked by |
|---|---|---|
| `EventLog` | abstract: what Append promises, a legal history of committed appends | refined by `EventStore` and by `CommandHandling` |
| `EventFeed` | abstract: what readers of the events table may rely on | refined by `EventStore`, extended by `Processor` |
| `EventStore` | Append of the three adapters, one action per statement | `MCEventStore`, cfgs `Append*` |
| `EventStoreProofs` | theorems about `EventStore`: heads and writers | tlapm |
| `EventOrderProofs` | ... positions, and the refinement of `EventFeed` | tlapm |
| `EventLogProofs` | ... the refinement of `EventLog` | tlapm |
| `CommandHandling` | the load-decide-append cycle of callers, orderly ones and others, on `EventStore` | `MCCommandHandling`, cfg `Commands` |
| `CommandHandlingProofs` | theorems about `CommandHandling` | tlapm |
| `Partitioning` | `HashPartitionStrategy` | through `Processor` |
| `Processor` | `Processor.Run` and `processBatch` by several workers | `MCProcessor`, cfgs `Projection*` |
| `ProcessorProofs` | theorems about `Processor` (types, checkpoints, repeats) and `Partitioning` | tlapm |
| `NothingSkippedProofs` | ... why a projection skips nothing | tlapm |
| `Runner` | `Runner.Run` and its goroutines | cfg `RunnerRun` |
| `RunnerProofs` | theorems about `Runner` | tlapm |
| `EventStream` | abstract: what a generated mapping promises to an application | refined by `EventMap` |
| `EventMapping` | the pure part of the generator, and what the code it writes computes | through `EventMap` |
| `EventMap` | the generator's runs, the source tree, deployed instances | `MCEventMap`, cfgs `EventMap*` |
| `EventMapProofs` | theorems about `EventMap` | tlapm |

### EventStore

`events` and `heads` are the committed rows, `rows` and `newHeads` what each open
transaction has written. `Begin`, `Commit` and `Rollback` are the caller's.
`AppendStarts` is the code up to the first INSERT: the SELECT of the head and the
accepted expected version; `AppendRefused` is the early return with
`ErrOptimisticConcurrency`. An INSERT is two steps, `AssignPosition` (the database
takes a number from the sequence) and `InsertRow` or `InsertConflicts` (the row
meets the unique indexes), because between them a postgres or mysql insert may
wait for another transaction while its number is already taken. `UpsertHead` ends
the call. `StatementFails` is every other error. The validation of the batch
(no events, mixed aggregates, empty bounded context) returns before any statement
and changes nothing; `Batches` are the batches that pass it. A failing SELECT
changes nothing either: `Rollback` is all that follows.

`dialect` is the database behind the store: chosen in `Init` from `Dialects` and
never changed. It selects what the database does: statement or snapshot visibility
of the head, sequences outside of transactions or under the one write lock, and
the refusal of a stale sqlite reader to become a writer. These definitions are
marked external in the map; they state what the SQL of the adapters is written
against.

In this module a caller can only roll back after a failed statement, as every
caller in the repository does; `CommandHandling` has the others.

The operators marked *Variant* are definitions with a plausible bug, which the
properties must detect; nothing else uses them.

### EventLog and EventFeed

`EventStore` implements both (properties `ImplementsEventLog`,
`ImplementsEventFeed`). The mapping to `EventLog` is the identity on `history` and
`version <- heads`: every commit appends at most `MaxAppends` entries, each of them
legal in the history before it, and `aggregate_heads` is the summary of the
history. Legality is stated for each entry where it stands and not for states, so
a step of the specification cannot repair an earlier one.

The mapping to `EventFeed` forgets versions and ids: an aggregate's events become
readable in order and those of one transaction at once. With sqlite every step is
also one of the feed of a single writer, in which all events become readable in
order (`SqliteKeepsOrder`). `Processor` is built on `EventFeed` with the bound
`MaxPosition` (`FeedNext`); what a store has to implement is the same without the
bound (`FeedStep`). So what `Processor` shows holds for any writer that
`EventStore` allows.

### CommandHandling

A client loads the stream of an aggregate, or a range of it (`LoadStream`), keeps
`Stream.Version()`, and appends with that version as `Exact` (`NoStream` for 0) or
with `Any` (`AppendCommand`, `RefuseCommand`). What it remembers outlives its
transaction, so a decision may be appended in a later one. `LoadStream` sees its
transaction's snapshot in mysql and sqlite, the latest commits in postgres.

The calls take any `DBTX`. `dbtx` says whether the client passed a `*sql.Tx` or the
`*sql.DB`; with the latter `StatementCommits` makes each INSERT and the upsert
durable by itself, before anybody else's next step. In mysql and sqlite a caller
may go on with a transaction after a failed INSERT, which alone was undone
(`GoOn`); on the `*sql.DB` it may in all three. `orderly` remembers whether any
caller did either. `EndCommand` is Commit or Rollback, at any point, which is also
how a lost connection, a crash, a deadlock or a done context ends a command; on
the `*sql.DB` it leaves what has been committed by then.

`InsertIsRefused` has two constraints that a call can violate, a unique key and
the NOT NULL of a nil payload, and `IsUniqueViolation` classifies them as each
adapter does. An event stored without its head is `Torn`, and `TornForGood` shows
that no call of the library repairs it: the head is read, the next version is
taken, and every later Append fails, whatever it expects. What tears an aggregate
is never a version conflict: only the first INSERT of an Append can meet another
event's version (`FirstInsertClaimsBatch`), so a call that fails on a version has
written nothing.

### Processor

The workers are calls of `Run`, in one process or in several. Each SQL statement,
each call of the handler and each return is an action. `handled` and `repeats` are
history: the events the handler has processed, which no rollback undoes, and how
often it was run on one it had processed before. A batch is the
set of the events left to do: positions differ, so the set determines the sequence
that `ReadEvents` returns, and `NextEvent` is its lowest. `ReadBatch` sees
the latest commits (postgres); a snapshot from `GetCheckpoint` on, as in mysql and
sqlite, is the behaviour in which nothing commits between the two statements.
`Cancel`, `Crash`, `HandlerFails` and `StatementFails` share the budget
`MaxMishaps`, except for the failures a done context causes. `Redeploy` stops all
workers and changes `TotalPartitions`. `if lastPosition > 0` is the condition in
`CommitBatch` (nothing upserted, nothing changed).

### Partitioning

The FNV hash is any number of its range; the module models the conversion to
`int` (which wraps where int is as narrow as the hash) and Go's `%`. The run of two
workers uses it with a hash whose highest bit is set.

### Runner

One action per step of a goroutine: `Launch`, `ProcessorReturns` (by itself or
because the context is done), `ReportError` or `KeepQuiet`, `CloseChan` of the
goroutine that waits for the others, and the three ways out of the select. The
deferred cancel is part of `Return`. A processor is abstracted to how its `Run`
ends, which is what `Processor` shows: with an error at any time, and with the
context's error or `ErrProjectionStopped` once the context is done.

### EventMapping, EventMap and EventStream

`EventMapping` holds functions. A directory is a sequence of path elements. A
mapping, which stands for the text of a generated file, is the set of `EventInfo`s
it was written from. `ExtractVersion`, `DetectModulePath`, `ImportPath` and
`PackageName` are what the generator derives from paths and go.mod; `Compiles` is
when the Go compiler takes the file (imports resolve, aliases differ, cases and
helpers differ); `ToESEvents`, `FromESEvent`, the helpers and `GetEventVersion` are
what the file computes; `TestsPass` is what the generated tests assert. A payload
is known by its schema: the name of the struct it was marshalled from and the
version that its directory is documented to give.

`EventMap` lets three parties act. Developers add structs, move them where their
documented version stays the same, and save files that do not parse. Runs of the
generator walk one directory per step (`VisitDirectory`) while the developers go
on, and write the mapping and then its tests (`WriteCode`, `WriteTests`); a run may
end before it writes anything (`EndsEarly`), leave the mapping truncated
(`WriteCodeFails`), or leave old or truncated tests beside a new mapping
(`WriteTestsFails`). Instances are deployed one at a time with whatever builds
(`Deploy`), store slices of domain events or single ones through the helpers, and
have a projection (`Handle`) that stops before an event its build does not know.
`Checkouts` says where the module lies and what its go.mod looks like, `Flags` what
is passed as `-module`.

`EventStream` is the promise: the structs themselves are stored and seen, in order.
`EventMap` implements it with a mapping of the stored events to their payloads'
schemas. That is safety of reading only: that the next build still reads
everything is `NextBuildReadsAll`.

The developers keep to examples/eventmap-codegen/README.md: old structs stay, a
version number is not used for another struct, and a new version gets a new
directory. A struct that moves while a run walks may be missed by the run; the
mapping written by such a run is marked not `careful` and `NextBuildReadsAll` says
nothing of it.

`GeneratedTestsPass` has one more condition, `OneStructPerVersion`: no two structs
of the tree have the same name and version. Without it TLC finds, with four changes
of the tree, a struct that moves, is missing under its old path in the second
mapping, and is then added under that path again beside the moved one: the tests of
the first run compile again, and `TestEventTypeOf` fails, because the second mapping
has no case for it.

## Runs

Bounds are constants with *bound* in their comment.

| Run | Question | Instance |
|---|---|---|
| append | Do heads and events agree, is the history legal, what may readers rely on? Can two writers overtake each other? Do the invariants of the proofs (`WriterInv`, `OrderInv`) hold? | three dialects, 2 clients, 2 aggregates, 2 appends per transaction, batches of up to 2, no Append starts beyond position 2: so each client gets to append after and while the other does, with several events in a call and several calls in a transaction, to the aggregate it has read first or to another, and with ids that were used before |
| append_returns | Does every Append return although transactions wait in cycles? | postgres (mysql waits for the same keys) and sqlite, 2 clients, 2 aggregates, 2 appends of one event per transaction, no Append starts beyond position 3, so both clients reach their second append, crosswise |
| commands | Is a decision ever accepted that missed an event? What do the `*sql.DB` and a caller that goes on after a failure cost? | three dialects, 1 aggregate, 2 clients, 2 commands in all, batches of up to 2, 2 accepted appends per command, 3 ids, no Append starts beyond position 3: so a decision can be outdated by the other client at each statement, a range can hide the end of a stream of two, and an Append of two can break off between its events; a torn aggregate is met again by the second command |
| projection_alone | What do a crash, cancellation or failure cost a single worker? Is everything handled in the end, also behind batches with nothing in scope? | 3 events, batches of 2 (so a batch may be partial), 2 mishaps (so a batch can be handled a third time, and the bound of 4 repeated runs is reached), a scope of one aggregate out of two |
| projection_workers | What do two processes break that share a checkpoint? Do partitions hide events from each other? Is anything lost from 1 worker to 2 partitions? | 2 workers, 2 events, 2 mishaps: both workers may be stopped, and redeployed, in the middle of their work |
| runner_run | What does Run return, does it return, what does it leave behind? | 3 projections: one that fails first, one that is cut off by it, one that ends by itself |
| eventmap | Is storing and reading transparent across builds? Does the next build read everything? Do tests that compile pass, also when they are older than the mapping? | 2 event names, directories without a version, `v1`, `v2` and `old/v1` (same package name), 4 changes of the tree, 2 runs of the generator, 2 stored events, 2 instances: a struct can be added, generated, stored, and moved or joined by its next version before the second run, of which either file may fail, and an instance may stay with the first build; the fourth change can bring a moved struct back beside a second event, while tests of the first run are still there. The flag `-module` is in `eventmap_ancestor` |

The passing projection runs have `OneWriter = TRUE`: events become readable in the
order of positions, which is what sqlite guarantees. With postgres and mysql they
need not be, and `projection_gap` shows what follows from it.

The runs that expect a violation each show a place where the code does not do what
the repository says (PROJECT.json `findings` quotes it):

* `projection_gap`: an event that commits late is skipped for ever;
* `projection_cancel`: cancellation in a batch rolls it back and is reported as a failure;
* `projection_no_rows`: a handler error with sql.ErrNoRows in it does not stop the projection;
* `projection_repartition`: from 2 to 3 partitions events are skipped;
* `eventmap_ancestor`: in a checkout below a directory `v2` every struct gets
  version 2, the mapping compiles, its tests pass, and stored events of version 1
  are no longer read.

Some more follow from the models, or were met while reading, without a run of
their own:

* A duplicate event_id is reported as `ErrOptimisticConcurrency` although the
  version is free (es/store/store.go:12 speaks of version conflicts). With sqlite it
  may mean less: es/adapters/sqlite/store.go:338 "checks if an error is a SQLite
  unique constraint violation", and "constraint failed" also matches NOT NULL, so a
  nil payload is reported as a conflict for ever. `IsUniqueViolation` models it, no
  property claims that a conflict names a rival.
* "Append atomically appends one or more events" (es/store/store.go:20) holds for a
  caller that rolls back after an error; on a `*sql.DB`, or in mysql and sqlite for
  one that goes on, an aggregate is torn for good.
* examples/mysql-basic and examples/sqlite-basic append three events to one new
  aggregate with `NoStream` each: the second is refused.
* `ToESEvents` draws a fresh event_id per conversion, so a caller that converts
  again to retry with `Any` is not deduplicated.
* `FromESEvent`'s cases are written in the order of a map, so two runs over the
  same tree may write different text with the same meaning; and a go.mod that
  starts with a comment yields imports relative to nothing, which do not compile
  (the checkout `comment first`).
* examples/eventmap-codegen/projection_example.go:58: the inner switch of the
  handler has a default that ignores versions it does not list, after `FromESEvent`
  has accepted them.
* Events may be handled more than once, against "exactly-once semantics"
  (examples/README.md:328): after a mishap, because the handler's effect is not part
  of the checkpoint's transaction (`RepeatsAreBounded` bounds the repeated runs of
  the handler by a batch for each mishap), and without any when two processes run the same partition, because reading the checkpoint
  takes no lock (es/projection/runner/runner.go:60 calls it safe).
* On a 32-bit int some aggregates belong to no worker (theorem
  `NarrowIntLosesAggregates`), against es/projection/projection_test.go:110.
* A projection that the end of the caller's context cuts off in a batch, or by
  its deadline, is reported as failed, against es/projection/runner/runner.go:92:
  `ErrProjectionStopped` is made with `%v` and does not contain `context.Canceled`.
  So `ResultTellsTheCause` is claimed for a context the caller does not end only.
  A cancelled Run returns the context's error, not nil as line 105 says.

`CHECK_DEADLOCK FALSE` stands where the bounds (the highest position, the numbers
of commands, changes and runs) or the program itself (Run has returned and all
goroutines have ended) stop the model.

## Fairness

`EventStore`: a statement that can run runs; a caller whose Append has returned
ends its transaction (`CallerEnds`: all callers of the repository commit or have a
deferred rollback); the database breaks a cycle of waiting transactions
(`BreakDeadlock`, what postgres and InnoDB do) and sqlite gives up waiting for
its lock, or cannot become a writer any more (`LockTimeout`). Without
`BreakDeadlock` the property fails for postgres.

`Processor`: `Run` goes on while it can, notices a done context, and is started
again when it has ended (the supervisor of the process). Crashes, cancellations,
failures and new events are never forced, and the handler returns.

`Runner`: runnable goroutines run, and a processor whose context is done returns.
That a projection ever fails or ends by itself is not assumed.

`CommandHandling` and `EventMap` state safety only: nothing obliges a caller to
retry or a developer to run the generator.

## Proofs

`EventStoreProofs` proves for all clients, aggregates, batches, bounds and
dialects, from the assumptions on constants only:

* `TypeCorrect`: `Spec => []TypeOK`;
* `HeadsAlwaysAgree`: `Spec => []HeadsAgree`;
* `OneWriter`: `Spec => []OneWriterPerAggregate`;
* `UpsertIsFree`: `Spec => []UpsertNeverWaits`;
* `HeadsOnlyGrow`: `Spec => HeadsNeverMoveBack`.

`HeadsAgree` is not inductive: it says nothing about what open transactions will
add. `WriterInv` adds, for each client, that its uncommitted versions of an
aggregate follow the committed head without a gap (`FollowsCommitted`), that a
call that has inserted nothing yet started from a head not above the committed one
(`StartedFromHead`), and that snapshots are not ahead. The heart is lemma
`InsertIsNext`: if the first INSERT of a call passes the unique key, its version is
the committed head plus one, because all lower versions are committed; and no
other transaction can hold rows of the aggregate, because the lowest of them would
have that same version. So the unique key works as a lock on the aggregate, which
is why the blind upsert is safe. The lock of sqlite is not needed for it.

`EventOrderProofs` proves, from the same assumptions, what readers rely on:

* `NoEventTwice`: `Spec => []EventsAreUnique`;
* `PositionOrderIsVersionOrder`: `Spec => []AggregateOrder`;
* `StoreFeedsReaders`: `Spec => ImplementsEventFeed`;
* `SqliteFeedsInOrder`: `Spec => SqliteKeepsOrder`.

`AggregateOrder` is not inductive either: it says nothing about a position that an
INSERT has taken while it waits. `OrderInv` says where positions lie that are given
to rows, committed or not, or to a waiting INSERT: apart from each other, below
those still to be given, and in an aggregate in the order of versions. The last
part is the delicate one. That a waiting INSERT with position 5 and version 3 could
be overtaken by version 2 with position 6 is impossible because by `WriterInv` all
versions below that of a row, or of an INSERT that can succeed, are there already:
a writer with a lower version conflicts. For sqlite, where a rolled back position
is given again, the invariant has the holder of the write lock as the only one with
positions above the committed ones (`OneLockHolder`). The refinement then maps
`InsertRow` to `Insert`, `Commit` and `Rollback` of a transaction with rows to
`CommitEvents` and `AbortEvents`, and everything else to a stutter.

`EventLogProofs` proves `AppendsAreOneHistory`: `Spec => ImplementsEventLog`. Its
invariant `LogInv` says that the heads are the highest versions of the history
(`HistoryEndsAtHeads`), that the appends a transaction has accepted would continue
the history if it committed now (`AcceptedContinue`), and that a call that has
inserted a row stands right after the head its transaction sees
(`CallContinues`), which is `InsertIsNext` again. Other transactions' commits keep
that true because they cannot move a head under uncommitted rows
(`OneWriterPerAggregate`).

`ProcessorProofs` and `NothingSkippedProofs` prove for any workers, keys,
partition counts, hashes, scopes, batch sizes (0 too), mishaps and positions:

* `ProcessorTypes`: `Spec => []TypeOK`;
* `OneWorkerGuards`: `OneWorkerPerCheckpoint /\ Spec => []CheckpointGuards`;
* `OneWorkerMovesForward`: `OneWorkerPerCheckpoint /\ Spec => CheckpointsNeverMoveBack`;
* `MishapsCostOneBatch`: `OneWorkerPerCheckpoint /\ SamePartitions /\ Spec => []RepeatsAreBounded`;
* `OrderedFeedSkipsNothing`: `OneWriter /\ PartitionsStay /\ Spec => []NothingSkipped`;
* `AggregatesAreHandledInOrder`: `OneWriter /\ PartitionsStay /\ Spec => []AggregatesInOrder`.

The hypotheses are conditions on constants, each of them needed.
`OneWorkerPerCheckpoint` says that no two deployed workers have the same checkpoint
name: the upsert is blind, and without it the slower of two workers moves the
checkpoint back. `OneWriter` is what `SqliteFeedsInOrder` proves of sqlite;
`projection_gap` shows that `NothingSkipped` fails without it. `PartitionsStay`
says that a number of partitions stays once there are several (from one worker to
partitions is allowed, for their names are new); `projection_repartition` shows
that it fails without. That workers do not share a checkpoint is not needed for
these two: a checkpoint that moves back tells less, never something false.

The argument of `SkipInv`: new events come behind all readable ones
(`NewEventsComeLast`), and checkpoints are positions of readable events
(`AllLogged`), so nothing ever appears below one; what is left of a batch has no
gap above what has been reached (`NoGap`); so what a batch has passed (`Done`), and
what it leaves in its checkpoint (`CheckpointsTell`), has been handled or belongs to
others. `CheckpointsTell` speaks of all deployments at once, so that `Redeploy`
keeps it.

`RepeatsAreBounded` counts runs of the handler, not events: an event that is handled
a third time counts twice. It is about the past, and becomes inductive when the runs
so far are counted together with those that must still come. `Exposed` are the handled
events above the checkpoint of their worker that its running batch does not cover:
they will be handled again. `RepeatInv` says that both together are at most a batch
for each mishap so far, less a batch for each run whose context is done and that has
not ended yet, since its mishap is counted and its batch not lost. A mishap exposes
what one batch has done, which together with what is left of the batch is at most
`BatchSize` (`LosesOneBatch`). To handle an exposed event again adds one to `repeats`
and takes the event out of `Exposed`, into which only another mishap can bring it
back (`ExposedByHandle`); that a batch meets all exposed events of its worker below
its end (`HandledIsRead`) is why a commit leaves none behind. `SamePartitions` is needed
because a new number of partitions starts with new checkpoints.

`ProcessorProofs` also proves `WideIntHasOneOwner` for every size of hash and number
of workers, and `NarrowIntLosesAggregates`, its failure where int is too narrow.

`CommandHandlingProofs` proves about `CommandSpec`, for any number of clients,
commands, aggregates and events, whether the callers use transactions or not and go
on after failures or not:

* `CommandTypesHold`: `[]CommandTypeOK`;
* `DecisionsStayCurrent`: `[]DecisionsAreCurrent`;
* `HeadStaysBehind`: `[]HeadNeverAhead`;
* `CarefulCallersTearNothing`: `[]OnlyDisorderTears`;
* `FirstInsertClaims`: `[]FirstInsertClaimsBatch`;
* `TornStaysTorn`: `TornForGood`;
* `CommandsAreOneHistory`: `ImplementsEventLog`.

Here `WriterInv` is not an invariant, for a statement on the `*sql.DB` may commit an
event without its head. What is left of it is `StreamInv`: the stored versions have
no gap, heads and snapshots are not above them, one client at a time writes an
aggregate, and what it has inserted follows what is stored (`RowsFollow`). A
transaction only gets to write an aggregate whose head is not behind
(`WritesTheHead`): if it is, the next version is taken and the INSERT fails, which is
the whole of `TornForGood`. That the first INSERT of an Append claims the versions of
all its batch (`FirstInsertClaimsBatch`) follows from `RowsFollow` and the single
writer: the call's last event is the last one there is, stored or not. A statement on the `*sql.DB` is alone in its transaction
(`StatementAlone`). While all callers are careful, `OrderlyInv` gives `WriterInv`
back. `LogInv` of `EventLogProofs` needs no order among the callers, and so the
history stays legal even where aggregates are torn.

`EventMapProofs` proves for any names, directories, structs, instances and bounds
`MappingTypes`: `Spec => []TypeOK`, and from one hypothesis about the checkouts,
`NoVersionAbove`, that no element of the path to the source tree, or of the input
directory itself, is named `v<digits>` (`eventmap_ancestor` shows that without it
the claims are false):

* `MappingIsTransparent`: `Spec => ImplementsEventStream`, the whole refinement;
* `StoredEventsAreHonest`: type and version of each stored event name the schema of
  its payload;
* `NextBuildAlwaysReadsAll`: `Spec => []NextBuildReadsAll`;
* `GeneratedTestsAlwaysPass`: `Spec => []GeneratedTestsPass`, where no event is
  called `UnknownEvent`, the name that `TestErrorCases` takes for an unknown one.

`MapInv` says of each mapping, the one a run is building, the one on disk and
those of the instances, that each `EventInfo` has the version its directory is
documented to give; from it `ToESEvents` stores honest events and `FromESEvent`,
which chooses by type and version, can only choose a struct of that schema. That
needs the compiler's refusal of equal cases (`CasesDiffer`) only for the choice to
be a single one.

That nothing gets lost from one build to the next is `KnownInv`. Call known the
schemas that anything depends on: of stored events, of running mappings, and of the
mapping and the tests on disk. They live in the tree for ever (`KnownLives`); a run
that no move has disturbed has found each of them or has it in a directory still to
come (`KnownIsAhead`); and so its mapping has them all (`KnownIsFound`). The schemas
on disk must be counted in before they are deployed: an instance that is deployed
while a run walks brings its mapping into use behind the run's back.

`RunnerProofs` proves for every finite set of projections, by the invariant
`RunnerInv`, that no goroutine blocks on (`NoBlockedSend`) or panics at
(`NoLateSend`) the error channel, and that Run blames the right projection unless
the caller ended the context (`ResultIsHonest`). The invariant says that the
channel holds each goroutine that reported once and no other, so it is shorter
than the set of projections by those that have not sent yet.

Only model-checked: the runs that expect a violation, and the liveness properties
`AppendReturns`, `EveryEventIsHandled`, `RunReturns` and `GoroutinesEnd` (the prover
does not handle liveness under fairness). Each other property of the runs that pass
is a theorem.

## Not modelled

* Payloads, metadata, timestamps and logging: no property depends on them. For the
  same reason `extractFields` and `typeToString` of the eventmap generator, whose
  results reach no output, and the options of the generated functions.
* `FromESEvents`, which calls `FromESEvent` in a loop and stops at its first error.
* The fallbacks of `IsUniqueViolation` on words in messages, for drivers whose
  errors carry no code.
* A truncated generated file that happens to end between two declarations and so
  compiles with fewer of them.
* `PollInterval`: sleeping takes some time, none or more. `BatchSize` 0, which
  nothing refuses, is among the values `Processor` allows: every batch is empty and
  the projection never moves, safely. `EveryEventIsHandled` is checked for a size
  of 2 only, and would fail.
* Errors that another implementation of `ProcessorRunner` than the adapters' makes by
  itself and that wrap `context.Canceled`: the runner takes them for a cancellation.
* The order in which events are handled again: `AggregatesInOrder` says that an event
  comes after the first handling of those before it in its aggregate.
* CockroachDB (examples/cockroachdb-basic): the postgres adapter on a database
  with other isolation and with positions that are not a sequence.
* Writing the SQL file of the migrations generator; its keys and sequences are in
  `EventStore`.

## Plan

1. Done: `EventLog`, `EventFeed`, `EventStore` and its proofs, both refinements
   included; `CommandHandling`; `Partitioning`; `Processor` and its proofs; `Runner`
   and its proofs; `EventMapping`, `EventMap` and its proofs.
2. Extend: several projections with colliding checkpoint names; sqlite's stale
   snapshot in `Processor`; `Runner` composed with `Processor`.
3. Done: a theorem for every safety property of the runs, `CommandHandling`'s and
   the count of repeats included.
4. Prove: that the hypotheses fit together, from `SqliteKeepsOrder` and
   `ImplementsEventFeed` to the feed that `Processor` reads; what holds of repeats
   where workers share a checkpoint.
