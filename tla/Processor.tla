------------------------------ MODULE Processor ------------------------------
(***************************************************************************)
(* Processor.Run and processBatch (the same code in the three adapters),   *)
(* run by workers of one projection that may crash, be cancelled, restart, *)
(* fail, share a partition or be redeployed with another partition count,  *)
(* while transactions keep committing events.                              *)
(*                                                                         *)
(* A worker opens a transaction, reads its checkpoint, reads a batch,      *)
(* hands the events to the projection's handler one by one, writes the     *)
(* checkpoint and commits.  The handler persists what it does by itself:   *)
(* it is not undone when the transaction of the batch is.                  *)
(***************************************************************************)
EXTENDS EventFeed, Partitioning, Sequences, FiniteSets

CONSTANTS
    Workers,            \* processes or goroutines running Processor.Run
    Key,                \* PartitionKey of each worker
    Totals,             \* TotalPartitions, one value per deployment
    Scope,              \* the aggregates the projection is scoped to
    Hash,               \* the hash of each aggregate's ID
    BatchSize,          \* ProcessorConfig.BatchSize
    MaxMishaps          \* bound: crashes, cancellations and failures

ASSUME WorkersAssumption ==
    /\ Key \in [Workers -> Nat]
    /\ Totals \in Seq(Nat \ {0}) /\ Totals # << >>
    /\ Scope \subseteq Aggregates
    /\ Hash \in [Aggregates -> Hashes]
    /\ BatchSize \in Nat
    /\ MaxPosition \in Nat
    /\ MaxMishaps \in Nat

VARIABLES
    checkpoints,    \* committed rows of projection_checkpoints, 0 for none
    deployment,     \* which value of TotalPartitions is deployed
    phase,          \* per worker: where Run stands
    cancelled,      \* per worker: its context is done
    result,         \* per worker: how its last Run ended
    handlerFailed,  \* history, per worker: Handle returned an error to Run
    checkpoint,     \* per worker: the checkpoint processBatch read
    batch,          \* per worker: the events of the batch left to do
    lastPosition,   \* per worker: the last event of the batch done
    upserted,       \* per worker: the uncommitted checkpoint, 0 for none
    handled,        \* history: events the handler has processed
    repeats,        \* history: how often it was handed an event it knew
    mishaps         \* bound: counts crashes, cancellations and failures

tx     == <<checkpoint, batch, lastPosition, upserted>>
runs   == <<phase, cancelled, result, deployment, mishaps>>
effect == <<handled, repeats, handlerFailed>>
vars   == <<feed, checkpoints, tx, runs, effect>>

(* "begun" and "reading": before GetCheckpoint and before ReadEvents.      *)
(* "handling": in the loop over the batch.  "upserted": before Commit.     *)
InBatch == {"begun", "reading", "handling", "upserted"}
Running == {"looping", "sleeping"} \cup InBatch
Results == {"none", "canceled", "stopped", "crashed"}

(* The names of the projection's checkpoints: its own, and one per key.    *)
Whole == -1
Names == {Whole} \cup {Key[w] : w \in Workers}

Total == Totals[deployment]

Deployed(w) == Total = 1 \/ Key[w] < Total

(* Variant: one checkpoint for the whole projection.                       *)
ProjectionName(w) == Whole

(* checkpointName: the key is part of the name when there are partitions,  *)
(* their number is not.                                                    *)
CheckpointName(w) == IF Total > 1 THEN Key[w] ELSE Whole

(* shouldProcessEvent: partition, then aggregate type and bounded context. *)
ShouldProcessEvent(w, e) ==
    /\ ShouldProcess(Hash[e.aggregate], Key[w], Total)
    /\ e.aggregate \in Scope

(* WHERE global_position > from ORDER BY global_position LIMIT BatchSize.  *)
(* No two events have the same position, so a set of events stands for the *)
(* sequence of them by position.                                           *)
After(from) == {e \in log : e.position > from}

Limit(S, n) == {e \in S : Cardinality({f \in S : f.position <= e.position}) <= n}

(* Variant: with >= for >.                                                 *)
ReadFrom(from) == Limit(After(from - 1), BatchSize)

ReadEvents(from) == Limit(After(from), BatchSize)

-----------------------------------------------------------------------------
Init ==
    /\ FeedInit
    /\ checkpoints = [n \in Names |-> 0]
    /\ deployment = 1
    /\ phase = [w \in Workers |-> "stopped"]
    /\ cancelled = [w \in Workers |-> FALSE]
    /\ result = [w \in Workers |-> "none"]
    /\ checkpoint = [w \in Workers |-> 0]
    /\ batch = [w \in Workers |-> {}]
    /\ lastPosition = [w \in Workers |-> 0]
    /\ upserted = [w \in Workers |-> 0]
    /\ handlerFailed = [w \in Workers |-> FALSE]
    /\ handled = {}
    /\ repeats = 0
    /\ mishaps = 0

Mishap == mishaps < MaxMishaps /\ mishaps' = mishaps + 1

(* The transaction of the batch ends, by Commit or the deferred Rollback.  *)
EndTransaction(w) ==
    /\ checkpoint' = [checkpoint EXCEPT ![w] = 0]
    /\ batch' = [batch EXCEPT ![w] = {}]
    /\ lastPosition' = [lastPosition EXCEPT ![w] = 0]
    /\ upserted' = [upserted EXCEPT ![w] = 0]

(* Run returns, or the process goes away.                                  *)
Stop(w, how) ==
    /\ phase' = [phase EXCEPT ![w] = "stopped"]
    /\ result' = [result EXCEPT ![w] = how]
    /\ EndTransaction(w)
    /\ UNCHANGED <<feed, checkpoints, cancelled, deployment, handled, repeats>>

-----------------------------------------------------------------------------
(* Around the loop.                                                        *)

(* Run is called with a context of its own.                                *)
Start(w) ==
    /\ phase[w] = "stopped"
    /\ Deployed(w)
    /\ phase' = [phase EXCEPT ![w] = "looping"]
    /\ cancelled' = [cancelled EXCEPT ![w] = FALSE]
    /\ result' = [result EXCEPT ![w] = "none"]
    /\ handlerFailed' = [handlerFailed EXCEPT ![w] = FALSE]
    /\ UNCHANGED <<feed, checkpoints, tx, deployment, mishaps, handled, repeats>>

(* The context of Run is cancelled: a signal, or another projection failed.*)
Cancel(w) ==
    /\ phase[w] \in Running
    /\ ~cancelled[w]
    /\ Mishap
    /\ cancelled' = [cancelled EXCEPT ![w] = TRUE]
    /\ UNCHANGED <<feed, checkpoints, tx, phase, result, deployment, effect>>

(* The two selects on ctx.Done return ctx.Err().                           *)
RunIsCancelled(w) ==
    /\ phase[w] \in {"looping", "sleeping"}
    /\ cancelled[w]
    /\ Stop(w, "canceled")
    /\ UNCHANGED <<mishaps, handlerFailed>>

(* The poll interval is over.                                              *)
Wake(w) ==
    /\ phase[w] = "sleeping"
    /\ phase' = [phase EXCEPT ![w] = "looping"]
    /\ UNCHANGED <<feed, checkpoints, tx, cancelled, result, deployment,
                   mishaps, effect>>

Crash(w) ==
    /\ phase[w] \in Running
    /\ Mishap
    /\ Stop(w, "crashed")
    /\ UNCHANGED handlerFailed

(* All workers are stopped, then started with another partition count.     *)
Redeploy ==
    /\ deployment < Len(Totals)
    /\ \A w \in Workers : phase[w] = "stopped"
    /\ deployment' = deployment + 1
    /\ UNCHANGED <<feed, checkpoints, tx, phase, cancelled, result, mishaps,
                   effect>>

-----------------------------------------------------------------------------
(* processBatch.                                                           *)

(* db.BeginTx, after the select found the context alive.                   *)
BeginBatch(w) ==
    /\ phase[w] = "looping"
    /\ ~cancelled[w]
    /\ phase' = [phase EXCEPT ![w] = "begun"]
    /\ UNCHANGED <<feed, checkpoints, tx, cancelled, result, deployment,
                   mishaps, effect>>

GetCheckpoint(w) ==
    /\ phase[w] = "begun"
    /\ ~cancelled[w]
    /\ phase' = [phase EXCEPT ![w] = "reading"]
    /\ checkpoint' = [checkpoint EXCEPT ![w] = checkpoints[CheckpointName(w)]]
    /\ UNCHANGED <<feed, checkpoints, batch, lastPosition, upserted, cancelled,
                   result, deployment, mishaps, effect>>

ReadBatch(w) ==
    /\ phase[w] = "reading"
    /\ ~cancelled[w]
    /\ ReadEvents(checkpoint[w]) # {}
    /\ phase' = [phase EXCEPT ![w] = "handling"]
    /\ batch' = [batch EXCEPT ![w] = ReadEvents(checkpoint[w])]
    /\ UNCHANGED <<feed, checkpoints, checkpoint, lastPosition, upserted,
                   cancelled, result, deployment, mishaps, effect>>

(* "no events in batch": Run sleeps.                                       *)
NoEventsInBatch(w) ==
    /\ phase[w] = "reading"
    /\ ~cancelled[w]
    /\ ReadEvents(checkpoint[w]) = {}
    /\ phase' = [phase EXCEPT ![w] = "sleeping"]
    /\ EndTransaction(w)
    /\ UNCHANGED <<feed, checkpoints, cancelled, result, deployment, mishaps,
                   effect>>

(* Variant: ORDER BY global_position DESC.                                 *)
NewestEvent(w) ==
    CHOOSE e \in batch[w] : \A f \in batch[w] : e.position >= f.position

NextEvent(w) ==
    CHOOSE e \in batch[w] : \A f \in batch[w] : e.position <= f.position

StepOver(w) ==
    /\ batch' = [batch EXCEPT ![w] = @ \ {NextEvent(w)}]
    /\ lastPosition' = [lastPosition EXCEPT ![w] = NextEvent(w).position]
    /\ UNCHANGED <<feed, checkpoints, checkpoint, upserted, runs>>

(* Variant: a skipped event does not move lastPosition.                    *)
SkipWithoutTrace(w) ==
    /\ phase[w] = "handling" /\ batch[w] # {}
    /\ ~ShouldProcessEvent(w, NextEvent(w))
    /\ batch' = [batch EXCEPT ![w] = @ \ {NextEvent(w)}]
    /\ UNCHANGED <<feed, checkpoints, checkpoint, upserted, lastPosition, runs,
                   effect>>

SkipEvent(w) ==
    /\ phase[w] = "handling" /\ batch[w] # {}
    /\ ~ShouldProcessEvent(w, NextEvent(w))
    /\ StepOver(w)
    /\ UNCHANGED effect

(* Handle returns nil; the loop does not look at the context.              *)
HandleEvent(w) ==
    /\ phase[w] = "handling" /\ batch[w] # {}
    /\ ShouldProcessEvent(w, NextEvent(w))
    /\ repeats' = repeats + (IF NextEvent(w) \in handled THEN 1 ELSE 0)
    /\ handled' = handled \cup {NextEvent(w)}
    /\ UNCHANGED handlerFailed
    /\ StepOver(w)

(* Variant: a failing batch saves how far it came.                         *)
SaveProgressAndFail(w) ==
    /\ phase[w] = "handling" /\ batch[w] # {}
    /\ Mishap
    /\ phase' = [phase EXCEPT ![w] = "stopped"]
    /\ result' = [result EXCEPT ![w] = "stopped"]
    /\ checkpoints' = [checkpoints EXCEPT ![CheckpointName(w)] = lastPosition[w]]
    /\ EndTransaction(w)
    /\ UNCHANGED <<feed, cancelled, deployment, effect>>

(* Handle returns an error: of its own, or that of the context.            *)
HandlerFails(w) ==
    /\ phase[w] = "handling" /\ batch[w] # {}
    /\ ShouldProcessEvent(w, NextEvent(w))
    /\ \/ Mishap
       \/ cancelled[w] /\ UNCHANGED mishaps
    /\ handlerFailed' = [handlerFailed EXCEPT ![w] = TRUE]
    /\ Stop(w, "stopped")

(* Handle returns an error that wraps sql.ErrNoRows: errors.Is finds it    *)
(* and Run takes it for an empty batch.                                    *)
HandlerFindsNoRows(w) ==
    /\ phase[w] = "handling" /\ batch[w] # {}
    /\ ShouldProcessEvent(w, NextEvent(w))
    /\ Mishap
    /\ handlerFailed' = [handlerFailed EXCEPT ![w] = TRUE]
    /\ phase' = [phase EXCEPT ![w] = "sleeping"]
    /\ EndTransaction(w)
    /\ UNCHANGED <<feed, checkpoints, cancelled, result, deployment, handled,
                   repeats>>

(* The upsert of the checkpoint waits for the row, and looks at nothing.   *)
UpsertWaits(w) == \E v \in Workers :
    upserted[v] # 0 /\ CheckpointName(v) = CheckpointName(w)

Upsert(w, position) ==
    /\ phase[w] = "handling" /\ batch[w] = {}
    /\ ~cancelled[w]
    /\ lastPosition[w] > 0 => ~UpsertWaits(w)
    /\ phase' = [phase EXCEPT ![w] = "upserted"]
    /\ upserted' = [upserted EXCEPT ![w] = position]
    /\ UNCHANGED <<feed, checkpoints, checkpoint, batch, lastPosition,
                   cancelled, result, deployment, mishaps, effect>>

(* Variant: the checkpoint of the event that is to come next.              *)
UpdateToNext(w) == Upsert(w, lastPosition[w] + 1)

UpdateCheckpoint(w) == Upsert(w, lastPosition[w])

CommitBatch(w) ==
    /\ phase[w] = "upserted"
    /\ ~cancelled[w]
    /\ phase' = [phase EXCEPT ![w] = "looping"]
    /\ checkpoints' = [checkpoints EXCEPT ![CheckpointName(w)] =
                            IF upserted[w] > 0 THEN upserted[w] ELSE @]
    /\ EndTransaction(w)
    /\ UNCHANGED <<feed, cancelled, result, deployment, mishaps, effect>>

(* BeginTx, a statement or Commit fails, always when the context is done:  *)
(* Run returns ErrProjectionStopped.                                       *)
StatementFails(w) ==
    /\ \/ phase[w] \in {"begun", "reading", "upserted"}
       \/ phase[w] = "handling" /\ batch[w] = {}
    /\ \/ Mishap
       \/ cancelled[w] /\ UNCHANGED mishaps
    /\ Stop(w, "stopped")
    /\ UNCHANGED handlerFailed

-----------------------------------------------------------------------------
BatchStep(w) ==
    \/ BeginBatch(w)
    \/ GetCheckpoint(w)
    \/ ReadBatch(w)
    \/ NoEventsInBatch(w)
    \/ SkipEvent(w)
    \/ HandleEvent(w)
    \/ UpdateCheckpoint(w)
    \/ CommitBatch(w)

LoopStep(w) == RunIsCancelled(w) \/ Wake(w)

FailedStep(w) == HandlerFails(w) \/ StatementFails(w)

WorkerStep(w) ==
    \/ Start(w)
    \/ LoopStep(w)
    \/ BatchStep(w)
    \/ FailedStep(w)
    \/ HandlerFindsNoRows(w)
    \/ Cancel(w)
    \/ Crash(w)

Next ==
    \/ FeedNext /\ UNCHANGED <<checkpoints, tx, runs, effect>>
    \/ \E w \in Workers : WorkerStep(w)
    \/ Redeploy

Spec == Init /\ [][Next]_vars

-----------------------------------------------------------------------------
(* Fairness: Run goes on while it can, a done context is noticed, and a    *)
(* worker that ended is started again.  Crashes, cancellations, failures   *)
(* and commits of events are up to the environment.                        *)
Fairness == \A w \in Workers :
    /\ WF_vars(Start(w))
    /\ WF_vars(LoopStep(w))
    /\ WF_vars(BatchStep(w))
    /\ WF_vars(cancelled[w] /\ FailedStep(w))

FairSpec == Spec /\ Fairness

-----------------------------------------------------------------------------
(* Properties.                                                             *)

TypeOK ==
    /\ log \subseteq FeedEvents /\ inFlight \subseteq FeedEvents
    /\ checkpoints \in [Names -> 0..MaxPosition]
    /\ deployment \in DOMAIN Totals
    /\ phase \in [Workers -> {"stopped"} \cup Running]
    /\ cancelled \in [Workers -> BOOLEAN]
    /\ result \in [Workers -> Results]
    /\ handlerFailed \in [Workers -> BOOLEAN]
    /\ checkpoint \in [Workers -> 0..MaxPosition]
    /\ batch \in [Workers -> SUBSET log]
    /\ lastPosition \in [Workers -> 0..MaxPosition]
    /\ upserted \in [Workers -> 0..MaxPosition]
    /\ handled \subseteq log /\ repeats \in Nat
    /\ mishaps \in 0..MaxMishaps

(* The events the projection is meant to see.                              *)
InScope == {e \in log : e.aggregate \in Scope}

(* "Never skips events": an event that lies at or below the checkpoint of  *)
(* every deployed worker that owns it has been handled, whatever crashed,  *)
(* failed, was cancelled or ran twice before.                              *)
NothingSkipped == \A e \in InScope, w \in Workers :
    /\ Deployed(w)
    /\ ShouldProcessEvent(w, e)
    /\ e.position <= checkpoints[CheckpointName(w)]
    => e \in handled

(* The handler gets to know an aggregate in the order of its versions: no  *)
(* event before an earlier one of its aggregate was handled once.          *)
AggregatesInOrder == \A e \in handled, f \in InScope :
    f.aggregate = e.aggregate /\ f.position < e.position => f \in handled

(* The price of a crash, a cancellation or a failure is at most one batch  *)
(* handled again, each run of the handler on an event it has processed     *)
(* before counted; without any of them every event is handled once.        *)
RepeatsAreBounded == repeats <= mishaps * BatchSize

(* What a committed checkpoint covers is not handed to the handler again.  *)
CheckpointGuards == \A w \in Workers : \A e \in batch[w] :
    e.position > checkpoints[CheckpointName(w)]

(* A checkpoint moves forward only, although it is upserted blindly.       *)
CheckpointsNeverMoveBack ==
    [][\A n \in Names : checkpoints'[n] >= checkpoints[n]]_vars

(* Every committed event of the projection's scope is handled in the end,  *)
(* however often workers crash, are cancelled, fail and start again.       *)
EveryEventIsHandled == \A e \in FeedEvents :
    e \in InScope ~> e \in handled

(* Ctrl+C: the current batch completes, the checkpoint is saved and Run    *)
(* ends with the error of the context.                                     *)
CancelEndsCleanly == \A w \in Workers :
    phase[w] = "stopped" /\ cancelled[w] => result[w] \in {"canceled", "crashed"}

(* "Return an error to stop projection processing."                        *)
HandlerErrorEndsRun == \A w \in Workers :
    handlerFailed[w] => phase[w] = "stopped"

=============================================================================
