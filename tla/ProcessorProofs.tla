---------------------------- MODULE ProcessorProofs ----------------------------
(***************************************************************************)
(* Theorems about Processor, for any workers, keys, deployments, batch     *)
(* sizes, mishaps and events.                                              *)
(***************************************************************************)
EXTENDS Processor, SequenceTheorems, FiniteSetTheorems, WellFoundedInduction, TLAPS

(* Names, owners and deployed workers when total is deployed.              *)
NameIn(w, total)     == IF total > 1 THEN Key[w] ELSE Whole
DeployedIn(w, total) == total = 1 \/ Key[w] < total
OwnsIn(w, total, e)  ==
    /\ ShouldProcess(Hash[e.aggregate], Key[w], total)
    /\ e.aggregate \in Scope

(* No two deployed workers share a checkpoint.                             *)
OneWorkerPerCheckpoint == \A d \in DOMAIN Totals : \A v, w \in Workers :
    DeployedIn(v, Totals[d]) /\ DeployedIn(w, Totals[d])
        /\ NameIn(v, Totals[d]) = NameIn(w, Totals[d]) => v = w

-----------------------------------------------------------------------------
(* The invariants.                                                         *)

PositionsDiffer == \A e, f \in log \cup inFlight : e.position = f.position => e = f

(* How far the running batch has come: up to the checkpoint at first.      *)
Reached(w) == IF lastPosition[w] = 0 THEN checkpoint[w] ELSE lastPosition[w]

(* What the phase says about the transaction of the batch; the events left *)
(* to do come after those done.                                            *)
TxInv(w) ==
    /\ phase[w] \notin {"reading", "handling", "upserted"} => checkpoint[w] = 0
    /\ phase[w] \notin {"handling", "upserted"} => lastPosition[w] = 0
    /\ phase[w] # "handling" => batch[w] = {}
    /\ upserted[w] = IF phase[w] = "upserted" THEN lastPosition[w] ELSE 0
    /\ \A e \in batch[w] : e.position > Reached(w)
    /\ lastPosition[w] = 0 \/ lastPosition[w] > checkpoint[w]
    /\ phase[w] # "stopped" => Deployed(w)

BatchInv ==
    /\ TypeOK
    /\ PositionsDiffer
    /\ \A w \in Workers : TxInv(w)

(* The checkpoint a batch has read is still the committed one.             *)
ReadIsCurrent(w) == phase[w] \in {"reading", "handling", "upserted"} =>
    checkpoint[w] = checkpoints[CheckpointName(w)]

GuardInv == \A w \in Workers : ReadIsCurrent(w)

-----------------------------------------------------------------------------
(* Types.                                                                  *)

LEMMA PositionFacts ==
    ASSUME TypeOK
    PROVE  /\ MaxPosition \in Nat
           /\ \A e \in log : e.position \in 1..MaxPosition /\ e.aggregate \in Aggregates
           /\ \A e \in inFlight : e.position \in 1..MaxPosition
           /\ \A w \in Workers : /\ batch[w] \subseteq log
                                  /\ checkpoint[w] \in Nat
                                  /\ lastPosition[w] \in Nat
                                  /\ Reached(w) \in Nat
           /\ \A n \in Names : checkpoints[n] \in Nat
  BY WorkersAssumption DEF TypeOK, FeedEvents, Reached

(* The next event is the first by position of those left to do.            *)
LEMMA NextEventIsFirst ==
    ASSUME TypeOK, NEW w \in Workers, batch[w] # {}
    PROVE  /\ NextEvent(w) \in batch[w]
           /\ \A f \in batch[w] : NextEvent(w).position <= f.position
<1> DEFINE smaller == OpToRel(<, Nat)
           positions == {e.position : e \in batch[w]}
<1>1. \A e \in batch[w] : e.position \in Nat
  BY PositionFacts
<1>2. IsWellFoundedOn(smaller, Nat)
  BY NatLessThanWellFounded
<1>3. \A i, j \in Nat : <<i, j>> \in smaller <=> i < j
  BY DEF OpToRel
<1>4. positions \subseteq Nat /\ positions # {}
  BY <1>1
<1> HIDE DEF smaller
<1>5. PICK p \in positions : \A q \in positions : <<q, p>> \notin smaller
  BY <1>2, <1>4, WFMin
<1>6. PICK e \in batch[w] : e.position = p
  BY <1>5
<1>7. ASSUME NEW f \in batch[w] PROVE e.position <= f.position
  <2>1. e.position \in Nat /\ f.position \in Nat /\ f.position \in positions
    BY <1>1
  <2>2. ~(f.position < e.position)
    BY <1>3, <1>5, <1>6, <2>1
  <2> QED
    BY <2>1, <2>2
<1> QED
  BY <1>7 DEF NextEvent

(* A batch is read from the log, behind the checkpoint.                    *)
LEMMA ReadEventsFacts ==
    ASSUME NEW from
    PROVE  \A e \in ReadEvents(from) : e \in log /\ e.position > from
  BY DEF ReadEvents, Limit, After

LEMMA TypeInit == Init => TypeOK
<1> SUFFICES ASSUME Init PROVE TypeOK
  OBVIOUS
<1>1. 1 \in DOMAIN Totals
  BY WorkersAssumption, EmptySeq, LenProperties
<1>2. 0 \in 0..MaxPosition /\ 0 \in 0..MaxMishaps
  BY WorkersAssumption
<1> QED
  BY <1>1, <1>2 DEF Init, FeedInit, TypeOK, Results

(* The names a worker uses are names, whatever is deployed.                *)
LEMMA NameFacts ==
    ASSUME NEW w \in Workers, NEW total
    PROVE  NameIn(w, total) \in Names
  BY DEF NameIn, Names

(* The end of a transaction leaves types.                                  *)
LEMMA TypeEndTransaction ==
    ASSUME TypeOK, NEW w \in Workers, EndTransaction(w), log' = log
    PROVE  /\ checkpoint' \in [Workers -> 0..MaxPosition]
           /\ batch' \in [Workers -> SUBSET log']
           /\ lastPosition' \in [Workers -> 0..MaxPosition]
           /\ upserted' \in [Workers -> 0..MaxPosition]
<1>1. 0 \in 0..MaxPosition
  BY WorkersAssumption
<1> QED
  BY <1>1 DEF TypeOK, EndTransaction

LEMMA TypeMishap ==
    ASSUME TypeOK, Mishap
    PROVE  mishaps' \in 0..MaxMishaps
  BY WorkersAssumption DEF TypeOK, Mishap

(* Run that returns leaves types.                                          *)
LEMMA TypeStop ==
    ASSUME TypeOK, NEW w \in Workers, NEW how \in Results, Stop(w, how),
           handlerFailed' \in [Workers -> BOOLEAN], mishaps' \in 0..MaxMishaps
    PROVE  TypeOK'
<1>1. log' = log /\ inFlight' = inFlight
  BY DEF Stop, feed
<1>2. EndTransaction(w)
  BY DEF Stop
<1> QED
  BY <1>1, <1>2, TypeEndTransaction DEF TypeOK, Stop, Running

(* Every step keeps the types.                                             *)
LEMMA TypeStep ==
    ASSUME TypeOK, [Next]_vars
    PROVE  TypeOK'
<1>1. CASE UNCHANGED vars
  BY <1>1 DEF TypeOK, vars, feed, tx, runs, effect
<1>2. CASE FeedNext /\ UNCHANGED <<checkpoints, tx, runs, effect>>
  <2>1. log \subseteq log' /\ log' \subseteq FeedEvents /\ inFlight' \subseteq FeedEvents
    BY <1>2 DEF TypeOK, FeedNext, TransactionEnds, Insert, CommitEvents, AbortEvents
  <2> QED
    BY <1>2, <2>1 DEF TypeOK, tx, runs, effect
<1>3. ASSUME NEW w \in Workers, WorkerStep(w) PROVE TypeOK'
  <2>1. CASE Start(w) \/ Wake(w) \/ BeginBatch(w)
    BY <2>1 DEF TypeOK, Start, Wake, BeginBatch, feed, tx, effect, Running, InBatch, Results
  <2>2. CASE RunIsCancelled(w)
    BY <2>2, TypeStop DEF TypeOK, RunIsCancelled, Results
  <2>3. CASE Crash(w)
    BY <2>3, TypeStop, TypeMishap DEF TypeOK, Crash, Results
  <2>4. CASE HandlerFails(w)
    BY <2>4, TypeStop, TypeMishap DEF TypeOK, HandlerFails, Results
  <2>5. CASE StatementFails(w)
    BY <2>5, TypeStop, TypeMishap DEF TypeOK, StatementFails, Results
  <2>6. CASE Cancel(w)
    BY <2>6, TypeMishap DEF TypeOK, Cancel, feed, tx, effect
  <2>7. CASE GetCheckpoint(w)
    <3>1. checkpoints[CheckpointName(w)] \in 0..MaxPosition
      BY NameFacts DEF TypeOK, CheckpointName, NameIn
    <3> QED
      BY <2>7, <3>1 DEF TypeOK, GetCheckpoint, feed, effect, Running, InBatch
  <2>8. CASE ReadBatch(w)
    <3>1. ReadEvents(checkpoint[w]) \subseteq log
      BY ReadEventsFacts
    <3> QED
      BY <2>8, <3>1 DEF TypeOK, ReadBatch, feed, effect, Running, InBatch
  <2>9. CASE NoEventsInBatch(w) \/ HandlerFindsNoRows(w)
    <3>1. EndTransaction(w) /\ log' = log /\ inFlight' = inFlight
      BY <2>9 DEF NoEventsInBatch, HandlerFindsNoRows, feed
    <3>2. mishaps' \in 0..MaxMishaps
      BY <2>9, TypeMishap DEF TypeOK, NoEventsInBatch, HandlerFindsNoRows
    <3> QED
      BY <2>9, <3>1, <3>2, TypeEndTransaction
         DEF TypeOK, NoEventsInBatch, HandlerFindsNoRows, effect, Running
  <2>10. CASE SkipEvent(w) \/ HandleEvent(w)
    <3>1. batch[w] # {}
      BY <2>10 DEF SkipEvent, HandleEvent
    <3>2. NextEvent(w) \in log /\ NextEvent(w).position \in 0..MaxPosition
      BY <3>1, NextEventIsFirst, PositionFacts
    <3>3. /\ StepOver(w)
          /\ handlerFailed' = handlerFailed
          /\ handled' \subseteq log /\ repeats' \in Nat
      BY <2>10, <3>2 DEF TypeOK, SkipEvent, HandleEvent, effect
    <3> QED
      BY <3>2, <3>3 DEF TypeOK, StepOver, feed, runs
  <2>11. CASE UpdateCheckpoint(w)
    BY <2>11 DEF TypeOK, UpdateCheckpoint, Upsert, feed, effect, Running, InBatch
  <2>12. CASE CommitBatch(w)
    <3>1. EndTransaction(w) /\ log' = log /\ inFlight' = inFlight
      BY <2>12 DEF CommitBatch, feed
    <3> QED
      BY <2>12, <3>1, TypeEndTransaction DEF TypeOK, CommitBatch, effect, Running
  <2> QED
    BY <1>3, <2>1, <2>2, <2>3, <2>4, <2>5, <2>6, <2>7, <2>8, <2>9, <2>10,
       <2>11, <2>12 DEF WorkerStep, LoopStep, BatchStep, FailedStep
<1>4. CASE Redeploy
  <2>1. deployment' \in DOMAIN Totals
    BY <1>4, WorkersAssumption, LenProperties DEF TypeOK, Redeploy
  <2> QED
    BY <1>4, <2>1 DEF TypeOK, Redeploy, feed, tx, effect
<1> QED
  BY <1>1, <1>2, <1>3, <1>4 DEF Next

(* Every reachable state is well typed.                                    *)
THEOREM ProcessorTypes == Spec => []TypeOK
<1>1. TypeOK /\ [Next]_vars => TypeOK'
  BY TypeStep
<1> QED
  BY <1>1, TypeInit, PTL DEF Spec

-----------------------------------------------------------------------------
(* The batch.                                                              *)

(* Nothing of v's transaction changes.                                     *)
KeepsTx(v) ==
    /\ phase'[v] = phase[v]
    /\ checkpoint'[v] = checkpoint[v]
    /\ batch'[v] = batch[v]
    /\ lastPosition'[v] = lastPosition[v]
    /\ upserted'[v] = upserted[v]

(* v's transaction, if any, is over.                                       *)
EndsTx(v) ==
    /\ phase'[v] \in {"stopped", "looping", "sleeping"}
    /\ checkpoint'[v] = 0
    /\ batch'[v] = {}
    /\ lastPosition'[v] = 0
    /\ upserted'[v] = 0

(* A worker leaves alone the log and the transactions of the others.       *)
LEMMA WorkerFrame ==
    ASSUME TypeOK, NEW w \in Workers, WorkerStep(w)
    PROVE  /\ log' = log /\ inFlight' = inFlight /\ deployment' = deployment
           /\ \A v \in Workers \ {w} : KeepsTx(v)
<1> USE DEF TypeOK, KeepsTx
<1>1. CASE Start(w) \/ Wake(w) \/ BeginBatch(w) \/ Cancel(w)
  BY <1>1 DEF Start, Wake, BeginBatch, Cancel, feed, tx, runs
<1>2. CASE RunIsCancelled(w) \/ Crash(w) \/ HandlerFails(w) \/ StatementFails(w)
  <2>1. PICK how : Stop(w, how)
    BY <1>2 DEF RunIsCancelled, Crash, HandlerFails, StatementFails
  <2> QED
    BY <2>1 DEF Stop, EndTransaction, feed
<1>3. CASE GetCheckpoint(w) \/ ReadBatch(w) \/ UpdateCheckpoint(w)
  BY <1>3 DEF GetCheckpoint, ReadBatch, UpdateCheckpoint, Upsert, feed
<1>4. CASE NoEventsInBatch(w) \/ HandlerFindsNoRows(w) \/ CommitBatch(w)
  BY <1>4 DEF NoEventsInBatch, HandlerFindsNoRows, CommitBatch, EndTransaction, feed
<1>5. CASE SkipEvent(w) \/ HandleEvent(w)
  BY <1>5 DEF SkipEvent, HandleEvent, StepOver, feed, runs
<1> QED
  BY <1>1, <1>2, <1>3, <1>4, <1>5 DEF WorkerStep, LoopStep, BatchStep, FailedStep

(* Only the steps of processBatch matter to its transaction: all others    *)
(* leave it alone, or end it without a trace.                              *)
LEMMA WorkerCases ==
    ASSUME TypeOK, NEW w \in Workers, WorkerStep(w)
    PROVE  \/ Start(w)
           \/ BeginBatch(w)
           \/ GetCheckpoint(w)
           \/ ReadBatch(w)
           \/ SkipEvent(w)
           \/ HandleEvent(w)
           \/ UpdateCheckpoint(w)
           \/ CommitBatch(w) /\ EndsTx(w)
           \/ (KeepsTx(w) \/ Wake(w) \/ EndsTx(w)) /\ phase[w] # "stopped"
              /\ UNCHANGED <<checkpoints, handled>>
<1> USE DEF TypeOK, Running, InBatch
<1>1. CASE Wake(w) \/ Cancel(w)
  BY <1>1 DEF Wake, Cancel, effect, tx, KeepsTx
<1>2. CASE RunIsCancelled(w) \/ Crash(w) \/ HandlerFails(w) \/ StatementFails(w)
  <2>1. PICK how : Stop(w, how)
    BY <1>2 DEF RunIsCancelled, Crash, HandlerFails, StatementFails
  <2>2. EndsTx(w)
    BY <2>1 DEF Stop, EndTransaction, EndsTx
  <2>3. phase[w] # "stopped"
    BY <1>2 DEF RunIsCancelled, Crash, HandlerFails, StatementFails
  <2> QED
    BY <2>1, <2>2, <2>3 DEF Stop
<1>3. CASE NoEventsInBatch(w) \/ HandlerFindsNoRows(w)
  BY <1>3 DEF NoEventsInBatch, HandlerFindsNoRows, EndTransaction, EndsTx, effect
<1>4. CASE CommitBatch(w)
  BY <1>4 DEF CommitBatch, EndTransaction, EndsTx
<1> QED
  BY <1>1, <1>2, <1>3, <1>4 DEF WorkerStep, LoopStep, BatchStep, FailedStep

LEMMA TxKept ==
    ASSUME NEW v \in Workers, TxInv(v), KeepsTx(v), deployment' = deployment
    PROVE  TxInv(v)'
  BY DEF TxInv, KeepsTx, Reached, Deployed, Total

LEMMA TxEnded ==
    ASSUME NEW w \in Workers, TxInv(w), EndsTx(w), phase[w] # "stopped",
           deployment' = deployment
    PROVE  TxInv(w)'
  BY DEF TxInv, EndsTx, Reached, Deployed, Total

(* The transaction of a batch stays sound in every step of its worker.     *)
LEMMA TxStep ==
    ASSUME TypeOK, PositionsDiffer, NEW w \in Workers, TxInv(w), WorkerStep(w)
    PROVE  TxInv(w)'
<1>1. deployment' = deployment /\ log' = log
  BY WorkerFrame
<1> USE <1>1 DEF TxInv, Reached, Deployed, Total, TypeOK, Running, InBatch
<1>2. CASE Start(w) \/ BeginBatch(w) \/ Wake(w)
  BY <1>2 DEF Start, BeginBatch, Wake, tx
<1>3. CASE GetCheckpoint(w)
  BY <1>3 DEF GetCheckpoint
<1>4. CASE ReadBatch(w)
  <2>1. \A e \in batch'[w] : e.position > checkpoint[w]
    BY <1>4, ReadEventsFacts DEF ReadBatch
  <2> QED
    BY <1>4, <2>1 DEF ReadBatch
<1>5. CASE SkipEvent(w) \/ HandleEvent(w)
  <2>1. /\ phase[w] = "handling" /\ batch[w] # {}
        /\ StepOver(w)
    BY <1>5 DEF SkipEvent, HandleEvent
  <2>2. /\ phase'[w] = "handling"
        /\ checkpoint' = checkpoint /\ upserted' = upserted
        /\ batch'[w] = batch[w] \ {NextEvent(w)}
        /\ lastPosition'[w] = NextEvent(w).position
    BY <2>1 DEF StepOver, runs
  <2> DEFINE next == NextEvent(w)
  <2>3. next \in batch[w] /\ \A f \in batch[w] : next.position <= f.position
    BY <2>1, NextEventIsFirst
  <2>4. /\ checkpoint[w] \in Nat /\ lastPosition[w] \in Nat
        /\ next.position \in Nat
        /\ \A f \in batch[w] : f.position \in Nat /\ f \in log
    BY <2>3, PositionFacts
  <2> HIDE DEF next
  <2>5. next.position > checkpoint[w] /\ next.position > 0
    BY <2>3, <2>4
  <2>6. ASSUME NEW f \in batch'[w] PROVE f.position > next.position
    <3>1. f \in batch[w] /\ f # next
      BY <2>2 DEF next
    <3>2. f.position # next.position
      BY <3>1, <2>3, <2>4 DEF PositionsDiffer
    <3> QED
      BY <3>1, <3>2, <2>3, <2>4
  <2>7. lastPosition'[w] = next.position /\ lastPosition'[w] # 0
    BY <2>2, <2>4, <2>5 DEF next
  <2> QED
    BY <2>1, <2>2, <2>5, <2>6, <2>7
<1>6. CASE UpdateCheckpoint(w)
  BY <1>6 DEF UpdateCheckpoint, Upsert
<1>7. CASE KeepsTx(w)
  BY <1>7, TxKept
<1>8. CASE EndsTx(w) /\ phase[w] # "stopped"
  BY <1>8, TxEnded
<1>9. CASE CommitBatch(w) /\ EndsTx(w)
  BY <1>9, TxEnded DEF CommitBatch
<1> QED
  BY <1>2, <1>3, <1>4, <1>5, <1>6, <1>7, <1>8, <1>9, WorkerCases

(* Positions stay different while events come and go.                      *)
LEMMA FeedKeepsPositions ==
    ASSUME PositionsDiffer, FeedNext
    PROVE  PositionsDiffer'
<1>1. CASE \E e \in FeedEvents : Insert(e)
  BY <1>1 DEF PositionsDiffer, Insert
<1>2. CASE TransactionEnds
  BY <1>2 DEF PositionsDiffer, TransactionEnds, CommitEvents, AbortEvents
<1> QED
  BY <1>1, <1>2 DEF FeedNext, TransactionEnds

LEMMA BatchInit == Init => BatchInv
<1> SUFFICES ASSUME Init PROVE BatchInv
  OBVIOUS
<1>1. \A w \in Workers : TxInv(w)
  BY DEF Init, TxInv, Reached
<1> QED
  BY <1>1, TypeInit DEF Init, FeedInit, BatchInv, PositionsDiffer

LEMMA BatchStepKeeps ==
    ASSUME BatchInv, [Next]_vars
    PROVE  BatchInv'
<1> USE DEF BatchInv
<1>1. TypeOK'
  BY TypeStep
<1>2. CASE UNCHANGED vars
  <2>1. \A w \in Workers : TxInv(w)'
    BY <1>2 DEF vars, tx, runs, TxInv, Reached, Deployed, Total
  <2> QED
    BY <1>1, <1>2, <2>1 DEF vars, feed, PositionsDiffer
<1>3. CASE FeedNext /\ UNCHANGED <<checkpoints, tx, runs, effect>>
  <2>1. \A w \in Workers : TxInv(w)'
    BY <1>3 DEF tx, runs, TxInv, Reached, Deployed, Total
  <2> QED
    BY <1>1, <1>3, <2>1, FeedKeepsPositions
<1>4. ASSUME NEW w \in Workers, WorkerStep(w) PROVE BatchInv'
  <2>1. /\ log' = log /\ inFlight' = inFlight /\ deployment' = deployment
        /\ \A v \in Workers \ {w} : KeepsTx(v)
    BY <1>4, WorkerFrame
  <2>2. \A v \in Workers \ {w} : TxInv(v)'
    BY <2>1, TxKept
  <2>3. TxInv(w)'
    BY <1>4, TxStep
  <2>4. PositionsDiffer'
    BY <2>1 DEF PositionsDiffer
  <2> QED
    BY <1>1, <2>2, <2>3, <2>4
<1>5. CASE Redeploy
  <2>1. \A w \in Workers : TxInv(w)'
    BY <1>5 DEF Redeploy, tx, TxInv, Reached, Deployed, Total
  <2> QED
    BY <1>1, <1>5, <2>1 DEF Redeploy, feed, PositionsDiffer
<1> QED
  BY <1>2, <1>3, <1>4, <1>5 DEF Next

LEMMA BatchInvariance == Spec => []BatchInv
<1>1. BatchInv /\ [Next]_vars => BatchInv'
  BY BatchStepKeeps
<1> QED
  BY <1>1, BatchInit, PTL DEF Spec

-----------------------------------------------------------------------------
(* One worker per checkpoint.                                              *)

(* CommitBatch moves the worker's checkpoint to the last event of the      *)
(* batch, if there is one.                                                 *)
LEMMA CommitFacts ==
    ASSUME BatchInv, NEW w \in Workers, CommitBatch(w)
    PROVE  /\ \A n \in Names : n # CheckpointName(w) => checkpoints'[n] = checkpoints[n]
           /\ checkpoints'[CheckpointName(w)] = IF lastPosition[w] > 0
                   THEN lastPosition[w] ELSE checkpoints[CheckpointName(w)]
<1>1. CheckpointName(w) \in Names
  BY NameFacts DEF CheckpointName, NameIn
<1>2. upserted[w] = lastPosition[w]
  BY DEF CommitBatch, BatchInv, TxInv
<1> QED
  BY <1>1, <1>2 DEF CommitBatch, BatchInv, TypeOK

(* Checkpoints move when a batch commits, and at no other time.            *)
LEMMA CheckpointsFrame ==
    ASSUME TypeOK, NEW w \in Workers, WorkerStep(w), ~CommitBatch(w)
    PROVE  checkpoints' = checkpoints
<1>1. CASE SkipEvent(w) \/ HandleEvent(w)
  BY <1>1 DEF SkipEvent, HandleEvent, StepOver
<1> QED
  BY <1>1, WorkerCases DEF Start, BeginBatch, GetCheckpoint, ReadBatch,
     UpdateCheckpoint, Upsert

LEMMA GuardStep ==
    ASSUME OneWorkerPerCheckpoint, BatchInv, GuardInv, [Next]_vars
    PROVE  GuardInv'
<1> USE DEF GuardInv, ReadIsCurrent
<1>1. CASE UNCHANGED vars
  BY <1>1 DEF vars, tx, runs, CheckpointName, Total
<1>2. CASE FeedNext /\ UNCHANGED <<checkpoints, tx, runs, effect>>
  BY <1>2 DEF tx, runs, CheckpointName, Total
<1>3. CASE Redeploy
  BY <1>3 DEF Redeploy, tx
<1>4. ASSUME NEW w \in Workers, WorkerStep(w) PROVE GuardInv'
  <2>1. deployment' = deployment /\ \A v \in Workers \ {w} : KeepsTx(v)
    BY <1>4, WorkerFrame DEF BatchInv
  <2>2. \A v \in Workers : CheckpointName(v)' = CheckpointName(v)
    BY <2>1 DEF CheckpointName, Total
  <2>3. CASE CommitBatch(w)
    <3>1. ASSUME NEW v \in Workers \ {w},
                 phase[v] \in {"reading", "handling", "upserted"}
          PROVE  checkpoints'[CheckpointName(v)] = checkpoints[CheckpointName(v)]
      <4>1. Deployed(v) /\ Deployed(w)
        BY <2>3, <3>1 DEF BatchInv, TxInv, CommitBatch
      <4>2. CheckpointName(v) # CheckpointName(w)
        BY <4>1 DEF OneWorkerPerCheckpoint, DeployedIn, Deployed, NameIn,
           CheckpointName, Total, BatchInv, TypeOK
      <4>3. CheckpointName(v) \in Names
        BY NameFacts DEF CheckpointName, NameIn
      <4> QED
        BY <2>3, <4>2, <4>3, CommitFacts
    <3>2. ASSUME NEW v \in Workers \ {w} PROVE ReadIsCurrent(v)'
      BY <2>1, <2>2, <3>1 DEF KeepsTx
    <3>3. ReadIsCurrent(w)'
      BY <2>3 DEF CommitBatch, BatchInv, TypeOK
    <3> QED
      BY <3>2, <3>3
  <2>4. CASE ~CommitBatch(w)
    <3>1. checkpoints' = checkpoints
      BY <1>4, <2>4, CheckpointsFrame DEF BatchInv
    <3>2. ASSUME NEW v \in Workers \ {w} PROVE ReadIsCurrent(v)'
      BY <2>1, <2>2, <3>1 DEF KeepsTx
    <3>3. ReadIsCurrent(w)'
      <4>1. CASE SkipEvent(w) \/ HandleEvent(w)
        BY <2>2, <3>1, <4>1 DEF SkipEvent, HandleEvent, StepOver, runs
      <4>2. CASE KeepsTx(w) \/ Wake(w) \/ EndsTx(w)
        BY <2>2, <3>1, <4>2 DEF KeepsTx, Wake, EndsTx, tx, BatchInv, TypeOK
      <4>3. CASE Start(w) \/ BeginBatch(w) \/ GetCheckpoint(w) \/ ReadBatch(w)
                   \/ UpdateCheckpoint(w)
        BY <2>2, <3>1, <4>3 DEF Start, BeginBatch, GetCheckpoint, ReadBatch,
           UpdateCheckpoint, Upsert, tx, BatchInv, TypeOK
      <4> QED
        BY <1>4, <2>4, <4>1, <4>2, <4>3, WorkerCases DEF BatchInv
    <3> QED
      BY <3>2, <3>3
  <2> QED
    BY <2>3, <2>4
<1> QED
  BY <1>1, <1>2, <1>3, <1>4 DEF Next

LEMMA GuardInvariance ==
    OneWorkerPerCheckpoint /\ Spec => [](BatchInv /\ GuardInv)
<1>1. Init => GuardInv
  BY DEF Init, GuardInv, ReadIsCurrent
<1>2. OneWorkerPerCheckpoint /\ BatchInv /\ GuardInv /\ [Next]_vars => GuardInv'
  BY GuardStep
<1>3. CASE OneWorkerPerCheckpoint
  <2>1. BatchInv /\ GuardInv /\ [Next]_vars => GuardInv'
    BY <1>2, <1>3
  <2> QED
    BY <1>1, <2>1, BatchInvariance, PTL DEF Spec
<1> QED
  BY <1>3

LEMMA GuardsHold ==
    ASSUME BatchInv, GuardInv
    PROVE  CheckpointGuards
<1> SUFFICES ASSUME NEW w \in Workers, NEW e \in batch[w]
             PROVE  e.position > checkpoints[CheckpointName(w)]
  BY DEF CheckpointGuards
<1>1. phase[w] = "handling" /\ e.position > Reached(w)
  BY DEF BatchInv, TxInv
<1>2. checkpoint[w] = checkpoints[CheckpointName(w)]
  BY <1>1 DEF GuardInv, ReadIsCurrent
<1>3. /\ checkpoint[w] \in Nat /\ lastPosition[w] \in Nat
      /\ e.position \in Nat
  BY PositionFacts DEF BatchInv
<1>4. lastPosition[w] = 0 \/ lastPosition[w] > checkpoint[w]
  BY DEF BatchInv, TxInv
<1> QED
  BY <1>1, <1>2, <1>3, <1>4 DEF Reached

(* As long as no two deployed workers share a checkpoint, no event at or   *)
(* below the committed checkpoint is in a batch.                           *)
THEOREM OneWorkerGuards == OneWorkerPerCheckpoint /\ Spec => []CheckpointGuards
<1>1. BatchInv /\ GuardInv => CheckpointGuards
  BY GuardsHold
<1> QED
  BY <1>1, GuardInvariance, PTL

LEMMA CheckpointsGrow ==
    ASSUME BatchInv, GuardInv, [Next]_vars
    PROVE  \A n \in Names : checkpoints'[n] >= checkpoints[n]
<1>1. \A n \in Names : checkpoints[n] \in Nat
  BY PositionFacts DEF BatchInv
<1>2. CASE UNCHANGED checkpoints
  BY <1>1, <1>2
<1>3. ASSUME NEW w \in Workers, CommitBatch(w)
      PROVE  \A n \in Names : checkpoints'[n] >= checkpoints[n]
  <2>1. checkpoint[w] = checkpoints[CheckpointName(w)]
    BY <1>3 DEF CommitBatch, GuardInv, ReadIsCurrent
  <2>2. lastPosition[w] = 0 \/ lastPosition[w] > checkpoint[w]
    BY DEF BatchInv, TxInv
  <2>3. CheckpointName(w) \in Names /\ lastPosition[w] \in Nat
    BY NameFacts, PositionFacts DEF CheckpointName, NameIn, BatchInv
  <2> QED
    BY <1>1, <1>3, <2>1, <2>2, <2>3, CommitFacts
<1>4. CASE Redeploy
  BY <1>2, <1>4 DEF Redeploy
<1>5. ASSUME NEW w \in Workers, WorkerStep(w)
      PROVE  \A n \in Names : checkpoints'[n] >= checkpoints[n]
  BY <1>2, <1>3, <1>5, CheckpointsFrame DEF BatchInv
<1> QED
  BY <1>2, <1>4, <1>5 DEF Next, vars

(* ... and a checkpoint moves forward only, although it is upserted        *)
(* without a look at the row.                                              *)
THEOREM OneWorkerMovesForward ==
    OneWorkerPerCheckpoint /\ Spec => CheckpointsNeverMoveBack
<1>1. BatchInv /\ GuardInv /\ [Next]_vars
        => [\A n \in Names : checkpoints'[n] >= checkpoints[n]]_vars
  BY CheckpointsGrow
<1> QED
  BY <1>1, GuardInvariance, PTL DEF CheckpointsNeverMoveBack, Spec

-----------------------------------------------------------------------------
(* The log, and what is read of it.                                        *)

(* There are as many events as positions, at most.                         *)
LEMMA LogIsFinite ==
    ASSUME TypeOK, PositionsDiffer
    PROVE  IsFiniteSet(log)
<1> DEFINE pos == [e \in log |-> e.position]
<1>1. IsFiniteSet(1..MaxPosition)
  BY PositionFacts, FS_Interval
<1>2. pos \in [log -> 1..MaxPosition]
  BY PositionFacts
<1>3. \A e, f \in log : pos[e] = pos[f] => e = f
  BY DEF PositionsDiffer
<1>4. pos \in Injection(log, 1..MaxPosition)
  BY <1>2, <1>3 DEF Injection, IsInjective
<1> HIDE DEF pos
<1> QED
  BY <1>1, <1>4, FS_Injection

(* A batch has no gap: with an event it has those before it, too.          *)
LEMMA ReadEventsHasNoGap ==
    ASSUME TypeOK, PositionsDiffer, NEW from \in Nat,
           NEW e \in log, NEW f \in ReadEvents(from),
           e.position > from, e.position <= f.position
    PROVE  e \in ReadEvents(from)
<1> DEFINE upTo(g) == {h \in After(from) : h.position <= g.position}
<1>1. f \in log /\ Cardinality(upTo(f)) <= BatchSize
  BY DEF ReadEvents, Limit, After
<1>2. IsFiniteSet(upTo(f))
  BY LogIsFinite, FS_Subset DEF After
<1>3. upTo(e) \subseteq upTo(f)
  BY <1>1, PositionFacts DEF After
<1>4. /\ Cardinality(upTo(e)) <= Cardinality(upTo(f))
      /\ Cardinality(upTo(e)) \in Nat /\ Cardinality(upTo(f)) \in Nat
  BY <1>2, <1>3, FS_Subset, FS_CardinalityType
<1>5. Cardinality(upTo(e)) <= BatchSize
  BY <1>1, <1>4, WorkersAssumption
<1> QED
  BY <1>5 DEF ReadEvents, Limit, After

(* ... and no more than BatchSize events: those up to its last one.        *)
LEMMA ReadEventsIsBounded ==
    ASSUME TypeOK, PositionsDiffer, NEW from
    PROVE  /\ IsFiniteSet(ReadEvents(from))
           /\ Cardinality(ReadEvents(from)) <= BatchSize
<1> DEFINE R == ReadEvents(from)
           left(e) == MaxPosition - e.position
           smaller == OpToRel(<, Nat)
<1>1. R \subseteq log /\ IsFiniteSet(R)
  BY LogIsFinite, FS_Subset, ReadEventsFacts
<1>2. CASE R = {}
  BY <1>1, <1>2, FS_EmptySet, WorkersAssumption
<1>3. CASE R # {}
  <2>1. \A e \in R : e.position \in Nat /\ left(e) \in Nat
    BY <1>1, PositionFacts
  <2>2. {left(e) : e \in R} \subseteq Nat /\ {left(e) : e \in R} # {}
    BY <1>3, <2>1
  <2>3. \A i, j \in Nat : <<i, j>> \in smaller <=> i < j
    BY DEF OpToRel
  <2>4. IsWellFoundedOn(smaller, Nat)
    BY NatLessThanWellFounded
  <2> HIDE DEF smaller, left, R
  <2>5. PICK p \in {left(e) : e \in R} :
            \A q \in {left(e) : e \in R} : <<q, p>> \notin smaller
    BY <2>2, <2>4, WFMin
  <2>6. PICK last \in R : left(last) = p
    BY <2>5
  <2>7. \A e \in R : ~(left(e) < left(last))
    BY <2>1, <2>3, <2>5, <2>6
  <2>8. \A e \in R : e.position <= last.position
    BY <2>1, <2>7, PositionFacts DEF left
  <2> DEFINE upTo == {f \in After(from) : f.position <= last.position}
  <2>9. Cardinality(upTo) <= BatchSize
    BY DEF R, ReadEvents, Limit
  <2>10. R \subseteq upTo /\ IsFiniteSet(upTo)
    BY <2>8, LogIsFinite, FS_Subset DEF R, ReadEvents, Limit, After
  <2> HIDE DEF upTo
  <2>11. /\ Cardinality(R) <= Cardinality(upTo)
         /\ Cardinality(R) \in Nat /\ Cardinality(upTo) \in Nat
    BY <1>1, <2>10, FS_Subset, FS_CardinalityType
  <2> QED
    BY <1>1, <2>9, <2>11, WorkersAssumption DEF R
<1> QED
  BY <1>2, <1>3

-----------------------------------------------------------------------------
(* How often events are handled again.                                     *)

(* A number of partitions is never changed.                                *)
SamePartitions == \A c, d \in DOMAIN Totals : Totals[c] = Totals[d]

(* What a worker has handled, now or before, of the part of its batch that *)
(* is behind it: its commit would cover these events.                      *)
DoneNow(w) == {e \in handled :
    /\ ShouldProcessEvent(w, e)
    /\ checkpoint[w] < e.position /\ e.position <= lastPosition[w]}

(* Handled events that no checkpoint covers, and no running batch is about *)
(* to cover: they will be handled again.                                   *)
Exposed == {e \in handled : \E w \in Workers :
    /\ Deployed(w) /\ ShouldProcessEvent(w, e)
    /\ e.position > checkpoints[CheckpointName(w)]
    /\ e \notin DoneNow(w)}

(* Of what was handled before, a batch meets what it has read.             *)
HandledIsRead(w) == \A e \in handled, f \in batch[w] :
    ShouldProcessEvent(w, e) /\ e.position > Reached(w)
        /\ e.position <= f.position => e \in batch[w]

(* What a batch can lose is one batch.                                     *)
LosesOneBatch(w) == Cardinality(DoneNow(w) \cup batch[w]) <= BatchSize

(* A run that is cancelled has had its mishap, and may still lose a batch. *)
CancelledRuns == {w \in Workers : cancelled[w] /\ phase[w] \in Running}

MishapsPay ==
    /\ IsFiniteSet(CancelledRuns)
    /\ repeats + Cardinality(Exposed) + BatchSize * Cardinality(CancelledRuns)
           <= mishaps * BatchSize

RepeatInv ==
    /\ \A w \in Workers : HandledIsRead(w) /\ LosesOneBatch(w)
    /\ MishapsPay

(* An event belongs to at most one deployed worker.                        *)
LEMMA OwnerIsAlone ==
    ASSUME OneWorkerPerCheckpoint, TypeOK, NEW e \in log,
           NEW v \in Workers, Deployed(v), ShouldProcessEvent(v, e),
           NEW w \in Workers, Deployed(w), ShouldProcessEvent(w, e)
    PROVE  v = w
<1>1. deployment \in DOMAIN Totals /\ Total \in Nat
  BY WorkersAssumption, LenProperties, ElementOfSeq DEF TypeOK, Total
<1>2. NameIn(v, Total) = NameIn(w, Total)
  BY <1>1 DEF ShouldProcessEvent, ShouldProcess, NameIn
<1> QED
  BY <1>1, <1>2 DEF OneWorkerPerCheckpoint, DeployedIn, Deployed, Total

LEMMA DoneNowFacts ==
    ASSUME BatchInv, NEW w \in Workers
    PROVE  /\ IsFiniteSet(handled) /\ IsFiniteSet(batch[w]) /\ IsFiniteSet(DoneNow(w))
           /\ IsFiniteSet(Exposed)
           /\ lastPosition[w] = 0 => DoneNow(w) = {}
<1>1. IsFiniteSet(handled) /\ IsFiniteSet(batch[w])
  BY LogIsFinite, FS_Subset DEF BatchInv, TypeOK
<1>2. IsFiniteSet(DoneNow(w)) /\ IsFiniteSet(Exposed)
  BY <1>1, FS_Subset DEF DoneNow, Exposed
<1>3. lastPosition[w] = 0 => DoneNow(w) = {}
  <2>1. \A e \in handled : e.position \in Nat /\ e.position > 0
    BY PositionFacts DEF BatchInv, TypeOK
  <2> QED
    BY <2>1 DEF DoneNow
<1> QED
  BY <1>1, <1>2, <1>3

(* A batch that is left alone, when nothing is handled,                    *)
LEMMA RepeatKept ==
    ASSUME NEW v \in Workers, deployment' = deployment, handled' = handled,
           checkpoint'[v] = checkpoint[v], batch'[v] = batch[v],
           lastPosition'[v] = lastPosition[v], HandledIsRead(v), LosesOneBatch(v)
    PROVE  /\ HandledIsRead(v)' /\ LosesOneBatch(v)'
           /\ DoneNow(v)' = DoneNow(v)
<1>1. \A e : ShouldProcessEvent(v, e)' <=> ShouldProcessEvent(v, e)
  BY DEF ShouldProcessEvent, Total
<1>2. DoneNow(v)' = DoneNow(v)
  BY <1>1 DEF DoneNow
<1>3. LosesOneBatch(v)'
  BY <1>2 DEF LosesOneBatch
<1>4. HandledIsRead(v)'
  BY <1>1 DEF HandledIsRead, Reached
<1> QED
  BY <1>2, <1>3, <1>4

(* ... and when another worker w handles its event.                        *)
LEMMA RepeatKeptByHandle ==
    ASSUME OneWorkerPerCheckpoint, BatchInv, NEW w \in Workers, HandleEvent(w),
           NEW v \in Workers \ {w}, HandledIsRead(v), LosesOneBatch(v)
    PROVE  /\ HandledIsRead(v)' /\ LosesOneBatch(v)'
           /\ DoneNow(v)' = DoneNow(v)
<1>1. KeepsTx(v) /\ deployment' = deployment
  BY WorkerFrame DEF BatchInv, WorkerStep, BatchStep
<1> DEFINE next == NextEvent(w)
<1>2. /\ next \in log /\ ShouldProcessEvent(w, next) /\ Deployed(w)
      /\ handled' = handled \cup {next}
  BY NextEventIsFirst, PositionFacts DEF BatchInv, TxInv, HandleEvent
<1> HIDE DEF next
<1>3. \A e : ShouldProcessEvent(v, e)' <=> ShouldProcessEvent(v, e)
  BY <1>1 DEF ShouldProcessEvent, Total
<1>4. phase[v] # "stopped" => ~ShouldProcessEvent(v, next)
  BY <1>2, OwnerIsAlone DEF BatchInv, TxInv
<1>5. DoneNow(v)' = DoneNow(v)
  <2>1. CASE phase[v] = "stopped"
    <3>1. lastPosition[v] = 0 /\ lastPosition'[v] = 0
      BY <1>1, <2>1 DEF BatchInv, TxInv, KeepsTx
    <3>2. \A e \in handled' : e.position \in Nat /\ e.position > 0
      BY <1>2, PositionFacts DEF BatchInv, TypeOK
    <3> QED
      BY <1>2, <3>1, <3>2 DEF DoneNow
  <2>2. CASE phase[v] # "stopped"
    BY <1>1, <1>2, <1>3, <1>4, <2>2 DEF DoneNow, KeepsTx
  <2> QED
    BY <2>1, <2>2
<1>6. LosesOneBatch(v)'
  BY <1>1, <1>5 DEF LosesOneBatch, KeepsTx
<1>7. HandledIsRead(v)'
  <2>1. batch[v] # {} => phase[v] # "stopped"
    BY DEF BatchInv, TxInv
  <2> QED
    BY <1>1, <1>2, <1>3, <1>4, <2>1 DEF HandledIsRead, KeepsTx, Reached
<1> QED
  BY <1>5, <1>6, <1>7

(* The worker's own batch.                                                 *)
LEMMA RepeatReadBatch ==
    ASSUME BatchInv, NEW w \in Workers, ReadBatch(w)
    PROVE  /\ HandledIsRead(w)' /\ LosesOneBatch(w)'
           /\ DoneNow(w) = {} /\ DoneNow(w)' = {}
<1>1. /\ batch'[w] = ReadEvents(checkpoint[w]) /\ handled' = handled
      /\ checkpoint'[w] = checkpoint[w] /\ checkpoint[w] \in Nat
      /\ lastPosition[w] = 0 /\ lastPosition'[w] = 0
  BY DEF ReadBatch, BatchInv, TypeOK, TxInv, effect
<1>2. TypeOK' /\ PositionsDiffer' /\ TypeOK /\ PositionsDiffer /\ BatchInv'
  BY BatchStepKeeps DEF BatchInv, Next, WorkerStep, BatchStep
<1>3. DoneNow(w) = {} /\ DoneNow(w)' = {}
  <2>1. \A e \in handled : e.position \in Nat /\ e.position > 0
    BY <1>2, PositionFacts DEF TypeOK
  <2> QED
    BY <1>1, <2>1 DEF DoneNow
<1>4. LosesOneBatch(w)'
  <2>1. {} \cup batch'[w] = batch'[w]
    OBVIOUS
  <2> QED
    BY <1>1, <1>2, <1>3, <2>1, ReadEventsIsBounded DEF LosesOneBatch
<1>5. HandledIsRead(w)'
  <2> SUFFICES ASSUME NEW e \in handled, NEW f \in ReadEvents(checkpoint[w]),
                      e.position > checkpoint[w], e.position <= f.position
               PROVE  e \in ReadEvents(checkpoint[w])
    BY <1>1 DEF HandledIsRead, Reached
  <2> QED
    BY <1>1, <1>2, ReadEventsHasNoGap DEF TypeOK
<1> QED
  BY <1>3, <1>4, <1>5

LEMMA RepeatNextEvent ==
    ASSUME BatchInv, NEW w \in Workers, SkipEvent(w) \/ HandleEvent(w),
           HandledIsRead(w), LosesOneBatch(w)
    PROVE  /\ HandledIsRead(w)' /\ LosesOneBatch(w)'
           /\ DoneNow(w) \subseteq DoneNow(w)'
           /\ HandleEvent(w) => NextEvent(w) \in DoneNow(w)'
<1> DEFINE next == NextEvent(w)
<1>1. /\ batch[w] # {} /\ StepOver(w) /\ deployment' = deployment
      /\ handled' = handled \/ handled' = handled \cup {next}
      /\ checkpoint'[w] = checkpoint[w]
      /\ batch'[w] = batch[w] \ {next}
      /\ lastPosition'[w] = next.position
      /\ HandleEvent(w) => ShouldProcessEvent(w, next) /\ next \in handled'
  BY DEF SkipEvent, HandleEvent, StepOver, BatchInv, TypeOK, effect, runs
<1>2. /\ next \in batch[w] /\ next.position > Reached(w)
      /\ \A f \in batch[w] : next.position <= f.position
  BY <1>1, NextEventIsFirst DEF BatchInv, TxInv
<1>3. /\ Reached(w) \in Nat /\ next.position \in Nat /\ next.position > 0
      /\ checkpoint[w] \in Nat /\ lastPosition[w] \in Nat
      /\ \A e \in handled' : e.position \in Nat
      /\ \A f \in batch[w] : f.position \in Nat
      /\ lastPosition[w] = 0 \/ lastPosition[w] > checkpoint[w]
  BY <1>1, <1>2, PositionFacts DEF BatchInv, TypeOK, TxInv
<1> HIDE DEF next
<1>4. \A e : ShouldProcessEvent(w, e)' <=> ShouldProcessEvent(w, e)
  BY <1>1 DEF ShouldProcessEvent, Total
<1>5. /\ Reached(w)' = next.position
      /\ checkpoint[w] <= Reached(w) /\ checkpoint[w] < next.position
      /\ lastPosition[w] <= Reached(w) /\ lastPosition[w] <= next.position
  BY <1>1, <1>2, <1>3 DEF Reached
<1>6. DoneNow(w) \subseteq DoneNow(w)'
  <2> SUFFICES ASSUME NEW e \in DoneNow(w) PROVE e \in DoneNow(w)'
    OBVIOUS
  <2>1. e \in handled' /\ e.position \in Nat
    BY <1>1, <1>3 DEF DoneNow
  <2> QED
    BY <1>1, <1>3, <1>4, <1>5, <2>1 DEF DoneNow
<1>7. HandleEvent(w) => next \in DoneNow(w)'
  BY <1>1, <1>3, <1>4, <1>5 DEF DoneNow
<1>8. DoneNow(w)' \subseteq DoneNow(w) \cup batch[w]
  <2> SUFFICES ASSUME NEW e \in DoneNow(w)', e \notin batch[w]
               PROVE  e \in DoneNow(w)
    OBVIOUS
  <2>1. /\ e \in handled /\ ShouldProcessEvent(w, e) /\ e.position \in Nat
        /\ checkpoint[w] < e.position /\ e.position <= next.position
    BY <1>1, <1>2, <1>3, <1>4 DEF DoneNow
  <2>2. ~(e.position > Reached(w))
    BY <1>2, <2>1 DEF HandledIsRead
  <2>3. e.position <= lastPosition[w]
    BY <1>3, <2>1, <2>2 DEF Reached
  <2> QED
    BY <2>1, <2>3 DEF DoneNow
<1>9. LosesOneBatch(w)'
  <2> DEFINE before == DoneNow(w) \cup batch[w]
             after  == DoneNow(w)' \cup batch'[w]
  <2>1. after \subseteq before
    BY <1>1, <1>8
  <2>2. IsFiniteSet(before)
    BY DoneNowFacts, FS_Union
  <2>3. Cardinality(before) <= BatchSize
    BY DEF LosesOneBatch
  <2> HIDE DEF before, after
  <2>4. Cardinality(after) <= Cardinality(before) /\ IsFiniteSet(after)
    BY <2>1, <2>2, FS_Subset
  <2>5. Cardinality(after) <= BatchSize
    BY <2>2, <2>3, <2>4, FS_CardinalityType, WorkersAssumption
  <2> QED
    BY <2>5 DEF LosesOneBatch, after
<1>10. HandledIsRead(w)'
  <2> SUFFICES ASSUME NEW e \in handled', NEW f \in batch'[w],
                      ShouldProcessEvent(w, e), e.position > next.position,
                      e.position <= f.position
               PROVE  e \in batch'[w]
    BY <1>4, <1>5 DEF HandledIsRead
  <2>1. e \in handled /\ e # next /\ f \in batch[w] /\ e.position > Reached(w)
    BY <1>1, <1>2, <1>3
  <2> QED
    BY <1>1, <2>1 DEF HandledIsRead
<1> QED
  BY <1>6, <1>7, <1>9, <1>10 DEF next

(* A batch that is over, or has not read its events.                       *)
LEMMA RepeatEmpty ==
    ASSUME BatchInv, NEW w \in Workers, handled' = handled, batch'[w] = {},
           lastPosition'[w] = 0
    PROVE  /\ HandledIsRead(w)' /\ LosesOneBatch(w)'
           /\ DoneNow(w)' = {}
<1>1. \A e \in handled : e.position \in Nat /\ e.position > 0
  BY PositionFacts DEF BatchInv, TypeOK
<1>2. DoneNow(w)' = {}
  BY <1>1 DEF DoneNow
<1>3. LosesOneBatch(w)'
  BY <1>2, FS_EmptySet, WorkersAssumption DEF LosesOneBatch
<1>4. HandledIsRead(w)'
  BY DEF HandledIsRead
<1> QED
  BY <1>2, <1>3, <1>4

-----------------------------------------------------------------------------
(* The mishaps pay for what is handled again.                              *)

(* Times a batch.                                                          *)
LEMMA TimesGrow ==
    ASSUME NEW p \in Int, NEW q \in Int, p <= q, NEW n \in Nat
    PROVE  p * n <= q * n
<1>1. PICK k \in Nat : q = p + k
  <2>1. q - p \in Nat /\ q = p + (q - p)
    OBVIOUS
  <2> QED
    BY <2>1
<1>2. k * n >= 0
  BY SMT
<1>3. (p + k) * n = p * n + k * n
  BY SMT
<1>4. p * n \in Int /\ k * n \in Int
  OBVIOUS
<1> QED
  BY <1>1, <1>2, <1>3, <1>4

LEMMA BatchesAdd ==
    ASSUME NEW x \in Nat, NEW x1 \in Nat, NEW c \in Nat, NEW c1 \in Nat,
           NEW m \in Nat, NEW m1 \in Nat, NEW k \in Nat, NEW n \in Nat,
           x + n * c <= m * n, x1 <= x + k,
           \/ k = 0 /\ m - c <= m1 - c1
           \/ k <= n /\ (m - c) + 1 <= m1 - c1
    PROVE  x1 + n * c1 <= m1 * n
<1> DEFINE p == m - c
           q == m1 - c1
<1>1. p \in Int /\ q \in Int
  OBVIOUS
<1>2. p * n = m * n - n * c /\ q * n = m1 * n - n * c1 /\ (p + 1) * n = p * n + n
  BY SMT
<1>3. /\ m * n \in Int /\ n * c \in Int /\ m1 * n \in Int /\ n * c1 \in Int
      /\ p * n \in Int /\ q * n \in Int
  BY <1>1
<1>4. \/ k = 0 /\ p <= q
      \/ k <= n /\ p + 1 <= q
  OBVIOUS
<1> HIDE DEF p, q
<1>5. CASE k = 0 /\ p <= q
  <2>1. p * n <= q * n
    BY <1>1, <1>5, TimesGrow
  <2> QED
    BY <1>2, <1>3, <1>5, <2>1
<1>6. CASE k <= n /\ p + 1 <= q
  <2>1. (p + 1) * n <= q * n
    BY <1>1, <1>6, TimesGrow
  <2> QED
    BY <1>2, <1>3, <1>6, <2>1
<1> QED
  BY <1>4, <1>5, <1>6

LEMMA UnionIsSmaller ==
    ASSUME NEW A, NEW D, NEW S, IsFiniteSet(A), IsFiniteSet(D), S \subseteq A \cup D
    PROVE  Cardinality(S) <= Cardinality(A) + Cardinality(D)
<1>1. IsFiniteSet(A \cup D) /\ IsFiniteSet(S)
      /\ Cardinality(S) <= Cardinality(A \cup D)
  BY FS_Union, FS_Subset
<1>2. A \cap D \subseteq D
  OBVIOUS
<1>3. Cardinality(A \cup D) = Cardinality(A) + Cardinality(D) - Cardinality(A \cap D)
  BY FS_Union
<1>4. /\ Cardinality(A) \in Nat /\ Cardinality(D) \in Nat /\ Cardinality(S) \in Nat
      /\ Cardinality(A \cap D) \in Nat
  BY <1>1, <1>2, FS_Subset, FS_CardinalityType
<1> QED
  BY <1>1, <1>3, <1>4

(* A step exposes no events but those of D, and an event that it handles   *)
(* again was exposed and is not any more.                                  *)
ExposesOnly(D) ==
    \/ repeats' = repeats /\ Exposed' \subseteq Exposed \cup D
    \/ \E e \in Exposed :
            repeats' = repeats + 1 /\ Exposed' \subseteq (Exposed \ {e}) \cup D

(* A step in which events of D are exposed, which are none, or one batch   *)
(* that a mishap of this step or an earlier one has paid for.              *)
LEMMA StillPaid ==
    ASSUME BatchInv, BatchInv', MishapsPay, NEW D, IsFiniteSet(D),
           ExposesOnly(D), NEW w,
           \/ /\ D = {} /\ mishaps' = mishaps
              /\ CancelledRuns' \subseteq CancelledRuns
           \/ /\ D = {} /\ mishaps' = mishaps + 1
              /\ CancelledRuns' \subseteq CancelledRuns \cup {w}
           \/ /\ Cardinality(D) <= BatchSize /\ mishaps' = mishaps + 1
              /\ CancelledRuns' \subseteq CancelledRuns
           \/ /\ Cardinality(D) <= BatchSize /\ mishaps' = mishaps
              /\ w \in CancelledRuns /\ CancelledRuns' \subseteq CancelledRuns \ {w}
    PROVE  MishapsPay'
<1> DEFINE A  == Exposed
           A1 == Exposed'
           C  == CancelledRuns
           C1 == CancelledRuns'
           x  == repeats + Cardinality(A)
           x1 == repeats' + Cardinality(A1)
           c  == Cardinality(C)
           c1 == Cardinality(C1)
<1>1. IsFiniteSet(A) /\ IsFiniteSet(C)
  <2>1. IsFiniteSet(handled)
    BY LogIsFinite, FS_Subset DEF BatchInv, TypeOK
  <2> QED
    BY <2>1, FS_Subset DEF Exposed, MishapsPay
<1>2. /\ BatchSize \in Nat /\ mishaps \in Nat /\ mishaps' \in Nat
      /\ x + BatchSize * c <= mishaps * BatchSize
  BY WorkersAssumption DEF BatchInv, TypeOK, MishapsPay
<1>3. /\ C1 \subseteq C \cup {w} /\ A1 \subseteq A \cup D
      /\ repeats \in Nat /\ repeats' \in Nat
      /\ \/ repeats' = repeats
         \/ \E e \in A : repeats' = repeats + 1 /\ A1 \subseteq (A \ {e}) \cup D
  BY DEF ExposesOnly, BatchInv, TypeOK
<1> HIDE DEF A, A1, C, C1
<1>4. /\ IsFiniteSet(C1) /\ IsFiniteSet(A1)
      /\ Cardinality(A) \in Nat /\ Cardinality(A1) \in Nat /\ Cardinality(D) \in Nat
      /\ x \in Nat /\ x1 \in Nat /\ c \in Nat /\ c1 \in Nat
  <2>1. IsFiniteSet(C \cup {w}) /\ IsFiniteSet(A \cup D)
    BY <1>1, FS_Singleton, FS_Union
  <2>2. IsFiniteSet(C1) /\ IsFiniteSet(A1)
    BY <1>3, <2>1, FS_Subset
  <2> QED
    BY <1>1, <1>3, <2>2, FS_CardinalityType
<1>5. x1 <= x + Cardinality(D)
  <2>1. Cardinality(A1) <= Cardinality(A) + Cardinality(D)
    BY <1>1, <1>3, UnionIsSmaller
  <2>2. ASSUME NEW e \in A, A1 \subseteq (A \ {e}) \cup D
        PROVE  Cardinality(A1) + 1 <= Cardinality(A) + Cardinality(D)
    <3>1. IsFiniteSet(A \ {e}) /\ Cardinality(A \ {e}) = Cardinality(A) - 1
      BY <1>1, FS_RemoveElement
    <3>2. Cardinality(A1) <= Cardinality(A \ {e}) + Cardinality(D)
      BY <2>2, <3>1, UnionIsSmaller
    <3> QED
      BY <1>4, <3>1, <3>2
  <2>3. CASE repeats' = repeats
    BY <1>3, <1>4, <2>1, <2>3
  <2>4. CASE \E e \in A : repeats' = repeats + 1 /\ A1 \subseteq (A \ {e}) \cup D
    BY <1>3, <1>4, <2>2, <2>4
  <2> QED
    BY <1>3, <2>3, <2>4
<1>6. D = {} => Cardinality(D) = 0
  BY FS_EmptySet
<1>7. C1 \subseteq C => c1 <= c
  BY <1>1, FS_Subset
<1>8. C1 \subseteq C \cup {w} => c1 <= c + 1
  <2>1. /\ IsFiniteSet(C \cup {w})
        /\ Cardinality(C \cup {w}) = IF w \in C THEN c ELSE c + 1
    BY <1>1, FS_AddElement
  <2>2. C1 \subseteq C \cup {w} => c1 <= Cardinality(C \cup {w})
    BY <2>1, FS_Subset
  <2> QED
    BY <1>4, <2>1, <2>2
<1>9. w \in C /\ C1 \subseteq C \ {w} => c1 <= c - 1
  <2>1. /\ IsFiniteSet(C \ {w})
        /\ w \in C => Cardinality(C \ {w}) = c - 1
    BY <1>1, FS_RemoveElement
  <2>2. C1 \subseteq C \ {w} => c1 <= Cardinality(C \ {w})
    BY <2>1, FS_Subset
  <2> QED
    BY <1>4, <2>1, <2>2
<1>10. \/ Cardinality(D) = 0 /\ mishaps - c <= mishaps' - c1
       \/ Cardinality(D) <= BatchSize /\ (mishaps - c) + 1 <= mishaps' - c1
  BY <1>2, <1>4, <1>6, <1>7, <1>8, <1>9 DEF C, C1
<1> HIDE DEF x, x1, c, c1
<1>11. x1 + BatchSize * c1 <= mishaps' * BatchSize
  <2>1. PICK k \in Nat : k = Cardinality(D)
    BY <1>4
  <2>2. PICK m1 \in Nat : m1 = mishaps'
    BY <1>2
  <2>3. x1 <= x + k /\ \/ k = 0 /\ mishaps - c <= m1 - c1
                       \/ k <= BatchSize /\ (mishaps - c) + 1 <= m1 - c1
    BY <1>5, <1>10, <2>1, <2>2
  <2>4. x1 + BatchSize * c1 <= m1 * BatchSize
    BY <1>2, <1>4, <2>3, BatchesAdd
  <2> QED
    BY <2>2, <2>4
<1> QED
  BY <1>4, <1>11 DEF MishapsPay, x1, c1, A1, C1

-----------------------------------------------------------------------------
(* What the steps expose.                                                  *)

(* A step of w in which nothing is handled exposes at most what w loses.   *)
LEMMA ExposedByWorker ==
    ASSUME NEW w \in Workers, UNCHANGED <<deployment, checkpoints, handled, repeats>>,
           \A v \in Workers \ {w} : DoneNow(v)' = DoneNow(v)
    PROVE  /\ ExposesOnly(DoneNow(w))
           /\ DoneNow(w) \subseteq DoneNow(w)' => ExposesOnly({})
<1>1. \A v \in Workers : \A e :
          /\ ShouldProcessEvent(v, e)' <=> ShouldProcessEvent(v, e)
          /\ Deployed(v)' <=> Deployed(v)
          /\ CheckpointName(v)' = CheckpointName(v)
  BY DEF ShouldProcessEvent, Deployed, CheckpointName, Total
<1>2. \A e \in Exposed' : e \in Exposed \/ e \in DoneNow(w) \ DoneNow(w)'
  BY <1>1 DEF Exposed
<1> QED
  BY <1>2 DEF ExposesOnly

(* The batch that a commit ends is covered by the checkpoint it saves.     *)
LEMMA ExposedByCommit ==
    ASSUME OneWorkerPerCheckpoint, BatchInv, GuardInv, NEW w \in Workers,
           CommitBatch(w), \A v \in Workers \ {w} : DoneNow(v)' = DoneNow(v)
    PROVE  ExposesOnly({})
<1>1. UNCHANGED <<deployment, handled, repeats>>
  BY DEF CommitBatch, effect
<1>2. \A v \in Workers : \A e :
          /\ ShouldProcessEvent(v, e)' <=> ShouldProcessEvent(v, e)
          /\ Deployed(v)' <=> Deployed(v)
          /\ CheckpointName(v)' = CheckpointName(v)
  BY <1>1 DEF ShouldProcessEvent, Deployed, CheckpointName, Total
<1> SUFFICES ASSUME NEW e \in Exposed' PROVE e \in Exposed
  BY <1>1 DEF ExposesOnly
<1>3. PICK v \in Workers :
          /\ Deployed(v) /\ ShouldProcessEvent(v, e)
          /\ e.position > checkpoints'[CheckpointName(v)]
          /\ e \notin DoneNow(v)'
  BY <1>2 DEF Exposed
<1>4. e \in handled /\ e.position \in Nat
  BY <1>1, PositionFacts DEF Exposed, BatchInv, TypeOK
<1>5. CASE v # w
  <2>1. Deployed(w)
    BY DEF CommitBatch, BatchInv, TxInv
  <2>2. CheckpointName(v) # CheckpointName(w)
    BY <1>3, <1>5, <2>1 DEF OneWorkerPerCheckpoint, DeployedIn, Deployed, NameIn,
       CheckpointName, Total, BatchInv, TypeOK
  <2>3. CheckpointName(v) \in Names
    BY NameFacts DEF CheckpointName, NameIn
  <2> QED
    BY <1>3, <1>4, <1>5, <2>2, <2>3, CommitFacts DEF Exposed
<1>6. CASE v = w
  <2>1. /\ checkpoint[w] = checkpoints[CheckpointName(w)]
        /\ lastPosition[w] = 0 \/ lastPosition[w] > checkpoint[w]
        /\ checkpoint[w] \in Nat /\ lastPosition[w] \in Nat
    BY PositionFacts DEF GuardInv, ReadIsCurrent, CommitBatch, BatchInv, TxInv
  <2>2. CASE lastPosition[w] = 0
    <3>1. checkpoints'[CheckpointName(w)] = checkpoints[CheckpointName(w)]
      BY <2>2, CommitFacts
    <3>2. DoneNow(w) = {}
      BY <2>2, DoneNowFacts
    <3> QED
      BY <1>3, <1>4, <1>6, <3>1, <3>2 DEF Exposed
  <2>3. CASE lastPosition[w] > 0
    <3>1. e.position > lastPosition[w]
      BY <1>3, <1>6, <2>3, CommitFacts
    <3>2. e.position > checkpoints[CheckpointName(w)] /\ e \notin DoneNow(w)
      BY <1>4, <2>1, <2>3, <3>1 DEF DoneNow
    <3> QED
      BY <1>3, <1>4, <1>6, <3>2 DEF Exposed
  <2> QED
    BY <2>1, <2>2, <2>3
<1> QED
  BY <1>5, <1>6

(* An event that is handled again was exposed, and is behind w now.        *)
LEMMA ExposedByHandle ==
    ASSUME OneWorkerPerCheckpoint, BatchInv, GuardInv, NEW w \in Workers,
           HandleEvent(w), HandledIsRead(w), LosesOneBatch(w),
           \A v \in Workers \ {w} : DoneNow(v)' = DoneNow(v)
    PROVE  ExposesOnly({})
<1> DEFINE next == NextEvent(w)
<1>1. /\ UNCHANGED <<deployment, checkpoints>>
      /\ batch[w] # {} /\ ShouldProcessEvent(w, next)
      /\ handled' = handled \cup {next}
      /\ repeats' = repeats + (IF next \in handled THEN 1 ELSE 0)
      /\ phase[w] = "handling"
  BY DEF HandleEvent, StepOver, runs
<1>2. next \in batch[w] /\ next \in log /\ next.position > Reached(w) /\ Deployed(w)
  BY <1>1, NextEventIsFirst, PositionFacts DEF BatchInv, TxInv
<1>3. /\ next \in DoneNow(w)' /\ DoneNow(w) \subseteq DoneNow(w)'
  BY RepeatNextEvent
<1>4. next.position > checkpoints[CheckpointName(w)] /\ next \notin DoneNow(w)
  <2>1. next.position > checkpoints[CheckpointName(w)]
    BY <1>2, GuardsHold DEF CheckpointGuards
  <2>2. /\ lastPosition[w] \in Nat /\ next.position \in Nat /\ next.position > 0
        /\ lastPosition[w] = 0 \/ next.position > lastPosition[w]
    BY <1>2, PositionFacts DEF Reached, BatchInv
  <2> QED
    BY <2>1, <2>2 DEF DoneNow
<1> HIDE DEF next
<1>5. next \in handled => next \in Exposed
  BY <1>1, <1>2, <1>4 DEF Exposed
<1>6. \A v \in Workers : \A e :
          /\ ShouldProcessEvent(v, e)' <=> ShouldProcessEvent(v, e)
          /\ Deployed(v)' <=> Deployed(v)
          /\ CheckpointName(v)' = CheckpointName(v)
  BY <1>1 DEF ShouldProcessEvent, Deployed, CheckpointName, Total
<1>7. ASSUME NEW e \in Exposed' PROVE e \in Exposed /\ e # next
  <2>1. PICK v \in Workers :
            /\ Deployed(v) /\ ShouldProcessEvent(v, e)
            /\ e.position > checkpoints[CheckpointName(v)]
            /\ e \notin DoneNow(v)' /\ e \in handled'
    BY <1>1, <1>6 DEF Exposed
  <2>2. e # next
    <3> SUFFICES ASSUME e = next PROVE FALSE
      OBVIOUS
    <3>1. v = w
      BY <1>1, <1>2, <2>1, OwnerIsAlone DEF BatchInv
    <3> QED
      BY <1>3, <2>1, <3>1
  <2>3. e \in handled /\ e \notin DoneNow(v)
    BY <1>1, <1>3, <2>1, <2>2
  <2> QED
    BY <2>1, <2>2, <2>3 DEF Exposed
<1>8. CASE next \in handled
  BY <1>1, <1>5, <1>7, <1>8 DEF ExposesOnly
<1>9. CASE next \notin handled
  <2>1. repeats' = repeats
    BY <1>1, <1>9 DEF BatchInv, TypeOK
  <2> QED
    BY <1>7, <2>1 DEF ExposesOnly
<1> QED
  BY <1>8, <1>9

(* With all workers stopped and the partitions as they were, nothing       *)
(* changes.                                                                *)
LEMMA RepeatRedeploy ==
    ASSUME SamePartitions, BatchInv, BatchInv', RepeatInv, Redeploy
    PROVE  RepeatInv'
<1>1. Total' = Total
  BY DEF SamePartitions, BatchInv, TypeOK, Total
<1>2. UNCHANGED <<checkpoints, handled, repeats, mishaps, batch, checkpoint,
                  lastPosition, cancelled, phase>>
  BY DEF Redeploy, tx, effect
<1>3. \A v \in Workers : \A e :
          /\ ShouldProcessEvent(v, e)' <=> ShouldProcessEvent(v, e)
          /\ Deployed(v)' <=> Deployed(v)
          /\ CheckpointName(v)' = CheckpointName(v)
  BY <1>1 DEF ShouldProcessEvent, Deployed, CheckpointName
<1>4. \A v \in Workers : DoneNow(v)' = DoneNow(v)
  BY <1>2, <1>3 DEF DoneNow
<1>5. Exposed' = Exposed
  BY <1>2, <1>3, <1>4 DEF Exposed
<1>6. CancelledRuns' = CancelledRuns
  BY <1>2 DEF CancelledRuns
<1>7. MishapsPay'
  BY <1>2, <1>5, <1>6 DEF RepeatInv, MishapsPay
<1>8. ASSUME NEW v \in Workers PROVE HandledIsRead(v)' /\ LosesOneBatch(v)'
  BY <1>2, <1>3, <1>4 DEF RepeatInv, HandledIsRead, LosesOneBatch, Reached
<1> QED
  BY <1>7, <1>8 DEF RepeatInv

(* The steps of a worker that cost nothing.                                *)
LEMMA RepeatQuiet ==
    ASSUME OneWorkerPerCheckpoint, BatchInv, BatchInv', GuardInv, RepeatInv,
           NEW w \in Workers, WorkerStep(w), mishaps' = mishaps,
           \A v \in Workers \ {w} : HandledIsRead(v)' /\ LosesOneBatch(v)',
           HandledIsRead(w)', LosesOneBatch(w)',
           ExposesOnly({}),
           CancelledRuns' \subseteq CancelledRuns
    PROVE  RepeatInv'
<1>1. IsFiniteSet({})
  BY FS_EmptySet
<1>2. MishapsPay'
  BY <1>1, StillPaid DEF RepeatInv
<1> QED
  BY <1>2 DEF RepeatInv

(* What the batch of w has done is a part of one batch.                    *)
LEMMA DoneNowIsBounded ==
    ASSUME BatchInv, NEW w \in Workers, LosesOneBatch(w)
    PROVE  IsFiniteSet(DoneNow(w)) /\ Cardinality(DoneNow(w)) <= BatchSize
<1> DEFINE D == DoneNow(w)
           B == batch[w]
<1>1. IsFiniteSet(D) /\ IsFiniteSet(B) /\ Cardinality(D \cup B) <= BatchSize
  BY DoneNowFacts DEF LosesOneBatch
<1> HIDE DEF D, B
<1>2. IsFiniteSet(D \cup B) /\ D \subseteq D \cup B
  BY <1>1, FS_Union
<1>3. /\ Cardinality(D) <= Cardinality(D \cup B)
      /\ Cardinality(D) \in Nat /\ Cardinality(D \cup B) \in Nat
  BY <1>1, <1>2, FS_Subset, FS_CardinalityType
<1>4. Cardinality(D) <= BatchSize
  BY <1>1, <1>3, WorkersAssumption
<1> QED
  BY <1>1, <1>4 DEF D

(* A batch that is lost is paid for by this step's mishap, or by that of   *)
(* the cancellation of the run it ends.                                    *)
LEMMA RepeatLost ==
    ASSUME BatchInv, BatchInv', RepeatInv, NEW w \in Workers, WorkerStep(w), EndsTx(w),
           UNCHANGED <<checkpoints, handled, repeats>>, cancelled' = cancelled,
           \/ mishaps' = mishaps + 1
           \/ phase'[w] = "stopped" /\ w \in CancelledRuns /\ mishaps' = mishaps,
           phase[w] \in Running
    PROVE  RepeatInv'
<1>1. /\ log' = log /\ deployment' = deployment
      /\ \A v \in Workers \ {w} : KeepsTx(v)
  BY WorkerFrame DEF BatchInv
<1>2. \A v \in Workers \ {w} :
          HandledIsRead(v)' /\ LosesOneBatch(v)' /\ DoneNow(v)' = DoneNow(v)
  BY <1>1, RepeatKept DEF RepeatInv, KeepsTx
<1>3. HandledIsRead(w)' /\ LosesOneBatch(w)'
  BY RepeatEmpty DEF EndsTx
<1>4. ExposesOnly(DoneNow(w))
  BY <1>1, <1>2, ExposedByWorker
<1>5. IsFiniteSet(DoneNow(w)) /\ Cardinality(DoneNow(w)) <= BatchSize
  BY DoneNowIsBounded DEF RepeatInv
<1>6. CancelledRuns' \subseteq CancelledRuns
  BY <1>1 DEF CancelledRuns, KeepsTx
<1>7. phase'[w] = "stopped" => CancelledRuns' \subseteq CancelledRuns \ {w}
  BY <1>6 DEF CancelledRuns, Running, InBatch
<1>8. MishapsPay'
  BY <1>4, <1>5, <1>6, <1>7, StillPaid DEF RepeatInv
<1> QED
  BY <1>2, <1>3, <1>8 DEF RepeatInv

LEMMA RepeatWorker ==
    ASSUME OneWorkerPerCheckpoint, BatchInv, BatchInv', GuardInv, RepeatInv,
           NEW w \in Workers, WorkerStep(w)
    PROVE  RepeatInv'
<1>1. /\ log' = log /\ deployment' = deployment
      /\ \A v \in Workers \ {w} : KeepsTx(v)
  BY WorkerFrame DEF BatchInv
<1>2. ASSUME handled' = handled
      PROVE  \A v \in Workers \ {w} :
                 HandledIsRead(v)' /\ LosesOneBatch(v)' /\ DoneNow(v)' = DoneNow(v)
  BY <1>1, <1>2, RepeatKept DEF RepeatInv, KeepsTx
<1>3. TypeOK /\ TxInv(w)
  BY DEF BatchInv
<1>4. ASSUME cancelled' = cancelled, phase[w] \in Running
      PROVE  CancelledRuns' \subseteq CancelledRuns
  BY <1>1, <1>4 DEF CancelledRuns, KeepsTx
<1>5. CASE HandleEvent(w)
  <2>1. \A v \in Workers \ {w} :
            HandledIsRead(v)' /\ LosesOneBatch(v)' /\ DoneNow(v)' = DoneNow(v)
    BY <1>5, RepeatKeptByHandle DEF RepeatInv
  <2>2. HandledIsRead(w)' /\ LosesOneBatch(w)'
    BY <1>5, RepeatNextEvent DEF RepeatInv
  <2>3. ExposesOnly({})
    BY <1>5, <2>1, ExposedByHandle DEF RepeatInv
  <2>4. mishaps' = mishaps /\ cancelled' = cancelled /\ phase[w] \in Running
    BY <1>5 DEF HandleEvent, StepOver, runs, Running, InBatch
  <2> QED
    BY <1>4, <2>1, <2>2, <2>3, <2>4, RepeatQuiet
<1>6. CASE SkipEvent(w)
  <2>1. /\ UNCHANGED <<checkpoints, handled, repeats, mishaps, cancelled>>
        /\ phase[w] \in Running
    BY <1>6 DEF SkipEvent, StepOver, runs, effect, Running, InBatch
  <2>2. HandledIsRead(w)' /\ LosesOneBatch(w)' /\ DoneNow(w) \subseteq DoneNow(w)'
    BY <1>6, RepeatNextEvent DEF RepeatInv
  <2>3. ExposesOnly({})
    BY <1>1, <1>2, <2>1, <2>2, ExposedByWorker
  <2> QED
    BY <1>2, <1>4, <2>1, <2>2, <2>3, RepeatQuiet
<1>7. CASE CommitBatch(w)
  <2>1. /\ UNCHANGED <<handled, repeats, mishaps, cancelled>>
        /\ phase[w] \in Running /\ batch'[w] = {} /\ lastPosition'[w] = 0
    BY <1>3, <1>7 DEF CommitBatch, EndTransaction, effect, TypeOK, Running, InBatch
  <2>2. HandledIsRead(w)' /\ LosesOneBatch(w)'
    BY <2>1, RepeatEmpty
  <2>3. ExposesOnly({})
    BY <1>2, <1>7, <2>1, ExposedByCommit
  <2> QED
    BY <1>2, <1>4, <2>1, <2>2, <2>3, RepeatQuiet
<1>8. CASE Start(w) \/ Wake(w) \/ BeginBatch(w) \/ GetCheckpoint(w) \/ ReadBatch(w)
            \/ UpdateCheckpoint(w) \/ NoEventsInBatch(w) \/ RunIsCancelled(w)
  <2>1. /\ UNCHANGED <<checkpoints, handled, repeats, mishaps>>
        /\ \/ cancelled' = cancelled /\ phase[w] \in Running
           \/ Start(w)
    BY <1>8
       DEF Start, Wake, BeginBatch, GetCheckpoint, ReadBatch, UpdateCheckpoint,
           Upsert, NoEventsInBatch, RunIsCancelled, Stop, effect, runs, Running, InBatch
  <2>2. CancelledRuns' \subseteq CancelledRuns
    <3>1. Start(w) => CancelledRuns' \subseteq CancelledRuns
      BY <1>1, <1>3 DEF Start, CancelledRuns, KeepsTx, TypeOK
    <3> QED
      BY <1>4, <2>1, <3>1
  <2>3. /\ HandledIsRead(w)' /\ LosesOneBatch(w)'
        /\ DoneNow(w) \subseteq DoneNow(w)'
    <3>1. CASE ReadBatch(w)
      BY <3>1, RepeatReadBatch
    <3>2. CASE GetCheckpoint(w) \/ NoEventsInBatch(w) \/ RunIsCancelled(w)
      <4>1. batch'[w] = {} /\ lastPosition'[w] = 0 /\ lastPosition[w] = 0
        BY <1>3, <3>2
           DEF GetCheckpoint, NoEventsInBatch, RunIsCancelled, Stop, EndTransaction,
               TypeOK, TxInv
      <4> QED
        BY <2>1, <4>1, RepeatEmpty, DoneNowFacts
    <3>3. CASE Start(w) \/ Wake(w) \/ BeginBatch(w) \/ UpdateCheckpoint(w)
      <4>1. /\ checkpoint'[w] = checkpoint[w] /\ batch'[w] = batch[w]
            /\ lastPosition'[w] = lastPosition[w]
        BY <3>3 DEF Start, Wake, BeginBatch, UpdateCheckpoint, Upsert, tx
      <4> QED
        BY <1>1, <2>1, <4>1, RepeatKept DEF RepeatInv
    <3> QED
      BY <1>8, <3>1, <3>2, <3>3
  <2>4. ExposesOnly({})
    BY <1>1, <1>2, <2>1, <2>3, ExposedByWorker
  <2> QED
    BY <1>2, <2>1, <2>2, <2>3, <2>4, RepeatQuiet
<1>9. CASE Cancel(w)
  <2>1. /\ UNCHANGED <<checkpoints, handled, repeats, checkpoint, batch,
                       lastPosition, phase>>
        /\ mishaps' = mishaps + 1
        /\ CancelledRuns' \subseteq CancelledRuns \cup {w}
    BY <1>3, <1>9 DEF Cancel, Mishap, effect, tx, TypeOK, CancelledRuns
  <2>2. HandledIsRead(w)' /\ LosesOneBatch(w)' /\ DoneNow(w)' = DoneNow(w)
    BY <1>1, <2>1, RepeatKept DEF RepeatInv
  <2>3. ExposesOnly({})
    BY <1>1, <1>2, <2>1, <2>2, ExposedByWorker
  <2>4. IsFiniteSet({})
    BY FS_EmptySet
  <2>5. MishapsPay'
    BY <2>1, <2>3, <2>4, StillPaid DEF RepeatInv
  <2> QED
    BY <1>2, <2>1, <2>2, <2>5 DEF RepeatInv
<1>10. CASE Crash(w) \/ HandlerFails(w) \/ StatementFails(w) \/ HandlerFindsNoRows(w)
  <2>1. /\ UNCHANGED <<checkpoints, handled, repeats, cancelled>> /\ EndsTx(w)
        /\ phase[w] \in Running
    BY <1>3, <1>10
       DEF Crash, HandlerFails, StatementFails, HandlerFindsNoRows, Stop,
           EndTransaction, EndsTx, TypeOK, Running, InBatch
  <2>2. \/ mishaps' = mishaps + 1
        \/ phase'[w] = "stopped" /\ w \in CancelledRuns /\ mishaps' = mishaps
    BY <1>3, <1>10, <2>1
       DEF Crash, HandlerFails, StatementFails, HandlerFindsNoRows, Stop, Mishap,
           TypeOK, CancelledRuns
  <2> QED
    BY <2>1, <2>2, RepeatLost
<1> QED
  BY <1>5, <1>6, <1>7, <1>8, <1>9, <1>10
     DEF WorkerStep, LoopStep, BatchStep, FailedStep

LEMMA RepeatStep ==
    ASSUME OneWorkerPerCheckpoint, SamePartitions, BatchInv, GuardInv, RepeatInv,
           [Next]_vars
    PROVE  RepeatInv'
<1>1. BatchInv'
  BY BatchStepKeeps
<1>2. CASE UNCHANGED <<checkpoints, tx, runs, effect>>
  <2>1. UNCHANGED <<checkpoints, checkpoint, batch, lastPosition, phase, cancelled,
                    deployment, mishaps, handled, repeats>>
    BY <1>2 DEF tx, runs, effect
  <2>2. \A v \in Workers : \A e :
            /\ ShouldProcessEvent(v, e)' <=> ShouldProcessEvent(v, e)
            /\ Deployed(v)' <=> Deployed(v)
            /\ CheckpointName(v)' = CheckpointName(v)
    BY <2>1 DEF ShouldProcessEvent, Deployed, CheckpointName, Total
  <2>3. \A v \in Workers :
            HandledIsRead(v)' /\ LosesOneBatch(v)' /\ DoneNow(v)' = DoneNow(v)
    BY <2>1, RepeatKept DEF RepeatInv
  <2>4. Exposed' = Exposed
    BY <2>1, <2>2, <2>3 DEF Exposed
  <2>5. MishapsPay'
    BY <2>1, <2>4 DEF RepeatInv, MishapsPay, CancelledRuns
  <2> QED
    BY <2>3, <2>5 DEF RepeatInv
<1>3. CASE Redeploy
  BY <1>1, <1>3, RepeatRedeploy
<1> QED
  BY <1>1, <1>2, <1>3, RepeatWorker DEF Next, vars

LEMMA RepeatInit == Init => RepeatInv
<1> SUFFICES ASSUME Init PROVE RepeatInv
  OBVIOUS
<1>1. /\ handled = {} /\ repeats = 0 /\ mishaps = 0
      /\ \A w \in Workers : batch[w] = {} /\ ~cancelled[w]
  BY DEF Init
<1>2. Exposed = {} /\ CancelledRuns = {} /\ \A w \in Workers : DoneNow(w) = {}
  BY <1>1 DEF Exposed, CancelledRuns, DoneNow
<1>3. IsFiniteSet({}) /\ Cardinality({}) = 0
  BY FS_EmptySet
<1>4. BatchSize * 0 = 0 /\ 0 * BatchSize = 0
  BY WorkersAssumption
<1>5. MishapsPay
  BY <1>1, <1>2, <1>3, <1>4 DEF MishapsPay
<1>6. \A w \in Workers : HandledIsRead(w) /\ LosesOneBatch(w)
  <2> SUFFICES ASSUME NEW w \in Workers PROVE HandledIsRead(w) /\ LosesOneBatch(w)
    OBVIOUS
  <2>1. DoneNow(w) \cup batch[w] = {} /\ batch[w] = {}
    BY <1>1, <1>2, <1>3
  <2>2. Cardinality(DoneNow(w) \cup batch[w]) <= BatchSize
    <3>1. Cardinality(DoneNow(w) \cup batch[w]) = 0
      BY <1>3, <2>1, Zenon
    <3>2. 0 <= BatchSize
      BY WorkersAssumption
    <3> QED
      BY <3>1, <3>2, Zenon
  <2> QED
    BY <2>1, <2>2 DEF HandledIsRead, LosesOneBatch
<1> QED
  BY <1>5, <1>6 DEF RepeatInv

(* The price of a mishap is at most one batch handled again: as long as no *)
(* two deployed workers share a checkpoint and the number of partitions is *)
(* not changed, and in whatever order events become readable.              *)
THEOREM MishapsCostOneBatch ==
    OneWorkerPerCheckpoint /\ SamePartitions /\ Spec => []RepeatsAreBounded
<1>1. ASSUME BatchInv, RepeatInv PROVE RepeatsAreBounded
  <2>1. IsFiniteSet(Exposed) /\ IsFiniteSet(CancelledRuns)
    <3>1. IsFiniteSet(handled)
      BY <1>1, LogIsFinite, FS_Subset DEF BatchInv, TypeOK
    <3> QED
      BY <1>1, <3>1, FS_Subset DEF Exposed, RepeatInv, MishapsPay
  <2>2. repeats \in Nat /\ Cardinality(Exposed) \in Nat /\ Cardinality(CancelledRuns) \in Nat
    BY <1>1, <2>1, FS_CardinalityType DEF BatchInv, TypeOK
  <2>3. BatchSize * Cardinality(CancelledRuns) \in Nat /\ mishaps * BatchSize \in Nat
    <3>1. BatchSize \in Nat /\ mishaps \in Nat
      BY <1>1, WorkersAssumption DEF BatchInv, TypeOK
    <3>2. \A i, j \in Nat : i * j \in Nat
      BY SMT
    <3> QED
      BY <2>2, <3>1, <3>2
  <2> QED
    BY <1>1, <2>2, <2>3 DEF RepeatInv, MishapsPay, RepeatsAreBounded
<1>2. Init => RepeatInv
  BY RepeatInit
<1>3. OneWorkerPerCheckpoint /\ SamePartitions /\ BatchInv /\ GuardInv /\ RepeatInv
        /\ [Next]_vars => RepeatInv'
  BY RepeatStep
<1>4. CASE OneWorkerPerCheckpoint /\ SamePartitions
  <2>1. BatchInv /\ GuardInv /\ RepeatInv /\ [Next]_vars => RepeatInv'
    BY <1>3, <1>4
  <2>2. OneWorkerPerCheckpoint
    BY <1>4
  <2> QED
    BY <1>1, <1>2, <2>1, <2>2, GuardInvariance, PTL DEF Spec
<1> QED
  BY <1>4

-----------------------------------------------------------------------------
(* Which worker owns an aggregate, for every hash and number of workers.   *)

(* Where int is wider than the hash, every aggregate has exactly one owner *)
(* among the workers, however many there are.                              *)
THEOREM WideIntHasOneOwner ==
    ASSUME IntWraps = FALSE, NEW h \in Hashes, NEW total \in Nat \ {0}
    PROVE  HasOneOwner(h, total)
<1>1. CASE total = 1
  <2>1. \A key \in 0..(total - 1) : key = 0
    BY <1>1
  <2>2. \A key \in 0..(total - 1) : ShouldProcess(h, key, total) <=> key = 0
    BY <1>1, <2>1 DEF ShouldProcess
  <2> QED
    BY <1>1, <2>2 DEF HasOneOwner
<1>2. CASE total > 1
  <2>1. h \in Nat /\ ToInt(h) = h
    BY HashAssumption DEF Hashes, ToInt
  <2>2. Rem(ToInt(h), total) = h % total
    BY <2>1 DEF Rem
  <2>3. h % total \in 0..(total - 1)
    BY <2>1
  <2>4. \A key \in 0..(total - 1) :
            ShouldProcess(h, key, total) <=> key = h % total
    BY <1>2, <2>2 DEF ShouldProcess
  <2> QED
    BY <2>3, <2>4 DEF HasOneOwner
<1> QED
  BY <1>1, <1>2

(* Where int is as narrow as the hash, at least the aggregate with the     *)
(* greatest hash belongs to no worker, however many there are: its hash    *)
(* becomes -1, and no key is negative.  All workers step over its events.  *)
THEOREM NarrowIntLosesAggregates ==
    ASSUME IntWraps = TRUE, HashRange > 1, NEW total \in Nat \ {0, 1},
           NEW key \in 0..(total - 1)
    PROVE  ~ShouldProcess(HashRange - 1, key, total)
<1>1. ToInt(HashRange - 1) = -1
  BY HashAssumption DEF ToInt
<1>2. 1 % total = 1
  BY SMT
<1>3. Rem(-1, total) = -1
  BY <1>2 DEF Rem
<1> QED
  BY <1>1, <1>3 DEF ShouldProcess

=============================================================================
