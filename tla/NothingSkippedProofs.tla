-------------------------- MODULE NothingSkippedProofs --------------------------
(***************************************************************************)
(* Why a projection skips nothing: for any workers, keys, batch sizes,     *)
(* mishaps and events, and even when workers share a checkpoint, as long   *)
(* as events become readable in the order of their positions (OneWriter)   *)
(* and a number of partitions stays once there are several.                *)
(***************************************************************************)
EXTENDS ProcessorProofs

(* A number of partitions, once there are several, stays.                  *)
PartitionsStay == \A c, d \in DOMAIN Totals :
    Totals[c] > 1 /\ Totals[d] > 1 => Totals[c] = Totals[d]

(* With one writer no event becomes readable before a readable one.        *)
LogComesFirst == \A e \in log, f \in inFlight : e.position < f.position

(* A position to go on from is that of a readable event, so no event that  *)
(* is still to come lies below it.                                         *)
Logged(p) == p = 0 \/ \E e \in log : e.position = p

AllLogged ==
    /\ \A n \in Names : Logged(checkpoints[n])
    /\ \A w \in Workers : Logged(checkpoint[w]) /\ Logged(lastPosition[w])

(* The events left to do have no gap.                                      *)
NoGap(w) == \A e \in log, f \in batch[w] :
    e.position > Reached(w) /\ e.position <= f.position => e \in batch[w]

(* What the batch has passed, and what any checkpoint covers, is handled   *)
(* if it belongs to the worker, at whatever deployment.                    *)
Done(w) == \A e \in InScope :
    ShouldProcessEvent(w, e) /\ e.position <= Reached(w) => e \in handled

CheckpointsTell == \A d \in DOMAIN Totals, w \in Workers, e \in InScope :
    OwnsIn(w, Totals[d], e) /\ e.position <= checkpoints[NameIn(w, Totals[d])]
        => e \in handled

SkipInv ==
    /\ LogComesFirst
    /\ AllLogged
    /\ \A w \in Workers : NoGap(w) /\ Done(w)
    /\ CheckpointsTell
    /\ AggregatesInOrder

-----------------------------------------------------------------------------
(* The log.                                                                *)

(* With one writer, events become readable behind all readable ones.       *)
LEMMA NewEventsComeLast ==
    ASSUME OneWriter, TypeOK, LogComesFirst, FeedNext
    PROVE  /\ LogComesFirst'
           /\ log \subseteq log'
           /\ \A e \in log' \ log, f \in log : f.position < e.position
<1>1. CASE \E e \in FeedEvents : Insert(e)
  BY <1>1 DEF Insert, Ordered, LogComesFirst
<1>2. ASSUME NEW S \in SUBSET inFlight, CommitEvents(S)
      PROVE  /\ LogComesFirst'
             /\ log \subseteq log'
             /\ \A e \in log' \ log, f \in log : f.position < e.position
  <2>1. \A f \in inFlight : f \in S
    BY <1>2 DEF CommitEvents, Ordered
  <2>2. inFlight' = {} /\ log' = log \cup S
    BY <1>2, <2>1 DEF CommitEvents
  <2> QED
    BY <2>2 DEF LogComesFirst
<1>3. ASSUME NEW S \in SUBSET inFlight, AbortEvents(S)
      PROVE  LogComesFirst' /\ log' = log
  BY <1>3 DEF AbortEvents, LogComesFirst
<1> QED
  BY <1>1, <1>2, <1>3 DEF FeedNext, TransactionEnds

-----------------------------------------------------------------------------
(* Steps of the feed: what becomes readable lies above every position that *)
(* anybody goes on from.                                                   *)
LEMMA SkipFeed ==
    ASSUME OneWriter, BatchInv, SkipInv, FeedNext,
           UNCHANGED <<checkpoints, tx, runs, effect>>
    PROVE  SkipInv'
<1> USE DEF BatchInv, SkipInv
<1> DEFINE fresh == log' \ log
<1>1. /\ LogComesFirst'
      /\ log \subseteq log'
      /\ \A e \in fresh, f \in log : f.position < e.position
  BY NewEventsComeLast
<1>2. TypeOK'
  BY TypeStep DEF Next
<1>3. \A e \in log' : e.position \in Nat /\ e.position > 0
  BY <1>2, WorkersAssumption DEF TypeOK, FeedEvents
<1>4. ASSUME NEW p, Logged(p), NEW e \in fresh PROVE ~(e.position <= p)
  BY <1>1, <1>3, <1>4 DEF Logged
<1> HIDE DEF fresh
<1>5. AllLogged'
  BY <1>1 DEF AllLogged, Logged, tx
<1>6. ASSUME NEW w \in Workers PROVE NoGap(w)' /\ Done(w)'
  <2>1. Reached(w)' = Reached(w) /\ batch' = batch
    BY DEF Reached, tx
  <2>2. Logged(Reached(w))
    BY DEF AllLogged, Reached
  <2>3. NoGap(w)'
    <3> SUFFICES ASSUME NEW e \in log', NEW f \in batch[w],
                        e.position > Reached(w), e.position <= f.position
                 PROVE  e \in batch[w]
      BY <2>1 DEF NoGap
    <3>1. f \in log
      BY PositionFacts
    <3>2. e \in log
      BY <1>1, <1>3, <3>1 DEF fresh
    <3> QED
      BY <3>2 DEF NoGap
  <2>4. Done(w)'
    <3> SUFFICES ASSUME NEW e \in log', e.aggregate \in Scope,
                        ShouldProcessEvent(w, e), e.position <= Reached(w)
                 PROVE  e \in handled
      BY <2>1 DEF Done, InScope, ShouldProcessEvent, Total, runs, effect
    <3>1. e \in log
      BY <1>4, <2>2 DEF fresh
    <3> QED
      BY <3>1 DEF Done, InScope
  <2> QED
    BY <2>3, <2>4
<1>7. CheckpointsTell'
  <2> SUFFICES ASSUME NEW d \in DOMAIN Totals, NEW w \in Workers, NEW e \in log',
                      e.aggregate \in Scope, OwnsIn(w, Totals[d], e),
                      e.position <= checkpoints[NameIn(w, Totals[d])]
               PROVE  e \in handled
    BY DEF CheckpointsTell, InScope, effect
  <2>1. Logged(checkpoints[NameIn(w, Totals[d])])
    BY NameFacts DEF AllLogged
  <2>2. e \in log
    BY <1>4, <2>1 DEF fresh
  <2> QED
    BY <2>2 DEF CheckpointsTell, InScope
<1>8. AggregatesInOrder'
  <2> SUFFICES ASSUME NEW e \in handled, NEW f \in log', f.aggregate \in Scope,
                      f.aggregate = e.aggregate, f.position < e.position
               PROVE  f \in handled
    BY DEF AggregatesInOrder, InScope, effect
  <2>1. e \in log
    BY DEF TypeOK
  <2>2. f \in log
    BY <1>1, <1>3, <2>1 DEF fresh
  <2> QED
    BY <2>2 DEF AggregatesInOrder, InScope
<1> QED
  BY <1>1, <1>5, <1>6, <1>7, <1>8

-----------------------------------------------------------------------------
(* Steps of a worker.                                                      *)

(* What one worker does leaves the batches of the others as they are.      *)
LEMMA SkipKept ==
    ASSUME NEW v \in Workers, KeepsTx(v), log' = log, deployment' = deployment,
           handled \subseteq handled', NoGap(v), Done(v)
    PROVE  NoGap(v)' /\ Done(v)'
  BY DEF NoGap, Done, KeepsTx, Reached, InScope, ShouldProcessEvent, Total

(* Nor does the end of a transaction leave anything to show.               *)
LEMMA SkipEnded ==
    ASSUME TypeOK, NEW w \in Workers, EndsTx(w), log' = log
    PROVE  NoGap(w)' /\ Done(w)'
<1>1. Reached(w)' = 0 /\ batch'[w] = {}
  BY DEF EndsTx, Reached
<1>2. \A e \in log : e.position \in Nat /\ e.position > 0
  BY PositionFacts
<1> QED
  BY <1>1, <1>2 DEF NoGap, Done, InScope

(* A batch starts where its checkpoint tells that all before is handled.   *)
LEMMA SkipGetCheckpoint ==
    ASSUME BatchInv, SkipInv, NEW w \in Workers, GetCheckpoint(w)
    PROVE  NoGap(w)' /\ Done(w)'
<1>1. /\ Reached(w)' = checkpoints[CheckpointName(w)]
      /\ batch'[w] = {}
      /\ log' = log /\ deployment' = deployment /\ handled' = handled
  BY DEF GetCheckpoint, BatchInv, TypeOK, TxInv, Reached, feed, effect
<1>2. \A e \in InScope : ShouldProcessEvent(w, e)
          /\ e.position <= checkpoints[CheckpointName(w)] => e \in handled
  BY DEF SkipInv, CheckpointsTell, OwnsIn, NameIn, ShouldProcessEvent,
     CheckpointName, Total, BatchInv, TypeOK
<1> QED
  BY <1>1, <1>2 DEF NoGap, Done, InScope, ShouldProcessEvent, Total

LEMMA SkipReadBatch ==
    ASSUME BatchInv, SkipInv, NEW w \in Workers, ReadBatch(w)
    PROVE  NoGap(w)' /\ Done(w)'
<1>1. /\ Reached(w)' = Reached(w) /\ Reached(w) = checkpoint[w]
      /\ batch'[w] = ReadEvents(checkpoint[w])
      /\ log' = log /\ deployment' = deployment /\ handled' = handled
  BY DEF ReadBatch, BatchInv, TypeOK, TxInv, Reached, feed, effect
<1>2. checkpoint[w] \in Nat
  BY PositionFacts DEF BatchInv
<1>3. NoGap(w)'
  BY <1>1, <1>2, ReadEventsHasNoGap DEF NoGap, BatchInv
<1>4. Done(w)'
  BY <1>1 DEF SkipInv, Done, InScope, ShouldProcessEvent, Total
<1> QED
  BY <1>3, <1>4

(* The next event: all before it is done, unless it is another's.          *)
LEMMA NextEventFacts ==
    ASSUME BatchInv, SkipInv, NEW w \in Workers, batch[w] # {}
    PROVE  /\ NextEvent(w) \in batch[w] /\ NextEvent(w) \in log
           /\ NextEvent(w).position > Reached(w)
           /\ NextEvent(w).position \in Nat /\ NextEvent(w).position > 0
           /\ \A e \in log : e.position \in Nat
           /\ \A e \in InScope : ShouldProcessEvent(w, e)
                  /\ e.position <= NextEvent(w).position /\ e # NextEvent(w)
                  => e \in handled
<1> DEFINE next == NextEvent(w)
<1>1. /\ next \in batch[w]
      /\ \A f \in batch[w] : next.position <= f.position
  BY NextEventIsFirst DEF BatchInv
<1>2. /\ next \in log /\ next.position \in Nat /\ next.position > 0
      /\ Reached(w) \in Nat
      /\ \A e \in log : e.position \in Nat
  BY <1>1, PositionFacts DEF BatchInv
<1> HIDE DEF next
<1>3. next.position > Reached(w)
  BY <1>1 DEF BatchInv, TxInv
<1>4. ASSUME NEW e \in InScope, ShouldProcessEvent(w, e),
             e.position <= next.position, e # next
      PROVE  e \in handled
  <2>1. e \in log /\ e.position \in Nat
    BY <1>2 DEF InScope
  <2>2. e.position # next.position
    BY <1>2, <1>4, <2>1 DEF BatchInv, PositionsDiffer
  <2>3. e \notin batch[w]
    BY <1>1, <1>2, <1>4, <2>1, <2>2
  <2>4. ~(e.position > Reached(w))
    BY <1>1, <1>4, <2>1, <2>3 DEF SkipInv, NoGap
  <2> QED
    BY <1>2, <1>4, <2>1, <2>4 DEF SkipInv, Done
<1> QED
  BY <1>1, <1>2, <1>3, <1>4 DEF next

LEMMA SkipNextEvent ==
    ASSUME BatchInv, SkipInv, NEW w \in Workers, SkipEvent(w) \/ HandleEvent(w)
    PROVE  NoGap(w)' /\ Done(w)' /\ AggregatesInOrder'
<1> DEFINE next == NextEvent(w)
<1>1. /\ batch[w] # {}
      /\ batch'[w] = batch[w] \ {next}
      /\ lastPosition'[w] = next.position
      /\ log' = log /\ deployment' = deployment
  BY DEF SkipEvent, HandleEvent, StepOver, BatchInv, TypeOK, feed, runs
<1>2. /\ handled \subseteq handled'
      /\ ShouldProcessEvent(w, next) => handled' = handled \cup {next}
      /\ ~ShouldProcessEvent(w, next) => handled' = handled
  BY DEF SkipEvent, HandleEvent, effect
<1>3. /\ next \in batch[w] /\ next \in log
      /\ next.position > Reached(w)
      /\ next.position \in Nat /\ next.position > 0
      /\ \A e \in log : e.position \in Nat
      /\ \A e \in InScope : ShouldProcessEvent(w, e)
             /\ e.position <= next.position /\ e # next => e \in handled
  BY <1>1, NextEventFacts
<1> HIDE DEF next
<1>4. Reached(w)' = next.position
  BY <1>1, <1>3 DEF Reached
<1>5. Reached(w) \in Nat
  BY PositionFacts DEF BatchInv
<1>6. NoGap(w)'
  <2> SUFFICES ASSUME NEW e \in log, NEW f \in batch[w] \ {next},
                      e.position > next.position, e.position <= f.position
               PROVE  e \in batch[w] \ {next}
    BY <1>1, <1>4 DEF NoGap
  <2>1. e.position > Reached(w)
    BY <1>3, <1>5
  <2> QED
    BY <1>3, <2>1 DEF SkipInv, NoGap
<1>7. Done(w)'
  <2> SUFFICES ASSUME NEW e \in InScope, ShouldProcessEvent(w, e),
                      e.position <= next.position
               PROVE  e \in handled'
    BY <1>1, <1>4 DEF Done, InScope, ShouldProcessEvent, Total
  <2> QED
    BY <1>2, <1>3
<1>8. AggregatesInOrder'
  <2> SUFFICES ASSUME NEW e \in handled', NEW f \in InScope,
                      f.aggregate = e.aggregate, f.position < e.position
               PROVE  f \in handled'
    BY <1>1 DEF AggregatesInOrder, InScope
  <2>1. CASE e \in handled
    BY <1>2, <2>1 DEF SkipInv, AggregatesInOrder
  <2>2. CASE e = next /\ ShouldProcessEvent(w, next)
    <3>1. ShouldProcessEvent(w, f)
      BY <2>2 DEF ShouldProcessEvent
    <3>2. f.position <= next.position /\ f # next
      BY <1>3, <2>2 DEF InScope
    <3> QED
      BY <1>2, <1>3, <3>1, <3>2
  <2> QED
    BY <1>2, <2>1, <2>2
<1> QED
  BY <1>6, <1>7, <1>8

(* A batch that commits has done all that its checkpoint then covers,      *)
(* whoever uses the name of the checkpoint, now or in a later deployment.  *)
LEMMA SkipCommit ==
    ASSUME PartitionsStay, BatchInv, SkipInv, NEW w \in Workers, CommitBatch(w)
    PROVE  CheckpointsTell' /\ AllLogged'
<1> DEFINE name == CheckpointName(w)
<1>1. log' = log /\ deployment' = deployment /\ handled' = handled
  BY DEF CommitBatch, feed, effect
<1>2. /\ \A n \in Names : n # name => checkpoints'[n] = checkpoints[n]
      /\ checkpoints'[name] =
             IF lastPosition[w] > 0 THEN lastPosition[w] ELSE checkpoints[name]
  BY CommitFacts
<1>3. lastPosition[w] \in Nat
  BY PositionFacts DEF BatchInv
<1>4. /\ lastPosition[w] > 0 => Reached(w) = lastPosition[w]
      /\ Reached(w)' = 0 /\ lastPosition'[w] = 0 /\ checkpoint'[w] = 0
      /\ \A v \in Workers \ {w} : /\ lastPosition'[v] = lastPosition[v]
                                  /\ checkpoint'[v] = checkpoint[v]
  BY <1>3 DEF Reached, CommitBatch, EndTransaction, BatchInv, TypeOK
<1>5. AllLogged'
  <2>1. \A n \in Names : Logged(checkpoints'[n])
    BY <1>2, <1>3 DEF SkipInv, AllLogged
  <2>2. \A v \in Workers : Logged(checkpoint'[v]) /\ Logged(lastPosition'[v])
    BY <1>4 DEF SkipInv, AllLogged, Logged
  <2> QED
    BY <1>1, <2>1, <2>2 DEF AllLogged, Logged
<1>6. CheckpointsTell'
  <2> SUFFICES ASSUME NEW d \in DOMAIN Totals, NEW v \in Workers, NEW e \in InScope,
                      OwnsIn(v, Totals[d], e),
                      e.position <= checkpoints'[NameIn(v, Totals[d])]
               PROVE  e \in handled
    BY <1>1 DEF CheckpointsTell, InScope
  <2>1. NameIn(v, Totals[d]) \in Names
    BY NameFacts
  <2>2. CASE NameIn(v, Totals[d]) # name \/ lastPosition[w] = 0
    <3>1. checkpoints'[NameIn(v, Totals[d])] = checkpoints[NameIn(v, Totals[d])]
      BY <1>2, <2>1, <2>2
    <3> QED
      BY <3>1 DEF SkipInv, CheckpointsTell
  <2>3. CASE NameIn(v, Totals[d]) = name /\ lastPosition[w] # 0
    <3>1. e.position <= Reached(w)
      BY <1>2, <1>3, <1>4, <2>3
    <3>2. /\ Totals[d] \in Nat \ {0} /\ Total \in Nat \ {0}
          /\ Key[v] \in Nat /\ Key[w] \in Nat
      BY WorkersAssumption, ElementOfSeq, LenProperties DEF Total, BatchInv, TypeOK
    <3>3. \/ Totals[d] <= 1 /\ Total <= 1
          \/ Totals[d] > 1 /\ Total > 1 /\ Key[v] = Key[w]
      BY <2>3, <3>2 DEF NameIn, CheckpointName, Whole
    <3>4. Totals[d] > 1 /\ Total > 1 => Totals[d] = Total
      BY DEF PartitionsStay, Total, BatchInv, TypeOK
    <3>5. ShouldProcessEvent(w, e)
      BY <3>3, <3>4 DEF OwnsIn, ShouldProcessEvent, ShouldProcess
    <3> QED
      BY <3>1, <3>5 DEF SkipInv, Done
  <2> QED
    BY <2>2, <2>3
<1> QED
  BY <1>5, <1>6

(* In all other steps checkpoints tell of no more than before.             *)
LEMMA SkipFrame ==
    ASSUME SkipInv, checkpoints' = checkpoints, log' = log, handled \subseteq handled'
    PROVE  CheckpointsTell'
  BY DEF SkipInv, CheckpointsTell, InScope

LEMMA SkipWorker ==
    ASSUME PartitionsStay, BatchInv, SkipInv, NEW w \in Workers, WorkerStep(w)
    PROVE  SkipInv'
<1>1. /\ log' = log /\ inFlight' = inFlight /\ deployment' = deployment
      /\ \A v \in Workers \ {w} : KeepsTx(v)
  BY WorkerFrame DEF BatchInv
<1>2. LogComesFirst'
  BY <1>1 DEF SkipInv, LogComesFirst
<1>3. ASSUME handled \subseteq handled', NoGap(w)', Done(w)',
             CheckpointsTell', AllLogged', AggregatesInOrder'
      PROVE  SkipInv'
  <2>1. \A v \in Workers \ {w} : NoGap(v)' /\ Done(v)'
    BY <1>1, <1>3, SkipKept DEF SkipInv
  <2> QED
    BY <1>2, <1>3, <2>1 DEF SkipInv
<1>4. handled' = handled => AggregatesInOrder'
  BY <1>1 DEF SkipInv, AggregatesInOrder, InScope
<1>5. ASSUME checkpoints' = checkpoints, Logged(checkpoint'[w]), Logged(lastPosition'[w])
      PROVE  AllLogged'
  <2>1. \A v \in Workers : Logged(checkpoint'[v]) /\ Logged(lastPosition'[v])
    BY <1>1, <1>5 DEF SkipInv, AllLogged, KeepsTx
  <2> QED
    BY <1>1, <1>5, <2>1 DEF SkipInv, AllLogged, Logged
<1>6. ASSUME checkpoints' = checkpoints, handled' = handled,
             KeepsTx(w) \/ EndsTx(w)
      PROVE  SkipInv'
  <2>1. NoGap(w)' /\ Done(w)'
    BY <1>1, <1>6, SkipKept, SkipEnded DEF SkipInv, BatchInv
  <2>2. Logged(checkpoint'[w]) /\ Logged(lastPosition'[w])
    BY <1>6 DEF KeepsTx, EndsTx, SkipInv, AllLogged, Logged
  <2> QED
    BY <1>1, <1>3, <1>4, <1>5, <1>6, <2>1, <2>2, SkipFrame
<1>7. CASE Start(w) \/ BeginBatch(w) \/ UpdateCheckpoint(w) \/ Wake(w)
  <2>1. /\ checkpoints' = checkpoints /\ handled' = handled
        /\ checkpoint' = checkpoint /\ batch' = batch /\ lastPosition' = lastPosition
    BY <1>7 DEF Start, BeginBatch, UpdateCheckpoint, Upsert, Wake, tx, effect
  <2>2. NoGap(w)' /\ Done(w)'
    BY <1>1, <2>1 DEF SkipInv, NoGap, Done, Reached, InScope, ShouldProcessEvent, Total
  <2>3. Logged(checkpoint'[w]) /\ Logged(lastPosition'[w])
    BY <2>1 DEF SkipInv, AllLogged
  <2> QED
    BY <1>1, <1>3, <1>4, <1>5, <2>1, <2>2, <2>3, SkipFrame
<1>8. CASE GetCheckpoint(w) \/ ReadBatch(w)
  <2>1. /\ checkpoints' = checkpoints /\ handled' = handled
        /\ lastPosition' = lastPosition
        /\ checkpoint'[w] \in {checkpoint[w], checkpoints[CheckpointName(w)]}
    BY <1>8 DEF GetCheckpoint, ReadBatch, effect, BatchInv, TypeOK
  <2>2. NoGap(w)' /\ Done(w)'
    BY <1>8, SkipGetCheckpoint, SkipReadBatch
  <2>3. CheckpointName(w) \in Names
    BY NameFacts DEF CheckpointName, NameIn
  <2>4. Logged(checkpoint'[w]) /\ Logged(lastPosition'[w])
    BY <2>1, <2>3 DEF SkipInv, AllLogged
  <2> QED
    BY <1>1, <1>3, <1>4, <1>5, <2>1, <2>2, <2>4, SkipFrame
<1>9. CASE SkipEvent(w) \/ HandleEvent(w)
  <2>1. /\ checkpoints' = checkpoints /\ handled \subseteq handled'
        /\ checkpoint' = checkpoint
        /\ batch[w] # {} /\ lastPosition'[w] = NextEvent(w).position
    BY <1>9 DEF SkipEvent, HandleEvent, StepOver, effect, BatchInv, TypeOK
  <2>2. NoGap(w)' /\ Done(w)' /\ AggregatesInOrder'
    BY <1>9, SkipNextEvent
  <2>3. NextEvent(w) \in log
    BY <2>1, NextEventFacts
  <2>4. Logged(checkpoint'[w]) /\ Logged(lastPosition'[w])
    BY <2>1, <2>3 DEF SkipInv, AllLogged, Logged
  <2> QED
    BY <1>1, <1>3, <1>5, <2>1, <2>2, <2>4, SkipFrame
<1>10. CASE CommitBatch(w) /\ EndsTx(w)
  <2>1. handled' = handled
    BY <1>10 DEF CommitBatch, effect
  <2>2. NoGap(w)' /\ Done(w)'
    BY <1>1, <1>10, SkipEnded DEF BatchInv
  <2>3. CheckpointsTell' /\ AllLogged'
    BY <1>10, SkipCommit
  <2> QED
    BY <1>3, <1>4, <2>1, <2>2, <2>3
<1> QED
  BY <1>6, <1>7, <1>8, <1>9, <1>10, WorkerCases DEF BatchInv

-----------------------------------------------------------------------------
LEMMA SkipStep ==
    ASSUME OneWriter, PartitionsStay, BatchInv, SkipInv, [Next]_vars
    PROVE  SkipInv'
<1>1. CASE UNCHANGED vars
  BY <1>1 DEF vars, feed, tx, runs, effect, SkipInv, LogComesFirst, AllLogged, Logged,
     NoGap, Done, Reached, CheckpointsTell, AggregatesInOrder, InScope,
     ShouldProcessEvent, Total
<1>2. CASE FeedNext /\ UNCHANGED <<checkpoints, tx, runs, effect>>
  BY <1>2, SkipFeed
<1>3. ASSUME NEW w \in Workers, WorkerStep(w) PROVE SkipInv'
  BY <1>3, SkipWorker
<1>4. CASE Redeploy
  <2>1. /\ log' = log /\ inFlight' = inFlight
        /\ checkpoints' = checkpoints /\ handled' = handled
        /\ checkpoint' = checkpoint /\ batch' = batch /\ lastPosition' = lastPosition
    BY <1>4 DEF Redeploy, feed, tx, effect
  <2>2. ASSUME NEW w \in Workers PROVE NoGap(w)' /\ Done(w)'
    <3>1. /\ batch[w] = {} /\ Reached(w)' = 0
      BY <1>4, <2>1 DEF Redeploy, BatchInv, TxInv, Reached
    <3>2. \A e \in log : e.position \in Nat /\ e.position > 0
      BY PositionFacts DEF BatchInv
    <3> QED
      BY <2>1, <3>1, <3>2 DEF NoGap, Done, InScope
  <2>3. AllLogged' /\ LogComesFirst' /\ AggregatesInOrder'
    BY <2>1 DEF SkipInv, AllLogged, Logged, LogComesFirst, AggregatesInOrder, InScope
  <2> QED
    BY <2>1, <2>2, <2>3, SkipFrame DEF SkipInv
<1> QED
  BY <1>1, <1>2, <1>3, <1>4 DEF Next

LEMMA SkipInit == Init => SkipInv
<1> SUFFICES ASSUME Init PROVE SkipInv
  OBVIOUS
<1>1. log = {} /\ inFlight = {} /\ handled = {}
  BY DEF Init, FeedInit
<1>2. AllLogged
  BY DEF Init, AllLogged, Logged
<1> QED
  BY <1>1, <1>2 DEF SkipInv, LogComesFirst, NoGap, Done, CheckpointsTell,
     AggregatesInOrder, InScope

LEMMA SkipInvariance ==
    OneWriter /\ PartitionsStay /\ Spec => [](BatchInv /\ SkipInv)
<1>1. CASE OneWriter /\ PartitionsStay
  <2>1. BatchInv /\ SkipInv /\ [Next]_vars => SkipInv'
    BY <1>1, SkipStep
  <2> QED
    BY <2>1, SkipInit, BatchInvariance, PTL DEF Spec
<1> QED
  BY <1>1

(* Whatever crashes, fails, is cancelled, runs twice or is redeployed: an  *)
(* event that the checkpoints of its owners cover has been handled.        *)
THEOREM OrderedFeedSkipsNothing ==
    OneWriter /\ PartitionsStay /\ Spec => []NothingSkipped
<1>1. BatchInv /\ SkipInv => NothingSkipped
  BY DEF BatchInv, TypeOK, SkipInv, CheckpointsTell, NothingSkipped, OwnsIn, NameIn,
     ShouldProcessEvent, CheckpointName, Total
<1> QED
  BY <1>1, SkipInvariance, PTL

(* ... and the handler gets to know no event before an earlier one of its  *)
(* aggregate.                                                              *)
THEOREM AggregatesAreHandledInOrder ==
    OneWriter /\ PartitionsStay /\ Spec => []AggregatesInOrder
<1>1. SkipInv => AggregatesInOrder
  BY DEF SkipInv
<1> QED
  BY <1>1, SkipInvariance, PTL

=============================================================================
