-------------------------- MODULE EventStoreProofs --------------------------
(***************************************************************************)
(* Theorems about EventStore, for any number of clients, aggregates and    *)
(* events, and for the three dialects.                                     *)
(***************************************************************************)
EXTENDS EventStore, FiniteSetTheorems, SequenceTheorems, TLAPS

(* A batch is a sequence of one to MaxBatch event IDs.                     *)
LEMMA BatchFacts ==
    ASSUME NEW ids \in Batches
    PROVE  /\ ids \in Seq(EventIDs)
           /\ Len(ids) \in 1..MaxBatch
<1>1. PICK n \in 1..MaxBatch : ids \in [1..n -> EventIDs]
  BY DEF Batches
<1>2. n \in Nat
  BY <1>1, BoundsAssumption
<1>3. ids \in Seq(EventIDs) /\ Len(ids) = n
  BY <1>1, <1>2
<1> QED
  BY <1>1, <1>3

(* The row an INSERT adds is well typed and gets the next version.         *)
LEMMA NewRowFacts ==
    ASSUME TypeOK, NEW c \in Clients, phase[c] = "positioned"
    PROVE  /\ NewRow(c) \in StoredEvents
           /\ NewRow(c).aggregate = call[c].aggregate
           /\ NewRow(c).version = call[c].from + call[c].inserted + 1
           /\ call[c].inserted < Len(call[c].ids)
           /\ Len(call[c].ids) \in 1..MaxBatch
           /\ call[c] \in Calls
<1>1. /\ call[c] \in Calls
      /\ call[c].inserted <= Len(call[c].ids)
      /\ call[c].inserted # Len(call[c].ids)
      /\ call[c].position > 0
  BY DEF TypeOK, CallFitsPhase, InAppend
<1>2. /\ call[c].aggregate \in Aggregates
      /\ call[c].from \in Nat
      /\ call[c].ids \in Batches
      /\ call[c].inserted \in 0..MaxBatch
      /\ call[c].position \in Nat
  BY <1>1 DEF Calls
<1>3. /\ call[c].ids \in Seq(EventIDs)
      /\ Len(call[c].ids) \in 1..MaxBatch
  BY <1>2, BatchFacts
<1>4. call[c].inserted + 1 \in 1..Len(call[c].ids)
  BY <1>1, <1>2, <1>3, BoundsAssumption
<1>5. call[c].ids[call[c].inserted + 1] \in EventIDs
  BY <1>3, <1>4, ElementOfSeq
<1>6. call[c].from + call[c].inserted + 1 \in Nat \ {0}
  BY <1>2, BoundsAssumption
<1>7. NewRow(c) \in StoredEvents
  BY <1>1, <1>2, <1>5, <1>6 DEF NewRow, StoredEvents
<1>8. call[c].inserted < Len(call[c].ids)
  BY <1>1, <1>2, <1>3, BoundsAssumption
<1> QED
  BY <1>1, <1>3, <1>7, <1>8 DEF NewRow

(* A position that is handed out is a positive number.                     *)
LEMMA FreshPositionFacts ==
    ASSUME TypeOK, NEW c \in Clients
    PROVE  FreshPosition(c) \in Nat \ {0}
<1>1. Cardinality(rows[c]) \in Nat
  BY FS_CardinalityType DEF TypeOK
<1> QED
  BY <1>1 DEF TypeOK, FreshPosition

(* The initial state has the types of TypeOK.                              *)
LEMMA TypeInit == Init => TypeOK
<1> SUFFICES ASSUME Init PROVE TypeOK
  OBVIOUS
<1>1. IsFiniteSet({})
  BY FS_EmptySet
<1>2. << >> \in Seq(AppendRecords)
  BY EmptySeq
<1> QED
  BY <1>1, <1>2 DEF Init, TypeOK, NoHeads, Phases, CallFitsPhase, InAppend

-----------------------------------------------------------------------------
(* Every step keeps the types: one lemma or case per action.               *)

(* The clients that do not step keep the call that fits their phase.       *)
LEMMA OthersFit ==
    ASSUME TypeOK, NEW c \in Clients, CallFitsPhase(c)',
           \A d \in Clients \ {c} : phase'[d] = phase[d] /\ call'[d] = call[d]
    PROVE  \A d \in Clients : CallFitsPhase(d)'
<1> SUFFICES ASSUME NEW d \in Clients, d # c PROVE CallFitsPhase(d)'
  OBVIOUS
<1>1. phase'[d] = phase[d] /\ call'[d] = call[d] /\ CallFitsPhase(d)
  BY DEF TypeOK
<1> QED
  BY <1>1 DEF CallFitsPhase

(* Ending a transaction leaves a typed, idle client.                       *)
LEMMA TypeEndTransaction ==
    ASSUME TypeOK, NEW c \in Clients, EndTransaction(c)
    PROVE  /\ phase' \in [Clients -> Phases]
           /\ snapshot' \in [Clients -> [Aggregates -> Nat]]
           /\ rows' \in [Clients -> SUBSET StoredEvents]
           /\ \A d \in Clients : IsFiniteSet(rows'[d])
           /\ newHeads' \in [Clients -> [Aggregates -> Nat]]
           /\ call' \in [Clients -> Calls \cup {NoCall}]
           /\ accepted' \in [Clients -> Seq(AppendRecords)]
           /\ \A d \in Clients : CallFitsPhase(d)'
<1>1. IsFiniteSet({})
  BY FS_EmptySet
<1>2. << >> \in Seq(AppendRecords)
  BY EmptySeq
<1>3. \A d \in Clients : CallFitsPhase(d)'
  <2>1. CallFitsPhase(c)'
    BY DEF TypeOK, EndTransaction, CallFitsPhase, InAppend
  <2>2. \A d \in Clients \ {c} : phase'[d] = phase[d] /\ call'[d] = call[d]
    BY DEF TypeOK, EndTransaction
  <2> QED
    BY <2>1, <2>2, OthersFit
<1>4. \A d \in Clients : IsFiniteSet(rows'[d])
  BY <1>1 DEF TypeOK, EndTransaction
<1> QED
  BY <1>2, <1>3, <1>4 DEF TypeOK, EndTransaction, NoHeads, Phases

(* An accepted Append has a typed call with nothing inserted yet.          *)
LEMMA TypeAppendStarts ==
    ASSUME TypeOK, NEW c \in Clients, NEW a \in Aggregates,
           NEW expected \in Expectations, NEW ids \in Batches,
           AppendStarts(c, a, expected, ids)
    PROVE  TypeOK'
<1>1. VisibleHead(c, a) \in Nat
  BY DEF TypeOK, VisibleHead
<1>2. snapshot' \in [Clients -> [Aggregates -> Nat]]
  BY DEF TypeOK, AppendStarts, TakeSnapshot
<1>3. Len(ids) \in 1..MaxBatch
  BY BatchFacts
<1>4. call'[c] \in Calls
  BY <1>1, BoundsAssumption DEF TypeOK, AppendStarts, Calls
<1>5. CallFitsPhase(c)'
  BY <1>3, <1>4, BoundsAssumption
     DEF TypeOK, AppendStarts, CallFitsPhase, InAppend
<1>6. \A d \in Clients \ {c} : phase'[d] = phase[d] /\ call'[d] = call[d]
  BY DEF TypeOK, AppendStarts
<1>7. \A d \in Clients : CallFitsPhase(d)'
  BY <1>5, <1>6, OthersFit
<1>8. /\ phase' \in [Clients -> Phases]
      /\ call' \in [Clients -> Calls \cup {NoCall}]
  BY <1>4 DEF TypeOK, AppendStarts, Phases, InAppend
<1> QED
  BY <1>2, <1>7, <1>8 DEF TypeOK, AppendStarts, database

(* What an inserted row changes in the call.                               *)
LEMMA CallAfterInsert ==
    ASSUME NEW k \in Calls, k.inserted + 1 \in 0..MaxBatch, NEW after,
           after = [k EXCEPT !.inserted = @ + 1, !.position = 0]
    PROVE  /\ after \in Calls
           /\ after.inserted = k.inserted + 1
           /\ after.ids = k.ids
           /\ after.aggregate = k.aggregate
           /\ after.from = k.from
  BY DEF Calls

(* An inserted row keeps the types.                                        *)
LEMMA TypeInsertRow ==
    ASSUME TypeOK, NEW c \in Clients, InsertRow(c)
    PROVE  TypeOK'
<1>1. /\ NewRow(c) \in StoredEvents
      /\ call[c].inserted < Len(call[c].ids)
      /\ Len(call[c].ids) \in 1..MaxBatch
      /\ call[c] \in Calls
  BY NewRowFacts DEF InsertRow
<1>2. rows' \in [Clients -> SUBSET StoredEvents]
  BY <1>1 DEF TypeOK, InsertRow
<1>3. \A d \in Clients : IsFiniteSet(rows'[d])
  BY FS_AddElement DEF TypeOK, InsertRow
<1>4. /\ call'[c] \in Calls
      /\ call'[c].inserted = call[c].inserted + 1
      /\ call'[c].ids = call[c].ids
  <2>1. call'[c] = [call[c] EXCEPT !.inserted = @ + 1, !.position = 0]
    BY DEF TypeOK, InsertRow
  <2>2. call[c].inserted + 1 \in 0..MaxBatch
    BY <1>1, BoundsAssumption DEF Calls
  <2> QED
    BY <1>1, <2>1, <2>2, CallAfterInsert
<1>5. /\ phase'[c] = "upserting" <=> call'[c].inserted = Len(call'[c].ids)
      /\ phase'[c] # "positioned"
      /\ call'[c].inserted <= Len(call'[c].ids)
  BY <1>1, <1>4, BoundsAssumption DEF TypeOK, InsertRow, Calls
<1>6. CallFitsPhase(c)'
  BY <1>4, <1>5 DEF CallFitsPhase
<1>7. \A d \in Clients \ {c} : phase'[d] = phase[d] /\ call'[d] = call[d]
  BY DEF TypeOK, InsertRow
<1>8. \A d \in Clients : CallFitsPhase(d)'
  BY <1>6, <1>7, OthersFit
<1>9. /\ phase' \in [Clients -> Phases]
      /\ call' \in [Clients -> Calls \cup {NoCall}]
  BY <1>4 DEF TypeOK, InsertRow, Phases, InAppend
<1> QED
  BY <1>2, <1>3, <1>8, <1>9 DEF TypeOK, InsertRow, database

(* The upsert of the head keeps the types.                                 *)
LEMMA TypeUpsertHead ==
    ASSUME TypeOK, NEW c \in Clients, UpsertHead(c)
    PROVE  TypeOK'
<1> DEFINE latest == call[c].from + Len(call[c].ids)
           record == [aggregate |-> call[c].aggregate,
                      expected |-> call[c].expected,
                      from |-> call[c].from, to |-> latest]
<1>1. /\ call[c] \in Calls
      /\ Len(call[c].ids) \in 1..MaxBatch
  BY BatchFacts DEF TypeOK, CallFitsPhase, InAppend, UpsertHead, LatestVersion, Calls
<1>2. latest \in Nat \ {0}
  BY <1>1, BoundsAssumption DEF Calls
<1>3. record \in AppendRecords
  BY <1>1, <1>2 DEF Calls, AppendRecords
<1>4. accepted' \in [Clients -> Seq(AppendRecords)]
  <2>1. Append(accepted[c], record) \in Seq(AppendRecords)
    BY <1>3 DEF TypeOK
  <2>2. accepted' = [accepted EXCEPT ![c] = Append(accepted[c], record)]
    BY DEF UpsertHead, LatestVersion
  <2> QED
    BY <2>1, <2>2 DEF TypeOK
<1>5. newHeads' \in [Clients -> [Aggregates -> Nat]]
  BY <1>1, <1>2 DEF TypeOK, UpsertHead, LatestVersion, Calls
<1>6. CallFitsPhase(c)'
  BY DEF TypeOK, UpsertHead, LatestVersion, CallFitsPhase, InAppend
<1>7. \A d \in Clients \ {c} : phase'[d] = phase[d] /\ call'[d] = call[d]
  BY DEF TypeOK, UpsertHead, LatestVersion
<1>8. \A d \in Clients : CallFitsPhase(d)'
  BY <1>6, <1>7, OthersFit
<1>9. /\ phase' \in [Clients -> Phases]
      /\ call' \in [Clients -> Calls \cup {NoCall}]
  BY DEF TypeOK, UpsertHead, LatestVersion, Phases
<1> QED
  BY <1>4, <1>5, <1>8, <1>9 DEF TypeOK, UpsertHead, LatestVersion, database

(* What is published keeps the types of the database.                      *)
LEMMA TypePublish ==
    ASSUME TypeOK, NEW c \in Clients, Publish(c)
    PROVE  /\ dialect' \in Dialects
           /\ events' \in SUBSET StoredEvents
           /\ heads' \in [Aggregates -> Nat]
           /\ nextPosition' \in Nat \ {0}
           /\ history' \in Seq(AppendRecords)
<1>1. nextPosition' \in Nat \ {0}
  BY FreshPositionFacts DEF TypeOK, Publish
<1>2. history' \in Seq(AppendRecords)
  <2>1. accepted[c] \in Seq(AppendRecords) /\ history \in Seq(AppendRecords)
    BY DEF TypeOK
  <2>2. history \o accepted[c] \in Seq(AppendRecords)
    BY <2>1, ConcatProperties
  <2> QED
    BY <2>2 DEF Publish
<1> QED
  BY <1>1, <1>2 DEF TypeOK, Publish

(* A commit keeps the types.                                               *)
LEMMA TypeCommit ==
    ASSUME TypeOK, NEW c \in Clients, Commit(c)
    PROVE  TypeOK'
<1>1. EndTransaction(c) /\ Publish(c)
  BY DEF Commit
<1> QED
  BY <1>1, TypePublish, TypeEndTransaction DEF TypeOK

(* A position that is handed out keeps the types.                          *)
LEMMA TypeTakePosition ==
    ASSUME TypeOK, NEW c \in Clients, TakePosition(c)
    PROVE  TypeOK'
<1>1. FreshPosition(c) \in Nat \ {0}
  BY FreshPositionFacts
<1>2. call[c] \in Calls
  BY DEF TypeOK, CallFitsPhase, InAppend, TakePosition
<1>3. call'[c] \in Calls
  BY <1>1, <1>2 DEF TypeOK, TakePosition, Calls
<1>4. CallFitsPhase(c)'
  BY <1>1, <1>2, <1>3 DEF TypeOK, TakePosition, CallFitsPhase, InAppend, Calls
<1>5. \A d \in Clients : CallFitsPhase(d)'
  BY <1>4, OthersFit DEF TypeOK, TakePosition
<1> QED
  BY <1>3, <1>5 DEF TypeOK, TakePosition, Phases, InAppend

(* Every step keeps the types.                                             *)
LEMMA TypeStep ==
    ASSUME TypeOK, [Next]_vars
    PROVE  TypeOK'
<1>1. CASE UNCHANGED vars
  BY <1>1 DEF vars, database, private, TypeOK, CallFitsPhase
<1>2. CASE Next
  <2> PICK c \in Clients :
        \/ Begin(c)
        \/ \E a \in Aggregates, expected \in Expectations, ids \in Batches :
                AppendStarts(c, a, expected, ids)
        \/ \E a \in Aggregates, expected \in Expectations :
                AppendRefused(c, a, expected)
        \/ AppendStep(c)
        \/ StatementFails(c)
        \/ Commit(c)
        \/ Rollback(c)
    BY <1>2 DEF Next
  <2>1. CASE Begin(c)
    <3>1. CallFitsPhase(c)'
      BY <2>1 DEF TypeOK, Begin, CallFitsPhase, InAppend
    <3>2. \A d \in Clients : CallFitsPhase(d)'
      BY <2>1, <3>1, OthersFit DEF TypeOK, Begin
    <3> QED
      BY <2>1, <3>2 DEF TypeOK, Begin, database, Phases
  <2>2. CASE \E a \in Aggregates, expected \in Expectations, ids \in Batches :
                AppendStarts(c, a, expected, ids)
    BY <2>2, TypeAppendStarts
  <2>3. ASSUME NEW a \in Aggregates, NEW expected \in Expectations,
               AppendRefused(c, a, expected)
        PROVE  TypeOK'
    <3>1. CallFitsPhase(c)'
      BY <2>3 DEF TypeOK, AppendRefused, CallFitsPhase, InAppend
    <3>2. \A d \in Clients : CallFitsPhase(d)'
      BY <2>3, <3>1, OthersFit DEF TypeOK, AppendRefused
    <3>3. snapshot' \in [Clients -> [Aggregates -> Nat]]
      BY <2>3 DEF TypeOK, AppendRefused, TakeSnapshot
    <3> QED
      BY <2>3, <3>2, <3>3 DEF TypeOK, AppendRefused, database, Phases
  <2>4. CASE AssignPosition(c)
    BY <2>4, TypeTakePosition DEF AssignPosition
  <2>5. CASE InsertRow(c)
    BY <2>5, TypeInsertRow
  <2>6. CASE InsertConflicts(c)
    <3>1. CallFitsPhase(c)'
      BY <2>6 DEF TypeOK, InsertConflicts, CallFitsPhase, InAppend
    <3>2. \A d \in Clients : CallFitsPhase(d)'
      BY <2>6, <3>1, OthersFit DEF TypeOK, InsertConflicts
    <3> QED
      BY <2>6, <3>2 DEF TypeOK, InsertConflicts, database, Phases, Failed
  <2>7. CASE UpsertHead(c)
    BY <2>7, TypeUpsertHead
  <2>8. CASE StatementFails(c)
    <3>1. CallFitsPhase(c)'
      BY <2>8 DEF TypeOK, StatementFails, CallFitsPhase, InAppend
    <3>2. \A d \in Clients : CallFitsPhase(d)'
      BY <2>8, <3>1, OthersFit DEF TypeOK, StatementFails
    <3> QED
      BY <2>8, <3>2 DEF TypeOK, StatementFails, database, Phases, Failed
  <2>9. CASE Commit(c)
    BY <2>9, TypeCommit
  <2>10. CASE Rollback(c)
    BY <2>10, TypeEndTransaction DEF TypeOK, Rollback, database
  <2> QED
    BY <2>1, <2>2, <2>3, <2>4, <2>5, <2>6, <2>7, <2>8, <2>9, <2>10
       DEF AppendStep
<1> QED
  BY <1>1, <1>2

(* Every reachable state is well typed, and every call in progress has     *)
(* inserted as much of its batch as its phase says.                        *)
THEOREM TypeCorrect == Spec => []TypeOK
<1>1. Init => TypeOK
  BY TypeInit
<1>2. TypeOK /\ [Next]_vars => TypeOK'
  BY TypeStep
<1> QED
  BY <1>1, <1>2, PTL DEF Spec

-----------------------------------------------------------------------------
(* The tables agree, one writer per aggregate.                             *)

(* A pending head is a natural number.                                     *)
LEMMA PendingHeadType ==
    ASSUME TypeOK, NEW c \in Clients, NEW a \in Aggregates
    PROVE  PendingHead(c, a) \in Nat
<1>1. call[c] \in Calls \cup {NoCall} /\ newHeads[c][a] \in Nat
  BY DEF TypeOK
<1>2. call[c].from \in Nat /\ call[c].inserted \in Nat
  BY <1>1, BoundsAssumption DEF Calls, NoCall
<1> QED
  BY <1>1, <1>2 DEF PendingHead

(* A client with a pending head holds the version right after the          *)
(* committed one.                                                          *)
LEMMA PendingHoldsNext ==
    ASSUME TypeOK, WriterInv, NEW c \in Clients, NEW a \in Aggregates,
           PendingHead(c, a) # 0
    PROVE  \E r \in rows[c] : r.aggregate = a /\ r.version = heads[a] + 1
<1>1. PendingHead(c, a) \in Nat /\ heads[a] \in Nat
  BY PendingHeadType DEF TypeOK
<1>2. /\ VersionsOf(rows[c], a) = (heads[a] + 1)..PendingHead(c, a)
      /\ PendingHead(c, a) > heads[a]
  BY DEF WriterInv, ClientInv, FollowsCommitted
<1>3. heads[a] + 1 \in VersionsOf(rows[c], a)
  BY <1>1, <1>2
<1> QED
  BY <1>3 DEF VersionsOf

(* A client with uncommitted events of an aggregate has a pending head.    *)
LEMMA RowsHavePending ==
    ASSUME TypeOK, WriterInv, NEW c \in Clients, NEW r \in rows[c]
    PROVE  /\ r.aggregate \in Aggregates
           /\ PendingHead(c, r.aggregate) # 0
<1>1. r.aggregate \in Aggregates /\ r.version \in Nat \ {0}
  BY DEF TypeOK, StoredEvents
<1>2. r.version \in VersionsOf(rows[c], r.aggregate)
  BY DEF VersionsOf
<1>3. r.version \in (heads[r.aggregate] + 1)..PendingHead(c, r.aggregate)
  BY <1>1, <1>2 DEF WriterInv, ClientInv, FollowsCommitted
<1>4. PendingHead(c, r.aggregate) \in Nat /\ heads[r.aggregate] \in Nat
  BY <1>1, PendingHeadType DEF TypeOK
<1> QED
  BY <1>1, <1>3, <1>4

(* An INSERT that succeeds adds the version after the client's own last    *)
(* one, or after the committed head, and nobody else writes the aggregate. *)
LEMMA InsertIsNext ==
    ASSUME TypeOK, WriterInv, NEW c \in Clients, InsertRow(c)
    PROVE  LET a == call[c].aggregate IN
           /\ a \in Aggregates
           /\ NewRow(c).version = 1 + (IF PendingHead(c, a) # 0
                                       THEN PendingHead(c, a) ELSE heads[a])
           /\ \A d \in Clients \ {c} : PendingHead(d, a) = 0
<1> DEFINE a == call[c].aggregate
           v == NewRow(c).version
<1>1. /\ call[c] \in Calls
      /\ NewRow(c).aggregate = a
      /\ v = call[c].from + call[c].inserted + 1
  BY NewRowFacts DEF InsertRow
<1>2. /\ a \in Aggregates
      /\ call[c].from \in Nat
      /\ call[c].inserted \in Nat
      /\ heads[a] \in Nat
      /\ newHeads[c][a] \in Nat
  BY <1>1, BoundsAssumption DEF Calls, TypeOK
<1>3. v = 1 + (IF PendingHead(c, a) # 0 THEN PendingHead(c, a) ELSE heads[a])
  <2>1. CASE call[c].inserted > 0
    BY <1>1, <1>2, <2>1 DEF PendingHead
  <2>2. CASE call[c].inserted = 0 /\ newHeads[c][a] # 0
    <3>1. call[c].from = newHeads[c][a]
      BY <2>2 DEF WriterInv, ClientInv, StartedFromHead, InsertRow
    <3> QED
      BY <1>1, <1>2, <2>2, <3>1 DEF PendingHead
  <2>3. CASE call[c].inserted = 0 /\ newHeads[c][a] = 0
    <3>1. call[c].from <= heads[a]
      BY <2>3 DEF WriterInv, ClientInv, StartedFromHead, InsertRow
    <3>2. ASSUME v <= heads[a] PROVE FALSE
      <4>1. v \in 1..heads[a]
        BY <1>1, <1>2, <3>2
      <4>2. v \in VersionsOf(events, a)
        BY <1>2, <4>1 DEF WriterInv, HeadsAgree
      <4>3. PICK r \in events : r.aggregate = a /\ r.version = v
        BY <4>2 DEF VersionsOf
      <4>4. SameKey(r, NewRow(c))
        BY <1>1, <4>3 DEF SameKey
      <4> QED
        BY <4>4 DEF Duplicate, InsertRow
    <3> QED
      BY <1>1, <1>2, <2>3, <3>1, <3>2 DEF PendingHead
  <2> QED
    BY <1>2, <2>1, <2>2, <2>3
<1>4. ASSUME NEW d \in Clients \ {c}, PendingHead(d, a) # 0
      PROVE  FALSE
  <2>1. PICK r \in rows[d] : r.aggregate = a /\ r.version = heads[a] + 1
    BY <1>2, <1>4, PendingHoldsNext
  <2>2. CASE PendingHead(c, a) # 0
    <3>1. PICK s \in rows[c] : s.aggregate = a
      BY <1>2, <2>2, PendingHoldsNext
    <3> QED
      BY <2>1, <3>1 DEF WriterInv, OneWriterPerAggregate
  <2>3. CASE PendingHead(c, a) = 0
    <3>1. v = heads[a] + 1
      BY <1>2, <1>3, <2>3
    <3>2. SameKey(r, NewRow(c))
      BY <1>1, <2>1, <3>1 DEF SameKey
    <3> QED
      BY <3>2 DEF InsertWaitsFor, InsertRow
  <2> QED
    BY <2>2, <2>3
<1> QED
  BY <1>2, <1>3, <1>4

(* A step of one client inside its transaction leaves the others alone.    *)
Alone(c) == \A d \in Clients \ {c} :
    /\ phase'[d] = phase[d]
    /\ snapshot'[d] = snapshot[d]
    /\ rows'[d] = rows[d]
    /\ newHeads'[d] = newHeads[d]
    /\ call'[d] = call[d]

(* A client keeps its invariant while another one steps.                   *)
LEMMA OthersKeepInv ==
    ASSUME WriterInv, NEW c \in Clients, Alone(c), heads' = heads, ClientInv(c)'
    PROVE  \A d \in Clients : ClientInv(d)'
<1> SUFFICES ASSUME NEW d \in Clients, d # c PROVE ClientInv(d)'
  OBVIOUS
<1>1. ClientInv(d)
  BY DEF WriterInv
<1>2. \A a \in Aggregates : PendingHead(d, a)' = PendingHead(d, a)
  BY DEF Alone, PendingHead
<1>3. FollowsCommitted(d)'
  BY <1>1, <1>2 DEF Alone, ClientInv, FollowsCommitted, VersionsOf
<1>4. StartedFromHead(d)'
  BY <1>1 DEF Alone, ClientInv, StartedFromHead
<1> QED
  BY <1>1, <1>3, <1>4 DEF Alone, ClientInv

(* ... and a step that inserts and commits nothing keeps the invariant     *)
(* when it keeps that of its own client.                                   *)
LEMMA QuietStep ==
    ASSUME WriterInv, NEW c \in Clients, Alone(c), ClientInv(c)',
           heads' = heads, events' = events, rows' = rows
    PROVE  WriterInv'
<1>1. HeadsAgree'
  BY DEF WriterInv, HeadsAgree, VersionsOf
<1>2. OneWriterPerAggregate'
  BY DEF WriterInv, OneWriterPerAggregate
<1>3. \A d \in Clients : ClientInv(d)'
  BY OthersKeepInv
<1> QED
  BY <1>1, <1>2, <1>3 DEF WriterInv

(* A client whose rows and pending heads stay keeps following the head.    *)
LEMMA SamePending ==
    ASSUME NEW c \in Clients, FollowsCommitted(c), heads' = heads, rows' = rows,
           \A a \in Aggregates : PendingHead(c, a)' = PendingHead(c, a)
    PROVE  FollowsCommitted(c)'
  BY DEF FollowsCommitted, VersionsOf

(* An accepted Append keeps the invariant: its head is not ahead.          *)
LEMMA InvAppendStarts ==
    ASSUME TypeOK, WriterInv, NEW c \in Clients, NEW a \in Aggregates,
           NEW expected \in Expectations, NEW ids \in Batches,
           AppendStarts(c, a, expected, ids)
    PROVE  WriterInv'
<1>1. Alone(c)
  BY DEF TypeOK, AppendStarts, TakeSnapshot, Alone
<1>2. /\ call[c] = NoCall
      /\ FollowsCommitted(c)
      /\ \A b \in Aggregates : snapshot[c][b] <= heads[b]
  BY DEF WriterInv, ClientInv, AppendStarts, InAppend, Failed
<1>3. /\ call'[c].aggregate = a
      /\ call'[c].inserted = 0
      /\ call'[c].from = VisibleHead(c, a)
      /\ newHeads' = newHeads /\ heads' = heads
      /\ rows' = rows /\ events' = events
  BY DEF TypeOK, AppendStarts, database
<1>4. \A b \in Aggregates : PendingHead(c, b)' = PendingHead(c, b)
  BY <1>2, <1>3 DEF PendingHead, NoCall
<1>5. FollowsCommitted(c)'
  BY <1>2, <1>3, <1>4, SamePending
<1>6. \A b \in Aggregates : snapshot'[c][b] <= heads'[b]
  BY <1>2, <1>3 DEF TypeOK, AppendStarts, TakeSnapshot
<1>7. StartedFromHead(c)'
  BY <1>2, <1>3 DEF TypeOK, StartedFromHead, VisibleHead
<1>8. phase'[c] \in InAppend
  BY DEF TypeOK, AppendStarts, InAppend
<1> QED
  BY <1>1, <1>3, <1>5, <1>6, <1>7, <1>8, QuietStep DEF ClientInv

(* A refused Append keeps the invariant.                                   *)
LEMMA InvAppendRefused ==
    ASSUME TypeOK, WriterInv, NEW c \in Clients, NEW a \in Aggregates,
           NEW expected \in Expectations, AppendRefused(c, a, expected)
    PROVE  WriterInv'
<1>1. Alone(c)
  BY DEF TypeOK, AppendRefused, TakeSnapshot, Alone
<1>2. ClientInv(c) /\ call[c] = NoCall
  BY DEF WriterInv, ClientInv, AppendRefused, InAppend, Failed
<1>3. /\ call' = call /\ newHeads' = newHeads /\ heads' = heads
      /\ rows' = rows /\ events' = events
  BY DEF AppendRefused, database
<1>4. FollowsCommitted(c)'
  BY <1>2, <1>3, SamePending DEF ClientInv, PendingHead
<1>5. \A b \in Aggregates : snapshot'[c][b] <= heads'[b]
  BY <1>2, <1>3 DEF TypeOK, ClientInv, AppendRefused, TakeSnapshot
<1>6. StartedFromHead(c)'
  BY DEF TypeOK, AppendRefused, StartedFromHead
<1> QED
  BY <1>1, <1>2, <1>3, <1>4, <1>5, <1>6, QuietStep DEF ClientInv

(* The steps that only move a client on, or give its call a position.      *)
LEMMA InvPhaseOnly ==
    ASSUME TypeOK, WriterInv, NEW c \in Clients,
           \/ Begin(c)
           \/ AssignPosition(c)
           \/ InsertConflicts(c)
           \/ StatementFails(c)
    PROVE  WriterInv'
<1>1. Alone(c)
  BY DEF TypeOK, Begin, AssignPosition, TakePosition, InsertConflicts, StatementFails, Alone
<1>2. /\ newHeads' = newHeads /\ heads' = heads /\ snapshot' = snapshot
      /\ rows' = rows /\ events' = events
  BY DEF Begin, AssignPosition, TakePosition, InsertConflicts, StatementFails, database
<1>3. /\ call'[c].aggregate = call[c].aggregate
      /\ call'[c].inserted = call[c].inserted
      /\ call'[c].from = call[c].from
  BY DEF TypeOK, Begin, AssignPosition, TakePosition, InsertConflicts, StatementFails,
         Calls, NoCall
<1>4. ClientInv(c)
  BY DEF WriterInv
<1>5. FollowsCommitted(c)'
  BY <1>2, <1>3, <1>4, SamePending DEF ClientInv, PendingHead
<1>6. StartedFromHead(c)'
  BY <1>2, <1>3, <1>4
     DEF TypeOK, ClientInv, StartedFromHead, Begin, AssignPosition, TakePosition,
         InsertConflicts, StatementFails
<1>7. phase'[c] \notin InAppend \cup Failed => call'[c] = NoCall
  BY <1>4
     DEF TypeOK, ClientInv, Begin, AssignPosition, TakePosition, InsertConflicts,
         StatementFails, InAppend, Failed
<1> QED
  BY <1>1, <1>2, <1>4, <1>5, <1>6, <1>7, QuietStep DEF ClientInv

(* The upsert makes the pending head of the call the new head.             *)
LEMMA InvUpsertHead ==
    ASSUME TypeOK, WriterInv, NEW c \in Clients, UpsertHead(c)
    PROVE  WriterInv'
<1>1. Alone(c)
  BY DEF TypeOK, UpsertHead, LatestVersion, Alone
<1>2. /\ call[c] \in Calls
      /\ call[c].inserted = Len(call[c].ids)
      /\ Len(call[c].ids) \in 1..MaxBatch
  BY BatchFacts DEF TypeOK, CallFitsPhase, InAppend, UpsertHead, LatestVersion, Calls
<1>3. /\ heads' = heads /\ snapshot' = snapshot
      /\ rows' = rows /\ events' = events
      /\ call'[c] = NoCall
      /\ phase'[c] = "open"
  BY DEF TypeOK, UpsertHead, LatestVersion, database
<1>4. newHeads'[c] = [newHeads[c] EXCEPT ![call[c].aggregate] =
                          call[c].from + call[c].inserted]
  BY <1>2 DEF TypeOK, UpsertHead, LatestVersion
<1>5. ClientInv(c)
  BY DEF WriterInv
<1>6. \A a \in Aggregates : PendingHead(c, a)' = PendingHead(c, a)
  BY <1>2, <1>3, <1>4, NoAggregateAssumption, BoundsAssumption
     DEF TypeOK, PendingHead, NoCall, Calls
<1>7. FollowsCommitted(c)'
  BY <1>3, <1>5, <1>6, SamePending DEF ClientInv
<1>8. StartedFromHead(c)'
  BY <1>3 DEF StartedFromHead
<1> QED
  BY <1>1, <1>3, <1>5, <1>7, <1>8, QuietStep DEF ClientInv

(* An inserted row extends its client's versions by the next one.          *)
LEMMA InvInsertRow ==
    ASSUME TypeOK, WriterInv, NEW c \in Clients, InsertRow(c)
    PROVE  WriterInv'
<1> DEFINE a == call[c].aggregate
           v == NewRow(c).version
<1>1. /\ call[c] \in Calls
      /\ NewRow(c).aggregate = a
      /\ v = call[c].from + call[c].inserted + 1
      /\ call[c].inserted \in Nat
      /\ call[c].inserted + 1 \in 0..MaxBatch
  <2>1. /\ call[c] \in Calls
        /\ NewRow(c).aggregate = a
        /\ v = call[c].from + call[c].inserted + 1
        /\ call[c].inserted < Len(call[c].ids)
        /\ Len(call[c].ids) \in 1..MaxBatch
    BY NewRowFacts DEF InsertRow
  <2> QED
    BY <2>1, BoundsAssumption DEF Calls
<1>2. /\ a \in Aggregates
      /\ v = 1 + (IF PendingHead(c, a) # 0 THEN PendingHead(c, a) ELSE heads[a])
      /\ \A d \in Clients \ {c} : PendingHead(d, a) = 0
  BY InsertIsNext
<1>3. /\ heads' = heads /\ events' = events
      /\ newHeads' = newHeads /\ snapshot' = snapshot
      /\ rows'[c] = rows[c] \cup {NewRow(c)}
      /\ call'[c] = [call[c] EXCEPT !.inserted = @ + 1, !.position = 0]
      /\ phase'[c] \in InAppend
  BY DEF TypeOK, InsertRow, database, InAppend
<1>4. Alone(c)
  BY DEF TypeOK, InsertRow, Alone
<1>5. /\ call'[c].inserted = call[c].inserted + 1
      /\ call'[c].aggregate = a
      /\ call'[c].from = call[c].from
  BY <1>1, <1>3, CallAfterInsert
<1>6. FollowsCommitted(c)'
  <2> SUFFICES ASSUME NEW b \in Aggregates
               PROVE  /\ VersionsOf(rows[c], b)' = (heads'[b] + 1)..PendingHead(c, b)'
                      /\ PendingHead(c, b)' # 0 => PendingHead(c, b)' > heads'[b]
    BY DEF FollowsCommitted, VersionsOf
  <2>1. /\ VersionsOf(rows[c], b) = (heads[b] + 1)..PendingHead(c, b)
        /\ PendingHead(c, b) # 0 => PendingHead(c, b) > heads[b]
    BY DEF WriterInv, ClientInv, FollowsCommitted
  <2>2. PendingHead(c, b) \in Nat /\ heads[b] \in Nat
    BY PendingHeadType DEF TypeOK
  <2>3. CASE b = a
    <3>1. VersionsOf(rows[c], b)' = VersionsOf(rows[c], b) \cup {v}
      BY <1>1, <1>3, <2>3 DEF VersionsOf
    <3>2. VersionsOf(rows[c], b) \cup {v} = (heads[b] + 1)..v
      <4>1. CASE PendingHead(c, b) # 0
        BY <1>2, <2>1, <2>2, <2>3, <4>1
      <4>2. CASE PendingHead(c, b) = 0
        BY <1>2, <2>1, <2>2, <2>3, <4>2
      <4> QED
        BY <4>1, <4>2
    <3>3. v > heads[b]
      BY <1>2, <2>1, <2>2, <2>3
    <3>4. PendingHead(c, b)' = v
      BY <1>1, <1>5, <2>3 DEF PendingHead, Calls
    <3> QED
      BY <1>3, <3>1, <3>2, <3>3, <3>4
  <2>4. CASE b # a
    <3>1. VersionsOf(rows[c], b)' = VersionsOf(rows[c], b)
      BY <1>1, <1>3, <2>4 DEF VersionsOf
    <3>2. PendingHead(c, b)' = PendingHead(c, b)
      BY <1>3, <1>5, <2>4 DEF PendingHead
    <3> QED
      BY <1>3, <2>1, <3>1, <3>2
  <2> QED
    BY <2>3, <2>4
<1>7. StartedFromHead(c)'
  BY <1>1, <1>5 DEF StartedFromHead
<1>8. ClientInv(c)'
  BY <1>3, <1>6, <1>7 DEF WriterInv, ClientInv
<1>9. \A d \in Clients : ClientInv(d)'
  BY <1>3, <1>4, <1>8, OthersKeepInv
<1>10. HeadsAgree'
  BY <1>3 DEF WriterInv, HeadsAgree, VersionsOf
<1>11. ASSUME NEW d \in Clients \ {c}, NEW s \in rows[d] PROVE s.aggregate # a
  BY <1>2, <1>11, RowsHavePending
<1>12. OneWriterPerAggregate'
  <2> SUFFICES ASSUME NEW x \in Clients, NEW y \in Clients, x # y,
                      NEW r \in rows'[x], NEW s \in rows'[y]
               PROVE  r.aggregate # s.aggregate
    BY DEF OneWriterPerAggregate
  <2>1. CASE x # c /\ y # c
    BY <1>4, <2>1 DEF Alone, WriterInv, OneWriterPerAggregate
  <2>2. CASE x = c
    <3>1. s \in rows[y] /\ y \in Clients \ {c}
      BY <1>4, <2>2 DEF Alone
    <3>2. CASE r \in rows[c]
      BY <2>2, <3>1, <3>2 DEF WriterInv, OneWriterPerAggregate
    <3>3. CASE r = NewRow(c)
      BY <1>1, <1>11, <3>1, <3>3
    <3> QED
      BY <1>3, <2>2, <3>2, <3>3
  <2>3. CASE y = c
    <3>1. r \in rows[x] /\ x \in Clients \ {c}
      BY <1>4, <2>3 DEF Alone
    <3>2. CASE s \in rows[c]
      BY <2>3, <3>1, <3>2 DEF WriterInv, OneWriterPerAggregate
    <3>3. CASE s = NewRow(c)
      BY <1>1, <1>11, <3>1, <3>3
    <3> QED
      BY <1>3, <2>3, <3>2, <3>3
  <2> QED
    BY <2>1, <2>2, <2>3
<1> QED
  BY <1>9, <1>10, <1>12 DEF WriterInv

(* A client whose transaction ended has nothing pending.                   *)
LEMMA EndedClient ==
    ASSUME TypeOK, TypeOK', NEW c \in Clients, EndTransaction(c)
    PROVE  ClientInv(c)' /\ Alone(c)
<1>1. /\ rows'[c] = {} /\ newHeads'[c] = NoHeads
      /\ call'[c] = NoCall /\ snapshot'[c] = NoHeads
      /\ phase'[c] = "idle"
  BY DEF TypeOK, EndTransaction
<1>2. \A a \in Aggregates : heads'[a] \in Nat
  BY DEF TypeOK
<1>3. \A a \in Aggregates : PendingHead(c, a)' = 0
  BY <1>1 DEF PendingHead, NoCall, NoHeads
<1>4. \A a \in Aggregates : VersionsOf(rows[c], a)' = {}
  BY <1>1 DEF VersionsOf
<1>5. FollowsCommitted(c)'
  <2>1. \A a \in Aggregates : (heads'[a] + 1)..0 = {}
    BY <1>2
  <2> QED
    BY <1>3, <1>4, <2>1 DEF FollowsCommitted
<1>6. StartedFromHead(c)'
  BY <1>1 DEF StartedFromHead
<1>7. \A a \in Aggregates : snapshot'[c][a] <= heads'[a]
  BY <1>1, <1>2 DEF NoHeads
<1>8. Alone(c)
  BY DEF TypeOK, EndTransaction, Alone
<1> QED
  BY <1>1, <1>5, <1>6, <1>7, <1>8 DEF ClientInv

(* A rollback keeps the invariant.                                         *)
LEMMA InvRollback ==
    ASSUME TypeOK, TypeOK', WriterInv, NEW c \in Clients, Rollback(c)
    PROVE  WriterInv'
<1>1. /\ heads' = heads /\ events' = events
      /\ EndTransaction(c)
  BY DEF Rollback, database
<1>2. ClientInv(c)' /\ Alone(c)
  BY <1>1, EndedClient
<1>3. HeadsAgree'
  BY <1>1 DEF WriterInv, HeadsAgree, VersionsOf
<1>4. \A d \in Clients : rows'[d] \subseteq rows[d]
  BY <1>1 DEF TypeOK, EndTransaction
<1>5. OneWriterPerAggregate'
  BY <1>4 DEF WriterInv, OneWriterPerAggregate
<1>6. \A d \in Clients : ClientInv(d)'
  BY <1>1, <1>2, OthersKeepInv
<1> QED
  BY <1>3, <1>5, <1>6 DEF WriterInv

(* A commit moves the heads of the aggregates the transaction wrote up to  *)
(* its own last versions, and those aggregates have no other writer.       *)
LEMMA CommitFacts ==
    ASSUME TypeOK, WriterInv, NEW c \in Clients, Commit(c), NEW a \in Aggregates
    PROVE  /\ VersionsOf(rows[c], a) = (heads[a] + 1)..newHeads[c][a]
           /\ newHeads[c][a] = 0 => heads'[a] = heads[a]
           /\ newHeads[c][a] # 0 =>
                /\ heads'[a] = newHeads[c][a]
                /\ heads'[a] > heads[a]
                /\ \A d \in Clients \ {c} : PendingHead(d, a) = 0
<1>1. call[c] = NoCall
  BY DEF WriterInv, ClientInv, Commit, Publish, InAppend, Failed
<1>2. PendingHead(c, a) = newHeads[c][a]
  BY <1>1 DEF PendingHead, NoCall
<1>3. /\ VersionsOf(rows[c], a) = (heads[a] + 1)..newHeads[c][a]
      /\ newHeads[c][a] # 0 => newHeads[c][a] > heads[a]
  BY <1>2 DEF WriterInv, ClientInv, FollowsCommitted
<1>4. heads'[a] = IF newHeads[c][a] # 0 THEN newHeads[c][a] ELSE heads[a]
  BY DEF Commit, Publish
<1>5. ASSUME newHeads[c][a] # 0, NEW d \in Clients \ {c}, PendingHead(d, a) # 0
      PROVE  FALSE
  <2>1. PICK r \in rows[c] : r.aggregate = a
    BY <1>2, <1>5, PendingHoldsNext
  <2>2. PICK s \in rows[d] : s.aggregate = a
    BY <1>5, PendingHoldsNext
  <2> QED
    BY <2>1, <2>2 DEF WriterInv, OneWriterPerAggregate
<1> QED
  BY <1>3, <1>4, <1>5

(* A commit keeps the invariant: heads move with the events.               *)
LEMMA InvCommit ==
    ASSUME TypeOK, TypeOK', WriterInv, NEW c \in Clients, Commit(c)
    PROVE  WriterInv'
<1>1. EndTransaction(c) /\ events' = events \cup rows[c]
  BY DEF Commit, Publish
<1>2. ClientInv(c)' /\ Alone(c)
  BY <1>1, EndedClient
<1>3. HeadsAgree'
  <2> SUFFICES ASSUME NEW a \in Aggregates
               PROVE  VersionsOf(events', a) = 1..heads'[a]
    BY DEF HeadsAgree, VersionsOf
  <2>1. VersionsOf(events', a) = VersionsOf(events, a) \cup VersionsOf(rows[c], a)
    BY <1>1 DEF VersionsOf
  <2>2. VersionsOf(events, a) = 1..heads[a]
    BY DEF WriterInv, HeadsAgree
  <2>3. heads[a] \in Nat /\ newHeads[c][a] \in Nat
    BY DEF TypeOK
  <2>4. VersionsOf(rows[c], a) = (heads[a] + 1)..newHeads[c][a]
    BY CommitFacts
  <2>5. CASE newHeads[c][a] = 0
    <3>1. heads'[a] = heads[a]
      BY <2>5, CommitFacts
    <3>2. (heads[a] + 1)..newHeads[c][a] = {}
      BY <2>3, <2>5
    <3> QED
      BY <2>1, <2>2, <2>4, <3>1, <3>2
  <2>6. CASE newHeads[c][a] # 0
    <3>1. heads'[a] = newHeads[c][a] /\ heads'[a] > heads[a]
      BY <2>6, CommitFacts
    <3>2. (1..heads[a]) \cup ((heads[a] + 1)..newHeads[c][a]) = 1..newHeads[c][a]
      BY <2>3, <3>1
    <3> QED
      BY <2>1, <2>2, <2>4, <3>1, <3>2
  <2> QED
    BY <2>5, <2>6
<1>4. \A d \in Clients : rows'[d] \subseteq rows[d]
  BY <1>1 DEF TypeOK, EndTransaction
<1>5. OneWriterPerAggregate'
  BY <1>4 DEF WriterInv, OneWriterPerAggregate
<1>6. ASSUME NEW d \in Clients, d # c PROVE ClientInv(d)'
  <2>1. ClientInv(d)
    BY DEF WriterInv
  <2>2. \A a \in Aggregates : /\ PendingHead(d, a)' = PendingHead(d, a)
                              /\ VersionsOf(rows[d], a)' = VersionsOf(rows[d], a)
    BY <1>2, <1>6 DEF Alone, PendingHead, VersionsOf
  <2>3. ASSUME NEW a \in Aggregates PROVE heads'[a] >= heads[a]
    <3>1. heads[a] \in Nat /\ heads'[a] \in Nat
      BY DEF TypeOK
    <3> QED
      BY <3>1, CommitFacts
  <2>4. FollowsCommitted(d)'
    <3> SUFFICES ASSUME NEW a \in Aggregates
                 PROVE  /\ VersionsOf(rows[d], a)' = (heads'[a] + 1)..PendingHead(d, a)'
                        /\ PendingHead(d, a)' # 0 => PendingHead(d, a)' > heads'[a]
      BY DEF FollowsCommitted, VersionsOf
    <3>1. /\ VersionsOf(rows[d], a) = (heads[a] + 1)..PendingHead(d, a)
          /\ PendingHead(d, a) # 0 => PendingHead(d, a) > heads[a]
      BY <2>1 DEF ClientInv, FollowsCommitted
    <3>2. heads[a] \in Nat /\ heads'[a] \in Nat
      BY DEF TypeOK
    <3>3. CASE newHeads[c][a] = 0
      BY <2>2, <3>1, <3>3, CommitFacts
    <3>4. CASE newHeads[c][a] # 0
      <4>1. PendingHead(d, a) = 0
        BY <1>6, <3>4, CommitFacts
      <4>2. (heads[a] + 1)..0 = {} /\ (heads'[a] + 1)..0 = {}
        BY <3>2
      <4> QED
        BY <2>2, <3>1, <4>1, <4>2
    <3> QED
      BY <3>3, <3>4
  <2>5. StartedFromHead(d)'
    <3> SUFFICES ASSUME phase[d] \in {"inserting", "positioned"},
                        call[d].inserted = 0
                 PROVE  IF newHeads[d][call[d].aggregate] # 0
                        THEN call[d].from = newHeads[d][call[d].aggregate]
                        ELSE call[d].from <= heads'[call[d].aggregate]
      BY <1>2, <1>6 DEF Alone, StartedFromHead
    <3>1. call[d] \in Calls
      BY DEF TypeOK, CallFitsPhase, InAppend
    <3>2. /\ call[d].aggregate \in Aggregates /\ call[d].from \in Nat
          /\ heads[call[d].aggregate] \in Nat /\ heads'[call[d].aggregate] \in Nat
      BY <3>1 DEF Calls, TypeOK
    <3> QED
      BY <2>1, <2>3, <3>2 DEF ClientInv, StartedFromHead
  <2>6. \A a \in Aggregates : snapshot'[d][a] <= heads'[a]
    <3> SUFFICES ASSUME NEW a \in Aggregates PROVE snapshot'[d][a] <= heads'[a]
      OBVIOUS
    <3>1. snapshot[d][a] \in Nat /\ heads[a] \in Nat /\ heads'[a] \in Nat
      BY DEF TypeOK
    <3>2. snapshot[d][a] <= heads[a] /\ snapshot'[d] = snapshot[d]
      BY <1>2, <1>6, <2>1 DEF Alone, ClientInv
    <3> QED
      BY <2>3, <3>1, <3>2
  <2>7. phase'[d] \notin InAppend \cup Failed => call'[d] = NoCall
    BY <1>2, <1>6, <2>1 DEF Alone, ClientInv
  <2> QED
    BY <2>4, <2>5, <2>6, <2>7 DEF ClientInv
<1> QED
  BY <1>2, <1>3, <1>5, <1>6 DEF WriterInv

(* The invariant holds initially.                                          *)
LEMMA InvInit == Init => WriterInv
<1> SUFFICES ASSUME Init PROVE WriterInv
  OBVIOUS
<1>1. HeadsAgree
  <2>1. \A a \in Aggregates : VersionsOf(events, a) = {}
    BY DEF Init, VersionsOf
  <2> QED
    BY <2>1 DEF Init, NoHeads, HeadsAgree
<1>2. OneWriterPerAggregate
  BY DEF Init, OneWriterPerAggregate
<1>3. ASSUME NEW c \in Clients PROVE ClientInv(c)
  <2>1. \A a \in Aggregates : VersionsOf(rows[c], a) = {} /\ PendingHead(c, a) = 0
    BY DEF Init, VersionsOf, PendingHead, NoCall, NoHeads
  <2>2. \A a \in Aggregates : heads[a] = 0 /\ snapshot[c][a] = 0
    BY DEF Init, NoHeads
  <2>3. FollowsCommitted(c)
    <3>1. (0 + 1)..0 = {}
      OBVIOUS
    <3> QED
      BY <2>1, <2>2, <3>1 DEF FollowsCommitted
  <2> QED
    BY <2>2, <2>3 DEF Init, ClientInv, StartedFromHead
<1> QED
  BY <1>1, <1>2, <1>3 DEF WriterInv

(* Every step keeps the invariant.                                         *)
LEMMA InvStep ==
    ASSUME TypeOK, WriterInv, [Next]_vars
    PROVE  WriterInv'
<1>1. TypeOK'
  BY TypeStep
<1>2. CASE UNCHANGED vars
  BY <1>2 DEF vars, database, private, WriterInv, HeadsAgree, VersionsOf,
              OneWriterPerAggregate, ClientInv, FollowsCommitted,
              StartedFromHead, PendingHead
<1>3. CASE Next
  <2> PICK c \in Clients :
        \/ Begin(c)
        \/ \E a \in Aggregates, expected \in Expectations, ids \in Batches :
                AppendStarts(c, a, expected, ids)
        \/ \E a \in Aggregates, expected \in Expectations :
                AppendRefused(c, a, expected)
        \/ AppendStep(c)
        \/ StatementFails(c)
        \/ Commit(c)
        \/ Rollback(c)
    BY <1>3 DEF Next
  <2>1. CASE Begin(c) \/ StatementFails(c) \/ AssignPosition(c) \/ InsertConflicts(c)
    BY <2>1, InvPhaseOnly
  <2>2. CASE \E a \in Aggregates, expected \in Expectations, ids \in Batches :
                AppendStarts(c, a, expected, ids)
    BY <2>2, InvAppendStarts
  <2>3. CASE \E a \in Aggregates, expected \in Expectations :
                AppendRefused(c, a, expected)
    BY <2>3, InvAppendRefused
  <2>4. CASE InsertRow(c)
    BY <2>4, InvInsertRow
  <2>5. CASE UpsertHead(c)
    BY <2>5, InvUpsertHead
  <2>6. CASE Commit(c)
    BY <1>1, <2>6, InvCommit
  <2>7. CASE Rollback(c)
    BY <1>1, <2>7, InvRollback
  <2> QED
    BY <2>1, <2>2, <2>3, <2>4, <2>5, <2>6, <2>7 DEF AppendStep
<1> QED
  BY <1>2, <1>3

(* Types and the invariant hold in every reachable state: the unique key   *)
(* on the version, and the waits for uncommitted rows, keep the heads and  *)
(* the events of every transaction together.                               *)
THEOREM Invariance == Spec => [](TypeOK /\ WriterInv)
<1>1. Init => TypeOK /\ WriterInv
  BY TypeInit, InvInit
<1>2. TypeOK /\ WriterInv /\ [Next]_vars => (TypeOK /\ WriterInv)'
  BY TypeStep, InvStep
<1> QED
  BY <1>1, <1>2, PTL DEF Spec

(* The events of every aggregate have the versions 1 up to its head.       *)
THEOREM HeadsAlwaysAgree == Spec => []HeadsAgree
<1>1. TypeOK /\ WriterInv => HeadsAgree
  BY DEF WriterInv
<1> QED
  BY <1>1, Invariance, PTL

(* No two transactions hold uncommitted events of the same aggregate.      *)
THEOREM OneWriter == Spec => []OneWriterPerAggregate
<1>1. TypeOK /\ WriterInv => OneWriterPerAggregate
  BY DEF WriterInv
<1> QED
  BY <1>1, Invariance, PTL

(* An upsert of a head never finds the row held by another transaction.    *)
THEOREM UpsertIsFree == Spec => []UpsertNeverWaits
<1>1. ASSUME TypeOK, WriterInv, NEW c \in Clients, phase[c] = "upserting"
      PROVE  UpsertWaitsFor(c) = {}
  <2> DEFINE a == call[c].aggregate
  <2>1. /\ call[c] \in Calls
        /\ call[c].inserted = Len(call[c].ids)
        /\ Len(call[c].ids) \in 1..MaxBatch
    BY <1>1, BatchFacts DEF TypeOK, CallFitsPhase, InAppend, Calls
  <2>2. a \in Aggregates /\ PendingHead(c, a) # 0
    BY <2>1, BoundsAssumption DEF PendingHead, Calls
  <2>3. PICK r \in rows[c] : r.aggregate = a
    BY <1>1, <2>2, PendingHoldsNext
  <2>4. ASSUME NEW d \in Clients \ {c}, newHeads[d][a] # 0 PROVE FALSE
    <3>1. newHeads[d][a] \in Nat /\ call[d] \in Calls \cup {NoCall}
      BY <1>1, <2>2 DEF TypeOK
    <3>2. PendingHead(d, a) # 0
      BY <2>4, <3>1, BoundsAssumption DEF PendingHead, Calls, NoCall
    <3>3. PICK s \in rows[d] : s.aggregate = a
      BY <1>1, <2>2, <3>2, PendingHoldsNext
    <3> QED
      BY <1>1, <2>3, <3>3 DEF WriterInv, OneWriterPerAggregate
  <2> QED
    BY <2>4 DEF UpsertWaitsFor
<1>2. TypeOK /\ WriterInv => UpsertNeverWaits
  BY <1>1 DEF UpsertNeverWaits
<1> QED
  BY <1>2, Invariance, PTL

(* No commit lowers a head.                                                *)
THEOREM HeadsOnlyGrow == Spec => HeadsNeverMoveBack
<1>1. ASSUME TypeOK, WriterInv, [Next]_vars, NEW a \in Aggregates
      PROVE  heads'[a] >= heads[a]
  <2>1. heads[a] \in Nat
    BY <1>1 DEF TypeOK
  <2>2. CASE heads' = heads
    BY <2>1, <2>2
  <2>3. CASE \E c \in Clients : Commit(c)
    <3>1. PICK c \in Clients : Commit(c)
      BY <2>3
    <3>2. newHeads[c][a] \in Nat
      BY <1>1, <3>1 DEF TypeOK
    <3> QED
      BY <1>1, <2>1, <3>1, <3>2, CommitFacts
  <2>4. heads' = heads \/ \E c \in Clients : Commit(c)
    BY <1>1 DEF Next, AppendStep, Begin, AppendStarts, AppendRefused,
                AssignPosition, TakePosition, InsertRow, InsertConflicts, UpsertHead, LatestVersion,
                StatementFails, Rollback, vars, database
  <2> QED
    BY <2>2, <2>3, <2>4
<1>2. TypeOK /\ WriterInv /\ [Next]_vars
        => [\A a \in Aggregates : heads'[a] >= heads[a]]_vars
  BY <1>1
<1> QED
  BY <1>2, Invariance, PTL DEF Spec, HeadsNeverMoveBack

=============================================================================
