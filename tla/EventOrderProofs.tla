--------------------------- MODULE EventOrderProofs ---------------------------
(***************************************************************************)
(* Theorems about the events table of EventStore as its readers see it: no *)
(* event is there twice, and the global positions of an aggregate's events *)
(* follow their versions, for the three dialects.                          *)
(***************************************************************************)
EXTENDS EventStoreProofs

(* Types of the rows and positions that the invariant compares.            *)
LEMMA RowFacts ==
    ASSUME TypeOK
    PROVE  /\ AllRows \subseteq StoredEvents
           /\ \A r \in AllRows : r.position \in Nat /\ r.version \in Nat
           /\ nextPosition \in Nat
           /\ \A c \in Clients : FreshPosition(c) \in Nat
           /\ \A c \in Clients : SingleWriter => nextPosition <= FreshPosition(c)
           /\ \A c \in Clients : ~SingleWriter => FreshPosition(c) = nextPosition
           /\ \A c \in Positioned : call[c].position \in Nat /\ NewRow(c).version \in Nat
<1>1. AllRows \subseteq StoredEvents
  BY DEF TypeOK, AllRows
<1>2. \A r \in AllRows : r.position \in Nat /\ r.version \in Nat
  BY <1>1 DEF StoredEvents
<1>3. nextPosition \in Nat
  BY DEF TypeOK
<1>4. ASSUME NEW c \in Clients
      PROVE  /\ FreshPosition(c) \in Nat
             /\ SingleWriter => nextPosition <= FreshPosition(c)
             /\ ~SingleWriter => FreshPosition(c) = nextPosition
  <2>1. Cardinality(rows[c]) \in Nat
    BY FS_CardinalityType DEF TypeOK
  <2> QED
    BY <1>3, <2>1 DEF FreshPosition
<1>5. ASSUME NEW c \in Positioned
      PROVE  call[c].position \in Nat /\ NewRow(c).version \in Nat
  <2>1. call[c] \in Calls /\ NewRow(c) \in StoredEvents
    BY NewRowFacts DEF Positioned
  <2> QED
    BY <2>1 DEF Calls, StoredEvents
<1> QED
  BY <1>1, <1>2, <1>3, <1>4, <1>5

(* Every position in use lies below the next one a client would take, if   *)
(* that client may take one.                                               *)
LEMMA FreshIsAbove ==
    ASSUME TypeOK, PositionsAreTaken, NEW c \in Clients, WriteLockWaitsFor(c) = {}
    PROVE  \A r \in AllRows : r.position < FreshPosition(c)
<1> SUFFICES ASSUME NEW r \in AllRows PROVE r.position < FreshPosition(c)
  OBVIOUS
<1>1. /\ r.position \in Nat /\ nextPosition \in Nat /\ FreshPosition(c) \in Nat
      /\ SingleWriter => nextPosition <= FreshPosition(c)
      /\ ~SingleWriter => FreshPosition(c) = nextPosition
  BY RowFacts
<1>2. CASE r \in events
  BY <1>1, <1>2 DEF PositionsAreTaken
<1>3. ASSUME NEW d \in Clients, r \in rows[d] PROVE r.position < FreshPosition(c)
  <2>1. r.position < FreshPosition(d)
    BY <1>3 DEF PositionsAreTaken
  <2>2. CASE SingleWriter
    <3>1. d = c
      BY <1>3, <2>2 DEF WriteLockWaitsFor, HoldsWriteLock
    <3> QED
      BY <2>1, <3>1
  <2>3. CASE ~SingleWriter
    BY <1>1, <2>1, <2>3, RowFacts
  <2> QED
    BY <2>2, <2>3
<1> QED
  BY <1>2, <1>3 DEF AllRows

-----------------------------------------------------------------------------
(* Every step keeps the invariant: one lemma per action that disturbs it.  *)

(* A step that adds no row, takes no position and locks nothing keeps it.  *)
LEMMA OrderQuietStep ==
    ASSUME OrderInv,
           events' = events, rows' = rows,
           nextPosition' = nextPosition, dialect' = dialect,
           \A c \in Clients : phase'[c] = "positioned" =>
                phase[c] = "positioned" /\ call'[c] = call[c],
           \A c \in Clients : HoldsWriteLock(c)' => HoldsWriteLock(c)
    PROVE  OrderInv'
<1>1. /\ AllRows' = AllRows
      /\ SingleWriter' = SingleWriter
      /\ \A c \in Clients : FreshPosition(c)' = FreshPosition(c)
  BY DEF AllRows, SingleWriter, FreshPosition
<1>2. \A c \in Positioned' : /\ c \in Positioned
                             /\ call'[c] = call[c]
                             /\ NewRow(c)' = NewRow(c)
  BY DEF Positioned, NewRow
<1>3. PositionsAreTaken'
  <2>1. \A c \in Clients : \A r \in rows'[c] :
            /\ r.position < FreshPosition(c)'
            /\ SingleWriter' => r.position >= nextPosition'
    BY <1>1 DEF OrderInv, PositionsAreTaken
  <2>2. ASSUME NEW c \in Positioned'
        PROVE  IF SingleWriter' THEN call'[c].position = FreshPosition(c)'
                                ELSE call'[c].position < nextPosition'
    <3>1. c \in Positioned /\ call'[c] = call[c] /\ c \in Clients
      BY <1>2, <2>2 DEF Positioned
    <3> QED
      BY <1>1, <3>1 DEF OrderInv, PositionsAreTaken
  <2> QED
    BY <2>1, <2>2 DEF OrderInv, PositionsAreTaken
<1>4. OneLockHolder'
  BY <1>1 DEF OrderInv, OneLockHolder
<1>5. PositionsDiffer'
  BY <1>1, <1>2 DEF OrderInv, PositionsDiffer, SameKey
<1>6. PositionsFollowVersions'
  BY <1>1, <1>2 DEF OrderInv, PositionsFollowVersions
<1> QED
  BY <1>3, <1>4, <1>5, <1>6 DEF OrderInv

(* What AssignPosition changes.                                            *)
LEMMA AssignFacts ==
    ASSUME TypeOK, NEW c \in Clients, AssignPosition(c)
    PROVE  /\ events' = events /\ rows' = rows /\ dialect' = dialect
           /\ phase[c] = "inserting" /\ WriteLockWaitsFor(c) = {}
           /\ Positioned' = Positioned \cup {c}
           /\ call'[c].position = FreshPosition(c)
           /\ call'[c].aggregate = call[c].aggregate
           /\ \A d \in Positioned : call'[d] = call[d] /\ d # c
           /\ \A d \in Clients \ {c} : HoldsWriteLock(d)' = HoldsWriteLock(d)
           /\ nextPosition' = IF SingleWriter THEN nextPosition ELSE nextPosition + 1
<1>1. /\ events' = events /\ rows' = rows /\ dialect' = dialect
      /\ phase[c] = "inserting" /\ WriteLockWaitsFor(c) = {}
      /\ phase' = [phase EXCEPT ![c] = "positioned"]
      /\ call' = [call EXCEPT ![c].position = FreshPosition(c)]
      /\ nextPosition' = IF SingleWriter THEN nextPosition ELSE nextPosition + 1
  BY DEF AssignPosition, TakePosition
<1>2. /\ call[c] \in Calls
      /\ phase \in [Clients -> Phases]
      /\ call \in [Clients -> Calls \cup {NoCall}]
  BY <1>1 DEF TypeOK, CallFitsPhase, InAppend
<1>3. Positioned' = Positioned \cup {c}
  BY <1>1, <1>2 DEF Positioned
<1>4. \A d \in Positioned : call'[d] = call[d] /\ d # c
  BY <1>1, <1>2 DEF Positioned
<1>5. \A d \in Clients \ {c} : HoldsWriteLock(d)' = HoldsWriteLock(d)
  BY <1>1, <1>2 DEF HoldsWriteLock
<1>6. /\ call'[c].position = FreshPosition(c)
      /\ call'[c].aggregate = call[c].aggregate
  BY <1>1, <1>2 DEF Calls
<1> QED
  BY <1>1, <1>3, <1>4, <1>5, <1>6

(* A position that is handed out lies above all that are in use.           *)
LEMMA OrderAssignPosition ==
    ASSUME TypeOK, OrderInv, NEW c \in Clients, AssignPosition(c)
    PROVE  OrderInv'
<1>1. /\ AllRows' = AllRows /\ SingleWriter' = SingleWriter
      /\ \A d \in Clients : Cardinality(rows[d])' = Cardinality(rows[d])
  BY AssignFacts DEF AllRows, SingleWriter
<1>2. \A r \in AllRows : r.position < FreshPosition(c)
  BY AssignFacts, FreshIsAbove DEF OrderInv
<1>3. \A r \in AllRows : r.position \in Nat
  BY RowFacts
<1>4. /\ nextPosition \in Nat /\ FreshPosition(c) \in Nat
      /\ nextPosition' = IF SingleWriter THEN nextPosition ELSE nextPosition + 1
  BY AssignFacts, RowFacts
<1>5. ASSUME NEW d \in Clients
      PROVE  FreshPosition(d)' = IF SingleWriter THEN FreshPosition(d)
                                 ELSE FreshPosition(d) + 1
  BY <1>1, <1>4 DEF FreshPosition
<1>6. /\ SingleWriter => Positioned = {}
      /\ \A d \in Positioned : call[d].position < FreshPosition(c)
                                 /\ call[d].position \in Nat
  <2>1. ASSUME SingleWriter, NEW d \in Positioned PROVE FALSE
    BY <2>1, AssignFacts DEF Positioned, WriteLockWaitsFor, HoldsWriteLock
  <2>2. ASSUME ~SingleWriter, NEW d \in Positioned
        PROVE  call[d].position < FreshPosition(c)
    BY <2>2, RowFacts DEF OrderInv, PositionsAreTaken
  <2> QED
    BY <2>1, <2>2, RowFacts
<1>7. PositionsAreTaken'
  <2>1. \A r \in events' : r.position < nextPosition'
    BY <1>3, <1>4, AssignFacts DEF OrderInv, PositionsAreTaken, AllRows
  <2>2. ASSUME NEW d \in Clients, NEW r \in rows'[d]
        PROVE  /\ r.position < FreshPosition(d)'
               /\ SingleWriter' => r.position >= nextPosition'
    <3>1. r \in rows[d] /\ r \in AllRows
      BY <2>2, AssignFacts DEF AllRows
    <3>2. FreshPosition(d) \in Nat
      BY RowFacts
    <3> QED
      BY <1>1, <1>3, <1>4, <1>5, <3>1, <3>2 DEF OrderInv, PositionsAreTaken
  <2>3. ASSUME NEW d \in Positioned'
        PROVE  IF SingleWriter' THEN call'[d].position = FreshPosition(d)'
                                ELSE call'[d].position < nextPosition'
    <3>1. CASE d = c
      BY <1>1, <1>4, <1>5, <3>1, AssignFacts, RowFacts
    <3>2. CASE d \in Positioned
      BY <1>1, <1>4, <1>6, <3>2, AssignFacts, RowFacts
    <3> QED
      BY <2>3, <3>1, <3>2, AssignFacts
  <2> QED
    BY <2>1, <2>2, <2>3 DEF PositionsAreTaken
<1>8. OneLockHolder'
  <2> SUFFICES ASSUME SingleWriter, NEW x \in Clients, NEW y \in Clients,
                      HoldsWriteLock(x)', HoldsWriteLock(y)'
               PROVE  x = y
    BY <1>1 DEF OneLockHolder
  <2>1. \A d \in Clients \ {c} : ~HoldsWriteLock(d)'
    BY AssignFacts DEF WriteLockWaitsFor
  <2> QED
    BY <2>1
<1>9. PositionsDiffer'
  <2>1. \A d \in Positioned' : \A r \in AllRows : r.position # call'[d].position
    <3> SUFFICES ASSUME NEW d \in Positioned', NEW r \in AllRows
                 PROVE  r.position # call'[d].position
      OBVIOUS
    <3>1. CASE d = c
      BY <1>2, <1>3, <1>4, <3>1, AssignFacts
    <3>2. CASE d \in Positioned
      BY <3>2, AssignFacts DEF OrderInv, PositionsDiffer
    <3> QED
      BY <3>1, <3>2, AssignFacts
  <2>2. ASSUME NEW x \in Positioned', NEW y \in Positioned', x # y
        PROVE  call'[x].position # call'[y].position
    <3>1. CASE x = c
      BY <1>4, <1>6, <2>2, <3>1, AssignFacts
    <3>2. CASE y = c
      BY <1>4, <1>6, <2>2, <3>2, AssignFacts
    <3>3. CASE x # c /\ y # c
      BY <2>2, <3>3, AssignFacts DEF OrderInv, PositionsDiffer
    <3> QED
      BY <3>1, <3>2, <3>3
  <2> QED
    BY <1>1, <2>1, <2>2 DEF OrderInv, PositionsDiffer, SameKey
<1>10. PositionsFollowVersions'
  <2>1. ASSUME NEW d \in Positioned', NEW r \in AllRows,
               r.aggregate = call'[d].aggregate, r.version < NewRow(d)'.version
        PROVE  r.position < call'[d].position
    <3>1. CASE d = c
      BY <1>2, <3>1, AssignFacts
    <3>2. CASE d \in Positioned
      <4>1. NewRow(d)'.version = NewRow(d).version
        BY <3>2, AssignFacts DEF NewRow
      <4> QED
        BY <2>1, <3>2, <4>1, AssignFacts DEF OrderInv, PositionsFollowVersions
    <3> QED
      BY <2>1, <3>1, <3>2, AssignFacts
  <2> QED
    BY <1>1, <2>1 DEF OrderInv, PositionsFollowVersions
<1> QED
  BY <1>7, <1>8, <1>9, <1>10 DEF OrderInv

(* A row that is inserted has the highest version of its aggregate, also   *)
(* of those that other clients are waiting to insert.                      *)
LEMMA InsertIsHighest ==
    ASSUME TypeOK, WriterInv, NEW c \in Clients, InsertRow(c)
    PROVE  /\ \A r \in AllRows : r.aggregate = NewRow(c).aggregate
                => r.version < NewRow(c).version
           /\ \A d \in Positioned \ {c} : call[d].aggregate = NewRow(c).aggregate
                => NewRow(d).version <= NewRow(c).version
<1> DEFINE a == call[c].aggregate
           v == NewRow(c).version
<1>1. /\ NewRow(c).aggregate = a /\ a \in Aggregates
      /\ v = 1 + (IF PendingHead(c, a) # 0 THEN PendingHead(c, a) ELSE heads[a])
      /\ \A d \in Clients \ {c} : PendingHead(d, a) = 0
  BY InsertIsNext, NewRowFacts DEF InsertRow
<1>2. PendingHead(c, a) \in Nat /\ heads[a] \in Nat
  BY <1>1, PendingHeadType DEF TypeOK
<1>3. heads[a] < v
  <2>1. PendingHead(c, a) # 0 => PendingHead(c, a) > heads[a]
    BY <1>1 DEF WriterInv, ClientInv, FollowsCommitted
  <2> QED
    BY <1>1, <1>2, <2>1
<1>4. ASSUME NEW r \in AllRows, r.aggregate = a PROVE r.version < v
  <2>1. CASE r \in events
    <3>1. r.version \in VersionsOf(events, a)
      BY <1>4, <2>1 DEF VersionsOf
    <3>2. r.version \in 1..heads[a]
      BY <1>1, <3>1 DEF WriterInv, HeadsAgree
    <3> QED
      BY <1>1, <1>2, <1>3, <3>2
  <2>2. ASSUME NEW d \in Clients, r \in rows[d] PROVE r.version < v
    <3>1. PendingHead(d, a) # 0
      BY <1>4, <2>2, RowsHavePending
    <3>2. d = c
      BY <1>1, <3>1
    <3>3. r.version \in VersionsOf(rows[c], a)
      BY <1>4, <2>2, <3>2 DEF VersionsOf
    <3>4. r.version \in (heads[a] + 1)..PendingHead(c, a)
      BY <1>1, <3>3 DEF WriterInv, ClientInv, FollowsCommitted
    <3> QED
      BY <1>1, <1>2, <3>1, <3>2, <3>4
  <2> QED
    BY <2>1, <2>2 DEF AllRows
<1>5. ASSUME NEW d \in Positioned \ {c}, call[d].aggregate = a
      PROVE  NewRow(d).version <= v
  <2>1. /\ d \in Clients \ {c} /\ phase[d] = "positioned"
        /\ call[d] \in Calls
        /\ NewRow(d).version = call[d].from + call[d].inserted + 1
    BY <1>5, NewRowFacts DEF Positioned
  <2>2. call[d].from \in Nat /\ call[d].inserted \in Nat /\ newHeads[d][a] \in Nat
    BY <1>1, <2>1, BoundsAssumption DEF Calls, TypeOK
  <2>3. call[d].inserted = 0 /\ newHeads[d][a] = 0
    BY <1>1, <1>5, <2>1, <2>2 DEF PendingHead
  <2>4. call[d].from <= heads[a]
    BY <1>5, <2>1, <2>3 DEF WriterInv, ClientInv, StartedFromHead
  <2> QED
    BY <1>1, <1>2, <1>3, <2>1, <2>2, <2>3, <2>4
<1> QED
  BY <1>1, <1>4, <1>5

(* A row that is inserted has the position its INSERT took, above those of *)
(* all lower versions of its aggregate; nobody who waits is overtaken.     *)
LEMMA OrderInsertRow ==
    ASSUME TypeOK, WriterInv, OrderInv, NEW c \in Clients, InsertRow(c)
    PROVE  OrderInv'
<1> DEFINE n == NewRow(c)
<1>1. /\ events' = events /\ dialect' = dialect /\ nextPosition' = nextPosition
      /\ rows' = [rows EXCEPT ![c] = @ \cup {n}]
      /\ c \in Positioned
      /\ InsertWaitsFor(c) = {} /\ ~Duplicate(c)
      /\ SingleWriter' = SingleWriter
  BY DEF InsertRow, database, Positioned, SingleWriter
<1>2. /\ n \in StoredEvents /\ n.aggregate = call[c].aggregate
      /\ n.position = call[c].position /\ n.position \in Nat /\ n.version \in Nat
  BY <1>1, NewRowFacts, RowFacts DEF NewRow, Positioned
<1>3. /\ rows'[c] = rows[c] \cup {n}
      /\ \A d \in Clients \ {c} : rows'[d] = rows[d]
      /\ AllRows' = AllRows \cup {n}
  <2>1. rows \in [Clients -> SUBSET StoredEvents]
    BY DEF TypeOK
  <2>2. /\ rows'[c] = rows[c] \cup {n}
        /\ \A d \in Clients \ {c} : rows'[d] = rows[d]
    BY <1>1, <2>1
  <2> QED
    BY <1>1, <2>2 DEF AllRows
<1>4. /\ Positioned' = Positioned \ {c}
      /\ \A d \in Positioned' : call'[d] = call[d] /\ NewRow(d)' = NewRow(d)
  <2>1. /\ phase'[c] # "positioned"
        /\ \A d \in Clients \ {c} : phase'[d] = phase[d] /\ call'[d] = call[d]
    BY DEF TypeOK, InsertRow
  <2> QED
    BY <2>1 DEF Positioned, NewRow
<1>5. \A r \in AllRows : ~SameKey(r, n)
  BY <1>1 DEF AllRows, Duplicate, InsertWaitsFor
<1>6. \A r \in AllRows : r.position # n.position
  BY <1>1, <1>2 DEF OrderInv, PositionsDiffer
<1>7. /\ \A d \in Clients \ {c} : FreshPosition(d)' = FreshPosition(d)
      /\ FreshPosition(c)' = IF SingleWriter THEN FreshPosition(c) + 1
                             ELSE FreshPosition(c)
  <2>1. n \notin rows[c] /\ IsFiniteSet(rows[c])
    BY <1>5 DEF AllRows, SameKey, TypeOK
  <2>2. Cardinality(rows'[c]) = Cardinality(rows[c]) + 1
    BY <1>3, <2>1, FS_AddElement
  <2>3. nextPosition \in Nat /\ Cardinality(rows[c]) \in Nat
    BY <2>1, FS_CardinalityType DEF TypeOK
  <2> QED
    BY <1>1, <1>3, <2>2, <2>3 DEF FreshPosition
<1>8. PositionsAreTaken'
  <2>1. ASSUME NEW d \in Clients, NEW r \in rows'[d]
        PROVE  /\ r.position < FreshPosition(d)'
               /\ SingleWriter' => r.position >= nextPosition'
    <3>1. /\ FreshPosition(d) \in Nat /\ nextPosition \in Nat
          /\ SingleWriter => nextPosition <= FreshPosition(d)
          /\ ~SingleWriter => FreshPosition(d) = nextPosition
      BY RowFacts
    <3>2. CASE r \in rows[d]
      <4>1. r.position \in Nat
        BY <3>2, RowFacts DEF AllRows
      <4>2. /\ r.position < FreshPosition(d)
            /\ SingleWriter => r.position >= nextPosition
        BY <3>2 DEF OrderInv, PositionsAreTaken
      <4> QED
        BY <1>1, <1>7, <3>1, <4>1, <4>2
    <3>3. CASE d = c /\ r = n
      <4>1. IF SingleWriter THEN n.position = FreshPosition(c)
                            ELSE n.position < nextPosition
        BY <1>1, <1>2 DEF OrderInv, PositionsAreTaken
      <4> QED
        BY <1>1, <1>2, <1>7, <3>1, <3>3, <4>1
    <3> QED
      BY <1>3, <2>1, <3>2, <3>3
  <2>2. ASSUME NEW d \in Positioned'
        PROVE  IF SingleWriter' THEN call'[d].position = FreshPosition(d)'
                                ELSE call'[d].position < nextPosition'
    <3>1. d \in Positioned /\ d \in Clients \ {c} /\ call'[d] = call[d]
      BY <1>4, <2>2 DEF Positioned
    <3> QED
      BY <1>1, <1>7, <3>1 DEF OrderInv, PositionsAreTaken
  <2> QED
    BY <1>1, <2>1, <2>2 DEF OrderInv, PositionsAreTaken
<1>9. OneLockHolder'
  <2>1. ASSUME NEW d \in Clients, HoldsWriteLock(d)' PROVE HoldsWriteLock(d)
    <3>1. CASE d = c
      BY <1>1, <3>1 DEF HoldsWriteLock, Positioned
    <3>2. CASE d # c
      BY <1>3, <2>1, <3>2 DEF TypeOK, InsertRow, HoldsWriteLock
    <3> QED
      BY <3>1, <3>2
  <2> QED
    BY <1>1, <2>1 DEF OrderInv, OneLockHolder
<1>10. PositionsDiffer'
  <2>1. ASSUME NEW r \in AllRows', NEW s \in AllRows', r # s
        PROVE  ~SameKey(r, s) /\ r.position # s.position
    BY <1>3, <1>5, <1>6, <2>1 DEF OrderInv, PositionsDiffer, SameKey
  <2>2. ASSUME NEW d \in Positioned', NEW r \in AllRows'
        PROVE  r.position # call'[d].position
    <3>1. d \in Positioned /\ d # c /\ call'[d] = call[d]
      BY <1>4, <2>2
    <3> QED
      BY <1>1, <1>2, <1>3, <2>2, <3>1 DEF OrderInv, PositionsDiffer
  <2>3. ASSUME NEW x \in Positioned', NEW y \in Positioned', x # y
        PROVE  call'[x].position # call'[y].position
    BY <1>4, <2>3 DEF OrderInv, PositionsDiffer
  <2> QED
    BY <2>1, <2>2, <2>3 DEF PositionsDiffer, SameKey
<1>11. /\ \A r \in AllRows : r.aggregate = n.aggregate => r.version < n.version
       /\ \A d \in Positioned \ {c} :
            call[d].aggregate = n.aggregate => NewRow(d).version <= n.version
  BY InsertIsHighest DEF Positioned
<1>12. PositionsFollowVersions'
  <2>1. ASSUME NEW r \in AllRows', NEW s \in AllRows',
               r.aggregate = s.aggregate, r.version < s.version
        PROVE  r.position < s.position
    <3>1. CASE r \in AllRows /\ s \in AllRows
      BY <2>1, <3>1 DEF OrderInv, PositionsFollowVersions
    <3>2. CASE r \in AllRows /\ s = n
      BY <1>1, <1>2, <2>1, <3>2 DEF OrderInv, PositionsFollowVersions
    <3>3. CASE r = n /\ s \in AllRows
      <4>1. s.version < n.version /\ s.version \in Nat
        BY <1>11, <2>1, <3>3, RowFacts
      <4> QED
        BY <1>2, <2>1, <3>3, <4>1
    <3>4. CASE r = n /\ s = n
      BY <1>2, <2>1, <3>4
    <3> QED
      BY <1>3, <3>1, <3>2, <3>3, <3>4
  <2>2. ASSUME NEW d \in Positioned', NEW r \in AllRows',
               r.aggregate = call'[d].aggregate, r.version < NewRow(d)'.version
        PROVE  r.position < call'[d].position
    <3>1. /\ d \in Positioned \ {c} /\ call'[d] = call[d]
          /\ NewRow(d)' = NewRow(d) /\ NewRow(d).version \in Nat
      BY <1>4, <2>2, RowFacts
    <3>2. CASE r \in AllRows
      BY <2>2, <3>1, <3>2 DEF OrderInv, PositionsFollowVersions
    <3>3. CASE r = n
      BY <1>2, <1>11, <2>2, <3>1, <3>3
    <3> QED
      BY <1>3, <3>2, <3>3
  <2> QED
    BY <2>1, <2>2 DEF PositionsFollowVersions
<1> QED
  BY <1>8, <1>9, <1>10, <1>12 DEF OrderInv

(* A commit makes rows of the transaction rows of the table.               *)
LEMMA OrderCommit ==
    ASSUME TypeOK, OrderInv, NEW c \in Clients, Commit(c)
    PROVE  OrderInv'
<1>1. /\ events' = events \cup rows[c] /\ dialect' = dialect
      /\ nextPosition' = IF SingleWriter THEN FreshPosition(c) ELSE nextPosition
      /\ SingleWriter' = SingleWriter
      /\ phase[c] \in {"begun", "open"}
  BY DEF Commit, Publish, SingleWriter
<1>2. /\ rows'[c] = {}
      /\ \A d \in Clients \ {c} :
            rows'[d] = rows[d] /\ phase'[d] = phase[d] /\ call'[d] = call[d]
      /\ phase'[c] = "idle"
  BY DEF TypeOK, Commit, EndTransaction
<1>3. AllRows' = AllRows
  BY <1>1, <1>2 DEF AllRows
<1>4. /\ Positioned' = Positioned /\ c \notin Positioned
      /\ \A d \in Positioned : call'[d] = call[d] /\ NewRow(d)' = NewRow(d)
  BY <1>1, <1>2 DEF Positioned, NewRow
<1>5. \A d \in Clients : HoldsWriteLock(d)' => HoldsWriteLock(d)
  BY <1>2 DEF HoldsWriteLock
<1>6. ASSUME NEW d \in Clients \ {c}, HoldsWriteLock(d), SingleWriter
      PROVE  nextPosition' = nextPosition /\ FreshPosition(d)' = FreshPosition(d)
  <2>1. rows[c] = {}
    BY <1>6 DEF OrderInv, OneLockHolder, HoldsWriteLock
  <2>2. Cardinality(rows[c]) = 0
    BY <2>1, FS_EmptySet
  <2>3. nextPosition' = nextPosition
    BY <1>1, <1>6, <2>2 DEF FreshPosition, TypeOK
  <2> QED
    BY <1>1, <1>2, <1>6, <2>3 DEF FreshPosition
<1>7. PositionsAreTaken'
  <2>1. ASSUME NEW r \in events' PROVE r.position < nextPosition'
    <3>1. /\ r.position \in Nat /\ nextPosition \in Nat /\ FreshPosition(c) \in Nat
          /\ SingleWriter => nextPosition <= FreshPosition(c)
          /\ ~SingleWriter => FreshPosition(c) = nextPosition
      BY <1>3, <2>1, RowFacts DEF AllRows
    <3>2. r.position < FreshPosition(c) \/ r.position < nextPosition
      BY <1>1, <2>1 DEF OrderInv, PositionsAreTaken
    <3> QED
      BY <1>1, <3>1, <3>2
  <2>2. ASSUME NEW d \in Clients, NEW r \in rows'[d]
        PROVE  /\ r.position < FreshPosition(d)'
               /\ SingleWriter' => r.position >= nextPosition'
    <3>1. d # c /\ r \in rows[d] /\ HoldsWriteLock(d)
      BY <1>2, <2>2 DEF HoldsWriteLock
    <3>2. CASE SingleWriter
      BY <1>6, <3>1, <3>2 DEF OrderInv, PositionsAreTaken
    <3>3. CASE ~SingleWriter
      BY <1>1, <3>1, <3>3 DEF OrderInv, PositionsAreTaken, FreshPosition
    <3> QED
      BY <1>1, <3>2, <3>3
  <2>3. ASSUME NEW d \in Positioned'
        PROVE  IF SingleWriter' THEN call'[d].position = FreshPosition(d)'
                                ELSE call'[d].position < nextPosition'
    <3>1. d \in Positioned /\ d \in Clients \ {c} /\ HoldsWriteLock(d)
          /\ call'[d] = call[d]
      BY <1>4, <2>3 DEF Positioned, HoldsWriteLock
    <3> QED
      BY <1>1, <1>6, <3>1 DEF OrderInv, PositionsAreTaken
  <2> QED
    BY <2>1, <2>2, <2>3 DEF PositionsAreTaken
<1>8. OneLockHolder'
  BY <1>1, <1>5 DEF OrderInv, OneLockHolder
<1>9. PositionsDiffer'
  BY <1>3, <1>4 DEF OrderInv, PositionsDiffer, SameKey
<1>10. PositionsFollowVersions'
  BY <1>3, <1>4 DEF OrderInv, PositionsFollowVersions
<1> QED
  BY <1>7, <1>8, <1>9, <1>10 DEF OrderInv

(* A rollback takes the rows of the transaction away.                      *)
LEMMA OrderRollback ==
    ASSUME TypeOK, OrderInv, NEW c \in Clients, Rollback(c)
    PROVE  OrderInv'
<1>1. /\ events' = events /\ dialect' = dialect /\ nextPosition' = nextPosition
      /\ SingleWriter' = SingleWriter
  BY DEF Rollback, database, SingleWriter
<1>2. /\ rows'[c] = {} /\ phase'[c] = "idle"
      /\ \A d \in Clients \ {c} :
            rows'[d] = rows[d] /\ phase'[d] = phase[d] /\ call'[d] = call[d]
  BY DEF TypeOK, Rollback, EndTransaction
<1>3. AllRows' \subseteq AllRows
  BY <1>1, <1>2 DEF AllRows
<1>4. /\ Positioned' = Positioned \ {c}
      /\ \A d \in Positioned' : call'[d] = call[d] /\ NewRow(d)' = NewRow(d)
  BY <1>2 DEF Positioned, NewRow
<1>5. \A d \in Clients \ {c} : FreshPosition(d)' = FreshPosition(d)
  BY <1>1, <1>2 DEF FreshPosition
<1>6. \A d \in Clients : HoldsWriteLock(d)' => HoldsWriteLock(d)
  BY <1>2 DEF HoldsWriteLock
<1>7. PositionsAreTaken'
  <2>1. ASSUME NEW d \in Clients, NEW r \in rows'[d]
        PROVE  /\ r.position < FreshPosition(d)'
               /\ SingleWriter' => r.position >= nextPosition'
    BY <1>1, <1>2, <1>5, <2>1 DEF OrderInv, PositionsAreTaken
  <2>2. ASSUME NEW d \in Positioned'
        PROVE  IF SingleWriter' THEN call'[d].position = FreshPosition(d)'
                                ELSE call'[d].position < nextPosition'
    <3>1. d \in Positioned /\ d \in Clients \ {c} /\ call'[d] = call[d]
      BY <1>4, <2>2 DEF Positioned
    <3> QED
      BY <1>1, <1>5, <3>1 DEF OrderInv, PositionsAreTaken
  <2> QED
    BY <1>1, <2>1, <2>2 DEF OrderInv, PositionsAreTaken
<1>8. OneLockHolder'
  BY <1>1, <1>6 DEF OrderInv, OneLockHolder
<1>9. PositionsDiffer'
  BY <1>3, <1>4 DEF OrderInv, PositionsDiffer, SameKey
<1>10. PositionsFollowVersions'
  BY <1>3, <1>4 DEF OrderInv, PositionsFollowVersions
<1> QED
  BY <1>7, <1>8, <1>9, <1>10 DEF OrderInv

-----------------------------------------------------------------------------
(* No row exists before the first step.                                    *)
LEMMA OrderInit == Init => OrderInv
<1> SUFFICES ASSUME Init PROVE OrderInv
  OBVIOUS
<1>1. AllRows = {} /\ Positioned = {}
  BY DEF Init, AllRows, Positioned
<1>2. \A c \in Clients : ~HoldsWriteLock(c) /\ rows[c] = {}
  BY DEF Init, HoldsWriteLock
<1>3. PositionsAreTaken
  BY <1>1, <1>2 DEF PositionsAreTaken, Init
<1>4. OneLockHolder
  BY <1>2 DEF OneLockHolder
<1>5. PositionsDiffer /\ PositionsFollowVersions
  BY <1>1 DEF PositionsDiffer, PositionsFollowVersions
<1> QED
  BY <1>3, <1>4, <1>5 DEF OrderInv

(* Every step keeps the invariant.                                         *)
LEMMA OrderStep ==
    ASSUME TypeOK, WriterInv, OrderInv, [Next]_vars
    PROVE  OrderInv'
<1>1. CASE UNCHANGED vars
  <2>1. /\ events' = events /\ rows' = rows /\ phase' = phase /\ call' = call
        /\ nextPosition' = nextPosition /\ dialect' = dialect
    BY <1>1 DEF vars, database, private
  <2>2. \A c \in Clients : HoldsWriteLock(c)' => HoldsWriteLock(c)
    BY <2>1 DEF HoldsWriteLock
  <2> QED
    BY <2>1, <2>2, OrderQuietStep
<1>2. CASE Next
  <2> PICK c \in Clients :
        \/ Begin(c)
        \/ \E a \in Aggregates, expected \in Expectations, ids \in Batches :
                AppendStarts(c, a, expected, ids)
        \/ \E a \in Aggregates, expected \in Expectations :
                AppendRefused(c, a, expected)
        \/ AppendStep(c)
        \/ StatementFails(c)
        \/ Commit(c)
        \/ Rollback(c)
    BY <1>2 DEF Next
  <2>1. CASE \/ Begin(c)
             \/ \E a \in Aggregates, expected \in Expectations, ids \in Batches :
                     AppendStarts(c, a, expected, ids)
             \/ \E a \in Aggregates, expected \in Expectations :
                     AppendRefused(c, a, expected)
             \/ InsertConflicts(c)
             \/ UpsertHead(c)
             \/ StatementFails(c)
    <3>1. /\ events' = events /\ rows' = rows
          /\ nextPosition' = nextPosition /\ dialect' = dialect
      BY <2>1 DEF Begin, AppendStarts, AppendRefused, InsertConflicts, UpsertHead,
                  StatementFails, database
    <3>2. \A d \in Clients : phase'[d] = "positioned" =>
                phase[d] = "positioned" /\ call'[d] = call[d]
      BY <2>1 DEF TypeOK, Begin, AppendStarts, AppendRefused, InsertConflicts,
                  UpsertHead, StatementFails
    <3>3. \A d \in Clients : HoldsWriteLock(d)' => HoldsWriteLock(d)
      BY <2>1, <3>1 DEF TypeOK, HoldsWriteLock, Begin, AppendStarts, AppendRefused,
                  InsertConflicts, UpsertHead, StatementFails
    <3> QED
      BY <3>1, <3>2, <3>3, OrderQuietStep
  <2>2. CASE AssignPosition(c)
    BY <2>2, OrderAssignPosition
  <2>3. CASE InsertRow(c)
    BY <2>3, OrderInsertRow
  <2>4. CASE Commit(c)
    BY <2>4, OrderCommit
  <2>5. CASE Rollback(c)
    BY <2>5, OrderRollback
  <2> QED
    BY <2>1, <2>2, <2>3, <2>4, <2>5 DEF AppendStep
<1> QED
  BY <1>1, <1>2

(* Types and both invariants hold in every reachable state: the positions  *)
(* that are given to rows, committed or not, are apart, follow versions    *)
(* and lie below those a running INSERT may still get.                     *)
THEOREM OrderInvariance == Spec => [](TypeOK /\ WriterInv /\ OrderInv)
<1>1. Init => TypeOK /\ WriterInv /\ OrderInv
  BY TypeInit, InvInit, OrderInit
<1>2. TypeOK /\ WriterInv /\ OrderInv /\ [Next]_vars
        => (TypeOK /\ WriterInv /\ OrderInv)'
  BY TypeStep, InvStep, OrderStep
<1> QED
  BY <1>1, <1>2, PTL DEF Spec

(* No event, version or position is there twice in the events table.       *)
THEOREM NoEventTwice == Spec => []EventsAreUnique
<1>1. OrderInv => EventsAreUnique
  BY DEF OrderInv, PositionsDiffer, AllRows, EventsAreUnique
<1> QED
  BY <1>1, OrderInvariance, PTL

(* By global position, the events of an aggregate are in the order of      *)
(* their versions.                                                         *)
THEOREM PositionOrderIsVersionOrder == Spec => []AggregateOrder
<1>1. OrderInv => AggregateOrder
  BY DEF OrderInv, PositionsFollowVersions, AllRows, AggregateOrder
<1> QED
  BY <1>1, OrderInvariance, PTL

-----------------------------------------------------------------------------
(* The events table is an EventFeed.                                       *)

InFlightRows == UNION {rows[c] : c \in Clients}

(* A row that is inserted lies above the rows whose order readers rely on. *)
LEMMA InsertComesLast ==
    ASSUME TypeOK, WriterInv, OrderInv, NEW c \in Clients, InsertRow(c)
    PROVE  \A r \in AllRows :
               /\ r.position # NewRow(c).position
               /\ SingleWriter \/ r.aggregate = NewRow(c).aggregate
                    => r.position < NewRow(c).position
<1>1. c \in Positioned /\ NewRow(c).position = call[c].position
  BY DEF InsertRow, Positioned, NewRow
<1> SUFFICES ASSUME NEW r \in AllRows
             PROVE  /\ r.position # call[c].position
                    /\ SingleWriter \/ r.aggregate = NewRow(c).aggregate
                         => r.position < call[c].position
  BY <1>1
<1>2. r.position # call[c].position
  BY <1>1 DEF OrderInv, PositionsDiffer
<1>3. CASE r.aggregate = NewRow(c).aggregate
  <2>1. r.version < NewRow(c).version /\ NewRow(c).aggregate = call[c].aggregate
    BY <1>3, InsertIsHighest DEF NewRow
  <2> QED
    BY <1>1, <1>2, <1>3, <2>1 DEF OrderInv, PositionsFollowVersions
<1>4. CASE SingleWriter
  <2>1. WriteLockWaitsFor(c) = {}
    BY <1>1, <1>4 DEF OrderInv, OneLockHolder, WriteLockWaitsFor, HoldsWriteLock, Positioned
  <2>2. r.position < FreshPosition(c)
    BY <2>1, FreshIsAbove DEF OrderInv
  <2>3. call[c].position = FreshPosition(c)
    BY <1>1, <1>4 DEF OrderInv, PositionsAreTaken
  <2> QED
    BY <1>2, <2>2, <2>3
<1> QED
  BY <1>2, <1>3, <1>4

LEMMA FeedInsert ==
    ASSUME TypeOK, WriterInv, OrderInv, NEW c \in Clients, InsertRow(c),
           NEW oneWriter \in BOOLEAN, oneWriter => SingleWriter
    PROVE  Feed(oneWriter)!FeedStep
<1> DEFINE row  == NewRow(c)
           seen == [position |-> row.position, aggregate |-> row.aggregate]
<1>1. row \in StoredEvents
  BY NewRowFacts DEF InsertRow
<1>2. events' = events /\ InFlightRows' = InFlightRows \cup {row}
  BY DEF InsertRow, database, InFlightRows, TypeOK
<1>3. \A r \in AllRows :
         /\ r.position # row.position
         /\ SingleWriter \/ r.aggregate = row.aggregate => r.position < row.position
  BY InsertComesLast
<1> HIDE DEF row
<1>4. ReaderView(InFlightRows)' = ReaderView(InFlightRows) \cup {seen}
  BY <1>2 DEF ReaderView
<1>5. seen \in Feed(oneWriter)!Event
  BY <1>1 DEF Feed!Event, StoredEvents
<1>6. \A f \in ReaderView(events) \cup ReaderView(InFlightRows) :
         /\ f.position # seen.position
         /\ Feed(oneWriter)!Ordered(seen, f) => f.position < seen.position
  BY <1>3 DEF ReaderView, AllRows, InFlightRows, Feed!Ordered
<1>7. Feed(oneWriter)!Insert(seen)
  BY <1>2, <1>4, <1>6 DEF Feed!Insert, InFlightRows, ReaderView
<1> QED
  BY <1>4, <1>5, <1>7 DEF Feed!FeedStep, InFlightRows

(* What one client has in flight is ordered with nothing of another one,   *)
(* and its end takes exactly that away.                                    *)
LEMMA ClientsAreApart ==
    ASSUME TypeOK, WriterInv, OrderInv, NEW c \in Clients, rows'[c] = {},
           \A d \in Clients \ {c} : rows'[d] = rows[d],
           NEW oneWriter \in BOOLEAN, oneWriter => SingleWriter
    PROVE  /\ \A e \in ReaderView(rows[c]) : \A f \in ReaderView(InFlightRows) :
                 Feed(oneWriter)!Ordered(e, f) => f \in ReaderView(rows[c])
           /\ ReaderView(InFlightRows)' = ReaderView(InFlightRows) \ ReaderView(rows[c])
           /\ ReaderView(rows[c]) \subseteq ReaderView(InFlightRows)
<1>1. ASSUME NEW r \in rows[c], NEW d \in Clients, NEW s \in rows[d],
             oneWriter \/ r.aggregate = s.aggregate
      PROVE  s \in rows[c]
  <2>1. CASE r.aggregate = s.aggregate
    BY <2>1 DEF WriterInv, OneWriterPerAggregate
  <2>2. CASE oneWriter
    BY <2>2 DEF OrderInv, OneLockHolder, HoldsWriteLock
  <2> QED
    BY <1>1, <2>1, <2>2
<1>2. \A e \in ReaderView(rows[c]) : \A f \in ReaderView(InFlightRows) :
         Feed(oneWriter)!Ordered(e, f) => f \in ReaderView(rows[c])
  BY <1>1 DEF ReaderView, InFlightRows, Feed!Ordered
<1>3. ASSUME NEW d \in Clients \ {c}, NEW r \in rows[c], NEW s \in rows[d]
      PROVE  r.position # s.position
  <2>1. r.aggregate # s.aggregate
    BY DEF WriterInv, OneWriterPerAggregate
  <2>2. r \in AllRows /\ s \in AllRows
    BY DEF AllRows
  <2> QED
    BY <2>1, <2>2 DEF OrderInv, PositionsDiffer
<1>4. InFlightRows' = UNION {rows[d] : d \in Clients \ {c}}
  BY DEF InFlightRows
<1>5. ReaderView(InFlightRows)' = ReaderView(InFlightRows) \ ReaderView(rows[c])
  <2> DEFINE seen(r) == [position |-> r.position, aggregate |-> r.aggregate]
  <2>1. ASSUME NEW s \in InFlightRows'
        PROVE  s \in InFlightRows /\ seen(s) \notin ReaderView(rows[c])
    <3>1. PICK d \in Clients \ {c} : s \in rows[d]
      BY <1>4
    <3>2. \A r \in rows[c] : seen(r) # seen(s)
      BY <1>3, <3>1
    <3> QED
      BY <3>1, <3>2 DEF InFlightRows, ReaderView
  <2>2. ASSUME NEW s \in InFlightRows, seen(s) \notin ReaderView(rows[c])
        PROVE  s \in InFlightRows'
    <3>1. s \notin rows[c]
      BY <2>2 DEF ReaderView
    <3> QED
      BY <1>4, <3>1 DEF InFlightRows
  <2>3. /\ ReaderView(InFlightRows)' = {seen(s) : s \in InFlightRows'}
        /\ ReaderView(InFlightRows) = {seen(s) : s \in InFlightRows}
    BY DEF ReaderView
  <2> HIDE DEF seen
  <2> QED
    BY <2>1, <2>2, <2>3
<1> QED
  BY <1>2, <1>5 DEF ReaderView, InFlightRows

LEMMA FeedEnds ==
    ASSUME TypeOK, WriterInv, OrderInv, NEW c \in Clients, Commit(c) \/ Rollback(c),
           NEW oneWriter \in BOOLEAN, oneWriter => SingleWriter, rows[c] # {}
    PROVE  Feed(oneWriter)!FeedStep
<1> DEFINE S == ReaderView(rows[c])
<1>1. rows'[c] = {} /\ \A d \in Clients \ {c} : rows'[d] = rows[d]
  BY DEF Commit, Rollback, EndTransaction, TypeOK
<1>2. /\ \A e \in S : \A f \in ReaderView(InFlightRows) :
             Feed(oneWriter)!Ordered(e, f) => f \in S
      /\ ReaderView(InFlightRows)' = ReaderView(InFlightRows) \ S
      /\ S \subseteq ReaderView(InFlightRows)
  BY <1>1, ClientsAreApart
<1>3. S # {}
  BY DEF ReaderView
<1>4. CASE Commit(c)
  <2>1. ReaderView(events)' = ReaderView(events) \cup S
    BY <1>4 DEF Commit, Publish, ReaderView
  <2>2. Feed(oneWriter)!CommitEvents(S)
    BY <1>2, <1>3, <2>1 DEF Feed!CommitEvents, InFlightRows
  <2> QED
    BY <1>2, <2>2 DEF Feed!FeedStep, Feed!TransactionEnds, InFlightRows
<1>5. CASE Rollback(c)
  <2>1. ReaderView(events)' = ReaderView(events)
    BY <1>5 DEF Rollback, database, ReaderView
  <2>2. Feed(oneWriter)!AbortEvents(S)
    BY <1>2, <1>3, <2>1 DEF Feed!AbortEvents, InFlightRows
  <2> QED
    BY <1>2, <2>2 DEF Feed!FeedStep, Feed!TransactionEnds, InFlightRows
<1> QED
  BY <1>4, <1>5

(* All other steps leave the rows alone.                                   *)
LEMMA FeedStutters ==
    ASSUME TypeOK, NEW c \in Clients,
           \/ Begin(c)
           \/ \E a \in Aggregates, expected \in Expectations, ids \in Batches :
                   AppendStarts(c, a, expected, ids)
           \/ \E a \in Aggregates, expected \in Expectations :
                   AppendRefused(c, a, expected)
           \/ AssignPosition(c)
           \/ InsertConflicts(c)
           \/ UpsertHead(c)
           \/ StatementFails(c)
           \/ (Commit(c) \/ Rollback(c)) /\ rows[c] = {}
    PROVE  UNCHANGED <<events, rows>>
<1>1. CASE (Commit(c) \/ Rollback(c)) /\ rows[c] = {}
  <2>1. events' = events
    BY <1>1 DEF Commit, Publish, Rollback, database
  <2>2. rows' = [rows EXCEPT ![c] = {}]
    BY <1>1 DEF Commit, Rollback, EndTransaction
  <2>3. rows' = rows
    BY <1>1, <2>2 DEF TypeOK
  <2> QED
    BY <2>1, <2>3
<1>2. CASE ~((Commit(c) \/ Rollback(c)) /\ rows[c] = {})
  BY <1>2 DEF Begin, AppendStarts, AppendRefused, AssignPosition, TakePosition,
     InsertConflicts, UpsertHead, StatementFails, database
<1> QED
  BY <1>1, <1>2

LEMMA FeedNextStep ==
    ASSUME TypeOK, WriterInv, OrderInv, [Next]_vars,
           NEW oneWriter \in BOOLEAN, oneWriter => SingleWriter
    PROVE  Feed(oneWriter)!FeedStep \/ UNCHANGED <<events, rows>>
<1>1. CASE UNCHANGED vars
  BY <1>1 DEF vars, database, private
<1>2. ASSUME NEW c \in Clients,
             InsertRow(c) \/ ((Commit(c) \/ Rollback(c)) /\ rows[c] # {})
      PROVE  Feed(oneWriter)!FeedStep
  BY <1>2, FeedInsert, FeedEnds
<1> QED
  BY <1>1, <1>2, FeedStutters DEF Next, AppendStep

(* The events table keeps the order its readers rely on: an aggregate's    *)
(* events become readable in order, and those of a transaction at once.    *)
THEOREM StoreFeedsReaders == Spec => ImplementsEventFeed
<1>1. Init => Feed(FALSE)!FeedInit
  BY DEF Init, Feed!FeedInit, ReaderView
<1>2. TypeOK /\ WriterInv /\ OrderInv /\ [Next]_vars
        => [Feed(FALSE)!FeedStep]_<<events, rows>>
  BY FeedNextStep
<1> QED
  BY <1>1, <1>2, OrderInvariance, PTL DEF Spec, ImplementsEventFeed

(* ... and with sqlite all events become readable in order.                *)
THEOREM SqliteFeedsInOrder == Spec => SqliteKeepsOrder
<1>1. TypeOK /\ WriterInv /\ OrderInv /\ [Next]_vars
        => [SingleWriter => Feed(TRUE)!FeedStep]_<<events, rows>>
  BY FeedNextStep
<1> QED
  BY <1>1, OrderInvariance, PTL DEF Spec, SqliteKeepsOrder

=============================================================================
