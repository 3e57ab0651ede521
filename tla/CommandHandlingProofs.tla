------------------------ MODULE CommandHandlingProofs ------------------------
(***************************************************************************)
(* Theorems about CommandHandling, for any number of clients, aggregates,  *)
(* events and commands, and for the three dialects: what holds whatever    *)
(* the callers pass to the store and however they go on after an error.    *)
(***************************************************************************)
EXTENDS CommandHandling, EventLogProofs

-----------------------------------------------------------------------------
(* The invariant.                                                          *)

(* The last version of an aggregate that is stored, and the last one that  *)
(* a client has stored or inserted.                                        *)
Stored(a)  == Version(events, a)
Held(c, a) == Version(events \cup rows[c], a)

(* A client is in the middle of writing an aggregate: it has inserted an   *)
(* event or upserted the head, uncommitted, or its call goes on after an   *)
(* INSERT that has committed by itself.                                    *)
Writing(c, a) ==
    \/ VersionsOf(rows[c], a) # {}
    \/ newHeads[c][a] # 0
    \/ phase[c] \in InAppend /\ call[c].aggregate = a /\ call[c].inserted > 0

NoGaps == \A a \in Aggregates :
    Stored(a) \in Nat /\ VersionsOf(events, a) = 1..Stored(a)

HeadsBehind == \A a \in Aggregates :
    heads[a] <= Stored(a) /\ \A c \in Clients : snapshot[c][a] <= heads[a]

OneWriterAtATime == \A a \in Aggregates, c, d \in Clients :
    Writing(c, a) /\ Writing(d, a) => c = d

(* What a client has inserted follows the stored events.                   *)
RowsFollow(c) == \A a \in Aggregates :
    /\ Held(c, a) \in Nat
    /\ Stored(a) <= Held(c, a)
    /\ VersionsOf(rows[c], a) = (Stored(a) + 1)..Held(c, a)

(* A transaction writes an aggregate whose head is not behind, and holds   *)
(* the event a head it has upserted stands for.                            *)
WritesTheHead(c) == dbtx[c] = "tx" => \A a \in Aggregates : Writing(c, a) =>
    /\ heads[a] = Stored(a)
    /\ VersionsOf(rows[c], a) # {}
    /\ newHeads[c][a] # 0 => newHeads[c][a] \in VersionsOf(rows[c], a)

(* A statement on the *sql.DB that waits for its commit is an INSERT of    *)
(* the running call, or the upsert of the head of what is stored.          *)
StatementAlone(c) == dbtx[c] = "db" =>
    /\ rows[c] # {} => phase[c] \in InAppend /\ call[c].inserted > 0
    /\ \A r \in rows[c] : r.aggregate = call[c].aggregate
    /\ \A a \in Aggregates : newHeads[c][a] # 0 =>
        phase[c] = "open" /\ rows[c] = {} /\ newHeads[c][a] = Stored(a)

(* A call started from a head, and goes on after the last event it holds.  *)
CallFollows(c) ==
    /\ StartedFromHead(c)
    /\ phase[c] \in InAppend /\ call[c].inserted > 0 =>
        call[c].from + call[c].inserted = Held(c, call[c].aggregate)
    /\ phase[c] \notin InAppend \cup Failed => call[c] = NoCall
    /\ phase[c] = "idle" => rows[c] = {} /\ newHeads[c] = NoHeads

CallerInv(c) ==
    /\ RowsFollow(c)
    /\ WritesTheHead(c)
    /\ StatementAlone(c)
    /\ CallFollows(c)

StreamInv ==
    /\ NoGaps
    /\ HeadsBehind
    /\ OneWriterAtATime
    /\ \A c \in Clients : CallerInv(c)

(* As long as all callers are careful, all of EventStore's invariant.      *)
OrderlyInv == orderly => WriterInv /\ \A c \in Clients : dbtx[c] = "tx"

CommandInv ==
    /\ CommandTypeOK
    /\ LogInv
    /\ StreamInv
    /\ OrderlyInv

-----------------------------------------------------------------------------
(* Versions.                                                               *)

(* The last of the versions 1 to n is n.                                   *)
LEMMA VersionIs ==
    ASSUME NEW S, NEW a, NEW n \in Nat, VersionsOf(S, a) = 1..n
    PROVE  Version(S, a) = n
<1> DEFINE V == {0} \cup (1..n)
<1>1. Version(S, a) = CHOOSE x \in V : \A y \in V : x >= y
  BY DEF Version, Max, VersionsOf
<1>2. n \in V /\ \A y \in V : n >= y
  OBVIOUS
<1>3. \A x \in V : (\A y \in V : x >= y) => x = n
  OBVIOUS
<1> QED
  BY <1>1, <1>2, <1>3

(* A set of numbers up to k that has an element has a last one.            *)
LEMMA BoundedHasLast ==
    ASSUME NEW k \in Nat, NEW V \in SUBSET (0..k), V # {}
    PROVE  \E x \in V : \A y \in V : x >= y
<1> DEFINE Bounds == {u \in Nat : \A y \in V : y <= u}
<1>1. Bounds # {} /\ Bounds \subseteq Nat
  <2>1. k \in Bounds
    OBVIOUS
  <2> QED
    BY <2>1
<1>2. PICK u \in Bounds :
          \A m \in Bounds : ~(<<m, u>> \in OpToRel(<, Nat))
  <2> HIDE DEF Bounds
  <2> QED
    BY <1>1, NatLessThanWellFounded, WFMin
<1>3. /\ u \in Nat
      /\ \A y \in V : y \in Nat /\ y <= u
      /\ \A m \in Bounds : ~(m < u)
  <2>1. u \in Nat /\ \A m \in Bounds : m \in Nat
    OBVIOUS
  <2>2. \A y \in V : y \in 0..k /\ y <= u
    OBVIOUS
  <2> HIDE DEF Bounds
  <2>3. \A m \in Bounds : ~(m < u)
    BY <1>2, <2>1 DEF OpToRel
  <2> QED
    BY <2>1, <2>2, <2>3
<1>4. u \in V
  <2> SUFFICES ASSUME u \notin V PROVE FALSE
    OBVIOUS
  <2>1. \A y \in V : y < u
    BY <1>3
  <2>2. PICK y \in V : y \in Nat
    BY <1>3
  <2>3. u - 1 \in Nat /\ u - 1 < u
    BY <1>3, <2>1, <2>2
  <2>4. \A z \in V : z <= u - 1
    BY <1>3, <2>1
  <2> QED
    BY <1>3, <2>3, <2>4
<1> QED
  BY <1>3, <1>4

LEMMA BoundedVersion ==
    ASSUME NEW S, NEW a, NEW k \in Nat, VersionsOf(S, a) \subseteq 0..k
    PROVE  Version(S, a) \in Nat
<1> DEFINE V == {0} \cup VersionsOf(S, a)
<1>1. Version(S, a) = CHOOSE x \in V : \A y \in V : x >= y
  BY DEF Version, Max, VersionsOf
<1>2. V \in SUBSET (0..k) /\ V # {}
  OBVIOUS
<1> HIDE DEF V
<1>3. \E x \in V : \A y \in V : x >= y
  BY <1>2, BoundedHasLast
<1>4. PICK x \in V : \A y \in V : x >= y
  BY <1>3
<1>5. Version(S, a) \in V
  BY <1>1, <1>4
<1>6. Version(S, a) \in 0..k
  BY <1>2, <1>5
<1> QED
  BY <1>6

LEMMA VersionsOfUnion ==
    ASSUME NEW S, NEW R, NEW a
    PROVE  VersionsOf(S \cup R, a) = VersionsOf(S, a) \cup VersionsOf(R, a)
  BY DEF VersionsOf

-----------------------------------------------------------------------------
(* Steps that store nothing and move no head.                              *)

LEMMA StreamFacts ==
    ASSUME TypeOK, StreamInv, NEW c \in Clients, NEW a \in Aggregates
    PROVE  /\ Stored(a) \in Nat /\ Held(c, a) \in Nat /\ Stored(a) <= Held(c, a)
           /\ heads[a] \in Nat /\ newHeads[c][a] \in Nat /\ heads[a] <= Stored(a)
           /\ snapshot[c][a] \in Nat /\ snapshot[c][a] <= heads[a]
           /\ VersionsOf(events, a) = 1..Stored(a)
           /\ VersionsOf(rows[c], a) = (Stored(a) + 1)..Held(c, a)
           /\ VersionsOf(events \cup rows[c], a) = 1..Held(c, a)
<1>1. /\ Stored(a) \in Nat /\ heads[a] <= Stored(a) /\ snapshot[c][a] <= heads[a]
      /\ VersionsOf(events, a) = 1..Stored(a)
  BY DEF StreamInv, NoGaps, HeadsBehind
<1>2. /\ Held(c, a) \in Nat /\ Stored(a) <= Held(c, a)
      /\ VersionsOf(rows[c], a) = (Stored(a) + 1)..Held(c, a)
  BY DEF StreamInv, CallerInv, RowsFollow
<1>3. heads[a] \in Nat /\ newHeads[c][a] \in Nat /\ snapshot[c][a] \in Nat
  BY DEF TypeOK
<1>4. (1..Stored(a)) \cup ((Stored(a) + 1)..Held(c, a)) = 1..Held(c, a)
  BY <1>1, <1>2
<1>5. VersionsOf(events \cup rows[c], a)
         = VersionsOf(events, a) \cup VersionsOf(rows[c], a)
  BY VersionsOfUnion
<1> QED
  BY <1>1, <1>2, <1>3, <1>4, <1>5

(* A client keeps its part while another one steps.                        *)
LEMMA OtherKeeps ==
    ASSUME NEW d \in Clients, CallerInv(d), events' = events, heads' = heads,
           rows'[d] = rows[d], newHeads'[d] = newHeads[d], phase'[d] = phase[d],
           call'[d] = call[d], dbtx'[d] = dbtx[d]
    PROVE  /\ CallerInv(d)'
           /\ \A a \in Aggregates : Writing(d, a)' <=> Writing(d, a)
<1>1. \A a : Stored(a)' = Stored(a) /\ Held(d, a)' = Held(d, a)
  BY DEF Stored, Held
<1>2. \A a : Writing(d, a)' <=> Writing(d, a)
  BY DEF Writing
<1>3. RowsFollow(d)'
  BY <1>1 DEF CallerInv, RowsFollow
<1>4. WritesTheHead(d)'
  BY <1>1, <1>2 DEF CallerInv, WritesTheHead
<1>5. StatementAlone(d)'
  BY <1>1 DEF CallerInv, StatementAlone
<1>6. CallFollows(d)'
  BY <1>1 DEF CallerInv, CallFollows, StartedFromHead
<1> QED
  BY <1>2, <1>3, <1>4, <1>5, <1>6 DEF CallerInv

LEMMA OneClientSteps ==
    ASSUME StreamInv, NEW c \in Clients, Alone(c),
           events' = events, heads' = heads,
           \A d \in Clients \ {c} : dbtx'[d] = dbtx[d],
           \A a \in Aggregates : snapshot'[c][a] <= heads[a],
           \A a \in Aggregates : Writing(c, a)' =>
               Writing(c, a) \/ \A d \in Clients \ {c} : ~Writing(d, a),
           CallerInv(c)'
    PROVE  StreamInv'
<1>1. ASSUME NEW d \in Clients \ {c}
      PROVE  /\ CallerInv(d)'
             /\ \A a \in Aggregates : Writing(d, a)' <=> Writing(d, a)
  BY OtherKeeps DEF Alone, StreamInv
<1>2. NoGaps'
  BY DEF StreamInv, NoGaps, Stored
<1>3. HeadsBehind'
  BY DEF StreamInv, HeadsBehind, Stored, Alone
<1>4. OneWriterAtATime'
  BY <1>1 DEF StreamInv, OneWriterAtATime
<1> QED
  BY <1>1, <1>2, <1>3, <1>4 DEF StreamInv

(* A step that writes nothing, of a client with nothing to publish.        *)
LEMMA QuietCaller ==
    ASSUME TypeOK, StreamInv, NEW c \in Clients, Alone(c), ~Unpublished(c),
           events' = events, heads' = heads, rows' = rows, newHeads' = newHeads,
           \A d \in Clients \ {c} : dbtx'[d] = dbtx[d],
           dbtx[c] \in {"tx", "db"},
           dbtx'[c] = dbtx[c] \/ phase[c] = "idle",
           \A a \in Aggregates : snapshot'[c][a] <= heads[a],
           phase'[c] \in InAppend /\ call'[c].inserted > 0 =>
               /\ phase[c] \in InAppend
               /\ call'[c].aggregate = call[c].aggregate
               /\ call'[c].inserted = call[c].inserted
               /\ call'[c].from = call[c].from,
           StartedFromHead(c)',
           phase'[c] \notin InAppend \cup Failed => call'[c] = NoCall,
           phase'[c] # "idle"
    PROVE  StreamInv'
<1>1. CallerInv(c)
  BY DEF StreamInv
<1>2. \A a : Stored(a)' = Stored(a) /\ Held(c, a)' = Held(c, a)
  BY DEF Stored, Held
<1>3. \A a : Writing(c, a)' => Writing(c, a)
  BY DEF Writing
<1>4. dbtx[c] = "db" \/ phase[c] = "idle" => rows[c] = {} /\ newHeads[c] = NoHeads
  BY <1>1 DEF Unpublished, CallerInv, CallFollows
<1>5. RowsFollow(c)'
  BY <1>1, <1>2 DEF CallerInv, RowsFollow
<1>6. WritesTheHead(c)'
  <2>1. CASE dbtx[c] = "tx" /\ dbtx'[c] = dbtx[c]
    BY <1>1, <1>2, <1>3, <2>1 DEF CallerInv, WritesTheHead
  <2>2. CASE phase[c] = "idle"
    <3>1. \A a \in Aggregates : ~Writing(c, a)
      BY <1>4, <2>2 DEF Writing, VersionsOf, NoHeads, InAppend
    <3> QED
      BY <1>3, <3>1 DEF WritesTheHead
  <2>3. CASE dbtx[c] = "db" /\ dbtx'[c] = dbtx[c]
    BY <2>3 DEF WritesTheHead
  <2> QED
    BY <2>1, <2>2, <2>3
<1>7. StatementAlone(c)'
  BY <1>4 DEF StatementAlone, NoHeads
<1>8. CallFollows(c)'
  BY <1>1, <1>2 DEF CallerInv, CallFollows
<1>9. CallerInv(c)'
  BY <1>5, <1>6, <1>7, <1>8 DEF CallerInv
<1> QED
  BY <1>3, <1>9, OneClientSteps

-----------------------------------------------------------------------------
(* The steps of a caller outside of Append, and Append's quiet ones.       *)

LEMMA UnpublishedFacts ==
    ASSUME CommandTypeOK, NEW c \in Clients
    PROVE  /\ TypeOK
           /\ dbtx[c] \in {"tx", "db"}
           /\ ~Unpublished(c) /\ dbtx[c] = "db" =>
                rows[c] = {} /\ \A a \in Aggregates : newHeads[c][a] = 0
  BY CallersAssumption DEF CommandTypeOK, Unpublished, NoHeads

LEMMA StreamStartCommand ==
    ASSUME CommandTypeOK, StreamInv, NEW c \in Clients, ~Unpublished(c),
           NEW target \in DBTXs, StartCommand(c, target)
    PROVE  StreamInv'
<1>1. /\ Alone(c) /\ events' = events /\ heads' = heads
      /\ rows' = rows /\ newHeads' = newHeads /\ call' = call
      /\ phase[c] = "idle" /\ phase'[c] = "begun" /\ snapshot' = snapshot
      /\ \A d \in Clients \ {c} : dbtx'[d] = dbtx[d]
  BY DEF StartCommand, Begin, CommandTypeOK, TypeOK, Alone, database
<1>2. call'[c] = NoCall
  BY <1>1 DEF StreamInv, CallerInv, CallFollows, InAppend, Failed
<1>3. StartedFromHead(c)'
  BY <1>1 DEF StartedFromHead
<1>4. \A a \in Aggregates : snapshot'[c][a] <= heads[a]
  BY <1>1 DEF StreamInv, HeadsBehind
<1> QED
  BY <1>1, <1>2, <1>3, <1>4, UnpublishedFacts, QuietCaller DEF InAppend

(* A read keeps the heads of its snapshot, which are the committed ones.   *)
LEMMA SnapshotIsBehind ==
    ASSUME TypeOK, StreamInv, NEW c \in Clients, TakeSnapshot(c)
    PROVE  \A a \in Aggregates : snapshot'[c][a] <= heads[a]
<1> SUFFICES ASSUME NEW a \in Aggregates PROVE snapshot'[c][a] <= heads[a]
  OBVIOUS
<1>1. snapshot[c][a] <= heads[a] /\ heads[a] <= heads[a]
  BY DEF StreamInv, HeadsBehind, TypeOK
<1>2. snapshot'[c] = snapshot[c] \/ snapshot'[c] = heads
  BY DEF TakeSnapshot, TypeOK
<1> QED
  BY <1>1, <1>2

LEMMA StreamLoad ==
    ASSUME CommandTypeOK, StreamInv, NEW c \in Clients, ~Unpublished(c),
           NEW a, NEW from, NEW to, LoadStream(c, a, from, to)
    PROVE  StreamInv'
<1>1. /\ Alone(c) /\ events' = events /\ heads' = heads
      /\ rows' = rows /\ newHeads' = newHeads /\ call' = call
      /\ phase[c] \in {"begun", "open"} /\ phase'[c] \in {"begun", "open"}
      /\ TakeSnapshot(c) /\ dbtx' = dbtx
  BY DEF LoadStream, CommandTypeOK, TypeOK, Alone, TakeSnapshot, database
<1>2. call'[c] = NoCall
  BY <1>1 DEF StreamInv, CallerInv, CallFollows, InAppend, Failed
<1>3. StartedFromHead(c)'
  BY <1>1 DEF StartedFromHead
<1> QED
  BY <1>1, <1>2, <1>3, UnpublishedFacts, SnapshotIsBehind, QuietCaller DEF InAppend

LEMMA StreamAppend ==
    ASSUME CommandTypeOK, StreamInv, NEW c \in Clients, ~Unpublished(c),
           NEW a \in Aggregates, NEW expected, NEW ids, AppendCommand(c, a, expected, ids)
    PROVE  StreamInv'
<1>1. /\ Alone(c) /\ events' = events /\ heads' = heads
      /\ rows' = rows /\ newHeads' = newHeads /\ phase'[c] = "inserting"
      /\ TakeSnapshot(c) /\ dbtx' = dbtx
  BY DEF AppendCommand, AppendStarts, CommandTypeOK, TypeOK, Alone, TakeSnapshot,
     database
<1>2. /\ call'[c].aggregate = a /\ call'[c].inserted = 0
      /\ call'[c].from = VisibleHead(c, a)
  BY DEF AppendCommand, AppendStarts, CommandTypeOK, TypeOK
<1>3. StartedFromHead(c)'
  <2>1. /\ heads[a] \in Nat /\ snapshot[c][a] <= heads[a]
    BY UnpublishedFacts, StreamFacts
  <2> QED
    BY <1>1, <1>2, <2>1 DEF StartedFromHead, VisibleHead
<1> QED
  BY <1>1, <1>2, <1>3, UnpublishedFacts, SnapshotIsBehind, QuietCaller DEF InAppend

LEMMA StreamRefuse ==
    ASSUME CommandTypeOK, StreamInv, NEW c \in Clients, ~Unpublished(c),
           NEW a \in Aggregates, NEW expected, RefuseCommand(c, a, expected)
    PROVE  StreamInv'
<1>1. /\ Alone(c) /\ events' = events /\ heads' = heads
      /\ rows' = rows /\ newHeads' = newHeads /\ call' = call
      /\ phase[c] \in {"begun", "open"} /\ phase'[c] = "open"
      /\ TakeSnapshot(c) /\ dbtx' = dbtx
  BY DEF RefuseCommand, AppendRefused, CommandTypeOK, TypeOK, Alone, TakeSnapshot,
     database
<1>2. call'[c] = NoCall
  BY <1>1 DEF StreamInv, CallerInv, CallFollows, InAppend, Failed
<1>3. StartedFromHead(c)'
  BY <1>1 DEF StartedFromHead
<1> QED
  BY <1>1, <1>2, <1>3, UnpublishedFacts, SnapshotIsBehind, QuietCaller DEF InAppend

LEMMA StreamInsertStarts ==
    ASSUME CommandTypeOK, StreamInv, NEW c \in Clients, ~Unpublished(c),
           InsertStarts(c)
    PROVE  StreamInv'
<1>1. TakePosition(c) /\ dbtx' = dbtx
  BY DEF InsertStarts, AssignPosition, callers
<1>2. /\ Alone(c) /\ events' = events /\ heads' = heads
      /\ rows' = rows /\ newHeads' = newHeads /\ snapshot' = snapshot
      /\ phase[c] = "inserting" /\ phase'[c] = "positioned"
      /\ call' = [call EXCEPT ![c].position = FreshPosition(c)]
  BY <1>1 DEF TakePosition, CommandTypeOK, TypeOK, Alone, database
<1>3. call[c] \in Calls /\ TypeOK
  BY <1>2 DEF CommandTypeOK, TypeOK, CallFitsPhase, InAppend
<1>4. /\ call'[c].aggregate = call[c].aggregate
      /\ call'[c].inserted = call[c].inserted
      /\ call'[c].from = call[c].from
  BY <1>2, <1>3 DEF TypeOK, Calls
<1>5. StartedFromHead(c)'
  BY <1>2, <1>4 DEF StreamInv, CallerInv, CallFollows, StartedFromHead
<1>6. \A a \in Aggregates : snapshot'[c][a] <= heads[a]
  BY <1>2 DEF StreamInv, HeadsBehind
<1> QED
  BY <1>1, <1>2, <1>4, <1>5, <1>6, UnpublishedFacts, QuietCaller DEF InAppend

LEMMA StreamInsertFails ==
    ASSUME CommandTypeOK, StreamInv, NEW c \in Clients, ~Unpublished(c),
           InsertIsRefused(c)
    PROVE  StreamInv'
<1>1. /\ Alone(c) /\ events' = events /\ heads' = heads
      /\ rows' = rows /\ newHeads' = newHeads /\ snapshot' = snapshot
      /\ phase'[c] \in Failed /\ dbtx' = dbtx
  BY DEF InsertIsRefused, InsertFails, CommandTypeOK, TypeOK, Alone, database,
     callers, Failed
<1>2. StartedFromHead(c)'
  BY <1>1 DEF StartedFromHead, Failed
<1>3. \A a \in Aggregates : snapshot'[c][a] <= heads[a]
  BY <1>1 DEF StreamInv, HeadsBehind
<1> QED
  BY <1>1, <1>2, <1>3, UnpublishedFacts, QuietCaller DEF InAppend, Failed

LEMMA StreamGoOn ==
    ASSUME CommandTypeOK, StreamInv, NEW c \in Clients, ~Unpublished(c), GoOn(c)
    PROVE  StreamInv'
<1>1. /\ Alone(c) /\ events' = events /\ heads' = heads
      /\ rows' = rows /\ newHeads' = newHeads /\ snapshot' = snapshot
      /\ phase'[c] = "open" /\ call'[c] = NoCall /\ dbtx' = dbtx
  BY DEF GoOn, CommandTypeOK, TypeOK, Alone, database
<1>2. StartedFromHead(c)'
  BY <1>1 DEF StartedFromHead
<1>3. \A a \in Aggregates : snapshot'[c][a] <= heads[a]
  BY <1>1 DEF StreamInv, HeadsBehind
<1> QED
  BY <1>1, <1>2, <1>3, UnpublishedFacts, QuietCaller DEF InAppend

-----------------------------------------------------------------------------
(* The steps that write.                                                   *)

(* A row is inserted right after the last event its client holds: the key  *)
(* on the version refuses every other one.  Who begins to write finds the  *)
(* head of the aggregate up to date, and nobody else in the middle of      *)
(* writing it.                                                             *)
LEMMA InsertFollows ==
    ASSUME CommandTypeOK, StreamInv, LogInv, NEW c \in Clients, InsertRow(c),
           \A d \in Clients : ~Unpublished(d)
    PROVE  LET a == call[c].aggregate IN
           /\ call[c].from + call[c].inserted = Held(c, a)
           /\ call[c].inserted = 0 => call[c].from = Current(c, a)
           /\ Writing(c, a) \/ \A d \in Clients \ {c} : ~Writing(d, a)
           /\ heads[a] = Stored(a) \/ Writing(c, a)
<1> DEFINE a == call[c].aggregate
           from == call[c].from
           v == NewRow(c).version
<1>1. /\ TypeOK /\ call[c] \in Calls /\ phase[c] = "positioned"
      /\ NewRow(c).aggregate = a
      /\ v = from + call[c].inserted + 1
  BY NewRowFacts, UnpublishedFacts DEF InsertRow
<1>2. /\ a \in Aggregates /\ from \in Nat /\ call[c].inserted \in Nat
  BY <1>1, BoundsAssumption DEF Calls
<1>3. /\ Stored(a) \in Nat /\ Held(c, a) \in Nat /\ Stored(a) <= Held(c, a)
      /\ heads[a] \in Nat /\ newHeads[c][a] \in Nat /\ heads[a] <= Stored(a)
      /\ VersionsOf(rows[c], a) = (Stored(a) + 1)..Held(c, a)
      /\ VersionsOf(events \cup rows[c], a) = 1..Held(c, a)
  BY <1>1, <1>2, StreamFacts
<1>4. CallFollows(c) /\ WritesTheHead(c) /\ StatementAlone(c)
  BY DEF StreamInv, CallerInv
<1>5. CASE call[c].inserted > 0
  <2>1. Writing(c, a)
    BY <1>1, <1>5 DEF Writing, InAppend
  <2> QED
    BY <1>1, <1>2, <1>4, <1>5, <2>1 DEF CallFollows, InAppend
<1>6. CASE call[c].inserted = 0
  <2>1. v \notin 1..Held(c, a)
    <3> SUFFICES ASSUME v \in VersionsOf(events \cup rows[c], a) PROVE FALSE
      BY <1>3
    <3>1. PICK r \in events \cup rows[c] : r.aggregate = a /\ r.version = v
      BY DEF VersionsOf
    <3> QED
      BY <1>1, <3>1 DEF InsertRow, Duplicate, SameKey
  <2>2. v = from + 1 /\ Held(c, a) <= from
    BY <1>1, <1>2, <1>3, <1>6, <2>1
  <2>3. CASE newHeads[c][a] # 0
    <3>1. Writing(c, a)
      BY <2>3 DEF Writing
    <3>2. from = newHeads[c][a]
      BY <1>1, <1>4, <1>6, <2>3 DEF CallFollows, StartedFromHead
    <3>3. dbtx[c] = "tx"
      BY <1>2, <2>3, UnpublishedFacts
    <3>4. newHeads[c][a] \in (Stored(a) + 1)..Held(c, a)
      BY <1>2, <1>3, <1>4, <2>3, <3>1, <3>3 DEF WritesTheHead
    <3>5. from = Held(c, a)
      BY <1>3, <2>2, <3>2, <3>4
    <3> QED
      BY <1>2, <1>6, <2>3, <3>1, <3>2, <3>5 DEF Current
  <2>4. CASE newHeads[c][a] = 0
    <3>1. from <= heads[a]
      BY <1>1, <1>4, <1>6, <2>4 DEF CallFollows, StartedFromHead
    <3>2. from = heads[a] /\ from = Stored(a) /\ from = Held(c, a)
      BY <1>2, <1>3, <2>2, <3>1
    <3>3. ASSUME NEW d \in Clients \ {c}, Writing(d, a) PROVE FALSE
      <4>1. CallFollows(d) /\ WritesTheHead(d)
        BY DEF StreamInv, CallerInv
      <4>2. /\ Held(d, a) \in Nat /\ Stored(a) <= Held(d, a)
            /\ VersionsOf(rows[d], a) = (Stored(a) + 1)..Held(d, a)
        BY <1>1, <1>2, StreamFacts
      <4>3. CASE dbtx[d] = "tx"
        <5>1. VersionsOf(rows[d], a) # {}
          BY <1>2, <3>3, <4>1, <4>3 DEF WritesTheHead
        <5>2. v \in VersionsOf(rows[d], a)
          <6>1. Stored(a) < Held(d, a)
            BY <1>3, <4>2, <5>1
          <6>2. v = Stored(a) + 1
            BY <2>2, <3>2
          <6> QED
            BY <1>3, <4>2, <6>1, <6>2
        <5>3. PICK r \in rows[d] : r.aggregate = a /\ r.version = v
          BY <5>2 DEF VersionsOf
        <5>4. SameKey(r, NewRow(c))
          BY <1>1, <5>3 DEF SameKey
        <5> QED
          BY <5>4 DEF InsertRow, InsertWaitsFor
      <4>4. CASE dbtx[d] = "db"
        <5>1. rows[d] = {} /\ newHeads[d][a] = 0
          BY <1>2, <4>4, UnpublishedFacts
        <5>2. /\ phase[d] \in InAppend /\ call[d].aggregate = a
              /\ call[d].inserted > 0
          BY <3>3, <5>1 DEF Writing, VersionsOf
        <5>3. call[d].from = heads[a]
          BY <5>1, <5>2 DEF LogInv, CallContinues, Current
        <5>4. call[d].from + call[d].inserted = Held(d, a)
          BY <4>1, <5>2 DEF CallFollows, Held
        <5>5. Held(d, a) = Stored(a)
          BY <5>1 DEF Held, Stored
        <5>6. call[d].inserted \in Nat
          BY <1>1, <5>2, BoundsAssumption DEF TypeOK, CallFitsPhase, Calls
        <5>7. heads[a] = Stored(a)
          BY <3>2
        <5>8. call[d].from + call[d].inserted = call[d].from
          BY <5>3, <5>4, <5>5, <5>7
        <5>9. call[d].from \in Nat
          BY <1>3, <5>3
        <5> HIDE DEF a, v, from
        <5> QED
          BY <5>2, <5>6, <5>8, <5>9
      <4> QED
        BY <4>3, <4>4, UnpublishedFacts
    <3> QED
      BY <1>2, <1>6, <2>4, <3>2, <3>3 DEF Current
  <2> QED
    BY <2>3, <2>4
<1> QED
  BY <1>2, <1>5, <1>6

LEMMA StreamInsertRow ==
    ASSUME CommandTypeOK, StreamInv, LogInv, NEW c \in Clients, InsertSucceeds(c),
           \A d \in Clients : ~Unpublished(d)
    PROVE  StreamInv'
<1> DEFINE a == call[c].aggregate
           n == Held(c, a) + 1
<1>1. /\ TypeOK /\ InsertRow(c) /\ dbtx' = dbtx /\ dbtx[c] \in {"tx", "db"}
      /\ call[c] \in Calls
      /\ NewRow(c).aggregate = a
      /\ NewRow(c).version = call[c].from + call[c].inserted + 1
      /\ call[c].inserted + 1 \in 0..MaxBatch
      /\ phase[c] = "positioned"
  <2>1. TypeOK /\ InsertRow(c) /\ dbtx' = dbtx
    BY UnpublishedFacts DEF InsertSucceeds, callers
  <2>2. /\ call[c] \in Calls
        /\ NewRow(c).aggregate = a
        /\ NewRow(c).version = call[c].from + call[c].inserted + 1
        /\ call[c].inserted < Len(call[c].ids)
        /\ Len(call[c].ids) \in 1..MaxBatch
    BY <2>1, NewRowFacts DEF InsertRow
  <2> QED
    BY <2>1, <2>2, UnpublishedFacts, BoundsAssumption DEF Calls, InsertRow
<1>2. /\ Alone(c) /\ events' = events /\ heads' = heads
      /\ newHeads' = newHeads /\ snapshot' = snapshot
      /\ rows'[c] = rows[c] \cup {NewRow(c)}
      /\ call'[c] = [call[c] EXCEPT !.inserted = @ + 1, !.position = 0]
      /\ phase'[c] \in {"inserting", "upserting"}
  BY <1>1 DEF TypeOK, InsertRow, Alone, database
<1>3. /\ call'[c].inserted = call[c].inserted + 1
      /\ call'[c].aggregate = a
      /\ call'[c].from = call[c].from
  BY <1>1, <1>2, CallAfterInsert
<1>4. /\ a \in Aggregates /\ call[c].from \in Nat /\ call[c].inserted \in Nat
  BY <1>1, BoundsAssumption DEF Calls
<1>5. /\ call[c].from + call[c].inserted = Held(c, a)
      /\ Writing(c, a) \/ \A d \in Clients \ {c} : ~Writing(d, a)
      /\ heads[a] = Stored(a) \/ Writing(c, a)
  BY <1>1, InsertFollows
<1>6. /\ Stored(a) \in Nat /\ Held(c, a) \in Nat /\ Stored(a) <= Held(c, a)
      /\ VersionsOf(rows[c], a) = (Stored(a) + 1)..Held(c, a)
      /\ VersionsOf(events \cup rows[c], a) = 1..Held(c, a)
  BY <1>1, <1>4, StreamFacts
<1>7. NewRow(c).version = n
  BY <1>1, <1>4, <1>5, <1>6
<1>8. /\ VersionsOf(rows'[c], a) = (Stored(a) + 1)..n
      /\ VersionsOf(events \cup rows'[c], a) = 1..n
  <2>1. /\ VersionsOf(rows'[c], a) = VersionsOf(rows[c], a) \cup {n}
        /\ VersionsOf(events \cup rows'[c], a)
              = VersionsOf(events \cup rows[c], a) \cup {n}
    BY <1>1, <1>2, <1>7 DEF VersionsOf
  <2>2. /\ ((Stored(a) + 1)..Held(c, a)) \cup {n} = (Stored(a) + 1)..n
        /\ (1..Held(c, a)) \cup {n} = 1..n
    BY <1>6
  <2> QED
    BY <1>6, <2>1, <2>2
<1>9. \A b : b = a => Held(c, b)' = n
  <2>1. Version(events \cup rows'[c], a) = n
    BY <1>6, <1>8, VersionIs
  <2> QED
    BY <1>2, <2>1 DEF Held
<1>10. ASSUME NEW b \in Aggregates, b # a
       PROVE  /\ VersionsOf(rows'[c], b) = VersionsOf(rows[c], b)
              /\ Held(c, b)' = Held(c, b)
              /\ Writing(c, b)' => Writing(c, b)
  <2>1. /\ VersionsOf(rows'[c], b) = VersionsOf(rows[c], b)
        /\ VersionsOf(events \cup rows'[c], b) = VersionsOf(events \cup rows[c], b)
    BY <1>1, <1>2, <1>10 DEF VersionsOf
  <2>2. Held(c, b)' = Held(c, b)
    BY <1>2, <2>1 DEF Held, Version, VersionsOf
  <2> QED
    BY <1>2, <1>3, <1>10, <2>1, <2>2 DEF Writing
<1>11. \A b : Stored(b)' = Stored(b)
  BY <1>2 DEF Stored
<1> HIDE DEF n
<1>12. RowsFollow(c)'
  <2> SUFFICES ASSUME NEW b \in Aggregates
               PROVE  /\ Held(c, b)' \in Nat
                      /\ Stored(b) <= Held(c, b)'
                      /\ VersionsOf(rows'[c], b) = (Stored(b) + 1)..(Held(c, b)')
    BY <1>11 DEF RowsFollow
  <2>1. CASE b = a
    <3>1. Held(c, b)' = n
      BY <1>9, <2>1
    <3> QED
      BY <1>6, <1>8, <2>1, <3>1 DEF n
  <2>2. CASE b # a
    BY <1>10, <2>2 DEF StreamInv, CallerInv, RowsFollow
  <2> QED
    BY <2>1, <2>2
<1>13. WritesTheHead(c)'
  <2> SUFFICES ASSUME dbtx[c] = "tx", NEW b \in Aggregates, Writing(c, b)'
               PROVE  /\ heads[b] = Stored(b)
                      /\ VersionsOf(rows'[c], b) # {}
                      /\ newHeads[c][b] # 0 => newHeads[c][b] \in VersionsOf(rows'[c], b)
    BY <1>1, <1>2, <1>11 DEF WritesTheHead
  <2>1. CASE b = a
    <3>1. heads[a] = Stored(a)
      BY <1>4, <1>5 DEF StreamInv, CallerInv, WritesTheHead
    <3>2. n \in VersionsOf(rows'[c], a)
      BY <1>6, <1>8 DEF n
    <3>3. newHeads[c][a] # 0 => newHeads[c][a] \in VersionsOf(rows[c], a)
      BY <1>4 DEF StreamInv, CallerInv, WritesTheHead, Writing
    <3>4. VersionsOf(rows[c], a) \subseteq VersionsOf(rows'[c], a)
      BY <1>2 DEF VersionsOf
    <3> QED
      BY <2>1, <3>1, <3>2, <3>3, <3>4
  <2>2. CASE b # a
    BY <1>10, <2>2 DEF StreamInv, CallerInv, WritesTheHead
  <2> QED
    BY <2>1, <2>2
<1>14. StatementAlone(c)'
  <2> SUFFICES ASSUME dbtx[c] = "db" PROVE StatementAlone(c)'
    BY <1>1 DEF StatementAlone
  <2>1. rows[c] = {} /\ \A b \in Aggregates : newHeads[c][b] = 0
    BY UnpublishedFacts
  <2> QED
    BY <1>1, <1>2, <1>3, <1>4, <2>1 DEF StatementAlone, InAppend
<1>15. CallFollows(c)'
  <2>1. StartedFromHead(c)'
    BY <1>3, <1>4 DEF StartedFromHead
  <2>2. call'[c].from + call'[c].inserted = n
    BY <1>3, <1>4, <1>5, <1>6 DEF n
  <2>3. Held(c, call[c].aggregate)' = n
    BY <1>2, <1>3, <1>9 DEF Held
  <2> QED
    BY <1>2, <2>1, <2>2, <2>3 DEF CallFollows, InAppend, Failed
<1>16. \A b \in Aggregates : snapshot'[c][b] <= heads[b]
  BY <1>2 DEF StreamInv, HeadsBehind
<1> QED
  BY <1>1, <1>2, <1>5, <1>10, <1>12, <1>13, <1>14, <1>15, <1>16, OneClientSteps
     DEF CallerInv

LEMMA StreamUpsert ==
    ASSUME CommandTypeOK, StreamInv, NEW c \in Clients, UpsertSucceeds(c),
           ~Unpublished(c)
    PROVE  StreamInv'
<1> DEFINE a == call[c].aggregate
           latest == call[c].from + Len(call[c].ids)
<1>1. /\ TypeOK /\ UpsertHead(c) /\ dbtx' = dbtx /\ dbtx[c] \in {"tx", "db"}
      /\ phase[c] = "upserting"
  BY UnpublishedFacts DEF UpsertSucceeds, UpsertHead, callers
<1>2. /\ Alone(c) /\ events' = events /\ heads' = heads
      /\ rows' = rows /\ snapshot' = snapshot
      /\ newHeads'[c] = [newHeads[c] EXCEPT ![a] = latest]
      /\ phase'[c] = "open" /\ call'[c] = NoCall
  BY <1>1 DEF TypeOK, UpsertHead, LatestVersion, Alone, database
<1>3. /\ call[c] \in Calls
      /\ call[c].inserted = Len(call[c].ids)
      /\ Len(call[c].ids) \in 1..MaxBatch
  BY <1>1, BatchFacts DEF TypeOK, CallFitsPhase, InAppend, Calls
<1>4. a \in Aggregates /\ call[c].inserted \in Nat /\ call[c].inserted > 0
  BY <1>3, BoundsAssumption DEF Calls
<1>5. Writing(c, a) /\ latest = Held(c, a)
  BY <1>1, <1>3, <1>4 DEF Writing, InAppend, StreamInv, CallerInv, CallFollows
<1> HIDE DEF latest
<1>6. /\ Stored(a) \in Nat /\ Held(c, a) \in Nat /\ Stored(a) <= Held(c, a)
      /\ VersionsOf(rows[c], a) = (Stored(a) + 1)..Held(c, a)
  BY <1>1, <1>4, StreamFacts
<1>7. \A b : Stored(b)' = Stored(b)
  BY <1>2 DEF Stored
<1>8. \A b : Version(events' \cup rows'[c], b) = Held(c, b)
  BY <1>2 DEF Held
<1>9. \A b \in Aggregates : newHeads'[c][b] = IF b = a THEN latest ELSE newHeads[c][b]
  BY <1>1, <1>2 DEF TypeOK
<1>10. ASSUME NEW b \in Aggregates, Writing(c, b)' PROVE Writing(c, b)
  BY <1>2, <1>5, <1>9, <1>10 DEF Writing, InAppend
<1>11. RowsFollow(c)'
  BY <1>2, <1>7, <1>8 DEF StreamInv, CallerInv, RowsFollow, Held
<1>12. WritesTheHead(c)'
  <2> SUFFICES ASSUME dbtx[c] = "tx", NEW b \in Aggregates, Writing(c, b)'
               PROVE  /\ heads[b] = Stored(b)
                      /\ VersionsOf(rows[c], b) # {}
                      /\ newHeads'[c][b] # 0 => newHeads'[c][b] \in VersionsOf(rows[c], b)
    BY <1>1, <1>2, <1>7 DEF WritesTheHead
  <2>1. /\ heads[b] = Stored(b)
        /\ VersionsOf(rows[c], b) # {}
        /\ newHeads[c][b] # 0 => newHeads[c][b] \in VersionsOf(rows[c], b)
    BY <1>10 DEF StreamInv, CallerInv, WritesTheHead
  <2>2. CASE b = a
    <3>1. Stored(a) < Held(c, a)
      BY <1>6, <2>1, <2>2
    <3>2. Held(c, a) \in VersionsOf(rows[c], a)
      BY <1>6, <3>1
    <3> QED
      BY <1>5, <1>9, <2>1, <2>2, <3>2
  <2>3. CASE b # a
    BY <1>9, <2>1, <2>3
  <2> QED
    BY <2>2, <2>3
<1>13. StatementAlone(c)'
  <2> SUFFICES ASSUME dbtx[c] = "db" PROVE StatementAlone(c)'
    BY <1>1 DEF StatementAlone
  <2>1. rows[c] = {} /\ \A b \in Aggregates : newHeads[c][b] = 0
    BY UnpublishedFacts
  <2>2. Held(c, a) = Stored(a)
    BY <2>1 DEF Held, Stored
  <2>3. \A b \in Aggregates : newHeads'[c][b] # 0 => newHeads'[c][b] = Stored(b)
    BY <1>5, <1>9, <2>1, <2>2
  <2> QED
    BY <1>2, <1>7, <2>1, <2>3 DEF StatementAlone
<1>14. CallFollows(c)'
  BY <1>2 DEF CallFollows, StartedFromHead, InAppend, Failed
<1>15. \A b \in Aggregates : snapshot'[c][b] <= heads[b]
  BY <1>2 DEF StreamInv, HeadsBehind
<1> QED
  BY <1>1, <1>2, <1>10, <1>11, <1>12, <1>13, <1>14, <1>15, OneClientSteps
     DEF CallerInv

-----------------------------------------------------------------------------
(* The end of a transaction, and what a commit stores.                     *)

(* A client that has written nothing, or has committed what it wrote.      *)
LEMMA NothingHeld ==
    ASSUME NoGaps', NEW c \in Clients, rows'[c] = {}, newHeads'[c] = NoHeads
    PROVE  /\ RowsFollow(c)' /\ StatementAlone(c)'
           /\ \A a \in Aggregates : Writing(c, a)' =>
                /\ phase'[c] \in InAppend /\ call'[c].aggregate = a
                /\ call'[c].inserted > 0
<1>1. ASSUME NEW a \in Aggregates
      PROVE  /\ Held(c, a)' = Stored(a)' /\ Stored(a)' \in Nat
             /\ VersionsOf(rows'[c], a) = {}
             /\ (Stored(a)' + 1)..(Stored(a)') = {}
  <2>1. Held(c, a)' = Stored(a)'
    BY DEF Held, Stored
  <2>2. Stored(a)' \in Nat
    BY DEF NoGaps
  <2>3. VersionsOf(rows'[c], a) = {}
    BY DEF VersionsOf
  <2>4. \A n \in Nat : (n + 1)..n = {}
    OBVIOUS
  <2> QED
    BY <2>1, <2>2, <2>3, <2>4
<1>2. RowsFollow(c)'
  <2> SUFFICES ASSUME NEW a \in Aggregates
               PROVE  /\ Held(c, a)' \in Nat
                      /\ Stored(a)' <= Held(c, a)'
                      /\ VersionsOf(rows'[c], a) = (Stored(a)' + 1)..(Held(c, a)')
    BY DEF RowsFollow
  <2>1. Held(c, a)' = Stored(a)' /\ Stored(a)' \in Nat
    BY <1>1
  <2>2. Stored(a)' <= Held(c, a)'
    BY <2>1
  <2>3. (Stored(a)' + 1)..(Held(c, a)') = {}
    BY <2>1
  <2> QED
    BY <1>1, <2>1, <2>2, <2>3
<1>3. StatementAlone(c)'
  BY DEF StatementAlone, NoHeads
<1>4. \A a \in Aggregates : newHeads'[c][a] = 0
  BY DEF NoHeads
<1> QED
  BY <1>1, <1>2, <1>3, <1>4 DEF Writing

LEMMA EndedCaller ==
    ASSUME TypeOK, NEW c \in Clients, EndTransaction(c), NoGaps'
    PROVE  /\ CallerInv(c)' /\ Alone(c)
           /\ \A a \in Aggregates : ~Writing(c, a)' /\ snapshot'[c][a] = 0
<1>1. /\ rows'[c] = {} /\ newHeads'[c] = NoHeads /\ call'[c] = NoCall
      /\ phase'[c] = "idle" /\ snapshot'[c] = NoHeads /\ Alone(c)
  BY DEF TypeOK, EndTransaction, Alone
<1>2. /\ RowsFollow(c)' /\ StatementAlone(c)'
      /\ \A a \in Aggregates : ~Writing(c, a)'
  BY <1>1, NothingHeld DEF InAppend
<1>3. WritesTheHead(c)' /\ CallFollows(c)'
  BY <1>1, <1>2 DEF WritesTheHead, CallFollows, StartedFromHead, InAppend
<1> QED
  BY <1>1, <1>2, <1>3 DEF CallerInv, NoHeads

LEMMA StreamRollback ==
    ASSUME TypeOK, StreamInv, NEW c \in Clients, Rollback(c),
           \A d \in Clients \ {c} : dbtx'[d] = dbtx[d]
    PROVE  StreamInv'
<1>1. events' = events /\ heads' = heads /\ EndTransaction(c)
  BY DEF Rollback, database
<1>2. NoGaps'
  BY <1>1 DEF StreamInv, NoGaps, Stored
<1>3. /\ CallerInv(c)' /\ Alone(c)
      /\ \A a \in Aggregates : ~Writing(c, a)' /\ snapshot'[c][a] = 0
  BY <1>1, <1>2, EndedCaller
<1>4. \A a \in Aggregates : 0 <= heads[a]
  BY DEF TypeOK
<1> QED
  BY <1>1, <1>3, <1>4, OneClientSteps

(* What is published makes stored what the client held; the heads it moves *)
(* are those it has upserted, and they do not run ahead.                   *)
LEMMA PublishFacts ==
    ASSUME CommandTypeOK, StreamInv, LogInv, NEW c \in Clients, Publish(c),
           NEW a \in Aggregates
    PROVE  /\ Stored(a)' = Held(c, a)
           /\ VersionsOf(events', a) = 1..Held(c, a)
           /\ heads'[a] \in Nat /\ heads'[a] >= heads[a] /\ heads'[a] <= Held(c, a)
           /\ ~Writing(c, a) => /\ heads'[a] = heads[a] /\ Held(c, a) = Stored(a)
                                /\ VersionsOf(events', a) = VersionsOf(events, a)
<1>1. /\ TypeOK /\ events' = events \cup rows[c]
      /\ heads'[a] = IF newHeads[c][a] # 0 THEN newHeads[c][a] ELSE heads[a]
  BY UnpublishedFacts DEF Publish
<1>2. /\ Stored(a) \in Nat /\ Held(c, a) \in Nat /\ Stored(a) <= Held(c, a)
      /\ heads[a] \in Nat /\ newHeads[c][a] \in Nat /\ heads[a] <= Stored(a)
      /\ VersionsOf(events, a) = 1..Stored(a)
      /\ VersionsOf(rows[c], a) = (Stored(a) + 1)..Held(c, a)
      /\ VersionsOf(events \cup rows[c], a) = 1..Held(c, a)
  BY <1>1, StreamFacts
<1>3. Stored(a)' = Held(c, a)
  BY <1>1 DEF Stored, Held
<1>4. /\ heads'[a] >= heads[a] /\ heads'[a] <= Held(c, a)
  <2>1. CASE newHeads[c][a] # 0
    <3>1. newHeads[c][a] > heads[a]
      BY <1>1, <2>1, NewHeadsAreAbove
    <3>2. Writing(c, a)
      BY <2>1 DEF Writing
    <3>3. CASE dbtx[c] = "tx"
      <4>1. newHeads[c][a] \in (Stored(a) + 1)..Held(c, a)
        BY <1>2, <2>1, <3>2, <3>3 DEF StreamInv, CallerInv, WritesTheHead
      <4> QED
        BY <1>1, <1>2, <3>1, <4>1
    <3>4. CASE dbtx[c] = "db"
      <4>1. newHeads[c][a] = Stored(a)
        BY <2>1, <3>4 DEF StreamInv, CallerInv, StatementAlone
      <4> QED
        BY <1>1, <1>2, <3>1, <4>1
    <3> QED
      BY <3>3, <3>4, UnpublishedFacts
  <2>2. CASE newHeads[c][a] = 0
    BY <1>1, <1>2, <2>2
  <2> QED
    BY <2>1, <2>2
<1>5. ASSUME ~Writing(c, a)
      PROVE  /\ heads'[a] = heads[a] /\ Held(c, a) = Stored(a)
             /\ VersionsOf(events', a) = VersionsOf(events, a)
  <2>1. newHeads[c][a] = 0 /\ VersionsOf(rows[c], a) = {}
    BY <1>5 DEF Writing
  <2>2. ~(Stored(a) < Held(c, a))
    BY <1>2, <2>1
  <2>3. Held(c, a) = Stored(a)
    BY <1>2, <2>2
  <2> QED
    BY <1>1, <1>2, <2>1, <2>3
<1> QED
  BY <1>1, <1>2, <1>3, <1>4, <1>5

LEMMA PublishLeavesNoGap ==
    ASSUME CommandTypeOK, StreamInv, LogInv, NEW c \in Clients, Publish(c)
    PROVE  NoGaps'
<1> SUFFICES ASSUME NEW a \in Aggregates
             PROVE  Stored(a)' \in Nat /\ VersionsOf(events', a) = 1..(Stored(a)')
  BY DEF NoGaps, VersionsOf
<1>1. Held(c, a) \in Nat
  BY UnpublishedFacts, StreamFacts
<1> QED
  BY <1>1, PublishFacts

(* Who is writing another aggregate, or none, does not notice.             *)
LEMMA OthersAfterPublish ==
    ASSUME CommandTypeOK, StreamInv, LogInv, NEW c \in Clients, Publish(c), Alone(c),
           NEW d \in Clients \ {c}, dbtx'[d] = dbtx[d]
    PROVE  /\ CallerInv(d)'
           /\ \A a \in Aggregates : Writing(d, a)' <=> Writing(d, a)
<1>1. /\ rows'[d] = rows[d] /\ newHeads'[d] = newHeads[d] /\ phase'[d] = phase[d]
      /\ call'[d] = call[d] /\ snapshot'[d] = snapshot[d]
      /\ CallerInv(d) /\ TypeOK
  BY UnpublishedFacts DEF Alone, StreamInv
<1>2. \A a : Writing(d, a)' <=> Writing(d, a)
  BY <1>1 DEF Writing
<1>3. ASSUME NEW a \in Aggregates, Writing(d, a)
      PROVE  /\ heads'[a] = heads[a] /\ Stored(a)' = Stored(a)
             /\ Held(d, a)' = Held(d, a)
  <2>1. ~Writing(c, a)
    BY <1>3 DEF StreamInv, OneWriterAtATime
  <2>2. /\ heads'[a] = heads[a] /\ Stored(a)' = Stored(a)
        /\ VersionsOf(events', a) = VersionsOf(events, a)
    BY <2>1, PublishFacts
  <2>3. VersionsOf(events' \cup rows'[d], a) = VersionsOf(events \cup rows[d], a)
    <3>1. /\ VersionsOf(events' \cup rows[d], a)
                = VersionsOf(events', a) \cup VersionsOf(rows[d], a)
          /\ VersionsOf(events \cup rows[d], a)
                = VersionsOf(events, a) \cup VersionsOf(rows[d], a)
      BY VersionsOfUnion
    <3> QED
      BY <1>1, <2>2, <3>1
  <2>4. Version(events' \cup rows'[d], a) = Version(events \cup rows[d], a)
    BY <2>3 DEF Version, VersionsOf
  <2> QED
    BY <2>2, <2>4 DEF Held
<1>4. RowsFollow(d)'
  <2> SUFFICES ASSUME NEW a \in Aggregates
               PROVE  /\ Held(d, a)' \in Nat
                      /\ Stored(a)' <= Held(d, a)'
                      /\ VersionsOf(rows[d], a) = (Stored(a)' + 1)..(Held(d, a)')
    BY <1>1 DEF RowsFollow
  <2>1. CASE Writing(d, a)
    BY <1>1, <1>3, <2>1 DEF CallerInv, RowsFollow
  <2>2. CASE ~Writing(d, a)
    <3>1. VersionsOf(rows[d], a) = {}
      BY <2>2 DEF Writing
    <3>2. /\ Stored(a)' = Held(c, a) /\ VersionsOf(events', a) = 1..Held(c, a)
          /\ Held(c, a) \in Nat
      BY <1>1, PublishFacts, StreamFacts
    <3>3. VersionsOf(events' \cup rows[d], a) = 1..Held(c, a)
      <4>1. VersionsOf(events' \cup rows[d], a)
               = VersionsOf(events', a) \cup VersionsOf(rows[d], a)
        BY VersionsOfUnion
      <4> QED
        BY <3>1, <3>2, <4>1
    <3>4. Version(events' \cup rows[d], a) = Held(c, a)
      BY <3>2, <3>3, VersionIs
    <3>5. Held(d, a)' = Held(c, a)
      BY <1>1, <3>4 DEF Held
    <3>6. (Held(c, a) + 1)..Held(c, a) = {} /\ Held(c, a) <= Held(c, a)
      BY <3>2
    <3> QED
      BY <3>1, <3>2, <3>5, <3>6
  <2> QED
    BY <2>1, <2>2
<1>5. WritesTheHead(d)'
  BY <1>1, <1>2, <1>3 DEF CallerInv, WritesTheHead
<1>6. StatementAlone(d)'
  <2>1. \A a \in Aggregates : newHeads[d][a] # 0 => Stored(a)' = Stored(a)
    BY <1>3 DEF Writing
  <2> QED
    BY <1>1, <2>1 DEF CallerInv, StatementAlone
<1>7. CallFollows(d)'
  <2>1. StartedFromHead(d)'
    <3> SUFFICES ASSUME phase[d] \in {"inserting", "positioned"},
                        call[d].inserted = 0
                 PROVE  IF newHeads[d][call[d].aggregate] # 0
                        THEN call[d].from = newHeads[d][call[d].aggregate]
                        ELSE call[d].from <= heads'[call[d].aggregate]
      BY <1>1 DEF StartedFromHead
    <3>1. call[d].aggregate \in Aggregates /\ call[d].from \in Nat
      BY <1>1 DEF TypeOK, CallFitsPhase, InAppend, Calls
    <3>2. IF newHeads[d][call[d].aggregate] # 0
          THEN call[d].from = newHeads[d][call[d].aggregate]
          ELSE call[d].from <= heads[call[d].aggregate]
      BY <1>1 DEF CallerInv, CallFollows, StartedFromHead
    <3>3. /\ heads[call[d].aggregate] \in Nat /\ heads'[call[d].aggregate] \in Nat
          /\ heads'[call[d].aggregate] >= heads[call[d].aggregate]
      BY <1>1, <3>1, PublishFacts DEF TypeOK
    <3> QED
      BY <3>1, <3>2, <3>3
  <2>2. ASSUME phase[d] \in InAppend, call[d].inserted > 0
        PROVE  call[d].from + call[d].inserted = Held(d, call[d].aggregate)'
    <3>1. PICK a \in Aggregates : a = call[d].aggregate
      BY <1>1, <2>2 DEF TypeOK, CallFitsPhase, Calls
    <3>2. Held(d, a)' = Held(d, a)
      BY <1>3, <2>2, <3>1 DEF Writing
    <3>3. call[d].from + call[d].inserted = Held(d, a)
      BY <1>1, <2>2, <3>1 DEF CallerInv, CallFollows, Held
    <3> QED
      BY <1>1, <3>1, <3>2, <3>3 DEF Held
  <2>3. /\ phase'[d] \notin InAppend \cup Failed => call'[d] = NoCall
        /\ phase'[d] = "idle" => rows'[d] = {} /\ newHeads'[d] = NoHeads
    BY <1>1 DEF CallerInv, CallFollows
  <2> QED
    BY <1>1, <2>1, <2>2, <2>3 DEF CallFollows
<1> QED
  BY <1>2, <1>4, <1>5, <1>6, <1>7 DEF CallerInv

LEMMA StreamPublish ==
    ASSUME CommandTypeOK, StreamInv, LogInv, NEW c \in Clients, Publish(c), Alone(c),
           \A d \in Clients \ {c} : dbtx'[d] = dbtx[d],
           \A a \in Aggregates : Writing(c, a)' => Writing(c, a),
           \A a \in Aggregates : snapshot'[c][a] <= heads[a],
           snapshot' \in [Clients -> [Aggregates -> Nat]],
           CallerInv(c)'
    PROVE  StreamInv'
<1>1. TypeOK
  BY UnpublishedFacts
<1>2. NoGaps'
  BY PublishLeavesNoGap
<1>3. HeadsBehind'
  <2> SUFFICES ASSUME NEW a \in Aggregates
               PROVE  /\ heads'[a] <= Stored(a)'
                      /\ \A d \in Clients : snapshot'[d][a] <= heads'[a]
    BY DEF HeadsBehind
  <2>1. /\ heads'[a] <= Stored(a)'
        /\ heads'[a] \in Nat /\ heads[a] \in Nat /\ heads'[a] >= heads[a]
    BY <1>1, PublishFacts, StreamFacts
  <2>2. ASSUME NEW d \in Clients PROVE snapshot'[d][a] <= heads[a]
    BY <1>1, StreamFacts DEF Alone
  <2>3. \A d \in Clients : snapshot'[d][a] \in Nat
    OBVIOUS
  <2> QED
    BY <2>1, <2>2, <2>3
<1>4. ASSUME NEW d \in Clients \ {c}
      PROVE  /\ CallerInv(d)'
             /\ \A a \in Aggregates : Writing(d, a)' <=> Writing(d, a)
  BY OthersAfterPublish
<1>5. OneWriterAtATime'
  BY <1>4 DEF StreamInv, OneWriterAtATime
<1> QED
  BY <1>2, <1>3, <1>4, <1>5 DEF StreamInv

LEMMA StreamCommit ==
    ASSUME CommandTypeOK, StreamInv, LogInv, NEW c \in Clients, Commit(c),
           \A d \in Clients \ {c} : dbtx'[d] = dbtx[d]
    PROVE  StreamInv'
<1>1. Publish(c) /\ EndTransaction(c) /\ TypeOK
  BY UnpublishedFacts DEF Commit
<1>2. NoGaps'
  BY <1>1, PublishLeavesNoGap
<1>3. /\ CallerInv(c)' /\ Alone(c)
      /\ \A a \in Aggregates : ~Writing(c, a)' /\ snapshot'[c][a] = 0
  BY <1>1, <1>2, EndedCaller
<1>4. snapshot' \in [Clients -> [Aggregates -> Nat]]
  BY <1>1, TypeEndTransaction
<1>5. \A a \in Aggregates : 0 <= heads[a]
  BY <1>1 DEF TypeOK
<1> QED
  BY <1>1, <1>3, <1>4, <1>5, StreamPublish

LEMMA StreamStatement ==
    ASSUME CommandTypeOK, StreamInv, LogInv, NEW c \in Clients, StatementCommits(c)
    PROVE  StreamInv'
<1>1. /\ Publish(c) /\ Alone(c) /\ TypeOK /\ dbtx' = dbtx /\ dbtx[c] = "db"
      /\ rows'[c] = {} /\ newHeads'[c] = NoHeads
      /\ phase' = phase /\ call' = call /\ snapshot' = snapshot
      /\ CallerInv(c)
  BY UnpublishedFacts
     DEF StatementCommits, TypeOK, Alone, callers, StreamInv, Unpublished
<1>2. NoGaps'
  BY <1>1, PublishLeavesNoGap
<1>3. /\ RowsFollow(c)' /\ StatementAlone(c)'
      /\ \A a \in Aggregates : Writing(c, a)' =>
           phase[c] \in InAppend /\ call[c].aggregate = a /\ call[c].inserted > 0
  BY <1>1, <1>2, NothingHeld
<1>4. WritesTheHead(c)'
  BY <1>1 DEF WritesTheHead
<1>5. CallFollows(c)'
  <2>1. phase[c] # "idle" /\ (phase[c] \in InAppend => call[c].inserted > 0)
    <3>1. CASE rows[c] # {}
      BY <1>1, <3>1 DEF CallerInv, StatementAlone, InAppend
    <3>2. CASE newHeads[c] # NoHeads
      <4>1. PICK a \in Aggregates : newHeads[c][a] # 0
        BY <1>1, <3>2 DEF TypeOK, NoHeads
      <4> QED
        BY <1>1, <4>1 DEF CallerInv, StatementAlone, InAppend
    <3> QED
      BY <3>1, <3>2 DEF StatementCommits, Unpublished
  <2>2. StartedFromHead(c)'
    BY <1>1, <2>1 DEF StartedFromHead, InAppend
  <2>3. ASSUME NEW a PROVE Held(c, a)' = Held(c, a)
    BY <1>1 DEF Held, Publish
  <2>4. phase[c] \in InAppend =>
            call[c].from + call[c].inserted = Held(c, call[c].aggregate)'
    BY <1>1, <2>1, <2>3 DEF CallerInv, CallFollows, Held
  <2> QED
    BY <1>1, <2>1, <2>2, <2>4 DEF CallFollows, CallerInv
<1>6. CallerInv(c)'
  BY <1>3, <1>4, <1>5 DEF CallerInv
<1>7. \A a \in Aggregates : snapshot'[c][a] <= heads[a]
  BY <1>1 DEF StreamInv, HeadsBehind
<1>8. snapshot' \in [Clients -> [Aggregates -> Nat]]
  BY <1>1 DEF TypeOK
<1> QED
  BY <1>1, <1>3, <1>6, <1>7, <1>8, StreamPublish DEF Writing

-----------------------------------------------------------------------------
(* Types.                                                                  *)

(* Whatever a read returns, its Version() is a version.                    *)
LEMMA LoadedVersionType ==
    ASSUME TypeOK, StreamInv, NEW c \in Clients, NEW a \in Aggregates,
           NEW from \in Nat, NEW to \in Nat
    PROVE  ReadAggregateStream(VisibleEvents(c), a, from, to) \in Nat
<1> DEFINE S == {r \in VisibleEvents(c) : from <= r.version /\ r.version <= to}
<1>1. \A r \in VisibleEvents(c) : r.version \in Nat
  BY DEF TypeOK, VisibleEvents, StoredEvents
<1>2. VersionsOf(S, a) \subseteq 0..to
  BY <1>1 DEF VersionsOf
<1> HIDE DEF S
<1>3. Version(S, a) \in Nat
  BY <1>2, BoundedVersion
<1> QED
  BY <1>3 DEF ReadAggregateStream, S

LEMMA SnapshotType ==
    ASSUME CommandTypeOK, StreamInv, NEW c \in Clients, SnapshotOfEvents(c)
    PROVE  snapshotEvents' \in [Clients -> [Aggregates -> Nat]]
<1>1. [a \in Aggregates |-> Version(events, a)] \in [Aggregates -> Nat]
  BY DEF StreamInv, NoGaps, Stored
<1> QED
  BY <1>1 DEF SnapshotOfEvents, CommandTypeOK

(* The steps of a call, and its end, are those of EventStore.              *)
LEMMA StoreStep ==
    ASSUME NEW c \in Clients,
           \/ \E target \in DBTXs : StartCommand(c, target)
           \/ \E a \in Aggregates, ids \in Batches :
                  \E expected \in ExpectedBy(c, a) : AppendCommand(c, a, expected, ids)
           \/ \E a \in Aggregates :
                  \E expected \in ExpectedBy(c, a) : RefuseCommand(c, a, expected)
           \/ InsertSucceeds(c)
           \/ UpsertSucceeds(c)
           \/ EndCommand(c)
    PROVE  Next
  BY DEF StartCommand, AppendCommand, RefuseCommand, ExpectedBy, InsertSucceeds,
     UpsertSucceeds, EndCommand, Next, AppendStep

(* ... and so are those of an INSERT, but for a snapshot that is outdated  *)
(* and for an error that only looks like a conflict.                       *)
LEMMA TypeInsertFails ==
    ASSUME TypeOK, NEW c \in Clients, InsertIsRefused(c)
    PROVE  TypeOK'
<1>1. /\ phase' \in [Clients -> Phases] /\ phase'[c] \in Failed
      /\ call' = call
      /\ \A d \in Clients \ {c} : phase'[d] = phase[d]
  BY DEF InsertIsRefused, InsertFails, TypeOK, Phases, Failed
<1>2. CallFitsPhase(c)'
  BY <1>1 DEF CallFitsPhase, Failed, InAppend
<1>3. \A d \in Clients : CallFitsPhase(d)'
  BY <1>1, <1>2, OthersFit
<1> QED
  BY <1>1, <1>3 DEF InsertIsRefused, InsertFails, TypeOK, database

LEMMA TypeLoadStream ==
    ASSUME TypeOK, NEW c \in Clients, NEW a, NEW from, NEW to,
           LoadStream(c, a, from, to)
    PROVE  TypeOK'
<1>1. /\ phase' \in [Clients -> Phases] /\ phase'[c] \in {"begun", "open"}
      /\ call' = call
      /\ \A d \in Clients \ {c} : phase'[d] = phase[d]
  BY DEF LoadStream, TypeOK, Phases
<1>2. CallFitsPhase(c)'
  BY <1>1 DEF CallFitsPhase, InAppend
<1>3. \A d \in Clients : CallFitsPhase(d)'
  BY <1>1, <1>2, OthersFit
<1>4. snapshot' \in [Clients -> [Aggregates -> Nat]]
  BY DEF LoadStream, TypeOK, TakeSnapshot
<1> QED
  BY <1>1, <1>3, <1>4 DEF LoadStream, TypeOK, database

LEMMA TypeGoOn ==
    ASSUME TypeOK, NEW c \in Clients, GoOn(c)
    PROVE  TypeOK'
<1>1. /\ phase' \in [Clients -> Phases] /\ phase'[c] = "open"
      /\ call' \in [Clients -> Calls \cup {NoCall}]
      /\ \A d \in Clients \ {c} : phase'[d] = phase[d] /\ call'[d] = call[d]
  BY DEF GoOn, TypeOK, Phases
<1>2. CallFitsPhase(c)'
  BY <1>1 DEF CallFitsPhase, InAppend
<1>3. \A d \in Clients : CallFitsPhase(d)'
  BY <1>1, <1>2, OthersFit
<1> QED
  BY <1>1, <1>3 DEF GoOn, TypeOK, database

LEMMA TypeStatement ==
    ASSUME TypeOK, NEW c \in Clients, StatementCommits(c)
    PROVE  TypeOK'
<1>1. \A d \in Clients : IsFiniteSet(rows'[d])
  BY FS_EmptySet DEF StatementCommits, TypeOK
<1>2. << >> \in Seq(AppendRecords)
  BY EmptySeq
<1>3. /\ rows' \in [Clients -> SUBSET StoredEvents]
      /\ newHeads' \in [Clients -> [Aggregates -> Nat]]
      /\ accepted' \in [Clients -> Seq(AppendRecords)]
  BY <1>2 DEF StatementCommits, TypeOK, NoHeads
<1>4. \A d \in Clients : CallFitsPhase(d)'
  BY DEF StatementCommits, TypeOK, CallFitsPhase
<1> QED
  BY <1>1, <1>3, <1>4, TypePublish DEF StatementCommits, TypeOK

-----------------------------------------------------------------------------
(* Every step keeps the invariant.                                         *)

(* What a client can do when no statement waits for its commit.            *)
CallerStep(c) ==
    \/ \E target \in DBTXs : StartCommand(c, target)
    \/ \E a \in Aggregates, from, to \in 1..MaxPosition : LoadStream(c, a, from, to)
    \/ \E a \in Aggregates, ids \in Batches :
           \E expected \in ExpectedBy(c, a) : AppendCommand(c, a, expected, ids)
    \/ \E a \in Aggregates :
           \E expected \in ExpectedBy(c, a) : RefuseCommand(c, a, expected)
    \/ InsertStarts(c)
    \/ InsertSucceeds(c)
    \/ InsertIsRefused(c)
    \/ UpsertSucceeds(c)
    \/ GoOn(c)
    \/ EndCommand(c)

LEMMA CommandCases ==
    ASSUME CommandNext
    PROVE  \E c \in Clients :
               \/ StatementCommits(c)
               \/ (\A d \in Clients : ~Unpublished(d)) /\ CallerStep(c)
  BY DEF CommandNext, CallerStep

LEMMA StreamStep ==
    ASSUME CommandTypeOK, StreamInv, LogInv, [CommandNext]_<<vars, callers>>
    PROVE  StreamInv'
<1>1. CASE UNCHANGED <<vars, callers>>
  <2>1. /\ \A a : Stored(a)' = Stored(a)
        /\ \A c, a : Held(c, a)' = Held(c, a) /\ (Writing(c, a)' <=> Writing(c, a))
    BY <1>1 DEF vars, database, private, Stored, Held, Writing
  <2>2. NoGaps' /\ HeadsBehind' /\ OneWriterAtATime'
    BY <1>1, <2>1
       DEF vars, database, private, StreamInv, NoGaps, HeadsBehind, OneWriterAtATime
  <2>3. \A c \in Clients : CallerInv(c)'
    BY <1>1, OtherKeeps DEF vars, database, private, callers, StreamInv
  <2> QED
    BY <2>2, <2>3 DEF StreamInv
<1>2. ASSUME NEW c \in Clients, StatementCommits(c) PROVE StreamInv'
  BY <1>2, StreamStatement
<1>3. ASSUME NEW c \in Clients, CallerStep(c), \A d \in Clients : ~Unpublished(d)
      PROVE  StreamInv'
  <2>1. CASE EndCommand(c)
    <3>1. TypeOK /\ \A d \in Clients \ {c} : dbtx'[d] = dbtx[d]
      BY <2>1 DEF EndCommand, CommandTypeOK
    <3> QED
      BY <2>1, <3>1, StreamCommit, StreamRollback DEF EndCommand
  <2> QED
    BY <1>3, <2>1, StreamStartCommand, StreamLoad, StreamAppend, StreamRefuse,
       StreamInsertStarts, StreamInsertRow, StreamInsertFails, StreamUpsert, StreamGoOn
       DEF CallerStep
<1> QED
  BY <1>1, <1>2, <1>3, CommandCases

LEMMA TypeCommandStep ==
    ASSUME CommandTypeOK, StreamInv, LogInv, [CommandNext]_<<vars, callers>>
    PROVE  CommandTypeOK'
<1>1. CASE UNCHANGED <<vars, callers>>
  <2>1. TypeOK'
    BY <1>1, TypeStep DEF CommandTypeOK
  <2> QED
    BY <1>1, <2>1 DEF CommandTypeOK, callers, vars, database, private, Unpublished
<1>2. ASSUME CommandNext PROVE CommandTypeOK'
  <2>1. PICK c \in Clients :
            \/ StatementCommits(c)
            \/ (\A d \in Clients : ~Unpublished(d)) /\ CallerStep(c)
    BY <1>2, CommandCases
  <2>2. TypeOK'
    <3>1. CASE InsertStarts(c)
      BY <3>1, TypeTakePosition DEF CommandTypeOK, InsertStarts, AssignPosition
    <3> QED
      BY <2>1, <3>1, StoreStep, TypeStep, TypeInsertFails, TypeLoadStream, TypeGoOn,
         TypeStatement DEF CommandTypeOK, CallerStep
  <2>3. /\ dbtx' \in [Clients -> DBTXs \cup {"tx"}]
        /\ orderly' \in BOOLEAN
        /\ commands' \in 0..MaxCommands
    <3>1. ASSUME NEW target \in DBTXs, StartCommand(c, target)
          PROVE  /\ dbtx' \in [Clients -> DBTXs \cup {"tx"}]
                 /\ orderly' \in BOOLEAN
                 /\ commands' \in 0..MaxCommands
      <4>1. dbtx' \in [Clients -> DBTXs \cup {"tx"}] /\ orderly' \in BOOLEAN
        BY <3>1 DEF StartCommand, CommandTypeOK
      <4>2. /\ commands \in 0..MaxCommands /\ commands < MaxCommands
            /\ commands' = commands + 1
        BY <3>1 DEF StartCommand, CommandTypeOK
      <4> QED
        BY <4>1, <4>2, CallersAssumption
    <3>2. CASE GoOn(c)
      BY <3>2 DEF GoOn, CommandTypeOK
    <3>3. CASE EndCommand(c)
      BY <3>3 DEF EndCommand, CommandTypeOK
    <3> QED
      BY <2>1, <3>1, <3>2, <3>3
         DEF CallerStep, StatementCommits, LoadStream, AppendCommand, RefuseCommand,
             InsertStarts, InsertSucceeds, InsertIsRefused, UpsertSucceeds, callers,
             CommandTypeOK
  <2>4. stream' \in [Clients -> [Aggregates -> Nat]]
    <3>1. ASSUME NEW a \in Aggregates, NEW from \in 1..MaxPosition,
                 NEW to \in 1..MaxPosition, LoadStream(c, a, from, to)
          PROVE  stream' \in [Clients -> [Aggregates -> Nat]]
      <4>1. ReadAggregateStream(VisibleEvents(c), a, from, to) \in Nat
        BY LoadedVersionType DEF CommandTypeOK
      <4> QED
        BY <3>1, <4>1 DEF LoadStream, CommandTypeOK
    <3> QED
      BY <2>1, <3>1
         DEF CallerStep, StatementCommits, StartCommand, AppendCommand,
             RefuseCommand, InsertStarts, InsertSucceeds, InsertIsRefused,
             UpsertSucceeds, GoOn, EndCommand, callers, CommandTypeOK
  <2>5. snapshotEvents' \in [Clients -> [Aggregates -> Nat]]
    <3>1. CASE SnapshotOfEvents(c)
      BY <3>1, SnapshotType
    <3>2. CASE EndCommand(c)
      BY <3>2 DEF EndCommand, CommandTypeOK, NoHeads
    <3> QED
      BY <2>1, <3>1, <3>2
         DEF CallerStep, StatementCommits, StartCommand, LoadStream, AppendCommand,
             RefuseCommand, InsertStarts, InsertSucceeds, InsertIsRefused,
             UpsertSucceeds, GoOn, callers, CommandTypeOK
  <2>6. ASSUME NEW d \in Clients, Unpublished(d)'
        PROVE  phase'[d] \in InAppend \cup {"open"}
    <3>1. StatementAlone(d)' /\ newHeads'[d] \in [Aggregates -> Nat]
      BY <1>2, <2>2, StreamStep DEF StreamInv, CallerInv, TypeOK
    <3>2. newHeads'[d] # NoHeads => \E a \in Aggregates : newHeads'[d][a] # 0
      BY <3>1 DEF NoHeads
    <3> QED
      BY <2>6, <3>1, <3>2 DEF Unpublished, StatementAlone
  <2> QED
    BY <2>2, <2>3, <2>4, <2>5, <2>6 DEF CommandTypeOK
<1> QED
  BY <1>1, <1>2

-----------------------------------------------------------------------------
(* The appends of committed transactions, and of committed statements.     *)

LEMMA CommandCommits ==
    ASSUME CommandTypeOK, StreamInv, LogInv, NEW c \in Clients, Publish(c), Alone(c),
           \A d \in Clients \ {c} : accepted'[d] = accepted[d],
           AcceptedContinue(c)', CallContinues(c)'
    PROVE  LogInv'
<1>1. ASSUME NEW d \in Clients \ {c}, NEW a \in Aggregates, WritesOn(d, a)
      PROVE  heads'[a] = heads[a]
  <2>1. Writing(d, a)
    BY <1>1 DEF WritesOn, Writing
  <2>2. ~Writing(c, a)
    BY <2>1 DEF StreamInv, OneWriterAtATime
  <2> QED
    BY <2>2, PublishFacts
<1> QED
  BY <1>1, UnpublishedFacts, LogPublish

LEMMA LogStatement ==
    ASSUME CommandTypeOK, StreamInv, LogInv, NEW c \in Clients, StatementCommits(c)
    PROVE  LogInv'
<1>1. /\ Publish(c) /\ Alone(c) /\ TypeOK /\ dbtx[c] = "db"
      /\ accepted'[c] = << >> /\ newHeads'[c] = NoHeads
      /\ phase' = phase /\ call' = call
      /\ \A d \in Clients \ {c} : accepted'[d] = accepted[d]
  BY UnpublishedFacts DEF StatementCommits, TypeOK, Alone, Unpublished
<1>2. AcceptedContinue(c)'
  BY <1>1, NothingAccepted
<1>3. CallContinues(c)'
  <2> SUFFICES ASSUME phase[c] \in InAppend PROVE CallContinues(c)'
    BY <1>1 DEF CallContinues
  <2>1. call[c].aggregate \in Aggregates
    BY <1>1 DEF TypeOK, CallFitsPhase, Calls
  <2>2. \A a \in Aggregates : newHeads[c][a] = 0
    BY <1>1 DEF StreamInv, CallerInv, StatementAlone, InAppend
  <2>3. heads'[call[c].aggregate] = heads[call[c].aggregate]
    BY <1>1, <2>1, <2>2 DEF Publish
  <2>4. Len(<< >>) = 0
    BY EmptySeq
  <2> QED
    BY <1>1, <2>1, <2>2, <2>3, <2>4, BoundsAssumption
       DEF LogInv, CallContinues, Current, NoHeads
<1> QED
  BY <1>1, <1>2, <1>3, CommandCommits

LEMMA LogEndCommand ==
    ASSUME CommandTypeOK, StreamInv, LogInv, NEW c \in Clients, EndCommand(c)
    PROVE  LogInv'
<1>1. TypeOK
  BY UnpublishedFacts
<1>2. CASE Commit(c)
  <2>1. /\ Publish(c) /\ EndTransaction(c) /\ Alone(c)
        /\ \A d \in Clients \ {c} : accepted'[d] = accepted[d]
    BY <1>1, <1>2 DEF TypeOK, Commit, EndTransaction, Alone
  <2> QED
    BY <1>1, <2>1, LogEnded, CommandCommits
<1> QED
  BY <1>1, <1>2, LogRollback DEF EndCommand

LEMMA LogCommandStep ==
    ASSUME CommandTypeOK, StreamInv, LogInv, [CommandNext]_<<vars, callers>>
    PROVE  LogInv'
<1>1. TypeOK
  BY DEF CommandTypeOK
<1>2. CASE UNCHANGED <<vars, callers>>
  BY <1>2
     DEF vars, database, private, LogInv, HistoryEndsAtHeads, AcceptedContinue,
     Continues, CallContinues, Current
<1>3. ASSUME NEW c \in Clients, CallerStep(c), \A d \in Clients : ~Unpublished(d)
      PROVE  LogInv'
  <2>1. ASSUME \/ \E a, from, to : LoadStream(c, a, from, to)
               \/ InsertIsRefused(c)
               \/ GoOn(c)
        PROVE  LogInv'
    <3>1. /\ heads' = heads /\ history' = history
          /\ newHeads' = newHeads /\ accepted' = accepted
          /\ Alone(c) /\ phase'[c] \notin InAppend
      BY <1>1, <2>1
         DEF TypeOK, LoadStream, InsertIsRefused, InsertFails, GoOn, TakeSnapshot,
             Alone, database, InAppend
    <3> QED
      BY <1>1, <3>1, LogQuiet
  <2>2. CASE InsertSucceeds(c)
    BY <1>1, <1>3, <2>2, InsertFollows, LogInserts DEF InsertSucceeds
  <2>3. CASE EndCommand(c)
    BY <2>3, LogEndCommand
  <2>4. CASE \/ \E target \in DBTXs : StartCommand(c, target)
             \/ \E a \in Aggregates : \E expected \in ExpectedBy(c, a) :
                    RefuseCommand(c, a, expected)
             \/ \E a \in Aggregates, ids \in Batches :
                    \E expected \in ExpectedBy(c, a) :
                        AppendCommand(c, a, expected, ids)
    BY <1>1, <2>4, LogQuietStep, LogAppendStarts
       DEF StartCommand, RefuseCommand, AppendCommand, ExpectedBy
  <2>5. CASE InsertStarts(c) \/ UpsertSucceeds(c)
    BY <1>1, <2>5, LogTakePosition, LogUpsertHead
       DEF InsertStarts, AssignPosition, UpsertSucceeds
  <2> QED
    BY <1>3, <2>1, <2>2, <2>3, <2>4, <2>5 DEF CallerStep
<1> QED
  BY <1>2, <1>3, LogStatement, CommandCases

LEMMA CommandRefines ==
    ASSUME CommandTypeOK, StreamInv, LogInv, [CommandNext]_<<vars, callers>>
    PROVE  Log!Next \/ UNCHANGED <<history, heads>>
<1>1. CASE UNCHANGED <<vars, callers>>
  BY <1>1 DEF vars, database
<1>2. ASSUME NEW c \in Clients, Publish(c)
      PROVE  Log!Next \/ UNCHANGED <<history, heads>>
  BY <1>2, UnpublishedFacts, LogCommandStep, PublishRefines
<1>3. ASSUME NEW c \in Clients, CallerStep(c)
      PROVE  Publish(c) \/ UNCHANGED <<history, heads>>
  BY <1>3
     DEF CallerStep, StartCommand, Begin, LoadStream, AppendCommand, AppendStarts,
         RefuseCommand, AppendRefused, InsertStarts, AssignPosition, TakePosition,
         InsertSucceeds, InsertRow, InsertIsRefused, InsertFails, UpsertSucceeds,
         UpsertHead, GoOn, EndCommand, Commit, Rollback, database
<1> QED
  BY <1>1, <1>2, <1>3, CommandCases DEF StatementCommits

-----------------------------------------------------------------------------
(* Careful callers, and the cause of a conflict.                           *)

(* A read, or an INSERT that fails, keeps the invariant of EventStore.     *)
LEMMA InvLoadOrFail ==
    ASSUME TypeOK, WriterInv, NEW c \in Clients, dbtx[c] = "tx",
           (\E a, from, to : LoadStream(c, a, from, to)) \/ InsertIsRefused(c)
    PROVE  WriterInv'
<1>1. /\ Alone(c) /\ events' = events /\ heads' = heads
      /\ rows' = rows /\ newHeads' = newHeads /\ call' = call
  BY DEF LoadStream, InsertIsRefused, InsertFails, TypeOK, TakeSnapshot, Alone, database
<1>2. ClientInv(c)
  BY DEF WriterInv
<1>3. FollowsCommitted(c)'
  BY <1>1, <1>2, SamePending DEF ClientInv, PendingHead
<1>4. phase'[c] \in {"open"} \cup Failed
  BY DEF LoadStream, InsertIsRefused, InsertFails, TypeOK, Failed
<1>5. phase[c] \in {"begun", "open"} \/ snapshot' = snapshot
  BY DEF LoadStream, InsertIsRefused, InsertFails
<1>6. \A a \in Aggregates : snapshot'[c][a] <= heads'[a]
  <2>1. snapshot'[c] = snapshot[c] \/ snapshot'[c] = heads
    BY DEF LoadStream, InsertIsRefused, InsertFails, TypeOK, TakeSnapshot
  <2>2. \A a \in Aggregates : heads[a] <= heads[a] /\ snapshot[c][a] <= heads[a]
    BY <1>2 DEF ClientInv, TypeOK
  <2> QED
    BY <1>1, <2>1, <2>2
<1>7. StartedFromHead(c)'
  BY <1>4 DEF StartedFromHead, Failed
<1>8. phase'[c] \notin InAppend \cup Failed => call'[c] = NoCall
  <2>1. CASE \E a, from, to : LoadStream(c, a, from, to)
    BY <1>1, <1>2, <2>1 DEF ClientInv, LoadStream, InAppend, Failed
  <2>2. CASE InsertIsRefused(c)
    BY <2>2 DEF InsertIsRefused, InsertFails, TypeOK, Failed
  <2> QED
    BY <2>1, <2>2
<1> QED
  BY <1>1, <1>3, <1>6, <1>7, <1>8, QuietStep DEF ClientInv

LEMMA OrderlyStep ==
    ASSUME CommandTypeOK, OrderlyInv, [CommandNext]_<<vars, callers>>
    PROVE  OrderlyInv'
<1> SUFFICES ASSUME orderly' PROVE WriterInv' /\ \A d \in Clients : dbtx'[d] = "tx"
  BY DEF OrderlyInv
<1>1. orderly
  BY CommandCases
     DEF CallerStep, StatementCommits, StartCommand, LoadStream, AppendCommand,
         RefuseCommand, InsertStarts, InsertSucceeds, InsertIsRefused,
         UpsertSucceeds, GoOn, EndCommand, callers
<1>2. TypeOK /\ WriterInv /\ \A d \in Clients : dbtx[d] = "tx"
  BY <1>1 DEF OrderlyInv, CommandTypeOK
<1>3. CASE UNCHANGED <<vars, callers>>
  BY <1>2, <1>3, InvStep DEF callers
<1>4. ASSUME NEW c \in Clients, CallerStep(c)
      PROVE  WriterInv' /\ \A d \in Clients : dbtx'[d] = "tx"
  <2>1. ~GoOn(c)
    BY DEF GoOn
  <2>2. \A d \in Clients : dbtx'[d] = "tx"
    BY <1>2, <1>4, <2>1
       DEF CallerStep, StartCommand, LoadStream, AppendCommand, RefuseCommand,
           InsertStarts, InsertSucceeds, InsertIsRefused, UpsertSucceeds,
           EndCommand, callers, CommandTypeOK
  <2>3. CASE InsertStarts(c)
    <3>1. Next
      BY <1>2, <2>3 DEF InsertStarts, Next, AppendStep
    <3> QED
      BY <1>2, <2>2, <3>1, InvStep
  <2> QED
    BY <1>2, <1>4, <2>1, <2>2, <2>3, StoreStep, InvStep, InvLoadOrFail DEF CallerStep
<1> QED
  BY <1>2, <1>3, <1>4, CommandCases DEF StatementCommits, Unpublished

-----------------------------------------------------------------------------
(* The invariant holds.                                                    *)

LEMMA StreamInit == CommandInit => StreamInv
<1> SUFFICES ASSUME CommandInit PROVE StreamInv
  OBVIOUS
<1>1. /\ events = {} /\ heads = NoHeads
      /\ \A c \in Clients :
          /\ rows[c] = {} /\ newHeads[c] = NoHeads /\ snapshot[c] = NoHeads
          /\ phase[c] = "idle" /\ call[c] = NoCall /\ dbtx[c] = "tx"
  BY DEF CommandInit, Init
<1>2. /\ \A a : VersionsOf({}, a) = {}
      /\ 1..0 = {} /\ (0 + 1)..0 = {} /\ 0 \in Nat /\ 0 <= 0 /\ {} \cup {} = {}
  BY DEF VersionsOf
<1>3. \A a : Version({}, a) = 0
  BY <1>2, VersionIs
<1>4. /\ \A a : Stored(a) = 0 /\ VersionsOf(events, a) = {}
      /\ \A c \in Clients, a \in Aggregates :
          /\ Held(c, a) = 0 /\ VersionsOf(rows[c], a) = {}
          /\ ~Writing(c, a)
          /\ heads[a] = 0 /\ newHeads[c][a] = 0 /\ snapshot[c][a] = 0
  BY <1>1, <1>2, <1>3 DEF Stored, Held, Writing, NoHeads, InAppend
<1>5. NoGaps /\ HeadsBehind /\ OneWriterAtATime
  <2>1. NoGaps
    BY <1>2, <1>4 DEF NoGaps
  <2>2. HeadsBehind
    BY <1>1, <1>2, <1>4 DEF HeadsBehind, NoHeads
  <2>3. OneWriterAtATime
    BY <1>4 DEF OneWriterAtATime
  <2> QED
    BY <2>1, <2>2, <2>3
<1>6. ASSUME NEW c \in Clients PROVE CallerInv(c)
  BY <1>1, <1>2, <1>4, <1>6
     DEF CallerInv, RowsFollow, WritesTheHead, StatementAlone, CallFollows,
         StartedFromHead, InAppend
<1> QED
  BY <1>5, <1>6 DEF StreamInv

LEMMA CommandInvInit == CommandInit => CommandInv
<1> SUFFICES ASSUME CommandInit PROVE CommandInv
  OBVIOUS
<1>1. Init /\ TypeOK /\ LogInv /\ WriterInv /\ StreamInv
  BY TypeInit, LogInit, InvInit, StreamInit DEF CommandInit
<1>2. CommandTypeOK
  BY <1>1, CallersAssumption DEF CommandInit, CommandTypeOK, Unpublished, NoHeads
<1>3. OrderlyInv
  BY <1>1 DEF CommandInit, OrderlyInv
<1> QED
  BY <1>1, <1>2, <1>3 DEF CommandInv

LEMMA CommandInvStep ==
    ASSUME CommandInv, [CommandNext]_<<vars, callers>>
    PROVE  CommandInv'
  BY TypeCommandStep, LogCommandStep, StreamStep, OrderlyStep
     DEF CommandInv

LEMMA CommandInvariance == CommandSpec => []CommandInv
<1>1. CommandInit => CommandInv
  BY CommandInvInit
<1>2. CommandInv /\ [CommandNext]_<<vars, callers>> => CommandInv'
  BY CommandInvStep
<1> QED
  BY <1>1, <1>2, PTL DEF CommandSpec

-----------------------------------------------------------------------------
(* Theorems.                                                               *)

(* Types, and what a client passes to its calls, whatever the callers do.  *)
THEOREM CommandTypesHold == CommandSpec => []CommandTypeOK
<1>1. CommandInv => CommandTypeOK
  BY DEF CommandInv
<1> QED
  BY <1>1, CommandInvariance, PTL

(* A decision on an old snapshot, on a stream loaded earlier, or on a part *)
(* of it, is accepted only if that was all of the aggregate's stream; and  *)
(* no other event joins until the transaction ends.                        *)
THEOREM DecisionsStayCurrent == CommandSpec => []DecisionsAreCurrent
<1>1. ASSUME CommandInv PROVE DecisionsAreCurrent
  <2> SUFFICES ASSUME NEW c \in Clients, NEW i \in DOMAIN accepted[c],
                      dbtx[c] = "tx", ~IsAny(accepted[c][i].expected),
                      NEW v \in VersionsOf(events, accepted[c][i].aggregate)
               PROVE  v <= accepted[c][i].expected
    BY DEF DecisionsAreCurrent
  <2> DEFINE e == accepted[c][i]
             a == accepted[c][i].aggregate
  <2>1. CommandTypeOK /\ TypeOK /\ LogInv /\ StreamInv
    BY <1>1 DEF CommandInv, CommandTypeOK
  <2>2. /\ e \in AppendRecords /\ a \in Aggregates /\ newHeads[c][a] # 0
        /\ e.from \in Nat /\ e.expected \in Expectations
    BY <2>1, AcceptedFacts DEF AppendRecords
  <2>3. e.expected = e.from
    <3>1. VersionMatches(e.expected, e.from)
      BY <2>1 DEF LogInv, AcceptedContinue, Continues
    <3>2. ~Log!IsAny(e.expected)
      BY DEF Log!IsAny, IsAny, Log!Any, Any
    <3> QED
      BY <2>2, <3>1, <3>2, MatchIsEqual
  <2>4. heads[a] <= e.from
    BY <2>1 DEF LogInv, AcceptedContinue, Continues, IsTop
  <2>5. heads[a] = Stored(a)
    BY <2>1, <2>2 DEF StreamInv, CallerInv, WritesTheHead, Writing
  <2>6. heads[a] \in Nat /\ v \in 1..heads[a]
    BY <2>1, <2>2, <2>5, StreamFacts
  <2> QED
    BY <2>2, <2>3, <2>4, <2>6
<1> QED
  BY <1>1, CommandInvariance, PTL

(* Readers of a stream get a prefix of the truth, whatever the callers do: *)
(* no aggregate has a gap, and no head claims an event that is not there.  *)
THEOREM HeadStaysBehind == CommandSpec => []HeadNeverAhead
<1>1. CommandInv => HeadNeverAhead
  BY DEF CommandInv, StreamInv, NoGaps, HeadsBehind, HeadNeverAhead, Stored
<1> QED
  BY <1>1, CommandInvariance, PTL

(* The head falls behind only where a caller passed a *sql.DB or went on   *)
(* after a failed Append.                                                  *)
THEOREM CarefulCallersTearNothing == CommandSpec => []OnlyDisorderTears
<1>1. CommandInv => OnlyDisorderTears
  BY DEF CommandInv, OrderlyInv, WriterInv, OnlyDisorderTears
<1> QED
  BY <1>1, CommandInvariance, PTL

(* The first INSERT of an Append claims the versions of its whole batch,   *)
(* whatever the callers do: no event that is stored, or that anybody holds *)
(* uncommitted, is after the last one the call has inserted.               *)
THEOREM FirstInsertClaims == CommandSpec => []FirstInsertClaimsBatch
<1>1. ASSUME CommandInv PROVE FirstInsertClaimsBatch
  <2> SUFFICES ASSUME NEW c \in Clients, phase[c] \in {"inserting", "positioned"},
                      call[c].inserted > 0,
                      NEW v \in VersionsOf(AllRows, call[c].aggregate)
               PROVE  v <= call[c].from + call[c].inserted
    BY DEF FirstInsertClaimsBatch
  <2> DEFINE a == call[c].aggregate
  <2>1. CommandTypeOK /\ TypeOK /\ StreamInv
    BY <1>1 DEF CommandInv, CommandTypeOK
  <2>2. a \in Aggregates /\ phase[c] \in InAppend
    BY <2>1 DEF TypeOK, CallFitsPhase, Calls, InAppend
  <2>3. Writing(c, a)
    BY <2>2 DEF Writing
  <2>4. call[c].from + call[c].inserted = Held(c, a)
    BY <2>1, <2>2 DEF StreamInv, CallerInv, CallFollows
  <2>5. /\ Stored(a) \in Nat /\ Held(c, a) \in Nat /\ Stored(a) <= Held(c, a)
        /\ VersionsOf(events, a) = 1..Stored(a)
        /\ VersionsOf(rows[c], a) = (Stored(a) + 1)..Held(c, a)
    BY <2>1, <2>2 DEF StreamInv, NoGaps, CallerInv, RowsFollow
  <2>6. ASSUME NEW d \in Clients, d # c PROVE VersionsOf(rows[d], a) = {}
    BY <2>1, <2>2, <2>3, <2>6 DEF StreamInv, OneWriterAtATime, Writing
  <2>7. v \in VersionsOf(events, a) \/ v \in VersionsOf(rows[c], a)
    <3>1. PICK r \in AllRows : r.aggregate = a /\ r.version = v
      BY DEF VersionsOf
    <3>2. ASSUME NEW d \in Clients, r \in rows[d] PROVE v \in VersionsOf(rows[d], a)
      BY <3>1, <3>2 DEF VersionsOf
    <3>3. r \in events => v \in VersionsOf(events, a)
      BY <3>1 DEF VersionsOf
    <3> QED
      BY <2>6, <3>1, <3>2, <3>3 DEF AllRows
  <2> HIDE DEF a
  <2>8. v <= Held(c, a)
    BY <2>5, <2>7
  <2> QED
    BY <2>4, <2>8
<1> QED
  BY <1>1, CommandInvariance, PTL

(* Nobody is writing an aggregate that is torn.                            *)
LEMMA TornIsNotWritten ==
    ASSUME CommandTypeOK, StreamInv, NEW a \in Aggregates, Torn(a),
           NEW c \in Clients
    PROVE  ~Writing(c, a)
<1> SUFFICES ASSUME Writing(c, a) PROVE FALSE
  OBVIOUS
<1>1. Stored(a) > heads[a] /\ ~BeingAppended(a)
  BY DEF Torn, Stored
<1>2. heads[a] \in Nat /\ Stored(a) \in Nat
  BY UnpublishedFacts, StreamFacts
<1>3. dbtx[c] = "db"
  BY <1>1, <1>2, UnpublishedFacts DEF StreamInv, CallerInv, WritesTheHead
<1>4. newHeads[c][a] = 0 /\ ~(call[c].aggregate = a /\ phase[c] \in InAppend)
  BY <1>1, <1>3 DEF BeingAppended
<1>5. PICK r \in rows[c] : r.aggregate = a
  BY <1>4 DEF Writing, VersionsOf
<1> QED
  BY <1>3, <1>4, <1>5 DEF StreamInv, CallerInv, StatementAlone

(* What an Append broken off half-way costs: no call of the store can move *)
(* the head, or add an event, of an aggregate that is torn.                *)
THEOREM TornStaysTorn == CommandSpec => TornForGood
<1>1. ASSUME CommandInv, [CommandNext]_<<vars, callers>>,
             NEW a \in Aggregates, Torn(a)
      PROVE  heads'[a] = heads[a] /\ Version(events', a) = Version(events, a)
  <2>1. CommandTypeOK /\ StreamInv /\ LogInv
    BY <1>1 DEF CommandInv
  <2>2. CASE UNCHANGED <<events, heads>>
    BY <2>2
  <2>3. ASSUME NEW c \in Clients, Publish(c)
        PROVE  heads'[a] = heads[a] /\ Version(events', a) = Version(events, a)
    <3>1. ~Writing(c, a)
      BY <1>1, <2>1, TornIsNotWritten
    <3>2. heads'[a] = heads[a] /\ VersionsOf(events', a) = VersionsOf(events, a)
      BY <2>1, <2>3, <3>1, PublishFacts
    <3> QED
      BY <3>2 DEF Version, VersionsOf
  <2>4. ASSUME NEW c \in Clients, CallerStep(c)
        PROVE  Publish(c) \/ UNCHANGED <<events, heads>>
    BY <2>4
       DEF CallerStep, StartCommand, Begin, LoadStream, AppendCommand, AppendStarts,
           RefuseCommand, AppendRefused, InsertStarts, AssignPosition, TakePosition,
           InsertSucceeds, InsertRow, InsertIsRefused, InsertFails, UpsertSucceeds,
           UpsertHead, GoOn, EndCommand, Commit, Rollback, database
  <2>5. CASE UNCHANGED <<vars, callers>>
    BY <2>5 DEF vars, database
  <2> QED
    BY <1>1, <2>2, <2>3, <2>4, <2>5, CommandCases DEF StatementCommits
<1>2. ASSUME CommandInv, [CommandNext]_<<vars, callers>>
      PROVE  [\A a \in Aggregates : Torn(a) =>
                  heads'[a] = heads[a]
                      /\ Version(events', a) = Version(events, a)]_database
  BY <1>1, <1>2
<1> QED
  BY <1>2, CommandInvariance, PTL DEF CommandSpec, TornForGood

(* Append keeps its promise whatever the callers do: what was accepted and *)
(* has committed, with its transaction or statement by statement, is one   *)
(* history of legal appends, and the heads are its summary.                *)
THEOREM CommandsAreOneHistory == CommandSpec => ImplementsEventLog
<1>1. CommandInit => Log!Init
  BY DEF CommandInit, Init, Log!Init, NoHeads
<1>2. CommandInv /\ [CommandNext]_<<vars, callers>>
        => [Log!Next]_<<history, heads>>
  BY CommandRefines DEF CommandInv
<1> QED
  BY <1>1, <1>2, CommandInvariance, PTL
     DEF CommandSpec, ImplementsEventLog, Log!Spec

=============================================================================
