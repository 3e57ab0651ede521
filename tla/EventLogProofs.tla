---------------------------- MODULE EventLogProofs ----------------------------
(***************************************************************************)
(* EventStore implements EventLog, for any number of clients, aggregates   *)
(* and events and for the three dialects: the appends of committed         *)
(* transactions form one history in which each of them was legal.          *)
(***************************************************************************)
EXTENDS EventStoreProofs

(* v is the highest of the versions in S.                                  *)
IsTop(v, S) == v \in S /\ \A t \in S : t <= v

(* The versions at which the appends of a to an aggregate ended, those of  *)
(* h before the i-th, and all of h.                                        *)
Before(h, i, a) ==
    {h[j].to : j \in {k \in DOMAIN h : k < i /\ h[k].aggregate = a}}
Tos(h, a) ==
    {h[j].to : j \in {k \in DOMAIN h : h[k].aggregate = a}}

(* The head a transaction sees once it has written the aggregate.          *)
Current(c, a) == IF newHeads[c][a] # 0 THEN newHeads[c][a] ELSE heads[a]

-----------------------------------------------------------------------------
(* The invariant: the heads are where the history ends, and the appends a  *)
(* transaction has accepted would continue the history if it committed     *)
(* now.                                                                    *)

HistoryEndsAtHeads == \A a \in Aggregates :
    IsTop(heads[a], {0} \cup Tos(history, a))

Continues(e, before) ==
    /\ e.to > e.from
    /\ VersionMatches(e.expected, e.from)
    /\ IsTop(e.from, {heads[e.aggregate]} \cup before)

AcceptedContinue(c) ==
    /\ Len(accepted[c]) <= MaxAppends
    /\ \A i \in DOMAIN accepted[c] :
        Continues(accepted[c][i],
                  Before(accepted[c], i, accepted[c][i].aggregate))
    /\ \A a \in Aggregates : IsTop(newHeads[c][a], {0} \cup Tos(accepted[c], a))

(* A running call that has inserted stands right after the current head.   *)
CallContinues(c) == phase[c] \in InAppend =>
    /\ Len(accepted[c]) < MaxAppends
    /\ VersionMatches(call[c].expected, call[c].from)
    /\ call[c].inserted > 0 => call[c].from = Current(c, call[c].aggregate)

LogInv ==
    /\ HistoryEndsAtHeads
    /\ \A c \in Clients : AcceptedContinue(c) /\ CallContinues(c)

-----------------------------------------------------------------------------
(* Sequences of appends.                                                   *)

(* The history before the i-th of the appends t that are added to s.       *)
LEMMA TosOfPrefix ==
    ASSUME NEW R, NEW s \in Seq(R), NEW t \in Seq(R), NEW a,
           NEW i \in 1..(Len(t) + 1)
   
      PROVE  Tos(SubSeq(s \o t, 1, Len(s) + i - 1), a) = Tos(s, a) \cup Before(t, i, a)
<1> DEFINE n == Len(s) + i - 1
           p == SubSeq(s \o t, 1, n)
<1>1. /\ Len(s) \in Nat /\ Len(t) \in Nat /\ i \in Nat
      /\ n \in Nat /\ n <= Len(s) + Len(t)
  BY LenProperties
<1>2. \A j \in 1..n : (s \o t)[j] = IF j <= Len(s) THEN s[j] ELSE t[j - Len(s)]
  BY <1>1, ConcatProperties
<1>3. \A j \in 1..n : (s \o t)[j] \in R
  BY <1>1, ConcatProperties, ElementOfSeq
<1>4. /\ p \in Seq(R)
      /\ Len(p) = n
      /\ \A j \in 1..n : p[j] = (s \o t)[j]
  <2> HIDE DEF n
  <2> QED
    BY <1>1, <1>3, SubSeqProperties
<1>5. DOMAIN p = 1..n /\ DOMAIN s = 1..Len(s) /\ DOMAIN t = 1..Len(t)
  BY <1>4, LenProperties
<1> HIDE DEF p
<1>6. ASSUME NEW j \in DOMAIN p, p[j].aggregate = a
      PROVE  p[j].to \in Tos(s, a) \cup Before(t, i, a)
  <2>1. CASE j <= Len(s)
    BY <1>1, <1>2, <1>4, <1>5, <1>6, <2>1 DEF Tos
  <2>2. CASE j > Len(s)
    <3>1. j - Len(s) \in DOMAIN t /\ j - Len(s) < i /\ p[j] = t[j - Len(s)]
      BY <1>1, <1>2, <1>4, <1>5, <2>2
    <3> QED
      BY <1>6, <3>1 DEF Before
  <2> QED
    BY <1>1, <1>5, <2>1, <2>2
<1>7. ASSUME NEW j \in DOMAIN s, s[j].aggregate = a PROVE s[j].to \in Tos(p, a)
  <2>1. j \in DOMAIN p /\ p[j] = s[j]
    BY <1>1, <1>2, <1>4, <1>5
  <2> QED
    BY <1>7, <2>1 DEF Tos
<1>8. ASSUME NEW j \in DOMAIN t, j < i, t[j].aggregate = a
      PROVE t[j].to \in Tos(p, a)
  <2>1. j \in Nat /\ j >= 1 /\ j <= i - 1
    BY <1>1, <1>5, <1>8
  <2>2. Len(s) + j \in 1..n
    BY <1>1, <2>1
  <2>3. (Len(s) + j) - Len(s) = j /\ ~(Len(s) + j <= Len(s))
    BY <1>1, <2>1
  <2>4. p[Len(s) + j] = t[j]
    BY <1>2, <1>4, <2>2, <2>3
  <2> QED
    BY <1>5, <1>8, <2>2, <2>4 DEF Tos
<1> QED
  BY <1>6, <1>7, <1>8 DEF Tos, Before, p

(* ... and all of it.                                                      *)
LEMMA TosOfConcat ==
    ASSUME NEW R, NEW s \in Seq(R), NEW t \in Seq(R), NEW a
    PROVE  Tos(s \o t, a) = Tos(s, a) \cup Tos(t, a)
<1>1. Len(s) \in Nat /\ Len(t) \in Nat /\ DOMAIN t = 1..Len(t)
  BY LenProperties
<1>2. SubSeq(s \o t, 1, Len(s) + Len(t)) = s \o t
  BY ConcatProperties, SubSeqFull
<1>3. Before(t, Len(t) + 1, a) = Tos(t, a)
  BY <1>1 DEF Before, Tos
<1>4. /\ Len(s) + (Len(t) + 1) - 1 = Len(s) + Len(t)
      /\ Len(t) + 1 \in 1..(Len(t) + 1)
  BY <1>1
<1>5. Tos(SubSeq(s \o t, 1, Len(s) + (Len(t) + 1) - 1), a)
         = Tos(s, a) \cup Before(t, Len(t) + 1, a)
  BY <1>4, TosOfPrefix
<1> QED
  BY <1>2, <1>3, <1>4, <1>5

LEMMA TosAreVersions ==
    ASSUME NEW h \in Seq(AppendRecords), NEW a, NEW i
    PROVE  Tos(h, a) \subseteq Nat \ {0} /\ Before(h, i, a) \subseteq Nat \ {0}
<1>1. \A j \in DOMAIN h : h[j] \in AppendRecords
  BY LenProperties, ElementOfSeq
<1>2. \A j \in DOMAIN h : h[j].to \in Nat \ {0}
  BY <1>1 DEF AppendRecords
<1> QED
  BY <1>2 DEF Tos, Before

(* An append after t.                                                      *)
LEMMA TosOfAppend ==
    ASSUME NEW R, NEW t \in Seq(R), NEW e \in R, NEW a
    PROVE  /\ Len(Append(t, e)) = Len(t) + 1 /\ Append(t, e)[Len(t) + 1] = e
           /\ \A i \in 1..Len(t) : Append(t, e)[i] = t[i]
           /\ \A i \in 1..Len(t) : Before(Append(t, e), i, a) = Before(t, i, a)
           /\ Before(Append(t, e), Len(t) + 1, a) = Tos(t, a)
           /\ Tos(Append(t, e), a) = Tos(t, a) \cup
                  (IF e.aggregate = a THEN {e.to} ELSE {})
<1> DEFINE u == Append(t, e)
           n == Len(t)
<1>1. /\ n \in Nat /\ DOMAIN t = 1..n /\ DOMAIN u = 1..(n + 1)
      /\ Len(u) = n + 1 /\ u[n + 1] = e
      /\ \A i \in 1..n : u[i] = t[i]
  BY LenProperties, AppendProperties
<1> HIDE DEF u, n
<1>2. \A i \in 1..n : Before(u, i, a) = Before(t, i, a)
  BY <1>1 DEF Before
<1>3. Before(u, n + 1, a) = Tos(t, a)
  BY <1>1 DEF Before, Tos
<1>4. Tos(u, a) = Tos(t, a) \cup (IF e.aggregate = a THEN {e.to} ELSE {})
  BY <1>1 DEF Tos
<1> QED
  BY <1>1, <1>2, <1>3, <1>4 DEF u, n

(* The version a history gives an aggregate is the highest one in it.      *)
LEMMA VersionIsTop ==
    ASSUME NEW h, NEW a, NEW v,
           IsTop(v, {0} \cup Tos(h, a)), Tos(h, a) \subseteq Nat
    PROVE  Log!VersionIn(h, a) = v
<1> DEFINE S == {0} \cup Tos(h, a)
<1>1. S \subseteq Nat /\ v \in S /\ \A t \in S : t <= v
  BY DEF IsTop
<1>2. Log!VersionIn(h, a) = CHOOSE x \in S : \A y \in S : x >= y
  BY DEF Log!VersionIn, Log!Max, Tos
<1> HIDE DEF S
<1>3. \A x \in S : (\A y \in S : x >= y) => x = v
  BY <1>1
<1>4. \A y \in S : v >= y
  BY <1>1
<1> QED
  BY <1>1, <1>2, <1>3, <1>4

(* The highest of A, then of B above it, is the highest of both.           *)
LEMMA TopOfBoth ==
    ASSUME NEW h \in Nat, NEW v \in Nat,
           NEW A \in SUBSET Nat, NEW B \in SUBSET Nat,
           IsTop(h, {0} \cup A), IsTop(v, {h} \cup B)
    PROVE  IsTop(v, {0} \cup (A \cup B))
<1>1. v \in {0} \cup (A \cup B)
  BY DEF IsTop
<1>2. ASSUME NEW t \in {0} \cup (A \cup B) PROVE t <= v
  <2>1. t \in Nat /\ h <= v
    BY DEF IsTop
  <2>2. t \in B => t <= v
    BY DEF IsTop
  <2>3. t \in {0} \cup A => t <= h
    BY DEF IsTop
  <2> QED
    BY <2>1, <2>2, <2>3
<1> QED
  BY <1>1, <1>2 DEF IsTop

(* An expectation that is not Any is the version it matches.               *)
LEMMA MatchIsEqual ==
    ASSUME NEW expected \in Expectations, NEW v \in Nat,
           VersionMatches(expected, v), ~Log!IsAny(expected)
    PROVE  expected = v
<1>1. expected \in Nat
  BY ExpectationsAssumption DEF Log!IsAny, Log!Any, Any
<1> QED
  BY <1>1 DEF VersionMatches, IsAny, IsNoStream, IsExact, NoStream, Any

-----------------------------------------------------------------------------
(* Steps.                                                                  *)

LEMMA AcceptedFacts ==
    ASSUME TypeOK, LogInv, NEW c \in Clients, NEW i \in DOMAIN accepted[c]
    PROVE  /\ accepted[c] \in Seq(AppendRecords)
           /\ accepted[c][i] \in AppendRecords
           /\ accepted[c][i].aggregate \in Aggregates
           /\ accepted[c][i].to \in Tos(accepted[c], accepted[c][i].aggregate)
           /\ newHeads[c][accepted[c][i].aggregate] # 0
<1> DEFINE e == accepted[c][i]
<1>1. accepted[c] \in Seq(AppendRecords)
  BY DEF TypeOK
<1>2. e \in AppendRecords
  BY <1>1, LenProperties, ElementOfSeq
<1>3. e.aggregate \in Aggregates /\ e.to \in Nat \ {0}
  BY <1>2 DEF AppendRecords
<1>4. e.to \in Tos(accepted[c], e.aggregate)
  BY DEF Tos
<1>5. newHeads[c][e.aggregate] \in Nat /\ e.to <= newHeads[c][e.aggregate]
  BY <1>3, <1>4 DEF TypeOK, LogInv, AcceptedContinue, IsTop
<1> QED
  BY <1>1, <1>2, <1>3, <1>4, <1>5

(* A client goes on as long as the heads of the aggregates it has written  *)
(* stay: those it has upserted, and the one of its call once it inserts.   *)
WritesOn(c, a) ==
    \/ newHeads[c][a] # 0
    \/ phase[c] \in InAppend /\ call[c].aggregate = a /\ call[c].inserted > 0

LEMMA OtherContinues ==
    ASSUME TypeOK, LogInv, NEW d \in Clients,
           phase'[d] = phase[d], newHeads'[d] = newHeads[d],
           accepted'[d] = accepted[d], call'[d] = call[d],
           \A a \in Aggregates : WritesOn(d, a) => heads'[a] = heads[a]
    PROVE  AcceptedContinue(d)' /\ CallContinues(d)'
<1>1. AcceptedContinue(d)'
  <2>1. ASSUME NEW i \in DOMAIN accepted[d]
        PROVE  heads'[accepted[d][i].aggregate] = heads[accepted[d][i].aggregate]
    BY AcceptedFacts DEF WritesOn
  <2>2. ASSUME NEW i \in DOMAIN accepted[d]
        PROVE  Continues(accepted[d][i],
                         Before(accepted[d], i, accepted[d][i].aggregate))'
    BY <2>1 DEF LogInv, AcceptedContinue, Continues
  <2> QED
    BY <2>2 DEF LogInv, AcceptedContinue
<1>2. CallContinues(d)'
  <2> SUFFICES ASSUME phase[d] \in InAppend
               PROVE  CallContinues(d)'
    BY DEF CallContinues
  <2>1. /\ call[d].aggregate \in Aggregates
        /\ call[d].from \in Nat /\ call[d].inserted \in Nat
    BY BoundsAssumption DEF TypeOK, CallFitsPhase, Calls
  <2> QED
    BY <2>1 DEF LogInv, CallContinues, Current, WritesOn
<1> QED
  BY <1>1, <1>2

(* A step of one client that moves no head.                                *)
LEMMA OneContinues ==
    ASSUME TypeOK, LogInv, NEW c \in Clients,
           heads' = heads, history' = history,
           Alone(c), \A d \in Clients \ {c} : accepted'[d] = accepted[d],
           AcceptedContinue(c)', CallContinues(c)'
    PROVE  LogInv'
<1>1. \A d \in Clients \ {c} : AcceptedContinue(d)' /\ CallContinues(d)'
  BY OtherContinues DEF Alone
<1> QED
  BY <1>1 DEF LogInv, HistoryEndsAtHeads

LEMMA SameAccepted ==
    ASSUME LogInv, NEW c \in Clients, heads' = heads,
           newHeads'[c] = newHeads[c], accepted'[c] = accepted[c]
    PROVE  AcceptedContinue(c)'
  BY DEF LogInv, AcceptedContinue, Continues

(* ... nor anything it has accepted, and starts no call.                   *)
LEMMA LogQuiet ==
    ASSUME TypeOK, LogInv, NEW c \in Clients, Alone(c),
           heads' = heads, history' = history,
           newHeads' = newHeads, accepted' = accepted,
           phase'[c] \in InAppend =>
               /\ phase[c] \in InAppend
               /\ call'[c].aggregate = call[c].aggregate
               /\ call'[c].expected = call[c].expected
               /\ call'[c].inserted = call[c].inserted
               /\ call'[c].from = call[c].from
    PROVE  LogInv'
<1>1. CallContinues(c)'
  BY DEF LogInv, CallContinues, Current
<1> QED
  BY <1>1, SameAccepted, OneContinues

LEMMA LogTakePosition ==
    ASSUME TypeOK, LogInv, NEW c \in Clients, TakePosition(c)
    PROVE  LogInv'
<1>1. /\ heads' = heads /\ history' = history
      /\ newHeads' = newHeads /\ accepted' = accepted
      /\ Alone(c)
  BY DEF TypeOK, Alone, TakePosition
<1>2. phase[c] \in InAppend /\ call[c] \in Calls
      /\ call' = [call EXCEPT ![c].position = FreshPosition(c)]
  BY DEF TakePosition, TypeOK, CallFitsPhase, InAppend
<1>3. /\ call'[c].aggregate = call[c].aggregate
      /\ call'[c].expected = call[c].expected
      /\ call'[c].inserted = call[c].inserted
      /\ call'[c].from = call[c].from
  BY <1>2 DEF TypeOK, Calls
<1> QED
  BY <1>1, <1>2, <1>3, LogQuiet

LEMMA LogQuietStep ==
    ASSUME TypeOK, LogInv, NEW c \in Clients,
           \/ Begin(c)
           \/ InsertConflicts(c)
           \/ StatementFails(c)
           \/ \E a \in Aggregates, expected \in Expectations :
                   AppendRefused(c, a, expected)
    PROVE  LogInv'
<1>1. /\ heads' = heads /\ history' = history
      /\ newHeads' = newHeads /\ accepted' = accepted
      /\ Alone(c) /\ phase'[c] \notin InAppend
  BY DEF TypeOK, Alone, Begin, InsertConflicts, StatementFails, AppendRefused,
     TakeSnapshot, database, InAppend
<1> QED
  BY <1>1, LogQuiet

LEMMA LogAppendStarts ==
    ASSUME TypeOK, LogInv, NEW c \in Clients, NEW a \in Aggregates,
           NEW expected \in Expectations, NEW ids \in Batches,
           AppendStarts(c, a, expected, ids)
    PROVE  LogInv'
<1>1. /\ heads' = heads /\ history' = history
      /\ newHeads' = newHeads /\ accepted' = accepted
      /\ Alone(c)
  BY DEF TypeOK, Alone, AppendStarts, TakeSnapshot, database
<1>2. /\ VersionMatches(expected, VisibleHead(c, a))
      /\ call'[c].expected = expected /\ call'[c].from = VisibleHead(c, a)
      /\ call'[c].inserted = 0
  BY DEF TypeOK, AppendStarts
<1>3. CallContinues(c)'
  BY <1>1, <1>2 DEF CallContinues, AppendStarts
<1> QED
  BY <1>1, <1>3, SameAccepted, OneContinues

(* The first row of a call is inserted right after the current head.       *)
LEMMA LogInserts ==
    ASSUME TypeOK, LogInv, NEW c \in Clients, InsertRow(c),
           call[c].inserted = 0 => call[c].from = Current(c, call[c].aggregate)
    PROVE  LogInv'
<1> DEFINE a == call[c].aggregate
<1>1. /\ heads' = heads /\ history' = history
      /\ newHeads' = newHeads /\ accepted' = accepted
      /\ Alone(c)
  BY DEF TypeOK, Alone, InsertRow, database
<1>2. call[c] \in Calls /\ phase[c] \in InAppend
  BY NewRowFacts DEF InsertRow, InAppend
<1>3. call[c].inserted \in Nat
  BY <1>2, BoundsAssumption DEF Calls
<1>4. call[c].from = Current(c, a)
  BY <1>2, <1>3 DEF LogInv, CallContinues
<1>5. /\ call'[c].aggregate = a /\ call'[c].from = call[c].from
      /\ call'[c].expected = call[c].expected
  BY <1>2 DEF InsertRow, TypeOK, Calls
<1>6. /\ VersionMatches(call[c].expected, call[c].from)
      /\ Len(accepted[c]) < MaxAppends
  BY <1>2 DEF LogInv, CallContinues
<1>7. CallContinues(c)'
  BY <1>1, <1>4, <1>5, <1>6 DEF CallContinues, Current
<1> QED
  BY <1>1, <1>7, SameAccepted, OneContinues

LEMMA LogInsertRow ==
    ASSUME TypeOK, WriterInv, LogInv, NEW c \in Clients, InsertRow(c)
    PROVE  LogInv'
<1> DEFINE a == call[c].aggregate
<1>1. /\ call[c] \in Calls
      /\ NewRow(c).version = call[c].from + call[c].inserted + 1
  BY NewRowFacts DEF InsertRow
<1>2. /\ call[c].from \in Nat /\ call[c].inserted \in Nat
      /\ a \in Aggregates /\ heads[a] \in Nat /\ newHeads[c][a] \in Nat
  BY <1>1, BoundsAssumption DEF Calls, TypeOK
<1>3. ASSUME call[c].inserted = 0 PROVE call[c].from = Current(c, a)
  <2>1. PendingHead(c, a) = newHeads[c][a]
    BY <1>3 DEF PendingHead
  <2>2. NewRow(c).version = 1 + (IF newHeads[c][a] # 0
                                 THEN newHeads[c][a] ELSE heads[a])
    BY <2>1, InsertIsNext
  <2> QED
    BY <1>1, <1>2, <1>3, <2>2 DEF Current
<1> QED
  BY <1>3, LogInserts

(* What a transaction has written lies above the committed heads.          *)
LEMMA NewHeadsAreAbove ==
    ASSUME TypeOK, LogInv, NEW c \in Clients, NEW a \in Aggregates
    PROVE  /\ newHeads[c][a] = 0 => Tos(accepted[c], a) = {}
           /\ newHeads[c][a] # 0 => newHeads[c][a] \in Tos(accepted[c], a)
                                     /\ newHeads[c][a] > heads[a]
<1> DEFINE v == newHeads[c][a]
<1>1. accepted[c] \in Seq(AppendRecords) /\ v \in Nat /\ heads[a] \in Nat
  BY DEF TypeOK
<1>2. Tos(accepted[c], a) \subseteq Nat \ {0}
  BY <1>1, TosAreVersions
<1>3. IsTop(v, {0} \cup Tos(accepted[c], a))
  BY DEF LogInv, AcceptedContinue
<1>4. v = 0 => Tos(accepted[c], a) = {}
  BY <1>2, <1>3 DEF IsTop
<1>5. ASSUME v # 0 PROVE v \in Tos(accepted[c], a) /\ v > heads[a]
  <2>1. v \in Tos(accepted[c], a)
    BY <1>3, <1>5 DEF IsTop
  <2>2. PICK i \in DOMAIN accepted[c] :
            accepted[c][i].aggregate = a /\ accepted[c][i].to = v
    BY <2>1 DEF Tos
  <2>3. /\ accepted[c][i].to > accepted[c][i].from
        /\ heads[a] <= accepted[c][i].from
    BY <2>2 DEF LogInv, AcceptedContinue, Continues, IsTop
  <2>4. accepted[c][i].from \in Nat
    BY AcceptedFacts DEF AppendRecords
  <2> QED
    BY <1>1, <2>1, <2>2, <2>3, <2>4
<1> QED
  BY <1>4, <1>5

LEMMA LogUpsertHead ==
    ASSUME TypeOK, LogInv, NEW c \in Clients, UpsertHead(c)
    PROVE  LogInv'
<1> DEFINE a == call[c].aggregate
           t == accepted[c]
           latest == call[c].from + Len(call[c].ids)
           e == [aggregate |-> a, expected |-> call[c].expected,
                 from |-> call[c].from, to |-> latest]
<1>1. /\ call[c] \in Calls
      /\ call[c].inserted = Len(call[c].ids)
      /\ Len(call[c].ids) \in 1..MaxBatch
      /\ phase[c] \in InAppend
  BY BatchFacts
     DEF TypeOK, CallFitsPhase, InAppend, UpsertHead, LatestVersion, Calls
<1>2. /\ call[c].from \in Nat /\ latest \in Nat /\ latest > call[c].from
      /\ a \in Aggregates /\ heads[a] \in Nat /\ newHeads[c][a] \in Nat
      /\ e \in AppendRecords /\ t \in Seq(AppendRecords)
  <2>1. /\ call[c].from \in Nat /\ a \in Aggregates
        /\ call[c].expected \in Expectations
        /\ Len(call[c].ids) \in Nat /\ Len(call[c].ids) >= 1
    BY <1>1, BoundsAssumption DEF Calls
  <2>2. latest \in Nat \ {0} /\ latest > call[c].from
    BY <2>1
  <2>3. heads[a] \in Nat /\ newHeads[c][a] \in Nat /\ t \in Seq(AppendRecords)
    BY <2>1 DEF TypeOK
  <2> HIDE DEF latest
  <2>4. e \in AppendRecords
    BY <2>1, <2>2 DEF AppendRecords
  <2> QED
    BY <2>1, <2>2, <2>3, <2>4
<1>3. /\ heads' = heads /\ history' = history /\ Alone(c)
      /\ accepted'[c] = Append(t, e)
      /\ \A d \in Clients \ {c} : accepted'[d] = accepted[d]
      /\ newHeads'[c] = [newHeads[c] EXCEPT ![a] = latest]
      /\ phase'[c] \notin InAppend
  BY DEF TypeOK, UpsertHead, LatestVersion, Alone, database, InAppend
<1>4. /\ Len(t) < MaxAppends
      /\ VersionMatches(call[c].expected, call[c].from)
      /\ call[c].from = Current(c, a)
  BY <1>1, BoundsAssumption DEF LogInv, CallContinues
<1>5. Tos(t, a) \subseteq Nat /\ Len(t) \in Nat /\ DOMAIN t = 1..Len(t)
  BY <1>2, TosAreVersions, LenProperties
<1>6. /\ \A x \in Tos(t, a) : x <= newHeads[c][a]
      /\ newHeads[c][a] = 0 => Tos(t, a) = {}
      /\ newHeads[c][a] # 0 =>
            newHeads[c][a] \in Tos(t, a) /\ newHeads[c][a] > heads[a]
  BY <1>2, NewHeadsAreAbove DEF LogInv, AcceptedContinue, IsTop
<1> HIDE DEF e, t, latest
<1>7. IsTop(call[c].from, {heads[a]} \cup Tos(t, a))
  BY <1>2, <1>4, <1>5, <1>6 DEF IsTop, Current
<1>8. /\ Len(Append(t, e)) = Len(t) + 1 /\ Append(t, e)[Len(t) + 1] = e
      /\ \A i \in 1..Len(t) : Append(t, e)[i] = t[i]
      /\ DOMAIN Append(t, e) = 1..(Len(t) + 1)
  BY <1>2, <1>5, AppendProperties, LenProperties
<1>9. \A b : /\ \A i \in 1..Len(t) : Before(Append(t, e), i, b) = Before(t, i, b)
             /\ Before(Append(t, e), Len(t) + 1, b) = Tos(t, b)
             /\ Tos(Append(t, e), b) = Tos(t, b) \cup
                    (IF a = b THEN {latest} ELSE {})
  <2>1. e.aggregate = a /\ e.to = latest
    BY DEF e
  <2> QED
    BY <1>2, <2>1, TosOfAppend
<1>10. \A i \in 1..(Len(t) + 1) :
          Continues(Append(t, e)[i],
                    Before(Append(t, e), i, Append(t, e)[i].aggregate))
  <2>1. ASSUME NEW i \in 1..Len(t)
       
      PROVE  Continues(Append(t, e)[i],
                    Before(Append(t, e), i, Append(t, e)[i].aggregate))
    BY <1>5, <1>8, <1>9 DEF LogInv, AcceptedContinue, t
  <2>2. Continues(e, Before(Append(t, e), Len(t) + 1, e.aggregate))
    <3>1. e.aggregate = a /\ e.to > e.from /\ e.from = call[c].from
          /\ e.expected = call[c].expected
      BY <1>2 DEF e
    <3> QED
      BY <1>4, <1>7, <1>9, <3>1 DEF Continues
  <2> QED
    BY <1>5, <1>8, <2>1, <2>2
<1>11. ASSUME NEW b \in Aggregates
       PROVE  IsTop(newHeads'[c][b], {0} \cup Tos(Append(t, e), b))
  <2>1. CASE a = b
    <3>1. newHeads'[c][b] = latest
      BY <1>2, <1>3, <2>1 DEF TypeOK
    <3> QED
      BY <1>2, <1>5, <1>7, <1>9, <2>1, <3>1 DEF IsTop
  <2>2. CASE a # b
    <3>1. newHeads'[c][b] = newHeads[c][b]
      BY <1>3, <2>2 DEF TypeOK
    <3> QED
      BY <1>9, <2>2, <3>1 DEF LogInv, AcceptedContinue, t
  <2> QED
    BY <2>1, <2>2
<1>12. AcceptedContinue(c)'
  <2>1. Len(accepted'[c]) <= MaxAppends
    BY <1>3, <1>4, <1>5, <1>8, BoundsAssumption DEF e, t, latest
  <2>2. ASSUME NEW i \in 1..(Len(t) + 1)
       
      PROVE  Continues(accepted[c][i], Before(accepted[c], i, accepted[c][i].aggregate))'
    BY <1>3, <1>10, <2>2 DEF Continues, e, t, latest
  <2>3. DOMAIN accepted'[c] = 1..(Len(t) + 1)
    BY <1>3, <1>8 DEF e, t, latest
  <2>4. \A b \in Aggregates : IsTop(newHeads'[c][b], {0} \cup Tos(accepted'[c], b))
    BY <1>3, <1>11 DEF e, t, latest
  <2> QED
    BY <2>1, <2>2, <2>3, <2>4 DEF AcceptedContinue
<1> QED
  BY <1>3, <1>12, OneContinues DEF CallContinues

(* A client that has accepted nothing, or whose appends are committed.     *)
LEMMA NothingAccepted ==
    ASSUME NEW c \in Clients, accepted'[c] = << >>, newHeads'[c] = NoHeads
    PROVE  AcceptedContinue(c)'
<1>1. Len(<< >>) = 0 /\ DOMAIN << >> = {}
  BY EmptySeq
<1>2. \A a : Tos(<< >>, a) = {}
  BY <1>1 DEF Tos
<1> QED
  BY <1>1, <1>2, BoundsAssumption DEF AcceptedContinue, NoHeads, IsTop

LEMMA LogEnded ==
    ASSUME TypeOK, NEW c \in Clients, EndTransaction(c)
    PROVE  AcceptedContinue(c)' /\ CallContinues(c)'
<1>1. /\ accepted'[c] = << >> /\ newHeads'[c] = NoHeads /\ phase'[c] = "idle"
  BY DEF EndTransaction, TypeOK
<1> QED
  BY <1>1, NothingAccepted DEF CallContinues, InAppend

LEMMA LogRollback ==
    ASSUME TypeOK, LogInv, NEW c \in Clients, Rollback(c)
    PROVE  LogInv'
<1>1. /\ heads' = heads /\ history' = history /\ Alone(c) /\ EndTransaction(c)
      /\ \A d \in Clients \ {c} : accepted'[d] = accepted[d]
  BY DEF TypeOK, Rollback, EndTransaction, Alone, database
<1> QED
  BY <1>1, LogEnded, OneContinues

(* What is committed moves the heads to where it makes the history end.    *)
LEMMA LogPublish ==
    ASSUME TypeOK, LogInv, NEW c \in Clients, Publish(c), Alone(c),
           \A d \in Clients \ {c} : accepted'[d] = accepted[d],
           \A d \in Clients \ {c}, a \in Aggregates :
               WritesOn(d, a) => heads'[a] = heads[a],
           AcceptedContinue(c)', CallContinues(c)'
    PROVE  LogInv'
<1>1. /\ history' = history \o accepted[c]
      /\ heads' = [a \in Aggregates |->
                      IF newHeads[c][a] # 0 THEN newHeads[c][a] ELSE heads[a]]
  BY DEF Publish
<1>2. ASSUME NEW d \in Clients \ {c}
      PROVE AcceptedContinue(d)' /\ CallContinues(d)'
  BY OtherContinues DEF Alone
<1>3. ASSUME NEW a \in Aggregates
      PROVE IsTop(heads'[a], {0} \cup Tos(history', a))
  <2>1. /\ history \in Seq(AppendRecords) /\ accepted[c] \in Seq(AppendRecords)
        /\ heads[a] \in Nat /\ newHeads[c][a] \in Nat
    BY DEF TypeOK
  <2>2. Tos(history', a) = Tos(history, a) \cup Tos(accepted[c], a)
    BY <1>1, <2>1, TosOfConcat
  <2>3. Tos(history, a) \subseteq Nat /\ Tos(accepted[c], a) \subseteq Nat
    BY <2>1, TosAreVersions
  <2>4. /\ IsTop(heads[a], {0} \cup Tos(history, a))
        /\ IsTop(newHeads[c][a], {0} \cup Tos(accepted[c], a))
    BY DEF LogInv, HistoryEndsAtHeads, AcceptedContinue
  <2>5. CASE newHeads[c][a] = 0
    BY <1>1, <2>2, <2>4, <2>5, NewHeadsAreAbove
  <2>6. CASE newHeads[c][a] # 0
    <3>1. newHeads[c][a] \in Tos(accepted[c], a) /\ newHeads[c][a] > heads[a]
      BY <2>6, NewHeadsAreAbove
    <3>2. heads'[a] = newHeads[c][a]
      BY <1>1, <2>6
    <3> QED
      BY <2>1, <2>2, <2>3, <2>4, <3>1, <3>2 DEF IsTop
  <2> QED
    BY <2>5, <2>6
<1>4. HistoryEndsAtHeads'
  BY <1>3 DEF HistoryEndsAtHeads
<1> QED
  BY <1>2, <1>4 DEF LogInv

LEMMA LogCommit ==
    ASSUME TypeOK, WriterInv, LogInv, NEW c \in Clients, Commit(c)
    PROVE  LogInv'
<1>1. /\ Publish(c) /\ EndTransaction(c) /\ Alone(c)
      /\ \A d \in Clients \ {c} : accepted'[d] = accepted[d]
  BY DEF TypeOK, Commit, EndTransaction, Alone
<1>2. ASSUME NEW d \in Clients \ {c}, NEW a \in Aggregates, WritesOn(d, a)
      PROVE  heads'[a] = heads[a]
  <2>1. /\ call[d].from \in Nat /\ call[d].inserted \in Nat
        /\ newHeads[d][a] \in Nat
    BY BoundsAssumption DEF TypeOK, Calls, NoCall
  <2>2. PendingHead(d, a) # 0
    BY <1>2, <2>1 DEF PendingHead, WritesOn
  <2> QED
    BY <2>2, CommitFacts
<1> QED
  BY <1>1, <1>2, LogEnded, LogPublish

LEMMA LogStep ==
    ASSUME TypeOK, WriterInv, LogInv, [Next]_vars
    PROVE  LogInv'
<1>1. CASE UNCHANGED vars
  BY <1>1
     DEF vars, database, private, LogInv, HistoryEndsAtHeads, AcceptedContinue,
     Continues, CallContinues, Current
<1>2. CASE Next
  BY <1>2, LogQuietStep, LogTakePosition, LogAppendStarts, LogInsertRow,
     LogUpsertHead, LogRollback, LogCommit DEF Next, AppendStep, AssignPosition
<1> QED
  BY <1>1, <1>2

LEMMA LogInit == Init => LogInv
<1> SUFFICES ASSUME Init PROVE LogInv
  OBVIOUS
<1>1. Len(<< >>) = 0 /\ DOMAIN << >> = {}
  BY EmptySeq
<1>2. \A a : Tos(<< >>, a) = {}
  BY <1>1 DEF Tos
<1>3. ASSUME NEW c \in Clients PROVE AcceptedContinue(c) /\ CallContinues(c)
  BY <1>1, <1>2, BoundsAssumption
     DEF Init, AcceptedContinue, CallContinues, InAppend, NoHeads, IsTop
<1>4. HistoryEndsAtHeads
  BY <1>2 DEF Init, HistoryEndsAtHeads, NoHeads, IsTop
<1> QED
  BY <1>3, <1>4 DEF LogInv

-----------------------------------------------------------------------------
(* The refinement.                                                         *)

(* A commit adds to the history what its transaction has accepted.         *)
LEMMA PublishIsAccepted ==
    ASSUME TypeOK, LogInv, LogInv', NEW c \in Clients, Publish(c),
           accepted[c] # << >>
    PROVE  Log!CommitAppends
<1> DEFINE s == history
           t == accepted[c]
<1>1. /\ s \in Seq(AppendRecords) /\ t \in Seq(AppendRecords)
      /\ history' = s \o t
  BY DEF TypeOK, Publish
<1>2. /\ Len(s) \in Nat /\ Len(t) \in Nat /\ Len(t) # 0 /\ Len(t) <= MaxAppends
      /\ DOMAIN t = 1..Len(t)
  BY <1>1, LenProperties, EmptySeq DEF LogInv, AcceptedContinue
<1>3. /\ Len(s \o t) = Len(s) + Len(t)
      /\ s \o t \in Seq(AppendRecords)
      /\ \A i \in 1..(Len(s) + Len(t)) :
            (s \o t)[i] = IF i <= Len(s) THEN s[i] ELSE t[i - Len(s)]
  BY <1>1, ConcatProperties
<1>4. Len(s \o t) \in (Len(s) + 1)..(Len(s) + MaxAppends)
  BY <1>2, <1>3, BoundsAssumption
<1>5. SubSeq(s \o t, 1, Len(s)) = s
  <2>1. CASE s = << >>
    BY <2>1, SubSeqEmpty, EmptySeq
  <2>2. CASE s # << >>
    <3>1. Len(s) \in 1..Len(s) /\ 1 \in 1..Len(s)
      BY <1>1, <1>2, <2>2, EmptySeq
    <3> QED
      BY <1>1, <3>1, SubSeqOfConcat1, SubSeqFull
  <2> QED
    BY <2>1, <2>2
<1>6. ASSUME NEW i \in (Len(s) + 1)..Len(s \o t)
      PROVE  /\ (s \o t)[i] \in Log!Entries
             /\ Log!Accepts(SubSeq(s \o t, 1, i - 1), (s \o t)[i])
  <2> DEFINE k == i - Len(s)
             e == t[k]
             p == SubSeq(s \o t, 1, i - 1)
  <2>1. k \in 1..Len(t) /\ k \in 1..(Len(t) + 1) /\ i - 1 = Len(s) + k - 1
        /\ (s \o t)[i] = e
    BY <1>2, <1>3, <1>6
  <2>2. e \in AppendRecords
    BY <1>1, <2>1, ElementOfSeq
  <2>3. e \in Log!Entries
    BY <2>2 DEF AppendRecords, Log!Entries
  <2>4. /\ e.to > e.from
        /\ VersionMatches(e.expected, e.from)
        /\ IsTop(e.from, {heads[e.aggregate]} \cup Before(t, k, e.aggregate))
    BY <1>2, <2>1 DEF LogInv, AcceptedContinue, Continues
  <2>5. /\ e.aggregate \in Aggregates /\ e.from \in Nat
        /\ e.expected \in Expectations /\ heads[e.aggregate] \in Nat
    BY <2>2 DEF AppendRecords, TypeOK
  <2>6. IsTop(heads[e.aggregate], {0} \cup Tos(s, e.aggregate))
    BY <2>5 DEF LogInv, HistoryEndsAtHeads
  <2>7. Tos(p, e.aggregate) = Tos(s, e.aggregate) \cup Before(t, k, e.aggregate)
    BY <1>1, <2>1, TosOfPrefix
  <2>8. /\ Tos(s, e.aggregate) \subseteq Nat
        /\ Before(t, k, e.aggregate) \subseteq Nat
    BY <1>1, TosAreVersions
  <2> HIDE DEF e, p, k
  <2>9. IsTop(e.from, {0} \cup Tos(p, e.aggregate))
    <3> DEFINE A == Tos(s, e.aggregate)
               B == Before(t, k, e.aggregate)
               h == heads[e.aggregate]
               v == e.from
    <3>1. /\ h \in Nat /\ v \in Nat /\ A \in SUBSET Nat /\ B \in SUBSET Nat
          /\ IsTop(h, {0} \cup A) /\ IsTop(v, {h} \cup B)
      BY <2>4, <2>5, <2>6, <2>8
    <3> HIDE DEF A, B, h, v
    <3>2. IsTop(v, {0} \cup (A \cup B))
      BY <3>1, TopOfBoth
    <3> QED
      BY <2>7, <3>2 DEF A, B, v
  <2>10. Log!VersionIn(p, e.aggregate) = e.from
    BY <2>7, <2>8, <2>9, VersionIsTop
  <2>11. ~Log!IsAny(e.expected) => e.expected = e.from
    BY <2>4, <2>5, MatchIsEqual
  <2> QED
    BY <2>1, <2>3, <2>4, <2>10, <2>11 DEF Log!Accepts, p
<1>7. heads' = [a \in Aggregates |-> Log!VersionIn(s \o t, a)]
  <2>1. ASSUME NEW a \in Aggregates PROVE heads'[a] = Log!VersionIn(s \o t, a)
    <3>1. IsTop(heads'[a], {0} \cup Tos(s \o t, a))
      BY <1>1 DEF LogInv, HistoryEndsAtHeads
    <3>2. Tos(s \o t, a) \subseteq Nat
      BY <1>3, TosAreVersions
    <3> QED
      BY <3>1, <3>2, VersionIsTop
  <2>2. heads' = [a \in Aggregates |-> heads'[a]]
    BY DEF Publish
  <2> QED
    BY <2>1, <2>2
<1> QED
  BY <1>1, <1>4, <1>5, <1>6, <1>7 DEF Log!CommitAppends

LEMMA PublishRefines ==
    ASSUME TypeOK, LogInv, LogInv', NEW c \in Clients, Publish(c)
    PROVE  Log!Next \/ UNCHANGED <<history, heads>>
<1>1. CASE accepted[c] # << >>
  BY <1>1, PublishIsAccepted DEF Log!Next
<1>2. CASE accepted[c] = << >>
  <2>1. history' = history
    BY <1>2, ConcatEmptySeq DEF Publish, TypeOK
  <2>2. \A a \in Aggregates : newHeads[c][a] = 0
    <3>1. \A a : Tos(<< >>, a) = {}
      BY EmptySeq DEF Tos
    <3> QED
      BY <1>2, <3>1, NewHeadsAreAbove
  <2>3. heads' = heads
    BY <2>2 DEF Publish, TypeOK
  <2> QED
    BY <2>1, <2>3
<1> QED
  BY <1>1, <1>2

LEMMA LogRefines ==
    ASSUME TypeOK, WriterInv, LogInv, [Next]_vars
    PROVE  Log!Next \/ UNCHANGED <<history, heads>>
<1>1. CASE UNCHANGED vars
  BY <1>1 DEF vars, database
<1>2. ASSUME NEW c \in Clients, Commit(c)
      PROVE  Log!Next \/ UNCHANGED <<history, heads>>
  BY <1>2, LogStep, PublishRefines DEF Commit
<1>3. ASSUME NEW c \in Clients,
             \/ Begin(c)
             \/ \E a \in Aggregates, expected \in Expectations, ids \in Batches :
                     AppendStarts(c, a, expected, ids)
             \/ \E a \in Aggregates, expected \in Expectations :
                     AppendRefused(c, a, expected)
             \/ AppendStep(c)
             \/ StatementFails(c)
             \/ Rollback(c)
      PROVE  UNCHANGED <<history, heads>>
  BY <1>3 DEF AppendStep, Begin, AppendStarts, AppendRefused, AssignPosition,
     TakePosition, InsertRow, InsertConflicts, UpsertHead, StatementFails, Rollback,
     database
<1> QED
  BY <1>1, <1>2, <1>3 DEF Next

(* Append keeps its promise: the appends of committed transactions are one *)
(* history, in which each stands right where its caller expected the       *)
(* aggregate to be, and aggregate_heads is its summary.                    *)
THEOREM AppendsAreOneHistory == Spec => ImplementsEventLog
<1>1. Init => LogInv /\ Log!Init
  BY LogInit DEF Init, Log!Init, NoHeads
<1>2. TypeOK /\ WriterInv /\ LogInv /\ [Next]_vars
        => LogInv' /\ [Log!Next]_<<history, heads>>
  BY LogStep, LogRefines
<1> QED
  BY <1>1, <1>2, Invariance, PTL DEF Spec, ImplementsEventLog, Log!Spec

=============================================================================
