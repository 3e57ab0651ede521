----------------------------- MODULE RunnerProofs -----------------------------
(***************************************************************************)
(* Proofs about Runner, for every finite set of projections: no goroutine  *)
(* blocks on the error channel or sends after it was closed, and the       *)
(* result of Run tells why it ended.                                       *)
(***************************************************************************)
EXTENDS Runner, FiniteSetTheorems, SequenceTheorems, TLAPS

(* A sequence without repetitions over a finite set, and without one of    *)
(* its members, is shorter than the set is large.                          *)
LEMMA ShorterThanSet ==
    ASSUME NEW S, IsFiniteSet(S), NEW s \in Seq(S), NEW p \in S,
           \A i, j \in DOMAIN s : s[i] = s[j] => i = j,
           \A i \in DOMAIN s : s[i] # p
    PROVE  Len(s) < Cardinality(S)
<1> DEFINE T == S \ {p}
<1>1. IsFiniteSet(T) /\ Cardinality(T) = Cardinality(S) - 1
  BY FS_RemoveElement
<1>2. Len(s) \in Nat /\ DOMAIN s = 1..Len(s)
  OBVIOUS
<1>3. IsFiniteSet(1..Len(s)) /\ Cardinality(1..Len(s)) = Len(s)
  <2> DEFINE n == Len(s)
  <2>1. n \in Nat
    BY <1>2
  <2> HIDE DEF n
  <2>2. /\ IsFiniteSet(1..n)
        /\ Cardinality(1..n) = IF 1 > n THEN 0 ELSE n - 1 + 1
    BY <2>1, FS_Interval
  <2>3. Cardinality(1..n) = n
    BY <2>1, <2>2
  <2> QED
    BY <2>2, <2>3 DEF n
<1>4. s \in Injection(1..Len(s), T)
  BY <1>2 DEF Injection, IsInjective
<1>5. Cardinality(1..Len(s)) <= Cardinality(T)
  BY <1>1, <1>3, <1>4, FS_Injection
<1> HIDE DEF T
<1>6. Cardinality(S) \in Nat
  BY FS_CardinalityType
<1> QED
  BY <1>1, <1>2, <1>3, <1>5, <1>6

-----------------------------------------------------------------------------
(* The invariant holds initially.                                          *)
LEMMA RunnerInit == Init => TypeOK /\ RunnerInv
<1> SUFFICES ASSUME Init PROVE TypeOK /\ RunnerInv
  OBVIOUS
<1>1. TypeOK
  <2>1. errChan \in Seq(given)
    BY DEF Init
  <2>2. /\ goroutine \in [Projections -> {"none", "running", "returned", "done"}]
        /\ outcome \in [Projections -> Outcomes]
    BY DEF Init, Outcomes
  <2> QED
    BY <2>1, <2>2 DEF Init, TypeOK
<1>2. RunnerInv
  BY DEF Init, RunnerInv, Untouched, GoroutinesMatch, ChannelMatches, Sent,
         AloneInCharge, NoSendAfterClose, ResultTellsTheCause
<1> QED
  BY <1>1, <1>2

(* What a processor returns by itself or because its context is done.      *)
LEMMA ProcessorReturnsKeeps ==
    ASSUME TypeOK, RunnerInv, NEW p \in Projections,
           NEW how \in Outcomes \ {"none"}, ProcessorReturns(p, how),
           how \in {"nil", "failed"} \/ ctxErr # "none"
    PROVE  TypeOK' /\ RunnerInv'
<1> USE DEF ProcessorReturns, work, chan, back
<1>1. TypeOK'
  BY DEF TypeOK
<1>2. outcome[p] = "none" /\ p \in given
  BY DEF TypeOK, RunnerInv, GoroutinesMatch
<1>3. GoroutinesMatch'
  BY <1>2 DEF TypeOK, RunnerInv, GoroutinesMatch, Outcomes
<1>4. \A i \in DOMAIN errChan : errChan[i] \in Projections /\ errChan[i] # p
  BY DEF TypeOK, RunnerInv, ChannelMatches
<1>5. ChannelMatches'
  BY <1>4 DEF TypeOK, RunnerInv, ChannelMatches, Sent, Reported
<1>6. AloneInCharge'
  BY DEF TypeOK, RunnerInv, AloneInCharge
<1>7. NoSendAfterClose'
  BY <1>2 DEF TypeOK, RunnerInv, NoSendAfterClose
<1>8. ResultTellsTheCause'
  BY <1>2, RunnerAssumption DEF TypeOK, RunnerInv, ResultTellsTheCause
<1> QED
  BY <1>1, <1>3, <1>5, <1>6, <1>7, <1>8 DEF RunnerInv, Untouched

(* A goroutine ends, after it has sent its error.                          *)
LEMMA ReportErrorKeeps ==
    ASSUME TypeOK, RunnerInv, NEW p \in Projections, ReportError(p)
    PROVE  TypeOK' /\ RunnerInv'
<1> USE DEF ReportError, chan, back
<1>1. p \in given
  BY DEF TypeOK, RunnerInv, GoroutinesMatch
<1>2. errChan' \in Seq(given)
  BY <1>1 DEF TypeOK
<1>3. TypeOK'
  BY <1>2 DEF TypeOK
<1>4. GoroutinesMatch'
  BY DEF TypeOK, RunnerInv, GoroutinesMatch
<1>5. /\ Len(errChan) \in Nat /\ DOMAIN errChan = 1..Len(errChan)
      /\ DOMAIN errChan' = 1..(Len(errChan) + 1)
      /\ errChan'[Len(errChan) + 1] = p
      /\ \A i \in DOMAIN errChan :
            errChan'[i] = errChan[i] /\ errChan[i] \in Projections /\ errChan[i] # p
  BY <1>1 DEF TypeOK, RunnerInv, ChannelMatches
<1>6. ChannelMatches'
  <2>1. (\A i, j \in DOMAIN errChan : errChan[i] = errChan[j] => i = j)'
    BY <1>5 DEF RunnerInv, ChannelMatches
  <2>2. (\A i \in DOMAIN errChan :
            goroutine[errChan[i]] = "done" /\ Reported(outcome[errChan[i]]))'
    BY <1>5 DEF TypeOK, RunnerInv, ChannelMatches, Reported
  <2>3. ASSUME runPhase # "returned", NEW q \in given, goroutine'[q] = "done",
               Reported(outcome[q])
        PROVE  Sent(q)'
    <3>1. CASE q = p
      BY <3>1, <1>5 DEF Sent
    <3>2. CASE q # p
      <4>1. goroutine[q] = "done"
        BY <2>3, <3>2 DEF TypeOK
      <4>2. Sent(q)
        BY <2>3, <4>1 DEF RunnerInv, ChannelMatches
      <4> QED
        BY <4>2, <1>5 DEF Sent
    <3> QED
      BY <3>1, <3>2
  <2> QED
    BY <2>1, <2>2, <2>3 DEF ChannelMatches, Reported
<1>7. NoSendAfterClose'
  BY DEF TypeOK, RunnerInv, NoSendAfterClose
<1>8. AloneInCharge' /\ ResultTellsTheCause' /\ Untouched'
  BY <1>1 DEF RunnerInv, AloneInCharge, ResultTellsTheCause, Untouched
<1> QED
  BY <1>3, <1>4, <1>6, <1>7, <1>8 DEF RunnerInv

(* A goroutine ends, with nothing to report.                               *)
LEMMA KeepQuietKeeps ==
    ASSUME TypeOK, RunnerInv, NEW p \in Projections, KeepQuiet(p)
    PROVE  TypeOK' /\ RunnerInv'
<1> USE DEF KeepQuiet, chan, back
<1>1. TypeOK'
  BY DEF TypeOK
<1>2. GoroutinesMatch'
  BY DEF TypeOK, RunnerInv, GoroutinesMatch
<1>3. \A i \in DOMAIN errChan : errChan[i] \in Projections /\ errChan[i] # p
  BY DEF TypeOK, RunnerInv, ChannelMatches
<1>4. ChannelMatches'
  BY <1>3 DEF TypeOK, RunnerInv, ChannelMatches, Sent, Reported
<1>5. NoSendAfterClose'
  BY DEF TypeOK, RunnerInv, NoSendAfterClose
<1> QED
  BY <1>1, <1>2, <1>4, <1>5
  DEF RunnerInv, Untouched, AloneInCharge, ResultTellsTheCause

-----------------------------------------------------------------------------
(* The three ways out of the select keep the invariant.                    *)
LEMMA SelectKeeps ==
    ASSUME TypeOK, RunnerInv, Select
    PROVE  TypeOK' /\ RunnerInv'
<1> USE DEF Return, work
<1>1. CASE ReceiveError
  <2> USE DEF ReceiveError
  <2>1. /\ Head(errChan) \in given /\ Tail(errChan) \in Seq(given)
        /\ Head(errChan) = errChan[1] /\ 1 \in DOMAIN errChan
        /\ \A i \in DOMAIN Tail(errChan) :
                i + 1 \in DOMAIN errChan /\ Tail(errChan)[i] = errChan[i + 1]
    BY <1>1 DEF TypeOK
  <2>2. TypeOK'
    BY <1>1, <2>1 DEF TypeOK, Cancelled
  <2>3. (\A i, j \in DOMAIN errChan : errChan[i] = errChan[j] => i = j)'
    <3> SUFFICES ASSUME NEW i \in DOMAIN Tail(errChan), NEW j \in DOMAIN Tail(errChan),
                        Tail(errChan)[i] = Tail(errChan)[j]
                 PROVE  i = j
      BY <1>1
    <3>1. errChan[i + 1] = errChan[j + 1] /\ i + 1 \in DOMAIN errChan
              /\ j + 1 \in DOMAIN errChan
      BY <2>1
    <3>2. i + 1 = j + 1
      BY <3>1 DEF RunnerInv, ChannelMatches
    <3>3. i \in Nat /\ j \in Nat
      BY <2>1
    <3> QED
      BY <3>2, <3>3
  <2>4. ChannelMatches'
    BY <1>1, <2>1, <2>3 DEF RunnerInv, ChannelMatches, Reported
  <2>5. ResultTellsTheCause'
    BY <1>1, <2>1 DEF TypeOK, RunnerInv, ChannelMatches, AloneInCharge,
                      ResultTellsTheCause, Reported, GoroutinesMatch
  <2> QED
    BY <1>1, <2>2, <2>4, <2>5
    DEF RunnerInv, Untouched, GoroutinesMatch, AloneInCharge, NoSendAfterClose
<1>2. CASE ReceiveClosed
  <2> USE DEF ReceiveClosed
  <2>1. TypeOK'
    BY <1>2 DEF TypeOK, Cancelled
  <2>2. \A p \in given : goroutine[p] = "done" /\ ~Reported(outcome[p])
    BY <1>2 DEF RunnerInv, NoSendAfterClose, ChannelMatches, Sent
  <2>3. ResultTellsTheCause'
    BY <1>2, <2>2 DEF TypeOK, RunnerInv, AloneInCharge, GoroutinesMatch,
                      ResultTellsTheCause, Reported
  <2> QED
    BY <1>2, <2>1, <2>3
    DEF RunnerInv, Untouched, GoroutinesMatch, AloneInCharge, NoSendAfterClose,
        ChannelMatches, Reported
<1>3. CASE ContextDone
  <2> USE DEF ContextDone
  <2>1. TypeOK'
    BY <1>3 DEF TypeOK, Cancelled
  <2>2. ResultTellsTheCause'
    BY <1>3 DEF RunnerInv, AloneInCharge, ResultTellsTheCause
  <2> QED
    BY <1>3, <2>1, <2>2
    DEF RunnerInv, Untouched, GoroutinesMatch, AloneInCharge, NoSendAfterClose,
        ChannelMatches, Reported
<1> QED
  BY <1>1, <1>2, <1>3 DEF Select

(* Run is called, starts its goroutines, and has its channel closed.       *)
LEMMA CallKeeps ==
    ASSUME TypeOK, RunnerInv,
           NEW S \in SUBSET (Projections \cup {Nil}), Run(S) \/ RunRefused(S)
    PROVE  TypeOK' /\ RunnerInv'
<1>1. CASE Run(S)
  <2>1. errChan = << >> /\ given = {} /\ blamed = Nil /\ S \subseteq Projections
    BY <1>1 DEF Run, RunnerInv, Untouched
  <2>2. \A p \in Projections : goroutine[p] = "none"
    BY <2>1 DEF RunnerInv, GoroutinesMatch
  <2>3. TypeOK'
    BY <1>1, <2>1 DEF TypeOK, Run, work, chan, back
  <2> QED
    BY <1>1, <2>1, <2>2, <2>3
    DEF Run, work, chan, back, TypeOK, RunnerInv, Untouched, GoroutinesMatch,
        AloneInCharge, NoSendAfterClose, ChannelMatches, Reported,
        ResultTellsTheCause
<1>2. CASE RunRefused(S)
  <2>1. TypeOK'
    BY <1>2 DEF TypeOK, RunRefused, work, chan, back
  <2> QED
    BY <1>2, <2>1
    DEF RunRefused, work, chan, RunnerInv, Untouched, GoroutinesMatch,
        AloneInCharge, NoSendAfterClose, ChannelMatches, Reported,
        ResultTellsTheCause
<1> QED
  BY <1>1, <1>2

(* The start of a goroutine keeps the invariant.                           *)
LEMMA LaunchKeeps ==
    ASSUME TypeOK, RunnerInv, NEW p \in Projections, Launch(p)
    PROVE  TypeOK' /\ RunnerInv'
<1> USE DEF Launch, work, chan, back
<1>1. TypeOK'
  BY DEF TypeOK
<1>2. \A i \in DOMAIN errChan : errChan[i] \in Projections /\ errChan[i] # p
  BY DEF TypeOK, RunnerInv, ChannelMatches
<1>3. ChannelMatches'
  BY <1>2 DEF TypeOK, RunnerInv, ChannelMatches, Sent, Reported
<1>4. GoroutinesMatch'
  BY DEF TypeOK, RunnerInv, GoroutinesMatch
<1> QED
  BY <1>1, <1>3, <1>4
  DEF TypeOK, RunnerInv, Untouched, AloneInCharge, NoSendAfterClose,
      ResultTellsTheCause

(* Every step keeps the invariant.                                         *)
LEMMA RunnerStep == TypeOK /\ RunnerInv /\ [Next]_vars => TypeOK' /\ RunnerInv'
<1> SUFFICES ASSUME TypeOK, RunnerInv, [Next]_vars
             PROVE  TypeOK' /\ RunnerInv'
  OBVIOUS
<1>1. ASSUME NEW S \in SUBSET (Projections \cup {Nil}), Run(S) \/ RunRefused(S)
      PROVE  TypeOK' /\ RunnerInv'
  BY <1>1, CallKeeps
<1>2. ASSUME NEW p \in Projections, Launch(p)
      PROVE  TypeOK' /\ RunnerInv'
  BY <1>2, LaunchKeeps
<1>3. ASSUME NEW p \in Projections, ProcessorEnds(p)
      PROVE  TypeOK' /\ RunnerInv'
  BY <1>3, ProcessorReturnsKeeps DEF ProcessorEnds, Outcomes
<1>4. ASSUME NEW p \in Projections, ProcessorIsCancelled(p)
      PROVE  TypeOK' /\ RunnerInv'
  <2>1. PICK how \in {ctxErr, "interrupted"} : ProcessorReturns(p, how)
    BY <1>4 DEF ProcessorIsCancelled
  <2>2. ctxErr # "none" /\ how \in Outcomes \ {"none"}
    BY <1>4 DEF ProcessorIsCancelled, TypeOK, Outcomes
  <2> QED
    BY <2>1, <2>2, ProcessorReturnsKeeps
<1>5. ASSUME NEW p \in Projections, GoroutineStep(p)
      PROVE  TypeOK' /\ RunnerInv'
  BY <1>5, ReportErrorKeeps, KeepQuietKeeps DEF GoroutineStep
<1>6. CASE StartWaiting
  BY <1>6 DEF StartWaiting, work, chan, back, TypeOK, RunnerInv, Untouched,
              GoroutinesMatch, AloneInCharge, NoSendAfterClose, ChannelMatches,
              Sent, Reported, ResultTellsTheCause
<1>7. CASE CloseChan
  BY <1>7 DEF CloseChan, work, back, TypeOK, RunnerInv, Untouched,
              GoroutinesMatch, AloneInCharge, NoSendAfterClose, ChannelMatches,
              Sent, Reported, ResultTellsTheCause
<1>8. CASE Select
  BY <1>8, SelectKeeps
<1>9. ASSUME NEW cause \in Causes, CallerEndsContext(cause)
      PROVE  TypeOK' /\ RunnerInv'
  BY <1>9, RunnerAssumption
  DEF CallerEndsContext, work, chan, back, TypeOK, RunnerInv, Untouched,
      GoroutinesMatch, AloneInCharge, NoSendAfterClose, ChannelMatches,
      Sent, Reported, ResultTellsTheCause
<1>10. CASE UNCHANGED vars
  BY <1>10 DEF vars, work, chan, back, TypeOK, RunnerInv, Untouched,
               GoroutinesMatch, AloneInCharge, NoSendAfterClose, ChannelMatches,
               Sent, Reported, ResultTellsTheCause
<1> QED
  BY <1>1, <1>2, <1>3, <1>4, <1>5, <1>6, <1>7, <1>8, <1>9, <1>10 DEF Next

(* Types and the invariant hold in every reachable state: the goroutines,  *)
(* the WaitGroup and the contents of the channel agree with one another.   *)
THEOREM RunnerInvariance == Spec => [](TypeOK /\ RunnerInv)
  BY RunnerInit, RunnerStep, PTL DEF Spec

-----------------------------------------------------------------------------
(* The variables of Run and its goroutines keep their types.               *)
THEOREM RunnerTypes == Spec => []TypeOK
  BY RunnerInvariance, PTL

(* However late a goroutine ends, it never sends on the closed channel.    *)
THEOREM NoLateSend == Spec => []NoSendAfterClose
<1>1. RunnerInv => NoSendAfterClose
  BY DEF RunnerInv
<1> QED
  BY <1>1, RunnerInvariance, PTL

(* Without the caller's doing, the result of Run is the error of a         *)
(* projection that failed by itself, or nil when all of them returned nil. *)
THEOREM ResultIsHonest == Spec => []ResultTellsTheCause
<1>1. RunnerInv => ResultTellsTheCause
  BY DEF RunnerInv
<1> QED
  BY <1>1, RunnerInvariance, PTL

(* However many projections fail, and whether or not Run still receives, a *)
(* goroutine finds room for its error.                                     *)
THEOREM NoBlockedSend == Spec => []SendNeverBlocks
<1>1. TypeOK /\ RunnerInv => SendNeverBlocks
  <2> SUFFICES ASSUME TypeOK, RunnerInv, NEW p \in given, goroutine[p] = "returned"
               PROVE  Len(errChan) < Cardinality(given)
    BY DEF SendNeverBlocks, Capacity
  <2>1. IsFiniteSet(given)
    BY RunnerAssumption, FS_Subset DEF TypeOK
  <2>2. \A i \in DOMAIN errChan : errChan[i] # p
    BY DEF RunnerInv, ChannelMatches
  <2>3. \A i, j \in DOMAIN errChan : errChan[i] = errChan[j] => i = j
    BY DEF RunnerInv, ChannelMatches
  <2> QED
    BY <2>1, <2>2, <2>3, ShorterThanSet DEF TypeOK
<1> QED
  BY <1>1, RunnerInvariance, PTL

=============================================================================
