-------------------------------- MODULE Runner --------------------------------
(***************************************************************************)
(* Runner.Run of es/projection/runner: one goroutine per projection runs   *)
(* its processor, another one waits for all of them and closes the error   *)
(* channel, and Run returns with the first error or with its context.      *)
(*                                                                         *)
(* A processor is known by how its Run may end: with an error of its own   *)
(* at any time, and once the context is done with the context's error or,  *)
(* in the middle of a batch, with ErrProjectionStopped (see Processor).    *)
(***************************************************************************)
EXTENDS Naturals, Sequences, FiniteSets

CONSTANTS
    Projections,    \* projections with their processors
    Nil,            \* a nil projection or processor
    Causes          \* what ends the caller's context: cancel, deadline

ASSUME RunnerAssumption ==
    /\ IsFiniteSet(Projections)
    /\ Nil \notin Projections
    /\ Causes \subseteq {"canceled", "deadline"}

VARIABLES
    given,          \* the projections Run was called with
    runPhase,       \* where Run stands
    goroutine,      \* per projection: where its goroutine stands
    outcome,        \* per projection: what its processor's Run returned
    errChan,        \* the buffered errors, by projection
    closed,         \* errChan is closed
    ctxErr,         \* Err() of the derived context
    result,         \* what Run returned
    blamed,         \* the projection whose error Run returned
    endedByCaller   \* history: the caller's context was done during Run

work == <<goroutine, outcome>>
chan == <<errChan, closed>>
back == <<result, blamed>>
vars == <<given, runPhase, work, chan, ctxErr, back, endedByCaller>>

Outcomes == {"none", "nil", "failed", "interrupted", "canceled", "deadline"}

(* Variant: make(chan error, 1).                                           *)
OneSlot == 1

(* make(chan error, len(runners))                                          *)
Capacity == Cardinality(given)

(* err != nil && !errors.Is(err, context.Canceled)                         *)
Reported(how) == how \notin {"nil", "canceled"}

Init ==
    /\ given = {}
    /\ runPhase = "idle"
    /\ goroutine = [p \in Projections |-> "none"]
    /\ outcome = [p \in Projections |-> "none"]
    /\ errChan = << >>
    /\ closed = FALSE
    /\ ctxErr = "none"
    /\ result = "none"
    /\ blamed = Nil
    /\ endedByCaller = FALSE

-----------------------------------------------------------------------------
(* No projections, or a nil one.                                           *)
RunRefused(S) ==
    /\ runPhase = "idle"
    /\ S = {} \/ Nil \in S
    /\ runPhase' = "returned"
    /\ result' = "refused"
    /\ UNCHANGED <<given, work, chan, ctxErr, blamed, endedByCaller>>

(* Variant: without the checks for nil.                                    *)
RunUnchecked(S) ==
    /\ runPhase = "idle"
    /\ S # {}
    /\ given' = S
    /\ runPhase' = "launching"
    /\ UNCHANGED <<work, chan, ctxErr, back, endedByCaller>>

Run(S) ==
    /\ runPhase = "idle"
    /\ S # {} /\ Nil \notin S
    /\ given' = S
    /\ runPhase' = "launching"
    /\ UNCHANGED <<work, chan, ctxErr, back, endedByCaller>>

(* wg.Add and go, for one projection after the other.                      *)
Launch(p) ==
    /\ runPhase = "launching"
    /\ p \in given /\ goroutine[p] = "none"
    /\ goroutine' = [goroutine EXCEPT ![p] = "running"]
    /\ UNCHANGED <<given, runPhase, outcome, chan, ctxErr, back, endedByCaller>>

Launched == \A p \in given : goroutine[p] # "none"

StartWaiting ==
    /\ runPhase = "launching"
    /\ Launched
    /\ runPhase' = "waiting"
    /\ UNCHANGED <<given, work, chan, ctxErr, back, endedByCaller>>

-----------------------------------------------------------------------------
(* The goroutine of a projection.                                          *)

ProcessorReturns(p, how) ==
    /\ goroutine[p] = "running"
    /\ goroutine' = [goroutine EXCEPT ![p] = "returned"]
    /\ outcome' = [outcome EXCEPT ![p] = how]
    /\ UNCHANGED <<given, runPhase, chan, ctxErr, back, endedByCaller>>

(* A failure of its own; only processors other than the adapters' return   *)
(* nil.                                                                    *)
ProcessorEnds(p) == \E how \in {"nil", "failed"} : ProcessorReturns(p, how)

(* Between two batches, or in the middle of one.                           *)
ProcessorIsCancelled(p) ==
    /\ ctxErr # "none"
    /\ \E how \in {ctxErr, "interrupted"} : ProcessorReturns(p, how)

(* Variant: the goroutine cancels the others before it sends.              *)
CancelAndReport(p) ==
    /\ goroutine[p] = "returned"
    /\ Reported(outcome[p])
    /\ IF ctxErr = "none"
       THEN ctxErr' = "canceled" /\ UNCHANGED <<goroutine, errChan>>
       ELSE /\ errChan' = Append(errChan, p)
            /\ goroutine' = [goroutine EXCEPT ![p] = "done"]
            /\ UNCHANGED ctxErr
    /\ UNCHANGED <<given, runPhase, outcome, closed, back, endedByCaller>>

(* The send blocks while the channel is full.  wg.Done is deferred.        *)
ReportError(p) ==
    /\ goroutine[p] = "returned"
    /\ Reported(outcome[p])
    /\ Len(errChan) < Capacity
    /\ errChan' = Append(errChan, p)
    /\ goroutine' = [goroutine EXCEPT ![p] = "done"]
    /\ UNCHANGED <<given, runPhase, outcome, closed, ctxErr, back, endedByCaller>>

(* Variant: wg.Done is called after a send only.                           *)
EndSilently(p) ==
    /\ goroutine[p] = "returned"
    /\ ~Reported(outcome[p])
    /\ UNCHANGED vars

KeepQuiet(p) ==
    /\ goroutine[p] = "returned"
    /\ ~Reported(outcome[p])
    /\ goroutine' = [goroutine EXCEPT ![p] = "done"]
    /\ UNCHANGED <<given, runPhase, outcome, chan, ctxErr, back, endedByCaller>>

(* Variant: wg.Done is called before the send.                             *)
CloseEarly ==
    /\ runPhase \in {"waiting", "returned"} /\ given # {}
    /\ ~closed
    /\ \A p \in given : goroutine[p] # "running"
    /\ closed' = TRUE
    /\ UNCHANGED <<given, runPhase, work, errChan, ctxErr, back, endedByCaller>>

(* wg.Wait, then close: a goroutine that Run starts after the others and   *)
(* that outlives it.                                                       *)
CloseChan ==
    /\ runPhase \in {"waiting", "returned"} /\ given # {}
    /\ ~closed
    /\ \A p \in given : goroutine[p] = "done"
    /\ closed' = TRUE
    /\ UNCHANGED <<given, runPhase, work, errChan, ctxErr, back, endedByCaller>>

-----------------------------------------------------------------------------
(* The select at the end of Run, and the deferred cancel.                  *)

Cancelled == IF ctxErr = "none" THEN "canceled" ELSE ctxErr

Return(how, p) ==
    /\ runPhase' = "returned"
    /\ result' = how
    /\ blamed' = p
    /\ ctxErr' = Cancelled
    /\ UNCHANGED <<given, work, closed, endedByCaller>>

ReceiveError ==
    /\ runPhase = "waiting"
    /\ errChan # << >>
    /\ errChan' = Tail(errChan)
    /\ Return("failed", Head(errChan))

ReceiveClosed ==
    /\ runPhase = "waiting"
    /\ errChan = << >> /\ closed
    /\ Return(IF ctxErr = "none" THEN "nil" ELSE ctxErr, Nil)
    /\ UNCHANGED errChan

ContextDone ==
    /\ runPhase = "waiting"
    /\ ctxErr # "none"
    /\ Return(ctxErr, Nil)
    /\ UNCHANGED errChan

(* The caller's context is cancelled or its deadline passes, before Run is *)
(* called or while it runs.                                                *)
CallerEndsContext(cause) ==
    /\ runPhase # "returned"
    /\ ctxErr = "none"
    /\ ctxErr' = cause
    /\ endedByCaller' = TRUE
    /\ UNCHANGED <<given, runPhase, work, chan, back>>

-----------------------------------------------------------------------------
Select == ReceiveError \/ ReceiveClosed \/ ContextDone

GoroutineStep(p) == ReportError(p) \/ KeepQuiet(p)

Next ==
    \/ \E S \in SUBSET (Projections \cup {Nil}) : Run(S) \/ RunRefused(S)
    \/ \E p \in Projections :
        \/ Launch(p)
        \/ ProcessorEnds(p)
        \/ ProcessorIsCancelled(p)
        \/ GoroutineStep(p)
    \/ StartWaiting
    \/ CloseChan
    \/ Select
    \/ \E cause \in Causes : CallerEndsContext(cause)

Spec == Init /\ [][Next]_vars

(* Goroutines that can run do; a processor whose context is done returns,  *)
(* as every Processor.Run of the adapters does once its handler returns.   *)
Fairness ==
    /\ \A p \in Projections :
        /\ WF_vars(Launch(p))
        /\ WF_vars(ProcessorIsCancelled(p))
        /\ WF_vars(GoroutineStep(p))
    /\ WF_vars(StartWaiting)
    /\ WF_vars(CloseChan)
    /\ WF_vars(Select)

FairSpec == Spec /\ Fairness

-----------------------------------------------------------------------------
(* Properties.                                                             *)

(* Types: the states of Run, of its goroutines and of the channel.         *)
TypeOK ==
    /\ given \subseteq Projections
    /\ runPhase \in {"idle", "launching", "waiting", "returned"}
    /\ goroutine \in [Projections -> {"none", "running", "returned", "done"}]
    /\ outcome \in [Projections -> Outcomes]
    /\ errChan \in Seq(given)
    /\ closed \in BOOLEAN
    /\ ctxErr \in {"none", "canceled", "deadline"}
    /\ result \in {"none", "refused", "nil", "failed", "canceled", "deadline"}
    /\ blamed \in given \cup {Nil}
    /\ endedByCaller \in BOOLEAN

(* No goroutine ever sends on a closed channel (it would panic), also not  *)
(* one that ends long after Run has returned.                              *)
NoSendAfterClose == closed => \A p \in given : goroutine[p] = "done"

(* Unless the caller ends the context, Run's result tells why it ended:    *)
(* it is the error of a projection that failed by itself, never of one     *)
(* that Run's own cancel cut off, and nil only if all of them returned nil.*)
ResultTellsTheCause ==
    runPhase = "returned" /\ result # "refused" /\ ~endedByCaller =>
        \/ result = "failed" /\ outcome[blamed] = "failed"
        \/ result = "nil" /\ \A p \in given : outcome[p] = "nil"

(* No goroutine waits for room in the channel, also when nobody receives   *)
(* any more: the buffer has a place for every projection.                  *)
SendNeverBlocks == \A p \in given :
    goroutine[p] = "returned" => Len(errChan) < Capacity

(* Why these hold: the inductive invariant of the proofs.  Until Run       *)
(* returns the channel holds exactly the goroutines that reported, each    *)
(* once, and only the caller can have ended the context, so without it no  *)
(* processor ends but by itself.                                           *)
Untouched == runPhase = "idle" =>
    given = {} /\ errChan = << >> /\ blamed = Nil

GoroutinesMatch == \A p \in Projections :
    /\ goroutine[p] # "none" => p \in given
    /\ outcome[p] = "none" <=> goroutine[p] \in {"none", "running"}

Sent(p) == \E i \in DOMAIN errChan : errChan[i] = p

ChannelMatches ==
    /\ \A i, j \in DOMAIN errChan : errChan[i] = errChan[j] => i = j
    /\ \A i \in DOMAIN errChan :
            goroutine[errChan[i]] = "done" /\ Reported(outcome[errChan[i]])
    /\ runPhase # "returned" => \A p \in given :
            goroutine[p] = "done" /\ Reported(outcome[p]) => Sent(p)

AloneInCharge == runPhase # "returned" /\ ~endedByCaller =>
    ctxErr = "none" /\ \A p \in Projections : outcome[p] \in {"none", "nil", "failed"}

RunnerInv ==
    /\ Untouched
    /\ GoroutinesMatch
    /\ ChannelMatches
    /\ AloneInCharge
    /\ closed => runPhase \in {"waiting", "returned"}
    /\ NoSendAfterClose
    /\ ResultTellsTheCause

(* Run returns once a projection has failed, once all have ended and once  *)
(* the context is done, whatever the other projections are doing.          *)
RunReturns ==
    ( /\ runPhase \in {"launching", "waiting"}
      /\ \/ \E p \in given : outcome[p] = "failed"
         \/ \A p \in given : outcome[p] # "none"
         \/ ctxErr # "none" ) ~> runPhase = "returned"

(* No goroutine outlives Run for ever: the processors are cancelled, their *)
(* errors find room in a channel nobody reads any more, and the one that   *)
(* waits for them closes it.                                               *)
GoroutinesEnd == (runPhase = "returned" /\ given # {}) ~>
    (closed /\ \A p \in given : goroutine[p] = "done")

=============================================================================
