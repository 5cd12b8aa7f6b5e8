--------------------------- MODULE HarnessProofs ---------------------------
(***************************************************************************)
(* Harness for every constant: types and the live token first, then        *)
(* claims, interruptions, stops, recovery, answers and intents. The latter *)
(* are consequences of five inductive invariants, each adding what a step  *)
(* in flight relies on:                                                    *)
(*   OwnershipInv  an interruption request is for an owner that is         *)
(*                 stopping; whoever holds the gate across a save or a     *)
(*                 join keeps the run in the state it decided on           *)
(*   ChargeInv     the sweep's decision stands until its charge is saved   *)
(*   GivenInv      a live drain's lease is for the park its host was given *)
(*   ServedInv     the park that is there is newer than the one served     *)
(*                 last, unless it is about to be acknowledged             *)
(*   IntentInv     what is owed is pending, and the doorbell of an owner   *)
(*                 that drains or stops holds it                           *)
(***************************************************************************)
EXTENDS Harness, TLAPS

LEMMA ScopeTypes ==
  /\ \A s \in MaybeScope, t \in Scopes : widerScope(s, t) \in Scopes
  /\ \A s, t \in MaybeScope : remainingPending(s, t) \in MaybeScope
  /\ \A s, t \in MaybeScope : Widest(s, t) \in MaybeScope
BY DEF Scopes, MaybeScope, widerScope, remainingPending, Widest

LEMMA RungType ==
  ASSUME NEW e \in Execution, NEW s \in Scopes
  PROVE  Rung(e, s) \in Execution /\ Started(s) \in Execution /\ NoExec \in Execution
BY ScopeTypes DEF Rung, Started, NoExec, Execution, Phases, Owned, Acquired, Settling, Scopes, MaybeScope

\* A run's control keeps its type when more tokens and generations are handed out.
LEMMA ControlGrows ==
  ASSUME TypeOK, NEW c \in RunControl, drainSeq' \in Nat, generationSeq' \in Nat,
         drainSeq' >= drainSeq, generationSeq' >= generationSeq
  PROVE  c \in RunControl'
BY DEF TypeOK, CoordinatorOK, ControlOK, RunControl, Park

LEMMA EmptyTypes == TypeOK => emptyControl \in RunControl /\ NoPark \in Park
BY DEF TypeOK, CoordinatorOK, ControlOK, emptyControl, NoPark, RunControl, Park, MaybeScope, Scopes

LEMMA RingType ==
  ASSUME TypeOK, NEW r \in Runs, NEW s \in Scopes, Ring(r, s),
         UNCHANGED <<drainSeq, generationSeq>>
  PROVE  /\ exec' \in [Runs -> Execution]
         /\ control' \in [Runs -> RunControl']
         /\ owed' \in [Runs -> MaybeScope]
         /\ stopped' \in [Runs -> BOOLEAN]
<1>1. exec' \in [Runs -> Execution]
  BY RungType DEF TypeOK, CoordinatorOK, ControlOK, Ring
<1>2. control' \in [Runs -> RunControl']
  <2>1. widerScope(control[r].pending, s) \in MaybeScope
    BY ScopeTypes DEF TypeOK, CoordinatorOK, ControlOK, RunControl, MaybeScope
  <2>2. [control[r] EXCEPT !.pending = widerScope(@, s)] \in RunControl
    BY <2>1 DEF TypeOK, CoordinatorOK, ControlOK, RunControl
  <2>3. RunControl' = RunControl
    BY DEF RunControl, Park
  <2> QED
    BY <2>2, <2>3 DEF TypeOK, CoordinatorOK, ControlOK, Ring
<1>3. owed' \in [Runs -> MaybeScope]
  BY ScopeTypes DEF TypeOK, CoordinatorOK, ControlOK, Ring, MaybeScope
<1>4. stopped' \in [Runs -> BOOLEAN]
  BY DEF TypeOK, CoordinatorOK, ControlOK, Ring
<1> QED
  BY <1>1, <1>2, <1>3, <1>4

\* Fields of an execution that a step replaces keep its type.
LEMMA ExecTypes ==
  ASSUME NEW e \in Execution
  PROVE  /\ \A p \in Phases : [e EXCEPT !.phase = p] \in Execution
         /\ \A p \in Phases : [e EXCEPT !.phase = p, !.interrupted = FALSE] \in Execution
         /\ [e EXCEPT !.interrupted = TRUE] \in Execution
         /\ [e EXCEPT !.pendingWake = "none"] \in Execution
         /\ e.pendingWake # "none" =>
              [e EXCEPT !.phase = "loop", !.scope = e.pendingWake, !.pendingWake = "none"]
                \in Execution
         /\ \A why \in {"user", "shutdown"} :
              [e EXCEPT !.stopping = TRUE, !.pendingWake = "none", !.reason = why] \in Execution
         /\ TerminallyStopped(e) \in Execution
         /\ Successor(e) \in Execution
<1> USE DEF Execution
<1>1. e.pendingWake \in Scopes \/ e.pendingWake = "none"
  BY DEF MaybeScope
<1>2. \A p \in Phases : [e EXCEPT !.phase = p] \in Execution
  OBVIOUS
<1>3. \A p \in Phases : [e EXCEPT !.phase = p, !.interrupted = FALSE] \in Execution
  OBVIOUS
<1>4. [e EXCEPT !.interrupted = TRUE] \in Execution
  OBVIOUS
<1>5. [e EXCEPT !.pendingWake = "none"] \in Execution
  BY DEF MaybeScope
<1>6. ASSUME e.pendingWake # "none"
      PROVE  [e EXCEPT !.phase = "loop", !.scope = e.pendingWake, !.pendingWake = "none"]
               \in Execution
  <2>1. "loop" \in Phases
    BY DEF Phases, Owned, Acquired
  <2> QED
    BY <1>1, <1>6, <2>1 DEF MaybeScope
<1>7. \A why \in {"user", "shutdown"} :
        [e EXCEPT !.stopping = TRUE, !.pendingWake = "none", !.reason = why] \in Execution
  BY DEF MaybeScope
<1>8. TerminallyStopped(e) \in Execution
  BY DEF TerminallyStopped, MaybeScope
<1>9. Successor(e) \in Execution
  <2>1. \A s \in Scopes : Started(s) \in Execution
    BY RungType
  <2>2. NoExec \in Execution
    BY DEF NoExec, Phases, MaybeScope, Scopes
  <2> HIDE DEF Execution
  <2> QED
    BY <1>1, <2>1, <2>2 DEF Successor
<1> QED
  BY <1>2, <1>3, <1>4, <1>5, <1>6, <1>7, <1>8, <1>9

LEMMA LeaveType ==
  ASSUME CoordinatorOK, NEW r \in Runs, NEW e, Leave(r, e)
  PROVE  CoordinatorOK'
<1>1. "releasing" \in Phases /\ "settled" \in Phases
  BY DEF Phases, Settling
<1> QED
  BY <1>1, ExecTypes DEF CoordinatorOK, Leave

LEMMA CoordinatorOwner ==
  ASSUME CoordinatorOK, NEW r \in Runs, OwnerStep(r) \/ OwnerGateStep(r) \/ HostReturns(r)
  PROVE  CoordinatorOK'
<1>0. {"claiming", "loop", "begin", "draining", "ending", "drained", "settled"} \subseteq Phases
  BY DEF Phases, Owned, Acquired, Settling
<1> USE DEF CoordinatorOK
<1>1. CASE ClaimStarts(r)
  BY <1>0, <1>1, ExecTypes DEF ClaimStarts
<1>2. CASE ClaimSaved(r)
  BY <1>0, <1>2, ExecTypes DEF ClaimSaved
<1>3. CASE ClaimFails(r) \/ Unwind(r) \/ LoopStops(r) \/ LoopEnds(r)
  BY <1>3, LeaveType DEF ClaimFails, Unwind, LoopStops, LoopEnds
<1>4. CASE LoopDrains(r)
  BY <1>0, <1>4, ExecTypes DEF LoopDrains
<1>5. CASE LoopAgain(r)
  <2>1. exec[r] \in Execution /\ exec[r].pendingWake # "none"
    BY <1>5 DEF LoopAgain
  <2>2. [exec[r] EXCEPT !.phase = "loop", !.scope = exec[r].pendingWake,
                        !.pendingWake = "none"] \in Execution
    BY <2>1, ExecTypes
  <2> QED
    BY <1>5, <2>2 DEF LoopAgain
<1>6. CASE ReleaseSaved(r)
  BY <1>0, <1>6, ExecTypes DEF ReleaseSaved
<1>7. CASE ReleaseFails(r)
  BY <1>0, <1>7, ExecTypes DEF ReleaseFails
<1>8. CASE Settle(r)
  <2>1. Outdated(r) \in SUBSET [run : Runs, owner : {"current", "gone"}]
    BY DEF Outdated
  <2>2. Successor(exec[r]) \in Execution
    BY ExecTypes
  <2> QED
    BY <1>8, <2>1, <2>2 DEF Settle
<1>9. CASE SkipDrain(r)
  BY <1>0, <1>9, ExecTypes DEF SkipDrain
<1>10. CASE BeginDrain(r)
  BY <1>0, <1>10, ExecTypes DEF BeginDrain
<1>11. CASE EndDrain(r)
  BY <1>0, <1>11, ExecTypes DEF EndDrain
<1>12. CASE HostReturns(r)
  <2>1. PICK exit \in Exits : DrainExit(r, exit)
    BY <1>12 DEF HostReturns
  <2> QED
    BY <1>0, <2>1, ExecTypes DEF DrainExit
<1> HIDE DEF CoordinatorOK
<1> QED
  BY <1>1, <1>2, <1>3, <1>4, <1>5, <1>6, <1>7, <1>8, <1>9, <1>10, <1>11, <1>12
  DEF OwnerStep, OwnerGateStep

\* A bell that rings leaves the records typed, by RingType.
LEMMA CoordinatorRing ==
  ASSUME CoordinatorOK, NEW r \in Runs, NEW s \in Scopes, Ring(r, s)
  PROVE  CoordinatorOK'
BY RungType DEF CoordinatorOK, Ring

LEMMA CaptureType ==
  ASSUME TypeOK, NEW c \in Callers, NEW r \in Runs, CaptureRun(c, r)
  PROVE  CoordinatorOK' /\ CallersOK'
<1>1. "input" \in Scopes
  BY DEF Scopes
<1>2. CoordinatorOK'
  <2>1. CASE Active(r)
    BY <2>1 DEF TypeOK, CoordinatorOK, CaptureRun, coordinatorVars
  <2>2. CASE ~Active(r)
    BY <2>2, <1>1, CoordinatorRing DEF TypeOK, CaptureRun
  <2> QED
    BY <2>1, <2>2
<1>3. CallersOK'
  <2>1. \E at \in {"joined", "stopping"} :
          caller' = [caller EXCEPT ![c] = [at |-> at, run |-> r]]
    BY DEF CaptureRun
  <2> QED
    BY <2>1 DEF TypeOK, CallersOK
<1> QED
  BY <1>2, <1>3

LEMMA CoordinatorStep ==
  ASSUME TypeOK, Next
  PROVE  CoordinatorOK'
<1>0. CoordinatorOK
  BY DEF TypeOK
<1>1. CASE UNCHANGED coordinatorVars
  BY <1>0, <1>1 DEF CoordinatorOK, coordinatorVars
<1>2. ASSUME NEW r \in Runs, OwnerStep(r) \/ OwnerGateStep(r) \/ HostReturns(r)
      PROVE  CoordinatorOK'
  BY <1>0, <1>2, CoordinatorOwner
<1>3. ASSUME NEW r \in Runs, NEW s \in Scopes, Admit(r, s) \/ Wake(r, s)
      PROVE  CoordinatorOK'
  BY <1>0, <1>1, <1>3, CoordinatorRing DEF Admit, Wake
<1>4. ASSUME NEW c \in Callers, NEW r \in Runs, Run(c, r)
      PROVE  CoordinatorOK'
  BY <1>4, CaptureType DEF Run
<1>5. ASSUME NEW c \in Callers, RetryRun(c)
      PROVE  CoordinatorOK'
  <2>1. caller[c].run \in Runs
    BY <1>5 DEF TypeOK, CallersOK, RetryRun, Idle
  <2> QED
    BY <1>1, <1>5, <2>1, CaptureType DEF RetryRun
<1>6. ASSUME NEW r \in Runs, NEW reason \in {"user", "shutdown"}, Interrupt(r, reason)
      PROVE  CoordinatorOK'
  <2>1. exec' \in [Runs -> Execution]
    <3>1. exec[r] \in Execution
      BY <1>0 DEF CoordinatorOK
    <3>2. [exec[r] EXCEPT !.stopping = TRUE, !.pendingWake = "none", !.reason = reason]
            \in Execution
      BY <1>6, <3>1, ExecTypes
    <3>3. [exec[r] EXCEPT !.pendingWake = "none"] \in Execution
      BY <3>1, ExecTypes
    <3> QED
      BY <1>0, <1>6, <3>2, <3>3 DEF CoordinatorOK, Interrupt
  <2>2. requests' \in SUBSET [run : Runs, owner : {"current", "gone"}]
    BY <1>0, <1>6 DEF CoordinatorOK, Interrupt, Request
  <2> QED
    BY <1>0, <1>6, <2>1, <2>2 DEF CoordinatorOK, Interrupt
<1>7. ASSUME NEW q \in requests, DeliverRequest(q)
      PROVE  CoordinatorOK'
  BY <1>0, <1>7, ExecTypes DEF CoordinatorOK, DeliverRequest
<1>8. ASSUME NEW r \in Runs, Stop(r)
      PROVE  CoordinatorOK'
  <2>1. exec' \in [Runs -> Execution]
    BY <1>0, <1>8, ExecTypes DEF CoordinatorOK, Stop
  <2>2. requests' \in SUBSET [run : Runs, owner : {"current", "gone"}]
    BY <1>0, <1>8 DEF CoordinatorOK, Stop, Request
  <2> QED
    BY <1>0, <1>8, <2>1, <2>2 DEF CoordinatorOK, Stop
<1>9. ASSUME NEW r \in Runs, NEW a \in Answers, NEW q \in Requests, ResumeHitl(r, a, q)
      PROVE  CoordinatorOK'
  <2>1. Rung(exec[r], "input") \in Execution
    BY <1>0, RungType DEF CoordinatorOK, Scopes
  <2> QED
    BY <1>0, <1>9, <2>1 DEF CoordinatorOK, ResumeHitl
<1>10. ASSUME NEW r \in Runs, GateStep(r)
       PROVE  CoordinatorOK'
  <2>1. CASE SweepResumes(r)
    BY <1>0, <2>1, CoordinatorRing DEF SweepResumes, Scopes
  <2> QED
    BY <1>1, <1>10, <2>1
    DEF GateStep, StopJoined, StopReleaseSaved, StopReleaseFails, SweepExhausts, SweepFails
<1>11. CASE Crash
  BY <1>0, <1>11, RungType DEF CoordinatorOK, Crash, NoExec, Execution, Phases, Scopes, MaybeScope
<1>12. CASE System
  <2>1. ASSUME NEW r \in Runs, SweepStep(r)
        PROVE  CoordinatorOK'
    BY <1>1, <2>1 DEF SweepStep, SweepSkips, SweepDecides
  <2>2. ASSUME NEW r \in Runs, NEW s \in Scopes, NEW token \in 1..drainSeq, Take(r, s, token)
        PROVE  CoordinatorOK'
    BY <1>1, <2>2 DEF Take
  <2> QED
    BY <1>2, <1>5, <1>7, <1>10, <1>12, <2>1, <2>2 DEF System
<1>13. CASE Environment
  <2>1. ASSUME NEW r \in Runs, NEW s \in Scopes, Enqueue(r, s)
        PROVE  CoordinatorOK'
    BY <1>1, <2>1 DEF Enqueue
  <2>2. ASSUME NEW c \in Callers, CancelRun(c)
        PROVE  CoordinatorOK'
    BY <1>1, <2>2 DEF CancelRun
  <2>3. ASSUME NEW r \in Runs, ClearPark(r)
        PROVE  CoordinatorOK'
    BY <1>1, <2>3 DEF ClearPark
  <2>4. ASSUME NEW r \in Runs, NEW ids \in SUBSET Requests, NEW token \in 1..drainSeq,
               Pause(r, ids, token)
        PROVE  CoordinatorOK'
    BY <1>1, <2>4 DEF Pause
  <2>5. ASSUME SweepStarts \/ SweepCancelled
        PROVE  CoordinatorOK'
    BY <1>1, <2>5 DEF SweepStarts, SweepCancelled
  <2> QED
    BY <1>3, <1>4, <1>6, <1>8, <1>9, <1>11, <1>13, <2>1, <2>2, <2>3, <2>4, <2>5
    DEF Environment
<1> QED
  BY <1>12, <1>13 DEF Next

\* The inbox's own steps; every other step leaves the controls alone.
ControlSame == UNCHANGED <<control, drainSeq, generationSeq>>

LEMMA ControlWriters ==
  ASSUME TypeOK, Next
  PROVE  \/ ControlSame
         \/ \E r \in Runs, s \in Scopes : Ring(r, s) /\ UNCHANGED <<drainSeq, generationSeq>>
         \/ \E r \in Runs : BeginDrain(r) \/ EndDrain(r) \/ Stop(r) \/ ClearPark(r)
         \/ \E r \in Runs, ids \in SUBSET Requests, token \in 1..drainSeq : Pause(r, ids, token)
         \/ \E r \in Runs, a \in Answers, q \in Requests : ResumeHitl(r, a, q)
         \/ Crash
<1> USE DEF ControlSame, inboxVars
<1>0. "input" \in Scopes
  BY DEF Scopes
<1>1. CASE System
  <2>1. ASSUME NEW r \in Runs, OwnerStep(r) \/ HostReturns(r) \/ SkipDrain(r)
        PROVE  ControlSame
    BY <2>1 DEF OwnerStep, HostReturns, DrainExit, SkipDrain, ClaimStarts, ClaimSaved, ClaimFails,
       Unwind, LoopStops, LoopDrains, LoopAgain, LoopEnds, ReleaseSaved, ReleaseFails, Settle, Leave
  <2>2. ASSUME NEW r \in Runs, GateStep(r)
        PROVE  ControlSame \/ (Ring(r, "input") /\ UNCHANGED <<drainSeq, generationSeq>>)
    BY <2>2 DEF GateStep, StopJoined, StopReleaseSaved, StopReleaseFails, SweepExhausts,
       SweepResumes, SweepFails
  <2>3. ASSUME NEW r \in Runs, SweepStep(r)
        PROVE  ControlSame
    BY <2>3 DEF SweepStep, SweepSkips, SweepDecides
  <2>4. ASSUME NEW q \in requests, DeliverRequest(q)
        PROVE  ControlSame
    BY <2>4 DEF DeliverRequest
  <2>5. ASSUME NEW r \in Runs, NEW s \in Scopes, NEW token \in 1..drainSeq, Take(r, s, token)
        PROVE  ControlSame
    BY <2>5 DEF Take
  <2>6. ASSUME NEW c \in Callers, RetryRun(c)
        PROVE  \/ ControlSame
               \/ \E r \in Runs : Ring(r, "input") /\ UNCHANGED <<drainSeq, generationSeq>>
    <3>1. caller[c].run \in Runs
      BY <2>6 DEF TypeOK, CallersOK, RetryRun, Idle
    <3> QED
      BY <2>6, <3>1 DEF RetryRun, CaptureRun
  <2> QED
    BY <1>0, <1>1, <2>1, <2>2, <2>3, <2>4, <2>5, <2>6 DEF System, OwnerGateStep
<1>2. CASE Environment
  <2>1. ASSUME NEW r \in Runs, NEW s \in Scopes, Admit(r, s) \/ Enqueue(r, s) \/ Wake(r, s)
        PROVE  ControlSame \/ (Ring(r, s) /\ UNCHANGED <<drainSeq, generationSeq>>)
    BY <2>1 DEF Admit, Enqueue, Wake
  <2>2. ASSUME NEW c \in Callers, NEW r \in Runs, Run(c, r)
        PROVE  ControlSame \/ (Ring(r, "input") /\ UNCHANGED <<drainSeq, generationSeq>>)
    BY <2>2 DEF Run, CaptureRun
  <2>3. ASSUME NEW c \in Callers, CancelRun(c)
        PROVE  ControlSame
    BY <2>3 DEF CancelRun
  <2>4. ASSUME NEW r \in Runs, NEW reason \in {"user", "shutdown"}, Interrupt(r, reason)
        PROVE  ControlSame
    BY <2>4 DEF Interrupt
  <2>5. ASSUME SweepStarts \/ SweepCancelled
        PROVE  ControlSame
    BY <2>5 DEF SweepStarts, SweepCancelled
  <2> QED
    BY <1>0, <1>2, <2>1, <2>2, <2>3, <2>4, <2>5 DEF Environment
<1> QED
  BY <1>1, <1>2 DEF Next

LEMMA ControlStep ==
  ASSUME TypeOK, Next
  PROVE  ControlOK'
<1> USE DEF ControlOK
<1>0. ControlOK /\ CoordinatorOK
  BY DEF TypeOK
<1>1. CASE ControlSame
  BY <1>0, <1>1 DEF ControlSame, RunControl, Park
<1>2. ASSUME NEW r \in Runs, NEW s \in Scopes, Ring(r, s), UNCHANGED <<drainSeq, generationSeq>>
      PROVE  ControlOK'
  BY <1>0, <1>2, RingType
<1>3. ASSUME NEW r \in Runs, BeginDrain(r)
      PROVE  ControlOK'
  <2>1. drainSeq' = drainSeq + 1 /\ generationSeq' = generationSeq
    BY <1>3 DEF BeginDrain, NextDrain
  <2>2. Ready(r) \in 0..generationSeq
    BY <1>0 DEF Ready, RunControl, Park
  <2>3. remainingPending(control[r].pending, exec[r].scope) \in MaybeScope
    BY DEF remainingPending, MaybeScope, Scopes
  <2>4. [control[r] EXCEPT !.pending = remainingPending(@, exec[r].scope),
                           !.liveToken = drainSeq + 1, !.leasedGeneration = Ready(r)]
          \in RunControl'
    <3>1. control[r] \in RunControl'
      BY <1>0, <2>1, ControlGrows
    <3>2. drainSeq + 1 \in 0..drainSeq' /\ Ready(r) \in (0..generationSeq)'
      BY <1>0, <2>1, <2>2
    <3> QED
      BY <2>3, <3>1, <3>2 DEF RunControl
  <2>5. \A o \in Runs : control[o] \in RunControl'
    BY <1>0, <2>1, ControlGrows
  <2> QED
    BY <1>0, <1>3, <2>1, <2>4, <2>5 DEF BeginDrain
<1>4. ASSUME NEW r \in Runs, EndDrain(r)
      PROVE  ControlOK'
  <2>1. Ended(r, control[r]) \in RunControl
    <3>1. (IF Acknowledges(r) THEN NoPark ELSE control[r].park) \in Park
      BY <1>0, EmptyTypes DEF RunControl
    <3>2. 0 \in 0..drainSeq /\ 0 \in 0..generationSeq
      BY <1>0
    <3>3. [control[r] EXCEPT !.liveToken = 0, !.leasedGeneration = 0,
             !.park = IF Acknowledges(r) THEN NoPark ELSE control[r].park] \in RunControl
      BY <1>0, <3>1, <3>2 DEF RunControl
    <3> QED
      BY <3>3 DEF Ended
  <2>2. RunControl' = RunControl
    BY <1>4 DEF EndDrain, RunControl, Park
  <2> QED
    BY <1>0, <1>4, <2>1, <2>2 DEF EndDrain
<1>5. ASSUME NEW r \in Runs, Stop(r)
      PROVE  ControlOK'
  <2>1. RunControl' = RunControl
    BY <1>5 DEF Stop, RunControl, Park
  <2> QED
    BY <1>0, <1>5, <2>1, EmptyTypes DEF Stop
<1>6. ASSUME NEW r \in Runs, ClearPark(r)
      PROVE  ControlOK'
  <2>1. [control[r] EXCEPT !.park = NoPark] \in RunControl
    BY <1>0, EmptyTypes DEF RunControl
  <2>2. RunControl' = RunControl
    BY <1>6 DEF ClearPark, RunControl, Park
  <2> QED
    BY <1>0, <1>6, <2>1, <2>2 DEF ClearPark
<1>7. ASSUME NEW r \in Runs, NEW ids \in SUBSET Requests, NEW token \in 1..drainSeq,
             Pause(r, ids, token)
      PROVE  ControlOK'
  <2>1. drainSeq' = drainSeq /\ generationSeq' = generationSeq + 1
    BY <1>7 DEF Pause
  <2>2. \A o \in Runs : control[o] \in RunControl'
    BY <1>0, <2>1, ControlGrows
  <2>3. [generation |-> generationSeq + 1, requestIds |-> ids, responses |-> {},
         readyWoken |-> FALSE] \in Park'
    BY <1>0, <2>1 DEF Park
  <2>4. [control[r] EXCEPT !.park =
           [generation |-> generationSeq + 1, requestIds |-> ids, responses |-> {},
            readyWoken |-> FALSE]] \in RunControl'
    BY <2>2, <2>3 DEF RunControl
  <2>5. control' \in [Runs -> RunControl']
    BY <1>0, <1>7, <2>2, <2>4 DEF Pause
  <2> QED
    BY <1>0, <2>1, <2>5
<1>8. ASSUME NEW r \in Runs, NEW a \in Answers, NEW q \in Requests, ResumeHitl(r, a, q)
      PROVE  ControlOK'
  <2> DEFINE park == Answered(control[r].park, a, q)
  <2>1. park \in Park
    BY <1>0 DEF Answered, RunControl, Park, ParkedResponse
  <2>2. [park EXCEPT !.readyWoken = TRUE] \in Park
    BY <2>1 DEF Park
  <2>3. widerScope(control[r].pending, "input") \in MaybeScope
    BY DEF widerScope, MaybeScope, Scopes
  <2>4. RunControl' = RunControl
    BY <1>8 DEF ResumeHitl, RunControl, Park
  <2>5. /\ [control[r] EXCEPT !.park = park] \in RunControl
        /\ [control[r] EXCEPT !.park = [park EXCEPT !.readyWoken = TRUE],
                              !.pending = widerScope(@, "input")] \in RunControl
    <3> HIDE DEF park
    <3> QED
      BY <1>0, <2>1, <2>2, <2>3 DEF RunControl
  <2> QED
    BY <1>0, <1>8, <2>4, <2>5 DEF ResumeHitl
<1>9. CASE Crash
  BY <1>9 DEF Crash, emptyControl, NoPark, RunControl, Park, MaybeScope
<1> HIDE DEF ControlOK
<1> QED
  BY <1>1, <1>2, <1>3, <1>4, <1>5, <1>6, <1>7, <1>8, <1>9, ControlWriters

\* The steps that leave the owners' side alone: host and callers.
HostSame == UNCHANGED <<host, drainSeq, generationSeq>>

LEMMA HostWriters ==
  ASSUME Next
  PROVE  \/ HostSame
         \/ \E r \in Runs : SkipDrain(r) \/ BeginDrain(r) \/ HostReturns(r) \/ Settle(r)
         \/ \E r \in Runs, ids \in SUBSET Requests, token \in 1..drainSeq : Pause(r, ids, token)
         \/ Crash
<1> USE DEF HostSame, inboxVars
<1>1. CASE System
  <2>1. ASSUME NEW r \in Runs, OwnerStep(r)
        PROVE  HostSame \/ Settle(r)
    BY <2>1 DEF OwnerStep, ClaimStarts, ClaimSaved, ClaimFails, Unwind, LoopStops, LoopDrains,
       LoopAgain, LoopEnds, ReleaseSaved, ReleaseFails, Leave
  <2>2. ASSUME NEW r \in Runs, EndDrain(r)
        PROVE  HostSame
    BY <2>2 DEF EndDrain
  <2>3. ASSUME NEW r \in Runs, GateStep(r) \/ SweepStep(r)
        PROVE  HostSame
    BY <2>3 DEF GateStep, StopJoined, StopReleaseSaved, StopReleaseFails, SweepExhausts,
       SweepResumes, SweepFails, SweepStep, SweepSkips, SweepDecides
  <2>4. ASSUME NEW q \in requests, DeliverRequest(q)
        PROVE  HostSame
    BY <2>4 DEF DeliverRequest
  <2>5. ASSUME NEW r \in Runs, NEW s \in Scopes, NEW token \in 1..drainSeq, Take(r, s, token)
        PROVE  HostSame
    BY <2>5 DEF Take
  <2>6. ASSUME NEW c \in Callers, RetryRun(c)
        PROVE  HostSame
    BY <2>6 DEF RetryRun
  <2> QED
    BY <1>1, <2>1, <2>2, <2>3, <2>4, <2>5, <2>6 DEF System, OwnerGateStep
<1>2. CASE Environment
  <2>1. ASSUME NEW r \in Runs, NEW s \in Scopes, Admit(r, s) \/ Enqueue(r, s) \/ Wake(r, s)
        PROVE  HostSame
    BY <2>1 DEF Admit, Enqueue, Wake
  <2>2. ASSUME NEW c \in Callers, NEW r \in Runs, Run(c, r)
        PROVE  HostSame
    BY <2>2 DEF Run
  <2>3. ASSUME NEW c \in Callers, CancelRun(c)
        PROVE  HostSame
    BY <2>3 DEF CancelRun
  <2>4. ASSUME NEW r \in Runs, NEW reason \in {"user", "shutdown"}, Interrupt(r, reason)
        PROVE  HostSame
    BY <2>4 DEF Interrupt
  <2>5. ASSUME NEW r \in Runs, Stop(r) \/ ClearPark(r)
        PROVE  HostSame
    BY <2>5 DEF Stop, ClearPark
  <2>6. ASSUME NEW r \in Runs, NEW a \in Answers, NEW q \in Requests, ResumeHitl(r, a, q)
        PROVE  HostSame
    BY <2>6 DEF ResumeHitl
  <2>7. ASSUME SweepStarts \/ SweepCancelled
        PROVE  HostSame
    BY <2>7 DEF SweepStarts, SweepCancelled
  <2> QED
    BY <1>2, <2>1, <2>2, <2>3, <2>4, <2>5, <2>6, <2>7 DEF Environment
<1> QED
  BY <1>1, <1>2 DEF Next

LEMMA HostStep ==
  ASSUME TypeOK, Next
  PROVE  HostOK'
<1> USE DEF HostOK
<1>0. HostOK /\ ControlOK
  BY DEF TypeOK
<1>1. CASE HostSame
  BY <1>0, <1>1 DEF HostSame
<1>2. ASSUME NEW r \in Runs, SkipDrain(r) \/ HostReturns(r) \/ Settle(r)
      PROVE  HostOK'
  BY <1>0, <1>2 DEF ControlOK, SkipDrain, HostReturns, DrainExit, Settle, inboxVars, NoDrain, Exits
<1>3. ASSUME NEW r \in Runs, BeginDrain(r)
      PROVE  HostOK'
  <2>1. drainSeq' = drainSeq + 1 /\ generationSeq' = generationSeq
    BY <1>3 DEF BeginDrain, NextDrain
  <2>2. Ready(r) \in 0..generationSeq
    BY <1>0 DEF ControlOK, Ready, RunControl, Park
  <2>3. host' = [host EXCEPT ![r] = [token |-> drainSeq + 1, given |-> Ready(r),
                                     exit |-> "success"]]
    BY <1>3 DEF BeginDrain
  <2> QED
    BY <1>0, <2>1, <2>2, <2>3 DEF ControlOK, Exits
<1>4. ASSUME NEW r \in Runs, NEW ids \in SUBSET Requests, NEW token \in 1..drainSeq,
             Pause(r, ids, token)
      PROVE  HostOK'
  BY <1>0, <1>4 DEF ControlOK, Pause
<1>5. CASE Crash
  BY <1>5 DEF Crash, NoDrain, Exits
<1> HIDE DEF HostOK
<1> QED
  BY <1>1, <1>2, <1>3, <1>4, <1>5, HostWriters

LEMMA CallersStep ==
  ASSUME TypeOK, Next
  PROVE  CallersOK'
<1>0. CallersOK
  BY DEF TypeOK
<1>1. CASE UNCHANGED caller
  BY <1>0, <1>1 DEF CallersOK
<1> USE DEF driverVars
<1>2. CASE System
  <2>1. ASSUME NEW r \in Runs, Settle(r)
        PROVE  CallersOK'
    BY <1>0, <2>1 DEF CallersOK, Settle, Released, Idle
  <2>2. ASSUME NEW r \in Runs, OwnerStep(r)
        PROVE  CallersOK'
    BY <1>1, <2>1, <2>2 DEF OwnerStep, ClaimStarts, ClaimSaved, ClaimFails, Unwind, LoopStops,
       LoopDrains, LoopAgain, LoopEnds, ReleaseSaved, ReleaseFails, Leave
  <2>3. ASSUME NEW r \in Runs, OwnerGateStep(r) \/ HostReturns(r)
        PROVE  CallersOK'
    BY <1>1, <2>3 DEF OwnerGateStep, SkipDrain, BeginDrain, EndDrain, HostReturns, DrainExit
  <2>4. ASSUME NEW r \in Runs, GateStep(r) \/ SweepStep(r)
        PROVE  CallersOK'
    BY <1>1, <2>4 DEF GateStep, StopJoined, StopReleaseSaved, StopReleaseFails, SweepExhausts,
       SweepResumes, SweepFails, SweepStep, SweepSkips, SweepDecides
  <2>5. ASSUME NEW q \in requests, DeliverRequest(q)
        PROVE  CallersOK'
    BY <1>1, <2>5 DEF DeliverRequest
  <2>6. ASSUME NEW r \in Runs, NEW s \in Scopes, NEW token \in 1..drainSeq, Take(r, s, token)
        PROVE  CallersOK'
    BY <1>1, <2>6 DEF Take
  <2>7. ASSUME NEW c \in Callers, RetryRun(c)
        PROVE  CallersOK'
    <3>1. caller[c].run \in Runs
      BY <1>0, <2>7 DEF CallersOK, RetryRun, Idle
    <3>2. CASE CaptureRun(c, caller[c].run)
      BY <3>1, <3>2, CaptureType
    <3>3. CASE caller' = [caller EXCEPT ![c] = Idle]
      BY <1>0, <3>3 DEF CallersOK
    <3> QED
      BY <2>7, <3>2, <3>3 DEF RetryRun
  <2> QED
    BY <1>2, <2>2, <2>3, <2>4, <2>5, <2>6, <2>7 DEF System
<1>3. CASE Environment
  <2>1. ASSUME NEW r \in Runs, NEW s \in Scopes, Admit(r, s) \/ Enqueue(r, s) \/ Wake(r, s)
        PROVE  CallersOK'
    BY <1>1, <2>1 DEF Admit, Enqueue, Wake
  <2>2. ASSUME NEW c \in Callers, NEW r \in Runs, Run(c, r)
        PROVE  CallersOK'
    BY <2>2, CaptureType DEF Run
  <2>3. ASSUME NEW c \in Callers, CancelRun(c)
        PROVE  CallersOK'
    BY <1>0, <2>3 DEF CallersOK, CancelRun
  <2>4. ASSUME NEW r \in Runs, NEW reason \in {"user", "shutdown"}, Interrupt(r, reason)
        PROVE  CallersOK'
    BY <1>1, <2>4 DEF Interrupt
  <2>5. ASSUME NEW r \in Runs, Stop(r) \/ ClearPark(r)
        PROVE  CallersOK'
    BY <1>1, <2>5 DEF Stop, ClearPark
  <2>6. ASSUME NEW r \in Runs, NEW ids \in SUBSET Requests, NEW token \in 1..drainSeq,
               Pause(r, ids, token)
        PROVE  CallersOK'
    BY <1>1, <2>6 DEF Pause
  <2>7. ASSUME NEW r \in Runs, NEW a \in Answers, NEW q \in Requests, ResumeHitl(r, a, q)
        PROVE  CallersOK'
    BY <1>1, <2>7 DEF ResumeHitl
  <2>8. CASE SweepStarts \/ SweepCancelled
    BY <1>1, <2>8 DEF SweepStarts, SweepCancelled
  <2>9. CASE Crash
    BY <2>9 DEF CallersOK, Crash
  <2> QED
    BY <1>3, <2>1, <2>2, <2>3, <2>4, <2>5, <2>6, <2>7, <2>8, <2>9 DEF Environment
<1> QED
  BY <1>2, <1>3 DEF Next

\* The variables whose types need no help.
QueuesOK == items \in [Runs -> Seq(Scopes)] /\ gate \in GateHolder /\ sweep \in SUBSET Runs
ClaimsOK == claimed \in SUBSET Runs /\ resumes \in [Runs -> Nat]
HistoryOK == owed \in [Runs -> MaybeScope] /\ stopped \in [Runs -> BOOLEAN]

LEMMA QueuesStep ==
  ASSUME TypeOK, Next
  PROVE  QueuesOK'
<1> USE DEF inboxVars, driverVars
<1>0. QueuesOK
  BY DEF TypeOK, QueuesOK
<1>1. CASE UNCHANGED <<items, gate, sweep>>
  BY <1>0, <1>1 DEF QueuesOK, GateHolder
<1>2. CASE System
  <2>1. ASSUME NEW r \in Runs, OwnerStep(r)
        PROVE  QueuesOK'
    BY <1>1, <2>1 DEF OwnerStep, ClaimStarts, ClaimSaved, ClaimFails, Unwind, LoopStops,
       LoopDrains, LoopAgain, LoopEnds, ReleaseSaved, ReleaseFails, Settle, Leave
  <2>2. ASSUME NEW r \in Runs, OwnerGateStep(r) \/ HostReturns(r)
        PROVE  QueuesOK'
    BY <1>1, <2>2 DEF OwnerGateStep, SkipDrain, BeginDrain, EndDrain, HostReturns, DrainExit
  <2>3. ASSUME NEW r \in Runs, GateStep(r) \/ SweepStep(r)
        PROVE  QueuesOK'
    BY <1>0, <2>3 DEF QueuesOK, GateHolder, GateStep, StopJoined, StopReleaseSaved,
       StopReleaseFails, SweepExhausts, SweepResumes, SweepFails, SweepStep, SweepSkips,
       SweepDecides
  <2>4. ASSUME NEW q \in requests, DeliverRequest(q)
        PROVE  QueuesOK'
    BY <1>1, <2>4 DEF DeliverRequest
  <2>5. ASSUME NEW r \in Runs, NEW s \in Scopes, NEW token \in 1..drainSeq, Take(r, s, token)
        PROVE  QueuesOK'
    <3>1. PICK i \in 1..Len(items[r]) :
            items' = [items EXCEPT ![r] = SubSeq(@, 1, i - 1) \o SubSeq(@, i + 1, Len(@))]
      BY <2>5 DEF Take
    <3>2. SubSeq(items[r], 1, i - 1) \o SubSeq(items[r], i + 1, Len(items[r])) \in Seq(Scopes)
      BY <1>0 DEF QueuesOK
    <3> QED
      BY <1>0, <2>5, <3>1, <3>2 DEF QueuesOK, Take, GateHolder
  <2>6. ASSUME NEW c \in Callers, RetryRun(c)
        PROVE  QueuesOK'
    BY <1>1, <2>6 DEF RetryRun
  <2> QED
    BY <1>2, <2>1, <2>2, <2>3, <2>4, <2>5, <2>6 DEF System
<1>3. CASE Environment
  <2>1. ASSUME NEW r \in Runs, NEW s \in Scopes, Admit(r, s) \/ Enqueue(r, s) \/ Wake(r, s)
        PROVE  QueuesOK'
    <3>1. Append(items[r], s) \in Seq(Scopes)
      BY <1>0 DEF QueuesOK
    <3>2. \/ items' = [items EXCEPT ![r] = Append(@, s)]
          \/ items' = items
      BY <2>1 DEF Admit, Enqueue, Wake
    <3>3. UNCHANGED <<gate, sweep>>
      BY <2>1 DEF Admit, Enqueue, Wake
    <3> QED
      BY <1>0, <3>1, <3>2, <3>3 DEF QueuesOK, GateHolder
  <2>2. ASSUME NEW c \in Callers, NEW r \in Runs, Run(c, r)
        PROVE  QueuesOK'
    BY <1>1, <2>2 DEF Run
  <2>3. ASSUME NEW r \in Runs, NEW reason \in {"user", "shutdown"}, Interrupt(r, reason)
        PROVE  QueuesOK'
    BY <1>1, <2>3 DEF Interrupt
  <2>4. ASSUME NEW r \in Runs, Stop(r)
        PROVE  QueuesOK'
    BY <1>0, <2>4 DEF QueuesOK, GateHolder, Stop
  <2>5. ASSUME NEW r \in Runs, ClearPark(r)
        PROVE  QueuesOK'
    BY <1>1, <2>5 DEF ClearPark
  <2>6. ASSUME NEW r \in Runs, NEW ids \in SUBSET Requests, NEW token \in 1..drainSeq,
               Pause(r, ids, token)
        PROVE  QueuesOK'
    BY <1>1, <2>6 DEF Pause
  <2>7. ASSUME NEW r \in Runs, NEW a \in Answers, NEW q \in Requests, ResumeHitl(r, a, q)
        PROVE  QueuesOK'
    BY <1>1, <2>7 DEF ResumeHitl
  <2>8. CASE SweepStarts \/ SweepCancelled
    BY <1>0, <2>8 DEF TypeOK, QueuesOK, GateHolder, SweepStarts, SweepCancelled
  <2>9. CASE Crash
    BY <2>9 DEF QueuesOK, GateHolder, Crash
  <2>10. ASSUME NEW c \in Callers, CancelRun(c)
         PROVE  QueuesOK'
    BY <1>1, <2>10 DEF CancelRun
  <2> QED
    BY <1>3, <2>1, <2>2, <2>3, <2>4, <2>5, <2>6, <2>7, <2>8, <2>9, <2>10 DEF Environment
<1> QED
  BY <1>2, <1>3 DEF Next

\* What one operation of the store does to the claims and the counts.
StoreOperation(r) ==
  \/ claimed' = claimed \cup {r} /\ UNCHANGED resumes
  \/ claimed' = claimed \ {r} /\ resumes' = [resumes EXCEPT ![r] = 0]
  \/ UNCHANGED claimed /\ resumes' = [resumes EXCEPT ![r] = @ + 1]

\* A step is at most one operation of the store.
LEMMA StoreStep ==
  ASSUME Next
  PROVE  UNCHANGED <<claimed, resumes>> \/ \E r \in Runs : StoreOperation(r)
<1> USE DEF storeVars, StoreOperation
<1> DEFINE Stored == UNCHANGED <<claimed, resumes>> \/ \E r \in Runs : StoreOperation(r)
<1>1. CASE System
  <2>1. ASSUME NEW r \in Runs, ClaimSaved(r) \/ ReleaseSaved(r)
        PROVE  Stored
    BY <2>1 DEF ClaimSaved, ReleaseSaved
  <2>2. ASSUME NEW r \in Runs, OwnerStep(r)
        PROVE  Stored
    BY <2>1, <2>2 DEF OwnerStep, ClaimStarts, ClaimFails, Unwind, LoopStops,
       LoopDrains, LoopAgain, LoopEnds, ReleaseFails, Settle, Leave
  <2>3. ASSUME NEW r \in Runs, OwnerGateStep(r) \/ HostReturns(r) \/ SweepStep(r)
        PROVE  Stored
    BY <2>3 DEF OwnerGateStep, SkipDrain, BeginDrain, EndDrain, HostReturns, DrainExit,
       SweepStep, SweepSkips, SweepDecides
  <2>4. ASSUME NEW r \in Runs, GateStep(r)
        PROVE  Stored
    BY <2>4 DEF GateStep, StopJoined, StopReleaseSaved,
       StopReleaseFails, SweepExhausts, SweepResumes, SweepFails
  <2>5. ASSUME NEW q \in requests, DeliverRequest(q)
        PROVE  Stored
    BY <2>5 DEF DeliverRequest
  <2>6. ASSUME NEW r \in Runs, NEW s \in Scopes, NEW token \in 1..drainSeq, Take(r, s, token)
        PROVE  Stored
    BY <2>6 DEF Take
  <2>7. ASSUME NEW c \in Callers, RetryRun(c)
        PROVE  Stored
    BY <2>7 DEF RetryRun
  <2> QED
    BY <1>1, <2>2, <2>3, <2>4, <2>5, <2>6, <2>7 DEF System
<1>2. CASE Environment
  <2>1. ASSUME NEW r \in Runs, NEW s \in Scopes, Admit(r, s) \/ Enqueue(r, s) \/ Wake(r, s)
        PROVE  Stored
    BY <2>1 DEF Admit, Enqueue, Wake
  <2>2. ASSUME NEW c \in Callers, NEW r \in Runs, Run(c, r)
        PROVE  Stored
    BY <2>2 DEF Run
  <2>3. ASSUME NEW c \in Callers, CancelRun(c)
        PROVE  Stored
    BY <2>3 DEF CancelRun
  <2>4. ASSUME NEW r \in Runs, NEW reason \in {"user", "shutdown"}, Interrupt(r, reason)
        PROVE  Stored
    BY <2>4 DEF Interrupt
  <2>5. ASSUME NEW r \in Runs, Stop(r) \/ ClearPark(r)
        PROVE  Stored
    BY <2>5 DEF Stop, ClearPark
  <2>6. ASSUME NEW r \in Runs, NEW ids \in SUBSET Requests, NEW token \in 1..drainSeq,
               Pause(r, ids, token)
        PROVE  Stored
    BY <2>6 DEF Pause
  <2>7. ASSUME NEW r \in Runs, NEW a \in Answers, NEW q \in Requests, ResumeHitl(r, a, q)
        PROVE  Stored
    BY <2>7 DEF ResumeHitl
  <2>8. CASE SweepStarts \/ SweepCancelled \/ Crash
    BY <2>8 DEF SweepStarts, SweepCancelled, Crash
  <2> QED
    BY <1>2, <2>1, <2>2, <2>3, <2>4, <2>5, <2>6, <2>7, <2>8 DEF Environment
<1> QED
  BY <1>1, <1>2 DEF Next

LEMMA ClaimsStep ==
  ASSUME TypeOK, Next
  PROVE  ClaimsOK'
<1>1. ClaimsOK
  BY DEF TypeOK, ClaimsOK
<1>2. CASE UNCHANGED <<claimed, resumes>>
  BY <1>1, <1>2 DEF ClaimsOK
<1>3. ASSUME NEW r \in Runs, StoreOperation(r) PROVE ClaimsOK'
  BY <1>1, <1>3 DEF ClaimsOK, StoreOperation
<1>. QED
  BY <1>2, <1>3, StoreStep

LEMMA HistoryStep ==
  ASSUME TypeOK, Next
  PROVE  HistoryOK'
<1> USE DEF historyVars
<1>0. HistoryOK /\ CoordinatorOK
  BY DEF TypeOK, HistoryOK
<1>1. CASE UNCHANGED <<owed, stopped>>
  BY <1>0, <1>1 DEF HistoryOK
<1>2. ASSUME NEW r \in Runs, NEW s \in Scopes, Ring(r, s)
      PROVE  HistoryOK'
  <2>1. Widest(owed[r], s) \in MaybeScope
    BY <1>0, ScopeTypes DEF HistoryOK, MaybeScope
  <2> QED
    BY <1>0, <1>2, <2>1 DEF HistoryOK, Ring
<1>3. CASE System
  <2>1. ASSUME NEW r \in Runs, ClaimFails(r)
        PROVE  HistoryOK'
    BY <1>0, <2>1 DEF HistoryOK, CoordinatorOK, Execution, ClaimFails
  <2>2. ASSUME NEW r \in Runs, ReleaseFails(r) \/ Settle(r)
        PROVE  HistoryOK'
    BY <1>0, <2>2 DEF HistoryOK, ReleaseFails, Settle
  <2>3. ASSUME NEW r \in Runs, OwnerStep(r)
        PROVE  HistoryOK'
    BY <1>1, <2>1, <2>2, <2>3 DEF OwnerStep, ClaimStarts, ClaimSaved, Unwind, LoopStops,
       LoopDrains, LoopAgain, LoopEnds, ReleaseSaved
  <2>4. ASSUME NEW r \in Runs, BeginDrain(r)
        PROVE  HistoryOK'
    BY <1>0, <2>4 DEF HistoryOK, BeginDrain, MaybeScope, Scopes
  <2>5. ASSUME NEW r \in Runs, OwnerGateStep(r) \/ HostReturns(r) \/ SweepStep(r)
        PROVE  HistoryOK'
    BY <1>1, <2>4, <2>5 DEF OwnerGateStep, SkipDrain, EndDrain, HostReturns, DrainExit,
       SweepStep, SweepSkips, SweepDecides
  <2>6. ASSUME NEW r \in Runs, GateStep(r)
        PROVE  HistoryOK'
    <3>1. CASE SweepResumes(r)
      BY <1>2, <3>1 DEF SweepResumes, Scopes
    <3>2. CASE StopReleaseFails(r)
      BY <1>0, <3>2 DEF HistoryOK, StopReleaseFails
    <3> QED
      BY <1>1, <2>6, <3>1, <3>2 DEF GateStep, StopJoined, StopReleaseSaved, SweepExhausts,
         SweepFails
  <2>7. ASSUME NEW q \in requests, DeliverRequest(q)
        PROVE  HistoryOK'
    BY <1>1, <2>7 DEF DeliverRequest
  <2>8. ASSUME NEW r \in Runs, NEW s \in Scopes, NEW token \in 1..drainSeq, Take(r, s, token)
        PROVE  HistoryOK'
    BY <1>1, <2>8 DEF Take
  <2>9. ASSUME NEW c \in Callers, RetryRun(c)
        PROVE  HistoryOK'
    <3>1. caller[c].run \in Runs
      BY <2>9 DEF TypeOK, CallersOK, RetryRun, Idle
    <3> QED
      BY <1>1, <1>2, <2>9, <3>1 DEF RetryRun, CaptureRun, Scopes
  <2> QED
    BY <1>3, <2>3, <2>5, <2>6, <2>7, <2>8, <2>9 DEF System
<1>4. CASE Environment
  <2>1. ASSUME NEW r \in Runs, NEW s \in Scopes, Admit(r, s) \/ Enqueue(r, s) \/ Wake(r, s)
        PROVE  HistoryOK'
    BY <1>1, <1>2, <2>1 DEF Admit, Enqueue, Wake
  <2>2. ASSUME NEW c \in Callers, NEW r \in Runs, Run(c, r)
        PROVE  HistoryOK'
    BY <1>1, <1>2, <2>2 DEF Run, CaptureRun, Scopes
  <2>3. ASSUME NEW c \in Callers, CancelRun(c)
        PROVE  HistoryOK'
    BY <1>1, <2>3 DEF CancelRun
  <2>4. ASSUME NEW r \in Runs, NEW reason \in {"user", "shutdown"}, Interrupt(r, reason)
        PROVE  HistoryOK'
    BY <1>0, <2>4 DEF HistoryOK, Interrupt, MaybeScope
  <2>5. ASSUME NEW r \in Runs, Stop(r) \/ ClearPark(r)
        PROVE  HistoryOK'
    BY <1>0, <2>5 DEF HistoryOK, Stop, ClearPark, MaybeScope
  <2>6. ASSUME NEW r \in Runs, NEW ids \in SUBSET Requests, NEW token \in 1..drainSeq,
               Pause(r, ids, token)
        PROVE  HistoryOK'
    BY <1>1, <2>6 DEF Pause
  <2>7. ASSUME NEW r \in Runs, NEW a \in Answers, NEW q \in Requests, ResumeHitl(r, a, q)
        PROVE  HistoryOK'
    BY <1>0, <2>7 DEF HistoryOK, ResumeHitl, MaybeScope, Scopes
  <2>8. CASE SweepStarts \/ SweepCancelled
    BY <1>1, <2>8 DEF SweepStarts, SweepCancelled
  <2>9. CASE Crash
    BY <2>9 DEF HistoryOK, Crash, MaybeScope
  <2> QED
    BY <1>4, <2>1, <2>2, <2>3, <2>4, <2>5, <2>6, <2>7, <2>8, <2>9 DEF Environment
<1> QED
  BY <1>3, <1>4 DEF Next

\* Only the end of a host's drain writes the history of what was served.
LEMMA ServedWriters ==
  ASSUME TypeOK, Next
  PROVE  UNCHANGED served \/ (\E r \in Runs : HostReturns(r)) \/ Crash
<1> USE DEF historyVars
<1>1. ASSUME NEW r \in Runs, OwnerStep(r) \/ OwnerGateStep(r) \/ GateStep(r) \/ SweepStep(r)
      PROVE  UNCHANGED served
  BY <1>1 DEF OwnerStep, ClaimStarts, ClaimSaved, ClaimFails, Unwind, LoopStops, LoopDrains,
     LoopAgain, LoopEnds, ReleaseSaved, ReleaseFails, Settle, OwnerGateStep, SkipDrain, BeginDrain,
     EndDrain, GateStep, StopJoined, StopReleaseSaved, StopReleaseFails, SweepExhausts,
     SweepResumes, SweepFails, SweepStep, SweepSkips, SweepDecides, Ring
<1>2. CASE System
  BY <1>1, <1>2 DEF System, DeliverRequest, RetryRun, CaptureRun, Ring, Take
<1>3. CASE Environment
  BY <1>3 DEF Environment, Admit, Enqueue, Wake, Ring, Run, CaptureRun, CancelRun, Interrupt, Stop,
     ClearPark, Pause, ResumeHitl, SweepStarts, SweepCancelled
<1> QED
  BY <1>2, <1>3 DEF Next

LEMMA ServedStep ==
  ASSUME TypeOK, Next
  PROVE  served' \in [Runs -> Nat]
<1>0. /\ served \in [Runs -> Nat] /\ generationSeq \in Nat
      /\ host \in [Runs -> [token : 0..drainSeq, given : 0..generationSeq, exit : Exits]]
  BY DEF TypeOK, ControlOK, HostOK
<1>1. ASSUME NEW r \in Runs, HostReturns(r) PROVE served' \in [Runs -> Nat]
  BY <1>0, <1>1 DEF HostReturns, DrainExit
<1> QED
  BY <1>0, <1>1, ServedWriters DEF Crash

LEMMA TypeInit == Init => TypeOK
<1> SUFFICES ASSUME Init PROVE TypeOK
  OBVIOUS
<1> USE DEF Init
<1>1. CoordinatorOK
  BY RungType DEF CoordinatorOK, NoExec, Execution, Phases, Scopes, MaybeScope
<1>2. ControlOK
  BY DEF ControlOK, emptyControl, NoPark, RunControl, Park, MaybeScope
<1>3. HostOK /\ CallersOK
  BY DEF HostOK, CallersOK, NoDrain, Exits
<1> QED
  BY <1>1, <1>2, <1>3 DEF TypeOK, GateHolder, MaybeScope

LEMMA TypeStutter == TypeOK /\ UNCHANGED vars => TypeOK'
BY DEF TypeOK, CoordinatorOK, ControlOK, HostOK, CallersOK, RunControl, Park, GateHolder, vars,
   coordinatorVars, inboxVars, driverVars, storeVars, historyVars

LEMMA TypeStep == TypeOK /\ [Next]_vars => TypeOK'
<1> SUFFICES ASSUME TypeOK, Next PROVE TypeOK'
  BY TypeStutter
<1> QED
  BY CoordinatorStep, ControlStep, HostStep, CallersStep, QueuesStep, ClaimsStep, HistoryStep,
     ServedStep
  DEF TypeOK, QueuesOK, ClaimsOK, HistoryOK

\* Every record, token and generation of the composed harness has its type in
\* every reachable state, for any runs, callers, questions and budget.
THEOREM TypeCorrect == Spec => []TypeOK
BY TypeInit, TypeStep, PTL DEF Spec

\* The harness and its store fit together: of its RunStore it needs no more than
\* the atomic record of claims and counts, the one that the store of RunStore.tla
\* implements (driver.ts and run-coordinator.ts, their calls of RunStore).
THEOREM StoreIsEnough == Spec => KeepsToStore
<1> DEFINE stored == [claimed |-> claimed, resumes |-> resumes]
<1>1. Init => Claims!Init
  BY DEF Init, Claims!Init, Claims!EmptySnapshot
<1>2. TypeOK /\ [Next]_vars => [Claims!Next]_stored
  <2>1. ASSUME UNCHANGED vars PROVE UNCHANGED stored
    BY <2>1 DEF vars, storeVars
  <2>2. ASSUME UNCHANGED <<claimed, resumes>> PROVE UNCHANGED stored
    BY <2>2
  <2>3. ASSUME NEW r \in Runs, StoreOperation(r) PROVE Claims!Next
    <3>1. stored' \in {Claims!Apply(kind, r, stored) : kind \in Claims!Kinds}
      BY <2>3 DEF StoreOperation, Claims!Apply, Claims!Kinds
    <3>. QED
      BY <3>1 DEF Claims!Next
  <2>. QED
    BY <2>1, <2>2, <2>3, StoreStep
<1>. QED
  BY <1>1, <1>2, TypeCorrect, PTL DEF Spec, KeepsToStore, Claims!Spec

-----------------------------------------------------------------------------
(* LiveTokenIsOwners is inductive with the types. *)

\* What a step may do to the live token without endangering it.
KeepsLive(o) ==
  control'[o].liveToken # 0 =>
    /\ control[o].liveToken = control'[o].liveToken
    /\ exec[o].phase \in {"draining", "ending"} => exec'[o].phase \in {"draining", "ending"}
    /\ exec[o].phase \in {"draining", "ending"} => host'[o].token = host[o].token

LEMMA KeepsLiveIsEnough ==
  ASSUME LiveTokenIsOwners, \A o \in Runs : KeepsLive(o)
  PROVE  LiveTokenIsOwners'
BY DEF LiveTokenIsOwners, KeepsLive

LEMMA LiveRing ==
  ASSUME TypeOK, NEW r \in Runs, NEW s \in Scopes, Ring(r, s), UNCHANGED host
  PROVE  \A o \in Runs : KeepsLive(o)
<1>1. \A o \in Runs : control'[o].liveToken = control[o].liveToken
  BY DEF TypeOK, ControlOK, RunControl, Ring
<1>2. \A o \in Runs : exec[o].phase # "none" => exec'[o].phase = exec[o].phase
  BY DEF TypeOK, CoordinatorOK, Execution, Ring, Rung
<1> QED
  BY <1>1, <1>2 DEF KeepsLive

LEMMA LiveSame ==
  ASSUME UNCHANGED <<control, exec, host>>
  PROVE  \A o \in Runs : KeepsLive(o)
BY DEF KeepsLive

\* Steps of the owner that leave the inbox alone, none of them out of a drain.
LEMMA LiveOwner ==
  ASSUME TypeOK, NEW r \in Runs, OwnerStep(r) \/ SkipDrain(r) \/ HostReturns(r)
  PROVE  \A o \in Runs : KeepsLive(o)
<1> USE DEF inboxVars, KeepsLive
<1>0. /\ exec \in [Runs -> Execution]
      /\ \A o \in Runs : exec[o] \in Execution /\ host[o].token \in Nat
  BY DEF TypeOK, CoordinatorOK, ControlOK, HostOK
<1>1. CASE OwnerStep(r) /\ ~Settle(r)
  <2>1. UNCHANGED <<control, host>>
    BY <1>1 DEF OwnerStep, ClaimStarts, ClaimSaved, ClaimFails, Unwind, LoopStops, LoopDrains,
       LoopAgain, LoopEnds, ReleaseSaved, ReleaseFails, Leave
  <2>2. exec[r].phase \notin {"draining", "ending"}
    BY <1>1 DEF OwnerStep, ClaimStarts, ClaimSaved, ClaimFails, Unwind, LoopStops, LoopDrains,
       LoopAgain, LoopEnds, ReleaseSaved, ReleaseFails, Leave
  <2>3. \A o \in Runs \ {r} : exec'[o] = exec[o]
    BY <1>0, <1>1 DEF OwnerStep, ClaimStarts, ClaimSaved, ClaimFails, Unwind, LoopStops, LoopDrains,
       LoopAgain, LoopEnds, ReleaseSaved, ReleaseFails, Leave
  <2> QED
    BY <2>1, <2>2, <2>3
<1>2. CASE Settle(r)
  <2>1. /\ exec[r].phase = "settled"
        /\ \A o \in Runs \ {r} : exec'[o] = exec[o] /\ host'[o] = host[o]
        /\ UNCHANGED control
    BY <1>0, <1>2 DEF Settle, TypeOK, HostOK
  <2> QED
    BY <2>1
<1>3. CASE SkipDrain(r)
  <2>1. /\ exec[r].phase = "begin"
        /\ \A o \in Runs \ {r} : exec'[o] = exec[o] /\ host'[o] = host[o]
        /\ UNCHANGED control
    BY <1>0, <1>3 DEF SkipDrain, TypeOK, HostOK
  <2> QED
    BY <2>1
<1>4. CASE HostReturns(r)
  <2>1. PICK exit \in Exits : DrainExit(r, exit)
    BY <1>4 DEF HostReturns
  <2>2. /\ exec'[r].phase = "ending"
        /\ \A o \in Runs : host'[o].token = host[o].token
        /\ \A o \in Runs \ {r} : exec'[o] = exec[o]
        /\ UNCHANGED control
    BY <1>0, <2>1 DEF DrainExit, Execution, TypeOK, HostOK
  <2> QED
    BY <2>2
<1> QED
  BY <1>1, <1>2, <1>3, <1>4

LEMMA LiveBegin ==
  ASSUME TypeOK, LiveTokenIsOwners, NEW r \in Runs, BeginDrain(r)
  PROVE  LiveTokenIsOwners'
<1>1. /\ exec'[r].phase = "draining"
      /\ control'[r].liveToken = drainSeq + 1
      /\ host'[r].token = drainSeq + 1
  BY DEF BeginDrain, TypeOK, CoordinatorOK, Execution, ControlOK, RunControl, HostOK
<1>2. \A o \in Runs \ {r} : exec'[o] = exec[o] /\ control'[o] = control[o] /\ host'[o] = host[o]
  BY DEF BeginDrain, TypeOK, CoordinatorOK, ControlOK, HostOK
<1> QED
  BY <1>1, <1>2 DEF LiveTokenIsOwners

LEMMA LiveEnd ==
  ASSUME TypeOK, LiveTokenIsOwners, NEW r \in Runs, EndDrain(r)
  PROVE  LiveTokenIsOwners'
<1>1. control'[r].liveToken = 0
  <2>1. CASE control[r].liveToken = host[r].token
    BY <2>1 DEF EndDrain, Ended, TypeOK, ControlOK, RunControl
  <2>2. CASE control[r].liveToken # host[r].token
    BY <2>2 DEF EndDrain, LiveTokenIsOwners
  <2> QED
    BY <2>1, <2>2
<1>2. \A o \in Runs \ {r} : exec'[o] = exec[o] /\ control'[o] = control[o] /\ host'[o] = host[o]
  BY DEF EndDrain, TypeOK, CoordinatorOK, ControlOK, HostOK
<1> QED
  BY <1>1, <1>2 DEF LiveTokenIsOwners

LEMMA InterruptKeepsPhase ==
  ASSUME CoordinatorOK, NEW r \in Runs, NEW reason, Interrupt(r, reason)
  PROVE  \A o \in Runs : exec'[o].phase = exec[o].phase
<1>1. CASE exec' = [exec EXCEPT ![r].stopping = TRUE, ![r].pendingWake = "none",
                               ![r].reason = reason]
  BY <1>1 DEF CoordinatorOK, Execution
<1>2. CASE exec' = [exec EXCEPT ![r].pendingWake = "none"]
  BY <1>2 DEF CoordinatorOK, Execution
<1> QED
  BY <1>1, <1>2 DEF Interrupt

LEMMA ResumeHitlKeeps ==
  ASSUME TypeOK, NEW r \in Runs, NEW a, NEW q, ResumeHitl(r, a, q)
  PROVE  /\ \A o \in Runs : control'[o].liveToken = control[o].liveToken
         /\ \A o \in Runs : exec[o].phase # "none" => exec'[o].phase = exec[o].phase
<1> DEFINE park == Answered(control[r].park, a, q)
<1>1. CASE parkComplete(park)
  <2>1. /\ control' = [control EXCEPT ![r].park = [park EXCEPT !.readyWoken = TRUE],
                                      ![r].pending = widerScope(@, "input")]
        /\ exec' = [exec EXCEPT ![r] = Rung(@, "input")]
    BY <1>1 DEF ResumeHitl
  <2> HIDE DEF park
  <2>2. \A o \in Runs : control'[o].liveToken = control[o].liveToken
    BY <2>1 DEF TypeOK, ControlOK, RunControl
  <2>3. exec[r].phase # "none" => Rung(exec[r], "input").phase = exec[r].phase
    BY DEF TypeOK, CoordinatorOK, Execution, Rung
  <2> QED
    BY <2>1, <2>2, <2>3 DEF TypeOK, CoordinatorOK
<1>2. CASE ~parkComplete(park)
  <2>1. control' = [control EXCEPT ![r].park = park] /\ UNCHANGED exec
    BY <1>2 DEF ResumeHitl
  <2> HIDE DEF park
  <2> QED
    BY <2>1 DEF TypeOK, ControlOK, RunControl
<1> QED
  BY <1>1, <1>2

LEMMA LiveStep == TypeOK /\ LiveTokenIsOwners /\ [Next]_vars => LiveTokenIsOwners'
<1>1. ASSUME TypeOK, LiveTokenIsOwners, UNCHANGED vars
      PROVE  LiveTokenIsOwners'
  BY <1>1 DEF LiveTokenIsOwners, vars, coordinatorVars, inboxVars
<1> SUFFICES ASSUME TypeOK, LiveTokenIsOwners, Next
             PROVE  LiveTokenIsOwners'
  BY <1>1
<1> USE DEF inboxVars, coordinatorVars
<1>2. CASE System
  <2>1. ASSUME NEW r \in Runs, OwnerStep(r) \/ OwnerGateStep(r) \/ HostReturns(r)
        PROVE  LiveTokenIsOwners'
    BY <2>1, LiveBegin, LiveEnd, LiveOwner, KeepsLiveIsEnough DEF OwnerGateStep
  <2>2. ASSUME NEW r \in Runs, SweepResumes(r)
        PROVE  LiveTokenIsOwners'
    BY <2>2, LiveRing, KeepsLiveIsEnough DEF SweepResumes, Scopes
  <2>3. ASSUME NEW r \in Runs, GateStep(r) \/ SweepStep(r)
        PROVE  LiveTokenIsOwners'
    BY <2>2, <2>3, LiveSame, KeepsLiveIsEnough DEF GateStep, StopJoined, StopReleaseSaved,
       StopReleaseFails, SweepExhausts, SweepFails, SweepStep, SweepSkips, SweepDecides
  <2>4. ASSUME NEW q \in requests, DeliverRequest(q)
        PROVE  LiveTokenIsOwners'
    <3>1. /\ \A o \in Runs : exec'[o].phase = exec[o].phase
          /\ UNCHANGED <<control, host>>
      BY <2>4 DEF DeliverRequest, TypeOK, CoordinatorOK, Execution
    <3> QED
      BY <3>1 DEF LiveTokenIsOwners
  <2>5. ASSUME NEW r \in Runs, NEW s \in Scopes, NEW token \in 1..drainSeq, Take(r, s, token)
        PROVE  LiveTokenIsOwners'
    BY <2>5, LiveSame, KeepsLiveIsEnough DEF Take
  <2>6. ASSUME NEW c \in Callers, RetryRun(c)
        PROVE  LiveTokenIsOwners'
    <3>1. caller[c].run \in Runs
      BY <2>6 DEF TypeOK, CallersOK, RetryRun, Idle
    <3> QED
      BY <2>6, <3>1, LiveRing, LiveSame, KeepsLiveIsEnough DEF RetryRun, CaptureRun, Scopes
  <2> QED
    BY <1>2, <2>1, <2>3, <2>4, <2>5, <2>6 DEF System
<1>3. CASE Environment
  <2>1. ASSUME NEW r \in Runs, NEW s \in Scopes, Admit(r, s) \/ Enqueue(r, s) \/ Wake(r, s)
        PROVE  LiveTokenIsOwners'
    BY <2>1, LiveRing, LiveSame, KeepsLiveIsEnough DEF Admit, Enqueue, Wake
  <2>2. ASSUME NEW c \in Callers, NEW r \in Runs, Run(c, r)
        PROVE  LiveTokenIsOwners'
    BY <2>2, LiveRing, LiveSame, KeepsLiveIsEnough DEF Run, CaptureRun, Scopes
  <2>3. ASSUME NEW c \in Callers, CancelRun(c)
        PROVE  LiveTokenIsOwners'
    BY <2>3, LiveSame, KeepsLiveIsEnough DEF CancelRun
  <2>4. ASSUME NEW r \in Runs, NEW reason \in {"user", "shutdown"}, Interrupt(r, reason)
        PROVE  LiveTokenIsOwners'
    <3>1. /\ \A o \in Runs : exec'[o].phase = exec[o].phase
          /\ UNCHANGED <<control, host>>
      BY <2>4, InterruptKeepsPhase DEF TypeOK, Interrupt
    <3> QED
      BY <3>1 DEF LiveTokenIsOwners
  <2>5. ASSUME NEW r \in Runs, Stop(r)
        PROVE  LiveTokenIsOwners'
    <3>1. /\ \A o \in Runs : exec'[o].phase = exec[o].phase
          /\ UNCHANGED host
      BY <2>5 DEF Stop, TerminallyStopped, TypeOK, CoordinatorOK, Execution
    <3>2. \A o \in Runs : control'[o].liveToken \in {0, control[o].liveToken}
      BY <2>5 DEF Stop, emptyControl, TypeOK, ControlOK
    <3> QED
      BY <3>1, <3>2 DEF LiveTokenIsOwners
  <2>6. ASSUME NEW r \in Runs, ClearPark(r)
        PROVE  LiveTokenIsOwners'
    <3>1. /\ \A o \in Runs : control'[o].liveToken = control[o].liveToken
          /\ UNCHANGED <<exec, host>>
      BY <2>6 DEF ClearPark, TypeOK, ControlOK, RunControl
    <3> QED
      BY <3>1 DEF LiveTokenIsOwners
  <2>7. ASSUME NEW r \in Runs, NEW ids \in SUBSET Requests, NEW token \in 1..drainSeq,
               Pause(r, ids, token)
        PROVE  LiveTokenIsOwners'
    <3>1. /\ \A o \in Runs : control'[o].liveToken = control[o].liveToken
          /\ UNCHANGED <<exec, host>>
      BY <2>7 DEF Pause, TypeOK, ControlOK, RunControl
    <3> QED
      BY <3>1 DEF LiveTokenIsOwners
  <2>8. ASSUME NEW r \in Runs, NEW a \in Answers, NEW q \in Requests, ResumeHitl(r, a, q)
        PROVE  LiveTokenIsOwners'
    <3>1. \A o \in Runs : control'[o].liveToken = control[o].liveToken
      BY <2>8, ResumeHitlKeeps
    <3>2. \A o \in Runs : exec[o].phase # "none" => exec'[o].phase = exec[o].phase
      BY <2>8, ResumeHitlKeeps
    <3>3. UNCHANGED host
      BY <2>8 DEF ResumeHitl
    <3> QED
      BY <3>1, <3>2, <3>3 DEF LiveTokenIsOwners
  <2>9. CASE SweepStarts \/ SweepCancelled
    BY <2>9, LiveSame, KeepsLiveIsEnough DEF SweepStarts, SweepCancelled
  <2>10. CASE Crash
    BY <2>10 DEF Crash, emptyControl, LiveTokenIsOwners
  <2> QED
    BY <1>3, <2>1, <2>2, <2>3, <2>4, <2>5, <2>6, <2>7, <2>8, <2>9, <2>10 DEF Environment
<1> QED
  BY <1>2, <1>3 DEF Next

\* Exclusive authority: in every reachable state the one token that may take a
\* run's items or park it belongs to the drain its owner fiber is inside.
THEOREM OneLiveDrain == Spec => []LiveTokenIsOwners
<1>1. Init => LiveTokenIsOwners
  BY DEF Init, emptyControl, LiveTokenIsOwners
<1> QED
  BY <1>1, LiveStep, TypeCorrect, PTL DEF Spec

-----------------------------------------------------------------------------
(* Claims, interruptions and stops.                                        *)

\* An owner told to stop has been interrupted or has its request on the way.
StopIsPending(r) ==
  exec[r].stopping /\ exec[r].phase \in Owned =>
    Request(r) \in requests \/ exec[r].interrupted

\* Requests and interrupts are for owners that are stopping.
RequestsAreForStops(r) ==
  /\ Request(r) \in requests => Active(r) /\ exec[r].stopping
  /\ exec[r].interrupted => exec[r].stopping

\* A stopped owner cannot begin a drain: it is interrupted, or the stop still
\* holds the gate. Its claim goes when it settles.
StopIsFinal(r) ==
  stopped[r] /\ exec[r].phase \in Owned =>
    /\ exec[r].stopping
    /\ exec[r].interrupted \/ GateHeld("stop", r)
    /\ exec[r].reason = "user"

StoppedIsSilent(r) == stopped[r] => control[r].liveToken = 0

\* Nobody is started behind the back of a gate holder that is saving.
GateKeepsOrphan(r) ==
  /\ GateHeld("exhaust", r) \/ GateHeld("resume", r) => ~Active(r)
  /\ GateHeld("stopRelease", r) =>
       exec[r].phase \notin Owned /\ (Active(r) => exec[r].pendingWake = "none")

StoppedIsReleased(r) ==
  stopped[r] /\ exec[r].phase \in {"none", "settled"} /\ ~GateHeld("stopRelease", r)
    => r \notin claimed

OwnerIsClaimed(r) == exec[r].phase \in Acquired => r \in claimed

RunInv(r) ==
  /\ StopIsPending(r)
  /\ RequestsAreForStops(r)
  /\ StopIsFinal(r)
  /\ StoppedIsSilent(r)
  /\ GateKeepsOrphan(r)
  /\ StoppedIsReleased(r)
  /\ OwnerIsClaimed(r)

OwnershipInv == \A r \in Runs : RunInv(r)

\* Nothing RunInv(o) reads has changed; the live token may have been given up.
Untouched(o) ==
  /\ exec'[o] = exec[o]
  /\ control'[o].liveToken \in {0, control[o].liveToken}
  /\ stopped'[o] = stopped[o]
  /\ Request(o) \in requests' <=> Request(o) \in requests
  /\ o \in claimed' <=> o \in claimed
  /\ \A op \in {"stop", "stopRelease", "exhaust", "resume"} :
       GateHeld(op, o)' <=> GateHeld(op, o)

LEMMA UntouchedKeeps ==
  ASSUME NEW o \in Runs, RunInv(o), Untouched(o)
  PROVE  RunInv(o)'
<1>0. Active(o)' <=> Active(o)
  BY DEF Untouched, Active
<1>1. StopIsPending(o)' /\ RequestsAreForStops(o)' /\ OwnerIsClaimed(o)'
  BY <1>0 DEF RunInv, Untouched, StopIsPending, RequestsAreForStops, OwnerIsClaimed, Request
<1>2. StopIsFinal(o)' /\ StoppedIsSilent(o)'
  BY DEF RunInv, Untouched, StopIsFinal, StoppedIsSilent
<1>3. GateKeepsOrphan(o)' /\ StoppedIsReleased(o)'
  BY <1>0 DEF RunInv, Untouched, GateKeepsOrphan, StoppedIsReleased
<1> QED
  BY <1>1, <1>2, <1>3 DEF RunInv

\* An owner moves on inside its body.
LEMMA OwnerMoves ==
  ASSUME TypeOK, OwnershipInv, NEW r \in Runs, NEW p \in Owned,
         exec[r].phase \in Owned,
         p \in Acquired => r \in claimed',
         exec'[r] = [exec[r] EXCEPT !.phase = p],
         UNCHANGED <<requests, gate, stopped>>,
         control'[r].liveToken \in {0, control[r].liveToken},
         claimed' \in {claimed, claimed \cup {r}}
  PROVE  RunInv(r)'
<1>0. RunInv(r) /\ exec[r] \in Execution
  BY DEF OwnershipInv, TypeOK, CoordinatorOK
<1>1. /\ exec'[r].phase = p
      /\ exec'[r].stopping = exec[r].stopping
      /\ exec'[r].interrupted = exec[r].interrupted
      /\ exec'[r].reason = exec[r].reason
  BY <1>0 DEF Execution
<1>2. Active(r) /\ Active(r)'
  BY <1>1 DEF Active, Owned, Acquired
<1>3. StopIsPending(r)' /\ RequestsAreForStops(r)'
  BY <1>0, <1>1, <1>2 DEF RunInv, StopIsPending, RequestsAreForStops, Request
<1>4. StopIsFinal(r)' /\ StoppedIsSilent(r)'
  BY <1>0, <1>1 DEF RunInv, StopIsFinal, StoppedIsSilent, GateHeld
<1>5. GateKeepsOrphan(r)'
  BY <1>0, <1>1, <1>2 DEF RunInv, GateKeepsOrphan, GateHeld
<1>6. StoppedIsReleased(r)' /\ OwnerIsClaimed(r)'
  BY <1>1 DEF StoppedIsReleased, OwnerIsClaimed, Owned, Acquired
<1> QED
  BY <1>3, <1>4, <1>5, <1>6 DEF RunInv

\* The owner's body ends; a stopped run that keeps no claim for `settled` to
\* release has none.
LEMMA OwnerLeaves ==
  ASSUME TypeOK, OwnershipInv, NEW r \in Runs, NEW exit, Leave(r, exit),
         exec[r].phase \in Owned, UNCHANGED stopped
  PROVE  OwnershipInv'
<1> USE DEF inboxVars, storeVars
<1>0. RunInv(r) /\ exec[r] \in Execution
  BY DEF OwnershipInv, TypeOK, CoordinatorOK
<1>1. \A o \in Runs \ {r} : Untouched(o)
  BY DEF Leave, Untouched, TypeOK, CoordinatorOK, GateHeld, Request
<1>2. /\ exec'[r].phase = IF Releases(r, exit) THEN "releasing" ELSE "settled"
      /\ exec'[r].stopping = exec[r].stopping
      /\ exec'[r].interrupted = FALSE
      /\ UNCHANGED <<requests, control, gate, claimed, stopped>>
  BY <1>0 DEF Leave, TypeOK, CoordinatorOK, Execution
<1>3. Active(r) /\ Active(r)' /\ exec'[r].phase \notin Owned
  BY <1>2 DEF Active, Owned, Acquired
<1>4. StopIsPending(r)' /\ RequestsAreForStops(r)'
  BY <1>0, <1>2, <1>3 DEF RunInv, StopIsPending, RequestsAreForStops, Request
<1>5. StopIsFinal(r)' /\ StoppedIsSilent(r)'
  BY <1>0, <1>2, <1>3 DEF RunInv, StopIsFinal, StoppedIsSilent
<1>6. GateKeepsOrphan(r)'
  BY <1>0, <1>2, <1>3 DEF RunInv, GateKeepsOrphan, GateHeld
<1>7. StoppedIsReleased(r)'
  <2>1. ASSUME stopped[r], ~Releases(r, exit)
        PROVE  r \notin claimed
    <3>1. exec[r].reason = "user"
      BY <1>0, <2>1 DEF RunInv, StopIsFinal
    <3> QED
      BY <2>1, <3>1 DEF Releases
  <2> QED
    BY <1>2, <2>1 DEF StoppedIsReleased
<1>8. OwnerIsClaimed(r)'
  BY <1>3 DEF OwnerIsClaimed, Owned
<1>9. RunInv(r)'
  BY <1>4, <1>5, <1>6, <1>7, <1>8 DEF RunInv
<1> QED
  BY <1>1, <1>9, UntouchedKeeps DEF OwnershipInv

LEMMA OwnershipOwner ==
  ASSUME TypeOK, OwnershipInv, NEW r \in Runs, OwnerStep(r) \/ OwnerGateStep(r) \/ HostReturns(r)
  PROVE  OwnershipInv'
<1> USE DEF inboxVars, storeVars, historyVars
<1>0. /\ RunInv(r)
      /\ exec \in [Runs -> Execution]
      /\ exec[r] \in Execution
      /\ control \in [Runs -> RunControl]
      /\ requests \subseteq [run : Runs, owner : {"current", "gone"}]
  BY DEF OwnershipInv, TypeOK, CoordinatorOK, ControlOK
<1>a. {"claiming", "loop", "begin", "draining", "ending", "drained"} \subseteq Owned
  BY DEF Owned, Acquired
<1>b. exec[r].phase \in Acquired => r \in claimed
  BY <1>0 DEF RunInv, OwnerIsClaimed
<1>c. ASSUME \A o \in Runs \ {r} : Untouched(o), RunInv(r)'
      PROVE  OwnershipInv'
  BY <1>c, UntouchedKeeps DEF OwnershipInv
<1>1. CASE ClaimStarts(r)
  <2>1. \A o \in Runs \ {r} : Untouched(o)
    BY <1>0, <1>1 DEF ClaimStarts, Untouched, GateHeld, Request
  <2>2. RunInv(r)'
    <3>1. exec'[r] = [exec[r] EXCEPT !.phase = "claiming"] /\ exec[r].phase \in Owned
      BY <1>0, <1>1 DEF ClaimStarts, Owned
    <3> QED
      BY <1>1, <1>a, <3>1, OwnerMoves DEF ClaimStarts, Acquired
  <2> QED
    BY <1>c, <2>1, <2>2
<1>2. CASE ClaimSaved(r)
  <2>1. \A o \in Runs \ {r} : Untouched(o)
    BY <1>0, <1>2 DEF ClaimSaved, Untouched, GateHeld, Request
  <2>2. RunInv(r)'
    <3>1. exec'[r] = [exec[r] EXCEPT !.phase = "loop"] /\ exec[r].phase \in Owned
      BY <1>0, <1>2, <1>a DEF ClaimSaved
    <3> QED
      BY <1>2, <1>a, <3>1, OwnerMoves DEF ClaimSaved
  <2> QED
    BY <1>c, <2>1, <2>2
<1>3. CASE ClaimFails(r) \/ Unwind(r) \/ LoopStops(r) \/ LoopEnds(r)
  BY <1>3, OwnerLeaves DEF ClaimFails, Unwind, LoopStops, LoopEnds, Owned, Acquired
<1>4. CASE LoopDrains(r)
  <2>1. \A o \in Runs \ {r} : Untouched(o)
    BY <1>0, <1>4 DEF LoopDrains, Untouched, GateHeld, Request
  <2>2. RunInv(r)'
    <3>1. /\ exec'[r] = [exec[r] EXCEPT !.phase = "begin"]
          /\ exec[r].phase \in Owned
          /\ r \in claimed
      BY <1>0, <1>4, <1>a, <1>b DEF LoopDrains, Acquired
    <3> QED
      BY <1>4, <1>a, <3>1, OwnerMoves DEF LoopDrains
  <2> QED
    BY <1>c, <2>1, <2>2
<1>5. CASE SkipDrain(r)
  <2>1. \A o \in Runs \ {r} : Untouched(o)
    BY <1>0, <1>5 DEF SkipDrain, Untouched, GateHeld, Request
  <2>2. RunInv(r)'
    <3>1. /\ exec'[r] = [exec[r] EXCEPT !.phase = "drained"]
          /\ exec[r].phase \in Owned
          /\ r \in claimed
      BY <1>0, <1>5, <1>a, <1>b DEF SkipDrain, Acquired
    <3> QED
      BY <1>5, <1>a, <3>1, OwnerMoves DEF SkipDrain
  <2> QED
    BY <1>c, <2>1, <2>2
<1>6. CASE HostReturns(r)
  <2>0. PICK exit \in Exits : DrainExit(r, exit)
    BY <1>6 DEF HostReturns
  <2>1. \A o \in Runs \ {r} : Untouched(o)
    BY <1>0, <2>0 DEF DrainExit, Untouched, GateHeld, Request
  <2>2. RunInv(r)'
    <3>1. /\ exec'[r] = [exec[r] EXCEPT !.phase = "ending"]
          /\ exec[r].phase \in Owned
          /\ r \in claimed
      BY <1>0, <2>0, <1>a, <1>b DEF DrainExit, Acquired
    <3> QED
      BY <2>0, <1>a, <3>1, OwnerMoves DEF DrainExit
  <2> QED
    BY <1>c, <2>1, <2>2
<1>7. CASE EndDrain(r)
  <2>0. \A o \in Runs : control'[o].liveToken \in {0, control[o].liveToken}
    BY <1>0, <1>7 DEF EndDrain, Ended, RunControl
  <2>1. \A o \in Runs \ {r} : Untouched(o)
    BY <1>0, <1>7, <2>0 DEF EndDrain, Untouched, GateHeld, Request
  <2>2. RunInv(r)'
    <3>1. /\ exec'[r] = [exec[r] EXCEPT !.phase = "drained"]
          /\ exec[r].phase \in Owned
          /\ r \in claimed
      BY <1>0, <1>7, <1>a, <1>b DEF EndDrain, Acquired
    <3> QED
      BY <1>7, <1>a, <2>0, <3>1, OwnerMoves DEF EndDrain
  <2> QED
    BY <1>c, <2>1, <2>2
<1>8. CASE BeginDrain(r)
  <2>1. \A o \in Runs \ {r} : Untouched(o)
    BY <1>0, <1>8 DEF BeginDrain, Untouched, GateHeld, Request
  <2>2. ~stopped[r]
    BY <1>0, <1>8, <1>a DEF BeginDrain, RunInv, StopIsFinal, GateHeld, GateFree
  <2>3. RunInv(r)'
    <3>1. /\ exec'[r].phase = "draining"
          /\ exec'[r].stopping = exec[r].stopping
          /\ exec'[r].interrupted = exec[r].interrupted
          /\ UNCHANGED <<requests, gate, claimed, stopped>>
          /\ r \in claimed
      BY <1>0, <1>8, <1>b DEF BeginDrain, Execution, Acquired
    <3>2. exec[r].phase \in Owned /\ Active(r) /\ Active(r)'
      BY <1>8, <1>a, <3>1 DEF BeginDrain, Active
    <3>3. StopIsPending(r)' /\ RequestsAreForStops(r)' /\ OwnerIsClaimed(r)'
      BY <1>0, <3>1, <3>2 DEF RunInv, StopIsPending, RequestsAreForStops, OwnerIsClaimed, Request
    <3>4. StopIsFinal(r)' /\ StoppedIsSilent(r)' /\ StoppedIsReleased(r)'
      BY <2>2, <3>1 DEF StopIsFinal, StoppedIsSilent, StoppedIsReleased
    <3>5. GateKeepsOrphan(r)'
      BY <1>8, <3>1 DEF GateKeepsOrphan, GateHeld, BeginDrain, GateFree
    <3> QED
      BY <3>3, <3>4, <3>5 DEF RunInv
  <2> QED
    BY <1>c, <2>1, <2>3
<1>9. CASE LoopAgain(r)
  <2>1. \A o \in Runs \ {r} : Untouched(o)
    BY <1>0, <1>9 DEF LoopAgain, Untouched, GateHeld, Request
  <2>2. RunInv(r)'
    <3>1. /\ exec'[r].phase = "loop"
          /\ exec'[r].stopping = exec[r].stopping
          /\ exec'[r].interrupted = exec[r].interrupted
          /\ exec'[r].reason = exec[r].reason
          /\ UNCHANGED <<requests, gate, claimed, stopped, control>>
          /\ r \in claimed
      BY <1>0, <1>9, <1>b DEF LoopAgain, Execution, Acquired
    <3>2. exec[r].phase \in Owned /\ Active(r) /\ Active(r)'
      BY <1>9, <1>a, <3>1 DEF LoopAgain, Active
    <3>3. StopIsPending(r)' /\ RequestsAreForStops(r)' /\ OwnerIsClaimed(r)'
      BY <1>0, <3>1, <3>2 DEF RunInv, StopIsPending, RequestsAreForStops, OwnerIsClaimed, Request
    <3>4. StopIsFinal(r)' /\ StoppedIsSilent(r)' /\ StoppedIsReleased(r)'
      BY <1>0, <3>1, <3>2 DEF RunInv, StopIsFinal, StoppedIsSilent, StoppedIsReleased, GateHeld
    <3>5. GateKeepsOrphan(r)'
      BY <1>0, <3>1, <3>2 DEF RunInv, GateKeepsOrphan, GateHeld
    <3> QED
      BY <3>3, <3>4, <3>5 DEF RunInv
  <2> QED
    BY <1>c, <2>1, <2>2
<1>10. CASE ReleaseSaved(r) \/ ReleaseFails(r)
  <2>1. \A o \in Runs \ {r} : Untouched(o)
    BY <1>0, <1>10 DEF ReleaseSaved, ReleaseFails, Untouched, GateHeld, Request, TypeOK
  <2>2. RunInv(r)'
    <3>1. /\ exec[r].phase = "releasing"
          /\ exec'[r].phase = "settled"
          /\ exec'[r].stopping = exec[r].stopping
          /\ exec'[r].interrupted = exec[r].interrupted
          /\ exec'[r].pendingWake = exec[r].pendingWake
          /\ UNCHANGED <<requests, gate, control>>
      BY <1>0, <1>10 DEF ReleaseSaved, ReleaseFails, Execution
    <3>2. /\ stopped'[r] => stopped[r]
          /\ stopped'[r] => r \notin claimed'
      BY <1>10 DEF ReleaseSaved, ReleaseFails, TypeOK
    <3>3. Active(r) /\ Active(r)' /\ exec[r].phase \notin Owned /\ exec'[r].phase \notin Owned
      BY <3>1 DEF Active, Owned, Acquired
    <3>4. StopIsPending(r)' /\ RequestsAreForStops(r)' /\ OwnerIsClaimed(r)'
      BY <1>0, <3>1, <3>3 DEF RunInv, StopIsPending, RequestsAreForStops, OwnerIsClaimed,
         Request, Owned
    <3>5. StopIsFinal(r)' /\ StoppedIsSilent(r)' /\ StoppedIsReleased(r)'
      BY <1>0, <3>1, <3>2, <3>3 DEF RunInv, StopIsFinal, StoppedIsSilent, StoppedIsReleased
    <3>6. GateKeepsOrphan(r)'
      BY <1>0, <3>1, <3>3 DEF RunInv, GateKeepsOrphan, GateHeld
    <3> QED
      BY <3>4, <3>5, <3>6 DEF RunInv
  <2> QED
    BY <1>c, <2>1, <2>2
<1>11. CASE Settle(r)
  <2>1. \A o \in Runs : Request(o) \in requests' <=> o # r /\ Request(o) \in requests
    BY <1>11 DEF Settle, Outdated, Request
  <2>2. \A o \in Runs \ {r} : Untouched(o)
    BY <1>0, <1>11, <2>1 DEF Settle, Untouched, GateHeld, TypeOK
  <2>3. RunInv(r)'
    <3>1. /\ exec[r].phase = "settled"
          /\ exec'[r] = Successor(exec[r])
          /\ stopped'[r] = (stopped[r] /\ exec[r].pendingWake = "none")
          /\ UNCHANGED <<gate, control, claimed>>
          /\ Request(r) \notin requests'
      BY <1>0, <1>11, <2>1 DEF Settle, TypeOK
    <3>2. Active(r)
      BY <3>1 DEF Active
    <3>3. CASE exec[r].pendingWake = "none"
      <4>1. exec'[r].phase = "none" /\ exec'[r].interrupted = FALSE
        BY <3>1, <3>3 DEF Successor, NoExec
      <4>2. ~Active(r)' /\ exec'[r].phase \notin Owned
        BY <4>1 DEF Active, Owned, Acquired
      <4>3. StopIsPending(r)' /\ RequestsAreForStops(r)' /\ OwnerIsClaimed(r)'
        BY <3>1, <4>1, <4>2 DEF StopIsPending, RequestsAreForStops, OwnerIsClaimed,
           Request, Owned
      <4>4. StopIsFinal(r)' /\ StoppedIsSilent(r)' /\ StoppedIsReleased(r)'
        BY <1>0, <3>1, <4>2 DEF RunInv, StopIsFinal, StoppedIsSilent, StoppedIsReleased, GateHeld
      <4>5. GateKeepsOrphan(r)'
        BY <4>2 DEF GateKeepsOrphan
      <4> QED
        BY <4>3, <4>4, <4>5 DEF RunInv
    <3>4. CASE exec[r].pendingWake # "none"
      <4>1. /\ exec'[r].phase = "forked"
            /\ exec'[r].interrupted = FALSE
            /\ exec'[r].stopping = FALSE
            /\ ~stopped'[r]
        BY <3>1, <3>4 DEF Successor, Started, NoExec
      <4>2. StopIsPending(r)' /\ RequestsAreForStops(r)' /\ OwnerIsClaimed(r)'
        BY <3>1, <4>1 DEF StopIsPending, RequestsAreForStops, OwnerIsClaimed, Request, Acquired
      <4>3. StopIsFinal(r)' /\ StoppedIsSilent(r)' /\ StoppedIsReleased(r)'
        BY <4>1 DEF StopIsFinal, StoppedIsSilent, StoppedIsReleased
      <4>4. GateKeepsOrphan(r)'
        BY <1>0, <3>1, <3>2, <3>4 DEF RunInv, GateKeepsOrphan, GateHeld
      <4> QED
        BY <4>2, <4>3, <4>4 DEF RunInv
    <3> QED
      BY <3>3, <3>4
  <2> QED
    BY <1>c, <2>2, <2>3
<1> QED
  BY <1>1, <1>2, <1>3, <1>4, <1>5, <1>6, <1>7, <1>8, <1>9, <1>10, <1>11
  DEF OwnerStep, OwnerGateStep

\* The doorbell, rung by a holder of the gate that then lets go of it.
LEMMA OwnershipRing ==
  ASSUME TypeOK, OwnershipInv, NEW r \in Runs, NEW s \in Scopes,
         exec' = [exec EXCEPT ![r] = Rung(@, s)],
         stopped' = [stopped EXCEPT ![r] = @ /\ Active(r)],
         \A o \in Runs : control'[o].liveToken = control[o].liveToken,
         UNCHANGED <<requests, claimed>>,
         GateFree \/ GateHeld("resume", r), gate'.op = "free"
  PROVE  OwnershipInv'
<1>0. /\ RunInv(r)
      /\ exec \in [Runs -> Execution]
      /\ exec[r] \in Execution
      /\ stopped \in [Runs -> BOOLEAN]
  BY DEF OwnershipInv, TypeOK, CoordinatorOK
<1>1. \A o \in Runs \ {r} : Untouched(o)
  BY <1>0 DEF Untouched, GateHeld, GateFree, Request
<1>2. GateKeepsOrphan(r)' /\ ~GateHeld("stop", r) /\ ~GateHeld("stopRelease", r)
  BY DEF GateKeepsOrphan, GateHeld, GateFree
<1>3. CASE Active(r)
  <2>1. /\ exec'[r].phase = exec[r].phase
        /\ exec'[r].stopping = exec[r].stopping
        /\ exec'[r].interrupted = exec[r].interrupted
        /\ exec'[r].reason = exec[r].reason
        /\ stopped'[r] = stopped[r]
    BY <1>0, <1>3 DEF Rung, Active, Execution
  <2>2. Active(r)'
    BY <1>3, <2>1 DEF Active
  <2>3. StopIsPending(r)' /\ RequestsAreForStops(r)' /\ OwnerIsClaimed(r)'
    BY <1>0, <2>1, <2>2 DEF RunInv, StopIsPending, RequestsAreForStops, OwnerIsClaimed, Request
  <2>4. StopIsFinal(r)' /\ StoppedIsSilent(r)' /\ StoppedIsReleased(r)'
    BY <1>0, <1>2, <2>1 DEF RunInv, StopIsFinal, StoppedIsSilent, StoppedIsReleased
  <2>5. RunInv(r)'
    BY <1>2, <2>3, <2>4 DEF RunInv
  <2> QED
    BY <1>1, <2>5, UntouchedKeeps DEF OwnershipInv
<1>4. CASE ~Active(r)
  <2>1. /\ exec'[r].phase = "forked"
        /\ exec'[r].interrupted = FALSE
        /\ exec'[r].stopping = FALSE
        /\ ~stopped'[r]
    BY <1>0, <1>4 DEF Rung, Active, Started, NoExec
  <2>2. Request(r) \notin requests'
    BY <1>0, <1>4 DEF RunInv, RequestsAreForStops
  <2>3. StopIsPending(r)' /\ RequestsAreForStops(r)' /\ OwnerIsClaimed(r)'
    BY <2>1, <2>2 DEF StopIsPending, RequestsAreForStops, OwnerIsClaimed, Request, Acquired
  <2>4. StopIsFinal(r)' /\ StoppedIsSilent(r)' /\ StoppedIsReleased(r)'
    BY <2>1 DEF StopIsFinal, StoppedIsSilent, StoppedIsReleased
  <2>5. RunInv(r)'
    BY <1>2, <2>3, <2>4 DEF RunInv
  <2> QED
    BY <1>1, <2>5, UntouchedKeeps DEF OwnershipInv
<1> QED
  BY <1>3, <1>4

LEMMA OwnershipInterrupt ==
  ASSUME TypeOK, OwnershipInv, NEW r \in Runs, NEW reason, Interrupt(r, reason)
  PROVE  OwnershipInv'
<1> USE DEF inboxVars, storeVars
<1>0. /\ RunInv(r)
      /\ exec \in [Runs -> Execution]
      /\ exec[r] \in Execution
  BY DEF OwnershipInv, TypeOK, CoordinatorOK
<1>1. \A o \in Runs \ {r} : Untouched(o)
  <2>1. \A o \in Runs \ {r} : exec'[o] = exec[o]
    BY <1>0 DEF Interrupt
  <2> QED
    BY <2>1 DEF Interrupt, Untouched, GateHeld, Request
<1>2. /\ exec'[r].phase = exec[r].phase
      /\ exec'[r].interrupted = exec[r].interrupted
      /\ exec'[r].pendingWake = "none"
      /\ exec[r].phase \in Owned => exec'[r].stopping /\ Request(r) \in requests'
      /\ exec[r].phase \notin Owned => exec'[r].stopping = exec[r].stopping
                                         /\ UNCHANGED requests
  <2>1. CASE exec[r].phase \in Owned
    <3>1. exec'[r] = [exec[r] EXCEPT !.stopping = TRUE, !.pendingWake = "none",
                                     !.reason = reason]
      BY <1>0, <2>1 DEF Interrupt
    <3> QED
      BY <1>0, <2>1, <3>1 DEF Interrupt, Execution
  <2>2. CASE exec[r].phase \notin Owned
    BY <1>0, <2>2 DEF Interrupt, Execution
  <2> QED
    BY <2>1, <2>2
<1>3. UNCHANGED <<gate, claimed, stopped, control>> /\ Active(r) /\ ~exec[r].stopping
  BY DEF Interrupt
<1>4. Active(r)'
  BY <1>2, <1>3 DEF Active
<1>5. ~exec[r].interrupted /\ Request(r) \notin requests
  BY <1>0, <1>3 DEF RunInv, RequestsAreForStops
<1>6. StopIsPending(r)' /\ RequestsAreForStops(r)' /\ OwnerIsClaimed(r)'
  BY <1>0, <1>2, <1>3, <1>4, <1>5 DEF RunInv, StopIsPending, RequestsAreForStops,
     OwnerIsClaimed, Request
<1>7. StopIsFinal(r)' /\ StoppedIsSilent(r)' /\ StoppedIsReleased(r)'
  BY <1>0, <1>2, <1>3 DEF RunInv, StopIsFinal, StoppedIsSilent, StoppedIsReleased, GateHeld
<1>8. GateKeepsOrphan(r)'
  BY <1>0, <1>2, <1>3 DEF RunInv, GateKeepsOrphan, GateHeld
<1>9. RunInv(r)'
  BY <1>6, <1>7, <1>8 DEF RunInv
<1> QED
  BY <1>1, <1>9, UntouchedKeeps DEF OwnershipInv

LEMMA OwnershipDeliver ==
  ASSUME TypeOK, OwnershipInv, NEW q \in requests, DeliverRequest(q)
  PROVE  OwnershipInv'
<1> USE DEF inboxVars, storeVars, historyVars
<1>0. /\ exec \in [Runs -> Execution]
      /\ q \in [run : Runs, owner : {"current", "gone"}]
  BY DEF TypeOK, CoordinatorOK
<1> DEFINE r == q.run
<1>1. r \in Runs /\ RunInv(r) /\ exec[r] \in Execution
  BY <1>0 DEF OwnershipInv
<1>2. q = Request(r) <=> q.owner = "current"
  BY <1>0 DEF Request
<1>3. \A o \in Runs \ {r} : Untouched(o)
  BY <1>0 DEF DeliverRequest, Untouched, GateHeld, Request
<1>4. /\ exec'[r].phase = exec[r].phase
      /\ exec'[r].stopping = exec[r].stopping
      /\ exec'[r].reason = exec[r].reason
      /\ exec'[r].pendingWake = exec[r].pendingWake
      /\ exec'[r].interrupted = (exec[r].interrupted \/ TargetsOwner(q))
      /\ UNCHANGED <<gate, claimed, stopped, control>>
      /\ requests' = requests \ {q}
  <2>1. CASE TargetsOwner(q)
    BY <1>0, <1>1, <2>1 DEF DeliverRequest, Execution
  <2>2. CASE ~TargetsOwner(q)
    BY <1>0, <1>1, <2>2 DEF DeliverRequest, Execution
  <2> QED
    BY <2>1, <2>2
<1> HIDE DEF r
<1>5. Active(r)' <=> Active(r)
  BY <1>4 DEF Active
<1>6. StopIsPending(r)' /\ RequestsAreForStops(r)'
  <2>1. TargetsOwner(q) <=> q = Request(r) /\ exec[r].phase \in Owned
    BY <1>2 DEF TargetsOwner, r
  <2> QED
    BY <1>1, <1>4, <1>5, <2>1 DEF RunInv, StopIsPending, RequestsAreForStops, Request
<1>7. StopIsFinal(r)' /\ StoppedIsSilent(r)' /\ StoppedIsReleased(r)' /\ OwnerIsClaimed(r)'
  BY <1>1, <1>4 DEF RunInv, StopIsFinal, StoppedIsSilent, StoppedIsReleased, OwnerIsClaimed,
     GateHeld
<1>8. GateKeepsOrphan(r)'
  BY <1>1, <1>4, <1>5 DEF RunInv, GateKeepsOrphan, GateHeld
<1>9. RunInv(r)'
  BY <1>6, <1>7, <1>8 DEF RunInv
<1> QED
  BY <1>3, <1>9, UntouchedKeeps DEF OwnershipInv

LEMMA OwnershipStop ==
  ASSUME TypeOK, OwnershipInv, NEW r \in Runs, Stop(r)
  PROVE  OwnershipInv'
<1> USE DEF storeVars
<1>0. /\ RunInv(r)
      /\ exec \in [Runs -> Execution]
      /\ exec[r] \in Execution
      /\ stopped \in [Runs -> BOOLEAN]
      /\ control \in [Runs -> RunControl]
  BY DEF OwnershipInv, TypeOK, CoordinatorOK, ControlOK
<1>1. gate'.op = "free" \/ gate'.run = r
  BY DEF Stop, FreeGate
<1>2. \A o \in Runs \ {r} : Untouched(o)
  <2>2. \A o \in Runs \ {r} : exec'[o] = exec[o]
    BY <1>0 DEF Stop
  <2>3. \A o \in Runs \ {r} : Request(o) \in requests' <=> Request(o) \in requests
    BY DEF Stop, Request
  <2>4. \A o \in Runs \ {r} : control'[o] = control[o] /\ stopped'[o] = stopped[o]
    BY <1>0 DEF Stop
  <2>5. UNCHANGED claimed /\ gate.op = "free"
    BY DEF Stop, GateFree
  <2> QED
    BY <1>1, <2>2, <2>3, <2>4, <2>5 DEF Untouched, GateHeld
<1>3. /\ exec'[r].phase = exec[r].phase
      /\ exec'[r].interrupted = exec[r].interrupted
      /\ Active(r) => exec'[r].stopping /\ exec'[r].pendingWake = "none"
      /\ exec[r].phase \in Owned => exec'[r].reason = "user"
  <2>1. CASE Active(r)
    <3>1. exec'[r] = TerminallyStopped(exec[r])
      BY <1>0, <2>1 DEF Stop
    <3> QED
      BY <1>0, <3>1 DEF TerminallyStopped, Execution
  <2>2. CASE ~Active(r)
    <3>1. exec[r].phase \notin Owned
      BY <2>2 DEF Active, Owned, Acquired
    <3> QED
      BY <2>2, <3>1 DEF Stop
  <2> QED
    BY <2>1, <2>2
<1>4. /\ control'[r].liveToken = 0
      /\ claimed' = claimed
      /\ exec[r].phase \in Owned => Active(r)
  BY <1>0 DEF Stop, emptyControl, Active, Owned, Acquired
<1>5. /\ Active(r)' <=> Active(r)
      /\ Request(r) \in requests => Active(r) /\ Request(r) \in requests'
      /\ Request(r) \in requests' => Active(r)
      /\ exec[r].phase \in Owned => Request(r) \in requests' \/ exec[r].interrupted
  <2>1. Active(r)' <=> Active(r)
    BY <1>3 DEF Active
  <2>2. requests' = IF exec[r].phase \in Owned /\ ~exec[r].stopping
                    THEN requests \cup {Request(r)} ELSE requests
    BY DEF Stop
  <2> QED
    BY <1>0, <1>4, <2>1, <2>2 DEF RunInv, StopIsPending, RequestsAreForStops
<1>6. /\ exec[r].phase \in Owned => GateHeld("stop", r)'
      /\ exec[r].phase \notin Owned /\ r \in claimed => GateHeld("stopRelease", r)'
      /\ ~GateHeld("exhaust", r)' /\ ~GateHeld("resume", r)'
      /\ GateHeld("stopRelease", r)' => exec[r].phase \notin Owned
  BY DEF Stop, GateHeld, FreeGate, ReleasesLeftover
<1>7. StopIsPending(r)' /\ OwnerIsClaimed(r)'
  <2>1. Request(r)' = Request(r)
    BY DEF Request
  <2> QED
    BY <1>0, <1>3, <1>4, <1>5, <2>1 DEF RunInv, StopIsPending, OwnerIsClaimed
<1>8. RequestsAreForStops(r)'
  <2>1. Request(r)' = Request(r)
    BY DEF Request
  <2>2. exec[r].interrupted => exec'[r].stopping
    <3>1. CASE Active(r)
      BY <1>3, <3>1
    <3>2. CASE ~Active(r)
      <4>1. exec' = exec
        BY <3>2 DEF Stop
      <4> QED
        BY <1>0, <4>1 DEF RunInv, RequestsAreForStops
    <3> QED
      BY <3>1, <3>2
  <2> QED
    BY <1>3, <1>5, <2>1, <2>2 DEF RequestsAreForStops
<1>9. StopIsFinal(r)' /\ StoppedIsSilent(r)'
  BY <1>3, <1>4, <1>6 DEF StopIsFinal, StoppedIsSilent
<1>10. GateKeepsOrphan(r)' /\ StoppedIsReleased(r)'
  BY <1>3, <1>4, <1>5, <1>6 DEF GateKeepsOrphan, StoppedIsReleased, Owned, Acquired
<1>11. RunInv(r)'
  BY <1>7, <1>8, <1>9, <1>10 DEF RunInv
<1> QED
  BY <1>2, <1>11, UntouchedKeeps DEF OwnershipInv

\* A gate holder's save or join is over and the gate is free again.
LEMMA OwnershipGate ==
  ASSUME TypeOK, OwnershipInv, NEW r \in Runs, GateStep(r)
  PROVE  OwnershipInv'
<1> USE DEF coordinatorVars, historyVars, storeVars
<1>0. /\ RunInv(r)
      /\ stopped \in [Runs -> BOOLEAN]
  BY DEF OwnershipInv, TypeOK
<1>1. /\ gate'.op = "free"
      /\ gate.run = r
  BY DEF GateStep, StopJoined, StopReleaseSaved, StopReleaseFails, SweepExhausts, SweepResumes,
     SweepFails, GateHeld, FreeGate
<1>2. CASE SweepResumes(r)
  <2>1. \A o \in Runs : control'[o].liveToken = control[o].liveToken
    BY <1>2 DEF SweepResumes, Ring, TypeOK, ControlOK, RunControl
  <2> QED
    BY <1>1, <1>2, <2>1, OwnershipRing DEF SweepResumes, Ring, Scopes
<1>3. ASSUME UNCHANGED <<exec, requests, control>>,
             \A o \in Runs \ {r} : stopped'[o] = stopped[o] /\ (o \in claimed' <=> o \in claimed),
             StopIsFinal(r)', StoppedIsReleased(r)', OwnerIsClaimed(r)',
             stopped'[r] => stopped[r]
      PROVE  OwnershipInv'
  <2>1. \A o \in Runs \ {r} : Untouched(o)
    BY <1>1, <1>3 DEF Untouched, GateHeld, Request
  <2>2. StopIsPending(r)' /\ RequestsAreForStops(r)' /\ StoppedIsSilent(r)'
    BY <1>0, <1>3 DEF RunInv, StopIsPending, RequestsAreForStops, StoppedIsSilent, Request, Active
  <2>3. GateKeepsOrphan(r)'
    BY <1>1 DEF GateKeepsOrphan, GateHeld
  <2>4. RunInv(r)'
    BY <1>3, <2>2, <2>3 DEF RunInv
  <2> QED
    BY <2>1, <2>4, UntouchedKeeps DEF OwnershipInv
<1>4. CASE StopJoined(r)
  <2>1. Request(r) \notin requests
    BY <1>4 DEF StopJoined, RequestJoined, Request
  <2>2. UNCHANGED <<exec, requests, control, claimed, stopped>> /\ GateHeld("stop", r)
    BY <1>4 DEF StopJoined
  <2>3. StopIsFinal(r)'
    BY <1>0, <2>1, <2>2 DEF RunInv, StopIsFinal, StopIsPending
  <2>4. StoppedIsReleased(r)' /\ OwnerIsClaimed(r)'
    BY <1>0, <2>2 DEF RunInv, StoppedIsReleased, OwnerIsClaimed, GateHeld
  <2> QED
    BY <1>3, <2>2, <2>3, <2>4
<1>5. CASE StopReleaseSaved(r)
  <2>1. /\ UNCHANGED <<exec, requests, control, stopped>>
        /\ claimed' = claimed \ {r}
        /\ exec[r].phase \notin Owned
    BY <1>0, <1>5 DEF StopReleaseSaved, RunInv, GateKeepsOrphan
  <2> QED
    BY <1>3, <2>1 DEF StopIsFinal, StoppedIsReleased, OwnerIsClaimed, Owned
<1>6. CASE StopReleaseFails(r)
  <2>1. /\ UNCHANGED <<exec, requests, control, claimed>>
        /\ ~stopped'[r]
        /\ \A o \in Runs \ {r} : stopped'[o] = stopped[o]
    BY <1>0, <1>6 DEF StopReleaseFails
  <2>2. OwnerIsClaimed(r)'
    BY <1>0, <2>1 DEF RunInv, OwnerIsClaimed
  <2> QED
    BY <1>3, <2>1, <2>2 DEF StopIsFinal, StoppedIsReleased
<1>7. CASE SweepExhausts(r)
  <2>1. /\ UNCHANGED <<exec, requests, control, stopped>>
        /\ claimed' = claimed \ {r}
        /\ exec[r].phase = "none"
    BY <1>0, <1>7 DEF SweepExhausts, RunInv, GateKeepsOrphan, Active
  <2> QED
    BY <1>3, <2>1 DEF StopIsFinal, StoppedIsReleased, OwnerIsClaimed, Owned, Acquired
<1>8. CASE SweepFails(r)
  <2>1. /\ UNCHANGED <<exec, requests, control, claimed, stopped>>
        /\ exec[r].phase = "none"
        /\ ~GateHeld("stopRelease", r)
    BY <1>0, <1>8 DEF SweepFails, RunInv, GateKeepsOrphan, Active, GateHeld
  <2>2. StopIsFinal(r)' /\ StoppedIsReleased(r)' /\ OwnerIsClaimed(r)'
    BY <1>0, <2>1 DEF RunInv, StopIsFinal, StoppedIsReleased, OwnerIsClaimed, Owned, Acquired
  <2> QED
    BY <1>3, <2>1, <2>2
<1> QED
  BY <1>2, <1>4, <1>5, <1>6, <1>7, <1>8 DEF GateStep

\* The sweep takes the gate for an orphan it decided on.
LEMMA OwnershipDecides ==
  ASSUME TypeOK, OwnershipInv, NEW r \in Runs, SweepDecides(r)
  PROVE  OwnershipInv'
<1> USE DEF coordinatorVars, historyVars, storeVars
<1>1. /\ UNCHANGED <<exec, requests, control, claimed, stopped>>
      /\ gate.op = "free" /\ gate'.run = r
      /\ gate'.op \in {"exhaust", "resume"}
      /\ ~Active(r) /\ r \in claimed
  BY DEF SweepDecides, Recoverable, GateFree
<1>2. \A o \in Runs \ {r} : Untouched(o)
  BY <1>1 DEF Untouched, GateHeld, Request
<1>3. RunInv(r)
  BY DEF OwnershipInv
<1>4. StopIsPending(r)' /\ RequestsAreForStops(r)' /\ StoppedIsSilent(r)' /\ OwnerIsClaimed(r)'
  BY <1>1, <1>3 DEF RunInv, StopIsPending, RequestsAreForStops, StoppedIsSilent,
     OwnerIsClaimed, Request, Active
<1>5. StopIsFinal(r)' /\ StoppedIsReleased(r)'
  BY <1>1, <1>3 DEF RunInv, StopIsFinal, StoppedIsReleased, GateHeld
<1>6. GateKeepsOrphan(r)'
  BY <1>1 DEF GateKeepsOrphan, GateHeld, Active
<1>7. RunInv(r)'
  BY <1>4, <1>5, <1>6 DEF RunInv
<1> QED
  BY <1>2, <1>7, UntouchedKeeps DEF OwnershipInv

LEMMA OwnershipSame ==
  ASSUME OwnershipInv, UNCHANGED <<exec, requests, claimed, gate, stopped>>,
         \A o \in Runs : control'[o].liveToken = control[o].liveToken
  PROVE  OwnershipInv'
<1>1. \A o \in Runs : Untouched(o)
  BY DEF Untouched, GateHeld, Request
<1> QED
  BY <1>1, UntouchedKeeps DEF OwnershipInv

\* A process that has just begun, whatever the store holds.
LEMMA OwnershipFresh ==
  ASSUME \A r \in Runs : /\ exec[r] = NoExec
                         /\ control[r].liveToken = 0
                         /\ ~stopped[r],
         requests = {}, gate = FreeGate
  PROVE  OwnershipInv
<1> SUFFICES ASSUME NEW r \in Runs PROVE RunInv(r)
  BY DEF OwnershipInv
<1>1. exec[r].phase = "none" /\ exec[r].interrupted = FALSE
  BY DEF NoExec
<1> QED
  BY <1>1 DEF RunInv, StopIsPending, RequestsAreForStops, StopIsFinal, StoppedIsSilent,
     GateKeepsOrphan, StoppedIsReleased, OwnerIsClaimed, GateHeld, FreeGate, Active, Owned, Acquired

LEMMA OwnershipStep == TypeOK /\ OwnershipInv /\ [Next]_vars => OwnershipInv'
<1> USE DEF coordinatorVars, inboxVars, storeVars, historyVars
<1>1. ASSUME TypeOK, OwnershipInv, UNCHANGED vars
      PROVE  OwnershipInv'
  BY <1>1, OwnershipSame DEF vars
<1> SUFFICES ASSUME TypeOK, OwnershipInv, Next
             PROVE  OwnershipInv'
  BY <1>1
<1>2. ASSUME NEW r \in Runs, NEW s \in Scopes, Ring(r, s), GateFree, UNCHANGED <<gate, claimed>>
      PROVE  OwnershipInv'
  <2>1. \A o \in Runs : control'[o].liveToken = control[o].liveToken
    BY <1>2 DEF Ring, TypeOK, ControlOK, RunControl
  <2> QED
    BY <1>2, <2>1, OwnershipRing DEF Ring, GateFree
<1>3. CASE System
  <2>1. ASSUME NEW r \in Runs, SweepStep(r)
        PROVE  OwnershipInv'
    BY <2>1, OwnershipDecides, OwnershipSame DEF SweepStep, SweepSkips
  <2>2. ASSUME NEW r \in Runs, NEW s \in Scopes, NEW token \in 1..drainSeq, Take(r, s, token)
        PROVE  OwnershipInv'
    BY <2>2, OwnershipSame DEF Take
  <2>3. ASSUME NEW c \in Callers, RetryRun(c)
        PROVE  OwnershipInv'
    <3>1. caller[c].run \in Runs
      BY <2>3 DEF TypeOK, CallersOK, RetryRun, Idle
    <3> QED
      BY <1>2, <2>3, <3>1, OwnershipSame DEF RetryRun, CaptureRun, Scopes
  <2> QED
    BY <1>3, <2>1, <2>2, <2>3, OwnershipOwner, OwnershipGate, OwnershipDeliver DEF System
<1>4. CASE Environment
  <2>1. ASSUME NEW r \in Runs, NEW s \in Scopes, Admit(r, s) \/ Enqueue(r, s) \/ Wake(r, s)
        PROVE  OwnershipInv'
    BY <1>2, <2>1, OwnershipSame DEF Admit, Enqueue, Wake
  <2>2. ASSUME NEW c \in Callers, NEW r \in Runs, Run(c, r)
        PROVE  OwnershipInv'
    BY <1>2, <2>2, OwnershipSame DEF Run, CaptureRun, Scopes
  <2>3. ASSUME NEW c \in Callers, CancelRun(c)
        PROVE  OwnershipInv'
    BY <2>3, OwnershipSame DEF CancelRun
  <2>4. ASSUME NEW r \in Runs, ClearPark(r)
        PROVE  OwnershipInv'
    <3>1. \A o \in Runs : control'[o].liveToken = control[o].liveToken
      BY <2>4 DEF ClearPark, TypeOK, ControlOK, RunControl
    <3> QED
      BY <2>4, <3>1, OwnershipSame DEF ClearPark
  <2>5. ASSUME NEW r \in Runs, NEW ids \in SUBSET Requests, NEW token \in 1..drainSeq,
               Pause(r, ids, token)
        PROVE  OwnershipInv'
    <3>1. \A o \in Runs : control'[o].liveToken = control[o].liveToken
      BY <2>5 DEF Pause, TypeOK, ControlOK, RunControl
    <3> QED
      BY <2>5, <3>1, OwnershipSame DEF Pause
  <2>6. ASSUME NEW r \in Runs, NEW a \in Answers, NEW q \in Requests, ResumeHitl(r, a, q)
        PROVE  OwnershipInv'
    <3>1. \A o \in Runs : control'[o].liveToken = control[o].liveToken
      BY <2>6, ResumeHitlKeeps
    <3>2. UNCHANGED <<requests, claimed, gate>> /\ GateFree
      BY <2>6 DEF ResumeHitl
    <3>3. \/ /\ exec' = [exec EXCEPT ![r] = Rung(@, "input")]
             /\ stopped' = [stopped EXCEPT ![r] = @ /\ Active(r)]
          \/ UNCHANGED <<exec, stopped>>
      BY <2>6 DEF ResumeHitl
    <3> QED
      BY <3>1, <3>2, <3>3, OwnershipRing, OwnershipSame DEF GateFree, Scopes
  <2>7. CASE SweepStarts \/ SweepCancelled
    BY <2>7, OwnershipSame DEF SweepStarts, SweepCancelled
  <2>8. CASE Crash
    <3>1. /\ \A r \in Runs : exec'[r] = NoExec /\ control'[r].liveToken = 0 /\ ~stopped'[r]
          /\ requests' = {} /\ gate' = FreeGate
      BY <2>8 DEF Crash, emptyControl
    <3>2. \A r \in Runs : RunInv(r)'
      <4> SUFFICES ASSUME NEW r \in Runs PROVE RunInv(r)'
        OBVIOUS
      <4>1. exec'[r].phase = "none" /\ exec'[r].interrupted = FALSE
        BY <3>1 DEF NoExec
      <4> QED
        BY <3>1, <4>1 DEF RunInv, StopIsPending, RequestsAreForStops, StopIsFinal,
           StoppedIsSilent, GateKeepsOrphan, StoppedIsReleased, OwnerIsClaimed, GateHeld,
           FreeGate, Active, Owned, Acquired
    <3> QED
      BY <3>2 DEF OwnershipInv
  <2> QED
    BY <1>4, <2>1, <2>2, <2>3, <2>4, <2>5, <2>6, <2>7, <2>8, OwnershipInterrupt, OwnershipStop
    DEF Environment
<1> QED
  BY <1>3, <1>4 DEF Next

LEMMA OwnershipInvariance == Spec => []OwnershipInv
<1>1. Init => OwnershipInv
  BY OwnershipFresh DEF Init, emptyControl
<1> QED
  BY <1>1, OwnershipStep, TypeCorrect, PTL DEF Spec

\* A drain's owner is durably claimed in every reachable state, so a crash at
\* any point of the drain leaves the run for resumeSuspended.
THEOREM DrainsAreClaimed == Spec => []ClaimCoversDrain
<1>1. OwnershipInv => ClaimCoversDrain
  BY DEF OwnershipInv, RunInv, OwnerIsClaimed, ClaimCoversDrain
<1> QED
  BY <1>1, OwnershipInvariance, PTL

\* A request to interrupt one owner never interrupts its successor.
THEOREM InterruptsAreOwned == Spec => []InterruptHitsItsOwner
<1>1. OwnershipInv => InterruptHitsItsOwner
  BY DEF OwnershipInv, RunInv, RequestsAreForStops, InterruptHitsItsOwner
<1> QED
  BY <1>1, OwnershipInvariance, PTL

\* After Driver.stop no drain of the run is live until it is started again.
THEOREM StopIsTerminal == Spec => []StoppedHasNoAuthority
<1>1. OwnershipInv => StoppedHasNoAuthority
  BY DEF OwnershipInv, RunInv, StoppedIsSilent, StoppedHasNoAuthority
<1> QED
  BY <1>1, OwnershipInvariance, PTL

\* A stopped run that has settled is not claimed: no sweep resumes it.
THEOREM StopGivesUpClaim == Spec => []StopReleasesClaim
<1>1. OwnershipInv => StopReleasesClaim
  BY DEF OwnershipInv, RunInv, StoppedIsReleased, StopReleasesClaim, GateHeld, Active
<1> QED
  BY <1>1, OwnershipInvariance, PTL

\* Items are taken and parks made only inside the drain whose token is presented,
\* and never for a run that was stopped.
THEOREM StaleTokensAreRefused == Spec => StaleTokensDoNothing
<1> DEFINE Refused == \A r \in Runs, token \in 1..drainSeq :
       (\E s \in Scopes : Take(r, s, token)) \/ (\E ids \in SUBSET Requests : Pause(r, ids, token))
       => /\ exec[r].phase \in {"draining", "ending"}
          /\ host[r].token = token
          /\ ~stopped[r]
<1>1. LiveTokenIsOwners /\ OwnershipInv => Refused
  <2> SUFFICES ASSUME LiveTokenIsOwners, OwnershipInv,
                      NEW r \in Runs, NEW token \in 1..drainSeq, MayUse(r, token)
               PROVE  /\ exec[r].phase \in {"draining", "ending"}
                      /\ host[r].token = token
                      /\ ~stopped[r]
    BY DEF Take, Pause
  <2>1. control[r].liveToken = token /\ token # 0
    BY DEF MayUse
  <2> QED
    BY <2>1 DEF LiveTokenIsOwners, OwnershipInv, RunInv, StoppedIsSilent
<1>2. LiveTokenIsOwners /\ OwnershipInv => [Refused]_vars
  BY <1>1
<1> QED
  BY <1>2, OneLiveDrain, OwnershipInvariance, PTL DEF StaleTokensDoNothing

-----------------------------------------------------------------------------
(* What the sweep charges. *)

\* The sweep's decision holds until its charge is saved: it is within the budget,
\* and for a claimed run that waits for nobody.
ChargeIsDecided(r) ==
  /\ resumes[r] <= MaxResumeAttempts
  /\ GateHeld("resume", r) => resumes[r] < MaxResumeAttempts /\ r \in claimed /\ ~Blocked(r)

ChargeInv == \A r \in Runs : ChargeIsDecided(r)

\* While the sweep saves a charge nothing it was decided on changes.
LEMMA DecisionStands ==
  ASSUME TypeOK, OwnershipInv, [Next]_vars, NEW r \in Runs,
         GateHeld("resume", r), GateHeld("resume", r)'
  PROVE  control' = control /\ resumes'[r] = resumes[r] /\ (r \in claimed => r \in claimed')
<1> USE DEF inboxVars, storeVars, coordinatorVars, historyVars, driverVars
<1>0. /\ ~GateFree /\ gate'.op = "resume" /\ resumes \in [Runs -> Nat]
      /\ gate.op = "resume" /\ exec[r].phase = "none"
  BY DEF GateHeld, GateFree, TypeOK, OwnershipInv, RunInv, GateKeepsOrphan, Active
<1>1. ASSUME NEW o \in Runs, OwnerStep(o)
      PROVE  control' = control /\ resumes'[r] = resumes[r] /\ (r \in claimed => r \in claimed')
  <2>1. CASE ReleaseSaved(o)
    BY <1>0, <2>1 DEF ReleaseSaved
  <2>2. CASE ~ReleaseSaved(o)
    BY <1>1, <2>2 DEF OwnerStep, ClaimStarts, ClaimSaved, ClaimFails, Unwind, LoopStops,
       LoopDrains, LoopAgain, LoopEnds, ReleaseFails, Settle, Leave
  <2> QED
    BY <2>1, <2>2
<1>2. ASSUME NEW o \in Runs, OwnerGateStep(o) \/ SweepStep(o)
      PROVE  FALSE
  BY <1>0, <1>2 DEF OwnerGateStep, SkipDrain, BeginDrain, EndDrain, SweepStep, SweepSkips,
     SweepDecides
<1>3. ASSUME NEW o \in Runs, GateStep(o)
      PROVE  FALSE
  BY <1>0, <1>3 DEF GateStep, StopJoined, StopReleaseSaved, StopReleaseFails, SweepExhausts,
     SweepResumes, SweepFails, GateHeld, FreeGate
<1>4. ASSUME NEW o \in Runs, HostReturns(o)
      PROVE  UNCHANGED <<control, claimed, resumes>>
  BY <1>4 DEF HostReturns, DrainExit
<1>5. CASE System
  BY <1>0, <1>1, <1>2, <1>3, <1>4, <1>5 DEF System, DeliverRequest, RetryRun, Take
<1>6. CASE Environment
  <2>1. \/ \E o \in Runs, s \in Scopes : Enqueue(o, s)
        \/ \E c \in Callers : CancelRun(c)
        \/ \E o \in Runs, reason \in {"user", "shutdown"} : Interrupt(o, reason)
        \/ SweepStarts \/ SweepCancelled \/ Crash
    BY <1>0, <1>6 DEF Environment, Admit, Wake, Run, Stop, ClearPark, Pause, ResumeHitl
  <2>2. CASE Crash
    BY <1>0, <2>2 DEF Crash, GateHeld, FreeGate
  <2> QED
    BY <2>1, <2>2 DEF Enqueue, CancelRun, Interrupt, SweepStarts, SweepCancelled
<1>7. CASE UNCHANGED vars
  BY <1>7 DEF vars
<1> QED
  BY <1>5, <1>6, <1>7 DEF Next

\* Who takes the gate to charge a run, and who changes a count.
LEMMA ChargeWriters ==
  ASSUME TypeOK, [Next]_vars, NEW r \in Runs
  PROVE  /\ GateHeld("resume", r)' => GateHeld("resume", r) \/ SweepDecides(r)
         /\ \/ resumes'[r] \in {resumes[r], 0}
            \/ SweepResumes(r)
<1> USE DEF inboxVars, storeVars, coordinatorVars, historyVars, driverVars
<1>0. resumes \in [Runs -> Nat] /\ FreeGate.op = "free"
  BY DEF TypeOK, FreeGate
<1>1. ASSUME NEW o \in Runs, OwnerStep(o)
      PROVE  gate' = gate /\ resumes'[r] \in {resumes[r], 0}
  BY <1>0, <1>1 DEF OwnerStep, ClaimStarts, ClaimSaved, ClaimFails, Unwind, LoopStops,
     LoopDrains, LoopAgain, LoopEnds, ReleaseSaved, ReleaseFails, Settle, Leave
<1>2. ASSUME NEW o \in Runs, OwnerGateStep(o) \/ HostReturns(o) \/ SweepSkips(o)
      PROVE  UNCHANGED <<gate, resumes>>
  BY <1>2 DEF OwnerGateStep, SkipDrain, BeginDrain, EndDrain, HostReturns, DrainExit, SweepSkips
<1>3. ASSUME NEW o \in Runs, SweepDecides(o)
      PROVE  UNCHANGED resumes /\ (GateHeld("resume", r)' => o = r)
  BY <1>3 DEF SweepDecides, GateHeld
<1>4. ASSUME NEW o \in Runs, GateStep(o)
      PROVE  gate'.op = "free" /\ (resumes'[r] \in {resumes[r], 0} \/ SweepResumes(r))
  BY <1>0, <1>4 DEF GateStep, StopJoined, StopReleaseSaved, StopReleaseFails, SweepExhausts,
     SweepResumes, SweepFails
<1>5. CASE System
  BY <1>1, <1>2, <1>3, <1>4, <1>5 DEF System, SweepStep, DeliverRequest, RetryRun, Take, GateHeld
<1>6. ASSUME NEW o \in Runs, Stop(o)
      PROVE  UNCHANGED resumes /\ gate'.op # "resume"
  BY <1>0, <1>6 DEF Stop
<1>7. CASE Environment
  BY <1>0, <1>6, <1>7 DEF Environment, Admit, Enqueue, Wake, Run, CancelRun, Interrupt, ClearPark,
     Pause, ResumeHitl, SweepStarts, SweepCancelled, Crash, GateHeld
<1>8. CASE UNCHANGED vars
  BY <1>8 DEF vars, GateHeld
<1> QED
  BY <1>5, <1>7, <1>8 DEF Next

LEMMA ChargeStep == TypeOK /\ OwnershipInv /\ ChargeInv /\ [Next]_vars => ChargeInv'
<1> SUFFICES ASSUME TypeOK, OwnershipInv, ChargeInv, [Next]_vars, NEW r \in Runs
             PROVE  ChargeIsDecided(r)'
  BY DEF ChargeInv
<1>0. resumes[r] \in Nat /\ MaxResumeAttempts \in Nat /\ ChargeIsDecided(r)
      /\ resumes \in [Runs -> Nat]
  BY MaxResumeAttemptsAssumption DEF ChargeInv, TypeOK
<1>1. resumes'[r] <= MaxResumeAttempts
  <2>1. CASE SweepResumes(r)
    BY <1>0, <2>1 DEF SweepResumes, ChargeIsDecided
  <2> QED
    BY <1>0, <2>1, ChargeWriters DEF ChargeIsDecided
<1>2. ASSUME GateHeld("resume", r)'
      PROVE  resumes'[r] < MaxResumeAttempts /\ r \in claimed' /\ ~Blocked(r)'
  <2>1. CASE SweepDecides(r)
    BY <1>0, <1>2, <2>1 DEF SweepDecides, GateHeld, Recoverable, Exhausted, storeVars, Blocked
  <2>2. CASE GateHeld("resume", r)
    BY <1>0, <1>2, <2>2, DecisionStands DEF ChargeIsDecided, Blocked
  <2> QED
    BY <1>2, <2>1, <2>2, ChargeWriters
<1> QED
  BY <1>1, <1>2 DEF ChargeIsDecided

LEMMA ChargeInvariance == Spec => []ChargeInv
<1>1. Init => ChargeInv
  <2>1. Init => gate.op = "free" /\ \A r \in Runs : resumes[r] = 0
    BY DEF Init, FreeGate
  <2>2. 0 <= MaxResumeAttempts
    BY MaxResumeAttemptsAssumption
  <2> QED
    BY <2>1, <2>2 DEF ChargeInv, ChargeIsDecided, GateHeld
<1> QED
  BY <1>1, ChargeStep, OwnershipInvariance, TypeCorrect, PTL DEF Spec

\* The sweep never charges a run beyond the budget: what it decided on under the
\* gate still holds when the increment is saved (resumeSuspended).
THEOREM BudgetIsKept == Spec => []WithinResumeBudget
<1>1. ChargeInv => WithinResumeBudget
  BY DEF ChargeInv, ChargeIsDecided, WithinResumeBudget
<1> QED
  BY <1>1, ChargeInvariance, PTL

\* A run is charged, and resumed, only while it is claimed, without an owner and
\* not waiting for an answer (resumeSuspended).
THEOREM OrphansAreResumed == Spec => ResumesOnlyOrphans
<1>1. ASSUME TypeOK, OwnershipInv, ChargeInv, [Next]_vars, NEW r \in Runs, resumes'[r] > resumes[r]
      PROVE  r \in claimed /\ ~Active(r) /\ ~Blocked(r)
  <2>1. resumes[r] \in Nat
    BY <1>1 DEF TypeOK
  <2>2. SweepResumes(r)
    BY <1>1, <2>1, ChargeWriters
  <2> QED
    BY <1>1, <2>2 DEF SweepResumes, ChargeInv, ChargeIsDecided, OwnershipInv, RunInv, GateKeepsOrphan
<1>2. TypeOK /\ OwnershipInv /\ ChargeInv /\ [Next]_vars
      => [\A r \in Runs : resumes'[r] > resumes[r] => r \in claimed /\ ~Active(r) /\ ~Blocked(r)]_vars
  BY <1>1
<1> QED
  BY <1>2, TypeCorrect, OwnershipInvariance, ChargeInvariance, PTL DEF Spec, ResumesOnlyOrphans

-----------------------------------------------------------------------------
(* What the end of a drain drops, and what a drain is given. *)

\* A run changes its phase by a step of its owner, by its start and in a crash.
LEMMA PhaseWriters ==
  ASSUME TypeOK, Next, NEW r \in Runs, exec'[r].phase # exec[r].phase
  PROVE  \/ OwnerStep(r) \/ OwnerGateStep(r) \/ HostReturns(r)
         \/ exec[r].phase = "none" /\ exec'[r].phase = "forked"
         \/ Crash
<1> USE DEF inboxVars, storeVars, coordinatorVars, historyVars, driverVars
<1>0. exec \in [Runs -> Execution] /\ exec[r] \in Execution
  BY DEF TypeOK, CoordinatorOK
<1> SUFFICES ASSUME ~(exec[r].phase = "none" /\ exec'[r].phase = "forked"),
                    ~(OwnerStep(r) \/ OwnerGateStep(r) \/ HostReturns(r)), ~Crash
             PROVE  FALSE
  OBVIOUS
<1>1. ASSUME NEW o \in Runs, OwnerStep(o) \/ OwnerGateStep(o) \/ HostReturns(o)
      PROVE  FALSE
  <2>1. o # r
    BY <1>1
  <2> QED
    BY <1>0, <1>1, <2>1 DEF OwnerStep, OwnerGateStep, HostReturns, ClaimStarts, ClaimSaved,
       ClaimFails, Unwind, LoopStops, LoopDrains, LoopAgain, LoopEnds, ReleaseSaved, ReleaseFails,
       Settle, Leave, SkipDrain, BeginDrain, EndDrain, DrainExit
<1>2. ASSUME exec'[r].phase = exec[r].phase
      PROVE  FALSE
  BY <1>2
<1>3. ASSUME NEW o \in Runs, NEW s \in Scopes, exec' = [exec EXCEPT ![o] = Rung(@, s)]
      PROVE  FALSE
  BY <1>0, <1>2, <1>3 DEF Rung, Started, NoExec, Execution, TypeOK, CoordinatorOK
<1>4. CASE System
  <2>1. ASSUME NEW o \in Runs, GateStep(o)
        PROVE  FALSE
    BY <1>2, <1>3, <2>1 DEF GateStep, StopJoined, StopReleaseSaved, StopReleaseFails,
       SweepExhausts, SweepResumes, SweepFails, Ring, Scopes
  <2>2. ASSUME NEW o \in Runs, SweepStep(o)
        PROVE  FALSE
    BY <1>2, <2>2 DEF SweepStep, SweepSkips, SweepDecides
  <2>3. ASSUME NEW q \in requests, DeliverRequest(q)
        PROVE  FALSE
    BY <1>0, <1>2, <2>3 DEF DeliverRequest, Execution
  <2>4. ASSUME NEW c \in Callers, RetryRun(c)
        PROVE  FALSE
    <3>1. caller[c].run \in Runs
      BY <2>4 DEF TypeOK, CallersOK, RetryRun, Idle
    <3> QED
      BY <1>2, <1>3, <2>4, <3>1 DEF RetryRun, CaptureRun, Ring, Scopes
  <2> QED
    BY <1>1, <1>2, <1>4, <2>1, <2>2, <2>3, <2>4 DEF System, Take
<1>5. CASE Environment
  <2>1. ASSUME NEW o \in Runs, NEW s \in Scopes, Admit(o, s) \/ Enqueue(o, s) \/ Wake(o, s)
        PROVE  FALSE
    BY <1>2, <1>3, <2>1 DEF Admit, Enqueue, Wake, Ring
  <2>2. ASSUME NEW c \in Callers, NEW o \in Runs, Run(c, o)
        PROVE  FALSE
    BY <1>2, <1>3, <2>2 DEF Run, CaptureRun, Ring, Scopes
  <2>3. ASSUME NEW o \in Runs, NEW reason \in {"user", "shutdown"}, Interrupt(o, reason)
        PROVE  FALSE
    BY <1>2, <2>3, InterruptKeepsPhase DEF TypeOK
  <2>4. ASSUME NEW o \in Runs, Stop(o)
        PROVE  FALSE
    BY <1>0, <1>2, <2>4 DEF Stop, TerminallyStopped, Execution
  <2>5. ASSUME NEW o \in Runs, NEW a \in Answers, NEW q \in Requests, ResumeHitl(o, a, q)
        PROVE  FALSE
    BY <1>2, <1>3, <2>5 DEF ResumeHitl, Scopes
  <2> QED
    BY <1>2, <1>5, <2>1, <2>2, <2>3, <2>4, <2>5
    DEF Environment, CancelRun, ClearPark, Pause, SweepStarts, SweepCancelled
<1> QED
  BY <1>4, <1>5 DEF Next

\* Which step an owner takes into its host's drain, and out of it.
LEMMA OwnerMoved ==
  ASSUME TypeOK, [Next]_vars, NEW r \in Runs
  PROVE  /\ exec[r].phase = "begin" /\ exec'[r].phase = "draining" => BeginDrain(r)
         /\ exec[r].phase = "ending" /\ exec'[r].phase = "drained" => EndDrain(r)
<1>0. exec \in [Runs -> Execution]
  BY DEF TypeOK, CoordinatorOK
<1> SUFFICES ASSUME \/ exec[r].phase = "begin" /\ exec'[r].phase = "draining"
                    \/ exec[r].phase = "ending" /\ exec'[r].phase = "drained"
             PROVE  BeginDrain(r) \/ EndDrain(r)
  BY DEF BeginDrain, EndDrain
<1>1. Next
  BY DEF vars, coordinatorVars
<1>2. OwnerStep(r) \/ OwnerGateStep(r) \/ HostReturns(r) \/ Crash
  BY <1>1, PhaseWriters
<1>3. ~OwnerStep(r)
  BY <1>0 DEF OwnerStep, ClaimStarts, ClaimSaved, ClaimFails, Unwind, LoopStops, LoopDrains,
     LoopAgain, LoopEnds, ReleaseSaved, ReleaseFails, Settle, Leave, Execution
<1>4. ~HostReturns(r)
  BY <1>0 DEF HostReturns, DrainExit, Execution
<1>4a. exec[r].phase = "begin" => ~EndDrain(r) /\ ~SkipDrain(r)
  BY <1>0 DEF EndDrain, SkipDrain, Execution
<1>4b. exec[r].phase # "begin" => ~SkipDrain(r)
  BY DEF SkipDrain
<1>5. ~Crash
  BY DEF Crash, NoExec
<1> QED
  BY <1>2, <1>3, <1>4, <1>4a, <1>4b, <1>5 DEF OwnerGateStep

\* The lease of the live drain is for the park that its host was given.
GivenIsLeased(r) ==
  /\ control[r].liveToken = 0 => control[r].leasedGeneration = 0
  /\ control[r].liveToken # 0 => control[r].leasedGeneration = host[r].given

GivenInv == \A r \in Runs : GivenIsLeased(r)

LEMMA GivenSame ==
  ASSUME NEW r \in Runs, GivenIsLeased(r), host'[r].given = host[r].given,
         control'[r].liveToken = control[r].liveToken,
         control'[r].leasedGeneration = control[r].leasedGeneration
  PROVE  GivenIsLeased(r)'
BY DEF GivenIsLeased

\* Only the begin and the end of a drain, a stop and a crash change a lease.
LEMMA LeaseWriters ==
  ASSUME TypeOK, Next,
         ~ \E r \in Runs : BeginDrain(r) \/ EndDrain(r) \/ Stop(r), ~Crash
  PROVE  \A o \in Runs : /\ control'[o].liveToken = control[o].liveToken
                         /\ control'[o].leasedGeneration = control[o].leasedGeneration
<1> USE DEF inboxVars, storeVars, coordinatorVars, historyVars, driverVars
<1>0. control \in [Runs -> RunControl]
  BY DEF TypeOK, ControlOK
<1> DEFINE Goal == \A o \in Runs : /\ control'[o].liveToken = control[o].liveToken
                                  /\ control'[o].leasedGeneration = control[o].leasedGeneration
<1>1. ASSUME UNCHANGED control PROVE Goal
  BY <1>1
<1>2. ASSUME NEW r \in Runs, NEW s \in Scopes, Ring(r, s) PROVE Goal
  BY <1>0, <1>2 DEF Ring, RunControl
<1>3. ASSUME NEW r \in Runs, NEW a, NEW q, ResumeHitl(r, a, q) PROVE Goal
  <2> DEFINE park == Answered(control[r].park, a, q)
  <2>1. \/ control' = [control EXCEPT ![r].park = [park EXCEPT !.readyWoken = TRUE],
                                      ![r].pending = widerScope(@, "input")]
        \/ control' = [control EXCEPT ![r].park = park]
    BY <1>3 DEF ResumeHitl
  <2> HIDE DEF park
  <2> QED
    BY <1>0, <2>1 DEF RunControl
<1>4. ASSUME NEW r \in Runs, NEW p, control' = [control EXCEPT ![r].park = p] PROVE Goal
  BY <1>0, <1>4 DEF RunControl
<1> HIDE DEF Goal
<1>5. ASSUME NEW r \in Runs, OwnerStep(r) \/ SkipDrain(r) \/ HostReturns(r) \/ SweepStep(r)
      PROVE  Goal
  BY <1>1, <1>5 DEF OwnerStep, ClaimStarts, ClaimSaved, ClaimFails, Unwind, LoopStops, LoopDrains,
     LoopAgain, LoopEnds, ReleaseSaved, ReleaseFails, Settle, Leave, SkipDrain, HostReturns,
     DrainExit, SweepStep, SweepSkips, SweepDecides
<1>6. ASSUME NEW r \in Runs, GateStep(r) PROVE Goal
  BY <1>1, <1>2, <1>6 DEF GateStep, StopJoined, StopReleaseSaved, StopReleaseFails,
     SweepExhausts, SweepResumes, SweepFails, Scopes
<1>7. ASSUME NEW c \in Callers, RetryRun(c) PROVE Goal
  <2>1. caller[c].run \in Runs
    BY <1>7 DEF TypeOK, CallersOK, RetryRun, Idle
  <2> QED
    BY <1>1, <1>2, <1>7, <2>1 DEF RetryRun, CaptureRun, Scopes
<1>8. ASSUME System PROVE Goal
  BY <1>1, <1>5, <1>6, <1>7, <1>8 DEF System, OwnerGateStep, DeliverRequest, Take
<1>9. ASSUME NEW r \in Runs, ClearPark(r) \/ \E ids, token : Pause(r, ids, token) PROVE Goal
  BY <1>4, <1>9 DEF ClearPark, Pause
<1>10. ASSUME NEW r \in Runs, NEW s \in Scopes, Admit(r, s) \/ Enqueue(r, s) \/ Wake(r, s)
       PROVE  Goal
  BY <1>1, <1>2, <1>10 DEF Admit, Enqueue, Wake
<1>11. ASSUME NEW c \in Callers, NEW r \in Runs, Run(c, r) PROVE Goal
  BY <1>1, <1>2, <1>11 DEF Run, CaptureRun, Scopes
<1>12. ASSUME Environment PROVE Goal
  BY <1>1, <1>3, <1>9, <1>10, <1>11, <1>12 DEF Environment, CancelRun, Interrupt, SweepStarts,
     SweepCancelled
<1>13. Goal
  BY <1>8, <1>12 DEF Next
<1> QED
  BY <1>13 DEF Goal

LEMMA GivenStep == TypeOK /\ LiveTokenIsOwners /\ GivenInv /\ [Next]_vars => GivenInv'
<1> SUFFICES ASSUME TypeOK, LiveTokenIsOwners, GivenInv, [Next]_vars, NEW o \in Runs
             PROVE  GivenIsLeased(o)'
  BY DEF GivenInv
<1> USE DEF inboxVars, storeVars, coordinatorVars, historyVars, driverVars
<1>0. /\ control \in [Runs -> RunControl] /\ GivenIsLeased(o)
      /\ host \in [Runs -> [token : 0..drainSeq, given : 0..generationSeq, exit : Exits]]
  BY DEF TypeOK, ControlOK, HostOK, GivenInv
<1>1. CASE UNCHANGED vars
  BY <1>0, <1>1, GivenSame DEF vars
<1>2. ASSUME NEW r \in Runs, BeginDrain(r) PROVE GivenIsLeased(o)'
  <2>1. drainSeq \in Nat
    BY DEF TypeOK, ControlOK
  <2>2. CASE o = r
    BY <1>0, <1>2, <2>1, <2>2 DEF BeginDrain, RunControl, GivenIsLeased
  <2>3. CASE o # r
    BY <1>0, <1>2, <2>3, GivenSame DEF BeginDrain
  <2> QED
    BY <2>2, <2>3
<1>3. ASSUME NEW r \in Runs, EndDrain(r) PROVE GivenIsLeased(o)'
  <2>1. CASE o = r /\ control[r].liveToken = host[r].token
    BY <1>0, <1>3, <2>1 DEF EndDrain, Ended, RunControl, GivenIsLeased
  <2>2. CASE o # r \/ control[r].liveToken # host[r].token
    BY <1>0, <1>3, <2>2, GivenSame DEF EndDrain
  <2> QED
    BY <2>1, <2>2
<1>4. ASSUME NEW r \in Runs, Stop(r) PROVE GivenIsLeased(o)'
  <2>1. CASE o = r
    BY <1>0, <1>4, <2>1 DEF Stop, emptyControl, GivenIsLeased
  <2>2. CASE o # r
    BY <1>0, <1>4, <2>2, GivenSame DEF Stop
  <2> QED
    BY <2>1, <2>2
<1>5. CASE Crash
  BY <1>5 DEF Crash, emptyControl, GivenIsLeased
<1>6. ASSUME Next, ~ \E r \in Runs : BeginDrain(r) \/ EndDrain(r) \/ Stop(r), ~Crash
      PROVE  GivenIsLeased(o)'
  <2>1. /\ control'[o].liveToken = control[o].liveToken
        /\ control'[o].leasedGeneration = control[o].leasedGeneration
    BY <1>6, LeaseWriters
  <2>2. host'[o].given = host[o].given \/ Settle(o)
    <3>1. ASSUME NEW r \in Runs, OwnerStep(r) \/ SkipDrain(r) \/ HostReturns(r)
          PROVE  host'[o].given = host[o].given \/ Settle(o)
      BY <1>0, <3>1 DEF OwnerStep, ClaimStarts, ClaimSaved, ClaimFails, Unwind, LoopStops,
         LoopDrains, LoopAgain, LoopEnds, ReleaseSaved, ReleaseFails, Settle, Leave, SkipDrain,
         HostReturns, DrainExit
    <3>2. ASSUME NEW r \in Runs, GateStep(r) \/ SweepStep(r)
          PROVE  host' = host
      BY <3>2 DEF GateStep, StopJoined, StopReleaseSaved, StopReleaseFails, SweepExhausts,
         SweepResumes, SweepFails, SweepStep, SweepSkips, SweepDecides
    <3>3. CASE System
      BY <1>6, <3>1, <3>2, <3>3 DEF System, OwnerGateStep, DeliverRequest, RetryRun, Take
    <3>4. CASE Environment
      BY <1>6, <3>4 DEF Environment, Admit, Enqueue, Wake, Run, CancelRun, Interrupt, ClearPark,
         Pause, ResumeHitl, SweepStarts, SweepCancelled
    <3> QED
      BY <1>6, <3>3, <3>4 DEF Next
  <2>3. CASE Settle(o)
    BY <1>0, <2>1, <2>3 DEF Settle, LiveTokenIsOwners, GivenIsLeased
  <2> QED
    BY <1>0, <2>1, <2>2, <2>3, GivenSame
<1> QED
  BY <1>1, <1>2, <1>3, <1>4, <1>5, <1>6

LEMMA GivenInvariance == Spec => []GivenInv
<1>1. Init => GivenInv
  <2>1. Init => \A r \in Runs : control[r] = emptyControl
    BY DEF Init
  <2>2. emptyControl.liveToken = 0 /\ emptyControl.leasedGeneration = 0
    BY DEF emptyControl
  <2> QED
    BY <2>1, <2>2 DEF GivenInv, GivenIsLeased
<1> QED
  BY <1>1, GivenStep, OneLiveDrain, TypeCorrect, PTL DEF Spec

\* The end of a drain drops a park only if the drain was given its answers and
\* succeeded (endDrain): answers are delivered at least once.
THEOREM AnswersAreKept == Spec => AnswersKeptUntilDrained
<1>1. ASSUME TypeOK, GivenInv, [Next]_vars, NEW r \in Runs,
             exec[r].phase = "ending", exec'[r].phase = "drained",
             control[r].park # NoPark, control'[r].park = NoPark
      PROVE  host[r].exit = "success" /\ host[r].given = control[r].park.generation
  <2>1. EndDrain(r) /\ control \in [Runs -> RunControl] /\ GivenIsLeased(r)
    BY <1>1, OwnerMoved DEF TypeOK, ControlOK, GivenInv
  <2>2. Acknowledges(r)
    BY <1>1, <2>1 DEF EndDrain, Ended, RunControl
  <2> QED
    BY <2>1, <2>2 DEF Acknowledges, GivenIsLeased
<1>2. TypeOK /\ GivenInv /\ [Next]_vars =>
        [\A r \in Runs :
           exec[r].phase = "ending" /\ exec'[r].phase = "drained"
             /\ control[r].park # NoPark /\ control'[r].park = NoPark
           => /\ host[r].exit = "success"
              /\ host[r].given = control[r].park.generation]_vars
  BY <1>1
<1> QED
  BY <1>2, TypeCorrect, GivenInvariance, PTL DEF Spec, AnswersKeptUntilDrained

\* The park is the one that the live drain was given.
ParkIsGiven(r) == control[r].liveToken # 0 /\ host[r].given = control[r].park.generation

\* A park that is there is newer than the one served last, or the drain that has
\* just served it is about to acknowledge it; and while a host drain has a park's
\* answers, that park or a newer one is there, or none.
ServedIsPast(r) ==
  /\ served[r] <= generationSeq
  /\ \/ control[r].park.generation = 0
     \/ served[r] < control[r].park.generation
     \/ exec[r].phase = "ending" /\ host[r].exit = "success" /\ ParkIsGiven(r)
  /\ exec[r].phase = "draining" /\ host[r].given # 0 =>
       \/ control[r].park.generation = 0
       \/ host[r].given < control[r].park.generation
       \/ ParkIsGiven(r)

ServedInv == \A r \in Runs : ServedIsPast(r)

\* Any other step leaves a run's park, its drain and what it has served alone.
LEMMA ServedFrame ==
  ASSUME TypeOK, Next, ~Crash, NEW o \in Runs,
         ~(BeginDrain(o) \/ EndDrain(o) \/ HostReturns(o) \/ Stop(o) \/ ClearPark(o)),
         \A ids \in SUBSET Requests, token \in 1..drainSeq : ~Pause(o, ids, token)
  PROVE  /\ served'[o] = served[o] /\ generationSeq' >= generationSeq
         /\ control'[o].park.generation = control[o].park.generation
         /\ control'[o].liveToken = control[o].liveToken
         /\ exec[o].phase \in {"draining", "ending"} =>
              exec'[o].phase = exec[o].phase /\ host'[o] = host[o]
         /\ exec'[o].phase = "draining" => exec[o].phase = "draining"
<1>0. /\ control \in [Runs -> RunControl] /\ exec \in [Runs -> Execution]
      /\ served \in [Runs -> Nat] /\ generationSeq \in Nat
      /\ host \in [Runs -> [token : 0..drainSeq, given : 0..generationSeq, exit : Exits]]
  BY DEF TypeOK, ControlOK, CoordinatorOK, HostOK
<1>1. served'[o] = served[o]
  BY <1>0, ServedWriters DEF HostReturns, DrainExit
<1> DEFINE Kept == /\ generationSeq' >= generationSeq
                   /\ control'[o].park.generation = control[o].park.generation
                   /\ control'[o].liveToken = control[o].liveToken
<1>2. Kept
  <2>1. CASE ControlSame
    BY <1>0, <2>1 DEF ControlSame
  <2>2. ASSUME NEW r \in Runs, NEW s \in Scopes, Ring(r, s), UNCHANGED <<drainSeq, generationSeq>>
        PROVE  Kept
    BY <1>0, <2>2 DEF Ring, RunControl
  <2>3. ASSUME NEW r \in Runs, r # o, BeginDrain(r) \/ EndDrain(r) \/ Stop(r) \/ ClearPark(r)
        PROVE  Kept
    BY <1>0, <2>3 DEF BeginDrain, EndDrain, Stop, ClearPark
  <2>4. ASSUME NEW r \in Runs, NEW ids \in SUBSET Requests, NEW token \in 1..drainSeq, r # o,
               Pause(r, ids, token)
        PROVE  Kept
    BY <1>0, <2>4 DEF Pause
  <2>5. ASSUME NEW r \in Runs, NEW a \in Answers, NEW q \in Requests, ResumeHitl(r, a, q)
        PROVE  Kept
    <3> DEFINE park == Answered(control[r].park, a, q)
    <3>1. park.generation = control[r].park.generation
      BY <1>0 DEF Answered, RunControl, Park
    <3>2. [park EXCEPT !.readyWoken = TRUE].generation = control[r].park.generation
      BY <1>0 DEF Answered, RunControl, Park
    <3>3. /\ \/ control' = [control EXCEPT ![r].park = [park EXCEPT !.readyWoken = TRUE],
                                           ![r].pending = widerScope(@, "input")]
             \/ control' = [control EXCEPT ![r].park = park]
          /\ UNCHANGED generationSeq
      BY <2>5 DEF ResumeHitl
    <3> DEFINE woken == [park EXCEPT !.readyWoken = TRUE]
    <3>4. woken.generation = control[r].park.generation
      BY <3>2
    <3>5. \/ control' = [control EXCEPT ![r].park = woken, ![r].pending = widerScope(@, "input")]
          \/ control' = [control EXCEPT ![r].park = park]
      BY <3>3
    <3> HIDE DEF park, woken
    <3>6. CASE control' = [control EXCEPT ![r].park = park]
      BY <1>0, <3>1, <3>3, <3>6
    <3>7. CASE control' = [control EXCEPT ![r].park = woken, ![r].pending = widerScope(@, "input")]
      BY <1>0, <3>3, <3>4, <3>7
    <3> QED
      BY <3>5, <3>6, <3>7
  <2> HIDE DEF Kept
  <2> QED
    BY <2>1, <2>2, <2>3, <2>4, <2>5, ControlWriters
<1>3. exec[o].phase \in {"draining", "ending"} => exec'[o].phase = exec[o].phase
  <2>1. exec[o].phase \in {"draining", "ending"} => ~OwnerStep(o) /\ ~SkipDrain(o)
    BY <1>0 DEF OwnerStep, ClaimStarts, ClaimSaved, ClaimFails, Unwind, LoopStops, LoopDrains,
       LoopAgain, LoopEnds, ReleaseSaved, ReleaseFails, Settle, SkipDrain
  <2> QED
    BY <2>1, PhaseWriters DEF OwnerGateStep
<1>4. exec'[o].phase = "draining" => exec[o].phase = "draining"
  <2>0. exec[o] \in Execution
    BY <1>0
  <2>1. SkipDrain(o) \/ Settle(o) => exec'[o].phase # "draining"
    <3>1. Successor(exec[o]).phase \in {"none", "forked"}
      BY DEF Successor, NoExec, Started
    <3>2. Settle(o) => exec'[o] = Successor(exec[o])
      BY <1>0 DEF Settle
    <3>3. SkipDrain(o) => exec'[o].phase = "drained"
      BY <1>0, <2>0 DEF SkipDrain, Execution
    <3> QED
      BY <3>1, <3>2, <3>3
  <2>2. ASSUME NEW exit, Leave(o, exit) PROVE exec'[o].phase # "draining"
    BY <1>0, <2>0, <2>2 DEF Leave, Execution
  <2>3. ClaimFails(o) \/ Unwind(o) \/ LoopStops(o) \/ LoopEnds(o) => exec'[o].phase # "draining"
    BY <2>2 DEF ClaimFails, Unwind, LoopStops, LoopEnds
  <2>4. ClaimStarts(o) \/ ClaimSaved(o) \/ LoopDrains(o) \/ LoopAgain(o) \/ ReleaseSaved(o)
          \/ ReleaseFails(o) => exec'[o].phase # "draining"
    BY <1>0, <2>0 DEF ClaimStarts, ClaimSaved, LoopDrains, LoopAgain, ReleaseSaved, ReleaseFails,
       Execution
  <2> QED
    BY <2>1, <2>3, <2>4, PhaseWriters DEF OwnerGateStep, OwnerStep
<1>5. exec[o].phase \in {"draining", "ending"} => host'[o] = host[o]
  <2>1. exec[o].phase \in {"draining", "ending"} => ~SkipDrain(o) /\ ~Settle(o)
    BY DEF SkipDrain, Settle
  <2>2. ASSUME NEW r \in Runs, r # o, SkipDrain(r) \/ BeginDrain(r) \/ HostReturns(r) \/ Settle(r)
        PROVE  host'[o] = host[o]
    BY <1>0, <2>2 DEF SkipDrain, BeginDrain, HostReturns, DrainExit, Settle
  <2>3. ASSUME NEW r \in Runs, NEW ids \in SUBSET Requests, NEW token \in 1..drainSeq,
               Pause(r, ids, token)
        PROVE  host'[o] = host[o]
    BY <2>3 DEF Pause
  <2> QED
    BY <2>1, <2>2, <2>3, HostWriters DEF HostSame
<1> QED
  BY <1>1, <1>2, <1>3, <1>4, <1>5

LEMMA ServedInvStep ==
  TypeOK /\ LiveTokenIsOwners /\ GivenInv /\ ServedInv /\ [Next]_vars => ServedInv'
<1> SUFFICES ASSUME TypeOK, LiveTokenIsOwners, GivenInv, ServedInv, [Next]_vars, NEW o \in Runs
             PROVE  ServedIsPast(o)'
  BY DEF ServedInv
<1> USE DEF inboxVars
<1>0. /\ control \in [Runs -> RunControl] /\ exec \in [Runs -> Execution]
      /\ served \in [Runs -> Nat] /\ generationSeq \in Nat /\ drainSeq \in Nat
      /\ host \in [Runs -> [token : 0..drainSeq, given : 0..generationSeq, exit : Exits]]
      /\ control[o].park.generation \in 0..generationSeq
      /\ ServedIsPast(o) /\ GivenIsLeased(o)
  BY DEF TypeOK, ControlOK, CoordinatorOK, HostOK, ServedInv, GivenInv, RunControl, Park
<1>1. CASE UNCHANGED vars
  BY <1>0, <1>1 DEF vars, coordinatorVars, historyVars, ServedIsPast, ParkIsGiven
\* The drain is given a park that is newer than what has been served, or none.
<1>2. CASE BeginDrain(o)
  <2>1. /\ served' = served /\ generationSeq' = generationSeq
        /\ control'[o].park = control[o].park /\ control'[o].liveToken = drainSeq + 1
        /\ exec[o].phase = "begin" /\ exec'[o].phase = "draining"
        /\ host'[o].given \in {0, control[o].park.generation}
    BY <1>0, <1>2 DEF BeginDrain, Ready, RunControl
  <2> QED
    BY <1>0, <2>1 DEF ServedIsPast, ParkIsGiven
\* What it has been given it still leases: that park is acknowledged.
<1>3. CASE EndDrain(o)
  <2>1. /\ served' = served /\ generationSeq' = generationSeq
        /\ exec[o].phase = "ending" /\ exec'[o].phase = "drained"
    BY <1>0, <1>3 DEF EndDrain, historyVars
  <2>2. control'[o].park \in {control[o].park, NoPark}
    BY <1>0, <1>3 DEF EndDrain, Ended, RunControl
  <2>3. ASSUME host[o].exit = "success", ParkIsGiven(o), control[o].park.generation # 0
        PROVE  control'[o].park = NoPark
    <3>1. control[o].liveToken = host[o].token /\ Acknowledges(o)
      BY <1>0, <2>3 DEF ParkIsGiven, LiveTokenIsOwners, GivenIsLeased, Acknowledges
    <3> QED
      BY <1>0, <1>3, <3>1 DEF EndDrain, Ended, RunControl
  <2> QED
    BY <1>0, <2>1, <2>2, <2>3 DEF ServedIsPast, NoPark
<1>4. CASE HostReturns(o)
  <2>1. PICK exit \in Exits : DrainExit(o, exit)
    BY <1>4 DEF HostReturns
  <2>2. /\ control' = control /\ generationSeq' = generationSeq
        /\ exec[o].phase = "draining" /\ exec'[o].phase = "ending"
        /\ host'[o].given = host[o].given /\ host'[o].exit = exit
        /\ served'[o] = IF exit = "success" /\ host[o].given # 0 THEN host[o].given ELSE served[o]
    BY <1>0, <2>1 DEF DrainExit
  <2> QED
    BY <1>0, <2>2 DEF ServedIsPast, ParkIsGiven
<1>5. CASE Stop(o) \/ ClearPark(o)
  <2>1. /\ control'[o].park.generation = 0 /\ served' = served /\ generationSeq' = generationSeq
    BY <1>0, <1>5 DEF Stop, ClearPark, emptyControl, NoPark, RunControl
  <2> QED
    BY <1>0, <2>1 DEF ServedIsPast
<1>6. ASSUME NEW ids \in SUBSET Requests, NEW token \in 1..drainSeq, Pause(o, ids, token)
      PROVE  ServedIsPast(o)'
  <2>1. /\ control'[o].park.generation = generationSeq + 1 /\ generationSeq' = generationSeq + 1
        /\ served' = served /\ host' = host
    BY <1>0, <1>6 DEF Pause, historyVars, RunControl
  <2> QED
    BY <1>0, <2>1 DEF ServedIsPast
<1>7. CASE Crash
  BY <1>7 DEF Crash, emptyControl, NoPark, NoExec, ServedIsPast
<1>8. ASSUME Next, ~Crash,
             ~(BeginDrain(o) \/ EndDrain(o) \/ HostReturns(o) \/ Stop(o) \/ ClearPark(o)),
             \A ids \in SUBSET Requests, token \in 1..drainSeq : ~Pause(o, ids, token)
      PROVE  ServedIsPast(o)'
  <2>1. /\ served'[o] = served[o] /\ generationSeq' >= generationSeq
        /\ control'[o].park.generation = control[o].park.generation
        /\ control'[o].liveToken = control[o].liveToken
        /\ exec[o].phase \in {"draining", "ending"} =>
             exec'[o].phase = exec[o].phase /\ host'[o] = host[o]
        /\ exec'[o].phase = "draining" => exec[o].phase = "draining"
    BY <1>8, ServedFrame
  <2>2. generationSeq' \in Nat
    BY <1>8, ControlStep DEF ControlOK
  <2> QED
    BY <1>0, <2>1, <2>2 DEF ServedIsPast, ParkIsGiven
<1> QED
  BY <1>1, <1>2, <1>3, <1>4, <1>5, <1>6, <1>7, <1>8

LEMMA ServedInvariance == Spec => []ServedInv
<1>1. Init => ServedInv
  <2> SUFFICES ASSUME Init, NEW r \in Runs PROVE ServedIsPast(r)
    BY DEF ServedInv
  <2>1. /\ served[r] = 0 /\ generationSeq = 0 /\ control[r].park.generation = 0
        /\ exec[r].phase = "none"
    BY DEF Init, emptyControl, NoPark, NoExec
  <2> QED
    BY <2>1 DEF ServedIsPast
<1> QED
  BY <1>1, ServedInvStep, GivenInvariance, OneLiveDrain, TypeCorrect, PTL DEF Spec

\* A drain is given no answers that a drain before it was given and finished with
\* (beginDrain, endDrain): a park is served once in the life of the process.
THEOREM ParksAreServedOnce == Spec => AnswersServedOnce
<1>1. ASSUME TypeOK, ServedInv, [Next]_vars, NEW r \in Runs,
             exec[r].phase = "begin", exec'[r].phase = "draining"
      PROVE  host'[r].given = 0 \/ host'[r].given > served[r]
  <2>1. BeginDrain(r)
    BY <1>1, OwnerMoved
  <2>2. host'[r].given \in {0, control[r].park.generation}
    <3>1. host \in [Runs -> [token : 0..drainSeq, given : 0..generationSeq, exit : Exits]]
      BY <1>1 DEF TypeOK, HostOK
    <3>2. host'[r].given = Ready(r)
      BY <2>1, <3>1 DEF BeginDrain
    <3> QED
      BY <3>2 DEF Ready
  <2>3. served[r] < control[r].park.generation \/ control[r].park.generation = 0
    BY <1>1 DEF ServedInv, ServedIsPast
  <2> QED
    BY <2>2, <2>3 DEF TypeOK
<1>2. TypeOK /\ ServedInv /\ [Next]_vars =>
        [\A r \in Runs : exec[r].phase = "begin" /\ exec'[r].phase = "draining" =>
           host'[r].given = 0 \/ host'[r].given > served[r]]_vars
  BY <1>1
<1> QED
  BY <1>2, TypeCorrect, ServedInvariance, PTL DEF Spec, AnswersServedOnce

-----------------------------------------------------------------------------
(* What is owed to a run. *)

\* What is owed is pending in the inbox.
PendingCoversOwed(r) == Covers(control[r].pending, owed[r])

\* Until an owner has claimed, what its doorbell was rung for is pending too: it is
\* what a claim that fails leaves owed.
DoorbellIsPending(r) ==
  exec[r].phase \in {"forked", "claiming"} => Covers(control[r].pending, exec[r].pendingWake)

\* An owner that was told to stop, or that drains, serves no later intent: the
\* doorbell holds it.
DoorbellHoldsOwed(r) ==
  exec[r].stopping \/ exec[r].phase \in {"draining", "ending"} =>
    Covers(exec[r].pendingWake, owed[r])

IdleIsSilent(r) == exec[r].phase = "none" => exec[r].pendingWake = "none"

BeforeDrain == {"forked", "claiming", "loop", "begin"}

\* DoorbellKept, of one run.
IntentIsKept(r) ==
  \/ Blocked(r)
  \/ Covers(exec[r].pendingWake, owed[r])
  \/ exec[r].phase \in BeforeDrain /\ Covers(exec[r].scope, owed[r])

IntentOK(r) ==
  /\ PendingCoversOwed(r)
  /\ DoorbellIsPending(r)
  /\ DoorbellHoldsOwed(r)
  /\ IdleIsSilent(r)
  /\ IntentIsKept(r)

IntentInv == \A r \in Runs : IntentOK(r)

LEMMA RunTypes ==
  ASSUME TypeOK
  PROVE  /\ exec \in [Runs -> Execution] /\ control \in [Runs -> RunControl]
         /\ owed \in [Runs -> MaybeScope]
         /\ \A r \in Runs : /\ exec[r] \in Execution /\ exec[r].scope \in Scopes
                            /\ exec[r].pendingWake \in MaybeScope /\ owed[r] \in MaybeScope
                            /\ control[r] \in RunControl /\ control[r].pending \in MaybeScope
BY DEF TypeOK, CoordinatorOK, ControlOK, Execution, RunControl

\* A run that a step leaves alone, in all that an intent depends on.
IntentUntouched(o) ==
  /\ exec'[o].phase = exec[o].phase /\ exec'[o].scope = exec[o].scope
  /\ exec'[o].pendingWake = exec[o].pendingWake /\ exec'[o].stopping = exec[o].stopping
  /\ control'[o].pending = control[o].pending /\ (Blocked(o)' <=> Blocked(o))
  /\ owed'[o] = owed[o]

LEMMA UntouchedIntent ==
  ASSUME NEW o \in Runs, IntentOK(o), IntentUntouched(o)
  PROVE  IntentOK(o)'
BY DEF IntentOK, IntentUntouched, PendingCoversOwed, DoorbellIsPending, DoorbellHoldsOwed,
   IdleIsSilent, IntentIsKept

LEMMA OthersUntouched ==
  ASSUME NEW o \in Runs, exec'[o] = exec[o], control'[o] = control[o], owed'[o] = owed[o]
  PROVE  IntentUntouched(o)
BY DEF IntentUntouched, Blocked

\* An intent that is recorded and rung for is kept, also by a run that was idle.
LEMMA RungIntent ==
  ASSUME TypeOK, NEW r \in Runs, NEW s \in Scopes, IntentOK(r),
         ~Blocked(r) \/ s = "input",
         exec'[r] = Rung(exec[r], s),
         control'[r].pending = widerScope(control[r].pending, s),
         owed'[r] = Widest(owed[r], s)
  PROVE  IntentOK(r)'
<1>0. /\ exec[r] \in Execution /\ exec[r].scope \in Scopes /\ exec[r].pendingWake \in MaybeScope
      /\ owed[r] \in MaybeScope /\ control[r].pending \in MaybeScope
  BY RunTypes
<1>1. PendingCoversOwed(r)'
  BY <1>0 DEF IntentOK, PendingCoversOwed, Covers, widerScope, Widest, Scopes, MaybeScope
<1>2. CASE exec[r].phase = "none"
  <2>1. /\ exec'[r].phase = "forked" /\ exec'[r].scope = s /\ exec'[r].pendingWake = "none"
        /\ exec'[r].stopping = FALSE
    BY <1>2 DEF Rung, Started, NoExec
  <2>2. owed'[r] = s
    BY <1>0, <1>2 DEF IntentOK, IntentIsKept, IdleIsSilent, Covers, Widest, Scopes, MaybeScope,
       BeforeDrain
  <2> QED
    BY <1>1, <2>1, <2>2 DEF IntentOK, DoorbellIsPending, DoorbellHoldsOwed, IdleIsSilent,
       IntentIsKept, Covers, BeforeDrain
<1>3. CASE exec[r].phase # "none"
  <2>1. /\ exec'[r].phase = exec[r].phase /\ exec'[r].scope = exec[r].scope
        /\ exec'[r].pendingWake = widerScope(exec[r].pendingWake, s)
        /\ exec'[r].stopping = exec[r].stopping
    BY <1>0, <1>3 DEF Rung, Execution
  <2>2. Covers(exec[r].pendingWake, owed[r]) =>
          Covers(widerScope(exec[r].pendingWake, s), Widest(owed[r], s))
    BY <1>0 DEF Covers, widerScope, Widest, Scopes, MaybeScope
  <2>3. DoorbellIsPending(r)'
    BY <1>0, <2>1 DEF IntentOK, DoorbellIsPending, Covers, widerScope, Scopes, MaybeScope
  <2>4. DoorbellHoldsOwed(r)' /\ IdleIsSilent(r)'
    BY <1>3, <2>1, <2>2 DEF IntentOK, DoorbellHoldsOwed, IdleIsSilent
  <2>5. ASSUME s = "input" PROVE IntentIsKept(r)'
    BY <2>1, <2>5 DEF IntentIsKept, Covers, widerScope
  <2>6. ASSUME s = "steer", exec[r].phase \in BeforeDrain, Covers(exec[r].scope, owed[r])
        PROVE  IntentIsKept(r)'
    BY <1>0, <2>1, <2>6 DEF Covers, widerScope, Widest, Scopes, MaybeScope, IntentIsKept
  <2>7. IntentIsKept(r)'
    BY <2>1, <2>2, <2>5, <2>6 DEF IntentOK, IntentIsKept, Scopes, BeforeDrain
  <2> QED
    BY <1>1, <2>3, <2>4, <2>7 DEF IntentOK
<1> QED
  BY <1>2, <1>3

\* The owner's place has changed, and no more of its execution.
Moved(r) ==
  /\ exec'[r].scope = exec[r].scope /\ exec'[r].pendingWake = exec[r].pendingWake
  /\ exec'[r].stopping = exec[r].stopping
  /\ exec[r].phase # "none" /\ exec'[r].phase \notin {"none", "forked"}
  /\ exec'[r].phase = "claiming" => exec[r].phase = "forked"
  /\ control'[r].pending = control[r].pending /\ owed'[r] = owed[r]

\* An owner that moves on keeps what is owed if it is still before its drain, or
\* if the doorbell holds it.
LEMMA MovedIntent ==
  ASSUME NEW r \in Runs, IntentOK(r), Moved(r),
         \/ Covers(exec[r].pendingWake, owed[r])
         \/ /\ exec'[r].phase \notin {"draining", "ending"}
            /\ Blocked(r) \/ {exec[r].phase, exec'[r].phase} \subseteq BeforeDrain
            /\ Blocked(r)' <=> Blocked(r)
  PROVE  IntentOK(r)'
BY DEF IntentOK, Moved, PendingCoversOwed, DoorbellIsPending, DoorbellHoldsOwed, IdleIsSilent,
   IntentIsKept, BeforeDrain

LEMMA IntentOwner ==
  ASSUME TypeOK, OwnershipInv, IntentInv, NEW r \in Runs,
         OwnerStep(r) \/ OwnerGateStep(r) \/ HostReturns(r)
  PROVE  IntentInv'
<1> USE DEF inboxVars, storeVars, historyVars
<1>0. /\ exec \in [Runs -> Execution] /\ control \in [Runs -> RunControl]
      /\ owed \in [Runs -> MaybeScope]
      /\ exec[r] \in Execution /\ exec[r].scope \in Scopes /\ exec[r].pendingWake \in MaybeScope
      /\ owed[r] \in MaybeScope /\ control[r] \in RunControl /\ control[r].pending \in MaybeScope
      /\ IntentOK(r)
  BY RunTypes DEF IntentInv
<1>a. ASSUME \A o \in Runs \ {r} : exec'[o] = exec[o] /\ control'[o] = control[o] /\ owed'[o] = owed[o],
             IntentOK(r)'
      PROVE  IntentInv'
  BY <1>a, OthersUntouched, UntouchedIntent DEF IntentInv
<1>b. exec[r].interrupted => exec[r].stopping
  BY DEF OwnershipInv, RunInv, RequestsAreForStops
<1>1. ASSUME \A o \in Runs \ {r} : exec'[o] = exec[o],
             control' = control, owed' = owed, Moved(r),
             \/ Covers(exec[r].pendingWake, owed[r])
             \/ /\ exec'[r].phase \notin {"draining", "ending"}
                /\ Blocked(r) \/ {exec[r].phase, exec'[r].phase} \subseteq BeforeDrain
      PROVE  IntentInv'
  <2>1. IntentOK(r)'
    BY <1>0, <1>1, MovedIntent DEF Blocked
  <2> QED
    BY <1>1, <1>a, <2>1
<1>c. ASSUME \A o \in Runs \ {r} : exec'[o] = exec[o],
             control' = control, owed' = owed, Moved(r),
             exec'[r].phase \notin {"draining", "ending"},
             Blocked(r) \/ Covers(exec[r].pendingWake, owed[r])
      PROVE  IntentInv'
  <2>1. Blocked(r)' <=> Blocked(r)
    BY <1>c DEF Blocked
  <2>2. exec'[r].phase \notin {"draining", "ending"} /\ (Blocked(r) \/ Covers(exec[r].pendingWake, owed[r]))
        /\ IntentOK(r) /\ Moved(r)
    BY <1>0, <1>c
  <2>3. IntentOK(r)'
    BY <2>1, <2>2, MovedIntent DEF Blocked
  <2> QED
    BY <1>a, <1>c, <2>3
<1>2. CASE ClaimStarts(r) \/ ClaimSaved(r) \/ LoopDrains(r)
  <2>1. /\ \A o \in Runs \ {r} : exec'[o] = exec[o]
        /\ control' = control /\ owed' = owed /\ Moved(r)
        /\ exec[r].phase \in BeforeDrain /\ exec'[r].phase \in BeforeDrain
    BY <1>0, <1>2 DEF ClaimStarts, ClaimSaved, LoopDrains, BeforeDrain, Moved, Execution
  <2> QED
    BY <1>1, <2>1 DEF BeforeDrain
<1>3. ASSUME NEW exit, Leave(r, exit), owed' = owed, exec[r].phase # "none",
             Blocked(r) \/ Covers(exec[r].pendingWake, owed[r])
      PROVE  IntentInv'
  <2>1. /\ \A o \in Runs \ {r} : exec'[o] = exec[o]
        /\ control' = control /\ Moved(r) /\ exec'[r].phase \in {"releasing", "settled"}
    BY <1>0, <1>3 DEF Leave, Moved, Execution
  <2> QED
    BY <1>c, <1>3, <2>1
<1>4. CASE Unwind(r) \/ LoopStops(r)
  BY <1>0, <1>3, <1>4, <1>b DEF Unwind, LoopStops, IntentOK, DoorbellHoldsOwed
<1>5. CASE LoopEnds(r)
  BY <1>0, <1>3, <1>5 DEF LoopEnds, IntentOK, IntentIsKept, BeforeDrain
<1>6. CASE ReleaseSaved(r) \/ ReleaseFails(r)
  <2>1. /\ \A o \in Runs \ {r} : exec'[o] = exec[o]
        /\ control' = control /\ owed' = owed /\ Moved(r)
        /\ exec[r].phase = "releasing" /\ exec'[r].phase = "settled"
    BY <1>0, <1>6 DEF ReleaseSaved, ReleaseFails, Moved, Execution
  <2>2. Blocked(r) \/ Covers(exec[r].pendingWake, owed[r])
    BY <1>0, <2>1 DEF IntentOK, IntentIsKept, BeforeDrain
  <2> QED
    BY <1>c, <2>1, <2>2
<1>7. CASE SkipDrain(r)
  <2>1. /\ \A o \in Runs \ {r} : exec'[o] = exec[o]
        /\ control' = control /\ owed' = owed /\ Moved(r) /\ exec'[r].phase = "drained"
    BY <1>0, <1>7 DEF SkipDrain, Moved, Execution
  <2>2. Blocked(r) \/ Covers(exec[r].pendingWake, owed[r])
    BY <1>0, <1>7 DEF SkipDrain, IntentOK, PendingCoversOwed, Covers, MaybeScope, Scopes
  <2> QED
    BY <1>c, <2>1, <2>2
<1>8. CASE HostReturns(r)
  <2>1. /\ \A o \in Runs \ {r} : exec'[o] = exec[o]
        /\ control' = control /\ owed' = owed /\ Moved(r) /\ exec[r].phase = "draining"
    BY <1>0, <1>8 DEF HostReturns, DrainExit, Moved, Execution
  <2>2. Covers(exec[r].pendingWake, owed[r])
    BY <1>0, <2>1 DEF IntentOK, DoorbellHoldsOwed
  <2> QED
    BY <1>1, <2>1, <2>2
<1>9. CASE EndDrain(r)
  <2>1. /\ \A o \in Runs \ {r} : exec'[o] = exec[o] /\ control'[o] = control[o]
        /\ owed' = owed /\ Moved(r) /\ exec[r].phase = "ending"
    BY <1>0, <1>9 DEF EndDrain, Ended, RunControl, Moved, Execution
  <2>2. Covers(exec[r].pendingWake, owed[r])
    BY <1>0, <2>1 DEF IntentOK, DoorbellHoldsOwed
  <2>3. IntentOK(r)'
    BY <1>0, <2>1, <2>2, MovedIntent
  <2> QED
    BY <1>a, <2>1, <2>3
<1>10. CASE ClaimFails(r)
  <2>1. /\ exec[r].phase = "claiming" /\ exec'[r].phase \in {"releasing", "settled"}
        /\ exec'[r].pendingWake = exec[r].pendingWake /\ exec'[r].stopping = exec[r].stopping
        /\ owed'[r] = exec[r].pendingWake /\ control' = control
        /\ \A o \in Runs \ {r} : exec'[o] = exec[o] /\ owed'[o] = owed[o]
    BY <1>0, <1>10 DEF ClaimFails, Leave, Execution
  <2>2. IntentOK(r)'
    BY <1>0, <2>1 DEF IntentOK, PendingCoversOwed, DoorbellIsPending, DoorbellHoldsOwed,
       IdleIsSilent, IntentIsKept, Covers
  <2> QED
    BY <1>a, <2>1, <2>2
<1>11. CASE LoopAgain(r)
  <2>1. /\ exec[r].phase = "drained" /\ exec'[r].phase = "loop" /\ ~exec'[r].stopping
        /\ exec'[r].pendingWake = "none" /\ exec'[r].scope = exec[r].pendingWake
        /\ control' = control /\ owed' = owed
        /\ \A o \in Runs \ {r} : exec'[o] = exec[o]
    BY <1>0, <1>11 DEF LoopAgain, Execution
  <2>2. IntentOK(r)'
    BY <1>0, <2>1 DEF IntentOK, PendingCoversOwed, DoorbellIsPending, DoorbellHoldsOwed,
       IdleIsSilent, IntentIsKept, Blocked, BeforeDrain
  <2> QED
    BY <1>a, <2>1, <2>2
<1>12. CASE Settle(r)
  <2>1. /\ exec[r].phase = "settled" /\ exec'[r] = Successor(exec[r])
        /\ control' = control /\ owed' = owed
        /\ \A o \in Runs \ {r} : exec'[o] = exec[o]
    BY <1>0, <1>12 DEF Settle
  <2>2. /\ exec'[r].phase \in {"none", "forked"} /\ ~exec'[r].stopping
        /\ exec'[r].pendingWake = "none"
        /\ exec[r].pendingWake # "none" => exec'[r].phase = "forked" /\ exec'[r].scope = exec[r].pendingWake
    BY <2>1 DEF Successor, Started, NoExec
  <2>3. IntentOK(r)'
    BY <1>0, <2>1, <2>2 DEF IntentOK, PendingCoversOwed, DoorbellIsPending, DoorbellHoldsOwed,
       IdleIsSilent, IntentIsKept, Blocked, BeforeDrain, Covers
  <2> QED
    BY <1>a, <2>1, <2>3
<1>13. CASE BeginDrain(r)
  <2>1. /\ exec[r].phase = "begin" /\ exec'[r].phase = "draining" /\ ~Blocked(r)
        /\ exec'[r].stopping = exec[r].stopping /\ exec'[r].pendingWake = exec[r].pendingWake
        /\ control'[r].pending = remainingPending(control[r].pending, exec[r].scope)
        /\ owed'[r] = IF Covers(exec[r].scope, owed[r]) THEN "none" ELSE "input"
        /\ \A o \in Runs \ {r} : exec'[o] = exec[o] /\ control'[o] = control[o] /\ owed'[o] = owed[o]
    BY <1>0, <1>13 DEF BeginDrain, Execution, RunControl
  <2>2. Covers(control[r].pending, owed[r])
        /\ (Covers(exec[r].pendingWake, owed[r]) \/ Covers(exec[r].scope, owed[r]))
    BY <1>0, <2>1 DEF IntentOK, PendingCoversOwed, IntentIsKept
  <2>3. Covers(control'[r].pending, owed'[r]) /\ Covers(exec[r].pendingWake, owed'[r])
    BY <1>0, <2>1, <2>2 DEF Covers, remainingPending, Scopes, MaybeScope
  <2>4. IntentOK(r)'
    BY <2>1, <2>3 DEF IntentOK, PendingCoversOwed, DoorbellIsPending, DoorbellHoldsOwed,
       IdleIsSilent, IntentIsKept
  <2> QED
    BY <1>a, <2>1, <2>4
<1> QED
  BY <1>2, <1>4, <1>5, <1>6, <1>7, <1>8, <1>9, <1>10, <1>11, <1>12, <1>13
  DEF OwnerStep, OwnerGateStep

\* An intent recorded for a run that waits for no answer is kept.
LEMMA RingIntent ==
  ASSUME TypeOK, IntentInv, NEW r \in Runs, NEW s \in Scopes, ~Blocked(r), Ring(r, s)
  PROVE  IntentInv'
<1>0. /\ exec \in [Runs -> Execution] /\ control \in [Runs -> RunControl]
      /\ owed \in [Runs -> MaybeScope]
  BY RunTypes
<1>1. ASSUME NEW o \in Runs \ {r} PROVE IntentOK(o)'
  <2>1. exec'[o] = exec[o] /\ control'[o] = control[o] /\ owed'[o] = owed[o]
    BY <1>0 DEF Ring
  <2> QED
    BY <2>1, OthersUntouched, UntouchedIntent DEF IntentInv
<1>2. /\ exec'[r] = Rung(exec[r], s) /\ owed'[r] = Widest(owed[r], s)
      /\ control'[r].pending = widerScope(control[r].pending, s)
  BY <1>0 DEF Ring, RunControl
<1>3. IntentOK(r)'
  BY <1>2, RungIntent DEF IntentInv
<1> QED
  BY <1>1, <1>3 DEF IntentInv

\* The last answer of a park rings for an input drain; another one leaves it blocked.
LEMMA ResumeHitlIntent ==
  ASSUME TypeOK, IntentInv, NEW r \in Runs, NEW a \in Answers, NEW q \in Requests,
         ResumeHitl(r, a, q)
  PROVE  IntentInv'
<1> DEFINE park == Answered(control[r].park, a, q)
<1>0. /\ exec \in [Runs -> Execution] /\ control \in [Runs -> RunControl]
      /\ owed \in [Runs -> MaybeScope] /\ owed[r] \in MaybeScope /\ IntentOK(r)
  BY RunTypes DEF IntentInv
<1>1. ASSUME NEW o \in Runs \ {r} PROVE IntentOK(o)'
  <2>1. /\ exec'[o] = exec[o] /\ owed'[o] = owed[o] /\ control'[o] = control[o]
    BY <1>0 DEF ResumeHitl, historyVars
  <2> QED
    BY <2>1, OthersUntouched, UntouchedIntent DEF IntentInv
<1>2. CASE parkComplete(park)
  <2>1. /\ control' = [control EXCEPT ![r].park = [park EXCEPT !.readyWoken = TRUE],
                                      ![r].pending = widerScope(@, "input")]
        /\ exec' = [exec EXCEPT ![r] = Rung(@, "input")]
        /\ owed' = [owed EXCEPT ![r] = "input"]
    BY <1>2 DEF ResumeHitl
  <2> HIDE DEF park
  <2>2. control'[r].pending = widerScope(control[r].pending, "input")
    BY <1>0, <2>1 DEF RunControl
  <2>3. exec'[r] = Rung(exec[r], "input") /\ owed'[r] = Widest(owed[r], "input")
    BY <1>0, <2>1 DEF Widest
  <2>4. IntentOK(r)'
    BY <1>0, <2>2, <2>3, RungIntent DEF Scopes
  <2> QED
    BY <1>1, <2>4 DEF IntentInv
<1>3. CASE ~parkComplete(park)
  <2>1. control' = [control EXCEPT ![r].park = park] /\ UNCHANGED <<exec, owed>>
    BY <1>3 DEF ResumeHitl, historyVars
  <2>2. park # NoPark
    BY <1>3 DEF NoPark, parkComplete
  <2> HIDE DEF park
  <2>3. control'[r].pending = control[r].pending /\ control'[r].park = park
    BY <1>0, <2>1 DEF RunControl
  <2>4. Blocked(r)'
    BY <1>3, <2>2, <2>3 DEF Blocked, parkBlocked, parkComplete
  <2>5. IntentOK(r)'
    BY <1>0, <2>1, <2>3, <2>4 DEF IntentOK, PendingCoversOwed, DoorbellIsPending,
       DoorbellHoldsOwed, IdleIsSilent, IntentIsKept
  <2> QED
    BY <1>1, <2>5 DEF IntentInv
<1> QED
  BY <1>2, <1>3

\* A park is made and dropped: the doorbell of a draining owner holds what is owed,
\* and a dropped park owes nothing that it blocked.
LEMMA ParkIntent ==
  ASSUME TypeOK, LiveTokenIsOwners, IntentInv, NEW r \in Runs,
         ClearPark(r) \/ \E ids \in SUBSET Requests, token \in 1..drainSeq : Pause(r, ids, token)
  PROVE  IntentInv'
<1> USE DEF coordinatorVars, historyVars
<1>0. /\ exec \in [Runs -> Execution] /\ control \in [Runs -> RunControl]
      /\ owed \in [Runs -> MaybeScope] /\ IntentOK(r)
  BY RunTypes DEF IntentInv
<1>1. ASSUME NEW o \in Runs \ {r} PROVE IntentOK(o)'
  <2>1. exec'[o] = exec[o] /\ control'[o] = control[o] /\ owed'[o] = owed[o]
    BY <1>0 DEF ClearPark, Pause
  <2> QED
    BY <2>1, OthersUntouched, UntouchedIntent DEF IntentInv
<1>2. control'[r].pending = control[r].pending /\ exec' = exec
  BY <1>0 DEF ClearPark, Pause, RunControl
<1>3. CASE ClearPark(r)
  <2>1. owed'[r] = IF Blocked(r) THEN "none" ELSE owed[r]
    BY <1>0, <1>3 DEF ClearPark
  <2> QED
    BY <1>0, <1>1, <1>2, <2>1 DEF IntentInv, IntentOK, PendingCoversOwed, DoorbellIsPending,
       DoorbellHoldsOwed, IdleIsSilent, IntentIsKept, Covers
<1>4. CASE \E ids \in SUBSET Requests, token \in 1..drainSeq : Pause(r, ids, token)
  <2>1. control[r].liveToken # 0 /\ owed' = owed
    BY <1>4 DEF Pause, MayUse
  <2>2. exec[r].phase \in {"draining", "ending"}
    BY <2>1 DEF LiveTokenIsOwners
  <2> QED
    BY <1>0, <1>1, <1>2, <2>1, <2>2 DEF IntentInv, IntentOK, PendingCoversOwed,
       DoorbellIsPending, DoorbellHoldsOwed, IdleIsSilent, IntentIsKept
<1> QED
  BY <1>3, <1>4

\* An interruption and a stop owe nothing.
LEMMA StopIntent ==
  ASSUME TypeOK, IntentInv, NEW r \in Runs,
         Stop(r) \/ \E reason \in {"user", "shutdown"} : Interrupt(r, reason)
  PROVE  IntentInv'
<1> USE DEF inboxVars
<1>0. /\ exec \in [Runs -> Execution] /\ control \in [Runs -> RunControl]
      /\ owed \in [Runs -> MaybeScope] /\ IntentOK(r) /\ exec[r] \in Execution
  BY RunTypes DEF IntentInv
<1>1. ASSUME NEW o \in Runs \ {r} PROVE IntentOK(o)'
  <2>1. exec'[o] = exec[o] /\ control'[o] = control[o] /\ owed'[o] = owed[o]
    BY <1>0 DEF Stop, Interrupt
  <2> QED
    BY <2>1, OthersUntouched, UntouchedIntent DEF IntentInv
<1>2. owed'[r] = "none"
  BY <1>0 DEF Stop, Interrupt
<1>3. exec'[r].pendingWake = "none"
  <2>1. CASE Active(r)
    <3>1. CASE Stop(r)
      BY <1>0, <2>1, <3>1 DEF Stop, TerminallyStopped, Execution
    <3>2. CASE \E reason \in {"user", "shutdown"} : Interrupt(r, reason)
      BY <1>0, <3>2 DEF Interrupt, Execution
    <3> QED
      BY <3>1, <3>2
  <2>2. CASE ~Active(r)
    BY <1>0, <2>2 DEF Stop, Interrupt, Active, IntentOK, IdleIsSilent
  <2> QED
    BY <2>1, <2>2
<1>4. IntentOK(r)'
  BY <1>2, <1>3 DEF IntentOK, PendingCoversOwed, DoorbellIsPending, DoorbellHoldsOwed,
     IdleIsSilent, IntentIsKept, Covers
<1> QED
  BY <1>1, <1>4 DEF IntentInv

LEMMA IntentStep ==
  ASSUME TypeOK, LiveTokenIsOwners, OwnershipInv, ChargeInv, IntentInv, [Next]_vars
  PROVE  IntentInv'
<1> USE DEF inboxVars, storeVars, coordinatorVars, historyVars, driverVars
<1>0. exec \in [Runs -> Execution]
  BY RunTypes
<1>1. ASSUME UNCHANGED <<exec, control, owed>>
      PROVE  IntentInv'
  BY <1>1, OthersUntouched, UntouchedIntent DEF IntentInv
<1>2. CASE System
  <2>1. ASSUME NEW r \in Runs, GateStep(r)
        PROVE  IntentInv'
    <3>1. CASE SweepResumes(r)
      BY <3>1, RingIntent DEF SweepResumes, ChargeInv, ChargeIsDecided, Scopes
    <3> QED
      BY <1>1, <2>1, <3>1 DEF GateStep, StopJoined, StopReleaseSaved, StopReleaseFails,
         SweepExhausts, SweepFails
  <2>2. ASSUME NEW r \in Runs, SweepStep(r)
        PROVE  IntentInv'
    BY <1>1, <2>2 DEF SweepStep, SweepSkips, SweepDecides
  <2>3. ASSUME NEW q \in requests, DeliverRequest(q)
        PROVE  IntentInv'
    <3>1. ASSUME NEW o \in Runs PROVE IntentUntouched(o)
      <4>1. /\ exec' = exec \/ exec' = [exec EXCEPT ![q.run].interrupted = TRUE]
            /\ control' = control /\ owed' = owed /\ exec[o] \in Execution
        BY <1>0, <2>3 DEF DeliverRequest
      <4> QED
        BY <1>0, <4>1 DEF IntentUntouched, Execution, Blocked
    <3> QED
      BY <3>1, UntouchedIntent DEF IntentInv
  <2>4. ASSUME NEW c \in Callers, RetryRun(c)
        PROVE  IntentInv'
    <3>1. caller[c].run \in Runs
      BY <2>4 DEF TypeOK, CallersOK, RetryRun, Idle
    <3> QED
      BY <1>1, <2>4, <3>1, RingIntent DEF RetryRun, CaptureRun, Scopes
  <2>5. ASSUME NEW r \in Runs, NEW s \in Scopes, NEW token \in 1..drainSeq, Take(r, s, token)
        PROVE  IntentInv'
    BY <1>1, <2>5 DEF Take
  <2> QED
    BY <1>2, <2>1, <2>2, <2>3, <2>4, <2>5, IntentOwner DEF System
<1>3. CASE Environment
  <2>1. ASSUME NEW r \in Runs, NEW s \in Scopes, Admit(r, s) \/ Enqueue(r, s) \/ Wake(r, s)
        PROVE  IntentInv'
    BY <1>1, <2>1, RingIntent DEF Admit, Enqueue, Wake
  <2>2. ASSUME NEW c \in Callers, NEW r \in Runs, Run(c, r)
        PROVE  IntentInv'
    BY <1>1, <2>2, RingIntent DEF Run, CaptureRun, Scopes
  <2>3. CASE Crash
    <3>1. \A r \in Runs : exec'[r] = NoExec /\ owed'[r] = "none"
      BY <2>3 DEF Crash
    <3>2. \A r \in Runs : exec'[r].phase = "none" /\ exec'[r].pendingWake = "none"
      BY <3>1 DEF NoExec
    <3> QED
      BY <3>1, <3>2 DEF IntentInv, IntentOK, PendingCoversOwed, DoorbellIsPending,
         DoorbellHoldsOwed, IdleIsSilent, IntentIsKept, Covers
  <2> QED
    BY <1>1, <1>3, <2>1, <2>2, <2>3, StopIntent, ParkIntent, ResumeHitlIntent
    DEF Environment, CancelRun, SweepStarts, SweepCancelled
<1>4. CASE UNCHANGED vars
  BY <1>1, <1>4 DEF vars
<1> QED
  BY <1>2, <1>3, <1>4 DEF Next

LEMMA IntentInvariance == Spec => []IntentInv
<1>1. Init => IntentInv
  <2>1. Init => \A r \in Runs : exec[r] = NoExec /\ owed[r] = "none"
    BY DEF Init
  <2>2. NoExec.phase = "none" /\ NoExec.pendingWake = "none"
    BY DEF NoExec
  <2> QED
    BY <2>1, <2>2 DEF IntentInv, IntentOK, PendingCoversOwed, DoorbellIsPending,
       DoorbellHoldsOwed, IdleIsSilent, IntentIsKept, Covers
<1> QED
  BY <1>1, IntentStep, TypeCorrect, OneLiveDrain, OwnershipInvariance, ChargeInvariance, PTL DEF Spec

\* No admitted intent is lost: until it is drained it is blocked by an unanswered
\* park, or an owner before its drain will serve it, or the doorbell holds it
\* (enqueueAndWake, wake, the loop's check, settle's successor).
THEOREM NoWakeIsLost == Spec => []DoorbellKept
<1>1. IntentInv => DoorbellKept
  BY DEF IntentInv, IntentOK, IntentIsKept, BeforeDrain, DoorbellKept
<1> QED
  BY <1>1, IntentInvariance, PTL
=============================================================================
