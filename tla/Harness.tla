------------------------------ MODULE Harness ------------------------------
(***************************************************************************)
(* packages/harness: who owns a live run, how wakes coalesce, how claims   *)
(* survive a crash and how a run waits for human answers.                  *)
(*                                                                         *)
(* Four services share one process:                                        *)
(*   RunCoordinator  one owner fiber per run, with a doorbell, interrupts  *)
(*   Inbox           queued items, pending intent, the live drain's token, *)
(*                   the HITL park; one gate serialises its operations     *)
(*   RunStore        claims and resume counts, atomic and durable once a   *)
(*                   save answers (RunStore.tla)                           *)
(*   Driver          composes the three and sweeps suspended claims        *)
(* The host supplies the drain, a callback that takes items and may park.  *)
(*                                                                         *)
(* Fibers are cooperative: a step below is what runs between two points    *)
(* where the code can suspend (a yield, a wait for the gate, a save, the   *)
(* host's drain), and any step of any fiber may come next.                 *)
(***************************************************************************)
EXTENDS Naturals, Sequences

CONSTANTS Runs,              \* run ids
          Callers,           \* fibers inside Driver.run
          Requests,          \* HITL request ids
          Answers,           \* ids of the items that answer them
          MaxResumeAttempts, \* the sweep's budget
          NoRun              \* the run of a free gate and of an idle caller

ASSUME NoRunAssumption == NoRun \notin Runs
ASSUME MaxResumeAttemptsAssumption == MaxResumeAttempts \in Nat

VARIABLES
  exec,          \* executions: the coordinator's record of each run
  requests,      \* interruption requests forked and not yet delivered
  acquired,      \* runs whose current owner acquired the claim itself
  items,         \* queued items of each run, oldest first
  control,       \* the inbox's RunControl of each run
  drainSeq,      \* drain tokens handed out
  generationSeq, \* park generations handed out
  gate,          \* who is suspended while holding the inbox gate
  sweep,         \* candidates resumeSuspended has not looked at
  caller,        \* where each Driver.run caller is
  claimed,       \* RunStore: durable claims
  resumes,       \* RunStore: durable resume counts
  host,          \* the context each run's host drain was called with
  owed,          \* history: the widest intent admitted and not yet drained
  stopped,       \* history: stopped, and no execution started since
  served         \* history: the last park whose answers a host drain was given
                 \* and finished with

coordinatorVars == <<exec, requests, acquired>>
inboxVars == <<items, control, drainSeq, generationSeq, gate>>
driverVars == <<sweep, caller>>
storeVars == <<claimed, resumes>>
historyVars == <<owed, stopped, served>>
vars == <<coordinatorVars, inboxVars, driverVars, storeVars, host, historyVars>>

-----------------------------------------------------------------------------
\* Promotable, or nothing pending.
Scopes == {"steer", "input"}
MaybeScope == Scopes \cup {"none"}

\* Coalescing wakes: input subsumes steer.
widerScope(current, next) == IF "input" \in {current, next} THEN "input" ELSE "steer"

\* Faulty: any drain consumes whatever is pending.
remainingPendingNone(pending, scope) == "none"

\* What a drain of this scope leaves pending.
remainingPending(pending, scope) ==
  IF scope = "steer" /\ pending = "input" THEN "input" ELSE "none"

\* History: the wider of two intents, either of which may be none.
Widest(i, j) == IF "input" \in {i, j} THEN "input" ELSE IF i = "none" THEN j ELSE i

\* A drain of scope s serves the intent i.
Covers(s, i) == i = "none" \/ s = "input" \/ s = i

isPromotableAt(delivery, scope) == scope = "steer" => delivery = "steer"

\* No park has generation 0.
NoPark == [generation |-> 0, requestIds |-> {}, responses |-> {}, readyWoken |-> FALSE]

parkComplete(park) ==
  \A q \in park.requestIds : \E a \in park.responses : a.requestId = q

parkBlocked(park) == park # NoPark /\ ~parkComplete(park)

Blocked(r) == parkBlocked(control[r].park)

emptyControl ==
  [pending |-> "none", liveToken |-> 0, park |-> NoPark, leasedGeneration |-> 0]

\* Phases of an owner fiber: waiting for its first turn, saving the claim,
\* about to check `stopping`, waiting for the gate, inside the host's drain,
\* ending the drain, back in the loop. Afterwards the owner is undefined:
\* releasing the claim, or about to settle.
Acquired == {"loop", "begin", "draining", "ending", "drained"}
Owned == {"forked", "claiming"} \cup Acquired
Settling == {"releasing", "settled"}
Phases == {"none"} \cup Owned \cup Settling

NoExec ==
  [phase |-> "none", scope |-> "steer", pendingWake |-> "none", stopping |-> FALSE,
   reason |-> "none", interrupted |-> FALSE]

Started(scope) == [NoExec EXCEPT !.phase = "forked", !.scope = scope]

Active(r) == exec[r].phase # "none"

NoDrain == [token |-> 0, given |-> 0, exit |-> "success"]
Exits == {"success", "die", "interrupt"}

GateFree == gate.op = "free"
FreeGate == [op |-> "free", run |-> NoRun]
GateHeld(op, r) == gate.op = op /\ gate.run = r

Idle == [at |-> "idle", run |-> NoRun]

-----------------------------------------------------------------------------
Execution ==
  [phase : Phases, scope : Scopes, pendingWake : MaybeScope, stopping : BOOLEAN,
   reason : {"none", "user", "shutdown"}, interrupted : BOOLEAN]

ParkedResponse == [itemId : Answers, requestId : Requests]

Park ==
  [generation : 0..generationSeq, requestIds : SUBSET Requests,
   responses : SUBSET ParkedResponse, readyWoken : BOOLEAN]

RunControl ==
  [pending : MaybeScope, liveToken : 0..drainSeq, park : Park,
   leasedGeneration : 0..generationSeq]

GateHolder ==
  {FreeGate} \cup [op : {"stop", "stopRelease", "exhaust", "resume"}, run : Runs]

CoordinatorOK ==
  /\ exec \in [Runs -> Execution]
  /\ requests \in SUBSET [run : Runs, owner : {"current", "gone"}]
  /\ acquired \in SUBSET Runs

ControlOK ==
  /\ drainSeq \in Nat
  /\ generationSeq \in Nat
  /\ control \in [Runs -> RunControl]

HostOK == host \in [Runs -> [token : 0..drainSeq, given : 0..generationSeq, exit : Exits]]

CallersOK ==
  caller \in [Callers -> {Idle} \cup [at : {"joined", "stopping", "retry"}, run : Runs]]

\* Types; tokens and generations are among those handed out.
TypeOK ==
  /\ CoordinatorOK
  /\ ControlOK
  /\ HostOK
  /\ CallersOK
  /\ items \in [Runs -> Seq(Scopes)]
  /\ gate \in GateHolder
  /\ sweep \in SUBSET Runs
  /\ claimed \in SUBSET Runs
  /\ resumes \in [Runs -> Nat]
  /\ owed \in [Runs -> MaybeScope]
  /\ stopped \in [Runs -> BOOLEAN]
  /\ served \in [Runs -> Nat]

Init ==
  /\ exec = [r \in Runs |-> NoExec]
  /\ requests = {}
  /\ acquired = {}
  /\ items = [r \in Runs |-> <<>>]
  /\ control = [r \in Runs |-> emptyControl]
  /\ drainSeq = 0
  /\ generationSeq = 0
  /\ gate = FreeGate
  /\ sweep = {}
  /\ caller = [c \in Callers |-> Idle]
  /\ host = [r \in Runs |-> NoDrain]
  /\ owed = [r \in Runs |-> "none"]
  /\ stopped = [r \in Runs |-> FALSE]
  /\ served = [r \in Runs |-> 0]
  /\ claimed = {}
  /\ resumes = [r \in Runs |-> 0]

-----------------------------------------------------------------------------
(* The doorbell. Every wake is rung under the gate after the inbox recorded *)
(* the intent, except the one settle answers.                               *)

\* coordinator.wake: an idle run starts, an active one drains again.
Rung(e, scope) ==
  IF e.phase = "none" THEN Started(scope)
  ELSE [e EXCEPT !.pendingWake = widerScope(@, scope)]

\* An intent is recorded as pending and the doorbell is rung for it.
Ring(r, scope) ==
  /\ control' = [control EXCEPT ![r].pending = widerScope(@, scope)]
  /\ exec' = [exec EXCEPT ![r] = Rung(@, scope)]
  /\ owed' = [owed EXCEPT ![r] = Widest(@, scope)]
  /\ stopped' = [stopped EXCEPT ![r] = @ /\ Active(r)]
  /\ UNCHANGED <<requests, acquired, served>>

\* Driver.admit: the item is queued; a blocked park keeps it waiting.
Admit(r, delivery) ==
  /\ GateFree
  /\ items' = [items EXCEPT ![r] = Append(@, delivery)]
  /\ IF Blocked(r)
     THEN UNCHANGED <<control, coordinatorVars, historyVars>>
     ELSE Ring(r, delivery)
  /\ UNCHANGED <<drainSeq, generationSeq, gate, driverVars, storeVars, host>>

\* Inbox.enqueue: queued without the gate and without a wake.
Enqueue(r, delivery) ==
  /\ items' = [items EXCEPT ![r] = Append(@, delivery)]
  /\ UNCHANGED <<coordinatorVars, control, drainSeq, generationSeq, gate, driverVars,
                 storeVars, host, historyVars>>

\* Driver.wake.
Wake(r, scope) ==
  /\ GateFree
  /\ ~Blocked(r)
  /\ Ring(r, scope)
  /\ UNCHANGED <<items, drainSeq, generationSeq, gate, driverVars, storeVars, host>>

\* coordinator.captureRun under the gate. A run that starts records its input
\* intent; a joined one does not; a stopping one is waited for.
CaptureRun(c, r) ==
  IF ~Active(r)
  THEN /\ Ring(r, "input")
       /\ caller' = [caller EXCEPT ![c] = [at |-> "joined", run |-> r]]
  ELSE /\ caller' = [caller EXCEPT ![c] =
                       [at |-> IF exec[r].stopping THEN "stopping" ELSE "joined",
                        run |-> r]]
       /\ UNCHANGED <<control, coordinatorVars, historyVars>>

\* Driver.run, first attempt. A blocked run is left alone.
Run(c, r) ==
  /\ GateFree
  /\ caller[c] = Idle
  /\ ~Blocked(r)
  /\ CaptureRun(c, r)
  /\ UNCHANGED <<items, drainSeq, generationSeq, gate, sweep, storeVars, host>>

\* continueRun after the stopping owner settled.
RetryRun(c) ==
  /\ GateFree
  /\ caller[c].at = "retry"
  /\ IF Blocked(caller[c].run)
     THEN /\ caller' = [caller EXCEPT ![c] = Idle]
          /\ UNCHANGED <<control, coordinatorVars, historyVars>>
     ELSE CaptureRun(c, caller[c].run)
  /\ UNCHANGED <<items, drainSeq, generationSeq, gate, sweep, storeVars, host>>

\* The caller's fiber is interrupted while it waits: nothing is owed to it.
CancelRun(c) ==
  /\ caller[c] # Idle
  /\ caller' = [caller EXCEPT ![c] = Idle]
  /\ UNCHANGED <<coordinatorVars, inboxVars, sweep, storeVars, host, historyVars>>

-----------------------------------------------------------------------------
(* The owner fiber of a run: start, loop, onExit(settled), onExit(settle). *)

\* The first yield is over; the claim is being saved.
ClaimStarts(r) ==
  /\ exec[r].phase = "forked"
  /\ ~exec[r].interrupted
  /\ exec' = [exec EXCEPT ![r].phase = "claiming"]
  /\ UNCHANGED <<requests, acquired, inboxVars, driverVars, storeVars, host, historyVars>>

\* Faulty: the drain is entered without a claim.
ClaimSavedUnclaimed(r) ==
  /\ exec[r].phase = "claiming"
  /\ exec' = [exec EXCEPT ![r].phase = "loop"]
  /\ acquired' = acquired \cup {r}
  /\ UNCHANGED <<claimed, resumes, requests, inboxVars, driverVars, host, historyVars>>

\* `started`: the claim is saved, uninterruptibly, and its receipt kept.
ClaimSaved(r) ==
  /\ exec[r].phase = "claiming"
  /\ exec' = [exec EXCEPT ![r].phase = "loop"]
  /\ claimed' = claimed \cup {r}
  /\ acquired' = acquired \cup {r}
  /\ UNCHANGED <<resumes, requests, inboxVars, driverVars, host, historyVars>>

\* The settlement policy. An owner that acquired the claim releases it unless
\* it was shut down or interrupted without a reason; a user's stop releases a
\* leftover claim too.
Releases(r, exit) ==
  \/ /\ r \in acquired
     /\ \/ exec[r].reason = "user"
        \/ exec[r].reason = "none" /\ exit # "interrupt"
  \/ r \notin acquired /\ exec[r].reason = "user" /\ r \in claimed

\* The owner's body is over: it becomes undefined and `settled` decides.
Leave(r, exit) ==
  /\ exec' = [exec EXCEPT ![r].phase = IF Releases(r, exit) THEN "releasing" ELSE "settled",
                          ![r].interrupted = FALSE]
  /\ acquired' = acquired \ {r}
  /\ UNCHANGED <<requests, inboxVars, driverVars, storeVars, host>>

\* The claim's save dies: the owner fails before any drain, and what it was
\* started for is lost unless the doorbell was rung again.
ClaimFails(r) ==
  /\ exec[r].phase = "claiming"
  /\ Leave(r, IF exec[r].interrupted THEN "interrupt" ELSE "die")
  /\ owed' = [owed EXCEPT ![r] = exec[r].pendingWake]
  /\ UNCHANGED <<stopped, served>>

\* The interruption reaches the owner where it is interruptible.
Unwind(r) ==
  /\ exec[r].phase \in {"forked", "loop", "begin"}
  /\ exec[r].interrupted
  /\ Leave(r, "interrupt")
  /\ UNCHANGED historyVars

\* The head of `loop`.
LoopStops(r) ==
  /\ exec[r].phase = "loop"
  /\ ~exec[r].interrupted
  /\ exec[r].stopping
  /\ Leave(r, "success")
  /\ UNCHANGED historyVars

LoopDrains(r) ==
  /\ exec[r].phase = "loop"
  /\ ~exec[r].interrupted
  /\ ~exec[r].stopping
  /\ exec' = [exec EXCEPT ![r].phase = "begin"]
  /\ UNCHANGED <<requests, acquired, inboxVars, driverVars, storeVars, host, historyVars>>

\* beginDrain has nothing to run: the run is parked, or its intent is served.
SkipDrain(r) ==
  /\ exec[r].phase = "begin"
  /\ ~exec[r].interrupted
  /\ GateFree
  /\ Blocked(r) \/ control[r].pending = "none"
  /\ exec' = [exec EXCEPT ![r].phase = "drained"]
  /\ host' = [host EXCEPT ![r].exit = "success"]
  /\ UNCHANGED <<requests, acquired, inboxVars, driverVars, storeVars, historyVars>>

\* The token a drain is given, fresh in this process.
NextDrain(n) == n + 1

\* The park whose answers a drain starting now is given, 0 for none.
Ready(r) == IF parkComplete(control[r].park) THEN control[r].park.generation ELSE 0

\* beginDrain: the drain takes the intent it serves and becomes the live one.
BeginDrain(r) ==
  /\ exec[r].phase = "begin"
  /\ ~exec[r].interrupted
  /\ GateFree
  /\ ~Blocked(r)
  /\ control[r].pending # "none"
  /\ drainSeq' = NextDrain(drainSeq)
  /\ control' = [control EXCEPT ![r].pending = remainingPending(@, exec[r].scope),
                                ![r].liveToken = drainSeq + 1,
                                ![r].leasedGeneration = Ready(r)]
  /\ host' = [host EXCEPT ![r] = [token |-> drainSeq + 1, given |-> Ready(r),
                                  exit |-> "success"]]
  /\ exec' = [exec EXCEPT ![r].phase = "draining"]
  /\ owed' = [owed EXCEPT ![r] =
                IF Covers(exec[r].scope, @) THEN "none" ELSE "input"]
  /\ UNCHANGED <<requests, acquired, items, generationSeq, gate, driverVars, storeVars,
                 stopped, served>>

\* The host's drain returns, dies or is interrupted; endDrain waits for the gate.
DrainExit(r, exit) ==
  /\ exec[r].phase = "draining"
  /\ exec' = [exec EXCEPT ![r].phase = "ending"]
  /\ host' = [host EXCEPT ![r].exit = exit]
  /\ served' = [served EXCEPT ![r] =
       IF exit = "success" /\ host[r].given # 0 THEN host[r].given ELSE @]
  /\ UNCHANGED <<requests, acquired, inboxVars, driverVars, storeVars, owed, stopped>>

\* Faulty: any end of the drain acknowledges the answers.
AcknowledgesAlways(r) ==
  /\ control[r].leasedGeneration # 0
  /\ control[r].park.generation = control[r].leasedGeneration

\* Faulty: answers are kept for the drain that the doorbell has rung for.
AcknowledgesUnlessRung(r) ==
  /\ host[r].exit = "success"
  /\ exec[r].pendingWake = "none"
  /\ control[r].leasedGeneration # 0
  /\ control[r].park.generation = control[r].leasedGeneration

\* A drain that succeeded acknowledges the park it was given, not a later one.
Acknowledges(r) ==
  /\ host[r].exit = "success"
  /\ control[r].leasedGeneration # 0
  /\ control[r].park.generation = control[r].leasedGeneration

\* Faulty: the token outlives its drain.
EndedStillLive(r, c) ==
  [c EXCEPT !.leasedGeneration = 0,
            !.park = IF Acknowledges(r) THEN NoPark ELSE @]

\* What endDrain leaves of the run's control.
Ended(r, c) ==
  [c EXCEPT !.liveToken = 0,
            !.leasedGeneration = 0,
            !.park = IF Acknowledges(r) THEN NoPark ELSE @]

\* endDrain, ignored when the token is no longer live.
EndDrain(r) ==
  /\ exec[r].phase = "ending"
  /\ GateFree
  /\ control' = IF control[r].liveToken = host[r].token
                THEN [control EXCEPT ![r] = Ended(r, @)] ELSE control
  /\ exec' = [exec EXCEPT ![r].phase = "drained"]
  /\ UNCHANGED <<requests, acquired, items, drainSeq, generationSeq, gate, driverVars,
                 storeVars, host, historyVars>>

DrainOutcome(r) == IF exec[r].interrupted THEN "interrupt" ELSE host[r].exit

\* After a drain: again if the doorbell rang meanwhile ...
LoopAgain(r) ==
  /\ exec[r].phase = "drained"
  /\ DrainOutcome(r) = "success"
  /\ ~exec[r].stopping
  /\ exec[r].pendingWake # "none"
  /\ exec' = [exec EXCEPT ![r].phase = "loop", ![r].scope = exec[r].pendingWake,
                          ![r].pendingWake = "none"]
  /\ UNCHANGED <<requests, acquired, inboxVars, driverVars, storeVars, host, historyVars>>

\* ... otherwise the owner is done.
LoopEnds(r) ==
  /\ exec[r].phase = "drained"
  /\ \/ DrainOutcome(r) # "success"
     \/ exec[r].stopping
     \/ exec[r].pendingWake = "none"
  /\ Leave(r, DrainOutcome(r))
  /\ UNCHANGED historyVars

\* `settled` released the claim and forgot its resumes.
ReleaseSaved(r) ==
  /\ exec[r].phase = "releasing"
  /\ exec' = [exec EXCEPT ![r].phase = "settled"]
  /\ claimed' = claimed \ {r}
  /\ resumes' = [resumes EXCEPT ![r] = 0]
  /\ UNCHANGED <<requests, acquired, inboxVars, driverVars, host, historyVars>>

\* The release's save dies: the claim stays, and settlement goes on.
ReleaseFails(r) ==
  /\ exec[r].phase = "releasing"
  /\ exec' = [exec EXCEPT ![r].phase = "settled"]
  /\ stopped' = [stopped EXCEPT ![r] = FALSE]
  /\ UNCHANGED <<requests, acquired, inboxVars, driverVars, storeVars, host, owed, served>>

\* Faulty: joiners are left waiting when the execution did not stop by request.
ReleasedWaiters(r, cl) ==
  IF cl.run # r \/ cl.at # "stopping" THEN cl ELSE [cl EXCEPT !.at = "retry"]

\* Completing `done`: joiners return, those that waited out a stop try again.
Released(r, cl) ==
  IF cl.run # r \/ cl.at = "retry" THEN cl
  ELSE IF cl.at = "joined" THEN Idle ELSE [cl EXCEPT !.at = "retry"]

\* Requests outstanding for r's owner are for an owner that is gone.
Outdated(r) ==
  {q \in requests : q.run # r}
    \cup {[run |-> r, owner |-> "gone"] : q \in {p \in requests : p.run = r}}

\* Faulty: settlement forgets the doorbell.
SuccessorNever(e) == NoExec

Successor(e) == IF e.pendingWake = "none" THEN NoExec ELSE Started(e.pendingWake)

\* settle: a doorbell rung since starts a successor in the same step.
Settle(r) ==
  /\ exec[r].phase = "settled"
  /\ exec' = [exec EXCEPT ![r] = Successor(@)]
  /\ stopped' = [stopped EXCEPT ![r] = @ /\ exec[r].pendingWake = "none"]
  /\ caller' = [c \in Callers |-> Released(r, caller[c])]
  /\ requests' = Outdated(r)
  /\ host' = [host EXCEPT ![r] = NoDrain]
  /\ UNCHANGED <<acquired, inboxVars, sweep, storeVars, owed, served>>

-----------------------------------------------------------------------------
(* Interruption. *)

Request(r) == [run |-> r, owner |-> "current"]

\* Driver.interrupt: not under the gate, and the inbox keeps its items and its
\* pending intent. Nothing happens to an execution that is already stopping; one
\* that is settling only loses its doorbell.
Interrupt(r, reason) ==
  /\ Active(r)
  /\ ~exec[r].stopping
  /\ IF exec[r].phase \in Owned
     THEN /\ exec' = [exec EXCEPT ![r].stopping = TRUE, ![r].pendingWake = "none",
                                  ![r].reason = reason]
          /\ requests' = requests \cup {Request(r)}
     ELSE /\ exec' = [exec EXCEPT ![r].pendingWake = "none"]
          /\ UNCHANGED requests
  /\ owed' = [owed EXCEPT ![r] = "none"]
  /\ UNCHANGED <<acquired, inboxVars, driverVars, storeVars, host, stopped, served>>

\* Faulty: the request interrupts whichever owner the run has by then.
TargetsAnyOwner(q) == exec[q.run].phase \in Owned

\* The request was forked for one owner and interrupts no other; its uninterruptible
\* finalizers are not disturbed.
TargetsOwner(q) == q.owner = "current" /\ exec[q.run].phase \in Owned

\* The request fiber's turn: owner.interruptUnsafe().
DeliverRequest(q) ==
  /\ q \in requests
  /\ requests' = requests \ {q}
  /\ exec' = IF TargetsOwner(q) THEN [exec EXCEPT ![q.run].interrupted = TRUE] ELSE exec
  /\ UNCHANGED <<acquired, inboxVars, driverVars, storeVars, host, historyVars>>

-----------------------------------------------------------------------------
(* Driver.stop: invalidate, holding the gate until the owner's interruption *)
(* is delivered or the leftover claim is released.                          *)

\* terminalStop on an execution.
TerminallyStopped(e) ==
  IF e.phase \in Owned
  THEN [e EXCEPT !.stopping = TRUE, !.pendingWake = "none", !.reason = "user"]
  ELSE [e EXCEPT !.stopping = TRUE, !.pendingWake = "none"]

\* Faulty: only an idle run's leftover claim is released.
ReleasesLeftoverIdle(r) == ~Active(r) /\ r \in claimed

\* The claim invalidate itself releases: no owner is left to do it.
ReleasesLeftover(r) == exec[r].phase \notin Owned /\ r \in claimed

Stop(r) ==
  /\ GateFree
  /\ items' = [items EXCEPT ![r] = <<>>]
  /\ control' = [control EXCEPT ![r] = emptyControl]
  /\ exec' = IF Active(r) THEN [exec EXCEPT ![r] = TerminallyStopped(@)] ELSE exec
  /\ requests' = IF exec[r].phase \in Owned /\ ~exec[r].stopping
                 THEN requests \cup {Request(r)} ELSE requests
  /\ gate' = IF exec[r].phase \in Owned THEN [op |-> "stop", run |-> r]
             ELSE IF ReleasesLeftover(r) THEN [op |-> "stopRelease", run |-> r]
             ELSE FreeGate
  /\ owed' = [owed EXCEPT ![r] = "none"]
  /\ stopped' = [stopped EXCEPT ![r] = TRUE]
  /\ UNCHANGED <<acquired, drainSeq, generationSeq, driverVars, storeVars, host, served>>

\* Faulty: stop returns without joining the request.
RequestJoinedEarly(r) == TRUE

\* Faulty: stop waits for the owner to settle.
RequestJoinedSettled(r) == ~Active(r)

\* Fiber.join(request): delivered, not settled.
RequestJoined(r) == \A q \in requests : q.run # r

StopJoined(r) ==
  /\ GateHeld("stop", r)
  /\ RequestJoined(r)
  /\ gate' = FreeGate
  /\ UNCHANGED <<coordinatorVars, items, control, drainSeq, generationSeq, driverVars,
                 storeVars, host, historyVars>>

StopReleaseSaved(r) ==
  /\ GateHeld("stopRelease", r)
  /\ claimed' = claimed \ {r}
  /\ resumes' = [resumes EXCEPT ![r] = 0]
  /\ gate' = FreeGate
  /\ UNCHANGED <<coordinatorVars, items, control, drainSeq, generationSeq, driverVars,
                 host, historyVars>>

\* The save dies: stop fails, the claim stays.
StopReleaseFails(r) ==
  /\ GateHeld("stopRelease", r)
  /\ gate' = FreeGate
  /\ stopped' = [stopped EXCEPT ![r] = FALSE]
  /\ UNCHANGED <<coordinatorVars, items, control, drainSeq, generationSeq, driverVars,
                 storeVars, host, owed, served>>

-----------------------------------------------------------------------------
(* The host's drain, and answers to its questions. A drain may leave fibers *)
(* behind: any token handed out may be presented again.                     *)

\* Faulty: any token that was handed out is good.
MayUseAny(r, token) == token \in 1..drainSeq

\* takePromotable and park accept the live drain's token only.
MayUse(r, token) == control[r].liveToken = token

\* takePromotable: the oldest item the scope may take.
Take(r, scope, token) ==
  /\ GateFree
  /\ MayUse(r, token)
  /\ \E i \in 1..Len(items[r]) :
       /\ isPromotableAt(items[r][i], scope)
       /\ \A j \in 1..(i - 1) : ~isPromotableAt(items[r][j], scope)
       /\ items' = [items EXCEPT ![r] = SubSeq(@, 1, i - 1) \o SubSeq(@, i + 1, Len(@))]
  /\ UNCHANGED <<coordinatorVars, control, drainSeq, generationSeq, gate, driverVars,
                 storeVars, host, historyVars>>

\* Driver.pause: a new generation replaces whatever park there was.
Pause(r, requestIds, token) ==
  /\ GateFree
  /\ MayUse(r, token)
  /\ generationSeq' = generationSeq + 1
  /\ control' = [control EXCEPT ![r].park =
                   [generation |-> generationSeq + 1, requestIds |-> requestIds,
                    responses |-> {}, readyWoken |-> FALSE]]
  /\ UNCHANGED <<coordinatorVars, items, drainSeq, gate, driverVars, storeVars, host,
                 historyVars>>

\* acceptHitlPure, its Accepted and Ready decisions; any other changes nothing.
Admissible(park, itemId, requestId) ==
  /\ requestId \in park.requestIds
  /\ \A a \in park.responses : a.itemId # itemId /\ a.requestId # requestId
  /\ ~park.readyWoken

Answered(park, itemId, requestId) ==
  [park EXCEPT !.responses = @ \cup {[itemId |-> itemId, requestId |-> requestId]}]

\* Driver.resumeHitl with the current generation. The last answer makes the
\* park Ready, records an input intent and wakes the run.
ResumeHitl(r, itemId, requestId) ==
  LET park == Answered(control[r].park, itemId, requestId) IN
  /\ GateFree
  /\ Admissible(control[r].park, itemId, requestId)
  /\ IF parkComplete(park)
     THEN /\ control' = [control EXCEPT ![r].park = [park EXCEPT !.readyWoken = TRUE],
                                        ![r].pending = widerScope(@, "input")]
          /\ exec' = [exec EXCEPT ![r] = Rung(@, "input")]
          /\ owed' = [owed EXCEPT ![r] = "input"]
          /\ stopped' = [stopped EXCEPT ![r] = @ /\ Active(r)]
     ELSE /\ control' = [control EXCEPT ![r].park = park]
          /\ UNCHANGED <<exec, owed, stopped>>
  /\ UNCHANGED <<requests, acquired, items, drainSeq, generationSeq, gate, driverVars,
                 storeVars, host, served>>

\* clearPark with the current generation. It wakes nobody: what the park held
\* back waits for the next wake, and is no longer owed.
ClearPark(r) ==
  /\ GateFree
  /\ control[r].park # NoPark
  /\ control' = [control EXCEPT ![r].park = NoPark]
  /\ owed' = [owed EXCEPT ![r] = IF Blocked(r) THEN "none" ELSE @]
  /\ UNCHANGED <<coordinatorVars, items, drainSeq, generationSeq, gate, driverVars,
                 storeVars, host, stopped, served>>

-----------------------------------------------------------------------------
(* resumeSuspended: one sweep at a time over the runs claimed when it began; *)
(* each candidate is decided and charged while the gate is held.             *)

SweepStarts ==
  /\ sweep = {}
  /\ claimed # {}
  /\ sweep' = claimed
  /\ UNCHANGED <<coordinatorVars, inboxVars, caller, storeVars, host, historyVars>>

\* Faulty: a live owner's claim is taken for an orphan's.
RecoverableIfClaimed(r) == ~Blocked(r) /\ r \in claimed

\* The candidate is still an orphan: not parked, not active, still claimed.
Recoverable(r) == ~Blocked(r) /\ ~Active(r) /\ r \in claimed

SweepSkips(r) ==
  /\ GateFree
  /\ r \in sweep
  /\ ~Recoverable(r)
  /\ sweep' = sweep \ {r}
  /\ UNCHANGED <<coordinatorVars, inboxVars, caller, storeVars, host, historyVars>>

\* Faulty: the budget is checked one resume late.
ExhaustedLate(r) == resumes[r] > MaxResumeAttempts

Exhausted(r) == resumes[r] >= MaxResumeAttempts

\* The candidate is decided; its release or increment is being saved.
SweepDecides(r) ==
  /\ GateFree
  /\ r \in sweep
  /\ Recoverable(r)
  /\ gate' = [op |-> IF Exhausted(r) THEN "exhaust" ELSE "resume", run |-> r]
  /\ UNCHANGED <<coordinatorVars, items, control, drainSeq, generationSeq, driverVars,
                 storeVars, host, historyVars>>

SweepExhausts(r) ==
  /\ GateHeld("exhaust", r)
  /\ claimed' = claimed \ {r}
  /\ resumes' = [resumes EXCEPT ![r] = 0]
  /\ sweep' = sweep \ {r}
  /\ gate' = FreeGate
  /\ UNCHANGED <<coordinatorVars, items, control, drainSeq, generationSeq, caller, host,
                 historyVars>>

SweepResumes(r) ==
  /\ GateHeld("resume", r)
  /\ resumes' = [resumes EXCEPT ![r] = @ + 1]
  /\ Ring(r, "input")
  /\ sweep' = sweep \ {r}
  /\ gate' = FreeGate
  /\ UNCHANGED <<items, drainSeq, generationSeq, caller, claimed, host>>

\* The save dies: the sweep ends with the defect.
SweepFails(r) ==
  /\ GateHeld("exhaust", r) \/ GateHeld("resume", r)
  /\ sweep' = {}
  /\ gate' = FreeGate
  /\ UNCHANGED <<coordinatorVars, items, control, drainSeq, generationSeq, caller,
                 storeVars, host, historyVars>>

\* The sweep is interrupted between candidates, or while it waits for the gate.
SweepCancelled ==
  /\ sweep # {}
  /\ gate.op \notin {"exhaust", "resume"}
  /\ sweep' = {}
  /\ UNCHANGED <<coordinatorVars, inboxVars, caller, storeVars, host, historyVars>>

-----------------------------------------------------------------------------
\* The process dies. Only the store's snapshot is left.
Crash ==
  /\ exec' = [r \in Runs |-> NoExec]
  /\ requests' = {}
  /\ acquired' = {}
  /\ items' = [r \in Runs |-> <<>>]
  /\ control' = [r \in Runs |-> emptyControl]
  /\ drainSeq' = 0
  /\ generationSeq' = 0
  /\ gate' = FreeGate
  /\ sweep' = {}
  /\ caller' = [c \in Callers |-> Idle]
  /\ host' = [r \in Runs |-> NoDrain]
  /\ owed' = [r \in Runs |-> "none"]
  /\ stopped' = [r \in Runs |-> FALSE]
  /\ served' = [r \in Runs |-> 0]
  /\ UNCHANGED storeVars

\* One step of the owner fiber that the code itself takes.
OwnerStep(r) ==
  \/ ClaimStarts(r)
  \/ ClaimSaved(r)
  \/ ClaimFails(r)
  \/ Unwind(r)
  \/ LoopStops(r)
  \/ LoopDrains(r)
  \/ LoopAgain(r)
  \/ LoopEnds(r)
  \/ ReleaseSaved(r)
  \/ ReleaseFails(r)
  \/ Settle(r)

\* One step of the owner fiber for which it queues at the gate.
OwnerGateStep(r) == SkipDrain(r) \/ BeginDrain(r) \/ EndDrain(r)

HostReturns(r) == \E exit \in Exits : DrainExit(r, exit)

\* One step of the fiber that holds the gate across a suspension.
GateStep(r) ==
  \/ StopJoined(r)
  \/ StopReleaseSaved(r)
  \/ StopReleaseFails(r)
  \/ SweepExhausts(r)
  \/ SweepResumes(r)
  \/ SweepFails(r)

SweepStep(r) == SweepSkips(r) \/ SweepDecides(r)

\* What the harness does by itself once called.
System ==
  \/ \E r \in Runs :
       OwnerStep(r) \/ OwnerGateStep(r) \/ HostReturns(r) \/ GateStep(r) \/ SweepStep(r)
  \/ \E q \in requests : DeliverRequest(q)
  \/ \E c \in Callers : RetryRun(c)
  \/ \E r \in Runs, scope \in Scopes, token \in 1..drainSeq : Take(r, scope, token)

\* Calls from outside: users, hosts, the platform.
Environment ==
  \/ \E r \in Runs, s \in Scopes : Admit(r, s) \/ Enqueue(r, s) \/ Wake(r, s)
  \/ \E c \in Callers, r \in Runs : Run(c, r)
  \/ \E c \in Callers : CancelRun(c)
  \/ \E r \in Runs, reason \in {"user", "shutdown"} : Interrupt(r, reason)
  \/ \E r \in Runs : Stop(r) \/ ClearPark(r)
  \/ \E r \in Runs, ids \in SUBSET Requests, token \in 1..drainSeq : Pause(r, ids, token)
  \/ \E r \in Runs, a \in Answers, q \in Requests : ResumeHitl(r, a, q)
  \/ SweepStarts
  \/ SweepCancelled
  \/ Crash

Next == System \/ Environment

Spec == Init /\ [][Next]_vars

\* Every fiber that can run is scheduled, saves answer, host drains end, and the
\* gate serves its waiters in order.
Fairness ==
  /\ \A r \in Runs :
       /\ WF_vars(OwnerStep(r))
       /\ SF_vars(OwnerGateStep(r))
       /\ WF_vars(HostReturns(r))
       /\ WF_vars(GateStep(r))
       /\ SF_vars(SweepStep(r))
       /\ WF_vars(\E q \in requests : q.run = r /\ DeliverRequest(q))
  /\ \A c \in Callers : SF_vars(RetryRun(c))

FairSpec == Spec /\ Fairness

-----------------------------------------------------------------------------
(* Safety. *)

\* What the harness asks of its RunStore: the atomic record that RunStore.tla
\* implements through its lock and its saves.
Claims == INSTANCE ClaimStore WITH stored <- [claimed |-> claimed, resumes |-> resumes]

\* The coordinator, the driver and a stop change the claims and counts by
\* whole operations of the store, and a crash changes neither.
KeepsToStore == Claims!Spec

\* The live drain token is the one the run's owner fiber gave its host drain, and
\* no drain is live outside that owner's drain: at most one drain per run may
\* take items or park (takePromotable, park, endDrain).
LiveTokenIsOwners ==
  \A r \in Runs : control[r].liveToken # 0 =>
    /\ exec[r].phase \in {"draining", "ending"}
    /\ control[r].liveToken = host[r].token

\* Work never runs unclaimed: while an owner is past its start the run's claim is
\* durable, so a crash at any point of a drain leaves it to resumeSuspended. No
\* stop, settlement or sweep releases the claim of a live owner.
ClaimCoversDrain == \A r \in Runs : exec[r].phase \in Acquired => r \in claimed

\* No wake is lost: an intent admitted since the run was last interrupted, stopped
\* or failed to start is blocked by an unanswered park, or an owner that has not
\* begun its drain will serve it, or the doorbell holds it. (enqueueAndWake,
\* wake, the loop's check, settle's successor.)
DoorbellKept ==
  \A r \in Runs :
    \/ Blocked(r)
    \/ Covers(exec[r].pendingWake, owed[r])
    \/ exec[r].phase \in {"forked", "claiming", "loop", "begin"}
         /\ Covers(exec[r].scope, owed[r])

\* An interruption request stops the owner it was made for: a delayed one never
\* interrupts the successor that settle started.
InterruptHitsItsOwner == \A r \in Runs : exec[r].interrupted => exec[r].stopping

\* Driver.stop is final for the owner it captured: from the moment stop empties
\* the inbox until a new execution starts, no drain of the run is live, so what
\* is admitted after the stop is taken by a successor only.
StoppedHasNoAuthority == \A r \in Runs : stopped[r] => control[r].liveToken = 0

\* Tokens of earlier drains do nothing, however late they are presented: items are
\* taken and parks made only inside the drain whose token it is, never for an
\* owner that was stopped (leaked host fibers, calls that waited for the gate).
StaleTokensDoNothing ==
  [][\A r \in Runs, token \in 1..drainSeq :
       (\E s \in Scopes : Take(r, s, token)) \/ (\E ids \in SUBSET Requests : Pause(r, ids, token))
       => /\ exec[r].phase \in {"draining", "ending"}
          /\ host[r].token = token
          /\ ~stopped[r]]_vars

\* A user's stop is terminal for the claim too, at the captured owner's
\* settlement: once nothing of the run is left it is not claimed, whatever
\* shutdowns, failed starts or releases raced with the stop (and if no release
\* failed to save), so no sweep resumes it.
StopReleasesClaim ==
  \A r \in Runs : stopped[r] /\ ~Active(r) /\ gate.run # r => r \notin claimed

\* The sweep charges nobody beyond the budget, and the count it reads is the one
\* the increment applies to.
WithinResumeBudget == \A r \in Runs : resumes[r] <= MaxResumeAttempts

\* resumeSuspended resumes orphans only: at the moment the charge is saved (after
\* a decision made earlier, under the gate) the run is still claimed, has no
\* owner and waits for no answer.
ResumesOnlyOrphans ==
  [][\A r \in Runs : resumes'[r] > resumes[r] =>
       r \in claimed /\ ~Active(r) /\ ~Blocked(r)]_vars

\* Answers are served once: when a host drain was given the answers of a park and
\* returned, no later drain of the process is given them again, nor those of an
\* earlier park, whatever wakes, pauses, stops and repeated answers came between
\* (beginDrain, endDrain, resumeHitl).
AnswersServedOnce ==
  [][\A r \in Runs : exec[r].phase = "begin" /\ exec'[r].phase = "draining" =>
       host'[r].given = 0 \/ host'[r].given > served[r]]_vars

\* Answers are delivered at least once: the end of a drain drops a park only if
\* that drain was given its answers and succeeded. A drain that parks again, dies
\* or is interrupted keeps the park for the next one.
AnswersKeptUntilDrained ==
  [][\A r \in Runs :
       exec[r].phase = "ending" /\ exec'[r].phase = "drained"
         /\ control[r].park # NoPark /\ control'[r].park = NoPark
       => /\ host[r].exit = "success"
          /\ host[r].given = control[r].park.generation]_vars

-----------------------------------------------------------------------------
(* Liveness, under Fairness. *)

\* An admitted intent is drained, unless it is cancelled or waits for answers.
IntentIsServed ==
  \A r \in Runs : owed[r] # "none" ~> (owed[r] = "none" \/ Blocked(r))

\* Driver.stop returns although it holds the gate its owner's endDrain needs,
\* and so does Driver.run: a joiner's execution settles, and a caller that met
\* a stopping owner starts or joins a successor that settles.
CallersReturn ==
  /\ \A r \in Runs : GateHeld("stop", r) ~> ~GateHeld("stop", r)
  /\ \A c \in Callers : caller[c] # Idle ~> caller[c] = Idle
=============================================================================
