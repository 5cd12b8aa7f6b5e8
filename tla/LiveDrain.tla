----------------------------- MODULE LiveDrain -----------------------------
(***************************************************************************)
(* makeLiveDrain and makeDrainOccupancy of the Cloudflare agent: the one   *)
(* drain of a session's Durable Object, owned by the websocket call that   *)
(* started it. A start prepares (it loads the log and the tools), registers *)
(* under the gate and awaits its run; a reconnect interrupts the owner,    *)
(* waits for it and finalizes the log; a closing socket interrupts the     *)
(* owner if it is its own. Everyone who ends a run waits, holding the gate, *)
(* until the driver has settled it, and releases the owner in a later      *)
(* turn. A start whose caller is interrupted while it waits for the gate   *)
(* is admitted all the same; it then neither awaits nor interrupts its run *)
(* but deserts it: it is no longer the owner while the run goes on. The    *)
(* driver is external: one execution at a time, which later calls of run   *)
(* join or, once it has been told to stop, wait for; it settles some time  *)
(* after that, and its callers are resumed later still.                    *)
(***************************************************************************)
EXTENDS Naturals

CONSTANTS Starts,        \* runOwned calls; each is its own token
          Sockets,
          SocketOf,      \* the socket of each start
          Reconnects,    \* reconnect calls
          Closes,        \* closeOwner calls
          ClosedSocket,  \* the socket each of them closes
          None

ASSUME SocketOfAssumption == SocketOf \in [Starts -> Sockets]
ASSUME ClosedSocketAssumption == ClosedSocket \in [Closes -> Sockets]
ASSUME NoneAssumption == None \notin Starts \cup Reconnects \cup Closes
ASSUME CallsAssumption ==
  /\ Starts \cap Reconnects = {}
  /\ Starts \cap Closes = {}
  /\ Reconnects \cap Closes = {}

VARIABLES gate,         \* who holds it across a suspension
          epoch,        \* bumped by every reconnect
          generation,   \* reconnectGeneration
          reconnecting,
          slot,         \* the occupancy: whose work the driver's drain runs
          owner,        \* liveOwner
          execution,    \* the driver's execution of the session
          work,         \* whose work its drain runs
          run,          \* the driver.run forked for each start
          failed,       \* whether it ended in a defect
          start,        \* where each runOwned is, and the epoch it prepared in
          recon,        \* where each reconnect is, its generation and what it captured
          close         \* where each closeOwner is and what it captured

vars == <<gate, epoch, generation, reconnecting, slot, owner, execution, work,
          run, failed, start, recon, close>>

driver == <<execution, work, run, failed>>
ownership == <<slot, owner>>
admission == <<epoch, generation, reconnecting>>

Tokens == Starts \cup {None}

Executions == {"idle", "starting", "working", "interrupted"}

\* behind: waiting for an execution that has been told to stop.
RunPhases == {"none", "behind", "running", "settled", "done"}

\* doomed: interrupted at the gate, which it goes on waiting for.
StartPhases == {"idle", "prepared", "doomed", "awaiting", "cancelling", "settling",
                "joining", "releasing", "gone", "deserting", "deserted"}

ReconPhases == {"idle", "settling", "awaiting", "finalizing", "clearing", "gone"}

ClosePhases == {"idle", "settling", "awaiting", "releasing", "gone"}

TypeOK ==
  /\ gate \in Starts \cup Reconnects \cup Closes \cup {None}
  /\ epoch \in Nat
  /\ generation \in Nat
  /\ reconnecting \in BOOLEAN
  /\ slot \in Tokens
  /\ owner \in Tokens
  /\ execution \in Executions
  /\ work \in Tokens
  /\ run \in [Starts -> RunPhases]
  /\ failed \in [Starts -> BOOLEAN]
  /\ start \in [Starts -> [pc : StartPhases, epoch : Nat]]
  /\ recon \in [Reconnects -> [pc : ReconPhases, generation : Nat, captured : Tokens]]
  /\ close \in [Closes -> [pc : {"idle", "gone"}, captured : Tokens]
                          \cup [pc : ClosePhases, captured : Starts]]

Init ==
  /\ gate = None
  /\ epoch = 0
  /\ generation = 0
  /\ reconnecting = FALSE
  /\ slot = None
  /\ owner = None
  /\ execution = "idle"
  /\ work = None
  /\ run = [s \in Starts |-> "none"]
  /\ failed = [s \in Starts |-> FALSE]
  /\ start = [s \in Starts |-> [pc |-> "idle", epoch |-> 0]]
  /\ recon = [r \in Reconnects |-> [pc |-> "idle", generation |-> 0, captured |-> None]]
  /\ close = [c \in Closes |-> [pc |-> "idle", captured |-> None]]

-----------------------------------------------------------------------------
\* The driver.

\* Faulty: an execution that has not begun its drain is not interrupted.
InterruptibleWorking == execution = "working"

Interruptible == execution \in {"starting", "working"}

\* userInterrupt's first half: the execution in progress, whosever it is, is
\* told to stop. The caller then waits for that execution to settle.
InterruptDriver == execution' = IF Interruptible THEN "interrupted" ELSE execution

\* The owner fiber is past its first yield and its claim: the drain runs the
\* work it finds. An interruption may be on its way and not have reached it (it
\* does before whoever waits for the gate can occupy the slot).
DrainStarts ==
  /\ work = None
  /\ \/ execution = "starting"
     \/ execution = "interrupted" /\ slot # None /\ run[slot] = "running"
  /\ execution' = IF execution = "starting" THEN "working" ELSE execution
  /\ work' = slot
  /\ UNCHANGED <<gate, admission, ownership, run, failed, start, recon, close>>

\* Runs that wait for the execution in progress to settle.
Behind == {s \in Starts : run[s] = "behind"}

\* The execution settles: its drain returned, it was interrupted, or the
\* claim, the work or the release died. The runs behind it start another.
Settles ==
  /\ execution # "idle"
  /\ execution' = IF Behind = {} THEN "idle" ELSE "starting"
  /\ work' = None
  /\ run' = [s \in Starts |-> CASE run[s] = "running" -> "settled"
                               [] run[s] = "behind"  -> "running"
                               [] OTHER              -> run[s]]
  /\ \E f \in BOOLEAN :
       failed' = [s \in Starts |-> IF run[s] = "running" THEN f ELSE failed[s]]
  /\ UNCHANGED <<gate, admission, ownership, start, recon, close>>

\* The detached fiber that joined the execution completes `done`.
CompletesDone(s) ==
  /\ run[s] = "settled"
  /\ run' = [run EXCEPT ![s] = "done"]
  /\ UNCHANGED <<gate, admission, ownership, execution, work, failed, start, recon, close>>

-----------------------------------------------------------------------------
\* runOwned.

\* Faulty: the epoch is not compared.
AdmitsAnyEpoch(s) == ~reconnecting

\* admitUnderGate: neither a reconnect since s prepared nor one in progress.
Admits(s) == start[s].epoch = epoch /\ ~reconnecting

\* beginPrepare.
Prepare(s) ==
  /\ start[s].pc = "idle"
  /\ start' = [start EXCEPT ![s] = [pc |-> "prepared", epoch |-> epoch]]
  /\ UNCHANGED <<gate, admission, ownership, driver, recon, close>>

\* Faulty: the occupancy lets a second start in.
VacantAlways == TRUE

\* occupy's check.
Vacant == slot = None

\* The caller of runOwned is interrupted while s waits for the gate, which it
\* does uninterruptibly.
CancelQueued(s) ==
  /\ start[s].pc = "prepared"
  /\ gate # None
  /\ start' = [start EXCEPT ![s].pc = "doomed"]
  /\ UNCHANGED <<gate, admission, ownership, driver, recon, close>>

\* registerUnderGate turns s away: Stale or Conflict.
Reject(s) ==
  /\ start[s].pc \in {"prepared", "doomed"}
  /\ gate = None
  /\ ~Admits(s) \/ ~Vacant
  /\ start' = [start EXCEPT ![s].pc = "gone"]
  /\ UNCHANGED <<gate, admission, ownership, driver, recon, close>>

\* registerUnderGate accepts s: it occupies the slot, forks the driver's run,
\* which starts an execution, joins one, or waits behind one that is to stop,
\* before it first waits, and becomes the owner. `restore` lets the interruption
\* of a doomed start through before its handler is there: what is left for it
\* is its casRelease.
Register(s) ==
  /\ start[s].pc \in {"prepared", "doomed"}
  /\ gate = None
  /\ Admits(s) /\ Vacant
  /\ slot' = s
  /\ owner' = s
  /\ run' = [run EXCEPT ![s] = IF execution = "interrupted" THEN "behind" ELSE "running"]
  /\ execution' = IF execution = "idle" THEN "starting" ELSE execution
  /\ start' = [start EXCEPT ![s].pc = IF @ = "doomed" THEN "deserting" ELSE "awaiting"]
  /\ UNCHANGED <<gate, admission, work, failed, recon, close>>

\* The caller of runOwned is interrupted while it awaits its run.
Cancel(s) ==
  /\ start[s].pc = "awaiting"
  /\ start' = [start EXCEPT ![s].pc = "cancelling"]
  /\ UNCHANGED <<gate, admission, ownership, driver, recon, close>>

\* Faulty: a cancelled start interrupts without looking whose run it is.
IsOwnerAny(s) == owner # None

\* interruptIfToken's and casRelease's check.
IsOwner(s) == owner = s

\* interruptIfToken for a cancelled start.
CancelInterrupts(s) ==
  /\ start[s].pc = "cancelling"
  /\ gate = None
  /\ IF IsOwner(s)
     THEN /\ InterruptDriver
          /\ gate' = s
          /\ start' = [start EXCEPT ![s].pc = "settling"]
     ELSE /\ start' = [start EXCEPT ![s].pc = "releasing"]
          /\ UNCHANGED <<gate, execution>>
  /\ UNCHANGED <<admission, ownership, work, run, failed, recon, close>>

CancelSettled(s) ==
  /\ start[s].pc = "settling"
  /\ execution # "interrupted"
  /\ gate' = None
  /\ start' = [start EXCEPT ![s].pc = "joining"]
  /\ UNCHANGED <<admission, ownership, driver, recon, close>>

\* Faulty: a run that died is never released.
MayReleaseUnlessFailed(s) ==
  start[s].pc \in {"awaiting", "joining"} /\ run[s] = "done" /\ ~failed[s]

\* Faulty: a cancelled start does not wait for the run's fiber.
MayReleaseOnceCancelled(s) ==
  \/ start[s].pc = "awaiting" /\ run[s] = "done"
  \/ start[s].pc = "joining"

\* `done` is complete: awaited by the caller, or by its cancellation.
MayRelease(s) == start[s].pc \in {"awaiting", "joining"} /\ run[s] = "done"

RunJoined(s) ==
  /\ MayRelease(s)
  /\ start' = [start EXCEPT ![s].pc = "releasing"]
  /\ UNCHANGED <<gate, admission, ownership, driver, recon, close>>

\* releaseIf and the owner's removal; t is a token the caller knows.
Released(t) ==
  IF IsOwner(t)
  THEN /\ slot' = IF slot = t THEN None ELSE slot
       /\ owner' = None
  ELSE UNCHANGED ownership

\* casRelease by the start itself, be its run over or deserted.
StartReleases(s) ==
  /\ start[s].pc \in {"releasing", "deserting"}
  /\ gate = None
  /\ Released(s)
  /\ start' = [start EXCEPT ![s].pc = IF @ = "deserting" THEN "deserted" ELSE "gone"]
  /\ UNCHANGED <<gate, admission, driver, recon, close>>

-----------------------------------------------------------------------------
\* reconnect.

\* Faulty: a reconnect that finds nobody to interrupt closes no admission.
ClosesAdmissionIfOwned == owner # None

ClosesAdmission == TRUE

\* Faulty: a reconnect keeps the generation before its own.
TakesGenerationBefore == generation

TakesGeneration == generation + 1

Capture(r) ==
  /\ recon[r].pc = "idle"
  /\ gate = None
  /\ generation' = generation + 1
  /\ epoch' = epoch + 1
  /\ reconnecting' = (ClosesAdmission \/ reconnecting)
  /\ IF owner # None
     THEN InterruptDriver /\ gate' = r
     ELSE UNCHANGED <<execution, gate>>
  /\ recon' = [recon EXCEPT ![r] =
       [pc |-> IF owner # None THEN "settling" ELSE "awaiting",
        generation |-> TakesGeneration,
        captured |-> owner]]
  /\ UNCHANGED <<ownership, work, run, failed, start, close>>

CaptureSettled(r) ==
  /\ recon[r].pc = "settling"
  /\ execution # "interrupted"
  /\ gate' = None
  /\ recon' = [recon EXCEPT ![r].pc = "awaiting"]
  /\ UNCHANGED <<admission, ownership, driver, start, close>>

\* Faulty: a reconnect goes on without waiting for the owner it captured.
OwnerJoinedAlways(t) == TRUE

\* awaitOwner: the captured run's fiber is over.
OwnerJoined(t) == t # None => run[t] = "done"

\* The run ended in something other than an interruption.
OwnerFailed(t) == t # None /\ failed[t]

Newest(r) == recon[r].generation = generation

\* The newest reconnect releases what it captured and finalizes the log.
Finalizes(r) ==
  /\ recon[r].pc = "awaiting"
  /\ OwnerJoined(recon[r].captured)
  /\ ~OwnerFailed(recon[r].captured)
  /\ gate = None
  /\ Newest(r)
  /\ IF recon[r].captured # None THEN Released(recon[r].captured) ELSE UNCHANGED ownership
  /\ gate' = r
  /\ recon' = [recon EXCEPT ![r].pc = "finalizing"]
  /\ UNCHANGED <<admission, driver, start, close>>

\* Faulty: a reconnect whose owner died does not get to its `ensuring`.
LeavesFinalized(r) ==
  /\ recon[r].pc = "awaiting"
  /\ OwnerJoined(recon[r].captured)
  /\ gate = None /\ ~Newest(r)

\* awaitOwner fails with the run it awaited, or r has been superseded.
Leaves(r) ==
  /\ recon[r].pc = "awaiting"
  /\ OwnerJoined(recon[r].captured)
  /\ \/ OwnerFailed(recon[r].captured)
     \/ gate = None /\ ~Newest(r)

\* A reconnect leaves for its `ensuring` without finalizing.
ReconnectLeaves(r) ==
  /\ Leaves(r)
  /\ recon' = [recon EXCEPT ![r].pc = "clearing"]
  /\ UNCHANGED <<gate, admission, ownership, driver, start, close>>

\* So it does when its caller is interrupted in the restored part.
ReconnectAbandoned(r) ==
  /\ recon[r].pc = "awaiting"
  /\ recon' = [recon EXCEPT ![r].pc = "clearing"]
  /\ UNCHANGED <<gate, admission, ownership, driver, start, close>>

\* The finalizer returns, dies or is interrupted.
FinalizeEnds(r) ==
  /\ recon[r].pc = "finalizing"
  /\ gate' = None
  /\ recon' = [recon EXCEPT ![r].pc = "clearing"]
  /\ UNCHANGED <<admission, ownership, driver, start, close>>

\* Faulty: an older reconnect opens the admission for a newer one.
OpensAlways(r) == TRUE

Opens(r) == recon[r].generation = generation

\* clearReconnectingIf.
Clears(r) ==
  /\ recon[r].pc = "clearing"
  /\ gate = None
  /\ reconnecting' = (reconnecting /\ ~Opens(r))
  /\ recon' = [recon EXCEPT ![r].pc = "gone"]
  /\ UNCHANGED <<gate, epoch, generation, ownership, driver, start, close>>

-----------------------------------------------------------------------------
\* closeOwner.

\* Faulty: any socket that closes ends the run in progress.
OwnsSocketAny(c) == owner # None

\* interruptIfSocket's check.
OwnsSocket(c) == owner # None /\ SocketOf[owner] = ClosedSocket[c]

CloseInterrupts(c) ==
  /\ close[c].pc = "idle"
  /\ gate = None
  /\ IF OwnsSocket(c)
     THEN /\ InterruptDriver
          /\ gate' = c
          /\ close' = [close EXCEPT ![c] = [pc |-> "settling", captured |-> owner]]
     ELSE /\ close' = [close EXCEPT ![c].pc = "gone"]
          /\ UNCHANGED <<gate, execution>>
  /\ UNCHANGED <<admission, ownership, work, run, failed, start, recon>>

CloseSettled(c) ==
  /\ close[c].pc = "settling"
  /\ execution # "interrupted"
  /\ gate' = None
  /\ close' = [close EXCEPT ![c].pc = "awaiting"]
  /\ UNCHANGED <<admission, ownership, driver, start, recon>>

\* awaitOwner: a run that died fails the close before its casRelease.
CloseJoined(c) ==
  /\ close[c].pc = "awaiting"
  /\ run[close[c].captured] = "done"
  /\ close' = [close EXCEPT ![c].pc =
       IF failed[close[c].captured] THEN "gone" ELSE "releasing"]
  /\ UNCHANGED <<gate, admission, ownership, driver, start, recon>>

CloseReleases(c) ==
  /\ close[c].pc = "releasing"
  /\ gate = None
  /\ Released(close[c].captured)
  /\ close' = [close EXCEPT ![c].pc = "gone"]
  /\ UNCHANGED <<gate, admission, driver, start, recon>>

\* The caller of closeOwner is interrupted; the interruption it has asked for is
\* not taken back.
CloseAbandoned(c) ==
  /\ close[c].pc \in {"settling", "awaiting", "releasing"}
  /\ gate' = IF gate = c THEN None ELSE gate
  /\ close' = [close EXCEPT ![c].pc = "gone"]
  /\ UNCHANGED <<admission, ownership, driver, start, recon>>

-----------------------------------------------------------------------------
Driver == DrainStarts \/ Settles \/ \E s \in Starts : CompletesDone(s)

RunOwned(s) ==
  \/ Prepare(s)
  \/ CancelQueued(s)
  \/ Reject(s)
  \/ Register(s)
  \/ Cancel(s)
  \/ CancelInterrupts(s)
  \/ CancelSettled(s)
  \/ RunJoined(s)
  \/ StartReleases(s)

Reconnect(r) ==
  \/ Capture(r)
  \/ CaptureSettled(r)
  \/ Finalizes(r)
  \/ ReconnectLeaves(r)
  \/ ReconnectAbandoned(r)
  \/ FinalizeEnds(r)
  \/ Clears(r)

CloseOwner(c) ==
  \/ CloseInterrupts(c)
  \/ CloseSettled(c)
  \/ CloseJoined(c)
  \/ CloseReleases(c)
  \/ CloseAbandoned(c)

Next ==
  \/ Driver
  \/ \E s \in Starts : RunOwned(s)
  \/ \E r \in Reconnects : Reconnect(r)
  \/ \E c \in Closes : CloseOwner(c)

Spec == Init /\ [][Next]_vars

\* Fibers that can go on do (the gate serves its waiters in turn, and each of
\* them comes a bounded number of times), an interrupted execution settles, a
\* finalizer ends. Nobody is made to start or to leave, and the work of an
\* agent's run, which nobody interrupted, may go on for ever.
Fairness ==
  /\ WF_vars(execution = "interrupted" /\ Settles)
  /\ \A s \in Starts :
       /\ WF_vars(CompletesDone(s))
       /\ WF_vars(Reject(s) \/ Register(s))
       /\ WF_vars(CancelInterrupts(s))
       /\ WF_vars(CancelSettled(s))
       /\ WF_vars(RunJoined(s))
       /\ WF_vars(StartReleases(s))
  /\ \A r \in Reconnects :
       /\ WF_vars(CaptureSettled(r))
       /\ WF_vars(Finalizes(r) \/ ReconnectLeaves(r))
       /\ WF_vars(FinalizeEnds(r))
       /\ WF_vars(Clears(r))
  /\ \A c \in Closes :
       /\ WF_vars(CloseSettled(c))
       /\ WF_vars(CloseJoined(c))
       /\ WF_vars(CloseReleases(c))

FairSpec == Spec /\ Fairness

-----------------------------------------------------------------------------
(* Those who use the session see one owner, its work and the admission.    *)

Fresh == {s \in Starts : start[s].pc \in {"prepared", "doomed"} /\ start[s].epoch = epoch}

Admission ==
  IF \E r \in Reconnects : recon[r].pc = "finalizing" THEN "finalizing"
  ELSE IF reconnecting THEN "closed" ELSE "open"

Stage ==
  IF owner = None THEN "none"
  ELSE IF run[owner] \notin {"behind", "running"} THEN "over"
  ELSE IF work = owner THEN "working" ELSE "waiting"

\* Admitted after its caller had gone.
Lost(s) == start[s].pc \in {"deserting", "deserted"}

OneOwner == INSTANCE SingleOwner
              WITH admission <- Admission, fresh <- Fresh, stage <- Stage,
                   lost <- {s \in Starts : Lost(s)}

\* With all its waits, tokens and generations the live drain is what SingleOwner
\* promises: who is admitted and when, who is at work and how often, who leaves
\* before that is over, and that the log is finalized in between.
ImplementsSingleOwner == OneOwner!Spec

\* The driver's run forked for s is not over.
InFlight(s) == run[s] \in {"behind", "running", "settled"}

\* One drain: whatever run of the driver has not reported is the owner's, unless
\* its caller was gone before it was admitted, and the occupancy is the owner's:
\* nobody else is released, and nobody admitted, before the run is over. The
\* driver executes for a run it was called for, and its drain runs the work of
\* one of those, not of the next start (it looks at the occupancy only when it
\* begins, some time after driver.run was called).
OneDrain ==
  /\ slot = owner
  /\ \A s \in Starts : InFlight(s) => owner = s \/ Lost(s)
  /\ execution # "idle" => \E s \in Starts : run[s] = "running"
  /\ work # None => run[work] = "running"

\* A reconnect finalizes the log alone: no owner, no start admitted meanwhile and
\* no run that has yet to report, but that of a start whose caller was gone
\* before it was admitted.
FinalizeAlone ==
  \A r \in Reconnects : recon[r].pc = "finalizing" =>
    /\ owner = None
    /\ \A s \in Starts : InFlight(s) => Lost(s)

\* Until the newest reconnect has finished admission stays closed: an older
\* one that comes late cannot open it.
NewestKeepsClosed ==
  \A r \in Reconnects :
    recon[r].pc \notin {"idle", "gone"} /\ Newest(r) => reconnecting

\* No start has been admitted after its caller had gone.
Attended == \A s \in Starts : ~Lost(s)

\* A run that a reconnect has not interrupted was prepared after it: a start
\* that loaded the log before a reconnect finalized it is never admitted. (A lost
\* start's run is not interrupted by a reconnect that finds no owner, nor is one
\* that waits behind a stopping execution whose socket's close was abandoned.)
NoRunOutlivesReconnect ==
  Attended /\ execution \in {"starting", "working"} =>
    owner # None /\ start[owner].epoch = epoch

\* An interruption reaches the run it was meant for: that of a cancelled start
\* or of a closed socket, or whatever a reconnect finds; never a successor.
InterruptsItsOwn ==
  [][Interruptible /\ execution' = "interrupted" =>
       \/ epoch' # epoch
       \/ start[owner].pc = "cancelling"
       \/ \E c \in Closes : close[c].pc = "idle" /\ close'[c].pc = "settling"
                          /\ ClosedSocket[c] = SocketOf[owner] ]_vars

\* After a lost start a run can wait behind a stopping execution while the gate
\* is free; an interruption then finds that execution and not the run's own.
RunEscapes == <>[](~Attended /\ execution \in {"starting", "working"})

\* Whoever ends a run returns, be it a reconnect, a cancelled start or a closed
\* socket, and an owner whose run is over leaves, whatever became of them.
EverybodyLeaves ==
  \/ RunEscapes
  \/ /\ \A r \in Reconnects : recon[r].pc # "idle" ~> recon[r].pc = "gone"
     /\ \A s \in Starts : start[s].pc = "cancelling" ~> start[s].pc = "gone"
     /\ \A c \in Closes : close[c].pc # "idle" ~> close[c].pc = "gone"
     /\ \A s \in Starts : owner = s /\ run[s] = "done" ~> owner # s

\* Admission reopens after every reconnect, also when the owner it awaited
\* died, its finalizer died or another reconnect superseded it.
AdmissionReopens == RunEscapes \/ (reconnecting ~> ~reconnecting)
=============================================================================
