-------------------------- MODULE LiveDrainProofs --------------------------
(***************************************************************************)
(* One owner, one drain, for any starts, sockets, reconnects and closes.   *)
(* The invariant adds what each fiber remembers across a suspension: that  *)
(* who releases has waited, that who suspends under the gate holds it, and *)
(* that the newest reconnect knows whoever is still owner.                 *)
(***************************************************************************)
EXTENDS LiveDrain, TLAPS

\* The execution is there for the runs that go on, the owner's among them unless
\* it has been told to stop; its work is one of theirs. Only lost starts let a run
\* fall behind it, and that of the owner with it.
RunsAreExecuted ==
  /\ execution = "idle" => \A s \in Starts : run[s] # "running"
  /\ execution \in {"idle", "starting"} => work = None
  /\ execution \in {"starting", "working"} /\ owner # None => run[owner] = "running"
  /\ execution # "interrupted" => Behind = {}
  /\ Behind # {} => ~Attended /\ (owner # None => run[owner] = "behind")

\* A start that is not registered has no run.
NoRunYet ==
  \A s \in Starts : start[s].pc \in {"idle", "prepared", "doomed"} => run[s] = "none"

\* Whoever is about to release an owner has seen its run done.
ReleasersWaited ==
  /\ \A s \in Starts : start[s].pc = "releasing" /\ owner = s => run[s] = "done"
  /\ \A c \in Closes : close[c].pc = "releasing" => run[close[c].captured] = "done"

\* Who suspends under the gate holds it.
GateIsHeld ==
  /\ \A s \in Starts : start[s].pc = "settling" => gate = s
  /\ \A r \in Reconnects : recon[r].pc \in {"settling", "finalizing"} => gate = r
  /\ \A c \in Closes : close[c].pc = "settling" => gate = c

\* Reconnects have generations of their own, none above the newest.
OwnGenerations ==
  \A r \in Reconnects : recon[r].pc # "idle" =>
    /\ recon[r].generation <= generation
    /\ \A q \in Reconnects :
         recon[q].pc # "idle" /\ recon[q].generation = recon[r].generation => q = r

\* The newest reconnect knows whoever is still owner.
OwnerIsCaptured ==
  \A r \in Reconnects :
    recon[r].pc \in {"settling", "awaiting"} /\ Newest(r) => owner \in {None, recon[r].captured}

IInv ==
  /\ TypeOK
  /\ OneDrain
  /\ RunsAreExecuted
  /\ NoRunYet
  /\ ReleasersWaited
  /\ GateIsHeld
  /\ OwnGenerations
  /\ NewestKeepsClosed
  /\ OwnerIsCaptured
  /\ FinalizeAlone
  /\ NoRunOutlivesReconnect

-----------------------------------------------------------------------------
\* The driver's steps. It executes for the owner and reports to it.
LEMMA DriverKeeps ==
  ASSUME IInv, Driver
  PROVE  IInv'
<1>. USE NoneAssumption, CallsAssumption
     DEF IInv, TypeOK, Tokens, Executions, RunPhases, StartPhases, ReconPhases,
         ClosePhases, admission, ownership, driver, OneDrain, InFlight,
         RunsAreExecuted, NoRunYet, ReleasersWaited, GateIsHeld, OwnGenerations,
         NewestKeepsClosed, Newest, OwnerIsCaptured, FinalizeAlone,
         NoRunOutlivesReconnect, Behind, Lost, Attended
\* The drain finds the owner's work: the occupancy is the owner's.
<1>1. CASE DrainStarts
  BY <1>1 DEF DrainStarts
\* Who was running has yet to report; those behind run in their turn, the owner
\* among them.
<1>2. CASE Settles
  <2>. USE <1>2 DEF Settles
  <2>1. /\ \A s \in Starts : run'[s] = "running" <=> run[s] = "behind"
        /\ \A s \in Starts : run'[s] # "behind"
        /\ \A s \in Starts : InFlight(s)' <=> InFlight(s)
        /\ \A s \in Starts : run'[s] \in {"none", "done"} => run'[s] = run[s]
        /\ \A s \in Starts : run[s] \in {"none", "done"} => run'[s] = run[s]
    OBVIOUS
  <2>2. TypeOK' /\ GateIsHeld'
    OBVIOUS
  <2>7. NoRunYet' /\ ReleasersWaited'
    BY <2>1
  <2>3. OneDrain'
    BY <2>1
  <2>4. RunsAreExecuted'
    BY <2>1
  <2>5. OwnGenerations' /\ NewestKeepsClosed' /\ OwnerIsCaptured' /\ FinalizeAlone'
    BY <2>1
  <2>6. NoRunOutlivesReconnect'
    OBVIOUS
  <2>. QED
    BY <2>2, <2>3, <2>4, <2>5, <2>6, <2>7
<1>3. ASSUME NEW s \in Starts, CompletesDone(s) PROVE IInv'
  BY <1>3 DEF CompletesDone
<1>. QED
  BY <1>1, <1>2, <1>3 DEF Driver

\* runOwned's steps.
LEMMA RunOwnedKeeps ==
  ASSUME IInv, NEW s \in Starts, RunOwned(s)
  PROVE  IInv'
<1>. USE NoneAssumption, CallsAssumption
     DEF IInv, TypeOK, Tokens, Executions, RunPhases, StartPhases, ReconPhases,
         ClosePhases, admission, ownership, driver, OneDrain, InFlight,
         RunsAreExecuted, NoRunYet, ReleasersWaited, GateIsHeld, OwnGenerations,
         NewestKeepsClosed, Newest, OwnerIsCaptured, FinalizeAlone,
         NoRunOutlivesReconnect, Behind, Lost, Attended
<1>1. CASE Prepare(s)
  BY <1>1 DEF Prepare
<1>2. CASE CancelQueued(s)
  BY <1>2 DEF CancelQueued
<1>9. CASE Reject(s)
  BY <1>9 DEF Reject
\* Nobody is owner, so no run is in flight and the driver is idle; no reconnect is
\* at work, for the newest of them would keep admission closed.
<1>3. CASE Register(s)
  BY <1>3 DEF Register, Admits, Vacant
<1>4. CASE Cancel(s)
  BY <1>4 DEF Cancel
<1>5. CASE CancelInterrupts(s)
  <2>. USE <1>5 DEF CancelInterrupts, IsOwner, InterruptDriver, Interruptible
  <2>1. start' \in [Starts -> [pc : StartPhases, epoch : Nat]]
    OBVIOUS
  <2>2. execution' \in Executions /\ gate' \in Starts \cup Reconnects \cup Closes \cup {None}
    OBVIOUS
  <2>3. TypeOK'
    BY <2>1, <2>2
  <2>4. GateIsHeld'
    OBVIOUS
  <2>5. OneDrain' /\ RunsAreExecuted'
    OBVIOUS
  <2>6. NoRunYet' /\ ReleasersWaited'
    OBVIOUS
  <2>7. OwnGenerations' /\ NewestKeepsClosed' /\ OwnerIsCaptured' /\ FinalizeAlone'
    OBVIOUS
  <2>8. NoRunOutlivesReconnect'
    OBVIOUS
  <2>. HIDE DEF TypeOK, OneDrain, RunsAreExecuted, NoRunYet, ReleasersWaited, GateIsHeld,
                OwnGenerations, NewestKeepsClosed, OwnerIsCaptured, FinalizeAlone,
                NoRunOutlivesReconnect
  <2>. QED
    BY <2>3, <2>4, <2>5, <2>6, <2>7, <2>8
<1>6. CASE CancelSettled(s)
  BY <1>6 DEF CancelSettled
<1>7. CASE RunJoined(s)
  BY <1>7 DEF RunJoined, MayRelease
\* s has waited for its run, so its execution is over as well.
<1>8. CASE StartReleases(s)
  BY <1>8 DEF StartReleases, Released, IsOwner
<1>. QED
  BY <1>1, <1>2, <1>3, <1>4, <1>5, <1>6, <1>7, <1>8, <1>9 DEF RunOwned

\* reconnect's steps.
LEMMA ReconnectKeeps ==
  ASSUME IInv, NEW r \in Reconnects, Reconnect(r)
  PROVE  IInv'
<1>. USE NoneAssumption, CallsAssumption
     DEF IInv, TypeOK, Tokens, Executions, RunPhases, StartPhases, ReconPhases,
         ClosePhases, admission, ownership, driver, OneDrain, InFlight,
         RunsAreExecuted, NoRunYet, ReleasersWaited, GateIsHeld, OwnGenerations,
         NewestKeepsClosed, Newest, OwnerIsCaptured, FinalizeAlone,
         NoRunOutlivesReconnect, Behind, Lost, Attended
<1>1. CASE Capture(r)
  <2>. USE <1>1 DEF Capture, TakesGeneration, ClosesAdmission, InterruptDriver,
                   Interruptible
  <2>1. TypeOK' /\ GateIsHeld'
    OBVIOUS
  <2>2. OneDrain' /\ RunsAreExecuted'
    OBVIOUS
  <2>3. NoRunYet' /\ ReleasersWaited'
    OBVIOUS
  <2>4. OwnGenerations'
    OBVIOUS
  <2>5. NewestKeepsClosed'
    OBVIOUS
  <2>6. OwnerIsCaptured'
    <3>1. ASSUME NEW q \in Reconnects, q # r, recon'[q].pc # "idle" PROVE ~Newest(q)'
      BY <3>1
    <3>2. recon'[r].captured = owner /\ owner' = owner
      OBVIOUS
    <3>. QED
      BY <3>1, <3>2
  <2>7. FinalizeAlone' /\ NoRunOutlivesReconnect'
    OBVIOUS
  <2>. QED
    BY <2>1, <2>2, <2>3, <2>4, <2>5, <2>6, <2>7
<1>2. CASE CaptureSettled(r)
  BY <1>2 DEF CaptureSettled
\* What r captured is done; there is no other owner, and admission is closed.
<1>3. CASE Finalizes(r)
  BY <1>3 DEF Finalizes, Released, IsOwner, OwnerJoined, OwnerFailed, Newest
<1>4. CASE ReconnectLeaves(r)
  BY <1>4 DEF ReconnectLeaves, Leaves
<1>5. CASE ReconnectAbandoned(r)
  BY <1>5 DEF ReconnectAbandoned
<1>6. CASE FinalizeEnds(r)
  BY <1>6 DEF FinalizeEnds
\* No other reconnect has r's generation, so none that is newest is left open.
<1>7. CASE Clears(r)
  BY <1>7 DEF Clears, Opens
<1>. QED
  BY <1>1, <1>2, <1>3, <1>4, <1>5, <1>6, <1>7 DEF Reconnect

\* closeOwner's steps.
LEMMA CloseOwnerKeeps ==
  ASSUME IInv, NEW c \in Closes, CloseOwner(c)
  PROVE  IInv'
<1>. USE NoneAssumption, CallsAssumption
     DEF IInv, TypeOK, Tokens, Executions, RunPhases, StartPhases, ReconPhases,
         ClosePhases, admission, ownership, driver, OneDrain, InFlight,
         RunsAreExecuted, NoRunYet, ReleasersWaited, GateIsHeld, OwnGenerations,
         NewestKeepsClosed, Newest, OwnerIsCaptured, FinalizeAlone,
         NoRunOutlivesReconnect, Behind, Lost, Attended
<1>1. CASE CloseInterrupts(c)
  BY <1>1 DEF CloseInterrupts, OwnsSocket, InterruptDriver, Interruptible
<1>2. CASE CloseSettled(c)
  BY <1>2 DEF CloseSettled
<1>3. CASE CloseJoined(c)
  BY <1>3 DEF CloseJoined
\* c has waited for the run it captured.
<1>4. CASE CloseReleases(c)
  BY <1>4 DEF CloseReleases, Released, IsOwner
<1>5. CASE CloseAbandoned(c)
  BY <1>5 DEF CloseAbandoned
<1>. QED
  BY <1>1, <1>2, <1>3, <1>4, <1>5 DEF CloseOwner

-----------------------------------------------------------------------------
LEMMA InvInit == Init => IInv
<1>. SUFFICES ASSUME Init PROVE IInv
  OBVIOUS
<1>. USE DEF Init
<1>1. TypeOK
  BY DEF TypeOK, Tokens, Executions, RunPhases, StartPhases, ReconPhases
<1>2. OneDrain /\ RunsAreExecuted /\ NoRunYet
  BY NoneAssumption DEF OneDrain, InFlight, RunsAreExecuted, NoRunYet, Behind
<1>3. ReleasersWaited /\ GateIsHeld /\ OwnGenerations
  BY DEF ReleasersWaited, GateIsHeld, OwnGenerations
<1>4. NewestKeepsClosed /\ OwnerIsCaptured /\ FinalizeAlone /\ NoRunOutlivesReconnect
  BY DEF NewestKeepsClosed, OwnerIsCaptured, FinalizeAlone, NoRunOutlivesReconnect
<1>. QED
  BY <1>1, <1>2, <1>3, <1>4 DEF IInv

LEMMA InvStep == IInv /\ [Next]_vars => IInv'
<1>. SUFFICES ASSUME IInv, [Next]_vars PROVE IInv'
  OBVIOUS
<1>1. CASE UNCHANGED vars
  BY <1>1
     DEF vars, IInv, TypeOK, OneDrain, InFlight, RunsAreExecuted, NoRunYet,
         ReleasersWaited, GateIsHeld, OwnGenerations, NewestKeepsClosed, Newest,
         OwnerIsCaptured, FinalizeAlone, NoRunOutlivesReconnect, Behind, Lost, Attended
<1>. QED
  BY <1>1, DriverKeeps, RunOwnedKeeps, ReconnectKeeps, CloseOwnerKeeps DEF Next

LEMMA InvHolds == Spec => []IInv
BY InvInit, InvStep, PTL DEF Spec

\* Every record of the lifecycle keeps its type; a close that goes on has captured an
\* owner.
THEOREM TypeCorrect == Spec => []TypeOK
<1>1. IInv => TypeOK
  BY DEF IInv
<1>. QED
  BY <1>1, InvHolds, PTL

\* What the driver executes is the owner's work, and its owner stays until it has
\* reported.
THEOREM AtMostOneDrain == Spec => []OneDrain
<1>1. IInv => OneDrain
  BY DEF IInv
<1>. QED
  BY <1>1, InvHolds, PTL

\* A reconnect finalizes the log with no run, no execution and no owner beside it.
THEOREM FinalizesAlone == Spec => []FinalizeAlone
<1>1. IInv => FinalizeAlone
  BY DEF IInv
<1>. QED
  BY <1>1, InvHolds, PTL

\* No older reconnect opens admission for the newest one.
THEOREM AdmissionStaysClosed == Spec => []NewestKeepsClosed
<1>1. IInv => NewestKeepsClosed
  BY DEF IInv
<1>. QED
  BY <1>1, InvHolds, PTL

\* Only starts prepared since the last reconnect run uninterrupted.
THEOREM StaleStartsAreRefused == Spec => []NoRunOutlivesReconnect
<1>1. IInv => NoRunOutlivesReconnect
  BY DEF IInv
<1>. QED
  BY <1>1, InvHolds, PTL

\* An interruption hits the run of the start that was cancelled, of the socket that
\* closed or that a reconnect found, never a successor.
THEOREM InterruptsAreAimed == Spec => InterruptsItsOwn
<1>. DEFINE Aimed ==
       execution \in {"starting", "working"} /\ execution' = "interrupted" =>
         \/ epoch' # epoch
         \/ start[owner].pc = "cancelling"
         \/ \E c \in Closes : close[c].pc = "idle" /\ close'[c].pc = "settling"
                            /\ ClosedSocket[c] = SocketOf[owner]
<1>1. ASSUME TypeOK, [Next]_vars PROVE Aimed
  <2>. USE <1>1 DEF TypeOK, admission, ownership, driver
  <2>1. CASE UNCHANGED vars
    BY <2>1 DEF vars
  <2>2. CASE Driver
    BY <2>2 DEF Driver, DrainStarts, Settles, CompletesDone
  <2>3. ASSUME NEW s \in Starts, RunOwned(s) PROVE Aimed
    BY <2>3 DEF RunOwned, Prepare, CancelQueued, Reject, Register, Cancel, CancelInterrupts, IsOwner,
                CancelSettled, RunJoined, StartReleases
  <2>4. ASSUME NEW r \in Reconnects, Reconnect(r) PROVE Aimed
    BY <2>4 DEF Reconnect, Capture, CaptureSettled, Finalizes, ReconnectLeaves,
                ReconnectAbandoned, FinalizeEnds, Clears
  <2>5. ASSUME NEW c \in Closes, CloseOwner(c) PROVE Aimed
    BY <2>5 DEF CloseOwner, CloseInterrupts, OwnsSocket, CloseSettled, CloseJoined,
                CloseReleases, CloseAbandoned
  <2>. QED
    BY <2>1, <2>2, <2>3, <2>4, <2>5 DEF Next
<1>2. IInv => TypeOK
  BY DEF IInv
<1>. QED
  BY <1>1, <1>2, InvHolds, PTL DEF Spec, InterruptsItsOwn, Interruptible

-----------------------------------------------------------------------------
(* The live drain implements SingleOwner.                                  *)

\* Starts have prepared in this epoch or an earlier one.
EpochsArePast == \A s \in Starts : start[s].epoch <= epoch

\* Nobody finalizes while the gate is free.
LEMMA FreeGateIsNoFinalizer ==
  ASSUME IInv, gate = None
  PROVE  \A r \in Reconnects : recon[r].pc # "finalizing"
BY NoneAssumption DEF IInv, GateIsHeld

\* What the refinement shows of the starts but for the owner.
LostStarts == {s \in Starts : Lost(s)}

\* The driver begins, ends and reports the owner's work.
LEMMA DriverIsSeen ==
  ASSUME IInv, Driver
  PROVE  [OneOwner!Next]_OneOwner!vars
<1>. USE DEF IInv, TypeOK, Tokens, admission, ownership, OneDrain, InFlight, RunsAreExecuted
<1>1. CASE DrainStarts
  <2>1. Admission' = Admission /\ Fresh' = Fresh /\ owner' = owner /\ LostStarts' = LostStarts
    BY <1>1 DEF DrainStarts, Admission, Fresh, LostStarts, Lost
  <2>2. CASE owner = None
    <3>1. Stage' = Stage
      BY <1>1, <2>2 DEF DrainStarts, Stage
    <3>. QED
      BY <2>1, <3>1 DEF OneOwner!vars, LostStarts
  <2>3. CASE owner # None
    <3>1. run[owner] = "running" /\ work = None
      BY <1>1, <2>3 DEF DrainStarts
    <3>2. Stage = "waiting" /\ Stage' = "working"
      BY <1>1, <2>3, <3>1 DEF DrainStarts, Stage
    <3>. QED
      BY <2>1, <3>2 DEF OneOwner!Next, OneOwner!Work, LostStarts
  <2>. QED
    BY <2>2, <2>3
<1>2. CASE Settles
  <2>1. Admission' = Admission /\ Fresh' = Fresh /\ owner' = owner /\ LostStarts' = LostStarts
    BY <1>2 DEF Settles, Admission, Fresh, LostStarts, Lost
  <2>2. CASE owner # None /\ run[owner] = "running"
    <3>1. Stage \in {"waiting", "working"} /\ Stage' = "over"
      BY <1>2, <2>2 DEF Settles, Stage
    <3>. QED
      BY <2>1, <3>1 DEF OneOwner!Next, OneOwner!End, LostStarts
  <2>3. CASE owner # None /\ run[owner] = "behind"
    <3>1. Stage = "waiting" /\ Stage' = "waiting"
      BY <1>2, <2>3, NoneAssumption DEF Settles, Stage
    <3>. QED
      BY <2>1, <3>1 DEF OneOwner!vars, LostStarts
  <2>4. CASE owner = None \/ run[owner] \notin {"running", "behind"}
    <3>1. Stage' = Stage
      BY <1>2, <2>4 DEF Settles, Stage
    <3>. QED
      BY <2>1, <3>1 DEF OneOwner!vars, LostStarts
  <2>. QED
    BY <2>2, <2>3, <2>4
<1>3. ASSUME NEW s \in Starts, CompletesDone(s) PROVE UNCHANGED OneOwner!vars
  <2>1. Admission' = Admission /\ Fresh' = Fresh /\ owner' = owner /\ LostStarts' = LostStarts
    BY <1>3 DEF CompletesDone, Admission, Fresh, LostStarts, Lost
  <2>2. Stage' = Stage
    BY <1>3 DEF CompletesDone, Stage
  <2>. QED
    BY <2>1, <2>2 DEF OneOwner!vars, LostStarts
<1>. QED
  BY <1>1, <1>2, <1>3 DEF Driver

\* Who is admitted is fresh and finds nobody; who leaves has seen its run done or
\* is lost.
LEMMA RunOwnedIsSeen ==
  ASSUME IInv, NEW s \in Starts, RunOwned(s)
  PROVE  [OneOwner!Next]_OneOwner!vars
<1>. USE DEF IInv, TypeOK, Tokens, admission, ownership, driver
<1>1. CASE Prepare(s)
  <2>1. Fresh' = Fresh \cup {s} /\ LostStarts' = LostStarts
    BY <1>1 DEF Prepare, Fresh, LostStarts, Lost
  <2>2. Admission' = Admission /\ Stage' = Stage /\ owner' = owner
    BY <1>1 DEF Prepare, Admission, Stage
  <2>. QED
    BY <2>1, <2>2 DEF OneOwner!Next, OneOwner!Prepare, LostStarts
<1>2. CASE Reject(s)
  <2>1. Fresh' = Fresh \ {s} /\ LostStarts' = LostStarts
    BY <1>2 DEF Reject, Fresh, LostStarts, Lost
  <2>2. Admission' = Admission /\ Stage' = Stage /\ owner' = owner
    BY <1>2 DEF Reject, Admission, Stage
  <2>. QED
    BY <2>1, <2>2 DEF OneOwner!Next, OneOwner!TurnAway, LostStarts
<1>3. CASE Register(s)
  <2>1. Admission = "open" /\ Admission' = "open"
    BY <1>3, FreeGateIsNoFinalizer DEF Register, Admits, Admission
  <2>2. owner = None /\ owner' = s
    BY <1>3 DEF Register, Vacant, OneDrain
  <2>3. s \in Fresh /\ Fresh' = Fresh \ {s}
    BY <1>3 DEF Register, Admits, Fresh
  <2>4. LostStarts' \in {LostStarts, LostStarts \cup {s}}
    BY <1>3 DEF Register, LostStarts, Lost
  <2>5. work' # s /\ run'[s] \in {"behind", "running"}
    BY <1>3, NoneAssumption DEF Register, OneDrain, NoRunYet
  <2>6. Stage' = "waiting"
    BY <2>2, <2>5, NoneAssumption DEF Stage
  <2>. QED
    BY <2>1, <2>2, <2>3, <2>4, <2>6 DEF OneOwner!Next, OneOwner!Admit, LostStarts
<1>4. CASE CancelQueued(s) \/ Cancel(s) \/ CancelInterrupts(s) \/ CancelSettled(s) \/ RunJoined(s)
  <2>1. Admission' = Admission /\ Stage' = Stage /\ owner' = owner
    BY <1>4 DEF CancelQueued, Cancel, CancelInterrupts, CancelSettled, RunJoined, Admission, Stage
  <2>2. /\ \A q \in Starts \ {s} : start'[q] = start[q]
        /\ start'[s].epoch = start[s].epoch /\ epoch' = epoch
        /\ start'[s].pc \in {"prepared", "doomed"} <=> start[s].pc \in {"prepared", "doomed"}
        /\ ~Lost(s) /\ ~Lost(s)'
    BY <1>4 DEF CancelQueued, Cancel, CancelInterrupts, CancelSettled, RunJoined, MayRelease, Lost
  <2>3. Fresh' = Fresh /\ LostStarts' = LostStarts
    BY <2>2 DEF Fresh, LostStarts, Lost
  <2>. QED
    BY <2>1, <2>3 DEF OneOwner!vars, LostStarts
<1>5. CASE StartReleases(s)
  <2>1. Admission' = Admission /\ Fresh' = Fresh /\ LostStarts' = LostStarts
    BY <1>5 DEF StartReleases, Admission, Fresh, LostStarts, Lost
  <2>2. CASE owner = s
    <3>1. owner' = None /\ Stage' = "none"
      BY <1>5, <2>2 DEF StartReleases, Released, IsOwner, Stage
    <3>2. CASE start[s].pc = "releasing"
      <4>1. Stage = "over"
        BY <2>2, <3>2, NoneAssumption DEF ReleasersWaited, Stage
      <4>. QED
        BY <2>1, <3>1, <4>1 DEF OneOwner!Next, OneOwner!Leave, LostStarts
    <3>3. CASE start[s].pc = "deserting"
      <4>1. owner \in LostStarts
        BY <2>2, <3>3 DEF LostStarts, Lost
      <4>. QED
        BY <2>1, <3>1, <4>1 DEF OneOwner!Next, OneOwner!Desert, LostStarts
    <3>. QED
      BY <1>5, <3>2, <3>3 DEF StartReleases
  <2>3. CASE owner # s
    <3>1. owner' = owner /\ Stage' = Stage
      BY <1>5, <2>3 DEF StartReleases, Released, IsOwner, Stage
    <3>. QED
      BY <2>1, <3>1 DEF OneOwner!vars, LostStarts
  <2>. QED
    BY <2>2, <2>3
<1>. QED
  BY <1>1, <1>2, <1>3, <1>4, <1>5 DEF RunOwned

\* A reconnect outdates what is prepared, and finalizes once it has outlasted the
\* owner that it found.
LEMMA ReconnectIsSeen ==
  ASSUME IInv, EpochsArePast, NEW r \in Reconnects, Reconnect(r)
  PROVE  [OneOwner!Next]_OneOwner!vars
<1>. USE DEF IInv, TypeOK, Tokens, admission, ownership, driver
<1>0. LostStarts' = LostStarts
  BY DEF Reconnect, Capture, CaptureSettled, Finalizes, ReconnectLeaves, ReconnectAbandoned,
         FinalizeEnds, Clears, LostStarts, Lost
<1>1. CASE Capture(r)
  <2>1. \A q \in Reconnects : recon[q].pc # "finalizing" /\ recon'[q].pc # "finalizing"
    BY <1>1, FreeGateIsNoFinalizer DEF Capture
  <2>2. Admission # "finalizing" /\ Admission' = "closed"
    BY <1>1, <2>1 DEF Capture, ClosesAdmission, Admission
  <2>3. Fresh' = {}
    BY <1>1 DEF Capture, EpochsArePast, Fresh
  <2>4. owner' = owner /\ Stage' = Stage
    BY <1>1 DEF Capture, Stage
  <2>. QED
    BY <1>0, <2>2, <2>3, <2>4 DEF OneOwner!Next, OneOwner!Close, LostStarts
<1>2. CASE CaptureSettled(r) \/ ReconnectLeaves(r) \/ ReconnectAbandoned(r)
  <2>1. \A q \in Reconnects : recon'[q].pc = "finalizing" <=> recon[q].pc = "finalizing"
    BY <1>2 DEF CaptureSettled, ReconnectLeaves, Leaves, ReconnectAbandoned
  <2>2. Admission' = Admission
    BY <1>2, <2>1 DEF CaptureSettled, ReconnectLeaves, ReconnectAbandoned, Admission
  <2>3. Fresh' = Fresh /\ owner' = owner /\ Stage' = Stage
    BY <1>2 DEF CaptureSettled, ReconnectLeaves, ReconnectAbandoned, Fresh, Stage
  <2>. QED
    BY <1>0, <2>2, <2>3 DEF OneOwner!vars, LostStarts
<1>3. CASE Finalizes(r)
  <2>1. Admission = "closed"
    BY <1>3, FreeGateIsNoFinalizer DEF Finalizes, NewestKeepsClosed, Admission
  <2>2. Admission' = "finalizing"
    BY <1>3 DEF Finalizes, Admission
  <2>3. owner \in {None, recon[r].captured}
    BY <1>3 DEF Finalizes, OwnerIsCaptured
  <2>4. Stage \in {"none", "over"}
    BY <1>3, <2>3 DEF Finalizes, OwnerJoined, Stage
  <2>5. owner' = None /\ Stage' = "none"
    BY <1>3, <2>3 DEF Finalizes, Released, IsOwner, Stage
  <2>6. Fresh' = Fresh
    BY <1>3 DEF Finalizes, Fresh
  <2>. QED
    BY <1>0, <2>1, <2>2, <2>4, <2>5, <2>6 DEF OneOwner!Next, OneOwner!Finalize, LostStarts
<1>4. CASE FinalizeEnds(r)
  <2>1. Admission = "finalizing"
    BY <1>4 DEF FinalizeEnds, Admission
  <2>2. \A q \in Reconnects : recon'[q].pc # "finalizing"
    BY <1>4 DEF FinalizeEnds, GateIsHeld
  <2>3. Admission' \in {"closed", "open"}
    BY <2>2 DEF Admission
  <2>4. Fresh' = Fresh /\ owner' = owner /\ Stage' = Stage
    BY <1>4 DEF FinalizeEnds, Fresh, Stage
  <2>. QED
    BY <1>0, <2>1, <2>3, <2>4 DEF OneOwner!Next, OneOwner!Reopen, LostStarts
<1>5. CASE Clears(r)
  <2>1. \A q \in Reconnects : recon[q].pc # "finalizing" /\ recon'[q].pc # "finalizing"
    BY <1>5, FreeGateIsNoFinalizer DEF Clears
  <2>2. Fresh' = Fresh /\ owner' = owner /\ Stage' = Stage
    BY <1>5 DEF Clears, Fresh, Stage
  <2>3. \/ Admission' = Admission
        \/ Admission = "closed" /\ Admission' = "open"
    BY <1>5, <2>1 DEF Clears, Admission
  <2>. QED
    BY <1>0, <2>2, <2>3 DEF OneOwner!Next, OneOwner!Reopen, OneOwner!vars, LostStarts
<1>. QED
  BY <1>1, <1>2, <1>3, <1>4, <1>5 DEF Reconnect

LEMMA CloseOwnerIsSeen ==
  ASSUME IInv, NEW c \in Closes, CloseOwner(c)
  PROVE  [OneOwner!Next]_OneOwner!vars
<1>. USE DEF IInv, TypeOK, Tokens, admission, ownership, driver
<1>1. CASE CloseInterrupts(c) \/ CloseSettled(c) \/ CloseJoined(c) \/ CloseAbandoned(c)
  <2>1. Admission' = Admission /\ Fresh' = Fresh /\ LostStarts' = LostStarts
    BY <1>1 DEF CloseInterrupts, CloseSettled, CloseJoined, CloseAbandoned, Admission, Fresh,
                LostStarts, Lost
  <2>2. owner' = owner /\ Stage' = Stage
    BY <1>1 DEF CloseInterrupts, CloseSettled, CloseJoined, CloseAbandoned, Stage
  <2>. QED
    BY <2>1, <2>2 DEF OneOwner!vars, LostStarts
<1>2. CASE CloseReleases(c)
  <2>1. Admission' = Admission /\ Fresh' = Fresh /\ LostStarts' = LostStarts
    BY <1>2 DEF CloseReleases, Admission, Fresh, LostStarts, Lost
  <2>2. close[c].captured \in Starts /\ run[close[c].captured] = "done"
    BY <1>2 DEF CloseReleases, ReleasersWaited
  <2>3. CASE owner = close[c].captured
    <3>1. Stage = "over" /\ owner' = None /\ Stage' = "none"
      BY <1>2, <2>2, <2>3, NoneAssumption DEF CloseReleases, Released, IsOwner, Stage
    <3>. QED
      BY <2>1, <3>1 DEF OneOwner!Next, OneOwner!Leave, LostStarts
  <2>4. CASE owner # close[c].captured
    <3>1. owner' = owner /\ Stage' = Stage
      BY <1>2, <2>4 DEF CloseReleases, Released, IsOwner, Stage
    <3>. QED
      BY <2>1, <3>1 DEF OneOwner!vars, LostStarts
  <2>. QED
    BY <2>3, <2>4
<1>. QED
  BY <1>1, <1>2 DEF CloseOwner

LEMMA EpochsStayPast ==
  ASSUME TypeOK, EpochsArePast, [Next]_vars
  PROVE  EpochsArePast'
<1>. USE DEF TypeOK, EpochsArePast, admission
<1>1. CASE UNCHANGED vars
  BY <1>1 DEF vars
<1>2. CASE Driver
  BY <1>2 DEF Driver, DrainStarts, Settles, CompletesDone
<1>3. ASSUME NEW s \in Starts, RunOwned(s) PROVE EpochsArePast'
  BY <1>3 DEF RunOwned, Prepare, CancelQueued, Reject, Register, Cancel, CancelInterrupts,
              CancelSettled, RunJoined, StartReleases
<1>4. ASSUME NEW r \in Reconnects, Reconnect(r) PROVE EpochsArePast'
  BY <1>4 DEF Reconnect, Capture, CaptureSettled, Finalizes, ReconnectLeaves,
              ReconnectAbandoned, FinalizeEnds, Clears
<1>5. ASSUME NEW c \in Closes, CloseOwner(c) PROVE EpochsArePast'
  BY <1>5 DEF CloseOwner, CloseInterrupts, CloseSettled, CloseJoined, CloseReleases,
              CloseAbandoned
<1>. QED
  BY <1>1, <1>2, <1>3, <1>4, <1>5 DEF Next

\* For any starts, sockets, reconnects and closes the live drain gives a session
\* what SingleOwner promises
\* (drain-lifecycle.ts, makeLiveDrain; drain-occupancy.ts).
THEOREM OneOwnerAtATime == Spec => ImplementsSingleOwner
<1>1. Init => OneOwner!Init /\ EpochsArePast
  BY DEF Init, OneOwner!Init, Admission, Fresh, Stage, Lost, EpochsArePast
<1>2. IInv /\ EpochsArePast /\ [Next]_vars => [OneOwner!Next]_OneOwner!vars
  <2>1. ASSUME UNCHANGED vars PROVE UNCHANGED OneOwner!vars
    BY <2>1 DEF vars, OneOwner!vars, Admission, Fresh, Stage, Lost
  <2>. QED
    BY <2>1, DriverIsSeen, RunOwnedIsSeen, ReconnectIsSeen, CloseOwnerIsSeen DEF Next
<1>3. IInv /\ EpochsArePast /\ [Next]_vars => EpochsArePast'
  BY EpochsStayPast DEF IInv
<1>. QED
  BY <1>1, <1>2, <1>3, InvHolds, PTL DEF Spec, ImplementsSingleOwner, OneOwner!Spec

=============================================================================
