-------------------------- MODULE SandboxLifecycle --------------------------
(***************************************************************************)
(* The lifecycle of one session's sandbox in packages/sandbox              *)
(* (src/vercel/layer.ts, src/lifecycle.ts).                                *)
(*                                                                         *)
(* Commands and file operations hold a semaphore and first make sure that  *)
(* there is a sandbox: from the stored state they use, attach, create or   *)
(* recreate it. delete takes no semaphore. Every call to the state store   *)
(* and to the provider takes time and may fail, applied or not; the        *)
(* provider ends a sandbox whose timeout has passed. A workspace is known  *)
(* by the number of its creation.                                          *)
(***************************************************************************)
EXTENDS Integers

CONSTANTS
  Lifecycles,  \* of "Disposable" and "Persistent"
  IdleTtl,
  MaxLifetime, \* of a disposable sandbox
  MayFail,     \* calls to the store and the provider may fail
  MaxTime,     \* bound: the clock stops here, and what lies beyond is alike
  MaxBoxes,    \* bound: sandboxes created
  None

ASSUME SandboxAssumption ==
  /\ Lifecycles \subseteq {"Disposable", "Persistent"}
  /\ IdleTtl \in Nat \ {0} /\ MaxLifetime \in Nat \ {0}
  /\ MayFail \in BOOLEAN /\ MaxTime \in Nat /\ MaxBoxes \in Nat
  /\ None \notin [name : {"current", "former"}, expires : Nat, max : Nat \cup {None}]
  /\ None \notin [id : Nat, until : Nat]

VARIABLES
  lifecycle,
  now,
  state,    \* what the store holds
  box,      \* what the provider has under the session's name
  boxes,    \* how many sandboxes were created
  op,       \* the holder of the semaphore
  del,      \* a delete
  known,    \* history: the workspace of the last operation, 0 once something failed
  seen      \* history: the workspace of the last command, 0 once somebody deleted

vars == <<lifecycle, now, state, box, boxes, op, del, known, seen>>

\* A stored state: only a disposable sandbox has a lifetime. It names the sandbox
\* as the session's is named now, or as an earlier version named it.
State == [name : {"current", "former"}, expires : Nat,
          max : IF lifecycle = "Disposable" THEN Nat ELSE {None}]

Box == [id : Nat, until : Nat]

Op == [pc : {"idle", "loading", "attaching", "evicting", "deleting", "clearing", "getting",
             "extending", "creating", "saving", "using"},
       kind : {"run", "file", None}, at : Nat, handle : Nat, reset : BOOLEAN,
       loaded : State \cup {None}, next : State \cup {None}]

TypeOK ==
  /\ lifecycle \in Lifecycles
  /\ now \in Nat /\ boxes \in Nat /\ known \in Nat /\ seen \in Nat
  /\ state \in State \cup {None}
  /\ box \in Box \cup {None}
  /\ op \in Op
  /\ del \in {"idle", "getting", "deleting", "clearing"}

NoOp == [pc |-> "idle", kind |-> None, at |-> 0, handle |-> 0, reset |-> FALSE,
         loaded |-> None, next |-> None]

Smaller(m, n) == IF m < n THEN m ELSE n
Larger(m, n) == IF m < n THEN n ELSE m

InitialState(time) ==
  [name |-> "current", expires |-> time + IdleTtl,
   max |-> IF lifecycle = "Disposable" THEN time + MaxLifetime ELSE None]

\* A new session, or one whose last sandbox has a former name.
Init ==
  /\ lifecycle \in Lifecycles
  /\ \/ state = None /\ boxes = 0
     \/ state = [InitialState(0) EXCEPT !.name = "former"] /\ boxes = 1
  /\ now = 0 /\ box = None /\ op = NoOp /\ del = "idle"
  /\ known = boxes /\ seen = 0

Touched(s, time) ==
  [s EXCEPT !.expires = IF lifecycle = "Disposable" THEN Smaller(time + IdleTtl, s.max)
                        ELSE time + IdleTtl]

Expired(s, time) == lifecycle = "Disposable" /\ (time >= s.max \/ time >= s.expires)

\* sandboxStateDecision: the state is of no use and its sandbox is replaced.
Superseded(s, time) == s.name # "current" \/ Expired(s, time)

TimeoutMs == IF lifecycle = "Disposable" THEN Smaller(IdleTtl, MaxLifetime) ELSE IdleTtl

\* How much longer the provider is asked to keep the sandbox.
ExtendDelta(s, time) ==
  IF lifecycle = "Persistent" /\ time >= s.expires THEN 0
  ELSE Larger(0, Touched(s, time).expires - s.expires)

-----------------------------------------------------------------------------

\* A call of the operation returns and it goes on, or it was applied and
\* fails all the same, which ends the operation.
Goes(next) == op' = next /\ UNCHANGED known
Breaks == MayFail /\ op' = NoOp /\ known' = 0
Then(next) == Goes(next) \/ Breaks

Start(kind) ==
  /\ op.pc = "idle"
  /\ op' = [NoOp EXCEPT !.pc = "loading", !.kind = kind, !.at = now]
  /\ UNCHANGED <<lifecycle, now, state, box, boxes, del, known, seen>>

\* ensureSandbox: no state, a superseded one, or one to go on with.
Load ==
  /\ op.pc = "loading"
  /\ \/ state = None /\ Goes([op EXCEPT !.pc = "attaching"])
     \/ state # None /\ Superseded(state, op.at)
        /\ Goes([op EXCEPT !.pc = "evicting", !.reset = TRUE])
     \/ state # None /\ ~Superseded(state, op.at)
        /\ Goes([op EXCEPT !.pc = "getting", !.loaded = state])
  /\ UNCHANGED <<lifecycle, now, state, box, boxes, del, seen>>

\* Without state, an existing sandbox is attached and given a fresh state.
Attach ==
  /\ op.pc = "attaching"
  /\ \/ box = None /\ Goes([op EXCEPT !.pc = "creating"])
     \/ box # None
        /\ Goes([op EXCEPT !.pc = "saving", !.handle = box.id, !.next = InitialState(op.at)])
  /\ UNCHANGED <<lifecycle, now, state, box, boxes, del, seen>>

\* An expired sandbox is looked up and deleted, then its state is cleared; one
\* under a former name is not followed further.
Evict ==
  /\ op.pc = "evicting"
  /\ Goes([op EXCEPT !.pc = IF box = None THEN "clearing" ELSE "deleting"])
  /\ UNCHANGED <<lifecycle, now, state, box, boxes, del, seen>>

Delete ==
  /\ op.pc = "deleting"
  /\ box' = None
  /\ Then([op EXCEPT !.pc = "clearing"])
  /\ UNCHANGED <<lifecycle, now, state, boxes, del, seen>>

Clear ==
  /\ op.pc = "clearing"
  /\ state' = None
  /\ Then([op EXCEPT !.pc = "creating"])
  /\ UNCHANGED <<lifecycle, now, box, boxes, del, seen>>

\* Faulty: a workspace that vanished is recreated without a word.
VanishedResetSilently == FALSE

\* A workspace that vanished before its state expired is recreated as a reset.
VanishedReset == TRUE

\* With a state in force, the provider either still has the sandbox or not.
Get ==
  /\ op.pc = "getting"
  /\ \/ box = None /\ Goes([op EXCEPT !.pc = "clearing", !.reset = VanishedReset])
     \/ /\ box # None
        /\ Goes([op EXCEPT !.handle = box.id, !.next = Touched(op.loaded, op.at),
             !.pc = IF ExtendDelta(op.loaded, op.at) > 0 THEN "extending" ELSE "saving"])
  /\ UNCHANGED <<lifecycle, now, state, box, boxes, del, seen>>

\* The provider keeps the sandbox longer; one that is gone cannot be kept.
Extend ==
  /\ op.pc = "extending"
  /\ box # None /\ box.id = op.handle
  /\ box' = [box EXCEPT !.until = Smaller(@ + ExtendDelta(op.loaded, op.at), MaxTime + 1)]
  /\ Then([op EXCEPT !.pc = "saving"])
  /\ UNCHANGED <<lifecycle, now, state, boxes, del, seen>>

\* A new sandbox: the name must be free.
Create ==
  /\ op.pc = "creating" /\ box = None /\ boxes < MaxBoxes
  /\ boxes' = boxes + 1
  /\ box' = [id |-> boxes', until |-> Smaller(now + TimeoutMs, MaxTime + 1)]
  /\ Then([op EXCEPT !.pc = "saving", !.handle = boxes', !.next = InitialState(op.at)])
  /\ UNCHANGED <<lifecycle, now, state, del, seen>>

\* The state is saved: the sandbox is ready for what the operation is about.
Save ==
  /\ op.pc = "saving"
  /\ state' = op.next
  /\ \/ /\ op' = [op EXCEPT !.pc = "using"]
        /\ known' = IF del = "idle" THEN op.handle ELSE 0
     \/ Breaks
  /\ UNCHANGED <<lifecycle, now, box, boxes, del, seen>>

\* The command has run, and its result says whether the workspace was reset;
\* a file operation returns its path or bytes.
Use ==
  /\ op.pc = "using" /\ box # None /\ box.id = op.handle
  /\ op' = NoOp
  /\ seen' = IF op.kind = "run" /\ known = op.handle THEN op.handle ELSE seen
  /\ UNCHANGED <<lifecycle, now, state, box, boxes, del, known>>

\* A call fails and was not applied: the command or file operation itself, on
\* a sandbox that is gone, always does.
Fail ==
  /\ op.pc # "idle"
  /\ Breaks
  /\ UNCHANGED <<lifecycle, now, state, box, boxes, del, seen>>

-----------------------------------------------------------------------------

\* delete: the sandbox the stored state names goes, then the state.
DelLoad ==
  /\ del = "idle"
  /\ del' = IF state = None THEN "clearing" ELSE "getting"
  /\ known' = 0 /\ seen' = 0
  /\ UNCHANGED <<lifecycle, now, state, box, boxes, op>>

DelGet ==
  /\ del = "getting"
  /\ del' = IF box = None THEN "clearing" ELSE "deleting"
  /\ UNCHANGED <<lifecycle, now, state, box, boxes, op, known, seen>>

DelDelete ==
  /\ del = "deleting"
  /\ box' = None
  /\ del' \in {"clearing"} \cup (IF MayFail THEN {"idle"} ELSE {})
  /\ UNCHANGED <<lifecycle, now, state, boxes, op, known, seen>>

DelClear ==
  /\ del = "clearing"
  /\ state' = None
  /\ del' = "idle"
  /\ UNCHANGED <<lifecycle, now, box, boxes, op, known, seen>>

DelFail ==
  /\ MayFail /\ del # "idle" /\ del' = "idle"
  /\ UNCHANGED <<lifecycle, now, state, box, boxes, op, known, seen>>

\* The provider ends a sandbox whose timeout has passed: a disposable one, or
\* a persistent one with its last snapshot.
Ends ==
  /\ box # None /\ now >= box.until
  /\ box' = None
  /\ UNCHANGED <<lifecycle, now, state, boxes, op, del, known, seen>>

Tick ==
  /\ now < MaxTime
  /\ now' = now + 1
  /\ UNCHANGED <<lifecycle, state, box, boxes, op, del, known, seen>>

Next ==
  \/ \E kind \in {"run", "file"} : Start(kind)
  \/ Load \/ Attach \/ Evict \/ Delete \/ Clear \/ Get \/ Extend \/ Create \/ Save \/ Use \/ Fail
  \/ DelLoad \/ DelGet \/ DelDelete \/ DelClear \/ DelFail
  \/ Ends \/ Tick

Spec == Init /\ [][Next]_vars

-----------------------------------------------------------------------------

\* Whatever expires or vanishes, and whenever, an operation is either given
\* the workspace of the last one or is told of a reset, and never told of one
\* that was not: unless a call failed or somebody deleted since (layer.ts,
\* ensureSandbox; lifecycle.ts, sandboxStateDecision).
EnsureTellsOfReset ==
  [][op.pc = "saving" /\ op'.pc = "using" /\ known # 0 /\ del = "idle" =>
       (op.reset <=> op.handle # known)]_vars

\* A command whose workspace is not that of the command before says that it
\* was reset, unless somebody deleted the sandbox (README of the package:
\* expired disposable state recreates and reports workspaceReset: true).
ResetIsReported ==
  [][op.pc = "using" /\ op'.pc = "idle" /\ seen # 0 /\ seen' # seen =>
       op.reset]_vars

=============================================================================
