----------------------- MODULE SandboxLifecycleProofs -----------------------
(***************************************************************************)
(* What ensureSandbox says of the workspace, for any lifetimes and any     *)
(* number of sandboxes. The invariant follows the workspace through the    *)
(* operation: as long as nothing failed and nobody deleted, what the       *)
(* provider has under the name is the known workspace or nothing.          *)
(***************************************************************************)
EXTENDS SandboxLifecycle, TLAPS

\* The sandbox there is was created, and an operation that has a handle has
\* that of the sandbox there is, and a state to save.
HandleIsCurrent ==
  /\ box # None => box.id <= boxes
  /\ op.pc \in {"getting", "extending"} => op.loaded # None
  /\ op.pc \in {"extending", "saving"} => op.next # None /\ op.handle <= boxes
  /\ op.pc \in {"extending", "saving", "using"} /\ box # None => box.id = op.handle

\* Where the known workspace is while an operation makes sure of a sandbox.
KnownIsFollowed ==
  known # 0 =>
    /\ del = "idle" /\ known <= boxes
    /\ op.pc \in {"idle", "loading", "evicting", "getting"} /\ box # None => box.id = known
    /\ op.pc \in {"idle", "loading", "using"} => state # None
    /\ op.pc \in {"loading", "getting", "extending"} => op.reset = FALSE
    /\ op.pc \in {"evicting", "deleting", "clearing", "creating"} => op.reset = TRUE
    /\ op.pc \in {"clearing", "creating"} => box = None
    /\ op.pc # "attaching"
    /\ op.pc \in {"extending", "using"} => op.handle = known
    /\ op.pc = "saving" => (op.reset = TRUE <=> op.handle # known)

IInv == TypeOK /\ HandleIsCurrent /\ KnownIsFollowed

-----------------------------------------------------------------------------

LEMMA NoOpTyped == NoOp \in Op /\ NoOp.pc = "idle" /\ NoOp.reset = FALSE
BY SandboxAssumption DEF NoOp, Op

LEMMA StatesTyped ==
  ASSUME TypeOK, NEW time \in Nat
  PROVE  /\ InitialState(time) \in State
         /\ \A s \in State : Touched(s, time) \in State /\ ExtendDelta(s, time) \in Nat
<1>1. IdleTtl \in Nat /\ MaxLifetime \in Nat
  BY SandboxAssumption
<1>2. InitialState(time) \in State
  BY <1>1 DEF InitialState, State
<1>3. ASSUME NEW s \in State PROVE Touched(s, time) \in State
  <2>1. CASE lifecycle = "Disposable"
    <3>1. Smaller(time + IdleTtl, s.max) \in Nat
      BY <1>1, <2>1 DEF State, Smaller
    <3>. QED
      BY <2>1, <3>1 DEF State, Touched
  <2>2. CASE lifecycle # "Disposable"
    <3>1. time + IdleTtl \in Nat
      BY <1>1
    <3>. QED
      BY <2>2, <3>1 DEF State, Touched
  <2>. QED
    BY <2>1, <2>2
<1>4. ASSUME NEW s \in State PROVE ExtendDelta(s, time) \in Nat
  <2>1. Touched(s, time).expires \in Nat /\ s.expires \in Nat
    BY <1>3 DEF State
  <2>. QED
    BY <2>1 DEF ExtendDelta, Larger
<1>. QED
  BY <1>2, <1>3, <1>4

LEMMA NoneIsNoRecord == None \notin State /\ None \notin Box
<1>1. \A s \in State : s \in [name : {"current", "former"}, expires : Nat, max : Nat \cup {None}]
  BY DEF State
<1>. QED
  BY <1>1, SandboxAssumption DEF Box

-----------------------------------------------------------------------------
\* An operation that fails knows nothing any more.
LEMMA BreaksKeeps ==
  ASSUME IInv, Breaks, UNCHANGED <<lifecycle, now, del, seen>>,
         boxes' \in Nat, boxes <= boxes',
         state' \in State \cup {None}, box' \in Box \cup {None},
         box' # None => box'.id <= boxes'
  PROVE  IInv'
<1>1. State' = State
  BY DEF State
<1>2. op' \in Op' /\ op'.pc = "idle" /\ known' = 0
  BY <1>1, NoOpTyped DEF Breaks, Op
<1>3. TypeOK'
  BY <1>1, <1>2 DEF IInv, TypeOK
<1>4. HandleIsCurrent' /\ KnownIsFollowed'
  BY <1>2 DEF HandleIsCurrent, KnownIsFollowed
<1>. QED
  BY <1>3, <1>4 DEF IInv

LEMMA StartKeeps ==
  ASSUME IInv, NEW kind \in {"run", "file"}, Start(kind)
  PROVE  IInv'
<1> DEFINE started == [NoOp EXCEPT !.pc = "loading", !.kind = kind, !.at = now]
<1>1. State' = State /\ Op' = Op
  BY DEF Start, State, Op
<1>2. started \in Op /\ started.pc = "loading" /\ started.reset = FALSE
  BY NoOpTyped DEF NoOp, Op, IInv, TypeOK
<1>. HIDE DEF started
<1>3. op' = started
  BY DEF Start, started
<1>4. op.pc = "idle" /\ UNCHANGED <<lifecycle, now, state, box, boxes, del, known, seen>>
  BY DEF Start
<1>5. TypeOK'
  BY <1>1, <1>2, <1>3, <1>4 DEF IInv, TypeOK
<1>6. HandleIsCurrent' /\ KnownIsFollowed'
  BY <1>2, <1>3, <1>4 DEF IInv, HandleIsCurrent, KnownIsFollowed
<1>. QED
  BY <1>5, <1>6 DEF IInv
-----------------------------------------------------------------------------
\* The operation's own steps. Each states what it makes of the operation, and
\* breaks off or goes on to it.

LEMMA LoadKeeps ==
  ASSUME IInv, Load
  PROVE  IInv'
<1>1. State' = State /\ Op' = Op
  BY DEF Load, State, Op
<1>2. op.pc = "loading" /\ UNCHANGED <<lifecycle, now, state, box, boxes, del, known, seen>>
  BY DEF Load, Goes
<1>3. \/ state = None /\ op' = [op EXCEPT !.pc = "attaching"]
      \/ state # None /\ op' = [op EXCEPT !.pc = "evicting", !.reset = TRUE]
      \/ state # None /\ op' = [op EXCEPT !.pc = "getting", !.loaded = state]
  BY DEF Load, Goes
<1>4. /\ op' \in Op /\ op'.pc \in {"attaching", "evicting", "getting"}
      /\ op'.pc = "attaching" => state = None
      /\ op'.pc = "evicting" => op'.reset = TRUE
      /\ op'.pc = "getting" => op'.loaded # None /\ op'.reset = op.reset
  BY <1>3 DEF IInv, TypeOK, Op
<1>5. TypeOK'
  BY <1>1, <1>2, <1>4 DEF IInv, TypeOK
<1>6. HandleIsCurrent' /\ KnownIsFollowed'
  BY <1>2, <1>4 DEF IInv, HandleIsCurrent, KnownIsFollowed
<1>. QED
  BY <1>5, <1>6 DEF IInv

LEMMA AttachKeeps ==
  ASSUME IInv, Attach
  PROVE  IInv'
<1>1. State' = State /\ Op' = Op
  BY DEF Attach, State, Op
<1>2. op.pc = "attaching" /\ UNCHANGED <<lifecycle, now, state, box, boxes, del, known, seen>>
  BY DEF Attach, Goes
<1>3. \/ box = None /\ op' = [op EXCEPT !.pc = "creating"]
      \/ /\ box # None
         /\ op' = [op EXCEPT !.pc = "saving", !.handle = box.id, !.next = InitialState(op.at)]
  BY DEF Attach, Goes
<1>4. op \in Op /\ op.at \in Nat /\ box \in Box \cup {None} /\ TypeOK
  BY DEF IInv, TypeOK, Op
<1>5. InitialState(op.at) \in State /\ InitialState(op.at) # None /\ (box # None => box.id \in Nat)
  BY <1>4, StatesTyped, NoneIsNoRecord DEF Box
<1>6. /\ op' \in Op /\ op'.pc \in {"creating", "saving"}
      /\ op'.pc = "saving" => box # None /\ op'.next # None /\ op'.handle = box.id
  BY <1>3, <1>4, <1>5 DEF Op
<1>7. TypeOK'
  BY <1>1, <1>2, <1>6 DEF IInv, TypeOK
<1>8. HandleIsCurrent' /\ KnownIsFollowed'
  BY <1>2, <1>6 DEF IInv, HandleIsCurrent, KnownIsFollowed
<1>. QED
  BY <1>7, <1>8 DEF IInv

\* Expired: what is there goes, the sandbox before the state.
LEMMA EvictKeeps ==
  ASSUME IInv, Evict \/ Delete \/ Clear
  PROVE  IInv'
<1>1. State' = State /\ Op' = Op
  BY DEF Evict, Delete, Clear, State, Op
<1>2. CASE Evict
  <2>1. /\ op' \in Op /\ op'.pc = (IF box = None THEN "clearing" ELSE "deleting")
        /\ op'.reset = op.reset
    BY <1>2 DEF Evict, Goes, IInv, TypeOK, Op
  <2>2. op.pc = "evicting" /\ UNCHANGED <<lifecycle, now, state, box, boxes, del, known, seen>>
    BY <1>2 DEF Evict, Goes
  <2>3. TypeOK'
    BY <1>1, <2>1, <2>2 DEF IInv, TypeOK
  <2>4. HandleIsCurrent' /\ KnownIsFollowed'
    BY <2>1, <2>2 DEF IInv, HandleIsCurrent, KnownIsFollowed
  <2>. QED
    BY <2>3, <2>4 DEF IInv
<1>3. CASE Delete /\ Breaks
  BY <1>3, BreaksKeeps DEF Delete, IInv, TypeOK
<1>4. CASE Delete /\ ~Breaks
  <2>1. op' = [op EXCEPT !.pc = "clearing"] /\ op.pc = "deleting" /\ box' = None
        /\ UNCHANGED <<lifecycle, now, state, boxes, del, known, seen>>
    BY <1>4 DEF Delete, Then, Goes
  <2>2. op' \in Op /\ op'.pc = "clearing" /\ op'.reset = op.reset
    BY <2>1 DEF IInv, TypeOK, Op
  <2>3. TypeOK'
    BY <1>1, <2>1, <2>2 DEF IInv, TypeOK
  <2>4. HandleIsCurrent' /\ KnownIsFollowed'
    BY <2>1, <2>2 DEF IInv, HandleIsCurrent, KnownIsFollowed
  <2>. QED
    BY <2>3, <2>4 DEF IInv
<1>5. CASE Clear /\ Breaks
  BY <1>5, BreaksKeeps DEF Clear, IInv, TypeOK, HandleIsCurrent
<1>6. CASE Clear /\ ~Breaks
  <2>1. op' = [op EXCEPT !.pc = "creating"] /\ op.pc = "clearing" /\ state' = None
        /\ UNCHANGED <<lifecycle, now, box, boxes, del, known, seen>>
    BY <1>6 DEF Clear, Then, Goes
  <2>2. op' \in Op /\ op'.pc = "creating" /\ op'.reset = op.reset
    BY <2>1 DEF IInv, TypeOK, Op
  <2>3. TypeOK'
    BY <1>1, <2>1, <2>2 DEF IInv, TypeOK
  <2>4. HandleIsCurrent' /\ KnownIsFollowed'
    BY <2>1, <2>2 DEF IInv, HandleIsCurrent, KnownIsFollowed
  <2>. QED
    BY <2>3, <2>4 DEF IInv
<1>. QED
  BY <1>2, <1>3, <1>4, <1>5, <1>6

\* A state in force: the sandbox is the known one, or it has vanished.
LEMMA GetKeeps ==
  ASSUME IInv, Get
  PROVE  IInv'
<1>1. State' = State /\ Op' = Op
  BY DEF Get, State, Op
<1>2. op.pc = "getting" /\ UNCHANGED <<lifecycle, now, state, box, boxes, del, known, seen>>
  BY DEF Get, Goes
<1> DEFINE pc == IF ExtendDelta(op.loaded, op.at) > 0 THEN "extending" ELSE "saving"
           touched == Touched(op.loaded, op.at)
<1>3. \/ box = None /\ op' = [op EXCEPT !.pc = "clearing", !.reset = TRUE]
      \/ /\ box # None
         /\ op' = [op EXCEPT !.handle = box.id, !.next = touched, !.pc = pc]
  BY DEF Get, Goes, VanishedReset
<1>4. op \in Op /\ op.at \in Nat /\ op.loaded \in State /\ box \in Box \cup {None} /\ TypeOK
  BY <1>2 DEF IInv, TypeOK, Op, HandleIsCurrent
<1>5. touched \in State /\ touched # None /\ pc \in {"extending", "saving"}
      /\ (box # None => box.id \in Nat)
  BY <1>4, StatesTyped, NoneIsNoRecord DEF Box
<1>. HIDE DEF pc, touched
<1>6. /\ op' \in Op /\ op'.pc \in {"clearing", "extending", "saving"}
      /\ op'.pc = "clearing" => box = None /\ op'.reset = TRUE
      /\ op'.pc # "clearing" => /\ box # None /\ op'.next # None /\ op'.handle = box.id
                                /\ op'.reset = op.reset /\ op'.loaded = op.loaded
  <2>1. CASE box = None
    BY <1>3, <1>4, <2>1 DEF Op
  <2>2. CASE box # None
    <3>1. op' = [op EXCEPT !.handle = box.id, !.next = touched, !.pc = pc]
      BY <1>3, <2>2
    <3>2. /\ op'.pc = pc /\ op'.handle = box.id /\ op'.next = touched
          /\ op'.reset = op.reset /\ op'.loaded = op.loaded
      BY <1>4, <3>1 DEF Op
    <3>3. op' \in Op
      BY <1>4, <1>5, <2>2, <3>1 DEF Op
    <3>. QED
      BY <1>5, <2>2, <3>2, <3>3
  <2>. QED
    BY <2>1, <2>2
<1>7. TypeOK'
  BY <1>1, <1>2, <1>6 DEF IInv, TypeOK
<1>8. HandleIsCurrent'
  BY <1>2, <1>4, <1>6, NoneIsNoRecord DEF IInv, HandleIsCurrent
<1>9. KnownIsFollowed'
  BY <1>2, <1>6 DEF IInv, KnownIsFollowed
<1>. QED
  BY <1>7, <1>8, <1>9 DEF IInv

LEMMA ExtendKeeps ==
  ASSUME IInv, Extend
  PROVE  IInv'
<1>1. State' = State /\ Op' = Op
  BY DEF Extend, State, Op
<1> DEFINE until == Smaller(box.until + ExtendDelta(op.loaded, op.at), MaxTime + 1)
<1>2. /\ op.pc = "extending" /\ box # None /\ box' = [box EXCEPT !.until = until]
      /\ UNCHANGED <<lifecycle, now, state, boxes, del, seen>>
  BY DEF Extend
<1>3. op.loaded \in State /\ op.at \in Nat /\ box \in Box /\ TypeOK
  BY <1>2 DEF IInv, TypeOK, Op, HandleIsCurrent
<1>4. until \in Nat
  BY <1>3, StatesTyped, SandboxAssumption DEF Smaller, Box
<1>. HIDE DEF until
<1>5. box' \in Box /\ box' # None /\ box'.id = box.id
  BY <1>2, <1>3, <1>4, NoneIsNoRecord DEF Box
<1>6. CASE Breaks
  BY <1>2, <1>5, <1>6, BreaksKeeps DEF IInv, TypeOK, HandleIsCurrent
<1>7. CASE ~Breaks
  <2>1. op' = [op EXCEPT !.pc = "saving"] /\ known' = known
    BY <1>7 DEF Extend, Then, Goes
  <2>2. op' \in Op /\ op'.pc = "saving" /\ op'.reset = op.reset /\ op'.handle = op.handle
        /\ op'.next = op.next
    BY <2>1 DEF IInv, TypeOK, Op
  <2>3. TypeOK'
    BY <1>1, <1>2, <1>5, <2>1, <2>2 DEF IInv, TypeOK
  <2>4. HandleIsCurrent' /\ KnownIsFollowed'
    BY <1>2, <1>5, <2>1, <2>2 DEF IInv, HandleIsCurrent, KnownIsFollowed
  <2>. QED
    BY <2>3, <2>4 DEF IInv
<1>. QED
  BY <1>6, <1>7

\* A created sandbox is none that was known.
LEMMA CreateKeeps ==
  ASSUME IInv, Create
  PROVE  IInv'
<1>1. State' = State /\ Op' = Op
  BY DEF Create, State, Op
<1> DEFINE until == Smaller(now + TimeoutMs, MaxTime + 1)
           created == boxes + 1
<1>2. /\ op.pc = "creating" /\ boxes' = created /\ box' = [id |-> created, until |-> until]
      /\ UNCHANGED <<lifecycle, now, state, del, seen>>
  BY DEF Create
<1>3. TypeOK /\ op.at \in Nat /\ now \in Nat /\ boxes \in Nat /\ op \in Op
  BY DEF IInv, TypeOK, Op
<1>4. until \in Nat /\ created \in Nat /\ boxes < created
  BY <1>3, SandboxAssumption DEF Smaller, TimeoutMs
<1>5. InitialState(op.at) \in State /\ InitialState(op.at) # None
  BY <1>3, StatesTyped, NoneIsNoRecord
<1>. HIDE DEF until, created
<1>6. box' \in Box /\ box'.id = created
  BY <1>2, <1>4 DEF Box
<1>7. CASE Breaks
  BY <1>2, <1>3, <1>4, <1>6, <1>7, BreaksKeeps DEF IInv, TypeOK
<1>8. CASE ~Breaks
  <2>1. /\ op' = [op EXCEPT !.pc = "saving", !.handle = created, !.next = InitialState(op.at)]
        /\ known' = known
    BY <1>2, <1>8 DEF Create, Then, Goes
  <2>2. op' \in Op /\ op'.pc = "saving" /\ op'.reset = op.reset /\ op'.handle = created
        /\ op'.next # None
    BY <1>3, <1>4, <1>5, <2>1 DEF Op
  <2>3. TypeOK'
    BY <1>1, <1>2, <1>4, <1>6, <2>1, <2>2 DEF IInv, TypeOK
  <2>4. HandleIsCurrent'
    BY <1>2, <1>4, <1>6, <2>2 DEF HandleIsCurrent
  <2>5. KnownIsFollowed'
    BY <1>2, <1>3, <1>4, <2>1, <2>2 DEF IInv, TypeOK, KnownIsFollowed
  <2>. QED
    BY <2>3, <2>4, <2>5 DEF IInv
<1>. QED
  BY <1>7, <1>8

LEMMA SaveKeeps ==
  ASSUME IInv, Save
  PROVE  IInv'
<1>1. State' = State /\ Op' = Op
  BY DEF Save, State, Op
<1>2. op.pc = "saving" /\ state' = op.next /\ UNCHANGED <<lifecycle, now, box, boxes, del, seen>>
  BY DEF Save
<1>3. state' \in State /\ state' # None /\ op.handle \in Nat /\ op.handle <= boxes
  BY <1>2 DEF IInv, TypeOK, Op, HandleIsCurrent
<1>4. CASE Breaks
  BY <1>2, <1>3, <1>4, BreaksKeeps DEF IInv, TypeOK, HandleIsCurrent
<1>5. CASE ~Breaks
  <2>1. op' = [op EXCEPT !.pc = "using"] /\ known' = (IF del = "idle" THEN op.handle ELSE 0)
    BY <1>5 DEF Save
  <2>2. op' \in Op /\ op'.pc = "using" /\ op'.handle = op.handle
    BY <2>1 DEF IInv, TypeOK, Op
  <2>3. TypeOK'
    BY <1>1, <1>2, <1>3, <2>1, <2>2 DEF IInv, TypeOK
  <2>4. HandleIsCurrent' /\ KnownIsFollowed'
    BY <1>2, <1>3, <2>1, <2>2 DEF IInv, HandleIsCurrent, KnownIsFollowed
  <2>. QED
    BY <2>3, <2>4 DEF IInv
<1>. QED
  BY <1>4, <1>5

LEMMA UseKeeps ==
  ASSUME IInv, Use \/ Fail
  PROVE  IInv'
<1>1. CASE Use
  <2>1. State' = State /\ Op' = Op
    BY <1>1 DEF Use, State, Op
  <2>2. op.pc = "using" /\ UNCHANGED <<lifecycle, now, state, box, boxes, del, known>>
        /\ op'.pc = "idle" /\ op' \in Op /\ seen' \in Nat
    BY <1>1, NoOpTyped DEF Use, IInv, TypeOK, Op
  <2>3. TypeOK'
    BY <2>1, <2>2 DEF IInv, TypeOK
  <2>4. HandleIsCurrent' /\ KnownIsFollowed'
    BY <2>2 DEF IInv, HandleIsCurrent, KnownIsFollowed
  <2>. QED
    BY <2>3, <2>4 DEF IInv
<1>2. CASE Fail
  BY <1>2, BreaksKeeps DEF Fail, IInv, TypeOK, HandleIsCurrent
<1>. QED
  BY <1>1, <1>2

-----------------------------------------------------------------------------

\* While a delete is at work nothing is known.
LEMMA DeleteKeeps ==
  ASSUME IInv, DelLoad \/ DelGet \/ DelDelete \/ DelClear \/ DelFail
  PROVE  IInv'
<1>1. State' = State /\ Op' = Op /\ UNCHANGED <<lifecycle, now, boxes, op>>
  BY DEF DelLoad, DelGet, DelDelete, DelClear, DelFail, State, Op
<1>2. /\ del' \in {"idle", "getting", "deleting", "clearing"} /\ known' = 0 /\ seen' \in Nat
      /\ state' \in {state, None} /\ box' \in {box, None}
  BY DEF DelLoad, DelGet, DelDelete, DelClear, DelFail, IInv, TypeOK, KnownIsFollowed
<1>3. TypeOK'
  BY <1>1, <1>2 DEF IInv, TypeOK
<1>4. HandleIsCurrent' /\ KnownIsFollowed'
  BY <1>1, <1>2 DEF IInv, HandleIsCurrent, KnownIsFollowed
<1>. QED
  BY <1>3, <1>4 DEF IInv

\* A sandbox may end at any moment: what is said of it holds of none.
LEMMA EndsKeeps ==
  ASSUME IInv, Ends \/ Tick
  PROVE  IInv'
<1>1. State' = State /\ Op' = Op
  BY DEF Ends, Tick, State, Op
<1>2. /\ UNCHANGED <<lifecycle, state, boxes, op, del, known, seen>>
      /\ box' \in {box, None} /\ now' \in Nat
  BY DEF Ends, Tick, IInv, TypeOK
<1>3. TypeOK'
  BY <1>1, <1>2 DEF IInv, TypeOK
<1>4. HandleIsCurrent' /\ KnownIsFollowed'
  BY <1>2 DEF IInv, HandleIsCurrent, KnownIsFollowed
<1>. QED
  BY <1>3, <1>4 DEF IInv

-----------------------------------------------------------------------------

\* The invariant is inductive: it is kept by every step of an operation, of a
\* delete, of the provider and of the clock (layer.ts).
THEOREM InvariantHolds == Spec => []IInv
<1>1. Init => IInv
  <2>. SUFFICES ASSUME Init PROVE IInv
    OBVIOUS
  <2>0. /\ state # None => state \in State /\ boxes = 1
        /\ state = None => boxes = 0
    <3>1. InitialState(0) \in State
      BY SandboxAssumption DEF InitialState, State
    <3>. QED
      BY <3>1, NoneIsNoRecord DEF Init, State
  <2>1. TypeOK
    BY <2>0, NoOpTyped DEF Init, TypeOK
  <2>2. HandleIsCurrent /\ KnownIsFollowed
    BY <2>0, NoOpTyped DEF Init, HandleIsCurrent, KnownIsFollowed
  <2>. QED
    BY <2>1, <2>2 DEF IInv
<1>2. IInv /\ [Next]_vars => IInv'
  <2>. SUFFICES ASSUME IInv, [Next]_vars PROVE IInv'
    OBVIOUS
  <2>1. ASSUME NEW kind \in {"run", "file"}, Start(kind) PROVE IInv'
    BY <2>1, StartKeeps
  <2>2. CASE UNCHANGED vars
    BY <2>2 DEF vars, IInv, TypeOK, State, Op, HandleIsCurrent, KnownIsFollowed
  <2>. QED
    BY <2>1, <2>2, LoadKeeps, AttachKeeps, EvictKeeps, GetKeeps, ExtendKeeps, CreateKeeps,
       SaveKeeps, UseKeeps, DeleteKeeps, EndsKeeps DEF Next
<1>. QED
  BY <1>1, <1>2, PTL DEF Spec

\* Every variable has its type, whatever the bounds (layer.ts, lifecycle.ts).
THEOREM TypeCorrect == Spec => []TypeOK
<1>1. IInv => TypeOK
  BY DEF IInv
<1>. QED
  BY <1>1, InvariantHolds, PTL

\* For every idle time, lifetime and number of sandboxes, an operation that
\* has made sure of a sandbox is told of a reset exactly when its workspace is
\* not that of the operation before, unless a call failed or somebody deleted
\* (layer.ts, ensureSandbox).
THEOREM EnsureAlwaysTells == Spec => EnsureTellsOfReset
<1> DEFINE Tells == op.pc = "saving" /\ op'.pc = "using" /\ known # 0 /\ del = "idle" =>
                      (op.reset <=> op.handle # known)
<1>1. ASSUME IInv, [Next]_vars PROVE [Tells]_vars
  <2>. SUFFICES ASSUME op.pc = "saving", known # 0 PROVE op.reset <=> op.handle # known
    OBVIOUS
  <2>1. op.reset \in BOOLEAN /\ (op.reset = TRUE <=> op.handle # known)
    BY <1>1 DEF IInv, TypeOK, Op, KnownIsFollowed
  <2>. QED
    BY <2>1
<1>. QED
  BY <1>1, InvariantHolds, PTL DEF Spec, EnsureTellsOfReset

=============================================================================
