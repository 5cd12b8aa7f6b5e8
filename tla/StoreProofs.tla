---------------------------- MODULE StoreProofs ----------------------------
(***************************************************************************)
(* Theorems about the two components that live on a store shared with      *)
(* others, for any runs, fibers, accounts and requests.                    *)
(*                                                                         *)
(* RunStore: readers never see anything but the durable record, and the    *)
(* store implements ClaimStore's atomic record through its saves,          *)
(* failures, cancelled waits and crashes.                                  *)
(*                                                                         *)
(* Pool: a cooldown is cleared only on a later reading, a request fails    *)
(* over cleanly and is told the truth when nothing is left, whatever the   *)
(* other requests and the host do to the store in between.                 *)
(***************************************************************************)
EXTENDS RunStore, Pool, FiniteSetTheorems, TLAPS

-----------------------------------------------------------------------------
(* RunStore: what is saved and what is seen.                               *)

\* The fiber whose save landed saved what is now durable.
SavedIsDurable ==
  \A f \in Fibers : pc[f] = "saved" => next[f] = durable

\* Only an operation is saved, and the fiber that saves it sees a memory equal
\* to the durable record.
SaverReady ==
  \A f \in Fibers : pc[f] \in {"waiting", "saving"} => op[f] \in Ops

InSync == (\A f \in Fibers : pc[f] # "saved") => memory = durable

\* The inductive invariant. LockHeld makes the other parts inductive: a save
\* is computed from the memory while nobody else can change it.
Locking == LockHeld /\ SavesCurrent /\ SavedIsDurable /\ SaverReady /\ InSync

IInv == TypeOK /\ Locking

\* An operation on a snapshot yields a snapshot.
LEMMA ApplyType ==
  ASSUME NEW s \in Claims!Snapshot, NEW o \in Ops
  PROVE  Claims!Apply(o.kind, o.run, s) \in Claims!Snapshot
<1>1. /\ s.claimed \in SUBSET Runs /\ s.resumes \in [Runs -> Nat]
      /\ s = [claimed |-> s.claimed, resumes |-> s.resumes]
      /\ o.run \in Runs /\ o.kind \in {"claim", "release", "increment"}
  BY DEF Claims!Snapshot, Claims!Kinds, Ops
<1>2. CASE o.kind = "claim"
  BY <1>1, <1>2 DEF Claims!Snapshot, Claims!Apply
<1>3. CASE o.kind = "release"
  <2>1. Claims!Apply(o.kind, o.run, s) = [s EXCEPT !.claimed = @ \ {o.run}, !.resumes[o.run] = 0]
    BY <1>3 DEF Claims!Apply
  <2>2. [s.resumes EXCEPT ![o.run] = 0] \in [Runs -> Nat]
    BY <1>1
  <2>3. s.claimed \ {o.run} \in SUBSET Runs
    BY <1>1
  <2> QED
    BY <1>1, <2>1, <2>2, <2>3 DEF Claims!Snapshot
<1>4. CASE o.kind = "increment"
  <2>1. Claims!Apply(o.kind, o.run, s) = [s EXCEPT !.resumes[o.run] = @ + 1]
    BY <1>4 DEF Claims!Apply
  <2>2. [s.resumes EXCEPT ![o.run] = @ + 1] \in [Runs -> Nat]
    BY <1>1
  <2> QED
    BY <1>1, <2>1, <2>2 DEF Claims!Snapshot
<1> QED
  BY <1>1, <1>2, <1>3, <1>4

\* A fresh store is an empty snapshot.
LEMMA EmptyType == Claims!EmptySnapshot \in Claims!Snapshot
BY DEF Claims!EmptySnapshot, Claims!Snapshot

LEMMA InitInv == Init => IInv
BY NoFiberAssumption, EmptyType
DEF Init, IInv, Locking, TypeOK, LockHeld, SavesCurrent, SavedIsDurable, SaverReady, InSync,
    Phases

\* Type correctness is preserved by each action.
LEMMA TypeStep == IInv /\ [Next]_vars => TypeOK'
<1> SUFFICES ASSUME IInv, [Next]_vars PROVE TypeOK'
  OBVIOUS
<1> USE DEF IInv, TypeOK, Phases
<1>1. ASSUME NEW f \in Fibers, NEW k \in Claims!Kinds, NEW r \in Runs, Call(f, k, r)
      PROVE  TypeOK'
  BY <1>1 DEF Call, Ops
<1>2. ASSUME NEW f \in Fibers, Acquire(f)
      PROVE  TypeOK'
  <2>1. op[f] \in Ops
    BY <1>2 DEF Acquire, Locking, SaverReady
  <2>2. Applied(f, memory) \in Claims!Snapshot
    BY <2>1, ApplyType DEF Applied
  <2> QED
    BY <1>2, <2>2 DEF Acquire
<1>3. ASSUME NEW f \in Fibers, CancelWait(f)
      PROVE  TypeOK'
  BY <1>3, EmptyType DEF CancelWait, Leaves
<1>4. ASSUME NEW f \in Fibers, SaveOk(f)
      PROVE  TypeOK'
  BY <1>4 DEF SaveOk
<1>5. ASSUME NEW f \in Fibers, SaveFails(f)
      PROVE  TypeOK'
  BY <1>5, EmptyType DEF SaveFails, Leaves
<1>6. ASSUME NEW f \in Fibers, Commit(f)
      PROVE  TypeOK'
  BY <1>6, EmptyType DEF Commit, Leaves
<1>7. CASE Crash
  BY <1>7, EmptyType DEF Crash
<1>8. CASE UNCHANGED vars
  BY <1>8 DEF vars
<1> QED
  BY <1>1, <1>2, <1>3, <1>4, <1>5, <1>6, <1>7, <1>8 DEF Next

\* The rest of the invariant, action by action.
LEMMA StepInv == IInv /\ [Next]_vars => IInv'
<1> SUFFICES ASSUME IInv, [Next]_vars PROVE IInv'
  OBVIOUS
<1>0. TypeOK'
  BY TypeStep
<1> USE NoFiberAssumption
    DEF IInv, Locking, TypeOK, Phases, LockHeld, SavesCurrent, SavedIsDurable, SaverReady,
        InSync, Applied
<1>1. ASSUME NEW f \in Fibers, NEW k \in Claims!Kinds, NEW r \in Runs, Call(f, k, r)
      PROVE  Locking'
  BY <1>1 DEF Call, Ops
<1>2. ASSUME NEW f \in Fibers, Acquire(f)
      PROVE  Locking'
  BY <1>2 DEF Acquire
<1>3. ASSUME NEW f \in Fibers, CancelWait(f)
      PROVE  Locking'
  BY <1>3 DEF CancelWait, Leaves
<1>4. ASSUME NEW f \in Fibers, SaveOk(f)
      PROVE  Locking'
  BY <1>4 DEF SaveOk
<1>5. ASSUME NEW f \in Fibers, SaveFails(f)
      PROVE  Locking'
  BY <1>5 DEF SaveFails, Leaves
<1>6. ASSUME NEW f \in Fibers, Commit(f)
      PROVE  Locking'
  BY <1>6 DEF Commit, Leaves
<1>7. ASSUME Crash
      PROVE  Locking'
  BY <1>7 DEF Crash
<1>8. ASSUME UNCHANGED vars
      PROVE  Locking'
  BY <1>8 DEF vars
<1> QED
  BY <1>0, <1>1, <1>2, <1>3, <1>4, <1>5, <1>6, <1>7, <1>8 DEF Next

LEMMA Invariance == Spec => []IInv
BY InitInv, StepInv, PTL DEF Spec

\* Every state of the store is well typed.
THEOREM TypeCorrect == Spec => []TypeOK
<1>1. IInv => TypeOK
  BY DEF IInv
<1> QED
  BY <1>1, Invariance, PTL

\* What a reader of the store sees (isClaimed, claimed, resumeCount) is the
\* durable record, up to a save that landed and is about to be answered.
THEOREM ReadersSeeDurable == Spec => []MemoryMatchesDurable
<1>1. IInv => MemoryMatchesDurable
  BY DEF IInv, Locking, InSync, SavedIsDurable, MemoryMatchesDurable
<1> QED
  BY <1>1, Invariance, PTL

\* A save writes the effect of one whole operation on the durable record, and
\* nothing else writes it.
LEMMA StepImplements == IInv /\ [Next]_vars => [Claims!Next]_durable
<1> SUFFICES ASSUME IInv, Next PROVE Claims!Next \/ UNCHANGED durable
  BY DEF vars
<1>1. ASSUME NEW f \in Fibers, SaveOk(f)
      PROVE  Claims!Next
  <2>1. op[f] \in Ops /\ durable' = Claims!Apply(op[f].kind, op[f].run, durable)
    BY <1>1 DEF SaveOk, IInv, Locking, SaverReady, SavesCurrent, Applied
  <2> QED
    BY <2>1 DEF Claims!Next, Ops
<1> QED
  BY <1>1 DEF Next, Call, Acquire, CancelWait, SaveFails, Commit, Crash

\* The snapshot store implements the atomic claim record: no update is lost to
\* a concurrent mutation, a failed save, a cancelled wait or a crash.
THEOREM Refinement == Spec => ImplementsClaims
<1>1. Init => Claims!Init
  BY DEF Init, Claims!Init
<1> QED
  BY <1>1, StepImplements, Invariance, PTL DEF Spec, ImplementsClaims, Claims!Spec

-----------------------------------------------------------------------------
(* The pool: what a request knows.                                         *)

\* What is true of the state q of a request by itself.
Sound(q) ==
  /\ q.emitted => q.phase = "stream"
  /\ q.excluded = {c.account : c \in q.recorded}
  /\ q.phase \in {"clear", "move", "stream", "put"} => q.choice \notin q.excluded
  /\ q.phase \in {"move", "stream", "put"} => q.choice \in Accounts
  /\ q.phase = "put" => q.failure \in Cooldown /\ q.failure.account = q.choice
  /\ q.told = "auth" => \A c \in q.recorded : c.kind = "auth"

\* The store has a reading of the account taken after its cooldown began. No
\* reading is replaced by an earlier one, so it stays that way.
Outdated(c) ==
  readings[c.account] # None /\ readings[c.account].fetched > c.started

\* The inductive invariant of the pool.
PoolInv ==
  /\ PoolOK
  /\ \A r \in Requests : Sound(req[r]) /\ \A c \in req[r].stale : Outdated(c)

LEMMA PoolConstants ==
  /\ None \notin Accounts /\ 0 \in Times
  /\ NewRequest \in RequestState /\ Sound(NewRequest)
BY PoolAssumption, NoneAssumption DEF Times, NewRequest, RequestState, RequestPhases, Sound

LEMMA OverIsSound ==
  ASSUME NEW told \in Kinds \cup {None}
  PROVE  /\ Over(told) \in RequestState /\ Sound(Over(told)) /\ Over(told).stale = {}
         /\ Over(told).told = told /\ Over(told).phase = "done"
BY PoolConstants DEF Over, NewRequest, RequestState, RequestPhases, Sound

\* A request streams or moves the pin with the account it has picked.
LEMMA StreamingIsSound ==
  ASSUME NEW q \in RequestState, Sound(q), ~q.emitted, q.phase \in {"clear", "move"},
         q.choice \in Accounts
  PROVE  /\ Streaming(q) \in RequestState /\ Sound(Streaming(q))
         /\ Streaming(q).stale = q.stale
         /\ Streaming(q).told = q.told /\ Streaming(q).phase = "stream"
BY PoolConstants DEF Streaming, RequestState, RequestPhases, Sound

LEMMA DecidedIsSound ==
  ASSUME NEW q \in RequestState, Sound(q), ~q.emitted, q.phase = "clear"
  PROVE  /\ Decided(q) \in RequestState /\ Sound(Decided(q))
         /\ Decided(q).stale \subseteq q.stale
         /\ Decided(q).told \in {q.told, None} /\ Decided(q).phase # "put"
<1>1. CASE q.choice = None
  <2>1. q.told \in Kinds \cup {None}
    BY DEF RequestState
  <2>. QED
    BY <1>1, <2>1, OverIsSound DEF Decided
<1>2. CASE q.choice # None
  <2>1. q.choice \in Accounts
    BY <1>2 DEF RequestState
  <2>2. CASE q.choice = q.expected
    BY <1>2, <2>1, <2>2, StreamingIsSound DEF Decided
  <2>3. CASE q.choice # q.expected
    BY <1>2, <2>1, <2>3, PoolConstants DEF Decided, RequestState, RequestPhases, Sound
  <2>. QED
    BY <2>2, <2>3
<1>. QED
  BY <1>1, <1>2

\* Nobody is picked who is not available.
LEMMA RankedAreAvailable ==
  ASSUME NEW unavailable, NEW known, NEW pin, NEW route, NEW t
  PROVE  Ranked(unavailable, known, pin, route, t) \subseteq Accounts \ unavailable
BY DEF Ranked

\* The pick leaves out every account that failed the request, clears what a
\* newer reading has shown to be over and blames the credentials only when
\* nothing but credentials failed.
LEMMA PickedIsSound ==
  ASSUME PoolInv, NEW r \in Requests, req[r].phase = "load",
         NEW pin \in Accounts \cup {None},
         NEW known, NEW cooling \in [Accounts -> Cooldown \cup {None}],
         known = readings \/ known = [a \in Accounts |-> None]
  PROVE  LET p == Picked(r, pin, known, cooling)
         IN /\ p \in RequestState /\ Sound(p) /\ \A c \in p.stale : Outdated(c)
            /\ p.told = "auth" => \A c \in req[r].recorded : c.kind = "auth"
<1> DEFINE q == req[r]
           t == q.at
           stored == {cooling[a] : a \in Accounts} \ {None}
           stale == {c \in stored : IsStale(c, known[c.account], t)}
           seen == {c \in stored \ stale : Active(c, t)}
           out == {c.account : c \in seen \cup {d \in q.recorded : Active(d, t)}}
           ranked == Ranked(q.excluded \cup out, known, pin, RouteOf[r], t)
           choice == IF ranked = {} THEN None ELSE CHOOSE a \in ranked : TRUE
           kinds == {c.kind : c \in Counted(seen, q.recorded, t)}
           told == IF choice # None THEN None ELSE IF "quota" \in kinds THEN "rate_limit" ELSE "auth"
           picked == [q EXCEPT !.phase = "clear", !.stale = stale, !.choice = choice,
                               !.expected = pin, !.told = told]
<1>1. q \in RequestState /\ Sound(q) /\ ~q.emitted
  BY DEF PoolInv, PoolOK, Sound
<1>2. stale \subseteq Cooldown /\ \A c \in stale : Outdated(c)
  <2>1. stored \subseteq Cooldown
    OBVIOUS
  <2>2. ASSUME NEW c \in stale PROVE Outdated(c)
    <3>1. c.account \in Accounts
      BY <2>1 DEF Cooldown
    <3>2. known[c.account] # None /\ known[c.account].fetched > c.started
      BY DEF IsStale, Fresh
    <3>. QED
      BY <3>1, <3>2 DEF Outdated
  <2>. QED
    BY <2>1, <2>2
<1>3. choice \in (Accounts \ q.excluded) \cup {None}
  <2>1. ranked \subseteq Accounts \ q.excluded
    BY RankedAreAvailable
  <2>. HIDE DEF ranked
  <2>. QED
    BY <2>1
<1>4. choice \notin q.excluded
  BY <1>1, <1>3, PoolConstants DEF RequestState
<1>5. told \in Kinds \cup {None} /\ (told = "auth" => \A c \in q.recorded : c.kind = "auth")
  <2>1. told \in Kinds \cup {None}
    BY DEF Kinds
  <2>2. ASSUME told = "auth", NEW c \in q.recorded PROVE c.kind = "auth"
    <3>1. c.kind \in kinds
      BY DEF Counted
    <3>2. "quota" \notin kinds
      <4>. HIDE DEF kinds, choice
      <4>. QED
        BY <2>2, NoneAssumption DEF Kinds
    <3>3. c.kind \in {"quota", "auth"}
      BY <1>1 DEF RequestState, Cooldown
    <3>. QED
      BY <2>2, <3>1, <3>2, <3>3
  <2>. QED
    BY <2>1, <2>2
<1>6. Picked(r, pin, known, cooling) = IF stale = {} THEN Decided(picked) ELSE picked
  BY DEF Picked
<1>. HIDE DEF q, stale, choice, told
<1>7. picked \in RequestState /\ Sound(picked) /\ ~picked.emitted /\ picked.phase = "clear"
      /\ picked.stale = stale /\ picked.told = told
  BY <1>1, <1>2, <1>3, <1>4, <1>5 DEF RequestState, RequestPhases, Sound
<1>. HIDE DEF picked
<1>. QED
  BY <1>2, <1>5, <1>6, <1>7, DecidedIsSound, NoneAssumption DEF q, Kinds

\* What the step of a request that knew q may make of what it knows, p.
Follows(q, p) ==
  /\ p \in RequestState /\ Sound(p) /\ \A c \in p.stale : Outdated(c)
  /\ q.emitted => p.phase \in {"stream", "done"}
  /\ p.told = "auth" => \A c \in q.recorded : c.kind = "auth"

LEMMA RequestStepFollows ==
  ASSUME PoolInv, NEW r \in Requests, PutCooldown(r) \/ RequestSteps(r)
  PROVE  \E p : Follows(req[r], p) /\ req' = [req EXCEPT ![r] = p]
<1> DEFINE q == req[r]
<1>1. /\ q \in RequestState /\ Sound(q) /\ \A c \in q.stale : Outdated(c)
      /\ now \in Times /\ None \notin Kinds
  BY NoneAssumption DEF PoolInv, PoolOK
<1>2. CASE Start(r)
  <2> DEFINE p == [q EXCEPT !.phase = "load", !.at = now]
  <2>1. Follows(q, p)
    BY <1>1, <1>2 DEF Start, Follows, RequestState, RequestPhases, Sound
  <2>2. req' = [req EXCEPT ![r] = p]
    BY <1>1, <1>2 DEF Start, PoolInv, PoolOK
  <2>. QED
    BY <2>1, <2>2
<1>3. CASE Load(r) \/ LoadFails(r)
  <2>1. PICK pin \in Accounts \cup {None}, known \in {readings, [a \in Accounts |-> None]},
             cooling \in [Accounts -> Cooldown \cup {None}] :
          q.phase = "load" /\ req' = [req EXCEPT ![r] = Picked(r, pin, known, cooling)]
    <3>1. CASE Load(r)
      <4>1. pins[RouteOf[r]] \in Accounts \cup {None}
        BY PoolAssumption DEF PoolInv, PoolOK
      <4>2. cooldowns \in [Accounts -> Cooldown \cup {None}]
        BY DEF PoolInv, PoolOK
      <4>. QED
        BY <3>1, <4>1, <4>2 DEF Load
    <3>2. CASE LoadFails(r)
      BY <3>2 DEF LoadFails
    <3>. QED
      BY <1>3, <3>1, <3>2
  <2> DEFINE p == Picked(r, pin, known, cooling)
  <2>2. /\ p \in RequestState /\ Sound(p) /\ \A c \in p.stale : Outdated(c)
        /\ p.told = "auth" => \A c \in q.recorded : c.kind = "auth"
    BY <2>1, PickedIsSound
  <2>. HIDE DEF p
  <2>3. Follows(q, p)
    BY <1>1, <2>1, <2>2 DEF Follows, Sound
  <2>. QED
    BY <2>1, <2>3 DEF p
<1>4. CASE Clear(r)
  <2>1. PICK c \in q.stale :
          LET left == [q EXCEPT !.stale = @ \ {c}]
          IN req' = [req EXCEPT ![r] = IF left.stale = {} THEN Decided(left) ELSE left]
    BY <1>4 DEF Clear
  <2> DEFINE left == [q EXCEPT !.stale = @ \ {c}]
             p == IF left.stale = {} THEN Decided(left) ELSE left
  <2>2. /\ left \in RequestState /\ Sound(left) /\ left.stale \subseteq q.stale
        /\ left.phase = "clear" /\ ~left.emitted /\ left.told = q.told
    BY <1>1, <1>4 DEF Clear, RequestState, RequestPhases, Sound
  <2>3. ~q.emitted
    BY <1>1, <1>4 DEF Clear, Sound
  <2>. HIDE DEF left
  <2>4. Follows(q, p)
    <3>1. /\ Decided(left) \in RequestState /\ Sound(Decided(left))
          /\ Decided(left).stale \subseteq left.stale
          /\ Decided(left).told \in {left.told, None}
      BY <2>2, DecidedIsSound
    <3>. QED
      BY <1>1, <2>2, <2>3, <3>1 DEF Follows, Sound, Kinds
  <2>. QED
    BY <2>1, <2>4 DEF left
<1>5. CASE MovePin(r)
  <2>1. Follows(q, Streaming(q))
    <3>1. q.phase = "move" /\ q.choice \in Accounts /\ ~q.emitted
      BY <1>1, <1>5 DEF MovePin, Sound
    <3>. QED
      BY <1>1, <3>1, StreamingIsSound DEF Follows, Sound
  <2>. QED
    BY <1>5, <2>1 DEF MovePin
<1>6. CASE Emit(r)
  <2> DEFINE p == [q EXCEPT !.emitted = TRUE]
  <2>1. Follows(q, p)
    BY <1>1, <1>6 DEF Emit, Follows, RequestState, RequestPhases, Sound
  <2>2. req' = [req EXCEPT ![r] = p]
    BY <1>6 DEF Emit
  <2>. QED
    BY <2>1, <2>2
<1>7. CASE req' = [req EXCEPT ![r] = Over(None)]
  <2>1. Follows(q, Over(None))
    BY <1>1, OverIsSound DEF Follows, Kinds
  <2>. QED
    BY <1>7, <2>1
<1>8. ASSUME NEW c \in FailureCooldowns(q.choice, now), q.phase = "stream", FailsOver(r),
             req' = [req EXCEPT ![r].phase = "put", ![r].failure = c]
      PROVE  \E p : Follows(q, p) /\ req' = [req EXCEPT ![r] = p]
  <2> DEFINE p == [q EXCEPT !.phase = "put", !.failure = c]
  <2>1. c \in Cooldown /\ c.account = q.choice
    <3>1. q.choice \in Accounts
      BY <1>1, <1>8 DEF Sound
    <3>. QED
      BY <1>1, <1>8, <3>1, PoolAssumption DEF FailureCooldowns, Cooldown, Times
  <2>2. Follows(q, p)
    BY <1>1, <1>8, <2>1 DEF FailsOver, Follows, RequestState, RequestPhases, Sound
  <2>3. req' = [req EXCEPT ![r] = p]
    BY <1>8 DEF PoolInv, PoolOK
  <2>. QED
    BY <2>2, <2>3
<1>9. CASE q.phase = "put" /\ PicksAgain(r)
  <2> DEFINE p == [NewRequest EXCEPT !.phase = "load", !.at = now, !.excluded = Excludes(r),
                                     !.recorded = q.recorded \cup {q.failure}]
  <2>1. /\ q.choice \in Accounts /\ q.failure \in Cooldown /\ q.failure.account = q.choice
        /\ q.excluded = {c.account : c \in q.recorded} /\ ~q.emitted
    BY <1>1, <1>9 DEF Sound
  <2>2. Excludes(r) = {c.account : c \in q.recorded \cup {q.failure}}
    BY <2>1 DEF Excludes
  <2>3. Excludes(r) \subseteq Accounts
    BY <1>1, <2>1 DEF Excludes, RequestState
  <2>4. q.recorded \cup {q.failure} \subseteq Cooldown
    BY <1>1, <2>1 DEF RequestState
  <2>5. Follows(q, p)
    BY <1>1, <2>1, <2>2, <2>3, <2>4 DEF Follows, NewRequest, RequestState, RequestPhases, Sound, Kinds
  <2>6. req' = [req EXCEPT ![r] = p]
    BY <1>9 DEF PicksAgain
  <2>. QED
    BY <2>5, <2>6
<1>. QED
  BY <1>2, <1>3, <1>4, <1>5, <1>6, <1>7, <1>8, <1>9
  DEF RequestSteps, PutCooldown, PutFails, StreamEnds, AccountFails, Cancel

\* The store stays well typed, and no reading is replaced by an earlier one.
LEMMA StoreStep ==
  ASSUME PoolInv, [PoolNext]_poolVars
  PROVE  /\ now' \in Times
         /\ pins' \in [Routes -> Accounts \cup {None}]
         /\ cooldowns' \in [Accounts -> Cooldown \cup {None}]
         /\ readings' \in [Accounts -> Reading \cup {None}]
         /\ \A c \in Cooldown : Outdated(c) => Outdated(c)'
<1>. USE DEF PoolInv, PoolOK
<1>1. CASE Tick
  BY <1>1, PoolAssumption DEF Tick, Times, Outdated
<1>2. ASSUME NEW r \in Requests, RequestSteps(r) \/ PutCooldown(r)
      PROVE  /\ UNCHANGED <<now, readings>>
             /\ pins' \in [Routes -> Accounts \cup {None}]
             /\ cooldowns' \in [Accounts -> Cooldown \cup {None}]
  <2>1. req[r] \in RequestState /\ Sound(req[r])
    OBVIOUS
  <2>2. CASE MovePin(r)
    BY <2>1, <2>2 DEF MovePin, Sound
  <2>3. CASE Clear(r)
    BY <2>3 DEF Clear
  <2>4. CASE PutCooldown(r)
    <3>1. req[r].failure \in Cooldown
      BY <2>1, <2>4 DEF PutCooldown, Sound
    <3>. QED
      BY <2>4, <3>1 DEF PutCooldown, Kept
  <2>. QED
    BY <1>2, <2>2, <2>3, <2>4
    DEF RequestSteps, Start, Load, LoadFails, Emit, StreamEnds, AccountFails, PutFails, Cancel
<1>3. ASSUME NEW a \in Polled, NEW reading \in Reading, RecordReading(a, reading)
      PROVE  /\ UNCHANGED <<now, pins, cooldowns>>
             /\ readings' \in [Accounts -> Reading \cup {None}]
             /\ \A c \in Cooldown : Outdated(c) => Outdated(c)'
  <2>1. UNCHANGED <<now, pins, cooldowns>> /\ readings' \in [Accounts -> Reading \cup {None}]
    BY <1>3 DEF RecordReading
  <2>2. ASSUME NEW c \in Cooldown, Outdated(c) PROVE Outdated(c)'
    <3>1. c.account \in Accounts /\ c.started \in Nat
      BY DEF Cooldown
    <3>2. CASE c.account # a
      BY <1>3, <2>2, <3>1, <3>2 DEF RecordReading, Outdated
    <3>3. CASE c.account = a
      <4>1. readings'[a] = reading /\ reading.fetched \in Nat
        BY <1>3, <3>1, <3>3 DEF RecordReading, Reading, Times
      <4>2. readings[a] \in Reading /\ readings[a].fetched \in Nat
        BY <2>2, <3>1, <3>3 DEF Outdated, Reading, Times
      <4>3. reading.fetched >= readings[a].fetched
        BY <1>3, <2>2, <3>3 DEF RecordReading, Outdated
      <4>4. reading.fetched > c.started
        BY <2>2, <3>1, <3>3, <4>1, <4>2, <4>3 DEF Outdated
      <4>5. reading # None
        BY NoneAssumption
      <4>. QED
        BY <3>3, <4>1, <4>4, <4>5 DEF Outdated
    <3>. QED
      BY <3>2, <3>3
  <2>. QED
    BY <2>1, <2>2
<1>4. CASE UNCHANGED poolVars
  BY <1>4 DEF poolVars, Outdated
<1>. QED
  BY <1>1, <1>2, <1>3, <1>4 DEF PoolNext, Outdated

\* A step moves at most one request, and what it knew binds it.
LEMMA RequestsFollow ==
  ASSUME PoolInv, [PoolNext]_poolVars
  PROVE  /\ req' \in [Requests -> RequestState]
         /\ \A r \in Requests : req'[r] = req[r] \/ Follows(req[r], req'[r])
<1>1. ASSUME NEW r \in Requests, NEW p, Follows(req[r], p), req' = [req EXCEPT ![r] = p]
      PROVE  /\ req' \in [Requests -> RequestState]
             /\ \A s \in Requests : req'[s] = req[s] \/ Follows(req[s], req'[s])
  <2>1. req \in [Requests -> RequestState] /\ p \in RequestState
    BY <1>1 DEF PoolInv, PoolOK, Follows
  <2>2. \A s \in Requests : req'[s] = IF s = r THEN p ELSE req[s]
    BY <1>1, <2>1
  <2>3. req' \in [Requests -> RequestState]
    BY <1>1, <2>1
  <2>. QED
    BY <1>1, <2>2, <2>3
<1>2. ASSUME UNCHANGED req
      PROVE  /\ req' \in [Requests -> RequestState]
             /\ \A s \in Requests : req'[s] = req[s]
  BY <1>2 DEF PoolInv, PoolOK
<1>3. CASE \E r \in Requests : PutCooldown(r) \/ RequestSteps(r)
  BY <1>1, <1>3, RequestStepFollows
<1>. QED
  BY <1>2, <1>3 DEF PoolNext, Tick, RecordReading, poolVars

LEMMA PoolInvStep == PoolInv /\ [PoolNext]_poolVars => PoolInv'
<1>. SUFFICES ASSUME PoolInv, [PoolNext]_poolVars PROVE PoolInv'
  OBVIOUS
<1>1. PoolOK'
  BY StoreStep, RequestsFollow DEF PoolOK
<1>2. ASSUME NEW r \in Requests
      PROVE  Sound(req'[r]) /\ \A c \in req'[r].stale : Outdated(c)'
  <2>1. Sound(req'[r]) /\ \A c \in req'[r].stale : Outdated(c)
    BY RequestsFollow DEF PoolInv, Follows
  <2>2. req'[r].stale \subseteq Cooldown
    BY <1>1 DEF PoolOK, RequestState
  <2>. QED
    BY <2>1, <2>2, StoreStep
<1>. QED
  BY <1>1, <1>2 DEF PoolInv, Sound

LEMMA PoolInvHolds == PoolSpec => []PoolInv
<1>1. PoolInit => PoolInv
  <2>. SUFFICES ASSUME PoolInit PROVE PoolInv
    OBVIOUS
  <2>1. \A r \in Requests : req[r] = NewRequest
    BY DEF PoolInit
  <2>2. PoolOK
    BY PoolConstants DEF PoolInit, PoolOK
  <2>3. NewRequest.stale = {}
    BY DEF NewRequest
  <2>. QED
    BY <2>1, <2>2, <2>3, PoolConstants DEF PoolInv
<1>. QED
  BY <1>1, PoolInvStep, PTL DEF PoolSpec

\* Every state of the pool is well typed.
THEOREM PoolTypeCorrect == PoolSpec => []PoolOK
<1>1. PoolInv => PoolOK
  BY DEF PoolInv
<1>. QED
  BY <1>1, PoolInvHolds, PTL

\* Only a request clears a cooldown, the one it found to be over.
LEMMA OnlyObservedIsCleared ==
  ASSUME PoolInv, [PoolNext]_poolVars, NEW a \in Accounts,
         cooldowns[a] # None, cooldowns'[a] = None
  PROVE  \E c \in Cooldown : c.account = a /\ c.started = cooldowns[a].started /\ Outdated(c)
<1>1. PICK r \in Requests : Clear(r)
  <2>1. ASSUME NEW r \in Requests, PutCooldown(r) PROVE FALSE
    <3>1. req[r].failure \in Cooldown /\ None \notin Cooldown
      BY <2>1, NoneAssumption DEF PutCooldown, PoolInv, PoolOK, Sound
    <3>. QED
      BY <2>1, <3>1 DEF PutCooldown, Kept, PoolInv, PoolOK
  <2>2. cooldowns' # cooldowns
    OBVIOUS
  <2>. QED
    BY <2>1, <2>2 DEF PoolNext, poolVars, Tick, RecordReading, RequestSteps, Start, Load, LoadFails,
      MovePin, Emit, StreamEnds, AccountFails, PutFails, Cancel
<1>2. PICK c \in req[r].stale :
        cooldowns' = cooldowns \/ /\ IsObserved(cooldowns[c.account], c)
                                  /\ cooldowns' = [cooldowns EXCEPT ![c.account] = None]
  BY <1>1 DEF Clear
<1>3. c \in Cooldown /\ Outdated(c)
  BY DEF PoolInv, PoolOK, RequestState
<1>4. c.account = a
  BY <1>2, <1>3 DEF Cooldown, PoolInv, PoolOK
<1>. QED
  BY <1>2, <1>3, <1>4 DEF IsObserved

\* A cooldown is cleared only on a reading taken after the failure it stands
\* for, whatever is written between the load and the clear (pool.ts pick,
\* store.ts clearCooldown).
THEOREM OnlyOutdatedIsCleared == PoolSpec => ClearsNeedNewerReading
<1>1. PoolInv /\ [PoolNext]_poolVars =>
        \A a \in Accounts :
          cooldowns[a] # None /\ cooldowns'[a] = None =>
            readings[a] # None /\ readings[a].fetched > cooldowns[a].started
  BY OnlyObservedIsCleared DEF Outdated
<1>. QED
  BY <1>1, PoolInvHolds, PTL DEF PoolSpec, ClearsNeedNewerReading

\* A request whose consumer has seen an event stays with its account, and none
\* streams from an account that already failed it (pool.ts attempt).
THEOREM FailoverIsClean == PoolSpec => FailsOverCleanly
<1>1. ASSUME PoolInv, [PoolNext]_poolVars, NEW r \in Requests
      PROVE  /\ req[r].emitted => req'[r].phase \in {"stream", "done"}
             /\ req'[r].phase = "stream" =>
                  req'[r].choice \notin {c.account : c \in req'[r].recorded}
  <2>1. Sound(req[r])
    BY <1>1 DEF PoolInv
  <2>2. Sound(req'[r])
    BY <1>1, <2>1, RequestsFollow DEF Follows
  <2>3. req[r].emitted => req'[r].phase \in {"stream", "done"}
    BY <1>1, <2>1, RequestsFollow DEF Follows, Sound
  <2>. QED
    BY <2>2, <2>3 DEF Sound
<1>2. PoolInv /\ [PoolNext]_poolVars =>
        \A r \in Requests :
          /\ req[r].emitted => req'[r].phase \in {"stream", "done"}
          /\ req'[r].phase = "stream" =>
               req'[r].choice \notin {c.account : c \in req'[r].recorded}
  BY <1>1
<1>. QED
  BY <1>2, PoolInvHolds, PTL DEF PoolSpec, FailsOverCleanly

\* Rejected credentials are blamed only if nothing else ever failed the request
\* (pool.ts exhaustedError).
THEOREM QuotaIsNotHidden == PoolSpec => QuotaIsReported
<1>1. ASSUME PoolInv, [PoolNext]_poolVars, NEW r \in Requests, req'[r].told = "auth"
      PROVE  \A c \in req[r].recorded : c.kind = "auth"
  <2>1. Sound(req[r])
    BY <1>1 DEF PoolInv
  <2>. QED
    BY <1>1, <2>1, RequestsFollow DEF Follows, Sound
<1>2. PoolInv /\ [PoolNext]_poolVars =>
        \A r \in Requests : req'[r].told = "auth" => \A c \in req[r].recorded : c.kind = "auth"
  BY <1>1
<1>. QED
  BY <1>2, PoolInvHolds, PTL DEF PoolSpec, QuotaIsReported

-----------------------------------------------------------------------------
(* The pool: the ranking.                                                  *)

\* Of some numbers, one is the least.
LEMMA LeastNumber ==
  ASSUME NEW S \in SUBSET Nat, S # {}
  PROVE  \E least \in S : \A n \in S : least <= n
<1>1. PICK bound \in S : TRUE
  OBVIOUS
<1> DEFINE N == 0..bound
           T == S \cap N
           Below(n) == {m \in T : m < n}
           belows == {Below(n) : n \in T}
<1>2. IsWellFoundedOn(StrictSubsetOrdering(N), SUBSET N)
  <2>1. bound \in Nat
    OBVIOUS
  <2>2. IsFiniteSet(N)
    BY <2>1, FS_Interval
  <2>. QED
    BY <2>2, FS_StrictSubsetOrderingWellFounded, FS_FiniteSubsetsOfFinite
<1>3. bound \in T /\ T \subseteq N /\ T \subseteq Nat
  OBVIOUS
<1>4. \A n \in S \ T : bound < n
  OBVIOUS
<1>. HIDE DEF N, T
<1>5. belows \subseteq SUBSET N /\ belows # {}
  BY <1>3
<1>6. PICK fewest \in belows : \A B \in belows : <<B, fewest>> \notin StrictSubsetOrdering(N)
  <2>. HIDE DEF belows
  <2>. QED
    BY <1>2, <1>5, WFMin
<1>7. PICK least \in T : fewest = Below(least)
  OBVIOUS
<1>. HIDE DEF belows
<1>8. ASSUME NEW n \in T PROVE least <= n
  <2>. SUFFICES ASSUME n < least PROVE FALSE
    BY <1>3
  <2>1. n \in Below(least) /\ n \notin Below(n)
    BY <1>3
  <2>2. \A m \in Below(n) : m \in Below(least)
    BY <1>3
  <2>3. <<Below(n), Below(least)>> \in StrictSubsetOrdering(N)
    BY <1>3, <2>1, <2>2 DEF StrictSubsetOrdering
  <2>4. Below(n) \in belows
    BY DEF belows
  <2>. QED
    BY <1>6, <1>7, <2>3, <2>4
<1>9. least \in S
  BY DEF T
<1>. QED
  BY <1>3, <1>4, <1>8, <1>9

LEMMA PriorityIsStrict ==
  ASSUME NEW a \in Accounts, NEW b \in Accounts, PrefersByPriority(a, b)
  PROVE  ~PrefersByPriority(b, a)
BY PoolAssumption DEF PrefersByPriority

LEMMA RankIsStrict ==
  ASSUME NEW S \in SUBSET Accounts, NEW of \in [S -> SUBSET Nat],
         NEW a \in S, NEW b \in S, RanksBefore(a, b, of)
  PROVE  ~RanksBefore(b, a, of)
<1> DEFINE soonest(x) == CHOOSE m \in of[x] : \A n \in of[x] : m <= n
<1>1. ASSUME NEW x \in S, of[x] # {} PROVE soonest(x) \in Nat
  <2>1. \E m \in of[x] : \A n \in of[x] : m <= n
    BY <1>1, LeastNumber
  <2>2. soonest(x) \in of[x]
    BY <2>1
  <2>. QED
    BY <2>2
<1>2. CASE of[a] # {} /\ of[b] # {}
  <2>1. soonest(a) \in Nat /\ soonest(b) \in Nat
    BY <1>1, <1>2
  <2>2. \A x, y \in {a, b} : RanksBefore(x, y, of) <=>
          soonest(x) < soonest(y) \/ (soonest(x) = soonest(y) /\ PrefersByPriority(x, y))
    BY <1>2 DEF RanksBefore
  <2>. HIDE DEF soonest
  <2>. QED
    BY <2>1, <2>2, PriorityIsStrict
<1>3. CASE of[a] = {} \/ of[b] = {}
  BY <1>3, PriorityIsStrict DEF RanksBefore
<1>. QED
  BY <1>2, <1>3

\* rankPool decides for one account at most: whatever the readings, neither the
\* resets nor the priorities leave a tie that their order does not break
\* (rank.ts, rankPool).
THEOREM RankingIsDecisive ==
  ASSUME NEW unavailable, NEW known \in [Accounts -> Reading \cup {None}],
         NEW pin, NEW route, NEW t,
         NEW a \in Ranked(unavailable, known, pin, route, t),
         NEW b \in Ranked(unavailable, known, pin, route, t)
  PROVE  a = b
<1> DEFINE candidates == Accounts \ unavailable
           fresh == {x \in candidates : Fresh(known[x], t)}
           kinds(k) == {x \in fresh : RankKind(known[x], route, t) = k}
           usable == kinds("usable")
           resets == [x \in usable |-> RankResets(known[x], route, t)]
           fallback == IF candidates \subseteq kinds("exhausted") THEN candidates
                       ELSE candidates \ kinds("exhausted")
           soonest == {x \in usable : \A y \in usable \ {x} : RanksBefore(x, y, resets)}
           first == {x \in fallback : \A y \in fallback \ {x} : PrefersByPriority(x, y)}
<1>1. Ranked(unavailable, known, pin, route, t) =
        IF usable # {} THEN soonest ELSE IF pin \in fallback THEN {pin} ELSE first
  BY DEF Ranked
<1>2. usable \in SUBSET Accounts /\ fallback \in SUBSET Accounts
  OBVIOUS
<1>3. resets \in [usable -> SUBSET Nat]
  <2>1. ASSUME NEW x \in usable PROVE RankResets(known[x], route, t) \subseteq Nat
    <3>1. known[x] \in Reading
      BY DEF Fresh
    <3>2. known[x].windows \subseteq Window
      BY <3>1, UsagesAssumption DEF Reading
    <3>. QED
      BY <3>2 DEF RankResets, Window
  <2>. HIDE DEF usable
  <2>. QED
    BY <2>1
<1>. HIDE DEF usable, resets, fallback
<1>4. CASE usable # {}
  <2>1. a \in soonest /\ b \in soonest
    BY <1>1, <1>4
  <2>. QED
    BY <1>2, <1>3, <2>1, RankIsStrict
<1>5. CASE usable = {} /\ pin \notin fallback
  <2>1. a \in first /\ b \in first
    BY <1>1, <1>5
  <2>. QED
    BY <1>2, <2>1, PriorityIsStrict
<1>6. CASE usable = {} /\ pin \in fallback
  BY <1>1, <1>6
<1>. QED
  BY <1>4, <1>5, <1>6
=============================================================================
