------------------------------ MODULE RunStore ------------------------------
(***************************************************************************)
(* RunStore.snapshotLayer: claims and resume counts kept in memory and     *)
(* saved as one snapshot through the host's asynchronous `save`. Every     *)
(* mutation takes the layer's lock, computes the next snapshot, saves it   *)
(* and only then replaces the memory. A save may fail, the process may     *)
(* crash at any step, and a caller may be interrupted while it waits for   *)
(* the lock, but not afterwards.                                           *)
(***************************************************************************)
EXTENDS Naturals

CONSTANTS Runs,        \* run ids
          Fibers,      \* callers of the store: run owners, a stop, the sweep
          NoFiber,     \* the lock's holder when it is free
          NoOp,        \* what a fiber that is not in the store performs
          MaxResumes   \* the driver's maxResumeAttempts: it increments below it

ASSUME NoFiberAssumption == NoFiber \notin Fibers
ASSUME MaxResumesAssumption == MaxResumes \in Nat

VARIABLES durable,  \* the snapshot `save` last wrote
          memory,   \* the layer's Ref
          lock,     \* the fiber in the critical section
          pc,       \* where each fiber is inside `mutate`
          op,       \* the operation each fiber performs
          next      \* the snapshot it is saving

vars == <<durable, memory, lock, pc, op, next>>

\* The same refinement mapping throughout: the promise is about what a
\* restart would load.
Claims == INSTANCE ClaimStore WITH stored <- durable

Phases == {"idle", "waiting", "saving", "saved"}

Ops == [kind : Claims!Kinds, run : Runs]

\* The snapshot fiber f's operation makes of s.
Applied(f, s) == Claims!Apply(op[f].kind, op[f].run, s)

TypeOK ==
  /\ durable \in Claims!Snapshot
  /\ memory \in Claims!Snapshot
  /\ lock \in Fibers \cup {NoFiber}
  /\ pc \in [Fibers -> Phases]
  /\ op \in [Fibers -> Ops \cup {NoOp}]
  /\ next \in [Fibers -> Claims!Snapshot]

Init ==
  /\ durable = Claims!EmptySnapshot
  /\ memory = Claims!EmptySnapshot
  /\ lock = NoFiber
  /\ pc = [f \in Fibers |-> "idle"]
  /\ op = [f \in Fibers |-> NoOp]
  /\ next = [f \in Fibers |-> Claims!EmptySnapshot]

-----------------------------------------------------------------------------
\* `mutate` is over for f, whatever its outcome.
Leaves(f) ==
  /\ pc' = [pc EXCEPT ![f] = "idle"]
  /\ op' = [op EXCEPT ![f] = NoOp]
  /\ next' = [next EXCEPT ![f] = Claims!EmptySnapshot]

\* claim, release and incrementResumeCount: the caller reaches `mutate`. The
\* driver reads resumeCount before it increments and stays below its budget.
Call(f, k, r) ==
  /\ pc[f] = "idle"
  /\ k = "increment" => memory.resumes[r] < MaxResumes
  /\ pc' = [pc EXCEPT ![f] = "waiting"]
  /\ op' = [op EXCEPT ![f] = [kind |-> k, run |-> r]]
  /\ UNCHANGED <<durable, memory, lock, next>>

\* Faulty: a mutation that does not wait for the one in flight.
AcquireUnlocked(f) ==
  /\ pc[f] = "waiting"
  /\ lock' = f
  /\ pc' = [pc EXCEPT ![f] = "saving"]
  /\ next' = [next EXCEPT ![f] = Applied(f, memory)]
  /\ UNCHANGED <<durable, memory, op>>

\* lock.take(1) granted: the next snapshot is computed from the memory and
\* its save is issued.
Acquire(f) ==
  /\ pc[f] = "waiting"
  /\ lock = NoFiber
  /\ lock' = f
  /\ pc' = [pc EXCEPT ![f] = "saving"]
  /\ next' = [next EXCEPT ![f] = Applied(f, memory)]
  /\ UNCHANGED <<durable, memory, op>>

\* Only the wait for the lock is restored to interruptible.
CancelWait(f) ==
  /\ pc[f] = "waiting"
  /\ Leaves(f)
  /\ UNCHANGED <<durable, memory, lock>>

\* The host's save lands.
SaveOk(f) ==
  /\ pc[f] = "saving"
  /\ durable' = next[f]
  /\ pc' = [pc EXCEPT ![f] = "saved"]
  /\ UNCHANGED <<memory, lock, op, next>>

\* Faulty: the memory was already replaced when the save failed.
SaveFailsAfterCommit(f) ==
  /\ pc[f] = "saving"
  /\ Leaves(f)
  /\ lock' = NoFiber
  /\ memory' = next[f]
  /\ UNCHANGED durable

\* Faulty: a failed save leaves the lock taken.
SaveFailsHolding(f) ==
  /\ pc[f] = "saving"
  /\ Leaves(f)
  /\ UNCHANGED <<durable, memory, lock>>

\* The host's save dies without writing: the lock is released by `ensuring`,
\* the memory is left as it was and the defect reaches the caller.
SaveFails(f) ==
  /\ pc[f] = "saving"
  /\ Leaves(f)
  /\ lock' = NoFiber
  /\ UNCHANGED <<durable, memory>>

\* `commit` sets the memory after the save and the lock is released.
Commit(f) ==
  /\ pc[f] = "saved"
  /\ memory' = next[f]
  /\ lock' = NoFiber
  /\ Leaves(f)
  /\ UNCHANGED durable

\* The process dies and the layer is built again from `load`.
Crash ==
  /\ memory' = durable
  /\ lock' = NoFiber
  /\ pc' = [f \in Fibers |-> "idle"]
  /\ op' = [f \in Fibers |-> NoOp]
  /\ next' = [f \in Fibers |-> Claims!EmptySnapshot]
  /\ UNCHANGED durable

Save(f) == SaveOk(f) \/ SaveFails(f)

Next ==
  \/ \E f \in Fibers :
       \/ \E k \in Claims!Kinds, r \in Runs : Call(f, k, r)
       \/ Acquire(f)
       \/ CancelWait(f)
       \/ SaveOk(f)
       \/ SaveFails(f)
       \/ Commit(f)
  \/ Crash

Spec == Init /\ [][Next]_vars

\* The host's save answers, and a fiber whose save landed is scheduled.
Fairness == \A f \in Fibers : WF_vars(Save(f)) /\ WF_vars(Commit(f))

FairSpec == Spec /\ Fairness

-----------------------------------------------------------------------------
\* The lock is held exactly by the fiber between its grant and its answer.
LockHeld == \A f \in Fibers : lock = f <=> pc[f] \in {"saving", "saved"}

\* What a fiber saves is its operation on the durable record as it stands:
\* nothing another operation wrote is overwritten.
SavesCurrent ==
  \A f \in Fibers :
    pc[f] = "saving" => next[f] = Applied(f, durable)

\* Readers (isClaimed, claimed, resumeCount) see the durable record, except
\* between a save that landed and the memory update that follows it: no
\* answer given to a caller is forgotten by a crash, and no failed save is seen.
MemoryMatchesDurable ==
  \/ memory = durable
  \/ \E f \in Fibers : pc[f] = "saved" /\ durable = next[f]

\* The store implements the atomic claim record (no lost update across
\* concurrent mutations, failures and crashes).
ImplementsClaims == Claims!Spec

\* A save that dies gives the lock back: no caller holds it for ever.
LockIsFreed == \A f \in Fibers : lock = f ~> lock # f
=============================================================================
