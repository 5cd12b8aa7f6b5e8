-------------------------- MODULE WorkerAdmission --------------------------
(***************************************************************************)
(* withSlot of worker-admission.ts, nested as makeWorkerExtractor nests    *)
(* it: an extraction takes a slot of its layer's pool, then one of the     *)
(* realm-wide pool, runs its worker and gives both back once the worker    *)
(* has terminated. A step is what JavaScript runs without yielding; a slot *)
(* that is handed over is taken at once, but its waiter resumes in a later *)
(* microtask and may be interrupted or pass its deadline before that.      *)
(***************************************************************************)
EXTENDS Integers, FiniteSets, Sequences

CONSTANTS Extractions,   \* callers of the extractor; one asks again and again
          Layers,        \* FileExtractor layers of the realm
          LayerOf,       \* the layer each extraction goes through
          Realm,         \* the realm-wide pool
          LayerLimit,    \* maxConcurrentWorkers
          RealmLimit     \* processWorkerLimit

ASSUME LayerOfAssumption == LayerOf \in [Extractions -> Layers]
ASSUME RealmAssumption == Realm \notin Layers
ASSUME LimitsAssumption ==
  /\ LayerLimit \in Nat \ {0}
  /\ RealmLimit \in Nat \ {0}
ASSUME ExtractionsAssumption == IsFiniteSet(Extractions)

VARIABLES active,    \* slots taken, per pool
          waiters,   \* hand-offs in order of arrival, per pool
          stage,     \* where each extraction is
          nested,    \* whether it holds its layer's slot and wants, or holds, the realm's
          time       \* its admission deadline: "early", "due" (Date.now() = deadline) or "late"

vars == <<active, waiters, stage, nested, time>>

Pools == Layers \cup {Realm}

Capacity(p) == IF p = Realm THEN RealmLimit ELSE LayerLimit

Stages == {"idle", "queued", "handed", "refused", "working", "terminating"}

TypeOK ==
  /\ active \in [Pools -> Nat]
  /\ waiters \in [Pools -> Seq(Extractions)]
  /\ stage \in [Extractions -> Stages]
  /\ nested \in [Extractions -> BOOLEAN]
  /\ time \in [Extractions -> {"early", "due", "late"}]

Init ==
  /\ active = [p \in Pools |-> 0]
  /\ waiters = [p \in Pools |-> <<>>]
  /\ stage = [e \in Extractions |-> "idle"]
  /\ nested = [e \in Extractions |-> FALSE]
  /\ time = [e \in Extractions |-> "early"]

-----------------------------------------------------------------------------
\* The pool whose slot e waits for or was last given.
Wanted(e) == IF nested[e] THEN Realm ELSE LayerOf[e]

\* A new extraction takes a slot only when nobody waits.
Free(p) == active[p] < Capacity(p) /\ waiters[p] = <<>>

\* Faulty: the deadline is checked when the wait begins, not at the hand-off.
InTimeAlways(e) == TRUE

\* Not `expired(deadline)`.
InTime(e) == time[e] # "late"

\* The positions in p's queue whose hand-off would return true.
Takers(p) == {i \in DOMAIN waiters[p] : InTime(waiters[p][i])}

\* Faulty: the search goes past the waiters that could take the slot.
IsTakerNewest(p, i) == i \in Takers(p) /\ \A j \in Takers(p) : j <= i

\* releaseSlot(p) hands the slot to the waiter at i.
IsTaker(p, i) == i \in Takers(p) /\ \A j \in Takers(p) : i <= j

\* releaseSlot(p) calls the hand-off at i in vain: it comes before any taker.
IsPassedOver(p, i) == i \in DOMAIN waiters[p] /\ \A j \in 1..i : ~IsTaker(p, j)

\* What releaseSlot(p) makes of a waiter x.
IsGiven(x, p) == \E i \in DOMAIN waiters[p] : IsTaker(p, i) /\ waiters[p][i] = x

IsRefused(x, p) == \E i \in DOMAIN waiters[p] : IsPassedOver(p, i) /\ waiters[p][i] = x

HasTaker(p) == \E i \in DOMAIN waiters[p] : IsTaker(p, i)

\* p's queue after releaseSlot(p): every hand-off that was called has left.
QueueAfter(p) ==
  IF HasTaker(p)
  THEN LET i == CHOOSE i \in DOMAIN waiters[p] : IsTaker(p, i)
       IN  SubSeq(waiters[p], i + 1, Len(waiters[p]))
  ELSE <<>>

\* Faulty: a slot that is handed over is counted free as well.
ActiveAfterAlways(p) == active[p] - 1

\* A slot that is handed over is never counted free in between.
ActiveAfter(p) == IF HasTaker(p) THEN active[p] ELSE active[p] - 1

\* Faulty: an extraction that was handed a slot and has not resumed yet does
\* not pass it on.
ReleasesOnceResumed(e) ==
  {p \in Pools : \/ p = LayerOf[e] /\ nested[e]
                 \/ p = Realm /\ stage[e] \in {"working", "terminating"}}

\* The slots e's finalizers release when it ends now: `owned` in
\* onInterrupt, `ensuring` once it resumed.
Releases(e) ==
  {p \in Pools : \/ p = LayerOf[e] /\ nested[e]
                 \/ p = Wanted(e) /\ stage[e] \in {"handed", "working", "terminating"}}

\* p's queue without the hand-off at i.
QueueWithout(p, i) ==
  SubSeq(waiters[p], 1, i - 1) \o SubSeq(waiters[p], i + 1, Len(waiters[p]))

\* Extraction e ends, wherever it is: its hand-off leaves the queue it is in
\* and its slots are released, the realm's before the layer's.
Ends(e) ==
  /\ active' = [p \in Pools |-> IF p \in Releases(e) THEN ActiveAfter(p) ELSE active[p]]
  /\ \E i \in DOMAIN waiters[Wanted(e)] \cup {0} :
       /\ IF i = 0 THEN stage[e] # "queued" ELSE waiters[Wanted(e)][i] = e
       /\ waiters' = [p \in Pools |->
            IF i # 0 /\ p = Wanted(e) THEN QueueWithout(p, i)
            ELSE IF p \in Releases(e) THEN QueueAfter(p) ELSE waiters[p]]
  /\ stage' = [x \in Extractions |->
       IF x = e THEN "idle"
       ELSE IF \E p \in Releases(e) : IsGiven(x, p) THEN "handed"
       ELSE IF \E p \in Releases(e) : IsRefused(x, p) THEN "refused"
       ELSE stage[x]]
  /\ nested' = [nested EXCEPT ![e] = FALSE]
  /\ time' = [time EXCEPT ![e] = "early"]

-----------------------------------------------------------------------------
\* Faulty: the hand-offs are kept as a stack.
JoinsFirst(e, p) ==
  /\ waiters' = [waiters EXCEPT ![p] = <<e>> \o @]
  /\ stage' = [stage EXCEPT ![e] = "queued"]
  /\ nested' = [nested EXCEPT ![e] = p = Realm]

\* e joins the queue of pool p, holding its layer's slot if p is the realm's.
Joins(e, p) ==
  /\ waiters' = [waiters EXCEPT ![p] = Append(@, e)]
  /\ stage' = [stage EXCEPT ![e] = "queued"]
  /\ nested' = [nested EXCEPT ![e] = p = Realm]

\* e's worker starts; the deadline is over with.
Works(e) ==
  /\ stage' = [stage EXCEPT ![e] = "working"]
  /\ nested' = [nested EXCEPT ![e] = TRUE]
  /\ time' = [time EXCEPT ![e] = "early"]

\* An extraction is asked for: it waits for its layer's slot, or takes it and
\* waits for the realm's, or takes both and starts its worker.
AskLayerFull(e) ==
  /\ stage[e] = "idle" /\ ~Free(LayerOf[e])
  /\ Joins(e, LayerOf[e])
  /\ UNCHANGED <<active, time>>

AskRealmFull(e) ==
  /\ stage[e] = "idle" /\ Free(LayerOf[e]) /\ ~Free(Realm)
  /\ active' = [active EXCEPT ![LayerOf[e]] = @ + 1]
  /\ Joins(e, Realm)
  /\ UNCHANGED time

AskBothFree(e) ==
  /\ stage[e] = "idle" /\ Free(LayerOf[e]) /\ Free(Realm)
  /\ active' = [p \in Pools |->
       IF p \in {LayerOf[e], Realm} THEN active[p] + 1 ELSE active[p]]
  /\ Works(e)
  /\ UNCHANGED waiters

\* The microtask of a hand-off: the layer's slot is e's, and the realm's is
\* asked for with the same deadline.
ResumeRealmFull(e) ==
  /\ stage[e] = "handed" /\ ~nested[e] /\ InTime(e) /\ ~Free(Realm)
  /\ Joins(e, Realm)
  /\ UNCHANGED <<active, time>>

ResumeRealmFree(e) ==
  /\ stage[e] = "handed" /\ ~nested[e] /\ InTime(e) /\ Free(Realm)
  /\ active' = [active EXCEPT ![Realm] = @ + 1]
  /\ Works(e)
  /\ UNCHANGED waiters

ResumeNested(e) ==
  /\ stage[e] = "handed" /\ nested[e]
  /\ Works(e)
  /\ UNCHANGED <<active, waiters>>

\* The same microtask when nothing comes of it: the deadline passed before
\* the realm's slot was asked for, or the worker cannot start.
ResumeInVain(e) ==
  /\ stage[e] = "handed"
  /\ nested[e] \/ ~InTime(e) \/ Free(Realm)
  /\ Ends(e)

\* The microtask of a hand-off that returned false: the extraction is `busy`.
Refused(e) == stage[e] = "refused" /\ Ends(e)

\* The timer of a wait, set to the deadline.
TimerFires(e) == stage[e] = "queued" /\ time[e] # "early" /\ Ends(e)

\* The caller is interrupted while it waits or is about to resume.
InterruptWait(e) == stage[e] \in {"queued", "handed", "refused"} /\ Ends(e)

\* The worker answers, fails, times out or its caller is interrupted.
WorkerDone(e) ==
  /\ stage[e] = "working"
  /\ stage' = [stage EXCEPT ![e] = "terminating"]
  /\ UNCHANGED <<active, waiters, nested, time>>

\* worker.terminate() settles.
Terminated(e) == stage[e] = "terminating" /\ Ends(e)

\* The clock reaches e's deadline, or passes it.
Tick(e) ==
  /\ stage[e] \in {"queued", "handed"}
  /\ \/ time[e] = "early" /\ time' = [time EXCEPT ![e] = "due"]
     \/ time[e] = "due" /\ time' = [time EXCEPT ![e] = "late"]
  /\ UNCHANGED <<active, waiters, stage, nested>>

Ask(e) == AskLayerFull(e) \/ AskRealmFull(e) \/ AskBothFree(e)

Resume(e) ==
  \/ ResumeRealmFull(e)
  \/ ResumeRealmFree(e)
  \/ ResumeNested(e)
  \/ ResumeInVain(e)

Next ==
  \E e \in Extractions :
    \/ Ask(e)
    \/ Resume(e)
    \/ Refused(e)
    \/ TimerFires(e)
    \/ InterruptWait(e)
    \/ WorkerDone(e)
    \/ Terminated(e)
    \/ Tick(e)

Spec == Init /\ [][Next]_vars

\* Microtasks run, a worker answers within its own timeout and terminates.
\* Nothing is asked of the clock: a waiter must not need its deadline.
Fairness ==
  \A e \in Extractions :
    /\ WF_vars(Resume(e))
    /\ WF_vars(Refused(e))
    /\ WF_vars(WorkerDone(e))
    /\ WF_vars(Terminated(e))

FairSpec == Spec /\ Fairness

-----------------------------------------------------------------------------
\* e has a slot of pool p: it came past p's queue and has not ended.
Owns(e, p) ==
  \/ p = LayerOf[e] /\ (nested[e] \/ stage[e] = "handed")
  \/ p = Realm /\ nested[e] /\ stage[e] \in {"handed", "working", "terminating"}

Owners(p) == {e \in Extractions : Owns(e, p)}

\* A slot is never leaked and never given back twice: what a pool counts as
\* taken is what extractions own, through every hand-off, refusal and
\* interruption between a hand-off and its microtask.
SlotsAreOwned == \A p \in Pools : active[p] = Cardinality(Owners(p))

\* At most processWorkerLimit workers live in the realm and at most
\* maxConcurrentWorkers in a layer, those that are being terminated included.
WorkersAreBounded ==
  LET Alive == {e \in Extractions : stage[e] \in {"working", "terminating"}}
  IN  /\ Cardinality(Alive) <= RealmLimit
      /\ \A l \in Layers : Cardinality({e \in Alive : LayerOf[e] = l}) <= LayerLimit

\* While anyone waits, every slot is taken (the comment on SlotPool): no slot
\* idles beside a queue.
NoSlotIdles == \A p \in Pools : waiters[p] # <<>> => active[p] = Capacity(p)

\* e waits in p's queue.
Waits(e, p) == stage[e] = "queued" /\ p = Wanted(e)

\* x waits for p ahead of y.
AheadOf(x, y, p) ==
  \E i, j \in DOMAIN waiters[p] : i < j /\ waiters[p][i] = x /\ waiters[p][j] = y

\* First come, first served: of two extractions that go on waiting the first
\* stays ahead, a newcomer goes behind both, and whoever gets a slot leaves
\* nobody waiting who came before it. And a late wake-up never turns an expired
\* wait into admission, by a hand-off, by its microtask or by the second pool,
\* while nobody is turned away as long as there is time.
ServedInOrderAndInTime ==
  /\ [][\A p \in Pools : \A x, y \in Extractions :
          Waits(x, p) /\ Waits(x, p)' /\ ~AheadOf(y, x, p) /\ x # y =>
            /\ Waits(y, p)' => AheadOf(x, y, p)'
            /\ ~(~Owns(y, p) /\ Owns(y, p)')]_vars
  /\ [][\A e \in Extractions :
          /\ \A p \in Pools : ~Owns(e, p) /\ Owns(e, p)' => time[e] # "late"
          /\ stage[e] # "refused" /\ stage'[e] = "refused" => time[e] = "late"]_vars

\* A waiter is admitted, or gives up, without the help of its deadline:
\* neither a lost slot nor the two pools' waiting on each other stops it.
WaitIsServed ==
  \A e \in Extractions : stage[e] = "queued" ~> stage[e] # "queued"
=============================================================================
