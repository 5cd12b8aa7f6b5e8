----------------------- MODULE WorkerAdmissionProofs -----------------------
(***************************************************************************)
(* The slot pools count what is owned, for any extractions, layers and     *)
(* limits: type correctness, SlotsAreOwned, NoSlotIdles and                *)
(* WorkersAreBounded. The invariant adds what the steps need of the        *)
(* queues: that they hold, once each, the extractions that wait in them.   *)
(* That they hold all of them, and in the order of their arrival, gives    *)
(* ServedInOrderAndInTime.                                                 *)
(***************************************************************************)
EXTENDS WorkerAdmission, FiniteSetTheorems, SequenceTheorems, TLAPS

\* A worker lives only past the realm's pool, and an idle extraction holds
\* nothing.
StagesAreNested ==
  \A e \in Extractions :
    /\ stage[e] = "idle" => ~nested[e]
    /\ stage[e] \in {"working", "terminating"} => nested[e]

QueuesHoldWaiters ==
  \A p \in Pools : \A i \in DOMAIN waiters[p] : Waits(waiters[p][i], p)

QueuesHoldThemOnce ==
  \A p \in Pools : \A i, j \in DOMAIN waiters[p] :
    waiters[p][i] = waiters[p][j] => i = j

WithinCapacity == \A p \in Pools : active[p] <= Capacity(p)

IInv ==
  /\ TypeOK
  /\ StagesAreNested
  /\ QueuesHoldWaiters
  /\ QueuesHoldThemOnce
  /\ SlotsAreOwned
  /\ NoSlotIdles
  /\ WithinCapacity

-----------------------------------------------------------------------------
\* Removing one element keeps the others and their order.
LEMMA QueueWithoutOne ==
  ASSUME TypeOK, NEW p \in Pools, NEW i \in DOMAIN waiters[p]
  PROVE  /\ QueueWithout(p, i) \in Seq(Extractions)
         /\ DOMAIN QueueWithout(p, i) = 1..(Len(waiters[p]) - 1)
         /\ \A k \in DOMAIN QueueWithout(p, i) :
              QueueWithout(p, i)[k] = IF k < i THEN waiters[p][k] ELSE waiters[p][k + 1]
<1>. DEFINE S == Extractions
            w == waiters[p]
            a == SubSeq(w, 1, i - 1)
            b == SubSeq(w, i + 1, Len(w))
<1>0. w \in Seq(S)
  BY DEF TypeOK
<1>. HIDE DEF w
<1>1. i \in 1..Len(w) /\ Len(w) \in Nat
  BY <1>0 DEF w
<1>2. /\ a \in Seq(S) /\ Len(a) = i - 1
      /\ \A k \in 1..(i - 1) : a[k] = w[k]
  BY <1>0, <1>1
<1>3. /\ b \in Seq(S) /\ Len(b) = Len(w) - i
      /\ \A k \in 1..(Len(w) - i) : b[k] = w[k + i]
  BY <1>0, <1>1
<1>. HIDE DEF a, b
<1>4. a \o b \in Seq(S) /\ Len(a \o b) = Len(w) - 1
  BY <1>1, <1>2, <1>3
<1>5. ASSUME NEW k \in 1..(Len(w) - 1)
      PROVE  (a \o b)[k] = IF k < i THEN w[k] ELSE w[k + 1]
  <2>1. CASE k < i
    BY <1>1, <1>2, <1>3, <2>1
  <2>2. CASE ~(k < i)
    <3>1. k - (i - 1) \in 1..(Len(w) - i)
      BY <1>1, <2>2
    <3>2. (a \o b)[k] = b[k - Len(a)]
      <4>1. k \in 1..(Len(a) + Len(b)) /\ ~(k <= Len(a))
        BY <1>1, <1>2, <1>3, <2>2
      <4>. QED
        BY <1>2, <1>3, <4>1, ConcatProperties
    <3>3. b[k - (i - 1)] = w[k - (i - 1) + i]
      BY <1>3, <3>1
    <3>. QED
      BY <1>1, <1>2, <2>2, <3>2, <3>3
  <2>. QED
    BY <2>1, <2>2
<1>6. QueueWithout(p, i) = a \o b
  BY DEF a, b, w, QueueWithout
<1>7. DOMAIN (a \o b) = 1..(Len(w) - 1)
  BY <1>4, LenProperties
<1>. QED
  BY <1>4, <1>5, <1>6, <1>7 DEF w

\* What a release leaves of a queue is its end, past the taker.
LEMMA QueueAfterRelease ==
  ASSUME TypeOK, NEW p \in Pools
  PROVE  /\ QueueAfter(p) \in Seq(Extractions)
         /\ ~HasTaker(p) => QueueAfter(p) = <<>>
         /\ \A i \in DOMAIN waiters[p] : IsTaker(p, i) =>
              /\ DOMAIN QueueAfter(p) = 1..(Len(waiters[p]) - i)
              /\ \A k \in DOMAIN QueueAfter(p) : QueueAfter(p)[k] = waiters[p][k + i]
<1>1. waiters[p] \in Seq(Extractions)
  BY DEF TypeOK
<1>2. CASE ~HasTaker(p)
  BY <1>2 DEF QueueAfter, HasTaker
<1>3. CASE HasTaker(p)
  <2>. DEFINE t == CHOOSE i \in DOMAIN waiters[p] : IsTaker(p, i)
  <2>1. t \in DOMAIN waiters[p] /\ IsTaker(p, t)
    BY <1>3 DEF HasTaker
  <2>2. \A i \in DOMAIN waiters[p] : IsTaker(p, i) => i = t
    <3>. HIDE DEF t
    <3>. QED
      BY <1>1, <2>1 DEF IsTaker, Takers
  <2>3. QueueAfter(p) = SubSeq(waiters[p], t + 1, Len(waiters[p]))
    BY <1>3 DEF QueueAfter
  <2>. HIDE DEF t
  <2>4. t \in 1..Len(waiters[p]) /\ Len(waiters[p]) \in Nat
    BY <1>1, <2>1
  <2>5. /\ QueueAfter(p) \in Seq(Extractions)
        /\ Len(QueueAfter(p)) = Len(waiters[p]) - t
        /\ \A k \in 1..(Len(waiters[p]) - t) : QueueAfter(p)[k] = waiters[p][k + t]
    BY <1>1, <2>3, <2>4
  <2>6. DOMAIN QueueAfter(p) = 1..(Len(waiters[p]) - t)
    BY <2>5, LenProperties
  <2>. QED
    BY <1>3, <2>2, <2>5, <2>6
<1>. QED
  BY <1>2, <1>3

\* The finalizers release exactly what is owned.
LEMMA ReleasesOwned ==
  ASSUME TypeOK, StagesAreNested, NEW e \in Extractions, NEW p \in Pools
  PROVE  p \in Releases(e) <=> Owns(e, p)
BY RealmAssumption, LayerOfAssumption
   DEF TypeOK, StagesAreNested, Releases, Owns, Wanted, Pools, Stages

\* A waiter waits in one pool only, at one place.
LEMMA OnePlace ==
  ASSUME QueuesHoldWaiters, QueuesHoldThemOnce,
         NEW p \in Pools, NEW q \in Pools,
         NEW i \in DOMAIN waiters[p], NEW j \in DOMAIN waiters[q],
         waiters[p][i] = waiters[q][j]
  PROVE  p = q /\ i = j
<1>1. p = q
  BY DEF QueuesHoldWaiters, Waits
<1>. QED
  BY <1>1 DEF QueuesHoldThemOnce

\* x goes on waiting when e ends.
Stays(x, e) ==
  /\ x # e
  /\ \A q \in Releases(e) : ~IsGiven(x, q) /\ ~IsRefused(x, q)

\* What is left of a queue when e ends are the waiters that stay, in their
\* order: f is where each of them was.
LEMMA EndsQueues ==
  ASSUME IInv, NEW e \in Extractions, Ends(e), NEW p \in Pools
  PROVE  /\ waiters'[p] \in Seq(Extractions)
         /\ p \in Releases(e) /\ ~HasTaker(p) => waiters'[p] = <<>>
         /\ \E f \in [DOMAIN waiters'[p] -> DOMAIN waiters[p]] :
              /\ \A k, l \in DOMAIN waiters'[p] : k < l => f[k] < f[l]
              /\ \A k, l \in DOMAIN waiters'[p] : f[k] = f[l] => k = l
              /\ \A k \in DOMAIN waiters'[p] :
                   /\ waiters'[p][k] = waiters[p][f[k]]
                   /\ Stays(waiters[p][f[k]], e)
              /\ \A j \in DOMAIN waiters[p] : Stays(waiters[p][j], e) =>
                   \E k \in DOMAIN waiters'[p] : f[k] = j
<1>. DEFINE w == waiters[p]
<1>1. w \in Seq(Extractions) /\ Len(w) \in Nat /\ DOMAIN w = 1..Len(w)
  BY DEF IInv, TypeOK
<1>2. Wanted(e) \in Pools /\ 0 \notin DOMAIN waiters[Wanted(e)]
  BY LayerOfAssumption DEF IInv, TypeOK, Wanted, Pools
<1>3. PICK i \in DOMAIN waiters[Wanted(e)] \cup {0} :
        /\ IF i = 0 THEN stage[e] # "queued" ELSE waiters[Wanted(e)][i] = e
        /\ waiters' = [q \in Pools |->
             IF i # 0 /\ q = Wanted(e) THEN QueueWithout(q, i)
             ELSE IF q \in Releases(e) THEN QueueAfter(q) ELSE waiters[q]]
  BY DEF Ends
<1>4. \A k \in DOMAIN w : w[k] = e => i # 0 /\ p = Wanted(e) /\ k = i
  <2>. SUFFICES ASSUME NEW k \in DOMAIN w, w[k] = e
                PROVE  i # 0 /\ p = Wanted(e) /\ k = i
    OBVIOUS
  <2>1. Waits(e, p)
    BY DEF IInv, QueuesHoldWaiters
  <2>2. i # 0 /\ p = Wanted(e)
    BY <1>3, <2>1 DEF Waits
  <2>. QED
    BY <1>3, <2>2 DEF IInv, QueuesHoldThemOnce
<1>5. ASSUME NEW k \in DOMAIN w, w[k] # e,
             \A t \in DOMAIN w : p \in Releases(e) /\ IsTaker(p, t) => t < k,
             p \in Releases(e) => HasTaker(p)
      PROVE  Stays(w[k], e)
  <2>. SUFFICES ASSUME NEW q \in Releases(e), NEW j \in DOMAIN waiters[q],
                       waiters[q][j] = w[k],
                       IsTaker(q, j) \/ IsPassedOver(q, j)
                PROVE  FALSE
    BY <1>5 DEF Stays, IsGiven, IsRefused
  <2>1. q \in Pools
    BY DEF Releases
  <2>2. q = p /\ j = k
    BY <2>1, OnePlace DEF IInv
  <2>3. PICK t \in DOMAIN w : IsTaker(p, t)
    BY <1>5, <2>2 DEF HasTaker
  <2>4. t < k
    BY <1>5, <2>2, <2>3
  <2>5. ~IsPassedOver(q, j)
    BY <1>1, <2>2, <2>3, <2>4 DEF IsPassedOver
  <2>. QED
    BY <1>1, <1>5, <2>2, <2>3, <2>4, <2>5 DEF IsTaker, Takers
<1>6. CASE i # 0 /\ p = Wanted(e)
  <2>1. waiters'[p] = QueueWithout(p, i) /\ i \in DOMAIN w
    BY <1>3, <1>6
  <2>2. /\ waiters'[p] \in Seq(Extractions)
        /\ DOMAIN waiters'[p] = 1..(Len(w) - 1)
        /\ \A k \in DOMAIN waiters'[p] : waiters'[p][k] = IF k < i THEN w[k] ELSE w[k + 1]
    BY <2>1, QueueWithoutOne DEF IInv
  <2>3. p \notin Releases(e)
    <3>1. stage[e] = "queued" /\ (p = LayerOf[e] => ~nested[e])
      BY <1>3, <1>6, RealmAssumption, LayerOfAssumption
         DEF IInv, QueuesHoldWaiters, Waits, Wanted
    <3>. QED
      BY <3>1, <1>6 DEF Releases
  <2>. DEFINE f == [k \in DOMAIN waiters'[p] |-> IF k < i THEN k ELSE k + 1]
  <2>4. \A k \in DOMAIN waiters'[p] : f[k] \in DOMAIN w /\ f[k] # i
    BY <1>1, <2>1, <2>2
  <2>5. f \in [DOMAIN waiters'[p] -> DOMAIN w]
    BY <2>4
  <2>6. \A k, l \in DOMAIN waiters'[p] : (k < l => f[k] < f[l]) /\ (f[k] = f[l] => k = l)
    BY <1>1, <2>1, <2>2
  <2>7. \A k \in DOMAIN waiters'[p] : waiters'[p][k] = w[f[k]]
    BY <2>2
  <2>8. ASSUME NEW j \in DOMAIN w, Stays(w[j], e)
        PROVE  \E k \in DOMAIN waiters'[p] : f[k] = j
    <3>1. j # i
      BY <1>3, <1>6, <2>8 DEF Stays
    <3>2. CASE j < i
      <4>1. j \in DOMAIN waiters'[p] /\ f[j] = j
        BY <1>1, <2>1, <2>2, <3>2
      <4>. QED
        BY <4>1
    <3>3. CASE i < j
      <4>1. j - 1 \in DOMAIN waiters'[p] /\ f[j - 1] = j
        BY <1>1, <2>1, <2>2, <3>3
      <4>. QED
        BY <4>1
    <3>. QED
      BY <1>1, <2>1, <3>1, <3>2, <3>3
  <2>. HIDE DEF f
  <2>9. \A k \in DOMAIN waiters'[p] : Stays(w[f[k]], e)
    BY <1>4, <1>5, <2>3, <2>4
  <2>. QED
    BY <2>2, <2>3, <2>5, <2>6, <2>7, <2>8, <2>9
<1>7. CASE ~(i # 0 /\ p = Wanted(e)) /\ p \in Releases(e)
  <2>1. waiters'[p] = QueueAfter(p)
    BY <1>3, <1>7
  <2>2. CASE ~HasTaker(p)
    <3>1. waiters'[p] = <<>> /\ DOMAIN waiters'[p] = {}
      BY <2>1, <2>2, QueueAfterRelease DEF IInv
    <3>2. PICK f \in [DOMAIN waiters'[p] -> DOMAIN w] : TRUE
      <4>. DEFINE f == [k \in DOMAIN waiters'[p] |-> 1]
      <4>1. f \in [DOMAIN waiters'[p] -> DOMAIN w]
        BY <3>1
      <4>. QED
        BY <4>1
    <3>3. \A k \in DOMAIN waiters'[p] : FALSE
      BY <3>1
    <3>4. waiters'[p] \in Seq(Extractions)
      BY <3>1
    <3>5. ASSUME NEW j \in DOMAIN w
          PROVE  ~Stays(w[j], e)
      <4>1. IsPassedOver(p, j)
        BY <1>1, <2>2 DEF IsPassedOver, HasTaker
      <4>. QED
        BY <1>7, <4>1 DEF Stays, IsRefused
    <3>6. \E g \in [DOMAIN waiters'[p] -> DOMAIN waiters[p]] :
            /\ \A k, l \in DOMAIN waiters'[p] : k < l => g[k] < g[l]
            /\ \A k, l \in DOMAIN waiters'[p] : g[k] = g[l] => k = l
            /\ \A k \in DOMAIN waiters'[p] :
                 /\ waiters'[p][k] = waiters[p][g[k]]
                 /\ Stays(waiters[p][g[k]], e)
            /\ \A j \in DOMAIN waiters[p] : Stays(waiters[p][j], e) =>
                 \E k \in DOMAIN waiters'[p] : g[k] = j
      BY <3>2, <3>3, <3>5, Zenon
    <3>. QED
      BY <3>1, <3>4, <3>6
  <2>3. CASE HasTaker(p)
    <3>1. PICK t \in DOMAIN w : IsTaker(p, t)
      BY <2>3 DEF HasTaker
    <3>2. /\ waiters'[p] \in Seq(Extractions)
          /\ DOMAIN waiters'[p] = 1..(Len(w) - t)
          /\ \A k \in DOMAIN waiters'[p] : waiters'[p][k] = w[k + t]
      BY <2>1, <3>1, QueueAfterRelease DEF IInv
    <3>. DEFINE f == [k \in DOMAIN waiters'[p] |-> k + t]
    <3>3. \A k \in DOMAIN waiters'[p] : f[k] \in DOMAIN w /\ t < f[k]
      BY <1>1, <3>1, <3>2
    <3>4. f \in [DOMAIN waiters'[p] -> DOMAIN w]
      BY <3>3
    <3>5. \A k, l \in DOMAIN waiters'[p] : (k < l => f[k] < f[l]) /\ (f[k] = f[l] => k = l)
      BY <1>1, <3>1, <3>2
    <3>6. \A k \in DOMAIN waiters'[p] : waiters'[p][k] = w[f[k]]
      BY <3>2
    <3>7. \A s \in DOMAIN w : IsTaker(p, s) => s = t
      BY <1>1, <3>1 DEF IsTaker, Takers
    <3>8. ASSUME NEW j \in DOMAIN w, Stays(w[j], e)
          PROVE  \E k \in DOMAIN waiters'[p] : f[k] = j
      <4>1. j # t
        BY <1>7, <3>1, <3>8 DEF Stays, IsGiven
      <4>2. ~(j < t)
        <5>. SUFFICES ASSUME j < t PROVE IsPassedOver(p, j)
          BY <1>7, <3>8 DEF Stays, IsRefused
        <5>. QED
          BY <1>1, <3>1, <3>7 DEF IsPassedOver
      <4>3. j - t \in DOMAIN waiters'[p] /\ f[j - t] = j
        BY <1>1, <3>1, <3>2, <4>1, <4>2
      <4>. QED
        BY <4>3
    <3>. HIDE DEF f
    <3>9. \A k \in DOMAIN waiters'[p] : Stays(w[f[k]], e)
      BY <1>4, <1>5, <1>7, <2>3, <3>3, <3>7
    <3>. QED
      BY <2>3, <3>2, <3>4, <3>5, <3>6, <3>8, <3>9
  <2>. QED
    BY <2>2, <2>3
<1>8. CASE ~(i # 0 /\ p = Wanted(e)) /\ p \notin Releases(e)
  <2>1. waiters'[p] = w
    BY <1>3, <1>8
  <2>. DEFINE f == [k \in DOMAIN w |-> k]
  <2>2. f \in [DOMAIN waiters'[p] -> DOMAIN w]
    BY <2>1
  <2>3. \A k \in DOMAIN w : Stays(w[k], e)
    BY <1>4, <1>5, <1>8
  <2>4. \A k \in DOMAIN w : f[k] = k
    OBVIOUS
  <2>. HIDE DEF f
  <2>. QED
    BY <1>1, <1>8, <2>1, <2>2, <2>3, <2>4
<1>. QED
  BY <1>6, <1>7, <1>8

\* When e ends its slots are given up, each to the taker if there is one.
LEMMA EndsOwners ==
  ASSUME IInv, NEW e \in Extractions, Ends(e),
         NEW x \in Extractions, NEW q \in Pools
  PROVE  Owns(x, q)' <=> /\ x # e
                         /\ Owns(x, q) \/ (q \in Releases(e) /\ IsGiven(x, q))
<1>. DEFINE Given == \E p \in Releases(e) : IsGiven(x, p)
            Refuses == \E p \in Releases(e) : IsRefused(x, p)
<1>1. nested'[x] = IF x = e THEN FALSE ELSE nested[x]
  BY DEF Ends, IInv, TypeOK
<1>2. x = e => stage'[x] = "idle"
  BY DEF Ends
<1>3. ASSUME NEW p \in Pools, IsGiven(x, p) \/ IsRefused(x, p)
      PROVE  Waits(x, p)
  BY <1>3 DEF IsGiven, IsRefused, IInv, QueuesHoldWaiters
<1>4. Releases(e) \subseteq Pools
  BY DEF Releases
<1>5. CASE x = e
  BY <1>1, <1>2, <1>5 DEF Owns
<1>6. CASE x # e /\ Given
  <2>1. PICK p \in Releases(e) : IsGiven(x, p)
    BY <1>6
  <2>2. Waits(x, p) /\ (IsGiven(x, q) => q = p)
    BY <1>3, <1>4, <2>1 DEF Waits
  <2>3. stage'[x] = "handed"
    BY <1>6 DEF Ends
  <2>. HIDE DEF Given, Refuses
  <2>. QED
    BY <1>1, <1>6, <2>1, <2>2, <2>3, RealmAssumption, LayerOfAssumption
       DEF Owns, Waits, Wanted
<1>7. CASE x # e /\ ~Given /\ Refuses
  <2>1. PICK p \in Releases(e) : IsRefused(x, p)
    BY <1>7
  <2>2. Waits(x, p)
    BY <1>3, <1>4, <2>1
  <2>3. stage'[x] = "refused"
    BY <1>7 DEF Ends
  <2>4. ~(q \in Releases(e) /\ IsGiven(x, q))
    BY <1>7
  <2>. HIDE DEF Given, Refuses
  <2>. QED
    BY <1>1, <1>7, <2>2, <2>3, <2>4 DEF Owns, Waits
<1>8. CASE x # e /\ ~Given /\ ~Refuses
  <2>1. stage'[x] = stage[x]
    BY <1>8 DEF Ends
  <2>2. ~(q \in Releases(e) /\ IsGiven(x, q))
    BY <1>8
  <2>. HIDE DEF Given, Refuses
  <2>. QED
    BY <1>1, <1>8, <2>1, <2>2 DEF Owns
<1>. QED
  BY <1>5, <1>6, <1>7, <1>8

-----------------------------------------------------------------------------
LEMMA OwnersFinite == \A p \in Pools : IsFiniteSet(Owners(p))
<1>. TAKE p \in Pools
<1>1. Owners(p) \in SUBSET Extractions
  BY DEF Owners
<1>. QED
  BY <1>1, ExtractionsAssumption, FS_Subset

\* Whoever owns a slot is counted.
LEMMA OwnedIsCounted ==
  ASSUME IInv, NEW p \in Pools, NEW e \in Extractions, Owns(e, p)
  PROVE  active[p] \in Nat \ {0}
<1>1. e \in Owners(p) /\ IsFiniteSet(Owners(p))
  BY OwnersFinite DEF Owners
<1>2. Cardinality(Owners(p)) # 0
  BY <1>1, FS_EmptySet
<1>. QED
  BY <1>2 DEF IInv, TypeOK, SlotsAreOwned

\* What an extraction that ends leaves counted.
LEMMA EndsCount ==
  ASSUME IInv, NEW e \in Extractions, Ends(e), NEW p \in Pools
  PROVE  active'[p] = Cardinality(Owners(p)')
<1>. DEFINE O == Owners(p)
<1>1. /\ IsFiniteSet(O) /\ active[p] = Cardinality(O) /\ active[p] \in Nat
      /\ active'[p] = IF p \in Releases(e) THEN ActiveAfter(p) ELSE active[p]
  BY OwnersFinite DEF IInv, TypeOK, SlotsAreOwned, Ends
<1>2. p \in Releases(e) <=> e \in O
  BY ReleasesOwned DEF IInv, Owners
<1>3. Owners(p)' = {x \in Extractions :
                      x # e /\ (x \in O \/ (p \in Releases(e) /\ IsGiven(x, p)))}
  BY EndsOwners DEF Owners
<1>4. CASE p \notin Releases(e)
  <2>1. Owners(p)' = O
    BY <1>2, <1>3, <1>4 DEF Owners
  <2>. QED
    BY <1>1, <1>4, <2>1
<1>5. CASE p \in Releases(e) /\ ~HasTaker(p)
  <2>1. Owners(p)' = O \ {e}
    BY <1>3, <1>5 DEF Owners, IsGiven, HasTaker
  <2>. QED
    BY <1>1, <1>2, <1>5, <2>1, FS_RemoveElement DEF ActiveAfter
<1>6. CASE p \in Releases(e) /\ HasTaker(p)
  <2>1. PICK i \in DOMAIN waiters[p] : IsTaker(p, i)
    BY <1>6 DEF HasTaker
  <2>. DEFINE t == waiters[p][i]
  <2>2. waiters[p] \in Seq(Extractions) /\ DOMAIN waiters[p] \subseteq Nat
    BY DEF IInv, TypeOK
  <2>3. t \in Extractions /\ Waits(t, p)
    BY <2>2 DEF IInv, QueuesHoldWaiters
  <2>4. t \notin O
    BY <2>3, RealmAssumption, LayerOfAssumption DEF Owners, Owns, Waits, Wanted
  <2>5. t # e
    BY <2>3, <1>6, RealmAssumption, LayerOfAssumption DEF Releases, Waits, Wanted
  <2>6. \A x : IsGiven(x, p) <=> x = t
    <3>1. \A j \in DOMAIN waiters[p] : IsTaker(p, j) => j = i
      BY <2>1, <2>2 DEF IsTaker, Takers
    <3>. QED
      BY <2>1, <3>1 DEF IsGiven
  <2>. HIDE DEF t
  <2>7. Owners(p)' = (O \ {e}) \cup {t}
    BY <1>3, <1>6, <2>3, <2>5, <2>6 DEF Owners
  <2>8. IsFiniteSet(O \ {e}) /\ Cardinality(O \ {e}) = active[p] - 1
    BY <1>1, <1>2, <1>6, FS_RemoveElement
  <2>9. Cardinality((O \ {e}) \cup {t}) = active[p] - 1 + 1
    BY <2>4, <2>8, FS_AddElement
  <2>. QED
    BY <1>1, <1>6, <2>7, <2>9 DEF ActiveAfter
<1>. QED
  BY <1>4, <1>5, <1>6

LEMMA EndsKeeps ==
  ASSUME IInv, NEW e \in Extractions, Ends(e)
  PROVE  IInv'
<1>1. TypeOK'
  <2>1. active' \in [Pools -> Nat]
    <3>1. ASSUME NEW p \in Pools, p \in Releases(e)
          PROVE  ActiveAfter(p) \in Nat
      <4>1. active[p] \in Nat \ {0}
        BY <3>1, OwnedIsCounted, ReleasesOwned DEF IInv
      <4>. QED
        BY <4>1 DEF ActiveAfter
    <3>. QED
      BY <3>1 DEF Ends, IInv, TypeOK
  <2>2. waiters' \in [Pools -> Seq(Extractions)]
    <3>1. waiters' = [p \in Pools |-> waiters'[p]]
      BY DEF Ends
    <3>2. \A p \in Pools : waiters'[p] \in Seq(Extractions)
      BY EndsQueues
    <3>. QED
      BY <3>1, <3>2
  <2>3. stage' \in [Extractions -> Stages]
    BY DEF Ends, IInv, TypeOK, Stages
  <2>. QED
    BY <2>1, <2>2, <2>3 DEF Ends, IInv, TypeOK
<1>2. StagesAreNested'
  <2>. SUFFICES ASSUME NEW x \in Extractions
                PROVE  /\ stage'[x] = "idle" => ~nested'[x]
                       /\ stage'[x] \in {"working", "terminating"} => nested'[x]
    BY DEF StagesAreNested
  <2>1. nested'[x] = IF x = e THEN FALSE ELSE nested[x]
    BY DEF Ends, IInv, TypeOK
  <2>2. IF x = e THEN stage'[x] = "idle" ELSE stage'[x] \in {"handed", "refused", stage[x]}
    BY DEF Ends
  <2>. QED
    BY <2>1, <2>2 DEF IInv, StagesAreNested
<1>3. QueuesHoldWaiters' /\ QueuesHoldThemOnce'
  <2>. DEFINE Waiting(x, p) ==
                /\ stage'[x] = "queued"
                /\ p = IF nested'[x] THEN Realm ELSE LayerOf[x]
  <2>. SUFFICES ASSUME NEW p \in Pools
                PROVE  /\ \A k \in DOMAIN waiters'[p] : Waiting(waiters'[p][k], p)
                       /\ \A k, l \in DOMAIN waiters'[p] :
                            waiters'[p][k] = waiters'[p][l] => k = l
    BY DEF QueuesHoldWaiters, QueuesHoldThemOnce, Waits, Wanted
  <2>1. PICK f \in [DOMAIN waiters'[p] -> DOMAIN waiters[p]] :
          /\ \A k, l \in DOMAIN waiters'[p] : f[k] = f[l] => k = l
          /\ \A k \in DOMAIN waiters'[p] :
               /\ waiters'[p][k] = waiters[p][f[k]]
               /\ Stays(waiters[p][f[k]], e)
    BY EndsQueues
  <2>2. \A k, l \in DOMAIN waiters'[p] : waiters'[p][k] = waiters'[p][l] => k = l
    BY <2>1 DEF IInv, QueuesHoldThemOnce
  <2>3. ASSUME NEW k \in DOMAIN waiters'[p]
        PROVE  Waiting(waiters'[p][k], p)
    <3>. DEFINE x == waiters[p][f[k]]
    <3>1. f[k] \in DOMAIN waiters[p] /\ waiters'[p][k] = x /\ Stays(x, e)
      BY <2>1, <2>3
    <3>2. x \in Extractions /\ Waits(x, p)
      BY <3>1 DEF IInv, TypeOK, QueuesHoldWaiters
    <3>. HIDE DEF x
    <3>3. stage'[x] = stage[x] /\ nested'[x] = nested[x]
      BY <3>1, <3>2 DEF Ends, Stays, IInv, TypeOK
    <3>. QED
      BY <3>1, <3>2, <3>3 DEF Waits, Wanted
  <2>. QED
    BY <2>2, <2>3
<1>4. SlotsAreOwned'
  BY EndsCount DEF SlotsAreOwned
<1>5. NoSlotIdles' /\ WithinCapacity'
  <2>. SUFFICES ASSUME NEW p \in Pools
                PROVE  /\ waiters'[p] # <<>> => active'[p] = Capacity(p)
                       /\ active'[p] <= Capacity(p)
    BY DEF NoSlotIdles, WithinCapacity, Capacity
  <2>1. /\ active[p] \in Nat /\ active[p] <= Capacity(p) /\ Capacity(p) \in Nat
        /\ waiters[p] \in Seq(Extractions)
        /\ waiters[p] # <<>> => active[p] = Capacity(p)
    BY LimitsAssumption DEF IInv, TypeOK, NoSlotIdles, WithinCapacity, Capacity
  <2>2. active'[p] = IF p \in Releases(e) /\ ~HasTaker(p) THEN active[p] - 1 ELSE active[p]
    BY DEF Ends, ActiveAfter
  <2>3. waiters'[p] # <<>> => waiters[p] # <<>> /\ ~(p \in Releases(e) /\ ~HasTaker(p))
    <3>1. HAVE waiters'[p] # <<>>
    <3>2. waiters'[p] \in Seq(Extractions) /\ ~(p \in Releases(e) /\ ~HasTaker(p))
      BY <3>1, EndsQueues
    <3>3. 1 \in DOMAIN waiters'[p]
      BY <3>1, <3>2
    <3>4. DOMAIN waiters[p] # {}
      BY <3>3, EndsQueues
    <3>. QED
      BY <3>2, <3>4
  <2>. QED
    BY <2>1, <2>2, <2>3
<1>. QED
  BY <1>1, <1>2, <1>3, <1>4, <1>5 DEF IInv

-----------------------------------------------------------------------------
LEMMA FullUnlessFree ==
  ASSUME IInv, NEW p \in Pools, ~Free(p)
  PROVE  active[p] = Capacity(p)
BY LimitsAssumption
   DEF IInv, TypeOK, NoSlotIdles, WithinCapacity, Free, Capacity

\* Taking free slots, those of T, is counted and stays within the capacity.
LEMMA TakesAreCounted ==
  ASSUME IInv, NEW e \in Extractions, NEW T,
         \A p \in Pools : p \in T => Free(p) /\ ~Owns(e, p),
         \A p \in Pools : active'[p] = IF p \in T THEN active[p] + 1 ELSE active[p],
         \A p \in Pools, x \in Extractions :
           Owns(x, p)' <=> Owns(x, p) \/ (x = e /\ p \in T)
  PROVE  SlotsAreOwned' /\ WithinCapacity'
<1>. SUFFICES ASSUME NEW p \in Pools
              PROVE  /\ active'[p] = Cardinality(Owners(p)')
                     /\ active'[p] <= Capacity(p)
  BY DEF SlotsAreOwned, WithinCapacity, Capacity
<1>1. /\ active[p] \in Nat /\ active[p] = Cardinality(Owners(p))
      /\ active[p] <= Capacity(p) /\ Capacity(p) \in Nat
      /\ IsFiniteSet(Owners(p))
  BY OwnersFinite, LimitsAssumption
     DEF IInv, TypeOK, SlotsAreOwned, WithinCapacity, Capacity
<1>2. CASE p \in T
  <2>1. Owners(p)' = Owners(p) \cup {e} /\ e \notin Owners(p)
    BY <1>2 DEF Owners
  <2>2. Cardinality(Owners(p) \cup {e}) = active[p] + 1
    BY <1>1, <2>1, FS_AddElement
  <2>3. active[p] < Capacity(p)
    BY <1>2 DEF Free
  <2>. QED
    BY <1>1, <1>2, <2>1, <2>2, <2>3
<1>3. CASE p \notin T
  <2>1. Owners(p)' = Owners(p)
    BY <1>3 DEF Owners
  <2>. QED
    BY <1>1, <1>3, <2>1
<1>. QED
  BY <1>2, <1>3

\* Joining a queue keeps it exact.
LEMMA JoinsQueues ==
  ASSUME IInv, NEW e \in Extractions, NEW p \in {LayerOf[e], Realm},
         stage[e] # "queued", Joins(e, p)
  PROVE  /\ waiters' \in [Pools -> Seq(Extractions)]
         /\ QueuesHoldWaiters' /\ QueuesHoldThemOnce'
         /\ \A q \in Pools : q # p => waiters'[q] = waiters[q]
<1>. DEFINE w == waiters[p]
            Waiting(x, q) ==
              /\ stage'[x] = "queued"
              /\ q = IF nested'[x] THEN Realm ELSE LayerOf[x]
<1>1. p \in Pools /\ w \in Seq(Extractions)
  BY LayerOfAssumption DEF IInv, TypeOK, Pools
<1>2. /\ waiters' \in [Pools -> Seq(Extractions)]
      /\ waiters'[p] = Append(w, e)
      /\ \A q \in Pools : q # p => waiters'[q] = waiters[q]
  BY <1>1 DEF Joins, IInv, TypeOK
<1>3. /\ DOMAIN w = 1..Len(w) /\ Len(w) \in Nat
      /\ DOMAIN waiters'[p] = 1..(Len(w) + 1)
      /\ waiters'[p][Len(w) + 1] = e
      /\ \A k \in DOMAIN w : waiters'[p][k] = w[k]
  BY <1>1, <1>2
<1>4. ASSUME NEW q \in Pools, NEW k \in DOMAIN waiters[q]
      PROVE  waiters[q][k] # e /\ Waiting(waiters[q][k], q)
  <2>1. waiters[q][k] \in Extractions /\ Waits(waiters[q][k], q)
    BY <1>4 DEF IInv, TypeOK, QueuesHoldWaiters
  <2>2. waiters[q][k] # e
    BY <2>1 DEF Waits
  <2>. QED
    BY <2>1, <2>2 DEF Joins, IInv, TypeOK, Waits, Wanted
<1>5. Waiting(e, p)
  BY RealmAssumption, LayerOfAssumption DEF Joins, IInv, TypeOK
<1>6. ASSUME NEW q \in Pools, NEW k \in DOMAIN waiters'[q]
      PROVE  Waiting(waiters'[q][k], q)
  <2>1. CASE q # p
    BY <1>2, <1>4, <1>6, <2>1
  <2>2. CASE q = p /\ k \in DOMAIN w
    BY <1>1, <1>3, <1>4, <2>2
  <2>3. CASE q = p /\ k \notin DOMAIN w
    <3>1. k = Len(w) + 1
      BY <1>3, <1>6, <2>3
    <3>. QED
      BY <1>3, <1>5, <2>3, <3>1
  <2>. QED
    BY <2>1, <2>2, <2>3
<1>7. QueuesHoldWaiters'
  BY <1>6 DEF QueuesHoldWaiters, Waits, Wanted
<1>8. ASSUME NEW q \in Pools, NEW k \in DOMAIN waiters'[q], NEW l \in DOMAIN waiters'[q],
             waiters'[q][k] = waiters'[q][l]
      PROVE  k = l
  <2>1. CASE q # p
    BY <1>2, <1>8, <2>1 DEF IInv, QueuesHoldThemOnce
  <2>2. CASE q = p
    <3>1. ASSUME NEW m \in DOMAIN waiters'[p]
          PROVE  IF m \in DOMAIN w THEN waiters'[p][m] = w[m] /\ w[m] # e
                                   ELSE m = Len(w) + 1 /\ waiters'[p][m] = e
      BY <1>1, <1>3, <1>4, <3>1
    <3>. HIDE DEF w
    <3>2. \A m, n \in DOMAIN w : w[m] = w[n] => m = n
      BY <1>1 DEF w, IInv, QueuesHoldThemOnce
    <3>. QED
      BY <1>8, <2>2, <3>1, <3>2
  <2>. QED
    BY <2>1, <2>2
<1>9. QueuesHoldThemOnce'
  BY <1>8 DEF QueuesHoldThemOnce
<1>. QED
  BY <1>2, <1>7, <1>9

\* A step of e that leaves the queues alone and lets no waiter go.
LEMMA SameQueues ==
  ASSUME IInv, NEW e \in Extractions, stage[e] # "queued",
         UNCHANGED waiters,
         \A x \in Extractions : x # e => stage'[x] = stage[x] /\ nested'[x] = nested[x]
  PROVE  QueuesHoldWaiters' /\ QueuesHoldThemOnce'
<1>1. QueuesHoldThemOnce'
  BY DEF IInv, QueuesHoldThemOnce
<1>2. ASSUME NEW p \in Pools, NEW k \in DOMAIN waiters[p]
      PROVE  /\ stage'[waiters[p][k]] = "queued"
             /\ p = IF nested'[waiters[p][k]] THEN Realm ELSE LayerOf[waiters[p][k]]
  <2>1. waiters[p][k] \in Extractions /\ Waits(waiters[p][k], p)
    BY <1>2 DEF IInv, TypeOK, QueuesHoldWaiters
  <2>. QED
    BY <2>1 DEF Waits, Wanted
<1>. QED
  BY <1>1, <1>2 DEF QueuesHoldWaiters, Waits, Wanted

-----------------------------------------------------------------------------
\* Each way past a queue, or into one: T is what it takes.
LEMMA AskLayerFullKeeps ==
  ASSUME IInv, NEW e \in Extractions, AskLayerFull(e)
  PROVE  IInv'
<1>. DEFINE T == {}
<1>1. LayerOf[e] \in Pools /\ Realm \in Pools /\ LayerOf[e] # Realm
  BY RealmAssumption, LayerOfAssumption DEF Pools
<1>2. stage[e] = "idle" /\ ~nested[e]
  BY DEF AskLayerFull, IInv, StagesAreNested
<1>3. /\ waiters' \in [Pools -> Seq(Extractions)]
      /\ QueuesHoldWaiters' /\ QueuesHoldThemOnce'
      /\ \A q \in Pools : q # LayerOf[e] => waiters'[q] = waiters[q]
  BY <1>2, JoinsQueues DEF AskLayerFull
<1>4. TypeOK' /\ StagesAreNested'
  BY <1>1, <1>3 DEF AskLayerFull, Joins, IInv, TypeOK, Stages, StagesAreNested
<1>5. \A p \in Pools : p \in T => Free(p) /\ ~Owns(e, p)
  BY <1>1, <1>2 DEF AskLayerFull, Owns
<1>6. \A p \in Pools : active'[p] = IF p \in T THEN active[p] + 1 ELSE active[p]
  BY <1>1 DEF AskLayerFull, IInv, TypeOK
<1>7. \A p \in Pools, x \in Extractions :
        Owns(x, p)' <=> Owns(x, p) \/ (x = e /\ p \in T)
  BY <1>1, <1>2, RealmAssumption, LayerOfAssumption
     DEF AskLayerFull, Joins, Owns, IInv, TypeOK
<1>8. SlotsAreOwned' /\ WithinCapacity'
  <2>. HIDE DEF T
  <2>. QED
    BY <1>5, <1>6, <1>7, TakesAreCounted
<1>9. NoSlotIdles'
  <2>1. active[LayerOf[e]] = Capacity(LayerOf[e]) /\ LayerOf[e] \notin T
    BY <1>1, FullUnlessFree DEF AskLayerFull
  <2>. HIDE DEF T
  <2>. QED
    BY <1>1, <1>3, <1>5, <1>6, <2>1 DEF NoSlotIdles, Capacity, Free, IInv
<1>. QED
  BY <1>3, <1>4, <1>8, <1>9 DEF IInv

LEMMA AskRealmFullKeeps ==
  ASSUME IInv, NEW e \in Extractions, AskRealmFull(e)
  PROVE  IInv'
<1>. DEFINE T == {LayerOf[e]}
<1>1. LayerOf[e] \in Pools /\ Realm \in Pools /\ LayerOf[e] # Realm
  BY RealmAssumption, LayerOfAssumption DEF Pools
<1>2. stage[e] = "idle" /\ ~nested[e]
  BY DEF AskRealmFull, IInv, StagesAreNested
<1>3. /\ waiters' \in [Pools -> Seq(Extractions)]
      /\ QueuesHoldWaiters' /\ QueuesHoldThemOnce'
      /\ \A q \in Pools : q # Realm => waiters'[q] = waiters[q]
  BY <1>2, JoinsQueues DEF AskRealmFull
<1>4. TypeOK' /\ StagesAreNested'
  BY <1>1, <1>3 DEF AskRealmFull, Joins, IInv, TypeOK, Stages, StagesAreNested
<1>5. \A p \in Pools : p \in T => Free(p) /\ ~Owns(e, p)
  BY <1>1, <1>2 DEF AskRealmFull, Owns
<1>6. \A p \in Pools : active'[p] = IF p \in T THEN active[p] + 1 ELSE active[p]
  BY <1>1 DEF AskRealmFull, IInv, TypeOK
<1>7. \A p \in Pools, x \in Extractions :
        Owns(x, p)' <=> Owns(x, p) \/ (x = e /\ p \in T)
  BY <1>1, <1>2, RealmAssumption, LayerOfAssumption
     DEF AskRealmFull, Joins, Owns, IInv, TypeOK
<1>8. SlotsAreOwned' /\ WithinCapacity'
  <2>. HIDE DEF T
  <2>. QED
    BY <1>5, <1>6, <1>7, TakesAreCounted
<1>9. NoSlotIdles'
  <2>1. active[Realm] = Capacity(Realm) /\ Realm \notin T
    BY <1>1, FullUnlessFree DEF AskRealmFull
  <2>. HIDE DEF T
  <2>. QED
    BY <1>1, <1>3, <1>5, <1>6, <2>1 DEF NoSlotIdles, Capacity, Free, IInv
<1>. QED
  BY <1>3, <1>4, <1>8, <1>9 DEF IInv

LEMMA AskBothFreeKeeps ==
  ASSUME IInv, NEW e \in Extractions, AskBothFree(e)
  PROVE  IInv'
<1>. DEFINE T == {LayerOf[e], Realm}
<1>1. LayerOf[e] \in Pools /\ Realm \in Pools /\ LayerOf[e] # Realm
  BY RealmAssumption, LayerOfAssumption DEF Pools
<1>2. stage[e] = "idle" /\ ~nested[e]
  BY DEF AskBothFree, IInv, StagesAreNested
<1>3. /\ UNCHANGED waiters
      /\ QueuesHoldWaiters' /\ QueuesHoldThemOnce'
  BY <1>2, SameQueues DEF AskBothFree, Works, IInv, TypeOK
<1>4. TypeOK' /\ StagesAreNested'
  <2>1. active' \in [Pools -> Nat]
    BY <1>1 DEF AskBothFree, IInv, TypeOK
  <2>2. waiters' \in [Pools -> Seq(Extractions)]
    BY <1>3 DEF IInv, TypeOK
  <2>3. /\ stage' \in [Extractions -> Stages]
        /\ nested' \in [Extractions -> BOOLEAN]
        /\ time' \in [Extractions -> {"early", "due", "late"}]
    BY DEF AskBothFree, Works, IInv, TypeOK, Stages
  <2>4. StagesAreNested'
    BY DEF AskBothFree, Works, IInv, TypeOK, StagesAreNested
  <2>. QED
    BY <2>1, <2>2, <2>3, <2>4 DEF TypeOK
<1>5. \A p \in Pools : p \in T => Free(p) /\ ~Owns(e, p)
  BY <1>1, <1>2 DEF AskBothFree, Owns
<1>6. \A p \in Pools : active'[p] = IF p \in T THEN active[p] + 1 ELSE active[p]
  BY <1>1 DEF AskBothFree, IInv, TypeOK
<1>7. \A p \in Pools, x \in Extractions :
        Owns(x, p)' <=> Owns(x, p) \/ (x = e /\ p \in T)
  BY <1>1, <1>2, RealmAssumption, LayerOfAssumption
     DEF AskBothFree, Works, Owns, IInv, TypeOK
<1>8. SlotsAreOwned' /\ WithinCapacity'
  <2>. HIDE DEF T
  <2>. QED
    BY <1>5, <1>6, <1>7, TakesAreCounted
<1>9. NoSlotIdles'
  <2>. HIDE DEF T
  <2>. QED
    BY <1>3, <1>5, <1>6 DEF NoSlotIdles, Capacity, Free, IInv
<1>. QED
  BY <1>3, <1>4, <1>8, <1>9 DEF IInv

LEMMA ResumeRealmFullKeeps ==
  ASSUME IInv, NEW e \in Extractions, ResumeRealmFull(e)
  PROVE  IInv'
<1>. DEFINE T == {}
<1>1. LayerOf[e] \in Pools /\ Realm \in Pools /\ LayerOf[e] # Realm
  BY RealmAssumption, LayerOfAssumption DEF Pools
<1>2. stage[e] = "handed" /\ ~nested[e]
  BY DEF ResumeRealmFull, IInv, StagesAreNested
<1>3. /\ waiters' \in [Pools -> Seq(Extractions)]
      /\ QueuesHoldWaiters' /\ QueuesHoldThemOnce'
      /\ \A q \in Pools : q # Realm => waiters'[q] = waiters[q]
  BY <1>2, JoinsQueues DEF ResumeRealmFull
<1>4. TypeOK' /\ StagesAreNested'
  BY <1>1, <1>3 DEF ResumeRealmFull, Joins, IInv, TypeOK, Stages, StagesAreNested
<1>5. \A p \in Pools : p \in T => Free(p) /\ ~Owns(e, p)
  BY <1>1, <1>2 DEF ResumeRealmFull, Owns
<1>6. \A p \in Pools : active'[p] = IF p \in T THEN active[p] + 1 ELSE active[p]
  BY <1>1 DEF ResumeRealmFull, IInv, TypeOK
<1>7. \A p \in Pools, x \in Extractions :
        Owns(x, p)' <=> Owns(x, p) \/ (x = e /\ p \in T)
  BY <1>1, <1>2, RealmAssumption, LayerOfAssumption
     DEF ResumeRealmFull, Joins, Owns, IInv, TypeOK
<1>8. SlotsAreOwned' /\ WithinCapacity'
  <2>. HIDE DEF T
  <2>. QED
    BY <1>5, <1>6, <1>7, TakesAreCounted
<1>9. NoSlotIdles'
  <2>1. active[Realm] = Capacity(Realm) /\ Realm \notin T
    BY <1>1, FullUnlessFree DEF ResumeRealmFull
  <2>. HIDE DEF T
  <2>. QED
    BY <1>1, <1>3, <1>5, <1>6, <2>1 DEF NoSlotIdles, Capacity, Free, IInv
<1>. QED
  BY <1>3, <1>4, <1>8, <1>9 DEF IInv

LEMMA ResumeRealmFreeKeeps ==
  ASSUME IInv, NEW e \in Extractions, ResumeRealmFree(e)
  PROVE  IInv'
<1>. DEFINE T == {Realm}
<1>1. LayerOf[e] \in Pools /\ Realm \in Pools /\ LayerOf[e] # Realm
  BY RealmAssumption, LayerOfAssumption DEF Pools
<1>2. stage[e] = "handed" /\ ~nested[e]
  BY DEF ResumeRealmFree, IInv, StagesAreNested
<1>3. /\ UNCHANGED waiters
      /\ QueuesHoldWaiters' /\ QueuesHoldThemOnce'
  BY <1>2, SameQueues DEF ResumeRealmFree, Works, IInv, TypeOK
<1>4. TypeOK' /\ StagesAreNested'
  BY <1>1, <1>3 DEF ResumeRealmFree, Works, IInv, TypeOK, Stages, StagesAreNested
<1>5. \A p \in Pools : p \in T => Free(p) /\ ~Owns(e, p)
  BY <1>1, <1>2 DEF ResumeRealmFree, Owns
<1>6. \A p \in Pools : active'[p] = IF p \in T THEN active[p] + 1 ELSE active[p]
  BY <1>1 DEF ResumeRealmFree, IInv, TypeOK
<1>7. \A p \in Pools, x \in Extractions :
        Owns(x, p)' <=> Owns(x, p) \/ (x = e /\ p \in T)
  BY <1>1, <1>2, RealmAssumption, LayerOfAssumption
     DEF ResumeRealmFree, Works, Owns, IInv, TypeOK
<1>8. SlotsAreOwned' /\ WithinCapacity'
  <2>. HIDE DEF T
  <2>. QED
    BY <1>5, <1>6, <1>7, TakesAreCounted
<1>9. NoSlotIdles'
  <2>. HIDE DEF T
  <2>. QED
    BY <1>3, <1>5, <1>6 DEF NoSlotIdles, Capacity, Free, IInv
<1>. QED
  BY <1>3, <1>4, <1>8, <1>9 DEF IInv

LEMMA ResumeNestedKeeps ==
  ASSUME IInv, NEW e \in Extractions, ResumeNested(e)
  PROVE  IInv'
<1>. DEFINE T == {}
<1>1. LayerOf[e] \in Pools /\ Realm \in Pools /\ LayerOf[e] # Realm
  BY RealmAssumption, LayerOfAssumption DEF Pools
<1>2. stage[e] = "handed" /\ nested[e]
  BY DEF ResumeNested, IInv, StagesAreNested
<1>3. /\ UNCHANGED waiters
      /\ QueuesHoldWaiters' /\ QueuesHoldThemOnce'
  BY <1>2, SameQueues DEF ResumeNested, Works, IInv, TypeOK
<1>4. TypeOK' /\ StagesAreNested'
  BY <1>1, <1>3 DEF ResumeNested, Works, IInv, TypeOK, Stages, StagesAreNested
<1>5. \A p \in Pools : p \in T => Free(p) /\ ~Owns(e, p)
  BY <1>1, <1>2 DEF ResumeNested, Owns
<1>6. \A p \in Pools : active'[p] = IF p \in T THEN active[p] + 1 ELSE active[p]
  BY <1>1 DEF ResumeNested, IInv, TypeOK
<1>7. \A p \in Pools, x \in Extractions :
        Owns(x, p)' <=> Owns(x, p) \/ (x = e /\ p \in T)
  BY <1>1, <1>2, RealmAssumption, LayerOfAssumption
     DEF ResumeNested, Works, Owns, IInv, TypeOK
<1>8. SlotsAreOwned' /\ WithinCapacity'
  <2>. HIDE DEF T
  <2>. QED
    BY <1>5, <1>6, <1>7, TakesAreCounted
<1>9. NoSlotIdles'
  <2>. HIDE DEF T
  <2>. QED
    BY <1>3, <1>5, <1>6 DEF NoSlotIdles, Capacity, Free, IInv
<1>. QED
  BY <1>3, <1>4, <1>8, <1>9 DEF IInv

LEMMA WorkerDoneKeeps ==
  ASSUME IInv, NEW e \in Extractions, WorkerDone(e)
  PROVE  IInv'
<1>1. TypeOK' /\ StagesAreNested'
  BY DEF WorkerDone, IInv, TypeOK, Stages, StagesAreNested
<1>2. QueuesHoldWaiters' /\ QueuesHoldThemOnce'
  BY SameQueues DEF WorkerDone, IInv, TypeOK
<1>3. \A p \in Pools : Owners(p)' = Owners(p)
  BY DEF WorkerDone, Owners, Owns, IInv, TypeOK
<1>4. SlotsAreOwned' /\ WithinCapacity' /\ NoSlotIdles'
  BY <1>3 DEF WorkerDone, SlotsAreOwned, WithinCapacity, NoSlotIdles, Capacity, IInv
<1>. QED
  BY <1>1, <1>2, <1>4 DEF IInv

\* What IInv says, but for the types, is not about the clock.
LEMMA ClockKeeps ==
  ASSUME IInv, UNCHANGED <<active, waiters, stage, nested>>,
         time' \in [Extractions -> {"early", "due", "late"}]
  PROVE  IInv'
<1>1. TypeOK' /\ StagesAreNested'
  BY DEF IInv, TypeOK, StagesAreNested
<1>2. QueuesHoldWaiters' /\ QueuesHoldThemOnce'
  BY DEF IInv, QueuesHoldWaiters, QueuesHoldThemOnce, Waits, Wanted
<1>3. \A p \in Pools : Owners(p)' = Owners(p)
  BY DEF Owners, Owns
<1>4. SlotsAreOwned' /\ WithinCapacity' /\ NoSlotIdles'
  BY <1>3 DEF SlotsAreOwned, WithinCapacity, NoSlotIdles, Capacity, IInv
<1>. QED
  BY <1>1, <1>2, <1>4 DEF IInv

LEMMA InvInit == Init => IInv
<1>. SUFFICES ASSUME Init PROVE IInv
  OBVIOUS
<1>1. TypeOK /\ StagesAreNested /\ QueuesHoldWaiters /\ QueuesHoldThemOnce
  BY DEF Init, TypeOK, Stages, StagesAreNested, QueuesHoldWaiters, QueuesHoldThemOnce
<1>2. \A p \in Pools : Owners(p) = {}
  BY DEF Init, Owners, Owns
<1>3. SlotsAreOwned
  BY <1>2, FS_EmptySet DEF Init, SlotsAreOwned
<1>4. NoSlotIdles /\ WithinCapacity
  BY LimitsAssumption DEF Init, NoSlotIdles, WithinCapacity, Capacity
<1>. QED
  BY <1>1, <1>3, <1>4 DEF IInv

LEMMA InvStep == IInv /\ [Next]_vars => IInv'
<1>. SUFFICES ASSUME IInv, [Next]_vars PROVE IInv'
  OBVIOUS
<1>1. CASE UNCHANGED vars
  BY <1>1, ClockKeeps DEF vars, IInv, TypeOK
<1>2. ASSUME NEW e \in Extractions, Ask(e)
      PROVE  IInv'
  BY <1>2, AskLayerFullKeeps, AskRealmFullKeeps, AskBothFreeKeeps DEF Ask
<1>3. ASSUME NEW e \in Extractions, Resume(e)
      PROVE  IInv'
  BY <1>3, ResumeRealmFullKeeps, ResumeRealmFreeKeeps, ResumeNestedKeeps, EndsKeeps
     DEF Resume, ResumeInVain
<1>4. ASSUME NEW e \in Extractions,
             Refused(e) \/ TimerFires(e) \/ InterruptWait(e) \/ Terminated(e)
      PROVE  IInv'
  BY <1>4, EndsKeeps DEF Refused, TimerFires, InterruptWait, Terminated
<1>5. ASSUME NEW e \in Extractions, WorkerDone(e)
      PROVE  IInv'
  BY <1>5, WorkerDoneKeeps
<1>6. ASSUME NEW e \in Extractions, Tick(e)
      PROVE  IInv'
  BY <1>6, ClockKeeps DEF Tick, IInv, TypeOK
<1>. QED
  BY <1>1, <1>2, <1>3, <1>4, <1>5, <1>6 DEF Next

\* At most a pool's capacity of extractions own its slots, and every live
\* worker owns one of the realm's and one of its layer's.
LEMMA BoundedByPools == IInv => WorkersAreBounded
<1>. SUFFICES ASSUME IInv PROVE WorkersAreBounded
  OBVIOUS
<1>. DEFINE Alive == {e \in Extractions : stage[e] \in {"working", "terminating"}}
<1>1. ASSUME NEW p \in Pools, NEW S \in SUBSET Owners(p)
      PROVE  Cardinality(S) <= Capacity(p)
  <2>1. /\ IsFiniteSet(Owners(p)) /\ Cardinality(Owners(p)) = active[p]
        /\ active[p] <= Capacity(p) /\ active[p] \in Nat /\ Capacity(p) \in Nat
    BY OwnersFinite, LimitsAssumption
       DEF IInv, TypeOK, SlotsAreOwned, WithinCapacity, Capacity
  <2>2. IsFiniteSet(S) /\ Cardinality(S) <= Cardinality(Owners(p))
    BY <1>1, <2>1, FS_Subset
  <2>3. Cardinality(S) \in Nat
    BY <2>2, FS_CardinalityType
  <2>. QED
    BY <2>1, <2>2, <2>3
<1>2. Alive \in SUBSET Owners(Realm)
  BY DEF Owners, Owns, IInv, StagesAreNested
<1>3. \A l \in Layers : {e \in Alive : LayerOf[e] = l} \in SUBSET Owners(l)
  BY DEF Owners, Owns, IInv, StagesAreNested
<1>4. /\ Realm \in Pools /\ Capacity(Realm) = RealmLimit
      /\ \A l \in Layers : l \in Pools /\ Capacity(l) = LayerLimit
  BY RealmAssumption DEF Pools, Capacity
<1>5. Cardinality(Alive) <= RealmLimit
  <2>. HIDE DEF Alive
  <2>. QED
    BY <1>1, <1>2, <1>4
<1>6. \A l \in Layers : Cardinality({e \in Alive : LayerOf[e] = l}) <= LayerLimit
  <2>. HIDE DEF Alive
  <2>. QED
    BY <1>1, <1>3, <1>4
<1>. QED
  BY <1>5, <1>6 DEF WorkersAreBounded

LEMMA InvHolds == Spec => []IInv
BY InvInit, InvStep, PTL DEF Spec

\* The pools' counters and queues keep their types; in particular no slot is
\* given back twice, which would take a counter below zero.
THEOREM TypeCorrect == Spec => []TypeOK
<1>1. IInv => TypeOK
  BY DEF IInv
<1>. QED
  BY <1>1, InvHolds, PTL

\* No slot leaks and none is given back twice, whatever waits end in.
THEOREM SlotsAreCounted == Spec => []SlotsAreOwned
<1>1. IInv => SlotsAreOwned
  BY DEF IInv
<1>. QED
  BY <1>1, InvHolds, PTL

\* No slot idles beside a queue (the comment on SlotPool).
THEOREM SlotsAreUsed == Spec => []NoSlotIdles
<1>1. IInv => NoSlotIdles
  BY DEF IInv
<1>. QED
  BY <1>1, InvHolds, PTL

\* processWorkerLimit and maxConcurrentWorkers bound the live workers.
THEOREM WorkersBounded == Spec => []WorkersAreBounded
BY BoundedByPools, InvHolds, PTL

-----------------------------------------------------------------------------
(* The order of the queues, and deadlines.                                 *)

WaitersAreQueued ==
  \A p \in Pools : \A x \in Extractions :
    Waits(x, p) => \E i \in DOMAIN waiters[p] : waiters[p][i] = x

IdleIsEarly == \A e \in Extractions : stage[e] = "idle" => time[e] = "early"

OrderInv == IInv /\ WaitersAreQueued /\ IdleIsEarly

\* What ServedInOrderAndInTime says of a step.
KeepsOrder ==
  \A p \in Pools : \A x, y \in Extractions :
    Waits(x, p) /\ Waits(x, p)' /\ ~AheadOf(y, x, p) /\ x # y =>
      /\ Waits(y, p)' => AheadOf(x, y, p)'
      /\ ~(~Owns(y, p) /\ Owns(y, p)')

KeepsTime ==
  \A e \in Extractions :
    /\ \A p \in Pools : ~Owns(e, p) /\ Owns(e, p)' => time[e] # "late"
    /\ stage[e] # "refused" /\ stage'[e] = "refused" => time[e] = "late"

\* A step of e alone: it takes slots that are free, while it has time, and
\* joins queues at their end.
Advances(e) ==
  /\ \A x \in Extractions \ {e} :
       stage'[x] = stage[x] /\ nested'[x] = nested[x] /\ time'[x] = time[x]
  /\ \A p \in Pools : Owns(e, p)' => Owns(e, p) \/ (Free(p) /\ time[e] # "late")
  /\ \A p \in Pools :
       \/ waiters'[p] = waiters[p] /\ (Waits(e, p)' => Waits(e, p))
       \/ waiters'[p] = Append(waiters[p], e) /\ ~Waits(e, p)
  /\ stage'[e] = "refused" => stage[e] = "refused"
  /\ stage'[e] = "idle" => stage[e] = "idle" /\ time'[e] = time[e]

LEMMA StepsAdvance ==
  ASSUME OrderInv, NEW e \in Extractions,
         \/ Ask(e) \/ ResumeRealmFull(e) \/ ResumeRealmFree(e) \/ ResumeNested(e)
         \/ WorkerDone(e) \/ Tick(e)
  PROVE  Advances(e)
<1>. USE RealmAssumption, LayerOfAssumption
<1>1. /\ LayerOf[e] \in Pools /\ Realm \in Pools /\ LayerOf[e] # Realm
      /\ TypeOK /\ StagesAreNested
      /\ stage[e] = "idle" => ~nested[e] /\ time[e] = "early"
  BY DEF Pools, OrderInv, IInv, StagesAreNested, IdleIsEarly
<1>2. CASE AskLayerFull(e)
  BY <1>1, <1>2 DEF AskLayerFull, Joins, Advances, Owns, Waits, Wanted, TypeOK
<1>3. CASE AskRealmFull(e)
  BY <1>1, <1>3 DEF AskRealmFull, Joins, Advances, Owns, Waits, Wanted, TypeOK
<1>4. CASE AskBothFree(e)
  BY <1>1, <1>4 DEF AskBothFree, Works, Advances, Owns, Waits, Wanted, TypeOK
<1>5. CASE ResumeRealmFull(e)
  BY <1>1, <1>5 DEF ResumeRealmFull, Joins, Advances, Owns, Waits, Wanted, TypeOK
<1>6. CASE ResumeRealmFree(e)
  BY <1>1, <1>6 DEF ResumeRealmFree, Works, InTime, Advances, Owns, Waits, Wanted, TypeOK
<1>7. CASE ResumeNested(e)
  BY <1>1, <1>7 DEF ResumeNested, Works, Advances, Owns, Waits, Wanted, TypeOK
<1>8. CASE WorkerDone(e)
  BY <1>1, <1>8 DEF WorkerDone, Advances, Owns, Waits, Wanted, TypeOK
<1>9. CASE Tick(e)
  BY <1>1, <1>9 DEF Tick, Advances, Owns, Waits, Wanted, TypeOK
<1>. QED
  BY <1>2, <1>3, <1>4, <1>5, <1>6, <1>7, <1>8, <1>9 DEF Ask

\* A queue that e may have joined keeps those who were in it where they were.
LEMMA AdvanceKeepsPlaces ==
  ASSUME OrderInv, NEW e \in Extractions, Advances(e), NEW p \in Pools
  PROVE  /\ \A i \in DOMAIN waiters[p] : i \in DOMAIN waiters'[p] /\ waiters'[p][i] = waiters[p][i]
         /\ Waits(e, p)' /\ ~Waits(e, p) =>
              \E n \in DOMAIN waiters'[p] :
                waiters'[p][n] = e /\ \A i \in DOMAIN waiters[p] : i < n
<1>1. waiters[p] \in Seq(Extractions)
  BY DEF OrderInv, IInv, TypeOK
<1>2. CASE waiters'[p] = waiters[p] /\ (Waits(e, p)' => Waits(e, p))
  BY <1>2
<1>3. CASE waiters'[p] = Append(waiters[p], e)
  <2> DEFINE w == waiters[p]
             n == Len(w) + 1
  <2>1. /\ DOMAIN w = 1..Len(w) /\ Len(w) \in Nat /\ DOMAIN Append(w, e) = 1..n
        /\ Append(w, e)[n] = e /\ \A i \in 1..Len(w) : Append(w, e)[i] = w[i]
    BY <1>1
  <2>2. n \in DOMAIN waiters'[p] /\ \A i \in DOMAIN w : i < n
    BY <1>3, <2>1
  <2>. QED
    BY <1>3, <2>1, <2>2
<1>. QED
  BY <1>2, <1>3 DEF Advances

LEMMA AdvanceKeepsOrder ==
  ASSUME OrderInv, NEW e \in Extractions, Advances(e)
  PROVE  KeepsOrder /\ KeepsTime /\ WaitersAreQueued' /\ IdleIsEarly'
<1>1. \A p \in Pools, x \in Extractions \ {e} :
        (Waits(x, p)' <=> Waits(x, p)) /\ (Owns(x, p)' <=> Owns(x, p))
  BY DEF Advances, Waits, Wanted, Owns
<1>2. WaitersAreQueued'
  <2>. SUFFICES ASSUME NEW p \in Pools, NEW x \in Extractions, Waits(x, p)'
                PROVE  \E i \in DOMAIN waiters'[p] : waiters'[p][i] = x
    BY DEF WaitersAreQueued
  <2>1. CASE Waits(x, p)
    BY <2>1, AdvanceKeepsPlaces DEF OrderInv, WaitersAreQueued
  <2>2. CASE ~Waits(x, p)
    BY <1>1, <2>2, AdvanceKeepsPlaces
  <2>. QED
    BY <2>1, <2>2
<1>3. KeepsOrder
  <2>. SUFFICES ASSUME NEW p \in Pools, NEW x \in Extractions, NEW y \in Extractions,
                       Waits(x, p), Waits(x, p)', ~AheadOf(y, x, p), x # y
                PROVE  /\ Waits(y, p)' => AheadOf(x, y, p)'
                       /\ ~(~Owns(y, p) /\ Owns(y, p)')
    BY DEF KeepsOrder
  <2>1. PICK i \in DOMAIN waiters[p] : waiters[p][i] = x
    BY DEF OrderInv, WaitersAreQueued
  <2>2. waiters[p] \in Seq(Extractions) /\ DOMAIN waiters[p] \subseteq Nat
    BY DEF OrderInv, IInv, TypeOK
  <2>3. ASSUME Waits(y, p)' PROVE AheadOf(x, y, p)'
    <3>1. CASE Waits(y, p)
      <4>1. PICK j \in DOMAIN waiters[p] : waiters[p][j] = y
        BY <3>1 DEF OrderInv, WaitersAreQueued
      <4>2. i < j
        BY <2>1, <2>2, <4>1 DEF AheadOf
      <4>. QED
        BY <2>1, <4>1, <4>2, AdvanceKeepsPlaces DEF AheadOf
    <3>2. CASE ~Waits(y, p)
      <4>1. y = e
        BY <1>1, <2>3, <3>2
      <4>. QED
        BY <2>1, <2>3, <3>2, <4>1, AdvanceKeepsPlaces DEF AheadOf
    <3>. QED
      BY <3>1, <3>2
  <2>4. ASSUME ~Owns(y, p), Owns(y, p)' PROVE FALSE
    <3>1. y = e
      BY <1>1, <2>4
    <3>2. waiters[p] = <<>>
      BY <2>4, <3>1 DEF Advances, Free
    <3>. QED
      BY <2>1, <3>2
  <2>. QED
    BY <2>3, <2>4
<1>4. KeepsTime
  <2>1. \A x \in Extractions \ {e} : stage'[x] = stage[x]
    BY DEF Advances
  <2>. QED
    BY <1>1, <2>1 DEF KeepsTime, Advances
<1>5. IdleIsEarly'
  BY DEF OrderInv, IdleIsEarly, Advances
<1>. QED
  BY <1>2, <1>3, <1>4, <1>5

\* A hand-off in time that is called is the taker, or a taker comes before it.
LEMMA FirstTaker ==
  ASSUME TypeOK, NEW p \in Pools, NEW i \in DOMAIN waiters[p], InTime(waiters[p][i])
  PROVE  \E t \in 1..i : IsTaker(p, t)
<1> DEFINE S == Takers(p)
           n == Len(waiters[p])
           Before(j) == {k \in S : k < j}
           befores == {Before(j) : j \in S}
<1>1. n \in Nat /\ S \subseteq 1..n /\ i \in S /\ DOMAIN waiters[p] = 1..n
  BY DEF TypeOK, Takers
<1>. HIDE DEF S, n
<1>2. IsWellFoundedOn(StrictSubsetOrdering(1..n), SUBSET (1..n))
  <2>1. IsFiniteSet(1..n)
    BY <1>1, FS_Interval
  <2>. QED
    BY <2>1, FS_StrictSubsetOrderingWellFounded, FS_FiniteSubsetsOfFinite
<1>3. befores \subseteq SUBSET (1..n) /\ befores # {}
  BY <1>1
<1>4. PICK least \in befores : \A B \in befores : <<B, least>> \notin StrictSubsetOrdering(1..n)
  <2>. HIDE DEF befores
  <2>. QED
    BY <1>2, <1>3, WFMin
<1>5. PICK t \in S : least = Before(t)
  OBVIOUS
<1>. HIDE DEF befores
<1>6. \A j \in S : t <= j
  <2>. SUFFICES ASSUME NEW j \in S, j < t PROVE FALSE
    BY <1>1
  <2>1. j \in Before(t) /\ j \notin Before(j)
    BY <1>1
  <2>2. \A k \in Before(j) : k \in Before(t)
    BY <1>1
  <2>3. <<Before(j), Before(t)>> \in StrictSubsetOrdering(1..n)
    BY <1>1, <2>1, <2>2 DEF StrictSubsetOrdering
  <2>4. Before(j) \in befores
    BY DEF befores
  <2>. QED
    BY <1>4, <1>5, <2>3, <2>4
<1>7. IsTaker(p, t)
  BY <1>6 DEF IsTaker, S
<1>8. t \in 1..i
  BY <1>1, <1>6
<1>. QED
  BY <1>7, <1>8

LEMMA EndsKeepsOrder ==
  ASSUME OrderInv, NEW e \in Extractions, Ends(e)
  PROVE  KeepsOrder /\ KeepsTime /\ WaitersAreQueued' /\ IdleIsEarly'
<1>. USE DEF OrderInv
<1>1. /\ TypeOK /\ Releases(e) \subseteq Pools
      /\ \A p \in Pools : waiters[p] \in Seq(Extractions) /\ DOMAIN waiters[p] \subseteq Nat
  BY DEF IInv, TypeOK, Releases
<1>2. ASSUME NEW x \in Extractions, NEW p \in Pools, Waits(x, p)'
      PROVE  Waits(x, p) /\ Stays(x, e)
  <2>1. stage'[x] = "queued" /\ p = IF nested'[x] THEN Realm ELSE LayerOf[x]
    BY <1>2 DEF Waits, Wanted
  <2>2. Stays(x, e) /\ stage'[x] = stage[x] /\ nested'[x] = nested[x]
    BY <1>1, <2>1 DEF Ends, Stays, TypeOK
  <2>. QED
    BY <2>1, <2>2 DEF Waits, Wanted
<1>3. WaitersAreQueued'
  <2>. SUFFICES ASSUME NEW p \in Pools, NEW x \in Extractions, Waits(x, p)'
                PROVE  \E k \in DOMAIN waiters'[p] : waiters'[p][k] = x
    BY DEF WaitersAreQueued
  <2>1. PICK j \in DOMAIN waiters[p] : waiters[p][j] = x
    BY <1>2 DEF WaitersAreQueued
  <2>2. Stays(waiters[p][j], e)
    BY <1>2, <2>1
  <2>. QED
    BY <2>1, <2>2, EndsQueues
<1>4. KeepsOrder
  <2>. SUFFICES ASSUME NEW p \in Pools, NEW x \in Extractions, NEW y \in Extractions,
                       Waits(x, p), Waits(x, p)', ~AheadOf(y, x, p), x # y
                PROVE  /\ Waits(y, p)' => AheadOf(x, y, p)'
                       /\ ~(~Owns(y, p) /\ Owns(y, p)')
    BY DEF KeepsOrder
  <2>1. PICK i \in DOMAIN waiters[p] : waiters[p][i] = x
    BY DEF WaitersAreQueued
  <2>2. ASSUME NEW j \in DOMAIN waiters[p], waiters[p][j] = y PROVE i < j
    BY <1>1, <2>1, <2>2 DEF AheadOf
  <2>3. ASSUME Waits(y, p)' PROVE AheadOf(x, y, p)'
    <3>1. PICK k \in DOMAIN waiters'[p] : waiters'[p][k] = x
      BY <1>3 DEF WaitersAreQueued, Waits, Wanted
    <3>2. PICK l \in DOMAIN waiters'[p] : waiters'[p][l] = y
      BY <1>3, <2>3 DEF WaitersAreQueued, Waits, Wanted
    <3>3. PICK f \in [DOMAIN waiters'[p] -> DOMAIN waiters[p]] :
            /\ \A m, n \in DOMAIN waiters'[p] : m < n => f[m] < f[n]
            /\ \A m \in DOMAIN waiters'[p] : waiters'[p][m] = waiters[p][f[m]]
      BY EndsQueues
    <3>4. f[k] = i /\ f[l] \in DOMAIN waiters[p] /\ waiters[p][f[l]] = y
      BY <2>1, <3>1, <3>2, <3>3 DEF IInv, QueuesHoldThemOnce
    <3>5. f[k] < f[l]
      BY <2>2, <3>4
    <3>6. waiters'[p] \in Seq(Extractions)
      BY EndsQueues
    <3>7. k \in Nat /\ l \in Nat /\ f[k] \in Nat /\ f[l] \in Nat
      BY <1>1, <3>3, <3>6
    <3>8. k < l
      BY <3>1, <3>2, <3>3, <3>5, <3>7
    <3>. QED
      BY <3>1, <3>2, <3>8 DEF AheadOf
  <2>4. ASSUME ~Owns(y, p), Owns(y, p)' PROVE FALSE
    <3>1. p \in Releases(e) /\ IsGiven(y, p)
      BY <2>4, EndsOwners
    <3>2. PICK t \in DOMAIN waiters[p] : IsTaker(p, t) /\ waiters[p][t] = y
      BY <3>1 DEF IsGiven
    <3>3. i < t
      BY <2>2, <3>2
    <3>4. IsPassedOver(p, i)
      BY <1>1, <2>1, <3>2, <3>3 DEF IsPassedOver, IsTaker, Takers
    <3>5. IsRefused(x, p)
      BY <2>1, <3>4 DEF IsRefused
    <3>. QED
      BY <1>2, <3>1, <3>5 DEF Stays
  <2>. QED
    BY <2>3, <2>4
<1>5. KeepsTime
  <2>. SUFFICES ASSUME NEW x \in Extractions
                PROVE  /\ \A p \in Pools : ~Owns(x, p) /\ Owns(x, p)' => time[x] # "late"
                       /\ stage[x] # "refused" /\ stage'[x] = "refused" => time[x] = "late"
    BY DEF KeepsTime
  <2>1. ASSUME NEW p \in Pools, ~Owns(x, p), Owns(x, p)' PROVE time[x] # "late"
    <3>1. IsGiven(x, p)
      BY <2>1, EndsOwners
    <3>. QED
      BY <3>1 DEF IsGiven, IsTaker, Takers, InTime
  <2>2. ASSUME stage[x] # "refused", stage'[x] = "refused" PROVE time[x] = "late"
    <3>1. PICK p \in Releases(e) : IsRefused(x, p)
      BY <2>2 DEF Ends
    <3>2. PICK i \in DOMAIN waiters[p] : IsPassedOver(p, i) /\ waiters[p][i] = x
      BY <3>1 DEF IsRefused
    <3>3. ~InTime(x)
      BY <1>1, <3>2, FirstTaker DEF IsPassedOver
    <3>. QED
      BY <3>3 DEF InTime
  <2>. QED
    BY <2>1, <2>2
<1>6. IdleIsEarly'
  <2>. SUFFICES ASSUME NEW x \in Extractions, stage'[x] = "idle" PROVE time'[x] = "early"
    BY DEF IdleIsEarly
  <2>1. x # e => stage[x] = "idle"
    BY DEF Ends
  <2>. QED
    BY <1>1, <2>1 DEF Ends, IdleIsEarly, TypeOK
<1>. QED
  BY <1>3, <1>4, <1>5, <1>6

LEMMA OrderStep ==
  ASSUME OrderInv, Next
  PROVE  OrderInv' /\ KeepsOrder /\ KeepsTime
<1>1. IInv'
  BY InvStep DEF OrderInv
<1>2. PICK e \in Extractions :
        \/ Advances(e)
        \/ Ends(e)
  BY StepsAdvance DEF Next, Resume, ResumeInVain, Refused, TimerFires, InterruptWait, Terminated
<1>. QED
  BY <1>1, <1>2, AdvanceKeepsOrder, EndsKeepsOrder DEF OrderInv

LEMMA OrderHolds == Spec => []OrderInv
<1>1. Init => OrderInv
  BY InvInit DEF Init, OrderInv, WaitersAreQueued, IdleIsEarly, Waits
<1>2. OrderInv /\ [Next]_vars => OrderInv'
  <2>1. ASSUME OrderInv, UNCHANGED vars PROVE OrderInv'
    <3>1. IInv'
      BY <2>1, InvStep DEF OrderInv
    <3>. QED
      BY <2>1, <3>1 DEF vars, OrderInv, WaitersAreQueued, IdleIsEarly, Waits, Wanted
  <2>. QED
    BY <2>1, OrderStep
<1>. QED
  BY <1>1, <1>2, PTL DEF Spec

\* A slot goes to whoever has waited longest for it and still has time, through
\* every hand-off, timer, interruption and microtask, and nobody is turned away
\* who has time left (worker-admission.ts, releaseSlot and withSlot).
THEOREM FirstComeFirstServed == Spec => ServedInOrderAndInTime
<1>1. OrderInv /\ [Next]_vars => [KeepsOrder]_vars /\ [KeepsTime]_vars
  BY OrderStep
<1>. QED
  BY <1>1, OrderHolds, PTL DEF Spec, ServedInOrderAndInTime, KeepsOrder, KeepsTime
=============================================================================
