----------------------------- MODULE ClaimStore -----------------------------
(***************************************************************************)
(* What a RunStore promises the driver: one durable record of the claimed  *)
(* runs and of how often each was resumed, changed by whole operations.    *)
(* RunStore.tla, with its lock, its saves and its crashes, implements it.  *)
(***************************************************************************)
EXTENDS Integers

CONSTANT Runs

VARIABLE stored

Snapshot == [claimed : SUBSET Runs, resumes : [Runs -> Nat]]

\* emptySnapshot: a store nothing was ever saved to.
EmptySnapshot == [claimed |-> {}, resumes |-> [r \in Runs |-> 0]]

Kinds == {"claim", "release", "increment"}

\* The snapshot an operation computes from the current one. A claim keeps the
\* resume count, a release forgets it.
Apply(kind, r, s) ==
  CASE kind = "claim"     -> [s EXCEPT !.claimed = @ \cup {r}]
    [] kind = "release"   -> [s EXCEPT !.claimed = @ \ {r}, !.resumes[r] = 0]
    [] kind = "increment" -> [s EXCEPT !.resumes[r] = @ + 1]

Init == stored = EmptySnapshot

Next == \E kind \in Kinds, r \in Runs : stored' = Apply(kind, r, stored)

Spec == Init /\ [][Next]_stored
=============================================================================
