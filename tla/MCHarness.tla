----------------------------- MODULE MCHarness -----------------------------
(***************************************************************************)
(* Harness with a bound on the calls made from outside. Every drain token, *)
(* park generation and queued item comes from a call, so MaxCalls bounds   *)
(* them all and nothing the harness does by itself is cut short.           *)
(***************************************************************************)
EXTENDS Harness

CONSTANT MaxCalls

VARIABLE calls

MCInit == Init /\ calls = 0

MCNext ==
  \/ System /\ UNCHANGED calls
  \/ Environment /\ calls < MaxCalls /\ calls' = calls + 1

MCSpec == MCInit /\ [][MCNext]_<<vars, calls>>

MCFairSpec == MCSpec /\ Fairness
=============================================================================
