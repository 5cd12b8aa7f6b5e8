---------------------------- MODULE MCToolLedger ----------------------------
(***************************************************************************)
(* Three deliveries under one key: two of the same call and one of another *)
(* call that was given the same id.                                        *)
(***************************************************************************)
EXTENDS ToolLedger, TLC

CONSTANTS k, call, other, d1, d2, d3

MCKeyOf == [e \in Execs |-> k]
MCCallOf == [e \in Execs |-> IF e = d3 THEN other ELSE call]

\* The deliveries of one call are alike.
Alike == Permutations({d1, d2} \cap Execs)

=============================================================================
