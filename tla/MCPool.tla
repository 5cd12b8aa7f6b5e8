------------------------------- MODULE MCPool -------------------------------
(***************************************************************************)
(* Two requests over two accounts on one route. A quota lockout lasts as   *)
(* long as the clock runs and a refused login half of that, so that either *)
(* can run out while a request is still failing over. A reading shows      *)
(* quota left, or an account used up beside a model's window, which says   *)
(* nothing of the account.                                                 *)
(***************************************************************************)
EXTENDS Pool, TLC

CONSTANTS a, b, p, q, model

MCPriority == [x \in Accounts |-> IF x = a THEN 1 ELSE 0]
MCId == [x \in Accounts |-> IF x = a THEN 1 ELSE 0]
MCRouteOf == [r \in Requests |-> model]

MCWindow(models, percent, resets) ==
  [models |-> models, percent |-> percent, minutes |-> 300, resets |-> resets]

MCUsages == {{MCWindow({}, 50, 2)}, {MCWindow({}, 100, 2), MCWindow({model}, 10, 1)}}

\* Requests are alike.
RequestSymmetry == Permutations(Requests)

=============================================================================
