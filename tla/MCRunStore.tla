----------------------------- MODULE MCRunStore -----------------------------
(* Two runs and three concurrent callers of one snapshot store. *)
EXTENDS RunStore
=============================================================================
