--------------------------- MODULE MCWorkflowLoop ---------------------------
(* An instance of WorkflowLoop for TLC. *)
EXTENDS WorkflowLoop

CONSTANTS c1, c2

\* Only the batch is retried; an unset policy counts as one attempt.
ConfiguredAttempts == [s \in Steps |-> IF s = "batch" THEN 2 ELSE 0]

=============================================================================
