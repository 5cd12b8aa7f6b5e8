------------------------- MODULE MCWorkerAdmission -------------------------
(***************************************************************************)
(* WorkerAdmission with three extractions in a layer of two slots, one in  *)
(* another layer, and one slot in the realm: a layer's queue and the       *)
(* realm's fill up at the same time, and the layers contend for the realm. *)
(***************************************************************************)
EXTENDS WorkerAdmission

CONSTANTS a, b, c, d, first, second

MCLayerOf == [x \in Extractions |-> IF x = d THEN second ELSE first]
=============================================================================
