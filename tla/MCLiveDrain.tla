---------------------------- MODULE MCLiveDrain ----------------------------
(***************************************************************************)
(* LiveDrain with a start on a socket that closes, another on the socket   *)
(* that came after it, and two reconnects.                                 *)
(***************************************************************************)
EXTENDS LiveDrain

CONSTANTS a, c, old, new, first, second, closesOld

MCSocketOf == [s \in Starts |-> IF s = c THEN new ELSE old]

MCClosedSocket == [x \in Closes |-> old]
=============================================================================
