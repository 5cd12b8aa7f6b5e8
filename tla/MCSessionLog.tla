---------------------------- MODULE MCSessionLog ----------------------------
(***************************************************************************)
(* SessionLog with sends that are alike: a batch of two questions is       *)
(* answered in parts, and a later batch asks them again.                   *)
(***************************************************************************)
EXTENDS SessionLog, TLC

\* Sends of a kind are alike, and so are questions.
SendSymmetry == Permutations(Inputs) \cup Permutations(Answers) \cup Permutations(Questions)
=============================================================================
