----------------------------- MODULE MCCommands -----------------------------
(***************************************************************************)
(* Commands on a small instance, with interchangeable process ids.         *)
(***************************************************************************)
EXTENDS Commands, TLC

Ids == Permutations(Lockers)
=============================================================================
