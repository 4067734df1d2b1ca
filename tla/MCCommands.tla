----------------------------- MODULE MCCommands -----------------------------
(* The commands of a User, for TLC.                                        *)
EXTENDS Commands, TLC

Symmetry == Permutations(Keys) \cup Permutations(Environments)
=============================================================================
