------------------------------ MODULE MCServer ------------------------------
(* Small instances of SfcdServer for TLC.                                  *)
EXTENDS SfcdServer, TLC

Symmetry == Permutations(Dialogs) \cup Permutations(Callers)
=============================================================================
