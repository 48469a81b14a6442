------------------------------- MODULE MCLfcd -------------------------------
(* Small instances of LocalFileChooserDialog for TLC.                      *)
EXTENDS LocalFileChooserDialog, TLC

Symmetry == Permutations(Dialogs)
=============================================================================
