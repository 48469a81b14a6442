------------------------------ MODULE MCThreads ------------------------------
(* Small instances of LfcdThreads for TLC: the thread of the main context  *)
(* and two others.                                                         *)
EXTENDS LfcdThreads

CONSTANTS t0, t1, t2
=============================================================================
