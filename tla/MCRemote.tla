------------------------------ MODULE MCRemote ------------------------------
(* Small instances of RemoteFileChooserDialog for TLC: one process with    *)
(* two instances, or two processes with one instance each.                 *)
EXTENDS RemoteFileChooserDialog, TLC

CONSTANTS p1, p2, o1, o2, d1, d2

OneHome   == (o1 :> p1) @@ (o2 :> p1)
TwoHomes == (o1 :> p1) @@ (o2 :> p2)
=============================================================================
