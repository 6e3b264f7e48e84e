---------------------------- MODULE MCDreamSync -----------------------------
(***************************************************************************)
(* DreamSync on small instances.  Bodies and devices are interchangeable;  *)
(* dates are not, they are ordered.                                        *)
(***************************************************************************)
EXTENDS DreamSync, TLC

Symmetry == Permutations(Bodies) \cup Permutations(Devices)
=============================================================================
