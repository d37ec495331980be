--------------------------- MODULE MCMountRunner ---------------------------
(* Two lsshfs processes at one mountpoint, and lsshfs --unmount any number *)
(* of times.                                                               *)
EXTENDS MountRunner, TLC

Symmetry == Permutations(Runners)
=============================================================================
