---------------------------- MODULE MCMuxManager ----------------------------
(***************************************************************************)
(* Instances of MuxManager for TLC.                                        *)
(***************************************************************************)
EXTENDS MuxManager
=============================================================================
