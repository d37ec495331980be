---------------------------- MODULE MCMuxSession ----------------------------
(***************************************************************************)
(* Instances of MuxSession for TLC.                                        *)
(***************************************************************************)
EXTENDS MuxSession
=============================================================================
