---------------------------- MODULE MCSsmSession ----------------------------
(***************************************************************************)
(* Instances of SsmSession for TLC.                                        *)
(***************************************************************************)
EXTENDS SsmSession
=============================================================================
