----------------------------- MODULE MCTransfer -----------------------------
(***************************************************************************)
(* Instances of Transfer for TLC: a directory d with a file g, an empty    *)
(* directory e and a directory s with a file f.                            *)
(***************************************************************************)
EXTENDS Transfer

MCWalk == <<"d", "e", "g", "s", "f">>
MCAbove == [i \in Items |-> CASE i = "d" -> {} [] i = "f" -> {"d", "s"} [] OTHER -> {"d"}]
=============================================================================
