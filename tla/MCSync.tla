------------------------------- MODULE MCSync -------------------------------
(***************************************************************************)
(* Instances of Sync for TLC: a path d that may be a file or a directory   *)
(* with the file f, and a file g beside it.                                *)
(***************************************************************************)
EXTENDS Sync, TLC

MCAncestors == [p \in Paths |-> IF p = "f" THEN {"d"} ELSE {}]
MCRank == [p \in Paths |-> CASE p = "d" -> 1 [] p = "f" -> 2 [] p = "g" -> 3]

\* Contents are only compared at one path, so the left file may be called "a"
\* everywhere; the right one is the same or another.
\* One way, later cycles find them the same.
MCDifferent == [s \in Sides |-> IF s = "left" THEN {"a"} ELSE {"b"}]
MCOriginal == [s \in Sides |-> IF s = "left" THEN {"a"} ELSE {"a", "b"}]

\* Workers are interchangeable (used without liveness properties only).
WorkerSymmetry == Permutations(Workers)
=============================================================================
