---------------------------- MODULE MCAeronArchive ----------------------------
(* Instances of AeronArchive for TLC. *)
EXTENDS AeronArchive, TLC

\* The client's session and another client's, on one image or on two.
OneImage == [s \in Sessions |-> "image"]
TwoImages == [s \in Sessions |-> IF s = Session THEN "own" ELSE "other"]

ThreadSymmetry == Permutations(Threads)
=============================================================================
