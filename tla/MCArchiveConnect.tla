--------------------------- MODULE MCArchiveConnect ---------------------------
(***************************************************************************)
(* Instances of ArchiveConnect for TLC.                                    *)
(***************************************************************************)
EXTENDS ArchiveConnect, TLC

OneImage == [s \in Sessions |-> CHOOSE i \in Images : TRUE]

\* The archive's own responses on one image, those of the old session on another.
TwoImages == [s \in Sessions |-> IF s = OldSession THEN "other" ELSE "own"]

ClientSymmetry == Permutations(Clients)
=============================================================================
