---------------------------- MODULE MCUploadQueue ----------------------------
(***************************************************************************)
(* UploadQueue for TLC: one directory.                                     *)
(***************************************************************************)
EXTENDS UploadQueue, TLC

CONSTANTS Root
Symmetry == Permutations(Workers)
AllInRoot == [f \in Files |-> Root]
=============================================================================
