--------------------------- MODULE MCUploadIntents ---------------------------
(***************************************************************************)
(* Instances of UploadIntents for TLC.                                     *)
(***************************************************************************)
EXTENDS UploadIntents, TLC

CONSTANTS i1, i2, i3, h1, h2

\* A small and a large file.
TwoSizes == [h \in Hashes |-> IF h = h1 THEN 1 ELSE 2]

\* The ids are random and nothing compares them.
IntentSymmetry == Permutations(Intents)
=============================================================================
