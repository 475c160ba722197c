--------------------------- MODULE MCReviewWorker ---------------------------
(***************************************************************************)
(* Instances of ReviewWorker for TLC.  Processes are interchangeable, so   *)
(* safety runs use their permutations as symmetry.                         *)
(***************************************************************************)
EXTENDS ReviewWorkerProps, TLC

Interchangeable == Permutations(Workers)
=============================================================================
