--------------------------- MODULE MCBatchExecutor ---------------------------
(* The constants that a .cfg cannot spell. *)
EXTENDS BatchExecutor

SlotZero == {0}
=============================================================================
