------------------------- MODULE MCV3TransferProjection -------------------------
(* The model checker's instances of V3TransferProjection. *)
EXTENDS V3TransferProjection
=============================================================================
