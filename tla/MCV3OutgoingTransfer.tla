------------------------- MODULE MCV3OutgoingTransfer -------------------------
(* Small instances of the outgoing catalogue: one transfer of two chunks.    *)
EXTENDS V3OutgoingTransfer

CONSTANTS c1, c2, a1, a2
=============================================================================
