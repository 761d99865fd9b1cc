------------------------- MODULE MCV3IncomingTransfer -------------------------
(* Small instances of an incoming transfer. *)
EXTENDS V3IncomingTransfer

CONSTANTS j1, j2
=============================================================================
