-------------------------- MODULE MCV3TransferService --------------------------
(* Small instances of the service: one chunk and two requests in flight.      *)
EXTENDS V3TransferService

CONSTANTS c1, d1, d2, phone, m1, s1, s2
=============================================================================
