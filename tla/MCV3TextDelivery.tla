---------------------------- MODULE MCV3TextDelivery ----------------------------
(* Small instances of the delivery of text messages. *)
EXTENDS V3TextDelivery

CONSTANTS m1, m2
=============================================================================
