---------------------------- MODULE MCV3AdminEvents ----------------------------
(* Small instances of the way of an event to the page. *)
EXTENDS V3AdminEvents
=============================================================================
