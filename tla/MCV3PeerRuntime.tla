---------------------------- MODULE MCV3PeerRuntime ----------------------------
(* Small instances of the peer connection. *)
EXTENDS V3PeerRuntime

CONSTANTS t1, k1, k2, m1
=============================================================================
