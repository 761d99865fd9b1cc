---------------------------- MODULE MCDevicePairing ----------------------------
(* Small instances of the pairing. *)
EXTENDS DevicePairing

CONSTANTS code
=============================================================================
