-------------------------- MODULE MCV3TransferStore --------------------------
(* Two chunks, two contents for each, two phones: every order of the        *)
(* transactions up to MaxRevision.                                           *)
EXTENDS V3TransferStore

CONSTANTS c1, c2, d1, d2, phone, other, m1, m2
=============================================================================
