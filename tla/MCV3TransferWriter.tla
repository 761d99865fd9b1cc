-------------------------- MODULE MCV3TransferWriter --------------------------
(* Small instances of the upload queue. *)
EXTENDS V3TransferWriter, TLC

CONSTANTS c1, c2, d1, d2, phone, m1

\* No definition tells chunks, or contents, from each other.
Symmetry == Permutations(Chunks) \cup Permutations(Digests)
=============================================================================
