--------------------------- MODULE MCVODDownloader ---------------------------
(* Small instances of VODDownloader for TLC. *)
EXTENDS VODDownloader, TLC

\* Operations are interchangeable (safety runs only).
Symmetry == Permutations(Op)
=============================================================================
