---------------------------- MODULE MCLiveStore ----------------------------
(* Small instances of LiveStore for TLC. *)
EXTENDS LiveStore, TLC

\* Channels and segments are interchangeable.
Symmetry == Permutations(Channel) \cup Permutations(Segment)
=============================================================================
