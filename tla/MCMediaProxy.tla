---------------------------- MODULE MCMediaProxy ----------------------------
(* Small instances of MediaProxy for TLC.                                  *)
EXTENDS MediaProxy, TLC

Symmetry == Permutations(Caller) \cup Permutations(Upstream)
            \cup Permutations(Media) \cup Permutations(Token)
=============================================================================
