-------------------------- MODULE MCStreamRegistry --------------------------
(* Small instances of StreamRegistry for TLC. *)
EXTENDS StreamRegistry, TLC

\* Channels, generations, callers and requests are interchangeable (safety runs only).
Symmetry == Permutations(Channel) \cup Permutations(Gen)
            \cup Permutations(Stopper) \cup Permutations(Writer)
=============================================================================
