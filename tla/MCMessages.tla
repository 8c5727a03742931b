----------------------------- MODULE MCMessages ------------------------------
(* Messages with two hits of two threads and a request for information. *)
EXTENDS Messages, TLC

\* The characters, and the threads of the game, are alike.
Symmetry == Permutations(Characters) \cup Permutations(Threads)

=============================================================================
