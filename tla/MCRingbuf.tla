------------------------------ MODULE MCRingbuf ------------------------------
(* The ring buffer with interchangeable producers. *)
EXTENDS Ringbuf, TLC

Symmetry == Permutations(Producers)

=============================================================================
