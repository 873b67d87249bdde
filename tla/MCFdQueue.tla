---------------------------- MODULE MCFdQueue ----------------------------
(* Small instances of FdQueue for TLC. *)
EXTENDS FdQueue, TLC

\* Threads and sockets are interchangeable in every safety property.
Symmetry == Permutations(Workers) \cup Permutations(Conns)
=============================================================================
