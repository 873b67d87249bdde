--------------------------- MODULE MCEventChild ---------------------------
(* Small instances of EventChild for TLC. *)
EXTENDS EventChild, TLC

\* Threads and sockets are interchangeable in every safety property.
Symmetry == Permutations(Workers) \cup Permutations(Conns)
=============================================================================
