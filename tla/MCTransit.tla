------------------------------ MODULE MCTransit ------------------------------
(* Small instances of Transit for TLC.                                     *)
EXTENDS Transit, TLC

\* Messages are interchangeable, and so are links.
Symmetry == Permutations(Msg) \cup Permutations(Link)

=============================================================================
