---------------------------- MODULE MCSiblingMail ----------------------------
(* Small instances of SiblingMail for TLC.                                 *)
EXTENDS SiblingMail, TLC

\* Devices are interchangeable: the model names none of them.
Symmetry == Permutations(Device)

=============================================================================
