---------------------------- MODULE MCGroupCall ----------------------------
(* Model values for checking GroupCall with TLC: a < b < c by fingerprint. *)
EXTENDS GroupCall

CONSTANTS a, b, c

Fingerprints == [d \in Device |-> IF d = a THEN 1 ELSE IF d = b THEN 2 ELSE 3]
NoPair == <<>>
FirstTwo == <<a, b>>
=============================================================================
