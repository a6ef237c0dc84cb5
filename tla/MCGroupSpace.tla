---------------------------- MODULE MCGroupSpace ----------------------------
(* Model values for checking GroupSpace with TLC. *)
EXTENDS GroupSpace

CONSTANTS o, a, b
=============================================================================
