------------------------------ MODULE MCMailbox ------------------------------
(* Small instances of Mailbox for TLC.  No symmetry is used: a device that *)
(* is Restless, Slow or no Owner is not like the others.                   *)
EXTENDS Mailbox

=============================================================================
