------------------------------- MODULE Courier -------------------------------
(***************************************************************************)
(* What a sender may believe about mail to a contact on another relay,     *)
(* whatever happens between the two relays: a message shown as relayed is  *)
(* kept by the contact's relay, and until it is relayed or given up it is  *)
(* still being tried.                                                      *)
(***************************************************************************)
CONSTANT Msg

VARIABLES
  fate,  \* what the sender's device shows
  kept   \* messages the contact's relay has in a mailbox

vars == <<fate, kept>>

Fates == {"idle", "trying", "relayed", "astray", "failed"}

TypeOK ==
  /\ fate \in [Msg -> Fates]
  /\ kept \subseteq Msg

Init ==
  /\ fate = [m \in Msg |-> "idle"]
  /\ kept = {}

Try(m) ==
  /\ fate[m] = "idle"
  /\ fate' = [fate EXCEPT ![m] = "trying"]
  /\ UNCHANGED kept

\* The mailbox takes a copy; a second copy changes nothing here.
Keep(m) ==
  /\ fate[m] # "idle"
  /\ kept' = kept \cup {m}
  /\ UNCHANGED fate

\* The relay's word arrives, late or not: it has the message, for somebody
\* it knows or (astray) for somebody it has never met.
Report(m) ==
  /\ m \in kept
  /\ fate[m] \in {"trying", "failed"}
  /\ \E f \in {"relayed", "astray"} : fate' = [fate EXCEPT ![m] = f]
  /\ UNCHANGED kept

GiveUp(m) ==
  /\ fate[m] = "trying"
  /\ fate' = [fate EXCEPT ![m] = "failed"]
  /\ UNCHANGED kept

Next == \E m \in Msg : Try(m) \/ Keep(m) \/ Report(m) \/ GiveUp(m)

Spec == Init /\ [][Next]_vars

=============================================================================
