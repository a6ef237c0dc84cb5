------------------------------- MODULE Parcel -------------------------------
(***************************************************************************)
(* What two people may believe about a file one of them sent, whatever     *)
(* happens in between: the one who sent it sees it delivered only when the *)
(* other has all of it; the one who got it never has a part of it, never   *)
(* loses it, and never gets what they refused.                             *)
(***************************************************************************)
VARIABLES
    shown,    \* what the sender's entry says
    got,      \* what the receiver's history has of it
    refused   \* the receiver said no

vars == <<shown, got, refused>>

Init == shown = "none" /\ got = "nothing" /\ refused = FALSE

Send ==
    /\ shown = "none"
    /\ shown' = "queued"
    /\ UNCHANGED <<got, refused>>

\* All of it has left over the channel.
HandOver ==
    /\ shown = "queued"
    /\ shown' = "sent"
    /\ UNCHANGED <<got, refused>>

Refuse ==
    /\ shown # "none" /\ got = "nothing"
    /\ refused' = TRUE
    /\ UNCHANGED <<shown, got>>

Arrive ==
    /\ shown # "none" /\ ~refused
    /\ got' = "whole"
    /\ UNCHANGED <<shown, refused>>

\* The receipt may come after the sender gave up.
Acknowledge ==
    /\ got = "whole"
    /\ shown' = "delivered"
    /\ UNCHANGED <<got, refused>>

\* The upload ends unfinished.  It is not looked at whether a file asked for
\* piece by piece came before; one that was handed over does not fail.
GiveUp ==
    /\ shown \in {"queued", "delivered"}
    /\ shown' = "failed"
    /\ UNCHANGED <<got, refused>>

Next == Send \/ HandOver \/ Refuse \/ Arrive \/ Acknowledge \/ GiveUp

Spec == Init /\ [][Next]_vars

=============================================================================
