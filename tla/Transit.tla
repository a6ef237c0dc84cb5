------------------------------- MODULE Transit -------------------------------
(***************************************************************************)
(* Mail to a contact whose home is another relay.  The sender's device     *)
(* seals each message to the home relay and keeps it in an outbox          *)
(* (js/chat/40-route-finder.js); its own relay, the carrier, hands the     *)
(* envelope to a link, remembers which socket asked, and passes on the     *)
(* answer (scripts/server.js); the home relay puts the message in a        *)
(* mailbox and answers over the link the frame came by.  Links drop and    *)
(* come back, more than one may stand at once, the sender's socket and the *)
(* carrier's process may go at any moment.                                 *)
(*                                                                         *)
(* The frames are the tagged, persistent ones the outbox keeps.  Clocks    *)
(* are not modelled: a deadline may pass whenever its wait is still open.  *)
(***************************************************************************)
EXTENDS Naturals, FiniteSets

CONSTANTS
  Msg,       \* messages, one tag each
  MaxTries,  \* BOUND: envelopes a device sends for one message
  Link,      \* connections between the two relays
  WaitCap,   \* TRANSIT_WAIT_PER_CLIENT
  Env        \* what goes wrong in this instance, see EnvEvents

EnvEvents == {"socket", "restart", "half-open"}

ASSUME TransitAssumption ==
  /\ MaxTries \in Nat
  /\ WaitCap \in Nat
  /\ Env \subseteq EnvEvents

\* An envelope is a try of a message: the outbox seals the frame afresh.
Envelope == Msg \X (1 .. MaxTries)

\* What a sender can be told.  "stranger" is queued with known: false.
Refusals == {"busy", "unavailable", "rejected"}
Answer == {"queued", "stranger"} \cup Refusals

VARIABLES
  \* the sender's device
  outbox,   \* transitOutbox and the message's tick
  tries,    \* envelopes sent for it
  \* the sender's socket to the carrier
  replies,  \* answers on their way to the device
  stale,    \* envelopes asked on a socket that has since closed
  \* the carrier
  place,    \* where the carrier has each envelope
  up,       \* links it may send on (isOpen)
  closing,  \* links no longer open whose close event is still to come
  \* between the relays
  out,      \* envelopes on their way to the home relay
  back,     \* its answers on their way to the carrier
  \* the home relay
  homeUp,   \* links it holds
  stored    \* envelopes it put in a mailbox

clientVars == <<outbox, tries>>
linkVars == <<up, closing, homeUp>>
vars == <<outbox, tries, replies, stale, place, up, closing, out, back,
          homeUp, stored>>

TypeOK ==
  /\ outbox \in [Msg -> {"idle", "sent", "held", "relayed", "astray", "failed"}]
  /\ tries \in [Msg -> 0 .. MaxTries]
  /\ replies \subseteq Envelope \X Answer
  /\ stale \subseteq Envelope
  /\ place \in [Envelope -> {"none", "socket", "parked", "waiting", "done"}]
  /\ up \subseteq Link
  /\ closing \subseteq Link \ up
  /\ out \subseteq Envelope \X Link
  /\ back \subseteq Envelope \X Link \X Answer
  /\ homeUp \subseteq Link
  /\ stored \subseteq Envelope

Init ==
  /\ outbox = [m \in Msg |-> "idle"]
  /\ tries = [m \in Msg |-> 0]
  /\ replies = {}
  /\ stale = {}
  /\ place = [e \in Envelope |-> "none"]
  /\ up = {}
  /\ closing = {}
  /\ out = {}
  /\ back = {}
  /\ homeUp = {}
  /\ stored = {}

-----------------------------------------------------------------------------
(* The sender's device.                                                    *)

\* sendViaTransit with trackTransitSend: a fresh seal, a fresh wait.
SendFrame(m) ==
  /\ tries[m] < MaxTries
  /\ outbox' = [outbox EXCEPT ![m] = "sent"]
  /\ tries' = [tries EXCEPT ![m] = @ + 1]
  /\ place' = [place EXCEPT ![<<m, tries[m] + 1>>] = "socket"]
  /\ UNCHANGED <<replies, stale, linkVars, out, back, stored>>

Send(m) == outbox[m] = "idle" /\ SendFrame(m)

\* pumpTransitOutbox: the backoff of a refused envelope has run out.
Resend(m) == outbox[m] = "held" /\ SendFrame(m)

\* transitSendRefused: held for another try, or given up (a day has passed,
\* or the home relay would not open it twice).
TransitSendRefused(m) ==
  \E s \in {"held", "failed"} : outbox' = [outbox EXCEPT ![m] = s]

\* Two minutes of silence, longer than the carrier takes to answer anything:
\* the socket the envelope went out on is gone.
Silence(m) ==
  /\ outbox[m] = "sent"
  /\ <<m, tries[m]>> \in stale
  /\ TransitSendRefused(m)
  /\ UNCHANGED <<tries, replies, stale, place, linkVars, out, back, stored>>

\* Mutant of AnswerIn: any answer settles the envelope.
AnswerSettles(e, a) ==
  /\ <<e, a>> \in replies
  /\ replies' = replies \ {<<e, a>>}
  /\ outbox' = [outbox EXCEPT ![e[1]] =
       IF @ \in {"sent", "held", "failed"} THEN "relayed" ELSE @]
  /\ UNCHANGED <<tries, stale, place, linkVars, out, back, stored>>

\* An answer reaches the device.  A queued one settles the message even
\* after it was given up; a refusal counts only while the outbox has it.
AnswerIn(e, a) ==
  /\ <<e, a>> \in replies
  /\ replies' = replies \ {<<e, a>>}
  /\ \/ /\ a \notin Refusals
        /\ outbox' = [outbox EXCEPT ![e[1]] =
             IF @ \notin {"sent", "held", "failed"} THEN @
             ELSE IF a = "queued" THEN "relayed" ELSE "astray"]
     \/ /\ a \in Refusals
        /\ outbox[e[1]] \in {"sent", "held"}
        /\ TransitSendRefused(e[1])
     \/ /\ a \in Refusals
        /\ outbox[e[1]] \notin {"sent", "held"}
        /\ UNCHANGED outbox
  /\ UNCHANGED <<tries, stale, place, linkVars, out, back, stored>>

\* The device's socket closes and another is opened: frames and answers on
\* the old one are gone, the carrier's waits for it are not.
SocketReplaced ==
  /\ "socket" \in Env
  /\ \E e \in Envelope : place[e] # "none" /\ e \notin stale
  /\ stale' = {e \in Envelope : place[e] # "none"}
  /\ place' = [e \in Envelope |->
                 IF place[e] = "socket" THEN "done" ELSE place[e]]
  /\ replies' = {}
  /\ UNCHANGED <<clientVars, linkVars, out, back, stored>>

-----------------------------------------------------------------------------
(* The carrier.                                                            *)

Waiting == {e \in Envelope : place[e] = "waiting"}

\* The envelopes S are answered a; a socket that has closed hears nothing.
Reply(S, a) == replies' = replies \cup ((S \ stale) \X {a})

\* place once the carrier is done with the envelopes S.
Finished(S) == [e \in Envelope |-> IF e \in S THEN "done" ELSE place[e]]

\* Mutant of CarryOverLink: the backlog is noticed after the frame has gone.
CarryThenRefuse(e) ==
  \/ \E l \in up :
       /\ out' = out \cup {<<e, l>>}
       /\ \/ place' = [place EXCEPT ![e] = "waiting"] /\ UNCHANGED replies
          \/ place' = Finished({e}) /\ Reply({e}, "busy")
  \/ /\ place' = Finished({e})
     /\ Reply({e}, "busy")
     /\ UNCHANGED out

\* carryOverLink: on a link, or refused because of its backlog.
CarryOverLink(e) ==
  \/ \E l \in up :
       /\ out' = out \cup {<<e, l>>}
       /\ place' = [place EXCEPT ![e] = "waiting"]
       /\ UNCHANGED replies
  \/ /\ place' = Finished({e})
     /\ Reply({e}, "busy")
     /\ UNCHANGED out

\* carryTransitEnvelope: refused over the cap, carried when a link stands,
\* parked when none does.
CarryTransitEnvelope(e) ==
  /\ place[e] = "socket"
  /\ \/ /\ Cardinality(Waiting) >= WaitCap
        /\ place' = Finished({e})
        /\ Reply({e}, "busy")
        /\ UNCHANGED out
     \/ /\ Cardinality(Waiting) < WaitCap
        /\ up # {}
        /\ CarryOverLink(e)
     \/ /\ Cardinality(Waiting) < WaitCap
        /\ up = {}
        /\ place' = [place EXCEPT ![e] = "parked"]
        /\ UNCHANGED <<replies, out>>
  /\ UNCHANGED <<clientVars, stale, linkVars, back, stored>>

\* The park timer finds a link, or its deadline has passed without one.
ParkTimer(e) ==
  /\ place[e] = "parked"
  /\ \/ up # {} /\ CarryOverLink(e)
     \/ /\ up = {}
        /\ place' = Finished({e})
        /\ Reply({e}, "unavailable")
        /\ UNCHANGED out
  /\ UNCHANGED <<clientVars, stale, linkVars, back, stored>>

\* Mutant of WaitOver: a wait that runs out is dropped without a word.
WaitOverSilent(e) ==
  /\ place[e] = "waiting"
  /\ place' = Finished({e})
  /\ UNCHANGED <<replies, clientVars, stale, linkVars, out, back, stored>>

\* Mutant of WaitOver: nothing sweeps the waits.
NoSweep(e) == e \in {} /\ UNCHANGED vars

\* The sweep: a wait of TRANSIT_WAIT_MS has run out.
WaitOver(e) ==
  /\ place[e] = "waiting"
  /\ place' = Finished({e})
  /\ Reply({e}, "unavailable")
  /\ UNCHANGED <<clientVars, stale, linkVars, out, back, stored>>

\* transit-result: passed on if the envelope is still waiting, dropped
\* otherwise.  Which link it came by does not matter.
TransitResult(e, l, a) ==
  /\ <<e, l, a>> \in back
  /\ back' = back \ {<<e, l, a>>}
  /\ \/ /\ place[e] = "waiting"
        /\ place' = Finished({e})
        /\ Reply({e}, a)
     \/ /\ place[e] # "waiting"
        /\ UNCHANGED <<place, replies>>
  /\ UNCHANGED <<clientVars, stale, linkVars, out, stored>>

-----------------------------------------------------------------------------
(* The home relay.                                                         *)

\* handleTransitFrame and deliverRelayMessage: a mailbox takes the message,
\* for an identity that lives here or for a stranger, or the seal does not
\* open; the answer goes down the link the frame came by.
HomeTakes(e, l) ==
  /\ <<e, l>> \in out
  /\ l \in homeUp
  /\ out' = out \ {<<e, l>>}
  /\ \E a \in {"queued", "stranger", "rejected"} :
       /\ back' = back \cup {<<e, l, a>>}
       /\ stored' = IF a = "rejected" THEN stored ELSE stored \cup {e}
  /\ UNCHANGED <<clientVars, replies, stale, place, linkVars>>

-----------------------------------------------------------------------------
(* Links.                                                                  *)

Held == up \cup closing

\* A handshake completes, dialled from either side.
LinkUp(l) ==
  /\ l \notin Held \cup homeUp
  /\ up' = up \cup {l}
  /\ homeUp' = homeUp \cup {l}
  /\ UNCHANGED <<clientVars, replies, stale, place, closing, out, back, stored>>

\* Mutant of LinkDies: a link in error is still taken for an open one.
LinkDiesOpen(l) ==
  /\ l \in up
  /\ closing' = closing \cup {l}
  /\ UNCHANGED <<clientVars, replies, stale, place, up, out, back, homeUp,
                 stored>>

\* The carrier's end stops being open; its close event is still to come.
LinkDies(l) ==
  /\ l \in up
  /\ up' = up \ {l}
  /\ closing' = closing \cup {l}
  /\ UNCHANGED <<clientVars, replies, stale, place, out, back, homeUp, stored>>

\* The close event, with failTransitWaitsFor: every wait for that relay is
\* answered, unless another link to it stands.  What the other end had in
\* flight towards the carrier is lost.
LinkClosed(l) ==
  /\ l \in closing
  /\ closing' = closing \ {l}
  /\ back' = {b \in back : b[2] # l}
  /\ out' = IF l \in homeUp THEN out ELSE {o \in out : o[2] # l}
  /\ \/ /\ up # {}
        /\ UNCHANGED <<place, replies>>
     \/ /\ up = {}
        /\ place' = Finished(Waiting)
        /\ Reply(Waiting, "unavailable")
  /\ UNCHANGED <<clientVars, stale, up, homeUp, stored>>

\* The home relay's end closes: frames it has not read are lost.  The
\* carrier may not notice for as long as its heartbeat takes.
HomeEndCloses(l) ==
  /\ l \in homeUp
  /\ l \notin up \/ "half-open" \in Env
  /\ homeUp' = homeUp \ {l}
  /\ out' = IF l \in Held THEN out ELSE {o \in out : o[2] # l}
  /\ UNCHANGED <<clientVars, replies, stale, place, up, closing, back, stored>>

\* The carrier's process is replaced: its waits and its sockets are gone.
CarrierRestarts ==
  /\ "restart" \in Env
  /\ up' = {}
  /\ closing' = {}
  /\ back' = {}
  /\ out' = {o \in out : o[2] \in homeUp}
  /\ stale' = {e \in Envelope : place[e] # "none"}
  /\ place' = Finished({e \in Envelope : place[e] # "none"})
  /\ replies' = {}
  /\ UNCHANGED <<clientVars, homeUp, stored>>

-----------------------------------------------------------------------------

ClientNext ==
  \/ \E m \in Msg : Send(m) \/ Resend(m) \/ Silence(m)
  \/ \E r \in replies : AnswerIn(r[1], r[2])
  \/ SocketReplaced

CarrierNext ==
  \/ \E e \in Envelope : CarryTransitEnvelope(e) \/ ParkTimer(e) \/ WaitOver(e)
  \/ \E b \in back : TransitResult(b[1], b[2], b[3])
  \/ CarrierRestarts

LinkNext ==
  \E l \in Link : LinkUp(l) \/ LinkDies(l) \/ LinkClosed(l) \/ HomeEndCloses(l)

Next ==
  \/ ClientNext
  \/ CarrierNext
  \/ LinkNext
  \/ \E o \in out : HomeTakes(o[1], o[2])

Spec == Init /\ [][Next]_vars

\* The carrier reads its sockets and its timers fire.  Nothing is assumed of
\* the links, of the home relay or of the device.
FairSpec ==
  Spec /\ \A e \in Envelope : /\ WF_vars(CarryTransitEnvelope(e))
                              /\ WF_vars(ParkTimer(e))
                              /\ WF_vars(WaitOver(e))

-----------------------------------------------------------------------------
(* Properties.                                                             *)

\* An envelope is answered in the step in which the carrier is done with it
\* and in no other, whichever of the result, the sweep, the park timer and
\* the fall of the link comes first; only a sender that is no longer there
\* goes without.
OneAnswerEach ==
  [][\A e \in Envelope :
       LET answered == \E a \in Answer : <<e, a>> \in replies' \ replies
           finished == place[e] # "done" /\ place'[e] = "done"
       IN  /\ answered => finished
           /\ finished => answered \/ e \in stale']_vars

\* "busy" promises that nothing was carried: the envelope was never handed
\* to a link, so a re-send of it makes no second copy.
BusyWasNotCarried ==
  \A e \in Envelope : <<e, "busy">> \in replies =>
    /\ e \notin stored
    /\ \A l \in Link : <<e, l>> \notin out

\* To the sender, the outbox, the carrier and the home relay together are
\* Courier: the tick "relayed" is never shown for a message no mailbox has.
Fate == [m \in Msg |-> IF outbox[m] \in {"sent", "held"} THEN "trying"
                                                         ELSE outbox[m]]
Kept == {e[1] : e \in stored}

Sender == INSTANCE Courier WITH fate <- Fate, kept <- Kept
ImplementsCourier == Sender!Spec

\* Every envelope a carrier takes is finished with in the end, so its wait is
\* not kept for ever, whatever the links do.
EveryEnvelopeFinished ==
  \A e \in Envelope : (place[e] = "socket") ~> (place[e] = "done")

=============================================================================
