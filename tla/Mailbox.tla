------------------------------- MODULE Mailbox -------------------------------
(***************************************************************************)
(* The store-and-forward mailbox of one account on the chat relay          *)
(* (scripts/server.js): envelopes addressed to the account are queued in   *)
(* memory (offlineBoxes), written to disk on a debounce, handed to every   *)
(* proven device a window at a time, deleted when a device acknowledges    *)
(* them, and evicted by the retention sweep, which leaves a notice.  The   *)
(* process may crash, be stopped gracefully, or be told by its operator to *)
(* drop or nudge mail.  Mailboxes of different accounts share nothing, so  *)
(* one account stands for all of them.                                     *)
(*                                                                         *)
(* Handlers run to completion on one thread: a handler is one action.      *)
(***************************************************************************)
EXTENDS Naturals, FiniteSets

CONSTANTS
  Device,      \* sockets that claim the account's fingerprint in a hello
  Owner,       \* the devices that hold the account's private key
  Restless,    \* the devices that change their profile and say hello again
  Slow,        \* the devices behind a link that may back up
  MaxMsg,      \* BOUND: envelopes queued in a behaviour
  Kinds,       \* classes of envelope senders use, see EnvelopeKinds
  Window,      \* MAIL_WINDOW: unacknowledged envelopes per connection
  TextLimit,   \* TEXT_MAILBOX_LIMIT: text envelopes per mailbox
  MediaQuota,  \* MEDIA_QUOTA_BYTES, in envelopes of one size
  Env          \* what the environment does in this instance, see EnvEvents

EnvelopeKinds == {"text", "media", "offer", "eph"}
EnvEvents == {"save", "crash", "stop", "ageing", "takeback", "operator",
              "announce", "nudge"}

ASSUME MailboxAssumption ==
  /\ Owner \subseteq Device
  /\ Restless \subseteq Device
  /\ Slow \subseteq Device
  /\ MaxMsg \in Nat
  /\ Kinds \subseteq EnvelopeKinds
  /\ Window \in Nat \ {0}
  /\ TextLimit \in Nat
  /\ MediaQuota \in Nat
  /\ Env \subseteq EnvEvents

(***************************************************************************)
(* An envelope is its relayId.  relayIds are fresh, so the n-th envelope   *)
(* queued is n, and the order of the numbers is the order of arrival, the  *)
(* order every pass over the queue follows.  LiveOnly is the relayId of a  *)
(* frame that was sent live without being the id of any queued copy (an    *)
(* operator's announcement gives its live frame an id of its own).         *)
(***************************************************************************)
Id == 1 .. MaxMsg
LiveOnly == 0
Frame == Id \cup {LiveOnly}

VARIABLES
  \* the relay's memory
  last,        \* envelopes queued so far
  kind,        \* kind of each envelope; "none" before it is queued
  box,         \* offlineBoxes.get(fingerprint)
  overdue,     \* envelopes whose retention (7 days, 72 h) has run out
  open,        \* sockets in presence with readyState OPEN
  proven,      \* records with identityVerified
  verified,    \* verifiedByFingerprint, its open sockets
  full,        \* sockets with bufferedAmount over the pump's soft limit
  sentMail,    \* record.sentMail: what a connection has been handed
  saveArmed,   \* pendingMailboxSaves has the account
  draining,    \* shuttingDown
  \* the relay's disk
  disk,        \* the mailbox file
  expiryLog,   \* the expiry notices, written in the step that makes them
  \* the sockets
  wire,        \* frames on their way to a device
  acks,        \* relay-ack frames on their way to the relay
  \* the devices
  got,         \* envelopes some device of the account has received
  \* observation only
  excused      \* removed on request, or unsaved when the process died

relayVars == <<last, kind, box, overdue, sentMail, saveArmed, draining>>
socketVars == <<open, proven, verified, full>>
vars == <<last, kind, box, overdue, open, proven, verified, full, sentMail,
          saveArmed, draining, disk, expiryLog, wire, acks, got, excused>>

TypeOK ==
  /\ last \in 0 .. MaxMsg
  /\ kind \in [Id -> EnvelopeKinds \cup {"none"}]
  /\ box \subseteq Id
  /\ overdue \subseteq Id
  /\ open \subseteq Device
  /\ proven \subseteq open
  /\ verified \subseteq open
  /\ full \subseteq open
  /\ sentMail \in [Device -> SUBSET Frame]
  /\ saveArmed \in BOOLEAN
  /\ draining \in BOOLEAN
  /\ disk \subseteq Id
  /\ expiryLog \in [Id -> {"no", "due", "done"}]
  /\ wire \in [Device -> SUBSET Frame]
  /\ acks \in [Device -> SUBSET Frame]
  /\ got \subseteq Id
  /\ excused \subseteq Id

Nothing == [d \in Device |-> {}]

Init ==
  /\ last = 0
  /\ kind = [m \in Id |-> "none"]
  /\ box = {}
  /\ overdue = {}
  /\ open = {}
  /\ proven = {}
  /\ verified = {}
  /\ full = {}
  /\ sentMail = Nothing
  /\ saveArmed = FALSE
  /\ draining = FALSE
  /\ disk = {}
  /\ expiryLog = [m \in Id |-> "no"]
  /\ wire = Nothing
  /\ acks = Nothing
  /\ got = {}
  /\ excused = {}

-----------------------------------------------------------------------------
(* Order.  A set of envelopes is a queue: arrival order is numeric order.  *)

Oldest(S, n) == {m \in S : Cardinality({k \in S : k < m}) < n}
Newest(S, n) == {m \in S : Cardinality({k \in S : k > m}) < n}

-----------------------------------------------------------------------------
(* The retention sweep of one mailbox b whose envelopes have kinds k.      *)

Stale(k) == {m \in overdue : k[m] \in {"media", "offer"}}

\* The reservations the sweep drops without a notice.
Lapsed(b, k) == {m \in b \cap Stale(k) : k[m] = "offer"}

\* What the sweep keeps: the newest media the quota has room for, and the
\* newest text under the cap.
Swept(b, k) ==
  LET fresh == b \ Stale(k)
      media == {m \in fresh : k[m] = "media"}
  IN  Newest(media, MediaQuota) \cup Newest(fresh \ media, TextLimit)

\* Mutant of Expired: only what ran out of time is noted, not what the quota
\* or the cap pushes out.
ExpiredByAgeOnly(b, k) == {m \in b \cap Stale(k) : k[m] = "media"}

\* noteExpired for everything else it drops.
Expired(b, k) == (b \ Swept(b, k)) \ Lapsed(b, k)

\* The expiry log after the sweep.
LogAfter(b, k) ==
  [m \in Id |-> IF m \in Expired(b, k) THEN "due" ELSE expiryLog[m]]

\* The notices of log l handed to a device.
Told(l) == [m \in Id |-> IF l[m] = "due" THEN "done" ELSE l[m]]

\* sweepRetention: the mailbox that is left, and the save it arms when it
\* dropped something (armed: one is armed already).
SweepRetention(b, k, armed) ==
  /\ box' = Swept(b, k)
  /\ saveArmed' = (armed \/ Swept(b, k) # b)

-----------------------------------------------------------------------------
(* The pump: the oldest envelopes this connection was not handed yet, up   *)
(* to the window, or fewer when the socket is still draining.              *)

Room(sent) == IF Cardinality(sent) < Window
              THEN Window - Cardinality(sent) ELSE 0

\* How much of the window one run of the pump fills at d: nothing while the
\* buffer is over the limit, and as little as one frame when that frame
\* pushes it over.
BatchSizes(d, sent) ==
  CASE d \in full        -> {0}
    [] d \in Slow \ full -> {Room(sent)} \cup (1 .. Room(sent))
    [] OTHER            -> {Room(sent)}

\* f with set S at d.
At(f, d, S) == [e \in Device |-> IF e = d THEN S ELSE f[e]]

\* Mutant of PumpHeldMail: the newest mail first.
PumpNewestMail(d, b, s, w) ==
  \E n \in BatchSizes(d, s[d]) :
    LET batch == Newest(b \ s[d], n) IN
    /\ sentMail' = At(s, d, s[d] \cup batch)
    /\ wire' = At(w, d, w[d] \cup batch)

\* pumpHeldMail for device d over mailbox b: s is the connections' sentMail,
\* w what is already on the wires.
PumpHeldMail(d, b, s, w) ==
  \E n \in BatchSizes(d, s[d]) :
    LET batch == Oldest(b \ s[d], n) IN
    /\ sentMail' = At(s, d, s[d] \cup batch)
    /\ wire' = At(w, d, w[d] \cup batch)

-----------------------------------------------------------------------------
(* Sockets and the identity proof.                                         *)

\* What f, a set per socket, is after the sockets in C are gone.
Cut(f, C) == [d \in Device |-> IF d \in C THEN {} ELSE f[d]]

\* Mutant of Connect: the hello itself is handed the held mail.
ConnectDelivers(d) ==
  /\ ~draining
  /\ d \notin open
  /\ open' = open \cup {d}
  /\ PumpHeldMail(d, box, sentMail, wire)
  /\ UNCHANGED <<last, kind, box, overdue, saveArmed, draining, proven,
                 verified, full, disk, expiryLog, acks, got, excused>>

\* A socket connects and says hello; its record is new, under a client id of
\* its own, and holds nothing until the key is proven.  A draining relay has
\* stopped listening.
Connect(d) ==
  /\ ~draining
  /\ d \notin open
  /\ open' = open \cup {d}
  /\ UNCHANGED <<relayVars, proven, verified, full, disk, expiryLog, wire,
                 acks, got, excused>>

\* Other traffic fills a socket's buffer past the limit, and drains.
Congest(d) ==
  /\ d \in open \cap Slow
  /\ full' = IF d \in full THEN full \ {d} ELSE full \cup {d}
  /\ UNCHANGED <<relayVars, open, proven, verified, disk, expiryLog, wire,
                 acks, got, excused>>

\* hello again on an open socket (a profile change): a new challenge takes
\* the proof back, and leaves the index and sentMail as they are.
Rehello(d) ==
  /\ d \in proven \cap Restless
  /\ proven' = proven \ {d}
  /\ UNCHANGED <<relayVars, open, verified, full, disk, expiryLog, wire, acks,
                 got, excused>>

\* Mutant of Disconnect: the index of verified sockets keeps the closed one.
DisconnectKeepsIndex(d) ==
  /\ d \in open
  /\ open' = open \ {d}
  /\ proven' = proven \ {d}
  /\ full' = full \ {d}
  /\ sentMail' = Cut(sentMail, {d})
  /\ wire' = Cut(wire, {d})
  /\ acks' = Cut(acks, {d})
  /\ UNCHANGED <<last, kind, box, overdue, saveArmed, draining, disk,
                 verified, expiryLog, got, excused>>

\* Mutant of Disconnect: what the socket was handed is queued again.
DisconnectRequeues(d) ==
  /\ d \in open
  /\ open' = open \ {d}
  /\ proven' = proven \ {d}
  /\ verified' = verified \ {d}
  /\ full' = full \ {d}
  /\ box' = box \cup (sentMail[d] \cap Id)
  /\ saveArmed' = TRUE
  /\ sentMail' = Cut(sentMail, {d})
  /\ wire' = Cut(wire, {d})
  /\ acks' = Cut(acks, {d})
  /\ UNCHANGED <<last, kind, overdue, draining, disk, expiryLog, got, excused>>

\* The socket closes, is terminated, or times out.
Disconnect(d) ==
  /\ d \in open
  /\ open' = open \ {d}
  /\ proven' = proven \ {d}
  /\ verified' = verified \ {d}
  /\ full' = full \ {d}
  /\ sentMail' = Cut(sentMail, {d})
  /\ wire' = Cut(wire, {d})
  /\ acks' = Cut(acks, {d})
  /\ UNCHANGED <<last, kind, box, overdue, saveArmed, draining, disk,
                 expiryLog, got, excused>>

\* closeDuplicatePresenceRecords: a proof replaces every unproven socket of
\* the same fingerprint; proven ones are other devices and stay.
Duplicates(d) == open \ (proven \cup {d})

\* deliverHeldMail: sweep, start the connection's window afresh if mail is
\* waiting, pump, hand over the notices.
DeliverHeldMail(d, s, w) ==
  LET held == Swept(box, kind) IN
  /\ SweepRetention(box, kind, saveArmed)
  /\ expiryLog' = Told(LogAfter(box, kind))
  /\ \/ held # {} /\ PumpHeldMail(d, held, At(s, d, {}), w)
     \/ held = {} /\ sentMail' = s /\ wire' = w

\* id-proof: the right answer, which takes the private key.  A wrong one
\* leaves the socket unproven, as it was.
IdProof(d) ==
  /\ d \in (open \ proven) \cap Owner
  /\ open' = open \ Duplicates(d)
  /\ proven' = proven \cup {d}
  /\ verified' = (verified \cup {d}) \ Duplicates(d)
  /\ full' = full \ Duplicates(d)
  /\ acks' = Cut(acks, Duplicates(d))
  /\ DeliverHeldMail(d, Cut(sentMail, Duplicates(d)), Cut(wire, Duplicates(d)))
  /\ UNCHANGED <<last, kind, overdue, draining, disk, got, excused>>

-----------------------------------------------------------------------------
(* deliverRelayMessage, for an envelope marked persist.                    *)

Queue(k) ==
  /\ last < MaxMsg
  /\ k \in Kinds
  /\ last' = last + 1
  /\ kind' = [kind EXCEPT ![last + 1] = k]

\* The client ids an envelope may name: nobody's, or an open socket's, which
\* the relay does not ask for a proof (openPresenceRecord).
Named == {{}} \cup {{d} : d \in open}

\* Who a live frame goes to: the socket the envelope names, proven or not,
\* and every verified socket of the fingerprint.
LiveTargets(named) == named \cup verified

\* Nobody is reachable: the envelope is queued, unless it is ephemeral,
\* which is refused with target-offline and changes nothing.
DeliverOffline(k) ==
  /\ LiveTargets({}) = {}
  /\ k # "eph"
  /\ Queue(k)
  /\ SweepRetention(box \cup {last + 1}, kind', TRUE)
  /\ expiryLog' = LogAfter(box \cup {last + 1}, kind')
  /\ UNCHANGED <<socketVars, overdue, sentMail, draining, disk, wire, acks,
                 got, excused>>

\* Somebody is reachable: a copy is queued all the same, and the frame goes
\* out live with the copy's relayId, to every target.
DeliverOnline(k) ==
  \E named \in Named :
    /\ LiveTargets(named) # {}
    /\ Queue(k)
    /\ SweepRetention(box \cup {last + 1}, kind', TRUE)
    /\ expiryLog' = LogAfter(box \cup {last + 1}, kind')
    /\ wire' = [d \in Device |-> IF d \in LiveTargets(named)
                                 THEN wire[d] \cup {last + 1} ELSE wire[d]]
    /\ UNCHANGED <<socketVars, overdue, sentMail, draining, disk, acks, got,
                   excused>>

\* The device handles a frame and acknowledges it.
Receive(d) ==
  \E m \in wire[d] :
    /\ wire' = [wire EXCEPT ![d] = @ \ {m}]
    /\ got' = IF d \in Owner THEN got \cup ({m} \cap Id) ELSE got
    /\ acks' = [acks EXCEPT ![d] = @ \cup {m}]
    /\ UNCHANGED <<relayVars, socketVars, disk, expiryLog, excused>>

\* Mutant of RelayAck: the deletion is not saved.
RelayAckUnsaved(d) ==
  \E m \in acks[d] :
    /\ acks' = [acks EXCEPT ![d] = @ \ {m}]
    /\ \/ /\ d \notin proven \/ box = {}
          /\ UNCHANGED <<box, sentMail, wire>>
       \/ /\ d \in proven
          /\ box # {}
          /\ box' = box \ {m}
          /\ PumpHeldMail(d, box \ {m},
                          At(sentMail, d, sentMail[d] \ {m}), wire)
    /\ UNCHANGED <<last, kind, overdue, saveArmed, socketVars, draining,
                   disk, expiryLog, got, excused>>

\* Mutant of RelayAck: the window reopens only by what was still waiting.
RelayAckClosesWindow(d) ==
  \E m \in acks[d] :
    /\ acks' = [acks EXCEPT ![d] = @ \ {m}]
    /\ \/ /\ d \notin proven \/ m \notin box
          /\ UNCHANGED <<box, saveArmed, sentMail, wire>>
       \/ /\ d \in proven
          /\ m \in box
          /\ box' = box \ {m}
          /\ saveArmed' = TRUE
          /\ PumpHeldMail(d, box \ {m},
                          At(sentMail, d, sentMail[d] \ {m}), wire)
    /\ UNCHANGED <<last, kind, overdue, socketVars, draining, disk,
                   expiryLog, got, excused>>

\* relay-ack: refused from an unproven socket, ignored over an empty
\* mailbox; otherwise the envelope goes, the window reopens by what was
\* acknowledged, and the pump runs.
RelayAck(d) ==
  \E m \in acks[d] :
    /\ acks' = [acks EXCEPT ![d] = @ \ {m}]
    /\ \/ /\ d \notin proven \/ box = {}
          /\ UNCHANGED <<box, saveArmed, sentMail, wire>>
       \/ /\ d \in proven
          /\ box # {}
          /\ box' = box \ {m}
          /\ saveArmed' = (saveArmed \/ m \in box)
          /\ PumpHeldMail(d, box \ {m},
                          At(sentMail, d, sentMail[d] \ {m}), wire)
    /\ UNCHANGED <<last, kind, overdue, socketVars, draining, disk,
                   expiryLog, got, excused>>

-----------------------------------------------------------------------------
(* Retention's clocks.                                                     *)

\* Time runs past an envelope's retention.  Text has none.
EnvelopeAges(m) ==
  /\ "ageing" \in Env
  /\ m \in box \ overdue
  /\ kind[m] \in {"media", "offer"}
  /\ overdue' = overdue \cup {m}
  /\ UNCHANGED <<last, kind, box, sentMail, saveArmed, draining, socketVars,
                 disk, expiryLog, wire, acks, got, excused>>

\* The periodic sweep.
RetentionSweep ==
  /\ Swept(box, kind) # box
  /\ SweepRetention(box, kind, saveArmed)
  /\ expiryLog' = LogAfter(box, kind)
  /\ UNCHANGED <<last, kind, overdue, sentMail, draining, socketVars, disk,
                 wire, acks, got, excused>>

\* A notice outlives the log's own retention (30 days).  The sweep that
\* precedes every reading of the log prunes it.
NoticeAges(m) ==
  /\ "ageing" \in Env
  /\ expiryLog[m] = "due"
  /\ expiryLog' = [expiryLog EXCEPT ![m] = "done"]
  /\ UNCHANGED <<relayVars, socketVars, disk, wire, acks, got, excused>>

-----------------------------------------------------------------------------
(* Mail removed because somebody asked.                                    *)

TakeOut(S) ==
  /\ S # {}
  /\ box' = box \ S
  /\ excused' = excused \cup S

\* relay-withdraw and purge-space take back some of the mailbox.
Withdraw(S) ==
  /\ "takeback" \in Env
  /\ TakeOut(S)
  /\ saveArmed' = TRUE
  /\ UNCHANGED <<last, kind, overdue, sentMail, draining, socketVars, disk,
                 expiryLog, wire, acks, got>>

\* purge-me empties it, for a proven device, and saves it empty or not.
PurgeMe ==
  /\ "takeback" \in Env
  /\ proven # {}
  /\ box' = {}
  /\ excused' = excused \cup box
  /\ saveArmed' = TRUE
  /\ UNCHANGED <<last, kind, overdue, sentMail, draining, socketVars, disk,
                 expiryLog, wire, acks, got>>

\* saveOfflineBoxes: everything is written now and no timer is left.
SaveOfflineBoxes(b) ==
  /\ disk' = b
  /\ saveArmed' = FALSE

\* The operator drops one envelope, or a whole mailbox, or every mailbox.
QueueDrop(S) ==
  /\ "operator" \in Env
  /\ TakeOut(S)
  /\ SaveOfflineBoxes(box \ S)
  /\ UNCHANGED <<last, kind, overdue, sentMail, draining, socketVars,
                 expiryLog, wire, acks, got>>

\* The operator announces: queued for everybody, shown live to the most
\* recently active socket under an id that names no queued copy, saved now.
Announce ==
  /\ "announce" \in Env
  /\ last < MaxMsg
  /\ last' = last + 1
  /\ kind' = [kind EXCEPT ![last + 1] = "text"]
  /\ box' = box \cup {last + 1}
  /\ SaveOfflineBoxes(box \cup {last + 1})
  /\ \/ verified = {} /\ UNCHANGED wire
     \/ \E d \in verified :
          wire' = [wire EXCEPT ![d] = @ \cup {LiveOnly}]
  /\ UNCHANGED <<overdue, sentMail, draining, socketVars, expiryLog, acks,
                 got, excused>>

\* The operator nudges delivery.  The handler calls pumpHeldMail and
\* deliverHeldMail without the socket: the mailbox is swept, the window of
\* each connection that was handed something is forgotten, and nothing is
\* sent.  A notice that is due throws: the account's own at the first of its
\* connections, another account's anywhere in the loop.
QueueFlush ==
  LET held == Swept(box, kind)
      handed == {d \in open : sentMail[d] # {}}
      stuck == \E m \in Id : LogAfter(box, kind)[m] = "due"
  IN
  /\ "nudge" \in Env
  /\ handed # {}
  /\ SweepRetention(box, kind, saveArmed)
  /\ expiryLog' = LogAfter(box, kind)
  /\ \E D \in SUBSET handed :
       /\ D # {}
       /\ stuck => \E d \in handed : D = {d}
       /\ sentMail' = Cut(sentMail, IF held = {} THEN {} ELSE D)
  /\ UNCHANGED <<last, kind, overdue, draining, socketVars, disk, wire,
                 acks, got, excused>>

-----------------------------------------------------------------------------
(* The disk, crashes and stops.                                            *)

\* The debounced write of the mailbox fires.
SaveOfflineBoxNow ==
  /\ "save" \in Env
  /\ saveArmed
  /\ SaveOfflineBoxes(box)
  /\ UNCHANGED <<last, kind, box, overdue, sentMail, draining, socketVars,
                 expiryLog, wire, acks, got, excused>>

\* A new process: memory is what the disk says, nobody is connected.
Restart(b) ==
  /\ box' = b
  /\ disk' = b
  /\ open' = {}
  /\ proven' = {}
  /\ verified' = {}
  /\ full' = {}
  /\ sentMail' = Nothing
  /\ saveArmed' = FALSE
  /\ draining' = FALSE
  /\ wire' = Nothing
  /\ acks' = Nothing
  /\ UNCHANGED <<last, kind, overdue, expiryLog, got>>

\* The process dies.  Only a save that was still armed excuses a loss.
Crash ==
  /\ "crash" \in Env
  /\ Restart(disk)
  /\ excused' = excused \cup (IF saveArmed THEN box \ disk ELSE {})

\* uncaughtException: everything is written on the way down.
FatalError ==
  /\ "crash" \in Env
  /\ Restart(box)
  /\ UNCHANGED excused

\* SIGTERM: stop listening, write everything, and serve the sockets that
\* are still there for the length of the grace period.
BeginShutdown ==
  /\ "stop" \in Env
  /\ ~draining
  /\ draining' = TRUE
  /\ SaveOfflineBoxes(box)
  /\ UNCHANGED <<last, kind, box, overdue, sentMail, socketVars, expiryLog,
                 wire, acks, got, excused>>

\* The grace period ends: process.exit, and another process takes over.
Exit ==
  /\ draining
  /\ Restart(disk)
  /\ excused' = excused \cup (IF saveArmed THEN box \ disk ELSE {})

-----------------------------------------------------------------------------

DeviceNext(d) ==
  \/ Connect(d) \/ Congest(d) \/ Rehello(d) \/ Disconnect(d) \/ IdProof(d)
  \/ Receive(d) \/ RelayAck(d)

Deliver(k) == DeliverOffline(k) \/ DeliverOnline(k)

ClockNext == RetentionSweep \/ \E m \in Id : EnvelopeAges(m) \/ NoticeAges(m)

OperatorNext ==
  \/ \E m \in box : QueueDrop({m})
  \/ QueueDrop(box)
  \/ Announce
  \/ QueueFlush

ProcessNext == SaveOfflineBoxNow \/ Crash \/ FatalError \/ BeginShutdown \/ Exit

Next ==
  \/ \E d \in Device : DeviceNext(d)
  \/ \E k \in Kinds : Deliver(k)
  \/ ClockNext
  \/ \E S \in SUBSET box : Withdraw(S)
  \/ PurgeMe
  \/ OperatorNext
  \/ ProcessNext

Spec == Init /\ [][Next]_vars

\* A connected device reads its socket and acknowledges, and the relay
\* reads its sockets.  Nothing else is assumed to happen.
FairSpec ==
  Spec /\ \A d \in Owner : WF_vars(Receive(d)) /\ WF_vars(RelayAck(d))

-----------------------------------------------------------------------------
(* Properties.                                                             *)

\* Mail that was answered "queued" is never silently lost: it is waiting, or
\* a device of the account received it, or a notice of its expiry was
\* written, or somebody had it removed, or the process died while the write
\* it was waiting for was still armed, or it was a reservation that lapsed.
\* Every handler that shortens a mailbox is bound by it.
NoSilentLoss ==
  \A m \in 1 .. last :
    \/ m \in box
    \/ m \in got
    \/ expiryLog[m] # "no"
    \/ m \in excused
    \/ kind[m] = "offer" /\ m \in overdue

\* A mailbox that differs from its file has a write armed: no handler
\* changes one and forgets to save it, so what a crash can undo is bounded
\* by the debounce ("a second at most", MAILBOX_SAVE_MAX_MS).
SaveDiscipline == box # disk => saveArmed

\* A connection is handed its mail in arrival order: whatever it was handed
\* and is still waiting has nothing older waiting that it was not handed.
HeldInOrder ==
  \A d \in Device : \A m \in sentMail[d] \cap box :
    \A k \in box : k < m => k \in sentMail[d]

\* No connection is ever credited with more than MAIL_WINDOW envelopes.
WindowBound == \A d \in Device : Cardinality(sentMail[d]) <= Window

\* A hello that merely claims the fingerprint gets at the mailbox in no order
\* of hellos, proofs, replacements and disconnects: what a device without the
\* key is sent is an envelope of that very step, whose sender named its
\* socket; it is handed nothing that was waiting; and what it acknowledges
\* leaves the mailbox as it is ("whoever typed it collected the mail queued
\* for it and could ACK it away").
MailOnlyToOwner ==
  [][\A d \in Device \ Owner :
       /\ sentMail'[d] = {}
       /\ \A m \in wire'[d] \ wire[d] : m = last + 1 /\ last' = m
       /\ acks[d] \ acks'[d] # {} /\ d \in open' => box' = box]_vars

\* Mail that left the mailbox comes back only through a restart that found
\* it on disk while the write of its removal was still armed.
NeverResurrected ==
  [][\A m \in Id : m <= last /\ m \notin box /\ m \in box'
       => saveArmed /\ m \in disk /\ open' = {}]_vars

\* Something is on its way between the relay and d, and nothing d was
\* credited with went missing.
Moving(d) == wire[d] \cup acks[d] # {} /\ sentMail[d] \subseteq wire[d] \cup acks[d]

\* The flow never stops with mail left behind.  A proof over waiting mail sets
\* it going; and once something is moving on a proven connection, all that
\* waits leaves the mailbox, unless the device loses its proof or its buffer
\* is over the limit: whatever other devices acknowledge, announcements,
\* nudges, withdrawals and short batches do to the window meanwhile.
HeldMailLeaves ==
  /\ [][\A d \in proven' \ proven : box' # {} => d \in full' \/ Moving(d)']_vars
  /\ \A d \in Owner : \A m \in Id :
       (d \in proven \ full /\ Moving(d) /\ m \in box)
         ~> (m \notin box \/ d \notin proven \ full)

\* What the relay holds at the end of a graceful stop is what its successor
\* starts with ("so nothing is lost to a timer that never fired").
GracefulStopKeepsMail == [][Exit => box' = box]_vars

=============================================================================
