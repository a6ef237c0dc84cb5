---------------------------- MODULE FileTransfer ----------------------------
(***************************************************************************)
(* One file on its way from one contact to another, in chunks              *)
(* (src/js/chat: sendBlobChunks, waitForTransferConsent, decideGatedTransfer*)
(* and onTransferStalled of 29-file-transfer.js, sendEncryptedBlob and     *)
(* watchLiveDelivery of 30-file-transfer-2.js).  The sender picks the road *)
(* of every piece afresh: the live channel while it is open, the relay     *)
(* after.  A live start is an offer the receiver answers first; a receiver *)
(* with a gap asks for what is missing, three times; a file that went live *)
(* and drew no receipt goes once more, whole, through the relay.           *)
(*                                                                         *)
(* Attempt 1 is the send, attempt 2 that second try: another transfer of   *)
(* the same message.  A channel that breaks is not replaced here: a new    *)
(* one makes a new session object, which a transfer begun does not use.    *)
(* The relay keeps what it is given, in order (module Mailbox); receiver   *)
(* and sender are both connected to it.                                    *)
(***************************************************************************)
EXTENDS Naturals, Sequences

CONSTANTS
    Chunks,       \* how many chunks the file has (below the 256 of one ask)
    Sizes,        \* what is sent: "small" is under FILE_GATE_MIN_BYTES, "large"
                  \* over MAX_OFFLINE_FILE_BYTES, "medium" between the two
    Receipts,     \* the receiver's setting: a subset of BOOLEAN
    MaxAsks,      \* three requests for missing chunks per transfer
    MaxLosses,    \* bound: broken channels and pieces lost or unreadable
    MaxReloads    \* bound: reloads of either side

ASSUME ChunksIsPositive == Chunks \in Nat \ {0}
ASSUME SizesAreThree == Sizes \subseteq {"small", "medium", "large"}
ASSUME ReceiptsIsASetting == Receipts \subseteq BOOLEAN
ASSUME MaxAsksIsNat == MaxAsks \in Nat
ASSUME MaxLossesIsNat == MaxLosses \in Nat

VARIABLES
    size, receipts,   \* chosen at the start
    status,           \* of the sender's history entry
    phase, next,      \* sendBlobChunks per attempt, and its index
    out,              \* outgoingFiles: held, cancelled (aborted) or none
    watch,            \* watchLiveDelivery: off, armed or fired
    owed,             \* chunks a file-resend handler has still to send
    inc,              \* incomingFiles of the receiver
    acks,             \* receipts that wait out their random delay
    kept,             \* the pieces of the file in the receiver's history
    declined, gaveUp, \* the attempts refused, and those given up
    up, open,         \* the live channel; what each end takes it for
    wire, box,        \* what each end has sent live, and by relay
    losses, reloads   \* the bounded counts

sender == <<status, phase, next, out, watch, owed>>
receiver == <<inc, acks, kept, declined, gaveUp>>
roads == <<up, open, wire, box>>
vars == <<size, receipts, sender, receiver, roads, losses, reloads>>

-----------------------------------------------------------------------------
Attempt == {1, 2}
End == {"sender", "receiver"}
Piece == 0 .. Chunks - 1

Letter == [kind : {"start", "chunk", "accept", "decline", "ask", "receipt"},
           t : Attempt, piece : Piece, sound : BOOLEAN, want : SUBSET Piece]
Say(kind, t) == [kind |-> kind, t |-> t, piece |-> 0, sound |-> TRUE, want |-> {}]
ChunkOf(t, i, sound) == [Say("chunk", t) EXCEPT !.piece = i, !.sound = sound]
AskFor(t, missing) ==
    [kind |-> "ask", t |-> t, piece |-> 0, sound |-> TRUE, want |-> missing]

NoRecord == [none |-> TRUE]
Record == [seen : SUBSET Piece, data : SUBSET Piece,
           consent : {"auto", "pending", "granted"}, asks : Nat, timer : BOOLEAN]

\* The live channel while this end takes it to be open; what is said into a
\* broken one is gone.  The relay otherwise.
Put(e, m) ==
    IF open[e]
    THEN /\ wire' = IF up THEN [wire EXCEPT ![e] = Append(@, m)] ELSE wire
         /\ UNCHANGED box
    ELSE /\ box' = [box EXCEPT ![e] = Append(@, m)]
         /\ UNCHANGED wire

PutByRelay(e, m) == box' = [box EXCEPT ![e] = Append(@, m)] /\ UNCHANGED wire

Lost == losses < MaxLosses /\ losses' = losses + 1

Init ==
    /\ size \in Sizes /\ receipts \in Receipts
    /\ status = "none"
    /\ phase = [t \in Attempt |-> "idle"] /\ next = [t \in Attempt |-> 0]
    /\ out = [t \in Attempt |-> "none"] /\ watch = "off"
    /\ owed = [t \in Attempt |-> {}]
    /\ inc = [t \in Attempt |-> NoRecord]
    /\ acks = {} /\ kept = {} /\ declined = {} /\ gaveUp = {}
    /\ up \in BOOLEAN /\ open = [e \in End |-> up]
    /\ wire = [e \in End |-> <<>>] /\ box = [e \in End |-> <<>>]
    /\ losses = 0 /\ reloads = 0

-----------------------------------------------------------------------------
(* The sender.                                                              *)

\* sendEncryptedBlob up to the start: a file too big for a mailbox is not sent
\* without a channel.  A live start over the gate waits for an answer.
SendFile ==
    /\ status = "none"
    /\ open["sender"] \/ size # "large"
    /\ status' = "queued"
    /\ out' = [out EXCEPT ![1] = "held"]
    /\ phase' = [phase EXCEPT ![1] =
                    IF open["sender"] /\ size # "small" THEN "asking" ELSE "sending"]
    /\ Put("sender", Say("start", 1))
    /\ UNCHANGED <<size, receipts, next, watch, owed, receiver, up, open, losses, reloads>>

\* sendBlobChunks returns false: the blob is let go and the entry of a first
\* attempt fails, whatever it said before; a second try leaves it alone.
Fails(t) ==
    /\ phase' = [phase EXCEPT ![t] = "failed"]
    /\ out' = [out EXCEPT ![t] = "none"]
    /\ status' = IF t = 1 THEN "failed" ELSE status

\* Mutant of ConsentTimeout: silence is taken for consent.
SilenceIsConsent(t) ==
    /\ phase[t] = "asking"
    /\ phase' = [phase EXCEPT ![t] = "sending"]
    /\ UNCHANGED <<status, next, out, watch, owed, size, receipts, receiver, roads,
                   losses, reloads>>

\* Nobody answered the offer for a minute.
ConsentTimeout(t) ==
    /\ phase[t] = "asking"
    /\ Fails(t)
    /\ UNCHANGED <<next, watch, owed, size, receipts, receiver, roads, losses, reloads>>

\* A chunk, read and sealed.  A second try goes by relay only.  The key may
\* change under it, or the other side be opening a letter with another one:
\* then it cannot be opened.
SendChunk(t) ==
    /\ phase[t] = "sending" /\ next[t] < Chunks
    /\ out[t] # "cancelled"
    /\ \E sound \in BOOLEAN :
        LET m == ChunkOf(t, next[t], sound) IN
        /\ IF sound THEN UNCHANGED losses ELSE Lost
        /\ IF t = 1 THEN Put("sender", m) ELSE PutByRelay("sender", m)
    /\ next' = [next EXCEPT ![t] = @ + 1]
    /\ UNCHANGED <<status, phase, out, watch, owed, size, receipts, receiver, up, open, reloads>>

\* Cancelled, the relay socket down, or an error while reading or sealing.
StopUpload(t) ==
    /\ phase[t] = "sending" /\ next[t] < Chunks
    /\ Fails(t)
    /\ UNCHANGED <<next, watch, owed, size, receipts, receiver, roads, losses, reloads>>

\* All handed over.  The entry moves forward only; with the channel still up a
\* file small enough for a mailbox is watched.
FinishUpload(t) ==
    /\ phase[t] = "sending" /\ next[t] = Chunks
    /\ phase' = [phase EXCEPT ![t] = "done"]
    /\ status' = IF t = 2 \/ status = "delivered" THEN status
                 ELSE IF open["sender"] THEN "sent" ELSE "queued"
    /\ watch' = IF t = 1 /\ open["sender"] /\ size # "large" THEN "armed" ELSE watch
    /\ UNCHANGED <<next, out, owed, size, receipts, receiver, roads, losses, reloads>>

\* The banner, tapped.
Cancel ==
    /\ phase[1] \in {"asking", "sending"} /\ out[1] = "held"
    /\ out' = [out EXCEPT ![1] = "cancelled"]
    /\ UNCHANGED <<status, phase, next, watch, owed, size, receipts, receiver, roads,
                   losses, reloads>>

\* Mutant of Unanswered: a file that was sent needs no second try.
NotEvenSent(st) == st = "queued"

\* watchLiveDelivery sends again below "delivered", unless it failed.
Unanswered(st) == st \in {"queued", "sent"}

FireWatch ==
    /\ watch = "armed" /\ watch' = "fired"
    /\ IF Unanswered(status)
       THEN /\ phase' = [phase EXCEPT ![2] = "sending"]
            /\ out' = [out EXCEPT ![2] = "held"]
            /\ PutByRelay("sender", Say("start", 2))
       ELSE UNCHANGED <<phase, out, wire, box>>
    /\ UNCHANGED <<status, next, owed, size, receipts, receiver, up, open, losses, reloads>>

\* The first of the chunks that were asked for.
Resend(t) ==
    /\ \E i \in owed[t] :
       /\ \A j \in owed[t] : i <= j
       /\ owed' = [owed EXCEPT ![t] = @ \ {i}]
       /\ \E sound \in BOOLEAN :
            /\ IF sound THEN UNCHANGED losses ELSE Lost
            /\ Put("sender", ChunkOf(t, i, sound))
    /\ UNCHANGED <<status, phase, next, out, watch, size, receipts, receiver, up, open, reloads>>

Under(t) == \E e \in End :
    \/ \E n \in DOMAIN wire[e] : wire[e][n].t = t
    \/ \E n \in DOMAIN box[e] : box[e][n].t = t

\* Five stalls after the last chunk: longer than a receiver goes on asking.
Forget(t) ==
    /\ phase[t] = "done" /\ out[t] # "none"
    /\ inc[t] = NoRecord /\ owed[t] = {} /\ ~Under(t)
    /\ out' = [out EXCEPT ![t] = "none"]
    /\ UNCHANGED <<status, phase, next, watch, owed, size, receipts, receiver, roads,
                   losses, reloads>>

\* What the sender makes of the receiver's letter m.
HearAccept(m) ==
    /\ m.kind = "accept"
    /\ phase' = [phase EXCEPT ![m.t] = IF @ = "asking" THEN "sending" ELSE @]
    /\ UNCHANGED <<status, next, out, watch, owed>>

HearDecline(m) ==
    /\ m.kind = "decline"
    /\ IF phase[m.t] = "asking" THEN Fails(m.t)
       ELSE /\ out' = [out EXCEPT ![m.t] = IF @ = "held" THEN "cancelled" ELSE @]
            /\ UNCHANGED <<status, phase>>
    /\ UNCHANGED <<next, watch, owed>>

HearAsk(m) ==
    /\ m.kind = "ask"
    /\ owed' = [owed EXCEPT ![m.t] = IF out[m.t] = "none" THEN @ ELSE @ \cup m.want]
    /\ UNCHANGED <<status, phase, next, out, watch>>

HearReceipt(m) ==
    /\ m.kind = "receipt"
    /\ status' = "delivered"
    /\ UNCHANGED <<phase, next, out, watch, owed>>

SenderHears ==
    /\ \/ /\ wire["receiver"] # <<>>
          /\ wire' = [wire EXCEPT !["receiver"] = Tail(@)] /\ UNCHANGED box
          /\ LET m == Head(wire["receiver"]) IN
             HearAccept(m) \/ HearDecline(m) \/ HearAsk(m) \/ HearReceipt(m)
       \/ /\ box["receiver"] # <<>>
          /\ box' = [box EXCEPT !["receiver"] = Tail(@)] /\ UNCHANGED wire
          /\ LET m == Head(box["receiver"]) IN HearAsk(m) \/ HearReceipt(m)
    /\ UNCHANGED <<size, receipts, receiver, up, open, losses, reloads>>

-----------------------------------------------------------------------------
(* The receiver.                                                            *)

\* Mutant of Opened: the clock runs while the user is being asked.
OpenedTimed(consent) == [seen |-> {}, data |-> {}, consent |-> consent, asks |-> 0,
                         timer |-> TRUE]

Opened(consent) == [seen |-> {}, data |-> {}, consent |-> consent, asks |-> 0,
                    timer |-> consent # "pending"]

\* A start on the channel.  One already known is left alone.  Over the gate it
\* is put to the user (or their quota), unless a letter of the same sender is
\* being opened at that moment: the session is then marked as relay mail, and
\* the offer is neither asked about nor answered.
HearLiveStart(m) ==
    /\ m.kind = "start"
    /\ IF inc[m.t] # NoRecord THEN UNCHANGED <<inc, losses>>
       ELSE \/ /\ inc' = [inc EXCEPT ![m.t] =
                             Opened(IF size = "small" THEN "auto" ELSE "pending")]
               /\ UNCHANGED losses
            \/ /\ size # "small" /\ Lost
               /\ inc' = [inc EXCEPT ![m.t] = Opened("auto")]
    /\ UNCHANGED <<acks, kept>>

\* A start by relay.  Of a message already in the history it is dropped.
HearRelayStart(m) ==
    /\ m.kind = "start"
    /\ inc' = IF kept # {} \/ inc[m.t] # NoRecord THEN inc
              ELSE [inc EXCEPT ![m.t] = Opened("auto")]
    /\ UNCHANGED <<acks, kept, losses>>

\* Mutant of Taken: noted as seen before it is known to open.
SeenFirst(r, m) ==
    [r EXCEPT !.timer = TRUE, !.seen = @ \cup {m.piece},
              !.data = IF m.sound THEN @ \cup {m.piece} ELSE @]

\* A chunk re-arms the watchdog, whatever becomes of it.
Taken(r, m) ==
    IF m.sound THEN [r EXCEPT !.timer = TRUE, !.seen = @ \cup {m.piece},
                              !.data = @ \cup {m.piece}]
    ELSE [r EXCEPT !.timer = TRUE]

\* With every index seen the file is put together, kept and acknowledged.
HearChunk(m) ==
    /\ m.kind = "chunk"
    /\ IF inc[m.t] = NoRecord THEN UNCHANGED <<inc, acks, kept>>
       ELSE LET r == Taken(inc[m.t], m) IN
            IF r.seen # Piece
            THEN inc' = [inc EXCEPT ![m.t] = r] /\ UNCHANGED <<acks, kept>>
            ELSE /\ inc' = [inc EXCEPT ![m.t] = NoRecord]
                 /\ kept' = r.data
                 /\ acks' = IF receipts THEN acks \cup {m.t} ELSE acks
    /\ UNCHANGED losses

ReceiverHears ==
    /\ \/ /\ wire["sender"] # <<>>
          /\ wire' = [wire EXCEPT !["sender"] = Tail(@)] /\ UNCHANGED box
          /\ LET m == Head(wire["sender"]) IN HearLiveStart(m) \/ HearChunk(m)
       \/ /\ box["sender"] # <<>>
          /\ box' = [box EXCEPT !["sender"] = Tail(@)] /\ UNCHANGED wire
          /\ LET m == Head(box["sender"]) IN HearRelayStart(m) \/ HearChunk(m)
    /\ UNCHANGED <<size, receipts, sender, declined, gaveUp, up, open, reloads>>

SendReceipt(t) ==
    /\ t \in acks
    /\ acks' = acks \ {t}
    /\ Put("receiver", Say("receipt", t))
    /\ UNCHANGED <<size, receipts, sender, inc, kept, declined, gaveUp, up, open,
                   losses, reloads>>

Pending(t) == inc[t] # NoRecord /\ inc[t].consent = "pending"

\* The answer goes down the channel or nowhere.
Answer(kind, t) ==
    IF open["receiver"] THEN Put("receiver", Say(kind, t)) ELSE UNCHANGED <<wire, box>>

\* Mutant of Granted: whoever said yes waits for the bytes without a clock.
GrantedUntimed(r) == [r EXCEPT !.consent = "granted"]

Granted(r) == [r EXCEPT !.consent = "granted", !.timer = TRUE]

AcceptFile(t) ==
    /\ Pending(t)
    /\ inc' = [inc EXCEPT ![t] = Granted(@)]
    /\ Answer("accept", t)
    /\ UNCHANGED <<size, receipts, sender, acks, kept, declined, gaveUp, up, open,
                   losses, reloads>>

DeclineFile(t) ==
    /\ Pending(t)
    /\ inc' = [inc EXCEPT ![t] = NoRecord]
    /\ declined' = declined \cup {t}
    /\ Answer("decline", t)
    /\ UNCHANGED <<size, receipts, sender, acks, kept, gaveUp, up, open, losses, reloads>>

\* A question nobody answers is taken back after a minute and a half; what is
\* answered later changes nothing.
QuestionLapses(t) ==
    /\ Pending(t)
    /\ inc' = [inc EXCEPT ![t] = NoRecord]
    /\ UNCHANGED <<size, receipts, sender, acks, kept, declined, gaveUp, roads,
                   losses, reloads>>

\* A minute without a chunk: longer than anything is under way, than a chunk
\* takes to send and than a broken channel takes to be noticed.
Silent(t) ==
    /\ inc[t] # NoRecord /\ inc[t].timer
    /\ ~Under(t) /\ owed[t] = {} /\ phase[t] # "sending"
    /\ \A e \in End : open[e] => up

\* Mutant of GivesUp: one request fewer.
GivesUpEarly(r) == r.asks + 1 >= MaxAsks

GivesUp(r) == r.asks >= MaxAsks

\* onTransferStalled: ask for what is missing, or give the transfer up.
\* The requests are counted over the whole transfer.
Stalled(t) ==
    /\ Silent(t)
    /\ IF GivesUp(inc[t])
       THEN /\ inc' = [inc EXCEPT ![t] = NoRecord]
            /\ gaveUp' = gaveUp \cup {t}
            /\ UNCHANGED <<wire, box>>
       ELSE /\ inc' = [inc EXCEPT ![t].asks = @ + 1]
            /\ Put("receiver", AskFor(t, Piece \ inc[t].seen))
            /\ UNCHANGED gaveUp
    /\ UNCHANGED <<size, receipts, sender, acks, kept, declined, up, open, losses, reloads>>

-----------------------------------------------------------------------------
(* The channel, and reloads.                                                *)

Broken == /\ up' = FALSE
          /\ wire' = [e \in End |-> <<>>]

ChannelBreaks ==
    /\ up /\ Lost
    /\ Broken
    /\ UNCHANGED <<size, receipts, sender, receiver, open, box, reloads>>

\* The close event of a channel that is gone.
Notices(e) ==
    /\ ~up /\ open[e]
    /\ open' = [open EXCEPT ![e] = FALSE]
    /\ UNCHANGED <<size, receipts, sender, receiver, up, wire, box, losses, reloads>>

Reloads == reloads < MaxReloads /\ reloads' = reloads + 1

\* The uploads end where they are and their blobs are gone; the entry stays as
\* it stands.
SenderReloads ==
    /\ Reloads
    /\ phase' = [t \in Attempt |-> IF phase[t] \in {"asking", "sending"} THEN "gone"
                                   ELSE phase[t]]
    /\ out' = [t \in Attempt |-> "none"] /\ owed' = [t \in Attempt |-> {}]
    /\ watch' = IF watch = "armed" THEN "off" ELSE watch
    /\ Broken /\ open' = [open EXCEPT !["sender"] = FALSE]
    /\ UNCHANGED <<size, receipts, status, next, receiver, box, losses>>

\* What was received of a file that is not complete is in memory only.
ReceiverReloads ==
    /\ Reloads
    /\ inc' = [t \in Attempt |-> NoRecord] /\ acks' = {}
    /\ Broken /\ open' = [open EXCEPT !["receiver"] = FALSE]
    /\ UNCHANGED <<size, receipts, sender, kept, declined, gaveUp, box, losses>>

-----------------------------------------------------------------------------
Sends(t) == SendChunk(t) \/ FinishUpload(t)
Clocks(t) == ConsentTimeout(t) \/ QuestionLapses(t) \/ Stalled(t)

Next ==
    \/ SendFile \/ Cancel \/ FireWatch \/ SenderHears \/ ReceiverHears
    \/ \E t \in Attempt :
        \/ Sends(t) \/ StopUpload(t) \/ Resend(t) \/ Forget(t) \/ SendReceipt(t)
        \/ AcceptFile(t) \/ DeclineFile(t) \/ Clocks(t)
    \/ ChannelBreaks \/ \E e \in End : Notices(e)
    \/ SenderReloads \/ ReceiverReloads

Spec == Init /\ [][Next]_vars

\* An upload under way goes on or stops, what arrives is read, a broken channel
\* is noticed, and the clocks run.  Nobody need answer an offer.
FairSpec ==
    /\ Spec
    /\ WF_vars(SenderHears) /\ WF_vars(ReceiverHears)
    /\ \A e \in End : WF_vars(Notices(e))
    /\ \A t \in Attempt :
        /\ WF_vars(Sends(t) \/ StopUpload(t)) /\ WF_vars(Resend(t))
        /\ WF_vars(Clocks(t))

-----------------------------------------------------------------------------
(* The variables hold what they are declared to hold; a transfer waiting    *)
(* for its answer has no byte and no clock.                                 *)
TypeOK ==
    /\ size \in Sizes /\ receipts \in BOOLEAN
    /\ status \in {"none", "queued", "sent", "delivered", "failed"}
    /\ phase \in [Attempt -> {"idle", "asking", "sending", "done", "failed", "gone"}]
    /\ next \in [Attempt -> 0 .. Chunks]
    /\ out \in [Attempt -> {"none", "held", "cancelled"}]
    /\ watch \in {"off", "armed", "fired"}
    /\ owed \in [Attempt -> SUBSET Piece]
    /\ inc \in [Attempt -> Record \cup {NoRecord}]
    /\ acks \in SUBSET Attempt /\ kept \in SUBSET Piece
    /\ declined \in SUBSET Attempt /\ gaveUp \in SUBSET Attempt
    /\ up \in BOOLEAN /\ open \in [End -> BOOLEAN]
    /\ wire \in [End -> Seq(Letter)] /\ box \in [End -> Seq(Letter)]
    /\ losses \in Nat /\ reloads \in Nat
    /\ \A t \in Attempt : Pending(t) => inc[t].seen = {} /\ ~inc[t].timer

(* What the sender is shown as delivered, and what the receiver's history   *)
(* holds at all, is the whole file: not a file with a hole where one chunk  *)
(* came twice or could not be opened (HANDOFF.md, "transfer.seen").         *)
DeliveredIsWhole ==
    /\ kept \in {{}, Piece}
    /\ status = "delivered" => kept = Piece

(* While the receiver is being asked, and after they said no, no chunk of   *)
(* that transfer is under way by either road; and what was refused is never *)
(* kept, by this attempt or a second one (decideGatedTransfer).             *)
ConsentFirst ==
    /\ \A t \in Attempt : Pending(t) \/ t \in declined =>
        ~ \E n \in DOMAIN wire["sender"] : wire["sender"][n].kind = "chunk"
                                           /\ wire["sender"][n].t = t
    /\ \A t \in Attempt : Pending(t) \/ t \in declined =>
        ~ \E n \in DOMAIN box["sender"] : box["sender"][n].kind = "chunk"
                                          /\ box["sender"][n].t = t
    /\ declined # {} => kept = {}

(* A receiver gives a transfer up only when the sender has let go of it, or *)
(* when more was lost than three requests can replace.                      *)
GivesUpWithReason ==
    \A t \in gaveUp : out[t] = "none" \/ losses > MaxAsks

Settled ==
    /\ \A e \in End : wire[e] = <<>> /\ box[e] = <<>>
    /\ \A t \in Attempt : inc[t] = NoRecord /\ owed[t] = {}
                          /\ phase[t] \notin {"asking", "sending"}

(* A file that fits a mailbox and left over a channel still up at the end   *)
(* is with the receiver when everything has come to rest, whatever the      *)
(* channel swallowed, unless a side was reloaded or the second try failed   *)
(* too (watchLiveDelivery).                                                 *)
SentLiveArrives ==
    watch = "fired" /\ Settled /\ phase[2] # "failed" /\ reloads = 0 /\ losses <= MaxAsks
    => kept = Piece

(* No transfer sits half received for ever ("An incomplete transfer used to *)
(* sit in incomingFiles forever").                                          *)
RecordsGo == \A t \in Attempt : inc[t] # NoRecord ~> inc[t] = NoRecord

\* To the two people the offer, the chunks, the requests and the second try
\* together are Parcel: the entry of the one, the history of the other.
Got == IF kept = {} THEN "nothing" ELSE IF kept = Piece THEN "whole" ELSE "torn"
Refused == declined # {}

People == INSTANCE Parcel WITH shown <- status, got <- Got, refused <- Refused
ImplementsParcel == People!Spec
=============================================================================
