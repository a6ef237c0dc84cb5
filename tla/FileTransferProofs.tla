------------------------- MODULE FileTransferProofs -------------------------
(***************************************************************************)
(* Proofs about FileTransfer, for any number of chunks, requests, losses   *)
(* and reloads.                                                            *)
(***************************************************************************)
EXTENDS FileTransfer, TLAPS

Says(q, kind) == \E n \in DOMAIN q : q[n].kind = kind

\* What is noted as seen is there, and nobody speaks of a delivery before it.
Whole ==
    /\ \A t \in Attempt : inc[t] # NoRecord => inc[t].data = inc[t].seen
    /\ kept \in {{}, Piece}
    /\ acks # {} \/ Says(wire["receiver"], "receipt") \/ Says(box["receiver"], "receipt")
       \/ status = "delivered" => kept = Piece

\* No chunk was sent, nor asked for, and none will be.
Quiet ==
    /\ phase[1] \in {"idle", "asking", "failed", "gone"} /\ phase[2] = "idle"
    /\ watch = "off"
    /\ \A t \in Attempt : owed[t] = {}
    /\ inc[2] = NoRecord /\ kept = {}
    /\ box["sender"] = <<>>
    /\ ~Says(wire["receiver"], "accept") /\ ~Says(wire["receiver"], "ask")
    /\ ~Says(box["receiver"], "accept") /\ ~Says(box["receiver"], "ask")

\* Before the send; while the offer is under way; while it is being asked
\* about, and after a no.
NotSent == status = "none" =>
    Quiet /\ phase[1] = "idle" /\ wire["sender"] = <<>>
    /\ inc[1] = NoRecord /\ declined = {}

Offered == size # "small" /\ Says(wire["sender"], "start") =>
    Quiet /\ wire["sender"] = <<Say("start", 1)>>
    /\ inc[1] = NoRecord /\ declined = {}

Asked == Pending(1) \/ 1 \in declined =>
    Quiet /\ wire["sender"] = <<>> /\ (1 \in declined => inc[1] = NoRecord)

FirstOnly == ~Pending(2) /\ 2 \notin declined

Calm == NotSent /\ Offered /\ Asked /\ FirstOnly

Inv == TypeOK /\ Whole /\ Calm

USE ChunksIsPositive, SizesAreThree, ReceiptsIsASetting, MaxAsksIsNat, MaxLossesIsNat

(***************************************************************************)
(* Letters and roads.                                                      *)
(***************************************************************************)

LEMMA SayTyped ==
  ASSUME NEW kind \in {"start", "chunk", "accept", "decline", "ask", "receipt"},
         NEW t \in Attempt
  PROVE  Say(kind, t) \in Letter /\ Say(kind, t).kind = kind /\ Say(kind, t).t = t
BY DEF Say, Letter, Piece

LEMMA ChunkTyped ==
  ASSUME NEW t \in Attempt, NEW i \in Piece, NEW sound \in BOOLEAN
  PROVE  ChunkOf(t, i, sound) \in Letter /\ ChunkOf(t, i, sound).kind = "chunk"
BY DEF ChunkOf, Say, Letter, Piece

LEMMA AskTyped ==
  ASSUME NEW t \in Attempt, NEW S \in SUBSET Piece
  PROVE  AskFor(t, S) \in Letter /\ AskFor(t, S).kind = "ask"
<1>1. 0 \in Piece
  BY DEF Piece
<1> QED BY <1>1 DEF AskFor, Letter

LEMMA AppendSays ==
  ASSUME NEW q \in Seq(Letter), NEW m \in Letter
  PROVE  /\ Append(q, m) \in Seq(Letter)
         /\ \A k : Says(Append(q, m), k) => Says(q, k) \/ m.kind = k
BY DEF Says

LEMMA TailSays ==
  ASSUME NEW q \in Seq(Letter), q # <<>>
  PROVE  /\ Head(q) \in Letter /\ Tail(q) \in Seq(Letter)
         /\ Says(q, Head(q).kind)
         /\ \A k : Says(Tail(q), k) => Says(q, k)
BY DEF Says

LEMMA NothingSaid == \A k : ~Says(<<>>, k)
BY DEF Says

\* What a letter adds to the roads.
Added(e, m) ==
    /\ wire' \in [End -> Seq(Letter)] /\ box' \in [End -> Seq(Letter)]
    /\ \A f \in End : \A k : /\ Says(wire'[f], k) => Says(wire[f], k) \/ (f = e /\ m.kind = k)
                             /\ Says(box'[f], k) => Says(box[f], k) \/ (f = e /\ m.kind = k)
    /\ \A f \in End : f # e => wire'[f] = wire[f] /\ box'[f] = box[f]

LEMMA PutAdds ==
  ASSUME TypeOK, NEW e \in End, NEW m \in Letter, Put(e, m)
  PROVE  Added(e, m)
<1>1. wire \in [End -> Seq(Letter)] /\ box \in [End -> Seq(Letter)]
  BY DEF TypeOK
<1>2. CASE open[e] /\ up
  <2>1. wire' = [wire EXCEPT ![e] = Append(@, m)] /\ box' = box
    BY <1>2 DEF Put
  <2> QED BY <1>1, <2>1, AppendSays DEF Added
<1>3. CASE open[e] /\ ~up
  BY <1>1, <1>3 DEF Put, Added
<1>4. CASE ~open[e]
  <2>1. box' = [box EXCEPT ![e] = Append(@, m)] /\ wire' = wire
    BY <1>4 DEF Put
  <2> QED BY <1>1, <2>1, AppendSays DEF Added
<1> QED BY <1>2, <1>3, <1>4

LEMMA RelayAdds ==
  ASSUME TypeOK, NEW e \in End, NEW m \in Letter, PutByRelay(e, m)
  PROVE  Added(e, m) /\ wire' = wire
<1>1. wire \in [End -> Seq(Letter)] /\ box \in [End -> Seq(Letter)]
  BY DEF TypeOK
<1>2. box' = [box EXCEPT ![e] = Append(@, m)] /\ wire' = wire
  BY DEF PutByRelay
<1> QED BY <1>1, <1>2, AppendSays DEF Added

\* What reading a letter leaves.
Read(e, m) ==
    /\ m \in Letter
    /\ wire' \in [End -> Seq(Letter)] /\ box' \in [End -> Seq(Letter)]
    /\ Says(wire[e], m.kind) \/ Says(box[e], m.kind)
    /\ \A f \in End : \A k : /\ Says(wire'[f], k) => Says(wire[f], k)
                             /\ Says(box'[f], k) => Says(box[f], k)
    /\ \A f \in End : f # e => wire'[f] = wire[f] /\ box'[f] = box[f]

LEMMA WireRead ==
  ASSUME TypeOK, NEW e \in End, wire[e] # <<>>,
         wire' = [wire EXCEPT ![e] = Tail(@)], box' = box
  PROVE  Read(e, Head(wire[e])) /\ Says(wire[e], Head(wire[e]).kind)
<1>1. wire \in [End -> Seq(Letter)] /\ box \in [End -> Seq(Letter)]
  BY DEF TypeOK
<1> QED BY <1>1, TailSays DEF Read

LEMMA BoxRead ==
  ASSUME TypeOK, NEW e \in End, box[e] # <<>>,
         box' = [box EXCEPT ![e] = Tail(@)], wire' = wire
  PROVE  Read(e, Head(box[e]))
<1>1. wire \in [End -> Seq(Letter)] /\ box \in [End -> Seq(Letter)]
  BY DEF TypeOK
<1> QED BY <1>1, TailSays DEF Read

LEMMA WireGone ==
  ASSUME TypeOK, Broken, UNCHANGED box
  PROVE  /\ up' \in BOOLEAN
         /\ wire' \in [End -> Seq(Letter)] /\ box' \in [End -> Seq(Letter)]
         /\ \A f \in End : wire'[f] = <<>>
         /\ \A f \in End : \A k : ~Says(wire'[f], k)
<1>1. <<>> \in Seq(Letter)
  OBVIOUS
<1>2. up' = FALSE /\ wire' = [f \in End |-> <<>>]
  BY DEF Broken
<1> QED BY <1>1, <1>2, NothingSaid DEF TypeOK

(***************************************************************************)
(* The initial state.                                                      *)
(***************************************************************************)

LEMMA InitInv == Init => Inv
<1> SUFFICES ASSUME Init PROVE Inv
  OBVIOUS
<1>1. TypeOK
  BY DEF Init, TypeOK, Pending, Attempt, End, Piece
<1>2. Whole
  BY NothingSaid DEF Init, Whole, Attempt, End
<1>3. Calm
  BY NothingSaid DEF Init, Calm, NotSent, Offered, Asked, FirstOnly, Quiet, Pending, Attempt, End
<1> QED BY <1>1, <1>2, <1>3 DEF Inv

(***************************************************************************)
(* The sender.                                                             *)
(***************************************************************************)

LEMMA SendFileKeeps ==
  ASSUME Inv, SendFile
  PROVE  Inv'
<1>1. Say("start", 1) \in Letter /\ Say("start", 1).kind = "start"
  BY SayTyped DEF Attempt
<1>2. Added("sender", Say("start", 1))
  BY <1>1, PutAdds DEF Inv, SendFile, End
<1>t. TypeOK'
  BY <1>1, <1>2, NothingSaid DEF Inv, TypeOK, SendFile, Pending, Attempt, End, receiver, Added, Put
<1>w. Whole'
  BY <1>1, <1>2, NothingSaid DEF Inv, TypeOK, Whole, SendFile, Attempt, End, receiver, Added, Put
<1>c. Calm'
  BY <1>1, <1>2, NothingSaid DEF Inv, TypeOK, SendFile, Calm, NotSent, Offered, Asked, FirstOnly, Quiet, Pending, Attempt, End, receiver, Added, Put
<1> QED BY <1>t, <1>w, <1>c DEF Inv

LEMMA ConsentTimeoutKeeps ==
  ASSUME Inv, NEW t \in Attempt, ConsentTimeout(t)
  PROVE  Inv'
<1>t. TypeOK'
  BY DEF Inv, TypeOK, ConsentTimeout, Pending, Attempt, End, Fails, receiver, roads
<1>w. Whole'
  BY DEF Inv, TypeOK, Whole, ConsentTimeout, Attempt, End, Fails, receiver, roads
<1>c. Calm'
  BY DEF Inv, TypeOK, ConsentTimeout, Calm, NotSent, Offered, Asked, FirstOnly, Quiet, Pending, Attempt, End, Fails, receiver, roads
<1> QED BY <1>t, <1>w, <1>c DEF Inv

LEMMA SendChunkKeeps ==
  ASSUME Inv, NEW t \in Attempt, SendChunk(t)
  PROVE  Inv'
<1>1. PICK sound \in BOOLEAN :
        /\ IF sound THEN UNCHANGED losses ELSE Lost
        /\ IF t = 1 THEN Put("sender", ChunkOf(t, next[t], sound))
           ELSE PutByRelay("sender", ChunkOf(t, next[t], sound))
  BY DEF SendChunk
<1>2. losses' \in Nat
  BY <1>1 DEF Inv, TypeOK, Lost
<1>3. phase[t] = "sending" /\ next[t] + 1 \in 0 .. Chunks
  BY DEF Inv, TypeOK, SendChunk
<1>4. PICK m \in Letter : m.kind = "chunk" /\ Added("sender", m)
  <2>1. next[t] \in Piece
    BY DEF Inv, TypeOK, SendChunk, Piece
  <2> QED BY <1>1, <2>1, ChunkTyped, PutAdds, RelayAdds DEF Inv, End
<1>t. TypeOK'
  BY <1>2, <1>3, <1>4 DEF Inv, TypeOK, SendChunk, Pending, Attempt, End, receiver, Added
<1>w. Whole'
  BY <1>2, <1>3, <1>4 DEF Inv, TypeOK, Whole, SendChunk, Attempt, End, receiver, Added
<1>5. ~Quiet
  BY <1>3 DEF Quiet, Attempt
<1>6. /\ status # "none" /\ ~Pending(1) /\ 1 \notin declined /\ FirstOnly
      /\ size # "small" => ~Says(wire["sender"], "start")
  BY <1>5 DEF Inv, Calm, NotSent, Offered, Asked
<1>7. /\ UNCHANGED <<status, size, declined, inc>>
      /\ Says(wire'["sender"], "start") => Says(wire["sender"], "start")
  BY <1>4 DEF SendChunk, receiver, Added, End
<1>c. Calm'
  BY <1>6, <1>7 DEF Calm, NotSent, Offered, Asked, FirstOnly, Pending
<1> QED BY <1>t, <1>w, <1>c DEF Inv

LEMMA StopUploadKeeps ==
  ASSUME Inv, NEW t \in Attempt, StopUpload(t)
  PROVE  Inv'
<1>t. TypeOK'
  BY DEF Inv, TypeOK, StopUpload, Pending, Attempt, End, Fails, receiver, roads
<1>w. Whole'
  BY DEF Inv, TypeOK, Whole, StopUpload, Attempt, End, Fails, receiver, roads
<1>c. Calm'
  BY DEF Inv, TypeOK, StopUpload, Calm, NotSent, Offered, Asked, FirstOnly, Quiet, Pending, Attempt, End, Fails, receiver, roads
<1> QED BY <1>t, <1>w, <1>c DEF Inv

LEMMA FinishUploadKeeps ==
  ASSUME Inv, NEW t \in Attempt, FinishUpload(t)
  PROVE  Inv'
<1>t. TypeOK'
  BY DEF Inv, TypeOK, FinishUpload, Pending, Attempt, End, receiver, roads
<1>w. Whole'
  BY DEF Inv, TypeOK, Whole, FinishUpload, Attempt, End, receiver, roads
<1>c. Calm'
  BY DEF Inv, TypeOK, FinishUpload, Calm, NotSent, Offered, Asked, FirstOnly, Quiet, Pending, Attempt, End, receiver, roads
<1> QED BY <1>t, <1>w, <1>c DEF Inv

LEMMA CancelKeeps ==
  ASSUME Inv, Cancel
  PROVE  Inv'
<1>t. TypeOK'
  BY DEF Inv, TypeOK, Cancel, Pending, Attempt, End, receiver, roads
<1>w. Whole'
  BY DEF Inv, TypeOK, Whole, Cancel, Attempt, End, receiver, roads
<1>c. Calm'
  BY DEF Inv, TypeOK, Cancel, Calm, NotSent, Offered, Asked, FirstOnly, Quiet, Pending, Attempt, End, receiver, roads
<1> QED BY <1>t, <1>w, <1>c DEF Inv

LEMMA FireWatchKeeps ==
  ASSUME Inv, FireWatch
  PROVE  Inv'
<1>1. \/ Added("sender", Say("start", 2)) /\ wire' = wire /\ Say("start", 2).kind = "start"
      \/ UNCHANGED <<wire, box>>
  BY SayTyped, RelayAdds DEF Inv, FireWatch, Attempt, End
<1>t. TypeOK'
  BY <1>1 DEF Inv, TypeOK, FireWatch, Pending, Attempt, End, receiver, Added
<1>w. Whole'
  BY <1>1 DEF Inv, TypeOK, Whole, FireWatch, Attempt, End, receiver, Added
<1>c. Calm'
  BY <1>1 DEF Inv, TypeOK, FireWatch, Calm, NotSent, Offered, Asked, FirstOnly, Quiet, Pending, Attempt, End, receiver, Added
<1> QED BY <1>t, <1>w, <1>c DEF Inv

LEMMA ResendKeeps ==
  ASSUME Inv, NEW t \in Attempt, Resend(t)
  PROVE  Inv'
<1>1. PICK i \in owed[t], sound \in BOOLEAN :
        /\ owed' = [owed EXCEPT ![t] = @ \ {i}]
        /\ IF sound THEN UNCHANGED losses ELSE Lost
        /\ Put("sender", ChunkOf(t, i, sound))
  BY DEF Resend
<1>2. losses' \in Nat
  BY <1>1 DEF Inv, TypeOK, Lost
<1>3. owed[t] # {} /\ owed' \in [Attempt -> SUBSET Piece]
  BY <1>1 DEF Inv, TypeOK
<1>4. PICK m \in Letter : m.kind = "chunk" /\ Added("sender", m)
  <2>1. i \in Piece
    BY DEF Inv, TypeOK
  <2> QED BY <1>1, <2>1, ChunkTyped, PutAdds DEF Inv, End
<1>t. TypeOK'
  BY <1>2, <1>3, <1>4 DEF Inv, TypeOK, Resend, Pending, Attempt, End, receiver, Added
<1>w. Whole'
  BY <1>2, <1>3, <1>4 DEF Inv, TypeOK, Whole, Resend, Attempt, End, receiver, Added
<1>c. Calm'
  BY <1>2, <1>3, <1>4 DEF Inv, TypeOK, Resend, Calm, NotSent, Offered, Asked, FirstOnly, Quiet, Pending, Attempt, End, receiver, Added
<1> QED BY <1>t, <1>w, <1>c DEF Inv

LEMMA ForgetKeeps ==
  ASSUME Inv, NEW t \in Attempt, Forget(t)
  PROVE  Inv'
<1>t. TypeOK'
  BY DEF Inv, TypeOK, Forget, Pending, Attempt, End, receiver, roads
<1>w. Whole'
  BY DEF Inv, TypeOK, Whole, Forget, Attempt, End, receiver, roads
<1>c. Calm'
  BY DEF Inv, TypeOK, Forget, Calm, NotSent, Offered, Asked, FirstOnly, Quiet, Pending, Attempt, End, receiver, roads
<1> QED BY <1>t, <1>w, <1>c DEF Inv

LEMMA SenderHearsKeeps ==
  ASSUME Inv, SenderHears
  PROVE  Inv'
<1>1. PICK m : Read("receiver", m) /\ (HearAccept(m) \/ HearDecline(m) \/ HearAsk(m) \/ HearReceipt(m))
  BY WireRead, BoxRead DEF Inv, SenderHears, End
<1>2. /\ wire'["sender"] = wire["sender"] /\ box'["sender"] = box["sender"]
      /\ m.t \in Attempt /\ m.want \in SUBSET Piece
  BY <1>1 DEF Read, End, Letter
<1>3. UNCHANGED <<size, receipts, inc, acks, kept, declined, gaveUp, up, open, losses, reloads>>
  BY DEF SenderHears, receiver
<1>4. m.kind \in {"accept", "ask"} => ~Quiet
  BY <1>1 DEF Read, Quiet
<1>5. wire' \in [End -> Seq(Letter)] /\ box' \in [End -> Seq(Letter)]
  BY <1>1 DEF Read
<1>t. TypeOK'
  <2>1. CASE HearAccept(m)
    BY <1>2, <1>3, <1>5, <2>1 DEF Inv, TypeOK, Pending, HearAccept
  <2>2. CASE HearDecline(m)
    <3>1. CASE phase[m.t] = "asking"
      BY <1>2, <1>3, <1>5, <2>2, <3>1 DEF Inv, TypeOK, Pending, HearDecline, Fails
    <3>2. CASE phase[m.t] # "asking"
      <4>1. UNCHANGED <<status, phase, next, watch, owed>>
        BY <2>2, <3>2 DEF HearDecline
      <4>2. out' \in [Attempt -> {"none", "held", "cancelled"}]
        <5>1. out' = [out EXCEPT ![m.t] = IF out[m.t] = "held" THEN "cancelled" ELSE out[m.t]]
          BY <2>2, <3>2 DEF HearDecline
        <5>2. out \in [Attempt -> {"none", "held", "cancelled"}]
          BY DEF Inv, TypeOK
        <5>3. (IF out[m.t] = "held" THEN "cancelled" ELSE out[m.t]) \in {"none", "held", "cancelled"}
          BY <1>2, <5>2
        <5> QED BY <5>1, <5>2, <5>3
      <4> QED BY <1>3, <1>5, <4>1, <4>2 DEF Inv, TypeOK, Pending
    <3> QED BY <3>1, <3>2
  <2>3. CASE HearAsk(m)
    BY <1>2, <1>3, <1>5, <2>3 DEF Inv, TypeOK, Pending, HearAsk
  <2>4. CASE HearReceipt(m)
    BY <1>2, <1>3, <1>5, <2>4 DEF Inv, TypeOK, Pending, HearReceipt
  <2> QED BY <1>1, <2>1, <2>2, <2>3, <2>4
<1>w. Whole'
  BY <1>1, <1>3 DEF Inv, TypeOK, Whole, Read, End, HearAccept, HearDecline, HearAsk, HearReceipt, Fails
<1>c. Calm'
  <2>1. CASE HearAccept(m)
    BY <1>1, <1>2, <1>3, <1>4, <2>1 DEF Inv, HearAccept, Read, Calm, NotSent, Offered, Asked, FirstOnly, Quiet, Pending, Attempt, End
  <2>2. CASE HearDecline(m)
    BY <1>1, <1>2, <1>3, <2>2 DEF Inv, TypeOK, HearDecline, Fails, Read, Calm, NotSent, Offered, Asked, FirstOnly, Quiet, Pending, Attempt, End
  <2>3. CASE HearAsk(m)
    BY <1>1, <1>2, <1>3, <1>4, <2>3 DEF Inv, HearAsk, Read, Calm, NotSent, Offered, Asked, FirstOnly, Quiet, Pending, Attempt, End
  <2>4. CASE HearReceipt(m)
    BY <1>1, <1>2, <1>3, <2>4 DEF Inv, HearReceipt, Read, Calm, NotSent, Offered, Asked, FirstOnly, Quiet, Pending, Attempt, End
  <2> QED BY <1>1, <2>1, <2>2, <2>3, <2>4
<1> QED BY <1>t, <1>w, <1>c DEF Inv

(***************************************************************************)
(* The receiver.                                                           *)
(***************************************************************************)

LEMMA SendReceiptKeeps ==
  ASSUME Inv, NEW t \in Attempt, SendReceipt(t)
  PROVE  Inv'
<1>1. Added("receiver", Say("receipt", t)) /\ Say("receipt", t).kind = "receipt"
  BY SayTyped, PutAdds DEF Inv, SendReceipt, End
<1>t. TypeOK'
  BY <1>1 DEF Inv, TypeOK, SendReceipt, Pending, Attempt, End, sender, Added
<1>w. Whole'
  BY <1>1 DEF Inv, TypeOK, Whole, SendReceipt, Attempt, End, sender, Added
<1>c. Calm'
  BY <1>1 DEF Inv, TypeOK, SendReceipt, Calm, NotSent, Offered, Asked, FirstOnly, Quiet, Pending, Attempt, End, sender, Added
<1> QED BY <1>t, <1>w, <1>c DEF Inv

LEMMA RecordIsNone == NoRecord \notin Record
BY DEF NoRecord, Record

LEMMA GrantedTyped ==
  ASSUME NEW r \in Record
  PROVE  /\ Granted(r) \in Record /\ Granted(r).consent = "granted"
         /\ Granted(r).seen = r.seen /\ Granted(r).data = r.data
BY DEF Granted, Record

LEMMA AskedAgain ==
  ASSUME NEW r \in Record
  PROVE  LET a == [r EXCEPT !.asks = r.asks + 1]
         IN  a \in Record /\ a.consent = r.consent /\ a.seen = r.seen /\ a.data = r.data
BY DEF Record

LEMMA AnswerAdds ==
  ASSUME TypeOK, NEW t \in Attempt, NEW kind \in {"accept", "decline"}, Answer(kind, t)
  PROVE  \/ Added("receiver", Say(kind, t)) /\ Say(kind, t).kind = kind
         \/ UNCHANGED <<wire, box>>
BY SayTyped, PutAdds DEF Answer, End

LEMMA AcceptFileKeeps ==
  ASSUME Inv, NEW t \in Attempt, AcceptFile(t)
  PROVE  Inv'
<1>1. \/ Added("receiver", Say("accept", t)) /\ Say("accept", t).kind = "accept"
      \/ UNCHANGED <<wire, box>>
  BY AnswerAdds DEF Inv, AcceptFile
<1>2. inc[t] # NoRecord /\ inc[t] \in Record /\ inc' = [inc EXCEPT ![t] = Granted(inc[t])]
  BY DEF Inv, TypeOK, AcceptFile, Pending
<1>3. /\ Granted(inc[t]) \in Record /\ Granted(inc[t]).consent = "granted"
      /\ Granted(inc[t]).seen = inc[t].seen /\ Granted(inc[t]).data = inc[t].data
  BY <1>2, GrantedTyped
<1>4. Granted(inc[t]) # NoRecord
  BY <1>3, RecordIsNone
<1>5. /\ inc' \in [Attempt -> Record \cup {NoRecord}]
      /\ \A u \in Attempt : Pending(u)' => inc'[u].seen = {} /\ ~inc'[u].timer
      /\ \A u \in Attempt : inc'[u] # NoRecord => inc'[u].data = inc'[u].seen
  BY <1>2, <1>3, <1>4 DEF Inv, TypeOK, Whole, Pending
<1>t. TypeOK'
  BY <1>1, <1>5 DEF Inv, TypeOK, AcceptFile, Attempt, End, sender, Added
<1>w. Whole'
  BY <1>1, <1>5 DEF Inv, Whole, AcceptFile, End, sender, Added
<1>c. Calm'
  BY <1>1, <1>2, <1>3, <1>4 DEF Inv, TypeOK, AcceptFile, Calm, NotSent, Offered, Asked, FirstOnly, Quiet, Pending, Attempt, End, sender, Added
<1> QED BY <1>t, <1>w, <1>c DEF Inv

LEMMA DeclineFileKeeps ==
  ASSUME Inv, NEW t \in Attempt, DeclineFile(t)
  PROVE  Inv'
<1>1. \/ Added("receiver", Say("decline", t)) /\ Say("decline", t).kind = "decline"
      \/ UNCHANGED <<wire, box>>
  BY AnswerAdds DEF Inv, DeclineFile
<1>t. TypeOK'
  BY <1>1 DEF Inv, TypeOK, DeclineFile, Pending, Attempt, End, sender, Added
<1>w. Whole'
  BY <1>1 DEF Inv, TypeOK, Whole, DeclineFile, Attempt, End, sender, Added
<1>c. Calm'
  BY <1>1 DEF Inv, TypeOK, DeclineFile, Calm, NotSent, Offered, Asked, FirstOnly, Quiet, Pending, Attempt, End, sender, Added
<1> QED BY <1>t, <1>w, <1>c DEF Inv

LEMMA QuestionLapsesKeeps ==
  ASSUME Inv, NEW t \in Attempt, QuestionLapses(t)
  PROVE  Inv'
<1>t. TypeOK'
  BY DEF Inv, TypeOK, QuestionLapses, Pending, Attempt, End, sender, roads
<1>w. Whole'
  BY DEF Inv, TypeOK, Whole, QuestionLapses, Attempt, End, sender, roads
<1>c. Calm'
  BY DEF Inv, TypeOK, QuestionLapses, Calm, NotSent, Offered, Asked, FirstOnly, Quiet, Pending, Attempt, End, sender, roads
<1> QED BY <1>t, <1>w, <1>c DEF Inv

LEMMA StalledKeeps ==
  ASSUME Inv, NEW t \in Attempt, Stalled(t)
  PROVE  Inv'
<1>1. \/ \E m \in Letter : m.kind = "ask" /\ Added("receiver", m)
      \/ UNCHANGED <<wire, box>>
  BY AskTyped, PutAdds DEF Inv, Stalled, End
<1>2. inc[t] # NoRecord /\ inc[t] \in Record /\ ~Pending(t) /\ inc[t].consent # "pending"
  BY DEF Inv, TypeOK, Stalled, Silent, Pending
<1>3. PICK r \in Record \cup {NoRecord} :
        /\ inc' = [inc EXCEPT ![t] = r]
        /\ r # NoRecord => r.consent # "pending" /\ r.seen = inc[t].seen /\ r.data = inc[t].data
  <2>1. CASE GivesUp(inc[t])
    BY <2>1 DEF Stalled
  <2>2. CASE ~GivesUp(inc[t])
    <3>1. inc' = [inc EXCEPT ![t] = [inc[t] EXCEPT !.asks = inc[t].asks + 1]]
      BY <2>2 DEF Stalled
    <3> QED BY <1>2, <3>1, AskedAgain
  <2> QED BY <2>1, <2>2
<1>4. /\ inc' \in [Attempt -> Record \cup {NoRecord}]
      /\ \A u \in Attempt : Pending(u)' => inc'[u].seen = {} /\ ~inc'[u].timer
      /\ \A u \in Attempt : inc'[u] # NoRecord => inc'[u].data = inc'[u].seen
  BY <1>2, <1>3 DEF Inv, TypeOK, Whole, Pending
<1>5. gaveUp' \in SUBSET Attempt
  BY DEF Inv, TypeOK, Stalled
<1>t. TypeOK'
  BY <1>1, <1>4, <1>5 DEF Inv, TypeOK, Stalled, Attempt, End, sender, Added
<1>w. Whole'
  BY <1>1, <1>4 DEF Inv, Whole, Stalled, End, sender, Added
<1>c. Calm'
  BY <1>1, <1>2, <1>3 DEF Inv, TypeOK, Stalled, Calm, NotSent, Offered, Asked, FirstOnly, Quiet, Pending, Attempt, End, sender, Added
<1> QED BY <1>t, <1>w, <1>c DEF Inv

LEMMA OpenedTyped ==
  /\ Opened("auto") \in Record /\ Opened("auto").consent = "auto"
  /\ Opened("pending") \in Record /\ ~Opened("pending").timer /\ Opened("pending").seen = {}
  /\ \A c \in {"auto", "pending"} : Opened(c).data = Opened(c).seen
BY DEF Opened, Record, Piece

LEMMA TakenTyped ==
  ASSUME NEW r \in Record, NEW m \in Letter
  PROVE  /\ Taken(r, m) \in Record /\ Taken(r, m).consent = r.consent
         /\ r.data = r.seen => Taken(r, m).data = Taken(r, m).seen
<1>1. m.piece \in Piece
  BY DEF Letter
<1>2. CASE m.sound
  BY <1>1, <1>2 DEF Taken, Record
<1>3. CASE ~m.sound
  BY <1>3 DEF Taken, Record
<1> QED BY <1>2, <1>3

\* Nothing but the offer can be read while it is under way, and nothing at all
\* while it is being asked about.
LEMMA HeardLoud ==
  ASSUME Inv, NEW m, Read("sender", m)
  PROVE  /\ status # "none" /\ ~Pending(1) /\ ~Pending(2) /\ declined = {}
         /\ m.kind # "start" /\ size # "small" => ~Says(wire["sender"], "start")
<1>1. wire["sender"] # <<>> \/ box["sender"] # <<>>
  BY NothingSaid DEF Read
<1>2. status # "none" /\ ~Pending(1) /\ 1 \notin declined
  BY <1>1 DEF Inv, Calm, NotSent, Asked, Quiet
<1>3. declined = {}
  BY <1>2 DEF Inv, TypeOK, Calm, FirstOnly, Attempt
<1>4. ASSUME m.kind # "start", size # "small", Says(wire["sender"], "start")
      PROVE  FALSE
  <2>1. wire["sender"] = <<Say("start", 1)>> /\ box["sender"] = <<>>
    BY <1>4 DEF Inv, Calm, Offered, Quiet
  <2>2. \A k : Says(wire["sender"], k) => k = "start"
    BY <2>1, SayTyped DEF Says, Attempt
  <2> QED BY <1>4, <2>1, <2>2, NothingSaid DEF Read
<1> QED BY <1>2, <1>3, <1>4 DEF Inv, Calm, FirstOnly

LEMMA HearChunkKeeps ==
  ASSUME Inv, NEW m, Read("sender", m), HearChunk(m),
         UNCHANGED <<size, receipts, sender, declined, gaveUp, up, open, reloads>>
  PROVE  Inv'
<1>1. m \in Letter /\ m.t \in Attempt
  BY DEF Read, Letter
<1>2. \A t \in Attempt : ~Pending(t)
  BY HeardLoud DEF Attempt
<1>3. inc[m.t] # NoRecord => inc[m.t] \in Record
  BY <1>1 DEF Inv, TypeOK
<1>4. /\ inc' \in [Attempt -> Record \cup {NoRecord}]
      /\ \A t \in Attempt : ~Pending(t)'
      /\ kept' \in SUBSET Piece /\ acks' \in SUBSET Attempt /\ losses' = losses
      /\ \A t \in Attempt : inc'[t] # NoRecord => inc'[t].data = inc'[t].seen
      /\ kept' = Piece \/ (kept' = kept /\ acks' = acks)
  <2>1. CASE inc[m.t] = NoRecord
    BY <1>2, <2>1 DEF HearChunk, Inv, TypeOK, Whole, Pending
  <2>2. CASE inc[m.t] # NoRecord
    <3> DEFINE r == Taken(inc[m.t], m)
    <3>1. /\ r \in Record /\ r.consent = inc[m.t].consent /\ r.data = r.seen
          /\ r.seen \in SUBSET Piece /\ inc[m.t].consent # "pending"
      BY <1>1, <1>2, <1>3, <2>2, TakenTyped DEF Inv, Whole, Pending, Record
    <3> HIDE DEF r
    <3>2. CASE r.seen # Piece
      <4>1. inc' = [inc EXCEPT ![m.t] = r] /\ UNCHANGED <<acks, kept, losses>>
        BY <2>2, <3>2 DEF HearChunk, r
      <4> QED BY <1>1, <1>2, <3>1, <4>1 DEF Inv, TypeOK, Whole, Pending
    <3>3. CASE r.seen = Piece
      <4>1. /\ inc' = [inc EXCEPT ![m.t] = NoRecord] /\ kept' = r.data /\ losses' = losses
            /\ acks' = IF receipts THEN acks \cup {m.t} ELSE acks
        BY <2>2, <3>3 DEF HearChunk, r
      <4>2. kept' = Piece /\ losses' = losses
        BY <3>1, <3>3, <4>1
      <4>3. acks' \in SUBSET Attempt
        BY <1>1, <4>1 DEF Inv, TypeOK
      <4>4. /\ inc' \in [Attempt -> Record \cup {NoRecord}]
            /\ \A t \in Attempt : ~Pending(t)'
            /\ \A t \in Attempt : inc'[t] # NoRecord => inc'[t].data = inc'[t].seen
        BY <1>1, <1>2, <4>1 DEF Inv, TypeOK, Whole, Pending
      <4> QED BY <4>2, <4>3, <4>4 DEF Pending
    <3> QED BY <3>2, <3>3
  <2> QED BY <2>1, <2>2
<1>t. TypeOK'
  BY <1>4 DEF Inv, TypeOK, Read, sender
<1>w. Whole'
  BY <1>4 DEF Inv, TypeOK, Whole, Read, sender, End
<1>5. m.kind # "start"
  BY DEF HearChunk
<1>6. size # "small" => ~Says(wire'["sender"], "start")
  BY <1>5, HeardLoud DEF Read, End
<1>c. Calm'
  BY <1>4, <1>6, HeardLoud DEF Calm, NotSent, Offered, Asked, FirstOnly, sender, Attempt
<1> QED BY <1>t, <1>w, <1>c DEF Inv

LEMMA HearLiveStartKeeps ==
  ASSUME Inv, wire["sender"] # <<>>, wire' = [wire EXCEPT !["sender"] = Tail(@)], box' = box,
         NEW m, m = Head(wire["sender"]), HearLiveStart(m),
         UNCHANGED <<size, receipts, sender, declined, gaveUp, up, open, reloads>>
  PROVE  Inv'
<1>1. Read("sender", m) /\ Says(wire["sender"], "start")
  BY WireRead DEF Inv, End, HearLiveStart
<1>2. m \in Letter /\ m.t \in Attempt
  BY <1>1 DEF Read, Letter
<1>3. /\ \/ inc' = inc
         \/ inc' = [inc EXCEPT ![m.t] = Opened("auto")]
         \/ (size # "small" /\ inc' = [inc EXCEPT ![m.t] = Opened("pending")])
      /\ acks' = acks /\ kept' = kept /\ losses' \in Nat
  <2>1. acks' = acks /\ kept' = kept
    BY DEF HearLiveStart
  <2>2. losses' = losses \/ Lost
    BY DEF HearLiveStart
  <2>3. losses' \in Nat
    BY <2>2 DEF Lost, Inv, TypeOK
  <2>4. \/ inc' = inc
        \/ inc' = [inc EXCEPT ![m.t] = Opened(IF size = "small" THEN "auto" ELSE "pending")]
        \/ inc' = [inc EXCEPT ![m.t] = Opened("auto")]
    BY DEF HearLiveStart
  <2>5. size = "small" => inc' = inc \/ inc' = [inc EXCEPT ![m.t] = Opened("auto")]
    BY <2>4
  <2>6. size # "small" => \/ inc' = inc \/ inc' = [inc EXCEPT ![m.t] = Opened("pending")]
                          \/ inc' = [inc EXCEPT ![m.t] = Opened("auto")]
    BY <2>4
  <2> QED BY <2>1, <2>3, <2>5, <2>6
<1>4. \A t \in Attempt : ~Pending(t)
  BY <1>1, HeardLoud DEF Attempt
<1>7. /\ Opened("auto").data = Opened("auto").seen
      /\ Opened("pending").data = Opened("pending").seen
  BY OpenedTyped
<1>8. inc' \in [Attempt -> Record \cup {NoRecord}]
  BY <1>2, <1>3, OpenedTyped DEF Inv, TypeOK
<1>9. \A t \in Attempt : Pending(t)' => inc'[t] = Opened("pending")
  <2>1. CASE inc' = inc
    BY <1>4, <2>1 DEF Pending
  <2>2. CASE inc' = [inc EXCEPT ![m.t] = Opened("auto")]
    BY <1>2, <1>4, <2>2, OpenedTyped DEF Inv, TypeOK, Pending
  <2>3. CASE inc' = [inc EXCEPT ![m.t] = Opened("pending")]
    BY <1>2, <1>4, <2>3 DEF Inv, TypeOK, Pending
  <2> QED BY <1>3, <2>1, <2>2, <2>3
<1>t. TypeOK'
  <2>1. \A t \in Attempt : Pending(t)' => inc'[t].seen = {} /\ ~inc'[t].timer
    BY <1>9, OpenedTyped
  <2> QED BY <1>1, <1>3, <1>8, <2>1 DEF Inv, TypeOK, Read, sender
<1>w. Whole'
  <2>1. \A t \in Attempt : inc'[t] # NoRecord => inc'[t].data = inc'[t].seen
    <3>1. CASE inc' = inc
      BY <3>1 DEF Inv, Whole
    <3>2. CASE inc' = [inc EXCEPT ![m.t] = Opened("auto")]
      BY <1>2, <1>7, <3>2 DEF Inv, TypeOK, Whole
    <3>3. CASE inc' = [inc EXCEPT ![m.t] = Opened("pending")]
      BY <1>2, <1>7, <3>3 DEF Inv, TypeOK, Whole
    <3> QED BY <1>3, <3>1, <3>2, <3>3
  <2> QED BY <1>1, <1>3, <2>1 DEF Inv, Whole, Read, sender, End
<1>5. CASE size = "small"
  <2>1. \A t \in Attempt : ~Pending(t)'
    BY <1>2, <1>3, <1>4, <1>5, OpenedTyped DEF Inv, TypeOK, Pending
  <2> QED
    <3>1. Calm'
      BY <1>1, <1>5, <2>1, HeardLoud DEF Calm, NotSent, Offered, Asked, FirstOnly, sender, Attempt
    <3> QED BY <1>t, <1>w, <3>1 DEF Inv
<1>6. CASE size # "small"
  <2>1. wire["sender"] = <<Say("start", 1)>> /\ Quiet
    BY <1>1, <1>6 DEF Inv, Calm, Offered
  <2>2. m = Say("start", 1) /\ m.t = 1 /\ Tail(wire["sender"]) = <<>>
    BY <2>1, SayTyped DEF Attempt
  <2>3. wire'["sender"] = <<>> /\ wire'["receiver"] = wire["receiver"]
    BY <2>2 DEF Inv, TypeOK, End
  <2>4. inc'[2] = NoRecord
    BY <1>3, <2>1, <2>2 DEF Inv, TypeOK, Quiet, Attempt
  <2>5. Quiet'
    BY <1>3, <2>1, <2>3, <2>4 DEF Quiet, sender
  <2>6. Calm'
    BY <1>1, <2>3, <2>4, <2>5, HeardLoud, NothingSaid
       DEF Calm, NotSent, Offered, Asked, FirstOnly, Pending, sender
  <2> QED BY <1>t, <1>w, <2>6 DEF Inv
<1> QED BY <1>5, <1>6

LEMMA HearRelayStartKeeps ==
  ASSUME Inv, box["sender"] # <<>>, wire' = wire,
         NEW m, Read("sender", m), HearRelayStart(m),
         UNCHANGED <<size, receipts, sender, declined, gaveUp, up, open, reloads>>
  PROVE  Inv'
<1>1. m \in Letter /\ m.t \in Attempt
  BY DEF Read, Letter
<1>2. inc' = inc \/ inc' = [inc EXCEPT ![m.t] = Opened("auto")]
  BY DEF HearRelayStart
<1>3. UNCHANGED <<acks, kept, losses>>
  BY DEF HearRelayStart
<1>4. \A t \in Attempt : ~Pending(t)
  BY HeardLoud DEF Attempt
<1>5. \A t \in Attempt : ~Pending(t)'
  BY <1>1, <1>2, <1>4, OpenedTyped DEF Inv, TypeOK, Pending
<1>6. /\ inc' \in [Attempt -> Record \cup {NoRecord}]
      /\ \A u \in Attempt : inc'[u] # NoRecord => inc'[u].data = inc'[u].seen
  <2>1. CASE inc' = inc
    BY <2>1 DEF Inv, TypeOK, Whole
  <2>2. CASE inc' = [inc EXCEPT ![m.t] = Opened("auto")]
    <3>1. PICK r \in Record : r = Opened("auto") /\ r.data = r.seen
      BY OpenedTyped
    <3>2. inc \in [Attempt -> Record \cup {NoRecord}] /\ inc' = [inc EXCEPT ![m.t] = r]
      BY <2>2, <3>1 DEF Inv, TypeOK
    <3>3. \A u \in Attempt : inc[u] # NoRecord => inc[u].data = inc[u].seen
      BY DEF Inv, Whole
    <3> QED BY <1>1, <3>1, <3>2, <3>3
  <2> QED BY <1>2, <2>1, <2>2
<1>t. TypeOK'
  BY <1>3, <1>5, <1>6 DEF Inv, TypeOK, Read, sender
<1>w. Whole'
  BY <1>3, <1>6 DEF Inv, Whole, Read, sender, End
<1>7. size # "small" => ~Says(wire["sender"], "start")
  BY DEF Inv, Calm, Offered, Quiet
<1>c. Calm'
  BY <1>5, <1>7, HeardLoud DEF Calm, NotSent, Offered, Asked, FirstOnly, sender, Attempt
<1> QED BY <1>t, <1>w, <1>c DEF Inv

LEMMA ReceiverHearsKeeps ==
  ASSUME Inv, ReceiverHears
  PROVE  Inv'
<1>1. UNCHANGED <<size, receipts, sender, declined, gaveUp, up, open, reloads>>
  BY DEF ReceiverHears
<1>2. CASE wire["sender"] # <<>> /\ wire' = [wire EXCEPT !["sender"] = Tail(@)] /\ box' = box
           /\ (HearLiveStart(Head(wire["sender"])) \/ HearChunk(Head(wire["sender"])))
  <2>1. Read("sender", Head(wire["sender"]))
    BY <1>2, WireRead DEF Inv, End
  <2> QED BY <1>1, <1>2, <2>1, HearLiveStartKeeps, HearChunkKeeps
<1>3. CASE box["sender"] # <<>> /\ box' = [box EXCEPT !["sender"] = Tail(@)] /\ wire' = wire
           /\ (HearRelayStart(Head(box["sender"])) \/ HearChunk(Head(box["sender"])))
  <2>1. Read("sender", Head(box["sender"]))
    BY <1>3, BoxRead DEF Inv, End
  <2> QED BY <1>1, <1>3, <2>1, HearRelayStartKeeps, HearChunkKeeps
<1> QED BY <1>2, <1>3 DEF ReceiverHears

(***************************************************************************)
(* The channel, and reloads.                                               *)
(***************************************************************************)

LEMMA ChannelBreaksKeeps ==
  ASSUME Inv, ChannelBreaks
  PROVE  Inv'
<1>1. /\ up' \in BOOLEAN
      /\ wire' \in [End -> Seq(Letter)] /\ box' \in [End -> Seq(Letter)]
      /\ \A f \in End : wire'[f] = <<>>
      /\ \A f \in End : \A k : ~Says(wire'[f], k)
  BY WireGone DEF Inv, ChannelBreaks
<1>2. box' = box /\ losses' \in Nat /\ reloads' \in Nat
  BY DEF Inv, TypeOK, Lost, Reloads, ChannelBreaks
<1>t. TypeOK'
  BY <1>1, <1>2 DEF Inv, TypeOK, ChannelBreaks, Pending, Attempt, End, sender, receiver
<1>w. Whole'
  BY <1>1, <1>2 DEF Inv, TypeOK, Whole, ChannelBreaks, Attempt, End, sender, receiver
<1>c. Calm'
  BY <1>1, <1>2 DEF Inv, TypeOK, ChannelBreaks, Calm, NotSent, Offered, Asked, FirstOnly, Quiet, Pending, Attempt, End, sender, receiver
<1> QED BY <1>t, <1>w, <1>c DEF Inv

LEMMA NoticesKeeps ==
  ASSUME Inv, NEW e \in End, Notices(e)
  PROVE  Inv'
<1>t. TypeOK'
  BY DEF Inv, TypeOK, Notices, Pending, Attempt, End, sender, receiver
<1>w. Whole'
  BY DEF Inv, TypeOK, Whole, Notices, Attempt, End, sender, receiver
<1>c. Calm'
  BY DEF Inv, TypeOK, Notices, Calm, NotSent, Offered, Asked, FirstOnly, Quiet, Pending, Attempt, End, sender, receiver
<1> QED BY <1>t, <1>w, <1>c DEF Inv

LEMMA SenderReloadsKeeps ==
  ASSUME Inv, SenderReloads
  PROVE  Inv'
<1>1. /\ up' \in BOOLEAN
      /\ wire' \in [End -> Seq(Letter)] /\ box' \in [End -> Seq(Letter)]
      /\ \A f \in End : wire'[f] = <<>>
      /\ \A f \in End : \A k : ~Says(wire'[f], k)
  BY WireGone DEF Inv, SenderReloads
<1>2. box' = box /\ losses' \in Nat /\ reloads' \in Nat
  BY DEF Inv, TypeOK, Lost, Reloads, SenderReloads
<1>t. TypeOK'
  BY <1>1, <1>2 DEF Inv, TypeOK, SenderReloads, Pending, Attempt, End, receiver
<1>w. Whole'
  BY <1>1, <1>2 DEF Inv, TypeOK, Whole, SenderReloads, Attempt, End, receiver
<1>c. Calm'
  BY <1>1, <1>2 DEF Inv, TypeOK, SenderReloads, Calm, NotSent, Offered, Asked, FirstOnly, Quiet, Pending, Attempt, End, receiver
<1> QED BY <1>t, <1>w, <1>c DEF Inv

LEMMA ReceiverReloadsKeeps ==
  ASSUME Inv, ReceiverReloads
  PROVE  Inv'
<1>1. /\ up' \in BOOLEAN
      /\ wire' \in [End -> Seq(Letter)] /\ box' \in [End -> Seq(Letter)]
      /\ \A f \in End : wire'[f] = <<>>
      /\ \A f \in End : \A k : ~Says(wire'[f], k)
  BY WireGone DEF Inv, ReceiverReloads
<1>2. box' = box /\ losses' \in Nat /\ reloads' \in Nat
  BY DEF Inv, TypeOK, Lost, Reloads, ReceiverReloads
<1>t. TypeOK'
  BY <1>1, <1>2 DEF Inv, TypeOK, ReceiverReloads, Pending, Attempt, End, sender
<1>w. Whole'
  BY <1>1, <1>2 DEF Inv, TypeOK, Whole, ReceiverReloads, Attempt, End, sender
<1>c. Calm'
  BY <1>1, <1>2 DEF Inv, TypeOK, ReceiverReloads, Calm, NotSent, Offered, Asked, FirstOnly, Quiet, Pending, Attempt, End, sender
<1> QED BY <1>t, <1>w, <1>c DEF Inv

(***************************************************************************)
(* The theorems.                                                           *)
(***************************************************************************)

LEMMA StutterKeeps ==
  ASSUME Inv, UNCHANGED vars
  PROVE  Inv'
BY DEF Inv, TypeOK, Whole, Calm, NotSent, Offered, Asked, FirstOnly, Quiet, Pending,
       vars, sender, receiver, roads

LEMMA NextInv == Inv /\ [Next]_vars => Inv'
<1> SUFFICES ASSUME Inv, [Next]_vars PROVE Inv'
  OBVIOUS
<1>1. CASE SendFile \/ Cancel \/ FireWatch \/ SenderHears \/ ReceiverHears
  BY <1>1, SendFileKeeps, CancelKeeps, FireWatchKeeps, SenderHearsKeeps, ReceiverHearsKeeps
<1>2. ASSUME NEW t \in Attempt, Sends(t) \/ StopUpload(t) \/ Resend(t) \/ Forget(t)
      PROVE  Inv'
  BY <1>2, SendChunkKeeps, FinishUploadKeeps, StopUploadKeeps, ResendKeeps, ForgetKeeps DEF Sends
<1>3. ASSUME NEW t \in Attempt, SendReceipt(t) \/ AcceptFile(t) \/ DeclineFile(t) \/ Clocks(t)
      PROVE  Inv'
  BY <1>3, SendReceiptKeeps, AcceptFileKeeps, DeclineFileKeeps, ConsentTimeoutKeeps,
     QuestionLapsesKeeps, StalledKeeps DEF Clocks
<1>4. CASE ChannelBreaks \/ (\E e \in End : Notices(e)) \/ SenderReloads \/ ReceiverReloads
  BY <1>4, ChannelBreaksKeeps, NoticesKeeps, SenderReloadsKeeps, ReceiverReloadsKeeps
<1>5. CASE UNCHANGED vars
  BY <1>5, StutterKeeps
<1> QED BY <1>1, <1>2, <1>3, <1>4, <1>5 DEF Next

LEMMA Invariance == Spec => []Inv
<1> QED BY InitInv, NextInv, PTL DEF Spec

(* The entry, the uploads, the transfers received and what is under way are *)
(* always of their types, and no clock runs while the user is asked.       *)
THEOREM TypeCorrect == Spec => []TypeOK
<1>1. Inv => TypeOK
  BY DEF Inv
<1> QED BY <1>1, Invariance, PTL

(* Whatever is lost, repeated or sent twice, what the receiver keeps is the *)
(* whole file, and only such a file is shown to the sender as delivered.   *)
THEOREM WholeOrNothing == Spec => []DeliveredIsWhole
<1>1. Inv => DeliveredIsWhole
  BY DEF Inv, Whole, DeliveredIsWhole
<1> QED BY <1>1, Invariance, PTL

(* No chunk moves by either road before the receiver said yes, and nothing *)
(* refused is ever kept.                                                   *)
THEOREM ConsentIsAsked == Spec => []ConsentFirst
<1>1. ASSUME Inv PROVE ConsentFirst
  <2>1. ASSUME Pending(1) \/ 1 \in declined
        PROVE  wire["sender"] = <<>> /\ box["sender"] = <<>> /\ kept = {}
    BY <1>1, <2>1 DEF Inv, Calm, Asked, Quiet
  <2>2. ~Pending(2) /\ declined \subseteq {1}
    BY <1>1 DEF Inv, TypeOK, Calm, FirstOnly, Attempt
  <2>3. \A t \in Attempt : Pending(t) \/ t \in declined => t = 1
    BY <2>2 DEF Attempt
  <2>4. DOMAIN <<>> = {}
    OBVIOUS
  <2>5. ASSUME NEW t \in Attempt, Pending(t) \/ t \in declined
        PROVE  wire["sender"] = <<>> /\ box["sender"] = <<>>
    BY <2>1, <2>3, <2>5
  <2>6. declined # {} => kept = {}
    BY <2>1, <2>2
  <2> QED BY <2>4, <2>5, <2>6 DEF ConsentFirst
<1> QED BY <1>1, Invariance, PTL

(***************************************************************************)
(* Why a transfer is given up.  Every request for missing chunks is paid   *)
(* for by something lost since the one before it: until then whatever is   *)
(* missing is still due.                                                   *)
(***************************************************************************)

Of(q, t) == \E n \in DOMAIN q : q[n].t = t
Tells(q, kind, t) == \E n \in DOMAIN q : q[n].kind = kind /\ q[n].t = t
SentOn(q, t, i) == \E n \in DOMAIN q :
    q[n].kind = "chunk" /\ q[n].t = t /\ q[n].sound /\ q[n].piece = i
AskedOn(q, t, i) == \E n \in DOMAIN q :
    q[n].kind = "ask" /\ q[n].t = t /\ i \in q[n].want

\* Nothing of t is ahead of its start in q.
StartFirst(q, t) == \A n \in DOMAIN q : q[n].kind = "start" /\ q[n].t = t =>
    \A k \in 1 .. n - 1 : q[k].t # t

Starting(t) == Tells(wire["sender"], "start", t) \/ Tells(box["sender"], "start", t)

\* The channel is taken for open as long as it is, and carries nothing after.
Channel ==
    /\ up => \A e \in End : open[e]
    /\ ~up => \A e \in End : wire[e] = <<>>

Untouched(t) ==
    /\ out[t] = "none" /\ next[t] = 0 /\ owed[t] = {}
    /\ inc[t] = NoRecord /\ t \notin acks /\ t \notin gaveUp
    /\ \A e \in End : ~Of(wire[e], t) /\ ~Of(box[e], t)

\* An attempt leaves no trace before it begins; the second begins with the
\* watch on the first, which is through by then.
Begun ==
    /\ \A t \in Attempt : phase[t] = "idle" => Untouched(t)
    /\ status = "none" => phase[1] = "idle"
    /\ watch # "fired" => phase[2] = "idle"
    /\ watch # "off" => phase[1] = "done"
    /\ phase[2] # "asking" /\ (size = "small" => phase[1] # "asking")

\* A start under way is the first of its transfer, on the one road the chunks
\* behind it take, and nothing was heard of it yet.
Fresh ==
    /\ \A t \in Attempt : StartFirst(wire["sender"], t) /\ StartFirst(box["sender"], t)
    /\ \A t \in Attempt : Tells(wire["sender"], "start", t) =>
          t = 1 /\ ~Of(box["sender"], t)
    /\ \A t \in Attempt : Tells(box["sender"], "start", t) =>
          ~Of(wire["sender"], t) /\ phase[t] # "asking" /\ (t = 1 => ~open["sender"])
    /\ \A t \in Attempt : Starting(t) =>
          /\ inc[t] = NoRecord /\ owed[t] = {} /\ t \notin acks
          /\ ~Of(wire["receiver"], t) /\ ~Of(box["receiver"], t)

\* Who asks by relay, asks a sender who knows that the channel is gone.
AskRoad == \A t \in Attempt : Tells(box["receiver"], "ask", t) => ~open["sender"]

Unfinished == \A t \in Attempt : inc[t] # NoRecord => inc[t].seen # Piece

Road == Channel /\ Begun /\ Fresh /\ AskRoad /\ Unfinished

\* A queue q2 that holds m besides what q holds.
More(q2, q, m) ==
    /\ \A t : Of(q2, t) <=> Of(q, t) \/ m.t = t
    /\ \A t, k : Tells(q2, k, t) <=> Tells(q, k, t) \/ (m.kind = k /\ m.t = t)
    /\ \A t, i : SentOn(q2, t, i) <=>
          SentOn(q, t, i) \/ (m.kind = "chunk" /\ m.t = t /\ m.sound /\ m.piece = i)
    /\ \A t, i : AskedOn(q2, t, i) <=>
          AskedOn(q, t, i) \/ (m.kind = "ask" /\ m.t = t /\ i \in m.want)

LEMMA AppendMore ==
  ASSUME NEW q \in Seq(Letter), NEW m \in Letter
  PROVE  /\ More(Append(q, m), q, m)
         /\ \A t : StartFirst(q, t) /\ (m.kind = "start" /\ m.t = t => ~Of(q, t))
                   => StartFirst(Append(q, m), t)
<1> DEFINE a == Append(q, m)
<1>1. /\ a \in Seq(Letter) /\ Len(a) = Len(q) + 1 /\ a[Len(q) + 1] = m
      /\ \A n \in 1 .. Len(q) : a[n] = q[n]
      /\ DOMAIN q = 1 .. Len(q) /\ DOMAIN a = 1 .. Len(q) + 1 /\ Len(q) \in Nat
  OBVIOUS
<1> HIDE DEF a
<1>2. \A n \in DOMAIN a : (n \in DOMAIN q /\ a[n] = q[n]) \/ a[n] = m
  BY <1>1
<1>3. (\A n \in DOMAIN q : n \in DOMAIN a /\ a[n] = q[n]) /\ \E n \in DOMAIN a : a[n] = m
  BY <1>1
<1>4. More(a, q, m)
  BY <1>2, <1>3 DEF More, Of, Tells, SentOn, AskedOn
<1>5. ASSUME NEW t, StartFirst(q, t), m.kind = "start" /\ m.t = t => ~Of(q, t)
      PROVE  StartFirst(a, t)
  <2> SUFFICES ASSUME NEW n \in DOMAIN a, a[n].kind = "start", a[n].t = t,
                      NEW k \in 1 .. n - 1
               PROVE  a[k].t # t
    BY DEF StartFirst
  <2>1. k \in DOMAIN q /\ a[k] = q[k]
    BY <1>1
  <2>2. CASE n \in DOMAIN q
    BY <1>3, <1>5, <2>1, <2>2 DEF StartFirst
  <2>3. CASE n \notin DOMAIN q
    <3>1. m.kind = "start" /\ m.t = t
      BY <1>2, <2>3
    <3> QED BY <1>5, <2>1, <3>1 DEF Of
  <2> QED BY <2>2, <2>3
<1> QED BY <1>4, <1>5 DEF a

LEMMA TailMore ==
  ASSUME NEW q \in Seq(Letter), q # <<>>
  PROVE  /\ More(q, Tail(q), Head(q))
         /\ \A t : StartFirst(q, t) => /\ StartFirst(Tail(q), t)
                                       /\ Head(q).t = t => ~Tells(Tail(q), "start", t)
<1> DEFINE a == Tail(q)
           m == Head(q)
<1>1. /\ a \in Seq(Letter) /\ Len(a) = Len(q) - 1 /\ m = q[1] /\ Len(q) \in Nat \ {0}
      /\ \A n \in 1 .. Len(a) : a[n] = q[n + 1]
      /\ DOMAIN q = 1 .. Len(q) /\ DOMAIN a = 1 .. Len(a)
  OBVIOUS
<1> HIDE DEF a, m
<1>2. \A n \in DOMAIN q : n = 1 \/ (n - 1 \in DOMAIN a /\ a[n - 1] = q[n])
  BY <1>1
<1>3. \A n \in DOMAIN a : n + 1 \in DOMAIN q /\ a[n] = q[n + 1]
  BY <1>1
<1>6. 1 \in DOMAIN q /\ q[1] = m
  BY <1>1
<1>4. More(q, a, m)
  <2>1. \A n \in DOMAIN q : q[n] = m \/ \E k \in DOMAIN a : a[k] = q[n]
    BY <1>2, <1>6
  <2>2. (\A n \in DOMAIN a : \E k \in DOMAIN q : a[n] = q[k]) /\ \E n \in DOMAIN q : q[n] = m
    BY <1>3, <1>6
  <2>3. \A t : Of(q, t) <=> Of(a, t) \/ m.t = t
    BY <2>1, <2>2 DEF Of
  <2>4. \A t, k : Tells(q, k, t) <=> Tells(a, k, t) \/ (m.kind = k /\ m.t = t)
    BY <2>1, <2>2 DEF Tells
  <2>5. \A t, i : SentOn(q, t, i) <=>
          SentOn(a, t, i) \/ (m.kind = "chunk" /\ m.t = t /\ m.sound /\ m.piece = i)
    BY <2>1, <2>2 DEF SentOn
  <2>6. \A t, i : AskedOn(q, t, i) <=>
          AskedOn(a, t, i) \/ (m.kind = "ask" /\ m.t = t /\ i \in m.want)
    BY <2>1, <2>2 DEF AskedOn
  <2> QED BY <2>3, <2>4, <2>5, <2>6 DEF More
<1>5. ASSUME NEW t, StartFirst(q, t)
      PROVE  StartFirst(a, t) /\ (m.t = t => ~Tells(a, "start", t))
  <2>1. ASSUME NEW n \in DOMAIN a, a[n].kind = "start", a[n].t = t
        PROVE  m.t # t /\ \A k \in 1 .. n - 1 : a[k].t # t
    <3>1. \A k \in 1 .. n : q[k].t # t
      <4>1. n + 1 \in DOMAIN q /\ q[n + 1] = a[n] /\ n \in Nat \ {0}
        BY <1>1, <1>3
      <4>2. \A k \in 1 .. (n + 1) - 1 : q[k].t # t
        BY <1>5, <2>1, <4>1 DEF StartFirst
      <4> QED BY <4>1, <4>2
    <3>2. 1 \in 1 .. n /\ \A k \in 1 .. n - 1 : k + 1 \in 1 .. n /\ a[k] = q[k + 1]
      BY <1>1
    <3> QED BY <1>6, <3>1, <3>2
  <2> QED BY <2>1 DEF StartFirst, Tells
<1> QED BY <1>4, <1>5 DEF a, m

LEMMA NothingOn ==
  ASSUME NEW t
  PROVE  /\ ~Of(<<>>, t) /\ StartFirst(<<>>, t)
         /\ \A k : ~Tells(<<>>, k, t)
         /\ \A i : ~SentOn(<<>>, t, i) /\ ~AskedOn(<<>>, t, i)
BY DEF Of, StartFirst, Tells, SentOn, AskedOn

LEMMA NothingTold ==
  ASSUME NEW q, NEW t, ~Of(q, t)
  PROVE  /\ \A k : ~Tells(q, k, t)
         /\ \A i : ~SentOn(q, t, i) /\ ~AskedOn(q, t, i)
BY DEF Of, Tells, SentOn, AskedOn

LEMMA UnderIsOf ==
  ASSUME NEW t
  PROVE  Under(t) <=> \E e \in End : Of(wire[e], t) \/ Of(box[e], t)
BY DEF Under, Of

\* What becomes of a letter m that end e sends.
Joins(e, m) ==
    /\ \A f \in End : f # e => wire'[f] = wire[f] /\ box'[f] = box[f]
    /\ \/ up /\ open[e] /\ More(wire'[e], wire[e], m) /\ box'[e] = box[e]
       \/ ~open[e] /\ More(box'[e], box[e], m) /\ wire'[e] = wire[e]
       \/ ~up /\ open[e] /\ wire'[e] = wire[e] /\ box'[e] = box[e]
    /\ \A t : (m.kind = "start" /\ m.t = t => ~Of(wire[e], t) /\ ~Of(box[e], t)) =>
          /\ StartFirst(wire[e], t) => StartFirst(wire'[e], t)
          /\ StartFirst(box[e], t) => StartFirst(box'[e], t)

LEMMA PutJoins ==
  ASSUME TypeOK, NEW e \in End, NEW m \in Letter, Put(e, m)
  PROVE  Joins(e, m)
<1>1. wire \in [End -> Seq(Letter)] /\ box \in [End -> Seq(Letter)] /\ open[e] \in BOOLEAN
  BY DEF TypeOK
<1>2. CASE open[e] /\ up
  <2>1. wire' = [wire EXCEPT ![e] = Append(wire[e], m)] /\ box' = box
    BY <1>2 DEF Put
  <2>2. wire'[e] = Append(wire[e], m) /\ \A f \in End : f # e => wire'[f] = wire[f]
    BY <1>1, <2>1
  <2> QED BY <1>1, <1>2, <2>1, <2>2, AppendMore DEF Joins
<1>3. CASE open[e] /\ ~up
  BY <1>1, <1>3 DEF Put, Joins
<1>4. CASE ~open[e]
  <2>1. box' = [box EXCEPT ![e] = Append(box[e], m)] /\ wire' = wire
    BY <1>4 DEF Put
  <2>2. box'[e] = Append(box[e], m) /\ \A f \in End : f # e => box'[f] = box[f]
    BY <1>1, <2>1
  <2> QED BY <1>1, <1>4, <2>1, <2>2, AppendMore DEF Joins
<1> QED BY <1>2, <1>3, <1>4

\* A letter that is handed to the relay whatever the channel is.
JoinsBox(e, m) ==
    /\ \A f \in End : f # e => box'[f] = box[f]
    /\ wire' = wire
    /\ More(box'[e], box[e], m)
    /\ \A t : (m.kind = "start" /\ m.t = t => ~Of(box[e], t)) =>
          (StartFirst(box[e], t) => StartFirst(box'[e], t))

LEMMA RelayJoins ==
  ASSUME TypeOK, NEW e \in End, NEW m \in Letter, PutByRelay(e, m)
  PROVE  JoinsBox(e, m)
<1>1. wire \in [End -> Seq(Letter)] /\ box \in [End -> Seq(Letter)]
  BY DEF TypeOK
<1>2. box' = [box EXCEPT ![e] = Append(box[e], m)] /\ wire' = wire
  BY DEF PutByRelay
<1>3. box'[e] = Append(box[e], m) /\ \A f \in End : f # e => box'[f] = box[f]
  BY <1>1, <1>2
<1> QED BY <1>1, <1>2, <1>3, AppendMore DEF JoinsBox

\* What becomes of a letter m that is read from end e.
Leaves(e, m) ==
    /\ \A f \in End : f # e => wire'[f] = wire[f] /\ box'[f] = box[f]
    /\ \/ wire[e] # <<>> /\ More(wire[e], wire'[e], m) /\ box'[e] = box[e]
          /\ \A t : StartFirst(wire[e], t) =>
                /\ StartFirst(wire'[e], t)
                /\ m.t = t => ~Tells(wire'[e], "start", t)
       \/ More(box[e], box'[e], m) /\ wire'[e] = wire[e]
          /\ \A t : StartFirst(box[e], t) =>
                /\ StartFirst(box'[e], t)
                /\ m.t = t => ~Tells(box'[e], "start", t)

LEMMA WireLeaves ==
  ASSUME TypeOK, NEW e \in End, wire[e] # <<>>,
         wire' = [wire EXCEPT ![e] = Tail(@)], box' = box
  PROVE  Leaves(e, Head(wire[e]))
<1>1. wire \in [End -> Seq(Letter)]
  BY DEF TypeOK
<1>2. wire'[e] = Tail(wire[e]) /\ \A f \in End : f # e => wire'[f] = wire[f]
  BY <1>1
<1> QED BY <1>1, <1>2, TailMore DEF Leaves

LEMMA BoxLeaves ==
  ASSUME TypeOK, NEW e \in End, box[e] # <<>>,
         box' = [box EXCEPT ![e] = Tail(@)], wire' = wire
  PROVE  Leaves(e, Head(box[e])) /\ More(box[e], box'[e], Head(box[e]))
<1>1. box \in [End -> Seq(Letter)]
  BY DEF TypeOK
<1>2. box'[e] = Tail(box[e]) /\ \A f \in End : f # e => box'[f] = box[f]
  BY <1>1
<1> QED BY <1>1, <1>2, TailMore DEF Leaves

LEMMA InitRoad == Init => Road
<1> SUFFICES ASSUME Init PROVE Road
  OBVIOUS
<1>1. /\ wire["sender"] = <<>> /\ box["sender"] = <<>>
      /\ wire["receiver"] = <<>> /\ box["receiver"] = <<>>
      /\ \A t \in Attempt : inc[t] = NoRecord
  BY DEF Init, End
<1>2. Channel
  BY DEF Init, Channel, End
<1>3. Begun
  BY <1>1, NothingOn DEF Init, Begun, Untouched, Attempt, End
<1>4. Fresh
  BY <1>1, NothingOn DEF Init, Fresh, Starting
<1>5. AskRoad /\ Unfinished
  BY <1>1, NothingOn DEF AskRoad, Unfinished
<1> QED BY <1>2, <1>3, <1>4, <1>5 DEF Road

LEMMA SendFileRoad ==
  ASSUME Inv, Road, SendFile
  PROVE  Road'
<1> DEFINE m == Say("start", 1)
<1>1. m \in Letter /\ m.kind = "start" /\ m.t = 1
  BY SayTyped DEF Attempt
<1>2. Joins("sender", m)
  BY <1>1, PutJoins DEF Inv, SendFile, End
<1> HIDE DEF m
<1>3. Untouched(1) /\ phase[1] = "idle"
  BY DEF Road, Begun, SendFile, Attempt
<1>4. \A k : ~Tells(wire["sender"], k, 1) /\ ~Tells(box["sender"], k, 1)
  BY <1>3, NothingTold DEF Untouched, End
<1>c. Channel'
  BY <1>2 DEF Road, Channel, SendFile, Joins, Inv, TypeOK, End
<1>b. Begun'
  BY <1>1, <1>2, <1>3 DEF Road, Begun, Untouched, SendFile, Joins, More, Inv, TypeOK, End, Attempt, receiver
<1>f. Fresh'
  BY <1>1, <1>2, <1>3, <1>4 DEF Road, Fresh, Starting, Untouched, SendFile, Joins, More, Inv, TypeOK, End, Attempt, receiver
<1>a. AskRoad'
  BY <1>2 DEF Road, AskRoad, SendFile, Joins, End
<1>u. Unfinished'
  BY DEF Road, Unfinished, SendFile, receiver
<1> QED BY <1>c, <1>b, <1>f, <1>a, <1>u DEF Road

LEMMA ConsentTimeoutRoad ==
  ASSUME Inv, Road, NEW t \in Attempt, ConsentTimeout(t)
  PROVE  Road'
BY DEF Road, Channel, Begun, Fresh, AskRoad, Unfinished, Untouched, Starting,
       ConsentTimeout, Fails, receiver, roads, Inv, TypeOK, Attempt, End

LEMMA StopUploadRoad ==
  ASSUME Inv, Road, NEW t \in Attempt, StopUpload(t)
  PROVE  Road'
BY DEF Road, Channel, Begun, Fresh, AskRoad, Unfinished, Untouched, Starting,
       StopUpload, Fails, receiver, roads, Inv, TypeOK, Attempt, End

LEMMA FinishUploadRoad ==
  ASSUME Inv, Road, NEW t \in Attempt, FinishUpload(t)
  PROVE  Road'
BY DEF Road, Channel, Begun, Fresh, AskRoad, Unfinished, Untouched, Starting,
       FinishUpload, receiver, roads, Inv, TypeOK, Attempt, End

LEMMA CancelRoad ==
  ASSUME Inv, Road, Cancel
  PROVE  Road'
BY DEF Road, Channel, Begun, Fresh, AskRoad, Unfinished, Untouched, Starting,
       Cancel, receiver, roads, Inv, TypeOK, Attempt, End

LEMMA ForgetRoad ==
  ASSUME Inv, Road, NEW t \in Attempt, Forget(t)
  PROVE  Road'
BY DEF Road, Channel, Begun, Fresh, AskRoad, Unfinished, Untouched, Starting,
       Forget, receiver, roads, Inv, TypeOK, Attempt, End

LEMMA QuestionLapsesRoad ==
  ASSUME Inv, Road, NEW t \in Attempt, QuestionLapses(t)
  PROVE  Road'
BY DEF Road, Channel, Begun, Fresh, AskRoad, Unfinished, Untouched, Starting,
       QuestionLapses, sender, roads, Inv, TypeOK, Attempt, End

LEMMA NoticesRoad ==
  ASSUME Inv, Road, NEW e \in End, Notices(e)
  PROVE  Road'
BY DEF Road, Channel, Begun, Fresh, AskRoad, Unfinished, Untouched, Starting,
       Notices, sender, receiver, Inv, TypeOK, Attempt, End

LEMMA SendChunkRoad ==
  ASSUME Inv, Road, NEW t \in Attempt, SendChunk(t)
  PROVE  Road'
<1>1. PICK sound \in BOOLEAN :
        IF t = 1 THEN Put("sender", ChunkOf(t, next[t], sound))
        ELSE PutByRelay("sender", ChunkOf(t, next[t], sound))
  BY DEF SendChunk
<1>2. phase[t] = "sending" /\ next[t] \in Piece
  BY DEF Inv, TypeOK, SendChunk, Piece
<1> DEFINE m == ChunkOf(t, next[t], sound)
<1>3. m \in Letter /\ m.kind = "chunk" /\ m.t = t
  BY <1>2, ChunkTyped DEF ChunkOf, Say
<1>4. (t = 1 /\ Joins("sender", m)) \/ (t = 2 /\ JoinsBox("sender", m))
  BY <1>1, <1>3, PutJoins, RelayJoins DEF Inv, End, Attempt
<1>5. UNCHANGED <<status, phase, out, watch, owed, size, receiver, up, open>>
  BY DEF SendChunk
<1>6. \A u \in Attempt : u # t => next'[u] = next[u]
  BY DEF SendChunk, Inv, TypeOK
<1> HIDE DEF m
<1>c. Channel'
  BY <1>4, <1>5 DEF Road, Channel, Joins, JoinsBox, End
<1>b. Begun'
  BY <1>2, <1>3, <1>4, <1>5, <1>6 DEF Road, Begun, Untouched, Joins, JoinsBox, More, End, Attempt, receiver
<1>f. Fresh'
  <2>1. CASE t = 1 /\ Joins("sender", m)
    <3>1. Tells(wire["sender"], "start", 1) => up
      BY NothingOn DEF Road, Channel, End
    <3> QED BY <1>3, <1>5, <2>1, <3>1 DEF Road, Channel, Fresh, Starting, Joins, More, End, Attempt, receiver
  <2>2. CASE t = 2 /\ JoinsBox("sender", m)
    BY <1>3, <1>5, <2>2 DEF Road, Fresh, Starting, JoinsBox, More, End, Attempt, receiver
  <2> QED BY <1>4, <2>1, <2>2
<1>a. AskRoad'
  BY <1>4, <1>5 DEF Road, AskRoad, Joins, JoinsBox, End
<1>u. Unfinished'
  BY <1>5 DEF Road, Unfinished, receiver
<1> QED BY <1>c, <1>b, <1>f, <1>a, <1>u DEF Road

LEMMA FireWatchRoad ==
  ASSUME Inv, Road, FireWatch
  PROVE  Road'
<1>1. phase[1] = "done" /\ phase[2] = "idle" /\ watch' = "fired" /\ status # "none"
  BY DEF Road, Begun, FireWatch
<1>2. UNCHANGED <<status, next, owed, size, receiver, up, open>>
  BY DEF FireWatch
<1>3. CASE ~Unanswered(status)
  BY <1>1, <1>2, <1>3 DEF Road, Channel, Begun, Fresh, AskRoad, Unfinished, Untouched, Starting,
     FireWatch, receiver
<1>4. CASE Unanswered(status)
  <2> DEFINE m == Say("start", 2)
  <2>1. m \in Letter /\ m.kind = "start" /\ m.t = 2
    BY SayTyped DEF Attempt
  <2>2. JoinsBox("sender", m)
    BY <1>4, <2>1, RelayJoins DEF Inv, FireWatch, End
  <2> HIDE DEF m
  <2>3. /\ phase' = [phase EXCEPT ![2] = "sending"] /\ out' = [out EXCEPT ![2] = "held"]
    BY <1>4 DEF FireWatch
  <2>4. phase'[1] = phase[1] /\ phase'[2] = "sending" /\ out'[1] = out[1]
    BY <2>3 DEF Inv, TypeOK, Attempt
  <2>5. Untouched(2)
    BY <1>1 DEF Road, Begun, Attempt
  <2>6. \A k : ~Tells(wire["sender"], k, 2) /\ ~Tells(box["sender"], k, 2)
    BY <2>5, NothingTold DEF Untouched, End
  <2>c. Channel'
    BY <1>2, <2>2 DEF Road, Channel, JoinsBox
  <2>b. Begun'
    BY <1>1, <1>2, <2>1, <2>2, <2>4 DEF Road, Begun, Untouched, JoinsBox, More, End, Attempt, receiver
  <2>f. Fresh'
    BY <1>2, <2>1, <2>2, <2>4, <2>5, <2>6 DEF Road, Fresh, Starting, Untouched, JoinsBox, More, End, Attempt, receiver
  <2>a. AskRoad' /\ Unfinished'
    BY <1>2, <2>2 DEF Road, AskRoad, Unfinished, JoinsBox, End, receiver
  <2> QED BY <2>c, <2>b, <2>f, <2>a DEF Road
<1> QED BY <1>3, <1>4

LEMMA ResendRoad ==
  ASSUME Inv, Road, NEW t \in Attempt, Resend(t)
  PROVE  Road'
<1>1. PICK i \in owed[t], sound \in BOOLEAN : /\ owed' = [owed EXCEPT ![t] = @ \ {i}]
                                              /\ Put("sender", ChunkOf(t, i, sound))
  BY DEF Resend
<1> DEFINE m == ChunkOf(t, i, sound)
<1>2. i \in Piece /\ owed[t] # {}
  BY <1>1 DEF Inv, TypeOK
<1>3. m \in Letter /\ m.kind = "chunk" /\ m.t = t
  BY <1>2, ChunkTyped DEF ChunkOf, Say
<1>4. Joins("sender", m)
  BY <1>1, <1>3, PutJoins DEF Inv, End
<1>5. UNCHANGED <<status, phase, next, out, watch, size, receiver, up, open>>
  BY DEF Resend
<1>6. \A u \in Attempt : owed'[u] \subseteq owed[u]
  BY <1>1 DEF Inv, TypeOK
<1>7. ~Starting(t) /\ phase[t] # "idle"
  BY <1>2 DEF Road, Fresh, Begun, Untouched
<1> HIDE DEF m
<1>c. Channel'
  BY <1>4, <1>5 DEF Road, Channel, Joins, End
<1>b. Begun'
  BY <1>3, <1>4, <1>5, <1>6, <1>7 DEF Road, Begun, Untouched, Joins, More, End, Attempt, receiver
<1>f. Fresh'
  BY <1>3, <1>4, <1>5, <1>6, <1>7 DEF Road, Fresh, Starting, Joins, More, End, Attempt, receiver
<1>a. AskRoad'
  BY <1>4, <1>5 DEF Road, AskRoad, Joins, End
<1>u. Unfinished'
  BY <1>5 DEF Road, Unfinished, receiver
<1> QED BY <1>c, <1>b, <1>f, <1>a, <1>u DEF Road

\* A letter of the receiver's about a transfer it has begun.
LEMMA ReplyRoad ==
  ASSUME Inv, Road, NEW m \in Letter, Joins("receiver", m), m.kind # "start",
         phase[m.t] # "idle", ~Starting(m.t), m.kind = "ask" => (open["sender"] => up),
         UNCHANGED <<size, status, phase, next, out, watch, owed, up, open>>,
         acks' \subseteq acks,
         \A u \in Attempt : inc[u] = NoRecord => inc'[u] = NoRecord,
         \A u \in Attempt : phase[u] = "idle" => (u \in gaveUp' => u \in gaveUp),
         Unfinished'
  PROVE  Road'
<1>1. m.t \in Attempt
  BY DEF Letter
<1>c. Channel'
  BY DEF Road, Channel, Joins, End
<1>b. Begun'
  BY <1>1 DEF Road, Begun, Untouched, Joins, More, End, Attempt
<1>f. Fresh'
  BY <1>1 DEF Road, Fresh, Starting, Joins, More, End, Attempt
<1>a. AskRoad'
  BY <1>1 DEF Road, Channel, AskRoad, Joins, More, End, Attempt
<1> QED BY <1>c, <1>b, <1>f, <1>a DEF Road

LEMMA OpenRecordRoad ==
  ASSUME Inv, Road, NEW t \in Attempt, inc[t] # NoRecord
  PROVE  phase[t] # "idle" /\ ~Starting(t) /\ inc[t] \in Record /\ inc[t].seen # Piece
BY DEF Road, Begun, Untouched, Fresh, Unfinished, Inv, TypeOK

LEMMA SendReceiptRoad ==
  ASSUME Inv, Road, NEW t \in Attempt, SendReceipt(t)
  PROVE  Road'
<1> DEFINE m == Say("receipt", t)
<1>1. m \in Letter /\ m.kind = "receipt" /\ m.t = t
  BY SayTyped
<1>2. Joins("receiver", m)
  BY <1>1, PutJoins DEF Inv, SendReceipt, End
<1> HIDE DEF m
<1>3. phase[t] # "idle" /\ ~Starting(t)
  BY DEF SendReceipt, Road, Begun, Untouched, Fresh
<1>4. /\ UNCHANGED <<size, sender, inc, gaveUp, up, open>>
      /\ acks' \subseteq acks
  BY DEF SendReceipt
<1>5. Unfinished'
  BY <1>4 DEF Road, Unfinished
<1> QED BY <1>1, <1>2, <1>3, <1>4, <1>5, ReplyRoad DEF sender

\* The answer to an offer changes the record of t only.
LEMMA AnswerRoad ==
  ASSUME Inv, Road, NEW t \in Attempt, inc[t] # NoRecord,
         NEW kind \in {"accept", "decline"}, Answer(kind, t),
         \A u \in Attempt : u # t => inc'[u] = inc[u], Unfinished',
         UNCHANGED <<size, sender, acks, gaveUp, up, open>>
  PROVE  Road'
<1> DEFINE m == Say(kind, t)
<1>1. m \in Letter /\ m.kind = kind /\ m.t = t
  BY SayTyped
<1>2. Joins("receiver", m) \/ UNCHANGED <<wire, box>>
  BY <1>1, PutJoins DEF Inv, Answer, End
<1> HIDE DEF m
<1>3. phase[t] # "idle" /\ ~Starting(t)
  BY OpenRecordRoad
<1>4. \A u \in Attempt : inc[u] = NoRecord => inc'[u] = NoRecord
  OBVIOUS
<1>5. CASE Joins("receiver", m)
  BY <1>1, <1>3, <1>4, <1>5, ReplyRoad DEF sender
<1>6. CASE UNCHANGED <<wire, box>>
  BY <1>3, <1>4, <1>6 DEF Road, Channel, Begun, Untouched, Fresh, AskRoad, Starting, sender
<1> QED BY <1>2, <1>5, <1>6

LEMMA AcceptFileRoad ==
  ASSUME Inv, Road, NEW t \in Attempt, AcceptFile(t)
  PROVE  Road'
<1>1. inc[t] # NoRecord /\ inc' = [inc EXCEPT ![t] = Granted(inc[t])]
  BY DEF AcceptFile, Pending
<1>2. Granted(inc[t]).seen = inc[t].seen /\ inc[t].seen # Piece
  BY <1>1, OpenRecordRoad, GrantedTyped
<1>3. /\ \A u \in Attempt : u # t => inc'[u] = inc[u]
      /\ Unfinished'
  BY <1>1, <1>2 DEF Inv, TypeOK, Road, Unfinished
<1> QED BY <1>1, <1>3, AnswerRoad DEF AcceptFile

LEMMA DeclineFileRoad ==
  ASSUME Inv, Road, NEW t \in Attempt, DeclineFile(t)
  PROVE  Road'
<1>1. inc[t] # NoRecord /\ inc' = [inc EXCEPT ![t] = NoRecord]
  BY DEF DeclineFile, Pending
<1>2. /\ \A u \in Attempt : u # t => inc'[u] = inc[u]
      /\ Unfinished'
  BY <1>1 DEF Inv, TypeOK, Road, Unfinished
<1> QED BY <1>1, <1>2, AnswerRoad DEF DeclineFile

LEMMA StalledRoad ==
  ASSUME Inv, Road, NEW t \in Attempt, Stalled(t)
  PROVE  Road'
<1>1. /\ inc[t] # NoRecord /\ (open["sender"] => up)
      /\ UNCHANGED <<size, sender, acks, up, open>>
  BY DEF Stalled, Silent, End
<1>2. phase[t] # "idle" /\ ~Starting(t) /\ inc[t] \in Record /\ inc[t].seen # Piece
  BY <1>1, OpenRecordRoad
<1>3. CASE GivesUp(inc[t])
  <2>1. inc' = [inc EXCEPT ![t] = NoRecord] /\ gaveUp' = gaveUp \cup {t} /\ UNCHANGED <<wire, box>>
    BY <1>3 DEF Stalled
  <2>2. \A u \in Attempt : inc'[u] = inc[u] \/ inc'[u] = NoRecord
    BY <2>1 DEF Inv, TypeOK
  <2> QED BY <1>1, <1>2, <2>1, <2>2
          DEF Road, Channel, Begun, Untouched, Fresh, AskRoad, Unfinished, Starting, sender
<1>4. CASE ~GivesUp(inc[t])
  <2> DEFINE m == AskFor(t, Piece \ inc[t].seen)
  <2>1. m \in Letter /\ m.kind = "ask" /\ m.t = t
    BY AskTyped DEF AskFor
  <2>2. Joins("receiver", m)
    BY <1>4, <2>1, PutJoins DEF Stalled, Inv, End
  <2> HIDE DEF m
  <2>3. /\ inc' = [inc EXCEPT ![t] = [inc[t] EXCEPT !.asks = inc[t].asks + 1]]
        /\ gaveUp' = gaveUp
    BY <1>4 DEF Stalled
  <2>4. \A u \in Attempt : inc[u] = NoRecord => inc'[u] = NoRecord
    BY <1>1, <2>3 DEF Inv, TypeOK
  <2>5. Unfinished'
    <3>1. [inc[t] EXCEPT !.asks = inc[t].asks + 1].seen # Piece
      BY <1>2, AskedAgain
    <3> QED BY <2>3, <3>1 DEF Inv, TypeOK, Road, Unfinished
  <2> QED BY <1>1, <1>2, <2>1, <2>2, <2>3, <2>4, <2>5, ReplyRoad DEF sender
<1> QED BY <1>3, <1>4

LEMMA SenderHearsRoad ==
  ASSUME Inv, Road, SenderHears
  PROVE  Road'
<1>1. PICK m : Leaves("receiver", m) /\ m \in Letter
               /\ (HearAccept(m) \/ HearDecline(m) \/ HearAsk(m) \/ HearReceipt(m))
  <2>1. CASE wire["receiver"] # <<>> /\ wire' = [wire EXCEPT !["receiver"] = Tail(@)] /\ box' = box
             /\ LET m == Head(wire["receiver"]) IN
                HearAccept(m) \/ HearDecline(m) \/ HearAsk(m) \/ HearReceipt(m)
    BY <2>1, WireLeaves, WireRead DEF Inv, End, Read
  <2>2. CASE box["receiver"] # <<>> /\ box' = [box EXCEPT !["receiver"] = Tail(@)] /\ wire' = wire
             /\ LET m == Head(box["receiver"]) IN HearAsk(m) \/ HearReceipt(m)
    BY <2>2, BoxLeaves, BoxRead DEF Inv, End, Read
  <2> QED BY <2>1, <2>2 DEF SenderHears
<1>2. UNCHANGED <<size, receiver, up, open>>
  BY DEF SenderHears
<1>3. m.t \in Attempt /\ (Of(wire["receiver"], m.t) \/ Of(box["receiver"], m.t))
  BY <1>1 DEF Leaves, More, Letter
<1>4. phase[m.t] # "idle" /\ ~Starting(m.t)
  BY <1>3 DEF Road, Begun, Untouched, Fresh, End
<1>5. /\ \A u \in Attempt : u # m.t => phase'[u] = phase[u] /\ out'[u] = out[u] /\ owed'[u] = owed[u]
      /\ next' = next /\ watch' = watch
      /\ phase'[m.t] = phase[m.t] \/ (phase[m.t] = "asking" /\ phase'[m.t] \in {"sending", "failed"})
      /\ status' = "none" => status = "none"
  BY <1>1, <1>3 DEF HearAccept, HearDecline, HearAsk, HearReceipt, Fails, Inv, TypeOK
<1>c. Channel'
  <2>1. ASSUME ~up PROVE wire'["receiver"] = wire["receiver"]
    BY <1>1, <2>1 DEF Leaves, Road, Channel, End
  <2> QED BY <1>1, <1>2, <2>1 DEF Road, Channel, Leaves, End
<1>b. Begun'
  BY <1>1, <1>2, <1>3, <1>4, <1>5 DEF Road, Begun, Untouched, Leaves, More, receiver, End, Attempt
<1>f. Fresh'
  BY <1>1, <1>2, <1>4, <1>5 DEF Road, Fresh, Starting, Leaves, More, receiver, End
<1>a. AskRoad'
  BY <1>1, <1>2 DEF Road, AskRoad, Leaves, More
<1>u. Unfinished'
  BY <1>2 DEF Road, Unfinished, receiver
<1> QED BY <1>c, <1>b, <1>f, <1>a, <1>u DEF Road

\* After a letter of t is read, no start of t is left on the roads.
LEMMA NoStartBehind ==
  ASSUME Inv, Road, NEW m \in Letter, Leaves("sender", m)
  PROVE  ~Starting(m.t)'
<1>1. m.t \in Attempt
  BY DEF Letter
<1>2. /\ Tells(wire'["sender"], "start", m.t) => Tells(wire["sender"], "start", m.t)
      /\ Tells(box'["sender"], "start", m.t) => Tells(box["sender"], "start", m.t)
      /\ Of(wire["sender"], m.t) \/ Of(box["sender"], m.t)
  BY DEF Leaves, More
<1>3. /\ StartFirst(wire["sender"], m.t) /\ StartFirst(box["sender"], m.t)
      /\ Tells(wire["sender"], "start", m.t) => ~Of(box["sender"], m.t)
      /\ Tells(box["sender"], "start", m.t) => ~Of(wire["sender"], m.t)
  BY <1>1 DEF Road, Fresh
<1>4. CASE More(wire["sender"], wire'["sender"], m) /\ box'["sender"] = box["sender"]
           /\ (m.t = m.t => ~Tells(wire'["sender"], "start", m.t))
  <2>1. Of(wire["sender"], m.t)
    BY <1>4 DEF More
  <2> QED BY <1>2, <1>3, <1>4, <2>1 DEF Starting
<1>5. CASE More(box["sender"], box'["sender"], m) /\ wire'["sender"] = wire["sender"]
           /\ (m.t = m.t => ~Tells(box'["sender"], "start", m.t))
  <2>1. Of(box["sender"], m.t)
    BY <1>5 DEF More
  <2> QED BY <1>2, <1>3, <1>5, <2>1 DEF Starting
<1> QED BY <1>3, <1>4, <1>5 DEF Leaves

\* What the receiver does with a letter of the sender's changes the record of
\* that transfer, and a receipt may fall due.
LEMMA ReadRoad ==
  ASSUME Inv, Road, NEW m \in Letter, Leaves("sender", m),
         UNCHANGED <<size, sender, gaveUp, up, open>>,
         \A u \in Attempt : u # m.t => inc'[u] = inc[u] /\ (u \in acks' => u \in acks),
         \/ m.kind = "start" /\ acks' = acks
         \/ inc[m.t] # NoRecord
         \/ inc'[m.t] = NoRecord /\ acks' = acks,
         Unfinished'
  PROVE  Road'
<1>1. m.t \in Attempt /\ (Of(wire["sender"], m.t) \/ Of(box["sender"], m.t))
  BY DEF Leaves, More, Letter
<1>2. phase[m.t] # "idle" /\ \A u \in Attempt : Starting(u)' => Starting(u)
  BY <1>1 DEF Road, Begun, Untouched, End, Starting, Leaves, More
<1>3. m.kind = "start" => Starting(m.t) /\ ~Starting(m.t)'
  BY NoStartBehind DEF Leaves, More, Starting
<1>4. inc[m.t] # NoRecord => ~Starting(m.t)
  BY <1>1 DEF Road, Fresh
<1>c. Channel'
  BY DEF Road, Channel, Leaves, End
<1>b. Begun'
  BY <1>1, <1>2 DEF Road, Begun, Untouched, Leaves, More, sender, End, Attempt
<1>f. Fresh'
  <2>1. \A t \in Attempt : StartFirst(wire'["sender"], t) /\ StartFirst(box'["sender"], t)
    BY DEF Road, Fresh, Leaves
  <2>2. \A t \in Attempt : Tells(wire'["sender"], "start", t) => t = 1 /\ ~Of(box'["sender"], t)
    BY DEF Road, Fresh, Leaves, More
  <2>3. \A t \in Attempt : Tells(box'["sender"], "start", t) =>
          ~Of(wire'["sender"], t) /\ phase'[t] # "asking" /\ (t = 1 => ~open'["sender"])
    BY DEF Road, Fresh, Leaves, More, sender
  <2>4. ASSUME NEW t \in Attempt, Starting(t)'
        PROVE  /\ inc'[t] = NoRecord /\ owed'[t] = {} /\ t \notin acks'
               /\ ~Of(wire'["receiver"], t) /\ ~Of(box'["receiver"], t)
    <3>1. Starting(t)
      BY <1>2, <2>4
    <3>2. /\ inc[t] = NoRecord /\ owed[t] = {} /\ t \notin acks
          /\ ~Of(wire["receiver"], t) /\ ~Of(box["receiver"], t)
      BY <3>1 DEF Road, Fresh
    <3>3. wire'["receiver"] = wire["receiver"] /\ box'["receiver"] = box["receiver"] /\ owed' = owed
      BY DEF Leaves, End, sender
    <3>4. inc'[t] = NoRecord /\ t \notin acks'
      BY <1>1, <1>3, <1>4, <2>4, <3>1, <3>2
    <3> QED BY <3>2, <3>3, <3>4
  <2> QED BY <2>1, <2>2, <2>3, <2>4 DEF Fresh
<1>a. AskRoad'
  BY DEF Road, AskRoad, Leaves, End
<1> QED BY <1>c, <1>b, <1>f, <1>a DEF Road

LEMMA HearChunkRoad ==
  ASSUME Inv, Road, NEW m \in Letter, Leaves("sender", m), HearChunk(m),
         UNCHANGED <<size, sender, gaveUp, up, open>>
  PROVE  Road'
<1>1. m.t \in Attempt
  BY DEF Letter
<1>2. CASE inc[m.t] = NoRecord
  <2>1. inc' = inc /\ acks' = acks
    BY <1>2 DEF HearChunk
  <2> QED BY <1>2, <2>1, ReadRoad DEF Road, Unfinished
<1>3. CASE inc[m.t] # NoRecord
  <2>1. \/ /\ inc' = [inc EXCEPT ![m.t] = Taken(inc[m.t], m)] /\ acks' = acks
           /\ Taken(inc[m.t], m).seen # Piece
        \/ inc' = [inc EXCEPT ![m.t] = NoRecord] /\ (acks' = acks \/ acks' = acks \cup {m.t})
    BY <1>3 DEF HearChunk
  <2>2. \A u \in Attempt : u # m.t => inc'[u] = inc[u] /\ (u \in acks' => u \in acks)
    BY <2>1 DEF Inv, TypeOK
  <2>3. Unfinished'
    BY <1>1, <2>1 DEF Road, Unfinished, Inv, TypeOK
  <2> QED BY <1>3, <2>2, <2>3, ReadRoad
<1> QED BY <1>2, <1>3

LEMMA HearStartRoad ==
  ASSUME Inv, Road, NEW m \in Letter, Leaves("sender", m), m.kind = "start",
         inc' = inc \/ (\E c \in {"auto", "pending"} : inc' = [inc EXCEPT ![m.t] = Opened(c)]),
         UNCHANGED <<size, sender, acks, gaveUp, up, open>>
  PROVE  Road'
<1>1. m.t \in Attempt
  BY DEF Letter
<1>2. \A c \in {"auto", "pending"} : Opened(c).seen # Piece
  BY DEF Opened, Piece
<1>3. Unfinished'
  <2>1. CASE inc' = inc
    BY <2>1 DEF Road, Unfinished
  <2>2. ASSUME NEW c \in {"auto", "pending"}, inc' = [inc EXCEPT ![m.t] = Opened(c)]
        PROVE  Unfinished'
    <3>1. \A u \in Attempt : inc'[u] = inc[u] \/ inc'[u] = Opened(c)
      BY <2>2 DEF Inv, TypeOK
    <3> QED BY <1>2, <3>1 DEF Road, Unfinished
  <2> QED BY <2>1, <2>2
<1>4. ASSUME NEW u \in Attempt, u # m.t PROVE inc'[u] = inc[u]
  <2>1. ASSUME NEW c, inc' = [inc EXCEPT ![m.t] = Opened(c)] PROVE inc'[u] = inc[u]
    BY <1>4, <2>1 DEF Inv, TypeOK
  <2> QED BY <2>1
<1> QED BY <1>3, <1>4, ReadRoad

\* The letter that is read, and what is made of it.
Heard(m) ==
    /\ m \in Letter /\ Leaves("sender", m)
    /\ \/ HearChunk(m)
       \/ HearLiveStart(m) /\ wire["sender"] # <<>>
       \/ HearRelayStart(m) /\ More(box["sender"], box'["sender"], m)
    /\ UNCHANGED <<size, receipts, sender, declined, gaveUp, up, open, reloads>>

LEMMA ReceiverHearsOne ==
  ASSUME Inv, ReceiverHears
  PROVE  \E m : Heard(m)
<1>1. UNCHANGED <<size, receipts, sender, declined, gaveUp, up, open, reloads>>
  BY DEF ReceiverHears
<1>2. CASE wire["sender"] # <<>> /\ wire' = [wire EXCEPT !["sender"] = Tail(@)] /\ box' = box
           /\ (HearLiveStart(Head(wire["sender"])) \/ HearChunk(Head(wire["sender"])))
  BY <1>1, <1>2, WireLeaves, WireRead DEF Inv, End, Heard, Read
<1>3. CASE box["sender"] # <<>> /\ box' = [box EXCEPT !["sender"] = Tail(@)] /\ wire' = wire
           /\ (HearRelayStart(Head(box["sender"])) \/ HearChunk(Head(box["sender"])))
  BY <1>1, <1>3, BoxLeaves, BoxRead DEF Inv, End, Heard, Read
<1> QED BY <1>2, <1>3 DEF ReceiverHears

LEMMA ReceiverHearsRoad ==
  ASSUME Inv, Road, ReceiverHears
  PROVE  Road'
<1>1. PICK m : Heard(m)
  BY ReceiverHearsOne
<1>2. CASE HearChunk(m)
  BY <1>1, <1>2, HearChunkRoad DEF Heard
<1>3. CASE HearLiveStart(m)
  <2>1. /\ m.kind = "start" /\ acks' = acks
        /\ inc' = inc \/ \E c \in {"auto", "pending"} : inc' = [inc EXCEPT ![m.t] = Opened(c)]
    BY <1>3 DEF HearLiveStart
  <2> QED BY <1>1, <2>1, HearStartRoad DEF Heard
<1>4. CASE HearRelayStart(m)
  <2>1. /\ m.kind = "start" /\ acks' = acks
        /\ inc' = inc \/ \E c \in {"auto", "pending"} : inc' = [inc EXCEPT ![m.t] = Opened(c)]
    BY <1>4 DEF HearRelayStart
  <2> QED BY <1>1, <2>1, HearStartRoad DEF Heard
<1> QED BY <1>1, <1>2, <1>3, <1>4 DEF Heard

LEMMA BreakRoad ==
  ASSUME Inv, Road, Broken, UNCHANGED <<size, status, next, gaveUp, box>>,
         \A e \in End : open'[e] => open[e],
         \A t \in Attempt : /\ phase'[t] = phase[t] \/ (phase'[t] = "gone" /\ phase[t] # "idle")
                            /\ phase[t] = "done" => phase'[t] = "done"
                            /\ out'[t] = out[t] \/ out'[t] = "none"
                            /\ owed'[t] = owed[t] \/ owed'[t] = {}
                            /\ inc'[t] = inc[t] \/ inc'[t] = NoRecord,
         acks' \subseteq acks,
         watch' = watch \/ (watch = "armed" /\ watch' = "off"),
         open' \in [End -> BOOLEAN]
  PROVE  Road'
<1>1. /\ wire'["sender"] = <<>> /\ wire'["receiver"] = <<>> /\ up' = FALSE
      /\ \A e \in End : wire'[e] = <<>>
  BY DEF Broken, End
<1>c. Channel'
  BY <1>1 DEF Channel
<1>b. Begun'
  <2>1. ASSUME NEW t \in Attempt, phase'[t] = "idle" PROVE Untouched(t)'
    <3>1. phase[t] = "idle" /\ Untouched(t)
      BY <2>1 DEF Road, Begun
    <3> QED BY <1>1, <3>1, NothingOn DEF Untouched
  <2>2. /\ status' = status /\ size' = size
        /\ \A t \in {1, 2} : \/ phase'[t] = phase[t]
                            \/ (phase'[t] = "gone" /\ phase[t] # "idle" /\ phase[t] # "done")
    BY DEF Attempt
  <2>3. /\ status = "none" => phase[1] = "idle"
        /\ watch # "fired" => phase[2] = "idle"
        /\ watch # "off" => phase[1] = "done"
        /\ phase[2] # "asking" /\ (size = "small" => phase[1] # "asking")
    BY DEF Road, Begun
  <2>4. /\ status' = "none" => phase'[1] = "idle"
        /\ watch' # "fired" => phase'[2] = "idle"
        /\ watch' # "off" => phase'[1] = "done"
        /\ phase'[2] # "asking" /\ (size' = "small" => phase'[1] # "asking")
    BY <2>2, <2>3
  <2> QED BY <2>1, <2>4 DEF Begun
<1>f. Fresh'
  <2>1. /\ box' = box /\ (open'["sender"] => open["sender"])
        /\ \A t : ~Of(wire'["sender"], t) /\ ~Of(wire'["receiver"], t)
        /\ \A t, k : ~Tells(wire'["sender"], k, t)
        /\ \A t : StartFirst(wire'["sender"], t)
    <3>1. box' = box /\ (open'["sender"] => open["sender"])
      BY DEF End
    <3>2. \A t : ~Of(wire'["sender"], t) /\ ~Of(wire'["receiver"], t)
      BY <1>1, NothingOn
    <3>3. \A t, k : ~Tells(wire'["sender"], k, t)
      <4>1. \A t, k : ~Tells(<<>>, k, t)
        BY DEF Tells
      <4> QED BY <1>1, <4>1
    <3>4. \A t : StartFirst(wire'["sender"], t)
      BY <1>1, NothingOn
    <3> QED BY <3>1, <3>2, <3>3, <3>4
  <2>2. \A t \in Attempt : StartFirst(wire'["sender"], t) /\ StartFirst(box'["sender"], t)
    BY <2>1 DEF Road, Fresh
  <2>3. \A t \in Attempt : Tells(box'["sender"], "start", t) =>
          ~Of(wire'["sender"], t) /\ phase'[t] # "asking" /\ (t = 1 => ~open'["sender"])
    BY <2>1 DEF Road, Fresh
  <2>4. \A t \in Attempt : Starting(t)' =>
          /\ inc'[t] = NoRecord /\ owed'[t] = {} /\ t \notin acks'
          /\ ~Of(wire'["receiver"], t) /\ ~Of(box'["receiver"], t)
    BY <2>1 DEF Road, Fresh, Starting
  <2> QED BY <2>1, <2>2, <2>3, <2>4 DEF Fresh
<1>a. AskRoad'
  BY DEF Road, AskRoad, End
<1>u. Unfinished'
  BY DEF Road, Unfinished
<1> QED BY <1>c, <1>b, <1>f, <1>a, <1>u DEF Road

LEMMA ChannelBreaksRoad ==
  ASSUME Inv, Road, ChannelBreaks
  PROVE  Road'
BY BreakRoad DEF ChannelBreaks, sender, receiver, Inv, TypeOK

LEMMA SenderReloadsRoad ==
  ASSUME Inv, Road, SenderReloads
  PROVE  Road'
<1>1. \A t \in Attempt : /\ phase'[t] = phase[t] \/ (phase'[t] = "gone" /\ phase[t] # "idle")
                         /\ phase[t] = "done" => phase'[t] = "done"
                         /\ out'[t] = "none" /\ owed'[t] = {} /\ inc'[t] = inc[t]
  BY DEF SenderReloads, receiver
<1>2. /\ Broken /\ UNCHANGED <<size, status, next, gaveUp, box, acks>>
      /\ open' \in [End -> BOOLEAN] /\ \A e \in End : open'[e] => open[e]
      /\ watch' = watch \/ (watch = "armed" /\ watch' = "off")
  BY DEF SenderReloads, receiver, Inv, TypeOK
<1> QED BY <1>1, <1>2, BreakRoad

LEMMA ReceiverReloadsRoad ==
  ASSUME Inv, Road, ReceiverReloads
  PROVE  Road'
<1>1. \A t \in Attempt : inc'[t] = NoRecord
  BY DEF ReceiverReloads
<1>2. /\ Broken /\ UNCHANGED <<size, sender, gaveUp, box>> /\ acks' = {}
      /\ open' \in [End -> BOOLEAN] /\ \A e \in End : open'[e] => open[e]
  BY DEF ReceiverReloads, Inv, TypeOK
<1> QED BY <1>1, <1>2, BreakRoad DEF sender

LEMMA NextRoad == Inv /\ Road /\ [Next]_vars => Road'
<1> SUFFICES ASSUME Inv, Road, [Next]_vars PROVE Road'
  OBVIOUS
<1>1. CASE SendFile \/ Cancel \/ FireWatch \/ SenderHears \/ ReceiverHears
  BY <1>1, SendFileRoad, CancelRoad, FireWatchRoad, SenderHearsRoad, ReceiverHearsRoad
<1>2. ASSUME NEW t \in Attempt, Sends(t) \/ StopUpload(t) \/ Resend(t) \/ Forget(t)
      PROVE  Road'
  BY <1>2, SendChunkRoad, FinishUploadRoad, StopUploadRoad, ResendRoad, ForgetRoad DEF Sends
<1>3. ASSUME NEW t \in Attempt, SendReceipt(t) \/ AcceptFile(t) \/ DeclineFile(t) \/ Clocks(t)
      PROVE  Road'
  BY <1>3, SendReceiptRoad, AcceptFileRoad, DeclineFileRoad, ConsentTimeoutRoad,
     QuestionLapsesRoad, StalledRoad DEF Clocks
<1>4. CASE ChannelBreaks \/ (\E e \in End : Notices(e)) \/ SenderReloads \/ ReceiverReloads
  BY <1>4, ChannelBreaksRoad, NoticesRoad, SenderReloadsRoad, ReceiverReloadsRoad
<1>5. CASE UNCHANGED vars
  BY <1>5 DEF Road, Channel, Begun, Untouched, Fresh, AskRoad, Unfinished, Starting,
     vars, sender, receiver, roads
<1> QED BY <1>1, <1>2, <1>3, <1>4, <1>5 DEF Next

Accepting(t) == Tells(wire["receiver"], "accept", t)

\* The sender will send what it has not sent, or waits for an answer that can
\* still come.
Promised(t) ==
    \/ phase[t] = "sending"
    \/ phase[t] = "asking" /\ (Starting(t) \/ Pending(t) \/ Accepting(t))

\* Piece i is still to be sent, on its way, to be sent again, or asked for.
Due(t, i) ==
    \/ Promised(t) /\ next[t] <= i
    \/ SentOn(wire["sender"], t, i) \/ SentOn(box["sender"], t, i)
    \/ AskedOn(wire["receiver"], t, i) \/ AskedOn(box["receiver"], t, i)
    \/ i \in owed[t]

Seen(t) == IF inc[t] = NoRecord THEN {} ELSE inc[t].seen
Asks(t) == IF inc[t] = NoRecord THEN 0 ELSE inc[t].asks

\* Both sides have t, or the receiver is about to.
Going(t) == out[t] # "none" /\ (inc[t] # NoRecord \/ Starting(t))

\* As many losses as requests, and one more unless all that is missing is due.
Enough(t) == Going(t) =>
    \/ losses > Asks(t)
    \/ losses = Asks(t) /\ \A i \in Piece \ Seen(t) : Due(t, i)

\* With the channel gone and no loss to show for it, nothing of t depended on
\* the channel.
Torn(t) == Going(t) /\ ~up /\ losses <= Asks(t) =>
    ~Pending(t) /\ (open["sender"] => t = 2 /\ owed[t] = {})

Count(t) == Enough(t) /\ Torn(t)
Counts == \A t \in Attempt : Count(t)

\* To t, q2 is what q is.
SameFor(t, q2, q) ==
    /\ \A k : Tells(q2, k, t) <=> Tells(q, k, t)
    /\ \A i : SentOn(q2, t, i) <=> SentOn(q, t, i)
    /\ \A i : AskedOn(q2, t, i) <=> AskedOn(q, t, i)

SameRoads(t) ==
    /\ SameFor(t, wire'["sender"], wire["sender"])
    /\ SameFor(t, wire'["receiver"], wire["receiver"])
    /\ SameFor(t, box'["sender"], box["sender"])
    /\ SameFor(t, box'["receiver"], box["receiver"])

LEMMA SameQueue ==
  ASSUME NEW t, NEW q
  PROVE  SameFor(t, q, q)
BY DEF SameFor

LEMMA OthersMore ==
  ASSUME NEW t, NEW m, m.t # t, NEW q2, NEW q, More(q2, q, m)
  PROVE  SameFor(t, q2, q) /\ SameFor(t, q, q2)
<1>1. \A k : Tells(q2, k, t) <=> Tells(q, k, t)
  BY DEF More
<1>2. \A i : SentOn(q2, t, i) <=> SentOn(q, t, i)
  BY DEF More
<1>3. \A i : AskedOn(q2, t, i) <=> AskedOn(q, t, i)
  BY DEF More
<1> QED BY <1>1, <1>2, <1>3 DEF SameFor

LEMMA OthersJoin ==
  ASSUME NEW t, NEW m, m.t # t, NEW e \in End, Joins(e, m)
  PROVE  SameRoads(t)
<1>1. \A f \in End : SameFor(t, wire'[f], wire[f]) /\ SameFor(t, box'[f], box[f])
  <2> SUFFICES ASSUME NEW f \in End
               PROVE  SameFor(t, wire'[f], wire[f]) /\ SameFor(t, box'[f], box[f])
    OBVIOUS
  <2>1. CASE f # e
    BY <2>1, SameQueue DEF Joins
  <2>2. CASE f = e
    BY <2>2, SameQueue, OthersMore DEF Joins
  <2> QED BY <2>1, <2>2
<1> QED BY <1>1 DEF SameRoads, End

LEMMA OthersJoinBox ==
  ASSUME NEW t, NEW m, m.t # t, NEW e \in End, JoinsBox(e, m)
  PROVE  SameRoads(t)
<1>1. \A f \in End : SameFor(t, wire'[f], wire[f]) /\ SameFor(t, box'[f], box[f])
  <2> SUFFICES ASSUME NEW f \in End
               PROVE  SameFor(t, wire'[f], wire[f]) /\ SameFor(t, box'[f], box[f])
    OBVIOUS
  <2>1. CASE f # e
    BY <2>1, SameQueue DEF JoinsBox
  <2>2. CASE f = e
    BY <2>2, SameQueue, OthersMore DEF JoinsBox
  <2> QED BY <2>1, <2>2
<1> QED BY <1>1 DEF SameRoads, End

LEMMA OthersLeave ==
  ASSUME NEW t, NEW m, m.t # t, NEW e \in End, Leaves(e, m)
  PROVE  SameRoads(t)
<1>1. \A f \in End : SameFor(t, wire'[f], wire[f]) /\ SameFor(t, box'[f], box[f])
  <2> SUFFICES ASSUME NEW f \in End
               PROVE  SameFor(t, wire'[f], wire[f]) /\ SameFor(t, box'[f], box[f])
    OBVIOUS
  <2>1. CASE f # e
    BY <2>1, SameQueue DEF Leaves
  <2>2. CASE f = e
    BY <2>2, SameQueue, OthersMore DEF Leaves
  <2> QED BY <2>1, <2>2
<1> QED BY <1>1 DEF SameRoads, End

LEMMA RoadsUnchanged ==
  ASSUME NEW t, UNCHANGED <<wire, box>>
  PROVE  SameRoads(t)
BY SameQueue DEF SameRoads

\* A step that is nothing to t.
Apart(t) ==
    /\ inc'[t] = inc[t] /\ phase'[t] = phase[t] /\ next'[t] = next[t] /\ owed'[t] = owed[t]
    /\ out'[t] = "none" <=> out[t] = "none"
    /\ SameRoads(t)
    /\ up' = up /\ (open'["sender"] => open["sender"])
    /\ losses' = losses \/ losses' = losses + 1

LEMMA ApartKeeps ==
  ASSUME Inv, NEW t \in Attempt, Count(t), Apart(t)
  PROVE  Count(t)'
<1>1. losses \in Nat /\ Asks(t) \in Nat /\ Asks(t)' = Asks(t) /\ Seen(t)' = Seen(t)
  BY DEF Inv, TypeOK, Apart, Asks, Seen, Record
<1>2. /\ Starting(t)' <=> Starting(t)
      /\ Accepting(t)' <=> Accepting(t)
      /\ Pending(t)' <=> Pending(t)
  BY DEF Apart, SameRoads, SameFor, Starting, Accepting, Pending
<1>3. Going(t)' <=> Going(t)
  BY <1>2 DEF Apart, Going
<1>4. \A i \in Piece : Due(t, i) => Due(t, i)'
  BY <1>2 DEF Apart, SameRoads, SameFor, Due, Promised
<1>5. Enough(t)'
  BY <1>1, <1>3, <1>4 DEF Count, Enough, Apart
<1>6. Torn(t)'
  BY <1>1, <1>2, <1>3 DEF Count, Torn, Apart
<1> QED BY <1>5, <1>6 DEF Count

\* A transfer that is over, or not begun, needs nothing.
LEMMA OverKeeps ==
  ASSUME NEW t, ~Going(t)'
  PROVE  Count(t)'
BY DEF Count, Enough, Torn

LEMMA PaidKeeps ==
  ASSUME Inv, NEW t \in Attempt, Count(t), Going(t), Asks(t)' = Asks(t), losses' = losses + 1
  PROVE  Count(t)'
<1>1. losses \in Nat /\ Asks(t) \in Nat
  BY DEF Inv, TypeOK, Asks, Record
<1>2. losses' > Asks(t)'
  BY <1>1 DEF Count, Enough
<1> QED BY <1>1, <1>2 DEF Count, Enough, Torn, Inv, TypeOK

\* What the roads carry of t when a letter about t joins them.
LEMMA JoinedStays ==
  ASSUME NEW e \in End, NEW m, Joins(e, m) \/ JoinsBox(e, m), NEW t, NEW k, NEW i
  PROVE  \A f \in End :
           /\ Tells(wire[f], k, t) => Tells(wire'[f], k, t)
           /\ Tells(box[f], k, t) => Tells(box'[f], k, t)
           /\ SentOn(wire[f], t, i) => SentOn(wire'[f], t, i)
           /\ SentOn(box[f], t, i) => SentOn(box'[f], t, i)
           /\ AskedOn(wire[f], t, i) => AskedOn(wire'[f], t, i)
           /\ AskedOn(box[f], t, i) => AskedOn(box'[f], t, i)
<1> SUFFICES ASSUME NEW f \in End
             PROVE  /\ Tells(wire[f], k, t) => Tells(wire'[f], k, t)
                    /\ Tells(box[f], k, t) => Tells(box'[f], k, t)
                    /\ SentOn(wire[f], t, i) => SentOn(wire'[f], t, i)
                    /\ SentOn(box[f], t, i) => SentOn(box'[f], t, i)
                    /\ AskedOn(wire[f], t, i) => AskedOn(wire'[f], t, i)
                    /\ AskedOn(box[f], t, i) => AskedOn(box'[f], t, i)
  OBVIOUS
<1>1. /\ wire'[f] = wire[f] \/ More(wire'[f], wire[f], m)
      /\ box'[f] = box[f] \/ More(box'[f], box[f], m)
  BY DEF Joins, JoinsBox
<1>2. /\ Tells(wire[f], k, t) => Tells(wire'[f], k, t)
      /\ SentOn(wire[f], t, i) => SentOn(wire'[f], t, i)
      /\ AskedOn(wire[f], t, i) => AskedOn(wire'[f], t, i)
  BY <1>1 DEF More
<1>3. /\ Tells(box[f], k, t) => Tells(box'[f], k, t)
      /\ SentOn(box[f], t, i) => SentOn(box'[f], t, i)
      /\ AskedOn(box[f], t, i) => AskedOn(box'[f], t, i)
  BY <1>1 DEF More
<1> QED BY <1>2, <1>3

\* An attempt begins: everything is still to be sent.
LEMMA BeginsCount ==
  ASSUME Inv, Road, NEW t \in Attempt, phase[t] = "idle",
         next' = next, inc' = inc, owed' = owed, losses' = losses, up' = up,
         open' = open, t = 1 => (Going(t)' => up \/ ~open["sender"]),
         Going(t)' => (phase'[t] = "sending" \/ (phase'[t] = "asking" /\ Starting(t)'))
  PROVE  Count(t)'
<1>1. Untouched(t) /\ losses \in Nat
  BY DEF Road, Begun, Inv, TypeOK
<1>2. Asks(t)' = 0 /\ ~Pending(t)' /\ owed'[t] = {} /\ next'[t] = 0
  BY <1>1 DEF Untouched, Asks, Pending
<1>3. Enough(t)'
  <2>1. Going(t)' => \A i \in Piece : Due(t, i)'
    BY <1>2 DEF Due, Promised, Piece
  <2> QED BY <1>1, <1>2, <2>1 DEF Enough
<1>4. Torn(t)'
  BY <1>2 DEF Torn, Attempt
<1> QED BY <1>3, <1>4 DEF Count

LEMMA SendFileCount ==
  ASSUME Inv, Road, Counts, SendFile
  PROVE  Counts'
<1> DEFINE m == Say("start", 1)
<1>1. m \in Letter /\ m.kind = "start" /\ m.t = 1
  BY SayTyped DEF Attempt
<1>2. Joins("sender", m)
  BY <1>1, PutJoins DEF Inv, SendFile, End
<1> HIDE DEF m
<1>3. Untouched(1) /\ phase[1] = "idle"
  BY DEF Road, Begun, SendFile, Attempt
<1>4. /\ UNCHANGED <<next, inc, owed, losses, up, open>>
      /\ phase'[1] = IF open["sender"] /\ size # "small" THEN "asking" ELSE "sending"
      /\ phase'[2] = phase[2] /\ out'[2] = out[2]
  BY DEF SendFile, receiver, Inv, TypeOK, Attempt
<1>5. Going(1)' => Starting(1)' /\ (up \/ ~open["sender"])
  <2>1. Going(1)' => Starting(1)'
    BY <1>3, <1>4 DEF Going, Untouched
  <2>2. ~Starting(1)
    BY <1>3, NothingTold DEF Untouched, Starting, End
  <2>3. CASE ~up /\ open["sender"]
    <3>1. wire'["sender"] = wire["sender"] /\ box'["sender"] = box["sender"]
      BY <1>2, <2>3 DEF Joins
    <3> QED BY <2>1, <2>2, <3>1 DEF Starting
  <2> QED BY <2>1, <2>3
<1>6. Count(1)'
  BY <1>3, <1>4, <1>5, BeginsCount DEF Attempt
<1>7. Count(2)'
  <2>1. SameRoads(2)
    BY <1>1, <1>2, OthersJoin DEF End
  <2>2. Apart(2)
    BY <1>4, <2>1 DEF Apart
  <2> QED BY <2>2, ApartKeeps DEF Counts, Attempt
<1> QED BY <1>6, <1>7 DEF Counts, Attempt

LEMMA FireWatchCount ==
  ASSUME Inv, Road, Counts, FireWatch
  PROVE  Counts'
<1>1. phase[2] = "idle" /\ UNCHANGED <<next, inc, owed, losses, up, open>>
  BY DEF FireWatch, Road, Begun, receiver
<1>2. CASE ~Unanswered(status)
  <2>1. UNCHANGED <<phase, out, wire, box>>
    BY <1>2 DEF FireWatch
  <2>2. \A t \in Attempt : Apart(t)
    BY <1>1, <2>1, RoadsUnchanged DEF Apart
  <2> QED BY <2>2, ApartKeeps DEF Counts
<1>3. CASE Unanswered(status)
  <2> DEFINE m == Say("start", 2)
  <2>1. m \in Letter /\ m.kind = "start" /\ m.t = 2
    BY SayTyped DEF Attempt
  <2>2. JoinsBox("sender", m)
    BY <1>3, <2>1, RelayJoins DEF Inv, FireWatch, End
  <2> HIDE DEF m
  <2>3. phase'[1] = phase[1] /\ phase'[2] = "sending" /\ out'[1] = out[1]
    BY <1>3 DEF FireWatch, Inv, TypeOK, Attempt
  <2>4. Count(2)'
    BY <1>1, <2>3, BeginsCount DEF Attempt
  <2>5. Count(1)'
    <3>1. SameRoads(1)
      BY <2>1, <2>2, OthersJoinBox DEF End
    <3>2. Apart(1)
      BY <1>1, <2>3, <3>1 DEF Apart
    <3> QED BY <3>2, ApartKeeps DEF Counts, Attempt
  <2> QED BY <2>4, <2>5 DEF Counts, Attempt
<1> QED BY <1>2, <1>3

\* Steps that touch no letter.
LEMMA EndsCount ==
  ASSUME Inv, Road, Counts, NEW t \in Attempt, out'[t] = "none",
         \A u \in Attempt : u # t => phase'[u] = phase[u] /\ out'[u] = out[u],
         UNCHANGED <<next, owed, inc, roads, losses>>
  PROVE  Counts'
<1>1. Count(t)'
  BY OverKeeps DEF Going
<1>2. ASSUME NEW u \in Attempt, u # t PROVE Count(u)'
  <2>1. Apart(u)
    BY <1>2, RoadsUnchanged DEF Apart, roads
  <2> QED BY <2>1, ApartKeeps DEF Counts
<1> QED BY <1>1, <1>2 DEF Counts

LEMMA ConsentTimeoutCount ==
  ASSUME Inv, Road, Counts, NEW t \in Attempt, ConsentTimeout(t)
  PROVE  Counts'
<1>1. /\ out'[t] = "none" /\ UNCHANGED <<next, owed, inc, roads, losses>>
      /\ \A u \in Attempt : u # t => phase'[u] = phase[u] /\ out'[u] = out[u]
  BY DEF ConsentTimeout, Fails, receiver, Inv, TypeOK
<1> QED BY <1>1, EndsCount

LEMMA StopUploadCount ==
  ASSUME Inv, Road, Counts, NEW t \in Attempt, StopUpload(t)
  PROVE  Counts'
<1>1. /\ out'[t] = "none" /\ UNCHANGED <<next, owed, inc, roads, losses>>
      /\ \A u \in Attempt : u # t => phase'[u] = phase[u] /\ out'[u] = out[u]
  BY DEF StopUpload, Fails, receiver, Inv, TypeOK
<1> QED BY <1>1, EndsCount

LEMMA ForgetCount ==
  ASSUME Inv, Road, Counts, NEW t \in Attempt, Forget(t)
  PROVE  Counts'
<1>1. /\ out'[t] = "none" /\ UNCHANGED <<next, owed, inc, roads, losses>>
      /\ \A u \in Attempt : u # t => phase'[u] = phase[u] /\ out'[u] = out[u]
  BY DEF Forget, receiver, Inv, TypeOK
<1> QED BY <1>1, EndsCount

LEMMA FinishUploadCount ==
  ASSUME Inv, Road, Counts, NEW t \in Attempt, FinishUpload(t)
  PROVE  Counts'
<1>1. /\ phase' = [phase EXCEPT ![t] = "done"] /\ next[t] = Chunks
      /\ UNCHANGED <<next, out, owed, inc, wire, box, up, open, losses>>
  BY DEF FinishUpload, receiver, roads
<1>2. ASSUME NEW u \in Attempt, u # t PROVE Count(u)'
  <2>1. Apart(u)
    BY <1>1, <1>2, RoadsUnchanged DEF Apart, Inv, TypeOK
  <2> QED BY <2>1, ApartKeeps DEF Counts
<1>3. Count(t)'
  <2>1. /\ Going(t)' <=> Going(t)
        /\ Asks(t)' = Asks(t) /\ Seen(t)' = Seen(t) /\ (Pending(t)' <=> Pending(t))
    BY <1>1 DEF Going, Starting, Asks, Seen, Pending
  <2>2. \A i \in Piece : Due(t, i) => Due(t, i)'
    <3>1. \A i \in Piece : ~(next[t] <= i)
      BY <1>1 DEF Piece
    <3> QED BY <1>1, <3>1 DEF Due
  <2> QED BY <1>1, <2>1, <2>2 DEF Counts, Count, Enough, Torn
<1> QED BY <1>2, <1>3 DEF Counts

LEMMA CancelCount ==
  ASSUME Inv, Road, Counts, Cancel
  PROVE  Counts'
<1>1. \A t \in Attempt : Apart(t)
  BY RoadsUnchanged DEF Cancel, Apart, receiver, roads, Inv, TypeOK, Attempt
<1> QED BY <1>1, ApartKeeps DEF Counts

LEMMA NoticesCount ==
  ASSUME Inv, Road, Counts, NEW e \in End, Notices(e)
  PROVE  Counts'
<1>1. \A t \in Attempt : Apart(t)
  BY RoadsUnchanged DEF Notices, Apart, sender, receiver, Inv, TypeOK, End
<1> QED BY <1>1, ApartKeeps DEF Counts

\* More was lost than asked for already.
LEMMA SurplusKeeps ==
  ASSUME Inv, NEW t \in Attempt, losses > Asks(t), Asks(t)' = Asks(t),
         losses' = losses \/ losses' = losses + 1
  PROVE  Count(t)'
<1>1. losses \in Nat /\ Asks(t) \in Nat
  BY DEF Inv, TypeOK, Asks, Record
<1>2. losses' > Asks(t)' /\ ~(losses' <= Asks(t)')
  BY <1>1
<1> QED BY <1>2 DEF Count, Enough, Torn

\* What is missing and was due is due after the step.
LEMMA StaysCount ==
  ASSUME Inv, NEW t \in Attempt, Count(t), Going(t)' => Going(t), Asks(t)' = Asks(t),
         losses' = losses, up' = up, Pending(t)' => Pending(t),
         \A i \in Piece \ Seen(t)' : i \notin Seen(t) /\ (Due(t, i) => Due(t, i)'),
         ~up /\ open'["sender"] => open["sender"] /\ owed'[t] \subseteq owed[t]
  PROVE  Count(t)'
<1>1. Enough(t)'
  BY DEF Count, Enough
<1>2. Torn(t)'
  <2> SUFFICES ASSUME Going(t), ~up, losses <= Asks(t)
               PROVE  ~Pending(t)' /\ (open'["sender"] => t = 2 /\ owed'[t] = {})
    BY DEF Torn
  <2> QED BY DEF Count, Torn
<1> QED BY <1>1, <1>2 DEF Count

\* A chunk that is sent.
LEMMA ChunkCount ==
  ASSUME Inv, Road, Counts, NEW t \in Attempt, NEW sound \in BOOLEAN, NEW j \in Piece,
         Joins("sender", ChunkOf(t, j, sound)) \/ (t = 2 /\ JoinsBox("sender", ChunkOf(t, j, sound))),
         JoinsBox("sender", ChunkOf(t, j, sound)) \/ t = 1 \/ j \in owed[t],
         IF sound THEN UNCHANGED losses ELSE Lost,
         \A i \in Piece : i # j => /\ i \in owed[t] => i \in owed'[t]
                                   /\ next[t] <= i => next'[t] <= i,
         owed'[t] \subseteq owed[t],
         \A u \in Attempt : u # t => next'[u] = next[u] /\ owed'[u] = owed[u],
         UNCHANGED <<phase, out, inc, up, open>>
  PROVE  Counts'
<1> DEFINE m == ChunkOf(t, j, sound)
<1>1. /\ m \in Letter /\ m.kind = "chunk" /\ m.t = t /\ m.piece = j /\ m.sound = sound
      /\ losses \in Nat
  BY ChunkTyped DEF ChunkOf, Say, Inv, TypeOK
<1>2. Joins("sender", m) \/ JoinsBox("sender", m)
  OBVIOUS
<1>3. /\ Joins("sender", m) \/ (t = 2 /\ JoinsBox("sender", m))
      /\ JoinsBox("sender", m) \/ t = 1 \/ j \in owed[t]
  OBVIOUS
<1> HIDE DEF m
<1>4. losses' = losses \/ losses' = losses + 1
  BY DEF Lost
<1>5. ASSUME NEW u \in Attempt, u # t PROVE Count(u)'
  <2>1. SameRoads(u)
    BY <1>1, <1>2, <1>5, OthersJoin, OthersJoinBox DEF End
  <2>2. Apart(u)
    BY <1>4, <1>5, <2>1 DEF Apart
  <2> QED BY <2>2, ApartKeeps DEF Counts
<1>6. /\ Tells(wire'["sender"], "start", t) <=> Tells(wire["sender"], "start", t)
      /\ Tells(box'["sender"], "start", t) <=> Tells(box["sender"], "start", t)
      /\ wire'["receiver"] = wire["receiver"] /\ box'["receiver"] = box["receiver"]
  BY <1>1, <1>2 DEF Joins, JoinsBox, More, End
<1>7. /\ Going(t)' <=> Going(t)
      /\ Asks(t)' = Asks(t) /\ Seen(t)' = Seen(t)
      /\ Pending(t)' <=> Pending(t)
      /\ Promised(t)' <=> Promised(t)
  BY <1>6 DEF Going, Starting, Asks, Seen, Pending, Promised, Accepting
<1>8. CASE ~Going(t)
  BY <1>5, <1>7, <1>8, OverKeeps DEF Counts
<1>9. CASE Going(t) /\ ~sound
  BY <1>5, <1>7, <1>9, PaidKeeps DEF Counts, Lost
<1>10. CASE Going(t) /\ losses > Asks(t)
  BY <1>4, <1>5, <1>7, <1>10, SurplusKeeps DEF Counts
<1>11. CASE Going(t) /\ sound /\ ~(losses > Asks(t))
  <2>1. losses <= Asks(t)
    BY <1>1, <1>11 DEF Inv, TypeOK, Asks, Record
  <2>2. ~up /\ open["sender"] => t = 2 /\ owed[t] = {}
    BY <1>11, <2>1 DEF Counts, Count, Torn
  <2>3. SentOn(wire'["sender"], t, j) \/ SentOn(box'["sender"], t, j)
    <3>1. More(wire'["sender"], wire["sender"], m) \/ More(box'["sender"], box["sender"], m)
      BY <1>2, <1>3, <2>2 DEF Joins, JoinsBox
    <3> QED BY <1>1, <1>11, <3>1 DEF More
  <2>4. \A i \in Piece : Due(t, i) => Due(t, i)'
    <3> SUFFICES ASSUME NEW i \in Piece, Due(t, i) PROVE Due(t, i)'
      OBVIOUS
    <3>1. CASE i = j
      BY <2>3, <3>1 DEF Due
    <3>2. CASE i # j
      <4>1. /\ SentOn(wire["sender"], t, i) => SentOn(wire'["sender"], t, i)
            /\ SentOn(box["sender"], t, i) => SentOn(box'["sender"], t, i)
        BY <1>2, JoinedStays DEF End
      <4> QED BY <1>6, <1>7, <3>2, <4>1 DEF Due
    <3> QED BY <3>1, <3>2
  <2>5. Count(t)'
    BY <1>7, <1>11, <2>4, StaysCount DEF Counts
  <2> QED BY <1>5, <2>5 DEF Counts
<1> QED BY <1>8, <1>9, <1>10, <1>11

LEMMA SendChunkCount ==
  ASSUME Inv, Road, Counts, NEW t \in Attempt, SendChunk(t)
  PROVE  Counts'
<1>1. PICK sound \in BOOLEAN :
        /\ IF sound THEN UNCHANGED losses ELSE Lost
        /\ IF t = 1 THEN Put("sender", ChunkOf(t, next[t], sound))
           ELSE PutByRelay("sender", ChunkOf(t, next[t], sound))
  BY DEF SendChunk
<1>2. next[t] \in Piece /\ next' = [next EXCEPT ![t] = next[t] + 1]
  BY DEF Inv, TypeOK, SendChunk, Piece
<1> DEFINE m == ChunkOf(t, next[t], sound)
<1>3. m \in Letter
  BY <1>2, ChunkTyped
<1>4. (t = 1 /\ Joins("sender", m)) \/ (t = 2 /\ JoinsBox("sender", m))
  BY <1>1, <1>3, PutJoins, RelayJoins DEF Inv, End, Attempt
<1>5. UNCHANGED <<phase, out, owed, inc, up, open>>
  BY DEF SendChunk, receiver
<1>6. /\ \A i \in Piece : i # next[t] => (next[t] <= i => next'[t] <= i)
      /\ \A u \in Attempt : u # t => next'[u] = next[u]
  BY <1>2 DEF Piece, Inv, TypeOK
<1>7. IF sound THEN UNCHANGED losses ELSE Lost
  BY <1>1
<1> QED BY <1>2, <1>4, <1>5, <1>6, <1>7, ChunkCount

LEMMA ResendCount ==
  ASSUME Inv, Road, Counts, NEW t \in Attempt, Resend(t)
  PROVE  Counts'
<1>1. PICK j \in owed[t], sound \in BOOLEAN :
        /\ owed' = [owed EXCEPT ![t] = @ \ {j}]
        /\ IF sound THEN UNCHANGED losses ELSE Lost
        /\ Put("sender", ChunkOf(t, j, sound))
  BY DEF Resend
<1> DEFINE m == ChunkOf(t, j, sound)
<1>2. j \in Piece
  BY <1>1 DEF Inv, TypeOK
<1>3. Joins("sender", m)
  BY <1>1, <1>2, ChunkTyped, PutJoins DEF Inv, End
<1>4. UNCHANGED <<phase, next, out, inc, up, open>>
  BY DEF Resend, receiver
<1>5. /\ \A i \in Piece : i # j => (i \in owed[t] => i \in owed'[t])
      /\ owed'[t] \subseteq owed[t]
      /\ \A u \in Attempt : u # t => owed'[u] = owed[u]
  BY <1>1 DEF Inv, TypeOK
<1>6. (IF sound THEN UNCHANGED losses ELSE Lost) /\ j \in owed[t]
  BY <1>1
<1> QED BY <1>2, <1>3, <1>4, <1>5, <1>6, ChunkCount

LEMMA SenderHearsCount ==
  ASSUME Inv, Road, Counts, SenderHears
  PROVE  Counts'
<1>1. PICK m : Leaves("receiver", m) /\ m \in Letter
               /\ (HearAccept(m) \/ HearDecline(m) \/ HearAsk(m) \/ HearReceipt(m))
  <2>1. CASE wire["receiver"] # <<>> /\ wire' = [wire EXCEPT !["receiver"] = Tail(@)] /\ box' = box
             /\ LET m == Head(wire["receiver"]) IN
                HearAccept(m) \/ HearDecline(m) \/ HearAsk(m) \/ HearReceipt(m)
    BY <2>1, WireLeaves, WireRead DEF Inv, End, Read
  <2>2. CASE box["receiver"] # <<>> /\ box' = [box EXCEPT !["receiver"] = Tail(@)] /\ wire' = wire
             /\ LET m == Head(box["receiver"]) IN HearAsk(m) \/ HearReceipt(m)
    BY <2>2, BoxLeaves, BoxRead DEF Inv, End, Read
  <2> QED BY <2>1, <2>2 DEF SenderHears
<1> DEFINE t == m.t
<1>2. t \in Attempt /\ next' = next /\ UNCHANGED <<inc, up, open, losses>>
  BY <1>1 DEF SenderHears, receiver, Letter, HearAccept, HearDecline, HearAsk, HearReceipt
<1>3. /\ wire'["sender"] = wire["sender"] /\ box'["sender"] = box["sender"]
      /\ More(wire["receiver"], wire'["receiver"], m) \/ wire'["receiver"] = wire["receiver"]
      /\ More(box["receiver"], box'["receiver"], m) \/ box'["receiver"] = box["receiver"]
  BY <1>1 DEF Leaves, End
<1>4. ASSUME NEW u \in Attempt, u # t PROVE Count(u)'
  <2>1. SameRoads(u)
    BY <1>1, <1>4, OthersLeave DEF End
  <2>2. phase'[u] = phase[u] /\ out'[u] = out[u] /\ owed'[u] = owed[u]
    BY <1>1, <1>4 DEF HearAccept, HearDecline, HearAsk, HearReceipt, Fails, Inv, TypeOK
  <2>3. Apart(u)
    BY <1>2, <2>1, <2>2 DEF Apart
  <2> QED BY <2>3, ApartKeeps DEF Counts
<1>5. /\ Starting(t)' <=> Starting(t)
      /\ Asks(t)' = Asks(t) /\ Seen(t)' = Seen(t)
      /\ Pending(t)' <=> Pending(t)
  BY <1>2, <1>3 DEF Starting, Asks, Seen, Pending
<1>6. CASE HearAccept(m)
  <2>1. UNCHANGED <<out, owed>> /\ phase'[t] = IF phase[t] = "asking" THEN "sending" ELSE phase[t]
    BY <1>2, <1>6 DEF HearAccept, Inv, TypeOK
  <2>2. Going(t)' <=> Going(t)
    BY <1>2, <1>5, <2>1 DEF Going
  <2>3. \A i \in Piece : Due(t, i) => Due(t, i)'
    <3>1. Promised(t) => Promised(t)'
      BY <2>1 DEF Promised
    <3>2. \A i \in Piece : /\ AskedOn(wire["receiver"], t, i) => AskedOn(wire'["receiver"], t, i)
                           /\ AskedOn(box["receiver"], t, i) => AskedOn(box'["receiver"], t, i)
      BY <1>3, <1>6 DEF More, HearAccept
    <3> QED BY <1>2, <1>3, <2>1, <3>1, <3>2 DEF Due
  <2>4. Count(t)'
    BY <1>2, <1>5, <2>1, <2>2, <2>3, StaysCount DEF Counts
  <2> QED BY <1>4, <2>4 DEF Counts
<1>7. CASE HearDecline(m) /\ phase[t] = "asking"
  <2>1. out'[t] = "none"
    BY <1>2, <1>7 DEF HearDecline, Fails, Inv, TypeOK
  <2>2. Count(t)'
    BY <2>1, OverKeeps DEF Going
  <2> QED BY <1>4, <2>2 DEF Counts
<1>8. CASE (HearDecline(m) /\ phase[t] # "asking") \/ HearReceipt(m)
  <2>1. phase' = phase /\ owed' = owed
    BY <1>8 DEF HearDecline, HearReceipt
  <2>2. out'[t] = "none" <=> out[t] = "none"
    BY <1>2, <1>8 DEF HearDecline, HearReceipt, Inv, TypeOK
  <2>3. Going(t)' <=> Going(t)
    BY <1>2, <1>5, <2>2 DEF Going
  <2>4. \A i \in Piece : Due(t, i) => Due(t, i)'
    <3>1. m.kind # "ask" /\ m.kind # "accept"
      BY <1>8 DEF HearDecline, HearReceipt
    <3>2. \A i \in Piece : /\ AskedOn(wire["receiver"], t, i) => AskedOn(wire'["receiver"], t, i)
                           /\ AskedOn(box["receiver"], t, i) => AskedOn(box'["receiver"], t, i)
      BY <1>3, <3>1 DEF More
    <3>3. Accepting(t) => Accepting(t)'
      BY <1>3, <3>1 DEF More, Accepting
    <3>4. Promised(t) => Promised(t)'
      BY <1>5, <2>1, <3>3 DEF Promised
    <3> QED BY <1>2, <1>3, <2>1, <3>2, <3>4 DEF Due
  <2>5. Count(t)'
    BY <1>2, <1>5, <2>1, <2>3, <2>4, StaysCount DEF Counts
  <2> QED BY <1>4, <2>5 DEF Counts
<1>9. CASE HearAsk(m) /\ out[t] = "none"
  <2>1. ~Going(t)'
    BY <1>9 DEF HearAsk, Going
  <2> QED BY <1>4, <2>1, OverKeeps DEF Counts
<1>10. CASE HearAsk(m) /\ out[t] # "none"
  <2>1. UNCHANGED <<phase, out>> /\ owed'[t] = owed[t] \cup m.want /\ m.kind = "ask"
    BY <1>2, <1>10 DEF HearAsk, Inv, TypeOK
  <2>2. Going(t)' <=> Going(t)
    BY <1>2, <1>5, <2>1 DEF Going
  <2>3. \A i \in Piece : Due(t, i) => Due(t, i)'
    <3>1. Accepting(t) => Accepting(t)'
      BY <1>3, <2>1 DEF More, Accepting
    <3>2. Promised(t) => Promised(t)'
      BY <1>5, <2>1, <3>1 DEF Promised
    <3>3. \A i \in Piece : /\ AskedOn(wire["receiver"], t, i) => AskedOn(wire'["receiver"], t, i) \/ i \in m.want
                           /\ AskedOn(box["receiver"], t, i) => AskedOn(box'["receiver"], t, i) \/ i \in m.want
      BY <1>3 DEF More
    <3> QED BY <1>2, <1>3, <2>1, <3>2, <3>3 DEF Due
  <2>4. ~up => ~open["sender"]
    <3>1. ASSUME ~up PROVE Tells(box["receiver"], "ask", t)
      <4>1. wire["receiver"] = <<>>
        BY <3>1 DEF Road, Channel, End
      <4>2. More(box["receiver"], box'["receiver"], m)
        BY <1>1, <4>1 DEF Leaves
      <4> QED BY <2>1, <4>2 DEF More
    <3> QED BY <1>2, <3>1 DEF Road, AskRoad
  <2>5. Count(t)'
    BY <1>2, <1>5, <2>2, <2>3, <2>4, StaysCount DEF Counts
  <2> QED BY <1>4, <2>5 DEF Counts
<1> QED BY <1>1, <1>6, <1>7, <1>8, <1>9, <1>10

\* A reply of the receiver's that does not stand for a promise.
LEMMA SendReceiptCount ==
  ASSUME Inv, Road, Counts, NEW t \in Attempt, SendReceipt(t)
  PROVE  Counts'
<1> DEFINE m == Say("receipt", t)
<1>1. m \in Letter /\ m.kind = "receipt" /\ m.t = t
  BY SayTyped
<1>2. Joins("receiver", m)
  BY <1>1, PutJoins DEF Inv, SendReceipt, End
<1> HIDE DEF m
<1>3. UNCHANGED <<phase, next, out, owed, inc, up, open, losses>>
  BY DEF SendReceipt, sender
<1>4. ASSUME NEW u \in Attempt PROVE Count(u)'
  <2>1. CASE u # t
    <3>1. SameRoads(u)
      BY <1>1, <1>2, <2>1, OthersJoin DEF End
    <3>2. Apart(u)
      BY <1>3, <3>1 DEF Apart
    <3> QED BY <3>2, ApartKeeps DEF Counts
  <2>2. CASE u = t
    <3>1. /\ Starting(t)' <=> Starting(t)
          /\ Asks(t)' = Asks(t) /\ Seen(t)' = Seen(t)
          /\ Pending(t)' <=> Pending(t)
      BY <1>2, <1>3 DEF Joins, End, Starting, Asks, Seen, Pending
    <3>2. Going(t)' <=> Going(t)
      BY <1>3, <3>1 DEF Going
    <3>3. \A i \in Piece : Due(t, i) => Due(t, i)'
      <4>1. Accepting(t) => Accepting(t)'
        BY <1>2, JoinedStays DEF Accepting, End
      <4>2. Promised(t) => Promised(t)'
        BY <1>3, <3>1, <4>1 DEF Promised
      <4>3. \A i \in Piece :
               /\ SentOn(wire["sender"], t, i) => SentOn(wire'["sender"], t, i)
               /\ SentOn(box["sender"], t, i) => SentOn(box'["sender"], t, i)
               /\ AskedOn(wire["receiver"], t, i) => AskedOn(wire'["receiver"], t, i)
               /\ AskedOn(box["receiver"], t, i) => AskedOn(box'["receiver"], t, i)
        BY <1>2, JoinedStays DEF End
      <4> QED BY <1>3, <4>2, <4>3 DEF Due
    <3> QED BY <1>3, <2>2, <3>1, <3>2, <3>3, StaysCount DEF Counts
  <2> QED BY <2>1, <2>2
<1> QED BY <1>4 DEF Counts

LEMMA AcceptFileCount ==
  ASSUME Inv, Road, Counts, NEW t \in Attempt, AcceptFile(t)
  PROVE  Counts'
<1> DEFINE m == Say("accept", t)
<1>1. m \in Letter /\ m.kind = "accept" /\ m.t = t
  BY SayTyped
<1>2. Joins("receiver", m) \/ (~open["receiver"] /\ UNCHANGED <<wire, box>>)
  BY <1>1, PutJoins DEF Inv, AcceptFile, Answer, End
<1> HIDE DEF m
<1>3. Pending(t) /\ inc[t] # NoRecord /\ inc' = [inc EXCEPT ![t] = Granted(inc[t])]
  BY DEF AcceptFile, Pending
<1>4. inc[t] \in Record /\ ~Starting(t)
  BY <1>3, OpenRecordRoad
<1>5. /\ inc'[t] # NoRecord /\ inc'[t].seen = inc[t].seen /\ inc'[t].asks = inc[t].asks
      /\ inc'[t].consent = "granted"
  <2>1. /\ Granted(inc[t]) \in Record /\ Granted(inc[t]).seen = inc[t].seen
        /\ Granted(inc[t]).consent = "granted"
    BY <1>4, GrantedTyped
  <2>2. Granted(inc[t]).asks = inc[t].asks
    BY <1>4 DEF Granted, Record
  <2> QED BY <1>3, <2>1, <2>2, RecordIsNone DEF Inv, TypeOK
<1>6. UNCHANGED <<phase, next, out, owed, up, open, losses>>
  BY DEF AcceptFile, sender
<1>7. ASSUME NEW u \in Attempt, u # t PROVE Count(u)'
  <2>1. SameRoads(u)
    BY <1>1, <1>2, <1>7, OthersJoin, RoadsUnchanged DEF End
  <2>2. Apart(u)
    BY <1>3, <1>6, <1>7, <2>1 DEF Apart, Inv, TypeOK
  <2> QED BY <2>2, ApartKeeps DEF Counts
<1>8. /\ Asks(t)' = Asks(t) /\ Seen(t)' = Seen(t) /\ ~Pending(t)'
      /\ Going(t)' => Going(t)
  BY <1>3, <1>5, <1>6 DEF Asks, Seen, Pending, Going
<1>9. CASE ~Going(t)
  BY <1>7, <1>8, <1>9, OverKeeps DEF Counts
<1>10. CASE Going(t) /\ ~up
  <2>1. losses > Asks(t)
    BY <1>3, <1>10 DEF Counts, Count, Torn, Inv, TypeOK, Asks, Record
  <2> QED BY <1>6, <1>7, <1>8, <2>1, SurplusKeeps DEF Counts
<1>11. CASE up
  <2>1. up /\ open["receiver"] /\ Joins("receiver", m)
    BY <1>2, <1>11 DEF Road, Channel, End
  <2>2. Accepting(t)'
    BY <1>1, <2>1 DEF Joins, More, Accepting
  <2>3. \A i \in Piece : Due(t, i) => Due(t, i)'
    <3>1. Promised(t) => Promised(t)'
      BY <1>6, <2>2 DEF Promised
    <3>2. \A i \in Piece :
             /\ SentOn(wire["sender"], t, i) => SentOn(wire'["sender"], t, i)
             /\ SentOn(box["sender"], t, i) => SentOn(box'["sender"], t, i)
             /\ AskedOn(wire["receiver"], t, i) => AskedOn(wire'["receiver"], t, i)
             /\ AskedOn(box["receiver"], t, i) => AskedOn(box'["receiver"], t, i)
      BY <2>1, JoinedStays DEF End
    <3> QED BY <1>6, <3>1, <3>2 DEF Due
  <2> QED BY <1>6, <1>7, <1>8, <2>1, <2>3, StaysCount DEF Counts
<1> QED BY <1>9, <1>10, <1>11

\* A record that is closed.
LEMMA ClosedCount ==
  ASSUME Inv, Road, Counts, NEW t \in Attempt, inc[t] # NoRecord, inc' = [inc EXCEPT ![t] = NoRecord],
         UNCHANGED <<wire, box>> \/ (\E m \in Letter : m.t = t /\ Joins("receiver", m)),
         UNCHANGED <<phase, next, out, owed, up, open, losses>>
  PROVE  Counts'
<1>1. /\ inc'[t] = NoRecord /\ wire'["sender"] = wire["sender"] /\ box'["sender"] = box["sender"]
      /\ ~Starting(t)
  BY OpenRecordRoad DEF Joins, End, Inv, TypeOK
<1>2. ~Going(t)'
  BY <1>1 DEF Going, Starting
<1>3. ASSUME NEW u \in Attempt, u # t PROVE Count(u)'
  <2>1. SameRoads(u)
    BY <1>3, OthersJoin, RoadsUnchanged DEF End
  <2>2. Apart(u)
    BY <1>3, <2>1 DEF Apart, Inv, TypeOK
  <2> QED BY <2>2, ApartKeeps DEF Counts
<1> QED BY <1>2, <1>3, OverKeeps DEF Counts

LEMMA DeclineFileCount ==
  ASSUME Inv, Road, Counts, NEW t \in Attempt, DeclineFile(t)
  PROVE  Counts'
<1>1. Say("decline", t) \in Letter /\ Say("decline", t).t = t
  BY SayTyped
<1>2. Joins("receiver", Say("decline", t)) \/ UNCHANGED <<wire, box>>
  BY <1>1, PutJoins DEF Inv, DeclineFile, Answer, End
<1>3. /\ inc[t] # NoRecord /\ inc' = [inc EXCEPT ![t] = NoRecord]
      /\ UNCHANGED <<phase, next, out, owed, up, open, losses>>
  BY DEF DeclineFile, Pending, sender
<1> QED BY <1>1, <1>2, <1>3, ClosedCount

LEMMA QuestionLapsesCount ==
  ASSUME Inv, Road, Counts, NEW t \in Attempt, QuestionLapses(t)
  PROVE  Counts'
<1>1. /\ inc[t] # NoRecord /\ inc' = [inc EXCEPT ![t] = NoRecord]
      /\ UNCHANGED <<wire, box>> /\ UNCHANGED <<phase, next, out, owed, up, open, losses>>
  BY DEF QuestionLapses, Pending, sender, roads
<1> QED BY <1>1, ClosedCount

\* The heart of it: silence while the sender still has the file was paid for.
LEMMA SilentIsPaid ==
  ASSUME Inv, Road, NEW t \in Attempt, Count(t), Silent(t), out[t] # "none"
  PROVE  losses > Asks(t)
<1>1. inc[t] # NoRecord /\ inc[t] \in Record /\ inc[t].seen # Piece /\ ~Pending(t)
  BY OpenRecordRoad DEF Silent, Pending, Inv, TypeOK
<1>2. Going(t)
  BY <1>1 DEF Going
<1>3. \A e \in End : ~Of(wire[e], t) /\ ~Of(box[e], t)
  BY UnderIsOf DEF Silent
<1>4. ~Starting(t) /\ ~Accepting(t)
  BY <1>3, NothingTold DEF Starting, Accepting, End
<1>5. ~Promised(t) /\ owed[t] = {}
  BY <1>1, <1>4 DEF Promised, Silent
<1>6. \A i \in Piece : ~Due(t, i)
  BY <1>3, <1>5, NothingTold DEF Due, End
<1>7. PICK i \in Piece : i \notin Seen(t)
  <2>1. Seen(t) \in SUBSET Piece /\ Seen(t) # Piece
    BY <1>1 DEF Seen, Record
  <2> QED BY <2>1
<1> QED BY <1>2, <1>6, <1>7 DEF Count, Enough

LEMMA StalledCount ==
  ASSUME Inv, Road, Counts, NEW t \in Attempt, Stalled(t)
  PROVE  Counts'
<1>1. /\ Silent(t) /\ inc[t] # NoRecord /\ ~Pending(t) /\ (\A e \in End : open[e] => up)
      /\ UNCHANGED <<phase, next, out, owed, up, open, losses>>
  BY DEF Stalled, Silent, Pending, sender, Inv, TypeOK
<1>2. CASE GivesUp(inc[t])
  <2>1. inc' = [inc EXCEPT ![t] = NoRecord] /\ UNCHANGED <<wire, box>>
    BY <1>2 DEF Stalled
  <2> QED BY <1>1, <2>1, ClosedCount
<1>3. CASE ~GivesUp(inc[t])
  <2> DEFINE m == AskFor(t, Piece \ inc[t].seen)
  <2>1. m \in Letter /\ m.kind = "ask" /\ m.t = t /\ m.want = Piece \ inc[t].seen
    BY AskTyped DEF AskFor
  <2>2. Joins("receiver", m)
    BY <1>3, <2>1, PutJoins DEF Stalled, Inv, End
  <2> HIDE DEF m
  <2>3. inc' = [inc EXCEPT ![t] = [inc[t] EXCEPT !.asks = inc[t].asks + 1]]
    BY <1>3 DEF Stalled
  <2>4. inc[t] \in Record /\ ~Starting(t)
    BY <1>1, OpenRecordRoad
  <2>5. /\ inc'[t] # NoRecord /\ inc'[t].seen = inc[t].seen /\ inc'[t].asks = inc[t].asks + 1
        /\ inc'[t].consent = inc[t].consent
    <3>1. LET a == [inc[t] EXCEPT !.asks = inc[t].asks + 1]
          IN  a \in Record /\ a.consent = inc[t].consent /\ a.seen = inc[t].seen
              /\ a.asks = inc[t].asks + 1
      BY <2>4, AskedAgain DEF Record
    <3> QED BY <2>3, <3>1, RecordIsNone DEF Inv, TypeOK
  <2>6. ASSUME NEW u \in Attempt, u # t PROVE Count(u)'
    <3>1. SameRoads(u)
      BY <2>1, <2>2, <2>6, OthersJoin DEF End
    <3>2. Apart(u)
      BY <1>1, <2>3, <2>6, <3>1 DEF Apart, Inv, TypeOK
    <3> QED BY <3>2, ApartKeeps DEF Counts
  <2>7. /\ Asks(t)' = Asks(t) + 1 /\ Seen(t)' = Seen(t) /\ Seen(t) = inc[t].seen /\ ~Pending(t)'
        /\ Asks(t) \in Nat /\ losses \in Nat
    BY <1>1, <2>4, <2>5 DEF Asks, Seen, Pending, Record, Inv, TypeOK
  <2>8. CASE out[t] = "none"
    BY <1>1, <2>6, <2>8, OverKeeps DEF Counts, Going
  <2>9. CASE out[t] # "none"
    <3>1. losses > Asks(t)
      BY <1>1, <2>9, SilentIsPaid DEF Counts
    <3>2. \A i \in Piece \ Seen(t)' : Due(t, i)'
      <4>1. More(wire'["receiver"], wire["receiver"], m) \/ More(box'["receiver"], box["receiver"], m)
        BY <1>1, <2>2 DEF Joins, End
      <4>2. \A i \in Piece \ inc[t].seen :
              AskedOn(wire'["receiver"], t, i) \/ AskedOn(box'["receiver"], t, i)
        BY <2>1, <4>1 DEF More
      <4> QED BY <2>7, <4>2 DEF Due
    <3>3. Enough(t)'
      BY <1>1, <2>7, <3>1, <3>2 DEF Enough
    <3>4. Torn(t)'
      BY <1>1, <2>7 DEF Torn, End
    <3> QED BY <2>6, <3>3, <3>4 DEF Count, Counts
  <2> QED BY <2>8, <2>9
<1> QED BY <1>2, <1>3

LEMMA ReceiverHearsCount ==
  ASSUME Inv, Road, Counts, ReceiverHears
  PROVE  Counts'
<1>1. PICK m : Heard(m)
  BY ReceiverHearsOne
<1> DEFINE t == m.t
<1>2. /\ m \in Letter /\ t \in Attempt /\ Leaves("sender", m)
      /\ UNCHANGED <<phase, next, out, owed, up, open>>
  BY <1>1 DEF Heard, Letter, sender
<1>3. /\ \A u \in Attempt : u # t => inc'[u] = inc[u]
      /\ losses' = losses \/ losses' = losses + 1
  BY <1>1 DEF Heard, HearChunk, HearLiveStart, HearRelayStart, Lost, Inv, TypeOK
<1>4. ASSUME NEW u \in Attempt, u # t PROVE Count(u)'
  <2>1. SameRoads(u)
    BY <1>2, <1>4, OthersLeave DEF End
  <2>2. Apart(u)
    BY <1>2, <1>3, <1>4, <2>1 DEF Apart
  <2> QED BY <2>2, ApartKeeps DEF Counts
<1>5. ~Starting(t)'
  BY <1>2, NoStartBehind
<1>6. wire'["receiver"] = wire["receiver"] /\ box'["receiver"] = box["receiver"]
  BY <1>2 DEF Leaves, End
<1>7. CASE inc'[t] = NoRecord
  BY <1>4, <1>5, <1>7, OverKeeps DEF Counts, Going
<1>8. CASE m.kind = "chunk" /\ inc'[t] # NoRecord
  <2>1. HearChunk(m) /\ losses' = losses
    BY <1>1, <1>8 DEF Heard, HearLiveStart, HearRelayStart, HearChunk
  <2>2. inc[t] # NoRecord /\ inc[t] \in Record /\ ~Starting(t)
    <3>1. inc[t] # NoRecord
      BY <1>8, <2>1 DEF HearChunk
    <3> QED BY <1>2, <3>1, OpenRecordRoad
  <2>3. inc'[t] = Taken(inc[t], m)
    BY <1>2, <1>8, <2>1, <2>2 DEF HearChunk, Inv, TypeOK
  <2>4. /\ Taken(inc[t], m).asks = inc[t].asks /\ Taken(inc[t], m).consent = inc[t].consent
        /\ Taken(inc[t], m).seen = IF m.sound THEN inc[t].seen \cup {m.piece} ELSE inc[t].seen
    BY <2>2 DEF Taken, Record
  <2>5. /\ Asks(t)' = Asks(t) /\ (Pending(t)' <=> Pending(t))
        /\ Seen(t) = inc[t].seen
        /\ Seen(t)' = IF m.sound THEN inc[t].seen \cup {m.piece} ELSE inc[t].seen
        /\ Going(t)' <=> Going(t)
    BY <1>2, <1>8, <2>2, <2>3, <2>4 DEF Asks, Pending, Seen, Going
  <2>6. \A i \in Piece \ Seen(t)' : i \notin Seen(t) /\ (Due(t, i) => Due(t, i)')
    <3> SUFFICES ASSUME NEW i \in Piece \ Seen(t)', Due(t, i) PROVE Due(t, i)'
      BY <2>5
    <3>1. ~(m.sound /\ m.piece = i)
      BY <2>5
    <3>2. /\ SentOn(wire["sender"], t, i) => SentOn(wire'["sender"], t, i)
          /\ SentOn(box["sender"], t, i) => SentOn(box'["sender"], t, i)
      BY <1>2, <3>1 DEF Leaves, More
    <3>3. Promised(t)' <=> Promised(t)
      BY <1>2, <1>5, <1>6, <2>2, <2>5 DEF Promised, Accepting
    <3> QED BY <1>2, <1>6, <3>2, <3>3 DEF Due
  <2>7. Count(t)'
    BY <1>2, <2>1, <2>5, <2>6, StaysCount DEF Counts
  <2> QED BY <1>4, <2>7 DEF Counts
<1>9. CASE m.kind = "start" /\ inc'[t] # NoRecord
  <2>1. Starting(t)
    BY <1>2, <1>9 DEF Leaves, More, Starting
  <2>2. inc[t] = NoRecord /\ owed[t] = {} /\ Asks(t) = 0 /\ Seen(t) = {}
    BY <1>2, <2>1 DEF Road, Fresh, Asks, Seen
  <2>3. PICK c \in {"auto", "pending"} : inc'[t] = Opened(c)
    BY <1>1, <1>2, <1>9, <2>2 DEF Heard, HearChunk, HearLiveStart, HearRelayStart, Inv, TypeOK
  <2>4. Opened(c).asks = 0 /\ Opened(c).seen = {} /\ Opened(c).consent = c
    BY DEF Opened
  <2>5. Asks(t)' = Asks(t) /\ Seen(t)' = Seen(t) /\ (Going(t)' <=> Going(t)) /\ Asks(t)' = 0
    BY <1>2, <1>9, <2>1, <2>2, <2>3, <2>4 DEF Asks, Seen, Going
  <2>6. CASE ~Going(t)
    BY <1>4, <2>5, <2>6, OverKeeps DEF Counts
  <2>7. CASE Going(t) /\ losses' = losses + 1
    BY <1>4, <2>5, <2>7, PaidKeeps DEF Counts
  <2>8. CASE Going(t) /\ losses' = losses
    <3>1. Promised(t) => Promised(t)'
      <4> SUFFICES ASSUME phase[t] = "asking" PROVE Pending(t)'
        BY <1>2 DEF Promised
      <4>1. t = 1 /\ size # "small" /\ ~Tells(box["sender"], "start", t)
        BY <1>2 DEF Road, Begun, Fresh, Attempt
      <4>2. HearLiveStart(m)
        <5>1. HearRelayStart(m) /\ More(box["sender"], box'["sender"], m)
              => Tells(box["sender"], "start", t)
          BY <1>9 DEF More
        <5> QED BY <1>1, <1>9, <4>1, <5>1 DEF Heard, HearChunk
      <4>3. inc'[t] = Opened("pending")
        BY <1>2, <1>9, <2>2, <2>8, <4>1, <4>2 DEF HearLiveStart, Lost, Inv, TypeOK
      <4> QED BY <1>9, <4>3 DEF Pending, Opened
    <3>2. \A i \in Piece : Due(t, i) => Due(t, i)'
      <4> SUFFICES ASSUME NEW i \in Piece, Due(t, i) PROVE Due(t, i)'
        OBVIOUS
      <4>1. /\ SentOn(wire["sender"], t, i) => SentOn(wire'["sender"], t, i)
            /\ SentOn(box["sender"], t, i) => SentOn(box'["sender"], t, i)
        BY <1>2, <1>9 DEF Leaves, More
      <4> QED BY <1>2, <1>6, <3>1, <4>1 DEF Due
    <3>3. Enough(t)'
      <4>1. Enough(t)
        BY <1>2 DEF Counts, Count
      <4>2. losses > 0 \/ (losses = 0 /\ \A i \in Piece : Due(t, i))
        BY <2>2, <2>8, <4>1 DEF Enough
      <4> QED BY <2>2, <2>5, <2>8, <3>2, <4>2 DEF Enough
    <3>4. Torn(t)'
      <4>1. Pending(t)' => ~(~up /\ losses <= 0)
        <5> SUFFICES ASSUME Pending(t)', ~up PROVE losses > 0
          BY DEF Inv, TypeOK
        <5>1. wire["sender"] = <<>>
          BY DEF Road, Channel, End
        <5>2. HearRelayStart(m)
          BY <1>1, <1>9, <5>1 DEF Heard, HearChunk
        <5> QED BY <1>2, <1>9, <2>2, <5>2 DEF HearRelayStart, Pending, Opened, Inv, TypeOK
      <4> QED BY <1>2, <2>2, <2>5, <2>8, <4>1 DEF Torn, Counts, Count
    <3> QED BY <1>4, <3>3, <3>4 DEF Count, Counts
  <2> QED BY <1>3, <2>6, <2>7, <2>8
<1>10. m.kind = "chunk" \/ m.kind = "start"
  BY <1>1 DEF Heard, HearChunk, HearLiveStart, HearRelayStart
<1> QED BY <1>7, <1>8, <1>9, <1>10

LEMMA BreaksCount ==
  ASSUME Inv, Road, Counts, ChannelBreaks
  PROVE  Counts'
<1>1. /\ losses' = losses + 1 /\ UNCHANGED <<out, inc, box>>
      /\ wire'["sender"] = <<>>
  BY DEF ChannelBreaks, Lost, Broken, sender, receiver, End
<1>2. ASSUME NEW t \in Attempt PROVE Count(t)'
  <2>1. Going(t)' => Going(t)
    BY <1>1, NothingOn DEF Going, Starting
  <2>2. Asks(t)' = Asks(t)
    BY <1>1 DEF Asks
  <2> QED BY <1>1, <2>1, <2>2, OverKeeps, PaidKeeps DEF Counts
<1> QED BY <1>2 DEF Counts

LEMMA SenderReloadsCount ==
  ASSUME Inv, Road, Counts, SenderReloads
  PROVE  Counts'
<1>1. \A t \in Attempt : ~Going(t)'
  BY DEF SenderReloads, Going
<1> QED BY <1>1, OverKeeps DEF Counts

LEMMA ReceiverReloadsCount ==
  ASSUME Inv, Road, Counts, ReceiverReloads
  PROVE  Counts'
<1>1. /\ UNCHANGED <<phase, next, out, owed, box, losses>>
      /\ wire'["sender"] = <<>> /\ wire'["receiver"] = <<>>
      /\ \A t \in Attempt : inc'[t] = NoRecord
      /\ open'["sender"] = open["sender"]
  BY DEF ReceiverReloads, Broken, sender, End, Inv, TypeOK
<1>2. ASSUME NEW t \in Attempt, Going(t)' PROVE Count(t)'
  <2>1. Tells(box["sender"], "start", t) /\ Starting(t) /\ out[t] # "none"
    BY <1>1, <1>2, NothingOn DEF Going, Starting
  <2>2. /\ ~Of(wire["sender"], t) /\ phase[t] # "asking" /\ (t = 1 => ~open["sender"])
        /\ inc[t] = NoRecord /\ owed[t] = {}
        /\ ~Of(wire["receiver"], t) /\ ~Of(box["receiver"], t)
    BY <2>1 DEF Road, Fresh
  <2>3. /\ Going(t) /\ Asks(t) = 0 /\ Seen(t) = {} /\ Asks(t)' = 0 /\ Seen(t)' = {} /\ ~Pending(t)'
    BY <1>1, <2>1, <2>2 DEF Going, Asks, Seen, Pending
  <2>4. \A i \in Piece : Due(t, i) => Due(t, i)'
    <3>1. \A i : ~SentOn(wire["sender"], t, i) /\ ~AskedOn(wire["receiver"], t, i)
                 /\ ~AskedOn(box["receiver"], t, i)
      BY <2>2, NothingTold
    <3>2. Promised(t) => Promised(t)'
      BY <1>1, <2>2 DEF Promised
    <3> QED BY <1>1, <3>1, <3>2 DEF Due
  <2>5. Enough(t)'
    <3>1. losses > 0 \/ (losses = 0 /\ \A i \in Piece : Due(t, i))
      BY <2>3 DEF Enough, Counts, Count
    <3> QED BY <1>1, <2>3, <2>4, <3>1 DEF Enough
  <2>6. Torn(t)'
    BY <1>1, <2>2, <2>3 DEF Torn, Attempt
  <2> QED BY <2>5, <2>6 DEF Count
<1> QED BY <1>2, OverKeeps DEF Counts

LEMMA InitCounts == Init => Counts
<1> SUFFICES ASSUME Init, NEW t \in Attempt PROVE ~Going(t)
  BY DEF Counts, Count, Enough, Torn
<1> QED BY DEF Init, Going

LEMMA NextCounts == Inv /\ Road /\ Counts /\ [Next]_vars => Counts'
<1> SUFFICES ASSUME Inv, Road, Counts, [Next]_vars PROVE Counts'
  OBVIOUS
<1>1. CASE SendFile \/ Cancel \/ FireWatch \/ SenderHears \/ ReceiverHears
  BY <1>1, SendFileCount, CancelCount, FireWatchCount, SenderHearsCount, ReceiverHearsCount
<1>2. ASSUME NEW t \in Attempt, Sends(t) \/ StopUpload(t) \/ Resend(t) \/ Forget(t)
      PROVE  Counts'
  BY <1>2, SendChunkCount, FinishUploadCount, StopUploadCount, ResendCount, ForgetCount DEF Sends
<1>3. ASSUME NEW t \in Attempt, SendReceipt(t) \/ AcceptFile(t) \/ DeclineFile(t) \/ Clocks(t)
      PROVE  Counts'
  BY <1>3, SendReceiptCount, AcceptFileCount, DeclineFileCount, ConsentTimeoutCount,
     QuestionLapsesCount, StalledCount DEF Clocks
<1>4. CASE ChannelBreaks \/ (\E e \in End : Notices(e)) \/ SenderReloads \/ ReceiverReloads
  BY <1>4, BreaksCount, NoticesCount, SenderReloadsCount, ReceiverReloadsCount
<1>5. CASE UNCHANGED vars
  <2>1. \A t \in Attempt : Apart(t)
    BY <1>5, RoadsUnchanged DEF vars, Apart, sender, receiver, roads
  <2> QED BY <2>1, ApartKeeps DEF Counts
<1> QED BY <1>1, <1>2, <1>3, <1>4, <1>5 DEF Next

(***************************************************************************)
(* What follows from the count.                                            *)
(***************************************************************************)

\* A transfer that was given up keeps its reason: the sender does not take the
\* file up again, and what is lost stays lost.
LEMMA NextReasons ==
  ASSUME Inv, Road, Counts, GivesUpWithReason, [Next]_vars
  PROVE  GivesUpWithReason'
<1> SUFFICES ASSUME NEW t \in gaveUp' PROVE out'[t] = "none" \/ losses' > MaxAsks
  BY DEF GivesUpWithReason
<1>1. losses \in Nat /\ (losses' = losses \/ losses' = losses + 1) /\ gaveUp \in SUBSET Attempt
  BY DEF Inv, TypeOK, Next, vars, SendFile, Cancel, FireWatch, SenderHears, ReceiverHears,
     HearLiveStart, HearRelayStart, HearChunk, Sends, SendChunk, FinishUpload, StopUpload, Resend,
     Forget, SendReceipt, AcceptFile, DeclineFile, Clocks, ConsentTimeout, QuestionLapses,
     Stalled, ChannelBreaks, Notices, SenderReloads, ReceiverReloads, Lost
<1>2. \A u \in Attempt : out[u] = "none" /\ phase[u] # "idle" => out'[u] = "none"
  <2> SUFFICES ASSUME NEW u \in Attempt, out[u] = "none", phase[u] # "idle"
               PROVE  out'[u] = "none"
    OBVIOUS
  <2>1. CASE SendFile
    BY <2>1 DEF SendFile, Road, Begun, Inv, TypeOK, Attempt
  <2>2. CASE FireWatch
    BY <2>2 DEF FireWatch, Road, Begun, Inv, TypeOK, Attempt
  <2>3. CASE Cancel \/ ReceiverHears
    BY <2>3 DEF Cancel, ReceiverHears, sender, Inv, TypeOK, Attempt
  <2>8. CASE SenderHears
    <3>1. PICK m : HearAccept(m) \/ HearDecline(m) \/ HearAsk(m) \/ HearReceipt(m)
      BY <2>8 DEF SenderHears
    <3>2. CASE HearAccept(m) \/ HearAsk(m) \/ HearReceipt(m)
      BY <3>2 DEF HearAccept, HearAsk, HearReceipt
    <3>3. CASE HearDecline(m)
      BY <3>3 DEF HearDecline, Fails, Inv, TypeOK
    <3> QED BY <3>1, <3>2, <3>3
  <2>4. ASSUME NEW v \in Attempt, Sends(v) \/ StopUpload(v) \/ Resend(v) \/ Forget(v)
        PROVE  out'[u] = "none"
    BY <2>4 DEF Sends, SendChunk, FinishUpload, StopUpload, Fails, Resend, Forget, Inv, TypeOK
  <2>5. ASSUME NEW v \in Attempt, SendReceipt(v) \/ AcceptFile(v) \/ DeclineFile(v) \/ Clocks(v)
        PROVE  out'[u] = "none"
    BY <2>5 DEF SendReceipt, AcceptFile, DeclineFile, Clocks, ConsentTimeout, Fails, QuestionLapses,
       Stalled, sender, Inv, TypeOK
  <2>6. CASE ChannelBreaks \/ (\E e \in End : Notices(e)) \/ SenderReloads \/ ReceiverReloads
    BY <2>6 DEF ChannelBreaks, Notices, SenderReloads, ReceiverReloads, sender
  <2>7. CASE UNCHANGED vars
    BY <2>7 DEF vars, sender
  <2> QED BY <2>1, <2>2, <2>3, <2>4, <2>5, <2>6, <2>7, <2>8 DEF Next
<1>3. CASE t \in gaveUp
  <2>1. t \in Attempt /\ phase[t] # "idle"
    BY <1>1, <1>3 DEF Road, Begun, Untouched
  <2> QED BY <1>1, <1>2, <1>3, <2>1 DEF GivesUpWithReason
<1>4. CASE t \notin gaveUp
  <2>1. t \in Attempt /\ Stalled(t) /\ GivesUp(inc[t]) /\ out' = out
    BY <1>4 DEF Next, vars, receiver, SendFile, Cancel, FireWatch, SenderHears, ReceiverHears, Sends,
       SendChunk, FinishUpload, StopUpload, Resend, Forget, SendReceipt, AcceptFile, DeclineFile,
       Clocks, ConsentTimeout, QuestionLapses, Stalled, ChannelBreaks, Notices, SenderReloads,
       ReceiverReloads, sender
  <2>2. inc[t] \in Record /\ Asks(t) = inc[t].asks /\ losses' = losses /\ Silent(t)
    BY <2>1 DEF Stalled, Silent, Asks, Inv, TypeOK
  <2>3. CASE out[t] # "none"
    <3>1. losses > inc[t].asks /\ inc[t].asks >= MaxAsks
      BY <2>1, <2>2, <2>3, SilentIsPaid DEF Counts, GivesUp
    <3> QED BY <1>1, <2>2, <3>1 DEF Record
  <2> QED BY <2>1, <2>3
<1> QED BY <1>3, <1>4

\* A watch that is set saw the entry leave.
Watched == watch = "armed" => status \in {"queued", "sent", "delivered"}

\* Of the second try, unless it failed: the start is under way, or the receiver
\* has it open and the sender still has the file, or the file has arrived.
Second == reloads = 0 /\ watch = "fired" /\ phase[2] # "failed" =>
    \/ kept = Piece
    \/ losses > MaxAsks
    \/ out[2] # "none" /\ (Tells(box["sender"], "start", 2) \/ inc[2] # NoRecord)

LEMMA NextWatched ==
  ASSUME Inv, Road, Watched, [Next]_vars
  PROVE  Watched'
<1> SUFFICES ASSUME watch' = "armed" PROVE status' \in {"queued", "sent", "delivered"}
  BY DEF Watched
<1>0. /\ 1 \in Attempt /\ phase \in [Attempt -> {"idle", "asking", "sending", "done", "failed", "gone"}]
      /\ status \in {"none", "queued", "sent", "delivered", "failed"}
  BY DEF Inv, TypeOK, Attempt
<1>1. ASSUME NEW t \in Attempt, FinishUpload(t)
      PROVE  status' \in {"queued", "sent", "delivered"}
  <2>1. CASE watch = "armed"
    BY <1>0, <1>1, <2>1 DEF Watched, FinishUpload
  <2>2. CASE watch # "armed"
    <3>1. t = 1
      BY <1>1, <2>2 DEF FinishUpload
    <3> QED BY <1>1, <3>1 DEF FinishUpload
  <2> QED BY <2>1, <2>2
<1>2. ASSUME watch = "armed", phase[1] = "done", status' = status \/ status' = "delivered"
      PROVE  status' \in {"queued", "sent", "delivered"}
  BY <1>2 DEF Watched
<1>3. watch = "armed" => phase[1] = "done"
  BY DEF Road, Begun
<1>4. CASE SendFile \/ Cancel \/ FireWatch \/ ReceiverHears
  BY <1>2, <1>3, <1>4 DEF SendFile, Cancel, FireWatch, ReceiverHears, sender, Road, Begun
<1>5. CASE SenderHears
  <2>1. watch = "armed" /\ phase[1] = "done"
    BY <1>3, <1>5 DEF SenderHears, HearAccept, HearDecline, HearAsk, HearReceipt
  <2>2. status' = status \/ status' = "delivered"
    BY <1>5, <2>1 DEF SenderHears, HearAccept, HearDecline, HearAsk, HearReceipt, Fails
  <2> QED BY <1>2, <2>1, <2>2
<1>6. ASSUME NEW t \in Attempt, SendChunk(t) \/ StopUpload(t) \/ Resend(t) \/ Forget(t)
      PROVE  status' \in {"queued", "sent", "delivered"}
  BY <1>2, <1>3, <1>6 DEF SendChunk, StopUpload, Fails, Resend, Forget
<1>7. ASSUME NEW t \in Attempt, SendReceipt(t) \/ AcceptFile(t) \/ DeclineFile(t) \/ Clocks(t)
      PROVE  status' \in {"queued", "sent", "delivered"}
  BY <1>2, <1>3, <1>7 DEF SendReceipt, AcceptFile, DeclineFile, Clocks, ConsentTimeout, Fails,
     QuestionLapses, Stalled, sender
<1>8. CASE ChannelBreaks \/ (\E e \in End : Notices(e)) \/ SenderReloads \/ ReceiverReloads
  BY <1>2, <1>3, <1>8 DEF ChannelBreaks, Notices, SenderReloads, ReceiverReloads, sender
<1>9. CASE UNCHANGED vars
  BY <1>2, <1>3, <1>9 DEF vars, sender
<1> QED BY <1>1, <1>4, <1>5, <1>6, <1>7, <1>8, <1>9 DEF Next, Sends

\* A step that is nothing to the second try.
LEMMA SecondStays ==
  ASSUME Inv, Second, watch' = "fired" => watch = "fired", reloads' = reloads,
         phase[2] = "failed" => phase'[2] = "failed",
         kept' = kept, losses' = losses \/ losses' = losses + 1,
         out'[2] = "none" => out[2] = "none",
         Tells(box["sender"], "start", 2) => Tells(box'["sender"], "start", 2),
         inc[2] # NoRecord => inc'[2] # NoRecord
  PROVE  Second'
<1>1. losses > MaxAsks => losses' > MaxAsks
  BY DEF Inv, TypeOK
<1> QED BY <1>1 DEF Second

LEMMA SecondBegins ==
  ASSUME Inv, Road, Watched, FireWatch
  PROVE  Second'
<1>1. CASE ~Unanswered(status)
  <2>1. status = "delivered" /\ kept' = kept
    BY <1>1 DEF Watched, Unanswered, FireWatch, receiver
  <2> QED BY <2>1 DEF Inv, Whole, Second
<1>2. CASE Unanswered(status)
  <2>1. Say("start", 2) \in Letter /\ Say("start", 2).kind = "start" /\ Say("start", 2).t = 2
    BY SayTyped DEF Attempt
  <2>2. JoinsBox("sender", Say("start", 2))
    BY <1>2, <2>1, RelayJoins DEF Inv, FireWatch, End
  <2>3. Tells(box'["sender"], "start", 2)
    BY <2>1, <2>2 DEF JoinsBox, More
  <2>4. out'[2] = "held"
    BY <1>2 DEF FireWatch, Inv, TypeOK, Attempt
  <2> QED BY <2>3, <2>4 DEF Second
<1> QED BY <1>1, <1>2

LEMMA SecondRead ==
  ASSUME Inv, Road, Second, ReceiverHears
  PROVE  Second'
<1>1. PICK m : Heard(m)
  BY ReceiverHearsOne
<1>2. /\ m \in Letter /\ m.t \in Attempt /\ Leaves("sender", m) /\ 2 \in Attempt
      /\ UNCHANGED <<watch, reloads, phase, out>>
      /\ losses' = losses \/ losses' = losses + 1
  BY <1>1 DEF Heard, Letter, Attempt, sender, HearChunk, HearLiveStart, HearRelayStart, Lost
<1>3. Tells(box["sender"], "start", 2) /\ ~(m.kind = "start" /\ m.t = 2)
      => Tells(box'["sender"], "start", 2)
  BY <1>2 DEF Leaves, More
<1>4. CASE HearChunk(m)
  <2>1. m.kind = "chunk" /\ losses' = losses
    BY <1>4 DEF HearChunk
  <2>2. CASE kept' = kept /\ (inc[2] # NoRecord => inc'[2] # NoRecord)
    BY <1>2, <1>3, <2>1, <2>2, SecondStays
  <2>3. CASE inc[m.t] # NoRecord /\ kept' = Taken(inc[m.t], m).data /\ Taken(inc[m.t], m).seen = Piece
    <3>1. inc[m.t] \in Record /\ inc[m.t].data = inc[m.t].seen
      BY <1>2, <2>3 DEF Inv, TypeOK, Whole
    <3>2. kept' = Piece
      BY <1>2, <2>3, <3>1, TakenTyped
    <3> QED BY <3>2 DEF Second
  <2>4. \/ kept' = kept /\ (inc[2] # NoRecord => inc'[2] # NoRecord)
        \/ inc[m.t] # NoRecord /\ kept' = Taken(inc[m.t], m).data /\ Taken(inc[m.t], m).seen = Piece
    <3>1. CASE inc[m.t] = NoRecord
      BY <1>4, <3>1 DEF HearChunk
    <3>2. CASE inc[m.t] # NoRecord /\ Taken(inc[m.t], m).seen = Piece
      BY <1>4, <3>2 DEF HearChunk
    <3>3. CASE inc[m.t] # NoRecord /\ Taken(inc[m.t], m).seen # Piece
      <4>1. inc' = [inc EXCEPT ![m.t] = Taken(inc[m.t], m)] /\ kept' = kept
        BY <1>4, <3>3 DEF HearChunk
      <4>2. Taken(inc[m.t], m) # NoRecord
        BY <1>2, <3>3, TakenTyped, RecordIsNone DEF Inv, TypeOK
      <4> QED BY <1>2, <4>1, <4>2 DEF Inv, TypeOK
    <3> QED BY <3>1, <3>2, <3>3
  <2> QED BY <2>2, <2>3, <2>4
<1>5. CASE HearLiveStart(m) \/ HearRelayStart(m)
  <2>1. m.kind = "start" /\ kept' = kept
    BY <1>5 DEF HearLiveStart, HearRelayStart
  <2>2. inc' = inc \/ \E c \in {"auto", "pending"} : inc' = [inc EXCEPT ![m.t] = Opened(c)]
    BY <1>5 DEF HearLiveStart, HearRelayStart
  <2>3. \A c \in {"auto", "pending"} : Opened(c) # NoRecord
    BY OpenedTyped, RecordIsNone
  <2>4. inc[2] # NoRecord => inc'[2] # NoRecord
    BY <1>2, <2>2, <2>3 DEF Inv, TypeOK
  <2>5. CASE m.t # 2
    BY <1>2, <1>3, <2>1, <2>4, <2>5, SecondStays
  <2>6. CASE m.t = 2
    <3>1. Starting(2)
      BY <1>2, <2>1, <2>6 DEF Leaves, More, Starting
    <3>2. inc[2] = NoRecord /\ ~Tells(wire["sender"], "start", 2)
      BY <1>2, <3>1 DEF Road, Fresh
    <3>3. kept = {} => inc'[2] # NoRecord
      <4>1. wire["sender"] # <<>> \/ HearRelayStart(m)
        BY <1>1, <2>1 DEF Heard, HearChunk
      <4> QED BY <1>2, <1>5, <2>3, <2>6, <3>2 DEF HearLiveStart, HearRelayStart, Inv, TypeOK
    <3>4. kept \in {{}, Piece} /\ (losses > MaxAsks => losses' > MaxAsks)
      BY <1>2 DEF Inv, Whole, TypeOK
    <3>5. out[2] # "none" => out'[2] # "none"
      BY <1>2
    <3>6. Second
      OBVIOUS
    <3> QED BY <1>2, <2>1, <3>2, <3>3, <3>4, <3>5, <3>6 DEF Second
  <2> QED BY <2>5, <2>6
<1> QED BY <1>1, <1>4, <1>5 DEF Heard

LEMMA SecondGivenUp ==
  ASSUME Inv, Road, Counts, Second, NEW t \in Attempt, Stalled(t)
  PROVE  Second'
<1>1. /\ UNCHANGED <<watch, reloads, phase, kept, losses, out>> /\ Silent(t) /\ inc[t] # NoRecord
      /\ 2 \in Attempt
  BY DEF Stalled, Silent, sender, Attempt
<1>2. box'["sender"] = box["sender"]
  BY DEF Stalled, Put, End, Inv, TypeOK
<1>3. CASE t = 2 /\ GivesUp(inc[2]) /\ out[2] # "none"
  <2>1. losses > Asks(2) /\ Asks(2) >= MaxAsks /\ Asks(2) \in Nat
    BY <1>1, <1>3, SilentIsPaid DEF Counts, Asks, GivesUp, Inv, TypeOK, Record
  <2>2. losses' > MaxAsks
    BY <1>1, <2>1 DEF Inv, TypeOK
  <2> QED BY <2>2 DEF Second
<1>4. CASE t = 2 /\ out[2] = "none"
  <2>1. Second
    OBVIOUS
  <2> QED BY <1>1, <1>4, <2>1 DEF Second
<1>5. CASE t # 2 \/ ~GivesUp(inc[2])
  <2>1. inc[2] # NoRecord => inc'[2] # NoRecord
    <3>1. CASE t # 2
      BY <3>1 DEF Stalled, Inv, TypeOK, Attempt
    <3>2. CASE t = 2 /\ ~GivesUp(inc[2])
      <4>1. inc' = [inc EXCEPT ![2] = [inc[2] EXCEPT !.asks = inc[2].asks + 1]] /\ inc[2] \in Record
        BY <1>1, <3>2 DEF Stalled, Inv, TypeOK
      <4>2. [inc[2] EXCEPT !.asks = inc[2].asks + 1] \in Record
        BY <4>1, AskedAgain
      <4> QED BY <1>1, <4>1, <4>2, RecordIsNone DEF Inv, TypeOK
    <3> QED BY <1>5, <3>1, <3>2
  <2> QED BY <1>1, <1>2, <2>1, SecondStays
<1> QED BY <1>3, <1>4, <1>5

LEMMA SecondSent ==
  ASSUME Inv, Road, Second,
         SendFile \/ Cancel \/ \E t \in Attempt : Sends(t) \/ Resend(t) \/ Forget(t)
  PROVE  Second'
<1>0. 1 \in Attempt /\ 2 \in Attempt
  BY DEF Attempt
<1>1. CASE SendFile
  <2>1. Say("start", 1) \in Letter
    BY <1>0, SayTyped
  <2>2. Joins("sender", Say("start", 1))
    BY <1>1, <2>1, PutJoins DEF Inv, SendFile, End
  <2>3. Tells(box["sender"], "start", 2) => Tells(box'["sender"], "start", 2)
    BY <2>2, JoinedStays DEF End
  <2> QED BY <1>1, <2>3, SecondStays DEF SendFile, receiver, Inv, TypeOK, Attempt
<1>2. CASE Cancel
  BY <1>2, SecondStays DEF Cancel, receiver, roads, Inv, TypeOK, Attempt
<1>3. ASSUME NEW t \in Attempt, SendChunk(t) PROVE Second'
  <2>1. PICK sound \in BOOLEAN :
          /\ IF sound THEN UNCHANGED losses ELSE Lost
          /\ IF t = 1 THEN Put("sender", ChunkOf(t, next[t], sound))
             ELSE PutByRelay("sender", ChunkOf(t, next[t], sound))
    BY <1>3 DEF SendChunk
  <2>2. ChunkOf(t, next[t], sound) \in Letter
    <3>1. next[t] \in Piece
      BY <1>3 DEF SendChunk, Piece, Inv, TypeOK
    <3> QED BY <3>1, ChunkTyped
  <2>3. Joins("sender", ChunkOf(t, next[t], sound)) \/ JoinsBox("sender", ChunkOf(t, next[t], sound))
    BY <2>1, <2>2, PutJoins, RelayJoins DEF Inv, End
  <2>4. Tells(box["sender"], "start", 2) => Tells(box'["sender"], "start", 2)
    BY <2>3, JoinedStays DEF End
  <2>5. losses' = losses \/ losses' = losses + 1
    BY <2>1 DEF Lost
  <2> QED BY <1>3, <2>4, <2>5, SecondStays DEF SendChunk, receiver
<1>4. ASSUME NEW t \in Attempt, Resend(t) PROVE Second'
  <2>1. PICK i \in owed[t], sound \in BOOLEAN :
          /\ IF sound THEN UNCHANGED losses ELSE Lost
          /\ Put("sender", ChunkOf(t, i, sound))
    BY <1>4 DEF Resend
  <2>2. ChunkOf(t, i, sound) \in Letter
    BY <2>1, ChunkTyped DEF Inv, TypeOK
  <2>3. Joins("sender", ChunkOf(t, i, sound))
    BY <2>1, <2>2, PutJoins DEF Inv, End
  <2>4. Tells(box["sender"], "start", 2) => Tells(box'["sender"], "start", 2)
    BY <2>3, JoinedStays DEF End
  <2>5. losses' = losses \/ losses' = losses + 1
    BY <2>1 DEF Lost
  <2> QED BY <1>4, <2>4, <2>5, SecondStays DEF Resend, receiver
<1>5. ASSUME NEW t \in Attempt, FinishUpload(t) PROVE Second'
  <2>1. /\ UNCHANGED <<reloads, kept, losses, out, box, inc>>
        /\ watch' = "fired" => watch = "fired"
        /\ phase[2] = "failed" => phase'[2] = "failed"
    BY <1>5 DEF FinishUpload, receiver, roads, Inv, TypeOK
  <2> QED BY <2>1, SecondStays
<1>6. ASSUME NEW t \in Attempt, Forget(t) PROVE Second'
  <2>1. /\ UNCHANGED <<watch, reloads, kept, losses, box, inc, phase>>
        /\ \A u \in Attempt : u # t => out'[u] = out[u]
        /\ inc[t] = NoRecord /\ ~Under(t)
    BY <1>6 DEF Forget, receiver, roads, Inv, TypeOK
  <2>2. ~Tells(box["sender"], "start", t)
    BY <2>1, UnderIsOf, NothingTold DEF End
  <2>3. Second
    OBVIOUS
  <2> QED BY <1>0, <2>1, <2>2, <2>3 DEF Second
<1> QED BY <1>1, <1>2, <1>3, <1>4, <1>5, <1>6 DEF Sends

LEMMA SecondFails ==
  ASSUME Inv, Road, Second, NEW t \in Attempt, ConsentTimeout(t) \/ StopUpload(t)
  PROVE  Second'
<1>1. /\ UNCHANGED <<watch, reloads, kept, losses, box, inc>> /\ 2 \in Attempt
      /\ \A u \in Attempt : u # t => out'[u] = out[u] /\ phase'[u] = phase[u]
      /\ phase'[t] = "failed"
  BY DEF ConsentTimeout, StopUpload, Fails, receiver, roads, Inv, TypeOK, Attempt
<1>2. CASE t = 2
  BY <1>1, <1>2 DEF Second
<1>3. CASE t # 2
  <2>1. phase'[2] = phase[2] /\ out'[2] = out[2]
    BY <1>1, <1>3
  <2> QED BY <1>1, <2>1, SecondStays
<1> QED BY <1>2, <1>3

LEMMA SecondHeard ==
  ASSUME Inv, Road, Second, SenderHears
  PROVE  Second'
<1>1. /\ UNCHANGED <<reloads, kept, losses, inc>> /\ 2 \in Attempt /\ phase[2] # "asking"
      /\ watch' = watch
  BY DEF SenderHears, HearAccept, HearDecline, HearAsk, HearReceipt, Fails, receiver, Road, Begun,
     Attempt
<1>2. box'["sender"] = box["sender"]
  BY DEF SenderHears, Inv, TypeOK, End
<1>3. PICK m : Read("receiver", m) /\ (HearAccept(m) \/ HearDecline(m) \/ HearAsk(m) \/ HearReceipt(m))
  BY WireRead, BoxRead DEF Inv, SenderHears, End
<1>4. m.t \in Attempt
  BY <1>3 DEF Read, Letter
<1>5. /\ phase[2] = "failed" => phase'[2] = "failed"
      /\ out'[2] = "none" => out[2] = "none"
  BY <1>1, <1>3, <1>4 DEF HearAccept, HearDecline, HearAsk, HearReceipt, Fails, Inv, TypeOK
<1> QED BY <1>1, <1>2, <1>5, SecondStays

LEMMA SecondAnswered ==
  ASSUME Inv, Road, Second, NEW t \in Attempt,
         SendReceipt(t) \/ AcceptFile(t) \/ DeclineFile(t) \/ QuestionLapses(t)
  PROVE  Second'
<1>1. UNCHANGED <<watch, reloads, phase, kept, losses, out>> /\ 2 \in Attempt
  BY DEF SendReceipt, AcceptFile, DeclineFile, QuestionLapses, sender, Attempt
<1>2. box'["sender"] = box["sender"]
  BY DEF SendReceipt, AcceptFile, DeclineFile, QuestionLapses, Answer, Put, roads, End, Inv, TypeOK
<1>3. inc'[2] = inc[2]
  <2>1. ~Pending(2)
    BY DEF Inv, Calm, FirstOnly
  <2>2. inc' = inc \/ (t = 1 /\ \E r : inc' = [inc EXCEPT ![t] = r])
    BY <2>1 DEF SendReceipt, AcceptFile, DeclineFile, QuestionLapses, Attempt
  <2> QED BY <2>2 DEF Inv, TypeOK, Attempt
<1> QED BY <1>1, <1>2, <1>3, SecondStays

LEMMA NextSecond ==
  ASSUME Inv, Road, Counts, Watched, Second, [Next]_vars
  PROVE  Second'
<1>1. CASE SendFile \/ Cancel \/ SenderHears \/ FireWatch \/ ReceiverHears
  BY <1>1, SecondSent, SecondHeard, SecondBegins, SecondRead
<1>2. ASSUME NEW t \in Attempt, Sends(t) \/ StopUpload(t) \/ Resend(t) \/ Forget(t)
      PROVE  Second'
  BY <1>2, SecondSent, SecondFails
<1>3. ASSUME NEW t \in Attempt, SendReceipt(t) \/ AcceptFile(t) \/ DeclineFile(t) \/ Clocks(t)
      PROVE  Second'
  BY <1>3, SecondAnswered, SecondFails, SecondGivenUp DEF Clocks
<1>4. CASE ChannelBreaks
  <2>1. losses' = losses \/ losses' = losses + 1
    BY <1>4 DEF ChannelBreaks, Lost
  <2> QED BY <1>4, <2>1, SecondStays DEF ChannelBreaks, sender, receiver
<1>5. ASSUME NEW e \in End, Notices(e) PROVE Second'
  BY <1>5, SecondStays DEF Notices, sender, receiver
<1>6. CASE SenderReloads \/ ReceiverReloads
  <2>1. reloads' # 0
    BY <1>6 DEF SenderReloads, ReceiverReloads, Reloads, Inv, TypeOK
  <2> QED BY <2>1 DEF Second
<1>7. CASE UNCHANGED vars
  BY <1>7, SecondStays DEF vars, sender, receiver, roads
<1> QED BY <1>1, <1>2, <1>3, <1>4, <1>5, <1>6, <1>7 DEF Next

Reasoned == Road /\ Counts /\ GivesUpWithReason /\ Watched /\ Second

LEMMA ReasonedInvariant == Spec => [](Inv /\ Reasoned)
<1>1. Init => Inv /\ Reasoned
  <2> SUFFICES ASSUME Init PROVE Inv /\ Reasoned
    OBVIOUS
  <2>1. Inv /\ Road /\ Counts
    BY InitInv, InitRoad, InitCounts
  <2>2. GivesUpWithReason /\ Watched /\ Second
    BY DEF Init, GivesUpWithReason, Watched, Second
  <2> QED BY <2>1, <2>2 DEF Reasoned
<1>2. Inv /\ Reasoned /\ [Next]_vars => (Inv /\ Reasoned)'
  <2> SUFFICES ASSUME Inv, Reasoned, [Next]_vars PROVE Inv' /\ Reasoned'
    OBVIOUS
  <2>1. Road /\ Counts /\ GivesUpWithReason /\ Watched /\ Second
    BY DEF Reasoned
  <2>2. Inv' /\ Road' /\ Counts'
    BY <2>1, NextInv, NextRoad, NextCounts
  <2>3. GivesUpWithReason' /\ Watched' /\ Second'
    BY <2>1, NextReasons, NextWatched, NextSecond
  <2> QED BY <2>2, <2>3 DEF Reasoned
<1> QED BY <1>1, <1>2, PTL DEF Spec

(* For any number of requests and losses: a receiver gives a file up only   *)
(* when the sender has let go of it, or when more pieces, letters and       *)
(* channels were lost than the receiver may ask for.                        *)
THEOREM GivingUpHasAReason == Spec => []GivesUpWithReason
<1>1. Reasoned => GivesUpWithReason
  BY DEF Reasoned
<1> QED BY <1>1, ReasonedInvariant, PTL

(* A file that fits a mailbox and left over a channel still up at the end   *)
(* is with the receiver once all has come to rest, if no side was reloaded, *)
(* the second try did not fail and no more was lost than can be asked for.  *)
THEOREM SentLiveIsThere == Spec => []SentLiveArrives
<1>1. ASSUME Inv, Reasoned PROVE SentLiveArrives
  <2> SUFFICES ASSUME watch = "fired", Settled, phase[2] # "failed", reloads = 0, losses <= MaxAsks
               PROVE  kept = Piece
    BY DEF SentLiveArrives
  <2>1. \/ kept = Piece \/ losses > MaxAsks
        \/ Tells(box["sender"], "start", 2) \/ inc[2] # NoRecord
    BY <1>1 DEF Reasoned, Second
  <2>2. box["sender"] = <<>> /\ inc[2] = NoRecord
    BY DEF Settled, End, Attempt
  <2>3. ~(losses > MaxAsks)
    BY <1>1 DEF Inv, TypeOK
  <2> QED BY <2>1, <2>2, <2>3, NothingOn
<1> QED BY <1>1, ReasonedInvariant, PTL

(***************************************************************************)
(* To the two people, all of it is Parcel.                                 *)
(***************************************************************************)

\* A first upload under way has an entry that is not yet final, or one that a
\* receipt already made so; a second try has no offer to wait for.
Underway == /\ phase[1] \in {"asking", "sending"} => status \in {"queued", "delivered"}
            /\ phase[2] # "asking"

\* What the steps of the entry are in Parcel.
LEMMA EntryIsParcel ==
  ASSUME kept' = kept, declined' = declined,
         \/ status = "none" /\ status' = "queued"
         \/ status = "queued" /\ status' = "sent"
         \/ kept = Piece /\ status' = "delivered"
         \/ status \in {"queued", "delivered"} /\ status' = "failed"
         \/ status' = status
  PROVE  [People!Next]_(People!vars)
<1>1. Got' = Got /\ Refused' = Refused
  BY DEF Got, Refused
<1>2. kept = Piece => Got = "whole"
  <2>1. 0 \in Piece
    BY DEF Piece
  <2> QED BY <2>1 DEF Got
<1> QED BY <1>1, <1>2 DEF People!Next, People!vars, People!Send, People!HandOver,
        People!Acknowledge, People!GiveUp

LEMMA FailsIsParcel ==
  ASSUME Inv, Underway, NEW t \in Attempt, Fails(t), phase[t] \in {"asking", "sending"},
         kept' = kept, declined' = declined
  PROVE  [People!Next]_(People!vars) /\ Underway'
<1>1. phase'[t] = "failed" /\ \A s \in Attempt : s # t => phase'[s] = phase[s]
  BY DEF Fails, Inv, TypeOK
<1>2. status' = status \/ (status \in {"queued", "delivered"} /\ status' = "failed")
  BY DEF Fails, Underway
<1>3. t = 2 => status' = status
  BY DEF Fails
<1> QED BY <1>1, <1>2, <1>3, EntryIsParcel DEF Underway, Attempt

\* A file is put together only where no question is open and nothing refused.
LEMMA ReceiverHearsIsParcel ==
  ASSUME Inv, ReceiverHears
  PROVE  [People!Next]_(People!vars)
<1>1. status' = status /\ declined' = declined
  BY DEF ReceiverHears, sender
<1>2. PICK m : Read("sender", m) /\ (HearChunk(m) \/ UNCHANGED kept)
  BY WireRead, BoxRead DEF Inv, ReceiverHears, End, HearLiveStart, HearRelayStart
<1>3. CASE UNCHANGED kept
  BY <1>1, <1>3, EntryIsParcel
<1>4. CASE kept' # kept
  <2>1. HearChunk(m)
    BY <1>2, <1>4
  <2>2. m.t \in Attempt /\ kept' = Taken(inc[m.t], m).data
        /\ inc[m.t] # NoRecord /\ Taken(inc[m.t], m).seen = Piece
    BY <1>2, <1>4, <2>1 DEF HearChunk, Read, Letter
  <2>3. kept' = Piece
    <3>1. inc[m.t] \in Record /\ inc[m.t].data = inc[m.t].seen
      BY <2>2 DEF Inv, TypeOK, Whole
    <3> QED BY <1>2, <2>2, <3>1, TakenTyped DEF Read
  <2>4. status # "none" /\ declined = {}
    BY <1>2, HeardLoud
  <2>5. Got' = "whole" /\ ~Refused /\ Refused' = Refused
    <3>1. 0 \in Piece
      BY DEF Piece
    <3> QED BY <1>1, <2>3, <2>4, <3>1 DEF Got, Refused
  <2> QED BY <1>1, <2>4, <2>5 DEF People!Next, People!Arrive
<1> QED BY <1>3, <1>4

LEMMA DeclineIsParcel ==
  ASSUME Inv, NEW t \in Attempt, DeclineFile(t)
  PROVE  [People!Next]_(People!vars)
<1>1. t = 1 /\ kept = {} /\ status # "none"
  BY DEF DeclineFile, Inv, Calm, FirstOnly, Asked, Quiet, NotSent, Pending, Attempt
<1>2. kept' = kept /\ status' = status /\ Refused'
  BY DEF DeclineFile, sender, Refused
<1> QED BY <1>1, <1>2 DEF People!Next, People!Refuse, Got

LEMMA SenderHearsIsParcel ==
  ASSUME Inv, Underway, SenderHears
  PROVE  [People!Next]_(People!vars) /\ Underway'
<1>1. PICK m : Read("receiver", m) /\ (HearAccept(m) \/ HearDecline(m) \/ HearAsk(m) \/ HearReceipt(m))
  BY WireRead, BoxRead DEF Inv, SenderHears, End
<1>2. kept' = kept /\ declined' = declined /\ m.t \in Attempt
  BY <1>1 DEF SenderHears, receiver, Read, Letter
<1>3. CASE HearAccept(m)
  BY <1>2, <1>3, EntryIsParcel DEF HearAccept, Underway, Inv, TypeOK, Attempt
<1>4. CASE HearDecline(m)
  <2>1. CASE phase[m.t] = "asking"
    BY <1>2, <1>4, <2>1, FailsIsParcel DEF HearDecline
  <2>2. CASE phase[m.t] # "asking"
    BY <1>2, <1>4, <2>2, EntryIsParcel DEF HearDecline, Underway
  <2> QED BY <2>1, <2>2
<1>5. CASE HearAsk(m)
  BY <1>2, <1>5, EntryIsParcel DEF HearAsk, Underway
<1>6. CASE HearReceipt(m)
  <2>1. kept = Piece
    BY <1>1, <1>6 DEF HearReceipt, Read, Inv, Whole, Says
  <2> QED BY <1>2, <1>6, <2>1, EntryIsParcel DEF HearReceipt, Underway
<1> QED BY <1>1, <1>3, <1>4, <1>5, <1>6

LEMMA UploadIsParcel ==
  ASSUME Inv, Underway, NEW t \in Attempt,
         \/ SendFile \/ Cancel \/ FireWatch \/ Sends(t) \/ StopUpload(t) \/ ConsentTimeout(t)
  PROVE  [People!Next]_(People!vars) /\ Underway'
<1>1. kept' = kept /\ declined' = declined
  BY DEF SendFile, Cancel, FireWatch, Sends, SendChunk, FinishUpload, StopUpload,
         ConsentTimeout, receiver
<1>2. CASE SendFile
  BY <1>1, <1>2, EntryIsParcel DEF SendFile, Underway, Inv, TypeOK, Attempt
<1>3. CASE Cancel
  BY <1>1, <1>3, EntryIsParcel DEF Cancel, Underway
<1>4. CASE FireWatch
  <2>1. status' = status /\ (phase' = phase \/ phase' = [phase EXCEPT ![2] = "sending"])
    BY <1>4 DEF FireWatch
  <2> QED BY <1>1, <2>1, EntryIsParcel DEF Underway, Inv, TypeOK, Attempt
<1>5. CASE SendChunk(t)
  BY <1>1, <1>5, EntryIsParcel DEF SendChunk, Underway
<1>6. CASE FinishUpload(t)
  <2>1. phase[t] = "sending" /\ phase' = [phase EXCEPT ![t] = "done"]
        /\ status' = IF t = 2 \/ status = "delivered" THEN status
                     ELSE IF open["sender"] THEN "sent" ELSE "queued"
    BY <1>6 DEF FinishUpload
  <2>2. status' = status \/ (status = "queued" /\ status' = "sent")
    BY <2>1 DEF Underway, Attempt
  <2>3. t = 2 => status' = status
    BY <2>1
  <2> QED BY <1>1, <2>1, <2>2, <2>3, EntryIsParcel DEF Underway, Inv, TypeOK, Attempt
<1>7. CASE StopUpload(t)
  BY <1>1, <1>7, FailsIsParcel DEF StopUpload
<1>8. CASE ConsentTimeout(t)
  BY <1>1, <1>8, FailsIsParcel DEF ConsentTimeout
<1> QED BY <1>2, <1>3, <1>4, <1>5, <1>6, <1>7, <1>8 DEF Sends

\* The rest moves what the two people do not see.
LEMMA UnseenIsParcel ==
  ASSUME Inv, Underway, NEW t \in Attempt, NEW e \in End,
         \/ Resend(t) \/ Forget(t) \/ SendReceipt(t) \/ AcceptFile(t) \/ QuestionLapses(t)
         \/ Stalled(t) \/ ChannelBreaks \/ Notices(e) \/ SenderReloads \/ ReceiverReloads
         \/ UNCHANGED vars
  PROVE  [People!Next]_(People!vars) /\ Underway'
<1>1. UNCHANGED <<status, kept, declined>>
  BY DEF Resend, Forget, SendReceipt, AcceptFile, QuestionLapses, Stalled, ChannelBreaks,
         Notices, SenderReloads, ReceiverReloads, vars, sender, receiver
<1>2. CASE SenderReloads
  <2>1. phase' = [s \in Attempt |-> IF phase[s] \in {"asking", "sending"} THEN "gone"
                                    ELSE phase[s]]
    BY <1>2 DEF SenderReloads
  <2> QED BY <1>1, <2>1, EntryIsParcel DEF Underway, Attempt
<1>3. CASE ~SenderReloads
  <2>1. phase' = phase
    BY <1>3 DEF Resend, Forget, SendReceipt, AcceptFile, QuestionLapses, Stalled,
         ChannelBreaks, Notices, ReceiverReloads, vars, sender
  <2> QED BY <1>1, <2>1, EntryIsParcel DEF Underway
<1> QED BY <1>2, <1>3

LEMMA ParcelStep ==
  ASSUME Inv, Underway, [Next]_vars
  PROVE  [People!Next]_(People!vars) /\ Underway'
<1>1. CASE SendFile \/ Cancel \/ FireWatch
  BY <1>1, UploadIsParcel DEF Attempt
<1>2. CASE SenderHears
  BY <1>2, SenderHearsIsParcel
<1>3. CASE ReceiverHears
  <2>1. Underway'
    BY <1>3 DEF ReceiverHears, sender, Underway
  <2> QED BY <1>3, <2>1, ReceiverHearsIsParcel
<1>4. ASSUME NEW t \in Attempt, Sends(t) \/ StopUpload(t) \/ ConsentTimeout(t)
      PROVE  [People!Next]_(People!vars) /\ Underway'
  BY <1>4, UploadIsParcel
<1>5. ASSUME NEW t \in Attempt, DeclineFile(t)
      PROVE  [People!Next]_(People!vars) /\ Underway'
  <2>1. Underway'
    BY <1>5 DEF DeclineFile, sender, Underway
  <2> QED BY <1>5, <2>1, DeclineIsParcel
<1>6. ASSUME NEW t \in Attempt, Resend(t) \/ Forget(t) \/ SendReceipt(t) \/ AcceptFile(t)
                                \/ QuestionLapses(t) \/ Stalled(t)
      PROVE  [People!Next]_(People!vars) /\ Underway'
  BY <1>6, UnseenIsParcel DEF End
<1>7. CASE ChannelBreaks \/ (\E e \in End : Notices(e)) \/ SenderReloads \/ ReceiverReloads
           \/ UNCHANGED vars
  BY <1>7, UnseenIsParcel DEF Attempt, End
<1> QED BY <1>1, <1>2, <1>3, <1>4, <1>5, <1>6, <1>7 DEF Next, Clocks

LEMMA ParcelInit == Init => People!Init /\ Underway
BY DEF Init, People!Init, Got, Refused, Underway, Attempt

(* Sender, channel, relay and receiver together are what the two people may *)
(* believe: the entry says delivered only of a file the other has whole,   *)
(* nothing kept is in parts or lost again, nothing refused arrives later,  *)
(* and a file that was handed over is never shown as failed.               *)
THEOREM TransferImplementsParcel == Spec => ImplementsParcel
<1>1. Init => People!Init /\ Underway
  BY ParcelInit
<1>2. Inv /\ Underway /\ [Next]_vars => [People!Next]_(People!vars) /\ Underway'
  BY ParcelStep
<1> QED BY <1>1, <1>2, Invariance, PTL DEF Spec, ImplementsParcel, People!Spec

=============================================================================
