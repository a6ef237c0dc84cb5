---------------------------- MODULE MailboxProofs ----------------------------
(***************************************************************************)
(* What the mailbox of Mailbox guarantees for every set of devices, every  *)
(* bound and every combination of environment events.                      *)
(***************************************************************************)
EXTENDS Mailbox, TLAPS, FiniteSetTheorems

-----------------------------------------------------------------------------
(* What the helpers of the model return.                                   *)

\* The retention sweep only ever takes out.
LEMMA SweptSubset == ASSUME NEW b, NEW k PROVE Swept(b, k) \subseteq b
  BY DEF Swept, Newest

\* What leaves in a sweep has a notice due, or is a reservation that lapsed.
LEMMA SweepAccounts ==
  ASSUME NEW b \in SUBSET Id, NEW k, NEW m \in b, m \notin Swept(b, k)
  PROVE  \/ LogAfter(b, k)[m] = "due"
         \/ m \in overdue /\ k[m] = "offer"
  BY DEF LogAfter, Expired, Lapsed, Stale

\* The expiry log only gains notices.
LEMMA LogKeepsNotices ==
  ASSUME NEW b, NEW k, NEW m \in Id, expiryLog[m] # "no"
  PROVE  LogAfter(b, k)[m] # "no" /\ Told(LogAfter(b, k))[m] # "no"
  BY DEF LogAfter, Told

\* The expiry log keeps its type.
LEMMA LogType ==
  ASSUME NEW b, NEW k, expiryLog \in [Id -> {"no", "due", "done"}]
  PROVE  /\ LogAfter(b, k) \in [Id -> {"no", "due", "done"}]
         /\ Told(LogAfter(b, k)) \in [Id -> {"no", "due", "done"}]
  BY DEF LogAfter, Told

\* Cutting sockets and setting one socket's set keep a function's type.
LEMMA CutType ==
  ASSUME NEW T, NEW f \in [Device -> SUBSET T], NEW C
  PROVE  Cut(f, C) \in [Device -> SUBSET T]
  BY DEF Cut

LEMMA AtType ==
  ASSUME NEW T, NEW f \in [Device -> SUBSET T], NEW d, NEW S \in SUBSET T
  PROVE  At(f, d, S) \in [Device -> SUBSET T]
  BY DEF At

\* The pump keeps the types of what it writes.
LEMMA PumpType ==
  ASSUME NEW d \in Device, NEW b \in SUBSET Id,
         NEW s \in [Device -> SUBSET Frame], NEW w \in [Device -> SUBSET Frame],
         PumpHeldMail(d, b, s, w)
  PROVE  /\ sentMail' \in [Device -> SUBSET Frame]
         /\ wire' \in [Device -> SUBSET Frame]
<1>1. PICK n \in BatchSizes(d, s[d]) :
        /\ sentMail' = At(s, d, s[d] \cup Oldest(b \ s[d], n))
        /\ wire' = At(w, d, w[d] \cup Oldest(b \ s[d], n))
  BY DEF PumpHeldMail
<1>2. Oldest(b \ s[d], n) \in SUBSET Frame
  BY DEF Oldest, Frame
<1>3. s[d] \cup Oldest(b \ s[d], n) \in SUBSET Frame
  BY <1>2
<1>4. w[d] \cup Oldest(b \ s[d], n) \in SUBSET Frame
  BY <1>2
<1> QED BY <1>1, <1>3, <1>4, AtType

-----------------------------------------------------------------------------
(* Types.                                                                  *)

\* The sweep keeps the mailbox's type.
LEMMA SweepType ==
  ASSUME NEW b \in SUBSET Id, NEW k, NEW armed \in BOOLEAN,
         SweepRetention(b, k, armed)
  PROVE  box' \subseteq Id /\ saveArmed' \in BOOLEAN
  BY SweptSubset DEF SweepRetention

\* Handing over the held mail keeps every type it touches.
LEMMA DeliverHeldType ==
  ASSUME TypeOK, NEW d \in Device,
         NEW s \in [Device -> SUBSET Frame], NEW w \in [Device -> SUBSET Frame],
         DeliverHeldMail(d, s, w)
  PROVE  /\ box' \subseteq Id
         /\ saveArmed' \in BOOLEAN
         /\ expiryLog' \in [Id -> {"no", "due", "done"}]
         /\ sentMail' \in [Device -> SUBSET Frame]
         /\ wire' \in [Device -> SUBSET Frame]
<1>1. SweepRetention(box, kind, saveArmed)
  BY DEF DeliverHeldMail
<1>2. box' \subseteq Id /\ saveArmed' \in BOOLEAN
  BY <1>1, SweepType DEF TypeOK
<1>3. expiryLog' \in [Id -> {"no", "due", "done"}]
  BY LogType DEF DeliverHeldMail, TypeOK
<1>4. At(s, d, {}) \in [Device -> SUBSET Frame]
  BY AtType
<1>5. Swept(box, kind) \in SUBSET Id
  BY SweptSubset DEF TypeOK
<1>6. \/ PumpHeldMail(d, Swept(box, kind), At(s, d, {}), w)
      \/ sentMail' = s /\ wire' = w
  BY DEF DeliverHeldMail
<1>7. sentMail' \in [Device -> SUBSET Frame] /\ wire' \in [Device -> SUBSET Frame]
  BY <1>4, <1>5, <1>6, PumpType
<1> QED BY <1>2, <1>3, <1>7

LEMMA TypeInit == Init => TypeOK
<1>1. 0 \in 0 .. MaxMsg
  BY MailboxAssumption DEF MailboxAssumption
<1>2. Nothing \in [Device -> SUBSET Frame]
  BY DEF Nothing
<1> QED BY <1>1, <1>2 DEF Init, TypeOK

\* Each socket action keeps the types.
LEMMA TypeDevice ==
  ASSUME TypeOK, NEW d \in Device, DeviceNext(d)
  PROVE  TypeOK'
<1>1. CASE Connect(d)
  BY <1>1 DEF Connect, TypeOK, relayVars
<1>2. CASE Rehello(d)
  BY <1>2 DEF Rehello, TypeOK, relayVars
<1>3. CASE Disconnect(d)
  BY <1>3, CutType DEF Disconnect, TypeOK
<1>7. CASE Congest(d)
  BY <1>7 DEF Congest, TypeOK, relayVars
<1>4. CASE IdProof(d)
  <2>1. /\ Cut(sentMail, Duplicates(d)) \in [Device -> SUBSET Frame]
        /\ Cut(wire, Duplicates(d)) \in [Device -> SUBSET Frame]
        /\ Cut(acks, Duplicates(d)) \in [Device -> SUBSET Frame]
    BY CutType DEF TypeOK
  <2>2. DeliverHeldMail(d, Cut(sentMail, Duplicates(d)), Cut(wire, Duplicates(d)))
    BY <1>4 DEF IdProof
  <2>3. /\ box' \subseteq Id
        /\ saveArmed' \in BOOLEAN
        /\ expiryLog' \in [Id -> {"no", "due", "done"}]
        /\ sentMail' \in [Device -> SUBSET Frame]
        /\ wire' \in [Device -> SUBSET Frame]
    BY <2>1, <2>2, DeliverHeldType
  <2>4. /\ open' \subseteq Device
        /\ proven' \subseteq open'
        /\ verified' \subseteq open'
        /\ full' \subseteq open'
    BY <1>4 DEF IdProof, TypeOK, Duplicates
  <2> QED BY <1>4, <2>1, <2>3, <2>4 DEF IdProof, TypeOK
<1>5. CASE Receive(d)
  <2>1. PICK m \in wire[d] :
          /\ wire' = [wire EXCEPT ![d] = @ \ {m}]
          /\ got' = IF d \in Owner THEN got \cup ({m} \cap Id) ELSE got
          /\ acks' = [acks EXCEPT ![d] = @ \cup {m}]
          /\ UNCHANGED <<relayVars, socketVars, disk, expiryLog, excused>>
    BY <1>5 DEF Receive
  <2> QED BY <2>1 DEF TypeOK, relayVars, socketVars
<1>6. CASE RelayAck(d)
  <2>1. PICK m \in acks[d] :
          /\ acks' = [acks EXCEPT ![d] = @ \ {m}]
          /\ \/ UNCHANGED <<box, saveArmed, sentMail, wire>>
             \/ /\ box' = box \ {m}
                /\ saveArmed' = (saveArmed \/ m \in box)
                /\ PumpHeldMail(d, box \ {m},
                                At(sentMail, d, sentMail[d] \ {m}), wire)
          /\ UNCHANGED <<last, kind, overdue, socketVars, draining, disk,
                         expiryLog, got, excused>>
    BY <1>6 DEF RelayAck
  <2>2. At(sentMail, d, sentMail[d] \ {m}) \in [Device -> SUBSET Frame]
    <3>1. sentMail[d] \ {m} \in SUBSET Frame
      BY DEF TypeOK
    <3> QED BY <3>1, AtType DEF TypeOK
  <2>3. box \ {m} \in SUBSET Id
    BY DEF TypeOK
  <2>4. /\ sentMail' \in [Device -> SUBSET Frame]
        /\ wire' \in [Device -> SUBSET Frame]
    BY <2>1, <2>2, <2>3, PumpType DEF TypeOK
  <2>5. box' \subseteq Id /\ saveArmed' \in BOOLEAN
    BY <2>1 DEF TypeOK
  <2>6. acks' \in [Device -> SUBSET Frame]
    BY <2>1 DEF TypeOK
  <2> QED BY <2>1, <2>4, <2>5, <2>6 DEF TypeOK, socketVars
<1> QED BY <1>1, <1>2, <1>3, <1>4, <1>5, <1>6, <1>7 DEF DeviceNext

\* Queueing an envelope uses the next number and gives it its kind.
LEMMA QueueType ==
  ASSUME TypeOK, NEW k, Queue(k)
  PROVE  /\ last \in Nat
         /\ last' = last + 1
         /\ last + 1 \in Id
         /\ last' \in 0 .. MaxMsg
         /\ kind' \in [Id -> EnvelopeKinds \cup {"none"}]
         /\ box \cup {last + 1} \in SUBSET Id
<1>1. k \in EnvelopeKinds
  BY MailboxAssumption DEF Queue, MailboxAssumption
<1>2. last \in Nat /\ last + 1 \in 1 .. MaxMsg /\ last + 1 \in 0 .. MaxMsg
  BY MailboxAssumption DEF Queue, TypeOK, MailboxAssumption
<1> QED BY <1>1, <1>2 DEF Queue, TypeOK, Id

LEMMA TypeDeliver ==
  ASSUME TypeOK, NEW k \in Kinds, Deliver(k)
  PROVE  TypeOK'
<1>1. CASE DeliverOffline(k)
  <2>1. Queue(k)
    BY <1>1 DEF DeliverOffline
  <2>2. box' \subseteq Id /\ saveArmed' \in BOOLEAN
    BY <1>1, <2>1, QueueType, SweepType DEF DeliverOffline
  <2>3. expiryLog' \in [Id -> {"no", "due", "done"}]
    BY <1>1, LogType DEF DeliverOffline, TypeOK
  <2> QED BY <1>1, <2>1, <2>2, <2>3, QueueType
          DEF DeliverOffline, TypeOK, socketVars
<1>2. CASE DeliverOnline(k)
  <2>1. Queue(k)
    BY <1>2 DEF DeliverOnline
  <2>2. box' \subseteq Id /\ saveArmed' \in BOOLEAN
    BY <1>2, <2>1, QueueType, SweepType DEF DeliverOnline
  <2>3. expiryLog' \in [Id -> {"no", "due", "done"}]
    BY <1>2, LogType DEF DeliverOnline, TypeOK
  <2>4. wire' \in [Device -> SUBSET Frame]
    BY <1>2, <2>1, QueueType DEF DeliverOnline, TypeOK, Frame
  <2> QED BY <1>2, <2>1, <2>2, <2>3, <2>4, QueueType
          DEF DeliverOnline, TypeOK, socketVars
<1> QED BY <1>1, <1>2 DEF Deliver

\* Restarting from a mailbox gives well-typed memory.
LEMMA TypeRestart ==
  ASSUME TypeOK, NEW b \in SUBSET Id, Restart(b), excused' \in SUBSET Id
  PROVE  TypeOK'
  BY DEF Restart, TypeOK, Nothing

LEMMA TypeWithdraw ==
  ASSUME TypeOK, NEW S \in SUBSET box, Withdraw(S)
  PROVE  TypeOK'
  BY DEF Withdraw, TakeOut, TypeOK, socketVars

LEMMA TypeDrop ==
  ASSUME TypeOK, NEW S \in SUBSET box, QueueDrop(S)
  PROVE  TypeOK'
  BY DEF QueueDrop, TakeOut, SaveOfflineBoxes, TypeOK, socketVars

LEMMA TypeAnnounce == ASSUME TypeOK, Announce PROVE TypeOK'
<1>1. last \in Nat /\ last + 1 \in Id /\ last + 1 \in 0 .. MaxMsg
  BY MailboxAssumption DEF Announce, TypeOK, MailboxAssumption, Id
<1>2. wire' \in [Device -> SUBSET Frame]
  BY DEF Announce, TypeOK, Frame
<1> QED BY <1>1, <1>2
        DEF Announce, SaveOfflineBoxes, TypeOK, socketVars, EnvelopeKinds

LEMMA TypeFlush == ASSUME TypeOK, QueueFlush PROVE TypeOK'
<1>1. box' \subseteq Id /\ saveArmed' \in BOOLEAN
  BY SweepType DEF QueueFlush, TypeOK
<1>2. expiryLog' \in [Id -> {"no", "due", "done"}]
  BY LogType DEF QueueFlush, TypeOK
<1>3. PICK D : sentMail' = Cut(sentMail, D)
  BY DEF QueueFlush
<1>4. sentMail' \in [Device -> SUBSET Frame]
  BY <1>3, CutType DEF TypeOK
<1> QED BY <1>1, <1>2, <1>4 DEF QueueFlush, TypeOK, socketVars

LEMMA TypeClock == ASSUME TypeOK, ClockNext PROVE TypeOK'
<1>1. CASE RetentionSweep
  <2>1. box' \subseteq Id /\ saveArmed' \in BOOLEAN
    BY <1>1, SweepType DEF RetentionSweep, TypeOK
  <2>2. expiryLog' \in [Id -> {"no", "due", "done"}]
    BY <1>1, LogType DEF RetentionSweep, TypeOK
  <2> QED BY <1>1, <2>1, <2>2 DEF RetentionSweep, TypeOK, socketVars
<1>2. ASSUME NEW m \in Id, EnvelopeAges(m) PROVE TypeOK'
  BY <1>2 DEF EnvelopeAges, TypeOK, socketVars
<1>3. ASSUME NEW m \in Id, NoticeAges(m) PROVE TypeOK'
  BY <1>3 DEF NoticeAges, TypeOK, relayVars, socketVars
<1> QED BY <1>1, <1>2, <1>3 DEF ClockNext

LEMMA TypeProcess == ASSUME TypeOK, ProcessNext PROVE TypeOK'
<1>1. CASE SaveOfflineBoxNow
  BY <1>1 DEF SaveOfflineBoxNow, SaveOfflineBoxes, TypeOK, socketVars
<1>2. CASE Crash
  <2>1. Restart(disk) /\ excused' \in SUBSET Id
    BY <1>2 DEF Crash, TypeOK
  <2> QED BY <2>1, TypeRestart DEF TypeOK
<1>3. CASE FatalError
  <2>1. Restart(box) /\ excused' \in SUBSET Id
    BY <1>3 DEF FatalError, TypeOK
  <2> QED BY <2>1, TypeRestart DEF TypeOK
<1>4. CASE BeginShutdown
  BY <1>4 DEF BeginShutdown, SaveOfflineBoxes, TypeOK, socketVars
<1>5. CASE Exit
  <2>1. Restart(disk) /\ excused' \in SUBSET Id
    BY <1>5 DEF Exit, TypeOK
  <2> QED BY <2>1, TypeRestart DEF TypeOK
<1> QED BY <1>1, <1>2, <1>3, <1>4, <1>5 DEF ProcessNext

LEMMA TypeStep == TypeOK /\ [Next]_vars => TypeOK'
<1> SUFFICES ASSUME TypeOK, [Next]_vars PROVE TypeOK'
  OBVIOUS
<1>1. CASE \E d \in Device : DeviceNext(d)
  BY <1>1, TypeDevice
<1>2. CASE \E k \in Kinds : Deliver(k)
  BY <1>2, TypeDeliver
<1>3. CASE ClockNext
  BY <1>3, TypeClock
<1>4. CASE \E S \in SUBSET box : Withdraw(S)
  BY <1>4, TypeWithdraw
<1>5. CASE PurgeMe
  BY <1>5 DEF PurgeMe, TypeOK, socketVars
<1>6. CASE OperatorNext
  <2>1. CASE \E m \in box : QueueDrop({m})
    BY <2>1, TypeDrop
  <2>2. CASE QueueDrop(box)
    BY <2>2, TypeDrop
  <2> QED BY <1>6, <2>1, <2>2, TypeAnnounce, TypeFlush DEF OperatorNext
<1>7. CASE ProcessNext
  BY <1>7, TypeProcess
<1>8. CASE UNCHANGED vars
  BY <1>8 DEF vars, TypeOK
<1> QED BY <1>1, <1>2, <1>3, <1>4, <1>5, <1>6, <1>7, <1>8 DEF Next

\* The mailbox, the index of verified sockets, the windows and the wires
\* keep their types: in particular no closed socket stays verified.
THEOREM TypeCorrect == Spec => []TypeOK
<1>1. Init => TypeOK
  BY TypeInit
<1>2. TypeOK /\ [Next]_vars => TypeOK'
  BY TypeStep
<1> QED BY <1>1, <1>2, PTL DEF Spec

-----------------------------------------------------------------------------
(* Durability.                                                             *)

\* Every action that leaves the mailbox and its file different leaves a
\* write armed.  The sweep arms one whenever it shortens the mailbox.
LEMMA SaveStep == TypeOK /\ SaveDiscipline /\ [Next]_vars => SaveDiscipline'
<1> SUFFICES ASSUME TypeOK, SaveDiscipline, [Next]_vars
             PROVE  SaveDiscipline'
  OBVIOUS
<1> USE DEF SaveDiscipline
<1>1. ASSUME NEW d \in Device, DeviceNext(d) PROVE SaveDiscipline'
  <2>1. CASE Connect(d)
    BY <2>1 DEF Connect, relayVars
  <2>2. CASE Rehello(d) \/ Congest(d)
    BY <2>2 DEF Rehello, Congest, relayVars
  <2>3. CASE Disconnect(d)
    BY <2>3 DEF Disconnect
  <2>4. CASE IdProof(d)
    BY <2>4 DEF IdProof, DeliverHeldMail, SweepRetention
  <2>5. CASE Receive(d)
    BY <2>5 DEF Receive, relayVars
  <2>6. CASE RelayAck(d)
    <3>1. PICK m \in acks[d] :
            /\ \/ UNCHANGED <<box, saveArmed>>
               \/ /\ box' = box \ {m}
                  /\ saveArmed' = (saveArmed \/ m \in box)
            /\ UNCHANGED disk
      BY <2>6 DEF RelayAck
    <3>2. CASE m \in box
      BY <3>1, <3>2
    <3>3. CASE m \notin box
      <4>1. box' = box /\ (saveArmed => saveArmed')
        BY <3>1, <3>3
      <4> QED BY <3>1, <4>1
    <3> QED BY <3>2, <3>3
  <2> QED BY <1>1, <2>1, <2>2, <2>3, <2>4, <2>5, <2>6 DEF DeviceNext
<1>2. ASSUME NEW k \in Kinds, Deliver(k) PROVE SaveDiscipline'
  BY <1>2 DEF Deliver, DeliverOffline, DeliverOnline, SweepRetention
<1>3. CASE ClockNext
  BY <1>3 DEF ClockNext, RetentionSweep, SweepRetention, EnvelopeAges,
              NoticeAges, relayVars
<1>4. CASE \E S \in SUBSET box : Withdraw(S)
  BY <1>4 DEF Withdraw
<1>5. CASE PurgeMe
  BY <1>5 DEF PurgeMe
<1>6. CASE OperatorNext
  <2>1. ASSUME NEW S, QueueDrop(S) PROVE SaveDiscipline'
    BY <2>1 DEF QueueDrop, TakeOut, SaveOfflineBoxes
  <2>2. CASE Announce
    BY <2>2 DEF Announce, SaveOfflineBoxes
  <2>3. CASE QueueFlush
    BY <2>3 DEF QueueFlush, SweepRetention
  <2> QED BY <1>6, <2>1, <2>2, <2>3 DEF OperatorNext
<1>7. CASE ProcessNext
  BY <1>7 DEF ProcessNext, SaveOfflineBoxNow, SaveOfflineBoxes, Crash,
              FatalError, Restart, BeginShutdown, Exit
<1>8. CASE UNCHANGED vars
  BY <1>8 DEF vars
<1> QED BY <1>1, <1>2, <1>3, <1>4, <1>5, <1>6, <1>7, <1>8 DEF Next

\* A mailbox that differs from its file always has a write armed, so a crash
\* undoes no more than the debounce.
THEOREM AlwaysSaved == Spec => []SaveDiscipline
<1>1. Init => SaveDiscipline
  BY DEF Init, SaveDiscipline
<1>2. TypeOK /\ SaveDiscipline /\ [Next]_vars => SaveDiscipline'
  BY SaveStep
<1> QED BY <1>1, <1>2, TypeCorrect, PTL DEF Spec

\* The steps that let mail into the mailbox let in the next number, or are a
\* restart.
LEMMA ResurrectStep ==
  ASSUME TypeOK, SaveDiscipline, Next, NEW m \in Id, m <= last, m \notin box,
         m \in box'
  PROVE  saveArmed /\ m \in disk /\ open' = {}
<1> USE DEF SaveDiscipline
<1>0. m # last + 1 /\ \A b, k : m \in Swept(b, k) => m \in b
  BY SweptSubset, MailboxAssumption DEF TypeOK, MailboxAssumption, Id
<1>1. ASSUME NEW d \in Device, DeviceNext(d) PROVE FALSE
  <2>1. CASE Connect(d)
    BY <2>1 DEF Connect, relayVars
  <2>2. CASE Rehello(d) \/ Congest(d)
    BY <2>2 DEF Rehello, Congest, relayVars
  <2>3. CASE Disconnect(d)
    BY <2>3 DEF Disconnect
  <2>4. CASE IdProof(d)
    BY <2>4, <1>0 DEF IdProof, DeliverHeldMail, SweepRetention
  <2>5. CASE Receive(d)
    BY <2>5 DEF Receive, relayVars
  <2>6. CASE RelayAck(d)
    BY <2>6 DEF RelayAck
  <2> QED BY <1>1, <2>1, <2>2, <2>3, <2>4, <2>5, <2>6 DEF DeviceNext
<1>2. ASSUME NEW k \in Kinds, Deliver(k) PROVE FALSE
  BY <1>2, <1>0 DEF Deliver, DeliverOffline, DeliverOnline, SweepRetention
<1>3. CASE ClockNext
  BY <1>3, <1>0 DEF ClockNext, RetentionSweep, SweepRetention, EnvelopeAges,
                    NoticeAges, relayVars
<1>4. CASE \E S \in SUBSET box : Withdraw(S)
  BY <1>4 DEF Withdraw, TakeOut
<1>5. CASE PurgeMe
  BY <1>5 DEF PurgeMe
<1>6. CASE OperatorNext
  BY <1>6, <1>0 DEF OperatorNext, QueueDrop, TakeOut, Announce, QueueFlush,
                    SweepRetention
<1>7. CASE ProcessNext
  <2>1. CASE SaveOfflineBoxNow \/ BeginShutdown
    BY <2>1 DEF SaveOfflineBoxNow, BeginShutdown
  <2>2. CASE Crash \/ Exit
    BY <2>2 DEF Crash, Exit, Restart
  <2>3. CASE FatalError
    BY <2>3 DEF FatalError, Restart
  <2> QED BY <1>7, <2>1, <2>2, <2>3 DEF ProcessNext
<1> QED BY <1>1, <1>2, <1>3, <1>4, <1>5, <1>6, <1>7 DEF Next

\* Delivered, withdrawn, dropped or expired mail stays gone: only a restart
\* that found it on disk, its removal not written yet, brings it back.
THEOREM NoResurrection == Spec => NeverResurrected
<1>1. TypeOK /\ SaveDiscipline /\ [Next]_vars =>
        [\A m \in Id : m <= last /\ m \notin box /\ m \in box'
           => saveArmed /\ m \in disk /\ open' = {}]_vars
  BY ResurrectStep DEF vars
<1> QED BY <1>1, TypeCorrect, AlwaysSaved, PTL DEF Spec, NeverResurrected

-----------------------------------------------------------------------------
(* Who mail reaches.                                                       *)

\* Only holders of the key are proven or routed to.
KeyHolders == proven \subseteq Owner /\ verified \subseteq Owner

\* Nobody else is credited with mail.
NoCredit == \A d \in Device \ Owner : sentMail[d] = {}

OwnerInv == KeyHolders /\ NoCredit

\* The pump touches one connection.
LEMMA PumpLocal ==
  ASSUME NEW d \in Device, NEW e \in Device, e # d,
         NEW b, NEW s, NEW w, PumpHeldMail(d, b, s, w)
  PROVE  sentMail'[e] = s[e] /\ wire'[e] = w[e]
  BY DEF PumpHeldMail, At

\* So does handing over the held mail.
LEMMA DeliverHeldLocal ==
  ASSUME NEW d \in Device, NEW e \in Device, e # d,
         NEW s, NEW w, DeliverHeldMail(d, s, w)
  PROVE  sentMail'[e] = s[e] /\ wire'[e] = w[e]
<1>1. At(s, d, {})[e] = s[e]
  BY DEF At
<1> QED BY <1>1, PumpLocal DEF DeliverHeldMail

LEMMA OwnerStep == TypeOK /\ OwnerInv /\ [Next]_vars => OwnerInv'
<1> SUFFICES ASSUME TypeOK, OwnerInv, [Next]_vars PROVE OwnerInv'
  OBVIOUS
<1> USE DEF OwnerInv, KeyHolders, NoCredit
<1>1. ASSUME NEW d \in Device, DeviceNext(d) PROVE OwnerInv'
  <2>1. CASE Connect(d)
    BY <2>1 DEF Connect, relayVars
  <2>2. CASE Rehello(d) \/ Congest(d)
    BY <2>2 DEF Rehello, Congest, relayVars
  <2>3. CASE Disconnect(d)
    BY <2>3 DEF Disconnect, Cut
  <2>4. CASE IdProof(d)
    <3>1. KeyHolders'
      BY <2>4 DEF IdProof
    <3>2. ASSUME NEW e \in Device \ Owner PROVE sentMail'[e] = {}
      <4>1. e # d
        BY <2>4 DEF IdProof
      <4>2. DeliverHeldMail(d, Cut(sentMail, Duplicates(d)),
                               Cut(wire, Duplicates(d)))
        BY <2>4 DEF IdProof
      <4>3. sentMail'[e] = Cut(sentMail, Duplicates(d))[e]
        BY <4>1, <4>2, DeliverHeldLocal
      <4> QED BY <4>3 DEF Cut
    <3> QED BY <3>1, <3>2
  <2>5. CASE Receive(d)
    BY <2>5 DEF Receive, relayVars, socketVars
  <2>6. CASE RelayAck(d)
    <3>1. KeyHolders'
      BY <2>6 DEF RelayAck, socketVars
    <3>2. ASSUME NEW e \in Device \ Owner PROVE sentMail'[e] = {}
      <4>1. PICK m \in acks[d] :
              \/ UNCHANGED sentMail
              \/ /\ d \in proven
                 /\ PumpHeldMail(d, box \ {m},
                                 At(sentMail, d, sentMail[d] \ {m}), wire)
        BY <2>6 DEF RelayAck
      <4>2. CASE UNCHANGED sentMail
        BY <4>2
      <4>3. CASE /\ d \in proven
                 /\ PumpHeldMail(d, box \ {m},
                                 At(sentMail, d, sentMail[d] \ {m}), wire)
        <5>1. e # d
          BY <4>3
        <5>2. sentMail'[e] = At(sentMail, d, sentMail[d] \ {m})[e]
          BY <4>3, <5>1, PumpLocal
        <5> QED BY <5>1, <5>2 DEF At
      <4> QED BY <4>1, <4>2, <4>3
    <3> QED BY <3>1, <3>2
  <2> QED BY <1>1, <2>1, <2>2, <2>3, <2>4, <2>5, <2>6 DEF DeviceNext
<1>2. ASSUME NEW k \in Kinds, Deliver(k) PROVE OwnerInv'
  <2>1. CASE DeliverOffline(k)
    BY <2>1 DEF DeliverOffline, socketVars
  <2>2. CASE DeliverOnline(k)
    BY <2>2 DEF DeliverOnline, socketVars
  <2> QED BY <1>2, <2>1, <2>2 DEF Deliver
<1>3. CASE ClockNext
  BY <1>3 DEF ClockNext, RetentionSweep, EnvelopeAges, NoticeAges, relayVars,
              socketVars
<1>4. CASE \E S \in SUBSET box : Withdraw(S)
  BY <1>4 DEF Withdraw, socketVars
<1>5. CASE PurgeMe
  BY <1>5 DEF PurgeMe, socketVars
<1>6. CASE OperatorNext
  <2>1. ASSUME NEW S, QueueDrop(S) PROVE OwnerInv'
    BY <2>1 DEF QueueDrop, socketVars
  <2>2. CASE Announce
    BY <2>2 DEF Announce, socketVars, TypeOK
  <2>3. CASE QueueFlush
    BY <2>3 DEF QueueFlush, Cut, socketVars
  <2> QED BY <1>6, <2>1, <2>2, <2>3 DEF OperatorNext
<1>7. CASE ProcessNext
  BY <1>7 DEF ProcessNext, SaveOfflineBoxNow, BeginShutdown, Crash, FatalError,
              Exit, Restart, Nothing, socketVars
<1>8. CASE UNCHANGED vars
  BY <1>8 DEF vars
<1> QED BY <1>1, <1>2, <1>3, <1>4, <1>5, <1>6, <1>7, <1>8 DEF Next

\* What a step does at the socket of a device without the key.
NothingWaiting(d) ==
  /\ sentMail'[d] = {}
  /\ \A m \in wire'[d] \ wire[d] : m = last + 1 /\ last' = m
  /\ acks[d] \ acks'[d] # {} /\ d \in open' => box' = box

\* A step that puts nothing on d's wire and takes no acknowledgement from it.
LEMMA Untouched ==
  ASSUME OwnerInv', NEW d \in Device \ Owner,
         wire'[d] \subseteq wire[d], acks[d] \subseteq acks'[d] \/ d \notin open'
  PROVE  NothingWaiting(d)
  BY DEF NothingWaiting, OwnerInv, NoCredit

LEMMA ClaimStep ==
  ASSUME TypeOK, OwnerInv, Next, NEW e \in Device \ Owner
  PROVE  NothingWaiting(e)
<1>0. OwnerInv'
  BY OwnerStep
<1>1. ASSUME NEW d \in Device, DeviceNext(d) PROVE NothingWaiting(e)
  <2>1. CASE Connect(d) \/ Congest(d) \/ Rehello(d)
    BY <1>0, <2>1, Untouched DEF Connect, Congest, Rehello
  <2>2. CASE Disconnect(d)
    BY <1>0, <2>2, Untouched DEF Disconnect, Cut
  <2>3. CASE IdProof(d)
    <3>1. e # d
      BY <2>3 DEF IdProof
    <3>2. DeliverHeldMail(d, Cut(sentMail, Duplicates(d)),
                             Cut(wire, Duplicates(d)))
      BY <2>3 DEF IdProof
    <3>3. wire'[e] = Cut(wire, Duplicates(d))[e]
      BY <3>1, <3>2, DeliverHeldLocal
    <3>4. wire'[e] \subseteq wire[e]
      BY <3>3 DEF Cut
    <3>5. acks'[e] = acks[e] \/ e \notin open'
      BY <2>3 DEF IdProof, Cut
    <3> QED BY <1>0, <3>4, <3>5, Untouched
  <2>4. CASE Receive(d)
    <3>1. wire'[e] \subseteq wire[e] /\ acks[e] \subseteq acks'[e]
      BY <2>4 DEF Receive, TypeOK
    <3> QED BY <1>0, <3>1, Untouched
  <2>5. CASE RelayAck(d)
    <3>1. PICK m \in acks[d] :
            /\ acks' = [acks EXCEPT ![d] = @ \ {m}]
            /\ \/ UNCHANGED <<box, wire>>
               \/ /\ d \in proven
                  /\ PumpHeldMail(d, box \ {m},
                                  At(sentMail, d, sentMail[d] \ {m}), wire)
      BY <2>5 DEF RelayAck
    <3>2. CASE UNCHANGED <<box, wire>>
      BY <1>0, <3>2 DEF NothingWaiting, OwnerInv, NoCredit
    <3>3. CASE /\ d \in proven
               /\ PumpHeldMail(d, box \ {m},
                               At(sentMail, d, sentMail[d] \ {m}), wire)
      <4>1. e # d
        BY <3>3 DEF OwnerInv, KeyHolders
      <4>2. wire'[e] = wire[e]
        BY <3>3, <4>1, PumpLocal
      <4>3. acks'[e] = acks[e]
        BY <3>1, <4>1 DEF TypeOK
      <4> QED BY <1>0, <4>2, <4>3, Untouched
    <3> QED BY <3>1, <3>2, <3>3
  <2> QED BY <1>1, <2>1, <2>2, <2>3, <2>4, <2>5 DEF DeviceNext
<1>2. ASSUME NEW k \in Kinds, Deliver(k) PROVE NothingWaiting(e)
  <2>1. CASE DeliverOffline(k)
    BY <1>0, <2>1, Untouched DEF DeliverOffline
  <2>2. CASE DeliverOnline(k)
    <3>1. /\ last' = last + 1
          /\ wire'[e] \subseteq wire[e] \cup {last + 1}
          /\ acks' = acks
      BY <2>2 DEF DeliverOnline, Queue
    <3> QED BY <1>0, <3>1 DEF NothingWaiting, OwnerInv, NoCredit
  <2> QED BY <1>2, <2>1, <2>2 DEF Deliver
<1>3. CASE ClockNext
  BY <1>0, <1>3, Untouched DEF ClockNext, RetentionSweep, EnvelopeAges, NoticeAges
<1>4. ASSUME NEW S, Withdraw(S) PROVE NothingWaiting(e)
  BY <1>0, <1>4, Untouched DEF Withdraw
<1>5. CASE PurgeMe
  BY <1>0, <1>5, Untouched DEF PurgeMe
<1>6. CASE OperatorNext
  <2>1. ASSUME NEW S, QueueDrop(S) PROVE NothingWaiting(e)
    BY <1>0, <2>1, Untouched DEF QueueDrop
  <2>2. CASE Announce
    <3>1. wire'[e] = wire[e] /\ acks' = acks
      BY <2>2 DEF Announce, OwnerInv, KeyHolders, TypeOK
    <3> QED BY <1>0, <3>1, Untouched
  <2>3. CASE QueueFlush
    BY <1>0, <2>3, Untouched DEF QueueFlush
  <2> QED BY <1>6, <2>1, <2>2, <2>3 DEF OperatorNext
<1>7. CASE ProcessNext
  <2>1. CASE SaveOfflineBoxNow \/ BeginShutdown
    BY <1>0, <2>1, Untouched DEF SaveOfflineBoxNow, BeginShutdown
  <2>2. ASSUME NEW b, Restart(b) PROVE NothingWaiting(e)
    BY <1>0, <2>2, Untouched DEF Restart, Nothing
  <2> QED BY <1>7, <2>1, <2>2 DEF ProcessNext, Crash, FatalError, Exit
<1> QED BY <1>1, <1>2, <1>3, <1>4, <1>5, <1>6, <1>7 DEF Next

LEMMA OwnerInit == Init => OwnerInv
  BY DEF Init, Nothing, OwnerInv, KeyHolders, NoCredit

\* Whoever connects under the account's name and in whatever order, a device
\* without the key is handed nothing that waited, is credited with nothing,
\* and takes nothing out by acknowledging: live frames of the very step are
\* all that reaches it, and only because their sender named its socket.
THEOREM OwnerOnly == Spec => MailOnlyToOwner
<1>1. TypeOK /\ OwnerInv /\ [Next]_vars => OwnerInv'
  BY OwnerStep
<1>2. ASSUME TypeOK, OwnerInv, [Next]_vars
      PROVE  [\A d \in Device \ Owner :
                /\ sentMail'[d] = {}
                /\ \A m \in wire'[d] \ wire[d] : m = last + 1 /\ last' = m
                /\ acks[d] \ acks'[d] # {} /\ d \in open' => box' = box]_vars
  BY <1>2, ClaimStep DEF NothingWaiting
<1> QED BY OwnerInit, <1>1, <1>2, TypeCorrect, PTL DEF Spec, MailOnlyToOwner

-----------------------------------------------------------------------------
(* Nothing is lost in silence.                                             *)

\* What a device of the account acknowledges, some device of it received.
AckedIsGot == \A d \in Owner : acks[d] \subseteq got \cup {LiveOnly}

LossInv == AckedIsGot /\ NoSilentLoss

\* An envelope that waited, was received, was noted or was excused before a
\* step which took nothing out without a reason is so after it.
Accounted(m) ==
  \/ m \in box \/ m \in got \/ expiryLog[m] # "no" \/ m \in excused
  \/ kind[m] = "offer" /\ m \in overdue

\* The sweep accounts for what it takes out of b, whose kinds are kind'.
LEMMA SweepKeepsAccount ==
  ASSUME NEW b \in SUBSET Id, NEW armed, NEW m \in Id,
         SweepRetention(b, kind', armed),
         \/ expiryLog' = LogAfter(b, kind')
         \/ expiryLog' = Told(LogAfter(b, kind')),
         m \in b \/ expiryLog[m] # "no"
  PROVE  \/ m \in box'
         \/ expiryLog'[m] # "no"
         \/ kind'[m] = "offer" /\ m \in overdue
<1>1. CASE expiryLog[m] # "no"
  BY <1>1, LogKeepsNotices
<1>2. CASE m \in b
  <2>1. CASE m \in Swept(b, kind')
    BY <2>1 DEF SweepRetention
  <2>2. CASE m \notin Swept(b, kind')
    <3>1. \/ LogAfter(b, kind')[m] = "due"
          \/ m \in overdue /\ kind'[m] = "offer"
      BY <1>2, <2>2, SweepAccounts
    <3> QED BY <3>1 DEF Told
  <2> QED BY <2>1, <2>2
<1> QED BY <1>1, <1>2

\* Deleting, ageing and receiving by steps that keep last, kind and the log.
LEMMA AccountKept ==
  ASSUME NoSilentLoss, last' = last, kind' = kind,
         overdue \subseteq overdue', got \subseteq got',
         excused \subseteq excused',
         \A m \in 1 .. last :
           /\ expiryLog[m] # "no" => expiryLog'[m] # "no"
           /\ m \in box => Accounted(m)'
  PROVE  NoSilentLoss'
  BY DEF NoSilentLoss, Accounted

\* A queued envelope is accounted for by the sweep that follows it, and so
\* is everything that was in the mailbox before.
LEMMA AccountQueued ==
  ASSUME TypeOK, NoSilentLoss, NEW k, Queue(k),
         SweepRetention(box \cup {last + 1}, kind', TRUE),
         expiryLog' = LogAfter(box \cup {last + 1}, kind'),
         UNCHANGED <<overdue, got, excused>>
  PROVE  NoSilentLoss'
<1>1. /\ last \in Nat
      /\ last' = last + 1
      /\ last' \in 0 .. MaxMsg
      /\ box \cup {last + 1} \in SUBSET Id
  BY QueueType
<1>2. SUFFICES ASSUME NEW m \in 1 .. last' PROVE Accounted(m)'
  BY DEF NoSilentLoss, Accounted
<1>3. m \in Id
  BY <1>1, MailboxAssumption DEF Id, MailboxAssumption
<1>4. CASE m = last + 1
  BY <1>1, <1>3, <1>4, SweepKeepsAccount DEF Accounted
<1>5. CASE m \in 1 .. last
  <2>1. kind'[m] = kind[m]
    BY <1>1, <1>3, <1>5 DEF Queue, TypeOK
  <2>2. CASE m \in box \/ expiryLog[m] # "no"
    BY <1>1, <1>3, <2>2, SweepKeepsAccount DEF Accounted
  <2>3. CASE ~(m \in box \/ expiryLog[m] # "no")
    <3>1. m \in got \/ m \in excused \/ (kind[m] = "offer" /\ m \in overdue)
      <4>1. \/ m \in box \/ m \in got \/ expiryLog[m] # "no"
            \/ m \in excused \/ (kind[m] = "offer" /\ m \in overdue)
        BY <1>5, Zenon DEF NoSilentLoss
      <4> QED BY <4>1, <2>3
    <3>2. overdue' = overdue /\ got' = got /\ excused' = excused
      OBVIOUS
    <3>3. m \in got' \/ m \in excused' \/ (kind'[m] = "offer" /\ m \in overdue')
      BY <3>1, <3>2, <2>1
    <3> QED BY <3>3 DEF Accounted
  <2> QED BY <2>2, <2>3
<1> QED BY <1>1, <1>2, <1>4, <1>5

\* A sweep of the whole mailbox keeps every account.
LEMMA AccountSwept ==
  ASSUME TypeOK, NoSilentLoss, NEW armed, SweepRetention(box, kind, armed),
         expiryLog' = LogAfter(box, kind) \/ expiryLog' = Told(LogAfter(box, kind)),
         UNCHANGED <<last, kind, overdue, got, excused>>
  PROVE  NoSilentLoss'
<1>1. ASSUME NEW m \in 1 .. last PROVE m \in Id
  BY MailboxAssumption DEF TypeOK, Id, MailboxAssumption
<1>2. ASSUME NEW m \in 1 .. last, expiryLog[m] # "no"
      PROVE  expiryLog'[m] # "no"
  BY <1>1, <1>2, LogKeepsNotices
<1>3. ASSUME NEW m \in 1 .. last, m \in box PROVE Accounted(m)'
  <2>1. m \in Id /\ kind' = kind
    BY <1>1
  <2>2. SweepRetention(box, kind', armed) /\ box \in SUBSET Id
    BY <2>1 DEF TypeOK
  <2>3. \/ expiryLog' = LogAfter(box, kind')
        \/ expiryLog' = Told(LogAfter(box, kind'))
    BY <2>1
  <2>4. \/ m \in box'
        \/ expiryLog'[m] # "no"
        \/ kind'[m] = "offer" /\ m \in overdue
    BY <1>3, <2>1, <2>2, <2>3, SweepKeepsAccount
  <2> QED BY <2>4 DEF Accounted
<1> QED BY <1>2, <1>3, AccountKept

\* A restart from the file loses at most what a pending write excuses.
LEMMA AccountRestart ==
  ASSUME NoSilentLoss, SaveDiscipline, NEW b, Restart(b),
         b = box \/ b = disk,
         excused \subseteq excused',
         b = disk => excused' = excused \cup (IF saveArmed THEN box \ disk ELSE {})
  PROVE  NoSilentLoss'
<1>1. ASSUME NEW m \in 1 .. last, m \in box PROVE Accounted(m)'
  BY <1>1 DEF Accounted, Restart, SaveDiscipline
<1> QED BY <1>1, AccountKept DEF Restart

LEMMA LossStep ==
  ASSUME TypeOK, SaveDiscipline, OwnerInv, LossInv, [Next]_vars
  PROVE  LossInv'
<1> USE DEF LossInv
<1>1. ASSUME NEW d \in Device, DeviceNext(d) PROVE LossInv'
  <2>1. CASE Connect(d)
    BY <2>1 DEF Connect, relayVars, AckedIsGot, NoSilentLoss
  <2>2. CASE Rehello(d) \/ Congest(d)
    BY <2>2 DEF Rehello, Congest, relayVars, AckedIsGot, NoSilentLoss
  <2>3. CASE Disconnect(d)
    <3>1. AckedIsGot'
      BY <2>3, MailboxAssumption DEF Disconnect, Cut, AckedIsGot,
                                     MailboxAssumption
    <3> QED BY <2>3, <3>1 DEF Disconnect, NoSilentLoss
  <2>4. CASE IdProof(d)
    <3>1. AckedIsGot'
      BY <2>4, MailboxAssumption DEF IdProof, Cut, AckedIsGot,
                                     MailboxAssumption
    <3>2. NoSilentLoss'
      BY <2>4, AccountSwept DEF IdProof, DeliverHeldMail
    <3> QED BY <3>1, <3>2
  <2>5. CASE Receive(d)
    <3>1. PICK m \in wire[d] :
            /\ got' = IF d \in Owner THEN got \cup ({m} \cap Id) ELSE got
            /\ acks' = [acks EXCEPT ![d] = @ \cup {m}]
            /\ UNCHANGED <<relayVars, socketVars, disk, expiryLog, excused>>
      BY <2>5 DEF Receive
    <3>2. m \in Frame
      BY DEF TypeOK
    <3>3. AckedIsGot'
      BY <3>1, <3>2 DEF AckedIsGot, Frame, TypeOK
    <3>4. NoSilentLoss'
      BY <3>1 DEF NoSilentLoss, relayVars
    <3> QED BY <3>3, <3>4
  <2>6. CASE RelayAck(d)
    <3>1. PICK m \in acks[d] :
            /\ acks' = [acks EXCEPT ![d] = @ \ {m}]
            /\ \/ UNCHANGED box
               \/ d \in proven /\ box' = box \ {m}
            /\ UNCHANGED <<last, kind, overdue, socketVars, draining, disk,
                           expiryLog, got, excused>>
      BY <2>6 DEF RelayAck
    <3>2. AckedIsGot'
      BY <3>1 DEF AckedIsGot, TypeOK
    <3>3. ASSUME NEW n \in 1 .. last, n \in box PROVE Accounted(n)'
      <4>1. CASE n \in box'
        BY <4>1 DEF Accounted
      <4>2. CASE n \notin box'
        <5>1. d \in Owner /\ n = m
          BY <3>1, <3>3, <4>2 DEF OwnerInv, KeyHolders
        <5>2. n # LiveOnly
          BY DEF LiveOnly
        <5> QED BY <3>1, <5>1, <5>2 DEF AckedIsGot, Accounted
      <4> QED BY <4>1, <4>2
    <3>4. NoSilentLoss'
      BY <3>1, <3>3, AccountKept
    <3> QED BY <3>2, <3>4
  <2> QED BY <1>1, <2>1, <2>2, <2>3, <2>4, <2>5, <2>6 DEF DeviceNext
<1>2. ASSUME NEW k \in Kinds, Deliver(k) PROVE LossInv'
  <2>1. /\ Queue(k)
        /\ SweepRetention(box \cup {last + 1}, kind', TRUE)
        /\ expiryLog' = LogAfter(box \cup {last + 1}, kind')
        /\ UNCHANGED <<overdue, acks, got, excused>>
    BY <1>2 DEF Deliver, DeliverOffline, DeliverOnline
  <2>2. NoSilentLoss'
    BY <2>1, AccountQueued
  <2> QED BY <2>1, <2>2 DEF AckedIsGot
<1>3. CASE ClockNext
  <2>1. CASE RetentionSweep
    BY <2>1, AccountSwept DEF RetentionSweep, AckedIsGot
  <2>2. ASSUME NEW m \in Id, EnvelopeAges(m) PROVE LossInv'
    BY <2>2 DEF EnvelopeAges, AckedIsGot, NoSilentLoss
  <2>3. ASSUME NEW m \in Id, NoticeAges(m) PROVE LossInv'
    BY <2>3 DEF NoticeAges, relayVars, AckedIsGot, NoSilentLoss, TypeOK
  <2> QED BY <1>3, <2>1, <2>2, <2>3 DEF ClockNext
<1>4. ASSUME NEW S, Withdraw(S) PROVE LossInv'
  BY <1>4 DEF Withdraw, TakeOut, AckedIsGot, NoSilentLoss
<1>5. CASE PurgeMe
  BY <1>5 DEF PurgeMe, AckedIsGot, NoSilentLoss
<1>6. CASE OperatorNext
  <2>1. ASSUME NEW S, QueueDrop(S) PROVE LossInv'
    BY <2>1 DEF QueueDrop, TakeOut, AckedIsGot, NoSilentLoss
  <2>2. CASE Announce
    <3>1. last \in Nat /\ last + 1 \in Id
      BY <2>2, MailboxAssumption DEF Announce, TypeOK, Id, MailboxAssumption
    <3>2. NoSilentLoss'
      BY <2>2, <3>1 DEF Announce, NoSilentLoss, TypeOK
    <3> QED BY <2>2, <3>2 DEF Announce, AckedIsGot
  <2>3. CASE QueueFlush
    BY <2>3, AccountSwept DEF QueueFlush, AckedIsGot
  <2> QED BY <1>6, <2>1, <2>2, <2>3 DEF OperatorNext
<1>7. CASE ProcessNext
  <2>1. CASE SaveOfflineBoxNow \/ BeginShutdown
    BY <2>1 DEF SaveOfflineBoxNow, BeginShutdown, AckedIsGot, NoSilentLoss
  <2>2. ASSUME NEW b, Restart(b) PROVE AckedIsGot'
    BY <2>2, MailboxAssumption DEF Restart, AckedIsGot, Nothing,
                                   MailboxAssumption
  <2>3. CASE Crash \/ Exit
    <3>1. /\ Restart(disk)
          /\ excused' = excused \cup (IF saveArmed THEN box \ disk ELSE {})
      BY <2>3 DEF Crash, Exit
    <3>2. NoSilentLoss'
      BY <3>1, AccountRestart
    <3> QED BY <2>2, <3>1, <3>2
  <2>4. CASE FatalError
    <3>1. Restart(box) /\ excused' = excused
      BY <2>4 DEF FatalError
    <3>2. NoSilentLoss'
      BY <3>1 DEF Restart, NoSilentLoss
    <3> QED BY <2>2, <3>1, <3>2
  <2> QED BY <1>7, <2>1, <2>3, <2>4 DEF ProcessNext
<1>8. CASE UNCHANGED vars
  BY <1>8 DEF vars, AckedIsGot, NoSilentLoss
<1> QED BY <1>1, <1>2, <1>3, <1>4, <1>5, <1>6, <1>7, <1>8 DEF Next

\* An envelope answered "queued" is waiting, received, announced as expired,
\* removed by request, cut off by a crash before its write, or a reservation
\* that lapsed: no interleaving of pump, acknowledgement, sweep, withdrawal
\* and restart drops it otherwise.
THEOREM NothingLost == Spec => []NoSilentLoss
<1>1. Init => LossInv /\ OwnerInv
  <2>1. Init => AckedIsGot
    BY MailboxAssumption DEF Init, AckedIsGot, Nothing, MailboxAssumption
  <2>2. Init => NoSilentLoss
    BY DEF Init, NoSilentLoss
  <2>3. Init => OwnerInv
    BY OwnerInit
  <2> QED BY <2>1, <2>2, <2>3 DEF LossInv
<1>2. TypeOK /\ SaveDiscipline /\ LossInv /\ OwnerInv /\ [Next]_vars
        => (LossInv /\ OwnerInv)'
  BY LossStep, OwnerStep
<1>3. LossInv => NoSilentLoss
  BY DEF LossInv
<1> QED BY <1>1, <1>2, <1>3, TypeCorrect, AlwaysSaved, PTL DEF Spec

-----------------------------------------------------------------------------
(* The window and the order.                                               *)

\* Sets of frames are finite.
LEMMA FrameFinite ==
  ASSUME NEW S \in SUBSET Frame
  PROVE  IsFiniteSet(S) /\ Cardinality(S) \in Nat
<1>1. Frame \subseteq 0 .. MaxMsg /\ MaxMsg \in Nat
  BY MailboxAssumption DEF Frame, Id, LiveOnly, MailboxAssumption
<1>2. IsFiniteSet(0 .. MaxMsg)
  BY <1>1, FS_Interval
<1> QED BY <1>1, <1>2, FS_Subset, FS_CardinalityType

LEMMA IdInt == Id \subseteq Int
  BY MailboxAssumption DEF Id, MailboxAssumption

\* How many members of S are older than m.
Rank(S, m) == Cardinality({k \in S : k < m})

\* An older member has a smaller rank.
LEMMA RankStrict ==
  ASSUME NEW S \in SUBSET Id, NEW m \in S, NEW k \in S, k < m
  PROVE  Rank(S, k) \in Nat /\ Rank(S, m) \in Nat /\ Rank(S, k) < Rank(S, m)
<1> DEFINE A == {j \in S : j < k}
           B == {j \in S : j < m}
<1>1. k \in Int /\ m \in Int /\ \A j \in S : j \in Int
  BY IdInt
<1>2. A \subseteq B /\ k \in B /\ k \notin A
  <2>1. ASSUME NEW j \in S, j < k PROVE j < m
    BY <1>1, <2>1
  <2>2. ~(k < k)
    BY <1>1
  <2> QED BY <2>1, <2>2
<1>3. IsFiniteSet(A) /\ IsFiniteSet(B) /\ Cardinality(A) \in Nat
      /\ Cardinality(B) \in Nat
  BY FrameFinite DEF Frame
<1>4. Cardinality(A) <= Cardinality(B) /\ Cardinality(A) # Cardinality(B)
  BY <1>2, <1>3, FS_Subset
<1> QED BY <1>3, <1>4 DEF Rank

\* The n oldest members are at most n.
LEMMA OldestSize ==
  ASSUME NEW S \in SUBSET Id, NEW n \in Nat
  PROVE  Cardinality(Oldest(S, n)) <= n
<1> DEFINE O == Oldest(S, n)
           f == [m \in O |-> Rank(S, m)]
<1>1. O \in SUBSET S
  BY DEF Oldest
<1>2. \A m \in O : Rank(S, m) \in 0 .. (n - 1)
  <2> TAKE m \in O
  <2>1. Cardinality({k \in S : k < m}) \in Nat
    BY FrameFinite DEF Frame
  <2>2. Cardinality({k \in S : k < m}) < n
    BY DEF Oldest
  <2> QED BY <2>1, <2>2 DEF Rank
<1>3. f \in [O -> 0 .. (n - 1)]
  BY <1>2
<1>4. \A k, m \in O : f[k] = f[m] => k = m
  <2> SUFFICES ASSUME NEW k \in O, NEW m \in O, k # m
               PROVE  Rank(S, k) # Rank(S, m)
    OBVIOUS
  <2>0. k \in S /\ m \in S
    BY <1>1
  <2>1. k \in S /\ m \in S /\ k \in Int /\ m \in Int
    BY <2>0, IdInt
  <2>2. CASE k < m
    BY <2>1, <2>2, RankStrict
  <2>3. CASE m < k
    BY <2>1, <2>3, RankStrict
  <2> QED BY <2>1, <2>2, <2>3
<1>5. f \in Injection(O, 0 .. (n - 1))
  BY <1>3, <1>4 DEF Injection, IsInjective
<1>6. IsFiniteSet(0 .. (n - 1)) /\ Cardinality(0 .. (n - 1)) = n
  BY FS_Interval
<1>7. Cardinality(O) <= Cardinality(0 .. (n - 1))
  BY <1>5, <1>6, FS_Injection
<1> QED BY <1>6, <1>7

\* Whatever is older than one of the n oldest is one of them.
LEMMA OldestClosed ==
  ASSUME NEW S \in SUBSET Id, NEW n \in Nat, NEW m \in Oldest(S, n),
         NEW k \in S, k < m
  PROVE  k \in Oldest(S, n)
<1>1. m \in S /\ Rank(S, m) < n
  BY DEF Oldest, Rank
<1>2. Rank(S, k) \in Nat /\ Rank(S, m) \in Nat /\ Rank(S, k) < Rank(S, m)
  BY <1>1, RankStrict
<1>3. Rank(S, k) < n
  BY <1>1, <1>2
<1> QED BY <1>3 DEF Oldest, Rank

\* A connection that was handed S has nothing older waiting in b.
InOrder(S, b) == \A m \in S \cap b : \A k \in b : k < m => k \in S

\* The pump keeps the order and the window of the connection it serves.
LEMMA PumpKeeps ==
  ASSUME NEW d \in Device, NEW b \in SUBSET Id,
         NEW s \in [Device -> SUBSET Frame], NEW w,
         PumpHeldMail(d, b, s, w),
         InOrder(s[d], b), Cardinality(s[d]) <= Window
  PROVE  /\ InOrder(sentMail'[d], b)
         /\ Cardinality(sentMail'[d]) <= Window
         /\ sentMail'[d] \subseteq s[d] \cup b
<1>0. Window \in Nat
  BY MailboxAssumption DEF MailboxAssumption
<1>1. PICK n \in BatchSizes(d, s[d]) :
        sentMail' = At(s, d, s[d] \cup Oldest(b \ s[d], n))
  BY DEF PumpHeldMail
<1> DEFINE batch == Oldest(b \ s[d], n)
<1>2. sentMail'[d] = s[d] \cup batch /\ batch \subseteq b \ s[d]
  BY <1>1 DEF At, Oldest
<1>3. b \ s[d] \in SUBSET Id /\ s[d] \in SUBSET Frame /\ batch \in SUBSET Frame
  BY <1>2 DEF Frame
<1>4. /\ IsFiniteSet(s[d]) /\ Cardinality(s[d]) \in Nat
      /\ IsFiniteSet(batch) /\ Cardinality(batch) \in Nat
  BY <1>3, FrameFinite
<1>5. n \in Nat /\ n <= Window - Cardinality(s[d])
  <2>1. Room(s[d]) \in Nat /\ Room(s[d]) <= Window - Cardinality(s[d])
    BY <1>0, <1>4 DEF Room
  <2> QED BY <2>1, <1>0, <1>4 DEF BatchSizes
<1>6. Cardinality(batch) <= n
  BY <1>3, <1>5, OldestSize
<1>7. s[d] \cap batch = {}
  BY <1>2
<1>8. Cardinality(s[d] \cup batch) = Cardinality(s[d]) + Cardinality(batch)
  <2>1. Cardinality(s[d] \cup batch)
          = Cardinality(s[d]) + Cardinality(batch) - Cardinality(s[d] \cap batch)
    BY <1>4, FS_Union
  <2>2. Cardinality(s[d] \cap batch) = 0
    BY <1>7, FS_EmptySet
  <2> HIDE DEF batch
  <2> QED BY <2>1, <2>2, <1>4
<1>9. Cardinality(sentMail'[d]) <= Window
  BY <1>0, <1>2, <1>4, <1>5, <1>6, <1>8
<1>10. ASSUME NEW m \in (s[d] \cup batch) \cap b, NEW k \in b, k < m
       PROVE  k \in s[d] \cup batch
  <2>1. CASE m \in s[d]
    BY <1>10, <2>1 DEF InOrder
  <2>2. CASE m \in batch /\ k \notin s[d]
    BY <1>3, <1>5, <1>10, <2>2, OldestClosed
  <2> QED BY <1>10, <2>1, <2>2
<1>11. InOrder(s[d] \cup batch, b)
  BY <1>10 DEF InOrder
<1> QED BY <1>2, <1>9, <1>11

\* Nothing is waiting, stored or handed out that was not queued.
Known ==
  /\ box \subseteq 1 .. last
  /\ disk \subseteq 1 .. last
  /\ \A d \in Device : sentMail[d] \subseteq 1 .. last

DeliveryInv == Known /\ HeldInOrder /\ WindowBound

\* The invariant, one connection at a time.
LEMMA DeliveryByConnection ==
  ASSUME box \subseteq 1 .. last, disk \subseteq 1 .. last,
         \A d \in Device : /\ sentMail[d] \subseteq 1 .. last
                           /\ InOrder(sentMail[d], box)
                           /\ Cardinality(sentMail[d]) <= Window
  PROVE  DeliveryInv
  BY DEF DeliveryInv, Known, HeldInOrder, WindowBound, InOrder

LEMMA ConnectionByDelivery ==
  ASSUME DeliveryInv
  PROVE  /\ box \subseteq 1 .. last
         /\ disk \subseteq 1 .. last
         /\ \A d \in Device : /\ sentMail[d] \subseteq 1 .. last
                              /\ InOrder(sentMail[d], box)
                              /\ Cardinality(sentMail[d]) <= Window
  BY DEF DeliveryInv, Known, HeldInOrder, WindowBound, InOrder

\* A connection that was handed nothing is in order.
LEMMA EmptyInOrder ==
  /\ \A b : InOrder({}, b)
  /\ Cardinality({}) <= Window
  /\ \A n : {} \subseteq 1 .. n
<1>1. Cardinality({}) <= Window
  BY FS_EmptySet, MailboxAssumption DEF MailboxAssumption
<1> QED BY <1>1 DEF InOrder

\* Taking mail out, and forgetting what some connections were handed, keeps
\* the order and the window.
LEMMA DeliveryShrinks ==
  ASSUME DeliveryInv, last' = last, box' \subseteq box,
         disk' \subseteq box \cup disk,
         \A d \in Device : sentMail'[d] = sentMail[d] \/ sentMail'[d] = {}
  PROVE  DeliveryInv'
<1>1. ASSUME NEW d \in Device
      PROVE  /\ sentMail'[d] \subseteq 1 .. last
             /\ InOrder(sentMail'[d], box')
             /\ Cardinality(sentMail'[d]) <= Window
  <2>1. CASE sentMail'[d] = sentMail[d]
    BY <2>1, ConnectionByDelivery DEF InOrder
  <2>2. CASE sentMail'[d] = {}
    BY <2>2, EmptyInOrder
  <2> QED BY <2>1, <2>2
<1>2. box' \subseteq 1 .. last' /\ disk' \subseteq 1 .. last'
  BY ConnectionByDelivery
<1> QED BY <1>1, <1>2 DEF DeliveryInv, Known, HeldInOrder, WindowBound, InOrder

\* So does adding the newest envelope.
LEMMA DeliveryGrows ==
  ASSUME DeliveryInv, last \in Nat, last' = last + 1,
         box' \subseteq box \cup {last + 1},
         disk' \subseteq box \cup disk \cup {last + 1},
         UNCHANGED sentMail
  PROVE  DeliveryInv'
<1>1. 1 .. last \subseteq 1 .. last' /\ last + 1 \in 1 .. last'
  OBVIOUS
<1>2. box' \subseteq 1 .. last' /\ disk' \subseteq 1 .. last'
  BY <1>1, ConnectionByDelivery
<1>3. ASSUME NEW d \in Device
      PROVE  /\ sentMail'[d] \subseteq 1 .. last'
             /\ InOrder(sentMail'[d], box')
             /\ Cardinality(sentMail'[d]) <= Window
  <2>1. /\ sentMail[d] \subseteq 1 .. last
        /\ InOrder(sentMail[d], box)
        /\ Cardinality(sentMail[d]) <= Window
    BY ConnectionByDelivery
  <2>2. ASSUME NEW m \in sentMail[d] \cap box', NEW k \in box', k < m
        PROVE  k \in sentMail[d]
    <3>1. m \in 1 .. last
      BY <2>1
    <3>2. m # last + 1 /\ k # last + 1
      BY <2>2, <3>1
    <3>3. m \in box /\ k \in box
      BY <3>2
    <3> QED BY <2>1, <2>2, <3>3 DEF InOrder
  <2> QED BY <1>1, <2>1, <2>2 DEF InOrder
<1> QED BY <1>2, <1>3 DEF DeliveryInv, Known, HeldInOrder, WindowBound, InOrder

\* Pumping for one connection keeps the order and the window of all, when
\* the others keep what they were handed or are gone.
LEMMA DeliveryPumped ==
  ASSUME TypeOK, DeliveryInv, NEW d \in Device,
         NEW s \in [Device -> SUBSET Frame], NEW w,
         last' = last, disk' = disk, box' \subseteq box,
         \A e \in Device : s[e] \subseteq sentMail[e] /\ InOrder(s[e], box'),
         \/ sentMail' = s
         \/ PumpHeldMail(d, box', s, w)
  PROVE  DeliveryInv'
<1>1. box \subseteq 1 .. last /\ disk \subseteq 1 .. last
  BY ConnectionByDelivery
<1>2. ASSUME NEW e \in Device
      PROVE  /\ s[e] \subseteq 1 .. last
             /\ InOrder(s[e], box')
             /\ Cardinality(s[e]) <= Window
  <2>1. sentMail[e] \subseteq 1 .. last /\ Cardinality(sentMail[e]) <= Window
    BY ConnectionByDelivery
  <2>2. IsFiniteSet(sentMail[e]) /\ Cardinality(sentMail[e]) \in Nat
    BY FrameFinite DEF TypeOK
  <2>3. /\ Cardinality(s[e]) <= Cardinality(sentMail[e])
        /\ Cardinality(s[e]) \in Nat
    BY <2>2, FS_Subset, FrameFinite
  <2> QED BY <2>1, <2>2, <2>3, MailboxAssumption DEF MailboxAssumption
<1>3. ASSUME NEW e \in Device
      PROVE  /\ sentMail'[e] \subseteq 1 .. last
             /\ InOrder(sentMail'[e], box')
             /\ Cardinality(sentMail'[e]) <= Window
  <2>1. CASE sentMail' = s
    BY <1>2, <2>1
  <2>2. CASE PumpHeldMail(d, box', s, w) /\ e = d
    <3>1. box' \in SUBSET Id
      BY DEF TypeOK
    <3>2. /\ InOrder(sentMail'[d], box')
          /\ Cardinality(sentMail'[d]) <= Window
          /\ sentMail'[d] \subseteq s[d] \cup box'
      BY <1>2, <2>2, <3>1, PumpKeeps
    <3> QED BY <1>1, <1>2, <2>2, <3>2
  <2>3. CASE PumpHeldMail(d, box', s, w) /\ e # d
    BY <1>2, <2>3, PumpLocal
  <2> QED BY <2>1, <2>2, <2>3
<1> QED BY <1>1, <1>3 DEF DeliveryInv, Known, HeldInOrder, WindowBound, InOrder

LEMMA DeliveryStep ==
  ASSUME TypeOK, DeliveryInv, [Next]_vars
  PROVE  DeliveryInv'
<1>1. ASSUME NEW d \in Device, DeviceNext(d) PROVE DeliveryInv'
  <2>1. CASE Connect(d)
    BY <2>1, DeliveryShrinks DEF Connect, relayVars
  <2>2. CASE Rehello(d) \/ Congest(d)
    BY <2>2, DeliveryShrinks DEF Rehello, Congest, relayVars
  <2>3. CASE Disconnect(d)
    BY <2>3, DeliveryShrinks DEF Disconnect, Cut
  <2>4. CASE IdProof(d)
    <3> DEFINE cut == Cut(sentMail, Duplicates(d))
               held == Swept(box, kind)
               w == Cut(wire, Duplicates(d))
    <3>1. cut \in [Device -> SUBSET Frame]
      BY CutType DEF TypeOK
    <3>2. At(cut, d, {}) \in [Device -> SUBSET Frame]
      BY <3>1, AtType
    <3>3. box' = held /\ held \subseteq box /\ UNCHANGED <<last, disk>>
      BY <2>4, SweptSubset DEF IdProof, DeliverHeldMail, SweepRetention
    <3>4. ASSUME NEW e \in Device
          PROVE  /\ cut[e] \subseteq sentMail[e]
                 /\ InOrder(cut[e], box')
                 /\ At(cut, d, {})[e] \subseteq sentMail[e]
                 /\ InOrder(At(cut, d, {})[e], box')
      <4>1. cut[e] = sentMail[e] \/ cut[e] = {}
        BY DEF Cut
      <4>2. At(cut, d, {})[e] = cut[e] \/ At(cut, d, {})[e] = {}
        BY DEF At
      <4>3. InOrder(sentMail[e], box)
        BY ConnectionByDelivery
      <4> QED BY <3>3, <4>1, <4>2, <4>3 DEF InOrder
    <3>5. \/ PumpHeldMail(d, box', At(cut, d, {}), w)
          \/ sentMail' = cut
      BY <2>4, <3>3 DEF IdProof, DeliverHeldMail
    <3>6. CASE PumpHeldMail(d, box', At(cut, d, {}), w)
      BY <3>2, <3>3, <3>4, <3>6, DeliveryPumped
    <3>7. CASE sentMail' = cut
      BY <3>1, <3>3, <3>4, <3>7, DeliveryPumped
    <3> QED BY <3>5, <3>6, <3>7
  <2>5. CASE Receive(d)
    BY <2>5, DeliveryShrinks DEF Receive, relayVars
  <2>6. CASE RelayAck(d)
    <3>1. PICK m \in acks[d] :
            /\ \/ UNCHANGED <<box, sentMail>>
               \/ /\ box' = box \ {m}
                  /\ PumpHeldMail(d, box \ {m},
                                  At(sentMail, d, sentMail[d] \ {m}), wire)
            /\ UNCHANGED <<last, disk>>
      BY <2>6 DEF RelayAck
    <3>2. CASE UNCHANGED <<box, sentMail>>
      BY <3>1, <3>2, DeliveryShrinks
    <3>3. CASE /\ box' = box \ {m}
               /\ PumpHeldMail(d, box \ {m},
                               At(sentMail, d, sentMail[d] \ {m}), wire)
      <4> DEFINE s == At(sentMail, d, sentMail[d] \ {m})
      <4>1. s \in [Device -> SUBSET Frame]
        BY AtType DEF TypeOK
      <4>2. ASSUME NEW e \in Device
            PROVE  s[e] \subseteq sentMail[e] /\ InOrder(s[e], box')
        <5>1. InOrder(sentMail[e], box)
          BY ConnectionByDelivery
        <5>2. s[e] = sentMail[e] \/ s[e] = sentMail[e] \ {m}
          BY DEF At
        <5> QED BY <3>3, <5>1, <5>2 DEF InOrder
      <4>3. PumpHeldMail(d, box', s, wire)
        BY <3>3
      <4> QED BY <3>1, <3>3, <4>1, <4>2, <4>3, DeliveryPumped
    <3> QED BY <3>1, <3>2, <3>3
  <2> QED BY <1>1, <2>1, <2>2, <2>3, <2>4, <2>5, <2>6 DEF DeviceNext
<1>2. ASSUME NEW k \in Kinds, Deliver(k) PROVE DeliveryInv'
  <2>1. /\ Queue(k)
        /\ box' \subseteq box \cup {last + 1}
        /\ UNCHANGED <<disk, sentMail>>
    BY <1>2, SweptSubset DEF Deliver, DeliverOffline, DeliverOnline,
                             SweepRetention
  <2> QED BY <2>1, QueueType, DeliveryGrows
<1>3. CASE ClockNext
  <2>1. CASE RetentionSweep
    BY <2>1, SweptSubset, DeliveryShrinks DEF RetentionSweep, SweepRetention
  <2>2. ASSUME NEW m \in Id, EnvelopeAges(m) PROVE DeliveryInv'
    BY <2>2, DeliveryShrinks DEF EnvelopeAges
  <2>3. ASSUME NEW m \in Id, NoticeAges(m) PROVE DeliveryInv'
    BY <2>3, DeliveryShrinks DEF NoticeAges, relayVars
  <2> QED BY <1>3, <2>1, <2>2, <2>3 DEF ClockNext
<1>4. ASSUME NEW S, Withdraw(S) PROVE DeliveryInv'
  BY <1>4, DeliveryShrinks DEF Withdraw, TakeOut
<1>5. CASE PurgeMe
  BY <1>5, DeliveryShrinks DEF PurgeMe
<1>6. CASE OperatorNext
  <2>1. ASSUME NEW S, QueueDrop(S) PROVE DeliveryInv'
    BY <2>1, DeliveryShrinks DEF QueueDrop, TakeOut, SaveOfflineBoxes
  <2>2. CASE Announce
    <3>1. last \in Nat
      BY <2>2, MailboxAssumption DEF TypeOK, MailboxAssumption
    <3> QED BY <2>2, <3>1, DeliveryGrows DEF Announce, SaveOfflineBoxes
  <2>3. CASE QueueFlush
    BY <2>3, SweptSubset, DeliveryShrinks DEF QueueFlush, SweepRetention, Cut
  <2> QED BY <1>6, <2>1, <2>2, <2>3 DEF OperatorNext
<1>7. CASE ProcessNext
  <2>1. CASE SaveOfflineBoxNow \/ BeginShutdown
    BY <2>1, DeliveryShrinks DEF SaveOfflineBoxNow, BeginShutdown,
                                 SaveOfflineBoxes
  <2>2. ASSUME NEW b \in SUBSET (1 .. last), Restart(b) PROVE DeliveryInv'
    BY <2>2, EmptyInOrder DEF Restart, Nothing, DeliveryInv, Known,
                              HeldInOrder, WindowBound, InOrder
  <2>3. CASE Crash \/ FatalError \/ Exit
    BY <2>2, <2>3 DEF Crash, FatalError, Exit, DeliveryInv, Known
  <2> QED BY <1>7, <2>1, <2>3 DEF ProcessNext
<1>8. CASE UNCHANGED vars
  BY <1>8, DeliveryShrinks DEF vars
<1> QED BY <1>1, <1>2, <1>3, <1>4, <1>5, <1>6, <1>7, <1>8 DEF Next

LEMMA DeliveryInit == Init => DeliveryInv
  BY EmptyInOrder DEF Init, Nothing, DeliveryInv, Known, HeldInOrder,
                      WindowBound, InOrder

\* Whatever reconnects, acknowledges, withdraws or restarts, a connection is
\* handed held mail oldest first.
THEOREM InArrivalOrder == Spec => []HeldInOrder
<1>1. TypeOK /\ DeliveryInv /\ [Next]_vars => DeliveryInv'
  BY DeliveryStep
<1>2. DeliveryInv => HeldInOrder
  BY DEF DeliveryInv
<1> QED BY DeliveryInit, <1>1, <1>2, TypeCorrect, PTL DEF Spec

\* No connection is credited with more than the window, whatever the
\* relation of the window to the number of envelopes and devices.
THEOREM WindowHolds == Spec => []WindowBound
<1>1. TypeOK /\ DeliveryInv /\ [Next]_vars => DeliveryInv'
  BY DeliveryStep
<1>2. DeliveryInv => WindowBound
  BY DEF DeliveryInv
<1> QED BY DeliveryInit, <1>1, <1>2, TypeCorrect, PTL DEF Spec

=============================================================================
