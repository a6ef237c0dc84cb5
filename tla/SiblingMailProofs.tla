-------------------------- MODULE SiblingMailProofs --------------------------
(***************************************************************************)
(* What SiblingMail guarantees for every set of devices, every limit of    *)
(* the store and every combination of environment events.                  *)
(***************************************************************************)
EXTENDS SiblingMail, TLAPS, FiniteSetTheorems

-----------------------------------------------------------------------------
(* What the helpers of the model return.                                   *)

\* Closing sockets keeps a function's type.
LEMMA CutType ==
  ASSUME NEW T, NEW f \in [Device -> SUBSET T], NEW D
  PROVE  Cut(f, D) \in [Device -> SUBSET T]
  BY DEF Cut

\* The pump sends only copies kept for the device, and nobody else gets any.
LEMMA PumpType ==
  ASSUME NEW d \in Device, NEW p, NEW o, NEW w \in [Device -> SUBSET HeldFrame],
         PumpSiblingHeld(d, p, o, w)
  PROVE  wire' \in [Device -> SUBSET HeldFrame]
<1> DEFINE frame == [ids |-> Oldest(Mine(p, d), Batch), overflow |-> d \in o]
<1>1. frame \in HeldFrame
  <2>1. Oldest(Mine(p, d), Batch) \in SUBSET Copy
    BY DEF Oldest, Mine
  <2>2. (d \in o) \in BOOLEAN
    OBVIOUS
  <2> QED BY <2>1, <2>2 DEF HeldFrame
<1>2. wire' = w \/ wire' = [w EXCEPT ![d] = @ \cup {frame}]
  BY DEF PumpSiblingHeld
<1>3. [w EXCEPT ![d] = @ \cup {frame}] \in [Device -> SUBSET HeldFrame]
  BY <1>1
<1> QED BY <1>2, <1>3

\* Settling copies keeps the type.
LEMMA SettlesType ==
  ASSUME settled \in [Device -> SUBSET Copy], NEW D, NEW S \in SUBSET Copy,
         Settles(D, S)
  PROVE  settled' \in [Device -> SUBSET Copy]
  BY DEF Settles

\* Copies held so far are copies.
LEMMA HeldAreCopies == ASSUME TypeOK PROVE 1 .. last \in SUBSET Copy
  BY SiblingMailAssumption DEF TypeOK, Copy, SiblingMailAssumption

\* Forgetting devices keeps every type it touches.
LEMMA ForgetType ==
  ASSUME TypeOK, NEW D \in SUBSET Device, ForgetSiblingDevices(D)
  PROVE  /\ beacons' \subseteq Device
         /\ overflow' \subseteq Device
         /\ pending' \in [Copy -> SUBSET Device]
         /\ file' \in [Copy -> SUBSET Device]
         /\ owed' \in [Device -> SUBSET Copy]
         /\ crossed' \in [Device -> SUBSET Copy]
         /\ settled' \in [Device -> SUBSET Copy]
<1>1. beacons' \subseteq Device /\ overflow' \subseteq Device
  BY DEF ForgetSiblingDevices, TypeOK
<1>2. /\ pending' \in [Copy -> SUBSET Device]
      /\ file' \in [Copy -> SUBSET Device]
  BY DEF ForgetSiblingDevices, SaveSiblingHeld, TypeOK
<1>3. /\ owed' \in [Device -> SUBSET Copy]
      /\ crossed' \in [Device -> SUBSET Copy]
  BY CutType DEF ForgetSiblingDevices, TypeOK
<1>4. settled' \in [Device -> SUBSET Copy]
  BY HeldAreCopies, SettlesType DEF ForgetSiblingDevices, TypeOK
<1> QED BY <1>1, <1>2, <1>3, <1>4

\* Reading the store again keeps every type it touches.
LEMMA LoadType ==
  ASSUME TypeOK, NEW B \in SUBSET Device, LoadSiblingHeld(B),
         SettlesUnloaded(B)
  PROVE  /\ lapsed' \in 0 .. last
         /\ pending' \in [Copy -> SUBSET Device]
         /\ settled' \in [Device -> SUBSET Copy]
<1>1. lapsed' \in 0 .. last /\ pending' \in [Copy -> SUBSET Device]
  BY DEF LoadSiblingHeld, TypeOK
<1>2. \A d \in Device : 1 .. (IF d \in B THEN lapsed' ELSE last) \in SUBSET Copy
  BY <1>1, HeldAreCopies, SiblingMailAssumption DEF TypeOK, SiblingMailAssumption
<1>3. settled' \in [Device -> SUBSET Copy]
  BY <1>2 DEF SettlesUnloaded, TypeOK
<1> QED BY <1>1, <1>3

-----------------------------------------------------------------------------
(* Room.  A hold frame on its way has its place under the bound.           *)

RoomLeft == last + Cardinality(sending) <= MaxCopy

\* Sets of devices are finite.
LEMMA DevicesFinite ==
  ASSUME NEW S \in SUBSET Device
  PROVE  IsFiniteSet(S) /\ Cardinality(S) \in Nat
  BY SiblingMailAssumption, FS_Subset, FS_CardinalityType DEF SiblingMailAssumption

\* There is room while nothing more is on its way.
LEMMA RoomKept ==
  ASSUME TypeOK, RoomLeft, last' = last, sending' \subseteq sending
  PROVE  RoomLeft'
<1>1. sending \in SUBSET Device /\ sending' \in SUBSET sending
  BY DEF TypeOK
<1>2. Cardinality(sending') <= Cardinality(sending)
  BY <1>1, DevicesFinite, FS_Subset
<1>3. Cardinality(sending) \in Nat /\ Cardinality(sending') \in Nat
  BY <1>1, DevicesFinite
<1> QED
  BY <1>2, <1>3, SiblingMailAssumption
     DEF RoomLeft, TypeOK, SiblingMailAssumption

\* A copy that is about to be held is one of the bounded number.
LEMMA RoomForOne ==
  ASSUME TypeOK, RoomLeft, NEW d \in sending
  PROVE  last + 1 \in Copy
<1>1. sending \in SUBSET Device
  BY DEF TypeOK
<1>2. IsFiniteSet(sending) /\ Cardinality(sending) \in Nat
  BY <1>1, DevicesFinite
<1>3. Cardinality(sending) # 0
  BY <1>2, FS_EmptySet
<1> QED
  BY <1>2, <1>3, SiblingMailAssumption
     DEF RoomLeft, TypeOK, Copy, SiblingMailAssumption

\* Every step leaves the frames on their way their room.
LEMMA RoomStep == TypeOK /\ RoomLeft /\ [Next]_vars => RoomLeft'
<1> SUFFICES ASSUME TypeOK, RoomLeft, [Next]_vars PROVE RoomLeft'
  OBVIOUS
<1>1. ASSUME NEW d \in Device, SendLive(d) PROVE RoomLeft'
  <2>1. sending \in SUBSET Device
    BY DEF TypeOK
  <2>2. Cardinality(sending \cup {d}) = Cardinality(sending) + 1
    BY <1>1, <2>1, DevicesFinite, FS_AddElement DEF SendLive
  <2>3. Cardinality(sending) \in Nat
    BY <2>1, DevicesFinite
  <2> QED
    BY <1>1, <2>2, <2>3, SiblingMailAssumption
       DEF SendLive, RoomLeft, TypeOK, storeVars, SiblingMailAssumption
<1>2. ASSUME NEW d \in Device, SiblingHold(d) PROVE RoomLeft'
  <2>1. sending \in SUBSET Device /\ d \in sending
    BY <1>2 DEF TypeOK, SiblingHold
  <2>2. Cardinality(sending \ {d}) = Cardinality(sending) - 1
    BY <2>1, DevicesFinite, FS_RemoveElement
  <2>3. Cardinality(sending) \in Nat
    BY <2>1, DevicesFinite
  <2>4. sending' = sending \ {d} /\ last' \in {last, last + 1}
    BY <1>2 DEF SiblingHold, HoldFor, storeVars
  <2> QED
    BY <2>2, <2>3, <2>4, SiblingMailAssumption
       DEF RoomLeft, TypeOK, SiblingMailAssumption
<1>3. ASSUME NEW d \in Device, DeviceNext(d), ~SendLive(d), ~SiblingHold(d)
      PROVE  last' = last /\ sending' \subseteq sending
  <2>1. CASE Connect(d) \/ Rehello(d) \/ Sleep(d) \/ Wake(d)
    BY <2>1 DEF Connect, Rehello, Sleep, Wake, storeVars, frameVars
  <2>2. CASE Disconnect(d)
    BY <2>2 DEF Disconnect, Closed, storeVars
  <2>3. CASE IdProof(d)
    BY <2>3 DEF IdProof, Closed, storeVars, frameVars
  <2>4. CASE SiblingFetch(d) \/ HandleSiblingHeld(d) \/ SiblingAck(d)
    BY <2>4 DEF SiblingFetch, HandleSiblingHeld, SiblingAck, storeVars
  <2>5. CASE BeaconPut(d) \/ BeaconDrop(d) \/ PurgeMe(d)
    BY <2>5 DEF BeaconPut, BeaconDrop, PurgeMe, storeVars, frameVars
  <2>6. CASE \E D \in SUBSET Device : RosterPut(d, D)
    BY <2>6 DEF RosterPut, frameVars
  <2> QED BY <1>3, <2>1, <2>2, <2>3, <2>4, <2>5, <2>6 DEF DeviceNext
<1>4. CASE CacheEviction \/ Restart \/ UNCHANGED vars
  <2>1. last' = last /\ sending' \subseteq sending
    BY <1>4 DEF CacheEviction, Restart, vars, storeVars, frameVars
  <2> QED BY <2>1, RoomKept
<1>5. ASSUME NEW d \in Device, DeviceNext(d) PROVE RoomLeft'
  BY <1>1, <1>2, <1>3, <1>5, RoomKept
<1> QED BY <1>4, <1>5 DEF Next

-----------------------------------------------------------------------------
(* Types.                                                                  *)

LEMMA TypeInit == Init => TypeOK
<1>1. 0 \in 0 .. MaxCopy /\ 0 \in 0 .. 0
  BY SiblingMailAssumption DEF SiblingMailAssumption
<1>2. \A T : Nothing \in [Device -> SUBSET T]
  BY DEF Nothing
<1>3. NoItems \in [Copy -> SUBSET Device]
  BY DEF NoItems
<1> QED BY <1>1, <1>2, <1>3 DEF Init, TypeOK

\* Closing sockets keeps the types of what goes with them.
LEMMA ClosedType ==
  ASSUME TypeOK, NEW D \in SUBSET Device, Closed(D)
  PROVE  /\ open' \subseteq Device
         /\ sending' \subseteq open'
         /\ acks' \in [Device -> SUBSET SUBSET Copy]
  BY CutType DEF Closed, TypeOK

\* A copy held keeps every type, when there is room for its number.
LEMMA HoldType ==
  ASSUME TypeOK, NEW D \in SUBSET Device, last + 1 \in Copy, HoldFor(D),
         lapsed' = lapsed
  PROVE  /\ last' \in 0 .. MaxCopy
         /\ lapsed' \in 0 .. last'
         /\ pending' \in [Copy -> SUBSET Device]
         /\ file' \in [Copy -> SUBSET Device]
         /\ overflow' \subseteq Device
         /\ owed' \in [Device -> SUBSET Copy]
         /\ crossed' \in [Device -> SUBSET Copy]
         /\ settled' \in [Device -> SUBSET Copy]
<1> DEFINE held == [pending EXCEPT ![last + 1] = D]
           dropped == Items(held) \ Newest(Items(held), MaxItems)
<1>1. held \in [Copy -> SUBSET Device]
  BY DEF TypeOK
<1>2. dropped \in SUBSET Copy
  BY DEF Items
<1>3. /\ last' = last + 1
      /\ pending' = [c \in Copy |-> IF c \in dropped THEN {} ELSE held[c]]
      /\ file' = [c \in Copy |-> IF c \in dropped THEN {} ELSE held[c]]
      /\ overflow' = overflow \cup UNION {held[c] : c \in dropped}
      /\ owed' = [d \in Device |-> owed[d] \cup (dropped \cap Mine(held, d))]
      /\ Settles(Device \ D, {last + 1})
      /\ crossed' = [d \in Device |-> IF wire[d] # {} \/ acks[d] # {}
                                     THEN crossed[d] \cup (dropped \cap Mine(held, d))
                                     ELSE crossed[d]]
  BY DEF HoldFor, SaveSiblingHeld, Drops
<1> HIDE DEF held, dropped
<1>4. last' \in 0 .. MaxCopy /\ lapsed' \in 0 .. last'
  BY <1>3, SiblingMailAssumption DEF TypeOK, Copy, SiblingMailAssumption
<1>5. /\ pending' \in [Copy -> SUBSET Device]
      /\ file' \in [Copy -> SUBSET Device]
  BY <1>1, <1>3
<1>6. overflow' \subseteq Device
  BY <1>1, <1>2, <1>3 DEF TypeOK
<1>7. /\ owed' \in [Device -> SUBSET Copy]
      /\ crossed' \in [Device -> SUBSET Copy]
  BY <1>2, <1>3 DEF TypeOK
<1>8. settled' \in [Device -> SUBSET Copy]
  BY <1>3, SettlesType DEF TypeOK
<1> QED BY <1>4, <1>5, <1>6, <1>7, <1>8

\* Each device action keeps the types.
LEMMA TypeDevice ==
  ASSUME TypeOK, RoomLeft, NEW d \in Device, DeviceNext(d)
  PROVE  TypeOK'
<1>1. CASE Connect(d)
  BY <1>1 DEF Connect, TypeOK, storeVars, accountVars, frameVars
<1>2. CASE Disconnect(d)
  <2>1. Closed({d}) /\ wire' = Cut(wire, {d})
    BY <1>2 DEF Disconnect
  <2>2. wire' \in [Device -> SUBSET HeldFrame]
    BY <2>1, CutType DEF TypeOK
  <2>3. open' = open \ {d}
    BY <2>1 DEF Closed
  <2> QED
    BY <1>2, <2>1, <2>2, <2>3, ClosedType
       DEF Disconnect, TypeOK, storeVars, accountVars
<1>3. CASE Rehello(d)
  BY <1>3 DEF Rehello, Awake, TypeOK, storeVars, accountVars, frameVars
<1>4. CASE Sleep(d) \/ Wake(d)
  BY <1>4 DEF Sleep, Wake, Awake, TypeOK, storeVars, accountVars, frameVars
<1>5. CASE IdProof(d)
  <2>1. CASE RosterRevokes(d) /\ verified' = verified \ {d}
    BY <1>5, <2>1
       DEF IdProof, Closed, Awake, TypeOK, storeVars, accountVars, frameVars
  <2>2. CASE ~RosterRevokes(d)
    <3>1. /\ Closed(Duplicates(d))
          /\ proven' = proven \cup {d}
          /\ verified' = (verified \cup {d}) \ Duplicates(d)
          /\ asleep' = asleep \ ({d} \cup Duplicates(d))
          /\ PumpSiblingHeld(d, pending, overflow, Cut(wire, Duplicates(d)))
          /\ UNCHANGED <<storeVars, accountVars, got>>
          /\ d \in open \ proven
      BY <1>5, <2>2 DEF IdProof
    <3>2. Duplicates(d) \in SUBSET Device
      BY DEF Duplicates, TypeOK
    <3>3. wire' \in [Device -> SUBSET HeldFrame]
      BY <3>1, CutType, PumpType DEF TypeOK
    <3>4. /\ open' = open \ Duplicates(d)
          /\ proven' \subseteq verified'
          /\ verified' \subseteq open'
          /\ asleep' \subseteq open'
      BY <3>1 DEF Closed, Duplicates, TypeOK
    <3> QED
      BY <3>1, <3>2, <3>3, <3>4, ClosedType
         DEF TypeOK, storeVars, accountVars
  <2> QED BY <1>5, <2>1, <2>2 DEF IdProof
<1>6. CASE SendLive(d)
  BY <1>6 DEF SendLive, Awake, TypeOK, storeVars, accountVars
<1>7. CASE SiblingHold(d)
  <2>1. /\ sending' = sending \ {d}
        /\ asleep' = asleep \ {d}
        /\ UNCHANGED <<accountVars, open, proven, verified, wire, acks, got>>
    BY <1>7, CutType DEF SiblingHold, Awake, TypeOK
  <2>2. CASE UNCHANGED storeVars
    BY <2>1, <2>2 DEF TypeOK, storeVars, accountVars
  <2>3. CASE HoldFor(AbsentSiblings(d)) /\ UNCHANGED lapsed
    <3>1. last + 1 \in Copy
      BY <1>7, RoomForOne DEF SiblingHold
    <3>2. AbsentSiblings(d) \in SUBSET Device
      BY DEF AbsentSiblings, TypeOK
    <3> QED BY <2>1, <2>3, <3>1, <3>2, HoldType DEF TypeOK, accountVars
  <2> QED BY <1>7, <2>2, <2>3 DEF SiblingHold
<1>8. CASE SiblingFetch(d)
  <2>1. wire' \in [Device -> SUBSET HeldFrame]
    BY <1>8, PumpType DEF SiblingFetch, TypeOK
  <2> QED
    BY <1>8, <2>1 DEF SiblingFetch, Awake, TypeOK, storeVars, accountVars
<1>9. CASE HandleSiblingHeld(d)
  <2>1. PICK f \in wire[d] :
          /\ wire' = [wire EXCEPT ![d] = @ \ {f}]
          /\ acks' = [acks EXCEPT ![d] = @ \cup {f.ids}]
          /\ got' = [got EXCEPT ![d] = @ \cup f.ids]
          /\ \/ /\ owed' = Cut(owed, {d})
                /\ crossed' = Cut(crossed, {d})
                /\ Settles({d}, owed[d])
             \/ UNCHANGED <<owed, crossed, settled>>
          /\ UNCHANGED <<last, pending, overflow, file, lapsed, accountVars,
                         socketVars, sending>>
    BY <1>9 DEF HandleSiblingHeld
  <2>2. f.ids \in SUBSET Copy
    BY DEF TypeOK, HeldFrame
  <2>3. /\ owed' \in [Device -> SUBSET Copy]
        /\ crossed' \in [Device -> SUBSET Copy]
        /\ settled' \in [Device -> SUBSET Copy]
    <3>1. owed[d] \in SUBSET Copy
      BY DEF TypeOK
    <3>2. /\ Cut(owed, {d}) \in [Device -> SUBSET Copy]
          /\ Cut(crossed, {d}) \in [Device -> SUBSET Copy]
      BY CutType DEF TypeOK
    <3>3. Settles({d}, owed[d]) => settled' \in [Device -> SUBSET Copy]
      BY <3>1, SettlesType DEF TypeOK
    <3> QED BY <2>1, <3>2, <3>3 DEF TypeOK
  <2>4. /\ wire' \in [Device -> SUBSET HeldFrame]
        /\ acks' \in [Device -> SUBSET SUBSET Copy]
        /\ got' \in [Device -> SUBSET Copy]
    BY <2>1, <2>2 DEF TypeOK
  <2> QED BY <2>1, <2>3, <2>4 DEF TypeOK, accountVars, socketVars
<1>10. CASE SiblingAck(d)
  <2>1. PICK ids \in acks[d] :
          /\ acks' = [acks EXCEPT ![d] = @ \ {ids}]
          /\ \/ UNCHANGED <<pending, file, overflow, wire>>
             \/ /\ overflow' = overflow \ {d}
                /\ \/ SaveSiblingHeld(AckSiblingHeld(d, ids))
                   \/ UNCHANGED <<pending, file>>
                /\ PumpSiblingHeld(d, pending', overflow', wire)
          /\ asleep' = asleep \ {d}
          /\ UNCHANGED <<last, lapsed, owed, crossed, settled, accountVars, open,
                         proven, verified, sending, got>>
    BY <1>10 DEF SiblingAck, Awake
  <2>2. acks' \in [Device -> SUBSET SUBSET Copy]
    BY <2>1 DEF TypeOK
  <2>3. AckSiblingHeld(d, ids) \in [Copy -> SUBSET Device]
    BY DEF AckSiblingHeld, Without, TypeOK
  <2>4. /\ pending' \in [Copy -> SUBSET Device]
        /\ file' \in [Copy -> SUBSET Device]
        /\ overflow' \subseteq Device
    BY <2>1, <2>3 DEF SaveSiblingHeld, TypeOK
  <2>5. wire' \in [Device -> SUBSET HeldFrame]
    BY <2>1, PumpType DEF TypeOK
  <2> QED BY <2>1, <2>2, <2>4, <2>5 DEF TypeOK, accountVars
<1>11. CASE BeaconPut(d)
  BY <1>11 DEF BeaconPut, Awake, TypeOK, storeVars, frameVars
<1>12. CASE BeaconDrop(d)
  <2>1. ForgetSiblingDevices({d})
    BY <1>12 DEF BeaconDrop
  <2> QED
    BY <1>12, <2>1, ForgetType DEF BeaconDrop, Awake, TypeOK, frameVars
<1>13. CASE PurgeMe(d)
  <2>1. settled' \in [Device -> SUBSET Copy]
    BY <1>13, HeldAreCopies, SettlesType DEF PurgeMe, TypeOK
  <2>2. /\ pending' \in [Copy -> SUBSET Device]
        /\ file' \in [Copy -> SUBSET Device]
    BY <1>13 DEF PurgeMe, SaveSiblingHeld, NoItems
  <2>3. /\ owed' \in [Device -> SUBSET Copy]
        /\ crossed' \in [Device -> SUBSET Copy]
    BY <1>13 DEF PurgeMe, Nothing
  <2> QED
    BY <1>13, <2>1, <2>2, <2>3 DEF PurgeMe, Awake, TypeOK, frameVars
<1>14. ASSUME NEW D \in SUBSET Device, RosterPut(d, D) PROVE TypeOK'
  <2>1. ForgetSiblingDevices(D)
    BY <1>14 DEF RosterPut
  <2> QED
    BY <1>14, <2>1, ForgetType DEF RosterPut, Awake, TypeOK, frameVars
<1> QED
  BY <1>1, <1>2, <1>3, <1>4, <1>5, <1>6, <1>7, <1>8, <1>9, <1>10, <1>11,
     <1>12, <1>13, <1>14 DEF DeviceNext

\* So does every other step.
LEMMA TypeStep == TypeOK /\ RoomLeft /\ [Next]_vars => TypeOK'
<1> SUFFICES ASSUME TypeOK, RoomLeft, [Next]_vars PROVE TypeOK'
  OBVIOUS
<1>1. CASE \E d \in Device : DeviceNext(d)
  BY <1>1, TypeDevice
<1>2. CASE CacheEviction
  <2>1. /\ beacons \in SUBSET Device
        /\ LoadSiblingHeld(beacons)
        /\ SettlesUnloaded(beacons)
    BY <1>2 DEF CacheEviction, TypeOK
  <2> QED
    BY <1>2, <2>1, LoadType
       DEF CacheEviction, TypeOK, accountVars, socketVars, frameVars
<1>3. CASE Restart
  <2>1. PICK B \in SUBSET beacons :
          beacons' = B /\ LoadSiblingHeld(B) /\ SettlesUnloaded(B)
    BY <1>3 DEF Restart
  <2>2. B \in SUBSET Device
    BY <1>3 DEF TypeOK
  <2>3. \A T : Nothing \in [Device -> SUBSET T]
    BY DEF Nothing
  <2> QED BY <1>3, <2>1, <2>2, <2>3, LoadType DEF Restart, TypeOK
<1>4. CASE UNCHANGED vars
  BY <1>4 DEF vars, TypeOK, storeVars, accountVars, socketVars, frameVars
<1> QED BY <1>1, <1>2, <1>3, <1>4 DEF Next

LEMMA RoomInit == Init => RoomLeft
  BY FS_EmptySet, SiblingMailAssumption DEF Init, RoomLeft, SiblingMailAssumption

\* Every reachable state of the store, the sockets and the account has the
\* declared types: a proven socket is indexed, an indexed one is open, and a
\* hold frame never outlives its socket.
THEOREM TypeCorrect == Spec => []TypeOK
<1>1. Init => TypeOK /\ RoomLeft
  BY TypeInit, RoomInit
<1>2. TypeOK /\ RoomLeft /\ [Next]_vars => (TypeOK /\ RoomLeft)'
  BY TypeStep, RoomStep
<1> QED BY <1>1, <1>2, PTL DEF Spec

-----------------------------------------------------------------------------
(* Revoked devices.                                                        *)

\* A step that adds no revoked device anywhere keeps them all out.
LEMMA OutKept ==
  ASSUME RevokedIsOut, revoked' = revoked,
         proven' \cap revoked \subseteq proven,
         verified' \cap revoked \subseteq verified,
         beacons' \cap revoked \subseteq beacons,
         overflow' \cap revoked \subseteq overflow,
         \A c \in Copy : pending'[c] \cap revoked \subseteq pending[c]
  PROVE  RevokedIsOut'
  BY DEF RevokedIsOut, Mine

\* Forgetting devices leaves nothing of them and adds nothing.
LEMMA ForgetsAll ==
  ASSUME TypeOK, NEW D \in SUBSET Device, ForgetSiblingDevices(D)
  PROVE  /\ beacons' = beacons \ D
         /\ overflow' = overflow \ D
         /\ \A c \in Copy : pending'[c] = pending[c] \ D
<1>1. beacons' = beacons \ D /\ overflow' = overflow \ D
  BY DEF ForgetSiblingDevices
<1>2. CASE pending' = [c \in Copy |-> pending[c] \ D]
  BY <1>1, <1>2
<1>3. CASE (\A c \in Copy : pending[c] \cap D = {}) /\ pending' = pending
  BY <1>1, <1>3
<1>4. \/ pending' = [c \in Copy |-> pending[c] \ D]
      \/ (\A c \in Copy : pending[c] \cap D = {}) /\ pending' = pending
  BY DEF ForgetSiblingDevices, SaveSiblingHeld
<1> QED BY <1>2, <1>3, <1>4

\* A copy held is kept for the devices it is held for, and for those the
\* older copies were kept for, or their loss is on record.
LEMMA HoldKeeps ==
  ASSUME TypeOK, NEW D \in SUBSET Device, last + 1 \in Copy, HoldFor(D)
  PROVE  /\ \A c \in Copy : pending'[c] \subseteq pending[c] \cup D
         /\ \A e \in overflow' : e \in overflow \cup D \/ \E c \in Copy : e \in pending[c]
         /\ \A d \in Device : \A c \in Copy \ {last + 1} :
              d \in pending[c] => d \in pending'[c] \/ c \in owed'[d]
         /\ \A d \in Device : d \in D =>
              d \in pending'[last + 1] \/ last + 1 \in owed'[d]
         /\ \A d \in Device : d \notin D => last + 1 \in settled'[d]
         /\ \A d \in Device : owed[d] \subseteq owed'[d]
         /\ \A d \in Device : settled[d] \subseteq settled'[d]
<1> DEFINE held == [pending EXCEPT ![last + 1] = D]
           dropped == Items(held) \ Newest(Items(held), MaxItems)
<1>1. /\ held \in [Copy -> SUBSET Device]
      /\ held[last + 1] = D
      /\ \A c \in Copy \ {last + 1} : held[c] = pending[c]
  BY DEF TypeOK
<1>2. dropped \in SUBSET Copy
  BY DEF Items
<1>3. /\ pending' = [c \in Copy |-> IF c \in dropped THEN {} ELSE held[c]]
      /\ overflow' = overflow \cup UNION {held[c] : c \in dropped}
      /\ owed' = [d \in Device |-> owed[d] \cup (dropped \cap Mine(held, d))]
      /\ settled' = [d \in Device |-> IF d \in Device \ D
                                      THEN settled[d] \cup {last + 1}
                                      ELSE settled[d]]
  BY DEF HoldFor, SaveSiblingHeld, Settles, Drops
<1> HIDE DEF held, dropped
<1>4. \A c \in Copy : pending'[c] \subseteq pending[c] \cup D
  BY <1>1, <1>3
<1>5. \A e \in overflow' : e \in overflow \/ \E c \in dropped : e \in held[c]
  BY <1>3
<1>6. \A e \in overflow' : e \in overflow \cup D \/ \E c \in Copy : e \in pending[c]
  BY <1>1, <1>2, <1>5
<1>7. \A d \in Device : \A c \in Copy :
        d \in held[c] => d \in pending'[c] \/ c \in owed'[d]
  BY <1>3 DEF Mine
<1>8. /\ \A d \in Device : owed[d] \subseteq owed'[d]
      /\ \A d \in Device : settled[d] \subseteq settled'[d]
      /\ \A d \in Device : d \notin D => last + 1 \in settled'[d]
  BY <1>3
<1> QED BY <1>1, <1>4, <1>6, <1>7, <1>8

\* Each device action keeps revoked devices out.
LEMMA OutDevice ==
  ASSUME TypeOK, RoomLeft, RevokedIsOut, NEW d \in Device, DeviceNext(d)
  PROVE  RevokedIsOut'
<1>1. CASE Connect(d) \/ Rehello(d) \/ Sleep(d) \/ Wake(d)
  BY <1>1, OutKept DEF Connect, Rehello, Sleep, Wake, storeVars, accountVars
<1>2. CASE Disconnect(d) \/ SendLive(d) \/ SiblingFetch(d) \/ HandleSiblingHeld(d)
  BY <1>2, OutKept DEF Disconnect, SendLive, SiblingFetch, HandleSiblingHeld,
                       storeVars, accountVars, socketVars
<1>3. CASE IdProof(d)
  <2>1. UNCHANGED <<pending, overflow, beacons, revoked>>
    BY <1>3 DEF IdProof, storeVars, accountVars
  <2>2. /\ proven' \cap revoked \subseteq proven
        /\ verified' \cap revoked \subseteq verified
    BY <1>3 DEF IdProof, RosterRevokes
  <2> QED BY <2>1, <2>2, OutKept
<1>4. CASE SiblingHold(d)
  <2>1. UNCHANGED <<beacons, revoked, proven, verified>>
    BY <1>4 DEF SiblingHold, accountVars
  <2>2. CASE UNCHANGED storeVars
    BY <2>1, <2>2, OutKept DEF storeVars
  <2>3. CASE HoldFor(AbsentSiblings(d))
    <3>1. last + 1 \in Copy
      BY <1>4, RoomForOne DEF SiblingHold
    <3>2. AbsentSiblings(d) \in SUBSET Device /\ AbsentSiblings(d) \cap revoked = {}
      BY DEF AbsentSiblings, RevokedIsOut, TypeOK
    <3>3. \A c \in Copy : pending[c] \cap revoked = {}
      BY DEF RevokedIsOut, Mine
    <3>4. \A c \in Copy : pending'[c] \cap revoked \subseteq pending[c]
      BY <2>3, <3>1, <3>2, HoldKeeps
    <3>5. overflow' \cap revoked \subseteq overflow
      <4>1. \A e \in overflow' : \/ e \in overflow \cup AbsentSiblings(d)
                                 \/ \E c \in Copy : e \in pending[c]
        BY <2>3, <3>1, <3>2, HoldKeeps
      <4> QED BY <3>2, <3>3, <4>1
    <3> QED BY <2>1, <3>4, <3>5, OutKept
  <2> QED BY <1>4, <2>2, <2>3 DEF SiblingHold
<1>5. CASE SiblingAck(d)
  <2>1. UNCHANGED <<beacons, revoked, proven, verified>>
    BY <1>5 DEF SiblingAck, accountVars
  <2>2. overflow' \subseteq overflow
    BY <1>5 DEF SiblingAck
  <2>3. \A c \in Copy : pending'[c] \subseteq pending[c]
    BY <1>5 DEF SiblingAck, SaveSiblingHeld, AckSiblingHeld, Without
  <2> QED BY <2>1, <2>2, <2>3, OutKept
<1>6. CASE BeaconPut(d)
  <2>1. beacons' \subseteq beacons \cup {d} /\ d \notin revoked
    BY <1>6 DEF BeaconPut, RevokedIsOut
  <2>2. UNCHANGED <<pending, overflow, revoked, proven, verified>>
    BY <1>6 DEF BeaconPut, storeVars
  <2> QED BY <2>1, <2>2, OutKept
<1>7. CASE BeaconDrop(d)
  <2>1. /\ UNCHANGED <<revoked, proven, verified>>
        /\ ForgetSiblingDevices({d})
    BY <1>7 DEF BeaconDrop
  <2> QED BY <2>1, ForgetsAll, OutKept
<1>8. CASE PurgeMe(d)
  <2>1. /\ beacons' = {}
        /\ overflow' = {}
        /\ revoked' \subseteq revoked
        /\ UNCHANGED <<proven, verified>>
    BY <1>8 DEF PurgeMe
  <2>2. \A c \in Copy : pending'[c] = {}
    BY <1>8 DEF PurgeMe, SaveSiblingHeld, NoItems
  <2> QED BY <2>1, <2>2 DEF RevokedIsOut, Mine
<1>9. ASSUME NEW D \in SUBSET Device, RosterPut(d, D) PROVE RevokedIsOut'
  <2>1. /\ revoked' = D
        /\ proven' = proven \ D
        /\ verified' = verified \ D
        /\ ForgetSiblingDevices(D)
    BY <1>9 DEF RosterPut
  <2> QED BY <2>1, ForgetsAll DEF RevokedIsOut, Mine
<1> QED
  BY <1>1, <1>2, <1>3, <1>4, <1>5, <1>6, <1>7, <1>8, <1>9 DEF DeviceNext

LEMMA OutStep == TypeOK /\ RoomLeft /\ RevokedIsOut /\ [Next]_vars => RevokedIsOut'
<1> SUFFICES ASSUME TypeOK, RoomLeft, RevokedIsOut, [Next]_vars
             PROVE  RevokedIsOut'
  OBVIOUS
<1>1. CASE \E d \in Device : DeviceNext(d)
  BY <1>1, OutDevice
<1>2. CASE CacheEviction \/ Restart
  <2>1. PICK B \in SUBSET beacons : beacons' = B /\ LoadSiblingHeld(B)
    BY <1>2 DEF CacheEviction, Restart, accountVars
  <2>2. \A c \in Copy : pending'[c] \subseteq beacons
    BY <2>1 DEF LoadSiblingHeld
  <2>3. /\ UNCHANGED <<revoked, overflow>>
        /\ proven' \subseteq proven
        /\ verified' \subseteq verified
    BY <1>2 DEF CacheEviction, Restart, accountVars, socketVars
  <2>4. \A c \in Copy : pending'[c] \cap revoked = {}
    BY <2>2 DEF RevokedIsOut
  <2> QED BY <2>1, <2>3, <2>4, OutKept
<1>3. CASE UNCHANGED vars
  BY <1>3, OutKept DEF vars, storeVars, accountVars, socketVars
<1> QED BY <1>1, <1>2, <1>3 DEF Next

\* A device the roster revokes is out of the sockets, the beacons and the
\* store, for every interleaving of rosters, proofs, holds and reloads.
THEOREM RevokedStaysOut == Spec => []RevokedIsOut
<1>1. Init => TypeOK /\ RoomLeft /\ RevokedIsOut
  BY TypeInit, RoomInit DEF Init, RevokedIsOut
<1>2. TypeOK /\ RoomLeft /\ RevokedIsOut /\ [Next]_vars
        => (TypeOK /\ RoomLeft /\ RevokedIsOut)'
  BY TypeStep, RoomStep, OutStep
<1> QED BY <1>1, <1>2, PTL DEF Spec

-----------------------------------------------------------------------------
(* No copy is silently lost.                                               *)

\* What a device acknowledges it has received.
AcksWereGot == \A d \in Device : \A ids \in acks[d] : ids \subseteq got[d]

\* A copy is kept, received, dropped or without a claimant.
Claimed ==
  \A d \in Device : \A c \in 1 .. last :
    d \in pending[c] \/ c \in got[d] \/ c \in owed[d] \/ c \in settled[d]

\* What is in memory is in the file.
Stored == \A c \in Copy : pending[c] \subseteq file[c]

\* The store bears the mark of a drop that nothing was under way to, and
\* only frames that tell it are on the way: the acknowledgement that clears
\* the mark is of one of these.
Marked ==
  \A d \in Device : \A c \in owed[d] \ crossed[d] :
    d \in overflow /\ acks[d] = {} /\ \A f \in wire[d] : f.overflow

HeldInv == Claimed /\ AcksWereGot /\ Stored /\ Marked

\* Copies are accounted for as long as each stays kept, or its loss to a
\* device is received, owed or settled.
LEMMA AccountKept ==
  ASSUME TypeOK, Claimed, last' = last,
         \A d \in Device : \A c \in Copy :
           \/ d \in pending[c] => d \in pending'[c]
           \/ c \in got'[d] \/ c \in owed'[d] \/ c \in settled'[d],
         \A d \in Device : got[d] \subseteq got'[d] /\ settled[d] \subseteq settled'[d],
         \A d \in Device : owed[d] \subseteq owed'[d] \cup settled'[d]
  PROVE  Claimed'
<1> SUFFICES ASSUME NEW d \in Device, NEW c \in 1 .. last
             PROVE  \/ d \in pending'[c]
                    \/ c \in got'[d]
                    \/ c \in owed'[d]
                    \/ c \in settled'[d]
  BY DEF Claimed
<1>1. c \in Copy
  BY HeldAreCopies
<1>2. d \in pending[c] \/ c \in got[d] \/ c \in owed[d] \/ c \in settled[d]
  BY DEF Claimed
<1> QED BY <1>1, <1>2

\* Devices that are forgotten lose their claim, and the others lose nothing.
LEMMA ForgetAccounts ==
  ASSUME TypeOK, Claimed, NEW D \in SUBSET Device,
         ForgetSiblingDevices(D), last' = last, got' = got
  PROVE  Claimed'
<1>1. \A c \in Copy : pending'[c] = pending[c] \ D
  BY ForgetsAll
<1>2. /\ owed' = [d \in Device |-> IF d \in D THEN {} ELSE owed[d]]
      /\ settled' = [d \in Device |-> IF d \in D THEN settled[d] \cup 1 .. last
                                                 ELSE settled[d]]
  BY DEF ForgetSiblingDevices, Cut, Settles
<1> SUFFICES ASSUME NEW d \in Device, NEW c \in 1 .. last
             PROVE  \/ d \in pending'[c]
                    \/ c \in got'[d]
                    \/ c \in owed'[d]
                    \/ c \in settled'[d]
  BY DEF Claimed
<1>3. c \in Copy
  BY HeldAreCopies
<1>4. d \in pending[c] \/ c \in got[d] \/ c \in owed[d] \/ c \in settled[d]
  BY DEF Claimed
<1>5. CASE d \in D
  BY <1>2, <1>5
<1>6. CASE d \notin D
  BY <1>1, <1>2, <1>3, <1>4, <1>6
<1> QED BY <1>5, <1>6

\* No step takes back what a device has received, and no acknowledgement
\* arises but from what it received.
LEMMA AcksStep == TypeOK /\ AcksWereGot /\ [Next]_vars => AcksWereGot'
<1> SUFFICES ASSUME TypeOK, AcksWereGot, [Next]_vars PROVE AcksWereGot'
  OBVIOUS
<1>1. ASSUME got' = got, \A e \in Device : acks'[e] \subseteq acks[e]
      PROVE  AcksWereGot'
  BY <1>1 DEF AcksWereGot
<1>2. ASSUME NEW d \in Device, HandleSiblingHeld(d) PROVE AcksWereGot'
  <2>1. PICK f \in wire[d] :
          /\ acks' = [acks EXCEPT ![d] = @ \cup {f.ids}]
          /\ got' = [got EXCEPT ![d] = @ \cup f.ids]
    BY <1>2 DEF HandleSiblingHeld
  <2>2. /\ \A e \in Device : acks'[e] \subseteq acks[e] \/ e = d
        /\ \A ids \in acks'[d] : ids \in acks[d] \/ ids = f.ids
        /\ \A e \in Device : got[e] \subseteq got'[e]
        /\ f.ids \subseteq got'[d]
    BY <2>1 DEF TypeOK
  <2> QED BY <2>2 DEF AcksWereGot
<1>3. ASSUME NEW d \in Device, DeviceNext(d), ~HandleSiblingHeld(d)
      PROVE  AcksWereGot'
  <2>1. CASE Connect(d) \/ Rehello(d) \/ Sleep(d) \/ Wake(d)
    BY <1>1, <2>1 DEF Connect, Rehello, Sleep, Wake, frameVars
  <2>2. CASE Disconnect(d)
    BY <1>1, <2>2 DEF Disconnect, Closed, Cut
  <2>3. CASE IdProof(d)
    BY <1>1, <2>3 DEF IdProof, Closed, Cut, frameVars
  <2>4. CASE SendLive(d) \/ SiblingHold(d) \/ SiblingFetch(d)
    BY <1>1, <2>4 DEF SendLive, SiblingHold, SiblingFetch
  <2>5. CASE SiblingAck(d)
    <3>1. \E ids : acks' = [acks EXCEPT ![d] = @ \ {ids}] /\ got' = got
      BY <2>5 DEF SiblingAck
    <3> QED BY <1>1, <3>1 DEF TypeOK
  <2>6. CASE BeaconPut(d) \/ BeaconDrop(d) \/ PurgeMe(d)
    BY <1>1, <2>6 DEF BeaconPut, BeaconDrop, PurgeMe, frameVars
  <2>7. CASE \E D \in SUBSET Device : RosterPut(d, D)
    BY <1>1, <2>7 DEF RosterPut, frameVars
  <2> QED
    BY <1>3, <2>1, <2>2, <2>3, <2>4, <2>5, <2>6, <2>7 DEF DeviceNext
<1>4. CASE CacheEviction
  BY <1>1, <1>4 DEF CacheEviction, frameVars
<1>5. CASE Restart
  BY <1>1, <1>5 DEF Restart, Nothing
<1>6. CASE UNCHANGED vars
  BY <1>1, <1>6 DEF vars, frameVars
<1> QED BY <1>2, <1>3, <1>4, <1>5, <1>6 DEF Next

\* Each device action accounts for every copy.
LEMMA HeldDevice ==
  ASSUME TypeOK, RoomLeft, HeldInv, NEW d \in Device, DeviceNext(d)
  PROVE  Claimed'
<1> USE DEF HeldInv
<1>1. ASSUME UNCHANGED <<storeVars, got>> PROVE Claimed'
  BY <1>1 DEF Claimed, storeVars
<1>2. CASE Connect(d) \/ Disconnect(d) \/ Rehello(d) \/ Sleep(d) \/ Wake(d)
  BY <1>1, <1>2 DEF Connect, Disconnect, Rehello, Sleep, Wake
<1>3. CASE IdProof(d) \/ SendLive(d) \/ SiblingFetch(d) \/ BeaconPut(d)
  BY <1>1, <1>3 DEF IdProof, SendLive, SiblingFetch, BeaconPut
<1>4. CASE SiblingHold(d)
  <2>1. CASE UNCHANGED storeVars
    BY <1>1, <1>4, <2>1 DEF SiblingHold
  <2>2. CASE HoldFor(AbsentSiblings(d))
    <3> DEFINE D == AbsentSiblings(d)
    <3>1. last + 1 \in Copy /\ D \in SUBSET Device /\ last' = last + 1 /\ got' = got
      BY <1>4, <2>2, RoomForOne DEF SiblingHold, HoldFor, AbsentSiblings, TypeOK
    <3>2. last \in Nat
      BY SiblingMailAssumption DEF TypeOK, SiblingMailAssumption
    <3> HIDE DEF D
    <3>3. HoldFor(D)
      BY <2>2 DEF D
    <3> SUFFICES ASSUME NEW e \in Device, NEW c \in 1 .. last'
                 PROVE  \/ e \in pending'[c]
                        \/ c \in got'[e]
                        \/ c \in owed'[e]
                        \/ c \in settled'[e]
      BY DEF Claimed
    <3>4. CASE c = last + 1
      BY <3>1, <3>3, <3>4, HoldKeeps
    <3>5. CASE c # last + 1
      <4>1. c \in 1 .. last /\ c \in Copy \ {last + 1}
        BY <3>1, <3>2, <3>5, HeldAreCopies
      <4>2. e \in pending[c] \/ c \in got[e] \/ c \in owed[e] \/ c \in settled[e]
        BY <4>1 DEF Claimed
      <4>3. /\ e \in pending[c] => e \in pending'[c] \/ c \in owed'[e]
            /\ owed[e] \subseteq owed'[e]
            /\ settled[e] \subseteq settled'[e]
        BY <3>1, <3>3, <4>1, HoldKeeps
      <4> QED BY <3>1, <4>2, <4>3
    <3> QED BY <3>4, <3>5
  <2> QED BY <1>4, <2>1, <2>2 DEF SiblingHold
<1>5. CASE HandleSiblingHeld(d)
  <2>1. PICK f \in wire[d] :
          /\ got' = [got EXCEPT ![d] = @ \cup f.ids]
          /\ \/ owed' = Cut(owed, {d}) /\ Settles({d}, owed[d])
             \/ UNCHANGED <<owed, settled>>
          /\ UNCHANGED <<last, pending>>
    BY <1>5 DEF HandleSiblingHeld
  <2>2. \A e \in Device : got[e] \subseteq got'[e]
    BY <2>1 DEF TypeOK
  <2>3. \A e \in Device : /\ settled[e] \subseteq settled'[e]
                          /\ owed[e] \subseteq owed'[e] \cup settled'[e]
    BY <2>1 DEF Cut, Settles
  <2> QED BY <2>1, <2>2, <2>3, AccountKept
<1>6. CASE SiblingAck(d)
  <2>1. PICK ids \in acks[d] : \/ pending' = pending
                               \/ pending' = Without(pending, d, ids)
    BY <1>6 DEF SiblingAck, SaveSiblingHeld, AckSiblingHeld
  <2>2. UNCHANGED <<last, owed, settled, got>>
    BY <1>6 DEF SiblingAck
  <2>3. ids \subseteq got[d]
    BY DEF AcksWereGot
  <2>4. \A e \in Device : \A c \in Copy :
          (e \in pending[c] => e \in pending'[c]) \/ c \in got'[e]
    BY <2>1, <2>2, <2>3 DEF Without
  <2> QED BY <2>2, <2>4, AccountKept
<1>7. CASE BeaconDrop(d)
  BY <1>7, ForgetAccounts DEF BeaconDrop
<1>8. CASE PurgeMe(d)
  <2>1. settled' = [e \in Device |-> settled[e] \cup 1 .. last] /\ last' = last
    BY <1>8 DEF PurgeMe, Settles
  <2> QED BY <2>1 DEF Claimed
<1>9. ASSUME NEW D \in SUBSET Device, RosterPut(d, D) PROVE Claimed'
  BY <1>9, ForgetAccounts DEF RosterPut
<1> QED
  BY <1>2, <1>3, <1>4, <1>5, <1>6, <1>7, <1>8, <1>9 DEF DeviceNext

\* Whatever changes the store in memory writes it; a reload only takes out.
LEMMA StoredStep == TypeOK /\ Stored /\ [Next]_vars => Stored'
<1> SUFFICES ASSUME TypeOK, Stored, [Next]_vars PROVE Stored'
  OBVIOUS
<1>1. ASSUME NEW p, SaveSiblingHeld(p) PROVE Stored'
  BY <1>1 DEF SaveSiblingHeld, Stored
<1>2. ASSUME UNCHANGED <<pending, file>> PROVE Stored'
  BY <1>2 DEF Stored
<1>3. ASSUME NEW D, ForgetSiblingDevices(D) PROVE Stored'
  BY <1>1, <1>2, <1>3 DEF ForgetSiblingDevices
<1>4. ASSUME NEW d \in Device, DeviceNext(d) PROVE Stored'
  <2>1. CASE Connect(d) \/ Disconnect(d) \/ Rehello(d) \/ Sleep(d) \/ Wake(d)
    BY <1>2, <2>1 DEF Connect, Disconnect, Rehello, Sleep, Wake, storeVars
  <2>2. CASE IdProof(d) \/ SendLive(d) \/ SiblingFetch(d) \/ BeaconPut(d)
    BY <1>2, <2>2 DEF IdProof, SendLive, SiblingFetch, BeaconPut, storeVars
  <2>3. CASE SiblingHold(d)
    BY <1>1, <1>2, <2>3 DEF SiblingHold, HoldFor, storeVars
  <2>4. CASE HandleSiblingHeld(d) \/ SiblingAck(d)
    BY <1>1, <1>2, <2>4 DEF HandleSiblingHeld, SiblingAck
  <2>5. CASE BeaconDrop(d) \/ PurgeMe(d)
    BY <1>1, <1>3, <2>5 DEF BeaconDrop, PurgeMe
  <2>6. CASE \E D \in SUBSET Device : RosterPut(d, D)
    BY <1>3, <2>6 DEF RosterPut
  <2> QED BY <1>4, <2>1, <2>2, <2>3, <2>4, <2>5, <2>6 DEF DeviceNext
<1>5. CASE CacheEviction \/ Restart
  <2>1. PICK B : LoadSiblingHeld(B) /\ UNCHANGED file
    BY <1>5 DEF CacheEviction, Restart
  <2> QED BY <2>1 DEF LoadSiblingHeld, Stored
<1>6. CASE UNCHANGED vars
  BY <1>2, <1>6 DEF vars, storeVars
<1> QED BY <1>4, <1>5, <1>6 DEF Next

\* A frame the pump sends says whether copies were dropped.
LEMMA PumpTells ==
  ASSUME NEW d \in Device, NEW p, NEW o, NEW w \in [Device -> SUBSET HeldFrame],
         PumpSiblingHeld(d, p, o, w), NEW e \in Device, NEW f \in wire'[e]
  PROVE  f \in w[e] \/ (e = d /\ f.overflow = (e \in o))
  BY DEF PumpSiblingHeld

\* Marks stay as long as no mark is cleared, no acknowledgement arises and
\* every new frame tells, for the devices that are still owed something.
LEMMA MarkKept ==
  ASSUME Marked,
         \A e \in Device : owed'[e] \ crossed'[e] \subseteq owed[e] \ crossed[e],
         \A e \in Device :
           e \in overflow /\ acks[e] = {} /\ owed'[e] # {} =>
             /\ e \in overflow'
             /\ acks'[e] = {}
             /\ \A f \in wire'[e] : f \in wire[e] \/ f.overflow
  PROVE  Marked'
<1> SUFFICES ASSUME NEW e \in Device, NEW c \in owed'[e] \ crossed'[e]
             PROVE  e \in overflow' /\ acks'[e] = {} /\ \A f \in wire'[e] : f.overflow
  BY DEF Marked
<1>1. c \in owed[e] \ crossed[e] /\ owed'[e] # {}
  OBVIOUS
<1>2. e \in overflow /\ acks[e] = {} /\ \A f \in wire[e] : f.overflow
  BY <1>1 DEF Marked
<1> QED BY <1>1, <1>2

\* So does a drop: what it crosses is on record.
LEMMA MarkHold ==
  ASSUME TypeOK, Marked, NEW D, HoldFor(D), UNCHANGED <<wire, acks>>
  PROVE  Marked'
<1> DEFINE held == [pending EXCEPT ![last + 1] = D]
           dropped == Items(held) \ Newest(Items(held), MaxItems)
<1>1. /\ overflow' = overflow \cup UNION {held[c] : c \in dropped}
      /\ owed' = [d \in Device |-> owed[d] \cup (dropped \cap Mine(held, d))]
      /\ crossed' = [d \in Device |-> IF wire[d] # {} \/ acks[d] # {}
                                     THEN crossed[d] \cup (dropped \cap Mine(held, d))
                                     ELSE crossed[d]]
  BY DEF HoldFor, Drops
<1> HIDE DEF held, dropped
<1> SUFFICES ASSUME NEW e \in Device, NEW c \in owed'[e] \ crossed'[e]
             PROVE  e \in overflow' /\ acks[e] = {} /\ \A f \in wire[e] : f.overflow
  BY DEF Marked
<1>2. CASE c \in owed[e] \ crossed[e]
  BY <1>1, <1>2 DEF Marked
<1>3. CASE c \notin owed[e] \ crossed[e]
  <2>1. /\ c \in dropped /\ e \in held[c]
        /\ wire[e] = {} /\ acks[e] = {}
    BY <1>1, <1>3 DEF Mine
  <2> QED BY <1>1, <2>1
<1> QED BY <1>2, <1>3

\* A mark is cleared only by the acknowledgement of a frame that told, or of
\* one the drop crossed.
LEMMA MarkedStep == TypeOK /\ Marked /\ [Next]_vars => Marked'
<1> SUFFICES ASSUME TypeOK, Marked, [Next]_vars PROVE Marked'
  OBVIOUS
<1>1. ASSUME NEW d \in Device, DeviceNext(d) PROVE Marked'
  <2>1. CASE Connect(d) \/ Rehello(d) \/ Sleep(d) \/ Wake(d)
    BY <2>1, MarkKept DEF Connect, Rehello, Sleep, Wake, storeVars, frameVars
  <2>2. CASE Disconnect(d)
    BY <2>2, MarkKept DEF Disconnect, Closed, Cut, storeVars
  <2>3. CASE IdProof(d)
    <3>1. UNCHANGED storeVars
      BY <2>3 DEF IdProof
    <3>2. CASE UNCHANGED frameVars
      BY <3>1, <3>2, MarkKept DEF storeVars, frameVars
    <3>3. CASE /\ Closed(Duplicates(d))
               /\ PumpSiblingHeld(d, pending, overflow, Cut(wire, Duplicates(d)))
      <4>1. Cut(wire, Duplicates(d)) \in [Device -> SUBSET HeldFrame]
        BY CutType DEF TypeOK
      <4>2. ASSUME NEW e \in Device, NEW f \in wire'[e]
            PROVE  f \in wire[e] \/ f.overflow = (e \in overflow)
        BY <3>3, <4>1, <4>2, PumpTells DEF Cut
      <4>3. \A e \in Device : acks'[e] \subseteq acks[e]
        BY <3>3 DEF Closed, Cut
      <4> QED BY <3>1, <4>2, <4>3, MarkKept DEF storeVars
    <3> QED BY <2>3, <3>2, <3>3 DEF IdProof
  <2>4. CASE SendLive(d)
    BY <2>4, MarkKept DEF SendLive, storeVars
  <2>5. CASE SiblingHold(d)
    <3>1. UNCHANGED <<wire, acks>>
      BY <2>5 DEF SiblingHold
    <3>2. CASE UNCHANGED storeVars
      BY <3>1, <3>2, MarkKept DEF storeVars
    <3> QED BY <2>5, <3>1, <3>2, MarkHold DEF SiblingHold
  <2>6. CASE SiblingFetch(d)
    <3>1. ASSUME NEW e \in Device, NEW f \in wire'[e]
          PROVE  f \in wire[e] \/ f.overflow = (e \in overflow)
      BY <2>6, <3>1, PumpTells DEF SiblingFetch, TypeOK
    <3> QED BY <2>6, <3>1, MarkKept DEF SiblingFetch, storeVars
  <2>7. CASE HandleSiblingHeld(d)
    <3>1. PICK f \in wire[d] :
            /\ wire' = [wire EXCEPT ![d] = @ \ {f}]
            /\ acks' = [acks EXCEPT ![d] = @ \cup {f.ids}]
            /\ \/ owed' = Cut(owed, {d}) /\ crossed' = Cut(crossed, {d})
               \/ ~f.overflow /\ UNCHANGED <<owed, crossed>>
            /\ UNCHANGED overflow
      BY <2>7 DEF HandleSiblingHeld
    <3>2. ASSUME NEW e \in Device, NEW c \in owed'[e] \ crossed'[e]
          PROVE  e \in overflow' /\ acks'[e] = {} /\ \A g \in wire'[e] : g.overflow
      <4>1. e # d /\ c \in owed[e] \ crossed[e]
        BY <3>1, <3>2 DEF Cut, Marked
      <4>2. wire'[e] = wire[e] /\ acks'[e] = acks[e]
        BY <3>1, <4>1 DEF TypeOK
      <4> QED BY <3>1, <4>1, <4>2 DEF Marked
    <3> QED BY <3>2 DEF Marked
  <2>8. CASE SiblingAck(d)
    <3>1. PICK ids \in acks[d] :
            /\ acks' = [acks EXCEPT ![d] = @ \ {ids}]
            /\ \/ UNCHANGED <<overflow, wire>>
               \/ /\ overflow' = overflow \ {d}
                  /\ PumpSiblingHeld(d, pending', overflow', wire)
            /\ UNCHANGED <<owed, crossed>>
      BY <2>8 DEF SiblingAck
    <3>2. ASSUME NEW e \in Device, NEW c \in owed'[e] \ crossed'[e]
          PROVE  e \in overflow' /\ acks'[e] = {} /\ \A g \in wire'[e] : g.overflow
      <4>1. e # d /\ c \in owed[e] \ crossed[e]
        BY <3>1, <3>2 DEF Marked
      <4>2. e \in overflow' /\ acks'[e] = acks[e]
        BY <3>1, <4>1 DEF Marked, TypeOK
      <4>3. \A g \in wire'[e] : g \in wire[e]
        BY <3>1, <4>1, PumpTells DEF TypeOK
      <4> QED BY <4>1, <4>2, <4>3 DEF Marked
    <3> QED BY <3>2 DEF Marked
  <2>9. CASE BeaconPut(d)
    BY <2>9, MarkKept DEF BeaconPut, storeVars, frameVars
  <2>10. ASSUME NEW D, ForgetSiblingDevices(D), UNCHANGED frameVars
         PROVE  Marked'
    BY <2>10, MarkKept DEF ForgetSiblingDevices, Cut, frameVars
  <2>11. CASE BeaconDrop(d) \/ \E D \in SUBSET Device : RosterPut(d, D)
    BY <2>10, <2>11 DEF BeaconDrop, RosterPut
  <2>12. CASE PurgeMe(d)
    BY <2>12 DEF PurgeMe, Nothing, Marked
  <2> QED
    BY <1>1, <2>1, <2>2, <2>3, <2>4, <2>5, <2>6, <2>7, <2>8, <2>9, <2>11, <2>12
       DEF DeviceNext
<1>2. CASE CacheEviction
  BY <1>2, MarkKept DEF CacheEviction, frameVars
<1>3. CASE Restart
  BY <1>3 DEF Restart, Nothing, Marked
<1>4. CASE UNCHANGED vars
  BY <1>4, MarkKept DEF vars, storeVars, frameVars
<1> QED BY <1>1, <1>2, <1>3, <1>4 DEF Next

LEMMA HeldStep == TypeOK /\ RoomLeft /\ HeldInv /\ [Next]_vars => HeldInv'
<1> SUFFICES ASSUME TypeOK, RoomLeft, HeldInv, [Next]_vars PROVE HeldInv'
  OBVIOUS
<1>0. Stored' /\ Marked'
  BY StoredStep, MarkedStep DEF HeldInv
<1>1. AcksWereGot'
  BY AcksStep DEF HeldInv
<1>2. CASE \E d \in Device : DeviceNext(d)
  BY <1>0, <1>1, <1>2, HeldDevice DEF HeldInv
<1>3. CASE CacheEviction \/ Restart
  <2>1. UNCHANGED <<last, owed, got>>
    BY <1>3 DEF CacheEviction, Restart
  <2>2. PICK B : LoadSiblingHeld(B) /\ SettlesUnloaded(B)
    BY <1>3 DEF CacheEviction, Restart
  <2>3. \A d \in Device : settled[d] \subseteq settled'[d]
    BY <2>2 DEF SettlesUnloaded
  <2>4. ASSUME NEW d \in Device, NEW c \in 1 .. last, d \in pending[c]
        PROVE  d \in pending'[c] \/ c \in settled'[d]
    <3>1. c \in Copy /\ d \in file[c]
      BY <2>4, HeldAreCopies DEF HeldInv, Stored
    <3>2. /\ pending'[c] = IF c > lapsed' THEN file[c] \cap B ELSE {}
          /\ settled'[d] = settled[d] \cup 1 .. (IF d \in B THEN lapsed' ELSE last)
          /\ lapsed' \in lapsed .. last
      BY <2>2, <3>1 DEF LoadSiblingHeld, SettlesUnloaded
    <3>3. c \in Nat /\ c > 0 /\ c <= last /\ lapsed \in Nat /\ last \in Nat
      BY SiblingMailAssumption DEF TypeOK, SiblingMailAssumption
    <3>4. CASE d \notin B
      <4>1. c \in 1 .. (IF d \in B THEN lapsed' ELSE last)
        BY <3>3, <3>4
      <4> QED BY <3>2, <4>1
    <3>5. CASE d \in B /\ c > lapsed'
      BY <3>1, <3>2, <3>5
    <3>6. CASE d \in B /\ ~(c > lapsed')
      <4>1. c \in 1 .. (IF d \in B THEN lapsed' ELSE last)
        BY <3>2, <3>3, <3>6
      <4> QED BY <3>2, <4>1
    <3> QED BY <3>4, <3>5, <3>6
  <2>5. Claimed'
    BY <2>1, <2>3, <2>4 DEF HeldInv, Claimed
  <2> QED BY <1>0, <1>1, <2>5 DEF HeldInv
<1>4. CASE UNCHANGED vars
  BY <1>0, <1>1, <1>4 DEF vars, storeVars, HeldInv, Claimed
<1> QED BY <1>2, <1>3, <1>4 DEF Next

\* Every copy held for a device is kept for it, received by it, dropped with
\* the store bearing the mark that tells the device (or across a batch that
\* was under way, which is on record), or without a claimant: acknowledgements
\* of the others, drops, reloads and restarts lose none in any other way.
THEOREM HeldAccounted == Spec => []HeldIsAccounted
<1>1. Init => TypeOK /\ RoomLeft /\ HeldInv
  <2>1. Init => AcksWereGot
    BY DEF Init, AcksWereGot, Nothing
  <2>2. Init => Claimed /\ Stored /\ Marked
    BY DEF Init, Claimed, Stored, Marked, Nothing, NoItems
  <2> QED BY <2>1, <2>2, TypeInit, RoomInit DEF HeldInv
<1>2. TypeOK /\ RoomLeft /\ HeldInv /\ [Next]_vars
        => (TypeOK /\ RoomLeft /\ HeldInv)'
  BY TypeStep, RoomStep, HeldStep
<1>3. HeldInv => HeldIsAccounted
  BY DEF HeldInv, Claimed, Marked, HeldIsAccounted
<1> QED BY <1>1, <1>2, <1>3, PTL DEF Spec

=============================================================================
