----------------------- MODULE SpaceAndSessionProofs -----------------------
(***************************************************************************)
(* Proofs about two of the browser client's components, which share no     *)
(* state: GroupSpace, for any accounts, founders and number of acts, and   *)
(* SessionKeys, for any random values, and any number of odd texts and of  *)
(* timers and letters that cross an exchange.                              *)
(***************************************************************************)
EXTENDS GroupSpace, SessionKeys, FiniteSetTheorems, SequenceTheorems, TLAPS

(***************************************************************************)
(* A group and its shared space (GroupSpace).                              *)
(***************************************************************************)

\* What the owner sends to a device lists the device, or names it as removed.
Fair(S) ==
    \A m \in S : m.from = Owner =>
        Includes(m.rec, m.to) \/ m.to \in m.rec.removed

OwnersLetters == Fair(syncs)

Inv == TypeOK /\ RemovedStayOut /\ OwnersLetters

USE OwnerIsADevice, FoundersAreOthers, MaxActsIsNat

(***************************************************************************)
(* Records and letters.                                                    *)
(***************************************************************************)

LEMMA CopyIsRecord ==
  ASSUME TypeOK, NEW d \in Device
  PROVE  Copy(d) \in Record
BY DEF TypeOK, Copy, Record

LEMMA NextIsRecord ==
  ASSUME TypeOK, NEW d \in Device
  PROVE  NextOf(d) \in Record
<1>1. rev[d] + 1 \in Nat
  BY DEF TypeOK
<1>2. PICK c : c = Copy(d)
  OBVIOUS
<1>3. c \in Record
  BY <1>2, CopyIsRecord
<1>4. [c EXCEPT !.rev = rev[d] + 1] \in Record
  BY <1>1, <1>3 DEF Record
<1> QED BY <1>2, <1>4 DEF NextOf

LEMMA NextGiven ==
  ASSUME TypeOK, NEW d \in Device
  PROVE  \E n \in Record :
           /\ n = NextOf(d) /\ n.members = members[d] /\ n.admins = admins[d]
           /\ n.removed = removed[d]
BY NextIsRecord DEF NextOf, Copy

LEMMA LettersTyped ==
  ASSUME NEW d \in Device, NEW list \in SUBSET Device, NEW rec \in Record
  PROVE  /\ To(d, list, rec) \subseteq Letter
         /\ Broadcast(d, rec) \subseteq Letter
<1>1. \A s \in SUBSET Device : To(d, s, rec) \subseteq Letter
  BY DEF To, Letter
<1>2. Audience(d, rec.members) \in SUBSET Device
  BY DEF Audience, Record
<1> QED BY <1>1, <1>2 DEF Broadcast

\* A broadcast goes to those it lists.
LEMMA BroadcastFair ==
  ASSUME NEW d \in Device, NEW rec \in Record
  PROVE  Fair(Broadcast(d, rec))
<1> SUFFICES ASSUME NEW m \in Broadcast(d, rec)
             PROVE  Includes(m.rec, m.to)
  BY DEF Fair
<1>1. m.rec = rec /\ m.to \in Audience(d, rec.members)
  BY DEF Broadcast, To
<1> QED BY <1>1 DEF Audience, Includes

\* A letter to one device is fair when it lists or names it.
LEMMA DirectFair ==
  ASSUME NEW d \in Device, NEW list \in SUBSET Device, NEW rec \in Record,
         \A e \in list : Includes(rec, e) \/ e \in rec.removed
  PROVE  Fair(To(d, list, rec))
BY DEF Fair, To

LEMMA FairUnion ==
  ASSUME NEW S, NEW T, Fair(S), Fair(T)
  PROVE  Fair(S \cup T)
BY DEF Fair

LEMMA FairSubset ==
  ASSUME NEW S, NEW T \in SUBSET S, Fair(S)
  PROVE  Fair(T)
BY DEF Fair

(***************************************************************************)
(* The initial state.                                                      *)
(***************************************************************************)

LEMMA InitInv == Init => Inv
<1> SUFFICES ASSUME Init PROVE Inv
  OBVIOUS
<1> DEFINE first == [rev |-> 0, name |-> 0, members |-> Founders,
                     admins |-> {}, removed |-> {},
                     dissolved |-> FALSE, deleted |-> FALSE]
<1>1. first \in Record
  BY DEF Record
<1>2. syncs = Broadcast(Owner, first)
  BY DEF Init
<1> HIDE DEF first
<1>3. syncs \subseteq Letter /\ OwnersLetters
  BY <1>1, <1>2, LettersTyped, BroadcastFair DEF OwnersLetters
<1>4. acts \in 0..MaxActs
  BY DEF Init
<1>5. TypeOK
  BY <1>3, <1>4 DEF Init, TypeOK
<1>6. RemovedStayOut
  BY DEF Init, RemovedStayOut
<1> QED BY <1>3, <1>5, <1>6 DEF Inv

(***************************************************************************)
(* Edits.                                                                  *)
(***************************************************************************)

\* A commit keeps the invariant when the record's new roster holds nobody
\* removed but those picked, and whoever is told besides is listed or named.
LEMMA CommitKeeps ==
  ASSUME Inv, NEW d \in Device, NEW rec \in Record, NEW also \in SUBSET Device,
         Commit(d, rec, also),
         \A e \in also : Includes(rec, e) \/ e \in rec.removed,
         picked' \in [Device -> SUBSET Device], left' \subseteq Device,
         \A e \in Device : picked[e] \subseteq picked'[e],
         rec.members \cap rec.removed \subseteq picked'[d]
  PROVE  Inv'
<1>1. syncs' \subseteq Letter
  BY LettersTyped DEF Inv, TypeOK, Commit
<1>2. OwnersLetters'
  <2>1. Fair(Broadcast(d, rec)) /\ Fair(To(d, also, rec))
    BY BroadcastFair, DirectFair
  <2>2. Fair(syncs \cup Broadcast(d, rec) \cup To(d, also, rec))
    BY <2>1, FairUnion DEF Inv, OwnersLetters
  <2> QED BY <2>2 DEF Commit, OwnersLetters, Fair, Includes
<1>3. acts' \in 0..MaxActs
  BY DEF Inv, TypeOK, Commit, Act
<1>4. TypeOK'
  BY <1>1, <1>3 DEF Inv, TypeOK, Commit, Record
<1>5. RemovedStayOut'
  <2> SUFFICES ASSUME NEW e \in Device
               PROVE  members'[e] \cap removed'[e] \subseteq picked'[e]
    BY DEF RemovedStayOut
  <2>1. CASE e = d
    BY <2>1 DEF Inv, TypeOK, Commit
  <2>2. CASE e # d
    BY <2>2 DEF Inv, TypeOK, Commit, RemovedStayOut
  <2> QED BY <2>1, <2>2
<1> QED BY <1>2, <1>4, <1>5 DEF Inv

LEMMA EditDetailsKeeps ==
  ASSUME Inv, NEW d \in Device, EditDetails(d)
  PROVE  Inv'
<1> DEFINE rec == [NextOf(d) EXCEPT !.name = acts + 1]
<1>0. acts + 1 \in Nat
  BY DEF Inv, TypeOK
<1>1. rec \in Record /\ rec.members = members[d] /\ rec.removed = removed[d]
  BY <1>0, NextIsRecord DEF Inv, TypeOK, NextOf, Copy, Record
<1>2. Commit(d, rec, {}) /\ picked' = picked /\ left' = left
  BY DEF EditDetails, wishes
<1> HIDE DEF rec
<1> QED BY <1>1, <1>2, CommitKeeps DEF Inv, TypeOK, RemovedStayOut

LEMMA SaveDetailsKeeps ==
  ASSUME Inv, NEW d \in Device, SaveDetails(d)
  PROVE  Inv'
<1> DEFINE rec == [Copy(d) EXCEPT !.name = acts + 1]
<1>0. acts + 1 \in Nat
  BY DEF Inv, TypeOK
<1>1. rec \in Record /\ rec.members = members[d] /\ rec.removed = removed[d]
  BY <1>0, CopyIsRecord DEF Inv, TypeOK, Copy, Record
<1>2. Commit(d, rec, {}) /\ picked' = picked /\ left' = left
  BY DEF SaveDetails, wishes
<1> HIDE DEF rec
<1> QED BY <1>1, <1>2, CommitKeeps DEF Inv, TypeOK, RemovedStayOut

LEMMA AddMemberKeeps ==
  ASSUME Inv, NEW d \in Device, NEW k \in Device, AddMember(d, k)
  PROVE  Inv'
<1> DEFINE rec == [NextOf(d) EXCEPT !.members = members[d] \cup {k}]
<1>1. /\ rec \in Record
      /\ rec.members = members[d] \cup {k} /\ rec.removed = removed[d]
  <2>1. PICK n \in Record :
          /\ n = NextOf(d) /\ n.members = members[d] /\ n.admins = admins[d]
          /\ n.removed = removed[d]
    BY NextGiven DEF Inv
  <2>2. members[d] \cup {k} \in SUBSET Device
    BY DEF Inv, TypeOK
  <2>3. rec = [n EXCEPT !.members = members[d] \cup {k}]
    BY <2>1
  <2> HIDE DEF rec
  <2> QED BY <2>1, <2>2, <2>3 DEF Record
<1>2. Commit(d, rec, {k})
  BY DEF AddMember
<1>3. /\ picked' = [picked EXCEPT ![d] = @ \cup ({k} \cap removed[d])]
      /\ left' \subseteq left
  BY DEF AddMember
<1>4. Includes(rec, k)
  BY <1>1 DEF Includes
<1> HIDE DEF rec
<1> QED BY <1>1, <1>2, <1>3, <1>4, CommitKeeps DEF Inv, TypeOK, RemovedStayOut

LEMMA RemoveMemberKeeps ==
  ASSUME Inv, NEW d \in Device, NEW k \in Device, RemoveMember(d, k)
  PROVE  Inv'
<1> DEFINE rec == [NextOf(d) EXCEPT !.members = members[d] \ {k},
                                    !.admins = admins[d] \ {k},
                                    !.removed = removed[d] \cup {k}]
<1>1. /\ rec \in Record
      /\ rec.members = members[d] \ {k} /\ rec.removed = removed[d] \cup {k}
  <2>1. PICK n \in Record :
          /\ n = NextOf(d) /\ n.members = members[d] /\ n.admins = admins[d]
          /\ n.removed = removed[d]
    BY NextGiven DEF Inv
  <2>2. /\ members[d] \ {k} \in SUBSET Device /\ admins[d] \ {k} \in SUBSET Device
        /\ removed[d] \cup {k} \in SUBSET (Device \ {Owner})
    BY DEF Inv, TypeOK, RemoveMember
  <2>3. rec = [n EXCEPT !.members = members[d] \ {k}, !.admins = admins[d] \ {k},
                        !.removed = removed[d] \cup {k}]
    BY <2>1
  <2> HIDE DEF rec
  <2> QED BY <2>1, <2>2, <2>3 DEF Record
<1>2. Commit(d, rec, {k}) /\ picked' = picked /\ left' = left
  BY DEF RemoveMember, wishes
<1> HIDE DEF rec
<1> QED BY <1>1, <1>2, CommitKeeps DEF Inv, TypeOK, RemovedStayOut

LEMMA ToggleAdminKeeps ==
  ASSUME Inv, NEW k \in Device, ToggleAdmin(k)
  PROVE  Inv'
<1> DEFINE rec == [NextOf(Owner) EXCEPT
                     !.admins = IF k \in @ THEN @ \ {k} ELSE @ \cup {k}]
<1>1. /\ rec \in Record
      /\ rec.members = members[Owner] /\ rec.removed = removed[Owner]
  <2>1. PICK n \in Record :
          /\ n = NextOf(Owner) /\ n.members = members[Owner] /\ n.admins = admins[Owner]
          /\ n.removed = removed[Owner]
    BY NextGiven DEF Inv
  <2>2. PICK list \in SUBSET Device : rec = [n EXCEPT !.admins = list]
    <3>1. n.admins \ {k} \in SUBSET Device /\ n.admins \cup {k} \in SUBSET Device
      BY <2>1 DEF Inv, TypeOK
    <3> QED BY <2>1, <3>1
  <2> HIDE DEF rec
  <2> QED BY <2>1, <2>2 DEF Record
<1>2. Commit(Owner, rec, {}) /\ picked' = picked /\ left' = left
  BY DEF ToggleAdmin, wishes
<1> HIDE DEF rec
<1> QED BY <1>1, <1>2, CommitKeeps DEF Inv, TypeOK, RemovedStayOut

LEMMA SaveMembersKeeps ==
  ASSUME Inv, NEW d \in Device, NEW list \in SUBSET (Device \ {d}),
         SaveMembers(d, list)
  PROVE  Inv'
<1> DEFINE rec == [Copy(d) EXCEPT !.members = list]
<1>1. rec \in Record /\ rec.members = list /\ rec.removed = removed[d]
  BY CopyIsRecord DEF Inv, TypeOK, Copy, Record
<1>2. Commit(d, rec, {})
  BY DEF SaveMembers
<1>3. /\ picked' = [picked EXCEPT ![d] = @ \cup (list \cap removed[d])]
      /\ left' = left
  BY DEF SaveMembers
<1> HIDE DEF rec
<1> QED BY <1>1, <1>2, <1>3, CommitKeeps DEF Inv, TypeOK, RemovedStayOut

(***************************************************************************)
(* Leaving, dissolving, pushing, losing.                                   *)
(***************************************************************************)

LEMMA DroppedTyped ==
  ASSUME Inv, NEW d \in Device, Dropped(d)
  PROVE  /\ has' \in [Device -> BOOLEAN] /\ rev' \in [Device -> Nat]
         /\ name' \in [Device -> Nat]
         /\ members' \in [Device -> SUBSET Device]
         /\ admins' \in [Device -> SUBSET Device]
         /\ removed' \in [Device -> SUBSET (Device \ {Owner})]
         /\ dissolved' \in [Device -> BOOLEAN]
         /\ heard' \in [Device -> SUBSET Device]
         /\ picked' \in [Device -> SUBSET Device]
         /\ RemovedStayOut'
<1>1. RemovedStayOut'
  BY DEF Inv, TypeOK, Dropped, RemovedStayOut
<1> QED BY <1>1 DEF Inv, TypeOK, Dropped

LEMMA LeaveKeeps ==
  ASSUME Inv, NEW d \in Device, Leave(d)
  PROVE  Inv'
<1>1. Farewell(d) \in Record
  BY NextIsRecord DEF Inv, TypeOK, Farewell, NextOf, Copy, Record
<1>2. /\ syncs' = syncs \cup Broadcast(d, Farewell(d)) /\ UNCHANGED <<chats, codes>>
      /\ left' \subseteq Device
  BY DEF Inv, TypeOK, Leave
<1>3. syncs' \subseteq Letter
  BY <1>1, <1>2, LettersTyped DEF Inv, TypeOK
<1>4. OwnersLetters'
  <2>1. Fair(syncs \cup Broadcast(d, Farewell(d)))
    BY <1>1, BroadcastFair, FairUnion DEF Inv, OwnersLetters
  <2> QED BY <2>1, <1>2 DEF OwnersLetters, Fair, Includes
<1>5. acts' \in 0..MaxActs
  BY DEF Inv, TypeOK, Leave, Act
<1>6. Dropped(d)
  BY DEF Leave
<1>7. TypeOK' /\ RemovedStayOut'
  BY <1>2, <1>3, <1>5, <1>6, DroppedTyped DEF Inv, TypeOK
<1> QED BY <1>4, <1>7 DEF Inv

LEMMA DissolveKeeps ==
  ASSUME Inv, Dissolve
  PROVE  Inv'
<1> DEFINE rec == [NextOf(Owner) EXCEPT !.members = {}, !.admins = {},
                                        !.deleted = TRUE]
<1>1. rec \in Record /\ rec.members = {}
  BY NextIsRecord DEF Inv, NextOf, Copy, Record
<1>2. PICK gone \in Purged :
        syncs' = (syncs \ gone) \cup To(Owner, Delivery(Owner), rec)
  BY DEF Dissolve
<1> HIDE DEF rec
<1>3. Delivery(Owner) \in SUBSET Device
  BY DEF Inv, TypeOK, Delivery
<1>4. syncs' \subseteq Letter
  BY <1>1, <1>2, <1>3, LettersTyped DEF Inv, TypeOK
<1>5. OwnersLetters'
  <2>1. Fair(To(Owner, Delivery(Owner), rec))
    BY <1>1, <1>3, DirectFair DEF Includes
  <2>2. Fair(syncs \ gone)
    BY FairSubset DEF Inv, OwnersLetters
  <2>3. Fair((syncs \ gone) \cup To(Owner, Delivery(Owner), rec))
    BY <2>1, <2>2, FairUnion
  <2> QED BY <2>3, <1>2 DEF OwnersLetters, Fair, Includes
<1>6. acts' \in 0..MaxActs
  BY DEF Inv, TypeOK, Dissolve, Act
<1>7. TypeOK'
  BY <1>4, <1>6 DEF Inv, TypeOK, Dissolve, wishes
<1>8. RemovedStayOut'
  BY DEF Inv, Dissolve, RemovedStayOut, wishes
<1> QED BY <1>5, <1>7, <1>8 DEF Inv

LEMMA DiscoverKeeps ==
  ASSUME Inv, NEW d \in Device, NEW e \in Device, Discover(d, e)
  PROVE  Inv'
<1>1. Copy(d) \in Record
  BY CopyIsRecord DEF Inv
<1>2. syncs' = syncs \cup To(d, {e}, Copy(d))
  BY DEF Discover
<1>3. Includes(Copy(d), e)
  BY DEF Discover, Includes, Copy
<1>4. OwnersLetters'
  <2>1. Fair(To(d, {e}, Copy(d)))
    BY <1>1, <1>3, DirectFair
  <2>2. Fair(syncs \cup To(d, {e}, Copy(d)))
    BY <2>1, FairUnion DEF Inv, OwnersLetters
  <2> QED BY <2>2, <1>2 DEF OwnersLetters, Fair, Includes
<1>5. acts' \in 0..MaxActs
  BY DEF Inv, TypeOK, Discover, Act
<1>6. syncs' \subseteq Letter
  BY <1>1, <1>2, LettersTyped DEF Inv, TypeOK
<1>7. UNCHANGED <<copy, heard, chats, codes, wishes>>
  BY DEF Discover
<1>8. TypeOK' /\ RemovedStayOut'
  BY <1>5, <1>6, <1>7 DEF Inv, TypeOK, copy, wishes, RemovedStayOut
<1> QED BY <1>4, <1>8 DEF Inv

LEMMA HealGroupsKeeps ==
  ASSUME Inv, HealGroups
  PROVE  Inv'
<1>1. Copy(Owner) \in Record
  BY CopyIsRecord DEF Inv
<1>2. /\ syncs' = syncs \cup Broadcast(Owner, Copy(Owner))
      /\ UNCHANGED <<copy, heard, chats, codes, acts, wishes>>
  BY DEF HealGroups
<1>3. Fair(syncs \cup Broadcast(Owner, Copy(Owner)))
  BY <1>1, BroadcastFair, FairUnion DEF Inv, OwnersLetters
<1>4. OwnersLetters'
  BY <1>2, <1>3 DEF OwnersLetters, Fair, Includes
<1>5. syncs' \subseteq Letter
  BY <1>1, <1>2, LettersTyped DEF Inv, TypeOK
<1>6. TypeOK' /\ RemovedStayOut'
  BY <1>2, <1>5 DEF Inv, TypeOK, copy, wishes, RemovedStayOut
<1> QED BY <1>4, <1>6 DEF Inv

LEMMA LoseKeeps ==
  ASSUME Inv, NEW m \in syncs, Lose(m)
  PROVE  Inv'
<1>1. Fair(syncs \ {m})
  BY FairSubset DEF Inv, OwnersLetters
<1>2. OwnersLetters'
  BY <1>1 DEF Lose, OwnersLetters, Fair, Includes
<1>3. TypeOK' /\ RemovedStayOut'
  BY DEF Inv, TypeOK, Lose, Act, copy, wishes, RemovedStayOut
<1> QED BY <1>2, <1>3 DEF Inv

(***************************************************************************)
(* Receiving.                                                              *)
(***************************************************************************)

\* What a record becomes part of is typed, and holds nobody removed but those
\* picked before.
CopyTyped ==
    /\ has \in [Device -> BOOLEAN] /\ rev \in [Device -> Nat]
    /\ name \in [Device -> Nat]
    /\ members \in [Device -> SUBSET Device]
    /\ admins \in [Device -> SUBSET Device]
    /\ removed \in [Device -> SUBSET (Device \ {Owner})]
    /\ dissolved \in [Device -> BOOLEAN]

LEMMA UpsertKeeps ==
  ASSUME Inv, NEW d \in Device, NEW rec \in Record, Upsert(d, rec),
         picked' = picked
  PROVE  CopyTyped' /\ RemovedStayOut'
<1>1. Merged(d, rec) \in SUBSET Device
  BY DEF Inv, TypeOK, Merged, Record
<1>2. Gone(d, rec) \in SUBSET (Device \ {Owner})
  BY DEF Inv, TypeOK, Gone, Record
<1>3. CopyTyped'
  BY <1>1, <1>2 DEF Inv, TypeOK, Upsert, CopyTyped, Record
<1>4. Merged(d, rec) \cap Gone(d, rec) = {}
  BY DEF Merged
<1>5. RemovedStayOut'
  <2> SUFFICES ASSUME NEW e \in Device
               PROVE  members'[e] \cap removed'[e] \subseteq picked'[e]
    BY DEF RemovedStayOut
  <2>1. CASE e = d
    BY <2>1, <1>4 DEF Inv, TypeOK, Upsert
  <2>2. CASE e # d
    BY <2>2 DEF Inv, TypeOK, Upsert, RemovedStayOut
  <2> QED BY <2>1, <2>2
<1> QED BY <1>3, <1>5

LEMMA FirstSightKeeps ==
  ASSUME Inv, NEW d \in Device, NEW rec \in Record, FirstSight(d, rec),
         picked' = picked
  PROVE  CopyTyped' /\ RemovedStayOut'
<1>1. CopyTyped'
  BY DEF Inv, TypeOK, FirstSight, CopyTyped, Record
<1>2. RemovedStayOut'
  <2> SUFFICES ASSUME NEW e \in Device
               PROVE  members'[e] \cap removed'[e] \subseteq picked'[e]
    BY DEF RemovedStayOut
  <2>1. CASE e = d
    BY <2>1 DEF Inv, TypeOK, FirstSight
  <2>2. CASE e # d
    BY <2>2 DEF Inv, TypeOK, FirstSight, RemovedStayOut
  <2> QED BY <2>1, <2>2
<1> QED BY <1>1, <1>2

LEMMA TakenKeeps ==
  ASSUME Inv, NEW d \in Device, NEW rec \in Record, Taken(d, rec)
  PROVE  CopyTyped' /\ RemovedStayOut' /\ picked' = picked /\ left' = left
<1>1. picked' = picked /\ left' = left
  BY DEF Taken, wishes
<1>2. CASE Upsert(d, rec)
  BY <1>1, <1>2, UpsertKeeps
<1>3. CASE FirstSight(d, rec)
  BY <1>1, <1>3, FirstSightKeeps
<1>4. CASE UNCHANGED copy
  BY <1>1, <1>4 DEF Inv, TypeOK, copy, CopyTyped, RemovedStayOut
<1> QED BY <1>1, <1>2, <1>3, <1>4 DEF Taken

LEMMA ReceiveSyncKeeps ==
  ASSUME Inv, NEW m \in syncs, ReceiveSync(m)
  PROVE  Inv'
<1>1. m \in Letter
  BY DEF Inv, TypeOK
<1>2. m.to \in Device /\ m.rec \in Record
  BY <1>1 DEF Letter
<1>3. UNCHANGED <<chats, codes, acts>>
  BY DEF ReceiveSync
<1>4. ASSUME syncs' \subseteq syncs
      PROVE  OwnersLetters'
  <2>1. Fair(syncs')
    BY <1>4, FairSubset DEF Inv, OwnersLetters
  <2> QED BY <2>1 DEF OwnersLetters
<1>5. CASE RefuseSync(m)
  <2>1. TypeOK' /\ RemovedStayOut' /\ syncs' \subseteq syncs
    BY <1>3, <1>5 DEF Inv, TypeOK, RefuseSync, copy, wishes, RemovedStayOut
  <2> QED BY <2>1, <1>4 DEF Inv
<1>6. CASE RemovedHere(m)
  <2>1. Dropped(m.to) /\ syncs' \subseteq syncs /\ left' = left
    BY <1>6 DEF RemovedHere
  <2>2. TypeOK' /\ RemovedStayOut'
    BY <1>2, <1>3, <2>1, DroppedTyped DEF Inv, TypeOK
  <2> QED BY <2>1, <2>2, <1>4 DEF Inv
<1>7. CASE DissolvedHere(m)
  <2>1. syncs' \subseteq syncs
    BY <1>7 DEF DissolvedHere
  <2>2. TypeOK'
    BY <1>2, <1>3, <1>7, <2>1 DEF Inv, TypeOK, DissolvedHere, Record, wishes
  <2>3. RemovedStayOut'
    BY <1>7 DEF Inv, DissolvedHere, RemovedStayOut, wishes
  <2> QED BY <2>1, <2>2, <2>3, <1>4 DEF Inv
<1>8. CASE TakeSync(m)
  <2>1. Taken(m.to, m.rec) /\ syncs' \subseteq syncs /\ heard' = heard
    BY <1>8 DEF TakeSync
  <2>2. CopyTyped' /\ RemovedStayOut' /\ picked' = picked /\ left' = left
    BY <1>2, <2>1, TakenKeeps
  <2>3. TypeOK'
    BY <1>3, <2>1, <2>2 DEF Inv, TypeOK, CopyTyped
  <2> QED BY <2>1, <2>2, <2>3, <1>4 DEF Inv
<1> QED BY <1>5, <1>6, <1>7, <1>8 DEF ReceiveSync

LEMMA RosterIsRecord ==
  ASSUME TypeOK, NEW d \in Device
  PROVE  RosterOf(d) \in Record
BY CopyIsRecord DEF RosterOf, Copy, Record

LEMMA SendChatKeeps ==
  ASSUME Inv, NEW d \in Device, SendChat(d)
  PROVE  Inv'
<1>1. RosterOf(d) \in Record
  BY RosterIsRecord DEF Inv
<1>2. Delivery(d) \in SUBSET Device
  BY DEF Inv, TypeOK, Delivery
<1>3. To(d, Delivery(d), RosterOf(d)) \subseteq Letter
  BY <1>1, <1>2, LettersTyped
<1>4. chats' \subseteq Letter /\ acts' \in 0..MaxActs
  BY <1>3 DEF Inv, TypeOK, SendChat, Act
<1>5. UNCHANGED <<copy, heard, syncs, codes, wishes>>
  BY DEF SendChat
<1>6. TypeOK' /\ RemovedStayOut'
  BY <1>4, <1>5 DEF Inv, TypeOK, copy, wishes, RemovedStayOut
<1>7. OwnersLetters'
  BY <1>5 DEF Inv, OwnersLetters, Fair, Includes
<1> QED BY <1>6, <1>7 DEF Inv

LEMMA ReceiveChatKeeps ==
  ASSUME Inv, NEW m \in chats, ReceiveChat(m)
  PROVE  Inv'
<1>1. m \in Letter
  BY DEF Inv, TypeOK
<1>2. m.to \in Device /\ m.from \in Device /\ m.rec \in Record
  BY <1>1 DEF Letter
<1>3. Taken(m.to, m.rec) /\ UNCHANGED <<syncs, codes, acts>>
  BY DEF ReceiveChat
<1>4. CopyTyped' /\ RemovedStayOut' /\ picked' = picked /\ left' = left
  BY <1>2, <1>3, TakenKeeps
<1>5. heard' \in [Device -> SUBSET Device] /\ chats' \subseteq Letter
  BY <1>2 DEF Inv, TypeOK, ReceiveChat
<1>6. TypeOK'
  BY <1>3, <1>4, <1>5 DEF Inv, TypeOK, CopyTyped
<1>7. OwnersLetters'
  BY <1>3 DEF Inv, OwnersLetters, Fair, Includes
<1> QED BY <1>4, <1>6, <1>7 DEF Inv

(***************************************************************************)
(* Invite codes.                                                           *)
(***************************************************************************)

LEMMA MakeCodeKeeps ==
  ASSUME Inv, NEW d \in Device, MakeCode(d)
  PROVE  Inv'
<1>1. [Copy(d) EXCEPT !.members = @ \cup {d}, !.removed = {},
                      !.dissolved = FALSE] \in Record
  BY CopyIsRecord DEF Inv, Copy, Record
<1>2. codes' \subseteq Record
  BY <1>1 DEF MakeCode
<1>3. UNCHANGED <<copy, heard, syncs, chats, acts, wishes>>
  BY DEF MakeCode
<1>4. TypeOK' /\ RemovedStayOut'
  BY <1>2, <1>3 DEF Inv, TypeOK, copy, wishes, RemovedStayOut
<1>5. OwnersLetters'
  BY <1>3 DEF Inv, OwnersLetters, Fair, Includes
<1> QED BY <1>4, <1>5 DEF Inv

LEMMA RedeemKeeps ==
  ASSUME Inv, NEW d \in Device, NEW code \in codes, Redeem(d, code)
  PROVE  Inv'
<1> DEFINE rec == RedeemedBy(d, code)
<1>1. rec \in Record
  <2>1. code \in Record
    BY DEF Inv, TypeOK
  <2>2. /\ code.members \cup {d} \in SUBSET Device
        /\ (IF d = Owner THEN code.rev + 1 ELSE code.rev) \in Nat
    BY <2>1 DEF Record
  <2> QED BY <2>1, <2>2 DEF RedeemedBy, Record
<1>2. Upsert(d, rec) \/ FirstSight(d, rec)
  BY DEF Redeem
<1>3. UNCHANGED <<heard, chats, codes, picked>> /\ left' \subseteq left
  BY DEF Redeem
<1> HIDE DEF rec
<1>4. CopyTyped' /\ RemovedStayOut'
  BY <1>1, <1>2, <1>3, UpsertKeeps, FirstSightKeeps
<1>5. PICK c : c = Copy(d)'
  OBVIOUS
<1>6. c \in Record
  BY <1>4, <1>5 DEF CopyTyped, Copy, Record
<1>7. syncs' = syncs \/ syncs' = syncs \cup Broadcast(d, c)
  BY <1>5 DEF Redeem
<1>8. syncs' \subseteq Letter /\ Fair(syncs')
  <2>1. Broadcast(d, c) \subseteq Letter /\ Fair(Broadcast(d, c))
    BY <1>6, LettersTyped, BroadcastFair
  <2>2. syncs \subseteq Letter /\ Fair(syncs)
    BY DEF Inv, TypeOK, OwnersLetters
  <2>3. Fair(syncs \cup Broadcast(d, c))
    BY <2>1, <2>2, FairUnion
  <2> QED BY <1>7, <2>1, <2>2, <2>3
<1>9. OwnersLetters'
  BY <1>8 DEF OwnersLetters
<1>10. acts' \in 0..MaxActs
  BY DEF Inv, TypeOK, Redeem, Act
<1>11. TypeOK'
  BY <1>3, <1>4, <1>8, <1>10 DEF Inv, TypeOK, CopyTyped
<1> QED BY <1>4, <1>9, <1>11 DEF Inv

(***************************************************************************)
(* The theorems.                                                           *)
(***************************************************************************)

LEMMA NextInv == Inv /\ [Next]_vars => Inv'
<1> SUFFICES ASSUME Inv, [Next]_vars PROVE Inv'
  OBVIOUS
<1>1. ASSUME NEW d \in Device,
             \/ EditDetails(d) \/ SaveDetails(d) \/ Leave(d)
             \/ SendChat(d) \/ MakeCode(d)
      PROVE  Inv'
  BY <1>1, EditDetailsKeeps, SaveDetailsKeeps, LeaveKeeps, SendChatKeeps,
     MakeCodeKeeps
<1>2. ASSUME NEW d \in Device, NEW k \in Device,
             AddMember(d, k) \/ RemoveMember(d, k) \/ Discover(d, k)
      PROVE  Inv'
  BY <1>2, AddMemberKeeps, RemoveMemberKeeps, DiscoverKeeps
<1>3. ASSUME NEW k \in Device, ToggleAdmin(k) PROVE Inv'
  BY <1>3, ToggleAdminKeeps
<1>4. ASSUME NEW d \in Device, NEW list \in SUBSET (Device \ {d}),
             SaveMembers(d, list)
      PROVE  Inv'
  BY <1>4, SaveMembersKeeps
<1>5. ASSUME NEW d \in Device, NEW code \in codes, Redeem(d, code)
      PROVE  Inv'
  BY <1>5, RedeemKeeps
<1>6. CASE Dissolve
  BY <1>6, DissolveKeeps
<1>7. CASE HealGroups
  BY <1>7, HealGroupsKeeps
<1>8. ASSUME NEW m \in syncs, ReceiveSync(m) \/ Lose(m) PROVE Inv'
  BY <1>8, ReceiveSyncKeeps, LoseKeeps
<1>9. ASSUME NEW m \in chats, ReceiveChat(m) PROVE Inv'
  BY <1>9, ReceiveChatKeeps
<1>10. CASE UNCHANGED vars
  BY <1>10 DEF Inv, TypeOK, RemovedStayOut, OwnersLetters, Fair, Includes,
               vars, copy, wishes
<1> QED BY <1>1, <1>2, <1>3, <1>4, <1>5, <1>6, <1>7, <1>8, <1>9, <1>10 DEF Next

LEMMA Invariance == Spec => []Inv
<1>1. Init => Inv
  BY InitInv
<1>2. Inv /\ [Next]_vars => Inv'
  BY NextInv
<1> QED BY <1>1, <1>2, PTL DEF Spec

\* Every variable of a group's copies and of the records under way keeps its
\* type through every edit, merge, departure and loss.
THEOREM TypeCorrect == Spec => []TypeOK
<1>1. Inv => TypeOK
  BY DEF Inv
<1> QED BY <1>1, Invariance, PTL

\* upsertSharedSpace's promise, for any number of members and any arrivals: a
\* removed member is in the roster of a device that knows the removal only if
\* that device's own user picked it again.
THEOREM RemovalWins == Spec => []RemovedStayOut
<1>1. Inv => RemovedStayOut
  BY DEF Inv
<1> QED BY <1>1, Invariance, PTL

\* A step that takes a copy away takes it from one who leaves, or who is named
\* as removed in a record of the owner's that this step takes in.
LEMMA DropStep ==
  ASSUME Inv, [Next]_vars
  PROVE  \A d \in Device :
            has[d] /\ ~has'[d] =>
              \/ Leave(d)
              \/ \E m \in syncs \ syncs' : m.from = Owner /\ m.to = d
                                            /\ d \in m.rec.removed
<1> SUFFICES ASSUME NEW d \in Device, has[d], ~has'[d], ~Leave(d)
             PROVE  \E m \in syncs \ syncs' : m.from = Owner /\ m.to = d
                                               /\ d \in m.rec.removed
  OBVIOUS
<1>1. has \in [Device -> BOOLEAN]
  BY DEF Inv, TypeOK
<1>2. ASSUME NEW e \in Device, NEW rec, Upsert(e, rec) \/ FirstSight(e, rec)
      PROVE  FALSE
  BY <1>1, <1>2 DEF Upsert, FirstSight
<1>3. ASSUME has' = has PROVE FALSE
  BY <1>3
<1>4. ASSUME NEW e \in Device,
             \/ EditDetails(e) \/ SaveDetails(e) \/ Leave(e)
             \/ SendChat(e) \/ MakeCode(e)
      PROVE  FALSE
  <2>1. CASE Leave(e)
    BY <1>1, <2>1 DEF Leave, Dropped
  <2> QED BY <1>3, <1>4, <2>1 DEF EditDetails, SaveDetails, SendChat,
             MakeCode, Commit, copy
<1>5. ASSUME NEW e \in Device, NEW k \in Device,
             AddMember(e, k) \/ RemoveMember(e, k) \/ Discover(e, k)
      PROVE  FALSE
  BY <1>3, <1>5 DEF AddMember, RemoveMember, Discover, Commit, copy
<1>6. ASSUME NEW k \in Device, ToggleAdmin(k) PROVE FALSE
  BY <1>3, <1>6 DEF ToggleAdmin, Commit
<1>7. ASSUME NEW e \in Device, NEW list \in SUBSET (Device \ {e}),
             SaveMembers(e, list)
      PROVE  FALSE
  BY <1>3, <1>7 DEF SaveMembers, Commit
<1>8. ASSUME NEW e \in Device, NEW code \in codes, Redeem(e, code)
      PROVE  FALSE
  BY <1>2, <1>8 DEF Redeem
<1>9. CASE Dissolve \/ HealGroups \/ UNCHANGED vars
  BY <1>3, <1>9 DEF Dissolve, HealGroups, copy, vars
<1>10. ASSUME NEW m \in chats, ReceiveChat(m) PROVE FALSE
  <2>1. m.to \in Device
    BY DEF Inv, TypeOK, Letter
  <2> QED BY <1>2, <1>3, <1>10, <2>1 DEF ReceiveChat, Taken, copy
<1>11. ASSUME NEW m \in syncs, ReceiveSync(m) \/ Lose(m)
       PROVE  m \notin syncs' /\ m.from = Owner /\ m.to = d
              /\ d \in m.rec.removed
  <2>1. m.to \in Device
    BY DEF Inv, TypeOK, Letter
  <2>2. CASE RemovedHere(m)
    <3>1. m.to = d
      BY <1>1, <2>1, <2>2 DEF RemovedHere, Dropped
    <3>2. m.from = Owner /\ ~Includes(m.rec, m.to) /\ m \notin syncs'
      BY <2>2 DEF RemovedHere, Authorized
    <3> QED BY <3>1, <3>2 DEF Inv, OwnersLetters, Fair
  <2>3. CASE TakeSync(m)
    BY <1>2, <1>3, <2>1, <2>3 DEF TakeSync, Taken, copy
  <2>4. CASE RefuseSync(m) \/ DissolvedHere(m) \/ Lose(m)
    BY <1>3, <2>4 DEF RefuseSync, DissolvedHere, Lose, copy
  <2> QED BY <1>11, <2>2, <2>3, <2>4 DEF ReceiveSync
<1> QED BY <1>4, <1>5, <1>6, <1>7, <1>8, <1>9, <1>10, <1>11 DEF Next

\* No edit, code, merge or late record takes the group from somebody who did
\* not leave it and whom the owner did not remove.
THEOREM NobodyDroppedAside == Spec => DroppedOnlyIfRemoved
<1>1. Inv /\ [Next]_vars =>
        [\A d \in Device :
            has[d] /\ ~has'[d] =>
              \/ Leave(d)
              \/ \E m \in syncs \ syncs' : m.from = Owner /\ m.to = d
                                            /\ d \in m.rec.removed]_vars
  BY DropStep
<1> QED BY <1>1, Invariance, PTL DEF Spec, DroppedOnlyIfRemoved

(***************************************************************************)
(* The key of a live session (SessionKeys): types.                         *)
(***************************************************************************)

\* An offer and an answer carry one value each, and so does the private half.
One == {{i} : i \in Ids}
Note == {m \in Message : m.kind \in {"offer", "answer"} => m.part \in One}
Halves == mine \in One \cup {{}} /\ line \in [Side -> Seq(Note)]

KeysTyped == KeysTypeOK /\ Halves

LEMMA KeyParts ==
  /\ {} \in Key
  /\ \A i \in Ids : {i} \in Key
  /\ \A S \in One : \A T \in One : S \cup T \in Key /\ S \cup T # {}
  /\ One \subseteq Key
<1>1. {} \in Key
  BY FS_EmptySet DEF Key
<1>2. ASSUME NEW i \in Ids PROVE {i} \in Key
  <2>1. Cardinality({i}) = 1
    BY FS_Singleton
  <2> QED BY <2>1 DEF Key
<1>3. ASSUME NEW S \in One, NEW T \in One PROVE S \cup T \in Key /\ S \cup T # {}
  <2>1. PICK i \in Ids : S = {i}
    BY DEF One
  <2>2. PICK j \in Ids : T = {j}
    BY DEF One
  <2>3. IsFiniteSet({i}) /\ Cardinality({i}) = 1
    BY FS_Singleton
  <2>4. Cardinality({i} \cup {j}) <= 2
    <3>1. Cardinality({i} \cup {j}) \in {1, 1 + 1}
      BY <2>3, FS_AddElement, Zenon
    <3> QED BY <3>1
  <2> QED BY <2>1, <2>2, <2>4 DEF Key
<1> QED BY <1>1, <1>2, <1>3 DEF One

LEMMA NewIdIsAnId == IdLeft => NewId \in Ids /\ {NewId} \in One /\ {NewId} \in Key
<1> SUFFICES ASSUME IdLeft PROVE NewId \in Ids
  BY KeyParts DEF One
<1>1. \E i \in Ids : i \notin InUse
  BY DEF IdLeft
<1> QED BY <1>1 DEF NewId

\* What can be wishes.
LEMMA SaidIsNote ==
  /\ Msg("request", {}) \in Note /\ Msg("hello", {}) \in Note
  /\ \A S \in One : Msg("offer", S) \in Note /\ Msg("answer", S) \in Note
  /\ \A S \in Key : Msg("text", S) \in Note /\ Msg("chat-key", S) \in Note
BY KeyParts DEF Note, Message, Msg

LEMMA Sides ==
  /\ \A s \in Side : Far(s) \in Side /\ Far(s) # s
  /\ Far("owner") = "other" /\ Far("other") = "owner"
BY DEF Side, Far

LEMMA NoteIsMessage == \A q \in Seq(Note) : q \in Seq(Message)
<1>1. Note \subseteq Message
  BY DEF Note
<1> QED BY <1>1, SeqMonotonic

\* One side says something; or reads something and may say something.
LEMMA Sent ==
  ASSUME Halves, NEW s \in Side, NEW m \in Note, Send(s, m)
  PROVE  /\ line' \in [Side -> Seq(Note)]
         /\ line'[s] = Append(line[s], m) /\ line'[Far(s)] = line[Far(s)]
<1>1. Append(line[s], m) \in Seq(Note)
  BY DEF Halves
<1> QED BY <1>1, Sides DEF Halves, Send

LEMMA Read ==
  ASSUME Halves, NEW s \in Side, line[Far(s)] # <<>>, NEW said \in Seq(Note), Reads(s, said)
  PROVE  /\ line' \in [Side -> Seq(Note)]
         /\ line'[s] = line[s] \o said /\ line'[Far(s)] = Tail(line[Far(s)])
<1>1. line[s] \in Seq(Note) /\ line[Far(s)] \in Seq(Note)
  BY Sides DEF Halves
<1>2. line[s] \o said \in Seq(Note)
  BY <1>1, ConcatProperties
<1>3. Tail(line[Far(s)]) \in Seq(Note)
  BY <1>1, HeadTailProperties
<1> QED BY <1>2, <1>3, Sides DEF Halves, Reads

\* Nothing said, or one thing.
LEMMA SaidSeq ==
  /\ <<>> \in Seq(Note)
  /\ \A m \in Note : <<m>> \in Seq(Note)
  /\ \A q \in Seq(Note) : q \o <<>> = q /\ \A m \in Note : q \o <<m>> = Append(q, m)
<1>1. <<>> \in Seq(Note) /\ \A m \in Note : <<m>> \in Seq(Note)
  OBVIOUS
<1>2. ASSUME NEW q \in Seq(Note) PROVE q \o <<>> = q
  BY ConcatEmptySeq
<1>3. ASSUME NEW q \in Seq(Note), NEW m \in Note PROVE q \o <<m>> = Append(q, m)
  BY <1>1, <1>3
<1> QED BY <1>1, <1>2, <1>3

LEMMA HeadIsNote ==
  ASSUME Halves, NEW s \in Side, line[s] # <<>>
  PROVE  Head(line[s]) \in Note
BY HeadTailProperties DEF Halves

\* The line of each side is typed when its notes are.
LEMMA TypedByHalves ==
  ASSUME line' \in [Side -> Seq(Note)]
  PROVE  line' \in [Side -> Seq(Message)]
BY NoteIsMessage

LEMMA KeysInitTyped == KeysInit => KeysTyped
<1> SUFFICES ASSUME KeysInit PROVE KeysTyped
  OBVIOUS
<1>1. Msg("hello", {}) \in Note
  BY SaidIsNote
<1>2. \A s \in Side : line[s] = <<Msg("hello", {})>>
  BY DEF KeysInit
<1>3. <<Msg("hello", {})>> \in Seq(Note)
  BY <1>1, SaidSeq
<1>4. line \in [Side -> Seq(Note)]
  BY <1>3 DEF KeysInit
<1>5. line \in [Side -> Seq(Message)]
  BY <1>4, NoteIsMessage
<1>6. {} \in Key /\ {1} \in Key /\ {2} \in Key
  BY KeyParts, OldKeysAreIds
<1>10. {{}, {1}, {2}} \subseteq Key
  BY <1>6
<1>11. key \in [Side -> {{}, {1}, {2}}] /\ stored \in [Side -> {{}, {1}, {2}}]
  BY DEF KeysInit
<1>12. deriving \in [Side -> Key]
  BY <1>6 DEF KeysInit
<1>7. key \in [Side -> Key] /\ stored \in [Side -> Key] /\ deriving \in [Side -> Key]
  BY <1>10, <1>11, <1>12
<1>8. held \in [Side -> [on : BOOLEAN, was : Key]]
  BY <1>6 DEF KeysInit, NoLetter
<1>9. prekey \in BOOLEAN
  BY PrekeysIsASetting DEF KeysInit
<1> QED BY <1>4, <1>5, <1>6, <1>7, <1>8, <1>9 DEF KeysInit, KeysTyped, KeysTypeOK, Halves

LEMMA PairedTyped ==
  ASSUME KeysTyped, Paired
  PROVE  KeysTyped'
<1>1. {NewId} \in One
  BY NewIdIsAnId DEF Paired
<1>2. Msg("offer", {NewId}) \in Note
  BY <1>1, SaidIsNote
<1>3. line' \in [Side -> Seq(Note)]
  BY <1>2, Sent DEF Paired, KeysTyped, Side
<1>4. line' \in [Side -> Seq(Message)]
  BY <1>3, TypedByHalves
<1>5. pairing' \in Nat /\ pairQ' \in BOOLEAN
  <2>1. pairing \in Nat /\ pairQ \in BOOLEAN
    BY DEF KeysTyped, KeysTypeOK
  <2>2. CASE pairing > 0 /\ pairing' = pairing - 1 /\ UNCHANGED pairQ
    BY <2>1, <2>2
  <2>3. CASE pairQ /\ pairQ' = FALSE /\ UNCHANGED pairing
    BY <2>1, <2>3
  <2> QED BY <2>2, <2>3 DEF Paired
<1>6. key' \in [Side -> Key] /\ ready' \in [Side -> BOOLEAN] /\ mine' \in Key
  BY <1>1, KeyParts DEF Paired, KeysTyped, KeysTypeOK
<1> QED BY <1>1, <1>3, <1>4, <1>5, <1>6 DEF Paired, KeysTyped, KeysTypeOK, Halves, jobs

LEMMA KexTimerFiresTyped ==
  ASSUME KeysTyped, KexTimerFires
  PROVE  KeysTyped'
<1>1. mine' \in Key /\ mine' \in One \cup {{}}
  BY KeyParts DEF KexTimerFires, KeysTyped, KeysTypeOK, Halves
<1>2. slips' \in Nat
  BY DEF KexTimerFires, Slip, KeysTyped, KeysTypeOK
<1>3. wrapping' \in [Side -> BOOLEAN]
  BY DEF KexTimerFires, KeysTyped, KeysTypeOK
<1> QED BY <1>1, <1>2, <1>3 DEF KexTimerFires, KeysTyped, KeysTypeOK, Halves, keys

LEMMA FallbackFiresTyped ==
  ASSUME KeysTyped, FallbackFires
  PROVE  KeysTyped'
<1>1. slips' \in Nat
  BY DEF FallbackFires, Slip, KeysTyped, KeysTypeOK
<1>2. wrapping' \in [Side -> BOOLEAN]
  BY DEF FallbackFires, KeysTyped, KeysTypeOK
<1> QED BY <1>1, <1>2 DEF FallbackFires, KeysTyped, KeysTypeOK, Halves, keys, owners

LEMMA TakesTyped ==
  ASSUME KeysTypeOK, NEW s \in Side, NEW k \in Key, Takes(s, k)
  PROVE  /\ key' \in [Side -> Key] /\ stored' \in [Side -> Key]
         /\ ready' \in [Side -> BOOLEAN] /\ fresh' \in [Side -> BOOLEAN]
         /\ fallback' \in BOOLEAN
BY DEF Takes, KeysTypeOK

LEMMA WrappedTyped ==
  ASSUME KeysTyped, NEW s \in Side, Wrapped(s)
  PROVE  KeysTyped'
<1>1. {NewId} \in Key
  BY NewIdIsAnId DEF Wrapped
<1>2. Msg("chat-key", {NewId}) \in Note
  BY <1>1, SaidIsNote
<1>3. line' \in [Side -> Seq(Note)]
  BY <1>2, Sent DEF Wrapped, KeysTyped
<1>4. line' \in [Side -> Seq(Message)]
  BY <1>3, TypedByHalves
<1>5. /\ key' \in [Side -> Key] /\ stored' \in [Side -> Key]
      /\ ready' \in [Side -> BOOLEAN] /\ fresh' \in [Side -> BOOLEAN]
      /\ fallback' \in BOOLEAN
  BY <1>1, TakesTyped DEF Wrapped, KeysTyped
<1>6. wrapping' \in [Side -> BOOLEAN]
  BY DEF Wrapped, KeysTyped, KeysTypeOK
<1> QED BY <1>3, <1>4, <1>5, <1>6 DEF Wrapped, KeysTyped, KeysTypeOK, Halves, owners

LEMMA DerivedTyped ==
  ASSUME KeysTyped, NEW s \in Side, Derived(s)
  PROVE  KeysTyped'
<1>1. deriving[s] \in Key /\ {} \in Key
  BY KeyParts DEF KeysTyped, KeysTypeOK
<1>2. /\ key' \in [Side -> Key] /\ stored' \in [Side -> Key]
      /\ ready' \in [Side -> BOOLEAN] /\ fresh' \in [Side -> BOOLEAN]
      /\ fallback' \in BOOLEAN
  BY <1>1, TakesTyped DEF Derived, KeysTyped
<1>3. deriving' \in [Side -> Key]
  BY <1>1 DEF Derived, KeysTyped, KeysTypeOK
<1>4. mine' \in Key /\ mine' \in One \cup {{}} /\ kexTimer' \in BOOLEAN
  BY <1>1 DEF Derived, KeysTyped, KeysTypeOK, Halves
<1> QED BY <1>2, <1>3, <1>4 DEF Derived, KeysTyped, KeysTypeOK, Halves

LEMMA MintsTyped ==
  ASSUME KeysTyped, NEW may \in BOOLEAN, MintsBeside(may) \/ MintsInQueue(may)
  PROVE  /\ mine' = mine /\ kexTimer' = kexTimer
         /\ pairing' \in Nat /\ pairQ' \in BOOLEAN /\ crossed' \in BOOLEAN
BY DEF MintsBeside, MintsInQueue, KeysTyped, KeysTypeOK

LEMMA MayIsBoolean == Wants \in BOOLEAN /\ (mine = {}) \in BOOLEAN
BY DEF Wants, MayMint

LEMMA EnsureTyped ==
  ASSUME KeysTyped, NEW s \in Side, Ensure(s)
  PROVE  /\ mine' = mine /\ kexTimer' = kexTimer
         /\ pairing' \in Nat /\ pairQ' \in BOOLEAN /\ crossed' \in BOOLEAN
         /\ fallback' \in BOOLEAN
         /\ line' \in [Side -> Seq(Note)] /\ line' \in [Side -> Seq(Message)]
<1>1. CASE s = "owner"
  BY <1>1, MintsTyped, MayIsBoolean DEF Ensure, KeysTyped, KeysTypeOK, Halves
<1>2. CASE s # "owner"
  <2>1. OtherAsks /\ UNCHANGED <<owners, crossed>>
    BY <1>2 DEF Ensure
  <2>2. line' \in [Side -> Seq(Note)] /\ fallback' \in BOOLEAN
    BY <2>1, SaidIsNote, Sent DEF OtherAsks, KeysTyped, KeysTypeOK, Halves, Side
  <2> QED BY <2>1, <2>2, TypedByHalves DEF owners, KeysTyped, KeysTypeOK
<1> QED BY <1>1, <1>2

LEMMA EnsuresLaterTyped ==
  ASSUME KeysTyped, NEW s \in Side, EnsuresLater(s)
  PROVE  KeysTyped'
<1>1. Ensure(s)
  BY DEF EnsuresLater
<1>2. later' \in [Side -> BOOLEAN]
  BY DEF EnsuresLater, KeysTyped, KeysTypeOK
<1> QED BY <1>1, <1>2, EnsureTyped DEF EnsuresLater, KeysTyped, KeysTypeOK, Halves, keys

LEMMA SaysTyped ==
  ASSUME KeysTyped, NEW s \in Side, Says(s)
  PROVE  KeysTyped'
<1>1. hasty' \in Nat
  BY DEF Says, Hasty, KeysTyped, KeysTypeOK
<1>2. Hydrated(s) \in Key
  BY DEF Hydrated, KeysTyped, KeysTypeOK
<1>3. CASE Hydrated(s) # {} /\ key' = [key EXCEPT ![s] = Hydrated(s)]
           /\ Send(s, Msg("text", Hydrated(s)))
           /\ ready' = [ready EXCEPT ![s] = @ \/ key[s] = {}]
           /\ UNCHANGED <<owners, crossed, fallback>>
  <2>1. line' \in [Side -> Seq(Note)]
    BY <1>2, <1>3, SaidIsNote, Sent DEF KeysTyped
  <2>2. line' \in [Side -> Seq(Message)]
    BY <2>1, TypedByHalves
  <2>3. key' \in [Side -> Key]
    BY <1>2, <1>3 DEF KeysTyped, KeysTypeOK
  <2>4. ready' \in [Side -> BOOLEAN]
    BY <1>3 DEF KeysTyped, KeysTypeOK
  <2> QED BY <1>1, <1>3, <2>1, <2>2, <2>3, <2>4
          DEF Says, KeysTyped, KeysTypeOK, Halves, owners, jobs
<1>4. CASE Ensure(s) /\ UNCHANGED <<key, ready>>
  BY <1>1, <1>4, EnsureTyped DEF Says, KeysTyped, KeysTypeOK, Halves, jobs
<1> QED BY <1>3, <1>4 DEF Says

LEMMA OfflineKeyTyped ==
  ASSUME KeysTyped, NEW s \in Side, OfflineKey(s)
  PROVE  KeysTyped'
<1>1. {NewId} \in Key
  BY NewIdIsAnId DEF OfflineKey
<1>2. key' \in [Side -> Key] /\ ready' \in [Side -> BOOLEAN]
  BY <1>1 DEF OfflineKey, KeysTyped, KeysTypeOK
<1>3. slips' \in Nat
  BY DEF OfflineKey, Slip, KeysTyped, KeysTypeOK
<1> QED BY <1>2, <1>3 DEF OfflineKey, KeysTyped, KeysTypeOK, Halves, owners, jobs

LEMMA LetterOpensTyped ==
  ASSUME KeysTyped, NEW s \in Side, LetterOpens(s)
  PROVE  KeysTyped'
<1>1. {NewId} \in Key /\ Hydrated(s) \in Key
  BY NewIdIsAnId DEF LetterOpens, Hydrated, KeysTyped, KeysTypeOK
<1>2. key' \in [Side -> Key]
  BY <1>1 DEF LetterOpens, KeysTyped, KeysTypeOK
<1>3. ready' \in [Side -> BOOLEAN]
  BY DEF LetterOpens, KeysTyped, KeysTypeOK
<1>4. held' \in [Side -> [on : BOOLEAN, was : Key]]
  BY <1>1 DEF LetterOpens, KeysTyped, KeysTypeOK
<1>5. slips' \in Nat
  BY DEF LetterOpens, Slip, KeysTyped, KeysTypeOK
<1> QED BY <1>2, <1>3, <1>4, <1>5 DEF LetterOpens, KeysTyped, KeysTypeOK, Halves, owners

LEMMA LetterReadTyped ==
  ASSUME KeysTyped, NEW s \in Side, LetterRead(s)
  PROVE  KeysTyped'
<1>1. NoLetter \in [on : BOOLEAN, was : Key]
  BY KeyParts DEF NoLetter
<1>2. held' \in [Side -> [on : BOOLEAN, was : Key]]
  BY <1>1 DEF LetterRead, KeysTyped, KeysTypeOK
<1>3. held[s].was \in Key
  BY DEF KeysTyped, KeysTypeOK
<1>4. key' \in [Side -> Key]
  BY <1>3 DEF LetterRead, KeysTyped, KeysTypeOK
<1> QED BY <1>2, <1>4 DEF LetterRead, KeysTyped, KeysTypeOK, Halves, owners

(***************************************************************************)
(* What is heard.                                                          *)
(***************************************************************************)

\* What a handler leaves of its own: everything but the line.
HeardTyped ==
    /\ key \in [Side -> Key] /\ stored \in [Side -> Key] /\ deriving \in [Side -> Key]
    /\ ready \in [Side -> BOOLEAN] /\ fresh \in [Side -> BOOLEAN]
    /\ did \in [Side -> BOOLEAN]
    /\ fallback \in BOOLEAN
    /\ mine \in Key /\ mine \in One \cup {{}} /\ kexTimer \in BOOLEAN
    /\ pairing \in Nat /\ pairQ \in BOOLEAN /\ crossed \in BOOLEAN

LEMMA HeardNow == KeysTyped => HeardTyped
BY DEF KeysTyped, KeysTypeOK, Halves, HeardTyped

LEMMA HeardNext ==
  ASSUME KeysTyped, NEW s \in Side, Hears(s), HeardTyped', line' \in [Side -> Seq(Note)]
  PROVE  KeysTyped'
<1>1. line' \in [Side -> Seq(Message)]
  BY TypedByHalves
<1> QED BY <1>1 DEF Hears, HeardTyped, KeysTyped, KeysTypeOK, Halves

LEMMA HearHelloTyped ==
  ASSUME KeysTyped, NEW s \in Side, NEW m \in Note, line[Far(s)] # <<>>, HearHello(s, m)
  PROVE  HeardTyped' /\ line' \in [Side -> Seq(Note)]
<1>1. \E said \in Seq(Note) : Reads(s, said)
  <2>1. <<>> \in Seq(Note) /\ <<Msg("request", {})>> \in Seq(Note)
    BY SaidSeq, SaidIsNote
  <2>2. CASE s = "owner"
    BY <2>1, <2>2 DEF HearHello
  <2>3. CASE s # "owner" /\ key[s] = {}
    BY <2>1, <2>3 DEF HearHello
  <2>4. CASE s # "owner" /\ key[s] # {}
    BY <2>1, <2>4 DEF HearHello
  <2> QED BY <2>2, <2>3, <2>4
<1>2. line' \in [Side -> Seq(Note)]
  BY <1>1, Read DEF KeysTyped
<1>3. CASE s = "owner"
  BY <1>2, <1>3, HeardNow, MintsTyped, MayIsBoolean DEF HearHello, HeardTyped, keys
<1>4. CASE s # "owner"
  BY <1>2, <1>4, HeardNow DEF HearHello, HeardTyped, keys, owners
<1> QED BY <1>3, <1>4

LEMMA HearRequestTyped ==
  ASSUME KeysTyped, NEW s \in Side, NEW m \in Note, line[Far(s)] # <<>>, HearRequest(s, m)
  PROVE  HeardTyped' /\ line' \in [Side -> Seq(Note)]
<1>1. line' \in [Side -> Seq(Note)]
  BY SaidSeq, Read DEF HearRequest, KeysTyped
<1>2. MintsInQueue(mine = {})
  BY DEF HearRequest
<1>3. key' \in [Side -> Key] /\ fresh' \in [Side -> BOOLEAN]
  BY HeardNow, KeyParts DEF HearRequest, HeardTyped
<1> QED BY <1>1, <1>2, <1>3, HeardNow, MintsTyped DEF HearRequest, HeardTyped

LEMMA HearOfferTyped ==
  ASSUME KeysTyped, NEW s \in Side, NEW m \in Note, line[Far(s)] # <<>>, HearOffer(s, m)
  PROVE  HeardTyped' /\ line' \in [Side -> Seq(Note)]
<1>1. {NewId} \in One
  BY NewIdIsAnId DEF HearOffer
<1>2. line' \in [Side -> Seq(Note)]
  BY <1>1, SaidIsNote, SaidSeq, Read DEF HearOffer, KeysTyped
<1>3. m.part \in One
  BY DEF HearOffer, Note
<1>4. m.part \cup {NewId} \in Key
  BY <1>1, <1>3, KeyParts
<1>5. deriving' \in [Side -> Key]
  BY <1>4, HeardNow DEF HearOffer, HeardTyped
<1>6. did' \in [Side -> BOOLEAN]
  BY HeardNow DEF HearOffer, HeardTyped
<1> QED BY <1>2, <1>5, <1>6, HeardNow DEF HearOffer, HeardTyped, keys, owners

LEMMA HearAnswerTyped ==
  ASSUME KeysTyped, NEW s \in Side, NEW m \in Note, line[Far(s)] # <<>>, HearAnswer(s, m)
  PROVE  HeardTyped' /\ line' \in [Side -> Seq(Note)]
<1>1. line' \in [Side -> Seq(Note)]
  BY SaidSeq, Read DEF HearAnswer, KeysTyped
<1>2. m.part \in One
  BY DEF HearAnswer, Note
<1>3. CASE mine = {}
  BY <1>1, <1>3, HeardNow DEF HearAnswer, HeardTyped, keys, owners
<1>4. CASE mine # {}
  <2>1. mine \cup m.part \in Key
    BY <1>2, <1>4, KeyParts, HeardNow DEF HeardTyped
  <2>2. deriving' \in [Side -> Key] /\ did' \in [Side -> BOOLEAN]
    BY <1>4, <2>1, HeardNow DEF HearAnswer, HeardTyped
  <2> QED BY <1>1, <2>2, HeardNow DEF HearAnswer, HeardTyped, keys, owners
<1> QED BY <1>3, <1>4

LEMMA HearChatKeyTyped ==
  ASSUME KeysTyped, NEW s \in Side, NEW m \in Note, line[Far(s)] # <<>>, HearChatKey(s, m)
  PROVE  HeardTyped' /\ line' \in [Side -> Seq(Note)]
<1>1. line' \in [Side -> Seq(Note)]
  BY SaidSeq, Read DEF HearChatKey, KeysTyped
<1>2. m.part \in Key
  BY DEF Note, Message
<1>3. CASE UNCHANGED <<keys, fallback>>
  BY <1>1, <1>3, HeardNow DEF HearChatKey, HeardTyped, keys, owners
<1>4. CASE Takes(s, m.part)
  BY <1>1, <1>2, <1>4, TakesTyped, HeardNow DEF HearChatKey, HeardTyped, owners, KeysTyped
<1> QED BY <1>3, <1>4 DEF HearChatKey

LEMMA RenegotiateTyped ==
  ASSUME KeysTyped, NEW s \in Side, Renegotiate(s)
  PROVE  /\ key' \in [Side -> Key] /\ stored' \in [Side -> Key]
         /\ ready' \in [Side -> BOOLEAN] /\ fresh' \in [Side -> BOOLEAN]
         /\ mine' = mine /\ kexTimer' = kexTimer
         /\ pairing' \in Nat /\ pairQ' \in BOOLEAN /\ crossed' \in BOOLEAN
<1>1. /\ key' \in [Side -> Key] /\ stored' \in [Side -> Key]
      /\ ready' \in [Side -> BOOLEAN] /\ fresh' \in [Side -> BOOLEAN]
  BY HeardNow, KeyParts DEF Renegotiate, HeardTyped
<1>2. CASE s = "owner"
  <2>1. MintsBeside(mine = {})
    BY <1>2 DEF Renegotiate
  <2> QED BY <1>1, <2>1, MintsTyped
<1>3. CASE s # "owner"
  BY <1>1, <1>3, HeardNow DEF Renegotiate, owners, HeardTyped
<1> QED BY <1>2, <1>3

LEMMA HearTextTyped ==
  ASSUME KeysTyped, NEW s \in Side, NEW m \in Note, line[Far(s)] # <<>>, HearText(s, m)
  PROVE  HeardTyped' /\ line' \in [Side -> Seq(Note)]
<1>1. <<>> \in Seq(Note) /\ <<Msg("request", {})>> \in Seq(Note)
  BY SaidSeq, SaidIsNote
<1>2. CASE m.part = key[s]
  <2>1. line' \in [Side -> Seq(Note)]
    BY <1>1, <1>2, Read DEF HearText, KeysTyped
  <2> QED BY <1>2, <2>1, HeardNow DEF HearText, HeardTyped, keys, owners
<1>3. CASE m.part # key[s]
  <2>1. Renegotiate(s)
    BY <1>3 DEF HearText
  <2>2. \E said \in Seq(Note) : Reads(s, said)
    <3>1. CASE s = "other"
      BY <1>1, <1>3, <3>1 DEF HearText
    <3>2. CASE s # "other"
      BY <1>1, <1>3, <3>2 DEF HearText
    <3> QED BY <3>1, <3>2
  <2>3. line' \in [Side -> Seq(Note)]
    BY <2>2, Read DEF KeysTyped
  <2> QED BY <2>1, <2>3, RenegotiateTyped, HeardNow DEF HearText, HeardTyped
<1> QED BY <1>2, <1>3

LEMMA HearsTyped ==
  ASSUME KeysTyped, NEW s \in Side, Hears(s)
  PROVE  KeysTyped'
<1> DEFINE m == Head(line[Far(s)])
<1>1. line[Far(s)] # <<>> /\ m \in Note
  BY Sides, HeadIsNote DEF Hears, KeysTyped
<1>2. \/ HearHello(s, m) \/ HearRequest(s, m) \/ HearOffer(s, m) \/ HearAnswer(s, m)
      \/ HearChatKey(s, m) \/ HearText(s, m)
  BY DEF Hears
<1> HIDE DEF m
<1>3. HeardTyped' /\ line' \in [Side -> Seq(Note)]
  BY <1>1, <1>2, HearHelloTyped, HearRequestTyped, HearOfferTyped, HearAnswerTyped,
     HearChatKeyTyped, HearTextTyped
<1> QED BY <1>3, HeardNext

LEMMA KeysNextTyped == KeysTyped /\ [KeysNext]_keysVars => KeysTyped'
<1> SUFFICES ASSUME KeysTyped, [KeysNext]_keysVars PROVE KeysTyped'
  OBVIOUS
<1>1. ASSUME NEW s \in Side, Works(s) \/ Says(s) \/ OfflineKey(s) \/ LetterOpens(s)
      PROVE  KeysTyped'
  BY <1>1, HearsTyped, DerivedTyped, WrappedTyped, LetterReadTyped, EnsuresLaterTyped,
     SaysTyped, OfflineKeyTyped, LetterOpensTyped DEF Works
<1>2. CASE Paired \/ KexTimerFires \/ FallbackFires
  BY <1>2, PairedTyped, KexTimerFiresTyped, FallbackFiresTyped
<1>3. CASE UNCHANGED keysVars
  BY <1>3 DEF keysVars, keys, owners, jobs, KeysTyped, KeysTypeOK, Halves
<1> QED BY <1>1, <1>2, <1>3 DEF KeysNext

LEMMA KeysTypedAlways == KeysSpec => []KeysTyped
BY KeysInitTyped, KeysNextTyped, PTL DEF KeysSpec

\* Every key either side has, keeps, makes or sends is made of one random value
\* or of two, and an offer or an answer carries exactly one.
THEOREM KeysTypeCorrect == KeysSpec => []KeysTypeOK
<1>1. KeysTyped => KeysTypeOK
  BY DEF KeysTyped
<1> QED BY <1>1, KeysTypedAlways, PTL

(***************************************************************************)
(* Agreement.  At most one exchange is under way, and it is in one place:  *)
(* a mint that makes its ephemeral, the offer on its way, the answer on    *)
(* its way, or the owner that derives.  Whoever then has the key has it    *)
(* from the same two values as the other has or is about to have, unless   *)
(* the other has since asked for a new exchange.                           *)
(***************************************************************************)

Quiet == slips = 0 /\ ~crossed

\* Where the notes of one kind stand in a line, and what that says.
At(q, k) == {n \in 1 .. Len(q) : q[n].kind = k}
Has(q, k) == At(q, k) # {}
Alone(q, k) == \A n \in At(q, k) : \A i \in At(q, k) : n = i
OffersOnly(q, p) == \A n \in At(q, "offer") : q[n].part = p
\* Every answer in q makes the key k with p, or a request comes after it.
AnswersFit(q, p, k) ==
    \A n \in At(q, "answer") :
        (\E i \in At(q, "request") : i > n) \/ p \cup q[n].part = k

LEMMA Shifted ==
  ASSUME NEW q \in Seq(Note), q # <<>>
  PROVE  /\ 1 \in 1 .. Len(q) /\ q[1] = Head(q)
         /\ \A k : \A n : n \in At(Tail(q), k) <=> n \in Nat \ {0} /\ n + 1 \in At(q, k)
         /\ \A k : \A n \in At(q, k) : n = 1 \/ n - 1 \in At(Tail(q), k)
         /\ \A k : \A n \in At(Tail(q), k) : Tail(q)[n] = q[n + 1]
<1>1. Len(q) \in Nat \ {0}
  BY EmptySeq
<1>2. /\ Tail(q) \in Seq(Note) /\ Len(Tail(q)) = Len(q) - 1
      /\ \A i \in 1 .. Len(Tail(q)) : Tail(q)[i] = q[i + 1]
  BY HeadTailProperties
<1>3. q[1] = Head(q)
  OBVIOUS
<1>4. ASSUME NEW k, NEW n
      PROVE  n \in At(Tail(q), k) <=> n \in Nat \ {0} /\ n + 1 \in At(q, k)
  BY <1>1, <1>2 DEF At
<1>5. ASSUME NEW k, NEW n \in At(q, k), n # 1
      PROVE  n - 1 \in At(Tail(q), k)
  BY <1>1, <1>2, <1>5 DEF At
<1>6. ASSUME NEW k, NEW n \in At(Tail(q), k)
      PROVE  Tail(q)[n] = q[n + 1]
  BY <1>1, <1>2 DEF At
<1>7. 1 \in 1 .. Len(q)
  BY <1>1
<1>8. \A k : \A n : n \in At(Tail(q), k) <=> n \in Nat \ {0} /\ n + 1 \in At(q, k)
  BY <1>4
<1>9. \A k : \A n \in At(q, k) : n = 1 \/ n - 1 \in At(Tail(q), k)
  BY <1>5
<1>10. \A k : \A n \in At(Tail(q), k) : Tail(q)[n] = q[n + 1]
  BY <1>6
<1> QED BY <1>3, <1>7, <1>8, <1>9, <1>10

LEMMA AtHead ==
  ASSUME NEW q \in Seq(Note), q # <<>>, NEW k
  PROVE  1 \in At(q, k) <=> Head(q).kind = k
BY Shifted DEF At

LEMMA AtIsNat ==
  ASSUME NEW q, NEW k, NEW n \in At(q, k)
  PROVE  n \in Nat \ {0}
BY DEF At

\* A note read.
LEMMA TailKeeps ==
  ASSUME NEW q \in Seq(Note), q # <<>>
  PROVE  /\ \A k : Has(Tail(q), k) => Has(q, k)
         /\ \A k : Head(q).kind # k /\ Has(q, k) => Has(Tail(q), k)
         /\ \A k : Alone(q, k) => Alone(Tail(q), k)
         /\ \A k : Alone(q, k) /\ Head(q).kind = k => ~Has(Tail(q), k)
         /\ \A k : Head(q).kind = k => Has(q, k)
<1>1. ASSUME NEW k, Has(Tail(q), k) PROVE Has(q, k)
  BY <1>1, Shifted DEF Has
<1>2. ASSUME NEW k, Head(q).kind # k, Has(q, k) PROVE Has(Tail(q), k)
  <2>1. PICK n \in At(q, k) : TRUE
    BY <1>2 DEF Has
  <2>2. n # 1
    BY <1>2, AtHead
  <2> QED BY <2>2, Shifted DEF Has
<1>3. ASSUME NEW k, Alone(q, k) PROVE Alone(Tail(q), k)
  <2>1. ASSUME NEW n \in At(Tail(q), k), NEW i \in At(Tail(q), k) PROVE n = i
    <3>1. n \in Nat /\ i \in Nat /\ n + 1 \in At(q, k) /\ i + 1 \in At(q, k)
      BY Shifted
    <3>2. n + 1 = i + 1
      BY <1>3, <3>1 DEF Alone
    <3> QED BY <3>1, <3>2
  <2> QED BY <2>1 DEF Alone
<1>4. ASSUME NEW k, Alone(q, k), Head(q).kind = k, Has(Tail(q), k) PROVE FALSE
  <2>1. PICK n \in At(Tail(q), k) : TRUE
    BY <1>4 DEF Has
  <2>2. n \in Nat \ {0} /\ n + 1 \in At(q, k)
    BY Shifted
  <2>3. 1 \in At(q, k)
    BY <1>4, AtHead
  <2>4. n + 1 = 1
    BY <1>4, <2>2, <2>3 DEF Alone
  <2> QED BY <2>2, <2>4
<1>5. ASSUME NEW k, Head(q).kind = k PROVE Has(q, k)
  BY <1>5, AtHead DEF Has
<1> QED BY <1>1, <1>2, <1>3, <1>4, <1>5

LEMMA TailFits ==
  ASSUME NEW q \in Seq(Note), q # <<>>, NEW p
  PROVE  /\ OffersOnly(q, p) => OffersOnly(Tail(q), p)
         /\ OffersOnly(q, p) /\ Head(q).kind = "offer" => Head(q).part = p
         /\ \A k : AnswersFit(q, p, k) => AnswersFit(Tail(q), p, k)
         /\ \A k : AnswersFit(q, p, k) /\ Head(q).kind = "answer" =>
                Has(Tail(q), "request") \/ p \cup Head(q).part = k
<1>1. ASSUME OffersOnly(q, p) PROVE OffersOnly(Tail(q), p)
  <2>1. ASSUME NEW n \in At(Tail(q), "offer") PROVE Tail(q)[n].part = p
    <3>1. Tail(q)[n] = q[n + 1] /\ n + 1 \in At(q, "offer")
      BY Shifted
    <3> QED BY <1>1, <3>1 DEF OffersOnly
  <2> QED BY <2>1 DEF OffersOnly
<1>2. ASSUME OffersOnly(q, p), Head(q).kind = "offer" PROVE Head(q).part = p
  BY <1>2, AtHead, Shifted DEF OffersOnly
<1>3. ASSUME NEW k, AnswersFit(q, p, k) PROVE AnswersFit(Tail(q), p, k)
  <2>1. ASSUME NEW n \in At(Tail(q), "answer"), p \cup Tail(q)[n].part # k
        PROVE  \E i \in At(Tail(q), "request") : i > n
    <3>1. Tail(q)[n] = q[n + 1] /\ n + 1 \in At(q, "answer") /\ n \in Nat \ {0}
      BY Shifted
    <3>2. PICK i \in At(q, "request") : i > n + 1
      BY <1>3, <2>1, <3>1 DEF AnswersFit
    <3>3. i \in Nat
      BY AtIsNat
    <3>4. i # 1 /\ i - 1 > n
      BY <3>1, <3>2, <3>3
    <3> QED BY <3>4, Shifted
  <2> QED BY <2>1 DEF AnswersFit
<1>4. ASSUME NEW k, AnswersFit(q, p, k), Head(q).kind = "answer", p \cup Head(q).part # k
      PROVE  Has(Tail(q), "request")
  <2>1. 1 \in At(q, "answer") /\ q[1] = Head(q)
    BY <1>4, AtHead, Shifted
  <2>2. PICK i \in At(q, "request") : i > 1
    BY <1>4, <2>1 DEF AnswersFit
  <2>3. i # 1
    BY <2>2, AtIsNat
  <2> QED BY <2>3, Shifted DEF Has
<1> QED BY <1>1, <1>2, <1>3, <1>4

\* A note added.
LEMMA Grown ==
  ASSUME NEW q \in Seq(Note), NEW m \in Note
  PROVE  /\ \A k : \A n : n \in At(Append(q, m), k)
                            <=> n \in At(q, k) \/ (n = Len(q) + 1 /\ m.kind = k)
         /\ \A k : \A n \in At(q, k) : Append(q, m)[n] = q[n] /\ n < Len(q) + 1
         /\ Append(q, m)[Len(q) + 1] = m
<1>1. Len(q) \in Nat /\ Len(Append(q, m)) = Len(q) + 1
  OBVIOUS
<1>2. \A n \in 1 .. Len(q) : Append(q, m)[n] = q[n]
  OBVIOUS
<1>3. Append(q, m)[Len(q) + 1] = m
  OBVIOUS
<1>4. ASSUME NEW k, NEW n
      PROVE  n \in At(Append(q, m), k) <=> n \in At(q, k) \/ (n = Len(q) + 1 /\ m.kind = k)
  <2>1. CASE n \in 1 .. Len(q)
    BY <1>1, <1>2, <2>1 DEF At
  <2>2. CASE n = Len(q) + 1
    BY <1>1, <1>3, <2>2 DEF At
  <2>3. CASE n \notin 1 .. Len(q) + 1
    BY <1>1, <2>3 DEF At
  <2> QED BY <1>1, <2>1, <2>2, <2>3
<1>5. ASSUME NEW k, NEW n \in At(q, k) PROVE Append(q, m)[n] = q[n] /\ n < Len(q) + 1
  BY <1>1, <1>2 DEF At
<1> QED BY <1>3, <1>4, <1>5

LEMMA Old ==
  ASSUME NEW q \in Seq(Note), NEW m \in Note, NEW k, NEW n \in At(q, k)
  PROVE  Append(q, m)[n] = q[n]
<1>1. \A i \in 1 .. Len(q) : Append(q, m)[i] = q[i]
  OBVIOUS
<1> QED BY <1>1 DEF At

LEMMA OldOrNew ==
  ASSUME NEW q \in Seq(Note), NEW m \in Note, NEW k, NEW n \in At(Append(q, m), k)
  PROVE  n \in At(q, k) \/ (n = Len(q) + 1 /\ m.kind = k)
BY Grown

LEMMA AppendKeeps ==
  ASSUME NEW q \in Seq(Note), NEW m \in Note
  PROVE  /\ \A k : Has(Append(q, m), k) <=> Has(q, k) \/ m.kind = k
         /\ \A k : Alone(q, k) /\ (m.kind # k \/ ~Has(q, k)) => Alone(Append(q, m), k)
<1>1. ASSUME NEW k PROVE Has(Append(q, m), k) <=> Has(q, k) \/ m.kind = k
  BY Grown DEF Has
<1>2. ASSUME NEW k, Alone(q, k), m.kind # k \/ ~Has(q, k) PROVE Alone(Append(q, m), k)
  BY <1>2, Grown DEF Alone, Has
<1> QED BY <1>1, <1>2

LEMMA AppendFits ==
  ASSUME NEW q \in Seq(Note), NEW m \in Note, NEW p
  PROVE  /\ /\ OffersOnly(q, p) /\ (m.kind = "offer" => m.part = p)
            => OffersOnly(Append(q, m), p)
         /\ \A k : /\ AnswersFit(q, p, k)
                   /\ m.kind = "answer" => p \cup m.part = k
                   => AnswersFit(Append(q, m), p, k)
         /\ m.kind = "request" => \A k : AnswersFit(Append(q, m), p, k)
<1>1. ASSUME OffersOnly(q, p), m.kind = "offer" => m.part = p PROVE OffersOnly(Append(q, m), p)
  <2>1. ASSUME NEW n \in At(Append(q, m), "offer") PROVE Append(q, m)[n].part = p
    <3>1. CASE n \in At(q, "offer")
      <4>1. Append(q, m)[n] = q[n]
        BY <3>1, Old
      <4>2. q[n].part = p
        BY <1>1, <3>1 DEF OffersOnly
      <4> QED BY <4>1, <4>2
    <3>2. CASE n = Len(q) + 1 /\ m.kind = "offer"
      <4>1. Append(q, m)[n] = m
        BY <3>2, Grown
      <4> QED BY <1>1, <3>2, <4>1
    <3> QED BY <3>1, <3>2, OldOrNew
  <2> QED BY <2>1 DEF OffersOnly
<1>2. ASSUME NEW k, AnswersFit(q, p, k), m.kind = "answer" => p \cup m.part = k
      PROVE  AnswersFit(Append(q, m), p, k)
  <2>1. ASSUME NEW n \in At(Append(q, m), "answer"), p \cup Append(q, m)[n].part # k
        PROVE  \E i \in At(Append(q, m), "request") : i > n
    <3>1. n \in At(q, "answer")
      <4>1. CASE n = Len(q) + 1 /\ m.kind = "answer"
        <5>1. Append(q, m)[n] = m
          BY <4>1, Grown
        <5> QED BY <1>2, <2>1, <4>1, <5>1
      <4> QED BY <4>1, OldOrNew
    <3>2. Append(q, m)[n] = q[n]
      BY <3>1, Old
    <3>3. PICK i \in At(q, "request") : i > n
      BY <1>2, <2>1, <3>1, <3>2 DEF AnswersFit
    <3> QED BY <3>3, Grown
  <2> QED BY <2>1 DEF AnswersFit
<1>3. ASSUME m.kind = "request", NEW k PROVE AnswersFit(Append(q, m), p, k)
  <2>1. ASSUME NEW n \in At(Append(q, m), "answer")
        PROVE  \E i \in At(Append(q, m), "request") : i > n
    <3>1. n \in At(q, "answer")
      BY <1>3, Grown
    <3> QED BY <1>3, <3>1, Grown
  <2> QED BY <2>1 DEF AnswersFit
<1> QED BY <1>1, <1>2, <1>3

\* What the owner has said and is not read: one offer at most, with p.
OwnersLine(q, p) ==
    /\ Alone(q, "offer") /\ OffersOnly(q, p)
    /\ ~Has(q, "chat-key") /\ ~Has(q, "request") /\ ~Has(q, "answer")

\* What the other has said: one answer at most, which makes k with p.
OthersLine(q, p, k) ==
    /\ Alone(q, "answer") /\ AnswersFit(q, p, k)
    /\ ~Has(q, "chat-key") /\ ~Has(q, "offer")

\* What is at the head of each line, and what is left behind it.
LEMMA OwnersLineRead ==
  ASSUME NEW q \in Seq(Note), q # <<>>, NEW p, OwnersLine(q, p)
  PROVE  /\ OwnersLine(Tail(q), p)
         /\ Head(q).kind \in {"hello", "offer", "text"}
         /\ Head(q).kind # "offer" => (Has(Tail(q), "offer") <=> Has(q, "offer"))
         /\ Head(q).kind = "offer" =>
              Has(q, "offer") /\ ~Has(Tail(q), "offer") /\ Head(q).part = p
<1>1. Head(q) \in Message
  BY HeadTailProperties DEF Note
<1>2. Head(q).kind \notin {"chat-key", "request", "answer"}
  BY TailKeeps DEF OwnersLine
<1>3. Head(q).kind \in {"hello", "offer", "text"}
  BY <1>1, <1>2 DEF Message
<1>4. ~Has(Tail(q), "chat-key") /\ ~Has(Tail(q), "request") /\ ~Has(Tail(q), "answer")
  BY TailKeeps DEF OwnersLine
<1>5. Alone(Tail(q), "offer")
  BY TailKeeps DEF OwnersLine
<1>6. OffersOnly(Tail(q), p) /\ (Head(q).kind = "offer" => Head(q).part = p)
  BY TailFits DEF OwnersLine
<1>7. Head(q).kind # "offer" => (Has(Tail(q), "offer") <=> Has(q, "offer"))
  BY TailKeeps
<1>8. Head(q).kind = "offer" => Has(q, "offer") /\ ~Has(Tail(q), "offer")
  BY TailKeeps DEF OwnersLine
<1> QED BY <1>3, <1>4, <1>5, <1>6, <1>7, <1>8 DEF OwnersLine

LEMMA OthersLineRead ==
  ASSUME NEW q \in Seq(Note), q # <<>>, NEW p, NEW k, OthersLine(q, p, k)
  PROVE  /\ OthersLine(Tail(q), p, k)
         /\ Head(q).kind \in {"hello", "request", "answer", "text"}
         /\ Head(q).kind # "answer" => (Has(Tail(q), "answer") <=> Has(q, "answer"))
         /\ Head(q).kind # "request" => (Has(Tail(q), "request") <=> Has(q, "request"))
         /\ Head(q).kind # "hello" => (Has(Tail(q), "hello") <=> Has(q, "hello"))
         /\ Head(q).kind = "request" => Has(q, "request")
         /\ Head(q).kind = "answer" =>
              /\ Has(q, "answer") /\ ~Has(Tail(q), "answer")
              /\ Has(Tail(q), "request") \/ p \cup Head(q).part = k
<1>1. Head(q) \in Message
  BY HeadTailProperties DEF Note
<1>2. Head(q).kind \notin {"chat-key", "offer"}
  BY TailKeeps DEF OthersLine
<1>3. Head(q).kind \in {"hello", "request", "answer", "text"}
  BY <1>1, <1>2 DEF Message
<1>4. ~Has(Tail(q), "chat-key") /\ ~Has(Tail(q), "offer")
  BY TailKeeps DEF OthersLine
<1>5. Alone(Tail(q), "answer")
  BY TailKeeps DEF OthersLine
<1>6. AnswersFit(Tail(q), p, k)
  BY TailFits DEF OthersLine
<1>7. Head(q).kind = "answer" => Has(Tail(q), "request") \/ p \cup Head(q).part = k
  BY TailFits DEF OthersLine
<1>8. \A h : Head(q).kind # h => (Has(Tail(q), h) <=> Has(q, h))
  BY TailKeeps
<1>9. Head(q).kind = "answer" => Has(q, "answer") /\ ~Has(Tail(q), "answer")
  BY TailKeeps DEF OthersLine
<1>10. Head(q).kind = "request" => Has(q, "request")
  BY TailKeeps
<1> QED BY <1>3, <1>4, <1>5, <1>6, <1>7, <1>8, <1>9, <1>10 DEF OthersLine

\* What each side adds.
LEMMA OwnersLineSaid ==
  ASSUME NEW q \in Seq(Note), NEW m \in Note, NEW p, OwnersLine(q, p)
  PROVE  /\ m.kind = "text" =>
              /\ OwnersLine(Append(q, m), p)
              /\ Has(Append(q, m), "offer") <=> Has(q, "offer")
         /\ m.kind = "offer" /\ ~Has(q, "offer") =>
              OwnersLine(Append(q, m), m.part) /\ Has(Append(q, m), "offer")
<1>1. ASSUME m.kind \in {"text", "offer"}
      PROVE  /\ ~Has(Append(q, m), "chat-key") /\ ~Has(Append(q, m), "request")
             /\ ~Has(Append(q, m), "answer")
  BY <1>1, AppendKeeps DEF OwnersLine
<1>2. ASSUME m.kind = "text"
      PROVE  /\ Alone(Append(q, m), "offer") /\ OffersOnly(Append(q, m), p)
             /\ Has(Append(q, m), "offer") <=> Has(q, "offer")
  BY <1>2, AppendKeeps, AppendFits DEF OwnersLine
<1>3. ASSUME m.kind = "offer", ~Has(q, "offer")
      PROVE  /\ Alone(Append(q, m), "offer") /\ OffersOnly(Append(q, m), m.part)
             /\ Has(Append(q, m), "offer")
  <2>1. OffersOnly(q, m.part)
    BY <1>3 DEF OffersOnly, Has
  <2>2. OffersOnly(Append(q, m), m.part)
    BY <2>1, AppendFits
  <2>3. Alone(Append(q, m), "offer") /\ Has(Append(q, m), "offer")
    BY <1>3, AppendKeeps DEF OwnersLine
  <2> QED BY <2>2, <2>3
<1> QED BY <1>1, <1>2, <1>3 DEF OwnersLine

LEMMA OthersLineSaid ==
  ASSUME NEW q \in Seq(Note), NEW m \in Note, NEW p, NEW k, OthersLine(q, p, k)
  PROVE  /\ Has(Append(q, m), "hello") <=> Has(q, "hello") \/ m.kind = "hello"
         /\ Has(Append(q, m), "request") <=> Has(q, "request") \/ m.kind = "request"
         /\ Has(Append(q, m), "answer") <=> Has(q, "answer") \/ m.kind = "answer"
         /\ m.kind = "text" => OthersLine(Append(q, m), p, k)
         /\ m.kind = "request" => \A j : OthersLine(Append(q, m), p, j)
         /\ m.kind = "answer" /\ ~Has(q, "answer") =>
              OthersLine(Append(q, m), p, p \cup m.part)
<1>1. \A h : Has(Append(q, m), h) <=> Has(q, h) \/ m.kind = h
  BY AppendKeeps
<1>2. ASSUME m.kind \in {"text", "request", "answer"}
      PROVE  ~Has(Append(q, m), "chat-key") /\ ~Has(Append(q, m), "offer")
  BY <1>1, <1>2 DEF OthersLine
<1>3. ASSUME m.kind # "answer" \/ ~Has(q, "answer")
      PROVE  Alone(Append(q, m), "answer")
  BY <1>3, AppendKeeps DEF OthersLine
<1>4. ASSUME m.kind = "text" PROVE AnswersFit(Append(q, m), p, k)
  BY <1>4, AppendFits DEF OthersLine
<1>5. ASSUME m.kind = "request", NEW j PROVE AnswersFit(Append(q, m), p, j)
  BY <1>5, AppendFits
<1>6. ASSUME m.kind = "answer", ~Has(q, "answer")
      PROVE  AnswersFit(Append(q, m), p, p \cup m.part)
  <2>1. AnswersFit(q, p, p \cup m.part)
    BY <1>6 DEF AnswersFit, Has
  <2> QED BY <2>1, AppendFits
<1>7. m.kind = "text" => OthersLine(Append(q, m), p, k)
  BY <1>2, <1>3, <1>4 DEF OthersLine
<1>8. m.kind = "request" => \A j : OthersLine(Append(q, m), p, j)
  BY <1>2, <1>3, <1>5 DEF OthersLine
<1>9. m.kind = "answer" /\ ~Has(q, "answer") => OthersLine(Append(q, m), p, p \cup m.part)
  BY <1>2, <1>3, <1>6 DEF OthersLine
<1>10. /\ Has(Append(q, m), "hello") <=> Has(q, "hello") \/ m.kind = "hello"
       /\ Has(Append(q, m), "request") <=> Has(q, "request") \/ m.kind = "request"
       /\ Has(Append(q, m), "answer") <=> Has(q, "answer") \/ m.kind = "answer"
  BY <1>1
<1> QED BY <1>7, <1>8, <1>9, <1>10

\* A line without an offer, or without an answer, fits any exchange.
LEMMA LinesFree ==
  ASSUME NEW q, NEW p, NEW k
  PROVE  /\ OwnersLine(q, p) /\ ~Has(q, "offer") => \A x : OwnersLine(q, x)
         /\ OthersLine(q, p, k) /\ ~Has(q, "answer") => \A x, y : OthersLine(q, x, y)
<1>1. ~Has(q, "offer") => \A x : OffersOnly(q, x)
  BY DEF Has, OffersOnly
<1>2. ~Has(q, "answer") => \A x, y : AnswersFit(q, x, y)
  BY DEF Has, AnswersFit
<1> QED BY <1>1, <1>2 DEF OwnersLine, OthersLine

Pending == pairing # 0 \/ pairQ

\* The key of this connection the other has, or derives.
Met ==
    IF deriving["other"] # {} THEN deriving["other"]
    ELSE IF ready["other"] /\ fresh["other"] THEN key["other"] ELSE {}

\* No timer, no letter: nothing is made by one side alone.
Calm == \A s \in Side : ~wrapping[s] /\ ~held[s].on

Lines == OwnersLine(line["owner"], mine) /\ OthersLine(line["other"], mine, Met)

\* The exchange is in one place, and the owner knows of it.
OneExchange ==
    /\ pairing \in {0, 1} /\ ~(pairing = 1 /\ pairQ)
    /\ Pending => mine = {}
    /\ Has(line["owner"], "offer") => ~Has(line["other"], "answer") /\ deriving["owner"] = {}
    /\ Has(line["other"], "answer") => deriving["owner"] = {}
    /\ mine # {} <=> \/ Has(line["owner"], "offer") \/ Has(line["other"], "answer")
                     \/ deriving["owner"] # {}

OwnersEnd ==
    /\ fresh["owner"] => ~Pending /\ mine = {} /\ key["owner"] # {} /\ ready["owner"]
    /\ fresh["owner"] \/ Pending \/ mine # {} \/ Has(line["other"], "hello")

OthersEnd ==
    /\ fresh["owner"] => Has(line["other"], "request") \/ key["owner"] = Met
    /\ deriving["owner"] # {} => Has(line["other"], "request") \/ deriving["owner"] = Met

Good == Calm /\ Lines /\ OneExchange /\ OwnersEnd /\ OthersEnd

LEMMA Settled ==
  ASSUME KeysTyped, Good, Rest
  PROVE  Agreed /\ \A s \in Side : ready[s] /\ fresh[s]
<1>1. line["owner"] = <<>> /\ line["other"] = <<>> /\ deriving["owner"] = {}
      /\ deriving["other"] = {} /\ ~Pending
  BY DEF Rest, Side, Pending
<1>2. \A k : ~Has(<<>>, k)
  BY EmptySeq DEF Has, At
<1>3. mine = {}
  BY <1>1, <1>2 DEF Good, OneExchange
<1>4. fresh["owner"] /\ key["owner"] # {} /\ ready["owner"]
  BY <1>1, <1>2, <1>3 DEF Good, OwnersEnd
<1>5. key["owner"] = Met
  BY <1>1, <1>2, <1>4 DEF Good, OthersEnd
<1> QED BY <1>1, <1>4, <1>5 DEF Met, Agreed, Side

LEMMA GoodAtFirst == KeysInit => Good
<1> SUFFICES ASSUME KeysInit PROVE Good
  OBVIOUS
<1> DEFINE hello == Msg("hello", {})
<1>1. hello \in Note /\ hello.kind = "hello"
  BY SaidIsNote DEF Msg
<1>2. line["owner"] = <<hello>> /\ line["other"] = <<hello>>
  BY DEF KeysInit, Side
<1> HIDE DEF hello
<1>3. <<hello>> = Append(<<>>, hello)
  OBVIOUS
<1>4. <<>> \in Seq(Note) /\ \A k : ~Has(<<>>, k)
  BY EmptySeq DEF Has, At
<1>5. ASSUME NEW k PROVE Has(<<hello>>, k) <=> k = "hello"
  <2>1. Has(Append(<<>>, hello), k) <=> Has(<<>>, k) \/ hello.kind = k
    BY <1>1, <1>4, AppendKeeps
  <2> QED BY <1>1, <1>3, <1>4, <2>1
<1>6. OwnersLine(<<hello>>, mine) /\ OthersLine(<<hello>>, mine, Met)
  <2>1. ~Has(<<hello>>, "offer") /\ ~Has(<<hello>>, "answer")
        /\ ~Has(<<hello>>, "request") /\ ~Has(<<hello>>, "chat-key")
    BY <1>5
  <2>2. Alone(<<hello>>, "offer") /\ OffersOnly(<<hello>>, mine)
    BY <2>1 DEF Has, Alone, OffersOnly
  <2>3. Alone(<<hello>>, "answer") /\ AnswersFit(<<hello>>, mine, Met)
    BY <2>1 DEF Has, Alone, AnswersFit
  <2> QED BY <2>1, <2>2, <2>3 DEF OwnersLine, OthersLine
<1>7. Lines
  BY <1>2, <1>6 DEF Lines
<1>8. Calm
  BY DEF KeysInit, Calm, NoLetter
<1>9. mine = {} /\ pairing = 0 /\ ~pairQ /\ deriving["owner"] = {} /\ ~fresh["owner"]
  BY DEF KeysInit, Side
<1>10. OneExchange
  BY <1>2, <1>5, <1>9 DEF OneExchange, Pending
<1>11. OwnersEnd /\ OthersEnd
  BY <1>2, <1>5, <1>9 DEF OwnersEnd, OthersEnd
<1> QED BY <1>7, <1>8, <1>10, <1>11 DEF Good

\* What Good is about.
View ==
    <<wrapping, held, line, pairing, pairQ, mine, deriving["owner"], fresh["owner"],
      key["owner"], ready["owner"], Met>>

LEMMA SameView ==
  ASSUME Good, UNCHANGED View
  PROVE  Good'
BY DEF Good, View, Calm, Lines, OneExchange, OwnersEnd, OthersEnd, Pending

LEMMA LinesTyped ==
  ASSUME KeysTyped
  PROVE  line["owner"] \in Seq(Note) /\ line["other"] \in Seq(Note)
BY DEF KeysTyped, Halves, Side

\* A mint is begun only when no exchange is under way.
LEMMA Minted ==
  ASSUME KeysTyped, OneExchange, ~crossed', NEW may \in BOOLEAN,
         MintsBeside(may) \/ (MintsInQueue(may) /\ ~pairQ),
         may => mine = {}
  PROVE  /\ mine' = mine
         /\ pairing' \in {0, 1} /\ ~(pairing' = 1 /\ pairQ')
         /\ Pending' <=> Pending \/ may
<1>1. pairing \in {0, 1} /\ ~(pairing = 1 /\ pairQ) /\ pairQ \in BOOLEAN
  BY DEF OneExchange, KeysTyped, KeysTypeOK
<1>2. CASE MintsBeside(may)
  BY <1>1, <1>2 DEF MintsBeside, Pending
<1>3. CASE MintsInQueue(may) /\ ~pairQ
  BY <1>1, <1>3 DEF MintsInQueue, Pending
<1> QED BY <1>2, <1>3

\* ensureSessionKey of the owner.
LEMMA WantsIsFree ==
  ASSUME Good, Wants
  PROVE  mine = {} /\ ~fresh["owner"]
BY DEF Good, OwnersEnd, Wants, MayMint

LEMMA OwnerEnsures ==
  ASSUME KeysTyped, Good, ~crossed', MintsBeside(Wants),
         UNCHANGED <<wrapping, held, line, deriving, key, ready, fresh>>
  PROVE  Good'
<1>1. Wants \in BOOLEAN /\ (Wants => mine = {} /\ ~fresh["owner"])
  BY WantsIsFree, MayIsBoolean
<1>2. /\ mine' = mine /\ pairing' \in {0, 1} /\ ~(pairing' = 1 /\ pairQ')
      /\ Pending' <=> Pending \/ Wants
  <2>1. OneExchange
    BY DEF Good
  <2> QED BY <1>1, <2>1, Minted
<1>3. Met' = Met
  BY DEF Met
<1>4. Calm' /\ Lines' /\ OthersEnd'
  BY <1>2, <1>3 DEF Good, Calm, Lines, OthersEnd
<1>5. OneExchange'
  BY <1>1, <1>2 DEF Good, OneExchange
<1>6. OwnersEnd'
  BY <1>1, <1>2 DEF Good, OwnersEnd
<1> QED BY <1>4, <1>5, <1>6 DEF Good

\* The other asks for an exchange.
LEMMA RequestSaid ==
  ASSUME KeysTyped, Good
  PROVE  LET q == Append(line["other"], Msg("request", {}))
         IN  /\ \A k : OthersLine(q, mine, k)
             /\ Has(q, "request")
             /\ Has(q, "answer") <=> Has(line["other"], "answer")
             /\ Has(q, "hello") <=> Has(line["other"], "hello")
<1> DEFINE q == line["other"]
           m == Msg("request", {})
<1>1. q \in Seq(Note) /\ m \in Note /\ m.kind = "request" /\ OthersLine(q, mine, Met)
  BY LinesTyped, SaidIsNote DEF Msg, Good, Lines
<1> HIDE DEF q, m
<1>2. /\ \A k : OthersLine(Append(q, m), mine, k)
      /\ Has(Append(q, m), "request")
      /\ Has(Append(q, m), "answer") <=> Has(q, "answer")
      /\ Has(Append(q, m), "hello") <=> Has(q, "hello")
  BY <1>1, OthersLineSaid
<1> QED BY <1>2 DEF q, m

LEMMA OtherRequests ==
  ASSUME KeysTyped, Good,
         OwnersLine(line'["owner"], mine),
         Has(line'["owner"], "offer") <=> Has(line["owner"], "offer"),
         line'["other"] = Append(line["other"], Msg("request", {})),
         UNCHANGED <<wrapping, held, pairing, pairQ, mine, deriving["owner"],
                     fresh["owner"], key["owner"], ready["owner"]>>
  PROVE  Good'
<1>1. /\ OthersLine(line'["other"], mine, Met')
      /\ Has(line'["other"], "request")
      /\ Has(line'["other"], "answer") <=> Has(line["other"], "answer")
      /\ Has(line'["other"], "hello") <=> Has(line["other"], "hello")
  <2> DEFINE q == Append(line["other"], Msg("request", {}))
  <2>1. /\ \A k : OthersLine(q, mine, k)
        /\ Has(q, "request")
        /\ Has(q, "answer") <=> Has(line["other"], "answer")
        /\ Has(q, "hello") <=> Has(line["other"], "hello")
    BY RequestSaid
  <2>2. line'["other"] = q
    OBVIOUS
  <2> HIDE DEF q
  <2> QED BY <2>1, <2>2
<1>2. Calm' /\ Lines'
  BY <1>1 DEF Good, Calm, Lines
<1>3. OneExchange' /\ OwnersEnd' /\ OthersEnd'
  BY <1>1 DEF Good, OneExchange, OwnersEnd, OthersEnd, Pending
<1> QED BY <1>2, <1>3 DEF Good

LEMMA OtherAsksGood ==
  ASSUME KeysTyped, Good, OtherAsks,
         UNCHANGED <<wrapping, held, deriving, key, ready, fresh, owners>>
  PROVE  Good'
<1>1. CASE key["other"] = {}
  <2>1. Send("other", Msg("request", {}))
    BY <1>1 DEF OtherAsks
  <2>2. /\ line'["owner"] = line["owner"]
        /\ line'["other"] = Append(line["other"], Msg("request", {}))
    BY <2>1, SaidIsNote, Sent, Sides DEF KeysTyped, Side
  <2>3. OwnersLine(line'["owner"], mine)
    BY <2>2 DEF Good, Lines
  <2> QED BY <2>2, <2>3, OtherRequests DEF owners
<1>2. CASE key["other"] # {}
  <2>1. UNCHANGED View
    BY <1>2 DEF OtherAsks, View, Met, owners
  <2> QED BY <2>1, SameView
<1> QED BY <1>1, <1>2

LEMMA EnsureGood ==
  ASSUME KeysTyped, Good, ~crossed', NEW s \in Side, Ensure(s),
         UNCHANGED <<wrapping, held, deriving, key, ready, fresh>>
  PROVE  Good'
<1>1. CASE s = "owner"
  BY <1>1, OwnerEnsures DEF Ensure
<1>2. CASE s # "owner"
  BY <1>2, OtherAsksGood DEF Ensure
<1> QED BY <1>1, <1>2

LEMMA PairedGood ==
  ASSUME KeysTyped, Good, Paired
  PROVE  Good'
<1> DEFINE m == Msg("offer", {NewId})
<1>1. {NewId} \in One /\ {NewId} # {}
  BY NewIdIsAnId DEF Paired
<1>2. m \in Note /\ m.kind = "offer" /\ m.part = {NewId}
  BY <1>1, SaidIsNote DEF Msg
<1>3. line'["owner"] = Append(line["owner"], m) /\ line'["other"] = line["other"]
  BY <1>2, Sent, Sides DEF Paired, KeysTyped, Side
<1> HIDE DEF m
<1>4. Pending /\ ~Pending' /\ pairing' = 0
  BY DEF Paired, Pending, Good, OneExchange
<1>5. /\ mine = {} /\ ~fresh["owner"] /\ deriving["owner"] = {}
      /\ ~Has(line["owner"], "offer") /\ ~Has(line["other"], "answer")
  BY <1>4 DEF Good, OneExchange, OwnersEnd
<1>6. mine' = {NewId} /\ UNCHANGED <<fresh, deriving, wrapping, held>>
  BY DEF Paired, jobs
<1>7. Met' = Met
  BY DEF Paired, Met, jobs, KeysTyped, KeysTypeOK, Side
<1>8. OwnersLine(line'["owner"], mine') /\ Has(line'["owner"], "offer")
  <2>1. OwnersLine(line["owner"], mine) /\ line["owner"] \in Seq(Note)
    BY LinesTyped DEF Good, Lines
  <2>2. /\ OwnersLine(Append(line["owner"], m), m.part)
        /\ Has(Append(line["owner"], m), "offer")
    BY <1>2, <1>5, <2>1, OwnersLineSaid
  <2> QED BY <1>2, <1>3, <1>6, <2>2
<1>9. OthersLine(line'["other"], mine', Met')
  BY <1>3, <1>5, LinesFree DEF Good, Lines
<1>10. Calm' /\ Lines'
  BY <1>6, <1>8, <1>9 DEF Good, Calm, Lines
<1>11. OneExchange'
  BY <1>1, <1>3, <1>4, <1>5, <1>6, <1>8 DEF OneExchange
<1>12. OwnersEnd' /\ OthersEnd'
  BY <1>1, <1>5, <1>6 DEF OwnersEnd, OthersEnd
<1> QED BY <1>10, <1>11, <1>12 DEF Good

LEMMA FallbackFiresGood ==
  ASSUME KeysTyped, Good, FallbackFires, slips' = slips
  PROVE  Good'
<1>1. Rest
  BY DEF FallbackFires, Slip, KeysTyped, KeysTypeOK
<1>2. key["other"] # {}
  BY <1>1, Settled DEF Agreed
<1>3. wrapping' = wrapping
  BY <1>2 DEF FallbackFires, KeysTyped, KeysTypeOK
<1>4. UNCHANGED View
  BY <1>3 DEF FallbackFires, View, Met, keys, owners
<1> QED BY <1>4, SameView

LEMMA DerivedGood ==
  ASSUME KeysTyped, Good, NEW s \in Side, Derived(s)
  PROVE  Good'
<1>1. /\ key' = [key EXCEPT ![s] = deriving[s]] /\ ready' = [ready EXCEPT ![s] = TRUE]
      /\ fresh' = [fresh EXCEPT ![s] = TRUE] /\ deriving' = [deriving EXCEPT ![s] = {}]
      /\ deriving[s] # {}
      /\ UNCHANGED <<wrapping, held, line, pairing, pairQ>>
  BY DEF Derived, Takes
<1>2. CASE s = "owner"
  <2>1. mine # {} /\ ~Has(line["owner"], "offer") /\ ~Has(line["other"], "answer") /\ ~Pending
    BY <1>1, <1>2 DEF Good, OneExchange
  <2>2. mine' = {} /\ ~Pending'
    BY <1>1, <1>2, <2>1 DEF Derived, Pending
  <2>3. /\ key'["owner"] = deriving["owner"] /\ ready'["owner"] /\ fresh'["owner"]
        /\ deriving'["owner"] = {}
    BY <1>1, <1>2 DEF KeysTyped, KeysTypeOK, Side
  <2>4. Met' = Met
    BY <1>1, <1>2 DEF Met, KeysTyped, KeysTypeOK, Side
  <2>5. Lines'
    BY <1>1, <2>1, LinesFree DEF Good, Lines
  <2>6. Calm'
    BY <1>1 DEF Good, Calm
  <2>7. OneExchange'
    BY <1>1, <2>1, <2>2, <2>3 DEF Good, OneExchange
  <2>8. OwnersEnd' /\ OthersEnd'
    BY <1>1, <1>2, <2>2, <2>3, <2>4 DEF Good, OwnersEnd, OthersEnd
  <2> QED BY <2>5, <2>6, <2>7, <2>8 DEF Good
<1>3. CASE s # "owner"
  <2>1. s = "other"
    BY <1>3 DEF Side
  <2>2. mine' = mine
    BY <1>3 DEF Derived
  <2>3. /\ key'["other"] = deriving["other"] /\ ready'["other"] /\ fresh'["other"]
        /\ deriving'["other"] = {} /\ deriving["other"] # {}
    BY <1>1, <2>1 DEF KeysTyped, KeysTypeOK, Side
  <2>4. Met' = Met
    BY <2>3 DEF Met
  <2>5. /\ key'["owner"] = key["owner"] /\ ready'["owner"] = ready["owner"]
        /\ fresh'["owner"] = fresh["owner"] /\ deriving'["owner"] = deriving["owner"]
    BY <1>1, <2>1 DEF KeysTyped, KeysTypeOK, Side
  <2>6. UNCHANGED View
    BY <1>1, <2>2, <2>4, <2>5 DEF View
  <2> QED BY <2>6, SameView
<1> QED BY <1>2, <1>3

\* While the other has no key of this connection, a request follows every answer.
LEMMA NoneMet ==
  ASSUME NEW q \in Seq(Note), NEW p, OthersLine(q, p, {})
  PROVE  \A k : OthersLine(q, p, k)
<1>1. ASSUME NEW n \in At(q, "answer") PROVE p \cup q[n].part # {}
  <2>1. q[n] \in Note /\ q[n].kind = "answer"
    BY ElementOfSeq DEF At
  <2> QED BY <2>1 DEF Note, One
<1>2. \A k : AnswersFit(q, p, k)
  BY <1>1 DEF OthersLine, AnswersFit
<1> QED BY <1>2 DEF OthersLine

LEMMA SaysGood ==
  ASSUME KeysTyped, Good, ~crossed', NEW s \in Side, Says(s)
  PROVE  Good'
<1>1. CASE Ensure(s) /\ UNCHANGED <<key, ready>>
  BY <1>1, EnsureGood DEF Says, jobs
<1>2. CASE /\ Hydrated(s) # {} /\ key' = [key EXCEPT ![s] = Hydrated(s)]
           /\ Send(s, Msg("text", Hydrated(s)))
           /\ ready' = [ready EXCEPT ![s] = @ \/ key[s] = {}]
           /\ UNCHANGED <<owners, crossed, fallback>>
  <2> DEFINE m == Msg("text", Hydrated(s))
  <2>1. m \in Note /\ m.kind = "text"
    <3>1. Hydrated(s) \in Key
      BY DEF Hydrated, KeysTyped, KeysTypeOK
    <3> QED BY <3>1, SaidIsNote DEF Msg
  <2>2. line'[s] = Append(line[s], m) /\ line'[Far(s)] = line[Far(s)]
    BY <1>2, <2>1, Sent DEF KeysTyped
  <2> HIDE DEF m
  <2>3. key[s] # {} => key' = key /\ ready' = ready
    BY <1>2 DEF Hydrated, KeysTyped, KeysTypeOK
  <2>4. UNCHANGED <<wrapping, held, pairing, pairQ, mine, deriving, fresh>>
    BY <1>2 DEF Says, jobs, owners
  <2>5. CASE s = "owner"
    <3>1. line'["owner"] = Append(line["owner"], m) /\ line'["other"] = line["other"]
      BY <2>2, <2>5, Sides
    <3>2. /\ OwnersLine(line'["owner"], mine)
          /\ Has(line'["owner"], "offer") <=> Has(line["owner"], "offer")
      BY <2>1, <3>1, LinesTyped, OwnersLineSaid DEF Good, Lines
    <3>3. Met' = Met
      BY <1>2, <2>4, <2>5 DEF Met, KeysTyped, KeysTypeOK, Side
    <3>4. fresh["owner"] => key'["owner"] = key["owner"] /\ ready'["owner"] = ready["owner"]
      BY <2>3, <2>5 DEF Good, OwnersEnd
    <3>5. Calm' /\ Lines'
      BY <2>4, <3>1, <3>2, <3>3 DEF Good, Calm, Lines
    <3>6. OneExchange' /\ OwnersEnd' /\ OthersEnd'
      BY <2>4, <3>1, <3>2, <3>3, <3>4
         DEF Good, OneExchange, OwnersEnd, OthersEnd, Pending
    <3> QED BY <3>5, <3>6 DEF Good
  <2>6. CASE s # "owner"
    <3>0. s = "other"
      BY <2>6 DEF Side
    <3>1. line'["other"] = Append(line["other"], m) /\ line'["owner"] = line["owner"]
      BY <2>2, <3>0, Sides
    <3>2. Met' = Met \/ Met = {}
      BY <2>3, <2>4, <3>0 DEF Met
    <3>3. OthersLine(line'["other"], mine, Met)
          /\ (Has(line'["other"], "hello") <=> Has(line["other"], "hello"))
          /\ (Has(line'["other"], "request") <=> Has(line["other"], "request"))
          /\ (Has(line'["other"], "answer") <=> Has(line["other"], "answer"))
      <4>1. OthersLine(line["other"], mine, Met) /\ line["other"] \in Seq(Note)
        BY LinesTyped DEF Good, Lines
      <4> DEFINE q == line["other"]
      <4>2. q \in Seq(Note) /\ OthersLine(q, mine, Met)
        BY <4>1
      <4>3. line'["other"] = Append(q, m)
        BY <3>1
      <4> HIDE DEF q
      <4>4. /\ OthersLine(Append(q, m), mine, Met)
            /\ Has(Append(q, m), "hello") <=> Has(q, "hello")
            /\ Has(Append(q, m), "request") <=> Has(q, "request")
            /\ Has(Append(q, m), "answer") <=> Has(q, "answer")
        BY <2>1, <4>2, OthersLineSaid
      <4> QED BY <4>3, <4>4 DEF q
    <3>4. line'["other"] \in Seq(Note)
      BY <2>1, <3>1, LinesTyped
    <3>5. OthersLine(line'["other"], mine, Met')
      BY <3>2, <3>3, <3>4, NoneMet
    <3>6. key'["owner"] = key["owner"] /\ ready'["owner"] = ready["owner"]
      BY <1>2, <3>0 DEF KeysTyped, KeysTypeOK, Side
    <3>7. Calm' /\ Lines'
      BY <2>4, <3>1, <3>5 DEF Good, Calm, Lines
    <3>8. OneExchange' /\ OwnersEnd'
      BY <2>4, <3>1, <3>3, <3>6 DEF Good, OneExchange, OwnersEnd, Pending
    <3>9. fresh["owner"] => key["owner"] # {}
      BY DEF Good, OwnersEnd
    <3>10. OthersEnd'
      BY <2>4, <3>2, <3>3, <3>6, <3>9 DEF Good, OthersEnd
    <3> QED BY <3>7, <3>8, <3>10 DEF Good
  <2> QED BY <2>5, <2>6
<1> QED BY <1>1, <1>2 DEF Says

\* What a side that hears leaves of the two lines.
LEMMA OwnerHears ==
  ASSUME KeysTyped, line["other"] # <<>>, NEW said, Reads("owner", said), said = <<>>
  PROVE  line'["owner"] = line["owner"] /\ line'["other"] = Tail(line["other"])
<1>1. said \in Seq(Note) /\ "owner" \in Side /\ Far("owner") = "other"
  BY SaidSeq, Sides DEF Side
<1>2. line'["owner"] = line["owner"] \o said /\ line'["other"] = Tail(line["other"])
  BY <1>1, Read DEF KeysTyped
<1> QED BY <1>2, SaidSeq, LinesTyped

LEMMA OtherHears ==
  ASSUME KeysTyped, line["owner"] # <<>>
  PROVE  /\ Reads("other", <<>>) =>
              line'["owner"] = Tail(line["owner"]) /\ line'["other"] = line["other"]
         /\ \A m \in Note : Reads("other", <<m>>) =>
              /\ line'["owner"] = Tail(line["owner"])
              /\ line'["other"] = Append(line["other"], m)
<1>1. "other" \in Side /\ Far("other") = "owner"
  BY Sides DEF Side
<1>2. ASSUME Reads("other", <<>>)
      PROVE  line'["owner"] = Tail(line["owner"]) /\ line'["other"] = line["other"]
  <2>1. line'["other"] = line["other"] \o <<>> /\ line'["owner"] = Tail(line["owner"])
    BY <1>1, <1>2, SaidSeq, Read DEF KeysTyped
  <2> QED BY <2>1, SaidSeq, LinesTyped
<1>3. ASSUME NEW m \in Note, Reads("other", <<m>>)
      PROVE  /\ line'["owner"] = Tail(line["owner"])
             /\ line'["other"] = Append(line["other"], m)
  <2>1. line'["other"] = line["other"] \o <<m>> /\ line'["owner"] = Tail(line["owner"])
    BY <1>1, <1>3, SaidSeq, Read DEF KeysTyped
  <2> QED BY <2>1, SaidSeq, LinesTyped
<1> QED BY <1>2, <1>3

\* The owner reads a text or a greeting, or one that asks; what it then does is
\* a mint, and it may lose what it had.
LEMMA OwnerMintsGood ==
  ASSUME KeysTyped, Good, ~crossed', line["other"] # <<>>, deriving["owner"] = {},
         Head(line["other"]).kind # "answer",
         line'["owner"] = line["owner"], line'["other"] = Tail(line["other"]),
         NEW may \in BOOLEAN, MintsBeside(may) \/ (MintsInQueue(may) /\ ~pairQ),
         may => mine = {},
         may \/ mine # {} \/ fresh'["owner"] \/ Pending \/ Has(Tail(line["other"]), "hello"),
         fresh'["owner"] =>
            /\ fresh["owner"] /\ ~may /\ key'["owner"] = key["owner"]
            /\ ready'["owner"] = ready["owner"] /\ Head(line["other"]).kind # "request",
         Met' = Met,
         UNCHANGED <<wrapping, held, deriving>>
  PROVE  Good'
<1> DEFINE q == line["other"]
<1>1. q \in Seq(Note) /\ q # <<>> /\ OthersLine(q, mine, Met)
  BY LinesTyped DEF Good, Lines
<1>2. /\ OthersLine(Tail(q), mine, Met)
      /\ Has(Tail(q), "answer") <=> Has(q, "answer")
      /\ Head(q).kind # "request" => (Has(Tail(q), "request") <=> Has(q, "request"))
  BY <1>1, OthersLineRead
<1>3. /\ mine' = mine /\ pairing' \in {0, 1} /\ ~(pairing' = 1 /\ pairQ')
      /\ Pending' <=> Pending \/ may
  BY Minted DEF Good
<1>4. line'["other"] = Tail(q)
  OBVIOUS
<1> HIDE DEF q
<1>6. Calm' /\ Lines'
  BY <1>2, <1>3, <1>4 DEF Good, Calm, Lines
<1>7. OneExchange'
  BY <1>1, <1>2, <1>3, <1>4 DEF Good, OneExchange, q
<1>8. OwnersEnd'
  BY <1>3, <1>4 DEF Good, OwnersEnd, q
<1>9. OthersEnd'
  BY <1>2, <1>3, <1>4 DEF Good, OthersEnd, q
<1> QED BY <1>6, <1>7, <1>8, <1>9 DEF Good

LEMMA OwnerHearsGood ==
  ASSUME KeysTyped, Good, ~crossed', Hears("owner")
  PROVE  Good'
<1> DEFINE q == line["other"]
           m == Head(q)
<1>1. /\ q # <<>> /\ deriving["owner"] = {} /\ ~pairQ
      /\ UNCHANGED <<wrapping, held>>
  BY Sides DEF Hears, Idle
<1>2. q \in Seq(Note) /\ OthersLine(q, mine, Met)
  BY LinesTyped DEF Good, Lines
<1>3. /\ OthersLine(Tail(q), mine, Met)
      /\ m.kind \in {"hello", "request", "answer", "text"}
      /\ m.kind # "hello" => (Has(Tail(q), "hello") <=> Has(q, "hello"))
      /\ m.kind = "answer" =>
           /\ Has(q, "answer") /\ ~Has(Tail(q), "answer")
           /\ Has(Tail(q), "request") \/ mine \cup m.part = Met
  BY <1>1, <1>2, OthersLineRead
<1>4. \/ HearHello("owner", m) \/ HearRequest("owner", m) \/ HearOffer("owner", m)
      \/ HearAnswer("owner", m) \/ HearChatKey("owner", m) \/ HearText("owner", m)
  BY Sides DEF Hears
<1>5. Reads("owner", <<>>) => line'["owner"] = line["owner"] /\ line'["other"] = Tail(q)
  BY <1>1, OwnerHears
<1>6. \A may \in BOOLEAN : may = TRUE \/ may = FALSE
  OBVIOUS
<1> HIDE DEF q, m
<1>7. CASE HearHello("owner", m)
  <2>1. /\ MintsInQueue(Wants) /\ Reads("owner", <<>>) /\ m.kind = "hello"
        /\ UNCHANGED <<key, ready, fresh, stored, deriving>>
    BY <1>7 DEF HearHello, keys
  <2>2. Wants \in BOOLEAN /\ (Wants => mine = {} /\ ~fresh["owner"])
    BY WantsIsFree, MayIsBoolean
  <2>3. Wants \/ mine # {} \/ fresh["owner"]
    BY DEF Wants, MayMint
  <2>4. Met' = Met
    BY <2>1 DEF Met
  <2> QED BY <1>1, <1>5, <2>1, <2>2, <2>3, <2>4, OwnerMintsGood DEF q, m
<1>8. CASE HearRequest("owner", m)
  <2>1. /\ MintsInQueue(mine = {}) /\ Reads("owner", <<>>) /\ m.kind = "request"
        /\ key' = [key EXCEPT !["owner"] = {}] /\ fresh' = [fresh EXCEPT !["owner"] = FALSE]
        /\ UNCHANGED <<ready, deriving>>
    BY <1>8 DEF HearRequest
  <2>2. Met' = Met /\ ~fresh'["owner"]
    BY <2>1 DEF Met, KeysTyped, KeysTypeOK, Side
  <2>3. (mine = {}) \in BOOLEAN
    OBVIOUS
  <2> QED BY <1>1, <1>5, <2>1, <2>2, <2>3, OwnerMintsGood DEF q, m
<1>9. CASE HearAnswer("owner", m)
  <2>1. m.kind = "answer" /\ Reads("owner", <<>>)
        /\ UNCHANGED <<key, ready, fresh, mine, pairing, pairQ>>
    BY <1>9 DEF HearAnswer, keys, owners
  <2>2. mine # {} /\ ~Has(line["owner"], "offer")
    BY <1>3, <2>1 DEF Good, OneExchange, q
  <2>3. deriving' = [deriving EXCEPT !["owner"] = mine \cup m.part]
    BY <1>9, <2>2 DEF HearAnswer
  <2>4. deriving'["owner"] = mine \cup m.part /\ deriving'["other"] = deriving["other"]
        /\ mine \cup m.part # {}
    BY <2>2, <2>3 DEF KeysTyped, KeysTypeOK, Side
  <2>5. Met' = Met
    BY <2>1, <2>4 DEF Met
  <2>6. line'["owner"] = line["owner"] /\ line'["other"] = Tail(q)
    BY <1>5, <2>1
  <2>7. Calm' /\ Lines'
    BY <1>1, <1>3, <2>1, <2>5, <2>6 DEF Good, Calm, Lines
  <2>8. OneExchange'
    BY <1>3, <2>1, <2>2, <2>4, <2>6 DEF Good, OneExchange, Pending
  <2>9. OwnersEnd'
    BY <2>1, <2>2 DEF Good, OwnersEnd, Pending
  <2>10. OthersEnd'
    BY <1>3, <2>1, <2>2, <2>4, <2>5, <2>6 DEF Good, OwnersEnd, OthersEnd
  <2> QED BY <2>7, <2>8, <2>9, <2>10 DEF Good
<1>10. CASE HearText("owner", m) /\ m.part = key["owner"]
  <2>1. /\ Reads("owner", <<>>) /\ m.kind = "text"
        /\ UNCHANGED <<key, ready, fresh, mine, kexTimer, pairing, pairQ, crossed, deriving>>
    BY <1>10 DEF HearText, keys, owners
  <2>2. MintsBeside(FALSE)
    BY <2>1 DEF MintsBeside, KeysTyped, KeysTypeOK
  <2>3. Met' = Met
    BY <2>1 DEF Met
  <2>4. mine # {} \/ fresh["owner"] \/ Pending \/ Has(Tail(q), "hello")
    BY <1>3, <2>1 DEF Good, OwnersEnd, q
  <2> QED BY <1>1, <1>5, <2>1, <2>2, <2>3, <2>4, OwnerMintsGood DEF q, m
<1>11. CASE HearText("owner", m) /\ m.part # key["owner"]
  <2>1. /\ Renegotiate("owner") /\ Reads("owner", <<>>) /\ m.kind = "text"
        /\ UNCHANGED deriving
    BY <1>11 DEF HearText
  <2>2. /\ MintsBeside(mine = {})
        /\ key' = [key EXCEPT !["owner"] = {}] /\ ready' = [ready EXCEPT !["owner"] = FALSE]
        /\ fresh' = [fresh EXCEPT !["owner"] = FALSE]
    BY <2>1 DEF Renegotiate
  <2>3. Met' = Met /\ ~fresh'["owner"]
    BY <2>1, <2>2 DEF Met, KeysTyped, KeysTypeOK, Side
  <2>4. (mine = {}) \in BOOLEAN
    OBVIOUS
  <2> QED BY <1>1, <1>5, <2>1, <2>2, <2>3, <2>4, OwnerMintsGood DEF q, m
<1>12. CASE HearOffer("owner", m) \/ HearChatKey("owner", m)
  BY <1>3, <1>12 DEF HearOffer, HearChatKey
<1> QED BY <1>4, <1>7, <1>8, <1>9, <1>10, <1>11, <1>12

LEMMA OtherHearsGood ==
  ASSUME KeysTyped, Good, Hears("other")
  PROVE  Good'
<1> DEFINE q == line["owner"]
           m == Head(q)
           asks == Msg("request", {})
<1>1. q # <<>> /\ deriving["other"] = {} /\ UNCHANGED <<wrapping, held>>
  BY Sides DEF Hears, Idle
<1>2. q \in Seq(Note) /\ OwnersLine(q, mine)
  BY LinesTyped DEF Good, Lines
<1>3. /\ OwnersLine(Tail(q), mine)
      /\ m.kind \in {"hello", "offer", "text"}
      /\ m.kind # "offer" => (Has(Tail(q), "offer") <=> Has(q, "offer"))
      /\ m.kind = "offer" => Has(q, "offer") /\ ~Has(Tail(q), "offer") /\ m.part = mine
  BY <1>1, <1>2, OwnersLineRead
<1>4. \/ HearHello("other", m) \/ HearRequest("other", m) \/ HearOffer("other", m)
      \/ HearAnswer("other", m) \/ HearChatKey("other", m) \/ HearText("other", m)
  BY Sides DEF Hears
<1>5. /\ Reads("other", <<>>) => line'["owner"] = Tail(q) /\ line'["other"] = line["other"]
      /\ \A n \in Note : Reads("other", <<n>>) =>
            line'["owner"] = Tail(q) /\ line'["other"] = Append(line["other"], n)
  BY <1>1, OtherHears
<1>6. asks \in Note
  BY SaidIsNote
<1> HIDE DEF q, m
<1>7. ASSUME m.kind # "offer", Reads("other", <<asks>>), UNCHANGED <<owners, deriving>>,
             key'["owner"] = key["owner"], fresh'["owner"] = fresh["owner"],
             ready'["owner"] = ready["owner"]
      PROVE  Good'
  <2>1. line'["owner"] = Tail(q) /\ line'["other"] = Append(line["other"], asks)
    BY <1>5, <1>6, <1>7
  <2>2. /\ OwnersLine(line'["owner"], mine)
        /\ Has(line'["owner"], "offer") <=> Has(line["owner"], "offer")
    BY <1>3, <1>7, <2>1 DEF q
  <2> QED BY <1>1, <1>7, <2>1, <2>2, OtherRequests DEF owners
<1>8. ASSUME m.kind # "offer", Reads("other", <<>>), UNCHANGED <<keys, owners, deriving>>
      PROVE  Good'
  <2>1. line'["owner"] = Tail(q) /\ line'["other"] = line["other"]
    BY <1>5, <1>8
  <2>2. /\ OwnersLine(line'["owner"], mine)
        /\ Has(line'["owner"], "offer") <=> Has(line["owner"], "offer")
    BY <1>3, <1>8, <2>1 DEF q
  <2>3. Met' = Met
    BY <1>8 DEF Met, keys
  <2>4. Calm' /\ Lines'
    BY <1>1, <1>8, <2>1, <2>2, <2>3 DEF Good, Calm, Lines, owners
  <2>5. OneExchange' /\ OwnersEnd' /\ OthersEnd'
    BY <1>8, <2>1, <2>2, <2>3
       DEF Good, OneExchange, OwnersEnd, OthersEnd, Pending, owners, keys
  <2> QED BY <2>4, <2>5 DEF Good
<1>9. CASE HearHello("other", m)
  <2>1. CASE key["other"] = {}
    BY <1>7, <1>9, <2>1 DEF HearHello, keys
  <2>2. CASE key["other"] # {}
    BY <1>8, <1>9, <2>2 DEF HearHello
  <2> QED BY <2>1, <2>2
<1>10. CASE HearText("other", m) /\ m.part = key["other"]
  BY <1>8, <1>10 DEF HearText
<1>11. CASE HearText("other", m) /\ m.part # key["other"]
  <2>1. Renegotiate("other") /\ Reads("other", <<asks>>) /\ m.kind = "text"
        /\ UNCHANGED deriving
    BY <1>11 DEF HearText
  <2>2. /\ key'["owner"] = key["owner"] /\ fresh'["owner"] = fresh["owner"]
        /\ ready'["owner"] = ready["owner"] /\ UNCHANGED owners
    BY <2>1 DEF Renegotiate, KeysTyped, KeysTypeOK, Side
  <2> QED BY <1>7, <2>1, <2>2
<1>12. CASE HearOffer("other", m)
  <2> DEFINE n == Msg("answer", {NewId})
             o == line["other"]
  <2>1. n \in Note /\ n.kind = "answer" /\ n.part = {NewId}
    BY <1>12, NewIdIsAnId, SaidIsNote DEF HearOffer, Msg
  <2>2. /\ Reads("other", <<n>>) /\ m.kind = "offer"
        /\ deriving' = [deriving EXCEPT !["other"] = m.part \cup {NewId}]
        /\ UNCHANGED <<key, ready, fresh, mine, pairing, pairQ>>
    BY <1>12 DEF HearOffer, keys, owners
  <2>3. line'["owner"] = Tail(q) /\ line'["other"] = Append(o, n)
    BY <1>5, <2>1, <2>2
  <2>4. o \in Seq(Note) /\ OthersLine(o, mine, Met)
    BY LinesTyped DEF Good, Lines
  <2>5. /\ m.part = mine /\ mine # {} /\ ~Has(o, "answer") /\ deriving["owner"] = {}
        /\ ~fresh["owner"] /\ ~Pending
    BY <1>3, <2>2 DEF Good, OneExchange, OwnersEnd, q
  <2>6. /\ deriving'["other"] = mine \cup {NewId} /\ deriving'["other"] # {}
        /\ deriving'["owner"] = {}
    BY <2>2, <2>5 DEF KeysTyped, KeysTypeOK, Side
  <2>7. Met' = mine \cup {NewId}
    BY <2>6 DEF Met
  <2> HIDE DEF n, o
  <2>8. OthersLine(Append(o, n), mine, mine \cup {NewId}) /\ Has(Append(o, n), "answer")
    BY <2>1, <2>4, <2>5, OthersLineSaid
  <2>9. Calm' /\ Lines'
    BY <1>1, <1>3, <2>2, <2>3, <2>7, <2>8 DEF Good, Calm, Lines
  <2>10. OneExchange'
    BY <1>3, <2>2, <2>3, <2>5, <2>6, <2>8 DEF Good, OneExchange, Pending
  <2>11. OwnersEnd' /\ OthersEnd'
    BY <2>2, <2>5, <2>6 DEF OwnersEnd, OthersEnd
  <2> QED BY <2>9, <2>10, <2>11 DEF Good
<1>13. CASE HearRequest("other", m) \/ HearAnswer("other", m) \/ HearChatKey("other", m)
  BY <1>3, <1>13 DEF HearRequest, HearAnswer, HearChatKey
<1> QED BY <1>4, <1>9, <1>10, <1>11, <1>12, <1>13

(***************************************************************************)
(* Every step.                                                             *)
(***************************************************************************)

\* What was never disturbed was not disturbed before.
LEMMA QuietBefore ==
  ASSUME KeysTyped, [KeysNext]_keysVars, Quiet'
  PROVE  Quiet /\ slips' = slips /\ ~crossed'
<1>1. slips \in Nat /\ crossed \in BOOLEAN
  BY DEF KeysTyped, KeysTypeOK
<1>2. (slips' = slips \/ slips' = slips + 1) /\ (crossed => crossed')
  <2>1. ASSUME NEW s \in Side, Hears(s)
        PROVE  slips' = slips /\ (crossed => crossed')
    <3>1. crossed => crossed'
      BY <2>1 DEF Hears, HearHello, HearRequest, HearOffer, HearAnswer, HearChatKey,
         HearText, Renegotiate, MintsBeside, MintsInQueue
    <3> QED BY <2>1, <3>1 DEF Hears
  <2>2. ASSUME NEW s \in Side,
               Derived(s) \/ Wrapped(s) \/ LetterRead(s) \/ LetterOpens(s) \/ OfflineKey(s)
        PROVE  (slips' = slips \/ slips' = slips + 1) /\ crossed' = crossed
    BY <2>2 DEF Derived, Wrapped, LetterRead, LetterOpens, OfflineKey, Slip
  <2>3. ASSUME NEW s \in Side, EnsuresLater(s) \/ Says(s)
        PROVE  slips' = slips /\ (crossed => crossed')
    BY <2>3 DEF EnsuresLater, Says, Ensure, MintsBeside
  <2>4. CASE Paired \/ KexTimerFires \/ FallbackFires \/ UNCHANGED keysVars
    BY <2>4 DEF Paired, KexTimerFires, FallbackFires, Slip, keysVars
  <2> QED BY <2>1, <2>2, <2>3, <2>4 DEF KeysNext, Works
<1> QED BY <1>1, <1>2 DEF Quiet

LEMMA KeysNextGood ==
  ASSUME KeysTyped, Good, [KeysNext]_keysVars, slips' = slips, ~crossed'
  PROVE  Good'
<1>1. ~Slip
  BY DEF Slip, KeysTyped, KeysTypeOK
<1>2. ASSUME NEW s \in Side, Hears(s) PROVE Good'
  BY <1>2, OwnerHearsGood, OtherHearsGood DEF Side
<1>3. ASSUME NEW s \in Side, EnsuresLater(s) PROVE Good'
  BY <1>3, EnsureGood DEF EnsuresLater, keys
<1>4. ASSUME NEW s \in Side, Wrapped(s) \/ LetterRead(s) PROVE FALSE
  BY <1>4 DEF Wrapped, LetterRead, Good, Calm
<1>5. ASSUME NEW s \in Side, OfflineKey(s) \/ LetterOpens(s) PROVE FALSE
  BY <1>1, <1>5 DEF OfflineKey, LetterOpens
<1>6. CASE KexTimerFires
  BY <1>1, <1>6 DEF KexTimerFires
<1>7. CASE UNCHANGED keysVars
  <2>1. UNCHANGED View
    BY <1>7 DEF keysVars, keys, owners, jobs, View, Met
  <2> QED BY <2>1, SameView
<1> QED BY <1>2, <1>3, <1>4, <1>5, <1>6, <1>7, DerivedGood, SaysGood, PairedGood,
       FallbackFiresGood DEF KeysNext, Works

LEMMA GoodWhenQuiet == KeysSpec => [](KeysTyped /\ (Quiet => Good))
<1>1. KeysInit => KeysTyped /\ (Quiet => Good)
  BY KeysInitTyped, GoodAtFirst
<1>2. KeysTyped /\ (Quiet => Good) /\ [KeysNext]_keysVars
        => (KeysTyped /\ (Quiet => Good))'
  BY KeysNextTyped, QuietBefore, KeysNextGood
<1> QED BY <1>1, <1>2, PTL DEF KeysSpec

\* Whatever keys the two brought along, and however many texts, requests and
\* exchanges there were: while no timer, letter or second mint crossed one, a
\* pair at rest holds one key of this connection, and both may send.
THEOREM QuietPairAgrees == KeysSpec => []AgreeUndisturbed
<1>1. KeysTyped /\ (Quiet => Good) => AgreeUndisturbed
  BY Settled DEF AgreeUndisturbed, Quiet
<1> QED BY <1>1, GoodWhenQuiet, PTL
=============================================================================
