----------------------------- MODULE GroupSpace -----------------------------
(***************************************************************************)
(* One group ("shared space") as its members' devices hold it.  There is   *)
(* no server copy: every device keeps a record of its own, an edit is      *)
(* committed to the editor's record with the next revision and pushed to   *)
(* everybody the record lists, and a receiver replaces its record by one   *)
(* of a newer revision and merges it with any other (src/js/chat:          *)
(* 06-groups.js, 11-group-permissions.js, 19-forward-secrecy.js,           *)
(* 30-file-transfer-2.js, and the senders in 18-, 29- and 34-*.js).        *)
(*                                                                         *)
(* Every member is one device and one key.  A record that travels ("sync") *)
(* may overtake another and may be lost: a member of another relay gets    *)
(* it over transit, where each frame is sealed by its own asynchronous     *)
(* call and an untagged one is not sent again, and nothing is sent while   *)
(* the sender's socket is closed.  Name, description, picture and          *)
(* permissions are one value, the number of the act that wrote them.       *)
(***************************************************************************)
EXTENDS Naturals, FiniteSets

CONSTANTS
    Device,     \* the accounts, each on one device
    Owner,      \* the one that makes the group
    Founders,   \* the contacts it makes it with
    MaxActs     \* bound: edits, redemptions, messages, departures, losses
                \* and pushes by members, in all

ASSUME OwnerIsADevice == Owner \in Device
ASSUME FoundersAreOthers == Founders \subseteq Device \ {Owner} /\ Founders # {}
ASSUME MaxActsIsNat == MaxActs \in Nat

VARIABLES
    has,        \* has[d]: d's chatState.spaces.groups holds the record
    rev,        \* its `rev`
    name,       \* its name and other details: the act that wrote them
    members,    \* its `members` (the founders' list leaves the owner out)
    admins,     \* its `admins`
    removed,    \* its `removed`
    dissolved,  \* its `dissolved`
    heard,      \* heard[d]: who has a message in d's history of the group
    syncs,      \* 'space-sync' records under way
    chats,      \* group messages under way; each carries its sender's roster
    codes,      \* invite codes handed out
    acts,       \* acts so far
    picked,     \* picked[d]: removed members d has put back in its own list
    left        \* those who left, and neither redeemed a code nor were added
                \* by the owner since

copy == <<has, rev, name, members, admins, removed, dissolved>>
wishes == <<picked, left>>
vars == <<copy, heard, syncs, chats, codes, acts, wishes>>

-----------------------------------------------------------------------------
(* The record as it travels.  `deleted` is the tombstone of a dissolved     *)
(* group.  The owner is never among the removed.                            *)

Record == [rev : Nat, name : Nat, members : SUBSET Device,
           admins : SUBSET Device, removed : SUBSET (Device \ {Owner}),
           dissolved : BOOLEAN, deleted : BOOLEAN]
Letter == [from : Device, to : Device, rec : Record]

Copy(d) == [rev |-> rev[d], name |-> name[d], members |-> members[d],
            admins |-> admins[d], removed |-> removed[d],
            dissolved |-> dissolved[d], deleted |-> FALSE]

\* What a group message says of the group: a name, a roster, no revision.
RosterOf(d) == [Copy(d) EXCEPT !.rev = 0, !.admins = {}, !.removed = {},
                               !.dissolved = FALSE]

\* An empty roster reads as "everybody".
Includes(rec, d) == d = Owner \/ rec.members = {} \/ d \in rec.members

MayManage(d) == has[d] /\ (d = Owner \/ d \in admins[d])

\* Mutant of Audience: every contact, in the group or not.
AllContacts(d, list) == Device \ {d}

\* Whom a record is pushed to: those it lists, or every contact if it lists
\* nobody.
Audience(d, list) == (IF list = {} THEN Device ELSE list) \ {d}
To(d, list, rec) == {[from |-> d, to |-> e, rec |-> rec] : e \in list}
Broadcast(d, rec) == To(d, Audience(d, rec.members), rec)

\* The members d's messages go to: the ones it lists, the owner and those it
\* has messages from, less the removed.
Delivery(d) == (members[d] \cup {Owner} \cup heard[d]) \ (removed[d] \cup {d})

Act == acts < MaxActs /\ acts' = acts + 1

-----------------------------------------------------------------------------
(* The owner has made the group with some of its contacts and pushed it.    *)

Init ==
    /\ has = [d \in Device |-> d = Owner]
    /\ members = [d \in Device |-> IF d = Owner THEN Founders ELSE {}]
    /\ rev = [d \in Device |-> 0]
    /\ name = [d \in Device |-> 0]
    /\ admins = [d \in Device |-> {}]
    /\ removed = [d \in Device |-> {}]
    /\ dissolved = [d \in Device |-> FALSE]
    /\ heard = [d \in Device |-> {}]
    /\ syncs = Broadcast(Owner,
                   [rev |-> 0, name |-> 0, members |-> Founders,
                    admins |-> {}, removed |-> {},
                    dissolved |-> FALSE, deleted |-> FALSE])
    /\ chats = {} /\ codes = {} /\ acts = 0
    /\ picked = [d \in Device |-> {}]
    /\ left = {}

-----------------------------------------------------------------------------
(* Edits.  commitSpaceEdit: the next revision, saved, pushed to those the   *)
(* record now lists.                                                        *)

Commit(d, rec, also) ==
    /\ Act
    /\ rev' = [rev EXCEPT ![d] = rec.rev]
    /\ name' = [name EXCEPT ![d] = rec.name]
    /\ members' = [members EXCEPT ![d] = rec.members]
    /\ admins' = [admins EXCEPT ![d] = rec.admins]
    /\ removed' = [removed EXCEPT ![d] = rec.removed]
    /\ syncs' = syncs \cup Broadcast(d, rec) \cup To(d, also, rec)
    /\ UNCHANGED <<has, dissolved, heard, chats, codes>>

NextOf(d) == [Copy(d) EXCEPT !.rev = rev[d] + 1]

\* Rename, describe, picture, permissions.
EditDetails(d) ==
    /\ MayManage(d)
    /\ Commit(d, [NextOf(d) EXCEPT !.name = acts + 1], {})
    /\ UNCHANGED wishes

\* The picker offers every contact the roster does not show.  The key is put
\* in the list and stays in `removed` if it was there.
AddMember(d, k) ==
    /\ MayManage(d)
    /\ k \notin members[d] \cup {Owner, d}
    /\ Commit(d, [NextOf(d) EXCEPT !.members = members[d] \cup {k}], {k})
    /\ picked' = [picked EXCEPT ![d] = @ \cup ({k} \cap removed[d])]
    /\ left' = IF d = Owner THEN left \ {k} ELSE left

\* Mutant of RemoveMember: the owner can be removed like anybody else.
RemoveAnyone(d, k) ==
    /\ MayManage(d)
    /\ k \in members[d] \ {d}
    /\ Commit(d, [NextOf(d) EXCEPT !.members = members[d] \ {k},
                                   !.admins = admins[d] \ {k},
                                   !.removed = removed[d] \cup {k}], {k})
    /\ UNCHANGED wishes

\* Out of the list and the admins, into `removed`; the removed member is
\* told too.
RemoveMember(d, k) ==
    /\ MayManage(d)
    /\ k \in members[d] \ {Owner, d}
    /\ Commit(d, [NextOf(d) EXCEPT !.members = members[d] \ {k},
                                   !.admins = admins[d] \ {k},
                                   !.removed = removed[d] \cup {k}], {k})
    /\ UNCHANGED wishes

ToggleAdmin(k) ==
    /\ has[Owner]
    /\ k \in members[Owner] \ {Owner}
    /\ Commit(Owner, [NextOf(Owner) EXCEPT
                        !.admins = IF k \in @ THEN @ \ {k} ELSE @ \cup {k}], {})
    /\ UNCHANGED wishes

(* The older panel beside the conversation: no role is asked for, no        *)
(* revision is taken.                                                       *)

SaveDetails(d) ==
    /\ has[d]
    /\ Commit(d, [Copy(d) EXCEPT !.name = acts + 1], {})
    /\ UNCHANGED wishes

SaveMembers(d, list) ==
    /\ has[d]
    /\ Commit(d, [Copy(d) EXCEPT !.members = list], {})
    /\ picked' = [picked EXCEPT ![d] = @ \cup (list \cap removed[d])]
    /\ UNCHANGED left

-----------------------------------------------------------------------------
(* Leaving and dissolving.                                                  *)

Dropped(d) ==
    /\ has' = [has EXCEPT ![d] = FALSE]
    /\ members' = [members EXCEPT ![d] = {}]
    /\ admins' = [admins EXCEPT ![d] = {}]
    /\ removed' = [removed EXCEPT ![d] = {}]
    /\ rev' = [rev EXCEPT ![d] = 0]
    /\ name' = [name EXCEPT ![d] = 0]
    /\ dissolved' = [dissolved EXCEPT ![d] = FALSE]
    /\ heard' = [heard EXCEPT ![d] = {}]
    /\ picked' = [picked EXCEPT ![d] = {}]

Farewell(d) == [NextOf(d) EXCEPT !.members = members[d] \ {d},
                                 !.admins = admins[d] \ {d}]

Leave(d) ==
    /\ has[d]
    /\ Act
    /\ Dropped(d)
    /\ syncs' = syncs \cup Broadcast(d, Farewell(d))
    /\ left' = left \cup {d}
    /\ UNCHANGED <<chats, codes>>

\* 'purge-space' makes the relay drop what its mailboxes hold of the group,
\* the records for members who are away included.
Purged == SUBSET syncs

\* The tombstone lists nobody.  The owner's own copy stays, dissolved.
Dissolve ==
    /\ has[Owner]
    /\ Act
    /\ rev' = [rev EXCEPT ![Owner] = @ + 1]
    /\ dissolved' = [dissolved EXCEPT ![Owner] = TRUE]
    /\ \E gone \in Purged :
          syncs' = (syncs \ gone) \cup
              To(Owner, Delivery(Owner),
                 [NextOf(Owner) EXCEPT !.members = {}, !.admins = {},
                                       !.deleted = TRUE])
    /\ UNCHANGED <<has, name, members, admins, removed, heard, chats, codes,
                   wishes>>

-----------------------------------------------------------------------------
(* Pushing the record without editing it: to a member who comes online, and *)
(* the owner's round to everybody a little after start.  Bound: not while   *)
(* an earlier push is under way.                                            *)

Discover(d, e) ==
    /\ has[d] /\ e # d
    /\ e \in members[d] \cup {Owner}
    /\ \A m \in syncs : ~(m.from = d /\ m.to = e)
    /\ IF d = Owner THEN UNCHANGED acts ELSE Act
    /\ syncs' = syncs \cup To(d, {e}, Copy(d))
    /\ UNCHANGED <<copy, heard, chats, codes, wishes>>

HealGroups ==
    /\ has[Owner] /\ ~dissolved[Owner]
    /\ \A m \in syncs : m.from # Owner
    /\ syncs' = syncs \cup Broadcast(Owner, Copy(Owner))
    /\ UNCHANGED <<copy, heard, chats, codes, acts, wishes>>

Lose(m) ==
    /\ Act
    /\ syncs' = syncs \ {m}
    /\ UNCHANGED <<copy, heard, chats, codes, wishes>>

-----------------------------------------------------------------------------
(* Receiving.  upsertSharedSpace: a record of a newer revision replaces, an *)
(* older or equal one is united with what is here; whoever either side      *)
(* knows to be removed is taken out of the result.                          *)

Newer(d, rec) == rec.rev > rev[d]
Gone(d, rec) == removed[d] \cup rec.removed

\* Mutant of Merged: only the incoming record's removals are taken out.
MergedUnfiltered(d, rec) ==
    (IF Newer(d, rec) THEN rec.members
     ELSE members[d] \cup rec.members \cup {Owner}) \ rec.removed

Merged(d, rec) ==
    (IF Newer(d, rec) THEN rec.members
     ELSE members[d] \cup rec.members \cup {Owner}) \ Gone(d, rec)

\* Mutant of Upsert: the end of the group is left to the tombstone alone.
UpsertKeepsGroup(d, rec) ==
    /\ has[d]
    /\ rev' = [rev EXCEPT ![d] = IF Newer(d, rec) THEN rec.rev ELSE @]
    /\ name' = [name EXCEPT ![d] = rec.name]
    /\ members' = [members EXCEPT ![d] = Merged(d, rec)]
    /\ admins' = [admins EXCEPT ![d] = IF Newer(d, rec) THEN rec.admins
                                       ELSE @ \cup rec.admins]
    /\ removed' = [removed EXCEPT ![d] = Gone(d, rec)]
    /\ UNCHANGED <<has, dissolved>>

Upsert(d, rec) ==
    /\ has[d]
    /\ rev' = [rev EXCEPT ![d] = IF Newer(d, rec) THEN rec.rev ELSE @]
    /\ name' = [name EXCEPT ![d] = rec.name]
    /\ members' = [members EXCEPT ![d] = Merged(d, rec)]
    /\ admins' = [admins EXCEPT ![d] = IF Newer(d, rec) THEN rec.admins
                                       ELSE @ \cup rec.admins]
    /\ removed' = [removed EXCEPT ![d] = Gone(d, rec)]
    /\ dissolved' = [dissolved EXCEPT ![d] = @ \/ rec.dissolved]
    /\ UNCHANGED has

FirstSight(d, rec) ==
    /\ ~has[d]
    /\ has' = [has EXCEPT ![d] = TRUE]
    /\ rev' = [rev EXCEPT ![d] = rec.rev]
    /\ name' = [name EXCEPT ![d] = rec.name]
    /\ members' = [members EXCEPT ![d] = rec.members \ rec.removed]
    /\ admins' = [admins EXCEPT ![d] = rec.admins]
    /\ removed' = [removed EXCEPT ![d] = rec.removed]
    /\ dissolved' = [dissolved EXCEPT ![d] = rec.dissolved]

Taken(d, rec) ==
    /\ IF Includes(rec, d) THEN Upsert(d, rec) \/ FirstSight(d, rec)
                           ELSE UNCHANGED copy
    /\ UNCHANGED wishes

(* handleSpaceSyncMessage.  A record of a group this device holds is taken  *)
(* from the owner alone.                                                    *)

Authorized(m) == has[m.to] => m.from = Owner

RefuseSync(m) ==
    /\ ~Authorized(m)
    /\ syncs' = syncs \ {m}
    /\ UNCHANGED <<copy, heard, wishes>>

\* handleSpaceRemoval: a newer record that leaves this device out.
RemovedHere(m) ==
    /\ Authorized(m) /\ has[m.to]
    /\ Newer(m.to, m.rec) /\ ~m.rec.deleted /\ ~Includes(m.rec, m.to)
    /\ syncs' = syncs \ {m}
    /\ Dropped(m.to)
    /\ UNCHANGED left

\* ... and the tombstone, which is also relayed to the relay as a purge.
DissolvedHere(m) ==
    /\ Authorized(m) /\ has[m.to]
    /\ Newer(m.to, m.rec) /\ m.rec.deleted
    /\ rev' = [rev EXCEPT ![m.to] = m.rec.rev]
    /\ dissolved' = [dissolved EXCEPT ![m.to] = TRUE]
    /\ \E gone \in Purged : syncs' = syncs \ (gone \cup {m})
    /\ UNCHANGED <<has, name, members, admins, removed, heard, wishes>>

TakeSync(m) ==
    /\ Authorized(m)
    /\ has[m.to] /\ Newer(m.to, m.rec)
          => ~m.rec.deleted /\ Includes(m.rec, m.to)
    /\ Taken(m.to, m.rec)
    /\ syncs' = syncs \ {m}
    /\ UNCHANGED heard

ReceiveSync(m) ==
    /\ RefuseSync(m) \/ RemovedHere(m) \/ DissolvedHere(m) \/ TakeSync(m)
    /\ UNCHANGED <<chats, codes, acts>>

-----------------------------------------------------------------------------
(* Messages in the group carry the sender's name for it and its roster, and *)
(* go through the same upsert, at revision 0 and from anybody.              *)

SendChat(d) ==
    /\ has[d] /\ ~dissolved[d]
    /\ Act
    /\ chats' = chats \cup To(d, Delivery(d), RosterOf(d))
    /\ UNCHANGED <<copy, heard, syncs, codes, wishes>>

ReceiveChat(m) ==
    /\ Taken(m.to, m.rec)
    /\ heard' = [heard EXCEPT ![m.to] = @ \cup {m.from}]
    /\ chats' = chats \ {m}
    /\ UNCHANGED <<syncs, codes, acts>>

-----------------------------------------------------------------------------
(* Invite codes, passed by hand and redeemed at any later time.  A code     *)
(* carries the maker's record without its `removed` list.  Bound: one code. *)

MakeCode(d) ==
    /\ has[d]
    /\ codes = {}
    /\ codes' =
          {[Copy(d) EXCEPT !.members = @ \cup {d}, !.removed = {},
                           !.dissolved = FALSE]}
    /\ UNCHANGED <<copy, heard, syncs, chats, acts, wishes>>

RedeemedBy(d, code) ==
    [code EXCEPT !.members = @ \cup {d},
                 !.rev = IF d = Owner THEN @ + 1 ELSE @]

\* Only the owner's redemption takes a revision and is pushed.
Redeem(d, code) ==
    /\ Act
    /\ Upsert(d, RedeemedBy(d, code)) \/ FirstSight(d, RedeemedBy(d, code))
    /\ syncs' = IF d = Owner THEN syncs \cup Broadcast(d, Copy(d)')
                             ELSE syncs
    /\ left' = left \ {d}
    /\ UNCHANGED <<heard, chats, codes, picked>>

-----------------------------------------------------------------------------
Next ==
    \/ \E d \in Device : \/ EditDetails(d) \/ SaveDetails(d) \/ Leave(d)
                         \/ SendChat(d) \/ MakeCode(d)
    \/ \E d, k \in Device : \/ AddMember(d, k) \/ RemoveMember(d, k)
                            \/ Discover(d, k)
    \/ \E k \in Device : ToggleAdmin(k)
    \/ \E d \in Device : \E list \in SUBSET (Device \ {d}) : SaveMembers(d, list)
    \/ \E d \in Device : \E code \in codes : Redeem(d, code)
    \/ Dissolve
    \/ HealGroups
    \/ \E m \in syncs : ReceiveSync(m) \/ Lose(m)
    \/ \E m \in chats : ReceiveChat(m)

Spec == Init /\ [][Next]_vars

(* The owner's device meets each member again and again (every presence     *)
(* table that shows them online pushes the record), and a record that is    *)
(* not lost is handled.                                                     *)
Fairness ==
    /\ \A d \in Device : WF_vars(Discover(Owner, d))
    /\ \A d \in Device :
          WF_vars(\E m \in syncs :
                      m.from = Owner /\ m.to = d /\ ReceiveSync(m))

FairSpec == Spec /\ Fairness

-----------------------------------------------------------------------------
(* Properties *)

\* Every variable has its type; in no copy, record or code is the owner among
\* the removed, whoever made it out of what (removeMemberFromActiveSpace).
TypeOK ==
    /\ has \in [Device -> BOOLEAN]
    /\ rev \in [Device -> Nat]
    /\ name \in [Device -> Nat]
    /\ members \in [Device -> SUBSET Device]
    /\ admins \in [Device -> SUBSET Device]
    /\ removed \in [Device -> SUBSET (Device \ {Owner})]
    /\ dissolved \in [Device -> BOOLEAN]
    /\ heard \in [Device -> SUBSET Device]
    /\ syncs \subseteq Letter
    /\ chats \subseteq Letter
    /\ codes \subseteq Record
    /\ acts \in 0..MaxActs
    /\ picked \in [Device -> SUBSET Device]
    /\ left \subseteq Device

\* A removal wins over whatever arrives afterwards, in whatever order: no
\* record, message or code puts a member back into the roster of a device that
\* knows it removed.  Only somebody picking it on that very device does
\* (upsertSharedSpace: "A removal has to win over the union, whatever order
\* the records arrive in").
RemovedStayOut ==
    \A d \in Device : members[d] \cap removed[d] \subseteq picked[d]

\* Nobody's copy of the group is taken away unless its holder left or it takes
\* in a record of the owner's that names the holder as removed: a member the
\* owner has merely never heard of (it joined by a code another member made)
\* keeps the group through every edit of the owner's.
DroppedOnlyIfRemoved ==
    [][\A d \in Device :
          has[d] /\ ~has'[d] =>
              \/ Leave(d)
              \/ \E m \in syncs \ syncs' : m.from = Owner /\ m.to = d
                                            /\ d \in m.rec.removed]_vars

\* Once the acts are over, every member the owner lists, but for one who left on
\* its own and was not asked back, comes to hold a copy no older than the
\* owner's, knows every removal and the end of the group, and lists nobody the
\* owner removed and has not added again - whatever was lost, overtaken, joined
\* by code, edited aside by an admin or purged from the relay on the way.
OwnersWordArrives ==
    \A d \in Device \ {Owner} :
        <>[](has[Owner] /\ d \in members[Owner] \ left =>
                /\ has[d]
                /\ rev[d] >= rev[Owner]
                /\ removed[Owner] \subseteq removed[d]
                /\ members[d] \cap (removed[Owner] \ members[Owner]) = {}
                /\ dissolved[Owner] => dissolved[d])

=============================================================================
