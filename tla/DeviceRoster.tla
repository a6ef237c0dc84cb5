----------------------------- MODULE DeviceRoster -----------------------------
(***************************************************************************)
(* Which devices belong to an account and which one is its primary: the    *)
(* roster each device keeps (js/chat/58-device-roster.js) and the one its  *)
(* relay keeps and enforces (scripts/server.js).                           *)
(*                                                                         *)
(* A roster is signed by a device key; the next one must be signed by the  *)
(* primary the last one names.  Signatures are not modelled: `signer` says *)
(* whose key signed, and every roster that exists was made by an action    *)
(* below.  Checking one and signing one each take a wait, in which other   *)
(* things happen: a device may check several at once, and they end in any  *)
(* order (two checks of one roster over the same roster count as one).     *)
(*                                                                         *)
(* What a device sends on a live connection reaches the relay at once (the *)
(* delay is on the way back, which loses no order of events); what the     *)
(* relay sends is read later, in order.  What siblings seal to each other  *)
(* keeps no order, because the relay delivers it at once to those it       *)
(* reaches and holds a copy for the others, who fetch it later.            *)
(***************************************************************************)
EXTENDS Naturals, Sequences

CONSTANTS
    Device,       \* devices that hold the account's identity key
    Generated,    \* those that made it: they found the roster by themselves
    Claimers,     \* those whose user asks for the primary role
    MaxDrops,     \* bound: connections lost
    MaxRevokes,   \* bound: devices revoked by a primary
    MaxHandOvers, \* bound: hand-overs asked for
    MaxLeaves     \* bound: devices leaving on their own

Nobody == "nobody"

ASSUME RosterAssumption ==
    /\ Generated \subseteq Device /\ Claimers \subseteq Device
    /\ Nobody \notin Device
    /\ MaxDrops \in Nat /\ MaxRevokes \in Nat
    /\ MaxHandOvers \in Nat /\ MaxLeaves \in Nat

VARIABLES
    roster,    \* roster[d]: the roster d keeps
    member,    \* member[d]: d has the account; FALSE once it removed it
    founding,  \* founding[d]: d founded and was not answered yet
    edits,     \* edits[d]: pendingEdits, while the publish timer runs
    checking,  \* checking[d]: rosters whose signatures d checks, each with
               \* the roster that was read before it
    signing,   \* signing[d]: rosters d signs, each with the one it was made
               \* from, a dialog before it included
    introduced,\* introduced[d]: d introduced itself to the primary lately
    socket,    \* socket[d]: d's connection, as the relay sees it
    in,        \* in[d]: messages from the relay on it, still to be read
    mail,      \* mail[d]: sealed bundles from siblings, still to be read
    relay,     \* the roster the relay stores
    \* Observed, and read by no action: whether a device has founded a roster,
    \* what crossed a wait, and who stored an older roster over a newer one
    \* and did not connect since.
    begun, crossed, behind,
    drops, revokes, handOvers, leaves  \* how much of each bound is used

local  == <<roster, member, founding, edits, checking, signing, introduced>>
wires  == <<socket, in, mail>>
ghosts == <<begun, crossed, behind>>
bounds == <<drops, revokes, handOvers, leaves>>
vars   == <<roster, member, founding, edits, checking, signing, introduced,
            socket, in, mail, relay, begun, crossed, behind,
            drops, revokes, handOvers, leaves>>

\* No device that is gone is listed, or the primary: everybody refuses a
\* roster whose primary is among the revoked.
Roster ==
    {r \in [seq : Nat, primary : Device \cup {Nobody},
            signer : Device \cup {Nobody},
            members : SUBSET Device, revoked : SUBSET Device] :
       r.primary \notin r.revoked /\ r.members \cap r.revoked = {}}

\* No roster, stored or sent.
NoRoster ==
    [seq |-> 0, primary |-> Nobody, signer |-> Nobody,
     members |-> {}, revoked |-> {}]

\* "shut": proven, found revoked, told so, and about to be closed.  "dead":
\* broken, which the device has not noticed: what arrived is read, what it
\* sends goes nowhere.
Socket == {"off", "on", "shut", "dead"}

Message ==
    [type : {"roster", "refused", "stored", "revoked"}, roster : Roster]
Say(type, r) == [type |-> type, roster |-> r]

\* A sealed bundle: a roster, an introduction or a farewell of its sender.
Bundle == [type : {"roster", "intro", "left"}, roster : Roster, sender : Device]

Check   == [next : Roster, over : Roster]
Signing == [roster : Roster, over : Roster]

\* "signed": a roster was published that was made from one no longer held;
\* "founded": a second one was founded; "stored": one was stored that does
\* not follow the one it replaced.
Crossing == {"signed", "founded", "stored"}

\* "say": sign the roster anew, as it is.
Edit == [kind : {"add", "drop", "say"}, of : Device]

-----------------------------------------------------------------------------
(***************************************************************************)
(* Parts of the handlers.                                                  *)
(***************************************************************************)

\* rosterMayFollow, of a roster that is well formed.
MayFollow(next, current) ==
    /\ next.seq > 0
    /\ IF current.seq = 0
       THEN next.signer = next.primary
       ELSE next.seq > current.seq /\ next.signer = current.primary

IsPrimary(d) == roster[d].primary = d

\* rosterRefusal, at the relay.
Refused(next) == ~MayFollow(next, relay)

\* maybeIntroduceDevice has something to say.
Unlisted(d, r) == r.seq > 0 /\ d \notin r.members \cup r.revoked
Introduces(d, r) ==
    Unlisted(d, r) /\ r.primary # d /\ socket[d] # "off" /\ ~introduced[d]

\* The edits a device starts on taking a roster: handed the role, it says so
\* in a roster it signs itself.
Started(d, r, took) ==
    {e \in {[kind |-> "say", of |-> d]} :
       took /\ r.primary = d /\ r.signer # d}
    \cup {e \in {[kind |-> "add", of |-> d]} : Unlisted(d, r) /\ r.primary = d}

(***************************************************************************)
(* The relay takes what d sends: roster r, NoRoster if none, and bundles   *)
(* for the siblings.  `inbox` and `box` are what was still to be read.     *)
(***************************************************************************)
Sends(d, r, bundles, inbox, box) ==
    LET put      == socket[d] = "on" /\ r.seq > 0
        stores   == put /\ ~Refused(r)
        inForce  == IF stores THEN r ELSE relay
        shut(x)  == stores /\ x \in r.revoked /\ socket[x] = "on"
        \* enforceRoster, the broadcast of a roster just stored, and the
        \* answer to the sender where it changes anything.
        reply(x) ==
          CASE shut(x) -> <<Say("revoked", r)>>
            [] stores /\ ~shut(x) /\ x # d /\ socket[x] = "on" -> <<Say("roster", r)>>
            [] stores /\ ~shut(x) /\ x = d /\ founding'[x] -> <<Say("stored", NoRoster)>>
            [] put /\ ~stores /\ x = d -> <<Say("refused", relay)>>
            [] OTHER -> <<>>
        \* A connected sibling was just sent a roster that was stored, and
        \* reads at once, for nothing, what only the primary uses.
        of(x) == {b \in bundles :
          socket[x] # "on" \/ (IF b.type = "roster" THEN ~stores ELSE IsPrimary(x))}
    IN
    /\ relay' = inForce
    /\ socket' = [x \in Device |-> IF shut(x) THEN "shut" ELSE socket[x]]
    /\ in' = [x \in Device |-> inbox[x] \o reply(x)]
    /\ mail' = [x \in Device |->
         IF x \in inForce.revoked THEN {}
         ELSE IF socket[d] = "on" /\ x # d THEN box[x] \cup of(x) ELSE box[x]]

Sealed(d, type, r) == [type |-> type, roster |-> r, sender |-> d]

\* publishRoster: kept, given to the relay and sealed to every sibling.
Publishes(d, r, inbox) ==
    /\ roster' = [roster EXCEPT ![d] = r]
    /\ Sends(d, r, {Sealed(d, "roster", r)}, inbox, mail)

\* leaveAccount: the account is removed from the device.
Removed(d) ==
    /\ member' = [member EXCEPT ![d] = FALSE]
    /\ roster' = [roster EXCEPT ![d] = NoRoster]
    /\ edits' = [edits EXCEPT ![d] = {}]
    /\ checking' = [checking EXCEPT ![d] = {}]
    /\ signing' = [signing EXCEPT ![d] = {}]
    /\ introduced' = [introduced EXCEPT ![d] = FALSE]
    /\ socket' = [socket EXCEPT ![d] = "off"]
    /\ in' = [in EXCEPT ![d] = <<>>]

\* The device goes on with roster r, putting `put` to the relay and, if it is
\* not listed, introducing itself.
GoesOn(d, r, took, put, inbox, box) ==
    /\ roster' = [roster EXCEPT ![d] = r]
    /\ edits' = [edits EXCEPT ![d] = @ \cup Started(d, r, took)]
    /\ introduced' = [introduced EXCEPT ![d] = @ \/ Introduces(d, r)]
    /\ Sends(d, put, {b \in {Sealed(d, "intro", NoRoster)} : Introduces(d, r)},
             inbox, box)
    /\ UNCHANGED member

\* Nothing comes of what was read but the roster.
Keeps(d, r, inbox, box) ==
    /\ roster' = [roster EXCEPT ![d] = r]
    /\ in' = inbox /\ mail' = box
    /\ UNCHANGED <<member, edits, introduced, socket, relay>>

\* adoptRoster up to its wait, by a device whose roster is `mine`: what it
\* will be held against is read now, so one that cannot follow it is dropped.
Begins(d, mine, next, inbox, box) ==
    /\ checking' = [checking EXCEPT ![d] = @ \cup
         {c \in {[next |-> next, over |-> mine]} : MayFollow(next, mine)}]
    /\ Keeps(d, mine, inbox, box)
    /\ UNCHANGED signing

\* foundRoster, editRoster or a hand-over up to the signature.
Signs(d, r, over) ==
    signing' = [signing EXCEPT ![d] = @ \cup {[roster |-> r, over |-> over]}]

Founded(d) ==
    [seq |-> 1, primary |-> d, signer |-> d, members |-> {d}, revoked |-> {}]

Init ==
    /\ roster = [d \in Device |-> NoRoster]
    /\ member = [d \in Device |-> TRUE]
    /\ founding = [d \in Device |-> FALSE]
    /\ edits = [d \in Device |-> {}]
    /\ checking = [d \in Device |-> {}]
    /\ signing = [d \in Device |-> {}]
    /\ introduced = [d \in Device |-> FALSE]
    /\ socket = [d \in Device |-> "off"]
    /\ in = [d \in Device |-> <<>>]
    /\ mail = [d \in Device |-> {}]
    /\ relay = NoRoster
    /\ begun = FALSE /\ crossed = {} /\ behind = {}
    /\ drops = 0 /\ revokes = 0 /\ handOvers = 0 /\ leaves = 0

-----------------------------------------------------------------------------
(***************************************************************************)
(* The connection.                                                         *)
(***************************************************************************)

\* A device proves the account's identity.  One the stored roster revokes is
\* told so and shut out; any other is told which roster the relay has.
Connect(d) ==
    LET revoked == d \in relay.revoked IN
    /\ member[d] /\ socket[d] = "off"
    /\ socket' = [socket EXCEPT ![d] = IF revoked THEN "shut" ELSE "on"]
    /\ in' = [in EXCEPT ![d] =
                <<Say(IF revoked THEN "revoked" ELSE "roster", relay)>>]
    /\ behind' = behind \ {d}
    /\ UNCHANGED <<local, mail, relay, begun, crossed, bounds>>

\* The connection breaks.
Drop(d) ==
    /\ socket[d] = "on" /\ drops < MaxDrops
    /\ drops' = drops + 1
    /\ socket' = [socket EXCEPT ![d] = "dead"]
    /\ UNCHANGED <<local, in, mail, relay, ghosts, revokes, handOvers, leaves>>

\* The device notices, or its app is started again and forgets what it had
\* not stored; or the relay closes the socket of a device it shut out.
Closes(d, restart) ==
    /\ \/ socket[d] = "dead"
       \/ socket[d] = "shut" /\ in[d] = <<>> /\ ~restart
    /\ socket' = [socket EXCEPT ![d] = "off"]
    /\ in' = [in EXCEPT ![d] = <<>>]
    /\ IF restart
       THEN /\ founding' = [founding EXCEPT ![d] = FALSE]
            /\ edits' = [edits EXCEPT ![d] = {}]
            /\ checking' = [checking EXCEPT ![d] = {}]
            /\ signing' = [signing EXCEPT ![d] = {}]
            /\ introduced' = [introduced EXCEPT ![d] = FALSE]
       ELSE UNCHANGED <<founding, edits, checking, signing, introduced>>
    /\ UNCHANGED <<roster, member, mail, relay, ghosts, bounds>>

-----------------------------------------------------------------------------
(***************************************************************************)
(* A device hears from the relay.                                          *)
(***************************************************************************)
Heard(d, type) == in[d] # <<>> /\ Head(in[d]).type = type
Rest(d) == [in EXCEPT ![d] = Tail(@)]

\* Mutant of Older: a relay that missed a roster is not given it.
NeverOlder(next, mine) == FALSE
Older(next, mine) == next.seq < mine.seq

\* handleRelayRoster: the newer of the two rosters goes to the other side,
\* and with none on either the device that made the identity founds one.
HearsRoster(d) ==
    LET next == Head(in[d]).roster
        mine == roster[d]
        founds == /\ next.seq = 0 /\ mine.seq = 0
                  /\ d \in Generated /\ ~founding[d] IN
    /\ Heard(d, "roster")
    /\ founding' = [founding EXCEPT ![d] = @ \/ founds]
    /\ \/ /\ next.seq > mine.seq /\ MayFollow(next, mine)
          /\ Begins(d, mine, next, Rest(d), mail)
       \/ /\ next.seq > mine.seq /\ ~MayFollow(next, mine)
          /\ GoesOn(d, mine, FALSE, NoRoster, Rest(d), mail)
          /\ UNCHANGED <<checking, signing>>
       \/ /\ Older(next, mine)
          /\ GoesOn(d, mine, FALSE, mine, Rest(d), mail)
          /\ UNCHANGED <<checking, signing>>
       \/ /\ next.seq <= mine.seq /\ ~Older(next, mine) /\ ~founds
          /\ GoesOn(d, mine, FALSE, NoRoster, Rest(d), mail)
          /\ UNCHANGED <<checking, signing>>
       \/ /\ founds
          /\ Signs(d, Founded(d), NoRoster)
          /\ Keeps(d, mine, Rest(d), mail)
          /\ UNCHANGED checking
    /\ UNCHANGED <<ghosts, bounds>>

\* handleRosterRefused: a device that just founded gives way to the roster
\* that got there first; any other takes what follows from its own.
Yields(d, next) ==
    next.seq > 0 /\ roster[d].seq = 1 /\ founding[d] /\ IsPrimary(d)

HearsRefusal(d) ==
    LET next == Head(in[d]).roster IN
    /\ Heard(d, "refused")
    /\ founding' = [founding EXCEPT ![d] = @ /\ ~Yields(d, next)]
    /\ Begins(d, IF Yields(d, next) THEN NoRoster ELSE roster[d], next,
              Rest(d), mail)
    /\ UNCHANGED <<ghosts, bounds>>

\* handleRosterStored.
HearsStored(d) ==
    /\ Heard(d, "stored")
    /\ founding' = [founding EXCEPT ![d] = FALSE]
    /\ Keeps(d, roster[d], Rest(d), mail)
    /\ UNCHANGED <<checking, signing, ghosts, bounds>>

\* handleDeviceRevokedNotice: obeyed only with a roster taken by the rules
\* any roster is, or already held.
HearsRevoked(d) ==
    LET next == Head(in[d]).roster IN
    /\ Heard(d, "revoked")
    /\ \/ next = roster[d] /\ Removed(d) /\ UNCHANGED <<mail, relay>>
       \/ next # roster[d] /\ Begins(d, roster[d], next, Rest(d), mail)
    /\ UNCHANGED <<founding, ghosts, bounds>>

(***************************************************************************)
(* A device hears from its siblings (handleRosterBundle).                  *)
(***************************************************************************)
Asks(d, kind, x) ==
    edits' = [edits EXCEPT ![d] = @ \cup {[kind |-> kind, of |-> x]}]

ReadsMail(d, b) ==
    LET box == [mail EXCEPT ![d] = @ \ {b}]
        heard == b.sender \notin roster[d].revoked
        acts == heard /\ b.type # "roster" /\ IsPrimary(d) IN
    /\ socket[d] = "on" /\ b \in mail[d]
    /\ \/ /\ heard /\ b.type = "roster"
          /\ Begins(d, roster[d], b.roster, in, box)
       \/ /\ acts
          /\ Asks(d, IF b.type = "intro" THEN "add" ELSE "drop", b.sender)
          /\ mail' = box
          /\ UNCHANGED <<roster, member, checking, signing, introduced,
                         socket, in, relay>>
       \/ /\ ~acts /\ ~(heard /\ b.type = "roster")
          /\ Keeps(d, roster[d], in, box)
          /\ UNCHANGED <<checking, signing>>
    /\ UNCHANGED <<founding, ghosts, bounds>>

(***************************************************************************)
(* The wait of adoptRoster ends.  The roster is stored over whatever the   *)
(* device holds by then.  Revoked by it, the device removes the account,   *)
(* or asks first if it knew no roster when it began.                       *)
(***************************************************************************)
Stale(d, next) == next # roster[d] /\ ~MayFollow(next, roster[d])

Checked(d, c) ==
    LET next  == c.next
        stale == Stale(d, next) /\ member'[d] IN
    /\ c \in checking[d]
    /\ \/ /\ d \notin next.revoked
          /\ GoesOn(d, next, TRUE, NoRoster, in, mail)
       \/ d \in next.revoked /\ Removed(d) /\ UNCHANGED <<mail, relay>>
       \/ /\ d \in next.revoked /\ c.over.seq = 0
          /\ Keeps(d, next, in, mail)
    /\ member'[d] => /\ checking' = [checking EXCEPT ![d] = @ \ {c}]
                     /\ UNCHANGED signing
    /\ behind' = behind \cup {x \in {d} : stale}
    /\ crossed' = crossed \cup {k \in {"stored"} : stale}
    /\ UNCHANGED <<founding, begun, bounds>>

-----------------------------------------------------------------------------
(***************************************************************************)
(* What the primary, or its user, does.                                    *)
(***************************************************************************)

\* The gathered edits, applied and signed once.  Mutants: a device that is
\* revoked stays listed; the number is not raised.
EditedStillListed(d) ==
    LET r == roster[d]
        named(kind) == {x \in Device : [kind |-> kind, of |-> x] \in edits[d]} IN
    [seq |-> r.seq + 1, primary |-> r.primary, signer |-> d,
     members |-> r.members \cup named("add"),
     revoked |-> r.revoked \cup named("drop")]

EditedSameNumber(d) ==
    LET r == roster[d]
        named(kind) == {x \in Device : [kind |-> kind, of |-> x] \in edits[d]}
        revoked == r.revoked \cup named("drop") IN
    [seq |-> r.seq, primary |-> r.primary, signer |-> d,
     members |-> (r.members \cup named("add")) \ revoked, revoked |-> revoked]

Edited(d) ==
    LET r == roster[d]
        named(kind) == {x \in Device : [kind |-> kind, of |-> x] \in edits[d]}
        revoked == r.revoked \cup named("drop") IN
    [seq |-> r.seq + 1, primary |-> r.primary, signer |-> d,
     members |-> (r.members \cup named("add")) \ revoked, revoked |-> revoked]

\* The publish timer; who is primary is looked at again, before the wait.
EditTimer(d) ==
    LET next == Edited(d)
        changed == \/ \E e \in edits[d] : e.kind = "say"
                   \/ next.members # roster[d].members
                   \/ next.revoked # roster[d].revoked IN
    /\ edits[d] # {}
    /\ edits' = [edits EXCEPT ![d] = {}]
    /\ UNCHANGED <<roster, member, founding, checking, introduced, wires, relay,
                   ghosts, bounds>>
    /\ IF IsPrimary(d) /\ changed THEN Signs(d, next, roster[d])
       ELSE UNCHANGED signing

\* claimPrimaryDevice: the user is asked, on a device without a roster.
Claim(d) ==
    /\ d \in Claimers /\ member[d] /\ roster[d].seq = 0
    /\ Signs(d, Founded(d), NoRoster)
    /\ UNCHANGED <<roster, member, founding, edits, checking, introduced, wires,
                   relay, ghosts, bounds>>

\* revokeAccountDevice.
Revoke(d, x) ==
    /\ IsPrimary(d) /\ x \notin roster[d].revoked \cup {d}
    /\ revokes < MaxRevokes
    /\ revokes' = revokes + 1
    /\ Asks(d, "drop", x)
    /\ UNCHANGED <<roster, member, founding, checking, signing, introduced, wires,
                   relay, ghosts, drops, handOvers, leaves>>

\* The roster r, signed on by d and naming an heir.
HandedOver(d, r, heir) ==
    [seq |-> r.seq + 1, primary |-> heir, signer |-> d,
     members |-> r.members, revoked |-> r.revoked]

\* makeAccountDevicePrimary reads the roster, asks the user, and signs.
AskHandOver(d, heir) ==
    /\ IsPrimary(d) /\ heir \in roster[d].members \ {d}
    /\ handOvers < MaxHandOvers
    /\ handOvers' = handOvers + 1
    /\ Signs(d, HandedOver(d, roster[d], heir), roster[d])
    /\ UNCHANGED <<roster, member, founding, edits, checking, introduced, wires,
                   relay, ghosts, drops, revokes, leaves>>

\* The wait for a signature ends, and the roster is published, whatever the
\* device holds by then.
Published(d, s) ==
    /\ s \in signing[d]
    /\ signing' = [signing EXCEPT ![d] = @ \ {s}]
    /\ founding' = [founding EXCEPT ![d] = @ \/ s.over.seq = 0]
    /\ Publishes(d, s.roster, in)
    /\ begun' = (begun \/ s.over.seq = 0)
    /\ crossed' = crossed \cup {k \in {"signed"} : s.over # roster[d]}
                          \cup {k \in {"founded"} : begun /\ s.over.seq = 0}
    /\ UNCHANGED <<member, edits, checking, introduced, behind, bounds>>

\* detachThisDevice, of a device that is not the primary or has no heir: it
\* tells its siblings, if it is connected, and removes the account.
Leave(d) ==
    /\ member[d] /\ leaves < MaxLeaves
    /\ ~IsPrimary(d) \/ roster[d].members \subseteq {d}
    /\ leaves' = leaves + 1
    /\ Removed(d)
    /\ founding' = [founding EXCEPT ![d] = FALSE]
    /\ mail' = [x \in Device |->
         IF socket[d] # "on" THEN mail[x]
         ELSE IF x = d THEN {}
         ELSE IF socket[x] # "on" \/ IsPrimary(x)
         THEN mail[x] \cup {Sealed(d, "left", NoRoster)} ELSE mail[x]]
    /\ UNCHANGED <<relay, ghosts, drops, revokes, handOvers>>

-----------------------------------------------------------------------------
Hears(d) == HearsRoster(d) \/ HearsRefusal(d) \/ HearsStored(d) \/ HearsRevoked(d)

Next ==
    \E d \in Device :
      \/ Connect(d) \/ Drop(d) \/ \E restart \in BOOLEAN : Closes(d, restart)
      \/ Hears(d) \/ EditTimer(d) \/ Claim(d) \/ Leave(d)
      \/ \E c \in checking[d] : Checked(d, c)
      \/ \E s \in signing[d] : Published(d, s)
      \/ \E b \in mail[d] : ReadsMail(d, b)
      \/ \E x \in Device : Revoke(d, x) \/ AskHandOver(d, x)

Spec == Init /\ [][Next]_vars

\* An edit of the primary's: no dialog stands before its signature.
PublishesEdit(d) ==
    \E s \in signing[d] : s.over.seq > 0 /\ s.roster.primary = d /\ Published(d, s)

\* Devices connect again, sockets and timers are served, held mail is read,
\* and a signature is checked or made in the end.
Fairness ==
    \A d \in Device :
      /\ WF_vars(Connect(d) \/ \E restart \in BOOLEAN : Closes(d, restart))
      /\ WF_vars(Hears(d)) /\ WF_vars(EditTimer(d)) /\ WF_vars(PublishesEdit(d))
      /\ WF_vars(\E b \in mail[d] : ReadsMail(d, b))
      /\ WF_vars(\E c \in checking[d] : Checked(d, c))

FairSpec == Spec /\ Fairness

-----------------------------------------------------------------------------
TypeOK ==
    /\ roster \in [Device -> Roster]
    /\ member \in [Device -> BOOLEAN]
    /\ founding \in [Device -> BOOLEAN]
    /\ edits \in [Device -> SUBSET Edit]
    /\ checking \in [Device -> SUBSET Check]
    /\ signing \in [Device -> SUBSET Signing]
    /\ introduced \in [Device -> BOOLEAN]
    /\ socket \in [Device -> Socket]
    /\ in \in [Device -> Seq(Message)]
    /\ mail \in [Device -> SUBSET Bundle]
    /\ relay \in Roster
    /\ begun \in BOOLEAN /\ crossed \subseteq Crossing /\ behind \subseteq Device
    /\ drops \in Nat /\ revokes \in Nat /\ handOvers \in Nat /\ leaves \in Nat

\* No two devices both act as the primary.
OnePrimary ==
    \A d, e \in Device : IsPrimary(d) /\ IsPrimary(e) => d = e

\* The rosters kept anywhere are one history: two with one number are the
\* same, and a later one revokes whatever an earlier one did.
Kept == {roster[d] : d \in Device} \cup {relay}
OneHistory ==
    \A r, s \in Kept :
      /\ r.seq = s.seq => r = s
      /\ r.seq <= s.seq => r.revoked \subseteq s.revoked

\* One roster is in force, signed in one place, whatever is late, comes twice
\* or is lost: only a roster founded twice, one published over another than
\* it was made from, or one stored over a newer one can make it two.
OneLine == crossed = {} => OnePrimary /\ OneHistory

\* While the role was not handed over and its holder has the account, and no
\* roster was founded twice or published over another than it was made from,
\* every device that still has the account ends with the roster the relay
\* enforces; one that stored an older roster last, once it connected again.
AllAgree ==
    <>[](/\ \E p \in Device : member[p] /\ IsPrimary(p)
         /\ handOvers = 0 /\ crossed \cap {"signed", "founded"} = {})
      => <>[](\A d \in Device \ behind : member[d] => roster[d] = relay)
==============================================================================
