----------------------------- MODULE SiblingMail -----------------------------
(***************************************************************************)
(* What one device of an account leaves on the relay for the account's     *)
(* other devices (scripts/server.js, "Held for an absent sibling"): sealed *)
(* sync copies kept for exactly the devices that were away, handed over a  *)
(* batch at a time when each proves itself, forgotten when each has        *)
(* acknowledged, dropped oldest first when there is no room.  Which        *)
(* devices the account has is what their beacons say, and which of them    *)
(* are revoked is what the account's roster says.                          *)
(*                                                                         *)
(* Every device holds the account's key, so every device can prove itself; *)
(* each has one socket at a time.  A handler runs to completion.           *)
(***************************************************************************)
EXTENDS Naturals, FiniteSets

CONSTANTS
  Device,      \* the installs that hold the account's key
  MaxCopy,     \* BOUND: copies held in a behaviour
  MaxItems,    \* SIBLING_ACCOUNT_MAX_ITEMS, copies held at once
  Batch,       \* SIBLING_DELIVERY_BATCH
  MaxBeacons,  \* BEACON_MAX_DEVICES
  Env          \* what the environment does in this instance, see EnvEvents

EnvEvents == {"rehello", "restart", "eviction", "ageing", "sleep", "full",
              "purge", "roster"}

ASSUME SiblingMailAssumption ==
  /\ IsFiniteSet(Device)
  /\ MaxCopy \in Nat
  /\ MaxItems \in Nat \ {0}
  /\ Batch \in Nat \ {0}
  /\ MaxBeacons \in Nat \ {0}
  /\ Env \subseteq EnvEvents

(***************************************************************************)
(* A copy is its number: the n-th copy held is n, so the order of the      *)
(* numbers is the order of the account's list of items.                    *)
(***************************************************************************)
Copy == 1 .. MaxCopy

\* A sibling-held frame.
HeldFrame == [ids : SUBSET Copy, overflow : BOOLEAN]

VARIABLES
  \* the relay: the account's store, in memory and in its file
  last,        \* copies held so far
  pending,     \* item.pending: the devices a copy is kept for; {} is no item
  overflow,    \* store.overflow: devices some of whose copies were dropped
  file,        \* the pending lists in the account's file
  lapsed,      \* copies up to this one were older than SIBLING_TTL_MS
               \* when the file was last read
  \* the relay: the account's devices, written as they change
  beacons,     \* devices with a beacon
  revoked,     \* devices the stored roster revokes; {} without a roster
  \* the relay: sockets
  open,        \* sockets in presence with readyState OPEN
  proven,      \* records with identityVerified
  verified,    \* verifiedByFingerprint, its open sockets
  asleep,      \* sockets whose app is not awake (isAppAwake)
  \* frames between a device and the relay
  sending,     \* devices whose sibling-hold follows a live copy just read
  wire,        \* sibling-held frames on their way to a device
  acks,        \* sibling-ack frames on their way to the relay
  \* observation only
  got,         \* copies a device has received from the relay's store
  owed,        \* copies dropped for room of which a device was not told
  crossed,     \* those of owed whose mark an older batch may clear
  settled      \* copies a device has no claim to, see Settles

storeVars == <<last, pending, overflow, file, lapsed, owed, crossed, settled>>
accountVars == <<beacons, revoked>>
socketVars == <<open, proven, verified, asleep>>
frameVars == <<sending, wire, acks>>
vars == <<storeVars, accountVars, socketVars, frameVars, got>>

TypeOK ==
  /\ last \in 0 .. MaxCopy
  /\ pending \in [Copy -> SUBSET Device]
  /\ overflow \subseteq Device
  /\ file \in [Copy -> SUBSET Device]
  /\ lapsed \in 0 .. last
  /\ beacons \subseteq Device
  /\ revoked \subseteq Device
  /\ open \subseteq Device
  /\ proven \subseteq verified
  /\ verified \subseteq open
  /\ asleep \subseteq open
  /\ sending \subseteq open
  /\ wire \in [Device -> SUBSET HeldFrame]
  /\ acks \in [Device -> SUBSET SUBSET Copy]
  /\ got \in [Device -> SUBSET Copy]
  /\ owed \in [Device -> SUBSET Copy]
  /\ crossed \in [Device -> SUBSET Copy]
  /\ settled \in [Device -> SUBSET Copy]

Nothing == [d \in Device |-> {}]
NoItems == [c \in Copy |-> {}]

Init ==
  /\ last = 0
  /\ pending = NoItems
  /\ overflow = {}
  /\ file = NoItems
  /\ lapsed = 0
  /\ beacons = {}
  /\ revoked = {}
  /\ open = {}
  /\ proven = {}
  /\ verified = {}
  /\ asleep = {}
  /\ sending = {}
  /\ wire = Nothing
  /\ acks = Nothing
  /\ got = Nothing
  /\ owed = Nothing
  /\ crossed = Nothing
  /\ settled = Nothing

-----------------------------------------------------------------------------
(* The store.                                                              *)

\* The copies kept for device d in store p.
Mine(p, d) == {c \in Copy : d \in p[c]}

\* The items of store p: a copy kept for nobody is no item.
Items(p) == {c \in Copy : p[c] # {}}

Oldest(S, n) == {c \in S : Cardinality({k \in S : k < c}) < n}
Newest(S, n) == {c \in S : Cardinality({k \in S : k > c}) < n}

\* Store p with the copies S no longer kept for device d.
Without(p, d, S) == [c \in Copy |-> IF c \in S THEN p[c] \ {d} ELSE p[c]]

\* saveSiblingHeld: memory and file become store p.
SaveSiblingHeld(p) == pending' = p /\ file' = p

\* loadSiblingHeld, B being the devices with a beacon: what outlived
\* SIBLING_TTL_MS goes, and so does whatever is kept for a device without a
\* beacon.  The file stays as it is.  Nothing else looks at the age of a
\* copy, so time passes here.
LoadSiblingHeld(B) ==
  /\ lapsed' \in lapsed .. last
  /\ lapsed' = lapsed \/ "ageing" \in Env
  /\ pending' = [c \in Copy |-> IF c > lapsed' THEN file[c] \cap B ELSE {}]

\* Observation: the devices in D have no claim any more to the copies of S,
\* because they were not away when the copies were held, or were forgotten,
\* or have been told that copies were dropped.
Settles(D, S) == settled' = [d \in Device |-> IF d \in D THEN settled[d] \cup S
                                                        ELSE settled[d]]

\* Observation: a reload has two reasons to let go of a copy, its age and
\* that the device has no beacon among B.
SettlesUnloaded(B) ==
  settled' = [d \in Device |-> settled[d] \cup (1 .. IF d \in B THEN lapsed' ELSE last)]

\* Observation: the copies of S were dropped for room from what was kept
\* under p.  A batch or an acknowledgement already under way to or from a
\* device knows nothing of it.
Drops(S, p) ==
  /\ owed' = [d \in Device |-> owed[d] \cup (S \cap Mine(p, d))]
  /\ crossed' = [d \in Device |-> IF wire[d] # {} \/ acks[d] # {}
                                 THEN crossed[d] \cup (S \cap Mine(p, d))
                                 ELSE crossed[d]]

\* f, a value per socket, with nothing at the sockets in D.
Cut(f, D) == [d \in Device |-> IF d \in D THEN {} ELSE f[d]]

\* forgetSiblingDevice, for every device of D: its beacon goes, and every
\* copy kept for it.  The store is written only when it held something.
ForgetSiblingDevices(D) ==
  LET heldForThem == (\E c \in Copy : pending[c] \cap D # {}) \/ overflow \cap D # {}
      left == [c \in Copy |-> pending[c] \ D]
  IN
  /\ beacons' = beacons \ D
  /\ \/ heldForThem /\ SaveSiblingHeld(left)
     \/ ~heldForThem /\ UNCHANGED <<pending, file>>
  /\ overflow' = overflow \ D
  /\ owed' = Cut(owed, D)
  /\ crossed' = Cut(crossed, D)
  /\ Settles(D, 1 .. last)

\* pumpSiblingHeld: the next batch of store p for device d, and whether
\* copies of its were dropped (o); w is what is already on the wires.
PumpSiblingHeld(d, p, o, w) ==
  LET mine == Mine(p, d)
      frame == [ids |-> Oldest(mine, Batch), overflow |-> d \in o]
  IN wire' = IF mine = {} /\ d \notin o THEN w
             ELSE [w EXCEPT ![d] = @ \cup {frame}]

-----------------------------------------------------------------------------
(* Sockets.  Every frame a page sends shows that its app is awake.         *)

Awake(d) == asleep' = asleep \ {d}

Connect(d) ==
  /\ d \notin open
  /\ open' = open \cup {d}
  /\ UNCHANGED <<storeVars, accountVars, proven, verified, asleep, frameVars, got>>

\* What goes with the sockets in D.
Closed(D) ==
  /\ open' = open \ D
  /\ sending' = sending \ D
  /\ acks' = Cut(acks, D)

\* Mutant of Disconnect: the index keeps the closed socket.
DisconnectLeavesIndex(d) ==
  /\ d \in open
  /\ Closed({d})
  /\ proven' = proven \ {d}
  /\ asleep' = asleep \ {d}
  /\ wire' = Cut(wire, {d})
  /\ UNCHANGED <<storeVars, accountVars, verified, got>>

\* The socket closes, is terminated or times out.
Disconnect(d) ==
  /\ d \in open
  /\ Closed({d})
  /\ proven' = proven \ {d}
  /\ verified' = verified \ {d}
  /\ asleep' = asleep \ {d}
  /\ wire' = Cut(wire, {d})
  /\ UNCHANGED <<storeVars, accountVars, got>>

\* A hello on a proven socket takes the proof back and leaves the index.
Rehello(d) ==
  /\ "rehello" \in Env
  /\ d \in proven
  /\ proven' = proven \ {d}
  /\ Awake(d)
  /\ UNCHANGED <<storeVars, accountVars, open, verified, frameVars, got>>

\* The app goes to the background, or its heartbeats stop.
Sleep(d) ==
  /\ "sleep" \in Env
  /\ d \in open \ asleep
  /\ asleep' = asleep \cup {d}
  /\ UNCHANGED <<storeVars, accountVars, open, proven, verified, frameVars, got>>

\* A heartbeat, or presence-state active.
Wake(d) ==
  /\ d \in asleep
  /\ Awake(d)
  /\ UNCHANGED <<storeVars, accountVars, open, proven, verified, frameVars, got>>

\* Mutant of RosterRevokes: the roster is not asked.
NobodyRevoked(d) == FALSE

\* rosterRevokes, asked when a device proves itself.
RosterRevokes(d) == d \in revoked

\* closeDuplicatePresenceRecords: the account's other unproven sockets.
Duplicates(d) == open \ (proven \cup {d})

\* The challenge is answered, as every device can.  A device the roster
\* revokes is shut out; any other is indexed, its unproven duplicates are
\* closed, and what is kept for it is pumped.
IdProof(d) ==
  /\ d \in open \ proven
  /\ \/ /\ RosterRevokes(d)
        /\ verified' = verified \ {d}
        /\ Awake(d)
        /\ UNCHANGED <<open, proven, frameVars>>
     \/ /\ ~RosterRevokes(d)
        /\ Closed(Duplicates(d))
        /\ proven' = proven \cup {d}
        /\ verified' = (verified \cup {d}) \ Duplicates(d)
        /\ asleep' = asleep \ ({d} \cup Duplicates(d))
        /\ PumpSiblingHeld(d, pending, overflow, Cut(wire, Duplicates(d)))
  /\ UNCHANGED <<storeVars, accountVars, got>>

-----------------------------------------------------------------------------
(* A device tells its siblings something: a live copy to those that are    *)
(* connected, then a frame asking the relay to keep one for the others.    *)

\* The live copy is read: it goes to every socket the account is routed to.
SendLive(d) ==
  /\ d \in open \ sending
  /\ last + Cardinality(sending) < MaxCopy
  /\ sending' = sending \cup {d}
  /\ Awake(d)
  /\ UNCHANGED <<storeVars, accountVars, open, proven, verified, wire, acks, got>>

\* liveSiblingDeviceIds: connected and awake.
LiveSiblings(d) == verified \ (asleep \ {d})

\* The devices a copy from d is kept for.
AbsentSiblings(d) == beacons \ ({d} \cup LiveSiblings(d))

\* Mutant of HoldFor: the store is changed in memory and not written.
HoldForUnsaved(D) ==
  LET n == last + 1
      held == [pending EXCEPT ![n] = D]
      dropped == Items(held) \ Newest(Items(held), MaxItems)
  IN
  /\ last' = n
  /\ pending' = [c \in Copy |-> IF c \in dropped THEN {} ELSE held[c]]
  /\ overflow' = overflow \cup UNION {held[c] : c \in dropped}
  /\ Drops(dropped, held)
  /\ Settles(Device \ D, {n})
  /\ UNCHANGED file

\* holdForAbsentSiblings for the devices D: a new item, and the oldest items
\* make room.
HoldFor(D) ==
  LET n == last + 1
      held == [pending EXCEPT ![n] = D]
      dropped == Items(held) \ Newest(Items(held), MaxItems)
  IN
  /\ last' = n
  /\ SaveSiblingHeld([c \in Copy |-> IF c \in dropped THEN {} ELSE held[c]])
  /\ overflow' = overflow \cup UNION {held[c] : c \in dropped}
  /\ Drops(dropped, held)
  /\ Settles(Device \ D, {n})

\* sibling-hold: refused without a proof; nothing is kept when everybody is
\* there, or when the whole relay is full (CHAT_SIBLING_MAX_BYTES).
SiblingHold(d) ==
  /\ d \in sending
  /\ sending' = sending \ {d}
  /\ Awake(d)
  /\ \/ /\ d \in proven
        /\ AbsentSiblings(d) # {}
        /\ HoldFor(AbsentSiblings(d))
        /\ UNCHANGED lapsed
     \/ /\ d \notin proven \/ AbsentSiblings(d) = {} \/ "full" \in Env
        /\ UNCHANGED storeVars
  /\ UNCHANGED <<accountVars, open, proven, verified, wire, acks, got>>

-----------------------------------------------------------------------------
(* A device collects what was kept for it.                                 *)

\* sibling-fetch, the person's "sync now".
SiblingFetch(d) ==
  /\ d \in proven
  /\ PumpSiblingHeld(d, pending, overflow, wire)
  /\ Awake(d)
  /\ UNCHANGED <<storeVars, accountVars, open, proven, verified, sending, acks, got>>

\* handleSiblingHeld: merges the copies, asks its siblings for what it missed
\* when it is told that copies were dropped, and acknowledges.
HandleSiblingHeld(d) ==
  \E f \in wire[d] :
    /\ wire' = [wire EXCEPT ![d] = @ \ {f}]
    /\ acks' = [acks EXCEPT ![d] = @ \cup {f.ids}]
    /\ got' = [got EXCEPT ![d] = @ \cup f.ids]
    /\ \/ /\ f.overflow
          /\ owed' = Cut(owed, {d})
          /\ crossed' = Cut(crossed, {d})
          /\ Settles({d}, owed[d])
       \/ ~f.overflow /\ UNCHANGED <<owed, crossed, settled>>
    /\ UNCHANGED <<last, pending, overflow, file, lapsed, accountVars, socketVars, sending>>

\* Mutant of AckSiblingHeld: the copies stay kept for the device.
AckKeepsItems(d, ids) == pending

\* ackSiblingHeld: the store after device d acknowledged ids.
AckSiblingHeld(d, ids) == Without(pending, d, ids)

\* sibling-ack: the copies are forgotten for this device, the mark that some
\* of its were dropped is cleared, and the next batch goes out.  The store is
\* written when that changed it.
SiblingAck(d) ==
  \E ids \in acks[d] :
    /\ acks' = [acks EXCEPT ![d] = @ \ {ids}]
    /\ Awake(d)
    /\ \/ /\ d \notin proven
          /\ UNCHANGED <<pending, file, overflow, wire>>
       \/ /\ d \in proven
          /\ overflow' = overflow \ {d}
          /\ \/ /\ d \in overflow \/ ids \cap Mine(pending, d) # {}
                /\ SaveSiblingHeld(AckSiblingHeld(d, ids))
             \/ /\ d \notin overflow /\ ids \cap Mine(pending, d) = {}
                /\ UNCHANGED <<pending, file>>
          /\ PumpSiblingHeld(d, pending', overflow', wire)
    /\ UNCHANGED <<last, lapsed, owed, crossed, settled, accountVars, open, proven,
                   verified, sending, got>>

-----------------------------------------------------------------------------
(* The account's devices.                                                  *)

\* beacon-put, for its own device: past the limit the oldest beacons go.
BeaconPut(d) ==
  /\ d \in proven
  /\ \E B \in SUBSET (beacons \cup {d}) :
       /\ d \in B
       /\ \/ B = beacons \cup {d} /\ Cardinality(B) <= MaxBeacons
          \/ /\ Cardinality(beacons \cup {d}) > MaxBeacons
             /\ Cardinality(B) = MaxBeacons
       /\ beacons' = B
  /\ Awake(d)
  /\ UNCHANGED <<storeVars, revoked, open, proven, verified, frameVars, got>>

\* beacon-drop: a device leaves the account.
BeaconDrop(d) ==
  /\ d \in proven
  /\ ForgetSiblingDevices({d})
  /\ Awake(d)
  /\ UNCHANGED <<last, lapsed, revoked, open, proven, verified, frameVars, got>>

\* roster-put from device d of a roster the relay accepts, which revokes D:
\* what the primary revoked stays revoked, and it never revokes itself.
\* enforceRoster forgets every revoked device and shuts out its socket.
RosterPut(d, D) ==
  /\ "roster" \in Env
  /\ d \in proven
  /\ revoked \subseteq D
  /\ D # revoked
  /\ D # Device
  /\ revoked' = D
  /\ ForgetSiblingDevices(D)
  /\ proven' = proven \ D
  /\ verified' = verified \ D
  /\ Awake(d)
  /\ UNCHANGED <<last, lapsed, open, frameVars, got>>

\* purge-me: the beacons and everything kept go, and the roster too when its
\* primary asks.
PurgeMe(d) ==
  /\ "purge" \in Env
  /\ d \in proven
  /\ beacons' = {}
  /\ SaveSiblingHeld(NoItems)
  /\ overflow' = {}
  /\ revoked' \in {revoked, {}}
  /\ owed' = Nothing
  /\ crossed' = Nothing
  /\ Settles(Device, 1 .. last)
  /\ Awake(d)
  /\ UNCHANGED <<last, lapsed, open, proven, verified, frameVars, got>>

-----------------------------------------------------------------------------
(* The cache and the process.                                              *)

\* Other accounts push this one out of siblingHeldCache, and the store is
\* read again from its file.
CacheEviction ==
  /\ "eviction" \in Env
  /\ LoadSiblingHeld(beacons)
  /\ SettlesUnloaded(beacons)
  /\ UNCHANGED <<last, overflow, file, owed, crossed, accountVars, socketVars, frameVars,
                 got>>

\* The process ends and another starts: beacons older than thirty days are
\* not loaded, the store is read from its file, nobody is connected.
Restart ==
  /\ "restart" \in Env
  /\ \E B \in SUBSET beacons :
       /\ B = beacons \/ "ageing" \in Env
       /\ beacons' = B
       /\ LoadSiblingHeld(B)
       /\ SettlesUnloaded(B)
  /\ open' = {}
  /\ proven' = {}
  /\ verified' = {}
  /\ asleep' = {}
  /\ sending' = {}
  /\ wire' = Nothing
  /\ acks' = Nothing
  /\ UNCHANGED <<last, overflow, file, owed, crossed, revoked, got>>

-----------------------------------------------------------------------------

DeviceNext(d) ==
  \/ Connect(d) \/ Disconnect(d) \/ Rehello(d) \/ Sleep(d) \/ Wake(d)
  \/ IdProof(d) \/ SendLive(d) \/ SiblingHold(d) \/ SiblingFetch(d)
  \/ HandleSiblingHeld(d) \/ SiblingAck(d)
  \/ BeaconPut(d) \/ BeaconDrop(d) \/ PurgeMe(d)
  \/ \E D \in SUBSET Device : RosterPut(d, D)

Next ==
  \/ \E d \in Device : DeviceNext(d)
  \/ CacheEviction
  \/ Restart

Spec == Init /\ [][Next]_vars

\* A connected device whose app is awake handles what it is sent, and the
\* relay reads its acknowledgements.
FairSpec ==
  Spec /\ \A d \in Device : /\ WF_vars(d \notin asleep /\ HandleSiblingHeld(d))
                            /\ WF_vars(SiblingAck(d))

-----------------------------------------------------------------------------
(* Properties.                                                             *)

\* A copy held for a device is never silently lost: it is still kept for
\* that device, or the device has it, or it was dropped for room and the
\* store still bears the mark that tells the device so, or the device has no
\* claim to it any more.  An acknowledgement of one device, a reload or a
\* revocation takes nothing from the others.  The mark is lost in one case,
\* which the property names: the copy was dropped while a batch or an
\* acknowledgement of the device was under way.
HeldIsAccounted ==
  \A d \in Device : \A c \in 1 .. last :
    \/ d \in pending[c]
    \/ c \in got[d]
    \/ c \in owed[d] /\ (d \in overflow \/ c \in crossed[d])
    \/ c \in settled[d]

\* A device the roster revokes is out: it is not proven, nothing is routed
\* to it, it has no beacon, and nothing is kept for it - whatever it was in
\* the middle of when the roster arrived, and whatever is reloaded later.
RevokedIsOut ==
  \A d \in revoked :
    /\ d \notin proven \cup verified \cup beacons \cup overflow
    /\ Mine(pending, d) = {}

\* Backlog in delivery is delivered: while a device stays proven and awake, a
\* batch or its acknowledgement on the way means that every copy kept for the
\* device leaves in the end, however many batches it takes.
BacklogDrains ==
  \A d \in Device : \A c \in Copy :
    <>[](d \in proven \ asleep) =>
      ((d \in proven \cap pending[c] /\ (wire[d] # {} \/ acks[d] # {}))
         ~> (d \notin pending[c]))

=============================================================================
