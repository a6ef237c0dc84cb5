# TLA+ verification of the P00RIJA chat

P00RIJA-CRYPTOGRAPHY is a privacy workbench and a chat that run in a browser,
and a relay in Node (`scripts/server.js`) that keeps mail for people who are
away, carries mail between relays and keeps the devices of one account in step.
The modules here model the relay's stateful core, the links between relays, and
the protocols the clients run over it: the outbox, the device roster, groups,
group calls, files and session keys. TLC checks them on small instances and
TLAPS proves the main safety properties for all values of the constants.

Line numbers below are of `src/scripts/server.js` unless a file is named;
client files are under `src/js/chat/` and named by their number.

## 1. Inventory of the system

| Component | State | Operations | What makes it correct |
|---|---|---|---|
| **Mailboxes** (`server.js` 9400-9830, 10800-11350) | `offlineBoxes` per account, its file, save timers, `sentMail` per connection, expiry log | envelope (queue, live), pump, `relay-ack`, `relay-withdraw`, purges, retention, operator actions, debounced save, stop | mail answered "queued" is never silently lost; handed over in order, what waited to owners only, past no window; memory and file differ only while a save is armed |
| **Sockets and identity proof** (10820-11010, 11250) | presence records, `identityVerified`, `verifiedByFingerprint` | connect, hello, id-proof, replacement of duplicates, close | no closed or unproven socket is ever in the index of verified ones |
| **Carrying between relays** (8180-8560, `scripts/lib/relay-transit.js`) | `transitWaiting`, parked envelopes, links | carry, park, result, sweep, link up and down | each envelope is answered once; "busy" means not carried |
| **Client outbox** (`40-route-finder.js`) | outbox of tagged frames | send, re-send with back-off, answer, silence, settle | "relayed" is shown only for mail some mailbox has |
| **Relay links** (`scripts/lib/relay-peers.js`, peers file in `server.js`) | `dialling`, redial timers, outbound and inbound links, `allowed`, `dialOrigins`, the file | dial, hello, proof, confirm, register, fall, heartbeat, allow, disallow, start-up | what the tables say is so; an allowed peer with an address goes on being dialled; the operator's list survives a restart |
| **Held sync copies and beacons** (8990-9400) | account store of copies, each with the devices it waits for; overflow marks; beacons; stored roster | `sibling-hold`, pump, `sibling-ack`, `sibling-fetch`, beacon put and drop, roster put, purge, reload | a copy is not lost towards any device without a trace; a revoked device is out of everything; a backlog drains |
| **Device roster** (`58-device-roster.js`, roster frames of `server.js`) | the roster of each device and of the relay, pending edits, signature checks and signatures under way, a hand-over asked among them | found, edit, publish, adopt, revoke, hand over, leave, reset | one primary, one line of rosters, and everybody ends with the relay's |
| **Groups** (`06-groups.js`, `11-group-permissions.js`, `19-forward-secrecy.js` 230-480) | each device's record of the group: members, admins, removed, revision | create, edit, add, remove, make admin, leave, dissolve, codes, merge, heal | a removal wins over any older record; only the owner's word drops a member; the owner's word arrives |
| **Group calls** (`12-group-call-mesh.js`, `16-group-call-signalling.js`) | call, roster, participants with their media connection, card, held signals, pair call | start, grow out of a pair, invite, accept, join, here, leave, dial, close, seat timer | who is in the call and was told of each other is connected; a live connection belongs to somebody |
| **Files** (`29-file-transfer.js`, `30-file-transfer-2.js`) | `outgoingFiles`, `incomingFiles`, status in the history | send over two roads, consent, chunks, resend requests, watchdog, receipt, second try | what is delivered is whole; no chunk before a yes; a transfer does not stay half received |
| **Live sessions** (`29-file-transfer.js` 2050-2400, `18-file-manager-2.js`) | `cryptoKey`, `keyReady`, `kexPrivate`, stored keys, timers | exchange, fallback keys, request, renegotiate, letters that borrow the session | both sides hold one key, and do again after anything that crossed |
| **Relay family** (`relay-directory.js`, `relay-partners.js`, `relay-front.js`) | signed documents by version | merge, publish | versions only grow; what is withdrawn is disallowed |
| **Push, self-destruct, uploads, monitor** | small stores with expiry | put, expire, read | nothing outlives its time |
| **Prekeys, data links, scheduled mail** (`19-`, `43-`, `47-*.js`) | local records | rotate, signal, send at a time | a private half is kept for each published prekey; no message is forgotten |
| **Local rooms, vault, crypto workbench, tools, shell, build** | forms and files | sequential | out of scope, see section 8 |

How they interact: a browser has one WebSocket to its relay. An envelope frame
goes live to the recipient's verified sockets, or to its mailbox when nobody is
there, or - for a contact whose home is another relay - over a link to that
relay, whose answer comes back the same way. A proof of identity triggers both
pumps, that of the mailbox and that of the held sync copies. Rosters and
beacons decide whom copies are held for. Two contacts also open a data channel
of their own; session keys, file chunks and call signals prefer it and fall
back on the relay, so what two devices tell each other travels on two roads
with no order between them. Group records, rosters and call signals travel as
sealed messages on those roads: the relay knows nothing of groups.

All handlers of the relay run to completion on one thread; what interleaves is
their order, the frames on the wires, the timers, the clock, the operator, and
the death of the process. In the client every `await` (a key pair, a microphone
prompt, a question to the user, a fetch) is a point where another handler runs.

The hard behaviours, each listed with its line under `hazards` in
`PROJECT.json`: two devices acknowledging the same mail; a pump that only an
acknowledgement resumes; a file that lags its memory by a debounce; a proof
taken back in the middle of a delivery; a result, a sweep, a park timer and the
fall of a link racing for the same envelope; one copy held for several devices;
two dials of one peer that cross an allow or a disallow; rosters that reach a
device by three roads, and are checked and signed over a wait; group records
edited apart and merged in any order; joins that arrive before the microphone
does; chunks, refusals and resend requests of two attempts on two roads; two key
exchanges of one side at once.

## 2. The modules

| Module | Models | Extended by |
|---|---|---|
| `Mailbox` | the mailbox of one account, its sockets, its file | `MCMailbox` (TLC), `MailboxProofs` |
| `Transit` | the client's outbox, the carrying relay, the links, the home relay | `MCTransit`, `TransitProofs` |
| `Courier` | what a sender may believe; the abstract specification of `Transit` | instantiated by `Transit` |
| `SiblingMail` | copies held for absent devices, beacons, revocation | `MCSiblingMail`, `SiblingMailProofs` |
| `RelayPeers` | the links of any number of relays and the operators' lists | `MCRelayPeers`, `RelayPeersProofs` |
| `DeviceRoster` | the roster of one account: its devices, its relay | `MCDeviceRoster`, `DeviceRosterProofs` |
| `GroupSpace` | one group on its members' devices | `MCGroupSpace`, `SpaceAndSessionProofs` |
| `GroupCall` | group calls among contacts | `MCGroupCall`, `GroupCallProofs` |
| `FileTransfer` | one file from one contact to another | `MCFileTransfer`, `FileTransferProofs` |
| `Parcel` | what two people may believe of a file; the abstract specification of `FileTransfer` | instantiated by `FileTransfer` |
| `SessionKeys` | the key of one live connection | `MCSessionKeys`, `SpaceAndSessionProofs` |

Composition. `Transit` composes sender, carrier, links and home relay and
instantiates `Courier` as what it implements; `FileTransfer` composes sender,
receiver and both roads and instantiates `Parcel` in the same way. The others
state what they take from a neighbour as an assumption of their environment that
is what the neighbour's own module shows: `FileTransfer` and `GroupSpace` are
given a relay that keeps mail in order and does not lose it (`Mailbox`), except
between relays, where `Transit` may give up, so a group record may be lost; the
set of revoked devices in `SiblingMail` grows, as `DeviceRoster!OneHistory` says
of the rosters a relay stores; `Transit` is given links that come and go, as
`RelayPeers` makes them.

`PROJECT.json` maps every definition to its lines.

### Mailbox

State. `box` is the queue in memory and `disk` the queue in the file; an
envelope is its number, and the numbers are the order of arrival, so a queue is
a set. `kind` is the class of an envelope (text, media, call offer, ephemeral),
`overdue` the envelopes past their retention. `sentMail` is a connection's
window of unacknowledged mail, `saveArmed` the debounce timer, `draining` the
grace period of a stop. `open`, `proven`, `verified` are the sockets, the
records with `identityVerified`, and `verifiedByFingerprint`; `full` are the
sockets whose buffer is over the pump's soft limit. `wire` and `acks` are frames
under way. `got`, `excused` and the "done"
entries of `expiryLog` (notices already handed over) are observation: who
received what, and why something may be missing.

Actions. `Connect`, `Rehello`, `Disconnect`, `IdProof` for the socket;
`DeliverOffline` and `DeliverOnline` for `deliverRelayMessage`; `PumpHeldMail`
is the pump, part of `IdProof` and `RelayAck` (`QueueFlush` calls it without
its socket, so it sends nothing); `LiveTargets` is where a live frame goes: to
the proven sockets, or to the one its sender names (`Named`), which need only be
open; `Receive` and `RelayAck` the device and its
acknowledgement; `Withdraw` stands for `relay-withdraw` and purge of a space,
`PurgeMe`, `QueueDrop`, `Announce`, `QueueFlush` for the frames of those names;
`RetentionSweep` with `EnvelopeAges` and `NoticeAges` for time; `Congest` for a buffer
that fills and drains;
`SaveOfflineBoxNow`, `Crash`, `FatalError`, `BeginShutdown`, `Exit` for the
process. Where a handler sweeps by retention before it acts, the sweep is part of
the action.

Abstractions. One account stands for all: mailboxes share only the write of all
of them (`saveOfflineBoxes`), which for this account is a save it did not ask
for, so `SaveOfflineBoxNow`. Envelopes have one size: the media quota counts
them, and the text quota in bytes is folded into its limit by count. Frames in
flight are sets: an acknowledgement is idempotent and the code reads no order
between them. A notice is told when the proof that hands it over is handled.
Not in the model: failing disk writes, the cap on the number of mailboxes, and
`IDENTITY_PROOF_REQUIRED=false`. `Restless` and `Slow` name the devices that
say hello again and those whose buffer fills.

### Transit and Courier

State. `outbox` and `tries` are the client's; `place` is where an envelope (a
message and the number of its try) is at the carrier: on the socket, parked,
waiting, done. `up` and `closing` are the carrier's links that stand and those
whose end it has not noticed, `homeUp` the links the home relay holds; `out`
and `back` the frames on each; `stored` the mailboxes at home; `replies` the
answers to the sender, `stale` the envelopes whose socket was replaced.

Actions. `Send`, `Resend`, `TransitSendRefused`, `Silence`, `AnswerIn`,
`SocketReplaced` at the client; `CarryTransitEnvelope` (cap, park or hand to a
link), `ParkTimer`, `WaitOver`, `TransitResult` and `CarrierRestarts` at the
carrier; `HomeTakes`, `HomeEndCloses` at home; `LinkUp`, `LinkDies`,
`LinkClosed` for links. A link that is half open takes frames and loses them.

Abstractions. One client and one home relay; only tagged frames that must
persist. Gateway hops (`forwardTransitFrame`), restriction answers and the
transit errors that end as "rejected" are not told apart. A seal that fails is
a frame on a link that closes. Clocks are order only: `Silence` may come only
once the envelope's socket was replaced (120 s are longer than the carrier's
60 s wait, the 15 s sweep and the 10 s park together). Envelopes parked while
the link is down are not counted in the cap, as in the code, so more may be in
the air than `WaitCap`; the model shows that and no property denies it.

`Courier` states the promise: a message is tried, kept, reported and given up,
and reported only when it is kept - a late report may follow giving up.

### SiblingMail

State. `pending[c]` is `item.pending` of copy `c` (empty: no item), `file` the
same in the account's file, `overflow` the devices whose copies were dropped,
`lapsed` the age limit as it was when the file was last read. `beacons` and
`revoked` are the account's devices. `sending` is a `sibling-hold` frame that
follows a live copy already read. `got`, `owed`,
`crossed`, `settled` are observation: what a device received, what was dropped for
room, which of that while a batch or an acknowledgement of the device was under
way, and what it has no claim to any more, being out of age or of a beacon.

Actions. The socket as in `Mailbox`, with `Sleep` and `Wake` for `isAppAwake`;
`SendLive` and `SiblingHold` are the two frames of one sync; `SiblingFetch`,
`HandleSiblingHeld`, `SiblingAck` the collection in batches; `BeaconPut`,
`BeaconDrop`, `RosterPut`, `PurgeMe` the account; `CacheEviction` and `Restart`
read the store again, which filters it by the beacons and the clock of that
moment.

Abstractions. One socket per device. The limits of 2,000 items and of 4 MB are
one count (`MaxItems`); the relay-wide limit is a refusal at any time ("full").
Which beacons are evicted past the limit is any choice that keeps the newest.
Age is looked at only when the store is loaded, as in the code; beacons age at a
restart. The roster is the set of revoked devices, which grows; who may sign one
is `DeviceRoster`'s matter. Whether `purge-me` drops the roster depends on who
asks, so both are allowed. Live copies are not frames.

### RelayPeers

State. `entry` is `dialling` (nothing, a timer, a dial that runs), `timers` the
redial timers armed, those no longer in `dialling` included; `outbound` the
registered dialled link; a connection has a stage at its dialler's end
(`dial`), one at its answerer's (`answer`) and a path between them (`wire`: up,
closing, or cut without a word). `allowed`, `origin`, `boot` and `stored` are
the allowlist, `dialOrigins`, the dials of the start-up and the peers file. `chosen` and `loss`
are observation: what the operator last chose, and whether a write that failed
stands between that and the file, or a process ended before another made up for
it.

Actions. `StartUpDial`, `TimerFires`, `IdentityFetched`, `ProofArrives`,
`DialFails`, `DiallerSeesClose`, `DiallerMissesPongs` at the dialler;
`HelloArrives`, `ConfirmArrives`, `AnswererForgets` at the answerer; `AllowPeer`
and `DisallowPeer` for the operator (with `Saves`, the write of the file), a crash and
restart of a relay, and a path that is cut. Registration - the check of the
allowlist after the awaits, the replacement of an entry, the link that stands
already - is part of the action that ends the await.

Abstractions. The handshake proves who answers; delays are order only; the
heartbeat is the right of either end to notice a cut path. A connection's name
is used again when both its ends are gone. A write of the file that fails leaves
the old one, or one cut short, which reads as no peers; `MaxBadWrites` bounds
such writes. A dial that times out (`giveUp`) leaves its socket as it is.

### DeviceRoster

State. The roster of each device and the relay's (number, primary, signer,
members, revoked), pending edits with their publish timer, a device's socket,
what the relay sent on it, and sealed bundles from siblings. `checking` are the
rosters whose signatures a device checks, each with the roster it read before
that wait; `signing` those it signs, each with the roster it was made from, the
dialog before the signature included. `begun`, `crossed` and `behind` are
observation: that a roster was founded; which of the three crossings happened (a
second founding, a roster published over another than it was made from, one
stored that does not follow the one it replaced); and which devices stored such a
roster and did not connect since.

Actions. `Connect`, `Drop`, `Closes` for sockets; `Hears` for each message of
the relay (its roster, a refusal, a roster stored, a revocation): the newer
roster of the two goes to the other side, and the device that made the identity
founds one when there is none; `ReadsMail` for a sibling's bundle (a roster, an
introduction, a farewell). `adoptRoster` is `Begins`, part of the action that
hears a roster, and `Checked`, which ends its wait and stores the roster over
whatever the device holds by then. `Signs`, part of the founding, of
`EditTimer`, of `Claim` and of `AskHandOver`, reads what is signed, and
`Published` ends that wait. `Revoke` and `Leave` are the users', as are `Claim`
and `AskHandOver`.

Abstractions. Signatures hold. Two checks of one roster over the same roster
count as one. What a device sends reaches the relay at once; the relay's frames
come later, in order; mail keeps no order.

### GroupSpace

State. Each device's copy of the record (`has`, `rev`, `name`, `members`,
`admins`, `removed`, `dissolved`), whose messages it has (`heard`), records,
messages and invite codes under way. `picked` and `left` are observation: whom a user
picked again, and who left on its own and was not asked back since, by a code it
redeemed or by the owner.

Actions. `EditDetails`, `SaveDetails`, `AddMember`, `RemoveMember`,
`SaveMembers`, `ToggleAdmin`, `Leave`, `Dissolve`, `MakeCode`, `Redeem`,
`SendChat` are the users'; `ReceiveSync` and `ReceiveChat` merge what arrives
(`upsertSharedSpace`: newer revision replaces, same or older merges, removals
win); `Discover` is the push to a member who comes online, `HealGroups` the
owner's round to everybody after a start, `Lose` a record that does not arrive.

Abstractions. One device and one key per member. Name, description, picture and
permissions are one value. Fields that permissions would hide are not hidden.

### GroupCall

State. `call`, `roster`, `seat`, `line` (participants and the media connection
held for each), the card on the screen, plans that await the microphone, held
signals, the pair call and the one that just ended; media connections with a
stage at each end; signals under way in order per pair. Three variables observe
and guard nothing: `greeted`, whom each told of its last arrival; `visits`, how
often each entered each call, up to twice; `stale`, how often held signals were
thrown away (by age, by the table's limit, by a reload, or on entering another
call; only the first is bounded).

Actions. `StartCall`, `GrowPair`, `AddPeople`, `Accept`, `CardGoes`, `Asked`
(the microphone granted or refused), `Hears` (invite, upgrade, join, here,
leave), `Media` (an offer arrives, an end closes), `SeatTimer`, `GoesStale`,
`Leave`, `Reload`, `PairCloses`, `HangUp`, `LastPairFades`.

Abstractions. A media path works while both its ends are up. Calls over another
relay (`39-relay-call.js`), the sound itself and the ringing of pair calls are
not modelled.

### FileTransfer

State. For each of two attempts: where `sendBlobChunks` is, the copy kept for
resends, what a resend still owes, the receiver's record with what it has, its
consent, its clock and its count of requests. Two roads: the live channel
(`wire`), broken without either side knowing at once, and the relay (`box`).

Actions. `SendFile`, `Sends`, `StopUpload`, `Cancel`, `Forget`, `Resend`,
`FireWatch` at the sender; `AcceptFile`, `DeclineFile`, `Clocks`, `SendReceipt`
at the receiver; `SenderHears` and `ReceiverHears` for each letter on either
road; `ChannelBreaks`, `Notices`; `SenderReloads`, `ReceiverReloads`.

Abstractions. Chunks are numbers, sound or not. A channel that broke is not
replaced: a new one makes a new session object, which a transfer begun does not
use. Three sizes stand for the thresholds. Clocks are order only: a receiver's
minute of silence passes only when nothing of the transfer is under way, none of
it is being sent and no end takes a broken channel for an open one; the questions
lapse and the watchdog fires at any time the code has them armed.

`Parcel` states the promise: a file is sent, handed over, refused, arrives
whole, is acknowledged and given up. The mapping shows it the sender's `status`
and, of the receiver, whether `kept` is nothing, the whole or a torn part, and
whether an attempt was refused. It has no step that leaves a part, takes a file
away again, brings one that was refused, or fails one that was handed over. It
has one that fails a file shown as delivered: a transfer asked for piece by piece
can complete while the sender still waits for its offer to be answered. As the
two clocks of a minute have no order in the model, this needs an offer's timer
that fires late (a page in the background), and the code does not look.

### SessionKeys

State. `key`, `ready`, `fresh` and `stored` of the two sides, the owner's
`kexPrivate` and 4 s timer, the other's 6 s timer, and each piece of work
between two awaits: mints of the owner that wait for their ephemeral (`pairing`
beside the queue of handlers, `pairQ` in it), derivations, wrapped keys, a
letter being read with the key put aside for it.

Actions. `Paired`, `KexTimerFires`, `FallbackFires` and, on each side, `Hears`,
`Derived`, `Wrapped`, `LetterRead`, `EnsuresLater`, `Says`, `OfflineKey`,
`LetterOpens`. `crossed` is observation: two mints of the owner were under way
at once, and `slips` counts what is odd. The names of the specification carry
`Keys` (`KeysInit`, `KeysNext`, `KeysSpec`, `KeysTypeOK`), since one proof
module extends this module and `GroupSpace`, which share no state.

Abstractions. A key is the set of random values it was made of, so two keys are
equal exactly when they were made of the same. Messages on the line arrive in
order and are not lost; a connection that closes ends the model's scope.
A new random value is one not in use anywhere (`NewId`), and `IdLeft` bounds the
model where none would be left. `MaxOdd` bounds what a fair run would repeat for
ever: texts written during an exchange, and timers and letters that cross one.

## 3. What the runs check

| Run | Instance | Checks | Distinct states |
|---|---|---|---|
| `mailbox_storage` | 1 device that says hello again and 1 impostor, 2 envelopes of 3 kinds, every event | `TypeOK`, `NoSilentLoss`, `SaveDiscipline`, `MailOnlyToOwner`, `NeverResurrected` | 2.2 M |
| `mailbox_live` | 2 devices, one that says hello again and whose buffer fills, 2 envelopes, window 1, announcements, nudges | `HeldInOrder`, `HeldMailLeaves` | 128 k |
| `transit` | 1 message, 2 tries, 2 links, cap 1, every event | `TypeOK`, `BusyWasNotCarried`, `OneAnswerEach`, `ImplementsCourier`, `EveryEnvelopeFinished` | 95 k |
| `sibling` | 3 devices, 2 copies, room for 1, batch 1, eviction, restart, full, purge | `TypeOK`, `HeldIsAccounted` | 463 k |
| `sibling_live` | 2 devices, 2 copies, room for 2, batch 1, restart, ageing, re-hello, roster, sleep | `RevokedIsOut`, `BacklogDrains` | 143 k |
| `relay_peers` | 2 relays, one with the other's address, 3 connections, 1 fault, 1 peer added, 1 removed, 2 timers, 1 failing write | `TypeOK`, `TablesAreTrue`, `TheDiallerKeepsDialling`, `KeptOverRestart`, `OneSidedGetLinked` | 305 k |
| `device_roster` | 2 devices, one made the identity and one may claim the role, 1 drop, 1 revocation, 1 hand-over, 1 leave | `TypeOK`, `OneLine`, `AllAgree` | 373 k |
| `group_space` | an owner, one founding member and one who joins, 2 acts | `TypeOK`, `RemovedStayOut`, `DroppedOnlyIfRemoved`, `OwnersWordArrives` | 159 k |
| `group_call` | 3 devices, a pair call under way, one starter, 1 accept, 1 going, 1 stale hold | `TypeOK`, `LegsAreHeld`, `MeshIsWhole` | 401 k |
| `file_transfer` | 2 chunks, 3 sizes, receipts on and off, 3 requests, 3 losses, 1 reload | `TypeOK`, `ConsentFirst`, `GivesUpWithReason`, `SentLiveArrives`, `RecordsGo`, `ImplementsParcel` | 303 k |
| `session_keys` | with and without prekeys, 1 odd text and 1 crossing | `KeysTypeOK`, `AgreeUndisturbed`, `Heals` | 495 k |
| `mailbox_stop` | 2 devices, stops | `GracefulStopKeepsMail`, **violated** | - |

`mailbox_stop` is a finding: the comment at 9795-9796 says the pending saves are
written "on the way out, so nothing is lost to a timer that never fired", and
the counterexample shows that the mailboxes are written at the start of the
grace period (11791) and not at its end (11811), so what changes in it is lost.

### Bounds and why they are enough

Every bound is a constant marked BOUND or "bound" or the value of one in a
`.cfg`.

- Two devices are the smallest number at which one acts on what the other was
  handed. `mailbox_storage` trades the second owner for an impostor, because
  what it asks (disk against memory, who gets mail) is not about two owners.
  `sibling` has three devices because a copy must be held for two absent ones
  by a third.
- A window of one with two envelopes is the least at which a pump stops and must
  be resumed. `MediaQuota`, `TextLimit`, `MaxItems`, `WaitCap` and `Batch` are 1
  or 2, so every limit is reached in the second step and again after it was
  relieved.
- Two links are the least at which one stands while the other falls. Two tries
  let a late answer to the first meet the second.
- Three connections of two relays let a second dial run while the first one's
  link stands or falls. Two timers of a peer are what an add during a dial can
  leave. One failing write comes before or after each of the two changes.
- Three members are the least at which a record goes by a third person who was
  not told; two acts the least at which two edits are made apart. Three devices
  are the least at which a mesh differs from a pair.
- Two chunks are the least with a hole; three requests are the code's number;
  three losses reach the third. Ten random values are never all in use, so
  `IdLeft` cuts nothing off there.
- `device_roster` follows a behaviour until a second roster is founded or one is
  published over another than it was made from (the state constraint
  `UntilAstray`). `OneLine` claims nothing from there on and the premise of
  `AllAgree` is false, and `crossed` only grows, so nothing that is claimed is
  cut off. Both crossings are reached; so is `"stored"`, which is followed on.
- `mailbox_live` has no withdrawals: a sibling's acknowledgement shortens the
  queue in the same way.
- Environment events are switched by `Env` in the first three modules so that a
  run pays only for the events its question needs; in each module the runs
  together fire all of them.

Other instances that passed the same safety properties and are not among the
runs: transit with two messages (417 k) or three tries (55 k); calls with 2
goings (3.2 M), of a shared group (68 k), and with two who add; session keys
with 2 odd texts (770 k) and without letters (10 M).

Symmetry is used only in `sibling`, a safety run: devices of one account are
interchangeable. Deadlock is checked in the mailbox, transit and sibling runs.
It is off in the six others, whose systems really come to rest: acts, losses
and faults are bounded, and two devices with nothing more to say stay so.

### Fairness

- `HeldMailLeaves`: weak fairness of `Receive` and `RelayAck` per owner device.
  A connected page reads its socket, unless it is frozen for ever; the relay
  reads what arrives. Nothing else is fair: not connecting, not proving, not the
  sweep, not the save, not the draining of a buffer. It says what the code gives,
  which is less than that a connected device gets its mail (section 6): a proof
  over waiting mail sets the flow going, and a flow that has begun empties the
  mailbox unless the device loses its proof or its buffer is full.
- `EveryEnvelopeFinished`: weak fairness of `CarryTransitEnvelope`, `ParkTimer`
  and `WaitOver`, a read of a socket and two timers of the carrying process.
  Links need never come up and the home relay need never answer.
- `BacklogDrains`: weak fairness of `HandleSiblingHeld` and `SiblingAck` per
  device, the first only while the app is awake: a frozen page keeps its socket
  and reads nothing. It is stated for a device that stays proven and awake from
  some point on and for which a batch or its acknowledgement is on the way,
  because nothing but a proof, an acknowledgement or a fetch sends the next
  batch.
- `OneSidedGetLinked`: the start-up dial and the redial timers of a relay that
  runs fire; a dial ends one way or another (`fetch` and the handshake have
  time limits); frames that arrived are read. No relay need come back up, no
  operator need do anything. It speaks of pairs that stay up and allow each
  other from some point on, of which one has the other's address, where no peer
  was removed and no write of the file failed.
- `AllAgree`: a device connects again, a socket that is done is closed, frames
  and mail are read, the publish timer fires, and the check of a roster and the
  signature of an edit come to an end, as two operations of the browser do. Users
  do nothing by fairness: not a dialog, a hand-over or a claim.
- `OwnersWordArrives`: the owner's device meets each member again (presence, as
  `Discover`), and a record of the owner's that is not lost is handled. It holds
  although every other record may be lost, because the push repeats.
- `RecordsGo`: both sides read what arrives and notice a broken channel, an
  upload begun goes on or stops, armed clocks fire. Nobody need ever answer a
  question: the receiver's own clock ends it.
- `Heals`: messages on the line are read, work begun ends, the call 1.2 s after
  the opening comes; timers and texts are fair only when nothing else is under
  way, so that the pair does say something once all has come to rest - the code
  heals by a text that does not open, and says so.

## 4. What is proved

Each `*Proofs` module holds theorems of `Spec` for every value of the constants
that satisfies the module's named assumptions: limits are natural numbers,
windows and caps positive, `Env` a set of known events, `Device` finite where it
is counted. `GroupCall` needs its ranks to differ, `SessionKeys` the two values
of the key an earlier session left.

| Theorem | States |
|---|---|
| `MailboxProofs!TypeCorrect` | `[]TypeOK`, including that no closed socket is proven or indexed |
| `MailboxProofs!AlwaysSaved` | `[]SaveDiscipline` |
| `MailboxProofs!NoResurrection` | `NeverResurrected`, an action property |
| `MailboxProofs!OwnerOnly` | `MailOnlyToOwner`, an action property |
| `MailboxProofs!NothingLost` | `[]NoSilentLoss` |
| `MailboxProofs!InArrivalOrder`, `WindowHolds` | `[]HeldInOrder`, `[]WindowBound` |
| `TransitProofs!TransitTypeCorrect` | `[]TypeOK` |
| `TransitProofs!BusyMeansNotCarried` | `[]BusyWasNotCarried` |
| `TransitProofs!OneAnswer` | `OneAnswerEach` |
| `TransitProofs!TransitImplementsCourier` | `Spec => Sender!Spec`, the refinement |
| `SiblingMailProofs!TypeCorrect`, `RevokedStaysOut`, `HeldAccounted` | `[]TypeOK`, `[]RevokedIsOut`, `[]HeldIsAccounted` |
| `RelayPeersProofs!TypeCorrect`, `TablesTrue`, `DiallerKeeps`, `PeersKept` | `[]TypeOK`, `[]TablesAreTrue`, `[]TheDiallerKeepsDialling`, `[]KeptOverRestart` |
| `DeviceRosterProofs!TypeCorrect`, `OneLineHolds` | `[]TypeOK`, `[]OneLine` |
| `SpaceAndSessionProofs!TypeCorrect`, `RemovalWins`, `NobodyDroppedAside` | `[]TypeOK`, `[]RemovedStayOut`, `DroppedOnlyIfRemoved` |
| `SpaceAndSessionProofs!KeysTypeCorrect`, `QuietPairAgrees` | `KeysSpec => []KeysTypeOK`, `KeysSpec => []AgreeUndisturbed` |
| `GroupCallProofs!TypeCorrect`, `LegsStayHeld`, `MeshComesWhole` | `[]TypeOK`, `[]LegsAreHeld`, `[]MeshIsWhole` |
| `FileTransferProofs!TypeCorrect`, `WholeOrNothing`, `ConsentIsAsked` | `[]TypeOK`, `[]DeliveredIsWhole`, `[]ConsentFirst` |
| `FileTransferProofs!GivingUpHasAReason`, `SentLiveIsThere` | `[]GivesUpWithReason`, `[]SentLiveArrives` |
| `FileTransferProofs!TransferImplementsParcel` | `Spec => People!Spec`, the refinement |

`WindowBound` and `DeliveredIsWhole` are stated by theorems and named by no run:
the first was checked on the larger instance of section 3, the second follows from
`ImplementsParcel`, whose steps take nothing but the whole and acknowledge
nothing else.

The arguments:

- *Mailbox.* `TypeOK` is inductive. The others need a strengthening each.
  `OwnerInv` says that a socket without the key is never proven or indexed
  (`KeyHolders`) and is credited with nothing (`NoCredit`), which is why nothing
  that waits can reach it and nothing it acknowledges is taken from the box; the
  live frame of a sender that names it is all it can get. `LossInv` adds
  `AckedIsGot`, that what a device acknowledges some device received, for
  without it an acknowledgement could remove mail nobody has. `DeliveryInv` adds
  `Known`, that nothing is waiting, stored or handed out that was not queued:
  without it a new envelope could take a number older than what a window already
  holds, and order would break.
- *Transit.* `CarryInv` is the conjunction of five facts about one envelope's
  life: a try not sent yet is nowhere (`Fresh`), a parked or unread one is on no
  link and in no mailbox (`NotYetOut`), a "queued" on its way back is about a
  stored envelope (`HomeWord`), an answer on its way to the sender is about an
  envelope the carrier is done with (`LastWord`), and `BusyWasNotCarried`.
  Together they give the refinement's only hard step: an answer "relayed" that
  settles the outbox is about a stored envelope.
- *SiblingMail.* The bound on copies is not inductive by itself, since a hold
  frame under way will take a number: `RoomLeft` counts the frames under way
  with the copies held, and uses that `Device` is finite. `RevokedIsOut` is
  inductive together with the types: a hold goes to devices with beacons only,
  a reload is cut to the beacons, and a roster takes both from the devices it
  revokes. `HeldIsAccounted` follows from `HeldInv`, four facts: each copy
  is kept for a device, received, owed or without a claimant (`Claimed`); an
  acknowledgement on the way names only copies its device has received
  (`AcksWereGot`); what is in memory is in the file, so that a reload loses
  nothing (`Stored`); and while something is owed to a device that was not
  dropped in the middle of a delivery, the mark stands, no acknowledgement of it
  is on its way, and every batch that is tells of the drop (`Marked`).
- *RelayPeers.* `Inv` adds to the types `Ends` (a connection with a live end has
  two different relays), `TimerIsBacked`, `EntryIsBacked`, `RegisteredLinks`,
  `KeptOverRestart` and `FileKept`: until a write of it fails, the file holds
  every peer and address that was chosen, and no peer but those and the seed's.
  Both inclusions are needed, since a start-up reads the file into the tables
  and the next change writes the tables back. The hard step is the fall of a
  link or of a dial while another dial of the same peer runs: the entry may be
  left, replaced or re-armed, and in each case something stands behind it.
  `TheDiallerKeepsDialling` needs `DInv` beside it: an address kept is that of a
  peer kept (`AddressesArePeers`), and while no peer was removed and no write
  failed (`Steady`) a running relay remembers, or is about to dial, exactly the
  addresses of its seed and file (`Remembered`), only those are timed, dialled
  or linked (`TimersKnown`, `ConnsKnown`), and it dials each of them that does
  not dial it (`KeepsDialling`).
- *DeviceRoster.* The invariant is that, as long as nothing crossed, there is a
  set `S` of rosters, the history, in which lie all rosters kept, sent or being
  checked (`Within`), each number belongs to one roster and a later one revokes
  whatever an earlier one did (`Numbered`), a device whose roster as primary was
  overtaken holds a later one, because it made that one (`Overtaken`), and which
  is empty until a roster was founded (`Unfounded`). What is being signed is not
  in `S` yet: it enters when it is published, over the roster it was made from,
  or that publication is a crossing. One line and one primary are read off it.
  The theorem has no hypothesis on who founds, claims or hands over: `OneLine`
  names the three crossings, and TLC finds two lines after each if it does not
  (section 6).
- *GroupSpace.* `RemovedStayOut` is inductive with the types; `OwnersLetters`,
  that what the owner sends to a device lists it or names it removed, is what
  keeps a member the owner merely does not know from losing the group.
- *FileTransfer.* `Inv` adds `Whole` (a record completes only with every piece
  seen and sound, and a receipt or "delivered" is only about a file kept) and
  `Calm` (a transfer that waits for a yes or was refused has nothing under way:
  no chunk, no resend owed, an upload that has not begun). The refinement of
  `Parcel` needs `Underway` beside it: while the first upload runs its entry is
  "queued" or already "delivered", and a second try never waits for an answer.
- *FileTransfer, giving up.* Two facts, `Road` and `Counts`. `Road` is about what
  is on which road: a transfer that has not begun has nothing under way, a start
  is ahead of its chunks, requests come by relay only when the sender's end of
  the channel is down. `Counts` pays for the requests: a transfer that both sides
  still have saw more losses than it made requests, or as many and then every
  piece that is missing is still to be sent, on its way, asked for or owed
  (`Enough`); and one that saw no loss beyond its requests does not depend on a
  channel that is gone (`Torn`). A request is made only in silence, when nothing
  is due, so each costs a loss the one before did not. `SentLiveIsThere` adds
  `Watched` and `Second`: once the watch has fired, and unless the second try
  failed, the file is there, or more was lost than can be asked for, or the second
  start is under way or open at the receiver with the file still at the sender. At
  rest nothing is under way and no record is left, so the last cannot be.
- *GroupCall.* `Sound` says of the media connections of all pairs: they run one
  way, from the lower rank up (`OneWay`); their offers arrive in the order they
  were dialled (`InOrder`); of several only the newest is up at its dialler
  (`NewestUp`); what the far side holds is a connection whose offer arrived
  (`Arrived`); and what is up at an end is held there or its call is over
  (`NearHeld`, `FarHeld`, of which `LegsAreHeld` is made). The order is needed: an
  older offer that arrived after a newer one would replace it in the entry and
  leave it up with nobody to hang it up, so the model's offers arrive in order,
  as those of one signalling socket do.
- *GroupCall, the whole mesh.* `MeshIsWhole` is about people who came to their
  call once, for a person lost by coming twice is a behaviour of the code
  (section 6). The proof has three layers over `Sound`, each on the one before.
  `Visited`: what says a person came, be it a call, a signal on its way, a held
  one or a leg, was preceded by an entry that `visits` counts, and who is in a
  call while their "leave" of it is on its way came twice (`BackIsTwice`).
  `MeshLegs`, of people who came once: a leg between two who are both in its call
  is up at its dialler and coming or open at the other end (`Up`), an open one is
  held (`OpenIsHeld`), there is one leg for a call (`OneLeg`), and the dialler's
  entry belongs to its call. `Come` and `Both` follow a word of arrival: it is on
  its way, or held, or the other is in the call and a leg was dialled or the one
  who dials is being asked to; of two who told each other this needs no held
  signal. Last, `Named` says that an invite names its starter, so whoever answers
  tells it. At rest nothing is on its way, so a leg for the call exists, and
  `MeshLegs` makes it the one both hold. The conjuncts are proved over sets (what
  is said, dialled, held between two people) and six effects (entering, meeting,
  holding, staying away, hanging up, an offer's arrival), of which every action is
  one, so that most conjuncts are shown once per effect and not per action.
- *SessionKeys.* The types need only that each offer and answer carries one value.
  `Good` is inductive as long as nothing odd happened and no two mints crossed:
  nothing is made by one side alone (`Calm`); at most one exchange is under way
  and is in one place, the owner's mint, the offer on the line, the answer on the
  line or the owner's derivation (`OneExchange`, `Lines`); and whoever has the
  key made it of the two values the other has or is deriving from (`Met`), unless
  the other has asked anew since (`OthersEnd`). Nothing rests on random values
  being different from one another.

## 5. Only model-checked

Liveness: `HeldMailLeaves`, `EveryEnvelopeFinished`, `BacklogDrains`,
`OneSidedGetLinked`, `AllAgree`, `OwnersWordArrives`, `RecordsGo`, `Heals`,
since the prover has no rules for fairness and ENABLED. Every safety property of
a passing run is a theorem; `GracefulStopKeepsMail` is violated. `MeshIsWhole`
says itself whom it is about, people who came once and met. The run of
`GroupCall` was also tried on larger instances (two routes for each notice; a
table of one held signal; a call of a group with two starters and two answers
each): half a million states and more without a violation, none of them
exhausted.

## 6. Divergences the models show without a run of their own

Each was reached in the models, or follows from the cited lines, and is a
behaviour the checked properties are stated around.

- The operator's queue flush (5047) calls the pump without a socket, so nothing
  goes out; the comment at 5040 says every connected holder is pumped right away.
- A `relay-ack` that meets an empty mailbox returns (11347) before it reopens the
  connection's window; the comment at 11362-11365 says a window is reopened.
  `HeldMailLeaves` holds because the next delivery forgives the window.
- `failTransitWaitsFor` keeps the waits of a fallen link when another link to
  the same relay stands (8444), although their answers came by the fallen one;
  8265-8266 say they are answered at once. The sweep answers them later.
- A live envelope goes first to the socket its sender names, which need only be
  open (8686, 10778-10781): a socket that claimed an account and never proved it
  gets that frame. `MailOnlyToOwner` says it gets nothing else.
- The operator's announcement is queued and sent live to one proven socket
  (6676-6680). If that one drops it, another proven connection has mail in the box,
  nothing in flight and nobody who pumps it; the same holds of a connection whose
  last acknowledgement was handled while its buffer was full (10883).
  `HeldMailLeaves` is stated for a flow that has begun.
- `ackSiblingHeld` clears the overflow mark even for copies dropped after the
  acknowledged batch was sent (9368; comment 9226-9228). `HeldIsAccounted` names
  that case (`crossed`) and admits no other.
- A device that proves itself between a sync's live copy and its request to hold
  one gets neither (9325; comment 9223-9225).
- A peer the operator removed comes back at the next start if it is named in the
  environment, while the comment at 5054-5056 says the file is the truth after the
  first change. `KeptOverRestart` allows those of the environment.
- The peers file is written in place; a write that fails is logged and the
  operator is answered as if it had succeeded (5077-5080). A file cut short reads
  as no peers at the next start, and two relays may stay unlinked;
  `KeptOverRestart` and `OneSidedGetLinked` exclude that.
- Two relays that each have the other's address may end linked with nobody set
  to redial when that link falls, as a dial that finds an inbound link returns
  without a timer (`relay-peers.js` 203 ff.); hence "one-sided" in
  `OneSidedGetLinked`.
- A roster is "taken only when it ... follows from the one this device holds"
  (`58-device-roster.js` 297-298), but it is tested against the one held before
  the signatures were checked (302-318), and its callers do not wait for one
  another (`30-file-transfer-2.js` 572-592). Of two checks under way the older
  roster may be stored last and a revocation is rolled back on that device until
  it connects again; `AllAgree` says that connecting repairs it.
- An edit (272-282) and a hand-over (553-574, over a dialog) are signed from the
  roster read before and published whatever was stored meanwhile, so two rosters
  may share a number.
- Two devices may each found a roster; the later one gives way when the relay
  refuses its own, but only while it remembers founding, which is in memory
  (357), and has not edited since: a founder that restarted before the answer, or
  edited before the refusal, never yields, and two act as primary.
- `detachThisDevice` (581-611) signs a quiet hand-over and leaves without looking
  again at what it holds after that wait; the model's `Leave` is that of a device
  that is not the primary by then, or has no heir.
- An owner does not heed a member's farewell (it takes the group from nobody but
  itself), and its next presence push gives the group back to one that left,
  although `06-groups.js` 407 and 423-425 say "your copy goes". The end-to-end
  test looks three seconds after leaving (`tests/e2e/groups.mjs` 521); the push is
  at `29-file-transfer.js` 3120-3147. `OwnersWordArrives` asks for no copy at a
  member that left and was not asked back, and forbids none.
- Removing the last member leaves an empty list, which everywhere else means
  every contact (`06-groups.js` 119 and 354, `19-forward-secrecy.js` 381).
- "A duplicate costs nothing: the receiver ignores an invite once it is already
  in that call" (`12-group-call-mesh.js` 252-254). But a device is in the call
  only after the microphone prompt, and an upgrade notice has no card to be
  gone: a second copy that arrives during the prompt starts a second join (492).
  With two routes for each notice and no other disturbance TLC violates
  `MeshIsWhole` without its `Once` in 14 steps: each join makes the dialler dial; the second
  connection replaces the first in the other's entry; the first one's close then
  drops the entry, and with it the second. Two taps on the card do the same. The
  run has one answer to each invite, and the property is about people who came
  once.
- Two people added by two others apart are never told of each other: with
  `a` and `b` in a call, `b` adds `c` while `a` adds `d`, and each card names only
  the people its sender knows. When `c` and `d` then add each other, the invites
  find both in the call and are not looked at (`16-group-call-signalling.js` 20-57),
  so they share a call and neither sees the other. 252-254 of the mesh's file take an
  invite to a member for a duplicate. `MeshIsWhole` asks that one told the other.
- Entering a call throws away the held signals of every other one
  (`12-group-call-mesh.js` 477-490): a join held for the call entered next is gone.
  `MeshIsWhole` then asks that both told each other.
- Held signals live 30 s and the card 120 s, so an accept after half a minute
  joins without what was said meanwhile.
- A live start lost with its channel leaves later chunks to a receiver that has
  no record of them (`29-file-transfer.js` 360; comment 352-356);
  `SentLiveArrives` is about what was handed over whole. The count of resend
  requests is never set back after progress (205; comment 176).
- "One exchange per connection" (`29-file-transfer.js` 2245-2249) is checked
  before an await and recorded after it (2250-2259), so two can run;
  `AgreeUndisturbed` excludes that case and `Heals` includes it.

## 7. Plan

Written so far, in this order: `Mailbox`, `Transit` with `Courier`,
`SiblingMail`, `RelayPeers`, `DeviceRoster`, `GroupSpace`, `GroupCall`,
`FileTransfer` with `Parcel`, `SessionKeys`. Next:

1. A specification of a call (who is in it, who hears whom) for `GroupCall` to
   implement; the steps of
   `AllAgree` and `OwnersWordArrives` that are safety (what a repeated push does
   when it arrives).
2. `Prekeys` (`19-forward-secrecy.js`) and `RelayDataLink` (`43-relay-link.js`):
   state read before an await and written after it.
3. The sync cursor of a device that was told copies were dropped
   (`44-device-beacon.js`), composed with `SiblingMail`.
4. Partner documents and the directory (`relay-partners.js`,
   `relay-directory.js`): merge by version over bounded inputs, and the allow
   and disallow calls it makes into `RelayPeers`; then `RelayPeers` composed with
   `Transit` in place of its free links.
5. Scheduled messages (`47-scheduled-send.js`) and ringing of pair calls.

## 8. Not modelled, and why

The map covers a small part of the repository's lines, about one in twenty.
Most of the rest is not state that a model checker reaches: rendering, forms,
settings and local storage of the client (`js/app.js`, `17-file-manager.js`,
`35-sheets-profile-clocks-2.js` and the like); the cryptographic workbench,
vault, backup, steganography, metadata, QR, SSH and voice tools, which are
sequential code over bytes; the native shell, control panel, build and
deployment scripts; vendored libraries. Cryptography is abstracted throughout:
an envelope is opaque, a proof succeeds exactly for who holds the key. The
relay's rate limits, restrictions, dashboards, alerts and reports only refuse
or read. Disk errors are listed as hazards without a property: every write of
the models succeeds, except that of the peers file in `RelayPeers`. A proof that
arrives after a dial gave up waiting for it (`relay-peers.js` 446 leaves the
socket open) is not modelled: the answerer then holds a link its dialler never
registers. What could still be modelled is in the plan above.

## 9. Running it

    tlc -config Mailbox_storage.cfg MCMailbox.tla
    tlc -config Transit.cfg MCTransit.tla
    tlc -config Sibling.cfg MCSiblingMail.tla
    tlc -config GroupSpace.cfg MCGroupSpace.tla
    tlapm MailboxProofs.tla
    tlapm SpaceAndSessionProofs.tla

Each `.cfg` belongs to the MC module of its name; each run takes between a few
seconds and three minutes. A definition marked "Mutant of" is a plausible mistake
in the definition it names and is used nowhere: putting it in that definition's
place makes the run's property fail.
