------------------------------ MODULE RelayPeers ------------------------------
(***************************************************************************)
(* The links between relays: who may have one, dialling, redialling and    *)
(* answering (scripts/lib/relay-peers.js), with the operator's list of     *)
(* peers and the file that keeps it over a restart (scripts/server.js).    *)
(*                                                                         *)
(* An attempt to link and the link it may become are one connection, with  *)
(* a stage for each of its ends.  The dialler fetches the other relay's    *)
(* identity, opens a socket and says hello, is answered with a proof,      *)
(* sends its confirmation and has a link; the answerer has one when the    *)
(* confirmation arrives.  What the handshake proves is not modelled: an    *)
(* address always leads to the relay it names.  Delays are not modelled:   *)
(* a timer that is set may fire at once.                                   *)
(***************************************************************************)
EXTENDS Naturals, FiniteSets

CONSTANTS
    Relay,       \* relay identities
    Conn,        \* names of connections, used again when both ends are gone
    Seed,        \* Seed[r]: peers named by CHAT_TRANSIT_PEERS of r
    SeedAddress, \* SeedAddress[r]: those of them named with an address
    MaxFaults,   \* bound: relays crashing and paths failing
    MaxAdds,     \* bound: peers added by operators
    MaxRemovals, \* bound: peers removed by operators
    MaxTimers,   \* bound: redial timers armed for one peer
    MaxBadWrites \* bound: writes of the peers file that fail

None == "none"

ASSUME PeersAssumption ==
    /\ Seed \in [Relay -> SUBSET Relay]
    /\ SeedAddress \in [Relay -> SUBSET Relay]
    /\ \A r \in Relay : SeedAddress[r] \subseteq Seed[r]
    /\ \A r \in Relay : r \notin Seed[r]
    /\ None \notin Conn
    /\ MaxFaults \in Nat /\ MaxAdds \in Nat /\ MaxRemovals \in Nat
    /\ MaxTimers \in Nat \ {0} /\ MaxBadWrites \in Nat

VARIABLES
    up,       \* up[r]: the relay's process runs
    allowed,  \* allowed[r]: relays it may link with
    origin,   \* origin[r]: peers it remembers an address of (dialOrigins)
    entry,    \* entry[r][p]: what `dialling` holds for p
    timers,   \* timers[r][p]: redial timers armed, in `dialling` or not
    boot,     \* boot[r]: peers whose dial at start-up is still to come
    outbound, \* outbound[r][p]: the dialled link registered for p
    from, to, \* from[c], to[c]: who dials and who answers on connection c
    dial,     \* dial[c]: the dialler's end
    answer,   \* answer[c]: the answerer's end
    wire,     \* wire[c]: the path between them
    stored,   \* stored[r]: what the peers file reads as
    chosen,   \* observed: the peers the operator added and did not remove
    loss,     \* observed: whether the last write failed, and a start met that
    faults, adds, removals, badWrites  \* how much of each bound is used

relayVars == <<up, allowed, origin, entry, timers, boot, outbound>>
ends      == <<from, to>>
connVars  == <<from, to, dial, answer, wire>>
fileVars  == <<stored, chosen, loss>>
bounds    == <<faults, adds, removals, badWrites>>
vars      == <<up, allowed, origin, entry, timers, boot, outbound, from, to,
               dial, answer, wire, stored, chosen, loss, faults, adds,
               removals, badWrites>>

Entries     == {"none", "timer", "running"}
DialStage   == {"gone", "fetching", "hello", "link", "closing"}
AnswerStage == {"none", "proof", "confirming", "link", "closing", "gone"}
\* "fin": an end closed it and the other will see that.  "cut": nothing
\* passes any more and nobody was told.
Wire        == {"up", "fin", "cut"}

Losses      == {"none", "unwritten", "lost"}

\* A list of peers, those of them with an address named too.  A file that is
\* missing, or does not parse, reads as the empty one.
PeerList == [peers : SUBSET Relay, addresses : SUBSET Relay]
NoPeers  == [peers |-> {}, addresses |-> {}]

Others(r) == Relay \ {r}

Free(c) == dial[c] = "gone" /\ answer[c] \in {"none", "gone"}

InFlight(r, p, c) ==
    from[c] = r /\ to[c] = p /\ dial[c] \in {"fetching", "hello"}

\* linkFor: the registered outbound link when it is open, else any open
\* inbound one.
HasLink(r, p) ==
    \/ outbound[r][p] # None /\ dial[outbound[r][p]] = "link"
    \/ \E c \in Conn : from[c] = p /\ to[c] = r /\ answer[c] = "link"

\* An end closes its socket.  Mutant of Closed: link.close only marks the link
\* as dead.
OnlyMarked(w) == w
Closed(w) == IF w = "cut" THEN "cut" ELSE "fin"

-----------------------------------------------------------------------------
(***************************************************************************)
(* Parts of the handlers.                                                  *)
(***************************************************************************)

Put(f, r, p, x) == [f EXCEPT ![r][p] = x]

\* scheduleDial: the timer in `dialling` is replaced; one that is not in
\* there any more stays armed.
Rearmed(r, p, held) ==
    timers[r][p] - (IF held = "timer" THEN 1 ELSE 0) + 1

\* What disallowPeer leaves armed.
Cleared(r, p) == timers[r][p] - (IF entry[r][p] = "timer" THEN 1 ELSE 0)

\* `outbound` once the link is forgotten: only if it is the one registered.
\* Mutant of Unregistered: the link stays.
StaysRegistered(c) == outbound
Unregistered(c) ==
    IF outbound[from[c]][to[c]] = c
    THEN Put(outbound, from[c], to[c], None)
    ELSE outbound

\* A dialled link that fell is dialled again where an address is remembered.
\* Mutant of DialsAgain: a link that succeeded and fell is not remade.
NeverAgain(c) == FALSE
DialsAgain(c) == to[c] \in origin[from[c]]

\* What saveRuntimeTransitPeers writes, after every change from the dashboard.
\* Mutant of Kept: written before the change is made.
KeptBefore(r, peers, addresses) ==
    [stored EXCEPT ![r] =
       [peers |-> allowed[r], addresses |-> allowed[r] \cap origin[r]]]
Kept(r, peers, addresses) ==
    [stored EXCEPT ![r] = [peers |-> peers, addresses |-> peers \cap addresses]]

\* The file is written in place.  A write that fails leaves the file that was
\* there, or one cut short; the operator is answered the same.
Saves(r, peers, addresses) ==
    \/ /\ stored' = Kept(r, peers, addresses)
       /\ loss' = [loss EXCEPT ![r] = IF @ = "lost" THEN @ ELSE "none"]
       /\ UNCHANGED badWrites
    \/ /\ badWrites < MaxBadWrites
       /\ badWrites' = badWrites + 1
       /\ stored' \in {stored, [stored EXCEPT ![r] = NoPeers]}
       /\ loss' = [loss EXCEPT ![r] = IF @ = "lost" THEN @ ELSE "unwritten"]

\* dial, up to its first await.  `held` is the entry it finds.
Dial(r, p, held) ==
    LET start == p \in allowed[r] /\ ~HasLink(r, p) /\ held = "none" IN
    /\ origin' = [origin EXCEPT ![r] = @ \cup {p}]
    /\ IF start
       THEN /\ entry' = Put(entry, r, p, "running")
            /\ \E c \in Conn :
                 /\ Free(c) /\ c = CHOOSE d \in Conn : Free(d)
                 /\ from' = [from EXCEPT ![c] = r]
                 /\ to' = [to EXCEPT ![c] = p]
                 /\ dial' = [dial EXCEPT ![c] = "fetching"]
                 /\ answer' = [answer EXCEPT ![c] = "none"]
                 /\ wire' = [wire EXCEPT ![c] = "up"]
       ELSE /\ entry' = Put(entry, r, p, held)
            /\ UNCHANGED connVars

Init ==
    /\ up = [r \in Relay |-> TRUE]
    /\ allowed = Seed
    /\ origin = [r \in Relay |-> {}]
    /\ entry = [r \in Relay |-> [p \in Relay |-> "none"]]
    /\ timers = [r \in Relay |-> [p \in Relay |-> 0]]
    /\ boot = SeedAddress
    /\ outbound = [r \in Relay |-> [p \in Relay |-> None]]
    /\ from = [c \in Conn |-> None] /\ to = [c \in Conn |-> None]
    /\ dial = [c \in Conn |-> "gone"]
    /\ answer = [c \in Conn |-> "none"]
    /\ wire = [c \in Conn |-> "up"]
    /\ stored = [r \in Relay |-> NoPeers]
    /\ chosen = [r \in Relay |-> NoPeers]
    /\ loss = [r \in Relay |-> "none"]
    /\ faults = 0 /\ adds = 0 /\ removals = 0 /\ badWrites = 0

-----------------------------------------------------------------------------
(***************************************************************************)
(* Dialling.                                                               *)
(***************************************************************************)

\* The dial of a configured peer half a second after the start.
StartUpDial(r, p) ==
    /\ up[r] /\ p \in boot[r]
    /\ boot' = [boot EXCEPT ![r] = @ \ {p}]
    /\ Dial(r, p, entry[r][p])
    /\ UNCHANGED <<up, allowed, timers, outbound, fileVars, bounds>>

\* A redial timer fires.  It takes whatever `dialling` holds for the peer out
\* of it, its own entry or another's.
TimerFires(r, p) ==
    /\ up[r] /\ timers[r][p] > 0
    /\ timers' = Put(timers, r, p, timers[r][p] - 1)
    /\ Dial(r, p, "none")
    /\ UNCHANGED <<up, allowed, boot, outbound, fileVars, bounds>>

\* The identity at the address is the one named; the socket opens and says
\* hello.
IdentityFetched(c) ==
    /\ dial[c] = "fetching" /\ wire[c] = "up" /\ up[to[c]]
    /\ dial' = [dial EXCEPT ![c] = "hello"]
    /\ UNCHANGED <<relayVars, ends, answer, wire, fileVars, bounds>>

\* The proof arrives: the confirmation is sent, the entry is taken out of
\* `dialling` and the link registered, over one registered before.
ProofArrives(c) ==
    LET r == from[c]
        p == to[c] IN
    /\ dial[c] = "hello" /\ answer[c] = "proof"
    /\ wire[c] = "up"
    /\ dial' = [dial EXCEPT ![c] = "link"]
    /\ answer' = [answer EXCEPT ![c] = "confirming"]
    /\ entry' = Put(entry, r, p, "none")
    /\ outbound' = Put(outbound, r, p, c)
    /\ UNCHANGED <<up, allowed, origin, timers, boot, ends, wire, fileVars,
                   bounds>>

\* The fetch or the handshake fails: nobody answers, the answerer refused, or
\* a timeout ran out on a path that carries nothing, which leaves the socket
\* as it is.  The entry is taken out of `dialling` first, so a timer in it is
\* no longer cleared by scheduleDial.
DialFails(c) ==
    LET r == from[c]
        p == to[c] IN
    /\ \/ dial[c] = "fetching" /\ (wire[c] # "up" \/ ~up[p])
       \/ dial[c] = "hello" /\ wire[c] # "up"
    /\ timers[r][p] < MaxTimers
    /\ dial' = [dial EXCEPT ![c] = "gone"]
    /\ entry' = Put(entry, r, p, "timer")
    /\ timers' = Put(timers, r, p, Rearmed(r, p, "none"))
    /\ UNCHANGED <<up, allowed, origin, boot, outbound, ends, answer, wire,
                   fileVars, bounds>>

(***************************************************************************)
(* Answering.                                                              *)
(***************************************************************************)

\* A hello is answered with a proof only if the relay it comes from is on the
\* list; any other socket is closed.
HelloArrives(c) ==
    LET r == to[c] IN
    /\ dial[c] = "hello" /\ answer[c] = "none"
    /\ wire[c] = "up" /\ up[r]
    /\ IF from[c] \in allowed[r]
       THEN answer' = [answer EXCEPT ![c] = "proof"] /\ UNCHANGED wire
       ELSE wire' = [wire EXCEPT ![c] = "fin"] /\ UNCHANGED answer
    /\ UNCHANGED <<relayVars, ends, dial, fileVars, bounds>>

\* The confirmation arrives and the link is registered.
ConfirmArrives(c) ==
    /\ answer[c] = "confirming" /\ wire[c] # "cut"
    /\ answer' = [answer EXCEPT ![c] = "link"]
    /\ UNCHANGED <<relayVars, ends, dial, wire, fileVars, bounds>>

-----------------------------------------------------------------------------
(***************************************************************************)
(* A link ends.                                                            *)
(***************************************************************************)

\* What the dialler's close event does (forget).
ForgetDialled(c) ==
    LET r == from[c]
        p == to[c]
        again == DialsAgain(c) IN
    /\ again => timers[r][p] < MaxTimers \/ entry[r][p] = "timer"
    /\ dial' = [dial EXCEPT ![c] = "gone"]
    /\ outbound' = Unregistered(c)
    /\ entry' = IF again THEN Put(entry, r, p, "timer") ELSE entry
    /\ timers' = IF again THEN Put(timers, r, p, Rearmed(r, p, entry[r][p]))
                 ELSE timers
    /\ UNCHANGED <<up, allowed, origin, boot, ends, answer, wire, fileVars,
                   bounds>>

\* The dialler sees the connection closed, by the other end or by itself.
DiallerSeesClose(c) ==
    /\ \/ dial[c] = "link" /\ wire[c] = "fin"
       \/ dial[c] = "closing"
    /\ ForgetDialled(c)

\* Mutant of DiallerMissesPongs: a silent link is kept.
NoHeartbeat(c) == FALSE

\* Three heartbeats without a pong: the socket is terminated, and its close
\* event follows.
DiallerMissesPongs(c) ==
    /\ dial[c] = "link" /\ wire[c] = "cut"
    /\ ForgetDialled(c)

\* The answerer's end goes: closed, silent for three heartbeats, or its
\* handshake timer ran out.  Nothing is dialled for it.
AnswererForgets(c) ==
    /\ \/ answer[c] \in {"proof", "confirming", "link"}
          /\ wire[c] # "up"
       \/ answer[c] = "closing"
    /\ answer' = [answer EXCEPT ![c] = "gone"]
    /\ UNCHANGED <<relayVars, ends, dial, wire, fileVars, bounds>>

-----------------------------------------------------------------------------
(***************************************************************************)
(* The list of peers, at run time.                                         *)
(***************************************************************************)

\* transit-add and allowPeer: with an address the peer is dialled soon unless
\* the registered outbound link is open.
AllowPeer(r, p, address) ==
    LET now  == allowed[r] \cup {p}
        at   == IF address THEN origin[r] \cup {p} ELSE origin[r]
        redial == /\ address
                  /\ ~(outbound[r][p] # None
                       /\ dial[outbound[r][p]] = "link") IN
    /\ up[r] /\ p \in Others(r) /\ adds < MaxAdds
    /\ redial => timers[r][p] < MaxTimers \/ entry[r][p] = "timer"
    /\ adds' = adds + 1
    /\ allowed' = [allowed EXCEPT ![r] = now]
    /\ origin' = [origin EXCEPT ![r] = at]
    /\ entry' = IF redial THEN Put(entry, r, p, "timer") ELSE entry
    /\ timers' = IF redial THEN Put(timers, r, p, Rearmed(r, p, entry[r][p]))
                 ELSE timers
    /\ chosen' = [chosen EXCEPT ![r] =
         [peers |-> @.peers \cup {p},
          addresses |-> IF address THEN @.addresses \cup {p} ELSE @.addresses]]
    /\ Saves(r, now, at)
    /\ UNCHANGED <<up, boot, outbound, connVars, faults, removals>>

\* transit-remove and disallowPeer: the address is forgotten, the pending
\* timer cleared, the registered links are told to close.  A dial in flight
\* and a link that is no longer registered are not touched.
DisallowPeer(r, p) ==
    LET now == allowed[r] \ {p}
        at  == origin[r] \ {p}
        dialled(c)  == outbound[r][p] = c /\ dial[c] = "link"
        answered(c) == from[c] = p /\ to[c] = r /\ answer[c] = "link" IN
    /\ up[r] /\ p \in Others(r) \cap allowed[r] /\ removals < MaxRemovals
    /\ removals' = removals + 1
    /\ allowed' = [allowed EXCEPT ![r] = now]
    /\ origin' = [origin EXCEPT ![r] = at]
    /\ timers' = Put(timers, r, p, Cleared(r, p))
    /\ entry' = Put(entry, r, p, "none")
    /\ dial' = [c \in Conn |-> IF dialled(c) THEN "closing" ELSE dial[c]]
    /\ answer' = [c \in Conn |->
                    IF answered(c) THEN "closing" ELSE answer[c]]
    /\ wire' = [c \in Conn |->
         IF dialled(c) \/ answered(c) THEN Closed(wire[c]) ELSE wire[c]]
    /\ chosen' = [chosen EXCEPT ![r] =
         [peers |-> @.peers \ {p}, addresses |-> @.addresses \ {p}]]
    /\ Saves(r, now, at)
    /\ UNCHANGED <<up, boot, outbound, ends, faults, adds>>

-----------------------------------------------------------------------------
(***************************************************************************)
(* Faults.                                                                 *)
(***************************************************************************)

\* Some connections stop carrying anything without either end being told: a
\* cable is pulled, a NAT table forgets them.
PathsLost(lost) ==
    /\ lost # {} /\ faults < MaxFaults
    /\ \A c \in lost : ~Free(c) /\ wire[c] = "up"
    /\ faults' = faults + 1
    /\ wire' = [c \in Conn |-> IF c \in lost THEN "cut" ELSE wire[c]]
    /\ UNCHANGED <<relayVars, ends, dial, answer, fileVars, adds, removals, badWrites>>

\* The process ends.  Its sockets are closed by the system, or vanish with
\* the machine; what was in memory is gone.
Crash(r) ==
    /\ up[r] /\ faults < MaxFaults
    /\ faults' = faults + 1
    /\ up' = [up EXCEPT ![r] = FALSE]
    /\ entry' = [entry EXCEPT ![r] = [p \in Relay |-> "none"]]
    /\ timers' = [timers EXCEPT ![r] = [p \in Relay |-> 0]]
    /\ boot' = [boot EXCEPT ![r] = {}]
    /\ allowed' = [allowed EXCEPT ![r] = {}]
    /\ origin' = [origin EXCEPT ![r] = {}]
    /\ outbound' = [outbound EXCEPT ![r] = [p \in Relay |-> None]]
    /\ dial' = [c \in Conn |-> IF from[c] = r THEN "gone" ELSE dial[c]]
    /\ answer' = [c \in Conn |-> IF to[c] = r THEN "gone" ELSE answer[c]]
    /\ \E w \in {"fin", "cut"} :
         wire' = [c \in Conn |->
           IF r \in {from[c], to[c]} /\ wire[c] = "up" THEN w ELSE wire[c]]
    /\ UNCHANGED <<ends, fileVars, adds, removals, badWrites>>

\* The process starts: the configured peers are allowed, and those with an
\* address dialled shortly; every peer the file holds goes through allowPeer.
Start(r) ==
    /\ ~up[r]
    /\ up' = [up EXCEPT ![r] = TRUE]
    /\ allowed' = [allowed EXCEPT ![r] = Seed[r] \cup stored[r].peers]
    /\ origin' = [origin EXCEPT ![r] = stored[r].addresses]
    /\ boot' = [boot EXCEPT ![r] = SeedAddress[r]]
    /\ entry' = [entry EXCEPT ![r] = [p \in Relay |->
         IF p \in stored[r].addresses THEN "timer" ELSE "none"]]
    /\ timers' = [timers EXCEPT ![r] = [p \in Relay |->
         IF p \in stored[r].addresses THEN 1 ELSE 0]]
    /\ loss' = [loss EXCEPT ![r] = IF @ = "none" THEN @ ELSE "lost"]
    /\ UNCHANGED <<outbound, connVars, stored, chosen, bounds>>

-----------------------------------------------------------------------------
Internal ==
    \/ \E r \in Relay : \E p \in Others(r) :
         StartUpDial(r, p) \/ TimerFires(r, p)
    \/ \E c \in Conn :
         \/ IdentityFetched(c) \/ HelloArrives(c) \/ ProofArrives(c)
         \/ ConfirmArrives(c) \/ DialFails(c)
         \/ DiallerSeesClose(c) \/ DiallerMissesPongs(c) \/ AnswererForgets(c)

External ==
    \/ \E r \in Relay, p \in Relay, address \in BOOLEAN :
         AllowPeer(r, p, address)
    \/ \E r \in Relay, p \in Relay : DisallowPeer(r, p)
    \/ \E lost \in SUBSET Conn : PathsLost(lost)
    \/ \E r \in Relay : Crash(r) \/ Start(r)

Next == Internal \/ External

Spec == Init /\ [][Next]_vars

\* Timers fire, sockets report, and answers come or their timeouts do.  A
\* relay that crashed need not start again.
Fairness ==
    /\ \A r \in Relay : \A p \in Relay :
         WF_vars(p # r /\ (StartUpDial(r, p) \/ TimerFires(r, p)))
    /\ \A c \in Conn :
         /\ WF_vars(IdentityFetched(c) \/ DialFails(c) \/ ProofArrives(c)
                    \/ DiallerSeesClose(c) \/ DiallerMissesPongs(c))
         /\ WF_vars(HelloArrives(c) \/ ConfirmArrives(c) \/ AnswererForgets(c))

FairSpec == Spec /\ Fairness

-----------------------------------------------------------------------------
\* The values the variables take; an end being closed no longer has a path that
\* carries anything.
TypeOK ==
    /\ up \in [Relay -> BOOLEAN]
    /\ allowed \in [Relay -> SUBSET Relay]
    /\ origin \in [Relay -> SUBSET Relay]
    /\ entry \in [Relay -> [Relay -> Entries]]
    /\ timers \in [Relay -> [Relay -> Nat]]
    /\ boot \in [Relay -> SUBSET Relay]
    /\ outbound \in [Relay -> [Relay -> Conn \cup {None}]]
    /\ from \in [Conn -> Relay \cup {None}] /\ to \in [Conn -> Relay \cup {None}]
    /\ dial \in [Conn -> DialStage]
    /\ answer \in [Conn -> AnswerStage]
    /\ wire \in [Conn -> Wire]
    /\ stored \in [Relay -> PeerList] /\ chosen \in [Relay -> PeerList]
    /\ \A c \in Conn : "closing" \in {dial[c], answer[c]} => wire[c] # "up"
    /\ loss \in [Relay -> Losses]
    /\ faults \in Nat /\ adds \in Nat /\ removals \in Nat /\ badWrites \in Nat

\* An entry in `dialling` holds a later dial of the peer off, so it is never
\* left without the timer or the dial in flight that takes it out again:
\* whatever allowPeer, disallowPeer, a failing dial and a falling link do to
\* it while another dial of the same peer awaits.
EntryIsBacked ==
    \A r \in Relay : \A p \in Others(r) :
      /\ entry[r][p] = "timer" => timers[r][p] > 0
      /\ entry[r][p] = "running" => \E c \in Conn : InFlight(r, p, c)

\* The links linkFor and disallowPeer look up are links of that peer that the
\* relay has: none that went, or that belongs to another peer.
RegisteredLinks ==
    \A r \in Relay : \A p \in Others(r) :
      outbound[r][p] # None =>
        LET c == outbound[r][p] IN
          from[c] = r /\ to[c] = p /\ dial[c] \in {"link", "closing"}

\* The two tables of a relay, `dialling` and the outbound links, say what is so.
TablesAreTrue == EntryIsBacked /\ RegisteredLinks

Agreed(r, p) ==
    up[r] /\ up[p] /\ p \in allowed[r] /\ r \in allowed[p]

Dialling(r, p) ==
    \/ p \in boot[r]
    \/ timers[r][p] > 0
    \/ \E c \in Conn :
         from[c] = r /\ to[c] = p /\ dial[c] # "gone"

HasAddress(r, p) == p \in origin[r] \cup boot[r] \cup stored[r].addresses

\* While no operator removed a peer and no write failed: of two running relays
\* that allow each other, the only one that has the other's address is
\* dialling, waiting to dial, or holds a link it dialled and will dial again
\* when it falls.  It is never left idle by a dial that failed, by two dials at
\* once, by a link it lost while dialling, or by a restart.
TheDiallerKeepsDialling ==
    removals = 0 /\ badWrites = 0 =>
      \A r \in Relay : \A p \in Others(r) :
        Agreed(r, p) /\ HasAddress(r, p) /\ ~HasAddress(p, r) => Dialling(r, p)

Linked(r, p) ==
    \E c \in Conn :
      /\ {from[c], to[c]} = {r, p}
      /\ dial[c] = "link" /\ answer[c] = "link"
      /\ wire[c] = "up"

\* Two relays that stay up and allow each other, one of which has the other's
\* address, end linked and stay so once the faults are over, while no operator
\* removed a peer and no write failed.
OneSidedGetLinked ==
    \A r \in Relay : \A p \in Others(r) :
      <>[](Agreed(r, p) /\ HasAddress(r, p) /\ ~HasAddress(p, r)
           /\ removals = 0 /\ badWrites = 0)
        => <>[]Linked(r, p)

\* A restart keeps the set the operator last chose (the comment above
\* saveRuntimeTransitPeers): a running relay allows every peer that was added
\* and not removed since, over any number of crashes in any order with the
\* changes, remembers the addresses given, and allows nobody else but those of
\* CHAT_TRANSIT_PEERS.  Only a write that failed and was not made up for
\* before the process ended breaks that.
KeptOverRestart ==
    \A r \in Relay : up[r] /\ loss[r] # "lost" =>
      /\ chosen[r].peers \subseteq allowed[r]
      /\ allowed[r] \subseteq chosen[r].peers \cup Seed[r]
      /\ chosen[r].addresses \subseteq origin[r]

==============================================================================
