--------------------------- MODULE RelayPeersProofs ---------------------------
(***************************************************************************)
(* Proofs about RelayPeers, for any relays, connections and bounds.        *)
(***************************************************************************)
EXTENDS RelayPeers, TLAPS

\* The ends of a connection in use are two relays.
Ends ==
    \A c \in Conn : ~Free(c) => from[c] \in Relay /\ to[c] \in Others(from[c])

\* The first half of EntryIsBacked, for the relay itself too.
TimerIsBacked ==
    \A r \in Relay : \A p \in Relay : entry[r][p] = "timer" => timers[r][p] > 0

\* The file holds what was chosen until a write of it fails.
FileKept ==
    \A r \in Relay :
      /\ chosen[r].addresses \subseteq chosen[r].peers
      /\ loss[r] = "none" =>
           /\ chosen[r].peers \subseteq stored[r].peers
           /\ stored[r].peers \subseteq chosen[r].peers \cup Seed[r]
           /\ chosen[r].addresses \subseteq stored[r].addresses

Inv ==
    /\ TypeOK
    /\ Ends
    /\ TimerIsBacked
    /\ EntryIsBacked
    /\ RegisteredLinks
    /\ KeptOverRestart
    /\ FileKept

LEMMA InitInv == Init => Inv
<1> SUFFICES ASSUME Init PROVE Inv
  OBVIOUS
<1> USE PeersAssumption
<1>1. TypeOK
  BY DEF Init, TypeOK, DialStage, AnswerStage, Wire, Entries, PeerList, NoPeers,
         Losses
<1>2. Ends
  BY DEF Init, Ends, Free
<1>3. TimerIsBacked /\ EntryIsBacked
  BY DEF Init, TimerIsBacked, EntryIsBacked, Others
<1>4. RegisteredLinks
  BY DEF Init, RegisteredLinks, Others
<1>5. KeptOverRestart /\ FileKept
  BY DEF Init, KeptOverRestart, FileKept, NoPeers
<1> QED
  BY <1>1, <1>2, <1>3, <1>4, <1>5 DEF Inv

\* What Put changes.
LEMMA PutEntry ==
    ASSUME entry \in [Relay -> [Relay -> Entries]], NEW r \in Relay, NEW p \in Relay,
           NEW x \in Entries, entry' = Put(entry, r, p, x)
    PROVE  /\ entry' \in [Relay -> [Relay -> Entries]]
           /\ entry'[r][p] = x
           /\ \A q \in Relay : \A s \in Relay :
                q # r \/ s # p => entry'[q][s] = entry[q][s]
BY DEF Put

LEMMA PutTimers ==
    ASSUME timers \in [Relay -> [Relay -> Nat]], NEW r \in Relay, NEW p \in Relay,
           NEW n \in Nat, timers' = Put(timers, r, p, n)
    PROVE  /\ timers' \in [Relay -> [Relay -> Nat]]
           /\ timers'[r][p] = n
           /\ \A q \in Relay : \A s \in Relay :
                q # r \/ s # p => timers'[q][s] = timers[q][s]
BY DEF Put

LEMMA PutOutbound ==
    ASSUME outbound \in [Relay -> [Relay -> Conn \cup {None}]],
           NEW r \in Relay, NEW p \in Relay, outbound' = Put(outbound, r, p, None)
    PROVE  /\ outbound' \in [Relay -> [Relay -> Conn \cup {None}]]
           /\ outbound'[r][p] = None
           /\ \A q \in Relay : \A s \in Relay :
                q # r \/ s # p => outbound'[q][s] = outbound[q][s]
BY DEF Put

\* An entry of another peer stays backed when its timer does not go and the
\* dials in flight to that peer go on.
LEMMA OtherEntry ==
    ASSUME EntryIsBacked, NEW q \in Relay, NEW s \in Others(q),
           entry'[q][s] = entry[q][s], timers'[q][s] >= timers[q][s],
           timers[q][s] \in Nat, timers'[q][s] \in Nat,
           \A d \in Conn : InFlight(q, s, d) => InFlight(q, s, d)'
    PROVE  /\ entry'[q][s] = "timer" => timers'[q][s] > 0
           /\ entry'[q][s] = "running" => \E d \in Conn : InFlight(q, s, d)'
BY DEF EntryIsBacked

\* A registered link stays one when the connection keeps its ends and the
\* dialler's end stands.
LEMMA OtherRegistered ==
    ASSUME TypeOK, RegisteredLinks, NEW q \in Relay, NEW s \in Others(q),
           outbound'[q][s] = outbound[q][s], outbound'[q][s] # None,
           \A d \in Conn : dial[d] \in {"link", "closing"} /\ from[d] = q /\ to[d] = s =>
             /\ from'[d] = from[d] /\ to'[d] = to[d]
             /\ dial'[d] \in {"link", "closing"} \/ outbound[q][s] # d
    PROVE  LET c == outbound'[q][s] IN
             from'[c] = q /\ to'[c] = s /\ dial'[c] \in {"link", "closing"}
<1>1. outbound[q][s] \in Conn
  BY DEF TypeOK, Others
<1> QED
  BY <1>1 DEF RegisteredLinks

\* What was chosen stays kept while neither the list nor the file changes.
LEMMA ListStands ==
    ASSUME Inv, UNCHANGED <<up, allowed, fileVars>>, origin' \in [Relay -> SUBSET Relay],
           \A q \in Relay : origin[q] \subseteq origin'[q]
    PROVE  KeptOverRestart' /\ FileKept'
<1>1. KeptOverRestart'
  <2> SUFFICES ASSUME NEW q \in Relay, up[q], loss[q] # "lost"
               PROVE  /\ chosen[q].peers \subseteq allowed[q]
                      /\ allowed[q] \subseteq chosen[q].peers \cup Seed[q]
                      /\ chosen[q].addresses \subseteq origin'[q]
    BY DEF KeptOverRestart, fileVars
  <2> QED
    BY DEF Inv, KeptOverRestart
<1>2. FileKept'
  BY DEF Inv, FileKept, fileVars
<1> QED
  BY <1>1, <1>2

(***************************************************************************)
(* A dial, up to its first await.                                          *)
(***************************************************************************)
LEMMA DialStep ==
    ASSUME Inv, NEW r \in Relay, NEW p \in Others(r), NEW held \in Entries,
           Dial(r, p, held),
           up' = up, allowed' = allowed, outbound' = outbound,
           fileVars' = fileVars, bounds' = bounds,
           timers' \in [Relay -> [Relay -> Nat]], boot' \in [Relay -> SUBSET Relay],
           held = "timer" => timers'[r][p] > 0,
           held = "running" => entry[r][p] = "running",
           \A q \in Relay : \A s \in Relay :
             q # r \/ s # p => timers'[q][s] = timers[q][s]
    PROVE  Inv'
<1> USE PeersAssumption DEF Inv, Others
<1>a. origin' = [origin EXCEPT ![r] = @ \cup {p}]
  BY DEF Dial
<1>b. KeptOverRestart' /\ FileKept'
  <2>1. origin' \in [Relay -> SUBSET Relay] /\ \A q \in Relay : origin[q] \subseteq origin'[q]
    BY <1>a DEF TypeOK
  <2> QED
    BY <2>1, ListStands DEF fileVars
<1>1. CASE p \in allowed[r] /\ ~HasLink(r, p) /\ held = "none"
  <2>1. PICK c \in Conn :
          /\ Free(c)
          /\ from' = [from EXCEPT ![c] = r]
          /\ to' = [to EXCEPT ![c] = p]
          /\ dial' = [dial EXCEPT ![c] = "fetching"]
          /\ answer' = [answer EXCEPT ![c] = "none"]
          /\ wire' = [wire EXCEPT ![c] = "up"]
    BY <1>1 DEF Dial
  <2>2. entry' = Put(entry, r, p, "running")
    BY <1>1 DEF Dial
  <2>3. TypeOK'
    BY <1>a, <2>1, <2>2 DEF TypeOK, Put, DialStage, AnswerStage, Wire, Entries, bounds, fileVars
  <2>4. Ends'
    BY <2>1 DEF TypeOK, Ends, Free
  <2>5. TimerIsBacked'
    BY <2>2 DEF TypeOK, TimerIsBacked, Put
  <2>6. EntryIsBacked'
    <3> SUFFICES ASSUME NEW q \in Relay, NEW s \in Others(q)
                 PROVE  /\ entry'[q][s] = "timer" => timers'[q][s] > 0
                        /\ entry'[q][s] = "running" => \E d \in Conn : InFlight(q, s, d)'
      BY DEF EntryIsBacked
    <3>1. CASE q = r /\ s = p
      BY <3>1, <2>1, <2>2 DEF TypeOK, Put, InFlight
    <3>2. CASE q # r \/ s # p
      <4>1. entry'[q][s] = entry[q][s] /\ timers'[q][s] = timers[q][s]
        BY <3>2, <2>2 DEF TypeOK, Put
      <4>2. \A d \in Conn : InFlight(q, s, d) => InFlight(q, s, d)'
        BY <2>1 DEF TypeOK, InFlight, Free
      <4>3. timers[q][s] \in Nat
        BY DEF TypeOK
      <4> QED
        BY <4>1, <4>2, <4>3, OtherEntry
    <3> QED
      BY <3>1, <3>2
  <2>7. RegisteredLinks'
    <3> SUFFICES ASSUME NEW q \in Relay, NEW s \in Others(q), outbound'[q][s] # None
                 PROVE  LET d == outbound'[q][s] IN
                          from'[d] = q /\ to'[d] = s /\ dial'[d] \in {"link", "closing"}
      BY DEF RegisteredLinks
    <3>1. \A d \in Conn : dial[d] \in {"link", "closing"} =>
            from'[d] = from[d] /\ to'[d] = to[d] /\ dial'[d] = dial[d]
      BY <2>1 DEF TypeOK, Free
    <3> QED
      BY <3>1, OtherRegistered
  <2> QED
    BY <1>b, <2>3, <2>4, <2>5, <2>6, <2>7
<1>2. CASE ~(p \in allowed[r] /\ ~HasLink(r, p) /\ held = "none")
  <2>1. UNCHANGED connVars /\ entry' = Put(entry, r, p, held)
    BY <1>2 DEF Dial
  <2>2. TypeOK'
    BY <1>a, <2>1 DEF TypeOK, Put, bounds, connVars, fileVars
  <2>3. Ends'
    BY <2>1 DEF Ends, Free, connVars
  <2>4. TimerIsBacked'
    BY <2>1 DEF TypeOK, TimerIsBacked, Put
  <2>5. EntryIsBacked'
    <3> SUFFICES ASSUME NEW q \in Relay, NEW s \in Others(q)
                 PROVE  /\ entry'[q][s] = "timer" => timers'[q][s] > 0
                        /\ entry'[q][s] = "running" => \E d \in Conn : InFlight(q, s, d)'
      BY DEF EntryIsBacked
    <3>a. \A d \in Conn : InFlight(q, s, d)' <=> InFlight(q, s, d)
      BY <2>1 DEF InFlight, connVars
    <3>1. CASE q = r /\ s = p
      <4>1. entry'[r][p] = held
        BY <2>1 DEF TypeOK, Put
      <4> QED
        BY <3>a, <3>1, <4>1 DEF EntryIsBacked
    <3>2. CASE q # r \/ s # p
      BY <3>a, <3>2, <2>1 DEF TypeOK, Put, EntryIsBacked
    <3> QED
      BY <3>1, <3>2
  <2>6. RegisteredLinks'
    BY <2>1 DEF RegisteredLinks, connVars
  <2> QED
    BY <1>b, <2>2, <2>3, <2>4, <2>5, <2>6
<1> QED
  BY <1>1, <1>2

LEMMA StartUpDialStep ==
    ASSUME Inv, NEW r \in Relay, NEW p \in Others(r), StartUpDial(r, p)
    PROVE  Inv'
<1>1. /\ entry[r][p] \in Entries /\ timers' = timers
      /\ entry[r][p] = "timer" => timers'[r][p] > 0
      /\ timers' \in [Relay -> [Relay -> Nat]]
      /\ boot' \in [Relay -> SUBSET Relay]
  BY DEF StartUpDial, Inv, TypeOK, TimerIsBacked, Others
<1> QED
  BY <1>1, DialStep DEF StartUpDial

LEMMA TimerFiresStep ==
    ASSUME Inv, NEW r \in Relay, NEW p \in Others(r), TimerFires(r, p)
    PROVE  Inv'
<1>1. /\ timers' \in [Relay -> [Relay -> Nat]]
      /\ boot' \in [Relay -> SUBSET Relay] /\ "none" \in Entries
  BY DEF TimerFires, Put, Inv, TypeOK, Others, Entries
<1>2. \A q \in Relay : \A s \in Relay :
        q # r \/ s # p => timers'[q][s] = timers[q][s]
  BY DEF TimerFires, Put, Inv, TypeOK, Others
<1> QED
  BY <1>1, <1>2, DialStep DEF TimerFires

(***************************************************************************)
(* The handshake, and the answerer's end.                                  *)
(***************************************************************************)
\* Steps that change nothing but connections, and the dialler's end at most
\* from fetching to hello.
LEMMA ConnStep ==
    ASSUME Inv, UNCHANGED <<relayVars, ends, fileVars>>,
           faults' \in Nat, adds' = adds, removals' = removals, badWrites' = badWrites,
           dial' \in [Conn -> DialStage], answer' \in [Conn -> AnswerStage],
           wire' \in [Conn -> Wire],
           \A c \in Conn :
             /\ \/ dial'[c] = dial[c]
                \/ dial[c] = "fetching" /\ dial'[c] = "hello"
             /\ Free(c) => Free(c)'
             /\ answer'[c] = "closing" => answer[c] = "closing"
             /\ wire'[c] = "up" => wire[c] = "up"
    PROVE  Inv'
<1> USE DEF Inv, relayVars, ends
<1>1. TypeOK'
  BY DEF TypeOK, fileVars
<1>2. Ends'
  BY DEF Ends, Others
<1>3. TimerIsBacked' /\ KeptOverRestart' /\ FileKept'
  BY ListStands DEF TimerIsBacked, TypeOK
<1>4. EntryIsBacked'
  BY DEF EntryIsBacked, InFlight, Others
<1>5. RegisteredLinks'
  <2> SUFFICES ASSUME NEW q \in Relay, NEW s \in Others(q), outbound'[q][s] # None
               PROVE  LET d == outbound'[q][s] IN
                        from'[d] = q /\ to'[d] = s /\ dial'[d] \in {"link", "closing"}
    BY DEF RegisteredLinks
  <2> QED
    BY OtherRegistered
<1> QED
  BY <1>1, <1>2, <1>3, <1>4, <1>5

LEMMA AnswerStep ==
    ASSUME Inv, NEW c \in Conn,
           \/ IdentityFetched(c) \/ HelloArrives(c) \/ ConfirmArrives(c)
           \/ AnswererForgets(c)
    PROVE  Inv'
<1> USE DEF Inv
<1>1. /\ dial' \in [Conn -> DialStage] /\ answer' \in [Conn -> AnswerStage]
      /\ wire' \in [Conn -> Wire]
  BY DEF TypeOK, IdentityFetched, HelloArrives, ConfirmArrives,
         AnswererForgets, DialStage, AnswerStage, Wire
<1>2. \A d \in Conn :
             /\ \/ dial'[d] = dial[d]
                \/ dial[d] = "fetching" /\ dial'[d] = "hello"
             /\ Free(d) => Free(d)'
             /\ answer'[d] = "closing" => answer[d] = "closing"
             /\ wire'[d] = "up" => wire[d] = "up"
  BY DEF TypeOK, IdentityFetched, HelloArrives, ConfirmArrives,
         AnswererForgets, Free
<1>3. /\ UNCHANGED <<relayVars, ends, fileVars>>
      /\ faults' \in Nat /\ adds' = adds /\ removals' = removals
      /\ badWrites' = badWrites
  BY DEF TypeOK, IdentityFetched, HelloArrives, ConfirmArrives,
         AnswererForgets, bounds
<1> QED
  BY <1>1, <1>2, <1>3, ConnStep

LEMMA PathsLostStep ==
    ASSUME Inv, NEW lost \in SUBSET Conn, PathsLost(lost)
    PROVE  Inv'
<1>1. /\ dial' \in [Conn -> DialStage] /\ answer' \in [Conn -> AnswerStage]
      /\ wire' \in [Conn -> Wire]
  BY DEF Inv, TypeOK, PathsLost, Wire
<1>2. \A d \in Conn :
        /\ dial'[d] = dial[d] /\ (Free(d) => Free(d)')
        /\ answer'[d] = answer[d]
        /\ wire'[d] = "up" => wire[d] = "up"
  BY DEF PathsLost, Free
<1>3. /\ UNCHANGED <<relayVars, ends, fileVars>>
      /\ faults' \in Nat /\ adds' = adds /\ removals' = removals
      /\ badWrites' = badWrites
  BY DEF Inv, TypeOK, PathsLost
<1> QED
  BY <1>1, <1>2, <1>3, ConnStep

LEMMA ProofArrivesStep ==
    ASSUME Inv, NEW c \in Conn, ProofArrives(c)
    PROVE  Inv'
<1> USE PeersAssumption DEF Inv
<1> DEFINE r == from[c]
           p == to[c]
<1>1. /\ r \in Relay /\ p \in Relay /\ r # p
      /\ dial[c] = "hello" /\ answer[c] = "proof"
      /\ dial' = [dial EXCEPT ![c] = "link"]
      /\ answer' = [answer EXCEPT ![c] = "confirming"]
      /\ entry' = Put(entry, r, p, "none")
      /\ outbound' = Put(outbound, r, p, c)
      /\ UNCHANGED <<up, allowed, origin, timers, boot, from, to, wire, fileVars, bounds>>
  BY DEF ProofArrives, Ends, Free, Others, ends
<1> HIDE DEF r, p
<1>2. TypeOK'
  BY <1>1 DEF TypeOK, Put, DialStage, AnswerStage, Entries, bounds, fileVars
<1>3. Ends'
  BY <1>1 DEF TypeOK, Ends, Free
<1>4. TimerIsBacked' /\ KeptOverRestart' /\ FileKept'
  BY <1>1, ListStands DEF TypeOK, TimerIsBacked, Put
<1>5. EntryIsBacked'
  <2> SUFFICES ASSUME NEW q \in Relay, NEW s \in Others(q)
               PROVE  /\ entry'[q][s] = "timer" => timers'[q][s] > 0
                      /\ entry'[q][s] = "running" => \E d \in Conn : InFlight(q, s, d)'
    BY DEF EntryIsBacked
  <2>1. CASE q = r /\ s = p
    BY <1>1, <2>1 DEF TypeOK, Put
  <2>2. CASE q # r \/ s # p
    <3>1. entry'[q][s] = entry[q][s] /\ timers'[q][s] = timers[q][s]
      BY <1>1, <2>2 DEF TypeOK, Put, Others
    <3>2. \A d \in Conn : InFlight(q, s, d) => InFlight(q, s, d)'
      BY <1>1, <2>2 DEF TypeOK, InFlight, r, p
    <3>3. timers[q][s] \in Nat
      BY DEF TypeOK, Others
    <3> QED
      BY <3>1, <3>2, <3>3, OtherEntry
  <2> QED
    BY <2>1, <2>2
<1>6. RegisteredLinks'
  <2> SUFFICES ASSUME NEW q \in Relay, NEW s \in Others(q), outbound'[q][s] # None
               PROVE  LET d == outbound'[q][s] IN
                        from'[d] = q /\ to'[d] = s /\ dial'[d] \in {"link", "closing"}
    BY DEF RegisteredLinks
  <2>1. CASE q = r /\ s = p
    BY <1>1, <2>1 DEF TypeOK, Put, r, p
  <2>2. CASE q # r \/ s # p
    <3>1. outbound'[q][s] = outbound[q][s]
      BY <1>1, <2>2 DEF TypeOK, Put, Others
    <3>2. \A d \in Conn : dial[d] \in {"link", "closing"} =>
            from'[d] = from[d] /\ to'[d] = to[d] /\ dial'[d] = dial[d]
      BY <1>1 DEF TypeOK
    <3> QED
      BY <3>1, <3>2, OtherRegistered
  <2> QED
    BY <2>1, <2>2
<1> QED
  BY <1>2, <1>3, <1>4, <1>5, <1>6

(***************************************************************************)
(* A dial that fails and a dialled link that falls: the dialler's end of   *)
(* one connection goes, and a timer is armed.                              *)
(***************************************************************************)
LEMMA EndGoesStep ==
    ASSUME Inv, NEW c \in Conn, ~Free(c), dial[c] # "gone",
           dial' = [dial EXCEPT ![c] = "gone"],
           UNCHANGED <<up, allowed, origin, boot, from, to, answer, wire, fileVars,
                       bounds>>,
           NEW held \in Entries, held = "timer" => entry[from[c]][to[c]] = "timer",
           \/ /\ entry' = Put(entry, from[c], to[c], "timer")
              /\ timers' = Put(timers, from[c], to[c], Rearmed(from[c], to[c], held))
           \/ /\ entry' = entry /\ timers' = timers
              /\ dial[c] \in {"link", "closing"},
           \/ outbound' = Unregistered(c)
           \/ outbound' = outbound /\ dial[c] \in {"fetching", "hello"}
    PROVE  Inv'
<1> USE PeersAssumption DEF Inv
<1> DEFINE r == from[c]
           p == to[c]
<1>1. r \in Relay /\ p \in Relay /\ r # p
  BY DEF Ends, Others
<1> HIDE DEF r, p
<1>a. /\ entry \in [Relay -> [Relay -> Entries]] /\ "timer" \in Entries
      /\ timers \in [Relay -> [Relay -> Nat]]
      /\ outbound \in [Relay -> [Relay -> Conn \cup {None}]]
      /\ None \in Conn \cup {None}
  BY DEF TypeOK, Entries
<1>3. Rearmed(r, p, held) \in Nat \ {0}
  BY <1>1 DEF TypeOK, Rearmed, TimerIsBacked, r, p
<1>b. Rearmed(r, p, held) \in Nat
  BY <1>3
<1>c. /\ \/ entry' = Put(entry, r, p, "timer")
            /\ timers' = Put(timers, r, p, Rearmed(r, p, held))
         \/ /\ entry' = entry /\ timers' = timers
            /\ dial[c] \in {"link", "closing"}
      /\ outbound' = Put(outbound, r, p, None) \/ outbound' = outbound
  BY DEF Unregistered, r, p
<1>d. /\ entry' \in [Relay -> [Relay -> Entries]]
      /\ \A q \in Relay : \A s \in Relay :
           q # r \/ s # p => entry'[q][s] = entry[q][s]
      /\ \/ entry'[r][p] = "timer" /\ timers' = Put(timers, r, p, Rearmed(r, p, held))
         \/ /\ entry'[r][p] = entry[r][p] /\ timers' = timers
            /\ dial[c] \in {"link", "closing"}
  BY <1>1, <1>a, <1>c, PutEntry
<1>e. /\ timers' \in [Relay -> [Relay -> Nat]]
      /\ \A q \in Relay : \A s \in Relay :
           q # r \/ s # p => timers'[q][s] = timers[q][s]
      /\ timers'[r][p] > 0 \/ timers' = timers
      /\ timers' = Put(timers, r, p, Rearmed(r, p, held)) => timers'[r][p] > 0
  BY <1>1, <1>3, <1>a, <1>b, <1>c, PutTimers
<1>f. /\ outbound' \in [Relay -> [Relay -> Conn \cup {None}]]
      /\ \A q \in Relay : \A s \in Relay :
           /\ q # r \/ s # p => outbound'[q][s] = outbound[q][s]
           /\ outbound'[q][s] \in {outbound[q][s], None}
      /\ outbound' = Put(outbound, r, p, None) => outbound'[r][p] = None
  BY <1>1, <1>a, <1>c, PutOutbound
<1>2. \A q \in Relay : \A s \in Relay :
        /\ q # r \/ s # p => /\ entry'[q][s] = entry[q][s]
                             /\ timers'[q][s] = timers[q][s]
                             /\ outbound'[q][s] = outbound[q][s]
        /\ outbound'[q][s] \in {outbound[q][s], None}
  BY <1>d, <1>e, <1>f
<1>4. /\ entry' \in [Relay -> [Relay -> Entries]]
      /\ timers' \in [Relay -> [Relay -> Nat]]
  BY <1>d, <1>e
<1>5. outbound' \in [Relay -> [Relay -> Conn \cup {None}]]
  BY <1>f
<1>6. \/ entry'[r][p] = "timer" /\ timers'[r][p] > 0
      \/ /\ entry'[r][p] = entry[r][p] /\ timers'[r][p] = timers[r][p]
         /\ dial[c] \in {"link", "closing"}
  BY <1>d, <1>e
<1>7. TypeOK'
  BY <1>4, <1>5 DEF TypeOK, DialStage, bounds, fileVars
<1>8. Ends'
  BY DEF TypeOK, Ends, Free
<1>9. TimerIsBacked'
  BY <1>1, <1>2, <1>6 DEF TimerIsBacked
<1>10. EntryIsBacked'
  <2> SUFFICES ASSUME NEW q \in Relay, NEW s \in Others(q)
               PROVE  /\ entry'[q][s] = "timer" => timers'[q][s] > 0
                      /\ entry'[q][s] = "running" => \E d \in Conn : InFlight(q, s, d)'
    BY DEF EntryIsBacked
  <2>1. CASE entry'[q][s] = "timer" /\ q = r /\ s = p
    BY <2>1, <1>1, <1>6, <1>9 DEF TimerIsBacked
  <2>2. CASE \/ q # r \/ s # p
             \/ dial[c] \in {"link", "closing"} /\ entry'[q][s] # "timer"
    <3>1. entry'[q][s] = entry[q][s] /\ (q # r \/ s # p => timers'[q][s] = timers[q][s])
      BY <2>2, <1>1, <1>2, <1>6 DEF Others
    <3>2. \A d \in Conn : InFlight(q, s, d) => InFlight(q, s, d)'
      BY <2>2 DEF TypeOK, InFlight, r, p
    <3> QED
      BY <2>2, <3>1, <3>2 DEF EntryIsBacked
  <2>3. \/ entry'[q][s] = "timer" /\ q = r /\ s = p
        \/ q # r \/ s # p
        \/ dial[c] \in {"link", "closing"} /\ entry'[q][s] # "timer"
    BY <1>6
  <2> QED
    BY <2>1, <2>2, <2>3
<1>11. RegisteredLinks'
  <2> SUFFICES ASSUME NEW q \in Relay, NEW s \in Others(q), outbound'[q][s] # None
               PROVE  LET d == outbound'[q][s] IN
                        from'[d] = q /\ to'[d] = s /\ dial'[d] \in {"link", "closing"}
    BY DEF RegisteredLinks
  <2>1. outbound'[q][s] = outbound[q][s] /\ outbound[q][s] \in Conn
    BY <1>2 DEF TypeOK, Others
  <2>2. from[outbound[q][s]] = q /\ to[outbound[q][s]] = s
        /\ dial[outbound[q][s]] \in {"link", "closing"}
    BY <2>1 DEF RegisteredLinks
  <2>3. outbound[q][s] # c
    <3>1. CASE outbound' = Unregistered(c)
      <4>1. CASE q = r /\ s = p
        BY <4>1, <3>1, <2>1, <1>f DEF Unregistered, r, p
      <4>2. CASE q # r \/ s # p
        BY <4>2, <2>2 DEF r, p
      <4> QED
        BY <4>1, <4>2
    <3>2. CASE dial[c] \in {"fetching", "hello"}
      BY <3>2, <2>2
    <3> QED
      BY <3>1, <3>2
  <2> QED
    BY <2>1, <2>2, <2>3 DEF TypeOK
<1>12. KeptOverRestart' /\ FileKept'
  BY ListStands DEF TypeOK
<1> QED
  BY <1>7, <1>8, <1>9, <1>10, <1>11, <1>12

LEMMA DialFailsStep ==
    ASSUME Inv, NEW c \in Conn, DialFails(c)
    PROVE  Inv'
<1>1. dial[c] \in {"fetching", "hello"} /\ dial[c] # "gone" /\ ~Free(c)
  BY DEF DialFails, Free
<1>2. "none" \in Entries
  BY DEF Entries
<1> QED
  BY <1>1, <1>2, EndGoesStep DEF DialFails, ends

LEMMA ForgetDialledStep ==
    ASSUME Inv, NEW c \in Conn, DiallerSeesClose(c) \/ DiallerMissesPongs(c)
    PROVE  Inv'
<1>1. ForgetDialled(c) /\ dial[c] \in {"link", "closing"}
  BY DEF DiallerSeesClose, DiallerMissesPongs
<1>2. dial[c] # "gone" /\ ~Free(c)
  BY <1>1 DEF Free
<1>3. from[c] \in Relay /\ to[c] \in Relay
  BY <1>2 DEF Inv, Ends, Others
<1>4. entry[from[c]][to[c]] \in Entries
  BY <1>3 DEF Inv, TypeOK
<1> DEFINE held == entry[from[c]][to[c]]
<1>5. \/ /\ entry' = Put(entry, from[c], to[c], "timer")
         /\ timers' = Put(timers, from[c], to[c], Rearmed(from[c], to[c], held))
      \/ entry' = entry /\ timers' = timers
  BY <1>1 DEF ForgetDialled
<1> QED
  BY <1>1, <1>2, <1>4, <1>5, EndGoesStep DEF ForgetDialled, ends

(***************************************************************************)
(* The list of peers, crash and start.                                     *)
(***************************************************************************)
\* A write of the file, of the list as it becomes.
LEMMA SavesKept ==
    ASSUME Inv, NEW r \in Relay, up[r], NEW now \in SUBSET Relay, NEW at \in SUBSET Relay,
           Saves(r, now, at), up' = up,
           allowed' = [allowed EXCEPT ![r] = now],
           origin' = [origin EXCEPT ![r] = at],
           NEW mine \in PeerList, chosen' = [chosen EXCEPT ![r] = mine],
           mine.addresses \subseteq mine.peers,
           loss[r] # "lost" => /\ mine.peers \subseteq now
                               /\ now \subseteq mine.peers \cup Seed[r]
                               /\ mine.addresses \subseteq at
    PROVE  /\ stored' \in [Relay -> PeerList] /\ chosen' \in [Relay -> PeerList]
           /\ loss' \in [Relay -> Losses] /\ badWrites' \in Nat
           /\ KeptOverRestart' /\ FileKept'
<1> USE PeersAssumption DEF Inv
<1>1. chosen' \in [Relay -> PeerList] /\ badWrites' \in Nat
  BY DEF TypeOK, Saves
<1>a. NoPeers \in PeerList /\ [peers |-> now, addresses |-> now \cap at] \in PeerList
  BY DEF NoPeers, PeerList
<1>2. /\ loss' \in [Relay -> Losses]
      /\ \A q \in Relay : q # r => loss'[q] = loss[q]
      /\ loss'[r] # "lost" => loss[r] # "lost"
  <2>1. CASE loss' = [loss EXCEPT ![r] = IF @ = "lost" THEN @ ELSE "none"]
    BY <2>1 DEF TypeOK, Losses
  <2>2. CASE loss' = [loss EXCEPT ![r] = IF @ = "lost" THEN @ ELSE "unwritten"]
    BY <2>2 DEF TypeOK, Losses
  <2> QED
    BY <2>1, <2>2 DEF Saves
<1>3. /\ stored' \in [Relay -> PeerList]
      /\ \A q \in Relay : q # r => stored'[q] = stored[q]
      /\ loss'[r] = "none" => stored'[r].peers = now /\ stored'[r].addresses = now \cap at
  <2>1. CASE stored' = Kept(r, now, at)
    BY <2>1, <1>a DEF TypeOK, Kept
  <2>2. CASE /\ stored' \in {stored, [stored EXCEPT ![r] = NoPeers]}
             /\ loss' = [loss EXCEPT ![r] = IF @ = "lost" THEN @ ELSE "unwritten"]
    <3>1. loss'[r] # "none"
      BY <2>2 DEF TypeOK
    <3>2. stored \in [Relay -> PeerList]
      BY DEF TypeOK
    <3>3. CASE stored' = stored
      BY <3>1, <3>2, <3>3
    <3>4. CASE stored' = [stored EXCEPT ![r] = NoPeers]
      BY <3>1, <3>2, <3>4, <1>a
    <3> QED
      BY <2>2, <3>3, <3>4
  <2> QED
    BY <2>1, <2>2 DEF Saves
<1>4. /\ chosen'[r] = mine /\ allowed'[r] = now /\ origin'[r] = at
      /\ \A q \in Relay : q # r => /\ chosen'[q] = chosen[q] /\ allowed'[q] = allowed[q]
                                   /\ origin'[q] = origin[q]
  BY DEF TypeOK
<1>5. KeptOverRestart'
  <2> SUFFICES ASSUME NEW q \in Relay, up[q], loss'[q] # "lost"
               PROVE  /\ chosen'[q].peers \subseteq allowed'[q]
                      /\ allowed'[q] \subseteq chosen'[q].peers \cup Seed[q]
                      /\ chosen'[q].addresses \subseteq origin'[q]
    BY DEF KeptOverRestart
  <2> QED
    BY <1>2, <1>4 DEF KeptOverRestart
<1>6. FileKept'
  <2> SUFFICES ASSUME NEW q \in Relay
               PROVE  /\ chosen'[q].addresses \subseteq chosen'[q].peers
                      /\ loss'[q] = "none" =>
                           /\ chosen'[q].peers \subseteq stored'[q].peers
                           /\ stored'[q].peers \subseteq chosen'[q].peers \cup Seed[q]
                           /\ chosen'[q].addresses \subseteq stored'[q].addresses
    BY DEF FileKept
  <2>1. CASE q = r
    BY <2>1, <1>2, <1>3, <1>4
  <2>2. CASE q # r
    BY <2>2, <1>2, <1>3, <1>4 DEF FileKept
  <2> QED
    BY <2>1, <2>2
<1> QED
  BY <1>1, <1>2, <1>3, <1>5, <1>6

LEMMA AllowPeerStep ==
    ASSUME Inv, NEW r \in Relay, NEW p \in Relay, NEW address \in BOOLEAN,
           AllowPeer(r, p, address)
    PROVE  Inv'
<1> USE PeersAssumption DEF Inv
<1>1. p \in Others(r) /\ up[r]
  BY DEF AllowPeer
<1>2. /\ UNCHANGED <<up, boot, outbound, from, to, dial, answer, wire, faults, removals>>
      /\ adds' = adds + 1
      /\ allowed' = [allowed EXCEPT ![r] = allowed[r] \cup {p}]
      /\ origin' = [origin EXCEPT ![r] =
           IF address THEN origin[r] \cup {p} ELSE origin[r]]
      /\ Saves(r, allowed[r] \cup {p},
               IF address THEN origin[r] \cup {p} ELSE origin[r])
      /\ \/ entry' = entry /\ timers' = timers
         \/ /\ entry' = Put(entry, r, p, "timer")
            /\ timers' = Put(timers, r, p, Rearmed(r, p, entry[r][p]))
  BY DEF AllowPeer, connVars
<1>3. Rearmed(r, p, entry[r][p]) \in Nat \ {0}
  BY <1>1 DEF TypeOK, Rearmed, TimerIsBacked, Others
<1>a. /\ entry \in [Relay -> [Relay -> Entries]] /\ "timer" \in Entries
      /\ timers \in [Relay -> [Relay -> Nat]]
  BY DEF TypeOK, Entries
<1>b. Rearmed(r, p, entry[r][p]) \in Nat
  BY <1>3
<1> DEFINE at == IF address THEN origin[r] \cup {p} ELSE origin[r]
           mine == [peers |-> chosen[r].peers \cup {p},
                    addresses |-> IF address THEN chosen[r].addresses \cup {p}
                                  ELSE chosen[r].addresses]
<1>4. /\ stored' \in [Relay -> PeerList] /\ chosen' \in [Relay -> PeerList]
      /\ loss' \in [Relay -> Losses] /\ badWrites' \in Nat
      /\ KeptOverRestart' /\ FileKept'
  <2>1. chosen[r] \in PeerList
    BY DEF TypeOK
  <2>3. chosen' = [chosen EXCEPT ![r] = mine]
    BY DEF AllowPeer
  <2>4. mine \in PeerList /\ at \in SUBSET Relay /\ allowed[r] \cup {p} \in SUBSET Relay
    BY <2>1 DEF TypeOK, PeerList
  <2>5. mine.addresses \subseteq mine.peers
    BY DEF FileKept
  <2>6. loss[r] # "lost" => /\ mine.peers \subseteq allowed[r] \cup {p}
                            /\ allowed[r] \cup {p} \subseteq mine.peers \cup Seed[r]
                            /\ mine.addresses \subseteq at
    BY <1>1 DEF KeptOverRestart
  <2> HIDE DEF mine, at
  <2>7. /\ up' = up /\ origin' = [origin EXCEPT ![r] = at]
        /\ Saves(r, allowed[r] \cup {p}, at)
    BY <1>2 DEF at
  <2> QED
    BY <1>1, <1>2, <2>3, <2>4, <2>5, <2>6, <2>7, SavesKept
<1> HIDE DEF at, mine
<1>d. /\ entry' \in [Relay -> [Relay -> Entries]]
      /\ \A q \in Relay : \A s \in Relay :
           \/ entry'[q][s] = entry[q][s] /\ (q # r \/ s # p \/ timers' = timers)
           \/ q = r /\ s = p /\ entry'[q][s] = "timer"
              /\ timers' = Put(timers, r, p, Rearmed(r, p, entry[r][p]))
  BY <1>2, <1>a, PutEntry
<1>e. /\ timers' \in [Relay -> [Relay -> Nat]]
      /\ timers' = Put(timers, r, p, Rearmed(r, p, entry[r][p])) => timers'[r][p] > 0
      /\ \A q \in Relay : \A s \in Relay :
           q # r \/ s # p => timers'[q][s] = timers[q][s]
  BY <1>2, <1>3, <1>a, <1>b, PutTimers
<1>5. /\ entry' \in [Relay -> [Relay -> Entries]]
      /\ timers' \in [Relay -> [Relay -> Nat]]
  BY <1>d, <1>e
<1>6. TypeOK'
  <2>1. allowed' \in [Relay -> SUBSET Relay] /\ origin' \in [Relay -> SUBSET Relay]
    BY <1>2 DEF TypeOK
  <2>2. adds' \in Nat
    BY <1>2 DEF TypeOK
  <2> QED
    BY <1>2, <1>4, <1>5, <2>1, <2>2 DEF TypeOK
<1>7. Ends'
  BY <1>2 DEF Ends, Free
<1>8. \A q \in Relay : \A s \in Relay :
        \/ entry'[q][s] = entry[q][s] /\ timers'[q][s] = timers[q][s]
        \/ entry'[q][s] = "timer" /\ timers'[q][s] > 0
  BY <1>d, <1>e
<1>9. TimerIsBacked'
  BY <1>8 DEF TimerIsBacked
<1>10. EntryIsBacked'
  BY <1>2, <1>8 DEF EntryIsBacked, InFlight, Others
<1>11. RegisteredLinks'
  BY <1>2 DEF RegisteredLinks
<1> QED
  BY <1>4, <1>6, <1>7, <1>9, <1>10, <1>11

LEMMA DisallowPeerStep ==
    ASSUME Inv, NEW r \in Relay, NEW p \in Relay, DisallowPeer(r, p)
    PROVE  Inv'
<1> USE PeersAssumption DEF Inv
<1>1. p \in Others(r) /\ up[r]
  BY DEF DisallowPeer
<1>2. /\ UNCHANGED <<up, boot, outbound, from, to, faults, adds>>
      /\ removals' = removals + 1
      /\ allowed' = [allowed EXCEPT ![r] = allowed[r] \ {p}]
      /\ origin' = [origin EXCEPT ![r] = origin[r] \ {p}]
      /\ Saves(r, allowed[r] \ {p}, origin[r] \ {p})
      /\ entry' = Put(entry, r, p, "none")
      /\ timers' = Put(timers, r, p, Cleared(r, p))
  BY DEF DisallowPeer, ends
<1>3. \A c \in Conn :
        \/ dial'[c] = dial[c]
        \/ dial'[c] = "closing" /\ dial[c] = "link"
  BY DEF DisallowPeer
<1>4. \A c \in Conn :
        \/ answer'[c] = answer[c]
        \/ answer'[c] = "closing" /\ answer[c] = "link"
  BY DEF DisallowPeer
<1>5. /\ dial' \in [Conn -> DialStage] /\ answer' \in [Conn -> AnswerStage]
      /\ wire' \in [Conn -> Wire]
      /\ \A c \in Conn : "closing" \in {dial'[c], answer'[c]} => wire'[c] # "up"
  BY DEF DisallowPeer, TypeOK, DialStage, AnswerStage, Wire, Closed
<1>6. Cleared(r, p) \in Nat
  BY <1>1 DEF TypeOK, Cleared, TimerIsBacked, Others
<1> DEFINE now == allowed[r] \ {p}
           at == origin[r] \ {p}
           mine == [peers |-> chosen[r].peers \ {p},
                    addresses |-> chosen[r].addresses \ {p}]
<1>7. /\ stored' \in [Relay -> PeerList] /\ chosen' \in [Relay -> PeerList]
      /\ loss' \in [Relay -> Losses] /\ badWrites' \in Nat
      /\ KeptOverRestart' /\ FileKept'
  <2>1. chosen[r] \in PeerList
    BY DEF TypeOK
  <2>3. chosen' = [chosen EXCEPT ![r] = mine]
    BY DEF DisallowPeer
  <2>4. mine \in PeerList /\ at \in SUBSET Relay /\ now \in SUBSET Relay
    BY <2>1 DEF TypeOK, PeerList
  <2>5. mine.addresses \subseteq mine.peers
    BY DEF FileKept
  <2>6. loss[r] # "lost" => /\ mine.peers \subseteq now
                            /\ now \subseteq mine.peers \cup Seed[r]
                            /\ mine.addresses \subseteq at
    BY <1>1 DEF KeptOverRestart
  <2>7. /\ up' = up /\ Saves(r, now, at)
        /\ allowed' = [allowed EXCEPT ![r] = now]
        /\ origin' = [origin EXCEPT ![r] = at]
    BY <1>2
  <2> HIDE DEF mine, now, at
  <2> QED
    BY <1>1, <2>3, <2>4, <2>5, <2>6, <2>7, SavesKept
<1> HIDE DEF mine, now, at
<1>8. TypeOK'
  <2>1. allowed' \in [Relay -> SUBSET Relay] /\ origin' \in [Relay -> SUBSET Relay]
    BY <1>2 DEF TypeOK
  <2>2. entry' \in [Relay -> [Relay -> Entries]] /\ timers' \in [Relay -> [Relay -> Nat]]
    BY <1>2, <1>6, PutEntry, PutTimers DEF TypeOK, Entries
  <2>3. removals' \in Nat
    BY <1>2 DEF TypeOK
  <2> QED
    BY <1>2, <1>5, <1>7, <2>1, <2>2, <2>3 DEF TypeOK
<1>9. Ends'
  BY <1>2, <1>3, <1>4 DEF Ends, Free
<1>10. TimerIsBacked'
  BY <1>1, <1>2 DEF TypeOK, TimerIsBacked, Put, Others
<1>11. EntryIsBacked'
  <2> SUFFICES ASSUME NEW q \in Relay, NEW s \in Others(q)
               PROVE  /\ entry'[q][s] = "timer" => timers'[q][s] > 0
                      /\ entry'[q][s] = "running" => \E d \in Conn : InFlight(q, s, d)'
    BY DEF EntryIsBacked
  <2>1. CASE q = r /\ s = p
    BY <1>1, <1>2, <2>1 DEF TypeOK, Put, Others
  <2>2. CASE q # r \/ s # p
    <3>1. entry'[q][s] = entry[q][s] /\ timers'[q][s] = timers[q][s]
      BY <1>1, <1>2, <2>2 DEF TypeOK, Put, Others
    <3>2. \A d \in Conn : InFlight(q, s, d) => InFlight(q, s, d)'
      BY <1>2, <1>3 DEF InFlight
    <3>3. timers[q][s] \in Nat
      BY DEF TypeOK, Others
    <3> QED
      BY <3>1, <3>2, <3>3, OtherEntry
  <2> QED
    BY <2>1, <2>2
<1>12. RegisteredLinks'
  <2> SUFFICES ASSUME NEW q \in Relay, NEW s \in Others(q), outbound'[q][s] # None
               PROVE  LET d == outbound'[q][s] IN
                        from'[d] = q /\ to'[d] = s /\ dial'[d] \in {"link", "closing"}
    BY DEF RegisteredLinks
  <2> QED
    BY <1>2, <1>3, OtherRegistered
<1> QED
  BY <1>7, <1>8, <1>9, <1>10, <1>11, <1>12

LEMMA CrashStep ==
    ASSUME Inv, NEW r \in Relay, Crash(r)
    PROVE  Inv'
<1> USE PeersAssumption DEF Inv
<1>1. /\ up' = [up EXCEPT ![r] = FALSE]
      /\ entry' = [entry EXCEPT ![r] = [p \in Relay |-> "none"]]
      /\ timers' = [timers EXCEPT ![r] = [p \in Relay |-> 0]]
      /\ boot' = [boot EXCEPT ![r] = {}]
      /\ allowed' = [allowed EXCEPT ![r] = {}]
      /\ origin' = [origin EXCEPT ![r] = {}]
      /\ outbound' = [outbound EXCEPT ![r] = [p \in Relay |-> None]]
      /\ dial' = [c \in Conn |-> IF from[c] = r THEN "gone" ELSE dial[c]]
      /\ answer' = [c \in Conn |-> IF to[c] = r THEN "gone" ELSE answer[c]]
      /\ UNCHANGED <<from, to, fileVars, adds, removals, badWrites>>
      /\ faults' = faults + 1
  BY DEF Crash, ends
<1>2. /\ wire' \in [Conn -> Wire]
      /\ \A c \in Conn : wire'[c] = "up" => wire[c] = "up"
  BY DEF Crash, TypeOK, Wire
<1>3. TypeOK'
  BY <1>1, <1>2 DEF TypeOK, Entries, DialStage, AnswerStage, fileVars
<1>4. Ends'
  BY <1>1 DEF TypeOK, Ends, Free
<1>5. TimerIsBacked'
  BY <1>1 DEF TypeOK, TimerIsBacked
<1>6. EntryIsBacked'
  BY <1>1 DEF TypeOK, EntryIsBacked, InFlight, Others
<1>7. RegisteredLinks'
  <2> SUFFICES ASSUME NEW q \in Relay, NEW s \in Others(q), outbound'[q][s] # None
               PROVE  LET d == outbound'[q][s] IN
                        from'[d] = q /\ to'[d] = s /\ dial'[d] \in {"link", "closing"}
    BY DEF RegisteredLinks
  <2>1. q # r /\ outbound'[q][s] = outbound[q][s]
    BY <1>1 DEF TypeOK, Others
  <2>2. \A d \in Conn : dial[d] \in {"link", "closing"} /\ from[d] = q =>
          dial'[d] = dial[d]
    BY <1>1, <2>1 DEF TypeOK
  <2>3. from' = from /\ to' = to
    BY <1>1
  <2> QED
    BY <2>1, <2>2, <2>3, OtherRegistered
<1>8. KeptOverRestart' /\ FileKept'
  <2>1. KeptOverRestart'
    BY <1>1 DEF TypeOK, KeptOverRestart, fileVars
  <2>2. FileKept'
    BY <1>1 DEF FileKept, fileVars
  <2> QED
    BY <2>1, <2>2
<1> QED
  BY <1>3, <1>4, <1>5, <1>6, <1>7, <1>8

LEMMA StartStep ==
    ASSUME Inv, NEW r \in Relay, Start(r)
    PROVE  Inv'
<1> USE PeersAssumption DEF Inv
<1>1. /\ up' = [up EXCEPT ![r] = TRUE]
      /\ allowed' = [allowed EXCEPT ![r] = Seed[r] \cup stored[r].peers]
      /\ origin' = [origin EXCEPT ![r] = stored[r].addresses]
      /\ boot' = [boot EXCEPT ![r] = SeedAddress[r]]
      /\ entry' = [entry EXCEPT ![r] = [p \in Relay |->
           IF p \in stored[r].addresses THEN "timer" ELSE "none"]]
      /\ timers' = [timers EXCEPT ![r] = [p \in Relay |->
           IF p \in stored[r].addresses THEN 1 ELSE 0]]
      /\ loss' = [loss EXCEPT ![r] = IF @ = "none" THEN @ ELSE "lost"]
      /\ UNCHANGED <<outbound, from, to, dial, answer, wire, stored, chosen, bounds>>
  BY DEF Start, connVars
<1>2. TypeOK'
  BY <1>1 DEF TypeOK, Entries, bounds, PeerList, Losses
<1>3. Ends'
  BY <1>1 DEF Ends, Free
<1>4. TimerIsBacked'
  BY <1>1 DEF TypeOK, TimerIsBacked
<1>5. EntryIsBacked'
  BY <1>1 DEF TypeOK, EntryIsBacked, InFlight, Others
<1>6. RegisteredLinks'
  BY <1>1 DEF RegisteredLinks
<1>7. KeptOverRestart' /\ FileKept'
  <2>1. /\ loss'[r] # "lost" => loss[r] = "none"
        /\ \A q \in Relay : /\ q # r => loss'[q] = loss[q]
                            /\ loss'[q] = "none" => loss[q] = "none"
    BY <1>1 DEF TypeOK
  <2>2. KeptOverRestart'
    <3> SUFFICES ASSUME NEW q \in Relay, up'[q], loss'[q] # "lost"
                 PROVE  /\ chosen[q].peers \subseteq allowed'[q]
                        /\ allowed'[q] \subseteq chosen[q].peers \cup Seed[q]
                        /\ chosen[q].addresses \subseteq origin'[q]
      BY <1>1 DEF KeptOverRestart
    <3>1. CASE q = r
      BY <3>1, <1>1, <2>1 DEF TypeOK, FileKept
    <3>2. CASE q # r
      BY <3>2, <1>1, <2>1 DEF TypeOK, KeptOverRestart
    <3> QED
      BY <3>1, <3>2
  <2>3. FileKept'
    BY <1>1, <2>1 DEF FileKept
  <2> QED
    BY <2>2, <2>3
<1> QED
  BY <1>2, <1>3, <1>4, <1>5, <1>6, <1>7

LEMMA NextInv == Inv /\ [Next]_vars => Inv'
<1> SUFFICES ASSUME Inv, [Next]_vars PROVE Inv'
  OBVIOUS
<1>1. CASE UNCHANGED vars
  BY <1>1 DEF Inv, vars, TypeOK, Ends, Free, TimerIsBacked, EntryIsBacked, InFlight,
              RegisteredLinks, KeptOverRestart, FileKept, fileVars, bounds, relayVars
<1>2. ASSUME NEW r \in Relay, NEW p \in Others(r),
             StartUpDial(r, p) \/ TimerFires(r, p)
      PROVE  Inv'
  BY <1>2, StartUpDialStep, TimerFiresStep
<1>3. ASSUME NEW c \in Conn,
             \/ IdentityFetched(c) \/ HelloArrives(c) \/ ProofArrives(c)
             \/ ConfirmArrives(c) \/ DialFails(c)
             \/ DiallerSeesClose(c) \/ DiallerMissesPongs(c) \/ AnswererForgets(c)
      PROVE  Inv'
  BY <1>3, AnswerStep, ProofArrivesStep, DialFailsStep, ForgetDialledStep
<1>4. ASSUME NEW r \in Relay, NEW p \in Relay, NEW address \in BOOLEAN,
             AllowPeer(r, p, address) \/ DisallowPeer(r, p)
      PROVE  Inv'
  BY <1>4, AllowPeerStep, DisallowPeerStep
<1>5. ASSUME NEW lost \in SUBSET Conn, PathsLost(lost) PROVE Inv'
  BY <1>5, PathsLostStep
<1>6. ASSUME NEW r \in Relay, Crash(r) \/ Start(r) PROVE Inv'
  BY <1>6, CrashStep, StartStep
<1> QED
  BY <1>1, <1>2, <1>3, <1>4, <1>5, <1>6 DEF Next, Internal, External

LEMMA Invariant == Spec => []Inv
BY InitInv, NextInv, PTL DEF Spec

\* Every reachable state has the declared types: whatever timers and entries
\* are cleared and armed twice, no count of timers goes below zero.
THEOREM TypeCorrect == Spec => []TypeOK
<1>1. Inv => TypeOK
  BY DEF Inv
<1> QED
  BY <1>1, Invariant, PTL

\* No entry of `dialling` is left behind to hold off later dials of its peer.
THEOREM EntriesBacked == Spec => []EntryIsBacked
<1>1. Inv => EntryIsBacked
  BY DEF Inv
<1> QED
  BY <1>1, Invariant, PTL

\* The outbound table holds nothing but links of that peer that stand or are
\* being closed.
THEOREM LinksRegistered == Spec => []RegisteredLinks
<1>1. Inv => RegisteredLinks
  BY DEF Inv
<1> QED
  BY <1>1, Invariant, PTL

\* Both tables together, for any number of relays, dials and faults.
THEOREM TablesTrue == Spec => []TablesAreTrue
<1> QED
  BY EntriesBacked, LinksRegistered, PTL DEF TablesAreTrue

\* Over any number of crashes, in any order with the changes: a running relay
\* allows the peers the operator last chose, with their addresses, and nobody
\* else but those the environment names, unless a write of the file failed.
THEOREM PeersKept == Spec => []KeptOverRestart
<1>1. Inv => KeptOverRestart
  BY DEF Inv
<1> QED
  BY <1>1, Invariant, PTL

(***************************************************************************)
(* The only relay of two that has the other's address keeps dialling.      *)
(***************************************************************************)
\* The addresses a relay has whether it runs or not.
Known(r) == stored[r].addresses \cup SeedAddress[r]

\* While no peer was removed and no write failed: a running relay remembers or is about to dial
\* exactly those, and allows them; only they are dialled or linked; and the
\* relay is dialling unless the other may be.
Remembered ==
    \A r \in Relay : up[r] =>
      /\ origin[r] \cup boot[r] = Known(r) /\ Known(r) \subseteq allowed[r]
      /\ stored[r].addresses \subseteq origin[r]
TimersKnown ==
    \A r \in Relay : \A p \in Relay : timers[r][p] > 0 => p \in origin[r]
ConnsKnown ==
    \A c \in Conn : \A r \in Relay : \A p \in Relay :
      ~Free(c) /\ from[c] = r /\ to[c] = p =>
        /\ p \in Known(r)
        /\ dial[c] # "gone" => up[r] /\ p \in origin[r]
KeepsDialling ==
    \A r \in Relay : \A p \in Others(r) :
      up[r] /\ p \in Known(r) /\ r \notin Known(p) => Dialling(r, p)

Steady == Remembered /\ TimersKnown /\ ConnsKnown /\ KeepsDialling

AddressesArePeers == \A r \in Relay : stored[r].addresses \subseteq stored[r].peers

DInv == AddressesArePeers /\ (removals = 0 /\ badWrites = 0 => Steady)

LEMMA InitDInv == Init => DInv
<1> SUFFICES ASSUME Init PROVE DInv
  OBVIOUS
<1> USE PeersAssumption
<1>1. AddressesArePeers
  BY DEF Init, AddressesArePeers, NoPeers
<1>2. Remembered
  BY DEF Init, Remembered, Known, NoPeers
<1>3. TimersKnown
  BY DEF Init, TimersKnown
<1>4. ConnsKnown
  BY DEF Init, ConnsKnown, Free
<1>5. KeepsDialling
  BY DEF Init, KeepsDialling, Dialling, Known, Others, NoPeers
<1> QED
  BY <1>1, <1>2, <1>3, <1>4, <1>5 DEF DInv, Steady

\* A dial that is not begun leaves its peer to a timer or a dial of its own,
\* or to a link the other relay dialled.
LEMMA DialSteady ==
    ASSUME Inv, Steady, NEW r \in Relay, NEW p \in Others(r), up[r],
           NEW held \in Entries, Dial(r, p, held),
           UNCHANGED <<up, allowed, outbound, stored>>,
           p \in origin[r] \cup boot[r],
           boot' = [boot EXCEPT ![r] = @ \ {p}] \/ boot' = boot,
           held = "timer" => timers'[r][p] > 0,
           held = "running" => entry[r][p] = "running",
           \A q \in Relay : \A s \in Relay :
             /\ q # r \/ s # p => timers'[q][s] = timers[q][s]
    PROVE  Steady'
<1> USE PeersAssumption DEF Others
<1>1. origin' = [origin EXCEPT ![r] = @ \cup {p}]
  BY DEF Dial
<1>2. \A q \in Relay : Known(q)' = Known(q)
  BY DEF Known
<1>3. p \in Known(r) /\ p \in allowed[r]
  BY DEF Steady, Remembered
<1>4. Remembered'
  <2> SUFFICES ASSUME NEW q \in Relay, up[q]
               PROVE  /\ origin'[q] \cup boot'[q] = Known(q)
                      /\ Known(q) \subseteq allowed[q]
                      /\ stored[q].addresses \subseteq origin'[q]
    BY <1>2 DEF Remembered
  <2>1. CASE q = r
    BY <2>1, <1>1, <1>3 DEF Inv, TypeOK, Steady, Remembered
  <2>2. CASE q # r
    BY <2>2, <1>1 DEF Inv, TypeOK, Steady, Remembered
  <2> QED
    BY <2>1, <2>2
<1>5. TimersKnown'
  BY <1>1 DEF Inv, TypeOK, Steady, TimersKnown
<1>6. CASE p \in allowed[r] /\ ~HasLink(r, p) /\ held = "none"
  <2>1. PICK c \in Conn :
          /\ Free(c)
          /\ from' = [from EXCEPT ![c] = r]
          /\ to' = [to EXCEPT ![c] = p]
          /\ dial' = [dial EXCEPT ![c] = "fetching"]
          /\ answer' = [answer EXCEPT ![c] = "none"]
    BY <1>6 DEF Dial
  <2>2. from'[c] = r /\ to'[c] = p /\ dial'[c] = "fetching"
    BY <2>1 DEF Inv, TypeOK
  <2>3. \A d \in Conn : d # c =>
          /\ from'[d] = from[d] /\ to'[d] = to[d] /\ dial'[d] = dial[d]
          /\ answer'[d] = answer[d]
    BY <2>1 DEF Inv, TypeOK
  <2>4. p \in origin'[r] /\ \A q \in Relay : origin[q] \subseteq origin'[q]
    BY <1>1 DEF Inv, TypeOK
  <2>5. ConnsKnown'
    <3> SUFFICES ASSUME NEW d \in Conn, NEW q \in Relay, NEW s \in Relay,
                        ~Free(d)', from'[d] = q, to'[d] = s
                 PROVE  s \in Known(q) /\ (dial'[d] # "gone" => up'[q] /\ s \in origin'[q])
      BY <1>2 DEF ConnsKnown
    <3>1. CASE d = c
      BY <3>1, <2>2, <2>4, <1>3
    <3>2. CASE d # c
      <4>1. ~Free(d) /\ from[d] = q /\ to[d] = s
        BY <3>2, <2>3 DEF Free
      <4> QED
        BY <3>2, <4>1, <2>3, <2>4 DEF Steady, ConnsKnown
    <3> QED
      BY <3>1, <3>2
  <2>6. KeepsDialling'
    <3> SUFFICES ASSUME NEW q \in Relay, NEW s \in Others(q),
                        up[q], s \in Known(q), q \notin Known(s)
                 PROVE  Dialling(q, s)'
      BY <1>2 DEF KeepsDialling
    <3>1. CASE q = r /\ s = p
      BY <3>1, <2>2 DEF Dialling
    <3>2. CASE q # r \/ s # p
      <4>1. Dialling(q, s)
        BY DEF Steady, KeepsDialling
      <4>2. s \in boot[q] => s \in boot'[q]
        BY <3>2 DEF Inv, TypeOK
      <4>3. \A d \in Conn : from[d] = q /\ to[d] = s /\ dial[d] # "gone" =>
              from'[d] = q /\ to'[d] = s /\ dial'[d] # "gone"
        BY <2>1, <2>3 DEF Free
      <4> QED
        BY <3>2, <4>1, <4>2, <4>3 DEF Dialling
    <3> QED
      BY <3>1, <3>2
  <2> QED
    BY <1>4, <1>5, <2>5, <2>6 DEF Steady
<1>7. CASE ~(p \in allowed[r] /\ ~HasLink(r, p) /\ held = "none")
  <2>1. UNCHANGED connVars
    BY <1>7 DEF Dial
  <2>2. ConnsKnown'
    <3> SUFFICES ASSUME NEW d \in Conn, NEW q \in Relay, NEW s \in Relay,
                        ~Free(d)', from'[d] = q, to'[d] = s
                 PROVE  s \in Known(q) /\ (dial'[d] # "gone" => up'[q] /\ s \in origin'[q])
      BY <1>2 DEF ConnsKnown
    <3>1. origin[q] \subseteq origin'[q]
      BY <1>1 DEF Inv, TypeOK
    <3> QED
      BY <3>1, <2>1 DEF Steady, ConnsKnown, Free, connVars
  <2>3. KeepsDialling'
    <3> SUFFICES ASSUME NEW q \in Relay, NEW s \in Others(q),
                        up[q], s \in Known(q), q \notin Known(s)
                 PROVE  Dialling(q, s)'
      BY <1>2 DEF KeepsDialling
    <3>a. \A d \in Conn : from[d] = q /\ to[d] = s /\ dial[d] # "gone" => Dialling(q, s)'
      BY <2>1 DEF Dialling, connVars
    <3>1. CASE q = r /\ s = p
      <4>1. CASE held = "timer"
        BY <3>1, <4>1 DEF Dialling
      <4>2. CASE held = "running"
        BY <3>1, <3>a, <4>2 DEF Inv, EntryIsBacked, InFlight
      <4>3. CASE HasLink(r, p)
        <5>1. CASE outbound[r][p] # None /\ dial[outbound[r][p]] = "link"
          <6>1. outbound[r][p] \in Conn
            BY <5>1 DEF Inv, TypeOK
          <6> QED
            BY <3>1, <3>a, <5>1, <6>1 DEF Inv, RegisteredLinks
        <5>2. CASE \E d \in Conn : from[d] = p /\ to[d] = r /\ answer[d] = "link"
          BY <3>1, <5>2 DEF Steady, ConnsKnown, Free
        <5> QED
          BY <4>3, <5>1, <5>2 DEF HasLink
      <4> QED
        BY <4>1, <4>2, <4>3, <1>3, <1>7 DEF Entries
    <3>2. CASE q # r \/ s # p
      <4>1. Dialling(q, s)
        BY DEF Steady, KeepsDialling
      <4>2. s \in boot[q] => s \in boot'[q]
        BY <3>2 DEF Inv, TypeOK
      <4> QED
        BY <3>2, <3>a, <4>1, <4>2 DEF Dialling
    <3> QED
      BY <3>1, <3>2
  <2> QED
    BY <1>4, <1>5, <2>2, <2>3 DEF Steady
<1> QED
  BY <1>6, <1>7

LEMMA DialsSteady ==
    ASSUME Inv, Steady, NEW r \in Relay, NEW p \in Others(r),
           StartUpDial(r, p) \/ TimerFires(r, p)
    PROVE  Steady'
<1>1. CASE StartUpDial(r, p)
  <2>1. /\ up[r] /\ p \in boot[r] /\ entry[r][p] \in Entries /\ timers' = timers
        /\ entry[r][p] = "timer" => timers[r][p] > 0
    BY <1>1 DEF StartUpDial, Inv, TypeOK, TimerIsBacked, Others
  <2> QED
    BY <1>1, <2>1, DialSteady DEF StartUpDial, fileVars
<1>2. CASE TimerFires(r, p)
  <2>1. p \in origin[r]
    BY <1>2 DEF TimerFires, Steady, TimersKnown, Others
  <2>2. \A q \in Relay : \A s \in Relay :
          q # r \/ s # p => timers'[q][s] = timers[q][s]
    BY <1>2 DEF TimerFires, Put, Inv, TypeOK, Others
  <2> QED
    BY <1>2, <2>1, <2>2, DialSteady DEF TimerFires, Entries, fileVars
<1> QED
  BY <1>1, <1>2

\* Steps that change neither what relays know nor their timers, nor end a
\* connection on the dialler's side.
LEMMA ConnSteady ==
    ASSUME Inv, Steady, UNCHANGED <<up, allowed, origin, timers, boot, from, to, stored>>,
           \A c \in Conn : /\ dial'[c] = "gone" <=> dial[c] = "gone"
                           /\ Free(c) => Free(c)'
    PROVE  Steady'
<1>1. \A q \in Relay : Known(q)' = Known(q)
  BY DEF Known
<1>2. Remembered' /\ TimersKnown'
  BY <1>1 DEF Steady, Remembered, TimersKnown
<1>3. ConnsKnown'
  <2> SUFFICES ASSUME NEW d \in Conn, NEW q \in Relay, NEW s \in Relay,
                      ~Free(d)', from'[d] = q, to'[d] = s
               PROVE  s \in Known(q) /\ (dial'[d] # "gone" => up'[q] /\ s \in origin'[q])
    BY <1>1 DEF ConnsKnown
  <2> QED
    BY DEF Steady, ConnsKnown
<1>4. KeepsDialling'
  BY <1>1 DEF Steady, KeepsDialling, Dialling, Others
<1> QED
  BY <1>2, <1>3, <1>4 DEF Steady

LEMMA ConnsSteady ==
    ASSUME Inv, Steady, NEW c \in Conn,
           \/ IdentityFetched(c) \/ HelloArrives(c) \/ ProofArrives(c)
           \/ ConfirmArrives(c) \/ AnswererForgets(c)
    PROVE  Steady'
<1>1. UNCHANGED <<up, allowed, origin, timers, boot, from, to, stored>>
  BY DEF IdentityFetched, HelloArrives, ProofArrives, ConfirmArrives,
         AnswererForgets, relayVars, ends, fileVars
<1>2. \A d \in Conn : /\ dial'[d] = "gone" <=> dial[d] = "gone"
                      /\ Free(d) => Free(d)'
  BY DEF IdentityFetched, HelloArrives, ProofArrives, ConfirmArrives,
         AnswererForgets, Inv, TypeOK, Free
<1> QED
  BY <1>1, <1>2, ConnSteady

LEMMA PathsLostSteady ==
    ASSUME Inv, Steady, NEW lost \in SUBSET Conn, PathsLost(lost)
    PROVE  Steady'
<1>1. UNCHANGED <<up, allowed, origin, timers, boot, from, to, stored, dial, answer>>
  BY DEF PathsLost, relayVars, ends, fileVars
<1>2. \A d \in Conn : Free(d)' <=> Free(d)
  BY <1>1 DEF Free
<1> QED
  BY <1>1, <1>2, ConnSteady

\* The dialler's end of a connection goes and a timer is armed for its peer.
LEMMA EndGoesSteady ==
    ASSUME Inv, Steady, NEW c \in Conn,
           DialFails(c) \/ DiallerSeesClose(c) \/ DiallerMissesPongs(c)
    PROVE  Steady'
<1> DEFINE r == from[c]
           p == to[c]
<1>1. ~Free(c) /\ dial[c] # "gone"
  BY DEF DialFails, DiallerSeesClose, DiallerMissesPongs, Free
<1>2. r \in Relay /\ p \in Relay /\ r # p
  BY <1>1 DEF Inv, Ends, Others
<1>3. p \in origin[r]
  BY <1>1, <1>2 DEF Steady, ConnsKnown
<1>4. /\ UNCHANGED <<up, allowed, origin, boot, from, to, stored, answer>>
      /\ dial' = [dial EXCEPT ![c] = "gone"]
  BY DEF DialFails, DiallerSeesClose, DiallerMissesPongs, ForgetDialled, ends, fileVars
<1>5. PICK held \in Entries :
        /\ timers' = Put(timers, r, p, Rearmed(r, p, held))
        /\ held = "timer" => entry[r][p] = "timer"
  <2>1. CASE DialFails(c)
    BY <2>1 DEF DialFails, Entries
  <2>2. CASE DiallerSeesClose(c) \/ DiallerMissesPongs(c)
    <3>1. entry[r][p] \in Entries
      BY <1>2 DEF Inv, TypeOK
    <3> QED
      BY <2>2, <3>1, <1>3 DEF DiallerSeesClose, DiallerMissesPongs, ForgetDialled, DialsAgain
  <2> QED
    BY <2>1, <2>2
<1> HIDE DEF r, p
<1>6. Rearmed(r, p, held) \in Nat /\ Rearmed(r, p, held) > 0
  BY <1>2, <1>5 DEF Inv, TypeOK, Rearmed, TimerIsBacked
<1>7. /\ timers'[r][p] > 0
      /\ \A q \in Relay : \A s \in Relay :
           q # r \/ s # p => timers'[q][s] = timers[q][s]
  BY <1>2, <1>5, <1>6, PutTimers DEF Inv, TypeOK
<1>8. \A q \in Relay : Known(q)' = Known(q)
  BY <1>4 DEF Known
<1>9. Remembered'
  BY <1>4, <1>8 DEF Steady, Remembered
<1>10. TimersKnown'
  BY <1>3, <1>4, <1>7 DEF Steady, TimersKnown
<1>11. ConnsKnown'
  <2> SUFFICES ASSUME NEW d \in Conn, NEW q \in Relay, NEW s \in Relay,
                      ~Free(d)', from'[d] = q, to'[d] = s
               PROVE  s \in Known(q) /\ (dial'[d] # "gone" => up'[q] /\ s \in origin'[q])
    BY <1>8 DEF ConnsKnown
  <2>1. ~Free(d) /\ (dial'[d] # "gone" => dial[d] # "gone")
    BY <1>4, <1>1 DEF Inv, TypeOK, Free
  <2> QED
    BY <2>1, <1>4 DEF Steady, ConnsKnown
<1>12. KeepsDialling'
  <2> SUFFICES ASSUME NEW q \in Relay, NEW s \in Others(q),
                      up[q], s \in Known(q), q \notin Known(s)
               PROVE  Dialling(q, s)'
    BY <1>4, <1>8 DEF KeepsDialling, Others
  <2>1. CASE q = r /\ s = p
    BY <2>1, <1>7 DEF Dialling
  <2>2. CASE q # r \/ s # p
    <3>1. Dialling(q, s)
      BY DEF Steady, KeepsDialling
    <3>2. \A d \in Conn : from[d] = q /\ to[d] = s /\ dial[d] # "gone" =>
            from'[d] = q /\ to'[d] = s /\ dial'[d] # "gone"
      BY <2>2, <1>4 DEF Inv, TypeOK, r, p
    <3> QED
      BY <2>2, <3>1, <3>2, <1>4, <1>7 DEF Dialling, Others
  <2> QED
    BY <2>1, <2>2
<1> QED
  BY <1>9, <1>10, <1>11, <1>12 DEF Steady

LEMMA AllowPeerSteady ==
    ASSUME Inv, Steady, NEW r \in Relay, NEW p \in Relay, NEW address \in BOOLEAN,
           AllowPeer(r, p, address), badWrites' = 0
    PROVE  Steady'
<1> DEFINE now == allowed[r] \cup {p}
           at  == IF address THEN origin[r] \cup {p} ELSE origin[r]
           redial == /\ address
                     /\ ~(outbound[r][p] # None
                          /\ dial[outbound[r][p]] = "link")
<1> USE PeersAssumption
<1>1. /\ up[r] /\ r # p
      /\ UNCHANGED <<up, boot, outbound, from, to, dial, answer, wire>>
      /\ allowed' = [allowed EXCEPT ![r] = now]
      /\ origin' = [origin EXCEPT ![r] = at]
      /\ Saves(r, now, at)
      /\ redial => timers' = Put(timers, r, p, Rearmed(r, p, entry[r][p]))
      /\ ~redial => timers' = timers
  BY DEF AllowPeer, connVars, Others
<1>2. at \in SUBSET Relay /\ now \in SUBSET Relay
  BY DEF Inv, TypeOK
<1> HIDE DEF now, at, redial
<1>a. stored' = Kept(r, now, at)
  BY <1>1 DEF Saves, Inv, TypeOK
<1>3. /\ origin[r] \cup boot[r] = stored[r].addresses \cup SeedAddress[r]
      /\ origin[r] \subseteq allowed[r] /\ boot[r] \subseteq allowed[r]
      /\ stored[r].addresses \subseteq origin[r]
  BY <1>1 DEF Steady, Remembered, Known
<1>4. /\ \A q \in Relay : q # r =>
           allowed'[q] = allowed[q] /\ origin'[q] = origin[q] /\ stored'[q] = stored[q]
      /\ allowed'[r] = now /\ origin'[r] = at
      /\ stored'[r].addresses = now \cap at
  BY <1>1, <1>a DEF Inv, TypeOK, Kept, PeerList
<1>5. /\ origin[r] \subseteq at /\ at \subseteq origin[r] \cup {p}
      /\ at \subseteq now /\ allowed[r] \subseteq now
      /\ ~address => at = origin[r]
  BY <1>3 DEF at, now
<1>6. /\ Known(r)' = at \cup boot[r]
      /\ \A q \in Relay : q # r => Known(q)' = Known(q)
      /\ \A q \in Relay : Known(q) \subseteq Known(q)'
  BY <1>3, <1>4, <1>5 DEF Known
<1>7. Remembered'
  <2> SUFFICES ASSUME NEW q \in Relay, up[q]
               PROVE  /\ origin'[q] \cup boot[q] = Known(q)' /\ Known(q)' \subseteq allowed'[q]
                      /\ stored'[q].addresses \subseteq origin'[q]
    BY <1>1 DEF Remembered
  <2>1. CASE q = r
    BY <2>1, <1>3, <1>4, <1>5, <1>6
  <2>2. CASE q # r
    BY <2>2, <1>4, <1>6 DEF Steady, Remembered
  <2> QED
    BY <2>1, <2>2
<1>8. /\ redial => timers'[r][p] > 0
      /\ \A q \in Relay : \A s \in Relay :
           q # r \/ s # p => timers'[q][s] = timers[q][s]
  <2>1. CASE redial
    <3>1. Rearmed(r, p, entry[r][p]) \in Nat /\ Rearmed(r, p, entry[r][p]) > 0
      BY DEF Inv, TypeOK, Rearmed, TimerIsBacked
    <3> QED
      BY <2>1, <3>1, <1>1, PutTimers DEF Inv, TypeOK
  <2>2. CASE ~redial
    BY <2>2, <1>1
  <2> QED
    BY <2>1, <2>2
<1>9. redial => p \in at
  BY DEF redial, at
<1>10. TimersKnown'
  <2> SUFFICES ASSUME NEW q \in Relay, NEW s \in Relay, timers'[q][s] > 0
               PROVE  s \in origin'[q]
    BY DEF TimersKnown
  <2>1. origin[q] \subseteq origin'[q]
    BY <1>4, <1>5
  <2>2. CASE redial /\ q = r /\ s = p
    BY <2>2, <1>4, <1>9
  <2>3. CASE ~(redial /\ q = r /\ s = p)
    BY <2>1, <2>3, <1>1, <1>8 DEF Steady, TimersKnown
  <2> QED
    BY <2>2, <2>3
<1>11. ConnsKnown'
  <2> SUFFICES ASSUME NEW d \in Conn, NEW q \in Relay, NEW s \in Relay,
                      ~Free(d), from[d] = q, to[d] = s
               PROVE  s \in Known(q)' /\ (dial[d] # "gone" => up[q] /\ s \in origin'[q])
    BY <1>1 DEF ConnsKnown, Free
  <2>1. origin[q] \subseteq origin'[q]
    BY <1>4, <1>5
  <2> QED
    BY <2>1, <1>6 DEF Steady, ConnsKnown
<1>12. KeepsDialling'
  <2> SUFFICES ASSUME NEW q \in Relay, NEW s \in Others(q),
                      up[q], s \in Known(q)', q \notin Known(s)'
               PROVE  Dialling(q, s)'
    BY <1>1 DEF KeepsDialling, Others
  <2>1. CASE s \in Known(q)
    <3>1. Dialling(q, s)
      BY <2>1, <1>6 DEF Steady, KeepsDialling, Others
    <3>2. timers[q][s] > 0 => timers'[q][s] > 0
      BY <1>1, <1>8 DEF Others
    <3> QED
      BY <3>1, <3>2, <1>1 DEF Dialling
  <2>2. CASE s \notin Known(q)
    <3>1. q = r /\ s = p /\ address
      BY <2>2, <1>3, <1>5, <1>6 DEF Known
    <3>2. CASE redial
      BY <3>1, <3>2, <1>8 DEF Dialling
    <3>3. CASE ~redial
      <4>1. outbound[r][p] # None /\ dial[outbound[r][p]] = "link"
        BY <3>1, <3>3 DEF redial
      <4>2. outbound[r][p] \in Conn
        BY <4>1 DEF Inv, TypeOK
      <4> QED
        BY <3>1, <4>1, <4>2, <1>1 DEF Inv, RegisteredLinks, Dialling
    <3> QED
      BY <3>2, <3>3
  <2> QED
    BY <2>1, <2>2
<1> QED
  BY <1>7, <1>10, <1>11, <1>12 DEF Steady

LEMMA CrashSteady ==
    ASSUME Inv, Steady, NEW r \in Relay, Crash(r)
    PROVE  Steady'
<1>1. /\ UNCHANGED <<from, to, stored>>
      /\ ~up'[r] /\ timers'[r] = [p \in Relay |-> 0]
      /\ \A q \in Relay : q # r =>
           /\ up'[q] = up[q] /\ allowed'[q] = allowed[q] /\ origin'[q] = origin[q]
           /\ boot'[q] = boot[q] /\ timers'[q] = timers[q]
      /\ \A d \in Conn :
           /\ dial'[d] = IF from[d] = r THEN "gone" ELSE dial[d]
           /\ answer'[d] = IF to[d] = r THEN "gone" ELSE answer[d]
  BY DEF Crash, Inv, TypeOK, ends, fileVars
<1>2. \A q \in Relay : Known(q)' = Known(q)
  BY <1>1 DEF Known
<1>3. Remembered'
  BY <1>1, <1>2 DEF Steady, Remembered
<1>4. TimersKnown'
  <2> SUFFICES ASSUME NEW q \in Relay, NEW s \in Relay, timers'[q][s] > 0
               PROVE  s \in origin'[q]
    BY DEF TimersKnown
  <2>1. q # r
    BY <1>1
  <2> QED
    BY <2>1, <1>1 DEF Steady, TimersKnown
<1>5. ConnsKnown'
  <2> SUFFICES ASSUME NEW d \in Conn, NEW q \in Relay, NEW s \in Relay,
                      ~Free(d)', from[d] = q, to[d] = s
               PROVE  s \in Known(q) /\ (dial'[d] # "gone" => up'[q] /\ s \in origin'[q])
    BY <1>1, <1>2 DEF ConnsKnown
  <2>1. ~Free(d)
    BY <1>1 DEF Free
  <2> QED
    BY <2>1, <1>1 DEF Steady, ConnsKnown
<1>6. KeepsDialling'
  <2> SUFFICES ASSUME NEW q \in Relay, NEW s \in Others(q),
                      up'[q], s \in Known(q), q \notin Known(s)
               PROVE  Dialling(q, s)'
    BY <1>2 DEF KeepsDialling, Others
  <2>1. q # r
    BY <1>1
  <2>2. Dialling(q, s)
    BY <2>1, <1>1 DEF Steady, KeepsDialling
  <2> QED
    BY <2>1, <2>2, <1>1 DEF Dialling
<1> QED
  BY <1>3, <1>4, <1>5, <1>6 DEF Steady

LEMMA StartSteady ==
    ASSUME Inv, Steady, AddressesArePeers, NEW r \in Relay, Start(r)
    PROVE  Steady'
<1> USE PeersAssumption
<1>1. /\ UNCHANGED <<from, to, dial, answer, stored>>
      /\ ~up[r]
      /\ allowed'[r] = Seed[r] \cup stored[r].peers
      /\ origin'[r] = stored[r].addresses /\ boot'[r] = SeedAddress[r]
      /\ \A p \in Relay : timers'[r][p] = IF p \in stored[r].addresses THEN 1 ELSE 0
      /\ \A q \in Relay : q # r =>
           /\ up'[q] = up[q] /\ allowed'[q] = allowed[q] /\ origin'[q] = origin[q]
           /\ boot'[q] = boot[q] /\ timers'[q] = timers[q]
  BY DEF Start, Inv, TypeOK, connVars
<1>2. \A q \in Relay : Known(q)' = Known(q)
  BY <1>1 DEF Known
<1>3. Remembered'
  <2> SUFFICES ASSUME NEW q \in Relay, up'[q]
               PROVE  /\ origin'[q] \cup boot'[q] = Known(q) /\ Known(q) \subseteq allowed'[q]
                      /\ stored[q].addresses \subseteq origin'[q]
    BY <1>1, <1>2 DEF Remembered
  <2>1. CASE q = r
    BY <2>1, <1>1 DEF Known, AddressesArePeers
  <2>2. CASE q # r
    BY <2>2, <1>1 DEF Steady, Remembered
  <2> QED
    BY <2>1, <2>2
<1>4. TimersKnown'
  <2> SUFFICES ASSUME NEW q \in Relay, NEW s \in Relay, timers'[q][s] > 0
               PROVE  s \in origin'[q]
    BY DEF TimersKnown
  <2>1. CASE q = r
    BY <2>1, <1>1
  <2>2. CASE q # r
    BY <2>2, <1>1 DEF Steady, TimersKnown
  <2> QED
    BY <2>1, <2>2
<1>5. ConnsKnown'
  <2> SUFFICES ASSUME NEW d \in Conn, NEW q \in Relay, NEW s \in Relay,
                      ~Free(d), from[d] = q, to[d] = s
               PROVE  s \in Known(q) /\ (dial[d] # "gone" => up'[q] /\ s \in origin'[q])
    BY <1>1, <1>2 DEF ConnsKnown, Free
  <2>1. s \in Known(q) /\ (dial[d] # "gone" => up[q] /\ s \in origin[q])
    BY DEF Steady, ConnsKnown
  <2> QED
    BY <2>1, <1>1
<1>6. KeepsDialling'
  <2> SUFFICES ASSUME NEW q \in Relay, NEW s \in Others(q),
                      up'[q], s \in Known(q), q \notin Known(s)
               PROVE  Dialling(q, s)'
    BY <1>2 DEF KeepsDialling, Others
  <2>1. CASE q = r
    BY <2>1, <1>1 DEF Known, Dialling, Others
  <2>2. CASE q # r
    <3>1. Dialling(q, s)
      BY <2>2, <1>1 DEF Steady, KeepsDialling
    <3> QED
      BY <2>2, <3>1, <1>1 DEF Dialling
  <2> QED
    BY <2>1, <2>2
<1> QED
  BY <1>3, <1>4, <1>5, <1>6 DEF Steady

LEMMA SavesPeers ==
    ASSUME Inv, AddressesArePeers, NEW r, NEW now, NEW at, Saves(r, now, at)
    PROVE  AddressesArePeers'
<1>1. \A q \in Relay : stored'[q] \in {stored[q], NoPeers,
                                     [peers |-> now, addresses |-> now \cap at]}
  BY DEF Saves, Kept, Inv, TypeOK
<1> QED
  BY <1>1 DEF NoPeers, AddressesArePeers

LEMMA NextAddressesArePeers ==
    ASSUME Inv, AddressesArePeers, Next
    PROVE  AddressesArePeers'
<1>1. CASE UNCHANGED stored
  BY <1>1 DEF AddressesArePeers
<1>2. CASE \E r \in Relay, p \in Relay, address \in BOOLEAN : AllowPeer(r, p, address)
  BY <1>2, SavesPeers DEF AllowPeer
<1>3. CASE \E r \in Relay, p \in Relay : DisallowPeer(r, p)
  BY <1>3, SavesPeers DEF DisallowPeer
<1> QED
  BY <1>1, <1>2, <1>3
  DEF Next, Internal, External, StartUpDial, TimerFires, IdentityFetched,
      HelloArrives, ProofArrives, ConfirmArrives, DialFails, DiallerSeesClose,
      DiallerMissesPongs, ForgetDialled, AnswererForgets, PathsLost, Crash, Start,
      fileVars

LEMMA NextDInv == Inv /\ DInv /\ [Next]_vars => DInv'
<1> SUFFICES ASSUME Inv, DInv, [Next]_vars PROVE DInv'
  OBVIOUS
<1>1. CASE UNCHANGED vars
  BY <1>1 DEF vars, DInv, AddressesArePeers, Steady, Remembered, TimersKnown,
     ConnsKnown, KeepsDialling, Known, Free, Dialling, fileVars, bounds
<1>2. CASE Next
  <2>1. AddressesArePeers'
    BY <1>2, NextAddressesArePeers DEF DInv
  <2>3. /\ removals' \in {removals, removals + 1}
        /\ badWrites' \in {badWrites, badWrites + 1}
    <3>1. CASE Internal
      BY <3>1 DEF Internal, StartUpDial, TimerFires, IdentityFetched, HelloArrives,
         ProofArrives, ConfirmArrives, DialFails, DiallerSeesClose,
         DiallerMissesPongs, ForgetDialled, AnswererForgets, bounds
    <3>2. CASE External
      <4>1. \A r, p \in Relay : \A address \in BOOLEAN :
              AllowPeer(r, p, address) => /\ removals' = removals
                                          /\ badWrites' \in {badWrites, badWrites + 1}
        BY DEF AllowPeer, Saves
      <4>2. \A r, p \in Relay :
              DisallowPeer(r, p) => /\ removals' = removals + 1
                                    /\ badWrites' \in {badWrites, badWrites + 1}
        BY DEF DisallowPeer, Saves
      <4>3. \A lost \in SUBSET Conn :
              PathsLost(lost) => removals' = removals /\ badWrites' = badWrites
        BY DEF PathsLost
      <4>4. \A r \in Relay :
              Crash(r) \/ Start(r) => removals' = removals /\ badWrites' = badWrites
        BY DEF Crash, Start, bounds
      <4> QED
        BY <3>2, <4>1, <4>2, <4>3, <4>4 DEF External
    <3> QED
      BY <1>2, <3>1, <3>2 DEF Next
  <2>2. removals' = 0 /\ badWrites' = 0 => removals = 0 /\ Steady
    BY <2>3 DEF DInv, Inv, TypeOK
  <2>4. ASSUME removals' = 0, badWrites' = 0 PROVE Steady'
    <3> USE <2>2, <2>4
    <3>1. CASE \E r \in Relay : \E p \in Others(r) : StartUpDial(r, p) \/ TimerFires(r, p)
      BY <3>1, DialsSteady
    <3>2. CASE \E c \in Conn :
                 \/ IdentityFetched(c) \/ HelloArrives(c) \/ ProofArrives(c)
                 \/ ConfirmArrives(c) \/ AnswererForgets(c)
      BY <3>2, ConnsSteady
    <3>3. CASE \E c \in Conn :
                 DialFails(c) \/ DiallerSeesClose(c) \/ DiallerMissesPongs(c)
      BY <3>3, EndGoesSteady
    <3>4. CASE \E r \in Relay, p \in Relay, address \in BOOLEAN : AllowPeer(r, p, address)
      BY <3>4, AllowPeerSteady
    <3>5. CASE \E r \in Relay, p \in Relay : DisallowPeer(r, p)
      BY <3>5 DEF DisallowPeer, Inv, TypeOK
    <3>6. CASE \E lost \in SUBSET Conn : PathsLost(lost)
      BY <3>6, PathsLostSteady
    <3>7. CASE \E r \in Relay : Crash(r)
      BY <3>7, CrashSteady
    <3>8. CASE \E r \in Relay : Start(r)
      BY <3>8, StartSteady DEF DInv
    <3> QED
      BY <1>2, <3>1, <3>2, <3>3, <3>4, <3>5, <3>6, <3>7, <3>8
      DEF Next, Internal, External
  <2> QED
    BY <2>1, <2>4 DEF DInv
<1> QED
  BY <1>1, <1>2

\* While no peer was removed and no write failed, the only relay of two that has the other's
\* address is dialling it, about to, or holds a link it dialled.
THEOREM DiallerKeeps == Spec => []TheDiallerKeepsDialling
<1>1. Inv /\ DInv => TheDiallerKeepsDialling
  <2> SUFFICES ASSUME Inv, DInv, removals = 0, badWrites = 0, NEW r \in Relay, NEW p \in Others(r),
                      Agreed(r, p), HasAddress(r, p), ~HasAddress(p, r)
               PROVE  Dialling(r, p)
    BY DEF TheDiallerKeepsDialling
  <2>1. Steady /\ up[r] /\ up[p] /\ p \in Relay
    BY DEF DInv, Agreed, Others
  <2>2. p \in Known(r)
    BY <2>1 DEF HasAddress, Steady, Remembered, Known
  <2>3. r \notin Known(p)
    BY <2>1 DEF HasAddress, Steady, Remembered
  <2> QED
    BY <2>1, <2>2, <2>3 DEF Steady, KeepsDialling
<1> QED
  BY <1>1, InitInv, NextInv, InitDInv, NextDInv, PTL DEF Spec
==============================================================================
