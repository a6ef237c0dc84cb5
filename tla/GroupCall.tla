----------------------------- MODULE GroupCall -----------------------------
(***************************************************************************)
(* A group call: a full mesh of media legs with no server in the middle    *)
(* (src/js/chat: 12-group-call-mesh.js, 16-group-call-signalling.js, the   *)
(* card of 15-group-call-render.js, the pair call of 32-file-transfer-4.js *)
(* that a group call can grow out of).  Who is in the call is what each    *)
(* device believes: a newcomer announces itself to the people its invite   *)
(* named, everybody in the call answers "here", and of every two the one   *)
(* with the smaller fingerprint dials.                                     *)
(*                                                                         *)
(* Everybody is an accepted contact of everybody on one relay.  Signals of *)
(* one sender to one receiver keep their order and arrive, and so do the   *)
(* offers of its legs; a leg's media path works while both its ends are    *)
(* up.  A leg to a member of another relay (placed by a promise,           *)
(* 39-relay-call.js) is not modelled.                                      *)
(***************************************************************************)
EXTENDS Naturals, Sequences, FiniteSets

CONSTANTS
    Device,       \* the accounts, each on one device
    None,         \* no call, nobody
    Rank,         \* the order of their fingerprints
    Starters,     \* bound: those who start a call, once each
    Adders,       \* bound: those who add people to a group call
    Talking,      \* the pair call under way at the start: <<>> or <<d, e>>
    Shared,       \* the calls belong to a group of all; else put together by hand
    Seats,        \* GROUP_CALL_MAX
    HeldMax,      \* PENDING_GROUP_SIGNAL_MAX
    Routes,       \* copies of an upgrade notice that arrive
    MaxAccepts,   \* bound: taps on "accept" per device
    MaxGoes,      \* bound: departures and reloads
    MaxStale      \* bound: times that held signals outlive their 30 s

ASSUME NobodyIsNone == None \notin Device
ASSUME RankOrders == Rank \in [Device -> Nat]
                     /\ \A d, e \in Device : Rank[d] = Rank[e] => d = e
ASSUME TalkingIsAPair == Talking \in {<<>>} \cup (Device \X Device)
ASSUME HeldMaxIsPositive == HeldMax \in Nat \ {0}
ASSUME RoutesIsNat == Routes \in Nat

VARIABLES
    call,       \* call[d]: groupCall.callId; a call is named by its starter
    roster,     \* groupCall.roster
    seat,       \* the keys of groupCall.participants
    line,       \* line[d][p]: participants.get(p).call, a leg or NoCall
    card,       \* the invite on the screen
    opening,    \* starts, joins and upgrades that await the microphone
    held,       \* pendingGroupSignals
    pair,       \* the other side of currentCall
    lastPair,   \* lastPairCall, while younger than 25 s
    leg,        \* leg[d][p]: the media connections d dialled to p, in order
    mail,       \* mail[s][d]: signals under way
    started, accepts, goes,          \* the bounded counts
    stale,      \* observed: times that held signals were thrown away
    greeted,    \* observed: whom each told of its last arrival in a call
    visits      \* observed: visits[d][c], how often d entered call c, up to two

past == <<greeted, visits>>
mine == <<call, roster, seat, line, past>>
bounds == <<started, accepts, goes, stale>>
vars == <<mine, card, opening, held, pair, lastPair, leg, mail, bounds>>

-----------------------------------------------------------------------------
(* A leg's near end is the dialler's, up until closed; the far end is       *)
(* "coming" until the offer arrives.  An offer for a call its receiver is   *)
(* not in is left neither answered nor closed ("ignored").                  *)

NoCall == <<>>
LegId == Device \X Device \X (Nat \ {0})
Leg == [call : Device, near : BOOLEAN,
        far : {"coming", "ignored", "open", "shut"}]
Signal == [type : {"invite", "upgrade", "join", "here", "leave"},
           call : Device, roster : SUBSET Device]
NoCard == [call |-> None, roster |-> {}]
Plan == [kind : {"start", "grow", "join"}, call : Device,
         roster : SUBSET Device, told : SUBSET Device]

Sig(type, c, people) == [type |-> type, call |-> c, roster |-> people]
Others(d) == Device \ {d}

\* GroupCallActive and isCallBusy: a call in progress, not one being prepared.
Active(d) == call[d] # None
Busy(d) == Active(d) \/ pair[d] # None

\* Exactly one of two dials.
ShouldPlaceCallTo(d, p) == Rank[d] < Rank[p]

\* Mutant of Hung: the state is overwritten, what it held stays up.
NothingHung(d, S) == leg

\* The legs once d has closed the ones it holds to S.
Hung(d, S) ==
    [x \in Device |-> [y \in Device |-> [n \in DOMAIN leg[x][y] |->
        IF x = d /\ y \in S /\ line[d][y] = <<x, y, n>>
        THEN [leg[x][y][n] EXCEPT !.near = FALSE]
        ELSE IF y = d /\ x \in S /\ line[d][x] = <<x, y, n>>
        THEN [leg[x][y][n] EXCEPT !.far = "shut"]
        ELSE leg[x][y][n]]]]

\* Legs from d to each of P for call c, added to legs.
Dialled(legs, d, P, c) ==
    [legs EXCEPT ![d] = [p \in Device |->
        IF p \in P
        THEN Append(legs[d][p], [call |-> c, near |-> TRUE, far |-> "coming"])
        ELSE legs[d][p]]]

\* What d sends to each p, out[p], goes behind what is under way to p.
Sent(d, out) == [mail EXCEPT ![d] = [p \in Device |-> mail[d][p] \o out[p]]]

Init ==
    /\ call = [d \in Device |-> None]
    /\ roster = [d \in Device |-> {}]
    /\ seat = [d \in Device |-> {}]
    /\ line = [d \in Device |-> [p \in Device |-> NoCall]]
    /\ card = [d \in Device |-> NoCard]
    /\ opening = [d \in Device |-> <<>>]
    /\ held = [d \in Device |-> <<>>]
    /\ pair = [d \in Device |-> IF Talking # <<>> /\ d = Talking[1] THEN Talking[2]
                                ELSE IF Talking # <<>> /\ d = Talking[2] THEN Talking[1]
                                ELSE None]
    /\ lastPair = [d \in Device |-> None]
    /\ leg = [d \in Device |-> [p \in Device |-> <<>>]]
    /\ mail = [d \in Device |-> [p \in Device |-> <<>>]]
    /\ started = {} /\ goes = 0 /\ stale = 0
    /\ accepts = [d \in Device |-> 0]
    /\ greeted = [d \in Device |-> {}]
    /\ visits = [d \in Device |-> [c \in Device |-> 0]]

-----------------------------------------------------------------------------
(* Being in a call.                                                         *)

\* Mutant of Replay: the held signals are forgotten.
ReplayNothing(d, c) == {}

\* Where d holds signals about call c, which are now replayed.
Replay(d, c) == {i \in DOMAIN held[d] : held[d][i].call = c}

\* Everybody heard of gets a seat, and every join an answer.
HeardOf(d, c) == {held[d][i].from : i \in Replay(d, c)}
Answers(d, p, c) ==
    LET joins == {i \in Replay(d, c) : held[d][i].from = p /\ held[d][i].type = "join"}
    IN  [i \in 1..Cardinality(joins) |-> Sig("here", c, {})]

\* The state is overwritten: what a call still running held is closed, its
\* members are not told.  Then the announcements (out), of which those to all
\* of told say that d has come, then the held signals; the ones about other
\* calls are thrown away.
TakeSeats(d, c, people, told, out) ==
    LET dial == {p \in HeardOf(d, c) : ShouldPlaceCallTo(d, p)}
    IN  /\ call' = [call EXCEPT ![d] = c]
        /\ roster' = [roster EXCEPT ![d] = people]
        /\ seat' = [seat EXCEPT ![d] = HeardOf(d, c)]
        /\ line' = [line EXCEPT ![d] = [p \in Device |->
                        IF p \in dial THEN <<d, p, Len(leg[d][p]) + 1>> ELSE NoCall]]
        /\ leg' = Dialled(Hung(d, Device), d, dial, c)
        /\ held' = [held EXCEPT ![d] = <<>>]
        /\ mail' = Sent(d, [p \in Device |-> out[p] \o Answers(d, p, c)])
        /\ stale' = IF \A i \in DOMAIN held[d] : held[d][i].call = c THEN stale
                    ELSE stale + 1
        /\ greeted' = [greeted EXCEPT ![d] = told]
        /\ visits' = [visits EXCEPT ![d][c] = IF @ = 0 THEN 1 ELSE 2]

\* startGroupCall after the microphone: everybody of the roster is invited,
\* those already told apart.
Begin(d, plan) ==
    TakeSeats(d, plan.call, plan.roster, {},
        [p \in Device |-> IF p \in plan.roster \ plan.told
                          THEN <<Sig("invite", plan.call, plan.roster \cup {d})>>
                          ELSE <<>>])

\* joinGroupCall after the microphone: the group's members, or the people of
\* the invite, are told of the newcomer.
Enter(d, plan) ==
    LET told == IF Shared THEN Others(d) ELSE plan.roster \ {d}
    IN  TakeSeats(d, plan.call, plan.roster, told,
            [p \in Device |-> IF p \in told THEN <<Sig("join", plan.call, {})>>
                              ELSE <<>>])

\* resetGroupCallState on the way out.
Cleared(d) ==
    /\ call' = [call EXCEPT ![d] = None]
    /\ roster' = [roster EXCEPT ![d] = {}]
    /\ seat' = [seat EXCEPT ![d] = {}]
    /\ line' = [line EXCEPT ![d] = [p \in Device |-> NoCall]]
    /\ leg' = Hung(d, Device)
    /\ UNCHANGED past

\* Mutant of Drop: the seat goes, its leg is not forgotten.
DropSeatOnly(d, p) == seat' = [seat EXCEPT ![d] = @ \ {p}] /\ UNCHANGED line

\* dropGroupCallPeer: by the person, whatever leg stands for them now.
Drop(d, p) ==
    /\ seat' = [seat EXCEPT ![d] = @ \ {p}]
    /\ line' = [line EXCEPT ![d][p] = NoCall]

-----------------------------------------------------------------------------
(* Starting, growing, adding.                                               *)

\* startGroupCall up to the microphone.
StartCall(d, people) ==
    /\ d \in Starters \ started
    /\ ~Busy(d)
    /\ IF Shared THEN people = Others(d) ELSE people \in SUBSET Others(d)
    /\ people # {}
    /\ started' = started \cup {d}
    /\ opening' = [opening EXCEPT ![d] = Append(@,
           [kind |-> "start", call |-> d, roster |-> people, told |-> {}])]
    /\ UNCHANGED <<mine, card, held, pair, lastPair, leg, mail, accepts, goes, stale>>

\* addPeopleToLiveCall on a pair call: the other side is told by two routes
\* that the call grows, then the channel is given 350 ms.
GrowPair(d, extra) ==
    /\ d \in Starters \ started
    /\ ~Active(d) /\ pair[d] # None
    /\ extra \in (SUBSET (Others(d) \ {pair[d]})) \ {{}}
    /\ started' = started \cup {d}
    /\ opening' = [opening EXCEPT ![d] = Append(@,
           [kind |-> "grow", call |-> d, roster |-> extra \cup {pair[d]},
            told |-> {pair[d]}])]
    /\ mail' = [mail EXCEPT ![d][pair[d]] = @ \o
           [i \in 1..Routes |-> Sig("upgrade", d, extra \cup {pair[d], d})]]
    /\ UNCHANGED <<mine, card, held, pair, lastPair, leg, accepts, goes, stale>>

\* addPeopleToLiveCall in a group call: people on neither the roster nor the
\* stage are rung with the roster as this device knows it.
AddPeople(d, extra) ==
    /\ Active(d) /\ d \in Adders
    /\ extra \in (SUBSET (Others(d) \ (roster[d] \cup seat[d]))) \ {{}}
    /\ roster' = [roster EXCEPT ![d] = @ \cup extra]
    /\ mail' = Sent(d, [p \in Device |->
           IF p \in extra
           THEN <<Sig("invite", call[d], roster[d] \cup extra \cup {d})>>
           ELSE <<>>])
    /\ UNCHANGED <<call, seat, line, past, card, opening, held, pair, lastPair, leg, bounds>>

-----------------------------------------------------------------------------
(* Answering.                                                               *)

\* joinGroupCall's conditions: nothing else in progress (as of now), a free
\* seat, somebody to announce to.
MayJoin(d, people) ==
    /\ Cardinality(people \ {d}) + 1 <= Seats
    /\ Shared \/ people \ {d} # {}

Joining(c, people) ==
    [kind |-> "join", call |-> c, roster |-> people, told |-> {}]

\* The card stays on the screen until the microphone is open.
Accept(d) ==
    /\ card[d].call # None
    /\ accepts[d] < MaxAccepts
    /\ ~Busy(d)
    /\ MayJoin(d, card[d].roster)
    /\ accepts' = [accepts EXCEPT ![d] = @ + 1]
    /\ opening' = [opening EXCEPT ![d] = Append(@, Joining(card[d].call, card[d].roster))]
    /\ UNCHANGED <<mine, card, held, pair, lastPair, leg, mail, started, goes, stale>>

\* Declined, or rung out; nobody is told.
CardGoes(d) ==
    /\ card[d] # NoCard
    /\ card' = [card EXCEPT ![d] = NoCard]
    /\ UNCHANGED <<mine, opening, held, pair, lastPair, leg, mail, bounds>>

Without(s, i) == SubSeq(s, 1, i - 1) \o SubSeq(s, i + 1, Len(s))
Prepared(d, i) == opening' = [opening EXCEPT ![d] = Without(@, i)]

\* The microphone opens.  Nothing is asked again: neither whether a call has
\* begun meanwhile nor whether this is the second answer to one card.
MicOpens(d, i) ==
    LET plan == opening[d][i] IN
    /\ Prepared(d, i)
    /\ \/ /\ plan.kind = "start"
          /\ Begin(d, plan)
          /\ UNCHANGED card
       \/ /\ plan.kind = "join"
          /\ Enter(d, plan)
          /\ card' = [card EXCEPT ![d] = NoCard]
    /\ UNCHANGED <<pair, lastPair, started, accepts, goes>>

MicRefused(d, i) ==
    /\ opening[d][i].kind # "grow"
    /\ Prepared(d, i)
    /\ UNCHANGED <<mine, card, held, pair, lastPair, leg, mail, bounds>>

\* The pair call ends here and the group call takes its microphone over, if no
\* group call came up meanwhile.
Grown(d, i) ==
    LET plan == opening[d][i] IN
    /\ plan.kind = "grow"
    /\ Prepared(d, i)
    /\ pair' = [pair EXCEPT ![d] = None]
    /\ lastPair' = [lastPair EXCEPT ![d] = IF pair[d] = None THEN @ ELSE pair[d]]
    /\ IF Active(d) THEN UNCHANGED <<mine, held, leg, mail, stale>> ELSE Begin(d, plan)
    /\ UNCHANGED <<card, started, accepts, goes>>

-----------------------------------------------------------------------------
(* Signals.                                                                 *)

\* The signal at the head of mail[s][d], taken; d answers with out.
Took(s, d, out) ==
    LET rest == [mail EXCEPT ![s][d] = Tail(@)]
    IN  mail' = [rest EXCEPT ![d][s] = @ \o out]

NextIs(s, d, type) == mail[s][d] # <<>> /\ Head(mail[s][d]).type = type

\* The card replaces the one before.  An invite that waited in a mailbox
\* longer than a call rings is a missed call; one that finds a group call in
\* progress is not looked at.
HearInvite(s, d) ==
    /\ NextIs(s, d, "invite")
    /\ Took(s, d, <<>>)
    /\ LET m == Head(mail[s][d]) IN
       \/ /\ ~Active(d)
          /\ card' = [card EXCEPT ![d] = [call |-> m.call, roster |-> m.roster]]
       \/ UNCHANGED card
    /\ UNCHANGED <<mine, opening, held, pair, lastPair, leg, bounds>>

\* The call d is in, or was in a moment ago, becomes a group call: it ends
\* here and the group call is joined without asking.  Otherwise a card.
HearUpgrade(s, d) ==
    LET m == Head(mail[s][d])
        together == pair[d] = s \/ lastPair[d] = s
    IN  /\ NextIs(s, d, "upgrade")
        /\ Took(s, d, <<>>)
        /\ IF Active(d) THEN UNCHANGED <<card, opening, pair, lastPair>>
           ELSE IF ~together
           THEN /\ card' = [card EXCEPT ![d] = [call |-> m.call, roster |-> m.roster]]
                /\ UNCHANGED <<opening, pair, lastPair>>
           ELSE /\ pair' = [pair EXCEPT ![d] = None]
                /\ lastPair' = [lastPair EXCEPT ![d] =
                                   IF pair[d] = None THEN @ ELSE pair[d]]
                /\ opening' = IF MayJoin(d, m.roster)
                              THEN [opening EXCEPT ![d] =
                                       Append(@, Joining(m.call, m.roster))]
                              ELSE opening
                /\ UNCHANGED card
        /\ UNCHANGED <<mine, held, leg, bounds>>

\* holdGroupCallSignal: not in that call yet, or not any more.  The oldest makes
\* room.
Hold(d, s, m) ==
    /\ held' = [held EXCEPT ![d] =
           Append(SubSeq(@, IF Len(@) < HeldMax THEN 1 ELSE Len(@) - HeldMax + 2, Len(@)),
                  [from |-> s, type |-> m.type, call |-> m.call])]
    /\ stale' = IF Len(held[d]) < HeldMax THEN stale ELSE stale + 1
    /\ UNCHANGED <<seat, line, leg>>

\* connectGroupCallPeer: a seat, and a leg if it is this side that dials and
\* none stands.
Connect(d, p) ==
    LET dials == line[d][p] = NoCall /\ ShouldPlaceCallTo(d, p) IN
    /\ seat' = [seat EXCEPT ![d] = @ \cup {p}]
    /\ line' = IF dials THEN [line EXCEPT ![d][p] = <<d, p, Len(leg[d][p]) + 1>>]
               ELSE line
    /\ leg' = IF dials THEN Dialled(leg, d, {p}, call[d]) ELSE leg
    /\ UNCHANGED <<held, stale>>

\* A join is answered; a "here" is not.
Reply(d, m) == IF m.type = "join" THEN <<Sig("here", call[d], {})>> ELSE <<>>

HearMember(s, d) ==
    LET m == Head(mail[s][d]) IN
    /\ NextIs(s, d, "join") \/ NextIs(s, d, "here")
    /\ IF call[d] = m.call
       THEN Took(s, d, Reply(d, m)) /\ Connect(d, s)
       ELSE Took(s, d, <<>>) /\ Hold(d, s, m)
    /\ UNCHANGED <<call, roster, past, card, opening, pair, lastPair, started, accepts, goes>>

\* The leaver's seat goes; with no seat taken this device goes too, silently.
HearLeave(s, d) ==
    /\ NextIs(s, d, "leave")
    /\ Took(s, d, <<>>)
    /\ IF call[d] # Head(mail[s][d]).call THEN UNCHANGED <<mine, leg>>
       ELSE IF seat[d] \ {s} = {} THEN Cleared(d)
       ELSE /\ Drop(d, s) /\ leg' = Hung(d, {s})
            /\ UNCHANGED <<call, roster, past>>
    /\ UNCHANGED <<card, opening, held, pair, lastPair, bounds>>

-----------------------------------------------------------------------------
(* Media.                                                                   *)

\* An offer arrives.  In that call it is answered and takes the place of
\* whatever leg stood for its sender, which is not closed.
LegArrives(d, p, n) ==
    /\ n \in DOMAIN leg[d][p]
    /\ leg[d][p][n].far = "coming"
    /\ \A k \in 1 .. n - 1 : leg[d][p][k].far # "coming"
    /\ IF call[p] = leg[d][p][n].call
       THEN /\ leg' = [leg EXCEPT ![d][p][n].far = "open"]
            /\ seat' = [seat EXCEPT ![p] = @ \cup {d}]
            /\ line' = [line EXCEPT ![p][d] = <<d, p, n>>]
       ELSE /\ leg' = [leg EXCEPT ![d][p][n].far = "ignored"]
            /\ UNCHANGED <<seat, line>>
    /\ UNCHANGED <<call, roster, past, card, opening, held, pair, lastPair, mail, bounds>>

\* One end finds that the other has gone: the close event takes down whatever
\* stands for that person now.
NearCloses(d, p, n) ==
    /\ n \in DOMAIN leg[d][p]
    /\ leg[d][p][n].near /\ leg[d][p][n].far = "shut"
    /\ leg' = [Hung(d, {p}) EXCEPT ![d][p][n].near = FALSE]
    /\ Drop(d, p)
    /\ UNCHANGED <<call, roster, past, card, opening, held, pair, lastPair, mail, bounds>>

FarCloses(d, p, n) ==
    /\ n \in DOMAIN leg[d][p]
    /\ ~leg[d][p][n].near /\ leg[d][p][n].far = "open"
    /\ leg' = [Hung(p, {d}) EXCEPT ![d][p][n].far = "shut"]
    /\ Drop(p, d)
    /\ UNCHANGED <<call, roster, past, card, opening, held, pair, lastPair, mail, bounds>>

\* Half a minute without a leg.
SeatTimer(d, p) ==
    /\ p \in seat[d] /\ line[d][p] = NoCall
    /\ seat' = [seat EXCEPT ![d] = @ \ {p}]
    /\ UNCHANGED <<call, roster, line, past, card, opening, held, pair, lastPair, leg,
                   mail, bounds>>

\* Signals held for half a minute are not replayed.  An upgrade in progress
\* has 350 ms to go.
GoesStale(d) ==
    /\ held[d] # <<>>
    /\ \A i \in DOMAIN opening[d] : opening[d][i].kind # "grow"
    /\ stale < MaxStale /\ stale' = stale + 1
    /\ held' = [held EXCEPT ![d] = <<>>]
    /\ UNCHANGED <<mine, card, opening, pair, lastPair, leg, mail, started, accepts, goes>>

-----------------------------------------------------------------------------
(* Going.                                                                   *)

Goes == goes < MaxGoes /\ goes' = goes + 1

\* groupCallAudience: the group, or the roster.  (The last resort, whoever is
\* on the stage, reads a field their entries do not have: nobody.)
Audience(d) == IF Shared THEN Others(d) ELSE roster[d] \ {d}

Leave(d) ==
    /\ Goes
    /\ Active(d)
    /\ Cleared(d)
    /\ mail' = Sent(d, [p \in Device |->
           IF p \in Audience(d) THEN <<Sig("leave", call[d], {})>> ELSE <<>>])
    /\ UNCHANGED <<card, opening, held, pair, lastPair, started, accepts, stale>>

\* beforeunload leaves silently; nothing of all this is stored.
Reload(d) ==
    /\ Goes
    /\ Cleared(d)
    /\ card' = [card EXCEPT ![d] = NoCard]
    /\ opening' = [opening EXCEPT ![d] = <<>>]
    /\ held' = [held EXCEPT ![d] = <<>>]
    /\ pair' = [pair EXCEPT ![d] = None]
    /\ lastPair' = [lastPair EXCEPT ![d] = None]
    /\ stale' = IF held[d] = <<>> THEN stale ELSE stale + 1
    /\ UNCHANGED <<mail, started, accepts>>

\* The other side of the pair call has gone.
PairCloses(d) ==
    /\ pair[d] # None
    /\ pair[pair[d]] # d
    /\ pair' = [pair EXCEPT ![d] = None]
    /\ lastPair' = [lastPair EXCEPT ![d] = pair[d]]
    /\ UNCHANGED <<mine, card, opening, held, leg, mail, bounds>>

HangUp(d) ==
    /\ Goes
    /\ pair[d] # None
    /\ pair' = [pair EXCEPT ![d] = None]
    /\ lastPair' = [lastPair EXCEPT ![d] = pair[d]]
    /\ UNCHANGED <<mine, card, opening, held, leg, mail, started, accepts, stale>>

\* 25 seconds after a pair call.
LastPairFades(d) ==
    /\ lastPair[d] # None
    /\ lastPair' = [lastPair EXCEPT ![d] = None]
    /\ UNCHANGED <<mine, card, opening, held, pair, leg, mail, bounds>>

-----------------------------------------------------------------------------
Hears(s, d) ==
    HearInvite(s, d) \/ HearUpgrade(s, d) \/ HearMember(s, d) \/ HearLeave(s, d)

Media(d, p) ==
    \E n \in DOMAIN leg[d][p] :
        LegArrives(d, p, n) \/ NearCloses(d, p, n) \/ FarCloses(d, p, n)

Asked(d) ==
    \E i \in DOMAIN opening[d] : MicOpens(d, i) \/ MicRefused(d, i) \/ Grown(d, i)

Next ==
    \/ \E d \in Device :
        \/ \E people \in SUBSET Device :
            StartCall(d, people) \/ GrowPair(d, people) \/ AddPeople(d, people)
        \/ Accept(d) \/ CardGoes(d) \/ Asked(d)
        \/ GoesStale(d) \/ Leave(d) \/ Reload(d)
        \/ PairCloses(d) \/ HangUp(d) \/ LastPairFades(d)
    \/ \E d, p \in Device :
        Hears(d, p) \/ Media(d, p) \/ SeatTimer(d, p)

Spec == Init /\ [][Next]_vars

-----------------------------------------------------------------------------
(* The variables hold what they are declared to hold: a leg only for        *)
(* somebody with a seat, and no seat outside a call.                        *)
TypeOK ==
    /\ call \in [Device -> Device \cup {None}]
    /\ roster \in [Device -> SUBSET Device]
    /\ seat \in [Device -> SUBSET Device]
    /\ line \in [Device -> [Device -> LegId \cup {NoCall}]]
    /\ card \in [Device -> [call : Device \cup {None}, roster : SUBSET Device]]
    /\ opening \in [Device -> Seq(Plan)]
    /\ held \in [Device -> Seq([from : Device, type : {"join", "here"}, call : Device])]
    /\ pair \in [Device -> Device \cup {None}]
    /\ lastPair \in [Device -> Device \cup {None}]
    /\ leg \in [Device -> [Device -> Seq(Leg)]]
    /\ mail \in [Device -> [Device -> Seq(Signal)]]
    /\ started \in SUBSET Starters
    /\ accepts \in [Device -> Nat] /\ goes \in Nat /\ stale \in Nat
    /\ greeted \in [Device -> SUBSET Device]
    /\ visits \in [Device -> [Device -> 0 .. 2]]
    /\ \A d, p \in Device : line[d][p] # NoCall => p \in seat[d]
    /\ \A d \in Device : ~Active(d) => seat[d] = {}

(* A media connection that is up at its dialler is the one its dialler      *)
(* holds for that person, and one that is up at both ends is the one both   *)
(* hold, in the call they are in: no microphone goes on being heard over a  *)
(* leg nobody can close any more (resetGroupCallState: "live mesh legs      *)
(* nobody closes").                                                         *)
LegsAreHeld ==
    \A d, p \in Device : \A n \in DOMAIN leg[d][p] :
        LET l == leg[d][p][n] IN
        /\ l.near => line[d][p] = <<d, p, n>> /\ call[d] = l.call
        /\ l.near /\ l.far = "open" => line[p][d] = <<d, p, n>> /\ call[p] = l.call

Together(d, p) == d # p /\ Active(d) /\ call[d] = call[p]

\* Nobody came twice: entered a call again after leaving it, or twice over one
\* invite.
Once(d) == \A c \in Device : visits[d][c] < 2

\* Each told the other of its arrival; or one of them did, or one began the call,
\* and no held signal was thrown away.
Met(d, p) ==
    \/ p \in greeted[d] /\ d \in greeted[p]
    \/ stale = 0 /\ (p \in greeted[d] \/ d \in greeted[p] \/ call[d] \in {d, p})

\* A leg with something still to happen to it.
Moves(l) == \/ l.far = "coming"
            \/ l.near /\ l.far = "shut"
            \/ ~l.near /\ l.far = "open"

Settled(d, p) ==
    /\ mail[d][p] = <<>> /\ mail[p][d] = <<>>
    /\ \A x, y \in {d, p} : \A n \in DOMAIN leg[x][y] : ~Moves(leg[x][y][n])

Joined(d, p) ==
    /\ line[d][p] # NoCall /\ line[d][p] = line[p][d]
    /\ LET l == leg[line[d][p][1]][line[d][p][2]][line[d][p][3]]
       IN  l.near /\ l.far = "open"

(* Whatever order microphones opened, signals were held and offers arrived  *)
(* in, two people in one call of whom one told the other that it came, or   *)
(* began the call, see each other once nothing is under way between them    *)
(* (the comment before holdGroupCallSignal tells of the pair that did not). *)
(* Of people who came once only: whoever comes to the same call again,      *)
(* having tapped twice, heard of an upgrade by both routes while the        *)
(* microphone opened, or left and returned, may be lost to the others when  *)
(* a leg that was replaced closes.                                          *)
MeshIsWhole ==
    \A d, p \in Device :
        Together(d, p) /\ Once(d) /\ Once(p) /\ Met(d, p) /\ Settled(d, p) => Joined(d, p)
=============================================================================
