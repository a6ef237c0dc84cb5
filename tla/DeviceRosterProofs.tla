-------------------------- MODULE DeviceRosterProofs --------------------------
(***************************************************************************)
(* Proofs about DeviceRoster.  Most lemmas are about a set S that holds    *)
(* every roster there is, kept, sent or sealed: with S = Roster they say   *)
(* that types are kept, with S a history that no step leaves the history.  *)
(***************************************************************************)
EXTENDS DeviceRoster, SequenceTheorems, TLAPS

Msg(S) == [type : {"roster", "refused", "stored", "revoked"}, roster : S]
Bnd(S) == [type : {"roster", "intro", "left"}, roster : S, sender : Device]

Chk(S) == [next : S, over : Roster]

Within(S) ==
    /\ roster \in [Device -> S]
    /\ in \in [Device -> Seq(Msg(S))]
    /\ mail \in [Device -> SUBSET Bnd(S)]
    /\ relay \in S
    /\ checking \in [Device -> SUBSET Chk(S)]

\* The other variables, and what must be known of them for rosters to be
\* well formed: no device drops itself, what it signs is its first roster or
\* follows one it was the primary of, and a device without the account has
\* nothing left of it.
Typed ==
    /\ member \in [Device -> BOOLEAN]
    /\ edits \in [Device -> SUBSET Edit]
    /\ signing \in [Device -> SUBSET Signing]
    /\ introduced \in [Device -> BOOLEAN]
    /\ socket \in [Device -> Socket]

NoSelfDrop == \A d \in Device : \A e \in edits[d] : e.kind = "drop" => e.of # d
NoSelfMail == \A d \in Device : \A b \in mail[d] : b.sender # d
FollowsOn(d, r, over) ==
    /\ over.primary = d /\ r.seq = over.seq + 1 /\ over.revoked \subseteq r.revoked
SignedRight ==
    \A d \in Device : \A s \in signing[d] :
      (s.over = NoRoster /\ s.roster = Founded(d)) \/ FollowsOn(d, s.roster, s.over)
Emptied ==
    \A d \in Device : ~member[d] =>
      /\ roster[d] = NoRoster /\ in[d] = <<>> /\ socket[d] = "off"
      /\ checking[d] = {} /\ signing[d] = {}

Kinds == NoSelfDrop /\ NoSelfMail /\ SignedRight /\ Emptied

Good(S) == Within(S) /\ Typed /\ Kinds

Counted ==
    /\ founding \in [Device -> BOOLEAN]
    /\ begun \in BOOLEAN /\ crossed \subseteq Crossing /\ behind \subseteq Device
    /\ drops \in Nat /\ revokes \in Nat /\ handOvers \in Nat /\ leaves \in Nat

\* What is left to read once d took something out of its own.
Taken(S, d, inbox, box) ==
    /\ inbox \in [Device -> Seq(Msg(S))]
    /\ \A x \in Device : x # d => inbox[x] = in[x]
    /\ box \in [Device -> SUBSET Bnd(S)]
    /\ \A x \in Device : box[x] \subseteq mail[x]

\* What d waits for after a step of its own.
Waits(S, d) ==
    /\ checking' \in [Device -> SUBSET Chk(S)]
    /\ signing' \in [Device -> SUBSET Signing] /\ SignedRight'
    /\ \A x \in Device : x # d => checking'[x] = checking[x] /\ signing'[x] = signing[x]

\* While a device has the account its roster's number never falls.
Forward ==
    \A x \in Device :
      /\ member'[x] => member[x]
      /\ member'[x] => roster'[x].seq >= roster[x].seq

-----------------------------------------------------------------------------
LEMMA Names == Nobody \notin Device
BY RosterAssumption

LEMMA NoRosterTyped == NoRoster \in Roster /\ NoRoster.seq = 0 /\ NoRoster.primary = Nobody
BY DEF NoRoster, Roster

LEMMA Grown ==
  ASSUME NEW T, NEW s \in Seq(T), NEW m \in T
  PROVE  s \o <<m>> \in Seq(T)
BY SMT

LEMMA Shrunk ==
  ASSUME NEW T, NEW s \in Seq(T), s # <<>>
  PROVE  Head(s) \in T /\ Tail(s) \in Seq(T)
BY SMT

(***************************************************************************)
(* What the relay does with what it is sent.                               *)
(***************************************************************************)

LEMMA SendsWithin ==
  ASSUME NEW S, NoRoster \in S, relay \in S,
         NEW d \in Device, NEW r \in S, NEW bundles \in SUBSET Bnd(S),
         NEW inbox \in [Device -> Seq(Msg(S))],
         NEW box \in [Device -> SUBSET Bnd(S)],
         socket \in [Device -> Socket],
         Sends(d, r, bundles, inbox, box)
  PROVE  /\ relay' \in S
         /\ in' \in [Device -> Seq(Msg(S))]
         /\ mail' \in [Device -> SUBSET Bnd(S)]
         /\ socket' \in [Device -> Socket]
<1> DEFINE put      == socket[d] = "on" /\ r.seq > 0
           stores   == put /\ ~Refused(r)
           inForce  == IF stores THEN r ELSE relay
           shut(x)  == stores /\ x \in r.revoked /\ socket[x] = "on"
           reply(x) ==
             CASE shut(x) -> <<Say("revoked", r)>>
               [] stores /\ ~shut(x) /\ x # d /\ socket[x] = "on" -> <<Say("roster", r)>>
               [] stores /\ ~shut(x) /\ x = d /\ founding'[x] -> <<Say("stored", NoRoster)>>
               [] put /\ ~stores /\ x = d -> <<Say("refused", relay)>>
               [] OTHER -> <<>>
           of(x) == {b \in bundles :
             socket[x] # "on" \/ (IF b.type = "roster" THEN ~stores ELSE IsPrimary(x))}
<1>0. /\ relay' = inForce
      /\ socket' = [x \in Device |-> IF shut(x) THEN "shut" ELSE socket[x]]
      /\ in' = [x \in Device |-> inbox[x] \o reply(x)]
      /\ mail' = [x \in Device |->
           IF x \in inForce.revoked THEN {}
           ELSE IF socket[d] = "on" /\ x # d THEN box[x] \cup of(x) ELSE box[x]]
  BY DEF Sends
<1>1. relay' \in S
  BY <1>0
<1>2. socket' \in [Device -> Socket]
  BY <1>0 DEF Socket
<1>3. ASSUME NEW x \in Device PROVE inbox[x] \o reply(x) \in Seq(Msg(S))
  <2>0. inbox[x] \in Seq(Msg(S))
    OBVIOUS
  <2>1. /\ Say("revoked", r) \in Msg(S) /\ Say("roster", r) \in Msg(S)
        /\ Say("stored", NoRoster) \in Msg(S) /\ Say("refused", relay) \in Msg(S)
    BY DEF Say, Msg
  <2>2. \/ reply(x) = <<>>
        \/ reply(x) = <<Say("revoked", r)>> \/ reply(x) = <<Say("roster", r)>>
        \/ reply(x) = <<Say("stored", NoRoster)>> \/ reply(x) = <<Say("refused", relay)>>
    <3> HIDE DEF put, stores, shut
    <3> QED OBVIOUS
  <2> HIDE DEF reply
  <2>3. inbox[x] \o <<>> \in Seq(Msg(S))
    BY <2>0, SMT
  <2> QED BY <2>0, <2>1, <2>2, <2>3, Grown
<1>4. in' \in [Device -> Seq(Msg(S))]
  <2> HIDE DEF reply
  <2> QED BY <1>0, <1>3
<1>5. ASSUME NEW x \in Device PROVE mail'[x] \subseteq Bnd(S)
  <2> HIDE DEF put, stores, inForce
  <2> QED BY <1>0
<1>6. mail' \in [Device -> SUBSET Bnd(S)]
  <2>1. mail' = [x \in Device |-> mail'[x]]
    <3> HIDE DEF put, stores, inForce, of
    <3> QED BY <1>0
  <2> QED BY <2>1, <1>5
<1> QED BY <1>1, <1>2, <1>4, <1>6

\* Nothing but the sender's own bundles is added to what siblings read, none
\* of it to its own, and a device without a connection is not disturbed.
LEMMA SendsOwn ==
  ASSUME NEW d \in Device, NEW r, NEW bundles, NEW inbox, NEW box,
         inbox \in [Device -> Seq(Message)],
         Sends(d, r, bundles, inbox, box)
  PROVE  /\ \A x \in Device : \A b \in mail'[x] :
              b \in box[x] \/ (x # d /\ b \in bundles)
         /\ \A x \in Device : socket[x] = "off" =>
              socket'[x] = "off" /\ in'[x] = inbox[x]
<1> DEFINE put      == socket[d] = "on" /\ r.seq > 0
           stores   == put /\ ~Refused(r)
           inForce  == IF stores THEN r ELSE relay
           shut(x)  == stores /\ x \in r.revoked /\ socket[x] = "on"
           reply(x) ==
             CASE shut(x) -> <<Say("revoked", r)>>
               [] stores /\ ~shut(x) /\ x # d /\ socket[x] = "on" -> <<Say("roster", r)>>
               [] stores /\ ~shut(x) /\ x = d /\ founding'[x] -> <<Say("stored", NoRoster)>>
               [] put /\ ~stores /\ x = d -> <<Say("refused", relay)>>
               [] OTHER -> <<>>
           of(x) == {b \in bundles :
             socket[x] # "on" \/ (IF b.type = "roster" THEN ~stores ELSE IsPrimary(x))}
<1>0. /\ socket' = [x \in Device |-> IF shut(x) THEN "shut" ELSE socket[x]]
      /\ in' = [x \in Device |-> inbox[x] \o reply(x)]
      /\ mail' = [x \in Device |->
           IF x \in inForce.revoked THEN {}
           ELSE IF socket[d] = "on" /\ x # d THEN box[x] \cup of(x) ELSE box[x]]
  BY DEF Sends
<1>1. ASSUME NEW x \in Device, NEW b \in mail'[x]
      PROVE  b \in box[x] \/ (x # d /\ b \in bundles)
  <2> HIDE DEF put, stores, inForce
  <2> QED BY <1>0, <1>1
<1>2. ASSUME NEW x \in Device, socket[x] = "off"
      PROVE  socket'[x] = "off" /\ in'[x] = inbox[x]
  <2>1. ~shut(x) /\ (x = d => ~put)
    BY <1>2
  <2>2. reply(x) = <<>>
    <3> HIDE DEF shut, put
    <3> QED BY <2>1, <1>2
  <2> HIDE DEF shut, reply
  <2>3. socket'[x] = socket[x] /\ in'[x] = inbox[x] \o <<>>
    BY <1>0, <2>1, <2>2
  <2>4. inbox[x] \in Seq(Message)
    OBVIOUS
  <2> QED BY <2>3, <2>4, <1>2, SMT
<1> QED BY <1>1, <1>2

(***************************************************************************)
(* What a device does with a roster.                                       *)
(***************************************************************************)

LEMMA MsgTyped == ASSUME NEW S \in SUBSET Roster
                  PROVE  \A f \in [Device -> Seq(Msg(S))] : f \in [Device -> Seq(Message)]
<1>1. Msg(S) \subseteq Message
  BY DEF Msg, Message
<1>2. \A s \in Seq(Msg(S)) : s \in Seq(Message)
  BY <1>1, SMT
<1> QED BY <1>2

LEMMA FoundedTyped ==
  ASSUME NEW d \in Device
  PROVE  /\ Founded(d) \in Roster /\ Founded(d).seq = 1 /\ Founded(d).revoked = {}
         /\ Founded(d).primary = d /\ Founded(d).signer = d
BY DEF Founded, Roster

LEMMA RostersTyped == NoRoster \in Roster /\ Roster \in SUBSET Roster
BY NoRosterTyped

LEMMA PrimaryHasAccount ==
  ASSUME NEW S \in SUBSET Roster, Good(S), NEW d \in Device, IsPrimary(d)
  PROVE  member[d]
BY Names, NoRosterTyped DEF Good, Kinds, Emptied, IsPrimary, Typed

LEMMA WaitsSame ==
  ASSUME NEW S, Good(S), NEW d \in Device, UNCHANGED <<checking, signing>>
  PROVE  Waits(S, d)
BY DEF Waits, Good, Within, Typed, Kinds, SignedRight

LEMMA KeepsGood ==
  ASSUME NEW S \in SUBSET Roster, NoRoster \in S, Good(S),
         NEW d \in Device, NEW r \in S, member[d],
         NEW inbox, NEW box, Taken(S, d, inbox, box),
         Keeps(d, r, inbox, box), Waits(S, d)
  PROVE  /\ Good(S)' /\ member' = member
         /\ roster' = [roster EXCEPT ![d] = r]
<1> USE DEF Keeps, Taken, Waits
<1>1. Within(S)'
  BY DEF Good, Within
<1>2. Typed'
  BY DEF Good, Typed
<1>3. NoSelfDrop' /\ SignedRight'
  BY DEF Good, Kinds, NoSelfDrop
<1>4. NoSelfMail'
  BY DEF Good, Kinds, NoSelfMail
<1>5. Emptied'
  BY DEF Good, Kinds, Emptied, Within
<1> QED BY <1>1, <1>2, <1>3, <1>4, <1>5 DEF Good, Kinds

LEMMA RemovedGood ==
  ASSUME NEW S \in SUBSET Roster, NoRoster \in S, Good(S),
         NEW d \in Device,
         NEW inbox, NEW box, Taken(S, d, inbox, box),
         Removed(d), mail' = box, relay' = relay
  PROVE  /\ Good(S)' /\ member' = [member EXCEPT ![d] = FALSE]
         /\ roster' = [roster EXCEPT ![d] = NoRoster]
<1> USE DEF Removed, Taken
<1>1. Within(S)'
  <2>1. <<>> \in Seq(Msg(S))
    BY SMT
  <2> QED BY <2>1 DEF Good, Within
<1>2. Typed'
  BY DEF Good, Typed, Socket
<1>3. NoSelfDrop' /\ SignedRight'
  BY DEF Good, Typed, Kinds, NoSelfDrop, SignedRight
<1>4. NoSelfMail'
  BY DEF Good, Kinds, NoSelfMail
<1>5. Emptied'
  BY DEF Good, Typed, Kinds, Emptied, Within
<1> QED BY <1>1, <1>2, <1>3, <1>4, <1>5 DEF Good, Kinds

LEMMA StartedTyped ==
  ASSUME NEW d \in Device, NEW r, NEW took
  PROVE  /\ Started(d, r, took) \subseteq Edit
         /\ \A e \in Started(d, r, took) : e.kind # "drop"
BY DEF Started, Edit

LEMMA SealedTyped ==
  ASSUME NEW S, NEW d \in Device, NEW r \in S,
         NEW type \in {"roster", "intro", "left"}
  PROVE  Sealed(d, type, r) \in Bnd(S) /\ Sealed(d, type, r).sender = d
BY DEF Sealed, Bnd

LEMMA GoesOnGood ==
  ASSUME NEW S \in SUBSET Roster, NoRoster \in S, Good(S),
         NEW d \in Device, NEW r \in S, NEW put \in S, member[d],
         NEW took, NEW inbox, NEW box, Taken(S, d, inbox, box),
         GoesOn(d, r, took, put, inbox, box), Waits(S, d)
  PROVE  /\ Good(S)' /\ member' = member
         /\ roster' = [roster EXCEPT ![d] = r]
<1> DEFINE new == {b \in {Sealed(d, "intro", NoRoster)} : Introduces(d, r)}
<1>0. /\ roster' = [roster EXCEPT ![d] = r]
      /\ edits' = [edits EXCEPT ![d] = @ \cup Started(d, r, took)]
      /\ introduced' = [introduced EXCEPT ![d] = @ \/ Introduces(d, r)]
      /\ Sends(d, put, new, inbox, box)
      /\ member' = member
  BY DEF GoesOn
<1>1. new \in SUBSET Bnd(S) /\ \A b \in new : b.sender = d
  BY SealedTyped
<1> HIDE DEF new
<1>2. /\ inbox \in [Device -> Seq(Msg(S))] /\ box \in [Device -> SUBSET Bnd(S)]
      /\ inbox \in [Device -> Seq(Message)]
  BY MsgTyped DEF Taken
<1>3. /\ relay' \in S
      /\ in' \in [Device -> Seq(Msg(S))]
      /\ mail' \in [Device -> SUBSET Bnd(S)]
      /\ socket' \in [Device -> Socket]
  BY <1>0, <1>1, <1>2, SendsWithin DEF Good, Within, Typed
<1>4. /\ \A x \in Device : \A b \in mail'[x] :
           b \in box[x] \/ (x # d /\ b \in new)
      /\ \A x \in Device : socket[x] = "off" =>
           socket'[x] = "off" /\ in'[x] = inbox[x]
  BY <1>0, <1>2, SendsOwn
<1>5. Within(S)'
  BY <1>0, <1>3 DEF Good, Within, Waits
<1>6. edits' \in [Device -> SUBSET Edit]
  BY <1>0, StartedTyped DEF Good, Typed
<1>7. introduced' \in [Device -> BOOLEAN]
  <2>1. (introduced[d] \/ Introduces(d, r)) \in BOOLEAN
    OBVIOUS
  <2> QED BY <1>0, <2>1 DEF Good, Typed
<1>8. Typed'
  BY <1>0, <1>3, <1>6, <1>7 DEF Good, Typed, Waits
<1>9. NoSelfDrop' /\ SignedRight'
  BY <1>0, StartedTyped DEF Good, Typed, Kinds, NoSelfDrop, Waits
<1>10. NoSelfMail'
  BY <1>1, <1>4 DEF Good, Kinds, NoSelfMail, Taken
<1>11. Emptied'
  BY <1>0, <1>4 DEF Good, Kinds, Emptied, Within, Taken, Waits
<1> QED BY <1>0, <1>5, <1>8, <1>9, <1>10, <1>11 DEF Good, Kinds

LEMMA PublishesGood ==
  ASSUME NEW S \in SUBSET Roster, NoRoster \in S, Good(S),
         NEW d \in Device, NEW r \in S, member[d],
         NEW inbox, Taken(S, d, inbox, mail), Publishes(d, r, inbox),
         UNCHANGED <<member, introduced, edits>>, Waits(S, d)
  PROVE  Good(S)' /\ roster' = [roster EXCEPT ![d] = r]
<1> DEFINE new == {Sealed(d, "roster", r)}
<1>0. roster' = [roster EXCEPT ![d] = r] /\ Sends(d, r, new, inbox, mail)
  BY DEF Publishes
<1>1. new \in SUBSET Bnd(S) /\ \A b \in new : b.sender = d
  BY SealedTyped
<1> HIDE DEF new
<1>2. /\ inbox \in [Device -> Seq(Msg(S))] /\ mail \in [Device -> SUBSET Bnd(S)]
      /\ inbox \in [Device -> Seq(Message)]
  BY MsgTyped DEF Taken
<1>3. /\ relay' \in S
      /\ in' \in [Device -> Seq(Msg(S))]
      /\ mail' \in [Device -> SUBSET Bnd(S)]
      /\ socket' \in [Device -> Socket]
  BY <1>0, <1>1, <1>2, SendsWithin DEF Good, Within, Typed
<1>4. /\ \A x \in Device : \A b \in mail'[x] :
           b \in mail[x] \/ (x # d /\ b \in new)
      /\ \A x \in Device : socket[x] = "off" =>
           socket'[x] = "off" /\ in'[x] = inbox[x]
  BY <1>0, <1>2, SendsOwn
<1>5. Within(S)'
  BY <1>0, <1>3 DEF Good, Within, Waits
<1>6. Typed' /\ NoSelfDrop' /\ SignedRight'
  BY <1>3 DEF Good, Typed, Kinds, NoSelfDrop, Waits
<1>7. NoSelfMail'
  BY <1>1, <1>4 DEF Good, Kinds, NoSelfMail
<1>8. Emptied'
  BY <1>0, <1>4 DEF Good, Kinds, Emptied, Within, Taken, Waits
<1> QED BY <1>0, <1>5, <1>6, <1>7, <1>8 DEF Good, Kinds

\* Only a check is begun.
LEMMA BeginsGood ==
  ASSUME NEW S \in SUBSET Roster, NoRoster \in S, Good(S),
         NEW d \in Device, NEW mine \in S, NEW next \in S, member[d],
         NEW inbox, NEW box, Taken(S, d, inbox, box),
         Begins(d, mine, next, inbox, box)
  PROVE  /\ Good(S)' /\ member' = member
         /\ roster' = [roster EXCEPT ![d] = mine]
<1>1. [next |-> next, over |-> mine] \in Chk(S)
  BY DEF Chk
<1>2. Waits(S, d)
  BY <1>1 DEF Begins, Waits, Good, Within, Typed, Kinds, SignedRight
<1> QED BY <1>2, KeepsGood DEF Begins

\* What is signed is typed and right, and nothing else changed.
LEMMA SignsGood ==
  ASSUME NEW S, Good(S), NEW d \in Device, UNCHANGED checking,
         NEW r \in Roster, NEW over \in Roster, Signs(d, r, over),
         (over = NoRoster /\ r = Founded(d)) \/ FollowsOn(d, r, over)
  PROVE  Waits(S, d)
<1>1. [roster |-> r, over |-> over] \in Signing
  BY DEF Signing
<1> QED BY <1>1 DEF Signs, Waits, Good, Within, Typed, Kinds, SignedRight

-----------------------------------------------------------------------------
(***************************************************************************)
(* The actions.  Each keeps S if the roster it publishes, if any, is in S. *)
(***************************************************************************)

LEMMA HeadIn ==
  ASSUME NEW S \in SUBSET Roster, Good(S), NEW d \in Device, NEW type, Heard(d, type)
  PROVE  /\ member[d] /\ Head(in[d]).roster \in S
         /\ Taken(S, d, Rest(d), mail)
<1>1. in[d] \in Seq(Msg(S)) /\ in[d] # <<>>
  BY DEF Good, Within, Heard
<1>2. Head(in[d]) \in Msg(S) /\ Tail(in[d]) \in Seq(Msg(S))
  <2> DEFINE T == Msg(S)
             s == in[d]
  <2>1. s \in Seq(T) /\ s # <<>>
    BY <1>1
  <2> HIDE DEF T, s
  <2>2. Head(s) \in T /\ Tail(s) \in Seq(T)
    BY <2>1, Shrunk
  <2> QED BY <2>2 DEF T, s
<1>3. member[d]
  BY <1>1 DEF Good, Kinds, Emptied, Typed
<1> QED BY <1>2, <1>3 DEF Taken, Rest, Good, Within, Msg

LEMMA ConnectGood ==
  ASSUME NEW S \in SUBSET Roster, Good(S), Counted, NEW d \in Device, Connect(d)
  PROVE  Good(S)' /\ Counted' /\ Forward
<1> USE DEF Good, Connect, local, bounds
<1>1. Within(S)'
  <2> DEFINE m == Say(IF d \in relay.revoked THEN "revoked" ELSE "roster", relay)
  <2>1. m \in Msg(S)
    BY DEF Say, Msg, Within
  <2> HIDE DEF m
  <2>2. <<m>> \in Seq(Msg(S))
    BY <2>1, SMT
  <2>3. in' = [in EXCEPT ![d] = <<m>>]
    BY DEF m
  <2> QED BY <2>2, <2>3 DEF Within
<1>2. Typed'
  BY DEF Typed, Socket
<1>3. Kinds'
  BY DEF Kinds, NoSelfDrop, NoSelfMail, SignedRight, Emptied, Within, Typed
<1>4. Counted' /\ Forward
  BY DEF Counted, Forward, Within, Roster
<1> QED BY <1>1, <1>2, <1>3, <1>4

LEMMA DropGood ==
  ASSUME NEW S \in SUBSET Roster, Good(S), Counted, NEW d \in Device, Drop(d)
  PROVE  Good(S)' /\ Counted' /\ Forward
<1> USE DEF Good, Drop, local, ghosts
<1>1. Within(S)' /\ Typed'
  BY RosterAssumption DEF Within, Typed, Socket
<1>2. Kinds'
  BY DEF Kinds, NoSelfDrop, NoSelfMail, SignedRight, Emptied, Typed
<1>3. Counted' /\ Forward
  BY DEF Counted, Forward, Within, Roster
<1> QED BY <1>1, <1>2, <1>3

LEMMA ClosesGood ==
  ASSUME NEW S \in SUBSET Roster, Good(S), Counted, NEW d \in Device,
         NEW restart \in BOOLEAN, Closes(d, restart)
  PROVE  Good(S)' /\ Counted' /\ Forward
<1> USE DEF Good, Closes, bounds, ghosts
<1>1. Within(S)'
  <2>1. <<>> \in Seq(Msg(S))
    BY SMT
  <2> QED BY <2>1 DEF Within
<1>2. Typed' /\ Counted'
  <2>1. Counted' /\ (socket \in [Device -> Socket])'
    BY DEF Typed, Socket, Counted
  <2>2. CASE restart
    BY <2>1, <2>2 DEF Typed
  <2>3. CASE ~restart
    BY <2>1, <2>3 DEF Typed
  <2> QED BY <2>2, <2>3
<1>3. NoSelfDrop' /\ NoSelfMail' /\ SignedRight'
  BY DEF Kinds, NoSelfDrop, NoSelfMail, SignedRight, Typed
<1>4. Emptied' /\ Forward
  BY DEF Kinds, Emptied, Within, Typed, Forward, Roster
<1> QED BY <1>1, <1>2, <1>3, <1>4 DEF Kinds

LEMMA HearsRosterGood ==
  ASSUME NEW S \in SUBSET Roster, NoRoster \in S, Good(S), Counted,
         NEW d \in Device, HearsRoster(d)
  PROVE  Good(S)' /\ Counted' /\ Forward
<1> DEFINE next == Head(in[d]).roster
           mine == roster[d]
           founds == /\ next.seq = 0 /\ mine.seq = 0
                     /\ d \in Generated /\ ~founding[d]
           inbox == Rest(d)
<1>0. /\ member[d] /\ next \in S /\ mine \in S
      /\ Taken(S, d, inbox, mail)
  BY HeadIn DEF HearsRoster, Good, Within
<1>1. Counted'
  <2>1. (founding[d] \/ founds) \in BOOLEAN
    OBVIOUS
  <2> QED BY <2>1 DEF HearsRoster, Counted, bounds, ghosts
<1>2. /\ roster \in [Device -> S]
      /\ \A x \in Device : roster[x].seq \in Nat
  BY DEF Good, Within, Roster
<1>3. ASSUME Good(S)', member' = member, roster' = [roster EXCEPT ![d] = mine]
      PROVE  Good(S)' /\ Forward
  BY <1>2, <1>3 DEF Forward
<1>4. CASE Begins(d, mine, next, inbox, mail)
  BY <1>0, <1>1, <1>3, <1>4, BeginsGood
<1>5. ASSUME NEW put \in S, GoesOn(d, mine, FALSE, put, inbox, mail),
             UNCHANGED <<checking, signing>>
      PROVE  Good(S)' /\ Forward
  BY <1>0, <1>3, <1>5, GoesOnGood, WaitsSame
<1>6. CASE /\ Signs(d, Founded(d), NoRoster)
           /\ Keeps(d, mine, inbox, mail)
           /\ UNCHANGED checking
  <2>1. Waits(S, d)
    BY <1>6, FoundedTyped, NoRosterTyped, SignsGood
  <2> QED BY <1>0, <1>1, <1>3, <1>6, <2>1, KeepsGood
<1> QED
  BY <1>0, <1>1, <1>4, <1>5, <1>6 DEF HearsRoster

\* Only a device that gives way lets go of its roster.
LEMMA HearsRefusalGood ==
  ASSUME NEW S \in SUBSET Roster, NoRoster \in S, Good(S), Counted,
         NEW d \in Device, HearsRefusal(d)
  PROVE  /\ Good(S)' /\ Counted' /\ member' = member
         /\ IF Yields(d, Head(in[d]).roster)
            THEN roster' = [roster EXCEPT ![d] = NoRoster]
            ELSE Forward
<1> DEFINE next == Head(in[d]).roster
           mine == IF Yields(d, next) THEN NoRoster ELSE roster[d]
           inbox == Rest(d)
<1>0. /\ member[d] /\ next \in S /\ roster[d] \in S /\ mine \in S
      /\ Taken(S, d, inbox, mail)
  BY HeadIn DEF HearsRefusal, Good, Within
<1>1. Counted'
  <2>1. (founding[d] /\ ~Yields(d, next)) \in BOOLEAN
    BY DEF Counted
  <2> QED BY <2>1 DEF HearsRefusal, Counted, bounds, ghosts
<1>2. roster \in [Device -> S] /\ \A x \in Device : roster[x].seq \in Nat
  BY DEF Good, Within, Roster
<1>3. Good(S)' /\ member' = member /\ roster' = [roster EXCEPT ![d] = mine]
  <2> HIDE DEF mine
  <2>1. Begins(d, mine, next, inbox, mail)
    BY DEF HearsRefusal, mine
  <2> QED BY <1>0, <2>1, BeginsGood
<1> QED BY <1>1, <1>2, <1>3 DEF Forward

LEMMA HearsStoredGood ==
  ASSUME NEW S \in SUBSET Roster, NoRoster \in S, Good(S), Counted,
         NEW d \in Device, HearsStored(d)
  PROVE  Good(S)' /\ Counted' /\ Forward
<1>1. member[d] /\ roster[d] \in S /\ Taken(S, d, Rest(d), mail)
  BY HeadIn DEF HearsStored, Good, Within
<1>2. /\ Good(S)' /\ member' = member
      /\ roster' = [roster EXCEPT ![d] = roster[d]]
  BY <1>1, KeepsGood, WaitsSame DEF HearsStored
<1>3. Counted'
  BY DEF HearsStored, Counted, bounds, ghosts
<1>4. Forward
  BY <1>2 DEF Forward, Good, Within, Roster
<1> QED BY <1>2, <1>3, <1>4

LEMMA HearsRevokedGood ==
  ASSUME NEW S \in SUBSET Roster, NoRoster \in S, Good(S), Counted,
         NEW d \in Device, HearsRevoked(d)
  PROVE  Good(S)' /\ Counted' /\ Forward
<1> DEFINE next == Head(in[d]).roster
<1>0. /\ member[d] /\ next \in S /\ roster[d] \in S
      /\ Taken(S, d, Rest(d), mail)
  BY HeadIn DEF HearsRevoked, Good, Within
<1>1. Counted'
  BY DEF HearsRevoked, Counted, bounds, ghosts
<1>2. /\ roster \in [Device -> S] /\ member \in [Device -> BOOLEAN]
      /\ \A x \in Device : roster[x].seq \in Nat
  BY DEF Good, Within, Roster, Typed
<1>3. CASE Removed(d) /\ UNCHANGED <<mail, relay>>
  <2>0. Taken(S, d, in, mail)
    BY DEF Taken, Good, Within
  <2>1. /\ Good(S)' /\ member' = [member EXCEPT ![d] = FALSE]
        /\ roster' = [roster EXCEPT ![d] = NoRoster]
    BY <1>3, <2>0, RemovedGood
  <2> QED BY <1>1, <1>2, <2>1 DEF Forward
<1>4. CASE Begins(d, roster[d], next, Rest(d), mail)
  <2>1. /\ Good(S)' /\ member' = member
        /\ roster' = [roster EXCEPT ![d] = roster[d]]
    BY <1>0, <1>4, BeginsGood
  <2> QED BY <1>1, <1>2, <2>1 DEF Forward
<1> QED BY <1>3, <1>4 DEF HearsRevoked

LEMMA ReadsMailGood ==
  ASSUME NEW S \in SUBSET Roster, NoRoster \in S, Good(S), Counted,
         NEW d \in Device, NEW b \in mail[d], ReadsMail(d, b)
  PROVE  Good(S)' /\ Counted' /\ Forward
<1> DEFINE box == [mail EXCEPT ![d] = @ \ {b}]
           heard == b.sender \notin roster[d].revoked
           acts == heard /\ b.type # "roster" /\ IsPrimary(d)
           kind == IF b.type = "intro" THEN "add" ELSE "drop"
<1>0. /\ member[d] /\ b \in Bnd(S) /\ b.roster \in S /\ roster[d] \in S
      /\ Taken(S, d, in, box)
  BY DEF ReadsMail, Good, Within, Kinds, Emptied, Taken, Bnd, Typed
<1>1. Counted'
  BY DEF ReadsMail, Counted, bounds, ghosts
<1>2. /\ roster \in [Device -> S]
      /\ \A x \in Device : roster[x].seq \in Nat
  BY DEF Good, Within, Roster
<1>3. CASE Begins(d, roster[d], b.roster, in, box)
  <2>1. /\ Good(S)' /\ member' = member
        /\ roster' = [roster EXCEPT ![d] = roster[d]]
    <3> HIDE DEF box
    <3> QED BY <1>0, <1>3, BeginsGood
  <2> QED BY <1>1, <1>2, <2>1 DEF Forward
<1>4. CASE /\ acts /\ Asks(d, kind, b.sender) /\ mail' = box
           /\ UNCHANGED <<roster, member, checking, signing, introduced,
                          socket, in, relay>>
  <2>1. [kind |-> kind, of |-> b.sender] \in Edit /\ b.sender # d
    BY <1>0 DEF Edit, Bnd, Good, Kinds, NoSelfMail
  <2> HIDE DEF kind
  <2>2. Within(S)' /\ Typed'
    BY <1>0, <1>4, <2>1 DEF Good, Within, Typed, Asks, Taken
  <2>3. NoSelfDrop'
    BY <1>4, <2>1 DEF Good, Typed, Kinds, NoSelfDrop, Asks
  <2>4. NoSelfMail' /\ SignedRight' /\ Emptied'
    BY <1>4 DEF Good, Within, Kinds, NoSelfMail, SignedRight, Emptied
  <2>5. Forward
    BY <1>2, <1>4 DEF Forward
  <2> QED BY <1>1, <2>2, <2>3, <2>4, <2>5 DEF Good, Kinds
<1>5. CASE Keeps(d, roster[d], in, box) /\ UNCHANGED <<checking, signing>>
  <2>1. /\ Good(S)' /\ member' = member
        /\ roster' = [roster EXCEPT ![d] = roster[d]]
    <3> HIDE DEF box
    <3> QED BY <1>0, <1>5, KeepsGood, WaitsSame
  <2> QED BY <1>1, <1>2, <2>1 DEF Forward
<1> QED BY <1>3, <1>4, <1>5 DEF ReadsMail

\* Only a roster that does not follow the one held sets a device back.
LEMMA CheckedGood ==
  ASSUME NEW S \in SUBSET Roster, NoRoster \in S, Good(S), Counted,
         NEW d \in Device, NEW c \in checking[d], Checked(d, c)
  PROVE  Good(S)' /\ Counted' /\ (crossed' = {} => Forward)
<1> DEFINE next == c.next
<1>0. /\ member[d] /\ next \in S /\ roster[d] \in S /\ Taken(S, d, in, mail)
  BY DEF Good, Within, Kinds, Emptied, Taken, Chk, Typed
<1>1. Counted'
  BY DEF Checked, Counted, bounds, Crossing
<1>2. /\ roster \in [Device -> S] /\ member \in [Device -> BOOLEAN]
      /\ \A x \in Device : roster[x].seq \in Nat /\ next.seq \in Nat
  BY <1>0 DEF Good, Within, Roster, Typed
<1>3. ASSUME member'[d]
      PROVE  /\ Waits(S, d)
             /\ crossed' = {} => next.seq >= roster[d].seq
  <2>1. /\ checking' = [checking EXCEPT ![d] = @ \ {c}]
        /\ UNCHANGED signing
        /\ crossed' = {} => ~Stale(d, next)
    BY <1>3 DEF Checked
  <2>2. Waits(S, d)
    BY <2>1 DEF Waits, Good, Within, Typed, Kinds, SignedRight
  <2>3. ~Stale(d, next) => next.seq >= roster[d].seq
    BY <1>2 DEF Stale, MayFollow
  <2> QED BY <2>1, <2>2, <2>3
<1>4. CASE GoesOn(d, next, TRUE, NoRoster, in, mail)
  <2>1. member' = member
    BY <1>4 DEF GoesOn
  <2>2. /\ Good(S)'
        /\ roster' = [roster EXCEPT ![d] = next]
    BY <1>0, <1>3, <1>4, <2>1, GoesOnGood
  <2> QED BY <1>0, <1>1, <1>2, <1>3, <2>1, <2>2 DEF Forward
<1>5. CASE Removed(d) /\ UNCHANGED <<mail, relay>>
  <2>1. /\ Good(S)' /\ member' = [member EXCEPT ![d] = FALSE]
        /\ roster' = [roster EXCEPT ![d] = NoRoster]
    BY <1>0, <1>5, RemovedGood
  <2> QED BY <1>1, <1>2, <2>1 DEF Forward
<1>6. CASE Keeps(d, next, in, mail)
  <2>1. member' = member
    BY <1>6 DEF Keeps
  <2>2. /\ Good(S)'
        /\ roster' = [roster EXCEPT ![d] = next]
    BY <1>0, <1>3, <1>6, <2>1, KeepsGood
  <2> QED BY <1>0, <1>1, <1>2, <1>3, <2>1, <2>2 DEF Forward
<1> QED BY <1>4, <1>5, <1>6 DEF Checked

LEMMA EditedTyped ==
  ASSUME Good(Roster), NEW d \in Device, IsPrimary(d)
  PROVE  /\ Edited(d) \in Roster /\ Edited(d).seq = roster[d].seq + 1
         /\ roster[d].revoked \subseteq Edited(d).revoked
         /\ Edited(d).signer = d
<1> DEFINE r == roster[d]
           named(kind) == {x \in Device : [kind |-> kind, of |-> x] \in edits[d]}
           revoked == r.revoked \cup named("drop")
           members == (r.members \cup named("add")) \ revoked
<1>0. Edited(d) = [seq |-> r.seq + 1, primary |-> r.primary, signer |-> d,
                   members |-> members, revoked |-> revoked]
  BY DEF Edited
<1>1. /\ r.seq \in Nat /\ r.primary = d /\ d \notin r.revoked
      /\ r.members \subseteq Device /\ r.revoked \subseteq Device
  BY DEF Good, Within, Roster, IsPrimary
<1>2. d \notin named("drop")
  <2>1. [kind |-> "drop", of |-> d] \notin edits[d]
    BY DEF Good, Kinds, NoSelfDrop
  <2> QED BY <2>1
<1>3. named("add") \subseteq Device /\ named("drop") \subseteq Device
  OBVIOUS
<1> HIDE DEF named
<1>4. /\ members \subseteq Device /\ revoked \subseteq Device
      /\ d \notin revoked /\ members \cap revoked = {} /\ r.revoked \subseteq revoked
  BY <1>1, <1>2, <1>3
<1> HIDE DEF members, revoked, r
<1>5. Edited(d) \in Roster
  BY <1>0, <1>1, <1>4 DEF Roster
<1> QED BY <1>0, <1>4, <1>5 DEF r

LEMMA HandedOverTyped ==
  ASSUME NEW d \in Device, NEW r \in Roster, NEW heir \in r.members
  PROVE  /\ HandedOver(d, r, heir) \in Roster
         /\ HandedOver(d, r, heir).seq = r.seq + 1
         /\ HandedOver(d, r, heir).revoked = r.revoked
<1>1. /\ r.seq \in Nat /\ heir \in Device /\ r.members \cap r.revoked = {}
      /\ r.members \subseteq Device /\ r.revoked \subseteq Device
  BY DEF Roster
<1>2. HandedOver(d, r, heir) =
        [seq |-> r.seq + 1, primary |-> heir, signer |-> d,
         members |-> r.members, revoked |-> r.revoked]
  BY DEF HandedOver
<1>3. HandedOver(d, r, heir) \in Roster
  BY <1>1, <1>2 DEF Roster
<1>4. HandedOver(d, r, heir).seq = r.seq + 1 /\ HandedOver(d, r, heir).revoked = r.revoked
  BY <1>2
<1> QED BY <1>3, <1>4

\* A step that only begins a signature, or does not even that.
LEMMA BeginsToSign ==
  ASSUME NEW S \in SUBSET Roster, Good(S), NEW d \in Device, member[d],
         edits' \in [Device -> SUBSET Edit], NoSelfDrop', Waits(S, d),
         UNCHANGED <<roster, member, introduced, wires, relay>>
  PROVE  Good(S)' /\ Forward
<1> USE DEF wires
<1>1. Within(S)' /\ Typed'
  BY DEF Good, Within, Typed, Waits
<1>2. NoSelfMail' /\ SignedRight' /\ Emptied'
  BY DEF Good, Kinds, NoSelfMail, Emptied, Waits
<1>3. Forward
  BY DEF Forward, Good, Within, Roster
<1> QED BY <1>1, <1>2, <1>3 DEF Good, Kinds

LEMMA EditTimerGood ==
  ASSUME NEW S \in SUBSET Roster, Good(S), Good(Roster), Counted,
         NEW d \in Device, EditTimer(d)
  PROVE  Good(S)' /\ Counted' /\ Forward
<1>1. Counted'
  BY DEF EditTimer, Counted, bounds, ghosts
<1>2. edits' \in [Device -> SUBSET Edit] /\ NoSelfDrop'
  BY DEF EditTimer, Good, Typed, Kinds, NoSelfDrop
<1>3. CASE IsPrimary(d) /\ Signs(d, Edited(d), roster[d])
  <2>1. member[d]
    BY <1>3, PrimaryHasAccount
  <2>2. roster[d] \in Roster
    BY DEF Good, Within
  <2>3. Edited(d) \in Roster /\ FollowsOn(d, Edited(d), roster[d])
    BY <1>3, EditedTyped DEF FollowsOn, IsPrimary
  <2>4. Waits(S, d)
    BY <1>3, <2>2, <2>3, SignsGood DEF EditTimer
  <2> QED BY <1>1, <1>2, <2>1, <2>4, BeginsToSign DEF EditTimer
<1>4. CASE UNCHANGED signing
  BY <1>1, <1>2, <1>4 DEF EditTimer, Good, Within, Typed, Kinds, NoSelfMail,
     SignedRight, Emptied, Forward, wires, Roster
<1> QED BY <1>3, <1>4 DEF EditTimer

LEMMA ClaimGood ==
  ASSUME NEW S \in SUBSET Roster, Good(S), Counted, NEW d \in Device, Claim(d)
  PROVE  Good(S)' /\ Counted' /\ Forward
<1>1. Counted'
  BY DEF Claim, Counted, bounds, ghosts
<1>2. edits' \in [Device -> SUBSET Edit] /\ NoSelfDrop'
  BY DEF Claim, Good, Typed, Kinds, NoSelfDrop
<1>3. Waits(S, d)
  BY FoundedTyped, NoRosterTyped, SignsGood DEF Claim
<1> QED BY <1>1, <1>2, <1>3, BeginsToSign DEF Claim

LEMMA RevokeGood ==
  ASSUME NEW S \in SUBSET Roster, Good(S), Counted,
         NEW d \in Device, NEW x \in Device, Revoke(d, x)
  PROVE  Good(S)' /\ Counted' /\ Forward
<1>1. [kind |-> "drop", of |-> x] \in Edit /\ x # d
  BY DEF Edit, Revoke
<1>2. edits' \in [Device -> SUBSET Edit] /\ NoSelfDrop'
  BY <1>1 DEF Revoke, Good, Typed, Asks, Kinds, NoSelfDrop
<1>3. Waits(S, d) /\ member[d]
  BY WaitsSame, PrimaryHasAccount DEF Revoke
<1>4. Counted'
  BY RosterAssumption DEF Revoke, Counted, ghosts
<1> QED BY <1>2, <1>3, <1>4, BeginsToSign DEF Revoke

LEMMA AskHandOverGood ==
  ASSUME NEW S \in SUBSET Roster, Good(S), Counted,
         NEW d \in Device, NEW x \in Device, AskHandOver(d, x)
  PROVE  Good(S)' /\ Counted' /\ Forward
<1>1. /\ roster[d] \in Roster /\ x \in roster[d].members /\ roster[d].primary = d
      /\ member[d]
  BY PrimaryHasAccount DEF AskHandOver, Good, Within, IsPrimary
<1>2. edits' \in [Device -> SUBSET Edit] /\ NoSelfDrop'
  BY DEF AskHandOver, Good, Typed, Kinds, NoSelfDrop
<1>3. /\ HandedOver(d, roster[d], x) \in Roster
      /\ FollowsOn(d, HandedOver(d, roster[d], x), roster[d])
  BY <1>1, HandedOverTyped DEF FollowsOn
<1>4. Waits(S, d)
  BY <1>1, <1>3, SignsGood DEF AskHandOver
<1>5. Counted'
  BY RosterAssumption DEF AskHandOver, Counted, ghosts
<1> QED BY <1>1, <1>2, <1>4, <1>5, BeginsToSign DEF AskHandOver

LEMMA PublishedGood ==
  ASSUME NEW S \in SUBSET Roster, NoRoster \in S, Good(S), Counted,
         NEW d \in Device, NEW s \in signing[d], Published(d, s), s.roster \in S
  PROVE  /\ Good(S)' /\ Counted' /\ member' = member /\ member[d]
         /\ roster' = [roster EXCEPT ![d] = s.roster]
<1>1. member[d] /\ Taken(S, d, in, mail)
  BY DEF Good, Within, Kinds, Emptied, Taken, Typed
<1>2. Counted'
  <2>1. (founding[d] \/ s.over.seq = 0) \in BOOLEAN
    OBVIOUS
  <2> QED BY <2>1 DEF Published, Counted, bounds, Crossing
<1>3. Waits(S, d)
  BY DEF Published, Waits, Good, Within, Typed, Kinds, SignedRight
<1> QED BY <1>1, <1>2, <1>3, PublishesGood DEF Published

LEMMA LeaveGood ==
  ASSUME NEW S \in SUBSET Roster, NoRoster \in S, Good(S), Counted,
         NEW d \in Device, Leave(d)
  PROVE  Good(S)' /\ Counted' /\ Forward
<1>1. Sealed(d, "left", NoRoster) \in Bnd(S) /\ Sealed(d, "left", NoRoster).sender = d
  BY SealedTyped
<1>2. mail' \in [Device -> SUBSET Bnd(S)] /\ NoSelfMail'
  BY <1>1 DEF Leave, Good, Within, Kinds, NoSelfMail
<1>3. Within(S)'
  <2>1. <<>> \in Seq(Msg(S))
    BY SMT
  <2> QED BY <1>2, <2>1 DEF Leave, Removed, Good, Within
<1>4. Typed' /\ Counted'
  BY RosterAssumption DEF Leave, Removed, Good, Typed, Counted, Socket, ghosts
<1>5. NoSelfDrop' /\ SignedRight'
  BY DEF Leave, Removed, Good, Typed, Kinds, NoSelfDrop, SignedRight
<1>6. Emptied' /\ Forward
  BY DEF Leave, Removed, Good, Typed, Within, Kinds, Emptied, Forward, Roster
<1> QED BY <1>2, <1>3, <1>4, <1>5, <1>6 DEF Good, Kinds

LEMMA InitGood ==
  ASSUME Init
  PROVE  Good({NoRoster}) /\ Good(Roster) /\ Counted
<1>1. ASSUME NEW S, NoRoster \in S PROVE Good(S)
  <2>1. <<>> \in Seq(Msg(S))
    BY SMT
  <2> QED BY <1>1, <2>1 DEF Init, Good, Within, Typed, Kinds, NoSelfDrop,
        NoSelfMail, SignedRight, Emptied, Socket
<1>2. Counted
  BY DEF Init, Counted
<1> QED BY <1>1, <1>2, NoRosterTyped

LEMMA StutterGood ==
  ASSUME NEW S, Good(S), Counted, UNCHANGED vars
  PROVE  Good(S)' /\ Counted'
BY DEF Good, Within, Typed, Kinds, NoSelfDrop, NoSelfMail, SignedRight, Emptied,
   Counted, vars

LEMMA TypeStep ==
  ASSUME Good(Roster), Counted, [Next]_vars
  PROVE  Good(Roster)' /\ Counted'
<1> USE RostersTyped
<1>1. CASE UNCHANGED vars
  BY <1>1, StutterGood
<1>2. ASSUME NEW d \in Device, Connect(d) PROVE Good(Roster)' /\ Counted'
  BY <1>2, ConnectGood
<1>3. ASSUME NEW d \in Device, Drop(d) PROVE Good(Roster)' /\ Counted'
  BY <1>3, DropGood
<1>4. ASSUME NEW d \in Device, NEW restart \in BOOLEAN, Closes(d, restart)
      PROVE  Good(Roster)' /\ Counted'
  BY <1>4, ClosesGood
<1>5. ASSUME NEW d \in Device, Hears(d) PROVE Good(Roster)' /\ Counted'
  BY <1>5, HearsRosterGood, HearsRefusalGood, HearsStoredGood,
     HearsRevokedGood DEF Hears
<1>6. ASSUME NEW d \in Device, EditTimer(d) \/ Claim(d)
      PROVE  Good(Roster)' /\ Counted'
  BY <1>6, EditTimerGood, ClaimGood
<1>7. ASSUME NEW d \in Device, NEW c \in checking[d], Checked(d, c)
      PROVE  Good(Roster)' /\ Counted'
  BY <1>7, CheckedGood
<1>8. ASSUME NEW d \in Device, NEW s \in signing[d], Published(d, s)
      PROVE  Good(Roster)' /\ Counted'
  <2>1. s.roster \in Roster
    BY DEF Good, Typed, Signing
  <2> QED BY <1>8, <2>1, PublishedGood
<1>9. ASSUME NEW d \in Device, NEW b \in mail[d], ReadsMail(d, b)
      PROVE  Good(Roster)' /\ Counted'
  BY <1>9, ReadsMailGood
<1>10. ASSUME NEW d \in Device, NEW x \in Device, Revoke(d, x) \/ AskHandOver(d, x)
       PROVE  Good(Roster)' /\ Counted'
  BY <1>10, RevokeGood, AskHandOverGood
<1>11. ASSUME NEW d \in Device, Leave(d)
       PROVE  Good(Roster)' /\ Counted'
  BY <1>11, LeaveGood
<1> QED BY <1>1, <1>2, <1>3, <1>4, <1>5, <1>6, <1>7, <1>8, <1>9, <1>10, <1>11 DEF Next

\* Every roster there is is well formed: nobody gone is listed or the
\* primary, whatever was edited meanwhile.
THEOREM TypeCorrect == Spec => []TypeOK
<1> DEFINE Inv == Good(Roster) /\ Counted
<1>1. Init => Inv
  BY InitGood
<1>2. Inv /\ [Next]_vars => Inv'
  BY TypeStep
<1>3. Inv => TypeOK
  <2>1. Msg(Roster) = Message /\ Bnd(Roster) = Bundle /\ Chk(Roster) = Check
    BY DEF Msg, Message, Bnd, Bundle, Chk, Check
  <2> QED BY <2>1 DEF Good, Within, Typed, Counted, TypeOK
<1> QED BY <1>1, <1>2, <1>3, PTL DEF Spec

-----------------------------------------------------------------------------
(***************************************************************************)
(* One history.  S is the set of the rosters made so far.  As long as      *)
(* nothing crossed, each has a number of its own, and a device that was    *)
(* the primary in one that was followed by another holds a later one,      *)
(* because it made that one.                                               *)
(***************************************************************************)
Numbered(S) ==
    /\ \A x \in S : x.seq = 0 => x = NoRoster
    /\ \A x, y \in S : x.seq = y.seq => x = y
    /\ \A x, y \in S : x.seq <= y.seq => x.revoked \subseteq y.revoked

Overtaken(S) ==
    \A x, y \in S : \A d \in Device :
      y.primary = d /\ y.seq > 0 /\ x.seq > y.seq /\ member[d]
        => roster[d].seq > y.seq

Unfounded(S) == ~begun => S = {NoRoster}

History(S) ==
    NoRoster \in S /\ Good(S) /\ Numbered(S) /\ Overtaken(S) /\ Unfounded(S)

LEMMA Newest ==
  ASSUME NEW S \in SUBSET Roster, History(S), NEW d \in Device, IsPrimary(d)
  PROVE  /\ roster[d] \in S /\ roster[d].seq > 0 /\ roster[d].seq \in Nat
         /\ \A x \in S : x.seq <= roster[d].seq
<1>1. /\ roster[d] \in S /\ roster[d].seq \in Nat /\ \A x \in S : x.seq \in Nat
  BY DEF History, Good, Within, Roster
<1>2. member[d]
  BY PrimaryHasAccount DEF History
<1>3. roster[d].seq # 0
  BY <1>1, Names, NoRosterTyped DEF History, Numbered, IsPrimary
<1> QED BY <1>1, <1>2, <1>3 DEF History, Overtaken, IsPrimary

LEMMA SeqGrown ==
  ASSUME NEW A, NEW B, A \subseteq B
  PROVE  Seq(A) \subseteq Seq(B)
BY SMT

LEMMA GoodGrown ==
  ASSUME NEW S, NEW h, Good(S)
  PROVE  Good(S \cup {h})
<1>1. /\ Msg(S) \subseteq Msg(S \cup {h}) /\ Bnd(S) \subseteq Bnd(S \cup {h})
      /\ Chk(S) \subseteq Chk(S \cup {h})
  BY DEF Msg, Bnd, Chk
<1>2. Seq(Msg(S)) \subseteq Seq(Msg(S \cup {h}))
  BY <1>1, SeqGrown
<1> QED BY <1>1, <1>2 DEF Good, Within

LEMMA GoodWider ==
  ASSUME NEW S \in SUBSET Roster, Good(S)
  PROVE  Good(Roster)
<1>1. /\ Msg(S) \subseteq Msg(Roster) /\ Bnd(S) \subseteq Bnd(Roster)
      /\ Chk(S) \subseteq Chk(Roster)
  BY DEF Msg, Bnd, Chk
<1>2. Seq(Msg(S)) \subseteq Seq(Msg(Roster))
  BY <1>1, SeqGrown
<1> QED BY <1>1, <1>2 DEF Good, Within

\* A step that publishes no roster.
LEMMA HistoryStays ==
  ASSUME NEW S \in SUBSET Roster, History(S), Good(S)', Forward, begun' = begun
  PROVE  History(S)'
<1>1. /\ \A x \in S : x.seq \in Nat
      /\ \A d \in Device : roster[d].seq \in Nat /\ roster'[d].seq \in Nat
  BY DEF History, Good, Within, Roster
<1>2. Overtaken(S)'
  BY <1>1 DEF History, Overtaken, Forward
<1> QED BY <1>2 DEF History, Numbered, Unfounded

\* The founder gives way while its roster is still the only one.
LEMMA HistoryYields ==
  ASSUME NEW S \in SUBSET Roster, History(S), Good(S)', begun' = begun,
         NEW d \in Device, IsPrimary(d), roster[d].seq = 1
  PROVE  History(S)'
<1>1. \A x \in S : x.seq \in Nat /\ x.seq <= 1
  BY Newest DEF Roster
<1>2. Overtaken(S)'
  BY <1>1 DEF Overtaken
<1> QED BY <1>2 DEF History, Numbered, Unfounded

\* The primary signs the next roster.
LEMMA HistoryGrows ==
  ASSUME NEW S \in SUBSET Roster, History(S), NEW d \in Device, IsPrimary(d),
         NEW h \in Roster, h.seq = roster[d].seq + 1,
         roster[d].revoked \subseteq h.revoked,
         Good(S \cup {h})', Forward, roster'[d] = h,
         begun \in BOOLEAN, begun' = begun
  PROVE  History(S \cup {h})'
<1> DEFINE T == S \cup {h}
<1>1. /\ \A x \in T : x.seq \in Nat
      /\ \A e \in Device : roster[e].seq \in Nat /\ roster'[e].seq \in Nat
  <2>1. \A x \in Roster : x.seq \in Nat
    BY DEF Roster
  <2>2. roster \in [Device -> S] /\ roster' \in [Device -> T]
    BY DEF History, Good, Within
  <2> QED BY <2>1, <2>2
<1>2. /\ roster[d] \in S /\ roster[d].seq > 0
      /\ \A x \in S : x.seq <= roster[d].seq
  BY Newest
<1>3. Numbered(T)
  BY <1>1, <1>2 DEF History, Numbered
<1>4. Overtaken(T)'
  <2> SUFFICES ASSUME NEW x \in T, NEW y \in T, NEW e \in Device,
                      y.primary = e, y.seq > 0, x.seq > y.seq, member'[e]
               PROVE  roster'[e].seq > y.seq
    BY DEF Overtaken
  <2>1. y \in S
    BY <1>1, <1>2
  <2>2. CASE x \in S
    BY <1>1, <2>1, <2>2 DEF History, Overtaken, Forward
  <2>3. CASE x = h /\ y.seq < roster[d].seq
    BY <1>1, <1>2, <2>1, <2>3 DEF History, Overtaken, Forward
  <2>4. CASE y.seq = roster[d].seq
    <3>1. y = roster[d]
      BY <1>2, <2>1, <2>4 DEF History, Numbered
    <3>2. e = d
      BY <3>1 DEF IsPrimary
    <3> QED BY <1>1, <2>4, <3>2
  <2> QED BY <1>1, <1>2, <2>1, <2>2, <2>3, <2>4
<1>5. Unfounded(T)'
  BY <1>2, NoRosterTyped DEF History, Unfounded
<1> QED BY <1>3, <1>4, <1>5 DEF History, Numbered

\* The first roster is founded.
LEMMA HistoryStarts ==
  ASSUME NEW S \in SUBSET Roster, History(S), NEW d \in Device, ~begun,
         Good(S \cup {Founded(d)})', begun'
  PROVE  History(S \cup {Founded(d)})'
<1> DEFINE h == Founded(d)
           T == S \cup {h}
<1>1. h \in Roster /\ h.seq = 1 /\ h.revoked = {}
  BY FoundedTyped
<1> HIDE DEF h
<1>2. \A x \in S : x = NoRoster
  BY DEF History, Unfounded
<1>3. NoRoster.revoked = {} /\ NoRoster.seq = 0
  BY DEF NoRoster
<1>4. \A x \in T : x = NoRoster \/ x = h
  BY <1>2
<1>5. Numbered(T)
  BY <1>1, <1>3, <1>4 DEF Numbered
<1>6. Overtaken(T)'
  BY <1>1, <1>3, <1>4 DEF Overtaken
<1>7. Unfounded(T)'
  BY DEF Unfounded
<1> QED BY <1>5, <1>6, <1>7 DEF History, Numbered, h

LEMMA CrossedGrows ==
  ASSUME [Next]_vars
  PROVE  crossed \subseteq crossed'
<1>1. ASSUME NEW d \in Device,
             \/ Connect(d) \/ Drop(d) \/ Hears(d) \/ EditTimer(d) \/ Claim(d)
             \/ \E restart \in BOOLEAN : Closes(d, restart)
             \/ \E b \in mail[d] : ReadsMail(d, b)
             \/ \E x \in Device : Revoke(d, x) \/ AskHandOver(d, x)
             \/ Leave(d)
      PROVE  crossed' = crossed
  BY <1>1 DEF Connect, Drop, Hears, HearsRoster, HearsRefusal, HearsStored,
     HearsRevoked, EditTimer, Claim, Closes, ReadsMail, Revoke, AskHandOver,
     Leave, ghosts
<1>2. ASSUME NEW d \in Device, NEW c \in checking[d], Checked(d, c)
      PROVE  crossed \subseteq crossed'
  BY <1>2 DEF Checked
<1>3. ASSUME NEW d \in Device, NEW s \in signing[d], Published(d, s)
      PROVE  crossed \subseteq crossed'
  BY <1>3 DEF Published
<1> QED BY <1>1, <1>2, <1>3 DEF Next, vars

LEMMA HistoryStep ==
  ASSUME NEW S \in SUBSET Roster, History(S), Counted, [Next]_vars, crossed' = {}
  PROVE  \E T \in SUBSET Roster : History(T)'
<1>0. NoRoster \in S /\ Good(S) /\ NoRoster \in Roster /\ Good(Roster)
  BY NoRosterTyped, GoodWider DEF History
<1>1. CASE UNCHANGED vars
  <2>1. Good(S)'
    BY <1>0, <1>1, StutterGood
  <2>2. Forward /\ begun' = begun
    BY <1>1, <1>0 DEF Forward, vars, Good, Within, Roster
  <2> QED BY <2>1, <2>2, HistoryStays
<1>2. ASSUME NEW d \in Device,
             \/ Connect(d) \/ Drop(d) \/ HearsRoster(d) \/ HearsStored(d)
             \/ HearsRevoked(d) \/ EditTimer(d) \/ Claim(d)
             \/ \E restart \in BOOLEAN : Closes(d, restart)
             \/ \E b \in mail[d] : ReadsMail(d, b)
             \/ \E x \in Device : Revoke(d, x) \/ AskHandOver(d, x)
             \/ Leave(d)
      PROVE  \E T \in SUBSET Roster : History(T)'
  <2>1. Good(S)' /\ Forward
    BY <1>0, <1>2, ConnectGood, DropGood, HearsRosterGood, HearsStoredGood,
       HearsRevokedGood, EditTimerGood, ClaimGood, ClosesGood, ReadsMailGood,
       RevokeGood, AskHandOverGood, LeaveGood
  <2>2. begun' = begun
    BY <1>2 DEF Connect, Drop, HearsRoster, HearsStored, HearsRevoked,
       EditTimer, Claim, Closes, ReadsMail, Revoke, AskHandOver, Leave, ghosts
  <2> QED BY <2>1, <2>2, HistoryStays
<1>3. ASSUME NEW d \in Device, HearsRefusal(d)
      PROVE  \E T \in SUBSET Roster : History(T)'
  <2>1. Good(S)' /\ begun' = begun
    BY <1>0, <1>3, HearsRefusalGood DEF HearsRefusal, ghosts
  <2>2. CASE Yields(d, Head(in[d]).roster)
    BY <2>1, <2>2, HistoryYields DEF Yields
  <2>3. CASE ~Yields(d, Head(in[d]).roster)
    BY <1>0, <1>3, <2>1, <2>3, HearsRefusalGood, HistoryStays
  <2> QED BY <2>2, <2>3
<1>4. ASSUME NEW d \in Device, NEW c \in checking[d], Checked(d, c)
      PROVE  \E T \in SUBSET Roster : History(T)'
  <2>1. Good(S)' /\ Forward
    BY <1>0, <1>4, CheckedGood
  <2> QED BY <1>4, <2>1, HistoryStays DEF Checked
<1>5. ASSUME NEW d \in Device, NEW s \in signing[d], Published(d, s)
      PROVE  \E T \in SUBSET Roster : History(T)'
  <2> DEFINE h == s.roster
             T == S \cup {h}
  <2>1. /\ h \in Roster /\ T \in SUBSET Roster /\ NoRoster \in T /\ Good(T)
    <3>1. h \in Roster
      BY <1>0 DEF Good, Typed, Signing
    <3> HIDE DEF h
    <3> QED BY <1>0, <3>1, GoodGrown
  <2>2. /\ Good(T)' /\ member' = member /\ member[d]
        /\ roster' = [roster EXCEPT ![d] = h]
    BY <1>5, <2>1, PublishedGood
  <2>3. /\ s.over = roster[d] /\ (s.over.seq = 0 => ~begun)
        /\ begun' = (begun \/ s.over.seq = 0)
    BY <1>5 DEF Published
  <2>4. roster \in [Device -> S] /\ \A x \in Device : roster[x].seq \in Nat
    BY <1>0 DEF Good, Within, Roster
  <2>5. CASE s.over = NoRoster /\ h = Founded(d)
    <3>1. ~begun /\ begun'
      BY <2>3, <2>5, NoRosterTyped
    <3>2. Good(S \cup {Founded(d)})'
      BY <2>2, <2>5
    <3>3. History(S \cup {Founded(d)})'
      BY <3>1, <3>2, HistoryStarts
    <3> QED BY <2>1, <2>5, <3>3
  <2>6. CASE FollowsOn(d, h, s.over)
    <3>1. /\ IsPrimary(d) /\ h.seq = roster[d].seq + 1
          /\ roster[d].revoked \subseteq h.revoked
      BY <2>3, <2>6 DEF FollowsOn, IsPrimary
    <3>2. roster[d].seq > 0 /\ roster[d] \in S
      BY <3>1, Newest
    <3>3. roster'[d] = h /\ Forward
      BY <2>2, <2>4, <3>1 DEF Forward
    <3>4. begun \in BOOLEAN /\ begun' = begun
      BY <2>3, <3>2 DEF Counted
    <3> HIDE DEF h
    <3>5. History(S \cup {h})'
      BY <2>1, <2>2, <3>1, <3>3, <3>4, HistoryGrows
    <3> QED BY <2>1, <3>5
  <2> QED BY <1>0, <2>5, <2>6 DEF Good, Kinds, SignedRight
<1> QED BY <1>1, <1>2, <1>3, <1>4, <1>5 DEF Next, Hears

LEMMA HistoryHolds ==
  Spec => [](crossed = {} => \E S \in SUBSET Roster : History(S))
<1> DEFINE Past == \E S \in SUBSET Roster : History(S)
           Inv == Counted /\ Good(Roster) /\ (crossed = {} => Past)
<1>1. Init => Inv
  <2> SUFFICES ASSUME Init PROVE Inv
    OBVIOUS
  <2>1. Good({NoRoster}) /\ Good(Roster) /\ Counted
    BY InitGood
  <2>2. Numbered({NoRoster})
    BY DEF Numbered, NoRoster
  <2>3. Overtaken({NoRoster}) /\ Unfounded({NoRoster})
    BY DEF Overtaken, Unfounded, NoRoster
  <2>4. {NoRoster} \in SUBSET Roster
    BY NoRosterTyped
  <2> QED BY <2>1, <2>2, <2>3, <2>4 DEF History
<1>2. Inv /\ [Next]_vars => Inv'
  <2> SUFFICES ASSUME Counted, Good(Roster), crossed = {} => Past, [Next]_vars
               PROVE  Inv'
    OBVIOUS
  <2>1. Counted' /\ Good(Roster)'
    BY TypeStep
  <2>2. ASSUME crossed' = {} PROVE Past'
    <3>1. Past
      BY <2>2, CrossedGrows
    <3>2. PICK S \in SUBSET Roster : History(S)
      BY <3>1
    <3> QED BY <2>2, <3>2, HistoryStep
  <2> QED BY <2>1, <2>2
<1>3. Inv => (crossed = {} => Past)
  OBVIOUS
<1> HIDE DEF Inv, Past
<1>4. Spec => [](crossed = {} => Past)
  BY <1>1, <1>2, <1>3, PTL DEF Spec
<1> QED BY <1>4 DEF Past

\* In a history nobody but one device acts as the primary.
LEMMA OnlyOnePrimary ==
  ASSUME NEW S \in SUBSET Roster, History(S)
  PROVE  OnePrimary
<1> SUFFICES ASSUME NEW d \in Device, NEW e \in Device, IsPrimary(d), IsPrimary(e)
             PROVE  d = e
  BY DEF OnePrimary
<1>1. /\ roster[d] \in S /\ roster[d].seq \in Nat
      /\ \A x \in S : x.seq <= roster[d].seq
  BY Newest
<1>2. /\ roster[e] \in S /\ roster[e].seq \in Nat
      /\ \A x \in S : x.seq <= roster[e].seq
  BY Newest
<1>3. roster[d].seq = roster[e].seq
  BY <1>1, <1>2
<1> QED BY <1>1, <1>2, <1>3 DEF History, Numbered, IsPrimary

\* The rosters kept anywhere are of the history.
LEMMA OneHistoryOnly ==
  ASSUME NEW S \in SUBSET Roster, History(S)
  PROVE  OneHistory
<1>1. Kept \subseteq S
  BY DEF Kept, History, Good, Within
<1> QED BY <1>1 DEF OneHistory, History, Numbered

\* One roster is in force and signed in one place, for any number of devices
\* and founders and whatever arrives late, twice or not at all, until a
\* roster is founded twice, published over another than it was made from, or
\* stored over one it does not follow.
THEOREM OneLineHolds == Spec => []OneLine
<1>1. (crossed = {} => \E S \in SUBSET Roster : History(S)) => OneLine
  BY OnlyOnePrimary, OneHistoryOnly DEF OneLine
<1> QED BY <1>1, HistoryHolds, PTL
===============================================================================
