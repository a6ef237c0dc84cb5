--------------------------- MODULE GroupCallProofs ---------------------------
(***************************************************************************)
(* What is proved of GroupCall for every number of devices, every order of *)
(* fingerprints and every bound.                                           *)
(***************************************************************************)
EXTENDS GroupCall, FiniteSetTheorems, SequenceTheorems, TLAPS

-----------------------------------------------------------------------------
(* Sequences.                                                               *)

LEMMA OneAppended ==
  ASSUME NEW T, NEW s \in Seq(T), NEW m \in T
  PROVE  Append(s, m) \in Seq(T)
  OBVIOUS

LEMMA Behind ==
  ASSUME NEW T, NEW s \in Seq(T), NEW t \in Seq(T)
  PROVE  s \o t \in Seq(T)
  OBVIOUS

LEMMA Taken ==
  ASSUME NEW T, NEW s \in Seq(T), s # <<>>
  PROVE  Head(s) \in T /\ Tail(s) \in Seq(T)
  OBVIOUS

LEMMA Single ==
  ASSUME NEW T, NEW m \in T
  PROVE  <<m>> \in Seq(T)
  OBVIOUS

LEMMA Nothing ==
  ASSUME NEW T
  PROVE  <<>> \in Seq(T)
  OBVIOUS

LEMMA Piece ==
  ASSUME NEW T, NEW s \in Seq(T), NEW i \in Nat, NEW j \in Nat,
         i >= 1, j <= Len(s)
  PROVE  SubSeq(s, i, j) \in Seq(T)
  BY SubSeqProperties

LEMMA Copies ==
  ASSUME NEW T, NEW m \in T, NEW n \in Nat
  PROVE  [i \in 1..n |-> m] \in Seq(T)
  BY IsASeq

LEMMA WithoutOne ==
  ASSUME NEW T, NEW s \in Seq(T), NEW i \in DOMAIN s
  PROVE  Without(s, i) \in Seq(T) /\ s[i] \in T
<1>1. i \in 1..Len(s) /\ s[i] \in T
  OBVIOUS
<1>2. SubSeq(s, 1, i - 1) \in Seq(T)
  BY <1>1, Piece
<1>3. SubSeq(s, i + 1, Len(s)) \in Seq(T)
  BY <1>1, Piece
<1> QED
  BY <1>1, <1>2, <1>3, Behind DEF Without

-----------------------------------------------------------------------------
(* Legs and letters.                                                        *)

Legs == [Device -> [Device -> Seq(Leg)]]
Lines == [Device -> [Device -> LegId \cup {NoCall}]]
Mail == [Device -> [Device -> Seq(Signal)]]
Held == [from : Device, type : {"join", "here"}, call : Device]

LEMMA HungLegs ==
  ASSUME leg \in Legs, NEW d \in Device, NEW S
  PROVE  Hung(d, S) \in Legs
<1> SUFFICES ASSUME NEW x \in Device, NEW y \in Device
             PROVE  Hung(d, S)[x][y] \in Seq(Leg)
  BY DEF Hung, Legs
<1> DEFINE end(n) == IF x = d /\ y \in S /\ line[d][y] = <<x, y, n>>
                     THEN [leg[x][y][n] EXCEPT !.near = FALSE]
                     ELSE IF y = d /\ x \in S /\ line[d][x] = <<x, y, n>>
                     THEN [leg[x][y][n] EXCEPT !.far = "shut"]
                     ELSE leg[x][y][n]
<1>1. leg[x][y] \in Seq(Leg)
  BY DEF Legs
<1>2. DOMAIN leg[x][y] = 1..Len(leg[x][y]) /\ Len(leg[x][y]) \in Nat
  BY <1>1
<1>3. \A n \in 1..Len(leg[x][y]) : end(n) \in Leg
  <2> TAKE n \in 1..Len(leg[x][y])
  <2>1. leg[x][y][n] \in Leg
    BY <1>1
  <2>2. /\ [leg[x][y][n] EXCEPT !.near = FALSE] \in Leg
        /\ [leg[x][y][n] EXCEPT !.far = "shut"] \in Leg
    BY <2>1 DEF Leg
  <2> QED
    BY <2>1, <2>2
<1>4. Hung(d, S)[x][y] = [n \in 1..Len(leg[x][y]) |-> end(n)]
  BY <1>2 DEF Hung
<1> HIDE DEF end
<1> QED
  BY <1>2, <1>3, <1>4, IsASeq

LEMMA DialledLegs ==
  ASSUME NEW legs \in Legs, NEW d \in Device, NEW P, NEW c \in Device
  PROVE  Dialled(legs, d, P, c) \in Legs
<1> DEFINE new == [call |-> c, near |-> TRUE, far |-> "coming"]
<1>1. new \in Leg
  BY DEF Leg
<1>2. \A p \in Device : Append(legs[d][p], new) \in Seq(Leg)
  <2> TAKE p \in Device
  <2>1. legs[d][p] \in Seq(Leg)
    BY DEF Legs
  <2> QED
    BY <1>1, <2>1, OneAppended
<1> HIDE DEF new
<1>3. Dialled(legs, d, P, c) = [legs EXCEPT ![d] = [p \in Device |->
          IF p \in P THEN Append(legs[d][p], new) ELSE legs[d][p]]]
  BY DEF Dialled, new
<1> QED
  BY <1>2, <1>3 DEF Legs

LEMMA SentMail ==
  ASSUME mail \in Mail, NEW d \in Device, NEW out \in [Device -> Seq(Signal)]
  PROVE  Sent(d, out) \in Mail
<1>1. \A p \in Device : mail[d][p] \o out[p] \in Seq(Signal)
  BY Behind DEF Mail
<1> QED
  BY <1>1 DEF Sent, Mail

LEMMA AnswersAreMail ==
  ASSUME TypeOK, NEW d \in Device, NEW p \in Device, NEW c \in Device
  PROVE  Answers(d, p, c) \in Seq(Signal)
<1> DEFINE joins == {i \in Replay(d, c) : held[d][i].from = p /\ held[d][i].type = "join"}
<1>1. held[d] \in Seq(Held)
  BY DEF TypeOK, Held
<1>2. DOMAIN held[d] = 1..Len(held[d]) /\ Len(held[d]) \in Nat
  BY <1>1
<1>3. joins \subseteq 1..Len(held[d])
  <2>1. Replay(d, c) \subseteq DOMAIN held[d]
    BY DEF Replay
  <2>2. joins \subseteq Replay(d, c)
    OBVIOUS
  <2> HIDE DEF joins
  <2> QED
    BY <1>2, <2>1, <2>2
<1>4. Cardinality(joins) \in Nat
  <2> HIDE DEF joins
  <2>1. IsFiniteSet(1..Len(held[d]))
    BY <1>2, FS_Interval
  <2>2. IsFiniteSet(joins)
    BY <1>3, <2>1, FS_Subset
  <2> QED
    BY <2>2, FS_CardinalityType
<1>5. Sig("here", c, {}) \in Signal
  BY DEF Sig, Signal
<1>6. Answers(d, p, c) = [i \in 1..Cardinality(joins) |-> Sig("here", c, {})]
  BY DEF Answers
<1> HIDE DEF joins
<1> QED
  BY <1>4, <1>5, <1>6, Copies

LEMMA TakenSeats ==
  ASSUME TypeOK, NEW d \in Device, NEW c \in Device, NEW people \in SUBSET Device,
         NEW told \in SUBSET Device, NEW out \in [Device -> Seq(Signal)],
         TakeSeats(d, c, people, told, out)
  PROVE  /\ call' \in [Device -> Device \cup {None}]
         /\ roster' \in [Device -> SUBSET Device]
         /\ seat' \in [Device -> SUBSET Device]
         /\ line' \in Lines
         /\ held' \in [Device -> Seq(Held)]
         /\ leg' \in Legs
         /\ mail' \in Mail
         /\ stale' \in Nat
         /\ greeted' \in [Device -> SUBSET Device]
         /\ visits' \in [Device -> [Device -> 0 .. 2]]
         /\ \A e, p \in Device : line'[e][p] # NoCall => p \in seat'[e]
         /\ \A e \in Device : call'[e] = None => seat'[e] = {}
<1> DEFINE dial == {p \in HeardOf(d, c) : ShouldPlaceCallTo(d, p)}
<1>1. held[d] \in Seq(Held) /\ leg \in Legs /\ mail \in Mail
  BY DEF TypeOK, Held, Legs, Mail
<1>2. HeardOf(d, c) \in SUBSET Device
  <2> SUFFICES ASSUME NEW i \in Replay(d, c) PROVE held[d][i].from \in Device
    BY DEF HeardOf
  <2>1. i \in DOMAIN held[d]
    BY DEF Replay
  <2>2. held[d][i] \in Held
    BY <1>1, <2>1
  <2> QED
    BY <2>2 DEF Held
<1>3. call' \in [Device -> Device \cup {None}] /\ roster' \in [Device -> SUBSET Device]
  BY DEF TakeSeats, TypeOK
<1>4. seat' \in [Device -> SUBSET Device] /\ seat' = [seat EXCEPT ![d] = HeardOf(d, c)]
  BY <1>2 DEF TakeSeats, TypeOK
<1>5. line' = [line EXCEPT ![d] = [p \in Device |->
                  IF p \in dial THEN <<d, p, Len(leg[d][p]) + 1>> ELSE NoCall]]
  BY DEF TakeSeats
<1>6. \A p \in Device : <<d, p, Len(leg[d][p]) + 1>> \in LegId
  <2> TAKE p \in Device
  <2>1. Len(leg[d][p]) \in Nat
    BY <1>1 DEF Legs
  <2> QED
    BY <2>1 DEF LegId
<1> HIDE DEF dial
<1>7. line' \in Lines
  BY <1>5, <1>6 DEF Lines, TypeOK
<1>8. held' \in [Device -> Seq(Held)]
  BY Nothing DEF TakeSeats, TypeOK, Held
<1>9. leg' \in Legs
  BY <1>1, HungLegs, DialledLegs DEF TakeSeats, dial
<1>10. mail' \in Mail
  <2> DEFINE o == [p \in Device |-> out[p] \o Answers(d, p, c)]
  <2>1. o \in [Device -> Seq(Signal)]
    BY AnswersAreMail, Behind
  <2>2. mail' = Sent(d, o)
    BY DEF TakeSeats
  <2> HIDE DEF o
  <2> QED
    BY <1>1, <2>1, <2>2, SentMail
<1>11. \A e, p \in Device : line'[e][p] # NoCall => p \in seat'[e]
  <2> TAKE e, p \in Device
  <2>1. CASE e = d
    BY <1>4, <1>5, <2>1 DEF dial, TypeOK
  <2>2. CASE e # d
    BY <1>4, <1>5, <2>2 DEF TypeOK
  <2> QED
    BY <2>1, <2>2
<1>12. \A e \in Device : call'[e] = None => seat'[e] = {}
  <2> TAKE e \in Device
  <2>1. call' = [call EXCEPT ![d] = c] /\ call \in [Device -> Device \cup {None}]
    BY DEF TakeSeats, TypeOK
  <2>2. e # d => (call[e] = None => seat[e] = {})
    BY DEF TypeOK, Active
  <2>3. seat \in [Device -> SUBSET Device]
    BY DEF TypeOK
  <2> QED
    BY <1>4, <2>1, <2>2, <2>3, NobodyIsNone
<1>13. stale' \in Nat
  <2>1. stale \in Nat /\ (stale' = stale \/ stale' = stale + 1)
    BY DEF TakeSeats, TypeOK
  <2> QED
    BY <2>1
<1>14. /\ greeted' \in [Device -> SUBSET Device]
       /\ visits' \in [Device -> [Device -> 0 .. 2]]
  <2>1. greeted' = [greeted EXCEPT ![d] = told] /\ greeted \in [Device -> SUBSET Device]
    BY DEF TakeSeats, TypeOK
  <2>2. /\ visits' = [visits EXCEPT ![d][c] = IF visits[d][c] = 0 THEN 1 ELSE 2]
        /\ visits \in [Device -> [Device -> 0 .. 2]]
    BY DEF TakeSeats, TypeOK
  <2> QED
    BY <2>1, <2>2
<1> QED
  BY <1>3, <1>4, <1>7, <1>8, <1>9, <1>10, <1>11, <1>12, <1>13, <1>14

-----------------------------------------------------------------------------
(* The steps.                                                               *)

LEMMA ClearedSeats ==
  ASSUME TypeOK, NEW d \in Device, Cleared(d)
  PROVE  /\ call' \in [Device -> Device \cup {None}]
         /\ roster' \in [Device -> SUBSET Device]
         /\ seat' \in [Device -> SUBSET Device]
         /\ line' \in Lines
         /\ leg' \in Legs
         /\ \A e, p \in Device : line'[e][p] # NoCall => p \in seat'[e]
         /\ \A e \in Device : call'[e] = None => seat'[e] = {}
<1>1. leg' \in Legs
  BY HungLegs DEF Cleared, TypeOK, Legs
<1>2. /\ call' \in [Device -> Device \cup {None}]
      /\ roster' \in [Device -> SUBSET Device]
      /\ seat' \in [Device -> SUBSET Device]
      /\ line' \in Lines
  BY DEF Cleared, TypeOK, Lines
<1>3. \A e, p \in Device : line'[e][p] # NoCall => p \in seat'[e]
  BY DEF Cleared, TypeOK
<1>4. \A e \in Device : call'[e] = None => seat'[e] = {}
  BY DEF Cleared, TypeOK, Active
<1> QED
  BY <1>1, <1>2, <1>3, <1>4

LEMMA DroppedSeat ==
  ASSUME TypeOK, NEW d \in Device, NEW q \in Device, Drop(d, q), UNCHANGED call
  PROVE  /\ seat' \in [Device -> SUBSET Device]
         /\ line' \in Lines
         /\ \A e, p \in Device : line'[e][p] # NoCall => p \in seat'[e]
         /\ \A e \in Device : call'[e] = None => seat'[e] = {}
<1>1. seat' \in [Device -> SUBSET Device] /\ line' \in Lines
  BY DEF Drop, TypeOK, Lines
<1>2. \A e, p \in Device : line'[e][p] # NoCall => p \in seat'[e]
  BY DEF Drop, TypeOK
<1>3. \A e \in Device : call'[e] = None => seat'[e] = {}
  BY DEF Drop, TypeOK, Active
<1> QED
  BY <1>1, <1>2, <1>3

LEMMA TookMail ==
  ASSUME TypeOK, NEW s \in Device, NEW d \in Device, mail[s][d] # <<>>,
         NEW out \in Seq(Signal), Took(s, d, out)
  PROVE  mail' \in Mail /\ Head(mail[s][d]) \in Signal
<1>1. mail \in Mail /\ mail[s][d] \in Seq(Signal)
  BY DEF TypeOK, Mail
<1>2. Tail(mail[s][d]) \in Seq(Signal) /\ Head(mail[s][d]) \in Signal
  BY <1>1, Taken
<1> DEFINE m1 == [mail EXCEPT ![s][d] = Tail(@)]
<1>3. m1 \in Mail
  BY <1>1, <1>2 DEF Mail
<1>4. mail' = [m1 EXCEPT ![d][s] = @ \o out]
  BY DEF Took
<1> HIDE DEF m1
<1>5. m1[d][s] \o out \in Seq(Signal)
  BY <1>3, Behind DEF Mail
<1> QED
  BY <1>2, <1>3, <1>4, <1>5 DEF Mail

LEMMA TypeInit == Init => TypeOK
<1> SUFFICES ASSUME Init PROVE TypeOK
  OBVIOUS
<1>1. pair \in [Device -> Device \cup {None}]
  <2>1. CASE Talking = <<>>
    BY <2>1 DEF Init
  <2>2. CASE Talking \in Device \X Device
    BY <2>2 DEF Init
  <2> QED
    BY <2>1, <2>2, TalkingIsAPair
<1>2. /\ call \in [Device -> Device \cup {None}]
      /\ roster \in [Device -> SUBSET Device]
      /\ seat \in [Device -> SUBSET Device]
      /\ line \in [Device -> [Device -> LegId \cup {NoCall}]]
      /\ card \in [Device -> [call : Device \cup {None}, roster : SUBSET Device]]
      /\ lastPair \in [Device -> Device \cup {None}]
      /\ started \in SUBSET Starters
      /\ accepts \in [Device -> Nat] /\ goes \in Nat /\ stale \in Nat
      /\ greeted \in [Device -> SUBSET Device]
      /\ visits \in [Device -> [Device -> 0 .. 2]]
  BY DEF Init, NoCard
<1>3. /\ opening \in [Device -> Seq(Plan)]
      /\ held \in [Device -> Seq([from : Device, type : {"join", "here"}, call : Device])]
      /\ leg \in [Device -> [Device -> Seq(Leg)]]
      /\ mail \in [Device -> [Device -> Seq(Signal)]]
  BY Nothing DEF Init
<1>4. /\ \A d, p \in Device : line[d][p] # NoCall => p \in seat[d]
      /\ \A d \in Device : ~Active(d) => seat[d] = {}
  BY DEF Init
<1> QED
  BY <1>1, <1>2, <1>3, <1>4 DEF TypeOK

LEMMA PlanMade ==
  ASSUME TypeOK, NEW d \in Device, NEW plan \in Plan
  PROVE  [opening EXCEPT ![d] = Append(@, plan)] \in [Device -> Seq(Plan)]
<1>1. Append(opening[d], plan) \in Seq(Plan)
  BY OneAppended DEF TypeOK
<1> QED
  BY <1>1 DEF TypeOK

LEMMA PlanTaken ==
  ASSUME TypeOK, NEW d \in Device, NEW i \in DOMAIN opening[d], Prepared(d, i)
  PROVE  /\ opening' \in [Device -> Seq(Plan)]
         /\ opening[d][i] \in Plan
<1>1. opening[d] \in Seq(Plan)
  BY DEF TypeOK
<1>2. Without(opening[d], i) \in Seq(Plan) /\ opening[d][i] \in Plan
  BY <1>1, WithoutOne
<1> QED
  BY <1>2 DEF Prepared, TypeOK

LEMMA BegunSeats ==
  ASSUME TypeOK, NEW d \in Device, NEW plan \in Plan,
         Begin(d, plan) \/ Enter(d, plan)
  PROVE  /\ call' \in [Device -> Device \cup {None}]
         /\ roster' \in [Device -> SUBSET Device]
         /\ seat' \in [Device -> SUBSET Device]
         /\ line' \in Lines
         /\ held' \in [Device -> Seq(Held)]
         /\ leg' \in Legs
         /\ mail' \in Mail
         /\ stale' \in Nat
         /\ greeted' \in [Device -> SUBSET Device]
         /\ visits' \in [Device -> [Device -> 0 .. 2]]
         /\ \A e, p \in Device : line'[e][p] # NoCall => p \in seat'[e]
         /\ \A e \in Device : call'[e] = None => seat'[e] = {}
<1>1. plan.call \in Device /\ plan.roster \in SUBSET Device
  BY DEF Plan
<1>2. CASE Begin(d, plan)
  <2> DEFINE out == [p \in Device |-> IF p \in plan.roster \ plan.told
                         THEN <<Sig("invite", plan.call, plan.roster \cup {d})>>
                         ELSE <<>>]
  <2>1. Sig("invite", plan.call, plan.roster \cup {d}) \in Signal
    BY <1>1 DEF Sig, Signal
  <2>2. out \in [Device -> Seq(Signal)]
    BY <2>1, Single, Nothing
  <2>3. TakeSeats(d, plan.call, plan.roster, {}, out)
    BY <1>2 DEF Begin
  <2> HIDE DEF out
  <2> QED
    BY <1>1, <2>2, <2>3, TakenSeats
<1>3. CASE Enter(d, plan)
  <2> DEFINE told == IF Shared THEN Others(d) ELSE plan.roster \ {d}
             out == [p \in Device |-> IF p \in told
                         THEN <<Sig("join", plan.call, {})>>
                         ELSE <<>>]
  <2>1. Sig("join", plan.call, {}) \in Signal
    BY <1>1 DEF Sig, Signal
  <2>2. out \in [Device -> Seq(Signal)]
    BY <2>1, Single, Nothing
  <2>3. TakeSeats(d, plan.call, plan.roster, told, out)
    BY <1>3 DEF Enter
  <2>4. told \in SUBSET Device
    BY <1>1 DEF Others
  <2> HIDE DEF out, told
  <2> QED
    BY <1>1, <2>2, <2>3, <2>4, TakenSeats
<1> QED
  BY <1>2, <1>3

LEMMA NewPeople ==
  ASSUME TypeOK, NEW d \in Device, NEW people \in SUBSET Device,
         StartCall(d, people) \/ GrowPair(d, people) \/ AddPeople(d, people)
  PROVE  TypeOK'
<1>1. CASE StartCall(d, people)
  <2>1. [kind |-> "start", call |-> d, roster |-> people, told |-> {}] \in Plan
    BY DEF Plan
  <2>2. opening' \in [Device -> Seq(Plan)]
    BY <1>1, <2>1, PlanMade DEF StartCall
  <2>3. started' \in SUBSET Starters
    BY <1>1 DEF StartCall, TypeOK
  <2> QED
    BY <1>1, <2>2, <2>3 DEF StartCall, TypeOK, Active, mine, past
<1>2. CASE GrowPair(d, people)
  <2>0. pair[d] \in Device
    BY <1>2 DEF GrowPair, TypeOK
  <2>1. [kind |-> "grow", call |-> d, roster |-> people \cup {pair[d]},
         told |-> {pair[d]}] \in Plan
    BY <2>0 DEF Plan
  <2>2. opening' \in [Device -> Seq(Plan)]
    BY <1>2, <2>1, PlanMade DEF GrowPair
  <2>3. started' \in SUBSET Starters
    BY <1>2 DEF GrowPair, TypeOK
  <2> DEFINE notice == Sig("upgrade", d, people \cup {pair[d], d})
  <2>4. notice \in Signal
    BY <2>0 DEF Sig, Signal
  <2>5. [i \in 1..Routes |-> notice] \in Seq(Signal)
    BY <2>4, RoutesIsNat, Copies
  <2>6. mail' = [mail EXCEPT ![d][pair[d]] = @ \o [i \in 1..Routes |-> notice]]
    BY <1>2 DEF GrowPair
  <2> HIDE DEF notice
  <2>7. mail[d][pair[d]] \o [i \in 1..Routes |-> notice] \in Seq(Signal)
    BY <2>0, <2>5, Behind DEF TypeOK
  <2>8. mail' \in [Device -> [Device -> Seq(Signal)]]
    BY <2>0, <2>6, <2>7 DEF TypeOK
  <2> QED
    BY <1>2, <2>2, <2>3, <2>8 DEF GrowPair, TypeOK, Active, mine, past
<1>3. CASE AddPeople(d, people)
  <2> DEFINE out == [p \in Device |->
                 IF p \in people
                 THEN <<Sig("invite", call[d], roster[d] \cup people \cup {d})>>
                 ELSE <<>>]
  <2>1. call[d] \in Device
    BY <1>3 DEF AddPeople, Active, TypeOK
  <2>2. Sig("invite", call[d], roster[d] \cup people \cup {d}) \in Signal
    BY <2>1 DEF Sig, Signal, TypeOK
  <2>3. out \in [Device -> Seq(Signal)]
    BY <2>2, Single, Nothing
  <2>4. mail' = Sent(d, out)
    BY <1>3 DEF AddPeople
  <2> HIDE DEF out
  <2>5. mail' \in [Device -> [Device -> Seq(Signal)]]
    BY <2>3, <2>4, SentMail DEF Mail, TypeOK
  <2>6. roster' \in [Device -> SUBSET Device]
    BY <1>3 DEF AddPeople, TypeOK
  <2> QED
    BY <1>3, <2>5, <2>6 DEF AddPeople, TypeOK, Active, past, bounds
<1> QED
  BY <1>1, <1>2, <1>3

LEMMA AnsweredCard ==
  ASSUME TypeOK, NEW d \in Device, Accept(d) \/ CardGoes(d)
  PROVE  TypeOK'
<1>1. CASE Accept(d)
  <2>1. card[d].call \in Device /\ card[d].roster \in SUBSET Device
    <3>1. card[d] \in [call : Device \cup {None}, roster : SUBSET Device]
      BY DEF TypeOK
    <3>2. card[d].call # None
      BY <1>1 DEF Accept
    <3> QED
      BY <3>1, <3>2
  <2>2. Joining(card[d].call, card[d].roster) \in Plan
    BY <2>1 DEF Joining, Plan
  <2>3. opening' \in [Device -> Seq(Plan)]
    BY <1>1, <2>2, PlanMade DEF Accept
  <2>4. accepts' \in [Device -> Nat]
    <3>1. accepts \in [Device -> Nat] /\ accepts' = [accepts EXCEPT ![d] = accepts[d] + 1]
      BY <1>1 DEF Accept, TypeOK
    <3> QED
      BY <3>1
  <2> QED
    BY <1>1, <2>3, <2>4 DEF Accept, TypeOK, Active, mine, past
<1>2. CASE CardGoes(d)
  BY <1>2 DEF CardGoes, TypeOK, Active, mine, past, bounds, NoCard
<1> QED
  BY <1>1, <1>2

LEMMA MicrophoneAnswered ==
  ASSUME TypeOK, NEW d \in Device, NEW i \in DOMAIN opening[d],
         MicOpens(d, i) \/ MicRefused(d, i) \/ Grown(d, i)
  PROVE  TypeOK'
<1>1. Prepared(d, i)
  BY DEF MicOpens, MicRefused, Grown
<1>2. opening' \in [Device -> Seq(Plan)] /\ opening[d][i] \in Plan
  BY <1>1, PlanTaken
<1>3. CASE MicOpens(d, i)
  <2>1. Begin(d, opening[d][i]) \/ Enter(d, opening[d][i])
    BY <1>3 DEF MicOpens
  <2>2. card' \in [Device -> [call : Device \cup {None}, roster : SUBSET Device]]
    <3>1. NoCard \in [call : Device \cup {None}, roster : SUBSET Device]
      BY DEF NoCard
    <3>2. card' = card \/ card' = [card EXCEPT ![d] = NoCard]
      BY <1>3 DEF MicOpens
    <3>3. card \in [Device -> [call : Device \cup {None}, roster : SUBSET Device]]
      BY DEF TypeOK
    <3> QED
      BY <3>1, <3>2, <3>3
  <2>3. UNCHANGED <<pair, lastPair, started, accepts, goes>>
    BY <1>3 DEF MicOpens
  <2> QED
    BY <1>2, <2>1, <2>2, <2>3, BegunSeats
       DEF TypeOK, Active, Lines, Legs, Mail, Held
<1>4. CASE MicRefused(d, i)
  BY <1>2, <1>4 DEF MicRefused, TypeOK, Active, mine, past, bounds
<1>5. CASE Grown(d, i)
  <2>1. pair' \in [Device -> Device \cup {None}] /\ lastPair' \in [Device -> Device \cup {None}]
    BY <1>5 DEF Grown, TypeOK
  <2>2. UNCHANGED <<card, started, accepts, goes>>
    BY <1>5 DEF Grown
  <2>3. CASE Active(d)
    <3>1. UNCHANGED <<mine, held, leg, mail, stale>>
      BY <1>5, <2>3 DEF Grown
    <3> QED
      BY <1>2, <2>1, <2>2, <3>1 DEF TypeOK, Active, mine, past
  <2>4. CASE ~Active(d)
    <3>1. Begin(d, opening[d][i])
      BY <1>5, <2>4 DEF Grown
    <3> QED
      BY <1>2, <2>1, <2>2, <3>1, BegunSeats
         DEF TypeOK, Active, Lines, Legs, Mail, Held
  <2> QED
    BY <2>3, <2>4
<1> QED
  BY <1>3, <1>4, <1>5

LEMMA HeardInvite ==
  ASSUME TypeOK, NEW s \in Device, NEW d \in Device,
         HearInvite(s, d) \/ HearUpgrade(s, d)
  PROVE  TypeOK'
<1> DEFINE m == Head(mail[s][d])
<1>1. mail[s][d] # <<>> /\ Took(s, d, <<>>)
  BY DEF HearInvite, HearUpgrade, NextIs
<1>2. mail' \in [Device -> [Device -> Seq(Signal)]] /\ m \in Signal
  BY <1>1, TookMail, Nothing DEF Mail
<1>3. m.call \in Device /\ m.roster \in SUBSET Device
  BY <1>2 DEF Signal
<1>4. [card EXCEPT ![d] = [call |-> m.call, roster |-> m.roster]]
        \in [Device -> [call : Device \cup {None}, roster : SUBSET Device]]
  BY <1>3 DEF TypeOK
<1>5. CASE HearInvite(s, d)
  <2>1. card' \in [Device -> [call : Device \cup {None}, roster : SUBSET Device]]
    BY <1>4, <1>5 DEF HearInvite, TypeOK
  <2>2. UNCHANGED <<mine, opening, held, pair, lastPair, leg, bounds>>
    BY <1>5 DEF HearInvite
  <2> QED
    BY <1>2, <2>1, <2>2 DEF TypeOK, Active, mine, past, bounds
<1>6. CASE HearUpgrade(s, d)
  <2>1. card' \in [Device -> [call : Device \cup {None}, roster : SUBSET Device]]
    BY <1>4, <1>6 DEF HearUpgrade, TypeOK
  <2>2. /\ pair' \in [Device -> Device \cup {None}]
        /\ lastPair' \in [Device -> Device \cup {None}]
    <3>1. pair' = pair \/ pair' = [pair EXCEPT ![d] = None]
      BY <1>6 DEF HearUpgrade
    <3>2. lastPair' = lastPair \/ lastPair' = [lastPair EXCEPT ![d] =
                IF pair[d] = None THEN lastPair[d] ELSE pair[d]]
      BY <1>6 DEF HearUpgrade
    <3>3. pair \in [Device -> Device \cup {None}] /\ lastPair \in [Device -> Device \cup {None}]
      BY DEF TypeOK
    <3>4. pair' \in [Device -> Device \cup {None}]
      BY <3>1, <3>3
    <3>5. lastPair' \in [Device -> Device \cup {None}]
      BY <3>2, <3>3
    <3> QED
      BY <3>4, <3>5
  <2>3. Joining(m.call, m.roster) \in Plan
    BY <1>3 DEF Joining, Plan
  <2> HIDE DEF m
  <2>4. [opening EXCEPT ![d] = Append(@, Joining(m.call, m.roster))] \in [Device -> Seq(Plan)]
    BY <2>3, PlanMade
  <2>5. opening' \in [Device -> Seq(Plan)]
    BY <1>6, <2>4 DEF HearUpgrade, TypeOK, m
  <2>6. UNCHANGED <<mine, held, leg, bounds>>
    BY <1>6 DEF HearUpgrade
  <2> QED
    BY <1>2, <2>1, <2>2, <2>5, <2>6 DEF TypeOK, Active, mine, past, bounds
<1> QED
  BY <1>5, <1>6

LEMMA HeardMember ==
  ASSUME TypeOK, NEW s \in Device, NEW d \in Device, HearMember(s, d)
  PROVE  TypeOK'
<1> DEFINE m == Head(mail[s][d])
<1>1. mail[s][d] # <<>> /\ m.type \in {"join", "here"}
  BY DEF HearMember, NextIs
<1>2. m \in Signal
  BY <1>1, Taken DEF TypeOK
<1>3. m.call \in Device
  BY <1>2 DEF Signal
<1>4. UNCHANGED <<call, roster, past, card, opening, pair, lastPair, started, accepts, goes>>
  BY DEF HearMember
<1>5. CASE call[d] = m.call
  <2>1. Took(s, d, Reply(d, m)) /\ Connect(d, s)
    BY <1>5 DEF HearMember
  <2>2. Reply(d, m) \in Seq(Signal)
    <3>1. Sig("here", call[d], {}) \in Signal
      BY <1>3, <1>5 DEF Sig, Signal
    <3> QED
      BY <3>1, Single, Nothing DEF Reply
  <2>3. mail' \in [Device -> [Device -> Seq(Signal)]]
    BY <1>1, <2>1, <2>2, TookMail DEF Mail
  <2>4. seat' = [seat EXCEPT ![d] = @ \cup {s}] /\ held' = held /\ stale' = stale
    BY <2>1 DEF Connect
  <2>5. seat' \in [Device -> SUBSET Device]
    <3>1. seat \in [Device -> SUBSET Device]
      BY DEF TypeOK
    <3> QED
      BY <2>4, <3>1
  <2>6. Active(d)
    BY <1>3, <1>5, NobodyIsNone DEF Active
  <2>7. \A e \in Device : call'[e] = None => seat'[e] = {}
    BY <1>4, <2>4, <2>6 DEF TypeOK, Active
  <2>8. CASE line[d][s] = NoCall /\ ShouldPlaceCallTo(d, s)
    <3>1. /\ line' = [line EXCEPT ![d][s] = <<d, s, Len(leg[d][s]) + 1>>]
          /\ leg' = Dialled(leg, d, {s}, call[d])
      BY <2>1, <2>8 DEF Connect
    <3>2. leg' \in Legs
      BY <1>3, <1>5, <3>1, DialledLegs DEF TypeOK, Legs
    <3>3. Len(leg[d][s]) \in Nat
      BY DEF TypeOK
    <3>4. <<d, s, Len(leg[d][s]) + 1>> \in LegId
      BY <3>3 DEF LegId
    <3>5. line' \in Lines
      BY <3>1, <3>4 DEF TypeOK, Lines
    <3>6. \A e, p \in Device : line'[e][p] # NoCall => p \in seat'[e]
      <4> TAKE e, p \in Device
      <4>1. CASE e = d /\ p = s
        BY <2>4, <4>1 DEF TypeOK
      <4>2. CASE ~(e = d /\ p = s)
        <5>1. line'[e][p] = line[e][p] /\ seat[e] \subseteq seat'[e]
          BY <2>4, <3>1, <4>2 DEF TypeOK
        <5> QED
          BY <5>1 DEF TypeOK
      <4> QED
        BY <4>1, <4>2
    <3> QED
      BY <1>4, <2>3, <2>4, <2>5, <2>7, <3>2, <3>5, <3>6
         DEF TypeOK, Active, past, Lines, Legs
  <2>9. CASE ~(line[d][s] = NoCall /\ ShouldPlaceCallTo(d, s))
    <3>1. line' = line /\ leg' = leg
      BY <2>1, <2>9 DEF Connect
    <3>2. \A e, p \in Device : line'[e][p] # NoCall => p \in seat'[e]
      BY <2>4, <3>1 DEF TypeOK
    <3> QED
      BY <1>4, <2>3, <2>4, <2>5, <2>7, <3>1, <3>2 DEF TypeOK, Active, past
  <2> QED
    BY <2>8, <2>9
<1>6. CASE call[d] # m.call
  <2>1. Took(s, d, <<>>) /\ Hold(d, s, m)
    BY <1>6 DEF HearMember
  <2>2. mail' \in [Device -> [Device -> Seq(Signal)]]
    BY <1>1, <2>1, TookMail, Nothing DEF Mail
  <2> DEFINE k == IF Len(held[d]) < HeldMax THEN 1 ELSE Len(held[d]) - HeldMax + 2
             h == [from |-> s, type |-> m.type, call |-> m.call]
  <2>3. held[d] \in Seq(Held) /\ Len(held[d]) \in Nat
    <3>1. held[d] \in Seq(Held)
      BY DEF TypeOK, Held
    <3> QED
      BY <3>1
  <2>4. k \in Nat /\ k >= 1
    BY <2>3, HeldMaxIsPositive
  <2>5. h \in Held
    BY <1>1, <1>3 DEF Held
  <2>6. held' = [held EXCEPT ![d] = Append(SubSeq(held[d], k, Len(held[d])), h)]
    BY <2>1 DEF Hold
  <2> HIDE DEF k, h
  <2>7. SubSeq(held[d], k, Len(held[d])) \in Seq(Held)
    BY <2>3, <2>4, Piece
  <2>8. held' \in [Device -> Seq(Held)]
    BY <2>5, <2>6, <2>7, OneAppended DEF TypeOK, Held
  <2>9. UNCHANGED <<seat, line, leg>>
    BY <2>1 DEF Hold
  <2>10. stale' \in Nat
    <3>1. stale \in Nat /\ (stale' = stale \/ stale' = stale + 1)
      BY <2>1 DEF Hold, TypeOK
    <3> QED
      BY <3>1
  <2> QED
    BY <1>4, <2>2, <2>8, <2>9, <2>10 DEF TypeOK, Active, past, Held
<1> QED
  BY <1>5, <1>6

LEMMA HeardLeave ==
  ASSUME TypeOK, NEW s \in Device, NEW d \in Device, HearLeave(s, d)
  PROVE  TypeOK'
<1>1. mail[s][d] # <<>> /\ Took(s, d, <<>>)
  BY DEF HearLeave, NextIs
<1>2. mail' \in [Device -> [Device -> Seq(Signal)]]
  BY <1>1, TookMail, Nothing DEF Mail
<1>3. UNCHANGED <<card, opening, held, pair, lastPair, bounds>>
  BY DEF HearLeave
<1>4. CASE call[d] # Head(mail[s][d]).call
  <2>1. UNCHANGED <<mine, leg>>
    BY <1>4 DEF HearLeave
  <2> QED
    BY <1>2, <1>3, <2>1 DEF TypeOK, Active, mine, past, bounds
<1>5. CASE Cleared(d)
  BY <1>2, <1>3, <1>5, ClearedSeats DEF Cleared, TypeOK, Active, past, bounds, Lines, Legs
<1>6. CASE Drop(d, s) /\ leg' = Hung(d, {s}) /\ UNCHANGED <<call, roster, past>>
  <2>1. leg' \in Legs
    BY <1>6, HungLegs DEF TypeOK, Legs
  <2> QED
    BY <1>2, <1>3, <1>6, <2>1, DroppedSeat DEF TypeOK, Active, past, bounds, Lines, Legs
<1> QED
  BY <1>4, <1>5, <1>6 DEF HearLeave

LEMMA MediaMoved ==
  ASSUME TypeOK, NEW d \in Device, NEW p \in Device, Media(d, p)
  PROVE  TypeOK'
<1> PICK n \in DOMAIN leg[d][p] :
         LegArrives(d, p, n) \/ NearCloses(d, p, n) \/ FarCloses(d, p, n)
  BY DEF Media
<1>1. leg \in Legs /\ leg[d][p] \in Seq(Leg)
  BY DEF TypeOK, Legs
<1>2. n \in Nat \ {0} /\ leg[d][p][n] \in Leg
  BY <1>1
<1>3. UNCHANGED <<call, roster, past, card, opening, held, pair, lastPair, mail, bounds>>
  BY DEF LegArrives, NearCloses, FarCloses
<1>4. ASSUME NEW legs \in Legs, DOMAIN legs[d][p] = DOMAIN leg[d][p], NEW l \in Leg
      PROVE  [legs EXCEPT ![d][p][n] = l] \in Legs
  <2>1. legs[d][p] \in Seq(Leg) /\ n \in 1..Len(legs[d][p])
    BY <1>4 DEF Legs
  <2>2. [legs[d][p] EXCEPT ![n] = l] \in Seq(Leg)
    BY <1>4, <2>1, ExceptSeq
  <2> QED
    BY <1>4, <2>2 DEF Legs
<1>5. CASE LegArrives(d, p, n) /\ call[p] = leg[d][p][n].call
  <2>1. [leg[d][p][n] EXCEPT !.far = "open"] \in Leg
    BY <1>2 DEF Leg
  <2>2. leg' = [leg EXCEPT ![d][p][n] = [leg[d][p][n] EXCEPT !.far = "open"]]
    BY <1>5 DEF LegArrives
  <2>3. leg' \in Legs
    BY <1>1, <1>4, <2>1, <2>2
  <2>4. seat' = [seat EXCEPT ![p] = @ \cup {d}] /\ line' = [line EXCEPT ![p][d] = <<d, p, n>>]
    BY <1>5 DEF LegArrives
  <2>5. <<d, p, n>> \in LegId
    BY <1>2 DEF LegId
  <2>6. seat' \in [Device -> SUBSET Device] /\ line' \in Lines
    <3>1. seat \in [Device -> SUBSET Device] /\ line \in Lines
      BY DEF TypeOK, Lines
    <3>2. seat' \in [Device -> SUBSET Device]
      BY <2>4, <3>1
    <3>3. line' \in Lines
      BY <2>4, <2>5, <3>1 DEF Lines
    <3> QED
      BY <3>2, <3>3
  <2>7. \A e, q \in Device : line'[e][q] # NoCall => q \in seat'[e]
    <3> TAKE e, q \in Device
    <3>1. CASE e = p /\ q = d
      BY <2>4, <3>1 DEF TypeOK
    <3>2. CASE ~(e = p /\ q = d)
      <4>1. line'[e][q] = line[e][q] /\ seat[e] \subseteq seat'[e]
        BY <2>4, <3>2 DEF TypeOK
      <4> QED
        BY <4>1 DEF TypeOK
    <3> QED
      BY <3>1, <3>2
  <2>8. call[p] # None
    BY <1>2, <1>5, NobodyIsNone DEF Leg
  <2>9. \A e \in Device : call[e] = None => seat'[e] = {}
    BY <2>4, <2>8 DEF TypeOK, Active
  <2> QED
    BY <1>3, <2>3, <2>6, <2>7, <2>9 DEF TypeOK, Active, past, bounds, Lines, Legs
<1>6. CASE LegArrives(d, p, n) /\ call[p] # leg[d][p][n].call
  <2>1. [leg[d][p][n] EXCEPT !.far = "ignored"] \in Leg
    BY <1>2 DEF Leg
  <2>2. leg' = [leg EXCEPT ![d][p][n] = [leg[d][p][n] EXCEPT !.far = "ignored"]]
    BY <1>6 DEF LegArrives
  <2>3. leg' \in Legs
    BY <1>1, <1>4, <2>1, <2>2
  <2>4. UNCHANGED <<seat, line>>
    BY <1>6 DEF LegArrives
  <2> QED
    BY <1>3, <2>3, <2>4 DEF TypeOK, Active, past, bounds, Legs
<1>7. ASSUME NEW e \in Device, NEW S
      PROVE  /\ Hung(e, S) \in Legs
             /\ DOMAIN Hung(e, S)[d][p] = DOMAIN leg[d][p]
             /\ Hung(e, S)[d][p][n] \in Leg
  <2>1. Hung(e, S) \in Legs
    BY <1>1, HungLegs
  <2>2. DOMAIN Hung(e, S)[d][p] = DOMAIN leg[d][p]
    BY DEF Hung
  <2>3. Hung(e, S)[d][p] \in Seq(Leg) /\ n \in DOMAIN Hung(e, S)[d][p]
    BY <2>1, <2>2 DEF Legs
  <2> QED
    BY <2>1, <2>2, <2>3
<1>8. CASE NearCloses(d, p, n)
  <2> DEFINE hung == Hung(d, {p})
  <2>1. /\ hung \in Legs /\ DOMAIN hung[d][p] = DOMAIN leg[d][p]
        /\ hung[d][p][n] \in Leg
    BY <1>7
  <2>2. leg' = [hung EXCEPT ![d][p][n] = [hung[d][p][n] EXCEPT !.near = FALSE]]
    BY <1>8 DEF NearCloses
  <2> HIDE DEF hung
  <2>3. [hung[d][p][n] EXCEPT !.near = FALSE] \in Leg
    BY <2>1 DEF Leg
  <2>4. leg' \in Legs
    BY <1>4, <2>1, <2>2, <2>3
  <2>5. Drop(d, p)
    BY <1>8 DEF NearCloses
  <2> QED
    BY <1>3, <2>4, <2>5, DroppedSeat DEF TypeOK, Active, past, bounds, Lines, Legs
<1>9. CASE FarCloses(d, p, n)
  <2> DEFINE hung == Hung(p, {d})
  <2>1. /\ hung \in Legs /\ DOMAIN hung[d][p] = DOMAIN leg[d][p]
        /\ hung[d][p][n] \in Leg
    BY <1>7
  <2>2. leg' = [hung EXCEPT ![d][p][n] = [hung[d][p][n] EXCEPT !.far = "shut"]]
    BY <1>9 DEF FarCloses
  <2> HIDE DEF hung
  <2>3. [hung[d][p][n] EXCEPT !.far = "shut"] \in Leg
    BY <2>1 DEF Leg
  <2>4. leg' \in Legs
    BY <1>4, <2>1, <2>2, <2>3
  <2>5. Drop(p, d)
    BY <1>9 DEF FarCloses
  <2> QED
    BY <1>3, <2>4, <2>5, DroppedSeat DEF TypeOK, Active, past, bounds, Lines, Legs
<1> QED
  BY <1>5, <1>6, <1>8, <1>9

LEMMA SeatGone ==
  ASSUME TypeOK, NEW d \in Device, NEW p \in Device, SeatTimer(d, p)
  PROVE  TypeOK'
<1>1. seat' \in [Device -> SUBSET Device]
  BY DEF SeatTimer, TypeOK
<1>2. \A e, q \in Device : line'[e][q] # NoCall => q \in seat'[e]
  BY DEF SeatTimer, TypeOK
<1>3. \A e \in Device : call'[e] = None => seat'[e] = {}
  BY DEF SeatTimer, TypeOK, Active
<1> QED
  BY <1>1, <1>2, <1>3 DEF SeatTimer, TypeOK, Active, past, bounds

LEMMA WentAway ==
  ASSUME TypeOK, NEW d \in Device, Leave(d) \/ Reload(d)
  PROVE  TypeOK'
<1>0. goes \in Nat /\ goes' = goes + 1
  BY DEF Leave, Reload, Goes, TypeOK
<1>1. Cleared(d) /\ goes' \in Nat
  <2>1. Cleared(d)
    BY DEF Leave, Reload
  <2>2. goes' \in Nat
    BY <1>0
  <2> QED
    BY <2>1, <2>2
<1>2. CASE Leave(d)
  <2> DEFINE out == [p \in Device |->
           IF p \in Audience(d) THEN <<Sig("leave", call[d], {})>> ELSE <<>>]
  <2>1. call[d] \in Device
    BY <1>2 DEF Leave, Active, TypeOK
  <2>2. Sig("leave", call[d], {}) \in Signal
    BY <2>1 DEF Sig, Signal
  <2>3. out \in [Device -> Seq(Signal)]
    BY <2>2, Single, Nothing
  <2>4. mail' = Sent(d, out)
    BY <1>2 DEF Leave
  <2> HIDE DEF out
  <2>5. mail' \in Mail
    BY <2>3, <2>4, SentMail DEF TypeOK, Mail
  <2>6. UNCHANGED <<card, opening, held, pair, lastPair, started, accepts, stale>>
    BY <1>2 DEF Leave
  <2> QED
    BY <1>1, <2>5, <2>6, ClearedSeats DEF Cleared, TypeOK, Active, past, Lines, Legs, Mail
<1>3. CASE Reload(d)
  <2>1. card' \in [Device -> [call : Device \cup {None}, roster : SUBSET Device]]
    <3>1. NoCard \in [call : Device \cup {None}, roster : SUBSET Device]
      BY DEF NoCard
    <3> QED
      BY <1>3, <3>1 DEF Reload, TypeOK
  <2>2. /\ opening' \in [Device -> Seq(Plan)]
        /\ held' \in [Device -> Seq(Held)]
    BY <1>3, Nothing DEF Reload, TypeOK, Held
  <2>3. /\ pair' \in [Device -> Device \cup {None}]
        /\ lastPair' \in [Device -> Device \cup {None}]
        /\ stale' \in Nat
    <3>1. /\ pair' = [pair EXCEPT ![d] = None]
          /\ lastPair' = [lastPair EXCEPT ![d] = None]
          /\ stale' = stale \/ stale' = stale + 1
      BY <1>3 DEF Reload
    <3>2. /\ pair \in [Device -> Device \cup {None}]
          /\ lastPair \in [Device -> Device \cup {None}]
          /\ stale \in Nat
      BY DEF TypeOK
    <3>3. pair' \in [Device -> Device \cup {None}]
      BY <3>1, <3>2
    <3>4. lastPair' \in [Device -> Device \cup {None}]
      BY <3>1, <3>2
    <3>5. stale' \in Nat
      BY <3>1, <3>2
    <3> QED
      BY <3>3, <3>4, <3>5
  <2>4. UNCHANGED <<mail, started, accepts>>
    BY <1>3 DEF Reload
  <2> QED
    BY <1>1, <2>1, <2>2, <2>3, <2>4, ClearedSeats DEF Cleared, TypeOK, Active, past, Lines, Legs, Held
<1> QED
  BY <1>2, <1>3

LEMMA SmallSteps ==
  ASSUME TypeOK, NEW d \in Device,
         GoesStale(d) \/ PairCloses(d) \/ HangUp(d) \/ LastPairFades(d)
  PROVE  TypeOK'
<1>1. CASE GoesStale(d)
  <2>1. held' \in [Device -> Seq([from : Device, type : {"join", "here"}, call : Device])]
    BY <1>1, Nothing DEF GoesStale, TypeOK
  <2>2. stale' \in Nat
    BY <1>1 DEF GoesStale, TypeOK
  <2> QED
    BY <1>1, <2>1, <2>2 DEF GoesStale, TypeOK, Active, mine, past
<1>2. CASE PairCloses(d) \/ HangUp(d)
  <2>1. /\ pair' = [pair EXCEPT ![d] = None]
        /\ lastPair' = [lastPair EXCEPT ![d] = pair[d]]
        /\ goes' = goes \/ goes' = goes + 1
    BY <1>2 DEF PairCloses, HangUp, Goes, bounds
  <2>2. /\ pair \in [Device -> Device \cup {None}]
        /\ lastPair \in [Device -> Device \cup {None}]
        /\ goes \in Nat
    BY DEF TypeOK
  <2>3. pair' \in [Device -> Device \cup {None}]
    BY <2>1, <2>2
  <2>4. lastPair' \in [Device -> Device \cup {None}]
    BY <2>1, <2>2
  <2>5. goes' \in Nat
    BY <2>1, <2>2
  <2>6. UNCHANGED <<mine, card, opening, held, leg, mail, started, accepts, stale>>
    BY <1>2 DEF PairCloses, HangUp, bounds
  <2> QED
    BY <2>3, <2>4, <2>5, <2>6 DEF TypeOK, Active, mine, past
<1>4. CASE LastPairFades(d)
  BY <1>4 DEF LastPairFades, TypeOK, Active, mine, past, bounds
<1> QED
  BY <1>1, <1>2, <1>4

(***************************************************************************)
(* In every reachable state the variables hold what they are declared to   *)
(* hold, nobody has a leg without a seat, and nobody has a seat outside a  *)
(* call (the participants map of resetGroupCallState and                   *)
(* attachGroupCallLeg).                                                    *)
(***************************************************************************)
THEOREM TypeCorrect == Spec => []TypeOK
<1>1. Init => TypeOK
  BY TypeInit
<1>2. TypeOK /\ [Next]_vars => TypeOK'
  <2> SUFFICES ASSUME TypeOK, [Next]_vars PROVE TypeOK'
    OBVIOUS
  <2>1. CASE UNCHANGED vars
    BY <2>1 DEF TypeOK, Active, vars, mine, past, bounds
  <2>2. ASSUME NEW d \in Device, NEW people \in SUBSET Device,
               StartCall(d, people) \/ GrowPair(d, people) \/ AddPeople(d, people)
        PROVE  TypeOK'
    BY <2>2, NewPeople
  <2>3. ASSUME NEW d \in Device, Accept(d) \/ CardGoes(d)
        PROVE  TypeOK'
    BY <2>3, AnsweredCard
  <2>4. ASSUME NEW d \in Device, Asked(d)
        PROVE  TypeOK'
    BY <2>4, MicrophoneAnswered DEF Asked
  <2>5. ASSUME NEW d \in Device,
               GoesStale(d) \/ PairCloses(d) \/ HangUp(d) \/ LastPairFades(d)
        PROVE  TypeOK'
    BY <2>5, SmallSteps
  <2>6. ASSUME NEW d \in Device, Leave(d) \/ Reload(d)
        PROVE  TypeOK'
    BY <2>6, WentAway
  <2>7. ASSUME NEW d \in Device, NEW p \in Device, Hears(d, p)
        PROVE  TypeOK'
    BY <2>7, HeardInvite, HeardMember, HeardLeave DEF Hears
  <2>8. ASSUME NEW d \in Device, NEW p \in Device, Media(d, p) \/ SeatTimer(d, p)
        PROVE  TypeOK'
    BY <2>8, MediaMoved, SeatGone
  <2> QED
    BY <2>1, <2>2, <2>3, <2>4, <2>5, <2>6, <2>7, <2>8 DEF Next
<1> QED
  BY <1>1, <1>2, PTL DEF Spec

-----------------------------------------------------------------------------
(* Legs.  A table of legs lg, what each device holds (ln) and the call each *)
(* is in (cl) are sound together when                                       *)
(*   - legs are dialled one way only, by the smaller fingerprint,           *)
(*   - their offers arrive in the order they were dialled,                  *)
(*   - only the newest leg to a person is up at its dialler,                *)
(*   - what the far side holds is a leg whose offer arrived, and            *)
(*   - LegsAreHeld.                                                         *)

OneWay(lg) == \A d, p \in Device : lg[d][p] # <<>> => Rank[d] < Rank[p]

InOrder(lg) ==
    \A d, p \in Device : \A n \in DOMAIN lg[d][p] : \A k \in 1 .. n - 1 :
        lg[d][p][n].far # "coming" => lg[d][p][k].far # "coming"

NewestUp(lg) ==
    \A d, p \in Device : \A n \in DOMAIN lg[d][p] :
        lg[d][p][n].near => n = Len(lg[d][p])

Arrived(lg, ln) ==
    \A d, p \in Device : \A n \in Nat :
        ln[p][d] = <<d, p, n>> => n \in DOMAIN lg[d][p] /\ lg[d][p][n].far # "coming"

NearHeld(lg, ln, cl) ==
    \A d, p \in Device : \A n \in DOMAIN lg[d][p] :
        lg[d][p][n].near => ln[d][p] = <<d, p, n>> /\ cl[d] = lg[d][p][n].call

FarHeld(lg, ln, cl) ==
    \A d, p \in Device : \A n \in DOMAIN lg[d][p] :
        lg[d][p][n].near /\ lg[d][p][n].far = "open"
            => ln[p][d] = <<d, p, n>> /\ cl[p] = lg[d][p][n].call

Sound(lg, ln, cl) ==
    /\ OneWay(lg) /\ InOrder(lg) /\ NewestUp(lg)
    /\ Arrived(lg, ln) /\ NearHeld(lg, ln, cl) /\ FarHeld(lg, ln, cl)

\* From lg to new, legs only went down.
OnlyClosed(lg, new) ==
    /\ new \in Legs
    /\ \A x, y \in Device :
        /\ DOMAIN new[x][y] = DOMAIN lg[x][y]
        /\ \A n \in DOMAIN lg[x][y] :
            /\ new[x][y][n].call = lg[x][y][n].call
            /\ new[x][y][n].near => lg[x][y][n].near
            /\ new[x][y][n].far = lg[x][y][n].far
               \/ (new[x][y][n].far = "shut" /\ lg[x][y][n].far # "coming")

LEMMA Sequenced ==
  ASSUME NEW lg \in Legs, NEW d \in Device, NEW p \in Device
  PROVE  /\ lg[d][p] \in Seq(Leg) /\ Len(lg[d][p]) \in Nat
         /\ DOMAIN lg[d][p] = 1 .. Len(lg[d][p])
<1>1. lg[d][p] \in Seq(Leg)
  BY DEF Legs
<1> QED
  BY <1>1

LEMMA SameLength ==
  ASSUME NEW a \in Nat, NEW b \in Nat, 1 .. a = 1 .. b
  PROVE  a = b
<1>1. a \in 1 .. a \/ a = 0
  OBVIOUS
<1>2. b \in 1 .. b \/ b = 0
  OBVIOUS
<1> QED
  BY <1>1, <1>2

LEMMA ALegIsACall ==
  ASSUME NEW d, NEW p, NEW n
  PROVE  <<d, p, n>> # NoCall
<1>1. Len(<<d, p, n>>) = 3 /\ Len(<<>>) = 0
  OBVIOUS
<1> QED
  BY <1>1 DEF NoCall

\* Legs that went down leave a sound table, as far as those still up are held.
LEMMA ClosingIsSound ==
  ASSUME NEW lg \in Legs, NEW ln, NEW cl, Sound(lg, ln, cl),
         NEW new, NEW ln2, NEW cl2, OnlyClosed(lg, new),
         \A x, y \in Device : ln2[x][y] = ln[x][y] \/ ln2[x][y] = NoCall,
         \A x, y \in Device : \A n \in DOMAIN lg[x][y] :
             /\ new[x][y][n].near => ln2[x][y] = ln[x][y] /\ cl2[x] = cl[x]
             /\ new[x][y][n].near /\ new[x][y][n].far = "open"
                    => ln2[y][x] = ln[y][x] /\ cl2[y] = cl[y]
  PROVE  Sound(new, ln2, cl2)
<1>1. OneWay(new)
  <2> SUFFICES ASSUME NEW d \in Device, NEW p \in Device, new[d][p] # <<>>
               PROVE  lg[d][p] # <<>>
    BY DEF OneWay, Sound
  <2>1. new[d][p] \in Seq(Leg) /\ lg[d][p] \in Seq(Leg)
    BY Sequenced DEF OnlyClosed
  <2>2. DOMAIN new[d][p] = DOMAIN lg[d][p]
    BY DEF OnlyClosed
  <2> QED
    BY <2>1, <2>2
<1>2. InOrder(new)
  <2> SUFFICES ASSUME NEW d \in Device, NEW p \in Device, NEW n \in DOMAIN new[d][p],
                      NEW k \in 1 .. n - 1, new[d][p][n].far # "coming"
               PROVE  new[d][p][k].far # "coming"
    BY DEF InOrder
  <2>1. DOMAIN new[d][p] = DOMAIN lg[d][p] /\ DOMAIN lg[d][p] = 1 .. Len(lg[d][p])
        /\ Len(lg[d][p]) \in Nat
    BY Sequenced DEF OnlyClosed
  <2>2. k \in DOMAIN lg[d][p]
    BY <2>1
  <2>3. lg[d][p][n].far # "coming"
    BY <2>1 DEF OnlyClosed
  <2>4. lg[d][p][k].far # "coming"
    BY <2>1, <2>3 DEF Sound, InOrder
  <2> QED
    BY <2>2, <2>4 DEF OnlyClosed
<1>3. NewestUp(new)
  <2> SUFFICES ASSUME NEW d \in Device, NEW p \in Device, NEW n \in DOMAIN new[d][p],
                      new[d][p][n].near
               PROVE  n = Len(new[d][p])
    BY DEF NewestUp
  <2>1. n \in DOMAIN lg[d][p] /\ lg[d][p][n].near
    BY DEF OnlyClosed
  <2>2. n = Len(lg[d][p])
    BY <2>1 DEF Sound, NewestUp
  <2>3. new \in Legs /\ DOMAIN new[d][p] = DOMAIN lg[d][p]
    BY DEF OnlyClosed
  <2>4. DOMAIN new[d][p] = 1 .. Len(new[d][p]) /\ Len(new[d][p]) \in Nat
    BY <2>3, Sequenced
  <2>5. DOMAIN lg[d][p] = 1 .. Len(lg[d][p]) /\ Len(lg[d][p]) \in Nat
    BY Sequenced
  <2>6. Len(new[d][p]) = Len(lg[d][p])
    <3>1. 1 .. Len(new[d][p]) = 1 .. Len(lg[d][p])
      BY <2>3, <2>4, <2>5
    <3> QED
      BY <3>1, <2>4, <2>5, SameLength
  <2> QED
    BY <2>2, <2>6
<1>4. Arrived(new, ln2)
  <2> SUFFICES ASSUME NEW d \in Device, NEW p \in Device, NEW n \in Nat,
                      ln2[p][d] = <<d, p, n>>
               PROVE  n \in DOMAIN new[d][p] /\ new[d][p][n].far # "coming"
    BY DEF Arrived
  <2>1. ln[p][d] = <<d, p, n>>
    <3>1. ln2[p][d] = ln[p][d] \/ ln2[p][d] = NoCall
      OBVIOUS
    <3>2. <<d, p, n>> # NoCall
      BY ALegIsACall
    <3> QED
      BY <3>1, <3>2
  <2>2. n \in DOMAIN lg[d][p] /\ lg[d][p][n].far # "coming"
    BY <2>1 DEF Sound, Arrived
  <2> QED
    BY <2>2 DEF OnlyClosed
<1>5. NearHeld(new, ln2, cl2)
  <2> SUFFICES ASSUME NEW d \in Device, NEW p \in Device, NEW n \in DOMAIN new[d][p],
                      new[d][p][n].near
               PROVE  ln2[d][p] = <<d, p, n>> /\ cl2[d] = new[d][p][n].call
    BY DEF NearHeld
  <2>1. n \in DOMAIN lg[d][p] /\ lg[d][p][n].near
        /\ new[d][p][n].call = lg[d][p][n].call
    BY DEF OnlyClosed
  <2>2. ln[d][p] = <<d, p, n>> /\ cl[d] = lg[d][p][n].call
    BY <2>1 DEF Sound, NearHeld
  <2> QED
    BY <2>1, <2>2
<1>6. FarHeld(new, ln2, cl2)
  <2> SUFFICES ASSUME NEW d \in Device, NEW p \in Device, NEW n \in DOMAIN new[d][p],
                      new[d][p][n].near, new[d][p][n].far = "open"
               PROVE  ln2[p][d] = <<d, p, n>> /\ cl2[p] = new[d][p][n].call
    BY DEF FarHeld
  <2>1. n \in DOMAIN lg[d][p] /\ lg[d][p][n].near
        /\ new[d][p][n].call = lg[d][p][n].call
        /\ lg[d][p][n].far = "open"
    BY DEF OnlyClosed
  <2>2. ln[p][d] = <<d, p, n>> /\ cl[p] = lg[d][p][n].call
    BY <2>1 DEF Sound, FarHeld
  <2> QED
    BY <2>1, <2>2
<1> QED
  BY <1>1, <1>2, <1>3, <1>4, <1>5, <1>6 DEF Sound

\* From ln to ln2, d took new legs to P, for whom it held none.
TakesLegs(lg, ln, ln2, d, P) ==
    /\ P \in SUBSET Device
    /\ \A p \in P : Rank[d] < Rank[p] /\ ln[d][p] = NoCall
    /\ \A x, y \in Device : ln2[x][y] = IF x = d /\ y \in P
                                         THEN <<d, y, Len(lg[d][y]) + 1>>
                                         ELSE ln[x][y]

\* The numbers up to the next one.
LEMMA OneMore ==
  ASSUME NEW k \in Nat, NEW n \in 1 .. k + 1
  PROVE  n \in 1 .. k \/ n = k + 1
  OBVIOUS

\* Legs added for people nobody is held for leave a sound table.
LEMMA DiallingIsSound ==
  ASSUME NEW lg \in Legs, NEW ln, NEW cl, Sound(lg, ln, cl),
         NEW d \in Device, NEW P, NEW c, cl[d] = c,
         NEW ln2, TakesLegs(lg, ln, ln2, d, P)
  PROVE  Sound(Dialled(lg, d, P, c), ln2, cl)
<1>0. /\ P \in SUBSET Device
      /\ \A p \in P : Rank[d] < Rank[p] /\ ln[d][p] = NoCall
      /\ \A x, y \in Device : ln2[x][y] = IF x = d /\ y \in P
                                           THEN <<d, y, Len(lg[d][y]) + 1>>
                                           ELSE ln[x][y]
  BY DEF TakesLegs
<1> USE <1>0
<1> DEFINE fresh == [call |-> c, near |-> TRUE, far |-> "coming"]
           new == Dialled(lg, d, P, c)
<1>1. \A x, y \in Device : ~(x = d /\ y \in P) => new[x][y] = lg[x][y]
  BY DEF Dialled, Legs
<1>2. \A y \in P : new[d][y] = Append(lg[d][y], fresh)
  BY DEF Dialled, Legs
<1>3. fresh.near /\ fresh.far = "coming" /\ fresh.call = c
  OBVIOUS
<1> HIDE DEF fresh, new
<1>4. ASSUME NEW y \in P
      PROVE  /\ Len(new[d][y]) = Len(lg[d][y]) + 1 /\ Len(lg[d][y]) \in Nat
             /\ DOMAIN new[d][y] = 1 .. Len(lg[d][y]) + 1
             /\ DOMAIN lg[d][y] = 1 .. Len(lg[d][y])
             /\ \A n \in 1 .. Len(lg[d][y]) : new[d][y][n] = lg[d][y][n]
             /\ new[d][y][Len(lg[d][y]) + 1] = fresh
  <2>1. lg[d][y] \in Seq(Leg) /\ Len(lg[d][y]) \in Nat /\ DOMAIN lg[d][y] = 1 .. Len(lg[d][y])
    BY Sequenced
  <2> QED
    BY <1>2, <2>1
<1>5. ASSUME NEW y \in P, NEW n \in DOMAIN lg[d][y]
      PROVE  ~lg[d][y][n].near
  <2>1. ln[d][y] = NoCall
    OBVIOUS
  <2>2. <<d, y, n>> # NoCall
    BY ALegIsACall
  <2> QED
    BY <2>1, <2>2 DEF Sound, NearHeld
<1>12. ASSUME NEW y \in P, NEW n \in DOMAIN new[d][y]
       PROVE  \/ /\ n \in 1 .. Len(lg[d][y]) /\ n \in DOMAIN lg[d][y]
                 /\ new[d][y][n] = lg[d][y][n] /\ ~new[d][y][n].near
              \/ n = Len(lg[d][y]) + 1 /\ new[d][y][n] = fresh
  <2>1. n \in 1 .. Len(lg[d][y]) \/ n = Len(lg[d][y]) + 1
    <3>1. n \in 1 .. Len(lg[d][y]) + 1 /\ Len(lg[d][y]) \in Nat
      BY <1>4, ZenonT(20)
    <3> HIDE <1>0
    <3> QED
      BY <3>1, OneMore
  <2>2. CASE n \in 1 .. Len(lg[d][y])
    <3>1. n \in DOMAIN lg[d][y] /\ new[d][y][n] = lg[d][y][n]
      BY <1>4, <2>2
    <3> QED
      BY <1>5, <2>2, <3>1
  <2>3. CASE n = Len(lg[d][y]) + 1
    BY <1>4, <2>3
  <2> QED
    BY <2>1, <2>2, <2>3
<1>6. OneWay(new)
  <2> SUFFICES ASSUME NEW x \in Device, NEW y \in Device, new[x][y] # <<>>
               PROVE  Rank[x] < Rank[y]
    BY DEF OneWay
  <2>1. CASE x = d /\ y \in P
    BY <2>1
  <2>2. CASE ~(x = d /\ y \in P)
    BY <1>1, <2>2 DEF Sound, OneWay
  <2> QED
    BY <2>1, <2>2
<1>7. InOrder(new)
  <2> SUFFICES ASSUME NEW x \in Device, NEW y \in Device, NEW n \in DOMAIN new[x][y],
                      NEW k \in 1 .. n - 1, new[x][y][n].far # "coming"
               PROVE  new[x][y][k].far # "coming"
    BY DEF InOrder
  <2>1. CASE x = d /\ y \in P
    <3>0. n \in 1 .. Len(lg[d][y])
      BY <1>3, <1>12, <2>1
    <3>1. n \in 1 .. Len(lg[d][y]) /\ k \in 1 .. Len(lg[d][y])
      BY <1>4, <2>1, <3>0
    <3>2. lg[d][y][n].far # "coming" /\ n \in DOMAIN lg[d][y]
      BY <1>4, <2>1, <3>1
    <3>3. lg[d][y][k].far # "coming"
      BY <2>1, <3>2 DEF Sound, InOrder
    <3> QED
      BY <1>4, <2>1, <3>1, <3>3
  <2>2. CASE ~(x = d /\ y \in P)
    BY <1>1, <2>2 DEF Sound, InOrder
  <2> QED
    BY <2>1, <2>2
<1>8. NewestUp(new)
  <2> SUFFICES ASSUME NEW x \in Device, NEW y \in Device, NEW n \in DOMAIN new[x][y],
                      new[x][y][n].near
               PROVE  n = Len(new[x][y])
    BY DEF NewestUp
  <2>1. CASE x = d /\ y \in P
    <3>1. n = Len(lg[d][y]) + 1
      BY <1>12, <2>1
    <3> QED
      BY <1>4, <2>1, <3>1
  <2>2. CASE ~(x = d /\ y \in P)
    BY <1>1, <2>2 DEF Sound, NewestUp
  <2> QED
    BY <2>1, <2>2
<1>9. Arrived(new, ln2)
  <2> SUFFICES ASSUME NEW x \in Device, NEW y \in Device, NEW n \in Nat,
                      ln2[y][x] = <<x, y, n>>
               PROVE  n \in DOMAIN new[x][y] /\ new[x][y][n].far # "coming"
    BY DEF Arrived
  <2>1. ~(y = d /\ x \in P)
    <3> SUFFICES ASSUME y = d, x \in P PROVE FALSE
      OBVIOUS
    <3>1. ln2[y][x] = <<d, x, Len(lg[d][x]) + 1>>
      OBVIOUS
    <3>2. x = d
      BY <3>1
    <3>3. Rank[d] < Rank[d] /\ Rank[d] \in Nat
      BY <3>2, RankOrders
    <3> QED
      BY <3>3
  <2>2. ln[y][x] = <<x, y, n>>
    BY <2>1
  <2>3. n \in DOMAIN lg[x][y] /\ lg[x][y][n].far # "coming"
    BY <2>2 DEF Sound, Arrived
  <2>4. CASE x = d /\ y \in P
    <3>1. n \in 1 .. Len(lg[d][y]) /\ Len(lg[d][y]) \in Nat
      BY <1>4, <2>3, <2>4
    <3>2. n \in 1 .. Len(lg[d][y]) + 1
      BY <3>1
    <3>3. n \in DOMAIN new[d][y] /\ new[d][y][n] = lg[d][y][n]
      BY <1>4, <2>4, <3>1, <3>2
    <3> QED
      BY <2>3, <2>4, <3>3
  <2>5. CASE ~(x = d /\ y \in P)
    BY <1>1, <2>3, <2>5
  <2> QED
    BY <2>4, <2>5
<1>10. NearHeld(new, ln2, cl)
  <2> SUFFICES ASSUME NEW x \in Device, NEW y \in Device, NEW n \in DOMAIN new[x][y],
                      new[x][y][n].near
               PROVE  ln2[x][y] = <<x, y, n>> /\ cl[x] = new[x][y][n].call
    BY DEF NearHeld
  <2>1. CASE x = d /\ y \in P
    <3>1. n = Len(lg[d][y]) + 1
      BY <1>12, <2>1
    <3>2. new[x][y][n] = fresh
      BY <1>4, <2>1, <3>1
    <3> QED
      BY <1>3, <2>1, <3>1, <3>2
  <2>2. CASE ~(x = d /\ y \in P)
    <3>1. ln[x][y] = <<x, y, n>> /\ cl[x] = lg[x][y][n].call
      BY <1>1, <2>2 DEF Sound, NearHeld
    <3> QED
      BY <1>1, <2>2, <3>1
  <2> QED
    BY <2>1, <2>2
<1>11. FarHeld(new, ln2, cl)
  <2> SUFFICES ASSUME NEW x \in Device, NEW y \in Device, NEW n \in DOMAIN new[x][y],
                      new[x][y][n].near, new[x][y][n].far = "open"
               PROVE  ln2[y][x] = <<x, y, n>> /\ cl[y] = new[x][y][n].call
    BY DEF FarHeld
  <2>1. ~(x = d /\ y \in P)
    BY <1>3, <1>12
  <2>2. ln[y][x] = <<x, y, n>> /\ cl[y] = lg[x][y][n].call
    BY <1>1, <2>1 DEF Sound, FarHeld
  <2>3. <<x, y, n>> # NoCall
    BY ALegIsACall
  <2>4. ~(y = d /\ x \in P)
    BY <2>2, <2>3
  <2> QED
    BY <1>1, <2>1, <2>2, <2>4
<1> QED
  BY <1>6, <1>7, <1>8, <1>9, <1>10, <1>11 DEF Sound, new

LegsInv == Sound(leg, line, call)

LEMMA HungAtEach ==
  ASSUME leg \in Legs, NEW d \in Device, NEW S, NEW x \in Device, NEW y \in Device,
         NEW n \in DOMAIN leg[x][y]
  PROVE  /\ n \in Nat /\ leg[x][y][n] \in Leg
         /\ Hung(d, S)[x][y][n].call = leg[x][y][n].call
         /\ x = d /\ y \in S /\ line[d][y] = <<x, y, n>>
                => /\ ~Hung(d, S)[x][y][n].near
                   /\ Hung(d, S)[x][y][n].far = leg[x][y][n].far
         /\ y = d /\ x \in S /\ line[d][x] = <<x, y, n>>
                => \/ ~Hung(d, S)[x][y][n].near
                   \/ Hung(d, S)[x][y][n].far = "shut"
         /\ Hung(d, S)[x][y][n].near => leg[x][y][n].near
         /\ \/ Hung(d, S)[x][y][n].far = leg[x][y][n].far
            \/ Hung(d, S)[x][y][n].far = "shut" /\ line[y][x] = <<x, y, n>>
<1> DEFINE l == leg[x][y][n]
           near == x = d /\ y \in S /\ line[d][y] = <<x, y, n>>
           far == y = d /\ x \in S /\ line[d][x] = <<x, y, n>>
<1>1. leg[x][y] \in Seq(Leg)
  BY DEF Legs
<1>2. n \in Nat /\ l \in Leg
  BY <1>1
<1>3. Hung(d, S)[x][y][n] = IF near THEN [l EXCEPT !.near = FALSE]
                            ELSE IF far THEN [l EXCEPT !.far = "shut"] ELSE l
  BY DEF Hung
<1>4. far => line[y][x] = <<x, y, n>>
  OBVIOUS
<1> HIDE DEF l
<1>5. /\ [l EXCEPT !.near = FALSE].call = l.call
      /\ [l EXCEPT !.near = FALSE].near = FALSE
      /\ [l EXCEPT !.near = FALSE].far = l.far
      /\ [l EXCEPT !.far = "shut"].call = l.call
      /\ [l EXCEPT !.far = "shut"].near = l.near
      /\ [l EXCEPT !.far = "shut"].far = "shut"
  BY <1>2 DEF Leg
<1> HIDE DEF near, far
<1>6. /\ Hung(d, S)[x][y][n].call = l.call
      /\ near => ~Hung(d, S)[x][y][n].near /\ Hung(d, S)[x][y][n].far = l.far
      /\ far => (~Hung(d, S)[x][y][n].near \/ Hung(d, S)[x][y][n].far = "shut")
      /\ Hung(d, S)[x][y][n].near => l.near
      /\ Hung(d, S)[x][y][n].far = l.far \/ (Hung(d, S)[x][y][n].far = "shut" /\ far)
  BY <1>3, <1>5
<1> QED
  BY <1>2, <1>4, <1>6 DEF near, far, l

LEMMA HungOnlyCloses ==
  ASSUME leg \in Legs, LegsInv, NEW d \in Device, NEW S \in SUBSET Device
  PROVE  OnlyClosed(leg, Hung(d, S))
<1> DEFINE hung == Hung(d, S)
<1>1. hung \in Legs
  BY HungLegs
<1>2. ASSUME NEW x \in Device, NEW y \in Device
      PROVE  DOMAIN hung[x][y] = DOMAIN leg[x][y]
  BY DEF Hung
<1>3. ASSUME NEW x \in Device, NEW y \in Device, NEW n \in DOMAIN leg[x][y]
      PROVE  /\ hung[x][y][n].call = leg[x][y][n].call
             /\ hung[x][y][n].near => leg[x][y][n].near
             /\ hung[x][y][n].far = leg[x][y][n].far
                \/ (hung[x][y][n].far = "shut" /\ leg[x][y][n].far # "coming")
  <2>1. /\ n \in Nat
        /\ hung[x][y][n].call = leg[x][y][n].call
        /\ hung[x][y][n].near => leg[x][y][n].near
        /\ hung[x][y][n].far = leg[x][y][n].far
           \/ (hung[x][y][n].far = "shut" /\ line[y][x] = <<x, y, n>>)
    BY HungAtEach
  <2>2. line[y][x] = <<x, y, n>> => leg[x][y][n].far # "coming"
    BY <2>1 DEF LegsInv, Sound, Arrived
  <2> QED
    BY <2>1, <2>2
<1> HIDE DEF hung
<1> QED
  BY <1>1, <1>2, <1>3 DEF OnlyClosed, hung

\* What d held to S is down: at d's end, and so no leg is up at both ends.
LEMMA HungIsDown ==
  ASSUME leg \in Legs, LegsInv, NEW d \in Device, NEW S \in SUBSET Device, NEW x \in S
  PROVE  /\ \A n \in DOMAIN leg[d][x] : ~Hung(d, S)[d][x][n].near
         /\ \A n \in DOMAIN leg[x][d] :
                ~(Hung(d, S)[x][d][n].near /\ Hung(d, S)[x][d][n].far = "open")
<1>0. x \in Device
  OBVIOUS
<1>1. ASSUME NEW n \in DOMAIN leg[d][x] PROVE ~Hung(d, S)[d][x][n].near
  <2> DEFINE l == leg[d][x][n]
  <2>1. CASE l.near
    <3>1. line[d][x] = <<d, x, n>>
      BY <1>0, <2>1 DEF LegsInv, Sound, NearHeld
    <3> QED
      BY <1>0, <3>1, HungAtEach
  <2>2. CASE ~l.near
    <3>1. OnlyClosed(leg, Hung(d, S))
      BY HungOnlyCloses
    <3> QED
      BY <1>0, <2>2, <3>1 DEF OnlyClosed
  <2> QED
    BY <2>1, <2>2
<1>2. ASSUME NEW n \in DOMAIN leg[x][d], Hung(d, S)[x][d][n].near,
             Hung(d, S)[x][d][n].far = "open"
      PROVE  FALSE
  <2> DEFINE l == leg[x][d][n]
  <2>1. OnlyClosed(leg, Hung(d, S))
    BY HungOnlyCloses
  <2>2. l.near /\ l.far = "open"
    BY <1>0, <1>2, <2>1 DEF OnlyClosed
  <2>3. line[d][x] = <<x, d, n>>
    BY <1>0, <2>2 DEF LegsInv, Sound, FarHeld
  <2>4. ~Hung(d, S)[x][d][n].near \/ Hung(d, S)[x][d][n].far = "shut"
    BY <1>0, <2>3, HungAtEach
  <2> QED
    BY <1>2, <2>4
<1> QED
  BY <1>1, <1>2

LEMMA ClosingsAddUp ==
  ASSUME NEW a, NEW b, NEW c, OnlyClosed(a, b), OnlyClosed(b, c)
  PROVE  OnlyClosed(a, c)
<1> SUFFICES ASSUME NEW x \in Device, NEW y \in Device
             PROVE  /\ DOMAIN c[x][y] = DOMAIN a[x][y]
                    /\ \A n \in DOMAIN a[x][y] :
                        /\ c[x][y][n].call = a[x][y][n].call
                        /\ c[x][y][n].near => a[x][y][n].near
                        /\ c[x][y][n].far = a[x][y][n].far
                           \/ (c[x][y][n].far = "shut" /\ a[x][y][n].far # "coming")
  BY DEF OnlyClosed
<1>1. DOMAIN b[x][y] = DOMAIN a[x][y] /\ DOMAIN c[x][y] = DOMAIN b[x][y]
  BY DEF OnlyClosed
<1>2. ASSUME NEW n \in DOMAIN a[x][y]
      PROVE  /\ c[x][y][n].call = a[x][y][n].call
             /\ c[x][y][n].near => a[x][y][n].near
             /\ c[x][y][n].far = a[x][y][n].far
                \/ (c[x][y][n].far = "shut" /\ a[x][y][n].far # "coming")
  <2>1. /\ b[x][y][n].call = a[x][y][n].call
        /\ b[x][y][n].near => a[x][y][n].near
        /\ b[x][y][n].far = a[x][y][n].far
           \/ (b[x][y][n].far = "shut" /\ a[x][y][n].far # "coming")
    BY DEF OnlyClosed
  <2>2. /\ c[x][y][n].call = b[x][y][n].call
        /\ c[x][y][n].near => b[x][y][n].near
        /\ c[x][y][n].far = b[x][y][n].far
           \/ (c[x][y][n].far = "shut" /\ b[x][y][n].far # "coming")
    BY <1>1 DEF OnlyClosed
  <2> QED
    BY <2>1, <2>2
<1> QED
  BY <1>1, <1>2

\* d closes what it holds to S and forgets it; it may end the call it is in
\* when S is everybody.
LEMMA HangingUpIsSound ==
  ASSUME leg \in Legs, LegsInv, NEW d \in Device, NEW S \in SUBSET Device,
         NEW new, OnlyClosed(Hung(d, S), new), NEW ln, NEW cl,
         \A x, y \in Device : ln[x][y] = IF x = d /\ y \in S THEN NoCall ELSE line[x][y],
         \A x \in Device : cl[x] = call[x] \/ (x = d /\ S = Device)
  PROVE  OnlyClosed(leg, new) /\ Sound(new, ln, cl)
<1> DEFINE hung == Hung(d, S)
<1>1. OnlyClosed(leg, hung)
  BY HungOnlyCloses
<1>2. /\ \A x \in S : \A n \in DOMAIN leg[d][x] : ~hung[d][x][n].near
      /\ \A x \in S : \A n \in DOMAIN leg[x][d] :
             ~(hung[x][d][n].near /\ hung[x][d][n].far = "open")
  BY HungIsDown
<1> HIDE DEF hung
<1>3. OnlyClosed(hung, new)
  BY DEF hung
<1>4. OnlyClosed(leg, new)
  BY <1>1, <1>3, ClosingsAddUp
<1>5. ASSUME NEW x \in Device, NEW y \in Device, NEW n \in DOMAIN leg[x][y],
             new[x][y][n].near
      PROVE  ln[x][y] = line[x][y] /\ cl[x] = call[x]
  <2>1. hung[x][y][n].near
    BY <1>1, <1>3, <1>5 DEF OnlyClosed
  <2>2. ~(x = d /\ y \in S)
    BY <1>2, <2>1
  <2> QED
    BY <2>2
<1>6. ASSUME NEW x \in Device, NEW y \in Device, NEW n \in DOMAIN leg[x][y],
             new[x][y][n].near, new[x][y][n].far = "open"
      PROVE  ln[y][x] = line[y][x] /\ cl[y] = call[y]
  <2>1. hung[x][y][n].near /\ hung[x][y][n].far = "open"
    BY <1>1, <1>3, <1>6 DEF OnlyClosed
  <2>2. ~(y = d /\ x \in S)
    BY <1>2, <2>1
  <2> QED
    BY <2>2
<1>7. \A x, y \in Device : ln[x][y] = line[x][y] \/ ln[x][y] = NoCall
  OBVIOUS
<1>8. Sound(new, ln, cl)
  BY <1>4, <1>5, <1>6, <1>7, ClosingIsSound DEF LegsInv
<1> QED
  BY <1>4, <1>8

LEMMA OneEndClosed ==
  ASSUME NEW lg \in Legs, NEW d \in Device, NEW p \in Device, NEW n \in DOMAIN lg[d][p],
         NEW l \in Leg, l.call = lg[d][p][n].call, l.near => lg[d][p][n].near,
         l.far = lg[d][p][n].far \/ (l.far = "shut" /\ lg[d][p][n].far # "coming")
  PROVE  OnlyClosed(lg, [lg EXCEPT ![d][p][n] = l])
<1> DEFINE new == [lg EXCEPT ![d][p][n] = l]
<1>1. lg[d][p] \in Seq(Leg) /\ n \in 1 .. Len(lg[d][p])
  BY Sequenced
<1>2. [lg[d][p] EXCEPT ![n] = l] \in Seq(Leg)
  BY <1>1, ExceptSeq
<1>3. new \in Legs
  BY <1>2 DEF Legs
<1>4. \A x, y \in Device : ~(x = d /\ y = p) => new[x][y] = lg[x][y]
  BY DEF Legs
<1>5. DOMAIN new[d][p] = DOMAIN lg[d][p] /\ new[d][p][n] = l
      /\ \A k \in DOMAIN lg[d][p] : k # n => new[d][p][k] = lg[d][p][k]
  BY <1>1 DEF Legs
<1> HIDE DEF new
<1>6. ASSUME NEW x \in Device, NEW y \in Device
      PROVE  /\ DOMAIN new[x][y] = DOMAIN lg[x][y]
             /\ \A k \in DOMAIN lg[x][y] :
                 /\ new[x][y][k].call = lg[x][y][k].call
                 /\ new[x][y][k].near => lg[x][y][k].near
                 /\ new[x][y][k].far = lg[x][y][k].far
                    \/ (new[x][y][k].far = "shut" /\ lg[x][y][k].far # "coming")
  <2>1. CASE x = d /\ y = p
    <3>1. DOMAIN new[x][y] = DOMAIN lg[x][y]
      BY <1>5, <2>1
    <3>2. ASSUME NEW k \in DOMAIN lg[x][y]
          PROVE  /\ new[x][y][k].call = lg[x][y][k].call
                 /\ new[x][y][k].near => lg[x][y][k].near
                 /\ new[x][y][k].far = lg[x][y][k].far
                    \/ (new[x][y][k].far = "shut" /\ lg[x][y][k].far # "coming")
      <4>1. CASE k = n
        BY <1>5, <2>1, <4>1
      <4>2. CASE k # n
        BY <1>5, <2>1, <4>2
      <4> QED
        BY <4>1, <4>2
    <3> QED
      BY <3>1, <3>2
  <2>2. CASE ~(x = d /\ y = p)
    <3>1. new[x][y] = lg[x][y]
      BY <1>4, <2>2
    <3> QED
      BY <3>1
  <2> QED
    BY <2>1, <2>2
<1> QED
  BY <1>3, <1>6 DEF OnlyClosed, new

-----------------------------------------------------------------------------
(* The steps, and the table of legs.                                        *)

LEMMA ClearedIsSound ==
  ASSUME TypeOK, LegsInv, NEW d \in Device, Cleared(d)
  PROVE  LegsInv'
<1>1. leg \in Legs
  BY DEF TypeOK, Legs
<1>2. leg' = Hung(d, Device)
  BY DEF Cleared
<1>3. \A x, y \in Device : line'[x][y] = IF x = d /\ y \in Device THEN NoCall ELSE line[x][y]
  BY DEF Cleared, TypeOK
<1>4. \A x \in Device : call'[x] = call[x] \/ (x = d /\ Device = Device)
  BY DEF Cleared, TypeOK
<1>5. Hung(d, Device) \in Legs
  BY <1>1, HungLegs
<1>6. OnlyClosed(Hung(d, Device), leg')
  BY <1>2, <1>5 DEF OnlyClosed
<1>7. Sound(leg', line', call')
  BY <1>1, <1>3, <1>4, <1>6, HangingUpIsSound
<1> QED
  BY <1>7 DEF LegsInv

LEMMA DroppedIsSound ==
  ASSUME TypeOK, LegsInv, NEW d \in Device, NEW p \in Device, Drop(d, p),
         UNCHANGED call, OnlyClosed(Hung(d, {p}), leg')
  PROVE  LegsInv'
<1>1. leg \in Legs
  BY DEF TypeOK, Legs
<1>2. \A x, y \in Device : line'[x][y] = IF x = d /\ y \in {p} THEN NoCall ELSE line[x][y]
  BY DEF Drop, TypeOK
<1>3. \A x \in Device : call'[x] = call[x] \/ (x = d /\ {p} = Device)
  OBVIOUS
<1>4. Sound(leg', line', call')
  BY <1>1, <1>2, <1>3, HangingUpIsSound
<1> QED
  BY <1>4 DEF LegsInv

LEMMA LeaveHeardIsSound ==
  ASSUME TypeOK, LegsInv, NEW s \in Device, NEW d \in Device, HearLeave(s, d)
  PROVE  LegsInv'
<1>1. CASE UNCHANGED <<mine, leg>>
  BY <1>1 DEF LegsInv, mine
<1>2. CASE Cleared(d)
  BY <1>2, ClearedIsSound
<1>3. CASE Drop(d, s) /\ leg' = Hung(d, {s}) /\ UNCHANGED <<call, roster, past>>
  <2>1. Hung(d, {s}) \in Legs
    BY HungLegs DEF TypeOK, Legs
  <2>2. OnlyClosed(Hung(d, {s}), leg')
    BY <1>3, <2>1 DEF OnlyClosed
  <2> QED
    BY <1>3, <2>2, DroppedIsSound
<1> QED
  BY <1>1, <1>2, <1>3 DEF HearLeave

\* An end that closes is one of the legs that go down when its device hangs up.
LEMMA EndCloses ==
  ASSUME TypeOK, LegsInv, NEW d \in Device, NEW p \in Device, NEW n
  PROVE  /\ NearCloses(d, p, n) => OnlyClosed(Hung(d, {p}), leg')
         /\ FarCloses(d, p, n) => OnlyClosed(Hung(p, {d}), leg')
<1>2. ASSUME n \in DOMAIN leg[d][p], NEW e \in Device, NEW S \in SUBSET Device
      PROVE  /\ Hung(e, S) \in Legs /\ n \in DOMAIN Hung(e, S)[d][p]
             /\ Hung(e, S)[d][p][n] \in Leg
             /\ Hung(e, S)[d][p][n].far = leg[d][p][n].far
                \/ Hung(e, S)[d][p][n].far = "shut"
  <2>1. Hung(e, S) \in Legs
    BY HungLegs DEF TypeOK, Legs
  <2>2. OnlyClosed(leg, Hung(e, S))
    BY HungOnlyCloses DEF TypeOK, Legs
  <2>3. n \in DOMAIN Hung(e, S)[d][p]
    BY <1>2, <2>2 DEF OnlyClosed
  <2>4. Hung(e, S)[d][p] \in Seq(Leg)
    BY <2>1, Sequenced
  <2>5. Hung(e, S)[d][p][n] \in Leg
    BY <2>3, <2>4
  <2>6. Hung(e, S)[d][p][n].far = leg[d][p][n].far \/ Hung(e, S)[d][p][n].far = "shut"
    BY <1>2, <2>2 DEF OnlyClosed
  <2> QED
    BY <2>1, <2>3, <2>5, <2>6
<1>3. ASSUME NearCloses(d, p, n) PROVE OnlyClosed(Hung(d, {p}), leg')
  <2> DEFINE hung == Hung(d, {p})
             l == [hung[d][p][n] EXCEPT !.near = FALSE]
  <2>1. leg' = [hung EXCEPT ![d][p][n] = l]
    BY <1>3 DEF NearCloses
  <2>2. hung \in Legs /\ n \in DOMAIN hung[d][p] /\ hung[d][p][n] \in Leg
    BY <1>2, <1>3 DEF NearCloses
  <2>3. /\ l \in Leg /\ l.call = hung[d][p][n].call /\ ~l.near
        /\ l.far = hung[d][p][n].far
    BY <2>2 DEF Leg
  <2> HIDE DEF l, hung
  <2>4. OnlyClosed(hung, leg')
    BY <2>1, <2>2, <2>3, OneEndClosed
  <2> QED
    BY <2>4 DEF hung
<1>4. ASSUME FarCloses(d, p, n) PROVE OnlyClosed(Hung(p, {d}), leg')
  <2> DEFINE hung == Hung(p, {d})
             l == [hung[d][p][n] EXCEPT !.far = "shut"]
  <2>1. leg' = [hung EXCEPT ![d][p][n] = l]
    BY <1>4 DEF FarCloses
  <2>2. hung \in Legs /\ n \in DOMAIN hung[d][p] /\ hung[d][p][n] \in Leg
    BY <1>2, <1>4 DEF FarCloses
  <2>3. hung[d][p][n].far # "coming"
    BY <1>2, <1>4 DEF FarCloses
  <2>4. /\ l \in Leg /\ l.call = hung[d][p][n].call /\ l.near = hung[d][p][n].near
        /\ l.far = "shut"
    BY <2>2 DEF Leg
  <2> HIDE DEF l, hung
  <2>5. OnlyClosed(hung, leg')
    BY <2>1, <2>2, <2>3, <2>4, OneEndClosed
  <2> QED
    BY <2>5 DEF hung
<1> QED
  BY <1>3, <1>4

LEMMA CloseIsSound ==
  ASSUME TypeOK, LegsInv, NEW d \in Device, NEW p \in Device, NEW n,
         NearCloses(d, p, n) \/ FarCloses(d, p, n)
  PROVE  LegsInv'
<1>1. UNCHANGED call
  BY DEF NearCloses, FarCloses
<1>2. CASE NearCloses(d, p, n)
  <2>1. OnlyClosed(Hung(d, {p}), leg')
    BY <1>2, EndCloses
  <2> QED
    BY <1>1, <1>2, <2>1, DroppedIsSound DEF NearCloses
<1>3. CASE FarCloses(d, p, n)
  <2>1. OnlyClosed(Hung(p, {d}), leg')
    BY <1>3, EndCloses
  <2> QED
    BY <1>1, <1>3, <2>1, DroppedIsSound DEF FarCloses
<1> QED
  BY <1>2, <1>3

LEMMA SeatsTakenAreSound ==
  ASSUME TypeOK, LegsInv, NEW d \in Device, NEW c, NEW people, NEW told, NEW out,
         TakeSeats(d, c, people, told, out)
  PROVE  LegsInv'
<1> DEFINE dial == {p \in HeardOf(d, c) : ShouldPlaceCallTo(d, p)}
           hung == Hung(d, Device)
           none == [line EXCEPT ![d] = [p \in Device |-> NoCall]]
<1>1. leg \in Legs /\ line \in Lines /\ call \in [Device -> Device \cup {None}]
  BY DEF TypeOK, Legs, Lines
<1>2. hung \in Legs /\ OnlyClosed(leg, hung)
  BY <1>1, HungLegs, HungOnlyCloses
<1>3. dial \in SUBSET Device
  <2> SUFFICES ASSUME NEW i \in Replay(d, c) PROVE held[d][i].from \in Device
    BY DEF HeardOf
  <2>1. i \in DOMAIN held[d] /\ held[d] \in Seq(Held)
    BY DEF Replay, TypeOK, Held
  <2>2. held[d][i] \in Held
    BY <2>1
  <2> QED
    BY <2>2 DEF Held
<1>4. \A p \in dial : Rank[d] < Rank[p]
  BY DEF ShouldPlaceCallTo
<1>5. /\ call' = [call EXCEPT ![d] = c]
      /\ line' = [line EXCEPT ![d] = [p \in Device |->
                     IF p \in dial THEN <<d, p, Len(leg[d][p]) + 1>> ELSE NoCall]]
      /\ leg' = Dialled(hung, d, dial, c)
  BY DEF TakeSeats
<1> HIDE DEF dial
<1>6. call'[d] = c /\ \A x \in Device : call'[x] = call[x] \/ (x = d /\ Device = Device)
  BY <1>1, <1>5
<1>7. \A x, y \in Device : none[x][y] = IF x = d /\ y \in Device THEN NoCall ELSE line[x][y]
  BY <1>1 DEF Lines
<1>8. \A p \in dial : none[d][p] = NoCall
  BY <1>3, <1>7
<1>9. ASSUME NEW p \in Device PROVE Len(hung[d][p]) = Len(leg[d][p])
  <2>1. DOMAIN hung[d][p] = DOMAIN leg[d][p]
    BY <1>2 DEF OnlyClosed
  <2>2. /\ DOMAIN hung[d][p] = 1 .. Len(hung[d][p]) /\ Len(hung[d][p]) \in Nat
        /\ DOMAIN leg[d][p] = 1 .. Len(leg[d][p]) /\ Len(leg[d][p]) \in Nat
    BY <1>1, <1>2, Sequenced
  <2>3. 1 .. Len(hung[d][p]) = 1 .. Len(leg[d][p])
    BY <2>1, <2>2
  <2> QED
    BY <2>2, <2>3, SameLength
<1>10. \A x, y \in Device : line'[x][y] = IF x = d /\ y \in dial
                                          THEN <<d, y, Len(leg[d][y]) + 1>>
                                          ELSE none[x][y]
  BY <1>1, <1>5, <1>7 DEF Lines
<1>11. \A x, y \in Device : line'[x][y] = IF x = d /\ y \in dial
                                          THEN <<d, y, Len(hung[d][y]) + 1>>
                                          ELSE none[x][y]
  BY <1>9, <1>10
<1>12. OnlyClosed(hung, hung)
  BY <1>2 DEF OnlyClosed
<1> HIDE DEF none
<1>13. Sound(hung, none, call')
  BY <1>1, <1>6, <1>7, <1>12, HangingUpIsSound
<1> HIDE DEF hung
<1>14. TakesLegs(hung, none, line', d, dial)
  BY <1>3, <1>4, <1>8, <1>11 DEF TakesLegs
<1>15. Sound(Dialled(hung, d, dial, c), line', call')
  BY <1>2, <1>6, <1>13, <1>14, DiallingIsSound
<1> QED
  BY <1>5, <1>15 DEF LegsInv

LEMMA ConnectedIsSound ==
  ASSUME TypeOK, LegsInv, NEW d \in Device, NEW p \in Device, Connect(d, p),
         UNCHANGED call
  PROVE  LegsInv'
<1>1. leg \in Legs /\ line \in Lines
  BY DEF TypeOK, Legs, Lines
<1>2. CASE line[d][p] = NoCall /\ ShouldPlaceCallTo(d, p)
  <2>1. /\ line' = [line EXCEPT ![d][p] = <<d, p, Len(leg[d][p]) + 1>>]
        /\ leg' = Dialled(leg, d, {p}, call[d])
    BY <1>2 DEF Connect
  <2>2. \A x, y \in Device : line'[x][y] = IF x = d /\ y \in {p}
                                           THEN <<d, y, Len(leg[d][y]) + 1>>
                                           ELSE line[x][y]
    BY <1>1, <2>1 DEF Lines
  <2>3. \A y \in {p} : Rank[d] < Rank[y] /\ line[d][y] = NoCall
    BY <1>2 DEF ShouldPlaceCallTo
  <2>4. TakesLegs(leg, line, line', d, {p})
    BY <2>2, <2>3 DEF TakesLegs
  <2>5. Sound(Dialled(leg, d, {p}, call[d]), line', call)
    BY <1>1, <2>4, DiallingIsSound DEF LegsInv
  <2> QED
    BY <2>1, <2>5 DEF LegsInv
<1>3. CASE ~(line[d][p] = NoCall /\ ShouldPlaceCallTo(d, p))
  BY <1>3 DEF Connect, LegsInv
<1> QED
  BY <1>2, <1>3

\* The offers of one dialler arrive in order, so the newest leg, the only one
\* that may be up at its dialler, arrives last.
LEMMA ArrivalIsSound ==
  ASSUME TypeOK, LegsInv, NEW d \in Device, NEW p \in Device, NEW n, LegArrives(d, p, n)
  PROVE  LegsInv'
<1>1. leg \in Legs /\ line \in Lines /\ UNCHANGED call
  BY DEF TypeOK, Legs, Lines, LegArrives
<1>2. /\ n \in DOMAIN leg[d][p] /\ leg[d][p][n].far = "coming"
      /\ \A k \in 1 .. n - 1 : leg[d][p][k].far # "coming"
  BY DEF LegArrives
<1>3. leg[d][p] \in Seq(Leg) /\ n \in 1 .. Len(leg[d][p]) /\ Len(leg[d][p]) \in Nat
      /\ leg[d][p][n] \in Leg /\ DOMAIN leg[d][p] = 1 .. Len(leg[d][p])
  BY <1>1, <1>2, Sequenced
<1>4. leg[d][p] # <<>>
  BY <1>3
<1>5. Rank[d] < Rank[p] /\ leg[p][d] = <<>> /\ d # p
  <2>1. Rank[d] \in Nat /\ Rank[p] \in Nat
    BY RankOrders
  <2>2. Rank[d] < Rank[p]
    BY <1>4 DEF LegsInv, Sound, OneWay
  <2>3. leg[p][d] # <<>> => Rank[p] < Rank[d]
    BY DEF LegsInv, Sound, OneWay
  <2> QED
    BY <2>1, <2>2, <2>3
<1>6. PICK l \in Leg : /\ leg' = [leg EXCEPT ![d][p][n] = l]
                       /\ l.call = leg[d][p][n].call /\ l.near = leg[d][p][n].near
                       /\ \/ l.far = "ignored" /\ UNCHANGED line
                          \/ /\ l.far = "open" /\ call[p] = l.call
                             /\ line' = [line EXCEPT ![p][d] = <<d, p, n>>]
  <2>1. CASE call[p] = leg[d][p][n].call
    <3> DEFINE l == [leg[d][p][n] EXCEPT !.far = "open"]
    <3>1. /\ leg' = [leg EXCEPT ![d][p][n] = l]
          /\ line' = [line EXCEPT ![p][d] = <<d, p, n>>]
      BY <2>1 DEF LegArrives
    <3>2. /\ l \in Leg /\ l.far = "open" /\ l.call = leg[d][p][n].call
          /\ l.near = leg[d][p][n].near
      BY <1>3 DEF Leg
    <3> HIDE DEF l
    <3> QED
      BY <2>1, <3>1, <3>2
  <2>2. CASE call[p] # leg[d][p][n].call
    <3> DEFINE l == [leg[d][p][n] EXCEPT !.far = "ignored"]
    <3>1. leg' = [leg EXCEPT ![d][p][n] = l] /\ UNCHANGED line
      BY <2>2 DEF LegArrives
    <3>2. /\ l \in Leg /\ l.far = "ignored" /\ l.call = leg[d][p][n].call
          /\ l.near = leg[d][p][n].near
      BY <1>3 DEF Leg
    <3> HIDE DEF l
    <3> QED
      BY <3>1, <3>2
  <2> QED
    BY <2>1, <2>2
<1>7. \A x, y \in Device : ~(x = d /\ y = p) => leg'[x][y] = leg[x][y]
  BY <1>1, <1>6 DEF Legs
<1>8. /\ leg'[d][p] = [leg[d][p] EXCEPT ![n] = l]
      /\ leg'[d][p][n] = l /\ DOMAIN leg'[d][p] = DOMAIN leg[d][p]
      /\ \A k \in DOMAIN leg[d][p] : k # n => leg'[d][p][k] = leg[d][p][k]
  BY <1>1, <1>3, <1>6 DEF Legs
<1>9. Len(leg'[d][p]) = Len(leg[d][p])
  BY <1>3, <1>8
<1>10. ASSUME NEW k \in DOMAIN leg[d][p], leg[d][p][k].near, k # n
       PROVE  leg[d][p][k].far # "open"
  <2> SUFFICES ASSUME leg[d][p][k].far = "open" PROVE FALSE
    OBVIOUS
  <2>1. k = Len(leg[d][p])
    BY <1>10 DEF LegsInv, Sound, NewestUp
  <2>2. n \in 1 .. k - 1
    BY <1>3, <1>10, <2>1
  <2>3. leg[d][p][n].far # "coming"
    BY <2>2 DEF LegsInv, Sound, InOrder
  <2> QED
    BY <1>2, <2>3
<1>11. ASSUME NEW x \in Device, NEW y \in Device, ~(x = p /\ y = d)
       PROVE  line'[x][y] = line[x][y]
  BY <1>1, <1>6, <1>11 DEF Lines
<1>12. OneWay(leg')
  <2> SUFFICES ASSUME NEW x \in Device, NEW y \in Device, leg'[x][y] # <<>>
               PROVE  Rank[x] < Rank[y]
    BY DEF OneWay
  <2>1. CASE x = d /\ y = p
    BY <1>5, <2>1
  <2>2. CASE ~(x = d /\ y = p)
    BY <1>7, <2>2 DEF LegsInv, Sound, OneWay
  <2> QED
    BY <2>1, <2>2
<1>13. InOrder(leg')
  <2> SUFFICES ASSUME NEW x \in Device, NEW y \in Device, NEW m \in DOMAIN leg'[x][y],
                      NEW k \in 1 .. m - 1, leg'[x][y][m].far # "coming"
               PROVE  leg'[x][y][k].far # "coming"
    BY DEF InOrder
  <2>1. CASE x = d /\ y = p
    <3>1. m \in DOMAIN leg[d][p] /\ k \in DOMAIN leg[d][p]
      BY <1>3, <1>8, <2>1
    <3>2. CASE k = n
      BY <1>6, <1>8, <2>1, <3>2
    <3>3. CASE k # n /\ m = n
      <4>1. leg[d][p][k].far # "coming"
        BY <1>2, <3>3
      <4> QED
        BY <1>8, <2>1, <3>1, <3>3, <4>1
    <3>4. CASE k # n /\ m # n
      <4>1. leg[d][p][m].far # "coming"
        BY <1>8, <2>1, <3>1, <3>4
      <4>2. leg[d][p][k].far # "coming"
        BY <3>1, <4>1 DEF LegsInv, Sound, InOrder
      <4> QED
        BY <1>8, <2>1, <3>1, <3>4, <4>2
    <3> QED
      BY <3>2, <3>3, <3>4
  <2>2. CASE ~(x = d /\ y = p)
    BY <1>7, <2>2 DEF LegsInv, Sound, InOrder
  <2> QED
    BY <2>1, <2>2
<1>14. NewestUp(leg')
  <2> SUFFICES ASSUME NEW x \in Device, NEW y \in Device, NEW m \in DOMAIN leg'[x][y],
                      leg'[x][y][m].near
               PROVE  m = Len(leg'[x][y])
    BY DEF NewestUp
  <2>1. CASE x = d /\ y = p
    <3>1. m \in DOMAIN leg[d][p] /\ leg[d][p][m].near
      BY <1>6, <1>8, <2>1
    <3>2. m = Len(leg[d][p])
      BY <3>1 DEF LegsInv, Sound, NewestUp
    <3> QED
      BY <1>9, <2>1, <3>2
  <2>2. CASE ~(x = d /\ y = p)
    BY <1>7, <2>2 DEF LegsInv, Sound, NewestUp
  <2> QED
    BY <2>1, <2>2
<1>15. Arrived(leg', line')
  <2> SUFFICES ASSUME NEW x \in Device, NEW y \in Device, NEW m \in Nat,
                      line'[y][x] = <<x, y, m>>
               PROVE  m \in DOMAIN leg'[x][y] /\ leg'[x][y][m].far # "coming"
    BY DEF Arrived
  <2>1. CASE x = d /\ y = p
    <3>1. CASE m = n
      BY <1>2, <1>6, <1>8, <2>1, <3>1
    <3>2. CASE m # n
      <4>1. line[p][d] = <<d, p, m>>
        <5>1. line'[p][d] = line[p][d] \/ line'[p][d] = <<d, p, n>>
          BY <1>1, <1>6 DEF Lines
        <5> QED
          BY <2>1, <3>2, <5>1
      <4>2. m \in DOMAIN leg[d][p] /\ leg[d][p][m].far # "coming"
        BY <4>1 DEF LegsInv, Sound, Arrived
      <4> QED
        BY <1>8, <2>1, <3>2, <4>2
    <3> QED
      BY <3>1, <3>2
  <2>2. CASE ~(x = d /\ y = p)
    <3>1. line[y][x] = <<x, y, m>>
      BY <1>11, <2>2
    <3>2. m \in DOMAIN leg[x][y] /\ leg[x][y][m].far # "coming"
      BY <3>1 DEF LegsInv, Sound, Arrived
    <3> QED
      BY <1>7, <2>2, <3>2
  <2> QED
    BY <2>1, <2>2
<1>16. NearHeld(leg', line', call')
  <2> SUFFICES ASSUME NEW x \in Device, NEW y \in Device, NEW m \in DOMAIN leg'[x][y],
                      leg'[x][y][m].near
               PROVE  line'[x][y] = <<x, y, m>> /\ call'[x] = leg'[x][y][m].call
    BY DEF NearHeld
  <2>1. CASE x = d /\ y = p
    <3>1. /\ m \in DOMAIN leg[d][p] /\ leg[d][p][m].near
          /\ leg'[d][p][m].call = leg[d][p][m].call
      BY <1>6, <1>8, <2>1
    <3>2. line[d][p] = <<d, p, m>> /\ call[d] = leg[d][p][m].call
      BY <3>1 DEF LegsInv, Sound, NearHeld
    <3>3. line'[d][p] = line[d][p]
      BY <1>5, <1>11
    <3> QED
      BY <1>1, <2>1, <3>1, <3>2, <3>3
  <2>2. CASE ~(x = d /\ y = p)
    <3>1. line[x][y] = <<x, y, m>> /\ call[x] = leg[x][y][m].call
      BY <1>7, <2>2 DEF LegsInv, Sound, NearHeld
    <3>2. ~(x = p /\ y = d)
      BY <1>5, <1>7, <2>2
    <3> QED
      BY <1>1, <1>7, <1>11, <2>2, <3>1, <3>2
  <2> QED
    BY <2>1, <2>2
<1>17. FarHeld(leg', line', call')
  <2> SUFFICES ASSUME NEW x \in Device, NEW y \in Device, NEW m \in DOMAIN leg'[x][y],
                      leg'[x][y][m].near, leg'[x][y][m].far = "open"
               PROVE  line'[y][x] = <<x, y, m>> /\ call'[y] = leg'[x][y][m].call
    BY DEF FarHeld
  <2>1. CASE x = d /\ y = p
    <3>1. m = n
      BY <1>8, <1>10, <2>1
    <3>2. l.far = "open"
      BY <1>8, <2>1, <3>1
    <3>3. call[p] = l.call /\ line' = [line EXCEPT ![p][d] = <<d, p, n>>]
      BY <1>6, <3>2
    <3>4. line'[p][d] = <<d, p, n>>
      BY <1>1, <3>3 DEF Lines
    <3> QED
      BY <1>1, <1>8, <2>1, <3>1, <3>3, <3>4
  <2>2. CASE ~(x = d /\ y = p)
    <3>1. line[y][x] = <<x, y, m>> /\ call[y] = leg[x][y][m].call
      BY <1>7, <2>2 DEF LegsInv, Sound, FarHeld
    <3> QED
      BY <1>1, <1>7, <1>11, <2>2, <3>1
  <2> QED
    BY <2>1, <2>2
<1> QED
  BY <1>12, <1>13, <1>14, <1>15, <1>16, <1>17 DEF LegsInv, Sound

LEMMA LegsInit == Init => LegsInv
<1> SUFFICES ASSUME Init PROVE LegsInv
  OBVIOUS
<1>1. \A d, p \in Device : leg[d][p] = <<>> /\ line[d][p] = NoCall
  BY DEF Init
<1>2. ASSUME NEW d \in Device, NEW p \in Device, NEW n \in Nat PROVE line[d][p] # <<p, d, n>>
  <2>1. <<p, d, n>> # NoCall
    BY ALegIsACall
  <2> QED BY <1>1, <2>1
<1>3. \A d, p \in Device : DOMAIN leg[d][p] = {}
  <2>1. DOMAIN <<>> = {}
    OBVIOUS
  <2> QED BY <1>1, <2>1
<1> QED
  BY <1>1, <1>2, <1>3
     DEF LegsInv, Sound, OneWay, InOrder, NewestUp, Arrived, NearHeld, FarHeld

LEMMA MicrophoneIsSound ==
  ASSUME TypeOK, LegsInv, NEW d \in Device, Asked(d)
  PROVE  LegsInv'
<1> PICK i \in DOMAIN opening[d] : MicOpens(d, i) \/ MicRefused(d, i) \/ Grown(d, i)
  BY DEF Asked
<1>1. CASE UNCHANGED mine /\ UNCHANGED leg
  BY <1>1 DEF LegsInv, mine
<1>2. CASE Begin(d, opening[d][i]) \/ Enter(d, opening[d][i])
  BY <1>2, SeatsTakenAreSound DEF Begin, Enter
<1>3. \/ UNCHANGED mine /\ UNCHANGED leg
      \/ Begin(d, opening[d][i]) \/ Enter(d, opening[d][i])
  BY DEF MicOpens, MicRefused, Grown
<1> QED
  BY <1>1, <1>2, <1>3

LEMMA LegsAreSound == Spec => []LegsInv
<1>1. Init => LegsInv
  BY LegsInit
<1>2. TypeOK /\ LegsInv /\ [Next]_vars => LegsInv'
  <2> SUFFICES ASSUME TypeOK, LegsInv, [Next]_vars PROVE LegsInv'
    OBVIOUS
  <2>1. CASE UNCHANGED <<leg, line, call>>
    BY <2>1 DEF LegsInv
  <2>2. ASSUME NEW d \in Device, NEW people \in SUBSET Device,
               StartCall(d, people) \/ GrowPair(d, people) \/ AddPeople(d, people)
        PROVE  LegsInv'
    BY <2>1, <2>2 DEF StartCall, GrowPair, AddPeople, mine
  <2>3. ASSUME NEW d \in Device,
               \/ Accept(d) \/ CardGoes(d) \/ GoesStale(d)
               \/ PairCloses(d) \/ HangUp(d) \/ LastPairFades(d)
        PROVE  LegsInv'
    BY <2>1, <2>3 DEF Accept, CardGoes, GoesStale, PairCloses, HangUp, LastPairFades, mine
  <2>4. ASSUME NEW d \in Device, Asked(d)
        PROVE  LegsInv'
    BY <2>4, MicrophoneIsSound
  <2>5. ASSUME NEW d \in Device, Leave(d) \/ Reload(d)
        PROVE  LegsInv'
    BY <2>5, ClearedIsSound DEF Leave, Reload
  <2>6. ASSUME NEW s \in Device, NEW d \in Device, Hears(s, d)
        PROVE  LegsInv'
    <3>1. CASE HearInvite(s, d) \/ HearUpgrade(s, d)
      BY <2>1, <3>1 DEF HearInvite, HearUpgrade, mine
    <3>2. CASE HearMember(s, d)
      <4>1. CASE Connect(d, s)
        BY <3>2, <4>1, ConnectedIsSound DEF HearMember
      <4>2. CASE Hold(d, s, Head(mail[s][d]))
        BY <2>1, <3>2, <4>2 DEF HearMember, Hold
      <4> QED
        BY <3>2, <4>1, <4>2 DEF HearMember
    <3>3. CASE HearLeave(s, d)
      BY <3>3, LeaveHeardIsSound
    <3> QED
      BY <2>6, <3>1, <3>2, <3>3 DEF Hears
  <2>7. ASSUME NEW d \in Device, NEW p \in Device, Media(d, p)
        PROVE  LegsInv'
    BY <2>7, ArrivalIsSound, CloseIsSound DEF Media
  <2>8. ASSUME NEW d \in Device, NEW p \in Device, SeatTimer(d, p)
        PROVE  LegsInv'
    BY <2>1, <2>8 DEF SeatTimer
  <2>9. CASE UNCHANGED vars
    BY <2>1, <2>9 DEF vars, mine
  <2> QED
    BY <2>2, <2>3, <2>4, <2>5, <2>6, <2>7, <2>8, <2>9 DEF Next
<1> QED
  BY <1>1, <1>2, TypeCorrect, PTL DEF Spec

(***************************************************************************)
(* In every reachable state, however microphones, signals, offers, closes  *)
(* and reloads are interleaved and however often a call is begun, a leg    *)
(* that is up at its dialler is the one its dialler holds, and one up at   *)
(* both ends is the one both hold (resetGroupCallState and                 *)
(* dropGroupCallPeer).                                                     *)
(***************************************************************************)
THEOREM LegsStayHeld == Spec => []LegsAreHeld
<1>1. LegsInv => LegsAreHeld
  BY DEF LegsInv, Sound, NearHeld, FarHeld, LegsAreHeld
<1> QED
  BY <1>1, LegsAreSound, PTL
-----------------------------------------------------------------------------
(* The mesh.  Its argument needs three sets: what the signals of members    *)
(* under way say (way), what the held ones say (kept), and for which calls  *)
(* one device has dialled another (tie).                                    *)

MemberTypes == {"join", "here", "leave"}

Says(q) == {<<q[i].type, q[i].call>> : i \in {j \in DOMAIN q : q[j].type \in MemberTypes}}
Keeps(q) == {<<q[i].from, q[i].type, q[i].call>> : i \in DOMAIN q}
Calls(q) == {q[i].call : i \in DOMAIN q}

way == [s \in Device |-> [d \in Device |-> Says(mail[s][d])]]
kept == [d \in Device |-> Keeps(held[d])]
tie == [x \in Device |-> [y \in Device |-> Calls(leg[x][y])]]

LEMMA SaysNothing == Says(<<>>) = {}
<1>1. DOMAIN <<>> = {}
  OBVIOUS
<1> QED
  BY <1>1 DEF Says

LEMMA SaysOne ==
  ASSUME NEW m \in Signal
  PROVE  Says(<<m>>) = IF m.type \in MemberTypes THEN {<<m.type, m.call>>} ELSE {}
<1> DEFINE q == <<m>>
<1>1. DOMAIN q = {1} /\ q[1] = m
  OBVIOUS
<1> HIDE DEF q
<1>2. Says(q) = IF m.type \in MemberTypes THEN {<<m.type, m.call>>} ELSE {}
  BY <1>1 DEF Says
<1> QED
  BY <1>2 DEF q

LEMMA SaysBehind ==
  ASSUME NEW q \in Seq(Signal), NEW r \in Seq(Signal)
  PROVE  Says(q \o r) = Says(q) \cup Says(r)
<1> DEFINE qr == q \o r
<1>1. /\ Len(q) \in Nat /\ Len(r) \in Nat /\ DOMAIN qr = 1 .. Len(q) + Len(r)
      /\ DOMAIN q = 1 .. Len(q) /\ DOMAIN r = 1 .. Len(r)
      /\ \A i \in 1 .. Len(q) : qr[i] = q[i]
      /\ \A i \in 1 .. Len(r) : qr[Len(q) + i] = r[i]
  OBVIOUS
<1> HIDE DEF qr
<1>2. ASSUME NEW e \in Says(qr) PROVE e \in Says(q) \cup Says(r)
  <2>1. PICK i \in DOMAIN qr : qr[i].type \in MemberTypes /\ e = <<qr[i].type, qr[i].call>>
    BY <1>2 DEF Says
  <2>2. CASE i \in 1 .. Len(q)
    BY <1>1, <2>1, <2>2 DEF Says
  <2>3. CASE i \notin 1 .. Len(q)
    <3>1. i - Len(q) \in 1 .. Len(r) /\ Len(q) + (i - Len(q)) = i
      BY <1>1, <2>1, <2>3
    <3>2. qr[i] = r[i - Len(q)]
      BY <1>1, <3>1
    <3> QED
      BY <1>1, <2>1, <3>1, <3>2 DEF Says
  <2> QED
    BY <2>2, <2>3
<1>3. ASSUME NEW e \in Says(q) PROVE e \in Says(qr)
  <2>1. PICK i \in DOMAIN q : q[i].type \in MemberTypes /\ e = <<q[i].type, q[i].call>>
    BY <1>3 DEF Says
  <2>2. i \in DOMAIN qr /\ qr[i] = q[i]
    BY <1>1, <2>1
  <2> QED
    BY <2>1, <2>2 DEF Says
<1>4. ASSUME NEW e \in Says(r) PROVE e \in Says(qr)
  <2>1. PICK i \in DOMAIN r : r[i].type \in MemberTypes /\ e = <<r[i].type, r[i].call>>
    BY <1>4 DEF Says
  <2>2. Len(q) + i \in DOMAIN qr /\ qr[Len(q) + i] = r[i]
    BY <1>1, <2>1
  <2> QED
    BY <2>1, <2>2 DEF Says
<1>5. Says(qr) = Says(q) \cup Says(r)
  BY <1>2, <1>3, <1>4
<1> QED
  BY <1>5 DEF qr

LEMMA SaysHead ==
  ASSUME NEW q \in Seq(Signal), q # <<>>
  PROVE  Says(q) = Says(<<Head(q)>>) \cup Says(Tail(q))
<1>1. Head(q) \in Signal /\ Tail(q) \in Seq(Signal)
  BY Taken
<1>2. <<Head(q)>> \in Seq(Signal)
  BY <1>1, Single
<1>3. q = <<Head(q)>> \o Tail(q)
  OBVIOUS
<1> QED
  BY <1>1, <1>2, <1>3, SaysBehind

LEMMA SaysCopies ==
  ASSUME NEW m \in Signal, NEW n \in Nat
  PROVE  /\ Says([i \in 1..n |-> m]) \subseteq Says(<<m>>)
         /\ n # 0 => Says([i \in 1..n |-> m]) = Says(<<m>>)
<1> DEFINE q == [i \in 1..n |-> m]
<1>1. DOMAIN q = 1..n /\ \A i \in 1..n : q[i] = m
  OBVIOUS
<1> HIDE DEF q
<1>2. Says(q) \subseteq IF m.type \in MemberTypes THEN {<<m.type, m.call>>} ELSE {}
  BY <1>1 DEF Says
<1>3. ASSUME n # 0, m.type \in MemberTypes PROVE <<m.type, m.call>> \in Says(q)
  <2>1. 1 \in DOMAIN q /\ q[1] = m
    BY <1>1, <1>3
  <2> QED
    BY <1>3, <2>1 DEF Says
<1>4. /\ Says(q) \subseteq Says(<<m>>)
      /\ n # 0 => Says(q) = Says(<<m>>)
  BY <1>2, <1>3, SaysOne
<1> QED
  BY <1>4 DEF q

\* What is sent is heard: d's letters lie behind those under way.
LEMMA WaySent ==
  ASSUME mail \in Mail, NEW d \in Device, NEW out \in [Device -> Seq(Signal)],
         mail' = Sent(d, out)
  PROVE  \A x, y \in Device : way'[x][y] = IF x = d THEN way[x][y] \cup Says(out[y])
                                           ELSE way[x][y]
<1> TAKE x, y \in Device
<1>1. way'[x][y] = Says(mail'[x][y]) /\ way[x][y] = Says(mail[x][y])
  BY DEF way
<1>2. mail'[x][y] = IF x = d THEN mail[x][y] \o out[y] ELSE mail[x][y]
  BY DEF Sent, Mail
<1>3. mail[x][y] \in Seq(Signal) /\ out[y] \in Seq(Signal)
  BY DEF Mail
<1>4. Says(mail[x][y] \o out[y]) = Says(mail[x][y]) \cup Says(out[y])
  BY <1>3, SaysBehind
<1>5. CASE x = d
  BY <1>1, <1>2, <1>4, <1>5
<1>6. CASE x # d
  BY <1>1, <1>2, <1>6
<1> QED
  BY <1>5, <1>6

\* Of a letter that is taken only the head is gone; the answer lies behind.
LEMMA WayTook ==
  ASSUME mail \in Mail, NEW s \in Device, NEW d \in Device, mail[s][d] # <<>>,
         NEW out \in Seq(Signal), Took(s, d, out)
  PROVE  /\ Head(mail[s][d]) \in Signal
         /\ Says(<<Head(mail[s][d])>>) \subseteq way[s][d]
         /\ Says(out) \subseteq way'[d][s]
         /\ \A x, y \in Device :
             /\ way'[x][y] \subseteq way[x][y] \cup (IF x = d /\ y = s THEN Says(out) ELSE {})
             /\ way[x][y] \subseteq way'[x][y] \cup
                    (IF x = s /\ y = d THEN Says(<<Head(mail[s][d])>>) ELSE {})
<1> DEFINE q == mail[s][d]
           m1 == [mail EXCEPT ![s][d] = Tail(@)]
<1>1. q \in Seq(Signal) /\ Head(q) \in Signal /\ Tail(q) \in Seq(Signal)
  BY Taken DEF Mail
<1>2. Says(q) = Says(<<Head(q)>>) \cup Says(Tail(q))
  BY <1>1, SaysHead
<1>3. m1 \in Mail /\ mail' = [m1 EXCEPT ![d][s] = @ \o out]
  BY <1>1 DEF Mail, Took
<1>4. \A x, y \in Device : m1[x][y] = IF x = s /\ y = d THEN Tail(q) ELSE mail[x][y]
  BY DEF Mail
<1> HIDE DEF m1
<1>5. \A x, y \in Device : mail'[x][y] = IF x = d /\ y = s THEN m1[x][y] \o out ELSE m1[x][y]
  BY <1>3 DEF Mail
<1>6. ASSUME NEW x \in Device, NEW y \in Device
      PROVE  way'[x][y] = Says(m1[x][y]) \cup (IF x = d /\ y = s THEN Says(out) ELSE {})
  <2>1. way'[x][y] = Says(mail'[x][y])
    BY DEF way
  <2>2. m1[x][y] \in Seq(Signal)
    BY <1>3 DEF Mail
  <2> QED
    BY <1>5, <2>1, <2>2, SaysBehind
<1>7. ASSUME NEW x \in Device, NEW y \in Device
      PROVE  way[x][y] = Says(m1[x][y]) \cup
                             (IF x = s /\ y = d THEN Says(<<Head(q)>>) ELSE {})
  <2>1. way[x][y] = Says(mail[x][y])
    BY DEF way
  <2> QED
    BY <1>2, <1>4, <2>1
<1> HIDE DEF q
<1>8. Head(q) \in Signal /\ Says(<<Head(q)>>) \subseteq way[s][d] /\ Says(out) \subseteq way'[d][s]
  BY <1>1, <1>6, <1>7
<1>9. \A x, y \in Device :
        /\ way'[x][y] \subseteq way[x][y] \cup (IF x = d /\ y = s THEN Says(out) ELSE {})
        /\ way[x][y] \subseteq way'[x][y] \cup (IF x = s /\ y = d THEN Says(<<Head(q)>>) ELSE {})
  BY <1>6, <1>7
<1> QED
  BY <1>8, <1>9 DEF q

\* What is held, and what comes to it.
LEMMA KeepsAppended ==
  ASSUME NEW q \in Seq(Held), NEW k \in Nat, k >= 1, NEW h \in Held
  PROVE  LET r == Append(SubSeq(q, k, Len(q)), h) IN
         /\ Keeps(r) \subseteq Keeps(q) \cup {<<h.from, h.type, h.call>>}
         /\ <<h.from, h.type, h.call>> \in Keeps(r)
         /\ k = 1 => Keeps(q) \subseteq Keeps(r)
<1> DEFINE p == SubSeq(q, k, Len(q))
           r == Append(p, h)
<1>1. Len(q) \in Nat /\ DOMAIN q = 1 .. Len(q)
  OBVIOUS
<1>2. p \in Seq(Held)
  BY <1>1, Piece
<1>3. /\ k <= Len(q) => Len(p) = Len(q) - k + 1
      /\ k > Len(q) => Len(p) = 0
      /\ \A i \in 1 .. Len(p) : p[i] = q[k + i - 1]
  BY <1>1, SubSeqProperties
<1>4. Len(p) \in Nat
  BY <1>2
<1>5. /\ DOMAIN r = 1 .. Len(p) + 1
      /\ \A i \in 1 .. Len(p) : r[i] = p[i]
      /\ r[Len(p) + 1] = h
  <2> HIDE DEF p
  <2> QED
    BY <1>2, <1>4
<1> HIDE DEF p, r
<1>6. ASSUME NEW e \in Keeps(r) PROVE e \in Keeps(q) \cup {<<h.from, h.type, h.call>>}
  <2>1. PICK i \in DOMAIN r : e = <<r[i].from, r[i].type, r[i].call>>
    BY <1>6 DEF Keeps
  <2>2. CASE i = Len(p) + 1
    BY <1>5, <2>1, <2>2
  <2>3. CASE i # Len(p) + 1
    <3>1. i \in 1 .. Len(p)
      BY <1>4, <1>5, <2>1, <2>3
    <3>2. k + i - 1 \in 1 .. Len(q) /\ r[i] = q[k + i - 1]
      BY <1>1, <1>3, <1>4, <1>5, <3>1
    <3> QED
      BY <1>1, <2>1, <3>2 DEF Keeps
  <2> QED
    BY <2>2, <2>3
<1>7. <<h.from, h.type, h.call>> \in Keeps(r)
  <2>1. Len(p) + 1 \in DOMAIN r
    BY <1>4, <1>5
  <2> QED
    BY <1>5, <2>1 DEF Keeps
<1>8. ASSUME k = 1, NEW e \in Keeps(q) PROVE e \in Keeps(r)
  <2>1. PICK i \in DOMAIN q : e = <<q[i].from, q[i].type, q[i].call>>
    BY <1>8 DEF Keeps
  <2>2. i \in 1 .. Len(p)
    BY <1>1, <1>3, <1>8, <2>1
  <2>3. i \in DOMAIN r /\ r[i] = q[i]
    BY <1>1, <1>3, <1>4, <1>5, <1>8, <2>1, <2>2
  <2> QED
    BY <2>1, <2>3 DEF Keeps
<1> QED
  BY <1>6, <1>7, <1>8 DEF r, p

\* What holding a signal does: it is kept, and unless something was thrown
\* away so is all that was.
LEMMA KeptHeld ==
  ASSUME TypeOK, NEW s \in Device, NEW d \in Device, NEW m \in Signal,
         m.type \in {"join", "here"}, Hold(d, s, m)
  PROVE  /\ \A x \in Device : x # d => kept'[x] = kept[x]
         /\ kept'[d] \subseteq kept[d] \cup {<<s, m.type, m.call>>}
         /\ <<s, m.type, m.call>> \in kept'[d]
         /\ stale' = stale \/ stale' = stale + 1
         /\ stale' = stale => kept[d] \subseteq kept'[d]
<1> DEFINE k == IF Len(held[d]) < HeldMax THEN 1 ELSE Len(held[d]) - HeldMax + 2
           h == [from |-> s, type |-> m.type, call |-> m.call]
<1>1. held[d] \in Seq(Held) /\ Len(held[d]) \in Nat /\ stale \in Nat
  <2>1. held[d] \in Seq(Held)
    BY DEF TypeOK, Held
  <2> QED
    BY <2>1 DEF TypeOK
<1>2. k \in Nat /\ k >= 1 /\ (Len(held[d]) < HeldMax => k = 1)
  BY <1>1, HeldMaxIsPositive
<1>3. h \in Held /\ h.from = s /\ h.type = m.type /\ h.call = m.call
  BY DEF Held, Signal
<1>4. held' = [held EXCEPT ![d] = Append(SubSeq(held[d], k, Len(held[d])), h)]
  BY DEF Hold
<1>5. /\ stale' = stale \/ stale' = stale + 1
      /\ stale' = stale => Len(held[d]) < HeldMax
  BY <1>1 DEF Hold
<1> HIDE DEF k, h
<1>6. /\ held'[d] = Append(SubSeq(held[d], k, Len(held[d])), h)
      /\ \A x \in Device : x # d => held'[x] = held[x]
  <2> DEFINE r == Append(SubSeq(held[d], k, Len(held[d])), h)
  <2>1. held \in [Device -> Seq(Held)]
    BY DEF TypeOK, Held
  <2>2. held' = [held EXCEPT ![d] = r]
    BY <1>4
  <2> HIDE DEF r
  <2>3. held'[d] = r /\ \A x \in Device : x # d => held'[x] = held[x]
    BY <2>1, <2>2
  <2> QED
    BY <2>3 DEF r
<1>7. /\ Keeps(held'[d]) \subseteq Keeps(held[d]) \cup {<<h.from, h.type, h.call>>}
      /\ <<h.from, h.type, h.call>> \in Keeps(held'[d])
      /\ k = 1 => Keeps(held[d]) \subseteq Keeps(held'[d])
  <2> DEFINE r == Append(SubSeq(held[d], k, Len(held[d])), h)
  <2>1. /\ Keeps(r) \subseteq Keeps(held[d]) \cup {<<h.from, h.type, h.call>>}
        /\ <<h.from, h.type, h.call>> \in Keeps(r)
        /\ k = 1 => Keeps(held[d]) \subseteq Keeps(r)
    BY <1>1, <1>2, <1>3, KeepsAppended
  <2>2. held'[d] = r
    BY <1>6
  <2> HIDE DEF r
  <2> QED
    BY <2>1, <2>2
<1>8. \A x \in Device : kept'[x] = Keeps(held'[x]) /\ kept[x] = Keeps(held[x])
  BY DEF kept
<1>9. \A x \in Device : x # d => kept'[x] = kept[x]
  BY <1>6, <1>8
<1>10. Keeps(held'[d]) = kept'[d] /\ Keeps(held[d]) = kept[d]
  BY <1>8
<1>11. /\ kept'[d] \subseteq kept[d] \cup {<<s, m.type, m.call>>}
       /\ <<s, m.type, m.call>> \in kept'[d]
       /\ k = 1 => kept[d] \subseteq kept'[d]
  BY <1>3, <1>7, <1>10
<1> QED
  BY <1>2, <1>5, <1>9, <1>11

LEMMA KeepsNothing == Keeps(<<>>) = {}
<1>1. DOMAIN <<>> = {}
  OBVIOUS
<1> QED
  BY <1>1 DEF Keeps

\* Who is heard of, and to whom the answers go.
LEMMA HeardOfIsKept ==
  ASSUME TypeOK, NEW d \in Device, NEW c \in Device
  PROVE  /\ HeardOf(d, c) \in SUBSET Device
         /\ \A p \in Device : p \in HeardOf(d, c) <=> \E t \in MemberTypes : <<p, t, c>> \in kept[d]
<1> DEFINE q == held[d]
<1>1. q \in Seq(Held)
  BY DEF TypeOK, Held
<1>2. \A i \in DOMAIN q : /\ q[i].from \in Device /\ q[i].type \in MemberTypes
                          /\ q[i].call \in Device
  <2> TAKE i \in DOMAIN q
  <2> HIDE DEF q
  <2>1. q[i] \in Held
    BY <1>1
  <2> QED
    BY <2>1 DEF Held, MemberTypes
<1>3. kept[d] = {<<q[i].from, q[i].type, q[i].call>> : i \in DOMAIN q}
  BY DEF kept, Keeps
<1>4. HeardOf(d, c) = {q[i].from : i \in {j \in DOMAIN q : q[j].call = c}}
  BY DEF HeardOf, Replay
<1> HIDE DEF q
<1>5. HeardOf(d, c) \in SUBSET Device
  BY <1>2, <1>4
<1>6. ASSUME NEW p \in Device, p \in HeardOf(d, c)
      PROVE  \E t \in MemberTypes : <<p, t, c>> \in kept[d]
  <2>1. PICK i \in DOMAIN q : q[i].call = c /\ p = q[i].from
    BY <1>4, <1>6
  <2>2. <<p, q[i].type, c>> \in kept[d] /\ q[i].type \in MemberTypes
    BY <1>2, <1>3, <2>1
  <2> QED
    BY <2>2
<1>7. ASSUME NEW p \in Device, NEW t \in MemberTypes, <<p, t, c>> \in kept[d]
      PROVE  p \in HeardOf(d, c)
  <2>1. PICK i \in DOMAIN q : <<p, t, c>> = <<q[i].from, q[i].type, q[i].call>>
    BY <1>3, <1>7
  <2>2. q[i].call = c /\ q[i].from = p
    BY <2>1
  <2> QED
    BY <1>4, <2>2
<1> QED
  BY <1>5, <1>6, <1>7

LEMMA AnswersSay ==
  ASSUME TypeOK, NEW d \in Device, NEW p \in Device, NEW c \in Device
  PROVE  Says(Answers(d, p, c)) = IF <<p, "join", c>> \in kept[d] THEN {<<"here", c>>} ELSE {}
<1> DEFINE q == held[d]
           joins == {i \in Replay(d, c) : q[i].from = p /\ q[i].type = "join"}
           m == Sig("here", c, {})
<1>1. q \in Seq(Held) /\ DOMAIN q = 1 .. Len(q) /\ Len(q) \in Nat
  <2>1. q \in Seq(Held)
    BY DEF TypeOK, Held
  <2> HIDE DEF q
  <2> QED
    BY <2>1
<1>2. joins = {i \in DOMAIN q : q[i].call = c /\ q[i].from = p /\ q[i].type = "join"}
  BY DEF Replay
<1>3. kept[d] = {<<q[i].from, q[i].type, q[i].call>> : i \in DOMAIN q}
  BY DEF kept, Keeps
<1>4. Answers(d, p, c) = [i \in 1..Cardinality(joins) |-> m]
  BY DEF Answers
<1>5. m \in Signal /\ m.type = "here" /\ m.call = c
  BY DEF Sig, Signal
<1> HIDE DEF q, m
<1>6. joins # {} <=> <<p, "join", c>> \in kept[d]
  <2>1. ASSUME joins # {} PROVE <<p, "join", c>> \in kept[d]
    <3>1. PICK i \in DOMAIN q : q[i].call = c /\ q[i].from = p /\ q[i].type = "join"
      BY <1>2, <2>1
    <3> QED
      BY <1>3, <3>1
  <2>2. ASSUME <<p, "join", c>> \in kept[d] PROVE joins # {}
    <3>1. PICK i \in DOMAIN q : <<p, "join", c>> = <<q[i].from, q[i].type, q[i].call>>
      BY <1>3, <2>2
    <3>2. q[i].call = c /\ q[i].from = p /\ q[i].type = "join"
      BY <3>1
    <3> QED
      BY <1>2, <3>2
  <2> QED
    BY <2>1, <2>2
<1>7. joins \subseteq 1 .. Len(q)
  BY <1>1, <1>2
<1> HIDE DEF joins
<1>8. IsFiniteSet(joins)
  <2>1. IsFiniteSet(1 .. Len(q))
    BY <1>1, FS_Interval
  <2> QED
    BY <1>7, <2>1, FS_Subset
<1>9. Cardinality(joins) \in Nat /\ (Cardinality(joins) # 0 <=> joins # {})
  BY <1>8, FS_CardinalityType, FS_EmptySet
<1>10. Says(<<m>>) = {<<"here", c>>}
  BY <1>5, SaysOne DEF MemberTypes
<1>11. CASE joins # {}
  <2>1. Says(Answers(d, p, c)) = Says(<<m>>)
    BY <1>4, <1>5, <1>9, <1>11, SaysCopies
  <2> QED
    BY <1>6, <1>10, <1>11, <2>1
<1>12. CASE joins = {}
  <2>1. Cardinality(joins) = 0
    BY <1>9, <1>12
  <2>2. [i \in 1..0 |-> m] = <<>>
    OBVIOUS
  <2>3. Answers(d, p, c) = <<>>
    BY <1>4, <2>1, <2>2
  <2> QED
    BY <1>6, <1>12, <2>3, SaysNothing
<1> QED
  BY <1>11, <1>12

-----------------------------------------------------------------------------
(* What the steps do to the three sets.  Each step is one of four: d enters *)
(* a call, a signal finds its receiver in the call it is about, a signal is *)
(* held, or nobody comes (people may go, legs close, what is held be lost). *)

Entering(d, c, told) ==
    /\ c \in Device /\ told \in SUBSET Device
    /\ call' = [call EXCEPT ![d] = c]
    /\ greeted' = [greeted EXCEPT ![d] = told]
    /\ visits' = [visits EXCEPT ![d][c] = IF visits[d][c] = 0 THEN 1 ELSE 2]
    /\ \A x, y \in Device : way'[x][y] = way[x][y] \cup
           IF x = d
           THEN (IF y \in told THEN {<<"join", c>>} ELSE {})
                \cup (IF <<y, "join", c>> \in kept[d] THEN {<<"here", c>>} ELSE {})
           ELSE {}
    /\ \A x \in Device : kept'[x] = IF x = d THEN {} ELSE kept[x]
    /\ \A x, y \in Device : tie'[x][y] = tie[x][y] \cup
           IF x = d /\ Rank[d] < Rank[y] /\ (\E t \in MemberTypes : <<y, t, c>> \in kept[d])
           THEN {c} ELSE {}
    /\ stale' = stale \/ stale' = stale + 1
    /\ stale' = stale => \A p, k \in Device : \A t \in MemberTypes :
           <<p, t, k>> \in kept[d] => k = c

Meeting(s, d, t, c) ==
    /\ t \in {"join", "here"} /\ c \in Device /\ call[d] = c
    /\ <<t, c>> \in way[s][d]
    /\ t = "join" => <<"here", c>> \in way'[d][s]
    /\ \A x, y \in Device :
        /\ way'[x][y] \subseteq way[x][y] \cup
               (IF x = d /\ y = s /\ t = "join" THEN {<<"here", c>>} ELSE {})
        /\ way[x][y] \subseteq way'[x][y] \cup (IF x = s /\ y = d THEN {<<t, c>>} ELSE {})
        /\ tie'[x][y] = tie[x][y] \cup
               IF x = d /\ y = s /\ line[d][s] = NoCall /\ Rank[d] < Rank[s] THEN {c} ELSE {}
    /\ kept' = kept
    /\ UNCHANGED <<call, past, stale>>

Holding(s, d, t, c) ==
    /\ t \in {"join", "here"} /\ c \in Device /\ call[d] # c
    /\ <<t, c>> \in way[s][d]
    /\ \A x, y \in Device :
        /\ way'[x][y] \subseteq way[x][y]
        /\ way[x][y] \subseteq way'[x][y] \cup (IF x = s /\ y = d THEN {<<t, c>>} ELSE {})
    /\ \A x \in Device : x # d => kept'[x] = kept[x]
    /\ kept'[d] \subseteq kept[d] \cup {<<s, t, c>>}
    /\ <<s, t, c>> \in kept'[d]
    /\ stale' = stale \/ stale' = stale + 1
    /\ stale' = stale => kept[d] \subseteq kept'[d]
    /\ \A x, y \in Device : tie'[x][y] = tie[x][y]
    /\ UNCHANGED <<call, past>>

NobodyComes ==
    /\ \A x \in Device : call'[x] = call[x] \/ call'[x] = None
    /\ UNCHANGED past
    /\ \A x, y, c \in Device :
        /\ <<"join", c>> \in way'[x][y] <=> <<"join", c>> \in way[x][y]
        /\ <<"here", c>> \in way'[x][y] <=> <<"here", c>> \in way[x][y]
        /\ <<"leave", c>> \in way'[x][y] =>
               <<"leave", c>> \in way[x][y] \/ (call[x] = c /\ call'[x] = None)
    /\ \A x, y \in Device : tie'[x][y] = tie[x][y]
    /\ \A x \in Device : kept'[x] \subseteq kept[x]
    /\ stale' = stale \/ stale' = stale + 1
    /\ stale' = stale => \A x \in Device : kept'[x] = kept[x]

LEMMA CallsAppended ==
  ASSUME NEW q \in Seq(Leg), NEW l \in Leg
  PROVE  Calls(Append(q, l)) = Calls(q) \cup {l.call}
<1> DEFINE r == Append(q, l)
<1>1. /\ Len(q) \in Nat /\ DOMAIN q = 1 .. Len(q) /\ DOMAIN r = 1 .. Len(q) + 1
      /\ r[Len(q) + 1] = l /\ \A i \in 1 .. Len(q) : r[i] = q[i]
  OBVIOUS
<1> HIDE DEF r
<1>2. DOMAIN r = DOMAIN q \cup {Len(q) + 1} /\ \A i \in DOMAIN q : r[i] = q[i]
  BY <1>1
<1>3. Calls(r) = Calls(q) \cup {l.call}
  BY <1>1, <1>2 DEF Calls
<1> QED
  BY <1>3 DEF r

LEMMA DialledTie ==
  ASSUME NEW lg \in Legs, NEW d \in Device, NEW P, NEW c \in Device,
         NEW new, new = Dialled(lg, d, P, c)
  PROVE  \A x, y \in Device : \A k : k \in Calls(new[x][y])
             <=> k \in Calls(lg[x][y]) \/ (x = d /\ y \in P /\ k = c)
<1> TAKE x, y \in Device
<1> DEFINE l == [call |-> c, near |-> TRUE, far |-> "coming"]
<1>1. l \in Leg /\ l.call = c
  BY DEF Leg
<1>2. new[x][y] = IF x = d /\ y \in P THEN Append(lg[x][y], l) ELSE lg[x][y]
  BY DEF Dialled, Legs
<1>3. lg[x][y] \in Seq(Leg)
  BY Sequenced
<1> HIDE DEF l
<1>4. CASE x = d /\ y \in P
  <2>1. Calls(Append(lg[x][y], l)) = Calls(lg[x][y]) \cup {l.call}
    BY <1>1, <1>3, CallsAppended
  <2> QED
    BY <1>1, <1>2, <1>4, <2>1
<1>5. CASE ~(x = d /\ y \in P)
  BY <1>2, <1>5
<1> QED
  BY <1>4, <1>5

LEMMA ClosedTie ==
  ASSUME NEW lg \in Legs, NEW new, OnlyClosed(lg, new)
  PROVE  \A x, y \in Device : Calls(new[x][y]) = Calls(lg[x][y])
  BY DEF OnlyClosed, Calls

LEMMA TieIs == \A x, y \in Device : tie[x][y] = Calls(leg[x][y]) /\ tie'[x][y] = Calls(leg'[x][y])
  BY DEF tie

LEMMA KeptIs == \A x \in Device : kept[x] = Keeps(held[x]) /\ kept'[x] = Keeps(held'[x])
  BY DEF kept

LEMMA KeptEmptied ==
  ASSUME held \in [Device -> Seq(Held)], NEW d \in Device, held' = [held EXCEPT ![d] = <<>>]
  PROVE  \A x \in Device : kept'[x] = IF x = d THEN {} ELSE kept[x]
<1> TAKE x \in Device
<1>1. kept'[x] = Keeps(held'[x]) /\ kept[x] = Keeps(held[x])
  BY KeptIs
<1>2. held'[x] = IF x = d THEN <<>> ELSE held[x]
  OBVIOUS
<1>3. CASE x = d
  BY <1>1, <1>2, <1>3, KeepsNothing
<1>4. CASE x # d
  BY <1>1, <1>2, <1>4
<1> QED
  BY <1>3, <1>4

LEMMA HungThenDialledTie ==
  ASSUME leg \in Legs, NEW hung \in Legs, OnlyClosed(leg, hung), NEW d \in Device,
         NEW P, NEW c \in Device, leg' = Dialled(hung, d, P, c),
         NEW x \in Device, NEW y \in Device
  PROVE  tie'[x][y] = tie[x][y] \cup IF x = d /\ y \in P THEN {c} ELSE {}
<1>1. tie[x][y] = Calls(leg[x][y]) /\ tie'[x][y] = Calls(leg'[x][y])
  BY TieIs
<1>2. Calls(hung[x][y]) = Calls(leg[x][y])
  BY ClosedTie
<1>3. \A k : k \in Calls(leg'[x][y]) <=>
                k \in Calls(hung[x][y]) \/ (x = d /\ y \in P /\ k = c)
  BY DialledTie
<1> QED
  BY <1>1, <1>2, <1>3

LEMMA SeatsTakenEnter ==
  ASSUME TypeOK, LegsInv, NEW d \in Device, NEW c \in Device, NEW people,
         NEW told \in SUBSET Device, NEW out \in [Device -> Seq(Signal)],
         \A p \in Device : Says(out[p]) = IF p \in told THEN {<<"join", c>>} ELSE {},
         TakeSeats(d, c, people, told, out)
  PROVE  Entering(d, c, told)
<1> DEFINE dial == {p \in HeardOf(d, c) : ShouldPlaceCallTo(d, p)}
           o == [p \in Device |-> out[p] \o Answers(d, p, c)]
<1>1. /\ call' = [call EXCEPT ![d] = c]
      /\ greeted' = [greeted EXCEPT ![d] = told]
      /\ visits' = [visits EXCEPT ![d][c] = IF visits[d][c] = 0 THEN 1 ELSE 2]
      /\ held' = [held EXCEPT ![d] = <<>>]
      /\ mail' = Sent(d, o)
      /\ leg' = Dialled(Hung(d, Device), d, dial, c)
  BY DEF TakeSeats
<1>2. \A p \in Device : p \in dial <=>
          Rank[d] < Rank[p] /\ \E t \in MemberTypes : <<p, t, c>> \in kept[d]
  BY HeardOfIsKept DEF ShouldPlaceCallTo
<1>3. o \in [Device -> Seq(Signal)]
  BY AnswersAreMail, Behind
<1>4. ASSUME NEW p \in Device
      PROVE  Says(o[p]) = (IF p \in told THEN {<<"join", c>>} ELSE {})
                \cup (IF <<p, "join", c>> \in kept[d] THEN {<<"here", c>>} ELSE {})
  <2>1. Answers(d, p, c) \in Seq(Signal) /\ out[p] \in Seq(Signal)
    BY AnswersAreMail
  <2>2. Says(out[p] \o Answers(d, p, c)) = Says(out[p]) \cup Says(Answers(d, p, c))
    BY <2>1, SaysBehind
  <2> QED
    BY <2>2, AnswersSay
<1> HIDE DEF dial, o
<1>5. \A x, y \in Device : way'[x][y] = IF x = d THEN way[x][y] \cup Says(o[y]) ELSE way[x][y]
  <2>1. mail \in Mail
    BY DEF TypeOK, Mail
  <2>2. mail' = Sent(d, o)
    BY <1>1
  <2> QED
    BY <1>3, <2>1, <2>2, WaySent
<1>6. \A x, y \in Device : way'[x][y] = way[x][y] \cup
           IF x = d
           THEN (IF y \in told THEN {<<"join", c>>} ELSE {})
                \cup (IF <<y, "join", c>> \in kept[d] THEN {<<"here", c>>} ELSE {})
           ELSE {}
  BY <1>4, <1>5
<1>7. \A x \in Device : kept'[x] = IF x = d THEN {} ELSE kept[x]
  BY <1>1, KeptEmptied DEF TypeOK, Held
<1>8. \A x, y \in Device : tie'[x][y] = tie[x][y] \cup
           IF x = d /\ Rank[d] < Rank[y] /\ (\E t \in MemberTypes : <<y, t, c>> \in kept[d])
           THEN {c} ELSE {}
  <2>1. leg \in Legs
    BY DEF TypeOK, Legs
  <2>2. Hung(d, Device) \in Legs /\ OnlyClosed(leg, Hung(d, Device))
    BY <2>1, HungLegs, HungOnlyCloses
  <2>5. ASSUME NEW x \in Device, NEW y \in Device
        PROVE  tie'[x][y] = tie[x][y] \cup IF x = d /\ y \in dial THEN {c} ELSE {}
    BY <1>1, <2>1, <2>2, HungThenDialledTie
  <2> QED
    BY <1>2, <2>5
<1>9. /\ stale' = stale \/ stale' = stale + 1
      /\ stale' = stale => \A i \in DOMAIN held[d] : held[d][i].call = c
  <2>1. stale \in Nat
    BY DEF TypeOK
  <2> QED
    BY <2>1 DEF TakeSeats
<1>10. ASSUME stale' = stale, NEW p \in Device, NEW k \in Device, NEW t \in MemberTypes,
              <<p, t, k>> \in kept[d]
       PROVE  k = c
  <2>1. <<p, t, k>> \in Keeps(held[d])
    BY <1>10, KeptIs
  <2>2. PICK i \in DOMAIN held[d] : <<p, t, k>> = <<held[d][i].from, held[d][i].type, held[d][i].call>>
    BY <2>1 DEF Keeps
  <2> QED
    BY <1>9, <1>10, <2>2
<1> QED
  BY <1>1, <1>6, <1>7, <1>8, <1>9, <1>10 DEF Entering

LEMMA BeginningEnters ==
  ASSUME TypeOK, LegsInv, NEW d \in Device, NEW plan \in Plan, Begin(d, plan)
  PROVE  Entering(d, plan.call, {})
<1> DEFINE m == Sig("invite", plan.call, plan.roster \cup {d})
           out == [p \in Device |-> IF p \in plan.roster \ plan.told THEN <<m>> ELSE <<>>]
<1>1. plan.call \in Device /\ plan.roster \in SUBSET Device
  BY DEF Plan
<1>2. m \in Signal /\ m.type = "invite"
  BY <1>1 DEF Sig, Signal
<1>3. TakeSeats(d, plan.call, plan.roster, {}, out)
  BY DEF Begin
<1> HIDE DEF m
<1>4. out \in [Device -> Seq(Signal)]
  BY <1>2, Single, Nothing
<1>5. Says(<<m>>) = {}
  BY <1>2, SaysOne DEF MemberTypes
<1>6. \A p \in Device : Says(out[p]) = {}
  BY <1>5, SaysNothing
<1> HIDE DEF out
<1>7. \A p \in Device : Says(out[p]) = IF p \in {} THEN {<<"join", plan.call>>} ELSE {}
  BY <1>6
<1> QED
  BY <1>1, <1>3, <1>4, <1>7, SeatsTakenEnter

\* Whom a newcomer tells.
Told(d, plan) == IF Shared THEN Others(d) ELSE plan.roster \ {d}

LEMMA JoiningEnters ==
  ASSUME TypeOK, LegsInv, NEW d \in Device, NEW plan \in Plan, Enter(d, plan)
  PROVE  Entering(d, plan.call, Told(d, plan))
<1> DEFINE m == Sig("join", plan.call, {})
           told == Told(d, plan)
           out == [p \in Device |-> IF p \in told THEN <<m>> ELSE <<>>]
<1>1. plan.call \in Device /\ plan.roster \in SUBSET Device
  BY DEF Plan
<1>2. m \in Signal /\ m.type = "join" /\ m.call = plan.call
  BY <1>1 DEF Sig, Signal
<1>3. TakeSeats(d, plan.call, plan.roster, told, out) /\ told \in SUBSET Device
  BY <1>1 DEF Enter, Told, Others
<1> HIDE DEF m, told
<1>4. out \in [Device -> Seq(Signal)]
  BY <1>2, Single, Nothing
<1>5. Says(<<m>>) = {<<"join", plan.call>>}
  BY <1>2, SaysOne DEF MemberTypes
<1>6. \A p \in Device : Says(out[p]) = IF p \in told THEN {<<"join", plan.call>>} ELSE {}
  BY <1>5, SaysNothing
<1> HIDE DEF out
<1>7. Entering(d, plan.call, told)
  BY <1>1, <1>3, <1>4, <1>6, SeatsTakenEnter
<1> QED
  BY <1>7 DEF told

LEMMA MemberHeard ==
  ASSUME TypeOK, LegsInv, NEW s \in Device, NEW d \in Device, HearMember(s, d)
  PROVE  LET m == Head(mail[s][d]) IN
         \/ Meeting(s, d, m.type, m.call) /\ Connect(d, s) /\ UNCHANGED <<call, past>>
         \/ Holding(s, d, m.type, m.call) /\ UNCHANGED <<call, past, line, leg>>
<1> DEFINE m == Head(mail[s][d])
<1>1. mail \in Mail /\ mail[s][d] # <<>> /\ m.type \in {"join", "here"}
  BY DEF HearMember, NextIs, TypeOK, Mail
<1>2. m \in Signal /\ m.call \in Device
  <2>1. m \in Signal
    BY <1>1, Taken DEF Mail
  <2> QED
    BY <2>1 DEF Signal
<1>3. Says(<<m>>) = {<<m.type, m.call>>}
  BY <1>1, <1>2, SaysOne DEF MemberTypes
<1>4. UNCHANGED <<call, past>>
  BY DEF HearMember
<1>5. CASE call[d] = m.call
  <2> DEFINE out == Reply(d, m)
  <2>1. Took(s, d, out) /\ Connect(d, s)
    BY <1>5 DEF HearMember
  <2>2. out \in Seq(Signal) /\ Says(out) = IF m.type = "join" THEN {<<"here", m.call>>} ELSE {}
    <3>1. Sig("here", call[d], {}) \in Signal
      BY <1>2, <1>5 DEF Sig, Signal
    <3>2. Sig("here", call[d], {}).type = "here" /\ Sig("here", call[d], {}).call = m.call
      BY <1>5 DEF Sig
    <3>3. Says(<<Sig("here", call[d], {})>>) = {<<"here", m.call>>}
      BY <3>1, <3>2, SaysOne DEF MemberTypes
    <3> QED
      BY <3>1, <3>3, Single, Nothing, SaysNothing DEF Reply
  <2> HIDE DEF m, out
  <2>3. /\ Says(<<m>>) \subseteq way[s][d]
        /\ Says(out) \subseteq way'[d][s]
        /\ \A x, y \in Device :
            /\ way'[x][y] \subseteq way[x][y] \cup (IF x = d /\ y = s THEN Says(out) ELSE {})
            /\ way[x][y] \subseteq way'[x][y] \cup (IF x = s /\ y = d THEN Says(<<m>>) ELSE {})
    BY <1>1, <2>1, <2>2, WayTook DEF m
  <2>4. ASSUME NEW x \in Device, NEW y \in Device
        PROVE  /\ way'[x][y] \subseteq way[x][y] \cup
                      (IF x = d /\ y = s /\ m.type = "join" THEN {<<"here", m.call>>} ELSE {})
               /\ way[x][y] \subseteq way'[x][y] \cup
                      (IF x = s /\ y = d THEN {<<m.type, m.call>>} ELSE {})
    BY <1>3, <2>2, <2>3
  <2>5. ASSUME NEW x \in Device, NEW y \in Device
        PROVE  tie'[x][y] = tie[x][y] \cup
                   IF x = d /\ y = s /\ line[d][s] = NoCall /\ Rank[d] < Rank[s]
                   THEN {m.call} ELSE {}
    <3>1. CASE line[d][s] = NoCall /\ Rank[d] < Rank[s]
      <4>1. leg' = Dialled(leg, d, {s}, m.call)
        BY <1>5, <2>1, <3>1 DEF Connect, ShouldPlaceCallTo
      <4>2. leg \in Legs
        BY DEF TypeOK, Legs
      <4>3. \A k : k \in Calls(leg'[x][y])
                <=> k \in Calls(leg[x][y]) \/ (x = d /\ y \in {s} /\ k = m.call)
        BY <1>2, <4>1, <4>2, DialledTie
      <4>4. tie[x][y] = Calls(leg[x][y]) /\ tie'[x][y] = Calls(leg'[x][y])
        BY TieIs
      <4> QED
        BY <3>1, <4>3, <4>4
    <3>2. CASE ~(line[d][s] = NoCall /\ Rank[d] < Rank[s])
      <4>1. leg' = leg
        BY <2>1, <3>2 DEF Connect, ShouldPlaceCallTo
      <4> QED
        BY <3>2, <4>1, TieIs
    <3> QED
      BY <3>1, <3>2
  <2>6. kept' = kept /\ stale' = stale
    BY <2>1 DEF Connect, kept
  <2>7. <<m.type, m.call>> \in way[s][d]
    BY <1>3, <2>3
  <2>8. m.type = "join" => <<"here", m.call>> \in way'[d][s]
    BY <2>2, <2>3
  <2>9. m.type \in {"join", "here"}
    BY <1>1 DEF m
  <2>10. Meeting(s, d, m.type, m.call)
    BY <1>2, <1>4, <1>5, <2>4, <2>5, <2>6, <2>7, <2>8, <2>9 DEF Meeting, m
  <2> QED
    BY <1>4, <2>1, <2>10 DEF m
<1>6. CASE call[d] # m.call
  <2>1. Took(s, d, <<>>) /\ Hold(d, s, m)
    BY <1>6 DEF HearMember
  <2>2. /\ \A x \in Device : x # d => kept'[x] = kept[x]
        /\ kept'[d] \subseteq kept[d] \cup {<<s, m.type, m.call>>}
        /\ <<s, m.type, m.call>> \in kept'[d]
        /\ stale' = stale \/ stale' = stale + 1
        /\ stale' = stale => kept[d] \subseteq kept'[d]
    BY <1>1, <1>2, <2>1, KeptHeld
  <2>3. line' = line /\ leg' = leg
    BY <2>1 DEF Hold
  <2> HIDE DEF m
  <2>4. <<>> \in Seq(Signal) /\ Says(<<>>) = {}
    BY Nothing, SaysNothing
  <2>5. /\ Says(<<m>>) \subseteq way[s][d]
        /\ \A x, y \in Device :
            /\ way'[x][y] \subseteq way[x][y] \cup (IF x = d /\ y = s THEN Says(<<>>) ELSE {})
            /\ way[x][y] \subseteq way'[x][y] \cup (IF x = s /\ y = d THEN Says(<<m>>) ELSE {})
    BY <1>1, <2>1, <2>4, WayTook DEF m
  <2>6. ASSUME NEW x \in Device, NEW y \in Device
        PROVE  /\ way'[x][y] \subseteq way[x][y]
               /\ way[x][y] \subseteq way'[x][y] \cup
                      (IF x = s /\ y = d THEN {<<m.type, m.call>>} ELSE {})
    BY <1>3, <2>4, <2>5
  <2>7. \A x, y \in Device : tie'[x][y] = tie[x][y]
    BY <2>3, TieIs
  <2>8. <<m.type, m.call>> \in way[s][d] /\ m.type \in {"join", "here"}
    BY <1>1, <1>3, <2>5 DEF m
  <2>9. Holding(s, d, m.type, m.call)
    BY <1>2, <1>4, <1>6, <2>2, <2>6, <2>7, <2>8 DEF Holding, m
  <2> QED
    BY <1>4, <2>3, <2>9 DEF m
<1> QED
  BY <1>5, <1>6

\* Nobody comes when neither a call nor a leg changes and the letters under way
\* about members are the same.
LEMMA NothingMoved ==
  ASSUME UNCHANGED <<call, past, leg, held, stale>>,
         \A x, y \in Device : way'[x][y] = way[x][y]
  PROVE  NobodyComes
<1>1. \A x, y \in Device : tie'[x][y] = tie[x][y]
  BY TieIs
<1>2. \A x \in Device : kept'[x] = kept[x]
  BY KeptIs
<1> QED
  BY <1>1, <1>2 DEF NobodyComes

LEMMA SameMail ==
  ASSUME UNCHANGED mail
  PROVE  \A x, y \in Device : way'[x][y] = way[x][y]
  BY DEF way

\* An invitation is no word of a member.
LEMMA NothingSaid ==
  ASSUME mail \in Mail, NEW d \in Device, NEW out \in [Device -> Seq(Signal)],
         mail' = Sent(d, out), \A p \in Device : Says(out[p]) = {}
  PROVE  \A x, y \in Device : way'[x][y] = way[x][y]
<1>1. \A x, y \in Device : way'[x][y] = IF x = d THEN way[x][y] \cup Says(out[y])
                                          ELSE way[x][y]
  BY WaySent
<1> TAKE x, y \in Device
<1>2. way'[x][y] = IF x = d THEN way[x][y] \cup Says(out[y]) ELSE way[x][y]
  BY <1>1
<1>3. Says(out[y]) = {}
  OBVIOUS
<1> QED
  BY <1>2, <1>3

LEMMA NothingTaken ==
  ASSUME mail \in Mail, NEW s \in Device, NEW d \in Device, mail[s][d] # <<>>,
         Took(s, d, <<>>), Head(mail[s][d]).type \notin MemberTypes
  PROVE  \A x, y \in Device : way'[x][y] = way[x][y]
<1> DEFINE m == Head(mail[s][d])
<1>1. <<>> \in Seq(Signal) /\ Says(<<>>) = {}
  BY Nothing, SaysNothing
<1>2. m \in Signal
  BY Taken DEF Mail
<1> HIDE DEF m
<1>3. Says(<<m>>) = {}
  BY <1>2, SaysOne DEF m
<1>4. \A x, y \in Device :
            /\ way'[x][y] \subseteq way[x][y] \cup (IF x = d /\ y = s THEN Says(<<>>) ELSE {})
            /\ way[x][y] \subseteq way'[x][y] \cup (IF x = s /\ y = d THEN Says(<<m>>) ELSE {})
  BY <1>1, WayTook DEF m
<1> QED
  BY <1>1, <1>3, <1>4

LEMMA AskingMovesNothing ==
  ASSUME TypeOK, NEW d \in Device, NEW people \in SUBSET Device,
         StartCall(d, people) \/ GrowPair(d, people) \/ AddPeople(d, people)
  PROVE  NobodyComes /\ UNCHANGED <<call, past, line, leg>>
<1>0. mail \in Mail
  BY DEF TypeOK, Mail
<1>1. CASE StartCall(d, people)
  BY <1>1, SameMail, NothingMoved DEF StartCall, mine
<1>2. CASE GrowPair(d, people)
  <2> DEFINE m == Sig("upgrade", d, people \cup {pair[d], d})
             q == [i \in 1..Routes |-> m]
             out == [p \in Device |-> IF p = pair[d] THEN q ELSE <<>>]
  <2>1. pair[d] \in Device
    BY <1>2 DEF GrowPair, TypeOK
  <2>2. m \in Signal /\ m.type = "upgrade"
    BY <2>1 DEF Sig, Signal
  <2>3. mail' = [mail EXCEPT ![d][pair[d]] = @ \o q]
    BY <1>2 DEF GrowPair
  <2> HIDE DEF m
  <2>4. q \in Seq(Signal)
    BY <2>2, RoutesIsNat, Copies
  <2>5. Says(<<m>>) = {}
    BY <2>2, SaysOne DEF MemberTypes
  <2>6. Says(q) = {}
    BY <2>2, <2>5, RoutesIsNat, SaysCopies
  <2> HIDE DEF q
  <2>7. ASSUME NEW x \in Device, NEW y \in Device PROVE way'[x][y] = way[x][y]
    <3>1. mail'[x][y] = IF x = d /\ y = pair[d] THEN mail[x][y] \o q ELSE mail[x][y]
      BY <1>0, <2>1, <2>3 DEF Mail
    <3>2. mail[x][y] \in Seq(Signal)
      BY <1>0 DEF Mail
    <3>3. Says(mail[x][y] \o q) = Says(mail[x][y]) \cup Says(q)
      BY <2>4, <3>2, SaysBehind
    <3>4. Says(mail'[x][y]) = Says(mail[x][y])
      BY <2>6, <3>1, <3>3
    <3> QED
      BY <3>4 DEF way
  <2>8. UNCHANGED <<call, past, line, leg, held, stale>>
    BY <1>2 DEF GrowPair, mine
  <2> QED
    BY <2>7, <2>8, NothingMoved
<1>3. CASE AddPeople(d, people)
  <2> DEFINE m == Sig("invite", call[d], roster[d] \cup people \cup {d})
             out == [p \in Device |-> IF p \in people THEN <<m>> ELSE <<>>]
  <2>1. call[d] \in Device
    BY <1>3 DEF AddPeople, Active, TypeOK
  <2>2. m \in Signal /\ m.type = "invite"
    BY <2>1 DEF Sig, Signal, TypeOK
  <2>3. mail' = Sent(d, out)
    BY <1>3 DEF AddPeople
  <2> HIDE DEF m
  <2>4. out \in [Device -> Seq(Signal)]
    BY <2>2, Single, Nothing
  <2>5. Says(<<m>>) = {}
    BY <2>2, SaysOne DEF MemberTypes
  <2>6. \A p \in Device : Says(out[p]) = {}
    BY <2>5, SaysNothing
  <2> HIDE DEF out
  <2>7. \A x, y \in Device : way'[x][y] = way[x][y]
    BY <1>0, <2>3, <2>4, <2>6, NothingSaid
  <2>8. UNCHANGED <<call, past, line, leg, held, stale>>
    BY <1>3 DEF AddPeople, bounds
  <2> QED
    BY <2>7, <2>8, NothingMoved
<1> QED
  BY <1>1, <1>2, <1>3

LEMMA InviteMovesNothing ==
  ASSUME TypeOK, NEW s \in Device, NEW d \in Device, HearInvite(s, d) \/ HearUpgrade(s, d)
  PROVE  NobodyComes /\ UNCHANGED <<call, past, line, leg>>
<1>1. /\ mail[s][d] # <<>> /\ Took(s, d, <<>>)
      /\ Head(mail[s][d]).type \in {"invite", "upgrade"}
  BY DEF HearInvite, HearUpgrade, NextIs
<1>2. mail \in Mail
  BY DEF TypeOK, Mail
<1>3. Head(mail[s][d]).type \notin MemberTypes
  BY <1>1 DEF MemberTypes
<1>4. \A x, y \in Device : way'[x][y] = way[x][y]
  BY <1>1, <1>2, <1>3, NothingTaken
<1>5. UNCHANGED <<call, past, line, leg, held, stale>>
  BY DEF HearInvite, HearUpgrade, mine, bounds
<1> QED
  BY <1>4, <1>5, NothingMoved

LEMMA SmallStepsMoveNothing ==
  ASSUME NEW d \in Device,
         \/ Accept(d) \/ CardGoes(d) \/ PairCloses(d) \/ HangUp(d) \/ LastPairFades(d)
  PROVE  NobodyComes /\ UNCHANGED <<call, past, line, leg>>
<1>1. UNCHANGED <<call, past, line, leg, held, stale, mail>>
  BY DEF Accept, CardGoes, PairCloses, HangUp, LastPairFades, mine, bounds
<1> QED
  BY <1>1, SameMail, NothingMoved

LEMMA HeldAreLost ==
  ASSUME TypeOK, NEW d \in Device, GoesStale(d)
  PROVE  NobodyComes /\ UNCHANGED <<call, past, line, leg>>
<1>1. /\ UNCHANGED <<call, past, line, leg, mail>> /\ stale' = stale + 1 /\ stale \in Nat
      /\ held' = [held EXCEPT ![d] = <<>>]
  BY DEF GoesStale, mine, TypeOK
<1>2. \A x \in Device : kept'[x] = IF x = d THEN {} ELSE kept[x]
  BY <1>1, KeptEmptied DEF TypeOK, Held
<1>3. stale' # stale
  BY <1>1
<1>4. \A x, y \in Device : way'[x][y] = way[x][y]
  BY <1>1, SameMail
<1>5. \A x, y \in Device : tie'[x][y] = tie[x][y]
  BY <1>1, TieIs
<1> QED
  BY <1>1, <1>2, <1>3, <1>4, <1>5 DEF NobodyComes

\* d closes what it holds to S, and perhaps ends its call.
HangsUp(d, S) ==
    /\ S \in SUBSET Device
    /\ OnlyClosed(Hung(d, S), leg')
    /\ \A x, y \in Device : ~(x = d /\ y \in S) /\ ~(y = d /\ x \in S)
           => leg'[x][y] = leg[x][y]
    /\ \A x, y \in Device : line'[x][y] = IF x = d /\ y \in S THEN NoCall ELSE line[x][y]
    /\ \A x \in Device : call'[x] = call[x] \/ (x = d /\ S = Device /\ call'[x] = None)
    /\ UNCHANGED past

LEMMA HungElsewhere ==
  ASSUME leg \in Legs, NEW d \in Device, NEW S, NEW x \in Device, NEW y \in Device,
         ~(x = d /\ y \in S), ~(y = d /\ x \in S)
  PROVE  Hung(d, S)[x][y] = leg[x][y]
<1>1. leg[x][y] \in Seq(Leg) /\ DOMAIN leg[x][y] = 1 .. Len(leg[x][y])
  BY Sequenced
<1>2. Hung(d, S)[x][y] = [n \in DOMAIN leg[x][y] |-> leg[x][y][n]]
  BY DEF Hung
<1> QED
  BY <1>1, <1>2

LEMMA ClearedHangsUp ==
  ASSUME TypeOK, LegsInv, NEW d \in Device, Cleared(d)
  PROVE  HangsUp(d, Device) /\ call' = [call EXCEPT ![d] = None]
<1>1. leg \in Legs
  BY DEF TypeOK, Legs
<1>2. leg' = Hung(d, Device)
  BY DEF Cleared
<1>3. Hung(d, Device) \in Legs
  BY <1>1, HungLegs
<1>4. OnlyClosed(Hung(d, Device), leg')
  BY <1>2, <1>3 DEF OnlyClosed
<1>5. \A x, y \in Device : ~(x = d /\ y \in Device) /\ ~(y = d /\ x \in Device)
           => leg'[x][y] = leg[x][y]
  BY <1>1, <1>2, HungElsewhere
<1>6. \A x, y \in Device : line'[x][y] = IF x = d /\ y \in Device THEN NoCall ELSE line[x][y]
  BY DEF Cleared, TypeOK
<1>7. \A x \in Device : call'[x] = call[x] \/ (x = d /\ Device = Device /\ call'[x] = None)
  BY DEF Cleared, TypeOK
<1> QED
  BY <1>4, <1>5, <1>6, <1>7 DEF Cleared, HangsUp

LEMMA DropHangsUp ==
  ASSUME TypeOK, LegsInv, NEW d \in Device, NEW p \in Device, Drop(d, p),
         UNCHANGED <<call, past>>, OnlyClosed(Hung(d, {p}), leg'),
         \A x, y \in Device : ~(x = d /\ y = p) /\ ~(y = d /\ x = p)
             => leg'[x][y] = Hung(d, {p})[x][y]
  PROVE  HangsUp(d, {p})
<1>1. leg \in Legs
  BY DEF TypeOK, Legs
<1>2. \A x, y \in Device : ~(x = d /\ y \in {p}) /\ ~(y = d /\ x \in {p})
           => leg'[x][y] = leg[x][y]
  <2> TAKE x, y \in Device
  <2> HAVE ~(x = d /\ y \in {p}) /\ ~(y = d /\ x \in {p})
  <2>1. leg'[x][y] = Hung(d, {p})[x][y]
    OBVIOUS
  <2>2. Hung(d, {p})[x][y] = leg[x][y]
    BY <1>1, HungElsewhere
  <2> QED
    BY <2>1, <2>2
<1>3. \A x, y \in Device : line'[x][y] = IF x = d /\ y \in {p} THEN NoCall ELSE line[x][y]
  BY DEF Drop, TypeOK
<1>4. \A x \in Device : call'[x] = call[x]
  OBVIOUS
<1> QED
  BY <1>2, <1>3, <1>4 DEF HangsUp

LEMMA HangingUpTies ==
  ASSUME TypeOK, LegsInv, NEW d \in Device, NEW S, HangsUp(d, S)
  PROVE  \A x, y \in Device : tie'[x][y] = tie[x][y]
<1>1. leg \in Legs /\ S \in SUBSET Device
  BY DEF TypeOK, Legs, HangsUp
<1>2. OnlyClosed(leg, Hung(d, S)) /\ OnlyClosed(Hung(d, S), leg')
  BY <1>1, HungOnlyCloses DEF HangsUp
<1>3. OnlyClosed(leg, leg')
  BY <1>2, ClosingsAddUp
<1> QED
  BY <1>1, <1>3, ClosedTie, TieIs

LEMMA EndsClose ==
  ASSUME TypeOK, LegsInv, NEW d \in Device, NEW p \in Device, NEW n
  PROVE  /\ NearCloses(d, p, n) => HangsUp(d, {p}) /\ UNCHANGED call /\ NobodyComes
         /\ FarCloses(d, p, n) => HangsUp(p, {d}) /\ UNCHANGED call /\ NobodyComes
<1>0. leg \in Legs
  BY DEF TypeOK, Legs
<1>1. ASSUME NEW e \in Device, NEW S \in SUBSET Device, HangsUp(e, S),
             UNCHANGED <<call, past, held, mail, stale>>
      PROVE  NobodyComes
  <2>1. \A x, y \in Device : tie'[x][y] = tie[x][y]
    BY <1>1, HangingUpTies
  <2>2. \A x, y \in Device : way'[x][y] = way[x][y]
    BY <1>1, SameMail
  <2>3. \A x \in Device : kept'[x] = kept[x]
    BY <1>1, KeptIs
  <2> QED
    BY <1>1, <2>1, <2>2, <2>3 DEF NobodyComes
<1>2. ASSUME NearCloses(d, p, n)
      PROVE  HangsUp(d, {p}) /\ UNCHANGED call /\ NobodyComes
  <2> DEFINE hung == Hung(d, {p})
  <2>1. Drop(d, p) /\ UNCHANGED <<call, past, held, mail, stale>>
    BY <1>2 DEF NearCloses, bounds
  <2>2. leg' = [hung EXCEPT ![d][p][n].near = FALSE] /\ hung \in Legs
    BY <1>0, <1>2, HungLegs DEF NearCloses
  <2>3. OnlyClosed(hung, leg')
    BY <1>2, EndCloses
  <2> HIDE DEF hung
  <2>4. \A x, y \in Device : ~(x = d /\ y = p) /\ ~(y = d /\ x = p) => leg'[x][y] = hung[x][y]
    BY <2>2 DEF Legs
  <2>5. HangsUp(d, {p})
    BY <2>1, <2>3, <2>4, DropHangsUp DEF hung
  <2> QED
    BY <1>1, <2>1, <2>5
<1>3. ASSUME FarCloses(d, p, n)
      PROVE  HangsUp(p, {d}) /\ UNCHANGED call /\ NobodyComes
  <2> DEFINE hung == Hung(p, {d})
  <2>1. Drop(p, d) /\ UNCHANGED <<call, past, held, mail, stale>>
    BY <1>3 DEF FarCloses, bounds
  <2>2. leg' = [hung EXCEPT ![d][p][n].far = "shut"] /\ hung \in Legs
    BY <1>0, <1>3, HungLegs DEF FarCloses
  <2>3. OnlyClosed(hung, leg')
    BY <1>3, EndCloses
  <2> HIDE DEF hung
  <2>4. \A x, y \in Device : ~(x = p /\ y = d) /\ ~(y = p /\ x = d) => leg'[x][y] = hung[x][y]
    BY <2>2 DEF Legs
  <2>5. HangsUp(p, {d})
    BY <2>1, <2>3, <2>4, DropHangsUp DEF hung
  <2> QED
    BY <1>1, <2>1, <2>5
<1> QED
  BY <1>2, <1>3

LEMMA LeaveTaken ==
  ASSUME TypeOK, LegsInv, NEW s \in Device, NEW d \in Device, HearLeave(s, d)
  PROVE  LET c == Head(mail[s][d]).call IN
         /\ NobodyComes
         /\ c \in Device /\ <<"leave", c>> \in way[s][d]
         /\ \/ UNCHANGED <<call, past, line, leg>>
            \/ call[d] = c /\ HangsUp(d, Device) /\ call' = [call EXCEPT ![d] = None]
            \/ call[d] = c /\ HangsUp(d, {s}) /\ UNCHANGED call
<1> DEFINE m == Head(mail[s][d])
<1>1. mail \in Mail /\ mail[s][d] # <<>> /\ m.type = "leave" /\ Took(s, d, <<>>)
  BY DEF HearLeave, NextIs, TypeOK, Mail
<1>2. m \in Signal /\ m.call \in Device
  <2>1. m \in Signal
    BY <1>1, Taken DEF Mail
  <2> QED
    BY <2>1 DEF Signal
<1>3. Says(<<m>>) = {<<"leave", m.call>>}
  BY <1>1, <1>2, SaysOne DEF MemberTypes
<1>4. UNCHANGED <<past, held, stale>>
  BY DEF HearLeave, bounds, mine, Cleared
<1>5. \/ UNCHANGED <<call, past, line, leg>>
      \/ call[d] = m.call /\ HangsUp(d, Device) /\ call' = [call EXCEPT ![d] = None]
      \/ call[d] = m.call /\ HangsUp(d, {s}) /\ UNCHANGED call
  <2>1. CASE call[d] # m.call
    BY <2>1 DEF HearLeave, mine
  <2>2. CASE call[d] = m.call /\ Cleared(d)
    BY <2>2, ClearedHangsUp
  <2>3. CASE call[d] = m.call /\ Drop(d, s) /\ leg' = Hung(d, {s}) /\ UNCHANGED <<call, roster, past>>
    <3>1. Hung(d, {s}) \in Legs
      BY HungLegs DEF TypeOK, Legs
    <3>2. OnlyClosed(Hung(d, {s}), leg')
      BY <2>3, <3>1 DEF OnlyClosed
    <3>3. \A x, y \in Device : ~(x = d /\ y = s) /\ ~(y = d /\ x = s)
             => leg'[x][y] = Hung(d, {s})[x][y]
      BY <2>3
    <3> QED
      BY <2>3, <3>2, <3>3, DropHangsUp
  <2> QED
    BY <2>1, <2>2, <2>3 DEF HearLeave
<1> HIDE DEF m
<1>6. <<>> \in Seq(Signal) /\ Says(<<>>) = {}
  BY Nothing, SaysNothing
<1>7. /\ Says(<<m>>) \subseteq way[s][d]
      /\ \A x, y \in Device :
            /\ way'[x][y] \subseteq way[x][y] \cup (IF x = d /\ y = s THEN Says(<<>>) ELSE {})
            /\ way[x][y] \subseteq way'[x][y] \cup (IF x = s /\ y = d THEN Says(<<m>>) ELSE {})
  BY <1>1, <1>6, WayTook DEF m
<1>8. ASSUME NEW x \in Device, NEW y \in Device, NEW c \in Device
      PROVE  /\ <<"join", c>> \in way'[x][y] <=> <<"join", c>> \in way[x][y]
             /\ <<"here", c>> \in way'[x][y] <=> <<"here", c>> \in way[x][y]
             /\ <<"leave", c>> \in way'[x][y] => <<"leave", c>> \in way[x][y]
  <2>1. way'[x][y] \subseteq way[x][y]
    BY <1>6, <1>7
  <2>2. way[x][y] \subseteq way'[x][y] \cup {<<"leave", m.call>>}
    BY <1>3, <1>7
  <2> QED
    BY <2>1, <2>2
<1>9. \A x, y \in Device : tie'[x][y] = tie[x][y]
  <2>1. CASE UNCHANGED leg
    BY <2>1, TieIs
  <2> QED
    BY <1>5, <2>1, HangingUpTies
<1>10. \A x \in Device : call'[x] = call[x] \/ call'[x] = None
  BY <1>5 DEF TypeOK
<1>11. \A x \in Device : kept'[x] = kept[x]
  BY <1>4, KeptIs
<1>12. NobodyComes
  BY <1>4, <1>8, <1>9, <1>10, <1>11 DEF NobodyComes
<1>13. <<"leave", m.call>> \in way[s][d]
  BY <1>3, <1>7
<1> QED
  BY <1>2, <1>5, <1>12, <1>13 DEF m

LEMMA GoingHangsUp ==
  ASSUME TypeOK, LegsInv, NEW d \in Device, Leave(d) \/ Reload(d)
  PROVE  NobodyComes /\ HangsUp(d, Device) /\ call' = [call EXCEPT ![d] = None]
<1>1. HangsUp(d, Device) /\ call' = [call EXCEPT ![d] = None]
  BY ClearedHangsUp DEF Leave, Reload
<1>2. \A x, y \in Device : tie'[x][y] = tie[x][y]
  BY <1>1, HangingUpTies
<1>3. /\ \A x \in Device : call'[x] = call[x] \/ call'[x] = None
      /\ call'[d] = None /\ UNCHANGED past
  BY <1>1 DEF TypeOK, HangsUp
<1>4. CASE Leave(d)
  <2> DEFINE m == Sig("leave", call[d], {})
             out == [p \in Device |-> IF p \in Audience(d) THEN <<m>> ELSE <<>>]
  <2>1. call[d] \in Device
    BY <1>4 DEF Leave, Active, TypeOK
  <2>2. m \in Signal /\ m.type = "leave" /\ m.call = call[d]
    BY <2>1 DEF Sig, Signal
  <2>3. mail' = Sent(d, out)
    BY <1>4 DEF Leave
  <2>4. held' = held /\ stale' = stale
    BY <1>4 DEF Leave
  <2> HIDE DEF m
  <2>5. out \in [Device -> Seq(Signal)]
    BY <2>2, Single, Nothing
  <2>6. Says(<<m>>) = {<<"leave", call[d]>>}
    BY <2>2, SaysOne DEF MemberTypes
  <2>7. \A p \in Device : Says(out[p]) \subseteq {<<"leave", call[d]>>}
    BY <2>6, SaysNothing
  <2>8. mail \in Mail
    BY DEF TypeOK, Mail
  <2> HIDE DEF out
  <2>9. \A x, y \in Device : way'[x][y] = IF x = d THEN way[x][y] \cup Says(out[y])
                                          ELSE way[x][y]
    BY <2>3, <2>5, <2>8, WaySent
  <2>10. ASSUME NEW x \in Device, NEW y \in Device, NEW c \in Device
         PROVE  /\ <<"join", c>> \in way'[x][y] <=> <<"join", c>> \in way[x][y]
                /\ <<"here", c>> \in way'[x][y] <=> <<"here", c>> \in way[x][y]
                /\ <<"leave", c>> \in way'[x][y] =>
                       <<"leave", c>> \in way[x][y] \/ (call[x] = c /\ call'[x] = None)
    <3>1. CASE x = d
      <4>1. way'[x][y] = way[x][y] \cup Says(out[y])
        BY <2>9, <3>1
      <4>2. Says(out[y]) \subseteq {<<"leave", call[d]>>}
        BY <2>7
      <4> QED
        BY <1>3, <3>1, <4>1, <4>2
    <3>2. CASE x # d
      BY <2>9, <3>2
    <3> QED
      BY <3>1, <3>2
  <2>11. \A x \in Device : kept'[x] = kept[x]
    BY <2>4, KeptIs
  <2>12. NobodyComes
    BY <1>2, <1>3, <2>4, <2>10, <2>11 DEF NobodyComes
  <2> QED
    BY <1>1, <2>12
<1>5. CASE Reload(d)
  <2>1. /\ held' = [held EXCEPT ![d] = <<>>] /\ mail' = mail
        /\ stale' = stale \/ stale' = stale + 1
        /\ held[d] # <<>> => stale' = stale + 1
    BY <1>5 DEF Reload
  <2>2. \A x, y \in Device : way'[x][y] = way[x][y]
    BY <2>1, SameMail
  <2>3. \A x \in Device : kept'[x] = IF x = d THEN {} ELSE kept[x]
    BY <2>1, KeptEmptied DEF TypeOK, Held
  <2>4. stale' = stale => kept[d] = {}
    <3>1. stale \in Nat
      BY DEF TypeOK
    <3>2. held[d] = <<>> => kept[d] = {}
      BY KeptIs, KeepsNothing
    <3> QED
      BY <2>1, <3>1, <3>2
  <2>5. NobodyComes
    BY <1>2, <1>3, <2>1, <2>2, <2>3, <2>4 DEF NobodyComes
  <2> QED
    BY <1>1, <2>5
<1> QED
  BY <1>4, <1>5

\* An offer arrives: at one leg, and where it is answered it takes the place of
\* the one that stood there.
Arriving(d, p, n) ==
    /\ n \in DOMAIN leg[d][p] /\ Rank[d] < Rank[p] /\ leg[d][p][n].far = "coming"
    /\ \A x, y \in Device : ~(x = d /\ y = p) => leg'[x][y] = leg[x][y]
    /\ DOMAIN leg'[d][p] = DOMAIN leg[d][p]
    /\ \A k \in DOMAIN leg[d][p] : k # n => leg'[d][p][k] = leg[d][p][k]
    /\ leg'[d][p][n].call = leg[d][p][n].call /\ leg'[d][p][n].near = leg[d][p][n].near
    /\ \/ /\ leg'[d][p][n].far = "open" /\ call[p] = leg[d][p][n].call
          /\ line' = [line EXCEPT ![p][d] = <<d, p, n>>]
       \/ /\ leg'[d][p][n].far = "ignored" /\ call[p] # leg[d][p][n].call
          /\ UNCHANGED line
    /\ UNCHANGED <<call, past>>

LEMMA OfferArrives ==
  ASSUME TypeOK, LegsInv, NEW d \in Device, NEW p \in Device, NEW n, LegArrives(d, p, n)
  PROVE  Arriving(d, p, n) /\ NobodyComes
<1>1. leg \in Legs /\ line \in Lines /\ UNCHANGED <<call, past, held, mail, stale>>
  BY DEF TypeOK, Legs, Lines, LegArrives, bounds
<1>2. n \in DOMAIN leg[d][p] /\ leg[d][p][n].far = "coming"
  BY DEF LegArrives
<1>3. leg[d][p] \in Seq(Leg) /\ DOMAIN leg[d][p] = 1 .. Len(leg[d][p]) /\ leg[d][p][n] \in Leg
  BY <1>1, <1>2, Sequenced
<1>4. Rank[d] < Rank[p]
  <2>1. leg[d][p] # <<>>
    BY <1>2, <1>3
  <2> QED
    BY <2>1 DEF LegsInv, Sound, OneWay
<1>5. PICK l \in Leg : /\ leg' = [leg EXCEPT ![d][p][n] = l]
                       /\ l.call = leg[d][p][n].call /\ l.near = leg[d][p][n].near
                       /\ \/ /\ l.far = "ignored" /\ call[p] # leg[d][p][n].call
                             /\ UNCHANGED line
                          \/ /\ l.far = "open" /\ call[p] = leg[d][p][n].call
                             /\ line' = [line EXCEPT ![p][d] = <<d, p, n>>]
  <2>1. CASE call[p] = leg[d][p][n].call
    <3> DEFINE l == [leg[d][p][n] EXCEPT !.far = "open"]
    <3>1. /\ leg' = [leg EXCEPT ![d][p][n] = l]
          /\ line' = [line EXCEPT ![p][d] = <<d, p, n>>]
      BY <2>1 DEF LegArrives
    <3>2. /\ l \in Leg /\ l.far = "open" /\ l.call = leg[d][p][n].call
          /\ l.near = leg[d][p][n].near
      BY <1>3 DEF Leg
    <3> HIDE DEF l
    <3> QED
      BY <2>1, <3>1, <3>2
  <2>2. CASE call[p] # leg[d][p][n].call
    <3> DEFINE l == [leg[d][p][n] EXCEPT !.far = "ignored"]
    <3>1. leg' = [leg EXCEPT ![d][p][n] = l] /\ UNCHANGED line
      BY <2>2 DEF LegArrives
    <3>2. /\ l \in Leg /\ l.far = "ignored" /\ l.call = leg[d][p][n].call
          /\ l.near = leg[d][p][n].near
      BY <1>3 DEF Leg
    <3> HIDE DEF l
    <3> QED
      BY <2>2, <3>1, <3>2
  <2> QED
    BY <2>1, <2>2
<1>6. \A x, y \in Device : ~(x = d /\ y = p) => leg'[x][y] = leg[x][y]
  BY <1>1, <1>5 DEF Legs
<1>7. /\ leg'[d][p][n] = l /\ DOMAIN leg'[d][p] = DOMAIN leg[d][p]
      /\ \A k \in DOMAIN leg[d][p] : k # n => leg'[d][p][k] = leg[d][p][k]
  BY <1>1, <1>2, <1>3, <1>5 DEF Legs
<1>8. Arriving(d, p, n)
  BY <1>1, <1>2, <1>4, <1>5, <1>6, <1>7 DEF Arriving
<1>9. \A x, y \in Device : Calls(leg'[x][y]) = Calls(leg[x][y])
  <2> TAKE x, y \in Device
  <2>1. CASE x = d /\ y = p
    <3>1. \A k \in DOMAIN leg[d][p] : leg'[d][p][k].call = leg[d][p][k].call
      BY <1>5, <1>7
    <3> QED
      BY <1>7, <2>1, <3>1 DEF Calls
  <2>2. CASE ~(x = d /\ y = p)
    BY <1>6, <2>2
  <2> QED
    BY <2>1, <2>2
<1>10. \A x, y \in Device : tie'[x][y] = tie[x][y]
  BY <1>9, TieIs
<1>11. \A x, y \in Device : way'[x][y] = way[x][y]
  BY <1>1, SameMail
<1>12. \A x \in Device : kept'[x] = kept[x]
  BY <1>1, KeptIs
<1>13. NobodyComes
  BY <1>1, <1>10, <1>11, <1>12 DEF NobodyComes
<1> QED
  BY <1>8, <1>13

\* The microphone: a call is entered, or nothing moves.
LEMMA MicrophoneEnters ==
  ASSUME TypeOK, LegsInv, NEW d \in Device, NEW i \in DOMAIN opening[d],
         MicOpens(d, i) \/ MicRefused(d, i) \/ Grown(d, i)
  PROVE  LET plan == opening[d][i] IN
         /\ plan \in Plan
         /\ \/ NobodyComes /\ UNCHANGED <<call, past, line, leg>>
            \/ plan.kind \in {"start", "grow"} /\ Begin(d, plan)
               /\ Entering(d, plan.call, {})
            \/ plan.kind = "join" /\ Enter(d, plan)
               /\ Entering(d, plan.call, Told(d, plan))
<1> DEFINE plan == opening[d][i]
<1>1. plan \in Plan
  BY PlanTaken DEF MicOpens, MicRefused, Grown
<1>2. CASE UNCHANGED <<mine, leg, held, mail, stale>>
  BY <1>1, <1>2, SameMail, NothingMoved DEF mine
<1>3. CASE plan.kind \in {"start", "grow"} /\ Begin(d, plan)
  BY <1>1, <1>3, BeginningEnters
<1>4. CASE plan.kind = "join" /\ Enter(d, plan)
  BY <1>1, <1>4, JoiningEnters
<1>5. \/ UNCHANGED <<mine, leg, held, mail, stale>>
      \/ plan.kind \in {"start", "grow"} /\ Begin(d, plan)
      \/ plan.kind = "join" /\ Enter(d, plan)
  BY DEF MicOpens, MicRefused, Grown, bounds
<1> QED
  BY <1>2, <1>3, <1>4, <1>5

-----------------------------------------------------------------------------
(* Visits.  Whoever is in a call, or is spoken of as one who was, entered   *)
(* it; who is back in a call it told others of leaving entered it twice.    *)

CallsAreVisits == \A d, c \in Device : call[d] = c => visits[d][c] # 0
SaidAreVisits ==
    \A s, d, c \in Device : \A t \in MemberTypes : <<t, c>> \in way[s][d] => visits[s][c] # 0
KeptAreVisits ==
    \A s, d, c \in Device : \A t \in MemberTypes : <<s, t, c>> \in kept[d] => visits[s][c] # 0
LegsAreVisits ==
    \A x, y, c \in Device : c \in tie[x][y] => visits[x][c] # 0 /\ visits[y][c] # 0
BackIsTwice ==
    \A s, d, c \in Device : <<"leave", c>> \in way[s][d] /\ call[s] = c => visits[s][c] = 2

Visited == CallsAreVisits /\ SaidAreVisits /\ KeptAreVisits /\ LegsAreVisits /\ BackIsTwice

LEMMA VisitedInit == Init => Visited
<1> SUFFICES ASSUME Init PROVE Visited
  OBVIOUS
<1>1. \A x, y \in Device : way[x][y] = {} /\ tie[x][y] = {} /\ kept[x] = {}
  <2> TAKE x, y \in Device
  <2>1. mail[x][y] = <<>> /\ leg[x][y] = <<>> /\ held[x] = <<>>
    BY DEF Init
  <2>2. Calls(<<>>) = {}
    <3>1. DOMAIN <<>> = {}
      OBVIOUS
    <3> QED
      BY <3>1 DEF Calls
  <2>3. way[x][y] = Says(mail[x][y]) /\ tie[x][y] = Calls(leg[x][y]) /\ kept[x] = Keeps(held[x])
    BY DEF way, tie, kept
  <2> QED
    BY <2>1, <2>2, <2>3, SaysNothing, KeepsNothing
<1>2. \A d \in Device : call[d] = None
  BY DEF Init
<1> QED
  BY <1>1, <1>2, NobodyIsNone
     DEF Visited, CallsAreVisits, SaidAreVisits, KeptAreVisits, LegsAreVisits, BackIsTwice

LEMMA VisitedWhenNobodyComes ==
  ASSUME TypeOK, Visited, NobodyComes
  PROVE  Visited'
<1>1. visits' = visits
  BY DEF NobodyComes, past
<1>2. ASSUME NEW x \in Device PROVE call'[x] = call[x] \/ call'[x] = None
  BY DEF NobodyComes
<1>3. ASSUME NEW x \in Device, NEW y \in Device, NEW c \in Device
      PROVE  /\ <<"join", c>> \in way'[x][y] => <<"join", c>> \in way[x][y]
             /\ <<"here", c>> \in way'[x][y] => <<"here", c>> \in way[x][y]
             /\ <<"leave", c>> \in way'[x][y] =>
                    <<"leave", c>> \in way[x][y] \/ (call[x] = c /\ call'[x] = None)
  BY DEF NobodyComes
<1>4. CallsAreVisits'
  BY <1>1, <1>2, NobodyIsNone DEF Visited, CallsAreVisits
<1>5. SaidAreVisits'
  <2> SUFFICES ASSUME NEW s \in Device, NEW d \in Device, NEW c \in Device,
                      NEW t \in MemberTypes, <<t, c>> \in way'[s][d]
               PROVE  visits[s][c] # 0
    BY <1>1 DEF SaidAreVisits
  <2>1. <<t, c>> \in way[s][d] \/ call[s] = c
    <3>1. CASE t = "join"
      BY <1>3, <3>1
    <3>2. CASE t = "here"
      BY <1>3, <3>2
    <3>3. CASE t = "leave"
      BY <1>3, <3>3
    <3> QED
      BY <3>1, <3>2, <3>3 DEF MemberTypes
  <2> QED
    BY <2>1 DEF Visited, SaidAreVisits, CallsAreVisits
<1>6. KeptAreVisits'
  BY <1>1 DEF Visited, KeptAreVisits, NobodyComes
<1>7. LegsAreVisits'
  BY <1>1 DEF Visited, LegsAreVisits, NobodyComes
<1>8. BackIsTwice'
  <2> SUFFICES ASSUME NEW s \in Device, NEW d \in Device, NEW c \in Device,
                      <<"leave", c>> \in way'[s][d], call'[s] = c
               PROVE  visits[s][c] = 2
    BY <1>1 DEF BackIsTwice
  <2>1. call'[s] # None /\ call[s] = c
    BY <1>2, NobodyIsNone
  <2>2. <<"leave", c>> \in way[s][d]
    BY <1>3, <2>1
  <2> QED
    BY <2>1, <2>2 DEF Visited, BackIsTwice
<1> QED
  BY <1>4, <1>5, <1>6, <1>7, <1>8 DEF Visited

LEMMA VisitedWhenHeard ==
  ASSUME TypeOK, Visited, NEW s \in Device, NEW d \in Device, NEW t, NEW c,
         Meeting(s, d, t, c) \/ Holding(s, d, t, c)
  PROVE  Visited'
<1>1. /\ visits' = visits /\ call' = call /\ c \in Device /\ t \in {"join", "here"}
      /\ <<t, c>> \in way[s][d]
  BY DEF Meeting, Holding, past
<1>2. visits[s][c] # 0
  BY <1>1 DEF Visited, SaidAreVisits, MemberTypes
<1>3. CallsAreVisits'
  BY <1>1 DEF Visited, CallsAreVisits
<1>4. ASSUME NEW x \in Device, NEW y \in Device, NEW k \in Device, NEW e \in MemberTypes,
             <<e, k>> \in way'[x][y]
      PROVE  <<e, k>> \in way[x][y] \/ (e = "here" /\ call[x] = k)
  BY <1>4 DEF Meeting, Holding
<1>5. SaidAreVisits'
  BY <1>1, <1>4 DEF Visited, SaidAreVisits, CallsAreVisits
<1>6. KeptAreVisits'
  <2> SUFFICES ASSUME NEW x \in Device, NEW y \in Device, NEW k \in Device,
                      NEW e \in MemberTypes, <<x, e, k>> \in kept'[y]
               PROVE  visits[x][k] # 0
    BY <1>1 DEF KeptAreVisits
  <2>1. <<x, e, k>> \in kept[y] \/ (x = s /\ k = c)
    <3>1. CASE Meeting(s, d, t, c)
      BY <3>1 DEF Meeting
    <3>2. CASE Holding(s, d, t, c)
      <4>1. y # d => kept'[y] = kept[y]
        BY <3>2 DEF Holding
      <4>2. kept'[d] \subseteq kept[d] \cup {<<s, t, c>>}
        BY <3>2 DEF Holding
      <4> QED
        BY <4>1, <4>2
    <3> QED
      BY <3>1, <3>2
  <2> QED
    BY <1>2, <2>1 DEF Visited, KeptAreVisits
<1>7. LegsAreVisits'
  <2> SUFFICES ASSUME NEW x \in Device, NEW y \in Device, NEW k \in Device, k \in tie'[x][y]
               PROVE  visits[x][k] # 0 /\ visits[y][k] # 0
    BY <1>1 DEF LegsAreVisits
  <2>1. k \in tie[x][y] \/ (x = d /\ y = s /\ k = c /\ call[d] = c)
    BY DEF Meeting, Holding
  <2> QED
    BY <1>1, <1>2, <2>1 DEF Visited, LegsAreVisits, CallsAreVisits
<1>8. BackIsTwice'
  <2> SUFFICES ASSUME NEW x \in Device, NEW y \in Device, NEW k \in Device,
                      <<"leave", k>> \in way'[x][y], call[x] = k
               PROVE  visits[x][k] = 2
    BY <1>1 DEF BackIsTwice
  <2>1. <<"leave", k>> \in way[x][y]
    BY <1>4 DEF MemberTypes
  <2> QED
    BY <2>1 DEF Visited, BackIsTwice
<1> QED
  BY <1>3, <1>5, <1>6, <1>7, <1>8 DEF Visited

LEMMA VisitsGrow ==
  ASSUME TypeOK, NEW d \in Device, NEW c, NEW told, Entering(d, c, told)
  PROVE  /\ c \in Device /\ visits'[d][c] # 0
         /\ visits[d][c] # 0 => visits'[d][c] = 2
         /\ \A x, k \in Device : ~(x = d /\ k = c) => visits'[x][k] = visits[x][k]
         /\ \A x, k \in Device : visits[x][k] # 0 => visits'[x][k] # 0
         /\ \A x, k \in Device : visits[x][k] = 2 => visits'[x][k] = 2
         /\ call'[d] = c /\ \A x \in Device : x # d => call'[x] = call[x]
<1>1. /\ c \in Device /\ call' = [call EXCEPT ![d] = c]
      /\ visits' = [visits EXCEPT ![d][c] = IF visits[d][c] = 0 THEN 1 ELSE 2]
      /\ visits \in [Device -> [Device -> 0 .. 2]] /\ call \in [Device -> Device \cup {None}]
  BY DEF Entering, TypeOK
<1>2. /\ visits'[d][c] = IF visits[d][c] = 0 THEN 1 ELSE 2
      /\ \A x, k \in Device : ~(x = d /\ k = c) => visits'[x][k] = visits[x][k]
  BY <1>1
<1> QED
  BY <1>1, <1>2

\* What is under way after somebody entered a call.
LEMMA EnteringSays ==
  ASSUME NEW d \in Device, NEW c, NEW told, Entering(d, c, told),
         NEW x \in Device, NEW y \in Device, NEW e, NEW k
  PROVE  <<e, k>> \in way'[x][y] <=>
             \/ <<e, k>> \in way[x][y]
             \/ /\ x = d /\ k = c
                /\ \/ e = "join" /\ y \in told
                   \/ e = "here" /\ <<y, "join", c>> \in kept[d]
<1>1. way'[x][y] = way[x][y] \cup
           IF x = d
           THEN (IF y \in told THEN {<<"join", c>>} ELSE {})
                \cup (IF <<y, "join", c>> \in kept[d] THEN {<<"here", c>>} ELSE {})
           ELSE {}
  BY DEF Entering
<1>2. <<e, k>> = <<"join", c>> <=> e = "join" /\ k = c
  OBVIOUS
<1>3. <<e, k>> = <<"here", c>> <=> e = "here" /\ k = c
  OBVIOUS
<1> DEFINE it == <<e, k>>
           join == <<"join", c>>
           here == <<"here", c>>
<1>4. (it = join <=> e = "join" /\ k = c) /\ (it = here <=> e = "here" /\ k = c)
  BY <1>2, <1>3
<1> HIDE DEF it, join, here
<1>5. it \in way'[x][y] <=>
             \/ it \in way[x][y]
             \/ /\ x = d
                /\ \/ it = join /\ y \in told
                   \/ it = here /\ <<y, "join", c>> \in kept[d]
  <2> DEFINE said == IF y \in told THEN {join} ELSE {}
             answered == IF <<y, "join", c>> \in kept[d] THEN {here} ELSE {}
             more == IF x = d THEN said \cup answered ELSE {}
  <2>1. way'[x][y] = way[x][y] \cup more
    BY <1>1 DEF join, here
  <2>2. /\ it \in said <=> it = join /\ y \in told
        /\ it \in answered <=> it = here /\ <<y, "join", c>> \in kept[d]
    OBVIOUS
  <2> HIDE DEF said, answered
  <2>3. it \in more <=> x = d /\ (it \in said \/ it \in answered)
    OBVIOUS
  <2> HIDE DEF more
  <2> QED
    BY <2>1, <2>2, <2>3
<1> QED
  BY <1>4, <1>5 DEF it

LEMMA VisitedWhenEntering ==
  ASSUME TypeOK, Visited, NEW d \in Device, NEW c, NEW told, Entering(d, c, told)
  PROVE  Visited'
<1>1. /\ c \in Device /\ visits'[d][c] # 0
      /\ visits[d][c] # 0 => visits'[d][c] = 2
      /\ \A x, k \in Device : ~(x = d /\ k = c) => visits'[x][k] = visits[x][k]
      /\ \A x, k \in Device : visits[x][k] # 0 => visits'[x][k] # 0
      /\ \A x, k \in Device : visits[x][k] = 2 => visits'[x][k] = 2
      /\ call'[d] = c /\ \A x \in Device : x # d => call'[x] = call[x]
  BY VisitsGrow
<1>2. ASSUME NEW x \in Device, NEW y \in Device, NEW k \in Device, NEW e \in MemberTypes,
             <<e, k>> \in way'[x][y]
      PROVE  <<e, k>> \in way[x][y] \/ (x = d /\ k = c /\ e # "leave")
  <2>1. <<e, k>> \in way'[x][y] <=>
             \/ <<e, k>> \in way[x][y]
             \/ /\ x = d /\ k = c
                /\ \/ e = "join" /\ y \in told
                   \/ e = "here" /\ <<y, "join", c>> \in kept[d]
    BY EnteringSays
  <2> QED
    BY <1>2, <2>1
<1>3. CallsAreVisits'
  <2> SUFFICES ASSUME NEW x \in Device, NEW k \in Device, call'[x] = k
               PROVE  visits'[x][k] # 0
    BY DEF CallsAreVisits
  <2>1. CASE x = d
    BY <1>1, <2>1
  <2>2. CASE x # d
    BY <1>1, <2>2 DEF Visited, CallsAreVisits
  <2> QED
    BY <2>1, <2>2
<1>4. SaidAreVisits'
  <2> SUFFICES ASSUME NEW x \in Device, NEW y \in Device, NEW k \in Device,
                      NEW e \in MemberTypes, <<e, k>> \in way'[x][y]
               PROVE  visits'[x][k] # 0
    BY DEF SaidAreVisits
  <2>1. <<e, k>> \in way[x][y] => visits[x][k] # 0
    BY DEF Visited, SaidAreVisits
  <2> QED
    BY <1>1, <1>2, <2>1
<1>5. KeptAreVisits'
  <2> SUFFICES ASSUME NEW x \in Device, NEW y \in Device, NEW k \in Device,
                      NEW e \in MemberTypes, <<x, e, k>> \in kept'[y]
               PROVE  visits'[x][k] # 0
    BY DEF KeptAreVisits
  <2>1. <<x, e, k>> \in kept[y]
    BY DEF Entering
  <2>2. visits[x][k] # 0
    BY <2>1 DEF Visited, KeptAreVisits
  <2> QED
    BY <1>1, <2>2
<1>6. LegsAreVisits'
  <2> SUFFICES ASSUME NEW x \in Device, NEW y \in Device, NEW k \in Device, k \in tie'[x][y]
               PROVE  visits'[x][k] # 0 /\ visits'[y][k] # 0
    BY DEF LegsAreVisits
  <2>1. \/ k \in tie[x][y]
        \/ x = d /\ k = c /\ \E t \in MemberTypes : <<y, t, c>> \in kept[d]
    BY DEF Entering
  <2>2. k \in tie[x][y] => visits[x][k] # 0 /\ visits[y][k] # 0
    BY DEF Visited, LegsAreVisits
  <2>3. (\E t \in MemberTypes : <<y, t, c>> \in kept[d]) => visits[y][c] # 0
    BY <1>1 DEF Visited, KeptAreVisits
  <2>4. CASE k \in tie[x][y]
    <3>1. visits[x][k] # 0 /\ visits[y][k] # 0
      BY <2>2, <2>4
    <3> QED
      BY <1>1, <3>1
  <2>5. CASE x = d /\ k = c /\ \E t \in MemberTypes : <<y, t, c>> \in kept[d]
    <3>1. visits[y][c] # 0
      BY <2>3, <2>5
    <3> QED
      BY <1>1, <2>5, <3>1
  <2> QED
    BY <2>1, <2>4, <2>5
<1>7. BackIsTwice'
  <2> SUFFICES ASSUME NEW x \in Device, NEW y \in Device, NEW k \in Device,
                      <<"leave", k>> \in way'[x][y], call'[x] = k
               PROVE  visits'[x][k] = 2
    BY DEF BackIsTwice
  <2>1. <<"leave", k>> \in way[x][y]
    BY <1>2 DEF MemberTypes
  <2>2. visits[x][k] # 0
    BY <2>1 DEF Visited, SaidAreVisits, MemberTypes
  <2>3. CASE x = d
    BY <1>1, <2>2, <2>3
  <2>4. CASE x # d
    <3>1. visits[x][k] = 2
      BY <1>1, <2>1, <2>4 DEF Visited, BackIsTwice
    <3> QED
      BY <1>1, <3>1
  <2> QED
    BY <2>3, <2>4
<1> QED
  BY <1>3, <1>4, <1>5, <1>6, <1>7 DEF Visited


-----------------------------------------------------------------------------
(* Legs of people who came once.  While both are in the call a leg was      *)
(* dialled for, it is up at its dialler and its offer is coming or          *)
(* answered; a leg that is open is the one its far side holds, in the call  *)
(* it is in; and there is one leg only for the call its far side is in.     *)

Newcomers == {x \in Device : Once(x)}

DialledForThisCall ==
    \A d, p \in Device : line[d][p] # NoCall /\ Rank[d] < Rank[p] => call[d] \in tie[d][p]
Up ==
    \A x, y \in Newcomers : \A n \in DOMAIN leg[x][y] :
        call[x] = leg[x][y][n].call /\ call[y] = leg[x][y][n].call
            => leg[x][y][n].near /\ leg[x][y][n].far \in {"coming", "open"}
OpenIsHeld ==
    \A x, y \in Newcomers : \A n \in DOMAIN leg[x][y] :
        leg[x][y][n].far = "open" => line[y][x] = <<x, y, n>> /\ call[y] = leg[x][y][n].call
OneLeg ==
    \A x, y \in Newcomers : \A n, m \in DOMAIN leg[x][y] :
        leg[x][y][n].call = call[y] /\ leg[x][y][m].call = call[y] => n = m

MeshLegs == DialledForThisCall /\ Up /\ OpenIsHeld /\ OneLeg

LEMMA SameNewcomers ==
  ASSUME UNCHANGED past
  PROVE  Newcomers' = Newcomers
<1>1. visits' = visits
  BY DEF past
<1> QED
  BY <1>1 DEF Newcomers, Once

\* What the tables say of one leg.
LEMMA LegOf ==
  ASSUME TypeOK, LegsInv, NEW x \in Device, NEW y \in Device, NEW n \in DOMAIN leg[x][y]
  PROVE  /\ n \in Nat /\ leg[x][y][n] \in Leg /\ leg[x][y][n].call \in Device
         /\ leg[x][y][n].call \in tie[x][y]
         /\ Rank[x] < Rank[y] /\ x # y /\ ~(Rank[y] < Rank[x])
         /\ leg[x][y][n].near => line[x][y] = <<x, y, n>> /\ call[x] = leg[x][y][n].call
<1>0. leg \in Legs
  BY DEF TypeOK, Legs
<1>1. leg[x][y] \in Seq(Leg) /\ DOMAIN leg[x][y] = 1 .. Len(leg[x][y]) /\ Len(leg[x][y]) \in Nat
  BY <1>0, Sequenced
<1>2. n \in Nat /\ leg[x][y][n] \in Leg /\ leg[x][y] # <<>>
  BY <1>1
<1>3. Rank[x] < Rank[y]
  BY <1>2 DEF LegsInv, Sound, OneWay
<1>4. Rank[x] \in Nat /\ Rank[y] \in Nat
  BY RankOrders
<1>5. tie[x][y] = {leg[x][y][i].call : i \in DOMAIN leg[x][y]}
  BY DEF tie, Calls
<1>6. leg[x][y][n].near => line[x][y] = <<x, y, n>> /\ call[x] = leg[x][y][n].call
  BY DEF LegsInv, Sound, NearHeld
<1>7. leg[x][y][n].call \in Device
  BY <1>2 DEF Leg
<1>8. leg[x][y][n].call \in tie[x][y]
  BY <1>5
<1> QED
  BY <1>2, <1>3, <1>4, <1>6, <1>7, <1>8

LEMMA MeshLegsInit == Init => MeshLegs
<1> SUFFICES ASSUME Init PROVE MeshLegs
  OBVIOUS
<1>1. \A x, y \in Device : leg[x][y] = <<>> /\ line[x][y] = NoCall
  BY DEF Init
<1>2. DOMAIN <<>> = {}
  OBVIOUS
<1>3. \A x, y \in Newcomers : DOMAIN leg[x][y] = {}
  BY <1>1, <1>2 DEF Newcomers
<1> QED
  BY <1>1, <1>3 DEF MeshLegs, DialledForThisCall, Up, OpenIsHeld, OneLeg

LEMMA MeshLegsStay ==
  ASSUME MeshLegs, UNCHANGED <<call, past, line, leg>>
  PROVE  MeshLegs'
<1>1. Newcomers' = Newcomers
  BY SameNewcomers
<1>2. \A x, y \in Device : tie'[x][y] = tie[x][y]
  BY TieIs
<1>3. DialledForThisCall'
  BY <1>2 DEF MeshLegs, DialledForThisCall
<1>4. Up' /\ OpenIsHeld' /\ OneLeg'
  BY <1>1 DEF MeshLegs, Up, OpenIsHeld, OneLeg
<1> QED
  BY <1>3, <1>4 DEF MeshLegs

\* What d held to one of S is shut, when that one had dialled.
LEMMA HungIsShut ==
  ASSUME leg \in Legs, NEW d \in Device, NEW S, NEW x \in Device, x \in S, x # d,
         NEW n \in DOMAIN leg[x][d], line[d][x] = <<x, d, n>>
  PROVE  Hung(d, S)[x][d][n].far = "shut"
<1> DEFINE l == leg[x][d][n]
<1>1. leg[x][d] \in Seq(Leg)
  BY DEF Legs
<1>2. l \in Leg
  BY <1>1
<1>3. Hung(d, S)[x][d][n] = [l EXCEPT !.far = "shut"]
  BY DEF Hung
<1> HIDE DEF l
<1>4. [l EXCEPT !.far = "shut"].far = "shut"
  BY <1>2 DEF Leg
<1> QED
  BY <1>3, <1>4

LEMMA DialledAtEach ==
  ASSUME NEW lg \in Legs, NEW d \in Device, NEW P, NEW c \in Device,
         NEW new, new = Dialled(lg, d, P, c), NEW x \in Device, NEW y \in Device
  PROVE  /\ DOMAIN lg[x][y] \subseteq DOMAIN new[x][y]
         /\ \A n \in DOMAIN lg[x][y] : new[x][y][n] = lg[x][y][n]
         /\ \A n \in DOMAIN new[x][y] :
                \/ n \in DOMAIN lg[x][y]
                \/ /\ x = d /\ y \in P /\ n = Len(lg[x][y]) + 1
                   /\ new[x][y][n].call = c /\ new[x][y][n].near
                   /\ new[x][y][n].far = "coming"
<1> DEFINE l == [call |-> c, near |-> TRUE, far |-> "coming"]
           q == lg[x][y]
           r == Append(q, l)
<1>1. l.call = c /\ l.near /\ l.far = "coming"
  OBVIOUS
<1>2. new[x][y] = IF x = d /\ y \in P THEN r ELSE q
  BY DEF Dialled, Legs
<1>3. q \in Seq(Leg) /\ l \in Leg
  BY Sequenced DEF Leg
<1> HIDE DEF l, q
<1>4. /\ Len(q) \in Nat /\ DOMAIN q = 1 .. Len(q) /\ DOMAIN r = 1 .. Len(q) + 1
      /\ r[Len(q) + 1] = l /\ \A i \in 1 .. Len(q) : r[i] = q[i]
  BY <1>3
<1> HIDE DEF r
<1>5. /\ DOMAIN q \subseteq DOMAIN r /\ \A i \in DOMAIN q : r[i] = q[i]
      /\ \A i \in DOMAIN r : i \in DOMAIN q \/ (i = Len(q) + 1 /\ r[i] = l)
  BY <1>4
<1>6. CASE x = d /\ y \in P
  BY <1>1, <1>2, <1>5, <1>6 DEF q
<1>7. CASE ~(x = d /\ y \in P)
  BY <1>2, <1>7 DEF q
<1> QED
  BY <1>6, <1>7

\* Closing what d holds to S keeps the legs in order, if d leaves its call or
\* those of S who came once are not in it.
LEMMA HangingUpKeepsMesh ==
  ASSUME TypeOK, LegsInv, MeshLegs, NEW d \in Device, NEW S, HangsUp(d, S),
         \A p \in S : call'[d] = None
                      \/ ~(d \in Newcomers /\ p \in Newcomers /\ call[p] = call[d])
  PROVE  MeshLegs'
<1> DEFINE hung == Hung(d, S)
<1>1. leg \in Legs /\ S \in SUBSET Device /\ Newcomers' = Newcomers
      /\ Newcomers \in SUBSET Device
  BY SameNewcomers DEF TypeOK, Legs, HangsUp, Newcomers
<1>2. OnlyClosed(leg, hung) /\ OnlyClosed(hung, leg')
  BY <1>1, HungOnlyCloses DEF HangsUp
<1>3. OnlyClosed(leg, leg')
  BY <1>1, <1>2, ClosingsAddUp
<1>4. /\ \A x, y \in Device : line'[x][y] = IF x = d /\ y \in S THEN NoCall ELSE line[x][y]
      /\ \A x \in Device : call'[x] = call[x] \/ (x = d /\ S = Device /\ call'[x] = None)
      /\ \A x, y \in Device : ~(x = d /\ y \in S) /\ ~(y = d /\ x \in S)
             => leg'[x][y] = leg[x][y]
  BY DEF HangsUp
<1>5. DialledForThisCall'
  <2> SUFFICES ASSUME NEW x \in Device, NEW y \in Device,
                      line'[x][y] # NoCall, Rank[x] < Rank[y]
               PROVE  call'[x] \in tie'[x][y]
    BY DEF DialledForThisCall
  <2>1. tie'[x][y] = tie[x][y]
    BY HangingUpTies
  <2>2. line[x][y] # NoCall /\ call'[x] = call[x]
    BY <1>4
  <2> QED
    BY <2>1, <2>2 DEF MeshLegs, DialledForThisCall
<1>6. ASSUME NEW x \in Newcomers, NEW y \in Newcomers, NEW n \in DOMAIN leg'[x][y]
      PROVE  /\ x \in Device /\ y \in Device /\ n \in DOMAIN leg[x][y] /\ x # y
             /\ leg'[x][y][n].call = leg[x][y][n].call /\ leg[x][y][n].call \in Device
             /\ leg'[x][y][n].far = "open" => leg[x][y][n].far = "open"
             /\ call'[y] = leg[x][y][n].call => call[y] = leg[x][y][n].call
             /\ leg[x][y][n].far = "open" =>
                    line[y][x] = <<x, y, n>> /\ call[y] = leg[x][y][n].call
  <2>1. x \in Device /\ y \in Device
    BY <1>1
  <2>2. /\ n \in DOMAIN leg[x][y] /\ leg'[x][y][n].call = leg[x][y][n].call
        /\ leg'[x][y][n].far = leg[x][y][n].far \/ leg'[x][y][n].far = "shut"
    BY <1>3, <2>1 DEF OnlyClosed
  <2>3. leg[x][y][n].call \in Device /\ x # y
    BY <2>1, <2>2, LegOf
  <2>4. call'[y] = call[y] \/ call'[y] = None
    BY <1>4, <2>1
  <2>5. leg[x][y][n].far = "open" => line[y][x] = <<x, y, n>> /\ call[y] = leg[x][y][n].call
    BY <2>2 DEF MeshLegs, OpenIsHeld
  <2> QED
    BY <2>1, <2>2, <2>3, <2>4, <2>5, NobodyIsNone
<1>7. Up'
  <2> SUFFICES ASSUME NEW x \in Newcomers, NEW y \in Newcomers, NEW n \in DOMAIN leg'[x][y],
                      call'[x] = leg'[x][y][n].call, call'[y] = leg'[x][y][n].call
               PROVE  leg'[x][y][n].near /\ leg'[x][y][n].far \in {"coming", "open"}
    BY <1>1 DEF Up
  <2>1. /\ x \in Device /\ y \in Device /\ n \in DOMAIN leg[x][y]
        /\ leg'[x][y][n].call = leg[x][y][n].call /\ leg[x][y][n].call \in Device
    BY <1>6
  <2>2. call'[x] # None /\ call'[y] # None
    BY <2>1, NobodyIsNone
  <2>3. call[x] = call'[x] /\ call[y] = call'[y]
    BY <1>4, <2>1, <2>2
  <2>4. ~(x = d /\ y \in S) /\ ~(y = d /\ x \in S)
    BY <2>2, <2>3
  <2>5. leg'[x][y] = leg[x][y]
    BY <1>4, <2>1, <2>4
  <2> QED
    BY <2>1, <2>3, <2>5 DEF MeshLegs, Up
<1>8. OpenIsHeld'
  <2> SUFFICES ASSUME NEW x \in Newcomers, NEW y \in Newcomers, NEW n \in DOMAIN leg'[x][y],
                      leg'[x][y][n].far = "open"
               PROVE  line'[y][x] = <<x, y, n>> /\ call'[y] = leg'[x][y][n].call
    BY <1>1 DEF OpenIsHeld
  <2>1. /\ x \in Device /\ y \in Device /\ n \in DOMAIN leg[x][y] /\ x # y
        /\ leg'[x][y][n].call = leg[x][y][n].call
        /\ line[y][x] = <<x, y, n>> /\ call[y] = leg[x][y][n].call
    BY <1>6
  <2>2. CASE y = d /\ x \in S
    <3>1. hung[x][y][n].far = "shut"
      BY <1>1, <2>1, <2>2, HungIsShut
    <3>2. n \in DOMAIN hung[x][y]
      BY <1>2, <2>1 DEF OnlyClosed
    <3>3. leg'[x][y][n].far = hung[x][y][n].far \/ leg'[x][y][n].far = "shut"
      BY <1>2, <2>1, <3>2 DEF OnlyClosed
    <3> QED
      BY <3>1, <3>3
  <2>3. CASE ~(y = d /\ x \in S)
    <3>1. line'[y][x] = line[y][x] /\ call'[y] = call[y]
      BY <1>4, <2>1, <2>3
    <3> QED
      BY <2>1, <3>1
  <2> QED
    BY <2>2, <2>3
<1>9. OneLeg'
  <2> SUFFICES ASSUME NEW x \in Newcomers, NEW y \in Newcomers,
                      NEW n \in DOMAIN leg'[x][y], NEW m \in DOMAIN leg'[x][y],
                      leg'[x][y][n].call = call'[y], leg'[x][y][m].call = call'[y]
               PROVE  n = m
    BY <1>1 DEF OneLeg
  <2>1. /\ n \in DOMAIN leg[x][y] /\ m \in DOMAIN leg[x][y]
        /\ leg[x][y][n].call = call[y] /\ leg[x][y][m].call = call[y]
    BY <1>6
  <2> QED
    BY <2>1 DEF MeshLegs, OneLeg
<1> QED
  BY <1>5, <1>7, <1>8, <1>9 DEF MeshLegs

\* An answered offer is the only leg for the call of the one who answers.
LEMMA ArrivalKeepsMesh ==
  ASSUME TypeOK, LegsInv, MeshLegs, NEW d \in Device, NEW p \in Device, NEW n, Arriving(d, p, n)
  PROVE  MeshLegs'
<1>1. Newcomers' = Newcomers /\ Newcomers \in SUBSET Device /\ call' = call
  BY SameNewcomers DEF Arriving, Newcomers
<1>2. /\ n \in DOMAIN leg[d][p] /\ Rank[d] < Rank[p] /\ leg[d][p][n].far = "coming"
      /\ \A x, y \in Device : ~(x = d /\ y = p) => leg'[x][y] = leg[x][y]
      /\ DOMAIN leg'[d][p] = DOMAIN leg[d][p]
      /\ \A k \in DOMAIN leg[d][p] : k # n => leg'[d][p][k] = leg[d][p][k]
      /\ leg'[d][p][n].call = leg[d][p][n].call /\ leg'[d][p][n].near = leg[d][p][n].near
      /\ \/ /\ leg'[d][p][n].far = "open" /\ call[p] = leg[d][p][n].call
            /\ line' = [line EXCEPT ![p][d] = <<d, p, n>>]
         \/ /\ leg'[d][p][n].far = "ignored" /\ call[p] # leg[d][p][n].call
            /\ UNCHANGED line
  BY DEF Arriving
<1>3. /\ \A x, y \in Device : ~(x = p /\ y = d) => line'[x][y] = line[x][y]
      /\ leg'[d][p][n].far = "open" => line'[p][d] = <<d, p, n>>
      /\ leg'[d][p][n].far # "open" => line'[p][d] = line[p][d]
  <2>1. line \in Lines
    BY DEF TypeOK, Lines
  <2> QED
    BY <1>2, <2>1 DEF Lines
<1>4. ~(Rank[p] < Rank[d])
  BY <1>2, LegOf
<1>5. ASSUME NEW x \in Device, NEW y \in Device
      PROVE  /\ DOMAIN leg'[x][y] = DOMAIN leg[x][y]
             /\ \A k \in DOMAIN leg[x][y] : leg'[x][y][k].call = leg[x][y][k].call
  <2>1. CASE x = d /\ y = p
    <3>1. \A k \in DOMAIN leg[d][p] : leg'[d][p][k].call = leg[d][p][k].call
      BY <1>2
    <3> QED
      BY <1>2, <2>1, <3>1
  <2>2. CASE ~(x = d /\ y = p)
    BY <1>2, <2>2
  <2> QED
    BY <2>1, <2>2
<1>6. DialledForThisCall'
  <2> SUFFICES ASSUME NEW x \in Device, NEW y \in Device,
                      line'[x][y] # NoCall, Rank[x] < Rank[y]
               PROVE  call'[x] \in tie'[x][y]
    BY DEF DialledForThisCall
  <2>1. line[x][y] # NoCall
    BY <1>3, <1>4
  <2>2. Calls(leg'[x][y]) = Calls(leg[x][y])
    <3> DEFINE old == leg[x][y]
               new == leg'[x][y]
    <3>1. DOMAIN new = DOMAIN old /\ \A k \in DOMAIN old : new[k].call = old[k].call
      BY <1>5
    <3> HIDE DEF old, new
    <3>2. Calls(new) = Calls(old)
      BY <3>1 DEF Calls
    <3> QED
      BY <3>2 DEF old, new
  <2>3. tie'[x][y] = tie[x][y]
    BY <2>2, TieIs
  <2> QED
    BY <1>1, <2>1, <2>3 DEF MeshLegs, DialledForThisCall
<1>7. Up'
  <2> SUFFICES ASSUME NEW x \in Newcomers, NEW y \in Newcomers, NEW k \in DOMAIN leg'[x][y],
                      call[x] = leg'[x][y][k].call, call[y] = leg'[x][y][k].call
               PROVE  leg'[x][y][k].near /\ leg'[x][y][k].far \in {"coming", "open"}
    BY <1>1 DEF Up
  <2>1. x \in Device /\ y \in Device
    BY <1>1
  <2>2. k \in DOMAIN leg[x][y] /\ leg'[x][y][k].call = leg[x][y][k].call
    BY <1>5, <2>1
  <2>3. leg[x][y][k].near /\ leg[x][y][k].far \in {"coming", "open"}
    BY <2>2 DEF MeshLegs, Up
  <2>4. CASE x = d /\ y = p /\ k = n
    BY <1>2, <2>2, <2>3, <2>4
  <2>5. CASE ~(x = d /\ y = p /\ k = n)
    BY <1>2, <2>1, <2>2, <2>3, <2>5
  <2> QED
    BY <2>4, <2>5
<1>8. OpenIsHeld'
  <2> SUFFICES ASSUME NEW x \in Newcomers, NEW y \in Newcomers, NEW k \in DOMAIN leg'[x][y],
                      leg'[x][y][k].far = "open"
               PROVE  line'[y][x] = <<x, y, k>> /\ call[y] = leg'[x][y][k].call
    BY <1>1 DEF OpenIsHeld
  <2>1. x \in Device /\ y \in Device
    BY <1>1
  <2>2. k \in DOMAIN leg[x][y] /\ leg'[x][y][k].call = leg[x][y][k].call
    BY <1>5, <2>1
  <2>3. leg[x][y][k].far = "open" =>
            line[y][x] = <<x, y, k>> /\ call[y] = leg[x][y][k].call
    BY <2>2 DEF MeshLegs, OpenIsHeld
  <2>4. CASE x = d /\ y = p /\ k = n
    <3>1. call[p] = leg[d][p][n].call
      BY <1>2, <2>4
    <3> QED
      BY <1>3, <2>2, <2>4, <3>1
  <2>5. CASE x = d /\ y = p /\ k # n
    <3>1. leg'[d][p][k] = leg[d][p][k]
      BY <1>2, <2>2, <2>5
    <3>2. line[p][d] = <<d, p, k>> /\ call[p] = leg[d][p][k].call
      BY <2>3, <2>5, <3>1
    <3>3. call[p] # leg[d][p][n].call
      BY <1>2, <2>2, <2>5, <3>2 DEF MeshLegs, OneLeg
    <3>4. leg'[d][p][n].far # "open"
      BY <1>2, <3>3
    <3> QED
      BY <1>3, <2>2, <2>5, <3>2, <3>4
  <2>6. CASE ~(x = d /\ y = p)
    <3>1. leg'[x][y] = leg[x][y] /\ line'[y][x] = line[y][x]
      BY <1>2, <1>3, <2>1, <2>6
    <3> QED
      BY <2>2, <2>3, <3>1
  <2> QED
    BY <2>4, <2>5, <2>6
<1>9. OneLeg'
  <2> SUFFICES ASSUME NEW x \in Newcomers, NEW y \in Newcomers,
                      NEW i \in DOMAIN leg'[x][y], NEW j \in DOMAIN leg'[x][y],
                      leg'[x][y][i].call = call[y], leg'[x][y][j].call = call[y]
               PROVE  i = j
    BY <1>1 DEF OneLeg
  <2>1. x \in Device /\ y \in Device
    BY <1>1
  <2>2. /\ i \in DOMAIN leg[x][y] /\ j \in DOMAIN leg[x][y]
        /\ leg[x][y][i].call = call[y] /\ leg[x][y][j].call = call[y]
    BY <1>5, <2>1
  <2> QED
    BY <2>2 DEF MeshLegs, OneLeg
<1> QED
  BY <1>6, <1>7, <1>8, <1>9 DEF MeshLegs

\* A leg is dialled to a member only where none stands.
LEMMA ConnectingKeepsMesh ==
  ASSUME TypeOK, LegsInv, MeshLegs, NEW s \in Device, NEW d \in Device, NEW t, NEW c,
         Meeting(s, d, t, c), Connect(d, s)
  PROVE  MeshLegs'
<1>1. /\ Newcomers' = Newcomers /\ Newcomers \in SUBSET Device
      /\ UNCHANGED <<call, past>> /\ c \in Device /\ call[d] = c
      /\ \A x, y \in Device : tie'[x][y] = tie[x][y] \cup
             IF x = d /\ y = s /\ line[d][s] = NoCall /\ Rank[d] < Rank[s] THEN {c} ELSE {}
  BY SameNewcomers DEF Meeting, Newcomers
<1>2. CASE ~(line[d][s] = NoCall /\ Rank[d] < Rank[s])
  <2>1. UNCHANGED <<call, past, line, leg>>
    BY <1>1, <1>2 DEF Connect, ShouldPlaceCallTo
  <2> QED
    BY <2>1, MeshLegsStay
<1>3. CASE line[d][s] = NoCall /\ Rank[d] < Rank[s]
  <2>1. /\ line' = [line EXCEPT ![d][s] = <<d, s, Len(leg[d][s]) + 1>>]
        /\ leg' = Dialled(leg, d, {s}, c)
    BY <1>1, <1>3 DEF Connect, ShouldPlaceCallTo
  <2>2. leg \in Legs /\ line \in Lines
    BY DEF TypeOK, Legs, Lines
  <2>3. \A x, y \in Device : ~(x = d /\ y = s) => line'[x][y] = line[x][y]
    BY <2>1, <2>2 DEF Lines
  <2>4. ASSUME NEW x \in Device, NEW y \in Device
        PROVE  /\ DOMAIN leg[x][y] \subseteq DOMAIN leg'[x][y]
               /\ \A n \in DOMAIN leg[x][y] : leg'[x][y][n] = leg[x][y][n]
               /\ \A n \in DOMAIN leg'[x][y] :
                      \/ n \in DOMAIN leg[x][y]
                      \/ /\ x = d /\ y = s /\ n = Len(leg[x][y]) + 1
                         /\ leg'[x][y][n].call = c /\ leg'[x][y][n].near
                         /\ leg'[x][y][n].far = "coming"
    <3>1. /\ DOMAIN leg[x][y] \subseteq DOMAIN leg'[x][y]
          /\ \A n \in DOMAIN leg[x][y] : leg'[x][y][n] = leg[x][y][n]
          /\ \A n \in DOMAIN leg'[x][y] :
                 \/ n \in DOMAIN leg[x][y]
                 \/ /\ x = d /\ y \in {s} /\ n = Len(leg[x][y]) + 1
                    /\ leg'[x][y][n].call = c /\ leg'[x][y][n].near
                    /\ leg'[x][y][n].far = "coming"
      BY <1>1, <2>1, <2>2, DialledAtEach
    <3> QED
      BY <3>1
  <2>5. DialledForThisCall'
    <3> SUFFICES ASSUME NEW x \in Device, NEW y \in Device,
                        line'[x][y] # NoCall, Rank[x] < Rank[y]
                 PROVE  call[x] \in tie'[x][y]
      BY <1>1 DEF DialledForThisCall
    <3>1. CASE x = d /\ y = s
      <4>1. tie'[d][s] = tie[d][s] \cup {c}
        BY <1>1, <1>3
      <4> QED
        BY <1>1, <3>1, <4>1
    <3>2. CASE ~(x = d /\ y = s)
      <4>1. tie'[x][y] = tie[x][y] \cup {}
        BY <1>1, <3>2
      <4>2. line[x][y] # NoCall
        BY <2>3, <3>2
      <4> QED
        BY <4>1, <4>2 DEF MeshLegs, DialledForThisCall
    <3> QED
      BY <3>1, <3>2
  <2>6. Up'
    <3> SUFFICES ASSUME NEW x \in Newcomers, NEW y \in Newcomers, NEW n \in DOMAIN leg'[x][y],
                        call[x] = leg'[x][y][n].call, call[y] = leg'[x][y][n].call
                 PROVE  leg'[x][y][n].near /\ leg'[x][y][n].far \in {"coming", "open"}
      BY <1>1 DEF Up
    <3>1. x \in Device /\ y \in Device
      BY <1>1
    <3>2. CASE n \in DOMAIN leg[x][y]
      <4>1. leg'[x][y][n] = leg[x][y][n]
        BY <2>4, <3>1, <3>2
      <4> QED
        BY <3>2, <4>1 DEF MeshLegs, Up
    <3>3. CASE n \notin DOMAIN leg[x][y]
      BY <2>4, <3>1, <3>3
    <3> QED
      BY <3>2, <3>3
  <2>7. OpenIsHeld'
    <3> SUFFICES ASSUME NEW x \in Newcomers, NEW y \in Newcomers, NEW n \in DOMAIN leg'[x][y],
                        leg'[x][y][n].far = "open"
                 PROVE  line'[y][x] = <<x, y, n>> /\ call[y] = leg'[x][y][n].call
      BY <1>1 DEF OpenIsHeld
    <3>1. x \in Device /\ y \in Device
      BY <1>1
    <3>2. n \in DOMAIN leg[x][y]
      BY <2>4, <3>1
    <3>3. leg'[x][y][n] = leg[x][y][n]
      BY <2>4, <3>1, <3>2
    <3>4. line[y][x] = <<x, y, n>> /\ call[y] = leg[x][y][n].call
      BY <3>2, <3>3 DEF MeshLegs, OpenIsHeld
    <3>5. ~(y = d /\ x = s)
      BY <1>3, <3>1, <3>2, LegOf
    <3> QED
      BY <2>3, <3>1, <3>3, <3>4, <3>5
  <2>8. ASSUME NEW x \in Newcomers, NEW y \in Newcomers, x = d, y = s,
               NEW n \in DOMAIN leg[x][y], leg[x][y][n].call = call[y], call[y] = c
        PROVE  FALSE
    <3>1. leg[x][y][n].near
      BY <1>1, <2>8 DEF MeshLegs, Up
    <3>2. line[d][s] = <<x, y, n>>
      BY <2>8, <3>1, LegOf
    <3> QED
      BY <1>3, <3>2, ALegIsACall
  <2>9. OneLeg'
    <3> SUFFICES ASSUME NEW x \in Newcomers, NEW y \in Newcomers,
                        NEW n \in DOMAIN leg'[x][y], NEW m \in DOMAIN leg'[x][y],
                        leg'[x][y][n].call = call[y], leg'[x][y][m].call = call[y]
                 PROVE  n = m
      BY <1>1 DEF OneLeg
    <3>1. x \in Device /\ y \in Device
      BY <1>1
    <3>2. /\ \A i \in DOMAIN leg[x][y] : leg'[x][y][i] = leg[x][y][i]
          /\ \A i \in DOMAIN leg'[x][y] :
                 \/ i \in DOMAIN leg[x][y]
                 \/ /\ x = d /\ y = s /\ i = Len(leg[x][y]) + 1 /\ leg'[x][y][i].call = c
      BY <2>4, <3>1
    <3>3. CASE n \in DOMAIN leg[x][y] /\ m \in DOMAIN leg[x][y]
      <4>1. leg[x][y][n].call = call[y] /\ leg[x][y][m].call = call[y]
        BY <3>2, <3>3
      <4> QED
        BY <3>3, <4>1 DEF MeshLegs, OneLeg
    <3>4. CASE n \notin DOMAIN leg[x][y] /\ m \in DOMAIN leg[x][y]
      BY <2>8, <3>2, <3>4
    <3>5. CASE n \in DOMAIN leg[x][y] /\ m \notin DOMAIN leg[x][y]
      BY <2>8, <3>2, <3>5
    <3>6. CASE n \notin DOMAIN leg[x][y] /\ m \notin DOMAIN leg[x][y]
      BY <3>2, <3>6
    <3> QED
      BY <3>3, <3>4, <3>5, <3>6
  <2> QED
    BY <2>5, <2>6, <2>7, <2>9 DEF MeshLegs
<1> QED
  BY <1>2, <1>3

\* Whoever came once was not there before: no leg of its own is for the call it
\* enters.
LEMMA NewcomersEnter ==
  ASSUME TypeOK, Visited, NEW d \in Device, NEW c, NEW told, Entering(d, c, told)
  PROVE  /\ Newcomers' \subseteq Newcomers /\ Newcomers \in SUBSET Device
         /\ d \in Newcomers' => /\ visits[d][c] = 0
                                /\ \A x \in Device : c \notin tie[x][d] /\ c \notin tie[d][x]
<1>1. /\ c \in Device
      /\ visits[d][c] # 0 => visits'[d][c] = 2
      /\ \A x, k \in Device : ~(x = d /\ k = c) => visits'[x][k] = visits[x][k]
      /\ \A x, k \in Device : visits[x][k] = 2 => visits'[x][k] = 2
  BY VisitsGrow
<1>2. /\ Newcomers = {x \in Device : \A k \in Device : visits[x][k] < 2}
      /\ Newcomers' = {x \in Device : \A k \in Device : visits'[x][k] < 2}
  BY DEF Newcomers, Once
<1>3. \A x, k \in Device : visits[x][k] \in 0 .. 2
  BY DEF TypeOK
<1>4. ASSUME NEW x \in Device, NEW k \in Device, visits'[x][k] < 2 PROVE visits[x][k] < 2
  <2>1. visits'[x][k] # 2
    BY <1>4
  <2>2. visits[x][k] # 2 /\ visits[x][k] \in 0 .. 2
    BY <1>1, <1>3, <2>1
  <2> QED
    BY <2>2
<1>5. Newcomers' \subseteq Newcomers /\ Newcomers \in SUBSET Device
  BY <1>2, <1>4
<1>6. ASSUME d \in Newcomers' PROVE visits[d][c] = 0
  <2>1. visits'[d][c] < 2
    BY <1>1, <1>2, <1>6
  <2>2. visits'[d][c] # 2
    BY <2>1
  <2> QED
    BY <1>1, <2>2
<1>7. ASSUME visits[d][c] = 0, NEW x \in Device PROVE c \notin tie[x][d] /\ c \notin tie[d][x]
  BY <1>1, <1>7 DEF Visited, LegsAreVisits
<1> QED
  BY <1>5, <1>6, <1>7

\* Entering a call: what stood for another call is down or stays as it was, what
\* is dialled is new.
LEMMA EnteringKeepsMesh ==
  ASSUME TypeOK, LegsInv, Visited, MeshLegs, NEW d \in Device, NEW c \in Device, NEW people,
         NEW told, NEW out, TakeSeats(d, c, people, told, out), Entering(d, c, told)
  PROVE  MeshLegs'
<1> DEFINE dial == {p \in HeardOf(d, c) : ShouldPlaceCallTo(d, p)}
           hung == Hung(d, Device)
<1>1. leg \in Legs /\ line \in Lines /\ hung \in Legs /\ OnlyClosed(leg, hung)
  BY HungLegs, HungOnlyCloses DEF TypeOK, Legs, Lines
<1>2. /\ leg' = Dialled(hung, d, dial, c)
      /\ line' = [line EXCEPT ![d] = [p \in Device |->
                     IF p \in dial THEN <<d, p, Len(leg[d][p]) + 1>> ELSE NoCall]]
  BY DEF TakeSeats
<1>3. \A p \in Device : p \in dial <=>
          Rank[d] < Rank[p] /\ \E t \in MemberTypes : <<p, t, c>> \in kept[d]
  BY HeardOfIsKept DEF ShouldPlaceCallTo
<1> HIDE DEF dial
<1>4. /\ call'[d] = c /\ \A x \in Device : x # d => call'[x] = call[x]
      /\ Newcomers' \subseteq Newcomers /\ Newcomers \in SUBSET Device
      /\ d \in Newcomers' => \A x \in Device : c \notin tie[x][d] /\ c \notin tie[d][x]
  BY VisitsGrow, NewcomersEnter
<1>5. \A x, y \in Device : x # d => line'[x][y] = line[x][y]
  BY <1>1, <1>2 DEF Lines
<1>6. \A y \in Device : line'[d][y] # NoCall => y \in dial
  BY <1>1, <1>2 DEF Lines
<1>7. \A x, y \in Device : tie'[x][y] = tie[x][y] \cup IF x = d /\ y \in dial THEN {c} ELSE {}
  <2> TAKE x, y \in Device
  <2> QED
    BY <1>1, <1>2, HungThenDialledTie
<1>8. ASSUME NEW x \in Device, NEW y \in Device, NEW n \in DOMAIN leg'[x][y]
      PROVE  \/ /\ n \in DOMAIN leg[x][y] /\ n \in DOMAIN hung[x][y]
                /\ leg'[x][y][n] = hung[x][y][n]
                /\ leg'[x][y][n].call = leg[x][y][n].call
                /\ leg'[x][y][n].far = "open" => leg[x][y][n].far = "open"
             \/ /\ x = d /\ n \notin DOMAIN leg[x][y] /\ n = Len(hung[x][y]) + 1
                /\ leg'[x][y][n].call = c /\ leg'[x][y][n].near
                /\ leg'[x][y][n].far = "coming"
  <2>1. /\ \A i \in DOMAIN hung[x][y] : leg'[x][y][i] = hung[x][y][i]
        /\ \A i \in DOMAIN leg'[x][y] :
               \/ i \in DOMAIN hung[x][y]
               \/ /\ x = d /\ y \in dial /\ i = Len(hung[x][y]) + 1
                  /\ leg'[x][y][i].call = c /\ leg'[x][y][i].near
                  /\ leg'[x][y][i].far = "coming"
    BY <1>1, <1>2, DialledAtEach
  <2>2. /\ DOMAIN hung[x][y] = DOMAIN leg[x][y]
        /\ \A i \in DOMAIN leg[x][y] :
               /\ hung[x][y][i].call = leg[x][y][i].call
               /\ hung[x][y][i].far = leg[x][y][i].far \/ hung[x][y][i].far = "shut"
    BY <1>1 DEF OnlyClosed
  <2> HIDE DEF hung
  <2>3. CASE n \in DOMAIN hung[x][y]
    BY <2>1, <2>2, <2>3
  <2>4. CASE n \notin DOMAIN hung[x][y]
    BY <2>1, <2>2, <2>4
  <2> QED
    BY <2>3, <2>4
<1>9. ASSUME NEW x \in Device, NEW y \in Device, NEW n \in DOMAIN leg[x][y], x # d, y # d
      PROVE  hung[x][y][n] = leg[x][y][n]
  <2>1. hung[x][y] = leg[x][y]
    BY <1>1, <1>9, HungElsewhere
  <2> QED
    BY <2>1
<1>10. DialledForThisCall'
  <2> SUFFICES ASSUME NEW x \in Device, NEW y \in Device,
                      line'[x][y] # NoCall, Rank[x] < Rank[y]
               PROVE  call'[x] \in tie'[x][y]
    BY DEF DialledForThisCall
  <2>1. CASE x = d
    <3>1. y \in dial
      BY <1>6, <2>1
    <3>2. tie'[x][y] = tie[x][y] \cup {c}
      BY <1>7, <2>1, <3>1
    <3> QED
      BY <1>4, <2>1, <3>2
  <2>2. CASE x # d
    <3>1. call[x] \in tie[x][y]
      BY <1>5, <2>2 DEF MeshLegs, DialledForThisCall
    <3>2. tie'[x][y] = tie[x][y] \cup {}
      BY <1>7, <2>2
    <3> QED
      BY <1>4, <2>2, <3>1, <3>2
  <2> QED
    BY <2>1, <2>2
\* A leg from before is not for the call that d, coming once, enters.
<1>11. ASSUME NEW x \in Newcomers', NEW y \in Newcomers', x = d \/ y = d,
              NEW n \in DOMAIN leg[x][y]
       PROVE  leg[x][y][n].call # c
  <2>1. x \in Device /\ y \in Device
    BY <1>4
  <2>2. leg[x][y][n].call \in tie[x][y]
    BY <2>1, LegOf
  <2> QED
    BY <1>4, <1>11, <2>1, <2>2
<1>12. Up'
  <2> SUFFICES ASSUME NEW x \in Newcomers', NEW y \in Newcomers', NEW n \in DOMAIN leg'[x][y],
                      call'[x] = leg'[x][y][n].call, call'[y] = leg'[x][y][n].call
               PROVE  leg'[x][y][n].near /\ leg'[x][y][n].far \in {"coming", "open"}
    BY DEF Up
  <2>1. x \in Device /\ y \in Device /\ x \in Newcomers /\ y \in Newcomers
    BY <1>4
  <2>2. CASE n \in DOMAIN leg[x][y]
    <3>1. leg'[x][y][n] = hung[x][y][n] /\ leg'[x][y][n].call = leg[x][y][n].call
      BY <1>8, <2>1, <2>2
    <3>2. x # d /\ y # d
      BY <1>4, <1>11, <2>2, <3>1
    <3>3. leg'[x][y][n] = leg[x][y][n]
      BY <1>9, <2>1, <2>2, <3>1, <3>2
    <3>4. call[x] = leg[x][y][n].call /\ call[y] = leg[x][y][n].call
      BY <1>4, <2>1, <3>2, <3>3
    <3> QED
      BY <2>1, <2>2, <3>3, <3>4 DEF MeshLegs, Up
  <2>3. CASE n \notin DOMAIN leg[x][y]
    BY <1>8, <2>1, <2>3
  <2> QED
    BY <2>2, <2>3
<1>13. OpenIsHeld'
  <2> SUFFICES ASSUME NEW x \in Newcomers', NEW y \in Newcomers', NEW n \in DOMAIN leg'[x][y],
                      leg'[x][y][n].far = "open"
               PROVE  line'[y][x] = <<x, y, n>> /\ call'[y] = leg'[x][y][n].call
    BY DEF OpenIsHeld
  <2>1. x \in Device /\ y \in Device /\ x \in Newcomers /\ y \in Newcomers
    BY <1>4
  <2>2. /\ n \in DOMAIN leg[x][y] /\ leg'[x][y][n] = hung[x][y][n]
        /\ leg'[x][y][n].call = leg[x][y][n].call /\ leg[x][y][n].far = "open"
    BY <1>8, <2>1
  <2>3. line[y][x] = <<x, y, n>> /\ call[y] = leg[x][y][n].call /\ x # y
    BY <2>1, <2>2, LegOf DEF MeshLegs, OpenIsHeld
  <2>4. CASE y = d
    <3>1. hung[x][d][n].far = "shut"
      BY <1>1, <2>1, <2>2, <2>3, <2>4, HungIsShut
    <3> QED
      BY <2>2, <2>4, <3>1
  <2>5. CASE y # d
    BY <1>4, <1>5, <2>1, <2>2, <2>3, <2>5
  <2> QED
    BY <2>4, <2>5
<1>14. OneLeg'
  <2> SUFFICES ASSUME NEW x \in Newcomers', NEW y \in Newcomers',
                      NEW n \in DOMAIN leg'[x][y], NEW m \in DOMAIN leg'[x][y],
                      leg'[x][y][n].call = call'[y], leg'[x][y][m].call = call'[y]
               PROVE  n = m
    BY DEF OneLeg
  <2>1. x \in Device /\ y \in Device /\ x \in Newcomers /\ y \in Newcomers
    BY <1>4
  <2>2. ASSUME NEW i \in DOMAIN leg'[x][y]
        PROVE  \/ /\ i \in DOMAIN leg[x][y]
                  /\ leg'[x][y][i].call = leg[x][y][i].call
               \/ /\ x = d /\ i \notin DOMAIN leg[x][y] /\ i = Len(hung[x][y]) + 1
                  /\ leg'[x][y][i].call = c
    BY <1>8, <2>1
  <2>3. CASE n \in DOMAIN leg[x][y] /\ m \in DOMAIN leg[x][y]
    <3>1. leg[x][y][n].call = call'[y] /\ leg[x][y][m].call = call'[y]
      BY <2>2, <2>3
    <3>2. y # d
      BY <1>4, <1>11, <2>3, <3>1
    <3>3. call'[y] = call[y]
      BY <1>4, <2>1, <3>2
    <3> QED
      BY <2>1, <2>3, <3>1, <3>3 DEF MeshLegs, OneLeg
  <2>4. CASE n \notin DOMAIN leg[x][y] /\ m \in DOMAIN leg[x][y]
    BY <1>11, <2>2, <2>4
  <2>5. CASE n \in DOMAIN leg[x][y] /\ m \notin DOMAIN leg[x][y]
    BY <1>11, <2>2, <2>5
  <2>6. CASE n \notin DOMAIN leg[x][y] /\ m \notin DOMAIN leg[x][y]
    BY <2>2, <2>6
  <2> QED
    BY <2>3, <2>4, <2>5, <2>6
<1> QED
  BY <1>10, <1>12, <1>13, <1>14 DEF MeshLegs

LEMMA BeginningKeepsMesh ==
  ASSUME TypeOK, LegsInv, Visited, MeshLegs, NEW d \in Device, NEW plan \in Plan,
         \/ Begin(d, plan) /\ Entering(d, plan.call, {})
         \/ Enter(d, plan) /\ Entering(d, plan.call, Told(d, plan))
  PROVE  MeshLegs'
<1>1. plan.call \in Device
  BY DEF Plan
<1>2. CASE Begin(d, plan) /\ Entering(d, plan.call, {})
  BY <1>1, <1>2, EnteringKeepsMesh DEF Begin
<1>3. CASE Enter(d, plan) /\ Entering(d, plan.call, Told(d, plan))
  BY <1>1, <1>3, EnteringKeepsMesh DEF Enter, Told
<1> QED
  BY <1>2, <1>3

-----------------------------------------------------------------------------
(* Every step, as far as the mesh is concerned.                             *)

\* Why d drops p: p has left, or one end of a leg between them has closed.
Gone(d, p) ==
    \/ call[d] \in Device /\ <<"leave", call[d]>> \in way[p][d]
    \/ \E n \in DOMAIN leg[d][p] : leg[d][p][n].near /\ leg[d][p][n].far = "shut"
    \/ \E n \in DOMAIN leg[p][d] : ~leg[p][d][n].near /\ leg[p][d][n].far = "open"

MeshStep ==
    \/ NobodyComes /\ UNCHANGED <<call, past, line, leg>>
    \/ \E d \in Device :
           NobodyComes /\ HangsUp(d, Device) /\ call' = [call EXCEPT ![d] = None]
    \/ \E d, p \in Device : NobodyComes /\ HangsUp(d, {p}) /\ UNCHANGED call /\ Gone(d, p)
    \/ \E d, p \in Device : \E n \in DOMAIN leg[d][p] : NobodyComes /\ Arriving(d, p, n)
    \/ \E s, d, c \in Device : \E t \in {"join", "here"} :
           \/ Meeting(s, d, t, c) /\ Connect(d, s)
           \/ Holding(s, d, t, c) /\ UNCHANGED <<line, leg>>
    \/ \E d \in Device : \E plan \in Plan :
           \/ Begin(d, plan) /\ Entering(d, plan.call, {})
           \/ Enter(d, plan) /\ Entering(d, plan.call, Told(d, plan))

LEMMA HeardIsMeshStep ==
  ASSUME TypeOK, LegsInv, NEW s \in Device, NEW d \in Device, Hears(s, d)
  PROVE  MeshStep
<1>1. CASE HearInvite(s, d) \/ HearUpgrade(s, d)
  BY <1>1, InviteMovesNothing DEF MeshStep
<1>2. CASE HearMember(s, d)
  <2> DEFINE m == Head(mail[s][d])
  <2>1. \/ Meeting(s, d, m.type, m.call) /\ Connect(d, s)
        \/ Holding(s, d, m.type, m.call) /\ UNCHANGED <<line, leg>>
    BY <1>2, MemberHeard
  <2>2. m.type \in {"join", "here"} /\ m.call \in Device
    BY <2>1 DEF Meeting, Holding
  <2> HIDE DEF m
  <2> QED
    BY <2>1, <2>2 DEF MeshStep
<1>3. CASE HearLeave(s, d)
  <2> DEFINE c == Head(mail[s][d]).call
  <2>1. /\ NobodyComes
        /\ c \in Device /\ <<"leave", c>> \in way[s][d]
        /\ \/ UNCHANGED <<call, past, line, leg>>
           \/ call[d] = c /\ HangsUp(d, Device) /\ call' = [call EXCEPT ![d] = None]
           \/ call[d] = c /\ HangsUp(d, {s}) /\ UNCHANGED call
    BY <1>3, LeaveTaken
  <2> HIDE DEF c
  <2>2. CASE UNCHANGED <<call, past, line, leg>>
    BY <2>1, <2>2 DEF MeshStep
  <2>3. CASE HangsUp(d, Device) /\ call' = [call EXCEPT ![d] = None]
    BY <2>1, <2>3 DEF MeshStep
  <2>4. CASE call[d] = c /\ HangsUp(d, {s}) /\ UNCHANGED call
    <3>1. Gone(d, s)
      BY <2>1, <2>4 DEF Gone
    <3> QED
      BY <2>1, <2>4, <3>1 DEF MeshStep
  <2> QED
    BY <2>1, <2>2, <2>3, <2>4
<1> QED
  BY <1>1, <1>2, <1>3 DEF Hears

LEMMA MediaIsMeshStep ==
  ASSUME TypeOK, LegsInv, NEW d \in Device, NEW p \in Device, Media(d, p)
  PROVE  MeshStep
<1> PICK n \in DOMAIN leg[d][p] : LegArrives(d, p, n) \/ NearCloses(d, p, n) \/ FarCloses(d, p, n)
  BY DEF Media
<1>1. CASE LegArrives(d, p, n)
  BY <1>1, OfferArrives DEF MeshStep
<1>2. CASE NearCloses(d, p, n)
  <2>1. Gone(d, p)
    BY <1>2 DEF NearCloses, Gone
  <2>2. NobodyComes /\ HangsUp(d, {p}) /\ UNCHANGED call
    BY <1>2, EndsClose
  <2> QED
    BY <2>1, <2>2 DEF MeshStep
<1>3. CASE FarCloses(d, p, n)
  <2>1. Gone(p, d)
    BY <1>3 DEF FarCloses, Gone
  <2>2. NobodyComes /\ HangsUp(p, {d}) /\ UNCHANGED call
    BY <1>3, EndsClose
  <2> QED
    BY <2>1, <2>2 DEF MeshStep
<1> QED
  BY <1>1, <1>2, <1>3

LEMMA StepsAreMeshSteps ==
  ASSUME TypeOK, LegsInv, [Next]_vars
  PROVE  MeshStep
<1>1. ASSUME NEW d \in Device, NEW people \in SUBSET Device,
             StartCall(d, people) \/ GrowPair(d, people) \/ AddPeople(d, people)
      PROVE  MeshStep
  BY <1>1, AskingMovesNothing DEF MeshStep
<1>2. ASSUME NEW d \in Device,
             Accept(d) \/ CardGoes(d) \/ PairCloses(d) \/ HangUp(d) \/ LastPairFades(d)
      PROVE  MeshStep
  BY <1>2, SmallStepsMoveNothing DEF MeshStep
<1>3. ASSUME NEW d \in Device, GoesStale(d) PROVE MeshStep
  BY <1>3, HeldAreLost DEF MeshStep
<1>4. ASSUME NEW d \in Device, Asked(d) PROVE MeshStep
  <2> PICK i \in DOMAIN opening[d] : MicOpens(d, i) \/ MicRefused(d, i) \/ Grown(d, i)
    BY <1>4 DEF Asked
  <2> DEFINE plan == opening[d][i]
  <2>1. /\ plan \in Plan
        /\ \/ NobodyComes /\ UNCHANGED <<call, past, line, leg>>
           \/ Begin(d, plan) /\ Entering(d, plan.call, {})
           \/ Enter(d, plan) /\ Entering(d, plan.call, Told(d, plan))
    BY MicrophoneEnters
  <2> HIDE DEF plan
  <2> QED
    BY <2>1 DEF MeshStep
<1>5. ASSUME NEW d \in Device, Leave(d) \/ Reload(d) PROVE MeshStep
  BY <1>5, GoingHangsUp DEF MeshStep
<1>6. ASSUME NEW s \in Device, NEW d \in Device, Hears(s, d) PROVE MeshStep
  BY <1>6, HeardIsMeshStep
<1>7. ASSUME NEW d \in Device, NEW p \in Device, Media(d, p) PROVE MeshStep
  BY <1>7, MediaIsMeshStep
<1>8. ASSUME UNCHANGED <<call, past, line, leg, held, stale, mail>> PROVE MeshStep
  <2>1. NobodyComes
    BY <1>8, SameMail, NothingMoved
  <2> QED
    BY <1>8, <2>1 DEF MeshStep
<1>9. ASSUME NEW d \in Device, NEW p \in Device, SeatTimer(d, p) PROVE MeshStep
  BY <1>8, <1>9 DEF SeatTimer, bounds
<1>10. CASE UNCHANGED vars
  BY <1>8, <1>10 DEF vars, mine, bounds
<1> QED
  BY <1>1, <1>2, <1>3, <1>4, <1>5, <1>6, <1>7, <1>9, <1>10 DEF Next

LEMMA VisitsAreKept == Spec => []Visited
<1>1. TypeOK /\ LegsInv /\ Visited /\ [Next]_vars => Visited'
  <2> SUFFICES ASSUME TypeOK, LegsInv, Visited, [Next]_vars PROVE Visited'
    OBVIOUS
  <2>1. MeshStep
    BY StepsAreMeshSteps
  <2>2. CASE NobodyComes
    BY <2>2, VisitedWhenNobodyComes
  <2>3. ASSUME NEW s \in Device, NEW d \in Device, NEW c \in Device, NEW t \in {"join", "here"},
               Meeting(s, d, t, c) \/ Holding(s, d, t, c)
        PROVE  Visited'
    BY <2>3, VisitedWhenHeard
  <2>4. ASSUME NEW d \in Device, NEW c, NEW told, Entering(d, c, told)
        PROVE  Visited'
    BY <2>4, VisitedWhenEntering
  <2> QED
    BY <2>1, <2>2, <2>3, <2>4 DEF MeshStep
<1> QED
  BY <1>1, VisitedInit, TypeCorrect, LegsAreSound, PTL DEF Spec

\* Who came once is dropped by nobody in its call.
LEMMA NewcomersStay ==
  ASSUME TypeOK, LegsInv, Visited, MeshLegs, NEW d \in Device, NEW p \in Device, Gone(d, p),
         d \in Newcomers, p \in Newcomers, call[p] = call[d]
  PROVE  FALSE
<1>1. CASE call[d] \in Device /\ <<"leave", call[d]>> \in way[p][d]
  <2>1. visits[p][call[d]] = 2
    BY <1>1 DEF Visited, BackIsTwice
  <2>2. visits[p][call[d]] < 2
    BY <1>1 DEF Newcomers, Once
  <2> QED
    BY <2>1, <2>2
<1>2. ASSUME NEW n \in DOMAIN leg[d][p], leg[d][p][n].near, leg[d][p][n].far = "shut"
      PROVE  FALSE
  <2>1. call[d] = leg[d][p][n].call
    BY <1>2, LegOf
  <2> QED
    BY <1>2, <2>1 DEF MeshLegs, Up
<1>3. ASSUME NEW n \in DOMAIN leg[p][d], ~leg[p][d][n].near, leg[p][d][n].far = "open"
      PROVE  FALSE
  <2>1. call[d] = leg[p][d][n].call
    BY <1>3 DEF MeshLegs, OpenIsHeld
  <2> QED
    BY <1>3, <2>1 DEF MeshLegs, Up
<1> QED
  BY <1>1, <1>2, <1>3 DEF Gone

LEMMA MeshLegsAreKept == Spec => []MeshLegs
<1>1. TypeOK /\ LegsInv /\ Visited /\ MeshLegs /\ [Next]_vars => MeshLegs'
  <2> SUFFICES ASSUME TypeOK, LegsInv, Visited, MeshLegs, [Next]_vars PROVE MeshLegs'
    OBVIOUS
  <2>1. MeshStep
    BY StepsAreMeshSteps
  <2>2. CASE UNCHANGED <<call, past, line, leg>>
    BY <2>2, MeshLegsStay
  <2>3. ASSUME NEW d \in Device, HangsUp(d, Device), call' = [call EXCEPT ![d] = None]
        PROVE  MeshLegs'
    <3>1. call'[d] = None
      BY <2>3 DEF TypeOK
    <3> QED
      BY <2>3, <3>1, HangingUpKeepsMesh
  <2>4. ASSUME NEW d \in Device, NEW p \in Device, HangsUp(d, {p}), Gone(d, p)
        PROVE  MeshLegs'
    <3>1. ~(d \in Newcomers /\ p \in Newcomers /\ call[p] = call[d])
      BY <2>4, NewcomersStay
    <3> QED
      BY <2>4, <3>1, HangingUpKeepsMesh
  <2>5. ASSUME NEW d \in Device, NEW p \in Device, NEW n, Arriving(d, p, n)
        PROVE  MeshLegs'
    BY <2>5, ArrivalKeepsMesh
  <2>6. ASSUME NEW s \in Device, NEW d \in Device, NEW c \in Device, NEW t \in {"join", "here"},
               Meeting(s, d, t, c), Connect(d, s)
        PROVE  MeshLegs'
    BY <2>6, ConnectingKeepsMesh
  <2>7. ASSUME NEW s \in Device, NEW d \in Device, NEW c \in Device, NEW t \in {"join", "here"},
               Holding(s, d, t, c), UNCHANGED <<line, leg>>
        PROVE  MeshLegs'
    BY <2>2, <2>7 DEF Holding
  <2>8. ASSUME NEW d \in Device, NEW plan \in Plan,
               \/ Begin(d, plan) /\ Entering(d, plan.call, {})
               \/ Enter(d, plan) /\ Entering(d, plan.call, Told(d, plan))
        PROVE  MeshLegs'
    BY <2>8, BeginningKeepsMesh
  <2> QED
    BY <2>1, <2>2, <2>3, <2>4, <2>5, <2>6, <2>7, <2>8 DEF MeshStep
<1> QED
  BY <1>1, MeshLegsInit, TypeCorrect, LegsAreSound, VisitsAreKept, PTL DEF Spec

-----------------------------------------------------------------------------
(* Words of arrival.  What one told another on entering its call is under   *)
(* way, held, or has been acted upon: the other was in the call already, or *)
(* came and answered, and whichever of the two dials has dialled or is      *)
(* being asked to.  Of two who told each other, nothing need be held.       *)

Come ==
    \A x, y \in Newcomers : \A c \in Device :
        call[x] = c /\ y \in greeted[x] /\ x # y =>
            \/ <<"join", c>> \in way[x][y]
            \/ /\ call[y] = c
               /\ \/ c \in tie[x][y] \/ c \in tie[y][x]
                  \/ Rank[x] < Rank[y] /\ <<"here", c>> \in way[y][x]
            \/ visits[y][c] = 0 /\ <<x, "join", c>> \in kept[y]
            \/ visits[y][c] # 0 /\ call[y] # c
            \/ stale # 0
Both ==
    \A x, y \in Newcomers : \A c \in Device :
        call[x] = c /\ call[y] = c /\ y \in greeted[x] /\ x \in greeted[y]
                /\ Rank[x] < Rank[y] =>
            \/ <<"join", c>> \in way[x][y] \/ <<"join", c>> \in way[y][x]
            \/ <<"here", c>> \in way[y][x]
            \/ c \in tie[x][y] \/ c \in tie[y][x]

LEMMA ComeInit == Init => Come /\ Both
<1> SUFFICES ASSUME Init PROVE Come /\ Both
  OBVIOUS
<1>1. \A x \in Device : call[x] = None
  BY DEF Init
<1>2. Newcomers \in SUBSET Device
  BY DEF Newcomers
<1>3. \A x \in Newcomers : \A c \in Device : call[x] # c
  BY <1>1, <1>2, NobodyIsNone
<1> QED
  BY <1>3 DEF Come, Both

LEMMA ComeWhenNobodyComes ==
  ASSUME TypeOK, Visited, Come, Both, NobodyComes
  PROVE  Come' /\ Both'
<1>1. /\ Newcomers' = Newcomers /\ Newcomers \in SUBSET Device
      /\ greeted' = greeted /\ visits' = visits
  BY SameNewcomers DEF NobodyComes, past, Newcomers
<1>2. /\ \A x \in Device : call'[x] = call[x] \/ call'[x] = None
      /\ \A x, y, c \in Device :
             /\ <<"join", c>> \in way'[x][y] <=> <<"join", c>> \in way[x][y]
             /\ <<"here", c>> \in way'[x][y] <=> <<"here", c>> \in way[x][y]
      /\ \A x, y \in Device : tie'[x][y] = tie[x][y]
      /\ stale' = stale \/ stale' = stale + 1
      /\ stale' = stale => \A x \in Device : kept'[x] = kept[x]
  BY DEF NobodyComes
<1>3. stale' = stale \/ stale' # 0
  <2>1. stale \in Nat
    BY DEF TypeOK
  <2> QED
    BY <1>2, <2>1
<1>4. Come'
  <2> SUFFICES ASSUME NEW x \in Newcomers, NEW y \in Newcomers, NEW c \in Device,
                      call'[x] = c, y \in greeted[x], x # y, stale' = stale
               PROVE  \/ <<"join", c>> \in way'[x][y]
                      \/ /\ call'[y] = c
                         /\ \/ c \in tie'[x][y] \/ c \in tie'[y][x]
                            \/ Rank[x] < Rank[y] /\ <<"here", c>> \in way'[y][x]
                      \/ visits[y][c] = 0 /\ <<x, "join", c>> \in kept'[y]
                      \/ visits[y][c] # 0 /\ call'[y] # c
                      \/ stale # 0
    BY <1>1, <1>3 DEF Come
  <2>1. x \in Device /\ y \in Device /\ call[x] = c /\ c # None
    BY <1>1, <1>2, NobodyIsNone
  <2>2. \/ <<"join", c>> \in way[x][y]
        \/ /\ call[y] = c
           /\ \/ c \in tie[x][y] \/ c \in tie[y][x]
              \/ Rank[x] < Rank[y] /\ <<"here", c>> \in way[y][x]
        \/ visits[y][c] = 0 /\ <<x, "join", c>> \in kept[y]
        \/ visits[y][c] # 0 /\ call[y] # c
        \/ stale # 0
    BY <2>1 DEF Come
  <2>3. call[y] = c => visits[y][c] # 0
    BY <2>1 DEF Visited, CallsAreVisits
  <2>4. call'[y] = call[y] \/ call'[y] # c
    BY <1>2, <2>1
  <2>5. /\ <<"join", c>> \in way[x][y] => <<"join", c>> \in way'[x][y]
        /\ <<"here", c>> \in way[y][x] => <<"here", c>> \in way'[y][x]
        /\ tie'[x][y] = tie[x][y] /\ tie'[y][x] = tie[y][x] /\ kept'[y] = kept[y]
    BY <1>2, <2>1
  <2> QED
    BY <2>2, <2>3, <2>4, <2>5
<1>5. Both'
  <2> SUFFICES ASSUME NEW x \in Newcomers, NEW y \in Newcomers, NEW c \in Device,
                      call'[x] = c, call'[y] = c,
                      y \in greeted[x], x \in greeted[y], Rank[x] < Rank[y]
               PROVE  \/ <<"join", c>> \in way'[x][y] \/ <<"join", c>> \in way'[y][x]
                      \/ <<"here", c>> \in way'[y][x]
                      \/ c \in tie'[x][y] \/ c \in tie'[y][x]
    BY <1>1 DEF Both
  <2>1. x \in Device /\ y \in Device /\ call[x] = c /\ call[y] = c
    BY <1>1, <1>2, NobodyIsNone
  <2>2. \/ <<"join", c>> \in way[x][y] \/ <<"join", c>> \in way[y][x]
        \/ <<"here", c>> \in way[y][x]
        \/ c \in tie[x][y] \/ c \in tie[y][x]
    BY <2>1 DEF Both
  <2> QED
    BY <1>2, <2>1, <2>2
<1> QED
  BY <1>4, <1>5

\* Whoever is to dial and hears of a member in its call has dialled it then.
LEMMA MetIsTied ==
  ASSUME MeshLegs, NEW s \in Device, NEW d \in Device, NEW t, NEW c,
         Meeting(s, d, t, c), Rank[d] < Rank[s]
  PROVE  c \in tie'[d][s]
<1>1. /\ c \in Device /\ call[d] = c
      /\ tie'[d][s] = tie[d][s] \cup
             IF d = d /\ s = s /\ line[d][s] = NoCall /\ Rank[d] < Rank[s] THEN {c} ELSE {}
  BY DEF Meeting
<1>2. line[d][s] # NoCall => c \in tie[d][s]
  BY <1>1 DEF MeshLegs, DialledForThisCall
<1> QED
  BY <1>1, <1>2

LEMMA RanksDiffer ==
  ASSUME NEW x \in Device, NEW y \in Device, x # y
  PROVE  Rank[x] < Rank[y] \/ Rank[y] < Rank[x]
<1>1. Rank[x] \in Nat /\ Rank[y] \in Nat /\ Rank[x] # Rank[y]
  BY RankOrders
<1> QED
  BY <1>1

LEMMA ComeWhenMeeting ==
  ASSUME TypeOK, MeshLegs, Come, Both, NEW s \in Device, NEW d \in Device, NEW t, NEW c0,
         Meeting(s, d, t, c0)
  PROVE  Come' /\ Both'
<1>1. /\ Newcomers' = Newcomers /\ Newcomers \in SUBSET Device
      /\ UNCHANGED <<call, greeted, visits, stale, kept>>
      /\ t \in {"join", "here"} /\ c0 \in Device /\ call[d] = c0
      /\ t = "join" => <<"here", c0>> \in way'[d][s]
  BY SameNewcomers DEF Meeting, past, Newcomers
<1>2. ASSUME NEW x \in Device, NEW y \in Device
      PROVE  /\ \A e, c : <<e, c>> \in way[x][y] /\ ~(x = s /\ y = d /\ e = t /\ c = c0)
                              => <<e, c>> \in way'[x][y]
             /\ tie[x][y] \subseteq tie'[x][y]
  <2>1. /\ way[x][y] \subseteq way'[x][y] \cup (IF x = s /\ y = d THEN {<<t, c0>>} ELSE {})
        /\ tie'[x][y] = tie[x][y] \cup
               IF x = d /\ y = s /\ line[d][s] = NoCall /\ Rank[d] < Rank[s] THEN {c0} ELSE {}
    BY DEF Meeting
  <2> QED
    BY <2>1
<1>3. Rank[d] < Rank[s] => c0 \in tie'[d][s]
  BY MetIsTied
<1>4. Come'
  <2> SUFFICES ASSUME NEW x \in Newcomers, NEW y \in Newcomers, NEW c \in Device,
                      call[x] = c, y \in greeted[x], x # y
               PROVE  \/ <<"join", c>> \in way'[x][y]
                      \/ /\ call[y] = c
                         /\ \/ c \in tie'[x][y] \/ c \in tie'[y][x]
                            \/ Rank[x] < Rank[y] /\ <<"here", c>> \in way'[y][x]
                      \/ visits[y][c] = 0 /\ <<x, "join", c>> \in kept[y]
                      \/ visits[y][c] # 0 /\ call[y] # c
                      \/ stale # 0
    BY <1>1 DEF Come
  <2>1. x \in Device /\ y \in Device
    BY <1>1
  <2>2. \/ <<"join", c>> \in way[x][y]
        \/ /\ call[y] = c
           /\ \/ c \in tie[x][y] \/ c \in tie[y][x]
              \/ Rank[x] < Rank[y] /\ <<"here", c>> \in way[y][x]
        \/ visits[y][c] = 0 /\ <<x, "join", c>> \in kept[y]
        \/ visits[y][c] # 0 /\ call[y] # c
        \/ stale # 0
    BY DEF Come
  <2>3. CASE x = s /\ y = d /\ t = "join" /\ c = c0
    <3>1. call[y] = c /\ <<"here", c>> \in way'[y][x]
      BY <1>1, <2>3
    <3>2. Rank[x] < Rank[y] \/ Rank[y] < Rank[x]
      BY <2>1, RanksDiffer
    <3>3. Rank[y] < Rank[x] => c \in tie'[y][x]
      BY <1>3, <2>3
    <3> QED
      BY <3>1, <3>2, <3>3
  <2>4. CASE y = s /\ x = d /\ t = "here" /\ c = c0
    <3>1. Rank[x] < Rank[y] => c \in tie'[x][y]
      BY <1>3, <2>4
    <3>2. ~(x = s /\ y = d /\ "join" = t /\ c = c0)
      BY <2>4
    <3>3. <<"join", c>> \in way[x][y] => <<"join", c>> \in way'[x][y]
      BY <1>2, <2>1, <3>2
    <3>4. tie[x][y] \subseteq tie'[x][y] /\ tie[y][x] \subseteq tie'[y][x]
      BY <1>2, <2>1
    <3> QED
      BY <2>2, <3>1, <3>3, <3>4
  <2>5. CASE ~(x = s /\ y = d /\ t = "join" /\ c = c0) /\ ~(y = s /\ x = d /\ t = "here" /\ c = c0)
    <3>1. <<"join", c>> \in way[x][y] => <<"join", c>> \in way'[x][y]
      BY <1>2, <2>1, <2>5
    <3>2. <<"here", c>> \in way[y][x] => <<"here", c>> \in way'[y][x]
      BY <1>2, <2>1, <2>5
    <3>4. tie[x][y] \subseteq tie'[x][y] /\ tie[y][x] \subseteq tie'[y][x]
      BY <1>2, <2>1
    <3> QED
      BY <2>2, <3>1, <3>2, <3>4
  <2> QED
    BY <2>3, <2>4, <2>5
<1>5. Both'
  <2> SUFFICES ASSUME NEW x \in Newcomers, NEW y \in Newcomers, NEW c \in Device,
                      call[x] = c, call[y] = c,
                      y \in greeted[x], x \in greeted[y], Rank[x] < Rank[y]
               PROVE  \/ <<"join", c>> \in way'[x][y] \/ <<"join", c>> \in way'[y][x]
                      \/ <<"here", c>> \in way'[y][x]
                      \/ c \in tie'[x][y] \/ c \in tie'[y][x]
    BY <1>1 DEF Both
  <2>1. x \in Device /\ y \in Device
    BY <1>1
  <2>2. \/ <<"join", c>> \in way[x][y] \/ <<"join", c>> \in way[y][x]
        \/ <<"here", c>> \in way[y][x]
        \/ c \in tie[x][y] \/ c \in tie[y][x]
    BY DEF Both
  <2>3. tie[x][y] \subseteq tie'[x][y] /\ tie[y][x] \subseteq tie'[y][x]
    BY <1>2, <2>1
  <2>4. CASE x = d /\ y = s /\ c = c0
    BY <1>3, <2>4
  <2>5. CASE ~(x = d /\ y = s /\ c = c0)
    <3>1. /\ <<"join", c>> \in way[y][x] => <<"join", c>> \in way'[y][x]
          /\ <<"here", c>> \in way[y][x] => <<"here", c>> \in way'[y][x]
      BY <1>2, <2>1, <2>5
    <3>2. CASE x = s /\ y = d /\ t = "join" /\ c = c0
      BY <1>1, <3>2
    <3>3. CASE ~(x = s /\ y = d /\ t = "join" /\ c = c0)
      <4>1. <<"join", c>> \in way[x][y] => <<"join", c>> \in way'[x][y]
        BY <1>2, <2>1, <3>3
      <4> QED
        BY <2>2, <2>3, <3>1, <4>1
    <3> QED
      BY <3>2, <3>3
  <2> QED
    BY <2>4, <2>5
<1> QED
  BY <1>4, <1>5

LEMMA ComeWhenHeld ==
  ASSUME TypeOK, Come, Both, NEW s \in Device, NEW d \in Device, NEW t, NEW c0,
         Holding(s, d, t, c0)
  PROVE  Come' /\ Both'
<1>1. /\ Newcomers' = Newcomers /\ Newcomers \in SUBSET Device
      /\ UNCHANGED <<call, greeted, visits>>
      /\ t \in {"join", "here"} /\ c0 \in Device /\ call[d] # c0
      /\ <<s, t, c0>> \in kept'[d]
      /\ stale' = stale \/ stale' = stale + 1
      /\ stale' = stale => \A y \in Device : kept[y] \subseteq kept'[y]
  BY SameNewcomers DEF Holding, past, Newcomers
<1>2. ASSUME NEW x \in Device, NEW y \in Device
      PROVE  /\ \A e, c : <<e, c>> \in way[x][y] /\ ~(x = s /\ y = d /\ e = t /\ c = c0)
                              => <<e, c>> \in way'[x][y]
             /\ tie'[x][y] = tie[x][y]
  <2>1. way[x][y] \subseteq way'[x][y] \cup (IF x = s /\ y = d THEN {<<t, c0>>} ELSE {})
    BY DEF Holding
  <2>2. tie'[x][y] = tie[x][y]
    BY DEF Holding
  <2> QED
    BY <2>1, <2>2
<1>3. stale' = stale \/ stale' # 0
  <2>1. stale \in Nat
    BY DEF TypeOK
  <2> QED
    BY <1>1, <2>1
<1>4. Come'
  <2> SUFFICES ASSUME NEW x \in Newcomers, NEW y \in Newcomers, NEW c \in Device,
                      call[x] = c, y \in greeted[x], x # y, stale' = stale
               PROVE  \/ <<"join", c>> \in way'[x][y]
                      \/ /\ call[y] = c
                         /\ \/ c \in tie'[x][y] \/ c \in tie'[y][x]
                            \/ Rank[x] < Rank[y] /\ <<"here", c>> \in way'[y][x]
                      \/ visits[y][c] = 0 /\ <<x, "join", c>> \in kept'[y]
                      \/ visits[y][c] # 0 /\ call[y] # c
                      \/ stale # 0
    BY <1>1, <1>3 DEF Come
  <2>1. x \in Device /\ y \in Device
    BY <1>1
  <2>2. \/ <<"join", c>> \in way[x][y]
        \/ /\ call[y] = c
           /\ \/ c \in tie[x][y] \/ c \in tie[y][x]
              \/ Rank[x] < Rank[y] /\ <<"here", c>> \in way[y][x]
        \/ visits[y][c] = 0 /\ <<x, "join", c>> \in kept[y]
        \/ visits[y][c] # 0 /\ call[y] # c
        \/ stale # 0
    BY DEF Come
  <2>3. tie'[x][y] = tie[x][y] /\ tie'[y][x] = tie[y][x] /\ kept[y] \subseteq kept'[y]
    BY <1>1, <1>2, <2>1
  <2>4. <<"here", c>> \in way[y][x] => <<"here", c>> \in way'[y][x]
    <3>1. ~(y = s /\ x = d /\ "here" = t /\ c = c0)
      BY <1>1
    <3> QED
      BY <1>2, <2>1, <3>1
  <2>5. CASE x = s /\ y = d /\ t = "join" /\ c = c0
    BY <1>1, <2>5
  <2>6. CASE ~(x = s /\ y = d /\ t = "join" /\ c = c0)
    <3>1. <<"join", c>> \in way[x][y] => <<"join", c>> \in way'[x][y]
      BY <1>2, <2>1, <2>6
    <3> QED
      BY <2>2, <2>3, <2>4, <3>1
  <2> QED
    BY <2>5, <2>6
<1>5. Both'
  <2> SUFFICES ASSUME NEW x \in Newcomers, NEW y \in Newcomers, NEW c \in Device,
                      call[x] = c, call[y] = c,
                      y \in greeted[x], x \in greeted[y], Rank[x] < Rank[y]
               PROVE  \/ <<"join", c>> \in way'[x][y] \/ <<"join", c>> \in way'[y][x]
                      \/ <<"here", c>> \in way'[y][x]
                      \/ c \in tie'[x][y] \/ c \in tie'[y][x]
    BY <1>1 DEF Both
  <2>1. x \in Device /\ y \in Device
    BY <1>1
  <2>2. \/ <<"join", c>> \in way[x][y] \/ <<"join", c>> \in way[y][x]
        \/ <<"here", c>> \in way[y][x]
        \/ c \in tie[x][y] \/ c \in tie[y][x]
    BY DEF Both
  <2>3. tie'[x][y] = tie[x][y] /\ tie'[y][x] = tie[y][x]
    BY <1>2, <2>1
  <2>4. ~(y = d /\ c = c0) /\ ~(x = d /\ c = c0)
    BY <1>1
  <2>5. /\ <<"join", c>> \in way[x][y] => <<"join", c>> \in way'[x][y]
        /\ <<"join", c>> \in way[y][x] => <<"join", c>> \in way'[y][x]
        /\ <<"here", c>> \in way[y][x] => <<"here", c>> \in way'[y][x]
    BY <1>2, <2>1, <2>4
  <2> QED
    BY <2>2, <2>3, <2>5
<1> QED
  BY <1>4, <1>5

LEMMA ComeWhenEntering ==
  ASSUME TypeOK, Visited, Come, Both, NEW d \in Device, NEW c0, NEW told,
         Entering(d, c0, told)
  PROVE  Come' /\ Both'
<1>1. /\ c0 \in Device /\ visits'[d][c0] # 0
      /\ visits[d][c0] # 0 => visits'[d][c0] = 2
      /\ \A x, k \in Device : ~(x = d /\ k = c0) => visits'[x][k] = visits[x][k]
      /\ call'[d] = c0 /\ \A x \in Device : x # d => call'[x] = call[x]
  BY VisitsGrow
<1>2. /\ Newcomers' \subseteq Newcomers /\ Newcomers \in SUBSET Device
      /\ d \in Newcomers' => visits[d][c0] = 0
  BY NewcomersEnter
<1>3. /\ greeted'[d] = told /\ \A x \in Device : x # d => greeted'[x] = greeted[x]
      /\ \A x \in Device : x # d => kept'[x] = kept[x]
      /\ stale' = stale \/ stale' = stale + 1
      /\ stale' = stale => \A p, k \in Device : \A t \in MemberTypes :
             <<p, t, k>> \in kept[d] => k = c0
  <2>1. greeted \in [Device -> SUBSET Device]
    BY DEF TypeOK
  <2>2. greeted' = [greeted EXCEPT ![d] = told]
    BY DEF Entering
  <2>3. greeted'[d] = told /\ \A x \in Device : x # d => greeted'[x] = greeted[x]
    BY <2>1, <2>2
  <2> QED
    BY <2>3 DEF Entering
<1>4. stale' = stale \/ stale' # 0
  <2>1. stale \in Nat
    BY DEF TypeOK
  <2> QED
    BY <1>3, <2>1
<1>5. ASSUME NEW x \in Device, NEW y \in Device
      PROVE  /\ \A e, c : <<e, c>> \in way[x][y] => <<e, c>> \in way'[x][y]
             /\ x = d /\ y \in told => <<"join", c0>> \in way'[x][y]
             /\ x = d /\ <<y, "join", c0>> \in kept[d] => <<"here", c0>> \in way'[x][y]
             /\ tie[x][y] \subseteq tie'[x][y]
             /\ x = d /\ Rank[d] < Rank[y] /\ <<y, "join", c0>> \in kept[d] => c0 \in tie'[x][y]
  <2>1. \A e, c : <<e, c>> \in way[x][y] => <<e, c>> \in way'[x][y]
    BY EnteringSays
  <2>2. x = d /\ y \in told => <<"join", c0>> \in way'[x][y]
    <3>1. <<"join", c0>> \in way'[x][y] <=>
              \/ <<"join", c0>> \in way[x][y]
              \/ /\ x = d /\ c0 = c0
                 /\ \/ "join" = "join" /\ y \in told
                    \/ "join" = "here" /\ <<y, "join", c0>> \in kept[d]
      BY EnteringSays
    <3> QED
      BY <3>1
  <2>3. x = d /\ <<y, "join", c0>> \in kept[d] => <<"here", c0>> \in way'[x][y]
    BY EnteringSays
  <2>4. tie'[x][y] = tie[x][y] \cup
           IF x = d /\ Rank[d] < Rank[y] /\ (\E t \in MemberTypes : <<y, t, c0>> \in kept[d])
           THEN {c0} ELSE {}
    BY DEF Entering
  <2>5. "join" \in MemberTypes
    BY DEF MemberTypes
  <2> QED
    BY <2>1, <2>2, <2>3, <2>4, <2>5
<1>6. Come'
  <2> SUFFICES ASSUME NEW x \in Newcomers', NEW y \in Newcomers', NEW c \in Device,
                      call'[x] = c, y \in greeted'[x], x # y, stale' = stale
               PROVE  \/ <<"join", c>> \in way'[x][y]
                      \/ /\ call'[y] = c
                         /\ \/ c \in tie'[x][y] \/ c \in tie'[y][x]
                            \/ Rank[x] < Rank[y] /\ <<"here", c>> \in way'[y][x]
                      \/ visits'[y][c] = 0 /\ <<x, "join", c>> \in kept'[y]
                      \/ visits'[y][c] # 0 /\ call'[y] # c
                      \/ stale # 0
    BY <1>4 DEF Come
  <2>1. x \in Device /\ y \in Device /\ x \in Newcomers /\ y \in Newcomers
    BY <1>2
  <2>2. CASE x = d
    BY <1>1, <1>3, <1>5, <2>1, <2>2
  <2>3. CASE x # d
    <3>1. call[x] = c /\ y \in greeted[x]
      BY <1>1, <1>3, <2>1, <2>3
    <3>2. \/ <<"join", c>> \in way[x][y]
          \/ /\ call[y] = c
             /\ \/ c \in tie[x][y] \/ c \in tie[y][x]
                \/ Rank[x] < Rank[y] /\ <<"here", c>> \in way[y][x]
          \/ visits[y][c] = 0 /\ <<x, "join", c>> \in kept[y]
          \/ visits[y][c] # 0 /\ call[y] # c
          \/ stale # 0
      BY <2>1, <3>1 DEF Come
    <3>3. /\ <<"join", c>> \in way[x][y] => <<"join", c>> \in way'[x][y]
          /\ <<"here", c>> \in way[y][x] => <<"here", c>> \in way'[y][x]
          /\ tie[x][y] \subseteq tie'[x][y] /\ tie[y][x] \subseteq tie'[y][x]
      BY <1>5, <2>1
    <3>4. CASE y = d
      <4>1. visits[d][c0] = 0
        BY <1>2, <3>4
      <4>2. call[d] = c => visits[d][c] # 0
        BY DEF Visited, CallsAreVisits
      <4>3. CASE visits[d][c] # 0
        <5>1. c # c0
          BY <4>1, <4>3
        <5>2. visits'[d][c] # 0 /\ call'[d] # c
          BY <1>1, <4>3, <5>1
        <5> QED
          BY <3>4, <5>2
      <4>4. CASE visits[d][c] = 0 /\ <<x, "join", c>> \in kept[d]
        <5>1. "join" \in MemberTypes
          BY DEF MemberTypes
        <5>2. c = c0
          BY <1>3, <2>1, <4>4, <5>1
        <5>3. <<"here", c>> \in way'[d][x] /\ (Rank[d] < Rank[x] => c \in tie'[d][x])
          BY <1>5, <2>1, <4>4, <5>2
        <5>4. Rank[x] < Rank[d] \/ Rank[d] < Rank[x]
          BY <2>1, <2>3, RanksDiffer
        <5> QED
          BY <1>1, <3>4, <5>2, <5>3, <5>4
      <4> QED
        BY <3>2, <3>3, <3>4, <4>2, <4>3, <4>4
    <3>5. CASE y # d
      <4>1. call'[y] = call[y] /\ kept'[y] = kept[y] /\ visits'[y][c] = visits[y][c]
        BY <1>1, <1>3, <2>1, <3>5
      <4> QED
        BY <3>2, <3>3, <4>1
    <3> QED
      BY <3>4, <3>5
  <2> QED
    BY <2>2, <2>3
<1>7. Both'
  <2> SUFFICES ASSUME NEW x \in Newcomers', NEW y \in Newcomers', NEW c \in Device,
                      call'[x] = c, call'[y] = c,
                      y \in greeted'[x], x \in greeted'[y], Rank[x] < Rank[y]
               PROVE  \/ <<"join", c>> \in way'[x][y] \/ <<"join", c>> \in way'[y][x]
                      \/ <<"here", c>> \in way'[y][x]
                      \/ c \in tie'[x][y] \/ c \in tie'[y][x]
    BY DEF Both
  <2>1. x \in Device /\ y \in Device /\ x \in Newcomers /\ y \in Newcomers
    BY <1>2
  <2>2. CASE x = d
    BY <1>1, <1>3, <1>5, <2>1, <2>2
  <2>3. CASE y = d
    BY <1>1, <1>3, <1>5, <2>1, <2>3
  <2>4. CASE x # d /\ y # d
    <3>1. call[x] = c /\ call[y] = c /\ y \in greeted[x] /\ x \in greeted[y]
      BY <1>1, <1>3, <2>1, <2>4
    <3>2. \/ <<"join", c>> \in way[x][y] \/ <<"join", c>> \in way[y][x]
          \/ <<"here", c>> \in way[y][x]
          \/ c \in tie[x][y] \/ c \in tie[y][x]
      BY <2>1, <3>1 DEF Both
    <3> QED
      BY <1>5, <2>1, <3>2
  <2> QED
    BY <2>2, <2>3, <2>4
<1> QED
  BY <1>6, <1>7

LEMMA WordsAreKept == Spec => [](Come /\ Both)
<1>1. TypeOK /\ LegsInv /\ Visited /\ MeshLegs /\ (Come /\ Both) /\ [Next]_vars
          => (Come /\ Both)'
  <2> SUFFICES ASSUME TypeOK, LegsInv, Visited, MeshLegs, Come, Both, [Next]_vars
               PROVE  Come' /\ Both'
    OBVIOUS
  <2>1. MeshStep
    BY StepsAreMeshSteps
  <2>2. CASE NobodyComes
    BY <2>2, ComeWhenNobodyComes
  <2>3. ASSUME NEW s \in Device, NEW d \in Device, NEW c \in Device, NEW t \in {"join", "here"},
               Meeting(s, d, t, c)
        PROVE  Come' /\ Both'
    BY <2>3, ComeWhenMeeting
  <2>4. ASSUME NEW s \in Device, NEW d \in Device, NEW c \in Device, NEW t \in {"join", "here"},
               Holding(s, d, t, c)
        PROVE  Come' /\ Both'
    BY <2>4, ComeWhenHeld
  <2>5. ASSUME NEW d \in Device, NEW c, NEW told, Entering(d, c, told)
        PROVE  Come' /\ Both'
    BY <2>5, ComeWhenEntering
  <2> QED
    BY <2>1, <2>2, <2>3, <2>4, <2>5 DEF MeshStep
<1> QED
  BY <1>1, ComeInit, TypeCorrect, LegsAreSound, VisitsAreKept, MeshLegsAreKept, PTL DEF Spec

-----------------------------------------------------------------------------
(* Whoever began a call is known to all who join it: every invite and       *)
(* upgrade names its sender's call's starter among the people, and so do    *)
(* the cards and the plans made of them.                                    *)

NamedSignal == {m \in Signal : m.type \in {"invite", "upgrade"} => m.call \in m.roster}
PlansOf(d) == {plan \in Plan : IF plan.kind = "join" THEN plan.call \in plan.roster
                               ELSE plan.call = d}

LettersName == mail \in [Device -> [Device -> Seq(NamedSignal)]]
CardsName == \A d \in Device : card[d].call # None => card[d].call \in card[d].roster
PlansName == \A d \in Device : opening[d] \in Seq(PlansOf(d))
StarterTold ==
    \A d \in Device : call[d] \in Device /\ call[d] # d
        => call[d] \in roster[d] /\ call[d] \in greeted[d]

Named == LettersName /\ CardsName /\ PlansName /\ StarterTold

LEMMA NamedSent ==
  ASSUME LettersName, NEW d \in Device, NEW out \in [Device -> Seq(NamedSignal)],
         mail' = Sent(d, out)
  PROVE  LettersName'
<1>1. \A p \in Device : mail[d][p] \o out[p] \in Seq(NamedSignal)
  BY Behind DEF LettersName
<1> QED
  BY <1>1 DEF Sent, LettersName

LEMMA NamedTook ==
  ASSUME LettersName, NEW s \in Device, NEW d \in Device, mail[s][d] # <<>>,
         NEW out \in Seq(NamedSignal), Took(s, d, out)
  PROVE  LettersName' /\ Head(mail[s][d]) \in NamedSignal
<1>1. mail[s][d] \in Seq(NamedSignal)
  BY DEF LettersName
<1>2. Tail(mail[s][d]) \in Seq(NamedSignal) /\ Head(mail[s][d]) \in NamedSignal
  BY <1>1, Taken
<1> DEFINE m1 == [mail EXCEPT ![s][d] = Tail(@)]
<1>3. m1 \in [Device -> [Device -> Seq(NamedSignal)]]
  BY <1>1, <1>2 DEF LettersName
<1>4. mail' = [m1 EXCEPT ![d][s] = @ \o out]
  BY DEF Took
<1> HIDE DEF m1
<1>5. m1[d][s] \o out \in Seq(NamedSignal)
  BY <1>3, Behind
<1> QED
  BY <1>2, <1>3, <1>4, <1>5 DEF LettersName

\* The words of members name nobody, the rest name the starter.
LEMMA NamedLetter ==
  ASSUME NEW c \in Device, NEW people \in SUBSET Device
  PROVE  /\ Sig("join", c, people) \in NamedSignal /\ Sig("here", c, people) \in NamedSignal
         /\ Sig("leave", c, people) \in NamedSignal
         /\ c \in people => /\ Sig("invite", c, people) \in NamedSignal
                            /\ Sig("upgrade", c, people) \in NamedSignal
  BY DEF Sig, Signal, NamedSignal

LEMMA AnswersName ==
  ASSUME TypeOK, NEW d \in Device, NEW p \in Device, NEW c \in Device
  PROVE  Answers(d, p, c) \in Seq(NamedSignal)
<1> DEFINE n == Cardinality({i \in Replay(d, c) : held[d][i].from = p /\ held[d][i].type = "join"})
           m == Sig("here", c, {})
<1>1. Answers(d, p, c) = [i \in 1..n |-> m]
  BY DEF Answers
<1>2. m \in NamedSignal
  BY NamedLetter
<1>3. n \in Nat
  <2> DEFINE joins == {i \in Replay(d, c) : held[d][i].from = p /\ held[d][i].type = "join"}
  <2>1. held[d] \in Seq(Held)
    BY DEF TypeOK, Held
  <2>2. DOMAIN held[d] = 1..Len(held[d]) /\ Len(held[d]) \in Nat
    BY <2>1
  <2>3. joins \subseteq 1..Len(held[d])
    BY <2>2 DEF Replay
  <2> HIDE DEF joins
  <2>4. IsFiniteSet(1..Len(held[d]))
    BY <2>2, FS_Interval
  <2>5. IsFiniteSet(joins)
    BY <2>3, <2>4, FS_Subset
  <2>6. Cardinality(joins) \in Nat
    BY <2>5, FS_CardinalityType
  <2> QED
    BY <2>6 DEF joins
<1> HIDE DEF n, m
<1> QED
  BY <1>1, <1>2, <1>3, Copies

LEMMA PlanAdded ==
  ASSUME TypeOK, PlansName, NEW d \in Device, NEW plan \in PlansOf(d),
         opening' = [opening EXCEPT ![d] = Append(@, plan)]
  PROVE  PlansName'
<1>1. Append(opening[d], plan) \in Seq(PlansOf(d))
  BY OneAppended DEF PlansName
<1> QED
  BY <1>1 DEF TypeOK, PlansName

LEMMA PlanGone ==
  ASSUME TypeOK, PlansName, NEW d \in Device, NEW i \in DOMAIN opening[d], Prepared(d, i)
  PROVE  PlansName' /\ opening[d][i] \in PlansOf(d)
<1>1. opening[d] \in Seq(PlansOf(d))
  BY DEF PlansName
<1>2. Without(opening[d], i) \in Seq(PlansOf(d)) /\ opening[d][i] \in PlansOf(d)
  BY <1>1, WithoutOne
<1> QED
  BY <1>2 DEF Prepared, PlansName, TypeOK

\* Seats taken for a call whose starter is known.
LEMMA NamedSeatsTaken ==
  ASSUME TypeOK, Named, NEW d \in Device, NEW c \in Device, NEW people \in SUBSET Device,
         NEW told \in SUBSET Device, NEW out \in [Device -> Seq(NamedSignal)],
         TakeSeats(d, c, people, told, out), c # d => c \in people /\ c \in told
  PROVE  LettersName' /\ StarterTold'
<1> DEFINE o == [p \in Device |-> out[p] \o Answers(d, p, c)]
<1>1. o \in [Device -> Seq(NamedSignal)]
  <2>1. \A p \in Device : out[p] \o Answers(d, p, c) \in Seq(NamedSignal)
    BY AnswersName, Behind
  <2> QED
    BY <2>1
<1>2. mail' = Sent(d, o)
  BY DEF TakeSeats
<1> HIDE DEF o
<1>3. LettersName'
  BY <1>1, <1>2, NamedSent DEF Named
<1>4. /\ call'[d] = c /\ roster'[d] = people /\ greeted'[d] = told
      /\ \A x \in Device : x # d => /\ call'[x] = call[x] /\ roster'[x] = roster[x]
                                    /\ greeted'[x] = greeted[x]
  BY DEF TakeSeats, TypeOK
<1>5. StarterTold'
  BY <1>4 DEF Named, StarterTold
<1> QED
  BY <1>3, <1>5

LEMMA NamedBeginning ==
  ASSUME TypeOK, Named, NEW d \in Device, NEW plan \in PlansOf(d),
         \/ plan.kind \in {"start", "grow"} /\ Begin(d, plan)
         \/ plan.kind = "join" /\ Enter(d, plan)
  PROVE  LettersName' /\ StarterTold'
<1>1. /\ plan \in Plan /\ plan.call \in Device /\ plan.roster \in SUBSET Device
      /\ IF plan.kind = "join" THEN plan.call \in plan.roster ELSE plan.call = d
  <2>1. plan \in Plan /\ IF plan.kind = "join" THEN plan.call \in plan.roster ELSE plan.call = d
    BY DEF PlansOf
  <2> QED
    BY <2>1 DEF Plan
<1>2. CASE plan.kind \in {"start", "grow"} /\ Begin(d, plan)
  <2> DEFINE m == Sig("invite", plan.call, plan.roster \cup {d})
             out == [p \in Device |-> IF p \in plan.roster \ plan.told THEN <<m>> ELSE <<>>]
  <2>1. plan.call = d
    BY <1>1, <1>2
  <2>2. m \in NamedSignal
    BY <1>1, <2>1, NamedLetter
  <2>3. TakeSeats(d, plan.call, plan.roster, {}, out)
    BY <1>2 DEF Begin
  <2> HIDE DEF m
  <2>4. out \in [Device -> Seq(NamedSignal)]
    BY <2>2, Single, Nothing
  <2> HIDE DEF out
  <2> QED
    BY <1>1, <2>1, <2>3, <2>4, NamedSeatsTaken
<1>3. CASE plan.kind = "join" /\ Enter(d, plan)
  <2> DEFINE m == Sig("join", plan.call, {})
             told == Told(d, plan)
             out == [p \in Device |-> IF p \in told THEN <<m>> ELSE <<>>]
  <2>1. m \in NamedSignal
    BY <1>1, NamedLetter
  <2>2. TakeSeats(d, plan.call, plan.roster, told, out)
    BY <1>3 DEF Enter, Told
  <2>3. told \in SUBSET Device /\ (plan.call # d => plan.call \in plan.roster /\ plan.call \in told)
    BY <1>1, <1>3 DEF Told, Others
  <2> HIDE DEF m, told
  <2>4. out \in [Device -> Seq(NamedSignal)]
    BY <2>1, Single, Nothing
  <2> HIDE DEF out
  <2> QED
    BY <1>1, <2>2, <2>3, <2>4, NamedSeatsTaken
<1> QED
  BY <1>2, <1>3

LEMMA NamedInit == Init => Named
<1> SUFFICES ASSUME Init PROVE Named
  OBVIOUS
<1>1. LettersName
  BY Nothing DEF Init, LettersName
<1>2. CardsName
  BY DEF Init, CardsName, NoCard
<1>3. PlansName
  BY Nothing DEF Init, PlansName
<1>4. StarterTold
  BY NobodyIsNone DEF Init, StarterTold
<1> QED
  BY <1>1, <1>2, <1>3, <1>4 DEF Named

LEMMA NamedAsking ==
  ASSUME TypeOK, Named, NEW d \in Device, NEW people \in SUBSET Device,
         StartCall(d, people) \/ GrowPair(d, people) \/ AddPeople(d, people)
  PROVE  Named'
<1>1. CASE StartCall(d, people)
  <2> DEFINE plan == [kind |-> "start", call |-> d, roster |-> people, told |-> {}]
  <2>1. plan \in PlansOf(d)
    BY DEF Plan, PlansOf
  <2>2. opening' = [opening EXCEPT ![d] = Append(@, plan)]
    BY <1>1 DEF StartCall
  <2> HIDE DEF plan
  <2>3. PlansName'
    BY <2>1, <2>2, PlanAdded DEF Named
  <2> QED
    BY <1>1, <2>3 DEF StartCall, mine, past, Named, LettersName, CardsName, StarterTold
<1>2. CASE GrowPair(d, people)
  <2>0. pair[d] \in Device
    BY <1>2 DEF GrowPair, TypeOK
  <2> DEFINE plan == [kind |-> "grow", call |-> d, roster |-> people \cup {pair[d]},
                      told |-> {pair[d]}]
             m == Sig("upgrade", d, people \cup {pair[d], d})
             q == [i \in 1..Routes |-> m]
  <2>1. plan \in PlansOf(d)
    BY <2>0 DEF Plan, PlansOf
  <2>2. opening' = [opening EXCEPT ![d] = Append(@, plan)]
    BY <1>2 DEF GrowPair
  <2>3. m \in NamedSignal
    BY <2>0, NamedLetter
  <2>4. mail' = [mail EXCEPT ![d][pair[d]] = @ \o q]
    BY <1>2 DEF GrowPair
  <2> HIDE DEF plan, m
  <2>5. q \in Seq(NamedSignal)
    BY <2>3, RoutesIsNat, Copies
  <2> HIDE DEF q
  <2>6. PlansName'
    BY <2>1, <2>2, PlanAdded DEF Named
  <2>7. mail[d][pair[d]] \o q \in Seq(NamedSignal)
    BY <2>0, <2>5, Behind DEF Named, LettersName
  <2>8. LettersName'
    BY <2>0, <2>4, <2>7 DEF Named, LettersName
  <2> QED
    BY <1>2, <2>6, <2>8 DEF GrowPair, mine, past, Named, CardsName, StarterTold
<1>3. CASE AddPeople(d, people)
  <2> DEFINE m == Sig("invite", call[d], roster[d] \cup people \cup {d})
             out == [p \in Device |-> IF p \in people THEN <<m>> ELSE <<>>]
  <2>1. call[d] \in Device /\ call[d] \in roster[d] \cup people \cup {d}
        /\ roster[d] \in SUBSET Device
    <3>1. call[d] \in Device /\ roster[d] \in SUBSET Device
      BY <1>3 DEF AddPeople, Active, TypeOK
    <3>2. call[d] # d => call[d] \in roster[d]
      BY <3>1 DEF Named, StarterTold
    <3> QED
      BY <3>1, <3>2
  <2>2. m \in NamedSignal
    BY <2>1, NamedLetter
  <2>3. mail' = Sent(d, out)
    BY <1>3 DEF AddPeople
  <2> HIDE DEF m
  <2>4. out \in [Device -> Seq(NamedSignal)]
    BY <2>2, Single, Nothing
  <2> HIDE DEF out
  <2>5. LettersName'
    BY <2>3, <2>4, NamedSent DEF Named
  <2>6. /\ call' = call /\ greeted' = greeted
        /\ \A x \in Device : roster[x] \subseteq roster'[x]
    BY <1>3 DEF AddPeople, TypeOK, past
  <2>7. StarterTold'
    BY <2>6 DEF Named, StarterTold
  <2> QED
    BY <1>3, <2>5, <2>7 DEF AddPeople, Named, CardsName, PlansName
<1> QED
  BY <1>1, <1>2, <1>3

LEMMA NamedAnswering ==
  ASSUME TypeOK, Named, NEW d \in Device, Accept(d) \/ CardGoes(d)
  PROVE  Named'
<1>1. CASE Accept(d)
  <2> DEFINE plan == Joining(card[d].call, card[d].roster)
  <2>1. card[d] \in [call : Device \cup {None}, roster : SUBSET Device] /\ card[d].call # None
    BY <1>1 DEF TypeOK, Accept
  <2>2. card[d].call \in Device /\ card[d].roster \in SUBSET Device
        /\ card[d].call \in card[d].roster
    BY <2>1 DEF Named, CardsName
  <2>3. plan \in PlansOf(d)
    BY <2>2 DEF Joining, Plan, PlansOf
  <2>4. opening' = [opening EXCEPT ![d] = Append(@, plan)]
    BY <1>1 DEF Accept
  <2> HIDE DEF plan
  <2>5. PlansName'
    BY <2>3, <2>4, PlanAdded DEF Named
  <2> QED
    BY <1>1, <2>5 DEF Accept, mine, past, Named, LettersName, CardsName, StarterTold
<1>2. CASE CardGoes(d)
  <2>1. CardsName'
    BY <1>2 DEF CardGoes, NoCard, Named, CardsName, TypeOK
  <2> QED
    BY <1>2, <2>1 DEF CardGoes, mine, past, Named, LettersName, PlansName, StarterTold
<1> QED
  BY <1>1, <1>2

LEMMA NamedAsked ==
  ASSUME TypeOK, Named, NEW d \in Device, Asked(d)
  PROVE  Named'
<1> PICK i \in DOMAIN opening[d] : MicOpens(d, i) \/ MicRefused(d, i) \/ Grown(d, i)
  BY DEF Asked
<1> DEFINE plan == opening[d][i]
<1>1. PlansName' /\ plan \in PlansOf(d)
  BY PlanGone DEF MicOpens, MicRefused, Grown, Named
<1>2. CardsName'
  <2>1. card' = card \/ card' = [card EXCEPT ![d] = NoCard]
    BY DEF MicOpens, MicRefused, Grown
  <2>2. card \in [Device -> [call : Device \cup {None}, roster : SUBSET Device]]
    BY DEF TypeOK
  <2>3. \A x \in Device : card'[x] = card[x] \/ card'[x] = NoCard
    BY <2>1, <2>2
  <2>4. NoCard.call = None
    BY DEF NoCard
  <2> QED
    BY <2>3, <2>4 DEF Named, CardsName
<1>3. \/ UNCHANGED <<mine, mail>>
      \/ plan.kind \in {"start", "grow"} /\ Begin(d, plan)
      \/ plan.kind = "join" /\ Enter(d, plan)
  BY DEF MicOpens, MicRefused, Grown
<1> HIDE DEF plan
<1>4. LettersName' /\ StarterTold'
  <2>1. CASE UNCHANGED <<mine, mail>>
    BY <2>1 DEF mine, past, Named, LettersName, StarterTold
  <2> QED
    BY <1>1, <1>3, <2>1, NamedBeginning
<1> QED
  BY <1>1, <1>2, <1>4 DEF Named

LEMMA NamedGoing ==
  ASSUME TypeOK, Named, NEW d \in Device, Leave(d) \/ Reload(d)
  PROVE  Named'
<1>1. StarterTold'
  <2>1. /\ call' = [call EXCEPT ![d] = None] /\ roster' = [roster EXCEPT ![d] = {}]
        /\ greeted' = greeted
    BY DEF Leave, Reload, Cleared, past
  <2>2. \A x \in Device : call'[x] \in Device
            => x # d /\ call'[x] = call[x] /\ roster'[x] = roster[x]
    BY <2>1, NobodyIsNone DEF TypeOK
  <2> QED
    BY <2>1, <2>2 DEF Named, StarterTold
<1>2. CASE Leave(d)
  <2> DEFINE m == Sig("leave", call[d], {})
             out == [p \in Device |-> IF p \in Audience(d) THEN <<m>> ELSE <<>>]
  <2>1. call[d] \in Device
    BY <1>2 DEF Leave, Active, TypeOK
  <2>2. m \in NamedSignal
    BY <2>1, NamedLetter
  <2>3. mail' = Sent(d, out)
    BY <1>2 DEF Leave
  <2> HIDE DEF m
  <2>4. out \in [Device -> Seq(NamedSignal)]
    BY <2>2, Single, Nothing
  <2> HIDE DEF out
  <2>5. LettersName'
    BY <2>3, <2>4, NamedSent DEF Named
  <2> QED
    BY <1>1, <1>2, <2>5 DEF Leave, Named, CardsName, PlansName
<1>3. CASE Reload(d)
  <2>1. CardsName'
    BY <1>3 DEF Reload, NoCard, Named, CardsName, TypeOK
  <2>2. PlansName'
    BY <1>3, Nothing DEF Reload, Named, PlansName, TypeOK
  <2> QED
    BY <1>1, <1>3, <2>1, <2>2 DEF Reload, Named, LettersName
<1> QED
  BY <1>2, <1>3

LEMMA NamedHearing ==
  ASSUME TypeOK, Named, NEW s \in Device, NEW d \in Device, Hears(s, d)
  PROVE  Named'
<1> DEFINE m == Head(mail[s][d])
<1>1. CASE HearInvite(s, d) \/ HearUpgrade(s, d)
  <2>1. /\ mail[s][d] # <<>> /\ Took(s, d, <<>>) /\ m.type \in {"invite", "upgrade"}
        /\ UNCHANGED mine
    BY <1>1 DEF HearInvite, HearUpgrade, NextIs
  <2>2. LettersName' /\ m \in NamedSignal
    BY <2>1, NamedTook, Nothing DEF Named
  <2>3. m.call \in Device /\ m.roster \in SUBSET Device /\ m.call \in m.roster
    BY <2>1, <2>2 DEF NamedSignal, Signal
  <2>4. card' = card \/ card' = [card EXCEPT ![d] = [call |-> m.call, roster |-> m.roster]]
    BY <1>1 DEF HearInvite, HearUpgrade
  <2>5. opening' = opening
        \/ opening' = [opening EXCEPT ![d] = Append(@, Joining(m.call, m.roster))]
    BY <1>1 DEF HearInvite, HearUpgrade
  <2> HIDE DEF m
  <2>6. CardsName'
    <3> DEFINE new == [call |-> m.call, roster |-> m.roster]
    <3>1. card \in [Device -> [call : Device \cup {None}, roster : SUBSET Device]]
      BY DEF TypeOK
    <3>2. new.call \in new.roster
      BY <2>3
    <3>3. card' = card \/ card' = [card EXCEPT ![d] = new]
      BY <2>4
    <3> HIDE DEF new
    <3>4. \A x \in Device : card'[x] = card[x] \/ card'[x] = new
      BY <3>1, <3>3
    <3> QED
      BY <3>2, <3>4 DEF Named, CardsName
  <2>7. Joining(m.call, m.roster) \in PlansOf(d)
    BY <2>3 DEF Joining, Plan, PlansOf
  <2>8. PlansName'
    <3>1. CASE opening' = opening
      BY <3>1 DEF Named, PlansName
    <3>2. CASE opening' = [opening EXCEPT ![d] = Append(@, Joining(m.call, m.roster))]
      BY <2>7, <3>2, PlanAdded DEF Named
    <3> QED
      BY <2>5, <3>1, <3>2
  <2> QED
    BY <2>1, <2>2, <2>6, <2>8 DEF mine, past, Named, StarterTold
<1>2. CASE HearMember(s, d)
  <2>1. mail[s][d] # <<>> /\ m.type \in {"join", "here"}
    BY <1>2 DEF HearMember, NextIs
  <2>2. PICK out \in {Reply(d, m), <<>>} : Took(s, d, out) /\ (out = <<>> \/ call[d] = m.call)
    BY <1>2 DEF HearMember
  <2>3. m \in NamedSignal
    BY <2>1, Taken DEF Named, LettersName
  <2>4. m.call \in Device
    BY <2>3 DEF NamedSignal, Signal
  <2> HIDE DEF m
  <2>5. out \in Seq(NamedSignal)
    <3>1. <<>> \in Seq(NamedSignal)
      BY Nothing
    <3>2. ASSUME call[d] = m.call PROVE Reply(d, m) \in Seq(NamedSignal)
      <4>1. Sig("here", call[d], {}) \in NamedSignal
        BY <2>4, <3>2, NamedLetter
      <4> QED
        BY <4>1, <3>1, Single DEF Reply
    <3> QED
      BY <2>2, <3>1, <3>2
  <2>6. LettersName'
    BY <2>1, <2>2, <2>5, NamedTook DEF Named
  <2> QED
    BY <1>2, <2>6 DEF HearMember, past, Named, CardsName, PlansName, StarterTold
<1>3. CASE HearLeave(s, d)
  <2>1. mail[s][d] # <<>> /\ Took(s, d, <<>>) /\ UNCHANGED <<card, opening, greeted>>
    BY <1>3 DEF HearLeave, NextIs, mine, past, Cleared
  <2>2. LettersName'
    BY <2>1, NamedTook, Nothing DEF Named
  <2>3. \/ UNCHANGED <<call, roster>>
        \/ call' = [call EXCEPT ![d] = None] /\ roster' = [roster EXCEPT ![d] = {}]
    BY <1>3 DEF HearLeave, mine, Cleared
  <2>4. \A x \in Device : call'[x] \in Device => call'[x] = call[x] /\ roster'[x] = roster[x]
    <3>1. CASE UNCHANGED <<call, roster>>
      BY <3>1
    <3>2. CASE call' = [call EXCEPT ![d] = None] /\ roster' = [roster EXCEPT ![d] = {}]
      <4>1. call'[d] \notin Device
        BY <3>2, NobodyIsNone DEF TypeOK
      <4>2. \A x \in Device : x # d => call'[x] = call[x] /\ roster'[x] = roster[x]
        BY <3>2 DEF TypeOK
      <4> QED
        BY <4>1, <4>2
    <3> QED
      BY <2>3, <3>1, <3>2
  <2>5. StarterTold'
    BY <2>1, <2>4 DEF Named, StarterTold
  <2> QED
    BY <2>1, <2>2, <2>5 DEF Named, CardsName, PlansName
<1> QED
  BY <1>1, <1>2, <1>3 DEF Hears

LEMMA StartersAreNamed == Spec => []Named
<1>1. TypeOK /\ Named /\ [Next]_vars => Named'
  <2> SUFFICES ASSUME TypeOK, Named, [Next]_vars PROVE Named'
    OBVIOUS
  <2>1. ASSUME UNCHANGED <<call, roster, greeted, card, opening, mail>> PROVE Named'
    BY <2>1 DEF Named, LettersName, CardsName, PlansName, StarterTold
  <2>2. ASSUME NEW d \in Device,
               GoesStale(d) \/ PairCloses(d) \/ HangUp(d) \/ LastPairFades(d)
        PROVE  Named'
    BY <2>1, <2>2 DEF GoesStale, PairCloses, HangUp, LastPairFades, mine, past
  <2>3. ASSUME NEW d \in Device, NEW p \in Device, Media(d, p) PROVE Named'
    BY <2>1, <2>3 DEF Media, LegArrives, NearCloses, FarCloses, past
  <2>4. ASSUME NEW d \in Device, NEW p \in Device, SeatTimer(d, p) PROVE Named'
    BY <2>1, <2>4 DEF SeatTimer, past
  <2>5. CASE UNCHANGED vars
    BY <2>1, <2>5 DEF vars, mine, past
  <2> QED
    BY <2>2, <2>3, <2>4, <2>5, NamedAsking, NamedAnswering, NamedAsked, NamedGoing, NamedHearing
       DEF Next
<1> QED
  BY <1>1, NamedInit, TypeCorrect, PTL DEF Spec

-----------------------------------------------------------------------------
(* Who has met and has nothing under way is linked, and a link with nothing *)
(* left to happen to it is held and open at both its ends.                  *)

LEMMA MetAreTied ==
  ASSUME TypeOK, Visited, Come, Both, Named, NEW d \in Device, NEW p \in Device,
         Together(d, p), Once(d), Once(p), Met(d, p), mail[d][p] = <<>>, mail[p][d] = <<>>
  PROVE  call[d] \in tie[d][p] \/ call[d] \in tie[p][d]
<1> DEFINE c == call[d]
<1>1. /\ d # p /\ c \in Device /\ call[p] = c
      /\ d \in Newcomers /\ p \in Newcomers
  BY DEF Together, Active, Newcomers, TypeOK
<1>2. way[d][p] = {} /\ way[p][d] = {}
  BY SaysNothing DEF way
<1>3. visits[d][c] # 0 /\ visits[p][c] # 0
  BY <1>1 DEF Visited, CallsAreVisits
<1> HIDE DEF c
<1>4. ASSUME NEW x \in Newcomers, NEW y \in Newcomers, call[x] = c, call[y] = c,
             y \in greeted[x], x # y, stale = 0, visits[y][c] # 0, way[x][y] = {}, way[y][x] = {}
      PROVE  c \in tie[x][y] \/ c \in tie[y][x]
  <2>1. \/ <<"join", c>> \in way[x][y]
        \/ /\ call[y] = c
           /\ \/ c \in tie[x][y] \/ c \in tie[y][x]
              \/ Rank[x] < Rank[y] /\ <<"here", c>> \in way[y][x]
        \/ visits[y][c] = 0 /\ <<x, "join", c>> \in kept[y]
        \/ visits[y][c] # 0 /\ call[y] # c
        \/ stale # 0
    BY <1>1, <1>4 DEF Come
  <2> QED
    BY <1>4, <2>1
<1>5. ASSUME NEW x \in Newcomers, NEW y \in Newcomers, call[x] = c, call[y] = c,
             y \in greeted[x], x \in greeted[y], Rank[x] < Rank[y],
             way[x][y] = {}, way[y][x] = {}
      PROVE  c \in tie[x][y] \/ c \in tie[y][x]
  <2>1. \/ <<"join", c>> \in way[x][y] \/ <<"join", c>> \in way[y][x]
        \/ <<"here", c>> \in way[y][x]
        \/ c \in tie[x][y] \/ c \in tie[y][x]
    BY <1>1, <1>5 DEF Both
  <2> QED
    BY <1>5, <2>1
<1>6. call[d] = c
  BY DEF c
<1>7. CASE p \in greeted[d] /\ d \in greeted[p]
  <2>1. Rank[d] < Rank[p] \/ Rank[p] < Rank[d]
    BY <1>1, RanksDiffer
  <2> QED
    BY <1>1, <1>2, <1>5, <1>6, <1>7, <2>1
<1>8. CASE stale = 0 /\ (p \in greeted[d] \/ d \in greeted[p] \/ call[d] \in {d, p})
  <2>1. p \in greeted[d] \/ d \in greeted[p]
    <3>1. CASE c = d
      BY <1>1, <3>1 DEF Named, StarterTold
    <3>2. CASE c = p
      BY <1>1, <1>6, <3>2 DEF Named, StarterTold
    <3> QED
      BY <1>6, <1>8, <3>1, <3>2
  <2> QED
    BY <1>1, <1>2, <1>3, <1>4, <1>6, <1>8, <2>1
<1> QED
  BY <1>6, <1>7, <1>8 DEF Met

LEMMA TiedAreJoined ==
  ASSUME TypeOK, LegsInv, MeshLegs, NEW x \in Newcomers, NEW y \in Newcomers,
         NEW c \in tie[x][y], call[x] = c, call[y] = c,
         \A n \in DOMAIN leg[x][y] : ~Moves(leg[x][y][n])
  PROVE  Joined(x, y) /\ Joined(y, x)
<1>1. x \in Device /\ y \in Device
  BY DEF Newcomers
<1>2. PICK n \in DOMAIN leg[x][y] : leg[x][y][n].call = c
  BY <1>1 DEF tie, Calls
<1>3. leg[x][y][n].near /\ leg[x][y][n].far \in {"coming", "open"}
  BY <1>2 DEF MeshLegs, Up
<1>4. leg[x][y][n].far = "open"
  BY <1>3 DEF Moves
<1>5. line[x][y] = <<x, y, n>>
  BY <1>1, <1>3, LegOf
<1>6. line[y][x] = <<x, y, n>>
  BY <1>2, <1>4 DEF MeshLegs, OpenIsHeld
<1>7. <<x, y, n>> # NoCall
  BY ALegIsACall
<1> QED
  BY <1>3, <1>4, <1>5, <1>6, <1>7 DEF Joined

(***************************************************************************)
(* In every reachable state, for every number of devices, of starters and  *)
(* adders, every bound on held signals and every order of fingerprints:    *)
(* two people who came once to the call they are in, of whom each told the *)
(* other or, with no held signal thrown away, one told the other or began  *)
(* the call, are joined by one leg, open at both ends and held by both,    *)
(* once no signal between them is under way and no leg between them has    *)
(* anything left to do (joinGroupCall, handleGroupCallSignal,              *)
(* replayHeldGroupCallSignals, connectGroupCallPeer).                      *)
(***************************************************************************)
THEOREM MeshComesWhole == Spec => []MeshIsWhole
<1>1. TypeOK /\ LegsInv /\ Visited /\ MeshLegs /\ Come /\ Both /\ Named => MeshIsWhole
  <2> SUFFICES ASSUME TypeOK, LegsInv, Visited, MeshLegs, Come, Both, Named,
                      NEW d \in Device, NEW p \in Device,
                      Together(d, p), Once(d), Once(p), Met(d, p), Settled(d, p)
               PROVE  Joined(d, p)
    BY DEF MeshIsWhole
  <2>1. call[d] \in tie[d][p] \/ call[d] \in tie[p][d]
    BY MetAreTied DEF Settled
  <2>2. d \in Newcomers /\ p \in Newcomers /\ call[p] = call[d]
    BY DEF Newcomers, Together
  <2>3. /\ \A n \in DOMAIN leg[d][p] : ~Moves(leg[d][p][n])
        /\ \A n \in DOMAIN leg[p][d] : ~Moves(leg[p][d][n])
    BY DEF Settled
  <2>4. CASE call[d] \in tie[d][p]
    BY <2>2, <2>3, <2>4, TiedAreJoined
  <2>5. CASE call[d] \in tie[p][d]
    BY <2>2, <2>3, <2>5, TiedAreJoined
  <2> QED
    BY <2>1, <2>4, <2>5
<1> QED
  BY <1>1, TypeCorrect, LegsAreSound, VisitsAreKept, MeshLegsAreKept, WordsAreKept,
     StartersAreNamed, PTL
=============================================================================
