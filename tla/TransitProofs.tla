---------------------------- MODULE TransitProofs ----------------------------
(***************************************************************************)
(* Mail between two relays, for any number of messages, tries and links:   *)
(* one answer for each envelope, a busy that means what it says, and a     *)
(* tick the home relay stands behind.                                      *)
(***************************************************************************)
EXTENDS Transit, TLAPS

-----------------------------------------------------------------------------
(* Types.                                                                  *)

\* What Finished and Reply return.
LEMMA FinishedType ==
  ASSUME TypeOK, NEW S
  PROVE  /\ Finished(S) \in
              [Envelope -> {"none", "socket", "parked", "waiting", "done"}]
         /\ \A e \in Envelope :
              Finished(S)[e] = IF e \in S THEN "done" ELSE place[e]
  BY DEF Finished, TypeOK

LEMMA ReplyType ==
  ASSUME TypeOK, NEW S \in SUBSET Envelope, NEW a \in Answer, Reply(S, a)
  PROVE  replies' \in SUBSET (Envelope \X Answer)
  BY DEF Reply, TypeOK

LEMMA TypeInit == Init => TypeOK
  BY TransitAssumption DEF Init, TypeOK

\* The step relation keeps every variable in its type.
LEMMA TypeStep == TypeOK /\ [Next]_vars => TypeOK'
<1> SUFFICES ASSUME TypeOK, [Next]_vars PROVE TypeOK'
  OBVIOUS
<1> USE TransitAssumption
<1>a. "busy" \in Answer /\ "unavailable" \in Answer
  BY DEF Answer, Refusals
<1>1. ASSUME NEW m \in Msg, SendFrame(m) PROVE TypeOK'
  <2>1. tries[m] + 1 \in 1 .. MaxTries
    BY <1>1 DEF SendFrame, TypeOK
  <2> QED
    BY <1>1, <2>1 DEF SendFrame, TypeOK, linkVars, Envelope
<1>2. ASSUME NEW m \in Msg, Silence(m) PROVE TypeOK'
  BY <1>2 DEF Silence, TransitSendRefused, TypeOK, linkVars
<1>3. ASSUME NEW e \in Envelope, NEW a \in Answer, AnswerIn(e, a) PROVE TypeOK'
  <2>1. e[1] \in Msg
    BY DEF Envelope
  <2>2. outbox' \in [Msg -> {"idle", "sent", "held", "relayed", "astray", "failed"}]
    BY <1>3, <2>1 DEF AnswerIn, TransitSendRefused, TypeOK
  <2> QED
    BY <1>3, <2>2 DEF AnswerIn, TypeOK, linkVars
<1>4. CASE SocketReplaced
  BY <1>4 DEF SocketReplaced, TypeOK, linkVars, clientVars
<1>5. ASSUME NEW e \in Envelope, NEW a \in Answer,
             place' = Finished({e}), Reply({e}, a), out' \subseteq out,
             back' \subseteq back, UNCHANGED <<clientVars, stale, linkVars, stored>>
      PROVE  TypeOK'
  <2>1. {e} \in SUBSET Envelope
    OBVIOUS
  <2>2. replies' \in SUBSET (Envelope \X Answer)
    BY <1>5, <2>1, ReplyType
  <2> QED
    BY <1>5, <2>2, FinishedType DEF TypeOK, linkVars, clientVars
<1>c. ASSUME NEW e \in Envelope, CarryOverLink(e),
             UNCHANGED <<clientVars, stale, linkVars, back, stored>>
      PROVE  TypeOK'
  <2>1. CASE place' = Finished({e}) /\ Reply({e}, "busy") /\ UNCHANGED out
    BY <1>c, <1>a, <1>5, <2>1
  <2>2. CASE \E l \in up : /\ out' = out \cup {<<e, l>>}
                           /\ place' = [place EXCEPT ![e] = "waiting"]
                           /\ UNCHANGED replies
    BY <1>c, <2>2 DEF TypeOK, linkVars, clientVars
  <2> QED
    BY <1>c, <2>1, <2>2 DEF CarryOverLink
<1>6. ASSUME NEW e \in Envelope, CarryTransitEnvelope(e) PROVE TypeOK'
  <2>1. CASE CarryOverLink(e)
    BY <1>6, <2>1, <1>c DEF CarryTransitEnvelope
  <2>2. CASE place' = Finished({e}) /\ Reply({e}, "busy") /\ UNCHANGED out
    BY <1>6, <1>a, <1>5, <2>2 DEF CarryTransitEnvelope
  <2>3. CASE place' = [place EXCEPT ![e] = "parked"] /\ UNCHANGED <<replies, out>>
    BY <1>6, <2>3 DEF CarryTransitEnvelope, TypeOK, linkVars, clientVars
  <2> QED
    BY <1>6, <2>1, <2>2, <2>3 DEF CarryTransitEnvelope
<1>7. ASSUME NEW e \in Envelope, ParkTimer(e) PROVE TypeOK'
  <2>1. CASE CarryOverLink(e)
    BY <1>7, <2>1, <1>c DEF ParkTimer
  <2>2. CASE place' = Finished({e}) /\ Reply({e}, "unavailable") /\ UNCHANGED out
    BY <1>7, <1>a, <1>5, <2>2 DEF ParkTimer
  <2> QED
    BY <1>7, <2>1, <2>2 DEF ParkTimer
<1>8. ASSUME NEW e \in Envelope, WaitOver(e) PROVE TypeOK'
  BY <1>8, <1>a, <1>5 DEF WaitOver
<1>9. ASSUME NEW e \in Envelope, NEW l \in Link, NEW a \in Answer,
             TransitResult(e, l, a)
      PROVE  TypeOK'
  <2>1. CASE place' = Finished({e}) /\ Reply({e}, a)
    BY <1>9, <1>5, <2>1 DEF TransitResult
  <2>2. CASE UNCHANGED <<place, replies>>
    BY <1>9, <2>2 DEF TransitResult, TypeOK, linkVars, clientVars
  <2> QED
    BY <1>9, <2>1, <2>2 DEF TransitResult
<1>10. CASE CarrierRestarts
  BY <1>10, FinishedType DEF CarrierRestarts, TypeOK, clientVars
<1>11. ASSUME NEW l \in Link, LinkUp(l) PROVE TypeOK'
  BY <1>11 DEF LinkUp, TypeOK, clientVars, Held
<1>12. ASSUME NEW l \in Link, LinkDies(l) PROVE TypeOK'
  BY <1>12 DEF LinkDies, TypeOK, clientVars
<1>13. ASSUME NEW l \in Link, LinkClosed(l) PROVE TypeOK'
  <2>1. Waiting \in SUBSET Envelope
    BY DEF Waiting
  <2>2. out' \subseteq out /\ back' \subseteq back
    BY <1>13 DEF LinkClosed
  <2>3. place' \in [Envelope -> {"none", "socket", "parked", "waiting", "done"}]
        /\ replies' \in SUBSET (Envelope \X Answer)
    BY <1>13, <1>a, <2>1, ReplyType, FinishedType DEF LinkClosed, TypeOK
  <2> QED
    BY <1>13, <2>2, <2>3 DEF LinkClosed, TypeOK, clientVars
<1>14. ASSUME NEW l \in Link, HomeEndCloses(l) PROVE TypeOK'
  BY <1>14 DEF HomeEndCloses, TypeOK, clientVars
<1>15. ASSUME NEW e \in Envelope, NEW l \in Link, HomeTakes(e, l) PROVE TypeOK'
  BY <1>15 DEF HomeTakes, TypeOK, clientVars, linkVars, Answer, Refusals
<1>16. CASE UNCHANGED vars
  BY <1>16 DEF vars, TypeOK
<1>17. \A r \in replies : r = <<r[1], r[2]>> /\ r[1] \in Envelope /\ r[2] \in Answer
  BY DEF TypeOK
<1>18. \A b \in back : b[1] \in Envelope /\ b[2] \in Link /\ b[3] \in Answer
  BY DEF TypeOK
<1>19. \A o \in out : o[1] \in Envelope /\ o[2] \in Link
  BY DEF TypeOK
<1> QED
  BY <1>1, <1>2, <1>3, <1>4, <1>6, <1>7, <1>8, <1>9, <1>10, <1>11, <1>12,
     <1>13, <1>14, <1>15, <1>16, <1>17, <1>18, <1>19
  DEF Next, ClientNext, CarrierNext, LinkNext, Send, Resend

\* Every reachable state has the declared types; in particular no link is
\* open and closing at once.
THEOREM TransitTypeCorrect == Spec => []TypeOK
<1>1. Init => TypeOK
  BY TypeInit
<1>2. TypeOK /\ [Next]_vars => TypeOK'
  BY TypeStep
<1> QED
  BY <1>1, <1>2, PTL DEF Spec

-----------------------------------------------------------------------------
(* What is true of an envelope on its way.                                 *)

\* Numbers not sent yet are nowhere; a message with an envelope has been
\* tried.
Fresh ==
  \A e \in Envelope :
    /\ place[e] = "none" <=> e[2] > tries[e[1]]
    /\ place[e] # "none" => outbox[e[1]] # "idle"

\* What the carrier has not handed over is on no link and in no mailbox.
NotYetOut ==
  \A e \in Envelope :
    place[e] \in {"none", "socket", "parked"} =>
      e \notin stored /\ \A l \in Link : <<e, l>> \notin out

\* The home relay's answers are its own, and its yes comes after the deed.
HomeWord ==
  \A e \in Envelope : \A l \in Link : \A a \in Answer :
    <<e, l, a>> \in back =>
      a \in {"queued", "stranger", "rejected"} /\ (a \notin Refusals => e \in stored)

\* An answer on its way to the device is the carrier's last word.
LastWord ==
  \A e \in Envelope : \A a \in Answer :
    <<e, a>> \in replies =>
      place[e] = "done" /\ (a \notin Refusals => e \in stored)

CarryInv == Fresh /\ NotYetOut /\ HomeWord /\ LastWord /\ BusyWasNotCarried

LEMMA CarryInit == Init => CarryInv
  BY TransitAssumption
  DEF Init, CarryInv, Fresh, NotYetOut, HomeWord, LastWord, BusyWasNotCarried,
      Envelope

\* An envelope the carrier finishes with, having had it, keeps the invariant
\* when the answer is one the facts allow: a yes for what is stored, a busy
\* for what is not and is on no link.
LEMMA CarryAnswered ==
  ASSUME TypeOK, CarryInv, NEW S \in SUBSET Envelope, NEW a \in Answer,
         \A e \in S : place[e] \notin {"none", "done"},
         place' = Finished(S), Reply(S, a),
         out' \subseteq out, back' \subseteq back,
         UNCHANGED <<outbox, tries, stored>>,
         a \notin Refusals => S \subseteq stored,
         a = "busy" => \A e \in S : place[e] \in {"socket", "parked"}
  PROVE  CarryInv'
<1>1. \A e \in Envelope : place'[e] = IF e \in S THEN "done" ELSE place[e]
  BY FinishedType
<1>2. \A e \in Envelope : \A c \in Answer :
        <<e, c>> \in replies' => <<e, c>> \in replies \/ (e \in S /\ c = a)
  BY DEF Reply
<1>3. Fresh'
  BY <1>1 DEF CarryInv, Fresh
<1>4. NotYetOut'
  BY <1>1 DEF CarryInv, NotYetOut
<1>5. HomeWord'
  BY DEF CarryInv, HomeWord
<1>6. LastWord'
  BY <1>1, <1>2 DEF CarryInv, LastWord
<1>7. "busy" \in Answer
  BY DEF Answer, Refusals
<1>8. BusyWasNotCarried'
  BY <1>2, <1>7 DEF CarryInv, BusyWasNotCarried, NotYetOut
<1> QED
  BY <1>3, <1>4, <1>5, <1>6, <1>8 DEF CarryInv

\* So does handing it to a link.
LEMMA CarryCarried ==
  ASSUME TypeOK, CarryInv, NEW e \in Envelope, CarryOverLink(e),
         place[e] \in {"socket", "parked"},
         UNCHANGED <<outbox, tries, back, stored>>
  PROVE  CarryInv'
<1>a. "busy" \in Answer /\ "busy" \in Refusals
  BY DEF Answer, Refusals
<1>1. CASE place' = Finished({e}) /\ Reply({e}, "busy") /\ UNCHANGED out
  <2>1. {e} \in SUBSET Envelope
    OBVIOUS
  <2>2. \A c \in {e} : place[c] \notin {"none", "done"}
                     /\ place[c] \in {"socket", "parked"}
    OBVIOUS
  <2> QED
    BY <1>1, <1>a, <2>1, <2>2, CarryAnswered
<1>2. CASE \E l \in up : /\ out' = out \cup {<<e, l>>}
                         /\ place' = [place EXCEPT ![e] = "waiting"]
                         /\ UNCHANGED replies
  <2>1. \A c \in Envelope : place'[c] = IF c = e THEN "waiting" ELSE place[c]
    BY <1>2 DEF TypeOK
  <2>2. \A c \in Envelope : \A l \in Link :
          <<c, l>> \in out' => <<c, l>> \in out \/ c = e
    BY <1>2
  <2>3. Fresh'
    BY <2>1 DEF CarryInv, Fresh
  <2>4. NotYetOut'
    BY <2>1, <2>2 DEF CarryInv, NotYetOut
  <2>5. HomeWord'
    BY DEF CarryInv, HomeWord
  <2>6. LastWord'
    BY <1>2, <2>1 DEF CarryInv, LastWord
  <2>7. BusyWasNotCarried'
    BY <1>2, <1>a, <2>2 DEF CarryInv, BusyWasNotCarried, LastWord
  <2> QED
    BY <2>3, <2>4, <2>5, <2>6, <2>7 DEF CarryInv
<1> QED
  BY <1>1, <1>2 DEF CarryOverLink

\* So does everything that touches no envelope and only loses frames.
LEMMA CarryLoses ==
  ASSUME CarryInv, UNCHANGED <<tries, place, stored>>,
         \A m \in Msg : outbox[m] # "idle" => outbox'[m] # "idle",
         replies' \subseteq replies, out' \subseteq out, back' \subseteq back
  PROVE  CarryInv'
<1>1. Fresh'
  <2>1. \A e \in Envelope : e[1] \in Msg
    BY DEF Envelope
  <2> QED
    BY <2>1 DEF CarryInv, Fresh
<1>2. NotYetOut' /\ HomeWord' /\ LastWord' /\ BusyWasNotCarried'
  BY DEF CarryInv, NotYetOut, HomeWord, LastWord, BusyWasNotCarried
<1> QED
  BY <1>1, <1>2 DEF CarryInv

\* The inductive step.
LEMMA CarryStep == TypeOK /\ CarryInv /\ [Next]_vars => CarryInv'
<1> SUFFICES ASSUME TypeOK, CarryInv, [Next]_vars PROVE CarryInv'
  OBVIOUS
<1> USE TransitAssumption
<1>a. /\ "busy" \in Answer /\ "unavailable" \in Answer
      /\ "busy" \in Refusals /\ "unavailable" \in Refusals
  BY DEF Answer, Refusals
<1>b. \A e \in Envelope : e[1] \in Msg /\ e[2] \in 1 .. MaxTries /\ e = <<e[1], e[2]>>
  BY DEF Envelope
<1>1. ASSUME NEW m \in Msg, SendFrame(m) PROVE CarryInv'
  <2> DEFINE n == <<m, tries[m] + 1>>
  <2>1. n \in Envelope /\ tries[m] \in Nat
    BY <1>1 DEF SendFrame, TypeOK, Envelope
  <2>2. place[n] = "none"
    BY <2>1 DEF CarryInv, Fresh
  <2>3. \A c \in Envelope : place'[c] = IF c = n THEN "socket" ELSE place[c]
    BY <1>1, <2>1 DEF SendFrame, TypeOK
  <2>4. Fresh'
    <3>1. \A c \in Envelope : tries'[c[1]] = IF c[1] = m THEN tries[m] + 1
                                                        ELSE tries[c[1]]
      BY <1>1, <1>b DEF SendFrame, TypeOK
    <3>2. \A c \in Envelope : outbox'[c[1]] = IF c[1] = m THEN "sent"
                                                         ELSE outbox[c[1]]
      BY <1>1, <1>b DEF SendFrame, TypeOK
    <3>3. ASSUME NEW c \in Envelope
          PROVE  /\ place'[c] = "none" <=> c[2] > tries'[c[1]]
                 /\ place'[c] # "none" => outbox'[c[1]] # "idle"
      <4>1. CASE c = n
        BY <4>1, <2>1, <2>3, <3>1, <3>2
      <4>2. CASE c # n /\ c[1] = m
        <5>1. c[2] # tries[m] + 1
          BY <4>2, <1>b
        <5>2. c[2] \in Nat
          BY <1>b
        <5> QED
          BY <4>2, <5>1, <5>2, <2>1, <2>3, <3>1, <3>2 DEF CarryInv, Fresh
      <4>3. CASE c[1] # m
        BY <4>3, <2>3, <3>1, <3>2 DEF CarryInv, Fresh
      <4> QED
        BY <4>1, <4>2, <4>3
    <3> QED
      BY <3>3 DEF Fresh
  <2>5. UNCHANGED <<out, back, stored, replies>>
    BY <1>1 DEF SendFrame
  <2>6. NotYetOut'
    BY <2>2, <2>3, <2>5 DEF CarryInv, NotYetOut
  <2>7. HomeWord' /\ BusyWasNotCarried'
    BY <2>5 DEF CarryInv, HomeWord, BusyWasNotCarried
  <2>8. LastWord'
    BY <2>2, <2>3, <2>5 DEF CarryInv, LastWord
  <2> QED
    BY <2>4, <2>6, <2>7, <2>8 DEF CarryInv
<1>2. ASSUME NEW m \in Msg, Silence(m) PROVE CarryInv'
  BY <1>2, CarryLoses DEF Silence, TransitSendRefused, TypeOK
<1>3. ASSUME NEW e \in Envelope, NEW a \in Answer, AnswerIn(e, a) PROVE CarryInv'
  <2>1. \A m \in Msg : outbox[m] # "idle" => outbox'[m] # "idle"
    BY <1>3, <1>b DEF AnswerIn, TransitSendRefused, TypeOK
  <2> QED
    BY <1>3, <2>1, CarryLoses DEF AnswerIn
<1>4. ASSUME NEW S \in SUBSET Envelope,
             \A e \in S : place[e] # "none",
             \A e \in Envelope : place'[e] = IF e \in S THEN "done" ELSE place[e],
             replies' \subseteq replies, out' \subseteq out, back' \subseteq back,
             UNCHANGED <<outbox, tries, stored>>
      PROVE  CarryInv'
  <2>1. Fresh'
    BY <1>4 DEF CarryInv, Fresh
  <2>2. NotYetOut' /\ HomeWord' /\ LastWord' /\ BusyWasNotCarried'
    BY <1>4 DEF CarryInv, NotYetOut, HomeWord, LastWord, BusyWasNotCarried
  <2> QED
    BY <2>1, <2>2 DEF CarryInv
<1>5. CASE SocketReplaced
  <2> DEFINE S == {e \in Envelope : place[e] = "socket"}
  <2>1. \A e \in Envelope : place'[e] = IF e \in S THEN "done" ELSE place[e]
    BY <1>5 DEF SocketReplaced
  <2> QED
    BY <1>5, <1>4, <2>1 DEF SocketReplaced, clientVars
<1>6. CASE CarrierRestarts
  <2> DEFINE S == {e \in Envelope : place[e] # "none"}
  <2>1. \A e \in Envelope : place'[e] = IF e \in S THEN "done" ELSE place[e]
    BY <1>6, FinishedType DEF CarrierRestarts
  <2> HIDE DEF S
  <2>2. S \in SUBSET Envelope /\ \A e \in S : place[e] # "none"
    BY DEF S
  <2> QED
    BY <1>6, <1>4, <2>1, <2>2 DEF CarrierRestarts, clientVars
<1>7. ASSUME NEW e \in Envelope, NEW a \in Answer,
             place[e] \notin {"none", "done"}, place' = Finished({e}),
             Reply({e}, a), out' \subseteq out, back' \subseteq back,
             UNCHANGED <<clientVars, stored>>,
             a \notin Refusals => e \in stored,
             a = "busy" => place[e] \in {"socket", "parked"}
      PROVE  CarryInv'
  <2>1. {e} \in SUBSET Envelope
    OBVIOUS
  <2>2. \A c \in {e} : place[c] \notin {"none", "done"}
    BY <1>7
  <2>3. a \notin Refusals => {e} \subseteq stored
    BY <1>7
  <2>4. a = "busy" => \A c \in {e} : place[c] \in {"socket", "parked"}
    BY <1>7
  <2>5. UNCHANGED <<outbox, tries, stored>>
    BY <1>7 DEF clientVars
  <2> QED
    BY <1>7, <2>1, <2>2, <2>3, <2>4, <2>5, CarryAnswered
<1>8. ASSUME NEW e \in Envelope, CarryTransitEnvelope(e) PROVE CarryInv'
  <2>1. CASE CarryOverLink(e)
    BY <1>8, <2>1, CarryCarried DEF CarryTransitEnvelope, clientVars
  <2>2. CASE place' = Finished({e}) /\ Reply({e}, "busy") /\ UNCHANGED out
    BY <1>8, <1>7, <1>a, <2>2 DEF CarryTransitEnvelope
  <2>3. CASE place' = [place EXCEPT ![e] = "parked"] /\ UNCHANGED <<replies, out>>
    <3>1. \A c \in Envelope : place'[c] = IF c = e THEN "parked" ELSE place[c]
      BY <2>3 DEF TypeOK
    <3>2. place[e] = "socket" /\ UNCHANGED <<outbox, tries, stored, back>>
      BY <1>8 DEF CarryTransitEnvelope, clientVars
    <3>3. Fresh'
      BY <3>1, <3>2 DEF CarryInv, Fresh
    <3>4. NotYetOut' /\ HomeWord' /\ LastWord' /\ BusyWasNotCarried'
      BY <2>3, <3>1, <3>2
      DEF CarryInv, NotYetOut, HomeWord, LastWord, BusyWasNotCarried
    <3> QED
      BY <3>3, <3>4 DEF CarryInv
  <2> QED
    BY <1>8, <2>1, <2>2, <2>3 DEF CarryTransitEnvelope
<1>9. ASSUME NEW e \in Envelope, ParkTimer(e) PROVE CarryInv'
  <2>1. CASE CarryOverLink(e)
    BY <1>9, <2>1, CarryCarried DEF ParkTimer, clientVars
  <2>2. CASE place' = Finished({e}) /\ Reply({e}, "unavailable") /\ UNCHANGED out
    BY <1>9, <1>7, <1>a, <2>2 DEF ParkTimer
  <2> QED
    BY <1>9, <2>1, <2>2 DEF ParkTimer
<1>10. ASSUME NEW e \in Envelope, WaitOver(e) PROVE CarryInv'
  BY <1>10, <1>7, <1>a DEF WaitOver
<1>11. ASSUME NEW e \in Envelope, NEW l \in Link, NEW a \in Answer,
              TransitResult(e, l, a)
       PROVE  CarryInv'
  <2>1. a \in {"queued", "stranger", "rejected"} /\ (a \notin Refusals => e \in stored)
    BY <1>11 DEF TransitResult, CarryInv, HomeWord
  <2>2. CASE place[e] = "waiting" /\ place' = Finished({e}) /\ Reply({e}, a)
    BY <1>11, <1>7, <2>1, <2>2 DEF TransitResult
  <2>3. CASE UNCHANGED <<place, replies>>
    BY <1>11, <2>3, CarryLoses DEF TransitResult, clientVars
  <2> QED
    BY <1>11, <2>2, <2>3 DEF TransitResult
<1>12. ASSUME NEW l \in Link, LinkUp(l) \/ LinkDies(l) \/ HomeEndCloses(l)
       PROVE  CarryInv'
  <2>1. UNCHANGED <<outbox, tries, place, replies, back, stored>> /\ out' \subseteq out
    BY <1>12 DEF LinkUp, LinkDies, HomeEndCloses, clientVars
  <2> QED
    BY <2>1, CarryLoses
<1>13. ASSUME NEW l \in Link, LinkClosed(l) PROVE CarryInv'
  <2>1. out' \subseteq out /\ back' \subseteq back /\ UNCHANGED <<outbox, tries, stored>>
    BY <1>13 DEF LinkClosed, clientVars
  <2>2. CASE UNCHANGED <<place, replies>>
    BY <2>1, <2>2, CarryLoses
  <2>3. CASE place' = Finished(Waiting) /\ Reply(Waiting, "unavailable")
    <3>1. Waiting \in SUBSET Envelope
          /\ \A e \in Waiting : place[e] \notin {"none", "done"}
      BY DEF Waiting
    <3> QED
      BY <1>a, <2>1, <2>3, <3>1, CarryAnswered
  <2> QED
    BY <1>13, <2>2, <2>3 DEF LinkClosed
<1>14. ASSUME NEW e \in Envelope, NEW l \in Link, HomeTakes(e, l) PROVE CarryInv'
  <2>1. PICK a \in {"queued", "stranger", "rejected"} :
          /\ back' = back \cup {<<e, l, a>>}
          /\ stored' = IF a = "rejected" THEN stored ELSE stored \cup {e}
    BY <1>14 DEF HomeTakes
  <2>2. UNCHANGED <<outbox, tries, place, replies>> /\ out' \subseteq out
        /\ <<e, l>> \in out
    BY <1>14 DEF HomeTakes, clientVars
  <2>3. stored \subseteq stored' /\ stored' \subseteq stored \cup {e}
    BY <2>1
  <2>4. a \notin Refusals => e \in stored'
    BY <2>1 DEF Refusals
  <2>5. Fresh'
    BY <2>2 DEF CarryInv, Fresh
  <2>6. NotYetOut'
    BY <2>2, <2>3 DEF CarryInv, NotYetOut
  <2>7. HomeWord'
    BY <2>1, <2>3, <2>4 DEF CarryInv, HomeWord
  <2>8. LastWord'
    BY <2>2, <2>3 DEF CarryInv, LastWord
  <2>9. BusyWasNotCarried'
    BY <2>2, <2>3 DEF CarryInv, BusyWasNotCarried
  <2> QED
    BY <2>5, <2>6, <2>7, <2>8, <2>9 DEF CarryInv
<1>15. CASE UNCHANGED vars
  BY <1>15, CarryLoses DEF vars
<1>16. \A r \in replies : r[1] \in Envelope /\ r[2] \in Answer
  BY DEF TypeOK
<1>17. \A c \in back : c[1] \in Envelope /\ c[2] \in Link /\ c[3] \in Answer
  BY DEF TypeOK
<1>18. \A o \in out : o[1] \in Envelope /\ o[2] \in Link
  BY DEF TypeOK
<1> QED
  BY <1>1, <1>2, <1>3, <1>5, <1>6, <1>8, <1>9, <1>10, <1>11, <1>12, <1>13,
     <1>14, <1>15, <1>16, <1>17, <1>18
  DEF Next, ClientNext, CarrierNext, LinkNext, Send, Resend

LEMMA CarryAlways == Spec => [](TypeOK /\ CarryInv)
<1>1. Init => TypeOK /\ CarryInv
  BY TypeInit, CarryInit
<1>2. TypeOK /\ CarryInv /\ [Next]_vars => (TypeOK /\ CarryInv)'
  BY TypeStep, CarryStep
<1> QED
  BY <1>1, <1>2, PTL DEF Spec

\* "busy" promises that nothing was carried, for any number of messages,
\* tries and links.
THEOREM BusyMeansNotCarried == Spec => []BusyWasNotCarried
<1>1. CarryInv => BusyWasNotCarried
  BY DEF CarryInv
<1> QED
  BY <1>1, CarryAlways, PTL

-----------------------------------------------------------------------------
(* One answer each.                                                        *)

\* What OneAnswerEach says of one envelope and one step.
Answered(e) == \E a \in Answer : <<e, a>> \in replies' \ replies
Finishes(e) == place[e] # "done" /\ place'[e] = "done"
OneAnswerFor(e) ==
  (Answered(e) => Finishes(e)) /\ (Finishes(e) => Answered(e) \/ e \in stale')

\* A step in which the carrier is done with the envelopes S, and answers each.
LEMMA AnsweredOnce ==
  ASSUME TypeOK, LastWord, NEW S \in SUBSET Envelope, NEW a \in Answer,
         \A e \in S : place[e] # "done",
         place' = Finished(S), Reply(S, a), UNCHANGED stale,
         NEW e \in Envelope
  PROVE  OneAnswerFor(e)
<1>1. place'[e] = IF e \in S THEN "done" ELSE place[e]
  BY FinishedType
<1>2. \A c \in Answer : <<e, c>> \in replies' \ replies => e \in S
  BY DEF Reply
<1>3. Answered(e) => Finishes(e)
  BY <1>1, <1>2 DEF Answered, Finishes
<1>4. ASSUME Finishes(e), e \notin stale PROVE Answered(e)
  <2>1. e \in S
    BY <1>1, <1>4 DEF Finishes
  <2>2. <<e, a>> \in replies'
    BY <1>4, <2>1 DEF Reply
  <2>3. <<e, a>> \notin replies
    BY <1>4 DEF LastWord, Finishes
  <2> QED
    BY <2>2, <2>3 DEF Answered
<1> QED
  BY <1>3, <1>4 DEF OneAnswerFor

\* A step that answers nothing and finishes with nothing but envelopes whose
\* sender is gone.
LEMMA NothingAnswered ==
  ASSUME replies' \subseteq replies, NEW e \in Envelope,
         Finishes(e) => e \in stale'
  PROVE  OneAnswerFor(e)
  BY DEF OneAnswerFor, Answered

LEMMA OneAnswerStep ==
  ASSUME TypeOK, CarryInv, [Next]_vars, NEW e \in Envelope
  PROVE  OneAnswerFor(e)
<1>a. "busy" \in Answer /\ "unavailable" \in Answer
  BY DEF Answer, Refusals
<1>b. LastWord
  BY DEF CarryInv
<1>1. ASSUME NEW m \in Msg, SendFrame(m) PROVE OneAnswerFor(e)
  <2>1. place'[e] # "done" \/ place[e] = "done"
    BY <1>1 DEF SendFrame, TypeOK
  <2> QED
    BY <1>1, <2>1, NothingAnswered DEF SendFrame, Finishes
<1>2. ASSUME UNCHANGED place, replies' \subseteq replies PROVE OneAnswerFor(e)
  BY <1>2, NothingAnswered DEF Finishes
<1>3. ASSUME NEW m \in Msg, Silence(m) PROVE OneAnswerFor(e)
  BY <1>2, <1>3 DEF Silence
<1>4. ASSUME NEW c \in Envelope, NEW a \in Answer, AnswerIn(c, a)
      PROVE  OneAnswerFor(e)
  BY <1>2, <1>4 DEF AnswerIn
<1>5. CASE SocketReplaced \/ CarrierRestarts
  <2>1. Finishes(e) => e \in stale'
    BY <1>5, FinishedType DEF SocketReplaced, CarrierRestarts, Finishes
  <2> QED
    BY <1>5, <2>1, NothingAnswered DEF SocketReplaced, CarrierRestarts
<1>6. ASSUME NEW c \in Envelope, NEW a \in Answer, place[c] # "done",
             place' = Finished({c}), Reply({c}, a), UNCHANGED stale
      PROVE  OneAnswerFor(e)
  <2>1. {c} \in SUBSET Envelope /\ \A d \in {c} : place[d] # "done"
    BY <1>6
  <2> QED
    BY <1>b, <1>6, <2>1, AnsweredOnce
<1>7. ASSUME NEW c \in Envelope, NEW p \in {"parked", "waiting"},
             place' = [place EXCEPT ![c] = p], UNCHANGED replies
      PROVE  OneAnswerFor(e)
  <2>1. place'[e] = IF c = e THEN p ELSE place[e]
    BY <1>7 DEF TypeOK
  <2> QED
    BY <1>7, <2>1, NothingAnswered DEF Finishes
<1>8. ASSUME NEW c \in Envelope, CarryOverLink(c), place[c] # "done",
             UNCHANGED stale
      PROVE  OneAnswerFor(e)
  BY <1>a, <1>6, <1>7, <1>8 DEF CarryOverLink
<1>9. ASSUME NEW c \in Envelope, CarryTransitEnvelope(c) PROVE OneAnswerFor(e)
  BY <1>a, <1>6, <1>7, <1>8, <1>9 DEF CarryTransitEnvelope
<1>10. ASSUME NEW c \in Envelope, ParkTimer(c) PROVE OneAnswerFor(e)
  BY <1>a, <1>6, <1>8, <1>10 DEF ParkTimer
<1>11. ASSUME NEW c \in Envelope, WaitOver(c) PROVE OneAnswerFor(e)
  BY <1>a, <1>6, <1>11 DEF WaitOver
<1>12. ASSUME NEW c \in Envelope, NEW l \in Link, NEW a \in Answer,
              TransitResult(c, l, a)
       PROVE  OneAnswerFor(e)
  BY <1>2, <1>6, <1>12 DEF TransitResult
<1>13. ASSUME NEW l \in Link, LinkUp(l) \/ LinkDies(l) \/ HomeEndCloses(l)
       PROVE  OneAnswerFor(e)
  BY <1>2, <1>13 DEF LinkUp, LinkDies, HomeEndCloses
<1>14. ASSUME NEW l \in Link, LinkClosed(l) PROVE OneAnswerFor(e)
  <2>1. CASE UNCHANGED <<place, replies>>
    BY <1>2, <2>1
  <2>2. CASE place' = Finished(Waiting) /\ Reply(Waiting, "unavailable")
    <3>1. Waiting \in SUBSET Envelope /\ \A c \in Waiting : place[c] # "done"
      BY DEF Waiting
    <3>2. UNCHANGED stale
      BY <1>14 DEF LinkClosed
    <3> QED
      BY <1>a, <1>b, <2>2, <3>1, <3>2, AnsweredOnce
  <2> QED
    BY <1>14, <2>1, <2>2 DEF LinkClosed
<1>15. ASSUME NEW c \in Envelope, NEW l \in Link, HomeTakes(c, l)
       PROVE  OneAnswerFor(e)
  BY <1>2, <1>15 DEF HomeTakes
<1>16. CASE UNCHANGED vars
  BY <1>2, <1>16 DEF vars
<1>17. \A r \in replies : r[1] \in Envelope /\ r[2] \in Answer
  BY DEF TypeOK
<1>18. \A c \in back : c[1] \in Envelope /\ c[2] \in Link /\ c[3] \in Answer
  BY DEF TypeOK
<1>19. \A o \in out : o[1] \in Envelope /\ o[2] \in Link
  BY DEF TypeOK
<1> QED
  BY <1>1, <1>3, <1>4, <1>5, <1>9, <1>10, <1>11, <1>12, <1>13, <1>14, <1>15,
     <1>16, <1>17, <1>18, <1>19
  DEF Next, ClientNext, CarrierNext, LinkNext, Send, Resend

\* Every envelope is answered in the step in which the carrier is done with
\* it and in no other.
THEOREM OneAnswer == Spec => OneAnswerEach
<1>1. ASSUME TypeOK, CarryInv, [Next]_vars
      PROVE  [\A e \in Envelope :
                LET answered == \E a \in Answer : <<e, a>> \in replies' \ replies
                    finished == place[e] # "done" /\ place'[e] = "done"
                IN  /\ answered => finished
                    /\ finished => answered \/ e \in stale']_vars
  BY <1>1, OneAnswerStep DEF OneAnswerFor, Answered, Finishes
<1> QED
  BY <1>1, CarryAlways, PTL DEF Spec, OneAnswerEach

-----------------------------------------------------------------------------
(* The refinement.                                                         *)

\* What one message shows, before and after.
LEMMA FateOf ==
  /\ Fate = [m \in Msg |-> IF outbox[m] \in {"sent", "held"} THEN "trying"
                                                             ELSE outbox[m]]
  /\ Fate' = [m \in Msg |-> IF outbox'[m] \in {"sent", "held"} THEN "trying"
                                                               ELSE outbox'[m]]
  BY DEF Fate

LEMMA CourierInit == Init => Sender!Init
  BY DEF Init, Sender!Init, Fate, Kept

\* A step that moves only frames is a stutter.
LEMMA CourierStutter ==
  ASSUME UNCHANGED <<outbox, stored>>
  PROVE  UNCHANGED Sender!vars
  BY DEF Sender!vars, Fate, Kept

\* A step of the outbox for one message: its fate moves as Courier lets it.
LEMMA CourierMoves ==
  ASSUME TypeOK, NEW m \in Msg, UNCHANGED stored,
         NEW s \in {"sent", "held", "relayed", "astray", "failed"},
         outbox' = [outbox EXCEPT ![m] = s],
         \/ s = "sent" /\ outbox[m] \in {"idle", "held"}
         \/ s \in {"held", "failed"} /\ outbox[m] \in {"sent", "held"}
         \/ /\ s \in {"relayed", "astray"}
            /\ outbox[m] \in {"sent", "held", "failed"}
            /\ m \in Kept
  PROVE  [Sender!Next]_(Sender!vars)
<1> DEFINE shown(o) == IF o \in {"sent", "held"} THEN "trying" ELSE o
<1>1. UNCHANGED Kept
  BY DEF Kept
<1>2. Fate[m] = shown(outbox[m])
  BY DEF Fate
<1>3. Fate' = [Fate EXCEPT ![m] = shown(s)]
  BY DEF TypeOK, Fate
<1>4. CASE s = "sent" /\ outbox[m] = "idle"
  <2>1. Sender!Try(m)
    BY <1>1, <1>2, <1>3, <1>4 DEF Sender!Try
  <2> QED
    BY <2>1 DEF Sender!Next
<1>5. CASE shown(s) = "trying" /\ shown(outbox[m]) = "trying"
  <2>1. Fate' = Fate
    BY <1>2, <1>3, <1>5 DEF Fate
  <2> QED
    BY <1>1, <2>1 DEF Sender!vars
<1>6. CASE s = "failed" /\ outbox[m] \in {"sent", "held"}
  <2>1. Sender!GiveUp(m)
    BY <1>1, <1>2, <1>3, <1>6 DEF Sender!GiveUp
  <2> QED
    BY <2>1 DEF Sender!Next
<1>7. CASE /\ s \in {"relayed", "astray"}
           /\ outbox[m] \in {"sent", "held", "failed"}
           /\ m \in Kept
  <2>1. Sender!Report(m)
    BY <1>1, <1>2, <1>3, <1>7 DEF Sender!Report
  <2> QED
    BY <2>1 DEF Sender!Next
<1> QED
  BY <1>4, <1>5, <1>6, <1>7

\* Every step of the detailed specification is one of Courier's or a stutter.
LEMMA CourierStep ==
  TypeOK /\ CarryInv /\ [Next]_vars => [Sender!Next]_(Sender!vars)
<1> SUFFICES ASSUME TypeOK, CarryInv, [Next]_vars
             PROVE  [Sender!Next]_(Sender!vars)
  OBVIOUS
<1>1. ASSUME NEW m \in Msg, Send(m) \/ Resend(m)
      PROVE  [Sender!Next]_(Sender!vars)
  BY <1>1, CourierMoves DEF Send, Resend, SendFrame
<1>2. ASSUME NEW m \in Msg, TransitSendRefused(m), UNCHANGED stored,
             outbox[m] \in {"sent", "held"}
      PROVE  [Sender!Next]_(Sender!vars)
  BY <1>2, CourierMoves DEF TransitSendRefused
<1>3. ASSUME NEW m \in Msg, Silence(m) PROVE [Sender!Next]_(Sender!vars)
  BY <1>2, <1>3 DEF Silence
<1>4. ASSUME NEW e \in Envelope, NEW a \in Answer, AnswerIn(e, a)
      PROVE  [Sender!Next]_(Sender!vars)
  <2> DEFINE m == e[1]
  <2>1. m \in Msg /\ UNCHANGED stored
    BY <1>4 DEF AnswerIn, Envelope
  <2>2. CASE a \in Refusals /\ outbox[m] \in {"sent", "held"} /\ TransitSendRefused(m)
    BY <1>2, <2>1, <2>2
  <2>3. CASE UNCHANGED outbox
    BY <2>1, <2>3, CourierStutter
  <2>4. CASE /\ a \notin Refusals
             /\ outbox[m] \in {"sent", "held", "failed"}
             /\ outbox' = [outbox EXCEPT ![m] =
                             IF a = "queued" THEN "relayed" ELSE "astray"]
    <3>1. e \in stored
      BY <1>4, <2>4 DEF AnswerIn, CarryInv, LastWord
    <3>2. m \in Kept
      BY <3>1 DEF Kept
    <3> QED
      BY <2>1, <2>4, <3>2, CourierMoves
  <2>5. CASE /\ a \notin Refusals
             /\ outbox[m] \notin {"sent", "held", "failed"}
             /\ outbox' = [outbox EXCEPT ![m] = @]
    <3>1. UNCHANGED outbox
      BY <2>5, <2>1 DEF TypeOK
    <3> QED
      BY <2>3, <3>1
  <2> QED
    BY <1>4, <2>2, <2>3, <2>4, <2>5 DEF AnswerIn
<1>5. ASSUME NEW e \in Envelope, NEW l \in Link, HomeTakes(e, l)
      PROVE  [Sender!Next]_(Sender!vars)
  <2>1. UNCHANGED Fate
    BY <1>5 DEF HomeTakes, clientVars, Fate
  <2>2. CASE stored' = stored
    BY <2>1, <2>2 DEF Sender!vars, Kept
  <2>3. CASE stored' = stored \cup {e}
    <3>1. e[1] \in Msg /\ Kept' = Kept \cup {e[1]}
      BY <2>3 DEF Kept, Envelope
    <3>2. place[e] # "none"
      BY <1>5 DEF HomeTakes, CarryInv, NotYetOut
    <3>3. Fate[e[1]] # "idle"
      BY <3>1, <3>2 DEF CarryInv, Fresh, Fate
    <3>4. Sender!Keep(e[1])
      BY <2>1, <3>1, <3>3 DEF Sender!Keep
    <3> QED
      BY <3>1, <3>4 DEF Sender!Next
  <2> QED
    BY <1>5, <2>2, <2>3 DEF HomeTakes
<1>6. CASE SocketReplaced \/ CarrierNext \/ LinkNext \/ UNCHANGED vars
  <2>1. UNCHANGED <<outbox, stored>>
    BY <1>6
    DEF SocketReplaced, CarrierNext, CarryTransitEnvelope, ParkTimer, WaitOver,
        TransitResult, CarrierRestarts, LinkNext, LinkUp, LinkDies, LinkClosed,
        HomeEndCloses, clientVars, vars
  <2> QED
    BY <2>1, CourierStutter
<1>7. \A r \in replies : r[1] \in Envelope /\ r[2] \in Answer
  BY DEF TypeOK
<1>8. \A o \in out : o[1] \in Envelope /\ o[2] \in Link
  BY DEF TypeOK
<1> QED
  BY <1>1, <1>3, <1>4, <1>5, <1>6, <1>7, <1>8 DEF Next, ClientNext

\* The outbox, the carrier, the links and the home relay together implement
\* Courier: what the sender is shown is never more than the home relay did.
THEOREM TransitImplementsCourier == Spec => ImplementsCourier
<1>1. Init => Sender!Init
  BY CourierInit
<1>2. TypeOK /\ CarryInv /\ [Next]_vars => [Sender!Next]_(Sender!vars)
  BY CourierStep
<1> QED
  BY <1>1, <1>2, CarryAlways, PTL DEF Spec, ImplementsCourier, Sender!Spec

=============================================================================
