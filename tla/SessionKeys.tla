---------------------------- MODULE SessionKeys ----------------------------
(***************************************************************************)
(* How two contacts agree on the key of a live session (src/js/chat:       *)
(* ensureSessionKey, mintSessionKey, completeKex, mintSessionKeyLegacy and *)
(* handleSessionMessage of 29-file-transfer.js, renegotiateSessionKey and  *)
(* hydrateSessionKey of 18-file-manager-2.js).  The side whose fingerprint *)
(* sorts first, the owner, offers an ephemeral; the other answers with its *)
(* own; the key is made of the two.  Timers on both sides fall back to a   *)
(* key one side makes and wraps for the other.  A text that does not open  *)
(* makes its reader ask for a new exchange.                                *)
(*                                                                         *)
(* The module follows one connection from its opening, over whatever keys  *)
(* earlier ones left.  The handlers of one side run one after another; the *)
(* timers and the exchanges they begin run beside them, and every await at *)
(* which the two can cross is a step of its own.                           *)
(*                                                                         *)
(* KeysInit, KeysNext, keysVars and the like carry the name of the         *)
(* component: SpaceAndSessionProofs reads this module beside GroupSpace.   *)
(***************************************************************************)
EXTENDS Naturals, Sequences, FiniteSets

CONSTANTS
    Ids,           \* bound: the random values in use at one time
    Prekeys,       \* do the contacts publish prekeys: a subset of BOOLEAN
    MaxOdd         \* bound: texts written while an exchange is on, and timers and
                   \* letters that cross one

ASSUME OldKeysAreIds == {1, 2} \subseteq Ids
ASSUME PrekeysIsASetting == Prekeys \subseteq BOOLEAN
ASSUME MaxOddIsNat == MaxOdd \in Nat

VARIABLES
    prekey,                     \* chosen at the start
    key, ready, fresh,          \* cryptoKey; keyReady; keyNegotiatedFor this connection
    stored,                     \* chatState.sessionKeys
    did,                        \* peerDidKex
    mine, kexTimer,             \* the owner's kexPrivate and its 4 s timer
    fallback,                   \* the other's 6 s timer
    pairing, pairQ,             \* mints of the owner that wait for their ephemeral:
                                \* beside the queue, and in it
    deriving, wrapping,         \* completeKex and mintSessionKeyLegacy under way
    held,                       \* a letter being read: the key put aside
    later,                      \* the call 1.2 s after the opening is to come
    line,                       \* what each side has sent
    crossed,                    \* two mints of the owner were under way at once
    hasty, slips                \* the bounded counts

keys == <<key, ready, fresh, stored>>
owners == <<mine, kexTimer, pairing, pairQ>>
jobs == <<deriving, wrapping, held, later>>
keysVars == <<prekey, keys, did, owners, crossed, fallback, jobs, line, hasty, slips>>

-----------------------------------------------------------------------------
Side == {"owner", "other"}
Far(s) == IF s = "owner" THEN "other" ELSE "owner"

\* A key is the set of the random values it was made of: two for an exchange,
\* one for any other; {} is no key.
Key == {S \in SUBSET Ids : Cardinality(S) <= 2}

Message == [kind : {"hello", "request", "offer", "answer", "chat-key", "text"}, part : Key]
Msg(kind, part) == [kind |-> kind, part |-> part]

Send(s, m) == line' = [line EXCEPT ![s] = Append(@, m)]

Said(s) == UNION {line[s][n].part : n \in DOMAIN line[s]}
InUse ==
    mine \cup UNION {key[s] \cup stored[s] \cup deriving[s] \cup held[s].was \cup Said(s)
                      : s \in Side}
\* A random value nobody holds; the bound leaves one.
IdLeft == ~(Ids \subseteq InUse)
NewId == CHOOSE i \in Ids : i \notin InUse

NoLetter == [on |-> FALSE, was |-> {}]

\* The queue of s is free: no handler of it waits.
Idle(s) == deriving[s] = {} /\ ~(s = "owner" /\ pairQ)

Rest ==
    /\ \A s \in Side : line[s] = <<>> /\ deriving[s] = {} /\ ~wrapping[s]
                       /\ ~held[s].on /\ ~later[s]
    /\ pairing = 0 /\ ~pairQ

Slip == hasty + slips < MaxOdd /\ slips' = slips + 1

\* Every session carries over the key it had, or has none; what is stored may
\* differ from one side to the other.  Only the names of the values are fixed.
KeysInit ==
    /\ prekey \in Prekeys
    /\ stored \in [Side -> {{}, {1}, {2}}]
    /\ stored["owner"] # {2} /\ (stored["other"] = {2} => stored["owner"] = {1})
    /\ key \in [Side -> {{}, {1}, {2}}] /\ \A s \in Side : key[s] \in {{}, stored[s]}
    /\ ready = [s \in Side |-> key[s] # {}] /\ fresh = [s \in Side |-> FALSE]
    /\ did = [s \in Side |-> FALSE]
    /\ mine = {} /\ kexTimer = FALSE /\ pairing = 0 /\ pairQ = FALSE
    /\ fallback = FALSE
    /\ deriving = [s \in Side |-> {}] /\ wrapping = [s \in Side |-> FALSE]
    /\ held = [s \in Side |-> NoLetter] /\ later = [s \in Side |-> TRUE]
    /\ line = [s \in Side |-> <<Msg("hello", {})>>]
    /\ crossed = FALSE /\ hasty = 0 /\ slips = 0

-----------------------------------------------------------------------------
(* mintSessionKey of the owner, in the steps its awaits cut it into.        *)

\* Mutant of MayMint: the offer that waits for its answer is not looked at.
MayMintAgain == ~(ready["owner"] /\ fresh["owner"])

\* One exchange per connection, and none when there is a key for it.
MayMint == mine = {} /\ ~(ready["owner"] /\ fresh["owner"])

\* The guards are read now, and what they guard is written after the await: a
\* mint that begins in between finds them as this one did.
MintsBeside(may) ==
    /\ pairing' = IF may THEN pairing + 1 ELSE pairing
    /\ crossed' = (crossed \/ (may /\ (pairQ \/ pairing > 0)))
    /\ UNCHANGED <<mine, kexTimer, pairQ>>
MintsInQueue(may) ==
    /\ pairQ' = may
    /\ crossed' = (crossed \/ (may /\ pairing > 0))
    /\ UNCHANGED <<mine, kexTimer, pairing>>

\* ensureSessionKey of the owner: one fresh key per connection.
Wants == ~(key["owner"] # {} /\ fresh["owner"]) /\ MayMint

\* Mutant of Paired: the private half of an earlier offer is kept.
PairedBesideTheLast ==
    /\ IdLeft
    /\ \/ pairing > 0 /\ pairing' = pairing - 1 /\ UNCHANGED pairQ
       \/ pairQ /\ pairQ' = FALSE /\ UNCHANGED pairing
    /\ mine' = mine \cup {NewId} /\ kexTimer' = TRUE
    /\ key' = [key EXCEPT !["owner"] = {}]
    /\ ready' = [ready EXCEPT !["owner"] = FALSE]
    /\ Send("owner", Msg("offer", {NewId}))
    /\ UNCHANGED <<prekey, fresh, stored, did, crossed, fallback, jobs, hasty, slips>>

\* The ephemeral is made: what was there is put aside, and the offer goes.
Paired ==
    /\ IdLeft
    /\ \/ pairing > 0 /\ pairing' = pairing - 1 /\ UNCHANGED pairQ
       \/ pairQ /\ pairQ' = FALSE /\ UNCHANGED pairing
    /\ mine' = {NewId} /\ kexTimer' = TRUE
    /\ key' = [key EXCEPT !["owner"] = {}]
    /\ ready' = [ready EXCEPT !["owner"] = FALSE]
    /\ Send("owner", Msg("offer", {NewId}))
    /\ UNCHANGED <<prekey, fresh, stored, did, crossed, fallback, jobs, hasty, slips>>

\* No answer for four seconds: the owner makes a key itself.  Between two sides
\* that know the exchange it means a slow one.
KexTimerFires ==
    /\ kexTimer /\ Slip
    /\ kexTimer' = FALSE
    /\ IF ready["owner"] THEN UNCHANGED <<mine, wrapping>>
       ELSE mine' = {} /\ wrapping' = [wrapping EXCEPT !["owner"] = TRUE]
    /\ UNCHANGED <<prekey, keys, did, pairing, pairQ, crossed, fallback, deriving, held,
                   later, line, hasty>>

\* No key for six seconds after the other asked for one.
FallbackFires ==
    /\ fallback /\ fallback' = FALSE
    /\ (Rest /\ UNCHANGED slips) \/ (~Rest /\ Slip)
    /\ wrapping' = [wrapping EXCEPT !["other"] =
                      @ \/ (key["other"] = {} /\ ~(ready["other"] /\ fresh["other"]))]
    /\ UNCHANGED <<prekey, keys, did, owners, crossed, deriving, held, later, line, hasty>>

\* s has a key for this connection, and it is stored.
Takes(s, k) ==
    /\ key' = [key EXCEPT ![s] = k]
    /\ ready' = [ready EXCEPT ![s] = TRUE]
    /\ fresh' = [fresh EXCEPT ![s] = TRUE]
    /\ stored' = [stored EXCEPT ![s] = k]
    /\ fallback' = IF s = "other" THEN FALSE ELSE fallback

Wrapped(s) ==
    /\ IdLeft /\ wrapping[s] /\ wrapping' = [wrapping EXCEPT ![s] = FALSE]
    /\ Takes(s, {NewId})
    /\ Send(s, Msg("chat-key", {NewId}))
    /\ UNCHANGED <<prekey, did, owners, crossed, deriving, held, later, hasty, slips>>

\* completeKex: the key, and the private half forgotten.
Derived(s) ==
    /\ deriving[s] # {} /\ deriving' = [deriving EXCEPT ![s] = {}]
    /\ Takes(s, deriving[s])
    /\ IF s = "owner" THEN mine' = {} /\ kexTimer' = FALSE ELSE UNCHANGED <<mine, kexTimer>>
    /\ UNCHANGED <<prekey, did, pairing, pairQ, crossed, wrapping, held, later, line, hasty,
                   slips>>

-----------------------------------------------------------------------------
(* ensureSessionKey and renegotiateSessionKey.                              *)

\* The other asks, and arms its own timer.
OtherAsks ==
    IF key["other"] = {}
    THEN Send("other", Msg("request", {})) /\ fallback' = TRUE
    ELSE UNCHANGED <<line, fallback>>

\* The call after the opening, and a text of a side that has no key.
Ensure(s) ==
    IF s = "owner" THEN MintsBeside(Wants) /\ UNCHANGED <<line, fallback>>
    ELSE OtherAsks /\ UNCHANGED <<owners, crossed>>

EnsuresLater(s) ==
    /\ later[s] /\ later' = [later EXCEPT ![s] = FALSE]
    /\ Ensure(s)
    /\ UNCHANGED <<prekey, keys, did, deriving, wrapping, held, hasty, slips>>

\* What could not be read: everything forgotten, and a new exchange.
Renegotiate(s) ==
    /\ stored' = [stored EXCEPT ![s] = {}]
    /\ key' = [key EXCEPT ![s] = {}]
    /\ ready' = [ready EXCEPT ![s] = FALSE]
    /\ fresh' = [fresh EXCEPT ![s] = FALSE]
    /\ IF s = "owner" THEN MintsBeside(mine = {}) ELSE UNCHANGED <<owners, crossed>>

-----------------------------------------------------------------------------
(* What s makes of the message m.  line' is set to the rest of the line of  *)
(* the far side and to what s says.                                         *)

Reads(s, said) ==
    line' = [line EXCEPT ![Far(s)] = Tail(@), ![s] = @ \o said]

HearHello(s, m) ==
    /\ m.kind = "hello"
    /\ IF s = "owner"
       THEN MintsInQueue(Wants) /\ Reads(s, <<>>) /\ UNCHANGED fallback
       ELSE /\ fallback' = (fallback \/ key[s] = {})
            /\ Reads(s, IF key[s] = {} THEN <<Msg("request", {})>> ELSE <<>>)
            /\ UNCHANGED <<owners, crossed>>
    /\ UNCHANGED <<keys, did, deriving>>

\* Mutant of HearRequest: a side that has a key keeps it.
HearRequestIfNone(s, m) ==
    /\ m.kind = "request"
    /\ IF key[s] # {} THEN UNCHANGED <<key, fresh, owners, crossed>>
       ELSE /\ fresh' = [fresh EXCEPT ![s] = FALSE]
            /\ MintsInQueue(mine = {}) /\ UNCHANGED key
    /\ Reads(s, <<>>)
    /\ UNCHANGED <<ready, stored, did, fallback, deriving>>

\* Always honoured.
HearRequest(s, m) ==
    /\ m.kind = "request"
    /\ key' = [key EXCEPT ![s] = {}] /\ fresh' = [fresh EXCEPT ![s] = FALSE]
    /\ MintsInQueue(mine = {})
    /\ Reads(s, <<>>)
    /\ UNCHANGED <<ready, stored, did, fallback, deriving>>

HearOffer(s, m) ==
    /\ m.kind = "offer" /\ IdLeft
    /\ fallback' = FALSE
    /\ did' = [did EXCEPT ![s] = TRUE]
    /\ deriving' = [deriving EXCEPT ![s] = m.part \cup {NewId}]
    /\ Reads(s, <<Msg("answer", {NewId})>>)
    /\ UNCHANGED <<keys, owners, crossed>>

HearAnswer(s, m) ==
    /\ m.kind = "answer"
    /\ IF mine = {} THEN UNCHANGED <<did, deriving>>
       ELSE /\ did' = [did EXCEPT ![s] = TRUE]
            /\ deriving' = [deriving EXCEPT ![s] = mine \cup m.part]
    /\ Reads(s, <<>>)
    /\ UNCHANGED <<keys, owners, crossed, fallback>>

\* A key made by the far side alone.  The owner's own comes first, and whoever
\* can do the exchange is not given keys this way.
HearChatKey(s, m) ==
    /\ m.kind = "chat-key"
    /\ IF (s = "owner" /\ ready[s] /\ fresh[s]) \/ did[s] \/ prekey
       THEN UNCHANGED <<keys, fallback>>
       ELSE Takes(s, m.part)
    /\ Reads(s, <<>>)
    /\ UNCHANGED <<did, owners, crossed, deriving>>

HearText(s, m) ==
    /\ m.kind = "text"
    /\ IF m.part = key[s] THEN Reads(s, <<>>) /\ UNCHANGED <<keys, owners, crossed>>
       ELSE /\ Renegotiate(s)
            /\ Reads(s, IF s = "other" THEN <<Msg("request", {})>> ELSE <<>>)
    /\ UNCHANGED <<did, fallback, deriving>>

Hears(s) ==
    /\ Idle(s) /\ line[Far(s)] # <<>>
    /\ LET m == Head(line[Far(s)]) IN
       HearHello(s, m) \/ HearRequest(s, m) \/ HearOffer(s, m) \/ HearAnswer(s, m)
       \/ HearChatKey(s, m) \/ HearText(s, m)
    /\ UNCHANGED <<prekey, wrapping, held, later, hasty, slips>>

-----------------------------------------------------------------------------
(* Talk, and letters from the relay.                                        *)

\* hydrateSessionKey: the key of s, or the stored one taken up.
Hydrated(s) == IF key[s] # {} THEN key[s] ELSE stored[s]

Hasty ==
    \/ Rest /\ UNCHANGED hasty
    \/ ~Rest /\ hasty + slips < MaxOdd /\ hasty' = hasty + 1

\* deliverTextEntry over the open channel.  A side without a key takes up the
\* stored one, or looks for one and waits.
Says(s) ==
    /\ Hasty
    /\ \/ /\ Hydrated(s) # {}
          /\ key' = [key EXCEPT ![s] = Hydrated(s)]
          /\ Send(s, Msg("text", Hydrated(s)))
          /\ ready' = [ready EXCEPT ![s] = @ \/ key[s] = {}]
          /\ UNCHANGED <<owners, crossed, fallback>>
       \/ /\ Hydrated(s) = {}
          /\ Ensure(s) /\ UNCHANGED <<key, ready>>
    /\ UNCHANGED <<prekey, fresh, stored, did, jobs, slips>>

\* Eight seconds without one: a key for the relay, which the open channel is
\* then used with (prepareOfflineSession).
OfflineKey(s) ==
    /\ Hydrated(s) = {} /\ IdLeft /\ Slip
    /\ key' = [key EXCEPT ![s] = {NewId}] /\ ready' = [ready EXCEPT ![s] = TRUE]
    /\ UNCHANGED <<prekey, fresh, stored, did, owners, crossed, fallback, jobs, line, hasty>>

\* handleOfflineRelayMessage: while the letter is read its key stands in the
\* session; then the one found there is put back.
LetterOpens(s) ==
    /\ ~held[s].on /\ IdLeft /\ Slip
    /\ held' = [held EXCEPT ![s] = [on |-> TRUE, was |-> Hydrated(s)]]
    /\ key' = [key EXCEPT ![s] = {NewId}]
    /\ ready' = [ready EXCEPT ![s] = @ \/ (key[s] = {} /\ stored[s] # {})]
    /\ UNCHANGED <<prekey, fresh, stored, did, owners, crossed, fallback, deriving, wrapping,
                   later, line, hasty>>

LetterRead(s) ==
    /\ held[s].on /\ held' = [held EXCEPT ![s] = NoLetter]
    /\ key' = [key EXCEPT ![s] = held[s].was]
    /\ UNCHANGED <<prekey, ready, fresh, stored, did, owners, crossed, fallback, deriving, wrapping,
                   later, line, hasty, slips>>

-----------------------------------------------------------------------------
Works(s) == Hears(s) \/ Derived(s) \/ Wrapped(s) \/ LetterRead(s) \/ EnsuresLater(s)

KeysNext ==
    \/ Paired \/ KexTimerFires \/ FallbackFires
    \/ \E s \in Side : Works(s) \/ Says(s) \/ OfflineKey(s) \/ LetterOpens(s)

KeysSpec == KeysInit /\ [][KeysNext]_keysVars

\* Messages arrive and what was begun ends; the two go on talking, with pauses.
KeysFairSpec ==
    /\ KeysSpec
    /\ WF_keysVars(Paired) /\ WF_keysVars(Rest /\ FallbackFires)
    /\ \A s \in Side :
        /\ WF_keysVars(Hears(s)) /\ WF_keysVars(Derived(s)) /\ WF_keysVars(Wrapped(s))
        /\ WF_keysVars(LetterRead(s)) /\ WF_keysVars(EnsuresLater(s))
        /\ WF_keysVars(Rest /\ Says(s))

-----------------------------------------------------------------------------
(* What holds.                                                              *)

\* Every key is made of one random value or of two, one of each side.
KeysTypeOK ==
    /\ prekey \in BOOLEAN
    /\ key \in [Side -> Key] /\ stored \in [Side -> Key] /\ deriving \in [Side -> Key]
    /\ ready \in [Side -> BOOLEAN] /\ fresh \in [Side -> BOOLEAN] /\ did \in [Side -> BOOLEAN]
    /\ mine \in Key /\ kexTimer \in BOOLEAN /\ fallback \in BOOLEAN
    /\ pairing \in Nat /\ pairQ \in BOOLEAN /\ crossed \in BOOLEAN
    /\ wrapping \in [Side -> BOOLEAN] /\ later \in [Side -> BOOLEAN]
    /\ held \in [Side -> [on : BOOLEAN, was : Key]]
    /\ line \in [Side -> Seq(Message)]
    /\ hasty \in Nat /\ slips \in Nat

Agreed == key["owner"] = key["other"] /\ key["owner"] # {}

\* When no timer, letter or second mint crossed the exchange, then whatever keys
\* the two brought along and whatever was written meanwhile, all that was sent
\* being read, both hold one key, made on this connection, and may send.
AgreeUndisturbed ==
    Rest /\ slips = 0 /\ ~crossed => Agreed /\ \A s \in Side : ready[s] /\ fresh[s]

\* Crossed or not: the pair ends with one key and keeps it, for a text that does
\* not open makes its reader start over.
Heals == <>[]Agreed
=============================================================================
