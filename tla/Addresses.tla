------------------------------ MODULE Addresses ------------------------------
(***************************************************************************)
(* Lightning addresses: the zap_names, accepted_keys and address_holds     *)
(* tables (store.ts) and everything that writes them: POST, PUT and DELETE *)
(* at the address itself (addresses.ts), POST /names (names.ts), the fee   *)
(* paid over Lightning or with a note, the settlement poll and a lookup's  *)
(* check of one hold (zap.ts), and the operator (admin.ts, server.ts).     *)
(*                                                                         *)
(* A signature is a guard: a request by key k or share s is one that k or  *)
(* s signed, for this name, and may arrive any number of times.            *)
(***************************************************************************)
EXTENDS Naturals, FiniteSets

CONSTANTS
  Names, Keys, Shares,
  Holds,           \* payment hashes of address fee invoices, one per hold
  FeeNotes,        \* notes a registration may be paid with
  Casts,           \* which of these, and what price, a behaviour may use
  FreeNamesPerKey, \* FREE_NAMES_PER_PUBKEY
  MaxCalls,        \* bound: requests waiting at once
  NoKey, NoShare, NoHold, NoNote

CastFields == {"names", "keys", "shares", "holds", "notes", "priced"}

ASSUME AddressAssumption ==
  /\ Names # {} /\ Names \intersect Holds = {}
  /\ NoKey \notin Keys /\ NoShare \notin Shares /\ NoHold \notin Holds
  /\ NoNote \notin FeeNotes
  /\ FreeNamesPerKey \in Nat /\ MaxCalls \in Nat
  /\ \A c \in Casts : /\ CastFields \subseteq DOMAIN c
                      /\ c.names \subseteq Names /\ c.keys \subseteq Keys
                      /\ c.shares \subseteq Shares /\ c.holds \subseteq Holds
                      /\ c.notes \subseteq FeeNotes /\ c.priced \in BOOLEAN

VARIABLES
  cast,      \* the actors and the price of this behaviour; never changes
  zapName,   \* zap_names by name
  accepted,  \* accepted_keys
  hold,      \* address_holds by payment hash
  clock,     \* how far each hold's invoice is past its expiry
  feePaid,   \* holds whose invoice the node saw paid
  feeNote,   \* the state of each fee note
  calls,     \* requests waiting for the node or for a note to be opened
  pass       \* the settleHolds pass

nameVars == <<cast, zapName, accepted>>
addrVars == <<cast, zapName, accepted, hold, clock, feePaid, feeNote, calls, pass>>

NoName == [source |-> "none", pubkey |-> NoKey, cx1 |-> NoShare, next |-> 0]
NoHoldRow == [state |-> "none", name |-> CHOOSE n \in Names : TRUE, cx1 |-> NoShare]
NoPass == [on |-> FALSE, live |-> {}, lapsed |-> {}, old |-> {}]

AddrInit ==
  /\ cast \in Casts
  /\ zapName = [n \in Names |-> NoName]
  /\ accepted = {}
  /\ hold = [h \in Holds |-> NoHoldRow]
  /\ clock = [h \in Holds |-> "payable"]
  /\ feePaid = {}
  /\ feeNote = [t \in FeeNotes |-> "outstanding"]
  /\ calls = {}
  /\ pass = NoPass

-----------------------------------------------------------------------------
(* Reading the tables.                                                     *)

Registered(n) == zapName[n].source # "none"

\* Holds whose invoice expired more than HOLD_GRACE_MS ago.
Past == {h \in Holds : clock[h] \in {"lapsed", "dayOld"}}

\* liveHold, with the time at which the holds in past were over.
LiveHolds(n, past) ==
  {h \in Holds \ past : hold[h].state = "unsettled" /\ hold[h].name = n}

NameTaken(n, past) == Registered(n) \/ LiveHolds(n, past) # {}

NamesOf(k) == {n \in Names : Registered(n) /\ zapName[n].pubkey = k}

-----------------------------------------------------------------------------
(* The store's transactions on zap_names.                                  *)

Insert(n, k, s) ==
  zapName' = [zapName EXCEPT ![n] = [source |-> "self", pubkey |-> k, cx1 |-> s, next |-> 0]]

\* acceptKey, where no share at all needs no accepting.
CanAccept(s) == s = NoShare \/ s \notin accepted

\* Mutation: a claim without a share is recorded as one.
AcceptAbsent(s) == accepted' = accepted \union {s}

Accept(s) == accepted' = accepted \union ({s} \ {NoShare})

\* setZapNameCx1: a new share starts at index 0.
SetZapNameCx1(n, s) ==
  zapName' = [zapName EXCEPT ![n].cx1 = s,
                             ![n].next = IF zapName[n].cx1 = s THEN @ ELSE 0]

RemoveZapName(n) == zapName' = [zapName EXCEPT ![n] = NoName]

\* Mutation: the fee is kept whenever anyone holds the name, itself included.
CompleteHoldRivalled(h) ==
  LET n == hold[h].name IN
  /\ hold' = [hold EXCEPT ![h].state = "settled"]
  /\ IF Registered(n) \/ LiveHolds(n, Past) # {}
       THEN UNCHANGED zapName
       ELSE Insert(n, NoKey, hold[h].cx1)

\* completeHold: the name is registered, unless somebody else has it now.
CompleteHold(h) ==
  LET n == hold[h].name IN
  /\ hold' = [hold EXCEPT ![h].state = "settled"]
  /\ IF Registered(n) \/ LiveHolds(n, Past) \ {h} # {}
       THEN UNCHANGED zapName
       ELSE Insert(n, NoKey, hold[h].cx1)

\* settleHold: nothing for a hold that is settled or gone.
SettleHold(h) ==
  IF hold[h].state = "unsettled" THEN CompleteHold(h) ELSE UNCHANGED <<hold, zapName>>

DeleteUnsettledHold(h) ==
  hold' = IF hold[h].state = "unsettled" THEN [hold EXCEPT ![h] = NoHoldRow] ELSE hold

-----------------------------------------------------------------------------
(* Requests at the Lightning Address: a share's key signs for itself.      *)

Idle == [op |-> "none", name |-> CHOOSE n \in Names : TRUE, key |-> NoKey, cx1 |-> NoShare,
         note |-> NoNote, hold |-> NoHold, past |-> {}]

Waits(c) ==
  /\ Cardinality(calls) < MaxCalls
  /\ calls' = calls \union {c}

Done(c) == calls' = calls \ {c}

\* registerAddress, free: checked and inserted with no await between.
RegisterShareName(n, s) ==
  /\ ~cast.priced
  /\ ~NameTaken(n, Past) /\ s \notin accepted
  /\ Insert(n, NoKey, s)
  /\ Accept(s)
  /\ UNCHANGED <<cast, hold, clock, feePaid, feeNote, calls, pass>>

\* registerAddress, for a fee: the time is read, and the name and the share
\* are looked up, before the invoice is asked for.
AskFee(n, s) ==
  /\ cast.priced
  /\ ~NameTaken(n, Past) /\ s \notin accepted
  /\ Waits([Idle EXCEPT !.op = "hold", !.name = n, !.cx1 = s, !.past = Past])
  /\ UNCHANGED <<nameVars, hold, clock, feePaid, feeNote, pass>>

\* Mutation: the name was free when the invoice was asked for.
CanHoldUnchecked(c) == CanAccept(c.cx1)

\* holdAddress checks both again, at the time the request came in.
CanHold(c) == ~NameTaken(c.name, c.past) /\ CanAccept(c.cx1)

\* Mutation: the share is accepted once the fee is paid.
AcceptLater(s) == UNCHANGED accepted

\* The proof has been seen, so it must never apply again.
AcceptHeld(s) == Accept(s)

\* The invoice is here; the hold goes in, or the request is refused.
HoldAddress(c, h) ==
  /\ c.op = "hold" /\ hold[h].state = "none" /\ clock[h] = "payable"
  /\ IF CanHold(c)
       THEN /\ hold' = [hold EXCEPT ![h] = [state |-> "unsettled", name |-> c.name, cx1 |-> c.cx1]]
            /\ AcceptHeld(c.cx1)
       ELSE UNCHANGED <<hold, accepted>>
  /\ Done(c)
  /\ UNCHANGED <<cast, zapName, clock, feePaid, feeNote, pass>>

\* Mutation: any share both keys sign for will do.
CanMoveTo(s) == TRUE

\* updateAddress: a share already seen is refused, the one on file included.
CanMove(s) == s \notin accepted

MoveShare(n, s) ==
  /\ Registered(n) /\ zapName[n].cx1 # NoShare /\ CanMove(s)
  /\ SetZapNameCx1(n, s)
  /\ Accept(s)
  /\ UNCHANGED <<cast, hold, clock, feePaid, feeNote, calls, pass>>

\* Mutation: the share goes and the name stays, whoever owns it.
UnregisterKeeping(n) ==
  /\ Registered(n) /\ zapName[n].cx1 # NoShare
  /\ SetZapNameCx1(n, NoShare)
  /\ UNCHANGED <<cast, accepted, hold, clock, feePaid, feeNote, calls, pass>>

\* unregisterAddress: a name some Nostr key owns stays that key's.
UnregisterAddress(n) ==
  /\ Registered(n) /\ zapName[n].cx1 # NoShare
  /\ IF zapName[n].pubkey # NoKey THEN SetZapNameCx1(n, NoShare) ELSE RemoveZapName(n)
  /\ UNCHANGED <<cast, accepted, hold, clock, feePaid, feeNote, calls, pass>>

-----------------------------------------------------------------------------
(* POST /names: registerName, signed by a Nostr key.                       *)

\* The owner sets a share where there is none, or clears the one there is.
OwnerSetsShare(k, n, s) ==
  /\ Registered(n) /\ zapName[n].pubkey = k
  /\ s # NoShare => zapName[n].cx1 = NoShare
  /\ CanAccept(s)
  /\ SetZapNameCx1(n, s)
  /\ Accept(s)
  /\ UNCHANGED <<cast, hold, clock, feePaid, feeNote, calls, pass>>

MayClaim(n) == ~Registered(n) /\ LiveHolds(n, Past) = {}

ClaimFree(k, n, s) ==
  /\ ~cast.priced
  /\ MayClaim(n) /\ CanAccept(s)
  /\ Cardinality(NamesOf(k)) < FreeNamesPerKey
  /\ Insert(n, k, s)
  /\ Accept(s)
  /\ UNCHANGED <<cast, hold, clock, feePaid, feeNote, calls, pass>>

\* A priced claim waits while the note offered for it is opened.
OfferNote(k, n, s, t) ==
  /\ cast.priced
  /\ MayClaim(n)
  /\ Waits([Idle EXCEPT !.op = "buy", !.name = n, !.key = k, !.cx1 = s, !.note = t])
  /\ UNCHANGED <<nameVars, hold, clock, feePaid, feeNote, pass>>

\* buyZapName looks for a hold again, and its INSERT for the name.
CanBuy(c) == LiveHolds(c.name, Past) = {} /\ ~Registered(c.name)

\* buyZapName: the note burned and the name taken, or neither.
BuyZapName(c) ==
  /\ c.op = "buy"
  /\ IF CanBuy(c) /\ CanAccept(c.cx1) /\ feeNote[c.note] = "outstanding"
       THEN /\ Accept(c.cx1)
            /\ feeNote' = [feeNote EXCEPT ![c.note] = "burned"]
            /\ Insert(c.name, c.key, c.cx1)
       ELSE UNCHANGED <<accepted, feeNote, zapName>>
  /\ Done(c)
  /\ UNCHANGED <<cast, hold, clock, feePaid, pass>>

-----------------------------------------------------------------------------
(* Paying the fee.                                                         *)

\* The invoice is paid, at the node, while it can be.
PayFee(h) ==
  /\ hold[h].state # "none" /\ clock[h] = "payable" /\ h \notin feePaid
  /\ feePaid' = feePaid \union {h}
  /\ UNCHANGED <<nameVars, hold, clock, feeNote, calls, pass>>

\* payHoldWithNote: a melt into this mint's own fee invoice.
PayHoldWithNote(h, t) ==
  /\ hold[h].state = "unsettled" /\ clock[h] = "payable" /\ feeNote[t] = "outstanding"
  /\ feeNote' = [feeNote EXCEPT ![t] = "burned"]
  /\ CompleteHold(h)
  /\ UNCHANGED <<cast, accepted, clock, feePaid, calls, pass>>

\* The note is spent some other way.
SpendFeeNote(t) ==
  /\ feeNote[t] = "outstanding"
  /\ feeNote' = [feeNote EXCEPT ![t] = "burned"]
  /\ UNCHANGED <<nameVars, hold, clock, feePaid, calls, pass>>

\* Time: the invoice expires, the grace after it ends, and then a day.
Later == [payable |-> "grace", grace |-> "lapsed", lapsed |-> "dayOld"]

Elapse(h) ==
  /\ hold[h].state # "none" /\ clock[h] # "dayOld"
  /\ clock' = [clock EXCEPT ![h] = Later[@]]
  /\ UNCHANGED <<nameVars, hold, feePaid, feeNote, calls, pass>>

\* A lookup of a held name asks the node about its hold.
LookUpHeld(n, h) ==
  /\ ~Registered(n) /\ h \in LiveHolds(n, Past)
  /\ Waits([Idle EXCEPT !.op = "lookup", !.name = n, !.hold = h])
  /\ UNCHANGED <<nameVars, hold, clock, feePaid, feeNote, pass>>

LookUpFindsPaid(c) ==
  /\ c.op = "lookup" /\ c.hold \in feePaid
  /\ SettleHold(c.hold)
  /\ Done(c)
  /\ UNCHANGED <<cast, accepted, clock, feePaid, feeNote, pass>>

\* Any waiting request can come to nothing: no invoice, no note, no answer.
CallFails(c) ==
  /\ Done(c)
  /\ UNCHANGED <<nameVars, hold, clock, feePaid, feeNote, pass>>

-----------------------------------------------------------------------------
(* The settleHolds pass.  Its rows and its time are read once; then each   *)
(* hold waits for the node in turn, the live ones first.                   *)

Unsettled == {h \in Holds : hold[h].state = "unsettled"}

PassStart ==
  /\ ~pass.on
  /\ pass' = [on |-> TRUE, live |-> Unsettled \ Past, lapsed |-> Unsettled \intersect Past,
              old |-> {h \in Holds : clock[h] = "dayOld"}]
  /\ UNCHANGED <<nameVars, hold, clock, feePaid, feeNote, calls>>

PassTurn(h) ==
  /\ h \in pass.live \union pass.lapsed
  /\ h \in pass.lapsed => pass.live = {}
  /\ pass' = [pass EXCEPT !.live = @ \ {h}, !.lapsed = @ \ {h}]

PassFindsPaid(h) ==
  /\ PassTurn(h) /\ h \in feePaid
  /\ SettleHold(h)
  /\ UNCHANGED <<cast, accepted, clock, feePaid, feeNote, calls>>

PassFindsUnpaid(h) ==
  /\ PassTurn(h) /\ h \notin feePaid
  /\ IF h \in pass.lapsed THEN DeleteUnsettledHold(h) ELSE UNCHANGED hold
  /\ UNCHANGED <<nameVars, clock, feePaid, feeNote, calls>>

\* Mutation: no answer after the grace is as good as unpaid.
GivesUpLapsed(h) == h \in pass.lapsed

\* No answer for a day after expiry, and the record goes.
GivesUp(h) == h \in pass.lapsed /\ h \in pass.old

PassHearsNothing(h) ==
  /\ PassTurn(h)
  /\ IF GivesUp(h) THEN DeleteUnsettledHold(h) ELSE UNCHANGED hold
  /\ UNCHANGED <<nameVars, clock, feePaid, feeNote, calls>>

PassEnd ==
  /\ pass.on /\ pass.live = {} /\ pass.lapsed = {}
  /\ pass' = NoPass
  /\ UNCHANGED <<nameVars, hold, clock, feePaid, feeNote, calls>>

-----------------------------------------------------------------------------
(* The operator: names of the environment at every startup, `admin names`. *)

\* putOperatorZapName: the share survives, unless the owner changes.
PutOperatorZapName(n, k) ==
  /\ LET same == Registered(n) /\ zapName[n].pubkey = k IN
     zapName' = [zapName EXCEPT ![n] =
                   [source |-> "env", pubkey |-> k,
                    cx1 |-> IF same THEN zapName[n].cx1 ELSE NoShare,
                    next |-> IF same THEN zapName[n].next ELSE 0]]
  /\ UNCHANGED <<cast, accepted, hold, clock, feePaid, feeNote, calls, pass>>

OperatorRemoves(n) ==
  /\ Registered(n)
  /\ RemoveZapName(n)
  /\ UNCHANGED <<cast, accepted, hold, clock, feePaid, feeNote, calls, pass>>

\* The process dies: its requests and its pass with it.
AddrCrash ==
  /\ calls' = {} /\ pass' = NoPass
  /\ UNCHANGED <<nameVars, hold, clock, feePaid, feeNote>>

-----------------------------------------------------------------------------

NameStep ==
  \E n \in cast.names :
    \/ UnregisterAddress(n) \/ OperatorRemoves(n)
    \/ \E s \in cast.shares : RegisterShareName(n, s) \/ AskFee(n, s) \/ MoveShare(n, s)
    \/ \E k \in cast.keys :
         \/ PutOperatorZapName(n, k)
         \/ \E s \in cast.shares \union {NoShare} :
              \/ OwnerSetsShare(k, n, s) \/ ClaimFree(k, n, s)
              \/ \E t \in cast.notes : OfferNote(k, n, s, t)
    \/ \E h \in cast.holds : LookUpHeld(n, h)

CallStep ==
  \E c \in calls :
    \/ BuyZapName(c) \/ LookUpFindsPaid(c) \/ CallFails(c)
    \/ \E h \in cast.holds : HoldAddress(c, h)

FeeStep ==
  \/ \E h \in cast.holds : PayFee(h) \/ Elapse(h) \/ \E t \in cast.notes : PayHoldWithNote(h, t)
  \/ \E t \in cast.notes : SpendFeeNote(t)

PassStep == \E h \in cast.holds : PassFindsPaid(h) \/ PassFindsUnpaid(h) \/ PassHearsNothing(h)

AddrNext == NameStep \/ CallStep \/ FeeStep \/ PassStart \/ PassStep \/ PassEnd \/ AddrCrash

AddrSpec == AddrInit /\ [][AddrNext]_addrVars

-----------------------------------------------------------------------------

\* Where a share is of use: on a name, or on a hold that may become one.
Homes(s) == {n \in Names : Registered(n) /\ zapName[n].cx1 = s}
              \union {h \in Unsettled : hold[h].cx1 = s}

\* Every address variable has its shape.
AddrTypeOK ==
  /\ cast \in Casts
  /\ zapName \in [Names -> [source : {"none", "env", "self"}, pubkey : Keys \union {NoKey},
                            cx1 : Shares \union {NoShare}, next : Nat]]
  /\ accepted \subseteq Shares
  /\ hold \in [Holds -> [state : {"none", "unsettled", "settled"}, name : Names,
                         cx1 : Shares \union {NoShare}]]
  /\ clock \in [Holds -> {"payable", "grace", "lapsed", "dayOld"}]
  /\ feePaid \subseteq Holds
  /\ feeNote \in [FeeNotes -> {"outstanding", "burned"}]
  /\ calls \subseteq [op : {"none", "hold", "buy", "lookup"}, name : Names,
                      key : Keys \union {NoKey}, cx1 : Shares \union {NoShare},
                      note : FeeNotes \union {NoNote}, hold : Holds \union {NoHold},
                      past : SUBSET Holds]
  /\ pass \in [on : BOOLEAN, live : SUBSET Holds, lapsed : SUBSET Holds, old : SUBSET Holds]

\* No share is ever the payee of two names, or of a name and a hold, or of
\* two holds, through whichever of the four doors it came in (accepted_keys).
OneHomePerShare ==
  \A s \in Shares : \A x, y \in Homes(s) : x = y

\* A share that was seen and is of use nowhere is never of use again: a
\* proof that was once sent here cannot be sent again (acceptKey, forever).
SharesNeverReturn ==
  [][\A s \in accepted : Homes(s) = {} => Homes(s)' = {}]_addrVars

\* While a hold is live it is the only one, and nobody but the operator has
\* the name, however the awaits of rival requests fall (holdAddress, buyZapName).
LiveHoldKeepsItsName ==
  \A n \in Names : \A h \in LiveHolds(n, Past) :
    /\ LiveHolds(n, Past) = {h}
    /\ Registered(n) => zapName[n].source = "env"

\* Every registered name has somebody to pay: a Nostr key or a share.  (The
\* zap bridge counts on it: zap.ts settle, "a row no code path makes".)
EveryNameHasAPayee ==
  \A n \in Names : Registered(n) => zapName[n].pubkey # NoKey \/ zapName[n].cx1 # NoShare

\* A fee seen paid while its hold is live buys the name, unless the operator
\* has given it away (settleHold, payHoldWithNote).
FeeBuysTheName ==
  [][\A h \in Holds :
       LET n == hold[h].name IN
       (hold[h].state = "unsettled" /\ hold'[h].state = "settled"
          /\ h \notin Past /\ zapName[n].source # "env")
         => zapName'[n] = [source |-> "self", pubkey |-> NoKey, cx1 |-> hold[h].cx1, next |-> 0]
    ]_addrVars
=============================================================================
