-------------------------------- MODULE Zaps --------------------------------
(***************************************************************************)
(* The zap bridge (zap.ts) on top of the address registry: invoices for a  *)
(* name, the pass that mints what was paid and pushes the wraps to relays, *)
(* internal transfers, and the sweep.  The registry moves under all of     *)
(* them: a name can change its share or its owner, or be freed and taken,  *)
(* between an invoice and its payment, and at every await.                 *)
(***************************************************************************)
EXTENDS Addresses, FiniteSetsExt

CONSTANTS
  ZapHashes,  \* payment hashes of zap invoices
  Gifts,      \* notes payers hand over in an internal transfer
  MaxIndex,   \* bound: indexes of a share that can ever be wanted
  MaxCrashes, \* bound: times the process dies
  NoZap, Wallet

ASSUME ZapAssumption ==
  /\ MaxIndex \in Nat /\ MaxCrashes \in Nat
  /\ NoZap \notin ZapHashes /\ Wallet \notin ZapHashes \union Gifts
  /\ ZapHashes \intersect Gifts = {}
  /\ \A c \in Casts : /\ {"zaps", "gifts", "own"} \subseteq DOMAIN c
                      /\ c.zaps \subseteq ZapHashes /\ IsFiniteSet(c.zaps)
                      /\ c.gifts \subseteq Gifts /\ IsFiniteSet(c.gifts)
                      /\ c.own \subseteq Shares \X (0..MaxIndex) /\ IsFiniteSet(c.own)
                      /\ Cardinality(c.zaps) + Cardinality(c.gifts) + Cardinality(c.own) <= MaxIndex + 1

KeyNotes == Shares \X (0..MaxIndex)

VARIABLES
  zrow,      \* zap_invoices by payment hash
  zclock,    \* each zap invoice at the node: payable, or an hour past expiry
  zapPaid,   \* zap invoices the node saw paid
  minted,    \* what put a note at each key of a share (history)
  quote,     \* the mint invoice bound to each key: none, open, or lapsed after
             \* a name's counter had gone past the key (history)
  bearer,    \* custodial notes minted for each zap invoice (history)
  gift,      \* the state of each payer's note
  transfers, \* transfer fingerprints recorded
  zcalls,    \* callbacks waiting for the node or for a note to be opened
  tick,      \* the zapTick pass
  wraps,     \* what relays hold of each wrap (external)
  aged,      \* zaps settled longer than INBOX_RETRY_MS ago
  crashes

zapVars == <<zrow, zclock, zapPaid, minted, quote, bearer, gift, transfers, zcalls, tick,
             wraps, aged, crashes>>
vars == <<addrVars, zapVars>>

NoZapRow == [state |-> "none", name |-> CHOOSE n \in Names : TRUE, recipient |-> NoKey, cx1 |-> NoShare]
IdleTick == [stage |-> "idle", todo |-> {}, at |-> NoZap]

Init ==
  /\ AddrInit
  /\ zrow = [z \in ZapHashes |-> NoZapRow]
  /\ zclock = [z \in ZapHashes |-> "unissued"]
  /\ zapPaid = {}
  /\ minted = [i \in KeyNotes |-> {}]
  /\ quote = [i \in KeyNotes |-> "none"]
  /\ bearer = [z \in ZapHashes |-> 0]
  /\ gift = [g \in Gifts |-> "outstanding"]
  /\ transfers = {}
  /\ zcalls = {}
  /\ tick = IdleTick
  /\ wraps = [z \in ZapHashes |-> "none"]
  /\ aged = {}
  /\ crashes = 0

-----------------------------------------------------------------------------
(* Invoices.                                                               *)

ZapWaits(c) ==
  /\ Cardinality(zcalls) < MaxCalls
  /\ zcalls' = zcalls \union {c}

ZapDone(c) == zcalls' = zcalls \ {c}

\* callback: who is to be paid is read before the invoice is asked for.
AskInvoice(n) ==
  /\ Registered(n)
  /\ ZapWaits([op |-> "invoice", name |-> n, recipient |-> zapName[n].pubkey,
               cx1 |-> zapName[n].cx1, gift |-> Wallet])
  /\ UNCHANGED <<addrVars, zrow, zclock, zapPaid, minted, quote, bearer, gift, transfers, tick,
                 wraps, aged, crashes>>

\* recordZapInvoice, with what was read then.
RecordZapInvoice(c, z) ==
  /\ c.op = "invoice" /\ zclock[z] = "unissued"
  /\ zrow' = [zrow EXCEPT ![z] = [state |-> "unsettled", name |-> c.name,
                                  recipient |-> c.recipient, cx1 |-> c.cx1]]
  /\ zclock' = [zclock EXCEPT ![z] = "payable"]
  /\ ZapDone(c)
  /\ UNCHANGED <<addrVars, zapPaid, minted, quote, bearer, gift, transfers, tick, wraps, aged, crashes>>

PayZap(z) ==
  /\ zclock[z] = "payable" /\ z \notin zapPaid
  /\ zapPaid' = zapPaid \union {z}
  /\ UNCHANGED <<addrVars, zrow, zclock, minted, quote, bearer, gift, transfers, zcalls, tick,
                 wraps, aged, crashes>>

ZapExpires(z) ==
  /\ zclock[z] = "payable"
  /\ zclock' = [zclock EXCEPT ![z] = "stale"]
  /\ UNCHANGED <<addrVars, zrow, zapPaid, minted, quote, bearer, gift, transfers, zcalls, tick,
                 wraps, aged, crashes>>

-----------------------------------------------------------------------------
(* Keys of a share.                                                        *)

\* The store refuses a key that names a note, and one an unsettled mint
\* invoice is bound to (outputIdInUse).  The payment hashes, payment Qs and Qs
\* of old ids it also refuses are taken not to be keys of a share.
KeyInUse(key) == minted[key] # {} \/ quote[key] = "open"

\* The first key at or after an index that is not in use (noteAt and
\* outputIdInUse).  Every index is taken to have a key, and the code's limits
\* of 10000 and 1000 tries not to be reached.
NextKey(s, from) == Min({i \in from..MaxIndex : ~KeyInUse(<<s, i>>)})

\* The name's counter while it has this share; else the share from 0.
StartOf(n, s) == IF zapName[n].cx1 = s THEN zapName[n].next ELSE 0

\* Mutation: the counter is bumped even if it counts another share's keys.
BumpAlways(n, s, i) == zapName' = [zapName EXCEPT ![n].next = IF Registered(n) THEN i + 1 ELSE @]

Bump(n, s, i) ==
  zapName' = IF zapName[n].cx1 = s THEN [zapName EXCEPT ![n].next = i + 1] ELSE zapName

\* A note at the share's next key, for a payment or a transfer to the name.
CreditShare(n, s, source) ==
  LET i == NextKey(s, StartOf(n, s)) IN
  /\ minted' = [minted EXCEPT ![<<s, i>>] = @ \union {source}]
  /\ Bump(n, s, i)

\* A note under a secret of the mint's drawing, parked with its wrap.
CreditBearer(z) == bearer' = [bearer EXCEPT ![z] = @ + 1]

\* A wallet's own swap puts a note at one of its keys.
WalletUses(key) ==
  /\ ~KeyInUse(key)
  /\ minted' = [minted EXCEPT ![key] = {Wallet}]
  /\ UNCHANGED <<addrVars, zrow, zclock, zapPaid, quote, bearer, gift, transfers, zcalls, tick,
                 wraps, aged, crashes>>

\* A mint invoice is bound to a key the payer's wallet names.
QuoteNames(key) ==
  /\ ~KeyInUse(key)
  /\ quote' = [quote EXCEPT ![key] = "open"]
  /\ UNCHANGED <<addrVars, zrow, zclock, zapPaid, minted, bearer, gift, transfers, zcalls, tick,
                 wraps, aged, crashes>>

\* It is paid, and its note is put at the key.
QuoteSettles(key) ==
  /\ quote[key] = "open"
  /\ quote' = [quote EXCEPT ![key] = "none"]
  /\ minted' = [minted EXCEPT ![key] = IF @ = {} THEN {Wallet} ELSE @]
  /\ UNCHANGED <<addrVars, zrow, zclock, zapPaid, bearer, gift, transfers, zcalls, tick,
                 wraps, aged, crashes>>

\* A name that has the share counts from after the key.
PassedBy(key) ==
  \E n \in Names : zapName[n].cx1 = key[1] /\ key[2] < zapName[n].next

\* It goes unpaid, the sweep deletes it, and the key is free again.
QuoteLapses(key) ==
  /\ quote[key] = "open"
  /\ quote' = [quote EXCEPT ![key] = IF PassedBy(key) THEN "lapsed" ELSE "none"]
  /\ UNCHANGED <<addrVars, zrow, zclock, zapPaid, minted, bearer, gift, transfers, zcalls, tick,
                 wraps, aged, crashes>>

WalletStep(key) == WalletUses(key) \/ QuoteNames(key) \/ QuoteSettles(key) \/ QuoteLapses(key)

-----------------------------------------------------------------------------
(* LUD-26's internal transfer.                                             *)

AskTransfer(n, g) ==
  /\ Registered(n) /\ zapName[n].cx1 # NoShare
  /\ ZapWaits([op |-> "transfer", name |-> n, recipient |-> NoKey, cx1 |-> NoShare, gift |-> g])
  /\ UNCHANGED <<addrVars, zrow, zclock, zapPaid, minted, quote, bearer, gift, transfers, tick,
                 wraps, aged, crashes>>

\* Mutation: the note was outstanding when it was opened.
CanTransferUnchecked(c) == zapName[c.name].cx1 # NoShare

\* transferToShare looks at the name and the note again.
CanTransfer(c) == zapName[c.name].cx1 # NoShare /\ gift[c.gift] = "outstanding"

\* The note is open: a transfer already done is answered as the first, and
\* a new one burns the note and credits the name's share of now.
Transfer(c) ==
  /\ c.op = "transfer"
  /\ IF <<c.gift, c.name>> \notin transfers /\ CanTransfer(c)
       THEN /\ gift' = [gift EXCEPT ![c.gift] = "burned"]
            /\ CreditShare(c.name, zapName[c.name].cx1, c.gift)
            /\ transfers' = transfers \union {<<c.gift, c.name>>}
       ELSE UNCHANGED <<gift, zapName, minted, transfers>>
  /\ ZapDone(c)
  /\ UNCHANGED <<cast, accepted, hold, clock, feePaid, feeNote, calls, pass, zrow, zclock, zapPaid,
                 quote, bearer, tick, wraps, aged, crashes>>

\* No invoice came back, or the note does not open.
ZapCallFails(c) ==
  /\ ZapDone(c)
  /\ UNCHANGED <<addrVars, zrow, zclock, zapPaid, minted, quote, bearer, gift, transfers, tick,
                 wraps, aged, crashes>>

-----------------------------------------------------------------------------
(* zapTick: settle, settleHolds, publish, one pass at a time.              *)

UnsettledZaps == {z \in ZapHashes : zrow[z].state = "unsettled"}
UnpublishedZaps == {z \in ZapHashes : zrow[z].state = "settled"}

TickStart ==
  /\ tick.stage = "idle"
  /\ tick' = [stage |-> "settle", todo |-> UnsettledZaps, at |-> NoZap]
  /\ UNCHANGED <<addrVars, zrow, zclock, zapPaid, minted, quote, bearer, gift, transfers, zcalls,
                 wraps, aged, crashes>>

Settling(z) == tick.stage = "settle" /\ z \in tick.todo
Next_(z) == tick' = [tick EXCEPT !.todo = @ \ {z}, !.at = NoZap]

\* Mutation: the share of whoever holds the name now.
ShareOfName(r) == zapName[r.name].cx1

\* The share the invoice was made for, or else the name's own of now.
ShareFor(r) == IF r.cx1 # NoShare THEN r.cx1 ELSE zapName[r.name].cx1

\* The node says paid: a note at the share's next key, or a custodial one
\* for the recipient's Nostr key; a row with neither is left as it is.
SettleZap(z) ==
  LET r == zrow[z]
      s == ShareFor(r) IN
  /\ Settling(z) /\ z \in zapPaid
  /\ Next_(z)
  /\ IF r.state = "unsettled" /\ (s # NoShare \/ r.recipient # NoKey)
       THEN /\ zrow' = [zrow EXCEPT ![z].state = "settled"]
            /\ IF s # NoShare
                 THEN CreditShare(r.name, s, z) /\ UNCHANGED bearer
                 ELSE CreditBearer(z) /\ UNCHANGED <<zapName, minted>>
       ELSE UNCHANGED <<zrow, zapName, minted, quote, bearer>>
  /\ UNCHANGED <<cast, accepted, hold, clock, feePaid, feeNote, calls, pass, zclock, zapPaid, quote,
                 gift, transfers, zcalls, wraps, aged, crashes>>

\* Unpaid, or no answer.
SettleSkips(z) ==
  /\ Settling(z)
  /\ Next_(z)
  /\ UNCHANGED <<addrVars, zrow, zclock, zapPaid, minted, quote, bearer, gift, transfers, zcalls,
                 wraps, aged, crashes>>

HoldsStart ==
  /\ tick.stage = "settle" /\ tick.todo = {}
  /\ PassStart
  /\ tick' = [tick EXCEPT !.stage = "holds"]
  /\ UNCHANGED <<zrow, zclock, zapPaid, minted, quote, bearer, gift, transfers, zcalls,
                 wraps, aged, crashes>>

HoldsStep == PassStep /\ UNCHANGED zapVars

HoldsEnd ==
  /\ PassEnd
  /\ tick' = [stage |-> "publish", todo |-> UnpublishedZaps, at |-> NoZap]
  /\ UNCHANGED <<zrow, zclock, zapPaid, minted, quote, bearer, gift, transfers, zcalls,
                 wraps, aged, crashes>>

Publishing(z) == tick.stage = "publish" /\ tick.at = NoZap /\ z \in tick.todo
HasWrap(z) == zrow[z].recipient # NoKey
MarkPublished(z) == zrow' = [zrow EXCEPT ![z].state = "published"]

PublishNothing(z) ==
  /\ Publishing(z) /\ ~HasWrap(z)
  /\ MarkPublished(z)
  /\ Next_(z)
  /\ UNCHANGED <<addrVars, zclock, zapPaid, minted, quote, bearer, gift, transfers, zcalls,
                 wraps, aged, crashes>>

\* Every inbox relay took it; or, after INBOX_RETRY_MS, any relay did.
GoodEnough(z, got) == got = "inbox" \/ (got = "others" /\ z \in aged)

\* The relays answer: none took the wrap, some but not all of the inbox, or
\* enough.  Good enough goes on to the receipt; else it stays parked.
PublishWrap(z, got) ==
  /\ Publishing(z) /\ HasWrap(z)
  /\ wraps' = [wraps EXCEPT ![z] = IF got = "none" \/ @ = "inbox" THEN @ ELSE got]
  /\ tick' = IF GoodEnough(z, got) THEN [tick EXCEPT !.at = z]
                                   ELSE [tick EXCEPT !.todo = @ \ {z}]
  /\ UNCHANGED <<addrVars, zrow, zclock, zapPaid, minted, quote, bearer, gift, transfers, zcalls,
                 aged, crashes>>

\* The receipt was sent, to whichever relays took it.
ReceiptSent(z) ==
  /\ tick.stage = "publish" /\ tick.at = z
  /\ MarkPublished(z)
  /\ Next_(z)
  /\ UNCHANGED <<addrVars, zclock, zapPaid, minted, quote, bearer, gift, transfers, zcalls,
                 wraps, aged, crashes>>

TickEnd ==
  /\ tick.stage = "publish" /\ tick.todo = {}
  /\ tick' = IdleTick
  /\ UNCHANGED <<addrVars, zrow, zclock, zapPaid, minted, quote, bearer, gift, transfers, zcalls,
                 wraps, aged, crashes>>

Ages(z) ==
  /\ zrow[z].state = "settled" /\ z \notin aged
  /\ aged' = aged \union {z}
  /\ UNCHANGED <<addrVars, zrow, zclock, zapPaid, minted, quote, bearer, gift, transfers, zcalls, tick,
                 wraps, crashes>>

-----------------------------------------------------------------------------
(* The sweep, which housekeeping runs beside the pass.                     *)

\* Mutation: any unsettled row is stale.
StaleAtOnce(z) == zrow[z].state = "unsettled"

\* An hour past expiry: the invoice can no longer be paid, so an answer about
\* it holds for good, and the question and the delete are one step.
StaleZap(z) == zrow[z].state = "unsettled" /\ zclock[z] = "stale"

\* Confirmed unpaid, the row goes; paid, or without an answer, it stays.
ZapSweepDeletes(z) ==
  /\ StaleZap(z) /\ z \notin zapPaid
  /\ zrow' = [zrow EXCEPT ![z] = NoZapRow]
  /\ UNCHANGED <<addrVars, zclock, zapPaid, minted, quote, bearer, gift, transfers, zcalls, tick,
                 wraps, aged, crashes>>

Crash ==
  /\ crashes < MaxCrashes
  /\ crashes' = crashes + 1
  /\ AddrCrash
  /\ zcalls' = {} /\ tick' = IdleTick
  /\ UNCHANGED <<zrow, zclock, zapPaid, minted, quote, bearer, gift, transfers, wraps, aged>>

-----------------------------------------------------------------------------

RegistryStep == (NameStep \/ CallStep \/ FeeStep) /\ UNCHANGED zapVars

PayerStep ==
  \/ \E n \in cast.names :
       (cast.zaps # {} /\ AskInvoice(n)) \/ \E g \in cast.gifts : AskTransfer(n, g)
  \/ \E c \in zcalls : \/ Transfer(c) \/ ZapCallFails(c)
                       \/ \E z \in cast.zaps : RecordZapInvoice(c, z)
  \/ \E z \in cast.zaps : PayZap(z) \/ ZapExpires(z) \/ Ages(z)
  \/ \E key \in cast.own : WalletStep(key)

SettleStep == \E z \in cast.zaps : SettleZap(z) \/ SettleSkips(z)

PublishStep ==
  \E z \in cast.zaps :
    \/ PublishNothing(z) \/ ReceiptSent(z)
    \/ \E got \in {"none", "others", "inbox"} : PublishWrap(z, got)

TickStep == TickStart \/ SettleStep \/ HoldsStart \/ HoldsStep \/ HoldsEnd \/ PublishStep \/ TickEnd

SweepStep == \E z \in cast.zaps : ZapSweepDeletes(z)

Next == RegistryStep \/ PayerStep \/ TickStep \/ SweepStep \/ Crash

Spec == Init /\ [][Next]_vars

\* zapTick runs every five seconds for as long as the process does; a node
\* that is asked for ever says yes to one of the paid in the end, and relays
\* take one of the wraps.  Each is settled or published once, so all are.
Fairness ==
  /\ WF_vars(TickStep)
  /\ SF_vars(\E z \in ZapHashes : SettleZap(z))
  /\ SF_vars(\E z \in ZapHashes : PublishWrap(z, "inbox"))
  /\ SF_vars(\E h \in Holds : PassFindsPaid(h) /\ UNCHANGED zapVars)

FairSpec == Spec /\ Fairness

-----------------------------------------------------------------------------

\* Every zap variable has its shape, and the address variables theirs.
TypeOK ==
  /\ AddrTypeOK
  /\ zrow \in [ZapHashes -> [state : {"none", "unsettled", "settled", "published"}, name : Names,
                             recipient : Keys \union {NoKey}, cx1 : Shares \union {NoShare}]]
  /\ zclock \in [ZapHashes -> {"unissued", "payable", "stale"}]
  /\ zapPaid \subseteq ZapHashes
  /\ minted \in [KeyNotes -> SUBSET (ZapHashes \union Gifts \union {Wallet})]
  /\ quote \in [KeyNotes -> {"none", "open", "lapsed"}]
  /\ bearer \in [ZapHashes -> Nat]
  /\ gift \in [Gifts -> {"outstanding", "burned"}]
  /\ transfers \subseteq Gifts \X Names
  /\ zcalls \subseteq [op : {"invoice", "transfer"}, name : Names, recipient : Keys \union {NoKey},
                       cx1 : Shares \union {NoShare}, gift : Gifts \union {Wallet}]
  /\ tick \in [stage : {"idle", "settle", "holds", "publish"}, todo : SUBSET ZapHashes,
               at : ZapHashes \union {NoZap}]
  /\ wraps \in [ZapHashes -> {"none", "others", "inbox"}]
  /\ aged \subseteq ZapHashes
  /\ crashes \in 0..MaxCrashes

KeysOf(x) == {key \in KeyNotes : x \in minted[key]}

\* A settled zap is behind exactly one note and an unsettled one behind
\* none; a burned gift is behind exactly one, and an unburned behind none; and
\* no two of them land on one key, whatever shares the name has had and
\* whatever else put notes there (settleZapInvoiceToKey, transferToShare).
CreditedOnce ==
  /\ \A z \in ZapHashes : Cardinality(KeysOf(z)) + bearer[z]
                            = IF zrow[z].state \in {"settled", "published"} THEN 1 ELSE 0
  /\ \A g \in Gifts : Cardinality(KeysOf(g)) = IF gift[g] = "burned" THEN 1 ELSE 0
  /\ \A key \in KeyNotes : Cardinality(minted[key]) <= 1

\* A payment is minted to the share its invoice was made for, whoever holds
\* the name by then (zap.ts settle).
PaidToTheShareInvoiced ==
  \A z \in ZapHashes : zrow[z].cx1 # NoShare => \A key \in KeysOf(z) : key[1] = zrow[z].cx1

\* The holder's scan meets no gap but one: below a name's counter every key
\* names a note, or a mint invoice still holds it or held it when the counter
\* went past and then lapsed (settleZapInvoiceToKey, transferToShare).
NoGapInTheScan ==
  \A n \in Names : Registered(n) /\ zapName[n].cx1 # NoShare
    => \A i \in 0..(zapName[n].next - 1) :
         LET key == <<zapName[n].cx1, i>> IN KeyInUse(key) \/ quote[key] = "lapsed"

\* A paid zap is minted in the end, and its wrap is on its inbox relays or,
\* after ten minutes of trying, on some relay, crashes between publishing and
\* marking included (zap.ts settle, publish and sweep).
Delivered(z) ==
  /\ zrow[z].state = "published"
  /\ HasWrap(z) => wraps[z] = "inbox" \/ (wraps[z] = "others" /\ z \in aged)

EveryZapArrives == \A z \in ZapHashes : z \in zapPaid ~> Delivered(z)

\* A fee that was paid is settled in the end, unless the node was asked about
\* it for a day and more without an answer (zap.ts settleHolds).
EveryFeeSettles ==
  \A h \in Holds : h \in feePaid ~> hold[h].state = "settled" \/ clock[h] = "dayOld"

\* What PaymentPromise sees of the bridge.  A zap with no share of its own may
\* be credited at the share its name has by then, or in the mint's custody.
Stage(p) ==
  IF p \in Gifts THEN IF gift[p] = "burned" THEN "credited" ELSE "none"
  ELSE IF zrow[p].state \in {"settled", "published"} THEN "credited"
  ELSE IF p \in zapPaid THEN "paid"
  ELSE IF zrow[p].state = "unsettled" THEN "offered" ELSE "none"

SharePlaces == {"share"} \X KeyNotes
Custody(z) == <<"custody", z>>
Places == SharePlaces \union {Custody(z) : z \in ZapHashes}

Destinations(z) ==
  IF zrow[z].cx1 # NoShare THEN {k \in SharePlaces : k[2][1] = zrow[z].cx1}
                           ELSE SharePlaces \union {Custody(z)}

Stages == [p \in ZapHashes \union Gifts |-> Stage(p)]
Promised == [p \in ZapHashes \union Gifts |->
               IF Stage(p) \in {"offered", "paid"} THEN Destinations(p) ELSE {}]
PutAt == [k \in Places |-> IF k \in SharePlaces THEN minted[k[2]]
                           ELSE IF bearer[k[2]] = 0 THEN {} ELSE {k[2]}]

Promise == INSTANCE PaymentPromise WITH
  Payments <- ZapHashes \union Gifts, Other <- Wallet,
  stage <- Stages, dest <- Promised, at <- PutAt

\* Callbacks, passes, transfers, sweeps, crashes and all that the registry
\* does meanwhile amount to no more than PaymentPromise: a zap is credited
\* once, at the share it was invoiced for, and a free key is always found.
KeepsTheZapPromise == Promise!Spec

\* "a name freed and taken by someone else since must not take a payment
\* made to the old holder" (zap.ts settle): a note lands on the share that
\* was invoiced for, or on one of a name still owned by the same Nostr key.
NoPaymentToANewHolder ==
  [][\A z \in ZapHashes, key \in KeyNotes :
       (z \in minted'[key] /\ z \notin minted[key])
         => key[1] = zrow[z].cx1 \/ zapName[zrow[z].name].pubkey = zrow[z].recipient]_vars
=============================================================================
