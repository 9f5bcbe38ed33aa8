------------------------------ MODULE ZapProofs ------------------------------
(***************************************************************************)
(* What holds of the zap bridge for any casts: that what a payer paid is   *)
(* credited once, to the share it was meant for, and that the registry     *)
(* keeps what AddressProofs proves of it while the bridge counts its keys. *)
(***************************************************************************)
EXTENDS Zaps, AddressProofs, FiniteSetTheorems

-----------------------------------------------------------------------------
(* The inductive invariant.                                                *)

ZapRows == [state : {"none", "unsettled", "settled", "published"}, name : Names,
            recipient : Keys \union {NoKey}, cx1 : AnyShare]
ZapCalls == [op : {"invoice", "transfer"}, name : Names, recipient : Keys \union {NoKey},
             cx1 : AnyShare, gift : Gifts \union {Wallet}]
Ticks == [stage : {"idle", "settle", "holds", "publish"}, todo : SUBSET ZapHashes,
          at : ZapHashes \union {NoZap}]
Sources == ZapHashes \union Gifts \union {Wallet}

\* The bridge's part of the type invariant, with the rows' types named.
ZapTypes ==
  /\ zrow \in [ZapHashes -> ZapRows]
  /\ zclock \in [ZapHashes -> {"unissued", "payable", "stale"}]
  /\ zapPaid \subseteq ZapHashes
  /\ minted \in [KeyNotes -> SUBSET Sources]
  /\ quote \in [KeyNotes -> {"none", "open", "lapsed"}]
  /\ bearer \in [ZapHashes -> Nat]
  /\ gift \in [Gifts -> {"outstanding", "burned"}]
  /\ transfers \subseteq Gifts \X Names
  /\ zcalls \subseteq ZapCalls
  /\ tick \in Ticks
  /\ wraps \in [ZapHashes -> {"none", "others", "inbox"}]
  /\ aged \subseteq ZapHashes
  /\ crashes \in 0..MaxCrashes

Minted(z) == zrow[z].state \in {"settled", "published"}

\* What is behind a note at a share's key is one thing, of this cast, and
\* behind no other key's note; a wallet's own notes are at its own keys.
KeysAreHeld ==
  /\ \A key \in KeyNotes :
       /\ minted[key] \subseteq cast.zaps \union cast.gifts \union {Wallet}
       /\ Wallet \in minted[key] => key \in cast.own
       /\ \A x, y \in minted[key] : x = y
  /\ \A key, other \in KeyNotes : \A x \in minted[key] :
       x \in minted[other] /\ x # Wallet => other = key

\* A mint invoice is bound to a key wallets use, and only while it is empty.
QuotesAreHeld ==
  \A key \in KeyNotes : /\ quote[key] # "none" => key \in cast.own
                        /\ quote[key] = "open" => minted[key] = {}

\* A zap that was minted has a note at a key, or else a custodial one; a gift
\* that was burned has a note at a key.
PaymentsAreHeld ==
  /\ \A z \in ZapHashes : /\ KeysOf(z) # {} => Minted(z)
                          /\ bearer[z] = IF Minted(z) /\ KeysOf(z) = {} THEN 1 ELSE 0
  /\ \A g \in Gifts : gift[g] = "burned" <=> KeysOf(g) # {}

\* A hash no invoice was issued for has no row.
RowsAreIssued == \A z \in ZapHashes : zclock[z] = "unissued" => zrow[z].state = "none"

\* What is to be published was minted, and what is published is to be.
PublishesTheMinted ==
  tick.stage = "publish" => /\ \A z \in tick.todo : Minted(z)
                            /\ tick.at # NoZap => tick.at \in tick.todo

TransfersAreGifts == \A c \in zcalls : c.op = "transfer" => c.gift \in cast.gifts

\* A key that names a note, or that a mint invoice holds, or held when a
\* counter went past it.
KeyMet(key) == KeyInUse(key) \/ quote[key] = "lapsed"

\* Below a name's counter, every key of its share is one of these.
Counted ==
  \A n \in Names : zapName[n].cx1 # NoShare =>
    /\ zapName[n].next <= MaxIndex + 1
    /\ \A i \in Nat : i < zapName[n].next => KeyMet(<<zapName[n].cx1, i>>)

Credit == KeysAreHeld /\ QuotesAreHeld /\ PaymentsAreHeld /\ PaidToTheShareInvoiced /\ RowsAreIssued
            /\ PublishesTheMinted /\ TransfersAreGifts

ZapInv == AddrTypes /\ ZapTypes /\ Credit /\ Counted

-----------------------------------------------------------------------------
(* The next key of a share.                                                *)

LEMMA KeyPairs ==
  /\ \A s \in Shares, i \in 0..MaxIndex : <<s, i>> \in KeyNotes
  /\ \A key \in KeyNotes : key = <<key[1], key[2]>> /\ key[1] \in Shares /\ key[2] \in 0..MaxIndex
  BY DEF KeyNotes

LEMMA UnionBound ==
  ASSUME NEW S, NEW T, IsFiniteSet(S), IsFiniteSet(T)
  PROVE  /\ IsFiniteSet(S \union T)
         /\ Cardinality(S \union T) <= Cardinality(S) + Cardinality(T)
  <1>1. IsFiniteSet(S \intersect T)
    BY FS_Intersection
  <1>2. Cardinality(S) \in Nat /\ Cardinality(T) \in Nat /\ Cardinality(S \intersect T) \in Nat
    BY <1>1, FS_CardinalityType
  <1>3. /\ IsFiniteSet(S \union T)
        /\ Cardinality(S \union T) = Cardinality(S) + Cardinality(T) - Cardinality(S \intersect T)
    BY FS_Union
  <1> QED
    BY <1>2, <1>3

\* While a payment or a gift is not credited, no share has met all its
\* keys: what is or was wanted at them is fewer than there are.
LEMMA KeysRunOut ==
  ASSUME AddrTypes, ZapTypes, KeysAreHeld, QuotesAreHeld,
         NEW s \in Shares, NEW x \in cast.zaps \union cast.gifts, KeysOf(x) = {}
  PROVE  \E i \in 0..MaxIndex : ~KeyMet(<<s, i>>)
  <1> SUFFICES ASSUME \A i \in 0..MaxIndex : KeyMet(<<s, i>>) PROVE FALSE
    OBVIOUS
  <1> DEFINE Own == {i \in 0..MaxIndex : Wallet \in minted[<<s, i>>] \/ quote[<<s, i>>] # "none"}
             Rest == (0..MaxIndex) \ Own
             Others == (cast.zaps \union cast.gifts) \ {x}
             source == [i \in Rest |-> CHOOSE y : y \in minted[<<s, i>>]]
             own == [i \in Own |-> <<s, i>>]
  <1>1. /\ MaxIndex \in Nat /\ IsFiniteSet(cast.own)
        /\ IsFiniteSet(cast.zaps) /\ IsFiniteSet(cast.gifts)
        /\ Cardinality(cast.zaps) + Cardinality(cast.gifts) + Cardinality(cast.own) <= MaxIndex + 1
    BY ZapAssumption DEF AddrTypes
  <1>2. own \in Injection(Own, cast.own)
    <2>1. \A i \in Own : <<s, i>> \in cast.own
      BY KeyPairs DEF KeysAreHeld, QuotesAreHeld
    <2> QED
      BY <2>1 DEF Injection, IsInjective
  <1>3. source \in Injection(Rest, Others)
    <2>1. \A i \in Rest : source[i] \in minted[<<s, i>>] /\ source[i] # Wallet
      BY DEF KeyMet, KeyInUse
    <2>2. \A i \in Rest : <<s, i>> \in KeyNotes
      BY KeyPairs
    <2>3. \A i \in Rest : source[i] \in Others
      BY <2>1, <2>2 DEF KeysAreHeld, KeysOf
    <2>4. ASSUME NEW i \in Rest, NEW j \in Rest, source[i] = source[j] PROVE i = j
      <3>1. <<s, i>> = <<s, j>>
        BY <2>1, <2>2, <2>4 DEF KeysAreHeld
      <3> QED
        BY <3>1
    <2> QED
      BY <2>3, <2>4 DEF Injection, IsInjective
  <1>4. Own \union Rest = 0..MaxIndex /\ Own \intersect Rest = {}
    OBVIOUS
  <1> HIDE DEF Own, Rest, own, source
  <1>5. IsFiniteSet(Own) /\ Cardinality(Own) <= Cardinality(cast.own)
    BY <1>1, <1>2, FS_Injection
  <1>6. /\ IsFiniteSet(cast.zaps \union cast.gifts)
        /\ Cardinality(cast.zaps \union cast.gifts) <= Cardinality(cast.zaps) + Cardinality(cast.gifts)
    BY <1>1, UnionBound
  <1>7. IsFiniteSet(Others) /\ Cardinality(Others) = Cardinality(cast.zaps \union cast.gifts) - 1
    BY <1>6, FS_RemoveElement
  <1> HIDE DEF Others
  <1>8. IsFiniteSet(Rest) /\ Cardinality(Rest) <= Cardinality(Others)
    BY <1>3, <1>7, FS_Injection
  <1>9. Cardinality(Own \union Rest) = MaxIndex + 1
    <2>1. Cardinality(0..MaxIndex) = MaxIndex + 1
      BY <1>1, FS_Interval
    <2> QED
      BY <1>4, <2>1
  <1>10. Cardinality(Own \union Rest) <= Cardinality(Own) + Cardinality(Rest)
    BY <1>5, <1>8, UnionBound
  <1>11. /\ Cardinality(Own) \in Nat /\ Cardinality(Rest) \in Nat /\ Cardinality(Others) \in Nat
         /\ Cardinality(cast.zaps) \in Nat /\ Cardinality(cast.gifts) \in Nat
         /\ Cardinality(cast.own) \in Nat /\ Cardinality(cast.zaps \union cast.gifts) \in Nat
    BY <1>1, <1>5, <1>6, <1>7, <1>8, FS_CardinalityType
  <1> QED
    BY <1>1, <1>5, <1>6, <1>7, <1>8, <1>9, <1>10, <1>11

LEMMA LeastOf ==
  ASSUME NEW S \in SUBSET Nat, S # {}
  PROVE  Min(S) \in S /\ \A i \in S : Min(S) <= i
  <1>1. PICK m \in S : \A k \in S : ~(<<k, m>> \in OpToRel(<, Nat))
    BY NatLessThanWellFounded, WFMin
  <1>2. ASSUME NEW k \in S PROVE m <= k
    <2>1. k < m => <<k, m>> \in OpToRel(<, Nat)
      BY DEF OpToRel
    <2>2. ~(k < m)
      BY <1>1, <2>1, Zenon
    <2> QED
      BY <2>2
  <1> QED
    BY <1>2 DEF Min

\* A name's counter starts no later than the first key not met, so what
\* a credit finds is free, and every key from the start up to it is not.
LEMMA NextKeyIsFree ==
  ASSUME AddrTypes, ZapTypes, KeysAreHeld, QuotesAreHeld, Counted, NEW n \in Names,
         NEW s \in Shares, NEW x \in cast.zaps \union cast.gifts, KeysOf(x) = {}
  PROVE  LET from == StartOf(n, s)
             i == NextKey(s, from) IN
         /\ from \in Nat /\ i \in 0..MaxIndex /\ from <= i
         /\ ~KeyInUse(<<s, i>>)
         /\ \A j \in Nat : from <= j /\ j < i => KeyInUse(<<s, j>>)
  <1> DEFINE from == StartOf(n, s)
             Free == {i \in from..MaxIndex : ~KeyInUse(<<s, i>>)}
  <1>1. MaxIndex \in Nat
    BY ZapAssumption
  <1>2. from \in Nat
    BY DEF StartOf, AddrTypes, NameRows
  <1>3. \A j \in Nat : j < from => KeyMet(<<s, j>>)
    <2>1. CASE zapName[n].cx1 = s
      BY <2>1, AddressAssumption DEF StartOf, Counted
    <2>2. CASE zapName[n].cx1 # s
      BY <2>2 DEF StartOf
    <2> QED
      BY <2>1, <2>2
  <1>4. PICK i \in 0..MaxIndex : ~KeyMet(<<s, i>>)
    BY KeysRunOut
  <1> HIDE DEF from
  <1>5. i \in Free
    BY <1>1, <1>2, <1>3, <1>4 DEF KeyMet
  <1>6. Free \in SUBSET Nat /\ Free # {}
    BY <1>1, <1>2, <1>5
  <1>7. NextKey(s, from) = Min(Free)
    BY DEF NextKey
  <1> HIDE DEF Free
  <1>8. Min(Free) \in Free /\ \A j \in Free : Min(Free) <= j
    BY <1>6, LeastOf
  <1> USE DEF Free
  <1>m. PICK m : m = Min(Free)
    OBVIOUS
  <1>9. ASSUME NEW j \in Nat, from <= j, j < m PROVE KeyInUse(<<s, j>>)
    <2>1. m \in 0..MaxIndex /\ j \notin Free
      BY <1>1, <1>2, <1>8, <1>m, <1>9
    <2>2. j \in from..MaxIndex
      BY <1>1, <1>2, <1>9, <2>1
    <2> QED
      BY <2>1, <2>2
  <1>10. /\ from \in Nat /\ Min(Free) \in 0..MaxIndex /\ from <= Min(Free)
         /\ ~KeyInUse(<<s, Min(Free)>>)
    BY <1>1, <1>2, <1>8
  <1> QED
    BY <1>7, <1>9, <1>10, <1>m DEF from

-----------------------------------------------------------------------------
(* What a step of the bridge is, to the registry and to itself.            *)

\* Every step is one of these.
LEMMA BridgeSteps ==
  ASSUME [Next]_vars
  PROVE  \/ [AddrNext]_addrVars /\ UNCHANGED zapVars
         \/ \E n \in cast.names : AskInvoice(n)
         \/ \E n \in cast.names : \E g \in cast.gifts : AskTransfer(n, g)
         \/ \E c \in zcalls : Transfer(c)
         \/ \E c \in zcalls : ZapCallFails(c)
         \/ \E c \in zcalls : \E z \in cast.zaps : RecordZapInvoice(c, z)
         \/ \E z \in cast.zaps : PayZap(z)
         \/ \E z \in cast.zaps : ZapExpires(z)
         \/ \E z \in cast.zaps : Ages(z)
         \/ \E key \in cast.own : WalletStep(key)
         \/ TickStart
         \/ \E z \in cast.zaps : SettleZap(z)
         \/ \E z \in cast.zaps : SettleSkips(z)
         \/ HoldsStart
         \/ HoldsEnd
         \/ \E z \in cast.zaps : PublishNothing(z)
         \/ \E z \in cast.zaps : ReceiptSent(z)
         \/ \E z \in cast.zaps : \E got \in {"none", "others", "inbox"} : PublishWrap(z, got)
         \/ TickEnd
         \/ \E z \in cast.zaps : ZapSweepDeletes(z)
         \/ Crash
  <1>1. CASE RegistryStep
    BY <1>1 DEF RegistryStep, AddrNext
  <1>2. CASE HoldsStep
    BY <1>2 DEF HoldsStep, AddrNext
  <1>3. CASE UNCHANGED vars
    BY <1>3 DEF vars
  <1>4. CASE PayerStep
    BY <1>4 DEF PayerStep
  <1>5. CASE PublishStep
    BY <1>5 DEF PublishStep
  <1>6. CASE SettleStep
    BY <1>6 DEF SettleStep
  <1>7. CASE SweepStep
    BY <1>7 DEF SweepStep
  <1> QED
    BY <1>1, <1>2, <1>3, <1>4, <1>5, <1>6, <1>7 DEF Next, TickStep

\* A wallet puts a note at an empty key of its own.
WalletPuts(key) ==
  minted[key] = {} /\ minted' = [minted EXCEPT ![key] = {Wallet}]

\* Of what the bridge keeps, a wallet's quotes and swaps touch its key alone.
LEMMA WalletSteps ==
  ASSUME ZapInv, NEW key \in cast.own, WalletStep(key)
  PROVE  /\ key \in KeyNotes
         /\ UNCHANGED <<addrVars, zrow, zclock, zapPaid, bearer, gift, transfers, zcalls, tick, wraps,
                        aged, crashes>>
         /\ UNCHANGED minted \/ WalletPuts(key)
  <1>1. key \in KeyNotes
    BY ZapAssumption DEF ZapInv, AddrTypes, KeyNotes
  <1>2. CASE QuoteSettles(key)
    <2>1. minted[key] = {}
      BY <1>1, <1>2 DEF QuoteSettles, ZapInv, Credit, QuotesAreHeld
    <2>2. minted' = [minted EXCEPT ![key] = {Wallet}]
      BY <1>2, <2>1 DEF QuoteSettles
    <2> QED
      BY <1>1, <1>2, <2>1, <2>2 DEF QuoteSettles, WalletPuts
  <1> QED
    BY <1>1, <1>2 DEF WalletStep, WalletUses, QuoteNames, QuoteLapses, KeyInUse, WalletPuts

\* What a step of theirs does to the quote at its key.
LEMMA QuoteSteps ==
  ASSUME ZapInv, NEW own \in cast.own, WalletStep(own)
  PROVE  /\ \A key \in KeyNotes \ {own} : quote'[key] = quote[key] /\ minted'[key] = minted[key]
         /\ quote'[own] \in {"none", "open", "lapsed"} /\ quote' \in [KeyNotes -> {"none", "open", "lapsed"}]
         /\ quote'[own] = "open" => minted'[own] = {}
         /\ PassedBy(own) \/ UNCHANGED quote => (KeyMet(own) => KeyMet(own)')
  <1>1. own \in KeyNotes
    BY WalletSteps
  <1> USE <1>1 DEF ZapInv, ZapTypes, KeyMet, KeyInUse
  <1>2. CASE WalletUses(own)
    BY <1>2 DEF WalletUses
  <1>3. CASE QuoteNames(own)
    BY <1>3 DEF QuoteNames
  <1>4. CASE QuoteSettles(own)
    BY <1>4 DEF QuoteSettles
  <1>5. CASE QuoteLapses(own)
    BY <1>5 DEF QuoteLapses
  <1> QED
    BY <1>2, <1>3, <1>4, <1>5 DEF WalletStep

\* A credit puts one thing at a free key of the share, past the keys in use,
\* and the name counts it if it still has that share.
Credited(n, s, x, i) ==
  /\ s \in Shares /\ i \in 0..MaxIndex /\ ~KeyInUse(<<s, i>>) /\ minted[<<s, i>>] = {}
  /\ UNCHANGED quote
  /\ minted' = [minted EXCEPT ![<<s, i>>] = {x}]
  /\ Bump(n, s, i)
  /\ \A j \in Nat : StartOf(n, s) <= j /\ j < i => KeyInUse(<<s, j>>)

LEMMA Credits ==
  ASSUME ZapInv, NEW n \in Names, NEW s \in Shares, NEW x \in cast.zaps \union cast.gifts,
         KeysOf(x) = {}, CreditShare(n, s, x), UNCHANGED quote
  PROVE  \E i \in 0..MaxIndex : Credited(n, s, x, i)
  <1>1. PICK i : i = NextKey(s, StartOf(n, s))
    OBVIOUS
  <1>2. /\ i \in 0..MaxIndex /\ ~KeyInUse(<<s, i>>) /\ minted[<<s, i>>] = {}
        /\ \A j \in Nat : StartOf(n, s) <= j /\ j < i => KeyInUse(<<s, j>>)
    BY <1>1, NextKeyIsFree DEF ZapInv, Credit, KeyInUse
  <1>3. minted' = [minted EXCEPT ![<<s, i>>] = @ \union {x}] /\ Bump(n, s, i)
    BY <1>1 DEF CreditShare
  <1>4. <<s, i>> \in KeyNotes
    BY <1>2, KeyPairs
  <1>5. minted' = [minted EXCEPT ![<<s, i>>] = {x}]
    BY <1>2, <1>3, <1>4 DEF ZapInv, ZapTypes
  <1> QED
    BY <1>2, <1>3, <1>5 DEF Credited

LEMMA CreditBumps ==
  ASSUME NEW n, NEW s, NEW x, NEW i, Credited(n, s, x, i)
  PROVE  zapName' = zapName \/ zapName' = [zapName EXCEPT ![n].next = i + 1]
  BY DEF Credited, Bump

\* What a transfer does.
TransferDone(c) ==
  /\ c.name \in Names /\ c.gift \in Gifts \intersect cast.gifts /\ KeysOf(c.gift) = {}
  /\ \E s \in Shares : \E i \in 0..MaxIndex : Credited(c.name, s, c.gift, i)
  /\ gift' = [gift EXCEPT ![c.gift] = "burned"]
  /\ transfers' = transfers \union {<<c.gift, c.name>>}

LEMMA Transfers ==
  ASSUME ZapInv, NEW c \in zcalls, Transfer(c)
  PROVE  UNCHANGED <<gift, zapName, minted, transfers>> \/ TransferDone(c)
  <1> SUFFICES ASSUME <<c.gift, c.name>> \notin transfers, CanTransfer(c)
               PROVE  TransferDone(c)
    BY DEF Transfer
  <1>1. c.name \in Names /\ c.gift \in cast.gifts
    BY DEF ZapInv, ZapTypes, ZapCalls, Credit, Transfer, TransfersAreGifts
  <1>2. zapName[c.name].cx1 \in Shares
    BY <1>1 DEF CanTransfer, ZapInv, AddrTypes, NameRows, AnyShare
  <1>3. c.gift \in Gifts
    BY <1>1, ZapAssumption DEF ZapInv, AddrTypes
  <1>4. KeysOf(c.gift) = {}
    BY <1>3 DEF CanTransfer, ZapInv, Credit, PaymentsAreHeld
  <1>5. /\ CreditShare(c.name, zapName[c.name].cx1, c.gift)
        /\ gift' = [gift EXCEPT ![c.gift] = "burned"]
        /\ transfers' = transfers \union {<<c.gift, c.name>>}
        /\ UNCHANGED quote
    BY DEF Transfer
  <1> QED
    BY <1>1, <1>2, <1>3, <1>4, <1>5, Credits DEF TransferDone

\* What a settled zap does: a note at a share's key, or else one of the
\* mint's own drawing.
SettleDone(z) ==
  /\ z \in ZapHashes /\ zrow[z].state = "unsettled" /\ KeysOf(z) = {}
  /\ zrow[z].name \in Names
  /\ zrow' = [zrow EXCEPT ![z].state = "settled"]
  /\ \/ /\ \E s \in Shares : \E i \in 0..MaxIndex :
             /\ Credited(zrow[z].name, s, z, i)
             /\ zrow[z].cx1 # NoShare => s = zrow[z].cx1
        /\ UNCHANGED bearer
     \/ zrow[z].cx1 = NoShare /\ CreditBearer(z) /\ UNCHANGED <<zapName, minted>>

LEMMA Settles ==
  ASSUME ZapInv, NEW z \in cast.zaps, SettleZap(z)
  PROVE  UNCHANGED <<zrow, zapName, minted, bearer>> \/ SettleDone(z)
  <1>1. z \in ZapHashes
    BY ZapAssumption DEF ZapInv, AddrTypes
  <1>2. zrow[z] \in ZapRows
    BY <1>1 DEF ZapInv, ZapTypes
  <1>3. CASE ~(zrow[z].state = "unsettled" /\ (ShareFor(zrow[z]) # NoShare \/ zrow[z].recipient # NoKey))
    BY <1>3 DEF SettleZap
  <1>4. CASE zrow[z].state = "unsettled" /\ ShareFor(zrow[z]) # NoShare
    <2>1. zrow[z].name \in Names /\ ShareFor(zrow[z]) \in Shares
      BY <1>2, <1>4 DEF ShareFor, ZapRows, ZapInv, AddrTypes, NameRows, AnyShare
    <2>2. KeysOf(z) = {}
      BY <1>1, <1>4 DEF ZapInv, Credit, PaymentsAreHeld, Minted
    <2>3. /\ CreditShare(zrow[z].name, ShareFor(zrow[z]), z) /\ UNCHANGED <<bearer, quote>>
          /\ zrow' = [zrow EXCEPT ![z].state = "settled"]
      BY <1>4 DEF SettleZap
    <2>4. PICK i \in 0..MaxIndex : Credited(zrow[z].name, ShareFor(zrow[z]), z, i)
      BY <2>1, <2>2, <2>3, Credits
    <2>5. zrow[z].cx1 # NoShare => ShareFor(zrow[z]) = zrow[z].cx1
      BY DEF ShareFor
    <2> QED
      BY <1>1, <1>4, <2>1, <2>2, <2>3, <2>4, <2>5 DEF SettleDone
  <1>5. CASE zrow[z].state = "unsettled" /\ ShareFor(zrow[z]) = NoShare /\ zrow[z].recipient # NoKey
    <2>1. KeysOf(z) = {}
      BY <1>1, <1>5 DEF ZapInv, Credit, PaymentsAreHeld, Minted
    <2>2. zrow' = [zrow EXCEPT ![z].state = "settled"] /\ CreditBearer(z) /\ UNCHANGED <<zapName, minted>>
      BY <1>5 DEF SettleZap
    <2>3. zrow[z].cx1 = NoShare
      BY <1>5 DEF ShareFor
    <2> QED
      BY <1>1, <1>2, <1>5, <2>1, <2>2, <2>3 DEF SettleDone, ZapRows
  <1> QED
    BY <1>3, <1>4, <1>5

\* A count, as the registry sees it.
Counts(n, i) ==
  /\ zapName' = [zapName EXCEPT ![n].next = i + 1]
  /\ \E s, x : Credited(n, s, x, i)
  /\ UNCHANGED <<cast, accepted, hold, clock, feePaid, feeNote, calls, pass>>

\* To the registry, every step is one of its own, or a count.
LEMMA RegistrySees ==
  ASSUME ZapInv, [Next]_vars
  PROVE  \/ [AddrNext]_addrVars
         \/ \E n \in Names : \E i \in 0..MaxIndex : Counts(n, i)
  <1> DEFINE Counting(n, i) == /\ zapName' = [zapName EXCEPT ![n].next = i + 1]
                               /\ \E s, x : Credited(n, s, x, i)
  <1>1. ASSUME NEW c \in zcalls, Transfer(c)
        PROVE  UNCHANGED addrVars \/ \E n \in Names : \E i \in 0..MaxIndex : Counts(n, i)
    <2>1. zapName' = zapName \/ \E n \in Names : \E i \in 0..MaxIndex : Counting(n, i)
      BY <1>1, Transfers, CreditBumps DEF TransferDone
    <2> QED
      BY <1>1, <2>1 DEF Transfer, Counts, addrVars
  <1>2. ASSUME NEW z \in cast.zaps, SettleZap(z)
        PROVE  UNCHANGED addrVars \/ \E n \in Names : \E i \in 0..MaxIndex : Counts(n, i)
    <2>1. zapName' = zapName \/ \E n \in Names : \E i \in 0..MaxIndex : Counting(n, i)
      BY <1>2, Settles, CreditBumps DEF SettleDone
    <2> QED
      BY <1>2, <2>1 DEF SettleZap, Counts, addrVars
  <1>3. HoldsStart \/ HoldsEnd \/ Crash => AddrNext
    BY DEF HoldsStart, HoldsEnd, Crash, AddrNext
  <1>4. \/ \E n \in cast.names : AskInvoice(n)
        \/ \E n \in cast.names : \E g \in cast.gifts : AskTransfer(n, g)
        \/ \E c \in zcalls : ZapCallFails(c)
        \/ \E c \in zcalls : \E z \in cast.zaps : RecordZapInvoice(c, z)
        \/ \E z \in cast.zaps : PayZap(z) \/ ZapExpires(z) \/ Ages(z)
        \/ \E key \in cast.own : WalletStep(key)
        => UNCHANGED addrVars
    BY WalletSteps
    DEF AskInvoice, AskTransfer, ZapCallFails, RecordZapInvoice, PayZap, ZapExpires, Ages
  <1>5. \/ TickStart \/ TickEnd
        \/ \E z \in cast.zaps : \/ SettleSkips(z) \/ PublishNothing(z) \/ ReceiptSent(z) \/ ZapSweepDeletes(z)
                                \/ \E got \in {"none", "others", "inbox"} : PublishWrap(z, got)
        => UNCHANGED addrVars
    BY DEF TickStart, TickEnd, SettleSkips, PublishNothing, ReceiptSent, ZapSweepDeletes, PublishWrap
  <1> QED
    BY <1>1, <1>2, <1>3, <1>4, <1>5, BridgeSteps
-----------------------------------------------------------------------------
(* Types, and the cast.                                                    *)

LEMMA CastStays ==
  ASSUME ZapInv, [Next]_vars
  PROVE  cast' = cast
  <1>1. [AddrNext]_addrVars => cast' = cast
    BY Steps
    DEF ZapInv, AddrTypes, UnregisterAddress, OperatorRemoves, RegisterShareName, AskFee, MoveShare,
        PutOperatorZapName, OwnerSetsShare, ClaimFree, OfferNote, LookUpHeld, BuyZapName,
        LookUpFindsPaid, CallFails, HoldAddress, PayFee, Elapse, PayHoldWithNote, SpendFeeNote,
        PassStart, PassFindsPaid, PassFindsUnpaid, PassHearsNothing, PassEnd, AddrCrash,
        nameVars, addrVars
  <1> QED
    BY <1>1, RegistrySees DEF Counts

LEMMA AddrTypesStay ==
  ASSUME ZapInv, [Next]_vars
  PROVE  AddrTypes'
  <1>1. ASSUME NEW n \in Names, NEW i \in 0..MaxIndex, Counts(n, i) PROVE AddrTypes'
    <2>1. [zapName[n] EXCEPT !.next = i + 1] \in NameRows
      BY DEF ZapInv, AddrTypes, NameRows
    <2>2. zapName' = [zapName EXCEPT ![n] = [zapName[n] EXCEPT !.next = i + 1]]
      BY <1>1 DEF Counts
    <2>3. zapName' \in [Names -> NameRows]
      BY <2>1, <2>2 DEF ZapInv, AddrTypes
    <2> QED
      BY <1>1, <2>3 DEF Counts, ZapInv, AddrTypes
  <1> QED
    BY <1>1, RegistrySees, AddrTypeStep DEF ZapInv

LEMMA ZapRowWrites ==
  ASSUME zrow \in [ZapHashes -> ZapRows], NEW z \in ZapHashes
  PROVE  /\ \A state \in {"settled", "published"} :
              [zrow EXCEPT ![z].state = state] \in [ZapHashes -> ZapRows]
         /\ [zrow EXCEPT ![z] = NoZapRow] \in [ZapHashes -> ZapRows]
  <1>1. zrow[z] \in ZapRows
    OBVIOUS
  <1>2. \A state \in {"settled", "published"} : [zrow[z] EXCEPT !.state = state] \in ZapRows
    BY <1>1 DEF ZapRows
  <1>3. NoZapRow \in ZapRows
    BY AddressAssumption DEF NoZapRow, ZapRows, AnyShare
  <1> QED
    BY <1>2, <1>3

LEMMA TickWrites ==
  ASSUME tick \in Ticks, NEW z \in ZapHashes
  PROVE  /\ Next_(z) => tick' \in Ticks
         /\ [tick EXCEPT !.todo = @ \ {z}] \in Ticks
         /\ [tick EXCEPT !.at = z] \in Ticks
         /\ [tick EXCEPT !.stage = "holds"] \in Ticks
         /\ IdleTick \in Ticks
         /\ \A todo \in SUBSET ZapHashes :
              /\ [stage |-> "settle", todo |-> todo, at |-> NoZap] \in Ticks
              /\ [stage |-> "publish", todo |-> todo, at |-> NoZap] \in Ticks
  BY DEF Next_, IdleTick, Ticks

LEMMA CreditWrites ==
  ASSUME ZapTypes, NEW n \in Names, NEW s \in Shares, NEW i \in 0..MaxIndex,
         NEW x \in ZapHashes \union Gifts, Credited(n, s, x, i)
  PROVE  minted' \in [KeyNotes -> SUBSET Sources]
  BY KeyPairs DEF Credited, ZapTypes, Sources

LEMMA ZapTypesInit == Init => ZapTypes
  <1>1. NoZapRow \in ZapRows /\ IdleTick \in Ticks
    BY AddressAssumption DEF NoZapRow, ZapRows, AnyShare, IdleTick, Ticks
  <1> QED
    BY <1>1, ZapAssumption DEF Init, ZapTypes

LEMMA ZapTypesStay ==
  ASSUME ZapInv, [Next]_vars
  PROVE  ZapTypes'
  <1>t. ZapTypes /\ cast.zaps \subseteq ZapHashes /\ cast.gifts \subseteq Gifts /\ cast.names \subseteq Names
    BY ZapAssumption, CastSets DEF ZapInv, AddrTypes
  <1> USE <1>t DEF ZapTypes
  <1>1. CASE UNCHANGED zapVars
    BY <1>1 DEF zapVars
  <1>2. ASSUME NEW n \in cast.names, AskInvoice(n) PROVE ZapTypes'
    <2>1. [op |-> "invoice", name |-> n, recipient |-> zapName[n].pubkey,
           cx1 |-> zapName[n].cx1, gift |-> Wallet] \in ZapCalls
      BY DEF ZapCalls, ZapInv, AddrTypes, NameRows
    <2> QED
      BY <1>2, <2>1 DEF AskInvoice, ZapWaits
  <1>3. ASSUME NEW n \in cast.names, NEW g \in cast.gifts, AskTransfer(n, g) PROVE ZapTypes'
    <2>1. [op |-> "transfer", name |-> n, recipient |-> NoKey, cx1 |-> NoShare, gift |-> g] \in ZapCalls
      BY DEF ZapCalls, AnyShare
    <2> QED
      BY <1>3, <2>1 DEF AskTransfer, ZapWaits
  <1>4. ASSUME NEW c \in zcalls, Transfer(c) PROVE ZapTypes'
    <2>1. minted' \in [KeyNotes -> SUBSET Sources] /\ gift' \in [Gifts -> {"outstanding", "burned"}]
            /\ transfers' \subseteq Gifts \X Names
      BY <1>4, Transfers, CreditWrites DEF TransferDone
    <2> QED
      BY <1>4, <2>1 DEF Transfer, ZapDone
  <1>5. ASSUME NEW c \in zcalls, ZapCallFails(c) PROVE ZapTypes'
    BY <1>5 DEF ZapCallFails, ZapDone
  <1>6. ASSUME NEW c \in zcalls, NEW z \in cast.zaps, RecordZapInvoice(c, z) PROVE ZapTypes'
    <2>1. [state |-> "unsettled", name |-> c.name, recipient |-> c.recipient, cx1 |-> c.cx1] \in ZapRows
      BY DEF ZapCalls, ZapRows
    <2> QED
      BY <1>6, <2>1 DEF RecordZapInvoice, ZapDone
  <1>7. ASSUME NEW z \in cast.zaps, PayZap(z) PROVE ZapTypes'
    BY <1>7 DEF PayZap
  <1>8. ASSUME NEW z \in cast.zaps, ZapExpires(z) PROVE ZapTypes'
    BY <1>8 DEF ZapExpires
  <1>9. ASSUME NEW z \in cast.zaps, Ages(z) PROVE ZapTypes'
    BY <1>9 DEF Ages
  <1>10. ASSUME NEW key \in cast.own, WalletStep(key) PROVE ZapTypes'
    <2>1. minted' \in [KeyNotes -> SUBSET Sources]
      BY <1>10, WalletSteps DEF WalletPuts, Sources
    <2> QED
      BY <1>10, <2>1, WalletSteps, QuoteSteps
  <1>11. CASE TickStart
    BY <1>11, TickWrites DEF TickStart, UnsettledZaps, Ticks
  <1>12. ASSUME NEW z \in cast.zaps, SettleZap(z) PROVE ZapTypes'
    <2>1. /\ zrow' \in [ZapHashes -> ZapRows] /\ minted' \in [KeyNotes -> SUBSET Sources]
          /\ bearer' \in [ZapHashes -> Nat]
      <3>1. CASE UNCHANGED <<zrow, zapName, minted, bearer>>
        BY <3>1
      <3>2. CASE SettleDone(z)
        <4>1. zrow' \in [ZapHashes -> ZapRows]
          BY <3>2, ZapRowWrites DEF SettleDone
        <4>2. minted' \in [KeyNotes -> SUBSET Sources]
          BY <3>2, CreditWrites DEF SettleDone
        <4>3. bearer' \in [ZapHashes -> Nat]
          BY <3>2 DEF SettleDone, CreditBearer
        <4> QED
          BY <4>1, <4>2, <4>3
      <3> QED
        BY <1>12, <3>1, <3>2, Settles
    <2> QED
      BY <1>12, <2>1, TickWrites DEF SettleZap
  <1>13. ASSUME NEW z \in cast.zaps, SettleSkips(z) PROVE ZapTypes'
    BY <1>13, TickWrites DEF SettleSkips
  <1>14. CASE HoldsStart
    BY <1>14 DEF HoldsStart, Ticks
  <1>15. CASE HoldsEnd
    BY <1>15 DEF HoldsEnd, UnpublishedZaps, Ticks
  <1>16. ASSUME NEW z \in cast.zaps, PublishNothing(z) PROVE ZapTypes'
    BY <1>16, ZapRowWrites, TickWrites DEF PublishNothing, MarkPublished
  <1>17. ASSUME NEW z \in cast.zaps, ReceiptSent(z) PROVE ZapTypes'
    BY <1>17, ZapRowWrites, TickWrites DEF ReceiptSent, MarkPublished
  <1>18. ASSUME NEW z \in cast.zaps, NEW got \in {"none", "others", "inbox"}, PublishWrap(z, got)
         PROVE  ZapTypes'
    BY <1>18, TickWrites DEF PublishWrap
  <1>19. CASE TickEnd
    BY <1>19 DEF TickEnd, IdleTick, Ticks
  <1>20. ASSUME NEW z \in cast.zaps, ZapSweepDeletes(z) PROVE ZapTypes'
    BY <1>20, ZapRowWrites DEF ZapSweepDeletes
  <1>21. CASE Crash
    BY <1>21, ZapAssumption DEF Crash, IdleTick, Ticks
  <1> QED
    BY <1>1, <1>2, <1>3, <1>4, <1>5, <1>6, <1>7, <1>8, <1>9, <1>10, <1>11, <1>12, <1>13, <1>14,
         <1>15, <1>16, <1>17, <1>18, <1>19, <1>20, <1>21, BridgeSteps
-----------------------------------------------------------------------------
(* What is at the keys.                                                    *)

LEMMA CastZaps ==
  ASSUME ZapInv
  PROVE  cast.zaps \subseteq ZapHashes /\ cast.gifts \subseteq Gifts
           /\ Wallet \notin cast.zaps \union cast.gifts
  BY ZapAssumption DEF ZapInv, AddrTypes

LEMMA CreditedKeys ==
  ASSUME ZapTypes, NEW n, NEW s, NEW i, NEW x, Credited(n, s, x, i)
  PROVE  KeysOf(x)' = KeysOf(x) \union {<<s, i>>} /\ \A y : y # x => KeysOf(y)' = KeysOf(y)
  BY KeyPairs DEF Credited, KeysOf, ZapTypes

\* Only a transfer, a settle and a wallet change what is at keys.
LEMMA MintedBy ==
  ASSUME ZapInv, [Next]_vars
  PROVE  \/ UNCHANGED <<minted, quote>>
         \/ \E c \in zcalls : Transfer(c) /\ TransferDone(c)
         \/ \E z \in cast.zaps : SettleZap(z) /\ SettleDone(z)
         \/ \E key \in cast.own : WalletStep(key)
  <1>1. ASSUME [AddrNext]_addrVars /\ UNCHANGED zapVars PROVE UNCHANGED <<minted, quote>>
    BY <1>1 DEF zapVars
  <1>2. \/ \E n \in cast.names : AskInvoice(n)
        \/ \E n \in cast.names : \E g \in cast.gifts : AskTransfer(n, g)
        \/ \E c \in zcalls : ZapCallFails(c)
        \/ \E c \in zcalls : \E z \in cast.zaps : RecordZapInvoice(c, z)
        \/ \E z \in cast.zaps : PayZap(z) \/ ZapExpires(z) \/ Ages(z)
        => UNCHANGED <<minted, quote>>
    BY DEF AskInvoice, AskTransfer, ZapCallFails, RecordZapInvoice, PayZap, ZapExpires, Ages
  <1>3. \/ TickStart \/ TickEnd \/ HoldsStart \/ HoldsEnd \/ Crash
        \/ \E z \in cast.zaps : \/ SettleSkips(z) \/ PublishNothing(z) \/ ReceiptSent(z) \/ ZapSweepDeletes(z)
                                \/ \E got \in {"none", "others", "inbox"} : PublishWrap(z, got)
        => UNCHANGED <<minted, quote>>
    BY DEF TickStart, TickEnd, HoldsStart, HoldsEnd, Crash, SettleSkips, PublishNothing, ReceiptSent,
           ZapSweepDeletes, PublishWrap
  <1>4. ASSUME NEW c \in zcalls, Transfer(c) PROVE UNCHANGED <<minted, quote>> \/ TransferDone(c)
    BY <1>4, Transfers DEF Transfer
  <1>5. ASSUME NEW z \in cast.zaps, SettleZap(z) PROVE UNCHANGED <<minted, quote>> \/ SettleDone(z)
    BY <1>5, Settles DEF SettleZap
  <1> QED
    BY <1>1, <1>2, <1>3, <1>4, <1>5, BridgeSteps

LEMMA CreditKeepsKeys ==
  ASSUME ZapInv, cast' = cast, NEW n \in Names, NEW s \in Shares, NEW i \in 0..MaxIndex,
         NEW x \in cast.zaps \union cast.gifts, KeysOf(x) = {}, Credited(n, s, x, i)
  PROVE  KeysAreHeld'
  <1>1. PICK new \in KeyNotes : /\ new = <<s, i>> /\ minted[new] = {}
                                /\ minted' = [minted EXCEPT ![new] = {x}]
    BY KeyPairs DEF Credited
  <1>2. \A key \in KeyNotes : minted'[key] = IF key = new THEN {x} ELSE minted[key]
    BY <1>1 DEF ZapInv, ZapTypes
  <1>3. \A key \in KeyNotes : x \notin minted[key]
    BY DEF KeysOf
  <1>4. x # Wallet
    BY CastZaps
  <1>5. \A key \in KeyNotes :
          /\ minted'[key] \subseteq cast.zaps \union cast.gifts \union {Wallet}
          /\ Wallet \in minted'[key] => key \in cast.own
          /\ \A y, w \in minted'[key] : y = w
    BY <1>2, <1>4 DEF ZapInv, Credit, KeysAreHeld
  <1>6. ASSUME NEW key \in KeyNotes, NEW other \in KeyNotes, NEW y \in minted'[key],
               y \in minted'[other], y # Wallet
        PROVE  other = key
    <2>1. CASE y = x
      BY <2>1, <1>2, <1>3, <1>6
    <2>2. CASE y # x
      <3>1. y \in minted[key] /\ y \in minted[other]
        BY <2>2, <1>2, <1>6
      <3> QED
        BY <3>1, <1>6 DEF ZapInv, Credit, KeysAreHeld
    <2> QED
      BY <2>1, <2>2
  <1> QED
    BY <1>5, <1>6 DEF KeysAreHeld

LEMMA KeysStayHeld ==
  ASSUME ZapInv, [Next]_vars
  PROVE  KeysAreHeld'
  <1>c. cast' = cast
    BY CastStays
  <1>1. CASE UNCHANGED minted
    BY <1>1, <1>c DEF ZapInv, Credit, KeysAreHeld
  <1>2. ASSUME NEW c \in zcalls, TransferDone(c) PROVE KeysAreHeld'
    BY <1>2, <1>c, CreditKeepsKeys DEF TransferDone
  <1>3. ASSUME NEW z \in cast.zaps, SettleDone(z) PROVE KeysAreHeld'
    <2>1. CASE UNCHANGED minted
      BY <2>1, <1>1
    <2>2. CASE ~UNCHANGED minted
      BY <2>2, <1>3, <1>c, CreditKeepsKeys DEF SettleDone
    <2> QED
      BY <2>1, <2>2
  <1>4. ASSUME NEW own \in cast.own, WalletStep(own) PROVE KeysAreHeld'
    <2> SUFFICES ASSUME WalletPuts(own) PROVE KeysAreHeld'
      BY <1>1, <1>4, WalletSteps
    <2>1. own \in KeyNotes
      BY <1>4, WalletSteps
    <2>2. \A key \in KeyNotes : minted'[key] = IF key = own THEN {Wallet} ELSE minted[key]
      BY <2>1 DEF WalletPuts, ZapInv, ZapTypes
    <2>3. \A key \in KeyNotes :
            /\ minted'[key] \subseteq cast.zaps \union cast.gifts \union {Wallet}
            /\ Wallet \in minted'[key] => key \in cast.own
            /\ \A y, w \in minted'[key] : y = w
      BY <2>2 DEF ZapInv, Credit, KeysAreHeld
    <2>4. \A key, other \in KeyNotes : \A y \in minted'[key] :
            y \in minted'[other] /\ y # Wallet => other = key
      BY <2>2 DEF ZapInv, Credit, KeysAreHeld
    <2> QED
      BY <1>c, <2>3, <2>4 DEF KeysAreHeld
  <1> QED
    BY <1>1, <1>2, <1>3, <1>4, MintedBy

LEMMA QuotesStayHeld ==
  ASSUME ZapInv, [Next]_vars
  PROVE  QuotesAreHeld'
  <1>c. cast' = cast /\ QuotesAreHeld
    BY CastStays DEF ZapInv, Credit
  <1>1. CASE UNCHANGED <<minted, quote>>
    BY <1>1, <1>c DEF QuotesAreHeld
  <1>2. ASSUME NEW n, NEW s, NEW x, NEW i, Credited(n, s, x, i) PROVE QuotesAreHeld'
    <2>1. PICK new \in KeyNotes : /\ new = <<s, i>> /\ quote[new] # "open"
                                  /\ minted' = [minted EXCEPT ![new] = {x}]
      BY <1>2, KeyPairs DEF Credited, KeyInUse
    <2>2. \A key \in KeyNotes : key # new => minted'[key] = minted[key]
      BY <2>1 DEF ZapInv, ZapTypes
    <2> QED
      BY <1>2, <1>c, <2>1, <2>2 DEF Credited, QuotesAreHeld
  <1>3. ASSUME NEW own \in cast.own, WalletStep(own) PROVE QuotesAreHeld'
    BY <1>3, <1>c, QuoteSteps DEF QuotesAreHeld
  <1>4. ASSUME NEW c \in zcalls, TransferDone(c) PROVE QuotesAreHeld'
    BY <1>2, <1>4 DEF TransferDone
  <1>5. ASSUME NEW z \in cast.zaps, SettleZap(z), SettleDone(z) PROVE QuotesAreHeld'
    BY <1>1, <1>2, <1>5 DEF SettleZap, SettleDone
  <1> QED
    BY <1>1, <1>3, <1>4, <1>5, MintedBy

-----------------------------------------------------------------------------
(* What has been credited.                                                 *)

LEMMA WalletKeys ==
  ASSUME ZapInv, NEW own \in cast.own, WalletStep(own)
  PROVE  \A x \in ZapHashes \union Gifts : KeysOf(x)' = KeysOf(x)
  <1>1. own \in KeyNotes /\ Wallet \notin ZapHashes \union Gifts
    BY ZapAssumption, WalletSteps
  <1>2. CASE UNCHANGED minted
    BY <1>2 DEF KeysOf
  <1>3. CASE WalletPuts(own)
    <2>1. \A key \in KeyNotes : minted'[key] = IF key = own THEN {Wallet} ELSE minted[key]
      BY <1>1, <1>3 DEF WalletPuts, ZapInv, ZapTypes
    <2>2. minted[own] = {}
      BY <1>3 DEF WalletPuts
    <2> QED
      BY <1>1, <2>1, <2>2 DEF KeysOf
  <1> QED
    BY <1>2, <1>3, WalletSteps

\* A step that leaves the notes, the rows' states and the gifts alone.
LEMMA NothingCredited ==
  ASSUME ZapInv, UNCHANGED <<bearer, gift>>,
         \A x \in ZapHashes \union Gifts : KeysOf(x)' = KeysOf(x),
         \A z \in ZapHashes : Minted(z)' = Minted(z)
  PROVE  PaymentsAreHeld'
  BY DEF ZapInv, Credit, PaymentsAreHeld

LEMMA SameKeys ==
  ASSUME UNCHANGED minted
  PROVE  \A x : KeysOf(x)' = KeysOf(x)
  BY DEF KeysOf

LEMMA TransferHolds ==
  ASSUME ZapInv, NEW c \in zcalls, Transfer(c), TransferDone(c)
  PROVE  PaymentsAreHeld'
  <1>1. PICK g \in Gifts : g = c.gift /\ KeysOf(g) = {} /\ gift' = [gift EXCEPT ![g] = "burned"]
    BY DEF TransferDone
  <1>2. /\ KeysOf(g)' # {}
        /\ \A x \in ZapHashes \union Gifts : x # g => KeysOf(x)' = KeysOf(x)
    <2>1. PICK n, s, i : Credited(n, s, g, i)
      BY <1>1 DEF TransferDone
    <2>2. <<s, i>> \in KeysOf(g)'
      BY <2>1, CreditedKeys DEF ZapInv
    <2> QED
      BY <2>1, <2>2, CreditedKeys DEF ZapInv
  <1>3. UNCHANGED <<bearer, zrow>>
    BY DEF Transfer
  <1>4. \A z \in ZapHashes : z # g /\ KeysOf(z)' = KeysOf(z) /\ Minted(z)' = Minted(z)
    BY <1>2, <1>3, ZapAssumption DEF Minted
  <1>5. \A z \in ZapHashes : /\ KeysOf(z)' # {} => Minted(z)'
                             /\ bearer'[z] = IF Minted(z)' /\ KeysOf(z)' = {} THEN 1 ELSE 0
    BY <1>3, <1>4 DEF ZapInv, Credit, PaymentsAreHeld
  <1>6. \A x \in Gifts : gift'[x] = "burned" <=> KeysOf(x)' # {}
    BY <1>1, <1>2 DEF ZapInv, ZapTypes, Credit, PaymentsAreHeld
  <1> QED
    BY <1>5, <1>6 DEF PaymentsAreHeld

LEMMA SettleHolds ==
  ASSUME ZapInv, NEW z \in cast.zaps, SettleZap(z), SettleDone(z)
  PROVE  PaymentsAreHeld'
  <1>1. z \in ZapHashes /\ z \notin Gifts /\ KeysOf(z) = {} /\ ~Minted(z)
    BY ZapAssumption DEF SettleDone, Minted
  <1>2. UNCHANGED gift
    BY DEF SettleZap
  <1>3. Minted(z)' /\ \A y \in ZapHashes : y # z => Minted(y)' = Minted(y)
    BY <1>1 DEF SettleDone, Minted, ZapInv, ZapTypes, ZapRows
  <1>4. \A x \in ZapHashes \union Gifts : x # z => KeysOf(x)' = KeysOf(x)
    BY CreditedKeys, SameKeys DEF SettleDone, ZapInv
  <1>5. \A x \in Gifts : gift'[x] = "burned" <=> KeysOf(x)' # {}
    BY <1>1, <1>2, <1>4 DEF ZapInv, Credit, PaymentsAreHeld
  <1>6. bearer[z] = 0
    BY <1>1 DEF ZapInv, Credit, PaymentsAreHeld
  <1>7. \/ KeysOf(z)' # {} /\ bearer' = bearer
        \/ KeysOf(z)' = {} /\ bearer' = [bearer EXCEPT ![z] = @ + 1]
    <2>1. ASSUME NEW n, NEW s, NEW i, Credited(n, s, z, i), bearer' = bearer
          PROVE  KeysOf(z)' # {} /\ bearer' = bearer
      <3>1. <<s, i>> \in KeysOf(z)'
        BY <2>1, CreditedKeys DEF ZapInv
      <3> QED
        BY <2>1, <3>1
    <2>2. UNCHANGED minted => KeysOf(z)' = {}
      BY <1>1, SameKeys
    <2> QED
      BY <2>1, <2>2 DEF SettleDone, CreditBearer
  <1>8. bearer'[z] = IF Minted(z)' /\ KeysOf(z)' = {} THEN 1 ELSE 0
    BY <1>1, <1>3, <1>6, <1>7 DEF ZapInv, ZapTypes
  <1>9. \A y \in ZapHashes : y # z => bearer'[y] = bearer[y]
    BY <1>7 DEF ZapInv, ZapTypes
  <1>10. \A y \in ZapHashes : /\ KeysOf(y)' # {} => Minted(y)'
                              /\ bearer'[y] = IF Minted(y)' /\ KeysOf(y)' = {} THEN 1 ELSE 0
    BY <1>3, <1>4, <1>8, <1>9 DEF ZapInv, Credit, PaymentsAreHeld
  <1> QED
    BY <1>5, <1>10 DEF PaymentsAreHeld
\* The steps that touch neither the notes nor what they were made for.
LEMMA PaymentsStayHeld ==
  ASSUME ZapInv, [Next]_vars
  PROVE  PaymentsAreHeld'
  <1>c. cast.zaps \subseteq ZapHashes
    BY CastZaps
  <1>s. \A z \in ZapHashes : zrow[z] \in ZapRows
    BY DEF ZapInv, ZapTypes
  <1>1. ASSUME UNCHANGED <<minted, bearer, gift>>, \A z \in ZapHashes : Minted(z)' = Minted(z)
        PROVE  PaymentsAreHeld'
    BY <1>1, SameKeys, NothingCredited
  <1>2. ASSUME UNCHANGED <<minted, bearer, gift, zrow>> PROVE PaymentsAreHeld'
    BY <1>1, <1>2 DEF Minted
  <1>3. ASSUME [AddrNext]_addrVars /\ UNCHANGED zapVars PROVE PaymentsAreHeld'
    BY <1>2, <1>3 DEF zapVars
  <1>4. \/ \E n \in cast.names : AskInvoice(n)
        \/ \E n \in cast.names : \E g \in cast.gifts : AskTransfer(n, g)
        \/ \E c \in zcalls : ZapCallFails(c)
        \/ \E z \in cast.zaps : PayZap(z) \/ ZapExpires(z) \/ Ages(z)
        => UNCHANGED <<minted, bearer, gift, zrow>>
    BY DEF AskInvoice, AskTransfer, ZapCallFails, PayZap, ZapExpires, Ages
  <1>5. \/ TickStart \/ TickEnd \/ HoldsStart \/ HoldsEnd \/ Crash
        \/ \E z \in cast.zaps : \/ SettleSkips(z)
                                \/ \E got \in {"none", "others", "inbox"} : PublishWrap(z, got)
        => UNCHANGED <<minted, bearer, gift, zrow>>
    BY DEF TickStart, TickEnd, HoldsStart, HoldsEnd, Crash, SettleSkips, PublishWrap
  <1>6. ASSUME NEW key \in cast.own, WalletStep(key) PROVE PaymentsAreHeld'
    BY <1>6, WalletSteps, WalletKeys, NothingCredited DEF Minted
  <1>7. ASSUME NEW c \in zcalls, NEW z \in cast.zaps, RecordZapInvoice(c, z) PROVE PaymentsAreHeld'
    <2>1. zrow[z].state = "none" /\ zrow'[z].state = "unsettled"
            /\ \A y \in ZapHashes : y # z => zrow'[y] = zrow[y]
      BY <1>7, <1>c DEF RecordZapInvoice, ZapInv, ZapTypes, Credit, RowsAreIssued
    <2>2. \A y \in ZapHashes : Minted(y)' = Minted(y)
      BY <2>1 DEF Minted
    <2> QED
      BY <1>1, <1>7, <2>2 DEF RecordZapInvoice
  <1>8. ASSUME NEW z \in cast.zaps, ZapSweepDeletes(z) PROVE PaymentsAreHeld'
    <2>1. zrow[z].state = "unsettled" /\ zrow'[z].state = "none"
            /\ \A y \in ZapHashes : y # z => zrow'[y] = zrow[y]
      BY <1>8, <1>c DEF ZapSweepDeletes, StaleZap, NoZapRow, ZapInv, ZapTypes
    <2>2. \A y \in ZapHashes : Minted(y)' = Minted(y)
      BY <2>1 DEF Minted
    <2> QED
      BY <1>1, <1>8, <2>2 DEF ZapSweepDeletes
  <1>9. ASSUME NEW z \in cast.zaps, PublishNothing(z) \/ ReceiptSent(z) PROVE PaymentsAreHeld'
    <2>0. tick.stage = "publish" /\ (z \in tick.todo \/ (tick.at = z /\ z # NoZap))
      BY <1>9, <1>c, ZapAssumption DEF PublishNothing, Publishing, ReceiptSent
    <2>1. zrow[z].state \in {"settled", "published"}
      BY <2>0 DEF ZapInv, Credit, PublishesTheMinted, Minted
    <2>2. zrow'[z].state = "published" /\ \A y \in ZapHashes : y # z => zrow'[y] = zrow[y]
      BY <1>9, <1>c, <1>s DEF PublishNothing, ReceiptSent, MarkPublished, ZapInv, ZapTypes, ZapRows
    <2>3. \A y \in ZapHashes : Minted(y)' = Minted(y)
      BY <2>1, <2>2 DEF Minted
    <2> QED
      BY <1>1, <1>9, <2>3 DEF PublishNothing, ReceiptSent
  <1>10. ASSUME NEW c \in zcalls, Transfer(c) PROVE PaymentsAreHeld'
    <2>1. CASE UNCHANGED <<gift, zapName, minted, transfers>>
      BY <1>2, <1>10, <2>1 DEF Transfer
    <2> QED
      BY <1>10, <2>1, Transfers, TransferHolds
  <1>11. ASSUME NEW z \in cast.zaps, SettleZap(z) PROVE PaymentsAreHeld'
    <2>1. CASE UNCHANGED <<zrow, zapName, minted, bearer>>
      BY <1>2, <1>11, <2>1 DEF SettleZap
    <2> QED
      BY <1>11, <2>1, Settles, SettleHolds
  <1> QED
    BY <1>2, <1>3, <1>4, <1>5, <1>6, <1>7, <1>8, <1>9, <1>10, <1>11, BridgeSteps

\* A row's share is set before anything is minted for it, and forgotten only
\* if nothing was; and a settle mints to it.
LEMMA SharesInvoicedStay ==
  ASSUME ZapInv, [Next]_vars
  PROVE  PaidToTheShareInvoiced'
  <1>c. cast.zaps \subseteq ZapHashes
    BY CastZaps
  <1>s. \A z \in ZapHashes : zrow[z] \in ZapRows
    BY DEF ZapInv, ZapTypes
  <1>i. PaidToTheShareInvoiced /\ \A z \in ZapHashes : ~Minted(z) => KeysOf(z) = {}
    BY DEF ZapInv, Credit, PaymentsAreHeld
  <1>1. ASSUME \A z \in ZapHashes : /\ KeysOf(z)' = KeysOf(z)
                                    /\ zrow'[z].cx1 = zrow[z].cx1 \/ KeysOf(z) = {}
        PROVE  PaidToTheShareInvoiced'
    BY <1>i, <1>1 DEF PaidToTheShareInvoiced
  <1>2. ASSUME UNCHANGED <<minted, zrow>> PROVE PaidToTheShareInvoiced'
    BY <1>1, <1>2, SameKeys
  <1>3. ASSUME [AddrNext]_addrVars /\ UNCHANGED zapVars PROVE PaidToTheShareInvoiced'
    BY <1>2, <1>3 DEF zapVars
  <1>4. \/ \E n \in cast.names : AskInvoice(n)
        \/ \E n \in cast.names : \E g \in cast.gifts : AskTransfer(n, g)
        \/ \E c \in zcalls : ZapCallFails(c)
        \/ \E z \in cast.zaps : PayZap(z) \/ ZapExpires(z) \/ Ages(z)
        => UNCHANGED <<minted, zrow>>
    BY DEF AskInvoice, AskTransfer, ZapCallFails, PayZap, ZapExpires, Ages
  <1>5. \/ TickStart \/ TickEnd \/ HoldsStart \/ HoldsEnd \/ Crash
        \/ \E z \in cast.zaps : \/ SettleSkips(z)
                                \/ \E got \in {"none", "others", "inbox"} : PublishWrap(z, got)
        => UNCHANGED <<minted, zrow>>
    BY DEF TickStart, TickEnd, HoldsStart, HoldsEnd, Crash, SettleSkips, PublishWrap
  <1>6. ASSUME NEW key \in cast.own, WalletStep(key) PROVE PaidToTheShareInvoiced'
    BY <1>1, <1>6, WalletSteps, WalletKeys
  <1>7. ASSUME NEW c \in zcalls, NEW z \in cast.zaps, RecordZapInvoice(c, z)
        PROVE  PaidToTheShareInvoiced'
    <2>1. ~Minted(z) /\ UNCHANGED minted /\ \A y \in ZapHashes : y # z => zrow'[y] = zrow[y]
      BY <1>7, <1>c DEF RecordZapInvoice, Minted, ZapInv, ZapTypes, Credit, RowsAreIssued
    <2> QED
      BY <1>1, <1>c, <1>i, <2>1, SameKeys
  <1>8. ASSUME NEW z \in cast.zaps, ZapSweepDeletes(z) PROVE PaidToTheShareInvoiced'
    <2>1. ~Minted(z) /\ UNCHANGED minted /\ \A y \in ZapHashes : y # z => zrow'[y] = zrow[y]
      BY <1>8, <1>c DEF ZapSweepDeletes, StaleZap, Minted, ZapInv, ZapTypes
    <2> QED
      BY <1>1, <1>c, <1>i, <2>1, SameKeys
  <1>9. ASSUME NEW z \in cast.zaps, PublishNothing(z) \/ ReceiptSent(z) PROVE PaidToTheShareInvoiced'
    <2>1. UNCHANGED minted /\ \A y \in ZapHashes : zrow'[y].cx1 = zrow[y].cx1
      BY <1>9, <1>s DEF PublishNothing, ReceiptSent, MarkPublished, ZapInv, ZapTypes, ZapRows
    <2> QED
      BY <1>1, <2>1, SameKeys
  <1>10. ASSUME NEW c \in zcalls, Transfer(c) PROVE PaidToTheShareInvoiced'
    <2>1. CASE UNCHANGED <<gift, zapName, minted, transfers>>
      BY <1>2, <1>10, <2>1 DEF Transfer
    <2>2. CASE TransferDone(c)
      <3>0. PICK g \in Gifts : g = c.gift
        BY <2>2 DEF TransferDone
      <3>1. PICK n, s, i : Credited(n, s, g, i)
        BY <2>2, <3>0 DEF TransferDone
      <3>2. \A z \in ZapHashes : KeysOf(z)' = KeysOf(z) /\ zrow' = zrow
        BY <1>10, <3>1, CreditedKeys, ZapAssumption DEF Transfer, ZapInv
      <3> QED
        BY <1>1, <3>2
    <2> QED
      BY <1>10, <2>1, <2>2, Transfers
  <1>11. ASSUME NEW z \in cast.zaps, SettleZap(z) PROVE PaidToTheShareInvoiced'
    <2>1. CASE UNCHANGED <<zrow, zapName, minted, bearer>>
      BY <1>2, <2>1
    <2>2. CASE SettleDone(z)
      <3>1. \A y \in ZapHashes : zrow'[y].cx1 = zrow[y].cx1
        BY <2>2, <1>s DEF SettleDone, ZapInv, ZapTypes, ZapRows
      <3>2. ASSUME NEW s \in Shares, NEW i \in 0..MaxIndex, Credited(zrow[z].name, s, z, i),
                   zrow[z].cx1 # NoShare => s = zrow[z].cx1
            PROVE  PaidToTheShareInvoiced'
        <4>1. KeysOf(z)' = {<<s, i>>} /\ \A y \in ZapHashes : y # z => KeysOf(y)' = KeysOf(y)
          BY <2>2, <3>2, CreditedKeys DEF SettleDone, ZapInv
        <4> QED
          BY <1>i, <3>1, <3>2, <4>1 DEF PaidToTheShareInvoiced
      <3>3. CASE UNCHANGED minted
        BY <1>1, <3>1, <3>3, SameKeys
      <3> QED
        BY <2>2, <3>2, <3>3 DEF SettleDone
    <2> QED
      BY <1>11, <2>1, <2>2, Settles
  <1> QED
    BY <1>2, <1>3, <1>4, <1>5, <1>6, <1>7, <1>8, <1>9, <1>10, <1>11, BridgeSteps
-----------------------------------------------------------------------------
(* The rows, and the pass over them.                                       *)

\* A row changes in five ways.
LEMMA RowsMove ==
  ASSUME ZapInv, [Next]_vars
  PROVE  \/ UNCHANGED zrow
         \/ \E c \in zcalls, z \in cast.zaps : RecordZapInvoice(c, z)
         \/ \E z \in cast.zaps : SettleZap(z) /\ SettleDone(z)
         \/ \E z \in cast.zaps : PublishNothing(z) \/ ReceiptSent(z)
         \/ \E z \in cast.zaps : ZapSweepDeletes(z)
  <1>1. ASSUME [AddrNext]_addrVars /\ UNCHANGED zapVars PROVE UNCHANGED zrow
    BY <1>1 DEF zapVars
  <1>2. \/ \E n \in cast.names : AskInvoice(n)
        \/ \E n \in cast.names : \E g \in cast.gifts : AskTransfer(n, g)
        \/ \E c \in zcalls : ZapCallFails(c) \/ Transfer(c)
        \/ \E z \in cast.zaps : PayZap(z) \/ ZapExpires(z) \/ Ages(z)
        \/ \E key \in cast.own : WalletStep(key)
        => UNCHANGED zrow
    BY WalletSteps DEF AskInvoice, AskTransfer, ZapCallFails, Transfer, PayZap, ZapExpires, Ages
  <1>3. \/ TickStart \/ TickEnd \/ HoldsStart \/ HoldsEnd \/ Crash
        \/ \E z \in cast.zaps : \/ SettleSkips(z)
                                \/ \E got \in {"none", "others", "inbox"} : PublishWrap(z, got)
        => UNCHANGED zrow
    BY DEF TickStart, TickEnd, HoldsStart, HoldsEnd, Crash, SettleSkips, PublishWrap
  <1> QED
    BY <1>1, <1>2, <1>3, BridgeSteps, Settles

LEMMA ClockMoves ==
  ASSUME ZapInv, [Next]_vars
  PROVE  \A z \in ZapHashes : zclock[z] # "unissued" => zclock'[z] # "unissued"
  <1>c. cast.zaps \subseteq ZapHashes
    BY CastZaps
  <1>1. ASSUME NEW z \in cast.zaps, ZapExpires(z) \/ \E c \in zcalls : RecordZapInvoice(c, z)
        PROVE  \A y \in ZapHashes : zclock[y] # "unissued" => zclock'[y] # "unissued"
    BY <1>1, <1>c DEF ZapExpires, RecordZapInvoice, ZapInv, ZapTypes
  <1>2. ASSUME [AddrNext]_addrVars /\ UNCHANGED zapVars PROVE UNCHANGED zclock
    BY <1>2 DEF zapVars
  <1>3. \/ \E n \in cast.names : AskInvoice(n)
        \/ \E n \in cast.names : \E g \in cast.gifts : AskTransfer(n, g)
        \/ \E c \in zcalls : ZapCallFails(c) \/ Transfer(c)
        \/ \E z \in cast.zaps : PayZap(z) \/ Ages(z) \/ SettleZap(z) \/ ZapSweepDeletes(z)
        \/ \E key \in cast.own : WalletStep(key)
        => UNCHANGED zclock
    BY WalletSteps
    DEF AskInvoice, AskTransfer, ZapCallFails, Transfer, PayZap, Ages, SettleZap, ZapSweepDeletes
  <1>4. \/ TickStart \/ TickEnd \/ HoldsStart \/ HoldsEnd \/ Crash
        \/ \E z \in cast.zaps : \/ SettleSkips(z) \/ PublishNothing(z) \/ ReceiptSent(z)
                                \/ \E got \in {"none", "others", "inbox"} : PublishWrap(z, got)
        => UNCHANGED zclock
    BY DEF TickStart, TickEnd, HoldsStart, HoldsEnd, Crash, SettleSkips, PublishNothing, ReceiptSent,
           PublishWrap
  <1> QED
    BY <1>1, <1>2, <1>3, <1>4, BridgeSteps

\* What a step does to one row: what was minted stays minted, and a row that
\* appears is of an invoice that was issued.
LEMMA RowMoves ==
  ASSUME ZapInv, [Next]_vars, NEW y \in ZapHashes
  PROVE  /\ Minted(y) => Minted(y)'
         /\ zrow'[y].state # "none" => zrow[y].state # "none" \/ zclock'[y] # "unissued"
  <1>c. cast.zaps \subseteq ZapHashes
    BY CastZaps
  <1>s. \A z \in ZapHashes : zrow[z] \in ZapRows
    BY DEF ZapInv, ZapTypes
  <1>1. CASE UNCHANGED zrow
    BY <1>1 DEF Minted
  <1>2. ASSUME NEW c \in zcalls, NEW z \in cast.zaps, RecordZapInvoice(c, z)
        PROVE  /\ Minted(y) => Minted(y)'
               /\ zrow'[y].state # "none" => zrow[y].state # "none" \/ zclock'[y] # "unissued"
    BY <1>2, <1>c DEF RecordZapInvoice, Minted, ZapInv, ZapTypes, Credit, RowsAreIssued
  <1>3. ASSUME NEW z \in cast.zaps, SettleDone(z)
        PROVE  (Minted(y) => Minted(y)') /\ (zrow'[y].state # "none" => zrow[y].state # "none")
    BY <1>3, <1>c, <1>s DEF SettleDone, Minted, ZapInv, ZapTypes, ZapRows
  <1>4. ASSUME NEW z \in cast.zaps, PublishNothing(z) \/ ReceiptSent(z)
        PROVE  (Minted(y) => Minted(y)') /\ (zrow'[y].state # "none" => zrow[y].state # "none")
    <2>0. tick.stage = "publish" /\ (z \in tick.todo \/ (tick.at = z /\ z # NoZap))
      BY <1>4, <1>c, ZapAssumption DEF PublishNothing, Publishing, ReceiptSent
    <2>1. zrow[z].state \in {"settled", "published"}
      BY <2>0 DEF ZapInv, Credit, PublishesTheMinted, Minted
    <2>2. zrow'[z].state = "published" /\ \A x \in ZapHashes : x # z => zrow'[x] = zrow[x]
      BY <1>4, <1>c, <1>s DEF PublishNothing, ReceiptSent, MarkPublished, ZapInv, ZapTypes, ZapRows
    <2> QED
      BY <2>1, <2>2 DEF Minted
  <1>5. ASSUME NEW z \in cast.zaps, ZapSweepDeletes(z)
        PROVE  (Minted(y) => Minted(y)') /\ (zrow'[y].state # "none" => zrow[y].state # "none")
    <2>1. zrow[z].state = "unsettled" /\ zrow'[z].state = "none"
            /\ \A x \in ZapHashes : x # z => zrow'[x] = zrow[x]
      BY <1>5, <1>c DEF ZapSweepDeletes, StaleZap, NoZapRow, ZapInv, ZapTypes
    <2> QED
      BY <2>1 DEF Minted
  <1> QED
    BY <1>1, <1>2, <1>3, <1>4, <1>5, RowsMove

LEMMA RowsStayIssued ==
  ASSUME ZapInv, [Next]_vars
  PROVE  RowsAreIssued'
  BY RowMoves, ClockMoves DEF ZapInv, Credit, RowsAreIssued

LEMMA TickStays ==
  ASSUME ZapInv, [Next]_vars
  PROVE  PublishesTheMinted'
  <1>c. cast.zaps \subseteq ZapHashes
    BY CastZaps
  <1>k. tick \in Ticks /\ tick.todo \subseteq ZapHashes
    BY DEF ZapInv, ZapTypes, Ticks
  <1>m. \A z \in ZapHashes : Minted(z) => Minted(z)'
    BY RowMoves
  <1>1. CASE UNCHANGED tick
    BY <1>1, <1>k, <1>m DEF ZapInv, Credit, PublishesTheMinted
  <1>2. CASE tick'.stage # "publish"
    BY <1>2 DEF PublishesTheMinted
  <1>3. ASSUME tick'.stage = tick.stage, tick'.todo \subseteq tick.todo,
               tick'.at # NoZap => tick'.at \in tick'.todo
        PROVE  PublishesTheMinted'
    BY <1>3, <1>k, <1>m DEF ZapInv, Credit, PublishesTheMinted
  <1>4. ASSUME NEW z \in cast.zaps, Next_(z) PROVE PublishesTheMinted'
    BY <1>3, <1>4, <1>k DEF Next_, Ticks
  <1>5. CASE HoldsEnd
    <2>1. tick'.todo = UnpublishedZaps /\ tick'.at = NoZap /\ zrow' = zrow
      BY <1>5 DEF HoldsEnd
    <2> QED
      BY <2>1 DEF UnpublishedZaps, PublishesTheMinted, Minted
  <1>6. ASSUME NEW z \in cast.zaps, NEW got \in {"none", "others", "inbox"}, PublishWrap(z, got)
        PROVE  PublishesTheMinted'
    <2>1. z \in tick.todo /\ tick.at = NoZap
      BY <1>6 DEF PublishWrap, Publishing
    <2>2. tick' = [tick EXCEPT !.at = z] \/ tick' = [tick EXCEPT !.todo = @ \ {z}]
      BY <1>6 DEF PublishWrap
    <2> QED
      BY <1>3, <1>k, <2>1, <2>2 DEF Ticks
  <1>7. TickStart \/ TickEnd \/ HoldsStart \/ Crash => tick'.stage # "publish"
    BY <1>k DEF TickStart, TickEnd, HoldsStart, Crash, IdleTick, Ticks
  <1>8. ASSUME NEW z \in cast.zaps, SettleZap(z) \/ SettleSkips(z) \/ PublishNothing(z) \/ ReceiptSent(z)
        PROVE  PublishesTheMinted'
    BY <1>4, <1>8 DEF SettleZap, SettleSkips, PublishNothing, ReceiptSent
  <1>9. \/ \E n \in cast.names : AskInvoice(n)
        \/ \E n \in cast.names : \E g \in cast.gifts : AskTransfer(n, g)
        \/ \E c \in zcalls : ZapCallFails(c) \/ Transfer(c) \/ \E z \in cast.zaps : RecordZapInvoice(c, z)
        \/ \E z \in cast.zaps : PayZap(z) \/ ZapExpires(z) \/ Ages(z) \/ ZapSweepDeletes(z)
        \/ \E key \in cast.own : WalletStep(key)
        => UNCHANGED tick
    BY WalletSteps
    DEF AskInvoice, AskTransfer, ZapCallFails, Transfer, RecordZapInvoice, PayZap, ZapExpires, Ages,
        ZapSweepDeletes
  <1>10. ASSUME [AddrNext]_addrVars /\ UNCHANGED zapVars PROVE UNCHANGED tick
    BY <1>10 DEF zapVars
  <1> QED
    BY <1>1, <1>2, <1>5, <1>6, <1>7, <1>8, <1>9, <1>10, BridgeSteps

LEMMA CallsStayGifts ==
  ASSUME ZapInv, [Next]_vars
  PROVE  TransfersAreGifts'
  <1>c. cast' = cast
    BY CastStays
  <1>1. ASSUME zcalls' \subseteq zcalls PROVE TransfersAreGifts'
    BY <1>1, <1>c DEF ZapInv, Credit, TransfersAreGifts
  <1>2. ASSUME NEW n \in cast.names, AskInvoice(n) PROVE TransfersAreGifts'
    BY <1>2, <1>c DEF AskInvoice, ZapWaits, ZapInv, Credit, TransfersAreGifts
  <1>3. ASSUME NEW n \in cast.names, NEW g \in cast.gifts, AskTransfer(n, g) PROVE TransfersAreGifts'
    BY <1>3, <1>c DEF AskTransfer, ZapWaits, ZapInv, Credit, TransfersAreGifts
  <1>4. \/ \E c \in zcalls : ZapCallFails(c) \/ Transfer(c) \/ \E z \in cast.zaps : RecordZapInvoice(c, z)
        \/ \E z \in cast.zaps : PayZap(z) \/ ZapExpires(z) \/ Ages(z) \/ SettleZap(z) \/ ZapSweepDeletes(z)
        \/ \E key \in cast.own : WalletStep(key)
        => zcalls' \subseteq zcalls
    BY WalletSteps
    DEF ZapCallFails, Transfer, RecordZapInvoice, PayZap, ZapExpires, Ages, SettleZap,
        ZapSweepDeletes, ZapDone
  <1>5. \/ TickStart \/ TickEnd \/ HoldsStart \/ HoldsEnd \/ Crash
        \/ \E z \in cast.zaps : \/ SettleSkips(z) \/ PublishNothing(z) \/ ReceiptSent(z)
                                \/ \E got \in {"none", "others", "inbox"} : PublishWrap(z, got)
        => zcalls' \subseteq zcalls
    BY DEF TickStart, TickEnd, HoldsStart, HoldsEnd, Crash, SettleSkips, PublishNothing, ReceiptSent,
           PublishWrap
  <1>6. ASSUME [AddrNext]_addrVars /\ UNCHANGED zapVars PROVE zcalls' \subseteq zcalls
    BY <1>6 DEF zapVars
  <1> QED
    BY <1>1, <1>2, <1>3, <1>4, <1>5, <1>6, BridgeSteps
-----------------------------------------------------------------------------
(* The counter of a name.                                                  *)

\* The registry never moves a counter, but for starting a share at 0.
LEMMA CountersStart ==
  ASSUME AddrTypes, [AddrNext]_addrVars, NEW n \in Names
  PROVE  \/ zapName'[n].cx1 = NoShare
         \/ zapName'[n].next = 0
         \/ zapName'[n].cx1 = zapName[n].cx1 /\ zapName'[n].next = zapName[n].next
  <1> DEFINE Starts == \/ zapName'[n].cx1 = NoShare
                       \/ zapName'[n].next = 0
                       \/ zapName'[n].cx1 = zapName[n].cx1 /\ zapName'[n].next = zapName[n].next
  <1>t. zapName \in [Names -> NameRows] /\ hold \in [Holds -> HoldRows]
    BY DEF AddrTypes
  <1>1. ASSUME NEW m \in Names, NEW k, NEW s, Insert(m, k, s) PROVE Starts
    BY <1>1, <1>t DEF Insert
  <1>2. ASSUME NEW m \in Names, NEW s, SetZapNameCx1(m, s) PROVE Starts
    BY <1>2, <1>t DEF SetZapNameCx1, NameRows
  <1>3. ASSUME NEW m \in Names, RemoveZapName(m) PROVE Starts
    BY <1>3, <1>t DEF RemoveZapName, NoName
  <1>4. ASSUME NEW m \in Names, NEW k, PutOperatorZapName(m, k) PROVE Starts
    BY <1>4, <1>t DEF PutOperatorZapName
  <1>5. ASSUME UNCHANGED zapName PROVE Starts
    BY <1>5
  <1>6. ASSUME NEW h \in Holds, CompleteHold(h) \/ SettleHold(h) PROVE Starts
    <2>1. hold[h].name \in Names
      BY <1>t DEF HoldRows
    <2> QED
      BY <1>1, <1>5, <1>6, <2>1 DEF CompleteHold, SettleHold
  <1> HIDE DEF Starts
  <1>7. ASSUME NEW m \in Names, UnregisterAddress(m) \/ OperatorRemoves(m) PROVE Starts
    BY <1>2, <1>3, <1>7 DEF UnregisterAddress, OperatorRemoves
  <1>8. ASSUME NEW m \in Names, NEW s \in Shares, RegisterShareName(m, s) \/ MoveShare(m, s) PROVE Starts
    BY <1>1, <1>2, <1>8 DEF RegisterShareName, MoveShare
  <1>9. ASSUME NEW k \in Keys, NEW m \in Names, NEW a \in AnyShare,
               OwnerSetsShare(k, m, a) \/ ClaimFree(k, m, a)
        PROVE  Starts
    BY <1>1, <1>2, <1>9 DEF OwnerSetsShare, ClaimFree
  <1>10. ASSUME NEW c \in calls, BuyZapName(c) PROVE Starts
    <2>1. c.name \in Names
      BY DEF AddrTypes, Calls
    <2>2. zapName' = zapName \/ Insert(c.name, c.key, c.cx1)
      BY <1>10 DEF BuyZapName
    <2> QED
      BY <1>1, <1>5, <2>1, <2>2
  <1>11. ASSUME NEW c \in calls, LookUpFindsPaid(c) PROVE Starts
    <2>1. c.hold \in Holds
      BY <1>11 DEF LookUpFindsPaid, AddrTypes
    <2> QED
      BY <1>6, <1>11, <2>1 DEF LookUpFindsPaid
  <1>12. ASSUME NEW h \in Holds, PassFindsPaid(h) \/ \E t \in FeeNotes : PayHoldWithNote(h, t) PROVE Starts
    BY <1>6, <1>12 DEF PassFindsPaid, PayHoldWithNote
  <1>13. \/ \E m \in Names : \E s \in Shares : AskFee(m, s)
         \/ \E k \in Keys : \E m \in Names : \E a \in AnyShare : \E t \in FeeNotes : OfferNote(k, m, a, t)
         \/ \E m \in Names : \E h \in Holds : LookUpHeld(m, h)
         \/ \E c \in calls : CallFails(c) \/ \E h \in Holds : HoldAddress(c, h)
         \/ \E h \in Holds : PayFee(h) \/ Elapse(h) \/ PassFindsUnpaid(h) \/ PassHearsNothing(h)
         \/ \E t \in FeeNotes : SpendFeeNote(t)
         \/ PassStart \/ PassEnd \/ AddrCrash \/ UNCHANGED addrVars
         => UNCHANGED zapName
    BY DEF AskFee, OfferNote, LookUpHeld, CallFails, HoldAddress, PayFee, Elapse, PassFindsUnpaid,
           PassHearsNothing, SpendFeeNote, PassStart, PassEnd, AddrCrash, nameVars, addrVars
  <1>14. Starts
    <2>1. cast \in Casts
      BY DEF AddrTypes
    <2>2. UNCHANGED zapName => Starts
      BY <1>5
    <2> QED
      BY <1>4, <1>7, <1>8, <1>9, <1>10, <1>11, <1>12, <1>13, <2>1, <2>2, Steps
  <1> QED
    BY <1>14 DEF Starts

\* Notes are only added to keys, and a quote that lapses below a counter is
\* remembered.
LEMMA KeysFill ==
  ASSUME ZapInv, [Next]_vars, NEW key \in KeyNotes, KeyMet(key),
         PassedBy(key) \/ UNCHANGED quote
  PROVE  KeyMet(key)'
  <1>1. CASE UNCHANGED <<minted, quote>>
    BY <1>1 DEF KeyMet, KeyInUse
  <1>2. ASSUME NEW n, NEW s, NEW x, NEW i, Credited(n, s, x, i) PROVE KeyMet(key)'
    BY <1>2 DEF Credited, KeyMet, KeyInUse, ZapInv, ZapTypes
  <1>3. ASSUME NEW own \in cast.own, WalletStep(own) PROVE KeyMet(key)'
    <2>1. CASE own = key
      BY <1>3, <2>1, QuoteSteps
    <2>2. CASE own # key
      BY <1>3, <2>2, QuoteSteps DEF KeyMet, KeyInUse
    <2> QED
      BY <2>1, <2>2
  <1>4. ASSUME NEW z \in cast.zaps, SettleZap(z), SettleDone(z) PROVE KeyMet(key)'
    BY <1>1, <1>2, <1>4 DEF SettleZap, SettleDone
  <1> QED
    BY <1>1, <1>2, <1>3, <1>4, MintedBy DEF TransferDone

\* A name's keys stay met while the name keeps share and counter.
LEMMA CountKept ==
  ASSUME ZapInv, [Next]_vars, NEW n \in Names,
         zapName'[n].cx1 = zapName[n].cx1, zapName[n].cx1 # NoShare,
         NEW i \in Nat, i < zapName[n].next
  PROVE  KeyMet(<<zapName[n].cx1, i>>)'
  <1>1. zapName[n].cx1 \in Shares /\ zapName[n].next \in Nat
    BY DEF ZapInv, AddrTypes, NameRows, AnyShare
  <1>2. zapName[n].next <= MaxIndex + 1 /\ KeyMet(<<zapName[n].cx1, i>>)
    BY DEF ZapInv, Counted
  <1>3. PICK key \in KeyNotes : key = <<zapName[n].cx1, i>>
    BY <1>1, <1>2, ZapAssumption DEF KeyNotes
  <1>4. PassedBy(key) /\ KeyMet(key)
    BY <1>2, <1>3 DEF PassedBy
  <1>5. KeyMet(key)'
    BY <1>4, KeysFill
  <1> QED
    BY <1>3, <1>5 DEF KeyMet, KeyInUse

LEMMA CountersStay ==
  ASSUME ZapInv, [Next]_vars
  PROVE  Counted'
  <1> SUFFICES ASSUME NEW n \in Names, zapName'[n].cx1 # NoShare
               PROVE  /\ zapName'[n].next <= MaxIndex + 1
                      /\ \A i \in Nat : i < zapName'[n].next => KeyMet(<<zapName[n].cx1, i>>)'
    BY DEF Counted
  <1>t. MaxIndex \in Nat /\ zapName \in [Names -> NameRows] /\ minted \in [KeyNotes -> SUBSET Sources]
    BY ZapAssumption DEF ZapInv, AddrTypes, ZapTypes
  <1>1. CASE zapName'[n].next = 0
    BY <1>1, <1>t
  <1>2. CASE zapName'[n].cx1 = zapName[n].cx1 /\ zapName'[n].next = zapName[n].next
    BY <1>2, CountKept DEF ZapInv, Counted
  <1>3. ASSUME NEW m \in Names, NEW i \in 0..MaxIndex, NEW s, NEW x, Credited(m, s, x, i),
               zapName' = [zapName EXCEPT ![m].next = i + 1]
        PROVE  /\ zapName'[n].next <= MaxIndex + 1
               /\ \A j \in Nat : j < zapName'[n].next => KeyMet(<<zapName[n].cx1, j>>)'
    <2>1. CASE n # m
      <3>1. zapName'[n] = zapName[n]
        BY <1>3, <1>t, <2>1
      <3> QED
        BY <1>2, <3>1
    <2>2. CASE n = m /\ zapName[n].next = i + 1
      <3>1. zapName'[n].cx1 = zapName[n].cx1 /\ zapName'[n].next = zapName[n].next
        BY <1>3, <1>t, <2>2 DEF NameRows
      <3> QED
        BY <1>2, <3>1
    <2>3. CASE n = m /\ zapName[n].next # i + 1
      <3>1. /\ zapName'[n].cx1 = zapName[n].cx1 /\ zapName'[n].next = i + 1
            /\ zapName[n].next \in Nat
        BY <1>3, <1>t, <2>3 DEF NameRows
      <3>2. zapName[n].cx1 = s
        BY <1>3, <2>3, <3>1 DEF Credited, Bump
      <3>3. StartOf(n, s) = zapName[n].next /\ s \in Shares
        BY <1>3, <3>2 DEF StartOf, Credited
      <3>4. ASSUME NEW j \in Nat, j < i + 1 PROVE KeyMet(<<zapName[n].cx1, j>>)'
        <4>1. CASE j < zapName[n].next
          BY <3>1, <3>2, <4>1, CountKept
        <4>2. CASE ~(j < zapName[n].next) /\ j < i
          <5>0. <<s, j>> \in KeyNotes
            BY <1>t, <3>3, <4>2 DEF KeyNotes
          <5>1. PICK key \in KeyNotes : key = <<s, j>>
            BY <5>0
          <5>2. KeyMet(key) /\ UNCHANGED quote
            BY <1>3, <2>3, <3>1, <3>3, <4>2, <5>1 DEF Credited, KeyMet
          <5>3. KeyMet(key)'
            BY <5>2, KeysFill
          <5> QED
            BY <3>1, <3>2, <5>1, <5>3 DEF KeyMet, KeyInUse
        <4>3. CASE j = i
          BY <1>3, <1>t, <3>1, <3>2, <3>3, <4>3, KeyPairs DEF Credited, KeyMet, KeyInUse
        <4> QED
          BY <3>1, <3>4, <4>1, <4>2, <4>3
      <3> QED
        BY <1>t, <3>1, <3>2, <3>4
    <2> QED
      BY <2>1, <2>2, <2>3
  <1>4. CASE [AddrNext]_addrVars
    BY <1>1, <1>2, <1>4, CountersStart DEF ZapInv
  <1> QED
    BY <1>3, <1>4, RegistrySees DEF Counts
-----------------------------------------------------------------------------
(* What holds of the bridge.                                               *)

LEMMA ZapInvInit == Init => ZapInv
  <1> SUFFICES ASSUME Init PROVE ZapInv
    OBVIOUS
  <1>1. AddrTypes /\ ZapTypes
    BY AddrTypeInit, ZapTypesInit DEF Init
  <1>2. \A key \in KeyNotes : minted[key] = {}
    BY DEF Init
  <1>3. \A x : KeysOf(x) = {}
    BY <1>2 DEF KeysOf
  <1>4. KeysAreHeld /\ QuotesAreHeld
    BY <1>2 DEF Init, KeysAreHeld, QuotesAreHeld
  <1>5. PaymentsAreHeld
    BY <1>3 DEF Init, PaymentsAreHeld, Minted, NoZapRow
  <1>6. PaidToTheShareInvoiced
    BY <1>3 DEF PaidToTheShareInvoiced
  <1>7. RowsAreIssued /\ PublishesTheMinted /\ TransfersAreGifts
    BY DEF Init, NoZapRow, IdleTick, RowsAreIssued, PublishesTheMinted, TransfersAreGifts
  <1>8. Counted
    BY DEF Init, AddrInit, NoName, Counted
  <1> QED
    BY <1>1, <1>4, <1>5, <1>6, <1>7, <1>8 DEF ZapInv, Credit

LEMMA ZapInvStep == ZapInv /\ [Next]_vars => ZapInv'
  BY AddrTypesStay, ZapTypesStay, KeysStayHeld, QuotesStayHeld, PaymentsStayHeld, SharesInvoicedStay, RowsStayIssued,
     TickStays, CallsStayGifts, CountersStay DEF ZapInv, Credit

LEMMA ZapsHold == Spec => []ZapInv
  BY ZapInvInit, ZapInvStep, PTL DEF Spec

\* Every variable of the bridge and of the registry keeps its shape.
THEOREM BridgeTypes == Spec => []TypeOK
  <1>1. ZapInv => TypeOK
    <2> SUFFICES ASSUME ZapInv PROVE TypeOK
      OBVIOUS
    <2>1. AddrTypeOK
      BY TypesAreTypes DEF ZapInv
    <2> QED
      BY <2>1 DEF ZapInv, ZapTypes, TypeOK, ZapRows, ZapCalls, Ticks, Sources, AnyShare
  <1> QED
    BY ZapsHold, <1>1, PTL

\* Every payment and every gift is behind exactly one note once it is
\* settled or burned, and behind none before; and no two of them share a key.
THEOREM EverythingIsCreditedOnce == Spec => []CreditedOnce
  <1>1. ZapInv => CreditedOnce
    <2> SUFFICES ASSUME ZapInv PROVE CreditedOnce
      OBVIOUS
    <2>1. \A x \in ZapHashes \union Gifts : KeysOf(x) = {} \/ \E key : KeysOf(x) = {key}
      <3> SUFFICES ASSUME NEW x \in ZapHashes \union Gifts, NEW key \in KeysOf(x)
                   PROVE  KeysOf(x) = {key}
        OBVIOUS
      <3>1. x # Wallet
        BY ZapAssumption
      <3> QED
        BY <3>1 DEF KeysOf, ZapInv, Credit, KeysAreHeld
    <2>2. \A x \in ZapHashes \union Gifts : Cardinality(KeysOf(x)) = IF KeysOf(x) = {} THEN 0 ELSE 1
      BY <2>1, FS_EmptySet, FS_Singleton
    <2>3. \A z \in ZapHashes : Cardinality(KeysOf(z)) + bearer[z]
                                 = IF zrow[z].state \in {"settled", "published"} THEN 1 ELSE 0
      BY <2>2 DEF ZapInv, Credit, PaymentsAreHeld, Minted
    <2>4. \A g \in Gifts : Cardinality(KeysOf(g)) = IF gift[g] = "burned" THEN 1 ELSE 0
      BY <2>2 DEF ZapInv, Credit, PaymentsAreHeld
    <2>5. ASSUME NEW key \in KeyNotes PROVE Cardinality(minted[key]) <= 1
      <3>1. minted[key] = {} \/ \E x : minted[key] = {x}
        <4> SUFFICES ASSUME NEW x \in minted[key] PROVE minted[key] = {x}
          OBVIOUS
        <4> QED
          BY DEF ZapInv, Credit, KeysAreHeld
      <3>2. Cardinality(minted[key]) \in {0, 1}
        BY <3>1, FS_EmptySet, FS_Singleton
      <3> QED
        BY <3>2
    <2> QED
      BY <2>3, <2>4, <2>5 DEF CreditedOnce
  <1> QED
    BY ZapsHold, <1>1, PTL

\* A payment is minted to the share its invoice was made for.
THEOREM PaymentsReachTheirShare == Spec => []PaidToTheShareInvoiced
  <1>1. ZapInv => PaidToTheShareInvoiced
    BY DEF ZapInv, Credit
  <1> QED
    BY ZapsHold, <1>1, PTL

\* Below a registered name's counter every key of its share names a note, or a
\* mint invoice holds it, or held it as the counter went past and then lapsed.
THEOREM ScansMeetNoGap == Spec => []NoGapInTheScan
  <1>1. ZapInv => NoGapInTheScan
    <2> SUFFICES ASSUME ZapInv, NEW n \in Names, zapName[n].cx1 # NoShare,
                        NEW i \in 0..(zapName[n].next - 1)
                 PROVE  KeyMet(<<zapName[n].cx1, i>>)
      BY DEF NoGapInTheScan, KeyMet
    <2>1. zapName[n].next \in Nat
      BY DEF ZapInv, AddrTypes, NameRows
    <2> QED
      BY <2>1 DEF ZapInv, Counted
  <1> QED
    BY ZapsHold, <1>1, PTL

-----------------------------------------------------------------------------
(* The registry's theorems, with the bridge on top of it.                  *)

\* A count leaves the registry's invariant alone, and every share's homes.
LEMMA CountsKeepRegistry ==
  ASSUME RegistryInv, AddrTypes', NEW n \in Names, NEW i \in 0..MaxIndex, Counts(n, i)
  PROVE  RegistryInv' /\ \A s : Homes(s)' = Homes(s)
  <1>1. \A m \in Names : /\ zapName'[m].source = zapName[m].source
                         /\ zapName'[m].pubkey = zapName[m].pubkey
                         /\ zapName'[m].cx1 = zapName[m].cx1
    BY DEF Counts, RegistryInv, PayeeInv, AddrTypes, NameRows
  <1>2. UNCHANGED <<cast, accepted, hold, clock, feePaid, feeNote, calls, pass>>
    BY DEF Counts
  <1>3. Past' = Past /\ Unsettled' = Unsettled /\ \A m \in Names : LiveHolds(m, Past)' = LiveHolds(m, Past)
    BY <1>2 DEF Past, Unsettled, LiveHolds
  <1>4. \A m \in Names : Registered(m)' = Registered(m)
    BY <1>1 DEF Registered
  <1>5. \A s : Homes(s)' = Homes(s)
    BY <1>1, <1>2, <1>3, <1>4 DEF Homes
  <1>6. \A s \in Shares : Homed(s)'
    BY <1>2, <1>5 DEF RegistryInv, Homed
  <1>7. LiveHoldKeepsItsName'
    BY <1>1, <1>3, <1>4 DEF RegistryInv, LiveHoldKeepsItsName
  <1>8. CallsKnow' /\ HoldsHaveShares' /\ EveryNameHasAPayee'
    BY <1>1, <1>2, <1>3, <1>4 DEF RegistryInv, PayeeInv, CallsKnow, HoldsHaveShares, EveryNameHasAPayee
  <1> QED
    BY <1>5, <1>6, <1>7, <1>8 DEF RegistryInv, PayeeInv

BridgeInv == ZapInv /\ RegistryInv

LEMMA BridgeStep == BridgeInv /\ [Next]_vars => BridgeInv'
  <1> SUFFICES ASSUME BridgeInv, [Next]_vars PROVE BridgeInv'
    OBVIOUS
  <1>1. ZapInv'
    BY ZapInvStep DEF BridgeInv
  <1>2. RegistryInv'
    BY <1>1, RegistrySees, RegistryKept, CountsKeepRegistry DEF BridgeInv, ZapInv
  <1> QED
    BY <1>1, <1>2 DEF BridgeInv

LEMMA BridgeHolds == Spec => []BridgeInv
  <1>1. Init => BridgeInv
    BY ZapInvInit, PayeeInit, NamesInit, HomedInit DEF Init, BridgeInv, RegistryInv
  <1> QED
    BY <1>1, BridgeStep, PTL DEF Spec
\* No share is ever the payee of two names or holds, while zaps are paid and
\* notes are credited between its steps.
THEOREM BridgeSharesHaveOneHome == Spec => []OneHomePerShare
  <1>1. BridgeInv => OneHomePerShare
    BY DEF BridgeInv, RegistryInv, Homed, OneHomePerShare
  <1> QED
    BY BridgeHolds, <1>1, PTL

\* A share that is of use nowhere any more never is again.
THEOREM BridgeSharesStayAway == Spec => SharesNeverReturn
  <1>1. BridgeInv /\ [Next]_vars => [\A s \in accepted : Homes(s) = {} => Homes(s)' = {}]_addrVars
    <2> SUFFICES ASSUME BridgeInv, [Next]_vars
                 PROVE  \A s \in accepted : Homes(s) = {} => Homes(s)' = {}
      OBVIOUS
    <2>1. AddrTypes'
      BY AddrTypesStay DEF BridgeInv
    <2> QED
      BY <2>1, RegistrySees, NoReturn, CountsKeepRegistry DEF BridgeInv
  <1> QED
    BY BridgeHolds, <1>1, PTL DEF Spec, SharesNeverReturn

\* A live hold is the only one of its name, and nobody but the operator has
\* the name.
THEOREM BridgeLiveHoldsKeepTheirNames == Spec => []LiveHoldKeepsItsName
  <1>1. BridgeInv => LiveHoldKeepsItsName
    BY DEF BridgeInv, RegistryInv
  <1> QED
    BY BridgeHolds, <1>1, PTL

\* Every registered name has somebody to pay.
THEOREM BridgeNamesHavePayees == Spec => []EveryNameHasAPayee
  <1>1. BridgeInv => EveryNameHasAPayee
    BY DEF BridgeInv, RegistryInv, PayeeInv
  <1> QED
    BY BridgeHolds, <1>1, PTL

\* A fee seen paid while its hold is live buys the name, unless the operator
\* has given it away.
THEOREM BridgeFeesBuyNames == Spec => FeeBuysTheName
  <1>1. BridgeInv /\ [Next]_vars => [FeeBuys]_addrVars
    <2>1. BridgeInv /\ [AddrNext]_addrVars => FeeBuys
      BY PaidHoldBuys DEF FeeBuys, BridgeInv
    <2>2. ASSUME NEW n \in Names, NEW i \in 0..MaxIndex, Counts(n, i) PROVE FeeBuys
      BY <2>2 DEF Counts, FeeBuys
    <2> QED
      BY <2>1, <2>2, RegistrySees DEF BridgeInv
  <1>2. Spec => [][FeeBuys]_addrVars
    BY BridgeHolds, <1>1, PTL DEF Spec
  <1> QED
    BY <1>2 DEF FeeBuys, FeeBuysTheName

-----------------------------------------------------------------------------
(* The bridge implements PaymentPromise.                                   *)

creditVars == <<zrow, zclock, zapPaid, minted, bearer, gift>>

\* What can be paid or was paid has a row, of this cast, and what was minted
\* was paid.
PaymentsHaveRows ==
  \A z \in ZapHashes :
    /\ zclock[z] = "payable" \/ z \in zapPaid => zrow[z].state # "none"
    /\ Minted(z) => z \in zapPaid
    /\ zrow[z].state # "none" => z \in cast.zaps

Marks(z) ==
  /\ z \in ZapHashes /\ Minted(z)
  /\ zrow' = [zrow EXCEPT ![z].state = "published"]
  /\ UNCHANGED <<zclock, zapPaid, minted, bearer, gift>>

\* The ways in which a payment, a row or a note can change.
LEMMA CreditWays ==
  ASSUME ZapInv, [Next]_vars
  PROVE  \/ UNCHANGED creditVars
         \/ \E c \in zcalls : \E z \in cast.zaps : RecordZapInvoice(c, z)
         \/ \E z \in cast.zaps : \/ PayZap(z) \/ ZapExpires(z) \/ ZapSweepDeletes(z) \/ Marks(z)
                                 \/ SettleZap(z) /\ SettleDone(z)
         \/ \E c \in zcalls : Transfer(c) /\ TransferDone(c)
         \/ \E key \in cast.own : WalletStep(key) /\ WalletPuts(key)
  <1>1. ASSUME [AddrNext]_addrVars /\ UNCHANGED zapVars PROVE UNCHANGED creditVars
    BY <1>1 DEF zapVars, creditVars
  <1>2. \/ \E n \in cast.names : AskInvoice(n)
        \/ \E n \in cast.names : \E g \in cast.gifts : AskTransfer(n, g)
        \/ \E c \in zcalls : ZapCallFails(c)
        \/ \E z \in cast.zaps : Ages(z) \/ SettleSkips(z)
        \/ \E z \in cast.zaps : \E got \in {"none", "others", "inbox"} : PublishWrap(z, got)
        \/ TickStart \/ TickEnd \/ HoldsStart \/ HoldsEnd \/ Crash
        => UNCHANGED creditVars
    BY DEF AskInvoice, AskTransfer, ZapCallFails, Ages, SettleSkips, PublishWrap, TickStart, TickEnd,
           HoldsStart, HoldsEnd, Crash, creditVars
  <1>3. ASSUME NEW z \in cast.zaps, PublishNothing(z) \/ ReceiptSent(z) PROVE Marks(z)
    <2>1. z \in ZapHashes
      BY CastZaps
    <2>2. tick.stage = "publish" /\ (z \in tick.todo \/ (tick.at = z /\ z # NoZap))
      BY <1>3, <2>1, ZapAssumption DEF PublishNothing, Publishing, ReceiptSent
    <2>3. Minted(z)
      BY <2>2 DEF ZapInv, Credit, PublishesTheMinted
    <2> QED
      BY <1>3, <2>1, <2>3 DEF PublishNothing, ReceiptSent, MarkPublished, Marks
  <1>4. ASSUME NEW z \in cast.zaps, SettleZap(z) PROVE UNCHANGED creditVars \/ SettleDone(z)
    BY <1>4, Settles DEF SettleZap, creditVars
  <1>5. ASSUME NEW c \in zcalls, Transfer(c) PROVE UNCHANGED creditVars \/ TransferDone(c)
    BY <1>5, Transfers DEF Transfer, creditVars
  <1>6. ASSUME NEW key \in cast.own, WalletStep(key) PROVE UNCHANGED creditVars \/ WalletPuts(key)
    BY <1>6, WalletSteps DEF creditVars
  <1> QED
    BY <1>1, <1>2, <1>3, <1>4, <1>5, <1>6, BridgeSteps

LEMMA RowsOfPaymentsStay ==
  ASSUME ZapInv, PaymentsHaveRows, [Next]_vars
  PROVE  PaymentsHaveRows'
  <1>c. cast' = cast /\ cast.zaps \subseteq ZapHashes
    BY CastStays, CastZaps
  <1>s. \A z \in ZapHashes : zrow[z] \in ZapRows
    BY DEF ZapInv, ZapTypes
  <1> USE DEF PaymentsHaveRows, Minted
  <1>1. CASE UNCHANGED creditVars
    BY <1>1, <1>c DEF creditVars
  <1>2. ASSUME NEW c \in zcalls, NEW z \in cast.zaps, RecordZapInvoice(c, z)
        PROVE  PaymentsHaveRows'
    BY <1>2, <1>c DEF RecordZapInvoice, ZapInv, ZapTypes, Credit, RowsAreIssued
  <1>3. ASSUME NEW z \in cast.zaps, PayZap(z) \/ ZapExpires(z) PROVE PaymentsHaveRows'
    BY <1>3, <1>c DEF PayZap, ZapExpires, ZapInv, ZapTypes
  <1>4. ASSUME NEW z \in cast.zaps, ZapSweepDeletes(z) PROVE PaymentsHaveRows'
    BY <1>4, <1>c DEF ZapSweepDeletes, StaleZap, NoZapRow, ZapInv, ZapTypes
  <1>5. ASSUME NEW z \in cast.zaps, Marks(z) PROVE PaymentsHaveRows'
    BY <1>5, <1>c, <1>s DEF Marks, ZapInv, ZapTypes, ZapRows
  <1>6. ASSUME NEW z \in cast.zaps, SettleZap(z), SettleDone(z) PROVE PaymentsHaveRows'
    BY <1>6, <1>c, <1>s DEF SettleZap, SettleDone, ZapInv, ZapTypes, ZapRows
  <1>7. ASSUME NEW c \in zcalls, Transfer(c) PROVE PaymentsHaveRows'
    BY <1>7, <1>c DEF Transfer
  <1>8. ASSUME NEW key \in cast.own, WalletStep(key) PROVE PaymentsHaveRows'
    BY <1>8, <1>c, WalletSteps
  <1> HIDE DEF PaymentsHaveRows, Minted
  <1> QED
    BY <1>1, <1>2, <1>3, <1>4, <1>5, <1>6, <1>7, <1>8, CreditWays

LEMMA StagesMove ==
  ASSUME NEW p \in ZapHashes \union Gifts, NEW s, Stage(p)' = s,
         \A q \in (ZapHashes \union Gifts) \ {p} : Stage(q)' = Stage(q)
  PROVE  Stages' = [Stages EXCEPT ![p] = s]
  BY DEF Stages

LEMMA PromisedMoves ==
  ASSUME NEW p \in ZapHashes \union Gifts, NEW d, Promised'[p] = d,
         \A q \in (ZapHashes \union Gifts) \ {p} : Promised'[q] = Promised[q]
  PROVE  Promised' = [Promised EXCEPT ![p] = d]
  BY DEF Promised

LEMMA PutAtMoves ==
  ASSUME NEW k \in Places, NEW v, PutAt'[k] = v,
         \A j \in Places \ {k} : PutAt'[j] = PutAt[j]
  PROVE  PutAt' = [PutAt EXCEPT ![k] = v]
  <1>1. PutAt = [j \in Places |-> PutAt[j]] /\ PutAt' = [j \in Places |-> PutAt'[j]]
    BY DEF PutAt
  <1> QED
    BY <1>1

\* What is in the mint's custody for a zap.
Parked(z, notes) == IF notes = 0 THEN {} ELSE {z}

\* What is put where, now and after a step.
LEMMA PutAtPlaces ==
  /\ \A k \in Places : \/ \E key \in KeyNotes : k = <<"share", key>>
                       \/ \E z \in ZapHashes : k = Custody(z)
  /\ \A key \in KeyNotes : /\ <<"share", key>> \in Places
                           /\ PutAt[<<"share", key>>] = minted[key]
                           /\ PutAt'[<<"share", key>>] = minted'[key]
  /\ \A z \in ZapHashes : /\ Custody(z) \in Places
                          /\ PutAt[Custody(z)] = Parked(z, bearer[z])
                          /\ PutAt'[Custody(z)] = Parked(z, bearer'[z])
  /\ \A key \in KeyNotes, z \in ZapHashes : <<"share", key>> # Custody(z)
  <1>1. \A key \in KeyNotes : <<"share", key>> \in SharePlaces /\ <<"share", key>>[2] = key
    BY DEF SharePlaces
  <1>2. \A k \in SharePlaces : \E key \in KeyNotes : k = <<"share", key>>
    BY DEF SharePlaces
  <1>3. \A z \in ZapHashes : Custody(z) \notin SharePlaces /\ Custody(z)[2] = z
    BY DEF SharePlaces, Custody
  <1>4. /\ \A k \in Places : k \in SharePlaces \/ \E z \in ZapHashes : k = Custody(z)
        /\ \A k \in SharePlaces : k \in Places
        /\ \A z \in ZapHashes : Custody(z) \in Places
    BY DEF Places
  <1>5. /\ \A k \in SharePlaces : PutAt[k] = minted[k[2]] /\ PutAt'[k] = minted'[k[2]]
        /\ \A k \in Places \ SharePlaces :
             /\ PutAt[k] = Parked(k[2], bearer[k[2]])
             /\ PutAt'[k] = Parked(k[2], bearer'[k[2]])
    BY <1>4 DEF PutAt, Parked
  <1>6. \A key \in KeyNotes : /\ <<"share", key>> \in Places
                            /\ PutAt[<<"share", key>>] = minted[key]
                            /\ PutAt'[<<"share", key>>] = minted'[key]
    BY <1>1, <1>4, <1>5
  <1>7. \A z \in ZapHashes : /\ Custody(z) \in Places
                           /\ PutAt[Custody(z)] = Parked(z, bearer[z])
                           /\ PutAt'[Custody(z)] = Parked(z, bearer'[z])
    <2> SUFFICES ASSUME NEW z \in ZapHashes
                 PROVE  /\ Custody(z) \in Places
                        /\ PutAt[Custody(z)] = Parked(z, bearer[z])
                        /\ PutAt'[Custody(z)] = Parked(z, bearer'[z])
      OBVIOUS
    <2>1. Custody(z) \in Places \ SharePlaces /\ Custody(z)[2] = z
      BY <1>3, <1>4
    <2> QED
      BY <1>5, <2>1
  <1>8. \A k \in Places : \/ \E key \in KeyNotes : k = <<"share", key>>
                        \/ \E z \in ZapHashes : k = Custody(z)
    BY <1>2, <1>4
  <1>9. \A key \in KeyNotes, z \in ZapHashes : <<"share", key>> # Custody(z)
    BY <1>1, <1>3
  <1> QED
    BY <1>6, <1>7, <1>8, <1>9

LEMMA DestinationsOf ==
  ASSUME NEW z \in ZapHashes
  PROVE  /\ Destinations(z) \in SUBSET Places
         /\ \A key \in KeyNotes :
              <<"share", key>> \in Destinations(z) <=> zrow[z].cx1 = NoShare \/ key[1] = zrow[z].cx1
         /\ Custody(z) \in Destinations(z) <=> zrow[z].cx1 = NoShare
  BY DEF Destinations, Places, SharePlaces, Custody

\* A free key of the share, or, without one, the mint's custody.
LEMMA ZapsHaveRoom == ZapInv /\ PaymentsHaveRows => Promise!Room
  <1> SUFFICES ASSUME ZapInv, PaymentsHaveRows,
                      NEW z \in ZapHashes \union Gifts, Stages[z] \in {"offered", "paid"}
               PROVE  \E k \in Promised[z] : PutAt[k] = {}
    BY DEF Promise!Room
  <1>1. Stage(z) \in {"offered", "paid"} /\ Promised[z] = Destinations(z)
    BY DEF Stages, Promised
  <1>2. z \in ZapHashes /\ ~Minted(z) /\ zrow[z].state # "none" /\ z \in cast.zaps
    BY <1>1 DEF Stage, Minted, PaymentsHaveRows
  <1>3. KeysOf(z) = {} /\ bearer[z] = 0
    BY <1>2 DEF ZapInv, Credit, PaymentsAreHeld
  <1>4. CASE zrow[z].cx1 = NoShare
    BY <1>1, <1>2, <1>3, <1>4, DestinationsOf, PutAtPlaces DEF Parked
  <1>5. CASE zrow[z].cx1 # NoShare
    <2>1. zrow[z].cx1 \in Shares
      BY <1>2, <1>5 DEF ZapInv, ZapTypes, ZapRows, AnyShare
    <2>2. PICK i \in 0..MaxIndex : minted[<<zrow[z].cx1, i>>] = {}
      BY <1>2, <1>3, <2>1, KeysRunOut DEF ZapInv, Credit, KeyMet, KeyInUse
    <2>3. PICK key \in KeyNotes : key = <<zrow[z].cx1, i>> /\ key[1] = zrow[z].cx1
      BY <2>1, KeyPairs
    <2>4. <<"share", key>> \in Promised[z]
      BY <1>1, <1>2, <2>3, DestinationsOf
    <2>5. PutAt[<<"share", key>>] = {}
      BY <2>2, <2>3, PutAtPlaces
    <2> QED
      BY <2>4, <2>5
  <1> QED
    BY <1>4, <1>5

\* The zaps' invoices: offered, paid, or swept unpaid.
LEMMA InvoicesKeepThePromise ==
  ASSUME ZapInv, PaymentsHaveRows, NEW z \in cast.zaps,
         \/ \E c \in zcalls : RecordZapInvoice(c, z)
         \/ PayZap(z) \/ ZapSweepDeletes(z)
  PROVE  Promise!Next
  <1>z. z \in ZapHashes /\ ZapHashes \intersect Gifts = {}
    BY CastZaps, ZapAssumption
  <1>1. UNCHANGED <<minted, bearer, gift>>
    BY DEF RecordZapInvoice, PayZap, ZapSweepDeletes
  <1>2. PutAt' = PutAt
    BY <1>1 DEF PutAt
  <1>3. \A p \in (ZapHashes \union Gifts) \ {z} : Stage(p)' = Stage(p) /\ Promised'[p] = Promised[p]
    <2>1. \A p \in ZapHashes \ {z} : zrow'[p] = zrow[p] /\ (p \in zapPaid' <=> p \in zapPaid)
      BY <1>z DEF RecordZapInvoice, PayZap, ZapSweepDeletes, ZapInv, ZapTypes
    <2>2. \A p \in (ZapHashes \union Gifts) \ {z} : Stage(p)' = Stage(p)
      BY <1>1, <2>1 DEF Stage
    <2>3. \A p \in ZapHashes \ {z} : Destinations(p)' = Destinations(p)
      BY <2>1 DEF Destinations
    <2>4. \A p \in Gifts : Stage(p) \notin {"offered", "paid"}
      BY DEF Stage
    <2> QED
      BY <2>2, <2>3, <2>4 DEF Promised
  <1>4. ASSUME NEW c \in zcalls, RecordZapInvoice(c, z) PROVE Promise!Offer(z)
    <2>1. Stage(z) = "none" /\ Stage(z)' = "offered"
      BY <1>z, <1>4 DEF RecordZapInvoice, Stage, PaymentsHaveRows, Minted, ZapInv, ZapTypes, Credit,
                        RowsAreIssued
    <2>2. Stages' = [Stages EXCEPT ![z] = "offered"] /\ Stages[z] = "none"
      BY <1>z, <1>3, <2>1, StagesMove DEF Stages
    <2>3. PICK d : d = Destinations(z)'
      OBVIOUS
    <2>4. d \in SUBSET Places
      <3>1. SharePlaces \subseteq Places /\ Custody(z) \in Places
        BY <1>z DEF Places
      <3> QED
        BY <2>3, <3>1 DEF Destinations
    <2>5. Promised'[z] = d
      BY <1>z, <2>1, <2>3 DEF Promised
    <2>6. Promised' = [Promised EXCEPT ![z] = d]
      BY <1>z, <1>3, <2>5, PromisedMoves
    <2> QED
      BY <1>2, <2>2, <2>4, <2>6 DEF Promise!Offer
  <1>5. CASE PayZap(z)
    <2>1. Stage(z) = "offered" /\ Stage(z)' = "paid" /\ zrow' = zrow
      BY <1>z, <1>5 DEF PayZap, Stage, PaymentsHaveRows, Minted, ZapInv, ZapTypes, ZapRows
    <2>2. Stages' = [Stages EXCEPT ![z] = "paid"] /\ Stages[z] = "offered"
      BY <1>z, <1>3, <2>1, StagesMove DEF Stages
    <2>3. Promised'[z] = Promised[z]
      BY <1>z, <2>1 DEF Promised, Destinations
    <2>4. Promised' = Promised
      BY <1>3, <2>3 DEF Promised
    <2>5. Promise!Pay(z)
      BY <1>2, <2>2, <2>4 DEF Promise!Pay
    <2> QED
      BY <1>z, <2>5 DEF Promise!Next
  <1>6. CASE ZapSweepDeletes(z)
    <2>1. Stage(z) = "offered" /\ Stage(z)' = "none"
      BY <1>z, <1>6 DEF ZapSweepDeletes, StaleZap, NoZapRow, Stage, ZapInv, ZapTypes
    <2>2. Stages' = [Stages EXCEPT ![z] = "none"] /\ Stages[z] = "offered"
      BY <1>z, <1>3, <2>1, StagesMove DEF Stages
    <2>3. Promised'[z] = {}
      BY <1>z, <2>1 DEF Promised
    <2>4. Promised' = [Promised EXCEPT ![z] = {}]
      BY <1>z, <1>3, <2>3, PromisedMoves
    <2>5. Promise!Lapse(z)
      BY <1>2, <2>2, <2>4 DEF Promise!Lapse
    <2> QED
      BY <1>z, <2>5 DEF Promise!Next
  <1> QED
    BY <1>z, <1>4, <1>5, <1>6 DEF Promise!Next

\* One thing is put at one free place.
PutsAt(p, k) ==
  /\ k \in Places /\ PutAt[k] = {}
  /\ PutAt' = [PutAt EXCEPT ![k] = {p}]

LEMMA CreditedPuts ==
  ASSUME ZapInv, NEW n, NEW s, NEW x, NEW i, Credited(n, s, x, i), UNCHANGED bearer
  PROVE  PutsAt(x, <<"share", <<s, i>>>>)
  <1>1. <<s, i>> \in KeyNotes /\ minted[<<s, i>>] = {}
    BY KeyPairs DEF Credited
  <1>2. PICK key \in KeyNotes : key = <<s, i>>
    BY <1>1
  <1>3. \A other \in KeyNotes : minted'[other] = IF other = key THEN {x} ELSE minted[other]
    BY <1>2 DEF Credited, ZapInv, ZapTypes
  <1>4. <<"share", key>> \in Places /\ PutAt[<<"share", key>>] = {} /\ PutAt'[<<"share", key>>] = {x}
    BY <1>1, <1>2, <1>3, PutAtPlaces
  <1>5. \A other \in KeyNotes : <<"share", other>> # <<"share", key>>
                                => PutAt'[<<"share", other>>] = PutAt[<<"share", other>>]
    BY <1>3, PutAtPlaces
  <1>6. \A z \in ZapHashes : PutAt'[Custody(z)] = PutAt[Custody(z)]
    BY PutAtPlaces
  <1>7. \A j \in Places \ {<<"share", key>>} : PutAt'[j] = PutAt[j]
    BY <1>5, <1>6, PutAtPlaces
  <1>8. PutAt' = [PutAt EXCEPT ![<<"share", key>>] = {x}]
    BY <1>4, <1>7, PutAtMoves
  <1> QED
    BY <1>2, <1>4, <1>8 DEF PutsAt

LEMMA CustodyPuts ==
  ASSUME ZapInv, NEW z \in ZapHashes, bearer[z] = 0, CreditBearer(z), UNCHANGED minted
  PROVE  PutsAt(z, Custody(z))
  <1>1. \A y \in ZapHashes : bearer'[y] = IF y = z THEN 1 ELSE bearer[y]
    BY DEF CreditBearer, ZapInv, ZapTypes
  <1>2. Custody(z) \in Places /\ PutAt[Custody(z)] = {} /\ PutAt'[Custody(z)] = {z}
    <2>1. Parked(z, bearer[z]) = {} /\ Parked(z, bearer'[z]) = {z}
      BY <1>1 DEF Parked
    <2> QED
      BY <2>1, PutAtPlaces
  <1>3. \A y \in ZapHashes : Custody(y) # Custody(z) => PutAt'[Custody(y)] = PutAt[Custody(y)]
    <2> SUFFICES ASSUME NEW y \in ZapHashes, Custody(y) # Custody(z)
                 PROVE  PutAt'[Custody(y)] = PutAt[Custody(y)]
      OBVIOUS
    <2>1. bearer'[y] = bearer[y]
      BY <1>1
    <2> QED
      BY <2>1, PutAtPlaces
  <1>4. \A key \in KeyNotes : PutAt'[<<"share", key>>] = PutAt[<<"share", key>>]
    BY PutAtPlaces
  <1>5. \A j \in Places \ {Custody(z)} : PutAt'[j] = PutAt[j]
    BY <1>3, <1>4, PutAtPlaces
  <1> QED
    BY <1>2, <1>5, PutAtMoves DEF PutsAt

\* A paid zap is credited where it was promised.
LEMMA SettlesKeepThePromise ==
  ASSUME ZapInv, PaymentsHaveRows, NEW z \in cast.zaps, SettleZap(z), SettleDone(z)
  PROVE  Promise!Next
  <1>z. z \in ZapHashes /\ ZapHashes \intersect Gifts = {}
    BY CastZaps, ZapAssumption
  <1>1. z \in zapPaid /\ UNCHANGED <<zapPaid, gift>> /\ zrow[z].state = "unsettled"
        /\ zrow' = [zrow EXCEPT ![z].state = "settled"]
    BY DEF SettleZap, SettleDone
  <1>2. Stage(z) = "paid" /\ Stage(z)' = "credited"
    BY <1>z, <1>1 DEF Stage, ZapInv, ZapTypes, ZapRows
  <1>3. \A p \in ZapHashes \ {z} : zrow'[p] = zrow[p]
    BY <1>1 DEF ZapInv, ZapTypes
  <1>4. \A p \in (ZapHashes \union Gifts) \ {z} : Stage(p)' = Stage(p)
    BY <1>1, <1>3 DEF Stage
  <1>5. \A p \in (ZapHashes \union Gifts) \ {z} : Promised'[p] = Promised[p]
    <2>1. \A p \in ZapHashes \ {z} : Destinations(p)' = Destinations(p)
      BY <1>3 DEF Destinations
    <2>2. \A p \in Gifts : Stage(p) \notin {"offered", "paid"}
      BY DEF Stage
    <2> QED
      BY <1>4, <2>1, <2>2 DEF Promised
  <1>6. Stages[z] = "paid" /\ Stages' = [Stages EXCEPT ![z] = "credited"]
    BY <1>z, <1>2, <1>4, StagesMove DEF Stages
  <1>7. Promised[z] = Destinations(z) /\ Promised'[z] = {}
    BY <1>z, <1>2 DEF Promised
  <1>8. Promised' = [Promised EXCEPT ![z] = {}]
    BY <1>z, <1>5, <1>7, PromisedMoves
  <1>9. PICK k : k \in Destinations(z) /\ PutsAt(z, k)
    <2>1. ASSUME NEW s \in Shares, NEW i \in 0..MaxIndex, Credited(zrow[z].name, s, z, i),
                 zrow[z].cx1 # NoShare => s = zrow[z].cx1, UNCHANGED bearer
          PROVE  \E k : k \in Destinations(z) /\ PutsAt(z, k)
      <3>1. PICK key \in KeyNotes : key = <<s, i>> /\ key[1] = s
        BY KeyPairs
      <3>2. <<"share", key>> \in Destinations(z)
        BY <1>z, <2>1, <3>1, DestinationsOf
      <3>3. PutsAt(z, <<"share", key>>)
        BY <2>1, <3>1, CreditedPuts
      <3> QED
        BY <3>2, <3>3
    <2>2. ASSUME zrow[z].cx1 = NoShare, CreditBearer(z), UNCHANGED minted
          PROVE  \E k : k \in Destinations(z) /\ PutsAt(z, k)
      <3>1. bearer[z] = 0
        BY <1>z, <1>1 DEF ZapInv, Credit, PaymentsAreHeld, Minted
      <3>2. Custody(z) \in Destinations(z)
        BY <1>z, <2>2, DestinationsOf
      <3>3. PutsAt(z, Custody(z))
        BY <1>z, <2>2, <3>1, CustodyPuts
      <3> QED
        BY <3>2, <3>3
    <2> QED
      BY <2>1, <2>2 DEF SettleDone
  <1>10. Promise!Credit(z)
    BY <1>6, <1>7, <1>8, <1>9 DEF PutsAt, Promise!Credit, Promise!Put
  <1> QED
    BY <1>z, <1>10 DEF Promise!Next

LEMMA TransfersKeepThePromise ==
  ASSUME ZapInv, NEW c \in zcalls, Transfer(c), TransferDone(c)
  PROVE  Promise!Next
  <1>1. PICK g \in Gifts : g = c.gift /\ KeysOf(g) = {} /\ gift' = [gift EXCEPT ![g] = "burned"]
    BY DEF TransferDone
  <1>2. UNCHANGED <<zrow, zapPaid, bearer>> /\ ZapHashes \intersect Gifts = {}
    BY ZapAssumption DEF Transfer
  <1>3. gift[g] # "burned"
    BY <1>1 DEF ZapInv, Credit, PaymentsAreHeld
  <1>4. Stage(g) = "none" /\ Stage(g)' = "credited"
    BY <1>1, <1>3 DEF Stage, ZapInv, ZapTypes
  <1>5. \A p \in (ZapHashes \union Gifts) \ {g} : Stage(p)' = Stage(p)
    BY <1>1, <1>2 DEF Stage, ZapInv, ZapTypes
  <1>6. Stages[g] = "none" /\ Stages' = [Stages EXCEPT ![g] = "credited"]
    BY <1>4, <1>5, StagesMove DEF Stages
  <1>7. \A p \in (ZapHashes \union Gifts) \ {g} : Promised'[p] = Promised[p]
    BY <1>2, <1>5 DEF Promised, Destinations
  <1>8. Promised'[g] = {}
    BY <1>4 DEF Promised
  <1>9. Promised' = [Promised EXCEPT ![g] = {}]
    BY <1>7, <1>8, PromisedMoves
  <1>10. PICK k : PutsAt(g, k)
    BY <1>1, <1>2, CreditedPuts DEF TransferDone
  <1>11. Promise!HandOver(g)
    BY <1>6, <1>9, <1>10 DEF PutsAt, Promise!HandOver, Promise!Put
  <1> QED
    BY <1>11 DEF Promise!Next

LEMMA WalletsKeepThePromise ==
  ASSUME ZapInv, NEW own \in cast.own, WalletStep(own), WalletPuts(own)
  PROVE  Promise!Next
  <1>1. own \in KeyNotes /\ UNCHANGED <<zrow, zapPaid, bearer, gift>> /\ minted[own] = {}
    BY WalletSteps DEF WalletPuts
  <1>2. UNCHANGED <<Stages, Promised>>
    BY <1>1 DEF Stages, Promised, Stage, Destinations
  <1>3. \A key \in KeyNotes : minted'[key] = IF key = own THEN {Wallet} ELSE minted[key]
    BY <1>1 DEF WalletPuts, ZapInv, ZapTypes
  <1>4. <<"share", own>> \in Places /\ PutAt[<<"share", own>>] = {}
        /\ PutAt'[<<"share", own>>] = {Wallet}
    BY <1>1, <1>3, PutAtPlaces
  <1>5. \A key \in KeyNotes : <<"share", key>> # <<"share", own>>
                                => PutAt'[<<"share", key>>] = PutAt[<<"share", key>>]
    BY <1>3, PutAtPlaces
  <1>6. \A z \in ZapHashes : PutAt'[Custody(z)] = PutAt[Custody(z)]
    BY <1>1, PutAtPlaces
  <1>7. \A j \in Places \ {<<"share", own>>} : PutAt'[j] = PutAt[j]
    BY <1>5, <1>6, PutAtPlaces
  <1>8. PutAt' = [PutAt EXCEPT ![<<"share", own>>] = {Wallet}]
    BY <1>4, <1>7, PutAtMoves
  <1>9. Promise!Use
    BY <1>2, <1>4, <1>8 DEF Promise!Use
  <1> QED
    BY <1>9 DEF Promise!Next

\* Nothing is seen of the clock, of publishing, and of the rest.
LEMMA StuttersOfThePromise ==
  ASSUME ZapInv, \/ UNCHANGED creditVars
                 \/ \E z \in cast.zaps : ZapExpires(z) \/ Marks(z)
  PROVE  UNCHANGED <<Stages, Promised, PutAt>>
  <1>1. CASE UNCHANGED <<zrow, zapPaid, minted, bearer, gift>>
    BY <1>1 DEF Stages, Promised, PutAt, Stage, Destinations
  <1>2. ASSUME NEW z \in cast.zaps, Marks(z) PROVE UNCHANGED <<Stages, Promised, PutAt>>
    <2>1. UNCHANGED PutAt
      BY <1>2 DEF Marks, PutAt
    <2>2. /\ \A p \in ZapHashes \ {z} : zrow'[p] = zrow[p]
          /\ Minted(z) /\ Minted(z)' /\ z \in ZapHashes
      BY <1>2 DEF Marks, Minted, ZapInv, ZapTypes, ZapRows
    <2>3. \A p \in ZapHashes \union Gifts : Stage(p)' = Stage(p)
      BY <1>2, <2>2 DEF Marks, Minted, Stage
    <2>4. \A p \in ZapHashes \union Gifts :
            Stage(p) \in {"offered", "paid"} => p \in ZapHashes \ {z}
      BY <2>2, ZapAssumption DEF Stage, Minted
    <2>5. \A p \in ZapHashes \ {z} : Destinations(p)' = Destinations(p)
      BY <2>2 DEF Destinations
    <2>6. UNCHANGED Stages
      BY <2>3 DEF Stages
    <2>7. UNCHANGED Promised
      BY <2>3, <2>4, <2>5 DEF Promised
    <2> QED
      BY <2>1, <2>6, <2>7
  <1> QED
    BY <1>1, <1>2 DEF creditVars, ZapExpires

\* Whatever the registry does to names and shares meanwhile, a zap that was
\* paid is credited at most once and where it was promised, is not forgotten
\* before, and always finds a free key; a gift is credited as it is burned
\* (zap.ts, settleZapInvoiceToKey and transferToShare).
THEOREM TheBridgeKeepsThePromise == Spec => KeepsTheZapPromise
  <1>1. ASSUME Init PROVE Promise!Init
    <2>1. \A p \in ZapHashes \union Gifts : Stage(p) = "none"
      BY <1>1 DEF Init, Stage, NoZapRow
    <2>2. \A k \in Places : PutAt[k] = {}
      <3>1. (\A key \in KeyNotes : minted[key] = {}) /\ (\A z \in ZapHashes : bearer[z] = 0)
        BY <1>1 DEF Init
      <3>2. \A key \in KeyNotes : PutAt[<<"share", key>>] = {}
        BY <3>1, PutAtPlaces
      <3>3. \A z \in ZapHashes : PutAt[Custody(z)] = {}
        BY <3>1, PutAtPlaces DEF Parked
      <3> QED
        BY <3>2, <3>3, PutAtPlaces
    <2>3. PutAt = [k \in Places |-> PutAt[k]]
      BY DEF PutAt
    <2>4. PutAt = [k \in Places |-> {}]
      BY <2>2, <2>3
    <2> QED
      BY <2>1, <2>4 DEF Promise!Init, Stages, Promised
  <1>2. ASSUME Init PROVE PaymentsHaveRows
    BY <1>2 DEF Init, PaymentsHaveRows, Minted, NoZapRow
  <1>3. ZapInv /\ PaymentsHaveRows /\ [Next]_vars => PaymentsHaveRows'
    BY RowsOfPaymentsStay
  <1>4. ASSUME ZapInv, PaymentsHaveRows, [Next]_vars
        PROVE  [Promise!Next]_Promise!promiseVars
    <2>1. ASSUME NEW c \in zcalls, NEW z \in cast.zaps, RecordZapInvoice(c, z) PROVE Promise!Next
      BY <1>4, <2>1, InvoicesKeepThePromise
    <2>2. ASSUME NEW z \in cast.zaps, PayZap(z) \/ ZapSweepDeletes(z) PROVE Promise!Next
      BY <1>4, <2>2, InvoicesKeepThePromise
    <2>3. ASSUME NEW z \in cast.zaps, SettleZap(z), SettleDone(z) PROVE Promise!Next
      BY <1>4, <2>3, SettlesKeepThePromise
    <2> QED
      BY <1>4, <2>1, <2>2, <2>3, CreditWays, StuttersOfThePromise, TransfersKeepThePromise,
         WalletsKeepThePromise DEF Promise!promiseVars
  <1> QED
    BY <1>1, <1>2, <1>3, <1>4, ZapsHold, ZapsHaveRoom, PTL
    DEF Spec, KeepsTheZapPromise, Promise!Spec
=============================================================================
