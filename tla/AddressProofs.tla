---------------------------- MODULE AddressProofs ----------------------------
(***************************************************************************)
(* What holds of the address registry for any names, keys, shares, holds   *)
(* and fee notes, and for any number of requests and of crashes.           *)
(***************************************************************************)
EXTENDS Addresses, TLAPS

AnyShare == Shares \union {NoShare}

\* What a cast may do is what the constants allow.
LEMMA CastSets ==
  ASSUME cast \in Casts
  PROVE  /\ cast.names \subseteq Names /\ cast.keys \subseteq Keys /\ cast.shares \subseteq Shares
         /\ cast.holds \subseteq Holds /\ cast.notes \subseteq FeeNotes
  BY AddressAssumption

-----------------------------------------------------------------------------
(* Type correctness.                                                       *)

NameRows == [source : {"none", "env", "self"}, pubkey : Keys \union {NoKey}, cx1 : AnyShare,
             next : Nat]
HoldRows == [state : {"none", "unsettled", "settled"}, name : Names, cx1 : AnyShare]
Calls == [op : {"none", "hold", "buy", "lookup"}, name : Names, key : Keys \union {NoKey},
          cx1 : AnyShare, note : FeeNotes \union {NoNote}, hold : Holds \union {NoHold},
          past : SUBSET Holds]
Passes == [on : BOOLEAN, live : SUBSET Holds, lapsed : SUBSET Holds, old : SUBSET Holds]
Clocks == {"payable", "grace", "lapsed", "dayOld"}

\* The type invariant, with the rows' types named.
AddrTypes ==
  /\ cast \in Casts
  /\ zapName \in [Names -> NameRows]
  /\ accepted \subseteq Shares
  /\ hold \in [Holds -> HoldRows]
  /\ clock \in [Holds -> Clocks]
  /\ feePaid \subseteq Holds
  /\ feeNote \in [FeeNotes -> {"outstanding", "burned"}]
  /\ calls \subseteq Calls
  /\ pass \in Passes

LEMMA TypesAreTypes == AddrTypes => AddrTypeOK
  BY DEF AddrTypeOK, AddrTypes, NameRows, HoldRows, Calls, Passes, Clocks, AnyShare

LEMMA Empties == NoName \in NameRows /\ NoHoldRow \in HoldRows /\ Idle \in Calls /\ NoPass \in Passes
  BY AddressAssumption DEF NoName, NoHoldRow, Idle, NoPass, NameRows, HoldRows, Calls, Passes,
       AnyShare

LEMMA CallFields ==
  ASSUME NEW c \in Calls
  PROVE  /\ \A op \in {"hold", "buy", "lookup"} : [c EXCEPT !.op = op] \in Calls
         /\ \A n \in Names : [c EXCEPT !.name = n] \in Calls
         /\ \A k \in Keys : [c EXCEPT !.key = k] \in Calls
         /\ \A s \in AnyShare : [c EXCEPT !.cx1 = s] \in Calls
         /\ \A t \in FeeNotes : [c EXCEPT !.note = t] \in Calls
         /\ \A h \in Holds : [c EXCEPT !.hold = h] \in Calls
         /\ \A p \in SUBSET Holds : [c EXCEPT !.past = p] \in Calls
  BY DEF Calls

\* The three kinds of request that wait.
LEMMA CallsMade ==
  /\ \A n \in Names, s \in AnyShare, p \in SUBSET Holds :
       [Idle EXCEPT !.op = "hold", !.name = n, !.cx1 = s, !.past = p] \in Calls
  /\ \A n \in Names, k \in Keys, s \in AnyShare, t \in FeeNotes :
       [Idle EXCEPT !.op = "buy", !.name = n, !.key = k, !.cx1 = s, !.note = t] \in Calls
  /\ \A n \in Names, h \in Holds :
       [Idle EXCEPT !.op = "lookup", !.name = n, !.hold = h] \in Calls
  <1>1. ASSUME NEW n \in Names, NEW s \in AnyShare, NEW p \in SUBSET Holds
        PROVE  [Idle EXCEPT !.op = "hold", !.name = n, !.cx1 = s, !.past = p] \in Calls
    BY Empties, CallFields
  <1>2. ASSUME NEW n \in Names, NEW k \in Keys, NEW s \in AnyShare, NEW t \in FeeNotes
        PROVE  [Idle EXCEPT !.op = "buy", !.name = n, !.key = k, !.cx1 = s, !.note = t] \in Calls
    BY Empties, CallFields
  <1>3. ASSUME NEW n \in Names, NEW h \in Holds
        PROVE  [Idle EXCEPT !.op = "lookup", !.name = n, !.hold = h] \in Calls
    BY Empties, CallFields
  <1> QED
    BY <1>1, <1>2, <1>3

LEMMA AddrTypeInit == AddrInit => AddrTypes
  BY Empties DEF AddrInit, AddrTypes, Clocks

\* Each of the store's writes keeps its table in order.
LEMMA NameWrites ==
  ASSUME zapName \in [Names -> NameRows], NEW n \in Names
  PROVE  /\ \A k \in Keys \union {NoKey}, s \in AnyShare :
              Insert(n, k, s) => zapName' \in [Names -> NameRows]
         /\ \A s \in AnyShare : SetZapNameCx1(n, s) => zapName' \in [Names -> NameRows]
         /\ RemoveZapName(n) => zapName' \in [Names -> NameRows]
  <1>1. \A k \in Keys \union {NoKey}, s \in AnyShare :
          [source |-> "self", pubkey |-> k, cx1 |-> s, next |-> 0] \in NameRows
    BY DEF NameRows
  <1>2. \A s \in AnyShare, i \in Nat : [zapName[n] EXCEPT !.cx1 = s, !.next = i] \in NameRows
    BY DEF NameRows
  <1>3. ASSUME NEW s \in AnyShare, SetZapNameCx1(n, s) PROVE zapName' \in [Names -> NameRows]
    <2>1. PICK i \in Nat :
             zapName' = [zapName EXCEPT ![n] = [zapName[n] EXCEPT !.cx1 = s, !.next = i]]
      BY <1>3 DEF SetZapNameCx1, NameRows
    <2> QED
      BY <1>2, <2>1
  <1> QED
    BY <1>1, <1>3, Empties DEF Insert, RemoveZapName

LEMMA ShareSet ==
  ASSUME zapName \in [Names -> NameRows], NEW n \in Names, NEW s \in AnyShare, SetZapNameCx1(n, s)
  PROVE  zapName'[n].cx1 = s /\ zapName' = [zapName EXCEPT ![n] = zapName'[n]]
  BY DEF SetZapNameCx1, NameRows

LEMMA AcceptWrites ==
  ASSUME accepted \subseteq Shares, NEW s \in AnyShare, Accept(s)
  PROVE  accepted' \subseteq Shares
  BY DEF Accept, AnyShare

LEMMA HoldWrites ==
  ASSUME zapName \in [Names -> NameRows], hold \in [Holds -> HoldRows], NEW h \in Holds
  PROVE  /\ CompleteHold(h) => zapName' \in [Names -> NameRows] /\ hold' \in [Holds -> HoldRows]
         /\ SettleHold(h) => zapName' \in [Names -> NameRows] /\ hold' \in [Holds -> HoldRows]
         /\ DeleteUnsettledHold(h) => hold' \in [Holds -> HoldRows]
  <1>1. [hold[h] EXCEPT !.state = "settled"] \in HoldRows /\ hold[h].name \in Names /\ hold[h].cx1 \in AnyShare
    BY DEF HoldRows
  <1>2. ASSUME CompleteHold(h)
        PROVE  zapName' \in [Names -> NameRows] /\ hold' \in [Holds -> HoldRows]
    <2>1. hold' = [hold EXCEPT ![h] = [hold[h] EXCEPT !.state = "settled"]]
      BY <1>2 DEF CompleteHold
    <2>2. zapName' = zapName \/ Insert(hold[h].name, NoKey, hold[h].cx1)
      BY <1>2 DEF CompleteHold
    <2>3. zapName' \in [Names -> NameRows]
      BY <1>1, <2>2, NameWrites
    <2> QED
      BY <1>1, <2>1, <2>3
  <1> QED
    BY <1>2, Empties DEF SettleHold, DeleteUnsettledHold

LEMMA TurnTypes ==
  ASSUME pass \in Passes, NEW h \in Holds, PassTurn(h)
  PROVE  pass' \in Passes
  BY DEF PassTurn, Passes

\* Every step is one of these, of actors the constants know.
LEMMA Steps ==
  ASSUME cast \in Casts, [AddrNext]_addrVars
  PROVE  \/ \E n \in Names : UnregisterAddress(n)
         \/ \E n \in Names : OperatorRemoves(n)
         \/ \E n \in Names : \E s \in Shares : RegisterShareName(n, s)
         \/ \E n \in Names : \E s \in Shares : AskFee(n, s)
         \/ \E n \in Names : \E s \in Shares : MoveShare(n, s)
         \/ \E n \in Names : \E k \in Keys : PutOperatorZapName(n, k)
         \/ \E k \in Keys : \E n \in Names : \E a \in AnyShare : OwnerSetsShare(k, n, a)
         \/ \E k \in Keys : \E n \in Names : \E a \in AnyShare : ClaimFree(k, n, a)
         \/ \E k \in Keys : \E n \in Names : \E a \in AnyShare : \E t \in FeeNotes : OfferNote(k, n, a, t)
         \/ \E n \in Names : \E h \in Holds : LookUpHeld(n, h)
         \/ \E c \in calls : BuyZapName(c)
         \/ \E c \in calls : LookUpFindsPaid(c)
         \/ \E c \in calls : CallFails(c)
         \/ \E c \in calls : \E h \in Holds : HoldAddress(c, h)
         \/ \E h \in Holds : PayFee(h)
         \/ \E h \in Holds : Elapse(h)
         \/ \E h \in Holds : \E t \in FeeNotes : PayHoldWithNote(h, t)
         \/ \E t \in FeeNotes : SpendFeeNote(t)
         \/ PassStart
         \/ \E h \in Holds : PassFindsPaid(h)
         \/ \E h \in Holds : PassFindsUnpaid(h)
         \/ \E h \in Holds : PassHearsNothing(h)
         \/ PassEnd
         \/ AddrCrash
         \/ UNCHANGED addrVars
  BY CastSets DEF AddrNext, NameStep, CallStep, FeeStep, PassStep, AnyShare

LEMMA AddrTypeStep == AddrTypes /\ [AddrNext]_addrVars => AddrTypes'
  <1> SUFFICES ASSUME AddrTypes, [AddrNext]_addrVars PROVE AddrTypes'
    OBVIOUS
  <1> USE AddressAssumption DEF AddrTypes, nameVars
  <1>1. ASSUME NEW n \in Names, UnregisterAddress(n) PROVE AddrTypes'
    BY <1>1, NameWrites DEF UnregisterAddress, AnyShare
  <1>2. ASSUME NEW n \in Names, OperatorRemoves(n) PROVE AddrTypes'
    BY <1>2, NameWrites DEF OperatorRemoves
  <1>3. ASSUME NEW n \in Names, NEW s \in Shares, RegisterShareName(n, s) PROVE AddrTypes'
    BY <1>3, NameWrites, AcceptWrites DEF RegisterShareName, AnyShare
  <1>4. ASSUME NEW n \in Names, NEW s \in Shares, AskFee(n, s) PROVE AddrTypes'
    <2>1. [Idle EXCEPT !.op = "hold", !.name = n, !.cx1 = s, !.past = Past] \in Calls
      BY CallsMade DEF AnyShare, Past
    <2> QED
      BY <1>4, <2>1 DEF AskFee, Waits
  <1>5. ASSUME NEW n \in Names, NEW s \in Shares, MoveShare(n, s) PROVE AddrTypes'
    BY <1>5, NameWrites, AcceptWrites DEF MoveShare, AnyShare
  <1>6. ASSUME NEW n \in Names, NEW k \in Keys, PutOperatorZapName(n, k) PROVE AddrTypes'
    BY <1>6 DEF PutOperatorZapName, NameRows, AnyShare
  <1>7. ASSUME NEW k \in Keys, NEW n \in Names, NEW a \in AnyShare, OwnerSetsShare(k, n, a)
        PROVE  AddrTypes'
    BY <1>7, NameWrites, AcceptWrites DEF OwnerSetsShare
  <1>8. ASSUME NEW k \in Keys, NEW n \in Names, NEW a \in AnyShare, ClaimFree(k, n, a)
        PROVE  AddrTypes'
    BY <1>8, NameWrites, AcceptWrites DEF ClaimFree
  <1>9. ASSUME NEW k \in Keys, NEW n \in Names, NEW a \in AnyShare, NEW t \in FeeNotes,
       OfferNote(k, n, a, t)
        PROVE  AddrTypes'
    <2>1. [Idle EXCEPT !.op = "buy", !.name = n, !.key = k, !.cx1 = a, !.note = t] \in Calls
      BY CallsMade
    <2> QED
      BY <1>9, <2>1 DEF OfferNote, Waits
  <1>10. ASSUME NEW n \in Names, NEW h \in Holds, LookUpHeld(n, h) PROVE AddrTypes'
    <2>1. [Idle EXCEPT !.op = "lookup", !.name = n, !.hold = h] \in Calls
      BY CallsMade
    <2> QED
      BY <1>10, <2>1 DEF LookUpHeld, Waits
  <1>11. ASSUME NEW c \in calls, BuyZapName(c) PROVE AddrTypes'
    BY <1>11, NameWrites, AcceptWrites DEF BuyZapName, Done, Calls
  <1>12. ASSUME NEW c \in calls, LookUpFindsPaid(c) PROVE AddrTypes'
    BY <1>12, HoldWrites DEF LookUpFindsPaid, Done, Calls
  <1>13. ASSUME NEW c \in calls, CallFails(c) PROVE AddrTypes'
    BY <1>13 DEF CallFails, Done, Calls
  <1>14. ASSUME NEW c \in calls, NEW h \in Holds, HoldAddress(c, h) PROVE AddrTypes'
    BY <1>14, AcceptWrites DEF HoldAddress, Done, Calls, AcceptHeld, HoldRows
  <1>15. ASSUME NEW h \in Holds, PayFee(h) PROVE AddrTypes'
    BY <1>15 DEF PayFee
  <1>16. ASSUME NEW h \in Holds, Elapse(h) PROVE AddrTypes'
    BY <1>16 DEF Elapse, Later, Clocks
  <1>17. ASSUME NEW h \in Holds, NEW t \in FeeNotes, PayHoldWithNote(h, t) PROVE AddrTypes'
    BY <1>17, HoldWrites DEF PayHoldWithNote
  <1>18. ASSUME NEW t \in FeeNotes, SpendFeeNote(t) PROVE AddrTypes'
    BY <1>18 DEF SpendFeeNote
  <1>19. CASE PassStart
    BY <1>19 DEF PassStart, Passes, Unsettled
  <1>20. ASSUME NEW h \in Holds, PassFindsPaid(h) PROVE AddrTypes'
    BY <1>20, HoldWrites, TurnTypes DEF PassFindsPaid
  <1>21. ASSUME NEW h \in Holds, PassFindsUnpaid(h) PROVE AddrTypes'
    BY <1>21, HoldWrites, TurnTypes DEF PassFindsUnpaid
  <1>22. ASSUME NEW h \in Holds, PassHearsNothing(h) PROVE AddrTypes'
    BY <1>22, HoldWrites, TurnTypes DEF PassHearsNothing
  <1>23. CASE PassEnd
    BY <1>23, Empties DEF PassEnd
  <1>24. CASE AddrCrash
    BY <1>24, Empties DEF AddrCrash
  <1>25. CASE UNCHANGED addrVars
    BY <1>25 DEF addrVars
  <1> QED
    BY <1>1, <1>2, <1>3, <1>4, <1>5, <1>6, <1>7, <1>8, <1>9, <1>10, <1>11, <1>12, <1>13, <1>14,
         <1>15, <1>16, <1>17, <1>18, <1>19, <1>20, <1>21, <1>22, <1>23, <1>24, <1>25, Steps

-----------------------------------------------------------------------------
(* Whom a name pays.                                                       *)

\* A waiting request knows who is to be paid, and its time has gone by.
CallsKnow ==
  \A c \in calls : /\ c.op = "buy" => c.key \in Keys
                   /\ c.op = "hold" => c.cx1 \in Shares
                   /\ c.past \subseteq Past

HoldsHaveShares == \A h \in Holds : hold[h].state = "unsettled" => hold[h].cx1 \in Shares

PayeeInv == AddrTypes /\ CallsKnow /\ HoldsHaveShares /\ EveryNameHasAPayee

LEMMA PayeeInit == AddrInit => PayeeInv
  BY AddrTypeInit DEF PayeeInv, AddrInit, CallsKnow, HoldsHaveShares, EveryNameHasAPayee,
    NoHoldRow, NoName, Registered

LEMMA CallsStep == PayeeInv /\ [AddrNext]_addrVars => CallsKnow'
  <1> SUFFICES ASSUME PayeeInv, [AddrNext]_addrVars PROVE CallsKnow'
    OBVIOUS
  <1>t. AddrTypes /\ CallsKnow
    BY DEF PayeeInv
  <1> USE <1>t DEF CallsKnow, AddrTypes, nameVars, Past
  <1>1. ASSUME NEW n \in Names, UnregisterAddress(n) PROVE CallsKnow'
    BY <1>1 DEF UnregisterAddress
  <1>2. ASSUME NEW n \in Names, OperatorRemoves(n) PROVE CallsKnow'
    BY <1>2 DEF OperatorRemoves
  <1>3. ASSUME NEW n \in Names, NEW s \in Shares, RegisterShareName(n, s) PROVE CallsKnow'
    BY <1>3 DEF RegisterShareName
  <1>4. ASSUME NEW n \in Names, NEW s \in Shares, AskFee(n, s) PROVE CallsKnow'
    <2>1. PICK c : /\ c = [Idle EXCEPT !.op = "hold", !.name = n, !.cx1 = s, !.past = Past]
                   /\ calls' = calls \union {c}
      BY <1>4 DEF AskFee, Waits
    <2>2. c.op = "hold" /\ c.cx1 = s /\ c.past = Past
      BY <2>1 DEF Idle
    <2> QED
      BY <1>4, <2>1, <2>2 DEF AskFee
  <1>5. ASSUME NEW n \in Names, NEW s \in Shares, MoveShare(n, s) PROVE CallsKnow'
    BY <1>5 DEF MoveShare
  <1>6. ASSUME NEW n \in Names, NEW k \in Keys, PutOperatorZapName(n, k) PROVE CallsKnow'
    BY <1>6 DEF PutOperatorZapName
  <1>7. ASSUME NEW k \in Keys, NEW n \in Names, NEW a \in AnyShare, OwnerSetsShare(k, n, a)
        PROVE  CallsKnow'
    BY <1>7 DEF OwnerSetsShare
  <1>8. ASSUME NEW k \in Keys, NEW n \in Names, NEW a \in AnyShare, ClaimFree(k, n, a)
        PROVE  CallsKnow'
    BY <1>8 DEF ClaimFree
  <1>9. ASSUME NEW k \in Keys, NEW n \in Names, NEW a \in AnyShare, NEW t \in FeeNotes,
       OfferNote(k, n, a, t)
        PROVE  CallsKnow'
    <2>1. PICK c : /\ c = [Idle EXCEPT !.op = "buy", !.name = n, !.key = k, !.cx1 = a, !.note = t]
                   /\ calls' = calls \union {c}
      BY <1>9 DEF OfferNote, Waits
    <2>2. c.op = "buy" /\ c.key = k /\ c.past = {}
      BY <2>1 DEF Idle
    <2> QED
      BY <1>9, <2>1, <2>2 DEF OfferNote
  <1>10. ASSUME NEW n \in Names, NEW h \in Holds, LookUpHeld(n, h) PROVE CallsKnow'
    BY <1>10 DEF LookUpHeld, Waits, Idle
  <1>11. ASSUME NEW c \in calls, BuyZapName(c) PROVE CallsKnow'
    BY <1>11 DEF BuyZapName, Done
  <1>12. ASSUME NEW c \in calls, LookUpFindsPaid(c) PROVE CallsKnow'
    BY <1>12 DEF LookUpFindsPaid, Done
  <1>13. ASSUME NEW c \in calls, CallFails(c) PROVE CallsKnow'
    BY <1>13 DEF CallFails, Done
  <1>14. ASSUME NEW c \in calls, NEW h \in Holds, HoldAddress(c, h) PROVE CallsKnow'
    BY <1>14 DEF HoldAddress, Done
  <1>15. ASSUME NEW h \in Holds, PayFee(h) PROVE CallsKnow'
    BY <1>15 DEF PayFee
  <1>16. ASSUME NEW h \in Holds, Elapse(h) PROVE CallsKnow'
    BY <1>16 DEF Elapse, Later, Clocks
  <1>17. ASSUME NEW h \in Holds, NEW t \in FeeNotes, PayHoldWithNote(h, t) PROVE CallsKnow'
    BY <1>17 DEF PayHoldWithNote
  <1>18. ASSUME NEW t \in FeeNotes, SpendFeeNote(t) PROVE CallsKnow'
    BY <1>18 DEF SpendFeeNote
  <1>19. CASE PassStart
    BY <1>19 DEF PassStart
  <1>20. ASSUME NEW h \in Holds, PassFindsPaid(h) PROVE CallsKnow'
    BY <1>20 DEF PassFindsPaid
  <1>21. ASSUME NEW h \in Holds, PassFindsUnpaid(h) PROVE CallsKnow'
    BY <1>21 DEF PassFindsUnpaid
  <1>22. ASSUME NEW h \in Holds, PassHearsNothing(h) PROVE CallsKnow'
    BY <1>22 DEF PassHearsNothing
  <1>23. CASE PassEnd
    BY <1>23 DEF PassEnd
  <1>24. CASE AddrCrash
    BY <1>24 DEF AddrCrash
  <1>25. CASE UNCHANGED addrVars
    BY <1>25 DEF addrVars
  <1> QED
    BY <1>1, <1>2, <1>3, <1>4, <1>5, <1>6, <1>7, <1>8, <1>9, <1>10, <1>11, <1>12, <1>13, <1>14,
         <1>15, <1>16, <1>17, <1>18, <1>19, <1>20, <1>21, <1>22, <1>23, <1>24, <1>25, Steps

LEMMA HoldsKeepShares == PayeeInv /\ [AddrNext]_addrVars => HoldsHaveShares'
  <1> SUFFICES ASSUME PayeeInv, [AddrNext]_addrVars PROVE HoldsHaveShares'
    OBVIOUS
  <1>t. AddrTypes /\ CallsKnow /\ HoldsHaveShares
    BY DEF PayeeInv
  <1> USE <1>t DEF CallsKnow, HoldsHaveShares, AddrTypes, nameVars
  <1>1. ASSUME NEW n \in Names, UnregisterAddress(n) PROVE HoldsHaveShares'
    BY <1>1 DEF UnregisterAddress
  <1>2. ASSUME NEW n \in Names, OperatorRemoves(n) PROVE HoldsHaveShares'
    BY <1>2 DEF OperatorRemoves
  <1>3. ASSUME NEW n \in Names, NEW s \in Shares, RegisterShareName(n, s) PROVE HoldsHaveShares'
    BY <1>3 DEF RegisterShareName
  <1>4. ASSUME NEW n \in Names, NEW s \in Shares, AskFee(n, s) PROVE HoldsHaveShares'
    BY <1>4 DEF AskFee
  <1>5. ASSUME NEW n \in Names, NEW s \in Shares, MoveShare(n, s) PROVE HoldsHaveShares'
    BY <1>5 DEF MoveShare
  <1>6. ASSUME NEW n \in Names, NEW k \in Keys, PutOperatorZapName(n, k) PROVE HoldsHaveShares'
    BY <1>6 DEF PutOperatorZapName
  <1>7. ASSUME NEW k \in Keys, NEW n \in Names, NEW a \in AnyShare, OwnerSetsShare(k, n, a)
        PROVE  HoldsHaveShares'
    BY <1>7 DEF OwnerSetsShare
  <1>8. ASSUME NEW k \in Keys, NEW n \in Names, NEW a \in AnyShare, ClaimFree(k, n, a)
        PROVE  HoldsHaveShares'
    BY <1>8 DEF ClaimFree
  <1>9. ASSUME NEW k \in Keys, NEW n \in Names, NEW a \in AnyShare, NEW t \in FeeNotes,
       OfferNote(k, n, a, t)
        PROVE  HoldsHaveShares'
    BY <1>9 DEF OfferNote
  <1>10. ASSUME NEW n \in Names, NEW h \in Holds, LookUpHeld(n, h) PROVE HoldsHaveShares'
    BY <1>10 DEF LookUpHeld
  <1>11. ASSUME NEW c \in calls, BuyZapName(c) PROVE HoldsHaveShares'
    BY <1>11 DEF BuyZapName
  <1>12. ASSUME NEW c \in calls, LookUpFindsPaid(c) PROVE HoldsHaveShares'
    BY <1>12 DEF LookUpFindsPaid, SettleHold, CompleteHold, DeleteUnsettledHold, NoHoldRow, HoldRows
  <1>13. ASSUME NEW c \in calls, CallFails(c) PROVE HoldsHaveShares'
    BY <1>13 DEF CallFails
  <1>14. ASSUME NEW c \in calls, NEW h \in Holds, HoldAddress(c, h) PROVE HoldsHaveShares'
    BY <1>14 DEF HoldAddress, SettleHold, CompleteHold, DeleteUnsettledHold, NoHoldRow, HoldRows
  <1>15. ASSUME NEW h \in Holds, PayFee(h) PROVE HoldsHaveShares'
    BY <1>15 DEF PayFee
  <1>16. ASSUME NEW h \in Holds, Elapse(h) PROVE HoldsHaveShares'
    BY <1>16 DEF Elapse
  <1>17. ASSUME NEW h \in Holds, NEW t \in FeeNotes, PayHoldWithNote(h, t) PROVE HoldsHaveShares'
    BY <1>17 DEF PayHoldWithNote, SettleHold, CompleteHold, DeleteUnsettledHold, NoHoldRow, HoldRows
  <1>18. ASSUME NEW t \in FeeNotes, SpendFeeNote(t) PROVE HoldsHaveShares'
    BY <1>18 DEF SpendFeeNote
  <1>19. CASE PassStart
    BY <1>19 DEF PassStart
  <1>20. ASSUME NEW h \in Holds, PassFindsPaid(h) PROVE HoldsHaveShares'
    BY <1>20 DEF PassFindsPaid, SettleHold, CompleteHold, DeleteUnsettledHold, NoHoldRow, HoldRows
  <1>21. ASSUME NEW h \in Holds, PassFindsUnpaid(h) PROVE HoldsHaveShares'
    BY <1>21 DEF PassFindsUnpaid, SettleHold, CompleteHold, DeleteUnsettledHold, NoHoldRow, HoldRows
  <1>22. ASSUME NEW h \in Holds, PassHearsNothing(h) PROVE HoldsHaveShares'
    BY <1>22 DEF PassHearsNothing, SettleHold, CompleteHold, DeleteUnsettledHold, NoHoldRow,
         HoldRows
  <1>23. CASE PassEnd
    BY <1>23 DEF PassEnd
  <1>24. CASE AddrCrash
    BY <1>24 DEF AddrCrash
  <1>25. CASE UNCHANGED addrVars
    BY <1>25 DEF addrVars
  <1> QED
    BY <1>1, <1>2, <1>3, <1>4, <1>5, <1>6, <1>7, <1>8, <1>9, <1>10, <1>11, <1>12, <1>13, <1>14,
         <1>15, <1>16, <1>17, <1>18, <1>19, <1>20, <1>21, <1>22, <1>23, <1>24, <1>25, Steps

LEMMA PayeesStep == PayeeInv /\ [AddrNext]_addrVars => EveryNameHasAPayee'
  <1> SUFFICES ASSUME PayeeInv, [AddrNext]_addrVars PROVE EveryNameHasAPayee'
    OBVIOUS
  <1>t. AddrTypes /\ CallsKnow /\ HoldsHaveShares /\ EveryNameHasAPayee
    BY DEF PayeeInv
  <1> USE <1>t, AddressAssumption
      DEF CallsKnow, HoldsHaveShares, EveryNameHasAPayee, Registered, AddrTypes, NameRows, nameVars
  <1>1. ASSUME NEW n \in Names, UnregisterAddress(n) PROVE EveryNameHasAPayee'
    BY <1>1 DEF UnregisterAddress, SetZapNameCx1, RemoveZapName, NoName
  <1>2. ASSUME NEW n \in Names, OperatorRemoves(n) PROVE EveryNameHasAPayee'
    BY <1>2 DEF OperatorRemoves, RemoveZapName, NoName
  <1>3. ASSUME NEW n \in Names, NEW s \in Shares, RegisterShareName(n, s) PROVE EveryNameHasAPayee'
    BY <1>3 DEF RegisterShareName, Insert
  <1>4. ASSUME NEW n \in Names, NEW s \in Shares, AskFee(n, s) PROVE EveryNameHasAPayee'
    BY <1>4 DEF AskFee
  <1>5. ASSUME NEW n \in Names, NEW s \in Shares, MoveShare(n, s) PROVE EveryNameHasAPayee'
    BY <1>5 DEF MoveShare, SetZapNameCx1
  <1>6. ASSUME NEW n \in Names, NEW k \in Keys, PutOperatorZapName(n, k) PROVE EveryNameHasAPayee'
    BY <1>6 DEF PutOperatorZapName
  <1>7. ASSUME NEW k \in Keys, NEW n \in Names, NEW a \in AnyShare, OwnerSetsShare(k, n, a)
        PROVE  EveryNameHasAPayee'
    BY <1>7 DEF OwnerSetsShare, SetZapNameCx1
  <1>8. ASSUME NEW k \in Keys, NEW n \in Names, NEW a \in AnyShare, ClaimFree(k, n, a)
        PROVE  EveryNameHasAPayee'
    BY <1>8 DEF ClaimFree, Insert
  <1>9. ASSUME NEW k \in Keys, NEW n \in Names, NEW a \in AnyShare, NEW t \in FeeNotes,
       OfferNote(k, n, a, t)
        PROVE  EveryNameHasAPayee'
    BY <1>9 DEF OfferNote
  <1>10. ASSUME NEW n \in Names, NEW h \in Holds, LookUpHeld(n, h) PROVE EveryNameHasAPayee'
    BY <1>10 DEF LookUpHeld
  <1>11. ASSUME NEW c \in calls, BuyZapName(c) PROVE EveryNameHasAPayee'
    BY <1>11 DEF BuyZapName, Insert
  <1>12. ASSUME NEW c \in calls, LookUpFindsPaid(c) PROVE EveryNameHasAPayee'
    BY <1>12 DEF LookUpFindsPaid, SettleHold, CompleteHold, Insert
  <1>13. ASSUME NEW c \in calls, CallFails(c) PROVE EveryNameHasAPayee'
    BY <1>13 DEF CallFails
  <1>14. ASSUME NEW c \in calls, NEW h \in Holds, HoldAddress(c, h) PROVE EveryNameHasAPayee'
    BY <1>14 DEF HoldAddress
  <1>15. ASSUME NEW h \in Holds, PayFee(h) PROVE EveryNameHasAPayee'
    BY <1>15 DEF PayFee
  <1>16. ASSUME NEW h \in Holds, Elapse(h) PROVE EveryNameHasAPayee'
    BY <1>16 DEF Elapse
  <1>17. ASSUME NEW h \in Holds, NEW t \in FeeNotes, PayHoldWithNote(h, t) PROVE EveryNameHasAPayee'
    BY <1>17 DEF PayHoldWithNote, SettleHold, CompleteHold, Insert
  <1>18. ASSUME NEW t \in FeeNotes, SpendFeeNote(t) PROVE EveryNameHasAPayee'
    BY <1>18 DEF SpendFeeNote
  <1>19. CASE PassStart
    BY <1>19 DEF PassStart
  <1>20. ASSUME NEW h \in Holds, PassFindsPaid(h) PROVE EveryNameHasAPayee'
    BY <1>20 DEF PassFindsPaid, SettleHold, CompleteHold, Insert
  <1>21. ASSUME NEW h \in Holds, PassFindsUnpaid(h) PROVE EveryNameHasAPayee'
    BY <1>21 DEF PassFindsUnpaid
  <1>22. ASSUME NEW h \in Holds, PassHearsNothing(h) PROVE EveryNameHasAPayee'
    BY <1>22 DEF PassHearsNothing
  <1>23. CASE PassEnd
    BY <1>23 DEF PassEnd
  <1>24. CASE AddrCrash
    BY <1>24 DEF AddrCrash
  <1>25. CASE UNCHANGED addrVars
    BY <1>25 DEF addrVars
  <1> QED
    BY <1>1, <1>2, <1>3, <1>4, <1>5, <1>6, <1>7, <1>8, <1>9, <1>10, <1>11, <1>12, <1>13, <1>14,
         <1>15, <1>16, <1>17, <1>18, <1>19, <1>20, <1>21, <1>22, <1>23, <1>24, <1>25, Steps

LEMMA PayeeStep == PayeeInv /\ [AddrNext]_addrVars => PayeeInv'
  BY AddrTypeStep, CallsStep, HoldsKeepShares, PayeesStep DEF PayeeInv

-----------------------------------------------------------------------------
(* A name and its hold.                                                    *)

LEMMA NamesInit == AddrInit => LiveHoldKeepsItsName
  BY DEF AddrInit, LiveHoldKeepsItsName, LiveHolds, NoHoldRow

LEMMA SettleNames ==
  ASSUME AddrTypes, LiveHoldKeepsItsName, NEW h \in Holds, SettleHold(h), UNCHANGED clock
  PROVE  LiveHoldKeepsItsName'
  <1>1. CASE UNCHANGED <<hold, zapName>>
    BY <1>1 DEF LiveHoldKeepsItsName, LiveHolds, Registered, Past
  <1>2. CASE hold[h].state = "unsettled" /\ CompleteHold(h)
    <2>1. hold' = [hold EXCEPT ![h] = [hold[h] EXCEPT !.state = "settled"]]
      BY <1>2 DEF CompleteHold
    <2>2. \A n \in Names : LiveHolds(n, Past)' \subseteq LiveHolds(n, Past) \ {h}
      BY <2>1 DEF LiveHolds, Past, AddrTypes, HoldRows
    <2>3. \A n \in Names \ {hold[h].name} : zapName'[n] = zapName[n]
      BY <1>2 DEF CompleteHold, Insert, AddrTypes
    <2>4. hold[h].name \in Names
      BY DEF AddrTypes, HoldRows
    <2>5. LiveHolds(hold[h].name, Past) \ {h} # {} => UNCHANGED zapName
      BY <1>2 DEF CompleteHold
    <2> QED
      BY <2>2, <2>3, <2>4, <2>5 DEF LiveHoldKeepsItsName, Registered
  <1> QED
    BY <1>1, <1>2 DEF SettleHold

LEMMA DeleteNames ==
  ASSUME AddrTypes, LiveHoldKeepsItsName, NEW h \in Holds, UNCHANGED <<clock, zapName>>,
         DeleteUnsettledHold(h) \/ UNCHANGED hold
  PROVE  LiveHoldKeepsItsName'
  <1>1. \A n \in Names : LiveHolds(n, Past)' \subseteq LiveHolds(n, Past)
    BY DEF DeleteUnsettledHold, NoHoldRow, LiveHolds, Past, AddrTypes, HoldRows
  <1> QED
    BY <1>1 DEF LiveHoldKeepsItsName, Registered

LEMMA NamesStep ==
  PayeeInv /\ LiveHoldKeepsItsName /\ [AddrNext]_addrVars => LiveHoldKeepsItsName'
  <1> SUFFICES ASSUME PayeeInv, LiveHoldKeepsItsName, [AddrNext]_addrVars
               PROVE  LiveHoldKeepsItsName'
    OBVIOUS
  <1>t. AddrTypes /\ CallsKnow
    BY DEF PayeeInv
  <1> USE <1>t DEF LiveHoldKeepsItsName, LiveHolds, Registered, Past, AddrTypes, NameRows,
       HoldRows, nameVars
  <1>1. ASSUME NEW n \in Names, UnregisterAddress(n) PROVE LiveHoldKeepsItsName'
    BY <1>1 DEF UnregisterAddress, SetZapNameCx1, RemoveZapName, NoName
  <1>2. ASSUME NEW n \in Names, OperatorRemoves(n) PROVE LiveHoldKeepsItsName'
    BY <1>2 DEF OperatorRemoves, RemoveZapName, NoName
  <1>3. ASSUME NEW n \in Names, NEW s \in Shares, RegisterShareName(n, s)
        PROVE  LiveHoldKeepsItsName'
    BY <1>3 DEF RegisterShareName, Insert, NameTaken, MayClaim, CanBuy
  <1>4. ASSUME NEW n \in Names, NEW s \in Shares, AskFee(n, s) PROVE LiveHoldKeepsItsName'
    BY <1>4 DEF AskFee
  <1>5. ASSUME NEW n \in Names, NEW s \in Shares, MoveShare(n, s) PROVE LiveHoldKeepsItsName'
    BY <1>5 DEF MoveShare, SetZapNameCx1
  <1>6. ASSUME NEW n \in Names, NEW k \in Keys, PutOperatorZapName(n, k) PROVE LiveHoldKeepsItsName'
    BY <1>6 DEF PutOperatorZapName
  <1>7. ASSUME NEW k \in Keys, NEW n \in Names, NEW a \in AnyShare, OwnerSetsShare(k, n, a)
        PROVE  LiveHoldKeepsItsName'
    BY <1>7 DEF OwnerSetsShare, SetZapNameCx1
  <1>8. ASSUME NEW k \in Keys, NEW n \in Names, NEW a \in AnyShare, ClaimFree(k, n, a)
        PROVE  LiveHoldKeepsItsName'
    BY <1>8 DEF ClaimFree, Insert, NameTaken, MayClaim, CanBuy
  <1>9. ASSUME NEW k \in Keys, NEW n \in Names, NEW a \in AnyShare, NEW t \in FeeNotes,
       OfferNote(k, n, a, t)
        PROVE  LiveHoldKeepsItsName'
    BY <1>9 DEF OfferNote
  <1>10. ASSUME NEW n \in Names, NEW h \in Holds, LookUpHeld(n, h) PROVE LiveHoldKeepsItsName'
    BY <1>10 DEF LookUpHeld
  <1>11. ASSUME NEW c \in calls, BuyZapName(c) PROVE LiveHoldKeepsItsName'
    BY <1>11 DEF BuyZapName, Insert, NameTaken, MayClaim, CanBuy
  <1>12. ASSUME NEW c \in calls, LookUpFindsPaid(c) PROVE LiveHoldKeepsItsName'
    BY <1>12, SettleNames DEF LookUpFindsPaid
  <1>13. ASSUME NEW c \in calls, CallFails(c) PROVE LiveHoldKeepsItsName'
    BY <1>13 DEF CallFails
  <1>14. ASSUME NEW c \in calls, NEW h \in Holds, HoldAddress(c, h) PROVE LiveHoldKeepsItsName'
    <2>1. CASE UNCHANGED hold
      BY <1>14, <2>1 DEF HoldAddress
    <2>2. CASE CanHold(c) /\ hold[h].state = "none" /\ ~UNCHANGED hold
      <3>1. hold' = [hold EXCEPT ![h] = [state |-> "unsettled", name |-> c.name, cx1 |-> c.cx1]]
        BY <1>14, <2>2 DEF HoldAddress
      <3>2. LiveHolds(c.name, Past) = {} /\ ~Registered(c.name)
        BY <2>2 DEF CanHold, NameTaken, CallsKnow
      <3>3. \A n \in Names : LiveHolds(n, Past)' \subseteq
              LiveHolds(n, Past) \union (IF n = c.name THEN {h} ELSE {})
        BY <1>14, <3>1 DEF HoldAddress
      <3>4. UNCHANGED zapName
        BY <1>14 DEF HoldAddress
      <3> QED
        BY <3>2, <3>3, <3>4
    <2> QED
      BY <1>14, <2>1, <2>2 DEF HoldAddress
  <1>15. ASSUME NEW h \in Holds, PayFee(h) PROVE LiveHoldKeepsItsName'
    BY <1>15 DEF PayFee
  <1>16. ASSUME NEW h \in Holds, Elapse(h) PROVE LiveHoldKeepsItsName'
    BY <1>16 DEF Elapse, Later, Clocks
  <1>17. ASSUME NEW h \in Holds, NEW t \in FeeNotes, PayHoldWithNote(h, t)
         PROVE  LiveHoldKeepsItsName'
    BY <1>17 DEF PayHoldWithNote, SettleHold, CompleteHold, Insert
  <1>18. ASSUME NEW t \in FeeNotes, SpendFeeNote(t) PROVE LiveHoldKeepsItsName'
    BY <1>18 DEF SpendFeeNote
  <1>19. CASE PassStart
    BY <1>19 DEF PassStart
  <1>20. ASSUME NEW h \in Holds, PassFindsPaid(h) PROVE LiveHoldKeepsItsName'
    BY <1>20, SettleNames DEF PassFindsPaid
  <1>21. ASSUME NEW h \in Holds, PassFindsUnpaid(h) PROVE LiveHoldKeepsItsName'
    BY <1>21, DeleteNames DEF PassFindsUnpaid
  <1>22. ASSUME NEW h \in Holds, PassHearsNothing(h) PROVE LiveHoldKeepsItsName'
    BY <1>22, DeleteNames DEF PassHearsNothing
  <1>23. CASE PassEnd
    BY <1>23 DEF PassEnd
  <1>24. CASE AddrCrash
    BY <1>24 DEF AddrCrash
  <1>25. CASE UNCHANGED addrVars
    BY <1>25 DEF addrVars
  <1> QED
    BY <1>1, <1>2, <1>3, <1>4, <1>5, <1>6, <1>7, <1>8, <1>9, <1>10, <1>11, <1>12, <1>13, <1>14,
         <1>15, <1>16, <1>17, <1>18, <1>19, <1>20, <1>21, <1>22, <1>23, <1>24, <1>25, Steps

-----------------------------------------------------------------------------
(* A share and its home.                                                   *)

Homed(s) == (Homes(s) # {} => s \in accepted) /\ (\A x, y \in Homes(s) : x = y)

\* What a step may do to a share's homes: take from them, or leave it a single
\* one, if it had one or is new to the mint.
Rehomed(s) ==
  \/ Homes(s)' \subseteq Homes(s)
  \/ /\ Homes(s) # {} \/ (s \notin accepted /\ s \in accepted')
     /\ \E x \in Names \union Holds : Homes(s)' \subseteq {x}

AllRehomed == accepted \subseteq accepted' /\ \A s \in Shares : Rehomed(s)

LEMMA HomedInit == AddrInit => \A s \in Shares : Homed(s)
  BY DEF AddrInit, Homed, Homes, Registered, Unsettled, NoName, NoHoldRow

LEMMA HomedStep ==
  ASSUME \A s \in Shares : Homed(s), AllRehomed
  PROVE  \A s \in Shares : Homed(s)'
  <1> SUFFICES ASSUME NEW s \in Shares PROVE Homed(s)'
    OBVIOUS
  <1>1. CASE Homes(s)' \subseteq Homes(s)
    BY <1>1 DEF Homed, AllRehomed
  <1>2. CASE ~(Homes(s)' \subseteq Homes(s))
    BY <1>2 DEF Homed, AllRehomed, Rehomed
  <1> QED
    BY <1>1, <1>2

\* A name that takes a share the mint accepts now is its only home.
LEMMA NewHome ==
  ASSUME AddrTypes, \A s \in Shares : Homed(s),
         NEW n \in Names, NEW a \in AnyShare, CanAccept(a), Accept(a), UNCHANGED hold,
         NEW row, zapName' = [zapName EXCEPT ![n] = row], row.cx1 = a
  PROVE  AllRehomed
  <1>1. accepted \subseteq accepted'
    BY DEF Accept
  <1>2. ASSUME NEW s \in Shares, s # a PROVE Homes(s)' \subseteq Homes(s)
    BY <1>2 DEF Homes, Registered, Unsettled, AddrTypes
  <1>3. ASSUME NEW s \in Shares, s = a
        PROVE  Homes(s)' \subseteq {n} /\ s \notin accepted /\ s \in accepted'
    <2>1. s \notin accepted /\ s \in accepted'
      BY <1>3, AddressAssumption DEF CanAccept, Accept
    <2>2. Homes(s) = {}
      BY <2>1 DEF Homed
    <2>3. Homes(s)' \subseteq Homes(s) \union {n}
      BY DEF Homes, Registered, Unsettled, AddrTypes
    <2> QED
      BY <2>1, <2>2, <2>3
  <1> QED
    BY <1>1, <1>2, <1>3 DEF AllRehomed, Rehomed

\* A step that puts no share anywhere.
LEMMA NoHome ==
  ASSUME accepted \subseteq accepted',
         \A n \in Names : \A s \in Shares :
           (zapName'[n].source # "none" /\ zapName'[n].cx1 = s)
             => (zapName[n].source # "none" /\ zapName[n].cx1 = s),
         \A h \in Holds : hold'[h].state = "unsettled"
           => hold[h].state = "unsettled" /\ hold'[h].cx1 = hold[h].cx1
  PROVE  AllRehomed
  BY DEF AllRehomed, Rehomed, Homes, Registered, Unsettled

LEMMA SettleHome ==
  ASSUME AddrTypes, \A s \in Shares : Homed(s), NEW h \in Holds, SettleHold(h), UNCHANGED accepted
  PROVE  AllRehomed
  <1>1. CASE UNCHANGED <<hold, zapName>>
    BY <1>1 DEF AllRehomed, Rehomed, Homes, Registered, Unsettled
  <1>2. CASE hold[h].state = "unsettled" /\ CompleteHold(h)
    <2> DEFINE n == hold[h].name
    <2>1. hold' = [hold EXCEPT ![h] = [hold[h] EXCEPT !.state = "settled"]] /\ n \in Names
      BY <1>2 DEF CompleteHold, AddrTypes, HoldRows
    <2>2. UNCHANGED zapName \/ Insert(n, NoKey, hold[h].cx1)
      BY <1>2 DEF CompleteHold
    <2>3. ASSUME NEW s \in Shares, s # hold[h].cx1 PROVE Homes(s)' \subseteq Homes(s)
      BY <2>1, <2>2, <2>3 DEF Homes, Registered, Unsettled, Insert, AddrTypes, HoldRows
    <2>4. ASSUME NEW s \in Shares, s = hold[h].cx1 PROVE Homes(s) # {} /\ Homes(s)' \subseteq {n}
      <3>1. h \in Homes(s)
        BY <1>2, <2>4 DEF Homes, Unsettled
      <3>2. Homes(s) = {h}
        BY <3>1 DEF Homed
      <3>3. Homes(s)' \subseteq (Homes(s) \ {h}) \union {n}
        BY <1>2, <2>1, <2>2, <3>2, AddressAssumption DEF Homes, Registered, Unsettled, Insert,
             AddrTypes, HoldRows
      <3> QED
        BY <3>1, <3>2, <3>3
    <2> QED
      BY <2>1, <2>3, <2>4 DEF AllRehomed, Rehomed
  <1> QED
    BY <1>1, <1>2 DEF SettleHold

LEMMA Rehoming ==
  AddrTypes /\ (\A s \in Shares : Homed(s)) /\ [AddrNext]_addrVars => AllRehomed
  <1> SUFFICES ASSUME AddrTypes, \A s \in Shares : Homed(s), [AddrNext]_addrVars PROVE AllRehomed
    OBVIOUS
  <1>c. cast \in Casts
    BY DEF AddrTypes
  <1>s. Shares \subseteq AnyShare
    BY DEF AnyShare
  <1> USE <1>c, AddressAssumption DEF nameVars
  <1>1. ASSUME NEW n \in Names, UnregisterAddress(n) PROVE AllRehomed
    BY <1>1, NoHome DEF UnregisterAddress, SetZapNameCx1, RemoveZapName, NoName, Registered,
         AddrTypes, NameRows
  <1>2. ASSUME NEW n \in Names, OperatorRemoves(n) PROVE AllRehomed
    BY <1>2, NoHome DEF OperatorRemoves, SetZapNameCx1, RemoveZapName, NoName, Registered,
         AddrTypes, NameRows
  <1>3. ASSUME NEW n \in Names, NEW s \in Shares, RegisterShareName(n, s) PROVE AllRehomed
    BY <1>3, <1>s, NewHome DEF RegisterShareName, Insert, CanAccept
  <1>4. ASSUME NEW n \in Names, NEW s \in Shares, AskFee(n, s) PROVE AllRehomed
    BY <1>4, NoHome DEF AskFee
  <1>5. ASSUME NEW n \in Names, NEW s \in Shares, MoveShare(n, s) PROVE AllRehomed
    <2>1. zapName'[n].cx1 = s /\ zapName' = [zapName EXCEPT ![n] = zapName'[n]]
      BY <1>5, <1>s, ShareSet DEF MoveShare, AddrTypes
    <2>2. CanAccept(s) /\ Accept(s) /\ UNCHANGED hold
      BY <1>5 DEF MoveShare, CanMove, CanAccept
    <2> QED
      BY <1>s, <2>1, <2>2, NewHome
  <1>6. ASSUME NEW n \in Names, NEW k \in Keys, PutOperatorZapName(n, k) PROVE AllRehomed
    BY <1>6, NoHome DEF PutOperatorZapName, SetZapNameCx1, RemoveZapName, NoName, Registered,
         AddrTypes, NameRows
  <1>7. ASSUME NEW k \in Keys, NEW n \in Names, NEW a \in AnyShare, OwnerSetsShare(k, n, a)
        PROVE  AllRehomed
    <2>1. zapName'[n].cx1 = a /\ zapName' = [zapName EXCEPT ![n] = zapName'[n]]
      BY <1>7, <1>s, ShareSet DEF OwnerSetsShare, AddrTypes
    <2>2. CanAccept(a) /\ Accept(a) /\ UNCHANGED hold
      BY <1>7 DEF OwnerSetsShare, CanMove, CanAccept
    <2> QED
      BY <1>s, <2>1, <2>2, NewHome
  <1>8. ASSUME NEW k \in Keys, NEW n \in Names, NEW a \in AnyShare, ClaimFree(k, n, a)
        PROVE  AllRehomed
    BY <1>8, <1>s, NewHome DEF ClaimFree, Insert, CanAccept
  <1>9. ASSUME NEW k \in Keys, NEW n \in Names, NEW a \in AnyShare, NEW t \in FeeNotes,
       OfferNote(k, n, a, t)
        PROVE  AllRehomed
    BY <1>9, NoHome DEF OfferNote
  <1>10. ASSUME NEW n \in Names, NEW h \in Holds, LookUpHeld(n, h) PROVE AllRehomed
    BY <1>10, NoHome DEF LookUpHeld
  <1>11. ASSUME NEW c \in calls, BuyZapName(c) PROVE AllRehomed
    <2>1. CASE UNCHANGED <<accepted, zapName>>
      BY <1>11, <2>1, NoHome DEF BuyZapName
    <2>2. CASE CanAccept(c.cx1) /\ Accept(c.cx1) /\ Insert(c.name, c.key, c.cx1)
      <3>1. PICK row : row.cx1 = c.cx1 /\ zapName' = [zapName EXCEPT ![c.name] = row]
        BY <2>2 DEF Insert
      <3>2. c.name \in Names /\ c.cx1 \in AnyShare /\ UNCHANGED hold
        BY <1>11 DEF BuyZapName, AddrTypes, Calls
      <3> QED
        BY <2>2, <3>1, <3>2, NewHome
    <2> QED
      BY <1>11, <2>1, <2>2 DEF BuyZapName
  <1>12. ASSUME NEW c \in calls, LookUpFindsPaid(c) PROVE AllRehomed
    BY <1>12, SettleHome DEF LookUpFindsPaid, AddrTypes
  <1>13. ASSUME NEW c \in calls, CallFails(c) PROVE AllRehomed
    BY <1>13, NoHome DEF CallFails
  <1>14. ASSUME NEW c \in calls, NEW h \in Holds, HoldAddress(c, h) PROVE AllRehomed
    <2>1. CASE UNCHANGED <<hold, accepted>>
      BY <1>14, <2>1, NoHome DEF HoldAddress
    <2>2. CASE CanAccept(c.cx1) /\ Accept(c.cx1) /\ hold[h].state = "none"
               /\ ~UNCHANGED <<hold, accepted>>
      <3>1. hold' = [hold EXCEPT ![h] = [state |-> "unsettled", name |-> c.name, cx1 |-> c.cx1]]
        BY <1>14, <2>2 DEF HoldAddress, AcceptHeld
      <3>2. UNCHANGED zapName
        BY <1>14 DEF HoldAddress
      <3>3. ASSUME NEW s \in Shares, s # c.cx1 PROVE Homes(s)' \subseteq Homes(s)
        BY <3>1, <3>2, <3>3 DEF Homes, Registered, Unsettled, AddrTypes
      <3>4. ASSUME NEW s \in Shares, s = c.cx1
            PROVE  Homes(s)' \subseteq {h} /\ s \notin accepted /\ s \in accepted'
        <4>1. s \notin accepted /\ s \in accepted'
          BY <2>2, <3>4 DEF CanAccept, Accept
        <4>2. Homes(s) = {}
          BY <4>1 DEF Homed
        <4>3. Homes(s)' \subseteq Homes(s) \union {h}
          BY <3>1, <3>2 DEF Homes, Registered, Unsettled, AddrTypes
        <4> QED
          BY <4>1, <4>2, <4>3
      <3> QED
        BY <2>2, <3>3, <3>4 DEF AllRehomed, Rehomed, Accept
    <2> QED
      BY <1>14, <2>1, <2>2 DEF HoldAddress, CanHold, AcceptHeld
  <1>15. ASSUME NEW h \in Holds, PayFee(h) PROVE AllRehomed
    BY <1>15, NoHome DEF PayFee
  <1>16. ASSUME NEW h \in Holds, Elapse(h) PROVE AllRehomed
    BY <1>16, NoHome DEF Elapse
  <1>17. ASSUME NEW h \in Holds, NEW t \in FeeNotes, PayHoldWithNote(h, t) PROVE AllRehomed
    BY <1>17, SettleHome DEF PayHoldWithNote, SettleHold
  <1>18. ASSUME NEW t \in FeeNotes, SpendFeeNote(t) PROVE AllRehomed
    BY <1>18, NoHome DEF SpendFeeNote
  <1>19. CASE PassStart
    BY <1>19, NoHome DEF PassStart
  <1>20. ASSUME NEW h \in Holds, PassFindsPaid(h) PROVE AllRehomed
    BY <1>20, SettleHome DEF PassFindsPaid, AddrTypes
  <1>21. ASSUME NEW h \in Holds, PassFindsUnpaid(h) PROVE AllRehomed
    BY <1>21, NoHome DEF PassFindsUnpaid, DeleteUnsettledHold, NoHoldRow, AddrTypes
  <1>22. ASSUME NEW h \in Holds, PassHearsNothing(h) PROVE AllRehomed
    BY <1>22, NoHome DEF PassHearsNothing, DeleteUnsettledHold, NoHoldRow, AddrTypes
  <1>23. CASE PassEnd
    BY <1>23, NoHome DEF PassEnd
  <1>24. CASE AddrCrash
    BY <1>24, NoHome DEF AddrCrash
  <1>25. CASE UNCHANGED addrVars
    BY <1>25, NoHome DEF addrVars
  <1> QED
    BY <1>1, <1>2, <1>3, <1>4, <1>5, <1>6, <1>7, <1>8, <1>9, <1>10, <1>11, <1>12, <1>13, <1>14,
         <1>15, <1>16, <1>17, <1>18, <1>19, <1>20, <1>21, <1>22, <1>23, <1>24, <1>25, Steps

-----------------------------------------------------------------------------
(* The theorems.                                                           *)

RegistryInv == PayeeInv /\ LiveHoldKeepsItsName /\ \A s \in Shares : Homed(s)

LEMMA RegistryKept == RegistryInv /\ [AddrNext]_addrVars => RegistryInv' /\ AllRehomed
  <1> SUFFICES ASSUME RegistryInv, [AddrNext]_addrVars PROVE RegistryInv' /\ AllRehomed
    OBVIOUS
  <1>1. PayeeInv' /\ LiveHoldKeepsItsName'
    BY PayeeStep, NamesStep DEF RegistryInv
  <1>2. AllRehomed
    BY Rehoming DEF RegistryInv, PayeeInv
  <1>3. \A s \in Shares : Homed(s)'
    BY <1>2, HomedStep DEF RegistryInv
  <1> QED
    BY <1>1, <1>2, <1>3 DEF RegistryInv

LEMMA RegistryHolds == AddrSpec => []RegistryInv
  <1>1. AddrInit => RegistryInv
    BY PayeeInit, NamesInit, HomedInit DEF RegistryInv
  <1>2. RegistryInv /\ [AddrNext]_addrVars => RegistryInv'
    BY RegistryKept
  <1> QED
    BY <1>1, <1>2, PTL DEF AddrSpec

\* No share is ever the payee of two names or holds, whichever doors its
\* proofs came in by.
THEOREM SharesHaveOneHome == AddrSpec => []OneHomePerShare
  <1>1. RegistryInv => OneHomePerShare
    BY DEF RegistryInv, Homed, OneHomePerShare
  <1> QED
    BY RegistryHolds, <1>1, PTL

LEMMA NoReturn ==
  ASSUME RegistryInv, [AddrNext]_addrVars
  PROVE  \A s \in accepted : Homes(s) = {} => Homes(s)' = {}
  <1> SUFFICES ASSUME NEW s \in accepted, Homes(s) = {} PROVE Homes(s)' = {}
    OBVIOUS
  <1>1. AllRehomed
    BY RegistryKept
  <1>2. s \in Shares
    BY DEF RegistryInv, PayeeInv, AddrTypes
  <1> QED
    BY <1>1, <1>2 DEF AllRehomed, Rehomed

\* A share that is of use nowhere any more never is again.
THEOREM SharesStayAway == AddrSpec => SharesNeverReturn
  <1>1. RegistryInv /\ [AddrNext]_addrVars =>
          [\A s \in accepted : Homes(s) = {} => Homes(s)' = {}]_addrVars
    BY NoReturn
  <1> QED
    BY RegistryHolds, <1>1, PTL DEF AddrSpec, SharesNeverReturn

\* A live hold is the only one of its name, and nobody but the operator has
\* the name.
THEOREM LiveHoldsKeepTheirNames == AddrSpec => []LiveHoldKeepsItsName
  <1>1. RegistryInv => LiveHoldKeepsItsName
    BY DEF RegistryInv
  <1> QED
    BY RegistryHolds, <1>1, PTL

\* Every registered name has somebody to pay.
THEOREM NamesHavePayees == AddrSpec => []EveryNameHasAPayee
  <1>1. RegistryInv => EveryNameHasAPayee
    BY DEF RegistryInv, PayeeInv
  <1> QED
    BY RegistryHolds, <1>1, PTL

\* A hold is settled by the step that completes it, and in no other way.
LEMMA OnlyCompleted ==
  ASSUME AddrTypes, [AddrNext]_addrVars, NEW h \in Holds,
         hold[h].state = "unsettled", hold'[h].state = "settled"
  PROVE  CompleteHold(h)
  <1>c. cast \in Casts
    BY DEF AddrTypes
  <1> USE <1>c DEF AddrTypes, HoldRows, nameVars
  <1>1. ASSUME NEW n \in Names, UnregisterAddress(n) PROVE CompleteHold(h)
    BY <1>1 DEF UnregisterAddress
  <1>2. ASSUME NEW n \in Names, OperatorRemoves(n) PROVE CompleteHold(h)
    BY <1>2 DEF OperatorRemoves
  <1>3. ASSUME NEW n \in Names, NEW s \in Shares, RegisterShareName(n, s) PROVE CompleteHold(h)
    BY <1>3 DEF RegisterShareName
  <1>4. ASSUME NEW n \in Names, NEW s \in Shares, AskFee(n, s) PROVE CompleteHold(h)
    BY <1>4 DEF AskFee
  <1>5. ASSUME NEW n \in Names, NEW s \in Shares, MoveShare(n, s) PROVE CompleteHold(h)
    BY <1>5 DEF MoveShare
  <1>6. ASSUME NEW n \in Names, NEW k \in Keys, PutOperatorZapName(n, k) PROVE CompleteHold(h)
    BY <1>6 DEF PutOperatorZapName
  <1>7. ASSUME NEW k \in Keys, NEW n \in Names, NEW a \in AnyShare, OwnerSetsShare(k, n, a)
        PROVE  CompleteHold(h)
    BY <1>7 DEF OwnerSetsShare
  <1>8. ASSUME NEW k \in Keys, NEW n \in Names, NEW a \in AnyShare, ClaimFree(k, n, a)
        PROVE  CompleteHold(h)
    BY <1>8 DEF ClaimFree
  <1>9. ASSUME NEW k \in Keys, NEW n \in Names, NEW a \in AnyShare, NEW t \in FeeNotes,
       OfferNote(k, n, a, t)
        PROVE  CompleteHold(h)
    BY <1>9 DEF OfferNote
  <1>10. ASSUME NEW n \in Names, NEW g \in Holds, LookUpHeld(n, g) PROVE CompleteHold(h)
    BY <1>10 DEF LookUpHeld
  <1>11. ASSUME NEW c \in calls, BuyZapName(c) PROVE CompleteHold(h)
    BY <1>11 DEF BuyZapName
  <1>12. ASSUME NEW c \in calls, LookUpFindsPaid(c) PROVE CompleteHold(h)
    BY <1>12 DEF LookUpFindsPaid, SettleHold, CompleteHold
  <1>13. ASSUME NEW c \in calls, CallFails(c) PROVE CompleteHold(h)
    BY <1>13 DEF CallFails
  <1>14. ASSUME NEW c \in calls, NEW g \in Holds, HoldAddress(c, g) PROVE CompleteHold(h)
    BY <1>14 DEF HoldAddress
  <1>15. ASSUME NEW g \in Holds, PayFee(g) PROVE CompleteHold(h)
    BY <1>15 DEF PayFee
  <1>16. ASSUME NEW g \in Holds, Elapse(g) PROVE CompleteHold(h)
    BY <1>16 DEF Elapse
  <1>17. ASSUME NEW g \in Holds, NEW t \in FeeNotes, PayHoldWithNote(g, t) PROVE CompleteHold(h)
    BY <1>17 DEF PayHoldWithNote, SettleHold, CompleteHold
  <1>18. ASSUME NEW t \in FeeNotes, SpendFeeNote(t) PROVE CompleteHold(h)
    BY <1>18 DEF SpendFeeNote
  <1>19. CASE PassStart
    BY <1>19 DEF PassStart
  <1>20. ASSUME NEW g \in Holds, PassFindsPaid(g) PROVE CompleteHold(h)
    BY <1>20 DEF PassFindsPaid, SettleHold, CompleteHold
  <1>21. ASSUME NEW g \in Holds, PassFindsUnpaid(g) PROVE CompleteHold(h)
    BY <1>21 DEF PassFindsUnpaid, DeleteUnsettledHold, NoHoldRow
  <1>22. ASSUME NEW g \in Holds, PassHearsNothing(g) PROVE CompleteHold(h)
    BY <1>22 DEF PassHearsNothing, DeleteUnsettledHold, NoHoldRow
  <1>23. CASE PassEnd
    BY <1>23 DEF PassEnd
  <1>24. CASE AddrCrash
    BY <1>24 DEF AddrCrash
  <1>25. CASE UNCHANGED addrVars
    BY <1>25 DEF addrVars
  <1> QED
    BY <1>1, <1>2, <1>3, <1>4, <1>5, <1>6, <1>7, <1>8, <1>9, <1>10, <1>11, <1>12, <1>13, <1>14,
         <1>15, <1>16, <1>17, <1>18, <1>19, <1>20, <1>21, <1>22, <1>23, <1>24, <1>25, Steps

LEMMA PaidHoldBuys ==
  ASSUME RegistryInv, [AddrNext]_addrVars, NEW h \in Holds,
         hold[h].state = "unsettled", hold'[h].state = "settled",
         h \notin Past, zapName[hold[h].name].source # "env"
  PROVE  zapName'[hold[h].name]
           = [source |-> "self", pubkey |-> NoKey, cx1 |-> hold[h].cx1, next |-> 0]
  <1>t. AddrTypes /\ hold[h].name \in Names
    BY DEF RegistryInv, PayeeInv, AddrTypes, HoldRows
  <1>1. CompleteHold(h)
    BY <1>t, OnlyCompleted
  <1>2. h \in LiveHolds(hold[h].name, Past)
    BY DEF LiveHolds
  <1>3. LiveHolds(hold[h].name, Past) = {h} /\ ~Registered(hold[h].name)
    BY <1>t, <1>2 DEF RegistryInv, LiveHoldKeepsItsName
  <1>4. Insert(hold[h].name, NoKey, hold[h].cx1)
    BY <1>1, <1>3 DEF CompleteHold
  <1> QED
    BY <1>t, <1>4 DEF Insert, AddrTypes

\* The body of FeeBuysTheName.
FeeBuys ==
  \A h \in Holds :
    LET n == hold[h].name IN
    (hold[h].state = "unsettled" /\ hold'[h].state = "settled"
       /\ h \notin Past /\ zapName[n].source # "env")
      => zapName'[n] = [source |-> "self", pubkey |-> NoKey, cx1 |-> hold[h].cx1, next |-> 0]

\* A fee seen paid while its hold is live buys the name, unless the operator
\* has given it away.
THEOREM FeesBuyNames == AddrSpec => FeeBuysTheName
  <1>1. RegistryInv /\ [AddrNext]_addrVars => [FeeBuys]_addrVars
    BY PaidHoldBuys DEF FeeBuys
  <1>2. AddrSpec => [][FeeBuys]_addrVars
    BY RegistryHolds, <1>1, PTL DEF AddrSpec
  <1> QED
    BY <1>2 DEF FeeBuys, FeeBuysTheName

\* Every variable of the registry keeps its shape.
THEOREM RegistryTypes == AddrSpec => []AddrTypeOK
  <1>1. RegistryInv => AddrTypeOK
    BY TypesAreTypes DEF RegistryInv, PayeeInv
  <1> QED
    BY RegistryHolds, <1>1, PTL
=============================================================================
