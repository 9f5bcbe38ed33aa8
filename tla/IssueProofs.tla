----------------------------- MODULE IssueProofs -----------------------------
(***************************************************************************)
(* What holds of minting, for any sets of outputs, hashes, quotes, claims  *)
(* and sweeps, whoever draws the payment preimages.                        *)
(*                                                                         *)
(* The ledger's part of the state (notes, rows, and the node's invoices)   *)
(* changes in eight ways only, whatever handler is behind them.  Handlers  *)
(* are looked at once, for what they know when they write (`Known`); the   *)
(* ledger's invariant is then proved write by write.                       *)
(***************************************************************************)
EXTENDS Issue, TLAPS

AnyId == Ids \union {NoId}
AnyHash == Hashes \union {NoHash}
NoteStates == {"absent", "outstanding", "burned"}
Rows == [state : {"absent", "unsettled", "settled"}, output : AnyId]
Invoices == [status : {"none", "open", "paid"}, past : BOOLEAN, sold : AnyId, bought : AnyId]
QuoteStates == [pc : {"idle", "creating", "created", "checking", "done"}, output : AnyId,
                hash : AnyHash, answer : Answers]
CheckStates == [pc : {"idle", "asking", "threw"}, hash : AnyHash, verify : BOOLEAN,
                answer : Answers]
SweepStates == [pc : {"idle", "asking"}, todo : SUBSET Hashes, at : AnyHash, answer : Answers]

\* TypeOK, with the records' types named, and by variable.
LedgerTypes ==
  /\ chooser \in Choosers
  /\ note \in [Ids -> NoteStates]
  /\ origin \in [Ids -> AnyHash \union {Swapped}]
  /\ row \in [Hashes -> Rows]
  /\ inv \in [Hashes -> Invoices]
  /\ \A h \in Hashes : row[h].state # "absent" => row[h].output \in Ids

QuoteTypes ==
  /\ quote \in [Quotes -> QuoteStates]
  /\ \A r \in Quotes : quote[r].pc # "idle" => quote[r].output \in Ids
  /\ \A r \in Quotes : quote[r].pc \in {"created", "checking"} => quote[r].hash \in Hashes
  /\ \A r \in Quotes : ChoosesPreimage /\ quote[r].pc = "creating" => quote[r].hash \in Hashes

CheckTypes ==
  /\ check \in [Checks -> CheckStates]
  /\ \A c \in Checks : check[c].answer # "none" => check[c].pc = "asking"
  /\ \A c \in Checks : check[c].pc = "asking" => check[c].hash \in Hashes

SweepTypes ==
  /\ sweep \in [Sweeps -> SweepStates]
  /\ \A s \in Sweeps : sweep[s].answer # "none" => sweep[s].pc = "asking"
  /\ \A s \in Sweeps : sweep[s].pc = "asking" => sweep[s].at \in Hashes

Types == LedgerTypes /\ QuoteTypes /\ CheckTypes /\ SweepTypes /\ crashes \in 0..MaxCrashes

LEMMA TypesAreTypes == Types => TypeOK
  BY DEF TypeOK, Types, LedgerTypes, QuoteTypes, CheckTypes, SweepTypes, AnyId, AnyHash,
         NoteStates, Rows, Invoices, QuoteStates, CheckStates, SweepStates

-----------------------------------------------------------------------------
(* The ways the ledger is written.                                         *)

ledger == <<note, origin, row, inv>>

Issues(h) ==
  /\ inv' = [inv EXCEPT ![h].status = IF @ = "none" THEN "open" ELSE @]
  /\ UNCHANGED <<note, origin, row>>

Pays(h) ==
  /\ inv[h].status = "open" /\ inv[h].sold # NoId /\ ~inv[h].past
  /\ inv' = [inv EXCEPT ![h].status = "paid", ![h].bought = inv[h].sold]
  /\ UNCHANGED <<note, origin, row>>

Expires(h) ==
  /\ inv' = [inv EXCEPT ![h].past = TRUE]
  /\ UNCHANGED <<note, origin, row>>

\* The node had not been paid for h when it was last asked, or sold h since.
Unsold(h) == inv[h].status # "paid" \/ inv[h].bought # NoId

Records(h, i) ==
  /\ CanRecord(h, i) /\ Nameable(i)
  /\ inv[h].status # "none" /\ Unsold(h)
  /\ ChoosesPreimage => inv[h].sold = NoId
  /\ RecordMintInvoice(h, i)
  /\ inv' = [inv EXCEPT ![h].sold = i]
  /\ UNCHANGED <<note, origin>>

Settles(h) == inv[h].status = "paid" /\ SettleMintInvoice(h) /\ UNCHANGED inv

Deletes(h) ==
  /\ inv[h].past /\ inv[h].status # "paid"
  /\ DeleteUnsettledMintInvoice(h)
  /\ UNCHANGED <<note, origin, inv>>

Swaps(i) ==
  /\ Nameable(i) /\ ~InUse(i)
  /\ note' = [note EXCEPT ![i] = "outstanding"]
  /\ origin' = [origin EXCEPT ![i] = Swapped]
  /\ UNCHANGED <<row, inv>>

Spends(i) ==
  /\ note[i] = "outstanding"
  /\ note' = [note EXCEPT ![i] = "burned"]
  /\ UNCHANGED <<origin, row, inv>>

LedgerWrite ==
  \/ UNCHANGED ledger
  \/ \E h \in Hashes : Issues(h) \/ Pays(h) \/ Expires(h) \/ Settles(h) \/ Deletes(h)
  \/ \E h \in Hashes, i \in Ids : Records(h, i)
  \/ \E i \in Ids : Swaps(i) \/ Spends(i)

-----------------------------------------------------------------------------
(* The ledger's invariant.                                                 *)

NotesHaveOrigins == \A i \in Ids : note[i] = "absent" <=> origin[i] = NoHash

\* A row is what was sold, and what was bought once it is paid for; and it
\* stays for as long as its invoice can be paid.
RowsAreSales ==
  \A h \in Hashes :
    /\ inv[h].bought # NoId => inv[h].status = "paid"
    /\ inv[h].sold # NoId => inv[h].status # "none"
    /\ inv[h].sold # NoId /\ ~inv[h].past => row[h].state # "absent"
    /\ row[h].state # "absent" => inv[h].sold = row[h].output
    /\ row[h].state # "absent" /\ inv[h].status = "paid" => inv[h].bought = row[h].output
    /\ row[h].state = "settled" => inv[h].status = "paid"

\* Nobody names the id that a preimage opens before the invoice is shown.
OnlyNameable ==
  /\ \A i \in Ids : note[i] # "absent" => Nameable(i)
  /\ \A h \in Hashes : row[h].state # "absent" => Nameable(row[h].output)

LedgerInv ==
  /\ NotesHaveOrigins
  /\ RowsAreSales
  /\ NoStrandedPayment
  /\ MintedNotesWereBought
  /\ PromisedOutputsAreExclusive
  /\ OnlyNameable
  /\ PreimagesOpenNothing

\* What the handlers know of the ledger, whatever they slept through.
QuotesKnow ==
  \A r \in Quotes :
    /\ quote[r].pc # "idle" => Nameable(quote[r].output)
    /\ quote[r].pc \in {"created", "checking"} => inv[quote[r].hash].status # "none"
    /\ quote[r].pc = "checking" => ~ChoosesPreimage
    /\ quote[r].answer # "none" => quote[r].pc = "checking"
    /\ quote[r].pc = "checking" /\ quote[r].answer = "no" => Unsold(quote[r].hash)

\* A preimage the mint drew is one quote's, and buys nothing before it ends.
OwnPreimages ==
  ChoosesPreimage => \A r \in Quotes :
    /\ quote[r].pc \in {"creating", "created"} =>
         inv[quote[r].hash].sold = NoId /\ inv[quote[r].hash].status # "paid"
    /\ \A q \in Quotes : quote[q].hash = quote[r].hash /\ quote[r].hash # NoHash => q = r

ChecksKnow == \A c \in Checks : check[c].answer = "yes" => inv[check[c].hash].status = "paid"

SweepsKnow ==
  \A s \in Sweeps :
    /\ sweep[s].pc = "asking" => \A h \in sweep[s].todo \union {sweep[s].at} : inv[h].past
    /\ sweep[s].answer = "yes" => inv[sweep[s].at].status = "paid"
    /\ sweep[s].answer = "no" => inv[sweep[s].at].status # "paid"

Known == QuotesKnow /\ OwnPreimages /\ ChecksKnow /\ SweepsKnow

IInv == Types /\ LedgerInv /\ Known

-----------------------------------------------------------------------------
(* Each handler's step writes the ledger in one of those ways, or not.     *)

LEMMA CheckWrites ==
  ASSUME Types, Known, NEW c \in Checks, CheckStep(c)
  PROVE  LedgerWrite
<1>1. ASSUME NEW h \in Hashes, Look(c, h) PROVE LedgerWrite
  BY <1>1 DEF Look, LedgerWrite, ledger
<1>2. CASE CheckSettles(c)
  <2>1. check[c].hash \in Hashes BY <1>2 DEF CheckSettles, Types, CheckTypes
  <2>2. inv[check[c].hash].status = "paid" BY <1>2 DEF CheckSettles, Known, ChecksKnow
  <2>3. Settles(check[c].hash) BY <1>2, <2>2 DEF CheckSettles, Settles
  <2> QED BY <2>1, <2>3 DEF LedgerWrite
<1>3. CASE CheckFindsUnpaid(c)
  BY <1>3 DEF CheckFindsUnpaid, LedgerWrite, ledger
<1>4. CASE CheckFails(c)
  BY <1>4 DEF CheckFails, LedgerWrite, ledger
<1> QED BY <1>1, <1>2, <1>3, <1>4 DEF CheckStep

LEMMA SweepWrites ==
  ASSUME Types, Known, NEW s \in Sweeps, SweepStep(s)
  PROVE  LedgerWrite
<1>1. CASE SweepStart(s)
  BY <1>1 DEF SweepStart, LedgerWrite, ledger
<1>2. CASE SweepActs(s)
  <2>1. CASE sweep[s].answer = "yes" /\ SettleMintInvoice(sweep[s].at)
    <3>1. sweep[s].at \in Hashes BY <2>1 DEF Types, SweepTypes
    <3>2. inv[sweep[s].at].status = "paid" BY <2>1 DEF Known, SweepsKnow
    <3>3. Settles(sweep[s].at) BY <1>2, <2>1, <3>2 DEF SweepActs, Settles
    <3> QED BY <3>1, <3>3 DEF LedgerWrite
  <2>2. CASE /\ sweep[s].answer = "no"
             /\ DeleteUnsettledMintInvoice(sweep[s].at)
             /\ UNCHANGED <<note, origin>>
    <3>1. sweep[s].pc = "asking" /\ sweep[s].at \in Hashes BY <2>2 DEF Types, SweepTypes
    <3>2. inv[sweep[s].at].past /\ inv[sweep[s].at].status # "paid"
      BY <2>2, <3>1 DEF Known, SweepsKnow
    <3>3. Deletes(sweep[s].at) BY <1>2, <2>2, <3>2 DEF SweepActs, Deletes
    <3> QED BY <3>1, <3>3 DEF LedgerWrite
  <2>3. CASE UNCHANGED <<note, origin, row>>
    BY <1>2, <2>3 DEF SweepActs, LedgerWrite, ledger
  <2> QED BY <1>2, <2>1, <2>2, <2>3 DEF SweepActs
<1> QED BY <1>1, <1>2 DEF SweepStep

LEMMA QuoteWrites ==
  ASSUME Types, Known, NEW r \in Quotes, QuoteStep(r)
  PROVE  LedgerWrite
<1>1. ASSUME NEW i \in Ids, Ask(r, i) PROVE LedgerWrite
  BY <1>1 DEF Ask, LedgerWrite, ledger
<1>2. CASE CheckHash(r)
  BY <1>2 DEF CheckHash, LedgerWrite, ledger
<1>3. CASE Record(r)
  <2> DEFINE h == quote[r].hash
             i == quote[r].output
  <2>1. h \in Hashes /\ i \in Ids
    BY <1>3 DEF Record, Checked, Types, QuoteTypes
  <2>2. Nameable(i) /\ inv[h].status # "none"
    BY <1>3 DEF Record, Checked, Known, QuotesKnow
  <2>3. ChoosesPreimage => inv[h].sold = NoId /\ inv[h].status # "paid"
    BY <1>3 DEF Record, Checked, Known, QuotesKnow, OwnPreimages
  <2>4. Unsold(h)
    BY <1>3, <2>3 DEF Record, Checked, Known, QuotesKnow, Unsold
  <2>5. Records(h, i)
    BY <1>3, <2>2, <2>3, <2>4 DEF Record, Records
  <2> QED BY <2>1, <2>5 DEF LedgerWrite
<1>4. CASE Refuse(r)
  BY <1>4 DEF Refuse, LedgerWrite, ledger
<1> QED BY <1>1, <1>2, <1>3, <1>4 DEF QuoteStep

LEMMA NodeWrites ==
  ASSUME Types, NodeStep
  PROVE  LedgerWrite
<1>1. ASSUME NEW r \in Quotes, NodeIssues(r) PROVE LedgerWrite
  <2>1. \A h \in Issuable(r) : h \in Hashes
    BY <1>1 DEF NodeIssues, Issuable, Types, QuoteTypes
  <2> QED BY <1>1, <2>1 DEF NodeIssues, Issues, LedgerWrite
<1>2. ASSUME NEW r \in Quotes, AnswerQuote(r) PROVE LedgerWrite
  BY <1>2 DEF AnswerQuote, LedgerWrite, ledger
<1>3. ASSUME NEW h \in Hashes, Pay(h) PROVE LedgerWrite
  BY <1>3 DEF Pay, Pays, LedgerWrite
<1>4. ASSUME NEW h \in Hashes, Expire(h) PROVE LedgerWrite
  BY <1>4 DEF Expire, Expires, LedgerWrite
<1>5. ASSUME NEW c \in Checks, AnswerCheck(c) PROVE LedgerWrite
  BY <1>5 DEF AnswerCheck, LedgerWrite, ledger
<1>6. ASSUME NEW s \in Sweeps, AnswerSweep(s) PROVE LedgerWrite
  BY <1>6 DEF AnswerSweep, LedgerWrite, ledger
<1> QED BY <1>1, <1>2, <1>3, <1>4, <1>5, <1>6 DEF NodeStep

LEMMA StepWrites ==
  ASSUME Types, Known, [Next]_vars
  PROVE  LedgerWrite
<1>1. ASSUME NEW i \in Ids, SwapInto(i) PROVE LedgerWrite
  BY <1>1 DEF SwapInto, Swaps, LedgerWrite
<1>2. ASSUME NEW i \in Ids, SpendNote(i) PROVE LedgerWrite
  BY <1>2 DEF SpendNote, Spends, LedgerWrite
<1>3. CASE Crash
  BY <1>3 DEF Crash, LedgerWrite, ledger
<1>4. CASE UNCHANGED vars
  BY <1>4 DEF vars, LedgerWrite, ledger
<1> QED BY <1>1, <1>2, <1>3, <1>4, QuoteWrites, CheckWrites, SweepWrites, NodeWrites
        DEF Next, Step

\* What the node and the mint know of an invoice they never unlearn.
LEMMA Grows ==
  ASSUME LedgerTypes, LedgerWrite, NEW h \in Hashes
  PROVE  /\ inv[h].status # "none" => inv'[h].status # "none"
         /\ inv[h].status = "paid" => inv'[h].status = "paid"
         /\ inv[h].past => inv'[h].past
         /\ inv[h].past /\ inv[h].status # "paid" => inv'[h].status # "paid"
         /\ inv[h].sold # NoId => inv'[h].sold # NoId
         /\ inv[h].sold = NoId /\ inv[h].status # "paid" => inv'[h].status # "paid"
         /\ Unsold(h) => Unsold(h)'
<1> USE IssueAssumption
<1>0. inv[h] \in Invoices /\ inv \in [Hashes -> Invoices] BY DEF LedgerTypes
<1>1. CASE UNCHANGED inv
  BY <1>1 DEF Unsold
<1>2. ASSUME NEW g \in Hashes, Issues(g)
      PROVE \/ inv'[h] = inv[h]
            \/ inv[h].status = "none" /\ inv'[h] = [inv[h] EXCEPT !.status = "open"]
  <2>1. inv'[h] = IF h = g THEN [inv[h] EXCEPT !.status = IF @ = "none" THEN "open" ELSE @]
                           ELSE inv[h]
    BY <1>0, <1>2 DEF Issues
  <2>2. CASE inv[h].status = "none" BY <2>1, <2>2
  <2>3. CASE inv[h].status # "none"
    <3>1. [inv[h] EXCEPT !.status = inv[h].status] = inv[h] BY <1>0 DEF Invoices
    <3> QED BY <2>1, <2>3, <3>1
  <2> QED BY <2>2, <2>3
<1>3. ASSUME NEW g \in Hashes, Pays(g)
      PROVE \/ inv'[h] = inv[h]
            \/ /\ inv[h].sold # NoId /\ ~inv[h].past
               /\ inv'[h] = [inv[h] EXCEPT !.status = "paid", !.bought = inv[h].sold]
  BY <1>0, <1>3 DEF Pays, Invoices
<1>4. ASSUME NEW g \in Hashes, Expires(g)
      PROVE inv'[h] = inv[h] \/ inv'[h] = [inv[h] EXCEPT !.past = TRUE]
  BY <1>0, <1>4 DEF Expires, Invoices
<1>5. ASSUME NEW g \in Hashes, NEW i \in Ids, Records(g, i)
      PROVE inv'[h] = inv[h] \/ inv'[h] = [inv[h] EXCEPT !.sold = i]
  BY <1>0, <1>5 DEF Records, Invoices
<1>6. ASSUME NEW g \in Hashes, Settles(g) \/ Deletes(g) PROVE UNCHANGED inv
  BY <1>6 DEF Settles, Deletes
<1>7. ASSUME NEW i \in Ids, Swaps(i) \/ Spends(i) PROVE UNCHANGED inv
  BY <1>7 DEF Swaps, Spends
<1>8. \A i \in Ids : i # NoId OBVIOUS
<1> DEFINE Told(new) ==
      \/ new = inv[h]
      \/ new = [inv[h] EXCEPT !.status = "open"] /\ inv[h].status = "none"
      \/ /\ inv[h].sold # NoId /\ ~inv[h].past
         /\ new = [inv[h] EXCEPT !.status = "paid", !.bought = inv[h].sold]
      \/ new = [inv[h] EXCEPT !.past = TRUE]
      \/ \E i \in Ids : new = [inv[h] EXCEPT !.sold = i]
<1>9. Told(inv'[h])
  BY <1>2, <1>3, <1>4, <1>5, <1>6, <1>7 DEF LedgerWrite, ledger
<1>10. CASE inv'[h] = inv[h] BY <1>10 DEF Unsold
<1>11. CASE inv'[h] = [inv[h] EXCEPT !.status = "open"] /\ inv[h].status = "none"
  BY <1>0, <1>11 DEF Unsold, Invoices
<1>12. CASE /\ inv[h].sold # NoId /\ ~inv[h].past
            /\ inv'[h] = [inv[h] EXCEPT !.status = "paid", !.bought = inv[h].sold]
  BY <1>0, <1>12 DEF Unsold, Invoices
<1>13. CASE inv'[h] = [inv[h] EXCEPT !.past = TRUE]
  BY <1>0, <1>13 DEF Unsold, Invoices
<1>14. ASSUME NEW i \in Ids, inv'[h] = [inv[h] EXCEPT !.sold = i]
       PROVE  /\ inv'[h].status = inv[h].status /\ inv'[h].past = inv[h].past
              /\ inv'[h].bought = inv[h].bought /\ inv'[h].sold # NoId
  BY <1>0, <1>8, <1>14 DEF Invoices
<1>15. CASE \E i \in Ids : inv'[h] = [inv[h] EXCEPT !.sold = i]
  BY <1>14, <1>15 DEF Unsold
<1> QED BY <1>9, <1>10, <1>11, <1>12, <1>13, <1>15

-----------------------------------------------------------------------------
(* The ledger's types and its invariant, write by write.                   *)

LEMMA LedgerTypesStep ==
  ASSUME LedgerTypes, LedgerWrite, UNCHANGED chooser
  PROVE  LedgerTypes'
<1> USE DEF LedgerTypes
<1>1. CASE UNCHANGED ledger
  BY <1>1 DEF ledger
<1>2. ASSUME NEW h \in Hashes, Issues(h) PROVE LedgerTypes'
  <2>1. [inv[h] EXCEPT !.status = IF @ = "none" THEN "open" ELSE @] \in Invoices
    BY DEF Invoices
  <2> QED BY <1>2, <2>1 DEF Issues
<1>3. ASSUME NEW h \in Hashes, Pays(h) PROVE LedgerTypes'
  <2>1. [inv[h] EXCEPT !.status = "paid", !.bought = inv[h].sold] \in Invoices
    BY DEF Invoices
  <2> QED BY <1>3, <2>1 DEF Pays
<1>4. ASSUME NEW h \in Hashes, Expires(h) PROVE LedgerTypes'
  <2>1. [inv[h] EXCEPT !.past = TRUE] \in Invoices
    BY DEF Invoices
  <2> QED BY <1>4, <2>1 DEF Expires
<1>5. ASSUME NEW h \in Hashes, Settles(h) PROVE LedgerTypes'
  <2>1. CASE row[h].state = "absent"
    BY <1>5, <2>1 DEF Settles, SettleMintInvoice
  <2>2. CASE row[h].state # "absent"
    <3>1. [row[h] EXCEPT !.state = "settled"] \in Rows BY DEF Rows
    <3>2. row' \in [Hashes -> Rows] /\ \A g \in Hashes : row'[g].output = row[g].output
      BY <1>5, <2>2, <3>1 DEF Settles, SettleMintInvoice, Rows
    <3>3. \A g \in Hashes : row'[g].state # "absent" => row[g].state # "absent"
      BY <1>5, <2>2 DEF Settles, SettleMintInvoice
    <3>4. note' \in [Ids -> NoteStates] /\ origin' \in [Ids -> AnyHash \union {Swapped}]
      BY <1>5, <2>2 DEF Settles, SettleMintInvoice, NoteStates, AnyHash
    <3> QED BY <1>5, <3>2, <3>3, <3>4 DEF Settles
  <2> QED BY <2>1, <2>2
<1>6. ASSUME NEW h \in Hashes, Deletes(h) PROVE LedgerTypes'
  <2>1. NoRow \in Rows /\ NoRow.state = "absent" BY DEF NoRow, Rows, AnyId
  <2> QED BY <1>6, <2>1 DEF Deletes, DeleteUnsettledMintInvoice
<1>7. ASSUME NEW h \in Hashes, NEW i \in Ids, Records(h, i) PROVE LedgerTypes'
  <2>1. [state |-> "unsettled", output |-> i] \in Rows BY DEF Rows, AnyId
  <2>2. [inv[h] EXCEPT !.sold = i] \in Invoices BY DEF Invoices, AnyId
  <2>3. row' \in [Hashes -> Rows] /\ inv' \in [Hashes -> Invoices]
    BY <1>7, <2>1, <2>2 DEF Records, RecordMintInvoice
  <2>4. \A g \in Hashes : row'[g].state # "absent" => row'[g].output \in Ids
    BY <1>7 DEF Records, RecordMintInvoice
  <2> QED BY <1>7, <2>3, <2>4 DEF Records
<1>8. ASSUME NEW i \in Ids, Swaps(i) PROVE LedgerTypes'
  BY <1>8 DEF Swaps, NoteStates, AnyHash
<1>9. ASSUME NEW i \in Ids, Spends(i) PROVE LedgerTypes'
  BY <1>9 DEF Spends, NoteStates
<1> QED BY <1>1, <1>2, <1>3, <1>4, <1>5, <1>6, <1>7, <1>8, <1>9 DEF LedgerWrite

\* A nameable id stays nameable.
LEMMA StillNameable ==
  ASSUME LedgerTypes, LedgerWrite, NEW i, Nameable(i)
  PROVE  Nameable(i)'
  BY Grows DEF Nameable

\* The node's side of an invoice moves and the mint's does not.
LEMMA NodeKeeps ==
  ASSUME LedgerTypes, LedgerInv, UNCHANGED chooser,
         NEW h \in Hashes, Issues(h) \/ Pays(h) \/ Expires(h)
  PROVE  LedgerInv'
<1> USE IssueAssumption
<1>0. UNCHANGED <<note, origin, row>> BY DEF Issues, Pays, Expires
<1>1. /\ \A g \in Hashes : /\ inv'[g].sold = inv[g].sold
                           /\ inv[g].past => inv'[g].past
                           /\ inv[g].status # "none" => inv'[g].status # "none"
                           /\ inv[g].status = "paid" => inv'[g].status = "paid"
                           /\ g # h => inv'[g] = inv[g]
  BY DEF Issues, Pays, Expires, LedgerTypes, Invoices
<1>2. \/ inv'[h].bought = inv[h].bought /\ (inv'[h].status = "paid" => inv[h].status = "paid")
      \/ Pays(h) /\ inv'[h].status = "paid" /\ inv'[h].bought = inv[h].sold
  BY DEF Issues, Pays, Expires, LedgerTypes, Invoices
<1>3. inv'[h].bought # inv[h].bought =>
        /\ row[h].state # "absent" /\ inv[h].bought = NoId
        /\ inv'[h].bought = row[h].output
  BY <1>2 DEF Pays, LedgerInv, RowsAreSales
<1>4. \A i : Nameable(i) => Nameable(i)'
  BY <1>1 DEF Nameable
<1>5. RowsAreSales'
  <2> SUFFICES ASSUME NEW g \in Hashes PROVE 
        (/\ inv[g].bought # NoId => inv[g].status = "paid"
         /\ inv[g].sold # NoId => inv[g].status # "none"
         /\ inv[g].sold # NoId /\ ~inv[g].past => row[g].state # "absent"
         /\ row[g].state # "absent" => inv[g].sold = row[g].output
         /\ row[g].state # "absent" /\ inv[g].status = "paid" => inv[g].bought = row[g].output
         /\ row[g].state = "settled" => inv[g].status = "paid")'
    BY DEF RowsAreSales
  <2> QED BY <1>0, <1>1, <1>2, <1>3 DEF LedgerInv, RowsAreSales
<1>6. NoStrandedPayment'
  BY <1>0, <1>1, <1>3 DEF LedgerInv, NoStrandedPayment
<1>7. MintedNotesWereBought'
  <2>1. \A g \in Hashes : inv[g].bought # NoId => inv'[g].bought = inv[g].bought
    BY <1>1, <1>3
  <2> SUFFICES ASSUME NEW i \in Ids, origin[i] \in Hashes
               PROVE  inv'[origin[i]].bought = i /\ row[origin[i]].state = "settled"
    BY <1>0 DEF MintedNotesWereBought
  <2>2. inv[origin[i]].bought = i /\ row[origin[i]].state = "settled" /\ i # NoId
    BY DEF LedgerInv, MintedNotesWereBought
  <2> QED BY <2>1, <2>2
<1>8. NotesHaveOrigins' /\ PromisedOutputsAreExclusive' /\ PreimagesOpenNothing'
  BY <1>0 DEF LedgerInv, NotesHaveOrigins, PromisedOutputsAreExclusive, PreimagesOpenNothing,
              ChoosesPreimage
<1>9. OnlyNameable'
  BY <1>0, <1>4 DEF LedgerInv, OnlyNameable
<1> QED BY <1>5, <1>6, <1>7, <1>8, <1>9 DEF LedgerInv

\* A row is written: for a hash never sold, or one whose last row was swept
\* unpaid, and for an output that nothing uses.
LEMMA RecordKeeps ==
  ASSUME LedgerTypes, LedgerInv, UNCHANGED chooser,
         NEW h \in Hashes, NEW i \in Ids, Records(h, i)
  PROVE  LedgerInv'
<1> USE IssueAssumption
<1>0. UNCHANGED <<note, origin>> BY DEF Records
<1>1. /\ row[h].state = "absent" /\ note[i] = "absent"
      /\ \A g \in Hashes : row[g].state # "absent" => i # row[g].output /\ i # PayKey[g]
  BY DEF Records, CanRecord, InUse
<1>2. row'[h] = [state |-> "unsettled", output |-> i]
  BY DEF Records, RecordMintInvoice, LedgerTypes
<1>3. \A g \in Hashes : g # h => row'[g] = row[g] /\ inv'[g] = inv[g]
  BY DEF Records, RecordMintInvoice, LedgerTypes
<1>4. /\ inv'[h].sold = i /\ inv'[h].status = inv[h].status
      /\ inv'[h].past = inv[h].past /\ inv'[h].bought = inv[h].bought
  BY DEF Records, LedgerTypes, Invoices
<1>5. inv[h].bought = NoId /\ inv[h].status # "paid" /\ inv[h].status # "none"
  BY <1>1 DEF Records, Unsold, LedgerInv, NoStrandedPayment
<1>6. i # NoId /\ Nameable(i) BY DEF Records
<1>7. \A j : Nameable(j) => Nameable(j)'
  BY <1>3, <1>4, <1>6 DEF Nameable
<1>8. RowsAreSales'
  BY <1>2, <1>3, <1>4, <1>5 DEF LedgerInv, RowsAreSales
<1>9. NoStrandedPayment'
  BY <1>3, <1>4, <1>5 DEF LedgerInv, NoStrandedPayment
<1>10. MintedNotesWereBought'
  <2> SUFFICES ASSUME NEW j \in Ids, origin[j] \in Hashes
               PROVE  inv'[origin[j]].bought = j /\ row'[origin[j]].state = "settled"
    BY <1>0 DEF MintedNotesWereBought
  <2>1. inv[origin[j]].bought = j /\ row[origin[j]].state = "settled"
    BY DEF LedgerInv, MintedNotesWereBought
  <2> QED BY <1>1, <1>3, <2>1
<1>11. PromisedOutputsAreExclusive'
  BY <1>0, <1>1, <1>2, <1>3 DEF LedgerInv, PromisedOutputsAreExclusive
<1>12. OnlyNameable'
  BY <1>0, <1>2, <1>3, <1>6, <1>7 DEF LedgerInv, OnlyNameable
<1>13. PreimagesOpenNothing'
  <2> SUFFICES ASSUME ChoosesPreimage, NEW g \in Hashes, row'[g].state # "absent"
               PROVE  /\ note[PayKey[g]] = "absent"
                      /\ \A f \in Hashes : row'[f].state # "absent" => row'[f].output # PayKey[g]
    BY <1>0 DEF PreimagesOpenNothing, ChoosesPreimage
  <2>1. CASE g # h
    BY <1>1, <1>2, <1>3, <2>1 DEF LedgerInv, PreimagesOpenNothing
  <2>2. CASE g = h
    <3>1. inv[h].sold = NoId BY DEF Records
    <3>2. ~Nameable(PayKey[h]) BY <3>1 DEF Nameable
    <3>3. PayKey[h] \in Ids BY DEF Ids
    <3>4. note[PayKey[h]] = "absent"
      BY <3>2, <3>3 DEF LedgerInv, OnlyNameable
    <3>5. \A f \in Hashes : row[f].state # "absent" => row[f].output # PayKey[h]
      BY <3>2 DEF LedgerInv, OnlyNameable
    <3> QED BY <1>2, <1>3, <1>6, <2>2, <3>2, <3>4, <3>5
  <2> QED BY <2>1, <2>2
<1>14. NotesHaveOrigins' BY <1>0 DEF LedgerInv, NotesHaveOrigins
<1> QED BY <1>8, <1>9, <1>10, <1>11, <1>12, <1>13, <1>14 DEF LedgerInv

\* A settle credits the output of a row that was paid for, and no other.
LEMMA SettleKeeps ==
  ASSUME LedgerTypes, LedgerInv, UNCHANGED chooser, NEW h \in Hashes, Settles(h)
  PROVE  LedgerInv'
<1> USE IssueAssumption
<1> DEFINE i == row[h].output
<1>0. UNCHANGED inv /\ inv[h].status = "paid" BY DEF Settles
<1>1. CASE row[h].state = "absent"
  <2>1. UNCHANGED <<note, origin, row>> BY <1>1 DEF Settles, SettleMintInvoice
  <2> QED BY <1>0, <2>1 DEF LedgerInv, NotesHaveOrigins, RowsAreSales, NoStrandedPayment,
          MintedNotesWereBought, PromisedOutputsAreExclusive, OnlyNameable, Nameable,
          PreimagesOpenNothing, ChoosesPreimage
<1>2. CASE row[h].state # "absent"
  <2>1. row'[h].state = "settled" /\ i \in Ids
    BY <1>2 DEF Settles, SettleMintInvoice, LedgerTypes, Rows
  <2>2. \A g \in Hashes : /\ row'[g].output = row[g].output
                          /\ row'[g].state = "absent" <=> row[g].state = "absent"
                          /\ g # h => row'[g] = row[g]
    BY <1>2 DEF Settles, SettleMintInvoice, LedgerTypes, Rows
  <2>3. \A j \in Ids : j # i => note'[j] = note[j] /\ origin'[j] = origin[j]
    BY <1>2 DEF Settles, SettleMintInvoice, LedgerTypes
  <2>4. /\ note[i] = "absent" => note'[i] = "outstanding" /\ origin'[i] = h
        /\ note[i] # "absent" => note'[i] = note[i] /\ origin'[i] = origin[i]
    BY <1>2, <2>1 DEF Settles, SettleMintInvoice, LedgerTypes
  <2>5. inv[h].bought = i BY <1>0, <1>2 DEF LedgerInv, RowsAreSales
  <2>6. origin'[i] = h /\ note'[i] # "absent"
    <3>1. CASE row[h].state = "unsettled"
      BY <2>4, <3>1 DEF LedgerInv, PromisedOutputsAreExclusive
    <3>2. CASE row[h].state = "settled"
      BY <2>1, <2>4, <3>2 DEF LedgerInv, PromisedOutputsAreExclusive, NotesHaveOrigins
    <3> QED BY <1>2, <3>1, <3>2 DEF LedgerTypes, Rows
  <2>7. \A g \in Hashes : row[g].state # "absent" /\ row[g].output = i => g = h
    BY <1>2 DEF LedgerInv, PromisedOutputsAreExclusive
  <2>8. NotesHaveOrigins'
    BY <2>3, <2>6 DEF LedgerInv, NotesHaveOrigins
  <2>9. RowsAreSales'
    BY <1>0, <2>1, <2>2 DEF LedgerInv, RowsAreSales
  <2>10. NoStrandedPayment'
    BY <1>0, <2>2 DEF LedgerInv, NoStrandedPayment
  <2>11. MintedNotesWereBought'
    <3> SUFFICES ASSUME NEW j \in Ids, origin'[j] \in Hashes
                 PROVE  inv[origin'[j]].bought = j /\ row'[origin'[j]].state = "settled"
      BY <1>0 DEF MintedNotesWereBought
    <3>1. CASE j = i BY <2>1, <2>5, <2>6, <3>1
    <3>2. CASE j # i
      <4>1. origin'[j] = origin[j] BY <2>3, <3>2
      <4>2. inv[origin[j]].bought = j /\ row[origin[j]].state = "settled"
        BY <4>1 DEF LedgerInv, MintedNotesWereBought
      <4> QED BY <2>1, <2>2, <4>1, <4>2
    <3> QED BY <3>1, <3>2
  <2>12. PromisedOutputsAreExclusive'
    <3> SUFFICES ASSUME NEW g \in Hashes
                 PROVE  /\ row'[g].state = "unsettled" => note'[row'[g].output] = "absent"
                        /\ row'[g].state = "settled" => origin'[row'[g].output] = g
                        /\ \A f \in Hashes :
                             row'[g].state # "absent" /\ row'[f].state # "absent"
                             /\ row'[f].output = row'[g].output => f = g
      BY DEF PromisedOutputsAreExclusive
    <3>1. CASE g = h
      BY <2>1, <2>2, <2>6, <2>7, <3>1
    <3>2. CASE g # h
      <4>1. row'[g] = row[g] BY <2>2, <3>2
      <4>2. row[g].state # "absent" => row[g].output # i /\ row[g].output \in Ids
        BY <2>7, <3>2 DEF LedgerTypes
      <4> QED BY <2>2, <2>3, <4>1, <4>2 DEF LedgerInv, PromisedOutputsAreExclusive
    <3> QED BY <3>1, <3>2
  <2>13. OnlyNameable'
    <3>1. Nameable(i) BY <1>2 DEF LedgerInv, OnlyNameable
    <3>2. \A j : Nameable(j)' = Nameable(j) BY <1>0 DEF Nameable
    <3> QED BY <2>2, <2>3, <3>1, <3>2 DEF LedgerInv, OnlyNameable
  <2>14. PreimagesOpenNothing'
    <3> SUFFICES ASSUME ChoosesPreimage, NEW g \in Hashes, row'[g].state # "absent"
                 PROVE  /\ note'[PayKey[g]] = "absent"
                        /\ \A f \in Hashes : row'[f].state # "absent" => row'[f].output # PayKey[g]
      BY DEF PreimagesOpenNothing, ChoosesPreimage
    <3>1. PayKey[g] \in Ids BY DEF Ids
    <3>2. note[PayKey[g]] = "absent" /\ i # PayKey[g]
          /\ \A f \in Hashes : row[f].state # "absent" => row[f].output # PayKey[g]
      BY <1>2, <2>2 DEF LedgerInv, PreimagesOpenNothing
    <3> QED BY <2>2, <2>3, <3>1, <3>2
  <2> QED BY <2>8, <2>9, <2>10, <2>11, <2>12, <2>13, <2>14 DEF LedgerInv
<1> QED BY <1>1, <1>2

\* A row is deleted: its invoice was never paid and now never will be.
LEMMA DeleteKeeps ==
  ASSUME LedgerTypes, LedgerInv, UNCHANGED chooser, NEW h \in Hashes, Deletes(h)
  PROVE  LedgerInv'
<1> USE IssueAssumption
<1>0. UNCHANGED <<note, origin, inv>> BY DEF Deletes
<1>1. \A g \in Hashes : \/ row'[g] = row[g]
                        \/ g = h /\ row'[g] = NoRow /\ row[g].state = "unsettled"
  <2>1. \/ row' = [row EXCEPT ![h] = NoRow] /\ row[h].state = "unsettled"
        \/ row' = row
    BY DEF Deletes, DeleteUnsettledMintInvoice
  <2>2. CASE row' = row BY <2>2
  <2>3. CASE row' = [row EXCEPT ![h] = NoRow] /\ row[h].state = "unsettled"
    <3>1. \A g \in Hashes : row'[g] = IF g = h THEN NoRow ELSE row[g]
      BY <2>3 DEF LedgerTypes
    <3> QED BY <2>3, <3>1
  <2> QED BY <2>1, <2>2, <2>3
<1>2. inv[h].past /\ inv[h].status # "paid" /\ inv[h].bought = NoId
  BY DEF Deletes, LedgerInv, RowsAreSales
<1>3. \A g \in Hashes : row'[g].state # "absent" => row'[g] = row[g]
  BY <1>1 DEF NoRow
<1>4. \A g \in Hashes : row[g].state = "settled" => row'[g] = row[g]
  BY <1>1
<1>5. NotesHaveOrigins' BY <1>0 DEF LedgerInv, NotesHaveOrigins
<1>6. RowsAreSales' BY <1>0, <1>1, <1>2, <1>3 DEF LedgerInv, RowsAreSales, NoRow
<1>7. NoStrandedPayment' BY <1>0, <1>1, <1>2 DEF LedgerInv, NoStrandedPayment
<1>8. MintedNotesWereBought' BY <1>0, <1>4 DEF LedgerInv, MintedNotesWereBought
<1>9. PromisedOutputsAreExclusive'
  BY <1>0, <1>3 DEF LedgerInv, PromisedOutputsAreExclusive, LedgerTypes, Rows
<1>10. OnlyNameable' BY <1>0, <1>3 DEF LedgerInv, OnlyNameable, Nameable
<1>11. PreimagesOpenNothing'
  BY <1>0, <1>3 DEF LedgerInv, PreimagesOpenNothing, ChoosesPreimage
<1> QED BY <1>5, <1>6, <1>7, <1>8, <1>9, <1>10, <1>11 DEF LedgerInv

\* A swap mints at an id that no row promises and no preimage opens.
LEMMA SwapKeeps ==
  ASSUME LedgerTypes, LedgerInv, UNCHANGED chooser, NEW i \in Ids, Swaps(i) \/ Spends(i)
  PROVE  LedgerInv'
<1> USE IssueAssumption
<1>0. UNCHANGED <<row, inv>> BY DEF Swaps, Spends
<1>1. \A j \in Ids : j # i => note'[j] = note[j] /\ origin'[j] = origin[j]
  BY DEF Swaps, Spends, LedgerTypes
<1>2. \/ /\ note[i] = "absent" /\ Nameable(i) /\ origin'[i] = Swapped
         /\ \A h \in Hashes : row[h].state # "absent" => i # row[h].output /\ i # PayKey[h]
      \/ note[i] # "absent" /\ origin'[i] = origin[i]
  BY DEF Swaps, Spends, InUse, LedgerTypes
<1>3. note'[i] # "absent" BY DEF Swaps, Spends, LedgerTypes
<1>4. \A h \in Hashes : PayKey[h] \in Ids BY DEF Ids
<1>5. NotesHaveOrigins'
  BY <1>1, <1>2, <1>3 DEF LedgerInv, NotesHaveOrigins
<1>6. RowsAreSales' /\ NoStrandedPayment'
  BY <1>0 DEF LedgerInv, RowsAreSales, NoStrandedPayment
<1>7. MintedNotesWereBought'
  BY <1>0, <1>1, <1>2 DEF LedgerInv, MintedNotesWereBought
<1>8. PromisedOutputsAreExclusive'
  <2> SUFFICES ASSUME NEW g \in Hashes
               PROVE  /\ row[g].state = "unsettled" => note'[row[g].output] = "absent"
                      /\ row[g].state = "settled" => origin'[row[g].output] = g
    BY <1>0 DEF LedgerInv, PromisedOutputsAreExclusive
  <2>1. row[g].state # "absent" => row[g].output \in Ids BY DEF LedgerTypes
  <2>2. CASE row[g].output = i
    BY <1>2, <2>1, <2>2 DEF LedgerInv, PromisedOutputsAreExclusive
  <2>3. CASE row[g].output # i
    BY <1>1, <2>1, <2>3 DEF LedgerInv, PromisedOutputsAreExclusive
  <2> QED BY <2>2, <2>3
<1>9. OnlyNameable'
  BY <1>0, <1>1, <1>2 DEF LedgerInv, OnlyNameable, Nameable
<1>10. PreimagesOpenNothing'
  <2> SUFFICES ASSUME ChoosesPreimage, NEW g \in Hashes, row[g].state # "absent"
               PROVE  note'[PayKey[g]] = "absent"
    BY <1>0 DEF LedgerInv, PreimagesOpenNothing, ChoosesPreimage
  <2>1. note[PayKey[g]] = "absent" BY DEF LedgerInv, PreimagesOpenNothing
  <2>2. PayKey[g] # i BY <1>2, <2>1
  <2> QED BY <1>1, <1>4, <2>1, <2>2
<1> QED BY <1>5, <1>6, <1>7, <1>8, <1>9, <1>10 DEF LedgerInv

LEMMA LedgerInvStep ==
  ASSUME LedgerTypes, LedgerInv, LedgerWrite, UNCHANGED chooser
  PROVE  LedgerInv'
<1>1. CASE UNCHANGED ledger
  BY <1>1 DEF ledger, LedgerInv, NotesHaveOrigins, RowsAreSales, NoStrandedPayment,
     MintedNotesWereBought, PromisedOutputsAreExclusive, OnlyNameable, Nameable,
     PreimagesOpenNothing, ChoosesPreimage
<1> QED BY <1>1, NodeKeeps, RecordKeeps, SettleKeeps, DeleteKeeps, SwapKeeps DEF LedgerWrite

-----------------------------------------------------------------------------
(* The handlers' own part of the state.                                    *)

LEMMA QuoteTypesStep ==
  ASSUME QuoteTypes, [Next]_vars
  PROVE  QuoteTypes'
<1> USE DEF QuoteTypes
<1>0. UNCHANGED chooser BY DEF Next, vars
<1>1. CASE UNCHANGED quote
  BY <1>0, <1>1 DEF ChoosesPreimage
<1>2. ASSUME NEW r \in Quotes, NEW q \in QuoteStates, quote' = [quote EXCEPT ![r] = q],
             q.pc # "idle" => q.output \in Ids,
             q.pc \in {"created", "checking"} => q.hash \in Hashes,
             ChoosesPreimage /\ q.pc = "creating" => q.hash \in Hashes
      PROVE  QuoteTypes'
  BY <1>0, <1>2 DEF ChoosesPreimage
<1>3. ASSUME NEW r \in Quotes, NEW i \in Ids, Ask(r, i) PROVE QuoteTypes'
  <2>1. PICK h \in IF ChoosesPreimage THEN FreshHashes(i) ELSE {NoHash} :
          quote' = [quote EXCEPT ![r] =
                      [pc |-> "creating", output |-> i, hash |-> h, answer |-> "none"]]
    BY <1>3 DEF Ask
  <2>2. h \in AnyHash /\ (ChoosesPreimage => h \in Hashes) BY DEF FreshHashes, AnyHash
  <2>3. [pc |-> "creating", output |-> i, hash |-> h, answer |-> "none"] \in QuoteStates
    BY <2>2 DEF QuoteStates, AnyId, Answers
  <2> QED BY <1>2, <2>1, <2>2, <2>3
<1>4. ASSUME NEW r \in Quotes, CheckHash(r) PROVE QuoteTypes'
  <2>1. [quote[r] EXCEPT !.pc = "checking"] \in QuoteStates BY DEF QuoteStates
  <2>2. quote' = [quote EXCEPT ![r] = [quote[r] EXCEPT !.pc = "checking"]]
    BY <1>4 DEF CheckHash
  <2>3. quote[r].output \in Ids /\ quote[r].hash \in Hashes BY <1>4 DEF CheckHash
  <2> QED BY <1>2, <2>1, <2>2, <2>3 DEF QuoteStates
<1>5. ASSUME NEW r \in Quotes, Record(r) \/ Refuse(r) PROVE QuoteTypes'
  <2>1. [quote[r] EXCEPT !.pc = "done", !.answer = "none"] \in QuoteStates
    BY DEF QuoteStates, Answers
  <2>2. quote' = [quote EXCEPT ![r] = [quote[r] EXCEPT !.pc = "done", !.answer = "none"]]
    BY <1>5 DEF Record, Refuse
  <2>3. quote[r].pc # "idle" /\ quote[r].output \in Ids BY <1>5 DEF Record, Refuse, Checked
  <2> QED BY <1>2, <2>1, <2>2, <2>3 DEF QuoteStates
<1>6. ASSUME NEW r \in Quotes, NodeIssues(r) PROVE QuoteTypes'
  <2>1. PICK h \in Issuable(r) : quote' = [quote EXCEPT ![r].pc = "created", ![r].hash = h]
    BY <1>6 DEF NodeIssues
  <2>2. h \in Hashes /\ quote[r].output \in Ids BY <1>6 DEF NodeIssues, Issuable
  <2>3. [quote[r] EXCEPT !.pc = "created", !.hash = h] \in QuoteStates
    BY <2>2 DEF QuoteStates, AnyHash
  <2>4. quote' = [quote EXCEPT ![r] = [quote[r] EXCEPT !.pc = "created", !.hash = h]]
    BY <2>1
  <2> QED BY <1>2, <2>2, <2>3, <2>4 DEF QuoteStates
<1>7. ASSUME NEW r \in Quotes, AnswerQuote(r) PROVE QuoteTypes'
  <2>1. PICK a \in NodeAnswers(quote[r].hash) : quote' = [quote EXCEPT ![r].answer = a]
    BY <1>7 DEF AnswerQuote
  <2>2. [quote[r] EXCEPT !.answer = a] \in QuoteStates
    BY <2>1 DEF QuoteStates, NodeAnswers, Answers
  <2> QED BY <1>2, <2>1, <2>2 DEF QuoteStates
<1>8. CASE Crash
  <2>1. \A r \in Quotes : [quote[r] EXCEPT !.pc = "done", !.answer = "none"] \in QuoteStates
    BY DEF QuoteStates, Answers
  <2>2. \A r \in Quotes : quote'[r] = IF quote[r].pc = "idle" THEN quote[r]
                           ELSE [quote[r] EXCEPT !.pc = "done", !.answer = "none"]
    BY <1>8 DEF Crash
  <2>3. quote' \in [Quotes -> QuoteStates]
    BY <1>8, <2>1 DEF Crash
  <2>4. \A r \in Quotes : /\ quote'[r].pc # "idle" => quote[r].pc # "idle"
                          /\ quote'[r].output = quote[r].output
                          /\ quote'[r].pc \in {"idle", "done"}
    <3> TAKE r \in Quotes
    <3>1. CASE quote[r].pc = "idle" BY <2>2, <3>1
    <3>2. CASE quote[r].pc # "idle"
      <4>1. quote'[r] = [quote[r] EXCEPT !.pc = "done", !.answer = "none"] BY <2>2, <3>2
      <4>2. quote[r] \in QuoteStates OBVIOUS
      <4> QED BY <3>2, <4>1, <4>2 DEF QuoteStates
    <3> QED BY <3>1, <3>2
  <2> QED BY <1>0, <2>3, <2>4 DEF ChoosesPreimage
<1> QED
  BY <1>1, <1>3, <1>4, <1>5, <1>6, <1>7, <1>8
     DEF Next, vars, Step, QuoteStep, CheckStep, SweepStep, NodeStep, Look, CheckSettles,
         CheckFindsUnpaid, CheckFails, SweepStart, SweepActs, Pay, Expire, AnswerCheck,
         AnswerSweep, SwapInto, SpendNote

\* A claim, a verify or a stream's handler, and what it knows when it writes.
LEMMA ChecksStep ==
  ASSUME Types, Known, [Next]_vars
  PROVE  CheckTypes' /\ ChecksKnow'
<1> USE DEF CheckTypes, ChecksKnow
<1>0. /\ check \in [Checks -> CheckStates] /\ LedgerTypes /\ LedgerWrite
      /\ \A c \in Checks :
           /\ check[c].answer # "none" => check[c].pc = "asking"
           /\ check[c].pc = "asking" => check[c].hash \in Hashes
           /\ check[c].answer = "yes" => inv[check[c].hash].status = "paid"
  BY StepWrites DEF Types, Known
<1>1. \A c \in Checks : check[c].answer = "yes" => inv'[check[c].hash].status = "paid"
  BY <1>0, Grows
<1>2. CASE UNCHANGED check
  BY <1>0, <1>1, <1>2
<1>3. ASSUME NEW c \in Checks, NEW d \in CheckStates, check' = [check EXCEPT ![c] = d],
             d.answer # "none" => d.pc = "asking", d.pc = "asking" => d.hash \in Hashes,
             d.answer = "yes" => inv'[d.hash].status = "paid"
      PROVE  CheckTypes' /\ ChecksKnow'
  BY <1>0, <1>1, <1>3
<1>4. /\ IdleCheck \in CheckStates /\ [IdleCheck EXCEPT !.pc = "threw"] \in CheckStates
      /\ IdleCheck.answer = "none" /\ IdleCheck.pc = "idle"
      /\ [IdleCheck EXCEPT !.pc = "threw"].answer = "none"
      /\ [IdleCheck EXCEPT !.pc = "threw"].pc = "threw"
  BY DEF IdleCheck, CheckStates, AnyHash, Answers
<1>5. ASSUME NEW c \in Checks, Rereads(c) \/ CheckFails(c) PROVE CheckTypes' /\ ChecksKnow'
  BY <1>3, <1>4, <1>5 DEF Rereads, CheckFails
<1>6. ASSUME NEW c \in Checks, NEW h \in Hashes, Look(c, h) PROVE CheckTypes' /\ ChecksKnow'
  <2>1. PICK v \in BOOLEAN :
          check' = [check EXCEPT ![c] = [check[c] EXCEPT !.pc = "asking", !.hash = h, !.verify = v]]
    BY <1>6 DEF Look
  <2>2. check[c] \in CheckStates /\ check[c].answer = "none" BY <1>0, <1>6 DEF Look
  <2>3. [check[c] EXCEPT !.pc = "asking", !.hash = h, !.verify = v] \in CheckStates
    BY <2>2 DEF CheckStates, AnyHash
  <2>4. [check[c] EXCEPT !.pc = "asking", !.hash = h, !.verify = v].answer = "none"
    BY <2>2 DEF CheckStates
  <2>5. [check[c] EXCEPT !.pc = "asking", !.hash = h, !.verify = v].hash = h
    BY <2>2 DEF CheckStates
  <2> QED BY <1>3, <2>1, <2>3, <2>4, <2>5
<1>7. ASSUME NEW c \in Checks, AnswerCheck(c) PROVE CheckTypes' /\ ChecksKnow'
  <2>1. PICK a \in NodeAnswers(check[c].hash) : check' = [check EXCEPT ![c].answer = a]
    BY <1>7 DEF AnswerCheck
  <2>2. check[c] \in CheckStates /\ check[c].pc = "asking" /\ check[c].hash \in Hashes
    BY <1>0, <1>7 DEF AnswerCheck
  <2>3. a \in Answers /\ (a = "yes" => inv[check[c].hash].status = "paid")
    BY <2>1 DEF NodeAnswers, Answers
  <2>4. a = "yes" => inv'[check[c].hash].status = "paid"
    BY <1>0, <2>2, <2>3, Grows
  <2>5. [check[c] EXCEPT !.answer = a] \in CheckStates BY <2>2, <2>3 DEF CheckStates
  <2>6. check' = [check EXCEPT ![c] = [check[c] EXCEPT !.answer = a]] BY <2>1
  <2> QED BY <1>3, <2>2, <2>4, <2>5, <2>6 DEF CheckStates
<1>8. CASE Crash
  <2>1. check' = [c \in Checks |-> IdleCheck] BY <1>8 DEF Crash
  <2> QED BY <1>4, <2>1
<1>9. CASE \E c \in Checks : CheckStep(c)
  BY <1>5, <1>6, <1>9 DEF CheckStep, CheckSettles, CheckFindsUnpaid
<1> QED
  BY <1>2, <1>7, <1>8, <1>9
     DEF Next, vars, Step, QuoteStep, SweepStep, NodeStep, Ask, CheckHash, Record, Refuse,
         SweepStart, SweepActs, NodeIssues, AnswerQuote, Pay, Expire, AnswerSweep, SwapInto,
         SpendNote

\* A sweep asks about invoices that can no longer be paid, so what the node
\* said of them is still so when it acts.
LEMMA SweepsStep ==
  ASSUME Types, Known, [Next]_vars
  PROVE  SweepTypes' /\ SweepsKnow'
<1> USE DEF SweepTypes, SweepsKnow
<1> DEFINE Fine(w) == /\ w \in SweepStates
                      /\ w.answer # "none" => w.pc = "asking"
                      /\ w.pc = "asking" => w.at \in Hashes
                      /\ w.pc = "asking" => \A h \in w.todo \union {w.at} : inv'[h].past
                      /\ w.answer = "yes" => inv'[w.at].status = "paid"
                      /\ w.answer = "no" => inv'[w.at].status # "paid"
<1>0. LedgerTypes /\ LedgerWrite BY StepWrites DEF Types, Known
<1>1. \A s \in Sweeps : Fine(sweep[s])
  <2> TAKE s \in Sweeps
  <2>1. /\ sweep[s] \in SweepStates
        /\ sweep[s].answer # "none" => sweep[s].pc = "asking"
        /\ sweep[s].pc = "asking" => sweep[s].at \in Hashes
        /\ sweep[s].pc = "asking" => \A h \in sweep[s].todo \union {sweep[s].at} : inv[h].past
        /\ sweep[s].answer = "yes" => inv[sweep[s].at].status = "paid"
        /\ sweep[s].answer = "no" => inv[sweep[s].at].status # "paid"
    BY DEF Types, Known
  <2>2. sweep[s].todo \in SUBSET Hashes BY <2>1 DEF SweepStates
  <2>3. \A h \in Hashes : inv[h].past => inv'[h].past BY <1>0, Grows
  <2>4. sweep[s].pc = "asking" => \A h \in sweep[s].todo \union {sweep[s].at} : inv'[h].past
    BY <2>1, <2>2, <2>3
  <2>5. sweep[s].answer = "yes" => inv'[sweep[s].at].status = "paid"
    BY <1>0, <2>1, Grows
  <2>6. sweep[s].answer = "no" => inv'[sweep[s].at].status # "paid"
    BY <1>0, <2>1, Grows
  <2> QED BY <2>1, <2>4, <2>5, <2>6
<1>2. ASSUME sweep' \in [Sweeps -> SweepStates], \A s \in Sweeps : Fine(sweep'[s])
      PROVE  SweepTypes' /\ SweepsKnow'
  BY <1>2
<1>3. sweep \in [Sweeps -> SweepStates] BY DEF Types
<1>4. CASE UNCHANGED sweep
  BY <1>1, <1>2, <1>3, <1>4
<1>5. ASSUME NEW s \in Sweeps, NEW w, Fine(w), sweep' = [sweep EXCEPT ![s] = w]
      PROVE  SweepTypes' /\ SweepsKnow'
  <2>1. \A t \in Sweeps : sweep'[t] = IF t = s THEN w ELSE sweep[t] BY <1>3, <1>5
  <2>2. \A t \in Sweeps : Fine(sweep'[t]) BY <1>1, <1>5, <2>1
  <2> HIDE DEF Fine
  <2>3. w \in SweepStates BY <1>5 DEF Fine
  <2>4. sweep' \in [Sweeps -> SweepStates] BY <1>3, <1>5, <2>3
  <2> QED BY <1>2, <2>2, <2>4
<1>6. Fine(IdleSweep)
  BY DEF IdleSweep, SweepStates, AnyHash, Answers
<1>7. ASSUME NEW todo \in SUBSET Hashes, \A h \in todo : inv'[h].past,
             NEW w \in NextStale(todo)
      PROVE  Fine(w)
  <2>1. CASE todo = {} BY <1>6, <1>7, <2>1 DEF NextStale
  <2>2. CASE todo # {}
    <3>1. PICK h \in todo : w = [pc |-> "asking", todo |-> todo \ {h}, at |-> h, answer |-> "none"]
      BY <1>7, <2>2 DEF NextStale
    <3>2. w \in SweepStates BY <3>1 DEF SweepStates, AnyHash, Answers
    <3> QED BY <1>7, <3>1, <3>2
  <2> QED BY <2>1, <2>2
<1>8. ASSUME NEW s \in Sweeps, SweepStart(s) PROVE SweepTypes' /\ SweepsKnow'
  <2>1. Stale \in SUBSET Hashes /\ \A h \in Stale : inv'[h].past
    BY <1>0, Grows DEF Stale
  <2>2. PICK w \in NextStale(Stale) : sweep' = [sweep EXCEPT ![s] = w]
    BY <1>8 DEF SweepStart
  <2> HIDE DEF Fine
  <2>3. Fine(w) BY <1>7, <2>1
  <2> QED BY <1>5, <2>2, <2>3
<1>9. ASSUME NEW s \in Sweeps, SweepActs(s) PROVE SweepTypes' /\ SweepsKnow'
  <2>1. sweep[s].pc = "asking" BY <1>1, <1>9 DEF SweepActs
  <2>2. sweep[s].todo \in SUBSET Hashes BY <1>1 DEF SweepStates
  <2>3. \A h \in sweep[s].todo : inv'[h].past BY <1>1, <2>1
  <2>4. PICK w \in NextStale(sweep[s].todo) : sweep' = [sweep EXCEPT ![s] = w]
    BY <1>9 DEF SweepActs
  <2> HIDE DEF Fine
  <2>5. Fine(w) BY <1>7, <2>2, <2>3
  <2> QED BY <1>5, <2>4, <2>5
<1>10. ASSUME NEW s \in Sweeps, AnswerSweep(s) PROVE SweepTypes' /\ SweepsKnow'
  <2>1. PICK a \in NodeAnswers(sweep[s].at) : sweep' = [sweep EXCEPT ![s].answer = a]
    BY <1>10 DEF AnswerSweep
  <2>2. sweep[s].pc = "asking" BY <1>10 DEF AnswerSweep
  <2>3. /\ a \in Answers
        /\ a = "yes" => inv[sweep[s].at].status = "paid"
        /\ a = "no" => inv[sweep[s].at].status # "paid"
    BY <2>1 DEF NodeAnswers, Answers
  <2>4. UNCHANGED inv BY <1>10 DEF AnswerSweep
  <2>5. [sweep[s] EXCEPT !.answer = a] \in SweepStates BY <1>1, <2>3 DEF SweepStates
  <2> DEFINE w == [sweep[s] EXCEPT !.answer = a]
  <2>6. w.pc = sweep[s].pc /\ w.at = sweep[s].at /\ w.todo = sweep[s].todo /\ w.answer = a
    BY <1>1 DEF SweepStates
  <2>7. Fine(w) BY <1>1, <2>2, <2>3, <2>4, <2>5, <2>6
  <2>8. sweep' = [sweep EXCEPT ![s] = w] BY <2>1
  <2> HIDE DEF Fine, w
  <2> QED BY <1>5, <2>7, <2>8
<1>11. CASE Crash
  <2>1. PICK dead \in SUBSET Sweeps :
          sweep' = [s \in Sweeps |-> IF s \in dead THEN IdleSweep ELSE sweep[s]]
    BY <1>11 DEF Crash
  <2>2. IdleSweep \in SweepStates BY <1>6
  <2>3. sweep' \in [Sweeps -> SweepStates] BY <1>3, <2>1, <2>2
  <2>4. \A s \in Sweeps : sweep'[s] = IdleSweep \/ sweep'[s] = sweep[s] BY <2>1
  <2> HIDE DEF Fine
  <2>5. \A s \in Sweeps : Fine(sweep'[s]) BY <1>1, <1>6, <2>4
  <2> QED BY <1>2, <2>3, <2>5
<1> QED
  BY <1>4, <1>8, <1>9, <1>10, <1>11
     DEF Next, vars, Step, QuoteStep, CheckStep, SweepStep, NodeStep, Ask, CheckHash, Record,
         Refuse, Look, CheckSettles, CheckFindsUnpaid, CheckFails, NodeIssues, AnswerQuote,
         Pay, Expire, AnswerCheck, SwapInto, SpendNote

\* A quote's handler: what it has read of the ledger stays true while the
\* node is slow.
LEMMA QuotesStep ==
  ASSUME Types, LedgerInv, Known, [Next]_vars
  PROVE  QuotesKnow'
<1> DEFINE Named(i) == i \in Outputs \/ \E h \in Hashes : i = PayKey[h] /\ inv'[h].sold # NoId
           Clear(h) == inv'[h].status # "paid" \/ inv'[h].bought # NoId
           Fine(q) ==
      /\ q.pc # "idle" => Named(q.output)
      /\ q.pc \in {"created", "checking"} => inv'[q.hash].status # "none"
      /\ q.pc = "checking" => ~ChoosesPreimage
      /\ q.answer # "none" => q.pc = "checking"
      /\ q.pc = "checking" /\ q.answer = "no" => Clear(q.hash)
<1>0. LedgerTypes /\ LedgerWrite /\ UNCHANGED chooser
  BY StepWrites DEF Types, Known, Next, vars
<1>1. quote \in [Quotes -> QuoteStates] BY DEF Types, QuoteTypes
<1>2. \A r \in Quotes : Fine(quote[r])
  <2> TAKE r \in Quotes
  <2>1. quote[r].pc \in {"created", "checking"} => quote[r].hash \in Hashes
    BY DEF Types, QuoteTypes
  <2>2. quote[r].pc # "idle" => Nameable(quote[r].output)
    BY DEF Known, QuotesKnow
  <2>3. quote[r].pc # "idle" => Named(quote[r].output)
    BY <1>0, <2>2, Grows DEF Nameable
  <2>4. quote[r].pc \in {"created", "checking"} => inv'[quote[r].hash].status # "none"
    BY <1>0, <2>1, Grows DEF Known, QuotesKnow
  <2>5. quote[r].pc = "checking" /\ quote[r].answer = "no" => Clear(quote[r].hash)
    BY <1>0, <2>1, Grows DEF Known, QuotesKnow, Unsold
  <2> QED BY <2>3, <2>4, <2>5 DEF Known, QuotesKnow
<1>3. ASSUME \A r \in Quotes : Fine(quote'[r]) PROVE QuotesKnow'
  BY <1>0, <1>3 DEF QuotesKnow, ChoosesPreimage, Nameable, Unsold
<1>4. CASE UNCHANGED quote
  BY <1>2, <1>3, <1>4
<1>5. ASSUME NEW r \in Quotes, NEW q, Fine(q), quote' = [quote EXCEPT ![r] = q]
      PROVE  QuotesKnow'
  <2>1. \A p \in Quotes : quote'[p] = IF p = r THEN q ELSE quote[p] BY <1>1, <1>5
  <2> HIDE DEF Fine
  <2> QED BY <1>2, <1>3, <1>5, <2>1
<1>6. ASSUME NEW r \in Quotes, NEW i \in Ids, Ask(r, i) PROVE QuotesKnow'
  <2>1. PICK h : quote' = [quote EXCEPT ![r] =
                   [pc |-> "creating", output |-> i, hash |-> h, answer |-> "none"]]
    BY <1>6 DEF Ask
  <2>2. Named(i) BY <1>6 DEF Ask, Nameable
  <2> QED BY <1>5, <2>1, <2>2
<1>7. ASSUME NEW r \in Quotes, CheckHash(r) PROVE QuotesKnow'
  <2> DEFINE q == [quote[r] EXCEPT !.pc = "checking"]
  <2>1. quote' = [quote EXCEPT ![r] = q] BY <1>7 DEF CheckHash
  <2>2. /\ q.pc = "checking" /\ q.output = quote[r].output /\ q.hash = quote[r].hash
        /\ q.answer = quote[r].answer /\ quote[r].pc = "created" /\ ~ChoosesPreimage
    BY <1>1, <1>7 DEF CheckHash, QuoteStates
  <2>3. Named(q.output) /\ inv'[q.hash].status # "none" BY <1>2, <2>2
  <2>4. q.answer = "none" BY <2>2 DEF Known, QuotesKnow
  <2>5. Fine(q) BY <2>2, <2>3, <2>4
  <2> HIDE DEF Fine, q
  <2> QED BY <1>5, <2>1, <2>5
<1>8. ASSUME NEW r \in Quotes, Record(r) \/ Refuse(r) PROVE QuotesKnow'
  <2> DEFINE q == [quote[r] EXCEPT !.pc = "done", !.answer = "none"]
  <2>1. quote' = [quote EXCEPT ![r] = q] BY <1>8 DEF Record, Refuse
  <2>2. q.pc = "done" /\ q.output = quote[r].output /\ q.answer = "none"
    BY <1>1 DEF QuoteStates
  <2>3. quote[r].pc # "idle" BY <1>8 DEF Record, Refuse, Checked
  <2>4. Fine(q) BY <1>2, <2>2, <2>3
  <2> HIDE DEF Fine, q
  <2> QED BY <1>5, <2>1, <2>4
<1>9. ASSUME NEW r \in Quotes, NodeIssues(r) PROVE QuotesKnow'
  <2>1. PICK h \in Issuable(r) :
          /\ quote' = [quote EXCEPT ![r].pc = "created", ![r].hash = h]
          /\ inv' = [inv EXCEPT ![h].status = IF @ = "none" THEN "open" ELSE @]
    BY <1>9 DEF NodeIssues
  <2>2. h \in Hashes /\ quote[r].pc = "creating"
    BY <1>9 DEF NodeIssues, Issuable, Types, QuoteTypes
  <2> DEFINE q == [quote[r] EXCEPT !.pc = "created", !.hash = h]
  <2>3. quote' = [quote EXCEPT ![r] = q] BY <2>1
  <2>4. q.pc = "created" /\ q.output = quote[r].output /\ q.hash = h /\ q.answer = quote[r].answer
    BY <1>1, <2>2 DEF QuoteStates, AnyHash
  <2>5. inv'[h].status # "none"
    BY <1>0, <2>1, <2>2 DEF LedgerTypes, Invoices
  <2>6. Named(q.output) BY <1>2, <2>2, <2>4
  <2>7. q.answer = "none" BY <2>2, <2>4 DEF Known, QuotesKnow
  <2>8. Fine(q) BY <2>4, <2>5, <2>6, <2>7
  <2> HIDE DEF Fine, q
  <2> QED BY <1>5, <2>3, <2>8
<1>10. ASSUME NEW r \in Quotes, AnswerQuote(r) PROVE QuotesKnow'
  <2>1. PICK a \in NodeAnswers(quote[r].hash) : quote' = [quote EXCEPT ![r].answer = a]
    BY <1>10 DEF AnswerQuote
  <2> DEFINE q == [quote[r] EXCEPT !.answer = a]
  <2>2. quote' = [quote EXCEPT ![r] = q] BY <2>1
  <2>3. q.pc = quote[r].pc /\ q.output = quote[r].output /\ q.hash = quote[r].hash /\ q.answer = a
    BY <1>1 DEF QuoteStates
  <2>4. quote[r].pc = "checking" /\ UNCHANGED inv BY <1>10 DEF AnswerQuote
  <2>5. a = "no" => Clear(quote[r].hash) BY <2>1, <2>4 DEF NodeAnswers, Unsold
  <2>6. Fine(q) BY <1>2, <2>3, <2>4, <2>5
  <2> HIDE DEF Fine, q
  <2> QED BY <1>5, <2>2, <2>6
<1>11. CASE Crash
  <2> SUFFICES ASSUME NEW r \in Quotes PROVE Fine(quote'[r])
    BY <1>3
  <2>1. CASE quote[r].pc = "idle"
    BY <1>2, <1>11, <2>1 DEF Crash
  <2>2. CASE quote[r].pc # "idle"
    <3> DEFINE q == [quote[r] EXCEPT !.pc = "done", !.answer = "none"]
    <3>1. quote'[r] = q BY <1>11, <2>2 DEF Crash
    <3>2. q.pc = "done" /\ q.output = quote[r].output /\ q.answer = "none"
      BY <1>1 DEF QuoteStates
    <3>3. Fine(q) BY <1>2, <2>2, <3>2
    <3> QED BY <3>1, <3>3
  <2> QED BY <2>1, <2>2
<1> QED
  BY <1>4, <1>6, <1>7, <1>8, <1>9, <1>10, <1>11
     DEF Next, vars, Step, QuoteStep, CheckStep, SweepStep, NodeStep, Look, CheckSettles,
         CheckFindsUnpaid, CheckFails, SweepStart, SweepActs, Pay, Expire, AnswerCheck,
         AnswerSweep, SwapInto, SpendNote

\* Nobody but its quote can sell, or be paid for, a preimage the mint drew.
LEMMA OwnPreimagesStep ==
  ASSUME Types, LedgerInv, Known, [Next]_vars
  PROVE  OwnPreimages'
<1> DEFINE Drawing(r) == quote[r].pc \in {"creating", "created"}
           Unsoldable(h) == inv[h].sold = NoId /\ inv[h].status # "paid"
<1>0. LedgerTypes /\ LedgerWrite /\ UNCHANGED chooser
  BY StepWrites DEF Types, Known, Next, vars
<1>1. quote \in [Quotes -> QuoteStates] BY DEF Types, QuoteTypes
<1> SUFFICES ASSUME ChoosesPreimage
             PROVE  \A r \in Quotes :
                      /\ Drawing(r)' => Unsoldable(quote[r].hash)'
                      /\ \A q \in Quotes :
                           quote'[q].hash = quote'[r].hash /\ quote'[r].hash # NoHash => q = r
  BY <1>0 DEF OwnPreimages, ChoosesPreimage
<1>2. \A r \in Quotes : Drawing(r) => quote[r].hash \in Hashes /\ Unsoldable(quote[r].hash)
  BY DEF Types, QuoteTypes, Known, OwnPreimages
<1>3. \A r, q \in Quotes : quote[q].hash = quote[r].hash /\ quote[r].hash # NoHash => q = r
  BY DEF Known, OwnPreimages
<1>4. CASE (\E r \in Quotes, i \in Ids : Ask(r, i))
  <2>0. PICK r \in Quotes, i \in Ids : Ask(r, i) BY <1>4
  <2>1. PICK h \in FreshHashes(i) :
          quote' = [quote EXCEPT ![r] =
                      [pc |-> "creating", output |-> i, hash |-> h, answer |-> "none"]]
    BY <2>0 DEF Ask
  <2>2. UNCHANGED inv BY <2>0 DEF Ask
  <2>3. h \in Hashes /\ Unsoldable(h) /\ \A q \in Quotes : quote[q].hash # h
    BY DEF FreshHashes, LedgerInv, RowsAreSales
  <2>4. \A q \in Quotes : q # r => quote'[q] = quote[q] BY <1>1, <2>1
  <2>5. quote'[r].hash = h BY <1>1, <2>1
  <2>6. \A q \in Quotes : Drawing(q)' => Unsoldable(quote[q].hash)'
    BY <1>2, <2>2, <2>3, <2>4, <2>5
  <2> QED BY <1>3, <2>3, <2>4, <2>5, <2>6
<1>5. CASE ~\E r \in Quotes, i \in Ids : Ask(r, i)
  <2>1. \A r \in Quotes : quote'[r].hash = quote[r].hash /\ (Drawing(r)' => Drawing(r))
    <3>1. ASSUME NEW r \in Quotes, NodeIssues(r)
          PROVE  /\ \A q \in Quotes : quote'[q].hash = quote[q].hash
                 /\ \A q \in Quotes : Drawing(q)' => Drawing(q)
      <4>1. quote' = [quote EXCEPT ![r].pc = "created", ![r].hash = quote[r].hash]
        BY <3>1 DEF NodeIssues, Issuable
      <4>2. Drawing(r) BY <3>1 DEF NodeIssues
      <4> QED BY <1>1, <4>1, <4>2 DEF QuoteStates
    <3>2. ASSUME NEW r \in Quotes, CheckHash(r) \/ AnswerQuote(r)
          PROVE  /\ \A q \in Quotes : quote'[q].hash = quote[q].hash
                 /\ \A q \in Quotes : Drawing(q)' => Drawing(q)
      BY <1>1, <3>2 DEF CheckHash, AnswerQuote, QuoteStates
    <3>3. ASSUME NEW r \in Quotes, Record(r) \/ Refuse(r)
          PROVE  /\ \A q \in Quotes : quote'[q].hash = quote[q].hash
                 /\ \A q \in Quotes : Drawing(q)' => Drawing(q)
      BY <1>1, <3>3 DEF Record, Refuse, QuoteStates
    <3>4. ASSUME Crash, NEW r \in Quotes
          PROVE  quote'[r].hash = quote[r].hash /\ (Drawing(r)' => Drawing(r))
      <4>1. CASE quote[r].pc = "idle" BY <3>4, <4>1 DEF Crash
      <4>2. CASE quote[r].pc # "idle"
        <5>1. quote'[r] = [quote[r] EXCEPT !.pc = "done", !.answer = "none"]
          BY <3>4, <4>2 DEF Crash
        <5>2. quote[r] \in QuoteStates BY <1>1
        <5> QED BY <5>1, <5>2 DEF QuoteStates
      <4> QED BY <4>1, <4>2
    <3>5. CASE UNCHANGED quote BY <3>5
    <3> HIDE DEF Drawing
    <3> QED
      BY <1>5, <3>1, <3>2, <3>3, <3>4, <3>5
         DEF Next, vars, Step, QuoteStep, CheckStep, SweepStep, NodeStep, Look, CheckSettles,
             CheckFindsUnpaid, CheckFails, SweepStart, SweepActs, Pay, Expire, AnswerCheck,
             AnswerSweep, SwapInto, SpendNote
  <2>2. \A r \in Quotes : Drawing(r) /\ Drawing(r)' => inv'[quote[r].hash].sold = NoId
    <3> SUFFICES ASSUME NEW r \in Quotes, Drawing(r), Drawing(r)',
                        inv'[quote[r].hash].sold # NoId
                 PROVE  FALSE
      OBVIOUS
    <3>1. PICK q \in Quotes : Record(q) /\ inv'[quote[r].hash] # inv[quote[r].hash]
      <4>1. inv' # inv BY <1>2
      <4>2. ASSUME NEW h \in Hashes, Pay(h) \/ Expire(h) PROVE FALSE
        BY <1>2, <4>2 DEF Pay, Expire, Types, LedgerTypes, Invoices
      <4>3. ASSUME NEW q \in Quotes, NodeIssues(q) PROVE FALSE
        <5>1. PICK h : inv' = [inv EXCEPT ![h].status = IF @ = "none" THEN "open" ELSE @]
          BY <4>3 DEF NodeIssues
        <5> QED BY <1>2, <5>1 DEF Types, LedgerTypes, Invoices
      <4>4. inv'[quote[r].hash] # inv[quote[r].hash] BY <1>2
      <4> QED
        BY <4>1, <4>2, <4>3, <4>4
           DEF Next, vars, Step, QuoteStep, CheckStep, SweepStep, NodeStep, Ask, CheckHash,
               Refuse, Look, CheckSettles, CheckFindsUnpaid, CheckFails, SweepStart, SweepActs,
               AnswerQuote, AnswerCheck, AnswerSweep, SwapInto, SpendNote, Crash
    <3>2. quote[q].hash = quote[r].hash /\ quote[r].hash # NoHash
      <4>1. quote[r].hash \in Hashes BY <1>2
      <4>2. inv' = [inv EXCEPT ![quote[q].hash].sold = quote[q].output] BY <3>1 DEF Record
      <4> QED BY <1>0, <3>1, <4>1, <4>2, IssueAssumption DEF LedgerTypes
    <3>3. q = r BY <1>3, <3>2
    <3>4. quote'[r].pc = "done" BY <1>1, <3>1, <3>3 DEF Record, QuoteStates
    <3> QED BY <3>4
  <2>3. \A r \in Quotes : Drawing(r) => inv'[quote[r].hash].status # "paid"
    BY <1>0, <1>2, Grows
  <2> QED BY <1>3, <2>1, <2>2, <2>3
<1> QED BY <1>4, <1>5

-----------------------------------------------------------------------------
(* The theorems.                                                           *)

LEMMA IInvInit == Init => IInv
<1> SUFFICES ASSUME Init PROVE IInv OBVIOUS
<1> USE IssueAssumption
<1>1. LedgerTypes
  BY DEF Init, LedgerTypes, NoteStates, AnyHash, Rows, NoRow, AnyId, Invoices
<1>2. QuoteTypes
  BY DEF Init, QuoteTypes, QuoteStates, IdleQuote, AnyId, AnyHash, Answers
<1>3. CheckTypes /\ SweepTypes
  BY DEF Init, CheckTypes, CheckStates, IdleCheck, SweepTypes, SweepStates, IdleSweep, AnyHash,
         Answers
<1>4. crashes \in 0..MaxCrashes BY DEF Init, IssueAssumption
<1>5. \A h \in Hashes : /\ row[h].state = "absent" /\ inv[h].sold = NoId /\ inv[h].bought = NoId
                        /\ ~inv[h].past
  BY DEF Init, NoRow
<1>6. LedgerInv
  BY <1>5 DEF Init, LedgerInv, NotesHaveOrigins, RowsAreSales, NoStrandedPayment,
     MintedNotesWereBought, PromisedOutputsAreExclusive, OnlyNameable, PreimagesOpenNothing
<1>7. Known
  BY DEF Init, Known, QuotesKnow, OwnPreimages, ChecksKnow, SweepsKnow, IdleQuote, IdleCheck,
         IdleSweep
<1> QED BY <1>1, <1>2, <1>3, <1>4, <1>6, <1>7 DEF IInv, Types

LEMMA CrashesStep ==
  ASSUME crashes \in 0..MaxCrashes, [Next]_vars
  PROVE  crashes' \in 0..MaxCrashes
<1>1. CASE Crash
  <2>1. MaxCrashes \in Nat BY IssueAssumption
  <2>2. crashes < MaxCrashes /\ crashes' = crashes + 1 BY <1>1 DEF Crash
  <2> QED BY <2>1, <2>2
<1>2. CASE UNCHANGED crashes BY <1>2
<1> QED
  BY <1>1, <1>2
     DEF Next, vars, Step, QuoteStep, CheckStep, SweepStep, NodeStep, Ask, CheckHash, Record,
         Refuse, Look, CheckSettles, CheckFindsUnpaid, CheckFails, SweepStart, SweepActs,
         NodeIssues, AnswerQuote, Pay, Expire, AnswerCheck, AnswerSweep, SwapInto, SpendNote

LEMMA IInvStep == IInv /\ [Next]_vars => IInv'
<1> SUFFICES ASSUME IInv, [Next]_vars PROVE IInv' OBVIOUS
<1>1. /\ Types /\ LedgerInv /\ Known /\ LedgerTypes /\ QuoteTypes
      /\ crashes \in 0..MaxCrashes /\ UNCHANGED chooser
  BY DEF IInv, Types, Next, vars
<1>2. LedgerWrite BY <1>1, StepWrites
<1>3. LedgerTypes' BY <1>1, <1>2, LedgerTypesStep
<1>4. LedgerInv' BY <1>1, <1>2, LedgerInvStep
<1>5. QuoteTypes' BY <1>1, QuoteTypesStep
<1>6. CheckTypes' /\ ChecksKnow' BY <1>1, ChecksStep
<1>7. SweepTypes' /\ SweepsKnow' BY <1>1, SweepsStep
<1>8. QuotesKnow' BY <1>1, QuotesStep
<1>9. OwnPreimages' BY <1>1, OwnPreimagesStep
<1>10. crashes' \in 0..MaxCrashes BY <1>1, CrashesStep
<1> QED BY <1>3, <1>4, <1>5, <1>6, <1>7, <1>8, <1>9, <1>10 DEF IInv, Types, Known

LEMMA IInvHolds == Spec => []IInv
  BY IInvInit, IInvStep, PTL DEF Spec

\* The type invariant, and whoever is at work has an id or a hash to work on.
THEOREM IssueTypes == Spec => []TypeOK
<1>1. IInv => TypeOK BY TypesAreTypes DEF IInv
<1> QED BY <1>1, IInvHolds, PTL

\* An invoice that somebody paid keeps the row that says which note it buys:
\* the sweep deletes what was unpaid past its expiry, and a payment comes
\* only before it, to an invoice whose row was written first.
THEOREM PaymentsAreNotStranded == Spec => []NoStrandedPayment
<1>1. IInv => NoStrandedPayment BY DEF IInv, LedgerInv
<1> QED BY <1>1, IInvHolds, PTL

\* Every note that an invoice minted was bought by that invoice's payer, even
\* with a node that hands out hashes it was paid for before.
THEOREM NotesAreBought == Spec => []MintedNotesWereBought
<1>1. IInv => MintedNotesWereBought BY DEF IInv, LedgerInv
<1> QED BY <1>1, IInvHolds, PTL

\* However handlers interleave between the check of an output and its write,
\* an output promised to one invoice goes to no other and to no swap.
THEOREM PromisesAreExclusive == Spec => []PromisedOutputsAreExclusive
<1>1. IInv => PromisedOutputsAreExclusive BY DEF IInv, LedgerInv
<1> QED BY <1>1, IInvHolds, PTL

\* Where the mint draws its preimages, none of them opens a note, present or
\* promised.
THEOREM PreimagesAreInert == Spec => []PreimagesOpenNothing
<1>1. IInv => PreimagesOpenNothing BY DEF IInv, LedgerInv
<1> QED BY <1>1, IInvHolds, PTL

\* A settled row is never touched again, a burned note never comes back, and
\* a note's origin is written once.
THEOREM NotesAreMintedOnce == Spec => MintedOnce
<1> DEFINE Once ==
      /\ \A h \in Hashes : row[h].state = "settled" => row'[h] = row[h]
      /\ \A i \in Ids : /\ note[i] = "burned" => note'[i] = "burned"
                        /\ note[i] # "absent" => origin'[i] = origin[i]
<1>1. ASSUME IInv, [Next]_vars PROVE [Once]_vars
  <2>1. LedgerTypes /\ LedgerInv /\ LedgerWrite BY <1>1, StepWrites DEF IInv, Types
  <2>2. CASE UNCHANGED ledger BY <2>2 DEF ledger
  <2>3. ASSUME NEW h \in Hashes, Issues(h) \/ Pays(h) \/ Expires(h) PROVE Once
    BY <2>3 DEF Issues, Pays, Expires
  <2>4. ASSUME NEW h \in Hashes, Settles(h) PROVE Once
    <3>1. CASE row[h].state = "absent"
      BY <2>4, <3>1 DEF Settles, SettleMintInvoice
    <3>2. CASE row[h].state # "absent"
      <4>1. row[h] \in Rows /\ row[h].output \in Ids BY <2>1, <3>2 DEF LedgerTypes
      <4>2. row[h].state = "settled" => [row[h] EXCEPT !.state = "settled"] = row[h]
        BY <4>1 DEF Rows
      <4>3. row' = [row EXCEPT ![h] = [row[h] EXCEPT !.state = "settled"]]
        BY <2>4, <3>2 DEF Settles, SettleMintInvoice
      <4>4. \A g \in Hashes : row[g].state = "settled" => row'[g] = row[g]
        BY <2>1, <4>2, <4>3 DEF LedgerTypes
      <4>5. \A i \in Ids :
              /\ note[i] = "burned" => note'[i] = "burned"
              /\ note[i] # "absent" => origin'[i] = origin[i]
        <5>1. CASE note[row[h].output] = "absent"
          <6>1. /\ note' = [note EXCEPT ![row[h].output] = "outstanding"]
                /\ origin' = [origin EXCEPT ![row[h].output] = h]
            BY <2>4, <3>2, <5>1 DEF Settles, SettleMintInvoice
          <6> QED BY <2>1, <5>1, <6>1 DEF LedgerTypes
        <5>2. CASE note[row[h].output] # "absent"
          BY <2>4, <3>2, <5>2 DEF Settles, SettleMintInvoice
        <5> QED BY <5>1, <5>2
      <4> QED BY <4>4, <4>5
    <3> QED BY <3>1, <3>2
  <2>5. ASSUME NEW h \in Hashes, Deletes(h) PROVE Once
    <3>1. \A g \in Hashes : row[g].state = "settled" => row'[g] = row[g]
      BY <2>1, <2>5 DEF Deletes, DeleteUnsettledMintInvoice, LedgerTypes
    <3> QED BY <2>5, <3>1 DEF Deletes
  <2>6. ASSUME NEW h \in Hashes, NEW i \in Ids, Records(h, i) PROVE Once
    BY <2>1, <2>6 DEF Records, RecordMintInvoice, CanRecord, LedgerTypes
  <2>7. ASSUME NEW i \in Ids, Swaps(i) \/ Spends(i) PROVE Once
    BY <2>1, <2>7 DEF Swaps, Spends, InUse, LedgerTypes
  <2> HIDE DEF Once
  <2> QED BY <2>1, <2>2, <2>3, <2>4, <2>5, <2>6, <2>7 DEF LedgerWrite
<1> HIDE DEF Once
<1>2. Spec => [][Once]_vars BY <1>1, IInvHolds, PTL DEF Spec
<1> USE DEF Once
<1> QED BY <1>2 DEF MintedOnce

-----------------------------------------------------------------------------
(* Minting implements PaymentPromise.                                      *)

LEMMA StagesMove ==
  ASSUME NEW h \in Hashes, NEW s, Stage(h)' = s,
         \A g \in Hashes \ {h} : Stage(g)' = Stage(g)
  PROVE  Stages' = [Stages EXCEPT ![h] = s]
BY DEF Stages

LEMMA StagesStay ==
  ASSUME \A g \in Hashes : Stage(g)' = Stage(g)
  PROVE  Stages' = Stages
BY DEF Stages

\* What is promised is free: it is one output, and no note is there.
LEMMA PromisesHaveRoom == IInv => Promise!Room
<1> SUFFICES ASSUME IInv, NEW h \in Hashes, Stages[h] \in {"offered", "paid"}
             PROVE  \E i \in Promised[h] : PutAt[i] = {}
  BY DEF Promise!Room
<1>1. row[h].state = "unsettled"
  BY DEF Stages, Stage, IInv, Types, LedgerTypes, Rows, LedgerInv, NoStrandedPayment
<1>2. row[h].output \in Ids /\ origin[row[h].output] = NoHash
  BY <1>1 DEF IInv, Types, LedgerTypes, LedgerInv, PromisedOutputsAreExclusive, NotesHaveOrigins
<1> QED BY <1>1, <1>2 DEF Promised, PutAt

LEMMA InvoicesKeepThePromise ==
  ASSUME LedgerTypes, LedgerInv, NEW h \in Hashes, Issues(h) \/ Expires(h) \/ Pays(h)
  PROVE  Promise!Next \/ UNCHANGED <<Stages, Promised, PutAt>>
<1>1. UNCHANGED <<Promised, PutAt>> BY DEF Issues, Expires, Pays, Promised, PutAt
<1>2. CASE Issues(h) \/ Expires(h)
  <2>0. row' = row /\ \A g \in Hashes : inv'[g].bought = inv[g].bought
    BY <1>2 DEF Issues, Expires, LedgerTypes, Invoices
  <2>1. \A g \in Hashes : Stage(g)' = Stage(g) BY <2>0 DEF Stage
  <2> QED BY <1>1, <2>1, StagesStay
<1>3. CASE Pays(h)
  <2>1. row[h].state = "unsettled" /\ inv[h].bought = NoId
    BY <1>3 DEF Pays, LedgerTypes, Rows, LedgerInv, RowsAreSales
  <2>2. Stage(h) = "offered" /\ Stage(h)' = "paid"
    BY <1>3, <2>1 DEF Pays, Stage, LedgerTypes, Invoices
  <2>3. \A g \in Hashes \ {h} : Stage(g)' = Stage(g)
    BY <1>3 DEF Pays, Stage, LedgerTypes
  <2>4. Stages' = [Stages EXCEPT ![h] = "paid"] BY <2>2, <2>3, StagesMove
  <2>5. Promise!Pay(h) BY <1>1, <2>2, <2>4 DEF Promise!Pay, Stages
  <2> QED BY <2>5 DEF Promise!Next
<1> QED BY <1>2, <1>3

LEMMA RecordsKeepThePromise ==
  ASSUME LedgerTypes, LedgerInv, NEW h \in Hashes, NEW i \in Ids, Records(h, i)
  PROVE  Promise!Next
<1>1. row[h].state = "absent" /\ inv[h].bought = NoId
  BY DEF Records, CanRecord, LedgerInv, NoStrandedPayment
<1>2. /\ row' = [row EXCEPT ![h] = [state |-> "unsettled", output |-> i]]
      /\ inv' = [inv EXCEPT ![h].sold = i]
      /\ UNCHANGED <<note, origin>>
  BY DEF Records, RecordMintInvoice
<1>3. Stage(h) = "none" /\ Stage(h)' = "offered" BY <1>1, <1>2 DEF Stage, LedgerTypes, Invoices
<1>4. \A g \in Hashes \ {h} : Stage(g)' = Stage(g) BY <1>2 DEF Stage, LedgerTypes
<1>5. Stages' = [Stages EXCEPT ![h] = "offered"] BY <1>3, <1>4, StagesMove
<1>6. Promised' = [Promised EXCEPT ![h] = {i}] BY <1>2 DEF Promised, LedgerTypes
<1>7. UNCHANGED PutAt BY <1>2 DEF PutAt
<1>8. Stages[h] = "none" BY <1>3 DEF Stages
<1>9. {i} \in SUBSET Ids OBVIOUS
<1>10. Promise!Offer(h) BY <1>5, <1>6, <1>7, <1>8, <1>9 DEF Promise!Offer
<1> QED BY <1>10 DEF Promise!Next

LEMMA DeletesKeepThePromise ==
  ASSUME LedgerTypes, LedgerInv, NEW h \in Hashes, Deletes(h)
  PROVE  Promise!Next \/ UNCHANGED <<Stages, Promised, PutAt>>
<1>1. CASE row[h].state # "unsettled"
  BY <1>1 DEF Deletes, DeleteUnsettledMintInvoice, Stages, Stage, Promised, PutAt
<1>2. CASE row[h].state = "unsettled"
  <2>1. inv[h].bought = NoId /\ row' = [row EXCEPT ![h] = NoRow] /\ UNCHANGED <<origin, inv>>
    BY <1>2 DEF Deletes, DeleteUnsettledMintInvoice, LedgerInv, RowsAreSales
  <2>2. Stage(h) = "offered" /\ Stage(h)' = "none"
    BY <1>2, <2>1 DEF Stage, LedgerTypes, NoRow
  <2>3. \A g \in Hashes \ {h} : Stage(g)' = Stage(g) BY <2>1 DEF Stage, LedgerTypes
  <2>4. Stages' = [Stages EXCEPT ![h] = "none"] BY <2>2, <2>3, StagesMove
  <2>5. Promised' = [Promised EXCEPT ![h] = {}] BY <2>1 DEF Promised, LedgerTypes, NoRow
  <2>6. UNCHANGED PutAt BY <2>1 DEF PutAt
  <2>7. Promise!Lapse(h) BY <2>2, <2>4, <2>5, <2>6 DEF Promise!Lapse, Stages
  <2> QED BY <2>7 DEF Promise!Next
<1> QED BY <1>1, <1>2

\* A settle credits a row that was paid for at the row's own output, and a
\* second settle nothing.
LEMMA SettlesKeepThePromise ==
  ASSUME LedgerTypes, LedgerInv, NEW h \in Hashes, Settles(h)
  PROVE  Promise!Next \/ UNCHANGED <<Stages, Promised, PutAt>>
<1> DEFINE i == row[h].output
<1>1. CASE row[h].state = "absent"
  BY <1>1 DEF Settles, SettleMintInvoice, Stages, Stage, Promised, PutAt
<1>2. CASE row[h].state = "settled"
  <2>1. row' = [row EXCEPT ![h].state = "settled"] BY <1>2 DEF Settles, SettleMintInvoice
  <2>2. row' = row BY <1>2, <2>1 DEF LedgerTypes, Rows
  <2>3. i \in Ids /\ note[i] # "absent"
    BY <1>2, IssueAssumption DEF LedgerTypes, LedgerInv, PromisedOutputsAreExclusive,
                                 NotesHaveOrigins
  <2>4. UNCHANGED <<origin, inv>> BY <1>2, <2>3 DEF Settles, SettleMintInvoice
  <2> QED BY <2>2, <2>4 DEF Stages, Stage, Promised, PutAt
<1>3. CASE row[h].state = "unsettled"
  <2>1. i \in Ids /\ note[i] = "absent" /\ origin[i] = NoHash
    BY <1>3 DEF LedgerTypes, LedgerInv, PromisedOutputsAreExclusive, NotesHaveOrigins
  <2>2. inv[h].bought = i /\ i # NoId
    BY <1>3, <2>1, IssueAssumption DEF Settles, LedgerInv, RowsAreSales
  <2>3. /\ row' = [row EXCEPT ![h].state = "settled"]
        /\ origin' = [origin EXCEPT ![i] = h] /\ UNCHANGED inv
    BY <1>3, <2>1 DEF Settles, SettleMintInvoice
  <2>4. Stage(h) = "paid" /\ Stage(h)' = "credited"
    BY <1>3, <2>2, <2>3 DEF Stage, LedgerTypes, Rows
  <2>5. \A g \in Hashes \ {h} : Stage(g)' = Stage(g) BY <2>3 DEF Stage, LedgerTypes
  <2>6. Stages' = [Stages EXCEPT ![h] = "credited"] BY <2>4, <2>5, StagesMove
  <2>7. Promised' = [Promised EXCEPT ![h] = {}] BY <2>3 DEF Promised, LedgerTypes, Rows
  <2>8. PutAt' = [PutAt EXCEPT ![i] = {h}]
    BY <2>1, <2>3, IssueAssumption DEF PutAt, LedgerTypes
  <2>9. PutAt[i] = {} /\ i \in Promised[h] /\ Stages[h] = "paid"
    BY <1>3, <2>1, <2>4 DEF PutAt, Promised, Stages
  <2>10. Promise!Credit(h)
    BY <2>1, <2>6, <2>7, <2>8, <2>9 DEF Promise!Credit, Promise!Put
  <2> QED BY <2>10 DEF Promise!Next
<1> QED BY <1>1, <1>2, <1>3 DEF LedgerTypes, Rows

LEMMA HoldersKeepThePromise ==
  ASSUME LedgerTypes, LedgerInv, NEW i \in Ids, Swaps(i) \/ Spends(i)
  PROVE  Promise!Next \/ UNCHANGED <<Stages, Promised, PutAt>>
<1>1. UNCHANGED <<Stages, Promised>> BY DEF Swaps, Spends, Stages, Stage, Promised
<1>2. CASE Spends(i) BY <1>1, <1>2 DEF Spends, PutAt
<1>3. CASE Swaps(i)
  <2>1. PutAt[i] = {} BY <1>3 DEF Swaps, InUse, LedgerInv, NotesHaveOrigins, PutAt
  <2>2. PutAt' = [PutAt EXCEPT ![i] = {Swapped}]
    BY <1>3, IssueAssumption DEF Swaps, PutAt, LedgerTypes
  <2>3. Promise!Use BY <1>1, <2>1, <2>2 DEF Promise!Use
  <2> QED BY <2>3 DEF Promise!Next
<1> QED BY <1>2, <1>3

\* Whatever handlers, sweeps and crashes do, an invoice that was paid is
\* credited at most once and at the output it sold, never forgotten before,
\* and that output stays free for it (server.ts, store.ts).
THEOREM MintingKeepsThePromise == Spec => KeepsThePaymentPromise
<1>1. ASSUME Init PROVE Promise!Init
  <2>1. \A h \in Hashes : Stage(h) = "none" /\ row[h].state = "absent"
    BY <1>1 DEF Init, Stage, NoRow
  <2>2. \A i \in Ids : origin[i] = NoHash BY <1>1 DEF Init
  <2> QED BY <2>1, <2>2 DEF Promise!Init, Stages, Promised, PutAt
<1>2. ASSUME IInv, [Next]_vars PROVE [Promise!Next]_Promise!promiseVars
  <2>1. LedgerTypes /\ LedgerInv /\ LedgerWrite BY <1>2, StepWrites DEF IInv, Types
  <2>2. CASE UNCHANGED ledger
    BY <2>2 DEF ledger, Stages, Stage, Promised, PutAt, Promise!promiseVars
  <2> QED BY <2>1, <2>2, InvoicesKeepThePromise, RecordsKeepThePromise, DeletesKeepThePromise,
          SettlesKeepThePromise, HoldersKeepThePromise DEF LedgerWrite, Promise!promiseVars
<1> QED BY <1>1, <1>2, IInvHolds, PromisesHaveRoom, PTL
        DEF Spec, KeepsThePaymentPromise, Promise!Spec
=============================================================================
