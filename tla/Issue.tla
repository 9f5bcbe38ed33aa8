-------------------------------- MODULE Issue --------------------------------
(***************************************************************************)
(* Minting a note: the pay callback that quotes an invoice (server.ts      *)
(* /p/cb), the four places that notice it was paid (a claim's resolveNote, *)
(* /verify, the invoice stream and the expiry sweep), the mint_invoices    *)
(* table (store.ts), and the funding source whose invoices these are.      *)
(*                                                                         *)
(* A note lives at the output id its payer named.  Ids come from wallets,  *)
(* so a quote, a swap and another quote may all want the same one, each    *)
(* with an await between its check and its write.                          *)
(***************************************************************************)
EXTENDS Naturals, FiniteSets

CONSTANTS
  Outputs,         \* output ids wallets choose for themselves
  Hashes,          \* payment hashes of the funding source's invoices
  Quotes,          \* pay-callback requests, each with its handler
  Checks,          \* claim, verify and stream handlers, used over and over
  Sweeps,          \* housekeeping passes the process can overlap
  MaxCrashes,      \* bound: times the mint's process dies
  Choosers,        \* who may draw the payment preimages: "mint", "node"
  ForeignPaid,     \* hashes a choosing node had settled before this run
  PayKey,          \* bearerNoteId of each hash: the id its preimage opens
  NoId, NoHash, Swapped

Ids == Outputs \union {PayKey[h] : h \in Hashes}

ASSUME IssueAssumption ==
  /\ MaxCrashes \in Nat
  /\ Choosers \subseteq {"mint", "node"}
  /\ ForeignPaid \subseteq Hashes
  /\ DOMAIN PayKey = Hashes
  /\ \A g, h \in Hashes : PayKey[g] = PayKey[h] => g = h
  /\ \A h \in Hashes : PayKey[h] \notin Outputs
  /\ NoId \notin Ids /\ NoHash \notin Hashes /\ Swapped \notin Hashes
  /\ NoHash # Swapped

VARIABLES
  chooser,   \* the funding source's kind: acceptsInvoicePreimage, or not
  note,      \* notes.state by id, "absent" for no row
  origin,    \* what brought each note into being (history)
  row,       \* the mint_invoices row of each hash
  inv,       \* the node's invoice of each hash, and whom it was sold to
  quote,     \* where each pay-callback handler is
  check,     \* where each claim, verify or stream handler is
  sweep,     \* where each sweep is
  crashes

vars == <<chooser, note, origin, row, inv, quote, check, sweep, crashes>>

NoRow == [state |-> "absent", output |-> NoId]
IdleQuote == [pc |-> "idle", output |-> NoId, hash |-> NoHash, answer |-> "none"]
IdleCheck == [pc |-> "idle", hash |-> NoHash, verify |-> FALSE, answer |-> "none"]
IdleSweep == [pc |-> "idle", todo |-> {}, at |-> NoHash, answer |-> "none"]

\* The mint draws the preimages of its invoices itself.
ChoosesPreimage == chooser = "mint"

Init ==
  /\ chooser \in Choosers
  /\ note = [i \in Ids |-> "absent"]
  /\ origin = [i \in Ids |-> NoHash]
  /\ row = [h \in Hashes |-> NoRow]
  /\ inv = [h \in Hashes |-> [status |-> IF chooser = "node" /\ h \in ForeignPaid THEN "paid" ELSE "none",
                              past |-> FALSE, sold |-> NoId, bought |-> NoId]]
  /\ quote = [r \in Quotes |-> IdleQuote]
  /\ check = [c \in Checks |-> IdleCheck]
  /\ sweep = [s \in Sweeps |-> IdleSweep]
  /\ crashes = 0

-----------------------------------------------------------------------------
(* The store's transactions.                                               *)

\* Mutation: the ids that payment preimages would open are not reserved.
InUseNoPreimages(i) ==
  \/ note[i] # "absent"
  \/ \E h \in Hashes : row[h].state # "absent" /\ i = row[h].output

\* outputIdInUse: a note is there, or an invoice, settled or not, will put
\* one there, or an invoice's payment preimage would open a note there.
InUse(i) ==
  \/ note[i] # "absent"
  \/ \E h \in Hashes : row[h].state # "absent" /\ i \in {row[h].output, PayKey[h]}

\* Mutation: the output was free when the invoice was asked for.
CanRecordUnchecked(h, i) == row[h].state = "absent"

\* recordMintInvoice: the hash and the output are both free.
CanRecord(h, i) ==
  /\ row[h].state = "absent"
  /\ ~InUse(i)

\* Mutation: the output the wallet named is not stored.
RecordUnbound(h, i) ==
  row' = [row EXCEPT ![h] = [state |-> "unsettled", output |-> NoId]]

RecordMintInvoice(h, i) ==
  row' = [row EXCEPT ![h] = [state |-> "unsettled", output |-> i]]

\* Mutation: the note is inserted, or put back, at every settle.
SettleAndInsert(h) ==
  LET i == row[h].output IN
  IF row[h].state = "absent"
    THEN UNCHANGED <<note, origin, row>>
    ELSE /\ row' = [row EXCEPT ![h].state = "settled"]
         /\ note' = [note EXCEPT ![i] = "outstanding"]
         /\ origin' = [origin EXCEPT ![i] = h]

\* A row that is gone stays gone, and a note that is there stays as it is.
SettleMintInvoice(h) ==
  LET i == row[h].output IN
  IF row[h].state = "absent"
    THEN UNCHANGED <<note, origin, row>>
    ELSE /\ row' = [row EXCEPT ![h].state = "settled"]
         /\ IF note[i] = "absent"
              THEN /\ note' = [note EXCEPT ![i] = "outstanding"]
                   /\ origin' = [origin EXCEPT ![i] = h]
              ELSE UNCHANGED <<note, origin>>

DeleteUnsettledMintInvoice(h) ==
  row' = IF row[h].state = "unsettled" THEN [row EXCEPT ![h] = NoRow] ELSE row

-----------------------------------------------------------------------------
(* The funding source.                                                     *)

\* isInvoiceSettled: true, false, or a throw.
NodeAnswers(h) == {"unclear", IF inv[h].status = "paid" THEN "yes" ELSE "no"}

\* Hashes a new invoice may come back with.  A mint that chose the preimage
\* accepts its own only; a node that chooses may return one it has used.
Issuable(r) == IF ChoosesPreimage THEN {quote[r].hash} ELSE Hashes

NodeIssues(r) ==
  /\ quote[r].pc = "creating"
  /\ \E h \in Issuable(r) :
       /\ quote' = [quote EXCEPT ![r].pc = "created", ![r].hash = h]
       /\ inv' = [inv EXCEPT ![h].status = IF @ = "none" THEN "open" ELSE @]
  /\ UNCHANGED <<note, origin, row, check, sweep, crashes>>

\* The payer pays the invoice of a quote it was given, before its expiry.
Pay(h) ==
  /\ inv[h].status = "open"
  /\ inv[h].sold # NoId
  /\ ~inv[h].past
  /\ inv' = [inv EXCEPT ![h].status = "paid", ![h].bought = inv[h].sold]
  /\ UNCHANGED <<note, origin, row, quote, check, sweep, crashes>>

\* The bolt11 expiry, and the sweep's hour of margin after it, go by.
Expire(h) ==
  /\ inv[h].status # "none"
  /\ ~inv[h].past
  /\ inv' = [inv EXCEPT ![h].past = TRUE]
  /\ UNCHANGED <<note, origin, row, quote, check, sweep, crashes>>

AnswerQuote(r) ==
  /\ quote[r].pc = "checking"
  /\ quote[r].answer = "none"
  /\ \E a \in NodeAnswers(quote[r].hash) : quote' = [quote EXCEPT ![r].answer = a]
  /\ UNCHANGED <<note, origin, row, inv, check, sweep, crashes>>

AnswerCheck(c) ==
  /\ check[c].pc = "asking"
  /\ check[c].answer = "none"
  /\ \E a \in NodeAnswers(check[c].hash) : check' = [check EXCEPT ![c].answer = a]
  /\ UNCHANGED <<note, origin, row, inv, quote, sweep, crashes>>

AnswerSweep(s) ==
  /\ sweep[s].pc = "asking"
  /\ sweep[s].answer = "none"
  /\ \E a \in NodeAnswers(sweep[s].at) : sweep' = [sweep EXCEPT ![s].answer = a]
  /\ UNCHANGED <<note, origin, row, inv, quote, check, crashes>>

-----------------------------------------------------------------------------
(* The pay callback.                                                       *)

\* An id a wallet can name: its own, or one it worked out from an invoice
\* that somebody was shown.
Nameable(i) == i \in Outputs \/ \E h \in Hashes : i = PayKey[h] /\ inv[h].sold # NoId

\* opensANote: the preimage of h would open this quote's note or another.
OpensANote(h, i) == PayKey[h] = i \/ InUse(PayKey[h])

\* Fresh random preimages, drawn until one opens nothing.
FreshHashes(i) ==
  {h \in Hashes : /\ inv[h].status = "none"
                  /\ \A q \in Quotes : quote[q].hash # h
                  /\ ~OpensANote(h, i)}

\* The output is free, so the node is asked for an invoice.
Ask(r, i) ==
  /\ quote[r].pc = "idle"
  /\ Nameable(i)
  /\ ~InUse(i)
  /\ \E h \in IF ChoosesPreimage THEN FreshHashes(i) ELSE {NoHash} :
       quote' = [quote EXCEPT ![r] =
                   [pc |-> "creating", output |-> i, hash |-> h, answer |-> "none"]]
  /\ UNCHANGED <<note, origin, row, inv, check, sweep, crashes>>

\* The invoice's hash was the node's choice: it must be new to this mint,
\* and the node must say that nobody has paid it.
CheckHash(r) ==
  /\ quote[r].pc = "created"
  /\ ~ChoosesPreimage
  /\ ~OpensANote(quote[r].hash, quote[r].output)
  /\ row[quote[r].hash].state = "absent"
  /\ quote' = [quote EXCEPT ![r].pc = "checking"]
  /\ UNCHANGED <<note, origin, row, inv, check, sweep, crashes>>

Checked(r) ==
  \/ quote[r].pc = "created" /\ ChoosesPreimage
  \/ quote[r].pc = "checking" /\ quote[r].answer = "no"

\* The row is written and the invoice shown to the payer.
Record(r) ==
  LET h == quote[r].hash
      i == quote[r].output
  IN
  /\ Checked(r)
  /\ CanRecord(h, i)
  /\ RecordMintInvoice(h, i)
  /\ inv' = [inv EXCEPT ![h].sold = i]
  /\ quote' = [quote EXCEPT ![r].pc = "done", ![r].answer = "none"]
  /\ UNCHANGED <<note, origin, check, sweep, crashes>>

\* No invoice, a wrong one, a used hash, no answer, or a lost race.
Refuse(r) ==
  /\ \/ quote[r].pc \in {"creating", "created"}
     \/ quote[r].pc = "checking" /\ quote[r].answer # "none"
  /\ quote' = [quote EXCEPT ![r].pc = "done", ![r].answer = "none"]
  /\ UNCHANGED <<note, origin, row, inv, check, sweep, crashes>>

-----------------------------------------------------------------------------
(* Noticing that an invoice was paid.                                      *)

\* A claim found no note but an unsettled invoice bound to its id; a verify
\* or the stream found it by its hash.
Look(c, h) ==
  /\ check[c].pc = "idle"
  /\ row[h].state = "unsettled"
  /\ \E v \in BOOLEAN :
       check' = [check EXCEPT ![c] = [@ EXCEPT !.pc = "asking", !.hash = h, !.verify = v]]
  /\ UNCHANGED <<note, origin, row, inv, quote, sweep, crashes>>

\* verify then reads the row again and takes it to be there.
Rereads(c) ==
  LET lost == check[c].verify /\ row'[check[c].hash].state = "absent"
  IN check' = [check EXCEPT ![c] = IF lost THEN [IdleCheck EXCEPT !.pc = "threw"] ELSE IdleCheck]

\* Mutation: an error from the node counts as a payment.
CheckSettlesUnlessUnpaid(c) ==
  /\ check[c].answer \in {"yes", "unclear"}
  /\ SettleMintInvoice(check[c].hash)
  /\ Rereads(c)
  /\ UNCHANGED <<inv, quote, sweep, crashes>>

CheckSettles(c) ==
  /\ check[c].answer = "yes"
  /\ SettleMintInvoice(check[c].hash)
  /\ Rereads(c)
  /\ UNCHANGED <<inv, quote, sweep, crashes>>

CheckFindsUnpaid(c) ==
  /\ check[c].answer = "no"
  /\ UNCHANGED row
  /\ Rereads(c)
  /\ UNCHANGED <<note, origin, inv, quote, sweep, crashes>>

\* The ask threw, or the write did: the request fails with nothing changed.
CheckFails(c) ==
  /\ check[c].answer # "none"
  /\ check' = [check EXCEPT ![c] = IdleCheck]
  /\ UNCHANGED <<note, origin, row, inv, quote, sweep, crashes>>

\* Mutation: every unsettled row is swept, whatever its expiry.
StaleAtOnce == {h \in Hashes : row[h].state = "unsettled"}

\* The sweep: rows past their expiry are listed once, then asked about one
\* by one.  Paid: credited.  Not paid: deleted.  No answer: left alone.
Stale == {h \in Hashes : row[h].state = "unsettled" /\ inv[h].past}

NextStale(todo) ==
  IF todo = {} THEN {IdleSweep}
  ELSE {[pc |-> "asking", todo |-> todo \ {h}, at |-> h, answer |-> "none"] : h \in todo}

SweepStart(s) ==
  /\ sweep[s].pc = "idle"
  /\ Stale # {}
  /\ \E next \in NextStale(Stale) : sweep' = [sweep EXCEPT ![s] = next]
  /\ UNCHANGED <<note, origin, row, inv, quote, check, crashes>>

\* Mutation: no answer counts as not paid.
SweepActsUnlessPaid(s) ==
  /\ \/ sweep[s].answer = "yes" /\ SettleMintInvoice(sweep[s].at)
     \/ /\ sweep[s].answer \in {"no", "unclear"}
        /\ DeleteUnsettledMintInvoice(sweep[s].at)
        /\ UNCHANGED <<note, origin>>
  /\ \E next \in NextStale(sweep[s].todo) : sweep' = [sweep EXCEPT ![s] = next]
  /\ UNCHANGED <<inv, quote, check, crashes>>

SweepActs(s) ==
  /\ \/ sweep[s].answer = "yes" /\ SettleMintInvoice(sweep[s].at)
     \/ /\ sweep[s].answer = "no"
        /\ DeleteUnsettledMintInvoice(sweep[s].at)
        /\ UNCHANGED <<note, origin>>
     \/ sweep[s].answer = "unclear" /\ UNCHANGED <<note, origin, row>>
  /\ \E next \in NextStale(sweep[s].todo) : sweep' = [sweep EXCEPT ![s] = next]
  /\ UNCHANGED <<inv, quote, check, crashes>>

-----------------------------------------------------------------------------
(* The rest of the mint.                                                   *)

\* A rotate, split or merge mints a note at an id that nothing uses.
SwapInto(i) ==
  /\ Nameable(i)
  /\ ~InUse(i)
  /\ note' = [note EXCEPT ![i] = "outstanding"]
  /\ origin' = [origin EXCEPT ![i] = Swapped]
  /\ UNCHANGED <<row, inv, quote, check, sweep, crashes>>

\* The holder spends the note.
SpendNote(i) ==
  /\ note[i] = "outstanding"
  /\ note' = [note EXCEPT ![i] = "burned"]
  /\ UNCHANGED <<origin, row, inv, quote, check, sweep, crashes>>

\* The process dies: every handler is gone, and every sweep but those that
\* `moneyer admin sweep` runs in a process of its own.
Crash ==
  /\ crashes < MaxCrashes
  /\ crashes' = crashes + 1
  /\ quote' = [r \in Quotes |->
       IF quote[r].pc = "idle" THEN quote[r]
       ELSE [quote[r] EXCEPT !.pc = "done", !.answer = "none"]]
  /\ check' = [c \in Checks |-> IdleCheck]
  /\ \E dead \in SUBSET Sweeps :
       sweep' = [s \in Sweeps |-> IF s \in dead THEN IdleSweep ELSE sweep[s]]
  /\ UNCHANGED <<note, origin, row, inv>>

QuoteStep(r) ==
  \/ \E i \in Ids : Ask(r, i)
  \/ CheckHash(r)
  \/ Record(r)
  \/ Refuse(r)

CheckStep(c) ==
  \/ \E h \in Hashes : Look(c, h)
  \/ CheckSettles(c)
  \/ CheckFindsUnpaid(c)
  \/ CheckFails(c)

SweepStep(s) == SweepStart(s) \/ SweepActs(s)

NodeStep ==
  \/ \E r \in Quotes : NodeIssues(r) \/ AnswerQuote(r)
  \/ \E h \in Hashes : Pay(h) \/ Expire(h)
  \/ \E c \in Checks : AnswerCheck(c)
  \/ \E s \in Sweeps : AnswerSweep(s)

Step ==
  \/ \E r \in Quotes : QuoteStep(r)
  \/ \E c \in Checks : CheckStep(c)
  \/ \E s \in Sweeps : SweepStep(s)
  \/ NodeStep
  \/ \E i \in Ids : SwapInto(i) \/ SpendNote(i)
  \/ Crash

Next == Step /\ UNCHANGED chooser

Spec == Init /\ [][Next]_vars

\* Time passes, housekeeping runs, and the node does not fail for ever.  No
\* wallet has to come back: claims and verifies are given no fairness.
ClearAnswer(s, h) == AnswerSweep(s) /\ sweep[s].at = h /\ sweep'[s].answer # "unclear"

Fairness ==
  /\ \A h \in Hashes : WF_vars(Expire(h) /\ UNCHANGED chooser)
  /\ \A s \in Sweeps :
       /\ WF_vars(SweepStep(s) /\ UNCHANGED chooser)
       /\ WF_vars(AnswerSweep(s) /\ UNCHANGED chooser)
       /\ \A h \in Hashes : SF_vars(ClearAnswer(s, h) /\ UNCHANGED chooser)

FairSpec == Spec /\ Fairness

-----------------------------------------------------------------------------
(* Properties.                                                             *)

Answers == {"none", "yes", "no", "unclear"}

\* Every variable stays within its declared shape, and whoever is at work is
\* at work on an id or a hash that is there.
TypeOK ==
  /\ chooser \in Choosers
  /\ note \in [Ids -> {"absent", "outstanding", "burned"}]
  /\ origin \in [Ids -> Hashes \union {NoHash, Swapped}]
  /\ row \in [Hashes -> [state : {"absent", "unsettled", "settled"}, output : Ids \union {NoId}]]
  /\ inv \in [Hashes -> [status : {"none", "open", "paid"}, past : BOOLEAN,
                         sold : Ids \union {NoId}, bought : Ids \union {NoId}]]
  /\ quote \in [Quotes -> [pc : {"idle", "creating", "created", "checking", "done"},
                           output : Ids \union {NoId}, hash : Hashes \union {NoHash},
                           answer : Answers]]
  /\ check \in [Checks -> [pc : {"idle", "asking", "threw"}, hash : Hashes \union {NoHash},
                           verify : BOOLEAN, answer : Answers]]
  /\ sweep \in [Sweeps -> [pc : {"idle", "asking"}, todo : SUBSET Hashes,
                           at : Hashes \union {NoHash}, answer : Answers]]
  /\ crashes \in 0..MaxCrashes
  /\ \A h \in Hashes : row[h].state # "absent" => row[h].output \in Ids
  /\ \A r \in Quotes : quote[r].pc # "idle" => quote[r].output \in Ids
  /\ \A r \in Quotes : quote[r].pc \in {"created", "checking"} => quote[r].hash \in Hashes
  /\ \A r \in Quotes : ChoosesPreimage /\ quote[r].pc = "creating" => quote[r].hash \in Hashes
  /\ \A c \in Checks : check[c].answer # "none" => check[c].pc = "asking"
  /\ \A c \in Checks : check[c].pc = "asking" => check[c].hash \in Hashes
  /\ \A s \in Sweeps : sweep[s].answer # "none" => sweep[s].pc = "asking"
  /\ \A s \in Sweeps : sweep[s].pc = "asking" => sweep[s].at \in Hashes

\* A payer's money is never stranded: an invoice somebody paid keeps the row
\* that says which note it buys, however the sweep, its answers, the payment
\* and the other handlers interleave.  "The note's id lives only here."
NoStrandedPayment ==
  \A h \in Hashes : inv[h].bought # NoId =>
    /\ row[h].state # "absent"
    /\ row[h].output = inv[h].bought

\* A note minted by an invoice was bought: the invoice's own payer paid it,
\* after the quote, for that very output.
MintedNotesWereBought ==
  \A i \in Ids : origin[i] \in Hashes =>
    /\ inv[origin[i]].bought = i
    /\ row[origin[i]].state = "settled"

\* An output promised to an invoice is nobody else's: no second invoice
\* promises it, no swap takes it, and once the invoice is settled the note
\* there is the one it bought.  settleMintInvoice leaves an existing note
\* alone, so anything else would take the payer's money for nothing.
PromisedOutputsAreExclusive ==
  \A h \in Hashes :
    /\ row[h].state = "unsettled" => note[row[h].output] = "absent"
    /\ row[h].state = "settled" => origin[row[h].output] = h
    /\ \A g \in Hashes :
         row[h].state # "absent" /\ row[g].state # "absent" /\ row[g].output = row[h].output
         => g = h

\* A payment preimage opens nothing: no note is at, and none is promised at,
\* the id that the preimage of an invoice of this mint would open.  "That
\* preimage reaches the funding source, every hop, and /verify."
PreimagesOpenNothing ==
  ChoosesPreimage => \A h \in Hashes : row[h].state # "absent" =>
    /\ note[PayKey[h]] = "absent"
    /\ \A g \in Hashes : row[g].state # "absent" => row[g].output # PayKey[h]

\* Minting is once and for all: a settled row is never touched again, and a
\* note that was spent is not brought back by a later settle.
MintedOnce ==
  [][/\ \A h \in Hashes : row[h].state = "settled" => row'[h] = row[h]
     /\ \A i \in Ids : /\ note[i] = "burned" => note'[i] = "burned"
                       /\ note[i] # "absent" => origin'[i] = origin[i]]_vars

\* What PaymentPromise sees: whether each invoice was paid and credited, the
\* output it is promised, and what brought each note about.
Stage(h) ==
  IF row[h].state = "settled" THEN "credited"
  ELSE IF inv[h].bought # NoId THEN "paid"
  ELSE IF row[h].state = "unsettled" THEN "offered" ELSE "none"

Stages == [h \in Hashes |-> Stage(h)]
Promised == [h \in Hashes |-> IF row[h].state = "unsettled" THEN {row[h].output} ELSE {}]
PutAt == [i \in Ids |-> IF origin[i] = NoHash THEN {} ELSE {origin[i]}]

Promise == INSTANCE PaymentPromise WITH
  Payments <- Hashes, Places <- Ids, Other <- Swapped,
  stage <- Stages, dest <- Promised, at <- PutAt

\* Quotes, claims, verifies, the stream, sweeps and crashes amount to no more
\* than PaymentPromise: a row is deleted only before a payment, a payment is
\* credited once and at its own output, which stays free until then.
KeepsThePaymentPromise == Promise!Spec

\* Every payment is credited in the end, with no wallet ever coming back and
\* wherever the process died.
EveryPaymentIsCredited ==
  \A h \in Hashes :
    inv[h].bought # NoId ~> inv[h].bought # NoId /\ note[inv[h].bought] # "absent"

\* verify takes the row it read before asking the node to be there after:
\* `store.mintInvoiceByHash(paymentHash)!`.
VerifyFindsItsInvoice == \A c \in Checks : check[c].pc # "threw"
=============================================================================
