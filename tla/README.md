# Formal models of moneyer

moneyer is a Lightning bearer-note mint: it sells notes for Lightning payments,
swaps notes for notes, pays notes out over Lightning, and gives people Lightning
addresses whose payments become notes. This directory holds TLA+ models of the
parts that hold or move value, the TLC runs that check them, and proofs checked
by TLAPS.

    tlc -config MCMelt_fresh.cfg MCMelt      # any run: <config> <module>
    tlapm MeltProofs.tla                     # proofs: MeltProofs, IssueProofs,
                                             # SwapProofs, AddressProofs, ZapProofs,
                                             # ClientProofs, ScriptProofs, UpgradeProofs

## The system

One Node.js process serves HTTP, over one SQLite database, and talks to one
Lightning node. Two facts shape everything:

* Every mutation of the store is one synchronous transaction. Code between two
  `await`s runs without interruption. So a step of a model is what happens
  between two awaits, and an `await` is where everything else may move.
* The node is asked and answers later. Its answer is true of an instant between
  the question and the moment the answer is used, and may be no answer at all.

Around the process are others: commands of `moneyer admin` on the same database,
a child process that judges scripts, the live check (a wallet run by a release),
and the mint's own web page in a visitor's browser.

| Part | Source | State it keeps | Operations | Modelled in |
|---|---|---|---|---|
| note store | `store.ts` | notes, melts, mint_invoices, swaps, zap_invoices, zap_names, address_holds, accepted_keys, legacy_ids, meta | one transaction each: swap, markPending, finalizeMelt, restoreMelt, recordMintInvoice, settleMintInvoice, deleteUnsettledMintInvoice, those of zaps, names and holds; opening and upgrading | all of the below; `Upgrade` |
| withdraw callback | `server.ts` 1217-1480 | `inFlight`, the hashes whose payment attempt is live | melt; rotate, split, merge; replay of a retried request | `Melt`, `Swaps` |
| melt | `melt.ts` | none of its own | runMelt, confirmThenSettle, reconcilePendingMelts | `Melt` |
| mint invoices | `server.ts` 322-340, 914-1126, 1506-1590, 1630-1683 | the stream's index | pay callback, claim, verify, invoice stream, expiry sweep | `Issue`, `Stream` |
| operator CLI | `admin.ts` | none: another process on the same database | reconcile, sweep, names | `Melt`, `Issue`, `Addresses` |
| funding source | `backends/` | the node's payments and invoices | payInvoice, isPaymentComplete, createInvoice, isInvoiceSettled, watchSettledInvoices | `Melt`, `Issue`, `Stream` |
| address registry | `addresses.ts`, `names.ts`, `shares.ts` | names, holds, accepted keys | register, update, unregister; fees by invoice or by note | `Addresses` |
| zap bridge | `zap.ts` | parked wraps, share counters | callback, transfer, settle, publish, sweep, settleHolds | `Zaps` |
| spend rules, script verifier | `spend.ts`, `kernel.ts` | pending requests of a child process | verify, timeout, line, exit, close | `Scripts` |
| live check | `live-check.ts`, `claim.ts` | a state file, synced before each spend | prepare, quote, settle, claim, retire | `LiveCheck` |
| web page | `web/src/main.ts` | one slot of sessionStorage, the view | mint, poll, claim, rotate, probe | `Page` |
| the rest | statistics, signing, announcements, configuration, static pages | little or none | | |

Handlers meet in the store and at the node. A melt reserves a note, sends, and
records the outcome; a reconcile pass may record it instead, after a crash or
an unclear answer; swaps and melts compete for notes; quotes and swaps compete
for output ids; four handlers may learn that an invoice was paid, and the sweep
may delete it meanwhile. A zap's invoice is made for whoever has a name, and is
paid when the name may have moved; a fee is paid, by invoice or by note, for a
name a rival may have taken.

What makes it hard, and what each property is for, is the list of hazards in
`PROJECT.json`, each at its line. For each part, correctness means:

* melt: a note is never spendable while a payment for it is out, is burned only
  for a completed payment of its own, and does not stay reserved for ever;
* mint invoices: a payer's money is never stranded, buys one note, the one that
  was named, and is credited in the end; no settle falls through the stream;
* swaps: nothing is spent twice, value is conserved up to the fee rules, and a
  retried request gets the answer the first one got;
* addresses: a share has one home and never returns once it left, a live hold
  keeps its name, a name always has somebody to pay, a fee buys its name;
* zaps: each payment and each transferred note is credited once, at a key never
  used before, on the share it was made for, with no gap below it in the holder's
  scan but where a mint invoice lapsed;
* scripts: a note opens only on a verdict about that very spend, and every
  opening is answered;
* upgrades: done whole before a store is used, and done once;
* live check and page: the secret outlives the value, one payment and one refund,
  one claim, and the visitor is shown a secret that is the money.

## The models

### Melt (`Melt.tla`), with `NotePromise.tla` and `MCMelt.tla`

| Variable | Code |
|---|---|
| `note` | `notes.state` |
| `melt` | the `melts` row of each payment hash; `outcome` NULL is "open", no row is "absent" |
| `inFlight` | the set of that name in `server.ts` |
| `req[r]` | the handler of one melt request: opened, precheck (awaiting isPaymentComplete), sending (awaiting payInvoice), confirm (confirmThenSettle), done |
| `pass[p]` | a reconcile pass: the rows it has yet to look at and the one it awaits an answer for |
| `wire` | sends written by the mint and not yet taken by the node |
| `node` | the node's payment for each hash, and whose request made it |

`ServerPasses` are passes of the mint itself (startup, the five-minute timer;
nothing stops two from overlapping). `AdminPasses` are runs of `moneyer admin
reconcile`, which survive the mint's crash and see no live attempts. An answer
is sampled from the node at a step of its own, between the ask and its use;
"unclear" stands for every throw. A dropped send (`PayUnclear`) covers a clean
failure, a timeout, a lost reply and a bad preimage alike, since the code
believes none of them. `SettleThrows` is a store write that throws after a
definite answer.

`NotePromise` says what a holder is promised about one note's value: it is
theirs, reserved, or gone by exactly one route. Melt implements it under the
mapping `Whereabouts`, which counts a payment this mint made as gone from the
instant the node completes it, whatever the tables say yet. `PaymentPromise` (to
who pays for a note; implemented by `Issue` and by `Zaps`) and `ValuePromise` (of
what notes are worth together; implemented by `Swaps`) are the two others. Between
them they say what the mint owes: each knows nothing of requests, passes, the node
or crashes.

### Mint invoices (`Issue.tla`, `MCIssue.tla`)

| Variable | Code |
|---|---|
| `chooser` | who draws payment preimages: `backend.acceptsInvoicePreimage`, or not |
| `note`, `origin` | the notes table by id, and what brought each note about (history) |
| `row` | the `mint_invoices` row of each hash |
| `inv` | the node's invoice: open or paid, `past` its expiry and the sweep's hour; `sold` and `bought` record which output its payer was shown and paid for (history) |
| `quote[r]` | a `/p/cb` handler: creating, created, checking |
| `check[c]` | a claim (`resolveNote`), `/verify` or stream handler waiting for isInvoiceSettled |
| `sweep[s]` | an expiry sweep, of the process or of `moneyer admin sweep` |

`PayKey[h]` is `bearerNoteId(h)`, the id that the invoice's own preimage would
open. lnd and cln take the mint's preimage; the other arm is the code's path for
nodes that do not, and `ForeignPaid` are invoices such a node had settled for
somebody else before. The margin is modelled as the code relies on it: an
invoice that is `past` can no longer be paid. Output ids that equal a payment
hash, which only quotes from before named outputs used, are left to `Upgrade`.

`PaymentPromise`: a payment is offered places for its note, may lapse until it is
paid, and once paid stays until it is credited at one of them; what is put at a
place stays; and one of the places is free for as long as the payment may come
(`Room`). For `Issue` a payment is a hash, paid when the node's invoice is, and its
place is the row's output.

### The invoice stream (`Stream.tla`)

`settled` is the node's own index of settled invoices, `stored` the index in the
meta table, `conn` the index the connection reports next, `handling` the one
`onSettled` is at work on. A connection drops, the mint closes cleanly (the
report in hand is cut short and stores nothing) or dies, and resumes from
`stored`. A mint that has no index yet starts with whatever is settled next, as
the adapters do.

### Swaps (`Swaps.tla`, `MCSwaps.tla`)

| Variable | Code |
|---|---|
| `note` | the notes table, with amounts |
| `swaps` | the `swaps` table: fingerprint and what was minted |
| `att[a]` | one arrival of a `/w/cb` request: the notes it has opened and what it read of them, and its reply |
| `held`, `melted` | what the mint holds against its notes, and the notes it paid out (history) |

A request is a wish (inputs in order, outputs, amount); a retry is another
arrival of the same wish, at any time. Signatures are verified by the await
between two reads. A second output that no amount splits off enters the
fingerprint and is minted by nobody (`Minted`). `Promised` are outputs an unsettled mint invoice will credit.
`held` counts each note's value and the base fee withheld when it was minted; a
melt takes both out. What routing costs beyond that fee, which `meltFeeLimitMsat`
allows, is the operator's and not part of the property.

`ValuePromise` sees the live notes, those that were, what each is worth with its
fee, and `held`. Its one way to change notes is `Exchange`: in a single step some
give way to others, worth no more, at ids nothing was at before; the other is
paying one out. Under it a request, its retries and its refusals do not show.

### The address registry (`Addresses.tla`)

| Variable | Code |
|---|---|
| `zapName` | the `zap_names` rows: source, Nostr key, share, next index |
| `accepted` | `accepted_keys` |
| `hold`, `clock`, `feePaid` | the `address_holds` rows, how far each invoice is past its expiry (in the grace, lapsed, a day old), and what the node saw paid |
| `feeNote` | notes a fee is paid with, which may be spent elsewhere at any time |
| `calls` | requests between two awaits, with what they read before the first |
| `pass` | the `settleHolds` pass: the lists it read at its start and what is left of them |
| `cast` | which names, keys, shares, holds and notes take part, which zaps, gifts and keys of wallets, and whether names cost anything |

Every request that writes the tables is an action: registration free or for a
fee, `PUT` and `DELETE` at an address, `POST /names` by a key (free, priced by
note, or the owner's change of share), the operator's names. A proof by key or
share may arrive any number of times. Liveness of a hold is judged at the time
the code judges it, which for a call is the moment it read the clock, before its
await.

### The zap bridge (`Zaps.tla`, `MCBridge.tla`), on top of the registry

| Variable | Code |
|---|---|
| `zrow`, `zclock`, `zapPaid` | the `zap_invoices` rows; the invoice at the node |
| `minted`, `bearer` | what put a note at each key of each share; custodial notes (history) |
| `quote` | the unsettled mint invoice bound to each key, or that one lapsed after a counter had gone past the key |
| `gift`, `transfers` | notes handed over in an internal transfer; recorded fingerprints |
| `zcalls` | callbacks between two awaits |
| `tick` | the `zapTick` pass: settle, then holds, then publish |
| `wraps`, `aged` | what relays hold (external), and zaps settled ten minutes ago |

`Zaps` EXTENDS `Addresses`: one state, and a next step of either. A key of a
share is a pair of share and index; `CreditShare` takes the first one not in use
from the name's counter, or from 0 when the share is no longer the name's, and
bumps the counter only if it is. In use (`KeyInUse`, the code's `outputIdInUse`)
is a key that names a note or that an unsettled mint invoice is bound to; the
other ids the code refuses, payment hashes, Qs that preimages or old ids open,
are taken not to be keys of a share. Wallets want some keys themselves (`own` of
the cast): they swap to them, or have a mint invoice bound to one, which is paid
or lapses. A key skipped for an invoice that lapses later is left empty, until a
scan of the share from 0 comes upon it: the one gap that the code leaves. The
comment at `store.ts:809` promises none of zap invoices that nobody pays, and that
holds; a mint invoice nobody pays can leave one, and `NoGapInTheScan` says that
nothing else does. What a wrap or a receipt says is abstracted to whether there is
one.
`Zaps` implements `PaymentPromise` too: payments are zaps and gifts, a zap's places
are the keys of the share on its row, or any key and the mint's custody where the
row has none, and a gift is handed over in the step that burns it.

`MCBridge` gives nine casts, each a few actors that meet at one thing: a hold and
a claim at a name; two holds at a name; two names and two holds at a share; two
keys and two notes at a name; free names moving between shares; a zap to a Nostr
key's name; a zap and a transfer to a name that moves; two zaps to one share; one
note offered to two names. Wallets want a key of their own in the one with a zap
and a transfer. A behaviour picks one at the start, so the run
explores each completely, at the sum and not the product of their sizes.

### Scripts, the stream, the live check, the page and the upgrade (`MCClients.tla`)

Five parts share no state, so `MCClients` runs one of them per behaviour.

`Scripts.tla`: `opening[o]` is one call of `openNote` whose k1 decodes to
`spendOf[o]`; `pending`, `nextId` and `child` are `kernel.ts`'s own variables;
`proc[c]` is each process with what it was sent and what it has written, which
may be read after its exit. `LocalVerdict` is `verifySpend` up to the child; how
a signature, a preimage or a script is checked is abstracted to the set of
domains it is good for. A child may say no to anything, and yes only to what is
good; it may die at any time, and its exit is heard later.

`LiveCheck.tla`: `file` is the state file, `run[r]` an invocation with the copy
it holds in memory. Two invocations overlap and are killed anywhere; a payment
they started and a melt they asked for go on without them. The mint is seen as a
wallet sees it (`quoted`, `held`, `melt`).

`Page.tla`: `slot` is the one slot of sessionStorage, `view` what is on the
screen, `job[m]` the handler of each press of the create button, `money[m]` which
of a note's two secrets opens it, `rotation[m]` the rotate on its way to the
mint, which can land after the page has given up on its answer.

`Upgrade.tla`: the constructor of `NoteStore`, statement by statement, in up to
two processes, either of which is killed anywhere, with one that already serves.
`columns`, `meta`, `legacy`, `acceptedKeys` are the database; `branch[n].used`
counts what was credited under the new purpose (history). Two processes that open
one not yet upgraded database at the same moment make one of them throw, though
it waited for the lock: a column, or the row that says the ids are indexed, is
there by then. That is what keeps the index right, and the next start succeeds.

## The runs

| Run | What it asks | Distinct states |
|---|---|---|
| `melt_fresh` | is the ledger right when every melt has its own invoice, on a node others pay from too, with a reconcile pass and a crash; does anyone resolve a live melt; does every melt resolve | 293 thousand |
| `melt_retry` | and when wallets present one invoice again and again; is NotePromise kept | 167 thousand |
| `issue` | is a payer's money safe among quotes, swaps, claims, verifies and two sweeps, whoever draws the preimages; is every payment credited with no wallet coming back; is PaymentPromise kept | 362 thousand |
| `swaps` | double spends, value, true and repeatable answers; is ValuePromise kept | 2 million (symmetry) |
| `bridge` | do shares and names have one home; is every payment credited once, and does a scan meet no gap but a lapsed quote's; are paid zaps and fees settled in the end | 296 thousand |
| `clients` | the script verifier, the stream, the live check, the page, and the upgrade, one per behaviour | 372 thousand |

Six runs end in a violation, and are kept because each contradicts something
the repository says (`findings` in `PROJECT.json` quotes the lines):

* `melt_stale_pass`: reconcile reads its rows once, and tests `inFlight` at each
  row's turn but never that the row is still open. Trace: a pass takes up two
  rows and waits for the answer on the first; meanwhile the second, skipped had
  its turn come, is restored by its own attempt and leaves `inFlight`; the pass
  asks about it all the same, from its list; the invoice is melted again, and the
  old "not paid" restores the new attempt's row and note just before its send
  reaches the node. Needs a wallet that presents the restored invoice again,
  which the callback supports on purpose.
* `melt_admin_reconcile`: the CLI's reconcile has an empty `inFlight`, so it
  can restore a melt whose send is about to land.
* `melt_shared_node`: the threat model calls the shared-node replay closed
  twice over; a send that fails or loses its reply, followed by somebody else's
  payment of the same hash, is a third way in.
* `issue_verify`: verify asserts a row is there after an await during which
  the sweep may delete it; the request ends in an internal error.
* `zap_old_holder`: a zap invoice made while a name had a Nostr key and no share
  names no share. If the operator frees the name and somebody registers it with
  a share before the invoice is settled, the payment lands on the new holder's
  share. The code's comment says it must not, and counts on invoices without a
  share being old ones.
* `page_lost_secret`: on a mint that names its notes but signs no receipt, the
  page shows an invoice for a secret it stored nowhere; and where it stores one,
  a second mint overwrites the slot. A visitor who pays and reloads has lost k1.

Bounds. Two notes and two hashes are what it takes for one melt's row to be
mistaken for another's; three requests on one hash give an attempt, its retry and
a rival. One reconcile pass of the mint is on at a time in the passing runs:
for fresh invoices, passes that overlap are covered by the proofs, which bound no
set; for reused ones the proofs ask for the same, since a second pass brings the stale answer of `melt_stale_pass`
back, on one row instead of two. `MaxConfirm` is 2 for the
code's 5: one answer that is not the last and one that is. One crash falls
between any two steps; a second finds the same tables. Two quotes, two hashes,
one output of a wallet's choosing and the two that preimages would open make
every pairwise race for an id. Three arrivals of swaps give an original, a spend
of its output, and a retry. In `bridge`, two calls wait at once (`MaxCalls`), so
every pair of handlers meets at an await; three indexes of a share
(`MaxIndex` 2) are as many as two payments and the wallet's own note can take, so
no behaviour wants a fourth. In `clients`: two openings judged in up to two
domains by two children, each of which can be replaced; three settles and two
stops, so that a stop falls before, between and after; two invocations of the
check with two secrets, invoices and refunds each; two presses of the page's
button and two polls in flight; two processes opening a database with two
addresses and one share to contend for. Symmetry is used in `swaps` only, a run
of invariants and of a step property that is symmetric in the permuted sets.
`CHECK_DEADLOCK FALSE` is set because requests are finite in number: when all are
done and every note is spent, nothing is left to do.

Fairness, and why the code gives it:

* Melt: handlers go on, the node takes a send and settles a payment (an HTLC has
  a deadline), the mint's own housekeeping runs (a timer, every five minutes, and
  at startup), answers come, and neither the node's "unclear" nor a failing write
  lasts for ever (strong fairness of a clear answer and of its application, per
  pass and hash). Others stop paying one hash at some time: a hash is paid once.
  The CLI gets none.
* Issue: time passes, the sweep runs, and the node does not fail for ever;
  wallets get no fairness at all.
* Zaps: the tick goes on (a timer), and a settle, a relay of the inbox and a
  lookup of a fee do not fail every time they are tried (strong fairness). Payers,
  holders and the operator get none. `EveryFeeSettles` excepts a fee the node gave
  no answer about for a day, which the code then deletes.
* Scripts: a timer goes off, a promise resumes, an exit and a written line are
  heard. Nothing is asked of the child, which may be silent for ever.
* Stream: a connection is tried again for ever (the pause between two), a settle
  that is there is reported in the end, a handler ends, and a stopped mint is
  started again.

Each property of a passing run has a mutant: a definition marked `Mutation`
beside the one it changes, the way a plausible bug would, under which the run
finds the property violated.

## What is proved

### Melts

`MeltProofs.tla`, for any sets of notes, hashes, requests and passes, and any
bounds:

* `TypeCorrect`: the type invariant.
* `TablesAgree`: `OneRowPerReservedNote`. The invariant is inductive together
  with types; the proof goes action by action through the few that write
  either table. No assumption on wallets, passes or the node.
* `PaymentsAreCovered`: `NoUncoveredPayment`, assuming `Discipline`: no operator
  reconcile runs beside the mint, a send that was given up on does not arrive
  later, and wallets present an invoice once, or else (`Reuse`) there is one hash
  and one pass of the mint at a time. Each part is needed: the first and the last
  by the runs above, the second by the environment. A shared node is allowed, and
  with fresh invoices so are overlapping passes. The property is not inductive: an
  answer "no" must still be true when it is used. The strengthening `Covered` adds
  what keeps it true: one request at a time is at work on a hash
  (`OneRequestPerHash`; with fresh invoices, one ever), a row and a payment were
  made by a request that presented the hash (`RowsHaveMakers`,
  `PaymentsHaveMakers`), a live attempt's row is open and in flight (`LiveRows`), a
  row in a pass's hands is one whose attempt is over, for good or for as long as
  the row is open, which the pass sees to (`PassRows`, `Handed`), a send on the
  wire belongs to an attempt that is still waiting for it (`WireIsLive`), and so
  whoever holds an answer "no" is right (`RefusalsAreTrue`).
* `SpendingIsFinal`: `SpentForGood`, from the guards of the two resolutions. No
  run lists it: see below.
* `BurningIsEarned`: `BurnedOnlyIfPaid`: answers "yes" stay true because a
  completed payment stays complete.
* `LiveMeltsAreTheirs`: `LiveMeltsBelongToTheirAttempt`, from `Covered`: what a
  pass has in its hands is not in flight, so a resolution of a live row is its
  own attempt's, and that step takes the hash out of flight.

Its last part proves `MeltKeepsThePromise`: `Melt` implements
`NotePromise` under `Discipline` and on a node of the mint's own. The mapping
`Whereabouts` is a function of the notes table and of the completed payments.
The argument puts the three invariants together: a note that was paid out is
behind a row that is open or paid (`Covered`), so it is pending or burned
(`Agreed`), so no write of the store gives its value to anyone again; a row is
finalised only when its payment is complete (`Burning`), which is a stutter of
the promise; and the step that pays out is the node's own. `~SharedNode` makes
a completed payment this mint's; without it a melt may burn a note for another
consumer's payment, as `melt_shared_node` shows. The same invariant gives
`BurnedForNobodyElse`: `BurnedForOwnPayment`. `Discipline` covers the instance of
`melt_retry`, so the run and the theorem speak of the same retries.

### Minting

`IssueProofs.tla`, for any outputs, hashes, quotes, claims and sweeps, and whether
the mint or the node draws the preimages. Notes, rows and the node's invoices
change in eight ways only (`LedgerWrite`), each with the guard that the handler
behind it knows to hold when it writes, so the proof is in two halves:

* `Known`: what handlers know when they write. A quote that saw "no" has a hash
  the node was not paid for, or one it sold since (`QuotesKnow`); a preimage the
  mint drew is one quote's, and buys nothing before that quote ends
  (`OwnPreimages`); "yes" stays true (`ChecksKnow`); and a sweep asks only about
  invoices past their expiry, of which "no" stays true as well (`SweepsKnow`).
* `LedgerInv`: the run's invariants with what makes them inductive. A row is what
  was sold, and stays for as long as its invoice can be paid (`RowsAreSales`); a
  note has an origin (`NotesHaveOrigins`); and nobody names the id a preimage opens
  before the invoice is shown (`OnlyNameable`).

They give `PaymentsAreNotStranded`, `NotesAreBought`, `PromisesAreExclusive`,
`PreimagesAreInert`, `NotesAreMintedOnce` and the types (`IssueTypes`). That
preimages and names do not meet by chance is `IssueAssumption`: `PayKey` is
injective and no output a wallet makes up is in its range.

`MintingKeepsThePromise`: `Issue` implements `PaymentPromise`. Each of the eight
writes is one step of it or a stutter. A row is deleted only while its invoice is
past and unpaid, so what lapses is an offer; a settle finds the stage "paid" since
a handler that says so knows it, and the output free since nobody else may take it
(`LedgerInv`), which is also `Room`; the payment itself is the node's step, and
finds an offer because an invoice that can be paid has its row (`RowsAreSales`).

### Swaps

`SwapProofs.tla`, for any notes, outputs, values, wishes, arrivals and crashes. The
inductive invariant has, beside types,

* `Carried`: what the swaps table says was carried out: of one wish, its outputs
  present at the amounts it answers with;
* `Spent`: a swap's inputs are burned, were not melted, and no two swaps share one;
* `Knows(a)` for every request: what it has read of a note is stale in its state
  at most, never in its amount, and what it was answered is in the table;
* `Backed`: the live notes are finitely many and worth no more than is held.

`SwapsAreBacked` is a statement about sums, and the prover cannot do induction
over data. What it can do is use that strict inclusion of finite subsets is well
founded (`WFMin`): the lemmas about `SumFunctionOnSet` take a least subset at which
they fail, and derive a contradiction. The step itself needs three facts: a sum
splits over a partition, does not change where the function does not, and equals
the sum over the list that a request sums up when the list has no repeats
(`Total`). A fee is kept for each note that is minted and given back for each but
one that is merged, which closes the balance. `NotesAreSpentOnce`, `OksAreBacked`
and `SwapTypes` are parts of the invariant, and `RetriesAreAnswered` follows from
`Carried`: a fingerprint is looked up before any state is. That the notes issued
are finitely many is part of `SwapsAssumption`.

`SwapsKeepTheValuePromise`: `Swaps` implements `ValuePromise`. Only a commit is an
exchange: it takes exactly the notes it names, all live (`Swapped`), mints exactly
the outputs it is due, all absent, hence neither live nor spent, and what is minted
sums to no more than what is taken (`MintedWeigh`). A melt's last write pays out; an
arrival, a read, a replay, a refusal, a reservation and a crash are stutters.

### The registry

`AddressProofs.tla`, for any names, keys, shares, holds and notes, about
`AddrSpec`, the registry by itself. The inductive invariant `RegistryInv` has three parts:

* `PayeeInv`: types (`AddrTypes`), what a waiting call knows about its own kind
  (`CallsKnow`), that a hold has a share (`HoldsHaveShares`), and
  `EveryNameHasAPayee`: a move and an update that clear a share need a key;
* `LiveHoldKeepsItsName`: a hold goes in, and a name is bought, only after
  another look at the name's live holds in the same transaction; a lapsed hold
  that is settled late looks for rivals too;
* `Homed(s)` for every share: it has at most one home, a name or an unpaid hold,
  and a share with a home was accepted. `AllRehomed` says of every step that it
  takes homes from a share, or leaves it a single one, and that only if it had
  one before or is new to the mint.

They give `SharesHaveOneHome`, `SharesStayAway` (a share that left for good never
returns), `LiveHoldsKeepTheirNames`, `NamesHavePayees`, `FeesBuyNames` and the
types. `OneHomePerShare` alone is not inductive: a step that admits a share looks
at `accepted` and not at the homes, so it needs that every home is accepted.

### The zap bridge

`ZapProofs.tla`, for any casts, zaps, gifts, shares and names. To the registry,
every step of the bridge is one of its own or a count (`RegistrySees`, `Counts`),
and no home, hold or payee depends on a count, so the five theorems of the
registry hold of `Spec` too (`BridgeSharesHaveOneHome` and so on). `ZapInv` adds:

* `KeysAreHeld`: what is at a key is one thing, of this cast, and at no other key,
  unless it is a wallet's own;
* `PaymentsAreHeld`: a zap has a note at a key, or else a custodial one, exactly
  when it was minted, and a gift exactly when it was burned;
* `PaidToTheShareInvoiced`, with `RowsAreIssued`: a row is written before, and
  deleted only without, a note of its own, so its share cannot change under one;
* `PublishesTheMinted`: marking a row published never mints it;
* `QuotesAreHeld`: a quote is at a key wallets want, and while it is open the key is
  empty, so what settles there is alone;
* `Counted`: below a name's counter every key of its share is met (`KeyMet`): in
  use, or lapsed.

`CreditedOnce` and `NoGapInTheScan` hold only if a free key is always found, which
is a counting argument: if every key of a share were met while one payment is
not credited yet, `KeysAreHeld` and `QuotesAreHeld` would map the keys one to one
into the zaps and gifts but that one, and the wallets' own keys, and there are
fewer of those than keys (`KeysRunOut`, from the bound on casts in `ZapAssumption`; the code's limit
is ten thousand keys). `Counted` then says that the first key not met is not below
the counter, whichever of two names of the share counts. A quote that lapses below
a counter is remembered in that step (`KeysFill`), so the gap is never one of
another making.

`TheBridgeKeepsThePromise`: under the same bound the bridge implements
`PaymentPromise`. `PaymentsHaveRows` adds that a paid zap has its row, so what
lapses was not paid; a settle or a transfer puts one thing at one key or in
custody (`CreditWays`), and the key is one that was free and promised; `Room` is
the counting argument again (`ZapsHaveRoom`). No step of the registry shows at all.

### The stream, the live check, the page, scripts and the upgrade

`ClientProofs.tla`: `TheStreamSkipsNothing` (the stored index never passes what
was not handled: the one in hand is always the next), `NotesAreClaimedOnce`
(one poll is out at a time, a view that has claimed polls no more, and a mint with
a claim is in no slot from which a reload could show it again: `OnePoll`,
`Claimed`, `Slotted`), and `VisitorsAreShownTheMoney` (what is handed over is
decided by a probe that comes after every rotate but a late one: `Rotated`,
`Shown`). `TheFileKeepsTheSecret` and `ChecksPayOnce`, for any number of
invocations of the live check: until the state file is written nothing was asked
of the mint, and only the invocation that created it writes it (`NothingYet`); from
then on the file, every invocation's memory, every invoice and every melt is about
one secret (`OneSecret`), at most one invoice is open or paid (`OneInvoice`), and one
refund under way reserves the note that one paid refund burns (`OneRefund`).

`ScriptProofs.tla`: `ScriptsOpenOnTheirOwnVerdict`, for any openings, domains and
children. `ScriptInv` says that ids are fresh and one stands for one opening
(`PendingInv`), that what a process was sent or wrote, dead or alive, is about
the opening its id stands for, if any (`ProcInv`), and that whoever waits had its
leaf and its locks judged (`OpeningInv`), which the clock does not undo
(`DueStays`).

`UpgradeProofs.tla`: `UpgradesAreWholeAndOnce`, for any processes. `FlagsInv`
says a flag in meta stands for work that was done, and that before the ids are
indexed there is no note of the new kind, since nothing serves; `SharesInv`, that
an open store has accepted every share on file, those that another process moves
meanwhile included.

`PartsKeepTheirTypes` is `MCTypeOK`, the types of the five parts under the
specification of the run: the part that runs keeps its own by its own invariant
(`ScriptsKeepTheirTypes` and its likes), and four stand still.

### Proved only

`SpentForGood` (of `Melt`), `MintedNotesWereBought` (of `Issue`) and `SpentOnce` (of
`Swaps`) have theorems and no run of their own: what they say of the tables is
part of the promise that `melt_retry`, `issue` and `swaps` check. `KeepsTheZapPromise`
is not in `bridge`, which would take twice as long for it; `CreditedOnce` and
`PaidToTheShareInvoiced`, which are, are most of what it says.

### Model-checked only

Liveness (out of the prover's reach, and with it everything that needs fairness):
`EveryMeltResolves`, `EveryPaymentIsCredited`, `EveryZapArrives`, `EveryFeeSettles`,
`EveryScriptIsJudged` and `EverySettleIsHeard`. Every invariant and every step
property of the passing runs, and each of the four refinements, is also proved, those
of melts under `Discipline` where their theorem says so.

## What is not modelled

* Amounts, fee limits and preimages in melts; HTTP, JSON, parsing; signatures,
  curve arithmetic, sighashes and the bytes of scripts and bolt11s, which are
  guards or sets of domains here. Liveness of the live check: its payer and its
  refund command are the operator's.
* Statistics (a cached read), signing, announcements (hourly, best effort), the
  configuration, and pages: they hold no state a property depends on.
* A node that loses its history or is exchanged for another: it would answer
  "never paid" for payments it did not make, and report low stream indexes.
* A send that reaches the node after the client gave up on it: `LateSend` admits
  it, and no line of this code could exclude what it breaks.
* An old release running beside an upgraded one; the read-only opening of a store.
* A share with ten thousand keys in use, past which a settle throws.

## Plan

Written, in order: Melt and NotePromise, MeltProofs, Issue, Swaps; then
Addresses, Zaps and MCBridge, Stream, Scripts, LiveCheck, Page, Upgrade and
MCClients, AddressProofs, ClientProofs, ScriptProofs and UpgradeProofs; then
IssueProofs, SwapProofs and ZapProofs; then the promise with a reused invoice,
PaymentPromise (of Issue and of Zaps) and ValuePromise (of Swaps), each with the
proof that it is kept.

Not planned further: one ledger of value across the four specifications at once.
They share the notes table and nothing else, and each models what the others do
to it as steps of its environment (melts in `Swaps`, swaps in `Issue`); composing
them would multiply their states and add no interleaving that these lack.
