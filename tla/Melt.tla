-------------------------------- MODULE Melt --------------------------------
(***************************************************************************)
(* Paying a bearer note out over Lightning: the melt branch of the         *)
(* withdraw callback (server.ts), runMelt and reconcilePendingMelts        *)
(* (melt.ts), the melts table (store.ts), and the funding source they ask. *)
(*                                                                         *)
(* Every store operation is one SQLite transaction and so one step.  Every *)
(* `await` is a boundary between steps: a call to the node is an ask, an   *)
(* answer the node samples from the payment's status at some later         *)
(* instant, and a reply acted upon later still.  Between those instants    *)
(* the other handlers, the reconcile passes, the operator's CLI and the    *)
(* node itself all move, and the process may die.                          *)
(***************************************************************************)
EXTENDS Naturals, FiniteSets

CONSTANTS
  Notes,         \* bearer notes, all outstanding at the start
  Hashes,        \* payment hashes of the invoices wallets ask to be paid
  Requests,      \* melt requests, each one HTTP call with its handler
  ServerPasses,  \* reconcile passes the mint's process can overlap
  AdminPasses,   \* `moneyer admin reconcile` runs, each its own process
  MaxConfirm,    \* the number of confirmation delays (5 in the code)
  MaxCrashes,    \* bound: times the mint's process dies
  Reuse,         \* TRUE: a wallet may present an invoice a second time
  SharedNode,    \* TRUE: other consumers pay invoices from the same node
  LateSend,      \* TRUE: a send its caller gave up on may still arrive
  NoNote, NoHash, Others

ASSUME MaxConfirmAssumption == MaxConfirm \in Nat \ {0}
ASSUME MaxCrashesAssumption == MaxCrashes \in Nat
ASSUME FlagsAssumption ==
  Reuse \in BOOLEAN /\ SharedNode \in BOOLEAN /\ LateSend \in BOOLEAN
ASSUME NullAssumption ==
  NoNote \notin Notes /\ NoHash \notin Hashes /\ Others \notin Requests
ASSUME PassesAssumption == ServerPasses \cap AdminPasses = {}

Passes == ServerPasses \union AdminPasses

VARIABLES
  note,      \* notes.state
  melt,      \* the melts row of each hash, outcome "absent" for no row
  inFlight,  \* server.ts's set of hashes whose runMelt is live
  req,       \* where each handler is, and what it remembers
  pass,      \* where each reconcile pass is
  wire,      \* requests whose send is written but not yet taken by the node
  node,      \* the node's payment for each hash, and who asked for it
  crashes

vars == <<note, melt, inFlight, req, pass, wire, node, crashes>>

NoRow == [note |-> NoNote, outcome |-> "absent"]
IdleRequest ==
  [pc |-> "idle", note |-> NoNote, hash |-> NoHash, tries |-> 0, answer |-> "none"]
IdlePass == [pc |-> "idle", todo |-> {}, at |-> NoHash, answer |-> "none"]

Init ==
  /\ note = [n \in Notes |-> "outstanding"]
  /\ melt = [h \in Hashes |-> NoRow]
  /\ inFlight = {}
  /\ req = [r \in Requests |-> IdleRequest]
  /\ pass = [p \in Passes |-> IdlePass]
  /\ wire = {}
  /\ node = [h \in Hashes |-> [status |-> "unknown", by |-> Others]]
  /\ crashes = 0

-----------------------------------------------------------------------------
(* The store's transactions.                                               *)

OpenRows == {h \in Hashes : melt[h].outcome = "open"}

\* Mutation: any note may be reserved, whatever became of it since.
CanReserveStale(n, h) == melt[h].outcome \in {"absent", "restored"}

\* Mutation: an earlier melt into this invoice does not matter.
CanReserveTwice(n, h) == note[n] = "outstanding"

\* markPending's two assertions: the note is outstanding, and any earlier
\* melt into this invoice was restored.
CanReserve(n, h) ==
  /\ note[n] = "outstanding"
  /\ melt[h].outcome \in {"absent", "restored"}

MarkPending(n, h) ==
  /\ melt' = [melt EXCEPT ![h] = [note |-> n, outcome |-> "open"]]
  /\ note' = [note EXCEPT ![n] = "pending"]

\* Mutation: the note of a paid melt is deleted rather than burned.
FinalizeAndDelete(h) ==
  IF melt[h].outcome = "open"
    THEN /\ melt' = [melt EXCEPT ![h].outcome = "paid"]
         /\ note' = [note EXCEPT ![melt[h].note] = "deleted"]
    ELSE UNCHANGED <<melt, note>>

\* Both resolutions do nothing at all unless the row is still open.
FinalizeMelt(h) ==
  IF melt[h].outcome = "open"
    THEN /\ melt' = [melt EXCEPT ![h].outcome = "paid"]
         /\ note' = [note EXCEPT ![melt[h].note] = "burned"]
    ELSE UNCHANGED <<melt, note>>

RestoreMelt(h) ==
  IF melt[h].outcome = "open"
    THEN /\ melt' = [melt EXCEPT ![h].outcome = "restored"]
         /\ note' = [note EXCEPT ![melt[h].note] =
                       IF @ = "pending" THEN "outstanding" ELSE @]
    ELSE UNCHANGED <<melt, note>>

-----------------------------------------------------------------------------
(* The funding source.  A hash is sent at most once at a time, and again   *)
(* only after every earlier attempt failed.                                *)

Sendable(h) == node[h].status \in {"unknown", "failed"}

\* Mutation: a payment with no outcome yet is reported as not made.
NodeAnswersEarly(h) ==
  {"unclear"} \union (IF node[h].status = "succeeded" THEN {"yes"} ELSE {"no"})

\* What isPaymentComplete can come back with: true, false, or a throw (no
\* terminal outcome yet, or no usable reply).
NodeAnswers(h) ==
  {"unclear"} \union
  (CASE node[h].status = "succeeded" -> {"yes"}
     [] node[h].status = "inflight"  -> {}
     [] OTHER                        -> {"no"})

\* The send arrives.  A hash the node is paying or has paid is refused, and
\* the caller, if it is still there, is told so.
NodeTakesSend(r) ==
  LET h == req[r].hash IN
  /\ r \in wire
  /\ wire' = wire \ {r}
  /\ IF Sendable(h)
       THEN /\ node' = [node EXCEPT ![h] = [status |-> "inflight", by |-> r]]
            /\ UNCHANGED req
       ELSE /\ req' = IF req[r].pc = "sending"
                        THEN [req EXCEPT ![r].answer = "known"] ELSE req
            /\ UNCHANGED node
  /\ UNCHANGED <<note, melt, inFlight, pass, crashes>>

NodeSettles(h) ==
  /\ node[h].status = "inflight"
  /\ \E s \in {"succeeded", "failed"} : node' = [node EXCEPT ![h].status = s]
  /\ UNCHANGED <<note, melt, inFlight, req, pass, wire, crashes>>

\* Another mint, or the operator, pays the same invoice from this node.
OthersPay(h) ==
  /\ SharedNode
  /\ Sendable(h)
  /\ node' = [node EXCEPT ![h] = [status |-> "inflight", by |-> Others]]
  /\ UNCHANGED <<note, melt, inFlight, req, pass, wire, crashes>>

NodeAnswersRequest(r) ==
  /\ req[r].pc \in {"precheck", "confirm"}
  /\ req[r].answer = "none"
  /\ \E a \in NodeAnswers(req[r].hash) : req' = [req EXCEPT ![r].answer = a]
  /\ UNCHANGED <<note, melt, inFlight, pass, wire, node, crashes>>

NodeAnswersPass(p) ==
  /\ pass[p].pc = "asking"
  /\ pass[p].answer = "none"
  /\ \E a \in NodeAnswers(pass[p].at) : pass' = [pass EXCEPT ![p].answer = a]
  /\ UNCHANGED <<note, melt, inFlight, req, wire, node, crashes>>

-----------------------------------------------------------------------------
(* The withdraw callback.                                                  *)

\* Mutation: the hash stays in flight after its attempt.
FinishKeeping(r) ==
  /\ req' = [req EXCEPT ![r].pc = "done", ![r].tries = 0, ![r].answer = "none"]
  /\ UNCHANGED inFlight

\* The handler's last step: what is left of it holds nothing.
Finish(r) ==
  /\ req' = [req EXCEPT ![r].pc = "done", ![r].tries = 0, ![r].answer = "none"]
  /\ inFlight' = inFlight \ {req[r].hash}

Fresh(h) == \A q \in Requests : req[q].hash # h

\* openNote found the note outstanding; its spend is being verified.
Open(r, n, h) ==
  /\ req[r].pc = "idle"
  /\ note[n] = "outstanding"
  /\ Reuse \/ Fresh(h)
  /\ req' = [req EXCEPT ![r] = [@ EXCEPT !.pc = "opened", !.note = n, !.hash = h]]
  /\ UNCHANGED <<note, melt, inFlight, pass, wire, node, crashes>>

\* With the spend verified: an earlier melt that paid or is unresolved
\* refuses this one, and otherwise the node is asked about the hash.
CheckInvoice(r) ==
  /\ req[r].pc = "opened"
  /\ req' = [req EXCEPT ![r].pc =
       IF melt[req[r].hash].outcome \in {"open", "paid"} THEN "done" ELSE "precheck"]
  /\ UNCHANGED <<note, melt, inFlight, pass, wire, node, crashes>>

\* Paid, unclear, no longer reservable, or the reservation's write threw.
RefuseAfterPrecheck(r) ==
  /\ req[r].pc = "precheck"
  /\ req[r].answer # "none"
  /\ req' = [req EXCEPT ![r].pc = "done", ![r].answer = "none"]
  /\ UNCHANGED <<note, melt, inFlight, pass, wire, node, crashes>>

\* Reserved, marked live and sent without yielding in between.
Reserve(r) ==
  LET n == req[r].note
      h == req[r].hash
  IN
  /\ req[r].pc = "precheck"
  /\ req[r].answer = "no"
  /\ CanReserve(n, h)
  /\ MarkPending(n, h)
  /\ inFlight' = inFlight \union {h}
  /\ wire' = wire \union {r}
  /\ req' = [req EXCEPT ![r].pc = "sending", ![r].answer = "none"]
  /\ UNCHANGED <<pass, node, crashes>>

-----------------------------------------------------------------------------
(* runMelt and confirmThenSettle.                                          *)

PayOk(r) ==
  /\ req[r].pc = "sending"
  /\ node[req[r].hash] = [status |-> "succeeded", by |-> r]
  /\ FinalizeMelt(req[r].hash)
  /\ Finish(r)
  /\ UNCHANGED <<pass, wire, node, crashes>>

PayAlreadyKnown(r) ==
  /\ req[r].pc = "sending"
  /\ req[r].answer = "known"
  /\ RestoreMelt(req[r].hash)
  /\ Finish(r)
  /\ UNCHANGED <<pass, wire, node, crashes>>

\* Mutation: whatever is not a success is a clean failure, and the note is
\* given back without asking.
PayFailed(r) ==
  /\ req[r].pc = "sending"
  /\ RestoreMelt(req[r].hash)
  /\ Finish(r)
  /\ wire' = IF LateSend THEN wire ELSE wire \ {r}
  /\ UNCHANGED <<pass, node, crashes>>

\* Any other outcome, at any moment: a clean failure report, a dropped
\* connection, a timeout, a preimage that does not settle the invoice.
\* None of them is believed; the node is asked.
PayUnclear(r) ==
  /\ req[r].pc = "sending"
  /\ req' = [req EXCEPT ![r].pc = "confirm", ![r].tries = MaxConfirm,
                        ![r].answer = "none"]
  /\ wire' = IF LateSend THEN wire ELSE wire \ {r}
  /\ UNCHANGED <<note, melt, inFlight, pass, node, crashes>>

\* The write after a definite answer to the send throws (the database is
\* locked or full): the handler's catch leaves the note pending.
SettleThrows(r) ==
  /\ req[r].pc = "sending"
  /\ \/ node[req[r].hash] = [status |-> "succeeded", by |-> r]
     \/ req[r].answer = "known"
  /\ Finish(r)
  /\ UNCHANGED <<note, melt, pass, wire, node, crashes>>

\* Mutation: no usable answer counts as paid.
ConfirmPaidUnlessDenied(r) ==
  /\ req[r].pc = "confirm"
  /\ req[r].answer \in {"yes", "unclear"}
  /\ FinalizeMelt(req[r].hash)
  /\ Finish(r)
  /\ UNCHANGED <<pass, wire, node, crashes>>

ConfirmPaid(r) ==
  /\ req[r].pc = "confirm"
  /\ req[r].answer = "yes"
  /\ FinalizeMelt(req[r].hash)
  /\ Finish(r)
  /\ UNCHANGED <<pass, wire, node, crashes>>

ConfirmNotPaid(r) ==
  /\ req[r].pc = "confirm"
  /\ req[r].answer = "no"
  /\ RestoreMelt(req[r].hash)
  /\ Finish(r)
  /\ UNCHANGED <<pass, wire, node, crashes>>

\* No usable answer, or the write after it threw: the same catch takes both.
ConfirmAgain(r) ==
  /\ req[r].pc = "confirm"
  /\ req[r].answer # "none"
  /\ req[r].tries > 1
  /\ req' = [req EXCEPT ![r].tries = @ - 1, ![r].answer = "none"]
  /\ UNCHANGED <<note, melt, inFlight, pass, wire, node, crashes>>

LeavePending(r) ==
  /\ req[r].pc = "confirm"
  /\ req[r].answer # "none"
  /\ req[r].tries = 1
  /\ Finish(r)
  /\ UNCHANGED <<note, melt, pass, wire, node, crashes>>

-----------------------------------------------------------------------------
(* reconcilePendingMelts: the open rows are read once; then, row by row,   *)
(* rows live in this process are skipped and the node is asked about the   *)
(* next one.  The skip test runs when the row's turn comes, in the same    *)
(* step as whatever the pass did before it, and not again after the ask.   *)

\* Mutation: the pass asks about every open row.
SkipsNothing(p) == {}

Skips(p) == IF p \in AdminPasses THEN {} ELSE inFlight

\* Where the loop can be next with `todo` left.  The rows are in no
\* particular order, so any of the skipped ones may still lie ahead.
NextRow(p, todo) ==
  LET free == todo \ Skips(p) IN
  IF free = {}
    THEN {IdlePass}
    ELSE {[pc |-> "asking", todo |-> (free \ {h}) \union ahead, at |-> h, answer |-> "none"] :
            h \in free, ahead \in SUBSET (todo \cap Skips(p))}

PassStart(p) ==
  /\ pass[p].pc = "idle"
  /\ ~ OpenRows \subseteq Skips(p)
  /\ \E next \in NextRow(p, OpenRows) : pass' = [pass EXCEPT ![p] = next]
  /\ UNCHANGED <<note, melt, inFlight, req, wire, node, crashes>>

PassApplies(p) ==
  /\ pass[p].pc = "asking"
  /\ \/ pass[p].answer = "yes" /\ FinalizeMelt(pass[p].at)
     \/ pass[p].answer = "no" /\ RestoreMelt(pass[p].at)
  /\ \E next \in NextRow(p, pass[p].todo) : pass' = [pass EXCEPT ![p] = next]
  /\ UNCHANGED <<inFlight, req, wire, node, crashes>>

\* The catch: no answer, or the write threw.  On to the next row.
PassLeaves(p) ==
  /\ pass[p].pc = "asking"
  /\ pass[p].answer # "none"
  /\ \E next \in NextRow(p, pass[p].todo) : pass' = [pass EXCEPT ![p] = next]
  /\ UNCHANGED <<note, melt, inFlight, req, wire, node, crashes>>

-----------------------------------------------------------------------------
(* The rest of the world.                                                  *)

\* A rotate, split, merge, transfer or fee payment spends the note: each
\* asserts it is outstanding and burns it in one transaction.
SpendOtherwise(n) ==
  /\ note[n] = "outstanding"
  /\ note' = [note EXCEPT ![n] = "burned"]
  /\ UNCHANGED <<melt, inFlight, req, pass, wire, node, crashes>>

\* The mint's process dies and starts again on the same database.
Crash ==
  /\ crashes < MaxCrashes
  /\ crashes' = crashes + 1
  /\ req' = [r \in Requests |->
       IF req[r].pc = "idle" THEN req[r]
       ELSE [req[r] EXCEPT !.pc = "done", !.tries = 0, !.answer = "none"]]
  /\ pass' = [p \in Passes |-> IF p \in ServerPasses THEN IdlePass ELSE pass[p]]
  /\ inFlight' = {}
  /\ wire' = IF LateSend THEN wire ELSE {}
  /\ UNCHANGED <<note, melt, node>>

HandlerStep(r) ==
  \/ CheckInvoice(r)
  \/ RefuseAfterPrecheck(r)
  \/ Reserve(r)
  \/ PayOk(r)
  \/ PayAlreadyKnown(r)
  \/ PayUnclear(r)
  \/ SettleThrows(r)
  \/ ConfirmPaid(r)
  \/ ConfirmNotPaid(r)
  \/ ConfirmAgain(r)
  \/ LeavePending(r)

PassStep(p) ==
  \/ PassStart(p)
  \/ PassApplies(p)
  \/ PassLeaves(p)

NodeStep ==
  \/ \E r \in Requests : NodeTakesSend(r) \/ NodeAnswersRequest(r)
  \/ \E h \in Hashes : NodeSettles(h) \/ OthersPay(h)
  \/ \E p \in Passes : NodeAnswersPass(p)

Next ==
  \/ \E r \in Requests, n \in Notes, h \in Hashes : Open(r, n, h)
  \/ \E r \in Requests : HandlerStep(r)
  \/ \E p \in Passes : PassStep(p)
  \/ NodeStep
  \/ \E n \in Notes : SpendOtherwise(n)
  \/ Crash

Spec == Init /\ [][Next]_vars

\* The mint runs its handlers and its five-minute housekeeping; the node
\* takes what it is sent and settles what it holds (an HTLC has a deadline);
\* neither the node's replies nor the store's writes fail for ever; and what
\* else pays from the same node leaves this mint's hashes alone in the end.
ClearAnswer(p, h) ==
  NodeAnswersPass(p) /\ pass[p].at = h /\ pass'[p].answer # "unclear"

Fairness ==
  /\ \A r \in Requests : /\ WF_vars(HandlerStep(r))
                         /\ WF_vars(NodeTakesSend(r))
                         /\ WF_vars(NodeAnswersRequest(r))
  /\ \A h \in Hashes : WF_vars(NodeSettles(h))
  /\ \A p \in ServerPasses :
       /\ WF_vars(PassStep(p))
       /\ WF_vars(NodeAnswersPass(p))
       /\ \A h \in Hashes : /\ SF_vars(ClearAnswer(p, h))
                            /\ SF_vars(PassApplies(p) /\ pass[p].at = h)
  /\ <>[][~\E h \in Hashes : OthersPay(h)]_vars

FairSpec == Spec /\ Fairness

-----------------------------------------------------------------------------
(* Properties.                                                             *)

LivePcs == {"sending", "confirm"}
Answers == {"none", "yes", "no", "unclear", "known"}
NoteStates == {"outstanding", "pending", "burned"}
Rows == [note : Notes \union {NoNote},
         outcome : {"absent", "open", "paid", "restored"}]
RequestStates == [pc : {"idle", "opened", "precheck", "sending", "confirm", "done"},
                  note : Notes \union {NoNote}, hash : Hashes \union {NoHash},
                  tries : 0..MaxConfirm, answer : Answers]
PassStates == [pc : {"idle", "asking"}, todo : SUBSET Hashes,
               at : Hashes \union {NoHash}, answer : Answers]
Payments == [status : {"unknown", "inflight", "succeeded", "failed"},
             by : Requests \union {Others}]

\* Every variable stays within its declared shape, and no handler or pass
\* works on a note or a hash that is not there.
TypeOK ==
  /\ note \in [Notes -> NoteStates]
  /\ melt \in [Hashes -> Rows]
  /\ inFlight \in SUBSET Hashes
  /\ req \in [Requests -> RequestStates]
  /\ pass \in [Passes -> PassStates]
  /\ wire \in SUBSET Requests
  /\ node \in [Hashes -> Payments]
  /\ crashes \in 0..MaxCrashes
  /\ \A r \in Requests : req[r].pc # "idle" => req[r].note \in Notes /\ req[r].hash \in Hashes
  /\ \A p \in Passes : pass[p].pc = "asking" => pass[p].at \in Hashes
  /\ \A r \in wire : req[r].pc # "idle"

\* The notes table and the melts table agree: a note is pending exactly
\* while one open melt row holds it, a note whose melt paid is burned, and
\* no note is behind two rows that are open or paid.  The two tables are
\* written by different handlers at different times.
OneRowPerReservedNote ==
  /\ \A n \in Notes : note[n] = "pending" <=> \E h \in OpenRows : melt[h].note = n
  /\ \A h \in Hashes : melt[h].outcome = "paid" => note[melt[h].note] = "burned"
  /\ \A g, h \in Hashes :
       /\ melt[g].outcome \in {"open", "paid"}
       /\ melt[h].outcome \in {"open", "paid"}
       /\ melt[g].note = melt[h].note
       => g = h

\* "The note burns only once the payment POSITIVELY completed": a melt is
\* recorded paid only if the node holds a completed payment for the hash.
BurnedOnlyIfPaid ==
  \A h \in Hashes : melt[h].outcome = "paid" => node[h].status = "succeeded"

\* "Restore only on confirmed non-payment": while a payment this mint sent
\* for a note is under way or made, the note stays behind that payment's
\* melt row, open or paid.  Otherwise the holder has both the money and a
\* note to spend.
NoUncoveredPayment ==
  \A h \in Hashes :
    /\ node[h].by \in Requests
    /\ node[h].status \in {"inflight", "succeeded"}
    => /\ melt[h].note = req[node[h].by].note
       /\ melt[h].outcome \in {"open", "paid"}

\* A note burned by a melt was burned for this mint's own payment of its
\* invoice, never for one that somebody else made from the same node.
BurnedForOwnPayment ==
  \A h \in Hashes :
    melt[h].outcome = "paid" =>
      /\ node[h].by \in Requests
      /\ req[node[h].by].note = melt[h].note

\* Melts whose attempt is live are skipped by reconcile: "their runMelt owns
\* them".  A row is resolved while its hash is in flight only by the step
\* that ends the attempt.
LiveMeltsBelongToTheirAttempt ==
  [][\A h \in inFlight :
       melt[h].outcome = "open" /\ melt'[h].outcome # "open" => h \notin inFlight']_vars

\* What is spent stays spent: a burned note and a paid row never change,
\* whatever retries, answers and restarts come after.
SpentForGood ==
  [][/\ \A n \in Notes : note[n] = "burned" => note'[n] = "burned"
     /\ \A h \in Hashes : melt[h].outcome = "paid" => melt'[h] = melt[h]]_vars

\* Every melt is resolved in the end, by its handler or by a later pass,
\* whatever the first answers were and wherever the process died.
EveryMeltResolves ==
  \A h \in Hashes : melt[h].outcome = "open" ~> melt[h].outcome # "open"

\* A payment this mint made has taken the note's value.
PaidOut(n) ==
  \E h \in Hashes : /\ node[h].status = "succeeded"
                    /\ node[h].by \in Requests
                    /\ req[node[h].by].note = n

\* Where each note's value is, for the promise made to its holder: a payment
\* has taken it, or else the notes table says.
Whereabouts ==
  [n \in Notes |->
     CASE PaidOut(n)                               -> "paidOut"
       [] ~PaidOut(n) /\ note[n] = "outstanding" -> "holder"
       [] ~PaidOut(n) /\ note[n] = "pending"     -> "reserved"
       [] ~PaidOut(n) /\ note[n] = "burned"      -> "swapped"]

Promise == INSTANCE NotePromise WITH where <- Whereabouts

\* The melt machinery implements the holder's promise: each note's value
\* leaves once, by one route, and comes back from a melt only before it left.
KeepsThePromise == Promise!Spec
=============================================================================
