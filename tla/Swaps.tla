-------------------------------- MODULE Swaps --------------------------------
(***************************************************************************)
(* Rotating, splitting and merging notes: the swapping branches of the     *)
(* withdraw callback (server.ts) and NoteStore.swap (store.ts).            *)
(*                                                                         *)
(* The request is a GET, and transports retry GETs: the same request may   *)
(* arrive any number of times, at once or after its answer was lost.  Each *)
(* arrival opens its notes one by one, with an await after each read, and  *)
(* then decides and writes in one synchronous stretch on what it read.     *)
(***************************************************************************)
EXTENDS Naturals, FiniteSets, Sequences, FiniteSetsExt

CONSTANTS
  Notes,     \* notes outstanding at the start
  Value,     \* what each of them is worth
  Outputs,   \* output ids wallets name
  Promised,  \* those of them that an unsettled mint invoice will credit
  BaseFee,   \* the flat fee of one melt, withheld from every note minted
  Wishes,    \* requests wallets make: notes in order, outputs, amount
  Attempts,  \* arrivals of requests, retries among them
  MaxCrashes \* bound: times the mint's process dies

NoAmount == 0
Ids == Notes \union Outputs

ASSUME SwapsAssumption ==
  /\ Notes \cap Outputs = {} /\ IsFiniteSet(Notes)
  /\ Promised \subseteq Outputs
  /\ BaseFee \in Nat /\ MaxCrashes \in Nat
  /\ DOMAIN Value = Notes
  /\ \A n \in Notes : Value[n] \in Nat \ {0}
  /\ \A w \in Wishes : /\ DOMAIN w = {"ins", "outs", "amount"}
                       /\ w.ins \in Seq(Ids) \ {<< >>}
                       /\ w.outs \in Seq(Outputs) /\ Len(w.outs) \in {1, 2}
                       /\ IsInjective(w.outs)
                       /\ w.amount \in Nat
                       /\ (w.amount # NoAmount => Len(w.outs) = 2)

VARIABLES
  note,    \* the notes table
  swaps,   \* the swaps table: a fingerprint for each swap, and its outputs
  att,     \* where each arrival is, what it has read, and its reply
  held,    \* msat the mint holds against its notes (history)
  melted,  \* notes paid out over Lightning (history)
  crashes

vars == <<note, swaps, att, held, melted, crashes>>

NoNote == [state |-> "absent", amount |-> 0]
Idle == [pc |-> "idle", wish |-> << >>, seen |-> << >>, reply |-> "none", paid |-> << >>]

Init ==
  /\ note = [i \in Ids |->
       IF i \in Notes THEN [state |-> "outstanding", amount |-> Value[i]] ELSE NoNote]
  /\ swaps = {}
  /\ att = [a \in Attempts |-> Idle]
  /\ held = SumFunctionOnSet([n \in Notes |-> Value[n] + BaseFee], Notes)
  /\ melted = {}
  /\ crashes = 0

-----------------------------------------------------------------------------
(* What a request asks for.                                                *)

\* swapFingerprint: the notes, each as often as it is named, in no order;
\* the outputs; the amount.
Fingerprint(w) == [ins |-> Range(w.ins), times |-> Len(w.ins), outs |-> w.outs, amount |-> w.amount]

Replays(w) == {s \in swaps : s.fingerprint = Fingerprint(w)}

IsSplit(w) == w.amount # NoAmount

\* A second output that no amount splits off is in the fingerprint only.
Minted(w) == IF IsSplit(w) THEN {1, 2} ELSE {1}

Total(seen) == SumFunctionOnSet([k \in DOMAIN seen |-> seen[k].amount], DOMAIN seen)

\* Mutation: a merge gives back a fee for every note it takes.
PayoutRefundingAll(w, total) ==
  IF IsSplit(w) THEN <<w.amount, (total - w.amount) - BaseFee>>
                ELSE <<total + Len(w.ins) * BaseFee>>

\* The fee of a split comes out of its change; a merge of n gives n-1 back.
Payout(w, total) ==
  IF IsSplit(w) THEN <<w.amount, (total - w.amount) - BaseFee>>
                ELSE <<total + (Len(w.ins) - 1) * BaseFee>>

\* Mutation: change of nothing is a note too.
AffordableToTheLast(w, total) ==
  IsSplit(w) => /\ w.amount < total
                /\ total - w.amount >= BaseFee

\* Change that would be nothing, or less, is refused.
Affordable(w, total) ==
  IsSplit(w) => /\ w.amount < total
                /\ total - w.amount > BaseFee

\* Mutation: only invoices are looked at, not the notes table.
InUseByInvoice(i) == i \in Promised

InUse(i) == note[i].state # "absent" \/ i \in Promised

\* Mutation: the inputs were read before, so they are not asserted again.
CanSwapAsRead(w) ==
  /\ IsInjective(w.ins)
  /\ \A k \in Minted(w) : ~InUse(w.outs[k])

\* assertOutstanding for every input, assertOutputIdFree for every output.
CanSwap(w) ==
  /\ IsInjective(w.ins)
  /\ \A k \in DOMAIN w.ins : note[w.ins[k]].state = "outstanding"
  /\ \A k \in Minted(w) : ~InUse(w.outs[k])

Swap(w, amounts) ==
  LET Out(i) == CHOOSE k \in Minted(w) : w.outs[k] = i
      minted == {w.outs[k] : k \in Minted(w)}
  IN
  /\ note' = [i \in Ids |->
       CASE i \in minted -> [state |-> "outstanding", amount |-> amounts[Out(i)]]
         [] i \in Range(w.ins) -> [note[i] EXCEPT !.state = "burned"]
         [] OTHER -> note[i]]
  /\ swaps' = swaps \union {[fingerprint |-> Fingerprint(w), amounts |-> amounts]}

-----------------------------------------------------------------------------
(* The withdraw callback.                                                  *)

Arrive(a, w) ==
  /\ att[a].pc = "idle"
  /\ att' = [att EXCEPT ![a] = [@ EXCEPT !.pc = "opening", !.wish = w]]
  /\ UNCHANGED <<note, swaps, held, melted, crashes>>

Reply(a, r, amounts) ==
  att' = [att EXCEPT ![a] = [@ EXCEPT !.pc = "done", !.seen = << >>,
                                      !.reply = r, !.paid = amounts]]

\* The note the next k1 opens is read, and the spend verified meanwhile.
OpenNext(a) ==
  LET i == att[a].wish.ins[Len(att[a].seen) + 1] IN
  /\ att[a].pc = "opening"
  /\ Len(att[a].seen) < Len(att[a].wish.ins)
  /\ IF note[i].state = "absent"
       THEN Reply(a, "invalid", << >>)
       ELSE att' = [att EXCEPT ![a].seen = Append(@, note[i])]
  /\ UNCHANGED <<note, swaps, held, melted, crashes>>

AllOpen(a) ==
  /\ att[a].pc = "opening"
  /\ Len(att[a].seen) = Len(att[a].wish.ins)

\* A request that minted its outputs before gets the same answer again.
Replay(a) ==
  /\ AllOpen(a)
  /\ IsInjective(att[a].wish.ins)
  /\ \E s \in Replays(att[a].wish) : Reply(a, "ok", s.amounts)
  /\ UNCHANGED <<note, swaps, held, melted, crashes>>

\* Mutation: the notes' states are looked at before the fingerprint.
NewByState(a) == AllOpen(a) /\ IsInjective(att[a].wish.ins)

New(a) == AllOpen(a) /\ IsInjective(att[a].wish.ins) /\ Replays(att[a].wish) = {}

SeenOutstanding(a) == \A k \in DOMAIN att[a].seen : att[a].seen[k].state = "outstanding"

RefuseDuplicate(a) ==
  /\ AllOpen(a)
  /\ ~IsInjective(att[a].wish.ins)
  /\ Reply(a, "invalid", << >>)
  /\ UNCHANGED <<note, swaps, held, melted, crashes>>

\* The first note that was not outstanding when it was read decides.
RefuseInputs(a) ==
  /\ New(a)
  /\ \E k \in DOMAIN att[a].seen :
       /\ att[a].seen[k].state # "outstanding"
       /\ \A j \in 1..(k - 1) : att[a].seen[j].state = "outstanding"
       /\ Reply(a, IF att[a].seen[k].state = "burned" THEN "in use" ELSE "pending", << >>)
  /\ UNCHANGED <<note, swaps, held, melted, crashes>>

RefuseAmount(a) ==
  /\ New(a) /\ SeenOutstanding(a)
  /\ ~Affordable(att[a].wish, Total(att[a].seen))
  /\ Reply(a, "insufficient", << >>)
  /\ UNCHANGED <<note, swaps, held, melted, crashes>>

\* An input was spent since it was read, or an output is taken: the
\* transaction rolls back.  Inputs are asserted first, in order.
SwapRefusal(w) ==
  LET spent == {k \in DOMAIN w.ins : note[w.ins[k]].state # "outstanding"} IN
  IF spent = {} THEN "in use"
  ELSE IF note[w.ins[Min(spent)]].state = "pending" THEN "pending" ELSE "invalid"

RefuseSwap(a) ==
  /\ New(a) /\ SeenOutstanding(a)
  /\ Affordable(att[a].wish, Total(att[a].seen))
  /\ ~CanSwap(att[a].wish)
  /\ Reply(a, SwapRefusal(att[a].wish), << >>)
  /\ UNCHANGED <<note, swaps, held, melted, crashes>>

\* The transaction fails for a reason of the database's own.
SwapThrows(a) ==
  /\ New(a) /\ SeenOutstanding(a)
  /\ Affordable(att[a].wish, Total(att[a].seen))
  /\ Reply(a, "invalid", << >>)
  /\ UNCHANGED <<note, swaps, held, melted, crashes>>

Commit(a) ==
  LET w == att[a].wish
      amounts == Payout(w, Total(att[a].seen))
  IN
  /\ New(a) /\ SeenOutstanding(a)
  /\ Affordable(w, Total(att[a].seen))
  /\ CanSwap(w)
  /\ Swap(w, amounts)
  /\ Reply(a, "ok", amounts)
  /\ UNCHANGED <<held, melted, crashes>>

-----------------------------------------------------------------------------
(* The rest of the mint.                                                   *)

MeltTakes(i) ==
  /\ note[i].state = "outstanding"
  /\ note' = [note EXCEPT ![i].state = "pending"]
  /\ UNCHANGED <<swaps, att, held, melted, crashes>>

MeltRestores(i) ==
  /\ note[i].state = "pending"
  /\ note' = [note EXCEPT ![i].state = "outstanding"]
  /\ UNCHANGED <<swaps, att, held, melted, crashes>>

\* Paid out: the note's value, and the fee withheld for this very payment.
MeltPays(i) ==
  /\ note[i].state = "pending"
  /\ note' = [note EXCEPT ![i].state = "burned"]
  /\ held' = held - (note[i].amount + BaseFee)
  /\ melted' = melted \union {i}
  /\ UNCHANGED <<swaps, att, crashes>>

\* Every request in progress is gone and its caller gets no reply.
Crash ==
  /\ crashes < MaxCrashes
  /\ crashes' = crashes + 1
  /\ att' = [a \in Attempts |->
       IF att[a].pc = "opening" THEN [Idle EXCEPT !.pc = "lost"] ELSE att[a]]
  /\ UNCHANGED <<note, swaps, held, melted>>

HandlerStep(a) ==
  \/ \E w \in Wishes : Arrive(a, w)
  \/ OpenNext(a)
  \/ Replay(a)
  \/ RefuseDuplicate(a)
  \/ RefuseInputs(a)
  \/ RefuseAmount(a)
  \/ RefuseSwap(a)
  \/ SwapThrows(a)
  \/ Commit(a)

MeltStep(i) == MeltTakes(i) \/ MeltRestores(i) \/ MeltPays(i)

Next ==
  \/ \E a \in Attempts : HandlerStep(a)
  \/ \E i \in Ids : MeltStep(i)
  \/ Crash

Spec == Init /\ [][Next]_vars

-----------------------------------------------------------------------------
(* Properties.                                                             *)

\* Every variable stays within its declared shape.
TypeOK ==
  /\ \A i \in Ids : /\ note[i].state \in {"absent", "outstanding", "pending", "burned"}
                    /\ note[i].amount \in Nat
                    /\ note[i].state # "absent" => note[i].amount > 0
  /\ \A s \in swaps : \A k \in DOMAIN s.amounts : s.amounts[k] \in Nat \ {0}
  /\ \A a \in Attempts : /\ att[a].pc \in {"idle", "opening", "done", "lost"}
                         /\ att[a].reply \in {"none", "ok", "invalid", "in use", "pending", "insufficient"}
                         /\ att[a].pc \in {"opening", "done"} => att[a].wish \in Wishes
  /\ held \in Nat
  /\ melted \subseteq Ids
  /\ crashes \in 0..MaxCrashes

Live == {i \in Ids : note[i].state \in {"outstanding", "pending"}}

\* Whatever is rotated, split and merged, in any order and however often it
\* is retried, the mint holds every live note's value and the fee of the one
\* payment each will cost it.  No split avoids a fee and no merge refunds one
\* that was not withheld.
EveryNoteIsBacked ==
  SumFunctionOnSet([i \in Ids |-> note[i].amount + BaseFee], Live) <= held

\* Nothing is spent twice: a note is behind at most one swap, a swapped note
\* was never paid out, and neither kind is spendable again.
SpentOnce ==
  /\ \A s, t \in swaps : s.fingerprint.ins \cap t.fingerprint.ins # {} => s = t
  /\ \A s \in swaps : /\ s.fingerprint.ins \cap melted = {}
                      /\ s.fingerprint.ins \cap Live = {}
  /\ melted \cap Live = {}

\* What ValuePromise sees: the notes there are or were, and their worth.
Burned == {i \in Ids : note[i].state = "burned"}
Worth == [i \in Ids |-> note[i].amount + BaseFee]

Promise == INSTANCE ValuePromise WITH live <- Live, spent <- Burned, worth <- Worth

\* Arrivals, retries, refusals, reservations and crashes amount to no more
\* than ValuePromise: each swap by itself is whole, takes only notes that
\* hold value, mints no more than it burns and only at ids never used.
KeepsTheValuePromise == Promise!Spec

\* Answers are true and alike: whenever a request is answered OK, its outputs
\* are notes of the very values the answer certifies, on every retry.
AnswersAreBacked ==
  \A a \in Attempts : att[a].reply = "ok" =>
    \A k \in DOMAIN att[a].paid :
      /\ note[att[a].wish.outs[k]].state # "absent"
      /\ note[att[a].wish.outs[k]].amount = att[a].paid[k]

\* A retry of a request that was carried out is never told "already spent":
\* "a wallet that believes it drops the only copy of a secret the mint really
\* did mint a note against".
RetriesAreNeverRefused ==
  [][\A a \in Attempts :
       att[a].pc = "opening" /\ Replays(att[a].wish) # {} /\ att'[a].pc = "done"
         => att'[a].reply = "ok"]_vars
=============================================================================
