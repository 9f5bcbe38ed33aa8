------------------------------ MODULE LiveCheck ------------------------------
(***************************************************************************)
(* The release check that mints and retires a note with real money         *)
(* (live-check.ts).  All it knows between two invocations is one state     *)
(* file, replaced whole after every stage; it may be killed anywhere, run  *)
(* again, or run twice at once, while the payment it started and the melt  *)
(* it asked for go on without it.  The mint it talks to is the one of      *)
(* Issue and Melt, here only as what a wallet sees of it.                  *)
(***************************************************************************)
CONSTANTS
  Runs,     \* invocations that may overlap, each started over and over
  Secrets,  \* 32-byte secrets drawn, each with its hash h
  Invoices, \* invoices the mint quotes
  Refunds,  \* amountless invoices the refund command makes
  NoSecret, NoInvoice, NoRefund

ASSUME CheckAssumption ==
  NoSecret \notin Secrets /\ NoInvoice \notin Invoices /\ NoRefund \notin Refunds

VARIABLES
  file,     \* the state file
  run,      \* where each invocation is, and the state it holds in memory
  quoted,   \* the mint's invoices: whose they are and how they fare
  held,     \* the mint's note of each secret
  melt,     \* the mint's payment of each refund invoice
  paying,   \* invoices handed to the payer's command
  asked     \* melt requests on their way to the mint

checkVars == <<file, run, quoted, held, melt, paying, asked>>

Stages == {"prepared", "quoted", "settled", "claimed", "retiring", "retired"}

\* A retired state keeps h and drops the secret.
NoState == [stage |-> "none", h |-> NoSecret, quote |-> NoInvoice, refund |-> NoRefund]
Stopped == [pc |-> "idle", state |-> NoState]

CheckInit ==
  /\ file = NoState
  /\ run = [r \in Runs |-> Stopped]
  /\ quoted = [q \in Invoices |-> [state |-> "none", h |-> NoSecret]]
  /\ held = [s \in Secrets |-> "none"]
  /\ melt = [f \in Refunds |-> "none"]
  /\ paying = {}
  /\ asked = {}

MintUnchanged == UNCHANGED <<quoted, held, melt>>

Fresh(s) ==
  /\ file.h # s
  /\ \A r \in Runs : run[r].state.h # s
  /\ \A q \in Invoices : quoted[q].h # s

FreshRefund(f) ==
  /\ file.refund # f /\ melt[f] = "none"
  /\ \A r \in Runs : run[r].state.refund # f
  /\ \A a \in asked : a.refund # f

-----------------------------------------------------------------------------
(* The state file.                                                         *)

\* Mutation: a file that cannot be read is written anew.
CreatableOver == file.stage \in {"none", "partial"}

Creatable == file.stage = "none"

\* No file: it is created exclusively, and empty until it is written.
CreateState(r) ==
  /\ run[r].pc = "idle"
  /\ Creatable
  /\ \E s \in Secrets :
       /\ Fresh(s)
       /\ run' = [run EXCEPT ![r] = [pc |-> "creating",
                                     state |-> [NoState EXCEPT !.stage = "prepared", !.h = s]]]
  /\ file' = [file EXCEPT !.stage = "partial"]
  /\ MintUnchanged /\ UNCHANGED <<paying, asked>>

WriteNewState(r) ==
  /\ run[r].pc = "creating"
  /\ file' = run[r].state
  /\ run' = [run EXCEPT ![r].pc = "at"]
  /\ MintUnchanged /\ UNCHANGED <<paying, asked>>

Loaded == file

\* A file is there: the invocation takes up where it says.  An empty one
\* cannot be read, and a retired one is only reported.
LoadState(r) ==
  /\ run[r].pc = "idle"
  /\ file.stage \in Stages \ {"retired"}
  /\ run' = [run EXCEPT ![r] = [pc |-> "at", state |-> Loaded]]
  /\ MintUnchanged /\ UNCHANGED <<file, paying, asked>>

\* replaceState: a new file renamed over the old one.
ReplaceState(r) ==
  /\ run[r].pc \in {"save", "saveAndThrow"}
  /\ file' = run[r].state
  /\ run' = [run EXCEPT ![r] =
               IF run[r].pc = "saveAndThrow" \/ run[r].state.stage = "retired"
                 THEN Stopped ELSE [@ EXCEPT !.pc = "at"]]
  /\ MintUnchanged /\ UNCHANGED <<paying, asked>>

\* A request or a command fails, a wait times out, or the process is killed.
Stop(r) ==
  /\ run[r].pc # "idle"
  /\ run' = [run EXCEPT ![r] = Stopped]
  /\ MintUnchanged /\ UNCHANGED <<file, paying, asked>>

-----------------------------------------------------------------------------
(* The stages.                                                             *)

At(r, stage) == run[r].pc = "at" /\ run[r].state.stage = stage

\* The next stage, to be saved before anything else is done.
Reached(r, state) == run' = [run EXCEPT ![r] = [pc |-> "save", state |-> state]]

\* The mint quotes an output id that no invoice or note of it uses.
Quotable(s) == held[s] = "none" /\ \A q \in Invoices : quoted[q].h = s => quoted[q].state = "expired"

RequestQuote(r) ==
  /\ At(r, "prepared")
  /\ Quotable(run[r].state.h)
  /\ \E q \in Invoices :
       /\ quoted[q].state = "none"
       /\ quoted' = [quoted EXCEPT ![q] = [state |-> "open", h |-> run[r].state.h]]
       /\ Reached(r, [run[r].state EXCEPT !.stage = "quoted", !.quote = q])
  /\ UNCHANGED <<file, held, melt, paying, asked>>

\* Verified first; unpaid, the invoice goes to the payer's command.
PayQuote(r) ==
  /\ At(r, "quoted")
  /\ quoted[run[r].state.quote].state = "open"
  /\ paying' = paying \union {run[r].state.quote}
  /\ run' = [run EXCEPT ![r].pc = "paying"]
  /\ MintUnchanged /\ UNCHANGED <<file, asked>>

\* Verified as settled, at once or while waiting, with a receipt that holds.
SeeSettled(r) ==
  /\ At(r, "quoted") \/ run[r].pc = "paying"
  /\ quoted[run[r].state.quote].state = "paid"
  /\ Reached(r, [run[r].state EXCEPT !.stage = "settled"])
  /\ MintUnchanged /\ UNCHANGED <<file, paying, asked>>

ClaimNote(r) ==
  /\ At(r, "settled")
  /\ held[run[r].state.h] = "outstanding"
  /\ Reached(r, [run[r].state EXCEPT !.stage = "claimed"])
  /\ MintUnchanged /\ UNCHANGED <<file, paying, asked>>

\* The exact refund invoice is saved before the mint is asked to pay it.
CreateRefund(r) ==
  /\ At(r, "claimed")
  /\ \E f \in Refunds :
       /\ FreshRefund(f)
       /\ Reached(r, [run[r].state EXCEPT !.stage = "retiring", !.refund = f])
  /\ MintUnchanged /\ UNCHANGED <<file, paying, asked>>

\* The refund is known to the mint already; or that could not be learnt, or
\* it is not, and the melt is asked for.
AwaitRefund(r) ==
  /\ At(r, "retiring")
  /\ \/ melt[run[r].state.refund] # "none" /\ UNCHANGED asked
     \/ asked' = asked \union {[h |-> run[r].state.h, refund |-> run[r].state.refund]}
  /\ run' = [run EXCEPT ![r].pc = "waiting"]
  /\ MintUnchanged /\ UNCHANGED <<file, paying>>

\* Mutation: a melt the mint has taken is as good as paid.
RetiredOnceTaken(s, f) == melt[f] \in {"pending", "settled"} /\ held[s] # "outstanding"

\* The refund's verification says settled, and the burned note's probe gone.
NoteRetired(s, f) == melt[f] = "settled" /\ held[s] = "burned"

\* The refund is settled and the note reads as gone: the secret is dropped.
Retire(r) ==
  /\ run[r].pc = "waiting"
  /\ NoteRetired(run[r].state.h, run[r].state.refund)
  /\ Reached(r, [NoState EXCEPT !.stage = "retired", !.h = run[r].state.h])
  /\ MintUnchanged /\ UNCHANGED <<file, paying, asked>>

\* The wait ran out and the note can be claimed: back to a fresh refund.
RestoreClaimed(r) ==
  /\ run[r].pc = "waiting"
  /\ held[run[r].state.h] = "outstanding"
  /\ run' = [run EXCEPT ![r] = [pc |-> "saveAndThrow",
               state |-> [@.state EXCEPT !.stage = "claimed", !.refund = NoRefund]]]
  /\ MintUnchanged /\ UNCHANGED <<file, paying, asked>>

-----------------------------------------------------------------------------
(* The payer's command and the mint, seen from outside.                    *)

PaymentArrives(q) ==
  /\ q \in paying /\ quoted[q].state = "open"
  /\ quoted' = [quoted EXCEPT ![q].state = "paid"]
  /\ held' = [held EXCEPT ![quoted[q].h] = "outstanding"]
  /\ UNCHANGED <<file, run, melt, paying, asked>>

QuoteExpires(q) ==
  /\ quoted[q].state = "open"
  /\ quoted' = [quoted EXCEPT ![q].state = "expired"]
  /\ UNCHANGED <<file, run, held, melt, paying, asked>>

\* A melt request, the process that sent it possibly gone, is taken, or
\* refused because the note is pending or burned, or lost.
MeltArrives(a) ==
  /\ a \in asked
  /\ asked' = asked \ {a}
  /\ \/ /\ held[a.h] = "outstanding"
        /\ melt[a.refund] \in {"none", "failed"}
        /\ held' = [held EXCEPT ![a.h] = "pending"]
        /\ melt' = [melt EXCEPT ![a.refund] = "pending"]
     \/ UNCHANGED <<held, melt>>
  /\ UNCHANGED <<file, run, quoted, paying>>

\* One melt holds the note, so the pending refund pays for this note.
MeltEnds(f) ==
  /\ melt[f] = "pending"
  /\ \E s \in Secrets :
       /\ held[s] = "pending"
       /\ \/ melt' = [melt EXCEPT ![f] = "settled"] /\ held' = [held EXCEPT ![s] = "burned"]
          \/ melt' = [melt EXCEPT ![f] = "failed"] /\ held' = [held EXCEPT ![s] = "outstanding"]
  /\ UNCHANGED <<file, run, quoted, paying, asked>>

CheckNext ==
  \/ \E r \in Runs :
       \/ CreateState(r) \/ WriteNewState(r) \/ LoadState(r) \/ ReplaceState(r) \/ Stop(r)
       \/ RequestQuote(r) \/ PayQuote(r) \/ SeeSettled(r) \/ ClaimNote(r)
       \/ CreateRefund(r) \/ AwaitRefund(r) \/ Retire(r) \/ RestoreClaimed(r)
  \/ \E q \in Invoices : PaymentArrives(q) \/ QuoteExpires(q)
  \/ \E a \in asked : MeltArrives(a)
  \/ \E f \in Refunds : MeltEnds(f)

CheckSpec == CheckInit /\ [][CheckNext]_checkVars

-----------------------------------------------------------------------------

\* Every variable of the live check has its shape.
CheckTypeOK ==
  LET State == [stage : Stages \union {"none", "partial"}, h : Secrets \union {NoSecret},
                quote : Invoices \union {NoInvoice}, refund : Refunds \union {NoRefund}] IN
  /\ file \in State
  /\ run \in [Runs -> [pc : {"idle", "creating", "at", "save", "saveAndThrow", "paying", "waiting"},
                       state : State]]
  /\ quoted \in [Invoices -> [state : {"none", "open", "paid", "expired"}, h : Secrets \union {NoSecret}]]
  /\ held \in [Secrets -> {"none", "outstanding", "pending", "burned"}]
  /\ melt \in [Refunds -> {"none", "pending", "settled", "failed"}]
  /\ paying \subseteq Invoices
  /\ asked \subseteq [h : Secrets, refund : Refunds]

\* As long as an invoice can still be paid or the note holds value, the state
\* file holds its secret: no kill, no second invocation and no melt that fails
\* late leaves money behind a secret nobody kept (live-check.ts, loadOrCreateState).
SecretOutlivesTheValue ==
  \A s \in Secrets :
    (\/ held[s] \in {"outstanding", "pending"}
     \/ \E q \in paying : quoted[q].h = s /\ quoted[q].state = "open")
      => file.h = s /\ file.stage \in Stages \ {"retired"}

\* However often the check is rerun, or twice at once, it pays the mint once
\* and is refunded once; and a state that says retired is the truth about its
\* note, burned for a refund that was paid (live-check.ts, the retiring stage).
OnePaymentOneRefund ==
  /\ \A p, q \in Invoices : quoted[p].state = "paid" /\ quoted[q].state = "paid" => p = q
  /\ \A f, g \in Refunds : melt[f] = "settled" /\ melt[g] = "settled" => f = g
  /\ file.stage = "retired" => held[file.h] = "burned" /\ \E f \in Refunds : melt[f] = "settled"
=============================================================================
