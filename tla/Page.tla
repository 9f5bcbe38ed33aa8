--------------------------------- MODULE Page ---------------------------------
(***************************************************************************)
(* Minting on the mint's own web page (web/src/main.ts): what the page     *)
(* keeps of a note's secret while its visitor goes back, reloads and mints *)
(* again, the handlers that outlive the view that started them, and the    *)
(* rotate that makes a note private.                                       *)
(***************************************************************************)
EXTENDS Naturals

CONSTANTS
  Mints,    \* presses of the create button, each with the secrets it draws
  MaxPolls, \* bound: polls of one view in flight at once
  NoMint

ASSUME PageAssumption == MaxPolls \in Nat /\ NoMint \notin Mints

VARIABLES
  slot,     \* sessionStorage: the pending bound mint, with its secret
  view,     \* what is on the screen, the polls it has in flight, and its claim
  job,      \* where each mint's handler is
  mode,     \* what opens each mint's note: a secret it chose or the preimage
  paid,     \* mints whose invoice was paid
  claims,   \* times claimNote was called for each mint
  money,    \* where each note's value is: its first secret, or the rotated one
  rotation, \* the rotate each claim sent to the mint
  handed    \* the secrets each mint's visitor was shown

pageVars == <<slot, view, job, mode, paid, claims, money, rotation, handed>>

Kinds == {"home", "form", "invoice", "note"}
Show(kind, m) == [kind |-> kind, mint |-> m, polls |-> 0, claimed |-> FALSE]

PageInit ==
  /\ slot = NoMint
  /\ view = Show("home", NoMint)
  /\ job = [m \in Mints |-> "idle"]
  /\ mode = [m \in Mints |-> "none"]
  /\ paid = {}
  /\ claims = [m \in Mints |-> 0]
  /\ money = [m \in Mints |-> "none"]
  /\ rotation = [m \in Mints |-> "none"]
  /\ handed = [m \in Mints |-> {}]

NoteUnchanged == UNCHANGED <<paid, claims, money, rotation, handed>>

-----------------------------------------------------------------------------
(* The visitor.                                                            *)

\* The top bar leads home from every view, and from home to the form.
Navigate ==
  /\ view' = Show(IF view.kind = "home" THEN "form" ELSE "home", NoMint)
  /\ UNCHANGED <<slot, job, mode>> /\ NoteUnchanged

\* A reload ends every handler.  boot shows the stored mint again, one stored
\* before its quote came included: it has nothing to pay or to verify.
Reload ==
  /\ job' = [m \in Mints |->
               IF job[m] = "idle" THEN "idle"
               ELSE IF slot = m THEN "invoiced" ELSE "gone"]
  /\ view' = IF slot # NoMint THEN Show("invoice", slot) ELSE Show("home", NoMint)
  /\ UNCHANGED <<slot, mode>> /\ NoteUnchanged

-----------------------------------------------------------------------------
(* The create button.                                                      *)

\* The chosen secret is stored before the quote is asked for; a mint without
\* receipts is asked for an invoice with nothing stored.
Create(m) ==
  /\ view.kind = "form"
  /\ job[m] = "idle"
  /\ \/ /\ slot' = m
        /\ job' = [job EXCEPT ![m] = "quoting"]
     \/ /\ UNCHANGED slot
        /\ job' = [job EXCEPT ![m] = "naming"]
  /\ UNCHANGED <<view, mode>> /\ NoteUnchanged

\* The bound quote comes back, whatever is on the screen by now.
BoundQuote(m) ==
  /\ job[m] = "quoting"
  /\ \/ /\ slot' = m
        /\ view' = Show("invoice", m)
        /\ job' = [job EXCEPT ![m] = "invoiced"]
        /\ mode' = [mode EXCEPT ![m] = "bound"]
     \/ /\ slot' = NoMint
        /\ job' = [job EXCEPT ![m] = "naming"]
        /\ UNCHANGED <<view, mode>>
  /\ NoteUnchanged

\* The invoice of a note that is named without a receipt, or of one that the
\* payment preimage will open.
NamedInvoice(m) ==
  /\ job[m] = "naming"
  /\ view' = Show("invoice", m)
  /\ job' = [job EXCEPT ![m] = "invoiced"]
  /\ \E how \in {"named", "preimage"} : mode' = [mode EXCEPT ![m] = how]
  /\ UNCHANGED slot /\ NoteUnchanged

\* The mint refuses, or its answer will not do.
CreateFails(m) ==
  /\ job[m] \in {"quoting", "naming"}
  /\ job' = [job EXCEPT ![m] = "gone"]
  /\ UNCHANGED <<slot, view, mode>> /\ NoteUnchanged

-----------------------------------------------------------------------------
(* The invoice view.                                                       *)

\* An invoice that was shown may be paid, from this device or another.
PayerPays(m) ==
  /\ mode[m] # "none"
  /\ m \notin paid
  /\ paid' = paid \union {m}
  /\ money' = [money EXCEPT ![m] = "first"]
  /\ UNCHANGED <<slot, view, job, mode, claims, rotation, handed>>

\* Mutation: a tick or a tap polls whatever is under way.
MayPollAlways == TRUE

MayPoll == view.polls = 0 /\ ~view.claimed

PollStarts ==
  /\ view.kind = "invoice" /\ view.polls < MaxPolls
  /\ MayPoll
  /\ view' = [view EXCEPT !.polls = @ + 1]
  /\ UNCHANGED <<slot, job, mode>> /\ NoteUnchanged

PollFindsNothing ==
  /\ view.polls > 0
  /\ view' = [view EXCEPT !.polls = @ - 1]
  /\ UNCHANGED <<slot, job, mode>> /\ NoteUnchanged

\* The receipt is valid, so the chosen secret is the note; it stays stored.
PollFindsReceipt(m) ==
  /\ view.kind = "invoice" /\ view.mint = m /\ view.polls > 0
  /\ m \in paid /\ mode[m] = "bound"
  /\ view' = Show("note", m)
  /\ handed' = [handed EXCEPT ![m] = {"first"}]
  /\ job' = [job EXCEPT ![m] = "done"]
  /\ UNCHANGED <<slot, mode, paid, claims, money, rotation>>

\* Settled without a receipt: the slot is cleared and the note claimed.
PollFindsSettled(m) ==
  /\ view.kind = "invoice" /\ view.mint = m /\ view.polls > 0
  /\ m \in paid /\ mode[m] \in {"named", "preimage"}
  /\ view' = [view EXCEPT !.polls = @ - 1, !.claimed = TRUE]
  /\ slot' = NoMint
  /\ job' = [job EXCEPT ![m] = "claiming"]
  /\ claims' = [claims EXCEPT ![m] = @ + 1]
  /\ UNCHANGED <<mode, paid, money, rotation, handed>>

-----------------------------------------------------------------------------
(* claimNote.  Its views come up whatever is on the screen.                *)

HandOver(m, secrets) ==
  /\ view' = Show("note", m)
  /\ handed' = [handed EXCEPT ![m] = secrets]
  /\ job' = [job EXCEPT ![m] = "done"]

SendRotate(m) ==
  /\ job[m] = "claiming"
  /\ job' = [job EXCEPT ![m] = "rotating"]
  /\ rotation' = [rotation EXCEPT ![m] = "sent"]
  /\ UNCHANGED <<slot, view, mode, paid, claims, money, handed>>

\* The note could not be read, or the mint refused the rotate.
ClaimFailsCleanly(m) ==
  /\ \/ job[m] = "claiming" /\ UNCHANGED rotation
     \/ /\ job[m] = "rotating" /\ rotation[m] = "sent"
        /\ rotation' = [rotation EXCEPT ![m] = "refused"]
  /\ HandOver(m, {"first"})
  /\ UNCHANGED <<slot, mode, paid, claims, money>>

\* The mint rotates the note, while the page waits or after it gave up.
RotateLands(m) ==
  /\ rotation[m] = "sent"
  /\ rotation' = [rotation EXCEPT ![m] = IF job[m] \in {"rotating", "probing"} THEN "landed" ELSE "late"]
  /\ money' = [money EXCEPT ![m] = "rotated"]
  /\ UNCHANGED <<slot, view, job, mode, paid, claims, handed>>

RotateAnswers(m) ==
  /\ job[m] = "rotating"
  /\ rotation[m] = "landed"
  /\ HandOver(m, {"rotated"})
  /\ UNCHANGED <<slot, mode, paid, claims, money, rotation>>

\* AmbiguousMutationError: the rotate may or may not have landed.
RotateIsAmbiguous(m) ==
  /\ job[m] = "rotating"
  /\ job' = [job EXCEPT ![m] = "probing"]
  /\ UNCHANGED <<slot, view, mode>> /\ NoteUnchanged

\* Mutation: when the probe fails too, the note is taken to be unrotated.
CandidatesUnrotated(probe) == IF probe = "rotated" THEN {"rotated"} ELSE {"first"}

\* Mutation: the probe's answer is taken as it is.
CandidatesAsProbed(probe) == {probe}

\* What the probe's answer leaves: the old secret if it still reads as a
\* note, the new one if the old is spent or unknown, and both otherwise.
Candidates(probe) == IF probe = "failed" THEN {"first", "rotated"} ELSE {probe}

Probe(m) ==
  /\ job[m] = "probing"
  /\ \E probe \in {money[m], "failed"} : HandOver(m, Candidates(probe))
  /\ UNCHANGED <<slot, mode, paid, claims, money, rotation>>

PageNext ==
  \/ Navigate \/ Reload \/ PollStarts \/ PollFindsNothing
  \/ \E m \in Mints :
       \/ Create(m) \/ BoundQuote(m) \/ NamedInvoice(m) \/ CreateFails(m)
       \/ PayerPays(m) \/ PollFindsReceipt(m) \/ PollFindsSettled(m)
       \/ SendRotate(m) \/ ClaimFailsCleanly(m) \/ RotateLands(m)
       \/ RotateAnswers(m) \/ RotateIsAmbiguous(m) \/ Probe(m)

PageSpec == PageInit /\ [][PageNext]_pageVars

-----------------------------------------------------------------------------

\* Every variable of the page has its shape.
PageTypeOK ==
  /\ slot \in Mints \union {NoMint}
  /\ view \in [kind : Kinds, mint : Mints \union {NoMint}, polls : 0..MaxPolls, claimed : BOOLEAN]
  /\ job \in [Mints -> {"idle", "quoting", "naming", "invoiced", "claiming", "rotating",
                        "probing", "done", "gone"}]
  /\ mode \in [Mints -> {"none", "bound", "named", "preimage"}]
  /\ paid \subseteq Mints
  /\ claims \in [Mints -> Nat]
  /\ money \in [Mints -> {"none", "first", "rotated"}]
  /\ rotation \in [Mints -> {"none", "sent", "landed", "late", "refused"}]
  /\ handed \in [Mints -> SUBSET {"first", "rotated"}]

\* One of the secrets a visitor is shown as the note holds its value, whatever
\* became of the rotate, unless it lands after the page has probed for it
\* (main.ts claimNote).
NoteShownIsTheMoney ==
  \A m \in Mints : handed[m] # {} => money[m] \in handed[m] \/ rotation[m] = "late"

\* However its polls, taps and views interleave, a note is claimed once: a
\* second rotate would bury it under an error (main.ts viewInvoice's poll).
ClaimedOnce == \A m \in Mints : claims[m] <= 1

\* Documented, and untrue: a secret this page chose is stored before its
\* invoice is shown, so that paying and then losing k1 cannot happen.
PaidSecretIsKept ==
  \A m \in paid :
    (mode[m] \in {"bound", "named"} /\ claims[m] = 0 /\ handed[m] = {})
      => \/ slot = m
         \/ view.kind = "invoice" /\ view.mint = m
=============================================================================
