-------------------------------- MODULE Stream --------------------------------
(***************************************************************************)
(* The invoice stream of server.ts: the funding source reports settled     *)
(* invoices in the order of an index of its own; the mint handles one at a *)
(* time, stores the index it has reached, and resumes from it after a      *)
(* dropped connection, a clean close or a crash.  What a handler does with *)
(* the invoice is a check of module Issue.                                 *)
(***************************************************************************)
EXTENDS Naturals

CONSTANTS
  MaxSettles,  \* bound on the invoices that are settled
  MaxStops     \* bound on crashes and closes

ASSUME StreamAssumption == MaxSettles \in Nat /\ MaxStops \in Nat

VARIABLES
  settled,  \* how many invoices the node has settled: its highest index
  stored,   \* the index in the meta table, 0 for none
  conn,     \* the connection: the index it will report next, 0 when down
  handling, \* the index that onSettled is at work on, 0 for none
  mint,     \* the process: up, closing, or down
  heard,    \* indices whose onSettled ran to its end (history)
  stops

streamVars == <<settled, stored, conn, handling, mint, heard, stops>>

StreamInit ==
  /\ settled = 0 /\ stored = 0 /\ conn = 0 /\ handling = 0 /\ heard = {}
  /\ mint = "up"
  /\ stops = 0

\* Where a connection starts: after the index it was given, or for none with
\* whatever is settled next.
StartAfter(from) == IF from > 0 THEN from + 1 ELSE settled + 1

\* The payer of some invoice pays, whether or not anybody listens.
NodeSettlesNext ==
  /\ settled < MaxSettles
  /\ settled' = settled + 1
  /\ UNCHANGED <<stored, conn, handling, mint, heard, stops>>

\* streamInvoices, at first or after its pause.
Connect ==
  /\ mint = "up" /\ conn = 0
  /\ conn' = StartAfter(stored)
  /\ UNCHANGED <<settled, stored, handling, mint, heard, stops>>

\* The next settle is read and handed over; nothing more is read before it
\* has been handled.
Report ==
  /\ handling = 0 /\ conn # 0 /\ conn <= settled
  /\ handling' = conn
  /\ conn' = conn + 1
  /\ UNCHANGED <<settled, stored, mint, heard, stops>>

\* Mutation: a close is not looked at before the index is stored.
StoresAlways == TRUE

\* A report cut short by a close has credited nothing and stores nothing.
Stores == mint = "up"

\* onSettled ends, its invoice credited or the failure logged.
Handled ==
  /\ handling # 0
  /\ handling' = 0
  /\ IF Stores THEN stored' = handling ELSE UNCHANGED stored
  /\ IF mint = "up" THEN heard' = heard \union {handling} ELSE UNCHANGED heard
  /\ UNCHANGED <<settled, conn, mint, stops>>

\* The connection ends: dropped, idle too long, aborted, or (cln) a wait that
\* timed out and is asked again.
Drop ==
  /\ conn # 0 /\ handling = 0
  /\ conn' = 0
  /\ UNCHANGED <<settled, stored, handling, mint, heard, stops>>

\* close() aborts the stream, waits for it, and closes the store.
CloseMint ==
  /\ mint = "up" /\ stops < MaxStops
  /\ mint' = "closing"
  /\ stops' = stops + 1
  /\ UNCHANGED <<settled, stored, conn, handling, heard>>

MintClosed ==
  /\ mint = "closing" /\ conn = 0 /\ handling = 0
  /\ mint' = "down"
  /\ UNCHANGED <<settled, stored, conn, handling, heard, stops>>

StreamCrash ==
  /\ mint # "down" /\ stops < MaxStops
  /\ mint' = "down" /\ conn' = 0 /\ handling' = 0
  /\ stops' = stops + 1
  /\ UNCHANGED <<settled, stored, heard>>

Start ==
  /\ mint = "down"
  /\ mint' = "up"
  /\ UNCHANGED <<settled, stored, conn, handling, heard, stops>>

StreamNext ==
  \/ NodeSettlesNext \/ Connect \/ Report \/ Handled \/ Drop
  \/ CloseMint \/ MintClosed \/ StreamCrash \/ Start

StreamSpec == StreamInit /\ [][StreamNext]_streamVars

\* The stream is tried again for ever, with a pause of a minute at most, and
\* not every connection drops before its first report; a mint is started
\* again, and a close ends.
StreamFairness ==
  /\ WF_streamVars(Connect) /\ SF_streamVars(Report) /\ WF_streamVars(Handled)
  /\ WF_streamVars(Start) /\ WF_streamVars(MintClosed)
  /\ WF_streamVars(mint = "closing" /\ Drop)

StreamFairSpec == StreamSpec /\ StreamFairness

-----------------------------------------------------------------------------

\* Every stream variable has its shape.
StreamTypeOK ==
  /\ settled \in 0..MaxSettles /\ stored \in 0..MaxSettles
  /\ conn \in 0..(MaxSettles + 1) /\ handling \in 0..MaxSettles
  /\ mint \in {"up", "closing", "down"}
  /\ heard \subseteq 1..MaxSettles
  /\ stops \in 0..MaxStops

\* Once the mint has an index, every later settle is handled in the end, in
\* whatever order drops, closes and crashes fall between reading it, handling
\* it and storing its index (onSettled and streamInvoices).
EverySettleIsHeard ==
  (0 < stored /\ settled = MaxSettles) ~> \A i \in heard : i..settled \subseteq heard

\* The stored index never runs ahead of what was handled.
NothingSkipped == \A i \in heard : i..stored \subseteq heard
=============================================================================
