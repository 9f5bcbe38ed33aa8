------------------------------- MODULE Upgrade -------------------------------
(***************************************************************************)
(* Opening the database (the constructor of NoteStore, store.ts): columns  *)
(* that earlier releases did not have, the index of note ids from before   *)
(* notes were keyed by Q, the counters that start again once, and the      *)
(* shares on file that count as accepted.  Each statement commits by       *)
(* itself; the process can be killed between any two, and the mint and a   *)
(* command of the operator's may open one database at the same time, the   *)
(* one serving already while the other still upgrades.                     *)
(***************************************************************************)
EXTENDS Naturals, Sequences

CONSTANTS
  Processes,  \* the mint and commands of `moneyer admin` that write
  Servers,    \* those of them that mint once the store is open
  OldIds,     \* ids from before Q: of notes, and of notes invoices will credit
  NewIds,     \* output keys, Q
  BearerId,   \* bearerNoteId of an old id: its Q, were it a bearer note
  Handles,    \* lightning addresses
  Branches,   \* share keys, x(P)
  MaxIndex,   \* bound: keys of a branch that are credited
  NoBranch

ASSUME UpgradeAssumption ==
  /\ Servers \subseteq Processes
  /\ OldIds \intersect NewIds = {}
  /\ BearerId \in [OldIds -> NewIds]
  /\ NoBranch \notin Branches
  /\ MaxIndex \in Nat

VARIABLES
  columns,      \* columns added to tables since they were first made
  meta,         \* keys of the meta table
  noteIds,      \* keys of the notes table
  legacy,       \* legacy_ids: ids whose Q is recorded
  branch,       \* each name's share, its next_index, and how many of its
                \* keys under the address purpose were credited (history)
  acceptedKeys, \* accepted_keys
  opener        \* where each process is in the constructor

upgradeVars == <<columns, meta, noteIds, legacy, branch, acceptedKeys, opener>>

\* The columns in the order they are looked for and added.
Additions ==
  <<[table |-> "mint_invoices", column |-> "output_id"],
    [table |-> "zap_names", column |-> "cx1"],
    [table |-> "zap_invoices", column |-> "cx1"],
    [table |-> "zap_names", column |-> "next_index"],
    [table |-> "mint_invoices", column |-> "output_named"],
    [table |-> "mint_invoices", column |-> "payment_q"]>>

FirstColumns(k) == {Additions[i] : i \in 1..k}

Closed == [pc |-> "closed", at |-> 1, read |-> {}, seen |-> {}]

OnFile == {n \in Handles : branch[n].cx1 # NoBranch}

\* A database from before any of the columns, or from before notes were keyed
\* by Q, with shares on file and indexes that counted the old ladder.
UpgradeInit ==
  /\ \E k \in {0, 4} :
       /\ columns = FirstColumns(k)
       /\ branch \in [Handles -> [cx1 : Branches \union {NoBranch}, next : 0..MaxIndex, used : {0}]]
       /\ k = 0 => OnFile = {}
       /\ \A n \in Handles \ OnFile : branch[n].next = 0
  /\ \A m, n \in OnFile : branch[m].cx1 = branch[n].cx1 => m = n
  /\ noteIds \in SUBSET OldIds
  /\ meta = {} /\ legacy = {} /\ acceptedKeys = {}
  /\ opener = [p \in Processes |-> Closed]

-----------------------------------------------------------------------------
(* The constructor.                                                        *)

Stands(p, pc) == opener[p].pc = pc
GoesTo(p, pc) == opener' = [opener EXCEPT ![p].pc = pc]

\* A statement throws, and the process with it.
Throws(p) == opener' = [opener EXCEPT ![p] = Closed]

OpenStore(p) ==
  /\ Stands(p, "closed")
  /\ GoesTo(p, "columns")
  /\ UNCHANGED <<columns, meta, noteIds, legacy, branch, acceptedKeys>>

\* PRAGMA table_info, before the first column of the table is looked for.
ReadColumns(p) ==
  LET t == Additions[opener[p].at].table IN
  /\ Stands(p, "columns") /\ t \notin opener[p].read
  /\ opener' = [opener EXCEPT ![p].read = @ \union {t},
                              ![p].seen = @ \union {a \in columns : a.table = t}]
  /\ UNCHANGED <<columns, meta, noteIds, legacy, branch, acceptedKeys>>

NextColumn(p) ==
  IF opener[p].at = Len(Additions) THEN GoesTo(p, "cutover")
                                   ELSE opener' = [opener EXCEPT ![p].at = @ + 1]

\* A column that was not there is added; if another process has added it
\* since, ALTER TABLE throws.
AddColumn(p) ==
  LET a == Additions[opener[p].at] IN
  /\ Stands(p, "columns") /\ a.table \in opener[p].read
  /\ \/ a \in opener[p].seen /\ NextColumn(p) /\ UNCHANGED columns
     \/ a \notin opener[p].seen /\ a \notin columns
          /\ columns' = columns \union {a} /\ NextColumn(p)
     \/ a \notin opener[p].seen /\ a \in columns
          /\ Throws(p) /\ UNCHANGED columns
  /\ UNCHANGED <<meta, noteIds, legacy, branch, acceptedKeys>>

\* INSERT OR IGNORE: the first process to get here draws the line.
WriteCutover(p) ==
  /\ Stands(p, "cutover")
  /\ meta' = meta \union {"unnamed_verify_cutover"}
  /\ GoesTo(p, "index")
  /\ UNCHANGED <<columns, noteIds, legacy, branch, acceptedKeys>>

\* indexLegacyIds asks whether it was done, outside its transaction.
AskIndexed(p) ==
  /\ Stands(p, "index")
  /\ GoesTo(p, IF "legacy_ids_indexed" \in meta THEN "counter" ELSE "indexing")
  /\ UNCHANGED <<columns, meta, noteIds, legacy, branch, acceptedKeys>>

Indexed(p) ==
  /\ legacy' = legacy \union noteIds \union OldIds
  /\ meta' = meta \union {"legacy_ids_indexed"}
  /\ GoesTo(p, "counter")

\* Mutation: INSERT OR IGNORE, as everywhere else.
IndexLegacyIdsAgain(p) ==
  /\ Stands(p, "indexing")
  /\ Indexed(p)
  /\ UNCHANGED <<columns, noteIds, branch, acceptedKeys>>

\* Every note and every note an invoice will credit, and each invoice's
\* payment_q, in one transaction.  Its last INSERT throws, and rolls it back,
\* if another process was quicker.
IndexLegacyIds(p) ==
  /\ Stands(p, "indexing")
  /\ IF "legacy_ids_indexed" \in meta
       THEN Throws(p) /\ UNCHANGED <<legacy, meta>>
       ELSE Indexed(p)
  /\ UNCHANGED <<columns, noteIds, branch, acceptedKeys>>

\* The flag and the reset are one transaction.
RestartCounters(p) ==
  /\ Stands(p, "counter")
  /\ meta' = meta \union {"address_purpose_counter"}
  /\ branch' = IF "address_purpose_counter" \in meta THEN branch
               ELSE [n \in Handles |-> [branch[n] EXCEPT !.next = 0]]
  /\ GoesTo(p, "accept")
  /\ UNCHANGED <<columns, noteIds, legacy, acceptedKeys>>

\* Every start, whatever an earlier one got to.
AcceptOnFile(p) ==
  /\ Stands(p, "accept")
  /\ acceptedKeys' = acceptedKeys \union {branch[n].cx1 : n \in OnFile}
  /\ GoesTo(p, "open")
  /\ UNCHANGED <<columns, meta, noteIds, legacy, branch>>

\* Closed, or killed at any point.
CloseStore(p) ==
  /\ ~Stands(p, "closed")
  /\ Throws(p)
  /\ UNCHANGED <<columns, meta, noteIds, legacy, branch, acceptedKeys>>

-----------------------------------------------------------------------------
(* What a mint that has opened its store writes, as far as the upgrade is  *)
(* concerned: modules Issue, Swaps, Addresses and Zaps have the rest.      *)

Serving(p) == p \in Servers /\ Stands(p, "open")

\* An invoice from before the upgrade is settled, at the id it named.
CreditOldInvoice(p, i) ==
  /\ Serving(p) /\ i \in OldIds \ noteIds
  /\ noteIds' = noteIds \union {i}
  /\ UNCHANGED <<columns, meta, legacy, branch, acceptedKeys, opener>>

\* outputIdInUse: an output is refused where an old id's Q is.
Taken(q) == q \in noteIds \union {BearerId[i] : i \in legacy \intersect OldIds}

CreditOutput(p, q) ==
  /\ Serving(p) /\ ~Taken(q)
  /\ noteIds' = noteIds \union {q}
  /\ UNCHANGED <<columns, meta, legacy, branch, acceptedKeys, opener>>

CreditBranch(p, n) ==
  /\ Serving(p) /\ n \in OnFile /\ branch[n].next < MaxIndex
  /\ branch' = [branch EXCEPT ![n].next = @ + 1, ![n].used = @ + 1]
  /\ UNCHANGED <<columns, meta, noteIds, legacy, acceptedKeys, opener>>

\* A share is registered or moved to: one that was never accepted.
TakeBranch(p, n, x) ==
  /\ Serving(p) /\ x \notin acceptedKeys
  /\ branch' = [branch EXCEPT ![n] = [cx1 |-> x, next |-> 0, used |-> 0]]
  /\ acceptedKeys' = acceptedKeys \union {x}
  /\ UNCHANGED <<columns, meta, noteIds, legacy, opener>>

UpgradeNext ==
  \E p \in Processes :
    \/ OpenStore(p) \/ ReadColumns(p) \/ AddColumn(p) \/ WriteCutover(p) \/ AskIndexed(p)
    \/ IndexLegacyIds(p) \/ RestartCounters(p) \/ AcceptOnFile(p) \/ CloseStore(p)
    \/ \E i \in OldIds : CreditOldInvoice(p, i)
    \/ \E q \in NewIds : CreditOutput(p, q)
    \/ \E n \in Handles : CreditBranch(p, n) \/ \E x \in Branches : TakeBranch(p, n, x)

UpgradeSpec == UpgradeInit /\ [][UpgradeNext]_upgradeVars

-----------------------------------------------------------------------------

\* Every variable of the upgrade has its shape.
UpgradeTypeOK ==
  /\ columns \subseteq FirstColumns(Len(Additions))
  /\ meta \subseteq {"unnamed_verify_cutover", "legacy_ids_indexed", "address_purpose_counter"}
  /\ noteIds \subseteq OldIds \union NewIds
  /\ legacy \subseteq OldIds \union NewIds
  /\ branch \in [Handles -> [cx1 : Branches \union {NoBranch}, next : Nat, used : Nat]]
  /\ acceptedKeys \subseteq Branches
  /\ opener \in [Processes ->
       [pc : {"closed", "columns", "cutover", "index", "indexing", "counter", "accept", "open"},
        at : 1..Len(Additions),
        read : SUBSET {"mint_invoices", "zap_names", "zap_invoices"},
        seen : SUBSET FirstColumns(Len(Additions))]]

\* An open store finds every note from before Q by its Q.
OldNotesAreFound == (\E p \in Processes : Stands(p, "open")) => OldIds \subseteq legacy

\* No note of now gets a second name.
OnlyOldNotesAreAliased == legacy \subseteq OldIds

\* One secret never opens two notes, an old one and one credited at its Q.
OneNotePerSecret == \A i \in OldIds : BearerId[i] \notin noteIds

\* Counters start again before the first key of the new purpose is credited,
\* and never after.
CountersRestartOnce ==
  \A n \in Handles :
    IF "address_purpose_counter" \in meta THEN branch[n].next = branch[n].used
                                          ELSE branch[n].used = 0

\* A share on file from before there were accepted keys pays one name only.
OldSharesStayPut == \A m, n \in OnFile : branch[m].cx1 = branch[n].cx1 => m = n

\* Whatever is killed half way through an upgrade, and whoever opens the
\* database meanwhile or serves from it already, the upgrade is done whole
\* before a store is used and never a second time (store.ts constructor).
UpgradedOnceAndWhole ==
  /\ OldNotesAreFound
  /\ OnlyOldNotesAreAliased
  /\ OneNotePerSecret
  /\ CountersRestartOnce
  /\ OldSharesStayPut
=============================================================================
