--------------------------- MODULE UpgradeProofs ---------------------------
(***************************************************************************)
(* Proofs about the opening of the database: whichever processes open it,  *)
(* and wherever they are killed, the upgrade is whole before a store is    *)
(* used, and is done once.                                                 *)
(***************************************************************************)
EXTENDS Upgrade, TLAPS

Tables == {"mint_invoices", "zap_names", "zap_invoices"}

Places == {"closed", "columns", "cutover", "index", "indexing", "counter", "accept", "open"}

PlaceRecs(A, R, C) == [pc : Places, at : A, read : R, seen : C]

OpenerRecs == PlaceRecs(1..Len(Additions), SUBSET Tables, SUBSET FirstColumns(Len(Additions)))

LEMMA AddedColumns ==
  /\ Len(Additions) = 6
  /\ \A i \in 1..6 : Additions[i].table \in Tables
  BY DEF Additions, Tables

LEMMA ColumnsGrow ==
  ASSUME NEW i \in 1..Len(Additions) PROVE Additions[i] \in FirstColumns(Len(Additions))
  BY DEF FirstColumns

\* Setting one field keeps a process's record in its set.
LEMMA FieldsOfPlaces ==
  ASSUME NEW A, NEW R, NEW C, NEW r \in PlaceRecs(A, R, C)
  PROVE  /\ \A pc \in Places : [r EXCEPT !.pc = pc] \in PlaceRecs(A, R, C)
         /\ \A at \in A : [r EXCEPT !.at = at] \in PlaceRecs(A, R, C)
         /\ \A read \in R, seen \in C :
              [r EXCEPT !.read = read, !.seen = seen] \in PlaceRecs(A, R, C)
  BY DEF PlaceRecs

\* How far a process is past the statements that need doing once.
PastIndex(p) == opener[p].pc \in {"counter", "accept", "open"}
PastCounter(p) == opener[p].pc \in {"accept", "open"}

\* The flags in meta stand for work that was done, and a process that is past
\* a statement has seen its flag set.
FlagsInv ==
  /\ "legacy_ids_indexed" \in meta => OldIds \subseteq legacy
  /\ "legacy_ids_indexed" \notin meta => noteIds \subseteq OldIds
  /\ \A p \in Processes :
       /\ PastIndex(p) => "legacy_ids_indexed" \in meta
       /\ PastCounter(p) => "address_purpose_counter" \in meta

\* An open store has accepted every share on file.
SharesInv ==
  \A p \in Processes :
    opener[p].pc = "open" => \A n \in OnFile : branch[n].cx1 \in acceptedKeys

\* UpgradeTypeOK, with the processes' records in a set that stays folded.
TypesInv ==
  /\ columns \subseteq FirstColumns(Len(Additions))
  /\ meta \subseteq {"unnamed_verify_cutover", "legacy_ids_indexed", "address_purpose_counter"}
  /\ noteIds \subseteq OldIds \union NewIds
  /\ legacy \subseteq OldIds \union NewIds
  /\ branch \in [Handles -> [cx1 : Branches \union {NoBranch}, next : Nat, used : Nat]]
  /\ acceptedKeys \subseteq Branches
  /\ opener \in [Processes -> OpenerRecs]

LEMMA TypesAreTypes == TypesInv => UpgradeTypeOK
  BY DEF TypesInv, UpgradeTypeOK, OpenerRecs, PlaceRecs, Places, Tables

UpgradeInv ==
  /\ TypesInv
  /\ FlagsInv
  /\ SharesInv
  /\ OnlyOldNotesAreAliased
  /\ OneNotePerSecret
  /\ CountersRestartOnce
  /\ OldSharesStayPut

LEMMA UpgradeStart == UpgradeInit => UpgradeInv
  <1> SUFFICES ASSUME UpgradeInit PROVE UpgradeInv
    OBVIOUS
  <1> USE UpgradeAssumption
  <1>1. columns \subseteq FirstColumns(6)
    BY DEF UpgradeInit, FirstColumns
  <1>2. branch \in [Handles -> [cx1 : Branches \union {NoBranch}, next : 0..MaxIndex, used : {0}]]
    BY DEF UpgradeInit
  <1>3. TypesInv
    <2>1. branch \in [Handles -> [cx1 : Branches \union {NoBranch}, next : Nat, used : Nat]]
      BY <1>2
    <2>2. Closed \in OpenerRecs
      BY AddedColumns DEF Closed, OpenerRecs, PlaceRecs, Places
    <2>3. opener \in [Processes -> OpenerRecs]
      BY <2>2 DEF UpgradeInit
    <2> QED
      BY <1>1, <2>1, <2>3, AddedColumns DEF UpgradeInit, TypesInv
  <1>4. FlagsInv /\ SharesInv
    BY DEF UpgradeInit, FlagsInv, SharesInv, PastIndex, PastCounter, Closed
  <1>5. CountersRestartOnce
    BY <1>2 DEF UpgradeInit, CountersRestartOnce
  <1>6. OnlyOldNotesAreAliased /\ OneNotePerSecret /\ OldSharesStayPut
    BY DEF UpgradeInit, OnlyOldNotesAreAliased, OneNotePerSecret, OldSharesStayPut
  <1> QED
    BY <1>3, <1>4, <1>5, <1>6 DEF UpgradeInv

\* A process that goes on, or dies, changes nobody else's place.
LEMMA OneMoves ==
  ASSUME opener \in [Processes -> OpenerRecs], NEW p \in Processes
  PROVE  /\ \A pc \in Places : GoesTo(p, pc) =>
              /\ opener'[p].pc = pc
              /\ \A q \in Processes \ {p} : opener'[q] = opener[q]
              /\ opener' \in [Processes -> OpenerRecs]
         /\ Throws(p) =>
              /\ opener'[p].pc = "closed"
              /\ \A q \in Processes \ {p} : opener'[q] = opener[q]
              /\ opener' \in [Processes -> OpenerRecs]
  <1>1. ASSUME NEW pc \in Places, GoesTo(p, pc)
        PROVE  /\ opener'[p].pc = pc
               /\ \A q \in Processes \ {p} : opener'[q] = opener[q]
               /\ opener' \in [Processes -> OpenerRecs]
    <2>1. opener[p] \in OpenerRecs
      OBVIOUS
    <2>2. [opener[p] EXCEPT !.pc = pc] \in OpenerRecs /\ [opener[p] EXCEPT !.pc = pc].pc = pc
      <3>1. [opener[p] EXCEPT !.pc = pc] \in OpenerRecs
        BY <2>1, FieldsOfPlaces DEF OpenerRecs
      <3>2. "pc" \in DOMAIN opener[p]
        BY <2>1 DEF OpenerRecs, PlaceRecs
      <3> QED
        BY <3>1, <3>2
    <2>3. opener' = [opener EXCEPT ![p] = [opener[p] EXCEPT !.pc = pc]]
      BY <1>1 DEF GoesTo
    <2> QED
      BY <2>2, <2>3
  <1>2. ASSUME Throws(p)
        PROVE  /\ opener'[p].pc = "closed"
               /\ \A q \in Processes \ {p} : opener'[q] = opener[q]
               /\ opener' \in [Processes -> OpenerRecs]
    <2>1. Closed \in OpenerRecs /\ Closed.pc = "closed"
      BY AddedColumns DEF Closed, OpenerRecs, PlaceRecs, Places
    <2> QED
      BY <1>2, <2>1 DEF Throws
  <1> QED
    BY <1>1, <1>2

\* A process still upgrading gets no further than the flags allow, or dies:
\* nothing else changes.
LEMMA OnlyAPlaceChanges ==
  ASSUME UpgradeInv, NEW p \in Processes, NEW pc \in Places, GoesTo(p, pc) \/ Throws(p),
         GoesTo(p, pc) =>
           /\ pc \in {"counter", "accept", "open"} => "legacy_ids_indexed" \in meta
           /\ pc \in {"accept", "open"} => "address_purpose_counter" \in meta
           /\ pc # "open",
         UNCHANGED <<columns, meta, noteIds, legacy, branch, acceptedKeys>>
  PROVE  UpgradeInv'
  <1>1. opener \in [Processes -> OpenerRecs]
    BY DEF UpgradeInv, TypesInv
  <1>2. /\ opener' \in [Processes -> OpenerRecs]
        /\ \A q \in Processes \ {p} : opener'[q] = opener[q]
        /\ opener'[p].pc = "closed" \/ (GoesTo(p, pc) /\ opener'[p].pc = pc)
    BY <1>1, OneMoves
  <1>3. TypesInv'
    BY <1>2 DEF UpgradeInv, TypesInv
  <1>4. FlagsInv' /\ SharesInv'
    BY <1>2 DEF UpgradeInv, FlagsInv, SharesInv, PastIndex, PastCounter, OnFile
  <1>5. OnlyOldNotesAreAliased' /\ OneNotePerSecret' /\ CountersRestartOnce' /\ OldSharesStayPut'
    BY DEF UpgradeInv, OnlyOldNotesAreAliased, OneNotePerSecret, CountersRestartOnce,
           OldSharesStayPut, OnFile
  <1> QED
    BY <1>3, <1>4, <1>5 DEF UpgradeInv

\* The same of a process that is looking for columns, or adding one.
LEMMA ColumnsKeepInv ==
  ASSUME UpgradeInv, NEW p \in Processes,
         opener' \in [Processes -> OpenerRecs],
         \A q \in Processes \ {p} : opener'[q] = opener[q],
         opener'[p].pc \in {"closed", "columns", "cutover"},
         columns' \subseteq FirstColumns(Len(Additions)),
         UNCHANGED <<meta, noteIds, legacy, branch, acceptedKeys>>
  PROVE  UpgradeInv'
  <1>1. TypesInv'
    BY DEF UpgradeInv, TypesInv
  <1>2. FlagsInv' /\ SharesInv'
    BY DEF UpgradeInv, FlagsInv, SharesInv, PastIndex, PastCounter, OnFile
  <1>3. OnlyOldNotesAreAliased' /\ OneNotePerSecret' /\ CountersRestartOnce' /\ OldSharesStayPut'
    BY DEF UpgradeInv, OnlyOldNotesAreAliased, OneNotePerSecret, CountersRestartOnce,
           OldSharesStayPut, OnFile
  <1> QED
    BY <1>1, <1>2, <1>3 DEF UpgradeInv

LEMMA ReadingColumns ==
  ASSUME UpgradeInv, NEW p \in Processes, ReadColumns(p) PROVE UpgradeInv'
  <1> DEFINE t == Additions[opener[p].at].table
             read == opener[p].read \union {t}
             seen == opener[p].seen \union {a \in columns : a.table = t}
  <1>1. opener \in [Processes -> OpenerRecs] /\ columns \subseteq FirstColumns(Len(Additions))
    BY DEF UpgradeInv, TypesInv
  <1>2. /\ opener[p] \in OpenerRecs /\ opener[p].pc = "columns"
        /\ opener[p].read \in SUBSET Tables
        /\ opener[p].seen \in SUBSET FirstColumns(Len(Additions))
        /\ opener[p].at \in 1..Len(Additions)
    BY <1>1 DEF OpenerRecs, PlaceRecs, ReadColumns, Stands
  <1>3. read \in SUBSET Tables
    BY <1>2, AddedColumns
  <1>4. seen \in SUBSET FirstColumns(Len(Additions))
    BY <1>1, <1>2
  <1> HIDE DEF read, seen
  <1>5. opener' = [opener EXCEPT ![p] = [opener[p] EXCEPT !.read = read, !.seen = seen]]
    BY <1>1 DEF ReadColumns, read, seen
  <1>6. [opener[p] EXCEPT !.read = read, !.seen = seen] \in OpenerRecs
    BY <1>2, <1>3, <1>4, FieldsOfPlaces DEF OpenerRecs
  <1>7. [opener[p] EXCEPT !.read = read, !.seen = seen].pc = "columns"
    BY <1>2 DEF OpenerRecs, PlaceRecs
  <1>8. /\ opener' \in [Processes -> OpenerRecs]
        /\ \A q \in Processes \ {p} : opener'[q] = opener[q]
        /\ opener'[p].pc = "columns"
    BY <1>1, <1>5, <1>6, <1>7
  <1>9. UNCHANGED <<columns, meta, noteIds, legacy, branch, acceptedKeys>>
    BY DEF ReadColumns
  <1> QED
    BY <1>1, <1>8, <1>9, ColumnsKeepInv

LEMMA AddingColumns ==
  ASSUME UpgradeInv, NEW p \in Processes, AddColumn(p) PROVE UpgradeInv'
  <1> DEFINE r == opener[p]
  <1>1. opener \in [Processes -> OpenerRecs] /\ columns \subseteq FirstColumns(Len(Additions))
    BY DEF UpgradeInv, TypesInv
  <1>2. r \in OpenerRecs /\ r.pc = "columns" /\ r.at \in 1..Len(Additions)
    BY <1>1 DEF OpenerRecs, PlaceRecs, AddColumn, Stands
  <1>3. columns' \subseteq FirstColumns(Len(Additions))
    BY <1>1, <1>2, ColumnsGrow DEF AddColumn
  <1>4. CASE NextColumn(p)
    <2>2. CASE r.at = Len(Additions)
      BY <1>1, <1>3, <1>4, <2>2, OneMoves, ColumnsKeepInv DEF AddColumn, NextColumn, Places
    <2>3. CASE r.at # Len(Additions)
      <3>1. opener' = [opener EXCEPT ![p] = [r EXCEPT !.at = r.at + 1]]
        BY <1>4, <2>3 DEF NextColumn
      <3>2. r.at + 1 \in 1..Len(Additions)
        BY <1>2, <2>3, AddedColumns
      <3>3. [r EXCEPT !.at = r.at + 1] \in OpenerRecs
        BY <1>2, <3>2, FieldsOfPlaces DEF OpenerRecs
      <3>4. [r EXCEPT !.at = r.at + 1].pc = "columns"
        BY <1>2 DEF OpenerRecs, PlaceRecs
      <3>5. /\ opener' \in [Processes -> OpenerRecs]
            /\ \A q \in Processes \ {p} : opener'[q] = opener[q]
            /\ opener'[p].pc = "columns"
        BY <1>1, <3>1, <3>3, <3>4
      <3> QED
        BY <1>1, <1>3, <3>5, ColumnsKeepInv DEF AddColumn
    <2> QED
      BY <2>2, <2>3
  <1>5. CASE Throws(p)
    BY <1>1, <1>3, <1>5, OneMoves, ColumnsKeepInv DEF AddColumn
  <1> QED
    BY <1>4, <1>5 DEF AddColumn

\* The flags and what they stand for are written together.
LEMMA WritingTheCutover ==
  ASSUME UpgradeInv, NEW p \in Processes, WriteCutover(p) PROVE UpgradeInv'
  <1>1. /\ opener' \in [Processes -> OpenerRecs]
        /\ \A q \in Processes \ {p} : opener'[q] = opener[q]
        /\ opener'[p].pc = "index"
    BY OneMoves DEF UpgradeInv, TypesInv, WriteCutover, Places
  <1>2. TypesInv' /\ FlagsInv' /\ SharesInv'
    BY <1>1 DEF UpgradeInv, TypesInv, FlagsInv, SharesInv, PastIndex, PastCounter, OnFile,
                WriteCutover
  <1>3. OnlyOldNotesAreAliased' /\ OneNotePerSecret' /\ CountersRestartOnce' /\ OldSharesStayPut'
    BY DEF UpgradeInv, OnlyOldNotesAreAliased, OneNotePerSecret, CountersRestartOnce,
           OldSharesStayPut, OnFile, WriteCutover
  <1> QED
    BY <1>2, <1>3 DEF UpgradeInv

LEMMA IndexingIds ==
  ASSUME UpgradeInv, NEW p \in Processes, IndexLegacyIds(p) PROVE UpgradeInv'
  <1>1. CASE "legacy_ids_indexed" \in meta
    BY <1>1, OnlyAPlaceChanges DEF IndexLegacyIds, Places
  <1>2. CASE "legacy_ids_indexed" \notin meta
    <2>1. Indexed(p) /\ UNCHANGED <<columns, noteIds, branch, acceptedKeys>>
      BY <1>2 DEF IndexLegacyIds
    <2>2. /\ opener' \in [Processes -> OpenerRecs]
          /\ \A q \in Processes \ {p} : opener'[q] = opener[q]
          /\ opener'[p].pc = "counter"
      BY <2>1, OneMoves DEF UpgradeInv, TypesInv, Indexed, Places
    <2>3. noteIds \subseteq OldIds
      BY <1>2 DEF UpgradeInv, FlagsInv
    <2>4. TypesInv' /\ OnlyOldNotesAreAliased'
      BY <2>1, <2>2, <2>3 DEF UpgradeInv, TypesInv, OnlyOldNotesAreAliased, Indexed
    <2>5. FlagsInv'
      BY <2>1, <2>2 DEF UpgradeInv, FlagsInv, PastIndex, PastCounter, Indexed
    <2>6. SharesInv' /\ OneNotePerSecret' /\ OldSharesStayPut'
      BY <2>1, <2>2 DEF UpgradeInv, SharesInv, OneNotePerSecret, OldSharesStayPut, OnFile
    <2>7. CountersRestartOnce'
      BY <2>1 DEF UpgradeInv, CountersRestartOnce, Indexed
    <2> QED
      BY <2>4, <2>5, <2>6, <2>7 DEF UpgradeInv
  <1> QED
    BY <1>1, <1>2

LEMMA RestartingCounters ==
  ASSUME UpgradeInv, NEW p \in Processes, RestartCounters(p) PROVE UpgradeInv'
  <1> DEFINE restarted == [n \in Handles |-> [branch[n] EXCEPT !.next = 0]]
             BranchRecs == [cx1 : Branches \union {NoBranch}, next : Nat, used : Nat]
  <1>1. /\ opener' \in [Processes -> OpenerRecs]
        /\ \A q \in Processes \ {p} : opener'[q] = opener[q]
        /\ opener'[p].pc = "accept" /\ opener[p].pc = "counter"
    BY OneMoves DEF UpgradeInv, TypesInv, RestartCounters, Places, Stands
  <1>2. branch \in [Handles -> BranchRecs]
    BY DEF UpgradeInv, TypesInv
  <1>3. \A n \in Handles : /\ restarted[n] \in BranchRecs
                           /\ restarted[n].cx1 = branch[n].cx1
                           /\ restarted[n].next = 0
                           /\ restarted[n].used = branch[n].used
    BY <1>2
  <1> HIDE DEF restarted
  <1>4. branch' = branch \/ branch' = restarted
    BY DEF RestartCounters, restarted
  <1>5. /\ branch' \in [Handles -> BranchRecs]
        /\ \A n \in Handles : branch'[n].cx1 = branch[n].cx1
        /\ "address_purpose_counter" \notin meta =>
             \A n \in Handles : branch'[n].next = 0 /\ branch'[n].used = branch[n].used
        /\ "address_purpose_counter" \in meta => branch' = branch
    <2>1. restarted \in [Handles -> BranchRecs]
      BY <1>3 DEF restarted
    <2> QED
      BY <1>2, <1>3, <1>4, <2>1 DEF RestartCounters, restarted
  <1>6. CountersRestartOnce'
    <2>1. "address_purpose_counter" \in meta'
      BY DEF RestartCounters
    <2>2. CASE "address_purpose_counter" \in meta
      BY <1>5, <2>1, <2>2 DEF UpgradeInv, CountersRestartOnce
    <2>3. CASE "address_purpose_counter" \notin meta
      <3>1. \A n \in Handles : branch[n].used = 0
        BY <2>3 DEF UpgradeInv, CountersRestartOnce
      <3> QED
        BY <1>5, <2>1, <2>3, <3>1 DEF CountersRestartOnce
    <2> QED
      BY <2>2, <2>3
  <1>7. TypesInv'
    BY <1>1, <1>5 DEF UpgradeInv, TypesInv, RestartCounters
  <1>8. FlagsInv'
    BY <1>1 DEF UpgradeInv, FlagsInv, PastIndex, PastCounter, RestartCounters
  <1>9. OnFile' = OnFile
    BY <1>5 DEF OnFile
  <1>10. SharesInv' /\ OldSharesStayPut'
    BY <1>1, <1>5, <1>9 DEF UpgradeInv, SharesInv, OldSharesStayPut, OnFile, RestartCounters
  <1>11. OnlyOldNotesAreAliased' /\ OneNotePerSecret'
    BY DEF UpgradeInv, OnlyOldNotesAreAliased, OneNotePerSecret, RestartCounters
  <1> QED
    BY <1>6, <1>7, <1>8, <1>10, <1>11 DEF UpgradeInv

LEMMA AcceptingShares ==
  ASSUME UpgradeInv, NEW p \in Processes, AcceptOnFile(p) PROVE UpgradeInv'
  <1>1. /\ opener' \in [Processes -> OpenerRecs]
        /\ \A q \in Processes \ {p} : opener'[q] = opener[q]
        /\ opener'[p].pc = "open" /\ opener[p].pc = "accept"
    BY OneMoves DEF UpgradeInv, TypesInv, AcceptOnFile, Places, Stands
  <1>2. acceptedKeys' \subseteq Branches
    BY DEF UpgradeInv, TypesInv, AcceptOnFile, OnFile
  <1>3. TypesInv' /\ FlagsInv'
    BY <1>1, <1>2 DEF UpgradeInv, TypesInv, FlagsInv, PastIndex, PastCounter, AcceptOnFile
  <1>4. SharesInv'
    BY <1>1 DEF UpgradeInv, SharesInv, AcceptOnFile, OnFile
  <1>5. OnlyOldNotesAreAliased' /\ OneNotePerSecret' /\ CountersRestartOnce' /\ OldSharesStayPut'
    BY DEF UpgradeInv, OnlyOldNotesAreAliased, OneNotePerSecret, CountersRestartOnce,
           OldSharesStayPut, OnFile, AcceptOnFile
  <1> QED
    BY <1>3, <1>4, <1>5 DEF UpgradeInv

\* What a store that is open writes.
LEMMA CreditingNotes ==
  ASSUME UpgradeInv, NEW p \in Processes,
         \/ \E i \in OldIds : CreditOldInvoice(p, i)
         \/ \E q \in NewIds : CreditOutput(p, q)
  PROVE  UpgradeInv'
  <1>1. /\ opener[p].pc = "open" /\ "legacy_ids_indexed" \in meta /\ OldIds \subseteq legacy
        /\ UNCHANGED <<columns, meta, legacy, branch, acceptedKeys, opener>>
    BY DEF UpgradeInv, FlagsInv, PastIndex, CreditOldInvoice, CreditOutput, Serving, Stands
  <1>2. OneNotePerSecret'
    BY <1>1, UpgradeAssumption
       DEF UpgradeInv, OneNotePerSecret, CreditOldInvoice, CreditOutput, Taken
  <1>3. TypesInv' /\ FlagsInv' /\ SharesInv'
    BY <1>1 DEF UpgradeInv, TypesInv, FlagsInv, SharesInv, PastIndex, PastCounter, OnFile,
                CreditOldInvoice, CreditOutput
  <1>4. OnlyOldNotesAreAliased' /\ CountersRestartOnce' /\ OldSharesStayPut'
    BY <1>1 DEF UpgradeInv, OnlyOldNotesAreAliased, CountersRestartOnce, OldSharesStayPut, OnFile
  <1> QED
    BY <1>2, <1>3, <1>4 DEF UpgradeInv

LEMMA CreditingABranch ==
  ASSUME UpgradeInv, NEW p \in Processes, NEW n \in Handles, CreditBranch(p, n)
  PROVE  UpgradeInv'
  <1>1. /\ opener[p].pc = "open" /\ "address_purpose_counter" \in meta
        /\ UNCHANGED <<columns, meta, noteIds, legacy, acceptedKeys, opener>>
    BY DEF UpgradeInv, FlagsInv, PastCounter, CreditBranch, Serving, Stands
  <1>2. branch \in [Handles -> [cx1 : Branches \union {NoBranch}, next : Nat, used : Nat]]
    BY DEF UpgradeInv, TypesInv
  <1>3. /\ branch' \in [Handles -> [cx1 : Branches \union {NoBranch}, next : Nat, used : Nat]]
        /\ \A m \in Handles : branch'[m].cx1 = branch[m].cx1
        /\ \A m \in Handles : branch[m].next = branch[m].used => branch'[m].next = branch'[m].used
    BY <1>2 DEF CreditBranch
  <1>4. OnFile' = OnFile
    BY <1>3 DEF OnFile
  <1>5. TypesInv' /\ FlagsInv'
    BY <1>1, <1>3 DEF UpgradeInv, TypesInv, FlagsInv, PastIndex, PastCounter
  <1>6. SharesInv' /\ OldSharesStayPut'
    BY <1>1, <1>3, <1>4 DEF UpgradeInv, SharesInv, OldSharesStayPut, OnFile
  <1>7. OnlyOldNotesAreAliased' /\ OneNotePerSecret' /\ CountersRestartOnce'
    BY <1>1, <1>3 DEF UpgradeInv, OnlyOldNotesAreAliased, OneNotePerSecret, CountersRestartOnce
  <1> QED
    BY <1>5, <1>6, <1>7 DEF UpgradeInv

LEMMA TakingABranch ==
  ASSUME UpgradeInv, NEW p \in Processes, NEW n \in Handles, NEW x \in Branches,
         TakeBranch(p, n, x)
  PROVE  UpgradeInv'
  <1>1. /\ opener[p].pc = "open" /\ x \notin acceptedKeys
        /\ acceptedKeys' = acceptedKeys \union {x}
        /\ UNCHANGED <<columns, meta, noteIds, legacy, opener>>
    BY DEF TakeBranch, Serving, Stands
  <1>2. branch \in [Handles -> [cx1 : Branches \union {NoBranch}, next : Nat, used : Nat]]
    BY DEF UpgradeInv, TypesInv
  <1>3. /\ branch' \in [Handles -> [cx1 : Branches \union {NoBranch}, next : Nat, used : Nat]]
        /\ branch'[n].cx1 = x /\ branch'[n].next = 0 /\ branch'[n].used = 0
        /\ \A m \in Handles \ {n} : branch'[m] = branch[m]
    BY <1>2 DEF TakeBranch
  <1>4. \A m \in OnFile : branch[m].cx1 \in acceptedKeys
    BY <1>1 DEF UpgradeInv, SharesInv
  <1>5. \A m \in OnFile' : m = n \/ (m \in OnFile /\ branch'[m].cx1 = branch[m].cx1)
    BY <1>3 DEF OnFile
  <1>6. TypesInv' /\ FlagsInv'
    BY <1>1, <1>3 DEF UpgradeInv, TypesInv, FlagsInv, PastIndex, PastCounter
  <1>7. SharesInv' /\ OldSharesStayPut'
    BY <1>1, <1>3, <1>4, <1>5 DEF UpgradeInv, SharesInv, OldSharesStayPut
  <1>8. OnlyOldNotesAreAliased' /\ OneNotePerSecret' /\ CountersRestartOnce'
    BY <1>1, <1>3 DEF UpgradeInv, OnlyOldNotesAreAliased, OneNotePerSecret, CountersRestartOnce
  <1> QED
    BY <1>6, <1>7, <1>8 DEF UpgradeInv

LEMMA UpgradeStep == UpgradeInv /\ [UpgradeNext]_upgradeVars => UpgradeInv'
  <1> SUFFICES ASSUME UpgradeInv, [UpgradeNext]_upgradeVars PROVE UpgradeInv'
    OBVIOUS
  <1>1. ASSUME NEW p \in Processes, OpenStore(p) PROVE UpgradeInv'
    BY <1>1, OnlyAPlaceChanges DEF OpenStore, Places
  <1>2. ASSUME NEW p \in Processes, ReadColumns(p) PROVE UpgradeInv'
    BY <1>2, ReadingColumns
  <1>3. ASSUME NEW p \in Processes, AddColumn(p) PROVE UpgradeInv'
    BY <1>3, AddingColumns
  <1>4. ASSUME NEW p \in Processes, WriteCutover(p) PROVE UpgradeInv'
    BY <1>4, WritingTheCutover
  <1>5. ASSUME NEW p \in Processes, AskIndexed(p) PROVE UpgradeInv'
    BY <1>5, OnlyAPlaceChanges DEF AskIndexed, Places
  <1>6. ASSUME NEW p \in Processes, IndexLegacyIds(p) PROVE UpgradeInv'
    BY <1>6, IndexingIds
  <1>7. ASSUME NEW p \in Processes, RestartCounters(p) PROVE UpgradeInv'
    BY <1>7, RestartingCounters
  <1>8. ASSUME NEW p \in Processes, AcceptOnFile(p) PROVE UpgradeInv'
    BY <1>8, AcceptingShares
  <1>9. ASSUME NEW p \in Processes, CloseStore(p) PROVE UpgradeInv'
    BY <1>9, OnlyAPlaceChanges DEF CloseStore, Places
  <1>10. ASSUME NEW p \in Processes,
                \/ \E i \in OldIds : CreditOldInvoice(p, i)
                \/ \E q \in NewIds : CreditOutput(p, q)
         PROVE  UpgradeInv'
    BY <1>10, CreditingNotes
  <1>11. ASSUME NEW p \in Processes, NEW n \in Handles, CreditBranch(p, n) PROVE UpgradeInv'
    BY <1>11, CreditingABranch
  <1>12. ASSUME NEW p \in Processes, NEW n \in Handles, NEW x \in Branches, TakeBranch(p, n, x)
         PROVE  UpgradeInv'
    BY <1>12, TakingABranch
  <1>13. CASE UNCHANGED upgradeVars
    BY <1>13 DEF upgradeVars, UpgradeInv, TypesInv, FlagsInv, SharesInv, PastIndex, PastCounter,
                 OnFile, OnlyOldNotesAreAliased, OneNotePerSecret, CountersRestartOnce,
                 OldSharesStayPut
  <1> QED
    BY <1>1, <1>2, <1>3, <1>4, <1>5, <1>6, <1>7, <1>8, <1>9, <1>10, <1>11, <1>12, <1>13
       DEF UpgradeNext

\* Whatever is killed, and whoever opens the database meanwhile or serves from
\* it already, the upgrade is whole before a store is used and is done once:
\* for any number of processes, old ids and addresses (store.ts constructor).
THEOREM UpgradesAreWholeAndOnce == UpgradeSpec => []UpgradedOnceAndWhole
  <1>1. UpgradeInv => UpgradedOnceAndWhole
    BY DEF UpgradeInv, FlagsInv, PastIndex, UpgradedOnceAndWhole, OldNotesAreFound, Stands
  <1> QED
    BY UpgradeStart, UpgradeStep, <1>1, PTL DEF UpgradeSpec

\* Every variable of Upgrade keeps its shape.
THEOREM UpgradeTypes == UpgradeSpec => []UpgradeTypeOK
  <1>1. UpgradeInv => UpgradeTypeOK
    BY TypesAreTypes DEF UpgradeInv
  <1> QED
    BY UpgradeStart, UpgradeStep, <1>1, PTL DEF UpgradeSpec
=============================================================================
