----------------------------- MODULE MeltProofs -----------------------------
(***************************************************************************)
(* What holds of Melt for every set of notes, hashes, requests and passes, *)
(* and that it implements NotePromise.                                     *)
(***************************************************************************)
EXTENDS Melt, TLAPS

-----------------------------------------------------------------------------
(* Type correctness.                                                       *)

LEMMA ResolveTypes ==
  ASSUME note \in [Notes -> NoteStates], melt \in [Hashes -> Rows],
         NEW h \in Hashes, FinalizeMelt(h) \/ RestoreMelt(h)
  PROVE  note' \in [Notes -> NoteStates] /\ melt' \in [Hashes -> Rows]
  <1>1. CASE melt[h].outcome # "open"
    BY <1>1 DEF FinalizeMelt, RestoreMelt
  <1>2. CASE melt[h].outcome = "open" /\ FinalizeMelt(h)
    <2>1. note' = [note EXCEPT ![melt[h].note] = "burned"]
      BY <1>2 DEF FinalizeMelt
    <2>2. melt' = [melt EXCEPT ![h] = [melt[h] EXCEPT !.outcome = "paid"]]
      BY <1>2 DEF FinalizeMelt
    <2>3. [melt[h] EXCEPT !.outcome = "paid"] \in Rows
      BY DEF Rows
    <2> QED
      BY <2>1, <2>2, <2>3 DEF NoteStates
  <1>3. CASE melt[h].outcome = "open" /\ RestoreMelt(h)
    <2>1. \E s \in NoteStates : note' = [note EXCEPT ![melt[h].note] = s]
      BY <1>3 DEF RestoreMelt, NoteStates
    <2>2. melt' = [melt EXCEPT ![h] = [melt[h] EXCEPT !.outcome = "restored"]]
      BY <1>3 DEF RestoreMelt
    <2>3. [melt[h] EXCEPT !.outcome = "restored"] \in Rows
      BY DEF Rows
    <2> QED
      BY <2>1, <2>2, <2>3
  <1> QED
    BY <1>1, <1>2, <1>3

LEMMA NextRowTypes ==
  ASSUME NEW p \in Passes, NEW todo \in SUBSET Hashes, NEW next \in NextRow(p, todo)
  PROVE  /\ next \in PassStates
         /\ next.pc = "asking" => next.at \in todo
         /\ next.pc = "asking" => next.todo \subseteq todo
         /\ next.pc = "asking" => next.at \notin Skips(p)
         /\ next.pc = "asking" => next.at \notin next.todo
         /\ next.answer = "none"
  <1>1. CASE todo \ Skips(p) = {}
    BY <1>1 DEF NextRow, IdlePass, PassStates, Answers
  <1>2. CASE todo \ Skips(p) # {}
    BY <1>2 DEF NextRow, PassStates, Answers
  <1> QED
    BY <1>1, <1>2

\* One step of a handler leaves the handlers' types in order.
LEMMA FinishTypes ==
  ASSUME TypeOK, NEW r \in Requests, Finish(r), req[r].pc # "idle"
  PROVE  /\ req' \in [Requests -> RequestStates]
         /\ inFlight' \in SUBSET Hashes
         /\ \A q \in Requests : req'[q].pc # "idle" <=> req[q].pc # "idle"
         /\ \A q \in Requests : req'[q].note = req[q].note /\ req'[q].hash = req[q].hash
  <1>1. req[r] \in RequestStates /\ 0 \in 0..MaxConfirm
    BY MaxConfirmAssumption DEF TypeOK
  <1>2. [req[r] EXCEPT !.pc = "done", !.tries = 0, !.answer = "none"] \in RequestStates
    BY <1>1 DEF RequestStates, Answers
  <1>3. req' = [req EXCEPT ![r] = [req[r] EXCEPT !.pc = "done", !.tries = 0, !.answer = "none"]]
    BY DEF Finish
  <1>4. req' \in [Requests -> RequestStates] /\ inFlight' \in SUBSET Hashes
    BY <1>2, <1>3 DEF TypeOK, Finish
  <1>5. req'[r].pc = "done" /\ req'[r].note = req[r].note /\ req'[r].hash = req[r].hash
    BY <1>1, <1>3 DEF TypeOK, RequestStates
  <1>6. \A q \in Requests \ {r} : req'[q] = req[q]
    BY <1>3 DEF TypeOK
  <1> QED
    BY <1>4, <1>5, <1>6

LEMMA TypeInit == Init => TypeOK
  BY MaxConfirmAssumption, MaxCrashesAssumption
  DEF Init, TypeOK, NoteStates, Rows, NoRow, RequestStates, IdleRequest,
      PassStates, IdlePass, Payments, Answers

LEMMA TypeStep == TypeOK /\ [Next]_vars => TypeOK'
  <1> SUFFICES ASSUME TypeOK, [Next]_vars PROVE TypeOK'
    OBVIOUS
  <1> USE MaxConfirmAssumption, MaxCrashesAssumption DEF TypeOK
  <1>1. ASSUME NEW r \in Requests, NEW n \in Notes, NEW h \in Hashes, Open(r, n, h)
        PROVE  TypeOK'
    <2>1. req[r] \in RequestStates
      OBVIOUS
    <2>2. [req[r] EXCEPT !.pc = "opened", !.note = n, !.hash = h] \in RequestStates
      BY <2>1 DEF RequestStates
    <2>3. /\ req' = [req EXCEPT ![r] = [req[r] EXCEPT !.pc = "opened", !.note = n, !.hash = h]]
          /\ UNCHANGED <<note, melt, inFlight, pass, wire, node, crashes>>
      BY <1>1 DEF Open
    <2>4. req' \in [Requests -> RequestStates]
      BY <2>2, <2>3
    <2>5. req'[r].pc = "opened" /\ req'[r].note = n /\ req'[r].hash = h
      BY <2>1, <2>3 DEF RequestStates
    <2>6. \A q \in Requests \ {r} : req'[q] = req[q]
      BY <2>3
    <2> QED
      BY <2>3, <2>4, <2>5, <2>6
  <1>2. ASSUME NEW r \in Requests, CheckInvoice(r) PROVE TypeOK'
    BY <1>2 DEF CheckInvoice, RequestStates
  <1>3. ASSUME NEW r \in Requests, RefuseAfterPrecheck(r) PROVE TypeOK'
    BY <1>3 DEF RefuseAfterPrecheck, RequestStates, Answers
  <1>4. ASSUME NEW r \in Requests, Reserve(r) PROVE TypeOK'
    BY <1>4 DEF Reserve, MarkPending, RequestStates, Answers, NoteStates, Rows
  <1>5. ASSUME NEW r \in Requests, PayOk(r) PROVE TypeOK'
    BY <1>5, ResolveTypes, FinishTypes DEF PayOk
  <1>6. ASSUME NEW r \in Requests, PayAlreadyKnown(r) PROVE TypeOK'
    BY <1>6, ResolveTypes, FinishTypes DEF PayAlreadyKnown
  <1>7. ASSUME NEW r \in Requests, PayUnclear(r) PROVE TypeOK'
    <2>1. MaxConfirm \in 0..MaxConfirm
      OBVIOUS
    <2>2. [req[r] EXCEPT !.pc = "confirm", !.tries = MaxConfirm, !.answer = "none"] \in RequestStates
      BY <2>1 DEF RequestStates, Answers
    <2>3. req' = [req EXCEPT ![r] = [req[r] EXCEPT !.pc = "confirm", !.tries = MaxConfirm, !.answer = "none"]]
      BY <1>7 DEF PayUnclear
    <2>4. /\ req' \in [Requests -> RequestStates]
          /\ \A q \in Requests : req'[q].note = req[q].note /\ req'[q].hash = req[q].hash
          /\ \A q \in Requests : req'[q].pc = "idle" <=> req[q].pc = "idle"
      BY <1>7, <2>2, <2>3 DEF PayUnclear, RequestStates
    <2>5. wire' \subseteq wire
      BY <1>7 DEF PayUnclear
    <2> QED
      BY <1>7, <2>4, <2>5 DEF PayUnclear
  <1>8. ASSUME NEW r \in Requests, SettleThrows(r) PROVE TypeOK'
    BY <1>8, FinishTypes DEF SettleThrows
  <1>9. ASSUME NEW r \in Requests, ConfirmPaid(r) PROVE TypeOK'
    BY <1>9, ResolveTypes, FinishTypes DEF ConfirmPaid
  <1>10. ASSUME NEW r \in Requests, ConfirmNotPaid(r) PROVE TypeOK'
    BY <1>10, ResolveTypes, FinishTypes DEF ConfirmNotPaid
  <1>11. ASSUME NEW r \in Requests, ConfirmAgain(r) PROVE TypeOK'
    BY <1>11 DEF ConfirmAgain, RequestStates, Answers
  <1>12. ASSUME NEW r \in Requests, LeavePending(r) PROVE TypeOK'
    BY <1>12, FinishTypes DEF LeavePending
  <1>13. ASSUME NEW p \in Passes, PassStart(p) PROVE TypeOK'
    BY <1>13, NextRowTypes DEF PassStart, OpenRows
  <1>14. ASSUME NEW p \in Passes, PassApplies(p) PROVE TypeOK'
    <2>1. pass[p].todo \in SUBSET Hashes /\ pass[p].at \in Hashes
      BY <1>14 DEF PassApplies, PassStates
    <2>2. note' \in [Notes -> NoteStates] /\ melt' \in [Hashes -> Rows]
      BY <1>14, <2>1, ResolveTypes DEF PassApplies
    <2> QED
      BY <1>14, <2>1, <2>2, NextRowTypes DEF PassApplies
  <1>15. ASSUME NEW p \in Passes, PassLeaves(p) PROVE TypeOK'
    <2>1. pass[p].todo \in SUBSET Hashes
      BY <1>15 DEF PassStates
    <2> QED
      BY <1>15, <2>1, NextRowTypes DEF PassLeaves
  <1>16. ASSUME NEW r \in Requests, NodeTakesSend(r) PROVE TypeOK'
    <2>1. CASE Sendable(req[r].hash)
      BY <1>16, <2>1 DEF NodeTakesSend, Payments
    <2>2. CASE ~Sendable(req[r].hash)
      <3>1. /\ req' \in [Requests -> RequestStates]
            /\ \A q \in Requests : /\ req'[q].note = req[q].note
                                   /\ req'[q].hash = req[q].hash
                                   /\ req'[q].pc = req[q].pc
        BY <1>16, <2>2 DEF NodeTakesSend, RequestStates, Answers
      <3> QED
        BY <1>16, <2>2, <3>1 DEF NodeTakesSend
    <2> QED
      BY <2>1, <2>2
  <1>17. ASSUME NEW r \in Requests, NodeAnswersRequest(r) PROVE TypeOK'
    <2>1. \A h \in Hashes : NodeAnswers(h) \subseteq Answers
      BY DEF NodeAnswers, Answers, Payments
    <2> QED
      BY <1>17, <2>1 DEF NodeAnswersRequest, RequestStates
  <1>18. ASSUME NEW h \in Hashes, NodeSettles(h) PROVE TypeOK'
    BY <1>18 DEF NodeSettles, Payments
  <1>19. ASSUME NEW h \in Hashes, OthersPay(h) PROVE TypeOK'
    BY <1>19 DEF OthersPay, Payments
  <1>20. ASSUME NEW p \in Passes, NodeAnswersPass(p) PROVE TypeOK'
    <2>1. \A h \in Hashes : NodeAnswers(h) \subseteq Answers
      BY DEF NodeAnswers, Answers, Payments
    <2> QED
      BY <1>20, <2>1 DEF NodeAnswersPass, PassStates
  <1>21. ASSUME NEW n \in Notes, SpendOtherwise(n) PROVE TypeOK'
    BY <1>21 DEF SpendOtherwise, NoteStates
  <1>22. CASE Crash
    <2> DEFINE Ended(q) == [req[q] EXCEPT !.pc = "done", !.tries = 0, !.answer = "none"]
    <2>0. 0 \in 0..MaxConfirm /\ \A q \in Requests : req[q] \in RequestStates
      OBVIOUS
    <2>1. \A q \in Requests : Ended(q) \in RequestStates
      BY <2>0 DEF RequestStates, Answers
    <2>2. \A q \in Requests : req'[q] = IF req[q].pc = "idle" THEN req[q]
              ELSE [req[q] EXCEPT !.pc = "done", !.tries = 0, !.answer = "none"]
      BY <1>22 DEF Crash
    <2>3. req' \in [Requests -> RequestStates]
      BY <1>22, <2>1, <2>2 DEF Crash
    <2>4. ASSUME NEW q \in Requests
          PROVE  /\ req'[q].note = req[q].note /\ req'[q].hash = req[q].hash
                 /\ req'[q].pc = "idle" <=> req[q].pc = "idle"
      <3>1. CASE req[q].pc = "idle"
        BY <2>2, <3>1
      <3>2. CASE req[q].pc # "idle"
        BY <2>0, <2>2, <3>2 DEF RequestStates
      <3> QED
        BY <3>1, <3>2
    <2>5. /\ pass' \in [Passes -> PassStates]
          /\ \A p \in Passes : pass'[p].pc = "asking" => pass'[p].at \in Hashes
      BY <1>22 DEF Crash, PassStates, IdlePass, Answers
    <2>6. wire' \subseteq wire /\ inFlight' = {}
      BY <1>22 DEF Crash
    <2>7. crashes' \in 0..MaxCrashes
      <3>1. crashes \in 0..MaxCrashes /\ crashes < MaxCrashes /\ crashes' = crashes + 1
        BY <1>22 DEF Crash
      <3> QED
        BY <3>1, MaxCrashesAssumption
    <2> QED
      BY <1>22, <2>3, <2>4, <2>5, <2>6, <2>7 DEF Crash
  <1>23. CASE UNCHANGED vars
    BY <1>23 DEF vars
  <1> QED
    BY <1>1, <1>2, <1>3, <1>4, <1>5, <1>6, <1>7, <1>8, <1>9, <1>10, <1>11, <1>12,
       <1>13, <1>14, <1>15, <1>16, <1>17, <1>18, <1>19, <1>20, <1>21, <1>22, <1>23
    DEF Next, HandlerStep, PassStep, NodeStep

\* Melt's variables keep their shapes, for every value of the constants.
THEOREM TypeCorrect == Spec => []TypeOK
  BY TypeInit, TypeStep, PTL DEF Spec

-----------------------------------------------------------------------------
(* No payment without its melt row.  It is proved for a mint whose operator *)
(* does not reconcile from a second process, whose abandoned sends do not  *)
(* arrive later, and whose wallets present each invoice once, or else      *)
(* again and again where a pass has no second row to come to and no other  *)
(* pass beside it.  Each part is needed: a run shows a counterexample      *)
(* without the first and the third, and the second is what "no such        *)
(* payment" rests on.                                                      *)

Discipline ==
  /\ ~LateSend /\ AdminPasses = {}
  /\ Reuse => \A p, q \in ServerPasses, g, h \in Hashes : p = q /\ g = h

\* A payment for this hash that this mint sent is under way or made.
Ours(h) == node[h].by \in Requests /\ node[h].status \in {"inflight", "succeeded"}

Reserved(r) == req[r].pc \in LivePcs \union {"done"}

\* An invoice presented twice is still attempted one request at a time.
OneRequestPerHash ==
  /\ \A r \in Requests : req[r].pc = "idle" => req[r].hash = NoHash
  /\ \A q, r \in Requests :
       /\ q # r /\ req[q].hash = req[r].hash
       /\ ~Reuse \/ (req[q].pc \in LivePcs /\ req[r].pc \in LivePcs)
       => req[q].hash = NoHash

RowsHaveMakers ==
  \A h \in Hashes : melt[h].outcome # "absent" =>
    \E r \in Requests : Reserved(r) /\ req[r].hash = h /\ req[r].note = melt[h].note

\* A live attempt's row is its own, and so is any payment of its hash.
LiveRows ==
  \A r \in Requests : req[r].pc \in LivePcs =>
    /\ req[r].hash \in inFlight
    /\ melt[req[r].hash] = [note |-> req[r].note, outcome |-> "open"]
    /\ Ours(req[r].hash) => node[req[r].hash].by = r

\* A row in a pass's hands is one whose attempt is over, and none begins:
\* the row is open still, or its hash was its only request's.
Handed(p) ==
  /\ melt[pass[p].at].outcome # "absent"
  /\ pass[p].at \notin pass[p].todo
  /\ \A h \in pass[p].todo : melt[h].outcome # "absent"
  /\ \A r \in Requests : req[r].hash = pass[p].at => req[r].pc \notin LivePcs
  /\ Reuse => melt[pass[p].at].outcome = "open"
  /\ ~Reuse => \A r \in Requests : req[r].hash = pass[p].at => req[r].pc = "done"

PassRows == \A p \in Passes : pass[p].pc = "asking" => Handed(p)

WireIsLive ==
  \A r \in wire :
    req[r].pc = "sending" /\ req[r].answer = "none" /\ node[req[r].hash].by # r

PaymentsHaveMakers ==
  \A h \in Hashes : node[h].by \in Requests =>
    Reserved(node[h].by) /\ req[node[h].by].hash = h

\* Whoever is about to restore a row is right: nothing of ours went out.
RefusalsAreTrue ==
  /\ \A r \in Requests :
       \/ req[r].pc = "confirm" /\ req[r].answer = "no"
       \/ req[r].pc = "sending" /\ req[r].answer = "known"
       => ~Ours(req[r].hash)
  /\ \A p \in Passes :
       pass[p].pc = "asking" /\ pass[p].answer = "no" => ~Ours(pass[p].at)

Covered ==
  /\ TypeOK
  /\ OneRequestPerHash
  /\ RowsHaveMakers
  /\ LiveRows
  /\ PassRows
  /\ WireIsLive
  /\ PaymentsHaveMakers
  /\ RefusalsAreTrue
  /\ NoUncoveredPayment

LEMMA CoveredInit == Init => Covered
  <1> SUFFICES ASSUME Init PROVE Covered
    OBVIOUS
  <1>1. TypeOK
    BY TypeInit
  <1> QED
    BY <1>1, NullAssumption
    DEF Init, Covered, OneRequestPerHash, RowsHaveMakers, LiveRows, PassRows, WireIsLive,
        PaymentsHaveMakers, RefusalsAreTrue, NoUncoveredPayment, Ours, NoRow, IdleRequest,
        IdlePass, LivePcs

\* What a resolution does to the table, whichever of the two it is.
LEMMA ResolveEffect ==
  ASSUME TypeOK, NEW h \in Hashes, FinalizeMelt(h) \/ RestoreMelt(h)
  PROVE  /\ \A g \in Hashes : g # h => melt'[g] = melt[g]
         /\ \A g \in Hashes : melt'[g].note = melt[g].note
         /\ \A g \in Hashes : melt'[g].outcome # "absent" <=> melt[g].outcome # "absent"
         /\ melt'[h].outcome # "open"
         /\ FinalizeMelt(h) =>
              melt'[h].outcome = IF melt[h].outcome = "open" THEN "paid" ELSE melt[h].outcome
  BY DEF TypeOK, Rows, FinalizeMelt, RestoreMelt

\* What a pass has in its hands stays as it was where its row does, and no
\* request takes its hash up.
LEMMA PassRowsStay ==
  ASSUME Covered,
         \A p \in Passes : /\ pass'[p].pc = pass[p].pc /\ pass'[p].at = pass[p].at
                           /\ pass'[p].todo = pass[p].todo,
         \A h \in Hashes : melt[h].outcome # "absent" => melt'[h].outcome # "absent",
         \A p \in Passes : pass[p].pc = "asking" => melt'[pass[p].at] = melt[pass[p].at],
         \A r \in Requests :
           \/ /\ req'[r].hash = req[r].hash
              /\ req'[r].pc \in LivePcs => req[r].pc \in LivePcs
              /\ req[r].pc = "done" => req'[r].pc = "done"
           \/ \A p \in Passes : pass[p].pc = "asking" => req'[r].hash # pass[p].at
           \/ Reuse /\ req'[r].pc \notin LivePcs
  PROVE  PassRows'
  <1> SUFFICES ASSUME NEW p \in Passes, pass[p].pc = "asking" PROVE Handed(p)'
    BY DEF PassRows
  <1>1. Handed(p) /\ pass[p].at \in Hashes /\ pass[p].todo \subseteq Hashes
    BY DEF Covered, PassRows, TypeOK, PassStates
  <1>2. /\ melt'[pass[p].at] = melt[pass[p].at]
        /\ \A h \in pass[p].todo : melt'[h].outcome # "absent"
    BY <1>1 DEF Handed
  <1>3. ASSUME NEW r \in Requests, req'[r].hash = pass[p].at
        PROVE  req'[r].pc \notin LivePcs /\ (~Reuse => req'[r].pc = "done")
    BY <1>1, <1>3 DEF Handed
  <1> QED
    BY <1>1, <1>2, <1>3 DEF Handed

\* The last step of an attempt, however it resolves its row.
LEMMA AttemptEnds ==
  ASSUME Covered, TypeOK', NEW r \in Requests, req[r].pc \in LivePcs, r \notin wire, Finish(r),
         UNCHANGED <<pass, wire, node>>,
         \/ UNCHANGED melt
         \/ FinalizeMelt(req[r].hash)
         \/ RestoreMelt(req[r].hash) /\ ~Ours(req[r].hash)
  PROVE  Covered'
  <1> DEFINE h == req[r].hash
  <1>1. /\ h \in Hashes
        /\ req'[r].pc = "done" /\ req'[r].note = req[r].note /\ req'[r].hash = h
        /\ req'[r].answer = "none"
        /\ \A q \in Requests \ {r} : req'[q] = req[q]
        /\ inFlight' = inFlight \ {h}
    BY DEF Covered, TypeOK, RequestStates, Finish, LivePcs
  <1>2. /\ \A g \in Hashes : g # h => melt'[g] = melt[g]
        /\ \A g \in Hashes : melt'[g].note = melt[g].note
        /\ \A g \in Hashes : melt'[g].outcome # "absent" <=> melt[g].outcome # "absent"
        /\ melt'[h].outcome \notin {"open", "paid"} =>
             melt'[h].outcome = melt[h].outcome \/ ~Ours(h)
    <2>1. CASE UNCHANGED melt
      BY <2>1, <1>1
    <2>2. CASE FinalizeMelt(h)
      BY <2>2, <1>1, ResolveEffect DEF Covered
    <2>3. CASE RestoreMelt(h) /\ ~Ours(h)
      BY <2>3, <1>1, ResolveEffect DEF Covered
    <2> QED
      BY <2>1, <2>2, <2>3
  <1>3. /\ \A q \in Requests : q # r /\ req[q].pc \in LivePcs => req[q].hash # h
        /\ \A p \in Passes : pass[p].pc = "asking" => pass[p].at \in Hashes \ {h}
    BY <1>1, NullAssumption DEF Covered, OneRequestPerHash, PassRows, Handed, TypeOK
  <1>4. OneRequestPerHash'
    BY <1>1 DEF Covered, OneRequestPerHash, LivePcs
  <1>5. RowsHaveMakers'
    BY <1>1, <1>2 DEF Covered, RowsHaveMakers, Reserved, LivePcs
  <1>6. LiveRows'
    BY <1>1, <1>2, <1>3 DEF Covered, LiveRows, LivePcs, TypeOK, Ours
  <1>7. PassRows'
    BY <1>1, <1>2, <1>3, PassRowsStay DEF LivePcs
  <1>8. WireIsLive'
    BY <1>1 DEF Covered, WireIsLive, TypeOK
  <1>9. PaymentsHaveMakers'
    BY <1>1 DEF Covered, PaymentsHaveMakers, Reserved, LivePcs
  <1>10. RefusalsAreTrue'
    BY <1>1 DEF Covered, RefusalsAreTrue, Ours
  <1>11. NoUncoveredPayment'
    BY <1>1, <1>2 DEF Covered, NoUncoveredPayment, Ours, TypeOK, Payments
  <1> QED
    BY <1>4, <1>5, <1>6, <1>7, <1>8, <1>9, <1>10, <1>11 DEF Covered

\* A pass that moves on: it takes up a row whose attempt is over, after
\* resolving the one it asked about or leaving it.
LEMMA PassMovesOn ==
  ASSUME Covered, Discipline, TypeOK', NEW p \in Passes, NEW todo \in SUBSET Hashes,
         NEW next \in NextRow(p, todo),
         \A h \in todo : melt[h].outcome # "absent" /\ (Reuse => melt'[h].outcome = "open"),
         pass' = [pass EXCEPT ![p] = next],
         UNCHANGED <<inFlight, req, wire, node>>,
         \/ UNCHANGED melt
         \/ /\ pass[p].pc = "asking"
            /\ \/ FinalizeMelt(pass[p].at)
               \/ RestoreMelt(pass[p].at) /\ ~Ours(pass[p].at)
  PROVE  Covered'
  <1>1. /\ \A g \in Hashes : melt'[g].note = melt[g].note
        /\ \A g \in Hashes : melt'[g].outcome # "absent" <=> melt[g].outcome # "absent"
        /\ \A g \in Hashes : \/ melt'[g] = melt[g]
                             \/ /\ pass[p].pc = "asking" /\ g = pass[p].at
                                /\ \A r \in Requests : req[r].hash = g => req[r].pc \notin LivePcs
        /\ \A g \in Hashes : melt[g].outcome \in {"open", "paid"} =>
             melt'[g].outcome \in {"open", "paid"} \/ ~Ours(g)
    <2>1. CASE UNCHANGED melt
      BY <2>1
    <2>2. CASE pass[p].pc = "asking" /\ FinalizeMelt(pass[p].at)
      BY <2>2, ResolveEffect DEF Covered, PassRows, Handed, TypeOK
    <2>3. CASE pass[p].pc = "asking" /\ RestoreMelt(pass[p].at) /\ ~Ours(pass[p].at)
      BY <2>3, ResolveEffect DEF Covered, PassRows, Handed, TypeOK
    <2> QED
      BY <2>1, <2>2, <2>3
  <1>2. /\ next.pc = "asking" => next.at \in todo /\ next.todo \subseteq todo
        /\ next.pc = "asking" => next.at \notin inFlight /\ next.at \notin next.todo
        /\ next.answer = "none"
    BY NextRowTypes DEF Skips, Discipline
  <1>3. pass'[p] = next /\ \A q \in Passes \ {p} : pass'[q] = pass[q]
    BY DEF Covered, TypeOK
  <1>4. \A h \in Hashes : h \notin inFlight => \A r \in Requests : req[r].hash = h => req[r].pc \notin LivePcs
    BY DEF Covered, LiveRows
  <1>12. ASSUME ~Reuse, NEW h \in Hashes, h \notin inFlight, melt[h].outcome # "absent",
               NEW r \in Requests, req[r].hash = h
        PROVE  req[r].pc = "done"
    <2>1. PICK q \in Requests : Reserved(q) /\ req[q].hash = h
      BY <1>12 DEF Covered, RowsHaveMakers
    <2>2. q = r
      BY <1>12, <2>1, NullAssumption DEF Covered, OneRequestPerHash
    <2> QED
      BY <1>4, <1>12, <2>1, <2>2 DEF Reserved
  <1>5. OneRequestPerHash'
    BY DEF Covered, OneRequestPerHash
  <1>6. RowsHaveMakers'
    BY <1>1 DEF Covered, RowsHaveMakers, Reserved
  <1>7. LiveRows'
    BY <1>1 DEF Covered, LiveRows, TypeOK, Ours
  <1>8. PassRows'
    <2> SUFFICES ASSUME NEW q \in Passes, pass'[q].pc = "asking" PROVE Handed(q)'
      BY DEF PassRows
    <2>1. CASE q = p
      <3>1. /\ next.at \in Hashes \ inFlight /\ next.todo \subseteq todo /\ next.at \notin next.todo
            /\ pass'[q].at = next.at /\ pass'[q].todo = next.todo /\ next.at \in todo
        BY <1>2, <1>3, <2>1 DEF Covered, TypeOK
      <3>2. melt'[next.at].outcome # "absent" /\ \A h \in next.todo : melt'[h].outcome # "absent"
        BY <1>1, <3>1
      <3>3. \A r \in Requests : req[r].hash = next.at =>
              req[r].pc \notin LivePcs /\ (~Reuse => req[r].pc = "done")
        BY <1>4, <1>12, <3>1
      <3> QED
        BY <3>1, <3>2, <3>3 DEF Handed
    <2>2. CASE q # p
      <3>1. ~Reuse /\ pass'[q] = pass[q] /\ pass[q].at \in Hashes /\ pass[q].todo \subseteq Hashes /\ Handed(q)
        BY <1>3, <2>2 DEF Discipline, Passes, Covered, TypeOK, PassStates, PassRows
      <3> QED
        BY <1>1, <3>1 DEF Handed
    <2> QED
      BY <2>1, <2>2
  <1>9. WireIsLive' /\ PaymentsHaveMakers'
    BY DEF Covered, WireIsLive, PaymentsHaveMakers, Reserved
  <1>10. RefusalsAreTrue'
    BY <1>2, <1>3 DEF Covered, RefusalsAreTrue, Ours
  <1>11. NoUncoveredPayment'
    BY <1>1 DEF Covered, NoUncoveredPayment, Ours
  <1> QED
    BY <1>5, <1>6, <1>7, <1>8, <1>9, <1>10, <1>11 DEF Covered

LEMMA CoveredStep == Discipline /\ Covered /\ [Next]_vars => Covered'
  <1> SUFFICES ASSUME Discipline, Covered, [Next]_vars PROVE Covered'
    OBVIOUS
  <1>0. TypeOK /\ TypeOK'
    BY TypeStep DEF Covered
  <1>1. ASSUME NEW r \in Requests, NEW n \in Notes, NEW h \in Hashes, Open(r, n, h)
        PROVE  Covered'
    <2>1. /\ req[r].pc = "idle" /\ (~Reuse => \A q \in Requests : req[q].hash # h)
          /\ req'[r].pc = "opened" /\ req'[r].hash = h /\ req'[r].answer = req[r].answer
          /\ \A q \in Requests \ {r} : req'[q] = req[q]
          /\ UNCHANGED <<note, melt, inFlight, pass, wire, node>>
      BY <1>0, <1>1 DEF Open, Fresh, TypeOK, RequestStates
    <2>2. OneRequestPerHash'
      BY <2>1 DEF Covered, OneRequestPerHash, LivePcs
    <2>3. RowsHaveMakers' /\ PaymentsHaveMakers'
      BY <2>1 DEF Covered, RowsHaveMakers, PaymentsHaveMakers, Reserved, LivePcs
    <2>4. LiveRows' /\ WireIsLive' /\ RefusalsAreTrue'
      BY <2>1 DEF Covered, LiveRows, WireIsLive, RefusalsAreTrue, LivePcs, Ours, TypeOK
    <2>5. PassRows'
      <3>1. ~Reuse => \A p \in Passes : pass[p].pc = "asking" => pass[p].at # h
        BY <1>0, <2>1 DEF Covered, PassRows, Handed, RowsHaveMakers, TypeOK
      <3> QED
        BY <2>1, <3>1, PassRowsStay DEF LivePcs
    <2>6. NoUncoveredPayment'
      BY <2>1 DEF Covered, NoUncoveredPayment, PaymentsHaveMakers, Reserved, LivePcs
    <2> QED
      BY <1>0, <2>2, <2>3, <2>4, <2>5, <2>6 DEF Covered
  <1>2. ASSUME NEW r \in Requests, CheckInvoice(r) \/ RefuseAfterPrecheck(r) PROVE Covered'
    <2>1. /\ req[r].pc \in {"opened", "precheck"} /\ req'[r].pc \in {"done", "precheck"}
          /\ req'[r].hash = req[r].hash /\ req'[r].note = req[r].note
          /\ \A q \in Requests \ {r} : req'[q] = req[q]
          /\ UNCHANGED <<note, melt, inFlight, pass, wire, node>>
      BY <1>0, <1>2 DEF CheckInvoice, RefuseAfterPrecheck, TypeOK, RequestStates
    <2>2. \A q \in Requests : req'[q].hash = req[q].hash /\ req'[q].note = req[q].note
      BY <2>1
    <2>3. OneRequestPerHash'
      BY <2>1, <2>2 DEF Covered, OneRequestPerHash, LivePcs
    <2>4. RowsHaveMakers' /\ PaymentsHaveMakers' /\ NoUncoveredPayment'
      BY <2>1, <2>2 DEF Covered, RowsHaveMakers, PaymentsHaveMakers, NoUncoveredPayment,
                        Reserved, LivePcs
    <2>5. LiveRows' /\ WireIsLive' /\ RefusalsAreTrue'
      BY <1>0, <2>1, <2>2 DEF Covered, LiveRows, WireIsLive, RefusalsAreTrue, LivePcs, Ours, TypeOK
    <2>6. PassRows'
      BY <2>1, <2>2, PassRowsStay DEF LivePcs
    <2> QED
      BY <1>0, <2>3, <2>4, <2>5, <2>6 DEF Covered
  <1>3. ASSUME NEW r \in Requests, Reserve(r) PROVE Covered'
    <2> DEFINE h == req[r].hash
    <2>1. /\ req[r].pc = "precheck" /\ h \in Hashes /\ req'[r].pc = "sending"
          /\ req'[r].answer = "none"
          /\ req'[r].hash = h /\ req'[r].note = req[r].note
          /\ \A q \in Requests \ {r} : req'[q] = req[q]
          /\ melt'[h] = [note |-> req[r].note, outcome |-> "open"]
          /\ \A g \in Hashes \ {h} : melt'[g] = melt[g]
          /\ inFlight' = inFlight \union {h} /\ wire' = wire \union {r}
          /\ UNCHANGED <<pass, node>>
      BY <1>0, <1>3 DEF Reserve, MarkPending, TypeOK, RequestStates
    <2>2. /\ melt[h].outcome \in {"absent", "restored"} /\ ~Ours(h)
          /\ \A q \in Requests : /\ req'[q].hash = req[q].hash /\ req'[q].note = req[q].note
                                 /\ req[q].pc \in LivePcs => req[q].hash # h
      <3>1. melt[h].outcome \in {"absent", "restored"}
        BY <1>3 DEF Reserve, CanReserve
      <3>2. ~Ours(h)
        BY <2>1, <3>1 DEF Covered, NoUncoveredPayment, Ours
      <3>3. \A q \in Requests : req[q].pc \in LivePcs => req[q].hash # h
        <4>1. \A q \in Requests : req[q].pc \in LivePcs => melt[req[q].hash].outcome = "open"
          <5> SUFFICES ASSUME NEW q \in Requests, req[q].pc \in LivePcs
                       PROVE  melt[req[q].hash].outcome = "open"
            OBVIOUS
          <5>1. melt[req[q].hash] = [note |-> req[q].note, outcome |-> "open"]
            BY DEF Covered, LiveRows
          <5> QED
            BY <5>1
        <4> QED
          BY <3>1, <4>1
      <3>4. \A q \in Requests : req'[q].hash = req[q].hash /\ req'[q].note = req[q].note
        BY <2>1
      <3> QED
        BY <3>1, <3>2, <3>3, <3>4
    <2>3. OneRequestPerHash'
      BY <2>1, <2>2 DEF Covered, OneRequestPerHash, LivePcs
    <2>4. RowsHaveMakers' /\ PaymentsHaveMakers'
      BY <2>1, <2>2 DEF Covered, RowsHaveMakers, PaymentsHaveMakers, Reserved, LivePcs
    <2>5. LiveRows' /\ PassRows'
      <3>1. LiveRows'
        BY <1>0, <2>1, <2>2 DEF Covered, LiveRows, LivePcs, TypeOK, Ours
      <3>2. \A p \in Passes : pass[p].pc = "asking" => pass[p].at \in Hashes \ {h}
        BY <1>0, <2>1, <2>2 DEF Covered, PassRows, Handed, TypeOK
      <3>3. PassRows'
        BY <1>0, <2>1, <2>2, <3>2, PassRowsStay DEF Covered, TypeOK
      <3> QED
        BY <3>1, <3>3
    <2>6. node[h].by # r
      BY <2>1 DEF Covered, PaymentsHaveMakers, Reserved, LivePcs
    <2>7. WireIsLive' /\ RefusalsAreTrue'
      BY <1>0, <2>1, <2>2, <2>6 DEF Covered, WireIsLive, RefusalsAreTrue, Ours, TypeOK
    <2>8. NoUncoveredPayment'
      BY <2>1, <2>2 DEF Covered, NoUncoveredPayment, Ours
    <2> QED
      BY <1>0, <2>3, <2>4, <2>5, <2>7, <2>8 DEF Covered
  <1>4. ASSUME NEW r \in Requests, PayOk(r) PROVE Covered'
    <2>1. r \notin wire
      BY <1>4 DEF PayOk, Covered, WireIsLive
    <2> QED
      BY <1>0, <1>4, <2>1, AttemptEnds DEF PayOk, LivePcs
  <1>5. ASSUME NEW r \in Requests, PayAlreadyKnown(r) PROVE Covered'
    <2>1. r \notin wire /\ ~Ours(req[r].hash)
      BY <1>5 DEF PayAlreadyKnown, Covered, WireIsLive, RefusalsAreTrue
    <2> QED
      BY <1>0, <1>5, <2>1, AttemptEnds DEF PayAlreadyKnown, LivePcs
  <1>6. ASSUME NEW r \in Requests, SettleThrows(r) PROVE Covered'
    <2>1. r \notin wire
      BY <1>6 DEF SettleThrows, Covered, WireIsLive
    <2> QED
      BY <1>0, <1>6, <2>1, AttemptEnds DEF SettleThrows, LivePcs
  <1>7. ASSUME NEW r \in Requests, ConfirmPaid(r) \/ ConfirmNotPaid(r) \/ LeavePending(r)
        PROVE  Covered'
    <2>1. req[r].pc = "confirm" /\ r \notin wire /\ Finish(r) /\ UNCHANGED <<pass, wire, node>>
      BY <1>7 DEF ConfirmPaid, ConfirmNotPaid, LeavePending, Covered, WireIsLive
    <2>2. ConfirmNotPaid(r) => RestoreMelt(req[r].hash) /\ ~Ours(req[r].hash)
      BY DEF ConfirmNotPaid, Covered, RefusalsAreTrue
    <2> QED
      BY <1>0, <1>7, <2>1, <2>2, AttemptEnds DEF ConfirmPaid, LeavePending, LivePcs
  <1>8. ASSUME NEW r \in Requests, PayUnclear(r) \/ ConfirmAgain(r) PROVE Covered'
    <2>1. /\ req[r].pc \in LivePcs /\ req'[r].pc = "confirm" /\ req'[r].answer = "none"
          /\ req'[r].hash = req[r].hash /\ req'[r].note = req[r].note
          /\ \A q \in Requests \ {r} : req'[q] = req[q]
          /\ wire' = wire \ {r}
          /\ UNCHANGED <<note, melt, inFlight, pass, node>>
      BY <1>0, <1>8 DEF PayUnclear, ConfirmAgain, TypeOK, RequestStates, LivePcs,
                        Discipline, Covered, WireIsLive
    <2>2. \A q \in Requests : req'[q].hash = req[q].hash /\ req'[q].note = req[q].note
      BY <2>1
    <2>3. OneRequestPerHash'
      BY <2>1, <2>2 DEF Covered, OneRequestPerHash, LivePcs
    <2>4. RowsHaveMakers' /\ PaymentsHaveMakers' /\ NoUncoveredPayment'
      BY <2>1, <2>2 DEF Covered, RowsHaveMakers, PaymentsHaveMakers, NoUncoveredPayment,
                        Reserved, LivePcs
    <2>5. LiveRows' /\ WireIsLive' /\ RefusalsAreTrue'
      BY <1>0, <2>1, <2>2 DEF Covered, LiveRows, WireIsLive, RefusalsAreTrue, LivePcs, Ours, TypeOK
    <2>6. PassRows'
      BY <2>1, <2>2, PassRowsStay DEF LivePcs
    <2> QED
      BY <1>0, <2>3, <2>4, <2>5, <2>6 DEF Covered
  <1>9. ASSUME NEW p \in Passes, PassStart(p) PROVE Covered'
    <2>1. PICK next \in NextRow(p, OpenRows) : pass' = [pass EXCEPT ![p] = next]
      BY <1>9 DEF PassStart
    <2>2. UNCHANGED <<melt, inFlight, req, wire, node>>
      BY <1>9 DEF PassStart
    <2>3. OpenRows \in SUBSET Hashes /\ \A h \in OpenRows : melt[h].outcome = "open" /\ melt'[h].outcome = "open"
      BY <2>2 DEF OpenRows
    <2> QED
      BY <1>0, <2>1, <2>2, <2>3, PassMovesOn
  <1>10. ASSUME NEW p \in Passes, PassApplies(p) \/ PassLeaves(p) PROVE Covered'
    <2>1. /\ pass[p].pc = "asking" /\ pass[p].todo \in SUBSET Hashes
          /\ pass[p].at \in Hashes /\ Handed(p)
          /\ pass[p].answer = "no" => ~Ours(pass[p].at)
      BY <1>0, <1>10 DEF PassApplies, PassLeaves, Covered, PassRows, RefusalsAreTrue,
                         TypeOK, PassStates
    <2>2. /\ \A h \in pass[p].todo : melt[h].outcome # "absent"
          /\ Reuse => pass[p].todo = {}
      <3>1. p \in ServerPasses
        BY DEF Discipline, Passes
      <3> QED
        BY <2>1, <3>1 DEF Handed, Discipline
    <2> QED
      BY <1>0, <1>10, <2>1, <2>2, PassMovesOn DEF PassApplies, PassLeaves
  <1>11. ASSUME NEW r \in Requests, NodeTakesSend(r) PROVE Covered'
    <2> DEFINE h == req[r].hash
    <2>1. /\ h \in Hashes /\ req[r].pc = "sending" /\ req[r].answer = "none"
          /\ node[h].by # r /\ wire' = wire \ {r}
          /\ UNCHANGED <<note, melt, inFlight, pass>>
          /\ \A q \in Requests : q # r /\ req[q].pc \in LivePcs => req[q].hash # h
          /\ melt[h] = [note |-> req[r].note, outcome |-> "open"]
          /\ Ours(h) => node[h].by = r
      BY <1>0, <1>11, NullAssumption
      DEF NodeTakesSend, Covered, WireIsLive, OneRequestPerHash, LiveRows, LivePcs, TypeOK
    <2>2. CASE Sendable(h)
      <3>1. /\ UNCHANGED req
            /\ node'[h] = [status |-> "inflight", by |-> r]
            /\ \A g \in Hashes \ {h} : node'[g] = node[g]
        BY <1>0, <1>11, <2>1, <2>2 DEF NodeTakesSend, TypeOK
      <3>2. OneRequestPerHash' /\ RowsHaveMakers'
        BY <2>1, <3>1 DEF Covered, OneRequestPerHash, RowsHaveMakers, Reserved
      <3>6. LiveRows' /\ PassRows'
        BY <1>0, <2>1, <3>1, PassRowsStay DEF Covered, LiveRows, LivePcs, Ours, TypeOK
      <3>3. WireIsLive' /\ PaymentsHaveMakers'
        BY <1>0, <2>1, <3>1 DEF Covered, WireIsLive, PaymentsHaveMakers, Reserved, LivePcs, TypeOK
      <3>4. RefusalsAreTrue'
        <4>1. \A p \in Passes : pass[p].pc = "asking" => pass[p].at \in Hashes \ {h}
          BY <1>0, <2>1 DEF Covered, PassRows, Handed, LivePcs, TypeOK
        <4> QED
          BY <1>0, <2>1, <3>1, <4>1 DEF Covered, RefusalsAreTrue, Ours, LivePcs, TypeOK
      <3>5. NoUncoveredPayment'
        BY <2>1, <3>1 DEF Covered, NoUncoveredPayment
      <3> QED
        BY <1>0, <3>2, <3>3, <3>4, <3>5, <3>6 DEF Covered
    <2>3. CASE ~Sendable(h)
      <3>1. /\ UNCHANGED node
            /\ req'[r].answer = "known" /\ req'[r].pc = "sending"
            /\ req'[r].hash = h /\ req'[r].note = req[r].note
            /\ \A q \in Requests \ {r} : req'[q] = req[q]
        BY <1>0, <1>11, <2>1, <2>3 DEF NodeTakesSend, TypeOK, RequestStates
      <3>2. \A q \in Requests : /\ req'[q].hash = req[q].hash /\ req'[q].note = req[q].note
                                /\ req'[q].pc = req[q].pc
        BY <2>1, <3>1
      <3>3. OneRequestPerHash' /\ RowsHaveMakers' /\ LiveRows' /\ PassRows'
        BY <1>0, <2>1, <3>1, <3>2, PassRowsStay
        DEF Covered, OneRequestPerHash, RowsHaveMakers, LiveRows, Reserved, Ours, TypeOK
      <3>4. WireIsLive' /\ PaymentsHaveMakers' /\ NoUncoveredPayment'
        BY <1>0, <2>1, <3>1, <3>2 DEF Covered, WireIsLive, PaymentsHaveMakers,
                                      NoUncoveredPayment, Reserved, TypeOK
      <3>5. ~Ours(h)
        BY <2>1
      <3>6. RefusalsAreTrue'
        BY <1>0, <2>1, <3>1, <3>2, <3>5 DEF Covered, RefusalsAreTrue, Ours, TypeOK
      <3> QED
        BY <1>0, <3>3, <3>4, <3>6 DEF Covered
    <2> QED
      BY <2>2, <2>3
  <1>12. ASSUME NEW h \in Hashes, NodeSettles(h) \/ OthersPay(h) PROVE Covered'
    <2>1. /\ UNCHANGED <<note, melt, inFlight, req, pass, wire>>
          /\ \A g \in Hashes \ {h} : node'[g] = node[g]
          /\ node'[h].by = node[h].by \/ node'[h].by = Others
          /\ Ours(h)' => Ours(h)
      BY <1>0, <1>12, NullAssumption DEF NodeSettles, OthersPay, Ours, TypeOK, Payments
    <2>2. \A g \in Hashes : /\ Ours(g)' => Ours(g)
                            /\ node'[g].by \in Requests => node'[g].by = node[g].by
      BY <2>1, NullAssumption DEF Ours
    <2>3. OneRequestPerHash' /\ RowsHaveMakers' /\ LiveRows' /\ PassRows'
      BY <1>0, <2>1, <2>2, PassRowsStay
      DEF Covered, OneRequestPerHash, RowsHaveMakers, LiveRows, Reserved, Ours, TypeOK
    <2>4. WireIsLive' /\ PaymentsHaveMakers' /\ NoUncoveredPayment'
      BY <1>0, <2>1, <2>2 DEF Covered, WireIsLive, PaymentsHaveMakers, NoUncoveredPayment,
                              Reserved, Ours, TypeOK
    <2>5. RefusalsAreTrue'
      BY <1>0, <2>1, <2>2 DEF Covered, RefusalsAreTrue, LivePcs, TypeOK
    <2> QED
      BY <1>0, <2>3, <2>4, <2>5 DEF Covered
  <1>13. ASSUME NEW r \in Requests, NodeAnswersRequest(r) PROVE Covered'
    <2>1. PICK a \in NodeAnswers(req[r].hash) : req' = [req EXCEPT ![r].answer = a]
      BY <1>13 DEF NodeAnswersRequest
    <2>2. /\ req[r].pc \in {"precheck", "confirm"}
          /\ req'[r].answer = a
          /\ \A q \in Requests \ {r} : req'[q] = req[q]
          /\ \A q \in Requests : /\ req'[q].hash = req[q].hash /\ req'[q].note = req[q].note
                                 /\ req'[q].pc = req[q].pc
          /\ UNCHANGED <<note, melt, inFlight, pass, wire, node>>
      BY <1>0, <1>13, <2>1 DEF NodeAnswersRequest, TypeOK, RequestStates
    <2>3. a = "no" => ~Ours(req[r].hash)
      BY <1>0, <2>1, <2>2 DEF NodeAnswers, Ours, TypeOK, Payments
    <2>4. OneRequestPerHash' /\ RowsHaveMakers' /\ LiveRows' /\ PassRows'
      BY <1>0, <2>2, PassRowsStay
      DEF Covered, OneRequestPerHash, RowsHaveMakers, LiveRows, Reserved, Ours, TypeOK
    <2>5. WireIsLive' /\ PaymentsHaveMakers' /\ NoUncoveredPayment'
      BY <1>0, <2>2 DEF Covered, WireIsLive, PaymentsHaveMakers, NoUncoveredPayment, Reserved,
                        TypeOK
    <2>6. RefusalsAreTrue'
      BY <1>0, <2>2, <2>3 DEF Covered, RefusalsAreTrue, Ours, TypeOK
    <2> QED
      BY <1>0, <2>4, <2>5, <2>6 DEF Covered
  <1>14. ASSUME NEW p \in Passes, NodeAnswersPass(p) PROVE Covered'
    <2>1. PICK a \in NodeAnswers(pass[p].at) : pass' = [pass EXCEPT ![p].answer = a]
      BY <1>14 DEF NodeAnswersPass
    <2>2. /\ pass[p].pc = "asking" /\ pass[p].at \in Hashes
          /\ pass'[p].answer = a
          /\ \A q \in Passes \ {p} : pass'[q] = pass[q]
          /\ \A q \in Passes : /\ pass'[q].pc = pass[q].pc /\ pass'[q].at = pass[q].at
                               /\ pass'[q].todo = pass[q].todo
          /\ UNCHANGED <<note, melt, inFlight, req, wire, node>>
      BY <1>0, <1>14, <2>1 DEF NodeAnswersPass, TypeOK, PassStates
    <2>3. a = "no" => ~Ours(pass[p].at)
      BY <1>0, <2>1, <2>2 DEF NodeAnswers, Ours, TypeOK, Payments
    <2>4. OneRequestPerHash' /\ RowsHaveMakers' /\ LiveRows' /\ PassRows'
      BY <1>0, <2>2, PassRowsStay
      DEF Covered, OneRequestPerHash, RowsHaveMakers, LiveRows, Reserved, Ours
    <2>5. WireIsLive' /\ PaymentsHaveMakers' /\ NoUncoveredPayment'
      BY <2>2 DEF Covered, WireIsLive, PaymentsHaveMakers, NoUncoveredPayment, Reserved
    <2>6. RefusalsAreTrue'
      BY <2>2, <2>3 DEF Covered, RefusalsAreTrue, Ours
    <2> QED
      BY <1>0, <2>4, <2>5, <2>6 DEF Covered
  <1>15. ASSUME NEW n \in Notes, SpendOtherwise(n) PROVE Covered'
    <2>1. UNCHANGED <<melt, inFlight, req, pass, wire, node>>
      BY <1>15 DEF SpendOtherwise
    <2> QED
      BY <1>0, <2>1, PassRowsStay
      DEF Covered, OneRequestPerHash, RowsHaveMakers, LiveRows, WireIsLive, PaymentsHaveMakers, RefusalsAreTrue, NoUncoveredPayment,
                        Reserved, Ours
  <1>16. CASE Crash
    <2>1. /\ \A q \in Requests : /\ req'[q].hash = req[q].hash /\ req'[q].note = req[q].note
                                 /\ req'[q].pc = IF req[q].pc = "idle" THEN "idle" ELSE "done"
          /\ \A q \in Passes : pass'[q] = IdlePass
          /\ wire' = {} /\ inFlight' = {}
          /\ UNCHANGED <<note, melt, node>>
      <3>1. \A q \in Requests : req[q] \in RequestStates
        BY <1>0 DEF TypeOK
      <3>2. \A q \in Requests : req'[q] = IF req[q].pc = "idle" THEN req[q]
              ELSE [req[q] EXCEPT !.pc = "done", !.tries = 0, !.answer = "none"]
        BY <1>16 DEF Crash
      <3>3. \A q \in Requests : /\ req'[q].hash = req[q].hash /\ req'[q].note = req[q].note
                                /\ req'[q].pc = IF req[q].pc = "idle" THEN "idle" ELSE "done"
        BY <3>1, <3>2 DEF RequestStates
      <3> QED
        BY <1>16, <3>3 DEF Crash, Discipline, Passes
    <2>2. OneRequestPerHash' /\ RowsHaveMakers' /\ LiveRows' /\ PassRows'
      BY <2>1 DEF Covered, OneRequestPerHash, RowsHaveMakers, LiveRows, PassRows, Reserved,
                  LivePcs, IdlePass, Handed, Ours
    <2>3. WireIsLive' /\ PaymentsHaveMakers' /\ NoUncoveredPayment' /\ RefusalsAreTrue'
      BY <2>1 DEF Covered, WireIsLive, PaymentsHaveMakers, NoUncoveredPayment, RefusalsAreTrue,
                  Reserved, LivePcs, IdlePass
    <2> QED
      BY <1>0, <2>2, <2>3 DEF Covered
  <1>17. CASE UNCHANGED vars
    BY <1>0, <1>17 DEF vars, Covered, OneRequestPerHash, RowsHaveMakers, LiveRows, PassRows,
                       Handed, WireIsLive, PaymentsHaveMakers, RefusalsAreTrue, NoUncoveredPayment,
                       Reserved, Ours
  <1> QED
    BY <1>1, <1>2, <1>3, <1>4, <1>5, <1>6, <1>7, <1>8, <1>9, <1>10, <1>11, <1>12, <1>13,
       <1>14, <1>15, <1>16, <1>17
    DEF Next, HandlerStep, PassStep, NodeStep

\* "Restore only on confirmed non-payment" (README.md:49), for any number of
\* notes, invoices, requests, overlapping passes and crashes, and for a wallet
\* that presents its one invoice again and again: a payment this mint sent
\* always has its note behind it.
THEOREM PaymentsAreCovered ==
  ASSUME Discipline
  PROVE  Spec => []NoUncoveredPayment
  <1>1. Covered /\ [Next]_vars => Covered'
    BY CoveredStep
  <1>2. Covered => NoUncoveredPayment
    BY DEF Covered
  <1> QED
    BY CoveredInit, <1>1, <1>2, PTL DEF Spec

-----------------------------------------------------------------------------
(* The two tables, in every configuration: reused invoices, an operator's  *)
(* own reconcile and late sends included.                                  *)

StoreWrite ==
  \/ UNCHANGED <<note, melt>>
  \/ \E n \in Notes, h \in Hashes : CanReserve(n, h) /\ MarkPending(n, h)
  \/ \E h \in Hashes : FinalizeMelt(h) \/ RestoreMelt(h)
  \/ \E n \in Notes : SpendOtherwise(n)

\* Every step leaves both tables alone, or is one of the store's writes.
LEMMA StepsAreStoreWrites == TypeOK /\ [Next]_vars => StoreWrite
  <1> SUFFICES ASSUME TypeOK, [Next]_vars PROVE StoreWrite
    OBVIOUS
  <1>1. ASSUME NEW r \in Requests, HandlerStep(r) PROVE StoreWrite
    <2>1. req[r].pc # "idle" => req[r].note \in Notes /\ req[r].hash \in Hashes
      BY DEF TypeOK
    <2>2. CASE CheckInvoice(r) \/ RefuseAfterPrecheck(r) \/ PayUnclear(r) \/ SettleThrows(r)
                 \/ ConfirmAgain(r) \/ LeavePending(r)
      BY <2>2 DEF CheckInvoice, RefuseAfterPrecheck, PayUnclear, SettleThrows, ConfirmAgain,
                  LeavePending, StoreWrite
    <2>3. CASE Reserve(r)
      BY <2>1, <2>3 DEF Reserve, StoreWrite
    <2>4. CASE PayOk(r) \/ PayAlreadyKnown(r) \/ ConfirmPaid(r) \/ ConfirmNotPaid(r)
      BY <2>1, <2>4 DEF PayOk, PayAlreadyKnown, ConfirmPaid, ConfirmNotPaid, StoreWrite
    <2> QED
      BY <1>1, <2>2, <2>3, <2>4 DEF HandlerStep
  <1>2. ASSUME NEW p \in Passes, PassStep(p) PROVE StoreWrite
    <2>1. pass[p].pc = "asking" => pass[p].at \in Hashes
      BY DEF TypeOK
    <2> QED
      BY <1>2, <2>1 DEF PassStep, PassStart, PassApplies, PassLeaves, StoreWrite
  <1>3. CASE NodeStep
    BY <1>3 DEF NodeStep, NodeTakesSend, NodeAnswersRequest, NodeSettles, OthersPay,
                NodeAnswersPass, StoreWrite
  <1>4. CASE \E n \in Notes : SpendOtherwise(n)
    BY <1>4 DEF StoreWrite
  <1>5. CASE \/ Crash
             \/ UNCHANGED vars
             \/ \E r \in Requests, n \in Notes, h \in Hashes : Open(r, n, h)
    BY <1>5 DEF Crash, vars, Open, StoreWrite
  <1> QED
    BY <1>1, <1>2, <1>3, <1>4, <1>5 DEF Next

\* Rows that hold or have spent a note name one; the rest is what is claimed.
Agreed ==
  /\ TypeOK
  /\ \A h \in Hashes : melt[h].outcome \in {"open", "paid"} => melt[h].note \in Notes
  /\ OneRowPerReservedNote

LEMMA AgreedStep == Agreed /\ [Next]_vars => Agreed'
  <1> SUFFICES ASSUME Agreed, [Next]_vars PROVE Agreed'
    OBVIOUS
  <1>0. TypeOK /\ TypeOK' /\ StoreWrite
    BY TypeStep, StepsAreStoreWrites DEF Agreed
  <1>1. CASE UNCHANGED <<note, melt>>
    BY <1>0, <1>1 DEF Agreed, OneRowPerReservedNote, OpenRows
  <1>2. ASSUME NEW n \in Notes, NEW h \in Hashes, CanReserve(n, h), MarkPending(n, h)
        PROVE  Agreed'
    <2>1. /\ melt'[h] = [note |-> n, outcome |-> "open"]
          /\ \A g \in Hashes \ {h} : melt'[g] = melt[g]
          /\ note[n] = "outstanding" /\ note'[n] = "pending"
          /\ \A m \in Notes \ {n} : note'[m] = note[m]
          /\ melt[h].outcome \notin {"open", "paid"}
      BY <1>0, <1>2 DEF CanReserve, MarkPending, TypeOK
    <2>2. \A g \in Hashes : melt[g].outcome \in {"open", "paid"} => melt[g].note # n
      BY <2>1 DEF Agreed, OneRowPerReservedNote, OpenRows
    <2> QED
      BY <1>0, <2>1, <2>2 DEF Agreed, OneRowPerReservedNote, OpenRows
  <1>3. ASSUME NEW h \in Hashes, FinalizeMelt(h) \/ RestoreMelt(h), melt[h].outcome = "open"
        PROVE  Agreed'
    <2> DEFINE n == melt[h].note
    <2>1. n \in Notes /\ note[n] = "pending"
      BY <1>3 DEF Agreed, OneRowPerReservedNote, OpenRows
    <2>2. /\ melt'[h].note = n
          /\ \/ melt'[h].outcome = "paid" /\ note'[n] = "burned"
             \/ melt'[h].outcome = "restored" /\ note'[n] = "outstanding"
          /\ \A g \in Hashes \ {h} : melt'[g] = melt[g]
          /\ \A m \in Notes \ {n} : note'[m] = note[m]
      BY <1>0, <1>3, <2>1 DEF FinalizeMelt, RestoreMelt, TypeOK, Rows
    <2>3. \A g \in Hashes \ {h} : melt[g].outcome \in {"open", "paid"} => melt[g].note # n
      BY <1>3 DEF Agreed, OneRowPerReservedNote
    <2> QED
      BY <1>0, <1>3, <2>1, <2>2, <2>3 DEF Agreed, OneRowPerReservedNote, OpenRows
  <1>4. ASSUME NEW n \in Notes, SpendOtherwise(n) PROVE Agreed'
    BY <1>0, <1>4 DEF SpendOtherwise, Agreed, OneRowPerReservedNote, OpenRows, TypeOK
  <1>5. ASSUME NEW h \in Hashes, FinalizeMelt(h) \/ RestoreMelt(h), melt[h].outcome # "open"
        PROVE  UNCHANGED <<note, melt>>
    BY <1>5 DEF FinalizeMelt, RestoreMelt
  <1> QED
    BY <1>0, <1>1, <1>2, <1>3, <1>4, <1>5 DEF StoreWrite

\* The notes and melts tables agree in every reachable state, whatever the
\* wallets, the operator and the node do: no note is behind two payments.
THEOREM TablesAgree == Spec => []OneRowPerReservedNote
  <1>1. Init => Agreed
    BY TypeInit DEF Init, Agreed, OneRowPerReservedNote, OpenRows, NoRow
  <1>2. Agreed => OneRowPerReservedNote
    BY DEF Agreed
  <1> QED
    BY <1>1, <1>2, AgreedStep, PTL DEF Spec

StaysSpent ==
  /\ \A n \in Notes : note[n] = "burned" => note'[n] = "burned"
  /\ \A h \in Hashes : melt[h].outcome = "paid" => melt'[h] = melt[h]

LEMMA StaysSpentStep == Agreed /\ [Next]_vars => StaysSpent
  <1> SUFFICES ASSUME Agreed, [Next]_vars PROVE StaysSpent
    OBVIOUS
  <1>0. TypeOK /\ StoreWrite
    BY StepsAreStoreWrites DEF Agreed
  <1>1. CASE UNCHANGED <<note, melt>>
    BY <1>1 DEF StaysSpent
  <1>2. ASSUME NEW n \in Notes, NEW h \in Hashes, CanReserve(n, h), MarkPending(n, h)
        PROVE  StaysSpent
    BY <1>0, <1>2 DEF CanReserve, MarkPending, TypeOK, StaysSpent
  <1>3. ASSUME NEW h \in Hashes, FinalizeMelt(h) \/ RestoreMelt(h) PROVE StaysSpent
    BY <1>0, <1>3 DEF FinalizeMelt, RestoreMelt, TypeOK, StaysSpent
  <1>4. ASSUME NEW n \in Notes, SpendOtherwise(n) PROVE StaysSpent
    BY <1>0, <1>4 DEF SpendOtherwise, TypeOK, StaysSpent
  <1> QED
    BY <1>0, <1>1, <1>2, <1>3, <1>4 DEF StoreWrite

\* A burned note and a paid row are final, in every configuration.
THEOREM SpendingIsFinal == Spec => SpentForGood
  <1>1. Init => Agreed
    BY TypeInit DEF Init, Agreed, OneRowPerReservedNote, OpenRows, NoRow
  <1>2. Agreed /\ [Next]_vars => [StaysSpent]_vars
    BY StaysSpentStep
  <1>3. Spec => [][StaysSpent]_vars
    BY <1>1, <1>2, AgreedStep, PTL DEF Spec
  <1> QED
    BY <1>3 DEF SpentForGood, StaysSpent

-----------------------------------------------------------------------------
(* A melt recorded paid was paid, in every configuration.                  *)

\* Whoever is about to finalise a row is right: the node has paid the hash.
CompletionsAreTrue ==
  /\ \A r \in Requests :
       req[r].pc = "confirm" /\ req[r].answer = "yes" => node[req[r].hash].status = "succeeded"
  /\ \A p \in Passes :
       pass[p].pc = "asking" /\ pass[p].answer = "yes" => node[pass[p].at].status = "succeeded"

Burning == TypeOK /\ CompletionsAreTrue /\ BurnedOnlyIfPaid

LEMMA BurningInit == Init => Burning
  BY TypeInit DEF Init, Burning, CompletionsAreTrue, BurnedOnlyIfPaid, NoRow, IdleRequest, IdlePass

\* A completed payment stays completed.
LEMMA CompletionIsFinal ==
  ASSUME TypeOK, [Next]_vars, NEW h \in Hashes, node[h].status = "succeeded"
  PROVE  node'[h].status = "succeeded"
  <1>1. ASSUME NEW r \in Requests, NodeTakesSend(r) PROVE node'[h].status = "succeeded"
    BY <1>1 DEF NodeTakesSend, Sendable, TypeOK, Payments
  <1>2. ASSUME NEW g \in Hashes, NodeSettles(g) \/ OthersPay(g)
        PROVE  node'[h].status = "succeeded"
    BY <1>2 DEF NodeSettles, OthersPay, Sendable, TypeOK, Payments
  <1>3. CASE UNCHANGED node
    BY <1>3
  <1> QED
    BY <1>1, <1>2, <1>3
    DEF Next, HandlerStep, PassStep, NodeStep, vars, Open, CheckInvoice, RefuseAfterPrecheck,
        Reserve, PayOk, PayAlreadyKnown, PayUnclear, SettleThrows, ConfirmPaid, ConfirmNotPaid,
        ConfirmAgain, LeavePending, PassStart, PassApplies, PassLeaves, NodeAnswersRequest,
        NodeAnswersPass, SpendOtherwise, Crash

LEMMA CompletionsStayTrue == Burning /\ [Next]_vars => CompletionsAreTrue'
  <1> SUFFICES ASSUME Burning, [Next]_vars PROVE CompletionsAreTrue'
    OBVIOUS
  <1>0. /\ TypeOK /\ TypeOK'
        /\ \A h \in Hashes : node[h].status = "succeeded" => node'[h].status = "succeeded"
    BY TypeStep, CompletionIsFinal DEF Burning
  \* Every step either forgets an answer, keeps it, or has just been given it.
  <1>1. \A r \in Requests : req'[r].pc = "confirm" /\ req'[r].answer = "yes" =>
          \/ req'[r].hash = req[r].hash /\ req[r].pc = "confirm" /\ req[r].answer = "yes"
          \/ req'[r].hash = req[r].hash /\ node[req[r].hash].status = "succeeded" /\ UNCHANGED node
    <2> SUFFICES ASSUME NEW r \in Requests, req'[r].pc = "confirm", req'[r].answer = "yes"
                 PROVE  \/ /\ req'[r].hash = req[r].hash
                           /\ req[r].pc = "confirm" /\ req[r].answer = "yes"
                        \/ /\ req'[r].hash = req[r].hash
                           /\ node[req[r].hash].status = "succeeded" /\ UNCHANGED node
      OBVIOUS
    <2>1. ASSUME NEW q \in Requests, HandlerStep(q) PROVE req'[r] = req[r]
      BY <1>0, <2>1 DEF HandlerStep, CheckInvoice, RefuseAfterPrecheck, Reserve, PayOk,
         PayAlreadyKnown, PayUnclear, SettleThrows, ConfirmPaid, ConfirmNotPaid, ConfirmAgain,
         LeavePending, Finish, TypeOK, RequestStates
    <2>2. ASSUME NEW q \in Requests, NodeTakesSend(q) PROVE req'[r] = req[r]
      BY <1>0, <2>2 DEF NodeTakesSend, TypeOK, RequestStates
    <2>3. ASSUME NEW q \in Requests, NodeAnswersRequest(q)
          PROVE  \/ req'[r] = req[r]
                 \/ /\ req'[r].hash = req[r].hash
                    /\ node[req[r].hash].status = "succeeded" /\ UNCHANGED node
      <3>1. PICK a \in NodeAnswers(req[q].hash) : req' = [req EXCEPT ![q].answer = a]
        BY <2>3 DEF NodeAnswersRequest
      <3>2. a = "yes" => node[req[q].hash].status = "succeeded"
        BY <3>1 DEF NodeAnswers
      <3> QED
        BY <1>0, <2>3, <3>1, <3>2 DEF NodeAnswersRequest, TypeOK, RequestStates
    <2>4. ASSUME NEW q \in Requests, NEW n \in Notes, NEW h \in Hashes, Open(q, n, h)
          PROVE  req'[r] = req[r]
      BY <1>0, <2>4 DEF Open, TypeOK, RequestStates
    <2>5. CASE Crash
      <3>1. req'[r] = IF req[r].pc = "idle" THEN req[r]
              ELSE [req[r] EXCEPT !.pc = "done", !.tries = 0, !.answer = "none"]
        BY <2>5 DEF Crash
      <3> QED
        BY <1>0, <3>1 DEF TypeOK, RequestStates
    <2>6. CASE UNCHANGED req
      BY <2>6
    <2> QED
      BY <2>1, <2>2, <2>3, <2>4, <2>5, <2>6
      DEF Next, NodeStep, NodeSettles, OthersPay, NodeAnswersPass, PassStep, PassStart,
          PassApplies, PassLeaves, SpendOtherwise, vars
  <1>2. \A p \in Passes : pass'[p].pc = "asking" /\ pass'[p].answer = "yes" =>
          \/ pass'[p] = pass[p]
          \/ pass'[p].at = pass[p].at /\ node[pass[p].at].status = "succeeded" /\ UNCHANGED node
    <2> SUFFICES ASSUME NEW p \in Passes, pass'[p].pc = "asking", pass'[p].answer = "yes"
                 PROVE  \/ pass'[p] = pass[p]
                        \/ /\ pass'[p].at = pass[p].at
                           /\ node[pass[p].at].status = "succeeded" /\ UNCHANGED node
      OBVIOUS
    <2>1. ASSUME NEW q \in Passes, PassStep(q) PROVE pass'[p] = pass[p]
      <3>1. PICK todo \in SUBSET Hashes : \E next \in NextRow(q, todo) :
              pass' = [pass EXCEPT ![q] = next]
        BY <1>0, <2>1 DEF PassStep, PassStart, PassApplies, PassLeaves, OpenRows, TypeOK, PassStates
      <3> QED
        BY <1>0, <3>1, NextRowTypes DEF TypeOK
    <2>2. ASSUME NEW q \in Passes, NodeAnswersPass(q)
          PROVE  \/ pass'[p] = pass[p]
                 \/ /\ pass'[p].at = pass[p].at
                    /\ node[pass[p].at].status = "succeeded" /\ UNCHANGED node
      <3>1. PICK a \in NodeAnswers(pass[q].at) : pass' = [pass EXCEPT ![q].answer = a]
        BY <2>2 DEF NodeAnswersPass
      <3>2. a = "yes" => node[pass[q].at].status = "succeeded"
        BY <3>1 DEF NodeAnswers
      <3> QED
        BY <1>0, <2>2, <3>1, <3>2 DEF NodeAnswersPass, TypeOK, PassStates
    <2>3. CASE Crash
      BY <1>0, <2>3 DEF Crash, IdlePass, TypeOK
    <2>4. CASE UNCHANGED pass
      BY <2>4
    <2> QED
      BY <2>1, <2>2, <2>3, <2>4
      DEF Next, NodeStep, NodeTakesSend, NodeAnswersRequest, NodeSettles, OthersPay, HandlerStep,
          CheckInvoice, RefuseAfterPrecheck, Reserve, PayOk, PayAlreadyKnown, PayUnclear,
          SettleThrows, ConfirmPaid, ConfirmNotPaid, ConfirmAgain, LeavePending, Open,
          SpendOtherwise, vars
  <1>3. \A r \in Requests : req[r].pc = "confirm" => req[r].hash \in Hashes
    BY <1>0 DEF TypeOK
  <1>4. \A p \in Passes : pass[p].pc = "asking" => pass[p].at \in Hashes
    BY <1>0 DEF TypeOK
  <1> QED
    BY <1>0, <1>1, <1>2, <1>3, <1>4 DEF Burning, CompletionsAreTrue

\* A step that records a melt as paid is one whose caller has seen the
\* payment complete.
LEMMA PaidRowsAreNew ==
  ASSUME Burning, [Next]_vars, NEW h \in Hashes, melt'[h].outcome = "paid"
  PROVE  melt[h].outcome = "paid" \/ node[h].status = "succeeded"
  <1>0. TypeOK
    BY DEF Burning
  <1>1. ASSUME NEW g \in Hashes, FinalizeMelt(g), node[g].status = "succeeded"
        PROVE  melt[h].outcome = "paid" \/ node[h].status = "succeeded"
    BY <1>0, <1>1 DEF FinalizeMelt, TypeOK, Rows
  <1>2. ASSUME NEW g \in Hashes, RestoreMelt(g)
        PROVE  melt[h].outcome = "paid"
    BY <1>0, <1>2 DEF RestoreMelt, TypeOK, Rows
  <1>3. ASSUME NEW r \in Requests, HandlerStep(r)
        PROVE  melt[h].outcome = "paid" \/ node[h].status = "succeeded"
    <2>1. req[r].pc # "idle" => req[r].hash \in Hashes
      BY <1>0 DEF TypeOK
    <2>2. CASE PayOk(r) \/ ConfirmPaid(r)
      BY <2>1, <2>2, <1>1 DEF PayOk, ConfirmPaid, Burning, CompletionsAreTrue
    <2>3. CASE PayAlreadyKnown(r) \/ ConfirmNotPaid(r)
      BY <2>1, <2>3, <1>2 DEF PayAlreadyKnown, ConfirmNotPaid
    <2>4. CASE Reserve(r)
      BY <1>0, <2>4 DEF Reserve, MarkPending, TypeOK
    <2>5. CASE UNCHANGED melt
      BY <2>5
    <2> QED
      BY <1>3, <2>2, <2>3, <2>4, <2>5
      DEF HandlerStep, CheckInvoice, RefuseAfterPrecheck, PayUnclear, SettleThrows, ConfirmAgain,
          LeavePending
  <1>4. ASSUME NEW p \in Passes, PassStep(p)
        PROVE  melt[h].outcome = "paid" \/ node[h].status = "succeeded"
    <2>1. pass[p].pc = "asking" => pass[p].at \in Hashes
      BY <1>0 DEF TypeOK
    <2> QED
      BY <1>1, <1>2, <1>4, <2>1
      DEF PassStep, PassStart, PassApplies, PassLeaves, Burning, CompletionsAreTrue
  <1>5. CASE UNCHANGED melt
    BY <1>5
  <1> QED
    BY <1>3, <1>4, <1>5
    DEF Next, NodeStep, NodeTakesSend, NodeAnswersRequest, NodeSettles, OthersPay,
        NodeAnswersPass, Open, SpendOtherwise, Crash, vars

LEMMA BurningStep == Burning /\ [Next]_vars => Burning'
  <1> SUFFICES ASSUME Burning, [Next]_vars PROVE Burning'
    OBVIOUS
  <1>1. BurnedOnlyIfPaid'
    BY PaidRowsAreNew, CompletionIsFinal DEF Burning, BurnedOnlyIfPaid
  <1> QED
    BY <1>1, TypeStep, CompletionsStayTrue DEF Burning

\* "The note burns only once the payment POSITIVELY completed" (melt.ts:16),
\* for every value of the constants.
THEOREM BurningIsEarned == Spec => []BurnedOnlyIfPaid
  <1>1. Burning => BurnedOnlyIfPaid
    BY DEF Burning
  <1> QED
    BY BurningInit, BurningStep, <1>1, PTL DEF Spec

-----------------------------------------------------------------------------
(* A melt that is live is resolved by its own attempt.                     *)

\* A hash is in flight only while the request that reserved it is at work.
\* (LiveRows says the converse.)
InFlightIsLive ==
  \A h \in inFlight : \E r \in Requests : req[r].pc \in LivePcs /\ req[r].hash = h

Attended == Covered /\ InFlightIsLive

\* Whoever leaves its request alive leaves its hash in flight.
LEMMA StillInFlight ==
  ASSUME InFlightIsLive, inFlight' \subseteq inFlight,
         \A r \in Requests : req[r].pc \in LivePcs /\ req[r].hash \in inFlight' =>
           req'[r].pc \in LivePcs /\ req'[r].hash = req[r].hash
  PROVE  InFlightIsLive'
  BY DEF InFlightIsLive

LEMMA AttendedStep == Discipline /\ Attended /\ [Next]_vars => Attended'
  <1> SUFFICES ASSUME Discipline, Attended, [Next]_vars PROVE Attended'
    OBVIOUS
  <1>0. TypeOK /\ Covered' /\ InFlightIsLive
    BY CoveredStep DEF Attended, Covered
  <1>1. ASSUME NEW r \in Requests, NEW n \in Notes, NEW h \in Hashes, Open(r, n, h)
        PROVE  InFlightIsLive'
    BY <1>0, <1>1, StillInFlight DEF Open, LivePcs, TypeOK
  <1>2. ASSUME NEW r \in Requests, CheckInvoice(r) \/ RefuseAfterPrecheck(r) PROVE InFlightIsLive'
    BY <1>0, <1>2, StillInFlight DEF CheckInvoice, RefuseAfterPrecheck, LivePcs, TypeOK
  <1>3. ASSUME NEW r \in Requests, Reserve(r) PROVE InFlightIsLive'
    <2>1. /\ req'[r].pc = "sending" /\ req'[r].hash = req[r].hash
          /\ \A q \in Requests \ {r} : req'[q] = req[q]
          /\ inFlight' = inFlight \union {req[r].hash} /\ req[r].pc \notin LivePcs
      BY <1>0, <1>3 DEF Reserve, TypeOK, RequestStates, LivePcs
    <2> QED
      BY <1>0, <2>1 DEF InFlightIsLive, LivePcs
  <1>4. ASSUME NEW r \in Requests, Finish(r) PROVE InFlightIsLive'
    <2>1. /\ \A q \in Requests \ {r} : req'[q] = req[q]
          /\ inFlight' = inFlight \ {req[r].hash}
      BY <1>0, <1>4 DEF Finish, TypeOK
    <2> QED
      BY <1>0, <2>1, StillInFlight
  <1>5. ASSUME NEW r \in Requests, PayUnclear(r) \/ ConfirmAgain(r) PROVE InFlightIsLive'
    <2>1. /\ req'[r].pc = "confirm" /\ req'[r].hash = req[r].hash
          /\ \A q \in Requests \ {r} : req'[q] = req[q]
          /\ UNCHANGED inFlight
      BY <1>0, <1>5 DEF PayUnclear, ConfirmAgain, TypeOK, RequestStates
    <2> QED
      BY <1>0, <2>1, StillInFlight DEF LivePcs
  <1>6. ASSUME NEW r \in Requests, NodeTakesSend(r) \/ NodeAnswersRequest(r)
        PROVE  InFlightIsLive'
    <2>1. /\ \A q \in Requests : req'[q].pc = req[q].pc /\ req'[q].hash = req[q].hash
          /\ UNCHANGED inFlight
      BY <1>0, <1>6 DEF NodeTakesSend, NodeAnswersRequest, TypeOK, RequestStates
    <2> QED
      BY <1>0, <2>1, StillInFlight
  <1>7. ASSUME Crash PROVE InFlightIsLive'
    BY <1>7 DEF Crash, InFlightIsLive
  <1>8. ASSUME UNCHANGED <<inFlight, req>> PROVE InFlightIsLive'
    BY <1>0, <1>8 DEF InFlightIsLive
  <1>9. InFlightIsLive'
    BY <1>1, <1>2, <1>3, <1>4, <1>5, <1>6, <1>7, <1>8
    DEF Next, HandlerStep, PassStep, NodeStep, vars, PayOk, PayAlreadyKnown, SettleThrows,
        ConfirmPaid, ConfirmNotPaid, LeavePending, PassStart, PassApplies, PassLeaves,
        NodeSettles, OthersPay, NodeAnswersPass, SpendOtherwise
  <1> QED
    BY <1>0, <1>9 DEF Attended

\* What LiveMeltsBelongToTheirAttempt says of a step.
Attends ==
  \A h \in inFlight :
    melt[h].outcome = "open" /\ melt'[h].outcome # "open" => h \notin inFlight'

LEMMA AttendsStep == Attended /\ [Next]_vars => Attends
  <1> SUFFICES ASSUME Attended, [Next]_vars PROVE Attends
    OBVIOUS
  <1>0. TypeOK /\ InFlightIsLive /\ PassRows
    BY DEF Attended, Covered
  <1>1. ASSUME NEW r \in Requests, Finish(r),
               \/ UNCHANGED melt
               \/ FinalizeMelt(req[r].hash) \/ RestoreMelt(req[r].hash),
               req[r].pc # "idle"
        PROVE  Attends
    <2>1. req[r].hash \in Hashes /\ inFlight' = inFlight \ {req[r].hash} /\ inFlight \subseteq Hashes
      BY <1>0, <1>1 DEF Finish, TypeOK
    <2> QED
      BY <1>0, <1>1, <2>1, ResolveEffect DEF Attends
  <1>2. ASSUME NEW r \in Requests, Reserve(r) PROVE Attends
    BY <1>0, <1>2 DEF Reserve, MarkPending, Attends, TypeOK
  <1>3. ASSUME NEW p \in Passes, PassApplies(p) PROVE Attends
    <2>1. pass[p].at \in Hashes /\ inFlight \subseteq Hashes /\ pass[p].at \notin inFlight
      BY <1>0, <1>3 DEF PassApplies, PassRows, Handed, InFlightIsLive, LivePcs, TypeOK
    <2>2. FinalizeMelt(pass[p].at) \/ RestoreMelt(pass[p].at)
      BY <1>3 DEF PassApplies
    <2> QED
      BY <1>0, <2>1, <2>2, ResolveEffect DEF Attends
  <1>4. CASE UNCHANGED melt
    BY <1>4 DEF Attends
  <1>5. ASSUME NEW r \in Requests,
               PayOk(r) \/ PayAlreadyKnown(r) \/ SettleThrows(r) \/ ConfirmPaid(r) \/ ConfirmNotPaid(r)
                 \/ LeavePending(r)
        PROVE  Attends
    BY <1>1, <1>5 DEF PayOk, PayAlreadyKnown, SettleThrows, ConfirmPaid, ConfirmNotPaid, LeavePending
  <1> QED
    BY <1>2, <1>3, <1>4, <1>5
    DEF Next, HandlerStep, PassStep, NodeStep, vars, CheckInvoice, RefuseAfterPrecheck, PayUnclear,
        ConfirmAgain, PassStart, PassLeaves, NodeTakesSend, NodeAnswersRequest, NodeSettles,
        OthersPay, NodeAnswersPass, Open, SpendOtherwise, Crash

\* "Their runMelt owns them" (melt.ts, the skip test of the reconcile pass):
\* for any number of passes and attempts, a row whose hash is in flight is
\* resolved only by the step that ends its attempt.
THEOREM LiveMeltsAreTheirs ==
  ASSUME Discipline
  PROVE  Spec => LiveMeltsBelongToTheirAttempt
  <1>1. Init => Attended
    BY CoveredInit DEF Attended, InFlightIsLive, Init
  <1>2. Attended /\ [Next]_vars => Attended'
    BY AttendedStep
  <1>3. Attended /\ [Next]_vars => [Attends]_vars
    BY AttendsStep
  <1>4. Spec => [][Attends]_vars
    BY <1>1, <1>2, <1>3, PTL DEF Spec
  <1> QED
    BY <1>4 DEF LiveMeltsBelongToTheirAttempt, Attends

-----------------------------------------------------------------------------
(* The promise: the melt machinery implements NotePromise.                 *)

\* On a node of the mint's own, every payment was asked for by this mint.
PaymentsAreOurs == \A h \in Hashes : node[h].status # "unknown" => node[h].by \in Requests

Kept == Covered /\ Agreed /\ Burning /\ PaymentsAreOurs

LEMMA KeptInit == Init => Kept
  <1> SUFFICES ASSUME Init PROVE Kept
    OBVIOUS
  <1>1. Agreed
    BY TypeInit DEF Init, Agreed, OneRowPerReservedNote, OpenRows, NoRow
  <1>2. PaymentsAreOurs
    BY DEF Init, PaymentsAreOurs
  <1> QED
    BY <1>1, <1>2, CoveredInit, BurningInit DEF Kept

LEMMA KeptStep == Discipline /\ ~SharedNode /\ Kept /\ [Next]_vars => Kept'
  <1> SUFFICES ASSUME Discipline, ~SharedNode, Kept, [Next]_vars PROVE Kept'
    OBVIOUS
  <1>1. Covered' /\ Agreed' /\ Burning'
    BY CoveredStep, AgreedStep, BurningStep DEF Kept
  <1>2. TypeOK
    BY DEF Kept, Agreed
  <1>3. ASSUME UNCHANGED node PROVE PaymentsAreOurs'
    BY <1>3 DEF Kept, PaymentsAreOurs
  <1>4. ASSUME NEW r \in Requests, NodeTakesSend(r) PROVE PaymentsAreOurs'
    BY <1>2, <1>4 DEF NodeTakesSend, TypeOK, Kept, PaymentsAreOurs
  <1>5. ASSUME NEW h \in Hashes, NodeSettles(h) PROVE PaymentsAreOurs'
    BY <1>2, <1>5 DEF NodeSettles, TypeOK, Payments, Kept, PaymentsAreOurs
  <1>6. PaymentsAreOurs'
    BY <1>3, <1>4, <1>5
    DEF Next, HandlerStep, PassStep, NodeStep, vars, Open, CheckInvoice, RefuseAfterPrecheck,
        Reserve, PayOk, PayAlreadyKnown, PayUnclear, SettleThrows, ConfirmPaid, ConfirmNotPaid,
        ConfirmAgain, LeavePending, PassStart, PassApplies, PassLeaves, NodeAnswersRequest,
        NodeAnswersPass, SpendOtherwise, Crash, OthersPay, Kept, PaymentsAreOurs
  <1> QED
    BY <1>1, <1>6 DEF Kept

\* A note whose value a payment has taken is spendable by nobody.
LEMMA PaidOutIsSpent ==
  ASSUME Kept, NEW n \in Notes, PaidOut(n)
  PROVE  note[n] \in {"pending", "burned"}
  <1>1. PICK h \in Hashes : /\ node[h].status = "succeeded"
                            /\ node[h].by \in Requests
                            /\ req[node[h].by].note = n
    BY DEF PaidOut
  <1>2. melt[h].note = n /\ melt[h].outcome \in {"open", "paid"}
    BY <1>1 DEF Kept, Covered, NoUncoveredPayment
  <1> QED
    BY <1>2 DEF Kept, Agreed, OneRowPerReservedNote, OpenRows

LEMMA PaidOutIsSpentNext ==
  ASSUME Kept', NEW n \in Notes, PaidOut(n)'
  PROVE  note'[n] \in {"pending", "burned"}
  <1>1. PICK h \in Hashes : /\ node'[h].status = "succeeded"
                            /\ node'[h].by \in Requests
                            /\ req'[node'[h].by].note = n
    BY DEF PaidOut
  <1>2. melt'[h].note = n /\ melt'[h].outcome \in {"open", "paid"}
    BY <1>1 DEF Kept, Covered, NoUncoveredPayment
  <1> QED
    BY <1>2 DEF Kept, Agreed, OneRowPerReservedNote, OpenRows

\* Only the node's own settling changes what has been paid out: no step
\* changes the note of a request that made a payment.
LEMMA OnlySettlingPaysOut ==
  ASSUME Kept, [Next]_vars, ~ \E h \in Hashes : NodeSettles(h), ~SharedNode
  PROVE  \A n \in Notes : PaidOut(n)' <=> PaidOut(n)
  <1>0. TypeOK
    BY DEF Kept, Agreed
  <1>1. \A h \in Hashes : node[h].by \in Requests => req[node[h].by].pc # "idle"
    BY DEF Kept, Covered, PaymentsHaveMakers, Reserved, LivePcs
  <1>2. CASE UNCHANGED <<node, req>>
    BY <1>2 DEF PaidOut
  <1>3. ASSUME NEW r \in Requests, HandlerStep(r) PROVE \A n \in Notes : PaidOut(n)' <=> PaidOut(n)
    <2>1. UNCHANGED node /\ \A q \in Requests : req'[q].note = req[q].note
      BY <1>0, <1>3 DEF HandlerStep, CheckInvoice, RefuseAfterPrecheck, Reserve, PayOk,
         PayAlreadyKnown, PayUnclear, SettleThrows, ConfirmPaid, ConfirmNotPaid, ConfirmAgain,
         LeavePending, Finish, TypeOK, RequestStates
    <2> QED
      BY <2>1 DEF PaidOut
  <1>4. ASSUME NEW r \in Requests, NEW m \in Notes, NEW g \in Hashes, Open(r, m, g)
        PROVE  \A n \in Notes : PaidOut(n)' <=> PaidOut(n)
    <2>1. UNCHANGED node /\ \A q \in Requests : req[q].pc # "idle" => req'[q].note = req[q].note
      BY <1>0, <1>4 DEF Open, TypeOK
    <2> QED
      BY <1>1, <2>1 DEF PaidOut
  <1>5. ASSUME NEW r \in Requests, NodeTakesSend(r)
        PROVE  \A n \in Notes : PaidOut(n)' <=> PaidOut(n)
    <2>1. \A q \in Requests : req'[q].note = req[q].note
      BY <1>0, <1>5 DEF NodeTakesSend, TypeOK, RequestStates
    <2>2. \A h \in Hashes : \/ node'[h] = node[h]
                            \/ node[h].status # "succeeded" /\ node'[h].status # "succeeded"
      BY <1>0, <1>5 DEF NodeTakesSend, Sendable, TypeOK
    <2> QED
      BY <2>1, <2>2 DEF PaidOut
  <1>6. ASSUME NEW r \in Requests, NodeAnswersRequest(r)
        PROVE  \A n \in Notes : PaidOut(n)' <=> PaidOut(n)
    <2>1. UNCHANGED node /\ \A q \in Requests : req'[q].note = req[q].note
      BY <1>0, <1>6 DEF NodeAnswersRequest, TypeOK, RequestStates
    <2> QED
      BY <2>1 DEF PaidOut
  <1>7. CASE Crash
    <2>1. \A q \in Requests : req'[q] = IF req[q].pc = "idle" THEN req[q]
              ELSE [req[q] EXCEPT !.pc = "done", !.tries = 0, !.answer = "none"]
      BY <1>7 DEF Crash
    <2>2. ASSUME NEW q \in Requests PROVE req'[q].note = req[q].note
      <3>1. req[q] \in RequestStates
        BY <1>0 DEF TypeOK
      <3> QED
        BY <2>1, <3>1 DEF RequestStates
    <2>3. UNCHANGED node
      BY <1>7 DEF Crash
    <2> QED
      BY <2>2, <2>3 DEF PaidOut
  <1> QED
    BY <1>2, <1>3, <1>4, <1>5, <1>6, <1>7
    DEF Next, NodeStep, OthersPay, NodeAnswersPass, PassStep, PassStart, PassApplies, PassLeaves,
        SpendOtherwise, vars

\* Whereabouts, note by note, before a step and after it.
LEMMA WhereaboutsOf ==
  ASSUME NEW n \in Notes
  PROVE  /\ PaidOut(n) => Whereabouts[n] = "paidOut"
         /\ ~PaidOut(n) /\ note[n] = "outstanding" => Whereabouts[n] = "holder"
         /\ ~PaidOut(n) /\ note[n] = "pending" => Whereabouts[n] = "reserved"
         /\ ~PaidOut(n) /\ note[n] = "burned" => Whereabouts[n] = "swapped"
  BY DEF Whereabouts

LEMMA WhereaboutsNext ==
  ASSUME NEW n \in Notes
  PROVE  /\ PaidOut(n)' => Whereabouts'[n] = "paidOut"
         /\ ~PaidOut(n)' /\ note'[n] = "outstanding" => Whereabouts'[n] = "holder"
         /\ ~PaidOut(n)' /\ note'[n] = "pending" => Whereabouts'[n] = "reserved"
         /\ ~PaidOut(n)' /\ note'[n] = "burned" => Whereabouts'[n] = "swapped"
  BY DEF Whereabouts

LEMMA WhereaboutsIsAFunction ==
  /\ Whereabouts = [n \in Notes |-> Whereabouts[n]]
  /\ Whereabouts' = [n \in Notes |-> Whereabouts'[n]]
  <1> DEFINE Place(n) == CASE PaidOut(n)                               -> "paidOut"
                           [] ~PaidOut(n) /\ note[n] = "outstanding" -> "holder"
                           [] ~PaidOut(n) /\ note[n] = "pending"     -> "reserved"
                           [] ~PaidOut(n) /\ note[n] = "burned"      -> "swapped"
             Placed(n) == CASE PaidOut(n)'                                -> "paidOut"
                            [] ~PaidOut(n)' /\ note'[n] = "outstanding" -> "holder"
                            [] ~PaidOut(n)' /\ note'[n] = "pending"     -> "reserved"
                            [] ~PaidOut(n)' /\ note'[n] = "burned"      -> "swapped"
  <1>1. Whereabouts = [n \in Notes |-> Place(n)] /\ Whereabouts' = [n \in Notes |-> Placed(n)]
    BY DEF Whereabouts
  <1> QED
    <2> HIDE DEF Place, Placed
    <2> QED
      BY <1>1

\* A step that pays nothing out and writes no note moves no value.
LEMMA NothingMoves ==
  ASSUME TypeOK, UNCHANGED note, \A n \in Notes : PaidOut(n)' <=> PaidOut(n)
  PROVE  UNCHANGED Whereabouts
  <1>1. \A n \in Notes : Whereabouts'[n] = Whereabouts[n]
    <2> SUFFICES ASSUME NEW n \in Notes PROVE Whereabouts'[n] = Whereabouts[n]
      OBVIOUS
    <2>1. note[n] \in NoteStates /\ note'[n] = note[n] /\ (PaidOut(n)' <=> PaidOut(n))
      BY DEF TypeOK
    <2> QED
      BY <2>1, WhereaboutsOf, WhereaboutsNext DEF NoteStates
  <1> QED
    BY <1>1, WhereaboutsIsAFunction

\* How the values move when note n's row changes and no other does.
LEMMA OneNoteMoves ==
  ASSUME TypeOK, NEW n \in Notes,
         \A m \in Notes \ {n} : note'[m] = note[m] /\ (PaidOut(m)' <=> PaidOut(m))
  PROVE  Whereabouts' = [Whereabouts EXCEPT ![n] = Whereabouts'[n]]
  <1>1. \A m \in Notes \ {n} : Whereabouts'[m] = Whereabouts[m]
    <2> SUFFICES ASSUME NEW m \in Notes \ {n} PROVE Whereabouts'[m] = Whereabouts[m]
      OBVIOUS
    <2>1. note[m] \in NoteStates /\ note'[m] = note[m] /\ (PaidOut(m)' <=> PaidOut(m))
      BY DEF TypeOK
    <2> QED
      BY <2>1, WhereaboutsOf, WhereaboutsNext DEF NoteStates
  <1> QED
    BY <1>1, WhereaboutsIsAFunction

\* A write of the store moves at most the value of the note it writes.
LEMMA WritesKeepThePromise ==
  ASSUME Kept, Kept', [Next]_vars, StoreWrite,
         \A n \in Notes : PaidOut(n)' <=> PaidOut(n)
  PROVE  [Promise!Next]_Whereabouts
  <1>0. TypeOK /\ TypeOK'
    BY DEF Kept, Agreed
  <1>1. CASE UNCHANGED note
    <2>1. UNCHANGED Whereabouts
      BY <1>0, <1>1, NothingMoves
    <2> QED
      BY <2>1
  <1>2. ASSUME NEW n \in Notes, note[n] = "outstanding", note'[n] \in {"pending", "burned"},
               \A m \in Notes \ {n} : note'[m] = note[m]
        PROVE  [Promise!Next]_Whereabouts
    <2>1. ~PaidOut(n) /\ ~PaidOut(n)'
      BY <1>2, PaidOutIsSpent
    <2>2. Whereabouts[n] = "holder"
      BY <1>2, <2>1, WhereaboutsOf
    <2>3. \/ note'[n] = "pending" /\ Whereabouts'[n] = "reserved"
          \/ note'[n] = "burned" /\ Whereabouts'[n] = "swapped"
      BY <1>2, <2>1, WhereaboutsNext
    <2>4. Whereabouts' = [Whereabouts EXCEPT ![n] = Whereabouts'[n]]
      BY <1>0, <1>2, OneNoteMoves
    <2> QED
      BY <2>2, <2>3, <2>4 DEF Promise!Next, Promise!Take, Promise!Swap
  <1>3. ASSUME NEW h \in Hashes, melt[h].outcome = "open", RestoreMelt(h)
        PROVE  [Promise!Next]_Whereabouts
    <2>1. PICK n \in Notes : n = melt[h].note /\ note[n] = "pending"
      BY <1>3 DEF Kept, Agreed, OneRowPerReservedNote, OpenRows
    <2>2. note'[n] = "outstanding" /\ \A m \in Notes \ {n} : note'[m] = note[m]
      BY <1>0, <1>3, <2>1 DEF RestoreMelt, TypeOK
    <2>3. ~PaidOut(n)'
      BY <2>1, <2>2, PaidOutIsSpentNext
    <2>4. ~PaidOut(n)
      BY <2>1, <2>3
    <2>5. Whereabouts[n] = "reserved"
      BY <2>1, <2>4, WhereaboutsOf
    <2>6. Whereabouts'[n] = "holder"
      BY <2>1, <2>2, <2>3, WhereaboutsNext
    <2>7. Whereabouts' = [Whereabouts EXCEPT ![n] = Whereabouts'[n]]
      BY <1>0, <2>1, <2>2, OneNoteMoves
    <2> QED
      BY <2>1, <2>5, <2>6, <2>7 DEF Promise!Next, Promise!GiveBack
  <1>4. ASSUME NEW h \in Hashes, melt[h].outcome = "open", FinalizeMelt(h)
        PROVE  [Promise!Next]_Whereabouts
    <2>1. PICK n \in Notes : n = melt[h].note /\ melt'[h].outcome = "paid"
      BY <1>0, <1>4 DEF FinalizeMelt, TypeOK, Rows, Kept, Agreed
    <2>2. node[h].status = "succeeded"
      BY <1>4, <2>1, PaidRowsAreNew DEF Kept
    <2>3. PaidOut(n)
      BY <2>1, <2>2 DEF Kept, PaymentsAreOurs, Covered, NoUncoveredPayment, PaidOut
    <2>4. \A m \in Notes \ {n} : note'[m] = note[m]
      BY <1>0, <1>4, <2>1 DEF FinalizeMelt, TypeOK
    <2>5. Whereabouts'[n] = "paidOut" /\ Whereabouts[n] = "paidOut"
      BY <2>1, <2>3, WhereaboutsOf, WhereaboutsNext
    <2>6. Whereabouts' = [Whereabouts EXCEPT ![n] = Whereabouts'[n]]
      BY <1>0, <2>1, <2>4, OneNoteMoves
    <2>7. UNCHANGED Whereabouts
      BY <2>5, <2>6, WhereaboutsIsAFunction
    <2> QED
      BY <2>7
  <1>5. ASSUME NEW n \in Notes, NEW h \in Hashes, CanReserve(n, h), MarkPending(n, h)
        PROVE  [Promise!Next]_Whereabouts
    BY <1>0, <1>2, <1>5 DEF CanReserve, MarkPending, TypeOK
  <1>6. ASSUME NEW n \in Notes, SpendOtherwise(n) PROVE [Promise!Next]_Whereabouts
    BY <1>0, <1>2, <1>6 DEF SpendOtherwise, TypeOK
  <1>7. ASSUME NEW h \in Hashes, FinalizeMelt(h) \/ RestoreMelt(h), melt[h].outcome # "open"
        PROVE  UNCHANGED note
    BY <1>7 DEF FinalizeMelt, RestoreMelt
  <1> QED
    BY <1>1, <1>3, <1>4, <1>5, <1>6, <1>7 DEF StoreWrite

\* The node settles a payment of this mint: the value leaves the reserved note.
LEMMA SettlingKeepsThePromise ==
  ASSUME Kept, TypeOK', NEW h \in Hashes, NodeSettles(h)
  PROVE  [Promise!Next]_Whereabouts
  <1>0. PICK r, n : r = node[h].by /\ n = req[r].note
    OBVIOUS
  <1>1. /\ TypeOK /\ UNCHANGED <<note, req>> /\ node[h].status = "inflight"
        /\ \A g \in Hashes \ {h} : node'[g] = node[g]
        /\ node'[h].by = r /\ node'[h].status \in {"succeeded", "failed"}
    BY <1>0 DEF NodeSettles, Kept, Agreed, TypeOK, Payments
  <1>2. CASE node'[h].status = "failed"
    <2>1. \A m \in Notes : PaidOut(m)' <=> PaidOut(m)
      BY <1>1, <1>2 DEF PaidOut
    <2>2. UNCHANGED Whereabouts
      BY <1>1, <2>1, NothingMoves
    <2> QED
      BY <2>2
  <1>3. CASE node'[h].status = "succeeded"
    <2>1. r \in Requests /\ melt[h].note = n /\ melt[h].outcome \in {"open", "paid"}
      BY <1>0, <1>1 DEF Kept, PaymentsAreOurs, Covered, NoUncoveredPayment
    <2>2. melt[h].outcome = "open" /\ n \in Notes
      BY <1>1, <2>1 DEF Kept, Burning, BurnedOnlyIfPaid, Agreed
    <2>3. note[n] = "pending"
      BY <2>1, <2>2 DEF Kept, Agreed, OneRowPerReservedNote, OpenRows
    <2>4. ~PaidOut(n)
      <3> SUFFICES ASSUME NEW g \in Hashes, node[g].status = "succeeded",
                          node[g].by \in Requests, req[node[g].by].note = n
                   PROVE  FALSE
        BY DEF PaidOut
      <3>1. melt[g].note = n /\ melt[g].outcome \in {"open", "paid"}
        BY DEF Kept, Covered, NoUncoveredPayment
      <3>2. g = h
        BY <2>1, <3>1 DEF Kept, Agreed, OneRowPerReservedNote
      <3> QED
        BY <1>1, <3>2
    <2>5. Whereabouts[n] = "reserved"
      BY <1>1, <2>2, <2>3, <2>4, WhereaboutsOf
    <2>6. Whereabouts'[n] = "paidOut"
      BY <1>0, <1>1, <1>3, <2>1, <2>2, WhereaboutsNext DEF PaidOut
    <2>7. \A m \in Notes \ {n} : note'[m] = note[m] /\ (PaidOut(m)' <=> PaidOut(m))
      BY <1>0, <1>1, <1>3 DEF PaidOut
    <2>8. Whereabouts' = [Whereabouts EXCEPT ![n] = Whereabouts'[n]]
      BY <1>1, <2>2, <2>7, OneNoteMoves
    <2> QED
      BY <2>2, <2>5, <2>6, <2>8 DEF Promise!Next, Promise!PayOut
  <1> QED
    BY <1>1, <1>2, <1>3

\* Each note's value leaves once, by one route, and comes back from a melt
\* only before it left: what the wallet holding a note may rely on, however
\* handlers, passes, answers and crashes interleave, on a node of the mint's
\* own and under the discipline the melt runs show to be needed.
THEOREM MeltKeepsThePromise ==
  ASSUME Discipline, ~SharedNode
  PROVE  Spec => KeepsThePromise
  <1>1. Init => Promise!Init
    <2> SUFFICES ASSUME Init PROVE Promise!Init
      OBVIOUS
    <2>1. \A n \in Notes : note[n] = "outstanding" /\ ~PaidOut(n)
      BY DEF Init, PaidOut
    <2>2. \A n \in Notes : Whereabouts[n] = "holder"
      BY <2>1, WhereaboutsOf
    <2> QED
      BY <2>2, WhereaboutsIsAFunction DEF Promise!Init
  <1>2. Kept /\ [Next]_vars => Kept'
    BY KeptStep
  <1>3. Kept /\ Kept' /\ [Next]_vars => [Promise!Next]_Whereabouts
    <2> SUFFICES ASSUME Kept, Kept', [Next]_vars PROVE [Promise!Next]_Whereabouts
      OBVIOUS
    <2>1. TypeOK /\ TypeOK' /\ StoreWrite
      BY StepsAreStoreWrites DEF Kept, Agreed
    <2>2. CASE \E h \in Hashes : NodeSettles(h)
      BY <2>1, <2>2, SettlingKeepsThePromise
    <2>3. CASE ~ \E h \in Hashes : NodeSettles(h)
      BY <2>1, <2>3, OnlySettlingPaysOut, WritesKeepThePromise
    <2> QED
      BY <2>2, <2>3
  <1> QED
    BY KeptInit, <1>1, <1>2, <1>3, PTL DEF Spec, KeepsThePromise, Promise!Spec

-----------------------------------------------------------------------------
(* What else a node of the mint's own gives.                               *)

\* A note burned by a melt was burned for this mint's own payment of its
\* invoice.  A run shows the counterexample on a shared node.
THEOREM BurnedForNobodyElse ==
  ASSUME Discipline, ~SharedNode
  PROVE  Spec => []BurnedForOwnPayment
  <1>1. Kept /\ [Next]_vars => Kept'
    BY KeptStep
  <1>2. Kept => BurnedForOwnPayment
    <2> SUFFICES ASSUME Kept, NEW h \in Hashes, melt[h].outcome = "paid"
                 PROVE  node[h].by \in Requests /\ req[node[h].by].note = melt[h].note
      BY DEF BurnedForOwnPayment
    <2>1. node[h].status = "succeeded"
      BY DEF Kept, Burning, BurnedOnlyIfPaid
    <2>2. node[h].by \in Requests
      BY <2>1 DEF Kept, PaymentsAreOurs
    <2> QED
      BY <2>1, <2>2 DEF Kept, Covered, NoUncoveredPayment
  <1> QED
    BY KeptInit, <1>1, <1>2, PTL DEF Spec

=============================================================================
