---------------------------- MODULE ClientProofs ----------------------------
(***************************************************************************)
(* What holds of the invoice stream for any settles, crashes and closes,   *)
(* of the web page for any mints and polls, and of the live check for any  *)
(* invocations, invoices and refunds.                                      *)
(***************************************************************************)
EXTENDS MCClients, ScriptProofs, UpgradeProofs, TLAPS

-----------------------------------------------------------------------------
(* The stream.                                                             *)

\* While the mint is up, what it has at hand is the index after the stored
\* one, unless nothing was ever heard.
NextInLine ==
  /\ handling # 0 => conn = handling + 1
  /\ heard # {} => /\ handling # 0 => handling = stored + 1
                   /\ conn # 0 /\ handling = 0 => conn = stored + 1

StreamInv ==
  /\ StreamTypeOK
  /\ stored <= settled /\ handling <= settled /\ conn <= settled + 1
  /\ heard \subseteq 1..stored
  /\ stored # 0 => stored \in heard
  /\ NothingSkipped
  /\ mint = "down" => conn = 0 /\ handling = 0
  /\ mint = "up" => NextInLine

LEMMA StreamStart == StreamInit => StreamInv
  BY StreamAssumption DEF StreamInit, StreamInv, StreamTypeOK, NothingSkipped, NextInLine

LEMMA StreamStep == StreamInv /\ [StreamNext]_streamVars => StreamInv'
  <1> SUFFICES ASSUME StreamInv, [StreamNext]_streamVars PROVE StreamInv'
    OBVIOUS
  <1> USE StreamAssumption DEF StreamInv, StreamTypeOK, NothingSkipped, NextInLine
  <1>1. CASE NodeSettlesNext
    BY <1>1 DEF NodeSettlesNext
  <1>2. CASE Connect
    <2>1. heard # {} => stored > 0
      <3>1. SUFFICES ASSUME heard # {} PROVE stored > 0
        OBVIOUS
      <3>2. PICK i : i \in heard
        BY <3>1
      <3>3. i \in 1..stored /\ stored \in Nat
        BY <3>2
      <3> QED
        BY <3>3
    <2>2. conn' = IF stored > 0 THEN stored + 1 ELSE settled + 1
      BY <1>2 DEF Connect, StartAfter
    <2>3. UNCHANGED <<settled, stored, handling, mint, heard, stops>>
      BY <1>2 DEF Connect
    <2>4. NextInLine' /\ conn' \in 0..(MaxSettles + 1) /\ conn' <= settled' + 1
      BY <1>2, <2>1, <2>2, <2>3 DEF Connect
    <2> QED
      BY <1>2, <2>3, <2>4 DEF Connect
  <1>3. CASE Report
    BY <1>3 DEF Report
  <1>4. CASE Handled
    <2>1. CASE mint = "up"
      <3>1. stored' = handling /\ heard' = heard \union {handling} /\ handling' = 0
        BY <1>4, <2>1 DEF Handled, Stores
      <3>2. UNCHANGED <<settled, conn, mint, stops>> /\ handling \in 1..settled
        BY <1>4 DEF Handled
      <3>3. heard # {} => handling = stored + 1
        BY <2>1, <3>2
      <3>4. \A i \in heard' : i..stored' \subseteq heard'
        <4> SUFFICES ASSUME NEW i \in heard', NEW j \in i..stored' PROVE j \in heard'
          OBVIOUS
        <4>1. CASE j = handling
          BY <4>1, <3>1
        <4>2. CASE j # handling
          <5>1. i \in heard
            BY <4>2, <3>1, <3>2
          <5>2. j \in i..stored
            BY <4>2, <5>1, <3>1, <3>2, <3>3
          <5> QED
            BY <5>1, <5>2, <3>1
        <4> QED
          BY <4>1, <4>2
      <3>5. heard' \subseteq 1..stored'
        BY <3>1, <3>2, <3>3
      <3> QED
        BY <2>1, <3>1, <3>2, <3>4, <3>5
    <2>2. CASE mint # "up"
      <3>1. UNCHANGED <<settled, stored, conn, mint, heard, stops>> /\ handling' = 0
        BY <1>4, <2>2 DEF Handled, Stores
      <3>2. mint = "closing"
        BY <1>4, <2>2 DEF Handled
      <3> QED
        BY <3>1, <3>2
    <2> QED
      BY <2>1, <2>2
  <1>5. CASE Drop
    BY <1>5 DEF Drop
  <1>6. CASE CloseMint
    BY <1>6 DEF CloseMint
  <1>7. CASE MintClosed
    BY <1>7 DEF MintClosed
  <1>8. CASE StreamCrash
    BY <1>8 DEF StreamCrash
  <1>9. CASE Start
    BY <1>9 DEF Start
  <1>10. CASE UNCHANGED streamVars
    BY <1>10 DEF streamVars
  <1> QED
    BY <1>1, <1>2, <1>3, <1>4, <1>5, <1>6, <1>7, <1>8, <1>9, <1>10 DEF StreamNext

\* The index that the mint resumes from never runs ahead of what was handled:
\* from the first settle it heard of on, there is no gap, whatever drops,
\* closes and crashes there are (onSettled and streamInvoices).
THEOREM TheStreamSkipsNothing == StreamSpec => []NothingSkipped
  <1>1. StreamInv => NothingSkipped
    BY DEF StreamInv
  <1> QED
    BY StreamStart, StreamStep, <1>1, PTL DEF StreamSpec

-----------------------------------------------------------------------------
(* The page.                                                               *)

\* What is stored is a mint that has begun and that no claim will be made for.
Slotted(m) == slot = m => job[m] \notin {"idle", "naming"} /\ mode[m] \in {"none", "bound"}

Unmade(m) == job[m] \in {"idle", "quoting", "naming"} => mode[m] = "none"

\* A claim is of a paid note that has no receipt, and its view is through.
Claimed(m) ==
  /\ claims[m] \in {0, 1}
  /\ claims[m] = 1 => /\ mode[m] \in {"named", "preimage"} /\ m \in paid
                      /\ view.kind = "invoice" /\ view.mint = m => view.claimed

Claims == {"claiming", "rotating", "probing"}

\* How far a claim is, and where its rotate and the money are.
Rotated(m) ==
  /\ claims[m] = 0 => rotation[m] = "none" /\ job[m] \notin Claims
  /\ job[m] = "claiming" => rotation[m] = "none"
  /\ job[m] \in {"rotating", "probing"} => rotation[m] \in {"sent", "landed"}
  /\ money[m] = "rotated" <=> rotation[m] \in {"landed", "late"}
  /\ m \in paid <=> money[m] # "none"

\* What a visitor was shown, and when.
Shown(m) ==
  /\ handed[m] # {} => m \in paid /\ job[m] \notin Claims
  /\ handed[m] # {} /\ claims[m] = 0 => mode[m] = "bound"
  /\ handed[m] # {} => money[m] \in handed[m] \/ rotation[m] = "late"

OnePoll == view.polls \in {0, 1} /\ (view.claimed => view.polls = 0)

MintInv(m) == OnePoll /\ Slotted(m) /\ Unmade(m) /\ Claimed(m) /\ Rotated(m) /\ Shown(m)

PageInv == PageTypeOK /\ \A m \in Mints : MintInv(m)

LEMMA PageStart == PageInit => PageInv
  BY PageAssumption DEF PageInit, PageInv, MintInv, PageTypeOK, Show, Kinds, OnePoll, Slotted,
       Unmade,
    Claimed, Rotated, Shown, Claims

LEMMA PageTypeStep == PageInv /\ [PageNext]_pageVars => PageTypeOK'
  <1> SUFFICES ASSUME PageInv, [PageNext]_pageVars PROVE PageTypeOK'
    OBVIOUS
  <1>0. PageTypeOK
    BY DEF PageInv
  <1>a. \A kind \in Kinds, m \in Mints \union {NoMint} :
          Show(kind, m) \in [kind : Kinds, mint : Mints \union {NoMint}, polls : 0..MaxPolls,
                             claimed : BOOLEAN]
    BY PageAssumption DEF Show
  <1> USE <1>0, PageAssumption DEF PageTypeOK, Kinds, NoteUnchanged
  <1>1. CASE Navigate
    BY <1>1, <1>a DEF Navigate
  <1>2. CASE Reload
    BY <1>2, <1>a DEF Reload
  <1>3. CASE PollStarts
    BY <1>3 DEF PollStarts
  <1>4. CASE PollFindsNothing
    BY <1>4 DEF PollFindsNothing
  <1>5. ASSUME NEW m \in Mints, Create(m) PROVE PageTypeOK'
    BY <1>5 DEF Create
  <1>6. ASSUME NEW m \in Mints, BoundQuote(m) PROVE PageTypeOK'
    <2>1. UNCHANGED <<paid, claims, money, rotation, handed>>
      BY <1>6 DEF BoundQuote
    <2>2. slot' \in {m, NoMint} /\ (view' = Show("invoice", m) \/ view' = view)
      BY <1>6 DEF BoundQuote
    <2>3. job' = [job EXCEPT ![m] = "invoiced"] \/ job' = [job EXCEPT ![m] = "naming"]
      BY <1>6 DEF BoundQuote
    <2>4. mode' = [mode EXCEPT ![m] = "bound"] \/ mode' = mode
      BY <1>6 DEF BoundQuote
    <2> QED
      BY <1>a, <2>1, <2>2, <2>3, <2>4
  <1>7. ASSUME NEW m \in Mints, NamedInvoice(m) PROVE PageTypeOK'
    BY <1>7, <1>a DEF NamedInvoice
  <1>8. ASSUME NEW m \in Mints, CreateFails(m) PROVE PageTypeOK'
    BY <1>8 DEF CreateFails
  <1>9. ASSUME NEW m \in Mints, PayerPays(m) PROVE PageTypeOK'
    BY <1>9 DEF PayerPays
  <1>10. ASSUME NEW m \in Mints, PollFindsReceipt(m) PROVE PageTypeOK'
    BY <1>10, <1>a DEF PollFindsReceipt
  <1>11. ASSUME NEW m \in Mints, PollFindsSettled(m) PROVE PageTypeOK'
    <2>1. view.polls - 1 \in 0..MaxPolls
      BY <1>11 DEF PollFindsSettled
    <2>2. view' = [view EXCEPT !.polls = view.polls - 1, !.claimed = TRUE]
      BY <1>11 DEF PollFindsSettled
    <2>3. view' \in [kind : Kinds, mint : Mints \union {NoMint}, polls : 0..MaxPolls,
         claimed : BOOLEAN]
      BY <2>1, <2>2
    <2>4. claims[m] + 1 \in Nat /\ claims' = [claims EXCEPT ![m] = claims[m] + 1]
      BY <1>11 DEF PollFindsSettled
    <2> QED
      BY <1>11, <2>3, <2>4 DEF PollFindsSettled
  <1>12. ASSUME NEW m \in Mints, SendRotate(m) PROVE PageTypeOK'
    BY <1>12 DEF SendRotate
  <1>13. ASSUME NEW m \in Mints, ClaimFailsCleanly(m) PROVE PageTypeOK'
    BY <1>13, <1>a DEF ClaimFailsCleanly, HandOver
  <1>14. ASSUME NEW m \in Mints, RotateLands(m) PROVE PageTypeOK'
    BY <1>14 DEF RotateLands
  <1>15. ASSUME NEW m \in Mints, RotateAnswers(m) PROVE PageTypeOK'
    BY <1>15, <1>a DEF RotateAnswers, HandOver
  <1>16. ASSUME NEW m \in Mints, RotateIsAmbiguous(m) PROVE PageTypeOK'
    BY <1>16 DEF RotateIsAmbiguous
  <1>17. ASSUME NEW m \in Mints, Probe(m) PROVE PageTypeOK'
    <2>1. money[m] \in {"first", "rotated"}
      <3>1. claims[m] = 1
        BY <1>17 DEF Probe, PageInv, MintInv, Claimed, Rotated, Claims
      <3> QED
        BY <3>1 DEF PageInv, MintInv, Claimed, Rotated
    <2>2. PICK probe \in {money[m], "failed"} : HandOver(m, Candidates(probe))
      BY <1>17 DEF Probe
    <2>3. Candidates(probe) \subseteq {"first", "rotated"}
      BY <2>1 DEF Candidates
    <2> QED
      BY <1>17, <1>a, <2>2, <2>3 DEF Probe, HandOver
  <1>18. CASE UNCHANGED pageVars
    BY <1>18 DEF pageVars
  <1> QED
    BY <1>1, <1>2, <1>3, <1>4, <1>5, <1>6, <1>7, <1>8, <1>9, <1>10, <1>11, <1>12, <1>13, <1>14,
         <1>15, <1>16, <1>17, <1>18 DEF PageNext

LEMMA PageStep == PageInv /\ [PageNext]_pageVars => PageInv'
  <1> SUFFICES ASSUME PageInv, [PageNext]_pageVars PROVE PageInv'
    OBVIOUS
  <1>t. PageTypeOK' /\ PageTypeOK
    BY PageTypeStep DEF PageInv
  <1> SUFFICES ASSUME NEW x \in Mints
               PROVE  MintInv(x)'
    BY <1>t DEF PageInv
  <1>i. MintInv(x) /\ NoMint \notin Mints
    BY PageAssumption DEF PageInv
  <1> USE <1>t, <1>i DEF MintInv, OnePoll, Slotted, Unmade, Claimed, Rotated, Shown, Claims,
       PageTypeOK,
                         Show, NoteUnchanged
  <1>1. CASE Navigate
    BY <1>1 DEF Navigate
  <1>2. CASE Reload
    BY <1>2 DEF Reload
  <1>3. CASE PollStarts
    BY <1>3 DEF PollStarts, MayPoll
  <1>4. CASE PollFindsNothing
    BY <1>4 DEF PollFindsNothing
  <1>5. ASSUME NEW m \in Mints, Create(m) PROVE MintInv(x)'
    BY <1>5 DEF Create
  <1>6. ASSUME NEW m \in Mints, BoundQuote(m) PROVE MintInv(x)'
    BY <1>6 DEF BoundQuote
  <1>7. ASSUME NEW m \in Mints, NamedInvoice(m) PROVE MintInv(x)'
    BY <1>7 DEF NamedInvoice
  <1>8. ASSUME NEW m \in Mints, CreateFails(m) PROVE MintInv(x)'
    BY <1>8 DEF CreateFails
  <1>9. ASSUME NEW m \in Mints, PayerPays(m) PROVE MintInv(x)'
    BY <1>9 DEF PayerPays
  <1>10. ASSUME NEW m \in Mints, PollFindsReceipt(m) PROVE MintInv(x)'
    BY <1>10 DEF PollFindsReceipt
  <1>11. ASSUME NEW m \in Mints, PollFindsSettled(m) PROVE MintInv(x)'
    BY <1>11 DEF PollFindsSettled
  <1>12. ASSUME NEW m \in Mints, SendRotate(m) PROVE MintInv(x)'
    BY <1>12 DEF SendRotate
  <1>13. ASSUME NEW m \in Mints, ClaimFailsCleanly(m) PROVE MintInv(x)'
    BY <1>13 DEF ClaimFailsCleanly, HandOver
  <1>14. ASSUME NEW m \in Mints, RotateLands(m) PROVE MintInv(x)'
    BY <1>14 DEF RotateLands
  <1>15. ASSUME NEW m \in Mints, RotateAnswers(m) PROVE MintInv(x)'
    BY <1>15 DEF RotateAnswers, HandOver
  <1>16. ASSUME NEW m \in Mints, RotateIsAmbiguous(m) PROVE MintInv(x)'
    BY <1>16 DEF RotateIsAmbiguous
  <1>17. ASSUME NEW m \in Mints, Probe(m) PROVE MintInv(x)'
    BY <1>17 DEF Probe, HandOver, Candidates
  <1>18. CASE UNCHANGED pageVars
    BY <1>18 DEF pageVars
  <1> QED
    BY <1>1, <1>2, <1>3, <1>4, <1>5, <1>6, <1>7, <1>8, <1>9, <1>10, <1>11, <1>12, <1>13, <1>14,
         <1>15, <1>16, <1>17, <1>18 DEF PageNext

\* However its polls, taps and views interleave, the page claims a note once.
THEOREM NotesAreClaimedOnce == PageSpec => []ClaimedOnce
  <1>1. PageInv => ClaimedOnce
    <2> SUFFICES ASSUME PageInv, NEW m \in Mints PROVE claims[m] <= 1
      BY DEF ClaimedOnce
    <2>1. claims[m] = 0 \/ claims[m] = 1
      BY DEF PageInv, MintInv, Claimed
    <2> QED
      BY <2>1
  <1> QED
    BY PageStart, PageStep, <1>1, PTL DEF PageSpec

\* One of the secrets the page hands over is the money, whatever became of the
\* rotate, unless it lands after the page has asked about it.
THEOREM VisitorsAreShownTheMoney == PageSpec => []NoteShownIsTheMoney
  <1>1. PageInv => NoteShownIsTheMoney
    BY DEF PageInv, MintInv, Shown, NoteShownIsTheMoney
  <1> QED
    BY PageStart, PageStep, <1>1, PTL DEF PageSpec

-----------------------------------------------------------------------------
(* The live check.                                                         *)

CheckStates == [stage : Stages \union {"none", "partial"}, h : Secrets \union {NoSecret},
                quote : Invoices \union {NoInvoice}, refund : Refunds \union {NoRefund}]

Written == file.stage \in Stages

\* Until the state file is written nothing was asked of the mint, and only the
\* invocation that created it can write it.
NothingYet ==
  /\ file.h = NoSecret
  /\ \A q \in Invoices : quoted[q].state = "none"
  /\ \A s \in Secrets : held[s] = "none"
  /\ \A f \in Refunds : melt[f] = "none"
  /\ paying = {} /\ asked = {}
  /\ \A r \in Runs : run[r].pc = "idle" \/ (run[r].pc = "creating" /\ file.stage = "partial")
  /\ \A q, r \in Runs : run[q].pc = "creating" /\ run[r].pc = "creating" => q = r

\* A state, in the file or in memory, that is about a secret.
About(state, s) ==
  /\ state.stage \in Stages /\ state.h = s
  /\ state.stage = "quoted" => state.quote \in Invoices
  /\ state.stage = "retiring" => state.refund \in Refunds
  /\ state.stage = "retired" => held[s] = "burned"

\* Once it is written there is one secret, and everything is about it.
OneSecret ==
  /\ About(file, file.h)
  /\ \A r \in Runs : run[r].pc # "creating" /\ (run[r].pc # "idle" => About(run[r].state, file.h))
  /\ \A q \in Invoices : quoted[q].state # "none" => quoted[q].h = file.h
  /\ \A s \in Secrets : s # file.h => held[s] = "none"
  /\ \A a \in asked : a.h = file.h

\* One invoice at a time is open or paid, and none is open once one was paid.
OneInvoice ==
  /\ \A p, q \in Invoices :
       quoted[p].state \in {"open", "paid"} /\ quoted[q].state \in {"open", "paid"} => p = q
  /\ held[file.h] # "none" <=> \E q \in Invoices : quoted[q].state = "paid"

\* One refund at a time is under way, the note being reserved for it, and one
\* at most was paid, the note being burned for it.
OneRefund ==
  /\ \A f \in Refunds : /\ melt[f] = "pending" => held[file.h] = "pending"
                        /\ melt[f] = "settled" => held[file.h] = "burned"
  /\ \A f, g \in Refunds : melt[f] = "pending" /\ melt[g] = "pending" => f = g
  /\ \A f, g \in Refunds : melt[f] = "settled" /\ melt[g] = "settled" => f = g
  /\ held[file.h] = "burned" => \E f \in Refunds : melt[f] = "settled"

CheckInv ==
  /\ CheckTypeOK
  /\ \A r \in Runs : run[r].pc = "creating" =>
       run[r].state \in CheckStates /\ run[r].state.stage = "prepared" /\ run[r].state.h \in Secrets
  /\ ~Written => NothingYet
  /\ Written => file.h \in Secrets /\ OneSecret /\ OneInvoice /\ OneRefund

RunStates == [pc : {"idle", "creating", "at", "save", "saveAndThrow", "paying", "waiting"},
              state : CheckStates]

LEMMA CheckTypeFacts ==
  ASSUME CheckTypeOK
  PROVE  /\ file \in CheckStates /\ run \in [Runs -> RunStates]
         /\ quoted \in [Invoices -> [state : {"none", "open", "paid", "expired"},
                                     h : Secrets \union {NoSecret}]]
         /\ held \in [Secrets -> {"none", "outstanding", "pending", "burned"}]
         /\ melt \in [Refunds -> {"none", "pending", "settled", "failed"}]
         /\ paying \subseteq Invoices /\ asked \subseteq [h : Secrets, refund : Refunds]
  BY DEF CheckTypeOK, CheckStates, RunStates

LEMMA CheckStart == CheckInit => CheckInv
<1> SUFFICES ASSUME CheckInit PROVE CheckInv
  OBVIOUS
<1> USE DEF CheckInit, NoState, Stopped
<1>1. CheckTypeOK BY DEF CheckTypeOK
<1>2. ~Written BY DEF Written, Stages
<1>3. NothingYet BY DEF NothingYet
<1>4. \A r \in Runs : run[r].pc # "creating" OBVIOUS
<1> QED BY <1>1, <1>2, <1>3, <1>4 DEF CheckInv

\* An invocation moves on, in memory only, to a state about the one secret.
Moves(r, q) ==
  /\ r \in Runs /\ q \in RunStates /\ run' = [run EXCEPT ![r] = q]
  /\ q.pc # "creating" /\ (q.pc = "idle" \/ About(q.state, file.h))
  /\ UNCHANGED <<file, quoted, held, melt>>
  /\ paying' \subseteq Invoices /\ asked' \subseteq [h : Secrets, refund : Refunds]
  /\ \A a \in asked' : a.h = file.h

LEMMA MovesKeep ==
  ASSUME CheckInv, Written, NEW r, NEW q, Moves(r, q)
  PROVE  CheckInv'
<1> USE DEF Moves
<1>1. CheckTypeOK /\ OneSecret /\ OneInvoice /\ OneRefund /\ file.h \in Secrets BY DEF CheckInv
<1>2. run \in [Runs -> RunStates] BY <1>1, CheckTypeFacts
<1>3. run'[r] = q /\ \A p \in Runs : p # r => run'[p] = run[p] BY <1>2
<1>4. CheckTypeOK'
  <2>1. run' \in [Runs -> RunStates] BY <1>2
  <2> QED BY <1>1, <2>1 DEF CheckTypeOK, RunStates, CheckStates
<1>5. ASSUME NEW p \in Runs
      PROVE  run'[p].pc # "creating" /\ (run'[p].pc # "idle" => About(run'[p].state, file.h))
  <2>1. CASE p = r BY <1>3, <2>1
  <2>2. CASE p # r
    <3>1. run'[p] = run[p] BY <1>3, <2>2
    <3> QED BY <1>1, <3>1 DEF OneSecret
  <2> QED BY <2>1, <2>2
<1>6. OneSecret' BY <1>1, <1>5 DEF OneSecret, About
<1>7. OneInvoice' /\ OneRefund' BY <1>1 DEF OneInvoice, OneRefund
<1>8. Written' BY DEF Written
<1> QED BY <1>1, <1>4, <1>5, <1>6, <1>7, <1>8 DEF CheckInv

LEMMA InMemory ==
  ASSUME CheckInv, Written, NEW r \in Runs,
         \/ LoadState(r) \/ Stop(r) \/ PayQuote(r) \/ SeeSettled(r) \/ ClaimNote(r)
         \/ CreateRefund(r) \/ AwaitRefund(r) \/ Retire(r) \/ RestoreClaimed(r)
  PROVE  CheckInv'
<1>1. CheckTypeOK /\ OneSecret /\ file.h \in Secrets BY DEF CheckInv
<1>2. /\ file \in CheckStates /\ run \in [Runs -> RunStates] /\ run[r] \in RunStates
      /\ run[r].state \in CheckStates
      /\ paying \subseteq Invoices /\ asked \subseteq [h : Secrets, refund : Refunds]
  BY <1>1, CheckTypeFacts DEF RunStates
<1>3. run[r].pc # "idle" => About(run[r].state, file.h) BY <1>1 DEF OneSecret
<1>4. \A a \in asked : a.h = file.h BY <1>1 DEF OneSecret
<1> DEFINE st == run[r].state
<1>5. CASE LoadState(r)
  <2> DEFINE q == [pc |-> "at", state |-> file]
  <2>1. q \in RunStates /\ q.pc = "at" /\ q.state = file BY <1>2 DEF RunStates
  <2>2. About(file, file.h) BY <1>1 DEF OneSecret
  <2>3. Moves(r, q)
    <3>1. run' = [run EXCEPT ![r] = q] BY <1>5 DEF LoadState, Loaded
    <3> HIDE DEF q
    <3> QED BY <1>2, <1>4, <1>5, <2>1, <2>2, <3>1 DEF LoadState, MintUnchanged, Moves
  <2> QED BY <2>3, MovesKeep
<1>6. CASE Stop(r)
  <2>1. Stopped \in RunStates /\ Stopped.pc = "idle"
    BY DEF Stopped, NoState, RunStates, CheckStates
  <2>2. Moves(r, Stopped)
    BY <1>2, <1>4, <1>6, <2>1 DEF Stop, MintUnchanged, Moves
  <2> QED BY <2>2, MovesKeep
<1>7. CASE PayQuote(r)
  <2> DEFINE q == [run[r] EXCEPT !.pc = "paying"]
  <2>1. q \in RunStates /\ q.pc = "paying" /\ q.state = st BY <1>2 DEF RunStates
  <2>2. run' = [run EXCEPT ![r] = q] BY <1>2, <1>7 DEF PayQuote
  <2>3. run[r].pc # "idle" /\ st.quote \in Invoices BY <1>3, <1>7 DEF PayQuote, At, About
  <2> HIDE DEF q
  <2>4. Moves(r, q) BY <1>2, <1>3, <1>4, <1>7, <2>1, <2>2, <2>3 DEF PayQuote, MintUnchanged, Moves
  <2> QED BY <2>4, MovesKeep
<1>8. CASE AwaitRefund(r)
  <2> DEFINE q == [run[r] EXCEPT !.pc = "waiting"]
             a == [h |-> st.h, refund |-> st.refund]
  <2>1. q \in RunStates /\ q.pc = "waiting" /\ q.state = st BY <1>2 DEF RunStates
  <2>2. run' = [run EXCEPT ![r] = q] BY <1>2, <1>8 DEF AwaitRefund
  <2>3. run[r].pc # "idle" /\ st.h = file.h /\ st.refund \in Refunds
    BY <1>3, <1>8 DEF AwaitRefund, At, About
  <2>4. a \in [h : Secrets, refund : Refunds] /\ a.h = file.h BY <1>1, <2>3
  <2>5. asked' = asked \/ asked' = asked \union {a} BY <1>8 DEF AwaitRefund
  <2> HIDE DEF q, a
  <2>6. asked' \subseteq [h : Secrets, refund : Refunds] /\ \A b \in asked' : b.h = file.h
    BY <1>2, <1>4, <2>4, <2>5
  <2>7. UNCHANGED <<file, quoted, held, melt, paying>> BY <1>8 DEF AwaitRefund, MintUnchanged
  <2>8. Moves(r, q) BY <1>2, <1>3, <2>1, <2>2, <2>3, <2>6, <2>7 DEF Moves
  <2> QED BY <2>8, MovesKeep
<1>9. ASSUME NEW state \in CheckStates, NEW pc \in {"save", "saveAndThrow"}, About(state, file.h),
             run' = [run EXCEPT ![r] = [pc |-> pc, state |-> state]],
             UNCHANGED <<file, quoted, held, melt, paying, asked>>
      PROVE  CheckInv'
  <2> DEFINE q == [pc |-> pc, state |-> state]
  <2>1. q \in RunStates /\ q.pc = pc /\ q.state = state BY DEF RunStates
  <2>2. run' = [run EXCEPT ![r] = q] BY <1>9
  <2> HIDE DEF q
  <2>3. Moves(r, q) BY <1>2, <1>4, <1>9, <2>1, <2>2 DEF Moves
  <2> QED BY <2>3, MovesKeep
<1>10. CASE SeeSettled(r)
  <2> DEFINE state == [st EXCEPT !.stage = "settled"]
  <2>1. state \in CheckStates /\ state.stage = "settled" /\ state.h = st.h
    BY <1>2 DEF CheckStates, Stages
  <2>2. run[r].pc # "idle" BY <1>10 DEF SeeSettled, At
  <2>3. run' = [run EXCEPT ![r] = [pc |-> "save", state |-> state]]
        /\ UNCHANGED <<file, quoted, held, melt, paying, asked>>
    BY <1>10 DEF SeeSettled, Reached, MintUnchanged
  <2> HIDE DEF state
  <2>4. About(state, file.h) BY <1>3, <2>1, <2>2 DEF About, Stages
  <2> QED BY <1>9, <2>1, <2>3, <2>4
<1>11. CASE ClaimNote(r)
  <2> DEFINE state == [st EXCEPT !.stage = "claimed"]
  <2>1. state \in CheckStates /\ state.stage = "claimed" /\ state.h = st.h
    BY <1>2 DEF CheckStates, Stages
  <2>2. run[r].pc # "idle" BY <1>11 DEF ClaimNote, At
  <2>3. run' = [run EXCEPT ![r] = [pc |-> "save", state |-> state]]
        /\ UNCHANGED <<file, quoted, held, melt, paying, asked>>
    BY <1>11 DEF ClaimNote, Reached, MintUnchanged
  <2> HIDE DEF state
  <2>4. About(state, file.h) BY <1>3, <2>1, <2>2 DEF About, Stages
  <2> QED BY <1>9, <2>1, <2>3, <2>4
<1>12. CASE CreateRefund(r)
  <2>0. PICK f \in Refunds : Reached(r, [st EXCEPT !.stage = "retiring", !.refund = f])
    BY <1>12 DEF CreateRefund
  <2> DEFINE state == [st EXCEPT !.stage = "retiring", !.refund = f]
  <2>1. /\ state \in CheckStates /\ state.stage = "retiring" /\ state.h = st.h
        /\ state.refund = f
    BY <1>2 DEF CheckStates, Stages
  <2>2. run[r].pc # "idle" BY <1>12 DEF CreateRefund, At
  <2>3. run' = [run EXCEPT ![r] = [pc |-> "save", state |-> state]]
        /\ UNCHANGED <<file, quoted, held, melt, paying, asked>>
    BY <1>12, <2>0 DEF CreateRefund, Reached, MintUnchanged
  <2> HIDE DEF state
  <2>4. About(state, file.h) BY <1>3, <2>1, <2>2 DEF About, Stages
  <2> QED BY <1>9, <2>1, <2>3, <2>4
<1>13. CASE Retire(r)
  <2> DEFINE state == [NoState EXCEPT !.stage = "retired", !.h = st.h]
  <2>1. state \in CheckStates /\ state.stage = "retired" /\ state.h = st.h
    BY <1>2 DEF CheckStates, Stages, NoState
  <2>2. run[r].pc # "idle" /\ held[st.h] = "burned" BY <1>13 DEF Retire, NoteRetired
  <2>3. run' = [run EXCEPT ![r] = [pc |-> "save", state |-> state]]
        /\ UNCHANGED <<file, quoted, held, melt, paying, asked>>
    BY <1>13 DEF Retire, Reached, MintUnchanged
  <2> HIDE DEF state
  <2>4. About(state, file.h) BY <1>3, <2>1, <2>2 DEF About, Stages
  <2> QED BY <1>9, <2>1, <2>3, <2>4
<1>14. CASE RestoreClaimed(r)
  <2> DEFINE state == [st EXCEPT !.stage = "claimed", !.refund = NoRefund]
  <2>1. state \in CheckStates /\ state.stage = "claimed" /\ state.h = st.h
    BY <1>2 DEF CheckStates, Stages
  <2>2. run[r].pc # "idle" BY <1>14 DEF RestoreClaimed
  <2>3. run' = [run EXCEPT ![r] = [pc |-> "saveAndThrow", state |-> state]]
        /\ UNCHANGED <<file, quoted, held, melt, paying, asked>>
    BY <1>2, <1>14 DEF RestoreClaimed, MintUnchanged
  <2> HIDE DEF state
  <2>4. About(state, file.h) BY <1>3, <2>1, <2>2 DEF About, Stages
  <2> QED BY <1>9, <2>1, <2>3, <2>4
<1> QED BY <1>5, <1>6, <1>7, <1>8, <1>10, <1>11, <1>12, <1>13, <1>14

LEMMA ReplaceKeeps ==
  ASSUME CheckInv, Written, NEW r \in Runs, ReplaceState(r)
  PROVE  CheckInv'
<1>1. CheckTypeOK /\ OneSecret /\ OneInvoice /\ OneRefund /\ file.h \in Secrets BY DEF CheckInv
<1>2. run \in [Runs -> RunStates] /\ run[r] \in RunStates /\ run[r].state \in CheckStates
  BY <1>1, CheckTypeFacts DEF RunStates
<1>3. About(run[r].state, file.h) BY <1>1 DEF OneSecret, ReplaceState
<1>4. /\ file' = run[r].state /\ UNCHANGED <<quoted, held, melt, paying, asked>>
      /\ run' = [run EXCEPT ![r] = IF run[r].pc = "saveAndThrow" \/ run[r].state.stage = "retired"
                                     THEN Stopped ELSE [run[r] EXCEPT !.pc = "at"]]
  BY <1>2 DEF ReplaceState, MintUnchanged
<1>5. PICK q \in RunStates :
        /\ run' = [run EXCEPT ![r] = q]
        /\ q.pc = "idle" \/ (q.pc = "at" /\ q.state = run[r].state)
  <2>1. Stopped \in RunStates /\ Stopped.pc = "idle"
    BY DEF Stopped, NoState, RunStates, CheckStates
  <2> DEFINE q == [run[r] EXCEPT !.pc = "at"]
  <2>2. q \in RunStates /\ q.pc = "at" /\ q.state = run[r].state BY <1>2 DEF RunStates
  <2> HIDE DEF q
  <2>3. run' = [run EXCEPT ![r] = Stopped] \/ run' = [run EXCEPT ![r] = q] BY <1>4 DEF q
  <2> QED BY <2>1, <2>2, <2>3
<1>6. file'.h = file.h /\ About(file', file.h) BY <1>3, <1>4 DEF About
<1>7. CheckTypeOK'
  <2>1. run' \in [Runs -> RunStates] BY <1>2, <1>5
  <2> QED BY <1>1, <1>2, <1>4, <2>1 DEF CheckTypeOK, RunStates, CheckStates
<1>8. ASSUME NEW p \in Runs
      PROVE  run'[p].pc # "creating" /\ (run'[p].pc # "idle" => About(run'[p].state, file.h))
  <2>1. CASE p = r BY <1>2, <1>3, <1>5, <2>1
  <2>2. CASE p # r
    <3>1. run'[p] = run[p] BY <1>2, <1>5, <2>2
    <3> QED BY <1>1, <3>1 DEF OneSecret
  <2> QED BY <2>1, <2>2
<1>9. OneSecret' BY <1>1, <1>4, <1>6, <1>8 DEF OneSecret, About
<1>10. OneInvoice' /\ OneRefund' BY <1>1, <1>4, <1>6 DEF OneInvoice, OneRefund
<1>11. Written' BY <1>3, <1>4 DEF Written, About
<1> QED BY <1>1, <1>6, <1>7, <1>8, <1>9, <1>10, <1>11 DEF CheckInv

LEMMA RequestKeeps ==
  ASSUME CheckInv, Written, NEW r \in Runs, RequestQuote(r)
  PROVE  CheckInv'
<1>1. CheckTypeOK /\ OneSecret /\ OneInvoice /\ OneRefund /\ file.h \in Secrets BY DEF CheckInv
<1>2. run \in [Runs -> RunStates] /\ run[r] \in RunStates /\ run[r].state \in CheckStates
  BY <1>1, CheckTypeFacts DEF RunStates
<1>3. About(run[r].state, file.h) /\ run[r].state.h = file.h
  BY <1>1 DEF OneSecret, RequestQuote, At, About
<1>4. PICK i \in Invoices :
        /\ quoted[i].state = "none"
        /\ quoted' = [quoted EXCEPT ![i] = [state |-> "open", h |-> run[r].state.h]]
        /\ Reached(r, [run[r].state EXCEPT !.stage = "quoted", !.quote = i])
  BY DEF RequestQuote
<1> DEFINE state == [run[r].state EXCEPT !.stage = "quoted", !.quote = i]
           q == [pc |-> "save", state |-> state]
<1>5. /\ state \in CheckStates /\ state.stage = "quoted" /\ state.quote = i
      /\ state.h = file.h
  BY <1>2, <1>3 DEF CheckStates, Stages
<1>6. run' = [run EXCEPT ![r] = q] BY <1>4 DEF Reached
<1> HIDE DEF state
<1>7. q \in RunStates /\ q.pc = "save" /\ q.state = state BY <1>5 DEF RunStates
<1> HIDE DEF q
<1>8. UNCHANGED <<file, held, melt, paying, asked>> BY DEF RequestQuote
<1>9. quoted \in [Invoices -> [state : {"none", "open", "paid", "expired"},
                               h : Secrets \union {NoSecret}]]
  BY <1>1, CheckTypeFacts
<1> DEFINE new == [state |-> "open", h |-> file.h]
<1>10. /\ new \in [state : {"none", "open", "paid", "expired"}, h : Secrets \union {NoSecret}]
       /\ new.state = "open" /\ new.h = file.h
  BY <1>1
<1>11. quoted' = [quoted EXCEPT ![i] = new] BY <1>3, <1>4
<1> HIDE DEF new
<1>12. /\ quoted' \in [Invoices -> [state : {"none", "open", "paid", "expired"},
                                   h : Secrets \union {NoSecret}]]
       /\ quoted'[i] = new /\ \A p \in Invoices : p # i => quoted'[p] = quoted[p]
  BY <1>9, <1>10, <1>11
<1>13. CheckTypeOK'
  <2>1. run' \in [Runs -> RunStates] BY <1>2, <1>6, <1>7
  <2> QED BY <1>1, <1>8, <1>12, <2>1 DEF CheckTypeOK, RunStates, CheckStates
<1>14. held[file.h] = "none" /\ \A p \in Invoices : quoted[p].state \in {"none", "expired"}
  <2>1. /\ held[file.h] = "none"
        /\ \A p \in Invoices : quoted[p].h = file.h => quoted[p].state = "expired"
    BY <1>3 DEF RequestQuote, Quotable
  <2> QED BY <1>1, <2>1 DEF OneSecret
<1>15. OneInvoice'
  <2>1. \A p \in Invoices : quoted'[p].state \in {"open", "paid"} => p = i BY <1>12, <1>14
  <2>2. \A p \in Invoices : quoted'[p].state # "paid" BY <1>10, <1>12, <1>14
  <2>3. held'[file'.h] = "none" BY <1>8, <1>14
  <2> QED BY <2>1, <2>2, <2>3 DEF OneInvoice
<1>16. ASSUME NEW p \in Runs
       PROVE  run'[p].pc # "creating" /\ (run'[p].pc # "idle" => About(run'[p].state, file.h))
  <2>1. CASE p = r
    <3>1. About(state, file.h) BY <1>5 DEF About, Stages
    <3> QED BY <1>2, <1>6, <1>7, <2>1, <3>1
  <2>2. CASE p # r
    <3>1. run'[p] = run[p] BY <1>2, <1>6, <1>7, <2>2
    <3> QED BY <1>1, <3>1 DEF OneSecret
  <2> QED BY <2>1, <2>2
<1>17. \A p \in Invoices : quoted'[p].state # "none" => quoted'[p].h = file.h
  BY <1>1, <1>10, <1>12 DEF OneSecret
<1>18. OneSecret' BY <1>1, <1>8, <1>16, <1>17 DEF OneSecret, About
<1>19. OneRefund' /\ Written' BY <1>1, <1>8 DEF OneRefund, Written
<1> QED BY <1>1, <1>8, <1>13, <1>15, <1>16, <1>18, <1>19 DEF CheckInv

Quotes == [state : {"none", "open", "paid", "expired"}, h : Secrets \union {NoSecret}]
NoteStates == {"none", "outstanding", "pending", "burned"}
MeltStates == {"none", "pending", "settled", "failed"}

\* The mint and the payer move on, and the check does not.
MintMoves ==
  /\ UNCHANGED <<file, run, paying>> /\ asked' \subseteq asked
  /\ held' \in [Secrets -> NoteStates] /\ melt' \in [Refunds -> MeltStates]
  /\ \A s \in Secrets : s # file.h => held'[s] = held[s]
  /\ held[file.h] = "burned" => held'[file.h] = "burned"
  /\ quoted' \in [Invoices -> Quotes]
  /\ \A q \in Invoices : quoted'[q].state # "none" => quoted'[q].h = file.h

LEMMA MintMovesKeep ==
  ASSUME CheckInv, Written, MintMoves, OneInvoice', OneRefund'
  PROVE  CheckInv'
<1>1. CheckTypeOK /\ OneSecret /\ file.h \in Secrets BY DEF CheckInv
<1>2. CheckTypeOK' BY <1>1 DEF CheckTypeOK, MintMoves, Quotes, NoteStates, MeltStates
<1>3. ASSUME NEW state, About(state, file.h)
      PROVE  /\ state.stage \in Stages /\ state.h = file.h
             /\ state.stage = "quoted" => state.quote \in Invoices
             /\ state.stage = "retiring" => state.refund \in Refunds
             /\ state.stage = "retired" => held'[file.h] = "burned"
  BY <1>3 DEF About, MintMoves
<1>4. /\ About(file, file.h)
      /\ \A r \in Runs : run[r].pc # "creating"
                         /\ (run[r].pc # "idle" => About(run[r].state, file.h))
  BY <1>1 DEF OneSecret
<1>5. file' = file /\ run' = run BY DEF MintMoves
<1>6. About(file, file.h)' /\ \A r \in Runs : run'[r].pc # "idle" => About(run[r].state, file.h)'
  BY <1>3, <1>4, <1>5 DEF About
<1>7. /\ \A s \in Secrets : s # file.h => held'[s] = "none"
      /\ \A a \in asked' : a.h = file.h
  BY <1>1 DEF OneSecret, MintMoves
<1>8. OneSecret' BY <1>4, <1>5, <1>6, <1>7 DEF OneSecret, MintMoves
<1>9. Written' BY <1>5 DEF Written
<1> QED BY <1>1, <1>2, <1>4, <1>5, <1>8, <1>9 DEF CheckInv

LEMMA PaymentKeeps ==
  ASSUME CheckInv, Written, NEW q \in Invoices, PaymentArrives(q)
  PROVE  CheckInv'
<1>1. CheckTypeOK /\ OneSecret /\ OneInvoice /\ OneRefund /\ file.h \in Secrets BY DEF CheckInv
<1>2. /\ quoted \in [Invoices -> Quotes] /\ held \in [Secrets -> NoteStates]
      /\ melt \in [Refunds -> MeltStates]
  BY <1>1, CheckTypeFacts DEF Quotes, NoteStates, MeltStates
<1>3. quoted[q].state = "open" /\ quoted[q].h = file.h BY <1>1 DEF PaymentArrives, OneSecret
<1>4. /\ quoted' = [quoted EXCEPT ![q].state = "paid"]
      /\ held' = [held EXCEPT ![file.h] = "outstanding"]
      /\ UNCHANGED <<file, run, melt, paying, asked>>
  BY <1>3 DEF PaymentArrives
<1>5. /\ quoted' \in [Invoices -> Quotes] /\ quoted'[q].state = "paid" /\ quoted'[q].h = file.h
      /\ \A p \in Invoices : p # q => quoted'[p] = quoted[p]
  BY <1>2, <1>3, <1>4 DEF Quotes
<1>6. /\ held' \in [Secrets -> NoteStates] /\ held'[file.h] = "outstanding"
      /\ \A s \in Secrets : s # file.h => held'[s] = held[s]
  BY <1>1, <1>2, <1>4 DEF NoteStates
<1>7. \A p \in Invoices : p # q => quoted[p].state \notin {"open", "paid"}
  BY <1>1, <1>3 DEF OneInvoice
<1>8. held[file.h] = "none" BY <1>1, <1>3, <1>7 DEF OneInvoice
<1>9. OneInvoice' BY <1>4, <1>5, <1>6, <1>7 DEF OneInvoice
<1>10. \A f \in Refunds : melt[f] \notin {"pending", "settled"} BY <1>1, <1>8 DEF OneRefund
<1>11. OneRefund' BY <1>4, <1>6, <1>10 DEF OneRefund
<1>12. \A p \in Invoices : quoted'[p].state # "none" => quoted'[p].h = file.h
  BY <1>1, <1>5 DEF OneSecret
<1>13. MintMoves BY <1>2, <1>4, <1>5, <1>6, <1>8, <1>12 DEF MintMoves
<1> QED BY <1>9, <1>11, <1>13, MintMovesKeep

LEMMA ExpiryKeeps ==
  ASSUME CheckInv, Written, NEW q \in Invoices, QuoteExpires(q)
  PROVE  CheckInv'
<1>1. CheckTypeOK /\ OneSecret /\ OneInvoice /\ OneRefund /\ file.h \in Secrets BY DEF CheckInv
<1>2. /\ quoted \in [Invoices -> Quotes] /\ held \in [Secrets -> NoteStates]
      /\ melt \in [Refunds -> MeltStates]
  BY <1>1, CheckTypeFacts DEF Quotes, NoteStates, MeltStates
<1>3. /\ quoted[q].state = "open" /\ quoted' = [quoted EXCEPT ![q].state = "expired"]
      /\ UNCHANGED <<file, run, held, melt, paying, asked>>
  BY DEF QuoteExpires
<1>4. /\ quoted' \in [Invoices -> Quotes]
      /\ quoted'[q].state = "expired" /\ quoted'[q].h = quoted[q].h
      /\ \A p \in Invoices : p # q => quoted'[p] = quoted[p]
  BY <1>2, <1>3 DEF Quotes
<1>5. \A p \in Invoices : quoted'[p].state \in {"open", "paid"} => quoted'[p] = quoted[p]
  BY <1>4
<1>6. (\E p \in Invoices : quoted'[p].state = "paid") <=> \E p \in Invoices : quoted[p].state = "paid"
  <2>1. ASSUME NEW p \in Invoices, quoted[p].state = "paid" PROVE quoted'[p].state = "paid"
    <3>1. p # q BY <1>3, <2>1
    <3> QED BY <1>4, <2>1, <3>1
  <2> QED BY <1>5, <2>1
<1>7. OneInvoice' BY <1>1, <1>3, <1>5, <1>6 DEF OneInvoice
<1>8. OneRefund' BY <1>1, <1>3 DEF OneRefund
<1>9. \A p \in Invoices : quoted'[p].state # "none" => quoted'[p].h = file.h
  BY <1>1, <1>3, <1>4 DEF OneSecret
<1>10. MintMoves BY <1>2, <1>3, <1>4, <1>9 DEF MintMoves
<1> QED BY <1>7, <1>8, <1>10, MintMovesKeep

LEMMA MeltArrivesKeeps ==
  ASSUME CheckInv, Written, NEW a \in asked, MeltArrives(a)
  PROVE  CheckInv'
<1>1. CheckTypeOK /\ OneSecret /\ OneInvoice /\ OneRefund /\ file.h \in Secrets BY DEF CheckInv
<1>2. /\ quoted \in [Invoices -> Quotes] /\ held \in [Secrets -> NoteStates]
      /\ melt \in [Refunds -> MeltStates] /\ asked \subseteq [h : Secrets, refund : Refunds]
  BY <1>1, CheckTypeFacts DEF Quotes, NoteStates, MeltStates
<1>3. a.h = file.h /\ a.refund \in Refunds BY <1>1, <1>2 DEF OneSecret
<1>4. asked' \subseteq asked /\ UNCHANGED <<file, run, quoted, paying>> BY DEF MeltArrives
<1>5. \A p \in Invoices : quoted[p].state # "none" => quoted[p].h = file.h BY <1>1 DEF OneSecret
<1>6. CASE UNCHANGED <<held, melt>>
  <2>1. OneInvoice' /\ OneRefund' BY <1>1, <1>4, <1>6 DEF OneInvoice, OneRefund
  <2>2. MintMoves BY <1>2, <1>4, <1>5, <1>6 DEF MintMoves
  <2> QED BY <2>1, <2>2, MintMovesKeep
<1>7. CASE /\ held[a.h] = "outstanding" /\ melt[a.refund] \in {"none", "failed"}
           /\ held' = [held EXCEPT ![a.h] = "pending"]
           /\ melt' = [melt EXCEPT ![a.refund] = "pending"]
  <2>1. /\ held' \in [Secrets -> NoteStates] /\ held'[file.h] = "pending"
        /\ \A s \in Secrets : s # file.h => held'[s] = held[s]
    BY <1>1, <1>2, <1>3, <1>7 DEF NoteStates
  <2>2. /\ melt' \in [Refunds -> MeltStates] /\ melt'[a.refund] = "pending"
        /\ \A f \in Refunds : f # a.refund => melt'[f] = melt[f]
    BY <1>2, <1>3, <1>7 DEF MeltStates
  <2>3. held[file.h] = "outstanding" BY <1>3, <1>7
  <2>4. OneInvoice' BY <1>1, <1>4, <2>1, <2>3 DEF OneInvoice
  <2>5. \A f \in Refunds : melt[f] \notin {"pending", "settled"} BY <1>1, <2>3 DEF OneRefund
  <2>6. OneRefund' BY <1>4, <2>1, <2>2, <2>5 DEF OneRefund
  <2>7. MintMoves BY <1>2, <1>4, <1>5, <2>1, <2>2, <2>3 DEF MintMoves
  <2> QED BY <2>4, <2>6, <2>7, MintMovesKeep
<1> QED BY <1>6, <1>7 DEF MeltArrives

LEMMA MeltEndsKeeps ==
  ASSUME CheckInv, Written, NEW f \in Refunds, MeltEnds(f)
  PROVE  CheckInv'
<1>1. CheckTypeOK /\ OneSecret /\ OneInvoice /\ OneRefund /\ file.h \in Secrets BY DEF CheckInv
<1>2. /\ quoted \in [Invoices -> Quotes] /\ held \in [Secrets -> NoteStates]
      /\ melt \in [Refunds -> MeltStates]
  BY <1>1, CheckTypeFacts DEF Quotes, NoteStates, MeltStates
<1>3. UNCHANGED <<file, run, quoted, paying, asked>> BY DEF MeltEnds
<1>4. melt[f] = "pending" /\ held[file.h] = "pending" BY <1>1 DEF MeltEnds, OneRefund
<1>5. \A s \in Secrets : held[s] = "pending" => s = file.h BY <1>1 DEF OneSecret
<1>6. PICK m, n : /\ \/ m = "settled" /\ n = "burned"
                     \/ m = "failed" /\ n = "outstanding"
                  /\ melt' = [melt EXCEPT ![f] = m] /\ held' = [held EXCEPT ![file.h] = n]
  BY <1>5 DEF MeltEnds
<1>7. m \in MeltStates /\ n \in NoteStates \ {"none"} BY <1>6 DEF MeltStates, NoteStates
<1>8. /\ held' \in [Secrets -> NoteStates] /\ held'[file.h] = n
      /\ \A s \in Secrets : s # file.h => held'[s] = held[s]
  BY <1>1, <1>2, <1>6, <1>7
<1>9. /\ melt' \in [Refunds -> MeltStates] /\ melt'[f] = m
      /\ \A g \in Refunds : g # f => melt'[g] = melt[g]
  BY <1>2, <1>6, <1>7
<1>10. \A g \in Refunds : g # f => melt[g] \notin {"pending", "settled"}
  BY <1>1, <1>4 DEF OneRefund
<1>11. OneInvoice' BY <1>1, <1>3, <1>4, <1>7, <1>8 DEF OneInvoice
<1>12. OneRefund' BY <1>3, <1>6, <1>8, <1>9, <1>10 DEF OneRefund
<1>13. \A p \in Invoices : quoted[p].state # "none" => quoted[p].h = file.h BY <1>1 DEF OneSecret
<1>14. MintMoves BY <1>2, <1>3, <1>4, <1>8, <1>9, <1>13 DEF MintMoves
<1> QED BY <1>11, <1>12, <1>14, MintMovesKeep

LEMMA CreateKeeps ==
  ASSUME CheckInv, NEW r \in Runs, CreateState(r)
  PROVE  CheckInv'
<1>1. file.stage = "none" BY DEF CreateState, Creatable
<1>2. CheckTypeOK /\ NothingYet BY <1>1 DEF CheckInv, Written, Stages
<1>3. file \in CheckStates /\ run \in [Runs -> RunStates] BY <1>2, CheckTypeFacts
<1>4. PICK s \in Secrets :
        run' = [run EXCEPT ![r] = [pc |-> "creating",
                                   state |-> [NoState EXCEPT !.stage = "prepared", !.h = s]]]
  BY DEF CreateState
<1> DEFINE state == [NoState EXCEPT !.stage = "prepared", !.h = s]
           q == [pc |-> "creating", state |-> state]
<1>5. state \in CheckStates /\ state.stage = "prepared" /\ state.h = s
  BY DEF CheckStates, NoState, Stages
<1>6. run' = [run EXCEPT ![r] = q] BY <1>4
<1> HIDE DEF state
<1>7. q \in RunStates /\ q.pc = "creating" /\ q.state = state BY <1>5 DEF RunStates
<1> HIDE DEF q
<1>8. /\ run' \in [Runs -> RunStates] /\ run'[r] = q
      /\ \A p \in Runs : p # r => run'[p] = run[p]
  BY <1>3, <1>6, <1>7
<1>9. \A p \in Runs : run[p].pc = "idle" BY <1>1, <1>2 DEF NothingYet
<1>10. UNCHANGED <<quoted, held, melt, paying, asked>> BY DEF CreateState, MintUnchanged
<1>11. file' = [file EXCEPT !.stage = "partial"] BY DEF CreateState
<1>12. file' \in CheckStates /\ file'.stage = "partial" /\ file'.h = file.h
  BY <1>3, <1>11 DEF CheckStates
<1>13. CheckTypeOK' BY <1>2, <1>8, <1>10, <1>12 DEF CheckTypeOK, RunStates, CheckStates
<1>14. ~Written' BY <1>12 DEF Written, Stages
<1>15. \A p \in Runs : run'[p].pc = "creating" => p = r BY <1>8, <1>9
<1>16. \A p \in Runs : run'[p].pc \in {"idle", "creating"} BY <1>7, <1>8, <1>9
<1>17. NothingYet' BY <1>2, <1>10, <1>12, <1>15, <1>16 DEF NothingYet
<1>18. \A p \in Runs : run'[p].pc = "creating" =>
         /\ run'[p].state \in CheckStates /\ run'[p].state.stage = "prepared"
         /\ run'[p].state.h \in Secrets
  BY <1>5, <1>7, <1>8, <1>15
<1> QED BY <1>13, <1>14, <1>17, <1>18 DEF CheckInv

LEMMA WriteKeeps ==
  ASSUME CheckInv, NEW r \in Runs, WriteNewState(r)
  PROVE  CheckInv'
<1>1. run[r].pc = "creating" BY DEF WriteNewState
<1>2. CheckTypeOK /\ NothingYet BY <1>1 DEF CheckInv, OneSecret
<1>3. run \in [Runs -> RunStates] /\ run[r] \in RunStates BY <1>2, CheckTypeFacts
<1> DEFINE q == [run[r] EXCEPT !.pc = "at"]
<1>4. q \in RunStates /\ q.pc = "at" /\ q.state = run[r].state BY <1>3 DEF RunStates
<1>5. run' = [run EXCEPT ![r] = q] BY <1>3 DEF WriteNewState
<1> HIDE DEF q
<1>6. /\ run' \in [Runs -> RunStates] /\ run'[r] = q
      /\ \A p \in Runs : p # r => run'[p] = run[p]
  BY <1>3, <1>4, <1>5
<1>7. /\ file' = run[r].state /\ UNCHANGED <<quoted, held, melt, paying, asked>>
      /\ file' \in CheckStates /\ file'.stage = "prepared" /\ file'.h \in Secrets
  BY <1>1 DEF WriteNewState, MintUnchanged, CheckInv
<1>8. \A p \in Runs : p # r => run'[p].pc = "idle" BY <1>1, <1>2, <1>6 DEF NothingYet
<1>9. CheckTypeOK' BY <1>2, <1>6, <1>7 DEF CheckTypeOK, RunStates, CheckStates
<1>10. Written' BY <1>7 DEF Written, Stages
<1>12. About(file, file.h)' BY <1>7 DEF About, Stages
<1>13. ASSUME NEW p \in Runs
       PROVE  run'[p].pc # "creating" /\ (run'[p].pc # "idle" => run'[p].state = file')
  <2>1. CASE p = r BY <1>4, <1>6, <1>7, <2>1
  <2>2. CASE p # r BY <1>8, <2>2
  <2> QED BY <2>1, <2>2
<1>14. OneSecret' BY <1>2, <1>7, <1>12, <1>13 DEF OneSecret, NothingYet, About
<1>15. OneInvoice' /\ OneRefund' BY <1>2, <1>7 DEF OneInvoice, OneRefund, NothingYet
<1> QED BY <1>7, <1>9, <1>10, <1>13, <1>14, <1>15 DEF CheckInv

LEMMA StopBeforeKeeps ==
  ASSUME CheckInv, ~Written, NEW r \in Runs, Stop(r)
  PROVE  CheckInv'
<1>1. CheckTypeOK /\ NothingYet BY DEF CheckInv
<1>2. run \in [Runs -> RunStates] BY <1>1, CheckTypeFacts
<1>3. Stopped \in RunStates /\ Stopped.pc = "idle"
  BY DEF Stopped, NoState, RunStates, CheckStates
<1>4. /\ run' \in [Runs -> RunStates] /\ run'[r] = Stopped
      /\ \A p \in Runs : p # r => run'[p] = run[p]
  BY <1>2, <1>3 DEF Stop
<1>5. UNCHANGED <<file, quoted, held, melt, paying, asked>> BY DEF Stop, MintUnchanged
<1>6. CheckTypeOK' BY <1>1, <1>4, <1>5 DEF CheckTypeOK, RunStates, CheckStates
<1>7. \A p \in Runs : run'[p].pc # "idle" => run'[p] = run[p] BY <1>3, <1>4
<1>8. NothingYet' BY <1>1, <1>5, <1>7 DEF NothingYet
<1>9. ~Written' BY <1>5 DEF Written
<1>10. \A p \in Runs : run'[p].pc = "creating" => run'[p] = run[p] BY <1>7
<1> QED BY <1>6, <1>8, <1>9, <1>10 DEF CheckInv

\* Nothing else happens before the file is written.
LEMMA LittleBefore ==
  ASSUME CheckInv, ~Written, CheckNext
  PROVE  \E r \in Runs : CreateState(r) \/ WriteNewState(r) \/ Stop(r)
<1>1. NothingYet BY DEF CheckInv
<1>2. ASSUME NEW r \in Runs
      PROVE  /\ ~LoadState(r) /\ ~ReplaceState(r) /\ ~RequestQuote(r) /\ ~PayQuote(r)
             /\ ~SeeSettled(r) /\ ~ClaimNote(r) /\ ~CreateRefund(r) /\ ~AwaitRefund(r)
             /\ ~Retire(r) /\ ~RestoreClaimed(r)
  <2>1. run[r].pc \in {"idle", "creating"} BY <1>1 DEF NothingYet
  <2>2. ~LoadState(r) BY DEF LoadState, Written
  <2> QED BY <2>1, <2>2 DEF ReplaceState, RequestQuote, PayQuote, SeeSettled, ClaimNote,
         CreateRefund, AwaitRefund, Retire, RestoreClaimed, At
<1>3. ASSUME NEW q \in Invoices PROVE ~PaymentArrives(q) /\ ~QuoteExpires(q)
  BY <1>1 DEF NothingYet, PaymentArrives, QuoteExpires
<1>4. asked = {} BY <1>1 DEF NothingYet
<1>5. ASSUME NEW f \in Refunds PROVE ~MeltEnds(f) BY <1>1 DEF NothingYet, MeltEnds
<1> QED BY <1>2, <1>3, <1>4, <1>5 DEF CheckNext

LEMMA CheckStep == CheckInv /\ [CheckNext]_checkVars => CheckInv'
<1> SUFFICES ASSUME CheckInv, [CheckNext]_checkVars PROVE CheckInv'
  OBVIOUS
<1>1. CASE UNCHANGED checkVars
  BY <1>1 DEF checkVars, CheckInv, CheckTypeOK, Written, NothingYet, OneSecret, About,
     OneInvoice, OneRefund
<1>2. CASE CheckNext /\ ~Written
  BY <1>2, LittleBefore, CreateKeeps, WriteKeeps, StopBeforeKeeps
<1>3. CASE CheckNext /\ Written
  <2>1. ASSUME NEW r \in Runs,
               \/ CreateState(r) \/ WriteNewState(r) \/ LoadState(r) \/ ReplaceState(r) \/ Stop(r)
               \/ RequestQuote(r) \/ PayQuote(r) \/ SeeSettled(r) \/ ClaimNote(r)
               \/ CreateRefund(r) \/ AwaitRefund(r) \/ Retire(r) \/ RestoreClaimed(r)
        PROVE  CheckInv'
    BY <1>3, <2>1, CreateKeeps, WriteKeeps, ReplaceKeeps, RequestKeeps, InMemory
  <2>2. ASSUME NEW q \in Invoices, PaymentArrives(q) \/ QuoteExpires(q) PROVE CheckInv'
    BY <1>3, <2>2, PaymentKeeps, ExpiryKeeps
  <2>3. ASSUME NEW a \in asked, MeltArrives(a) PROVE CheckInv'
    BY <1>3, <2>3, MeltArrivesKeeps
  <2>4. ASSUME NEW f \in Refunds, MeltEnds(f) PROVE CheckInv'
    BY <1>3, <2>4, MeltEndsKeeps
  <2> QED BY <1>3, <2>1, <2>2, <2>3, <2>4 DEF CheckNext
<1> QED BY <1>1, <1>2, <1>3

\* However the check is killed, rerun or run twice at once, an invoice that can
\* still be paid and a note that holds value have their secret in the state
\* file (live-check.ts, loadOrCreateState and the retiring stage).
THEOREM TheFileKeepsTheSecret == CheckSpec => []SecretOutlivesTheValue
<1>1. CheckInv => SecretOutlivesTheValue
  <2> SUFFICES ASSUME CheckInv, NEW s \in Secrets,
                      \/ held[s] \in {"outstanding", "pending"}
                      \/ \E q \in paying : quoted[q].h = s /\ quoted[q].state = "open"
               PROVE  file.h = s /\ file.stage \in Stages \ {"retired"}
    BY DEF SecretOutlivesTheValue
  <2>0. paying \subseteq Invoices BY DEF CheckInv, CheckTypeOK
  <2>1. Written BY <2>0 DEF CheckInv, NothingYet
  <2>2. OneSecret /\ OneInvoice BY <2>1 DEF CheckInv
  <2>3. file.h = s BY <2>0, <2>2 DEF OneSecret
  <2>4. file.stage = "retired" => held[s] = "burned" BY <2>2, <2>3 DEF OneSecret, About
  <2>5. held[s] # "burned"
    <3>1. CASE \E q \in paying : quoted[q].h = s /\ quoted[q].state = "open"
      <4>1. PICK q \in Invoices : quoted[q].state = "open" BY <2>0, <3>1
      <4>2. \A p \in Invoices : quoted[p].state # "paid" BY <2>2, <4>1 DEF OneInvoice
      <4> QED BY <2>2, <2>3, <4>2 DEF OneInvoice
    <3> QED BY <3>1
  <2> QED BY <2>1, <2>3, <2>4, <2>5 DEF Written
<1> QED BY CheckStart, CheckStep, <1>1, PTL DEF CheckSpec

\* Any number of invocations pay the mint once and are refunded once, and none
\* records a note as retired that was not burned for a refund that was paid.
THEOREM ChecksPayOnce == CheckSpec => []OnePaymentOneRefund
<1>1. CheckInv => OnePaymentOneRefund
  <2> SUFFICES ASSUME CheckInv PROVE OnePaymentOneRefund
    OBVIOUS
  <2>1. CASE Written
    <3>1. OneInvoice /\ OneRefund /\ About(file, file.h) BY <2>1 DEF CheckInv, OneSecret
    <3> QED BY <3>1 DEF OneInvoice, OneRefund, About, OnePaymentOneRefund
  <2>2. CASE ~Written
    <3>1. NothingYet /\ file.stage # "retired" BY <2>2 DEF CheckInv, Written, Stages
    <3> QED BY <3>1 DEF NothingYet, OnePaymentOneRefund
  <2> QED BY <2>1, <2>2
<1> QED BY CheckStart, CheckStep, <1>1, PTL DEF CheckSpec

-----------------------------------------------------------------------------
(* The five side by side, as they are checked.                             *)

\* Each part's inductive invariant.
SideBySide ==
  /\ ScriptInv /\ GivenSpends
  /\ StreamInv /\ PageInv /\ CheckInv
  /\ UpgradeInv

LEMMA SideBySideStep == SideBySide /\ [MCNext]_MCVars => SideBySide'
<1> SUFFICES ASSUME SideBySide, [MCNext]_MCVars PROVE SideBySide'
  OBVIOUS
<1>1. /\ [ScriptNext]_scriptVars /\ [StreamNext]_streamVars /\ [CheckNext]_checkVars
      /\ [PageNext]_pageVars /\ [UpgradeNext]_upgradeVars
  BY DEF MCNext, MCVars
<1> QED BY <1>1, ScriptStepKeeps, GivenSpendsHold, StreamStep, PageStep, CheckStep, UpgradeStep
        DEF SideBySide

\* Every variable of the five keeps its shape, whichever of them runs.
THEOREM PartsKeepTheirTypes == MCSpec => []MCTypeOK
<1>1. MCInit => SideBySide
  BY ScriptStart, GivenSpendsHold, StreamStart, PageStart, CheckStart, UpgradeStart
  DEF MCInit, SideBySide
<1>2. SideBySide => MCTypeOK
  BY ScriptShape, TypesAreTypes DEF SideBySide, MCTypeOK, StreamInv, PageInv, CheckInv, UpgradeInv
<1> QED BY <1>1, <1>2, SideBySideStep, PTL DEF MCSpec
=============================================================================
