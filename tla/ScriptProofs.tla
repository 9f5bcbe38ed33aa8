---------------------------- MODULE ScriptProofs ----------------------------
(***************************************************************************)
(* Proofs about the script verifier: a script spend opens its note only on *)
(* a verdict about that very spend, whatever dies, answers late or never.  *)
(***************************************************************************)
EXTENDS Scripts, TLAPS

OpeningRecs == [pc : {"idle", "waiting", "answered", "opened", "refused"},
                left : SUBSET Domains, yes : BOOLEAN]
Requested == [id : Nat, opening : Openings, domain : Domains]
Replies == [id : Nat, yes : BOOLEAN]
ProcRecs == [state : {"unborn", "running", "dead", "gone"},
             sent : SUBSET Requested, wrote : SUBSET Replies]

\* ScriptTypeOK, but for the sets of records.
ScriptTypes ==
  /\ spendOf \in [Openings -> SpendShape]
  /\ opening \in [Openings -> OpeningRecs]
  /\ pending \subseteq [id : Nat, opening : Openings]
  /\ nextId \in Nat
  /\ child \in Children \union {NoChild}
  /\ proc \in [Children -> ProcRecs]
  /\ now \in Nat

\* The rules the mint checks itself have been passed.
Due(o) == RulesHold(spendOf[o], now)

\* Ids are fresh, and one stands for one opening that is still to be judged.
PendingInv ==
  /\ \A p \in pending : p.id < nextId /\ Due(p.opening)
  /\ \A p, q \in pending : p.id = q.id => p = q

\* What was sent to a process, and what it wrote, is about the opening its
\* id stands for, if the id still stands for any.
ProcInv(c) ==
  /\ \A r \in proc[c].sent :
       /\ r.id < nextId
       /\ \A p \in pending : p.id = r.id => p.opening = r.opening
  /\ \A w \in proc[c].wrote :
       /\ w.id < nextId
       /\ w.yes => \A p \in pending : p.id = w.id => spendOf[p.opening].good # {}

OpeningInv(o) ==
  /\ opening[o].pc \in {"waiting", "answered"} => Due(o)
  /\ opening[o].pc = "answered" /\ opening[o].yes => spendOf[o].good # {}
  /\ opening[o].pc = "opened" /\ spendOf[o].kind = "script" => Due(o) /\ spendOf[o].good # {}

ScriptInv ==
  /\ ScriptTypes
  /\ PendingInv
  /\ \A c \in Children : ProcInv(c)
  /\ \A o \in Openings : OpeningInv(o)

LEMMA ScriptStart == ScriptInit => ScriptInv
  <1> SUFFICES ASSUME ScriptInit PROVE ScriptInv
    OBVIOUS
  <1>1. ScriptTypes
    BY ScriptAssumption DEF ScriptInit, ScriptTypes, OpeningRecs, ProcRecs, Unasked, Unborn
  <1>2. PendingInv /\ (\A c \in Children : ProcInv(c)) /\ (\A o \in Openings : OpeningInv(o))
    BY DEF ScriptInit, PendingInv, ProcInv, OpeningInv, Unasked, Unborn
  <1> QED
    BY <1>1, <1>2 DEF ScriptInv

\* What is due stays due: the clock does not go back.
LEMMA DueStays ==
  ASSUME ScriptTypes, NEW o \in Openings, Due(o), UNCHANGED spendOf,
         now' = now \/ now' = now + 1
  PROVE  Due(o)'
  <1>1. /\ spendOf[o].locktime \in Nat /\ spendOf[o].units \in Nat
        /\ LockUnit \in Nat /\ LocktimeThreshold \in Nat /\ now \in Nat
    BY ScriptAssumption DEF ScriptTypes, SpendShape
  <1> DEFINE over == spendOf[o].units * LockUnit
  <1>2. over \in Nat
    BY <1>1
  <1> HIDE DEF over
  <1>3. now >= over => now' >= over
    BY <1>1, <1>2
  <1> QED
    BY <1>1, <1>3 DEF Due, RulesHold, LeafRefused, TimeClaimHolds, over

\* What is not ended by the rules that need no child is due.
LEMMA LocalRules ==
  ASSUME ScriptTypes, NEW o \in Openings
  PROVE  /\ LocalVerdict(spendOf[o], now) = "ok" /\ spendOf[o].kind = "script" =>
              Due(o) /\ spendOf[o].good # {}
         /\ LocalVerdict(spendOf[o], now) \notin {"ok", "no"} => Due(o)
  <1>1. spendOf[o].kind \in {"key", "recovered", "script"}
    BY DEF ScriptTypes, SpendShape
  <1>2. CASE spendOf[o].kind = "key"
    BY <1>2 DEF LocalVerdict
  <1>3. CASE spendOf[o].kind = "recovered"
    BY <1>3 DEF LocalVerdict
  <1>4. CASE spendOf[o].kind = "script" /\ ~Due(o)
    BY <1>4 DEF LocalVerdict, Due
  <1>5. CASE spendOf[o].kind = "script" /\ Due(o)
    <2>1. LocalVerdict(spendOf[o], now) = "ok" => spendOf[o].good # {}
      BY <1>5 DEF LocalVerdict, Due
    <2> QED
      BY <1>5, <2>1
  <1> QED
    BY <1>1, <1>2, <1>3, <1>4, <1>5

\* A request goes out under an id that nothing knows yet.
LEMMA AskingKeepsInv ==
  ASSUME ScriptInv, NEW o \in Openings, AskChild(o), Due(o), UNCHANGED <<spendOf, now>>
  PROVE  ScriptInv'
  <1> PICK d \in opening[o].left, c \in Children :
        LET request == [id |-> nextId, opening |-> o, domain |-> d] IN
        /\ child' = c
        /\ pending' = pending \union {[id |-> nextId, opening |-> o]}
        /\ nextId' = nextId + 1
        /\ opening' = [opening EXCEPT ![o] =
                         [pc |-> "waiting", left |-> opening[o].left \ {d}, yes |-> FALSE]]
        /\ proc' = [proc EXCEPT ![c] = SentTo(proc[c], request)]
    BY DEF AskChild, FreshId
  <1> DEFINE request == [id |-> nextId, opening |-> o, domain |-> d]
             entry == [id |-> nextId, opening |-> o]
             asked == [pc |-> "waiting", left |-> opening[o].left \ {d}, yes |-> FALSE]
  <1>1. ScriptTypes /\ nextId \in Nat /\ opening[o] \in OpeningRecs /\ proc[c] \in ProcRecs
    BY DEF ScriptInv, ScriptTypes
  <1>2. d \in Domains /\ asked \in OpeningRecs
    BY <1>1 DEF OpeningRecs
  <1>3. request \in Requested /\ request.id = nextId /\ request.opening = o
    BY <1>1, <1>2 DEF Requested
  <1>4. \E was \in {{}, proc[c].sent}, heard \in {{}, proc[c].wrote}, new \in {{}, {request}} :
          /\ proc'[c] \in ProcRecs
          /\ proc'[c].sent = was \union new /\ proc'[c].wrote = heard
    <2>0. proc' = [proc EXCEPT ![c] = SentTo(proc[c], request)]
      OBVIOUS
    <2> HIDE DEF request
    <2>1. CASE child = NoChild
      <3>1. proc'[c] = [state |-> "running", sent |-> {request}, wrote |-> {}]
        BY <1>1, <2>0, <2>1 DEF ScriptTypes, SentTo
      <3> QED
        BY <3>1, <1>3 DEF ProcRecs
    <2>2. CASE child # NoChild /\ proc[c].state = "running"
      <3>1. proc'[c] = [proc[c] EXCEPT !.sent = proc[c].sent \union {request}]
        BY <1>1, <2>0, <2>2 DEF ScriptTypes, SentTo
      <3>2. /\ [proc[c] EXCEPT !.sent = proc[c].sent \union {request}] \in ProcRecs
            /\ [proc[c] EXCEPT !.sent = proc[c].sent \union {request}].sent
                 = proc[c].sent \union {request}
            /\ [proc[c] EXCEPT !.sent = proc[c].sent \union {request}].wrote = proc[c].wrote
        BY <1>1, <1>3 DEF ProcRecs
      <3> QED
        BY <3>1, <3>2
    <2>3. CASE child # NoChild /\ proc[c].state # "running"
      <3>1. proc'[c] = proc[c]
        BY <1>1, <2>0, <2>3 DEF ScriptTypes, SentTo
      <3> QED
        BY <3>1, <1>1 DEF ProcRecs
    <2> QED
      BY <2>1, <2>2, <2>3
  <1>5. \A x \in Children \ {c} : proc'[x] = proc[x]
    BY <1>1 DEF ScriptTypes
  <1>6. \A x \in Openings \ {o} : opening'[x] = opening[x]
    BY <1>1 DEF ScriptTypes
  <1>7. opening'[o] = asked
    BY <1>1 DEF ScriptTypes
  <1>8. \A x \in Openings : Due(x)' = Due(x)
    BY DEF Due, RulesHold, LeafRefused, TimeClaimHolds
  <1>9. pending' = pending \union {entry} /\ entry.id = nextId /\ entry.opening = o
        /\ nextId' = nextId + 1 /\ child' = c
    OBVIOUS
  <1> HIDE DEF asked, entry, request
  <1>10. ScriptTypes'
    <2>1. opening' \in [Openings -> OpeningRecs]
      BY <1>1, <1>2, <1>7, <1>6 DEF ScriptTypes, asked
    <2>2. proc' \in [Children -> ProcRecs]
      BY <1>1, <1>4, <1>5 DEF ScriptTypes
    <2>3. pending' \subseteq [id : Nat, opening : Openings]
      BY <1>1, <1>9 DEF ScriptTypes, entry
    <2> QED
      BY <1>1, <1>9, <2>1, <2>2, <2>3 DEF ScriptTypes
  <1>11. PendingInv'
    BY <1>1, <1>8, <1>9 DEF ScriptInv, ScriptTypes, PendingInv
  <1>12. ASSUME NEW x \in Children PROVE ProcInv(x)'
    <2>1. /\ proc'[x].sent \subseteq proc[x].sent \union {request}
          /\ proc'[x].wrote \subseteq proc[x].wrote
      BY <1>4, <1>5
    <2>2. \A r \in proc[x].sent : r.id \in Nat /\ r.id < nextId
      BY <1>1 DEF ScriptInv, ScriptTypes, ProcInv, ProcRecs, Requested
    <2>3. \A w \in proc[x].wrote : w.id \in Nat /\ w.id < nextId
      BY <1>1 DEF ScriptInv, ScriptTypes, ProcInv, ProcRecs, Replies
    <2>4. \A p \in pending : p.id < nextId
      BY DEF ScriptInv, PendingInv
    <2>5. \A p \in pending : p.id # nextId
      BY <1>1, <2>4 DEF ScriptTypes
    <2>6. ASSUME NEW r \in proc'[x].sent
          PROVE  r.id < nextId' /\ \A p \in pending' : p.id = r.id => p.opening = r.opening
      <3>1. CASE r = request
        BY <1>1, <1>3, <1>9, <2>5, <3>1
      <3>2. CASE r \in proc[x].sent
        BY <1>1, <1>9, <2>2, <3>2 DEF ScriptInv, ProcInv
      <3> QED
        BY <2>1, <3>1, <3>2
    <2>7. ASSUME NEW w \in proc'[x].wrote
          PROVE  /\ w.id < nextId'
                 /\ w.yes => \A p \in pending' : p.id = w.id => spendOf'[p.opening].good # {}
      <3>1. w \in proc[x].wrote
        BY <2>1
      <3> QED
        BY <1>1, <1>9, <2>3, <3>1 DEF ScriptInv, ProcInv
    <2> QED
      BY <2>6, <2>7 DEF ProcInv
  <1>13. ASSUME NEW x \in Openings PROVE OpeningInv(x)'
    BY <1>6, <1>7, <1>8 DEF ScriptInv, OpeningInv, asked
  <1> QED
    BY <1>10, <1>11, <1>12, <1>13 DEF ScriptInv

\* An opening that is over is judged.
LEMMA EndingKeepsInv ==
  ASSUME ScriptInv, NEW o \in Openings, NEW pc \in {"opened", "refused"},
         opening' = Done(o, pc),
         pc = "opened" /\ spendOf[o].kind = "script" => Due(o) /\ spendOf[o].good # {},
         UNCHANGED <<spendOf, pending, nextId, child, proc, now>>
  PROVE  ScriptInv'
  <1> DEFINE over == [pc |-> pc, left |-> {}, yes |-> FALSE]
  <1>1. opening \in [Openings -> OpeningRecs] /\ over \in OpeningRecs
    BY DEF ScriptInv, ScriptTypes, OpeningRecs
  <1>2. opening' = [opening EXCEPT ![o] = over]
    BY DEF Done
  <1>3. over.pc = pc
    OBVIOUS
  <1> HIDE DEF over
  <1>4. opening' \in [Openings -> OpeningRecs] /\ opening'[o] = over
        /\ \A x \in Openings \ {o} : opening'[x] = opening[x]
    BY <1>1, <1>2
  <1>5. ScriptTypes'
    BY <1>4 DEF ScriptInv, ScriptTypes
  <1>6. \A x \in Openings : Due(x)' = Due(x)
    BY DEF Due, RulesHold, LeafRefused, TimeClaimHolds
  <1>7. PendingInv' /\ \A c \in Children : ProcInv(c)'
    BY <1>6 DEF ScriptInv, ScriptTypes, PendingInv, ProcInv
  <1>8. \A x \in Openings : OpeningInv(x)'
    BY <1>3, <1>4, <1>6 DEF ScriptInv, OpeningInv
  <1> QED
    BY <1>5, <1>7, <1>8 DEF ScriptInv

\* Answers go to openings that wait under the ids they are about.
LEMMA SettlingKeepsInv ==
  ASSUME ScriptInv, NEW ids, NEW yes \in BOOLEAN, Settle(ids, yes),
         yes => \A p \in pending : p.id \in ids => spendOf[p.opening].good # {},
         proc' \in [Children -> ProcRecs],
         \A c \in Children : /\ proc'[c].sent \subseteq proc[c].sent
                             /\ proc'[c].wrote \subseteq proc[c].wrote,
         child' \in Children \union {NoChild},
         UNCHANGED <<spendOf, nextId, now>>
  PROVE  ScriptInv'
  <1> DEFINE answered == {p \in pending : p.id \in ids}
             Answered(o) == \E p \in answered : p.opening = o
  <1>1. opening \in [Openings -> OpeningRecs] /\ pending \subseteq [id : Nat, opening : Openings]
    BY DEF ScriptInv, ScriptTypes
  <1>2. pending' \subseteq pending
    BY DEF Settle
  <1>3. \A o \in Openings :
          /\ opening'[o] \in OpeningRecs
          /\ ~Answered(o) => opening'[o] = opening[o]
          /\ Answered(o) => opening'[o].pc = "answered" /\ opening'[o].yes = yes
    <2> SUFFICES ASSUME NEW o \in Openings
                 PROVE  /\ opening'[o] \in OpeningRecs
                        /\ ~Answered(o) => opening'[o] = opening[o]
                        /\ Answered(o) => opening'[o].pc = "answered" /\ opening'[o].yes = yes
      OBVIOUS
    <2>1. opening[o] \in OpeningRecs
      BY <1>1
    <2>2. CASE Answered(o)
      <3>1. opening'[o] = [opening[o] EXCEPT !.pc = "answered", !.yes = yes]
        BY <2>2 DEF Settle
      <3>2. /\ [opening[o] EXCEPT !.pc = "answered", !.yes = yes] \in OpeningRecs
            /\ [opening[o] EXCEPT !.pc = "answered", !.yes = yes].pc = "answered"
            /\ [opening[o] EXCEPT !.pc = "answered", !.yes = yes].yes = yes
        BY <2>1 DEF OpeningRecs
      <3> QED
        BY <2>2, <3>1, <3>2
    <2>3. CASE ~Answered(o)
      <3>1. opening'[o] = opening[o]
        BY <2>3 DEF Settle
      <3> QED
        BY <2>1, <2>3, <3>1
    <2> QED
      BY <2>2, <2>3
  <1>4. opening' \in [Openings -> OpeningRecs]
    <2> DEFINE f == [o \in Openings |-> IF Answered(o)
                       THEN [opening[o] EXCEPT !.pc = "answered", !.yes = yes] ELSE opening[o]]
    <2>1. opening' = f
      BY DEF Settle
    <2>2. \A o \in Openings : f[o] \in OpeningRecs
      BY <1>3, <2>1
    <2>3. f \in [Openings -> OpeningRecs]
      BY <2>2
    <2> QED
      BY <2>1, <2>3
  <1>5. \A o \in Openings : Answered(o) => /\ Due(o)
                                           /\ yes => spendOf[o].good # {}
    BY DEF ScriptInv, PendingInv
  <1> HIDE DEF Answered
  <1>6. \A x \in Openings : Due(x)' = Due(x)
    BY DEF Due, RulesHold, LeafRefused, TimeClaimHolds
  <1>7. ScriptTypes'
    BY <1>1, <1>2, <1>4 DEF ScriptInv, ScriptTypes
  <1>8. PendingInv'
    BY <1>1, <1>2, <1>6 DEF ScriptInv, PendingInv
  <1>9. \A c \in Children : ProcInv(c)'
    BY <1>2 DEF ScriptInv, ProcInv
  <1>10. \A x \in Openings : OpeningInv(x)'
    BY <1>3, <1>5, <1>6 DEF ScriptInv, OpeningInv
  <1> QED
    BY <1>7, <1>8, <1>9, <1>10 DEF ScriptInv

\* A process may lose its requests, be heard of, or write a line.
LEMMA ProcessesKeepInv ==
  ASSUME ScriptInv, NEW c \in Children, NEW q \in ProcRecs,
         proc' = [proc EXCEPT ![c] = q],
         q.sent \subseteq proc[c].sent,
         \A w \in q.wrote \ proc[c].wrote :
           \E r \in proc[c].sent : /\ w.id = r.id
                                   /\ w.yes => r.domain \in spendOf[r.opening].good,
         UNCHANGED <<spendOf, opening, pending, nextId, child, now>>
  PROVE  ScriptInv'
  <1>1. proc \in [Children -> ProcRecs]
    BY DEF ScriptInv, ScriptTypes
  <1>2. proc' \in [Children -> ProcRecs] /\ proc'[c] = q
        /\ \A x \in Children \ {c} : proc'[x] = proc[x]
    BY <1>1
  <1>3. \A x \in Openings : Due(x)' = Due(x)
    BY DEF Due, RulesHold, LeafRefused, TimeClaimHolds
  <1>4. ScriptTypes'
    BY <1>2 DEF ScriptInv, ScriptTypes
  <1>5. PendingInv' /\ \A x \in Openings : OpeningInv(x)'
    BY <1>3 DEF ScriptInv, ScriptTypes, PendingInv, OpeningInv
  <1>6. ProcInv(c)'
    <2>1. \A r \in proc'[c].sent :
            /\ r.id < nextId'
            /\ \A p \in pending' : p.id = r.id => p.opening = r.opening
      BY <1>2 DEF ScriptInv, ProcInv
    <2>2. ASSUME NEW w \in proc'[c].wrote
          PROVE  /\ w.id < nextId'
                 /\ w.yes => \A p \in pending' : p.id = w.id => spendOf'[p.opening].good # {}
      <3>1. CASE w \in proc[c].wrote
        BY <3>1 DEF ScriptInv, ProcInv
      <3>2. CASE w \notin proc[c].wrote
        <4>1. PICK r \in proc[c].sent : /\ w.id = r.id
                                        /\ w.yes => r.domain \in spendOf[r.opening].good
          BY <1>2, <3>2
        <4>2. r.id < nextId /\ \A p \in pending : p.id = r.id => p.opening = r.opening
          BY DEF ScriptInv, ProcInv
        <4> QED
          BY <4>1, <4>2
      <3> QED
        BY <3>1, <3>2
    <2> QED
      BY <2>1, <2>2 DEF ProcInv
  <1>7. \A x \in Children \ {c} : ProcInv(x)'
    BY <1>2 DEF ScriptInv, ProcInv
  <1> QED
    BY <1>4, <1>5, <1>6, <1>7 DEF ScriptInv

\* Every step keeps the invariant, one action at a time.
LEMMA ScriptStepKeeps == ScriptInv /\ [ScriptNext]_scriptVars => ScriptInv'
  <1> SUFFICES ASSUME ScriptInv, [ScriptNext]_scriptVars PROVE ScriptInv'
    OBVIOUS
  <1>0. /\ ScriptTypes
        /\ proc \in [Children -> ProcRecs] /\ child \in Children \union {NoChild}
        /\ \A c \in Children : proc[c] \in ProcRecs
    BY DEF ScriptInv, ScriptTypes
  <1>1. ASSUME NEW o \in Openings, Open(o), UNCHANGED spendOf PROVE ScriptInv'
    <2>1. CASE LocalVerdict(spendOf[o], now) = "ok"
      BY <1>0, <1>1, <2>1, LocalRules, EndingKeepsInv DEF Open
    <2>2. CASE LocalVerdict(spendOf[o], now) = "no"
      BY <1>0, <1>1, <2>2, EndingKeepsInv DEF Open
    <2>3. CASE LocalVerdict(spendOf[o], now) \notin {"ok", "no"}
      <3>1. Due(o)
        BY <1>0, <2>3, LocalRules
      <3>2. AskChild(o) /\ UNCHANGED now
        BY <1>1, <2>3 DEF Open
      <3> QED
        BY <1>1, <3>1, <3>2, AskingKeepsInv
    <2> QED
      BY <2>1, <2>2, <2>3
  <1>2. ASSUME NEW o \in Openings, Resume(o), UNCHANGED spendOf PROVE ScriptInv'
    <2>1. Due(o) /\ (opening[o].yes => spendOf[o].good # {})
      BY <1>2 DEF ScriptInv, OpeningInv, Resume
    <2>2. CASE opening[o].yes
      BY <1>2, <2>1, <2>2, EndingKeepsInv DEF Resume
    <2>3. CASE ~opening[o].yes /\ opening[o].left = {}
      BY <1>2, <2>3, EndingKeepsInv DEF Resume
    <2>4. CASE ~opening[o].yes /\ opening[o].left # {}
      BY <1>2, <2>1, <2>4, AskingKeepsInv DEF Resume
    <2> QED
      BY <2>2, <2>3, <2>4
  <1>3. ASSUME NEW p \in pending, TimeOut(p), UNCHANGED spendOf PROVE ScriptInv'
    BY <1>0, <1>3, SettlingKeepsInv DEF TimeOut
  <1>4. ASSUME NEW c \in Children, HearExit(c), UNCHANGED spendOf PROVE ScriptInv'
    <2>1. /\ proc' = [proc EXCEPT ![c] = [proc[c] EXCEPT !.state = "gone"]]
          /\ [proc[c] EXCEPT !.state = "gone"] \in ProcRecs
          /\ [proc[c] EXCEPT !.state = "gone"].sent = proc[c].sent
          /\ [proc[c] EXCEPT !.state = "gone"].wrote = proc[c].wrote
      BY <1>0, <1>4 DEF HearExit, ProcRecs
    <2>2. /\ proc' \in [Children -> ProcRecs]
          /\ \A x \in Children : /\ proc'[x].sent \subseteq proc[x].sent
                                 /\ proc'[x].wrote \subseteq proc[x].wrote
      BY <1>0, <2>1
    <2>3. child' \in Children \union {NoChild}
      BY <1>0, <1>4 DEF HearExit
    <2> QED
      BY <1>4, <2>2, <2>3, SettlingKeepsInv DEF HearExit
  <1>5. ASSUME NEW c \in Children, Die(c), UNCHANGED spendOf PROVE ScriptInv'
    <2>1. /\ proc' = [proc EXCEPT ![c] = [proc[c] EXCEPT !.state = "dead", !.sent = {}]]
          /\ [proc[c] EXCEPT !.state = "dead", !.sent = {}] \in ProcRecs
          /\ [proc[c] EXCEPT !.state = "dead", !.sent = {}].sent = {}
          /\ [proc[c] EXCEPT !.state = "dead", !.sent = {}].wrote = proc[c].wrote
      BY <1>0, <1>5 DEF Die, ProcRecs
    <2> DEFINE q == [proc[c] EXCEPT !.state = "dead", !.sent = {}]
    <2>2. /\ q \in ProcRecs /\ q.sent = {} /\ q.wrote = proc[c].wrote
          /\ proc' = [proc EXCEPT ![c] = q]
      BY <2>1
    <2> HIDE DEF q
    <2> QED
      BY <1>5, <2>2, ProcessesKeepInv DEF Die
  <1>6. ASSUME NEW c \in Children, Lines(c), UNCHANGED spendOf PROVE ScriptInv'
    <2>1. PICK w \in proc[c].wrote : Line(c, w)
      BY <1>6 DEF Lines
    <2> DEFINE q == [proc[c] EXCEPT !.wrote = proc[c].wrote \ {w}]
    <2>2. proc' = [proc EXCEPT ![c] = q]
      BY <2>1 DEF Line
    <2>3. q \in ProcRecs /\ q.sent = proc[c].sent /\ q.wrote \subseteq proc[c].wrote
      BY <1>0 DEF ProcRecs
    <2> HIDE DEF q
    <2>4. /\ proc' \in [Children -> ProcRecs]
          /\ \A x \in Children : /\ proc'[x].sent \subseteq proc[x].sent
                                 /\ proc'[x].wrote \subseteq proc[x].wrote
      BY <1>0, <2>2, <2>3
    <2>5. w.yes \in BOOLEAN
      BY <1>0 DEF ProcRecs, Replies
    <2>6. w.yes => \A p \in pending : p.id \in {w.id} => spendOf[p.opening].good # {}
      BY DEF ScriptInv, ProcInv
    <2> QED
      BY <1>0, <1>6, <2>1, <2>4, <2>5, <2>6, SettlingKeepsInv DEF Line
  <1>7. ASSUME NEW c \in Children, NEW r \in proc[c].sent, NEW yes \in BOOLEAN,
               Judge(c, r, yes), UNCHANGED spendOf
        PROVE  ScriptInv'
    <2> DEFINE w == [id |-> r.id, yes |-> yes]
               q == [proc[c] EXCEPT !.sent = proc[c].sent \ {r}, !.wrote = proc[c].wrote \union {w}]
    <2>1. w \in Replies /\ w.id = r.id /\ w.yes = yes
      BY <1>0 DEF ProcRecs, Requested, Replies
    <2>2. proc' = [proc EXCEPT ![c] = q]
      BY <1>7 DEF Judge
    <2> HIDE DEF w
    <2>3. q \in ProcRecs /\ q.sent \subseteq proc[c].sent /\ q.wrote = proc[c].wrote \union {w}
      BY <1>0, <2>1 DEF ProcRecs
    <2> HIDE DEF q
    <2> QED
      BY <1>7, <2>1, <2>2, <2>3, ProcessesKeepInv DEF Judge
  <1>8. ASSUME Close, UNCHANGED spendOf PROVE ScriptInv'
    <2>1. child \in Children
      BY <1>0, <1>8 DEF Close
    <2> DEFINE q == [proc[child] EXCEPT !.state = "dead", !.sent = {}]
    <2>2. proc' = [proc EXCEPT ![child] = q]
      BY <1>8 DEF Close
    <2>3. q \in ProcRecs /\ q.sent = {} /\ q.wrote = proc[child].wrote
      BY <1>0, <2>1 DEF ProcRecs
    <2> HIDE DEF q
    <2>4. /\ proc' \in [Children -> ProcRecs]
          /\ \A x \in Children : /\ proc'[x].sent \subseteq proc[x].sent
                                 /\ proc'[x].wrote \subseteq proc[x].wrote
      BY <1>0, <2>1, <2>2, <2>3
    <2> QED
      BY <1>8, <2>4, SettlingKeepsInv DEF Close
  <1>9. ASSUME ClockTicks, UNCHANGED spendOf PROVE ScriptInv'
    <2>1. \A o \in Openings : Due(o) => Due(o)'
      BY <1>0, <1>9, DueStays DEF ClockTicks
    <2>2. ScriptTypes'
      BY <1>0, <1>9 DEF ClockTicks, ScriptTypes
    <2>3. PendingInv'
      BY <1>0, <1>9, <2>1 DEF ScriptInv, ScriptTypes, PendingInv, ClockTicks
    <2>4. (\A c \in Children : ProcInv(c)') /\ \A o \in Openings : OpeningInv(o)'
      BY <1>9, <2>1 DEF ScriptInv, ProcInv, OpeningInv, ClockTicks
    <2> QED
      BY <2>2, <2>3, <2>4 DEF ScriptInv
  <1>10. CASE UNCHANGED scriptVars
    <2>1. \A o \in Openings : Due(o)' = Due(o)
      BY <1>10 DEF scriptVars, Due, RulesHold, LeafRefused, TimeClaimHolds
    <2> QED
      BY <1>10, <2>1 DEF scriptVars, ScriptInv, ScriptTypes, PendingInv, ProcInv, OpeningInv
  <1> QED
    BY <1>1, <1>2, <1>3, <1>4, <1>5, <1>6, <1>7, <1>8, <1>9, <1>10
       DEF ScriptNext, ScriptStep, TimeOuts

\* A script spend opens its note only on a yes about that very spend and with
\* its locks over, for any number of openings, domains and children, whatever
\* exits, late lines, timeouts and restarts there are (kernel.ts, spend.ts).
THEOREM ScriptsOpenOnTheirOwnVerdict == ScriptSpec => []OpenedOnItsOwnVerdict
  <1>1. ScriptInv => OpenedOnItsOwnVerdict
    <2> SUFFICES ASSUME ScriptInv, NEW o \in Openings,
                        opening[o].pc = "opened", spendOf[o].kind = "script"
                 PROVE  /\ spendOf[o].good # {}
                        /\ spendOf[o].leaf \notin {"reserved", "version"}
                        /\ spendOf[o].locktime <= now
                        /\ spendOf[o].relative # "blocks"
                        /\ spendOf[o].relative = "seconds" => spendOf[o].units * LockUnit <= now
      BY DEF OpenedOnItsOwnVerdict
    <2>1. Due(o) /\ spendOf[o].good # {}
      BY DEF ScriptInv, OpeningInv
    <2>2. spendOf[o].locktime \in Nat /\ spendOf[o].units \in Nat /\ now \in Nat
          /\ LockUnit \in Nat /\ LocktimeThreshold \in Nat
      BY ScriptAssumption DEF ScriptInv, ScriptTypes, SpendShape
    <2> DEFINE over == spendOf[o].units * LockUnit
    <2>3. over \in Nat
      BY <2>2
    <2> HIDE DEF over
    <2>4. spendOf[o].relative = "seconds" => over <= now
      BY <2>1, <2>2, <2>3 DEF Due, RulesHold, TimeClaimHolds, over
    <2> QED
      BY <2>1, <2>2, <2>4 DEF Due, RulesHold, LeafRefused, TimeClaimHolds, over
  <1> QED
    BY ScriptStart, ScriptStepKeeps, <1>1, PTL DEF ScriptSpec

\* What the calls decode to is as it was given, and the clock is bounded.
GivenSpends == spendOf \in Spends /\ now \in 0..MaxTime

LEMMA GivenSpendsHold ==
  /\ ScriptInit => GivenSpends
  /\ GivenSpends /\ [ScriptNext]_scriptVars => GivenSpends'
  <1>1. ScriptInit => GivenSpends
    BY ScriptAssumption DEF ScriptInit, GivenSpends
  <1>2. ASSUME GivenSpends, [ScriptNext]_scriptVars PROVE GivenSpends'
    <2>1. spendOf' = spendOf
      BY <1>2 DEF ScriptNext, scriptVars
    <2>2. CASE ClockTicks
      BY <1>2, <2>1, <2>2, ScriptAssumption DEF ClockTicks, GivenSpends
    <2>3. CASE ~ClockTicks
      <3>1. UNCHANGED now
        BY <1>2, <2>3 DEF ScriptNext, ScriptStep, scriptVars, Open, Resume, TimeOuts, TimeOut,
                          HearExit, Die, Lines, Line, Judge, Close
      <3> QED
        BY <1>2, <2>1, <3>1 DEF GivenSpends
    <2> QED
      BY <2>2, <2>3
  <1> QED
    BY <1>1, <1>2

LEMMA ScriptShape == ScriptInv /\ GivenSpends => ScriptTypeOK
  BY DEF ScriptInv, ScriptTypes, GivenSpends, ScriptTypeOK, OpeningRecs, ProcRecs, Requested,
         Replies

\* Every variable of the verifier keeps its shape.
THEOREM ScriptsKeepTheirTypes == ScriptSpec => []ScriptTypeOK
  BY ScriptStart, ScriptStepKeeps, GivenSpendsHold, ScriptShape, PTL DEF ScriptSpec
=============================================================================
