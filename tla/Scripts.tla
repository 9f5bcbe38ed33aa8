------------------------------- MODULE Scripts -------------------------------
(***************************************************************************)
(* Whether a spend opens a note: verifySpend's rules (spend.ts), and for a *)
(* leaf the mint cannot evaluate itself the child process it asks, one     *)
(* domain after another (kernel.ts): the pending map, the timeouts, the    *)
(* lines a child writes and the exits the mint hears of later.             *)
(***************************************************************************)
EXTENDS Naturals, FiniteSets

CONSTANTS
  Openings,   \* calls of openNote, each with one spend
  Spends,     \* what the calls' k1s may decode to: functions on Openings
  Domains,    \* hosts the mint answers on
  Children,   \* script verifier processes, each started at most once
  LocktimeThreshold, \* LOCKTIME_THRESHOLD
  LockUnit,   \* seconds in one unit of a relative lock (512)
  MaxTime,    \* bound on the clock
  NoChild

\* A decoded k1: how it spends, the domains its signature or script is good
\* for, its leaf, and its time claim, each lock as its own fields.
SpendShape ==
  [kind : {"key", "recovered", "script"}, good : SUBSET Domains,
   leaf : {"bearer", "reserved", "version", "other"}, locktime : Nat,
   relative : {"disabled", "blocks", "seconds"}, units : Nat]

ASSUME ScriptAssumption ==
  /\ Spends \subseteq [Openings -> SpendShape]
  /\ LocktimeThreshold \in Nat /\ LockUnit \in Nat \ {0} /\ MaxTime \in Nat
  /\ NoChild \notin Children
  /\ IsFiniteSet(Domains) /\ Domains # {}

VARIABLES
  spendOf,  \* what each call's k1 decodes to
  opening,  \* where each openNote is
  pending,  \* the pending map: the request each id stands for
  nextId,
  child,    \* the process that is written to
  proc,     \* each process: its state, what it was sent and what it wrote
  now       \* the mint's clock; every note was credited at time 0

scriptVars == <<spendOf, opening, pending, nextId, child, proc, now>>

Unasked == [pc |-> "idle", left |-> Domains, yes |-> FALSE]
Unborn == [state |-> "unborn", sent |-> {}, wrote |-> {}]

ScriptInit ==
  /\ spendOf \in Spends
  /\ opening = [o \in Openings |-> Unasked]
  /\ pending = {}
  /\ nextId = 1
  /\ child = NoChild
  /\ proc = [c \in Children |-> Unborn]
  /\ now = 0

-----------------------------------------------------------------------------
(* The rules that need no child.                                           *)

\* checkTimeClaim: an absolute lock of 0 is none, block counts mean nothing.
TimeClaimHolds(s, t) ==
  /\ s.locktime # 0 => s.locktime >= LocktimeThreshold /\ s.locktime <= t
  /\ \/ s.relative = "disabled"
     \/ s.relative = "seconds" /\ t >= s.units * LockUnit

\* checkLeaf: an opcode, outside what a push carries, that tapscript reserves
\* for upgrades, or a leaf version that is not tapscript's.
LeafRefused(s) == s.leaf \in {"reserved", "version"}

RulesHold(s, t) == ~LeafRefused(s) /\ TimeClaimHolds(s, t)

\* verifySpend up to the script verifier: a recovered key is its own check; a
\* reserved opcode or a time claim that does not hold ends a script; a
\* signature counts for any of the domains; a bearer leaf is evaluated here.
LocalVerdict(s, t) ==
  CASE s.kind = "recovered" -> "ok"
    [] s.kind = "script" /\ ~RulesHold(s, t) -> "no"
    [] s.kind = "script" /\ RulesHold(s, t) /\ s.leaf # "bearer" -> "ask"
    [] OTHER -> IF s.good # {} THEN "ok" ELSE "no"

-----------------------------------------------------------------------------
(* Asking the child.                                                       *)

\* A child to write to: the one there is, or one started now.
CanServe(c) ==
  IF child = NoChild THEN proc[c].state \in {"unborn", "gone"} /\ proc[c].wrote = {}
                     ELSE c = child

\* Mutation: ids count the requests of one child.
IdFor(c) == IF child = NoChild THEN 1 ELSE nextId

FreshId(c) == nextId

\* A call that is over has nothing left to ask.
Done(o, pc) == [opening EXCEPT ![o] = [pc |-> pc, left |-> {}, yes |-> FALSE]]

\* A process that is started for a request, or written to while it runs.
SentTo(q, request) ==
  CASE child = NoChild -> [state |-> "running", sent |-> {request}, wrote |-> {}]
    [] child # NoChild /\ q.state = "running" -> [q EXCEPT !.sent = @ \union {request}]
    [] OTHER -> q

\* The next domain goes out under a fresh id.  What is written to a process
\* that has died is lost.
AskChild(o) ==
  \E d \in opening[o].left, c \in Children :
    LET id == FreshId(c)
        request == [id |-> id, opening |-> o, domain |-> d] IN
    /\ CanServe(c)
    /\ child' = c
    /\ pending' = pending \union {[id |-> id, opening |-> o]}
    /\ nextId' = id + 1
    /\ opening' = [opening EXCEPT ![o] = [pc |-> "waiting", left |-> @.left \ {d}, yes |-> FALSE]]
    /\ proc' = [proc EXCEPT ![c] = SentTo(@, request)]

Open(o) ==
  /\ opening[o].pc = "idle"
  /\ CASE LocalVerdict(spendOf[o], now) = "ok" ->
            /\ opening' = Done(o, "opened")
            /\ UNCHANGED <<pending, nextId, child, proc>>
       [] LocalVerdict(spendOf[o], now) = "no" ->
            /\ opening' = Done(o, "refused")
            /\ UNCHANGED <<pending, nextId, child, proc>>
       [] OTHER -> AskChild(o)
  /\ UNCHANGED now

\* settle: what waits under these ids is answered; an id nobody waits under
\* any more is ignored.
Settle(ids, yes) ==
  LET answered == {p \in pending : p.id \in ids} IN
  /\ pending' = pending \ answered
  /\ opening' = [o \in Openings |->
                   IF \E p \in answered : p.opening = o
                     THEN [opening[o] EXCEPT !.pc = "answered", !.yes = yes]
                     ELSE opening[o]]

\* verifySpend takes the verdict: yes opens, no tries the next domain.
Resume(o) ==
  /\ opening[o].pc = "answered"
  /\ IF opening[o].yes
       THEN /\ opening' = Done(o, "opened")
            /\ UNCHANGED <<pending, nextId, child, proc>>
       ELSE IF opening[o].left = {}
         THEN /\ opening' = Done(o, "refused")
              /\ UNCHANGED <<pending, nextId, child, proc>>
         ELSE AskChild(o)
  /\ UNCHANGED now

\* A line of a child, possibly one that has exited, for whichever request.
Line(c, reply) ==
  /\ reply \in proc[c].wrote
  /\ proc' = [proc EXCEPT ![c].wrote = @ \ {reply}]
  /\ Settle({reply.id}, reply.yes)
  /\ UNCHANGED <<nextId, child, now>>

\* Mutation: while there is a child its exit answers for its silence.
TimesOutAlone(p) == p \in pending /\ child = NoChild

TimesOut(p) == p \in pending

TimeOut(p) ==
  /\ TimesOut(p)
  /\ Settle({p.id}, FALSE)
  /\ UNCHANGED <<nextId, child, proc, now>>

Lines(c) == \E reply \in proc[c].wrote : Line(c, reply)

TimeOuts(o) == \E p \in pending : p.opening = o /\ TimeOut(p)

\* The exit of a process, or its failure to start, is heard: everything that
\* waits is refused, whichever process it was sent to.
HearExit(c) ==
  /\ proc[c].state = "dead"
  /\ proc' = [proc EXCEPT ![c].state = "gone"]
  /\ child' = IF child = c THEN NoChild ELSE child
  /\ Settle({p.id : p \in pending}, FALSE)
  /\ UNCHANGED <<nextId, now>>

\* close: everything is refused and the child killed; its exit is heard later.
Close ==
  /\ child # NoChild
  /\ Settle({p.id : p \in pending}, FALSE)
  /\ proc' = [proc EXCEPT ![child].state = "dead", ![child].sent = {}]
  /\ child' = NoChild
  /\ UNCHANGED <<nextId, now>>

-----------------------------------------------------------------------------
(* The child, outside the mint: it judges, answers with an error, or dies. *)

Judge(c, r, yes) ==
  /\ proc[c].state = "running" /\ r \in proc[c].sent
  /\ yes => r.domain \in spendOf[r.opening].good
  /\ proc' = [proc EXCEPT ![c].sent = @ \ {r},
                          ![c].wrote = @ \union {[id |-> r.id, yes |-> yes]}]
  /\ UNCHANGED <<opening, pending, nextId, child, now>>

Die(c) ==
  /\ proc[c].state = "running"
  /\ proc' = [proc EXCEPT ![c].state = "dead", ![c].sent = {}]
  /\ UNCHANGED <<opening, pending, nextId, child, now>>

ClockTicks ==
  /\ now < MaxTime
  /\ now' = now + 1
  /\ UNCHANGED <<opening, pending, nextId, child, proc>>

ScriptStep ==
  \/ \E o \in Openings : Open(o) \/ Resume(o) \/ TimeOuts(o)
  \/ \E c \in Children :
       \/ HearExit(c) \/ Die(c)
       \/ Lines(c)
       \/ \E r \in proc[c].sent, yes \in BOOLEAN : Judge(c, r, yes)
  \/ Close \/ ClockTicks

ScriptNext == ScriptStep /\ UNCHANGED spendOf

ScriptSpec == ScriptInit /\ [][ScriptNext]_scriptVars

\* Timers go off, promises resume, an exit is heard and what is in a pipe is
\* read; nothing is asked of the child.
ScriptFairness ==
  /\ \A o \in Openings :
       /\ WF_scriptVars(Resume(o) /\ UNCHANGED spendOf)
       /\ WF_scriptVars(TimeOuts(o) /\ UNCHANGED spendOf)
  /\ \A c \in Children :
       /\ WF_scriptVars(HearExit(c) /\ UNCHANGED spendOf)
       /\ WF_scriptVars(Lines(c) /\ UNCHANGED spendOf)

-----------------------------------------------------------------------------

\* Every variable of the verifier has its shape.
ScriptTypeOK ==
  /\ spendOf \in Spends
  /\ opening \in [Openings -> [pc : {"idle", "waiting", "answered", "opened", "refused"},
                               left : SUBSET Domains, yes : BOOLEAN]]
  /\ pending \subseteq [id : Nat, opening : Openings]
  /\ nextId \in Nat
  /\ child \in Children \union {NoChild}
  /\ proc \in [Children -> [state : {"unborn", "running", "dead", "gone"},
                            sent : SUBSET [id : Nat, opening : Openings, domain : Domains],
                            wrote : SUBSET [id : Nat, yes : BOOLEAN]]]
  /\ now \in 0..MaxTime

\* A script spend opens its note only on a yes about that very spend, for one
\* of this mint's domains, and never before a lock it claims is over: late
\* lines, exits and restarts of the child cross no answers (kernel.ts settle).
OpenedOnItsOwnVerdict ==
  \A o \in Openings :
    (opening[o].pc = "opened" /\ spendOf[o].kind = "script")
      => /\ spendOf[o].good # {}
         /\ spendOf[o].leaf \notin {"reserved", "version"}
         /\ spendOf[o].locktime <= now
         /\ spendOf[o].relative # "blocks"
         /\ spendOf[o].relative = "seconds" => spendOf[o].units * LockUnit <= now

\* Every call of openNote that asked the child is answered in the end, by a
\* child, an exit or a timer.
EveryScriptIsJudged ==
  \A o \in Openings : opening[o].pc = "waiting" ~> opening[o].pc \in {"opened", "refused"}
=============================================================================
