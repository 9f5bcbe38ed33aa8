------------------------------ MODULE MCClients ------------------------------
(***************************************************************************)
(* Five parts that share no state, checked side by side: the script        *)
(* verifier of the mint, its invoice stream, the opening of its database,  *)
(* the operator's live check and the mint's own web page.  A behaviour is  *)
(* one of the five running, chosen at the start.                           *)
(***************************************************************************)
EXTENDS Scripts, Stream, LiveCheck, Page, Upgrade, TLC

CONSTANTS o1, o2, d1, d2, x1, k1, a1

VARIABLE running

MCVars == <<running, scriptVars, streamVars, checkVars, pageVars, upgradeVars>>

\* A script spend that a child judges and that is locked for a while, beside
\* one that no domain accepts; a leaf with a reserved opcode beside a bearer
\* note with a block-count lock; a leaf of another version beside a bearer
\* note with no lock; the two key paths.
Spend(kind, good, leaf, locktime, relative, units) ==
  [kind |-> kind, good |-> good, leaf |-> leaf, locktime |-> locktime,
   relative |-> relative, units |-> units]

Judged ==
  o1 :> Spend("script", {d2}, "other", 1, "seconds", 1) @@
  o2 :> Spend("script", {}, "other", 0, "disabled", 0)

Local ==
  o1 :> Spend("script", {d1}, "reserved", 0, "disabled", 0) @@
  o2 :> Spend("script", {d1, d2}, "bearer", 0, "blocks", 0)

Unlocked ==
  o1 :> Spend("script", {d1}, "version", 0, "disabled", 0) @@
  o2 :> Spend("script", {d2}, "bearer", 0, "disabled", 0)

KeyPaths ==
  o1 :> Spend("key", {d1}, "other", 0, "disabled", 0) @@
  o2 :> Spend("recovered", {}, "other", 0, "disabled", 0)

MCSpends == {Judged, Local, Unlocked, KeyPaths}

\* An id from before Q, and the Q it would have.
MCBearerId == x1 :> k1

NoneOnFile == [n \in Handles |-> [cx1 |-> NoBranch, next |-> 0, used |-> 0]]

MCInit ==
  /\ running \in {"scripts", "stream", "check", "page", "upgrade"}
  /\ ScriptInit /\ StreamInit /\ CheckInit /\ PageInit /\ UpgradeInit
  /\ running # "scripts" => spendOf = Judged
  /\ OnFile \subseteq {a1}
  /\ running # "upgrade" => branch = NoneOnFile /\ columns = {} /\ noteIds = {}

MCNext ==
  /\ UNCHANGED running
  /\ \/ running = "scripts" /\ ScriptNext /\ UNCHANGED <<streamVars, checkVars, pageVars, upgradeVars>>
     \/ running = "stream" /\ StreamNext /\ UNCHANGED <<scriptVars, checkVars, pageVars, upgradeVars>>
     \/ running = "check" /\ CheckNext /\ UNCHANGED <<scriptVars, streamVars, pageVars, upgradeVars>>
     \/ running = "page" /\ PageNext /\ UNCHANGED <<scriptVars, streamVars, checkVars, upgradeVars>>
     \/ running = "upgrade" /\ UpgradeNext
          /\ UNCHANGED <<scriptVars, streamVars, checkVars, pageVars>>

\* The mint starts its stream at once, so it is fair only where it runs.
MCSpec ==
  /\ MCInit /\ [][MCNext]_MCVars
  /\ ScriptFairness
  /\ running = "stream" => StreamFairness

\* Every variable of the five has its shape.
MCTypeOK == ScriptTypeOK /\ StreamTypeOK /\ CheckTypeOK /\ PageTypeOK /\ UpgradeTypeOK
=============================================================================
