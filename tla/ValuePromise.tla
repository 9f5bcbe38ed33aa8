----------------------------- MODULE ValuePromise -----------------------------
(***************************************************************************)
(* What the mint promises about value when notes are swapped and paid out, *)
(* with no requests, retries or reservations: in one step notes give way   *)
(* to others that are worth no more, or one is paid out of what is held.   *)
(* A note's worth is its amount and the fee withheld for paying it out.    *)
(***************************************************************************)
EXTENDS Naturals, FiniteSetsExt

CONSTANT Ids

VARIABLES
  live,   \* the notes that hold value
  spent,  \* the notes that held some
  worth,  \* what each note is or was worth
  held    \* what the mint holds against them

valueVars == <<live, spent, worth, held>>

Init ==
  /\ live \subseteq Ids /\ spent = {}
  /\ held = SumFunctionOnSet(worth, live)

\* Notes give way to notes at ids that nothing was at before.
Exchange ==
  LET ins == live \ live'
      outs == live' \ live
  IN
  /\ ins # {} /\ outs # {} /\ outs \subseteq Ids \ spent
  /\ spent' = spent \union ins
  /\ \A i \in live \union spent : worth'[i] = worth[i]
  /\ SumFunctionOnSet(worth', outs) <= SumFunctionOnSet(worth, ins)
  /\ UNCHANGED held

PayOut(i) ==
  /\ i \in live
  /\ live' = live \ {i}
  /\ spent' = spent \union {i}
  /\ held' = held - worth[i]
  /\ UNCHANGED worth

Next == Exchange \/ \E i \in Ids : PayOut(i)

Spec == Init /\ [][Next]_valueVars
=============================================================================
