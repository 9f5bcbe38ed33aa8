----------------------------- MODULE NotePromise -----------------------------
(***************************************************************************)
(* What a bearer mint promises about one note's value, with no handlers,   *)
(* retries, node or crashes: the holder has it, or it is reserved for a    *)
(* payment, or it has left by exactly one route and never comes back.      *)
(***************************************************************************)
CONSTANT Notes

VARIABLE where

Init == where = [n \in Notes |-> "holder"]

\* A melt begins: the holder can do nothing else with the note meanwhile.
Take(n) ==
  /\ where[n] = "holder"
  /\ where' = [where EXCEPT ![n] = "reserved"]

\* The payment is known not to have been made.
GiveBack(n) ==
  /\ where[n] = "reserved"
  /\ where' = [where EXCEPT ![n] = "holder"]

\* The payment is made.
PayOut(n) ==
  /\ where[n] = "reserved"
  /\ where' = [where EXCEPT ![n] = "paidOut"]

\* The value moves to other notes, or pays a fee.
Swap(n) ==
  /\ where[n] = "holder"
  /\ where' = [where EXCEPT ![n] = "swapped"]

Next == \E n \in Notes : Take(n) \/ GiveBack(n) \/ PayOut(n) \/ Swap(n)

Spec == Init /\ [][Next]_where
=============================================================================
