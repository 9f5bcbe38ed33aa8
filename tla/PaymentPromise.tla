---------------------------- MODULE PaymentPromise ----------------------------
(***************************************************************************)
(* What the mint promises to whoever pays it for a note, with no node,     *)
(* sweeps, awaits or crashes: a payment that was made stays on its books   *)
(* until it is credited, once, at a place that was promised to it, and     *)
(* what is at a place is never taken away or joined by something else.     *)
(***************************************************************************)
CONSTANTS
  Payments,
  Places,    \* where a note can be put
  Other      \* what put a note there that is no payment

VARIABLES
  stage,  \* how far each payment is
  dest,   \* the places a payment can still be credited at
  at      \* what was put at each place, {} for nothing

promiseVars == <<stage, dest, at>>

Init ==
  /\ stage = [p \in Payments |-> "none"]
  /\ dest = [p \in Payments |-> {}]
  /\ at = [k \in Places |-> {}]

\* An invoice is shown, and places for its note are promised.
Offer(p) ==
  /\ stage[p] = "none"
  /\ stage' = [stage EXCEPT ![p] = "offered"]
  /\ \E d \in SUBSET Places : dest' = [dest EXCEPT ![p] = d]
  /\ UNCHANGED at

\* Nobody paid, and nobody can any more.
Lapse(p) ==
  /\ stage[p] = "offered"
  /\ stage' = [stage EXCEPT ![p] = "none"]
  /\ dest' = [dest EXCEPT ![p] = {}]
  /\ UNCHANGED at

Pay(p) ==
  /\ stage[p] = "offered"
  /\ stage' = [stage EXCEPT ![p] = "paid"]
  /\ UNCHANGED <<dest, at>>

\* The note for it is put at one of these places.
Put(p, places) ==
  /\ stage' = [stage EXCEPT ![p] = "credited"]
  /\ dest' = [dest EXCEPT ![p] = {}]
  /\ \E k \in places : at[k] = {} /\ at' = [at EXCEPT ![k] = {p}]

Credit(p) == stage[p] = "paid" /\ Put(p, dest[p])

\* A note is handed over and put elsewhere in the same step.
HandOver(p) == stage[p] = "none" /\ Put(p, Places)

\* A holder puts a note of her own somewhere.
Use ==
  /\ \E k \in Places : at[k] = {} /\ at' = [at EXCEPT ![k] = {Other}]
  /\ UNCHANGED <<stage, dest>>

Next ==
  \/ \E p \in Payments : Offer(p) \/ Lapse(p) \/ Pay(p) \/ Credit(p) \/ HandOver(p)
  \/ Use

\* One of the promised places is free for as long as the payment may come.
Room ==
  \A p \in Payments : stage[p] \in {"offered", "paid"} => \E k \in dest[p] : at[k] = {}

Spec == Init /\ [][Next]_promiseVars /\ []Room
=============================================================================
