------------------------------ MODULE MCBridge ------------------------------
(* Small casts for the registry and the zap bridge, for TLC: each makes    *)
(* other actors meet, and one run explores all of them.                    *)
EXTENDS Zaps

CONSTANTS n1, n2, k1, k2, s1, s2, h1, h2, t1, t2, z1, z2, g1

Cast(names, keys, shares, holds, notes, priced, zaps, gifts, own) ==
  [names |-> names, keys |-> keys, shares |-> shares, holds |-> holds, notes |-> notes,
   priced |-> priced, zaps |-> zaps, gifts |-> gifts, own |-> own]

\* A hold and a claim want one name; two holds do; two names and holds want
\* one share; two keys want one name.
PricedCasts ==
  {Cast({n1}, {k1}, {s1, s2}, {h1}, {t1}, TRUE, {}, {}, {}),
   Cast({n1}, {}, {s1, s2}, {h1, h2}, {}, TRUE, {}, {}, {}),
   Cast({n1, n2}, {}, {s1}, {h1, h2}, {}, TRUE, {}, {}, {}),
   Cast({n1}, {k1, k2}, {s1}, {}, {t1, t2}, TRUE, {}, {}, {})}

FreeCasts == {Cast({n1, n2}, {k1}, {s1, s2}, {}, {}, FALSE, {}, {}, {})}

\* A zap to a Nostr key's name; a zap and a transfer to a name that moves
\* between shares, at one of which a wallet's mint invoices and swaps want
\* the first key; two zaps to one share; one note offered to two names.
ZapCasts ==
  {Cast({n1}, {k1}, {s1}, {}, {}, FALSE, {z1}, {}, {}),
   Cast({n1}, {}, {s1, s2}, {}, {}, FALSE, {z1}, {g1}, {<<s1, 0>>}),
   Cast({n1}, {}, {s1}, {}, {}, FALSE, {z1, z2}, {}, {}),
   Cast({n1, n2}, {}, {s1, s2}, {}, {}, FALSE, {}, {g1}, {})}

MCCasts == PricedCasts \union FreeCasts \union ZapCasts
\* One zap, and two keys that hold its name one after the other.
OldHolderCasts == {Cast({n1}, {k1, k2}, {s1}, {}, {}, FALSE, {z1}, {}, {})}
=============================================================================
