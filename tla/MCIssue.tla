------------------------------- MODULE MCIssue -------------------------------
(* Two invoices, and the ids their preimages would open, for TLC.          *)
EXTENDS Issue, TLC

CONSTANTS h1, h2, k1, k2

MCPayKey == h1 :> k1 @@ h2 :> k2
=============================================================================
