------------------------------- MODULE MCMelt -------------------------------
(* Symmetry for the safety runs of Melt: notes, hashes, requests and passes *)
(* are interchangeable.                                                    *)
EXTENDS Melt, TLC

Symmetry == Permutations(Notes) \union Permutations(Hashes)
              \union Permutations(Requests) \union Permutations(ServerPasses)
=============================================================================
