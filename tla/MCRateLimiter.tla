---------------------------- MODULE MCRateLimiter ----------------------------
(* Two actors behind one address, alike.                                    *)
EXTENDS RateLimiter, TLC

Symmetry == Permutations(Actors)
=============================================================================
