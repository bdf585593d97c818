--------------------------- MODULE MCRateLimiter ---------------------------
(***************************************************************************)
(* Instances of RateLimiter for TLC.                                       *)
(***************************************************************************)
EXTENDS RateLimiter, TLC

MCSymmetry == Permutations(Callers) \cup Permutations(Keys)
=============================================================================
