---------------------------- MODULE MCRateLimiter ----------------------------
(* RateLimiter on small instances: a window of two seconds with two clock  *)
(* ticks to a second, so that a retryAfter has to be rounded up.           *)
EXTENDS RateLimiter, TLC

CONSTANTS u1, u2

IdentifierSymmetry == Permutations(Identifiers)
==============================================================================
