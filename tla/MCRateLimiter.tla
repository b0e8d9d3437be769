----------------------------- MODULE MCRateLimiter -----------------------------
(* RateLimiter with two addresses; the constants of the instance are in the   *)
(* configuration.                                                             *)
EXTENDS RateLimiter

CONSTANTS a1, a2
=============================================================================
