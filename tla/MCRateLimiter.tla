--------------------------- MODULE MCRateLimiter ----------------------------
(***************************************************************************)
(* RateLimiter for TLC: the ticks and the capacity are small, the window   *)
(* is not a multiple of the refill.                                        *)
(***************************************************************************)
EXTENDS RateLimiter
=============================================================================
