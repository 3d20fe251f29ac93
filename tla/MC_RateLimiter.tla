--------------------------- MODULE MC_RateLimiter ---------------------------
(* Two client addresses for the rate limiter. *)
EXTENDS RateLimiter

CONSTANTS i1, i2

MCIps == {i1, i2}
=============================================================================
