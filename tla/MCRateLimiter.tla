--------------------------- MODULE MCRateLimiter ---------------------------
(***************************************************************************)
(* RateLimiter with the constants of MCRateLimiter.cfg.                    *)
(***************************************************************************)
EXTENDS RateLimiter
=============================================================================
