--------------------------- MODULE MCRateLimiter ---------------------------
(***************************************************************************)
(* Small instances of RateLimiter.                                         *)
(***************************************************************************)
EXTENDS RateLimiterHistory

CONSTANTS c1, c2, c3

OneClient    == {c1}
TwoClients   == {c1, c2}
ThreeClients == {c1, c2, c3}

=============================================================================
