--------------------------- MODULE MCCurlLifetime ---------------------------
EXTENDS CurlLifetime, TLC

CONSTANTS c1, c2, r1, r2

BothOfOne == (r1 :> c1) @@ (r2 :> c1)

=============================================================================
