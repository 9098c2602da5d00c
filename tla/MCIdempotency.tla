--------------------------- MODULE MCIdempotency ---------------------------
EXTENDS Idempotency, TLC

CONSTANTS c1, c2, c3, k1, p1, p2

\* Three callers of one key, two of them retries with the same body and one
\* that reuses the key for another body.
OneKey == (c1 :> k1) @@ (c2 :> k1) @@ (c3 :> k1)
TwoBodies == (c1 :> p1) @@ (c2 :> p1) @@ (c3 :> p2)
=============================================================================
