--------------------------- MODULE MCResponseCache ---------------------------
EXTENDS CacheInvalidation

CONSTANTS k1, k2, k3, a1, a2

MCApiOf(k) == IF k = k3 THEN a2 ELSE a1
=============================================================================
