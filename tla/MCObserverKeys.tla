--------------------------- MODULE MCObserverKeys ---------------------------
(* Two keys of the table and one that a holder pays for.                   *)
EXTENDS ObserverKeys

CONSTANTS k1, k2, c1
=============================================================================
