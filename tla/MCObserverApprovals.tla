------------------------- MODULE MCObserverApprovals -------------------------
(* One proposed transaction and one that the holder makes to close the     *)
(* safe.                                                                   *)
EXTENDS ObserverApprovals

CONSTANTS t1, c1
=============================================================================
