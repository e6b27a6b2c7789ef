--------------------------- MODULE MCDeliveryRetry ---------------------------
(***************************************************************************)
(* Fault cases for the run of DeliveryRetry: what others do at the wrong   *)
(* moment, and what breaks.                                                *)
(***************************************************************************)
EXTENDS DeliveryRetry

SomeFaults ==
    {{"overlap", "user", "demote", "target"}, {"demote", "db", "crash"}}
=============================================================================
