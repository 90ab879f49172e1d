--------------------------- MODULE MCEventDelivery ---------------------------
(* Small instances of event delivery for TLC.  The cfgs give every constant *)
(* its value; no symmetry is used, because they check liveness.             *)
EXTENDS EventDelivery
=============================================================================
