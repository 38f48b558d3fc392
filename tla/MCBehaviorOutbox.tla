--------------------------- MODULE MCBehaviorOutbox ---------------------------
(***************************************************************************)
(* An instance of BehaviorOutbox for TLC: two events, two gateways.        *)
(***************************************************************************)
EXTENDS BehaviorOutbox

TwoEvents == {1, 2}

================================================================================
