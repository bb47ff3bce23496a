--------------------------- MODULE MCInstanceLock ---------------------------
(* TLC instance of InstanceLockHistory: three deployments with one name.   *)
EXTENDS InstanceLockHistory

HFairSpec == HSpec /\ Fairness
=============================================================================
