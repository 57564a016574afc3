----------------------------- MODULE MCSpinPool -----------------------------
(* SpinPool on small instances: the bounds are in the configurations.      *)
EXTENDS SpinPool
=============================================================================
