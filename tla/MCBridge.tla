------------------------------ MODULE MCBridge ------------------------------
(* Model-checking instance of Bridge: one sender and one driver per port.  *)
EXTENDS Bridge
=============================================================================
