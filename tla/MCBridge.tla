------------------------------ MODULE MCBridge ------------------------------
(* Bridge on small instances. *)
EXTENDS Bridge
=============================================================================
