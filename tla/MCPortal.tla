------------------------------- MODULE MCPortal -------------------------------
(* Instances of Portal for TLC; every constant is given in the .cfg. *)
EXTENDS Portal
=============================================================================
