-------------------------------- MODULE MCOtp --------------------------------
(* Instances of Otp for TLC: request slots are interchangeable. *)
EXTENDS Otp, TLC

Symmetry == Permutations(Requests)
=============================================================================
