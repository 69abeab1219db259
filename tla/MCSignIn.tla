------------------------------- MODULE MCSignIn -------------------------------
(***************************************************************************)
(* Instances of SignIn for TLC.  Nothing reads the reply an idle slot      *)
(* keeps, so states that differ in old replies only are explored once.     *)
(***************************************************************************)
EXTENDS SignIn, TLC

Symmetry == Permutations(Requests) \cup Permutations(Devices)

Forget(slot) == IF slot.pc = "idle" THEN "idle" ELSE slot
View == <<now, rows, tokens, tickets, audit, conflicted, codes, drawn, sent, accepted,
          wrongs, user, step, [r \in Requests |-> <<Forget(devTxn[r]), Forget(otpTxn[r])>>]>>
=============================================================================
