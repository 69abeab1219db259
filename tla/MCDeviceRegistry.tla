---------------------------- MODULE MCDeviceRegistry ----------------------------
(***************************************************************************)
(* Instances of DeviceRegistry for TLC: users, device identifiers and      *)
(* request slots are interchangeable model values, and nothing reads the   *)
(* reply an idle slot keeps: states that differ in old replies only are    *)
(* explored once.                                                          *)
(***************************************************************************)
EXTENDS DeviceRegistry, TLC

Symmetry == Permutations(Users) \cup Permutations(Devices) \cup Permutations(Requests)

Forget(slot) == IF slot.pc = "idle" THEN "idle" ELSE slot
View == <<now, rows, tokens, tickets, audit, conflicted, [r \in Requests |-> Forget(txn[r])]>>
=============================================================================
