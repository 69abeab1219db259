--------------------------- MODULE DeviceLifecycle ---------------------------
(***************************************************************************)
(* What the device registry promises about the devices of its users,       *)
(* without requests, tokens or SELECTs: how a device may come, go and come *)
(* back.  The promise is unconditional while no commit of a user overtakes *)
(* a request of the same user; for a contended user less is promised.      *)
(* DeviceRegistry implements this module.                                  *)
(***************************************************************************)
EXTENDS Naturals, FiniteSets

CONSTANTS Users, Devices, Cap, Cooldown, NoRow, Null

VARIABLES
    now,
    rows,      \* deactivated_at of each device; Null while it is active
    audit,     \* devices an administrator has forced out
    contended  \* users of whose requests one was overtaken by another

vars == <<now, rows, audit, contended>>

RowIds == Users \X Devices
Owner(x) == x[1]
Active(u) == {x \in RowIds : Owner(x) = u /\ rows[x] = Null}

(* Every deactivation of u on record is a cooldown older than at. *)
Waited(u, at) == \A y \in RowIds : Owner(y) = u /\ rows[y] \in Nat
                                    => rows[y] + Cooldown <= at

Init ==
    /\ now = 0
    /\ rows = [x \in RowIds |-> NoRow]
    /\ audit = {}
    /\ contended = {}

Activate(x) == rows' = [rows EXCEPT ![x] = Null] /\ UNCHANGED audit

(* A new device joins while the user has fewer than Cap active ones. *)
Register(x) == rows[x] = NoRow /\ Cardinality(Active(Owner(x))) < Cap /\ Activate(x)

(* A deactivated device comes back a cooldown later. *)
Return(x) == rows[x] \in Nat /\ rows[x] + Cooldown <= now /\ Activate(x)

(* At the cap, a new device takes the place of an active one. *)
Swap(x, y, at) ==
    /\ rows[x] = NoRow /\ rows[y] = Null /\ Owner(x) = Owner(y)
    /\ Waited(Owner(y), at)
    /\ rows' = [rows EXCEPT ![y] = at, ![x] = Null]
    /\ UNCHANGED audit

(* The user deactivates a device. *)
Retire(x, at) ==
    /\ rows[x] = Null /\ Waited(Owner(x), at)
    /\ rows' = [rows EXCEPT ![x] = at]
    /\ UNCHANGED audit

(* An administrator does: no waiting, and a record. *)
Force(x, at) ==
    /\ rows[x] = Null
    /\ rows' = [rows EXCEPT ![x] = at]
    /\ audit' = audit \cup {x}
Log(x) == rows[x] \in Nat /\ audit' = audit \cup {x} /\ UNCHANGED rows

(* A request that acts on what it read before another commit: it activates *)
(* one device or none and stamps one or none, of its own user.             *)
Overtaken(x, y, at) ==
    /\ Owner(x) = Owner(y) /\ Owner(x) \in contended
    /\ rows' \in {rows, [rows EXCEPT ![x] = Null], [rows EXCEPT ![y] = at],
                  [rows EXCEPT ![y] = at, ![x] = Null]}
    /\ audit' \in {audit, audit \cup {y}}

Tick == now' = now + 1 /\ UNCHANGED <<rows, audit>>

Change ==
    \/ UNCHANGED <<rows, audit>>
    \/ \E x \in RowIds : Register(x) \/ Return(x) \/ Log(x)
    \/ \E x, y \in RowIds, at \in 0..now :
         Swap(x, y, at) \/ Retire(x, at) \/ Force(x, at) \/ Overtaken(x, y, at)

Next == contended' \subseteq Users /\ (Tick \/ (UNCHANGED now /\ Change))

Spec == Init /\ [][Next]_vars
=============================================================================
