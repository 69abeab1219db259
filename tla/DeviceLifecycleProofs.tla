------------------------- MODULE DeviceLifecycleProofs -------------------------
(***************************************************************************)
(* Proof that DeviceRegistry implements DeviceLifecycle for any users,     *)
(* devices, slots, cap and cooldown.  The refinement mapping names as      *)
(* contended the users of overtaken requests; the argument is that of      *)
(* DeviceRegistryRules: a writer that was not overtaken may rely on what   *)
(* it read, and what it read is the guard of an abstract action.           *)
(***************************************************************************)
EXTENDS DeviceRegistryRules

(* Only a request in flight is overtaken, and its last SELECT is past. *)
InFlight == \A r \in Requests : /\ r \in conflicted => Busy(r)
                                /\ Busy(r) => txn[r].at <= now

(* How a request's step moves its slot. *)
LEMMA SlotMoves ==
  ASSUME NEW r \in Requests, Arrive(r) \/ Handle(r)
  PROVE  /\ now' = now
         /\ \/ \E pc, u, own, target : pc # "idle" /\ Start(r, pc, u, own, target)
            \/ \E pc : pc # "idle" /\ Goto(r, pc) /\ Busy(r) /\ conflicted' = conflicted
            \/ \E reply : Answer(r, reply)
            \/ \E new : Commit(r, new)
<1>1. CASE Arrive(r)
  BY <1>1 DEF Arrive, SignIn, RemedyFind, Principal, ListPrincipal, SelfPrincipal, AdminFind,
              FindTarget, Refuse
<1>2. CASE CountActive(r) \/ RemedyCheck(r) \/ SelfCheck(r)
  BY <1>2 DEF CountActive, RemedyCheck, SelfCheck, PassCooldown, Busy
<1>3. CASE ListDevices(r) \/ SelfFind(r)
  BY <1>3 DEF ListDevices, SelfFind, Busy
<1>4. CASE RefuseAtCap(r) \/ InsertFails(r) \/ RemedyRefused(r) \/ SelfRefused(r) \/ Abort(r)
  BY <1>4 DEF RefuseAtCap, InsertFails, RemedyRefused, SelfRefused, RefuseInCooldown, Abort,
              Fail
<1>5. CASE Touch(r) \/ Reactivate(r) \/ Insert(r) \/ Remedy(r)
  BY <1>5 DEF Touch, Reactivate, Insert, Remedy
<1>6. CASE SelfDeactivate(r) \/ AdminForceDeactivate(r)
  BY <1>6 DEF SelfDeactivate, AdminForceDeactivate
<1> QED
  BY <1>1, <1>2, <1>3, <1>4, <1>5, <1>6 DEF Handle

LEMMA InFlightStep ==
  ASSUME IInv, InFlight, [Next]_vars
  PROVE  InFlight'
<1>1. CASE UNCHANGED vars
  BY <1>1 DEF InFlight, Busy, vars
<1>2. CASE Tick
  <2>1. txn' = txn /\ conflicted' = conflicted /\ now' = now + 1 /\ now \in Nat
    BY <1>2 DEF Tick, IInv, Structure, TypeOK
  <2>2. \A r \in Requests : Busy(r) => txn[r].at \in Nat
    BY SlotTypes DEF IInv, Structure
  <2> QED
    BY <2>1, <2>2 DEF InFlight, Busy
<1>3. ASSUME NEW r \in Requests, Arrive(r) \/ Handle(r)
      PROVE  InFlight'
  <2>1. \A new : txn' = [txn EXCEPT ![r] = new]
                 => txn'[r] = new /\ \A q \in Requests \ {r} : txn'[q] = txn[q]
    BY DEF IInv, Structure, TypeOK
  <2>2. now' = now /\ now \in Nat
    BY <1>3, SlotMoves DEF IInv, Structure, TypeOK
  <2>3. CASE \E pc, u, own, target : pc # "idle" /\ Start(r, pc, u, own, target)
    <3>1. PICK pc, u, own, target : pc # "idle" /\ Start(r, pc, u, own, target)
      BY <2>3
    <3>2. /\ txn'[r] = [pc |-> pc, user |-> u, own |-> own, target |-> target, at |-> now]
          /\ \A q \in Requests \ {r} : txn'[q] = txn[q]
          /\ conflicted' = conflicted
      BY <2>1, <3>1 DEF Start
    <3>3. txn'[r].pc # "idle" /\ txn'[r].at = now
      BY <3>1, <3>2
    <3> QED
      BY <2>2, <3>2, <3>3 DEF InFlight, Busy
  <2>4. CASE \E pc : pc # "idle" /\ Goto(r, pc) /\ Busy(r) /\ conflicted' = conflicted
    <3>1. PICK pc : pc # "idle" /\ Goto(r, pc) /\ Busy(r) /\ conflicted' = conflicted
      BY <2>4
    <3>2. /\ txn'[r] = [pc |-> pc, user |-> txn[r].user, own |-> txn[r].own,
                        target |-> txn[r].target, at |-> now]
          /\ \A q \in Requests \ {r} : txn'[q] = txn[q]
      BY <2>1, <3>1 DEF Goto
    <3>3. txn'[r].pc # "idle" /\ txn'[r].at = now
      BY <3>1, <3>2
    <3> QED
      BY <2>2, <3>1, <3>2, <3>3 DEF InFlight, Busy
  <2>5. CASE (\E reply : Answer(r, reply)) \/ (\E new : Commit(r, new))
    <3>1. /\ \E reply : txn'[r] = Idle(reply)
          /\ \A q \in Requests \ {r} : txn'[q] = txn[q]
          /\ r \notin conflicted' /\ conflicted' \subseteq conflicted \cup {q \in Requests : Busy(q)}
      BY <2>1, <2>5 DEF Answer, Commit
    <3>2. txn'[r].pc = "idle"
      BY <3>1 DEF Idle
    <3> QED
      BY <2>2, <3>1, <3>2 DEF InFlight, Busy
  <2> QED
    BY <1>3, <2>3, <2>4, <2>5, SlotMoves
<1> QED
  BY <1>1, <1>2, <1>3 DEF Next

Contended == {txn[r].user : r \in conflicted}

LEMMA ContendedType ==
  ASSUME IInv, InFlight
  PROVE  Contended \subseteq Users
BY SlotTypes DEF IInv, Structure, InFlight, Contended, TypeOK

(* A request that was overtaken changes what Overtaken allows. *)
LEMMA OvertakenChange ==
  ASSUME IInv, InFlight, NEW r \in conflicted, txn[r].pc # "selfFind", NEW at \in 0..now,
         rows' \in {rows, [rows EXCEPT ![txn[r].own] = Null], [rows EXCEPT ![txn[r].target] = at],
                    [rows EXCEPT ![txn[r].target] = at, ![txn[r].own] = Null]},
         audit' \in {audit, audit \cup {txn[r].target}}
  PROVE  Lifecycle!Change
<1>1. r \in Requests /\ Busy(r)
  BY DEF IInv, Structure, TypeOK, InFlight
<1>2. /\ txn[r].own \in RowIds /\ txn[r].target \in RowIds
      /\ Owner(txn[r].own) = txn[r].user /\ Owner(txn[r].target) = txn[r].user
  BY <1>1, OwnedSlot
<1>3. Owner(txn[r].own) \in Contended
  BY <1>2 DEF Contended
<1>4. Lifecycle!Overtaken(txn[r].own, txn[r].target, at)
  BY <1>2, <1>3 DEF Lifecycle!Overtaken, Lifecycle!Owner, Owner, Contended
<1> QED
  BY <1>2, <1>4 DEF Lifecycle!Change, Lifecycle!RowIds, RowIds

(* The commits: an abstract action by what was read, or Overtaken. *)
LEMMA SignInChange ==
  ASSUME IInv, InFlight, NEW r \in Requests, Reactivate(r) \/ Insert(r)
  PROVE  Lifecycle!Change
<1> DEFINE x == txn[r].own
<1>1. /\ Busy(r) /\ Ends(r) /\ rows' = [rows EXCEPT ![x] = Null] /\ audit' = audit
      /\ txn[r].pc \in {"reactivate", "insert"}
  BY CommitEnds DEF Reactivate, Insert, Busy
<1>2. x \in RowIds /\ Owner(x) = txn[r].user /\ now \in Nat /\ txn[r].at \in Nat
  BY <1>1, OwnedSlot, SlotTypes DEF IInv, Structure, TypeOK
<1>3. CASE r \in conflicted
  <2>1. now \in 0..now /\ audit' \in {audit, audit \cup {txn[r].target}}
    BY <1>1, <1>2
  <2>2. rows' \in {rows, [rows EXCEPT ![txn[r].own] = Null], [rows EXCEPT ![txn[r].target] = now],
                  [rows EXCEPT ![txn[r].target] = now, ![txn[r].own] = Null]}
    BY <1>1
  <2>3. txn[r].pc # "selfFind"
    BY <1>1
  <2> HIDE DEF x
  <2> QED
    BY <1>3, <2>1, <2>2, <2>3, OvertakenChange
<1>4. CASE r \notin conflicted
  <2>1. ReadsStillTrue(r) /\ txn[r].at <= now
    BY <1>1, <1>4, WriterReads DEF InFlight
  <2>2. CASE txn[r].pc = "reactivate"
    <3>1. Lifecycle!Return(x)
      BY <1>1, <1>2, <2>1, <2>2, ParametersAssumption
         DEF ReadsStillTrue, Lifecycle!Return, Lifecycle!Activate
    <3> QED
      BY <1>2, <3>1 DEF Lifecycle!Change, Lifecycle!RowIds, RowIds
  <2>3. CASE txn[r].pc = "insert"
    <3>1. Lifecycle!Active(Lifecycle!Owner(x)) = ActiveRows(txn[r].user)
      BY <1>2 DEF Lifecycle!Active, Lifecycle!RowIds, Lifecycle!Owner, ActiveRows, RowIds, Owner
    <3>2. Lifecycle!Register(x)
      BY <1>1, <1>2, <2>1, <2>3, <3>1
         DEF ReadsStillTrue, ActiveCount, Lifecycle!Register, Lifecycle!Activate,
             Cardinality, Lifecycle!Cardinality
    <3> QED
      BY <1>2, <3>2 DEF Lifecycle!Change, Lifecycle!RowIds, RowIds
  <2> QED
    BY <1>1, <2>2, <2>3
<1> QED
  BY <1>3, <1>4

LEMMA WaitedByRead ==
  ASSUME NEW u, NEW at \in Nat, NEW read \in Nat, read <= at, NoRecent(u, read)
  PROVE  Lifecycle!Waited(u, at)
BY ParametersAssumption
   DEF NoRecent, Lifecycle!Waited, Lifecycle!RowIds, Lifecycle!Owner, RowIds, Owner

LEMMA RemedyChange ==
  ASSUME IInv, InFlight, NEW r \in Requests, Remedy(r)
  PROVE  Lifecycle!Change
<1> DEFINE x == txn[r].own
           y == txn[r].target
<1>1. /\ Busy(r) /\ txn[r].pc = "remedy" /\ rows[x] = NoRow /\ audit' = audit
  BY DEF Remedy, Busy
<1>2. PICK at \in Stamps(r) : Commit(r, [rows EXCEPT ![y] = at, ![x] = Null])
  BY DEF Remedy
<1>3. Ends(r) /\ rows' = [rows EXCEPT ![y] = at, ![x] = Null]
  BY <1>1, <1>2, CommitEnds
<1>4. /\ x \in RowIds /\ y \in RowIds /\ Owner(x) = txn[r].user /\ Owner(y) = txn[r].user
      /\ at \in 0..now /\ at \in Nat /\ txn[r].at <= at /\ txn[r].at \in Nat
  BY <1>1, OwnedSlot, SlotTypes, StampTypes DEF IInv, Structure, TypeOK
<1>5. CASE r \in conflicted
  BY <1>1, <1>3, <1>4, <1>5, OvertakenChange
<1>6. CASE r \notin conflicted
  <2>1. rows[y] = Null /\ NoRecent(txn[r].user, txn[r].at)
    BY <1>1, <1>3, <1>6, WriterReads DEF ReadsStillTrue, RemedyPcs
  <2>2. Lifecycle!Waited(txn[r].user, at)
    BY <1>4, <2>1, WaitedByRead
  <2>3. Lifecycle!Swap(x, y, at)
    BY <1>1, <1>3, <1>4, <2>1, <2>2 DEF Lifecycle!Swap, Lifecycle!Owner, Owner
  <2> QED
    BY <1>4, <2>3 DEF Lifecycle!Change, Lifecycle!RowIds, RowIds
<1> QED
  BY <1>5, <1>6

LEMMA StampChange ==
  ASSUME IInv, InFlight, NEW r \in Requests, txn[r].pc \in {"self", "adminStamp"},
         \E at \in Stamps(r) : Commit(r, [rows EXCEPT ![txn[r].target] = at]),
         audit' = IF txn[r].pc = "self" THEN audit ELSE audit \cup {txn[r].target}
  PROVE  Lifecycle!Change
<1> DEFINE y == txn[r].target
<1>1. Busy(r)
  BY DEF Busy
<1>2. PICK at \in Stamps(r) : Commit(r, [rows EXCEPT ![y] = at])
  OBVIOUS
<1>3. Ends(r) /\ rows' = [rows EXCEPT ![y] = at]
  BY <1>1, <1>2, CommitEnds
<1>4. /\ y \in RowIds /\ Owner(y) = txn[r].user
      /\ at \in 0..now /\ at \in Nat /\ txn[r].at <= at /\ txn[r].at \in Nat
  BY <1>1, OwnedSlot, SlotTypes, StampTypes DEF IInv, Structure, TypeOK
<1>5. CASE r \in conflicted
  BY <1>3, <1>4, <1>5, OvertakenChange
<1>6. CASE r \notin conflicted
  <2>1. ReadsStillTrue(r)
    BY <1>3, <1>6, WriterReads
  <2>2. CASE txn[r].pc = "adminStamp"
    <3>1. Lifecycle!Force(y, at)
      BY <1>3, <2>1, <2>2 DEF ReadsStillTrue, Lifecycle!Force
    <3> QED
      BY <1>4, <3>1 DEF Lifecycle!Change, Lifecycle!RowIds, RowIds
  <2>3. CASE txn[r].pc = "self"
    <3>1. rows[y] = Null /\ NoRecent(txn[r].user, txn[r].at)
      BY <2>1, <2>3 DEF ReadsStillTrue
    <3>2. Lifecycle!Waited(txn[r].user, at)
      BY <1>4, <3>1, WaitedByRead
    <3>3. Lifecycle!Retire(y, at)
      BY <1>3, <1>4, <2>3, <3>1, <3>2 DEF Lifecycle!Retire, Lifecycle!Owner, Owner
    <3> QED
      BY <1>4, <3>3 DEF Lifecycle!Change, Lifecycle!RowIds, RowIds
  <2> QED
    BY <2>2, <2>3
<1> QED
  BY <1>5, <1>6

LEMMA AdminChange ==
  ASSUME IInv, InFlight, NEW r \in Requests, AdminForceDeactivate(r)
  PROVE  Lifecycle!Change
<1> DEFINE y == txn[r].target
<1>1. Busy(r) /\ audit' = audit \cup {y}
  BY DEF AdminForceDeactivate, AdminPcs, Busy
<1>2. CASE txn[r].pc = "adminLog" /\ Commit(r, rows)
  <2>1. /\ y \in RowIds /\ now \in Nat /\ Ends(r) /\ rows' = rows
    BY <1>1, <1>2, OwnedSlot, CommitEnds DEF IInv, Structure, TypeOK
  <2>2. CASE r \in conflicted
    BY <1>1, <1>2, <2>1, <2>2, OvertakenChange
  <2>3. CASE r \notin conflicted
    <3>1. Lifecycle!Log(y)
      BY <1>1, <1>2, <2>1, <2>3, WriterReads DEF ReadsStillTrue, Lifecycle!Log
    <3> QED
      BY <2>1, <3>1 DEF Lifecycle!Change, Lifecycle!RowIds, RowIds
  <2> QED
    BY <2>2, <2>3
<1>3. CASE /\ txn[r].pc = "adminStamp"
           /\ \E at \in Stamps(r) : Commit(r, [rows EXCEPT ![y] = at])
  BY <1>1, <1>3, StampChange
<1> QED
  BY <1>2, <1>3 DEF AdminForceDeactivate

LEMMA HandlerChange ==
  ASSUME IInv, InFlight, NEW r \in Requests, Arrive(r) \/ Handle(r)
  PROVE  Lifecycle!Change
<1>1. CASE Arrive(r) \/ CountActive(r) \/ RefuseAtCap(r) \/ ListDevices(r) \/ SelfFind(r)
  BY <1>1 DEF Arrive, SignIn, RemedyFind, Principal, ListPrincipal, SelfPrincipal, AdminFind,
              CountActive, RefuseAtCap, ListDevices, SelfFind, Lifecycle!Change
<1>2. CASE InsertFails(r) \/ RemedyRefused(r) \/ SelfRefused(r) \/ Abort(r)
  BY <1>2 DEF InsertFails, RemedyRefused, SelfRefused, RefuseInCooldown, Abort, Fail,
              Lifecycle!Change
<1>3. CASE RemedyCheck(r) \/ SelfCheck(r) \/ Touch(r)
  BY <1>3 DEF RemedyCheck, SelfCheck, PassCooldown, Touch, Commit, Lifecycle!Change
<1>4. CASE SelfDeactivate(r)
  BY <1>4, StampChange DEF SelfDeactivate
<1> QED
  BY <1>1, <1>2, <1>3, <1>4, SignInChange, RemedyChange, AdminChange DEF Handle

(* The registry implements its promise: a device comes and goes by the     *)
(* rules of DeviceLifecycle, except for a user one of whose requests was   *)
(* overtaken by another commit (device_service.py:71-218).                 *)
THEOREM LifecycleRefinement == Spec => LifecycleSpec
<1>1. Init => Lifecycle!Init /\ InFlight
  BY DEF Init, InFlight, Busy, Idle, Lifecycle!Init, Lifecycle!RowIds, RowIds
<1>2. ASSUME IInv, InFlight, (Contended \subseteq Users)', [Next]_vars
      PROVE  [Lifecycle!Next]_(Lifecycle!vars)
  <2>1. Contended' \subseteq Users
    BY <1>2
  <2>2. CASE UNCHANGED vars
    BY <2>2 DEF vars, Lifecycle!vars
  <2>3. CASE Tick
    BY <2>1, <2>3 DEF Tick, Contended, Lifecycle!Next, Lifecycle!Tick
  <2>4. ASSUME NEW r \in Requests, Arrive(r) \/ Handle(r)
        PROVE  Lifecycle!Next
    BY <1>2, <2>1, <2>4, SlotMoves, HandlerChange DEF Contended, Lifecycle!Next
  <2> QED
    BY <1>2, <2>2, <2>3, <2>4 DEF Next
<1>3. IInv /\ InFlight /\ [Next]_vars => InFlight'
  BY InFlightStep
<1>4. IInv /\ InFlight => Contended \subseteq Users
  BY ContendedType
<1> QED
  BY <1>1, <1>2, <1>3, <1>4, InductiveInvariant, PTL DEF Spec, LifecycleSpec, Lifecycle!Spec
=============================================================================
