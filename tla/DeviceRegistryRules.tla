------------------------- MODULE DeviceRegistryRules -------------------------
(***************************************************************************)
(* Proofs of the registry's rules, the action properties of                *)
(* DeviceRegistry, from the inductive invariant of DeviceRegistryProofs.   *)
(* A rule is broken only by a request that another commit overtook: the    *)
(* proofs classify what a step can do to a row, and use, for a request     *)
(* that was not overtaken, that its reads are still true.                  *)
(***************************************************************************)
EXTENDS DeviceRegistryProofs

(* The two ways a step of r changes row x: the device it registers becomes *)
(* active, or the device it deactivates is stamped.                        *)
Registers(r, x) ==
    /\ txn[r].pc \in {"reactivate", "insert", "remedy"}
    /\ x = txn[r].own
    /\ rows'[x] = Null
    /\ txn[r].pc # "reactivate" => rows[x] = NoRow
Stamped(r, x) ==
    /\ txn[r].pc \in {"remedy", "self", "adminStamp"}
    /\ x = txn[r].target
    /\ rows'[x] \in Nat /\ txn[r].at <= rows'[x]

(* The rows a step of r may change. *)
Named(r) ==
    IF txn[r].pc \in {"reactivate", "insert"} THEN {txn[r].own}
    ELSE IF txn[r].pc = "remedy" THEN {txn[r].own, txn[r].target}
    ELSE {txn[r].target}

(* r commits a write of rows it names; cap remediation writes both.        *)
Writes(r) ==
    /\ Ends(r)
    /\ txn[r].pc = "remedy" => /\ rows[txn[r].own] = NoRow
                               /\ txn[r].target # txn[r].own => rows'[txn[r].target] # Null
    /\ \A x \in RowIds : rows'[x] # rows[x] =>
         x \in Named(r) /\ Owner(x) = txn[r].user /\ (Registers(r, x) \/ Stamped(r, x))

LEMMA CommitEnds ==
  ASSUME IInv, NEW r \in Requests, Busy(r), NEW newRows, Commit(r, newRows)
  PROVE  Ends(r) /\ rows' = newRows
BY Idles DEF Commit, Ends, IInv, Structure, Replies

LEMMA OwnedSlot ==
  ASSUME IInv, NEW r \in Requests, Busy(r)
  PROVE  /\ txn[r].own \in RowIds /\ txn[r].target \in RowIds
         /\ Owner(txn[r].own) = txn[r].user
         /\ txn[r].pc # "selfFind" => Owner(txn[r].target) = txn[r].user
         /\ rows \in [RowIds -> RowValues]
BY SlotTypes DEF IInv, Structure, OwnedOK, Owned, TypeOK, RowValues

(* Sign-ins that write activate the device they register. *)
LEMMA SignInWrites ==
  ASSUME IInv, NEW r \in Requests, Reactivate(r) \/ Insert(r)
  PROVE  Writes(r)
<1>1. /\ Busy(r) /\ Commit(r, [rows EXCEPT ![txn[r].own] = Null])
      /\ txn[r].pc \in {"reactivate", "insert"}
      /\ txn[r].pc = "insert" => rows[txn[r].own] = NoRow
  BY DEF Reactivate, Insert, Busy
<1>2. Ends(r) /\ rows' = [rows EXCEPT ![txn[r].own] = Null]
  BY <1>1, CommitEnds
<1>3. /\ rows'[txn[r].own] = Null
      /\ \A x \in RowIds : x # txn[r].own => rows'[x] = rows[x]
  BY <1>1, <1>2, OwnedSlot
<1> QED
  BY <1>1, <1>2, <1>3, OwnedSlot DEF Writes, Registers, Named

LEMMA RemedyWrites ==
  ASSUME IInv, NEW r \in Requests, Remedy(r)
  PROVE  Writes(r)
<1>1. /\ Busy(r) /\ txn[r].pc = "remedy" /\ rows[txn[r].own] = NoRow
  BY DEF Remedy, Busy
<1>2. PICK at \in Stamps(r) :
        Commit(r, [rows EXCEPT ![txn[r].target] = at, ![txn[r].own] = Null])
  BY DEF Remedy
<1>3. /\ Ends(r)
      /\ rows' = [rows EXCEPT ![txn[r].target] = at, ![txn[r].own] = Null]
  BY <1>1, <1>2, CommitEnds
<1>4. at \in Nat /\ txn[r].at <= at
  BY <1>1, StampTypes DEF IInv, Structure
<1>5. /\ rows'[txn[r].own] = Null
      /\ txn[r].target # txn[r].own => rows'[txn[r].target] = at
      /\ \A x \in RowIds : x \notin {txn[r].own, txn[r].target} => rows'[x] = rows[x]
  BY <1>1, <1>3, OwnedSlot
<1> QED
  BY <1>1, <1>3, <1>4, <1>5, OwnedSlot, SentinelsAssumption
     DEF Writes, Registers, Stamped, Named

LEMMA StampWrites ==
  ASSUME IInv, NEW r \in Requests, txn[r].pc \in {"self", "adminStamp"},
         \E at \in Stamps(r) : Commit(r, [rows EXCEPT ![txn[r].target] = at])
  PROVE  /\ Writes(r) /\ rows'[txn[r].target] \in Nat
         /\ txn[r].at <= rows'[txn[r].target]
<1>1. Busy(r)
  BY DEF Busy
<1>2. PICK at \in Stamps(r) : Commit(r, [rows EXCEPT ![txn[r].target] = at])
  OBVIOUS
<1>3. Ends(r) /\ rows' = [rows EXCEPT ![txn[r].target] = at]
  BY <1>1, <1>2, CommitEnds
<1>4. at \in Nat /\ txn[r].at <= at
  BY <1>1, StampTypes DEF IInv, Structure
<1>5. /\ rows'[txn[r].target] = at
      /\ \A x \in RowIds : x # txn[r].target => rows'[x] = rows[x]
  BY <1>1, <1>3, OwnedSlot
<1> QED
  BY <1>1, <1>3, <1>4, <1>5, OwnedSlot DEF Writes, Stamped, Named

(* A step changes the table only as the write of one request. *)
LEMMA RowWriters ==
  ASSUME IInv, [Next]_vars
  PROVE  rows' = rows \/ \E r \in Requests : Writes(r)
<1>1. CASE UNCHANGED vars
  BY <1>1 DEF vars
<1>2. CASE Tick
  BY <1>2 DEF Tick
<1>3. ASSUME NEW r \in Requests, Arrive(r)
      PROVE  rows' = rows
  BY <1>3 DEF Arrive, SignIn, RemedyFind, Principal, ListPrincipal, SelfPrincipal, AdminFind
<1>4. ASSUME NEW r \in Requests, Handle(r)
      PROVE  rows' = rows \/ Writes(r)
  <2>1. CASE Touch(r)
    BY <2>1 DEF Touch, Commit
  <2>2. CASE Reactivate(r) \/ Insert(r)
    BY <2>2, SignInWrites
  <2>3. CASE CountActive(r) \/ RefuseAtCap(r) \/ ListDevices(r) \/ SelfFind(r)
    BY <2>3 DEF CountActive, RefuseAtCap, ListDevices, SelfFind
  <2>4. CASE InsertFails(r) \/ RemedyRefused(r) \/ SelfRefused(r) \/ Abort(r)
    BY <2>4 DEF InsertFails, RemedyRefused, SelfRefused, RefuseInCooldown, Abort, Fail
  <2>5. CASE RemedyCheck(r) \/ SelfCheck(r)
    BY <2>5 DEF RemedyCheck, SelfCheck, PassCooldown
  <2>6. CASE Remedy(r)
    BY <2>6, RemedyWrites
  <2>7. CASE SelfDeactivate(r)
    BY <2>7, StampWrites DEF SelfDeactivate
  <2>8. CASE AdminForceDeactivate(r)
    <3>1. rows' = rows \/ /\ txn[r].pc = "adminStamp"
                          /\ \E at \in Stamps(r) : Commit(r, [rows EXCEPT ![txn[r].target] = at])
      BY <2>8 DEF AdminForceDeactivate, Commit
    <3> QED
      BY <3>1, StampWrites
  <2> QED
    BY <1>4, <2>1, <2>2, <2>3, <2>4, <2>5, <2>6, <2>7, <2>8 DEF Handle
<1> QED
  BY <1>1, <1>2, <1>3, <1>4 DEF Next

(* What the writer of a row read is still true, unless it was overtaken. *)
LEMMA WriterReads ==
  ASSUME IInv, NEW r \in Requests, Ends(r), r \notin conflicted
  PROVE  ReadsStillTrue(r)
BY DEF IInv, UncontendedReadsHold, Ends

-----------------------------------------------------------------------------
(* The rules of the rows *)

(* A device changes only by a request for its own user that registers it   *)
(* or was asked to deactivate it (the user_id conjuncts at                 *)
(* device_service.py:85, 137, 178, 202).                                   *)
THEOREM OthersUntouched == Spec => DevicesOfOthersUntouched
<1>1. ASSUME IInv, [Next]_vars
      PROVE  DevicesOfOthersUntouchedStep
  <2> SUFFICES ASSUME NEW x \in RowIds, rows'[x] # rows[x]
               PROVE  \E r \in Requests : /\ WritesFor(r, Owner(x))
                                          /\ x \in {txn[r].own, txn[r].target}
    BY DEF DevicesOfOthersUntouchedStep
  <2>1. PICK r \in Requests : Writes(r)
    BY <1>1, RowWriters
  <2>2. x \in Named(r) /\ Owner(x) = txn[r].user /\ Ends(r)
    BY <2>1 DEF Writes
  <2> QED
    BY <2>2 DEF Named, WritesFor
<1> QED
  BY <1>1, InductiveInvariant, PTL DEF Spec, DevicesOfOthersUntouched

(* A viewer's own deactivation waits a cooldown, unless the request was    *)
(* overtaken (device_service.py:53-69, 144-147, 186-187).                  *)
THEOREM CooldownRule == Spec => CooldownBrokenOnlyByRace
<1>1. ASSUME IInv, [Next]_vars
      PROVE  CooldownBrokenOnlyByRaceStep
  <2> SUFFICES ASSUME NEW x \in RowIds, rows[x] = Null, rows'[x] # Null
               PROVE  \E r \in Requests :
                        /\ WritesFor(r, Owner(x))
                        /\ \/ txn[r].pc = "adminStamp"
                           \/ r \in conflicted
                           \/ \A y \in RowIds : Owner(y) = Owner(x) /\ rows[y] \in Nat
                                                => rows[y] + Cooldown <= rows'[x]
    BY DEF CooldownBrokenOnlyByRaceStep
  <2>1. PICK r \in Requests : Writes(r)
    BY <1>1, RowWriters
  <2>2. Stamped(r, x) /\ WritesFor(r, Owner(x)) /\ Ends(r) /\ Owner(x) = txn[r].user
    BY <2>1 DEF Writes, Registers, WritesFor
  <2>3. ASSUME txn[r].pc \in {"remedy", "self"}, r \notin conflicted,
               NEW y \in RowIds, Owner(y) = Owner(x), rows[y] \in Nat
        PROVE  rows[y] + Cooldown <= rows'[x]
    <3>1. NoRecent(txn[r].user, txn[r].at)
      BY <1>1, <2>2, <2>3, WriterReads DEF ReadsStillTrue
    <3>2. rows[y] + Cooldown <= txn[r].at
      BY <2>2, <2>3, <3>1 DEF NoRecent
    <3>3. txn[r].at \in Nat
      BY <1>1, <2>2, SlotTypes DEF Ends, IInv, Structure
    <3> QED
      BY <2>2, <2>3, <3>2, <3>3, ParametersAssumption DEF Stamped
  <2> QED
    BY <2>2, <2>3 DEF Stamped
<1> QED
  BY <1>1, InductiveInvariant, PTL DEF Spec, CooldownBrokenOnlyByRace

(* A deactivated device keeps its stamp, except by a reactivation that     *)
(* found it a cooldown old or by an overtaken request                      *)
(* (device_service.py:94-102, 147, 187, 208-209).                          *)
THEOREM StampsKept == Spec => StampsLostOnlyByRace
<1>1. ASSUME IInv, [Next]_vars
      PROVE  StampsLostOnlyByRaceStep
  <2> SUFFICES ASSUME NEW x \in RowIds, rows[x] \in Nat, rows'[x] # rows[x]
               PROVE  \E r \in Requests :
                        /\ WritesFor(r, Owner(x))
                        /\ \/ r \in conflicted
                           \/ txn[r].pc = "reactivate" /\ rows[x] + Cooldown <= txn[r].at
    BY DEF StampsLostOnlyByRaceStep
  <2>1. PICK r \in Requests : Writes(r)
    BY <1>1, RowWriters
  <2>2. /\ WritesFor(r, Owner(x)) /\ Ends(r)
        /\ Registers(r, x) \/ Stamped(r, x)
    BY <2>1 DEF Writes, WritesFor
  <2>3. r \notin conflicted => ReadsStillTrue(r)
    BY <1>1, <2>2, WriterReads
  <2>4. CASE Registers(r, x)
    <3>1. txn[r].pc = "reactivate" /\ x = txn[r].own
      BY <2>4, SentinelsAssumption DEF Registers
    <3> QED
      BY <2>2, <2>3, <3>1 DEF ReadsStillTrue
  <2>5. CASE Stamped(r, x)
    <3>1. r \notin conflicted => rows[x] = Null
      BY <2>3, <2>5 DEF Stamped, ReadsStillTrue, RemedyPcs
    <3> QED
      BY <2>2, <3>1, SentinelsAssumption
  <2> QED
    BY <2>2, <2>4, <2>5
<1> QED
  BY <1>1, InductiveInvariant, PTL DEF Spec, StampsLostOnlyByRace

-----------------------------------------------------------------------------
(* The cap *)

LEMMA ActiveFinite ==
  ASSUME NEW u \in Users
  PROVE  /\ IsFiniteSet(ActiveRows(u)) /\ IsFiniteSet(ActiveRows(u)')
         /\ ActiveCount(u) \in Nat /\ ActiveCount(u)' \in Nat
<1>1. IsFiniteSet({u} \X Devices)
  BY DevicesAssumption, FS_Singleton, FS_Product
<1>2. ActiveRows(u) \subseteq {u} \X Devices /\ ActiveRows(u)' \subseteq {u} \X Devices
  BY DEF ActiveRows, RowIds, Owner
<1>3. IsFiniteSet(ActiveRows(u)) /\ IsFiniteSet(ActiveRows(u)')
  BY <1>1, <1>2, FS_Subset
<1> QED
  BY <1>3, FS_CardinalityType DEF ActiveCount

(* How many devices are active when the set gains one, loses some, or      *)
(* trades one for another.                                                 *)
LEMMA CountAfterGain ==
  ASSUME NEW u \in Users, NEW x, ActiveRows(u)' \subseteq ActiveRows(u) \cup {x}
  PROVE  ActiveCount(u)' <= ActiveCount(u) + 1
<1>1. /\ IsFiniteSet(ActiveRows(u) \cup {x})
      /\ Cardinality(ActiveRows(u) \cup {x}) <= Cardinality(ActiveRows(u)) + 1
  <2>1. IsFiniteSet(ActiveRows(u) \cup {x})
    BY ActiveFinite, FS_AddElement
  <2>2. Cardinality(ActiveRows(u) \cup {x}) =
          IF x \in ActiveRows(u) THEN Cardinality(ActiveRows(u))
                                 ELSE Cardinality(ActiveRows(u)) + 1
    BY ActiveFinite, FS_AddElement
  <2>3. Cardinality(ActiveRows(u)) \in Nat
    BY ActiveFinite DEF ActiveCount
  <2> QED
    BY <2>1, <2>2, <2>3
<1>2. Cardinality(ActiveRows(u)') <= Cardinality(ActiveRows(u) \cup {x})
  BY <1>1, FS_Subset
<1>3. Cardinality(ActiveRows(u) \cup {x}) \in Nat
  BY <1>1, FS_CardinalityType
<1> QED
  BY <1>1, <1>2, <1>3, ActiveFinite DEF ActiveCount

LEMMA CountAfterLoss ==
  ASSUME NEW u \in Users, ActiveRows(u)' \subseteq ActiveRows(u)
  PROVE  ActiveCount(u)' <= ActiveCount(u)
BY ActiveFinite, FS_Subset DEF ActiveCount

LEMMA CountAfterSwap ==
  ASSUME NEW u \in Users, NEW x, NEW y \in ActiveRows(u),
         ActiveRows(u)' \subseteq (ActiveRows(u) \ {y}) \cup {x}
  PROVE  ActiveCount(u)' <= ActiveCount(u)
<1> DEFINE Rest == ActiveRows(u) \ {y}
<1>1. IsFiniteSet(Rest)
  BY ActiveFinite, FS_RemoveElement
<1>2. Cardinality(Rest) = Cardinality(ActiveRows(u)) - 1
  BY ActiveFinite, FS_RemoveElement
<1>3. Cardinality(Rest) \in Nat
  BY <1>1, FS_CardinalityType
<1> HIDE DEF Rest
<1>4. IsFiniteSet(Rest \cup {x})
  BY <1>1, FS_AddElement
<1>5. Cardinality(Rest \cup {x}) = IF x \in Rest THEN Cardinality(Rest) ELSE Cardinality(Rest) + 1
  BY <1>1, FS_AddElement
<1>6. Cardinality(ActiveRows(u)') <= Cardinality(Rest \cup {x})
  BY <1>4, FS_Subset DEF Rest
<1>7. Cardinality(ActiveRows(u)) \in Nat /\ Cardinality(ActiveRows(u)') \in Nat
  BY ActiveFinite DEF ActiveCount
<1> QED
  BY <1>2, <1>3, <1>5, <1>6, <1>7 DEF ActiveCount

(* The active devices a write leaves behind. *)
LEMMA ActiveAfterWrite ==
  ASSUME IInv, NEW r \in Requests, Writes(r), NEW u \in Users
  PROVE  /\ ~ActiveRows(u)' \subseteq ActiveRows(u) =>
               /\ txn[r].pc \in {"reactivate", "insert", "remedy"} /\ txn[r].user = u
               /\ ActiveRows(u)' \subseteq ActiveRows(u) \cup {txn[r].own}
         /\ txn[r].pc = "remedy" /\ rows[txn[r].target] = Null
               => txn[r].target \notin ActiveRows(u)'
<1>1. ASSUME NEW x \in ActiveRows(u)', x \notin ActiveRows(u)
      PROVE  /\ txn[r].pc \in {"reactivate", "insert", "remedy"} /\ txn[r].user = u
             /\ x = txn[r].own
  <2>1. x \in RowIds /\ Owner(x) = u /\ rows'[x] = Null /\ rows[x] # Null
    BY <1>1 DEF ActiveRows
  <2>2. Owner(x) = txn[r].user /\ (Registers(r, x) \/ Stamped(r, x))
    BY <2>1 DEF Writes
  <2> QED
    BY <2>1, <2>2, SentinelsAssumption DEF Registers, Stamped
<1>2. txn[r].pc = "remedy" /\ rows[txn[r].target] = Null => rows'[txn[r].target] # Null
  BY SentinelsAssumption DEF Writes
<1> QED
  BY <1>1, <1>2 DEF ActiveRows

(* Which writes leave a user with more active devices: cap remediation     *)
(* swaps two, unless its target was deactivated meanwhile.                 *)
LEMMA CountRises ==
  ASSUME IInv, [Next]_vars, NEW u \in Users, ActiveCount(u)' > ActiveCount(u)
  PROVE  \E r \in Requests :
           /\ Writes(r) /\ WritesFor(r, u) /\ rows' # rows
           /\ \/ txn[r].pc \in {"reactivate", "insert"}
              \/ txn[r].pc = "remedy" /\ r \in conflicted
           /\ ActiveCount(u)' <= ActiveCount(u) + 1
<1>1. ~ActiveRows(u)' \subseteq ActiveRows(u)
  BY CountAfterLoss, ActiveFinite
<1>2. rows' # rows
  BY <1>1 DEF ActiveRows
<1>3. PICK r \in Requests : Writes(r)
  BY <1>2, RowWriters
<1>4. /\ txn[r].pc \in {"reactivate", "insert", "remedy"} /\ txn[r].user = u
      /\ ActiveRows(u)' \subseteq ActiveRows(u) \cup {txn[r].own}
      /\ WritesFor(r, u) /\ Ends(r) /\ Busy(r)
  BY <1>1, <1>3, ActiveAfterWrite DEF Writes, WritesFor, Ends
<1>5. ActiveCount(u)' <= ActiveCount(u) + 1
  BY <1>4, CountAfterGain
<1>6. ASSUME txn[r].pc = "remedy", r \notin conflicted PROVE FALSE
  <2>1. rows[txn[r].target] = Null
    BY <1>4, <1>6, WriterReads DEF ReadsStillTrue, RemedyPcs
  <2>2. txn[r].target \in ActiveRows(u)
    BY <1>4, <1>6, <2>1, OwnedSlot DEF ActiveRows
  <2>3. txn[r].target \notin ActiveRows(u)'
    BY <1>3, <1>6, <2>1, ActiveAfterWrite
  <2>4. ActiveRows(u)' \subseteq (ActiveRows(u) \ {txn[r].target}) \cup {txn[r].own}
    BY <1>4, <2>3
  <2>5. ActiveCount(u)' <= ActiveCount(u)
    BY <2>2, <2>4, CountAfterSwap
  <2> QED
    BY <2>5, ActiveFinite
<1> QED
  BY <1>2, <1>3, <1>4, <1>5, <1>6

(* More active devices than the cap are reached only by an overtaken       *)
(* request or by a reactivation (device_service.py:94-121, 134-158).       *)
THEOREM CapRule == Spec => CapBrokenOnlyByRaceOrReactivation
<1>1. ASSUME IInv, [Next]_vars
      PROVE  CapBrokenOnlyByRaceOrReactivationStep
  <2> SUFFICES ASSUME NEW u \in Users,
                      ActiveCount(u)' > ActiveCount(u), ActiveCount(u)' > Cap
               PROVE  \E r \in Requests :
                        /\ WritesFor(r, u)
                        /\ r \in conflicted \/ txn[r].pc = "reactivate"
    BY DEF CapBrokenOnlyByRaceOrReactivationStep
  <2>1. PICK r \in Requests :
          /\ WritesFor(r, u) /\ ActiveCount(u)' <= ActiveCount(u) + 1
          /\ txn[r].pc \in {"reactivate", "insert"} \/ r \in conflicted
    BY <1>1, CountRises
  <2>2. ASSUME txn[r].pc = "insert", r \notin conflicted PROVE FALSE
    <3>1. ActiveCount(u) < Cap
      BY <1>1, <2>1, <2>2, WriterReads DEF ReadsStillTrue, WritesFor
    <3> QED
      BY <2>1, <3>1, ActiveFinite, ParametersAssumption
  <2> QED
    BY <2>1, <2>2
<1> QED
  BY <1>1, InductiveInvariant, PTL DEF Spec, CapBrokenOnlyByRaceOrReactivation

-----------------------------------------------------------------------------
(* The rules of the answers *)

(* A step answers one request; the others keep their slots. *)
LEMMA OneSlot ==
  ASSUME IInv, NEW r \in Requests, Arrive(r) \/ Handle(r)
  PROVE  \A q \in Requests \ {r} : txn'[q] = txn[q]
<1>1. \A new : txn' = [txn EXCEPT ![r] = new] => \A q \in Requests \ {r} : txn'[q] = txn[q]
  BY DEF IInv, Structure, TypeOK
<1>2. CASE Arrive(r)
  <2>1. \/ \E pc, u, own, target : Start(r, pc, u, own, target)
        \/ \E reply : Answer(r, reply)
    BY <1>2 DEF Arrive, SignIn, RemedyFind, Principal, ListPrincipal, SelfPrincipal,
                AdminFind, FindTarget, Refuse
  <2> QED
    BY <1>1, <2>1 DEF Start, Answer
<1>3. CASE Handle(r)
  <2>1. \/ \E pc : Goto(r, pc)
        \/ \E reply : Answer(r, reply)
        \/ \E new : Commit(r, new)
    BY <1>3 DEF Handle, Touch, Reactivate, CountActive, RefuseAtCap, Insert, InsertFails,
                RemedyCheck, RemedyRefused, Remedy, ListDevices, SelfFind,
                SelfCheck, SelfRefused, SelfDeactivate, AdminForceDeactivate, Abort,
                PassCooldown, RefuseInCooldown, Fail
  <2> QED
    BY <1>1, <2>1 DEF Goto, Answer, Commit
<1> QED
  BY <1>2, <1>3

(* The request that stops being in flight is the one whose handler ran. *)
LEMMA EndsByItself ==
  ASSUME IInv, [Next]_vars, NEW r \in Requests, Ends(r)
  PROVE  Handle(r)
<1>1. txn' # txn
  BY DEF Ends, Busy
<1>2. PICK s \in Requests : Arrive(s) \/ Handle(s)
  BY <1>1 DEF Next, Tick, vars
<1>3. s = r
  BY <1>2, OneSlot DEF Ends, Busy
<1>4. ~Arrive(r)
  BY DEF Arrive, SignIn, RemedyFind, Principal, ListPrincipal, SelfPrincipal,
                AdminFind, FindTarget, Refuse, Start, Ends
<1> QED
  BY <1>2, <1>3, <1>4

(* Which handlers fail. *)
LEMMA Failures ==
  ASSUME IInv, NEW r \in Requests, Handle(r), txn'[r] = Idle("error")
  PROVE  InsertFails(r) \/ RemedyRefused(r) \/ SelfRefused(r)
<1>1. \A new : txn' = [txn EXCEPT ![r] = new] => txn'[r] = new
  BY DEF IInv, Structure, TypeOK
<1>2. /\ \A new : ~Commit(r, new)
      /\ \A reply : Answer(r, reply) => reply = "error"
  BY <1>1 DEF Commit, Answer, Idle
<1>3. \A pc : Goto(r, pc) => pc = "idle"
  <2> SUFFICES ASSUME NEW pc, Goto(r, pc) PROVE pc = "idle"
    OBVIOUS
  <2>1. txn'[r] = [pc |-> pc, user |-> txn[r].user, own |-> txn[r].own,
                   target |-> txn[r].target, at |-> now]
    BY DEF Goto, IInv, Structure, TypeOK
  <2>2. txn'[r].pc = pc
    BY <2>1
  <2> QED
    BY <2>2 DEF Idle
<1>4. ~(Touch(r) \/ Reactivate(r) \/ Insert(r) \/ Remedy(r))
  BY <1>2 DEF Touch, Reactivate, Insert, Remedy
<1>5. ~(SelfDeactivate(r) \/ AdminForceDeactivate(r))
  BY <1>2 DEF SelfDeactivate, AdminForceDeactivate
<1>6. ~(CountActive(r) \/ RemedyCheck(r) \/ SelfCheck(r))
  BY <1>3 DEF CountActive, RemedyCheck, SelfCheck, PassCooldown
<1>7. ~(RefuseAtCap(r) \/ ListDevices(r) \/ SelfFind(r) \/ Abort(r))
  BY <1>2, <1>3 DEF RefuseAtCap, ListDevices, SelfFind, Abort, Fail
<1> QED
  BY <1>4, <1>5, <1>6, <1>7 DEF Handle

(* An internal error answers only an overtaken request, or cap remediation *)
(* for a device that already has a row (device_service.py:68, 119-120,     *)
(* 149-158).                                                               *)
THEOREM ErrorRule == Spec => ErrorsOnlyByRace
<1>1. ASSUME IInv, [Next]_vars
      PROVE  ErrorsOnlyByRaceStep
  <2> SUFFICES ASSUME NEW r \in Requests, Busy(r), txn'[r] = Idle("error"),
                      r \notin conflicted
               PROVE  txn[r].pc = "remedy" /\ rows[txn[r].own] # NoRow
    BY DEF ErrorsOnlyByRaceStep
  <2>1. Ends(r)
    BY DEF Ends, Idle
  <2>2. ReadsStillTrue(r)
    BY <1>1, <2>1, WriterReads
  <2>3. InsertFails(r) \/ RemedyRefused(r) \/ SelfRefused(r)
    BY <1>1, <2>1, EndsByItself, Failures
  <2>4. CASE InsertFails(r)
    BY <2>2, <2>4 DEF InsertFails, ReadsStillTrue
  <2>5. ASSUME NEW from, NEW loaded, RefuseInCooldown(r, from, loaded)
        PROVE  \E x \in loaded : rows[x] \in Nat
    <3>1. PICK x \in Recent(txn[r].user) : Fail(r, IF x \in loaded THEN "error" ELSE "cooldown")
      BY <2>5 DEF RefuseInCooldown, Latest
    <3>2. txn'[r] = Idle(IF x \in loaded THEN "error" ELSE "cooldown")
      BY <1>1, <3>1 DEF Fail, Answer, IInv, Structure, TypeOK
    <3>3. x \in loaded
      BY <3>2 DEF Idle
    <3> QED
      BY <3>1, <3>3 DEF Recent, InCooldown
  <2>6. ~RemedyRefused(r)
    BY <2>2, <2>5, SentinelsAssumption
       DEF RemedyRefused, RefuseInCooldown, ReadsStillTrue, RemedyPcs
  <2>7. ~SelfRefused(r)
    BY <2>2, <2>5, SentinelsAssumption
       DEF SelfRefused, RefuseInCooldown, ReadsStillTrue, SelfPcs
  <2> QED
    BY <2>3, <2>4, <2>6, <2>7
<1> QED
  BY <1>1, InductiveInvariant, PTL DEF Spec, ErrorsOnlyByRace

(* A device an administrator forced out is inactive once the action is     *)
(* logged, unless the request was overtaken (device_service.py:205-218).   *)
THEOREM AdminRule == Spec => LoggedDeviceIsInactive
<1>1. ASSUME IInv, [Next]_vars
      PROVE  LoggedDeviceIsInactiveStep
  <2> SUFFICES ASSUME NEW r \in Requests, txn[r].pc \in AdminPcs, txn'[r] = Idle("ok"),
                      r \notin conflicted
               PROVE  rows'[txn[r].target] \in Nat
    BY DEF LoggedDeviceIsInactiveStep
  <2>1. Ends(r) /\ Busy(r)
    BY DEF Ends, Idle, Busy, AdminPcs
  <2>2. ReadsStillTrue(r) /\ Handle(r)
    BY <1>1, <2>1, WriterReads, EndsByItself
  <2>3. ~Abort(r)
    BY <1>1 DEF Abort, Fail, Answer, Idle, IInv, Structure, TypeOK
  <2>4. AdminForceDeactivate(r)
    BY <2>2, <2>3 DEF Handle, Touch, Reactivate, CountActive, RefuseAtCap, Insert, InsertFails,
                      RemedyCheck, RemedyRefused, Remedy, ListDevices, SelfFind,
                      SelfCheck, SelfRefused, SelfDeactivate, PassCooldown,
                      RefuseInCooldown, AdminPcs
  <2>5. CASE txn[r].pc = "adminLog" /\ Commit(r, rows)
    BY <2>2, <2>5 DEF Commit, ReadsStillTrue
  <2>6. CASE /\ txn[r].pc = "adminStamp"
             /\ \E at \in Stamps(r) : Commit(r, [rows EXCEPT ![txn[r].target] = at])
    BY <1>1, <2>6, StampWrites
  <2> QED
    BY <2>4, <2>5, <2>6 DEF AdminForceDeactivate
<1> QED
  BY <1>1, InductiveInvariant, PTL DEF Spec, LoggedDeviceIsInactive

(* A token is minted by a commit for the device its request registers. *)
LEMMA Minters ==
  ASSUME IInv, [Next]_vars, ~tokens' \subseteq tokens
  PROVE  \E r \in Requests : /\ Touch(r) \/ Reactivate(r) \/ Insert(r) \/ Remedy(r)
                             /\ MintToken(txn[r].own)
<1>1. ~Tick /\ ~UNCHANGED vars
  BY DEF Tick, vars
<1>2. PICK r \in Requests : Arrive(r) \/ Handle(r)
  BY <1>1 DEF Next
<1>3. ~Arrive(r)
  BY DEF Arrive, SignIn, RemedyFind, Principal, ListPrincipal, SelfPrincipal, AdminFind
<1>4. ~(CountActive(r) \/ RefuseAtCap(r) \/ ListDevices(r) \/ SelfFind(r)
        \/ SelfDeactivate(r))
  BY DEF CountActive, RefuseAtCap, ListDevices, SelfFind, SelfDeactivate
<1>5. ~(InsertFails(r) \/ RemedyRefused(r) \/ SelfRefused(r) \/ Abort(r))
  BY DEF InsertFails, RemedyRefused, SelfRefused, RefuseInCooldown, Abort, Fail
<1>6. ~(RemedyCheck(r) \/ SelfCheck(r) \/ AdminForceDeactivate(r))
  BY DEF RemedyCheck, SelfCheck, PassCooldown, AdminForceDeactivate
<1>7. Touch(r) \/ Reactivate(r) \/ Insert(r) \/ Remedy(r)
  BY <1>2, <1>3, <1>4, <1>5, <1>6 DEF Handle
<1> QED
  BY <1>7 DEF Touch, Reactivate, Insert, Remedy

(* A sign-in's token is for a device that is active when it commits,       *)
(* unless the request was overtaken (auth.py:137-142, 204-209).            *)
THEOREM TokenRule == Spec => TokenOfActiveDevice
<1>1. ASSUME IInv, [Next]_vars
      PROVE  TokenOfActiveDeviceStep
  <2> SUFFICES ASSUME NEW t \in tokens' \ tokens
               PROVE  \/ rows'[t.device] = Null
                      \/ \E r \in conflicted : Ends(r) /\ txn[r].own = t.device
    BY DEF TokenOfActiveDeviceStep
  <2>1. PICK r \in Requests : /\ Touch(r) \/ Reactivate(r) \/ Insert(r) \/ Remedy(r)
                             /\ MintToken(txn[r].own)
    BY <1>1, Minters
  <2>2. t.device = txn[r].own
    BY <2>1 DEF MintToken
  <2>3. Busy(r) /\ txn[r].own \in RowIds /\ rows \in [RowIds -> RowValues]
    BY <1>1, <2>1, OwnedSlot DEF Touch, Reactivate, Insert, Remedy, Busy
  <2>4. CASE Touch(r)
    <3>1. Ends(r) /\ rows' = rows
      BY <1>1, <2>3, <2>4, CommitEnds DEF Touch
    <3>2. r \notin conflicted => rows[txn[r].own] = Null
      BY <1>1, <2>4, <3>1, WriterReads DEF Touch, ReadsStillTrue
    <3> QED
      BY <2>2, <3>1, <3>2
  <2>5. CASE Reactivate(r) \/ Insert(r)
    <3>1. rows' = [rows EXCEPT ![txn[r].own] = Null]
      BY <2>5 DEF Reactivate, Insert, Commit
    <3> QED
      BY <2>2, <2>3, <3>1
  <2>6. CASE Remedy(r)
    <3>1. \E at \in Stamps(r) :
            rows' = [rows EXCEPT ![txn[r].target] = at, ![txn[r].own] = Null]
      BY <2>6 DEF Remedy, Commit
    <3> QED
      BY <2>2, <2>3, <3>1
  <2> QED
    BY <2>1, <2>4, <2>5, <2>6
<1> QED
  BY <1>1, InductiveInvariant, PTL DEF Spec, TokenOfActiveDevice

-----------------------------------------------------------------------------
(* The cooldown as a viewer meets it *)

(* A list is answered by its own step. *)
LEMMA ListAnswers ==
  ASSUME IInv, [Next]_vars, NEW r \in Requests, txn[r].pc = "list", NEW reply,
         txn'[r] = Idle(reply), reply # "aborted"
  PROVE  /\ ListDevices(r)
         /\ \A other : Answer(r, other) => other = reply
<1>1. Ends(r)
  BY DEF Ends, Busy, Idle
<1>2. Handle(r)
  BY <1>1, EndsByItself
<1>3. \A other : Answer(r, other) => other = reply
  BY DEF Answer, Idle, IInv, Structure, TypeOK
<1>4. ~Abort(r)
  BY <1>3 DEF Abort, Fail
<1>5. ~(\/ Touch(r) \/ Reactivate(r) \/ CountActive(r) \/ RefuseAtCap(r) \/ Insert(r)
        \/ InsertFails(r) \/ RemedyCheck(r) \/ RemedyRefused(r) \/ Remedy(r) \/ SelfFind(r)
        \/ SelfCheck(r) \/ SelfRefused(r) \/ SelfDeactivate(r) \/ AdminForceDeactivate(r))
  BY DEF Touch, Reactivate, CountActive, RefuseAtCap, Insert, InsertFails, RemedyCheck,
         RemedyRefused, Remedy, SelfFind, SelfCheck, SelfRefused, SelfDeactivate,
         AdminForceDeactivate, AdminPcs, PassCooldown, RefuseInCooldown
<1> QED
  BY <1>2, <1>3, <1>4, <1>5 DEF Handle

(* No row listed is in cooldown when the latest of them is not. *)
LEMMA LatestEndsLast ==
  ASSUME TypeOK, NEW r \in Requests, NEW x \in Latest(ListedGone(r)), ~InCooldown(x)
  PROVE  \A y \in ListedGone(r) : ~InCooldown(y)
<1> SUFFICES ASSUME NEW y \in ListedGone(r), InCooldown(y)
             PROVE  FALSE
  OBVIOUS
<1>1. rows[x] \in Nat /\ rows[y] \in Nat /\ rows[y] <= rows[x]
  BY DEF Latest, ListedGone
<1>2. now \in Nat /\ Cooldown \in Nat
  BY ParametersAssumption DEF TypeOK
<1> QED
  BY <1>1, <1>2 DEF InCooldown

(* The list of devices tells a cooldown exactly when there is one, unless  *)
(* it is that of the caller's own device, deactivated by another request   *)
(* since the session loaded it as active (devices.py:28-41, deps.py:56,    *)
(* device_service.py:161-171).                                             *)
THEOREM ListRule == Spec => ListTellsCooldown
<1>1. ASSUME IInv, [Next]_vars
      PROVE  ListTellsCooldownStep
  <2> SUFFICES ASSUME NEW r \in Requests, txn[r].pc = "list"
               PROVE  /\ txn'[r] = Idle("locked") => Recent(txn[r].user) # {}
                      /\ txn'[r] = Idle("unlocked") =>
                           \/ Recent(txn[r].user) = {}
                           \/ r \in conflicted /\ Recent(txn[r].user) = {txn[r].own}
    BY DEF ListTellsCooldownStep
  <2>1. TypeOK /\ Busy(r)
    BY <1>1 DEF Busy, IInv, Structure
  <2>2. ASSUME txn'[r] = Idle("locked")
        PROVE  Recent(txn[r].user) # {}
    <3>1. ListDevices(r) /\ \A other : Answer(r, other) => other = "locked"
      BY <1>1, <2>2, ListAnswers
    <3>2. \E x \in ListedGone(r) : InCooldown(x)
      BY <3>1 DEF ListDevices, Latest
    <3> QED
      BY <3>2 DEF ListedGone, Recent
  <2>3. ASSUME txn'[r] = Idle("unlocked")
        PROVE  \/ Recent(txn[r].user) = {}
               \/ r \in conflicted /\ Recent(txn[r].user) = {txn[r].own}
    <3>1. ListDevices(r) /\ \A other : Answer(r, other) => other = "unlocked"
      BY <1>1, <2>3, ListAnswers
    <3>2. \A y \in ListedGone(r) : ~InCooldown(y)
      <4>1. CASE ListedGone(r) = {}
        BY <4>1
      <4>2. ASSUME NEW x \in Latest(ListedGone(r)), ~InCooldown(x)
            PROVE  \A y \in ListedGone(r) : ~InCooldown(y)
        BY <2>1, <4>2, LatestEndsLast
      <4> QED
        BY <3>1, <4>1, <4>2 DEF ListDevices
    <3>3. Recent(txn[r].user) \subseteq {txn[r].own}
      BY <3>2 DEF ListedGone, Recent, InCooldown
    <3>4. txn[r].own \in Recent(txn[r].user) => r \in conflicted
      BY <1>1, <2>1, SentinelsAssumption
         DEF IInv, UncontendedReadsHold, ReadsStillTrue, SelfPcs, Recent, InCooldown
    <3> QED
      BY <3>3, <3>4
  <2> QED
    BY <2>2, <2>3
<1> QED
  BY <1>1, InductiveInvariant, PTL DEF Spec, ListTellsCooldown

(* Who deactivates an administrator's device also logs it; nothing is      *)
(* removed from the log.                                                   *)
LEMMA LogKept ==
  ASSUME IInv, [Next]_vars
  PROVE  /\ audit \subseteq audit'
         /\ \A r \in Requests : Writes(r) /\ txn[r].pc = "adminStamp" /\ rows' # rows
                                => txn[r].target \in audit'
<1>1. CASE UNCHANGED vars \/ Tick
  BY <1>1 DEF vars, Tick
<1>2. CASE \E r \in Requests : Arrive(r) \/ Handle(r)
  <2>1. PICK r \in Requests : Arrive(r) \/ Handle(r)
    BY <1>2
  <2>2. CASE AdminForceDeactivate(r)
    <3>1. audit' = audit \cup {txn[r].target}
      BY <2>2 DEF AdminForceDeactivate
    <3>2. \A q \in Requests : Ends(q) => q = r
      BY <2>1, OneSlot DEF Ends, Busy
    <3> QED
      BY <3>1, <3>2 DEF Writes
  <2>3. CASE Arrive(r)
    BY <2>3 DEF Arrive, SignIn, RemedyFind, Principal, ListPrincipal, SelfPrincipal, AdminFind
  <2>4. CASE \/ Touch(r) \/ Reactivate(r) \/ CountActive(r) \/ RefuseAtCap(r) \/ Insert(r)
             \/ Remedy(r) \/ RemedyCheck(r) \/ ListDevices(r) \/ SelfFind(r) \/ SelfCheck(r)
             \/ SelfDeactivate(r)
    <3>1. audit' = audit
      BY <2>4 DEF Touch, Reactivate, CountActive, RefuseAtCap, Insert, Remedy, RemedyCheck,
                  ListDevices, SelfFind, SelfCheck, SelfDeactivate, PassCooldown
    <3>2. txn[r].pc # "adminStamp"
      BY <2>4 DEF Touch, Reactivate, CountActive, RefuseAtCap, Insert, Remedy, RemedyCheck,
                  ListDevices, SelfFind, SelfCheck, SelfDeactivate, PassCooldown
    <3>3. \A q \in Requests : Ends(q) => q = r
      BY <2>1, OneSlot DEF Ends, Busy
    <3> QED
      BY <3>1, <3>2, <3>3 DEF Writes
  <2>5. CASE InsertFails(r) \/ RemedyRefused(r) \/ SelfRefused(r) \/ Abort(r)
    BY <2>5 DEF InsertFails, RemedyRefused, SelfRefused, RefuseInCooldown, Abort, Fail
  <2> QED
    BY <2>1, <2>2, <2>3, <2>4, <2>5 DEF Handle
<1> QED
  BY <1>1, <1>2 DEF Next

(* A viewer's own deactivations stay a cooldown apart as long as no        *)
(* request is overtaken.                                                   *)
LEMMA ApartKept ==
  ASSUME IInv, [Next]_vars, conflicted = {}, OneOwnDeactivationPerCooldown
  PROVE  OneOwnDeactivationPerCooldown'
<1> USE ParametersAssumption, SentinelsAssumption
<1>1. audit \subseteq audit'
  BY LogKept
<1>2. ASSUME NEW x \in RowIds, NEW y \in RowIds, x # y, Owner(x) = Owner(y),
             x \notin audit', rows'[x] \in Nat, rows'[y] \in Nat, rows'[x] # rows[x]
      PROVE  rows'[y] + Cooldown <= rows'[x]
  <2>1. PICK r \in Requests : Writes(r)
    BY <1>2, RowWriters
  <2>2. Stamped(r, x) /\ Ends(r) /\ Owner(x) = txn[r].user
    BY <1>2, <2>1 DEF Writes, Registers
  <2>3. rows'[y] = rows[y]
    BY <1>2, <2>1, <2>2 DEF Writes, Registers, Stamped
  <2>4. txn[r].pc \in {"remedy", "self"}
    BY <1>2, <2>1, <2>2, LogKept DEF Stamped
  <2>5. NoRecent(txn[r].user, txn[r].at)
    BY <2>2, <2>4, WriterReads DEF ReadsStillTrue
  <2>6. rows[y] + Cooldown <= txn[r].at
    BY <1>2, <2>2, <2>3, <2>5 DEF NoRecent
  <2>7. txn[r].at \in Nat
    BY <2>2, SlotTypes DEF Ends, IInv, Structure
  <2> QED
    BY <1>2, <2>2, <2>3, <2>6, <2>7 DEF Stamped
<1>3. SUFFICES ASSUME NEW x \in RowIds, NEW y \in RowIds, x \notin audit', y \notin audit',
                      x # y, Owner(x) = Owner(y), rows'[x] \in Nat, rows'[y] \in Nat
               PROVE  \/ rows'[x] + Cooldown <= rows'[y]
                      \/ rows'[y] + Cooldown <= rows'[x]
  BY DEF OneOwnDeactivationPerCooldown, RowIds, Owner
<1>4. CASE rows'[x] # rows[x]
  BY <1>2, <1>3, <1>4
<1>5. CASE rows'[y] # rows[y]
  BY <1>2, <1>3, <1>5
<1>6. CASE rows'[x] = rows[x] /\ rows'[y] = rows[y]
  BY <1>1, <1>3, <1>6 DEF OneOwnDeactivationPerCooldown
<1> QED
  BY <1>4, <1>5, <1>6

(* The devices a viewer deactivated were deactivated a cooldown apart      *)
(* unless some request was overtaken, however many are in flight           *)
(* (device_service.py:53-69, 144-147, 186-187).                            *)
THEOREM OwnDeactivationsApart ==
  Spec /\ [](conflicted = {}) => []OneOwnDeactivationPerCooldown
<1>1. Init => OneOwnDeactivationPerCooldown
  BY SentinelsAssumption DEF Init, OneOwnDeactivationPerCooldown
<1>2. IInv /\ [Next]_vars /\ conflicted = {} /\ OneOwnDeactivationPerCooldown
      => OneOwnDeactivationPerCooldown'
  BY ApartKept
<1> QED
  BY <1>1, <1>2, InductiveInvariant, PTL DEF Spec

(* A request that runs alone is not overtaken. *)
LEMMA AloneKept ==
  ASSUME IInv, [Next]_vars, conflicted = {}, \A r, s \in Requests : r = s
  PROVE  conflicted' = {}
<1>1. ASSUME NEW r \in Requests, Arrive(r) \/ Handle(r)
      PROVE  conflicted' \subseteq conflicted \/ conflicted' \subseteq Requests \ {r}
  <2>1. CASE Arrive(r)
    BY <2>1 DEF Arrive, SignIn, RemedyFind, Principal, ListPrincipal, SelfPrincipal,
                AdminFind, FindTarget, Refuse,
                Start, Answer
  <2>2. CASE Handle(r)
    <3>1. \/ UNCHANGED conflicted
          \/ \E reply : Answer(r, reply)
          \/ \E new : Commit(r, new)
      BY <2>2 DEF Handle, Touch, Reactivate, CountActive, RefuseAtCap, Insert, InsertFails,
                  RemedyCheck, RemedyRefused, Remedy, ListDevices, SelfFind,
                  SelfCheck, SelfRefused, SelfDeactivate, AdminForceDeactivate, Abort,
                  PassCooldown, RefuseInCooldown, Fail
    <3> QED
      BY <3>1 DEF Answer, Commit
  <2> QED
    BY <1>1, <2>1, <2>2
<1> QED
  BY <1>1 DEF Next, Tick, vars

(* With one request at a time the devices a viewer deactivated were        *)
(* deactivated a cooldown apart (device_service.py:53-69).                 *)
THEOREM SerialDeactivationsApart ==
  ASSUME \A r, s \in Requests : r = s
  PROVE  Spec => []OneOwnDeactivationPerCooldown
<1>1. Init => conflicted = {}
  BY DEF Init
<1>2. IInv /\ [Next]_vars /\ conflicted = {} => (conflicted = {})'
  BY AloneKept
<1>3. Spec => [](conflicted = {})
  BY <1>1, <1>2, InductiveInvariant, PTL DEF Spec
<1> QED
  BY <1>3, OwnDeactivationsApart, PTL
=============================================================================
