----------------------------- MODULE SignInProofs -----------------------------
(***************************************************************************)
(* Proofs about SignIn for any requests, devices, codes and parameters:    *)
(* the composition implements both of its parts, and nothing depends on a  *)
(* users row before that row is committed.                                 *)
(***************************************************************************)
EXTENDS SignIn, TLAPS

-----------------------------------------------------------------------------
(* The parts *)

LEMMA CodeStepsKeepTime ==
  ASSUME NEW r, Codes!Arrive(r) \/ Codes!Unlocked(r) \/ Codes!Locking(r) \/ Codes!Abort(r)
  PROVE  now' = now
BY DEF Codes!Arrive, Codes!Issue, Codes!Verify, Codes!Unlocked, Codes!Send, Codes!IssueCommit,
       Codes!Accept, Codes!Release, Codes!Locking, Codes!RejectWrong, Codes!Consume, Codes!Abort

LEMMA RegistryStepsKeepTime ==
  ASSUME NEW r, Registry!Arrive(r) \/ Registry!Handle(r)
  PROVE  now' = now
<1>1. CASE Registry!Arrive(r)
  BY <1>1 DEF Registry!Arrive, Registry!SignIn, Registry!RemedyFind, Registry!Principal,
              Registry!ListPrincipal, Registry!SelfPrincipal, Registry!AdminFind
<1>2. CASE \/ Registry!Touch(r) \/ Registry!Reactivate(r) \/ Registry!CountActive(r)
           \/ Registry!RefuseAtCap(r) \/ Registry!Insert(r) \/ Registry!InsertFails(r)
  BY <1>2 DEF Registry!Touch, Registry!Reactivate, Registry!CountActive, Registry!RefuseAtCap,
              Registry!Insert, Registry!InsertFails, Registry!Fail
<1>3. CASE \/ Registry!RemedyCheck(r) \/ Registry!RemedyRefused(r) \/ Registry!Remedy(r)
           \/ Registry!ListDevices(r) \/ Registry!SelfFind(r) \/ Registry!SelfCheck(r)
           \/ Registry!SelfRefused(r)
  BY <1>3 DEF Registry!RemedyCheck, Registry!RemedyRefused, Registry!Remedy,
              Registry!ListDevices, Registry!SelfFind,
              Registry!SelfCheck, Registry!SelfRefused, Registry!PassCooldown,
              Registry!RefuseInCooldown, Registry!Fail
<1>4. CASE Registry!SelfDeactivate(r) \/ Registry!AdminForceDeactivate(r) \/ Registry!Abort(r)
  BY <1>4 DEF Registry!SelfDeactivate, Registry!AdminForceDeactivate, Registry!Abort,
              Registry!Fail
<1> QED
  BY <1>1, <1>2, <1>3, <1>4 DEF Registry!Handle

(* A step of a request is a step of the registry, or leaves it alone. *)
LEMMA RequestRegistryStep ==
  ASSUME NEW r \in Requests, Arrive(r) \/ Unlocked(r) \/ Locking(r) \/ Abort(r)
  PROVE  \/ Registry!Arrive(r) \/ Registry!Handle(r)
         \/ UNCHANGED <<now, registryVars>>
<1>1. CASE Arrive(r)
  BY <1>1, CodeStepsKeepTime
     DEF Arrive, VerifyOtp, RequestOtp, ManageDevices, OnlyCodes, Codes!Arrive, Registry!Arrive,
         Codes!Verify, Codes!Issue, Registry!RowIds
<1>2. CASE FindUser(r) \/ InsertUser(r)
  BY <1>2 DEF FindUser, InsertUser
<1>3. CASE InsertUserFails(r)
  BY <1>3 DEF InsertUserFails, Codes!Abort
<1>4. CASE \E d \in Devices : ResolveDevice(r, d)
  BY <1>4 DEF ResolveDevice, Registry!Arrive
<1>5. CASE CountDevices(r) \/ CommitSignIn(r) \/ InsertDeviceFails(r) \/ DeviceStep(r)
  BY <1>5 DEF CountDevices, CommitSignIn, Accepts, InsertDeviceFails, DeviceStep,
              Registry!Handle
<1>6. CASE CodeUnlocked(r) \/ CodeLocking(r)
  BY <1>6, CodeStepsKeepTime
     DEF CodeUnlocked, CodeLocking, OnlyCodes, Codes!Unlocked, registryVars
<1>7. CASE Abort(r)
  BY <1>7 DEF Abort, Codes!Abort, Registry!Handle
<1> QED
  BY <1>1, <1>2, <1>3, <1>4, <1>5, <1>6, <1>7 DEF Unlocked, Locking

(* The same for the codes. *)
LEMMA RequestCodesStep ==
  ASSUME NEW r \in Requests, Arrive(r) \/ Unlocked(r) \/ Locking(r) \/ Abort(r)
  PROVE  \/ Codes!Arrive(r) \/ Codes!Unlocked(r) \/ Codes!Locking(r) \/ Codes!Abort(r)
         \/ UNCHANGED <<now, codeVars>>
<1>1. CASE VerifyOtp(r)
  <2>1. PICK code \in sent \cup {Codes!WrongCode, Absent}, ticket \in tickets \cup {Absent} :
          \/ /\ code # Absent /\ Codes!Verify(r, code)
          \/ /\ ticket # Absent
             /\ \E target \in Registry!RowIds, d \in Devices :
                  Registry!RemedyFind(r, ticket, target, d)
             /\ OnlyRegistry
    BY <1>1 DEF VerifyOtp
  <2> QED
    BY <2>1 DEF Codes!Arrive, Registry!RemedyFind, OnlyRegistry
<1>2. CASE RequestOtp(r)
  BY <1>2 DEF RequestOtp, Codes!Arrive
<1>3. CASE ManageDevices(r)
  BY <1>3 DEF ManageDevices, OnlyRegistry, Registry!Principal,
              Registry!ListPrincipal, Registry!SelfPrincipal, Registry!AdminFind
<1>4. CASE FindUser(r) \/ InsertUser(r)
  BY <1>4 DEF FindUser, InsertUser
<1>5. CASE InsertUserFails(r) \/ InsertDeviceFails(r)
  BY <1>5 DEF InsertUserFails, InsertDeviceFails
<1>6. CASE \E d \in Devices : ResolveDevice(r, d)
  BY <1>6 DEF ResolveDevice, Codes!Unlocked, Registry!SignIn
<1>7. CASE CommitSignIn(r)
  BY <1>7 DEF CommitSignIn, Codes!Unlocked
<1>8. CASE CountDevices(r) \/ DeviceStep(r)
  <2>1. OnlyRegistry /\ Registry!Handle(r)
    BY <1>8 DEF CountDevices, DeviceStep, Registry!Handle
  <2> QED
    BY <2>1, RegistryStepsKeepTime DEF OnlyRegistry
<1>9. CASE CodeUnlocked(r) \/ CodeLocking(r)
  BY <1>9 DEF CodeUnlocked, CodeLocking, Codes!Unlocked
<1>10. CASE Abort(r)
  BY <1>10 DEF Abort, Registry!Abort, Registry!Fail
<1> QED
  BY <1>1, <1>2, <1>3, <1>4, <1>5, <1>6, <1>7, <1>8, <1>9, <1>10 DEF Arrive, Unlocked, Locking

LEMMA RegistrySteps == [Next]_vars => [Registry!Next]_(Registry!vars)
<1>1. CASE UNCHANGED vars
  BY <1>1 DEF vars, registryVars, Registry!vars
<1>2. CASE Tick
  BY <1>2 DEF Tick, Registry!Next
<1>3. CASE \E r \in Requests : Arrive(r) \/ Unlocked(r) \/ Locking(r) \/ Abort(r)
  BY <1>3, RequestRegistryStep DEF Registry!Next, registryVars, Registry!vars
<1> QED
  BY <1>1, <1>2, <1>3 DEF Next

(* No step of a whole request does to the devices what the registry alone  *)
(* could not do: what is proved of it holds inside a sign-in               *)
(* (auth.py:84-216).                                                       *)
THEOREM ImplementsRegistry == Spec => RegistrySpec
<1>1. Init => Registry!Init
  BY DEF Init
<1> QED
  BY <1>1, RegistrySteps, PTL DEF Spec, RegistrySpec, Registry!Spec

(* Nor to the codes: a sign-in consumes its code when it commits and gives *)
(* it back when it does not (auth.py:151-204).                             *)
THEOREM ImplementsCodes == Spec => CodesSpec
<1>1. Init => Codes!Init
  BY DEF Init
<1>2. [Next]_vars => [Codes!Next]_(Codes!vars)
  <2>1. CASE UNCHANGED vars
    BY <2>1 DEF vars, codeVars, Codes!vars
  <2>2. CASE Tick
    BY <2>2 DEF Tick, Codes!Next
  <2>3. CASE \E r \in Requests : Arrive(r) \/ Unlocked(r) \/ Locking(r) \/ Abort(r)
    BY <2>3, RequestCodesStep DEF Codes!Next, codeVars, Codes!vars
  <2> QED
    BY <2>1, <2>2, <2>3 DEF Next
<1> QED
  BY <1>1, <1>2, PTL DEF Spec, CodesSpec, Codes!Spec

-----------------------------------------------------------------------------
(* The user first *)

Slots(f) == f = [r \in Requests |-> f[r]]
Shape == Slots(devTxn) /\ Slots(otpTxn) /\ Slots(step)

(* A request that got as far as the user holds a code; one that works on   *)
(* devices has a user, committed or of its own.                            *)
SlotOK(r) ==
    /\ step[r] # "none" => otpTxn[r].pc = "held"
    /\ step[r] = "insert" => ~Registry!Busy(r)
    /\ Registry!Busy(r) => user \/ step[r] # "none"

UserInv == Shape /\ UserBehindEverything /\ \A r \in Requests : SlotOK(r)

(* Where a step of a request leaves its slot in the registry. *)
LEMMA RegistrySlot ==
  ASSUME NEW r \in Requests, Slots(devTxn), Registry!Arrive(r) \/ Registry!Handle(r)
  PROVE  Slots(devTxn') /\ \A q \in Requests \ {r} : devTxn'[q] = devTxn[q]
<1>1. ASSUME NEW new, devTxn' = [devTxn EXCEPT ![r] = new]
      PROVE  Slots(devTxn') /\ \A q \in Requests \ {r} : devTxn'[q] = devTxn[q]
  BY <1>1 DEF Slots
<1>2. \E new : devTxn' = [devTxn EXCEPT ![r] = new]
  <2>1. CASE Registry!Arrive(r)
    BY <2>1 DEF Registry!Arrive, Registry!SignIn, Registry!RemedyFind, Registry!Principal,
                Registry!ListPrincipal, Registry!SelfPrincipal,
                Registry!AdminFind, Registry!FindTarget, Registry!Start, Registry!Refuse,
                Registry!Answer
  <2>2. CASE \/ Registry!Touch(r) \/ Registry!Reactivate(r) \/ Registry!CountActive(r)
             \/ Registry!RefuseAtCap(r) \/ Registry!Insert(r) \/ Registry!InsertFails(r)
    BY <2>2 DEF Registry!Touch, Registry!Reactivate, Registry!CountActive,
                Registry!RefuseAtCap, Registry!Insert, Registry!InsertFails, Registry!Fail,
                Registry!Commit, Registry!Goto, Registry!Answer
  <2>3. CASE \/ Registry!RemedyCheck(r) \/ Registry!RemedyRefused(r) \/ Registry!Remedy(r)
             \/ Registry!ListDevices(r) \/ Registry!SelfFind(r) \/ Registry!SelfCheck(r)
             \/ Registry!SelfRefused(r)
    BY <2>3 DEF Registry!RemedyCheck, Registry!RemedyRefused, Registry!Remedy,
                Registry!ListDevices, Registry!SelfFind, Registry!SelfCheck,
                Registry!SelfRefused,
                Registry!PassCooldown, Registry!RefuseInCooldown, Registry!Fail,
                Registry!Commit, Registry!Goto, Registry!Answer
  <2>4. CASE Registry!SelfDeactivate(r) \/ Registry!AdminForceDeactivate(r) \/ Registry!Abort(r)
    BY <2>4 DEF Registry!SelfDeactivate, Registry!AdminForceDeactivate, Registry!Abort,
                Registry!Fail, Registry!Commit, Registry!Answer
  <2> QED
    BY <2>1, <2>2, <2>3, <2>4 DEF Registry!Handle
<1> QED
  BY <1>1, <1>2

LEMMA CodesSlot ==
  ASSUME NEW r \in Requests, Slots(otpTxn),
         Codes!Arrive(r) \/ Codes!Unlocked(r) \/ Codes!Locking(r) \/ Codes!Abort(r)
  PROVE  Slots(otpTxn') /\ \A q \in Requests \ {r} : otpTxn'[q] = otpTxn[q]
<1>1. ASSUME NEW new, otpTxn' = [otpTxn EXCEPT ![r] = new]
      PROVE  Slots(otpTxn') /\ \A q \in Requests \ {r} : otpTxn'[q] = otpTxn[q]
  BY <1>1 DEF Slots
<1>2. \E new : otpTxn' = [otpTxn EXCEPT ![r] = new]
  BY DEF Codes!Arrive, Codes!Issue, Codes!Verify, Codes!Unlocked, Codes!Send,
         Codes!IssueCommit, Codes!Accept, Codes!Release, Codes!Locking, Codes!RejectWrong,
         Codes!Consume, Codes!Abort, Codes!Start, Codes!Goto, Codes!Answer
<1> QED
  BY <1>1, <1>2

LEMMA StepSlot ==
  ASSUME NEW r \in Requests, Slots(step),
         Arrive(r) \/ Unlocked(r) \/ Locking(r) \/ Abort(r)
  PROVE  Slots(step') /\ \A q \in Requests \ {r} : step'[q] = step[q]
<1>1. ASSUME NEW new, step' = [step EXCEPT ![r] = new]
      PROVE  Slots(step') /\ \A q \in Requests \ {r} : step'[q] = step[q]
  BY <1>1 DEF Slots
<1>2. step' = step \/ \E new : step' = [step EXCEPT ![r] = new]
  BY DEF Arrive, VerifyOtp, RequestOtp, ManageDevices, OnlyCodes, OnlyRegistry, Unlocked,
         FindUser, CountDevices, CommitSignIn, InsertDeviceFails, ResolveDevice, CodeUnlocked,
         DeviceStep, Locking, CodeLocking, InsertUser, InsertUserFails, Abort, To
<1> QED
  BY <1>1, <1>2

(* The users row is never deleted. *)
LEMMA UserKept ==
  ASSUME user, [Next]_vars
  PROVE  user'
<1>1. ASSUME NEW r \in Requests, Arrive(r) \/ Unlocked(r) \/ Locking(r) \/ Abort(r)
      PROVE  user' = user \/ user' = TRUE
  BY <1>1 DEF Arrive, VerifyOtp, RequestOtp, ManageDevices, OnlyCodes, OnlyRegistry, Unlocked,
              FindUser, CountDevices, CommitSignIn, InsertDeviceFails, ResolveDevice,
              CodeUnlocked, DeviceStep, Locking, CodeLocking, InsertUser, InsertUserFails, Abort
<1> QED
  BY <1>1 DEF Next, Tick, vars

LEMMA DeviceStepIsBusy ==
  ASSUME NEW r \in Requests, DeviceStep(r)
  PROVE  Registry!Busy(r)
BY DEF DeviceStep, Registry!Busy, Registry!InsertFails, Registry!RemedyCheck,
       Registry!RemedyRefused, Registry!Remedy, Registry!ListDevices, Registry!SelfFind,
       Registry!SelfCheck,
       Registry!SelfRefused, Registry!SelfDeactivate, Registry!AdminForceDeactivate,
       Registry!AdminPcs, Registry!PassCooldown, Registry!RefuseInCooldown

(* Before the user is committed no handler but a sign-in's is under way. *)
LEMMA NothingBehind ==
  ASSUME UserInv, ~user, NEW r \in Requests
  PROVE  ~DeviceStep(r) /\ ~ManageDevices(r)
<1>1. tokens = {}
  BY DEF UserInv, UserBehindEverything
<1>2. ~ManageDevices(r)
  BY <1>1 DEF ManageDevices
<1>3. ASSUME DeviceStep(r) PROVE FALSE
  <2>1. Registry!Busy(r) /\ ~Codes!Busy(r)
    BY <1>3, DeviceStepIsBusy DEF DeviceStep
  <2>2. otpTxn[r].pc = "held"
    BY <2>1 DEF UserInv, SlotOK
  <2> QED
    BY <2>1, <2>2 DEF Codes!Busy
<1> QED
  BY <1>2, <1>3

LEMMA UserInit ==
  ASSUME Init
  PROVE  UserInv
<1>1. Shape
  BY DEF Init, Registry!Init, Codes!Init, Shape, Slots
<1>2. UserBehindEverything
  BY DEF Init, Registry!Init, Codes!Init, UserBehindEverything
<1>3. ASSUME NEW r \in Requests PROVE SlotOK(r)
  BY <1>3 DEF Init, Registry!Init, SlotOK, Registry!Busy, Registry!Idle
<1> QED
  BY <1>1, <1>2, <1>3 DEF UserInv

(* While the user stays uncommitted, nothing that depends on it changes.   *)
LEMMA BeforeTheUser ==
  ASSUME UserInv, ~user, ~user', [Next]_vars
  PROVE  UserBehindEverything'
<1>1. /\ \A i \in Codes!Ids : accepted[i] = 0
      /\ \A x \in Registry!RowIds : rows[x] = NoRow
      /\ tickets = {} /\ tokens = {} /\ audit = {}
  BY DEF UserInv, UserBehindEverything
<1>2. SUFFICES UNCHANGED <<rows, accepted, audit>> /\ tokens' \subseteq tokens
               /\ tickets' \subseteq tickets
  BY <1>1 DEF UserBehindEverything, Codes!Ids, Registry!RowIds
<1>3. CASE UNCHANGED vars
  BY <1>3 DEF vars, registryVars, codeVars
<1>4. CASE Tick
  BY <1>4 DEF Tick, Codes!Tick, Registry!Tick
<1>5. ASSUME NEW r \in Requests, Arrive(r) \/ Unlocked(r) \/ Locking(r) \/ Abort(r)
      PROVE  UNCHANGED <<rows, accepted, audit, tokens, tickets>>
  <2>1. CASE Arrive(r)
    BY <2>1, <1>1, NothingBehind
       DEF Arrive, VerifyOtp, RequestOtp, OnlyCodes, registryVars, Codes!Issue, Codes!Verify,
           Registry!RemedyFind, OnlyRegistry, codeVars
  <2>2. CASE FindUser(r) \/ InsertUser(r) \/ InsertUserFails(r)
    BY <2>2 DEF FindUser, InsertUser, InsertUserFails, Codes!Abort, registryVars, codeVars
  <2>3. CASE \E d \in Devices : ResolveDevice(r, d)
    BY <2>3 DEF ResolveDevice, Registry!SignIn, Codes!Release, codeVars
  <2>4. CASE CountDevices(r)
    BY <2>4 DEF CountDevices, Registry!CountActive, OnlyRegistry, codeVars
  <2>5. CASE CommitSignIn(r)
    BY <2>5 DEF CommitSignIn
  <2>6. CASE InsertDeviceFails(r)
    BY <2>6 DEF InsertDeviceFails, Registry!InsertFails, Registry!Fail, Codes!Abort
  <2>7. CASE CodeUnlocked(r) \/ CodeLocking(r)
    BY <2>7 DEF CodeUnlocked, CodeLocking, OnlyCodes, registryVars, Codes!Send,
                Codes!IssueCommit, Codes!Locking, Codes!RejectWrong, Codes!Consume
  <2>8. CASE Abort(r)
    BY <2>8 DEF Abort, Codes!Abort, Registry!Abort, Registry!Fail, registryVars, codeVars
  <2> QED
    BY <1>5, <2>1, <2>2, <2>3, <2>4, <2>5, <2>6, <2>7, <2>8, NothingBehind
       DEF Unlocked, Locking
<1> QED
  BY <1>3, <1>4, <1>5 DEF Next

(* The slot of the request that moves. *)
LEMMA SlotKept ==
  ASSUME UserInv, NEW r \in Requests, Arrive(r) \/ Unlocked(r) \/ Locking(r) \/ Abort(r)
  PROVE  SlotOK(r)'
<1>1. Slots(devTxn) /\ Slots(otpTxn) /\ Slots(step) /\ SlotOK(r)
  BY DEF UserInv, Shape
<1>2. SUFFICES /\ step'[r] # "none" => otpTxn'[r].pc = "held"
               /\ step'[r] = "insert" => devTxn'[r].pc = "idle"
               /\ devTxn'[r].pc # "idle" => user' \/ step'[r] # "none"
  BY <1>2 DEF SlotOK, Registry!Busy
<1>3. CASE VerifyOtp(r)
  <2>1. CASE \E c : Codes!Verify(r, c) /\ ~Registry!Busy(r) /\ OnlyCodes
    BY <2>1, <1>1 DEF Codes!Verify, Codes!Busy, OnlyCodes, registryVars, Registry!Busy, SlotOK
  <2>2. CASE tickets # {} /\ ~Codes!Busy(r) /\ OnlyRegistry
    BY <2>2, <1>1 DEF UserInv, UserBehindEverything, OnlyRegistry, codeVars, Codes!Busy, SlotOK
  <2> QED
    BY <1>3, <2>1, <2>2 DEF VerifyOtp
<1>4. CASE RequestOtp(r)
  BY <1>4, <1>1 DEF RequestOtp, Codes!Issue, Codes!Busy, OnlyCodes, registryVars, Registry!Busy,
                    SlotOK
<1>5. CASE ManageDevices(r) \/ DeviceStep(r)
  <2>1. user /\ ~Codes!Busy(r) /\ OnlyRegistry
    BY <1>5, NothingBehind DEF ManageDevices, DeviceStep
  <2> QED
    BY <2>1, <1>1 DEF OnlyRegistry, codeVars, Codes!Busy, SlotOK
<1>6. CASE FindUser(r)
  BY <1>6, <1>1 DEF FindUser, To, Slots, registryVars, codeVars, SlotOK, Registry!Busy
<1>7. CASE InsertUser(r)
  BY <1>7, <1>1 DEF InsertUser, To, Slots, registryVars, codeVars, SlotOK, Registry!Busy
<1>8. CASE InsertUserFails(r)
  BY <1>8, <1>1 DEF InsertUserFails, To, Slots, registryVars, SlotOK, Registry!Busy
<1>9. ASSUME NEW d \in Devices, ResolveDevice(r, d) PROVE SlotOK(r)'
  <2>1. CASE devTxn'[r].pc = "idle"
    BY <2>1, <1>1, <1>9 DEF ResolveDevice, To, Slots, SlotOK, Registry!Busy
  <2>2. CASE devTxn'[r].pc # "idle"
    BY <2>2, <1>1, <1>9 DEF ResolveDevice, codeVars, SlotOK, Registry!Busy
  <2> QED
    BY <2>1, <2>2
<1>10. CASE CountDevices(r)
  BY <1>10, <1>1 DEF CountDevices, Registry!CountActive, OnlyRegistry, codeVars, SlotOK,
                     Registry!Busy
<1>11. CASE CommitSignIn(r)
  <2>1. step'[r] = "none" /\ user'
    BY <1>11, <1>1 DEF CommitSignIn, To, Slots
  <2> QED
    BY <2>1
<1>12. CASE InsertDeviceFails(r)
  BY <1>12, <1>1 DEF InsertDeviceFails, To, Slots, Registry!InsertFails, Registry!Fail,
                     Registry!Answer, Registry!Idle
<1>13. CASE CodeUnlocked(r) \/ CodeLocking(r)
  <2>1. otpTxn[r].pc # "held" /\ OnlyCodes
    BY <1>13 DEF CodeUnlocked, CodeLocking, Codes!Send, Codes!IssueCommit, Codes!Locking,
                 Codes!RejectWrong, Codes!Consume
  <2> QED
    BY <2>1, <1>1 DEF OnlyCodes, registryVars, SlotOK, Registry!Busy
<1>14. CASE Abort(r)
  <2>1. step'[r] = "none"
    BY <1>14, <1>1 DEF Abort, To, Slots
  <2>2. devTxn'[r].pc = "idle"
    BY <1>14, <1>1 DEF Abort, Registry!Abort, Registry!Fail, Registry!Answer, Registry!Idle,
                       Registry!Busy, registryVars, Slots
  <2> QED
    BY <2>1, <2>2
<1> QED
  BY <1>3, <1>4, <1>5, <1>6, <1>7, <1>8, <1>9, <1>10, <1>11, <1>12, <1>13, <1>14
     DEF Arrive, Unlocked, Locking, SlotOK, Registry!Busy

LEMMA UserStep ==
  ASSUME UserInv, [Next]_vars
  PROVE  UserInv'
<1>1. UserBehindEverything'
  BY BeforeTheUser, UserKept DEF UserBehindEverything
<1>2. CASE UNCHANGED <<devTxn, otpTxn, step>>
  <2>1. user => user'
    BY UserKept
  <2> QED
    BY <1>1, <1>2, <2>1 DEF UserInv, Shape, Slots, SlotOK, Registry!Busy
<1>3. ASSUME NEW r \in Requests, Arrive(r) \/ Unlocked(r) \/ Locking(r) \/ Abort(r)
      PROVE  UserInv'
  <2>1. Shape
    BY DEF UserInv
  <2>2. Slots(devTxn') /\ \A q \in Requests \ {r} : devTxn'[q] = devTxn[q]
    <3>1. CASE UNCHANGED registryVars
      BY <3>1, <2>1 DEF registryVars, Shape
    <3> QED
      BY <1>3, <2>1, <3>1, RequestRegistryStep, RegistrySlot DEF Shape
  <2>3. Slots(otpTxn') /\ \A q \in Requests \ {r} : otpTxn'[q] = otpTxn[q]
    <3>1. CASE UNCHANGED codeVars
      BY <3>1, <2>1 DEF codeVars, Shape
    <3> QED
      BY <1>3, <2>1, <3>1, RequestCodesStep, CodesSlot DEF Shape
  <2>4. Slots(step') /\ \A q \in Requests \ {r} : step'[q] = step[q]
    BY <1>3, <2>1, StepSlot DEF Shape
  <2>5. Shape'
    BY <2>2, <2>3, <2>4 DEF Shape, Slots
  <2>6. SlotOK(r)'
    BY <1>3, SlotKept
  <2>7. ASSUME NEW q \in Requests \ {r} PROVE SlotOK(q)'
    <3>1. SlotOK(q) /\ (user => user')
      BY UserKept DEF UserInv
    <3> QED
      BY <3>1, <2>2, <2>3, <2>4 DEF SlotOK, Registry!Busy
  <2> QED
    BY <1>1, <2>5, <2>6, <2>7 DEF UserInv
<1>4. CASE Tick
  BY <1>4, <1>2 DEF Tick, Codes!Tick, Registry!Tick
<1>5. CASE UNCHANGED vars
  BY <1>5, <1>2 DEF vars, registryVars, codeVars
<1> QED
  BY <1>3, <1>4, <1>5 DEF Next

(* Codes accepted, devices, tickets, tokens and forced sign-outs are those *)
(* of a committed user (auth.py:171-204, device_service.py:33-43).         *)
THEOREM UserFirst == Spec => []UserBehindEverything
<1>1. Init => UserInv
  BY UserInit
<1>2. UserInv /\ [Next]_vars => UserInv'
  BY UserStep
<1>3. UserInv => UserBehindEverything
  BY DEF UserInv
<1> QED
  BY <1>1, <1>2, <1>3, PTL DEF Spec

-----------------------------------------------------------------------------
(* One users row per phone number *)

(* Of the requests at work only one can have inserted the row, and while   *)
(* it is not committed nobody else can find or commit it.                  *)
PhoneInv ==
    /\ \A r, q \in Requests : step[r] = "created" /\ step[q] = "created" => r = q
    /\ \A r \in Requests : step[r] = "created" => ~user
    /\ \A r \in Requests : step[r] = "known" => user

(* What one step of a request does to the users row and to its own slot.   *)
LEMMA PhoneMoves ==
  ASSUME Shape, NEW r \in Requests, Arrive(r) \/ Unlocked(r) \/ Locking(r) \/ Abort(r)
  PROVE  \/ step'[r] = step[r] /\ user' = user
         \/ step'[r] = "none" /\ user' = user
         \/ user' = user /\ step'[r] = IF user THEN "known" ELSE "insert"
         \/ user' = user /\ ~user /\ PhoneFree /\ step'[r] = "created"
         \/ step[r] # "none" /\ Registry!Busy(r) /\ step'[r] = "none" /\ user' = TRUE
<1>1. Slots(step)
  BY DEF Shape
<1>2. CASE Arrive(r) \/ CodeUnlocked(r) \/ CodeLocking(r) \/ DeviceStep(r) \/ CountDevices(r)
  BY <1>2 DEF Arrive, VerifyOtp, RequestOtp, ManageDevices, OnlyCodes, OnlyRegistry,
              CodeUnlocked, CodeLocking, DeviceStep, CountDevices
<1>3. CASE FindUser(r)
  BY <1>1, <1>3 DEF FindUser, To, Slots
<1>4. CASE InsertUser(r)
  BY <1>1, <1>4 DEF InsertUser, To, Slots
<1>5. CASE InsertUserFails(r) \/ InsertDeviceFails(r) \/ Abort(r)
  BY <1>1, <1>5 DEF InsertUserFails, InsertDeviceFails, Abort, To, Slots
<1>6. CASE \E d \in Devices : ResolveDevice(r, d)
  BY <1>1, <1>6 DEF ResolveDevice, To, Slots
<1>7. CASE CommitSignIn(r)
  <2>1. Registry!Busy(r)
    BY <1>7 DEF CommitSignIn, Accepts, Registry!Touch, Registry!Reactivate, Registry!Insert,
                Registry!RefuseAtCap, Registry!Busy
  <2> QED
    BY <1>1, <1>7, <2>1 DEF CommitSignIn, To, Slots
<1> QED
  BY <1>2, <1>3, <1>4, <1>5, <1>6, <1>7 DEF Unlocked, Locking

LEMMA PhoneStep ==
  ASSUME UserInv, PhoneInv, step \in [Requests -> Steps], [Next]_vars
  PROVE  PhoneInv' /\ step' \in [Requests -> Steps]
<1>1. CASE UNCHANGED <<user, step>>
  BY <1>1 DEF PhoneInv
<1>2. ASSUME NEW r \in Requests, Arrive(r) \/ Unlocked(r) \/ Locking(r) \/ Abort(r)
      PROVE  PhoneInv' /\ step' \in [Requests -> Steps]
  <2>1. Slots(step') /\ \A q \in Requests \ {r} : step'[q] = step[q]
    BY <1>2, StepSlot DEF UserInv, Shape
  <2>2. \/ step'[r] = step[r] /\ user' = user
        \/ step'[r] = "none" /\ user' = user
        \/ user' = user /\ step'[r] = IF user THEN "known" ELSE "insert"
        \/ user' = user /\ ~user /\ PhoneFree /\ step'[r] = "created"
        \/ step[r] # "none" /\ Registry!Busy(r) /\ step'[r] = "none" /\ user' = TRUE
    BY <1>2, PhoneMoves DEF UserInv
  <2>3. step' \in [Requests -> Steps]
    BY <2>1, <2>2 DEF Slots, Steps
  <2>4. CASE user' = user /\ (step'[r] = step[r] \/ step'[r] = "none")
    BY <2>1, <2>3, <2>4 DEF PhoneInv
  <2>5. CASE user' = user /\ step'[r] = IF user THEN "known" ELSE "insert"
    BY <2>1, <2>3, <2>5 DEF PhoneInv
  <2>6. CASE user' = user /\ ~user /\ PhoneFree /\ step'[r] = "created"
    BY <2>1, <2>3, <2>6 DEF PhoneInv, PhoneFree
  <2>7. CASE step[r] # "none" /\ Registry!Busy(r) /\ step'[r] = "none" /\ user' = TRUE
    <3>1. step[r] \in {"created", "known"}
      BY <2>7 DEF Steps, UserInv, SlotOK
    <3>2. \A q \in Requests \ {r} : step[q] # "created"
      BY <3>1 DEF PhoneInv
    <3> QED
      BY <2>1, <2>3, <2>7, <3>2 DEF PhoneInv
  <2> QED
    BY <2>2, <2>3, <2>4, <2>5, <2>6, <2>7
<1>3. CASE Tick
  BY <1>3, <1>1 DEF Tick
<1>4. CASE UNCHANGED vars
  BY <1>4, <1>1 DEF vars
<1> QED
  BY <1>2, <1>3, <1>4 DEF Next

(* A code goes back unused only at the device steps of a sign-in. *)
LEMMA ReleasedByResolve ==
  ASSUME UserInv, NEW q \in Requests, Arrive(q) \/ Unlocked(q) \/ Locking(q) \/ Abort(q),
         NEW r \in Requests, otpTxn[r].pc = "held", otpTxn'[r] = Codes!Idle("refused")
  PROVE  q = r /\ \E d \in Devices : ResolveDevice(r, d) /\ devTxn'[r].pc = "idle"
<1>1. Slots(otpTxn) /\ Slots(devTxn)
  BY DEF UserInv, Shape
<1>2. otpTxn'[r].pc = "idle" /\ otpTxn'[r].reply = "refused" /\ otpTxn' # otpTxn
  BY DEF Codes!Idle
<1>3. q = r
  <2>1. CASE UNCHANGED codeVars
    BY <2>1, <1>2 DEF codeVars
  <2> QED
    BY <1>1, <1>2, <2>1, RequestCodesStep, CodesSlot
<1>4. ~Arrive(r)
  BY <1>2 DEF Arrive, VerifyOtp, RequestOtp, ManageDevices, OnlyRegistry, codeVars,
              Codes!Verify, Codes!Issue, Codes!Busy
<1>5. ~(FindUser(r) \/ InsertUser(r) \/ CountDevices(r) \/ DeviceStep(r))
  BY <1>2 DEF FindUser, InsertUser, CountDevices, DeviceStep, OnlyRegistry, codeVars
<1>6. ~(InsertUserFails(r) \/ InsertDeviceFails(r) \/ CommitSignIn(r) \/ Abort(r))
  BY <1>1, <1>2 DEF InsertUserFails, InsertDeviceFails, CommitSignIn, Abort, Codes!Abort,
                    Codes!Accept, Codes!Answer, Codes!Idle, codeVars, Slots
<1>7. ~(CodeUnlocked(r) \/ CodeLocking(r))
  BY DEF CodeUnlocked, CodeLocking, Codes!Send, Codes!IssueCommit, Codes!Locking,
         Codes!RejectWrong, Codes!Consume
<1>8. PICK d \in Devices : ResolveDevice(r, d)
  BY <1>3, <1>4, <1>5, <1>6, <1>7 DEF Unlocked, Locking
<1> QED
  BY <1>2, <1>3, <1>8 DEF ResolveDevice, codeVars

LEMMA RefusedIsKnown ==
  ASSUME UserInv, PhoneInv, [Next]_vars
  PROVE  CooldownOnlyOfKnownUserStep
<1>1. SUFFICES ASSUME NEW r \in Requests,
                      otpTxn[r].pc = "held", otpTxn'[r] = Codes!Idle("refused")
               PROVE  step[r] = "known"
  BY DEF CooldownOnlyOfKnownUserStep
<1>2. otpTxn' # otpTxn
  BY <1>1 DEF Codes!Idle
<1>3. PICK q \in Requests : Arrive(q) \/ Unlocked(q) \/ Locking(q) \/ Abort(q)
  BY <1>2 DEF Next, Tick, Codes!Tick, vars, codeVars
<1>4. PICK d \in Devices : ResolveDevice(r, d) /\ devTxn'[r].pc = "idle"
  BY <1>1, <1>3, ReleasedByResolve
<1>5. ASSUME step[r] = "created" PROVE FALSE
  <2>1. rows[<<Viewer, d>>] = NoRow
    BY <1>5 DEF PhoneInv, UserInv, UserBehindEverything, Registry!RowIds
  <2>2. Registry!Start(r, "count", Viewer, <<Viewer, d>>, <<Viewer, d>>)
    BY <1>4, <2>1, NoRowAssumption DEF ResolveDevice, Registry!SignIn, Registry!InCooldown
  <2> QED
    BY <1>4, <2>2 DEF Registry!Start, UserInv, Shape, Slots
<1> QED
  BY <1>4, <1>5 DEF ResolveDevice

(* A transaction that created its user never ends in cooldown_active: the  *)
(* code it consumed is not given back (auth.py:198-202).                   *)
THEOREM CooldownOfKnownUser == Spec => CooldownOnlyOfKnownUser
<1> DEFINE Inv == UserInv /\ PhoneInv /\ step \in [Requests -> Steps]
<1>1. Init => Inv
  BY UserInit DEF Init, PhoneInv, Steps
<1>2. Inv /\ [Next]_vars => Inv'
  BY UserStep, PhoneStep
<1>3. Inv /\ [Next]_vars => [CooldownOnlyOfKnownUserStep]_vars
  BY RefusedIsKnown
<1> QED
  BY <1>1, <1>2, <1>3, PTL DEF Spec, CooldownOnlyOfKnownUser

-----------------------------------------------------------------------------
(* What is proved of the parts: their theorems name the same definitions   *)
(* through instances of their own.                                         *)

Devs == INSTANCE DeviceRegistryRules WITH Users <- {Viewer}, txn <- devTxn
Otps == INSTANCE OtpProofs WITH txn <- otpTxn

LEMMA SameSize == \A S : Registry!Cardinality(S) = Devs!Cardinality(S)
BY DEF Registry!Cardinality, Devs!Cardinality

LEMMA SameCount ==
  ASSUME NEW u
  PROVE  /\ Registry!ActiveCount(u) = Devs!ActiveCount(u)
         /\ Registry!ActiveCount(u)' = Devs!ActiveCount(u)'
BY SameSize DEF Registry!ActiveCount, Devs!ActiveCount, Registry!ActiveRows, Devs!ActiveRows,
                Registry!RowIds, Devs!RowIds, Registry!Owner, Devs!Owner

LEMMA SameHelpers ==
  /\ Registry!RowIds = Devs!RowIds /\ Registry!AdminPcs = Devs!AdminPcs
  /\ \A x : Registry!Owner(x) = Devs!Owner(x)
  /\ \A r : Registry!Busy(r) = Devs!Busy(r)
  /\ \A r, reply : Registry!Answer(r, reply) = Devs!Answer(r, reply)
  /\ \A r, reply : Registry!Refuse(r, reply) = Devs!Refuse(r, reply)
  /\ \A r, reply : Registry!Fail(r, reply) = Devs!Fail(r, reply)
  /\ \A r, pc : Registry!Goto(r, pc) = Devs!Goto(r, pc)
  /\ \A r, pc, u, x, y : Registry!Start(r, pc, u, x, y) = Devs!Start(r, pc, u, x, y)
  /\ \A r, new : Registry!Commit(r, new) = Devs!Commit(r, new)
  /\ \A x : Registry!MintToken(x) = Devs!MintToken(x)
  /\ \A r : Registry!Stamps(r) = Devs!Stamps(r)
  /\ \A x : Registry!InCooldown(x) = Devs!InCooldown(x)
  /\ \A u : Registry!Recent(u) = Devs!Recent(u)
  /\ \A S : Registry!Latest(S) = Devs!Latest(S)
  /\ \A r : Registry!ListedGone(r) = Devs!ListedGone(r)
BY DEF Registry!RowIds, Registry!AdminPcs, Registry!Owner, Registry!Busy, Registry!Answer,
       Registry!Refuse, Registry!Fail, Registry!Goto, Registry!Start, Registry!Commit,
       Registry!MintToken, Registry!Stamps, Registry!InCooldown, Registry!Recent,
       Registry!Latest, Registry!ListedGone, Registry!Idle,
       Devs!RowIds, Devs!AdminPcs, Devs!Owner, Devs!Busy, Devs!Answer, Devs!Refuse,
       Devs!Fail, Devs!Goto, Devs!Start, Devs!Commit, Devs!MintToken, Devs!Stamps,
       Devs!InCooldown, Devs!Recent, Devs!Latest, Devs!ListedGone, Devs!Idle

LEMMA SameStart == Registry!Init => Devs!Init
BY DEF Registry!Init, Devs!Init, Registry!RowIds, Devs!RowIds, Registry!Idle, Devs!Idle

LEMMA SameArrivals == \A r : Registry!Arrive(r) => Devs!Arrive(r)
BY DEF Registry!Arrive, Registry!SignIn, Registry!RemedyFind, Registry!FindTarget,
       Registry!Principal, Registry!ListPrincipal, Registry!SelfPrincipal,
       Registry!AdminFind, Registry!RowIds, Registry!Owner, Registry!Start, Registry!Refuse,
       Registry!Answer, Registry!Idle, Registry!Busy, Registry!InCooldown,
       Devs!Arrive, Devs!SignIn, Devs!RemedyFind, Devs!FindTarget, Devs!Principal,
       Devs!ListPrincipal, Devs!SelfPrincipal, Devs!AdminFind, Devs!RowIds, Devs!Owner,
       Devs!Start, Devs!Refuse, Devs!Answer, Devs!Idle, Devs!Busy, Devs!InCooldown

LEMMA SameHandlers == \A r : Registry!Handle(r) => Devs!Handle(r)
BY SameHelpers, SameCount
   DEF Registry!Handle, Registry!Touch, Registry!Reactivate, Registry!CountActive,
       Registry!RefuseAtCap, Registry!Insert, Registry!InsertFails, Registry!RemedyCheck,
       Registry!RemedyRefused, Registry!Remedy, Registry!ListDevices, Registry!SelfFind,
       Registry!SelfCheck,
       Registry!SelfRefused, Registry!SelfDeactivate, Registry!AdminForceDeactivate,
       Registry!Abort, Registry!PassCooldown, Registry!RefuseInCooldown,
       Devs!Handle, Devs!Touch, Devs!Reactivate, Devs!CountActive,
       Devs!RefuseAtCap, Devs!Insert, Devs!InsertFails, Devs!RemedyCheck,
       Devs!RemedyRefused, Devs!Remedy, Devs!ListDevices, Devs!SelfFind, Devs!SelfCheck,
       Devs!SelfRefused, Devs!SelfDeactivate, Devs!AdminForceDeactivate,
       Devs!Abort, Devs!PassCooldown, Devs!RefuseInCooldown

LEMMA SameSteps == [Registry!Next]_(Registry!vars) => [Devs!Next]_(Devs!vars)
BY SameArrivals, SameHandlers
   DEF Registry!Next, Registry!Tick, Registry!vars, Devs!Next, Devs!Tick, Devs!vars

(* The inductive invariant of the registry holds inside a sign-in. *)
LEMMA RegistryInvariant == Spec => []Devs!IInv
<1>1. Devs!Spec => []Devs!IInv
  BY Devs!InductiveInvariant, NoRowAssumption, LimitsAssumption, FiniteAssumption
     DEF Devs!IsFiniteSet, IsFiniteSet
<1>2. RegistrySpec => Devs!Spec
  BY SameStart, SameSteps, PTL DEF RegistrySpec, Registry!Spec, Devs!Spec
<1> QED
  BY <1>1, <1>2, ImplementsRegistry, PTL

LEMMA SameCodeSteps ==
  /\ Codes!Init => Otps!Init
  /\ [Codes!Next]_(Codes!vars) => [Otps!Next]_(Otps!vars)
<1>1. \A S : Codes!Cardinality(S) = Otps!Cardinality(S)
  BY DEF Codes!Cardinality, Otps!Cardinality
<1>2. Codes!Init => Otps!Init
  BY DEF Codes!Init, Otps!Init, Codes!Ids, Otps!Ids, Codes!Idle, Otps!Idle
<1>3. Codes!RecentRows = Otps!RecentRows
  BY DEF Codes!RecentRows, Otps!RecentRows, Codes!Rows, Otps!Rows, Codes!Ids, Otps!Ids
<1>4. \A r : Codes!Issue(r) => Otps!Issue(r)
  BY <1>1, <1>3 DEF Codes!Issue, Otps!Issue, Codes!Busy, Otps!Busy, Codes!Answer, Otps!Answer,
                    Codes!Start, Otps!Start, Codes!Idle, Otps!Idle
<1>5. \A r, c : Codes!Verify(r, c) => Otps!Verify(r, c)
  BY DEF Codes!Verify, Otps!Verify, Codes!Unconsumed, Otps!Unconsumed, Codes!Rows, Otps!Rows,
         Codes!Ids, Otps!Ids, Codes!Fresh, Otps!Fresh, Codes!Busy, Otps!Busy, Codes!Answer,
         Otps!Answer, Codes!Start, Otps!Start, Codes!Idle, Otps!Idle
<1>6. \A r : Codes!Unlocked(r) => Otps!Unlocked(r)
  BY DEF Codes!Unlocked, Otps!Unlocked, Codes!Send, Otps!Send, Codes!IssueCommit,
         Otps!IssueCommit, Codes!Accept, Otps!Accept, Codes!Release, Otps!Release,
         Codes!Goto, Otps!Goto, Codes!Answer, Otps!Answer, Codes!Idle, Otps!Idle
<1>7. \A r : Codes!Locking(r) \/ Codes!Abort(r) => Otps!Locking(r) \/ Otps!Abort(r)
  BY DEF Codes!Locking, Otps!Locking, Codes!RejectWrong, Otps!RejectWrong, Codes!Consume,
         Otps!Consume, Codes!LockFree, Otps!LockFree, Codes!Abort, Otps!Abort, Codes!Busy,
         Otps!Busy, Codes!Goto, Otps!Goto, Codes!Answer, Otps!Answer, Codes!Idle, Otps!Idle
<1>8. \A r : Codes!Arrive(r) => Otps!Arrive(r)
  BY <1>4, <1>5 DEF Codes!Arrive, Otps!Arrive, Codes!WrongCode, Otps!WrongCode
<1>9. Codes!Tick => Otps!Tick
  BY DEF Codes!Tick, Otps!Tick
<1>10. Codes!vars' = Codes!vars => Otps!vars' = Otps!vars
  BY DEF Codes!vars, Otps!vars
<1> QED
  BY <1>2, <1>6, <1>7, <1>8, <1>9, <1>10 DEF Codes!Next, Otps!Next

(* The types of the codes hold inside a sign-in. *)
LEMMA CodesInvariant == Spec => []Otps!TypeOK
<1>1. Otps!Spec => []Otps!TypeOK
  BY Otps!OtpTypeCorrect, NoCodeAssumption, LimitsAssumption, FiniteAssumption
     DEF Otps!IsFiniteSet, IsFiniteSet
<1>2. CodesSpec => Otps!Spec
  BY SameCodeSteps, PTL DEF CodesSpec, Codes!Spec, Otps!Spec
<1> QED
  BY <1>1, <1>2, ImplementsCodes, PTL

-----------------------------------------------------------------------------
(* The types *)

LEMMA SameTypes ==
  /\ Devs!TypeOK => Registry!TypeOK
  /\ Otps!TypeOK => Codes!TypeOK
<1>1. Devs!TypeOK => Registry!TypeOK
  BY DEF Registry!TypeOK, Registry!RowIds, Registry!IdleTxn, Registry!BusyTxn, Registry!Owner,
         Registry!TokenType, Registry!TicketType, Registry!Replies, Registry!SignInPcs,
         Registry!RemedyPcs, Registry!SelfPcs, Registry!AdminPcs,
         Devs!TypeOK, Devs!RowIds, Devs!IdleTxn, Devs!BusyTxn, Devs!Owner, Devs!TokenType,
         Devs!TicketType, Devs!Replies, Devs!SignInPcs, Devs!RemedyPcs, Devs!SelfPcs,
         Devs!AdminPcs
<1>2. Otps!TypeOK => Codes!TypeOK
  BY DEF Codes!TypeOK, Codes!Ids, Codes!CodeType, Codes!IdleTxn, Codes!BusyTxn,
         Codes!Replies, Codes!Pcs, Otps!TypeOK, Otps!Ids, Otps!CodeType, Otps!IdleTxn,
         Otps!BusyTxn, Otps!Replies, Otps!Pcs
<1> QED
  BY <1>1, <1>2

LEMMA UserType ==
  ASSUME user \in BOOLEAN, [Next]_vars
  PROVE  user' \in BOOLEAN
<1>1. CASE \E r \in Requests : Arrive(r) \/ Unlocked(r) \/ Locking(r) \/ Abort(r)
  <2>1. user' = user \/ user' = TRUE
    BY <1>1 DEF Arrive, VerifyOtp, RequestOtp, ManageDevices, OnlyCodes, OnlyRegistry,
                Unlocked, FindUser, CountDevices, CommitSignIn, InsertDeviceFails,
                ResolveDevice, CodeUnlocked, DeviceStep, Locking, CodeLocking, InsertUser,
                InsertUserFails, Abort
  <2> QED
    BY <2>1
<1> QED
  BY <1>1 DEF Next, Tick, vars

(* Both parts keep their types inside a sign-in; of the requests at work   *)
(* one at a time has an uncommitted users row, and only one that holds a   *)
(* code has got that far (auth.py:151-204, device_service.py:33-43).       *)
THEOREM SignInTypeCorrect == Spec => []TypeOK
<1> DEFINE Inv == UserInv /\ PhoneInv /\ step \in [Requests -> Steps] /\ user \in BOOLEAN
<1>1. Init => Inv
  BY UserInit DEF Init, PhoneInv, Steps
<1>2. Inv /\ [Next]_vars => Inv'
  BY UserStep, PhoneStep, UserType
<1>3. Inv /\ Devs!IInv /\ Otps!TypeOK => TypeOK
  BY SameTypes DEF TypeOK, UserInv, SlotOK, PhoneInv, Devs!IInv, Devs!Structure
<1> QED
  BY <1>1, <1>2, <1>3, RegistryInvariant, CodesInvariant, PTL DEF Spec

-----------------------------------------------------------------------------
(* Sign-ins and devices *)

(* A request that holds a code or looks for one works on its own device.   *)
ModesApart == \A r \in Requests :
                Codes!Busy(r) /\ Registry!Busy(r) => devTxn[r].pc \in Registry!SignInPcs

(* Where a step leaves the two slots of its request. *)
LEMMA ModeMoves ==
  ASSUME UserInv, NEW r \in Requests, Arrive(r) \/ Unlocked(r) \/ Locking(r) \/ Abort(r)
  PROVE  \/ devTxn'[r].pc = "idle" \/ otpTxn'[r].pc = "idle"
         \/ devTxn'[r].pc \in Registry!SignInPcs
         \/ Codes!Busy(r) /\ Registry!Busy(r) /\ devTxn'[r] = devTxn[r]
<1>1. Slots(devTxn) /\ Slots(otpTxn)
  BY DEF UserInv, Shape
<1>2. CASE VerifyOtp(r) \/ RequestOtp(r)
  BY <1>2 DEF VerifyOtp, RequestOtp, Registry!Busy, Codes!Busy, OnlyCodes, OnlyRegistry,
              registryVars, codeVars
<1>3. CASE ManageDevices(r) \/ DeviceStep(r)
  BY <1>3 DEF ManageDevices, DeviceStep, OnlyRegistry, codeVars, Codes!Busy
<1>4. CASE FindUser(r) \/ InsertUser(r)
  BY <1>4 DEF FindUser, InsertUser, registryVars, codeVars, Codes!Busy, Registry!Busy
<1>5. CASE InsertUserFails(r) \/ CommitSignIn(r) \/ InsertDeviceFails(r)
  BY <1>1, <1>5 DEF InsertUserFails, CommitSignIn, InsertDeviceFails, Codes!Abort,
                    Codes!Accept, Codes!Answer, Codes!Idle, Slots
<1>6. CASE \E d \in Devices : ResolveDevice(r, d)
  BY <1>1, <1>6 DEF ResolveDevice, Registry!SignIn, Registry!Start, Registry!Refuse,
                    Registry!Answer, Registry!Idle, Registry!SignInPcs, Slots
<1>7. CASE CountDevices(r)
  <2>1. Registry!Goto(r, "insert")
    BY <1>7 DEF CountDevices, Registry!CountActive
  <2>2. devTxn'[r].pc = "insert"
    BY <1>1, <2>1 DEF Registry!Goto, Slots
  <2> QED
    BY <2>2 DEF Registry!SignInPcs
<1>8. CASE CodeUnlocked(r) \/ CodeLocking(r)
  BY <1>8 DEF CodeUnlocked, CodeLocking, OnlyCodes, registryVars, Codes!Send,
              Codes!IssueCommit, Codes!Locking, Codes!RejectWrong, Codes!Consume,
              Codes!Busy, Registry!Busy
<1>9. CASE Abort(r)
  <2>1. Codes!Abort(r) \/ Registry!Abort(r)
    BY <1>9 DEF Abort
  <2> QED
    BY <1>1, <2>1 DEF Codes!Abort, Codes!Answer, Codes!Idle, Registry!Abort, Registry!Fail,
                      Registry!Answer, Registry!Idle, Slots
<1> QED
  BY <1>2, <1>3, <1>4, <1>5, <1>6, <1>7, <1>8, <1>9 DEF Arrive, Unlocked, Locking

(* The others keep their slots. *)
LEMMA OthersKeepSlots ==
  ASSUME UserInv, NEW r \in Requests, Arrive(r) \/ Unlocked(r) \/ Locking(r) \/ Abort(r)
  PROVE  \A q \in Requests \ {r} : devTxn'[q] = devTxn[q] /\ otpTxn'[q] = otpTxn[q]
<1>1. \A q \in Requests \ {r} : devTxn'[q] = devTxn[q]
  <2>1. CASE UNCHANGED registryVars
    BY <2>1 DEF registryVars
  <2> QED
    BY <2>1, RequestRegistryStep, RegistrySlot DEF UserInv, Shape
<1>2. \A q \in Requests \ {r} : otpTxn'[q] = otpTxn[q]
  <2>1. CASE UNCHANGED codeVars
    BY <2>1 DEF codeVars
  <2> QED
    BY <2>1, RequestCodesStep, CodesSlot DEF UserInv, Shape
<1> QED
  BY <1>1, <1>2

LEMMA ModesStep ==
  ASSUME UserInv, ModesApart, [Next]_vars
  PROVE  ModesApart'
<1>1. CASE UNCHANGED <<devTxn, otpTxn>>
  BY <1>1 DEF ModesApart, Codes!Busy, Registry!Busy
<1>2. ASSUME NEW r \in Requests, Arrive(r) \/ Unlocked(r) \/ Locking(r) \/ Abort(r)
      PROVE  ModesApart'
  <2>1. ASSUME NEW q \in Requests \ {r}, otpTxn'[q].pc # "idle", devTxn'[q].pc # "idle"
        PROVE  devTxn'[q].pc \in Registry!SignInPcs
    BY <1>2, <2>1, OthersKeepSlots DEF ModesApart, Codes!Busy, Registry!Busy
  <2>2. ASSUME otpTxn'[r].pc # "idle", devTxn'[r].pc # "idle"
        PROVE  devTxn'[r].pc \in Registry!SignInPcs
    BY <1>2, <2>2, ModeMoves DEF ModesApart
  <2> QED
    BY <2>1, <2>2 DEF ModesApart, Codes!Busy, Registry!Busy
<1>3. CASE Tick
  BY <1>1, <1>3 DEF Tick, Codes!Tick, Registry!Tick
<1>4. CASE UNCHANGED vars
  BY <1>1, <1>4 DEF vars, registryVars, codeVars
<1> QED
  BY <1>2, <1>3, <1>4 DEF Next

LEMMA ModesInvariant == Spec => [](UserInv /\ ModesApart)
<1>1. Init => UserInv
  BY UserInit
<1>2. Init => ModesApart
  BY DEF Init, Codes!Init, ModesApart, Codes!Busy, Codes!Idle
<1>3. UserInv /\ ModesApart /\ [Next]_vars => (UserInv /\ ModesApart)'
  BY UserStep, ModesStep
<1> QED
  BY <1>1, <1>2, <1>3, PTL DEF Spec

(* The end of a sign-in that is neither a commit nor an abort. *)
LEMMA SignInRefusals ==
  ASSUME UserInv, ModesApart, [Next]_vars, NEW r \in Requests,
         step[r] # "none", Registry!Busy(r),
         devTxn'[r].pc = "idle", devTxn'[r].reply \notin {"ok", "aborted"}
  PROVE  devTxn[r].pc = "count" \/ (devTxn[r].pc = "insert" /\ rows[devTxn[r].own] # NoRow)
<1>1. Slots(devTxn) /\ Codes!Busy(r) /\ devTxn[r].pc \in Registry!SignInPcs
  BY DEF UserInv, Shape, SlotOK, Codes!Busy, ModesApart
<1>2. devTxn' # devTxn
  BY DEF Registry!Busy
<1>3. PICK q \in Requests : Arrive(q) \/ Unlocked(q) \/ Locking(q) \/ Abort(q)
  BY <1>2 DEF Next, Tick, Registry!Tick, vars, registryVars
<1>4. q = r
  BY <1>3, OthersKeepSlots DEF Registry!Busy
<1>5. ~Arrive(r) /\ ~DeviceStep(r)
  BY <1>1, <1>2 DEF Arrive, VerifyOtp, RequestOtp, ManageDevices, DeviceStep, OnlyCodes,
                    registryVars
<1>6. ~(FindUser(r) \/ InsertUser(r) \/ InsertUserFails(r) \/ CodeUnlocked(r)
        \/ CodeLocking(r))
  BY <1>2 DEF FindUser, InsertUser, InsertUserFails, CodeUnlocked, CodeLocking, OnlyCodes,
              registryVars
<1>7. ASSUME NEW reply, devTxn' = [devTxn EXCEPT ![r] = Registry!Idle(reply)]
      PROVE  reply \notin {"ok", "aborted"}
  <2>1. devTxn'[r] = Registry!Idle(reply)
    BY <1>1, <1>7 DEF Slots
  <2> QED
    BY <2>1 DEF Registry!Idle
<1>8. ~Abort(r)
  BY <1>1, <1>7 DEF Abort, Registry!Abort, Registry!Fail, Registry!Answer, Registry!Busy
<1>9. ASSUME NEW d \in Devices PROVE ~ResolveDevice(r, d)
  BY DEF ResolveDevice, Registry!SignIn, Registry!Start, Registry!Refuse
<1>10. ~(Registry!Touch(r) \/ Registry!Reactivate(r) \/ Registry!Insert(r))
  BY <1>7 DEF Registry!Touch, Registry!Reactivate, Registry!Insert, Registry!Commit
<1>11. CountDevices(r) \/ CommitSignIn(r) => devTxn[r].pc = "count"
  BY <1>10 DEF CountDevices, Registry!CountActive, CommitSignIn, Accepts, Registry!RefuseAtCap
<1>12. InsertDeviceFails(r) => devTxn[r].pc = "insert" /\ rows[devTxn[r].own] # NoRow
  BY <1>1 DEF InsertDeviceFails, Registry!InsertFails, Registry!SignInPcs
<1> QED
  BY <1>3, <1>4, <1>5, <1>6, <1>8, <1>9, <1>11, <1>12 DEF Unlocked, Locking

(* The first SELECT of the device part refuses no device it finds active.  *)
LEMMA ActiveResolves ==
  ASSUME Slots(devTxn), NEW r \in Requests, NEW d \in Devices, ResolveDevice(r, d),
         rows[<<Viewer, d>>] = Null
  PROVE  devTxn'[r].pc = "touch"
<1>1. Registry!Start(r, "touch", Viewer, <<Viewer, d>>, <<Viewer, d>>)
  BY NoRowAssumption DEF ResolveDevice, Registry!SignIn, Registry!InCooldown
<1> QED
  BY <1>1 DEF Registry!Start, Slots

(* A repeated sign-in of an active device gets neither cooldown_active nor *)
(* device_cap_reached nor an error, unless another commit overtook the     *)
(* request (auth.py:171-202, device_service.py:83-121).                    *)
THEOREM RepeatedSignIn == Spec => RepeatedSignInSucceeds
<1>1. ASSUME UserInv, ModesApart, Devs!IInv, [Next]_vars
      PROVE  RepeatedSignInSucceedsStep
  <2> SUFFICES ASSUME NEW r \in Requests, NEW d \in Devices, DeviceRefused(r, d),
                      r \notin conflicted
               PROVE  rows[<<Viewer, d>>] # Null
    BY DEF RepeatedSignInSucceedsStep
  <2>1. CASE ~Registry!Busy(r)
    <3>1. ResolveDevice(r, d) /\ devTxn'[r].pc = "idle"
      BY <2>1 DEF DeviceRefused
    <3> QED
      BY <1>1, <3>1, ActiveResolves DEF UserInv, Shape
  <2>2. CASE Registry!Busy(r)
    <3>1. /\ step[r] # "none" /\ devTxn[r].own = <<Viewer, d>>
          /\ devTxn'[r].pc = "idle" /\ devTxn'[r].reply \notin {"ok", "aborted"}
      BY <2>2 DEF DeviceRefused
    <3>2. devTxn[r].pc = "count" \/ devTxn[r].pc = "insert"
      BY <1>1, <2>2, <3>1, SignInRefusals
    <3>3. Devs!ReadsStillTrue(r)
      BY <1>1, <2>2 DEF Devs!IInv, Devs!UncontendedReadsHold, Devs!Busy, Registry!Busy
    <3> QED
      BY <3>1, <3>2, <3>3, NoRowAssumption DEF Devs!ReadsStillTrue
  <2> QED
    BY <2>1, <2>2
<1> QED
  BY <1>1, ModesInvariant, RegistryInvariant, PTL DEF Spec, RepeatedSignInSucceeds

(* A sign-in that commits counts an acceptance of its code. *)
LEMMA CommitCostsCode ==
  ASSUME Otps!TypeOK, NEW r \in Requests, CommitSignIn(r)
  PROVE  \E i \in Codes!Ids : accepted'[i] > accepted[i]
<1>1. Codes!TypeOK /\ Codes!Accept(r)
  BY SameTypes DEF CommitSignIn
<1>2. /\ otpTxn[r].pc = "held"
      /\ accepted' = [accepted EXCEPT ![otpTxn[r].id] = @ + 1]
  BY <1>1 DEF Codes!Accept
<1>3. otpTxn[r].id \in Codes!Ids
  BY <1>1, <1>2 DEF Codes!TypeOK, Codes!IdleTxn, Codes!BusyTxn
<1>4. accepted[otpTxn[r].id] \in Nat
  BY <1>1, <1>3 DEF Codes!TypeOK
<1>5. accepted'[otpTxn[r].id] = accepted[otpTxn[r].id] + 1
  BY <1>1, <1>2, <1>3 DEF Codes!TypeOK
<1> QED
  BY <1>3, <1>4, <1>5

(* Only a sign-in that commits issues a ticket, or activates a device      *)
(* outside a remediation.                                                  *)
LEMMA GainsAreCommits ==
  ASSUME UserInv, NEW r \in Requests, Arrive(r) \/ Unlocked(r) \/ Locking(r) \/ Abort(r)
  PROVE  \/ CommitSignIn(r)
         \/ /\ tickets' \subseteq tickets
            /\ rows' # rows => devTxn[r].pc \in {"remedy", "self", "adminStamp"}
<1>1. CASE Arrive(r)
  BY <1>1 DEF Arrive, VerifyOtp, RequestOtp, ManageDevices, OnlyCodes, registryVars,
              Registry!RemedyFind, Registry!Principal,
              Registry!ListPrincipal, Registry!SelfPrincipal, Registry!AdminFind
<1>2. CASE FindUser(r) \/ InsertUser(r) \/ InsertUserFails(r) \/ CodeUnlocked(r)
           \/ CodeLocking(r)
  BY <1>2 DEF FindUser, InsertUser, InsertUserFails, CodeUnlocked, CodeLocking, OnlyCodes,
              registryVars
<1>3. CASE \E d \in Devices : ResolveDevice(r, d)
  BY <1>3 DEF ResolveDevice, Registry!SignIn
<1>4. CASE CountDevices(r) \/ InsertDeviceFails(r) \/ Abort(r)
  BY <1>4 DEF CountDevices, Registry!CountActive, InsertDeviceFails, Registry!InsertFails,
              Abort, Registry!Abort, Registry!Fail, registryVars
<1>5. CASE DeviceStep(r)
  <2>1. CASE \/ Registry!InsertFails(r) \/ Registry!RemedyCheck(r)
             \/ Registry!RemedyRefused(r) \/ Registry!ListDevices(r)
             \/ Registry!SelfFind(r) \/ Registry!SelfCheck(r)
             \/ Registry!SelfRefused(r)
    BY <2>1 DEF Registry!InsertFails, Registry!RemedyCheck, Registry!RemedyRefused,
                Registry!ListDevices, Registry!SelfFind, Registry!SelfCheck,
                Registry!SelfRefused,
                Registry!PassCooldown, Registry!RefuseInCooldown, Registry!Fail
  <2>2. CASE Registry!Remedy(r) \/ Registry!SelfDeactivate(r)
    BY <2>2 DEF Registry!Remedy, Registry!SelfDeactivate
  <2>3. CASE Registry!AdminForceDeactivate(r)
    BY <2>3 DEF Registry!AdminForceDeactivate, Registry!Commit
  <2> QED
    BY <1>5, <2>1, <2>2, <2>3 DEF DeviceStep
<1> QED
  BY <1>1, <1>2, <1>3, <1>4, <1>5 DEF Unlocked, Locking

(* Each device that becomes active and each ticket costs an accepted code, *)
(* except the device of a remediation that another commit overtook         *)
(* (auth.py:153-204, device_service.py:134-158).                           *)
THEOREM DevicesCost == Spec => DevicesCostCodes
<1>1. ASSUME UserInv, Otps!TypeOK, Devs!IInv, [Next]_vars
      PROVE  DevicesCostCodesStep
  <2>1. CASE \E r \in Requests : CommitSignIn(r)
    BY <1>1, <2>1, CommitCostsCode DEF DevicesCostCodesStep
  <2>2. CASE ~\E r \in Requests : CommitSignIn(r)
    <3>1. tickets' \subseteq tickets
      BY <1>1, <2>2, GainsAreCommits DEF Next, Tick, Registry!Tick, vars, registryVars
    <3>2. ASSUME Registry!ActiveCount(Viewer)' > Registry!ActiveCount(Viewer)
          PROVE  \E r \in conflicted : Registry!Ends(r) /\ devTxn[r].pc = "remedy"
      <4>1. Devs!ActiveCount(Viewer)' > Devs!ActiveCount(Viewer)
        BY <3>2, SameCount
      <4>2. [Devs!Next]_(Devs!vars)
        BY <1>1, RegistrySteps, SameSteps
      <4>3. PICK r \in Requests :
              /\ Devs!WritesFor(r, Viewer) /\ rows' # rows
              /\ \/ devTxn[r].pc \in {"reactivate", "insert"}
                 \/ devTxn[r].pc = "remedy" /\ r \in conflicted
        BY <1>1, <4>1, <4>2, Devs!CountRises, NoRowAssumption, LimitsAssumption,
           FiniteAssumption DEF Devs!IsFiniteSet, IsFiniteSet
      <4>4. Registry!Ends(r) /\ devTxn'[r] # devTxn[r]
        BY <4>3 DEF Devs!WritesFor, Devs!Ends, Devs!Busy, Registry!Ends, Registry!Busy
      <4>5. PICK q \in Requests : Arrive(q) \/ Unlocked(q) \/ Locking(q) \/ Abort(q)
        BY <1>1, <4>3 DEF Next, Tick, Registry!Tick, vars, registryVars
      <4>6. q = r
        BY <1>1, <4>4, <4>5, OthersKeepSlots
      <4>7. devTxn[r].pc \in {"remedy", "self", "adminStamp"}
        BY <1>1, <2>2, <4>3, <4>5, <4>6, GainsAreCommits
      <4> QED
        BY <4>3, <4>4, <4>7
    <3> QED
      BY <3>1, <3>2 DEF DevicesCostCodesStep
  <2> QED
    BY <2>1, <2>2
<1> QED
  BY <1>1, ModesInvariant, RegistryInvariant, CodesInvariant, PTL DEF Spec, DevicesCostCodes
=============================================================================
