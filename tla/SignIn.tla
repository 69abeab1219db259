-------------------------------- MODULE SignIn --------------------------------
(***************************************************************************)
(* POST /auth/otp/verify as a whole: the code, the user and the device in  *)
(* one transaction, for one phone number.  The module composes Otp and     *)
(* DeviceRegistry, which keep their own variables, with the users row that *)
(* find_or_create_user looks up or creates between them.  A request holds  *)
(* one slot in both; a step of the composition is a step of one of them or *)
(* of both at once: the commit, the rollback and the clock are shared.     *)
(*                                                                         *)
(* Clients are not modelled: any code that was delivered, any live ticket  *)
(* and any live token may arrive at any time and again, which is what a    *)
(* client does whose reply was lost.                                       *)
(***************************************************************************)
EXTENDS Naturals, FiniteSets

CONSTANTS
    Viewer,     \* the users row of the phone number
    Devices, Requests, Cap, Cooldown, JwtTtl, TicketTtl, NoRow, Null,
    Limit, Window, Expiry, MaxAttempts, NoCode,
    MaxNow, MaxCodes, MaxWrong,
    Absent      \* a field that the body of a request leaves out

ASSUME NoRowAssumption == Null \notin Nat /\ NoRow \notin Nat /\ Null # NoRow
ASSUME NoCodeAssumption ==
    NoCode \notin [created : Nat, consumed : BOOLEAN, attempts : Nat]
ASSUME LimitsAssumption ==
    /\ Cap \in Nat /\ Cooldown \in Nat /\ JwtTtl \in Nat /\ TicketTtl \in Nat
    /\ Limit \in Nat \ {0} /\ Window \in Nat /\ Expiry \in Nat /\ MaxAttempts \in Nat
    /\ MaxNow \in Nat /\ MaxCodes \in Nat /\ MaxWrong \in Nat
ASSUME FiniteAssumption == IsFiniteSet(Devices) /\ IsFiniteSet(Requests)

VARIABLES
    now,
    rows, devTxn, tokens, tickets, audit, conflicted,   \* DeviceRegistry
    codes, drawn, sent, otpTxn, accepted, wrongs,       \* Otp
    user,       \* the users row is committed
    step        \* how far find_or_create_user got in each slot

Registry == INSTANCE DeviceRegistry WITH Users <- {Viewer}, txn <- devTxn
Codes == INSTANCE Otp WITH txn <- otpTxn

registryVars == <<rows, devTxn, tokens, tickets, audit, conflicted>>
codeVars == <<codes, drawn, sent, otpTxn, accepted, wrongs>>
vars == <<now, registryVars, codeVars, user, step>>

Steps == {"none", "insert", "created", "known"}

(* Type invariant: one request at a time has an uncommitted users row, and *)
(* only one that has consumed a code has got that far.                     *)
TypeOK ==
    /\ Registry!TypeOK
    /\ Codes!TypeOK
    /\ user \in BOOLEAN
    /\ step \in [Requests -> Steps]
    /\ \A r \in Requests : step[r] # "none" => otpTxn[r].pc = "held"
    /\ \A r, s \in Requests : step[r] = "created" /\ step[s] = "created" => r = s

Init ==
    /\ Registry!Init
    /\ Codes!Init
    /\ user = FALSE
    /\ step = [r \in Requests |-> "none"]

OnlyCodes == UNCHANGED <<registryVars, user, step>>
OnlyRegistry == UNCHANGED <<codeVars, user, step>>
To(r, s) == step' = [step EXCEPT ![r] = s]

-----------------------------------------------------------------------------
(* Mode A, the user: find_or_create_user *)

FindUser(r) ==
    /\ otpTxn[r].pc = "held" /\ step[r] = "none"
    /\ To(r, IF user THEN "known" ELSE "insert")
    /\ UNCHANGED <<now, registryVars, codeVars, user>>

(* Mistake: requests about to insert wait for each other. *)
PhoneFreeOfWaiters == Cardinality({s \in Requests : step[s] \in {"insert", "created"}}) <= 1

(* The INSERT waits for an uncommitted row with the same phone. *)
PhoneFree == \A s \in Requests : step[s] # "created"

(* Mistake: no row with the same phone is waited for or noticed. *)
InsertUserUnguarded(r) ==
    /\ step[r] = "insert"
    /\ To(r, "created")
    /\ UNCHANGED <<now, registryVars, codeVars, user>>

InsertUser(r) ==
    /\ step[r] = "insert" /\ PhoneFree /\ ~user
    /\ To(r, "created")
    /\ UNCHANGED <<now, registryVars, codeVars, user>>

(* The unique phone refuses it: an internal error, rolled back. *)
InsertUserFails(r) ==
    /\ step[r] = "insert" /\ PhoneFree /\ user
    /\ Codes!Abort(r)
    /\ To(r, "none")
    /\ UNCHANGED <<registryVars, user>>

-----------------------------------------------------------------------------
(* Mode A, the device and the end of the transaction *)

(* Mistake: the cooldown of the device is not looked at. *)
ResolveDeviceReactivates(r, d) ==
    /\ step[r] \in {"known", "created"}
    /\ Registry!Start(r, IF rows[<<Viewer, d>>] = NoRow THEN "count" ELSE "reactivate",
                      Viewer, <<Viewer, d>>, <<Viewer, d>>)
    /\ UNCHANGED <<now, rows, tokens, tickets, audit, codeVars, user, step>>

(* Mistake: the cooldown of the user, as for a deactivation, instead of    *)
(* that of the device.                                                     *)
ResolveDeviceInUserCooldown(r, d) ==
    /\ step[r] \in {"known", "created"}
    /\ IF Registry!Recent(Viewer) # {}
       THEN /\ Registry!Refuse(r, "cooldown") /\ Codes!Release(r) /\ To(r, "none")
            /\ UNCHANGED <<rows, tokens, tickets, audit, user>>
       ELSE /\ Registry!SignIn(r, Viewer, d) /\ devTxn'[r].pc # "idle"
            /\ UNCHANGED <<codeVars, user, step>>

(* register_or_resolve_device begins; cooldown_active rolls back. *)
ResolveDevice(r, d) ==
    /\ step[r] \in {"known", "created"}
    /\ Registry!SignIn(r, Viewer, d)
    /\ IF devTxn'[r].pc = "idle"
       THEN Codes!Release(r) /\ To(r, "none")
       ELSE UNCHANGED <<codeVars, step>>
    /\ UNCHANGED user

CountDevices(r) == Registry!CountActive(r) /\ OnlyRegistry

Accepts(r) == Registry!Touch(r) \/ Registry!Reactivate(r) \/ Registry!Insert(r)
              \/ Registry!RefuseAtCap(r)

(* Mistakes: the users row is not committed; a 409 leaves the handler      *)
(* before the commit; the code is accepted and its row not written.        *)
CommitWithoutUser(r) ==
    step[r] # "none" /\ Accepts(r) /\ Codes!Accept(r) /\ To(r, "none") /\ UNCHANGED user
RefusalKeepsCode(r) ==
    /\ step[r] # "none" /\ Accepts(r) /\ To(r, "none") /\ user' = TRUE
    /\ IF devTxn'[r].reply = "ok" THEN Codes!Accept(r) ELSE Codes!Release(r)
CommitLosesConsumption(r) ==
    /\ step[r] # "none" /\ Accepts(r) /\ To(r, "none") /\ user' = TRUE
    /\ Codes!Answer(r, "ok") /\ UNCHANGED <<codes, drawn, sent, accepted, wrongs>>

(* A 200 and a 409 commit the code, the user and the device together. *)
CommitSignIn(r) ==
    step[r] # "none" /\ Accepts(r) /\ Codes!Accept(r) /\ To(r, "none") /\ user' = TRUE

InsertDeviceFails(r) ==
    /\ step[r] # "none"
    /\ Registry!InsertFails(r) /\ Codes!Abort(r) /\ To(r, "none")
    /\ UNCHANGED user

-----------------------------------------------------------------------------
(* Requests arrive.  Exactly one of code and ticket chooses the mode; any  *)
(* other body is refused as unprocessable and changes nothing.             *)

VerifyOtp(r) ==
    \E code \in sent \cup {Codes!WrongCode, Absent}, ticket \in tickets \cup {Absent} :
      \/ /\ code # Absent /\ ticket = Absent
         /\ ~Registry!Busy(r)
         /\ Codes!Verify(r, code) /\ OnlyCodes
      \/ /\ code = Absent /\ ticket # Absent
         /\ ~Codes!Busy(r)
         /\ \E target \in Registry!RowIds, d \in Devices :
              Registry!RemedyFind(r, ticket, target, d)
         /\ OnlyRegistry

RequestOtp(r) == ~Registry!Busy(r) /\ Codes!Issue(r) /\ OnlyCodes

ManageDevices(r) ==
    /\ ~Codes!Busy(r)
    /\ \/ \E t \in tokens : Registry!ListPrincipal(r, t)
       \/ \E t \in tokens, target \in Registry!RowIds : Registry!SelfPrincipal(r, t, target)
       \/ user /\ \E target \in Registry!RowIds : Registry!AdminFind(r, Viewer, target)
    /\ OnlyRegistry

Arrive(r) == VerifyOtp(r) \/ RequestOtp(r) \/ ManageDevices(r)

(* The code steps before the user is looked up, and delivery. *)
CodeUnlocked(r) == (Codes!Send(r) \/ Codes!IssueCommit(r)) /\ OnlyCodes
CodeLocking(r) == Codes!Locking(r) /\ OnlyCodes

(* Mode B, the list, self-deactivation and the administrator, to their end. *)
DeviceStep(r) ==
    /\ ~Codes!Busy(r)
    /\ \/ Registry!InsertFails(r)
       \/ Registry!RemedyCheck(r) \/ Registry!RemedyRefused(r) \/ Registry!Remedy(r)
       \/ Registry!ListDevices(r)
       \/ Registry!SelfFind(r) \/ Registry!SelfCheck(r) \/ Registry!SelfRefused(r)
       \/ Registry!SelfDeactivate(r) \/ Registry!AdminForceDeactivate(r)
    /\ OnlyRegistry

(* The connection or the process is lost before the commit. *)
Abort(r) ==
    /\ \/ Codes!Abort(r) /\ Registry!Abort(r)
       \/ Codes!Abort(r) /\ ~Registry!Busy(r) /\ UNCHANGED registryVars
       \/ Registry!Abort(r) /\ ~Codes!Busy(r) /\ UNCHANGED codeVars
    /\ To(r, "none")
    /\ UNCHANGED user

Tick == Codes!Tick /\ Registry!Tick /\ UNCHANGED <<user, step>>

Unlocked(r) == FindUser(r) \/ CountDevices(r) \/ CommitSignIn(r) \/ InsertDeviceFails(r)
               \/ (\E d \in Devices : ResolveDevice(r, d)) \/ CodeUnlocked(r) \/ DeviceStep(r)
Locking(r) == CodeLocking(r) \/ InsertUser(r) \/ InsertUserFails(r)

Next == Tick \/ \E r \in Requests : Arrive(r) \/ Unlocked(r) \/ Locking(r) \/ Abort(r)

Spec == Init /\ [][Next]_vars

(* As in Otp: the event loop resumes every handler, and the waiters of a   *)
(* lock, here of a code's row or of a phone number, are served in turn.    *)
FairSpec ==
    /\ Spec
    /\ \A r \in Requests : WF_vars(Unlocked(r)) /\ SF_vars(Locking(r))

-----------------------------------------------------------------------------
(* Properties *)

(* The composition implements each of its parts: no step of a whole        *)
(* request does to the devices or to the codes what the part alone could   *)
(* not do (auth.py:84-216).                                                *)
RegistrySpec == Registry!Spec
CodesSpec == Codes!Spec

(* Codes accepted, devices, tickets, tokens and forced sign-outs are those *)
(* of a committed user: what depends on the users row is committed with it *)
(* or after it (auth.py:171-204, device_service.py:33-43).                 *)
UserBehindEverything ==
    \/ user
    \/ /\ \A i \in Codes!Ids : accepted[i] = 0
       /\ \A x \in Registry!RowIds : rows[x] = NoRow
       /\ tickets = {} /\ tokens = {} /\ audit = {}

(* Each device that becomes active and each ticket costs an accepted code:  *)
(* a remediation swaps one device for another, unless another commit       *)
(* overtook it (auth.py:153-204, device_service.py:134-158).               *)
DevicesCostCodesStep ==
    tickets' \ tickets # {} \/ Registry!ActiveCount(Viewer)' > Registry!ActiveCount(Viewer)
    => \/ \E i \in Codes!Ids : accepted'[i] > accepted[i]
       \/ \E r \in conflicted : Registry!Ends(r) /\ devTxn[r].pc = "remedy"
DevicesCostCodes == [][DevicesCostCodesStep]_vars

(* The user created by a transaction owns no device anyone can see: that   *)
(* transaction never ends in cooldown_active (auth.py:198-202).            *)
CooldownOnlyOfKnownUserStep ==
    \A r \in Requests :
      otpTxn[r].pc = "held" /\ otpTxn'[r] = Codes!Idle("refused") => step[r] = "known"
CooldownOnlyOfKnownUser == [][CooldownOnlyOfKnownUserStep]_vars

(* r signs in device d, and in this step the device part refuses it or     *)
(* fails: in its first SELECT, or later.                                   *)
DeviceRefused(r, d) ==
    /\ step[r] # "none"
    /\ devTxn'[r].pc = "idle" /\ devTxn'[r].reply \notin {"ok", "aborted"}
    /\ IF Registry!Busy(r) THEN devTxn[r].own = <<Viewer, d>> ELSE ResolveDevice(r, d)

(* A sign-in with a fresh code of a device that an earlier request         *)
(* registered, as after a lost reply, succeeds: an active device gets      *)
(* neither cooldown_active nor device_cap_reached nor an error, whatever   *)
(* other devices the user gained or lost, unless another commit overtook   *)
(* the request (auth.py:171-202, device_service.py:83-121).                *)
RepeatedSignInSucceedsStep ==
    \A r \in Requests, d \in Devices :
      DeviceRefused(r, d) => r \in conflicted \/ rows[<<Viewer, d>>] # Null
RepeatedSignInSucceeds == [][RepeatedSignInSucceedsStep]_vars

(* Every request ends, though it may wait for the lock of a code while the *)
(* holder waits for the phone number (otp_service.py:90-97,                *)
(* device_service.py:36-40).                                               *)
EveryRequestEnds ==
    \A r \in Requests : Codes!Busy(r) \/ Registry!Busy(r)
                        ~> ~Codes!Busy(r) /\ ~Registry!Busy(r)
=============================================================================
