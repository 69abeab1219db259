---------------------------- MODULE DeviceRegistry ----------------------------
(***************************************************************************)
(* The device registry of the backend: which devices of a user may hold a  *)
(* session.  It models services/device_service.py together with the        *)
(* handlers that call it: the device half of POST /auth/otp/verify (Mode A *)
(* sign-in and Mode B cap remediation), GET /devices,                      *)
(* POST /devices/{id}/deactivate and the administrator's force-deactivate. *)
(*                                                                         *)
(* Every request runs in a database session of its own on one asyncio      *)
(* loop, PostgreSQL reads committed, and no SELECT locks: a handler can be *)
(* overtaken at every await.  An action is therefore one SELECT with the   *)
(* synchronous code after it, or the final flush and commit.  The flush    *)
(* and the commit are one action because an uncommitted write is invisible *)
(* and a competing write of the same row waits for the commit and then     *)
(* proceeds by primary key without re-checking anything.                   *)
(***************************************************************************)
EXTENDS Naturals, FiniteSets

CONSTANTS
    Users,      \* rows of "user"; the user exists before the device steps
    Devices,    \* device_id strings the clients choose
    Requests,   \* slots for requests in flight
    Cap,        \* max_active_devices_per_user
    Cooldown,   \* device_deactivation_cooldown_days, in ticks
    JwtTtl,     \* jwt_expiry_hours, in ticks
    TicketTtl,  \* _VERIFY_TICKET_TTL_SECONDS, in ticks
    MaxNow,     \* bound on the clock
    NoRow,      \* no such row in user_device
    Null        \* deactivated_at IS NULL: the device is active

ASSUME ParametersAssumption ==
    /\ Cap \in Nat /\ Cooldown \in Nat /\ JwtTtl \in Nat /\ TicketTtl \in Nat
    /\ MaxNow \in Nat
ASSUME DevicesAssumption == IsFiniteSet(Devices)    \* strings of at most 255 characters
ASSUME SentinelsAssumption == Null \notin Nat /\ NoRow \notin Nat /\ Null # NoRow

VARIABLES
    now,        \* datetime.now(UTC)
    rows,       \* user_device: deactivated_at of each committed row
    txn,        \* the state of the handler in each slot
    tokens,     \* unexpired access JWTs of viewers
    tickets,    \* unexpired verify tickets
    audit,      \* devices with a row in admin_actions
    conflicted  \* history: requests in flight whose user's rows another commit
                \* has changed since their first SELECT; no code reads it

vars == <<now, rows, txn, tokens, tickets, audit, conflicted>>

(* A row is named by its UNIQUE(user_id, device_id) key: rows are never     *)
(* deleted, so the key and the primary key name each other.                *)
RowIds == Users \X Devices
Owner(x) == x[1]

Replies == {"none", "ok", "capReached", "cooldown", "notFound", "forbidden",
            "error", "aborted", "locked", "unlocked"}
SignInPcs == {"touch", "reactivate", "count", "insert"}
RemedyPcs == {"remedyCheck", "remedy"}
SelfPcs == {"list", "selfFind", "selfCheck", "self"}
AdminPcs == {"adminStamp", "adminLog"}

IdleTxn == [pc : {"idle"}, reply : Replies]
BusyTxn == [pc : SignInPcs \cup RemedyPcs \cup SelfPcs \cup AdminPcs,
            user : Users, own : RowIds, target : RowIds, at : Nat]

(* Tokens and tickets carry what the handlers read of the claims.          *)
TokenType == [user : Users, device : RowIds, exp : Nat]
TicketType == [user : Users, exp : Nat]

(* Type invariant.  A token's user_device_id always names an existing row  *)
(* of its sub, which get_current_principal never compares.                 *)
TypeOK ==
    /\ now \in Nat
    /\ rows \in [RowIds -> Nat \cup {Null, NoRow}]
    /\ txn \in [Requests -> IdleTxn \cup BusyTxn]
    /\ tokens \subseteq TokenType
    /\ \A t \in tokens : Owner(t.device) = t.user /\ rows[t.device] # NoRow
    /\ tickets \subseteq TicketType
    /\ audit \subseteq RowIds
    /\ conflicted \subseteq Requests

Idle(reply) == [pc |-> "idle", reply |-> reply]
Busy(r) == txn[r].pc # "idle"

Init ==
    /\ now = 0
    /\ rows = [x \in RowIds |-> NoRow]
    /\ txn = [r \in Requests |-> Idle("none")]
    /\ tokens = {}
    /\ tickets = {}
    /\ audit = {}
    /\ conflicted = {}

-----------------------------------------------------------------------------
(* Queries *)

ActiveRows(u) == {x \in RowIds : Owner(x) = u /\ rows[x] = Null}
ActiveCount(u) == Cardinality(ActiveRows(u))

(* Mistakes in InCooldown the checks must catch: the boundary one tick     *)
(* early, and no cooldown at all.                                          *)
InCooldownEndsEarly(x) == rows[x] \in Nat /\ rows[x] + Cooldown > now + 1
InCooldownNever(x) == rows[x] \in Nat /\ rows[x] > now

(* deactivated_at > now - cooldown *)
InCooldown(x) == rows[x] \in Nat /\ rows[x] + Cooldown > now

(* The rows _check_cooldown selects; LIMIT 1 keeps a latest one of them.   *)
Recent(u) == {x \in RowIds : Owner(x) = u /\ InCooldown(x)}
Latest(S) == {x \in S : \A y \in S : rows[y] <= rows[x]}

(* The rows list_my_devices takes as deactivated: the caller's own one is  *)
(* listed as its session loaded it, active.                                *)
ListedGone(r) ==
    {x \in RowIds : Owner(x) = txn[r].user /\ rows[x] \in Nat} \ {txn[r].own}

-----------------------------------------------------------------------------
(* How a handler moves on, answers and commits *)

Goto(r, pc) ==
    txn' = [txn EXCEPT ![r] = [pc |-> pc, user |-> @.user, own |-> @.own,
                               target |-> @.target, at |-> now]]

Answer(r, reply) ==
    /\ txn' = [txn EXCEPT ![r] = Idle(reply)]
    /\ conflicted' = conflicted \ {r}

Start(r, pc, u, own, target) ==
    /\ ~Busy(r)
    /\ txn' = [txn EXCEPT ![r] = [pc |-> pc, user |-> u, own |-> own,
                                  target |-> target, at |-> now]]
    /\ UNCHANGED conflicted

Refuse(r, reply) == ~Busy(r) /\ Answer(r, reply)

(* An exception leaves get_db, which rolls back: nothing is written.       *)
Fail(r, reply) == Answer(r, reply) /\ UNCHANGED <<now, rows, tokens, tickets, audit>>

Commit(r, newRows) ==
    LET overtaken == {s \in Requests : Busy(s) /\ txn[s].user = txn[r].user}
    IN  /\ rows' = newRows
        /\ txn' = [txn EXCEPT ![r] = Idle("ok")]
        /\ conflicted' = (IF newRows = rows THEN conflicted
                                            ELSE conflicted \cup overtaken) \ {r}

MintToken(x) ==
    tokens' = tokens \cup {[user |-> Owner(x), device |-> x, exp |-> now + JwtTtl]}

(* The clock value a handler writes is read after its last SELECT and      *)
(* before its commit.                                                      *)
Stamps(r) == txn[r].at .. now

-----------------------------------------------------------------------------
(* Plausible mistakes in the handlers below, each of which a property of   *)
(* this module must catch.  No specification uses them.                    *)

SignInIgnoresDeactivation(r, u, d) ==
    LET x == <<u, d>> IN
    /\ Start(r, IF rows[x] = NoRow THEN "count" ELSE "touch", u, x, x)
    /\ UNCHANGED <<now, rows, tokens, tickets, audit>>

SignInSeesActiveRowsOnly(r, u, d) ==
    LET x == <<u, d>> IN
    /\ Start(r, IF rows[x] = Null THEN "touch" ELSE "count", u, x, x)
    /\ UNCHANGED <<now, rows, tokens, tickets, audit>>

CountActiveOffByOne(r) ==
    /\ txn[r].pc = "count"
    /\ ActiveCount(txn[r].user) <= Cap
    /\ Goto(r, "insert")
    /\ UNCHANGED <<now, rows, tokens, tickets, audit, conflicted>>

CountActiveSkipsInsert(r) ==
    /\ txn[r].pc = "count"
    /\ ActiveCount(txn[r].user) < Cap
    /\ Goto(r, "touch")
    /\ UNCHANGED <<now, rows, tokens, tickets, audit, conflicted>>

FindTargetOfAnyUser(r, pc, u, own, target) ==
    IF rows[target] = Null
    THEN Start(r, pc, u, own, target)
    ELSE Refuse(r, "notFound")

PassCooldownUnchecked(r, from, to) ==
    /\ txn[r].pc = from
    /\ Goto(r, to)
    /\ UNCHANGED <<now, rows, tokens, tickets, audit, conflicted>>

RemedyKeepsTarget(r) ==
    /\ txn[r].pc = "remedy"
    /\ rows[txn[r].own] = NoRow
    /\ Commit(r, [rows EXCEPT ![txn[r].own] = Null])
    /\ MintToken(txn[r].own)
    /\ UNCHANGED <<now, tickets, audit>>

ListDevicesFromEarliest(r) ==
    /\ txn[r].pc = "list"
    /\ \/ ListedGone(r) = {} /\ Answer(r, "unlocked")
       \/ \E x \in ListedGone(r) :
            /\ \A y \in ListedGone(r) : rows[x] <= rows[y]
            /\ Answer(r, IF InCooldown(x) THEN "locked" ELSE "unlocked")
    /\ UNCHANGED <<now, rows, tokens, tickets, audit>>

AdminLogsOnly(r) ==
    /\ txn[r].pc \in AdminPcs
    /\ Commit(r, rows)
    /\ audit' = audit \cup {txn[r].target}
    /\ UNCHANGED <<now, tokens, tickets>>

-----------------------------------------------------------------------------
(* POST /auth/otp/verify, Mode A, once the code is accepted *)

(* register_or_resolve_device up to its first SELECT and the cooldown of a *)
(* deactivated row.                                                        *)
SignIn(r, u, d) ==
    LET x == <<u, d>> IN
    /\ \/ rows[x] = Null  /\ Start(r, "touch", u, x, x)
       \/ rows[x] = NoRow /\ Start(r, "count", u, x, x)
       \/ InCooldown(x)   /\ Refuse(r, "cooldown")
       \/ rows[x] \in Nat /\ ~InCooldown(x) /\ Start(r, "reactivate", u, x, x)
    /\ UNCHANGED <<now, rows, tokens, tickets, audit>>

(* The UPDATE sets last_seen_at only: it does not revive a row that was    *)
(* deactivated since the SELECT.                                           *)
Touch(r) ==
    /\ txn[r].pc = "touch"
    /\ Commit(r, rows)
    /\ MintToken(txn[r].own)
    /\ UNCHANGED <<now, tickets, audit>>

(* No count of the active devices on this path. *)
Reactivate(r) ==
    /\ txn[r].pc = "reactivate"
    /\ Commit(r, [rows EXCEPT ![txn[r].own] = Null])
    /\ MintToken(txn[r].own)
    /\ UNCHANGED <<now, tickets, audit>>

CountActive(r) ==
    /\ txn[r].pc = "count"
    /\ ActiveCount(txn[r].user) < Cap
    /\ Goto(r, "insert")
    /\ UNCHANGED <<now, rows, tokens, tickets, audit, conflicted>>

(* DeviceCapReached: 409 with a ticket; the consumed code is committed. *)
RefuseAtCap(r) ==
    /\ txn[r].pc = "count"
    /\ ActiveCount(txn[r].user) >= Cap
    /\ Answer(r, "capReached")
    /\ tickets' = tickets \cup {[user |-> txn[r].user, exp |-> now + TicketTtl]}
    /\ UNCHANGED <<now, rows, tokens, audit>>

Insert(r) ==
    /\ txn[r].pc = "insert"
    /\ rows[txn[r].own] = NoRow
    /\ Commit(r, [rows EXCEPT ![txn[r].own] = Null])
    /\ MintToken(txn[r].own)
    /\ UNCHANGED <<now, tickets, audit>>

(* The unique constraint refuses the INSERT (Mode A or Mode B). *)
InsertFails(r) ==
    /\ txn[r].pc \in {"insert", "remedy"}
    /\ rows[txn[r].own] # NoRow
    /\ Fail(r, "error")

-----------------------------------------------------------------------------
(* POST /auth/otp/verify, Mode B: a ticket, a device to deactivate and the *)
(* device to register                                                      *)

(* The SELECT of a device by id and user, found active or not. *)
FindTarget(r, pc, u, own, target) ==
    IF Owner(target) = u /\ rows[target] = Null
    THEN Start(r, pc, u, own, target)
    ELSE Refuse(r, "notFound")

RemedyFind(r, t, target, d) ==
    /\ FindTarget(r, "remedyCheck", t.user, <<t.user, d>>, target)
    /\ UNCHANGED <<now, rows, tokens, tickets, audit>>

(* _check_cooldown finds nothing. *)
PassCooldown(r, from, to) ==
    /\ txn[r].pc = from
    /\ Recent(txn[r].user) = {}
    /\ Goto(r, to)
    /\ UNCHANGED <<now, rows, tokens, tickets, audit, conflicted>>

(* _check_cooldown finds x.  A row this session had loaded as active keeps *)
(* the loaded deactivated_at, None: adding the cooldown to it raises.      *)
RefuseInCooldown(r, from, loaded) ==
    /\ txn[r].pc = from
    /\ \E x \in Latest(Recent(txn[r].user)) :
         Fail(r, IF x \in loaded THEN "error" ELSE "cooldown")

RemedyCheck(r) == PassCooldown(r, "remedyCheck", "remedy")
RemedyRefused(r) == RefuseInCooldown(r, "remedyCheck", {txn[r].target})

(* One flush deactivates the target, whatever it is by now, and inserts    *)
(* the new device.                                                         *)
Remedy(r) ==
    /\ txn[r].pc = "remedy"
    /\ rows[txn[r].own] = NoRow
    /\ \E at \in Stamps(r) :
         Commit(r, [rows EXCEPT ![txn[r].target] = at, ![txn[r].own] = Null])
    /\ MintToken(txn[r].own)
    /\ UNCHANGED <<now, tickets, audit>>

-----------------------------------------------------------------------------
(* The viewer's own requests.  get_current_principal loads the caller's    *)
(* device, which must be active; the session keeps the row as loaded for   *)
(* the rest of the request.                                                *)

Principal(r, pc, t, target) ==
    /\ IF rows[t.device] = Null
       THEN Start(r, pc, t.user, t.device, target)
       ELSE Refuse(r, "forbidden")
    /\ UNCHANGED <<now, rows, tokens, tickets, audit>>

(* GET /devices: an unlock time is told if the latest deactivation listed  *)
(* is in its cooldown.                                                     *)
ListPrincipal(r, t) == Principal(r, "list", t, t.device)

ListDevices(r) ==
    /\ txn[r].pc = "list"
    /\ \/ ListedGone(r) = {} /\ Answer(r, "unlocked")
       \/ \E x \in Latest(ListedGone(r)) :
            Answer(r, IF InCooldown(x) THEN "locked" ELSE "unlocked")
    /\ UNCHANGED <<now, rows, tokens, tickets, audit>>

(* POST /devices/{id}/deactivate *)
SelfPrincipal(r, t, target) == Principal(r, "selfFind", t, target)

(* The caller's own row is already loaded: its SELECT returns it as        *)
(* active.  Another row that is inactive is an idempotent success.         *)
SelfFind(r) ==
    LET x == txn[r].target
        mine == Owner(x) = txn[r].user /\ rows[x] # NoRow
    IN
    /\ txn[r].pc = "selfFind"
    /\ \/ ~mine /\ Answer(r, "notFound")
       \/ mine /\ x # txn[r].own /\ rows[x] # Null /\ Answer(r, "ok")
       \/ mine /\ (x = txn[r].own \/ rows[x] = Null)
          /\ Goto(r, "selfCheck") /\ UNCHANGED conflicted
    /\ UNCHANGED <<now, rows, tokens, tickets, audit>>

SelfCheck(r) == PassCooldown(r, "selfCheck", "self")
SelfRefused(r) == RefuseInCooldown(r, "selfCheck", {txn[r].own, txn[r].target})

SelfDeactivate(r) ==
    /\ txn[r].pc = "self"
    /\ \E at \in Stamps(r) : Commit(r, [rows EXCEPT ![txn[r].target] = at])
    /\ UNCHANGED <<now, tokens, tickets, audit>>

-----------------------------------------------------------------------------
(* POST /admin/users/{id}/devices/{id}/deactivate *)

AdminFind(r, u, target) ==
    /\ IF Owner(target) = u /\ rows[target] # NoRow
       THEN Start(r, IF rows[target] = Null THEN "adminStamp" ELSE "adminLog",
                  u, target, target)
       ELSE Refuse(r, "notFound")
    /\ UNCHANGED <<now, rows, tokens, tickets, audit>>

(* The device is stamped only if it was read active; the action is logged  *)
(* either way.                                                             *)
AdminForceDeactivate(r) ==
    /\ txn[r].pc \in AdminPcs
    /\ \/ txn[r].pc = "adminLog" /\ Commit(r, rows)
       \/ txn[r].pc = "adminStamp"
          /\ \E at \in Stamps(r) : Commit(r, [rows EXCEPT ![txn[r].target] = at])
    /\ audit' = audit \cup {txn[r].target}
    /\ UNCHANGED <<now, tokens, tickets>>

-----------------------------------------------------------------------------
(* The environment *)

(* The connection or the process is lost before the commit. *)
Abort(r) == Busy(r) /\ Fail(r, "aborted")

(* Expired claims are refused by the decoder, so they are dropped. *)
Tick ==
    /\ now < MaxNow
    /\ now' = now + 1
    /\ tokens' = {t \in tokens : t.exp > now}
    /\ tickets' = {t \in tickets : t.exp > now}
    /\ UNCHANGED <<rows, txn, audit, conflicted>>

Handle(r) ==
    \/ Touch(r) \/ Reactivate(r) \/ CountActive(r) \/ RefuseAtCap(r)
    \/ Insert(r) \/ InsertFails(r)
    \/ RemedyCheck(r) \/ RemedyRefused(r) \/ Remedy(r)
    \/ ListDevices(r)
    \/ SelfFind(r) \/ SelfCheck(r) \/ SelfRefused(r) \/ SelfDeactivate(r)
    \/ AdminForceDeactivate(r)
    \/ Abort(r)

Arrive(r) ==
    \/ \E u \in Users, d \in Devices : SignIn(r, u, d)
    \/ \E t \in tickets, target \in RowIds, d \in Devices : RemedyFind(r, t, target, d)
    \/ \E t \in tokens : ListPrincipal(r, t)
    \/ \E t \in tokens, target \in RowIds : SelfPrincipal(r, t, target)
    \/ \E u \in Users, target \in RowIds : AdminFind(r, u, target)

Next == Tick \/ \E r \in Requests : Arrive(r) \/ Handle(r)

Spec == Init /\ [][Next]_vars

-----------------------------------------------------------------------------
(* Properties.  The handlers check first and write later; what they check  *)
(* is right, so every rule below is broken only by a request that another  *)
(* commit overtook, or by the one path that does not check.                *)

(* r ends in this step with a commit or an answer. *)
Ends(r) == Busy(r) /\ txn'[r].pc = "idle"
WritesFor(r, u) == Ends(r) /\ txn[r].user = u

(* The number of a user's active devices rises above the cap only when a   *)
(* request overtaken by another commit of the same user writes, or when a  *)
(* deactivated device is reactivated (device_service.py:94-121, 134-158).  *)
CapBrokenOnlyByRaceOrReactivationStep ==
    \A u \in Users :
      ActiveCount(u)' > ActiveCount(u) /\ ActiveCount(u)' > Cap
      => \E r \in Requests : /\ WritesFor(r, u)
                             /\ r \in conflicted \/ txn[r].pc = "reactivate"
CapBrokenOnlyByRaceOrReactivation == [][CapBrokenOnlyByRaceOrReactivationStep]_vars

(* A viewer's own deactivation, alone or as cap remediation, comes at      *)
(* least a cooldown after every earlier deactivation still on record for   *)
(* the user; only an administrator, or an overtaken request, does not wait *)
(* (device_service.py:53-69, 144-147, 186-187).                            *)
CooldownBrokenOnlyByRaceStep ==
    \A x \in RowIds :
      rows[x] = Null /\ rows'[x] # Null
      => \E r \in Requests :
           /\ WritesFor(r, Owner(x))
           /\ \/ txn[r].pc = "adminStamp"
              \/ r \in conflicted
              \/ \A y \in RowIds : Owner(y) = Owner(x) /\ rows[y] \in Nat
                                   => rows[y] + Cooldown <= rows'[x]
CooldownBrokenOnlyByRace == [][CooldownBrokenOnlyByRaceStep]_vars

(* The stamp of a deactivated device is neither moved nor erased, except   *)
(* by a reactivation that found it a cooldown old or by an overtaken       *)
(* request (device_service.py:94-102, 147, 187, 208-209).                  *)
StampsLostOnlyByRaceStep ==
    \A x \in RowIds :
      rows[x] \in Nat /\ rows'[x] # rows[x]
      => \E r \in Requests :
           /\ WritesFor(r, Owner(x))
           /\ \/ r \in conflicted
              \/ txn[r].pc = "reactivate" /\ rows[x] + Cooldown <= txn[r].at
StampsLostOnlyByRace == [][StampsLostOnlyByRaceStep]_vars

(* A device changes only by a request for its own user, and no request     *)
(* changes more than the device it registers and the one it was asked to   *)
(* deactivate (the user_id conjuncts at device_service.py:85, 137, 178,    *)
(* 202).                                                                   *)
DevicesOfOthersUntouchedStep ==
    \A x \in RowIds :
      rows'[x] # rows[x]
      => \E r \in Requests : /\ WritesFor(r, Owner(x))
                             /\ x \in {txn[r].own, txn[r].target}
DevicesOfOthersUntouched == [][DevicesOfOthersUntouchedStep]_vars

(* A sign-in answers with a token for a device that is active once it      *)
(* commits, unless it was overtaken (auth.py:137-142, 204-209).            *)
TokenOfActiveDeviceStep ==
    \A t \in tokens' \ tokens :
      \/ rows'[t.device] = Null
      \/ \E r \in conflicted : Ends(r) /\ txn[r].own = t.device
TokenOfActiveDevice == [][TokenOfActiveDeviceStep]_vars

(* A request fails with an internal error only when it was overtaken, or   *)
(* when cap remediation names a device that already has a row              *)
(* (device_service.py:68, 119-120, 149-158).                               *)
ErrorsOnlyByRaceStep ==
    \A r \in Requests :
      Busy(r) /\ txn'[r] = Idle("error")
      => \/ r \in conflicted
         \/ txn[r].pc = "remedy" /\ rows[txn[r].own] # NoRow
ErrorsOnlyByRace == [][ErrorsOnlyByRaceStep]_vars

(* GET /devices tells what a cooldown check at that moment would find: it  *)
(* shows an unlock time only while there is one to find, and shows none    *)
(* while there is one only when the caller's own device, which the session *)
(* still holds as active, was deactivated since get_current_principal and  *)
(* nothing else is in cooldown (devices.py:28-41, deps.py:56,              *)
(* device_service.py:53-69, 161-171).                                      *)
ListTellsCooldownStep ==
    \A r \in Requests :
      LET found == Recent(txn[r].user) IN
      txn[r].pc = "list"
      => /\ txn'[r] = Idle("locked") => found # {}
         /\ txn'[r] = Idle("unlocked")
            => found = {} \/ (r \in conflicted /\ found = {txn[r].own})
ListTellsCooldown == [][ListTellsCooldownStep]_vars

(* The registry implements the promise of DeviceLifecycle: whatever the    *)
(* requests in flight do, a device comes and goes by its rules, except for *)
(* a user one of whose requests was overtaken (device_service.py:71-218).  *)
Lifecycle == INSTANCE DeviceLifecycle
             WITH contended <- {txn[r].user : r \in conflicted}
LifecycleSpec == Lifecycle!Spec

(* A device an administrator forced out is inactive once the action is     *)
(* logged, unless the request was overtaken: the stamp is written from     *)
(* the row as it was read, the log entry always                            *)
(* (device_service.py:205-218, admin_users.py:94).                         *)
LoggedDeviceIsInactiveStep ==
    \A r \in Requests :
      txn[r].pc \in AdminPcs /\ txn'[r] = Idle("ok")
      => r \in conflicted \/ rows'[txn[r].target] \in Nat
LoggedDeviceIsInactive == [][LoggedDeviceIsInactiveStep]_vars

(* What an in-flight request may rely on while no other commit has         *)
(* overtaken it: the answer of its last SELECT is still true.  This is     *)
(* the strengthening behind the properties above.                          *)
NoRecent(u, at) == \A y \in RowIds : Owner(y) = u /\ rows[y] \in Nat
                                      => rows[y] + Cooldown <= at
ReadsStillTrue(r) ==
    LET x == txn[r].own
        y == txn[r].target
    IN  /\ txn[r].pc = "touch" => rows[x] = Null
        /\ txn[r].pc = "reactivate" => rows[x] \in Nat /\ rows[x] + Cooldown <= txn[r].at
        /\ txn[r].pc \in {"count", "insert"} => rows[x] = NoRow
        /\ txn[r].pc = "insert" => ActiveCount(txn[r].user) < Cap
        /\ txn[r].pc \in RemedyPcs => rows[y] = Null
        /\ txn[r].pc \in SelfPcs => rows[x] = Null
        /\ txn[r].pc \in {"selfCheck", "self"} => rows[y] = Null
        /\ txn[r].pc = "adminStamp" => rows[y] = Null
        /\ txn[r].pc = "adminLog" => rows[y] \in Nat
        /\ txn[r].pc \in {"remedy", "self"} => NoRecent(txn[r].user, txn[r].at)

(* A handler acts on what it read: while no other commit of the same user  *)
(* intervenes, what its SELECTs answered holds when it writes              *)
(* (device_service.py:83-121, 134-158, 175-188, 199-218).                  *)
UncontendedReadsHold ==
    \A r \in Requests : Busy(r) /\ r \notin conflicted => ReadsStillTrue(r)

(* At most Cap devices of a user are active (the cap the designs state;    *)
(* device_service.py:94-121 and 134-158 enforce it).                       *)
CapRespected == \A u \in Users : ActiveCount(u) <= Cap

(* Devices a viewer deactivated were deactivated a cooldown apart: the     *)
(* forced ones, in admin_actions, are exempt (device_service.py:53-69).    *)
OneOwnDeactivationPerCooldown ==
    \A x, y \in RowIds \ audit :
      x # y /\ Owner(x) = Owner(y) /\ rows[x] \in Nat /\ rows[y] \in Nat
      => rows[x] + Cooldown <= rows[y] \/ rows[y] + Cooldown <= rows[x]
=============================================================================
