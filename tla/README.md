# A TLA+ model of Alaba

Alaba is a platform for Nigerian film: viewers sign in on Android with a phone
number and a one-time code, producers and administrators on a web portal, and a
FastAPI backend over PostgreSQL serves both. What exists today is its first wave,
authentication and multi-device management; films, licences and payouts are
tables nobody writes yet. The rules worth verifying are therefore those of the
sign-in: a user holds at most two active devices, deactivates at most one of them
per 90 days, and proves possession of the phone with codes that are few, short-lived
and good for one sign-in.

These modules model that core, TLC checks them on small instances and TLAPS proves
their main rules for every size. File names below are relative to `src/`;
`alaba/` stands for `backend/alaba/`.

## The system

| Component | State | Operations | What is hard about it |
|---|---|---|---|
| Device registry: `alaba/services/device_service.py`, `alaba/api/devices.py`, `alaba/api/admin_users.py` | `user_devices`, `admin_actions` | sign-in of a device, cap remediation, self-deactivation, force-deactivation, two lists | check-then-write over several awaits without a lock; rows cached by the session |
| One-time codes: `alaba/services/otp_service.py`, `alaba/integrations/otp.py` | `otp_codes` | issue, deliver, verify | counting before inserting, delivery before commit, counters in transactions that roll back, row locks held across other work |
| Sign-in: `alaba/api/auth.py` | the two above and `users`, in one transaction | `POST /auth/otp/request`, `POST /auth/otp/verify` in modes A (code) and B (ticket) | which failure commits what; lost replies and retries; tickets of 120 seconds |
| Principal and roles: `alaba/deps.py`, `alaba/security.py` | signed tokens, no server-side session | resolve the caller, mint and decode tokens and tickets | a token outlives its device; suspension is seen at the next request |
| Producer and admin accounts: `alaba/services/auth_service.py`, `infra/scripts/make_admin.py` | `producers`, `admins` | register, create an administrator, log in | read-then-insert of the unique email; replies lost after the commit |
| Database sessions: `alaba/db.py` | one session per request, a pool of 15 connections | yield, roll back | read committed, no autoflush, rows not expired on commit |
| Android client: `android/app/src/main/java/.../data/auth`, `ui/auth`, `ui/settings`, `ui/nav` | token store, event bus of one slot, back stack, view-model states, a cap handoff | enter phone, enter code, choose a device, manage devices | interceptors on other threads, dropped events, automatic submission on every state change |
| Web portal: `web/src/proxy.ts`, `web/src/lib`, layouts and login pages | a cookie that all tabs share | proxy, layout check, login, register, logout | proxy and layout check different things; the proxy deletes the cookie with an answer that may be late |
| Catalogue, licences, payouts: `alaba/models/` | tables only | none | nothing yet |

Components interact as follows. The client calls `/auth/otp/request`; the backend
counts the phone's recent codes, inserts one and delivers it before committing.
The client calls `/auth/otp/verify` with the code; the backend marks the code
(uncommitted), finds or creates the user, and resolves the device: a known active
device is touched, a deactivated one is reactivated after its cooldown, an unknown
one is inserted if the user has room, and otherwise the answer is 409 with the list
of active devices and a ticket. The ticket comes back with a device to deactivate
(mode B), which swaps the two devices in one flush. A token names its `user_devices`
row; every later call loads that row and is refused with 403 if it is inactive.
Administrators deactivate any device without a cooldown and leave a row in
`admin_actions`.

Correctness, component by component:

- registry: the cap; one own deactivation per cooldown; stamps that start a cooldown
  are not lost; tokens for active devices only; no request touches another user's
  device; a logged force-deactivation is effective; no internal errors;
- codes: at most five per window; at most five wrong guesses each; one acceptance
  each; only delivered, unexpired codes are accepted; a verification that waits ends;
- sign-in: code, user and device change together; a retry after a lost reply is
  answered sensibly; no sign-in is stuck;
- accounts: one account per email; a refused registration changes nothing;
- client: the screen and the token store agree; a forced sign-out reaches the screen; the
  answers of one session do not touch the next; a code is submitted once;
- portal: no redirect cycle; a page is shown only to its role.

## The modules

| Module | Models or proves |
|---|---|
| `DeviceRegistry` | the registry and every handler that writes it |
| `MCDeviceRegistry` | its instances for TLC |
| `DeviceRegistryProofs` | its inductive invariant, proved |
| `DeviceRegistryRules` | its rules (action properties), proved from that invariant |
| `DeviceLifecycle` | what the registry promises about a user's devices, without requests: its abstract specification |
| `DeviceLifecycleProofs` | the proof that `DeviceRegistry` implements `DeviceLifecycle` |
| `Otp` | the codes of one phone number and the handlers that issue and verify them |
| `MCOtp` | its instances for TLC |
| `OtpProofs` | its inductive invariant and bounds, proved |
| `SignIn` | `Otp`, the users row and `DeviceRegistry` composed: one request, one transaction |
| `MCSignIn` | its instances for TLC |
| `SignInProofs` | the proofs that it implements its parts, and of its own rules, with the invariants of the parts cited through instances |
| `Portal` | accounts of producers and administrators, and the browser: cookie, tabs, proxy, layouts, forms |
| `MCPortal` | its instance for TLC |
| `PortalProofs` | its types, its registrations and what ends a session, proved |
| `AndroidClient` | the session of the Android app: token, calls, events, navigation, view models |
| `MCAndroidClient` | its instances for TLC |
| `AndroidClientProofs` | its types, proved |
| `AndroidClientRules` | its two session rules, proved from an invariant of the sign-in under way |

### DeviceRegistry

`rows` is `user_devices`: for each key (user, device id) either `NoRow`, `Null` (active)
or the instant of its `deactivated_at`. Rows are never deleted and the key is unique,
so it also stands for the primary key that tokens and requests name. `txn[r]` is the
handler in slot `r`: the place where it waits (`pc`), the row it registers or acts from
(`own`), the one it deactivates (`target`), and the time of its last SELECT (`at`).
`tokens` and `tickets` are the unexpired credentials, `audit` the devices in
`admin_actions`. `conflicted` is a history variable: the requests in flight whose
user's rows another commit has changed since they began.

An action is one SELECT with the synchronous code after it, or the final flush with
its commit. Between two actions of a handler any other handler may run; this is exactly
what `await` allows. The database reads committed rows, so a handler never sees another's
unfinished write. Flush and commit are one action: an uncommitted UPDATE is invisible, a
second UPDATE of the same row waits for it and is then applied by primary key without
looking at the row again, and a second INSERT of a key waits and then fails.

| Code | Actions |
|---|---|
| `register_or_resolve_device` and the end of `verify_otp` | `SignIn` (first SELECT, cooldown of a deactivated row), then `Touch`, `Reactivate`, or `CountActive`/`RefuseAtCap`, `Insert`/`InsertFails` |
| `deactivate_with_cap_remediation` and mode B of `verify_otp` | `RemedyFind`, `RemedyCheck`/`RemedyRefused`, `Remedy`/`InsertFails` |
| `get_current_principal` and `deactivate` | `SelfPrincipal`, `SelfFind`, `SelfCheck`/`SelfRefused`, `SelfDeactivate` |
| `get_current_principal` and `list_my_devices` | `ListPrincipal`, `ListDevices` |
| `admin_force_deactivate` | `AdminFind`, `AdminForceDeactivate` |
| rollback in `get_db`; the clock and expired claims | `Abort`; `Tick` |

Two details of SQLAlchemy matter and are modelled. A row that the session has already
loaded keeps its loaded values when a later SELECT returns it: the caller's own row is
loaded by `get_current_principal`, so `SelfFind` takes it as active whatever it is by
now, `ListDevices` leaves it out of the deactivated ones (`ListedGone`), and a cooldown check that finds a row loaded as active computes with `None` and
raises (`RefuseInCooldown`, reply `"error"`). And an UPDATE writes only the attributes
that changed, so `Touch` never revives a row that was deactivated meanwhile.

The stamp a handler writes is any instant between its last SELECT and its commit
(`Stamps`). `activated_at`, `last_seen_at`, names and models of devices decide nothing and
are left out. Of the list endpoints, which only read, `ListDevices` keeps what `list_my_devices` tells of the
cooldown, whether there is an unlock time (reply `"locked"`) or none: `ListTellsCooldown` compares it with what a cooldown check would find at that moment. They differ
in one case, the own device deactivated by another request after the session loaded it. The user exists before the device
steps begin; creating it belongs to `SignIn`.

### DeviceLifecycle

The same table without requests, credentials and reads: `Register` (room under the cap), `Return` (a cooldown later),
`Swap` (mode B), `Retire` (self-deactivation), `Force` and `Log` (the administrator). Each is one atomic step with the rule of
the business as its guard. `contended` names the users of whom a request in flight has been overtaken by another commit; for them
`Overtaken` allows a request to act on what it read before. The refinement mapping is in `DeviceRegistry`:
`contended <- {txn[r].user : r \in conflicted}`, everything else by its own name. So the module says in one page what
the interleavings of the registry amount to: without overlap the rules are atomic, and with it one commit may act on old reads, of its own
user, on one or two rows. `Return` counts no devices: that is the reactivation of the finding below.

### Otp

Every query of the service filters by phone and two numbers share no row, so one number
stands for all. A code is its issue number; `codes` holds the committed rows, `sent`
what the provider delivered, and two histories count how often each code was accepted and
how often it answered `invalid_code`. Here the flush of a verification and its commit are
two actions, because the device steps lie between them and the flush keeps the row locked
until the transaction ends: `Consume` takes the lock (`LockFree`), `Accept` commits,
`Release` is the rollback after `cooldown_active`. `RejectWrong` increments and rolls back.
Delivery (`Send`) comes before `IssueCommit`, as in `request_otp`. Two codes drawn for one
number are taken to differ; a viewer types a delivered code or something else.

### SignIn

`SignIn` instantiates the two modules above for one phone number, `Codes` and `Registry`, with one slot of each per request, and adds
`user`, the committed `users` row, and `step[r]`, how far `find_or_create_user` got. A step belongs to one part, the other standing still,
or to both: `CommitSignIn` is `Codes!Accept` with the end of a device step and makes the user visible; a refusal in cooldown is `Codes!Release` with the refusal
of the registry; a connection that is lost (`Abort`) and the clock (`Tick`) are shared too. That the conjunctions are the code's transactions is checked, not
assumed: `RegistrySpec` and `CodesSpec` are the specifications of the parts as properties of the whole.

| Code | Actions |
|---|---|
| `verify_otp`, choice of mode A or B | `VerifyOtp` (a code or a ticket, never both) |
| `find_or_create_user` | `FindUser`, `InsertUser` (waits for an uncommitted row of the same phone), `InsertUserFails` |
| rest of mode A | `ResolveDevice`, `CountDevices`, `CommitSignIn`, `InsertDeviceFails` |
| mode B, `devices.py`, `admin_users.py` | `VerifyOtp` and `ManageDevices`, then `DeviceStep` |
| `request_otp` | `RequestOtp`, `CodeUnlocked` |
| rollback in `get_db` | `Abort` |

There is no client in this module. Any delivered code, live ticket and live token may arrive at any time, again and from any device,
which covers lost replies, repeated taps and retries. An administrator reaches a device through the user it belongs to, found by phone.

### Portal

`accounts` holds the rows of `producers` and `admins` by email, `cookie` the browser's `auth_token`, `tabs` what each tab shows or waits
for. A request takes the cookie of the moment it is sent (`Ask`); the proxy, the layout with its call of `/me`, and the login page answer
in steps of their own, and what an answer does to the cookie it does when it arrives. So another tab may sign in between.

| Code | Actions |
|---|---|
| `proxy.ts` | `Visit` (the matcher), `Proxy` |
| the two `layout.tsx`, `/me`, `get_current_principal` | `Layout`, `Principal` |
| login and register pages, their forms and actions | `LoginPage`, `Login`, `Register`; `SignIn` is `setAuthCookie` and the push of the dashboard |
| `AuthService.register_producer`, `register_producer` | `Prepare` (SELECT, hash), then `Create` or `CreateFails`; `Registered` is the answer, which may be lost |
| `make_admin.py` | `CreateAdmin`, then the same |
| `api/auth/logout/route.ts` | `Logout` |
| operator, browser | `Suspend`, `CookieExpires` |

Email and password are what the forms send; a password too short or too long for bcrypt is `Unusable` and is refused without an effect.
The two routes of a role that redirect whoever is signed in, login and register, are one page here. A tab may also stand for a
terminal in which `make_admin` runs.

### AndroidClient

`token` is the token store; a token is the number of the session it was minted for. `stack` is the back stack,
`composed` the screens in the composition (two of them during a transition) and `doomed` the popped ones whose
view models live until it ends. `vm` holds what the view models expose, `channel` their one-shot events, `calls` the
HTTP calls in flight, `bus` the slot of `AuthEventBus`, `handoff` the ticket on its way to the cap screen, and
`listening` whether `MainActivity` is there to collect. The backend is the environment: `backend` says whether the device is
active, which tokens have expired and how many tokens and tickets exist, and a call may get any answer that
the API gives in that situation, or none (`AnswersTo`).

| Code | Actions |
|---|---|
| `AuthInterceptor`, `AuthErrorInterceptor`, `AuthEventBus.emit` | `Attach`; `Answer` with `Inspect` and `Emit` |
| `PhoneEntryViewModel`, `OtpEntryViewModel`, `DeviceCapReachedViewModel`, `AuthRepository` | `SendCode`, `TypeCode`, `TapVerify`, `SelectDevice`, `ConfirmDevice`; resumed by an answer: `CodeRequested`, `SignInAccepted`, `CapReached`, `VerifyFailed`, `RemedyFailed` |
| `DevicesViewModel`, `SignedInPlaceholderViewModel` | `AskDeactivate`, `ConfirmDeactivate`; `Loaded`, `Deactivated`, `DeactivationFailed` |
| `OtpEntryScreen` (`LaunchedEffect(state)`) | `Recompose` |
| `AlabaNavHost`, `DeviceCapHandoff` | `Collect`, `ComposeCap`, `Back`, `CancelCap`, `Open`, `SignInAgain`, `Logout` |
| `MainActivity` | `HandleEvent`, `Relaunch` |
| navigation library and platform | `Settle` (end of a transition), `Destroy`, `Recreate` |

What decides the interleavings: the main thread takes its messages in order, so an event of the bus is
handled before the coroutine of an answer that came after it (`Resume`); a screen that is popped stops recomposing but its
collector runs until the transition ends; a cleared view model takes its calls with it (`Keep`). The viewer acts when
nothing is posted to the main thread (`Idle`), so taps in the middle of a transition are left out. Of the phone number and the code
only what the code tells apart is kept: a code has six digits or not, and a verification names the phone or, from
`onCodeChanged`, an empty one, which the backend refuses as malformed. The code field stays enabled while a code is verified, and shows nothing then, so
`TypeCode` needs no particular state; each submission is a call of its own (`Launch` numbers those that are otherwise alike), and the history
`overlapped` says whether one was made while another was under way, in this process. Two entries of one screen on the stack share their
view model in the model. State that the system saves for a process it kills, and the delay of `apply()`, are left out.

Definitions that precede another one and are named for what they get wrong (`EmitUnbounded`, `IssueCountsFreshCodes`,
`RemedyKeepsTarget`) are mutants of it: `PROJECT.json` lists them with the property each one breaks.

## What is checked

`UncontendedReadsHold` is the centre of the registry: while no other commit of the same
user intervenes, what a handler read is still true when it writes. Every other rule is
stated as an action property with the exception the code really has: it holds for a request
that was not overtaken. So the runs show on one side that the checks in the code are right,
and on the other, by the `violation` runs, that the missing lock matters.

| Run | Shows | Bounds, and why they are enough |
|---|---|---|
| `registry_races` | all rules of the registry while two requests of a user interleave at every await, and that it implements `DeviceLifecycle` | one user (users meet only in the user-id filters, see the next run), three devices with a cap of two, so that the cap is reached and exceeded and a third device remains; two requests, since a race is between two; one tick and a cooldown of one, so a stamp is both inside and at the end of its cooldown; credentials live one tick |
| `registry_serial` | deactivations of a viewer are a cooldown apart; no request changes a device of another user | one request at a time, two users with two devices, cap one, cooldown two, four instants: a full cooldown with a reactivation or a second deactivation after it, while the other user does the same |
| `registry_cap_reactivation` (violation) | a reactivation exceeds the cap | one request at a time |
| `otp_safety` | how soft the limit and the single use are; delivery, lifetime, types | two requests, limit one, three codes, window three and lifetime two over five instants: codes leave the window and expire while requests are under way |
| `otp_wrong_codes`, `otp_accepted_twice` (violations) | see below | the smallest instance that shows each |
| `sign_in` | the transaction of a sign-in as a whole; that it implements both of its parts | two requests, two devices with cap one (so 409, ticket and remediation occur), two codes, two instants and a cooldown of one: the first sign-ins of a number race, fail, are repeated and are refused in cooldown; wrong codes, which only `Otp` sees, are left to `otp_safety` |
| `sign_in_liveness` | requests that wait for the lock of a code or of a phone number end | two requests, two codes, one device, no time: one holds a code while it waits for the number, the other the number |
| `portal` | confirmed registrations stay, sessions end for a reason, redirects end | two tabs, so one can sign in while the other waits; both roles with one email; two usable passwords, to tell two registrations apart, and an unusable one; two sign-ins; tokens live one tick |
| `android_sessions` | the screen follows the token; no answer of one session ends the next; every refusal of the stored token ends its session; with a restart of activity or process anywhere | two sessions, so one can outlive the other; two calls, so an old one can meet a new one and two refusals compete for the slot of the bus; one ticket; one restart; and the constraint `Bounds`, see below |
| `android_overlap` (violation) | the refusal of a second verification takes away the session the first one opened | one session, two calls |
| `android_wrong_code` (violation) | a wrong code leaves the code screen | one session, one call |

Fairness, in `sign_in_liveness`: a handler that can proceed does (weak fairness of
`Unlocked`), since the event loop resumes every coroutine whose await is done; and a
handler waiting for a row lock or a unique key gets it if it is free again and again (strong fairness
of `Locking`), since PostgreSQL queues the waiters of a lock. Nothing is assumed of new
requests, failures or the clock. Strong fairness is needed: a lock taken and released by
others in turn is free infinitely often and never for good. In `portal`: servers answer and the browser follows a redirect without
being asked (weak fairness of `Answered`); users may stop anywhere. In `android_sessions`: the main thread handles an event it
has received, and the system recreates the activity it destroyed (weak fairness of each). Neither answers nor taps are
taken to come.

`Tick` stops at `MaxNow`, codes at `MaxCodes` and wrong answers at `MaxWrong`: these bounds
make the runs finite and appear in no property; so do `MaxSessions` of `Portal` and the bounds of `AndroidClient`.
`android_sessions` has a constraint as well: at most one token expires, and from an overlap of two verifications to the end of the process the backend has
given out one token or ticket at most and the activity is not recreated. What it cuts are second sessions and recreations beside an overlap, where the two rules with the
exception `overlapped` claim nothing; without overlaps it cuts only the second expiry. `ForcedSignOut`, which has no such exception, is checked within it.
The invariant from which the rules are proved was checked without the constraint on an instance with one session, one ticket and one restart.
The registry and sign-in runs take states that differ only in the reply an idle slot still shows as one (`View` in the MC modules): no
action reads it, and the properties that do look at the step that gives it. They also use the symmetry of requests, devices and users. The registry never deadlocks, as new requests
are always possible, and no run turns the deadlock check off.

Where the code differs from what its documents say:

1. **Reactivation exceeds the cap** (`registry_cap_reactivation`). `device_service.py:94-104`
   does not count. The slice design (:304) wants it only "if doing so doesn't exceed cap"; the
   wave-1 design describes it without the count.
   Overlapping sign-ins exceed the cap too, the other exception of `CapBrokenOnlyByRaceOrReactivation`: the wave-1 design (:668)
   names this race and a `SELECT ... FOR UPDATE` that mitigates it; the code has no locking SELECT.
2. **Wrong codes are not limited** (`otp_wrong_codes`). The increment of `attempts` is rolled back with
   the 401; the test checklist expects `attempts_exhausted` after five. The unit test passes because
   it runs in one session that never ends its transaction.
3. **One code signs in twice** (`otp_accepted_twice`). The code is read without a lock and not read again
   after waiting for it.
4. **An accepted code does not always sign in** (`android_overlap`). `onCodeChanged` sets `Ready` whatever is under way (`OtpEntryViewModel.kt:41-44`) and the field, emptied while
   a code is submitted, takes six more digits: two verifications are in flight. One is accepted, and the 401 of the other, which was sent without a token, clears the one just
   stored. The emulator test of the wave-1 plan (:7622) expects to reach SignedIn. If the collector of the code screen runs after that, it opens the main screen although there is no token.
5. **A wrong code leaves the code screen** (`android_wrong_code`). `AuthErrorInterceptor.kt:15` takes every 401 for an expired
   token, so `MainActivity` shows the phone entry while the view model prepares the message its test expects. The
   unit test passes because it has no interceptor.

The same missing locks let overlapping deactivations share a cooldown (`device_service.py:144`, `186`), the exception of
`CooldownBrokenOnlyByRace`, and overlapping code requests exceed the limit (`otp_service.py:43-53`). `RateBound`
and `AcceptBound` say how far this and 3 go: by one per other request in flight and no further, because a request that begins
after a commit sees it.

Two more behaviours of the client follow from its model and are worth knowing. A sign-out event emitted while the activity is
recreated is lost until the next refused call, since the bus has no replay: the exception `dropped` of `ForcedSignOut` and `ScreenMatchesToken`. And a
verification that fails for any reason but a 401 is submitted again at once, since the screen submits on every new state
with six digits.

Of the portal and the sign-in, too, some behaviour is worth knowing although no document forbids it. A suspended account, or an outage of the
backend, sends a signed-in browser back and forth between dashboard and login page (`Refused` in `NavigationsEnd`). An answer of the proxy that
is late deletes the cookie of a newer session (the third case of `SessionEnds`). A remediation whose reply is lost answers 404 when it is repeated with
its ticket, which no property is about; a new code gets the viewer in (`RepeatedSignInSucceeds`). The list of devices shows no unlock time, for one request, when the device it is read from has
just been deactivated (`ListTellsCooldown`). And a device an administrator forced out may sign in again after the cooldown,
by the same `Return` as any other, where `ForceDeactivateDialog.tsx:70-73` speaks of a device that cannot re-authenticate.

## What is proved

TLAPS proves the following for any users, devices, slots, cap, cooldown and lifetimes. The
assumptions are that the numeric parameters are naturals (the limit positive), that device ids
and slots are finite sets, and that the sentinels differ from the values they stand beside.

*Registry.* `IInv` of `DeviceRegistryProofs` is `TypeOK` with `UncontendedReadsHold` and three facts about
slots: a handler's rows belong to its user (`OwnedOK`), a sign-in and an administrator's request work
on one row (`OneRowOK`), and a row a token will name exists (`TouchedExist`). `UncontendedReadsHold`
alone is not inductive: to know that a commit of another user leaves a handler's reads alone one must know
whose rows it reads and writes. The step splits by the way a handler moves. A commit (`CommitReads`) changes rows
of its own user only and adds that user's handlers in flight to `conflicted`, so it spoils the reads of none
outside it. A read (`StartInv`, `GotoInv`) establishes the clause of `ReadsStillTrue` for its new place; an
answer leaves everything else (`AnswerInv`). From this:

- `RegistryTypeCorrect`, `UncontendedReads`: the invariants of `registry_races`;
- `OthersUntouched`, `CooldownRule`, `StampsKept`, `CapRule`, `ErrorRule`, `AdminRule`, `TokenRule`
  (`DeviceRegistryRules`): action properties of the two registry runs. They share one
  classification (`RowWriters`): a step that changes the table is the commit of one request, and a row it changes is
  the one it registers, which becomes active, or the one it deactivates, which gets a stamp. `CapRule` adds the
  counting (`CountRises`): a set of active devices that gains at most one, or trades one for another;
- `ListRule`: if the latest deactivation listed is in its cooldown, a check would find it; and if none is, a row the check would find can only be the caller's own. That row was active
  when the session loaded it, which still holds unless the request was overtaken (`UncontendedReadsHold`, which has a clause for the place `list`);
- `OwnDeactivationsApart`: `OneOwnDeactivationPerCooldown` in every behaviour without an overtaken request,
  `Spec /\ [](conflicted = {})`, and `SerialDeactivationsApart`, its case of one request slot, the instance of `registry_serial`. The condition is
  needed: two overlapping deactivations share a cooldown, as `CooldownBrokenOnlyByRace` allows;
- `LifecycleRefinement` (`DeviceLifecycleProofs`): `Spec => LifecycleSpec`. A writer that was not overtaken may rely on its reads, and what it
  read is the guard of an abstract action; one that was overtaken is allowed `Overtaken`, its user being contended at that moment. To know this one needs that only
  requests in flight are overtaken and that none has read in the future (`InFlight`).

*Codes.* `IInv` of `OtpProofs` is `TypeOK`, `CommittedCodesWereSent` and `OtpInvariant`: a number drawn belongs to one
request until its row is committed (`InFlight`), and the requests under way count against the limit
and against each code beforehand (`RateRoom`, `AcceptRoom`), which is what makes the two bounds inductive.
From it `OtpTypeCorrect`, `RequestsCountAhead`, `RateBoundHolds`, `AcceptBoundHolds`, `CommittedCodesSent`, and, with the lifetime a
verification read (`FreshHeld`), `AcceptedFresh`.

*Sign-in.* `ImplementsRegistry` and `ImplementsCodes` (`SignInProofs`) are step by step: every action of the composition is an action of
each part or leaves the part alone. They carry what is proved of `DeviceRegistry` and `Otp` over to whole requests: `SignInProofs` instantiates
`DeviceRegistryRules` and `OtpProofs` (`Devs`, `Otps`), shows that these instances speak of the same steps (`SameSteps`, `SameCodeSteps`), and so has their inductive invariants
inside a sign-in (`RegistryInvariant`, `CodesInvariant`).

`UserFirst` needs to know where a request
stands in both parts: one that got as far as the user holds a code, and one that works on devices has a user, committed or
its own (`SlotOK`). Then nothing but a sign-in can be under way before the first commit of the users row, and
that commit is `CommitSignIn`. `CooldownOfKnownUser` adds `PhoneInv`: one request at a time holds the uncommitted row, and while it does nobody
has found or committed the user, so the registry is still empty and cannot refuse. `SignInTypeCorrect` is these two invariants with those of the parts.

`RepeatedSignIn` and `DevicesCost` combine an invariant of a part with `ModesApart`: a request that is busy in both parts is signing its own device
in, so none deactivates a device while it holds a code. A sign-in is refused in its first SELECT, by the cooldown of its own row, which is then
inactive (`ActiveResolves`), or later at the count or by the unique key (`SignInRefusals`), where a request that was not overtaken had read that its device has no row. A user gains a device only by a write that `CountRises` names; outside an
overtaken remediation it is the commit of a sign-in (`GainsAreCommits`), which counts an acceptance of its code (`CommitCostsCode`).

*Portal.* `TypeOK` is inductive because accounts are never dropped (`AccountsKept`): a cookie and a request on its way
keep naming an account (`PortalTypeCorrect`). With it `RegistrationsKept` is inductive, since a row is inserted only where there is none
(`RegistrationsStay`), and `SessionEnds` follows from the steps that write the cookie (`SessionsEndBy`).

*Android.* `ClientTypeCorrect` (`AndroidClientProofs`) needs no condition: the bus never buffers a second event, and no call outlives the view model
that waits for it. Its invariant `TypeInv` adds that every composed screen is on the stack or leaving it, that nothing is composed without an activity, and
what a call of each kind may carry (`CallsOK`).

`ScreenMatchesTokenHolds` and `LateAnswersHarmlessHolds` (`AndroidClientRules`) have no hypothesis; their exception is part of the rules. `SessionInv` is `TypeInv` and, unless verifications overlapped, what follows:
an overlap lasts until the process ends, and a new process starts in a state that satisfies all of it (`CarryRelaunch`). Neither rule is inductive:
whether the screen agrees with the token depends on answers and events that are still on their way. What the invariant says of them, part by part:

- the back stack has one of eight shapes (`ShapeInv`), and while a step of a sign-in is under way the viewer is where that step belongs (`PlaceInv`, `CapAfterCode`,
  `NoOrphans`);
- of a sign-in one step at most is under way: its call is the only call, its event comes when no call is left (`OneAtATime`), and the view model that waits says so, which
  is what refuses a second tap; of a verification it only says that no code of six digits is there to be submitted (`WaitingInv`), since the viewer may type on, and six digits more are the overlap;
- a sign-out event on the bus excludes a code request, the end of a sign-in and a ticket on its way to the cap screen, and is not queued behind a call of a
  sign-in (`BusInv`, `HandoffInv`);
- while a token is stored, every call that carries a token carries that one, and so does the call a buffered event answers (`CarryInv`): `LateAnswersHarmless`;
- a stored token is shown by a main screen or about to be announced, and a main screen without a token has a sign-out event on its way, unless an event was
  dropped (`MatchInv`): when nothing is under way, this is `ScreenMatchesToken`.

TLC checked these parts as an invariant on a smaller number of sessions before they were proved.

Only model-checked: `EveryRequestEnds`, `NavigationsEnd` and `ForcedSignOut`, since liveness under fairness is outside the prover. Every invariant and
action property of the passing runs is proved.

## Not modelled, and the plan

Possible next steps:

1. The rules of the registry and the bounds on codes stated for whole requests, now that `SignInProofs` has the invariants of both parts.
2. The view models after process death (state the system saves, `apply()` not yet written).

Left out for good: the tables of the catalogue (no code), migrations, containers and the health probe
(they run once or keep nothing), screens and styling (no state of their own), the administrator's pages for looking up and forcing out a device (they call
endpoints that are modelled), the suspension of viewers (a column nobody writes), password hashing and signatures (taken to be correct), and the
connection pool, which delays requests but orders nothing.
