---------------------------- MODULE AndroidClient ----------------------------
(***************************************************************************)
(* The session of the Android client: the token store, the interceptors,   *)
(* the event bus, the navigation and the view models that sign in, sign    *)
(* out and manage devices (android/app/src/main/java/.../data, ui and      *)
(* MainActivity.kt).                                                       *)
(*                                                                         *)
(* Three parties interleave.  The main thread runs one callback at a time: *)
(* a tap, a coroutine resumed by an answer, a recomposition, a collector.  *)
(* OkHttp's threads attach the token to a call and inspect its answer.     *)
(* The backend answers, expires tokens and deactivates the device; what it *)
(* may answer is taken from src/backend/alaba/api and deps.py.             *)
(*                                                                         *)
(* A screen keeps its view model while it is on the back stack.  One that  *)
(* is popped keeps it, and goes on collecting its events, until the        *)
(* transition to the new screen ends (Settle); then its calls are          *)
(* cancelled.  The viewer acts on a screen only between transitions, and a *)
(* tap waits for the work already posted to the main thread.               *)
(***************************************************************************)
EXTENDS Naturals, FiniteSets, Sequences, SequencesExt

CONSTANTS
    MaxSessions,  \* bound on the tokens ever minted for this phone
    MaxTickets,   \* bound on the verify tickets ever minted
    MaxCalls,     \* bound on the HTTP calls in flight
    MaxRestarts   \* bound on activity recreations and process restarts

ASSUME ClientBoundsAssumption ==
    /\ MaxSessions \in Nat /\ MaxTickets \in Nat
    /\ MaxCalls \in Nat /\ MaxRestarts \in Nat

Sessions == 1..MaxSessions
None == 0                   \* no token, no ticket

MainScreens == {"signed_in", "settings", "devices"}
Screens == {"phone_entry", "otp_entry", "device_cap_reached",
            "device_deactivated"} \cup MainScreens

VARIABLES
    token,      \* TokenStore: the number of the stored JWT, or None
    stack,      \* back stack of the NavController, the top last
    composed,   \* screens in the composition: the top, and those in transition
    doomed,     \* popped screens whose view model is not cleared yet
    vm,         \* the state each view model exposes
    seen,       \* the OtpEntryUiState OtpEntryScreen last composed
    handoff,    \* DeviceCapHandoff: a ticket on its way to the cap screen
    channel,    \* one-shot events of the view models, not yet collected
    calls,      \* HTTP calls in flight
    bus,        \* AuthEventBus: events buffered for MainActivity
    listening,  \* MainActivity is there and collects
    backend,    \* the device's row and the tokens minted for it
    restarts,   \* recreations and restarts so far
    dropped,    \* history: a navigation or sign-out event found no collector
    overlapped  \* history: a code was submitted while another was verified

vars == <<token, stack, composed, doomed, vm, seen, handoff, channel, calls,
          bus, listening, backend, restarts, dropped, overlapped>>

Pending == {"queued", "sent"}
Replies == {"ok", "cap", "401", "403", "failed"}
Kinds == {"request", "verify", "remedy", "me", "list", "deactivate"}
Args == {"-", "phone", "noPhone", "own", "other"}

(* arg is the phone a verification sends or the device a deactivation      *)
(* names; no tells calls apart that are otherwise alike; jwt is what       *)
(* AuthInterceptor attached; got the token or ticket of the answer.        *)
CallType == [by : Screens, kind : Kinds, arg : Args, no : 0..MaxCalls,
             jwt : Sessions \cup {None}, reply : Pending \cup Replies, got : Nat]

(* A code is "full" when it has six digits; any message but the one for a  *)
(* refused code is "other".                                                *)
OtpType == [ui : {"ready"}, code : {"", "full"}, error : {"", "refused", "other"}]
           \cup [ui : {"submitting"}]
Unseen == [ui |-> "unseen"]

(* PhoneEntryUiState, OtpEntryUiState, DeviceCapState with the ticket its  *)
(* screen remembers, and DevicesUiState.                                   *)
ViewModels == [phone_entry : {"ready", "submitting"},
               otp_entry : OtpType,
               device_cap_reached : [ticket : 0..MaxTickets, selected : BOOLEAN,
                                     submitting : BOOLEAN],
               devices : [loaded : BOOLEAN, confirm : {"-", "own", "other"}]]

SignedIn == 0       \* in a channel; a positive number is a 409 with that ticket
CodeSent == 0

Events == {"TokenExpired", "DeviceDeactivated"}

Channels == {"phone_entry", "otp_entry", "device_cap_reached"}

(* Type invariant.  The bus buffers one event, and every call in flight    *)
(* has a view model that waits for it.                                     *)
TypeOK ==
    /\ token \in Sessions \cup {None}
    /\ stack \in Seq(Screens) /\ stack # <<>>
    /\ composed \subseteq Screens /\ doomed \subseteq composed
    /\ vm \in ViewModels /\ seen \in OtpType \cup {Unseen}
    /\ handoff \in 0..MaxTickets
    /\ channel \in [Channels -> Seq(Nat)]
    /\ calls \subseteq CallType
    /\ \A c \in calls : c.by \in ToSet(stack) \cup doomed
    /\ Len(bus) <= 1
    /\ \A i \in DOMAIN bus :
         /\ bus[i].event \in Events /\ bus[i].kind \in Kinds
         /\ bus[i].jwt \in Sessions \cup {None} /\ bus[i].before \subseteq CallType
    /\ listening \in BOOLEAN
    /\ backend \in [active : BOOLEAN, minted : 0..MaxSessions,
                    tickets : 0..MaxTickets, expired : SUBSET Sessions]
    /\ restarts \in 0..MaxRestarts
    /\ dropped \in BOOLEAN /\ overlapped \in BOOLEAN

Ready(code, error) == [ui |-> "ready", code |-> code, error |-> error]
Submitting == [ui |-> "submitting"]

(* The state a view model is created with. *)
Fresh == [phone_entry |-> "ready",
          otp_entry |-> Ready("", ""),
          device_cap_reached |-> [ticket |-> None, selected |-> FALSE,
                                  submitting |-> FALSE],
          devices |-> [loaded |-> FALSE, confirm |-> "-"]]

Call(by, kind, arg) == [by |-> by, kind |-> kind, arg |-> arg, no |-> 0,
                        jwt |-> None, reply |-> "queued", got |-> 0]

(* A call like c joins cs under the first number no other of its kind has. *)
Launch(c, cs) ==
    \E n \in 0..MaxCalls :
        /\ {d.no : d \in {d \in cs : d.kind = c.kind}} \cap 0..n = 0..(n - 1)
        /\ calls' = cs \cup {[c EXCEPT !.no = n]}

(* What a view model loads when it is created. *)
FirstCalls(x) == IF x = "devices" THEN {Call(x, "list", "-")}
                 ELSE IF x \in MainScreens THEN {Call(x, "me", "-")}
                 ELSE {}

(* Mutant: the app always starts with the phone entry. *)
StartSignedOut(t) == "phone_entry"

(* startDestination *)
Start(t) == IF t = None THEN "phone_entry" ELSE "signed_in"

Init ==
    /\ token = None
    /\ stack = <<"phone_entry">> /\ composed = {"phone_entry"} /\ doomed = {}
    /\ vm = Fresh /\ seen = Unseen /\ handoff = None
    /\ channel = [x \in Channels |-> <<>>]
    /\ calls = {} /\ bus = <<>> /\ listening = TRUE
    /\ backend = [active |-> FALSE, minted |-> 0, tickets |-> 0, expired |-> {}]
    /\ restarts = 0 /\ dropped = FALSE /\ overlapped = FALSE

Top == Last(stack)
Room(n) == Cardinality(calls) + n <= MaxCalls

-----------------------------------------------------------------------------
(* Navigation *)

(* View models outside alive are cleared: their calls are cancelled and    *)
(* their events lost; lost says whether another event was.                 *)
Keep(alive, v, cs, ch, lost) ==
    /\ vm' = [x \in DOMAIN v |-> IF x \in alive THEN v[x] ELSE Fresh[x]]
    /\ calls' = {c \in cs : c.by \in alive}
    /\ channel' = [x \in Channels |-> IF x \in alive THEN ch[x] ELSE <<>>]
    /\ dropped' = (dropped \/ lost \/ \E x \in Channels \ alive : ch[x] # <<>>)
    /\ UNCHANGED overlapped

(* The stack becomes s.  A popped screen that is not composed is cleared   *)
(* at once.                                                                *)
Restack(s, v, cs, ch) ==
    /\ stack' = s
    /\ composed' = composed \cup {Last(s)}
    /\ doomed' = (doomed \cup (ToSet(stack) \cap composed)) \ ToSet(s)
    /\ Keep(ToSet(s) \cup doomed', v, cs, ch, FALSE)

Pop(s) ==
    /\ Restack(s, vm, calls, channel)
    /\ seen' = IF "otp_entry" \in ToSet(s) THEN seen ELSE Unseen

(* A new entry x, with a view model of its own, goes on top of s.          *)
Push(s, x, ch) ==
    /\ Restack(Append(s, x),
               [y \in DOMAIN vm |-> IF y = x THEN Fresh[y] ELSE vm[y]],
               {c \in calls : c.by # x} \cup FirstCalls(x),
               [y \in Channels |-> IF y = x THEN <<>> ELSE ch[y]])
    /\ seen' = IF "otp_entry" \in ToSet(s) THEN seen ELSE Unseen

(* The entries below x, or all of them: popUpTo ignores a route that is    *)
(* not on the stack.                                                       *)
Below(x) == IF x \in ToSet(stack)
            THEN SubSeq(stack, 1, (CHOOSE i \in DOMAIN stack : stack[i] = x) - 1)
            ELSE stack

(* The transition to the top is over. *)
Settle ==
    /\ listening /\ composed # {Top}
    /\ composed' = {Top} /\ doomed' = {}
    /\ Keep(ToSet(stack), vm, calls, channel, FALSE)
    /\ seen' = IF Top = "otp_entry" THEN seen ELSE Unseen
    /\ UNCHANGED <<token, stack, handoff, bus, listening, backend, restarts>>

-----------------------------------------------------------------------------
(* The network: OkHttp's threads and the backend *)

(* Mutant: the interceptor reads the store once and keeps the token. *)
AttachFirst(c) ==
    /\ c.reply = "queued"
    /\ calls' = (calls \ {c}) \cup
                {[c EXCEPT !.jwt = IF token = None THEN None ELSE 1, !.reply = "sent"]}
    /\ UNCHANGED <<token, stack, composed, doomed, vm, seen, handoff, channel,
                   bus, listening, backend, restarts, dropped, overlapped>>

(* AuthInterceptor reads the token store when the call starts. *)
Attach(c) ==
    /\ c.reply = "queued"
    /\ calls' = (calls \ {c}) \cup {[c EXCEPT !.jwt = token, !.reply = "sent"]}
    /\ UNCHANGED <<token, stack, composed, doomed, vm, seen, handoff, channel,
                   bus, listening, backend, restarts, dropped, overlapped>>

(* What get_current_principal says of a viewer's token. *)
Principal(t) == IF t = None \/ t \in backend.expired THEN "401"
                ELSE IF ~backend.active THEN "403" ELSE "ok"

(* Every answer the client tells apart.  "failed" is any other one: 404,   *)
(* 422, 429, 5xx, a 403 for another reason, and no answer at all.  A       *)
(* verification without a phone is a 422.                                  *)
AnswersTo(c) ==
    {"failed"} \cup
    CASE c.kind = "request" -> {"ok"}
      [] c.kind = "verify" -> IF c.arg = "phone" THEN {"ok", "cap", "401"} ELSE {}
      [] c.kind = "remedy" -> {"ok", "401"}
      [] OTHER -> {Principal(c.jwt)}

(* kind and jwt say which call raised the event; before is the calls whose *)
(* coroutines were posted to the main thread ahead of it.                  *)
Raised(event, c) == [event |-> event, kind |-> c.kind, jwt |-> c.jwt,
                     before |-> {d \in calls \ {c} : d.reply \in Replies}]

(* Mutant: the bus buffers every event. *)
EmitUnbounded(event, c) ==
    /\ bus' = IF listening THEN Append(bus, Raised(event, c)) ELSE bus
    /\ dropped' = (dropped \/ ~listening)

(* tryEmit: lost without a collector, refused when the buffer is full.     *)
Emit(event, c) ==
    /\ bus' = IF listening /\ bus = <<>>
              THEN <<Raised(event, c)>> ELSE bus
    /\ dropped' = (dropped \/ ~listening)

(* Mutant: the interceptor knows expired tokens only. *)
InspectExpiry(c, reply) ==
    \/ reply = "401" /\ Emit("TokenExpired", c)
    \/ reply # "401" /\ UNCHANGED <<bus, dropped>>

(* AuthErrorInterceptor sees the answer before the caller does. *)
Inspect(c, reply) ==
    \/ reply = "401" /\ Emit("TokenExpired", c)
    \/ reply = "403" /\ Emit("DeviceDeactivated", c)
    \/ reply \notin {"401", "403"} /\ UNCHANGED <<bus, dropped>>

SignsIn(c, reply) == c.kind \in {"verify", "remedy"} /\ reply = "ok"

Answer(c, reply) ==
    /\ c.reply = "sent" /\ reply \in AnswersTo(c)
    /\ SignsIn(c, reply) => backend.minted < MaxSessions
    /\ reply = "cap" => backend.tickets < MaxTickets
    /\ backend' =
         CASE SignsIn(c, reply) -> [backend EXCEPT !.active = TRUE, !.minted = @ + 1]
           [] reply = "cap" -> [backend EXCEPT !.tickets = @ + 1]
           [] c.arg = "own" /\ reply = "ok" -> [backend EXCEPT !.active = FALSE]
           [] OTHER -> backend
    /\ calls' = (calls \ {c}) \cup
                {[c EXCEPT !.reply = reply,
                           !.got = IF SignsIn(c, reply) THEN backend'.minted
                                   ELSE IF reply = "cap" THEN backend'.tickets ELSE 0]}
    /\ Inspect(c, reply)
    /\ UNCHANGED <<token, stack, composed, doomed, vm, seen, handoff, channel,
                   listening, restarts, overlapped>>

(* An administrator or another device deactivates this one; a token        *)
(* expires.                                                                *)
ForceDeactivate ==
    /\ backend.active
    /\ backend' = [backend EXCEPT !.active = FALSE]
    /\ UNCHANGED <<token, stack, composed, doomed, vm, seen, handoff, channel,
                   calls, bus, listening, restarts, dropped, overlapped>>

Expire(t) ==
    /\ t <= backend.minted /\ t \notin backend.expired
    /\ backend' = [backend EXCEPT !.expired = @ \cup {t}]
    /\ UNCHANGED <<token, stack, composed, doomed, vm, seen, handoff, channel,
                   calls, bus, listening, restarts, dropped, overlapped>>

-----------------------------------------------------------------------------
(* The main thread: an answer resumes the coroutine that waits for it *)

Done(c, reply) == c.reply = reply /\ calls' = calls \ {c}
Post(x, event) == channel' = [channel EXCEPT ![x] = Append(@, event)]

CodeRequested(c) ==
    /\ c.kind = "request"
    /\ \/ Done(c, "ok") /\ Post(c.by, CodeSent)
       \/ Done(c, "failed") /\ UNCHANGED channel
    /\ vm' = [vm EXCEPT !.phone_entry = "ready"]
    /\ UNCHANGED <<token, bus, dropped>>

(* verifyOtpCommon stores the token, the view model posts the event. *)
SignInAccepted(c) ==
    /\ c.kind \in {"verify", "remedy"}
    /\ Done(c, "ok")
    /\ token' = c.got
    /\ Post(c.by, SignedIn)
    /\ UNCHANGED <<vm, bus, dropped>>

(* The screen stays in Submitting. *)
CapReached(c) ==
    /\ Done(c, "cap")
    /\ Post(c.by, c.got)
    /\ UNCHANGED <<token, vm, bus, dropped>>

VerifyFailed(c) ==
    /\ c.kind = "verify"
    /\ \/ Done(c, "401") /\ vm' = [vm EXCEPT !.otp_entry = Ready("full", "refused")]
       \/ Done(c, "failed") /\ vm' = [vm EXCEPT !.otp_entry = Ready("full", "other")]
    /\ UNCHANGED <<token, channel, bus, dropped>>

(* The state is restored from the copy taken when the call was made. *)
RemedyFailed(c) ==
    /\ c.kind = "remedy"
    /\ Done(c, "401") \/ Done(c, "failed")
    /\ vm' = [vm EXCEPT !.device_cap_reached.submitting = FALSE]
    /\ UNCHANGED <<token, channel, bus, dropped>>

Loaded(c) ==
    /\ c.kind \in {"me", "list"}
    /\ Done(c, c.reply) /\ c.reply \in Replies
    /\ vm' = IF c.kind = "list" /\ c.reply = "ok"
             THEN [vm EXCEPT !.devices = [loaded |-> TRUE, confirm |-> "-"]] ELSE vm
    /\ UNCHANGED <<token, channel, bus, dropped>>

(* This device: sign out, here and through the bus.  Another one: reload.  *)
Deactivated(c) ==
    /\ c.kind = "deactivate" /\ c.reply = "ok"
    /\ \/ /\ c.arg = "own"
          /\ token' = None
          /\ Emit("DeviceDeactivated", c)
          /\ calls' = calls \ {c}
          /\ UNCHANGED vm
       \/ /\ c.arg = "other"
          /\ vm' = [vm EXCEPT !.devices.confirm = "-"]
          /\ Launch(Call("devices", "list", "-"), calls \ {c})
          /\ UNCHANGED <<token, bus, dropped>>
    /\ UNCHANGED channel

DeactivationFailed(c) ==
    /\ c.kind = "deactivate"
    /\ Done(c, c.reply) /\ c.reply \in Replies \ {"ok"}
    /\ vm' = [vm EXCEPT !.devices.confirm = "-"]
    /\ UNCHANGED <<token, channel, bus, dropped>>

(* The main thread takes its messages in order: an event that was emitted  *)
(* first is handled first.                                                 *)
Resume(c) ==
    /\ bus # <<>> => c \in Head(bus).before
    /\ \/ CodeRequested(c) \/ SignInAccepted(c) \/ CapReached(c) \/ VerifyFailed(c)
       \/ RemedyFailed(c) \/ Loaded(c) \/ Deactivated(c) \/ DeactivationFailed(c)
    /\ UNCHANGED <<stack, composed, doomed, seen, handoff, listening, backend, restarts,
                   overlapped>>

-----------------------------------------------------------------------------
(* The main thread: collectors *)

Rest(x) == [channel EXCEPT ![x] = Tail(@)]

(* A composed screen collects the events of its view model. *)
Collect(x) ==
    /\ x \in composed /\ channel[x] # <<>>
    /\ \/ /\ x = "phone_entry"
          /\ Push(stack, "otp_entry", Rest(x))
          /\ UNCHANGED handoff
       \/ /\ x # "phone_entry" /\ Head(channel[x]) = SignedIn
          /\ Push(Below("phone_entry"), "signed_in", Rest(x))
          /\ UNCHANGED handoff
       \/ /\ x = "otp_entry" /\ Head(channel[x]) # SignedIn
          /\ Push(stack, "device_cap_reached", Rest(x))
          /\ handoff' = Head(channel[x])
    /\ UNCHANGED <<token, bus, listening, backend, restarts>>

CapWaits == /\ Top = "device_cap_reached" /\ Top \in composed
            /\ vm.device_cap_reached.ticket = None

(* remember { DeviceCapHandoff.consume() }: without a handoff the screen   *)
(* pops itself.                                                            *)
ComposeCap ==
    /\ CapWaits
    /\ \/ /\ handoff # None
          /\ vm' = [vm EXCEPT !.device_cap_reached =
                                [Fresh.device_cap_reached EXCEPT !.ticket = handoff]]
          /\ handoff' = None
          /\ UNCHANGED <<stack, composed, doomed, seen, channel, calls, dropped,
                         overlapped>>
       \/ /\ handoff = None /\ Len(stack) > 1
          /\ Pop(Front(stack))
          /\ UNCHANGED handoff
    /\ UNCHANGED <<token, bus, listening, backend, restarts>>

(* Mutant: the new screen goes on top of the old ones. *)
HandleEventKeepsStack ==
    /\ listening /\ bus # <<>>
    /\ bus' = <<>>
    /\ token' = None
    /\ Push(stack, IF Head(bus).event = "TokenExpired" THEN "phone_entry"
                   ELSE "device_deactivated", channel)
    /\ UNCHANGED <<handoff, listening, backend, restarts>>

(* MainActivity: either event clears the store and the back stack. *)
HandleEvent ==
    /\ listening /\ bus # <<>>
    /\ bus' = <<>>
    /\ token' = None
    /\ Push(<<>>, IF Head(bus).event = "TokenExpired" THEN "phone_entry"
                  ELSE "device_deactivated", channel)
    /\ UNCHANGED <<handoff, listening, backend, restarts>>

Verifying == \E c \in calls : c.kind = "verify"

(* submit launches a coroutine of its own, whatever is under way. *)
Submit(arg) ==
    /\ Room(1)
    /\ vm' = [vm EXCEPT !.otp_entry = Submitting]
    /\ Launch(Call("otp_entry", "verify", arg), calls)
    /\ overlapped' = (overlapped \/ Verifying)

CodeWaits == "otp_entry" \in composed \ doomed /\ seen # vm.otp_entry

(* OtpEntryScreen composes the current state; LaunchedEffect(state)        *)
(* submits it if it holds six digits.                                      *)
Recompose ==
    /\ CodeWaits
    /\ seen' = vm.otp_entry
    /\ IF vm.otp_entry.ui = "ready" /\ vm.otp_entry.code = "full"
       THEN Submit("phone") ELSE UNCHANGED <<vm, calls, overlapped>>
    /\ UNCHANGED <<token, stack, composed, doomed, handoff, channel, bus, listening,
                   backend, restarts, dropped>>

-----------------------------------------------------------------------------
(* The viewer *)

(* Between transitions, with nothing posted to the main thread. *)
Idle ==
    /\ listening /\ composed = {Top} /\ bus = <<>>
    /\ Top \in Channels => channel[Top] = <<>>
    /\ ~CapWaits /\ ~CodeWaits

OnScreen(x) == Idle /\ Top = x

SendCode ==
    /\ OnScreen("phone_entry") /\ vm.phone_entry = "ready" /\ Room(1)
    /\ vm' = [vm EXCEPT !.phone_entry = "submitting"]
    /\ calls' = calls \cup {Call("phone_entry", "request", "-")}
    /\ UNCHANGED <<stack, composed, doomed, seen, channel, dropped, overlapped>>

(* onCodeChanged: the field also takes digits while a code is submitted,   *)
(* and six of them are submitted with an empty phone.                      *)
TypeCode ==
    /\ OnScreen("otp_entry")
    /\ \/ /\ vm' = [vm EXCEPT !.otp_entry = Ready("", "")]
          /\ UNCHANGED <<calls, overlapped>>
       \/ Submit("noPhone")
    /\ UNCHANGED <<stack, composed, doomed, seen, channel, dropped>>

TapVerify ==
    /\ OnScreen("otp_entry") /\ vm.otp_entry.ui = "ready"
    /\ \/ vm.otp_entry.code = "full" /\ Submit("phone")
       \/ /\ vm.otp_entry.code # "full"
          /\ vm' = [vm EXCEPT !.otp_entry.error = "other"]
          /\ UNCHANGED <<calls, overlapped>>
    /\ UNCHANGED <<stack, composed, doomed, seen, channel, dropped>>

SelectDevice ==
    /\ OnScreen("device_cap_reached")
    /\ vm' = [vm EXCEPT !.device_cap_reached.selected = TRUE]
    /\ UNCHANGED <<stack, composed, doomed, seen, calls, channel, dropped, overlapped>>

ConfirmDevice ==
    /\ OnScreen("device_cap_reached") /\ Room(1)
    /\ vm.device_cap_reached.selected /\ ~vm.device_cap_reached.submitting
    /\ vm' = [vm EXCEPT !.device_cap_reached.submitting = TRUE]
    /\ calls' = calls \cup {Call("device_cap_reached", "remedy", "-")}
    /\ UNCHANGED <<stack, composed, doomed, seen, channel, dropped, overlapped>>

AskDeactivate ==
    /\ OnScreen("devices") /\ vm.devices.loaded
    /\ \E d \in {"-", "own", "other"} : vm' = [vm EXCEPT !.devices.confirm = d]
    /\ UNCHANGED <<stack, composed, doomed, seen, calls, channel, dropped, overlapped>>

(* The sheet stays open while the call runs. *)
ConfirmDeactivate ==
    /\ OnScreen("devices") /\ vm.devices.confirm # "-" /\ Room(1)
    /\ Launch(Call("devices", "deactivate", vm.devices.confirm), calls)
    /\ UNCHANGED <<vm, stack, composed, doomed, seen, channel, dropped, overlapped>>

(* Back, and Cancel on the cap screen. *)
Back ==
    /\ Idle /\ Len(stack) > 1
    /\ Pop(Front(stack))

CancelCap ==
    /\ OnScreen("device_cap_reached") /\ "phone_entry" \in ToSet(stack)
    /\ Pop(Append(Below("phone_entry"), "phone_entry"))

Open ==
    /\ Room(1)
    /\ \/ OnScreen("signed_in") /\ Push(stack, "settings", channel)
       \/ OnScreen("settings") /\ Push(stack, "devices", channel)

SignInAgain == OnScreen("device_deactivated") /\ Push(<<>>, "phone_entry", channel)

Logout ==
    /\ OnScreen("settings")
    /\ token' = None
    /\ Push(<<>>, "phone_entry", channel)
    /\ UNCHANGED <<handoff, bus, listening, backend, restarts>>

Act ==
    /\ \/ SendCode \/ TypeCode \/ TapVerify \/ SelectDevice \/ ConfirmDevice
       \/ AskDeactivate \/ ConfirmDeactivate \/ Back \/ CancelCap \/ Open \/ SignInAgain
    /\ UNCHANGED <<token, handoff, bus, listening, backend, restarts>>

-----------------------------------------------------------------------------
(* The platform *)

(* remember { } is lost with the composition. *)
Forget(v) == [v EXCEPT !.device_cap_reached.ticket = None]

(* A configuration change destroys the activity and its composition; view  *)
(* models on the stack survive.  Events emitted before the new activity    *)
(* collects are lost.                                                      *)
Destroy ==
    /\ listening /\ restarts < MaxRestarts
    /\ listening' = FALSE /\ restarts' = restarts + 1
    /\ composed' = {} /\ doomed' = {} /\ seen' = Unseen /\ bus' = <<>>
    /\ Keep(ToSet(stack), Forget(vm), calls, channel, bus # <<>>)
    /\ UNCHANGED <<token, stack, handoff, backend>>

Recreate ==
    /\ ~listening
    /\ listening' = TRUE
    /\ composed' = {Top}
    /\ UNCHANGED <<token, stack, doomed, vm, seen, handoff, channel, calls, bus,
                   backend, restarts, dropped, overlapped>>

(* The process ends and the app is started again. *)
Relaunch ==
    /\ restarts < MaxRestarts
    /\ restarts' = restarts + 1
    /\ stack' = <<Start(token)>> /\ composed' = {Start(token)} /\ doomed' = {}
    /\ vm' = Fresh /\ seen' = Unseen /\ handoff' = None
    /\ channel' = [x \in Channels |-> <<>>]
    /\ calls' = FirstCalls(Start(token))
    /\ bus' = <<>> /\ listening' = TRUE
    /\ dropped' = (bus # <<>>) /\ overlapped' = FALSE
    /\ UNCHANGED <<token, backend>>

MainThread == HandleEvent \/ Settle \/ ComposeCap \/ Recompose
              \/ (\E x \in Channels : Collect(x)) \/ (\E c \in calls : Resume(c))

Next ==
    \/ MainThread \/ Act \/ Logout
    \/ \E c \in calls : Attach(c) \/ \E reply \in Replies : Answer(c, reply)
    \/ ForceDeactivate \/ \E t \in Sessions : Expire(t)
    \/ Destroy \/ Recreate \/ Relaunch

Spec == Init /\ [][Next]_vars

(* The main thread runs what is posted to it, and a destroyed activity is  *)
(* created again.                                                          *)
FairSpec == Spec /\ WF_vars(HandleEvent) /\ WF_vars(Recreate)

-----------------------------------------------------------------------------
(* Properties *)

Quiet == Idle /\ calls = {} /\ \A x \in Channels : channel[x] = <<>>

(* When nothing is under way, the main screens are shown exactly while a   *)
(* token is stored (MainActivity.kt:30-45, AlabaNavHost.kt:61-65,          *)
(* 105-108).  Two things break it: an event that found nobody to collect   *)
(* it, and a code submitted while another was verified                     *)
(* (OtpEntryViewModel.kt:41-44).                                           *)
ScreenMatchesToken ==
    Quiet /\ ~dropped /\ ~overlapped => (token # None <=> Top \in MainScreens)

(* Only the answer to a call that carried the stored token takes that      *)
(* token away: one to a call of an earlier session never ends a later one  *)
(* (AuthErrorInterceptor.kt:12-24, viewModelScope).  The exception: of two *)
(* verifications under way at once, the refusal of one ends the session    *)
(* the other opened (OtpEntryViewModel.kt:41-44).                          *)
LateAnswersHarmless ==
    [][bus # <<>> /\ bus' = <<>> /\ token' # token =>
         Head(bus).jwt = token \/ overlapped]_vars

(* A code entered in the app signs it in: once one was accepted, no answer *)
(* to a call made before that takes the session away (OtpEntryScreen.kt:   *)
(* 32-36, OtpEntryViewModel.kt:41-44).  LateAnswersHarmless without its    *)
(* exception.                                                              *)
AcceptedCodeSignsIn ==
    [][bus # <<>> /\ bus' = <<>> /\ token' # token => Head(bus).jwt = token]_vars

(* A call that carried the stored token and is answered 401, or 403 for a  *)
(* deactivated device, ends the session, unless a sign-out event found no  *)
(* activity to collect it (AuthErrorInterceptor.kt:14-21,                  *)
(* AuthEventBus.kt:18-20, MainActivity.kt:32-45).                          *)
ForcedSignOut ==
    \A t \in Sessions :
        (token = t /\ \E c \in calls : c.jwt = t /\ c.reply \in {"401", "403"})
            ~> (token # t \/ dropped)

(* A wrong code is reported on the screen it was typed on                  *)
(* (OtpEntryViewModel.kt:71-76).                                           *)
WrongCodeStays ==
    [][bus # <<>> /\ bus' = <<>> /\ Top = "otp_entry" /\ Head(bus).kind = "verify"
         => Top' = "otp_entry"]_vars
=============================================================================
