-------------------------- MODULE AndroidClientProofs --------------------------
(***************************************************************************)
(* The types of AndroidClient, for any bounds.  They rest on three facts   *)
(* the type invariant does not hold: a composed screen is on the back      *)
(* stack or about to be cleared, each kind of call is made by one view     *)
(* model (the history screens share one), and an answer that opens a       *)
(* session or reports the cap carries the token or the ticket the backend  *)
(* made for it.                                                            *)
(***************************************************************************)
EXTENDS AndroidClient, SequenceTheorems, TLAPS

SignInKinds == {"request", "verify", "remedy"}

Owner(c) ==
    /\ c.kind = "request" <=> c.by = "phone_entry"
    /\ c.kind = "verify" <=> c.by = "otp_entry"
    /\ c.kind = "remedy" <=> c.by = "device_cap_reached"
    /\ c.kind \in {"list", "deactivate"} <=> c.by = "devices"
    /\ c.by # "device_deactivated"
    /\ c.arg = "own" => c.kind = "deactivate"

CallOK(c) ==
    /\ c \in CallType /\ Owner(c)
    /\ c.kind \in {"verify", "remedy"} /\ c.reply = "ok" => c.got \in Sessions
    /\ c.reply = "cap" => c.kind = "verify" /\ c.got \in 1..MaxTickets

Queues == [Channels -> Seq(0..MaxTickets)]

RaisedType(e) ==
    /\ e.event \in Events /\ e.kind \in Kinds
    /\ e.jwt \in Sessions \cup {None} /\ e.before \subseteq CallType

(* The variables by themselves. *)
ScreensOK ==
    /\ stack \in Seq(Screens) /\ stack # <<>>
    /\ composed \subseteq ToSet(stack) \cup doomed
    /\ composed \subseteq Screens /\ doomed \subseteq composed /\ doomed \cap ToSet(stack) = {}
CallsOK == \A c \in calls : CallOK(c) /\ c.by \in ToSet(stack) \cup doomed
Attached == composed # {} => listening
SeenOK == seen \in OtpType \cup {Unseen}
BusOK == Len(bus) <= 1 /\ \A i \in DOMAIN bus : RaisedType(bus[i])
BackendOK == backend \in [active : BOOLEAN, minted : 0..MaxSessions,
                          tickets : 0..MaxTickets, expired : SUBSET Sessions]

TypeInv ==
    /\ ScreensOK /\ Attached /\ CallsOK /\ SeenOK /\ BusOK /\ BackendOK
    /\ token \in Sessions \cup {None}
    /\ vm \in ViewModels /\ handoff \in 0..MaxTickets /\ channel \in Queues
    /\ listening \in BOOLEAN /\ restarts \in 0..MaxRestarts /\ dropped \in BOOLEAN

-----------------------------------------------------------------------------
(* Sequences of screens *)

LEMMA LastIn ==
  ASSUME NEW s \in Seq(Screens), s # <<>>
  PROVE  Last(s) \in ToSet(s) /\ ToSet(s) \subseteq Screens
<1>1. Len(s) \in Nat \ {0} /\ DOMAIN s = 1..Len(s)
  BY EmptySeq, LenProperties
<1>2. \A i \in 1..Len(s) : s[i] \in Screens
  BY ElementOfSeq
<1> QED
  BY <1>1, <1>2 DEF Last, ToSet

LEMMA AppendScreen ==
  ASSUME NEW s \in Seq(Screens), NEW x \in Screens
  PROVE  /\ Append(s, x) \in Seq(Screens) /\ Append(s, x) # <<>>
         /\ ToSet(Append(s, x)) = ToSet(s) \cup {x} /\ Last(Append(s, x)) = x
<1> DEFINE t == Append(s, x)
<1>1. /\ t \in Seq(Screens) /\ Len(t) = Len(s) + 1
      /\ \A i \in 1..Len(s) : t[i] = s[i]
      /\ t[Len(s) + 1] = x
  BY SMT
<1>2. DOMAIN s = 1..Len(s) /\ DOMAIN t = 1..(Len(s) + 1) /\ Len(s) \in Nat
  BY <1>1, LenProperties
<1>3. t # <<>>
  BY <1>1, <1>2, EmptySeq
<1>4. ToSet(t) = ToSet(s) \cup {x}
  <2>1. ASSUME NEW y \in ToSet(t) PROVE y \in ToSet(s) \cup {x}
    <3>1. PICK i \in DOMAIN t : y = t[i]
      BY <2>1 DEF ToSet
    <3>2. CASE i = Len(s) + 1
      BY <3>1, <3>2, <1>1
    <3>3. CASE i \in 1..Len(s)
      BY <3>1, <3>3, <1>1, <1>2 DEF ToSet
    <3> HIDE DEF t
    <3> QED
      BY <3>1, <3>2, <3>3, <1>2
  <2>2. ASSUME NEW y \in ToSet(s) PROVE y \in ToSet(t)
    <3>1. PICK i \in DOMAIN s : y = s[i]
      BY <2>2 DEF ToSet
    <3> HIDE DEF t
    <3>2. i \in DOMAIN t /\ t[i] = y
      BY <3>1, <1>1, <1>2
    <3> QED
      BY <3>2 DEF ToSet
  <2>3. x \in ToSet(t)
    <3> HIDE DEF t
    <3> QED
      BY <1>1, <1>2 DEF ToSet
  <2> QED
    BY <2>1, <2>2, <2>3
<1> HIDE DEF t
<1>5. Last(t) = x
  BY <1>1 DEF Last
<1> QED
  BY <1>1, <1>3, <1>4, <1>5 DEF t

LEMMA PrefixScreens ==
  ASSUME NEW s \in Seq(Screens), NEW n \in Nat, n <= Len(s)
  PROVE  /\ SubSeq(s, 1, n) \in Seq(Screens) /\ Len(SubSeq(s, 1, n)) = n
         /\ \A i \in 1..n : SubSeq(s, 1, n)[i] = s[i]
         /\ ToSet(SubSeq(s, 1, n)) \subseteq ToSet(s)
<1>1. Len(s) \in Nat /\ DOMAIN s = 1..Len(s)
  BY LenProperties
<1>2. \A i \in 1..n : s[i] \in Screens
  BY <1>1, ElementOfSeq
<1> DEFINE t == SubSeq(s, 1, n)
<1>3. /\ t \in Seq(Screens)
      /\ Len(t) = IF 1 <= n THEN n - 1 + 1 ELSE 0
      /\ \A i \in 1..(n - 1 + 1) : t[i] = s[1 + i - 1]
  BY <1>2, SubSeqProperties
<1> HIDE DEF t
<1>4. Len(t) = n /\ \A i \in 1..n : t[i] = s[i]
  BY <1>3
<1>5. DOMAIN t = 1..n
  BY <1>3, <1>4, LenProperties
<1>6. ToSet(t) \subseteq ToSet(s)
  BY <1>1, <1>4, <1>5 DEF ToSet
<1> QED
  BY <1>3, <1>4, <1>6 DEF t

LEMMA FrontScreens ==
  ASSUME NEW s \in Seq(Screens), Len(s) > 1
  PROVE  /\ Front(s) \in Seq(Screens) /\ Front(s) # <<>>
         /\ ToSet(Front(s)) \subseteq ToSet(s)
<1>0. Len(s) \in Nat
  BY LenProperties
<1>1. \A n \in Nat : n > 1 => n - 1 \in Nat /\ n - 1 <= n /\ n - 1 # 0
  OBVIOUS
<1>2. Front(s) \in Seq(Screens) /\ Len(Front(s)) = Len(s) - 1 /\ ToSet(Front(s)) \subseteq ToSet(s)
  BY <1>0, <1>1, PrefixScreens DEF Front
<1> QED
  BY <1>0, <1>1, <1>2, EmptySeq

LEMMA BelowScreens ==
  ASSUME stack \in Seq(Screens), NEW x
  PROVE  Below(x) \in Seq(Screens) /\ ToSet(Below(x)) \subseteq ToSet(stack)
<1>1. CASE x \in ToSet(stack)
  <2> DEFINE i == CHOOSE i \in DOMAIN stack : stack[i] = x
  <2>1. i \in DOMAIN stack
    BY <1>1 DEF ToSet
  <2> HIDE DEF i
  <2>2. i - 1 \in Nat /\ i - 1 <= Len(stack)
    BY <2>1, LenProperties
  <2>3. Below(x) = SubSeq(stack, 1, i - 1)
    BY <1>1 DEF Below, i
  <2> QED
    BY <2>2, <2>3, PrefixScreens
<1>2. CASE x \notin ToSet(stack)
  BY <1>2 DEF Below
<1> QED
  BY <1>1, <1>2

-----------------------------------------------------------------------------
(* View models, calls and channels *)

LEMMA FreshOK == Fresh \in ViewModels
<1>1. Ready("", "") \in OtpType
  BY DEF Ready, OtpType
<1>2. [ticket |-> None, selected |-> FALSE, submitting |-> FALSE]
        \in [ticket : 0..MaxTickets, selected : BOOLEAN, submitting : BOOLEAN]
  BY ClientBoundsAssumption DEF None
<1>3. [loaded |-> FALSE, confirm |-> "-"]
        \in [loaded : BOOLEAN, confirm : {"-", "own", "other"}]
  OBVIOUS
<1> QED
  BY <1>1, <1>2, <1>3 DEF Fresh, ViewModels

LEMMA OtpStates ==
  ASSUME NEW code \in {"", "full"}, NEW error \in {"", "refused", "other"}
  PROVE  Ready(code, error) \in OtpType /\ Submitting \in OtpType
BY DEF Ready, Submitting, OtpType

LEMMA NewCall ==
  ASSUME NEW by \in Screens, NEW kind \in Kinds, NEW arg \in Args,
         Owner(Call(by, kind, arg))
  PROVE  CallOK(Call(by, kind, arg)) /\ Call(by, kind, arg).by = by
         /\ Call(by, kind, arg).kind = kind /\ Call(by, kind, arg).reply = "queued"
<1>1. 0 \in 0..MaxCalls
  BY ClientBoundsAssumption
<1> QED
  BY <1>1 DEF Call, CallOK, CallType, Pending, Replies, None

(* A call that is launched is one like c.                                  *)
Alike(d, c) == /\ d.by = c.by /\ d.kind = c.kind /\ d.arg = c.arg
               /\ d.jwt = c.jwt /\ d.reply = c.reply /\ d.got = c.got

LEMMA LaunchOK ==
  ASSUME NEW c, CallOK(c), NEW cs, Launch(c, cs)
  PROVE  \E d : CallOK(d) /\ Alike(d, c) /\ calls' = cs \cup {d}
<1>1. PICK n \in 0..MaxCalls : calls' = cs \cup {[c EXCEPT !.no = n]}
  BY DEF Launch
<1> DEFINE d == [c EXCEPT !.no = n]
<1>2. d \in CallType /\ Alike(d, c)
  BY DEF CallOK, CallType, Alike
<1> HIDE DEF d
<1>3. CallOK(d)
  BY <1>2 DEF CallOK, Owner, Alike
<1> QED
  BY <1>1, <1>2, <1>3 DEF d

LEMMA FirstCallsOK ==
  ASSUME NEW x \in Screens, NEW c \in FirstCalls(x)
  PROVE  /\ CallOK(c) /\ c.by = x /\ c.kind \in {"me", "list"} /\ c.reply = "queued"
         /\ x \in MainScreens
<1>1. CASE x = "devices"
  <2>1. c = Call("devices", "list", "-")
    BY <1>1 DEF FirstCalls
  <2>2. Owner(Call("devices", "list", "-"))
    BY DEF Owner, Call
  <2> QED
    BY <1>1, <2>1, <2>2, NewCall DEF Screens, MainScreens, Kinds, Args
<1>2. CASE x # "devices"
  <2>1. x \in MainScreens /\ c = Call(x, "me", "-")
    BY <1>2 DEF FirstCalls
  <2>2. Owner(Call(x, "me", "-"))
    BY <1>2, <2>1 DEF Owner, Call, MainScreens
  <2> QED
    BY <2>1, <2>2, NewCall DEF Screens, MainScreens, Kinds, Args
<1> QED
  BY <1>1, <1>2

(* What Keep leaves of view models, calls and events. *)
LEMMA KeepOK ==
  ASSUME NEW alive, NEW v \in ViewModels, NEW cs, NEW ch \in Queues, NEW lost \in BOOLEAN,
         \A c \in cs : CallOK(c), dropped \in BOOLEAN, Keep(alive, v, cs, ch, lost)
  PROVE  /\ vm' \in ViewModels
         /\ \A c \in calls' : c \in cs /\ CallOK(c) /\ c.by \in alive
         /\ channel' \in Queues /\ dropped' \in BOOLEAN
<1>1. vm' \in ViewModels
  BY FreshOK DEF Keep, ViewModels
<1>2. channel' \in Queues
  BY EmptySeq DEF Keep, Queues
<1> QED
  BY <1>1, <1>2 DEF Keep

(* The variables Restack sets, and those it says nothing about. *)
Surroundings ==
    /\ SeenOK /\ BusOK /\ BackendOK
    /\ token \in Sessions \cup {None} /\ handoff \in 0..MaxTickets
    /\ listening \in BOOLEAN /\ restarts \in 0..MaxRestarts

LEMMA RestackOK ==
  ASSUME ScreensOK, dropped \in BOOLEAN,
         NEW s \in Seq(Screens), s # <<>>, NEW v \in ViewModels, NEW cs, NEW ch \in Queues,
         \A c \in cs : CallOK(c), Restack(s, v, cs, ch)
  PROVE  /\ ScreensOK' /\ CallsOK' /\ vm' \in ViewModels /\ channel' \in Queues
         /\ dropped' \in BOOLEAN
<1>1. stack' = s /\ composed' = composed \cup {Last(s)}
      /\ doomed' = (doomed \cup (ToSet(stack) \cap composed)) \ ToSet(s)
  BY DEF Restack
<1>2. Last(s) \in ToSet(s) /\ ToSet(s) \subseteq Screens
  BY LastIn
<1>3. ScreensOK'
  BY <1>1, <1>2 DEF ScreensOK
<1>4. /\ vm' \in ViewModels /\ channel' \in Queues /\ dropped' \in BOOLEAN
      /\ \A c \in calls' : CallOK(c) /\ c.by \in ToSet(s) \cup doomed'
  <2> DEFINE alive == ToSet(s) \cup doomed'
  <2>1. Keep(alive, v, cs, ch, FALSE)
    BY DEF Restack
  <2> HIDE DEF alive
  <2> QED
    BY <2>1, KeepOK DEF alive
<1>5. CallsOK'
  BY <1>1, <1>4 DEF CallsOK
<1> QED
  BY <1>3, <1>4, <1>5

LEMMA PopOK ==
  ASSUME TypeInv, NEW s \in Seq(Screens), s # <<>>, Pop(s)
  PROVE  /\ ScreensOK' /\ CallsOK' /\ SeenOK' /\ vm' \in ViewModels /\ channel' \in Queues
         /\ dropped' \in BOOLEAN
<1>1. Restack(s, vm, calls, channel) /\ SeenOK'
  BY DEF Pop, TypeInv, SeenOK
<1>2. \A c \in calls : CallOK(c)
  BY DEF TypeInv, CallsOK
<1> QED
  BY <1>1, <1>2, RestackOK DEF TypeInv

LEMMA PushOK ==
  ASSUME TypeInv, NEW s \in Seq(Screens), NEW x \in Screens, NEW ch \in Queues, Push(s, x, ch)
  PROVE  /\ ScreensOK' /\ CallsOK' /\ SeenOK' /\ vm' \in ViewModels /\ channel' \in Queues
         /\ dropped' \in BOOLEAN
<1> DEFINE v == [y \in DOMAIN vm |-> IF y = x THEN Fresh[y] ELSE vm[y]]
           cs == {c \in calls : c.by # x} \cup FirstCalls(x)
           q == [y \in Channels |-> IF y = x THEN <<>> ELSE ch[y]]
<1>1. Restack(Append(s, x), v, cs, q) /\ SeenOK'
  BY DEF Push, TypeInv, SeenOK
<1>2. v \in ViewModels
  BY FreshOK DEF ViewModels, TypeInv
<1>3. q \in Queues
  BY EmptySeq DEF Queues
<1>4. \A c \in cs : CallOK(c)
  BY FirstCallsOK DEF TypeInv, CallsOK
<1>5. Append(s, x) \in Seq(Screens) /\ Append(s, x) # <<>>
  BY AppendScreen
<1> HIDE DEF v, cs, q
<1> QED
  BY <1>1, <1>2, <1>3, <1>4, <1>5, RestackOK DEF TypeInv

-----------------------------------------------------------------------------
(* The network *)

LEMMA CallTypes ==
  ASSUME NEW c \in CallType
  PROVE  /\ c.by \in Screens /\ c.kind \in Kinds /\ c.arg \in Args
         /\ c.jwt \in Sessions \cup {None} /\ c.got \in Nat
         /\ c.reply \in Pending \cup Replies
BY DEF CallType

LEMMA BusTypes ==
  ASSUME BusOK, bus # <<>>
  PROVE  RaisedType(Head(bus))
BY DEF BusOK

LEMMA EmitOK ==
  ASSUME BusOK, dropped \in BOOLEAN, \A d \in calls : CallOK(d),
         NEW event \in Events, NEW c \in calls, Emit(event, c)
  PROVE  BusOK' /\ dropped' \in BOOLEAN
<1>1. RaisedType(Raised(event, c))
  <2>1. {d \in calls \ {c} : d.reply \in Replies} \subseteq CallType
    BY DEF CallOK
  <2>2. c.kind \in Kinds /\ c.jwt \in Sessions \cup {None}
    BY CallTypes DEF CallOK
  <2> QED
    BY <2>1, <2>2 DEF RaisedType, Raised
<1>2. bus' = <<Raised(event, c)>> \/ bus' = bus
  BY DEF Emit
<1>3. CASE bus' = <<Raised(event, c)>>
  <2>1. BusOK'
    <3> DEFINE e == Raised(event, c)
    <3>1. bus' = <<e>> /\ RaisedType(e)
      BY <1>1, <1>3
    <3> HIDE DEF e
    <3> QED
      BY <3>1 DEF BusOK
  <2> QED
    BY <2>1 DEF Emit
<1>4. CASE bus' = bus
  BY <1>4 DEF BusOK, Emit
<1> QED
  BY <1>2, <1>3, <1>4

LEMMA AttachOK ==
  ASSUME NEW c, CallOK(c), token \in Sessions \cup {None}
  PROVE  LET d == [c EXCEPT !.jwt = token, !.reply = "sent"] IN
           CallOK(d) /\ d.by = c.by /\ d.kind = c.kind /\ d.jwt = token
BY DEF CallOK, CallType, Owner, Pending, Replies

LEMMA AttachTypes ==
  ASSUME TypeInv, NEW c \in calls, Attach(c)
  PROVE  TypeInv'
<1>1. CallOK(c) /\ c.by \in ToSet(stack) \cup doomed
  BY DEF TypeInv, CallsOK
<1> DEFINE d == [c EXCEPT !.jwt = token, !.reply = "sent"]
<1>2. CallOK(d) /\ d.by = c.by
  BY <1>1, AttachOK DEF TypeInv
<1>3. calls' = (calls \ {c}) \cup {d} /\ UNCHANGED <<stack, doomed>>
  BY DEF Attach
<1> HIDE DEF d
<1>4. CallsOK'
  BY <1>1, <1>2, <1>3 DEF TypeInv, CallsOK
<1>5. UNCHANGED <<token, stack, composed, doomed, vm, seen, handoff, channel, bus, listening,
                  backend, restarts, dropped>>
  BY DEF Attach
<1> QED
  BY <1>4, <1>5 DEF TypeInv, ScreensOK, Attached, SeenOK, BusOK, BackendOK

(* Only the calls that sign in make tokens, and only a verification makes  *)
(* tickets or reports the cap.                                             *)
LEMMA Answers ==
  ASSUME NEW c, CallOK(c), NEW reply \in AnswersTo(c)
  PROVE  /\ reply \in Replies
         /\ reply = "cap" => c.kind = "verify"
         /\ reply = "401" /\ c.kind = "verify" => c.arg = "phone"
         /\ c.kind = "request" => reply \in {"ok", "failed"}
         /\ reply = "403" => c.kind \notin SignInKinds
         /\ c.kind \notin SignInKinds => reply \in {"ok", "401", "403", "failed"}
<1>1. c.kind \in Kinds
  BY CallTypes DEF CallOK
<1>2. Principal(c.jwt) \in {"ok", "401", "403"}
  BY DEF Principal
<1>3. CASE c.kind \in SignInKinds
  BY <1>1, <1>3 DEF AnswersTo, Kinds, Replies, SignInKinds
<1>4. CASE c.kind \notin SignInKinds
  BY <1>1, <1>2, <1>4 DEF AnswersTo, Kinds, Replies, SignInKinds
<1> QED
  BY <1>3, <1>4

LEMMA AnsweredOK ==
  ASSUME TypeInv, NEW c \in calls, NEW reply \in Replies, Answer(c, reply)
  PROVE  /\ BackendOK'
         /\ \E got \in Nat :
              LET d == [c EXCEPT !.reply = reply, !.got = got] IN
                calls' = (calls \ {c}) \cup {d} /\ CallOK(d)
<1>1. CallOK(c) /\ reply \in AnswersTo(c)
  BY DEF TypeInv, CallsOK, Answer
<1>2. reply = "cap" => c.kind = "verify"
  BY <1>1, Answers
<1>3. /\ SignsIn(c, reply) => backend.minted < MaxSessions
      /\ reply = "cap" => backend.tickets < MaxTickets
      /\ backend' =
         CASE SignsIn(c, reply) -> [backend EXCEPT !.active = TRUE, !.minted = @ + 1]
           [] reply = "cap" -> [backend EXCEPT !.tickets = @ + 1]
           [] c.arg = "own" /\ reply = "ok" -> [backend EXCEPT !.active = FALSE]
           [] OTHER -> backend
  BY DEF Answer
<1>4. backend.minted \in 0..MaxSessions /\ backend.tickets \in 0..MaxTickets
      /\ MaxSessions \in Nat /\ MaxTickets \in Nat
  BY ClientBoundsAssumption DEF TypeInv, BackendOK
<1>5. /\ BackendOK'
      /\ SignsIn(c, reply) => backend'.minted \in Sessions
      /\ reply = "cap" => backend'.tickets \in 1..MaxTickets
  <2>1. CASE SignsIn(c, reply)
    <3>1. reply # "cap" /\ c.arg # "own"
      BY <1>1, <2>1 DEF SignsIn, CallOK, Owner
    <3>2. backend' = [backend EXCEPT !.active = TRUE, !.minted = @ + 1]
      BY <1>3, <2>1, <3>1
    <3>3. backend.minted + 1 \in 1..MaxSessions /\ backend.minted + 1 \in 0..MaxSessions
      BY <1>3, <1>4, <2>1
    <3>4. backend'.minted = backend.minted + 1
      BY <3>2 DEF TypeInv, BackendOK
    <3>5. BackendOK'
      BY <3>2, <3>3 DEF TypeInv, BackendOK
    <3> QED
      BY <3>1, <3>3, <3>4, <3>5 DEF Sessions
  <2>2. CASE reply = "cap"
    <3>1. ~SignsIn(c, reply)
      BY <2>2 DEF SignsIn
    <3>2. backend' = [backend EXCEPT !.tickets = @ + 1]
      BY <1>3, <2>2, <3>1
    <3>3. backend.tickets + 1 \in 1..MaxTickets
      BY <1>3, <1>4, <2>2
    <3> QED
      BY <3>1, <3>2, <3>3 DEF TypeInv, BackendOK
  <2>3. CASE ~SignsIn(c, reply) /\ reply # "cap"
    <3>1. backend' = [backend EXCEPT !.active = FALSE] \/ backend' = backend
      BY <1>3, <2>3
    <3> QED
      BY <2>3, <3>1 DEF TypeInv, BackendOK
  <2> QED
    BY <2>1, <2>2, <2>3
<1> DEFINE g == IF SignsIn(c, reply) THEN backend'.minted
                ELSE IF reply = "cap" THEN backend'.tickets ELSE 0
<1>6. calls' = (calls \ {c}) \cup {[c EXCEPT !.reply = reply, !.got = g]}
  BY DEF Answer
<1>7. /\ g \in Nat
      /\ SignsIn(c, reply) => g \in Sessions
      /\ reply = "cap" => g \in 1..MaxTickets
  BY <1>4, <1>5 DEF SignsIn, Sessions
<1> HIDE DEF g
<1>8. PICK got \in Nat : got = g
  BY <1>7
<1> DEFINE d == [c EXCEPT !.reply = reply, !.got = got]
<1>9. CallOK(d)
  <2>1. d \in CallType /\ d.reply = reply /\ d.got = got /\ d.kind = c.kind /\ d.by = c.by
         /\ d.arg = c.arg
    BY <1>1 DEF CallOK, CallType
  <2> HIDE DEF d
  <2> QED
    BY <1>1, <1>2, <1>7, <1>8, <2>1 DEF CallOK, Owner, SignsIn
<1> QED
  BY <1>5, <1>6, <1>8, <1>9

LEMMA InspectOK ==
  ASSUME TypeInv, NEW c \in calls, NEW reply, Inspect(c, reply)
  PROVE  BusOK' /\ dropped' \in BOOLEAN
<1>1. \A d \in calls : CallOK(d)
  BY DEF TypeInv, CallsOK
<1>2. CASE Emit("TokenExpired", c) \/ Emit("DeviceDeactivated", c)
  BY <1>1, <1>2, EmitOK DEF TypeInv, Events
<1>3. CASE UNCHANGED <<bus, dropped>>
  BY <1>3 DEF TypeInv, BusOK
<1> QED
  BY <1>2, <1>3 DEF Inspect

LEMMA AnswerTypes ==
  ASSUME TypeInv, NEW c \in calls, NEW reply \in Replies, Answer(c, reply)
  PROVE  TypeInv'
<1>1. CallsOK' /\ BackendOK'
  <2>1. BackendOK' /\ UNCHANGED <<stack, doomed>>
    BY AnsweredOK DEF Answer
  <2>2. PICK got \in Nat :
          LET d == [c EXCEPT !.reply = reply, !.got = got] IN
            calls' = (calls \ {c}) \cup {d} /\ CallOK(d)
    BY AnsweredOK
  <2> DEFINE d == [c EXCEPT !.reply = reply, !.got = got]
  <2>3. c.by \in ToSet(stack) \cup doomed /\ d.by = c.by
    BY DEF TypeInv, CallsOK, CallOK, CallType
  <2>4. calls' = (calls \ {c}) \cup {d} /\ CallOK(d)
    BY <2>2
  <2> HIDE DEF d
  <2> QED
    BY <2>1, <2>3, <2>4 DEF TypeInv, CallsOK
<1>2. BusOK' /\ dropped' \in BOOLEAN
  BY InspectOK DEF Answer
<1>3. UNCHANGED <<token, stack, composed, doomed, vm, seen, handoff, channel, listening, restarts>>
  BY DEF Answer
<1> QED
  BY <1>1, <1>2, <1>3 DEF TypeInv, ScreensOK, Attached, SeenOK

LEMMA ExternalTypes ==
  ASSUME TypeInv, ForceDeactivate \/ \E t \in Sessions : Expire(t)
  PROVE  TypeInv'
<1>1. BackendOK'
  <2>1. CASE ForceDeactivate
    BY <2>1 DEF ForceDeactivate, TypeInv, BackendOK
  <2>2. CASE \E t \in Sessions : Expire(t)
    BY <2>2 DEF Expire, TypeInv, BackendOK
  <2> QED
    BY <2>1, <2>2
<1>2. UNCHANGED <<token, stack, composed, doomed, vm, seen, handoff, channel, calls, bus,
                  listening, restarts, dropped>>
  BY DEF ForceDeactivate, Expire
<1> QED
  BY <1>1, <1>2 DEF TypeInv, ScreensOK, Attached, CallsOK, SeenOK, BusOK

-----------------------------------------------------------------------------
(* The main thread *)

LEMMA PostOK ==
  ASSUME channel \in Queues, NEW x \in Channels, NEW n \in 0..MaxTickets, Post(x, n)
  PROVE  channel' \in Queues
BY DEF Post, Queues

LEMMA FewerCalls ==
  ASSUME CallsOK, calls' \subseteq calls, UNCHANGED <<stack, doomed>>
  PROVE  CallsOK'
BY DEF CallsOK

(* The variables that a resumed coroutine may set. *)
Resumed ==
    /\ CallsOK /\ BusOK /\ vm \in ViewModels /\ channel \in Queues
    /\ token \in Sessions \cup {None} /\ dropped \in BOOLEAN

LEMMA CodeRequestedTypes ==
  ASSUME TypeInv, NEW c \in calls, CodeRequested(c), UNCHANGED <<stack, doomed>>
  PROVE  Resumed'
<1>1. c.by = "phone_entry" /\ 0 \in 0..MaxTickets
  BY ClientBoundsAssumption DEF TypeInv, CallsOK, CallOK, Owner, CodeRequested
<1>2. channel' \in Queues
  BY <1>1, PostOK DEF TypeInv, CodeRequested, CodeSent, Channels
<1>3. CallsOK'
  BY FewerCalls DEF TypeInv, CodeRequested, Done
<1>4. vm' \in ViewModels
  BY DEF TypeInv, CodeRequested, ViewModels
<1>5. UNCHANGED <<token, bus, dropped>>
  BY DEF CodeRequested
<1> QED
  BY <1>2, <1>3, <1>4, <1>5 DEF Resumed, TypeInv, BusOK

LEMMA SignInAcceptedTypes ==
  ASSUME TypeInv, NEW c \in calls, SignInAccepted(c), UNCHANGED <<stack, doomed>>
  PROVE  Resumed'
<1>1. /\ c.by \in {"otp_entry", "device_cap_reached"} /\ c.got \in Sessions
      /\ 0 \in 0..MaxTickets
  BY ClientBoundsAssumption DEF TypeInv, CallsOK, CallOK, Owner, SignInAccepted, Done
<1>2. channel' \in Queues
  BY <1>1, PostOK DEF TypeInv, SignInAccepted, SignedIn, Channels
<1>3. CallsOK'
  BY FewerCalls DEF TypeInv, SignInAccepted, Done
<1>4. token' = c.got /\ UNCHANGED <<vm, bus, dropped>>
  BY DEF SignInAccepted
<1> QED
  BY <1>1, <1>2, <1>3, <1>4 DEF Resumed, TypeInv, BusOK

LEMMA CapReachedTypes ==
  ASSUME TypeInv, NEW c \in calls, CapReached(c), UNCHANGED <<stack, doomed>>
  PROVE  Resumed'
<1>1. c.by = "otp_entry" /\ c.got \in 0..MaxTickets
  BY ClientBoundsAssumption DEF TypeInv, CallsOK, CallOK, Owner, CapReached, Done
<1>2. channel' \in Queues
  BY <1>1, PostOK DEF TypeInv, CapReached, Channels
<1>3. CallsOK'
  BY FewerCalls DEF TypeInv, CapReached, Done
<1>4. UNCHANGED <<token, vm, bus, dropped>>
  BY DEF CapReached
<1> QED
  BY <1>2, <1>3, <1>4 DEF Resumed, TypeInv, BusOK

LEMMA FailureTypes ==
  ASSUME TypeInv, NEW c \in calls, VerifyFailed(c) \/ RemedyFailed(c) \/ Loaded(c)
                                   \/ DeactivationFailed(c),
         UNCHANGED <<stack, doomed>>
  PROVE  Resumed'
<1>1. calls' \subseteq calls /\ UNCHANGED <<token, channel, bus, dropped>>
  BY DEF VerifyFailed, RemedyFailed, Loaded, DeactivationFailed, Done
<1>2. vm' \in ViewModels
  <2>1. CASE VerifyFailed(c)
    <3>1. Ready("full", "refused") \in OtpType /\ Ready("full", "other") \in OtpType
      BY OtpStates
    <3> QED
      BY <2>1, <3>1 DEF VerifyFailed, ViewModels, TypeInv
  <2>2. CASE RemedyFailed(c)
    BY <2>2 DEF RemedyFailed, ViewModels, TypeInv
  <2>3. CASE Loaded(c)
    BY <2>3 DEF Loaded, ViewModels, TypeInv
  <2>4. CASE DeactivationFailed(c)
    BY <2>4 DEF DeactivationFailed, ViewModels, TypeInv
  <2> QED
    BY <2>1, <2>2, <2>3, <2>4
<1>3. CallsOK'
  BY <1>1, FewerCalls DEF TypeInv
<1> QED
  BY <1>1, <1>2, <1>3 DEF Resumed, TypeInv, BusOK

LEMMA DeactivatedTypes ==
  ASSUME TypeInv, NEW c \in calls, Deactivated(c), UNCHANGED <<stack, doomed>>
  PROVE  Resumed'
<1>1. CASE c.arg = "own"
  <2>1. calls' \subseteq calls /\ token' = None /\ Emit("DeviceDeactivated", c)
        /\ UNCHANGED <<vm, channel>>
    BY <1>1 DEF Deactivated
  <2>2. \A d \in calls : CallOK(d)
    BY DEF TypeInv, CallsOK
  <2>3. BusOK' /\ dropped' \in BOOLEAN
    BY <2>1, <2>2, EmitOK DEF TypeInv, Events
  <2>4. CallsOK'
    BY <2>1, FewerCalls DEF TypeInv
  <2> QED
    BY <2>1, <2>3, <2>4 DEF TypeInv, Resumed
<1>2. CASE c.arg = "other"
  <2>1. /\ vm' = [vm EXCEPT !.devices.confirm = "-"]
        /\ Launch(Call("devices", "list", "-"), calls \ {c})
        /\ UNCHANGED <<token, bus, dropped, channel>>
    BY <1>2 DEF Deactivated
  <2>2. c.by = "devices" /\ c.by \in ToSet(stack) \cup doomed
    BY DEF TypeInv, CallsOK, CallOK, Owner, Deactivated
  <2>3. Call("devices", "list", "-") \in FirstCalls("devices") /\ "devices" \in Screens
    BY DEF FirstCalls, Screens, MainScreens
  <2>4. CallsOK'
    <3> DEFINE e == Call("devices", "list", "-")
    <3>1. CallOK(e) /\ e.by = "devices" /\ Launch(e, calls \ {c})
      BY <2>1, <2>3, FirstCallsOK
    <3> HIDE DEF e
    <3>2. PICK d : CallOK(d) /\ d.by = "devices" /\ calls' = (calls \ {c}) \cup {d}
      BY <3>1, LaunchOK DEF Alike
    <3> QED
      BY <2>2, <3>2 DEF TypeInv, CallsOK
  <2>5. vm' \in ViewModels
    BY <2>1 DEF TypeInv, ViewModels
  <2> QED
    BY <2>1, <2>4, <2>5 DEF TypeInv, Resumed, BusOK
<1> QED
  BY <1>1, <1>2 DEF Deactivated

LEMMA ResumeTypes ==
  ASSUME TypeInv, NEW c \in calls, Resume(c)
  PROVE  TypeInv'
<1>1. UNCHANGED <<stack, composed, doomed, seen, handoff, listening, backend, restarts>>
  BY DEF Resume
<1>2. Resumed'
  BY <1>1, CodeRequestedTypes, SignInAcceptedTypes, CapReachedTypes, FailureTypes,
     DeactivatedTypes DEF Resume
<1> QED
  BY <1>1, <1>2 DEF TypeInv, Resumed, ScreensOK, Attached, SeenOK, BackendOK

(* After a navigation, everything but the variables Push and Pop set.      *)
LEMMA Navigated ==
  ASSUME TypeInv, listening, ScreensOK', CallsOK', SeenOK', vm' \in ViewModels, channel' \in Queues,
         dropped' \in BOOLEAN, token' \in {token, None}, handoff' \in 0..MaxTickets,
         bus' = bus \/ bus' = <<>>, UNCHANGED <<listening, backend, restarts>>
  PROVE  TypeInv'
BY DEF TypeInv, Attached, BusOK, BackendOK

LEMMA CollectTypes ==
  ASSUME TypeInv, NEW x \in Channels, Collect(x)
  PROVE  TypeInv'
<1>1. Rest(x) \in Queues /\ Head(channel[x]) \in 0..MaxTickets
  <2>1. channel[x] \in Seq(0..MaxTickets) /\ channel[x] # <<>>
    BY DEF TypeInv, Collect, Queues
  <2>2. Head(channel[x]) \in 0..MaxTickets /\ Tail(channel[x]) \in Seq(0..MaxTickets)
    BY <2>1, HeadTailProperties
  <2> QED
    BY <2>2 DEF TypeInv, Rest, Queues
<1>2. UNCHANGED <<token, bus, listening, backend, restarts>>
  BY DEF Collect
<1>3. PICK s \in Seq(Screens), y \in Screens : Push(s, y, Rest(x))
  BY BelowScreens DEF Collect, TypeInv, ScreensOK, Screens, MainScreens
<1>4. handoff' \in 0..MaxTickets
  BY <1>1 DEF Collect, TypeInv
<1>5. /\ ScreensOK' /\ CallsOK' /\ SeenOK' /\ vm' \in ViewModels /\ channel' \in Queues
      /\ dropped' \in BOOLEAN
  BY <1>1, <1>3, PushOK
<1> QED
  BY <1>2, <1>4, <1>5, Navigated DEF Collect, TypeInv, Attached

LEMMA SettleTypes ==
  ASSUME TypeInv, Settle
  PROVE  TypeInv'
<1>1. /\ composed' = {Top} /\ doomed' = {} /\ SeenOK'
      /\ Keep(ToSet(stack), vm, calls, channel, FALSE)
      /\ UNCHANGED <<token, stack, handoff, bus, listening, backend, restarts>>
  BY DEF Settle, TypeInv, SeenOK
<1>2. \A c \in calls : CallOK(c)
  BY DEF TypeInv, CallsOK
<1> DEFINE alive == ToSet(stack)
<1>3. /\ vm' \in ViewModels /\ channel' \in Queues /\ dropped' \in BOOLEAN
      /\ \A c \in calls' : CallOK(c) /\ c.by \in alive
  <2>1. Keep(alive, vm, calls, channel, FALSE)
    BY <1>1
  <2> HIDE DEF alive
  <2> QED
    BY <1>2, <2>1, KeepOK DEF TypeInv
<1>4. CallsOK' /\ ScreensOK'
  BY <1>1, <1>3, LastIn DEF TypeInv, ScreensOK, CallsOK, Top
<1> QED
  BY <1>1, <1>3, <1>4 DEF Settle, TypeInv, Attached, BusOK, BackendOK

LEMMA ComposeCapTypes ==
  ASSUME TypeInv, ComposeCap
  PROVE  TypeInv'
<1>1. UNCHANGED <<token, bus, listening, backend, restarts>>
  BY DEF ComposeCap
<1>2. 0 \in 0..MaxTickets
  BY ClientBoundsAssumption
<1>3. CASE handoff # None
  <2>1. /\ vm' = [vm EXCEPT !.device_cap_reached =
                            [Fresh.device_cap_reached EXCEPT !.ticket = handoff]]
        /\ handoff' = None
        /\ UNCHANGED <<stack, composed, doomed, seen, channel, calls, dropped>>
    BY <1>3 DEF ComposeCap
  <2>2. vm' \in ViewModels
    BY <2>1, FreshOK DEF TypeInv, ViewModels
  <2> QED
    BY <1>1, <1>2, <2>1, <2>2 DEF TypeInv, ScreensOK, Attached, CallsOK, SeenOK, BusOK, BackendOK, None
<1>4. CASE handoff = None
  <2>1. Len(stack) > 1 /\ Pop(Front(stack)) /\ UNCHANGED handoff
    BY <1>4 DEF ComposeCap
  <2>2. Front(stack) \in Seq(Screens) /\ Front(stack) # <<>>
    BY <2>1, FrontScreens DEF TypeInv, ScreensOK
  <2>3. /\ ScreensOK' /\ CallsOK' /\ SeenOK' /\ vm' \in ViewModels /\ channel' \in Queues
        /\ dropped' \in BOOLEAN
    BY <2>1, <2>2, PopOK
  <2> QED
    BY <1>1, <2>1, <2>3, Navigated DEF ComposeCap, CapWaits, TypeInv, Attached
<1> QED
  BY <1>3, <1>4

LEMMA HandleEventTypes ==
  ASSUME TypeInv, HandleEvent
  PROVE  TypeInv'
<1>1. /\ listening /\ bus' = <<>> /\ token' = None /\ UNCHANGED <<handoff, listening, backend, restarts>>
      /\ \E y \in {"phone_entry", "device_deactivated"} : Push(<<>>, y, channel)
  BY DEF HandleEvent
<1>2. <<>> \in Seq(Screens) /\ {"phone_entry", "device_deactivated"} \subseteq Screens
  BY EmptySeq DEF Screens
<1>3. /\ ScreensOK' /\ CallsOK' /\ SeenOK' /\ vm' \in ViewModels /\ channel' \in Queues
      /\ dropped' \in BOOLEAN
  BY <1>1, <1>2, PushOK DEF TypeInv
<1> QED
  BY <1>1, <1>3, Navigated DEF TypeInv

LEMMA SubmitTypes ==
  ASSUME TypeInv, "otp_entry" \in ToSet(stack), NEW arg \in {"phone", "noPhone"}, Submit(arg),
         UNCHANGED <<stack, doomed>>
  PROVE  CallsOK' /\ vm' \in ViewModels
<1> DEFINE c == Call("otp_entry", "verify", arg)
<1>1. CallOK(c) /\ c.by = "otp_entry"
  <2>1. Owner(Call("otp_entry", "verify", arg))
    BY DEF Owner, Call
  <2> QED
    BY <2>1, NewCall DEF Screens, Kinds, Args
<1>2. Launch(c, calls) /\ vm' = [vm EXCEPT !.otp_entry = Submitting]
  BY DEF Submit
<1> HIDE DEF c
<1>3. CallsOK'
  <2>1. PICK d : CallOK(d) /\ d.by = "otp_entry" /\ calls' = calls \cup {d}
    BY <1>1, <1>2, LaunchOK DEF Alike
  <2> QED
    BY <2>1 DEF TypeInv, CallsOK
<1>4. Submitting \in OtpType
  BY OtpStates
<1> QED
  BY <1>2, <1>3, <1>4 DEF TypeInv, ViewModels

LEMMA RecomposeTypes ==
  ASSUME TypeInv, Recompose
  PROVE  TypeInv'
<1>1. "otp_entry" \in ToSet(stack)
  BY DEF Recompose, CodeWaits, TypeInv, ScreensOK
<1>2. UNCHANGED <<token, stack, composed, doomed, handoff, channel, bus, listening, backend,
                  restarts, dropped>>
  BY DEF Recompose
<1>3. CallsOK' /\ vm' \in ViewModels
  <2>1. CASE Submit("phone")
    BY <1>1, <1>2, <2>1, SubmitTypes
  <2>2. CASE UNCHANGED <<vm, calls, overlapped>>
    BY <1>2, <2>2, FewerCalls DEF TypeInv
  <2> QED
    BY <2>1, <2>2 DEF Recompose
<1>4. SeenOK'
  BY DEF Recompose, TypeInv, SeenOK, ViewModels
<1> QED
  BY <1>2, <1>3, <1>4 DEF TypeInv, ScreensOK, Attached, BusOK, BackendOK

-----------------------------------------------------------------------------
(* The viewer *)

(* A tap that leaves the screens alone. *)
Stays == SendCode \/ TypeCode \/ TapVerify \/ SelectDevice \/ ConfirmDevice
         \/ AskDeactivate \/ ConfirmDeactivate

LEMMA NewCalls ==
  ASSUME CallsOK, NEW c, calls' = calls \cup {c}, CallOK(c), c.by \in ToSet(stack),
         UNCHANGED <<stack, doomed>>
  PROVE  CallsOK'
BY DEF CallsOK

LEMMA StaysTypes ==
  ASSUME TypeInv, Stays, UNCHANGED <<token, handoff, bus, listening, backend, restarts>>
  PROVE  TypeInv'
<1>1. UNCHANGED <<stack, composed, doomed, seen, channel, dropped>>
  BY DEF Stays, SendCode, TypeCode, TapVerify, SelectDevice, ConfirmDevice, AskDeactivate,
         ConfirmDeactivate
<1>2. Top \in ToSet(stack)
  BY LastIn DEF TypeInv, ScreensOK, Top
<1>3. CallsOK' /\ vm' \in ViewModels
  <2>1. CASE SendCode
    <3>1. vm' \in ViewModels
      BY <2>1 DEF SendCode, TypeInv, ViewModels
    <3>2. Owner(Call("phone_entry", "request", "-"))
      BY DEF Owner, Call
    <3>3. CallOK(Call("phone_entry", "request", "-"))
          /\ Call("phone_entry", "request", "-").by = "phone_entry"
      BY <3>2, NewCall DEF Screens, Kinds, Args
    <3>4. calls' = calls \cup {Call("phone_entry", "request", "-")} /\ Top = "phone_entry"
      BY <2>1 DEF SendCode, OnScreen
    <3>5. CallsOK'
      BY <1>1, <1>2, <3>3, <3>4, NewCalls DEF TypeInv
    <3> QED
      BY <3>1, <3>5
  <2>2. CASE TypeCode \/ TapVerify
    <3>1. "otp_entry" \in ToSet(stack)
      BY <1>2, <2>2 DEF TypeCode, TapVerify, OnScreen
    <3>2. CASE Submit("phone") \/ Submit("noPhone")
      BY <1>1, <3>1, <3>2, SubmitTypes
    <3>3. CASE UNCHANGED calls /\ vm' = [vm EXCEPT !.otp_entry = Ready("", "")]
      <4>1. vm' \in ViewModels
        BY <3>3, OtpStates DEF TypeInv, ViewModels
      <4> QED
        BY <1>1, <3>3, <4>1, FewerCalls DEF TypeInv
    <3>4. CASE /\ UNCHANGED calls /\ vm.otp_entry.ui = "ready"
               /\ vm' = [vm EXCEPT !.otp_entry.error = "other"]
      <4>1. [vm.otp_entry EXCEPT !.error = "other"] \in OtpType
        BY <3>4 DEF TypeInv, ViewModels, OtpType
      <4>2. vm' \in ViewModels
        BY <3>4, <4>1 DEF TypeInv, ViewModels
      <4> QED
        BY <1>1, <3>4, <4>2, FewerCalls DEF TypeInv
    <3> QED
      BY <2>2, <3>2, <3>3, <3>4 DEF TypeCode, TapVerify
  <2>3. CASE SelectDevice
    <3>1. vm' \in ViewModels
      BY <2>3 DEF SelectDevice, TypeInv, ViewModels
    <3> QED
      BY <1>1, <2>3, <3>1, FewerCalls DEF TypeInv, SelectDevice
  <2>4. CASE ConfirmDevice
    <3>1. vm' \in ViewModels
      BY <2>4 DEF ConfirmDevice, TypeInv, ViewModels
    <3>2. Owner(Call("device_cap_reached", "remedy", "-"))
      BY DEF Owner, Call
    <3>3. CallOK(Call("device_cap_reached", "remedy", "-"))
          /\ Call("device_cap_reached", "remedy", "-").by = "device_cap_reached"
      BY <3>2, NewCall DEF Screens, Kinds, Args
    <3>4. calls' = calls \cup {Call("device_cap_reached", "remedy", "-")}
          /\ Top = "device_cap_reached"
      BY <2>4 DEF ConfirmDevice, OnScreen
    <3>5. CallsOK'
      BY <1>1, <1>2, <3>3, <3>4, NewCalls DEF TypeInv
    <3> QED
      BY <3>1, <3>5
  <2>5. CASE AskDeactivate
    <3>1. vm' \in ViewModels
      BY <2>5 DEF AskDeactivate, TypeInv, ViewModels
    <3> QED
      BY <1>1, <2>5, <3>1, FewerCalls DEF TypeInv, AskDeactivate
  <2>6. CASE ConfirmDeactivate
    <3> DEFINE d == vm.devices.confirm
    <3>1. d \in Args
      BY DEF TypeInv, ViewModels, Args
    <3>2. Launch(Call("devices", "deactivate", d), calls) /\ Top = "devices" /\ UNCHANGED vm
      BY <2>6 DEF ConfirmDeactivate, OnScreen
    <3> HIDE DEF d
    <3>3. Owner(Call("devices", "deactivate", d))
      BY DEF Owner, Call
    <3>4. CallOK(Call("devices", "deactivate", d))
          /\ Call("devices", "deactivate", d).by = "devices"
      BY <3>1, <3>3, NewCall DEF Screens, MainScreens, Kinds
    <3>5. PICK e : CallOK(e) /\ e.by = "devices" /\ calls' = calls \cup {e}
      BY <3>2, <3>4, LaunchOK DEF Alike
    <3>6. CallsOK'
      BY <1>1, <1>2, <3>2, <3>5, NewCalls DEF TypeInv
    <3> QED
      BY <3>2, <3>6 DEF TypeInv
  <2> QED
    BY <2>1, <2>2, <2>3, <2>4, <2>5, <2>6 DEF Stays
<1> QED
  BY <1>1, <1>3 DEF TypeInv, ScreensOK, Attached, SeenOK, BusOK, BackendOK

LEMMA MovesTypes ==
  ASSUME TypeInv, Back \/ CancelCap \/ Open \/ SignInAgain,
         UNCHANGED <<token, handoff, bus, listening, backend, restarts>>
  PROVE  TypeInv'
<1>1. stack \in Seq(Screens) /\ channel \in Queues
  BY DEF TypeInv, ScreensOK
<1>2. /\ ScreensOK' /\ CallsOK' /\ SeenOK' /\ vm' \in ViewModels /\ channel' \in Queues
      /\ dropped' \in BOOLEAN
  <2>1. CASE Back
    <3>1. Front(stack) \in Seq(Screens) /\ Front(stack) # <<>>
      BY <1>1, <2>1, FrontScreens DEF Back
    <3> QED
      BY <2>1, <3>1, PopOK DEF Back
  <2>2. CASE CancelCap
    <3>1. Below("phone_entry") \in Seq(Screens) /\ "phone_entry" \in Screens
      BY <1>1, BelowScreens DEF Screens
    <3>2. Append(Below("phone_entry"), "phone_entry") \in Seq(Screens)
          /\ Append(Below("phone_entry"), "phone_entry") # <<>>
      BY <3>1, AppendScreen
    <3> QED
      BY <2>2, <3>2, PopOK DEF CancelCap
  <2>3. CASE Open
    <3>1. PICK y \in {"settings", "devices"} : Push(stack, y, channel)
      BY <2>3 DEF Open
    <3>2. y \in Screens
      BY DEF Screens, MainScreens
    <3> QED
      BY <1>1, <3>1, <3>2, PushOK
  <2>4. CASE SignInAgain
    <3>1. <<>> \in Seq(Screens) /\ "phone_entry" \in Screens
      BY EmptySeq DEF Screens
    <3> QED
      BY <1>1, <2>4, <3>1, PushOK DEF SignInAgain
  <2> QED
    BY <2>1, <2>2, <2>3, <2>4
<1> QED
  BY <1>2, Navigated DEF TypeInv, Back, CancelCap, Open, SignInAgain, OnScreen, Idle

LEMMA LogoutTypes ==
  ASSUME TypeInv, Logout
  PROVE  TypeInv'
<1>1. listening /\ token' = None /\ Push(<<>>, "phone_entry", channel)
      /\ UNCHANGED <<handoff, bus, listening, backend, restarts>>
  BY DEF Logout, OnScreen, Idle
<1>2. <<>> \in Seq(Screens) /\ "phone_entry" \in Screens
  BY EmptySeq DEF Screens
<1>3. /\ ScreensOK' /\ CallsOK' /\ SeenOK' /\ vm' \in ViewModels /\ channel' \in Queues
      /\ dropped' \in BOOLEAN
  BY <1>1, <1>2, PushOK DEF TypeInv
<1> QED
  BY <1>1, <1>3, Navigated DEF TypeInv

-----------------------------------------------------------------------------
(* The platform *)

LEMMA Bounded ==
  ASSUME NEW n \in 0..MaxRestarts, n < MaxRestarts
  PROVE  n + 1 \in 0..MaxRestarts
BY ClientBoundsAssumption

LEMMA DestroyTypes ==
  ASSUME TypeInv, Destroy
  PROVE  TypeInv'
<1>1. /\ listening' = FALSE /\ restarts' = restarts + 1 /\ restarts < MaxRestarts
      /\ composed' = {} /\ doomed' = {} /\ seen' = Unseen /\ bus' = <<>>
      /\ Keep(ToSet(stack), Forget(vm), calls, channel, bus # <<>>)
      /\ UNCHANGED <<token, stack, handoff, backend>>
  BY DEF Destroy
<1>2. \A c \in calls : CallOK(c)
  BY DEF TypeInv, CallsOK
<1>3. Forget(vm) \in ViewModels
  BY ClientBoundsAssumption DEF Forget, TypeInv, ViewModels, None
<1> DEFINE alive == ToSet(stack)
           v == Forget(vm)
           lost == bus # <<>>
<1>4. /\ vm' \in ViewModels /\ channel' \in Queues /\ dropped' \in BOOLEAN
      /\ \A c \in calls' : CallOK(c) /\ c.by \in alive
  <2>1. Keep(alive, v, calls, channel, lost) /\ v \in ViewModels /\ lost \in BOOLEAN
    BY <1>1, <1>3
  <2> HIDE DEF alive, v, lost
  <2> QED
    BY <1>2, <2>1, KeepOK DEF TypeInv
<1>5. CallsOK' /\ ScreensOK' /\ SeenOK' /\ BusOK'
  BY <1>1, <1>4 DEF TypeInv, ScreensOK, Attached, CallsOK, SeenOK, BusOK
<1>6. restarts' \in 0..MaxRestarts
  BY <1>1, Bounded DEF TypeInv
<1> QED
  BY <1>1, <1>4, <1>5, <1>6 DEF TypeInv, Attached, BackendOK

LEMMA RecreateTypes ==
  ASSUME TypeInv, Recreate
  PROVE  TypeInv'
<1>1. Top \in ToSet(stack) /\ Top \in Screens
  BY LastIn DEF TypeInv, ScreensOK, Top
<1>2. doomed = {} /\ doomed' = {} /\ composed' = {Top} /\ listening'
      /\ UNCHANGED <<stack, calls>>
  BY DEF Recreate, TypeInv, ScreensOK, Attached
<1>3. ScreensOK' /\ CallsOK' /\ Attached'
  BY <1>1, <1>2 DEF TypeInv, ScreensOK, CallsOK, Attached
<1> QED
  BY <1>3 DEF Recreate, TypeInv, SeenOK, BusOK, BackendOK

LEMMA StartScreens ==
  ASSUME NEW x \in Screens
  PROVE  <<x>> \in Seq(Screens) /\ <<x>> # <<>> /\ ToSet(<<x>>) = {x} /\ Last(<<x>>) = x
<1>1. <<>> \in Seq(Screens) /\ Append(<<>>, x) = <<x>>
  OBVIOUS
<1>2. ToSet(<<>>) = {}
  BY DEF ToSet
<1> QED
  BY <1>1, <1>2, AppendScreen

LEMMA RelaunchTypes ==
  ASSUME TypeInv, Relaunch
  PROVE  TypeInv'
<1> DEFINE x == Start(token)
<1>1. /\ restarts < MaxRestarts /\ restarts' = restarts + 1
      /\ stack' = <<x>> /\ composed' = {x} /\ doomed' = {} /\ calls' = FirstCalls(x)
      /\ vm' = Fresh /\ seen' = Unseen /\ handoff' = None
      /\ channel' = [y \in Channels |-> <<>>]
      /\ bus' = <<>> /\ listening' = TRUE /\ dropped' \in BOOLEAN /\ UNCHANGED <<token, backend>>
  BY DEF Relaunch
<1>2. x \in Screens
  BY DEF Start, Screens, MainScreens
<1> HIDE DEF x
<1>3. ScreensOK' /\ CallsOK' /\ Attached'
  BY <1>1, <1>2, StartScreens, FirstCallsOK DEF ScreensOK, CallsOK, Attached
<1>4. channel' \in Queues /\ vm' \in ViewModels
  BY <1>1, EmptySeq, FreshOK DEF Queues
<1>5. restarts' \in 0..MaxRestarts
  BY <1>1, Bounded DEF TypeInv
<1>6. BusOK' /\ SeenOK' /\ BackendOK' /\ handoff' \in 0..MaxTickets
  BY <1>1, ClientBoundsAssumption DEF TypeInv, SeenOK, BusOK, BackendOK, None
<1> QED
  BY <1>1, <1>3, <1>4, <1>5, <1>6 DEF TypeInv

-----------------------------------------------------------------------------
(* The theorem *)

LEMMA TypeInit == Init => TypeInv
<1> SUFFICES ASSUME Init PROVE TypeInv
  OBVIOUS
<1>1. "phone_entry" \in Screens
  BY DEF Screens
<1>2. ScreensOK /\ CallsOK /\ Attached
  BY <1>1, StartScreens DEF Init, ScreensOK, CallsOK, Attached
<1>3. channel \in Queues /\ vm \in ViewModels
  BY EmptySeq, FreshOK DEF Init, Queues
<1>4. BusOK /\ SeenOK
  BY DEF Init, BusOK, SeenOK
<1>5. BackendOK /\ handoff \in 0..MaxTickets /\ restarts \in 0..MaxRestarts
  BY ClientBoundsAssumption DEF Init, BackendOK, None
<1> QED
  BY <1>2, <1>3, <1>4, <1>5 DEF Init, TypeInv

LEMMA TypeStep == TypeInv /\ [Next]_vars => TypeInv'
<1> SUFFICES ASSUME TypeInv, [Next]_vars PROVE TypeInv'
  OBVIOUS
<1>1. CASE MainThread
  BY <1>1, HandleEventTypes, SettleTypes, ComposeCapTypes, RecomposeTypes, CollectTypes,
     ResumeTypes DEF MainThread
<1>2. CASE Act
  BY <1>2, StaysTypes, MovesTypes DEF Act, Stays
<1>3. CASE Logout
  BY <1>3, LogoutTypes
<1>4. CASE \E c \in calls : Attach(c) \/ \E reply \in Replies : Answer(c, reply)
  BY <1>4, AttachTypes, AnswerTypes
<1>5. CASE ForceDeactivate \/ \E t \in Sessions : Expire(t)
  BY <1>5, ExternalTypes
<1>6. CASE Destroy \/ Recreate \/ Relaunch
  BY <1>6, DestroyTypes, RecreateTypes, RelaunchTypes
<1>7. CASE UNCHANGED vars
  BY <1>7 DEF vars, TypeInv, ScreensOK, CallsOK, Attached, SeenOK, BusOK, BackendOK
<1> QED
  BY <1>1, <1>2, <1>3, <1>4, <1>5, <1>6, <1>7 DEF Next

OverlapOK == overlapped \in BOOLEAN

(* Only a new process forgets that two verifications were under way.       *)
LEMMA OverlapKept ==
  ASSUME [Next]_vars, ~Relaunch
  PROVE  overlapped' = overlapped \/ overlapped' = (overlapped \/ Verifying)
<1>1. CASE MainThread
  <2>1. CASE HandleEvent \/ Settle
    BY <2>1 DEF HandleEvent, Push, Settle, Restack, Keep
  <2>2. CASE ComposeCap
    BY <2>2 DEF ComposeCap, Pop, Restack, Keep
  <2>3. CASE Recompose
    BY <2>3 DEF Recompose, Submit
  <2>4. CASE \E x \in Channels : Collect(x)
    BY <2>4 DEF Collect, Push, Restack, Keep
  <2>5. CASE \E c \in calls : Resume(c)
    BY <2>5 DEF Resume
  <2> QED
    BY <1>1, <2>1, <2>2, <2>3, <2>4, <2>5 DEF MainThread
<1>2. CASE Act
  <2>1. CASE Stays
    BY <2>1 DEF Stays, SendCode, TypeCode, TapVerify, SelectDevice, ConfirmDevice, AskDeactivate,
                ConfirmDeactivate, Submit
  <2>2. CASE Back \/ CancelCap
    BY <2>2 DEF Back, CancelCap, Pop, Restack, Keep
  <2>3. CASE Open \/ SignInAgain
    BY <2>3 DEF Open, SignInAgain, Push, Restack, Keep
  <2> QED
    BY <1>2, <2>1, <2>2, <2>3 DEF Act, Stays
<1>3. CASE Logout \/ Destroy \/ Recreate
  BY <1>3 DEF Logout, Push, Restack, Destroy, Keep, Recreate
<1>4. CASE \E c \in calls : Attach(c) \/ \E reply \in Replies : Answer(c, reply)
  BY <1>4 DEF Attach, Answer
<1>5. CASE ForceDeactivate \/ \E t \in Sessions : Expire(t)
  BY <1>5 DEF ForceDeactivate, Expire
<1>6. CASE UNCHANGED vars
  BY <1>6 DEF vars
<1> QED
  BY <1>1, <1>2, <1>3, <1>4, <1>5, <1>6 DEF Next

LEMMA OverlapStep == OverlapOK /\ [Next]_vars => OverlapOK'
<1>1. CASE Relaunch
  BY <1>1 DEF Relaunch, OverlapOK
<1>2. CASE ~Relaunch
  BY <1>2, OverlapKept DEF OverlapOK
<1> QED
  BY <1>1, <1>2

LEMMA TypeInvImplies == TypeInv /\ OverlapOK => TypeOK
<1> SUFFICES ASSUME TypeInv, OverlapOK PROVE TypeOK
  OBVIOUS
<1>1. Queues \subseteq [Channels -> Seq(Nat)]
  <2>1. \A s \in Seq(0..MaxTickets) : s \in Seq(Nat)
    BY SeqMonotonic, ClientBoundsAssumption
  <2> QED
    BY <2>1 DEF Queues
<1>2. stack \in Seq(Screens) /\ stack # <<>> /\ composed \subseteq Screens /\ doomed \subseteq composed
  BY LastIn DEF TypeInv, ScreensOK
<1>3. calls \subseteq CallType /\ \A c \in calls : c.by \in ToSet(stack) \cup doomed
  BY DEF TypeInv, CallsOK, CallOK
<1>4. /\ Len(bus) <= 1
      /\ \A i \in DOMAIN bus :
           /\ bus[i].event \in Events /\ bus[i].kind \in Kinds
           /\ bus[i].jwt \in Sessions \cup {None} /\ bus[i].before \subseteq CallType
  BY DEF TypeInv, BusOK, RaisedType
<1> QED
  BY <1>1, <1>2, <1>3, <1>4 DEF TypeInv, TypeOK, SeenOK, BackendOK, OverlapOK

(* The strengthened types hold in every state. *)
THEOREM ClientTypeInv == Spec => []TypeInv
BY TypeInit, TypeStep, PTL DEF Spec

(* Every variable keeps its type for any number of sessions, tickets, calls *)
(* and restarts; the bus never buffers a second event                       *)
(* (AuthEventBus.kt:18-20), and no call outlives the view model that waits  *)
(* for it (viewModelScope).                                                 *)
THEOREM ClientTypeCorrect == Spec => []TypeOK
<1>1. Init => OverlapOK
  BY DEF Init, OverlapOK
<1> QED
  BY <1>1, ClientTypeInv, OverlapStep, TypeInvImplies, PTL DEF Spec
=============================================================================
