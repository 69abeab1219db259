--------------------------- MODULE AndroidClientRules ---------------------------
(***************************************************************************)
(* What a session of AndroidClient owes to one rule of its screens: at     *)
(* most one step of a sign-in is under way.  The code field breaks it when *)
(* six digits are submitted while a verification runs, and from then on,   *)
(* until the process ends, nothing is claimed (overlapped).                *)
(***************************************************************************)
EXTENDS AndroidClientProofs

(* The back stacks the navigation can build. *)
AtPhone == <<"phone_entry">>
AtCode == <<"phone_entry", "otp_entry">>
AtCap == <<"phone_entry", "otp_entry", "device_cap_reached">>
AtLateCap == <<"phone_entry", "device_cap_reached">>
AtDeactivated == <<"device_deactivated">>
AtHistory == <<"signed_in">>
AtSettings == <<"signed_in", "settings">>
AtDevices == <<"signed_in", "settings", "devices">>

PhoneFirst == {AtPhone, AtCode, AtCap, AtLateCap}
Stacks == PhoneFirst \cup {AtDeactivated, AtHistory, AtSettings, AtDevices}

-----------------------------------------------------------------------------
(* The shapes of the back stack *)

LEMMA Longer ==
  ASSUME NEW s \in Seq(Screens), s # <<>>, NEW x \in Screens
  PROVE  /\ Append(s, x) \in Seq(Screens) /\ Len(Append(s, x)) = Len(s) + 1
         /\ ToSet(Append(s, x)) = ToSet(s) \cup {x} /\ Last(Append(s, x)) = x
         /\ Front(Append(s, x)) = s
<1> DEFINE t == Append(s, x)
<1>1. /\ t \in Seq(Screens) /\ Len(t) = Len(s) + 1
      /\ \A i \in 1..Len(s) : t[i] = s[i]
  OBVIOUS
<1>2. Len(s) \in Nat \ {0}
  BY EmptySeq
<1>3. Front(t) = s
  <2>1. Front(t) = SubSeq(t, 1, Len(s))
    BY <1>1, <1>2 DEF Front
  <2> HIDE DEF t
  <2>2. /\ SubSeq(t, 1, Len(s)) \in Seq(Screens) /\ Len(SubSeq(t, 1, Len(s))) = Len(s)
        /\ \A i \in 1..Len(s) : SubSeq(t, 1, Len(s))[i] = t[i]
    BY <1>1, <1>2, PrefixScreens
  <2>3. SubSeq(t, 1, Len(s)) = s
    BY <1>1, <2>2, SeqEqual
  <2> QED
    BY <2>1, <2>3
<1>4. ToSet(t) = ToSet(s) \cup {x} /\ Last(t) = x
  BY AppendScreen
<1> QED
  BY <1>1, <1>3, <1>4

LEMMA Pairs ==
  ASSUME NEW x \in Screens, NEW y \in Screens
  PROVE  Append(<<x>>, y) = <<x, y>>
<1>1. /\ <<x>> \in Seq(Screens) /\ Len(<<x>>) = 1 /\ <<x>>[1] = x
      /\ <<x, y>> \in Seq(Screens) /\ Len(<<x, y>>) = 2
      /\ <<x, y>>[1] = x /\ <<x, y>>[2] = y
  OBVIOUS
<1> DEFINE s == <<x>>
           t == <<x, y>>
<1> HIDE DEF s, t
<1>2. /\ Append(s, y) \in Seq(Screens) /\ Len(Append(s, y)) = 2
      /\ Append(s, y)[1] = x /\ Append(s, y)[2] = y
  BY <1>1 DEF s
<1>3. \A i \in 1..2 : Append(s, y)[i] = t[i]
  BY <1>1, <1>2 DEF t
<1> QED
  BY <1>1, <1>2, <1>3, SeqEqual DEF s, t

LEMMA Triples ==
  ASSUME NEW x \in Screens, NEW y \in Screens, NEW z \in Screens
  PROVE  Append(<<x, y>>, z) = <<x, y, z>>
<1>1. /\ <<x, y>> \in Seq(Screens) /\ Len(<<x, y>>) = 2
      /\ <<x, y>>[1] = x /\ <<x, y>>[2] = y
  OBVIOUS
<1>2. /\ <<x, y, z>> \in Seq(Screens) /\ Len(<<x, y, z>>) = 3
      /\ <<x, y, z>>[1] = x /\ <<x, y, z>>[2] = y /\ <<x, y, z>>[3] = z
  OBVIOUS
<1> DEFINE s == <<x, y>>
           t == <<x, y, z>>
<1> HIDE DEF s, t
<1>3. /\ Append(s, z) \in Seq(Screens) /\ Len(Append(s, z)) = 3
      /\ Append(s, z)[1] = x /\ Append(s, z)[2] = y /\ Append(s, z)[3] = z
  BY <1>1 DEF s
<1>4. \A i \in 1..3 : Append(s, z)[i] = t[i]
  BY <1>2, <1>3 DEF t
<1> QED
  BY <1>1, <1>2, <1>3, <1>4, SeqEqual DEF s, t

LEMMA Shapes ==
  /\ /\ ToSet(AtPhone) = {"phone_entry"} /\ Last(AtPhone) = "phone_entry"
     /\ Len(AtPhone) = 1 /\ Append(<<>>, "phone_entry") = AtPhone
  /\ /\ ToSet(AtCode) = {"phone_entry", "otp_entry"} /\ Last(AtCode) = "otp_entry"
     /\ Len(AtCode) = 2 /\ Front(AtCode) = AtPhone /\ Append(AtPhone, "otp_entry") = AtCode
  /\ /\ ToSet(AtCap) = {"phone_entry", "otp_entry", "device_cap_reached"}
     /\ Last(AtCap) = "device_cap_reached" /\ Len(AtCap) = 3 /\ Front(AtCap) = AtCode
     /\ Append(AtCode, "device_cap_reached") = AtCap
  /\ /\ ToSet(AtLateCap) = {"phone_entry", "device_cap_reached"}
     /\ Last(AtLateCap) = "device_cap_reached" /\ Len(AtLateCap) = 2
     /\ Front(AtLateCap) = AtPhone /\ Append(AtPhone, "device_cap_reached") = AtLateCap
  /\ /\ ToSet(AtDeactivated) = {"device_deactivated"}
     /\ Last(AtDeactivated) = "device_deactivated" /\ Len(AtDeactivated) = 1
     /\ Append(<<>>, "device_deactivated") = AtDeactivated
  /\ /\ ToSet(AtHistory) = {"signed_in"} /\ Last(AtHistory) = "signed_in"
     /\ Len(AtHistory) = 1 /\ Append(<<>>, "signed_in") = AtHistory
  /\ /\ ToSet(AtSettings) = {"signed_in", "settings"} /\ Last(AtSettings) = "settings"
     /\ Len(AtSettings) = 2 /\ Front(AtSettings) = AtHistory
     /\ Append(AtHistory, "settings") = AtSettings
  /\ /\ ToSet(AtDevices) = {"signed_in", "settings", "devices"}
     /\ Last(AtDevices) = "devices" /\ Len(AtDevices) = 3 /\ Front(AtDevices) = AtSettings
     /\ Append(AtSettings, "devices") = AtDevices
<1>0. {"phone_entry", "otp_entry", "device_cap_reached", "device_deactivated", "signed_in",
       "settings", "devices"} \subseteq Screens
  BY DEF Screens, MainScreens
<1>1. \A x \in Screens :
        /\ <<x>> \in Seq(Screens) /\ <<x>> # <<>> /\ Len(<<x>>) = 1
        /\ Append(<<>>, x) = <<x>> /\ ToSet(<<x>>) = {x} /\ Last(<<x>>) = x
  <2> SUFFICES ASSUME NEW x \in Screens
               PROVE  Len(<<x>>) = 1 /\ Append(<<>>, x) = <<x>>
    BY StartScreens
  <2> QED
    OBVIOUS
<1>2. \A x, y \in Screens :
        /\ <<x, y>> \in Seq(Screens) /\ <<x, y>> # <<>> /\ Len(<<x, y>>) = 2
        /\ Append(<<x>>, y) = <<x, y>>
        /\ ToSet(<<x, y>>) = {x, y} /\ Last(<<x, y>>) = y /\ Front(<<x, y>>) = <<x>>
  <2> SUFFICES ASSUME NEW x \in Screens, NEW y \in Screens
               PROVE  /\ <<x, y>> \in Seq(Screens) /\ <<x, y>> # <<>> /\ Len(<<x, y>>) = 2
                      /\ Append(<<x>>, y) = <<x, y>> /\ ToSet(<<x, y>>) = {x, y}
                      /\ Last(<<x, y>>) = y /\ Front(<<x, y>>) = <<x>>
    OBVIOUS
  <2>1. Append(<<x>>, y) = <<x, y>>
    BY Pairs
  <2> DEFINE s == <<x>>
  <2>2. s \in Seq(Screens) /\ s # <<>> /\ ToSet(s) = {x} /\ Len(s) = 1
    BY <1>1
  <2> HIDE DEF s
  <2>3. /\ Append(s, y) \in Seq(Screens)
        /\ Len(Append(s, y)) = 1 + 1 /\ ToSet(Append(s, y)) = {x} \cup {y}
        /\ Last(Append(s, y)) = y /\ Front(Append(s, y)) = s
    BY <2>2, Longer
  <2>4. Append(s, y) # <<>>
    BY <2>2, AppendScreen
  <2>5. 1 + 1 = 2 /\ {x} \cup {y} = {x, y}
    OBVIOUS
  <2> QED
    BY <2>1, <2>3, <2>4, <2>5 DEF s
<1>3. \A x, y, z \in Screens :
        /\ Len(<<x, y, z>>) = 3 /\ Append(<<x, y>>, z) = <<x, y, z>>
        /\ ToSet(<<x, y, z>>) = {x, y, z} /\ Last(<<x, y, z>>) = z
        /\ Front(<<x, y, z>>) = <<x, y>>
  <2> SUFFICES ASSUME NEW x \in Screens, NEW y \in Screens, NEW z \in Screens
               PROVE  /\ Len(<<x, y, z>>) = 3 /\ Append(<<x, y>>, z) = <<x, y, z>>
                      /\ ToSet(<<x, y, z>>) = {x, y, z} /\ Last(<<x, y, z>>) = z
                      /\ Front(<<x, y, z>>) = <<x, y>>
    OBVIOUS
  <2>1. Append(<<x, y>>, z) = <<x, y, z>>
    BY Triples
  <2> DEFINE s == <<x, y>>
  <2>2. s \in Seq(Screens) /\ s # <<>> /\ ToSet(s) = {x, y} /\ Len(s) = 2
    BY <1>2
  <2> HIDE DEF s
  <2>3. /\ Len(Append(s, z)) = 2 + 1 /\ ToSet(Append(s, z)) = {x, y} \cup {z}
        /\ Last(Append(s, z)) = z /\ Front(Append(s, z)) = s
    BY <2>2, Longer
  <2>4. 2 + 1 = 3 /\ {x, y} \cup {z} = {x, y, z}
    OBVIOUS
  <2> QED
    BY <2>1, <2>3, <2>4 DEF s
<1>4. /\ ToSet(AtPhone) = {"phone_entry"} /\ Last(AtPhone) = "phone_entry"
      /\ Len(AtPhone) = 1 /\ Append(<<>>, "phone_entry") = AtPhone
      /\ ToSet(AtDeactivated) = {"device_deactivated"}
      /\ Last(AtDeactivated) = "device_deactivated" /\ Len(AtDeactivated) = 1
      /\ Append(<<>>, "device_deactivated") = AtDeactivated
      /\ ToSet(AtHistory) = {"signed_in"} /\ Last(AtHistory) = "signed_in"
      /\ Len(AtHistory) = 1 /\ Append(<<>>, "signed_in") = AtHistory
  BY <1>0, <1>1 DEF AtPhone, AtDeactivated, AtHistory
<1>5. /\ ToSet(AtCode) = {"phone_entry", "otp_entry"} /\ Last(AtCode) = "otp_entry"
      /\ Len(AtCode) = 2 /\ Front(AtCode) = AtPhone /\ Append(AtPhone, "otp_entry") = AtCode
      /\ ToSet(AtLateCap) = {"phone_entry", "device_cap_reached"}
      /\ Last(AtLateCap) = "device_cap_reached" /\ Len(AtLateCap) = 2
      /\ Front(AtLateCap) = AtPhone /\ Append(AtPhone, "device_cap_reached") = AtLateCap
      /\ ToSet(AtSettings) = {"signed_in", "settings"} /\ Last(AtSettings) = "settings"
      /\ Len(AtSettings) = 2 /\ Front(AtSettings) = AtHistory
      /\ Append(AtHistory, "settings") = AtSettings
  BY <1>0, <1>2 DEF AtPhone, AtCode, AtLateCap, AtHistory, AtSettings
<1>6. /\ ToSet(AtCap) = {"phone_entry", "otp_entry", "device_cap_reached"}
      /\ Last(AtCap) = "device_cap_reached" /\ Len(AtCap) = 3 /\ Front(AtCap) = AtCode
      /\ Append(AtCode, "device_cap_reached") = AtCap
      /\ ToSet(AtDevices) = {"signed_in", "settings", "devices"}
      /\ Last(AtDevices) = "devices" /\ Len(AtDevices) = 3 /\ Front(AtDevices) = AtSettings
      /\ Append(AtSettings, "devices") = AtDevices
  BY <1>0, <1>3 DEF AtCode, AtCap, AtSettings, AtDevices
<1> QED
  BY <1>4, <1>5, <1>6

(* popUpTo(phone_entry) inclusive clears every stack that holds it. *)
LEMMA BelowPhone ==
  ASSUME stack \in PhoneFirst
  PROVE  Below("phone_entry") = <<>>
<1>1. "phone_entry" \in ToSet(stack)
  BY Shapes DEF PhoneFirst
<1>2. /\ DOMAIN stack \subseteq 1..3 /\ 1 \in DOMAIN stack /\ stack[1] = "phone_entry"
      /\ \A i \in DOMAIN stack : i # 1 => stack[i] # "phone_entry"
  <2>1. CASE stack = AtPhone
    BY <2>1 DEF AtPhone
  <2>2. CASE stack = AtCode
    BY <2>2 DEF AtCode
  <2>3. CASE stack = AtCap
    BY <2>3 DEF AtCap
  <2>4. CASE stack = AtLateCap
    BY <2>4 DEF AtLateCap
  <2> QED
    BY <2>1, <2>2, <2>3, <2>4 DEF PhoneFirst
<1> DEFINE i == CHOOSE i \in DOMAIN stack : stack[i] = "phone_entry"
<1>3. i = 1
  BY <1>2
<1> HIDE DEF i
<1>4. Below("phone_entry") = SubSeq(stack, 1, i - 1)
  BY <1>1 DEF Below, i
<1>5. SubSeq(stack, 1, 0) = <<>>
  BY SubSeqEmpty
<1> QED
  BY <1>3, <1>4, <1>5

-----------------------------------------------------------------------------
(* The inductive invariant *)

Alive == ToSet(stack) \cup doomed
Working(k) == \E c \in calls : c.kind = k
Silent == \A x \in Channels : channel[x] = <<>>

(* The state in which OtpEntryScreen submits by itself. *)
FullCode == vm.otp_entry.ui = "ready" /\ vm.otp_entry.code = "full"

ShapeInv == stack \in Stacks /\ (listening => Top \in composed)

(* A sign-in call is alone, and so is an event: nothing of a sign-in       *)
(* overlaps with anything else.                                            *)
OneAtATime ==
    /\ \A c \in calls : c.kind \in SignInKinds => calls = {c} /\ Silent
    /\ \A x \in Channels : channel[x] # <<>> =>
         /\ calls = {} /\ \A y \in Channels \ {x} : channel[y] = <<>>
         /\ \E n \in 0..MaxTickets : channel[x] = <<n>>

(* The view model that waits says so, which is what refuses a second tap;  *)
(* that of the code may be edited, but holds no full code.                 *)
WaitingInv ==
    /\ Working("request") => vm.phone_entry = "submitting"
    /\ Working("verify") \/ channel["otp_entry"] # <<>> => ~FullCode
    /\ Working("remedy") => vm.device_cap_reached.submitting

NoOrphans == \A x \in Channels \ Alive : channel[x] = <<>>

(* The cap screen comes after the verification, and the code screen under  *)
(* it has nothing to submit.                                               *)
CapAfterCode ==
    "device_cap_reached" \in Alive =>
        /\ ~Working("verify") /\ channel["otp_entry"] = <<>>
        /\ "otp_entry" \in ToSet(stack) => ~FullCode

(* Where the viewer can be while a step is under way. *)
PlaceInv ==
    /\ Working("request") \/ channel["phone_entry"] # <<>> => stack = AtPhone /\ doomed = {}
    /\ \/ Working("verify") \/ Working("remedy")
       \/ channel["otp_entry"] # <<>> \/ channel["device_cap_reached"] # <<>>
       => stack \in PhoneFirst
    /\ "otp_entry" \in ToSet(stack) => doomed \subseteq {"device_cap_reached"}

(* The bus and a sign-in: a code on its way and an event of a view model   *)
(* exclude a sign-out event, and a deactivation is never raised under a    *)
(* sign-in.                                                                *)
BusInv ==
    /\ Working("request") \/ ~Silent => bus = <<>>
    /\ bus # <<>> => \A d \in Head(bus).before : d.kind \notin SignInKinds
    /\ bus # <<>> /\ Head(bus).event = "DeviceDeactivated" =>
         /\ "otp_entry" \notin ToSet(stack)
         /\ \A c \in calls : c.kind \notin SignInKinds

HandoffInv ==
    handoff # None =>
        /\ calls = {} /\ Silent /\ bus = <<>>
        /\ Top = "device_cap_reached" /\ vm.device_cap_reached.ticket = None

StepInv == /\ ShapeInv /\ OneAtATime /\ WaitingInv /\ NoOrphans /\ CapAfterCode
           /\ PlaceInv /\ BusInv /\ HandoffInv

-----------------------------------------------------------------------------
(* What navigation does to the rest of the state *)

LEMMA OneItem ==
  ASSUME NEW n
  PROVE  /\ Append(<<>>, n) = <<n>> /\ Head(<<n>>) = n /\ Tail(<<n>>) = <<>> /\ <<n>> # <<>>
OBVIOUS

(* The view models that live on keep their state. *)
Lives(y) == vm'[y] = vm[y]

LEMMA PushFacts ==
  ASSUME TypeInv, NEW s \in Seq(Screens), NEW x \in Screens, NEW ch \in Queues, Push(s, x, ch)
  PROVE  /\ stack' = Append(s, x) /\ composed' = composed \cup {x} /\ Last(stack') = x
         /\ ToSet(stack') = ToSet(s) \cup {x}
         /\ doomed' = (doomed \cup (ToSet(stack) \cap composed)) \ (ToSet(s) \cup {x})
         /\ \A c \in calls' : (c \in calls /\ c.by # x) \/ c \in FirstCalls(x)
         /\ \A y \in Channels : channel'[y] = <<>> \/ (y # x /\ channel'[y] = ch[y])
         /\ \A y \in Channels : y \notin Alive' => channel'[y] = <<>>
         /\ dropped => dropped'
         /\ ~dropped' => \A y \in Channels \ {x} : channel'[y] = ch[y]
         /\ \A y \in Channels : y \in Alive' /\ y # x => Lives(y)
         /\ x = "device_cap_reached" => vm'.device_cap_reached.ticket = None
<1> DEFINE v == [y \in DOMAIN vm |-> IF y = x THEN Fresh[y] ELSE vm[y]]
           cs == {c \in calls : c.by # x} \cup FirstCalls(x)
           q == [y \in Channels |-> IF y = x THEN <<>> ELSE ch[y]]
           t == Append(s, x)
<1>1. /\ stack' = t /\ composed' = composed \cup {Last(t)}
      /\ doomed' = (doomed \cup (ToSet(stack) \cap composed)) \ ToSet(t)
      /\ Keep(ToSet(t) \cup doomed', v, cs, q, FALSE)
  BY DEF Push, Restack
<1>2. Last(t) = x /\ ToSet(t) = ToSet(s) \cup {x}
  BY AppendScreen
<1>3. Alive' = ToSet(t) \cup doomed'
  BY <1>1 DEF Alive
<1>4. /\ vm' = [y \in DOMAIN v |-> IF y \in Alive' THEN v[y] ELSE Fresh[y]]
      /\ calls' = {c \in cs : c.by \in Alive'}
      /\ channel' = [y \in Channels |-> IF y \in Alive' THEN q[y] ELSE <<>>]
      /\ dropped' = (dropped \/ FALSE \/ \E y \in Channels \ Alive' : q[y] # <<>>)
  BY <1>1, <1>3 DEF Keep
<1>5. DOMAIN vm = {"phone_entry", "otp_entry", "device_cap_reached", "devices"}
  BY DEF TypeInv, ViewModels
<1>6. \A y \in Channels : y \in Alive' /\ y # x => vm'[y] = vm[y]
  BY <1>4, <1>5 DEF Channels
<1>7. x = "device_cap_reached" => vm'.device_cap_reached.ticket = None
  BY <1>4, <1>5, <1>1, <1>2, <1>3 DEF Fresh
<1>8. \A c \in calls' : (c \in calls /\ c.by # x) \/ c \in FirstCalls(x)
  BY <1>4
<1>9. /\ \A y \in Channels : channel'[y] = <<>> \/ (y # x /\ channel'[y] = ch[y])
      /\ \A y \in Channels : y \notin Alive' => channel'[y] = <<>>
  BY <1>4
<1>10. /\ dropped => dropped'
       /\ ~dropped' => \A y \in Channels \ {x} : channel'[y] = ch[y]
  BY <1>4 DEF TypeInv
<1> HIDE DEF v, cs, q
<1> QED
  BY <1>1, <1>2, <1>6, <1>7, <1>8, <1>9, <1>10 DEF Lives

(* popUpTo(0): the new screen alone.                                       *)
LEMMA ClearFacts ==
  ASSUME TypeInv, NEW x \in Screens, NEW ch \in Queues, Push(<<>>, x, ch)
  PROVE  /\ stack' = Append(<<>>, x) /\ composed' = composed \cup {x} /\ Last(stack') = x
         /\ doomed' = (doomed \cup (ToSet(stack) \cap composed)) \ {x}
         /\ \A c \in calls' : (c \in calls /\ c.by # x) \/ c \in FirstCalls(x)
         /\ \A y \in Channels : channel'[y] = <<>> \/ (y # x /\ channel'[y] = ch[y])
         /\ dropped => dropped'
         /\ ~dropped' => \A y \in Channels \ {x} : channel'[y] = ch[y]
         /\ \A y \in Channels : y \in Alive' /\ y # x => Lives(y)
<1>1. PICK s \in Seq(Screens) : s = <<>>
  BY EmptySeq
<1>2. Push(s, x, ch)
  BY <1>1
<1>3. ToSet(s) = {}
  BY <1>1 DEF ToSet
<1>4. /\ stack' = Append(s, x) /\ composed' = composed \cup {x} /\ Last(stack') = x
      /\ doomed' = (doomed \cup (ToSet(stack) \cap composed)) \ (ToSet(s) \cup {x})
      /\ \A c \in calls' : (c \in calls /\ c.by # x) \/ c \in FirstCalls(x)
      /\ \A y \in Channels : channel'[y] = <<>> \/ (y # x /\ channel'[y] = ch[y])
      /\ dropped => dropped'
      /\ ~dropped' => \A y \in Channels \ {x} : channel'[y] = ch[y]
      /\ \A y \in Channels : y \in Alive' /\ y # x => Lives(y)
  BY <1>2, PushFacts
<1>5. doomed' = (doomed \cup (ToSet(stack) \cap composed)) \ {x}
  BY <1>3, <1>4
<1>6. stack' = Append(<<>>, x)
  BY <1>1, <1>4
<1> QED
  BY <1>4, <1>5, <1>6

LEMMA PopFacts ==
  ASSUME TypeInv, NEW s \in Seq(Screens), s # <<>>, Pop(s)
  PROVE  /\ stack' = s /\ composed' = composed \cup {Last(s)}
         /\ doomed' = (doomed \cup (ToSet(stack) \cap composed)) \ ToSet(s)
         /\ calls' \subseteq calls
         /\ \A y \in Channels : channel'[y] = <<>> \/ channel'[y] = channel[y]
         /\ \A y \in Channels : y \notin Alive' => channel'[y] = <<>>
         /\ dropped => dropped'
         /\ ~dropped' => \A y \in Channels : channel'[y] = channel[y]
         /\ \A y \in Channels : y \in Alive' => Lives(y)
<1>1. /\ stack' = s /\ composed' = composed \cup {Last(s)}
      /\ doomed' = (doomed \cup (ToSet(stack) \cap composed)) \ ToSet(s)
      /\ Keep(ToSet(s) \cup doomed', vm, calls, channel, FALSE)
  BY DEF Pop, Restack
<1>2. Alive' = ToSet(s) \cup doomed'
  BY <1>1 DEF Alive
<1>3. /\ vm' = [y \in DOMAIN vm |-> IF y \in Alive' THEN vm[y] ELSE Fresh[y]]
      /\ calls' = {c \in calls : c.by \in Alive'}
      /\ channel' = [y \in Channels |-> IF y \in Alive' THEN channel[y] ELSE <<>>]
      /\ dropped' = (dropped \/ FALSE \/ \E y \in Channels \ Alive' : channel[y] # <<>>)
  BY <1>1, <1>2 DEF Keep
<1>4. DOMAIN vm = {"phone_entry", "otp_entry", "device_cap_reached", "devices"}
  BY DEF TypeInv, ViewModels
<1>5. \A y \in Channels : y \in Alive' => vm'[y] = vm[y]
  BY <1>3, <1>4 DEF Channels
<1>6. /\ \A y \in Channels : channel'[y] = <<>> \/ channel'[y] = channel[y]
      /\ \A y \in Channels : y \notin Alive' => channel'[y] = <<>>
  BY <1>3
<1>7. /\ dropped => dropped'
      /\ ~dropped' => \A y \in Channels : channel'[y] = channel[y]
  BY <1>3 DEF TypeInv
<1> QED
  BY <1>1, <1>3, <1>5, <1>6, <1>7 DEF Lives

(* Clearing the view models that are not on the stack. *)
LEMMA KeepFacts ==
  ASSUME TypeInv, NEW v \in ViewModels, NEW lost \in BOOLEAN,
         Keep(ToSet(stack), v, calls, channel, lost)
  PROVE  /\ calls' = {c \in calls : c.by \in ToSet(stack)}
         /\ \A y \in Channels :
              channel'[y] = IF y \in ToSet(stack) THEN channel[y] ELSE <<>>
         /\ dropped \/ lost => dropped'
         /\ ~dropped' => \A y \in Channels : channel'[y] = channel[y]
         /\ \A y \in Channels : y \in ToSet(stack) => vm'[y] = v[y]
<1>1. /\ vm' = [y \in DOMAIN v |-> IF y \in ToSet(stack) THEN v[y] ELSE Fresh[y]]
      /\ calls' = {c \in calls : c.by \in ToSet(stack)}
      /\ channel' = [y \in Channels |-> IF y \in ToSet(stack) THEN channel[y] ELSE <<>>]
      /\ dropped' = (dropped \/ lost \/ \E y \in Channels \ ToSet(stack) : channel[y] # <<>>)
  BY DEF Keep
<1>2. DOMAIN v = {"phone_entry", "otp_entry", "device_cap_reached", "devices"}
  BY DEF ViewModels
<1>3. \A y \in Channels : y \in ToSet(stack) => vm'[y] = v[y]
  BY <1>1, <1>2 DEF Channels
<1>4. dropped \/ lost => dropped'
  BY <1>1 DEF TypeInv
<1>5. ~dropped' => \A y \in Channels : channel'[y] = channel[y]
  BY <1>1
<1>6. \A y \in Channels : channel'[y] = IF y \in ToSet(stack) THEN channel[y] ELSE <<>>
  BY <1>1
<1> QED
  BY <1>1, <1>3, <1>4, <1>5, <1>6

-----------------------------------------------------------------------------
(* What the invariant says of a state *)

(* The stacks by their screens: the only facts about sequences needed.     *)
LEMMA StackFacts ==
  ASSUME NEW s \in Stacks
  PROVE  /\ Last(s) \in ToSet(s)
         /\ "otp_entry" \in ToSet(s) <=> s \in {AtCode, AtCap}
         /\ "device_cap_reached" \in ToSet(s) <=> s \in {AtCap, AtLateCap}
         /\ "phone_entry" \in ToSet(s) <=> s \in PhoneFirst
         /\ s \in PhoneFirst => ToSet(s) \subseteq Channels
         /\ s \notin PhoneFirst => ToSet(s) \cap Channels = {}
         /\ s = AtPhone <=> Last(s) = "phone_entry"
         /\ s = AtCode <=> Last(s) = "otp_entry"
         /\ s \in {AtCap, AtLateCap} <=> Last(s) = "device_cap_reached"
         /\ s \in {AtHistory, AtSettings, AtDevices} <=> Last(s) \in MainScreens
         /\ s = AtHistory <=> Last(s) = "signed_in"
         /\ s = AtSettings <=> Last(s) = "settings"
         /\ s = AtDevices <=> Last(s) = "devices"
<1>1. CASE s = AtPhone
  BY <1>1, Shapes DEF PhoneFirst, Channels, MainScreens
<1>2. CASE s = AtCode
  BY <1>2, Shapes DEF PhoneFirst, Channels, MainScreens
<1>3. CASE s = AtCap
  BY <1>3, Shapes DEF PhoneFirst, Channels, MainScreens
<1>4. CASE s = AtLateCap
  BY <1>4, Shapes DEF PhoneFirst, Channels, MainScreens
<1>5. CASE s = AtDeactivated
  BY <1>5, Shapes DEF PhoneFirst, Channels, MainScreens
<1>6. CASE s = AtHistory
  BY <1>6, Shapes DEF PhoneFirst, Channels, MainScreens
<1>7. CASE s = AtSettings
  BY <1>7, Shapes DEF PhoneFirst, Channels, MainScreens
<1>8. CASE s = AtDevices
  BY <1>8, Shapes DEF PhoneFirst, Channels, MainScreens
<1> QED
  BY <1>1, <1>2, <1>3, <1>4, <1>5, <1>6, <1>7, <1>8 DEF Stacks, PhoneFirst

LEMMA CodeShape ==
  ToSet(AtCode) = {"phone_entry", "otp_entry"} /\ AtCode # AtPhone
<1>1. AtCode # AtPhone
  BY Shapes
<1> QED
  BY <1>1, Shapes

LEMMA CapShape ==
  ASSUME NEW s \in {AtCap, AtLateCap}
  PROVE  "device_cap_reached" \in ToSet(s) /\ ToSet(s) \subseteq Channels /\ s # AtPhone
<1>1. AtCap # AtPhone /\ AtLateCap # AtPhone
  BY Shapes
<1>2. /\ ToSet(AtCap) = {"phone_entry", "otp_entry", "device_cap_reached"}
      /\ ToSet(AtLateCap) = {"phone_entry", "device_cap_reached"}
  BY Shapes
<1> QED
  BY <1>1, <1>2 DEF Channels

LEMMA Callers ==
  ASSUME TypeInv, NEW c \in calls
  PROVE  /\ CallOK(c) /\ c.by \in Alive /\ c.kind \in Kinds
         /\ c.kind = "request" <=> c.by = "phone_entry"
         /\ c.kind = "verify" <=> c.by = "otp_entry"
         /\ c.kind = "remedy" <=> c.by = "device_cap_reached"
         /\ c.kind \notin SignInKinds => c.by \in MainScreens
<1>1. CallOK(c) /\ c.by \in Alive /\ c \in CallType /\ Owner(c)
  BY DEF TypeInv, CallsOK, CallOK, Alive
<1>2. c.kind \in Kinds /\ c.by \in Screens
  BY <1>1, CallTypes
<1> QED
  BY <1>1, <1>2 DEF Owner, Screens, SignInKinds

(* A call that is launched is of its kind, and queued.                     *)
LEMMA Launched ==
  ASSUME NEW by \in Screens, NEW kind \in Kinds, NEW arg \in Args, Owner(Call(by, kind, arg)),
         NEW cs, Launch(Call(by, kind, arg), cs)
  PROVE  /\ \E d : d.kind = kind /\ d.reply = "queued" /\ calls' = cs \cup {d}
         /\ \A d \in calls' : d \in cs \/ (d.kind = kind /\ d.reply = "queued")
<1> DEFINE c == Call(by, kind, arg)
<1>1. CallOK(c) /\ c.kind = kind /\ c.reply = "queued" /\ Launch(c, cs)
  BY NewCall
<1> HIDE DEF c
<1>2. PICK d : Alike(d, c) /\ calls' = cs \cup {d}
  BY <1>1, LaunchOK
<1> QED
  BY <1>1, <1>2 DEF Alike

(* A call of a main screen is alone with its like.                         *)
LEMMA MainCall ==
  ASSUME TypeInv, StepInv, NEW c \in calls, c.kind \notin SignInKinds
  PROVE  /\ \A d \in calls : d.kind \notin SignInKinds
         /\ Silent /\ handoff = None /\ "otp_entry" \notin ToSet(stack)
<1>1. \A d \in calls : d.kind \notin SignInKinds
  BY DEF StepInv, OneAtATime
<1>2. Silent
  BY DEF StepInv, OneAtATime, Silent
<1>3. handoff = None
  BY DEF StepInv, HandoffInv
<1>4. c.by \in MainScreens /\ c.by \in Alive
  BY Callers
<1>5. ASSUME "otp_entry" \in ToSet(stack) PROVE FALSE
  <2>1. stack \in PhoneFirst /\ doomed \subseteq {"device_cap_reached"}
    BY <1>5, StackFacts DEF StepInv, ShapeInv, PlaceInv, PhoneFirst
  <2>2. ToSet(stack) \subseteq Channels
    BY <2>1, StackFacts DEF Stacks
  <2> QED
    BY <1>4, <2>1, <2>2 DEF Alive, Channels, MainScreens
<1> QED
  BY <1>1, <1>2, <1>3, <1>5

(* When the viewer can act, no step of a sign-in is on its way to the main *)
(* thread, and the calls in flight are those of the screen shown.          *)
LEMMA IdleFacts ==
  ASSUME TypeInv, StepInv, Idle
  PROVE  /\ Silent /\ bus = <<>> /\ handoff = None /\ doomed = {} /\ composed = {Top}
         /\ listening
         /\ Top = "phone_entry" => stack = AtPhone /\ \A c \in calls : c.kind = "request"
         /\ Top = "otp_entry" => stack = AtCode /\ \A c \in calls : c.kind = "verify"
         /\ Top = "device_cap_reached" =>
              stack \in {AtCap, AtLateCap} /\ \A c \in calls : c.kind = "remedy"
         /\ Top \notin Channels =>
              stack \notin PhoneFirst /\ \A c \in calls : c.kind \notin SignInKinds
<1>1. /\ listening /\ composed = {Top} /\ bus = <<>> /\ ~CapWaits
      /\ Top \in Channels => channel[Top] = <<>>
  BY DEF Idle
<1>2. stack \in Stacks /\ Top = Last(stack)
  BY DEF StepInv, ShapeInv, Top
<1>3. doomed = {}
  BY <1>1, <1>2, StackFacts DEF TypeInv, ScreensOK
<1>4. handoff = None
  BY <1>1 DEF StepInv, HandoffInv, CapWaits
<1>5. Alive = ToSet(stack)
  BY <1>3 DEF Alive
<1>6. CASE Top = "phone_entry"
  <2>0. stack = AtPhone
    BY <1>2, <1>6, StackFacts
  <2>1. stack = AtPhone /\ ToSet(stack) = {"phone_entry"}
    BY <2>0, Shapes
  <2>2. ASSUME NEW c \in calls PROVE c.kind = "request"
    BY <1>5, <2>1, Callers
  <2>3. Silent
    BY <1>1, <1>5, <1>6, <2>1 DEF StepInv, NoOrphans, Silent, Channels
  <2> QED
    BY <1>1, <1>3, <1>4, <1>6, <2>1, <2>2, <2>3 DEF Channels
<1>7. CASE Top = "otp_entry"
  <2>0. stack = AtCode
    BY <1>2, <1>7, StackFacts
  <2>1. stack = AtCode /\ ToSet(stack) = {"phone_entry", "otp_entry"} /\ stack # AtPhone
    BY <2>0, CodeShape
  <2>2. \A c \in calls : c.kind = "verify"
    <3>1. \A c \in calls : c.kind # "request"
      BY <2>1 DEF StepInv, PlaceInv, Working
    <3> QED
      BY <1>5, <2>1, <3>1, Callers
  <2>3. Silent
    BY <1>1, <1>5, <1>7, <2>1 DEF StepInv, NoOrphans, PlaceInv, Silent, Channels
  <2> QED
    BY <1>1, <1>3, <1>4, <1>7, <2>1, <2>2, <2>3 DEF Channels
<1>8. CASE Top = "device_cap_reached"
  <2>0. stack \in {AtCap, AtLateCap}
    BY <1>2, <1>8, StackFacts
  <2>1. /\ stack \in {AtCap, AtLateCap} /\ "device_cap_reached" \in ToSet(stack)
        /\ ToSet(stack) \subseteq Channels /\ stack # AtPhone
    BY <2>0, CapShape
  <2>2. \A c \in calls : c.kind = "remedy"
    BY <1>5, <2>1, Callers DEF StepInv, PlaceInv, CapAfterCode, Working, Channels
  <2>3. Silent
    BY <1>1, <1>5, <1>8, <2>1 DEF StepInv, PlaceInv, CapAfterCode, Silent, Channels
  <2> QED
    BY <1>1, <1>3, <1>4, <1>8, <2>1, <2>2, <2>3 DEF Channels
<1>9. CASE Top \notin Channels
  <2>1. stack \notin PhoneFirst /\ ToSet(stack) \cap Channels = {}
    BY <1>2, <1>9, StackFacts
  <2>2. \A c \in calls : c.kind \notin SignInKinds
    BY <1>5, <2>1, Callers DEF Channels, SignInKinds
  <2>3. Silent
    BY <1>5, <2>1 DEF StepInv, NoOrphans, Silent
  <2> QED
    BY <1>1, <1>3, <1>4, <1>9, <2>1, <2>2, <2>3 DEF Channels
<1> QED
  BY <1>6, <1>7, <1>8, <1>9 DEF Channels

(* A state without any step of a sign-in.                                  *)
LEMMA NoStep ==
  ASSUME ShapeInv', Silent', \A c \in calls' : c.kind \notin SignInKinds,
         bus' = <<>>, HandoffInv',
         "device_cap_reached" \in Alive' /\ "otp_entry" \in ToSet(stack') => ~FullCode',
         "otp_entry" \in ToSet(stack') => doomed' \subseteq {"device_cap_reached"}
  PROVE  StepInv'
BY DEF StepInv, OneAtATime, WaitingInv, NoOrphans, CapAfterCode, PlaceInv, BusInv, HandoffInv,
       Silent, Working, SignInKinds, Channels

-----------------------------------------------------------------------------
(* The network *)

(* A call changes, and stays what it is.                                   *)
LEMMA SameWork ==
  ASSUME StepInv, NEW c \in calls, NEW d, d.kind = c.kind,
         calls' = (calls \ {c}) \cup {d}, BusInv',
         UNCHANGED <<stack, composed, doomed, vm, channel, handoff, listening>>
  PROVE  StepInv'
<1>1. handoff = None
  BY DEF StepInv, HandoffInv
<1>2. \A k : Working(k)' <=> Working(k)
  BY DEF Working
<1>3. OneAtATime'
  <2>1. \A x \in Channels : channel[x] = <<>>
    BY DEF StepInv, OneAtATime
  <2>2. ASSUME NEW e \in calls', e.kind \in SignInKinds PROVE calls' = {e}
    <3>1. c.kind \in SignInKinds
      BY <2>2 DEF StepInv, OneAtATime
    <3>2. calls = {c}
      BY <3>1 DEF StepInv, OneAtATime
    <3> QED
      BY <3>2
  <2> QED
    BY <2>1, <2>2 DEF OneAtATime, Silent
<1>4. ShapeInv' /\ NoOrphans'
  BY DEF StepInv, ShapeInv, NoOrphans, Top, Alive
<1>5. WaitingInv'
  BY <1>2 DEF StepInv, WaitingInv, FullCode
<1>6. CapAfterCode'
  BY <1>2 DEF StepInv, CapAfterCode, Alive, FullCode
<1>7. PlaceInv'
  BY <1>2 DEF StepInv, PlaceInv
<1> QED
  BY <1>1, <1>3, <1>4, <1>5, <1>6, <1>7 DEF StepInv, HandoffInv

LEMMA AttachStep ==
  ASSUME TypeInv, StepInv, NEW c \in calls, Attach(c)
  PROVE  StepInv'
<1> DEFINE d == [c EXCEPT !.jwt = token, !.reply = "sent"]
<1>1. CallOK(c)
  BY Callers
<1>2. d.kind = c.kind
  BY <1>1, AttachOK DEF TypeInv
<1>3. calls' = (calls \ {c}) \cup {d}
      /\ UNCHANGED <<stack, composed, doomed, vm, channel, handoff, listening, bus>>
  BY DEF Attach
<1> HIDE DEF d
<1>4. BusInv'
  BY <1>2, <1>3 DEF StepInv, BusInv, Working, Silent
<1> QED
  BY <1>2, <1>3, <1>4, SameWork

LEMMA HeadOfOne ==
  ASSUME NEW e
  PROVE  Head(<<e>>) = e /\ <<e>> # <<>>
OBVIOUS

(* An event raised by the answer to c.                                     *)
LEMMA EmitStep ==
  ASSUME TypeInv, StepInv, NEW c \in calls, NEW event \in Events, Emit(event, c),
         c.kind # "request", event = "DeviceDeactivated" => c.kind \notin SignInKinds
  PROVE  /\ bus' # <<>> =>
              /\ \A d \in Head(bus').before : d.kind \notin SignInKinds
              /\ Head(bus').event = "DeviceDeactivated" =>
                   /\ "otp_entry" \notin ToSet(stack)
                   /\ \A d \in calls : d.kind \notin SignInKinds
         /\ Silent /\ ~Working("request")
<1>1. ~Working("request") /\ Silent
  <2>1. Silent
    BY DEF StepInv, OneAtATime, Silent
  <2>2. ASSUME NEW d \in calls, d.kind = "request" PROVE FALSE
    BY <2>2 DEF StepInv, OneAtATime, SignInKinds
  <2> QED
    BY <2>1, <2>2 DEF Working
<1>2. CASE bus' = bus
  BY <1>1, <1>2 DEF StepInv, BusInv
<1>3. CASE bus' = <<Raised(event, c)>>
  <2>1. Head(bus') = Raised(event, c)
    BY <1>3, HeadOfOne
  <2>2. Head(bus').event = event
        /\ Head(bus').before = {d \in calls \ {c} : d.reply \in Replies}
    BY <2>1 DEF Raised
  <2>3. \A d \in Head(bus').before : d.kind \notin SignInKinds
    BY <2>2 DEF StepInv, OneAtATime
  <2>4. ASSUME event = "DeviceDeactivated"
        PROVE  "otp_entry" \notin ToSet(stack) /\ \A d \in calls : d.kind \notin SignInKinds
    BY <2>4, MainCall
  <2> QED
    BY <1>1, <2>2, <2>3, <2>4
<1> QED
  BY <1>2, <1>3 DEF Emit

LEMMA AnswerStep ==
  ASSUME TypeInv, StepInv, NEW c \in calls, NEW reply \in Replies, Answer(c, reply)
  PROVE  StepInv'
<1>1. PICK got \in Nat :
        LET d == [c EXCEPT !.reply = reply, !.got = got] IN
          calls' = (calls \ {c}) \cup {d} /\ CallOK(d)
  BY AnsweredOK
<1> DEFINE d == [c EXCEPT !.reply = reply, !.got = got]
<1>2. CallOK(c) /\ c.kind \in Kinds
  BY Callers
<1>3. d.kind = c.kind
  BY <1>2 DEF CallOK, CallType
<1>4. calls' = (calls \ {c}) \cup {d}
  BY <1>1
<1> HIDE DEF d
<1>5. UNCHANGED <<stack, composed, doomed, vm, channel, handoff, listening>>
      /\ reply \in AnswersTo(c) /\ Inspect(c, reply)
  BY DEF Answer
<1>6. /\ c.kind = "request" => reply \in {"ok", "failed"}
      /\ reply = "403" => c.kind \notin SignInKinds
  BY <1>2, <1>5, Answers
<1>7. BusInv'
  <2>1. /\ \A e \in calls' : \E f \in calls : e.kind = f.kind
        /\ ~Working("request") => ~Working("request")'
    BY <1>3, <1>4 DEF Working
  <2>2. CASE UNCHANGED bus
    BY <1>5, <2>1, <2>2 DEF StepInv, BusInv, Working, Silent
  <2>3. CASE reply = "401" /\ Emit("TokenExpired", c)
    BY <1>5, <1>6, <2>1, <2>3, EmitStep DEF BusInv, Silent, Events
  <2>4. CASE reply = "403" /\ Emit("DeviceDeactivated", c)
    BY <1>5, <1>6, <2>1, <2>4, EmitStep DEF BusInv, Silent, Events
  <2> QED
    BY <1>5, <2>2, <2>3, <2>4 DEF Inspect
<1> QED
  BY <1>3, <1>4, <1>5, <1>7, SameWork

(* Nothing of a sign-in changes.                                           *)
LEMMA SameStep ==
  ASSUME StepInv, UNCHANGED <<stack, composed, doomed, vm, channel, handoff, listening, calls, bus>>
  PROVE  StepInv'
BY DEF StepInv, ShapeInv, OneAtATime, WaitingInv, NoOrphans, CapAfterCode, PlaceInv, BusInv,
       HandoffInv, Working, Silent, Top, Alive, FullCode

-----------------------------------------------------------------------------
(* The main thread resumes a coroutine *)

LEMMA MainResumed ==
  ASSUME TypeInv, StepInv, NEW c \in calls, Resume(c), c.kind \notin SignInKinds
  PROVE  StepInv'
<1>1. /\ \A d \in calls : d.kind \notin SignInKinds
      /\ Silent /\ handoff = None /\ "otp_entry" \notin ToSet(stack)
  BY MainCall
<1>2. UNCHANGED <<stack, composed, doomed, handoff, listening>>
  BY DEF Resume
<1>3. Loaded(c) \/ Deactivated(c) \/ DeactivationFailed(c)
  <2>1. ~(c.reply = "cap")
    BY Callers DEF CallOK, SignInKinds
  <2> QED
    BY <2>1 DEF Resume, SignInKinds, CodeRequested, SignInAccepted, CapReached, Done, VerifyFailed,
                RemedyFailed
<1>4. /\ UNCHANGED channel
      /\ \A d \in calls' : d.kind \notin SignInKinds
  <2>1. UNCHANGED channel
    BY <1>3 DEF Loaded, Deactivated, DeactivationFailed
  <2>2. calls' \subseteq calls \/ Launch(Call("devices", "list", "-"), calls \ {c})
    BY <1>3 DEF Loaded, Deactivated, DeactivationFailed, Done
  <2>3. "devices" \in Screens /\ "list" \in Kinds /\ "-" \in Args /\ "list" \notin SignInKinds
    BY DEF Screens, MainScreens, Kinds, Args, SignInKinds
  <2>4. Owner(Call("devices", "list", "-"))
    BY DEF Owner, Call
  <2>5. Launch(Call("devices", "list", "-"), calls \ {c}) =>
          \A d \in calls' : d \in calls \/ d.kind = "list"
    BY <2>3, <2>4, Launched
  <2> QED
    BY <1>1, <2>1, <2>2, <2>3, <2>5
<1>5. BusInv'
  <2>1. ~Working("request")' /\ Silent'
    BY <1>1, <1>4 DEF Working, SignInKinds, Silent
  <2>2. CASE UNCHANGED bus
    BY <1>1, <1>2, <1>4, <2>1, <2>2 DEF StepInv, BusInv
  <2>3. CASE Emit("DeviceDeactivated", c)
    <3>1. c.kind # "request"
      BY DEF SignInKinds
    <3> QED
      BY <1>1, <1>2, <1>4, <2>1, <2>3, <3>1, EmitStep DEF BusInv, Events
  <2> QED
    BY <1>3, <2>2, <2>3 DEF Loaded, Deactivated, DeactivationFailed
<1>6. ShapeInv' /\ HandoffInv'
  BY <1>1, <1>2 DEF StepInv, ShapeInv, HandoffInv, Top
<1>7. OneAtATime' /\ WaitingInv' /\ NoOrphans' /\ CapAfterCode' /\ PlaceInv'
  BY <1>1, <1>2, <1>4 DEF OneAtATime, WaitingInv, NoOrphans, CapAfterCode, PlaceInv, Silent,
                          Working, SignInKinds, Channels
<1> QED
  BY <1>5, <1>6, <1>7 DEF StepInv

(* The only step under way ends: with an event, or with the view model     *)
(* ready again.                                                            *)
LEMMA SignInResumed ==
  ASSUME TypeInv, StepInv, NEW c \in calls, Resume(c), c.kind \in SignInKinds
  PROVE  StepInv' /\ calls = {c} /\ calls' = {} /\ Silent /\ bus = <<>> /\ bus' = <<>>
<1>1. calls = {c} /\ Silent /\ handoff = None
  BY DEF StepInv, OneAtATime, HandoffInv
<1>2. bus = <<>>
  BY DEF StepInv, BusInv, Resume
<1>3. UNCHANGED <<stack, composed, doomed, handoff, listening>>
  BY DEF Resume
<1>4. CodeRequested(c) \/ SignInAccepted(c) \/ CapReached(c) \/ VerifyFailed(c) \/ RemedyFailed(c)
  BY DEF Resume, SignInKinds, Loaded, Deactivated, DeactivationFailed
<1>5. calls' = {} /\ UNCHANGED bus
  BY <1>1, <1>4 DEF CodeRequested, SignInAccepted, CapReached, VerifyFailed, RemedyFailed, Done
<1>6. ShapeInv' /\ HandoffInv' /\ \A k : ~Working(k)'
  BY <1>1, <1>3, <1>5 DEF StepInv, ShapeInv, HandoffInv, Top, Working
<1>7. CASE \E x \in Channels, n \in 0..MaxTickets :
             x = c.by /\ Post(x, n) /\ (x # "phone_entry" => UNCHANGED vm)
  <2>1. PICK x \in Channels, n \in 0..MaxTickets :
          x = c.by /\ Post(x, n) /\ (x # "phone_entry" => UNCHANGED vm)
    BY <1>7
  <2>2. channel'[x] = <<n>> /\ \A y \in Channels \ {x} : channel'[y] = <<>>
    BY <1>1, <2>1, OneItem DEF Post, Silent, TypeInv, Queues
  <2>3. OneAtATime' /\ NoOrphans'
    <3>1. x \in Alive'
      BY <1>3, <2>1, Callers DEF Alive
    <3> QED
      BY <1>5, <2>2, <3>1, OneItem DEF OneAtATime, NoOrphans
  <2>4. WaitingInv' /\ CapAfterCode' /\ PlaceInv'
    <3>1. /\ x = "phone_entry" => Working("request")
          /\ x = "otp_entry" => Working("verify")
          /\ x = "device_cap_reached" => Working("remedy")
      BY <2>1, Callers DEF Working
    <3>2. CASE x = "phone_entry"
      <4>1. stack' = AtPhone /\ doomed' = {}
        BY <1>3, <3>1, <3>2 DEF StepInv, PlaceInv
      <4>2. "otp_entry" \notin ToSet(stack') /\ "device_cap_reached" \notin Alive'
        BY <4>1, Shapes DEF Alive
      <4> QED
        BY <1>6, <2>2, <3>2, <4>1, <4>2 DEF WaitingInv, CapAfterCode, PlaceInv, Channels
    <3>3. CASE x = "otp_entry"
      BY <1>3, <1>6, <2>1, <2>2, <3>1, <3>3
         DEF StepInv, WaitingInv, CapAfterCode, PlaceInv, Channels, Alive, FullCode
    <3>4. CASE x = "device_cap_reached"
      BY <1>3, <1>6, <2>1, <2>2, <3>1, <3>4
         DEF StepInv, WaitingInv, CapAfterCode, PlaceInv, Channels, Alive, FullCode
    <3> QED
      BY <3>2, <3>3, <3>4 DEF Channels
  <2>5. BusInv'
    BY <1>2, <1>5 DEF BusInv
  <2> QED
    BY <1>1, <1>2, <1>5, <1>6, <2>3, <2>4, <2>5 DEF StepInv
<1>8. CASE UNCHANGED channel
           /\ (c.kind # "verify" => UNCHANGED vm.otp_entry)
  <2>1. Silent' /\ bus' = <<>> /\ handoff' = None
    BY <1>1, <1>2, <1>3, <1>5, <1>8 DEF Silent
  <2>2. "device_cap_reached" \in Alive' /\ "otp_entry" \in ToSet(stack') => ~FullCode'
    BY <1>3, <1>8 DEF StepInv, CapAfterCode, Working, Alive, FullCode
  <2>3. "otp_entry" \in ToSet(stack') => doomed' \subseteq {"device_cap_reached"}
    BY <1>3 DEF StepInv, PlaceInv
  <2>4. StepInv'
    BY <1>5, <1>6, <2>1, <2>2, <2>3, NoStep
  <2> QED
    BY <1>1, <1>2, <1>5, <2>4
<1>9. 0 \in 0..MaxTickets
  BY ClientBoundsAssumption
<1>10. CASE CodeRequested(c)
  <2>1. c.by = "phone_entry" /\ c.kind = "request"
    BY <1>10, Callers DEF CodeRequested
  <2>2. CASE Post(c.by, CodeSent)
    BY <1>7, <1>9, <2>1, <2>2 DEF CodeSent, Channels
  <2>3. CASE UNCHANGED channel
    BY <1>8, <1>10, <2>1, <2>3 DEF CodeRequested, TypeInv, ViewModels
  <2> QED
    BY <1>10, <2>2, <2>3 DEF CodeRequested
<1>11. CASE SignInAccepted(c)
  <2>1. c.by \in {"otp_entry", "device_cap_reached"}
    BY <1>11, Callers DEF SignInAccepted
  <2> QED
    BY <1>7, <1>9, <1>11, <2>1 DEF SignInAccepted, SignedIn, Channels
<1>12. CASE CapReached(c)
  <2>1. c.reply = "cap"
    BY <1>12 DEF CapReached, Done
  <2>2. c.by = "otp_entry" /\ c.got \in 0..MaxTickets
    BY <2>1, Callers DEF CallOK
  <2> QED
    BY <1>7, <1>12, <2>2 DEF CapReached, Channels
<1>13. CASE VerifyFailed(c)
  BY <1>8, <1>13 DEF VerifyFailed
<1>14. CASE RemedyFailed(c)
  BY <1>8, <1>14 DEF RemedyFailed, TypeInv, ViewModels
<1> QED
  BY <1>4, <1>10, <1>11, <1>12, <1>13, <1>14

-----------------------------------------------------------------------------
(* The main thread navigates *)

LEMMA CollectFacts ==
  ASSUME TypeInv, StepInv, NEW x \in Channels, Collect(x)
  PROVE  /\ calls = {} /\ bus = <<>> /\ handoff = None
         /\ \A y \in Channels : Rest(x)[y] = <<>>
         /\ Rest(x) \in Queues /\ \A y \in Channels \ {x} : channel[y] = <<>>
<1>1. channel[x] # <<>>
  BY DEF Collect
<1>2. PICK n \in 0..MaxTickets : channel[x] = <<n>>
  BY <1>1 DEF StepInv, OneAtATime
<1>3. calls = {} /\ \A y \in Channels \ {x} : channel[y] = <<>>
  BY <1>1 DEF StepInv, OneAtATime
<1>4. bus = <<>> /\ handoff = None
  BY <1>1 DEF StepInv, BusInv, HandoffInv, Silent
<1>5. \A y \in Channels : Rest(x)[y] = <<>>
  BY <1>2, <1>3, OneItem DEF Rest, TypeInv, Queues
<1>6. Rest(x) \in Queues
  BY <1>2, OneItem, EmptySeq DEF Rest, TypeInv, Queues
<1> QED
  BY <1>3, <1>4, <1>5, <1>6

(* An event is collected: the next screen, and no step of a sign-in left.  *)
LEMMA CollectStep ==
  ASSUME TypeInv, StepInv, NEW x \in Channels, Collect(x)
  PROVE  StepInv'
<1>1. /\ calls = {} /\ bus = <<>> /\ handoff = None
      /\ \A y \in Channels : Rest(x)[y] = <<>>
      /\ Rest(x) \in Queues /\ channel[x] # <<>>
  BY CollectFacts DEF Collect
<1>2. stack \in Stacks /\ UNCHANGED <<token, bus, listening, backend, restarts>>
  BY DEF StepInv, ShapeInv, Collect
<1>3. ASSUME NEW s \in Seq(Screens), NEW y \in Screens, Push(s, y, Rest(x)), stack' \in Stacks
      PROVE  ShapeInv' /\ Silent' /\ \A c \in calls' : c.kind \notin SignInKinds
  <2>1. /\ composed' = composed \cup {y} /\ Last(stack') = y
        /\ \A c \in calls' : (c \in calls /\ c.by # y) \/ c \in FirstCalls(y)
        /\ \A z \in Channels : channel'[z] = <<>> \/ (z # y /\ channel'[z] = Rest(x)[z])
    BY <1>1, <1>3, PushFacts
  <2>2. \A c \in calls' : c.kind \notin SignInKinds
    BY <1>1, <2>1, FirstCallsOK DEF SignInKinds
  <2> QED
    BY <1>1, <1>3, <2>1, <2>2 DEF ShapeInv, Silent, Top
<1>4. CASE x = "phone_entry"
  <2>1. Push(stack, "otp_entry", Rest(x)) /\ UNCHANGED handoff
    BY <1>4 DEF Collect
  <2>2. stack = AtPhone /\ doomed = {}
    BY <1>1, <1>4 DEF StepInv, PlaceInv
  <2>3. "otp_entry" \in Screens /\ stack \in Seq(Screens)
    BY DEF Screens, TypeInv, ScreensOK
  <2>4. /\ stack' = Append(stack, "otp_entry")
        /\ doomed' = (doomed \cup (ToSet(stack) \cap composed)) \ (ToSet(stack) \cup {"otp_entry"})
    BY <1>1, <2>1, <2>3, PushFacts
  <2>a. stack' = AtCode
    BY <2>2, <2>4, Shapes
  <2>5. doomed' = {} /\ "device_cap_reached" \notin Alive'
    <3>1. doomed' = {}
      BY <2>2, <2>4
    <3>2. ToSet(stack') = {"phone_entry", "otp_entry"}
      BY <2>a, Shapes
    <3> QED
      BY <3>1, <3>2 DEF Alive
  <2>6. ShapeInv' /\ Silent' /\ \A c \in calls' : c.kind \notin SignInKinds
    BY <1>3, <2>1, <2>3, <2>a DEF Stacks, PhoneFirst
  <2> QED
    BY <1>1, <1>2, <2>1, <2>5, <2>6, NoStep DEF HandoffInv
<1>5. CASE x # "phone_entry" /\ Head(channel[x]) = SignedIn
  <2>1. Push(Below("phone_entry"), "signed_in", Rest(x)) /\ UNCHANGED handoff
    BY <1>5 DEF Collect
  <2>2. stack \in PhoneFirst
    BY <1>1, <1>5 DEF StepInv, PlaceInv, Channels
  <2>3. Below("phone_entry") = <<>> /\ <<>> \in Seq(Screens) /\ "signed_in" \in Screens
    BY <2>2, BelowPhone, EmptySeq DEF Screens, MainScreens
  <2>4. stack' = AtHistory
    <3>1. Push(<<>>, "signed_in", Rest(x))
      BY <2>1, <2>3
    <3>2. stack' = Append(<<>>, "signed_in")
      BY <1>1, <2>3, <3>1, ClearFacts
    <3> QED
      BY <3>2, Shapes
  <2>5. "otp_entry" \notin ToSet(stack')
    BY <2>4, Shapes
  <2>6. ShapeInv' /\ Silent' /\ \A c \in calls' : c.kind \notin SignInKinds
    BY <1>3, <2>1, <2>3, <2>4 DEF Stacks
  <2> QED
    BY <1>1, <1>2, <2>1, <2>5, <2>6, NoStep DEF HandoffInv
<1>6. CASE x = "otp_entry" /\ Head(channel[x]) # SignedIn
  <2>1. Push(stack, "device_cap_reached", Rest(x))
    BY <1>6 DEF Collect
  <2>2. stack \in PhoneFirst /\ "device_cap_reached" \notin Alive /\ ~FullCode
    BY <1>1, <1>6 DEF StepInv, PlaceInv, CapAfterCode, WaitingInv
  <2>3. stack \in {AtPhone, AtCode}
    BY <1>2, <2>2, StackFacts DEF Alive, PhoneFirst
  <2>4. "device_cap_reached" \in Screens /\ stack \in Seq(Screens)
    BY DEF Screens, TypeInv, ScreensOK
  <2>5. /\ stack' = Append(stack, "device_cap_reached")
        /\ ToSet(stack') = ToSet(stack) \cup {"device_cap_reached"}
        /\ Last(stack') = "device_cap_reached"
        /\ doomed' = (doomed \cup (ToSet(stack) \cap composed))
                       \ (ToSet(stack) \cup {"device_cap_reached"})
        /\ vm'.device_cap_reached.ticket = None
        /\ "otp_entry" \in Alive' => Lives("otp_entry")
    BY <1>1, <2>1, <2>4, PushFacts DEF Channels
  <2>6. stack' \in {AtLateCap, AtCap}
    BY <2>3, <2>5, Shapes
  <2>7. ShapeInv' /\ Silent' /\ \A c \in calls' : c.kind \notin SignInKinds
    BY <1>3, <2>1, <2>4, <2>6 DEF Stacks, PhoneFirst
  <2>8. "otp_entry" \in ToSet(stack') => ~FullCode'
    BY <2>2, <2>5 DEF Lives, Alive, FullCode
  <2>9. "otp_entry" \in ToSet(stack') => doomed' \subseteq {"device_cap_reached"}
    BY <2>5 DEF StepInv, PlaceInv
  <2>10. calls' = {}
    <3>1. \A c \in calls' : c \in calls \/ c \in FirstCalls("device_cap_reached")
      BY <1>1, <2>1, <2>4, PushFacts
    <3> QED
      BY <1>1, <2>4, <3>1, FirstCallsOK DEF MainScreens
  <2>11. HandoffInv'
    BY <1>1, <1>2, <2>5, <2>7, <2>10 DEF HandoffInv, Top
  <2> QED
    BY <1>1, <1>2, <2>7, <2>8, <2>9, <2>11, NoStep
<1> QED
  BY <1>4, <1>5, <1>6 DEF Collect

(* A sign-out event clears the stack; a verification that was running goes *)
(* on until the transition ends.                                           *)
LEMMA HandleEventStep ==
  ASSUME TypeInv, TypeInv', StepInv, HandleEvent
  PROVE  StepInv' /\ Silent /\ Top' \notin MainScreens
<1> DEFINE y == IF Head(bus).event = "TokenExpired" THEN "phone_entry" ELSE "device_deactivated"
<1>1. /\ bus # <<>> /\ bus' = <<>> /\ Push(<<>>, y, channel) /\ UNCHANGED <<handoff, listening>>
  BY DEF HandleEvent
<1>2. Silent /\ ~Working("request") /\ handoff = None
  BY <1>1 DEF StepInv, BusInv, HandoffInv
<1>3. /\ y \in {"phone_entry", "device_deactivated"} /\ y \in Screens /\ y \notin MainScreens
      /\ <<>> \in Seq(Screens) /\ channel \in Queues
  BY EmptySeq DEF Screens, MainScreens, TypeInv
<1>4. y # "phone_entry" => \A c \in calls : c.kind \notin SignInKinds
  <2>1. Head(bus).event \in Events
    BY <1>1, BusTypes DEF TypeInv, RaisedType
  <2> QED
    BY <1>1, <2>1 DEF StepInv, BusInv, Events
<1> HIDE DEF y
<1>5. /\ stack' = Append(<<>>, y) /\ composed' = composed \cup {y} /\ Last(stack') = y
      /\ doomed' = (doomed \cup (ToSet(stack) \cap composed)) \ {y}
      /\ \A c \in calls' : (c \in calls /\ c.by # y) \/ c \in FirstCalls(y)
      /\ \A z \in Channels : channel'[z] = <<>> \/ (z # y /\ channel'[z] = channel[z])
      /\ \A z \in Channels : z \in Alive' /\ z # y => Lives(z)
  BY <1>1, <1>3, ClearFacts
<1>6. stack' = (IF y = "phone_entry" THEN AtPhone ELSE AtDeactivated)
  BY <1>3, <1>5, Shapes
<1>7. ToSet(stack') = {y}
  BY <1>3, <1>6, Shapes
<1>8. ShapeInv' /\ Top' \notin MainScreens
  BY <1>3, <1>5, <1>6 DEF ShapeInv, Stacks, PhoneFirst, Top
<1>9. calls' \subseteq calls /\ Silent'
  BY <1>2, <1>3, <1>5, FirstCallsOK DEF Silent
<1>10. OneAtATime' /\ NoOrphans' /\ BusInv' /\ HandoffInv'
  BY <1>1, <1>2, <1>9 DEF StepInv, OneAtATime, NoOrphans, BusInv, HandoffInv, Silent
<1>11. ~Working("request")' /\ (Working("verify")' => Working("verify"))
       /\ (Working("remedy")' => Working("remedy"))
  BY <1>2, <1>9 DEF Working
<1>12. Alive' \subseteq Alive \cup {y}
  BY <1>5, <1>7 DEF Alive
<1>13. WaitingInv'
  <2>1. Working("verify")' => ~FullCode'
    <3>1. SUFFICES ASSUME NEW c \in calls', c.kind = "verify" PROVE ~FullCode'
      BY DEF Working
    <3>2. c.by = "otp_entry" /\ c.by \in Alive'
      BY <3>1 DEF TypeInv, CallsOK, CallOK, Owner, Alive
    <3>3. Lives("otp_entry")
      BY <1>3, <1>5, <3>2 DEF Channels
    <3>4. ~FullCode
      BY <1>9, <3>1 DEF StepInv, WaitingInv, Working
    <3> QED
      BY <3>3, <3>4 DEF Lives, FullCode
  <2>2. Working("remedy")' => vm'.device_cap_reached.submitting
    <3>1. SUFFICES ASSUME NEW c \in calls', c.kind = "remedy" PROVE vm'.device_cap_reached.submitting
      BY DEF Working
    <3>2. c.by = "device_cap_reached" /\ c.by \in Alive'
      BY <3>1 DEF TypeInv, CallsOK, CallOK, Owner, Alive
    <3>3. Lives("device_cap_reached")
      BY <1>3, <1>5, <3>2 DEF Channels
    <3>4. vm.device_cap_reached.submitting
      BY <1>9, <3>1 DEF StepInv, WaitingInv, Working
    <3> QED
      BY <3>3, <3>4 DEF Lives
  <2> QED
    BY <1>9, <1>11, <2>1, <2>2 DEF WaitingInv, Silent, Channels
<1>14. CapAfterCode'
  BY <1>3, <1>7, <1>9, <1>11, <1>12 DEF StepInv, CapAfterCode, Silent, Channels
<1>15. PlaceInv'
  <2>1. Working("verify")' \/ Working("remedy")' => stack' \in PhoneFirst
    BY <1>4, <1>6, <1>11 DEF Working, SignInKinds, PhoneFirst
  <2> QED
    BY <1>3, <1>7, <1>9, <1>11, <2>1 DEF PlaceInv, Silent, Channels
<1> QED
  BY <1>2, <1>8, <1>10, <1>13, <1>14, <1>15 DEF StepInv

(* Back to a screen of the sign-in: the view models that are left keep     *)
(* waiting.                                                                *)
LEMMA PopStep ==
  ASSUME TypeInv, TypeInv', StepInv, NEW s \in {AtPhone, AtCode}, Pop(s),
         s = AtPhone => stack \in {AtCode, AtCap, AtLateCap},
         s = AtCode => stack = AtCap,
         handoff = None, UNCHANGED <<handoff, bus, listening>>
  PROVE  StepInv'
<1>1. /\ s \in Stacks /\ stack \in Stacks /\ stack # AtPhone /\ stack \in PhoneFirst
      /\ "otp_entry" \in ToSet(s) => "otp_entry" \in ToSet(stack)
  BY StackFacts, Shapes DEF Stacks, PhoneFirst
<1>2. s \in Seq(Screens) /\ s # <<>>
  <2>1. stack' = s
    BY DEF Pop, Restack
  <2> QED
    BY <2>1 DEF TypeInv, ScreensOK
<1>3. /\ stack' = s /\ composed' = composed \cup {Last(s)}
      /\ doomed' = (doomed \cup (ToSet(stack) \cap composed)) \ ToSet(s)
      /\ calls' \subseteq calls
      /\ \A y \in Channels : channel'[y] = <<>> \/ channel'[y] = channel[y]
      /\ \A y \in Channels : y \notin Alive' => channel'[y] = <<>>
      /\ \A y \in Channels : y \in Alive' => Lives(y)
  BY <1>2, PopFacts
<1>4. ShapeInv' /\ NoOrphans' /\ HandoffInv'
  BY <1>1, <1>3 DEF ShapeInv, NoOrphans, HandoffInv, Top
<1>5. \A k : Working(k)' => Working(k)
  BY <1>3 DEF Working
<1>6. ~Working("request") /\ channel["phone_entry"] = <<>>
  BY <1>1 DEF StepInv, PlaceInv
<1>7. OneAtATime'
  BY <1>3 DEF StepInv, OneAtATime, Silent
<1>8. Working("verify")' \/ channel'["otp_entry"] # <<>> => ~FullCode'
  <2>1. SUFFICES ASSUME Working("verify")' \/ channel'["otp_entry"] # <<>>
                 PROVE  ~FullCode'
    OBVIOUS
  <2>2. "otp_entry" \in Alive'
    <3>1. CASE channel'["otp_entry"] # <<>>
      BY <1>3, <3>1 DEF Channels
    <3>2. CASE Working("verify")'
      BY <3>2 DEF Working, TypeInv, CallsOK, CallOK, Owner, Alive
    <3> QED
      BY <2>1, <3>1, <3>2
  <2>3. ~FullCode
    BY <1>3, <1>5, <2>1 DEF StepInv, WaitingInv, Channels
  <2> QED
    BY <1>3, <2>2, <2>3 DEF Lives, Channels, FullCode
<1>9. Working("remedy")' => vm'.device_cap_reached.submitting
  <2>1. SUFFICES ASSUME Working("remedy")' PROVE vm'.device_cap_reached.submitting
    OBVIOUS
  <2>2. "device_cap_reached" \in Alive'
    BY <2>1 DEF Working, TypeInv, CallsOK, CallOK, Owner, Alive
  <2>3. vm.device_cap_reached.submitting
    BY <1>5, <2>1 DEF StepInv, WaitingInv
  <2> QED
    BY <1>3, <2>2, <2>3 DEF Lives, Channels
<1>10. WaitingInv'
  BY <1>5, <1>6, <1>8, <1>9 DEF WaitingInv
<1>11. CapAfterCode'
  <2>1. SUFFICES ASSUME "device_cap_reached" \in Alive' PROVE CapAfterCode'
    BY DEF CapAfterCode
  <2>2. "device_cap_reached" \in Alive
    BY <1>1, <1>3, <2>1, Shapes DEF Alive
  <2>3. "otp_entry" \in ToSet(s) => ~FullCode'
    BY <1>1, <1>3, <2>2 DEF StepInv, CapAfterCode, Lives, Channels, Alive, FullCode
  <2> QED
    BY <1>3, <1>5, <2>2, <2>3 DEF StepInv, CapAfterCode, Channels
<1>12. PlaceInv'
  <2>1. ~Working("request")' /\ channel'["phone_entry"] = <<>>
    BY <1>3, <1>5, <1>6 DEF Channels
  <2>2. stack' \in PhoneFirst
    BY <1>3 DEF PhoneFirst
  <2>3. "otp_entry" \in ToSet(s) => doomed' \subseteq {"device_cap_reached"}
    <3>1. SUFFICES ASSUME "otp_entry" \in ToSet(s) PROVE doomed' \subseteq {"device_cap_reached"}
      OBVIOUS
    <3>2. doomed \subseteq {"device_cap_reached"}
      BY <1>1, <3>1 DEF StepInv, PlaceInv
    <3>3. ToSet(s) = {"phone_entry", "otp_entry"} /\ ToSet(stack) \subseteq Channels
      <4>1. s = AtCode
        BY <3>1, Shapes
      <4>2. ToSet(stack) \subseteq Channels
        BY <1>1, StackFacts
      <4> QED
        BY <4>1, <4>2, Shapes
    <3> QED
      BY <1>3, <3>2, <3>3 DEF Channels
  <2> QED
    BY <1>3, <2>1, <2>2, <2>3 DEF PlaceInv
<1>13. BusInv'
  BY <1>1, <1>3, <1>5, <1>6 DEF StepInv, BusInv, Silent
<1> QED
  BY <1>4, <1>7, <1>10, <1>11, <1>12, <1>13 DEF StepInv

LEMMA ComposeCapStep ==
  ASSUME TypeInv, TypeInv', StepInv, ComposeCap
  PROVE  StepInv'
<1>1. stack \in {AtCap, AtLateCap} /\ UNCHANGED <<bus, listening>>
  BY StackFacts DEF StepInv, ShapeInv, ComposeCap, CapWaits, Top
<1>2. CASE handoff # None
  <2>1. /\ vm' = [vm EXCEPT !.device_cap_reached =
                            [Fresh.device_cap_reached EXCEPT !.ticket = handoff]]
        /\ handoff' = None
        /\ UNCHANGED <<stack, composed, doomed, channel, calls>>
    BY <1>2 DEF ComposeCap
  <2>2. calls = {} /\ Silent /\ bus = <<>>
    BY <1>2 DEF StepInv, HandoffInv
  <2>3. vm'.otp_entry = vm.otp_entry
    BY <2>1 DEF TypeInv, ViewModels
  <2>4. ShapeInv' /\ Silent' /\ HandoffInv'
    BY <1>1, <2>1, <2>2 DEF StepInv, ShapeInv, Silent, HandoffInv, Top
  <2>5. "device_cap_reached" \in Alive' /\ "otp_entry" \in ToSet(stack') => ~FullCode'
    BY <2>1, <2>3 DEF StepInv, CapAfterCode, Alive, FullCode
  <2>6. "otp_entry" \in ToSet(stack') => doomed' \subseteq {"device_cap_reached"}
    BY <2>1 DEF StepInv, PlaceInv
  <2> QED
    BY <1>1, <2>1, <2>2, <2>4, <2>5, <2>6, NoStep
<1>3. CASE handoff = None
  <2>1. Pop(Front(stack)) /\ UNCHANGED handoff
    BY <1>3 DEF ComposeCap
  <2>2. CASE stack = AtCap
    <3>1. Front(stack) = AtCode /\ AtCode # AtPhone
      BY <2>2, Shapes
    <3> QED
      BY <1>1, <1>3, <2>1, <2>2, <3>1, PopStep
  <2>3. CASE stack = AtLateCap
    <3>1. Front(stack) = AtPhone /\ AtCode # AtPhone
      BY <2>3, Shapes
    <3> QED
      BY <1>1, <1>3, <2>1, <2>3, <3>1, PopStep
  <2> QED
    BY <1>1, <2>2, <2>3
<1> QED
  BY <1>2, <1>3

-----------------------------------------------------------------------------
(* The viewer *)

(* Navigation among the main screens and away from them.                   *)
LEMMA LeaveStep ==
  ASSUME TypeInv, TypeInv', StepInv, Idle, Top \notin Channels,
         \/ \E y \in {"settings", "devices"} : Push(stack, y, channel)
         \/ Push(<<>>, "phone_entry", channel)
         \/ Len(stack) > 1 /\ Pop(Front(stack)),
         stack' \in Stacks, "otp_entry" \notin ToSet(stack'),
         UNCHANGED <<handoff, bus, listening>>
  PROVE  StepInv'
<1>1. /\ Silent /\ bus = <<>> /\ handoff = None
      /\ \A c \in calls : c.kind \notin SignInKinds
      /\ stack \in Seq(Screens) /\ channel \in Queues
  BY IdleFacts DEF TypeInv, ScreensOK
<1>2. /\ ShapeInv' /\ Silent' /\ \A c \in calls' : c.kind \notin SignInKinds
  <2>1. CASE \E y \in {"settings", "devices"} : Push(stack, y, channel)
    <3>1. PICK y \in {"settings", "devices"} : Push(stack, y, channel)
      BY <2>1
    <3>2. y \in Screens
      BY DEF Screens, MainScreens
    <3>3. /\ composed' = composed \cup {y} /\ Last(stack') = y
          /\ \A c \in calls' : (c \in calls /\ c.by # y) \/ c \in FirstCalls(y)
          /\ \A z \in Channels : channel'[z] = <<>> \/ (z # y /\ channel'[z] = channel[z])
      BY <1>1, <3>1, <3>2, PushFacts
    <3>4. \A c \in FirstCalls(y) : c.kind \notin SignInKinds
      BY <3>2, FirstCallsOK DEF SignInKinds
    <3> QED
      BY <1>1, <3>3, <3>4 DEF ShapeInv, Silent, Top
  <2>2. CASE Push(<<>>, "phone_entry", channel)
    <3>1. "phone_entry" \in Screens /\ "phone_entry" \notin MainScreens
      BY DEF Screens, MainScreens
    <3>2. /\ composed' = composed \cup {"phone_entry"} /\ Last(stack') = "phone_entry"
          /\ \A c \in calls' : (c \in calls /\ c.by # "phone_entry")
                               \/ c \in FirstCalls("phone_entry")
          /\ \A z \in Channels : channel'[z] = <<>> \/ (z # "phone_entry" /\ channel'[z] = channel[z])
      BY <1>1, <2>2, <3>1, ClearFacts
    <3>3. \A c \in FirstCalls("phone_entry") : c.kind \notin SignInKinds
      BY <3>1, FirstCallsOK DEF SignInKinds
    <3> QED
      BY <1>1, <3>2, <3>3 DEF ShapeInv, Silent, Top
  <2>3. CASE Len(stack) > 1 /\ Pop(Front(stack))
    <3>1. Front(stack) \in Seq(Screens) /\ Front(stack) # <<>>
      BY <1>1, <2>3, FrontScreens
    <3>2. /\ stack' = Front(stack) /\ composed' = composed \cup {Last(Front(stack))}
          /\ calls' \subseteq calls
          /\ \A y \in Channels : channel'[y] = <<>> \/ channel'[y] = channel[y]
      BY <2>3, <3>1, PopFacts
    <3> QED
      BY <1>1, <3>2 DEF ShapeInv, Silent, Top
  <2> QED
    BY <2>1, <2>2, <2>3
<1> QED
  BY <1>1, <1>2, NoStep DEF HandoffInv

LEMMA BackStep ==
  ASSUME TypeInv, TypeInv', StepInv, Back, UNCHANGED <<handoff, bus, listening>>
  PROVE  StepInv'
<1>1. Idle /\ Len(stack) > 1 /\ Pop(Front(stack)) /\ stack \in Stacks
  BY DEF Back, StepInv, ShapeInv
<1>2. handoff = None
  BY <1>1, IdleFacts
<1>3. CASE stack = AtCode
  <2>1. Front(stack) = AtPhone /\ AtCode # AtPhone
    BY <1>3, Shapes
  <2> QED
    BY <1>1, <1>2, <1>3, <2>1, PopStep
<1>4. CASE stack = AtCap
  <2>1. Front(stack) = AtCode /\ AtCode # AtPhone
    BY <1>4, Shapes
  <2> QED
    BY <1>1, <1>2, <1>4, <2>1, PopStep
<1>5. CASE stack = AtLateCap
  <2>1. Front(stack) = AtPhone /\ AtCode # AtPhone
    BY <1>5, Shapes
  <2> QED
    BY <1>1, <1>2, <1>5, <2>1, PopStep
<1>6. CASE stack \in {AtSettings, AtDevices}
  <2>1. Top \notin Channels
    BY <1>6, Shapes DEF Top, Channels
  <2>2. Front(stack) \in {AtHistory, AtSettings}
    BY <1>6, Shapes
  <2>3. stack' = Front(stack)
    BY <1>1 DEF Pop, Restack
  <2>4. stack' \in Stacks /\ "otp_entry" \notin ToSet(stack')
    BY <2>2, <2>3, Shapes DEF Stacks
  <2> QED
    BY <1>1, <2>1, <2>4, LeaveStep
<1>7. stack \notin {AtPhone, AtDeactivated, AtHistory}
  <2>1. Len(AtPhone) = 1 /\ Len(AtDeactivated) = 1 /\ Len(AtHistory) = 1
    BY Shapes
  <2>2. Len(stack) # 1
    <3>1. Len(stack) \in Nat /\ \A n \in Nat : n > 1 => n # 1
      BY LenProperties DEF TypeInv, ScreensOK
    <3> QED
      BY <1>1, <3>1
  <2> QED
    BY <2>1, <2>2
<1> QED
  BY <1>1, <1>3, <1>4, <1>5, <1>6, <1>7 DEF Stacks, PhoneFirst

LEMMA CancelCapStep ==
  ASSUME TypeInv, TypeInv', StepInv, CancelCap, UNCHANGED <<handoff, bus, listening>>
  PROVE  StepInv'
<1>1. /\ Idle /\ Top = "device_cap_reached"
      /\ Pop(Append(Below("phone_entry"), "phone_entry"))
  BY DEF CancelCap, OnScreen
<1>2. stack \in {AtCap, AtLateCap} /\ handoff = None
  BY <1>1, IdleFacts
<1>3. Below("phone_entry") = <<>>
  BY <1>2, BelowPhone DEF PhoneFirst
<1>4. Pop(AtPhone) /\ AtCode # AtPhone
  <2>1. Append(<<>>, "phone_entry") = AtPhone /\ AtCode # AtPhone
    BY Shapes
  <2> QED
    BY <1>1, <1>3, <2>1
<1> QED
  BY <1>2, <1>4, PopStep

LEMMA OpenStep ==
  ASSUME TypeInv, TypeInv', StepInv, Open \/ SignInAgain \/ Logout,
         UNCHANGED <<handoff, bus, listening>>
  PROVE  StepInv' /\ Silent
<1>1. stack \in Stacks /\ stack \in Seq(Screens) /\ channel \in Queues
  BY DEF StepInv, ShapeInv, TypeInv, ScreensOK
<1>2. Idle /\ Top \notin Channels
  BY DEF Open, SignInAgain, Logout, OnScreen, Channels
<1>3. CASE Open
  <2>1. PICK y \in {"settings", "devices"} :
          /\ Push(stack, y, channel)
          /\ Top = (IF y = "settings" THEN "signed_in" ELSE "settings")
    BY <1>3 DEF Open, OnScreen
  <2>2. y \in Screens
    BY DEF Screens, MainScreens
  <2>3. stack' = Append(stack, y)
    BY <1>1, <2>1, <2>2, PushFacts
  <2>4. stack = (IF y = "settings" THEN AtHistory ELSE AtSettings)
    BY <1>1, <2>1, StackFacts DEF Top
  <2>5. stack' \in {AtSettings, AtDevices}
    BY <2>3, <2>4, Shapes
  <2>6. stack' \in Stacks /\ "otp_entry" \notin ToSet(stack')
    BY <2>5, Shapes DEF Stacks
  <2> QED
    BY <1>2, <2>1, <2>6, LeaveStep, IdleFacts
<1>4. CASE SignInAgain \/ Logout
  <2>1. Push(<<>>, "phone_entry", channel)
    BY <1>4 DEF SignInAgain, Logout
  <2>2. "phone_entry" \in Screens
    BY DEF Screens
  <2>3. stack' = Append(<<>>, "phone_entry")
    BY <1>1, <2>1, <2>2, ClearFacts
  <2>4. stack' = AtPhone
    BY <2>3, Shapes
  <2>5. stack' \in Stacks /\ "otp_entry" \notin ToSet(stack')
    BY <2>4, Shapes DEF Stacks, PhoneFirst
  <2> QED
    BY <1>2, <2>1, <2>5, LeaveStep, IdleFacts
<1> QED
  BY <1>3, <1>4

(* A tap that adds a step to a state without one.                          *)
LEMMA OneStep ==
  ASSUME ShapeInv', Silent', NEW c, calls' = {c}, HandoffInv',
         WaitingInv', CapAfterCode', PlaceInv', BusInv'
  PROVE  StepInv'
BY DEF StepInv, OneAtATime, NoOrphans, Silent

(* A code screen with a full code to submit: nothing is under way.         *)
LEMMA CodeFree ==
  ASSUME TypeInv, StepInv, "otp_entry" \in ToSet(stack), FullCode
  PROVE  /\ stack = AtCode /\ doomed = {} /\ calls = {} /\ Silent /\ handoff = None
         /\ ToSet(stack) = {"phone_entry", "otp_entry"}
         /\ bus # <<>> => Head(bus).event # "DeviceDeactivated"
<1>1. "device_cap_reached" \notin Alive
  BY DEF StepInv, CapAfterCode
<1>2. stack = AtCode
  <2>1. stack \in {AtCode, AtCap}
    BY StackFacts DEF StepInv, ShapeInv
  <2> QED
    BY <1>1, <2>1, StackFacts DEF Alive, Stacks, PhoneFirst
<1>3. ToSet(stack) = {"phone_entry", "otp_entry"} /\ stack # AtPhone
  BY <1>2, Shapes
<1>4. doomed = {}
  BY <1>1 DEF StepInv, PlaceInv, Alive
<1>5. ~Working("request") /\ ~Working("verify") /\ channel["phone_entry"] = <<>>
      /\ channel["otp_entry"] = <<>>
  BY <1>3 DEF StepInv, PlaceInv, WaitingInv
<1>6. calls = {}
  <2>1. SUFFICES ASSUME NEW c \in calls PROVE FALSE
    OBVIOUS
  <2>2. c.by \in {"phone_entry", "otp_entry"}
    BY <1>3, <1>4, Callers DEF Alive
  <2> QED
    BY <1>5, <2>2, Callers DEF Working
<1>7. Silent
  BY <1>1, <1>5 DEF StepInv, NoOrphans, Silent, Channels
<1>8. handoff = None
  <2>1. Top = "otp_entry"
    BY <1>2, Shapes DEF Top
  <2> QED
    BY <2>1 DEF StepInv, HandoffInv
<1>9. bus # <<>> => Head(bus).event # "DeviceDeactivated"
  BY DEF StepInv, BusInv
<1> QED
  BY <1>2, <1>3, <1>4, <1>6, <1>7, <1>8, <1>9

(* One verification starts, and nothing else is under way.                 *)
LEMMA CodeStep ==
  ASSUME TypeInv, StepInv, stack = AtCode, doomed = {}, calls = {}, Silent, handoff = None,
         bus # <<>> => Head(bus).event # "DeviceDeactivated",
         NEW arg \in {"phone", "noPhone"}, Submit(arg),
         UNCHANGED <<stack, composed, doomed, channel, handoff, bus, listening>>
  PROVE  StepInv'
<1>1. ToSet(stack) = {"phone_entry", "otp_entry"}
  BY CodeShape
<1>2. /\ ShapeInv' /\ Silent' /\ HandoffInv'
      /\ "device_cap_reached" \notin Alive' /\ doomed' = {} /\ stack' \in PhoneFirst
  BY <1>1 DEF StepInv, ShapeInv, Silent, HandoffInv, Alive, Top, PhoneFirst
<1>3. PICK c : c.kind = "verify" /\ calls' = {c}
  <2>1. Owner(Call("otp_entry", "verify", arg))
    BY DEF Owner, Call
  <2>2. "otp_entry" \in Screens /\ "verify" \in Kinds /\ arg \in Args
    BY DEF Screens, Kinds, Args
  <2>3. Launch(Call("otp_entry", "verify", arg), calls)
    BY DEF Submit
  <2> QED
    BY <2>1, <2>2, <2>3, Launched
<1>4. ~FullCode'
  BY DEF FullCode, Submit, Submitting, TypeInv, ViewModels
<1>5. ~Working("request")' /\ ~Working("remedy")'
  BY <1>3 DEF Working
<1>6. WaitingInv' /\ CapAfterCode' /\ PlaceInv'
  BY <1>2, <1>3, <1>4, <1>5 DEF WaitingInv, CapAfterCode, PlaceInv, Silent, Channels
<1>7. BusInv'
  BY <1>2, <1>5 DEF StepInv, BusInv
<1> QED
  BY <1>2, <1>3, <1>6, <1>7, OneStep

LEMMA RecomposeStep ==
  ASSUME TypeInv, StepInv, Recompose
  PROVE  StepInv'
<1>1. "otp_entry" \in ToSet(stack)
  BY DEF Recompose, CodeWaits, TypeInv, ScreensOK
<1>2. UNCHANGED <<stack, composed, doomed, channel, handoff, bus, listening>>
  BY DEF Recompose
<1>3. CASE FullCode
  <2>1. /\ stack = AtCode /\ doomed = {} /\ calls = {} /\ Silent /\ handoff = None
        /\ bus # <<>> => Head(bus).event # "DeviceDeactivated"
    BY <1>1, <1>3, CodeFree
  <2>2. Submit("phone")
    BY <1>3 DEF Recompose, FullCode
  <2> QED
    BY <1>2, <2>1, <2>2, CodeStep
<1>4. CASE ~FullCode
  <2>1. UNCHANGED <<vm, calls>>
    BY <1>4 DEF Recompose, FullCode
  <2> QED
    BY <1>2, <2>1, SameStep
<1> QED
  BY <1>3, <1>4

(* The viewer edits the code.  While a verification runs only six digits   *)
(* start another, and then the two overlap.                                *)
LEMMA TypeCodeStep ==
  ASSUME TypeInv, StepInv, ~overlapped', TypeCode \/ TapVerify,
         UNCHANGED <<handoff, bus, listening>>
  PROVE  StepInv'
<1>1. Idle /\ Top = "otp_entry" /\ UNCHANGED <<stack, composed, doomed, channel>>
  BY DEF TypeCode, TapVerify, OnScreen
<1>2. /\ Silent /\ bus = <<>> /\ handoff = None /\ doomed = {} /\ stack = AtCode
      /\ \A c \in calls : c.kind = "verify"
  BY <1>1, IdleFacts
<1>3. CASE \E arg \in {"phone", "noPhone"} : Submit(arg)
  <2>1. PICK arg \in {"phone", "noPhone"} : Submit(arg)
    BY <1>3
  <2>2. calls = {}
    BY <1>2, <2>1 DEF Submit, Verifying
  <2> QED
    BY <1>1, <1>2, <2>1, <2>2, CodeStep
<1>4. CASE UNCHANGED calls /\ ~FullCode' /\ vm'.phone_entry = vm.phone_entry
           /\ vm'.device_cap_reached = vm.device_cap_reached
  <2>1. ToSet(stack') = {"phone_entry", "otp_entry"}
    BY <1>1, <1>2, CodeShape
  <2>2. ShapeInv' /\ OneAtATime' /\ NoOrphans' /\ PlaceInv' /\ BusInv' /\ HandoffInv'
    BY <1>1, <1>2, <1>4 DEF StepInv, ShapeInv, OneAtATime, NoOrphans, PlaceInv, BusInv, HandoffInv,
                      Working, Silent, Top, Alive
  <2>3. WaitingInv'
    BY <1>4 DEF StepInv, WaitingInv, Working
  <2>4. CapAfterCode'
    BY <1>1, <1>2, <2>1 DEF CapAfterCode, Alive
  <2> QED
    BY <2>2, <2>3, <2>4 DEF StepInv
<1>5. CASE UNCHANGED calls /\ vm' = [vm EXCEPT !.otp_entry = Ready("", "")]
  BY <1>4, <1>5 DEF FullCode, Ready, TypeInv, ViewModels
<1>6. CASE /\ UNCHANGED calls /\ vm.otp_entry.ui = "ready" /\ vm.otp_entry.code # "full"
           /\ vm' = [vm EXCEPT !.otp_entry.error = "other"]
  <2>1. vm.otp_entry \in [ui : {"ready"}, code : {"", "full"}, error : {"", "refused", "other"}]
    BY <1>6 DEF TypeInv, ViewModels, OtpType
  <2>2. /\ vm'.otp_entry = [vm.otp_entry EXCEPT !.error = "other"]
        /\ vm'.phone_entry = vm.phone_entry
        /\ vm'.device_cap_reached = vm.device_cap_reached
    BY <1>6 DEF TypeInv, ViewModels
  <2>3. vm'.otp_entry.code # "full"
    BY <1>6, <2>1, <2>2
  <2> QED
    BY <1>4, <1>6, <2>2, <2>3 DEF FullCode
<1> QED
  BY <1>3, <1>5, <1>6 DEF TypeCode, TapVerify

LEMMA SendCodeStep ==
  ASSUME TypeInv, StepInv, SendCode, UNCHANGED <<handoff, bus, listening>>
  PROVE  StepInv'
<1>1. /\ Idle /\ Top = "phone_entry" /\ vm.phone_entry = "ready"
      /\ vm' = [vm EXCEPT !.phone_entry = "submitting"]
      /\ calls' = calls \cup {Call("phone_entry", "request", "-")}
      /\ UNCHANGED <<stack, composed, doomed, channel>>
  BY DEF SendCode, OnScreen
<1>2. /\ Silent /\ bus = <<>> /\ handoff = None /\ doomed = {} /\ stack = AtPhone
      /\ \A c \in calls : c.kind = "request"
  BY <1>1, IdleFacts
<1>3. calls = {}
  BY <1>1, <1>2 DEF StepInv, WaitingInv, Working
<1> DEFINE c == Call("phone_entry", "request", "-")
<1>4. c.kind = "request" /\ calls' = {c}
  BY <1>1, <1>3 DEF Call
<1> HIDE DEF c
<1>5. vm'.phone_entry = "submitting"
  BY <1>1 DEF TypeInv, ViewModels
<1>6. ToSet(stack') = {"phone_entry"}
  BY <1>1, <1>2, Shapes
<1>7. ~Working("verify")' /\ ~Working("remedy")'
  BY <1>4 DEF Working
<1>8. ShapeInv' /\ Silent' /\ HandoffInv' /\ BusInv'
  BY <1>1, <1>2 DEF StepInv, ShapeInv, Silent, HandoffInv, BusInv, Top
<1>9. WaitingInv' /\ CapAfterCode' /\ PlaceInv'
  BY <1>1, <1>2, <1>5, <1>6, <1>7, <1>8
     DEF WaitingInv, CapAfterCode, PlaceInv, Silent, Alive, Channels
<1> QED
  BY <1>4, <1>8, <1>9, OneStep

LEMMA ConfirmDeviceStep ==
  ASSUME TypeInv, StepInv, ConfirmDevice, UNCHANGED <<handoff, bus, listening>>
  PROVE  StepInv'
<1>1. /\ Idle /\ Top = "device_cap_reached" /\ ~vm.device_cap_reached.submitting
      /\ vm' = [vm EXCEPT !.device_cap_reached.submitting = TRUE]
      /\ calls' = calls \cup {Call("device_cap_reached", "remedy", "-")}
      /\ UNCHANGED <<stack, composed, doomed, channel>>
  BY DEF ConfirmDevice, OnScreen
<1>2. /\ Silent /\ bus = <<>> /\ handoff = None /\ doomed = {}
      /\ stack \in {AtCap, AtLateCap} /\ \A c \in calls : c.kind = "remedy"
  BY <1>1, IdleFacts
<1>3. calls = {}
  BY <1>1, <1>2 DEF StepInv, WaitingInv, Working
<1> DEFINE c == Call("device_cap_reached", "remedy", "-")
<1>4. c.kind = "remedy" /\ calls' = {c}
  BY <1>1, <1>3 DEF Call
<1> HIDE DEF c
<1>5. vm'.device_cap_reached.submitting /\ vm'.otp_entry = vm.otp_entry
  BY <1>1 DEF TypeInv, ViewModels
<1>6. ~Working("verify")' /\ ~Working("request")'
  BY <1>4 DEF Working
<1>7. ShapeInv' /\ Silent' /\ HandoffInv' /\ BusInv'
  BY <1>1, <1>2 DEF StepInv, ShapeInv, Silent, HandoffInv, BusInv, Top
<1>8. CapAfterCode'
  BY <1>1, <1>5, <1>6, <1>7 DEF StepInv, CapAfterCode, Silent, Alive, Channels, FullCode
<1>9. WaitingInv' /\ PlaceInv'
  BY <1>1, <1>2, <1>5, <1>6, <1>7 DEF WaitingInv, PlaceInv, Silent, Channels, PhoneFirst
<1> QED
  BY <1>4, <1>7, <1>8, <1>9, OneStep

LEMMA StaysStep ==
  ASSUME TypeInv, StepInv, ~overlapped', Stays,
         UNCHANGED <<token, handoff, bus, listening, backend, restarts>>
  PROVE  StepInv'
<1>1. UNCHANGED <<stack, composed, doomed, channel>>
  BY DEF Stays, SendCode, TypeCode, TapVerify, SelectDevice, ConfirmDevice, AskDeactivate,
         ConfirmDeactivate
<1>2. CASE SendCode
  BY <1>2, SendCodeStep
<1>3. CASE TypeCode \/ TapVerify
  BY <1>3, TypeCodeStep
<1>4. CASE SelectDevice \/ AskDeactivate
  <2>1. handoff = None /\ UNCHANGED calls
    BY <1>4, IdleFacts DEF SelectDevice, AskDeactivate, OnScreen
  <2>2. /\ vm'.phone_entry = vm.phone_entry /\ vm'.otp_entry = vm.otp_entry
        /\ vm'.device_cap_reached.submitting = vm.device_cap_reached.submitting
    BY <1>4 DEF SelectDevice, AskDeactivate, TypeInv, ViewModels
  <2>3. ShapeInv' /\ OneAtATime' /\ NoOrphans' /\ PlaceInv' /\ BusInv' /\ HandoffInv'
    BY <1>1, <2>1 DEF StepInv, ShapeInv, OneAtATime, NoOrphans, PlaceInv, BusInv, HandoffInv,
                      Working, Silent, Top, Alive
  <2>4. WaitingInv' /\ CapAfterCode'
    BY <1>1, <2>1, <2>2 DEF StepInv, WaitingInv, CapAfterCode, Working, Alive, FullCode
  <2> QED
    BY <2>3, <2>4 DEF StepInv
<1>5. CASE ConfirmDevice
  BY <1>5, ConfirmDeviceStep
<1>6. CASE ConfirmDeactivate
  <2>1. /\ Idle /\ Top \notin Channels /\ UNCHANGED vm
        /\ Launch(Call("devices", "deactivate", vm.devices.confirm), calls)
    BY <1>6 DEF ConfirmDeactivate, OnScreen, Channels
  <2>2. /\ Silent /\ bus = <<>> /\ handoff = None /\ doomed = {} /\ stack \notin PhoneFirst
        /\ \A c \in calls : c.kind \notin SignInKinds
    BY <2>1, IdleFacts
  <2>3. \A c \in calls' : c.kind \notin SignInKinds
    <3> DEFINE d == vm.devices.confirm
    <3>1. /\ "devices" \in Screens /\ "deactivate" \in Kinds /\ d \in Args
          /\ "deactivate" \notin SignInKinds
      BY DEF Screens, MainScreens, Kinds, Args, SignInKinds, TypeInv, ViewModels
    <3>2. Launch(Call("devices", "deactivate", d), calls)
      BY <2>1
    <3> HIDE DEF d
    <3>3. Owner(Call("devices", "deactivate", d))
      BY DEF Owner, Call
    <3>4. \A c \in calls' : c \in calls \/ c.kind = "deactivate"
      BY <3>1, <3>2, <3>3, Launched
    <3> QED
      BY <2>2, <3>1, <3>4
  <2>4. "otp_entry" \notin ToSet(stack')
    BY <1>1, <2>2, StackFacts DEF StepInv, ShapeInv, PhoneFirst
  <2>5. ShapeInv' /\ Silent' /\ HandoffInv'
    BY <1>1, <2>2 DEF StepInv, ShapeInv, Silent, HandoffInv, Top
  <2> QED
    BY <2>2, <2>3, <2>4, <2>5, NoStep
<1> QED
  BY <1>2, <1>3, <1>4, <1>5, <1>6 DEF Stays

-----------------------------------------------------------------------------
(* The platform *)

LEMMA SettleStep ==
  ASSUME TypeInv, TypeInv', StepInv, Settle
  PROVE  StepInv'
<1>1. /\ composed' = {Top} /\ doomed' = {} /\ Keep(ToSet(stack), vm, calls, channel, FALSE)
      /\ UNCHANGED <<stack, handoff, bus, listening>>
  BY DEF Settle
<1>2. /\ calls' = {c \in calls : c.by \in ToSet(stack)}
      /\ \A y \in Channels : channel'[y] = IF y \in ToSet(stack) THEN channel[y] ELSE <<>>
      /\ \A y \in Channels : y \in ToSet(stack) => vm'[y] = vm[y]
  BY <1>1, KeepFacts DEF TypeInv
<1>3. \A k : Working(k)' => Working(k)
  BY <1>2 DEF Working
<1>4. ShapeInv' /\ OneAtATime' /\ NoOrphans'
  BY <1>1, <1>2 DEF StepInv, ShapeInv, OneAtATime, NoOrphans, Silent, Top, Alive
<1>5. /\ Working("request")' => "phone_entry" \in ToSet(stack)
      /\ Working("verify")' => "otp_entry" \in ToSet(stack)
      /\ Working("remedy")' => "device_cap_reached" \in ToSet(stack)
  BY <1>1 DEF Working, TypeInv, CallsOK, CallOK, Owner
<1>6. WaitingInv'
  BY <1>2, <1>3, <1>5 DEF StepInv, WaitingInv, Channels, FullCode
<1>7. CapAfterCode'
  BY <1>1, <1>2, <1>3 DEF StepInv, CapAfterCode, Alive, Channels, FullCode
<1>8. PlaceInv'
  BY <1>1, <1>2, <1>3 DEF StepInv, PlaceInv, Channels
<1>9. BusInv'
  BY <1>1, <1>2, <1>3 DEF StepInv, BusInv, Silent
<1>10. HandoffInv'
  <2>1. Top \in ToSet(stack)
    BY LastIn DEF TypeInv, ScreensOK, Top
  <2> QED
    BY <1>1, <1>2, <2>1 DEF StepInv, HandoffInv, Silent, Top, Channels
<1> QED
  BY <1>4, <1>6, <1>7, <1>8, <1>9, <1>10 DEF StepInv

LEMMA ForgetFacts ==
  ASSUME TypeInv
  PROVE  /\ Forget(vm) \in ViewModels
         /\ Forget(vm).phone_entry = vm.phone_entry /\ Forget(vm).otp_entry = vm.otp_entry
         /\ Forget(vm).device_cap_reached.submitting = vm.device_cap_reached.submitting
         /\ Forget(vm).device_cap_reached.ticket = None
BY ClientBoundsAssumption DEF Forget, TypeInv, ViewModels, None

LEMMA DestroyStep ==
  ASSUME TypeInv, TypeInv', StepInv, Destroy
  PROVE  StepInv'
<1> DEFINE v == Forget(vm)
           lost == bus # <<>>
<1>1. /\ listening' = FALSE /\ composed' = {} /\ doomed' = {} /\ bus' = <<>>
      /\ Keep(ToSet(stack), v, calls, channel, lost) /\ UNCHANGED <<stack, handoff>>
      /\ lost \in BOOLEAN
  BY DEF Destroy
<1>2. /\ v \in ViewModels /\ v.phone_entry = vm.phone_entry /\ v.otp_entry = vm.otp_entry
      /\ v.device_cap_reached.submitting = vm.device_cap_reached.submitting
      /\ v.device_cap_reached.ticket = None
  BY ForgetFacts
<1> HIDE DEF v, lost
<1>3. /\ calls' = {c \in calls : c.by \in ToSet(stack)}
      /\ \A y \in Channels : channel'[y] = IF y \in ToSet(stack) THEN channel[y] ELSE <<>>
      /\ \A y \in Channels : y \in ToSet(stack) => vm'[y] = v[y]
  BY <1>1, <1>2, KeepFacts
<1>4. \A k : Working(k)' => Working(k)
  BY <1>3 DEF Working
<1>5. ShapeInv' /\ OneAtATime' /\ NoOrphans' /\ BusInv'
  BY <1>1, <1>3 DEF StepInv, ShapeInv, OneAtATime, NoOrphans, BusInv, Silent, Alive
<1>6. /\ Working("request")' => "phone_entry" \in ToSet(stack)
      /\ Working("verify")' => "otp_entry" \in ToSet(stack)
      /\ Working("remedy")' => "device_cap_reached" \in ToSet(stack)
  BY <1>1 DEF Working, TypeInv, CallsOK, CallOK, Owner
<1>7. WaitingInv'
  BY <1>2, <1>3, <1>4, <1>6 DEF StepInv, WaitingInv, Channels, FullCode
<1>8. CapAfterCode'
  BY <1>1, <1>2, <1>3, <1>4 DEF StepInv, CapAfterCode, Alive, Channels, FullCode
<1>9. PlaceInv'
  BY <1>1, <1>3, <1>4 DEF StepInv, PlaceInv, Channels
<1>10. HandoffInv'
  <2>1. Top \in ToSet(stack)
    BY LastIn DEF TypeInv, ScreensOK, Top
  <2> QED
    BY <1>1, <1>2, <1>3, <2>1 DEF StepInv, HandoffInv, Silent, Top, Channels
<1> QED
  BY <1>5, <1>7, <1>8, <1>9, <1>10 DEF StepInv

LEMMA RecreateStep ==
  ASSUME TypeInv, StepInv, Recreate
  PROVE  StepInv'
<1>1. composed' = {Top}
      /\ UNCHANGED <<stack, doomed, vm, handoff, channel, calls, bus>>
  BY DEF Recreate
<1> QED
  BY <1>1 DEF StepInv, ShapeInv, OneAtATime, WaitingInv, NoOrphans, CapAfterCode, PlaceInv,
              BusInv, HandoffInv, Working, Silent, Top, Alive, FullCode

LEMMA RelaunchStep ==
  ASSUME Relaunch
  PROVE  StepInv' /\ (token = None <=> Top' \notin MainScreens) /\ Silent'
<1> DEFINE x == Start(token)
<1>1. /\ stack' = <<x>> /\ composed' = {x} /\ doomed' = {} /\ handoff' = None
      /\ channel' = [y \in Channels |-> <<>>] /\ calls' = FirstCalls(x)
      /\ bus' = <<>>
  BY DEF Relaunch
<1>2. x = (IF token = None THEN "phone_entry" ELSE "signed_in") /\ x \in Screens
  BY DEF Start, Screens, MainScreens
<1> HIDE DEF x
<1>3. stack' = (IF token = None THEN AtPhone ELSE AtHistory) /\ Last(stack') = x
  <2>1. Last(<<x>>) = x
    BY <1>2, StartScreens
  <2> QED
    BY <1>1, <1>2, <2>1 DEF AtPhone, AtHistory
<1>4. "otp_entry" \notin ToSet(stack')
  <2>1. "otp_entry" \notin ToSet(AtPhone) /\ "otp_entry" \notin ToSet(AtHistory)
    BY Shapes
  <2> QED
    BY <1>3, <2>1
<1>5. ShapeInv' /\ Silent' /\ HandoffInv'
  BY <1>1, <1>3 DEF ShapeInv, Silent, HandoffInv, Stacks, PhoneFirst, Top
<1>6. \A c \in calls' : c.kind \notin SignInKinds
  BY <1>1, <1>2, FirstCallsOK DEF SignInKinds
<1>7. token = None <=> Top' \notin MainScreens
  BY <1>2, <1>3 DEF Top, MainScreens
<1> QED
  BY <1>1, <1>4, <1>5, <1>6, <1>7, NoStep

-----------------------------------------------------------------------------
(* The invariant *)

LEMMA StepInit == Init => StepInv
<1> SUFFICES ASSUME Init PROVE StepInv
  OBVIOUS
<1>1. stack = AtPhone /\ composed = {"phone_entry"} /\ doomed = {} /\ calls = {} /\ bus = <<>>
      /\ handoff = None /\ channel = [x \in Channels |-> <<>>]
  BY DEF Init, AtPhone
<1>2. Last(AtPhone) = "phone_entry" /\ ToSet(AtPhone) = {"phone_entry"}
  BY Shapes
<1>3. ShapeInv
  BY <1>1, <1>2 DEF ShapeInv, Stacks, PhoneFirst, Top
<1> QED
  BY <1>1, <1>2, <1>3 DEF StepInv, OneAtATime, WaitingInv, NoOrphans, CapAfterCode, PlaceInv,
              BusInv, HandoffInv, Working, Silent, Alive, Channels

LEMMA StepStep == TypeInv /\ TypeInv' /\ StepInv /\ ~overlapped' /\ [Next]_vars => StepInv'
<1> SUFFICES ASSUME TypeInv, TypeInv', StepInv, ~overlapped', [Next]_vars PROVE StepInv'
  OBVIOUS
<1>1. CASE MainThread
  BY <1>1, HandleEventStep, SettleStep, ComposeCapStep, RecomposeStep, CollectStep,
     MainResumed, SignInResumed DEF MainThread
<1>2. CASE Act
  <2>1. UNCHANGED <<token, handoff, bus, listening, backend, restarts>>
    BY <1>2 DEF Act
  <2>2. CASE Stays
    BY <2>1, <2>2, StaysStep
  <2>3. CASE Back
    BY <2>1, <2>3, BackStep
  <2>4. CASE CancelCap
    BY <2>1, <2>4, CancelCapStep
  <2>5. CASE Open \/ SignInAgain
    BY <2>1, <2>5, OpenStep
  <2> QED
    BY <1>2, <2>2, <2>3, <2>4, <2>5 DEF Act, Stays
<1>3. CASE Logout
  BY <1>3, OpenStep DEF Logout
<1>4. CASE \E c \in calls : Attach(c) \/ \E reply \in Replies : Answer(c, reply)
  BY <1>4, AttachStep, AnswerStep
<1>5. CASE ForceDeactivate \/ \E t \in Sessions : Expire(t)
  BY <1>5, SameStep DEF ForceDeactivate, Expire
<1>6. CASE Destroy \/ Recreate \/ Relaunch
  BY <1>6, DestroyStep, RecreateStep, RelaunchStep
<1>7. CASE UNCHANGED vars
  BY <1>7, SameStep DEF vars
<1> QED
  BY <1>1, <1>2, <1>3, <1>4, <1>5, <1>6, <1>7 DEF Next

-----------------------------------------------------------------------------
(* Which session an answer belongs to *)

(* While a token is stored, every call that carries a token carries that   *)
(* one, and so does the call a buffered sign-out event answers.            *)
CarryInv ==
    token # None =>
        /\ bus # <<>> => Head(bus).jwt = token
        /\ \A c \in calls : c.reply = "queued" \/ c.jwt = token

LEMMA CarrySame ==
  ASSUME CarryInv, token' \in {token, None}, bus' = bus \/ bus' = <<>>,
         \A c \in calls' : c \in calls \/ c.reply = "queued"
  PROVE  CarryInv'
BY DEF CarryInv

LEMMA PushCalls ==
  ASSUME NEW s, NEW x \in Screens, NEW ch, Push(s, x, ch)
  PROVE  \A c \in calls' : c \in calls \/ c.reply = "queued"
<1>1. \A c \in calls' : c \in {d \in calls : d.by # x} \cup FirstCalls(x)
  BY DEF Push, Restack, Keep
<1> QED
  BY <1>1, FirstCallsOK

LEMMA ScreenNames ==
  {"phone_entry", "otp_entry", "device_cap_reached", "device_deactivated", "signed_in",
   "settings", "devices"} \subseteq Screens
BY DEF Screens, MainScreens

LEMMA QueuedCall ==
  ASSUME NEW by, NEW kind, NEW arg
  PROVE  Call(by, kind, arg).reply = "queued"
BY DEF Call

LEMMA LaunchedQueued ==
  ASSUME NEW by, NEW kind, NEW arg, NEW cs, Launch(Call(by, kind, arg), cs)
  PROVE  \A c \in calls' : c \in cs \/ c.reply = "queued"
<1>1. PICK n \in 0..MaxCalls : calls' = cs \cup {[Call(by, kind, arg) EXCEPT !.no = n]}
  BY DEF Launch
<1>2. [Call(by, kind, arg) EXCEPT !.no = n].reply = "queued"
  BY DEF Call
<1> QED
  BY <1>1, <1>2

(* The calls of an action of the viewer, of a navigation or of the platform. *)
LEMMA KeptCalls ==
  ASSUME HandleEvent \/ Settle \/ ComposeCap \/ Recompose \/ (\E x \in Channels : Collect(x))
         \/ Act \/ Logout \/ ForceDeactivate \/ (\E t \in Sessions : Expire(t))
         \/ Destroy \/ Recreate \/ Relaunch \/ UNCHANGED vars
  PROVE  \A c \in calls' : c \in calls \/ c.reply = "queued"
<1>1. CASE HandleEvent
  <2>1. \E x \in {"phone_entry", "device_deactivated"} : Push(<<>>, x, channel)
    BY <1>1 DEF HandleEvent
  <2> QED
    BY <2>1, ScreenNames, PushCalls
<1>2. CASE Settle \/ Destroy
  BY <1>2 DEF Settle, Destroy, Keep
<1>3. CASE ComposeCap \/ Back \/ CancelCap
  BY <1>3 DEF ComposeCap, Back, CancelCap, Pop, Restack, Keep
<1>4. CASE Recompose \/ TypeCode \/ TapVerify
  <2>1. calls' = calls \/ \E arg \in {"phone", "noPhone"} :
                            Launch(Call("otp_entry", "verify", arg), calls)
    <3>1. CASE Recompose
      BY <3>1 DEF Recompose, Submit
    <3>2. CASE TypeCode
      BY <3>2 DEF TypeCode, Submit
    <3>3. CASE TapVerify
      BY <3>3 DEF TapVerify, Submit
    <3> QED
      BY <1>4, <3>1, <3>2, <3>3
  <2> QED
    BY <2>1, LaunchedQueued
<1>5. CASE \E x \in Channels : Collect(x)
  <2>1. PICK x \in Channels : Collect(x)
    BY <1>5
  <2>2. \/ Push(stack, "otp_entry", Rest(x)) \/ Push(Below("phone_entry"), "signed_in", Rest(x))
        \/ Push(stack, "device_cap_reached", Rest(x))
    BY <2>1 DEF Collect
  <2> QED
    BY <2>2, ScreenNames, PushCalls
<1>6. CASE SendCode \/ ConfirmDevice
  BY <1>6, QueuedCall DEF SendCode, ConfirmDevice
<1>10. CASE ConfirmDeactivate
  BY <1>10, LaunchedQueued DEF ConfirmDeactivate
<1>7. CASE Open \/ SignInAgain \/ Logout
  <2>1. \/ Push(stack, "settings", channel) \/ Push(stack, "devices", channel)
        \/ Push(<<>>, "phone_entry", channel)
    BY <1>7 DEF Open, SignInAgain, Logout
  <2> QED
    BY <2>1, ScreenNames, PushCalls
<1>8. CASE SelectDevice \/ AskDeactivate \/ ForceDeactivate \/ (\E t \in Sessions : Expire(t))
           \/ Recreate \/ UNCHANGED vars
  BY <1>8 DEF SelectDevice, AskDeactivate, ForceDeactivate, Expire, Recreate, vars
<1>9. CASE Relaunch
  <2>1. Start(token) \in Screens
    BY ScreenNames DEF Start
  <2> QED
    BY <1>9, <2>1, FirstCallsOK DEF Relaunch
<1> QED
  BY <1>1, <1>2, <1>3, <1>4, <1>5, <1>6, <1>7, <1>8, <1>9, <1>10 DEF Act

LEMMA KeptToken ==
  ASSUME HandleEvent \/ Settle \/ ComposeCap \/ Recompose \/ (\E x \in Channels : Collect(x))
         \/ Act \/ Logout \/ ForceDeactivate \/ (\E t \in Sessions : Expire(t))
         \/ Destroy \/ Recreate \/ Relaunch \/ UNCHANGED vars
  PROVE  token' \in {token, None} /\ (bus' = bus \/ bus' = <<>>)
BY DEF HandleEvent, Settle, ComposeCap, Recompose, Collect, Act, Logout, ForceDeactivate, Expire,
       Destroy, Recreate, Relaunch, vars

LEMMA CarryAttach ==
  ASSUME TypeInv, CarryInv, NEW c \in calls, Attach(c)
  PROVE  CarryInv'
<1> DEFINE d == [c EXCEPT !.jwt = token, !.reply = "sent"]
<1>1. d.jwt = token
  BY Callers, AttachOK DEF TypeInv
<1>2. calls' = (calls \ {c}) \cup {d} /\ UNCHANGED <<token, bus>>
  BY DEF Attach
<1> HIDE DEF d
<1> QED
  BY <1>1, <1>2 DEF CarryInv

LEMMA CarryAnswer ==
  ASSUME TypeInv, CarryInv, NEW c \in calls, NEW reply \in Replies, Answer(c, reply)
  PROVE  CarryInv'
<1>1. PICK got \in Nat :
        LET d == [c EXCEPT !.reply = reply, !.got = got] IN
          calls' = (calls \ {c}) \cup {d} /\ CallOK(d)
  BY AnsweredOK
<1> DEFINE d == [c EXCEPT !.reply = reply, !.got = got]
<1>2. calls' = (calls \ {c}) \cup {d} /\ d.jwt = c.jwt
  BY <1>1, Callers DEF CallOK, CallType
<1> HIDE DEF d
<1>3. c.reply = "sent" /\ UNCHANGED token /\ Inspect(c, reply)
  BY DEF Answer
<1>4. token # None => c.jwt = token
  BY <1>3 DEF CarryInv
<1>5. token # None /\ bus' # <<>> => Head(bus').jwt = token
  <2>1. CASE UNCHANGED bus
    BY <2>1 DEF CarryInv
  <2>2. CASE \E event \in Events : bus' = <<Raised(event, c)>>
    <3>1. PICK event \in Events : bus' = <<Raised(event, c)>>
      BY <2>2
    <3>2. Head(bus').jwt = c.jwt
      BY <3>1, HeadOfOne DEF Raised
    <3> QED
      BY <1>4, <3>2
  <2> QED
    BY <1>3, <2>1, <2>2 DEF Inspect, Emit, Events
<1> QED
  BY <1>2, <1>3, <1>4, <1>5 DEF CarryInv

LEMMA CarryResume ==
  ASSUME TypeInv, StepInv, CarryInv, NEW c \in calls, Resume(c)
  PROVE  CarryInv'
<1>1. CASE c.kind \in SignInKinds
  BY <1>1, SignInResumed DEF CarryInv
<1>2. CASE c.kind \notin SignInKinds
  <2>1. c.reply # "cap"
    BY <1>2, Callers DEF CallOK, SignInKinds
  <2>2. CASE Loaded(c) \/ DeactivationFailed(c)
    BY <2>2, CarrySame DEF Loaded, DeactivationFailed, Done
  <2>3. CASE Deactivated(c)
    <3>1. token' = None \/ (/\ UNCHANGED <<token, bus>>
                            /\ Launch(Call("devices", "list", "-"), calls \ {c}))
      BY <2>3 DEF Deactivated
    <3>2. CASE token' = None
      BY <3>2 DEF CarryInv, None
    <3>3. CASE /\ UNCHANGED <<token, bus>>
               /\ Launch(Call("devices", "list", "-"), calls \ {c})
      BY <3>3, LaunchedQueued, CarrySame
    <3> QED
      BY <3>1, <3>2, <3>3
  <2> QED
    BY <1>2, <2>1, <2>2, <2>3 DEF Resume, SignInKinds, CodeRequested, SignInAccepted, CapReached,
                                  Done, VerifyFailed, RemedyFailed
<1> QED
  BY <1>1, <1>2

LEMMA CarryStep == TypeInv /\ StepInv /\ CarryInv /\ [Next]_vars => CarryInv'
<1> SUFFICES ASSUME TypeInv, StepInv, CarryInv, [Next]_vars PROVE CarryInv'
  OBVIOUS
<1>1. CASE HandleEvent \/ Settle \/ ComposeCap \/ Recompose \/ (\E x \in Channels : Collect(x))
           \/ Act \/ Logout \/ ForceDeactivate \/ (\E t \in Sessions : Expire(t))
           \/ Destroy \/ Recreate \/ Relaunch \/ UNCHANGED vars
  BY <1>1, KeptCalls, KeptToken, CarrySame
<1>2. CASE \E c \in calls : Resume(c)
  BY <1>2, CarryResume
<1>3. CASE \E c \in calls : Attach(c) \/ \E reply \in Replies : Answer(c, reply)
  BY <1>3, CarryAttach, CarryAnswer
<1> QED
  BY <1>1, <1>2, <1>3 DEF Next, MainThread

SessionInv == TypeInv /\ (overlapped \/ (StepInv /\ CarryInv))

(* A new process starts over.                                              *)
LEMMA CarryRelaunch ==
  ASSUME Relaunch
  PROVE  CarryInv'
<1>1. Start(token) \in Screens /\ bus' = <<>> /\ calls' = FirstCalls(Start(token))
  BY ScreenNames DEF Relaunch, Start
<1> QED
  BY <1>1, FirstCallsOK DEF CarryInv

LEMMA SessionInvariant == Spec => []SessionInv
<1>1. Init => SessionInv
  BY TypeInit, StepInit DEF SessionInv, CarryInv, Init
<1>2. SessionInv /\ [Next]_vars => SessionInv'
  <2> SUFFICES ASSUME SessionInv, [Next]_vars, ~overlapped' PROVE TypeInv' /\ StepInv' /\ CarryInv'
    BY TypeStep DEF SessionInv
  <2>1. TypeInv /\ TypeInv'
    BY TypeStep DEF SessionInv
  <2>2. CASE Relaunch
    BY <2>1, <2>2, RelaunchStep, CarryRelaunch
  <2>3. CASE ~Relaunch
    <3>1. ~overlapped
      BY <2>3, OverlapKept
    <3>2. StepInv /\ CarryInv
      BY <3>1 DEF SessionInv
    <3> QED
      BY <2>1, <3>2, StepStep, CarryStep
  <2> QED
    BY <2>2, <2>3
<1> QED
  BY <1>1, <1>2, PTL DEF Spec

(* Only the answer to a call that carried the stored token takes that      *)
(* token away (AuthErrorInterceptor.kt:12-24, MainActivity.kt:32-45): the  *)
(* calls of a session die with its view models or are answered before the  *)
(* next sign-in ends, because no step of a sign-in overlaps with another.  *)
(* The one exception is a code submitted while another was verified        *)
(* (OtpEntryViewModel.kt:41-44).                                           *)
THEOREM LateAnswersHarmlessHolds == Spec => LateAnswersHarmless
<1>1. SessionInv /\ [Next]_vars
        => [bus # <<>> /\ bus' = <<>> /\ token' # token => Head(bus).jwt = token \/ overlapped]_vars
  <2> SUFFICES ASSUME SessionInv, ~overlapped, [Next]_vars, bus # <<>>, bus' = <<>>, token' # token
               PROVE  Head(bus).jwt = token
    OBVIOUS
  <2>1. CASE token # None
    BY <2>1 DEF SessionInv, CarryInv
  <2>2. CASE token = None
    <3>1. \E c \in calls : Resume(c)
      BY <2>2, KeptToken DEF Next, MainThread, Attach, Answer, vars
    <3>2. PICK c \in calls : Resume(c)
      BY <3>1
    <3>3. c.kind \notin SignInKinds
      BY <3>2, SignInResumed DEF SessionInv
    <3>4. c.reply # "cap"
      BY <3>3, Callers DEF CallOK, SignInKinds, SessionInv
    <3>5. token' = None \/ token' = token
      BY <3>2, <3>3, <3>4 DEF Resume, SignInKinds, CodeRequested, SignInAccepted, CapReached, Done,
                   VerifyFailed, RemedyFailed, Loaded, Deactivated, DeactivationFailed
    <3> QED
      BY <2>2, <3>5
  <2> QED
    BY <2>1, <2>2
<1> QED
  BY <1>1, SessionInvariant, PTL DEF Spec, LateAnswersHarmless

-----------------------------------------------------------------------------
(* The screens and the token *)

SignInPosted == \E x \in {"otp_entry", "device_cap_reached"} :
                    channel[x] # <<>> /\ Head(channel[x]) = SignedIn

(* A stored token is shown by a main screen or announced by a view model;  *)
(* a main screen without a token has a sign-out event on its way; a sign-  *)
(* in is announced after its token is stored.                              *)
MatchInv ==
    /\ token # None /\ ~dropped => Top \in MainScreens \/ SignInPosted
    /\ token = None /\ ~dropped => Top \notin MainScreens \/ bus # <<>>
    /\ SignInPosted => token # None

LEMMA SilentPost ==
  ASSUME Silent
  PROVE  ~SignInPosted
BY DEF Silent, SignInPosted, Channels

(* Nothing is lost, and the kind of the top screen does not change.        *)
LEMMA MatchKept ==
  ASSUME MatchInv, UNCHANGED token, Top' \in MainScreens <=> Top \in MainScreens,
         dropped => dropped',
         \A x \in Channels : channel'[x] = <<>> \/ channel'[x] = channel[x],
         ~dropped' => \A x \in Channels : channel'[x] = channel[x],
         ~dropped' /\ bus # <<>> => bus' # <<>>
  PROVE  MatchInv'
<1>1. SignInPosted' => SignInPosted
  BY DEF SignInPosted, Channels
<1>2. ~dropped' /\ SignInPosted => SignInPosted'
  BY DEF SignInPosted, Channels
<1> QED
  BY <1>1, <1>2 DEF MatchInv

LEMMA MatchSame ==
  ASSUME MatchInv, UNCHANGED <<token, stack, channel>>, dropped => dropped',
         ~dropped' /\ bus # <<>> => bus' # <<>>
  PROVE  MatchInv'
BY MatchKept DEF Top

(* Signed out, with no event left: on a screen of the sign-in or with the  *)
(* sign-out event on its way.                                              *)
LEMMA MatchReset ==
  ASSUME token' = None, Silent', ~dropped' => Top' \notin MainScreens \/ bus' # <<>>
  PROVE  MatchInv'
<1>1. ~SignInPosted'
  BY DEF Silent, SignInPosted, Channels
<1> QED
  BY <1>1 DEF MatchInv

(* An event finds room, or another one is on its way, or it is lost.       *)
LEMMA EmitKeeps ==
  ASSUME NEW event, NEW c, Emit(event, c)
  PROVE  /\ dropped => dropped'
         /\ bus # <<>> => bus' # <<>>
         /\ ~dropped' => bus' # <<>>
<1> DEFINE e == Raised(event, c)
<1>1. /\ bus' = IF listening /\ bus = <<>> THEN <<e>> ELSE bus
      /\ dropped' = (dropped \/ ~listening)
  BY DEF Emit
<1> HIDE DEF e
<1>2. <<e>> # <<>>
  BY OneItem
<1>3. bus # <<>> => bus' # <<>>
  BY <1>1
<1>4. (dropped => dropped') /\ (~dropped' => listening)
  BY <1>1, Zenon
<1>5. listening => bus' # <<>>
  BY <1>1, <1>2
<1> QED
  BY <1>3, <1>4, <1>5

LEMMA MatchAnswer ==
  ASSUME MatchInv, NEW c \in calls, NEW reply \in Replies, Answer(c, reply)
  PROVE  MatchInv'
<1>1. UNCHANGED <<token, stack, channel>> /\ Inspect(c, reply)
  BY DEF Answer
<1>2. (dropped => dropped') /\ (bus # <<>> => bus' # <<>>)
  BY <1>1, EmitKeeps DEF Inspect
<1> QED
  BY <1>1, <1>2, MatchSame

LEMMA MatchKeep ==
  ASSUME TypeInv, MatchInv, NEW v \in ViewModels, NEW lost \in BOOLEAN,
         Keep(ToSet(stack), v, calls, channel, lost), UNCHANGED <<token, stack>>,
         bus' = bus \/ lost = (bus # <<>>)
  PROVE  MatchInv'
<1>1. /\ \A y \in Channels : channel'[y] = IF y \in ToSet(stack) THEN channel[y] ELSE <<>>
      /\ dropped \/ lost => dropped'
      /\ ~dropped' => \A y \in Channels : channel'[y] = channel[y]
  BY KeepFacts
<1> QED
  BY <1>1, MatchKept DEF Top

(* The stack of a sign-in gets shorter, and stays one.                     *)
LEMMA MatchPop ==
  ASSUME TypeInv, MatchInv, NEW s \in Seq(Screens), s # <<>>, Pop(s),
         Last(s) \in MainScreens <=> Top \in MainScreens, UNCHANGED <<token, bus>>
  PROVE  MatchInv'
<1>1. /\ stack' = s /\ (dropped => dropped')
      /\ \A y \in Channels : channel'[y] = <<>> \/ channel'[y] = channel[y]
      /\ ~dropped' => \A y \in Channels : channel'[y] = channel[y]
  BY PopFacts
<1> QED
  BY <1>1, MatchKept DEF Top

LEMMA FrontKind ==
  ASSUME stack \in Stacks, stack \in Seq(Screens), Len(stack) > 1
  PROVE  /\ Front(stack) \in Seq(Screens) /\ Front(stack) # <<>>
         /\ Last(Front(stack)) \in MainScreens <=> Top \in MainScreens
<1>1. Front(stack) \in Seq(Screens) /\ Front(stack) # <<>>
  BY FrontScreens
<1>2. stack \notin {AtPhone, AtDeactivated, AtHistory}
  <2>1. Len(AtPhone) = 1 /\ Len(AtDeactivated) = 1 /\ Len(AtHistory) = 1
    BY Shapes
  <2>2. Len(stack) # 1
    <3>1. Len(stack) \in Nat /\ \A n \in Nat : n > 1 => n # 1
      BY LenProperties
    <3> QED
      BY <3>1
  <2> QED
    BY <2>1, <2>2
<1>3. Last(Front(stack)) \in MainScreens <=> Top \in MainScreens
  <2>1. CASE stack \in {AtCode, AtCap, AtLateCap}
    BY <2>1, Shapes DEF Top, MainScreens
  <2>2. CASE stack \in {AtSettings, AtDevices}
    BY <2>2, Shapes DEF Top, MainScreens
  <2> QED
    BY <1>2, <2>1, <2>2 DEF Stacks, PhoneFirst
<1> QED
  BY <1>1, <1>3

LEMMA MatchBack ==
  ASSUME TypeInv, StepInv, MatchInv, UNCHANGED <<token, bus>>,
         \/ ComposeCap \/ Back \/ CancelCap
  PROVE  MatchInv'
<1>1. stack \in Stacks /\ stack \in Seq(Screens)
  BY DEF StepInv, ShapeInv, TypeInv, ScreensOK
<1>2. CASE UNCHANGED <<stack, channel, dropped>>
  BY <1>2, MatchSame
<1>3. CASE Len(stack) > 1 /\ Pop(Front(stack))
  BY <1>1, <1>3, FrontKind, MatchPop
<1>4. CASE CancelCap
  <2>1. /\ Idle /\ Top = "device_cap_reached"
        /\ Pop(Append(Below("phone_entry"), "phone_entry"))
    BY <1>4 DEF CancelCap, OnScreen
  <2>2. stack \in PhoneFirst
    BY <2>1, IdleFacts DEF PhoneFirst
  <2>3. Below("phone_entry") = <<>>
    BY <2>2, BelowPhone
  <2>4. Pop(AtPhone) /\ Last(AtPhone) = "phone_entry"
    <3>1. Append(<<>>, "phone_entry") = AtPhone /\ Last(AtPhone) = "phone_entry"
      BY Shapes
    <3> QED
      BY <2>1, <2>3, <3>1
  <2>5. AtPhone \in Seq(Screens) /\ AtPhone # <<>>
    BY ScreenNames DEF AtPhone
  <2> QED
    BY <2>1, <2>4, <2>5, MatchPop DEF MainScreens
<1> QED
  BY <1>2, <1>3, <1>4 DEF ComposeCap, Back

LEMMA MatchOpen ==
  ASSUME TypeInv, StepInv, MatchInv, Open, UNCHANGED <<token, bus>>
  PROVE  MatchInv'
<1>1. PICK y \in {"settings", "devices"} :
        /\ Push(stack, y, channel) /\ Idle
        /\ Top = (IF y = "settings" THEN "signed_in" ELSE "settings")
  BY DEF Open, OnScreen
<1>2. y \in Screens /\ y \in MainScreens /\ y \notin Channels /\ stack \in Seq(Screens)
      /\ channel \in Queues
  BY ScreenNames DEF MainScreens, Channels, TypeInv, ScreensOK
<1>3. /\ Last(stack') = y /\ (dropped => dropped')
      /\ \A z \in Channels : channel'[z] = <<>> \/ (z # y /\ channel'[z] = channel[z])
      /\ ~dropped' => \A z \in Channels \ {y} : channel'[z] = channel[z]
  BY <1>1, <1>2, PushFacts
<1>4. Top \in MainScreens /\ Top' \in MainScreens
  BY <1>1, <1>2, <1>3 DEF Top, MainScreens
<1> QED
  BY <1>2, <1>3, <1>4, MatchKept

LEMMA MatchLeave ==
  ASSUME TypeInv, StepInv, MatchInv, bus' = bus,
         \/ SignInAgain /\ UNCHANGED token
         \/ Logout
  PROVE  MatchInv'
<1>1. Idle /\ Push(<<>>, "phone_entry", channel)
      /\ (SignInAgain => Top = "device_deactivated")
  BY DEF SignInAgain, Logout, OnScreen
<1>2. Silent /\ bus = <<>>
  BY <1>1, IdleFacts
<1>3. channel \in Queues /\ "phone_entry" \in Screens
  BY ScreenNames DEF TypeInv
<1>4. /\ Last(stack') = "phone_entry" /\ (dropped => dropped')
      /\ \A z \in Channels : channel'[z] = <<>>
                             \/ (z # "phone_entry" /\ channel'[z] = channel[z])
  BY <1>1, <1>3, ClearFacts
<1>5. Silent' /\ Top' \notin MainScreens
  BY <1>2, <1>4 DEF Silent, Top, MainScreens
<1>6. CASE Logout
  BY <1>5, <1>6, MatchReset DEF Logout
<1>7. CASE SignInAgain /\ UNCHANGED token
  <2>1. ~dropped => token = None
    BY <1>1, <1>2, <1>7, SilentPost DEF MatchInv, MainScreens
  <2>2. ~SignInPosted'
    BY <1>5 DEF Silent, SignInPosted, Channels
  <2> QED
    BY <1>4, <1>5, <1>7, <2>1, <2>2 DEF MatchInv
<1> QED
  BY <1>6, <1>7

LEMMA MatchEvent ==
  ASSUME TypeInv, TypeInv', StepInv, HandleEvent
  PROVE  MatchInv'
<1>1. Silent /\ Top' \notin MainScreens
  BY HandleEventStep
<1>2. \E y \in {"phone_entry", "device_deactivated"} : Push(<<>>, y, channel)
  BY DEF HandleEvent
<1>3. PICK y \in {"phone_entry", "device_deactivated"} : Push(<<>>, y, channel)
  BY <1>2
<1>4. y \in Screens /\ channel \in Queues
  BY ScreenNames DEF TypeInv
<1>5. \A z \in Channels : channel'[z] = <<>> \/ (z # y /\ channel'[z] = channel[z])
  BY <1>3, <1>4, ClearFacts
<1>6. Silent'
  BY <1>1, <1>5 DEF Silent
<1> QED
  BY <1>1, <1>6, MatchReset DEF HandleEvent

(* An event is collected: a sign-in opens the main screens.                *)
LEMMA MatchCollect ==
  ASSUME TypeInv, StepInv, MatchInv, NEW x \in Channels, Collect(x)
  PROVE  MatchInv'
<1>1. /\ bus = <<>> /\ \A y \in Channels : Rest(x)[y] = <<>>
      /\ Rest(x) \in Queues /\ \A y \in Channels \ {x} : channel[y] = <<>>
  BY CollectFacts
<1>2. channel[x] # <<>> /\ UNCHANGED <<token, bus>>
  BY DEF Collect
<1>3. ASSUME NEW s \in Seq(Screens), NEW y \in Screens, Push(s, y, Rest(x)),
             ~dropped => (token # None <=> y \in MainScreens)
      PROVE  MatchInv'
  <2>1. /\ Last(stack') = y /\ (dropped => dropped')
        /\ \A z \in Channels : channel'[z] = <<>> \/ (z # y /\ channel'[z] = Rest(x)[z])
    BY <1>1, <1>3, PushFacts
  <2>2. ~SignInPosted'
    BY <1>1, <2>1 DEF SignInPosted, Channels
  <2> QED
    BY <1>2, <1>3, <2>1, <2>2 DEF MatchInv, Top
<1>4. stack \in Seq(Screens) /\ stack \in Stacks
  BY DEF TypeInv, ScreensOK, StepInv, ShapeInv
<1>5. CASE x = "phone_entry"
  <2>1. stack \in PhoneFirst
    BY <1>2, <1>5 DEF StepInv, PlaceInv, PhoneFirst
  <2>2. Top \notin MainScreens
    BY <2>1, Shapes DEF PhoneFirst, Top, MainScreens
  <2>3. ~SignInPosted
    BY <1>1, <1>5 DEF SignInPosted, Channels
  <2>4. Push(stack, "otp_entry", Rest(x)) /\ "otp_entry" \notin MainScreens
    BY <1>5 DEF Collect, MainScreens
  <2> QED
    BY <1>3, <1>4, <2>2, <2>3, <2>4, ScreenNames DEF MatchInv
<1>6. CASE x # "phone_entry"
  <2>1. stack \in PhoneFirst
    BY <1>2, <1>6 DEF StepInv, PlaceInv, Channels
  <2>2. CASE Head(channel[x]) = SignedIn
    <3>1. token # None
      BY <1>2, <1>6, <2>2 DEF MatchInv, SignInPosted, Channels
    <3>2. Push(<<>>, "signed_in", Rest(x))
      BY <1>6, <2>1, <2>2, BelowPhone DEF Collect
    <3>3. <<>> \in Seq(Screens) /\ "signed_in" \in MainScreens
      BY EmptySeq DEF MainScreens
    <3>4. "signed_in" \in Screens
      BY ScreenNames
    <3> QED
      BY <1>3, <3>1, <3>2, <3>3, <3>4
  <2>3. CASE Head(channel[x]) # SignedIn
    <3>1. ~SignInPosted
      BY <1>1, <2>3 DEF SignInPosted, Channels
    <3>2. Top \notin MainScreens
      BY <2>1, Shapes DEF PhoneFirst, Top, MainScreens
    <3>3. Push(stack, "device_cap_reached", Rest(x))
      BY <1>6, <2>3 DEF Collect
    <3>4. "device_cap_reached" \in Screens /\ "device_cap_reached" \notin MainScreens
      BY ScreenNames DEF MainScreens
    <3> QED
      BY <1>3, <1>4, <3>1, <3>2, <3>3, <3>4 DEF MatchInv
  <2> QED
    BY <2>2, <2>3
<1> QED
  BY <1>5, <1>6

(* A coroutine of a sign-in announces what it did.                         *)
LEMMA MatchSignIn ==
  ASSUME TypeInv, StepInv, MatchInv, NEW c \in calls, Resume(c), c.kind \in SignInKinds
  PROVE  MatchInv'
<1>1. Silent /\ bus = <<>> /\ bus' = <<>> /\ UNCHANGED stack
  BY SignInResumed DEF Resume
<1>2. ~SignInPosted /\ Top' = Top
  BY <1>1, SilentPost DEF Top
<1>3. CodeRequested(c) \/ SignInAccepted(c) \/ CapReached(c) \/ VerifyFailed(c) \/ RemedyFailed(c)
  BY DEF Resume, SignInKinds, Loaded, Deactivated, DeactivationFailed
<1>4. UNCHANGED dropped
  BY <1>3 DEF CodeRequested, SignInAccepted, CapReached, VerifyFailed, RemedyFailed
<1>5. ASSUME NEW x \in Channels, NEW n, Post(x, n)
      PROVE  /\ channel'[x] # <<>> /\ Head(channel'[x]) = n
             /\ \A y \in Channels \ {x} : channel'[y] = <<>>
  BY <1>1, <1>5, OneItem DEF Post, Silent, TypeInv, Queues
<1>6. ASSUME UNCHANGED <<token, channel>> PROVE MatchInv'
  BY <1>1, <1>4, <1>6, MatchSame
<1>7. CASE CodeRequested(c)
  <2>1. c.by = "phone_entry" /\ c.by \in Channels /\ UNCHANGED token
    BY <1>7, Callers DEF CodeRequested, Channels
  <2>2. CASE Post(c.by, CodeSent)
    <3>1. ~SignInPosted'
      BY <1>5, <2>1, <2>2 DEF SignInPosted, Channels
    <3> QED
      BY <1>2, <1>4, <2>1, <3>1, <1>1 DEF MatchInv
  <2> QED
    BY <1>6, <1>7, <2>1, <2>2 DEF CodeRequested
<1>8. CASE SignInAccepted(c)
  <2>1. c.by \in {"otp_entry", "device_cap_reached"} /\ c.by \in Channels
    BY <1>8, Callers DEF SignInAccepted, Channels
  <2>2. token' # None
    <3>1. token' = c.got /\ c.got \in Sessions
      BY <1>8, Callers DEF SignInAccepted, Done, CallOK
    <3> QED
      BY <3>1, ClientBoundsAssumption DEF Sessions, None
  <2>3. Post(c.by, SignedIn)
    BY <1>8 DEF SignInAccepted
  <2>4. channel'[c.by] # <<>> /\ Head(channel'[c.by]) = SignedIn
    BY <1>5, <2>1, <2>3
  <2>5. SignInPosted'
    BY <2>1, <2>4 DEF SignInPosted
  <2> QED
    BY <2>2, <2>5 DEF MatchInv
<1>9. CASE CapReached(c)
  <2>1. c.by = "otp_entry" /\ c.by \in Channels /\ UNCHANGED token
    BY <1>9, Callers DEF CapReached, Done, CallOK, Channels
  <2>2. c.got # SignedIn
    <3>1. c.got \in 1..MaxTickets
      BY <1>9, Callers DEF CapReached, Done, CallOK
    <3> QED
      BY <3>1, ClientBoundsAssumption DEF SignedIn
  <2>3. Post(c.by, c.got)
    BY <1>9 DEF CapReached
  <2>4. Head(channel'[c.by]) = c.got /\ \A y \in Channels \ {c.by} : channel'[y] = <<>>
    BY <1>5, <2>1, <2>3
  <2>5. ~SignInPosted'
    BY <2>1, <2>2, <2>4 DEF SignInPosted, Channels
  <2> QED
    BY <1>1, <1>2, <1>4, <2>1, <2>5 DEF MatchInv
<1>10. CASE VerifyFailed(c) \/ RemedyFailed(c)
  BY <1>6, <1>10 DEF VerifyFailed, RemedyFailed
<1> QED
  BY <1>3, <1>7, <1>8, <1>9, <1>10

(* A coroutine of a main screen: the deactivation of this device clears    *)
(* the store before MainActivity clears the screens.                       *)
LEMMA MatchMain ==
  ASSUME TypeInv, StepInv, MatchInv, NEW c \in calls, Resume(c), c.kind \notin SignInKinds
  PROVE  MatchInv'
<1>1. c.reply # "cap" /\ UNCHANGED stack
  BY Callers DEF CallOK, SignInKinds, Resume
<1>2. Loaded(c) \/ Deactivated(c) \/ DeactivationFailed(c)
  BY <1>1 DEF Resume, SignInKinds, CodeRequested, SignInAccepted, CapReached, Done,
              VerifyFailed, RemedyFailed
<1>3. UNCHANGED channel
  BY <1>2 DEF Loaded, Deactivated, DeactivationFailed
<1>4. CASE UNCHANGED <<token, bus, dropped>>
  BY <1>1, <1>3, <1>4, MatchSame
<1>5. CASE token' = None /\ Emit("DeviceDeactivated", c)
  <2>1. Silent'
    BY <1>3, MainCall DEF Silent
  <2> QED
    BY <1>5, <2>1, EmitKeeps, MatchReset
<1> QED
  BY <1>2, <1>4, <1>5 DEF Loaded, Deactivated, DeactivationFailed

LEMMA MatchRelaunch ==
  ASSUME Relaunch
  PROVE  MatchInv'
<1>1. (token = None <=> Top' \notin MainScreens) /\ Silent' /\ UNCHANGED token
  BY RelaunchStep DEF Relaunch
<1>2. ~SignInPosted'
  BY <1>1 DEF Silent, SignInPosted, Channels
<1> QED
  BY <1>1, <1>2 DEF MatchInv

LEMMA MatchStep == TypeInv /\ TypeInv' /\ StepInv /\ MatchInv /\ [Next]_vars => MatchInv'
<1> SUFFICES ASSUME TypeInv, TypeInv', StepInv, MatchInv, [Next]_vars PROVE MatchInv'
  OBVIOUS
<1>1. CASE MainThread
  <2>1. CASE HandleEvent
    BY <2>1, MatchEvent
  <2>2. CASE Settle
    <3>1. /\ Keep(ToSet(stack), vm, calls, channel, FALSE)
          /\ UNCHANGED <<token, stack, bus>>
      BY <2>2 DEF Settle
    <3>2. FALSE \in BOOLEAN /\ vm \in ViewModels
      BY DEF TypeInv
    <3> QED
      BY <3>1, <3>2, MatchKeep
  <2>3. CASE ComposeCap
    BY <2>3, MatchBack DEF ComposeCap
  <2>4. CASE Recompose
    BY <2>4, MatchSame DEF Recompose
  <2>5. CASE \E x \in Channels : Collect(x)
    BY <2>5, MatchCollect
  <2>6. CASE \E c \in calls : Resume(c)
    BY <2>6, MatchSignIn, MatchMain
  <2> QED
    BY <1>1, <2>1, <2>2, <2>3, <2>4, <2>5, <2>6 DEF MainThread
<1>2. CASE Act
  <2>1. UNCHANGED <<token, handoff, bus, listening, backend, restarts>>
    BY <1>2 DEF Act
  <2>2. CASE Stays
    <3>1. UNCHANGED <<stack, channel, dropped>>
      BY <2>2 DEF Stays, SendCode, TypeCode, TapVerify, SelectDevice, ConfirmDevice,
                  AskDeactivate, ConfirmDeactivate
    <3> QED
      BY <2>1, <3>1, MatchSame
  <2>3. CASE Back \/ CancelCap
    BY <2>1, <2>3, MatchBack
  <2>4. CASE Open
    BY <2>1, <2>4, MatchOpen
  <2>5. CASE SignInAgain
    BY <2>1, <2>5, MatchLeave
  <2> QED
    BY <1>2, <2>2, <2>3, <2>4, <2>5 DEF Act, Stays
<1>3. CASE Logout
  BY <1>3, MatchLeave DEF Logout
<1>4. CASE \E c \in calls : Attach(c) \/ \E reply \in Replies : Answer(c, reply)
  BY <1>4, MatchAnswer, MatchSame DEF Attach
<1>5. CASE ForceDeactivate \/ \E t \in Sessions : Expire(t)
  BY <1>5, MatchSame DEF ForceDeactivate, Expire
<1>6. CASE Destroy
  <2>1. Keep(ToSet(stack), Forget(vm), calls, channel, bus # <<>>) /\ UNCHANGED <<token, stack>>
    BY <1>6 DEF Destroy
  <2>2. Forget(vm) \in ViewModels /\ (bus # <<>>) \in BOOLEAN
    BY ForgetFacts
  <2> QED
    BY <2>1, <2>2, MatchKeep
<1>7. CASE Recreate
  BY <1>7, MatchSame DEF Recreate
<1>8. CASE Relaunch
  BY <1>8, MatchRelaunch
<1>9. CASE UNCHANGED vars
  BY <1>9, MatchSame DEF vars
<1> QED
  BY <1>1, <1>2, <1>3, <1>4, <1>5, <1>6, <1>7, <1>8, <1>9 DEF Next

(* When nothing is under way, the main screens are shown exactly while a   *)
(* token is stored, unless an event found nobody to collect it or a code   *)
(* was submitted while another was verified (MainActivity.kt:30-45,        *)
(* AlabaNavHost.kt:61-65, 105-108, OtpEntryViewModel.kt:41-44).            *)
THEOREM ScreenMatchesTokenHolds == Spec => []ScreenMatchesToken
<1>1. Init => overlapped \/ MatchInv
  <2>1. SUFFICES ASSUME Init PROVE MatchInv
    OBVIOUS
  <2>2. token = None /\ stack = AtPhone /\ Silent
    BY <2>1 DEF Init, AtPhone, Silent
  <2>3. Top \notin MainScreens /\ ~SignInPosted
    BY <2>2, Shapes, SilentPost DEF Top, MainScreens
  <2> QED
    BY <2>2, <2>3 DEF MatchInv
<1>2. SessionInv /\ SessionInv' /\ (overlapped \/ MatchInv) /\ [Next]_vars
        => overlapped' \/ MatchInv'
  <2> SUFFICES ASSUME SessionInv, SessionInv', overlapped \/ MatchInv, [Next]_vars, ~overlapped'
               PROVE  MatchInv'
    OBVIOUS
  <2>1. CASE Relaunch
    BY <2>1, MatchRelaunch
  <2>2. CASE ~Relaunch
    <3>1. ~overlapped
      BY <2>2, OverlapKept
    <3> QED
      BY <3>1, MatchStep DEF SessionInv
  <2> QED
    BY <2>1, <2>2
<1>3. SessionInv /\ (overlapped \/ MatchInv) => ScreenMatchesToken
  BY SilentPost DEF MatchInv, ScreenMatchesToken, Quiet, Idle, Silent
<1> QED
  BY <1>1, <1>2, <1>3, SessionInvariant, PTL DEF Spec
=============================================================================
