--------------------------------- MODULE Otp ---------------------------------
(***************************************************************************)
(* One-time codes of one phone number: services/otp_service.py with the    *)
(* handlers POST /auth/otp/request and the code check of                   *)
(* POST /auth/otp/verify (Mode A).  Every query filters by phone and       *)
(* numbers share nothing, so one number stands for all.                    *)
(*                                                                         *)
(* As in DeviceRegistry, an action is one SELECT with the code after it,   *)
(* or a flush, or a commit.  Here the flush and the commit of a            *)
(* verification are two actions: the device steps run between them, and    *)
(* until the transaction ends the flush holds the lock of the code's row.  *)
(*                                                                         *)
(* A code is its issue number: created_at is the start of the issuing      *)
(* transaction, so the numbers order the codes as created_at does.  Two    *)
(* codes are taken to differ.                                              *)
(***************************************************************************)
EXTENDS Naturals, FiniteSets

CONSTANTS
    Requests,     \* slots for requests in flight
    Limit,        \* codes per window (5)
    Window,       \* the rate limit's window (15 minutes), in ticks
    Expiry,       \* otp_expiry_minutes, in ticks
    MaxAttempts,  \* otp_max_attempts
    MaxNow,       \* bound on the clock
    MaxCodes,     \* bound on the codes ever drawn
    MaxWrong,     \* bound on the wrong answers counted per code
    NoCode        \* no such row in otp_codes

ASSUME OtpParametersAssumption ==
    /\ Limit \in Nat \ {0} /\ Window \in Nat /\ Expiry \in Nat /\ MaxAttempts \in Nat
    /\ MaxNow \in Nat /\ MaxCodes \in Nat /\ MaxWrong \in Nat
ASSUME SlotsAssumption == IsFiniteSet(Requests)

Ids == 1..MaxCodes
WrongCode == 0      \* what a viewer types who has no code to type

ASSUME NoCodeAssumption ==
    NoCode \notin [created : Nat, consumed : BOOLEAN, attempts : Nat]

VARIABLES
    now,       \* datetime.now(UTC)
    codes,     \* committed rows of otp_codes
    drawn,     \* number of codes drawn so far
    sent,      \* codes the provider delivered
    txn,       \* the state of the handler in each slot
    accepted,  \* history: how often each code was accepted
    wrongs     \* history: how often each code answered "invalid_code"

vars == <<now, codes, drawn, sent, txn, accepted, wrongs>>

CodeType == [created : Nat, consumed : BOOLEAN, attempts : Nat]
Replies == {"none", "ok", "rateLimited", "invalid", "expired", "exhausted",
            "refused", "aborted"}
Pcs == {"issue", "delivered", "match", "wrong", "held"}
IdleTxn == [pc : {"idle"}, reply : Replies]
BusyTxn == [pc : Pcs, id : Ids, at : Nat]

(* Type invariant.  A code is numbered before anything else happens to it, *)
(* and an accepted code is a consumed row.                                 *)
TypeOK ==
    /\ now \in Nat
    /\ codes \in [Ids -> CodeType \cup {NoCode}]
    /\ drawn \in 0..MaxCodes
    /\ sent \subseteq Ids
    /\ txn \in [Requests -> IdleTxn \cup BusyTxn]
    /\ accepted \in [Ids -> Nat]
    /\ wrongs \in [Ids -> Nat]
    /\ \A i \in Ids : i > drawn => i \notin sent /\ codes[i] = NoCode
    /\ \A i \in Ids : accepted[i] > 0 => codes[i] # NoCode /\ codes[i].consumed

Idle(reply) == [pc |-> "idle", reply |-> reply]
Busy(r) == txn[r].pc # "idle"

Init ==
    /\ now = 0
    /\ codes = [i \in Ids |-> NoCode]
    /\ drawn = 0
    /\ sent = {}
    /\ txn = [r \in Requests |-> Idle("none")]
    /\ accepted = [i \in Ids |-> 0]
    /\ wrongs = [i \in Ids |-> 0]

-----------------------------------------------------------------------------
(* Queries *)

Rows == {i \in Ids : codes[i] # NoCode}

(* created_at >= now - window; consumed and expired codes count too. *)
RecentRows == {i \in Rows : codes[i].created + Window >= now}

(* Mistake: a consumed code still matches. *)
UnconsumedForgotten == Rows

Unconsumed == {i \in Rows : ~codes[i].consumed}

(* Mistake: a code still matches at the instant it expires. *)
FreshAtExpiry(i) == codes[i].created + Expiry >= now

(* expires_at > now *)
Fresh(i) == codes[i].created + Expiry > now

(* A consumed or counted row is locked by the transaction that flushed it. *)
LockFree(i) == \A s \in Requests : txn[s].pc = "held" => txn[s].id # i

-----------------------------------------------------------------------------
(* How a handler moves on and answers *)

Start(r, pc, i) == txn' = [txn EXCEPT ![r] = [pc |-> pc, id |-> i, at |-> now]]
Goto(r, pc) == txn' = [txn EXCEPT ![r] = [pc |-> pc, id |-> @.id, at |-> @.at]]
Answer(r, reply) == txn' = [txn EXCEPT ![r] = Idle(reply)]

-----------------------------------------------------------------------------
(* POST /auth/otp/request *)

(* Mistake: only codes that still work count against the limit. *)
IssueCountsFreshCodes(r) ==
    /\ ~Busy(r)
    /\ Cardinality({i \in Rows : Fresh(i)}) < Limit
    /\ drawn < MaxCodes
    /\ drawn' = drawn + 1
    /\ Start(r, "issue", drawn + 1)
    /\ UNCHANGED <<now, codes, sent, accepted, wrongs>>

Issue(r) ==
    /\ ~Busy(r)
    /\ \/ /\ Cardinality(RecentRows) >= Limit
          /\ Answer(r, "rateLimited")
          /\ UNCHANGED drawn
       \/ /\ Cardinality(RecentRows) < Limit
          /\ drawn < MaxCodes
          /\ drawn' = drawn + 1
          /\ Start(r, "issue", drawn + 1)
    /\ UNCHANGED <<now, codes, sent, accepted, wrongs>>

(* Mistake: the row is committed and then sent. *)
SendAfterCommit(r) ==
    /\ txn[r].pc = "issue"
    /\ codes' = [codes EXCEPT ![txn[r].id] =
                   [created |-> txn[r].at, consumed |-> FALSE, attempts |-> 0]]
    /\ Goto(r, "delivered")
    /\ UNCHANGED <<now, drawn, sent, accepted, wrongs>>

(* The provider delivers the code before the row is committed. *)
Send(r) ==
    /\ txn[r].pc = "issue"
    /\ sent' = sent \cup {txn[r].id}
    /\ Goto(r, "delivered")
    /\ UNCHANGED <<now, codes, drawn, accepted, wrongs>>

IssueCommit(r) ==
    /\ txn[r].pc = "delivered"
    /\ codes' = [codes EXCEPT ![txn[r].id] =
                   [created |-> txn[r].at, consumed |-> FALSE, attempts |-> 0]]
    /\ Answer(r, "ok")
    /\ UNCHANGED <<now, drawn, sent, accepted, wrongs>>

-----------------------------------------------------------------------------
(* POST /auth/otp/verify, Mode A *)

(* verify() up to the comparison, against the newest unconsumed code. *)
Verify(r, c) ==
    /\ ~Busy(r)
    /\ \/ Unconsumed = {} /\ Answer(r, "invalid")
       \/ \E i \in Unconsumed :
            /\ \A j \in Unconsumed : j <= i
            /\ \/ ~Fresh(i) /\ Answer(r, "expired")
               \/ Fresh(i) /\ codes[i].attempts >= MaxAttempts /\ Answer(r, "exhausted")
               \/ Fresh(i) /\ codes[i].attempts < MaxAttempts
                  /\ Start(r, IF c = i THEN "match" ELSE "wrong", i)
    /\ UNCHANGED <<now, codes, drawn, sent, accepted, wrongs>>

(* attempts += 1 is flushed under the row's lock; the 401 then leaves the  *)
(* handler without a commit and get_db rolls the increment back.           *)
RejectWrong(r) ==
    /\ txn[r].pc = "wrong"
    /\ LockFree(txn[r].id)
    /\ wrongs' = [wrongs EXCEPT ![txn[r].id] = IF @ < MaxWrong THEN @ + 1 ELSE @]
    /\ Answer(r, "invalid")
    /\ UNCHANGED <<now, codes, drawn, sent, accepted>>

(* Mistake: a request waits until no other one wants the code. *)
ConsumeAfterOthers(r) ==
    /\ txn[r].pc = "match"
    /\ \A s \in Requests \ {r} :
         txn[s].pc \in {"match", "held"} => txn[s].id # txn[r].id
    /\ Goto(r, "held")
    /\ UNCHANGED <<now, codes, drawn, sent, accepted, wrongs>>

(* consumed_at is flushed; nothing re-reads the row after the wait. *)
Consume(r) ==
    /\ txn[r].pc = "match"
    /\ LockFree(txn[r].id)
    /\ Goto(r, "held")
    /\ UNCHANGED <<now, codes, drawn, sent, accepted, wrongs>>

(* Mistake: the code is accepted and not marked. *)
AcceptUnmarked(r) ==
    /\ txn[r].pc = "held"
    /\ accepted' = [accepted EXCEPT ![txn[r].id] = @ + 1]
    /\ Answer(r, "ok")
    /\ UNCHANGED <<now, codes, drawn, sent, wrongs>>

(* The device steps end in a 200 or in a 409 with a ticket: both commit. *)
Accept(r) ==
    /\ txn[r].pc = "held"
    /\ codes' = [codes EXCEPT ![txn[r].id] =
                   [created |-> @.created, consumed |-> TRUE, attempts |-> @.attempts]]
    /\ accepted' = [accepted EXCEPT ![txn[r].id] = @ + 1]
    /\ Answer(r, "ok")
    /\ UNCHANGED <<now, drawn, sent, wrongs>>

(* The device steps end in cooldown_active: the code stays usable. *)
Release(r) ==
    /\ txn[r].pc = "held"
    /\ Answer(r, "refused")
    /\ UNCHANGED <<now, codes, drawn, sent, accepted, wrongs>>

-----------------------------------------------------------------------------
(* The environment *)

(* The provider, the connection or the process fails before the commit. *)
Abort(r) ==
    /\ Busy(r)
    /\ Answer(r, "aborted")
    /\ UNCHANGED <<now, codes, drawn, sent, accepted, wrongs>>

Tick ==
    /\ now < MaxNow
    /\ now' = now + 1
    /\ UNCHANGED <<codes, drawn, sent, txn, accepted, wrongs>>

(* A viewer types a code received on the phone, or something else. *)
Arrive(r) == Issue(r) \/ \E c \in sent \cup {WrongCode} : Verify(r, c)

Unlocked(r) == Send(r) \/ IssueCommit(r) \/ Accept(r) \/ Release(r)
Locking(r) == RejectWrong(r) \/ Consume(r)

Next == Tick \/ \E r \in Requests : Arrive(r) \/ Unlocked(r) \/ Locking(r) \/ Abort(r)

Spec == Init /\ [][Next]_vars

(* The event loop resumes every handler, and the database grants a row     *)
(* lock in the order it was asked for: no waiter is passed over for ever.  *)
FairSpec ==
    /\ Spec
    /\ \A r \in Requests : WF_vars(Unlocked(r)) /\ SF_vars(Locking(r))

-----------------------------------------------------------------------------
(* Properties *)

Issuing == {r \in Requests : txn[r].pc \in {"issue", "delivered"}}
Verifying(i) == {r \in Requests : txn[r].pc \in {"match", "held"} /\ txn[r].id = i}

(* The count and the INSERT are apart, so requests in flight together may  *)
(* all pass the limit: a window holds at most Limit codes, plus one for    *)
(* every other slot (otp_service.py:43-61, auth.py:62).                    *)
RateBound == Cardinality(RecentRows) + 1 <= Limit + Cardinality(Requests)

(* Verifications in flight together may all accept a code, but none that   *)
(* begins after it was consumed does: a code is accepted at most once per  *)
(* slot (otp_service.py:71-98).                                            *)
AcceptBound == \A i \in Ids : accepted[i] <= Cardinality(Requests)

(* No row is committed for a code the provider did not deliver: a failed   *)
(* delivery costs nothing of the limit (auth.py:60-62).                    *)
CommittedCodesWereSent == Rows \subseteq sent

(* A code is accepted only while it is the row of a delivered code that is *)
(* still within its lifetime plus the time its request has been running    *)
(* (otp_service.py:71-85).                                                 *)
AcceptedCodesWereFreshStep ==
    \A i \in Ids : accepted'[i] # accepted[i]
      => \E r \in Verifying(i) : i \in Rows /\ txn[r].at < codes[i].created + Expiry
AcceptedCodesWereFresh == [][AcceptedCodesWereFreshStep]_vars

(* Every handler ends, also one that waits for the lock of a code's row    *)
(* (otp_service.py:90-97, auth.py:151-204).                                *)
EveryRequestEnds == \A r \in Requests : Busy(r) ~> ~Busy(r)

(* What makes the bounds inductive.  A number drawn belongs to one request *)
(* until its row is committed; a verification holds a committed row; and   *)
(* the requests still on their way count against both bounds.              *)
InFlight ==
    /\ \A r \in Issuing : txn[r].id <= drawn /\ codes[txn[r].id] = NoCode
    /\ \A r, s \in Issuing : r # s => txn[r].id # txn[s].id
    /\ \A r \in Requests : txn[r].pc = "delivered" => txn[r].id \in sent
    /\ \A r \in Requests : txn[r].pc \in {"match", "wrong", "held"}
                          => codes[txn[r].id] # NoCode
RateRoom == Cardinality(RecentRows) + Cardinality(Issuing) + 1
            <= Limit + Cardinality(Requests)
AcceptRoom == \A i \in Ids : accepted[i] + Cardinality(Verifying(i))
                             <= Cardinality(Requests)

(* The inductive invariant behind the bounds: no interleaving of issues,   *)
(* verifications, failures and ticks takes more codes or more acceptances  *)
(* than the slots in flight allow (otp_service.py:37-98, auth.py:47-63).   *)
OtpInvariant == InFlight /\ RateRoom /\ AcceptRoom

(* After the last permitted wrong code the code answers attempts_exhausted *)
(* instead (otp_service.py:87-94).                                         *)
WrongCodesLimited == \A i \in Ids : wrongs[i] <= MaxAttempts

(* A code is accepted once (otp_service.py:71-82, 96). *)
AcceptedOnce == \A i \in Ids : accepted[i] <= 1
=============================================================================
