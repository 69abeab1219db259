------------------------ MODULE DeviceRegistryProofs ------------------------
(***************************************************************************)
(* Proofs about DeviceRegistry for any users, devices, slots, cap and      *)
(* cooldown.  The inductive invariant says that a request in flight that   *)
(* no other commit has overtaken may still rely on what it read; the rules *)
(* of the registry follow from it, action by action.                       *)
(***************************************************************************)
EXTENDS DeviceRegistry, FiniteSetTheorems, TLAPS

BusyPcs == SignInPcs \cup RemedyPcs \cup SelfPcs \cup AdminPcs

(* Who owns the rows a request works on.  Before selfFind the target is    *)
(* whatever the caller named.                                              *)
Owned(r) ==
    /\ Owner(txn[r].own) = txn[r].user
    /\ txn[r].pc # "selfFind" => Owner(txn[r].target) = txn[r].user
OwnedOK == \A r \in Requests : Busy(r) => Owned(r)

(* Sign-ins and the administrator's requests work on one row. *)
OneRow(r) == txn[r].pc \in SignInPcs \cup AdminPcs => txn[r].target = txn[r].own
OneRowOK == \A r \in Requests : Busy(r) => OneRow(r)

(* A token is minted only for a row that exists when its request commits. *)
TouchedExist == \A r \in Requests :
                  txn[r].pc \in {"touch", "reactivate"} => rows[txn[r].own] # NoRow

Structure == TypeOK /\ OwnedOK /\ OneRowOK /\ TouchedExist

IInv == Structure /\ UncontendedReadsHold

LEMMA SlotTypes ==
  ASSUME TypeOK, NEW r \in Requests
  PROVE  /\ txn[r].pc = "idle" \/ txn[r].pc \in BusyPcs
         /\ Busy(r) => /\ txn[r] \in BusyTxn
                       /\ txn[r].user \in Users /\ txn[r].own \in RowIds
                       /\ txn[r].target \in RowIds /\ txn[r].at \in Nat
BY DEF TypeOK, Busy, IdleTxn, BusyTxn, BusyPcs

LEMMA PcsAreBusy == "idle" \notin BusyPcs
BY DEF BusyPcs, SignInPcs, RemedyPcs, SelfPcs, AdminPcs

LEMMA OwnerType == \A x \in RowIds : Owner(x) \in Users
BY DEF RowIds, Owner

LEMMA NewRow ==
  ASSUME NEW u \in Users, NEW d \in Devices
  PROVE  <<u, d>> \in RowIds /\ Owner(<<u, d>>) = u
BY DEF RowIds, Owner

-----------------------------------------------------------------------------
(* How the helpers move a slot *)

LEMMA Idles ==
  ASSUME TypeOK, NEW r \in Requests, NEW reply \in Replies,
         txn' = [txn EXCEPT ![r] = Idle(reply)]
  PROVE  /\ txn' \in [Requests -> IdleTxn \cup BusyTxn]
         /\ txn'[r] = Idle(reply) /\ txn'[r].pc = "idle"
         /\ \A s \in Requests \ {r} : txn'[s] = txn[s]
<1>1. Idle(reply) \in IdleTxn /\ Idle(reply).pc = "idle"
  BY DEF Idle, IdleTxn
<1>2. txn \in [Requests -> IdleTxn \cup BusyTxn]
  BY DEF TypeOK
<1> QED
  BY <1>1, <1>2

LEMMA Starts ==
  ASSUME TypeOK, NEW r \in Requests, NEW pc \in BusyPcs, NEW u \in Users,
         NEW own \in RowIds, NEW target \in RowIds, Start(r, pc, u, own, target)
  PROVE  /\ txn' \in [Requests -> IdleTxn \cup BusyTxn]
         /\ ~Busy(r)
         /\ txn'[r].pc = pc /\ txn'[r].user = u /\ txn'[r].own = own
         /\ txn'[r].target = target /\ txn'[r].at = now
         /\ \A s \in Requests \ {r} : txn'[s] = txn[s]
         /\ conflicted' = conflicted
<1> DEFINE new == [pc |-> pc, user |-> u, own |-> own, target |-> target, at |-> now]
<1>1. /\ new \in BusyTxn /\ new.pc = pc /\ new.user = u /\ new.own = own
      /\ new.target = target /\ new.at = now
  BY DEF TypeOK, BusyTxn, BusyPcs
<1>2. /\ ~Busy(r) /\ txn' = [txn EXCEPT ![r] = new] /\ conflicted' = conflicted
      /\ txn \in [Requests -> IdleTxn \cup BusyTxn]
  BY DEF Start, TypeOK
<1> HIDE DEF new
<1> QED
  BY <1>1, <1>2

LEMMA Gotos ==
  ASSUME TypeOK, NEW r \in Requests, Busy(r), NEW pc \in BusyPcs, Goto(r, pc)
  PROVE  /\ txn' \in [Requests -> IdleTxn \cup BusyTxn]
         /\ txn'[r].pc = pc /\ txn'[r].user = txn[r].user /\ txn'[r].own = txn[r].own
         /\ txn'[r].target = txn[r].target /\ txn'[r].at = now
         /\ \A s \in Requests \ {r} : txn'[s] = txn[s]
<1> DEFINE new == [pc |-> pc, user |-> txn[r].user, own |-> txn[r].own,
                   target |-> txn[r].target, at |-> now]
<1>1. /\ new \in BusyTxn /\ new.pc = pc /\ new.user = txn[r].user
      /\ new.own = txn[r].own /\ new.target = txn[r].target /\ new.at = now
  BY SlotTypes DEF TypeOK, BusyTxn, BusyPcs
<1>2. txn' = [txn EXCEPT ![r] = new] /\ txn \in [Requests -> IdleTxn \cup BusyTxn]
  BY DEF Goto, TypeOK
<1> HIDE DEF new
<1> QED
  BY <1>1, <1>2

-----------------------------------------------------------------------------
(* What steps leave alone *)

(* What a request read stays true while no row of its user changes. *)
LEMMA ReadsFrame ==
  ASSUME TypeOK, OwnedOK, NEW s \in Requests, Busy(s), ReadsStillTrue(s),
         txn'[s] = txn[s],
         \A x \in RowIds : Owner(x) = txn[s].user => rows'[x] = rows[x]
  PROVE  ReadsStillTrue(s)'
<1> DEFINE x == txn[s].own
           y == txn[s].target
           u == txn[s].user
<1>1. /\ x \in RowIds /\ y \in RowIds /\ Owner(x) = u
      /\ txn[s].pc # "selfFind" => Owner(y) = u
  BY SlotTypes DEF OwnedOK, Owned
<1>2. rows'[x] = rows[x] /\ (txn[s].pc # "selfFind" => rows'[y] = rows[y])
  BY <1>1
<1>3. ActiveRows(u)' = ActiveRows(u)
  BY DEF ActiveRows
<1>4. ActiveCount(txn[s].user)' = ActiveCount(txn[s].user)
  BY <1>3 DEF ActiveCount
<1>5. NoRecent(txn[s].user, txn[s].at) => NoRecent(txn[s].user, txn[s].at)'
  BY DEF NoRecent
<1> QED
  BY <1>2, <1>4, <1>5 DEF ReadsStillTrue, RemedyPcs, SelfPcs

(* A slot that moves without a commit leaves the other slots' reads true. *)
LEMMA OthersKeepReads ==
  ASSUME IInv, NEW r \in Requests, rows' = rows,
         conflicted \ {r} \subseteq conflicted',
         \A s \in Requests \ {r} : txn'[s] = txn[s]
  PROVE  \A s \in Requests \ {r} :
           Busy(s)' /\ s \notin conflicted' => ReadsStillTrue(s)'
<1> SUFFICES ASSUME NEW s \in Requests \ {r}, Busy(s)', s \notin conflicted'
             PROVE  ReadsStillTrue(s)'
  OBVIOUS
<1>1. Busy(s) /\ s \notin conflicted
  BY DEF Busy
<1>2. ReadsStillTrue(s)
  BY <1>1 DEF IInv, UncontendedReadsHold
<1> QED
  BY <1>1, <1>2, ReadsFrame DEF IInv, Structure

(* A commit changes rows of its own user only, and overtakes the others.   *)
LEMMA CommitReads ==
  ASSUME IInv, NEW r \in Requests, Busy(r), NEW newRows, Commit(r, newRows),
         \A x \in RowIds : Owner(x) # txn[r].user => newRows[x] = rows[x]
  PROVE  UncontendedReadsHold'
<1>1. /\ txn'[r].pc = "idle" /\ \A s \in Requests \ {r} : txn'[s] = txn[s]
      /\ rows' = newRows
  BY Idles DEF Commit, IInv, Structure, Replies
<1> SUFFICES ASSUME NEW s \in Requests, Busy(s)', s \notin conflicted'
             PROVE  ReadsStillTrue(s)'
  BY DEF UncontendedReadsHold
<1>2. s # r /\ txn'[s] = txn[s] /\ Busy(s)
  BY <1>1 DEF Busy
<1>3. /\ s \notin conflicted
      /\ newRows # rows => txn[s].user # txn[r].user
  BY <1>2 DEF Commit
<1>4. \A x \in RowIds : Owner(x) = txn[s].user => rows'[x] = rows[x]
  BY <1>1, <1>3
<1>5. ReadsStillTrue(s)
  BY <1>2, <1>3 DEF IInv, UncontendedReadsHold
<1> QED
  BY <1>2, <1>4, <1>5, ReadsFrame DEF IInv, Structure

(* An answer without a commit keeps everything but the slot. *)
LEMMA AnswerReads ==
  ASSUME IInv, NEW r \in Requests, NEW reply \in Replies, Answer(r, reply), rows' = rows
  PROVE  UncontendedReadsHold'
<1>1. /\ txn'[r].pc = "idle" /\ \A s \in Requests \ {r} : txn'[s] = txn[s]
  BY Idles DEF Answer, IInv, Structure
<1>2. conflicted' = conflicted \ {r}
  BY DEF Answer
<1> QED
  BY <1>1, <1>2, OthersKeepReads DEF UncontendedReadsHold, Busy

-----------------------------------------------------------------------------
(* Types and ownership: one lemma per way a handler can step *)

RowValues == Nat \cup {Null, NoRow}

LEMMA InitInv == Init => IInv
<1> SUFFICES ASSUME Init PROVE IInv
  OBVIOUS
<1>1. TypeOK
  BY DEF Init, TypeOK, Idle, IdleTxn, Replies
<1>2. \A r \in Requests : txn[r].pc = "idle" /\ ~Busy(r)
  BY DEF Init, Idle, Busy
<1> QED
  BY <1>1, <1>2
     DEF IInv, Structure, OwnedOK, OneRowOK, TouchedExist, UncontendedReadsHold

(* A slot that leaves the database alone, except perhaps for a ticket. *)
LEMMA QuietStructure ==
  ASSUME Structure, NEW r \in Requests,
         now' = now, rows' = rows, tokens' = tokens, audit' = audit,
         tickets' \subseteq TicketType, conflicted' \subseteq Requests,
         txn' \in [Requests -> IdleTxn \cup BusyTxn],
         \A s \in Requests \ {r} : txn'[s] = txn[s],
         Busy(r)' => Owned(r)' /\ OneRow(r)',
         txn'[r].pc \in {"touch", "reactivate"} => rows[txn'[r].own] # NoRow
  PROVE  Structure'
<1>1. TypeOK'
  BY DEF Structure, TypeOK
<1>2. OwnedOK' /\ OneRowOK'
  BY DEF Structure, OwnedOK, OneRowOK, Owned, OneRow, Busy
<1>3. TouchedExist'
  BY DEF Structure, TouchedExist
<1> QED
  BY <1>1, <1>2, <1>3 DEF Structure

LEMMA AnswerStructure ==
  ASSUME Structure, NEW r \in Requests, NEW reply \in Replies, Answer(r, reply),
         now' = now, rows' = rows, tokens' = tokens, audit' = audit,
         tickets' \subseteq TicketType
  PROVE  Structure'
<1>1. /\ txn' \in [Requests -> IdleTxn \cup BusyTxn] /\ txn'[r].pc = "idle"
      /\ \A s \in Requests \ {r} : txn'[s] = txn[s]
  BY Idles DEF Answer, Structure
<1>2. conflicted' \subseteq Requests
  BY DEF Answer, Structure, TypeOK
<1> QED
  BY <1>1, <1>2, QuietStructure DEF Busy

(* Rows are never deleted, and a token is minted for a row of its user. *)
LEMMA CommitStructure ==
  ASSUME Structure, NEW r \in Requests, NEW newRows, Commit(r, newRows),
         newRows \in [RowIds -> RowValues],
         \A x \in RowIds : rows[x] # NoRow => newRows[x] # NoRow,
         now' = now, tickets' = tickets, audit' \subseteq RowIds,
         \/ tokens' = tokens
         \/ \E x \in RowIds : MintToken(x) /\ newRows[x] # NoRow
  PROVE  Structure'
<1>1. /\ txn' \in [Requests -> IdleTxn \cup BusyTxn] /\ txn'[r].pc = "idle"
      /\ \A s \in Requests \ {r} : txn'[s] = txn[s]
      /\ rows' = newRows /\ conflicted' \subseteq Requests
  BY Idles DEF Commit, Structure, TypeOK, Replies
<1>2. /\ tokens' \subseteq TokenType
      /\ \A t \in tokens' : Owner(t.device) = t.user /\ rows'[t.device] # NoRow
  <2>1. CASE tokens' = tokens
    BY <2>1, <1>1 DEF Structure, TypeOK, TokenType
  <2>2. CASE \E x \in RowIds : MintToken(x) /\ newRows[x] # NoRow
    <3>1. PICK x \in RowIds : MintToken(x) /\ newRows[x] # NoRow
      BY <2>2
    <3> DEFINE t == [user |-> Owner(x), device |-> x, exp |-> now + JwtTtl]
    <3>2. t \in TokenType /\ t.device = x /\ t.user = Owner(x)
      BY OwnerType, ParametersAssumption DEF TokenType, Structure, TypeOK
    <3>3. tokens' = tokens \cup {t}
      BY <3>1 DEF MintToken
    <3> HIDE DEF t
    <3> QED
      BY <1>1, <3>1, <3>2, <3>3 DEF Structure, TypeOK, TokenType
  <2> QED
    BY <2>1, <2>2
<1>3. TypeOK'
  BY <1>1, <1>2 DEF Structure, TypeOK, RowValues
<1>4. OwnedOK' /\ OneRowOK'
  BY <1>1 DEF Structure, OwnedOK, OneRowOK, Owned, OneRow, Busy
<1>5. TouchedExist'
  <2> SUFFICES ASSUME NEW s \in Requests, txn'[s].pc \in {"touch", "reactivate"}
               PROVE  rows'[txn'[s].own] # NoRow
    BY DEF TouchedExist
  <2>1. txn'[s] = txn[s] /\ Busy(s) /\ rows[txn[s].own] # NoRow
    BY <1>1 DEF Busy, Structure, TouchedExist
  <2> QED
    BY <1>1, <2>1, SlotTypes DEF Structure
<1> QED
  BY <1>3, <1>4, <1>5 DEF Structure

-----------------------------------------------------------------------------
(* The commits, each with what it writes *)

(* Touch commits without a write to deactivated_at. *)
LEMMA TouchCommits ==
  ASSUME IInv, NEW r \in Requests, Touch(r)
  PROVE  Structure' /\ UncontendedReadsHold'
<1>1. /\ Busy(r) /\ txn[r].own \in RowIds /\ rows[txn[r].own] # NoRow
      /\ rows \in [RowIds -> RowValues]
  BY SlotTypes DEF Touch, Busy, IInv, Structure, TouchedExist, TypeOK, RowValues
<1>2. Commit(r, rows) /\ MintToken(txn[r].own)
      /\ now' = now /\ tickets' = tickets /\ audit' \subseteq RowIds
  BY DEF Touch, IInv, Structure, TypeOK
<1> QED
  BY <1>1, <1>2, CommitStructure, CommitReads DEF IInv

(* A write of one row of the request's user. *)
LEMMA OneWrite ==
  ASSUME IInv, NEW r \in Requests, Busy(r), NEW x \in RowIds, Owner(x) = txn[r].user,
         NEW v \in Nat \cup {Null}, Commit(r, [rows EXCEPT ![x] = v]),
         now' = now, tickets' = tickets, audit' \subseteq RowIds,
         tokens' = tokens \/ MintToken(x)
  PROVE  Structure' /\ UncontendedReadsHold'
<1> DEFINE new == [rows EXCEPT ![x] = v]
<1>1. /\ new \in [RowIds -> RowValues]
      /\ \A z \in RowIds : rows[z] # NoRow => new[z] # NoRow
      /\ \A z \in RowIds \ {x} : new[z] = rows[z]
      /\ new[x] # NoRow
  BY SentinelsAssumption DEF IInv, Structure, TypeOK, RowValues
<1>2. Commit(r, new)
  OBVIOUS
<1> HIDE DEF new
<1>3. Structure'
  BY <1>1, <1>2, CommitStructure DEF IInv
<1>4. UncontendedReadsHold'
  BY <1>1, <1>2, CommitReads
<1> QED
  BY <1>3, <1>4

LEMMA ReactivateCommits ==
  ASSUME IInv, NEW r \in Requests, Reactivate(r)
  PROVE  Structure' /\ UncontendedReadsHold'
<1>1. Busy(r) /\ txn[r].own \in RowIds /\ Owner(txn[r].own) = txn[r].user
  BY SlotTypes DEF Reactivate, Busy, IInv, Structure, OwnedOK, Owned
<1> QED
  BY <1>1, OneWrite DEF Reactivate, IInv, Structure, TypeOK

LEMMA InsertCommits ==
  ASSUME IInv, NEW r \in Requests, Insert(r)
  PROVE  Structure' /\ UncontendedReadsHold'
<1>1. Busy(r) /\ txn[r].own \in RowIds /\ Owner(txn[r].own) = txn[r].user
  BY SlotTypes DEF Insert, Busy, IInv, Structure, OwnedOK, Owned
<1> QED
  BY <1>1, OneWrite DEF Insert, IInv, Structure, TypeOK

LEMMA StampTypes ==
  ASSUME TypeOK, NEW r \in Requests, Busy(r), NEW at \in Stamps(r)
  PROVE  at \in Nat /\ txn[r].at <= at /\ at <= now
BY SlotTypes DEF Stamps, TypeOK

LEMMA SelfCommits ==
  ASSUME IInv, NEW r \in Requests, SelfDeactivate(r)
  PROVE  Structure' /\ UncontendedReadsHold'
<1>1. Busy(r) /\ txn[r].target \in RowIds /\ Owner(txn[r].target) = txn[r].user
  BY SlotTypes DEF SelfDeactivate, Busy, IInv, Structure, OwnedOK, Owned
<1>2. PICK at \in Stamps(r) : Commit(r, [rows EXCEPT ![txn[r].target] = at])
  BY DEF SelfDeactivate
<1>3. at \in Nat
  BY <1>1, StampTypes DEF IInv, Structure
<1> QED
  BY <1>1, <1>2, <1>3, OneWrite DEF SelfDeactivate, IInv, Structure, TypeOK

LEMMA AdminCommits ==
  ASSUME IInv, NEW r \in Requests, AdminForceDeactivate(r)
  PROVE  Structure' /\ UncontendedReadsHold'
<1>1. /\ Busy(r) /\ txn[r].target \in RowIds /\ Owner(txn[r].target) = txn[r].user
      /\ rows \in [RowIds -> RowValues]
  BY SlotTypes DEF AdminForceDeactivate, AdminPcs, Busy, IInv, Structure, OwnedOK, Owned,
                   TypeOK, RowValues
<1>2. now' = now /\ tickets' = tickets /\ audit' \subseteq RowIds /\ tokens' = tokens
  BY <1>1 DEF AdminForceDeactivate, IInv, Structure, TypeOK
<1>3. CASE Commit(r, rows)
  BY <1>1, <1>2, <1>3, CommitStructure, CommitReads DEF IInv
<1>4. CASE \E at \in Stamps(r) : Commit(r, [rows EXCEPT ![txn[r].target] = at])
  <2>1. PICK at \in Stamps(r) : Commit(r, [rows EXCEPT ![txn[r].target] = at])
    BY <1>4
  <2>2. at \in Nat
    BY <1>1, StampTypes DEF IInv, Structure
  <2> QED
    BY <1>1, <1>2, <2>1, <2>2, OneWrite
<1> QED
  BY <1>3, <1>4 DEF AdminForceDeactivate

LEMMA RemedyCommits ==
  ASSUME IInv, NEW r \in Requests, Remedy(r)
  PROVE  Structure' /\ UncontendedReadsHold'
<1> DEFINE x == txn[r].target
           y == txn[r].own
<1>1. /\ Busy(r) /\ x \in RowIds /\ y \in RowIds
      /\ Owner(x) = txn[r].user /\ Owner(y) = txn[r].user
  BY SlotTypes DEF Remedy, Busy, IInv, Structure, OwnedOK, Owned
<1>2. PICK at \in Stamps(r) : Commit(r, [rows EXCEPT ![x] = at, ![y] = Null])
  BY DEF Remedy
<1>3. at \in Nat
  BY <1>1, StampTypes DEF IInv, Structure
<1> DEFINE new == [rows EXCEPT ![x] = at, ![y] = Null]
<1>4. /\ new \in [RowIds -> RowValues]
      /\ \A z \in RowIds : rows[z] # NoRow => new[z] # NoRow
      /\ \A z \in RowIds \ {x, y} : new[z] = rows[z]
      /\ new[y] # NoRow
  BY <1>1, <1>3, SentinelsAssumption DEF IInv, Structure, TypeOK, RowValues
<1>5. Commit(r, new) /\ MintToken(y)
      /\ now' = now /\ tickets' = tickets /\ audit' \subseteq RowIds
  BY <1>2 DEF Remedy, IInv, Structure, TypeOK
<1> HIDE DEF new, x, y
<1>6. Structure'
  BY <1>1, <1>4, <1>5, CommitStructure DEF IInv
<1>7. UncontendedReadsHold'
  BY <1>1, <1>4, <1>5, CommitReads
<1> QED
  BY <1>6, <1>7

-----------------------------------------------------------------------------
(* The steps that only read: what was read is what ReadsStillTrue records *)

LEMMA StartInv ==
  ASSUME IInv, NEW r \in Requests, NEW pc \in BusyPcs, NEW u \in Users,
         NEW own \in RowIds, NEW target \in RowIds, Start(r, pc, u, own, target),
         now' = now, rows' = rows, tokens' = tokens, tickets' = tickets, audit' = audit,
         Owned(r)', OneRow(r)',
         pc \in {"touch", "reactivate"} => rows[own] # NoRow,
         ReadsStillTrue(r)'
  PROVE  Structure' /\ UncontendedReadsHold'
<1>1. /\ txn' \in [Requests -> IdleTxn \cup BusyTxn]
      /\ txn'[r].pc = pc /\ txn'[r].own = own
      /\ \A s \in Requests \ {r} : txn'[s] = txn[s]
      /\ conflicted' = conflicted
  BY Starts DEF IInv, Structure
<1>2. Structure'
  BY <1>1, QuietStructure DEF IInv, Structure, TypeOK
<1>3. UncontendedReadsHold'
  BY <1>1, OthersKeepReads DEF UncontendedReadsHold
<1> QED
  BY <1>2, <1>3

LEMMA GotoInv ==
  ASSUME IInv, NEW r \in Requests, Busy(r), NEW pc \in BusyPcs, Goto(r, pc),
         now' = now, rows' = rows, tokens' = tokens, tickets' = tickets, audit' = audit,
         conflicted' = conflicted,
         Owned(r)', OneRow(r)',
         pc \notin {"touch", "reactivate"},
         r \notin conflicted => ReadsStillTrue(r)'
  PROVE  Structure' /\ UncontendedReadsHold'
<1>1. /\ txn' \in [Requests -> IdleTxn \cup BusyTxn]
      /\ txn'[r].pc = pc
      /\ \A s \in Requests \ {r} : txn'[s] = txn[s]
  BY Gotos DEF IInv, Structure
<1>2. Structure'
  BY <1>1, QuietStructure DEF IInv, Structure, TypeOK
<1>3. UncontendedReadsHold'
  BY <1>1, OthersKeepReads DEF UncontendedReadsHold
<1> QED
  BY <1>2, <1>3

LEMMA AnswerInv ==
  ASSUME IInv, NEW r \in Requests, NEW reply \in Replies, Answer(r, reply),
         now' = now, rows' = rows, tokens' = tokens, audit' = audit,
         tickets' \subseteq TicketType
  PROVE  Structure' /\ UncontendedReadsHold'
BY AnswerStructure, AnswerReads DEF IInv

LEMMA SignInInv ==
  ASSUME IInv, NEW r \in Requests, NEW u \in Users, NEW d \in Devices, SignIn(r, u, d)
  PROVE  Structure' /\ UncontendedReadsHold'
<1> DEFINE x == <<u, d>>
<1>0. /\ x \in RowIds /\ Owner(x) = u
      /\ now' = now /\ rows' = rows /\ tokens' = tokens /\ tickets' = tickets
      /\ audit' = audit
  BY NewRow DEF SignIn
<1>t. tickets' \subseteq TicketType
  BY <1>0 DEF IInv, Structure, TypeOK
<1>1. CASE Refuse(r, "cooldown")
  BY <1>0, <1>1, <1>t, AnswerInv DEF Refuse, Replies
<1>2. ASSUME NEW pc \in {"touch", "count", "reactivate"}, Start(r, pc, u, x, x),
             pc = "touch" => rows[x] = Null,
             pc = "count" => rows[x] = NoRow,
             pc = "reactivate" => rows[x] \in Nat /\ ~InCooldown(x)
      PROVE  Structure' /\ UncontendedReadsHold'
  <2> HIDE DEF x
  <2>1. pc \in BusyPcs
    BY DEF BusyPcs, SignInPcs
  <2>2. /\ txn'[r].pc = pc /\ txn'[r].user = u /\ txn'[r].own = x
        /\ txn'[r].target = x /\ txn'[r].at = now
    BY <1>0, <1>2, <2>1, Starts DEF IInv, Structure
  <2>3. Owned(r)' /\ OneRow(r)'
    BY <1>0, <2>2 DEF Owned, OneRow
  <2>4. pc = "reactivate" => rows[x] + Cooldown <= now
    BY <1>2, ParametersAssumption DEF InCooldown, IInv, Structure, TypeOK
  <2>5. ReadsStillTrue(r)'
    BY <1>0, <1>2, <2>2, <2>4 DEF ReadsStillTrue, RemedyPcs, SelfPcs
  <2>6. pc \in {"touch", "reactivate"} => rows[x] # NoRow
    BY <1>2, SentinelsAssumption
  <2> QED
    BY <1>0, <1>2, <2>1, <2>3, <2>5, <2>6, StartInv
<1> QED
  BY <1>1, <1>2 DEF SignIn

LEMMA CountInv ==
  ASSUME IInv, NEW r \in Requests, CountActive(r) \/ RefuseAtCap(r)
  PROVE  Structure' /\ UncontendedReadsHold'
<1>0. /\ Busy(r) /\ txn[r].own \in RowIds /\ txn[r].user \in Users
      /\ Owned(r) /\ OneRow(r) /\ txn[r].pc = "count"
  BY SlotTypes DEF CountActive, RefuseAtCap, Busy, IInv, Structure, OwnedOK, OneRowOK
<1>1. CASE CountActive(r)
  <2>1. /\ Goto(r, "insert") /\ "insert" \in BusyPcs
        /\ now' = now /\ rows' = rows /\ tokens' = tokens /\ tickets' = tickets
        /\ audit' = audit /\ conflicted' = conflicted
        /\ ActiveCount(txn[r].user) < Cap
    BY <1>1 DEF CountActive, BusyPcs, SignInPcs
  <2>2. /\ txn'[r].pc = "insert" /\ txn'[r].user = txn[r].user
        /\ txn'[r].own = txn[r].own /\ txn'[r].target = txn[r].target
    BY <1>0, <2>1, Gotos DEF IInv, Structure
  <2>3. Owned(r)' /\ OneRow(r)'
    BY <1>0, <2>2 DEF Owned, OneRow, SignInPcs
  <2>4. r \notin conflicted => rows[txn[r].own] = NoRow
    BY <1>0 DEF IInv, UncontendedReadsHold, ReadsStillTrue
  <2>5. ActiveCount(txn[r].user)' < Cap
    <3>1. ActiveRows(txn[r].user)' = ActiveRows(txn[r].user)
      BY <2>1, <2>2 DEF ActiveRows
    <3> QED
      BY <2>1, <3>1 DEF ActiveCount
  <2>6. r \notin conflicted => ReadsStillTrue(r)'
    BY <2>1, <2>2, <2>4, <2>5 DEF ReadsStillTrue, RemedyPcs, SelfPcs
  <2> QED
    BY <1>0, <2>1, <2>3, <2>6, GotoInv
<1>2. CASE RefuseAtCap(r)
  <2>1. tickets' \subseteq TicketType
    BY <1>0, <1>2, ParametersAssumption DEF RefuseAtCap, IInv, Structure, TypeOK, TicketType
  <2> QED
    BY <1>2, <2>1, AnswerInv DEF RefuseAtCap, Replies
<1> QED
  BY <1>1, <1>2

LEMMA FailInv ==
  ASSUME IInv, NEW r \in Requests, NEW reply \in Replies, Fail(r, reply)
  PROVE  Structure' /\ UncontendedReadsHold'
BY AnswerInv DEF Fail, IInv, Structure, TypeOK

LEMMA RemedyFindInv ==
  ASSUME IInv, NEW r \in Requests, NEW t \in tickets, NEW target \in RowIds,
         NEW d \in Devices, RemedyFind(r, t, target, d)
  PROVE  Structure' /\ UncontendedReadsHold'
<1> DEFINE x == <<t.user, d>>
<1>0. /\ t.user \in Users /\ x \in RowIds /\ Owner(x) = t.user
      /\ now' = now /\ rows' = rows /\ tokens' = tokens /\ tickets' = tickets
      /\ audit' = audit /\ tickets' \subseteq TicketType
  BY NewRow DEF RemedyFind, IInv, Structure, TypeOK, TicketType
<1>1. CASE Refuse(r, "notFound")
  BY <1>0, <1>1, AnswerInv DEF Refuse, Replies
<1>2. CASE /\ Start(r, "remedyCheck", t.user, x, target)
           /\ Owner(target) = t.user /\ rows[target] = Null
  <2> HIDE DEF x
  <2>1. "remedyCheck" \in BusyPcs
    BY DEF BusyPcs, RemedyPcs
  <2>2. /\ txn'[r].pc = "remedyCheck" /\ txn'[r].user = t.user /\ txn'[r].own = x
        /\ txn'[r].target = target
    BY <1>0, <1>2, <2>1, Starts DEF IInv, Structure
  <2>3. Owned(r)' /\ OneRow(r)'
    BY <1>0, <1>2, <2>2 DEF Owned, OneRow, SignInPcs, AdminPcs
  <2>4. ReadsStillTrue(r)'
    BY <1>0, <1>2, <2>2 DEF ReadsStillTrue, SelfPcs
  <2> QED
    BY <1>0, <1>2, <2>1, <2>3, <2>4, StartInv
<1> QED
  BY <1>1, <1>2 DEF RemedyFind, FindTarget

(* The cooldown check passed: to is the write that follows from. *)
LEMMA PassedCooldownInv ==
  ASSUME IInv, NEW r \in Requests, NEW from, NEW to, PassCooldown(r, from, to),
         \/ from = "remedyCheck" /\ to = "remedy"
         \/ from = "selfCheck" /\ to = "self"
  PROVE  Structure' /\ UncontendedReadsHold'
<1>1. /\ from \in {"remedyCheck", "selfCheck"} /\ to \in BusyPcs
      /\ to \notin {"touch", "reactivate"} \cup SignInPcs \cup AdminPcs /\ to # "selfFind"
      /\ from # "selfFind"
  BY DEF BusyPcs, SignInPcs, RemedyPcs, SelfPcs, AdminPcs
<1>2. /\ txn[r].pc = from /\ Goto(r, to) /\ Recent(txn[r].user) = {}
      /\ now' = now /\ rows' = rows /\ tokens' = tokens /\ tickets' = tickets
      /\ audit' = audit /\ conflicted' = conflicted
  BY DEF PassCooldown
<1>3. /\ Busy(r) /\ txn[r].own \in RowIds /\ txn[r].target \in RowIds
      /\ Owned(r)
  BY <1>1, <1>2, SlotTypes DEF Busy, IInv, Structure, OwnedOK
<1>4. /\ txn'[r].pc = to /\ txn'[r].user = txn[r].user /\ txn'[r].own = txn[r].own
      /\ txn'[r].target = txn[r].target /\ txn'[r].at = now
  BY <1>1, <1>2, <1>3, Gotos DEF IInv, Structure
<1>5. Owned(r)' /\ OneRow(r)'
  BY <1>1, <1>2, <1>3, <1>4 DEF Owned, OneRow
<1>6. NoRecent(txn[r].user, txn[r].at)'
  <2>1. ASSUME NEW y \in RowIds, Owner(y) = txn[r].user, rows[y] \in Nat
        PROVE  rows[y] + Cooldown <= now
    <3>1. ~InCooldown(y)
      BY <1>2, <2>1 DEF Recent
    <3> QED
      BY <2>1, <3>1, ParametersAssumption DEF InCooldown, IInv, Structure, TypeOK
  <2> QED
    BY <1>2, <1>4, <2>1 DEF NoRecent
<1>7. r \notin conflicted => ReadsStillTrue(r)
  BY <1>3 DEF IInv, UncontendedReadsHold
<1>8. r \notin conflicted =>
        rows[txn[r].target] = Null /\ (from = "selfCheck" => rows[txn[r].own] = Null)
  BY <1>1, <1>2, <1>7 DEF ReadsStillTrue, RemedyPcs, SelfPcs
<1>9. ASSUME r \notin conflicted
      PROVE  ReadsStillTrue(r)'
  <2>1. CASE from = "remedyCheck"
    <3>1. txn'[r].pc = "remedy" /\ rows'[txn'[r].target] = Null
      BY <1>2, <1>4, <1>8, <1>9, <2>1
    <3> QED
      BY <3>1, <1>6 DEF ReadsStillTrue, RemedyPcs, SelfPcs
  <2>2. CASE from = "selfCheck"
    <3>1. /\ txn'[r].pc = "self" /\ rows'[txn'[r].target] = Null
          /\ rows'[txn'[r].own] = Null
      BY <1>2, <1>4, <1>8, <1>9, <2>2
    <3> QED
      BY <3>1, <1>6 DEF ReadsStillTrue, RemedyPcs, SelfPcs
  <2> QED
    BY <1>1, <2>1, <2>2
<1> QED
  BY <1>1, <1>2, <1>3, <1>5, <1>9, GotoInv

LEMMA PassCooldownInv ==
  ASSUME IInv, NEW r \in Requests, RemedyCheck(r) \/ SelfCheck(r)
  PROVE  Structure' /\ UncontendedReadsHold'
<1>1. CASE RemedyCheck(r)
  <2>1. PassCooldown(r, "remedyCheck", "remedy")
    BY <1>1 DEF RemedyCheck
  <2> QED
    BY <2>1, PassedCooldownInv
<1>2. CASE SelfCheck(r)
  <2>1. PassCooldown(r, "selfCheck", "self")
    BY <1>2 DEF SelfCheck
  <2> QED
    BY <2>1, PassedCooldownInv
<1> QED
  BY <1>1, <1>2

LEMMA PrincipalInv ==
  ASSUME IInv, NEW r \in Requests, NEW t \in tokens, NEW target \in RowIds,
         NEW pc \in {"list", "selfFind"}, Principal(r, pc, t, target),
         pc = "list" => target = t.device
  PROVE  Structure' /\ UncontendedReadsHold'
<1>0. /\ t.user \in Users /\ t.device \in RowIds /\ Owner(t.device) = t.user
      /\ now' = now /\ rows' = rows /\ tokens' = tokens /\ tickets' = tickets
      /\ audit' = audit /\ tickets' \subseteq TicketType
  BY DEF Principal, IInv, Structure, TypeOK, TokenType
<1>1. CASE Refuse(r, "forbidden")
  BY <1>0, <1>1, AnswerInv DEF Refuse, Replies
<1>2. CASE Start(r, pc, t.user, t.device, target) /\ rows[t.device] = Null
  <2>1. pc \in BusyPcs
    BY DEF BusyPcs, SelfPcs
  <2>2. /\ txn'[r].pc = pc /\ txn'[r].user = t.user /\ txn'[r].own = t.device
        /\ txn'[r].target = target
    BY <1>0, <1>2, <2>1, Starts DEF IInv, Structure
  <2>3. Owned(r)' /\ OneRow(r)'
    BY <1>0, <2>2 DEF Owned, OneRow, SignInPcs, AdminPcs
  <2>4. ReadsStillTrue(r)'
    BY <1>0, <1>2, <2>2 DEF ReadsStillTrue, RemedyPcs
  <2> QED
    BY <1>0, <1>2, <2>1, <2>3, <2>4, StartInv
<1> QED
  BY <1>1, <1>2 DEF Principal

LEMMA OwnRequestInv ==
  ASSUME IInv, NEW r \in Requests, NEW t \in tokens,
         ListPrincipal(r, t) \/ \E target \in RowIds : SelfPrincipal(r, t, target)
  PROVE  Structure' /\ UncontendedReadsHold'
<1>1. t.device \in RowIds
  BY DEF IInv, Structure, TypeOK, TokenType
<1> QED
  BY <1>1, PrincipalInv DEF ListPrincipal, SelfPrincipal

LEMMA ListInv ==
  ASSUME IInv, NEW r \in Requests, ListDevices(r)
  PROVE  Structure' /\ UncontendedReadsHold'
BY AnswerInv DEF ListDevices, Replies, IInv, Structure, TypeOK

LEMMA SelfFindInv ==
  ASSUME IInv, NEW r \in Requests, SelfFind(r)
  PROVE  Structure' /\ UncontendedReadsHold'
<1> DEFINE x == txn[r].target
<1>0. /\ Busy(r) /\ txn[r].own \in RowIds /\ x \in RowIds /\ txn[r].pc = "selfFind"
      /\ Owner(txn[r].own) = txn[r].user
      /\ now' = now /\ rows' = rows /\ tokens' = tokens /\ tickets' = tickets
      /\ audit' = audit /\ tickets' \subseteq TicketType
  BY SlotTypes DEF SelfFind, Busy, IInv, Structure, OwnedOK, Owned, TypeOK
<1>1. CASE \E reply \in {"notFound", "ok"} : Answer(r, reply)
  BY <1>0, <1>1, AnswerInv DEF Replies
<1>2. CASE /\ Goto(r, "selfCheck") /\ conflicted' = conflicted /\ Owner(x) = txn[r].user
           /\ x = txn[r].own \/ rows[x] = Null
  <2>1. "selfCheck" \in BusyPcs
    BY DEF BusyPcs, SelfPcs
  <2>2. /\ txn'[r].pc = "selfCheck" /\ txn'[r].user = txn[r].user
        /\ txn'[r].own = txn[r].own /\ txn'[r].target = x
    BY <1>0, <1>2, <2>1, Gotos DEF IInv, Structure
  <2>3. Owned(r)' /\ OneRow(r)'
    BY <1>0, <1>2, <2>2 DEF Owned, OneRow, SignInPcs, AdminPcs
  <2>4. r \notin conflicted => rows[txn[r].own] = Null
    BY <1>0 DEF IInv, UncontendedReadsHold, ReadsStillTrue, SelfPcs
  <2>5. r \notin conflicted => ReadsStillTrue(r)'
    BY <1>0, <1>2, <2>2, <2>4 DEF ReadsStillTrue, RemedyPcs
  <2> QED
    BY <1>0, <1>2, <2>1, <2>3, <2>5, GotoInv
<1> QED
  BY <1>1, <1>2 DEF SelfFind

LEMMA AdminFindInv ==
  ASSUME IInv, NEW r \in Requests, NEW u \in Users, NEW target \in RowIds,
         AdminFind(r, u, target)
  PROVE  Structure' /\ UncontendedReadsHold'
<1>0. /\ now' = now /\ rows' = rows /\ tokens' = tokens /\ tickets' = tickets
      /\ audit' = audit /\ tickets' \subseteq TicketType
  BY DEF AdminFind, IInv, Structure, TypeOK
<1>1. CASE Refuse(r, "notFound")
  BY <1>0, <1>1, AnswerInv DEF Refuse, Replies
<1>2. ASSUME NEW pc \in AdminPcs, Start(r, pc, u, target, target), Owner(target) = u,
             pc = "adminStamp" => rows[target] = Null,
             pc = "adminLog" => rows[target] \in Nat
      PROVE  Structure' /\ UncontendedReadsHold'
  <2>1. pc \in BusyPcs /\ pc \in {"adminStamp", "adminLog"}
    BY <1>2 DEF BusyPcs, AdminPcs
  <2>2. /\ txn'[r].pc = pc /\ txn'[r].user = u /\ txn'[r].own = target
        /\ txn'[r].target = target
    BY <1>2, <2>1, Starts DEF IInv, Structure
  <2>3. Owned(r)' /\ OneRow(r)'
    BY <1>2, <2>2 DEF Owned, OneRow
  <2>4. ReadsStillTrue(r)'
    BY <1>0, <1>2, <2>1, <2>2 DEF ReadsStillTrue, RemedyPcs, SelfPcs
  <2> QED
    BY <1>0, <1>2, <2>1, <2>3, <2>4, StartInv
<1>3. CASE Owner(target) = u /\ rows[target] # NoRow
  <2>1. rows[target] = Null \/ rows[target] \in Nat
    BY <1>3 DEF IInv, Structure, TypeOK
  <2> QED
    BY <1>2, <1>3, <2>1 DEF AdminFind, AdminPcs
<1> QED
  BY <1>1, <1>3 DEF AdminFind

LEMMA TickInv ==
  ASSUME IInv, Tick
  PROVE  Structure' /\ UncontendedReadsHold'
<1>1. /\ rows' = rows /\ txn' = txn /\ audit' = audit /\ conflicted' = conflicted
      /\ now' \in Nat /\ tokens' \subseteq tokens /\ tickets' \subseteq tickets
  BY DEF Tick, IInv, Structure, TypeOK
<1>2. TypeOK'
  BY <1>1 DEF IInv, Structure, TypeOK
<1>3. OwnedOK' /\ OneRowOK' /\ TouchedExist'
  BY <1>1 DEF IInv, Structure, OwnedOK, OneRowOK, TouchedExist, Owned, OneRow, Busy
<1>4. \A s \in Requests : ReadsStillTrue(s) => ReadsStillTrue(s)'
  BY <1>1 DEF ReadsStillTrue, ActiveCount, ActiveRows, NoRecent
<1> QED
  BY <1>1, <1>2, <1>3, <1>4 DEF Structure, IInv, UncontendedReadsHold, Busy

LEMMA StutterInv ==
  ASSUME IInv, UNCHANGED vars
  PROVE  Structure' /\ UncontendedReadsHold'
<1>1. /\ rows' = rows /\ txn' = txn /\ audit' = audit /\ conflicted' = conflicted
      /\ now' = now /\ tokens' = tokens /\ tickets' = tickets
  BY DEF vars
<1>2. TypeOK'
  BY <1>1 DEF IInv, Structure, TypeOK
<1>3. OwnedOK' /\ OneRowOK' /\ TouchedExist'
  BY <1>1 DEF IInv, Structure, OwnedOK, OneRowOK, TouchedExist, Owned, OneRow, Busy
<1>4. \A s \in Requests : ReadsStillTrue(s) => ReadsStillTrue(s)'
  BY <1>1 DEF ReadsStillTrue, ActiveCount, ActiveRows, NoRecent
<1> QED
  BY <1>1, <1>2, <1>3, <1>4 DEF Structure, IInv, UncontendedReadsHold, Busy

LEMMA InductiveStep ==
  ASSUME IInv, [Next]_vars
  PROVE  IInv'
<1>1. ASSUME NEW r \in Requests, Arrive(r)
      PROVE  Structure' /\ UncontendedReadsHold'
  BY <1>1, SignInInv, RemedyFindInv, OwnRequestInv, AdminFindInv DEF Arrive
<1>2. ASSUME NEW r \in Requests, Handle(r)
      PROVE  Structure' /\ UncontendedReadsHold'
  <2>1. ASSUME InsertFails(r) \/ RemedyRefused(r) \/ SelfRefused(r) \/ Abort(r)
        PROVE  Structure' /\ UncontendedReadsHold'
    <3>1. \E reply \in Replies : Fail(r, reply)
      BY <2>1 DEF InsertFails, RemedyRefused, SelfRefused, RefuseInCooldown, Abort, Replies
    <3> QED
      BY <3>1, FailInv
  <2> QED
    BY <1>2, <2>1, TouchCommits, ReactivateCommits, CountInv, InsertCommits,
       PassCooldownInv, RemedyCommits, ListInv, SelfFindInv, SelfCommits, AdminCommits DEF Handle
<1> QED
  BY <1>1, <1>2, TickInv, StutterInv DEF Next, IInv

LEMMA InductiveInvariant == Spec => []IInv
<1>1. Init => IInv
  BY InitInv
<1>2. IInv /\ [Next]_vars => IInv'
  BY InductiveStep
<1> QED
  BY <1>1, <1>2, PTL DEF Spec

-----------------------------------------------------------------------------
(* The theorems *)

(* Every table, token and request keeps its type, and a token names an     *)
(* existing device of its user (deps.py:49-68, auth.py:137-142, 204-209).  *)
THEOREM RegistryTypeCorrect == Spec => []TypeOK
<1>1. IInv => TypeOK
  BY DEF IInv, Structure
<1> QED
  BY <1>1, InductiveInvariant, PTL

(* A request no other commit of its user has overtaken acts on reads that  *)
(* still hold, whatever the other requests do (device_service.py:71-218).  *)
THEOREM UncontendedReads == Spec => []UncontendedReadsHold
<1>1. IInv => UncontendedReadsHold
  BY DEF IInv
<1> QED
  BY <1>1, InductiveInvariant, PTL
=============================================================================
