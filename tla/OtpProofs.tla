------------------------------ MODULE OtpProofs ------------------------------
(***************************************************************************)
(* Proofs about Otp for any number of slots, any limit, window, lifetime   *)
(* and bound: the type invariant, and the two bounds on what concurrent    *)
(* requests can get out of one phone number.                               *)
(***************************************************************************)
EXTENDS Otp, FiniteSetTheorems, TLAPS

(* The sets that are counted are finite, and counting them is monotone. *)
LEMMA SubsetCount ==
  ASSUME NEW S, IsFiniteSet(S), NEW T, T \subseteq S
  PROVE  /\ IsFiniteSet(T) /\ IsFiniteSet(S)
         /\ Cardinality(T) \in Nat /\ Cardinality(S) \in Nat
         /\ Cardinality(T) <= Cardinality(S)
BY FS_Subset, FS_CardinalityType

LEMMA EmptyCount == IsFiniteSet({}) /\ Cardinality({}) = 0
BY FS_EmptySet

LEMMA FiniteSlots == IsFiniteSet(Requests) /\ Cardinality(Requests) \in Nat
BY SlotsAssumption, FS_CardinalityType

(* A set of slots is finite and no larger than the set of all slots. *)
LEMMA SlotCount ==
  ASSUME NEW T, T \subseteq Requests
  PROVE  IsFiniteSet(T) /\ Cardinality(T) \in Nat
         /\ Cardinality(T) <= Cardinality(Requests)
BY SubsetCount, SlotsAssumption

(* Dropping a member of a set of slots lowers its count by one. *)
LEMMA SlotLeaves ==
  ASSUME NEW T, T \subseteq Requests, NEW r \in T
  PROVE  Cardinality(T \ {r}) + 1 = Cardinality(T)
BY SlotCount, FS_RemoveElement, T \ {r} \subseteq Requests

LEMMA CountGrows ==
  ASSUME NEW S, IsFiniteSet(S), NEW x
  PROVE  /\ IsFiniteSet(S \cup {x}) /\ Cardinality(S \cup {x}) \in Nat
         /\ Cardinality(S \cup {x}) <= Cardinality(S) + 1
<1>1. Cardinality(S) \in Nat
  BY FS_CardinalityType
<1>2. IsFiniteSet(S \cup {x})
  BY FS_AddElement
<1>3. Cardinality(S \cup {x}) = IF x \in S THEN Cardinality(S) ELSE Cardinality(S) + 1
  BY FS_AddElement
<1> QED
  BY <1>1, <1>2, <1>3

LEMMA FiniteRows == IsFiniteSet(RecentRows) /\ Cardinality(RecentRows) \in Nat
<1>1. IsFiniteSet(Ids)
  BY FS_Interval, OtpParametersAssumption DEF Ids
<1> QED
  BY <1>1, SubsetCount DEF RecentRows, Rows

-----------------------------------------------------------------------------
(* The inductive invariant: types, the records in flight, the two rooms. *)

IInv == TypeOK /\ InFlight /\ CommittedCodesWereSent /\ RateRoom /\ AcceptRoom

LEMMA InitInv == Init => IInv
<1> SUFFICES ASSUME Init PROVE IInv
  OBVIOUS
<1> USE OtpParametersAssumption, NoCodeAssumption
<1>1. TypeOK
  BY DEF Init, TypeOK, Idle, IdleTxn, Replies
<1>2. Rows = {} /\ RecentRows = {} /\ Issuing = {} /\ \A i \in Ids : Verifying(i) = {}
  BY DEF Init, Rows, RecentRows, Issuing, Verifying, Idle
<1>3. InFlight /\ CommittedCodesWereSent
  BY <1>2 DEF Init, InFlight, CommittedCodesWereSent, Idle
<1>4. RateRoom
  BY <1>2, EmptyCount, FiniteSlots DEF RateRoom
<1>5. AcceptRoom
  <2>1. \A i \in Ids : accepted[i] = 0 /\ Cardinality(Verifying(i)) = 0
    BY <1>2, EmptyCount DEF Init
  <2> QED
    BY <2>1, FiniteSlots DEF AcceptRoom
<1> QED
  BY <1>1, <1>3, <1>4, <1>5 DEF IInv

-----------------------------------------------------------------------------
(* How the helpers move a slot: they keep its type and every other slot *)

LEMMA SlotTypes ==
  ASSUME TypeOK, NEW r \in Requests
  PROVE  /\ txn[r].pc = "idle" \/ txn[r].pc \in Pcs
         /\ Busy(r) => txn[r] \in BusyTxn /\ txn[r].id \in Ids /\ txn[r].at \in Nat
BY DEF TypeOK, Busy, IdleTxn, BusyTxn

LEMMA Answers ==
  ASSUME TypeOK, NEW r \in Requests, NEW reply \in Replies, Answer(r, reply)
  PROVE  /\ txn' \in [Requests -> IdleTxn \cup BusyTxn]
         /\ txn'[r].pc = "idle"
         /\ \A s \in Requests \ {r} : txn'[s] = txn[s]
<1>1. Idle(reply) \in IdleTxn /\ Idle(reply).pc = "idle"
  BY DEF Idle, IdleTxn
<1>2. txn' = [txn EXCEPT ![r] = Idle(reply)] /\ txn \in [Requests -> IdleTxn \cup BusyTxn]
  BY DEF Answer, TypeOK
<1> QED
  BY <1>1, <1>2

LEMMA Starts ==
  ASSUME TypeOK, NEW r \in Requests, NEW pc \in Pcs, NEW i \in Ids, Start(r, pc, i)
  PROVE  /\ txn' \in [Requests -> IdleTxn \cup BusyTxn]
         /\ txn'[r].pc = pc /\ txn'[r].id = i /\ txn'[r].at = now
         /\ \A s \in Requests \ {r} : txn'[s] = txn[s]
<1> DEFINE new == [pc |-> pc, id |-> i, at |-> now]
<1>1. new \in BusyTxn /\ new.pc = pc /\ new.id = i /\ new.at = now
  BY DEF TypeOK, BusyTxn
<1>2. txn' = [txn EXCEPT ![r] = new] /\ txn \in [Requests -> IdleTxn \cup BusyTxn]
  BY DEF Start, TypeOK
<1> HIDE DEF new
<1> QED
  BY <1>1, <1>2

LEMMA Gotos ==
  ASSUME TypeOK, NEW r \in Requests, Busy(r), NEW pc \in Pcs, Goto(r, pc)
  PROVE  /\ txn' \in [Requests -> IdleTxn \cup BusyTxn]
         /\ txn'[r].pc = pc /\ txn'[r].id = txn[r].id /\ txn'[r].at = txn[r].at
         /\ \A s \in Requests \ {r} : txn'[s] = txn[s]
<1> DEFINE new == [pc |-> pc, id |-> txn[r].id, at |-> txn[r].at]
<1>1. new \in BusyTxn /\ new.pc = pc /\ new.id = txn[r].id /\ new.at = txn[r].at
  BY SlotTypes DEF BusyTxn
<1>2. txn' = [txn EXCEPT ![r] = new] /\ txn \in [Requests -> IdleTxn \cup BusyTxn]
  BY DEF Goto, TypeOK
<1> HIDE DEF new
<1> QED
  BY <1>1, <1>2

(* What the two writes of otp_codes leave in the row. *)
LEMMA RowWrites ==
  ASSUME TypeOK, NEW i \in Ids, NEW row \in CodeType,
         codes' = [codes EXCEPT ![i] = row]
  PROVE  /\ codes' \in [Ids -> CodeType \cup {NoCode}]
         /\ codes'[i] = row /\ codes'[i] # NoCode
         /\ \A j \in Ids \ {i} : codes'[j] = codes[j]
<1>1. row # NoCode
  BY NoCodeAssumption DEF CodeType
<1> QED
  BY <1>1 DEF TypeOK

-----------------------------------------------------------------------------
(* Types and records in flight: one step per action *)

Structure == TypeOK /\ InFlight /\ CommittedCodesWereSent

LEMMA StructureStep ==
  ASSUME Structure, [Next]_vars
  PROVE  Structure'
<1> USE DEF Structure, InFlight, CommittedCodesWereSent, Issuing, Rows
<1>1. ASSUME NEW r \in Requests, Issue(r)
      PROVE  Structure'
  <2>u. now' = now /\ codes' = codes /\ sent' = sent /\ accepted' = accepted /\ wrongs' = wrongs
    BY <1>1 DEF Issue
  <2>1. CASE Answer(r, "rateLimited") /\ UNCHANGED drawn
    <3>1. /\ txn'[r].pc = "idle" /\ \A s \in Requests \ {r} : txn'[s] = txn[s]
          /\ txn' \in [Requests -> IdleTxn \cup BusyTxn]
      BY <2>1, Answers DEF Replies
    <3>2. TypeOK'
      BY <2>u, <2>1, <3>1 DEF TypeOK
    <3> QED
      BY <2>u, <2>1, <3>1, <3>2
  <2>2. CASE drawn < MaxCodes /\ drawn' = drawn + 1 /\ Start(r, "issue", drawn + 1)
    <3>1. drawn + 1 \in Ids /\ drawn' = drawn + 1 /\ Start(r, "issue", drawn + 1)
      BY <2>2, OtpParametersAssumption DEF TypeOK, Ids
    <3>2. codes[drawn + 1] = NoCode /\ \A s \in Issuing : txn[s].id # drawn + 1
      BY <3>1, SlotTypes, OtpParametersAssumption DEF TypeOK, Ids, Busy
    <3>3. /\ txn'[r].pc = "issue" /\ txn'[r].id = drawn + 1
          /\ \A s \in Requests \ {r} : txn'[s] = txn[s]
          /\ txn' \in [Requests -> IdleTxn \cup BusyTxn]
      BY <3>1, Starts DEF Pcs
    <3>4. drawn' \in 0..MaxCodes /\ \A i \in Ids : i > drawn' => i > drawn
      BY <3>1, OtpParametersAssumption DEF TypeOK, Ids
    <3>5. TypeOK'
      BY <2>u, <3>3, <3>4 DEF TypeOK
    <3>6. \A s \in Issuing : txn[s].id \in Ids /\ txn[s].id <= drawn'
      BY <3>1, SlotTypes, OtpParametersAssumption DEF TypeOK, Ids, Busy
    <3>7. drawn + 1 <= drawn'
      BY <3>1, OtpParametersAssumption DEF TypeOK
    <3>8. InFlight'
      BY <2>u, <3>1, <3>2, <3>3, <3>6, <3>7
    <3> QED
      BY <2>u, <3>5, <3>8
  <2> QED
    BY <1>1, <2>1, <2>2 DEF Issue
<1>2. ASSUME NEW r \in Requests, Send(r)
      PROVE  Structure'
  <2>1. Busy(r) /\ txn[r].id \in Ids /\ Goto(r, "delivered") /\ sent' = sent \cup {txn[r].id}
    BY <1>2, SlotTypes DEF Send, Busy
  <2>2. /\ txn'[r].pc = "delivered" /\ txn'[r].id = txn[r].id
        /\ \A s \in Requests \ {r} : txn'[s] = txn[s]
        /\ txn' \in [Requests -> IdleTxn \cup BusyTxn]
    BY <2>1, Gotos DEF Pcs
  <2>3. txn[r].id <= drawn
    BY <1>2 DEF Send
  <2>u. now' = now /\ codes' = codes /\ drawn' = drawn /\ accepted' = accepted /\ wrongs' = wrongs
    BY <1>2 DEF Send
  <2>t. \A i \in Ids : i > drawn => i # txn[r].id
    BY <2>1, <2>3, OtpParametersAssumption DEF TypeOK, Ids
  <2>4. TypeOK'
    BY <2>1, <2>2, <2>t, <2>u DEF TypeOK
  <2>5. /\ codes' = codes /\ drawn' = drawn /\ txn[r].pc = "issue"
        /\ txn[r].id \in sent'
    BY <1>2, <2>1 DEF Send
  <2>6. InFlight'
    BY <2>2, <2>5, <2>1
  <2> QED
    BY <2>1, <2>4, <2>5, <2>6
<1>3. ASSUME NEW r \in Requests, IssueCommit(r)
      PROVE  Structure'
  <2> DEFINE row == [created |-> txn[r].at, consumed |-> FALSE, attempts |-> 0]
             i == txn[r].id
  <2>1. Busy(r) /\ i \in Ids /\ row \in CodeType /\ ~row.consumed
    BY <1>3, SlotTypes DEF IssueCommit, Busy, CodeType
  <2>2. /\ codes' \in [Ids -> CodeType \cup {NoCode}]
        /\ codes'[i] = row /\ codes'[i] # NoCode
        /\ \A j \in Ids \ {i} : codes'[j] = codes[j]
    BY <1>3, <2>1, RowWrites DEF IssueCommit
  <2>3. /\ txn'[r].pc = "idle" /\ \A s \in Requests \ {r} : txn'[s] = txn[s]
        /\ txn' \in [Requests -> IdleTxn \cup BusyTxn]
    BY <1>3, Answers DEF IssueCommit, Replies
  <2>4. codes[i] = NoCode /\ i <= drawn /\ i \in sent /\ accepted[i] = 0
    BY <1>3, <2>1 DEF IssueCommit, TypeOK
  <2>5. TypeOK'
    BY <1>3, <2>1, <2>2, <2>3, <2>4 DEF IssueCommit, TypeOK, Ids
  <2>6. \A s \in Issuing \ {r} : txn[s].id \in Ids /\ txn[s].id # i
    BY <1>3, SlotTypes DEF IssueCommit, Busy
  <2>7. \A s \in Requests : Busy(s) => txn[s].id \in Ids
    BY SlotTypes
  <2> HIDE DEF i, row
  <2> QED
    BY <1>3, <2>2, <2>3, <2>4, <2>5, <2>6, <2>7 DEF IssueCommit, Busy
<1>4. ASSUME NEW r \in Requests, NEW c \in sent \cup {WrongCode}, Verify(r, c)
      PROVE  Structure'
  <2>1. CASE \E reply \in Replies : Answer(r, reply)
    BY <2>1, <1>4, Answers DEF Verify, TypeOK
  <2>2. CASE ~\E reply \in Replies : Answer(r, reply)
    <3>1. PICK i \in Unconsumed, pc \in {"match", "wrong"} : Start(r, pc, i)
      BY <2>2, <1>4 DEF Verify, Replies
    <3>2. i \in Ids /\ codes[i] # NoCode
      BY <3>1 DEF Unconsumed
    <3>3. /\ txn'[r].pc \in {"match", "wrong"} /\ txn'[r].id = i
          /\ \A s \in Requests \ {r} : txn'[s] = txn[s]
          /\ txn' \in [Requests -> IdleTxn \cup BusyTxn]
      BY <3>1, <3>2, Starts DEF Pcs
    <3> QED
      BY <1>4, <3>2, <3>3 DEF Verify, TypeOK
  <2> QED
    BY <2>1, <2>2
<1>5. ASSUME NEW r \in Requests, RejectWrong(r)
      PROVE  Structure'
  <2>1. wrongs' \in [Ids -> Nat]
    BY <1>5, SlotTypes DEF RejectWrong, TypeOK, Busy
  <2> QED
    BY <1>5, <2>1, Answers DEF RejectWrong, TypeOK, Replies
<1>6. ASSUME NEW r \in Requests, Consume(r)
      PROVE  Structure'
  BY <1>6, Gotos DEF Consume, TypeOK, Busy, Pcs
<1>7. ASSUME NEW r \in Requests, Accept(r)
      PROVE  Structure'
  <2> DEFINE i == txn[r].id
             row == [created |-> codes[i].created, consumed |-> TRUE,
                     attempts |-> codes[i].attempts]
  <2>1. Busy(r) /\ i \in Ids /\ codes[i] # NoCode
    BY <1>7, SlotTypes DEF Accept, Busy
  <2>2. row \in CodeType /\ row.consumed
    BY <2>1 DEF TypeOK, CodeType
  <2>3. codes' = [codes EXCEPT ![i] = row]
    BY <1>7 DEF Accept
  <2> HIDE DEF row
  <2>4. /\ codes' \in [Ids -> CodeType \cup {NoCode}]
        /\ codes'[i] = row /\ codes'[i] # NoCode
        /\ \A j \in Ids \ {i} : codes'[j] = codes[j]
    BY <2>1, <2>2, <2>3, RowWrites
  <2>5. /\ txn'[r].pc = "idle" /\ \A s \in Requests \ {r} : txn'[s] = txn[s]
        /\ txn' \in [Requests -> IdleTxn \cup BusyTxn]
    BY <1>7, Answers DEF Accept, Replies
  <2>6. /\ accepted' \in [Ids -> Nat]
        /\ \A j \in Ids \ {i} : accepted'[j] = accepted[j]
    BY <1>7, <2>1 DEF Accept, TypeOK
  <2>7. TypeOK'
    BY <1>7, <2>1, <2>2, <2>4, <2>5, <2>6 DEF Accept, TypeOK
  <2>8. \A s \in Requests : Busy(s) => txn[s].id \in Ids
    BY SlotTypes
  <2>9. sent' = sent /\ drawn' = drawn /\ \A s \in Issuing : txn[s].id # i
    BY <1>7, <2>1 DEF Accept
  <2> HIDE DEF i
  <2>10. InFlight'
    BY <2>1, <2>4, <2>5, <2>8, <2>9 DEF Busy
  <2>11. CommittedCodesWereSent'
    BY <2>1, <2>4, <2>9
  <2> QED
    BY <2>7, <2>10, <2>11
<1>8. ASSUME NEW r \in Requests, Release(r) \/ Abort(r)
      PROVE  Structure'
  BY <1>8, Answers DEF Release, Abort, TypeOK, Replies
<1>9. CASE Tick
  BY <1>9 DEF Tick, TypeOK
<1>10. CASE UNCHANGED vars
  BY <1>10 DEF vars, TypeOK
<1> QED
  BY <1>1, <1>2, <1>3, <1>4, <1>5, <1>6, <1>7, <1>8, <1>9, <1>10
     DEF Next, Arrive, Unlocked, Locking
-----------------------------------------------------------------------------
(* The two rooms *)

(* A request that draws a number saw room for it; committing the row moves *)
(* the request from Issuing to RecentRows; everything else only gives room *)
(* back.                                                                   *)
LEMMA RateStep ==
  ASSUME Structure, RateRoom, [Next]_vars
  PROVE  RateRoom'
<1> DEFINE N == Cardinality(Requests)
<1>0. N \in Nat /\ Limit \in Nat /\ Cardinality(RecentRows) \in Nat
  BY FiniteSlots, FiniteRows, OtpParametersAssumption
<1>1. Cardinality(Issuing) \in Nat
  BY SlotCount DEF Issuing
<1>2. ASSUME RecentRows' \subseteq RecentRows, Issuing' \subseteq Issuing
      PROVE  RateRoom'
  <2>1. /\ Cardinality(RecentRows') \in Nat
        /\ Cardinality(RecentRows') <= Cardinality(RecentRows)
    BY <1>2, FiniteRows, SubsetCount
  <2>2. IsFiniteSet(Issuing)
    BY SlotCount DEF Issuing
  <2>3. /\ Cardinality(Issuing') \in Nat
        /\ Cardinality(Issuing') <= Cardinality(Issuing)
    BY <1>2, <2>2, SubsetCount
  <2> QED
    BY <1>0, <1>1, <2>1, <2>3 DEF RateRoom
<1>3. ASSUME NEW r \in Requests, Issue(r)
      PROVE  RateRoom'
  <2>1. RecentRows' = RecentRows
    BY <1>3 DEF Issue, RecentRows, Rows
  <2>2. CASE Answer(r, "rateLimited")
    <3>1. Issuing' \subseteq Issuing
      BY <2>2, Answers DEF Structure, Replies, Issuing
    <3> QED
      BY <2>1, <3>1, <1>2
  <2>3. CASE Cardinality(RecentRows) < Limit
    <3>1. Cardinality(Issuing') \in Nat /\ Cardinality(Issuing') <= N
      BY SlotCount, Issuing' \subseteq Requests DEF Issuing
    <3> QED
      BY <1>0, <2>1, <2>3, <3>1 DEF RateRoom
  <2> QED
    BY <1>3, <2>2, <2>3 DEF Issue
<1>4. ASSUME NEW r \in Requests, IssueCommit(r)
      PROVE  RateRoom'
  <2>1. /\ txn'[r].pc = "idle"
        /\ \A s \in Requests \ {r} : txn'[s] = txn[s]
    BY <1>4, Answers DEF IssueCommit, Structure, Replies
  <2>2. Issuing' = Issuing \ {r} /\ r \in Issuing
    BY <1>4, <2>1 DEF IssueCommit, Issuing
  <2>3. Cardinality(Issuing') + 1 = Cardinality(Issuing) /\ Cardinality(Issuing') \in Nat
    BY <2>2, SlotLeaves, SlotCount, Issuing \ {r} \subseteq Requests DEF Issuing
  <2>4. RecentRows' \subseteq RecentRows \cup {txn[r].id}
    <3>1. codes' = [codes EXCEPT ![txn[r].id] = codes'[txn[r].id]] /\ now' = now
      BY <1>4, SlotTypes DEF IssueCommit, Structure, TypeOK, Busy
    <3>2. \A i \in Ids : i # txn[r].id => codes'[i] = codes[i]
      BY <3>1 DEF Structure, TypeOK
    <3> QED
      BY <3>1, <3>2 DEF RecentRows, Rows
  <2>5. /\ IsFiniteSet(RecentRows \cup {txn[r].id})
        /\ Cardinality(RecentRows \cup {txn[r].id}) \in Nat
        /\ Cardinality(RecentRows \cup {txn[r].id}) <= Cardinality(RecentRows) + 1
    BY FiniteRows, CountGrows
  <2>6. /\ Cardinality(RecentRows') \in Nat
        /\ Cardinality(RecentRows') <= Cardinality(RecentRows \cup {txn[r].id})
    BY <2>4, <2>5, SubsetCount
  <2> QED
    BY <1>0, <1>1, <2>3, <2>5, <2>6 DEF RateRoom
<1>5. ASSUME NEW r \in Requests, NEW c \in sent \cup {WrongCode}, Verify(r, c)
      PROVE  RateRoom'
  <2>1. RecentRows' = RecentRows
    BY <1>5 DEF Verify, RecentRows, Rows
  <2>2. CASE \E reply \in Replies : Answer(r, reply)
    BY <2>1, <2>2, Answers, <1>2 DEF Structure, Issuing
  <2>3. CASE \E i \in Ids, pc \in {"match", "wrong"} : Start(r, pc, i)
    <3>1. Issuing' \subseteq Issuing
      BY <2>3, Starts DEF Structure, Issuing, Pcs
    <3> QED
      BY <2>1, <3>1, <1>2
  <2> QED
    BY <1>5, <2>2, <2>3 DEF Verify, Replies, Unconsumed, Rows
<1>6. ASSUME NEW r \in Requests, Send(r)
      PROVE  RateRoom'
  <2>1. Issuing' \subseteq Issuing
    BY <1>6, Gotos DEF Send, Structure, Issuing, Busy, Pcs
  <2> QED
    BY <1>6, <2>1, <1>2 DEF Send, RecentRows, Rows
<1>7. ASSUME NEW r \in Requests, Consume(r)
      PROVE  RateRoom'
  <2>1. Issuing' \subseteq Issuing
    BY <1>7, Gotos DEF Consume, Structure, Issuing, Busy, Pcs
  <2> QED
    BY <1>7, <2>1, <1>2 DEF Consume, RecentRows, Rows
<1>8. ASSUME NEW r \in Requests, RejectWrong(r) \/ Release(r) \/ Abort(r)
      PROVE  RateRoom'
  <2>1. Issuing' \subseteq Issuing
    BY <1>8, Answers DEF RejectWrong, Release, Abort, Structure, Issuing, Replies
  <2>2. UNCHANGED <<now, codes>>
    BY <1>8 DEF RejectWrong, Release, Abort
  <2> QED
    BY <2>1, <2>2, <1>2 DEF RecentRows, Rows
<1>9. ASSUME NEW r \in Requests, Accept(r)
      PROVE  RateRoom'
  <2>1. Issuing' \subseteq Issuing
    BY <1>9, Answers DEF Accept, Structure, Issuing, Replies
  <2>2. txn[r].id \in Ids /\ codes[txn[r].id] # NoCode /\ now' = now
    BY <1>9, SlotTypes DEF Accept, Structure, InFlight, Busy
  <2>3. \A i \in Ids : codes'[i] # NoCode => codes[i] # NoCode /\ codes'[i].created = codes[i].created
    BY <1>9, <2>2 DEF Accept, Structure, TypeOK
  <2>4. RecentRows' \subseteq RecentRows
    BY <2>2, <2>3 DEF RecentRows, Rows
  <2> QED
    BY <2>1, <2>4, <1>2
<1>10. CASE Tick
  <2>1. RecentRows' \subseteq RecentRows
    <3>1. now \in Nat /\ now' = now + 1 /\ codes' = codes /\ Window \in Nat
      BY <1>10, OtpParametersAssumption DEF Tick, Structure, TypeOK
    <3>2. \A i \in Rows : codes[i].created \in Nat
      BY DEF Rows, Structure, TypeOK, CodeType
    <3> QED
      BY <3>1, <3>2 DEF RecentRows, Rows
  <2>2. Issuing' = Issuing
    BY <1>10 DEF Tick, Issuing
  <2> QED
    BY <2>1, <2>2, <1>2
<1>11. CASE UNCHANGED vars
  BY <1>11, <1>2 DEF vars, RecentRows, Rows, Issuing
<1> QED
  BY <1>3, <1>4, <1>5, <1>6, <1>7, <1>8, <1>9, <1>10, <1>11
     DEF Next, Arrive, Unlocked, Locking

(* A verification that begins found the code unconsumed, so never accepted *)
(* before; one that accepts leaves the others their room.                  *)
LEMMA AcceptStep ==
  ASSUME Structure, AcceptRoom, [Next]_vars
  PROVE  AcceptRoom'
<1> SUFFICES ASSUME NEW i \in Ids
             PROVE  accepted'[i] + Cardinality(Verifying(i)') <= Cardinality(Requests)
  BY DEF AcceptRoom
<1>0. /\ Cardinality(Requests) \in Nat /\ accepted[i] \in Nat
      /\ accepted[i] + Cardinality(Verifying(i)) <= Cardinality(Requests)
  BY FiniteSlots DEF AcceptRoom, Structure, TypeOK
<1>1. /\ IsFiniteSet(Verifying(i)) /\ Cardinality(Verifying(i)) \in Nat
      /\ Cardinality(Verifying(i)') \in Nat
      /\ Cardinality(Verifying(i)') <= Cardinality(Requests)
  BY SlotCount, Verifying(i)' \subseteq Requests DEF Verifying
<1>2. ASSUME Verifying(i)' \subseteq Verifying(i), accepted'[i] = accepted[i]
      PROVE  accepted'[i] + Cardinality(Verifying(i)') <= Cardinality(Requests)
  <2>1. Cardinality(Verifying(i)') <= Cardinality(Verifying(i))
    BY <1>1, <1>2, SubsetCount
  <2> QED
    BY <1>0, <1>1, <1>2, <2>1
<1>3. ASSUME NEW r \in Requests, Issue(r)
      PROVE  Verifying(i)' \subseteq Verifying(i) /\ accepted' = accepted
  <2>1. CASE Answer(r, "rateLimited")
    BY <2>1, <1>3, Answers DEF Issue, Structure, Verifying, Replies
  <2>2. CASE drawn < MaxCodes /\ Start(r, "issue", drawn + 1)
    <3>1. drawn + 1 \in Ids
      BY <2>2, OtpParametersAssumption DEF Structure, TypeOK, Ids
    <3> QED
      BY <2>2, <3>1, <1>3, Starts DEF Issue, Structure, Verifying, Pcs
  <2> QED
    BY <1>3, <2>1, <2>2 DEF Issue
<1>4. ASSUME NEW r \in Requests, NEW c \in sent \cup {WrongCode}, Verify(r, c)
      PROVE  accepted'[i] + Cardinality(Verifying(i)') <= Cardinality(Requests)
  <2>1. accepted' = accepted
    BY <1>4 DEF Verify
  <2>2. CASE \E reply \in Replies : Answer(r, reply)
    <3>1. Verifying(i)' \subseteq Verifying(i)
      BY <2>2, Answers DEF Structure, Verifying
    <3> QED
      BY <2>1, <3>1, <1>2
  <2>3. CASE \E j \in Unconsumed, pc \in {"match", "wrong"} : Start(r, pc, j)
    <3>1. PICK j \in Unconsumed, pc \in {"match", "wrong"} : Start(r, pc, j)
      BY <2>3
    <3>2. j \in Ids /\ accepted[j] = 0
      BY <3>1 DEF Unconsumed, Rows, Structure, TypeOK
    <3>3. CASE i = j
      BY <1>0, <1>1, <2>1, <3>2, <3>3
    <3>4. CASE i # j
      <4>1. Verifying(i)' \subseteq Verifying(i)
        BY <3>1, <3>2, <3>4, Starts DEF Structure, Verifying, Pcs
      <4> QED
        BY <2>1, <4>1, <1>2
    <3> QED
      BY <3>3, <3>4
  <2> QED
    BY <1>4, <2>2, <2>3 DEF Verify, Replies
<1>5. ASSUME NEW r \in Requests, Send(r) \/ Consume(r)
      PROVE  Verifying(i)' \subseteq Verifying(i) /\ accepted' = accepted
  <2>1. CASE Send(r)
    BY <2>1, Gotos DEF Send, Structure, Verifying, Busy, Pcs
  <2>2. CASE Consume(r)
    BY <2>2, Gotos DEF Consume, Structure, Verifying, Busy, Pcs
  <2> QED
    BY <1>5, <2>1, <2>2
<1>6. ASSUME NEW r \in Requests, IssueCommit(r) \/ RejectWrong(r) \/ Release(r) \/ Abort(r)
      PROVE  Verifying(i)' \subseteq Verifying(i) /\ accepted' = accepted
  BY <1>6, Answers
     DEF IssueCommit, RejectWrong, Release, Abort, Structure, Verifying, Replies
<1>7. ASSUME NEW r \in Requests, Accept(r)
      PROVE  accepted'[i] + Cardinality(Verifying(i)') <= Cardinality(Requests)
  <2>1. /\ txn'[r].pc = "idle"
        /\ \A s \in Requests \ {r} : txn'[s] = txn[s]
    BY <1>7, Answers DEF Accept, Structure, Replies
  <2>2. txn[r].id \in Ids
    BY <1>7, SlotTypes DEF Accept, Structure, Busy
  <2>3. CASE txn[r].id = i
    <3>1. Verifying(i)' = Verifying(i) \ {r} /\ r \in Verifying(i)
      BY <1>7, <2>1, <2>3 DEF Accept, Verifying
    <3>2. Cardinality(Verifying(i)') + 1 = Cardinality(Verifying(i))
      BY <3>1, SlotLeaves, Verifying(i) \subseteq Requests DEF Verifying
    <3>3. accepted'[i] = accepted[i] + 1
      BY <1>7, <2>2, <2>3 DEF Accept, Structure, TypeOK
    <3> QED
      BY <1>0, <1>1, <3>2, <3>3
  <2>4. CASE txn[r].id # i
    <3>1. Verifying(i)' \subseteq Verifying(i) /\ accepted'[i] = accepted[i]
      BY <1>7, <2>1, <2>2, <2>4 DEF Accept, Verifying, Structure, TypeOK
    <3> QED
      BY <3>1, <1>2
  <2> QED
    BY <2>3, <2>4
<1>8. CASE Tick \/ UNCHANGED vars
  BY <1>8, <1>2 DEF Tick, vars, Verifying
<1> QED
  BY <1>2, <1>3, <1>4, <1>5, <1>6, <1>7, <1>8 DEF Next, Arrive, Unlocked, Locking

-----------------------------------------------------------------------------
(* What a verification in flight read of its code's lifetime *)

FreshHeld ==
    \A r \in Requests : txn[r].pc \in {"match", "held"}
                       => txn[r].at < codes[txn[r].id].created + Expiry

(* Rows are never deleted and keep their created_at. *)
LEMMA RowsKeep ==
  ASSUME Structure, [Next]_vars, NEW i \in Rows
  PROVE  i \in Rows' /\ codes'[i].created = codes[i].created
<1>0. i \in Ids /\ codes[i] # NoCode
  BY DEF Rows
<1>1. CASE codes' = codes
  BY <1>0, <1>1 DEF Rows
<1>2. ASSUME NEW r \in Requests, IssueCommit(r)
      PROVE  codes'[i] = codes[i]
  BY <1>0, <1>2 DEF IssueCommit, Structure, TypeOK, InFlight, Issuing
<1>3. ASSUME NEW r \in Requests, Accept(r)
      PROVE  codes'[i] # NoCode /\ codes'[i].created = codes[i].created
  <2> DEFINE k == txn[r].id
             row == [created |-> codes[k].created, consumed |-> TRUE,
                     attempts |-> codes[k].attempts]
  <2>1. Busy(r) /\ k \in Ids /\ codes[k] # NoCode
    BY <1>3, SlotTypes DEF Accept, Busy, Structure, InFlight
  <2>2. row \in CodeType /\ row.created = codes[k].created
    BY <2>1 DEF Structure, TypeOK, CodeType
  <2>3. codes' = [codes EXCEPT ![k] = row]
    BY <1>3 DEF Accept
  <2> HIDE DEF row
  <2>4. /\ codes'[k] = row /\ codes'[k] # NoCode
        /\ \A j \in Ids \ {k} : codes'[j] = codes[j]
    BY <2>1, <2>2, <2>3, RowWrites DEF Structure
  <2> HIDE DEF k
  <2> QED
    BY <1>0, <2>2, <2>4
<1>4. codes' = codes \/ \E r \in Requests : IssueCommit(r) \/ Accept(r)
  BY DEF Next, Tick, vars, Arrive, Issue, Verify, Unlocked, Send, Release, Locking,
         RejectWrong, Consume, Abort
<1> QED
  BY <1>0, <1>1, <1>2, <1>3, <1>4 DEF Rows

LEMMA FreshStep ==
  ASSUME Structure, FreshHeld, [Next]_vars
  PROVE  FreshHeld'
<1> SUFFICES ASSUME NEW s \in Requests, txn'[s].pc \in {"match", "held"}
             PROVE  txn'[s].at < codes'[txn'[s].id].created + Expiry
  BY DEF FreshHeld
<1>1. ASSUME txn[s].pc \in {"match", "held"}, txn'[s].at = txn[s].at, txn'[s].id = txn[s].id
      PROVE  txn'[s].at < codes'[txn'[s].id].created + Expiry
  <2>1. txn[s].id \in Rows
    BY <1>1, SlotTypes DEF Structure, InFlight, Rows, Busy
  <2> QED
    BY <1>1, <2>1, RowsKeep DEF FreshHeld
<1>2. ASSUME NEW r \in Requests, \E reply \in Replies : Answer(r, reply)
      PROVE  txn'[s].at < codes'[txn'[s].id].created + Expiry
  BY <1>1, <1>2, Answers DEF Structure
<1>3. ASSUME NEW r \in Requests, Busy(r), \E pc \in Pcs : Goto(r, pc),
             txn'[r].pc \in {"match", "held"} => txn[r].pc \in {"match", "held"}
      PROVE  txn'[s].at < codes'[txn'[s].id].created + Expiry
  BY <1>1, <1>3, Gotos DEF Structure
<1>4. ASSUME NEW r \in Requests, NEW pc \in Pcs, NEW i \in Ids, Start(r, pc, i),
             pc \in {"match", "held"} => i \in Rows /\ now < codes[i].created + Expiry
      PROVE  txn'[s].at < codes'[txn'[s].id].created + Expiry
  <2>1. /\ txn'[r].pc = pc /\ txn'[r].id = i /\ txn'[r].at = now
        /\ \A q \in Requests \ {r} : txn'[q] = txn[q]
    BY <1>4, Starts DEF Structure
  <2>2. CASE s = r
    BY <1>4, <2>1, <2>2, RowsKeep
  <2> QED
    BY <1>1, <2>1, <2>2
<1>5. ASSUME NEW r \in Requests, Issue(r)
      PROVE  txn'[s].at < codes'[txn'[s].id].created + Expiry
  <2>1. CASE Answer(r, "rateLimited")
    BY <1>2, <2>1 DEF Replies
  <2>2. CASE drawn < MaxCodes /\ Start(r, "issue", drawn + 1)
    <3>1. drawn + 1 \in Ids
      BY <2>2, OtpParametersAssumption DEF Structure, TypeOK, Ids
    <3> QED
      BY <1>4, <2>2, <3>1 DEF Pcs
  <2> QED
    BY <1>5, <2>1, <2>2 DEF Issue
<1>6. ASSUME NEW r \in Requests, NEW c \in sent \cup {WrongCode}, Verify(r, c)
      PROVE  txn'[s].at < codes'[txn'[s].id].created + Expiry
  <2>1. CASE \E reply \in Replies : Answer(r, reply)
    BY <1>2, <2>1
  <2>2. CASE \E i \in Unconsumed, pc \in {"match", "wrong"} : Fresh(i) /\ Start(r, pc, i)
    <3>1. PICK i \in Unconsumed, pc \in {"match", "wrong"} : Fresh(i) /\ Start(r, pc, i)
      BY <2>2
    <3>2. i \in Ids /\ i \in Rows /\ codes[i].created \in Nat /\ now \in Nat
      BY <3>1 DEF Unconsumed, Rows, Structure, TypeOK, CodeType
    <3>3. now < codes[i].created + Expiry
      BY <3>1, <3>2, OtpParametersAssumption DEF Fresh
    <3> QED
      BY <1>4, <3>1, <3>2, <3>3 DEF Pcs
  <2> QED
    BY <1>6, <2>1, <2>2 DEF Verify, Replies
<1>7. ASSUME NEW r \in Requests, Send(r)
      PROVE  txn'[s].at < codes'[txn'[s].id].created + Expiry
  <2>1. Busy(r) /\ Goto(r, "delivered")
    BY <1>7 DEF Send, Busy
  <2>2. txn'[r].pc = "delivered"
    BY <2>1, Gotos DEF Structure, Pcs
  <2> QED
    BY <1>3, <2>1, <2>2 DEF Pcs
<1>8. ASSUME NEW r \in Requests, Consume(r)
      PROVE  txn'[s].at < codes'[txn'[s].id].created + Expiry
  <2>1. Busy(r) /\ Goto(r, "held") /\ txn[r].pc = "match"
    BY <1>8 DEF Consume, Busy
  <2> QED
    BY <1>3, <2>1 DEF Pcs
<1>9. ASSUME NEW r \in Requests,
             IssueCommit(r) \/ RejectWrong(r) \/ Accept(r) \/ Release(r) \/ Abort(r)
      PROVE  txn'[s].at < codes'[txn'[s].id].created + Expiry
  BY <1>2, <1>9 DEF IssueCommit, RejectWrong, Accept, Release, Abort, Replies
<1>10. CASE Tick \/ UNCHANGED vars
  BY <1>1, <1>10 DEF Tick, vars
<1> QED
  BY <1>5, <1>6, <1>7, <1>8, <1>9, <1>10 DEF Next, Arrive, Unlocked, Locking

-----------------------------------------------------------------------------
(* The theorems *)

LEMMA InductiveInvariant == Spec => []IInv
<1>1. Init => IInv
  BY InitInv
<1>2. IInv /\ [Next]_vars => IInv'
  BY StructureStep, RateStep, AcceptStep DEF IInv, Structure
<1> QED
  BY <1>1, <1>2, PTL DEF Spec

(* Codes, slots and histories keep their types in every behaviour, and an  *)
(* accepted code is a consumed row (otp_service.py:37-98).                 *)
THEOREM OtpTypeCorrect == Spec => []TypeOK
<1>1. IInv => TypeOK
  BY DEF IInv
<1> QED
  BY <1>1, InductiveInvariant, PTL

(* However requests interleave, fail and age, a window never holds more    *)
(* than Limit - 1 codes plus one per slot: with the count apart from the   *)
(* INSERT the limit is soft, and this is how soft (otp_service.py:43-61).  *)
THEOREM RateBoundHolds == Spec => []RateBound
<1>1. IInv => RateBound
  <2> SUFFICES ASSUME IInv PROVE RateBound
    OBVIOUS
  <2>1. Cardinality(Issuing) \in Nat /\ Cardinality(RecentRows) \in Nat
    BY SlotCount, FiniteRows DEF Issuing
  <2> QED
    BY <2>1, FiniteSlots, OtpParametersAssumption DEF IInv, RateRoom, RateBound
<1> QED
  BY <1>1, InductiveInvariant, PTL

(* Numbers drawn belong to one request each until their row is committed,  *)
(* and requests under way count against the limit and against each code    *)
(* before they commit: why the two bounds hold (otp_service.py:43-98).     *)
THEOREM RequestsCountAhead == Spec => []OtpInvariant
<1>1. IInv => OtpInvariant
  BY DEF IInv, OtpInvariant
<1> QED
  BY <1>1, InductiveInvariant, PTL

(* A code is never accepted more often than there are slots in flight: no  *)
(* later request revives a consumed code (otp_service.py:71-98).           *)
THEOREM AcceptBoundHolds == Spec => []AcceptBound
<1>1. IInv => AcceptBound
  <2> SUFFICES ASSUME IInv, NEW i \in Ids
               PROVE  accepted[i] <= Cardinality(Requests)
    BY DEF AcceptBound
  <2>1. Cardinality(Verifying(i)) \in Nat
    BY SlotCount DEF Verifying
  <2> QED
    BY <2>1, FiniteSlots DEF IInv, AcceptRoom, TypeOK
<1> QED
  BY <1>1, InductiveInvariant, PTL

(* No row is committed for a code that was not delivered (auth.py:60-62). *)
THEOREM CommittedCodesSent == Spec => []CommittedCodesWereSent
<1>1. IInv => CommittedCodesWereSent
  BY DEF IInv
<1> QED
  BY <1>1, InductiveInvariant, PTL

(* A code is accepted only by a request that began within its lifetime     *)
(* (otp_service.py:71-85).                                                 *)
THEOREM AcceptedFresh == Spec => AcceptedCodesWereFresh
<1>1. Init => FreshHeld
  BY DEF Init, FreshHeld, Idle
<1>2. IInv /\ FreshHeld /\ [Next]_vars => FreshHeld'
  BY FreshStep DEF IInv, Structure
<1>3. ASSUME IInv, FreshHeld, [Next]_vars
      PROVE  AcceptedCodesWereFreshStep
  <2> SUFFICES ASSUME NEW i \in Ids, accepted'[i] # accepted[i]
               PROVE  \E r \in Verifying(i) : i \in Rows /\ txn[r].at < codes[i].created + Expiry
    BY DEF AcceptedCodesWereFreshStep
  <2>1. PICK r \in Requests : Accept(r)
    BY <1>3 DEF Next, Tick, vars, Arrive, Issue, Verify, Unlocked, Send, IssueCommit,
                Release, Locking, RejectWrong, Consume, Abort
  <2>2. txn[r].pc = "held" /\ txn[r].id = i
    BY <1>3, <2>1 DEF Accept, IInv, TypeOK
  <2>3. r \in Verifying(i) /\ i \in Rows
    BY <1>3, <2>2 DEF Verifying, Rows, IInv, InFlight
  <2> QED
    BY <1>3, <2>2, <2>3 DEF FreshHeld
<1> QED
  BY <1>1, <1>2, <1>3, InductiveInvariant, PTL DEF Spec, AcceptedCodesWereFresh
=============================================================================
