----------------------------- MODULE BookingProofs -----------------------------
(***************************************************************************)
(* Theorems about Booking, for every set of requests, users, slots and     *)
(* capacities.                                                             *)
(***************************************************************************)
EXTENDS Booking, FiniteSetTheorems, SequenceTheorems, TLAPS

-------------------------------------------------------------------------------
(* Type correctness *)

\* A request that arrives keeps the types.
LEMMA StartType ==
    ASSUME TypeOK, NEW r \in Request, NEW c \in Calls, Start(r, c)
    PROVE  TypeOK'
<1>1. c \in Call /\ c.offers \in Seq(Offers) /\ (c.op = "slots" => c.offers # <<>>)
  BY CallsAssumption DEF Call
<1>2. FirstStep(c.op) \in Steps /\ FirstStep(c.op) # "upsert"
  BY <1>1 DEF FirstStep, Steps, Call, Ops
<1> QED
  BY <1>1, <1>2 DEF TypeOK, Start, GoTo, tables, locks

\* A refusal ends a transaction and keeps the types.
LEMMA RefuseType ==
    ASSUME TypeOK, NEW r \in Request, NEW code \in Replies, Refuse(r, code)
    PROVE  TypeOK'
  BY RequestAssumption DEF TypeOK, Refuse, Answer, EndTransaction, tables, Steps

\* Every action of a request but Start keeps the types.
LEMMA StepType ==
    ASSUME TypeOK, NEW r \in Request, Step(r)
    PROVE  TypeOK'
<1> USE RequestAssumption, SlotAssumption
<1>1. CASE CheckPublished(r)
  BY <1>1 DEF CheckPublished, TypeOK, tables, locks, GoTo, Answer, Steps, Replies
<1>2. CASE Connect(r)
  BY <1>2 DEF Connect, TypeOK, tables, locks, GoTo, Answer, Steps, Replies
<1>3. CASE SelectForUpdate(r)
  <2>1. PICK s \in Slot : /\ lock' = [lock EXCEPT ![s] = r]
                          /\ seen' = [seen EXCEPT ![r] = capacity[s]]
                          /\ GoTo(r, "count")
                          /\ UNCHANGED <<tables, dlock, conn, call, todo>>
    BY <1>3 DEF SelectForUpdate, Acquire
  <2> QED
    BY <2>1 DEF TypeOK, tables, locks, GoTo, Answer, Steps, Replies
<1>4. CASE RefuseSlot(r)
  BY <1>4, RefuseType DEF RefuseSlot, Replies
<1>5. CASE Count(r)
  <2>1. CASE Full(r)
    BY <1>5, <2>1, RefuseType DEF Count, Replies
  <2>2. CASE ~Full(r)
    BY <1>5, <2>2 DEF Count, TypeOK, tables, locks, GoTo, Answer, Steps, Replies
  <2> QED
    BY <2>1, <2>2
<1>6. CASE Insert(r)
  <2>1. CASE AlreadyBooked(r)
    BY <1>6, <2>1, RefuseType DEF Insert, Replies
  <2>2. CASE ~AlreadyBooked(r)
    BY <1>6, <2>2 DEF Insert, TypeOK, tables, locks, GoTo, Answer, Steps, Replies
  <2> QED
    BY <2>1, <2>2
<1>7. CASE Commit(r)
  BY <1>7 DEF Commit, EndTransaction, TypeOK, tables, locks, GoTo, Answer, Steps, Replies
<1>8. CASE InsertFree(r)
  <2>1. live' \subseteq Request
    BY <1>8 DEF InsertFree, TypeOK
  <2>2. reply' \in [Request -> Replies]
    BY <1>8 DEF InsertFree, TypeOK, GoTo, Answer, Replies
  <2>3. pc' = [pc EXCEPT ![r] = "read"] \/ pc' = [pc EXCEPT ![r] = "done"]
    BY <1>8 DEF InsertFree, GoTo, Answer
  <2>4. UNCHANGED <<status, capacity, past, locks, call, todo, seen>>
    BY <1>8 DEF InsertFree, TypeOK, tables, locks, GoTo, Answer, Steps, Replies
  <2> QED
    BY <2>1, <2>2, <2>3, <2>4 DEF TypeOK, tables, locks, GoTo, Answer, Steps, Replies
<1>9. CASE ReadBack(r)
  BY <1>9 DEF ReadBack, TypeOK, tables, locks, GoTo, Answer, Steps, Replies
<1>10. CASE Find(r)
  BY <1>10 DEF Find, TypeOK, tables, locks, GoTo, Answer, Steps, Replies
<1>11. CASE Erase(r)
  BY <1>11 DEF Erase, TypeOK, tables, locks, GoTo, Answer, Steps, Replies
<1>12. CASE CheckOwner(r)
  BY <1>12 DEF CheckOwner, TypeOK, tables, locks, GoTo, Answer, Steps, Replies
<1>13. CASE Upsert(r)
  <2> DEFINE s == Head(todo[r]).slot
  <2>1. pc[r] = "upsert" /\ todo[r] \in Seq(Offers) /\ todo[r] # <<>>
    BY <1>13 DEF Upsert, TypeOK, tables, locks, GoTo, Answer, Steps, Replies
  <2>2. /\ Head(todo[r]) \in Offers
        /\ Tail(todo[r]) \in Seq(Offers)
        /\ Len(Tail(todo[r])) = Len(todo[r]) - 1
    BY <2>1, HeadTailProperties
  <2>3. CASE Exists(ActivityOf[s])
    <3>1. /\ capacity' = [capacity EXCEPT ![s] = Head(todo[r]).capacity]
          /\ todo' = [todo EXCEPT ![r] = Tail(@)]
          /\ UNCHANGED <<status, live, past, locks, call, seen>>
      BY <1>13, <2>3 DEF Upsert
    <3>2. capacity' \in [Slot -> Nat] /\ todo' \in [Request -> Seq(Offers)]
      BY <2>2, <3>1, CapacityAssumption DEF Offers, TypeOK, tables, locks, GoTo, Answer, Steps, Replies
    <3>3. CASE LastOffer(r)
      BY <1>13, <2>1, <2>3, <3>1, <3>2, <3>3 DEF Upsert, TypeOK, tables, locks, GoTo, Answer, Steps, Replies
    <3>4. CASE ~LastOffer(r)
      <4>1. Tail(todo[r]) # <<>>
        <5>1. Len(todo[r]) - 1 # 0 /\ Len(<<>>) = 0
          BY <2>1, <3>4, LenProperties DEF LastOffer
        <5> QED
          BY <2>2, <5>1
      <4> QED
        BY <1>13, <2>1, <2>3, <3>1, <3>2, <3>4, <4>1 DEF Upsert, TypeOK, tables, locks, GoTo, Answer, Steps, Replies
    <3> QED
      BY <3>3, <3>4
  <2>4. CASE ~Exists(ActivityOf[s])
    BY <1>13, <2>4 DEF Upsert, TypeOK, tables, locks, GoTo, Answer, Steps, Replies
  <2> QED
    BY <2>3, <2>4
<1>14. CASE Delete(r)
  <2>1. dlock' \in [Activity -> Request \cup {None}]
    BY <1>14 DEF Delete, TypeOK
  <2>2. conn' \subseteq Request
    BY <1>14 DEF Delete, TypeOK
  <2>3. reply' \in [Request -> Replies]
    BY <1>14 DEF Delete, TypeOK, GoTo, Answer, Replies
  <2>4. pc' = [pc EXCEPT ![r] = "cascade"] \/ pc' = [pc EXCEPT ![r] = "done"]
    BY <1>14 DEF Delete, GoTo, Answer
  <2>5. UNCHANGED <<tables, lock, call, todo, seen>>
    BY <1>14 DEF Delete
  <2> QED
    BY <2>1, <2>2, <2>3, <2>4, <2>5 DEF TypeOK, tables, locks, GoTo, Answer, Steps, Replies
<1>15. CASE Cascade(r)
  BY <1>15 DEF Cascade, Statuses, TypeOK, tables, locks, GoTo, Answer, Steps, Replies
<1> QED
  BY <1>1, <1>2, <1>3, <1>4, <1>5, <1>6, <1>7, <1>8, <1>9, <1>10, <1>11, <1>12,
     <1>13, <1>14, <1>15 DEF Step

\* The steps that are no request's own: deadlock detector, failures, the rest of the site.
LEMMA OtherType ==
    ASSUME TypeOK,
           \/ DeadlockAbort
           \/ \E r \in Request : Fail(r)
           \/ \E a \in Activity : CreateActivity(a) \/ Moderate(a)
           \/ \E s \in Slot : TimePasses(s)
    PROVE  TypeOK'
<1> USE RequestAssumption, SlotAssumption
<1>1. CASE DeadlockAbort
  <2>1. PICK b \in Request, d \in Request :
          \/ Refuse(b, "FAILED")
          \/ /\ Answer(d, "FAILED")
             /\ dlock' = [dlock EXCEPT ![call[d].activity] = None]
             /\ conn' = conn \ {d}
             /\ UNCHANGED <<tables, lock, call, todo, seen>>
    BY <1>1 DEF DeadlockAbort
  <2>2. CASE Refuse(b, "FAILED")
    BY <2>2, RefuseType DEF Replies
  <2>3. CASE ~Refuse(b, "FAILED")
    BY <2>1, <2>3 DEF TypeOK, Answer, tables, Steps, Replies
  <2> QED
    BY <2>2, <2>3
<1>2. ASSUME NEW r \in Request, Fail(r) PROVE TypeOK'
  BY <1>2 DEF Fail, TypeOK, Answer, EndTransaction, tables, Steps, Replies
<1>3. ASSUME NEW a \in Activity, CreateActivity(a) PROVE TypeOK'
  <2>1. status' \in [Activity -> Statuses]
    BY <1>3 DEF CreateActivity, TypeOK, Statuses
  <2>2. capacity' \in [Slot -> Nat]
    BY <1>3, CapacityAssumption DEF CreateActivity, TypeOK
  <2> QED
    BY <1>3, <2>1, <2>2 DEF CreateActivity, TypeOK, locks, requests
<1>4. ASSUME NEW a \in Activity, Moderate(a) PROVE TypeOK'
  BY <1>4 DEF Moderate, TypeOK, locks, requests, Statuses
<1>5. ASSUME NEW s \in Slot, TimePasses(s) PROVE TypeOK'
  BY <1>5 DEF TimePasses, TypeOK, locks, requests
<1> QED
  BY <1>1, <1>2, <1>3, <1>4, <1>5

\* The empty tables and the idle requests have their types.
LEMMA TypeCorrectInit == Init => TypeOK
<1> SUFFICES ASSUME Init PROVE TypeOK
  OBVIOUS
<1>1. todo \in [Request -> Seq(Offers)]
  <2>1. <<>> \in Seq(Offers)
    BY EmptySeq
  <2> QED
    BY <2>1, Zenon DEF Init
<1>2. \A r \in Request : pc[r] # "upsert" /\ pc[r] # "owner?"
  BY DEF Init
<1> QED
  BY <1>1, <1>2 DEF Init, TypeOK, Statuses, Steps, Replies

\* Every reachable state is well typed, and createSlots never indexes past the
\* end of its array of slots.
THEOREM TypeCorrect == Spec => []TypeOK
<1>1. Init => TypeOK
  BY TypeCorrectInit
<1>2. TypeOK /\ [Next]_vars => TypeOK'
  <2> SUFFICES ASSUME TypeOK, [Next]_vars PROVE TypeOK'
    OBVIOUS
  <2>1. CASE UNCHANGED vars
    BY <2>1 DEF vars, tables, locks, requests, TypeOK
  <2>2. CASE Next
    BY <2>2, StartType, StepType, OtherType DEF Next
  <2> QED
    BY <2>1, <2>2
<1> QED
  BY <1>1, <1>2, PTL DEF Spec

-------------------------------------------------------------------------------
(* The inductive invariant *)

\* A step that neither admits an entry nor advances a transaction: it may
\* delete entries, end transactions, move other requests and write rows that no
\* transaction has locked.
Quiet ==
    /\ live' \subseteq live
    /\ \A e \in live : call'[e] = call[e] /\ pc'[e] \in {"read", "done"}
    /\ \A r \in Request : InTransaction(r)' =>
        /\ InTransaction(r) /\ pc'[r] = pc[r] /\ call'[r] = call[r] /\ seen'[r] = seen[r]
        /\ lock'[call[r].slot] = lock[call[r].slot]
        /\ capacity'[call[r].slot] = capacity[call[r].slot]
    /\ RequestsKeepTheirPath'
    /\ SlotsReferToRows'
    /\ \A e \in live' :
        /\ Exists(call[e].activity)'
        /\ call[e].slot # NoSlot => capacity'[call[e].slot] > 0

\* The entries of a slot are finitely many.
LEMMA BookedFinite ==
    ASSUME TypeOK, NEW s
    PROVE  IsFiniteSet(Booked(s)) /\ Cardinality(Booked(s)) \in Nat
<1>1. Booked(s) \subseteq Request
  BY DEF Booked, TypeOK
<1> QED
  BY <1>1, RequestAssumption, FS_Subset, FS_CardinalityType

\* Removing entries frees seats.
LEMMA FewerBooked ==
    ASSUME TypeOK, NEW s, Booked(s)' \subseteq Booked(s)
    PROVE  Cardinality(Booked(s)') <= Cardinality(Booked(s)) /\ Cardinality(Booked(s)') \in Nat
  BY BookedFinite, FS_Subset, FS_CardinalityType

\* A step that is quiet for every request but r, and leaves r outside the
\* reservation steps, keeps the invariant.
LEMMA QuietStep ==
    ASSUME IInv, TypeOK', Quiet
    PROVE  IInv'
<1>1. \A s : Booked(s)' \subseteq Booked(s)
  BY DEF Quiet, Booked
<1>2. RowIsLocked' /\ CapacityReadIsCurrent'
  BY DEF Quiet, IInv, RowIsLocked, CapacityReadIsCurrent
<1>3. SeatIsFree'
  <2> SUFFICES ASSUME NEW r \in Request, pc'[r] \in {"insert", "commit"},
                      NEW s, s = call'[r].slot
               PROVE  /\ Cardinality(Booked(s)') < seen'[r]
                      /\ pc'[r] = "commit" =>
                           \A q \in Booked(s)' : call'[q].user # call'[r].user
    BY DEF SeatIsFree, Booked, AlreadyBooked
  <2>1. pc'[r] = pc[r] /\ call'[r] = call[r] /\ seen'[r] = seen[r]
    BY DEF Quiet, InTransaction
  <2>2. Cardinality(Booked(s)) < seen[r] /\ seen[r] \in Nat
    BY <2>1 DEF IInv, SeatIsFree, TypeOK
  <2>3. Cardinality(Booked(s)') < seen'[r]
    <3>1. /\ Cardinality(Booked(s)') <= Cardinality(Booked(s))
          /\ Cardinality(Booked(s)') \in Nat
          /\ Cardinality(Booked(s)) \in Nat
      BY <1>1, FewerBooked, BookedFinite DEF IInv
    <3> QED
      BY <2>1, <2>2, <3>1
  <2>4. ASSUME pc'[r] = "commit", NEW q \in Booked(s)'
        PROVE  call'[q].user # call'[r].user
    <3>1. q \in Booked(s) /\ call'[q] = call[q]
      BY <1>1 DEF Quiet, Booked
    <3>2. ~AlreadyBooked(r)
      BY <2>1, <2>4 DEF IInv, SeatIsFree
    <3> QED
      BY <2>1, <3>1, <3>2 DEF AlreadyBooked
  <2> QED
    BY <2>3, <2>4
<1>4. EntriesAreCommitted'
  BY DEF Quiet, EntriesAreCommitted
<1>5. EntriesReferToRows'
  BY DEF Quiet, IInv, EntriesReferToRows
<1>6. OneSeatPerUser'
  BY <1>1 DEF Quiet, IInv, OneSeatPerUser, Booked
<1> QED
  BY <1>2, <1>3, <1>4, <1>5, <1>6 DEF IInv, Quiet

\* Steps of a request that keep every table and every row lock, and leave the
\* request outside a transaction.
LEMMA PlainStep ==
    ASSUME IInv, TypeOK', NEW r \in Request, NEW step,
           UNCHANGED <<live, capacity, lock, call, seen>>,
           status' = status,
           pc' = [pc EXCEPT ![r] = step],
           pc[r] \notin {"idle", "read"} \/ step = "done",
           r \in live => step \in {"read", "done"},
           step \notin {"idle", "published?", "count", "insert", "commit", "insertFree"},
           step \in {"connect", "select"} => call[r].op = "book",
           pc[r] # "idle"
    PROVE  IInv'
<1>1. pc \in [Request -> Steps]
  BY DEF IInv, TypeOK
<1>2. RequestsKeepTheirPath'
  BY <1>1 DEF IInv, RequestsKeepTheirPath, Reserving
<1>3. SlotsReferToRows'
  BY DEF IInv, SlotsReferToRows, Exists
<1>4. Quiet
  BY <1>1, <1>2, <1>3 DEF Quiet, IInv, TypeOK, InTransaction, EntriesAreCommitted, EntriesReferToRows, Exists
<1> QED
  BY <1>4, QuietStep

\* The end of a transaction, or of any request, without an entry.
LEMMA EndStep ==
    ASSUME IInv, TypeOK', NEW r \in Request, pc[r] # "idle",
           pc' = [pc EXCEPT ![r] = "done"],
           EndTransaction(r), UNCHANGED <<tables, call>>
    PROVE  IInv'
<1>1. pc \in [Request -> Steps] /\ lock \in [Slot -> Request \cup {None}] /\ seen \in [Request -> Nat]
  BY DEF IInv, TypeOK
<1>2. RequestsKeepTheirPath'
  BY <1>1 DEF IInv, RequestsKeepTheirPath, Reserving
<1>3. SlotsReferToRows'
  BY DEF IInv, SlotsReferToRows, Exists, tables
<1>4. \A q \in Request : InTransaction(q)' =>
        /\ InTransaction(q) /\ q # r /\ pc'[q] = pc[q] /\ seen'[q] = seen[q] /\ call[q].slot \in Slot
  BY <1>1, CallsAssumption DEF InTransaction, EndTransaction, IInv, RequestsKeepTheirPath, Reserving
<1>5. Quiet
  BY <1>1, <1>2, <1>3, <1>4 DEF Quiet, IInv, TypeOK, EndTransaction, RowIsLocked, InTransaction,
     EntriesAreCommitted, EntriesReferToRows, Exists, tables
<1> QED
  BY <1>5, QuietStep

\* A refusal (ROLLBACK, release) keeps the invariant.
LEMMA RefuseInv ==
    ASSUME IInv, NEW r \in Request, pc[r] # "idle", NEW code \in Replies, Refuse(r, code)
    PROVE  IInv'
  BY RefuseType, EndStep DEF IInv, Refuse, Answer

\* A request that arrives holds no lock and has no entry.
LEMMA StartInv ==
    ASSUME IInv, NEW r \in Request, NEW c \in Calls, Start(r, c)
    PROVE  IInv'
<1>1. TypeOK'
  BY StartType DEF IInv
<1>2. /\ pc[r] = "idle" /\ r \notin live
      /\ call' = [call EXCEPT ![r] = c]
      /\ pc' = [pc EXCEPT ![r] = FirstStep(c.op)]
      /\ UNCHANGED <<tables, locks, seen>>
  BY DEF Start, GoTo, IInv, EntriesAreCommitted
<1>3. /\ FirstStep(c.op) \in {"published?", "find", "owner?"}
      /\ FirstStep(c.op) = "published?" => c.op \in {"book", "free"}
  BY CallsAssumption DEF FirstStep, Call, Ops
<1>4. pc \in [Request -> Steps] /\ call \in [Request -> Calls \cup {None}] /\ live \subseteq Request
  BY DEF IInv, TypeOK
<1>5. RequestsKeepTheirPath'
  BY <1>2, <1>3, <1>4 DEF IInv, RequestsKeepTheirPath, Reserving
<1>6. SlotsReferToRows'
  BY <1>2 DEF IInv, SlotsReferToRows, Exists, tables
<1>7. \A q \in Request : q # r => call'[q] = call[q] /\ pc'[q] = pc[q]
  BY <1>2, <1>4
<1>8. ~InTransaction(r)'
  BY <1>2, <1>3, <1>4 DEF InTransaction
<1>9. Quiet
  BY <1>2, <1>4, <1>5, <1>6, <1>7, <1>8 DEF Quiet, IInv, InTransaction,
     EntriesAreCommitted, EntriesReferToRows, Exists, tables, locks
<1> QED
  BY <1>1, <1>9, QuietStep

\* The steps of a transaction. ------------------------------------------------

\* SELECT ... FOR UPDATE establishes what the transaction relies on.
LEMMA SelectInv ==
    ASSUME IInv, NEW r \in Request, SelectForUpdate(r)
    PROVE  IInv'
<1>1. TypeOK'
  BY StepType DEF IInv, Step
<1>2. PICK s \in Slot :
        /\ pc[r] = "select" /\ s = call[r].slot /\ lock[s] = None
        /\ capacity[s] > 0 /\ ActivityOf[s] = call[r].activity
        /\ lock' = [lock EXCEPT ![s] = r]
        /\ seen' = [seen EXCEPT ![r] = capacity[s]]
        /\ pc' = [pc EXCEPT ![r] = "count"]
        /\ UNCHANGED <<status, capacity, live, past, call>>
  BY DEF SelectForUpdate, Selecting, SlotOfActivity, Acquire, GoTo, tables
<1>3. /\ pc \in [Request -> Steps] /\ lock \in [Slot -> Request \cup {None}]
      /\ seen \in [Request -> Nat] /\ live \subseteq Request
  BY DEF IInv, TypeOK
<1>4. RequestsKeepTheirPath'
  BY <1>2, <1>3 DEF IInv, RequestsKeepTheirPath, Reserving
<1>5. ASSUME NEW q \in Request, InTransaction(q)', q # r
      PROVE  InTransaction(q) /\ call[q].slot # s /\ pc'[q] = pc[q] /\ seen'[q] = seen[q]
             /\ lock'[call[q].slot] = lock[call[q].slot]
  <2>1. InTransaction(q) /\ pc'[q] = pc[q] /\ seen'[q] = seen[q]
    BY <1>2, <1>3, <1>5 DEF InTransaction
  <2>2. call[q].slot # s
    BY <1>2, <2>1, RequestAssumption DEF IInv, RowIsLocked
  <2> QED
    BY <1>2, <1>3, <2>1, <2>2
<1>6. RowIsLocked' /\ CapacityReadIsCurrent'
  <2> SUFFICES ASSUME NEW q \in Request, InTransaction(q)'
               PROVE  /\ lock'[call[q].slot] = q /\ ActivityOf[call[q].slot] = call[q].activity
                      /\ seen'[q] = capacity[call[q].slot] /\ seen'[q] > 0
    BY <1>2 DEF RowIsLocked, CapacityReadIsCurrent, InTransaction
  <2>1. CASE q = r
    BY <1>2, <1>3, <2>1
  <2>2. CASE q # r
    BY <1>5, <2>2 DEF IInv, RowIsLocked, CapacityReadIsCurrent
  <2> QED
    BY <2>1, <2>2
<1>7. SeatIsFree'
  BY <1>2, <1>3, <1>5 DEF IInv, SeatIsFree, Booked, AlreadyBooked, InTransaction
<1>8. EntriesAreCommitted' /\ SlotsReferToRows' /\ EntriesReferToRows' /\ OneSeatPerUser'
  BY <1>2, <1>3 DEF IInv, EntriesAreCommitted, SlotsReferToRows, EntriesReferToRows,
     OneSeatPerUser, Booked, Exists
<1> QED
  BY <1>1, <1>4, <1>6, <1>7, <1>8 DEF IInv

\* A transaction goes on to its next statement: only its pc changes, and what
\* that statement relies on has just been read.
LEMMA AdvanceInv ==
    ASSUME IInv, TypeOK', NEW r \in Request, NEW step \in {"insert", "commit"}, InTransaction(r),
           pc' = [pc EXCEPT ![r] = step],
           UNCHANGED <<tables, locks, call, seen>>,
           Cardinality(Booked(call[r].slot)) < seen[r],
           step = "commit" => ~AlreadyBooked(r)
    PROVE  IInv'
<1>1. pc \in [Request -> Steps] /\ r \notin live
  BY DEF IInv, TypeOK, InTransaction, EntriesAreCommitted
<1>2. RequestsKeepTheirPath'
  BY <1>1 DEF IInv, RequestsKeepTheirPath, Reserving, InTransaction
<1>3. \A q \in Request : InTransaction(q)' => InTransaction(q)
  BY <1>1 DEF InTransaction
<1>4. RowIsLocked' /\ CapacityReadIsCurrent'
  BY <1>3 DEF IInv, RowIsLocked, CapacityReadIsCurrent, tables, locks
<1>5. SeatIsFree'
  BY <1>1 DEF IInv, SeatIsFree, Booked, AlreadyBooked, tables
<1>6. EntriesAreCommitted' /\ SlotsReferToRows' /\ EntriesReferToRows' /\ OneSeatPerUser'
  BY <1>1 DEF IInv, EntriesAreCommitted, SlotsReferToRows, EntriesReferToRows,
     OneSeatPerUser, Booked, Exists, tables
<1> QED
  BY <1>2, <1>4, <1>5, <1>6 DEF IInv

\* The count finds the free seat that the lock keeps free.
LEMMA CountInv ==
    ASSUME IInv, NEW r \in Request, Count(r)
    PROVE  IInv'
<1>1. CASE Full(r)
  BY <1>1, RefuseInv DEF Count, Replies
<1>2. CASE ~Full(r)
  <2>1. TypeOK'
    BY StepType DEF IInv, Step
  <2>2. /\ pc[r] = "count" /\ pc' = [pc EXCEPT ![r] = "insert"]
        /\ UNCHANGED <<tables, locks, call, seen>>
    BY <1>2 DEF Count, GoTo
  <2>3. Cardinality(Booked(call[r].slot)) < seen[r]
    <3>1. PICK s : s = call[r].slot
      OBVIOUS
    <3>2. Cardinality(Booked(s)) \in Nat /\ seen[r] \in Nat
      BY BookedFinite DEF IInv, TypeOK
    <3> QED
      BY <1>2, <3>1, <3>2 DEF Full
  <2> QED
    BY <2>1, <2>2, <2>3, AdvanceInv DEF InTransaction
<1> QED
  BY <1>1, <1>2

\* The INSERT adds what the unique index lets through.
LEMMA InsertInv ==
    ASSUME IInv, NEW r \in Request, Insert(r)
    PROVE  IInv'
<1>1. CASE AlreadyBooked(r)
  BY <1>1, RefuseInv DEF Insert, Replies
<1>2. CASE ~AlreadyBooked(r)
  <2>1. TypeOK'
    BY StepType DEF IInv, Step
  <2>2. /\ pc[r] = "insert" /\ pc' = [pc EXCEPT ![r] = "commit"]
        /\ UNCHANGED <<tables, locks, call, seen>>
    BY <1>2 DEF Insert, GoTo
  <2> QED
    BY <1>2, <2>1, <2>2, AdvanceInv DEF InTransaction, IInv, SeatIsFree
<1> QED
  BY <1>1, <1>2

\* COMMIT makes the entry visible: its slot is still there, and so is its seat.
LEMMA CommitInv ==
    ASSUME IInv, NEW r \in Request, Commit(r)
    PROVE  IInv'
<1>1. TypeOK'
  BY StepType DEF IInv, Step
<1>2. /\ pc[r] = "commit" /\ pc' = [pc EXCEPT ![r] = "read"]
      /\ live' = live \cup {r}
      /\ lock' = [s \in Slot |-> IF lock[s] = r THEN None ELSE lock[s]]
      /\ seen' = [seen EXCEPT ![r] = 0]
      /\ UNCHANGED <<status, capacity, past, call>>
  BY DEF Commit, EndTransaction, GoTo
<1>3. /\ pc \in [Request -> Steps] /\ lock \in [Slot -> Request \cup {None}]
      /\ seen \in [Request -> Nat] /\ live \subseteq Request
  BY DEF IInv, TypeOK
<1>4. RequestsKeepTheirPath'
  BY <1>2, <1>3 DEF IInv, RequestsKeepTheirPath, Reserving
<1>5. /\ call[r] \in Calls /\ call[r].slot \in Slot /\ lock[call[r].slot] = r
      /\ ActivityOf[call[r].slot] = call[r].activity /\ capacity[call[r].slot] > 0
  BY <1>2, CallsAssumption DEF IInv, RequestsKeepTheirPath, Reserving, InTransaction,
     RowIsLocked, CapacityReadIsCurrent
<1>6. ASSUME NEW q \in Request, InTransaction(q)'
      PROVE  /\ q # r /\ InTransaction(q) /\ pc'[q] = pc[q] /\ seen'[q] = seen[q]
             /\ call[q].slot \in Slot /\ call[q].slot # call[r].slot
             /\ lock'[call[q].slot] = lock[call[q].slot]
  <2>1. q # r /\ InTransaction(q) /\ pc'[q] = pc[q] /\ seen'[q] = seen[q]
    BY <1>2, <1>3, <1>6 DEF InTransaction
  <2>2. call[q].slot \in Slot /\ lock[call[q].slot] = q
    BY <2>1, CallsAssumption DEF IInv, RequestsKeepTheirPath, Reserving, InTransaction, RowIsLocked
  <2> QED
    BY <1>2, <1>5, <2>1, <2>2
<1>7. RowIsLocked' /\ CapacityReadIsCurrent'
  BY <1>2, <1>6 DEF IInv, RowIsLocked, CapacityReadIsCurrent
<1>8. SeatIsFree'
  <2> SUFFICES ASSUME NEW q \in Request, pc'[q] \in {"insert", "commit"}
               PROVE  /\ Cardinality(Booked(call[q].slot)') < seen'[q]
                      /\ pc'[q] = "commit" => ~AlreadyBooked(q)'
    BY DEF SeatIsFree
  <2>1. InTransaction(q)'
    BY DEF InTransaction
  <2>2. Booked(call[q].slot)' = Booked(call[q].slot)
    BY <1>2, <1>6, <2>1 DEF Booked
  <2> QED
    BY <1>2, <1>6, <2>1, <2>2 DEF IInv, SeatIsFree, AlreadyBooked
<1>9. EntriesAreCommitted' /\ SlotsReferToRows'
  BY <1>2, <1>3 DEF IInv, EntriesAreCommitted, SlotsReferToRows, Exists
<1>10. EntriesReferToRows'
  BY <1>2, <1>5 DEF IInv, EntriesReferToRows, SlotsReferToRows, Exists
<1>11. OneSeatPerUser'
  <2>1. ~AlreadyBooked(r)
    BY <1>2 DEF IInv, SeatIsFree
  <2> QED
    BY <1>2, <2>1 DEF IInv, OneSeatPerUser, AlreadyBooked, Booked
<1> QED
  BY <1>1, <1>4, <1>7, <1>8, <1>9, <1>10, <1>11 DEF IInv

\* A free entry refers to an activity that exists and takes no seat.
LEMMA InsertFreeInv ==
    ASSUME IInv, NEW r \in Request, InsertFree(r)
    PROVE  IInv'
<1>1. TypeOK'
  BY StepType DEF IInv, Step
<1>2. /\ pc[r] = "insertFree"
      /\ UNCHANGED <<status, capacity, past, locks, call, seen>>
  BY DEF InsertFree
<1>3. CASE ~Exists(call[r].activity)
  <2>1. pc' = [pc EXCEPT ![r] = "done"] /\ UNCHANGED live
    BY <1>3 DEF InsertFree, Answer
  <2> QED
    BY <1>1, <1>2, <2>1, PlainStep DEF locks
<1>4. CASE Exists(call[r].activity)
  <2>1. pc' = [pc EXCEPT ![r] = "read"] /\ live' = live \cup {r}
    BY <1>4 DEF InsertFree, GoTo
  <2>2. pc \in [Request -> Steps] /\ live \subseteq Request
    BY DEF IInv, TypeOK
  <2>3. call[r] \in Calls /\ call[r].slot = NoSlot
    BY <1>2, CallsAssumption DEF IInv, RequestsKeepTheirPath
  <2>4. RequestsKeepTheirPath'
    BY <1>2, <2>1, <2>2 DEF IInv, RequestsKeepTheirPath, Reserving
  <2>5. \A q \in Request : InTransaction(q)' => InTransaction(q) /\ pc'[q] = pc[q] /\ call[q].slot \in Slot
    BY <2>1, <2>2, CallsAssumption DEF InTransaction, IInv, RequestsKeepTheirPath, Reserving
  <2>6. \A s \in Slot : Booked(s)' = Booked(s)
    BY <1>2, <2>1, <2>3, SlotAssumption DEF Booked
  <2>7. RowIsLocked' /\ CapacityReadIsCurrent'
    BY <1>2, <2>5 DEF IInv, RowIsLocked, CapacityReadIsCurrent, locks
  <2>8. SeatIsFree'
    <3> SUFFICES ASSUME NEW q \in Request, pc'[q] \in {"insert", "commit"}
                 PROVE  /\ Cardinality(Booked(call[q].slot)') < seen'[q]
                        /\ pc'[q] = "commit" => ~AlreadyBooked(q)'
      BY DEF SeatIsFree
    <3>1. pc'[q] = pc[q] /\ call[q].slot \in Slot /\ call'[q] = call[q]
      BY <1>2, <2>5 DEF InTransaction
    <3>2. Booked(call[q].slot)' = Booked(call[q].slot)
      BY <1>2, <2>1, <2>3, <3>1, SlotAssumption DEF Booked
    <3> QED
      BY <1>2, <3>1, <3>2 DEF IInv, SeatIsFree, AlreadyBooked
  <2>9. EntriesAreCommitted' /\ SlotsReferToRows'
    BY <1>2, <2>1, <2>2 DEF IInv, EntriesAreCommitted, SlotsReferToRows, Exists
  <2>10. EntriesReferToRows'
    BY <1>2, <1>4, <2>1, <2>3 DEF IInv, EntriesReferToRows, Exists
  <2>11. OneSeatPerUser'
    BY <1>2, <2>6 DEF IInv, OneSeatPerUser
  <2> QED
    BY <1>1, <2>4, <2>7, <2>8, <2>9, <2>10, <2>11 DEF IInv
<1> QED
  BY <1>3, <1>4

\* Deletions and slot updates. -------------------------------------------------

\* Removing an entry keeps the invariant.
LEMMA EraseInv ==
    ASSUME IInv, NEW r \in Request, Erase(r)
    PROVE  IInv'
<1>1. TypeOK'
  BY StepType DEF IInv, Step
<1>2. /\ pc[r] = "erase" /\ pc' = [pc EXCEPT ![r] = "done"]
      /\ live' \subseteq live
      /\ UNCHANGED <<status, capacity, past, locks, call, seen>>
  BY DEF Erase, Answer
<1>3. pc \in [Request -> Steps] /\ live \subseteq Request
  BY DEF IInv, TypeOK
<1>4. RequestsKeepTheirPath' /\ SlotsReferToRows'
  BY <1>2, <1>3 DEF IInv, RequestsKeepTheirPath, Reserving, SlotsReferToRows, Exists
<1>5. Quiet
  BY <1>2, <1>3, <1>4 DEF Quiet, IInv, InTransaction, EntriesAreCommitted, EntriesReferToRows,
     Exists, locks
<1> QED
  BY <1>1, <1>5, QuietStep

\* An upsert changes no capacity that a transaction has read.
LEMMA UpsertInv ==
    ASSUME IInv, NEW r \in Request, Upsert(r)
    PROVE  IInv'
<1>1. TypeOK'
  BY StepType DEF IInv, Step
<1> DEFINE s == Head(todo[r]).slot
<1>2. /\ pc[r] = "upsert" /\ SlotWritable(s)
      /\ UNCHANGED <<status, live, past, locks, call, seen>>
  BY DEF Upsert
<1>3. pc' = [pc EXCEPT ![r] = "done"] \/ pc' = [pc EXCEPT ![r] = "upsert"]
  BY DEF Upsert, GoTo, Answer
<1>4. pc \in [Request -> Steps] /\ live \subseteq Request /\ capacity \in [Slot -> Nat] /\ r \notin live
  BY <1>2 DEF IInv, TypeOK, EntriesAreCommitted
<1>5. s \in Slot /\ Head(todo[r]).capacity \in Nat \ {0}
  <2>1. todo[r] \in Seq(Offers) /\ todo[r] # <<>>
    BY <1>2 DEF IInv, TypeOK
  <2>2. Head(todo[r]) \in Offers
    BY <2>1, HeadTailProperties
  <2> QED
    BY <2>2, CapacityAssumption DEF Offers
<1>6. \/ capacity' = capacity
      \/ Exists(ActivityOf[s]) /\ capacity' = [capacity EXCEPT ![s] = Head(todo[r]).capacity]
  BY DEF Upsert
<1>7. \A q \in Request : InTransaction(q)' =>
        InTransaction(q) /\ pc'[q] = pc[q] /\ call[q].slot # s
  <2> SUFFICES ASSUME NEW q \in Request, InTransaction(q)'
               PROVE  InTransaction(q) /\ pc'[q] = pc[q] /\ call[q].slot # s
    OBVIOUS
  <2>1. InTransaction(q) /\ pc'[q] = pc[q]
    BY <1>3, <1>4 DEF InTransaction
  <2>2. lock[call[q].slot] = q /\ capacity[call[q].slot] > 0
    BY <2>1 DEF IInv, RowIsLocked, CapacityReadIsCurrent
  <2> QED
    BY <1>2, <2>1, <2>2, RequestAssumption DEF SlotWritable
<1>8. \A t \in Slot : (capacity'[t] > 0 <=> capacity[t] > 0) \/ (t = s /\ Exists(ActivityOf[s]) /\ capacity'[t] > 0)
  BY <1>4, <1>5, <1>6
<1>9. \A q \in Request : InTransaction(q)' => capacity'[call[q].slot] = capacity[call[q].slot]
  BY <1>4, <1>5, <1>6, <1>7, CallsAssumption DEF IInv, RequestsKeepTheirPath, Reserving, InTransaction
<1>10. RequestsKeepTheirPath'
  BY <1>2, <1>3, <1>4 DEF IInv, RequestsKeepTheirPath, Reserving
<1>11. SlotsReferToRows'
  BY <1>2, <1>8 DEF IInv, SlotsReferToRows, Exists
<1>12. \A e \in live' : /\ Exists(call[e].activity)'
                        /\ call[e].slot # NoSlot => capacity'[call[e].slot] > 0
  <2> SUFFICES ASSUME NEW e \in live
               PROVE  /\ Exists(call[e].activity)
                      /\ call[e].slot # NoSlot => capacity'[call[e].slot] > 0
    BY <1>2 DEF Exists
  <2>1. call[e] \in Call
    BY <1>4, CallsAssumption DEF IInv, RequestsKeepTheirPath, EntriesAreCommitted
  <2>2. call[e].slot \in Slot \cup {NoSlot}
    BY <2>1 DEF Call
  <2> QED
    BY <1>8, <2>2 DEF IInv, EntriesReferToRows
<1>13. Quiet
  BY <1>2, <1>3, <1>4, <1>7, <1>9, <1>10, <1>11, <1>12 DEF Quiet, IInv, InTransaction,
     EntriesAreCommitted, locks
<1> QED
  BY <1>1, <1>13, QuietStep

\* A cascade removes no slot that a transaction has locked, and every entry of
\* the activity.
LEMMA CascadeInv ==
    ASSUME IInv, NEW r \in Request, Cascade(r)
    PROVE  IInv'
<1>1. TypeOK'
  BY StepType DEF IInv, Step
<1> DEFINE a == call[r].activity
<1>2. /\ pc[r] = "cascade" /\ pc' = [pc EXCEPT ![r] = "done"]
      /\ \A s \in Slot : ActivityOf[s] = a => lock[s] = None
      /\ status' = [status EXCEPT ![a] = "deleted"]
      /\ capacity' = [s \in Slot |-> IF ActivityOf[s] = a THEN 0 ELSE capacity[s]]
      /\ live' = live \ EntriesOf(a)
      /\ UNCHANGED <<past, lock, call, seen>>
  BY SlotAssumption DEF Cascade, Answer
<1>3. /\ pc \in [Request -> Steps] /\ live \subseteq Request /\ status \in [Activity -> Statuses]
      /\ r \notin live
  BY <1>2 DEF IInv, TypeOK, EntriesAreCommitted
<1>4. \A q \in Request : InTransaction(q)' =>
        /\ InTransaction(q) /\ pc'[q] = pc[q] /\ call[q].slot \in Slot
        /\ ActivityOf[call[q].slot] # a
  <2> SUFFICES ASSUME NEW q \in Request, InTransaction(q)'
               PROVE  /\ InTransaction(q) /\ pc'[q] = pc[q] /\ call[q].slot \in Slot
                      /\ ActivityOf[call[q].slot] # a
    OBVIOUS
  <2>1. InTransaction(q) /\ pc'[q] = pc[q]
    BY <1>2, <1>3 DEF InTransaction
  <2>2. lock[call[q].slot] = q /\ call[q].slot \in Slot
    BY <2>1, CallsAssumption DEF IInv, RowIsLocked, RequestsKeepTheirPath, Reserving, InTransaction
  <2> QED
    BY <1>2, <2>1, <2>2, RequestAssumption
<1>5. RequestsKeepTheirPath'
  BY <1>2, <1>3 DEF IInv, RequestsKeepTheirPath, Reserving
<1>6. SlotsReferToRows'
  BY <1>2, <1>3, SlotAssumption DEF IInv, SlotsReferToRows, Exists
<1>7. \A e \in live' : /\ Exists(call[e].activity)'
                       /\ call[e].slot # NoSlot => capacity'[call[e].slot] > 0
  <2> SUFFICES ASSUME NEW e \in live, e \notin EntriesOf(a)
               PROVE  /\ Exists(call[e].activity)'
                      /\ call[e].slot # NoSlot => capacity'[call[e].slot] > 0
    BY <1>2
  <2>1. call[e] \in Call
    BY <1>3, CallsAssumption DEF IInv, RequestsKeepTheirPath, EntriesAreCommitted
  <2>2. call[e].slot \in Slot \cup {NoSlot} /\ call[e].activity \in Activity
    BY <2>1 DEF Call
  <2>3. call[e].activity # a /\ (call[e].slot \in Slot => ActivityOf[call[e].slot] # a)
    BY DEF EntriesOf
  <2>4. Exists(call[e].activity)'
    BY <1>2, <1>3, <2>2, <2>3 DEF IInv, EntriesReferToRows, Exists
  <2> QED
    BY <1>2, <2>2, <2>3, <2>4 DEF IInv, EntriesReferToRows
<1>8. Quiet
  BY <1>2, <1>3, <1>4, <1>5, <1>6, <1>7 DEF Quiet, IInv, InTransaction, EntriesAreCommitted
<1> QED
  BY <1>1, <1>8, QuietStep

\* Every other step of a request.
LEMMA StepInv ==
    ASSUME IInv, NEW r \in Request, Step(r)
    PROVE  IInv'
<1>1. TypeOK' /\ pc \in [Request -> Steps]
  BY StepType DEF IInv, TypeOK
<1>2. r \in live => pc[r] \in {"read", "done"}
  BY DEF IInv, EntriesAreCommitted
<1>3. CASE CheckPublished(r)
  <2>1. PICK step \in {"connect", "insertFree", "done"} : pc' = [pc EXCEPT ![r] = step]
    BY <1>3 DEF CheckPublished, GoTo, Answer
  <2>2. step = "connect" => call[r].op = "book"
    BY <1>1, <1>3, <2>1 DEF CheckPublished, GoTo, Answer, IInv, TypeOK
  <2>3. step # "insertFree" => IInv'
    BY <1>1, <1>2, <1>3, <2>1, <2>2, PlainStep DEF CheckPublished, tables, locks
  <2>4. CASE step = "insertFree"
    <3>1. /\ pc[r] = "published?" /\ UNCHANGED <<tables, locks, call, seen>>
          /\ call[r].op = "free"
      BY <1>1, <1>3, <2>1, <2>4 DEF CheckPublished, GoTo, Answer, IInv, TypeOK, RequestsKeepTheirPath
    <3>2. RequestsKeepTheirPath'
      BY <1>1, <2>1, <2>4, <3>1 DEF IInv, RequestsKeepTheirPath, Reserving
    <3>3. SlotsReferToRows'
      BY <3>1 DEF IInv, SlotsReferToRows, Exists, tables
    <3>4. Quiet
      BY <1>1, <1>2, <2>1, <2>4, <3>1, <3>2, <3>3 DEF Quiet, IInv, TypeOK, InTransaction,
         EntriesAreCommitted, EntriesReferToRows, Exists, tables, locks
    <3> QED
      BY <1>1, <3>4, QuietStep
  <2> QED
    BY <2>3, <2>4
<1>4. CASE Connect(r)
  <2>1. call[r].op = "book"
    BY <1>4 DEF Connect, IInv, RequestsKeepTheirPath, Reserving
  <2> QED
    BY <1>1, <1>2, <1>4, <2>1, PlainStep DEF Connect, GoTo, tables
<1>5. CASE SelectForUpdate(r)
  BY <1>5, SelectInv
<1>6. CASE RefuseSlot(r)
  BY <1>6, RefuseInv DEF RefuseSlot, Selecting, Replies
<1>7. CASE Count(r)
  BY <1>7, CountInv
<1>8. CASE Insert(r)
  BY <1>8, InsertInv
<1>9. CASE Commit(r)
  BY <1>9, CommitInv
<1>10. CASE InsertFree(r)
  BY <1>10, InsertFreeInv
<1>11. CASE ReadBack(r)
  BY <1>1, <1>11, PlainStep DEF ReadBack, Answer, tables, locks
<1>12. CASE Find(r)
  <2>1. PICK step \in {"erase", "done"} : pc' = [pc EXCEPT ![r] = step]
    BY <1>12 DEF Find, GoTo, Answer
  <2> QED
    BY <1>1, <1>2, <1>12, <2>1, PlainStep DEF Find, tables, locks
<1>13. CASE Erase(r)
  BY <1>13, EraseInv
<1>14. CASE CheckOwner(r)
  <2>1. PICK step \in {"upsert", "delete", "done"} : pc' = [pc EXCEPT ![r] = step]
    BY <1>14 DEF CheckOwner, GoTo, Answer
  <2> QED
    BY <1>1, <1>2, <1>14, <2>1, PlainStep DEF CheckOwner, tables, locks
<1>15. CASE Upsert(r)
  BY <1>15, UpsertInv
<1>16. CASE Delete(r)
  <2>1. PICK step \in {"cascade", "done"} : pc' = [pc EXCEPT ![r] = step]
    BY <1>16 DEF Delete, GoTo, Answer
  <2> QED
    BY <1>1, <1>2, <1>16, <2>1, PlainStep DEF Delete, tables
<1>17. CASE Cascade(r)
  BY <1>17, CascadeInv
<1> QED
  BY <1>3, <1>4, <1>5, <1>6, <1>7, <1>8, <1>9, <1>10, <1>11, <1>12, <1>13, <1>14, <1>15,
     <1>16, <1>17 DEF Step

\* Deadlock detector, failures and the rest of the site keep the invariant.
LEMMA OtherInv ==
    ASSUME IInv,
           \/ DeadlockAbort
           \/ \E r \in Request : Fail(r)
           \/ \E a \in Activity : CreateActivity(a) \/ Moderate(a)
           \/ \E s \in Slot : TimePasses(s)
    PROVE  IInv'
<1>1. TypeOK' /\ pc \in [Request -> Steps] /\ lock \in [Slot -> Request \cup {None}]
  BY OtherType DEF IInv, TypeOK
<1>2. CASE DeadlockAbort
  <2>1. PICK b \in Request, d \in Request :
          /\ pc[b] = "insert" /\ pc[d] = "cascade"
          /\ \/ Refuse(b, "FAILED")
             \/ Answer(d, "FAILED") /\ UNCHANGED <<tables, lock, call, seen>>
    BY <1>2 DEF DeadlockAbort, DeadLocked
  <2>2. CASE Refuse(b, "FAILED")
    BY <2>1, <2>2, RefuseInv DEF Replies
  <2>3. CASE ~Refuse(b, "FAILED")
    BY <1>1, <2>1, <2>3, PlainStep DEF Answer, tables
  <2> QED
    BY <2>2, <2>3
<1>3. ASSUME NEW r \in Request, Fail(r) PROVE IInv'
  BY <1>1, <1>3, EndStep DEF Fail, Answer
<1>4. ASSUME NEW a \in Activity, CreateActivity(a) PROVE IInv'
  <2>1. /\ status[a] = "absent" /\ UNCHANGED <<live, past, lock, pc, call, seen>>
        /\ \E st \in {"published", "pending"} : status' = [status EXCEPT ![a] = st]
    BY <1>4 DEF CreateActivity, locks, requests
  <2>2. \/ capacity' = capacity
        \/ \E s \in Slot, c \in Capacity : ActivityOf[s] = a /\ capacity' = [capacity EXCEPT ![s] = c]
    BY <1>4 DEF CreateActivity
  <2>3. status \in [Activity -> Statuses] /\ capacity \in [Slot -> Nat] /\ live \subseteq Request
    BY DEF IInv, TypeOK
  <2>4. \A b \in Activity : /\ Exists(b) => b # a
                            /\ Exists(b) => Exists(b)'
    BY <2>1, <2>3 DEF Exists
  <2>5. \A s \in Slot : \/ capacity'[s] = capacity[s]
                        \/ ActivityOf[s] = a /\ capacity'[s] > 0 /\ capacity[s] = 0
    <3>1. \A s \in Slot : ActivityOf[s] = a => ~(capacity[s] > 0)
      <4>1. ~Exists(a)
        BY <2>1 DEF Exists
      <4> QED
        BY <4>1 DEF IInv, SlotsReferToRows
    <3>2. CASE capacity' = capacity
      BY <3>2
    <3>3. ASSUME NEW t \in Slot, NEW c \in Capacity, ActivityOf[t] = a,
                 capacity' = [capacity EXCEPT ![t] = c]
          PROVE  \A s \in Slot : \/ capacity'[s] = capacity[s]
                                 \/ ActivityOf[s] = a /\ capacity'[s] > 0 /\ capacity[s] = 0
      <4>1. c > 0 /\ ~(capacity[t] > 0) /\ capacity[t] \in Nat
        BY <2>3, <3>1, <3>3, CapacityAssumption
      <4> QED
        BY <2>3, <3>3, <4>1
    <3> QED
      BY <2>2, <3>2, <3>3
  <2>6. Exists(a)'
    BY <2>1, <2>3 DEF Exists
  <2>7. SlotsReferToRows'
    BY <2>3, <2>4, <2>5, <2>6, SlotAssumption DEF IInv, SlotsReferToRows
  <2>8. \A e \in Request : pc[e] # "idle" =>
          call[e].activity \in Activity /\ call[e].slot \in Slot \cup {NoSlot}
    <3> SUFFICES ASSUME NEW e \in Request, pc[e] # "idle"
                 PROVE  call[e].activity \in Activity /\ call[e].slot \in Slot \cup {NoSlot}
      OBVIOUS
    <3>1. call[e] \in Call
      BY CallsAssumption DEF IInv, RequestsKeepTheirPath
    <3> QED
      BY <3>1 DEF Call
  <2>9. \A e \in live : /\ Exists(call[e].activity)'
                        /\ call[e].slot # NoSlot => capacity'[call[e].slot] > 0
    <3> SUFFICES ASSUME NEW e \in live
                 PROVE  /\ Exists(call[e].activity)'
                        /\ call[e].slot # NoSlot => capacity'[call[e].slot] > 0
      OBVIOUS
    <3>1. call[e].activity \in Activity /\ call[e].slot \in Slot \cup {NoSlot}
      BY <2>3, <2>8 DEF IInv, EntriesAreCommitted
    <3>2. /\ Exists(call[e].activity)
          /\ call[e].slot # NoSlot => capacity[call[e].slot] > 0
      BY DEF IInv, EntriesReferToRows
    <3>3. Exists(call[e].activity)'
      BY <2>1, <2>4, <3>1, <3>2 DEF Exists
    <3> QED
      BY <2>5, <3>1, <3>2, <3>3
  <2>10. \A q \in Request : InTransaction(q) => capacity'[call[q].slot] = capacity[call[q].slot]
    <3> SUFFICES ASSUME NEW q \in Request, InTransaction(q)
                 PROVE  capacity'[call[q].slot] = capacity[call[q].slot]
      OBVIOUS
    <3>1. call[q].slot \in Slot /\ capacity[call[q].slot] > 0
      BY CallsAssumption DEF IInv, RequestsKeepTheirPath, Reserving, InTransaction, CapacityReadIsCurrent
    <3> QED
      BY <2>5, <3>1
  <2>11. RequestsKeepTheirPath'
    BY <2>1 DEF IInv, RequestsKeepTheirPath, Reserving
  <2>12. Quiet
    <3>1. \A e \in live' : /\ Exists(call[e].activity)'
                           /\ call[e].slot # NoSlot => capacity'[call[e].slot] > 0
      BY <2>1, <2>9
    <3>2. \A q \in Request : InTransaction(q)' <=> InTransaction(q)
      BY <2>1 DEF InTransaction
    <3> QED
      BY <3>1, <3>2, <2>1, <2>7, <2>10, <2>11 DEF Quiet, IInv, EntriesAreCommitted
  <2> QED
    BY <1>1, <2>12, QuietStep
<1>5. ASSUME NEW a \in Activity, Moderate(a) PROVE IInv'
  <2>1. /\ Exists(a) /\ UNCHANGED <<capacity, live, past, lock, pc, call, seen>>
        /\ status' = [status EXCEPT ![a] = IF @ = "published" THEN "pending" ELSE "published"]
    BY <1>5 DEF Moderate, locks, requests
  <2>2. \A b \in Activity : Exists(b) => Exists(b)'
    BY <2>1 DEF Exists, IInv, TypeOK
  <2>3. SlotsReferToRows' /\ RequestsKeepTheirPath'
    BY <2>1, <2>2, SlotAssumption DEF IInv, SlotsReferToRows, RequestsKeepTheirPath, Reserving
  <2>4. \A e \in live : call[e].activity \in Activity
    <3> SUFFICES ASSUME NEW e \in live PROVE call[e].activity \in Activity
      OBVIOUS
    <3>1. call[e] \in Call
      BY CallsAssumption DEF IInv, TypeOK, RequestsKeepTheirPath, EntriesAreCommitted
    <3> QED
      BY <3>1 DEF Call
  <2>5. Quiet
    BY <2>1, <2>2, <2>3, <2>4 DEF Quiet, IInv, InTransaction, EntriesAreCommitted, EntriesReferToRows
  <2> QED
    BY <1>1, <2>5, QuietStep
<1>6. ASSUME NEW s \in Slot, TimePasses(s) PROVE IInv'
  BY <1>1, <1>6 DEF TimePasses, locks, requests, IInv, RequestsKeepTheirPath, Reserving,
     RowIsLocked, InTransaction, CapacityReadIsCurrent, SeatIsFree, AlreadyBooked, Booked,
     EntriesAreCommitted, SlotsReferToRows, EntriesReferToRows, Exists, OneSeatPerUser
<1> QED
  BY <1>2, <1>3, <1>4, <1>5, <1>6, OtherType

\* The invariant holds of the empty tables.
LEMMA InvariantInit == Init => IInv
<1> SUFFICES ASSUME Init PROVE IInv
  OBVIOUS
<1>1. TypeOK
  BY TypeCorrectInit
<1>2. live = {} /\ \A r \in Request : pc[r] = "idle"
  BY DEF Init
<1>3. RequestsKeepTheirPath /\ RowIsLocked /\ CapacityReadIsCurrent /\ SeatIsFree
  BY <1>2 DEF RequestsKeepTheirPath, Reserving, RowIsLocked, InTransaction,
     CapacityReadIsCurrent, SeatIsFree
<1>4. EntriesAreCommitted /\ EntriesReferToRows /\ OneSeatPerUser
  BY <1>2 DEF EntriesAreCommitted, EntriesReferToRows, OneSeatPerUser, Booked
<1>5. SlotsReferToRows
  <2>1. \A s \in Slot : capacity[s] = 0
    BY DEF Init
  <2>2. \A s \in Slot : ~(capacity[s] > 0)
    BY <2>1
  <2> QED
    BY <2>2 DEF SlotsReferToRows
<1> QED
  BY <1>1, <1>3, <1>4, <1>5 DEF IInv

\* Every step of the system keeps the invariant.
LEMMA InvariantStep == IInv /\ [Next]_vars => IInv'
<1> SUFFICES ASSUME IInv, [Next]_vars PROVE IInv'
  OBVIOUS
<1>1. CASE UNCHANGED vars
  <2>1. TypeOK' /\ RequestsKeepTheirPath' /\ RowIsLocked' /\ CapacityReadIsCurrent'
    BY <1>1 DEF vars, tables, locks, requests, IInv, TypeOK, RequestsKeepTheirPath, Reserving,
       RowIsLocked, InTransaction, CapacityReadIsCurrent
  <2>2. SeatIsFree' /\ OneSeatPerUser'
    BY <1>1 DEF vars, tables, requests, IInv, SeatIsFree, AlreadyBooked, Booked, OneSeatPerUser
  <2>3. EntriesAreCommitted' /\ SlotsReferToRows' /\ EntriesReferToRows'
    BY <1>1 DEF vars, tables, requests, IInv, EntriesAreCommitted, SlotsReferToRows,
       EntriesReferToRows, Exists
  <2> QED
    BY <2>1, <2>2, <2>3 DEF IInv
<1>2. CASE Next
  BY <1>2, StartInv, StepInv, OtherInv DEF Next
<1> QED
  BY <1>1, <1>2

\* The inductive invariant holds in every reachable state.
THEOREM Invariant == Spec => []IInv
  BY InvariantInit, InvariantStep, PTL DEF Spec

\* What bookSlot read under FOR UPDATE still holds when it inserts and commits.
THEOREM CapacityStaysCurrent == Spec => []CapacityReadIsCurrent
<1>1. IInv => CapacityReadIsCurrent
  BY DEF IInv
<1> QED
  BY <1>1, Invariant, PTL

\* A user never holds two seats of one slot, whatever is retried or fails.
THEOREM NoDoubleSeat == Spec => []OneSeatPerUser
<1>1. IInv => OneSeatPerUser
  BY DEF IInv
<1> QED
  BY <1>1, Invariant, PTL

\* No deletion leaves an entry behind, and every entry's slot is its activity's.
THEOREM NoOrphanEntry == Spec => []EntriesReferToRows
<1>1. IInv => EntriesReferToRows
  BY DEF IInv
<1> QED
  BY <1>1, Invariant, PTL

-------------------------------------------------------------------------------
(* Concurrent reservations and the capacity of a slot *)

\* Every step but a COMMIT leaves the entries of every slot or removes some.
LEMMA OnlyCommitAddsSeats ==
    ASSUME IInv, [Next]_vars, \A r \in Request : ~Commit(r)
    PROVE  \A s \in Slot : Booked(s)' \subseteq Booked(s)
<1>1. live \subseteq Request /\ call \in [Request -> Calls \cup {None}]
      /\ pc \in [Request -> Steps]
  BY DEF IInv, TypeOK
<1>2. ASSUME live' \subseteq live, \A e \in live : call'[e] = call[e]
      PROVE  \A s \in Slot : Booked(s)' \subseteq Booked(s)
  BY <1>2 DEF Booked
<1>3. CASE UNCHANGED vars
  BY <1>2, <1>3 DEF vars, tables, requests
<1>4. ASSUME NEW r \in Request, NEW c \in Calls, Start(r, c)
      PROVE  \A s \in Slot : Booked(s)' \subseteq Booked(s)
  <2>1. r \notin live
    BY <1>4 DEF Start, IInv, EntriesAreCommitted
  <2>2. live' = live /\ call' = [call EXCEPT ![r] = c]
    BY <1>4 DEF Start, tables
  <2> QED
    BY <1>1, <1>2, <2>1, <2>2
<1>5. ASSUME NEW r \in Request, InsertFree(r)
      PROVE  \A s \in Slot : Booked(s)' \subseteq Booked(s)
  <2>1. call[r].slot = NoSlot
    BY <1>5, CallsAssumption DEF InsertFree, IInv, RequestsKeepTheirPath
  <2>2. live' \subseteq live \cup {r} /\ call' = call
    BY <1>5 DEF InsertFree
  <2> QED
    BY <2>1, <2>2, SlotAssumption DEF Booked
<1>6. ASSUME NEW r \in Request, Step(r), ~InsertFree(r)
      PROVE  live' \subseteq live /\ call' = call
  <2>1. CASE CheckPublished(r) \/ Connect(r) \/ SelectForUpdate(r) \/ ReadBack(r) \/ Find(r)
             \/ CheckOwner(r) \/ Delete(r) \/ Upsert(r) \/ Erase(r) \/ Cascade(r)
    BY <2>1 DEF CheckPublished, Connect, SelectForUpdate, ReadBack, Find, CheckOwner, Delete,
       Upsert, Erase, Cascade, tables
  <2>2. CASE RefuseSlot(r) \/ Count(r) \/ Insert(r)
    BY <2>2 DEF RefuseSlot, Count, Insert, Refuse, tables
  <2> QED
    BY <1>6, <2>1, <2>2 DEF Step
<1>7. ASSUME \/ DeadlockAbort
             \/ \E r \in Request : Fail(r)
             \/ \E a \in Activity : CreateActivity(a) \/ Moderate(a)
             \/ \E s \in Slot : TimePasses(s)
      PROVE  live' = live /\ call' = call
  BY <1>7 DEF DeadlockAbort, Refuse, Fail, CreateActivity, Moderate, TimePasses, tables, requests
<1> QED
  BY <1>2, <1>3, <1>4, <1>5, <1>6, <1>7 DEF Next

\* A COMMIT fills one free seat of one slot.
LEMMA CommitFillsFreeSeat ==
    ASSUME IInv, NEW r \in Request, Commit(r), NEW s \in Slot
    PROVE  \/ Booked(s)' = Booked(s)
           \/ Cardinality(Booked(s)') <= capacity'[s]
<1>1. pc[r] = "commit" /\ live' = live \cup {r} /\ call' = call /\ capacity' = capacity
  BY DEF Commit
<1>2. CASE call[r].slot # s
  BY <1>1, <1>2 DEF Booked
<1>3. CASE call[r].slot = s
  <2>1. Cardinality(Booked(s)) < capacity[s] /\ capacity[s] \in Nat
    BY <1>1, <1>3 DEF IInv, SeatIsFree, CapacityReadIsCurrent, InTransaction, TypeOK
  <2>2. Booked(s)' = Booked(s) \cup {r}
    BY <1>1, <1>3 DEF Booked
  <2>3. IsFiniteSet(Booked(s)) /\ Cardinality(Booked(s)) \in Nat
    BY BookedFinite DEF IInv
  <2>4. Cardinality(Booked(s) \cup {r}) <= Cardinality(Booked(s)) + 1
    <3>1. Cardinality(Booked(s) \cup {r}) =
            IF r \in Booked(s) THEN Cardinality(Booked(s)) ELSE Cardinality(Booked(s)) + 1
      BY <2>3, FS_AddElement
    <3> QED
      BY <2>3, <3>1
  <2>5. Cardinality(Booked(s) \cup {r}) \in Nat
    BY <2>3, FS_AddElement, FS_CardinalityType
  <2> QED
    BY <1>1, <2>1, <2>2, <2>3, <2>4, <2>5
<1> QED
  BY <1>2, <1>3

\* Whenever a slot gains a reservation, it ends within its capacity: the comment
\* on bookSlot holds for any number of concurrent requests.
THEOREM ReservationsFitCapacity == Spec => SeatsWithinCapacity
<1>1. IInv /\ [Next]_vars =>
        [\A s \in Slot :
            ~(Booked(s)' \subseteq Booked(s)) => Cardinality(Booked(s)') <= capacity'[s]]_vars
  <2> SUFFICES ASSUME IInv, [Next]_vars, NEW s \in Slot, ~(Booked(s)' \subseteq Booked(s))
               PROVE  Cardinality(Booked(s)') <= capacity'[s]
    OBVIOUS
  <2>1. PICK r \in Request : Commit(r)
    BY OnlyCommitAddsSeats
  <2> QED
    BY <2>1, CommitFillsFreeSeat
<1> QED
  BY <1>1, Invariant, PTL DEF Spec, SeatsWithinCapacity

\* While organizers never lower a capacity, no slot is ever overbooked: with the
\* theorem above, what 009_activity_slots.sql says is lost only by an upsert.
THEOREM NotOverbookedWhileGrowing == GrowingSpec => []NeverOverbooked
<1> DEFINE Grow == \A s \in Slot : capacity'[s] = 0 \/ capacity'[s] >= capacity[s]
<1> DEFINE J == IInv /\ NeverOverbooked
<1>1. Init => J
  <2> SUFFICES ASSUME Init PROVE NeverOverbooked
    BY InvariantInit
  <2>1. \A s \in Slot : Booked(s) = {} /\ capacity[s] = 0
    BY DEF Init, Booked
  <2> QED
    BY <2>1, FS_EmptySet DEF NeverOverbooked
<1>2. J /\ [Next /\ Grow]_vars => J'
  <2> SUFFICES ASSUME J, [Next /\ Grow]_vars PROVE NeverOverbooked'
    BY InvariantStep
  <2> SUFFICES ASSUME NEW s \in Slot PROVE Cardinality(Booked(s)') <= capacity'[s]
    BY DEF NeverOverbooked
  <2>1. IInv' /\ capacity' \in [Slot -> Nat] /\ capacity \in [Slot -> Nat]
    BY InvariantStep DEF IInv, TypeOK
  <2>2. CASE UNCHANGED vars
    BY <2>2 DEF NeverOverbooked, Booked, vars, tables, requests
  <2>3. CASE ~(Booked(s)' \subseteq Booked(s))
    <3>1. PICK r \in Request : Commit(r)
      BY <2>3, OnlyCommitAddsSeats
    <3> QED
      BY <2>3, <3>1, CommitFillsFreeSeat
  <2>4. CASE Next /\ Grow /\ Booked(s)' \subseteq Booked(s)
    <3>1. /\ Cardinality(Booked(s)') <= Cardinality(Booked(s))
          /\ Cardinality(Booked(s)') \in Nat /\ Cardinality(Booked(s)) \in Nat
      BY <2>4, FewerBooked, BookedFinite DEF IInv
    <3>2. CASE capacity'[s] = 0
      <4>1. Booked(s)' = {}
        BY <2>1, <3>2, SlotAssumption DEF IInv, EntriesReferToRows, Booked
      <4> QED
        BY <3>2, <4>1, FS_EmptySet
    <3>3. CASE capacity'[s] >= capacity[s]
      BY <2>1, <3>1, <3>3 DEF NeverOverbooked
    <3> QED
      BY <2>4, <3>2, <3>3
  <2> QED
    BY <2>2, <2>3, <2>4
<1>3. J => NeverOverbooked
  OBVIOUS
<1> QED
  BY <1>1, <1>2, <1>3, PTL DEF GrowingSpec

-------------------------------------------------------------------------------
(* Entries leave for a reason *)

\* Whoever is about to delete an entry is its user: the check and the deletion are
\* two statements, and the entry keeps its request, hence its user, in between.
ErasersOwn ==
    \A r \in Request :
        /\ pc[r] \in {"find", "erase"} => call[r].op = "remove"
        /\ pc[r] = "erase" => pc[call[r].target] # "idle" /\ OwnEntry(r)

\* A step leads nobody to removePlanning's second statement but through its first.
LEMMA ErasersOwnStep ==
    ASSUME IInv, ErasersOwn, [Next]_vars
    PROVE  ErasersOwn'
<1>1. pc \in [Request -> Steps] /\ call \in [Request -> Calls \cup {None}]
  BY DEF IInv, TypeOK
<1>2. \A r \in Request : call[r] \in Calls /\ call[r].op = "remove" => call[r].target \in Request
  BY CallsAssumption
<1>3. ASSUME NEW r \in Request, pc[r] # "idle", call' = call,
             \A q \in Request \ {r} : pc'[q] = pc[q],
             pc'[r] \notin {"idle", "find"},
             pc'[r] = "erase" => pc[r] = "find" /\ call[r].target \in live /\ OwnEntry(r)
      PROVE  ErasersOwn'
  <2> SUFFICES ASSUME NEW q \in Request
               PROVE  /\ pc'[q] \in {"find", "erase"} => call[q].op = "remove"
                      /\ pc'[q] = "erase" => pc'[call[q].target] # "idle" /\ OwnEntry(q)
    BY <1>3 DEF ErasersOwn, OwnEntry
  <2>1. CASE q = r
    BY <1>1, <1>3, <2>1 DEF ErasersOwn, IInv, EntriesAreCommitted, TypeOK
  <2>2. CASE q # r
    BY <1>1, <1>2, <1>3, <2>2 DEF ErasersOwn, IInv, RequestsKeepTheirPath
  <2> QED
    BY <2>1, <2>2
<1>4. CASE UNCHANGED vars
  BY <1>4 DEF vars, requests, ErasersOwn, OwnEntry
<1>5. ASSUME NEW r \in Request, NEW c \in Calls, Start(r, c)
      PROVE  ErasersOwn'
  <2>1. /\ pc[r] = "idle"
        /\ call' = [call EXCEPT ![r] = c]
        /\ pc' = [pc EXCEPT ![r] = FirstStep(c.op)]
    BY <1>5 DEF Start, GoTo
  <2>2. FirstStep(c.op) \notin {"idle", "erase"} /\ (FirstStep(c.op) = "find" => c.op = "remove")
    BY CallsAssumption DEF FirstStep, Call, Ops
  <2> SUFFICES ASSUME NEW q \in Request
               PROVE  /\ pc'[q] \in {"find", "erase"} => call'[q].op = "remove"
                      /\ pc'[q] = "erase" => /\ pc'[call'[q].target] # "idle"
                                             /\ call'[call'[q].target].user = call'[q].user
    BY DEF ErasersOwn, OwnEntry
  <2>3. CASE q = r
    BY <1>1, <2>1, <2>2, <2>3
  <2>4. CASE q # r
    <3>1. call'[q] = call[q] /\ pc'[q] = pc[q]
      BY <1>1, <2>1, <2>4
    <3>2. pc[q] = "erase" => call[q].target \in Request \ {r}
      BY <1>2, <2>1 DEF ErasersOwn, IInv, RequestsKeepTheirPath
    <3> QED
      BY <1>1, <2>1, <3>1, <3>2 DEF ErasersOwn, OwnEntry
  <2> QED
    BY <2>3, <2>4
<1>6. ASSUME NEW r \in Request, Step(r), ~Find(r)
      PROVE  /\ pc[r] # "idle" /\ call' = call
             /\ \A q \in Request \ {r} : pc'[q] = pc[q]
             /\ pc'[r] \notin {"idle", "find", "erase"}
  <2>1. CASE CheckPublished(r) \/ Connect(r) \/ ReadBack(r) \/ CheckOwner(r) \/ InsertFree(r) \/ Commit(r)
    BY <1>1, <2>1 DEF CheckPublished, Connect, ReadBack, CheckOwner, InsertFree, Commit, GoTo, Answer
  <2>2. CASE SelectForUpdate(r) \/ Erase(r) \/ Upsert(r) \/ Delete(r) \/ Cascade(r)
    BY <1>1, <2>2 DEF SelectForUpdate, Selecting, Erase, Upsert, Delete, Cascade, GoTo, Answer
  <2>3. CASE RefuseSlot(r) \/ Count(r) \/ Insert(r)
    BY <1>1, <2>3 DEF RefuseSlot, Selecting, Count, Insert, Refuse, GoTo, Answer
  <2> QED
    BY <1>6, <2>1, <2>2, <2>3 DEF Step
<1>7. ASSUME NEW r \in Request, Step(r)
      PROVE  ErasersOwn'
  <2>1. CASE Find(r)
    BY <1>1, <1>3, <2>1 DEF Find, GoTo, Answer
  <2>2. CASE ~Find(r)
    BY <1>3, <1>6, <1>7, <2>2
  <2> QED
    BY <2>1, <2>2
<1>8. CASE DeadlockAbort \/ \E r \in Request : Fail(r)
  <2>1. PICK r \in Request : /\ pc[r] # "idle" /\ call' = call
                             /\ pc' = [pc EXCEPT ![r] = "done"]
    BY <1>8 DEF DeadlockAbort, DeadLocked, Refuse, Fail, Answer
  <2> QED
    BY <1>1, <1>3, <2>1
<1>9. CASE \/ \E a \in Activity : CreateActivity(a) \/ Moderate(a)
           \/ \E s \in Slot : TimePasses(s)
  BY <1>9 DEF CreateActivity, Moderate, TimePasses, requests, ErasersOwn, OwnEntry
<1> QED
  BY <1>4, <1>5, <1>7, <1>8, <1>9 DEF Next

\* Only removePlanning's DELETE and the cascade of a deletion take entries away.
LEMMA EntriesLeaveTwoWays ==
    ASSUME IInv, [Next]_vars, \A r \in Request : ~Erase(r) /\ ~Cascade(r)
    PROVE  live \subseteq live'
<1>1. ASSUME NEW r \in Request, Step(r)
      PROVE  live \subseteq live'
  <2>1. CASE \/ CheckPublished(r) \/ Connect(r) \/ SelectForUpdate(r) \/ ReadBack(r) \/ Find(r)
             \/ CheckOwner(r) \/ Delete(r) \/ Upsert(r) \/ Commit(r) \/ InsertFree(r)
    BY <2>1 DEF CheckPublished, Connect, SelectForUpdate, ReadBack, Find, CheckOwner, Delete,
       Upsert, Commit, InsertFree, tables
  <2>2. CASE RefuseSlot(r) \/ Count(r) \/ Insert(r)
    BY <2>2 DEF RefuseSlot, Count, Insert, Refuse, tables
  <2> QED
    BY <1>1, <2>1, <2>2 DEF Step
<1>2. CASE \/ UNCHANGED vars
           \/ \E r \in Request, c \in Calls : Start(r, c)
           \/ DeadlockAbort
           \/ \E r \in Request : Fail(r)
           \/ \E a \in Activity : CreateActivity(a) \/ Moderate(a)
           \/ \E s \in Slot : TimePasses(s)
  BY <1>2 DEF vars, Start, DeadlockAbort, Refuse, Fail, CreateActivity, Moderate, TimePasses,
     tables, requests
<1> QED
  BY <1>1, <1>2 DEF Next

\* Whatever is requested at once, an entry disappears with its activity or by a
\* call of its own user.
THEOREM EntriesLeave == Spec => EntriesLeaveWithReason
<1> DEFINE Reason(e) == \/ ~Exists(call[e].activity)'
                        \/ \E r \in Request : /\ reply'[r] = "DELETED" /\ pc[r] = "erase"
                                              /\ call[r].user = call[e].user
<1>1. Init => ErasersOwn
  BY DEF Init, ErasersOwn
<1>2. IInv /\ ErasersOwn /\ [Next]_vars => [\A e \in live \ live' : Reason(e)]_vars
  <2> SUFFICES ASSUME IInv, ErasersOwn, [Next]_vars, NEW e \in live, e \notin live'
               PROVE  Reason(e)
    OBVIOUS
  <2>1. PICK r \in Request : Erase(r) \/ Cascade(r)
    BY EntriesLeaveTwoWays
  <2>2. CASE Erase(r)
    <3>1. e = call[r].target /\ pc[r] = "erase" /\ reply'[r] = "DELETED"
      BY <2>2 DEF Erase, Answer, IInv, TypeOK
    <3> QED
      BY <3>1 DEF ErasersOwn, OwnEntry
  <2>3. CASE Cascade(r)
    <3> DEFINE a == call[r].activity
    <3>1. /\ e \in EntriesOf(a) /\ call' = call
          /\ status' = [status EXCEPT ![a] = "deleted"] /\ status \in [Activity -> Statuses]
      BY <2>3 DEF Cascade, IInv, TypeOK
    <3>2. call[e].activity = a
      BY <3>1, SlotAssumption DEF EntriesOf, IInv, EntriesReferToRows
    <3>3. call[e].activity \in Activity
      <4>1. call[e] \in Call
        BY CallsAssumption DEF IInv, TypeOK, RequestsKeepTheirPath, EntriesAreCommitted
      <4> QED
        BY <4>1 DEF Call
    <3> QED
      BY <3>1, <3>2, <3>3 DEF Exists
  <2> QED
    BY <2>1, <2>2, <2>3
<1>3. IInv /\ ErasersOwn /\ [Next]_vars => ErasersOwn'
  BY ErasersOwnStep
<1> QED
  BY <1>1, <1>2, <1>3, Invariant, PTL DEF Spec, EntriesLeaveWithReason

-------------------------------------------------------------------------------
(* Booking implements SeatLedger *)

\* The users seated in a slot, and the ledger's "seats" that they make.
Seated(s) == {call[r].user : r \in Booked(s)}

LedgerSeats == [s \in Slot |-> Seated(s)]

\* The ledger's seats, slot by slot, before and after a step.
LEMMA SeatsOfSlots ==
    /\ LedgerSeats = [s \in Slot |-> LedgerSeats[s]]
    /\ LedgerSeats' = [s \in Slot |-> LedgerSeats'[s]]
    /\ \A s \in Slot : LedgerSeats[s] = Seated(s) /\ LedgerSeats'[s] = Seated(s)'
  BY DEF LedgerSeats, Seated

\* The ledger counts seats as Booking does.
LEMMA LedgerCounts ==
    ASSUME NEW S
    PROVE  Ledger!Cardinality(S) = Cardinality(S)
  BY DEF Ledger!Cardinality, Cardinality

\* A user holds one entry of a slot at most, so there are no more users than entries.
LEMMA SeatedIsBooked ==
    ASSUME TypeOK, NEW s
    PROVE  /\ Cardinality(Seated(s)) <= Cardinality(Booked(s))
           /\ Cardinality(Seated(s)) \in Nat /\ Cardinality(Booked(s)) \in Nat
<1> DEFINE f == [r \in Booked(s) |-> call[r].user]
<1>1. IsFiniteSet(Booked(s)) /\ Cardinality(Booked(s)) \in Nat
  BY BookedFinite
<1>2. f \in Surjection(Booked(s), Seated(s))
  <2>1. f \in [Booked(s) -> Seated(s)]
    BY DEF Seated
  <2>2. \A u \in Seated(s) : \E r \in Booked(s) : f[r] = u
    BY DEF Seated
  <2> QED
    BY <2>1, <2>2 DEF Surjection
<1>3. IsFiniteSet(Seated(s)) /\ Cardinality(Seated(s)) <= Cardinality(Booked(s))
  BY <1>1, <1>2, FS_Surjection
<1>4. Cardinality(Seated(s)) \in Nat
  BY <1>3, FS_CardinalityType
<1> QED
  BY <1>1, <1>3, <1>4

\* A request with an entry, or in a transaction, has a user, and an activity.
LEMMA AcceptedCall ==
    ASSUME IInv, NEW r \in Request, pc[r] # "idle"
    PROVE  call[r].user \in User /\ call[r].activity \in Activity /\ call[r].slot \in Slot \cup {NoSlot}
<1>1. call[r] \in Call
  BY CallsAssumption DEF IInv, RequestsKeepTheirPath
<1> QED
  BY <1>1 DEF Call

\* A step that changes neither capacities nor the entries of slots is invisible.
LEMMA LedgerStutter ==
    ASSUME capacity' = capacity, \A s \in Slot : Seated(s)' = Seated(s)
    PROVE  UNCHANGED Ledger!vars
  BY DEF Ledger!vars, Seated

\* What a step does to the users of each slot, told as an action of the ledger.
LEMMA LedgerReserve ==
    ASSUME NEW u \in User, NEW t \in Slot,
           u \notin Seated(t), Cardinality(Seated(t)) < capacity[t],
           Seated(t)' = Seated(t) \cup {u},
           \A s \in Slot \ {t} : Seated(s)' = Seated(s),
           capacity' = capacity
    PROVE  Ledger!Next
<1>1. /\ LedgerSeats'[t] = LedgerSeats[t] \cup {u} /\ u \notin LedgerSeats[t]
      /\ \A s \in Slot \ {t} : LedgerSeats'[s] = LedgerSeats[s]
      /\ Ledger!Cardinality(LedgerSeats[t]) < capacity[t]
  BY SeatsOfSlots, LedgerCounts
<1>2. LedgerSeats' = [LedgerSeats EXCEPT ![t] = LedgerSeats[t] \cup {u}]
  BY <1>1, SeatsOfSlots
<1>3. Ledger!Reserve(u, t)
  BY <1>1, <1>2 DEF Ledger!Reserve, LedgerSeats, Seated
<1> QED
  BY <1>3 DEF Ledger!Next

\* A seat less is a cancellation of the ledger.
LEMMA LedgerCancel ==
    ASSUME NEW u \in User, NEW t \in Slot,
           u \in Seated(t), Seated(t)' = Seated(t) \ {u},
           \A s \in Slot \ {t} : Seated(s)' = Seated(s),
           capacity' = capacity
    PROVE  Ledger!Next
<1>1. /\ LedgerSeats'[t] = LedgerSeats[t] \ {u} /\ u \in LedgerSeats[t]
      /\ \A s \in Slot \ {t} : LedgerSeats'[s] = LedgerSeats[s]
  BY SeatsOfSlots
<1>2. LedgerSeats' = [LedgerSeats EXCEPT ![t] = LedgerSeats[t] \ {u}]
  BY <1>1, SeatsOfSlots
<1>3. Ledger!Cancel(u, t)
  BY <1>1, <1>2 DEF Ledger!Cancel, LedgerSeats, Seated
<1> QED
  BY <1>3 DEF Ledger!Next

\* The end of an activity's slots is a withdrawal of the ledger.
LEMMA LedgerWithdraw ==
    ASSUME NEW S \in SUBSET Slot,
           capacity' = [s \in Slot |-> IF s \in S THEN 0 ELSE capacity[s]],
           \A s \in Slot : Seated(s)' = IF s \in S THEN {} ELSE Seated(s)
    PROVE  Ledger!Next
<1>1. LedgerSeats' = [s \in Slot |-> IF s \in S THEN {} ELSE LedgerSeats[s]]
  BY SeatsOfSlots
<1>2. Ledger!Withdraw(S)
  BY <1>1 DEF Ledger!Withdraw, LedgerSeats, Seated
<1> QED
  BY <1>2 DEF Ledger!Next

\* COMMIT is the one step that seats a user: it is Reserve.
LEMMA CommitReserves ==
    ASSUME IInv, NEW r \in Request, Commit(r)
    PROVE  Ledger!Next
<1>1. /\ pc[r] = "commit" /\ live' = live \cup {r} /\ UNCHANGED <<capacity, call>>
  BY DEF Commit
<1>2. PICK u \in User, t \in Slot : u = call[r].user /\ t = call[r].slot
  BY <1>1, AcceptedCall, CallsAssumption DEF IInv, RequestsKeepTheirPath, Reserving
<1>3. Cardinality(Booked(t)) < capacity[t] /\ capacity[t] \in Nat /\ ~AlreadyBooked(r)
  BY <1>1, <1>2 DEF IInv, SeatIsFree, CapacityReadIsCurrent, InTransaction, TypeOK
<1>4. u \notin Seated(t) /\ Cardinality(Seated(t)) < capacity[t]
  <2>1. u \notin Seated(t)
    BY <1>2, <1>3 DEF AlreadyBooked, Seated
  <2>2. /\ Cardinality(Seated(t)) <= Cardinality(Booked(t))
        /\ Cardinality(Seated(t)) \in Nat /\ Cardinality(Booked(t)) \in Nat
    BY SeatedIsBooked DEF IInv
  <2> QED
    BY <1>3, <2>1, <2>2
<1>5. Seated(t)' = Seated(t) \cup {u} /\ \A s \in Slot \ {t} : Seated(s)' = Seated(s)
  BY <1>1, <1>2 DEF Seated, Booked
<1> QED
  BY <1>1, <1>4, <1>5, LedgerReserve

\* removePlanning's DELETE is Cancel, or nothing when the entry has no slot or has gone.
LEMMA EraseCancels ==
    ASSUME IInv, NEW r \in Request, Erase(r)
    PROVE  Ledger!Next \/ UNCHANGED Ledger!vars
<1>1. PICK e : e = call[r].target
  OBVIOUS
<1>2. live' = live \ {e} /\ UNCHANGED <<capacity, call>>
  BY <1>1 DEF Erase
<1>3. CASE e \notin live \/ call[e].slot \notin Slot
  <2>1. \A s \in Slot : Seated(s)' = Seated(s)
    BY <1>2, <1>3 DEF Seated, Booked
  <2> QED
    BY <1>2, <2>1, LedgerStutter
<1>4. CASE e \in live /\ call[e].slot \in Slot
  <2>1. PICK u \in User, t \in Slot : u = call[e].user /\ t = call[e].slot
    BY <1>4, AcceptedCall DEF IInv, TypeOK, EntriesAreCommitted
  <2>2. u \in Seated(t) /\ Seated(t)' = Seated(t) \ {u}
    BY <1>2, <1>4, <2>1 DEF Seated, Booked, IInv, OneSeatPerUser
  <2>3. \A s \in Slot \ {t} : Seated(s)' = Seated(s)
    BY <1>2, <1>4, <2>1 DEF Seated, Booked
  <2> QED
    BY <1>2, <2>2, <2>3, LedgerCancel
<1> QED
  BY <1>3, <1>4

\* The cascade of a deletion is Withdraw: it empties the slots of the activity, and
\* takes no seat of another.
LEMMA CascadeWithdraws ==
    ASSUME IInv, NEW r \in Request, Cascade(r)
    PROVE  Ledger!Next
<1>1. PICK a : a = call[r].activity
  OBVIOUS
<1>2. PICK gone \in SUBSET Slot : gone = {s \in Slot : ActivityOf[s] = a}
  OBVIOUS
<1>3. /\ capacity' = [s \in Slot |-> IF s \in gone THEN 0 ELSE capacity[s]]
      /\ live' = live \ EntriesOf(a) /\ call' = call
  BY <1>1, <1>2 DEF Cascade
<1>4. \A s \in gone : Seated(s)' = {}
  BY <1>2, <1>3 DEF Seated, Booked, EntriesOf
<1>5. ASSUME NEW s \in Slot, s \notin gone
      PROVE  Seated(s)' = Seated(s)
  <2>1. \A e \in Booked(s) : e \notin EntriesOf(a)
    BY <1>2, <1>5, SlotAssumption DEF Booked, EntriesOf, IInv, EntriesReferToRows
  <2>2. Booked(s)' = Booked(s)
    BY <1>3, <2>1 DEF Booked
  <2> QED
    BY <1>3, <2>2 DEF Seated
<1> QED
  BY <1>3, <1>4, <1>5, LedgerWithdraw

\* An upsert, or an activity created with its slot, is Offer.
LEMMA UpsertOffers ==
    ASSUME IInv, NEW r \in Request, Upsert(r)
    PROVE  Ledger!Next \/ UNCHANGED Ledger!vars
<1> DEFINE s == Head(todo[r]).slot
           c == Head(todo[r]).capacity
<1>1. pc[r] = "upsert" /\ UNCHANGED <<live, call>>
  BY DEF Upsert
<1>2. s \in Slot /\ c \in Capacity
  <2>1. todo[r] \in Seq(Offers) /\ todo[r] # <<>>
    BY <1>1 DEF IInv, TypeOK
  <2>2. Head(todo[r]) \in Offers
    BY <2>1, HeadTailProperties
  <2> QED
    BY <2>2 DEF Offers
<1>3. \A x \in Slot : Seated(x)' = Seated(x)
  BY <1>1 DEF Seated, Booked
<1>4. capacity' = capacity \/ capacity' = [capacity EXCEPT ![s] = c]
  BY DEF Upsert
<1>5. CASE capacity' = [capacity EXCEPT ![s] = c]
  BY <1>2, <1>3, <1>5 DEF Ledger!Next, Ledger!Offer, Seated
<1> QED
  BY <1>3, <1>4, <1>5, LedgerStutter

\* The first slots of an activity are offers of the ledger.
LEMMA CreateOffers ==
    ASSUME IInv, NEW a \in Activity, CreateActivity(a)
    PROVE  Ledger!Next \/ UNCHANGED Ledger!vars
<1>1. \A x \in Slot : Seated(x)' = Seated(x)
  BY DEF CreateActivity, requests, Seated, Booked
<1>2. CASE capacity' = capacity
  BY <1>1, <1>2, LedgerStutter
<1>3. ASSUME NEW s \in Slot, NEW c \in Capacity, capacity' = [capacity EXCEPT ![s] = c]
      PROVE  Ledger!Next
  BY <1>1, <1>3 DEF Ledger!Next, Ledger!Offer, Seated
<1> QED
  BY <1>2, <1>3 DEF CreateActivity

\* Every step of the handlers, in any interleaving, is one step of the ledger or none.
LEMMA LedgerStep ==
    ASSUME IInv, [Next]_vars
    PROVE  [Ledger!Next]_(Ledger!vars)
<1>1. CASE \/ UNCHANGED vars
           \/ \E r \in Request : CheckPublished(r) \/ Connect(r) \/ SelectForUpdate(r)
                \/ RefuseSlot(r) \/ Count(r) \/ Insert(r) \/ ReadBack(r) \/ Find(r)
                \/ CheckOwner(r) \/ Delete(r) \/ Fail(r)
           \/ DeadlockAbort
           \/ \E a \in Activity : Moderate(a)
           \/ \E s \in Slot : TimePasses(s)
  <2>1. UNCHANGED <<capacity, live, call>>
    <3>1. CASE \E r \in Request : RefuseSlot(r) \/ Count(r) \/ Insert(r) \/ Fail(r)
      BY <3>1 DEF RefuseSlot, Count, Insert, Fail, Refuse, tables
    <3>2. CASE \E r \in Request : CheckPublished(r) \/ Connect(r) \/ SelectForUpdate(r)
                 \/ ReadBack(r) \/ Find(r) \/ CheckOwner(r) \/ Delete(r)
      BY <3>2 DEF CheckPublished, Connect, SelectForUpdate, ReadBack, Find, CheckOwner, Delete,
         tables
    <3>3. CASE UNCHANGED vars \/ DeadlockAbort \/ (\E a \in Activity : Moderate(a))
               \/ \E s \in Slot : TimePasses(s)
      BY <3>3 DEF vars, DeadlockAbort, Refuse, Moderate, TimePasses, tables, requests
    <3> QED
      BY <1>1, <3>1, <3>2, <3>3
  <2>2. \A s \in Slot : Seated(s)' = Seated(s)
    BY <2>1 DEF Seated, Booked
  <2> QED
    BY <2>1, <2>2, LedgerStutter
<1>2. ASSUME NEW r \in Request, NEW c \in Calls, Start(r, c)
      PROVE  UNCHANGED Ledger!vars
  <2>1. r \notin live /\ live \subseteq Request /\ call \in [Request -> Calls \cup {None}]
    BY <1>2 DEF Start, IInv, TypeOK, EntriesAreCommitted
  <2>2. UNCHANGED <<capacity, live>> /\ call' = [call EXCEPT ![r] = c]
    BY <1>2 DEF Start, tables
  <2>3. \A q \in live : call'[q] = call[q]
    BY <2>1, <2>2
  <2>4. \A s \in Slot : Seated(s)' = Seated(s)
    BY <2>2, <2>3 DEF Seated, Booked
  <2> QED
    BY <2>2, <2>4, LedgerStutter
<1>3. ASSUME NEW r \in Request, InsertFree(r)
      PROVE  UNCHANGED Ledger!vars
  <2>1. call[r].slot = NoSlot
    BY <1>3, CallsAssumption DEF InsertFree, IInv, RequestsKeepTheirPath
  <2>2. live' \in {live, live \cup {r}} /\ UNCHANGED <<capacity, call>>
    BY <1>3 DEF InsertFree
  <2>3. \A s \in Slot : Seated(s)' = Seated(s)
    BY <2>1, <2>2, SlotAssumption DEF Seated, Booked
  <2> QED
    BY <2>2, <2>3, LedgerStutter
<1>4. ASSUME NEW r \in Request, Commit(r) \/ Erase(r) \/ Cascade(r) \/ Upsert(r)
      PROVE  Ledger!Next \/ UNCHANGED Ledger!vars
  BY <1>4, CommitReserves, EraseCancels, CascadeWithdraws, UpsertOffers
<1>5. ASSUME NEW a \in Activity, CreateActivity(a)
      PROVE  Ledger!Next \/ UNCHANGED Ledger!vars
  BY <1>5, CreateOffers
<1> QED
  BY <1>1, <1>2, <1>3, <1>4, <1>5 DEF Next, Step

\* The planning endpoints are the seat ledger: behind a dozen statements, two locks,
\* deadlocks and lost connections, callers see atomic offers, reservations,
\* cancellations and withdrawals, and a reservation only while a seat is free.
THEOREM Refinement == Spec => ImplementsSeatLedger
<1>1. Init => Ledger!Init
  <2> SUFFICES ASSUME Init PROVE Ledger!Init
    OBVIOUS
  <2>1. \A s \in Slot : {call[r].user : r \in Booked(s)} = {}
    BY DEF Init, Booked
  <2> QED
    BY <2>1 DEF Init, Ledger!Init
<1>2. IInv /\ [Next]_vars => [Ledger!Next]_(Ledger!vars)
  BY LedgerStep
<1> QED
  BY <1>1, <1>2, Invariant, PTL DEF Spec, ImplementsSeatLedger, Ledger!Spec

-------------------------------------------------------------------------------
(* Every request is answered, but for the fairness *)

\* The statements during which a request has a connection of its own.
Holding == {"select", "count", "insert", "commit", "cascade"}

\* Connections and row locks are those of open transactions and of deletions under way.
HeldByOpen ==
    /\ conn = {r \in Request : pc[r] \in Holding}
    /\ \A s \in Slot : lock[s] # None => InTransaction(lock[s])
    /\ \A a \in Activity : dlock[a] # None =>
            pc[dlock[a]] = "cascade" /\ call[dlock[a]].activity = a

Unanswered(r) == pc[r] \notin {"idle", "done"}

\* The next statement of the handler needs a connection, or a row that another has.
Waits(r) ==
    \/ /\ pc[r] \in {"published?", "connect", "insertFree", "read", "find", "erase", "owner?",
                     "upsert", "delete"}
       /\ ~FreeConnection
    \/ pc[r] = "select" /\ lock[call[r].slot] # None
    \/ pc[r] = "insert" /\ ~AlreadyBooked(r) /\ dlock[call[r].activity] # None
    \/ pc[r] = "insertFree" /\ dlock[call[r].activity] # None
    \/ pc[r] = "upsert" /\ ~SlotWritable(Head(todo[r]).slot)
    \/ pc[r] = "delete" /\ (dlock[call[r].activity] # None \/ Referenced(call[r].activity))
    \/ pc[r] = "cascade" /\ \E s \in Slot : ActivityOf[s] = call[r].activity /\ lock[s] # None

\* While a request is unanswered, one does not wait, or two wait for each other in the one
\* way that DeadlockAbort resolves.
NoCircularWait ==
    (\E r \in Request : Unanswered(r)) =>
        \/ \E r \in Request : Unanswered(r) /\ ~Waits(r)
        \/ \E b, d \in Request : DeadLocked(b, d)

LEMMA HeldInit ==
    ASSUME Init
    PROVE  HeldByOpen
<1>1. /\ conn = {} /\ pc = [r \in Request |-> "idle"]
      /\ lock = [s \in Slot |-> None] /\ dlock = [a \in Activity |-> None]
  BY DEF Init
<1> QED
  BY <1>1 DEF HeldByOpen, Holding

\* A statement outside of transactions leaves connections and locks where they are.
LEMMA OutsideHeld ==
    ASSUME IInv, HeldByOpen, NEW r \in Request, NEW step,
           pc[r] \notin Holding, step \notin Holding, pc' = [pc EXCEPT ![r] = step],
           UNCHANGED locks, \A q \in Request \ {r} : call'[q] = call[q]
    PROVE  HeldByOpen'
<1>1. /\ pc \in [Request -> Steps] /\ UNCHANGED <<lock, dlock, conn>>
      /\ lock \in [Slot -> Request \cup {None}] /\ dlock \in [Activity -> Request \cup {None}]
  BY DEF IInv, TypeOK, locks
<1>2. {q \in Request : pc'[q] \in Holding} = {q \in Request : pc[q] \in Holding}
  BY <1>1
<1>3. \A q \in Request : pc[q] \in Holding => q # r /\ pc'[q] = pc[q] /\ call'[q] = call[q]
  BY <1>1
<1> QED
  BY <1>1, <1>2, <1>3 DEF HeldByOpen, InTransaction, Holding

\* A transaction that goes on keeps its connection and its locks, and may take another one.
LEMMA InsideHeld ==
    ASSUME IInv, HeldByOpen, NEW r \in Request, NEW step \in {"count", "insert", "commit"},
           pc[r] \in Holding \ {"cascade"}, pc' = [pc EXCEPT ![r] = step],
           UNCHANGED <<dlock, conn, call>>,
           lock' = lock \/ \E s \in Slot : lock' = [lock EXCEPT ![s] = r]
    PROVE  HeldByOpen'
<1>1. /\ pc \in [Request -> Steps] /\ lock \in [Slot -> Request \cup {None}]
      /\ dlock \in [Activity -> Request \cup {None}]
  BY DEF IInv, TypeOK
<1>2. {q \in Request : pc'[q] \in Holding} = {q \in Request : pc[q] \in Holding}
  BY <1>1 DEF Holding
<1>3. \A q \in Request : InTransaction(q) \/ q = r => pc'[q] \in {"count", "insert", "commit"}
  BY <1>1 DEF InTransaction
<1>4. \A s \in Slot : lock'[s] = lock[s] \/ lock'[s] = r
  BY <1>1
<1>5. \A q \in Request : pc[q] = "cascade" => pc'[q] = "cascade"
  BY <1>1
<1> QED
  BY <1>1, <1>2, <1>3, <1>4, <1>5 DEF HeldByOpen, InTransaction

\* The end of a transaction, or the failure of any request, gives back all it has.
LEMMA EndHeld ==
    ASSUME IInv, HeldByOpen, NEW r \in Request, NEW step,
           step \notin Holding, pc' = [pc EXCEPT ![r] = step],
           UNCHANGED call, EndTransaction(r),
           \/ dlock' = dlock /\ pc[r] # "cascade"
           \/ dlock' = [a \in Activity |-> IF dlock[a] = r THEN None ELSE dlock[a]]
    PROVE  HeldByOpen'
<1>1. /\ pc \in [Request -> Steps] /\ conn' = conn \ {r}
      /\ lock \in [Slot -> Request \cup {None}] /\ dlock \in [Activity -> Request \cup {None}]
      /\ lock' = [s \in Slot |-> IF lock[s] = r THEN None ELSE lock[s]]
  BY DEF IInv, TypeOK, EndTransaction
<1>2. {q \in Request : pc'[q] \in Holding} = {q \in Request : pc[q] \in Holding} \ {r}
  BY <1>1
<1>3. \A q \in Request \ {r} : pc'[q] = pc[q]
  BY <1>1
<1>4. \A s \in Slot : lock'[s] # None => lock'[s] = lock[s] /\ lock[s] \in Request \ {r}
  BY <1>1
<1>5. \A a \in Activity : dlock'[a] # None => dlock'[a] = dlock[a] /\ dlock[a] \in Request \ {r}
  BY <1>1 DEF HeldByOpen
<1> QED
  BY <1>1, <1>2, <1>3, <1>4, <1>5 DEF HeldByOpen, InTransaction

\* So does the end of a deletion.
LEMMA CascadeHeld ==
    ASSUME IInv, HeldByOpen, NEW d \in Request,
           pc[d] = "cascade", pc' = [pc EXCEPT ![d] = "done"], UNCHANGED <<lock, call>>,
           conn' = conn \ {d}, dlock' = [dlock EXCEPT ![call[d].activity] = None]
    PROVE  HeldByOpen'
<1>1. /\ pc \in [Request -> Steps] /\ lock \in [Slot -> Request \cup {None}]
      /\ dlock \in [Activity -> Request \cup {None}]
  BY DEF IInv, TypeOK
<1>2. {q \in Request : pc'[q] \in Holding} = {q \in Request : pc[q] \in Holding} \ {d}
  BY <1>1 DEF Holding
<1>3. \A q \in Request \ {d} : pc'[q] = pc[q]
  BY <1>1
<1>4. \A q \in Request : InTransaction(q) => q # d
  BY DEF InTransaction
<1>5. \A a \in Activity : dlock'[a] # None => dlock'[a] = dlock[a] /\ dlock[a] \in Request \ {d}
  BY <1>1 DEF HeldByOpen
<1> QED
  BY <1>1, <1>2, <1>3, <1>4, <1>5 DEF HeldByOpen, InTransaction

LEMMA StepHeld ==
    ASSUME IInv, HeldByOpen, NEW r \in Request, Step(r)
    PROVE  HeldByOpen'
<1>1. ASSUME CheckPublished(r) \/ InsertFree(r) \/ ReadBack(r) \/ Find(r) \/ Erase(r)
             \/ CheckOwner(r) \/ Upsert(r)
      PROVE  HeldByOpen'
  <2>1. /\ pc[r] \in {"published?", "insertFree", "read", "find", "erase", "owner?", "upsert"}
        /\ UNCHANGED <<locks, call>>
    BY <1>1 DEF CheckPublished, InsertFree, ReadBack, Find, Erase, CheckOwner, Upsert
  <2>2. \E step \in {"connect", "insertFree", "read", "erase", "upsert", "delete", "done"} :
            pc' = [pc EXCEPT ![r] = step]
    BY <1>1 DEF CheckPublished, InsertFree, ReadBack, Find, Erase, CheckOwner, Upsert, GoTo, Answer
  <2> QED
    BY <2>1, <2>2, OutsideHeld DEF Holding
<1>2. ASSUME Connect(r) PROVE HeldByOpen'
  <2>1. /\ pc[r] = "connect" /\ pc' = [pc EXCEPT ![r] = "select"] /\ conn' = conn \cup {r}
        /\ UNCHANGED <<lock, dlock, call>>
    BY <1>2 DEF Connect, GoTo
  <2>2. pc \in [Request -> Steps]
    BY DEF IInv, TypeOK
  <2>3. {q \in Request : pc'[q] \in Holding} = {q \in Request : pc[q] \in Holding} \cup {r}
    BY <2>1, <2>2 DEF Holding
  <2>4. \A q \in Request : pc[q] \in Holding => pc'[q] = pc[q]
    BY <2>1, <2>2 DEF Holding
  <2>5. \A s \in Slot : lock[s] # None => lock[s] \in Request
    BY DEF IInv, TypeOK
  <2>6. \A a \in Activity : dlock[a] # None => dlock[a] \in Request
    BY DEF IInv, TypeOK
  <2> QED
    BY <2>1, <2>3, <2>4, <2>5, <2>6 DEF HeldByOpen, InTransaction, Holding
<1>3. ASSUME SelectForUpdate(r) PROVE HeldByOpen'
  <2>1. /\ pc[r] = "select" /\ pc' = [pc EXCEPT ![r] = "count"]
        /\ UNCHANGED <<dlock, conn, call>> /\ \E s \in Slot : lock' = [lock EXCEPT ![s] = r]
    BY <1>3 DEF SelectForUpdate, Selecting, Acquire, GoTo
  <2> QED
    BY <2>1, InsideHeld DEF Holding
<1>4. ASSUME NEW code, Refuse(r, code), pc[r] # "cascade" PROVE HeldByOpen'
  BY <1>4, EndHeld DEF Refuse, Answer, Holding
<1>5. ASSUME Count(r) \/ Insert(r) PROVE HeldByOpen'
  <2>1. pc[r] \in {"count", "insert"}
    BY <1>5 DEF Count, Insert
  <2>2. \/ \E code : Refuse(r, code)
        \/ /\ UNCHANGED <<locks, call>>
           /\ \E step \in {"insert", "commit"} : pc' = [pc EXCEPT ![r] = step]
    BY <1>5 DEF Count, Insert, GoTo
  <2>3. CASE \E code : Refuse(r, code)
    BY <1>4, <2>1, <2>3
  <2>4. CASE UNCHANGED <<locks, call>> /\ \E step \in {"insert", "commit"} : pc' = [pc EXCEPT ![r] = step]
    BY <2>1, <2>4, InsideHeld DEF Holding, locks
  <2> QED
    BY <2>2, <2>3, <2>4
<1>6. ASSUME RefuseSlot(r) PROVE HeldByOpen'
  <2>1. pc[r] = "select" /\ \E code : Refuse(r, code)
    BY <1>6 DEF RefuseSlot, Selecting
  <2> QED
    BY <1>4, <2>1
<1>7. ASSUME Commit(r) PROVE HeldByOpen'
  BY <1>7, EndHeld DEF Commit, GoTo, Holding
<1>8. ASSUME Delete(r) PROVE HeldByOpen'
  <2>1. pc[r] = "delete" /\ UNCHANGED <<lock, call>>
    BY <1>8 DEF Delete
  <2>2. CASE Exists(call[r].activity)
    <3> DEFINE a == call[r].activity
    <3>1. /\ dlock' = [dlock EXCEPT ![a] = r] /\ conn' = conn \cup {r}
          /\ pc' = [pc EXCEPT ![r] = "cascade"]
      BY <1>8, <2>2 DEF Delete, GoTo
    <3>2. pc \in [Request -> Steps] /\ dlock \in [Activity -> Request \cup {None}]
          /\ lock \in [Slot -> Request \cup {None}]
      BY DEF IInv, TypeOK
    <3>3. {q \in Request : pc'[q] \in Holding} = {q \in Request : pc[q] \in Holding} \cup {r}
      BY <2>1, <3>1, <3>2 DEF Holding
    <3>4. \A q \in Request : pc[q] \in Holding => pc'[q] = pc[q]
      BY <2>1, <3>1, <3>2 DEF Holding
    <3>5. \A b \in Activity : (b = a /\ dlock'[b] = r) \/ dlock'[b] = dlock[b]
      BY <3>1, <3>2
    <3>6. pc'[r] = "cascade"
      BY <3>1, <3>2
    <3> QED
      BY <2>1, <3>1, <3>2, <3>3, <3>4, <3>5, <3>6 DEF HeldByOpen, InTransaction, Holding
  <2>3. CASE ~Exists(call[r].activity)
    <3>1. UNCHANGED locks /\ pc' = [pc EXCEPT ![r] = "done"]
      BY <1>8, <2>1, <2>3 DEF Delete, Answer, locks
    <3> QED
      BY <2>1, <3>1, OutsideHeld DEF Holding
  <2> QED
    BY <2>2, <2>3
<1>9. ASSUME Cascade(r) PROVE HeldByOpen'
  BY <1>9, CascadeHeld DEF Cascade, Answer
<1> QED
  BY <1>1, <1>2, <1>3, <1>5, <1>6, <1>7, <1>8, <1>9 DEF Step

\* Every connection and lock that is held is given back with its transaction or deletion.
LEMMA HeldStep == IInv /\ HeldByOpen /\ [Next]_vars => HeldByOpen'
<1> SUFFICES ASSUME IInv, HeldByOpen, [Next]_vars PROVE HeldByOpen'
  OBVIOUS
<1>1. ASSUME NEW r \in Request, NEW c \in Calls, Start(r, c) PROVE HeldByOpen'
  <2>1. /\ pc[r] = "idle" /\ pc' = [pc EXCEPT ![r] = FirstStep(c.op)] /\ UNCHANGED locks
        /\ call' = [call EXCEPT ![r] = c]
    BY <1>1 DEF Start, GoTo
  <2>2. FirstStep(c.op) \notin Holding
    BY CallsAssumption DEF FirstStep, Holding, Call, Ops
  <2>3. \A q \in Request \ {r} : call'[q] = call[q]
    BY <2>1 DEF IInv, TypeOK
  <2> QED
    BY <2>1, <2>2, <2>3, OutsideHeld DEF Holding
<1>2. ASSUME NEW r \in Request, Fail(r) PROVE HeldByOpen'
  BY <1>2, EndHeld DEF Fail, Answer, Holding
<1>3. CASE DeadlockAbort
  <2>1. PICK b \in Request, d \in Request :
          /\ pc[b] = "insert" /\ pc[d] = "cascade"
          /\ \/ Refuse(b, "FAILED")
             \/ /\ Answer(d, "FAILED") /\ UNCHANGED <<lock, call>>
                /\ dlock' = [dlock EXCEPT ![call[d].activity] = None] /\ conn' = conn \ {d}
    BY <1>3 DEF DeadlockAbort, DeadLocked
  <2>2. CASE Refuse(b, "FAILED")
    BY <2>1, <2>2, EndHeld DEF Refuse, Answer, Holding
  <2>3. CASE ~Refuse(b, "FAILED")
    BY <2>1, <2>3, CascadeHeld DEF Answer
  <2> QED
    BY <2>2, <2>3
<1>4. CASE UNCHANGED <<locks, requests>>
  BY <1>4 DEF locks, requests, HeldByOpen, InTransaction
<1>5. ASSUME NEW a \in Activity, CreateActivity(a) \/ Moderate(a) PROVE HeldByOpen'
  BY <1>4, <1>5 DEF CreateActivity, Moderate
<1>6. ASSUME NEW s \in Slot, TimePasses(s) PROVE HeldByOpen'
  BY <1>4, <1>6 DEF TimePasses
<1> QED
  BY <1>1, <1>2, <1>3, <1>4, <1>5, <1>6, StepHeld DEF Next, vars

\* A reservation past its SELECT waits at most for a deletion that waits for it.
LEMMA TransactionGoesOn ==
    ASSUME HeldByOpen, IInv, NEW r \in Request, InTransaction(r)
    PROVE  \/ Unanswered(r) /\ ~Waits(r)
           \/ \E d \in Request : DeadLocked(r, d)
<1>1. Unanswered(r) /\ call[r] \in Calls
  BY DEF InTransaction, Unanswered, IInv, RequestsKeepTheirPath
<1>2. CASE Waits(r)
  <2>1. pc[r] = "insert" /\ ~AlreadyBooked(r) /\ dlock[call[r].activity] # None
    BY <1>2 DEF Waits, InTransaction
  <2>2. call[r].activity \in Activity
    BY <1>1, CallsAssumption DEF Call
  <2> QED
    BY <2>1, <2>2 DEF HeldByOpen, IInv, TypeOK, DeadLocked
<1> QED
  BY <1>1, <1>2

\* Whatever reservations, slot updates and deletions are under way, a request that is
\* unanswered waits at most for one that does not wait, or PostgreSQL has a deadlock of two to
\* break (planning.service.ts bookSlot, activity.service.ts deleteActivity).
THEOREM NobodyWaitsForAll == Spec => []NoCircularWait
<1>1. ASSUME IInv, HeldByOpen PROVE NoCircularWait
  <2> DEFINE Moves == \/ \E q \in Request : Unanswered(q) /\ ~Waits(q)
                      \/ \E b, d \in Request : DeadLocked(b, d)
  <2> SUFFICES ASSUME NEW r \in Request, Unanswered(r) PROVE Moves
    BY DEF NoCircularWait
  <2>1. ASSUME NEW q \in Request, InTransaction(q) PROVE Moves
    BY <1>1, <2>1, TransactionGoesOn
  <2>2. ASSUME NEW s \in Slot, lock[s] # None PROVE Moves
    BY <1>1, <2>1, <2>2 DEF HeldByOpen, IInv, TypeOK
  <2>3. ASSUME NEW q \in conn PROVE Moves
    <3>1. q \in Request /\ pc[q] \in Holding
      BY <1>1, <2>3 DEF HeldByOpen
    <3>2. CASE pc[q] = "select" /\ Waits(q)
      <4>1. call[q].slot \in Slot /\ lock[call[q].slot] # None
        BY <1>1, <3>1, <3>2, CallsAssumption DEF Waits, IInv, RequestsKeepTheirPath, Reserving
      <4> QED
        BY <2>2, <4>1
    <3>3. CASE pc[q] = "cascade" /\ Waits(q)
      BY <2>2, <3>3 DEF Waits
    <3> QED
      BY <2>1, <3>1, <3>2, <3>3 DEF Holding, InTransaction, Unanswered
  <2>4. CASE conn = {}
    <3>1. \A q \in Request : pc[q] \notin Holding
      BY <1>1, <2>4 DEF HeldByOpen
    <3>2. /\ \A s \in Slot : lock[s] = None
          /\ \A a \in Activity : dlock[a] = None
      BY <1>1, <3>1 DEF HeldByOpen, IInv, TypeOK, InTransaction, Holding
    <3>3. FreeConnection
      BY <2>4, PoolAssumption, FS_EmptySet DEF FreeConnection
    <3>4. call[r] \in Calls /\ call[r].activity \in Activity
      BY <1>1, CallsAssumption DEF Unanswered, IInv, RequestsKeepTheirPath, Call
    <3>5. pc[r] = "upsert" => Head(todo[r]).slot \in Slot
      <4> SUFFICES ASSUME pc[r] = "upsert" PROVE Head(todo[r]) \in Offers
        BY DEF Offers
      <4> QED
        BY <1>1, HeadTailProperties DEF IInv, TypeOK
    <3>6. ~Waits(r)
      BY <3>1, <3>2, <3>3, <3>4, <3>5, SlotAssumption DEF Waits, Referenced, SlotWritable, Holding
    <3> QED
      BY <3>6
  <2> QED
    BY <2>3, <2>4
<1> QED
  BY <1>1, HeldInit, HeldStep, Invariant, PTL DEF Spec

\* The place of a statement in its handler.
Rank(step) ==
    CASE step = "idle" -> 0
      [] step \in {"published?", "find", "owner?"} -> 1
      [] step \in {"connect", "insertFree", "erase", "upsert", "delete"} -> 2
      [] step \in {"select", "cascade"} -> 3
      [] step = "count" -> 4
      [] step = "insert" -> 5
      [] step = "commit" -> 6
      [] step = "read" -> 7
      [] step = "done" -> 8

\* The handler is at a later statement, or in the loop of createSlots with fewer offers left.
Later(r) ==
    \/ Rank(pc'[r]) > Rank(pc[r])
    \/ pc'[r] = pc[r] /\ Len(todo'[r]) < Len(todo[r])

\* A statement takes its own handler to a later place, and no other handler back.
HandlersAdvance ==
    [][\A r \in Request :
        /\ Step(r) => Later(r)
        /\ Later(r) \/ (pc'[r] = pc[r] /\ todo'[r] = todo[r])]_vars

LEMMA RankTypes ==
    /\ Rank("idle") = 0 /\ Rank("done") = 8
    /\ \A step \in Steps \ {"idle"} : Rank(step) \in 1 .. 8
    /\ \A step \in Steps \ {"done"} : Rank(step) \in 0 .. 7
  BY DEF Rank, Steps

\* The answer is later than any statement, and any statement than the arrival.
LEMMA EndsAreFar ==
    ASSUME NEW r \in Request, pc[r] \in Steps, pc'[r] \in Steps,
           \/ pc[r] # "done" /\ pc'[r] = "done"
           \/ pc[r] = "idle" /\ pc'[r] # "idle"
    PROVE  Later(r)
<1>1. Rank(pc'[r]) > Rank(pc[r])
  BY RankTypes
<1> QED
  BY <1>1 DEF Later

\* A statement leads to a later one of its handler, or to the next offer.
LEMMA StatementAdvances ==
    ASSUME IInv, NEW r \in Request, Step(r)
    PROVE  /\ Later(r)
           /\ \A q \in Request \ {r} : pc'[q] = pc[q] /\ todo'[q] = todo[q]
<1>1. /\ pc \in [Request -> Steps] /\ todo \in [Request -> Seq(Offers)]
      /\ pc' \in [Request -> Steps]
  BY StepType DEF IInv, TypeOK
<1>2. CASE CheckPublished(r) \/ CheckOwner(r) \/ Find(r)
  <2>1. /\ pc[r] \in {"published?", "owner?", "find"} /\ todo' = todo
        /\ \E step \in {"connect", "insertFree", "upsert", "delete", "erase", "done"} :
                pc' = [pc EXCEPT ![r] = step]
    BY <1>2 DEF CheckPublished, CheckOwner, Find, GoTo, Answer
  <2>2. pc'[r] \in {"connect", "insertFree", "upsert", "delete", "erase", "done"}
    BY <1>1, <2>1
  <2>3. Rank(pc'[r]) > Rank(pc[r])
    BY <2>1, <2>2 DEF Rank
  <2> QED
    BY <1>1, <2>1, <2>3 DEF Later
<1>3. CASE Connect(r) \/ SelectForUpdate(r) \/ Commit(r)
  <2>1. /\ \/ pc[r] = "connect" /\ pc' = [pc EXCEPT ![r] = "select"]
           \/ pc[r] = "select" /\ pc' = [pc EXCEPT ![r] = "count"]
           \/ pc[r] = "commit" /\ pc' = [pc EXCEPT ![r] = "read"]
        /\ todo' = todo
    BY <1>3 DEF Connect, SelectForUpdate, Selecting, Commit, GoTo
  <2>2. Rank(pc'[r]) > Rank(pc[r])
    BY <1>1, <2>1 DEF Rank
  <2> QED
    BY <1>1, <2>1, <2>2 DEF Later
<1>4. CASE RefuseSlot(r) \/ ReadBack(r) \/ Erase(r) \/ Cascade(r)
  <2>1. pc[r] # "done" /\ pc' = [pc EXCEPT ![r] = "done"] /\ todo' = todo
    BY <1>4 DEF RefuseSlot, Selecting, Refuse, ReadBack, Erase, Cascade, Answer
  <2> QED
    BY <1>1, <2>1, EndsAreFar
<1>5. CASE Count(r) \/ Insert(r) \/ InsertFree(r) \/ Delete(r)
  <2>1. /\ \/ pc[r] = "count" /\ pc' = [pc EXCEPT ![r] = "insert"]
           \/ pc[r] = "insert" /\ pc' = [pc EXCEPT ![r] = "commit"]
           \/ pc[r] = "insertFree" /\ pc' = [pc EXCEPT ![r] = "read"]
           \/ pc[r] = "delete" /\ pc' = [pc EXCEPT ![r] = "cascade"]
           \/ pc[r] # "done" /\ pc' = [pc EXCEPT ![r] = "done"]
        /\ todo' = todo
    BY <1>5 DEF Count, Insert, InsertFree, Delete, Refuse, GoTo, Answer
  <2>2. \/ Rank(pc'[r]) > Rank(pc[r])
        \/ pc[r] # "done" /\ pc'[r] = "done"
    BY <1>1, <2>1 DEF Rank
  <2> QED
    BY <1>1, <2>1, <2>2, EndsAreFar DEF Later
<1>6. CASE Upsert(r)
  <2>1. /\ pc[r] = "upsert"
        /\ \/ pc' = [pc EXCEPT ![r] = "done"] /\ todo' = [todo EXCEPT ![r] = Tail(@)]
           \/ pc' = [pc EXCEPT ![r] = "upsert"] /\ todo' = [todo EXCEPT ![r] = Tail(@)]
           \/ pc' = [pc EXCEPT ![r] = "done"] /\ todo' = todo
    BY <1>6 DEF Upsert, GoTo, Answer
  <2>2. todo[r] \in Seq(Offers) /\ todo[r] # <<>>
    BY <1>1, <2>1 DEF IInv, TypeOK
  <2>3. Len(Tail(todo[r])) < Len(todo[r])
    BY <2>2, HeadTailProperties
  <2>4. CASE pc'[r] = "done"
    BY <1>1, <2>1, <2>4, EndsAreFar
  <2>5. CASE pc'[r] # "done"
    BY <1>1, <2>1, <2>3, <2>5 DEF Later
  <2> QED
    BY <1>1, <2>1, <2>4, <2>5
<1> QED
  BY <1>2, <1>3, <1>4, <1>5, <1>6 DEF Step

\* No handler loops for ever: a statement leads to a later one or to the next of the offers of
\* createSlots, and nothing takes a handler back, so that every request is answered once the
\* server has run a bounded number of statements (slot.service.ts createSlots).
THEOREM EveryHandlerEnds == Spec => HandlersAdvance
<1>1. ASSUME IInv, [Next]_vars
      PROVE  [\A r \in Request :
                /\ Step(r) => Later(r)
                /\ Later(r) \/ (pc'[r] = pc[r] /\ todo'[r] = todo[r])]_vars
  <2> SUFFICES ASSUME NEW r \in Request
               PROVE  Later(r) \/ (pc'[r] = pc[r] /\ todo'[r] = todo[r])
    BY <1>1, StatementAdvances
  <2>1. /\ pc \in [Request -> Steps] /\ todo \in [Request -> Seq(Offers)]
        /\ pc'[r] \in Steps
    BY <1>1, InvariantStep DEF IInv, TypeOK
  <2>2. ASSUME NEW q \in Request, Step(q) PROVE Later(r) \/ (pc'[r] = pc[r] /\ todo'[r] = todo[r])
    BY <1>1, <2>2, StatementAdvances
  <2>3. ASSUME NEW q \in Request, NEW c \in Calls, Start(q, c)
        PROVE  Later(r) \/ (pc'[r] = pc[r] /\ todo'[r] = todo[r])
    <3>1. /\ pc[q] = "idle" /\ pc' = [pc EXCEPT ![q] = FirstStep(c.op)]
          /\ todo' = [todo EXCEPT ![q] = c.offers]
      BY <2>3 DEF Start, GoTo
    <3>2. FirstStep(c.op) # "idle"
      BY CallsAssumption DEF FirstStep, Call, Ops
    <3> QED
      BY <2>1, <3>1, <3>2, EndsAreFar
  <2>4. ASSUME NEW q \in Request, pc[q] # "done", pc' = [pc EXCEPT ![q] = "done"], todo' = todo
        PROVE  Later(r) \/ (pc'[r] = pc[r] /\ todo'[r] = todo[r])
    BY <2>1, <2>4, EndsAreFar
  <2>5. ASSUME NEW q \in Request, Fail(q)
        PROVE  Later(r) \/ (pc'[r] = pc[r] /\ todo'[r] = todo[r])
    BY <2>4, <2>5 DEF Fail, Answer
  <2>6. CASE DeadlockAbort
    BY <2>4, <2>6 DEF DeadlockAbort, DeadLocked, Refuse, Answer
  <2>7. CASE UNCHANGED requests
    BY <2>7 DEF requests
  <2> QED
    BY <1>1, <2>2, <2>3, <2>5, <2>6, <2>7 DEF Next, CreateActivity, Moderate, TimePasses, vars
<1> QED
  BY <1>1, Invariant, PTL DEF Spec, HandlersAdvance

===============================================================================
