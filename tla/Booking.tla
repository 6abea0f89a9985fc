-------------------------------- MODULE Booking --------------------------------
(***************************************************************************)
(* Reservations of slots and free planning entries (planning.service.ts),  *)
(* slots (slot.service.ts) and the creation and deletion of the activities *)
(* they belong to (activity.service.ts), over PostgreSQL at READ COMMITTED.*)
(*                                                                         *)
(* A request is a process: each action is one SQL statement of its handler *)
(* with the TypeScript that runs up to the next await.  A call made        *)
(* through `pool` borrows a connection for its statement; bookSlot checks  *)
(* one out until its `finally`.  The row locks that PostgreSQL      *)
(* holds to the end of a transaction are explicit: lock (FOR UPDATE on a   *)
(* slot), dlock (the activity row under DELETE) and, for a reservation     *)
(* that is inserted and not committed, the KEY SHARE its foreign key takes *)
(* on the activity (pc = "commit").                                        *)
(***************************************************************************)
EXTENDS Naturals, Sequences, FiniteSets

CONSTANTS
    Request,        \* requests the server ever receives (bounds the model)
    User, Admin,    \* accounts, and those whose token carries the admin role
    Activity, Slot, \* ids of the activities and of the slots
    ActivityOf,     \* [Slot -> Activity], activity_slots.activity_id
    Owner,          \* [Activity -> User], activities.organizer_id
    Capacity,       \* capacities an organizer may send (1..10000 in the schema)
    Calls,          \* the calls the clients make, a subset of Call
    PoolSize,       \* size of the connection pool
    None, NoSlot

Statuses == {"absent", "published", "pending", "deleted"}
Steps == {"idle", "published?", "connect", "select", "count", "insert", "commit",
          "insertFree", "read", "find", "erase", "owner?", "upsert", "delete",
          "cascade", "done"}
Replies == {"", "CREATED", "EMPTY", "DELETED", "NOT_FOUND", "FORBIDDEN", "SLOT_NOT_FOUND",
            "SLOT_MISMATCH", "SLOT_IN_PAST", "SLOT_FULL", "ALREADY_BOOKED", "FAILED"}
Ops == {"book", "free", "remove", "slots", "delete"}

\* One element of the `slots` array of POST /activities/:id/slots.
Offers == [slot : Slot, capacity : Capacity]

\* A parsed and authenticated request: its user, and its operation's arguments.
Call == [op : Ops, user : User, activity : Activity, slot : Slot \cup {NoSlot},
         target : Request \cup {None}, offers : Seq(Offers)]

ASSUME RequestAssumption == IsFiniteSet(Request) /\ None \notin Request
ASSUME SlotAssumption ==
    NoSlot \notin Slot /\ ActivityOf \in [Slot -> Activity] /\ Owner \in [Activity -> User]
ASSUME CapacityAssumption == Capacity \subseteq Nat \ {0}
ASSUME PoolAssumption == PoolSize \in Nat \ {0}
\* What the zod schemas let through: a reservation names a slot, a free entry
\* none, and the slots of a "slots" call are those of its activity.
ASSUME CallsAssumption ==
    /\ Calls \subseteq Call
    /\ \A c \in Calls :
        /\ c.op = "book" => c.slot \in Slot
        /\ c.op # "book" => c.slot = NoSlot
        /\ c.op = "remove" => c.target \in Request
        /\ c.op = "slots" => c.offers # <<>>
        /\ \A i \in DOMAIN c.offers : ActivityOf[c.offers[i].slot] = c.activity

VARIABLES
    \* tables
    status,     \* [Activity -> Statuses]: the row, "absent" and "deleted" being no row
    capacity,   \* [Slot -> Nat]: activity_slots.capacity, 0 while there is no row
    live,       \* committed rows of planning_entries, each named by the request that made it
    past,       \* slots whose starts_at is behind the clock
    \* row locks and connections
    lock,       \* [Slot -> the transaction that holds the row FOR UPDATE]
    dlock,      \* [Activity -> the DELETE that holds the row]
    conn,       \* transactions that hold a connection of the pool
    \* requests
    pc, call, todo, seen, reply

tables == <<status, capacity, live, past>>
locks == <<lock, dlock, conn>>
requests == <<pc, call, todo, seen, reply>>
vars == <<tables, locks, requests>>

Exists(a) == status[a] \in {"published", "pending"}

\* SELECT ... FROM planning_entries WHERE slot_id = s
Booked(s) == {r \in live : call[r].slot = s}

\* The pool serves a query: some connection is not checked out.
FreeConnection == Cardinality(conn) < PoolSize

\* The array of createSlots is on its last element.
LastOffer(r) == Len(todo[r]) = 1

GoTo(r, step) == pc' = [pc EXCEPT ![r] = step] /\ UNCHANGED reply

Answer(r, code) ==
    /\ pc' = [pc EXCEPT ![r] = "done"]
    /\ reply' = [reply EXCEPT ![r] = code]

\* Fault: the `finally` that releases the connection is missing.
EndWithoutRelease(r) ==
    /\ lock' = [s \in Slot |-> IF lock[s] = r THEN None ELSE lock[s]]
    /\ seen' = [seen EXCEPT ![r] = 0]
    /\ UNCHANGED conn

\* The end of a transaction gives back its row lock and (finally) its connection.
EndTransaction(r) ==
    /\ lock' = [s \in Slot |-> IF lock[s] = r THEN None ELSE lock[s]]
    /\ conn' = conn \ {r}
    /\ seen' = [seen EXCEPT ![r] = 0]

\* bookSlot's catch and finally: ROLLBACK, release, and the error goes to the client.
Refuse(r, code) ==
    /\ Answer(r, code)
    /\ EndTransaction(r)
    /\ UNCHANGED <<tables, dlock, call, todo>>

-------------------------------------------------------------------------------
Init ==
    /\ status = [a \in Activity |-> "absent"]
    /\ capacity = [s \in Slot |-> 0]
    /\ live = {}
    /\ past = {}
    /\ lock = [s \in Slot |-> None]
    /\ dlock = [a \in Activity |-> None]
    /\ conn = {}
    /\ pc = [r \in Request |-> "idle"]
    /\ call = [r \in Request |-> None]
    /\ todo = [r \in Request |-> <<>>]
    /\ seen = [r \in Request |-> 0]
    /\ reply = [r \in Request |-> ""]

FirstStep(op) ==
    CASE op \in {"book", "free"} -> "published?"
      [] op = "remove" -> "find"
      [] op \in {"slots", "delete"} -> "owner?"

\* A request arrives.  The schema refuses slots that start in the past.
Start(r, c) ==
    /\ pc[r] = "idle"
    /\ \A i \in DOMAIN c.offers : c.offers[i].slot \notin past
    /\ call' = [call EXCEPT ![r] = c]
    /\ todo' = [todo EXCEPT ![r] = c.offers]
    /\ GoTo(r, FirstStep(c.op))
    /\ UNCHANGED <<tables, locks, seen>>

(***************************************************************************)
(* POST /planning                                                          *)
(***************************************************************************)
\* addToPlanning: the activity must be published, checked before any transaction.
CheckPublished(r) ==
    /\ pc[r] = "published?"
    /\ FreeConnection
    /\ IF status[call[r].activity] = "published"
       THEN GoTo(r, IF call[r].op = "book" THEN "connect" ELSE "insertFree")
       ELSE Answer(r, "NOT_FOUND")
    /\ UNCHANGED <<tables, locks, call, todo, seen>>

\* bookSlot: pool.connect() and BEGIN.
Connect(r) ==
    /\ pc[r] = "connect"
    /\ FreeConnection
    /\ conn' = conn \cup {r}
    /\ GoTo(r, "select")
    /\ UNCHANGED <<tables, lock, dlock, call, todo, seen>>

\* Fault: a plain SELECT takes no row lock.
SelectOnly(r, s) == UNCHANGED lock

Acquire(r, s) == lock' = [lock EXCEPT ![s] = r]

\* Fault: SLOT_MISMATCH is not checked.
AnySlot(r, s) == TRUE

SlotOfActivity(r, s) == ActivityOf[s] = call[r].activity

Selecting(r, s) == pc[r] = "select" /\ s = call[r].slot /\ lock[s] = None

\* bookSlot: SELECT ... FOR UPDATE waits for the row, and takes it when the
\* slot exists, is one of the activity's and has not started.
SelectForUpdate(r) ==
    \E s \in Slot :
        /\ Selecting(r, s)
        /\ capacity[s] > 0
        /\ SlotOfActivity(r, s)
        /\ s \notin past
        /\ Acquire(r, s)
        /\ seen' = [seen EXCEPT ![r] = capacity[s]]
        /\ GoTo(r, "count")
        /\ UNCHANGED <<tables, dlock, conn, call, todo>>

\* ... and otherwise the three refusals, the first that applies.
RefuseSlot(r) ==
    \E s \in Slot :
        /\ Selecting(r, s)
        /\ \/ capacity[s] = 0 /\ Refuse(r, "SLOT_NOT_FOUND")
           \/ capacity[s] > 0 /\ ~SlotOfActivity(r, s) /\ Refuse(r, "SLOT_MISMATCH")
           \/ /\ capacity[s] > 0 /\ SlotOfActivity(r, s) /\ s \in past
              /\ Refuse(r, "SLOT_IN_PAST")

\* Fault: one seat too many.
FullLate(r) == Cardinality(Booked(call[r].slot)) > seen[r]

Full(r) == Cardinality(Booked(call[r].slot)) >= seen[r]

\* bookSlot: SELECT COUNT(*), a new statement and so a new snapshot, against
\* the capacity read with the lock.
Count(r) ==
    /\ pc[r] = "count"
    /\ IF Full(r)
       THEN Refuse(r, "SLOT_FULL")
       ELSE GoTo(r, "insert") /\ UNCHANGED <<tables, locks, call, todo, seen>>

\* Fault: idx_planning_user_slot is dropped.
NoUniqueIndex(r) == FALSE

AlreadyBooked(r) == \E q \in Booked(call[r].slot) : call[q].user = call[r].user

\* bookSlot: INSERT.  The unique index (user_id, slot_id) answers at once; the
\* foreign key then takes KEY SHARE on the activity, waiting for a DELETE on it.
Insert(r) ==
    /\ pc[r] = "insert"
    /\ \/ AlreadyBooked(r) /\ Refuse(r, "ALREADY_BOOKED")
       \/ /\ ~AlreadyBooked(r)
          /\ dlock[call[r].activity] = None
          /\ GoTo(r, "commit")
          /\ UNCHANGED <<tables, locks, call, todo, seen>>

\* bookSlot: COMMIT, and the connection goes back to the pool.
Commit(r) ==
    /\ pc[r] = "commit"
    /\ live' = live \cup {r}
    /\ EndTransaction(r)
    /\ GoTo(r, "read")
    /\ UNCHANGED <<status, capacity, past, dlock, call, todo>>

\* insertFreeEntry: one INSERT; it waits for a DELETE of the activity and then
\* fails on the foreign key.
InsertFree(r) ==
    /\ pc[r] = "insertFree"
    /\ FreeConnection
    /\ dlock[call[r].activity] = None
    /\ IF Exists(call[r].activity)
       THEN live' = live \cup {r} /\ GoTo(r, "read")
       ELSE UNCHANGED live /\ Answer(r, "FAILED")
    /\ UNCHANGED <<status, capacity, past, locks, call, todo, seen>>

\* addToPlanning: the entry is read back.  Nothing holds it any more: when it
\* has gone, rows[0] is undefined and the body of the 201 is empty.
ReadBack(r) ==
    /\ pc[r] = "read"
    /\ FreeConnection
    /\ Answer(r, IF r \in live THEN "CREATED" ELSE "EMPTY")
    /\ UNCHANGED <<tables, locks, call, todo, seen>>

(***************************************************************************)
(* DELETE /planning/:id                                                    *)
(***************************************************************************)
\* Fault: the owner of the entry is not compared.
AnyEntry(r) == TRUE

OwnEntry(r) == call[call[r].target].user = call[r].user

\* removePlanning: SELECT user_id.
Find(r) ==
    /\ pc[r] = "find"
    /\ FreeConnection
    /\ IF call[r].target \notin live THEN Answer(r, "NOT_FOUND")
       ELSE IF ~OwnEntry(r) THEN Answer(r, "FORBIDDEN")
       ELSE GoTo(r, "erase")
    /\ UNCHANGED <<tables, locks, call, todo, seen>>

\* removePlanning: DELETE by id, which may by now remove nothing.
Erase(r) ==
    /\ pc[r] = "erase"
    /\ FreeConnection
    /\ live' = live \ {call[r].target}
    /\ Answer(r, "DELETED")
    /\ UNCHANGED <<status, capacity, past, locks, call, todo, seen>>

(***************************************************************************)
(* POST /activities/:id/slots and DELETE /activities/:id                   *)
(***************************************************************************)
\* Both handlers begin with the row's existence and its organizer.
CheckOwner(r) ==
    /\ pc[r] = "owner?"
    /\ FreeConnection
    /\ LET c == call[r] IN
       IF ~Exists(c.activity) THEN Answer(r, "NOT_FOUND")
       ELSE IF Owner[c.activity] # c.user /\ c.user \notin Admin THEN Answer(r, "FORBIDDEN")
       ELSE GoTo(r, IF c.op = "slots" THEN "upsert" ELSE "delete")
    /\ UNCHANGED <<tables, locks, call, todo, seen>>

\* The statement behind one iteration of createSlots: a new row checks its
\* foreign key, an existing one waits for its lock.
SlotWritable(s) ==
    IF capacity[s] = 0 THEN dlock[ActivityOf[s]] = None ELSE lock[s] = None

\* createSlots: INSERT ... ON CONFLICT (activity_id, starts_at) DO UPDATE SET
\* capacity, each iteration committed on its own.
Upsert(r) ==
    /\ pc[r] = "upsert"
    /\ FreeConnection
    /\ LET s == Head(todo[r]).slot IN
       /\ SlotWritable(s)
       /\ IF Exists(ActivityOf[s])
          THEN /\ capacity' = [capacity EXCEPT ![s] = Head(todo[r]).capacity]
               /\ todo' = [todo EXCEPT ![r] = Tail(@)]
               /\ IF LastOffer(r) THEN Answer(r, "CREATED") ELSE GoTo(r, "upsert")
          ELSE /\ Answer(r, "FAILED")
               /\ UNCHANGED <<capacity, todo>>
    /\ UNCHANGED <<status, live, past, locks, call, seen>>

\* Another transaction references the row of the activity.
Referenced(a) == \E q \in Request : pc[q] = "commit" /\ call[q].activity = a

\* deleteActivity: DELETE FROM activities takes the row when nobody else has it.
Delete(r) ==
    /\ pc[r] = "delete"
    /\ FreeConnection
    /\ LET a == call[r].activity IN
       /\ dlock[a] = None
       /\ ~Referenced(a)
       /\ IF Exists(a)
          THEN /\ dlock' = [dlock EXCEPT ![a] = r]
               /\ conn' = conn \cup {r}
               /\ GoTo(r, "cascade")
          ELSE UNCHANGED <<dlock, conn>> /\ Answer(r, "DELETED")
    /\ UNCHANGED <<tables, lock, call, todo, seen>>

\* Fault: planning_entries does not cascade.
NoEntries(a) == {}

\* The entries that ON DELETE CASCADE removes, by activity_id or by slot_id.
EntriesOf(a) ==
    {q \in live : call[q].activity = a \/ \E s \in Slot : call[q].slot = s /\ ActivityOf[s] = a}

\* ON DELETE CASCADE: the slots of the activity, waiting for their locks, and
\* their planning entries.
Cascade(r) ==
    /\ pc[r] = "cascade"
    /\ LET a == call[r].activity
           gone == {s \in Slot : ActivityOf[s] = a}
       IN
       /\ \A s \in gone : lock[s] = None
       /\ status' = [status EXCEPT ![a] = "deleted"]
       /\ capacity' = [s \in Slot |-> IF s \in gone THEN 0 ELSE capacity[s]]
       /\ live' = live \ EntriesOf(a)
       /\ dlock' = [dlock EXCEPT ![a] = None]
    /\ conn' = conn \ {r}
    /\ Answer(r, "DELETED")
    /\ UNCHANGED <<past, lock, call, todo, seen>>

(***************************************************************************)
(* PostgreSQL's deadlock detector, lost connections, the rest of the site  *)
(***************************************************************************)
\* A reservation holds a slot and waits for the activity, a deletion holds the
\* activity and waits for the slot.
DeadLocked(b, d) ==
    /\ pc[b] = "insert" /\ ~AlreadyBooked(b)
    /\ pc[d] = "cascade" /\ call[d].activity = call[b].activity

\* One of the two is cancelled (40P01) and its client gets a 500.
DeadlockAbort ==
    \E b, d \in Request :
        /\ DeadLocked(b, d)
        /\ \/ Refuse(b, "FAILED")
           \/ /\ Answer(d, "FAILED")
              /\ dlock' = [dlock EXCEPT ![call[d].activity] = None]
              /\ conn' = conn \ {d}
              /\ UNCHANGED <<tables, lock, call, todo, seen>>

\* The connection drops or the process restarts under a request: the server
\* rolls back the open transaction, statements already committed stay.
Fail(r) ==
    /\ pc[r] \notin {"idle", "done"}
    /\ Answer(r, "FAILED")
    /\ EndTransaction(r)
    /\ dlock' = [a \in Activity |-> IF dlock[a] = r THEN None ELSE dlock[a]]
    /\ UNCHANGED <<tables, call, todo>>

\* createActivity: the activity and its initial slot, if any, in one
\* transaction over rows nobody else can reach before it commits.
CreateActivity(a) ==
    /\ status[a] = "absent"
    /\ FreeConnection
    /\ \E st \in {"published", "pending"} : status' = [status EXCEPT ![a] = st]
    /\ \/ UNCHANGED capacity
       \/ \E s \in Slot, c \in Capacity :
            ActivityOf[s] = a /\ s \notin past /\ capacity' = [capacity EXCEPT ![s] = c]
    /\ UNCHANGED <<live, past, locks, requests>>

\* An approval publishes the activity, an edit or a rejection takes it back.
Moderate(a) ==
    /\ Exists(a)
    /\ dlock[a] = None
    /\ status' = [status EXCEPT ![a] = IF @ = "published" THEN "pending" ELSE "published"]
    /\ UNCHANGED <<capacity, live, past, locks, requests>>

\* The clock passes the start of a slot.
TimePasses(s) ==
    /\ past' = past \cup {s}
    /\ UNCHANGED <<status, capacity, live, locks, requests>>

-------------------------------------------------------------------------------
Step(r) ==
    \/ CheckPublished(r) \/ Connect(r) \/ SelectForUpdate(r) \/ RefuseSlot(r)
    \/ Count(r) \/ Insert(r) \/ Commit(r) \/ InsertFree(r) \/ ReadBack(r)
    \/ Find(r) \/ Erase(r)
    \/ CheckOwner(r) \/ Upsert(r) \/ Delete(r) \/ Cascade(r)

Next ==
    \/ \E r \in Request, c \in Calls : Start(r, c)
    \/ \E r \in Request : Step(r)
    \/ \E r \in Request : Fail(r)
    \/ DeadlockAbort
    \/ \E a \in Activity : CreateActivity(a)
    \/ \E a \in Activity : Moderate(a)
    \/ \E s \in Slot : TimePasses(s)

Spec == Init /\ [][Next]_vars

\* The server runs the handlers it has accepted, PostgreSQL grants locks that
\* stay free and cancels one transaction of a deadlock.  Arrivals, failures,
\* moderation and the clock are not the server's to schedule.
Fairness == WF_vars(DeadlockAbort) /\ \A r \in Request : WF_vars(Step(r))

FairSpec == Spec /\ Fairness

-------------------------------------------------------------------------------
(***************************************************************************)
(* Properties                                                              *)
(***************************************************************************)
\* Type invariant; a createSlots in its loop has an element left to insert.
TypeOK ==
    /\ status \in [Activity -> Statuses]
    /\ capacity \in [Slot -> Nat]
    /\ live \subseteq Request
    /\ past \subseteq Slot
    /\ lock \in [Slot -> Request \cup {None}]
    /\ dlock \in [Activity -> Request \cup {None}]
    /\ conn \subseteq Request
    /\ pc \in [Request -> Steps]
    /\ call \in [Request -> Calls \cup {None}]
    /\ todo \in [Request -> Seq(Offers)]
    /\ seen \in [Request -> Nat]
    /\ reply \in [Request -> Replies]
    /\ \A r \in Request :
        pc[r] = "upsert" \/ (pc[r] = "owner?" /\ call[r].op = "slots") => todo[r] # <<>>

InTransaction(r) == pc[r] \in {"count", "insert", "commit"}

\* The slot that bookSlot read under FOR UPDATE still exists, with the same
\* capacity, at every later statement of the transaction, whatever organizers
\* send and delete meanwhile (planning.service.ts, lines 118-145).
CapacityReadIsCurrent ==
    \A r \in Request :
        InTransaction(r) => seen[r] = capacity[call[r].slot] /\ seen[r] > 0

\* Concurrent reservations never take more seats than the slot has: whenever
\* a slot gains a reservation it ends within its capacity of that moment
\* (the comment on bookSlot, planning.service.ts, lines 104-107).
SeatsWithinCapacity ==
    [][\A s \in Slot :
        ~(Booked(s)' \subseteq Booked(s)) => Cardinality(Booked(s)') <= capacity'[s]]_vars

\* However a user repeats or retries a reservation, also after a 500 whose
\* transaction did commit, the slot counts that user once.
OneSeatPerUser ==
    \A s \in Slot : \A p, q \in Booked(s) : call[p].user = call[q].user => p = q

\* An entry always refers to an activity that exists, and its slot, if any, is
\* a slot of that same activity: the schema has no constraint between the two
\* foreign keys, and a deletion cascades while reservations are in flight.
EntriesReferToRows ==
    \A e \in live :
        /\ Exists(call[e].activity)
        /\ call[e].slot # NoSlot =>
            capacity[call[e].slot] > 0 /\ ActivityOf[call[e].slot] = call[e].activity

\* An entry disappears only with its activity or by a call of its own user,
\* although removePlanning checks the owner and deletes in two statements.
EntriesLeaveWithReason ==
    [][\A e \in live \ live' :
        \/ ~Exists(call[e].activity)'
        \/ \E r \in Request : /\ reply'[r] = "DELETED" /\ pc[r] = "erase"
                              /\ call[r].user = call[e].user]_vars

\* Every accepted request is answered: no reservation, slot update and deletion
\* wait for each other for ever, and no path leaks a pooled connection.
EveryRequestAnswered == \A r \in Request : pc[r] # "idle" ~> pc[r] = "done"

\* The reservations of a slot never exceed its capacity (009_activity_slots.sql,
\* lines 2-3).  False under Spec: an organizer's upsert may lower the capacity.
NeverOverbooked == \A s \in Slot : Cardinality(Booked(s)) <= capacity[s]

\* The system while no organizer lowers the capacity of a slot.
GrowingSpec ==
    Init /\ [][Next /\ \A s \in Slot : capacity'[s] = 0 \/ capacity'[s] >= capacity[s]]_vars

\* What the code relies on between its statements: the inductive invariant
\* behind the properties above.
Reserving(r) == pc[r] \in {"connect", "select", "count", "insert", "commit"}

RequestsKeepTheirPath ==
    \A r \in Request :
        /\ pc[r] # "idle" => call[r] \in Calls
        /\ pc[r] = "published?" => call[r].op \in {"book", "free"}
        /\ Reserving(r) => call[r].op = "book"
        /\ pc[r] = "insertFree" => call[r].op = "free"

RowIsLocked ==
    \A r \in Request : InTransaction(r) =>
        lock[call[r].slot] = r /\ ActivityOf[call[r].slot] = call[r].activity

SeatIsFree ==
    \A r \in Request :
        /\ pc[r] \in {"insert", "commit"} => Cardinality(Booked(call[r].slot)) < seen[r]
        /\ pc[r] = "commit" => ~AlreadyBooked(r)

EntriesAreCommitted == \A e \in live : pc[e] \in {"read", "done"}

SlotsReferToRows == \A s \in Slot : capacity[s] > 0 => Exists(ActivityOf[s])

IInv ==
    /\ TypeOK
    /\ RequestsKeepTheirPath
    /\ RowIsLocked
    /\ CapacityReadIsCurrent
    /\ SeatIsFree
    /\ EntriesAreCommitted
    /\ SlotsReferToRows
    /\ EntriesReferToRows
    /\ OneSeatPerUser

Ledger == INSTANCE SeatLedger
            WITH seats <- [s \in Slot |-> {call[r].user : r \in Booked(s)}]

\* The whole of it behaves as the seat ledger: every step is one atomic
\* operation on it or none, whatever the interleaving.
ImplementsSeatLedger == Ledger!Spec
===============================================================================
