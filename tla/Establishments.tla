---------------------------- MODULE Establishments ----------------------------
(***************************************************************************)
(* The establishments of organizers: one row per account, whose address    *)
(* is what the public geocoder (IGN) answers at the time of the writing,   *)
(* and the activities that copy it.  A handler is a request; an action is  *)
(* one SQL statement or one call of the geocoder.  A row is named by the   *)
(* request that inserted it.                                               *)
(***************************************************************************)
EXTENDS Naturals, FiniteSets

CONSTANTS
    MaxRequests, \* bound: requests that arrive
    Calls,      \* the calls they may make, authenticated and parsed
    Admins,     \* accounts with the role of administrator
    Place,      \* identifiers of the geocoder
    Label,      \* the texts it gives them
    FirstLabel, \* the text it gives each at first
    None        \* absence of a row, of an address, of an answer

VARIABLES
    establishments,  \* by request: None, or [owner, address]
    attached,        \* activities, by request: None, or [owner, from, address]
    ign, served,     \* what the geocoder answers now; all it ever answered
    call, pc, reply, \* by request: its call, its next statement, its answer
    place            \* by request: the address it holds since an earlier step

Request == 1..MaxRequests

tables == <<establishments, attached>>
geocoder == <<ign, served>>
handlers == <<call, pc, reply, place>>
vars == <<tables, geocoder, handlers>>

\* An address is what the geocoder knows it by and the text it goes by.
Address == Place \X Label
Answers == {a \in Address : ign[a[1]] = a[2]}
Stored(e) == establishments[e] # None
OwnedBy(u) == {e \in Request : Stored(e) /\ establishments[e].owner = u}

Init ==
    /\ establishments = [r \in Request |-> None]
    /\ attached = [r \in Request |-> None]
    /\ ign = FirstLabel /\ served = Answers
    /\ call = [r \in Request |-> None] /\ pc = [r \in Request |-> "idle"]
    /\ reply = [r \in Request |-> None] /\ place = [r \in Request |-> None]

Goto(r, step) == pc' = [pc EXCEPT ![r] = step]
End(r, answer) == Goto(r, "done") /\ reply' = [reply EXCEPT ![r] = answer]
Step(r, op, step) == pc[r] = step /\ call[r].op = op

\* The statement each call begins with.
FirstStep(op) ==
    CASE op = "create" -> "check"
      [] op \in {"update", "delete"} -> "fetch"
      [] op = "activity" -> "resolve"

\* Requests are alike: they arrive in the order of their numbers.
Start(r, c) ==
    /\ pc[r] = "idle" /\ \A q \in Request : q < r => pc[q] # "idle"
    /\ call' = [call EXCEPT ![r] = c] /\ Goto(r, FirstStep(c.op))
    /\ UNCHANGED <<tables, geocoder, reply, place>>

-----------------------------------------------------------------------------
\* createEstablishment and updateEstablishment.

CheckNone(r) ==
    /\ Step(r, "create", "check")
    /\ IF OwnedBy(call[r].by) = {}
       THEN Goto(r, "geocode") /\ UNCHANGED reply
       ELSE End(r, "ESTABLISHMENT_EXISTS")
    /\ UNCHANGED <<tables, geocoder, call, place>>

\* fetchEstablishment and assertOwner; an update without an address does not
\* ask the geocoder.
CheckOwner(r) ==
    /\ pc[r] = "fetch"
    /\ LET row == establishments[call[r].row] IN
       \/ row = None /\ End(r, "NOT_FOUND")
       \/ /\ row # None /\ row.owner # call[r].by /\ call[r].by \notin Admins
          /\ End(r, "FORBIDDEN")
       \/ /\ row # None /\ (row.owner = call[r].by \/ call[r].by \in Admins)
          /\ Goto(r, IF call[r].op = "delete" THEN "delete"
                     ELSE IF call[r].sent = None THEN "update" ELSE "geocode")
          /\ UNCHANGED reply
    /\ UNCHANGED <<tables, geocoder, call, place>>

\* Of the answers for the label, the one with the identifier.  The geocoder may
\* leave out an address it has, or give it by another label than the one sent.
Resolved(sent) == {a \in Answers : a[1] = sent[1]}

Resolve(r) ==
    /\ pc[r] = "geocode"
    /\ \/ \E a \in Resolved(call[r].sent) :
            /\ place' = [place EXCEPT ![r] = a]
            /\ Goto(r, IF call[r].op = "create" THEN "insert" ELSE "update")
            /\ UNCHANGED reply
       \/ \E answer \in {"ADDRESS_NOT_FOUND", "GEOPLATFORM_UNAVAILABLE"} :
            End(r, answer) /\ UNCHANGED place
    /\ UNCHANGED <<tables, geocoder, call>>

\* Fault: nothing but the check of an earlier statement protects the account.
AlwaysFree(u) == TRUE

\* The unique constraint on organizer_id; its violation is nobody's error code.
OrganizerFree(u) == OwnedBy(u) = {}

Insert(r) ==
    /\ Step(r, "create", "insert")
    /\ IF OrganizerFree(call[r].by)
       THEN /\ establishments' = [establishments EXCEPT ![r] =
                                    [owner |-> call[r].by, address |-> place[r]]]
            /\ Goto(r, "read") /\ UNCHANGED reply
       ELSE End(r, "FAILED") /\ UNCHANGED establishments
    /\ UNCHANGED <<attached, geocoder, call, place>>

\* An UPDATE of a row that has gone changes nothing, and the reading back says so.
Update(r) ==
    /\ pc[r] = "update"
    /\ establishments' =
         IF Stored(call[r].row) /\ place[r] # None
         THEN [establishments EXCEPT ![call[r].row].address = place[r]]
         ELSE establishments
    /\ Goto(r, "read")
    /\ UNCHANGED <<attached, geocoder, call, reply, place>>

ReadBack(r) ==
    /\ pc[r] = "read"
    /\ LET e == IF call[r].op = "create" THEN r ELSE call[r].row
       IN End(r, IF Stored(e) THEN "OK" ELSE "NOT_FOUND")
    /\ UNCHANGED <<tables, geocoder, call, place>>

-----------------------------------------------------------------------------
\* deleteEstablishment, and the activities.

\* ON DELETE SET NULL.
Detached(e) ==
    [a \in Request |-> IF attached[a] # None /\ attached[a].from = e
                       THEN [attached[a] EXCEPT !.from = None] ELSE attached[a]]

Delete(r) ==
    /\ pc[r] = "delete"
    /\ establishments' = [establishments EXCEPT ![call[r].row] = None]
    /\ attached' = Detached(call[r].row)
    /\ End(r, "OK")
    /\ UNCHANGED <<geocoder, call, place>>

\* resolveOrganizerEstablishment: its id and a copy of its address are kept
\* until the insertion; of several rows it would take any.
FindEstablishment(r) ==
    /\ Step(r, "activity", "resolve")
    /\ \/ /\ OwnedBy(call[r].by) = {}
          /\ End(r, "ESTABLISHMENT_REQUIRED") /\ UNCHANGED place
       \/ \E e \in OwnedBy(call[r].by) :
            /\ place' = [place EXCEPT ![r] = [from |-> e,
                                              address |-> establishments[e].address]]
            /\ Goto(r, "activity") /\ UNCHANGED reply
    /\ UNCHANGED <<tables, geocoder, call>>

\* The transaction of createActivity, as far as establishments are concerned:
\* the foreign key refuses a row that has gone meanwhile.
InsertActivity(r) ==
    /\ Step(r, "activity", "activity")
    /\ IF Stored(place[r].from)
       THEN /\ attached' = [attached EXCEPT ![r] =
                              [owner |-> call[r].by, from |-> place[r].from,
                               address |-> place[r].address]]
            /\ End(r, "OK")
       ELSE End(r, "FAILED") /\ UNCHANGED attached
    /\ UNCHANGED <<establishments, geocoder, call, place>>

-----------------------------------------------------------------------------
\* A handler that stops between two statements: what it wrote stays.
Fail(r) ==
    /\ pc[r] \notin {"idle", "done"}
    /\ End(r, "FAILED")
    /\ UNCHANGED <<tables, geocoder, call, place>>

\* The geocoder's data change: an address gets another label.
Relabel(p, l) ==
    /\ ign' = [ign EXCEPT ![p] = l] /\ ign' # ign
    /\ served' = served \cup {<<p, l>>}
    /\ UNCHANGED <<tables, handlers>>

Next ==
    \/ \E r \in Request :
         \/ \E c \in Calls : Start(r, c)
         \/ CheckNone(r) \/ CheckOwner(r) \/ Resolve(r) \/ Insert(r) \/ Update(r)
         \/ ReadBack(r) \/ Delete(r) \/ FindEstablishment(r)
         \/ InsertActivity(r) \/ Fail(r)
    \/ \E p \in Place, l \in Label : Relabel(p, l)

Spec == Init /\ [][Next]_vars

-----------------------------------------------------------------------------
\* Types of the tables and of what handlers hold.
TypeOK ==
    /\ \A r \in Request :
         /\ Stored(r) => establishments[r].address \in Address
         /\ attached[r] # None => attached[r].from \in Request \cup {None}
         /\ call[r] = None <=> pc[r] = "idle"
         /\ reply[r] # None <=> pc[r] = "done"
    /\ ign \in [Place -> Label] /\ served \subseteq Address

\* However their creations cross, an organizer has one establishment, and an
\* activity refers to an establishment of its own organizer or to none, also
\* when the establishment goes between the reading and the insertion.
\* (establishment.service.ts createEstablishment, activity.service.ts
\* createActivity, migration 014)
Consistent ==
    /\ TypeOK
    /\ \A e, f \in Request : (Stored(e) /\ Stored(f) /\ e # f) =>
         establishments[e].owner # establishments[f].owner
    /\ \A a \in Request : (attached[a] # None /\ attached[a].from # None) =>
         attached[a].from \in OwnedBy(attached[a].owner)

\* Every address in the tables, the copies of activities included, is one the
\* geocoder has given, identifier and label together, whatever a client sends
\* and whatever is written between two statements.
\* (ign-geocoding.ts resolveAddress: "Vérifie côté serveur")
AddressesWereServed ==
    \A r \in Request : /\ Stored(r) => establishments[r].address \in served
                       /\ attached[r] # None => attached[r].address \in served
=============================================================================
