------------------------------ MODULE Catalogue -------------------------------
(***************************************************************************)
(* The activities that organizers offer (activity.service.ts), their       *)
(* moderation (admin.service.ts), their reviews (review.service.ts) and    *)
(* the public list with its cache in Redis (lib/redis.ts).                 *)
(*                                                                         *)
(* A request is a process and an action is one SQL statement or one Redis  *)
(* command, as in Booking.  recalcRating is two actions, because its       *)
(* statement reads the reviews in its snapshot before it locks the row of  *)
(* the activity.  The name, category and description of an activity are    *)
(* its edition, named by the request that wrote them.                      *)
(***************************************************************************)
EXTENDS Naturals, FiniteSets

CONSTANTS
    Request,            \* requests the server ever receives (bounds the model)
    Organizer, Member, Admin, \* accounts by role
    Activity,           \* ids of the activities
    Owner,              \* [Activity -> Organizer]
    Rating,             \* ratings a member may give (1..5 in the schema)
    Calls,              \* the calls the clients make, a subset of Call
    Online,             \* [subset of Activity -> edition]: published before the model starts
    ModerationEnabled,  \* config.activities.moderationEnabled
    None

User == Organizer \cup Member \cup Admin

Ops == {"create", "edit", "touch", "delete", "approve", "reject", "list",
        "review", "rerate", "unreview"}

\* "edit" changes the name, category or description of an activity, "touch" only
\* its other columns; `target` is the review that "rerate" and "unreview" name.
Call == [op : Ops, user : User, activity : Activity \cup {None},
         rating : Rating \cup {None}, target : Request \cup {None}]

Status == {"absent", "pending", "published", "rejected", "deleted"}

Steps == {"idle", "insert", "owner?", "update", "delete", "keys", "del", "decide", "audit",
          "cached?", "query", "cache", "published?", "planned?", "insertReview", "mine?",
          "change", "snapshot", "recalc", "done"}

Replies == {"", "OK", "NOT_FOUND", "FORBIDDEN", "PLANNING_REQUIRED", "REVIEW_ALREADY_EXISTS",
            "FAILED"}

ASSUME NoneAssumption ==
    None \notin Request \cup User \cup Activity \cup Rating /\ None \notin Calls
ASSUME RolesAssumption ==
    /\ Organizer \cap Member = {} /\ Organizer \cap Admin = {} /\ Member \cap Admin = {}
    /\ Owner \in [Activity -> Organizer]
    /\ DOMAIN Online \subseteq Activity
    /\ \A a \in DOMAIN Online : Online[a] \in Request
    /\ ModerationEnabled \in BOOLEAN
\* What the routes and the schemas let through.
ASSUME CallsAssumption ==
    /\ Calls \subseteq Call
    /\ \A c \in Calls :
        /\ c.op # "list" => c.activity \in Activity
        /\ c.op \in {"create", "edit", "touch", "delete"} => c.user \in Organizer \cup Admin
        /\ c.op = "create" => c.user = Owner[c.activity]
        /\ c.op \in {"approve", "reject"} => c.user \in Admin
        /\ c.op \in {"review", "rerate"} => c.rating \in Rating
        /\ c.op \in {"rerate", "unreview"} => c.target \in Request

VARIABLES
    \* tables
    status,     \* [Activity -> Status]: "absent" and "deleted" being no row
    edition,    \* [Activity -> the request that wrote the current edition]
    rated,      \* [Activity -> the reviews that avg_rating and review_count were computed from]
    reviews,    \* rows of reviews: [id, user, activity, rating]
    planned,    \* pairs of a member and an activity in that member's planning
    audit,      \* requests whose decision admin_audit_log records
    \* Redis
    cache,      \* the cached list, or None
    keys,       \* [Request -> whether KEYS has seen the cached list]
    \* requests
    pc, call, reply,
    seen,       \* [Request -> the rows that a statement of the request has read]
    \* history
    approved,   \* [Activity -> editions allowed to be public]
    decisions   \* [activity, edition, by]: the approvals and rejections that took effect

tables == <<status, edition, rated, reviews, planned, audit>>
redis == <<cache, keys>>
history == <<approved, decisions>>
requests == <<pc, call, reply, seen>>
vars == <<tables, redis, requests, history>>

Exists(a) == status[a] \notin {"absent", "deleted"}
ReviewsOf(a) == {v \in reviews : v.activity = a}

\* The public list: the published activities with their edition and rating.
Listing == {[activity |-> a, edition |-> edition[a], rated |-> rated[a]] :
                a \in {b \in Activity : status[b] = "published"}}

-------------------------------------------------------------------------------
Seeded == {Online[a] : a \in DOMAIN Online}

Init ==
    /\ status = [a \in Activity |-> IF a \in DOMAIN Online THEN "published" ELSE "absent"]
    /\ edition = [a \in Activity |-> IF a \in DOMAIN Online THEN Online[a] ELSE None]
    /\ rated = [a \in Activity |-> {}]
    /\ reviews = {}
    /\ planned = Member \X DOMAIN Online
    /\ audit = {}
    /\ cache = None
    /\ keys = [r \in Request |-> FALSE]
    /\ pc = [r \in Request |-> IF r \in Seeded THEN "done" ELSE "idle"]
    /\ call = [r \in Request |-> None]
    /\ reply = [r \in Request |-> ""]
    /\ seen = [r \in Request |-> {}]
    /\ approved = [a \in Activity |-> IF a \in DOMAIN Online THEN {Online[a]} ELSE {}]
    /\ decisions = {}

FirstStep(op) ==
    CASE op = "create" -> "insert"
      [] op \in {"edit", "touch", "delete"} -> "owner?"
      [] op \in {"approve", "reject"} -> "decide"
      [] op = "list" -> "cached?"
      [] op = "review" -> "published?"
      [] op \in {"rerate", "unreview"} -> "mine?"

\* gen_random_uuid: the id of a new activity was never used.
Fresh(a) ==
    /\ a \notin DOMAIN Online
    /\ \A r \in Request : call[r] # None => ~(call[r].op = "create" /\ call[r].activity = a)

Start(r, c) ==
    /\ pc[r] = "idle"
    /\ c.op = "create" => Fresh(c.activity)
    /\ pc' = [pc EXCEPT ![r] = FirstStep(c.op)]
    /\ call' = [call EXCEPT ![r] = c]
    /\ UNCHANGED <<tables, redis, reply, seen, history>>

At(r, step) == pc[r] = step /\ UNCHANGED call

GoTo(r, step) == pc' = [pc EXCEPT ![r] = step] /\ UNCHANGED reply

Answer(r, code) ==
    /\ pc' = [pc EXCEPT ![r] = "done"]
    /\ reply' = [reply EXCEPT ![r] = code]

IsAdmin(r) == call[r].user \in Admin

\* fetchActivityDetail and fetchReview end their handlers with a read-back.
ReadBack(r, there) == Answer(r, IF there THEN "OK" ELSE "NOT_FOUND")

(***************************************************************************)
(* activity.service.ts                                                     *)
(***************************************************************************)
\* The status of a new activity.
InitialStatus == IF ModerationEnabled THEN "pending" ELSE "published"

\* createActivity: its transaction inserts rows that nobody else sees before COMMIT.
Create(r) ==
    /\ At(r, "insert")
    /\ LET a == call[r].activity IN
       /\ status' = [status EXCEPT ![a] = InitialStatus]
       /\ edition' = [edition EXCEPT ![a] = r]
       /\ approved' = IF ModerationEnabled THEN approved
                      ELSE [approved EXCEPT ![a] = @ \cup {r}]
    /\ GoTo(r, "keys")
    /\ UNCHANGED <<rated, reviews, planned, audit, redis, seen, decisions>>

\* updateActivity and deleteActivity: SELECT organizer_id.
CheckOwner(r) ==
    /\ At(r, "owner?")
    /\ LET c == call[r] IN
       IF ~Exists(c.activity) THEN Answer(r, "NOT_FOUND")
       ELSE IF ~IsAdmin(r) /\ Owner[c.activity] # c.user THEN Answer(r, "FORBIDDEN")
       ELSE GoTo(r, IF c.op = "delete" THEN "delete" ELSE "update")
    /\ UNCHANGED <<tables, redis, seen, history>>

\* Fault: only a rejected activity is sent back to moderation.
OnlyPublishedAgain(r) ==
    /\ call[r].op = "edit" /\ ~IsAdmin(r) /\ ModerationEnabled
    /\ status[call[r].activity] = "rejected"

ModeratedAgain(r) == call[r].op = "edit" /\ ~IsAdmin(r) /\ ModerationEnabled

\* updateActivity: one UPDATE sets the columns and the status; without a row it
\* does nothing.  What an administrator writes needs no approval.
Update(r) ==
    /\ At(r, "update")
    /\ LET a == call[r].activity
           changed == Exists(a) /\ call[r].op = "edit"
       IN
       /\ edition' = IF changed THEN [edition EXCEPT ![a] = r] ELSE edition
       /\ status' = IF changed /\ ModeratedAgain(r) THEN [status EXCEPT ![a] = "pending"]
                    ELSE status
       /\ approved' = IF changed /\ (IsAdmin(r) \/ ~ModerationEnabled)
                      THEN [approved EXCEPT ![a] = @ \cup {r}] ELSE approved
    /\ GoTo(r, "keys")
    /\ UNCHANGED <<rated, reviews, planned, audit, redis, seen, decisions>>

\* deleteActivity: DELETE, which cascades to the reviews and the planning.
Delete(r) ==
    /\ At(r, "delete")
    /\ LET a == call[r].activity IN
       /\ status' = IF Exists(a) THEN [status EXCEPT ![a] = "deleted"] ELSE status
       /\ reviews' = reviews \ ReviewsOf(a)
       /\ planned' = {p \in planned : p[2] # a}
    /\ GoTo(r, "keys")
    /\ UNCHANGED <<edition, rated, audit, redis, seen, history>>

\* invalidateActivitiesCache: KEYS, whose errors are swallowed.
ReadKeys(r) ==
    /\ At(r, "keys")
    /\ keys' \in {[keys EXCEPT ![r] = FALSE], [keys EXCEPT ![r] = cache # None]}
    /\ GoTo(r, "del")
    /\ UNCHANGED <<tables, cache, seen, history>>

\* invalidateActivitiesCache: DEL of the keys it has seen; and the read-back.
DeleteKeys(r) ==
    /\ At(r, "del")
    /\ cache' \in (IF keys[r] THEN {None, cache} ELSE {cache})
    /\ ReadBack(r, call[r].op = "delete" \/ Exists(call[r].activity))
    /\ UNCHANGED <<tables, keys, seen, history>>

\* listActivities: GET, which answers at once from the cache.
ReadCache(r) ==
    /\ At(r, "cached?")
    /\ \/ /\ cache # None
          /\ seen' = [seen EXCEPT ![r] = cache]
          /\ Answer(r, "OK")
       \/ GoTo(r, "query") /\ UNCHANGED seen
    /\ UNCHANGED <<tables, redis, history>>

\* listActivities: the query.
QueryList(r) ==
    /\ At(r, "query")
    /\ seen' = [seen EXCEPT ![r] = Listing]
    /\ GoTo(r, "cache")
    /\ UNCHANGED <<tables, redis, history>>

\* listActivities: SET with a time to live, whose errors are swallowed.
SetCache(r) ==
    /\ At(r, "cache")
    /\ cache' \in {cache, seen[r]}
    /\ Answer(r, "OK")
    /\ UNCHANGED <<tables, keys, seen, history>>

(***************************************************************************)
(* admin.service.ts                                                        *)
(***************************************************************************)
\* Fault: the UPDATE is not restricted to pending activities.
AnyRow(a) == Exists(a)

Undecided(a) == status[a] = "pending"

\* approveActivity and rejectActivity: one UPDATE ... WHERE status = 'pending'.
Decide(r) ==
    /\ At(r, "decide")
    /\ LET a == call[r].activity IN
       IF ~Undecided(a)
       THEN Answer(r, "NOT_FOUND") /\ UNCHANGED <<status, history>>
       ELSE /\ status' = [status EXCEPT ![a] =
                            IF call[r].op = "approve" THEN "published" ELSE "rejected"]
            /\ decisions' = decisions \cup {[activity |-> a, edition |-> edition[a], by |-> r]}
            /\ approved' = IF call[r].op = "approve"
                           THEN [approved EXCEPT ![a] = @ \cup {edition[a]}] ELSE approved
            /\ GoTo(r, "audit")
    /\ UNCHANGED <<edition, rated, reviews, planned, audit, redis, seen>>

\* auditLog, and the read-back.
Audit(r) ==
    /\ At(r, "audit")
    /\ audit' = audit \cup {r}
    /\ ReadBack(r, Exists(call[r].activity))
    /\ UNCHANGED <<status, edition, rated, reviews, planned, redis, seen, history>>

(***************************************************************************)
(* review.service.ts                                                       *)
(***************************************************************************)
\* createReview: a published activity.
CheckPublished(r) ==
    /\ At(r, "published?")
    /\ IF status[call[r].activity] = "published" THEN GoTo(r, "planned?")
       ELSE Answer(r, "NOT_FOUND")
    /\ UNCHANGED <<tables, redis, seen, history>>

\* createReview: an activity in the reviewer's planning.
CheckPlanned(r) ==
    /\ At(r, "planned?")
    /\ IF <<call[r].user, call[r].activity>> \in planned THEN GoTo(r, "insertReview")
       ELSE Answer(r, "PLANNING_REQUIRED")
    /\ UNCHANGED <<tables, redis, seen, history>>

\* Fault: the constraint leaves the user out of account.
SameRating(r) ==
    \E v \in ReviewsOf(call[r].activity) : v.user = call[r].user /\ v.rating = call[r].rating

\* uq_reviews_user_activity
AlreadyReviewed(r) == \E v \in ReviewsOf(call[r].activity) : v.user = call[r].user

\* createReview: INSERT, under the unique constraint and the foreign key.
InsertReview(r) ==
    /\ At(r, "insertReview")
    /\ LET c == call[r] IN
       IF AlreadyReviewed(r) THEN Answer(r, "REVIEW_ALREADY_EXISTS") /\ UNCHANGED reviews
       ELSE IF ~Exists(c.activity) THEN Answer(r, "FAILED") /\ UNCHANGED reviews
       ELSE /\ reviews' = reviews \cup {[id |-> r, user |-> c.user, activity |-> c.activity,
                                         rating |-> c.rating]}
            /\ GoTo(r, "snapshot")
    /\ UNCHANGED <<status, edition, rated, planned, audit, redis, seen, history>>

\* The review that the request names, by the id of the review and of the activity.
Named(r) == {v \in ReviewsOf(call[r].activity) : v.id = call[r].target}

MayChange(r, v) == v.user = call[r].user \/ (call[r].op = "unreview" /\ IsAdmin(r))

\* updateReview and deleteReview: SELECT, and the check of its author.
CheckAuthor(r) ==
    /\ At(r, "mine?")
    /\ IF Named(r) = {} THEN Answer(r, "NOT_FOUND")
       ELSE IF \E v \in Named(r) : ~MayChange(r, v) THEN Answer(r, "FORBIDDEN")
       ELSE GoTo(r, "change")
    /\ UNCHANGED <<tables, redis, seen, history>>

\* updateReview: UPDATE by id; deleteReview: DELETE by id.
Change(r) ==
    /\ At(r, "change")
    /\ reviews' = (reviews \ Named(r)) \cup
            (IF call[r].op = "unreview" THEN {}
             ELSE {[v EXCEPT !.rating = call[r].rating] : v \in Named(r)})
    /\ GoTo(r, "snapshot")
    /\ UNCHANGED <<status, edition, rated, planned, audit, redis, seen, history>>

\* recalcRating: the snapshot of the statement.
Snapshot(r) ==
    /\ At(r, "snapshot")
    /\ seen' = [seen EXCEPT ![r] = ReviewsOf(call[r].activity)]
    /\ GoTo(r, "recalc")
    /\ UNCHANGED <<tables, redis, history>>

\* recalcRating: UPDATE of the row; then the read-back.
Recalc(r) ==
    /\ At(r, "recalc")
    /\ LET c == call[r] IN
       /\ rated' = IF Exists(c.activity) THEN [rated EXCEPT ![c.activity] = seen[r]] ELSE rated
       /\ ReadBack(r, c.op = "unreview"
                      \/ \E v \in reviews : v.id = (IF c.op = "review" THEN r ELSE c.target))
    /\ UNCHANGED <<status, edition, reviews, planned, audit, redis, seen, history>>

(***************************************************************************)
(* Failures and the rest of the site                                       *)
(***************************************************************************)
\* A lost connection or a restart before the next statement.
Fail(r) ==
    /\ pc[r] \notin {"idle", "done"}
    /\ Answer(r, "FAILED")
    /\ UNCHANGED <<tables, redis, call, seen, history>>

\* The cached list reaches its time to live.
Expire == cache # None /\ cache' = None /\ UNCHANGED <<tables, keys, requests, history>>

\* A member takes an activity out of the planning (Booking).
Unplan(p) ==
    /\ p \in planned
    /\ planned' = planned \ {p}
    /\ UNCHANGED <<status, edition, rated, reviews, audit, redis, requests, history>>

-------------------------------------------------------------------------------
Step(r) ==
    \/ Create(r) \/ CheckOwner(r) \/ Update(r) \/ Delete(r) \/ ReadKeys(r) \/ DeleteKeys(r)
    \/ ReadCache(r) \/ QueryList(r) \/ SetCache(r)
    \/ Decide(r) \/ Audit(r)
    \/ CheckPublished(r) \/ CheckPlanned(r) \/ InsertReview(r)
    \/ CheckAuthor(r) \/ Change(r) \/ Snapshot(r) \/ Recalc(r)

Next ==
    \/ \E r \in Request, c \in Calls : Start(r, c)
    \/ \E r \in Request : Step(r)
    \/ \E r \in Request : Fail(r)
    \/ Expire
    \/ \E p \in planned : Unplan(p)

Spec == Init /\ [][Next]_vars

-------------------------------------------------------------------------------
Review == [id : Request, user : User, activity : Activity, rating : Rating]

\* The tables, the cache and the requests hold values of their types; the audit log
\* names no decision that did not take effect.
TypeOK ==
    /\ status \in [Activity -> Status]
    /\ edition \in [Activity -> Request \cup {None}]
    /\ reviews \subseteq Review
    /\ \A a \in Activity : rated[a] \subseteq Review
    /\ planned \subseteq Member \X Activity
    /\ audit \subseteq {d.by : d \in decisions}
    /\ keys \in [Request -> BOOLEAN]
    /\ pc \in [Request -> Steps] /\ reply \in [Request -> Replies]
    /\ \A r \in Request : call[r] \in Calls \cup {None}
    /\ \A r \in Request : pc[r] \notin {"idle", "done"} => call[r] # None

\* Nothing reaches the public before it was approved: every edition that the table
\* shows, that the cache keeps or that an answer carried was published by an
\* administrator, whatever edits ran meanwhile (swagger.yaml:21).
ShownWasApproved ==
    LET lists == {Listing} \cup (IF cache = None THEN {} ELSE {cache})
                 \cup {seen[r] : r \in {q \in Request : call[q] # None /\ call[q].op = "list"}}
    IN \A list \in lists : \A row \in list : row.edition \in approved[row.activity]

\* No edition is decided twice: two administrators, or one of them in two windows,
\* cannot both approve it, nor one reject what the other has published.
DecidedOnce ==
    \A d, e \in decisions :
        d.activity = e.activity /\ d.edition = e.edition => d = e

\* A member has one review of an activity at most, whatever the order of the checks
\* and insertions of createReview, and none is left of a deleted activity.
OneReviewPerUser ==
    /\ \A v, w \in reviews : v.user = w.user /\ v.activity = w.activity => v = w
    /\ \A v \in reviews : Exists(v.activity)

\* Every rating was given by the author of its review: an administrator may remove
\* a review and never changes it (updateReview against deleteReview).
RatedByAuthors ==
    \A v \in reviews : \E r \in Request :
        /\ call[r] # None /\ call[r].op \in {"review", "rerate"}
        /\ call[r].user = v.user /\ call[r].activity = v.activity /\ call[r].rating = v.rating

\* The rows make sense together: reviews are of one member each, of activities that
\* exist, and their authors'.  (review.service.ts, 006_reviews.sql)
Consistent == TypeOK /\ OneReviewPerUser /\ RatedByAuthors

\* Once every request was answered and none has failed, the number of reviews kept
\* on an activity is the number of its reviews (swagger.yaml:1911).
CountMatchesReviews ==
    (\A r \in Request : pc[r] \in {"idle", "done"} /\ reply[r] # "FAILED")
        => \A a \in Activity : Exists(a) => Cardinality(rated[a]) = Cardinality(ReviewsOf(a))
===============================================================================
