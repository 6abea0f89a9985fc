---------------------------- MODULE CatalogueProofs ----------------------------
(***************************************************************************)
(* Theorems about Catalogue, for every set of requests, users, activities, *)
(* ratings and calls, with the moderation on or off.                       *)
(***************************************************************************)
EXTENDS Catalogue, TLAPS

-------------------------------------------------------------------------------
(* The inductive invariant *)

\* A row of the public list.
Row == [activity : Activity, edition : Request \cup {None}, rated : SUBSET Review]

\* What TypeOK leaves open: the domains of the functions, and the history.
Shapes ==
    /\ rated \in [Activity -> SUBSET Review]
    /\ call \in [Request -> Calls \cup {None}]
    /\ seen \in [Request -> SUBSET (Row \cup Review)]
    /\ approved \in [Activity -> SUBSET Request]
    /\ decisions \subseteq [activity : Activity, edition : Request \cup {None}, by : Request]

\* The statements that a call runs.
PathOf(op) ==
    CASE op = "create" -> {"insert", "keys", "del"}
      [] op \in {"edit", "touch"} -> {"owner?", "update", "keys", "del"}
      [] op = "delete" -> {"owner?", "delete", "keys", "del"}
      [] op \in {"approve", "reject"} -> {"decide", "audit"}
      [] op = "list" -> {"cached?", "query", "cache"}
      [] op = "review" -> {"published?", "planned?", "insertReview", "snapshot", "recalc"}
      [] OTHER -> {"mine?", "change", "snapshot", "recalc"}

\* A request runs the statements of its call, and has none before it arrives.
RequestsKeepTheirPath ==
    \A r \in Request :
        /\ pc[r] = "idle" => call[r] = None /\ seen[r] = {}
        /\ pc[r] \notin {"idle", "done"} => call[r] \in Calls /\ pc[r] \in PathOf(call[r].op)

\* Rows of the public list that were approved.
Approved(list) == \A row \in list : row \in Row /\ row.edition \in approved[row.activity]

\* What is published, cached or answered was approved.
PublicWasApproved ==
    /\ \A a \in Activity : status[a] = "published" => edition[a] \in approved[a]
    /\ cache # None => Approved(cache)
    /\ \A r \in Request : call[r] # None /\ call[r].op = "list" => Approved(seen[r])

\* An edition bears the name of a request that has written it.
Written(x) == pc[x] \notin {"idle", "insert", "owner?", "update"}

\* Every row has an edition, and every edition was written.
RowsAreWritten == \A a \in Activity : Exists(a) => edition[a] \in Request

EditionsWereWritten ==
    /\ \A a \in Activity, x \in Request : edition[a] = x => Written(x)
    /\ \A d \in decisions, x \in Request : d.edition = x => Written(x)

\* What waits for a decision was never decided.
PendingIsUndecided ==
    \A d \in decisions :
        status[d.activity] = "pending" => d.edition # edition[d.activity]

\* A request that is about to log its decision has taken it.
AuditFollowsDecision ==
    \A r \in Request : pc[r] = "audit" => \E d \in decisions : d.by = r

\* A review bears the name of the request of its author; a new rating is written by a
\* request that has found the review to be its user's; a rating is computed from reviews.
ReviewsKeepTheirAuthor ==
    /\ \A v \in reviews :
        /\ call[v.id] # None /\ call[v.id].op = "review"
        /\ call[v.id].user = v.user /\ call[v.id].activity = v.activity
    /\ \A r \in Request :
        /\ pc[r] = "change" /\ call[r].op = "rerate" =>
            /\ call[call[r].target] # None
            /\ call[call[r].target].user = call[r].user
        /\ pc[r] = "recalc" => seen[r] \subseteq Review

IInv ==
    /\ TypeOK /\ Shapes
    /\ RequestsKeepTheirPath
    /\ PublicWasApproved
    /\ RowsAreWritten /\ EditionsWereWritten
    /\ DecidedOnce /\ PendingIsUndecided
    /\ AuditFollowsDecision
    /\ ReviewsKeepTheirAuthor
    /\ OneReviewPerUser
    /\ RatedByAuthors

-------------------------------------------------------------------------------
(* Types and paths *)

\* What the routes and the schemas let through, call by call.
LEMMA CallTypes ==
    ASSUME NEW c \in Calls
    PROVE  /\ c \in Call /\ c # None
           /\ c.op \in Ops /\ c.user \in User
           /\ c.op # "list" => c.activity \in Activity
           /\ c.op = "create" => c.user = Owner[c.activity]
           /\ c.op \in {"review", "rerate"} => c.rating \in Rating
           /\ c.op \in {"rerate", "unreview"} => c.target \in Request
  BY CallsAssumption, NoneAssumption DEF Call

\* The path of a call never leads back to its arrival.
LEMMA PathTypes ==
    ASSUME NEW op \in Ops
    PROVE  /\ FirstStep(op) \in PathOf(op)
           /\ PathOf(op) \subseteq Steps \ {"idle", "done"}
  BY DEF PathOf, FirstStep, Steps, Ops

\* A request that is between its arrival and its answer has a call, of the types above.
LEMMA RunningCall ==
    ASSUME IInv, NEW r \in Request, pc[r] \notin {"idle", "done"}
    PROVE  /\ call[r] \in Calls /\ call[r] # None /\ call[r].op \in Ops
           /\ call[r].user \in User /\ pc[r] \in PathOf(call[r].op)
           /\ call[r].op # "list" => call[r].activity \in Activity
           /\ call[r].op \in {"review", "rerate"} => call[r].rating \in Rating
           /\ call[r].op \in {"rerate", "unreview"} => call[r].target \in Request
  BY CallTypes DEF IInv, RequestsKeepTheirPath

\* A call that was received is never replaced.
LEMMA CallsStay ==
    ASSUME IInv, [Next]_vars
    PROVE  \A r \in Request : call[r] # None => call'[r] = call[r]
<1>1. ASSUME NEW r \in Request, NEW c \in Calls, Start(r, c)
      PROVE  \A q \in Request : call[q] # None => call'[q] = call[q]
  BY <1>1 DEF Start, IInv, Shapes, RequestsKeepTheirPath
<1>2. ASSUME NEW r \in Request, Step(r)
      PROVE  call' = call
  BY <1>2 DEF Step, At, Create, CheckOwner, Update, Delete, ReadKeys, DeleteKeys, ReadCache,
     QueryList, SetCache, Decide, Audit, CheckPublished, CheckPlanned, InsertReview, CheckAuthor,
     Change, Snapshot, Recalc
<1> QED
  BY <1>1, <1>2 DEF Next, Fail, Expire, Unplan, requests, vars

\* A request moves along its path, or is answered.
OnPath(op, step) == step \in PathOf(op) \ {FirstStep(op)}

Moves(r) ==
    /\ pc[r] \notin {"idle", "done"}
    /\ \E step \in Steps \ {"idle"} :
        /\ pc' = [pc EXCEPT ![r] = step]
        /\ step # "done" => OnPath(call[r].op, step)
    /\ reply' \in [Request -> Replies]
    /\ call' = call

\* Where each statement leads, and the calls that run it.
LEMMA PathSteps ==
    ASSUME NEW op \in Ops
    PROVE  /\ "insert" \in PathOf(op) => OnPath(op, "keys") /\ op = "create"
           /\ "owner?" \in PathOf(op) => op \in {"edit", "touch", "delete"}
           /\ op = "delete" => OnPath(op, "delete")
           /\ op \in {"edit", "touch"} => OnPath(op, "update")
           /\ "update" \in PathOf(op) => OnPath(op, "keys") /\ op \in {"edit", "touch"}
           /\ "delete" \in PathOf(op) => OnPath(op, "keys") /\ op = "delete"
           /\ "keys" \in PathOf(op) => OnPath(op, "del")
           /\ "del" \in PathOf(op) => op # "list"
           /\ "cached?" \in PathOf(op) => OnPath(op, "query") /\ op = "list"
           /\ "query" \in PathOf(op) => OnPath(op, "cache") /\ op = "list"
           /\ "cache" \in PathOf(op) => op = "list"
           /\ "decide" \in PathOf(op) => OnPath(op, "audit") /\ op \in {"approve", "reject"}
           /\ "audit" \in PathOf(op) => op \in {"approve", "reject"}
           /\ "published?" \in PathOf(op) => OnPath(op, "planned?") /\ op = "review"
           /\ "planned?" \in PathOf(op) => OnPath(op, "insertReview") /\ op = "review"
           /\ "insertReview" \in PathOf(op) => OnPath(op, "snapshot") /\ op = "review"
           /\ "mine?" \in PathOf(op) => OnPath(op, "change") /\ op \in {"rerate", "unreview"}
           /\ "change" \in PathOf(op) => OnPath(op, "snapshot") /\ op \in {"rerate", "unreview"}
           /\ "snapshot" \in PathOf(op) => OnPath(op, "recalc") /\ op \notin {"list", "create"}
           /\ "recalc" \in PathOf(op) => op \in {"review", "rerate", "unreview"}
<1> USE DEF PathOf, FirstStep, OnPath
<1>1. op = "create" \/ op = "edit" \/ op = "touch" \/ op = "delete" \/ op = "approve"
      \/ op = "reject" \/ op = "list" \/ op = "review" \/ op = "rerate" \/ op = "unreview"
  BY DEF Ops
<1>2. CASE op = "create"
  BY <1>2
<1>3. CASE op = "edit" \/ op = "touch"
  BY <1>3
<1>4. CASE op = "delete"
  BY <1>4
<1>5. CASE op = "approve" \/ op = "reject"
  BY <1>5
<1>6. CASE op = "list"
  BY <1>6
<1>7. CASE op = "review"
  BY <1>7
<1>8. CASE op = "rerate" \/ op = "unreview"
  BY <1>8
<1> QED
  BY <1>1, <1>2, <1>3, <1>4, <1>5, <1>6, <1>7, <1>8

\* A handler that goes on, and one that answers.
LEMMA GoesOn ==
    ASSUME IInv, NEW r \in Request, pc[r] \notin {"idle", "done"},
           NEW step, OnPath(call[r].op, step), GoTo(r, step), call' = call
    PROVE  Moves(r)
<1>1. step \in Steps \ {"idle"}
  BY RunningCall, PathTypes DEF OnPath
<1> QED
  BY <1>1 DEF GoTo, Moves, IInv, TypeOK

\* An answer ends the path.
LEMMA IsAnswered ==
    ASSUME IInv, NEW r \in Request, pc[r] \notin {"idle", "done"},
           NEW code \in Replies, Answer(r, code), call' = call
    PROVE  Moves(r)
  BY DEF Answer, Moves, IInv, TypeOK, Steps

\* Every statement of a request moves it along the path of its call.
LEMMA StepMoves ==
    ASSUME IInv, NEW r \in Request, Step(r)
    PROVE  Moves(r) /\ pc[r] \in PathOf(call[r].op) /\ call[r].op \in Ops
<1>1. pc[r] \notin {"idle", "done"} /\ call' = call
  BY DEF Step, At, Create, CheckOwner, Update, Delete, ReadKeys, DeleteKeys, ReadCache,
     QueryList, SetCache, Decide, Audit, CheckPublished, CheckPlanned, InsertReview, CheckAuthor,
     Change, Snapshot, Recalc
<1>2. call[r].op \in Ops /\ pc[r] \in PathOf(call[r].op)
  BY <1>1, RunningCall
<1> DEFINE Goes(step) == GoTo(r, step) /\ OnPath(call[r].op, step)
           Ends == \E code \in Replies : Answer(r, code)
<1>3. ASSUME Create(r) \/ Update(r) \/ Delete(r) PROVE Goes("keys")
  BY <1>2, <1>3, PathSteps DEF Create, Update, Delete, At
<1>4. ASSUME CheckOwner(r) PROVE Ends \/ Goes("delete") \/ Goes("update")
  <2>1. call[r].op \in {"edit", "touch", "delete"}
    BY <1>2, <1>4, PathSteps DEF CheckOwner, At
  <2>2. \/ Ends
        \/ call[r].op = "delete" /\ GoTo(r, "delete")
        \/ call[r].op # "delete" /\ GoTo(r, "update")
    BY <1>4 DEF CheckOwner, Replies
  <2> QED
    BY <1>2, <2>1, <2>2, PathSteps
<1>5. ASSUME ReadKeys(r) PROVE Goes("del")
  BY <1>2, <1>5, PathSteps DEF ReadKeys, At
<1>6. ASSUME DeleteKeys(r) \/ SetCache(r) \/ Audit(r) \/ Recalc(r) PROVE Ends
  BY <1>6 DEF DeleteKeys, SetCache, Audit, Recalc, ReadBack, Replies
<1>7. ASSUME ReadCache(r) PROVE Ends \/ Goes("query")
  BY <1>2, <1>7, PathSteps DEF ReadCache, At, Replies
<1>8. ASSUME QueryList(r) PROVE Goes("cache")
  BY <1>2, <1>8, PathSteps DEF QueryList, At
<1>9. ASSUME Decide(r) PROVE Ends \/ Goes("audit")
  BY <1>2, <1>9, PathSteps DEF Decide, At, Replies
<1>10. ASSUME CheckPublished(r) PROVE Ends \/ Goes("planned?")
  BY <1>2, <1>10, PathSteps DEF CheckPublished, At, Replies
<1>11. ASSUME CheckPlanned(r) PROVE Ends \/ Goes("insertReview")
  BY <1>2, <1>11, PathSteps DEF CheckPlanned, At, Replies
<1>12. ASSUME InsertReview(r) PROVE Ends \/ Goes("snapshot")
  BY <1>2, <1>12, PathSteps DEF InsertReview, At, Replies
<1>13. ASSUME CheckAuthor(r) PROVE Ends \/ Goes("change")
  BY <1>2, <1>13, PathSteps DEF CheckAuthor, At, Replies
<1>14. ASSUME Change(r) PROVE Goes("snapshot")
  BY <1>2, <1>14, PathSteps DEF Change, At
<1>15. ASSUME Snapshot(r) PROVE Goes("recalc")
  BY <1>2, <1>15, PathSteps DEF Snapshot, At
<1>16. Ends \/ \E step : Goes(step)
  BY <1>3, <1>4, <1>5, <1>6, <1>7, <1>8, <1>9, <1>10, <1>11, <1>12, <1>13, <1>14, <1>15 DEF Step
<1>17. Moves(r)
  BY <1>1, <1>16, GoesOn, IsAnswered
<1> QED
  BY <1>2, <1>17

\* A request that arrives or moves keeps to its path.
LEMMA PathStep == IInv /\ [Next]_vars => RequestsKeepTheirPath'
<1> SUFFICES ASSUME IInv, [Next]_vars PROVE RequestsKeepTheirPath'
  OBVIOUS
<1>1. /\ pc \in [Request -> Steps] /\ call \in [Request -> Calls \cup {None}]
      /\ seen \in [Request -> SUBSET (Row \cup Review)] /\ RequestsKeepTheirPath
  BY DEF IInv, TypeOK, Shapes
<1>2. ASSUME NEW r \in Request, NEW c \in Calls, Start(r, c)
      PROVE  RequestsKeepTheirPath'
  <2>1. /\ FirstStep(c.op) \in PathOf(c.op)
        /\ FirstStep(c.op) \notin {"idle", "done"}
    BY CallTypes, PathTypes
  <2>2. /\ pc' = [pc EXCEPT ![r] = FirstStep(c.op)]
        /\ call' = [call EXCEPT ![r] = c] /\ seen' = seen
    BY <1>2 DEF Start
  <2> QED
    BY <1>1, <2>1, <2>2 DEF RequestsKeepTheirPath
<1>3. ASSUME NEW r \in Request, Step(r)
      PROVE  RequestsKeepTheirPath'
  <2>1. PICK step \in Steps \ {"idle"} : /\ pc' = [pc EXCEPT ![r] = step]
                                         /\ step # "done" => step \in PathOf(call[r].op)
    BY <1>3, StepMoves DEF Moves, OnPath
  <2>2. pc[r] \notin {"idle", "done"} /\ call[r] \in Calls /\ call' = call
    BY <1>3, StepMoves, RunningCall DEF Moves
  <2>3. \E S : seen' = [seen EXCEPT ![r] = S]
    <3>1. seen = [seen EXCEPT ![r] = seen[r]]
      BY <1>1
    <3>2. seen' = seen \/ \E S : seen' = [seen EXCEPT ![r] = S]
      BY <1>3 DEF Step, Create, CheckOwner, Update, Delete, ReadKeys, DeleteKeys, ReadCache,
         QueryList, SetCache, Decide, Audit, CheckPublished, CheckPlanned, InsertReview,
         CheckAuthor, Change, Snapshot, Recalc
    <3> QED
      BY <3>1, <3>2
  <2> QED
    BY <1>1, <2>1, <2>2, <2>3 DEF RequestsKeepTheirPath
<1>4. ASSUME NEW r \in Request, Fail(r)
      PROVE  RequestsKeepTheirPath'
  BY <1>1, <1>4 DEF Fail, Answer, RequestsKeepTheirPath
<1>5. CASE UNCHANGED vars \/ Expire \/ \E p \in planned : Unplan(p)
  BY <1>1, <1>5 DEF vars, Expire, Unplan, requests, RequestsKeepTheirPath
<1> QED
  BY <1>2, <1>3, <1>4, <1>5 DEF Next

\* A record of a review whose rating is written again is a review.
LEMMA RerateType ==
    ASSUME NEW v \in Review, NEW n \in Rating
    PROVE  /\ [v EXCEPT !.rating = n] \in Review
           /\ [v EXCEPT !.rating = n].id = v.id /\ [v EXCEPT !.rating = n].user = v.user
           /\ [v EXCEPT !.rating = n].activity = v.activity /\ [v EXCEPT !.rating = n].rating = n
  BY DEF Review

\* The tables that the statements of a request write keep their types.
LEMMA TablesType ==
    ASSUME IInv, NEW r \in Request, Step(r)
    PROVE  /\ status' \in [Activity -> Status]
           /\ edition' \in [Activity -> Request \cup {None}]
           /\ rated' \in [Activity -> SUBSET Review]
           /\ reviews' \subseteq Review
           /\ planned' \subseteq Member \X Activity
           /\ approved' \in [Activity -> SUBSET Request]
<1> DEFINE a == call[r].activity
<1>1. /\ status \in [Activity -> Status] /\ edition \in [Activity -> Request \cup {None}]
      /\ rated \in [Activity -> SUBSET Review] /\ reviews \subseteq Review
      /\ planned \subseteq Member \X Activity /\ approved \in [Activity -> SUBSET Request]
  BY DEF IInv, TypeOK, Shapes
<1>2. /\ pc[r] \in PathOf(call[r].op) /\ call[r].op \in Ops /\ pc[r] \notin {"idle", "done"}
      /\ call[r].user \in User
      /\ call[r].op # "list" => a \in Activity
      /\ call[r].op \in {"review", "rerate"} => call[r].rating \in Rating
  BY StepMoves, RunningCall DEF Moves
<1>3. CASE Create(r)
  <2>1. a \in Activity /\ InitialStatus \in Status
    BY <1>2, <1>3, PathSteps DEF Create, At, InitialStatus, Status
  <2> QED
    BY <1>1, <1>3, <2>1 DEF Create
<1>4. CASE Update(r)
  <2>1. a \in Activity
    BY <1>2, <1>4, PathSteps DEF Update, At
  <2> QED
    BY <1>1, <1>4, <2>1 DEF Update, Status
<1>5. CASE Delete(r)
  BY <1>1, <1>5 DEF history, Delete, Status
<1>6. CASE Decide(r)
  <2>1. a \in Activity
    BY <1>2, <1>6, PathSteps DEF Decide, At
  <2>2. status' \in [Activity -> Status]
    BY <1>1, <1>6 DEF Decide, Status
  <2>3. CASE approved' = approved
    BY <1>1, <1>6, <2>2, <2>3 DEF Decide
  <2>4. CASE Undecided(a) /\ approved' = [approved EXCEPT ![a] = @ \cup {edition[a]}]
    <3>1. edition[a] \in Request
      BY <2>1, <2>4 DEF IInv, RowsAreWritten, Undecided, Exists
    <3> QED
      BY <1>1, <1>6, <2>1, <2>2, <2>4, <3>1 DEF Decide
  <2> QED
    BY <1>6, <2>3, <2>4 DEF Decide, history
<1>7. CASE InsertReview(r)
  <2>1. call[r].op = "review"
    BY <1>2, <1>7, PathSteps DEF InsertReview, At
  <2>2. [id |-> r, user |-> call[r].user, activity |-> a, rating |-> call[r].rating] \in Review
    BY <1>2, <2>1 DEF Review
  <2> QED
    BY <1>1, <1>7, <2>2 DEF history, InsertReview
<1>8. CASE Change(r)
  <2>1. call[r].op \in {"rerate", "unreview"}
    BY <1>2, <1>8, PathSteps DEF Change, At
  <2>2. \A v \in Named(r) : call[r].op = "rerate" => [v EXCEPT !.rating = call[r].rating] \in Review
    BY <1>1, <1>2, RerateType DEF Named, ReviewsOf
  <2>3. reviews' \subseteq Review
    BY <1>1, <1>8, <2>1, <2>2 DEF Change
  <2> QED
    BY <1>1, <1>8, <2>3 DEF history, Change
<1>9. CASE Recalc(r)
  <2>1. seen[r] \subseteq Review
    BY <1>9 DEF Recalc, At, IInv, ReviewsKeepTheirAuthor
  <2> QED
    BY <1>1, <1>9, <2>1 DEF history, Recalc
<1>10. CASE \/ CheckOwner(r) \/ ReadKeys(r) \/ DeleteKeys(r) \/ ReadCache(r) \/ QueryList(r)
            \/ SetCache(r) \/ Audit(r) \/ CheckPublished(r) \/ CheckPlanned(r)
            \/ CheckAuthor(r) \/ Snapshot(r)
  BY <1>1, <1>10 DEF CheckOwner, ReadKeys, DeleteKeys, ReadCache, QueryList, SetCache, Audit,
     CheckPublished, CheckPlanned, CheckAuthor, Snapshot, tables, history
<1> QED
  BY <1>3, <1>4, <1>5, <1>6, <1>7, <1>8, <1>9, <1>10 DEF Step

\* The decisions, the audit log and what the statements have read keep their types.
LEMMA RequestsType ==
    ASSUME IInv, NEW r \in Request, Step(r)
    PROVE  /\ decisions' \subseteq [activity : Activity, edition : Request \cup {None}, by : Request]
           /\ audit' \subseteq {d.by : d \in decisions'}
           /\ keys' \in [Request -> BOOLEAN]
           /\ seen' \in [Request -> SUBSET (Row \cup Review)]
<1> DEFINE a == call[r].activity
<1>1. /\ status \in [Activity -> Status] /\ edition \in [Activity -> Request \cup {None}]
      /\ rated \in [Activity -> SUBSET Review] /\ reviews \subseteq Review
      /\ keys \in [Request -> BOOLEAN] /\ seen \in [Request -> SUBSET (Row \cup Review)]
      /\ decisions \subseteq [activity : Activity, edition : Request \cup {None}, by : Request]
      /\ audit \subseteq {d.by : d \in decisions}
  BY DEF IInv, TypeOK, Shapes
<1>2. pc[r] \in PathOf(call[r].op) /\ call[r].op \in Ops /\ (call[r].op # "list" => a \in Activity)
  BY StepMoves, RunningCall DEF Moves
<1>3. CASE Decide(r)
  <2>1. a \in Activity
    BY <1>2, <1>3, PathSteps DEF Decide, At
  <2>2. [activity |-> a, edition |-> edition[a], by |-> r]
          \in [activity : Activity, edition : Request \cup {None}, by : Request]
    BY <1>1, <2>1
  <2>3. /\ decisions \subseteq decisions' /\ audit' = audit
        /\ decisions' \subseteq [activity : Activity, edition : Request \cup {None}, by : Request]
    BY <1>1, <1>3, <2>2 DEF Decide, history
  <2>4. keys' = keys /\ seen' = seen
    BY <1>3 DEF Decide, redis
  <2> QED
    BY <1>1, <2>3, <2>4
<1>4. CASE Audit(r)
  <2>1. PICK d \in decisions : d.by = r
    BY <1>4 DEF Audit, At, IInv, AuditFollowsDecision
  <2> QED
    BY <1>1, <1>4, <2>1 DEF Audit, history, redis
<1>5. CASE ReadCache(r)
  <2>1. cache # None => cache \subseteq Row
    BY DEF IInv, PublicWasApproved, Approved
  <2> QED
    BY <1>1, <1>5, <2>1 DEF ReadCache, tables, redis, history
<1>6. CASE QueryList(r)
  <2>1. Listing \subseteq Row
    BY <1>1 DEF Listing, Row
  <2> QED
    BY <1>1, <1>6, <2>1 DEF QueryList, tables, redis, history
<1>7. CASE Snapshot(r)
  BY <1>1, <1>7 DEF Snapshot, ReviewsOf, tables, redis, history
<1>8. CASE ReadKeys(r)
  BY <1>1, <1>8 DEF ReadKeys, tables, history
<1>9. CASE \/ Create(r) \/ CheckOwner(r) \/ Update(r) \/ Delete(r) \/ DeleteKeys(r) \/ SetCache(r)
           \/ CheckPublished(r) \/ CheckPlanned(r) \/ InsertReview(r) \/ CheckAuthor(r)
           \/ Change(r) \/ Recalc(r)
  BY <1>1, <1>9 DEF Create, CheckOwner, Update, Delete, DeleteKeys, SetCache, CheckPublished,
     CheckPlanned, InsertReview, CheckAuthor, Change, Recalc, tables, redis, history
<1> QED
  BY <1>3, <1>4, <1>5, <1>6, <1>7, <1>8, <1>9 DEF Step

\* Every step keeps the types.
LEMMA TypeStep == IInv /\ [Next]_vars => TypeOK' /\ Shapes'
<1> SUFFICES ASSUME IInv, [Next]_vars PROVE TypeOK' /\ Shapes'
  OBVIOUS
<1>1. /\ TypeOK /\ Shapes
      /\ \A r \in Request : pc'[r] \notin {"idle", "done"} => call'[r] # None
  <2>1. RequestsKeepTheirPath'
    BY PathStep
  <2> QED
    BY <2>1, CallTypes DEF IInv, RequestsKeepTheirPath
<1>2. ASSUME NEW r \in Request, NEW c \in Calls, Start(r, c)
      PROVE  TypeOK' /\ Shapes'
  <2>1. FirstStep(c.op) \in Steps
    BY CallTypes, PathTypes
  <2> QED
    BY <1>1, <1>2, <2>1 DEF Start, TypeOK, Shapes, tables, redis, history
<1>3. ASSUME NEW r \in Request, Step(r)
      PROVE  TypeOK' /\ Shapes'
  <2>1. /\ pc' \in [Request -> Steps] /\ reply' \in [Request -> Replies] /\ call' = call
    BY <1>1, <1>3, StepMoves DEF Moves, TypeOK
  <2> QED
    BY <1>1, <1>3, <2>1, TablesType, RequestsType DEF TypeOK, Shapes
<1>4. ASSUME NEW r \in Request, Fail(r)
      PROVE  TypeOK' /\ Shapes'
  BY <1>1, <1>4 DEF Fail, Answer, TypeOK, Shapes, tables, redis, history, Steps, Replies
<1>5. CASE UNCHANGED vars \/ Expire \/ \E p \in planned : Unplan(p)
  BY <1>1, <1>5 DEF vars, Expire, Unplan, requests, TypeOK, Shapes, tables, redis, history
<1> QED
  BY <1>2, <1>3, <1>4, <1>5 DEF Next

-------------------------------------------------------------------------------
(* Editions, decisions and the public list *)

\* What was approved stays approved.
LEMMA ApprovalsStay ==
    ASSUME IInv, [Next]_vars
    PROVE  \A a \in Activity : approved[a] \subseteq approved'[a]
<1>1. approved \in [Activity -> SUBSET Request]
  BY DEF IInv, Shapes
<1>2. ASSUME NEW r \in Request, Step(r)
      PROVE  \/ approved' = approved
             \/ \E a, S : approved' = [approved EXCEPT ![a] = @ \cup S]
  <2>1. CASE Create(r) \/ Update(r)
    BY <2>1 DEF Create, Update
  <2>2. CASE Decide(r)
    BY <2>2 DEF Decide, history
  <2>3. CASE \/ CheckOwner(r) \/ Delete(r) \/ ReadKeys(r) \/ DeleteKeys(r) \/ ReadCache(r)
             \/ QueryList(r) \/ SetCache(r) \/ Audit(r) \/ CheckPublished(r) \/ CheckPlanned(r)
             \/ InsertReview(r) \/ CheckAuthor(r) \/ Change(r) \/ Snapshot(r) \/ Recalc(r)
    BY <2>3 DEF CheckOwner, Delete, ReadKeys, DeleteKeys, ReadCache, QueryList, SetCache, Audit,
       CheckPublished, CheckPlanned, InsertReview, CheckAuthor, Change, Snapshot, Recalc, history
  <2> QED
    BY <1>2, <2>1, <2>2, <2>3 DEF Step
<1>3. CASE UNCHANGED approved
  BY <1>3
<1> QED
  BY <1>1, <1>2, <1>3 DEF Next, Start, Fail, Expire, Unplan, history, vars

\* A list that was approved stays so.
LEMMA ApprovedStays ==
    ASSUME IInv, [Next]_vars, NEW list, Approved(list)
    PROVE  \A row \in list : row \in Row /\ row.edition \in approved'[row.activity]
  BY ApprovalsStay DEF Approved, Row

\* The public list of the table is approved, as long as what is published is.
LEMMA ListingApproved ==
    ASSUME IInv
    PROVE  Approved(Listing)
<1>1. /\ edition \in [Activity -> Request \cup {None}] /\ rated \in [Activity -> SUBSET Review]
      /\ \A a \in Activity : status[a] = "published" => edition[a] \in approved[a]
  BY DEF IInv, TypeOK, Shapes, PublicWasApproved
<1> QED
  BY <1>1 DEF Approved, Listing, Row

\* Whatever is shown, cached or answered is approved by the time it is.
LEMMA PublicStep == IInv /\ [Next]_vars => PublicWasApproved'
<1> SUFFICES ASSUME IInv, [Next]_vars PROVE PublicWasApproved'
  OBVIOUS
<1> DEFINE Fit(list) == \A row \in list : row \in Row /\ row.edition \in approved'[row.activity]
<1>1. \A list : Approved(list) => Fit(list)
  BY ApprovedStays
<1>2. /\ \A a \in Activity : status[a] = "published" => edition[a] \in approved'[a]
      /\ cache # None => Fit(cache)
      /\ \A r \in Request : call[r] # None /\ call[r].op = "list" => Fit(seen[r])
      /\ Fit(Listing)
  BY <1>1, ApprovalsStay, ListingApproved DEF IInv, PublicWasApproved
<1>3. /\ status \in [Activity -> Status] /\ edition \in [Activity -> Request \cup {None}]
      /\ approved \in [Activity -> SUBSET Request] /\ call \in [Request -> Calls \cup {None}]
      /\ seen \in [Request -> SUBSET (Row \cup Review)]
  BY DEF IInv, TypeOK, Shapes
<1> HIDE DEF Fit
<1>4. ASSUME \A a \in Activity : status'[a] = "published" => edition'[a] \in approved'[a],
             cache' # None => Fit(cache'),
             \A r \in Request : call'[r] # None /\ call'[r].op = "list" => Fit(seen'[r])
      PROVE  PublicWasApproved'
  BY <1>4 DEF PublicWasApproved, Approved, Fit
<1>5. ASSUME NEW r \in Request, Step(r)
      PROVE  PublicWasApproved'
  <2> DEFINE a == call[r].activity
  <2>1. /\ pc[r] \in PathOf(call[r].op) /\ call[r].op \in Ops /\ call' = call /\ call[r] # None
        /\ (call[r].op # "list" => a \in Activity)
    BY <1>5, StepMoves, RunningCall DEF Moves
  <2>2. \A b \in Activity : status'[b] = "published" => edition'[b] \in approved'[b]
    <3>1. CASE Create(r)
      <4>1. a \in Activity
        BY <2>1, <3>1, PathSteps DEF Create, At
      <4> QED
        BY <1>2, <1>3, <3>1, <4>1, RolesAssumption DEF Create, InitialStatus
    <3>2. CASE Update(r)
      <4>1. a \in Activity
        BY <2>1, <3>2, PathSteps DEF Update, At
      <4> QED
        BY <1>2, <1>3, <3>2, <4>1, RolesAssumption DEF Update, ModeratedAgain
    <3>3. CASE Delete(r)
      BY <1>2, <1>3, <3>3 DEF Delete
    <3>4. CASE Decide(r)
      <4>1. a \in Activity
        BY <2>1, <3>4, PathSteps DEF Decide, At
      <4> QED
        BY <1>2, <1>3, <3>4, <4>1 DEF Decide
    <3>5. CASE status' = status /\ edition' = edition
      BY <1>2, <3>5
    <3> QED
      BY <1>5, <3>1, <3>2, <3>3, <3>4, <3>5 DEF Step, CheckOwner, ReadKeys, DeleteKeys, ReadCache,
         QueryList, SetCache, Audit, CheckPublished, CheckPlanned, InsertReview, CheckAuthor,
         Change, Snapshot, Recalc, tables
  <2>3. cache' # None => Fit(cache')
    <3>1. CASE DeleteKeys(r)
      BY <1>2, <3>1 DEF DeleteKeys
    <3>2. CASE SetCache(r)
      <4>1. Fit(seen[r])
        BY <1>2, <2>1, <3>2, PathSteps DEF SetCache, At
      <4> QED
        BY <1>2, <3>2, <4>1 DEF SetCache
    <3>3. CASE cache' = cache
      BY <1>2, <3>3
    <3> QED
      BY <1>5, <3>1, <3>2, <3>3 DEF Step, Create, CheckOwner, Update, Delete, ReadKeys, ReadCache,
         QueryList, Decide, Audit, CheckPublished, CheckPlanned, InsertReview, CheckAuthor,
         Change, Snapshot, Recalc, redis
  <2>4. \A q \in Request : call[q] # None /\ call[q].op = "list" => Fit(seen'[q])
    <3>1. CASE ReadCache(r)
      BY <1>2, <1>3, <3>1 DEF ReadCache
    <3>2. CASE QueryList(r)
      BY <1>2, <1>3, <3>2 DEF QueryList
    <3>3. CASE Snapshot(r)
      <4>1. call[r].op # "list"
        BY <2>1, <3>3, PathSteps DEF Snapshot, At
      <4> QED
        BY <1>2, <1>3, <3>3, <4>1 DEF Snapshot
    <3>4. CASE seen' = seen
      BY <1>2, <3>4
    <3> QED
      BY <1>5, <3>1, <3>2, <3>3, <3>4 DEF Step, Create, CheckOwner, Update, Delete, ReadKeys,
         DeleteKeys, SetCache, Decide, Audit, CheckPublished, CheckPlanned, InsertReview,
         CheckAuthor, Change, Recalc
  <2> QED
    BY <1>4, <2>1, <2>2, <2>3, <2>4
<1>6. ASSUME NEW r \in Request, NEW c \in Calls, Start(r, c)
      PROVE  PublicWasApproved'
  <2>1. seen[r] = {} /\ Fit({})
    BY <1>6 DEF Start, IInv, RequestsKeepTheirPath, Fit
  <2> QED
    BY <1>2, <1>3, <1>4, <1>6, <2>1 DEF Start, tables, redis
<1>7. CASE \/ UNCHANGED vars \/ Expire
           \/ \E r \in Request : Fail(r)
           \/ \E p \in planned : Unplan(p)
  <2>1. /\ status' = status /\ edition' = edition /\ call' = call /\ seen' = seen
        /\ cache' \in {cache, None}
    BY <1>7 DEF vars, Expire, Fail, Unplan, tables, redis, requests
  <2> QED
    BY <1>2, <1>4, <2>1
<1> QED
  BY <1>5, <1>6, <1>7 DEF Next

\* A request that has written its edition never writes another.
LEMMA WrittenStays ==
    ASSUME IInv, [Next]_vars
    PROVE  \A x \in Request : Written(x) => pc'[x] \notin {"idle", "insert", "owner?", "update"}
<1>1. pc \in [Request -> Steps]
  BY DEF IInv, TypeOK
<1>2. ASSUME NEW r \in Request, Step(r), Written(r)
      PROVE  /\ \A q \in Request \ {r} : pc'[q] = pc[q]
             /\ pc'[r] \notin {"idle", "insert", "owner?", "update"}
  BY <1>1, <1>2 DEF Step, At, GoTo, Answer, ReadBack, Written, Create, CheckOwner, Update, Delete,
     ReadKeys, DeleteKeys, ReadCache, QueryList, SetCache, Decide, Audit, CheckPublished,
     CheckPlanned, InsertReview, CheckAuthor, Change, Snapshot, Recalc
<1>3. ASSUME NEW r \in Request, Step(r)
      PROVE  \A q \in Request \ {r} : pc'[q] = pc[q]
  BY <1>1, <1>3, StepMoves DEF Moves
<1>4. ASSUME NEW r \in Request, NEW c \in Calls, Start(r, c)
      PROVE  \A x \in Request : Written(x) => pc'[x] = pc[x]
  BY <1>1, <1>4 DEF Start, Written
<1>5. ASSUME NEW r \in Request, Fail(r)
      PROVE  \A x \in Request : Written(x) => pc'[x] \notin {"idle", "insert", "owner?", "update"}
  BY <1>1, <1>5 DEF Fail, Answer, Written
<1>6. CASE UNCHANGED pc
  BY <1>6 DEF Written
<1> QED
  BY <1>2, <1>3, <1>4, <1>5, <1>6 DEF Next, Expire, Unplan, requests, vars, Written

\* How a statement changes the rows, their editions and the decisions.
LEMMA EditorialSteps ==
    ASSUME IInv, NEW r \in Request, Step(r)
    PROVE  LET a == call[r].activity IN
           \/ Decide(r) /\ a \in Activity
           \/ /\ pc[r] \in {"insert", "update"} /\ pc' = [pc EXCEPT ![r] = "keys"]
              /\ a \in Activity
              /\ edition' = [edition EXCEPT ![a] = r]
              /\ \A b \in Activity \ {a} : status'[b] = status[b]
              /\ decisions' = decisions
           \/ /\ edition' = edition /\ decisions' = decisions
              /\ \A b \in Activity : status'[b] = status[b] \/ status'[b] = "deleted"
<1> DEFINE a == call[r].activity
<1>1. /\ pc[r] \in PathOf(call[r].op) /\ call[r].op \in Ops
      /\ (call[r].op # "list" => a \in Activity)
      /\ status \in [Activity -> Status]
  BY StepMoves, RunningCall DEF Moves, IInv, TypeOK
<1>2. CASE Create(r)
  <2>1. a \in Activity
    BY <1>1, <1>2, PathSteps DEF Create, At
  <2> QED
    BY <1>1, <1>2, <2>1 DEF Create, At, GoTo
<1>3. CASE Update(r)
  <2>1. a \in Activity
    BY <1>1, <1>3, PathSteps DEF Update, At
  <2>2. CASE Exists(a) /\ call[r].op = "edit"
    BY <1>1, <1>3, <2>1, <2>2 DEF Update, At, GoTo
  <2>3. CASE ~(Exists(a) /\ call[r].op = "edit")
    BY <1>1, <1>3, <2>3 DEF Update, At, GoTo
  <2> QED
    BY <2>2, <2>3
<1>4. CASE Delete(r)
  BY <1>1, <1>4 DEF Delete, history
<1>5. CASE Decide(r)
  <2>1. a \in Activity
    BY <1>1, <1>5, PathSteps DEF Decide, At
  <2> QED
    BY <1>5, <2>1
<1>6. CASE \/ CheckOwner(r) \/ ReadKeys(r) \/ DeleteKeys(r) \/ ReadCache(r) \/ QueryList(r)
           \/ SetCache(r) \/ Audit(r) \/ CheckPublished(r) \/ CheckPlanned(r) \/ InsertReview(r)
           \/ CheckAuthor(r) \/ Change(r) \/ Snapshot(r) \/ Recalc(r)
  BY <1>1, <1>6 DEF CheckOwner, ReadKeys, DeleteKeys, ReadCache, QueryList, SetCache, Audit,
     CheckPublished, CheckPlanned, InsertReview, CheckAuthor, Change, Snapshot, Recalc,
     tables, history
<1> QED
  BY <1>2, <1>3, <1>4, <1>5, <1>6 DEF Step

\* The parts of the invariant that speak of editions and decisions.
Editorial ==
    /\ RowsAreWritten /\ EditionsWereWritten
    /\ DecidedOnce /\ PendingIsUndecided
    /\ AuditFollowsDecision

\* An edition is written once, under a fresh name, and decided at most once.
LEMMA EditorialStep == IInv /\ [Next]_vars => Editorial'
<1> SUFFICES ASSUME IInv, [Next]_vars PROVE Editorial'
  OBVIOUS
<1>1. /\ status \in [Activity -> Status] /\ edition \in [Activity -> Request \cup {None}]
      /\ pc \in [Request -> Steps]
      /\ decisions \subseteq [activity : Activity, edition : Request \cup {None}, by : Request]
      /\ Editorial
  BY DEF IInv, TypeOK, Shapes, Editorial
<1>2. \A x \in Request : Written(x) => Written(x)'
  BY WrittenStays DEF Written
<1>3. ASSUME NEW r \in Request, Step(r)
      PROVE  Editorial'
  <2>1. PICK a : a = call[r].activity /\ (Decide(r) => a \in Activity)
    BY <1>3, StepMoves, RunningCall, PathSteps DEF Moves, Decide, At
  <2>2. CASE Decide(r) /\ a \in Activity /\ Undecided(a)
    <3>1. /\ status' = [status EXCEPT ![a] = IF call[r].op = "approve" THEN "published"
                                             ELSE "rejected"]
          /\ decisions' = decisions \cup {[activity |-> a, edition |-> edition[a], by |-> r]}
          /\ edition' = edition /\ pc' = [pc EXCEPT ![r] = "audit"]
          /\ status[a] = "pending"
      BY <2>1, <2>2 DEF Decide, Undecided, GoTo
    <3>2. edition[a] \in Request
      BY <2>2, <3>1 DEF IInv, RowsAreWritten, Exists
    <3>3. RowsAreWritten'
      BY <1>1, <3>1, <3>2 DEF Editorial, RowsAreWritten, Exists
    <3>4. EditionsWereWritten'
      BY <1>1, <1>2, <2>2, <3>1 DEF Editorial, EditionsWereWritten
    <3>5. DecidedOnce' /\ PendingIsUndecided'
      BY <1>1, <2>2, <3>1 DEF Editorial, DecidedOnce, PendingIsUndecided
    <3>6. AuditFollowsDecision'
      <4>1. \E d \in decisions' : d.by = r
        <5> DEFINE new == [activity |-> a, edition |-> edition[a], by |-> r]
        <5>1. new \in decisions' /\ new.by = r
          BY <3>1
        <5> QED
          BY <5>1
      <4>2. \A q \in Request \ {r} : pc'[q] = "audit" => \E d \in decisions : d.by = q
        BY <1>1, <3>1 DEF Editorial, AuditFollowsDecision
      <4> QED
        BY <3>1, <4>1, <4>2 DEF AuditFollowsDecision
    <3> QED
      BY <3>3, <3>4, <3>5, <3>6 DEF Editorial
  <2>3. CASE Decide(r) /\ ~Undecided(a)
    <3>1. /\ UNCHANGED <<status, edition, decisions>> /\ pc' = [pc EXCEPT ![r] = "done"]
      BY <2>1, <2>3 DEF Decide, Answer, history
    <3> QED
      BY <1>1, <1>2, <3>1 DEF Editorial, RowsAreWritten, EditionsWereWritten, DecidedOnce,
         PendingIsUndecided, AuditFollowsDecision, Exists
  <2>4. CASE /\ pc[r] \in {"insert", "update"} /\ pc' = [pc EXCEPT ![r] = "keys"]
             /\ a \in Activity
             /\ edition' = [edition EXCEPT ![a] = r]
             /\ \A b \in Activity \ {a} : status'[b] = status[b]
             /\ decisions' = decisions
    <3>1. RowsAreWritten'
      BY <1>1, <2>4 DEF Editorial, RowsAreWritten, Exists
    <3>2. EditionsWereWritten'
      <4>1. Written(r)'
        BY <1>1, <2>4 DEF Written
      <4> QED
        BY <1>1, <1>2, <2>4, <4>1 DEF Editorial, EditionsWereWritten
    <3>3. DecidedOnce'
      BY <1>1, <2>4 DEF Editorial, DecidedOnce
    <3>4. PendingIsUndecided'
      <4>1. ~Written(r)
        BY <2>4 DEF Written
      <4>2. \A d \in decisions : d.edition # r
        BY <1>1, <4>1 DEF Editorial, EditionsWereWritten
      <4> QED
        BY <1>1, <2>4, <4>2 DEF Editorial, PendingIsUndecided
    <3>5. AuditFollowsDecision'
      BY <1>1, <2>4 DEF Editorial, AuditFollowsDecision
    <3> QED
      BY <3>1, <3>2, <3>3, <3>4, <3>5 DEF Editorial
  <2>5. CASE /\ ~Decide(r)
             /\ edition' = edition /\ decisions' = decisions
             /\ \A b \in Activity : status'[b] = status[b] \/ status'[b] = "deleted"
    <3>1. \A q \in Request : pc'[q] = "audit" => pc[q] = "audit"
      BY <1>1, <1>3, <2>5 DEF Step, At, GoTo, Answer, ReadBack, Create, CheckOwner, Update, Delete,
         ReadKeys, DeleteKeys, ReadCache, QueryList, SetCache, Audit, CheckPublished,
         CheckPlanned, InsertReview, CheckAuthor, Change, Snapshot, Recalc
    <3>2. RowsAreWritten' /\ EditionsWereWritten'
      BY <1>1, <1>2, <2>5 DEF Editorial, RowsAreWritten, EditionsWereWritten, Exists
    <3>3. DecidedOnce' /\ PendingIsUndecided' /\ AuditFollowsDecision'
      BY <1>1, <2>5, <3>1 DEF Editorial, DecidedOnce, PendingIsUndecided, AuditFollowsDecision
    <3> QED
      BY <3>2, <3>3 DEF Editorial
  <2> QED
    BY <1>3, <2>1, <2>2, <2>3, <2>4, <2>5, EditorialSteps
<1>4. ASSUME NEW r \in Request, Fail(r) \/ \E c \in Calls : Start(r, c)
      PROVE  Editorial'
  <2>1. /\ UNCHANGED <<status, edition, decisions>>
        /\ \A q \in Request : pc'[q] = "audit" => pc[q] = "audit"
    BY <1>1, <1>4, CallTypes DEF Fail, Answer, Start, FirstStep, Ops, tables, history
  <2> QED
    BY <1>1, <1>2, <2>1 DEF Editorial, RowsAreWritten, EditionsWereWritten, DecidedOnce,
       PendingIsUndecided, AuditFollowsDecision, Exists
<1>5. CASE UNCHANGED vars \/ Expire \/ \E p \in planned : Unplan(p)
  <2>1. UNCHANGED <<status, edition, decisions, pc>>
    BY <1>5 DEF vars, Expire, Unplan, tables, requests, history
  <2> QED
    BY <1>1, <1>2, <2>1 DEF Editorial, RowsAreWritten, EditionsWereWritten, DecidedOnce,
       PendingIsUndecided, AuditFollowsDecision, Exists
<1> QED
  BY <1>3, <1>4, <1>5 DEF Next

-------------------------------------------------------------------------------
(* Reviews *)

\* An activity is gone only by its deletion.
LEMMA RowsStay ==
    ASSUME IInv, NEW r \in Request, Step(r), ~Delete(r)
    PROVE  \A b \in Activity : Exists(b) => Exists(b)'
<1>1. status \in [Activity -> Status]
  BY DEF IInv, TypeOK
<1>2. CASE Create(r) \/ Update(r) \/ Decide(r)
  BY <1>1, <1>2 DEF Create, Update, Decide, InitialStatus, Exists
<1>3. CASE status' = status
  BY <1>3 DEF Exists
<1> QED
  BY <1>2, <1>3 DEF Step, CheckOwner, ReadKeys, DeleteKeys, ReadCache, QueryList, SetCache, Audit,
     CheckPublished, CheckPlanned, InsertReview, CheckAuthor, Change, Snapshot, Recalc, tables

\* Every review after a step is one that was there, with its rating or the new one that
\* its author has asked for, or the review of a request that inserts it.
LEMMA ReviewSteps ==
    ASSUME IInv, NEW r \in Request, Step(r)
    PROVE  \/ /\ InsertReview(r)
              /\ ~AlreadyReviewed(r) /\ Exists(call[r].activity) /\ call[r].op = "review"
              /\ reviews' = reviews \cup {[id |-> r, user |-> call[r].user,
                                           activity |-> call[r].activity,
                                           rating |-> call[r].rating]}
           \/ /\ ~InsertReview(r)
              /\ \A v \in reviews' : \E w \in reviews :
                    /\ v.id = w.id /\ v.user = w.user /\ v.activity = w.activity
                    /\ \/ v = w
                       \/ /\ w.id = call[r].target /\ w.activity = call[r].activity
                          /\ pc[r] = "change" /\ call[r].op = "rerate"
                          /\ v = [w EXCEPT !.rating = call[r].rating]
                    /\ Change(r) /\ call[r].op = "rerate" /\ w \in Named(r)
                          => v = [w EXCEPT !.rating = call[r].rating]
           \/ InsertReview(r) /\ reviews' = reviews
<1>1. /\ pc[r] \in PathOf(call[r].op) /\ call[r].op \in Ops /\ reviews \subseteq Review
      /\ (call[r].op \in {"review", "rerate"} => call[r].rating \in Rating)
  BY StepMoves, RunningCall DEF Moves, IInv, TypeOK
<1>2. CASE InsertReview(r)
  BY <1>1, <1>2, PathSteps DEF InsertReview, At
<1>3. CASE Change(r)
  <2>1. pc[r] = "change" /\ call[r].op \in {"rerate", "unreview"} /\ ~InsertReview(r)
    BY <1>1, <1>3, PathSteps DEF Change, InsertReview, At
  <2>2. CASE call[r].op = "unreview"
    BY <1>3, <2>1, <2>2 DEF Change
  <2>3. CASE call[r].op = "rerate"
    <3>1. reviews' = (reviews \ Named(r)) \cup
                        {[w EXCEPT !.rating = call[r].rating] : w \in Named(r)}
      BY <1>3, <2>3 DEF Change
    <3>2. ASSUME NEW v \in reviews', v \in reviews \ Named(r)
          PROVE  \E w \in reviews :
                    /\ v.id = w.id /\ v.user = w.user /\ v.activity = w.activity
                    /\ v = w /\ w \notin Named(r)
      BY <3>2
    <3>3. ASSUME NEW v \in reviews', v \notin reviews \ Named(r)
          PROVE  \E w \in Named(r) :
                    /\ v.id = w.id /\ v.user = w.user /\ v.activity = w.activity
                    /\ w.id = call[r].target /\ w.activity = call[r].activity
                    /\ v = [w EXCEPT !.rating = call[r].rating]
      <4>1. PICK w \in Named(r) : v = [w EXCEPT !.rating = call[r].rating]
        BY <3>1, <3>3
      <4> QED
        BY <1>1, <2>3, <4>1, RerateType DEF Named, ReviewsOf
    <3>4. Named(r) \subseteq reviews
      BY DEF Named, ReviewsOf
    <3> QED
      BY <2>1, <2>3, <3>2, <3>3, <3>4
  <2> QED
    BY <2>1, <2>2, <2>3
<1>4. CASE reviews' \subseteq reviews /\ ~InsertReview(r) /\ ~Change(r)
  BY <1>4
<1> QED
  BY <1>2, <1>3, <1>4 DEF Step, Create, CheckOwner, Update, Delete, ReadKeys, DeleteKeys, ReadCache,
     QueryList, SetCache, Decide, Audit, CheckPublished, CheckPlanned, CheckAuthor, Snapshot,
     Recalc, tables

\* The parts of the invariant that speak of reviews.
Reviewing == ReviewsKeepTheirAuthor /\ OneReviewPerUser /\ RatedByAuthors

\* A step that leaves the reviews alone and prepares no change of one.
LEMMA ReviewsStay ==
    ASSUME IInv, reviews' = reviews, [Next]_vars,
           \A b \in Activity : Exists(b) => Exists(b)',
           \A r \in Request : pc'[r] \in {"change", "recalc"} =>
                pc[r] = pc'[r] /\ call[r] # None /\ seen'[r] = seen[r]
    PROVE  Reviewing'
<1>1. /\ reviews \subseteq Review /\ Reviewing
      /\ \A r \in Request : call[r] # None => call'[r] = call[r]
  BY CallsStay DEF IInv, TypeOK, Reviewing
<1>2. \A v \in reviews : v.id \in Request /\ v.activity \in Activity
  BY <1>1 DEF Review
<1>3. \A r \in Request :
         pc[r] = "change" /\ call[r].op = "rerate" /\ call[r] # None => call[r].target \in Request
  BY CallTypes DEF IInv, Shapes
<1>4. ReviewsKeepTheirAuthor'
  BY <1>1, <1>2, <1>3 DEF Reviewing, ReviewsKeepTheirAuthor
<1>5. OneReviewPerUser' /\ RatedByAuthors'
  BY <1>1, <1>2 DEF Reviewing, OneReviewPerUser, RatedByAuthors
<1> QED
  BY <1>4, <1>5 DEF Reviewing

\* A member has one review of an activity, with a rating of the member's own, and none is
\* left of a deleted activity.
LEMMA ReviewingStep == IInv /\ [Next]_vars => Reviewing'
<1> SUFFICES ASSUME IInv, [Next]_vars PROVE Reviewing'
  OBVIOUS
<1>1. /\ status \in [Activity -> Status] /\ reviews \subseteq Review
      /\ pc \in [Request -> Steps] /\ seen \in [Request -> SUBSET (Row \cup Review)]
      /\ \A v \in reviews : v.id \in Request /\ v.activity \in Activity
      /\ \A r \in Request : pc[r] \notin {"idle", "done"} => call[r] # None
      /\ Reviewing
  BY RunningCall DEF IInv, TypeOK, Shapes, Review, Reviewing
<1>2. ASSUME NEW r \in Request, Step(r)
      PROVE  Reviewing'
  <2>1. /\ pc[r] \in PathOf(call[r].op) /\ call[r].op \in Ops /\ call' = call
        /\ pc[r] \notin {"idle", "done"} /\ call[r] # None
        /\ \A q \in Request \ {r} : pc'[q] = pc[q]
    BY <1>1, <1>2, StepMoves, RunningCall DEF Moves
  <2>2. ReviewsKeepTheirAuthor'
    <3>1. \A v \in reviews' : /\ call[v.id] # None /\ call[v.id].op = "review"
                              /\ call[v.id].user = v.user /\ call[v.id].activity = v.activity
      <4>1. CASE InsertReview(r)
        BY <1>1, <1>2, <2>1, <4>1, ReviewSteps DEF Reviewing, ReviewsKeepTheirAuthor
      <4>2. CASE ~InsertReview(r)
        <5>1. \A v \in reviews' : \E w \in reviews :
                 v.id = w.id /\ v.user = w.user /\ v.activity = w.activity
          BY <1>2, <4>2, ReviewSteps
        <5> QED
          BY <1>1, <5>1 DEF Reviewing, ReviewsKeepTheirAuthor
      <4> QED
        BY <4>1, <4>2
    <3>2. \A q \in Request \ {r} : seen'[q] = seen[q]
      BY <1>1, <1>2 DEF Step, Create, CheckOwner, Update, Delete, ReadKeys, DeleteKeys, ReadCache,
         QueryList, SetCache, Decide, Audit, CheckPublished, CheckPlanned, InsertReview,
         CheckAuthor, Change, Snapshot, Recalc
    <3>3. ASSUME pc'[r] = "change", call[r].op = "rerate"
          PROVE  /\ call[call[r].target] # None
                 /\ call[call[r].target].user = call[r].user
      <4>1. CheckAuthor(r)
        BY <1>1, <1>2, <3>3 DEF Step, At, GoTo, Answer, ReadBack, Create, CheckOwner, Update,
           Delete, ReadKeys, DeleteKeys, ReadCache, QueryList, SetCache, Decide, Audit,
           CheckPublished, CheckPlanned, InsertReview, Change, Snapshot, Recalc
      <4>2. PICK v \in Named(r) : MayChange(r, v)
        BY <1>1, <3>3, <4>1 DEF CheckAuthor, Answer
      <4>3. v \in reviews /\ v.id = call[r].target /\ v.user = call[r].user
        BY <3>3, <4>2 DEF Named, ReviewsOf, MayChange
      <4> QED
        BY <1>1, <4>3 DEF Reviewing, ReviewsKeepTheirAuthor
    <3>4. ASSUME pc'[r] = "recalc"
          PROVE  seen'[r] \subseteq Review
      <4>1. Snapshot(r)
        BY <1>1, <1>2, <3>4 DEF Step, At, GoTo, Answer, ReadBack, Create, CheckOwner, Update,
           Delete, ReadKeys, DeleteKeys, ReadCache, QueryList, SetCache, Decide, Audit,
           CheckPublished, CheckPlanned, InsertReview, CheckAuthor, Change, Recalc
      <4> QED
        BY <1>1, <4>1 DEF Snapshot, ReviewsOf
    <3> QED
      BY <1>1, <2>1, <3>1, <3>2, <3>3, <3>4 DEF Reviewing, ReviewsKeepTheirAuthor
  <2>3. OneReviewPerUser'
    <3>1. CASE InsertReview(r)
      <4>1. \A b \in Activity : Exists(b) => Exists(b)'
        BY <1>2, <3>1, RowsStay DEF InsertReview, Delete, At
      <4>2. CASE reviews' = reviews
        BY <1>1, <4>1, <4>2 DEF Reviewing, OneReviewPerUser
      <4>3. CASE /\ ~AlreadyReviewed(r) /\ Exists(call[r].activity) /\ call[r].op = "review"
                 /\ reviews' = reviews \cup {[id |-> r, user |-> call[r].user,
                                              activity |-> call[r].activity,
                                              rating |-> call[r].rating]}
        <5>1. call[r].activity \in Activity
          BY <2>1, <4>3, RunningCall
        <5> QED
          BY <1>1, <4>1, <4>3, <5>1 DEF Reviewing, OneReviewPerUser, AlreadyReviewed, ReviewsOf
      <4> QED
        BY <1>2, <3>1, <4>2, <4>3, ReviewSteps
    <3>2. CASE ~InsertReview(r) /\ ~Delete(r)
      <4>1. \A b \in Activity : Exists(b) => Exists(b)'
        BY <1>2, <3>2, RowsStay
      <4>2. ASSUME NEW v \in reviews', NEW w \in reviews',
                   v.user = w.user, v.activity = w.activity
            PROVE  v = w
        <5>1. PICK x \in reviews :
                 /\ v.user = x.user /\ v.activity = x.activity
                 /\ v = x \/ (pc[r] = "change" /\ call[r].op = "rerate"
                              /\ v = [x EXCEPT !.rating = call[r].rating]
                              /\ x.id = call[r].target /\ x.activity = call[r].activity)
                 /\ Change(r) /\ call[r].op = "rerate" /\ x \in Named(r)
                        => v = [x EXCEPT !.rating = call[r].rating]
          BY <1>2, <3>2, ReviewSteps
        <5>2. PICK y \in reviews :
                 /\ w.user = y.user /\ w.activity = y.activity
                 /\ w = y \/ (pc[r] = "change" /\ call[r].op = "rerate"
                              /\ w = [y EXCEPT !.rating = call[r].rating]
                              /\ y.id = call[r].target /\ y.activity = call[r].activity)
                 /\ Change(r) /\ call[r].op = "rerate" /\ y \in Named(r)
                        => w = [y EXCEPT !.rating = call[r].rating]
          BY <1>2, <3>2, ReviewSteps
        <5>3. x = y
          BY <1>1, <4>2, <5>1, <5>2 DEF Reviewing, OneReviewPerUser
        <5>4. pc[r] = "change" => Change(r)
          BY <1>2 DEF Step, At, Create, CheckOwner, Update, Delete, ReadKeys, DeleteKeys, ReadCache,
             QueryList, SetCache, Decide, Audit, CheckPublished, CheckPlanned, InsertReview,
             CheckAuthor, Snapshot, Recalc
        <5> QED
          BY <5>1, <5>2, <5>3, <5>4 DEF Named, ReviewsOf
      <4>3. \A v \in reviews' : \E x \in reviews : v.activity = x.activity
        BY <1>2, <3>2, ReviewSteps
      <4> QED
        BY <1>1, <4>1, <4>2, <4>3 DEF Reviewing, OneReviewPerUser
    <3>3. CASE Delete(r)
      <4>1. /\ reviews' = {v \in reviews : v.activity # call[r].activity}
            /\ \A b \in Activity \ {call[r].activity} : status'[b] = status[b]
        BY <1>1, <3>3 DEF Delete, ReviewsOf
      <4> QED
        BY <1>1, <4>1 DEF Reviewing, OneReviewPerUser, Exists
    <3> QED
      BY <3>1, <3>2, <3>3
  <2>4. RatedByAuthors'
    <3>1. CASE InsertReview(r)
      BY <1>1, <1>2, <2>1, <3>1, ReviewSteps DEF Reviewing, RatedByAuthors
    <3>2. CASE ~InsertReview(r)
      <4> SUFFICES ASSUME NEW v \in reviews'
                   PROVE  \E q \in Request :
                            /\ call[q] # None /\ call[q].op \in {"review", "rerate"}
                            /\ call[q].user = v.user /\ call[q].activity = v.activity
                            /\ call[q].rating = v.rating
        BY <2>1 DEF RatedByAuthors
      <4>1. PICK w \in reviews :
               /\ v.user = w.user /\ v.activity = w.activity
               /\ v = w \/ (pc[r] = "change" /\ call[r].op = "rerate"
                            /\ v = [w EXCEPT !.rating = call[r].rating]
                            /\ w.id = call[r].target /\ w.activity = call[r].activity)
        BY <1>2, <3>2, ReviewSteps
      <4>2. CASE v = w
        BY <1>1, <4>2 DEF Reviewing, RatedByAuthors
      <4>3. CASE /\ pc[r] = "change" /\ call[r].op = "rerate"
                 /\ v = [w EXCEPT !.rating = call[r].rating]
                 /\ w.id = call[r].target /\ w.activity = call[r].activity
        <5>1. call[w.id].user = call[r].user /\ call[w.id].user = w.user
          BY <1>1, <4>3 DEF Reviewing, ReviewsKeepTheirAuthor
        <5>2. v.rating = call[r].rating
          BY <1>1, <4>3 DEF Review
        <5> QED
          BY <2>1, <4>1, <4>3, <5>1, <5>2
      <4> QED
        BY <4>1, <4>2, <4>3
    <3> QED
      BY <3>1, <3>2
  <2> QED
    BY <2>2, <2>3, <2>4 DEF Reviewing
<1>3. ASSUME NEW r \in Request, Fail(r) \/ \E c \in Calls : Start(r, c)
      PROVE  Reviewing'
  <2>1. \A op \in Ops : FirstStep(op) \notin {"change", "recalc"}
    BY DEF FirstStep, Ops
  <2>2. /\ reviews' = reviews /\ status' = status /\ seen' = seen
        /\ \A q \in Request : pc'[q] \in {"change", "recalc"} => pc[q] = pc'[q]
    BY <1>1, <1>3, <2>1, CallTypes DEF Fail, Answer, Start, tables
  <2> QED
    BY <1>1, <2>2, ReviewsStay DEF Exists
<1>4. CASE UNCHANGED vars \/ Expire \/ \E p \in planned : Unplan(p)
  <2>1. UNCHANGED <<status, reviews, seen, pc>>
    BY <1>4 DEF vars, Expire, Unplan, tables, requests
  <2> QED
    BY <1>1, <2>1, ReviewsStay DEF Exists
<1> QED
  BY <1>2, <1>3, <1>4 DEF Next

-------------------------------------------------------------------------------
(* The theorems *)

\* The invariant holds before the first request.
LEMMA InvariantInit == Init => IInv
<1> SUFFICES ASSUME Init PROVE IInv
  OBVIOUS
<1>1. TypeOK /\ Shapes
  BY RolesAssumption DEF Init, TypeOK, Shapes, Status, Steps, Replies, Seeded
<1>2. RequestsKeepTheirPath /\ ReviewsKeepTheirAuthor /\ OneReviewPerUser /\ RatedByAuthors
  BY RolesAssumption DEF Init, RequestsKeepTheirPath, ReviewsKeepTheirAuthor, OneReviewPerUser,
     RatedByAuthors, Seeded
<1>3. PublicWasApproved
  BY RolesAssumption DEF Init, PublicWasApproved
<1>4. RowsAreWritten /\ EditionsWereWritten
  BY RolesAssumption, NoneAssumption DEF Init, RowsAreWritten, EditionsWereWritten, Written, Exists,
     Seeded
<1>5. DecidedOnce /\ PendingIsUndecided /\ AuditFollowsDecision
  BY RolesAssumption DEF Init, DecidedOnce, PendingIsUndecided, AuditFollowsDecision, Seeded
<1> QED
  BY <1>1, <1>2, <1>3, <1>4, <1>5 DEF IInv

\* Every step preserves it.
LEMMA InvariantStep == IInv /\ [Next]_vars => IInv'
  BY TypeStep, PathStep, PublicStep, EditorialStep, ReviewingStep DEF IInv, Editorial, Reviewing

\* The invariant is inductive.
THEOREM Invariant == Spec => []IInv
  BY InvariantInit, InvariantStep, PTL DEF Spec

\* Nothing reaches the public before it was approved: neither the table, nor the cached
\* list, nor an answer shows an edition that nobody has let through.
THEOREM NothingUnapproved == Spec => []ShownWasApproved
<1>1. IInv => ShownWasApproved
  BY ListingApproved DEF IInv, PublicWasApproved, Approved, ShownWasApproved
<1> QED
  BY <1>1, Invariant, PTL

\* No edition is decided twice, however many administrators decide at once.
THEOREM NothingDecidedTwice == Spec => []DecidedOnce
<1>1. IInv => DecidedOnce
  BY DEF IInv
<1> QED
  BY <1>1, Invariant, PTL

\* A member has one review of an activity at most, rated by the member alone, and a
\* deleted activity has none.
THEOREM ReviewsConsistent == Spec => []Consistent
<1>1. IInv => Consistent
  BY DEF IInv, Consistent
<1> QED
  BY <1>1, Invariant, PTL

-------------------------------------------------------------------------------
(* Ratings that are recalculated one at a time *)

NoneFailed == \A r \in Request : reply[r] # "FAILED"

\* Requests that are about to recalculate the rating of a, and those in the middle of it.
Awaited(a) == \E r \in Request : pc[r] = "snapshot" /\ call[r].activity = a
Recalculating(a) == {r \in Request : pc[r] = "recalc" /\ call[r].activity = a}

\* The statements of recalcRating for one activity do not overlap.
Serial == \A r \in Request : Snapshot(r) => Recalculating(call[r].activity) = {}

SerialSpec == Init /\ [][Next /\ Serial]_vars

\* An answer is the end of its request.
AnsweredOnce == \A r \in Request : reply[r] # "" => pc[r] = "done"

\* An activity is created once.
Creates(r, a) == call[r] # None /\ call[r].op = "create" /\ call[r].activity = a

CreatedOnce ==
    /\ \A r, q \in Request, a \in Activity : Creates(r, a) /\ Creates(q, a) => r = q
    /\ \A r \in Request, a \in DOMAIN Online : ~Creates(r, a)

Unborn(a) == a \notin DOMAIN Online /\ \A r \in Request : Creates(r, a) => pc[r] = "insert"

\* Before that it has no row, no rating and nobody who would give it one.
UnbornIsUnrated(a) ==
    Unborn(a) =>
        /\ status[a] = "absent" /\ rated[a] = {}
        /\ \A r \in Request : pc[r] \in {"change", "snapshot", "recalc"} => call[r].activity # a

OneRecalculation == \A a \in Activity : \A r, q \in Recalculating(a) : r = q

\* The rating of an activity counts its reviews, or a recalculation that will is
\* under way or to come.
RatingIsComing(a) ==
    \/ Awaited(a)
    \/ /\ \A r \in Recalculating(a) : seen[r] = ReviewsOf(a)
       /\ Recalculating(a) = {} => rated[a] = ReviewsOf(a)

SerialInv ==
    /\ IInv
    /\ AnsweredOnce /\ CreatedOnce /\ OneRecalculation
    /\ \A a \in Activity : UnbornIsUnrated(a)
    /\ NoneFailed => \A a \in Activity : Exists(a) => RatingIsComing(a)

\* A statement is of one request, and what it does not answer it leaves unanswered.
LEMMA StepIsOne ==
    ASSUME IInv, NEW r \in Request, Step(r)
    PROVE  /\ pc[r] \notin {"idle", "done"} /\ call' = call /\ call[r].op \in Ops
           /\ pc[r] \in PathOf(call[r].op)
           /\ \A q \in Request \ {r} : pc'[q] = pc[q] /\ seen'[q] = seen[q] /\ reply'[q] = reply[q]
           /\ reply'[r] = reply[r] \/ pc'[r] = "done"
           /\ Creates(r, call[r].activity) => pc'[r] # "insert"
<1>1. Moves(r) /\ pc[r] \in PathOf(call[r].op) /\ call[r].op \in Ops
  BY StepMoves
<1>2. pc \in [Request -> Steps] /\ reply \in [Request -> Replies]
      /\ seen \in [Request -> SUBSET (Row \cup Review)]
  BY DEF IInv, TypeOK, Shapes
<1>3. UNCHANGED reply \/ \E code : Answer(r, code)
  BY DEF Step, GoTo, ReadBack, Create, CheckOwner, Update, Delete, ReadKeys, DeleteKeys, ReadCache,
     QueryList, SetCache, Decide, Audit, CheckPublished, CheckPlanned, InsertReview, CheckAuthor,
     Change, Snapshot, Recalc
<1>4. UNCHANGED seen \/ \E S : seen' = [seen EXCEPT ![r] = S]
  BY DEF Step, Create, CheckOwner, Update, Delete, ReadKeys, DeleteKeys, ReadCache,
     QueryList, SetCache, Decide, Audit, CheckPublished, CheckPlanned, InsertReview, CheckAuthor,
     Change, Snapshot, Recalc
<1>5. Creates(r, call[r].activity) => pc'[r] # "insert"
  BY <1>1, <1>2 DEF Creates, Moves, OnPath, FirstStep
<1> QED
  BY <1>1, <1>2, <1>3, <1>4, <1>5 DEF Moves, Answer

\* Only the statements of reviews, creations and deletions concern a rating.
LEMMA QuietSteps ==
    ASSUME IInv, NEW r \in Request, Step(r), ~Create(r), ~Delete(r), ~InsertReview(r),
           ~Change(r), ~Snapshot(r), ~Recalc(r)
    PROVE  /\ rated' = rated /\ reviews' = reviews
           /\ \A a \in Activity : /\ Exists(a)' <=> Exists(a)
                                  /\ status[a] = "absent" => status'[a] = "absent"
           /\ pc[r] \notin {"snapshot", "recalc", "change"}
           /\ pc'[r] \notin {"snapshot", "recalc"}
           /\ pc'[r] = "change" => \E v \in reviews : v.activity = call[r].activity
<1>1. pc \in [Request -> Steps] /\ status \in [Activity -> Status]
  BY DEF IInv, TypeOK
<1>2. CASE Update(r) \/ Decide(r)
  BY <1>1, <1>2 DEF Update, Decide, Undecided, Exists, GoTo, Answer, At, tables
<1>3. CASE CheckAuthor(r)
  BY <1>1, <1>3 DEF CheckAuthor, Named, ReviewsOf, Exists, GoTo, Answer, At, tables
<1>4. CASE \/ CheckOwner(r) \/ ReadKeys(r) \/ DeleteKeys(r) \/ ReadCache(r) \/ QueryList(r)
           \/ SetCache(r) \/ Audit(r) \/ CheckPublished(r) \/ CheckPlanned(r)
  BY <1>1, <1>4 DEF CheckOwner, ReadKeys, DeleteKeys, ReadCache, QueryList, SetCache, Audit,
     CheckPublished, CheckPlanned, ReadBack, Exists, GoTo, Answer, At, tables
<1> QED
  BY <1>2, <1>3, <1>4 DEF Step

\* Answers are given once, and a failure is never forgotten.
LEMMA AnswersStay ==
    ASSUME IInv, AnsweredOnce, [Next]_vars
    PROVE  AnsweredOnce' /\ (NoneFailed' => NoneFailed)
<1>1. pc \in [Request -> Steps] /\ reply \in [Request -> Replies]
  BY DEF IInv, TypeOK
<1>2. ASSUME NEW r \in Request, Step(r) PROVE AnsweredOnce' /\ (NoneFailed' => NoneFailed)
  BY <1>2, StepIsOne DEF AnsweredOnce, NoneFailed
<1>3. ASSUME NEW r \in Request, Fail(r) PROVE AnsweredOnce' /\ (NoneFailed' => NoneFailed)
  BY <1>1, <1>3 DEF Fail, Answer, AnsweredOnce, NoneFailed
<1>4. ASSUME NEW r \in Request, NEW c \in Calls, Start(r, c)
      PROVE  AnsweredOnce' /\ (NoneFailed' => NoneFailed)
  BY <1>1, <1>4 DEF Start, AnsweredOnce, NoneFailed
<1>5. CASE UNCHANGED vars \/ Expire \/ \E p \in planned : Unplan(p)
  BY <1>5 DEF vars, Expire, Unplan, requests, AnsweredOnce, NoneFailed
<1> QED
  BY <1>2, <1>3, <1>4, <1>5 DEF Next

\* A new activity takes an id that no other creation has.
LEMMA CreatedOnceStep ==
    ASSUME IInv, CreatedOnce, [Next]_vars
    PROVE  CreatedOnce'
<1>1. call \in [Request -> Calls \cup {None}]
  BY DEF IInv, Shapes
<1>2. ASSUME NEW r \in Request, NEW c \in Calls, Start(r, c) PROVE CreatedOnce'
  <2>1. call' = [call EXCEPT ![r] = c] /\ (c.op = "create" => Fresh(c.activity))
    BY <1>2 DEF Start
  <2> QED
    BY <1>1, <2>1 DEF CreatedOnce, Creates, Fresh
<1>3. ASSUME NEW r \in Request, Step(r) \/ Fail(r) PROVE call' = call
  BY <1>3, StepIsOne DEF Fail
<1>4. CASE call' = call
  BY <1>4 DEF CreatedOnce, Creates
<1>5. CASE UNCHANGED vars \/ Expire \/ \E p \in planned : Unplan(p)
  BY <1>4, <1>5 DEF vars, Expire, Unplan, requests
<1> QED
  BY <1>2, <1>3, <1>4, <1>5 DEF Next

\* An activity that is not created yet stays without rating.
LEMMA UnbornStep ==
    ASSUME IInv, CreatedOnce, [Next]_vars, NEW a \in Activity, UnbornIsUnrated(a)
    PROVE  UnbornIsUnrated(a)'
<1>1. /\ pc \in [Request -> Steps] /\ call \in [Request -> Calls \cup {None}]
      /\ rated \in [Activity -> SUBSET Review] /\ status \in [Activity -> Status]
      /\ RequestsKeepTheirPath
  BY DEF IInv, TypeOK, Shapes
<1>2. ASSUME Unborn(a) PROVE ~Exists(a) /\ \A v \in reviews : v.activity # a
  BY <1>2 DEF UnbornIsUnrated, Exists, IInv, OneReviewPerUser
<1>3. ASSUME NEW r \in Request, Step(r) PROVE UnbornIsUnrated(a)'
  <2> SUFFICES ASSUME Unborn(a)'
               PROVE  /\ status'[a] = "absent" /\ rated'[a] = {}
                      /\ \A q \in Request : pc'[q] \in {"change", "snapshot", "recalc"}
                                                => call'[q].activity # a
    BY DEF UnbornIsUnrated
  <2>1. /\ call' = call /\ pc[r] \in PathOf(call[r].op) /\ call[r].op \in Ops
        /\ pc[r] \notin {"idle", "done"}
        /\ \A q \in Request \ {r} : pc'[q] = pc[q]
        /\ Creates(r, call[r].activity) => pc'[r] # "insert"
    BY <1>3, StepIsOne
  <2>2. Unborn(a) /\ ~Creates(r, a)
    BY <2>1 DEF Unborn, Creates
  <2>3. /\ status[a] = "absent" /\ rated[a] = {}
        /\ \A q \in Request : pc[q] \in {"change", "snapshot", "recalc"} => call[q].activity # a
    BY <2>2 DEF UnbornIsUnrated
  <2>4. CASE Create(r)
    <3>1. pc[r] = "insert" /\ call[r] # None
      BY <2>1, <2>4, RunningCall DEF Create, At
    <3>2. call[r].activity # a
      BY <2>1, <2>2, <3>1, PathSteps DEF Creates
    <3> QED
      BY <1>1, <2>1, <2>3, <2>4, <3>2 DEF Create, GoTo
  <2>5. CASE Delete(r)
    BY <1>1, <1>2, <2>1, <2>2, <2>3, <2>5 DEF Delete, GoTo
  <2>6. CASE InsertReview(r)
    <3>1. pc'[r] = "snapshot" => Exists(call[r].activity)
      BY <1>1, <2>6 DEF InsertReview, Answer
    <3>2. pc'[r] \notin {"change", "recalc"}
      BY <1>1, <2>6 DEF InsertReview, Answer, GoTo
    <3> QED
      BY <1>2, <2>1, <2>2, <2>3, <2>6, <3>1, <3>2 DEF InsertReview
  <2>7. CASE Change(r) \/ Snapshot(r)
    <3>1. pc[r] \in {"change", "snapshot"} /\ UNCHANGED <<status, rated>>
      BY <2>7 DEF Change, Snapshot, At, tables
    <3> QED
      BY <2>1, <2>3, <3>1
  <2>8. CASE Recalc(r)
    <3>1. /\ pc[r] = "recalc" /\ status' = status
          /\ rated' = rated \/ rated' = [rated EXCEPT ![call[r].activity] = seen[r]]
      BY <2>8 DEF Recalc, At
    <3> QED
      BY <1>1, <2>1, <2>3, <3>1
  <2>9. CASE /\ ~Create(r) /\ ~Delete(r) /\ ~InsertReview(r) /\ ~Change(r)
             /\ ~Snapshot(r) /\ ~Recalc(r)
    BY <1>2, <1>3, <2>1, <2>2, <2>3, <2>9, QuietSteps
  <2> QED
    BY <2>4, <2>5, <2>6, <2>7, <2>8, <2>9
<1>4. ASSUME NEW r \in Request, NEW c \in Calls, Start(r, c) PROVE UnbornIsUnrated(a)'
  <2>1. /\ pc[r] = "idle" /\ call[r] = None /\ UNCHANGED <<status, rated>>
        /\ pc' = [pc EXCEPT ![r] = FirstStep(c.op)] /\ call' = [call EXCEPT ![r] = c]
    BY <1>1, <1>4 DEF Start, tables, RequestsKeepTheirPath
  <2>2. FirstStep(c.op) \notin {"change", "snapshot", "recalc"}
    BY CallTypes DEF FirstStep, Ops
  <2>3. Unborn(a)' => Unborn(a)
    BY <1>1, <2>1 DEF Unborn, Creates
  <2> QED
    BY <1>1, <2>1, <2>2, <2>3 DEF UnbornIsUnrated
<1>5. ASSUME NEW r \in Request, Fail(r) PROVE UnbornIsUnrated(a)'
  <2>1. pc' = [pc EXCEPT ![r] = "done"] /\ UNCHANGED <<status, rated, call>>
    BY <1>5 DEF Fail, Answer, tables
  <2>2. Unborn(a)' => Unborn(a)
    BY <1>1, <2>1 DEF Unborn, Creates
  <2> QED
    BY <1>1, <2>1, <2>2 DEF UnbornIsUnrated
<1>6. CASE UNCHANGED vars \/ Expire \/ \E p \in planned : Unplan(p)
  BY <1>6 DEF vars, Expire, Unplan, tables, requests, UnbornIsUnrated, Unborn, Creates
<1> QED
  BY <1>3, <1>4, <1>5, <1>6 DEF Next

\* Whoever enters a recalculation finds it free.
LEMMA OneRecalculationStep ==
    ASSUME IInv, OneRecalculation, [Next /\ Serial]_vars
    PROVE  OneRecalculation'
<1>1. pc \in [Request -> Steps] /\ call \in [Request -> Calls \cup {None}] /\ RequestsKeepTheirPath
  BY DEF IInv, TypeOK, Shapes
<1> DEFINE NoneEnters ==
      \A q \in Request : pc'[q] = "recalc" => pc[q] = "recalc" /\ call'[q] = call[q]
<1>2. CASE NoneEnters
  BY <1>2 DEF OneRecalculation, Recalculating
<1>3. ASSUME NEW r \in Request, Snapshot(r), Serial PROVE OneRecalculation'
  <2>1. Recalculating(call[r].activity) = {} /\ call' = call /\ pc' = [pc EXCEPT ![r] = "recalc"]
    BY <1>3 DEF Serial, Snapshot, At, GoTo
  <2> QED
    BY <1>1, <2>1 DEF OneRecalculation, Recalculating
<1>4. ASSUME NEW r \in Request, Step(r), ~Snapshot(r) PROVE NoneEnters
  <2>1. call' = call /\ \A q \in Request \ {r} : pc'[q] = pc[q]
    BY <1>4, StepIsOne
  <2>2. pc'[r] # "recalc"
    <3>1. CASE Create(r) \/ Delete(r) \/ InsertReview(r) \/ Change(r) \/ Recalc(r)
      BY <1>1, <3>1 DEF Create, Delete, InsertReview, Change, Recalc, GoTo, Answer, ReadBack
    <3>2. CASE ~(Create(r) \/ Delete(r) \/ InsertReview(r) \/ Change(r) \/ Recalc(r))
      BY <1>4, <3>2, QuietSteps
    <3> QED
      BY <3>1, <3>2
  <2> QED
    BY <2>1, <2>2
<1>5. ASSUME NEW r \in Request, Fail(r) \/ \E c \in Calls : Start(r, c) PROVE NoneEnters
  <2>1. \A op \in Ops : FirstStep(op) # "recalc"
    BY DEF FirstStep, Ops
  <2> QED
    BY <1>1, <1>5, <2>1, CallTypes DEF Fail, Answer, Start
<1>6. CASE UNCHANGED vars \/ Expire \/ \E p \in planned : Unplan(p)
  BY <1>2, <1>6 DEF vars, Expire, Unplan, requests
<1> HIDE DEF NoneEnters
<1> QED
  BY <1>2, <1>3, <1>4, <1>5, <1>6 DEF Next

\* What is not about an activity leaves its row, its reviews and its rating alone.
LEMMA ElsewhereStays ==
    ASSUME IInv, NEW r \in Request, Step(r), NEW a \in Activity, call[r].activity # a
    PROVE  status'[a] = status[a] /\ rated'[a] = rated[a] /\ ReviewsOf(a)' = ReviewsOf(a)
<1>1. /\ status \in [Activity -> Status] /\ rated \in [Activity -> SUBSET Review]
      /\ reviews \subseteq Review
  BY DEF IInv, TypeOK, Shapes
<1>2. CASE Create(r) \/ Update(r) \/ Delete(r) \/ Decide(r) \/ InsertReview(r) \/ Recalc(r)
  BY <1>1, <1>2 DEF Create, Update, Delete, Decide, InsertReview, Recalc, ReviewsOf
<1>3. CASE Change(r)
  <2>1. \A v \in Named(r) : v.activity # a /\ [v EXCEPT !.rating = call[r].rating].activity # a
    BY <1>1 DEF Named, ReviewsOf, Review
  <2> QED
    BY <1>3, <2>1 DEF Change, ReviewsOf, Named
<1>4. CASE \/ CheckOwner(r) \/ ReadKeys(r) \/ DeleteKeys(r) \/ ReadCache(r) \/ QueryList(r)
           \/ SetCache(r) \/ Audit(r) \/ CheckPublished(r) \/ CheckPlanned(r) \/ CheckAuthor(r)
           \/ Snapshot(r)
  BY <1>4 DEF CheckOwner, ReadKeys, DeleteKeys, ReadCache, QueryList, SetCache, Audit,
     CheckPublished, CheckPlanned, CheckAuthor, Snapshot, ReviewsOf, tables
<1> QED
  BY <1>2, <1>3, <1>4 DEF Step

\* A step that leaves the recalculations of an activity and what they are about alone.
LEMMA RatingFrame ==
    ASSUME NEW a \in Activity, RatingIsComing(a), rated'[a] = rated[a], ReviewsOf(a)' = ReviewsOf(a),
           \A q \in Request :
              \/ pc'[q] = pc[q] /\ call'[q].activity = call[q].activity /\ seen'[q] = seen[q]
              \/ /\ pc[q] \notin {"snapshot", "recalc"} \/ call[q].activity # a
                 /\ pc'[q] \notin {"snapshot", "recalc"} \/ call'[q].activity # a
    PROVE  RatingIsComing(a)'
<1>1. Awaited(a) => Awaited(a)'
  BY DEF Awaited
<1>2. /\ Recalculating(a)' = Recalculating(a)
      /\ \A q \in Recalculating(a) : seen'[q] = seen[q]
  BY DEF Recalculating
<1> QED
  BY <1>1, <1>2 DEF RatingIsComing

\* A statement about an activity keeps its rating right or about to be.
LEMMA RatingStep ==
    ASSUME SerialInv, NEW r \in Request, Step(r), Serial, NEW a \in Activity,
           call[r].activity = a, Exists(a)', NoneFailed
    PROVE  RatingIsComing(a)'
<1>1. /\ pc \in [Request -> Steps] /\ status \in [Activity -> Status]
      /\ rated \in [Activity -> SUBSET Review]
      /\ seen \in [Request -> SUBSET (Row \cup Review)]
      /\ IInv /\ OneReviewPerUser
  BY DEF SerialInv, IInv, TypeOK, Shapes
<1>2. /\ call' = call /\ pc[r] \in PathOf(call[r].op) /\ call[r].op \in Ops
      /\ \A q \in Request \ {r} : pc'[q] = pc[q] /\ seen'[q] = seen[q]
  BY <1>1, StepIsOne
<1>3. Exists(a) => RatingIsComing(a)
  BY DEF SerialInv
<1>4. CASE Create(r)
  <2>1. Creates(r, a)
    <3>1. pc[r] = "insert" /\ pc[r] \notin {"idle", "done"}
      BY <1>4 DEF Create, At
    <3> QED
      BY <1>1, <1>2, <3>1, PathSteps, RunningCall DEF Creates
  <2>2. Unborn(a)
    BY <1>4, <2>1 DEF SerialInv, CreatedOnce, Unborn, Create, At
  <2>3. /\ status[a] = "absent" /\ rated[a] = {}
        /\ \A q \in Request : pc[q] \in {"change", "snapshot", "recalc"} => call[q].activity # a
    BY <2>2 DEF SerialInv, UnbornIsUnrated
  <2>4. ReviewsOf(a) = {}
    BY <1>1, <2>3 DEF OneReviewPerUser, Exists, ReviewsOf
  <2>5. /\ ReviewsOf(a)' = {} /\ rated'[a] = {} /\ pc'[r] = "keys"
    BY <1>1, <1>4, <2>3, <2>4 DEF Create, GoTo, ReviewsOf
  <2>6. Recalculating(a)' = {}
    BY <1>2, <2>3, <2>5 DEF Recalculating
  <2> QED
    BY <2>5, <2>6 DEF RatingIsComing
<1>5. CASE Delete(r)
  BY <1>1, <1>5 DEF Delete, Exists
<1>6. CASE InsertReview(r) \/ Change(r)
  <2>1. CASE pc'[r] = "snapshot"
    BY <1>2, <2>1 DEF RatingIsComing, Awaited
  <2>2. CASE pc'[r] # "snapshot"
    <3>1. InsertReview(r) /\ pc[r] = "insertReview" /\ pc'[r] = "done"
          /\ UNCHANGED <<reviews, rated, status>>
      BY <1>1, <1>6, <2>2 DEF InsertReview, Change, At, GoTo, Answer
    <3>2. RatingIsComing(a) /\ ReviewsOf(a)' = ReviewsOf(a)
      BY <1>3, <3>1 DEF Exists, ReviewsOf
    <3> QED
      BY <1>2, <3>1, <3>2, RatingFrame
  <2> QED
    BY <2>1, <2>2
<1>7. CASE Snapshot(r)
  <2>1. /\ Recalculating(a) = {} /\ pc'[r] = "recalc" /\ seen'[r] = ReviewsOf(a)
        /\ reviews' = reviews
    BY <1>1, <1>7 DEF Serial, Snapshot, GoTo, tables
  <2>2. Recalculating(a)' = {r} /\ ReviewsOf(a)' = ReviewsOf(a)
    BY <1>2, <2>1 DEF Recalculating, ReviewsOf
  <2> QED
    BY <2>1, <2>2 DEF RatingIsComing
<1>8. CASE Recalc(r)
  <2>1. /\ pc[r] = "recalc" /\ pc'[r] = "done" /\ UNCHANGED <<status, reviews>>
        /\ Exists(a) => rated' = [rated EXCEPT ![a] = seen[r]]
    BY <1>1, <1>8 DEF Recalc, At, ReadBack, Answer
  <2>2. Exists(a) /\ ReviewsOf(a)' = ReviewsOf(a)
    BY <2>1 DEF Exists, ReviewsOf
  <2>3. CASE Awaited(a)
    BY <1>2, <2>1, <2>3 DEF RatingIsComing, Awaited
  <2>4. CASE ~Awaited(a)
    <3>1. r \in Recalculating(a)
      BY <2>1 DEF Recalculating
    <3>2. seen[r] = ReviewsOf(a)
      BY <1>3, <2>2, <2>4, <3>1 DEF RatingIsComing
    <3>3. Recalculating(a) = {r}
      BY <3>1 DEF SerialInv, OneRecalculation
    <3>4. Recalculating(a)' = {}
      BY <1>2, <2>1, <3>3 DEF Recalculating
    <3>5. rated'[a] = ReviewsOf(a)'
      BY <1>1, <2>1, <2>2, <3>2
    <3> QED
      BY <3>4, <3>5 DEF RatingIsComing
  <2> QED
    BY <2>3, <2>4
<1>9. CASE /\ ~Create(r) /\ ~Delete(r) /\ ~InsertReview(r) /\ ~Change(r)
           /\ ~Snapshot(r) /\ ~Recalc(r)
  <2>1. /\ rated' = rated /\ reviews' = reviews /\ (Exists(a)' <=> Exists(a))
        /\ pc[r] \notin {"snapshot", "recalc"} /\ pc'[r] \notin {"snapshot", "recalc"}
    BY <1>1, <1>9, QuietSteps
  <2>2. RatingIsComing(a) /\ ReviewsOf(a)' = ReviewsOf(a)
    BY <1>3, <2>1 DEF ReviewsOf
  <2> QED
    BY <1>2, <2>1, <2>2, RatingFrame
<1> QED
  BY <1>4, <1>5, <1>6, <1>7, <1>8, <1>9

\* Every step does.
LEMMA RatingsStay ==
    ASSUME SerialInv, [Next /\ Serial]_vars, NoneFailed', NEW a \in Activity, Exists(a)'
    PROVE  RatingIsComing(a)'
<1>1. /\ pc \in [Request -> Steps] /\ call \in [Request -> Calls \cup {None}]
      /\ reply \in [Request -> Replies]
      /\ IInv /\ AnsweredOnce /\ RequestsKeepTheirPath
  BY DEF SerialInv, IInv, TypeOK, Shapes
<1>2. NoneFailed
  BY <1>1, AnswersStay
<1>3. Exists(a) => RatingIsComing(a)
  BY <1>2 DEF SerialInv
<1>4. ASSUME NEW r \in Request, Step(r), Serial PROVE RatingIsComing(a)'
  <2>1. CASE call[r].activity = a
    BY <1>2, <1>4, <2>1, RatingStep
  <2>2. CASE call[r].activity # a
    <3>1. status'[a] = status[a] /\ rated'[a] = rated[a] /\ ReviewsOf(a)' = ReviewsOf(a)
      BY <1>1, <1>4, <2>2, ElsewhereStays
    <3>2. call' = call /\ \A q \in Request \ {r} : pc'[q] = pc[q] /\ seen'[q] = seen[q]
      BY <1>1, <1>4, StepIsOne
    <3>3. RatingIsComing(a)
      BY <1>3, <3>1 DEF Exists
    <3> QED
      BY <2>2, <3>1, <3>2, <3>3, RatingFrame
  <2> QED
    BY <2>1, <2>2
<1>5. ASSUME NEW r \in Request, Fail(r) PROVE RatingIsComing(a)'
  BY <1>1, <1>5 DEF Fail, Answer, NoneFailed
<1>6. ASSUME NEW r \in Request, NEW c \in Calls, Start(r, c) PROVE RatingIsComing(a)'
  <2>1. /\ pc[r] = "idle" /\ UNCHANGED <<status, rated, reviews, seen>>
        /\ pc' = [pc EXCEPT ![r] = FirstStep(c.op)] /\ call' = [call EXCEPT ![r] = c]
    BY <1>6 DEF Start, tables
  <2>2. FirstStep(c.op) \notin {"snapshot", "recalc"}
    BY CallTypes DEF FirstStep, Ops
  <2>3. RatingIsComing(a) /\ ReviewsOf(a)' = ReviewsOf(a)
    BY <1>3, <2>1 DEF Exists, ReviewsOf
  <2> QED
    BY <1>1, <2>1, <2>2, <2>3, RatingFrame
<1>7. CASE UNCHANGED vars \/ Expire \/ \E p \in planned : Unplan(p)
  <2>1. UNCHANGED <<status, rated, reviews, seen, pc, call>>
    BY <1>7 DEF vars, Expire, Unplan, tables, requests
  <2>2. RatingIsComing(a) /\ ReviewsOf(a)' = ReviewsOf(a)
    BY <1>3, <2>1 DEF Exists, ReviewsOf
  <2> QED
    BY <2>1, <2>2, RatingFrame
<1> QED
  BY <1>4, <1>5, <1>6, <1>7 DEF Next

\* While no two recalculations of a rating overlap, the number of reviews kept on an
\* activity is that of its reviews once all requests are answered and none has failed:
\* with the counterexample of CountMatchesReviews, their overlap is the only way to
\* lose a review.  (review.service.ts recalcRating, swagger.yaml:1911)
THEOREM CountMatchesWhileSerial == SerialSpec => []CountMatchesReviews
<1>1. Init => SerialInv
  <2> SUFFICES ASSUME Init PROVE SerialInv
    OBVIOUS
  <2>1. /\ call = [r \in Request |-> None] /\ reply = [r \in Request |-> ""]
        /\ \A r \in Request : pc[r] \in {"idle", "done"}
        /\ rated = [a \in Activity |-> {}] /\ reviews = {}
        /\ \A a \in Activity : a \notin DOMAIN Online => status[a] = "absent"
    BY DEF Init
  <2>2. AnsweredOnce /\ CreatedOnce /\ \A a \in Activity : UnbornIsUnrated(a)
    BY <2>1, RolesAssumption DEF AnsweredOnce, CreatedOnce, Creates, UnbornIsUnrated, Unborn
  <2>3. \A a \in Activity : Recalculating(a) = {}
    BY <2>1 DEF Recalculating
  <2>4. \A a \in Activity : RatingIsComing(a)
    BY <2>1, <2>3 DEF RatingIsComing, ReviewsOf
  <2> QED
    BY <2>2, <2>3, <2>4, InvariantInit DEF SerialInv, OneRecalculation
<1>2. SerialInv /\ [Next /\ Serial]_vars => SerialInv'
  <2> SUFFICES ASSUME SerialInv, [Next /\ Serial]_vars PROVE SerialInv'
    OBVIOUS
  <2>1. IInv /\ AnsweredOnce /\ CreatedOnce /\ OneRecalculation
        /\ \A a \in Activity : UnbornIsUnrated(a)
    BY DEF SerialInv
  <2>2. IInv'
    BY <2>1, InvariantStep
  <2>3. NoneFailed' => \A a \in Activity : Exists(a)' => RatingIsComing(a)'
    BY RatingsStay
  <2> QED
    BY <2>1, <2>2, <2>3, AnswersStay, CreatedOnceStep, OneRecalculationStep, UnbornStep
       DEF SerialInv
<1>3. SerialInv => CountMatchesReviews
  BY DEF SerialInv, CountMatchesReviews, NoneFailed, RatingIsComing, Awaited, Recalculating
<1> QED
  BY <1>1, <1>2, <1>3, PTL DEF SerialSpec

===============================================================================
