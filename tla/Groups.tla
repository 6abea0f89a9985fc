-------------------------------- MODULE Groups --------------------------------
(***************************************************************************)
(* Group conversations (message.service.ts) and the activities that their  *)
(* members propose in them (group-activity.service.ts).                    *)
(*                                                                         *)
(* A request is a process and an action is one SQL statement, as in        *)
(* Booking.  The membership operations run statement by statement with no  *)
(* transaction; a proposal runs in one, under FOR UPDATE on the group and  *)
(* on the row of its author (glock) and FOR SHARE on the activity.         *)
(***************************************************************************)
EXTENDS Naturals, FiniteSetsExt

CONSTANTS
    Request,        \* requests the server ever receives (bounds the model)
    User, Activity,
    Group,          \* ids of the group conversations
    Friends,        \* the accepted friendships, sets of two users
    Calls,          \* the calls the clients make, a subset of Call
    Founded,        \* groups created before the model starts: [subset of Group -> founder and others]
    None

Ops == {"create", "add", "remove", "leave", "rename", "delete", "propose", "withdraw"}

Call == [op : Ops, user : User, group : Group, target : User \cup {None},
         others : SUBSET User, activity : Activity \cup {None}]

Steps == {"idle", "friends?", "create", "admin?", "insertMember", "deleteMember", "rename",
          "exists?", "leave", "promote", "participant?", "deleteGroup",
          "member", "activity", "insert", "withdraw", "recipients", "commit", "done"}

Replies == {"", "OK", "GROUP_NEEDS_MEMBERS", "NOT_FRIENDS", "NOT_FOUND", "FORBIDDEN",
            "ALREADY_MEMBER", "ALREADY_PROPOSED", "FAILED"}

Proposal == [group : Group, activity : Activity, by : User]

ASSUME NoneAssumption == None \notin Request \cup User \cup Activity \cup Calls
\* The route sends DELETE /members/:self to leaveGroup, so "remove" is for others.
ASSUME CallsAssumption ==
    /\ Calls \subseteq Call
    /\ \A c \in Calls :
        /\ c.op \in {"add", "remove"} => c.target \in User
        /\ c.op = "remove" => c.target # c.user
        /\ c.op \in {"propose", "withdraw"} => c.activity \in Activity
ASSUME FoundedAssumption ==
    /\ DOMAIN Founded \subseteq Group
    /\ \A g \in DOMAIN Founded :
        /\ Founded[g].user \in User
        /\ Founded[g].others \subseteq User \ {Founded[g].user}

VARIABLES
    \* tables
    groups,     \* rows of conversations
    role,       \* [Group -> [User -> conversation_participants.role, "none" without a row]]
    joined,     \* [Group -> [User -> rank of joined_at in the group]]
    title,      \* [Group -> the rename that set the title, None for the first one]
    proposals,  \* rows of conversation_activities
    published,  \* activities whose status is published
    \* row locks
    glock,      \* [Group -> the transaction with FOR UPDATE on the group and its author's row]
    \* requests
    pc, call, reply,
    told        \* [Request -> the participants read for the realtime event of a proposal]

tables == <<groups, role, joined, title, proposals, published>>
requests == <<pc, call, reply, told>>
vars == <<tables, glock, requests>>

Members(g) == {u \in User : role[g][u] # "none"}
Admins(g) == {u \in User : role[g][u] = "admin"}

GoTo(r, step) == pc' = [pc EXCEPT ![r] = step] /\ UNCHANGED reply

Answer(r, code) ==
    /\ pc' = [pc EXCEPT ![r] = "done"]
    /\ reply' = [reply EXCEPT ![r] = code]

\* The rows that a new group inserts: its founder is the administrator.
FounderRoles(u, others) ==
    [v \in User |-> CASE v = u -> "admin" [] v \in others \ {u} -> "member" [] OTHER -> "none"]

-------------------------------------------------------------------------------
Init ==
    /\ groups = DOMAIN Founded
    /\ role = [g \in Group |-> IF g \in groups THEN FounderRoles(Founded[g].user, Founded[g].others)
                               ELSE [u \in User |-> "none"]]
    /\ joined = [g \in Group |-> [u \in User |-> 0]]
    /\ title = [g \in Group |-> None]
    /\ proposals = {}
    /\ published = Activity
    /\ glock = [g \in Group |-> None]
    /\ pc = [r \in Request |-> "idle"]
    /\ call = [r \in Request |-> None]
    /\ reply = [r \in Request |-> ""]
    /\ told = [r \in Request |-> {}]

FirstStep(op) ==
    CASE op = "create" -> "friends?"
      [] op \in {"add", "remove", "rename"} -> "admin?"
      [] op = "leave" -> "exists?"
      [] op = "delete" -> "participant?"
      [] op \in {"propose", "withdraw"} -> "member"

\* gen_random_uuid: the id of a new group was never used.
Fresh(g) ==
    /\ g \notin DOMAIN Founded
    /\ \A r \in Request : pc[r] # "idle" => ~(call[r].op = "create" /\ call[r].group = g)

Start(r, c) ==
    /\ pc[r] = "idle"
    /\ c.op = "create" => Fresh(c.group)
    /\ call' = [call EXCEPT ![r] = c]
    /\ GoTo(r, FirstStep(c.op))
    /\ UNCHANGED <<tables, glock, told>>

At(r, step) == pc[r] = step /\ UNCHANGED <<call, told>>

\* The row of a member is locked while that member's own proposal is open, the
\* row of the group while any proposal is.
RowFree(g, u) == glock[g] # None => call[glock[g]].user # u
GroupFree(g) == glock[g] = None

(***************************************************************************)
(* Creation, membership, title and deletion (message.service.ts)           *)
(***************************************************************************)
\* createGroup: the others must be friends of the founder.
CheckFriends(r) ==
    /\ At(r, "friends?")
    /\ LET c == call[r]
           others == c.others \ {c.user}
       IN
       IF others = {} THEN Answer(r, "GROUP_NEEDS_MEMBERS")
       ELSE IF \E u \in others : {c.user, u} \notin Friends THEN Answer(r, "NOT_FRIENDS")
       ELSE GoTo(r, "create")
    /\ UNCHANGED <<tables, glock>>

\* createGroup: its transaction inserts rows that nobody else sees before COMMIT.
Create(r) ==
    /\ At(r, "create")
    /\ LET c == call[r] IN
       /\ groups' = groups \cup {c.group}
       /\ role' = [role EXCEPT ![c.group] = FounderRoles(c.user, c.others)]
    /\ Answer(r, "OK")
    /\ UNCHANGED <<joined, title, proposals, published, glock>>

IsAdmin(u, g) == role[g][u] = "admin"

\* assertGroupAdmin, and the checks on the target that change no row.
CheckAdmin(r) ==
    /\ At(r, "admin?")
    /\ LET c == call[r] IN
       IF c.group \notin groups THEN Answer(r, "NOT_FOUND")
       ELSE IF ~IsAdmin(c.user, c.group) THEN Answer(r, "FORBIDDEN")
       ELSE CASE c.op = "rename" -> GoTo(r, "rename")
              [] c.op = "remove" -> GoTo(r, "deleteMember")
              [] c.op = "add" /\ c.target = c.user -> Answer(r, "ALREADY_MEMBER")
              [] c.op = "add" /\ c.target # c.user ->
                    IF {c.user, c.target} \in Friends THEN GoTo(r, "insertMember")
                    ELSE Answer(r, "NOT_FRIENDS")
    /\ UNCHANGED <<tables, glock>>

\* addMember: INSERT ... ON CONFLICT DO NOTHING; the foreign key of a new row
\* waits for the group and fails when it has gone.
InsertMember(r) ==
    /\ At(r, "insertMember")
    /\ LET g == call[r].group
           u == call[r].target
       IN
       IF u \in Members(g) THEN Answer(r, "ALREADY_MEMBER") /\ UNCHANGED <<role, joined>>
       ELSE /\ GroupFree(g)
            /\ IF g \in groups
               THEN /\ role' = [role EXCEPT ![g][u] = "member"]
                    /\ joined' = [joined EXCEPT ![g][u] = 1 + Max({joined[g][v] : v \in User})]
                    /\ Answer(r, "OK")
               ELSE Answer(r, "FAILED") /\ UNCHANGED <<role, joined>>
    /\ UNCHANGED <<groups, title, proposals, published, glock>>

\* removeMember: DELETE, which does not look at the group's administrators.
DeleteMember(r) ==
    /\ At(r, "deleteMember")
    /\ LET g == call[r].group
           u == call[r].target
       IN
       /\ RowFree(g, u)
       /\ role' = [role EXCEPT ![g][u] = "none"]
       /\ Answer(r, IF u \in Members(g) THEN "OK" ELSE "NOT_FOUND")
    /\ UNCHANGED <<groups, joined, title, proposals, published, glock>>

\* leaveGroup: SELECT type.
CheckGroup(r) ==
    /\ At(r, "exists?")
    /\ IF call[r].group \in groups THEN GoTo(r, "leave") ELSE Answer(r, "NOT_FOUND")
    /\ UNCHANGED <<tables, glock>>

\* leaveGroup: DELETE ... RETURNING role.
Leave(r) ==
    /\ At(r, "leave")
    /\ LET g == call[r].group
           u == call[r].user
       IN
       /\ RowFree(g, u)
       /\ role' = [role EXCEPT ![g][u] = "none"]
       /\ IF u \in Members(g) THEN GoTo(r, "promote") ELSE Answer(r, "FORBIDDEN")
    /\ UNCHANGED <<groups, joined, title, proposals, published, glock>>

\* ORDER BY joined_at LIMIT 1: the founders share one joined_at.
Oldest(g) == {u \in Members(g) : \A v \in Members(g) : joined[g][u] <= joined[g][v]}

\* Fault: only the members that were added later are promoted.
LateJoiners(g) == {u \in Oldest(g) : joined[g][u] > 0}

Heirs(g) == Oldest(g)

\* leaveGroup: one UPDATE promotes the oldest member when no administrator is left.
Promote(r) ==
    /\ At(r, "promote")
    /\ LET g == call[r].group IN
       IF Admins(g) # {} \/ Heirs(g) = {} THEN UNCHANGED role
       ELSE \E u \in Heirs(g) : RowFree(g, u) /\ role' = [role EXCEPT ![g][u] = "admin"]
    /\ Answer(r, "OK")
    /\ UNCHANGED <<groups, joined, title, proposals, published, glock>>

\* renameGroup: UPDATE conversations.
Rename(r) ==
    /\ At(r, "rename")
    /\ GroupFree(call[r].group)
    /\ title' = IF call[r].group \in groups THEN [title EXCEPT ![call[r].group] = r] ELSE title
    /\ Answer(r, IF call[r].user \in Members(call[r].group) THEN "OK" ELSE "NOT_FOUND")
    /\ UNCHANGED <<groups, role, joined, proposals, published, glock>>

\* deleteConversation: assertParticipant.
CheckParticipant(r) ==
    /\ At(r, "participant?")
    /\ LET g == call[r].group IN
       IF Members(g) = {} THEN Answer(r, "NOT_FOUND")
       ELSE IF call[r].user \notin Members(g) THEN Answer(r, "FORBIDDEN")
       ELSE GoTo(r, "deleteGroup")
    /\ UNCHANGED <<tables, glock>>

\* deleteConversation: DELETE, which cascades to participants and proposals.
DeleteGroup(r) ==
    /\ At(r, "deleteGroup")
    /\ LET g == call[r].group IN
       /\ GroupFree(g)
       /\ groups' = groups \ {g}
       /\ role' = [role EXCEPT ![g] = [u \in User |-> "none"]]
       /\ proposals' = {p \in proposals : p.group # g}
    /\ Answer(r, "OK")
    /\ UNCHANGED <<joined, title, published, glock>>

(***************************************************************************)
(* POST and DELETE /groups/:id/activities/:id (group-activity.service.ts)  *)
(***************************************************************************)
\* Fault: a refusal leaves the transaction open.
KeepLocks(r, code) == Answer(r, code) /\ UNCHANGED <<glock, tables>>

\* ROLLBACK and release: the locks are given back.
Refuse(r, code) ==
    /\ Answer(r, code)
    /\ glock' = [g \in Group |-> IF glock[g] = r THEN None ELSE glock[g]]
    /\ UNCHANGED tables

\* Fault: member() is read without FOR UPDATE.
ReadOnly(r) == UNCHANGED glock

Acquire(r) == glock' = [glock EXCEPT ![call[r].group] = r]

\* BEGIN, and member() with FOR UPDATE OF c, cp.
LockMembership(r) ==
    /\ At(r, "member")
    /\ GroupFree(call[r].group)
    /\ IF call[r].user \in Members(call[r].group)
       THEN /\ Acquire(r)
            /\ GoTo(r, IF call[r].op = "propose" THEN "activity" ELSE "withdraw")
            /\ UNCHANGED tables
       ELSE Refuse(r, "FORBIDDEN")

\* change: SELECT ... FOR SHARE of a published activity.
LockActivity(r) ==
    /\ At(r, "activity")
    /\ IF call[r].activity \in published
       THEN GoTo(r, "insert") /\ UNCHANGED <<tables, glock>>
       ELSE Refuse(r, "NOT_FOUND")

AlreadyProposed(r) ==
    \E p \in proposals : p.group = call[r].group /\ p.activity = call[r].activity

\* change: INSERT ... ON CONFLICT DO NOTHING.
Insert(r) ==
    /\ At(r, "insert")
    /\ IF AlreadyProposed(r)
       THEN Refuse(r, "ALREADY_PROPOSED")
       ELSE GoTo(r, "recipients") /\ UNCHANGED <<tables, glock>>

MayWithdraw(r, p) == p.by = call[r].user \/ IsAdmin(call[r].user, p.group)

\* The row that DELETE ... WHERE (added_by = $3 OR $4 = 'admin') removes.
Target(r) ==
    {p \in proposals : p.group = call[r].group /\ p.activity = call[r].activity /\ MayWithdraw(r, p)}

Withdraw(r) ==
    /\ At(r, "withdraw")
    /\ IF Target(r) = {}
       THEN Refuse(r, "FORBIDDEN")
       ELSE GoTo(r, "recipients") /\ UNCHANGED <<tables, glock>>

\* change: the participants to tell are read before COMMIT.
ReadRecipients(r) ==
    /\ pc[r] = "recipients"
    /\ told' = [told EXCEPT ![r] = Members(call[r].group)]
    /\ GoTo(r, "commit")
    /\ UNCHANGED <<tables, glock, call>>

Commit(r) ==
    /\ At(r, "commit")
    /\ proposals' = IF call[r].op = "withdraw" THEN proposals \ Target(r)
                    ELSE proposals \cup {[group |-> call[r].group, activity |-> call[r].activity,
                                          by |-> call[r].user]}
    /\ glock' = [g \in Group |-> IF glock[g] = r THEN None ELSE glock[g]]
    /\ Answer(r, "OK")
    /\ UNCHANGED <<groups, role, joined, title, published>>

(***************************************************************************)
(* Failures and the rest of the site                                       *)
(***************************************************************************)
\* A lost connection or a restart: an open transaction is rolled back.
Fail(r) ==
    /\ pc[r] \notin {"idle", "done"}
    /\ Refuse(r, "FAILED")
    /\ UNCHANGED <<call, told>>

\* Fault: FOR SHARE is left out.
NotShared(a) == FALSE

Shared(a) ==
    \E r \in Request : pc[r] \in {"insert", "recipients", "commit"}
                       /\ call[r].op = "propose" /\ call[r].activity = a

\* Moderation changes the status of an activity, waiting for FOR SHARE.
Moderate(a) ==
    /\ ~Shared(a)
    /\ published' = IF a \in published THEN published \ {a} ELSE published \cup {a}
    /\ UNCHANGED <<groups, role, joined, title, proposals, glock, requests>>

-------------------------------------------------------------------------------
Step(r) ==
    \/ CheckFriends(r) \/ Create(r)
    \/ CheckAdmin(r) \/ InsertMember(r) \/ DeleteMember(r) \/ Rename(r)
    \/ CheckGroup(r) \/ Leave(r) \/ Promote(r)
    \/ CheckParticipant(r) \/ DeleteGroup(r)
    \/ LockMembership(r) \/ LockActivity(r) \/ Insert(r) \/ Withdraw(r)
    \/ ReadRecipients(r) \/ Commit(r)

Next ==
    \/ \E r \in Request, c \in Calls : Start(r, c)
    \/ \E r \in Request : Step(r)
    \/ \E r \in Request : Fail(r)
    \/ \E a \in Activity : Moderate(a)

Spec == Init /\ [][Next]_vars

-------------------------------------------------------------------------------
(***************************************************************************)
(* Properties                                                              *)
(***************************************************************************)
InTransaction == {"activity", "insert", "withdraw", "recipients", "commit"}

\* The rows have their types, only members of an existing group have a role and
\* proposals, and a lock is held exactly by the open transaction of a proposal.
TypeOK ==
    /\ groups \subseteq Group
    /\ role \in [Group -> [User -> {"none", "member", "admin"}]]
    /\ \A g \in Group \ groups : Members(g) = {}
    /\ joined \in [Group -> [User -> Nat]]
    /\ title \in [Group -> Request \cup {None}]
    /\ proposals \subseteq Proposal
    /\ \A p \in proposals : p.group \in groups
    /\ published \subseteq Activity
    /\ \A g \in Group, r \in Request :
            glock[g] = r <=> pc[r] \in InTransaction /\ call[r].group = g
    /\ glock \in [Group -> Request \cup {None}]
    /\ pc \in [Request -> Steps]
    /\ \A r \in Request : pc[r] # "idle" => call[r] \in Calls
    /\ reply \in [Request -> Replies]
    /\ told \in [Request -> SUBSET User]

\* A proposal is committed by someone who still is a member of the group, which
\* still exists, although the membership was read several statements earlier:
\* "a concurrent removal cannot authorize a proposal" (group-activity.service.ts:5).
ProposalsByMembers ==
    \A p \in proposals' \ proposals : p.group \in groups /\ p.by \in Members(p.group)

\* A proposal is committed while its activity still is published: FOR SHARE makes
\* moderation wait for the commit (group-activity.service.ts:63-66).
ProposedWasPublished ==
    \A p \in proposals' \ proposals : p.activity \in published

\* A proposal disappears with its group, or by a member who at that moment is its
\* author or an administrator, although the role was read in an earlier statement.
WithdrawalAuthorized ==
    \A p \in proposals \ proposals' :
        \/ p.group \notin groups'
        \/ \E r \in Request :
            /\ pc[r] = "commit" /\ pc'[r] = "done" /\ call[r].op = "withdraw"
            /\ \/ call[r].user \in Admins(p.group)
               \/ call[r].user = p.by /\ p.by \in Members(p.group)

\* Proposals come and go with the authority of that very moment, through every
\* order of departures, removals, moderation and the deletion of the group.
\* (group-activity.service.ts proposeActivity, withdrawActivity)
ProposalsAuthorized ==
    [][ProposalsByMembers /\ ProposedWasPublished /\ WithdrawalAuthorized]_vars

\* Whoever is a member when a change commits is told of it, although the recipients
\* are read before COMMIT: FOR UPDATE on the group makes the insertion of a member
\* wait (group-activity.service.ts:73-76).
NoMemberMissesProposal ==
    [][\A r \in Request : pc[r] = "commit" /\ pc'[r] = "done" /\ reply'[r] = "OK"
            => Members(call[r].group) \subseteq told[r]]_vars

AtRest == \A r \in Request : pc[r] \in {"idle", "done"}
NoneFailed == \A r \in Request : reply[r] # "FAILED"
HasAdminOrNobody(g) == Members(g) # {} => Admins(g) # {}

\* Departures alone never leave a group without administrator, in whatever order
\* their deletions and promotions run (message.service.ts:437-455).
LeavesPromote ==
    AtRest /\ NoneFailed =>
        \A g \in Group :
            (\A r \in Request : call[r] # None /\ call[r].op \in {"add", "remove"}
                    /\ call[r].group = g => reply[r] # "OK")
            => HasAdminOrNobody(g)

\* The rows and the locks make sense together, and departures leave an
\* administrator.  (012_group_conversations.sql, message.service.ts leaveGroup)
Consistent == TypeOK /\ LeavesPromote

\* "Si le dernier admin part, un membre restant est promu"
\* (message.service.ts:426): a group with members has an administrator.
GroupKeepsAdmin ==
    AtRest /\ NoneFailed => \A g \in Group : HasAdminOrNobody(g)

Unanswered(r) == pc[r] \notin {"idle", "done"}

\* The next statement of the handler needs a row that the proposal of another has.
Waits(r) ==
    LET g == call[r].group IN
    \/ pc[r] \in {"rename", "deleteGroup", "member"} /\ ~GroupFree(g)
    \/ pc[r] = "insertMember" /\ call[r].target \notin Members(g) /\ ~GroupFree(g)
    \/ pc[r] = "deleteMember" /\ ~RowFree(g, call[r].target)
    \/ pc[r] = "leave" /\ ~RowFree(g, call[r].user)
    \/ pc[r] = "promote" /\ Admins(g) = {} /\ Heirs(g) # {} /\ \A u \in Heirs(g) : ~RowFree(g, u)

NoCircularWait ==
    (\E r \in Request : Unanswered(r)) => \E r \in Request : Unanswered(r) /\ ~Waits(r)

\* Nothing but these rows makes a handler wait, and while a request is unanswered
\* some request does not wait: a lock is given back on every path and no two
\* requests wait for each other (group-activity.service.ts change).
SomeRequestCanStep ==
    /\ \A r \in Request : Unanswered(r) => (ENABLED Step(r) <=> ~Waits(r))
    /\ NoCircularWait
===============================================================================
