----------------------------- MODULE GroupsProofs ------------------------------
(***************************************************************************)
(* Theorems about Groups, for every set of requests, users, activities,    *)
(* groups, friendships and calls.                                          *)
(***************************************************************************)
EXTENDS Groups, WellFoundedInduction, TLAPS

-------------------------------------------------------------------------------
(* The inductive invariant *)

\* The statements that a call runs.
PathOf(op) ==
    CASE op = "create" -> {"friends?", "create"}
      [] op = "add" -> {"admin?", "insertMember"}
      [] op = "remove" -> {"admin?", "deleteMember"}
      [] op = "rename" -> {"admin?", "rename"}
      [] op = "leave" -> {"exists?", "leave", "promote"}
      [] op = "delete" -> {"participant?", "deleteGroup"}
      [] op = "propose" -> {"member", "activity", "insert", "recipients", "commit"}
      [] op = "withdraw" -> {"member", "withdraw", "recipients", "commit"}
      [] OTHER -> {}

\* A request has no call before it arrives and no answer before it is done, and runs
\* the statements of its call in between.
RequestsKeepTheirPath ==
    /\ call \in [Request -> Calls \cup {None}]
    /\ \A r \in Request :
        /\ pc[r] = "idle" => call[r] = None
        /\ pc[r] # "idle" => call[r] \in Calls
        /\ pc[r] # "done" => reply[r] = ""
        /\ pc[r] \notin {"idle", "done"} => pc[r] \in PathOf(call[r].op)

\* The id of a group is drawn by one creation only, before which it has no row.
UnbornGroups ==
    \A r \in Request :
        /\ pc[r] \in {"friends?", "create"} => call[r].group \notin groups
        /\ pc[r] # "idle" /\ call[r].op = "create" =>
            /\ call[r].group \notin DOMAIN Founded
            /\ \A q \in Request :
                pc[q] # "idle" /\ call[q].op = "create" /\ call[q].group = call[r].group => q = r

\* Rows are of groups that were founded.
GroupsWereCreated ==
    \A g \in groups :
        \/ g \in DOMAIN Founded
        \/ \E r \in Request : pc[r] = "done" /\ call[r].op = "create" /\ call[r].group = g

\* The author of an open change is a member of the group.
AuthorsAreMembers ==
    \A r \in Request : pc[r] \in InTransaction => call[r].user \in Members(call[r].group)

\* FOR SHARE: an activity that is being proposed is published.
SharedArePublished ==
    \A r \in Request :
        pc[r] \in {"insert", "recipients", "commit"} /\ call[r].op = "propose"
            => call[r].activity \in published

\* The participants that were read still are all of them.
MembersAreTold ==
    \A r \in Request : pc[r] = "commit" => Members(call[r].group) \subseteq told[r]

\* Ranks have a bound in every group.
RanksBounded ==
    \A g \in Group : \E n \in Nat : \A u \in User : joined[g][u] <= n

\* Nobody was added to the group or removed from it.
OnlyDepartures(g) ==
    \A r \in Request :
        call[r] # None /\ call[r].op \in {"add", "remove"} /\ call[r].group = g => reply[r] # "OK"

\* A departure is about to promote a member.
Heir(g) == \E r \in Request : pc[r] = "promote" /\ call[r].group = g

\* Unless a statement failed, a group that only sees departures has an administrator
\* or a departure that is about to promote one.
HeirIsComing ==
    NoneFailed => \A g \in Group : OnlyDepartures(g) => HasAdminOrNobody(g) \/ Heir(g)

IInv ==
    /\ TypeOK
    /\ RequestsKeepTheirPath
    /\ UnbornGroups /\ GroupsWereCreated
    /\ AuthorsAreMembers /\ SharedArePublished /\ MembersAreTold
    /\ RanksBounded
    /\ HeirIsComing

-------------------------------------------------------------------------------
(* Naturals: the oldest member and the next rank *)

\* A nonempty set of naturals has a least element.
LEMMA LeastNatural ==
    ASSUME NEW T, T \subseteq Nat, T # {}
    PROVE  \E m \in T : \A k \in T : m <= k
<1> DEFINE R == {p \in Nat \X Nat : p[1] < p[2]}
<1>1. IsWellFoundedOn(R, Nat)
  BY NatLessThanWellFounded DEF OpToRel
<1>2. \E m \in T : \A k \in T : <<k, m>> \notin R
  <2> HIDE DEF R
  <2> QED BY <1>1, WFMin
<1>3. PICK m \in T : \A k \in T : <<k, m>> \notin R
  BY <1>2
<1>4. ASSUME NEW k \in T PROVE m <= k
  <2>1. m \in Nat /\ k \in Nat /\ <<k, m>> \in Nat \X Nat
    OBVIOUS
  <2>2. ~(k < m)
    BY <1>3, <2>1
  <2> QED
    BY <2>1, <2>2
<1> QED
  BY <1>4

\* A group with members has an oldest one, whatever number of users there are.
LEMMA OldestExists ==
    ASSUME NEW g \in Group, joined \in [Group -> [User -> Nat]], Members(g) # {}
    PROVE  Oldest(g) # {}
<1> DEFINE T == {joined[g][u] : u \in Members(g)}
<1>1. T \subseteq Nat /\ T # {}
  BY DEF Members
<1>2. \E m \in T : \A k \in T : m <= k
  <2> HIDE DEF T
  <2> QED BY <1>1, LeastNatural
<1> QED
  BY <1>2 DEF Oldest

\* The next rank in a group is a natural number above every rank in use.
LEMMA HighestRank ==
    ASSUME IInv, NEW g \in Group, NEW u \in User
    PROVE  LET top == Max({joined[g][v] : v \in User})
           IN  top \in Nat /\ \A v \in User : joined[g][v] <= top
<1> DEFINE Ranks == {joined[g][v] : v \in User}
           Bounds == {n \in Nat : \A v \in User : joined[g][v] <= n}
<1>1. joined[g] \in [User -> Nat]
  BY DEF IInv, TypeOK
<1>2. Bounds # {} /\ Bounds \subseteq Nat
  BY DEF IInv, RanksBounded
<1>3. PICK m \in Bounds : \A k \in Bounds : m <= k
  <2> HIDE DEF Bounds
  <2> QED BY <1>2, LeastNatural
<1>4. m \in Ranks
  <2>1. SUFFICES ASSUME m \notin Ranks PROVE FALSE
    OBVIOUS
  <2>2. \A v \in User : joined[g][v] \in Nat /\ joined[g][v] <= m /\ joined[g][v] # m
    BY <1>1, <2>1
  <2>3. m \in Nat /\ m # 0
    BY <2>2
  <2>4. m - 1 \in Bounds
    BY <2>2, <2>3
  <2> QED
    BY <1>3, <2>3, <2>4
<1>5. \A y \in Ranks : m >= y
  BY <1>1
<1>6. \E x \in Ranks : \A y \in Ranks : x >= y
  BY <1>4, <1>5
<1>7. Max(Ranks) \in Ranks /\ \A y \in Ranks : Max(Ranks) >= y
  <2> HIDE DEF Ranks
  <2> QED BY <1>6 DEF Max
<1> QED
  BY <1>1, <1>7

-------------------------------------------------------------------------------
(* Paths *)

\* What the routes and the schemas let through, call by call.
LEMMA CallTypes ==
    ASSUME NEW c \in Calls
    PROVE  /\ c \in Call /\ c # None
           /\ c.op \in Ops /\ c.user \in User /\ c.group \in Group /\ c.others \subseteq User
           /\ c.op \in {"add", "remove"} => c.target \in User
           /\ c.op \in {"propose", "withdraw"} => c.activity \in Activity
  BY CallsAssumption, NoneAssumption DEF Call

\* A request that has arrived runs a call of the types above.
LEMMA ReceivedCall ==
    ASSUME IInv, NEW r \in Request, pc[r] # "idle"
    PROVE  /\ call[r] \in Calls /\ call[r] # None
           /\ call[r].op \in Ops /\ call[r].user \in User /\ call[r].group \in Group
           /\ call[r].others \subseteq User
           /\ call[r].op \in {"add", "remove"} => call[r].target \in User
           /\ call[r].op \in {"propose", "withdraw"} => call[r].activity \in Activity
           /\ pc[r] # "done" => pc[r] \in PathOf(call[r].op)
  BY CallTypes DEF IInv, TypeOK, RequestsKeepTheirPath

\* The path of a call starts outside of its transaction, and never leads back there.
LEMMA PathTypes ==
    ASSUME NEW op \in Ops
    PROVE  /\ FirstStep(op) \in PathOf(op)
           /\ PathOf(op) \subseteq Steps \ {"idle", "done"}
           /\ FirstStep(op) \notin InTransaction
           /\ FirstStep(op) \notin {"create", "promote", "commit"}
           /\ FirstStep(op) = "friends?" <=> op = "create"
           /\ PathOf(op) \cap {"friends?", "create"} # {} => op = "create"
           /\ PathOf(op) \cap InTransaction # {} => op \in {"propose", "withdraw"}
  BY DEF PathOf, FirstStep, Steps, Ops, InTransaction

\* Where each statement leads, and the calls that run it.
LEMMA PathSteps ==
    ASSUME NEW op \in Ops
    PROVE  /\ "friends?" \in PathOf(op) => op = "create"
           /\ op = "create" => "create" \in PathOf(op)
           /\ "create" \in PathOf(op) => op = "create"
           /\ "admin?" \in PathOf(op) => op \in {"add", "remove", "rename"}
           /\ op = "add" => "insertMember" \in PathOf(op)
           /\ op = "remove" => "deleteMember" \in PathOf(op)
           /\ op = "rename" => "rename" \in PathOf(op)
           /\ "insertMember" \in PathOf(op) => op = "add"
           /\ "deleteMember" \in PathOf(op) => op = "remove"
           /\ "rename" \in PathOf(op) => op = "rename"
           /\ "exists?" \in PathOf(op) => op = "leave"
           /\ op = "leave" => "leave" \in PathOf(op) /\ "promote" \in PathOf(op)
           /\ "leave" \in PathOf(op) => op = "leave"
           /\ "promote" \in PathOf(op) => op = "leave"
           /\ "participant?" \in PathOf(op) => op = "delete"
           /\ op = "delete" => "deleteGroup" \in PathOf(op)
           /\ "deleteGroup" \in PathOf(op) => op = "delete"
           /\ "member" \in PathOf(op) => op \in {"propose", "withdraw"}
           /\ op = "propose" => "activity" \in PathOf(op) /\ "insert" \in PathOf(op)
           /\ op = "withdraw" => "withdraw" \in PathOf(op)
           /\ "activity" \in PathOf(op) => op = "propose"
           /\ "insert" \in PathOf(op) => op = "propose"
           /\ "withdraw" \in PathOf(op) => op = "withdraw"
           /\ op \in {"propose", "withdraw"} => "recipients" \in PathOf(op) /\ "commit" \in PathOf(op)
           /\ "recipients" \in PathOf(op) => op \in {"propose", "withdraw"}
           /\ "commit" \in PathOf(op) => op \in {"propose", "withdraw"}
  BY DEF PathOf, Ops

\* A request moves along its path, or is answered.
Moves(r) ==
    /\ pc[r] \notin {"idle", "done"}
    /\ \/ \E step \in PathOf(call[r].op) : GoTo(r, step)
       \/ \E code \in Replies \ {""} : Answer(r, code)
    /\ UNCHANGED call

\* Every statement of a request moves it along the path of its call.
LEMMA StepMoves ==
    ASSUME IInv, NEW r \in Request, Step(r)
    PROVE  Moves(r) /\ pc[r] \in PathOf(call[r].op) /\ call[r].op \in Ops
<1>1. pc[r] \notin {"idle", "done"} /\ UNCHANGED call
  BY DEF Step, At, CheckFriends, Create, CheckAdmin, InsertMember, DeleteMember, Rename, CheckGroup,
     Leave, Promote, CheckParticipant, DeleteGroup, LockMembership, LockActivity, Insert, Withdraw,
     ReadRecipients, Commit
<1>2. pc[r] \in PathOf(call[r].op) /\ call[r].op \in Ops
  BY <1>1, ReceivedCall
<1> DEFINE Goes == \E step \in PathOf(call[r].op) : GoTo(r, step)
           Ends == \E code \in Replies \ {""} : Answer(r, code)
<1>3. ASSUME CheckFriends(r) PROVE Goes \/ Ends
  BY <1>2, <1>3, PathSteps DEF CheckFriends, At, Replies
<1>4. ASSUME Create(r) \/ DeleteMember(r) \/ Promote(r) \/ Rename(r) \/ DeleteGroup(r) \/ Commit(r)
      PROVE  Goes \/ Ends
  BY <1>4 DEF Create, DeleteMember, Promote, Rename, DeleteGroup, Commit, Replies
<1>5. ASSUME CheckAdmin(r) PROVE Goes \/ Ends
  BY <1>2, <1>5, PathSteps DEF CheckAdmin, At, Replies
<1>6. ASSUME InsertMember(r) PROVE Goes \/ Ends
  BY <1>6 DEF InsertMember, Replies
<1>7. ASSUME CheckGroup(r) \/ Leave(r) \/ CheckParticipant(r) PROVE Goes \/ Ends
  BY <1>2, <1>7, PathSteps DEF CheckGroup, Leave, CheckParticipant, At, Replies
<1>8. ASSUME LockMembership(r) PROVE Goes \/ Ends
  BY <1>2, <1>8, PathSteps DEF LockMembership, Refuse, At, Replies
<1>9. ASSUME LockActivity(r) \/ Insert(r) \/ Withdraw(r) PROVE Goes \/ Ends
  BY <1>2, <1>9, PathSteps DEF LockActivity, Insert, Withdraw, Refuse, At, Replies
<1>10. ASSUME ReadRecipients(r) PROVE Goes \/ Ends
  BY <1>2, <1>10, PathSteps DEF ReadRecipients
<1>11. Goes \/ Ends
  BY <1>3, <1>4, <1>5, <1>6, <1>7, <1>8, <1>9, <1>10 DEF Step
<1> QED
  BY <1>1, <1>2, <1>11 DEF Moves

\* Nobody but the request that takes the step moves, and calls stay.
LEMMA OthersStay ==
    ASSUME IInv, NEW r \in Request, Step(r) \/ Fail(r)
    PROVE  /\ UNCHANGED call /\ pc[r] \notin {"idle", "done"} /\ pc'[r] # "idle"
           /\ pc' \in [Request -> Steps] /\ reply' \in [Request -> Replies]
           /\ told' \in [Request -> SUBSET User]
           /\ pc'[r] # "done" => pc'[r] \in PathOf(call[r].op)
           /\ pc'[r] # "done" => reply'[r] = reply[r]
           /\ \A q \in Request \ {r} : pc'[q] = pc[q] /\ reply'[q] = reply[q]
           /\ \A q \in Request \ {r} : told'[q] = told[q]
<1>1. /\ pc \in [Request -> Steps] /\ reply \in [Request -> Replies]
      /\ told \in [Request -> SUBSET User]
  BY DEF IInv, TypeOK
<1>2. CASE Step(r)
  <2>1. Moves(r) /\ call[r].op \in Ops
    BY <1>2, StepMoves
  <2>2. told' = told \/ told' = [told EXCEPT ![r] = Members(call[r].group)]
    BY <1>2 DEF Step, At, CheckFriends, Create, CheckAdmin, InsertMember, DeleteMember, Rename,
       CheckGroup, Leave, Promote, CheckParticipant, DeleteGroup, LockMembership, LockActivity,
       Insert, Withdraw, ReadRecipients, Commit
  <2>3. told' \in [Request -> SUBSET User] /\ \A q \in Request \ {r} : told'[q] = told[q]
    BY <1>1, <2>2 DEF Members
  <2>4. CASE \E step \in PathOf(call[r].op) : GoTo(r, step)
    <3>1. PICK step \in PathOf(call[r].op) : GoTo(r, step)
      BY <2>4
    <3>2. step \in Steps \ {"idle", "done"}
      BY <2>1, <3>1, PathTypes
    <3> QED
      BY <1>1, <2>1, <2>3, <3>1, <3>2 DEF Moves, GoTo
  <2>5. CASE \E code \in Replies \ {""} : Answer(r, code)
    BY <1>1, <2>1, <2>3, <2>5 DEF Moves, Answer, Steps
  <2> QED
    BY <2>1, <2>4, <2>5 DEF Moves
<1>3. CASE Fail(r)
  BY <1>1, <1>3 DEF Fail, Refuse, Answer, Steps, Replies
<1> QED
  BY <1>2, <1>3

\* The arrival of a request.
LEMMA StartFacts ==
    ASSUME IInv, NEW r \in Request, NEW c \in Calls, Start(r, c)
    PROVE  /\ pc[r] = "idle" /\ reply[r] = ""
           /\ call' \in [Request -> Calls \cup {None}] /\ pc' \in [Request -> Steps]
           /\ call'[r] = c /\ pc'[r] = FirstStep(c.op) /\ pc'[r] \in PathOf(c.op)
           /\ c.op = "create" => Fresh(c.group)
           /\ UNCHANGED <<tables, glock, told, reply>>
           /\ \A q \in Request \ {r} : call'[q] = call[q] /\ pc'[q] = pc[q]
<1>1. pc \in [Request -> Steps] /\ call \in [Request -> Calls \cup {None}]
  BY DEF IInv, TypeOK, RequestsKeepTheirPath
<1>2. FirstStep(c.op) \in PathOf(c.op) /\ FirstStep(c.op) \in Steps
  BY CallTypes, PathTypes
<1> QED
  BY <1>1, <1>2 DEF Start, GoTo, IInv, RequestsKeepTheirPath

\* Who takes a step, if any.
LEMMA StepSplit ==
    ASSUME [Next]_vars
    PROVE  \/ \E r \in Request : Step(r) \/ Fail(r)
           \/ \E r \in Request, c \in Calls : Start(r, c)
           \/ UNCHANGED <<groups, role, joined, title, proposals, glock, requests>>
  BY DEF Next, Moderate, vars, tables

\* How the statements that others wait for are reached.
LEMMA StepLeads ==
    ASSUME IInv, NEW r \in Request, Step(r) \/ Fail(r)
    PROVE  /\ pc'[r] = "commit" => ReadRecipients(r)
           /\ pc'[r] = "recipients" => pc[r] \in {"insert", "withdraw"}
           /\ pc'[r] = "insert" => LockActivity(r)
           /\ pc'[r] = "promote" => Leave(r)
           /\ pc'[r] \in {"friends?", "create"} => CheckFriends(r)
<1>1. pc \in [Request -> Steps]
  BY DEF IInv, TypeOK
<1>2. CASE CheckFriends(r) \/ Create(r) \/ Fail(r)
  BY <1>1, <1>2 DEF CheckFriends, Create, Fail, Refuse, GoTo, Answer
<1>3. CASE CheckAdmin(r)
  <2>1. call[r].op \in {"add", "remove", "rename"}
    BY <1>3, StepMoves, PathSteps DEF CheckAdmin, At, Step
  <2>2. pc'[r] \in {"done", "rename", "deleteMember", "insertMember"}
    BY <1>1, <1>3, <2>1 DEF CheckAdmin, At, GoTo, Answer
  <2> QED
    BY <2>2
<1>4. CASE InsertMember(r) \/ DeleteMember(r) \/ Rename(r) \/ Promote(r) \/ DeleteGroup(r)
  BY <1>1, <1>4 DEF InsertMember, DeleteMember, Rename, Promote, DeleteGroup, At, Answer
<1>5. CASE CheckGroup(r) \/ Leave(r) \/ CheckParticipant(r)
  BY <1>1, <1>5 DEF CheckGroup, Leave, CheckParticipant, At, GoTo, Answer
<1>6. CASE LockMembership(r)
  BY <1>1, <1>6 DEF LockMembership, At, GoTo, Refuse, Answer
<1>7. CASE LockActivity(r) \/ Insert(r) \/ Withdraw(r)
  BY <1>1, <1>7 DEF LockActivity, Insert, Withdraw, At, GoTo, Refuse, Answer
<1>8. CASE ReadRecipients(r) \/ Commit(r)
  BY <1>1, <1>8 DEF ReadRecipients, Commit, At, GoTo, Answer
<1> QED
  BY <1>2, <1>3, <1>4, <1>5, <1>6, <1>7, <1>8 DEF Step

\* Requests keep their calls and run them statement by statement.
LEMMA PathKept ==
    ASSUME IInv, [Next]_vars
    PROVE  RequestsKeepTheirPath'
<1>1. RequestsKeepTheirPath
  BY DEF IInv
<1>2. ASSUME NEW r \in Request, Step(r) \/ Fail(r) PROVE RequestsKeepTheirPath'
  <2>1. reply[r] = ""
    BY <1>1, <1>2, OthersStay DEF RequestsKeepTheirPath
  <2> QED
    BY <1>1, <1>2, <2>1, OthersStay DEF RequestsKeepTheirPath
<1>3. ASSUME NEW r \in Request, NEW c \in Calls, Start(r, c) PROVE RequestsKeepTheirPath'
  <2>1. FirstStep(c.op) \notin {"idle", "done"}
    BY CallTypes, PathTypes
  <2> QED
    BY <1>1, <1>3, <2>1, StartFacts DEF RequestsKeepTheirPath
<1>4. CASE UNCHANGED requests
  BY <1>1, <1>4 DEF RequestsKeepTheirPath, requests
<1> QED
  BY <1>2, <1>3, <1>4, StepSplit

-------------------------------------------------------------------------------
(* Locks *)

LocksFit ==
    /\ glock \in [Group -> Request \cup {None}]
    /\ \A g \in Group, r \in Request :
            glock[g] = r <=> pc[r] \in InTransaction /\ call[r].group = g

\* A transaction takes the lock of its group, keeps it, or gives back all it has.
Takes(r) ==
    /\ pc[r] = "member" /\ pc'[r] \in {"activity", "withdraw"}
    /\ GroupFree(call[r].group) /\ Acquire(r)
    /\ call[r].user \in Members(call[r].group) /\ UNCHANGED tables
Keeps(r) == (pc[r] \in InTransaction <=> pc'[r] \in InTransaction) /\ UNCHANGED glock
Releases(r) ==
    pc'[r] = "done" /\ glock' = [g \in Group |-> IF glock[g] = r THEN None ELSE glock[g]]

\* Every step of a request is one of the three.
LEMMA LockSteps ==
    ASSUME IInv, NEW r \in Request, Step(r) \/ Fail(r)
    PROVE  Takes(r) \/ Keeps(r) \/ Releases(r)
<1> USE DEF InTransaction
<1>1. pc \in [Request -> Steps]
  BY DEF IInv, TypeOK
<1>2. CASE Fail(r) \/ Commit(r)
  BY <1>1, <1>2 DEF Fail, Commit, Refuse, Answer, Releases
<1>3. CASE LockMembership(r)
  <2>1. CASE call[r].user \in Members(call[r].group)
    BY <1>1, <1>3, <2>1 DEF LockMembership, At, GoTo, Takes
  <2>2. CASE call[r].user \notin Members(call[r].group)
    BY <1>1, <1>3, <2>2 DEF LockMembership, Refuse, Answer, Releases
  <2> QED
    BY <2>1, <2>2
<1>4. CASE LockActivity(r) \/ Insert(r) \/ Withdraw(r) \/ ReadRecipients(r)
  BY <1>1, <1>4 DEF LockActivity, Insert, Withdraw, ReadRecipients, At, GoTo, Refuse, Answer,
     Releases, Keeps
<1>5. CASE CheckFriends(r) \/ Create(r) \/ CheckGroup(r) \/ CheckParticipant(r)
  BY <1>1, <1>5 DEF CheckFriends, Create, CheckGroup, CheckParticipant, At, GoTo, Answer, Keeps
<1>6. CASE CheckAdmin(r)
  <2>1. call[r].op \in {"add", "remove", "rename"} /\ pc[r] = "admin?"
    BY <1>6, StepMoves, PathSteps DEF CheckAdmin, At, Step
  <2>2. pc'[r] \in {"done", "rename", "deleteMember", "insertMember"} /\ UNCHANGED glock
    BY <1>1, <1>6, <2>1 DEF CheckAdmin, GoTo, Answer
  <2> QED
    BY <2>1, <2>2 DEF Keeps
<1>7. CASE InsertMember(r) \/ DeleteMember(r) \/ Rename(r)
  BY <1>1, <1>7 DEF InsertMember, DeleteMember, Rename, At, GoTo, Answer, Keeps
<1>8. CASE Leave(r) \/ Promote(r) \/ DeleteGroup(r)
  BY <1>1, <1>8 DEF Leave, Promote, DeleteGroup, At, GoTo, Answer, Keeps
<1> QED
  BY <1>2, <1>3, <1>4, <1>5, <1>6, <1>7, <1>8 DEF Step

\* A lock is held exactly by the open transaction of its group.
LEMMA LocksKept ==
    ASSUME IInv, [Next]_vars
    PROVE  LocksFit'
<1>1. LocksFit /\ None \notin Request
  BY NoneAssumption DEF IInv, TypeOK, LocksFit
<1>2. ASSUME NEW r \in Request, Step(r) \/ Fail(r) PROVE LocksFit'
  <2>1. call' = call /\ pc[r] \notin {"idle", "done"} /\ \A q \in Request \ {r} : pc'[q] = pc[q]
    BY <1>2, OthersStay
  <2>2. CASE Takes(r)
    <3>1. call[r].group \in Group /\ glock[call[r].group] = None
      BY <2>1, <2>2, ReceivedCall DEF Takes, GroupFree
    <3>2. pc[r] \notin InTransaction /\ pc'[r] \in InTransaction
      BY <2>2 DEF Takes, InTransaction
    <3>3. \A g \in Group : glock'[g] = IF g = call[r].group THEN r ELSE glock[g]
      BY <1>1, <2>2, <3>1 DEF Takes, Acquire, LocksFit
    <3>4. glock' \in [Group -> Request \cup {None}]
      BY <1>1, <2>2 DEF Takes, Acquire, LocksFit
    <3>5. ASSUME NEW g \in Group, NEW q \in Request
          PROVE  glock'[g] = q <=> pc'[q] \in InTransaction /\ call'[q].group = g
      <4>1. CASE q = r
        BY <1>1, <2>1, <3>1, <3>2, <3>3, <4>1 DEF LocksFit
      <4>2. CASE q # r
        BY <1>1, <2>1, <3>1, <3>3, <4>2 DEF LocksFit
      <4> QED
        BY <4>1, <4>2
    <3> QED
      BY <3>4, <3>5 DEF LocksFit
  <2>3. CASE Keeps(r)
    BY <1>1, <2>1, <2>3 DEF Keeps, LocksFit
  <2>4. CASE Releases(r)
    <3>1. pc'[r] \notin InTransaction
      BY <2>4 DEF Releases, InTransaction
    <3> QED
      BY <1>1, <2>1, <2>4, <3>1 DEF Releases, LocksFit
  <2> QED
    BY <1>2, <2>2, <2>3, <2>4, LockSteps
<1>3. ASSUME NEW r \in Request, NEW c \in Calls, Start(r, c) PROVE LocksFit'
  <2>1. pc[r] \notin InTransaction /\ pc'[r] \notin InTransaction
    BY <1>3, StartFacts, CallTypes, PathTypes DEF InTransaction
  <2>2. glock' = glock /\ \A q \in Request \ {r} : call'[q] = call[q] /\ pc'[q] = pc[q]
    BY <1>3, StartFacts DEF tables
  <2>3. ASSUME NEW g \in Group, NEW q \in Request
        PROVE  glock'[g] = q <=> pc'[q] \in InTransaction /\ call'[q].group = g
    BY <1>1, <2>1, <2>2 DEF LocksFit
  <2> QED
    BY <1>1, <2>2, <2>3 DEF LocksFit
<1>4. CASE UNCHANGED <<glock, requests>>
  BY <1>1, <1>4 DEF LocksFit, requests
<1> QED
  BY <1>2, <1>3, <1>4, StepSplit

\* A step needs the lock of no transaction but its own.
LEMMA HeldLock ==
    ASSUME IInv, NEW r \in Request, pc[r] \in InTransaction
    PROVE  call[r].group \in Group /\ glock[call[r].group] = r /\ glock[call[r].group] # None
  BY ReceivedCall, NoneAssumption DEF IInv, TypeOK, InTransaction

-------------------------------------------------------------------------------
(* Members *)

RolesFit ==
    /\ groups \subseteq Group
    /\ role \in [Group -> [User -> {"none", "member", "admin"}]]
    /\ \A g \in Group \ groups : Members(g) = {}

\* Rows of members are only touched where no open transaction holds them.
MembersMove ==
    \A g \in Group :
        /\ Members(g) \subseteq Members(g)'
            \/ \A u \in Members(g) \ Members(g)' : RowFree(g, u)
        /\ Members(g)' \subseteq Members(g) \/ GroupFree(g)

\* A group whose founder inserts it now has no member and no open transaction.
LEMMA UnbornIsEmpty ==
    ASSUME IInv, NEW r \in Request, Create(r)
    PROVE  /\ call[r].group \in Group \ groups /\ call[r].user \in User
           /\ call[r].others \subseteq User
           /\ Members(call[r].group) = {} /\ GroupFree(call[r].group)
<1>1. pc[r] = "create"
  BY DEF Create, At
<1>2. /\ call[r].group \in Group \ groups /\ call[r].user \in User
      /\ call[r].others \subseteq User
      /\ Members(call[r].group) = {}
  BY <1>1, ReceivedCall DEF IInv, TypeOK, UnbornGroups
<1>3. GroupFree(call[r].group)
  <2>1. SUFFICES ASSUME glock[call[r].group] # None PROVE FALSE
    BY DEF GroupFree
  <2>2. PICK q \in Request : glock[call[r].group] = q
    BY <1>2, <2>1 DEF IInv, TypeOK
  <2>3. pc[q] \in InTransaction /\ call[q].group = call[r].group
    BY <1>2, <2>2 DEF IInv, TypeOK
  <2> QED
    BY <1>2, <2>3 DEF IInv, AuthorsAreMembers
<1> QED
  BY <1>2, <1>3

\* One row of one group is rewritten.
SetsRole(g, u, x) == role' = [role EXCEPT ![g][u] = x]

\* What each statement does to the members of the groups.
LEMMA RoleSteps ==
    ASSUME IInv, NEW r \in Request, Step(r)
    PROVE  LET g == call[r].group
           IN  \/ UNCHANGED <<groups, role>>
               \/ Create(r)
               \/ /\ InsertMember(r) /\ GroupFree(g) /\ g \in groups /\ call[r].target \in User
                  /\ reply'[r] = "OK" /\ call[r].op = "add"
                  /\ UNCHANGED groups /\ SetsRole(g, call[r].target, "member")
               \/ /\ DeleteMember(r) /\ RowFree(g, call[r].target) /\ call[r].target \in User
                  /\ call[r].target \in Members(g) => reply'[r] = "OK" /\ call[r].op = "remove"
                  /\ UNCHANGED groups /\ SetsRole(g, call[r].target, "none")
               \/ /\ Leave(r) /\ RowFree(g, call[r].user)
                  /\ call[r].user \in Members(g) => pc'[r] = "promote"
                  /\ UNCHANGED groups /\ SetsRole(g, call[r].user, "none")
               \/ /\ Promote(r) /\ Admins(g) = {}
                  /\ \E u \in Members(g) : SetsRole(g, u, "admin")
                  /\ UNCHANGED groups
               \/ /\ DeleteGroup(r) /\ GroupFree(g) /\ groups' = groups \ {g}
                  /\ role' = [role EXCEPT ![g] = [u \in User |-> "none"]]
<1>1. /\ pc \in [Request -> Steps] /\ reply \in [Request -> Replies]
      /\ role \in [Group -> [User -> {"none", "member", "admin"}]]
  BY DEF IInv, TypeOK
<1>2. CASE InsertMember(r)
  <2>1. call[r].op = "add" /\ call[r].target \in User
    BY <1>2, StepMoves, ReceivedCall, PathSteps DEF InsertMember, At, Moves
  <2> QED
    BY <1>1, <1>2, <2>1 DEF InsertMember, Answer, SetsRole
<1>3. CASE DeleteMember(r)
  <2>1. call[r].op = "remove" /\ call[r].target \in User
    BY <1>3, StepMoves, ReceivedCall, PathSteps DEF DeleteMember, At, Moves
  <2> QED
    BY <1>1, <1>3, <2>1 DEF DeleteMember, Answer, SetsRole
<1>4. CASE Leave(r)
  BY <1>1, <1>4 DEF Leave, GoTo, SetsRole
<1>5. CASE Promote(r)
  BY <1>1, <1>5 DEF Promote, Heirs, Oldest, SetsRole
<1>6. CASE DeleteGroup(r)
  BY <1>6 DEF DeleteGroup
<1> QED
  BY <1>2, <1>3, <1>4, <1>5, <1>6 DEF Step, CheckFriends, CheckAdmin, Rename, CheckGroup,
     CheckParticipant, LockMembership, LockActivity, Insert, Withdraw, ReadRecipients, Commit,
     Refuse, tables

\* Roles keep their types, and rows that a transaction has locked stay.
LEMMA RolesKept ==
    ASSUME IInv, [Next]_vars
    PROVE  RolesFit' /\ MembersMove
<1>1. RolesFit
  BY DEF IInv, TypeOK, RolesFit
<1>2. CASE UNCHANGED <<groups, role>>
  BY <1>1, <1>2 DEF RolesFit, MembersMove, Members
<1>3. ASSUME NEW r \in Request, Step(r) PROVE RolesFit' /\ MembersMove
  <2>1. PICK g \in Group : g = call[r].group /\ call[r].user \in User
    BY <1>3, StepMoves, ReceivedCall DEF Moves
  <2>2. CASE Create(r)
    <3>1. /\ groups' = groups \cup {g} /\ role' = [role EXCEPT ![g] = FounderRoles(call[r].user, call[r].others)]
          /\ Members(g) = {} /\ GroupFree(g)
      BY <2>1, <2>2, UnbornIsEmpty DEF Create
    <3>2. FounderRoles(call[r].user, call[r].others) \in [User -> {"none", "member", "admin"}]
      BY DEF FounderRoles
    <3>3. role'[g] \in [User -> {"none", "member", "admin"}] /\ \A h \in Group \ {g} : role'[h] = role[h]
      BY <1>1, <2>1, <3>1, <3>2 DEF RolesFit
    <3>4. \A h \in Group \ {g} : Members(h)' = Members(h)
      BY <3>3 DEF Members
    <3>5. RolesFit'
      BY <1>1, <2>1, <3>1, <3>2, <3>4 DEF RolesFit
    <3> QED
      BY <3>1, <3>4, <3>5 DEF MembersMove
  <2>3. ASSUME NEW u \in User, NEW x \in {"none", "member", "admin"},
               SetsRole(g, u, x), UNCHANGED groups,
               x = "none" => RowFree(g, u),
               x = "member" => GroupFree(g) /\ g \in groups,
               x = "admin" => u \in Members(g)
        PROVE  RolesFit' /\ MembersMove
    <3>1. role' \in [Group -> [User -> {"none", "member", "admin"}]]
      BY <1>1, <2>1, <2>3 DEF SetsRole, RolesFit
    <3>2. \A h \in Group, v \in User : role'[h][v] = IF h = g /\ v = u THEN x ELSE role[h][v]
      BY <1>1, <2>1, <2>3 DEF SetsRole, RolesFit
    <3>3. \A h \in Group \ {g} : Members(h)' = Members(h)
      BY <3>2 DEF Members
    <3>4. Members(g)' = IF x = "none" THEN Members(g) \ {u} ELSE Members(g) \cup {u}
      BY <2>1, <3>2 DEF Members
    <3>5. g \notin groups => Members(g)' = {}
      BY <1>1, <2>1, <2>3, <3>4 DEF RolesFit
    <3>6. RolesFit'
      BY <1>1, <2>3, <3>1, <3>3, <3>5 DEF RolesFit
    <3>7. MembersMove
      BY <2>3, <3>3, <3>4 DEF MembersMove
    <3> QED
      BY <3>6, <3>7
  <2>4. CASE DeleteGroup(r)
    <3>1. /\ groups' = groups \ {g} /\ role' = [role EXCEPT ![g] = [u \in User |-> "none"]]
          /\ GroupFree(g)
      BY <2>1, <2>4 DEF DeleteGroup
    <3>2. role' \in [Group -> [User -> {"none", "member", "admin"}]]
      BY <1>1, <2>1, <3>1 DEF RolesFit
    <3>3. \A h \in Group, v \in User : role'[h][v] = IF h = g THEN "none" ELSE role[h][v]
      BY <1>1, <2>1, <3>1 DEF RolesFit
    <3>4. Members(g)' = {} /\ \A h \in Group \ {g} : Members(h)' = Members(h)
      BY <2>1, <3>3 DEF Members
    <3>5. \A u \in User : RowFree(g, u)
      BY <3>1 DEF RowFree, GroupFree
    <3>6. RolesFit'
      BY <1>1, <3>1, <3>2, <3>4 DEF RolesFit
    <3>7. MembersMove
      BY <3>4, <3>5 DEF MembersMove, Members
    <3> QED
      BY <3>6, <3>7
  <2>5. \A u \in Members(g) : u \in User
    BY DEF Members
  <2>6. \/ UNCHANGED <<groups, role>> \/ Create(r) \/ DeleteGroup(r)
        \/ \E u \in User, x \in {"none", "member", "admin"} :
            /\ SetsRole(g, u, x) /\ UNCHANGED groups
            /\ x = "none" => RowFree(g, u)
            /\ x = "member" => GroupFree(g) /\ g \in groups
            /\ x = "admin" => u \in Members(g)
    BY <1>3, <2>1, <2>5, RoleSteps
  <2> QED
    BY <1>2, <2>2, <2>3, <2>4, <2>6
<1>4. ASSUME NEW r \in Request, Fail(r) PROVE UNCHANGED <<groups, role>>
  BY <1>4 DEF Fail, Refuse, tables
<1>5. ASSUME NEW r \in Request, NEW c \in Calls, Start(r, c) PROVE UNCHANGED <<groups, role>>
  BY <1>5 DEF Start, tables
<1> QED
  BY <1>2, <1>3, <1>4, <1>5, StepSplit

\* An open change keeps its author in the group, and knows every member when it commits.
LEMMA AuthorsKept ==
    ASSUME IInv, [Next]_vars
    PROVE  AuthorsAreMembers' /\ MembersAreTold'
<1>1. /\ AuthorsAreMembers /\ MembersAreTold /\ MembersMove
      /\ pc \in [Request -> Steps] /\ told \in [Request -> SUBSET User]
  BY RolesKept DEF IInv, TypeOK
\* Nobody joins or leaves an open change, but for the members it does not need.
<1>2. ASSUME NEW q \in Request, pc[q] \in InTransaction,
             call'[q] = call[q]
      PROVE  (call[q].user \in Members(call[q].group))'
             /\ \A u \in Members(call[q].group)' : u \in Members(call[q].group)
  <2>1. PICK g \in Group : g = call[q].group /\ glock[g] = q /\ glock[g] # None
    BY <1>2, HeldLock
  <2>2. call[q].user \in Members(g)
    BY <1>1, <1>2, <2>1 DEF AuthorsAreMembers
  <2>3. Members(g)' \subseteq Members(g) /\ call[q].user \in Members(g)'
    BY <1>1, <2>1, <2>2 DEF MembersMove, RowFree, GroupFree
  <2> QED
    BY <1>2, <2>1, <2>3
<1>3. ASSUME NEW r \in Request, Step(r) \/ Fail(r) PROVE AuthorsAreMembers' /\ MembersAreTold'
  <2>1. call' = call /\ \A q \in Request \ {r} : pc'[q] = pc[q] /\ told'[q] = told[q]
    BY <1>3, OthersStay
  <2>2. ASSUME NEW q \in Request \ {r}
        PROVE  /\ (pc[q] \in InTransaction => call[q].user \in Members(call[q].group))'
               /\ (pc[q] = "commit" => Members(call[q].group) \subseteq told[q])'
    BY <1>1, <1>2, <2>1 DEF MembersAreTold, InTransaction
  <2>3. ASSUME pc'[r] \in InTransaction PROVE (call[r].user \in Members(call[r].group))'
    <3>1. CASE pc[r] \in InTransaction
      BY <1>2, <2>1, <3>1
    <3>2. CASE pc[r] \notin InTransaction
      <4>1. Takes(r)
        BY <1>3, <2>3, <3>2, LockSteps DEF Keeps, Releases, InTransaction
      <4> QED
        BY <2>1, <4>1 DEF Takes, tables, Members
    <3> QED
      BY <3>1, <3>2
  <2>4. ASSUME pc'[r] = "commit" PROVE (Members(call[r].group) \subseteq told[r])'
    <3>1. ReadRecipients(r)
      BY <1>3, <2>4, StepLeads
    <3> QED
      BY <1>1, <2>1, <3>1 DEF ReadRecipients, tables, Members
  <2> QED
    BY <2>2, <2>3, <2>4 DEF AuthorsAreMembers, MembersAreTold
<1>4. ASSUME NEW r \in Request, NEW c \in Calls, Start(r, c)
      PROVE  AuthorsAreMembers' /\ MembersAreTold'
  <2>1. pc'[r] \notin InTransaction /\ UNCHANGED <<role, told>>
        /\ \A q \in Request \ {r} : call'[q] = call[q] /\ pc'[q] = pc[q]
    <3>1. FirstStep(c.op) \notin InTransaction
      BY CallTypes, PathTypes
    <3> QED
      BY <1>4, <3>1, StartFacts DEF tables
  <2> QED
    BY <1>1, <2>1 DEF AuthorsAreMembers, MembersAreTold, Members, InTransaction
<1>5. CASE UNCHANGED <<role, requests>>
  BY <1>1, <1>5 DEF AuthorsAreMembers, MembersAreTold, Members, requests
<1> QED
  BY <1>3, <1>4, <1>5, StepSplit

-------------------------------------------------------------------------------
(* Groups and proposals *)

\* Statements that insert or delete rows of groups.
LEMMA GroupSteps ==
    ASSUME IInv, NEW r \in Request, Step(r)
    PROVE  groups' = groups \/ Create(r) \/ groups' = groups \ {call[r].group}
  BY RoleSteps

\* A group is inserted by the only request that drew its id.
LEMMA GroupsKept ==
    ASSUME IInv, [Next]_vars
    PROVE  UnbornGroups' /\ GroupsWereCreated'
<1>1. UnbornGroups /\ GroupsWereCreated /\ pc \in [Request -> Steps]
  BY DEF IInv, TypeOK
<1>2. ASSUME NEW r \in Request, Step(r) \/ Fail(r) PROVE UnbornGroups' /\ GroupsWereCreated'
  <2>1. /\ call' = call /\ pc[r] \notin {"idle", "done"} /\ pc'[r] # "idle"
        /\ \A q \in Request \ {r} : pc'[q] = pc[q]
    BY <1>2, OthersStay
  <2>2. /\ pc'[r] \in {"friends?", "create"} => pc[r] = "friends?" /\ groups' = groups
        /\ Create(r) => pc[r] = "create" /\ pc'[r] = "done"
        /\ pc[r] = "create" => call[r].op = "create"
    <3>1. pc'[r] \in {"friends?", "create"} => CheckFriends(r)
      BY <1>2, StepLeads
    <3>2. pc[r] = "create" => call[r].op = "create"
      BY ReceivedCall, PathSteps
    <3> QED
      BY <1>1, <3>1, <3>2 DEF CheckFriends, Create, At, Answer, tables
  <2>3. CASE Create(r)
    <3>1. groups' = groups \cup {call[r].group} /\ call[r].op = "create"
          /\ pc[r] = "create" /\ pc'[r] = "done"
      BY <2>2, <2>3 DEF Create
    <3>2. ASSUME NEW q \in Request, pc'[q] \in {"friends?", "create"}
          PROVE  call[q].group \notin groups'
      <4>1. q # r /\ pc[q] = pc'[q]
        BY <2>1, <3>1, <3>2
      <4>2. call[q].op = "create"
        BY <3>2, <4>1, ReceivedCall, PathSteps
      <4>3. call[q].group \notin groups /\ call[q].group # call[r].group
        BY <1>1, <2>1, <3>1, <3>2, <4>1, <4>2 DEF UnbornGroups
      <4> QED
        BY <3>1, <4>3
    <3>3. UnbornGroups'
      BY <1>1, <2>1, <3>2 DEF UnbornGroups
    <3>4. GroupsWereCreated'
      BY <1>1, <2>1, <3>1 DEF GroupsWereCreated
    <3> QED
      BY <3>3, <3>4
  <2>4. CASE groups' \subseteq groups
    <3>1. UnbornGroups'
      BY <1>1, <2>1, <2>2, <2>4 DEF UnbornGroups
    <3>2. GroupsWereCreated'
      BY <1>1, <2>1, <2>4 DEF GroupsWereCreated
    <3> QED
      BY <3>1, <3>2
  <2>5. Fail(r) => groups' = groups
    BY DEF Fail, Refuse, tables
  <2> QED
    BY <1>2, <2>3, <2>4, <2>5, GroupSteps
<1>3. ASSUME NEW r \in Request, NEW c \in Calls, Start(r, c)
      PROVE  UnbornGroups' /\ GroupsWereCreated'
  <2>1. /\ pc[r] = "idle" /\ call'[r] = c /\ groups' = groups
        /\ pc'[r] \notin {"idle", "done", "create"}
        /\ pc'[r] = "friends?" <=> c.op = "create"
        /\ c.op = "create" => Fresh(c.group)
        /\ \A q \in Request \ {r} : call'[q] = call[q] /\ pc'[q] = pc[q]
    <3>1. /\ FirstStep(c.op) \notin {"idle", "done", "create"}
          /\ FirstStep(c.op) = "friends?" <=> c.op = "create"
      BY CallTypes, PathTypes
    <3> QED
      BY <1>3, <3>1, StartFacts DEF tables
  <2>2. c.op = "create" => /\ c.group \notin DOMAIN Founded /\ c.group \notin groups
                           /\ \A q \in Request : pc[q] # "idle" /\ call[q].op = "create"
                                => call[q].group # c.group
    BY <1>1, <2>1 DEF Fresh, GroupsWereCreated
  <2>3. UnbornGroups'
    <3>1. ASSUME NEW q \in Request, pc'[q] \in {"friends?", "create"}
          PROVE  call'[q].group \notin groups'
      BY <1>1, <2>1, <2>2, <3>1 DEF UnbornGroups
    <3>2. ASSUME NEW q \in Request, pc'[q] # "idle", call'[q].op = "create"
          PROVE  /\ call'[q].group \notin DOMAIN Founded
                 /\ \A p \in Request : pc'[p] # "idle" /\ call'[p].op = "create"
                        /\ call'[p].group = call'[q].group => p = q
      BY <1>1, <2>1, <2>2, <3>2 DEF UnbornGroups
    <3> QED
      BY <3>1, <3>2 DEF UnbornGroups
  <2>4. GroupsWereCreated'
    BY <1>1, <2>1 DEF GroupsWereCreated
  <2> QED
    BY <2>3, <2>4
<1>4. CASE UNCHANGED <<groups, requests>>
  BY <1>1, <1>4 DEF UnbornGroups, GroupsWereCreated, requests
<1> QED
  BY <1>2, <1>3, <1>4, StepSplit

\* Moderation waits for the open proposals of an activity.
LEMMA SharedKept ==
    ASSUME IInv, [Next]_vars
    PROVE  published' \subseteq Activity /\ SharedArePublished'
<1>1. published \subseteq Activity /\ SharedArePublished /\ pc \in [Request -> Steps]
  BY DEF IInv, TypeOK
<1>2. ASSUME NEW r \in Request, Step(r) \/ Fail(r)
      PROVE  published' \subseteq Activity /\ SharedArePublished'
  <2>1. call' = call /\ \A q \in Request \ {r} : pc'[q] = pc[q]
    BY <1>2, OthersStay
  <2>2. published' = published
    BY <1>2 DEF Step, CheckFriends, Create, CheckAdmin, InsertMember, DeleteMember, Rename,
       CheckGroup, Leave, Promote, CheckParticipant, DeleteGroup, LockMembership, LockActivity,
       Insert, Withdraw, ReadRecipients, Commit, Fail, Refuse, tables
  <2>3. ASSUME pc'[r] \in {"insert", "recipients", "commit"}, call[r].op = "propose"
        PROVE  call[r].activity \in published
    <3>1. pc[r] = "withdraw" => call[r].op = "withdraw"
      BY ReceivedCall, PathSteps
    <3>2. pc[r] \in {"insert", "recipients"} \/ LockActivity(r)
      BY <1>2, <2>3, <3>1, StepLeads DEF ReadRecipients
    <3> QED
      BY <1>1, <2>3, <3>2 DEF SharedArePublished, LockActivity, Refuse, Answer
  <2> QED
    BY <1>1, <2>1, <2>2, <2>3 DEF SharedArePublished
<1>3. ASSUME NEW r \in Request, NEW c \in Calls, Start(r, c)
      PROVE  published' \subseteq Activity /\ SharedArePublished'
  <2>1. pc'[r] \notin InTransaction /\ published' = published
        /\ \A q \in Request \ {r} : call'[q] = call[q] /\ pc'[q] = pc[q]
    <3>1. FirstStep(c.op) \notin InTransaction
      BY CallTypes, PathTypes
    <3> QED
      BY <1>3, <3>1, StartFacts DEF tables
  <2> QED
    BY <1>1, <2>1 DEF SharedArePublished, InTransaction
<1>4. ASSUME NEW a \in Activity, Moderate(a)
      PROVE  published' \subseteq Activity /\ SharedArePublished'
  BY <1>1, <1>4 DEF Moderate, Shared, SharedArePublished, requests
<1>5. CASE UNCHANGED vars
  BY <1>1, <1>5 DEF SharedArePublished, vars, tables, requests
<1> QED
  BY <1>2, <1>3, <1>4, <1>5 DEF Next

ProposalsFit ==
    /\ title \in [Group -> Request \cup {None}]
    /\ proposals \subseteq Proposal
    /\ \A p \in proposals : p.group \in groups

\* A commit writes the proposal of a member, or deletes those its author may withdraw.
LEMMA CommitFacts ==
    ASSUME IInv, NEW r \in Request, Commit(r)
    PROVE  /\ call[r].op \in {"propose", "withdraw"} /\ groups' = groups
           /\ call[r].group \in groups /\ call[r].activity \in Activity
           /\ call[r].user \in Members(call[r].group) /\ call[r].user \in User
           /\ Members(call[r].group) \subseteq told[r]
           /\ call[r].op = "propose" =>
                /\ call[r].activity \in published
                /\ proposals' = proposals \cup {[group |-> call[r].group,
                                    activity |-> call[r].activity, by |-> call[r].user]}
           /\ call[r].op = "withdraw" => proposals' = proposals \ Target(r)
           /\ pc[r] = "commit" /\ pc'[r] = "done"
<1>1. pc[r] = "commit" /\ pc \in [Request -> Steps]
  BY DEF Commit, At, IInv, TypeOK
<1>2. /\ call[r].op \in {"propose", "withdraw"} /\ call[r].activity \in Activity
      /\ call[r].user \in User /\ call[r].group \in Group
  BY <1>1, ReceivedCall, PathSteps
<1>3. call[r].user \in Members(call[r].group) /\ Members(call[r].group) \subseteq told[r]
  BY <1>1 DEF IInv, AuthorsAreMembers, MembersAreTold, InTransaction
<1>4. call[r].group \in groups
  BY <1>2, <1>3 DEF IInv, TypeOK
<1>5. call[r].op = "propose" => call[r].activity \in published
  BY <1>1 DEF IInv, SharedArePublished
<1> QED
  BY <1>1, <1>2, <1>3, <1>4, <1>5 DEF Commit, Answer

\* Proposals are of existing groups.
LEMMA ProposalsKept ==
    ASSUME IInv, [Next]_vars
    PROVE  ProposalsFit'
<1>1. ProposalsFit
  BY DEF IInv, TypeOK, ProposalsFit
<1>2. ASSUME NEW r \in Request, Step(r) PROVE ProposalsFit'
  <2>1. call[r].group \in Group
    BY <1>2, StepMoves, ReceivedCall DEF Moves
  <2>2. CASE Commit(r)
    <3>1. proposals' \subseteq proposals \cup {[group |-> call[r].group,
                                    activity |-> call[r].activity, by |-> call[r].user]}
      BY <2>2, CommitFacts
    <3>2. title' = title
      BY <2>2 DEF Commit
    <3> QED
      BY <1>1, <2>1, <2>2, <3>1, <3>2, CommitFacts DEF ProposalsFit, Proposal
  <2>3. CASE DeleteGroup(r)
    BY <1>1, <2>3 DEF DeleteGroup, ProposalsFit
  <2>4. CASE Rename(r)
    BY <1>1, <2>1, <2>4 DEF Rename, ProposalsFit
  <2>5. CASE Create(r)
    BY <1>1, <2>5 DEF Create, ProposalsFit
  <2>6. CASE UNCHANGED <<groups, title, proposals>>
    BY <1>1, <2>6 DEF ProposalsFit
  <2> QED
    BY <1>2, <2>2, <2>3, <2>4, <2>5, <2>6 DEF Step, CheckFriends, CheckAdmin, InsertMember,
       DeleteMember, CheckGroup, Leave, Promote, CheckParticipant, LockMembership, LockActivity,
       Insert, Withdraw, ReadRecipients, Refuse, tables
<1>3. ASSUME NEW r \in Request, Fail(r) \/ \E c \in Calls : Start(r, c)
      PROVE  UNCHANGED <<groups, title, proposals>>
  BY <1>3 DEF Fail, Refuse, Start, tables
<1>4. CASE UNCHANGED <<groups, title, proposals>>
  BY <1>1, <1>4 DEF ProposalsFit
<1> QED
  BY <1>2, <1>3, <1>4, StepSplit

-------------------------------------------------------------------------------
(* Ranks *)

\* The rank of a new member is a natural number, and bounds the ranks of its group.
LEMMA RanksKept ==
    ASSUME IInv, [Next]_vars
    PROVE  joined' \in [Group -> [User -> Nat]] /\ RanksBounded'
<1>1. joined \in [Group -> [User -> Nat]] /\ RanksBounded
  BY DEF IInv, TypeOK
<1>2. CASE joined' = joined
  BY <1>1, <1>2 DEF RanksBounded
<1>3. ASSUME NEW r \in Request, InsertMember(r), joined' # joined
      PROVE  joined' \in [Group -> [User -> Nat]] /\ RanksBounded'
  <2>1. PICK g \in Group, u \in User : g = call[r].group /\ u = call[r].target
    <3>1. call[r].op = "add" /\ pc[r] = "insertMember"
      BY <1>3, StepMoves, PathSteps DEF Step, InsertMember, At
    <3> QED
      BY <3>1, ReceivedCall
  <2>2. PICK n : n = Max({joined[g][v] : v \in User})
    OBVIOUS
  <2>3. n \in Nat /\ \A v \in User : joined[g][v] <= n
    BY <2>2, HighestRank
  <2>4. joined' = [joined EXCEPT ![g][u] = 1 + n]
    BY <1>3, <2>1, <2>2 DEF InsertMember
  <2>5. joined' \in [Group -> [User -> Nat]]
    BY <1>1, <2>3, <2>4
  <2>6. \A v \in User : joined'[g][v] <= 1 + n
    BY <1>1, <2>3, <2>4
  <2>7. \A h \in Group \ {g} : joined'[h] = joined[h]
    BY <1>1, <2>4
  <2>8. ASSUME NEW h \in Group PROVE \E m \in Nat : \A v \in User : joined'[h][v] <= m
    <3>1. CASE h = g
      BY <2>3, <2>6, <3>1
    <3>2. CASE h # g
      BY <1>1, <2>7, <3>2 DEF RanksBounded
    <3> QED
      BY <3>1, <3>2
  <2> QED
    BY <2>5, <2>8 DEF RanksBounded
<1>4. ASSUME NEW r \in Request, Step(r) PROVE joined' = joined \/ InsertMember(r)
  BY <1>4 DEF Step, CheckFriends, Create, CheckAdmin, DeleteMember, Rename, CheckGroup,
     Leave, Promote, CheckParticipant, DeleteGroup, LockMembership, LockActivity, Insert, Withdraw,
     ReadRecipients, Commit, Refuse, tables
<1>5. ASSUME NEW r \in Request, Fail(r) \/ \E c \in Calls : Start(r, c) PROVE joined' = joined
  BY <1>5 DEF Fail, Refuse, Start, tables
<1> QED
  BY <1>2, <1>3, <1>4, <1>5, StepSplit

-------------------------------------------------------------------------------
(* Administrators *)

\* Answers are given once: a failure, or a change to the members, is never forgotten.
LEMMA AnswersStay ==
    ASSUME IInv, [Next]_vars
    PROVE  /\ NoneFailed' => NoneFailed
           /\ \A g \in Group : OnlyDepartures(g)' => OnlyDepartures(g)
<1>1. \A r \in Request : reply[r] # "" => pc[r] = "done" /\ call'[r] = call[r] /\ reply'[r] = reply[r]
  <2> SUFFICES ASSUME NEW r \in Request, reply[r] # ""
               PROVE  pc[r] = "done" /\ call'[r] = call[r] /\ reply'[r] = reply[r]
    OBVIOUS
  <2>1. pc[r] = "done"
    BY DEF IInv, RequestsKeepTheirPath
  <2>2. ASSUME NEW q \in Request, Step(q) \/ Fail(q) PROVE call'[r] = call[r] /\ reply'[r] = reply[r]
    BY <2>1, <2>2, OthersStay
  <2>3. ASSUME NEW q \in Request, NEW c \in Calls, Start(q, c)
        PROVE  call'[r] = call[r] /\ reply'[r] = reply[r]
    BY <2>1, <2>3, StartFacts
  <2>4. CASE UNCHANGED requests
    BY <2>1, <2>4 DEF requests
  <2> QED
    BY <2>1, <2>2, <2>3, <2>4, StepSplit
<1> QED
  BY <1>1 DEF NoneFailed, OnlyDepartures

\* No statement of addMember or removeMember leaves g with members and no administrator.
Spares(g) ==
    \A r \in Request :
        (InsertMember(r) \/ DeleteMember(r)) /\ call[r].group = g
            => HasAdminOrNobody(g)' \/ role'[g] = role[g]

\* A group keeps an administrator or a promotion under way through every step that spares it.
LEMMA HeirStays ==
    ASSUME IInv, [Next]_vars, NoneFailed', NEW g \in Group, HasAdminOrNobody(g) \/ Heir(g), Spares(g)
    PROVE  (HasAdminOrNobody(g) \/ Heir(g))'
<1>1. /\ pc \in [Request -> Steps] /\ reply \in [Request -> Replies]
      /\ role \in [Group -> [User -> {"none", "member", "admin"}]]
      /\ joined \in [Group -> [User -> Nat]]
  BY DEF IInv, TypeOK
<1>2. HasAdminOrNobody(g) \/ Heir(g)
  OBVIOUS
\* A request that is about to promote stays there, but for its own step.
<1>3. ASSUME NEW r \in Request, Step(r) PROVE (HasAdminOrNobody(g) \/ Heir(g))'
  <2>1. /\ call' = call /\ pc[r] \notin {"idle", "done"}
        /\ \A q \in Request \ {r} : pc'[q] = pc[q]
    BY <1>3, OthersStay
  <2>2. PICK h \in Group : h = call[r].group
    BY <1>3, StepMoves, ReceivedCall DEF Moves
  <2>3. CASE Promote(r) /\ h = g
    <3>1. CASE Admins(g) # {} \/ Heirs(g) = {}
      <4>1. Members(g) # {} => Admins(g) # {}
        BY <1>1, <3>1, OldestExists DEF Heirs
      <4>2. role' = role
        BY <2>2, <2>3, <3>1 DEF Promote
      <4> QED
        BY <4>1, <4>2 DEF HasAdminOrNobody, Members, Admins
    <3>2. CASE ~(Admins(g) # {} \/ Heirs(g) = {})
      <4>1. PICK u \in Heirs(g) : role' = [role EXCEPT ![g][u] = "admin"]
        BY <2>2, <2>3, <3>2 DEF Promote
      <4>2. u \in User /\ role'[g][u] = "admin"
        BY <1>1, <4>1 DEF Heirs, Oldest, Members
      <4> QED
        BY <4>2 DEF HasAdminOrNobody, Admins
    <3> QED
      BY <3>1, <3>2
  <2>4. CASE ~(Promote(r) /\ h = g) /\ Heir(g)
    <3>1. pc[r] # "promote" \/ h # g
      BY <1>3, <2>4 DEF Step, At, CheckFriends, Create, CheckAdmin, InsertMember, DeleteMember,
         Rename, CheckGroup, Leave, CheckParticipant, DeleteGroup, LockMembership, LockActivity,
         Insert, Withdraw, ReadRecipients, Commit
    <3> QED
      BY <2>1, <2>2, <2>4, <3>1 DEF Heir
  <2>5. CASE role'[g] = role[g] /\ HasAdminOrNobody(g)
    BY <2>5 DEF HasAdminOrNobody, Members, Admins
  <2>6. CASE h = g /\ HasAdminOrNobody(g) /\ Create(r)
    <3>1. role' = [role EXCEPT ![g] = FounderRoles(call[r].user, call[r].others)]
      BY <2>2, <2>6 DEF Create
    <3>2. call[r].user \in User /\ role'[g][call[r].user] = "admin"
      BY <1>1, <2>6, <3>1, UnbornIsEmpty DEF FounderRoles
    <3> QED
      BY <3>2 DEF HasAdminOrNobody, Admins
  <2>7. CASE h = g /\ HasAdminOrNobody(g) /\ DeleteGroup(r)
    <3>1. role' = [role EXCEPT ![g] = [u \in User |-> "none"]]
      BY <2>2, <2>7 DEF DeleteGroup
    <3>2. Members(g)' = {}
      BY <1>1, <3>1 DEF Members
    <3> QED
      BY <3>2 DEF HasAdminOrNobody
  <2>8. CASE h = g /\ HasAdminOrNobody(g) /\ Leave(r)
    <3>1. CASE call[r].user \in Members(g)
      <4>1. pc'[r] = "promote"
        BY <1>1, <2>2, <2>8, <3>1 DEF Leave, GoTo
      <4> QED
        BY <2>1, <2>2, <2>8, <4>1 DEF Heir
    <3>2. CASE call[r].user \notin Members(g)
      <4>1. call[r].user \in User
        BY <1>3, StepMoves, ReceivedCall DEF Moves
      <4>2. role'[g] = role[g]
        BY <1>1, <2>2, <2>8, <3>2, <4>1 DEF Leave, Members
      <4> QED
        BY <2>5, <2>8, <4>2
    <3> QED
      BY <3>1, <3>2
  <2>9. CASE h = g /\ HasAdminOrNobody(g) /\ (InsertMember(r) \/ DeleteMember(r))
    BY <1>1, <2>2, <2>5, <2>9 DEF Spares
  <2>10. \/ role'[g] = role[g]
         \/ /\ h = g
            /\ Create(r) \/ InsertMember(r) \/ DeleteMember(r) \/ Leave(r) \/ Promote(r) \/ DeleteGroup(r)
    BY <1>1, <1>3, <2>2 DEF Step, CheckFriends, Create, CheckAdmin, InsertMember, DeleteMember,
       Rename, CheckGroup, Leave, Promote, CheckParticipant, DeleteGroup, LockMembership,
       LockActivity, Insert, Withdraw, ReadRecipients, Commit, Refuse, tables
  <2> QED
    BY <1>2, <2>3, <2>4, <2>5, <2>6, <2>7, <2>8, <2>9, <2>10
<1>4. ASSUME NEW r \in Request, Fail(r) PROVE (HasAdminOrNobody(g) \/ Heir(g))'
  <2>1. reply'[r] = "FAILED"
    BY <1>1, <1>4 DEF Fail, Refuse, Answer
  <2> QED
    BY <2>1 DEF NoneFailed
<1>5. ASSUME NEW r \in Request, NEW c \in Calls, Start(r, c) PROVE (HasAdminOrNobody(g) \/ Heir(g))'
  <2>1. /\ role' = role /\ pc[r] = "idle"
        /\ \A q \in Request \ {r} : call'[q] = call[q] /\ pc'[q] = pc[q]
    BY <1>5, StartFacts DEF tables
  <2>2. Heir(g) => Heir(g)'
    BY <2>1 DEF Heir
  <2>3. HasAdminOrNobody(g) => HasAdminOrNobody(g)'
    BY <2>1 DEF HasAdminOrNobody, Members, Admins
  <2> QED
    BY <1>2, <2>2, <2>3
<1>6. CASE UNCHANGED <<role, requests>>
  BY <1>2, <1>6 DEF Heir, HasAdminOrNobody, Members, Admins, requests
<1> QED
  BY <1>3, <1>4, <1>5, <1>6, StepSplit


\* A group that only sees departures is spared.
LEMMA HeirsKept ==
    ASSUME IInv, [Next]_vars
    PROVE  HeirIsComing'
<1> SUFFICES ASSUME NoneFailed', NEW g \in Group, OnlyDepartures(g)'
             PROVE  (HasAdminOrNobody(g) \/ Heir(g))'
  BY DEF HeirIsComing, Heir
<1>1. /\ HasAdminOrNobody(g) \/ Heir(g)
      /\ reply \in [Request -> Replies]
      /\ role \in [Group -> [User -> {"none", "member", "admin"}]]
      /\ joined \in [Group -> [User -> Nat]]
  BY AnswersStay DEF IInv, TypeOK, HeirIsComing, Heir
<1>2. ASSUME NEW r \in Request, InsertMember(r) \/ DeleteMember(r), call[r].group = g
      PROVE  role'[g] = role[g]
  <2>1. Step(r)
    BY <1>2 DEF Step
  <2>2. /\ call' = call /\ pc[r] \in {"insertMember", "deleteMember"}
        /\ call[r].op \in {"add", "remove"} /\ call[r] # None /\ call[r].target \in User
    <3>1. pc[r] \in {"insertMember", "deleteMember"}
      BY <1>2 DEF InsertMember, DeleteMember, At
    <3>2. call[r].op \in {"add", "remove"}
      BY <2>1, <3>1, StepMoves, PathSteps
    <3> QED
      BY <2>1, <3>1, <3>2, OthersStay, ReceivedCall
  <2>3. reply'[r] # "OK"
    BY <1>2, <2>2 DEF OnlyDepartures
  <2> QED
    BY <1>1, <1>2, <2>2, <2>3 DEF InsertMember, DeleteMember, Members, Answer
<1>3. Spares(g)
  BY <1>2 DEF Spares
<1> QED
  BY <1>1, <1>3, HeirStays
-------------------------------------------------------------------------------
(* The invariant *)

\* Init establishes the invariant.
LEMMA InitIInv == Init => IInv
<1> SUFFICES ASSUME Init PROVE IInv
  OBVIOUS
<1>1. /\ pc = [r \in Request |-> "idle"] /\ call = [r \in Request |-> None]
      /\ reply = [r \in Request |-> ""] /\ told = [r \in Request |-> {}]
      /\ glock = [g \in Group |-> None] /\ groups = DOMAIN Founded
      /\ joined = [g \in Group |-> [u \in User |-> 0]] /\ title = [g \in Group |-> None]
      /\ proposals = {} /\ published = Activity
  BY DEF Init
<1>2. ASSUME NEW u \in User, NEW us \in SUBSET User
      PROVE  FounderRoles(u, us) \in [User -> {"none", "member", "admin"}]
             /\ FounderRoles(u, us)[u] = "admin"
  BY DEF FounderRoles
<1>3. ASSUME NEW g \in Group
      PROVE  /\ role[g] \in [User -> {"none", "member", "admin"}]
             /\ IF g \in groups THEN Admins(g) # {} ELSE Members(g) = {}
  <2>1. CASE g \in groups
    <3>1. Founded[g].user \in User /\ Founded[g].others \in SUBSET User
      BY <1>1, <2>1, FoundedAssumption
    <3>2. role[g] = FounderRoles(Founded[g].user, Founded[g].others)
      BY <2>1 DEF Init
    <3> QED
      BY <1>2, <2>1, <3>1, <3>2 DEF Admins
  <2>2. CASE g \notin groups
    BY <2>2 DEF Init, Members
  <2> QED
    BY <2>1, <2>2
<1>4. role \in [Group -> [User -> {"none", "member", "admin"}]]
  <2>1. role = [g \in Group |-> role[g]]
    BY DEF Init
  <2> QED
    BY <1>3, <2>1
<1>5. TypeOK
  BY <1>1, <1>3, <1>4, FoundedAssumption, NoneAssumption DEF TypeOK, Steps, Replies, InTransaction
<1>6. RequestsKeepTheirPath
  BY <1>1 DEF RequestsKeepTheirPath
<1>7. UnbornGroups /\ GroupsWereCreated
  BY <1>1 DEF UnbornGroups, GroupsWereCreated
<1>8. AuthorsAreMembers /\ SharedArePublished /\ MembersAreTold
  BY <1>1 DEF AuthorsAreMembers, SharedArePublished, MembersAreTold, InTransaction
<1>9. RanksBounded
  <2>1. \A g \in Group, u \in User : joined[g][u] = 0
    BY <1>1
  <2> QED
    BY <2>1 DEF RanksBounded
<1>10. HeirIsComing
  BY <1>3 DEF HeirIsComing, HasAdminOrNobody
<1> QED
  BY <1>5, <1>6, <1>7, <1>8, <1>9, <1>10 DEF IInv

\* Every step preserves the invariant.
LEMMA NextIInv == IInv /\ [Next]_vars => IInv'
<1> SUFFICES ASSUME IInv, [Next]_vars PROVE IInv'
  OBVIOUS
<1>1. /\ pc' \in [Request -> Steps] /\ reply' \in [Request -> Replies]
      /\ told' \in [Request -> SUBSET User]
  <2>1. /\ pc \in [Request -> Steps] /\ reply \in [Request -> Replies]
        /\ told \in [Request -> SUBSET User]
    BY DEF IInv, TypeOK
  <2>2. ASSUME NEW r \in Request, NEW c \in Calls, Start(r, c)
        PROVE  pc' \in [Request -> Steps] /\ UNCHANGED <<reply, told>>
    BY <2>2, StartFacts
  <2> QED
    BY <2>1, <2>2, OthersStay, StepSplit DEF requests
<1>2. RequestsKeepTheirPath'
  BY PathKept
<1>3. TypeOK'
  BY <1>1, <1>2, RolesKept, LocksKept, ProposalsKept, SharedKept, RanksKept
     DEF TypeOK, RolesFit, LocksFit, ProposalsFit, RequestsKeepTheirPath
<1> QED
  BY <1>2, <1>3, GroupsKept, AuthorsKept, SharedKept, RanksKept, HeirsKept DEF IInv

\* The rows have their types and the locks are those of open transactions, in every state.
\* (012_group_conversations.sql, group-activity.service.ts)
THEOREM Invariant == Spec => []IInv
  BY InitIInv, NextIInv, PTL DEF Spec

\* Rows and locks make sense together, and departures leave an administrator in every
\* group that nobody was added to or removed from.  (message.service.ts leaveGroup)
THEOREM GroupsConsistent == Spec => []Consistent
<1>1. IInv => Consistent
  <2> SUFFICES ASSUME IInv PROVE LeavesPromote
    BY DEF IInv, Consistent
  <2> SUFFICES ASSUME AtRest, NoneFailed, NEW g \in Group, OnlyDepartures(g)
               PROVE  HasAdminOrNobody(g)
    BY DEF LeavesPromote, OnlyDepartures
  <2>1. HasAdminOrNobody(g) \/ \E r \in Request : pc[r] = "promote" /\ call[r].group = g
    BY DEF IInv, HeirIsComing, Heir
  <2> QED
    BY <2>1 DEF AtRest
<1> QED
  BY <1>1, Invariant, PTL

\* No statement of addMember or removeMember leaves a group with members and without
\* an administrator.
SparingSpec == Init /\ [][Next /\ \A g \in Group : Spares(g)]_vars

\* Nothing but such a statement leaves a group without administrator once all requests
\* are answered and none has failed: with the counterexample of GroupKeepsAdmin, what
\* the comment promises is lost only there.  (message.service.ts:414, 426)
THEOREM OnlyRemovalsOrphan == SparingSpec => []GroupKeepsAdmin
<1> DEFINE J == NoneFailed => \A g \in Group : HasAdminOrNobody(g) \/ Heir(g)
<1>1. Init => J
  <2> SUFFICES ASSUME Init, NEW g \in Group PROVE HasAdminOrNobody(g)
    OBVIOUS
  <2>1. call = [r \in Request |-> None] /\ reply = [r \in Request |-> ""]
    BY DEF Init
  <2>2. NoneFailed /\ OnlyDepartures(g) /\ ~Heir(g)
    BY <2>1 DEF Init, NoneFailed, OnlyDepartures, Heir
  <2> QED
    BY <2>2, InitIInv DEF IInv, HeirIsComing
<1>2. IInv /\ J /\ [Next /\ \A g \in Group : Spares(g)]_vars => J'
  <2> SUFFICES ASSUME IInv, J, [Next /\ \A g \in Group : Spares(g)]_vars, NoneFailed', NEW g \in Group
               PROVE  (HasAdminOrNobody(g) \/ Heir(g))'
    OBVIOUS
  <2>1. CASE UNCHANGED vars
    BY <2>1 DEF HasAdminOrNobody, Members, Admins, Heir, NoneFailed, vars, tables, requests
  <2>2. CASE Next /\ Spares(g)
    <3>1. NoneFailed
      BY <2>2, AnswersStay
    <3> QED
      BY <2>2, <3>1, HeirStays
  <2> QED
    BY <2>1, <2>2
<1>3. J => GroupKeepsAdmin
  BY DEF GroupKeepsAdmin, AtRest, Heir
<1> QED
  BY <1>1, <1>2, <1>3, InitIInv, NextIInv, PTL DEF SparingSpec

\* A proposal is written or deleted with the authority of that very moment, although it
\* was read several statements earlier.  (group-activity.service.ts)
THEOREM AuthorityHolds == Spec => ProposalsAuthorized
<1>1. ASSUME IInv, [Next]_vars
      PROVE  [ProposalsByMembers /\ ProposedWasPublished /\ WithdrawalAuthorized]_vars
  <2>1. ASSUME NEW r \in Request, Commit(r)
        PROVE  ProposalsByMembers /\ ProposedWasPublished /\ WithdrawalAuthorized
    <3>1. CASE call[r].op = "propose"
      <4>1. proposals' \ proposals \subseteq {[group |-> call[r].group,
                                    activity |-> call[r].activity, by |-> call[r].user]}
            /\ proposals \ proposals' = {}
        BY <1>1, <2>1, <3>1, CommitFacts
      <4> QED
        BY <1>1, <2>1, <3>1, <4>1, CommitFacts
           DEF ProposalsByMembers, ProposedWasPublished, WithdrawalAuthorized
    <3>2. CASE call[r].op = "withdraw"
      <4>1. proposals' = proposals \ Target(r) /\ call[r].user \in Members(call[r].group)
            /\ call[r].user \in User /\ pc[r] = "commit" /\ pc'[r] = "done"
        BY <1>1, <2>1, <3>2, CommitFacts
      <4>2. ASSUME NEW p \in Target(r)
            PROVE  \/ call[r].user \in Admins(p.group)
                   \/ call[r].user = p.by /\ p.by \in Members(p.group)
        BY <4>1 DEF Target, MayWithdraw, IsAdmin, Admins
      <4> QED
        BY <3>2, <4>1, <4>2 DEF ProposalsByMembers, ProposedWasPublished, WithdrawalAuthorized
    <3> QED
      BY <1>1, <2>1, <3>1, <3>2, CommitFacts
  <2>2. ASSUME NEW r \in Request, DeleteGroup(r)
        PROVE  ProposalsByMembers /\ ProposedWasPublished /\ WithdrawalAuthorized
    BY <2>2 DEF DeleteGroup, ProposalsByMembers, ProposedWasPublished, WithdrawalAuthorized
  <2>3. CASE proposals' = proposals
    BY <2>3 DEF ProposalsByMembers, ProposedWasPublished, WithdrawalAuthorized
  <2>4. ASSUME NEW r \in Request, Step(r)
        PROVE  Commit(r) \/ DeleteGroup(r) \/ proposals' = proposals
    BY <2>4 DEF Step, CheckFriends, Create, CheckAdmin, InsertMember, DeleteMember, Rename,
       CheckGroup, Leave, Promote, CheckParticipant, LockMembership, LockActivity, Insert, Withdraw,
       ReadRecipients, Refuse, tables
  <2>5. ASSUME NEW r \in Request, Fail(r) \/ \E c \in Calls : Start(r, c)
        PROVE  proposals' = proposals
    BY <2>5 DEF Fail, Refuse, Start, tables
  <2> QED
    BY <1>1, <2>1, <2>2, <2>3, <2>4, <2>5, StepSplit
<1> QED
  BY <1>1, Invariant, PTL DEF Spec, ProposalsAuthorized

\* A change that commits has read every member that its group has at that moment.
\* (group-activity.service.ts:73-76)
THEOREM EveryMemberIsTold == Spec => NoMemberMissesProposal
<1>1. ASSUME IInv, [Next]_vars
      PROVE  [\A r \in Request : pc[r] = "commit" /\ pc'[r] = "done" /\ reply'[r] = "OK"
                    => Members(call[r].group) \subseteq told[r]]_vars
  BY <1>1 DEF IInv, MembersAreTold
<1> QED
  BY <1>1, Invariant, PTL DEF Spec, NoMemberMissesProposal

-------------------------------------------------------------------------------
(* Every request is answered, but for the fairness *)

\* A handler waits for the transaction of a proposal, which waits for nobody.
LEMMA WaitsForTransaction ==
    ASSUME IInv, NEW r \in Request, Waits(r)
    PROVE  /\ \E q \in Request : pc[q] \in InTransaction
           /\ pc[r] \notin InTransaction
<1>1. pc[r] \notin {"idle", "done"}
  BY DEF Waits
<1>2. call[r].group \in Group
  BY <1>1, ReceivedCall
<1>3. glock[call[r].group] # None => \E q \in Request : pc[q] \in InTransaction
  BY <1>2 DEF IInv, TypeOK
<1>4. /\ ~GroupFree(call[r].group) => glock[call[r].group] # None
      /\ \A u : ~RowFree(call[r].group, u) => glock[call[r].group] # None
  BY DEF GroupFree, RowFree
<1>5. glock[call[r].group] # None
  BY <1>4 DEF Waits
<1> QED
  BY <1>3, <1>5 DEF Waits, InTransaction

\* Whatever proposals, departures and deletions are open together, a request that is
\* unanswered waits at most for one that does not wait (group-activity.service.ts change).
THEOREM NobodyWaitsForAll == Spec => []NoCircularWait
<1>1. IInv => NoCircularWait
  <2> SUFFICES ASSUME IInv, NEW r \in Request, Unanswered(r)
               PROVE  \E q \in Request : Unanswered(q) /\ ~Waits(q)
    BY DEF NoCircularWait
  <2>1. ASSUME NEW q \in Request, pc[q] \in InTransaction PROVE Unanswered(q) /\ ~Waits(q)
    BY <2>1, WaitsForTransaction DEF Unanswered, InTransaction
  <2> QED
    BY <2>1, WaitsForTransaction
<1> QED
  BY <1>1, Invariant, PTL

\* The place of a statement in its handler.
Rank(step) ==
    CASE step = "idle" -> 0
      [] step \in {"friends?", "admin?", "exists?", "participant?", "member"} -> 1
      [] step \in {"create", "insertMember", "deleteMember", "rename", "leave", "deleteGroup",
                   "activity", "withdraw"} -> 2
      [] step \in {"promote", "insert"} -> 3
      [] step = "recipients" -> 4
      [] step = "commit" -> 5
      [] step = "done" -> 6

\* A statement takes its own handler to a later one, and no other handler back.
HandlersAdvance ==
    [][\A r \in Request : /\ Step(r) => Rank(pc'[r]) > Rank(pc[r])
                          /\ Rank(pc'[r]) >= Rank(pc[r])]_vars

LEMMA RankTypes ==
    Rank("idle") = 0 /\ Rank("done") = 6 /\ \A step \in Steps : Rank(step) \in 0 .. 6
  BY DEF Rank, Steps

\* A statement leads to a later one of its handler.
LEMMA StatementAdvances ==
    ASSUME IInv, NEW r \in Request, Step(r)
    PROVE  Rank(pc'[r]) > Rank(pc[r])
<1>1. pc \in [Request -> Steps]
  BY DEF IInv, TypeOK
<1>2. CASE CheckFriends(r) \/ Create(r) \/ CheckGroup(r) \/ CheckParticipant(r)
  <2>1. \/ pc[r] \in {"friends?", "exists?", "participant?"}
            /\ pc'[r] \in {"create", "leave", "deleteGroup", "done"}
        \/ pc[r] = "create" /\ pc'[r] = "done"
    BY <1>1, <1>2 DEF CheckFriends, Create, CheckGroup, CheckParticipant, At, GoTo, Answer
  <2> QED
    BY <2>1 DEF Rank
<1>3. CASE CheckAdmin(r)
  <2>1. pc'[r] \in {"done", "rename", "deleteMember", "insertMember"} /\ pc[r] = "admin?"
    <3>1. pc[r] = "admin?" /\ call[r].op \in {"add", "remove", "rename"}
      BY <1>3, StepMoves, PathSteps DEF CheckAdmin, At
    <3> QED
      BY <1>1, <1>3, <3>1 DEF CheckAdmin, At, GoTo, Answer
  <2> QED
    BY <2>1 DEF Rank
<1>4. CASE InsertMember(r) \/ DeleteMember(r) \/ Rename(r) \/ Promote(r) \/ DeleteGroup(r) \/ Commit(r)
  <2>1. pc'[r] = "done" /\ pc[r] \in {"insertMember", "deleteMember", "rename", "promote",
                                      "deleteGroup", "commit"}
    BY <1>1, <1>4 DEF InsertMember, DeleteMember, Rename, Promote, DeleteGroup, Commit, At, Answer
  <2> QED
    BY <2>1 DEF Rank
<1>5. CASE Leave(r)
  BY <1>1, <1>5 DEF Leave, At, GoTo, Answer, Rank
<1>6. CASE LockMembership(r)
  BY <1>1, <1>6 DEF LockMembership, Refuse, At, GoTo, Answer, Rank
<1>7. CASE LockActivity(r) \/ Insert(r) \/ Withdraw(r) \/ ReadRecipients(r)
  BY <1>1, <1>7 DEF LockActivity, Insert, Withdraw, ReadRecipients, Refuse, At, GoTo, Answer, Rank
<1> QED
  BY <1>2, <1>3, <1>4, <1>5, <1>6, <1>7 DEF Step

\* No handler loops: a statement leads to a later one, and nothing takes a handler back, so
\* that every request is answered once the server has run a bounded number of statements.
THEOREM EveryHandlerEnds == Spec => HandlersAdvance
<1>1. ASSUME IInv, [Next]_vars
      PROVE  [\A r \in Request : /\ Step(r) => Rank(pc'[r]) > Rank(pc[r])
                                 /\ Rank(pc'[r]) >= Rank(pc[r])]_vars
  <2> SUFFICES ASSUME NEW r \in Request PROVE Rank(pc'[r]) >= Rank(pc[r])
    BY <1>1, StatementAdvances
  <2>1. pc[r] \in Steps /\ pc'[r] \in Steps
    BY <1>1, NextIInv DEF IInv, TypeOK
  <2>2. /\ Rank(pc[r]) \in 0 .. 6 /\ Rank(pc'[r]) \in 0 .. 6
        /\ Rank("idle") = 0 /\ Rank("done") = 6
    BY <2>1, RankTypes
  <2>3. CASE Step(r)
    BY <1>1, <2>2, <2>3, StatementAdvances
  <2>4. CASE pc'[r] = "done" \/ pc[r] = "idle" \/ pc'[r] = pc[r]
    BY <2>2, <2>4
  <2>5. ASSUME NEW q \in Request, Step(q) \/ Fail(q) PROVE q = r \/ pc'[r] = pc[r]
    BY <1>1, <2>5, OthersStay
  <2>6. ASSUME NEW q \in Request, \E c \in Calls : Start(q, c)
        PROVE  pc[r] = "idle" \/ pc'[r] = pc[r]
    BY <1>1, <2>6 DEF Start, GoTo, IInv, TypeOK
  <2>7. Fail(r) => pc'[r] = "done"
    BY <1>1 DEF Fail, Refuse, Answer, IInv, TypeOK
  <2>8. CASE UNCHANGED requests
    BY <2>4, <2>8 DEF requests
  <2> QED
    BY <1>1, <2>3, <2>4, <2>5, <2>6, <2>7, <2>8 DEF Next, Moderate, vars
<1> QED
  BY <1>1, Invariant, PTL DEF Spec, HandlersAdvance
===============================================================================
