------------------------------- MODULE Contacts -------------------------------
(***************************************************************************)
(* Friendships (friend.service.ts) and direct conversations                *)
(* (message.service.ts): who may write to whom, and where it is stored.    *)
(*                                                                         *)
(* A request is a process and an action is one SQL statement, as in        *)
(* Booking.  A friendship, a conversation and a message are named by the   *)
(* request that inserted them.  Nothing here runs in a transaction of      *)
(* several visible statements, so no lock outlives an action.              *)
(***************************************************************************)
EXTENDS Naturals, FiniteSets

CONSTANTS
    Request,    \* requests the server ever receives (bounds the model)
    User,
    Organizer,  \* users whose role is organizer, the others being members
    Active,     \* users who are neither suspended nor deleted
    Calls,      \* the calls the clients make, a subset of Call
    Rows,       \* friendships that exist before the model starts
    None

Ops == {"request", "accept", "decline", "unfriend", "message", "post", "delete"}

\* `to` is the other user of "request", "unfriend" and "message", `target` the
\* friendship of "accept" and "decline", the conversation of "post" and "delete".
Call == [op : Ops, user : User, to : User \cup {None}, target : Request \cup {None}]

Friendship == [id : Request, from : User, to : User, status : {"pending", "accepted"}]

Steps == {"idle", "addressee?", "existing?", "insert", "pending?", "respond", "remove",
          "recipient?", "find", "friends?", "open", "participant?", "post", "readBack",
          "erase", "done"}

Replies == {"", "OK", "NOT_FOUND", "FORBIDDEN", "ALREADY_FRIENDS", "REQUEST_PENDING",
            "REQUEST_RESOLVED", "NOT_FRIENDS", "SELF", "DUPLICATE", "FAILED"}

ASSUME NoneAssumption == None \notin Request \cup User \cup Calls
ASSUME RowsAssumption ==
    /\ Rows \subseteq Friendship
    /\ \A f, g \in Rows : f.id = g.id \/ {f.from, f.to} = {g.from, g.to} => f = g
    /\ \A f \in Rows : f.from # f.to
ASSUME CallsAssumption ==
    /\ Calls \subseteq Call
    /\ \A c \in Calls :
        IF c.op \in {"request", "unfriend", "message"} THEN c.to \in User
        ELSE c.target \in Request

VARIABLES
    \* tables
    friendships,
    convs,      \* rows of conversations of type 'direct'
    stored,     \* [Request -> the conversation of the message it inserted, or None]
    \* requests
    pc, call, reply,
    found,      \* [Request -> the conversation that sendMessage or assertParticipant found]
    \* history
    consented   \* pairs of users that have been friends at some time

tables == <<friendships, convs, stored>>
requests == <<pc, call, reply, found>>
vars == <<tables, requests, consented>>

FriendPairs(rows) == {{f.from, f.to} : f \in {g \in rows : g.status = "accepted"}}

-------------------------------------------------------------------------------
Seeded == {f.id : f \in Rows}

Init ==
    /\ friendships = Rows
    /\ convs = {}
    /\ stored = [r \in Request |-> None]
    /\ pc = [r \in Request |-> IF r \in Seeded THEN "done" ELSE "idle"]
    /\ call = [r \in Request |-> None]
    /\ reply = [r \in Request |-> ""]
    /\ found = [r \in Request |-> None]
    /\ consented = FriendPairs(Rows)

FirstStep(op) ==
    CASE op = "request" -> "addressee?"
      [] op \in {"accept", "decline"} -> "pending?"
      [] op = "unfriend" -> "remove"
      [] op = "message" -> "recipient?"
      [] op \in {"post", "delete"} -> "participant?"

Start(r, c) ==
    /\ pc[r] = "idle"
    /\ pc' = [pc EXCEPT ![r] = FirstStep(c.op)]
    /\ call' = [call EXCEPT ![r] = c]
    /\ UNCHANGED <<tables, reply, found, consented>>

At(r, step) == pc[r] = step /\ UNCHANGED call

GoTo(r, step) == pc' = [pc EXCEPT ![r] = step] /\ UNCHANGED reply

Answer(r, code) ==
    /\ pc' = [pc EXCEPT ![r] = "done"]
    /\ reply' = [reply EXCEPT ![r] = code]

Read(r) == UNCHANGED <<tables, consented, found>>

(***************************************************************************)
(* friend.service.ts                                                       *)
(***************************************************************************)
Pair(r) == {call[r].user, call[r].to}
RowsOf(pair) == {f \in friendships : {f.from, f.to} = pair}

\* sendRequest: not to oneself, and to an active account.
CheckAddressee(r) ==
    /\ At(r, "addressee?")
    /\ IF call[r].to = call[r].user THEN Answer(r, "SELF")
       ELSE IF call[r].to \in Active THEN GoTo(r, "existing?")
       ELSE Answer(r, "NOT_FOUND")
    /\ Read(r)

\* sendRequest: no relation yet, in either direction.
CheckExisting(r) ==
    /\ At(r, "existing?")
    /\ LET rows == RowsOf(Pair(r)) IN
       IF rows = {} THEN GoTo(r, "insert")
       ELSE \E f \in rows :
                Answer(r, IF f.status = "accepted" THEN "ALREADY_FRIENDS" ELSE "REQUEST_PENDING")
    /\ Read(r)

\* Fault: the unique index is on (requester_id, addressee_id).
SameDirection(r) ==
    \E f \in friendships : f.from = call[r].user /\ f.to = call[r].to

\* uq_friendship_pair, on LEAST and GREATEST of the two users.
PairTaken(r) == RowsOf(Pair(r)) # {}

\* sendRequest: INSERT; the unique violation is caught by nobody.
InsertRequest(r) ==
    /\ At(r, "insert")
    /\ IF PairTaken(r)
       THEN Answer(r, "DUPLICATE") /\ UNCHANGED friendships
       ELSE /\ friendships' = friendships \cup {[id |-> r, from |-> call[r].user, to |-> call[r].to,
                                                 status |-> "pending"]}
            /\ Answer(r, "OK")
    /\ UNCHANGED <<convs, stored, found, consented>>

\* Fault: the requester may answer too.
Involved(r) == {f \in friendships : f.id = call[r].target /\ call[r].user \in {f.from, f.to}}

\* The request with this id, if the caller is its addressee.
Received(r) == {f \in friendships : f.id = call[r].target /\ f.to = call[r].user}

\* respondRequest: SELECT, and the checks on its row.
CheckPending(r) ==
    /\ At(r, "pending?")
    /\ IF Received(r) = {} THEN Answer(r, "NOT_FOUND")
       ELSE IF \E f \in Received(r) : f.status # "pending" THEN Answer(r, "REQUEST_RESOLVED")
       ELSE GoTo(r, "respond")
    /\ Read(r)

\* respondRequest: UPDATE or DELETE by id, whatever the row has become; the answer
\* does not depend on the number of rows.
Respond(r) ==
    /\ At(r, "respond")
    /\ LET rest == {f \in friendships : f.id # call[r].target}
           row == friendships \ rest
       IN friendships' = IF call[r].op = "decline" THEN rest
                         ELSE rest \cup {[f EXCEPT !.status = "accepted"] : f \in row}
    /\ consented' = consented \cup FriendPairs(friendships')
    /\ Answer(r, "OK")
    /\ UNCHANGED <<convs, stored, found>>

\* removeFriend: the friendship or the pending request, in either direction.
Remove(r) ==
    /\ At(r, "remove")
    /\ friendships' = friendships \ RowsOf(Pair(r))
    /\ Answer(r, IF RowsOf(Pair(r)) = {} THEN "NOT_FOUND" ELSE "OK")
    /\ UNCHANGED <<convs, stored, found, consented>>

(***************************************************************************)
(* message.service.ts                                                      *)
(***************************************************************************)
\* The two participants of a direct conversation, which nothing changes.
Participants(c) == Pair(c)

CanContactOrganizer(r) == call[r].user \notin Organizer /\ call[r].to \in Organizer

\* sendMessage: not to oneself, and to an active account.
CheckRecipient(r) ==
    /\ At(r, "recipient?")
    /\ IF call[r].to = call[r].user THEN Answer(r, "SELF")
       ELSE IF call[r].to \in Active THEN GoTo(r, "find")
       ELSE Answer(r, "NOT_FOUND")
    /\ Read(r)

\* findDirectConversation: any conversation of the pair (LIMIT 1).
FindConversation(r) ==
    /\ At(r, "find")
    /\ LET open == {c \in convs : Participants(c) = Pair(r)} IN
       IF open # {}
       THEN GoTo(r, "post") /\ \E c \in open : found' = [found EXCEPT ![r] = c]
       ELSE GoTo(r, IF CanContactOrganizer(r) THEN "open" ELSE "friends?") /\ UNCHANGED found
    /\ UNCHANGED <<tables, consented>>

\* Fault: a pending request is enough.
Related(r) == RowsOf(Pair(r)) # {}

AreFriends(r) == Pair(r) \in FriendPairs(friendships)

\* sendMessage: without a conversation, the two must be friends.
CheckFriends(r) ==
    /\ At(r, "friends?")
    /\ IF AreFriends(r) THEN GoTo(r, "open") ELSE Answer(r, "NOT_FRIENDS")
    /\ Read(r)

\* createDirectConversation: its transaction inserts rows that nobody else sees
\* before COMMIT, and no index makes the pair unique.
OpenConversation(r) ==
    /\ At(r, "open")
    /\ convs' = convs \cup {r}
    /\ found' = [found EXCEPT ![r] = r]
    /\ GoTo(r, "post")
    /\ UNCHANGED <<friendships, stored, consented>>

\* assertParticipant, for sendToConversation and deleteConversation.
CheckParticipant(r) ==
    /\ At(r, "participant?")
    /\ LET c == call[r].target IN
       IF c \notin convs THEN Answer(r, "NOT_FOUND") /\ UNCHANGED found
       ELSE IF call[r].user \notin Participants(c) THEN Answer(r, "FORBIDDEN") /\ UNCHANGED found
       ELSE /\ GoTo(r, IF call[r].op = "post" THEN "post" ELSE "erase")
            /\ found' = [found EXCEPT ![r] = c]
    /\ UNCHANGED <<tables, consented>>

\* Fault: messages.conversation_id has no foreign key.
Unreferenced(c) == TRUE

Referable(c) == c \in convs

\* insertMessage: INSERT, which fails when the conversation has gone.
InsertMessage(r) ==
    /\ At(r, "post")
    /\ IF Referable(found[r])
       THEN stored' = [stored EXCEPT ![r] = found[r]] /\ GoTo(r, "readBack")
       ELSE Answer(r, "FAILED") /\ UNCHANGED stored
    /\ UNCHANGED <<friendships, convs, found, consented>>

\* Fault: the message is answered from memory.
Trusted(r) == TRUE

Stored(r) == stored[r] # None

\* insertMessage: last_message_at (which only sorts the list), and fetchMessage.
ReadBack(r) ==
    /\ At(r, "readBack")
    /\ Answer(r, IF Stored(r) THEN "OK" ELSE "NOT_FOUND")
    /\ Read(r)

\* deleteConversation: DELETE, which cascades to the messages.
Erase(r) ==
    /\ At(r, "erase")
    /\ convs' = convs \ {found[r]}
    /\ stored' = [m \in Request |-> IF stored[m] = found[r] THEN None ELSE stored[m]]
    /\ Answer(r, "OK")
    /\ UNCHANGED <<friendships, found, consented>>

\* A lost connection or a restart before the next statement.
Fail(r) ==
    /\ pc[r] \notin {"idle", "done"}
    /\ Answer(r, "FAILED")
    /\ UNCHANGED <<tables, call, found, consented>>

-------------------------------------------------------------------------------
Step(r) ==
    \/ CheckAddressee(r) \/ CheckExisting(r) \/ InsertRequest(r)
    \/ CheckPending(r) \/ Respond(r) \/ Remove(r)
    \/ CheckRecipient(r) \/ FindConversation(r) \/ CheckFriends(r) \/ OpenConversation(r)
    \/ CheckParticipant(r) \/ InsertMessage(r) \/ ReadBack(r) \/ Erase(r)

Next ==
    \/ \E r \in Request, c \in Calls : Start(r, c)
    \/ \E r \in Request : Step(r)
    \/ \E r \in Request : Fail(r)

Spec == Init /\ [][Next]_vars

-------------------------------------------------------------------------------
(***************************************************************************)
(* Properties                                                              *)
(***************************************************************************)
\* The rows have their types; a request is past an action only with what the
\* earlier ones left behind, and a stored message has its conversation in hand.
TypeOK ==
    /\ friendships \subseteq Friendship
    /\ convs \subseteq Request
    /\ stored \in [Request -> Request \cup {None}]
    /\ pc \in [Request -> Steps]
    /\ reply \in [Request -> Replies]
    /\ found \in [Request -> Request \cup {None}]
    /\ call \in [Request -> Calls \cup {None}]
    /\ \A r \in Request : pc[r] # "idle" /\ r \notin Seeded => call[r] # None
    /\ \A r \in Request : pc[r] \in {"post", "readBack", "erase"} => found[r] \in Request
    /\ \A r \in Request : stored[r] # None => stored[r] = found[r]
    /\ consented \subseteq SUBSET User

\* Two users who ask each other at the same time never get two relations
\* (011_friendships.sql:20-22), although nothing locks between check and INSERT.
OneRelationPerPair ==
    \A f, g \in friendships : {f.from, f.to} = {g.from, g.to} => f = g

\* A friendship was accepted by its addressee, and by a request of that user which
\* named this very relation (friend.service.ts:51-53).
FriendsConsent ==
    \A f \in friendships \ Rows :
        f.status = "accepted" =>
            \E r \in Request :
                /\ pc[r] # "idle" /\ r \notin Seeded
                /\ call[r].op = "accept" /\ call[r].target = f.id /\ call[r].user = f.to

\* Two users have a direct conversation only if they have been friends or if a
\* member wrote to an organizer (message.service.ts:226-228), although the
\* friendship may end between the check and the creation.
ConversationsConsented ==
    \A c \in convs : CanContactOrganizer(c) \/ Participants(c) \in consented

\* A message is kept in a conversation that still exists and in which its sender
\* takes part, however deletions and sends are interleaved.
MessagesHaveConversation ==
    \A m \in Request : stored[m] # None =>
        stored[m] \in convs /\ call[m].user \in Participants(stored[m])

\* A send is answered with success only while its message is stored: the deletion of
\* the conversation between INSERT and answer is reported (message.service.ts:282).
SuccessMeansStored ==
    [][\A r \in Request :
        call[r] # None /\ call[r].op \in {"message", "post"} /\ pc[r] # "done"
            /\ pc'[r] = "done" /\ reply'[r] = "OK" => stored'[r] # None]_vars

\* What the code relies on between its statements: the inductive invariant
\* behind the properties above.
RequestsKeepTheirPath ==
    \A r \in Request :
        /\ pc[r] # "done" => r \notin Seeded
        /\ pc[r] \in {"addressee?", "existing?", "insert"} => call[r].op = "request"
        /\ pc[r] \in {"pending?", "respond"} => call[r].op \in {"accept", "decline"}
        /\ pc[r] = "remove" => call[r].op = "unfriend"
        /\ pc[r] \in {"recipient?", "find", "friends?", "open"} => call[r].op = "message"
        /\ pc[r] = "participant?" => call[r].op \in {"post", "delete"}
        /\ pc[r] = "erase" => call[r].op = "delete"
        /\ stored[r] # None => pc[r] \in {"readBack", "done"}

\* A relation keeps the two users it was created for, so that a row found by its id
\* later is about the same people.
RowsKeepTheirUsers ==
    \A f \in friendships :
        IF f.id \in Seeded
        THEN \E g \in Rows : g.id = f.id /\ g.from = f.from /\ g.to = f.to
        ELSE pc[f.id] = "done" /\ f.from = call[f.id].user /\ f.to = call[f.id].to

\* Whoever is about to answer a relation is its addressee, even if the row has gone.
AnswersByAddressee ==
    \A r \in Request : pc[r] = "respond" =>
        LET t == call[r].target IN
        IF t \in Seeded THEN \A g \in Rows : g.id = t => g.to = call[r].user
        ELSE pc[t] = "done" /\ call[t].to = call[r].user

\* Consent given once stays on record, and no conversation is opened without it.
ConsentRecorded ==
    /\ FriendPairs(friendships) \subseteq consented
    /\ \A r \in Request : pc[r] = "open" => CanContactOrganizer(r) \/ Pair(r) \in consented
    /\ \A c \in convs : pc[c] # "idle" /\ c \notin Seeded

\* A sender takes part in the conversation it has found, even once it is deleted.
FoundBySender ==
    \A r \in Request : found[r] # None =>
        /\ pc[r] # "idle" /\ r \notin Seeded
        /\ pc[found[r]] # "idle" /\ found[r] \notin Seeded
        /\ call[r].user \in Participants(found[r])

IInv ==
    /\ TypeOK
    /\ RequestsKeepTheirPath
    /\ RowsKeepTheirUsers
    /\ AnswersByAddressee
    /\ ConsentRecorded
    /\ FoundBySender
    /\ OneRelationPerPair
    /\ FriendsConsent
    /\ ConversationsConsented
    /\ MessagesHaveConversation
===============================================================================
