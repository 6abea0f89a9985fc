---------------------------- MODULE ContactsProofs -----------------------------
(***************************************************************************)
(* Theorems about Contacts, for every set of requests, users and calls.    *)
(***************************************************************************)
EXTENDS Contacts, TLAPS

-------------------------------------------------------------------------------
(* Steps that move one request and write no table *)

\* What a request must have in hand to stand before a statement.
Prepared(r, step) ==
    /\ step \in Steps \ {"idle"}
    /\ step \in {"addressee?", "existing?", "insert"} => call[r].op = "request"
    /\ step \in {"pending?", "respond"} => call[r].op \in {"accept", "decline"}
    /\ step = "remove" => call[r].op = "unfriend"
    /\ step \in {"recipient?", "find", "friends?", "open"} => call[r].op = "message"
    /\ step = "participant?" => call[r].op \in {"post", "delete"}
    /\ step = "erase" => call[r].op = "delete"
    /\ step \in {"post", "readBack", "erase"} => found[r] # None
    /\ stored[r] # None => step \in {"readBack", "done"}
    /\ step = "open" => CanContactOrganizer(r) \/ Pair(r) \in consented
    /\ step = "respond" =>
        LET t == call[r].target IN
        IF t \in Seeded THEN \A g \in Rows : g.id = t => g.to = call[r].user
        ELSE pc[t] = "done" /\ call[t].to = call[r].user

\* A request that moves on, prepared, keeps the invariant.
LEMMA MoveStep ==
    ASSUME IInv, NEW r \in Request, NEW step, Prepared(r, step),
           pc[r] \notin {"idle", "done"},
           pc' = [pc EXCEPT ![r] = step], reply' \in [Request -> Replies],
           UNCHANGED <<tables, call, found, consented>>
    PROVE  IInv'
<1>1. /\ pc \in [Request -> Steps] /\ call' = call /\ found' = found /\ stored' = stored
      /\ friendships' = friendships /\ convs' = convs /\ consented' = consented
  BY DEF IInv, TypeOK, tables
<1>2. TypeOK'
  BY <1>1 DEF IInv, TypeOK, Prepared
<1>3. RequestsKeepTheirPath'
  BY <1>1 DEF IInv, RequestsKeepTheirPath, Prepared
<1>4. RowsKeepTheirUsers'
  BY <1>1 DEF IInv, RowsKeepTheirUsers, TypeOK, Friendship
<1>5. AnswersByAddressee'
  BY <1>1 DEF IInv, AnswersByAddressee, Prepared
<1>6. ConsentRecorded'
  BY <1>1 DEF IInv, ConsentRecorded, Prepared, CanContactOrganizer, Pair, FriendPairs, TypeOK
<1>7. FoundBySender'
  BY <1>1 DEF IInv, FoundBySender, Prepared, Participants, Pair, TypeOK
<1>8. OneRelationPerPair' /\ ConversationsConsented' /\ MessagesHaveConversation'
  BY <1>1 DEF IInv, OneRelationPerPair, ConversationsConsented, MessagesHaveConversation,
     CanContactOrganizer, Participants, Pair
<1>9. FriendsConsent'
  BY <1>1 DEF IInv, FriendsConsent, Prepared
<1> QED
  BY <1>2, <1>3, <1>4, <1>5, <1>6, <1>7, <1>8, <1>9 DEF IInv

\* A request that is answered writes nothing more.
LEMMA AnswerStep ==
    ASSUME IInv, NEW r \in Request, NEW code \in Replies, pc[r] \notin {"idle", "done"},
           Answer(r, code), UNCHANGED <<tables, call, found, consented>>
    PROVE  IInv'
<1>1. Prepared(r, "done")
  BY DEF Prepared, Steps
<1>2. pc' = [pc EXCEPT ![r] = "done"] /\ reply' \in [Request -> Replies]
  BY DEF Answer, IInv, TypeOK
<1> QED
  BY <1>1, <1>2, MoveStep

\* A request that arrives is new: no row, conversation or message is named by it.
LEMMA StartStep ==
    ASSUME IInv, NEW r \in Request, NEW c \in Calls, Start(r, c)
    PROVE  IInv'
<1>1. /\ pc[r] = "idle" /\ pc' = [pc EXCEPT ![r] = FirstStep(c.op)]
      /\ call' = [call EXCEPT ![r] = c] /\ reply' = reply
      /\ friendships' = friendships /\ convs' = convs /\ stored' = stored
      /\ found' = found /\ consented' = consented
  BY DEF Start, tables
<1>2. /\ pc \in [Request -> Steps] /\ call \in [Request -> Calls \cup {None}]
      /\ c \in Call /\ c.op \in Ops /\ c # None
  BY CallsAssumption, NoneAssumption DEF IInv, TypeOK, Call
<1>3. /\ FirstStep(c.op) \in Steps \ {"idle", "existing?", "insert", "respond", "find", "friends?",
                                          "open", "post", "readBack", "erase", "done"}
      /\ FirstStep(c.op) = "addressee?" => c.op = "request"
      /\ FirstStep(c.op) = "pending?" => c.op \in {"accept", "decline"}
      /\ FirstStep(c.op) = "remove" => c.op = "unfriend"
      /\ FirstStep(c.op) = "recipient?" => c.op = "message"
      /\ FirstStep(c.op) = "participant?" => c.op \in {"post", "delete"}
  BY <1>2 DEF FirstStep, Ops, Steps
<1>4. found[r] = None /\ stored[r] = None
  BY <1>1, <1>2 DEF IInv, FoundBySender, RequestsKeepTheirPath
<1>5. TypeOK'
  BY <1>1, <1>2, <1>3, <1>4 DEF IInv, TypeOK
<1>6. RequestsKeepTheirPath'
  BY <1>1, <1>2, <1>3, <1>4 DEF IInv, RequestsKeepTheirPath
<1>7. RowsKeepTheirUsers'
  BY <1>1, <1>2 DEF IInv, RowsKeepTheirUsers, TypeOK, Friendship
<1>8. AnswersByAddressee'
  BY <1>1, <1>2, <1>3 DEF IInv, AnswersByAddressee
<1>9. ConsentRecorded'
  BY <1>1, <1>2, <1>3 DEF IInv, ConsentRecorded, CanContactOrganizer, Pair, FriendPairs, TypeOK
<1>10. FoundBySender'
  BY <1>1, <1>2, <1>4 DEF IInv, FoundBySender, Participants, Pair, TypeOK
<1>11. OneRelationPerPair' /\ ConversationsConsented' /\ MessagesHaveConversation'
  <2>1. \A x \in convs : pc[x] # "idle"
    BY DEF IInv, ConsentRecorded
  <2>2. \A m \in Request : stored[m] # None => pc[m] # "idle"
    BY DEF IInv, RequestsKeepTheirPath
  <2> QED
    BY <1>1, <2>1, <2>2 DEF IInv, OneRelationPerPair, ConversationsConsented,
       MessagesHaveConversation, CanContactOrganizer, Participants, Pair, TypeOK
<1>12. FriendsConsent'
  BY <1>1, <1>2, <1>3 DEF IInv, FriendsConsent
<1> QED
  BY <1>5, <1>6, <1>7, <1>8, <1>9, <1>10, <1>11, <1>12 DEF IInv

-------------------------------------------------------------------------------
(* Friendships *)

\* INSERT: the unique index leaves one relation to a pair.
LEMMA InsertRequestStep ==
    ASSUME IInv, NEW r \in Request, InsertRequest(r)
    PROVE  IInv'
<1> DEFINE row == [id |-> r, from |-> call[r].user, to |-> call[r].to, status |-> "pending"]
<1>1. /\ pc[r] = "insert" /\ call' = call /\ convs' = convs /\ stored' = stored
      /\ found' = found /\ consented' = consented
  BY DEF InsertRequest, At
<1>2. CASE PairTaken(r)
  <2>1. friendships' = friendships /\ Answer(r, "DUPLICATE")
    BY <1>2 DEF InsertRequest
  <2> QED
    BY <1>1, <2>1, AnswerStep DEF Replies, tables
<1>3. CASE ~PairTaken(r)
  <2>1. friendships' = friendships \cup {row} /\ Answer(r, "OK")
    BY <1>3 DEF InsertRequest
  <2>2. /\ pc \in [Request -> Steps] /\ pc' = [pc EXCEPT ![r] = "done"]
        /\ reply' \in [Request -> Replies]
    BY <2>1 DEF Answer, IInv, TypeOK, Replies
  <2>3. /\ r \notin Seeded /\ call[r] \in Calls /\ call[r].op = "request"
        /\ call[r].user \in User /\ call[r].to \in User
    BY <1>1, CallsAssumption DEF IInv, TypeOK, RequestsKeepTheirPath, Call
  <2>4. row \in Friendship
    BY <2>3 DEF Friendship
  <2>5. TypeOK'
    BY <1>1, <2>1, <2>2, <2>4 DEF IInv, TypeOK, Steps
  <2>6. RequestsKeepTheirPath' /\ FoundBySender'
    BY <1>1, <2>2 DEF IInv, RequestsKeepTheirPath, FoundBySender, Participants, Pair, TypeOK
  <2>7. RowsKeepTheirUsers'
    BY <1>1, <2>1, <2>2, <2>3 DEF IInv, RowsKeepTheirUsers, TypeOK, Friendship
  <2>8. AnswersByAddressee'
    BY <1>1, <2>2 DEF IInv, AnswersByAddressee
  <2>9. FriendPairs(friendships') = FriendPairs(friendships)
    BY <2>1 DEF FriendPairs
  <2>10. ConsentRecorded'
    BY <1>1, <2>2, <2>9 DEF IInv, ConsentRecorded, CanContactOrganizer, Pair, TypeOK
  <2>11. OneRelationPerPair'
    <3>1. \A f \in friendships : {f.from, f.to} # {row.from, row.to}
      BY <1>3 DEF PairTaken, RowsOf, Pair
    <3> QED
      BY <2>1, <3>1 DEF IInv, OneRelationPerPair
  <2>12. FriendsConsent'
    BY <1>1, <2>1, <2>2 DEF IInv, FriendsConsent
  <2>13. ConversationsConsented' /\ MessagesHaveConversation'
    BY <1>1 DEF IInv, ConversationsConsented, MessagesHaveConversation, CanContactOrganizer,
       Participants, Pair
  <2> QED
    BY <2>5, <2>6, <2>7, <2>8, <2>10, <2>11, <2>12, <2>13 DEF IInv
<1> QED
  BY <1>2, <1>3

\* Rows disappear, and one request is answered.
LEMMA FewerRows ==
    ASSUME IInv, NEW r \in Request, pc[r] \notin {"idle", "done"}, NEW code \in Replies,
           friendships' \subseteq friendships, Answer(r, code),
           UNCHANGED <<convs, stored, call, found, consented>>
    PROVE  IInv'
<1>1. /\ pc \in [Request -> Steps] /\ pc' = [pc EXCEPT ![r] = "done"]
      /\ reply' \in [Request -> Replies]
  BY DEF Answer, IInv, TypeOK
<1>2. TypeOK'
  BY <1>1 DEF IInv, TypeOK, Steps
<1>3. RequestsKeepTheirPath' /\ FoundBySender'
  BY <1>1 DEF IInv, RequestsKeepTheirPath, FoundBySender, Participants, Pair, TypeOK
<1>4. RowsKeepTheirUsers'
  BY <1>1 DEF IInv, RowsKeepTheirUsers, TypeOK, Friendship
<1>5. AnswersByAddressee'
  BY <1>1 DEF IInv, AnswersByAddressee
<1>6. FriendPairs(friendships') \subseteq FriendPairs(friendships)
  BY DEF FriendPairs
<1>7. ConsentRecorded'
  BY <1>1, <1>6 DEF IInv, ConsentRecorded, CanContactOrganizer, Pair, TypeOK
<1>8. OneRelationPerPair'
  BY DEF IInv, OneRelationPerPair
<1>9. FriendsConsent'
  BY <1>1 DEF IInv, FriendsConsent
<1>10. ConversationsConsented' /\ MessagesHaveConversation'
  BY DEF IInv, ConversationsConsented, MessagesHaveConversation, CanContactOrganizer,
     Participants, Pair
<1> QED
  BY <1>2, <1>3, <1>4, <1>5, <1>7, <1>8, <1>9, <1>10 DEF IInv

\* UPDATE or DELETE by id: the row that is there is the one that was answered.
LEMMA RespondStep ==
    ASSUME IInv, NEW r \in Request, Respond(r)
    PROVE  IInv'
<1> DEFINE t == call[r].target
           rest == {f \in friendships : f.id # t}
           row == friendships \ rest
           accepted == {[f EXCEPT !.status = "accepted"] : f \in row}
<1>1. /\ pc[r] = "respond" /\ call' = call /\ convs' = convs /\ stored' = stored /\ found' = found
      /\ consented' = consented \cup FriendPairs(friendships') /\ Answer(r, "OK")
      /\ friendships' = IF call[r].op = "decline" THEN rest ELSE rest \cup accepted
  BY DEF Respond, At
<1>2. /\ pc \in [Request -> Steps] /\ pc' = [pc EXCEPT ![r] = "done"]
      /\ reply' \in [Request -> Replies]
  BY <1>1 DEF Answer, IInv, TypeOK, Replies
<1>3. r \notin Seeded /\ call[r] \in Calls /\ call[r].op \in {"accept", "decline"}
  BY <1>1 DEF IInv, TypeOK, RequestsKeepTheirPath
<1>4. friendships \subseteq Friendship /\ friendships' \subseteq Friendship
  BY <1>1 DEF IInv, TypeOK, Friendship
<1>5. \A f \in friendships' : \E g \in friendships :
         /\ f.id = g.id /\ f.from = g.from /\ f.to = g.to
         /\ f = g \/ (g.id = t /\ call[r].op = "accept" /\ f = [g EXCEPT !.status = "accepted"])
         /\ (g.id = t => call[r].op = "accept" /\ f = [g EXCEPT !.status = "accepted"])
  BY <1>1, <1>3, <1>4 DEF Friendship
<1>6. \A f \in friendships : f.id = t => f.to = call[r].user
  <2> SUFFICES ASSUME NEW f \in friendships, f.id = t PROVE f.to = call[r].user
    OBVIOUS
  <2>1. CASE t \in Seeded
    BY <1>1, <2>1 DEF IInv, AnswersByAddressee, RowsKeepTheirUsers
  <2>2. CASE t \notin Seeded
    BY <1>1, <2>2 DEF IInv, AnswersByAddressee, RowsKeepTheirUsers
  <2> QED
    BY <2>1, <2>2
<1>7. FriendPairs(friendships') \in SUBSET SUBSET User
  BY <1>4 DEF FriendPairs, Friendship
<1>8. TypeOK'
  BY <1>1, <1>2, <1>4, <1>7 DEF IInv, TypeOK, Steps
<1>9. RequestsKeepTheirPath' /\ FoundBySender'
  BY <1>1, <1>2 DEF IInv, RequestsKeepTheirPath, FoundBySender, Participants, Pair, TypeOK
<1>10. RowsKeepTheirUsers'
  <2> SUFFICES ASSUME NEW f \in friendships'
               PROVE  IF f.id \in Seeded
                      THEN \E g \in Rows : g.id = f.id /\ g.from = f.from /\ g.to = f.to
                      ELSE pc'[f.id] = "done" /\ f.from = call[f.id].user /\ f.to = call[f.id].to
    BY <1>1 DEF RowsKeepTheirUsers
  <2>1. PICK g \in friendships : f.id = g.id /\ f.from = g.from /\ f.to = g.to
    BY <1>5
  <2>2. f.id \in Request
    BY <1>4 DEF Friendship
  <2> QED
    BY <1>2, <2>1, <2>2 DEF IInv, RowsKeepTheirUsers
<1>11. AnswersByAddressee'
  BY <1>1, <1>2 DEF IInv, AnswersByAddressee
<1>12. ConsentRecorded'
  BY <1>1, <1>2 DEF IInv, ConsentRecorded, CanContactOrganizer, Pair, TypeOK
<1>13. OneRelationPerPair'
  <2> SUFFICES ASSUME NEW f \in friendships', NEW g \in friendships', {f.from, f.to} = {g.from, g.to}
               PROVE  f = g
    BY DEF OneRelationPerPair
  <2>1. PICK p \in friendships :
            /\ f.from = p.from /\ f.to = p.to
            /\ f = p \/ (p.id = t /\ f = [p EXCEPT !.status = "accepted"])
            /\ (p.id = t => f = [p EXCEPT !.status = "accepted"])
    BY <1>5
  <2>2. PICK q \in friendships :
            /\ g.from = q.from /\ g.to = q.to
            /\ g = q \/ (q.id = t /\ g = [q EXCEPT !.status = "accepted"])
            /\ (q.id = t => g = [q EXCEPT !.status = "accepted"])
    BY <1>5
  <2>3. p = q
    BY <2>1, <2>2 DEF IInv, OneRelationPerPair
  <2> QED
    BY <2>1, <2>2, <2>3
<1>14. FriendsConsent'
  <2> SUFFICES ASSUME NEW f \in friendships' \ Rows, f.status = "accepted"
               PROVE  \E q \in Request :
                        /\ pc'[q] # "idle" /\ q \notin Seeded
                        /\ call[q].op = "accept" /\ call[q].target = f.id /\ call[q].user = f.to
    BY <1>1 DEF FriendsConsent
  <2>1. PICK g \in friendships :
            /\ f.id = g.id /\ f.to = g.to
            /\ f = g \/ (g.id = t /\ call[r].op = "accept")
    BY <1>5
  <2>2. CASE f = g
    BY <1>2, <2>2 DEF IInv, FriendsConsent
  <2>3. CASE g.id = t /\ call[r].op = "accept"
    BY <1>2, <1>3, <1>6, <2>1, <2>3 DEF Steps
  <2> QED
    BY <2>1, <2>2, <2>3
<1>15. ConversationsConsented' /\ MessagesHaveConversation'
  BY <1>1 DEF IInv, ConversationsConsented, MessagesHaveConversation, CanContactOrganizer,
     Participants, Pair
<1> QED
  BY <1>8, <1>9, <1>10, <1>11, <1>12, <1>13, <1>14, <1>15 DEF IInv

\* The statements that only read, and a request that fails.
LEMMA ReadStep ==
    ASSUME IInv, NEW r \in Request,
           \/ CheckAddressee(r) \/ CheckExisting(r) \/ CheckPending(r) \/ CheckRecipient(r)
           \/ CheckFriends(r) \/ ReadBack(r) \/ Fail(r)
    PROVE  IInv'
<1>1. CASE CheckAddressee(r)
  <2>1. pc[r] = "addressee?" /\ UNCHANGED <<tables, call, found, consented>>
    BY <1>1 DEF CheckAddressee, At, Read
  <2>2. \/ \E code \in Replies : Answer(r, code)
        \/ GoTo(r, "existing?")
    BY <1>1 DEF CheckAddressee, Replies
  <2>3. Prepared(r, "existing?")
    BY <2>1 DEF IInv, RequestsKeepTheirPath, Prepared, Steps
  <2> QED
    BY <2>1, <2>2, <2>3, AnswerStep, MoveStep DEF GoTo, IInv, TypeOK
<1>2. CASE CheckExisting(r)
  <2>1. pc[r] = "existing?" /\ UNCHANGED <<tables, call, found, consented>>
    BY <1>2 DEF CheckExisting, At, Read
  <2>2. \/ \E code \in Replies : Answer(r, code)
        \/ GoTo(r, "insert")
    BY <1>2 DEF CheckExisting, Replies
  <2>3. Prepared(r, "insert")
    BY <2>1 DEF IInv, RequestsKeepTheirPath, Prepared, Steps
  <2> QED
    BY <2>1, <2>2, <2>3, AnswerStep, MoveStep DEF GoTo, IInv, TypeOK
<1>3. CASE CheckPending(r)
  <2>1. pc[r] = "pending?" /\ UNCHANGED <<tables, call, found, consented>>
    BY <1>3 DEF CheckPending, At, Read
  <2>2. \/ \E code \in Replies : Answer(r, code)
        \/ GoTo(r, "respond") /\ Received(r) # {}
    BY <1>3 DEF CheckPending, Replies
  <2>3. ASSUME Received(r) # {} PROVE Prepared(r, "respond")
    <3>1. PICK f \in friendships : f.id = call[r].target /\ f.to = call[r].user
      BY <2>3 DEF Received
    <3>2. ASSUME call[r].target \in Seeded
          PROVE  \A g \in Rows : g.id = call[r].target => g.to = call[r].user
      <4>1. PICK g \in Rows : g.id = f.id /\ g.to = f.to
        BY <3>1, <3>2 DEF IInv, RowsKeepTheirUsers
      <4> QED
        BY <3>1, <4>1, RowsAssumption
    <3>3. ASSUME call[r].target \notin Seeded
          PROVE  pc[call[r].target] = "done" /\ call[call[r].target].to = call[r].user
      BY <3>1, <3>3 DEF IInv, RowsKeepTheirUsers
    <3>4. call[r].op \in {"accept", "decline"} /\ stored[r] = None
      BY <2>1 DEF IInv, RequestsKeepTheirPath
    <3> QED
      BY <3>2, <3>3, <3>4 DEF Prepared, Steps
  <2> QED
    BY <2>1, <2>2, <2>3, AnswerStep, MoveStep DEF GoTo, IInv, TypeOK
<1>4. CASE CheckRecipient(r)
  <2>1. pc[r] = "recipient?" /\ UNCHANGED <<tables, call, found, consented>>
    BY <1>4 DEF CheckRecipient, At, Read
  <2>2. \/ \E code \in Replies : Answer(r, code)
        \/ GoTo(r, "find")
    BY <1>4 DEF CheckRecipient, Replies
  <2>3. Prepared(r, "find")
    BY <2>1 DEF IInv, RequestsKeepTheirPath, Prepared, Steps
  <2> QED
    BY <2>1, <2>2, <2>3, AnswerStep, MoveStep DEF GoTo, IInv, TypeOK
<1>5. CASE CheckFriends(r)
  <2>1. pc[r] = "friends?" /\ UNCHANGED <<tables, call, found, consented>>
    BY <1>5 DEF CheckFriends, At, Read
  <2>2. \/ \E code \in Replies : Answer(r, code)
        \/ GoTo(r, "open") /\ AreFriends(r)
    BY <1>5 DEF CheckFriends, Replies
  <2>3. ASSUME AreFriends(r) PROVE Prepared(r, "open")
    BY <2>1, <2>3 DEF IInv, RequestsKeepTheirPath, ConsentRecorded, AreFriends, Prepared, Steps
  <2> QED
    BY <2>1, <2>2, <2>3, AnswerStep, MoveStep DEF GoTo, IInv, TypeOK
<1>6. CASE ReadBack(r)
  <2>1. pc[r] = "readBack" /\ UNCHANGED <<tables, call, found, consented>>
    BY <1>6 DEF ReadBack, At, Read
  <2>2. \E code \in Replies : Answer(r, code)
    BY <1>6 DEF ReadBack, Replies
  <2> QED
    BY <2>1, <2>2, AnswerStep
<1>7. CASE Fail(r)
  BY <1>7, AnswerStep DEF Fail, Replies
<1> QED
  BY <1>1, <1>2, <1>3, <1>4, <1>5, <1>6, <1>7

\* DELETE of whatever relation the pair has.
LEMMA RemoveStep ==
    ASSUME IInv, NEW r \in Request, Remove(r)
    PROVE  IInv'
<1>1. /\ pc[r] = "remove" /\ friendships' \subseteq friendships
      /\ UNCHANGED <<convs, stored, call, found, consented>>
  BY DEF Remove, At
<1>2. \E code \in Replies : Answer(r, code)
  BY DEF Remove, Replies
<1> QED
  BY <1>1, <1>2, FewerRows

-------------------------------------------------------------------------------
(* Conversations *)

\* A request takes a conversation of its user in hand.
LEMMA FoundStep ==
    ASSUME IInv, NEW r \in Request, NEW c \in convs, NEW step \in {"post", "erase"},
           pc[r] \in {"find", "participant?"}, call[r].user \in Participants(c),
           step = "erase" => call[r].op = "delete",
           pc' = [pc EXCEPT ![r] = step], found' = [found EXCEPT ![r] = c],
           UNCHANGED <<tables, call, reply, consented>>
    PROVE  IInv'
<1>1. /\ pc \in [Request -> Steps] /\ call' = call /\ reply' = reply /\ stored' = stored
      /\ friendships' = friendships /\ convs' = convs /\ consented' = consented
      /\ found \in [Request -> Request \cup {None}]
  BY DEF IInv, TypeOK, tables
<1>2. /\ r \notin Seeded /\ stored[r] = None /\ c \in Request /\ pc[c] # "idle" /\ c \notin Seeded
  BY DEF IInv, TypeOK, RequestsKeepTheirPath, ConsentRecorded
<1>3. TypeOK'
  BY <1>1, <1>2 DEF IInv, TypeOK, Steps
<1>4. RequestsKeepTheirPath'
  BY <1>1, <1>2 DEF IInv, RequestsKeepTheirPath
<1>5. RowsKeepTheirUsers' /\ AnswersByAddressee'
  BY <1>1 DEF IInv, RowsKeepTheirUsers, AnswersByAddressee, TypeOK, Friendship
<1>6. ConsentRecorded'
  BY <1>1 DEF IInv, ConsentRecorded, CanContactOrganizer, Pair, FriendPairs, TypeOK
<1>7. FoundBySender'
  BY <1>1, <1>2 DEF IInv, FoundBySender, Participants, Pair
<1>8. OneRelationPerPair' /\ ConversationsConsented' /\ MessagesHaveConversation'
  BY <1>1 DEF IInv, OneRelationPerPair, ConversationsConsented, MessagesHaveConversation,
     CanContactOrganizer, Participants, Pair
<1>9. FriendsConsent'
  BY <1>1 DEF IInv, FriendsConsent
<1> QED
  BY <1>3, <1>4, <1>5, <1>6, <1>7, <1>8, <1>9 DEF IInv

\* A sender finds the conversation of its pair, or goes on to its right to open one.
LEMMA FindStep ==
    ASSUME IInv, NEW r \in Request, FindConversation(r)
    PROVE  IInv'
<1>1. pc[r] = "find" /\ UNCHANGED <<tables, call, reply, consented>>
  BY DEF FindConversation, At, GoTo
<1>2. \/ \E c \in convs : /\ Participants(c) = Pair(r)
                          /\ pc' = [pc EXCEPT ![r] = "post"] /\ found' = [found EXCEPT ![r] = c]
      \/ CanContactOrganizer(r) /\ pc' = [pc EXCEPT ![r] = "open"] /\ UNCHANGED found
      \/ pc' = [pc EXCEPT ![r] = "friends?"] /\ UNCHANGED found
  BY DEF FindConversation, GoTo
<1>3. Prepared(r, "friends?") /\ (CanContactOrganizer(r) => Prepared(r, "open"))
  BY <1>1 DEF IInv, RequestsKeepTheirPath, Prepared, Steps
<1>4. ASSUME NEW c \in convs, Participants(c) = Pair(r),
             pc' = [pc EXCEPT ![r] = "post"], found' = [found EXCEPT ![r] = c]
      PROVE  IInv'
  <2>1. call[r].user \in Participants(c)
    BY <1>4 DEF Pair
  <2> QED
    BY <1>1, <1>4, <2>1, FoundStep
<1>5. reply' \in [Request -> Replies]
  BY <1>1 DEF IInv, TypeOK
<1>6. CASE UNCHANGED found /\ CanContactOrganizer(r) /\ pc' = [pc EXCEPT ![r] = "open"]
  BY <1>1, <1>3, <1>5, <1>6, MoveStep
<1>7. CASE UNCHANGED found /\ pc' = [pc EXCEPT ![r] = "friends?"]
  BY <1>1, <1>3, <1>5, <1>7, MoveStep
<1> QED
  BY <1>2, <1>4, <1>6, <1>7

\* assertParticipant lets only a participant through.
LEMMA CheckParticipantStep ==
    ASSUME IInv, NEW r \in Request, CheckParticipant(r)
    PROVE  IInv'
<1>1. pc[r] = "participant?" /\ UNCHANGED <<tables, call, consented>>
  BY DEF CheckParticipant, At
<1>2. \/ \E code \in Replies : Answer(r, code) /\ UNCHANGED found
      \/ /\ call[r].target \in convs /\ call[r].user \in Participants(call[r].target)
         /\ GoTo(r, IF call[r].op = "post" THEN "post" ELSE "erase")
         /\ found' = [found EXCEPT ![r] = call[r].target]
  BY DEF CheckParticipant, Replies
<1>3. call[r].op \in {"post", "delete"}
  BY <1>1 DEF IInv, RequestsKeepTheirPath
<1>4. CASE \E code \in Replies : Answer(r, code) /\ UNCHANGED found
  BY <1>1, <1>4, AnswerStep
<1>5. CASE /\ call[r].target \in convs /\ call[r].user \in Participants(call[r].target)
           /\ GoTo(r, IF call[r].op = "post" THEN "post" ELSE "erase")
           /\ found' = [found EXCEPT ![r] = call[r].target]
  <2> DEFINE step == IF call[r].op = "post" THEN "post" ELSE "erase"
  <2>1. step \in {"post", "erase"} /\ (step = "erase" => call[r].op = "delete")
    BY <1>3
  <2>2. pc' = [pc EXCEPT ![r] = step] /\ reply' = reply
    BY <1>5 DEF GoTo
  <2> HIDE DEF step
  <2> QED
    BY <1>1, <1>5, <2>1, <2>2, FoundStep
<1> QED
  BY <1>2, <1>4, <1>5

\* createDirectConversation: the creator and its addressee are the two participants.
LEMMA OpenStep ==
    ASSUME IInv, NEW r \in Request, OpenConversation(r)
    PROVE  IInv'
<1>1. /\ pc[r] = "open" /\ call' = call /\ reply' = reply /\ stored' = stored
      /\ friendships' = friendships /\ convs' = convs \cup {r} /\ consented' = consented
      /\ found' = [found EXCEPT ![r] = r] /\ pc' = [pc EXCEPT ![r] = "post"]
      /\ pc \in [Request -> Steps] /\ found \in [Request -> Request \cup {None}]
  BY DEF OpenConversation, At, GoTo, IInv, TypeOK
<1>2. /\ r \notin Seeded /\ stored[r] = None /\ call[r].user \in Pair(r)
      /\ CanContactOrganizer(r) \/ Pair(r) \in consented
  BY <1>1 DEF IInv, RequestsKeepTheirPath, ConsentRecorded, Pair
<1>3. TypeOK'
  BY <1>1, <1>2 DEF IInv, TypeOK, Steps
<1>4. RequestsKeepTheirPath'
  BY <1>1, <1>2 DEF IInv, RequestsKeepTheirPath
<1>5. RowsKeepTheirUsers' /\ AnswersByAddressee'
  BY <1>1 DEF IInv, RowsKeepTheirUsers, AnswersByAddressee, TypeOK, Friendship
<1>6. ConsentRecorded'
  BY <1>1, <1>2 DEF IInv, ConsentRecorded, CanContactOrganizer, Pair, FriendPairs, TypeOK
<1>7. FoundBySender'
  BY <1>1, <1>2 DEF IInv, FoundBySender, Participants, Pair
<1>8. ConversationsConsented'
  BY <1>1, <1>2 DEF IInv, ConversationsConsented, CanContactOrganizer, Participants, Pair
<1>9. OneRelationPerPair' /\ MessagesHaveConversation'
  BY <1>1 DEF IInv, OneRelationPerPair, MessagesHaveConversation, Participants, Pair
<1>10. FriendsConsent'
  BY <1>1 DEF IInv, FriendsConsent
<1> QED
  BY <1>3, <1>4, <1>5, <1>6, <1>7, <1>8, <1>9, <1>10 DEF IInv

\* INSERT: the foreign key keeps a message out of a conversation that has gone.
LEMMA InsertMessageStep ==
    ASSUME IInv, NEW r \in Request, InsertMessage(r)
    PROVE  IInv'
<1>1. /\ pc[r] = "post" /\ call' = call /\ friendships' = friendships /\ convs' = convs
      /\ found' = found /\ consented' = consented
  BY DEF InsertMessage, At
<1>2. CASE ~Referable(found[r])
  <2>1. Answer(r, "FAILED") /\ stored' = stored
    BY <1>2 DEF InsertMessage
  <2> QED
    BY <1>1, <2>1, AnswerStep DEF Replies, tables
<1>3. CASE Referable(found[r])
  <2>1. /\ stored' = [stored EXCEPT ![r] = found[r]] /\ reply' = reply
        /\ pc' = [pc EXCEPT ![r] = "readBack"] /\ found[r] \in convs
        /\ pc \in [Request -> Steps] /\ stored \in [Request -> Request \cup {None}]
    BY <1>3 DEF InsertMessage, GoTo, Referable, IInv, TypeOK
  <2>2. found[r] \in Request /\ found[r] # None /\ r \notin Seeded
    BY <1>1, NoneAssumption DEF IInv, TypeOK, RequestsKeepTheirPath
  <2>3. TypeOK'
    BY <1>1, <2>1, <2>2 DEF IInv, TypeOK, Steps
  <2>4. RequestsKeepTheirPath'
    BY <1>1, <2>1, <2>2 DEF IInv, RequestsKeepTheirPath
  <2>5. RowsKeepTheirUsers' /\ AnswersByAddressee'
    BY <1>1, <2>1 DEF IInv, RowsKeepTheirUsers, AnswersByAddressee, TypeOK, Friendship
  <2>6. ConsentRecorded'
    BY <1>1, <2>1 DEF IInv, ConsentRecorded, CanContactOrganizer, Pair, FriendPairs, TypeOK
  <2>7. FoundBySender'
    BY <1>1, <2>1 DEF IInv, FoundBySender, Participants, Pair, TypeOK
  <2>8. OneRelationPerPair' /\ ConversationsConsented'
    BY <1>1 DEF IInv, OneRelationPerPair, ConversationsConsented, CanContactOrganizer,
       Participants, Pair
  <2>9. MessagesHaveConversation'
    BY <1>1, <2>1, <2>2 DEF IInv, MessagesHaveConversation, FoundBySender, Participants, Pair
  <2>10. FriendsConsent'
    BY <1>1, <2>1 DEF IInv, FriendsConsent
  <2> QED
    BY <2>3, <2>4, <2>5, <2>6, <2>7, <2>8, <2>9, <2>10 DEF IInv
<1> QED
  BY <1>2, <1>3

\* DELETE: the messages go with their conversation.
LEMMA EraseStep ==
    ASSUME IInv, NEW r \in Request, Erase(r)
    PROVE  IInv'
<1>1. /\ pc[r] = "erase" /\ call' = call /\ friendships' = friendships
      /\ convs' = convs \ {found[r]} /\ found' = found /\ consented' = consented
      /\ stored' = [m \in Request |-> IF stored[m] = found[r] THEN None ELSE stored[m]]
      /\ pc' = [pc EXCEPT ![r] = "done"] /\ reply' = [reply EXCEPT ![r] = "OK"]
      /\ pc \in [Request -> Steps] /\ stored \in [Request -> Request \cup {None}]
  BY DEF Erase, At, Answer, IInv, TypeOK
<1>2. stored[r] = None
  BY <1>1 DEF IInv, RequestsKeepTheirPath
<1>3. TypeOK'
  BY <1>1, <1>2 DEF IInv, TypeOK, Steps, Replies
<1>4. RequestsKeepTheirPath'
  BY <1>1, <1>2 DEF IInv, RequestsKeepTheirPath
<1>5. RowsKeepTheirUsers' /\ AnswersByAddressee'
  BY <1>1 DEF IInv, RowsKeepTheirUsers, AnswersByAddressee, TypeOK, Friendship
<1>6. ConsentRecorded'
  BY <1>1 DEF IInv, ConsentRecorded, CanContactOrganizer, Pair, FriendPairs, TypeOK
<1>7. FoundBySender'
  BY <1>1 DEF IInv, FoundBySender, Participants, Pair, TypeOK
<1>8. OneRelationPerPair' /\ ConversationsConsented'
  BY <1>1 DEF IInv, OneRelationPerPair, ConversationsConsented, CanContactOrganizer,
     Participants, Pair
<1>9. MessagesHaveConversation'
  BY <1>1 DEF IInv, MessagesHaveConversation, Participants, Pair
<1>10. FriendsConsent'
  BY <1>1 DEF IInv, FriendsConsent
<1> QED
  BY <1>3, <1>4, <1>5, <1>6, <1>7, <1>8, <1>9, <1>10 DEF IInv

-------------------------------------------------------------------------------
(* The invariant *)

\* The invariant holds in the tables as they are found.
LEMMA InitInv == Init => IInv
<1> SUFFICES ASSUME Init PROVE IInv
  OBVIOUS
<1>1. /\ friendships = Rows /\ convs = {} /\ stored = [r \in Request |-> None]
      /\ pc = [r \in Request |-> IF r \in Seeded THEN "done" ELSE "idle"]
      /\ call = [r \in Request |-> None] /\ reply = [r \in Request |-> ""]
      /\ found = [r \in Request |-> None] /\ consented = FriendPairs(Rows)
  BY DEF Init
<1>2. Rows \subseteq Friendship /\ Seeded \subseteq Request
  BY RowsAssumption DEF Seeded, Friendship
<1>3. FriendPairs(Rows) \subseteq SUBSET User
  BY <1>2 DEF FriendPairs, Friendship
<1>4. TypeOK
  BY <1>1, <1>2, <1>3 DEF TypeOK, Steps, Replies
<1>5. RequestsKeepTheirPath /\ AnswersByAddressee /\ FoundBySender
  BY <1>1 DEF RequestsKeepTheirPath, AnswersByAddressee, FoundBySender
<1>6. RowsKeepTheirUsers
  BY <1>1 DEF RowsKeepTheirUsers, Seeded
<1>7. ConsentRecorded /\ ConversationsConsented /\ MessagesHaveConversation /\ FriendsConsent
  BY <1>1 DEF ConsentRecorded, ConversationsConsented, MessagesHaveConversation, FriendsConsent
<1>8. OneRelationPerPair
  BY <1>1, RowsAssumption DEF OneRelationPerPair
<1> QED
  BY <1>4, <1>5, <1>6, <1>7, <1>8 DEF IInv

\* No statement, arrival or failure disturbs it.
LEMMA InvariantStep == IInv /\ [Next]_vars => IInv'
<1> SUFFICES ASSUME IInv, [Next]_vars PROVE IInv'
  OBVIOUS
<1>1. ASSUME NEW r \in Request, NEW c \in Calls, Start(r, c) PROVE IInv'
  BY <1>1, StartStep
<1>2. ASSUME NEW r \in Request, Step(r) PROVE IInv'
  BY <1>2, ReadStep, InsertRequestStep, RespondStep, RemoveStep, FindStep, OpenStep,
     CheckParticipantStep, InsertMessageStep, EraseStep DEF Step
<1>3. ASSUME NEW r \in Request, Fail(r) PROVE IInv'
  BY <1>3, ReadStep
<1>4. CASE UNCHANGED vars
  <2>1. /\ friendships' = friendships /\ convs' = convs /\ stored' = stored /\ pc' = pc
        /\ call' = call /\ reply' = reply /\ found' = found /\ consented' = consented
    BY <1>4 DEF vars, tables, requests
  <2>2. TypeOK' /\ RequestsKeepTheirPath' /\ RowsKeepTheirUsers' /\ AnswersByAddressee'
    BY <2>1 DEF IInv, TypeOK, RequestsKeepTheirPath, RowsKeepTheirUsers, AnswersByAddressee
  <2>3. ConsentRecorded' /\ FoundBySender' /\ OneRelationPerPair' /\ FriendsConsent'
    BY <2>1 DEF IInv, ConsentRecorded, FoundBySender, OneRelationPerPair, FriendsConsent,
       FriendPairs, CanContactOrganizer, Participants, Pair
  <2>4. ConversationsConsented' /\ MessagesHaveConversation'
    BY <2>1 DEF IInv, ConversationsConsented, MessagesHaveConversation, CanContactOrganizer,
       Participants, Pair
  <2> QED
    BY <2>2, <2>3, <2>4 DEF IInv
<1> QED
  BY <1>1, <1>2, <1>3, <1>4 DEF Next

\* Everything the code relies on between two statements always holds.
THEOREM Invariant == Spec => []IInv
  BY InitInv, InvariantStep, PTL DEF Spec

-------------------------------------------------------------------------------
(* What the invariant gives *)

\* The tables and the requests have their types, and a request past a statement has
\* what the statement left behind.
THEOREM TypeCorrect == Spec => []TypeOK
<1>1. IInv => TypeOK
  BY DEF IInv
<1> QED
  BY <1>1, Invariant, PTL

\* The unique index and the check before it leave at most one relation to two users,
\* for any number of requests (sendRequest, friend.service.ts).
THEOREM OneRelation == Spec => []OneRelationPerPair
<1>1. IInv => OneRelationPerPair
  BY DEF IInv
<1> QED
  BY <1>1, Invariant, PTL

\* A friendship exists only if its addressee accepted it (respondRequest), although
\* its UPDATE and DELETE trust a check made before.
THEOREM Consent == Spec => []FriendsConsent
<1>1. IInv => FriendsConsent
  BY DEF IInv
<1> QED
  BY <1>1, Invariant, PTL

\* A direct conversation exists only between users who have been friends, or from a
\* member to an organizer (sendMessage).
THEOREM ConversationConsent == Spec => []ConversationsConsented
<1>1. IInv => ConversationsConsented
  BY DEF IInv
<1> QED
  BY <1>1, Invariant, PTL

\* A message that is stored is stored in an existing conversation of its sender
\* (insertMessage, deleteConversation).
THEOREM MessagesKeepConversation == Spec => []MessagesHaveConversation
<1>1. IInv => MessagesHaveConversation
  BY DEF IInv
<1> QED
  BY <1>1, Invariant, PTL

\* A send is answered with success only by reading back the message that is stored.
THEOREM SuccessStored == Spec => SuccessMeansStored
<1> DEFINE Told(r) == call[r] # None /\ call[r].op \in {"message", "post"} /\ pc[r] # "done"
                        /\ pc'[r] = "done" /\ reply'[r] = "OK"
<1>1. ASSUME IInv, Next, NEW r \in Request, Told(r) PROVE stored'[r] # None
  <2>1. pc \in [Request -> Steps] /\ reply \in [Request -> Replies]
    BY <1>1 DEF IInv, TypeOK
  <2>2. PICK q \in Request : Step(q) \/ Fail(q) \/ \E c \in Calls : Start(q, c)
    BY <1>1 DEF Next
  <2>3. q = r
    <3>1. \E step : pc' = [pc EXCEPT ![q] = step]
      BY <2>2 DEF Step, Fail, Start, Answer, GoTo, CheckAddressee, CheckExisting, InsertRequest,
         CheckPending, Respond, Remove, CheckRecipient, FindConversation, CheckFriends,
         OpenConversation, CheckParticipant, InsertMessage, ReadBack, Erase
    <3> QED
      BY <1>1, <2>1, <3>1
  <2>4. reply'[r] = "OK" /\ pc'[r] = "done"
    BY <1>1
  <2>5. pc[r] \notin {"addressee?", "existing?", "insert", "pending?", "respond", "remove",
                      "erase"}
    BY <1>1 DEF IInv, RequestsKeepTheirPath
  <2>6. ~Fail(r) /\ ~CheckRecipient(r) /\ ~FindConversation(r) /\ ~CheckFriends(r)
        /\ ~OpenConversation(r) /\ ~CheckParticipant(r) /\ ~InsertMessage(r)
    BY <2>1, <2>4 DEF Fail, CheckRecipient, FindConversation, CheckFriends, OpenConversation,
       CheckParticipant, InsertMessage, Answer, GoTo
  <2>7. \A c \in Calls : ~Start(r, c)
    <3> SUFFICES ASSUME NEW c \in Calls, Start(r, c) PROVE FALSE
      OBVIOUS
    <3>1. c.op \in Ops
      BY CallsAssumption DEF Call
    <3> QED
      BY <2>1, <2>4, <3>1 DEF Start, FirstStep, Ops
  <2>8. ReadBack(r)
    BY <2>2, <2>3, <2>5, <2>6, <2>7 DEF Step, CheckAddressee, CheckExisting, InsertRequest,
       CheckPending, Respond, Remove, Erase, At
  <2> QED
    BY <2>1, <2>4, <2>8 DEF ReadBack, Answer, Stored, Read, tables
<1>2. IInv /\ [Next]_vars => [\A r \in Request : Told(r) => stored'[r] # None]_vars
  BY <1>1
<1> QED
  BY <1>2, Invariant, PTL DEF Spec, SuccessMeansStored
===============================================================================
