---------------------------------- MODULE Badge ---------------------------------
(***************************************************************************)
(* The badge of unread messages (use-unread-message-count.ts): each event  *)
(* of the conversation makes the device ask for the list of conversations, *)
(* and only the answer to its latest request is displayed.                 *)
(***************************************************************************)
EXTENDS Conversation, SequencesExt

CONSTANTS
    Writers,    \* participants that write in the model, and those that read:
    Readers,    \* the others only receive
    MaxPending  \* bound of the model: badge requests a device has in flight

VARIABLES
    unreported, \* [User -> marks as read whose handler has not published yet]
    pending,    \* [Device -> requests in flight, oldest first: None or the answer]
    fresh,      \* [Device -> whether the last of these is the latest request]
    badge,      \* [Device -> the answer on display]
    \* history variables
    marked,     \* how many marks the table has seen
    missed      \* devices that lost an event or an answer since their latest request

device == <<pending, fresh, badge>>
reading == <<unreported, marked>>
vars == <<transport, conversation, device, reading, missed>>

\* `at` tells which state of the tables the answer is about.
Answer == [unread : 0 .. MaxRows, at : Nat]

Init ==
    /\ TransportInit /\ ConversationInit
    /\ unreported = [u \in User |-> 0] /\ marked = 0
    /\ pending = [d \in Device |-> <<None>>] /\ fresh = [d \in Device |-> TRUE]
    /\ badge = [d \in Device |-> [unread |-> 0, at |-> 0]]
    /\ missed = {}

-------------------------------------------------------------------------------
\* A participant writes, by the socket or by REST.
Write(u) ==
    /\ u \in Writers
    /\ Insert(u)
    /\ UNCHANGED <<transport, device, reading, missed>>

\* RealtimeEvent, published by any of the instances.
Announce(e) ==
    \E i \in Instance : \E copies \in Deliveries(i) :
        /\ Dispatch(e, copies)
        /\ \A d \in Device : Len(wire'[d]) <= MaxWire
        /\ missed' = missed \cup (Addressed(e) \ Reached(e, copies))

\* "message:new" to all participants, the author included.
PublishRow(n) ==
    /\ Finish(n)
    /\ Announce([to |-> User])
    /\ UNCHANGED <<device, reading>>

\* The handler fails between the insertion and the event: nobody is told.
FailRow(n) ==
    /\ Finish(n)
    /\ missed' = Device
    /\ UNCHANGED <<transport, device, reading>>

\* A device of u marks the conversation as read.
MarkRead(u) ==
    /\ u \in Readers /\ marked < MaxMarks
    /\ Mark(u)
    /\ marked' = marked + 1
    /\ unreported' = [unreported EXCEPT ![u] = @ + 1]
    /\ UNCHANGED <<transport, device, missed>>

\* Fault: the reader is not told of its own mark.
OthersOnly(u) == User \ {u}

\* handleRead: the other participants, and the reader for its badges.
ReadRecipients(u) == (User \ {u}) \cup {u}

PublishMark(u) ==
    /\ unreported[u] > 0
    /\ unreported' = [unreported EXCEPT ![u] = @ - 1]
    /\ Announce([to |-> ReadRecipients(u)])
    /\ UNCHANGED <<conversation, device, marked>>

\* The update of messages.read_at fails after the one of last_read_at.
FailMark(u) ==
    /\ unreported[u] > 0
    /\ unreported' = [unreported EXCEPT ![u] = @ - 1]
    /\ missed' = Device
    /\ UNCHANGED <<transport, conversation, device, marked>>

-------------------------------------------------------------------------------
\* An event of the conversation: refresh.
Receive(d) ==
    /\ Take(d)
    /\ Len(pending[d]) < MaxPending
    /\ pending' = [pending EXCEPT ![d] = Append(@, None)]
    /\ fresh' = [fresh EXCEPT ![d] = TRUE]
    /\ missed' = missed \ {d}
    /\ UNCHANGED <<conversation, badge, reading>>

\* listConversations, for one of the requests: they may overtake each other.
Read(d) ==
    /\ \E k \in DOMAIN pending[d] :
        /\ pending[d][k] = None
        /\ pending' = [pending EXCEPT ![d][k] =
                        [unread |-> Cardinality(Unread(Owner[d])), at |-> Len(sender) + marked]]
    /\ UNCHANGED <<transport, conversation, fresh, badge, reading, missed>>

\* Fault: answers are not compared with the latest request.
AnyAnswer(d, k) == TRUE

\* Fault: the answer to the oldest request is displayed.
OldestAnswer(d, k) == fresh[d] /\ k = 1

\* requestId === latestRequest.current.
Latest(d, k) == fresh[d] /\ k = Len(pending[d])

\* Request k is over.
Forget(d, k) ==
    /\ pending' = [pending EXCEPT ![d] = RemoveAt(@, k)]
    /\ fresh' = [fresh EXCEPT ![d] = @ /\ k < Len(pending[d])]

Display(d) ==
    /\ \E k \in DOMAIN pending[d] :
        /\ pending[d][k] # None
        /\ badge' = IF Latest(d, k) THEN [badge EXCEPT ![d] = pending[d][k]] ELSE badge
        /\ Forget(d, k)
    /\ UNCHANGED <<transport, conversation, reading, missed>>

\* A request fails, which the hook ignores.
LoseRequest(d) ==
    /\ \E k \in DOMAIN pending[d] :
        /\ missed' = IF fresh[d] /\ k = Len(pending[d]) THEN missed \cup {d} ELSE missed
        /\ Forget(d, k)
    /\ UNCHANGED <<transport, conversation, badge, reading>>

LoseSocket(d) ==
    /\ Disconnect(d)
    /\ missed' = IF wire[d] = <<>> THEN missed ELSE missed \cup {d}
    /\ UNCHANGED <<conversation, device, reading>>

ConnectSocket(d) ==
    /\ Connect(d)
    /\ UNCHANGED <<conversation, device, reading, missed>>

-------------------------------------------------------------------------------
Answers == \E d \in Device : Receive(d) \/ Read(d) \/ Display(d)
Published == (\E n \in Row : PublishRow(n)) \/ (\E u \in User : PublishMark(u))

Next ==
    \/ \E u \in User : Write(u) \/ MarkRead(u) \/ FailMark(u)
    \/ \E n \in Row : FailRow(n)
    \/ Published
    \/ Answers
    \/ \E d \in Device : LoseRequest(d) \/ LoseSocket(d) \/ ConnectSocket(d)

\* Handlers end and requests are answered, or fail.
Fairness ==
    /\ WF_vars(Published)
    /\ \A d \in Device : WF_vars(Receive(d)) /\ WF_vars(Read(d)) /\ WF_vars(Display(d))

Spec == Init /\ [][Next]_vars
FairSpec == Spec /\ Fairness

-------------------------------------------------------------------------------
(***************************************************************************)
(* Properties                                                              *)
(***************************************************************************)
\* The tables and the requests have their types, and nothing is on its way to a
\* device without a socket.
TypeOK ==
    /\ TransportType /\ ConversationType
    /\ unreported \in [User -> 0 .. MaxMarks] /\ marked \in 0 .. MaxMarks
    /\ pending \in [Device -> Seq(Answer \cup {None})]
    /\ fresh \in [Device -> BOOLEAN]
    /\ \A d \in Device : Len(pending[d]) <= MaxPending /\ (fresh[d] => pending[d] # <<>>)
    /\ badge \in [Device -> Answer]
    /\ missed \subseteq Device

\* "une réponse ancienne ne doit jamais réafficher un badge déjà acquitté"
\* (use-unread-message-count.ts:18): the badge never goes back to an older state of
\* the tables, however its requests and their answers overtake each other.
NeverGoesBack == [][\A d \in Device : badge'[d].at >= badge[d].at]_vars

\* Nothing is on its way to the device, nor about to be announced.
Settled(d) ==
    /\ wire[d] = <<>> /\ ~fresh[d] /\ unannounced = {}
    /\ \A u \in User : unreported[u] = 0

\* Once everything has arrived the badge is right, on every device of the account,
\* the ones that did not read included, unless the device has lost something since
\* its latest request: an event leads to a query that sees what the event is about.
RightUnlessMissed ==
    \A d \in Device : Settled(d) /\ d \notin missed =>
        badge[d].unread = Cardinality(Unread(Owner[d]))

\* The requests make sense, and the badge that displays their answers is right.
\* (use-unread-message-count.ts)
Consistent == TypeOK /\ RightUnlessMissed

\* The badges settle: an event that is not lost ends up on display.
Settles ==
    <>[](\A d \in Device :
            d \in missed \/ badge[d].unread = Cardinality(Unread(Owner[d])))
===============================================================================
