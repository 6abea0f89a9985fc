---------------------------------- MODULE Chat ----------------------------------
(***************************************************************************)
(* The screen of an existing conversation (use-chat.ts and                 *)
(* [conversationId].tsx): its history comes over REST and its new messages *)
(* over the socket, it marks the conversation as read, and it sends a text *)
(* over the socket, or over REST when the socket refuses.                  *)
(***************************************************************************)
EXTENDS Conversation, SequencesExt

CONSTANTS
    Text,       \* what is typed on the screens, each sent once, a finite number of them
    Author,     \* [Text -> Device]
    Others      \* participants who write by means that are not modelled

ASSUME ChatAssumption ==
    /\ IsFiniteSet(Text) /\ Author \in [Text -> Device] /\ Others \subseteq User
    /\ Event = [to : SUBSET User, row : Row]

VARIABLES
    screen,     \* [Device -> "closed", "open" or "left"]
    history,    \* [Device -> the load of the history: "none", "asked", "answered", "shown"]
    loaded,     \* [Device -> the rows of its answer]
    shown,      \* [Device -> the messages of the screen]
    marks,      \* [Device -> marks as read that the server has not handled]
    post,       \* [Text -> [stage, via : the channel of the attempt, row : its row or 0]]
    \* history variables
    hidden,     \* [Device -> rows an open screen has lost: on the way, or to the history]
    unmarked,   \* devices that lost a mark since they asked for one
    broken      \* texts whose handler failed after the insertion

reader == <<screen, history, loaded, shown>>
vars == <<transport, conversation, reader, marks, post, hidden, unmarked, broken>>

Stage == {"typed", "asked", "stored", "accepted", "refused", "sent", "failed", "silent"}
Idle(t) == post[t].stage \in {"typed", "sent", "failed"}
Via(t, channel) == post[t].via = channel

Init ==
    /\ TransportInit /\ ConversationInit
    /\ screen = [d \in Device |-> "closed"] /\ history = [d \in Device |-> "none"]
    /\ loaded = [d \in Device |-> {}] /\ shown = [d \in Device |-> {}]
    /\ marks = [d \in Device |-> 0]
    /\ post = [t \in Text |-> [stage |-> "typed", via |-> "none", row |-> 0]]
    /\ hidden = [d \in Device |-> {}] /\ unmarked = {} /\ broken = {}

-------------------------------------------------------------------------------
(***************************************************************************)
(* What the screen shows, and its marks as read                            *)
(***************************************************************************)
\* useChat.markRead.
AskMark(d) ==
    /\ marks[d] < MaxMarks
    /\ marks' = [marks EXCEPT ![d] = @ + 1]
    /\ unmarked' = unmarked \ {d}

\* Fault: only the opening of the screen marks the conversation.
OnOpenOnly(before, after) == FALSE

\* ChatScreen: an effect on messages.length.
LengthChanged(before, after) == Cardinality(before) # Cardinality(after)

\* What an open screen has lost once the events of these rows will not come.
Without(d, rows) == IF screen[d] = "open" THEN hidden[d] \cup (rows \ shown[d]) ELSE {}

Show(d, messages) ==
    /\ shown' = [shown EXCEPT ![d] = messages]
    /\ IF LengthChanged(shown[d], messages) THEN AskMark(d) ELSE UNCHANGED <<marks, unmarked>>

\* Fault: the new message replaces those of the screen.
LastOnly(messages, n) == {n}

\* mergeMessages: by id.
Merged(messages, n) == messages \cup {n}

\* The screen opens: it asks for the history, and marks the conversation as read.
Open(d) ==
    /\ screen[d] = "closed"
    /\ screen' = [screen EXCEPT ![d] = "open"]
    /\ history' = [history EXCEPT ![d] = "asked"]
    /\ AskMark(d)
    /\ UNCHANGED <<transport, conversation, loaded, shown, post, hidden, broken>>

\* getMessages: what is stored when the server answers.
ReadHistory(d) ==
    /\ history[d] = "asked"
    /\ history' = [history EXCEPT ![d] = "answered"]
    /\ loaded' = [loaded EXCEPT ![d] = Stored]
    /\ UNCHANGED <<transport, conversation, screen, shown, marks, post, hidden, unmarked, broken>>

\* setMessages(mergeMessages([], result.data)): the answer replaces the messages,
\* those that came before it included.
TakeHistory(d) ==
    /\ history[d] = "answered"
    /\ history' = [history EXCEPT ![d] = "shown"]
    /\ Show(d, loaded[d])
    /\ loaded' = [loaded EXCEPT ![d] = {}]
    /\ hidden' = [hidden EXCEPT ![d] = (@ \cup shown[d]) \ loaded[d]]
    /\ UNCHANGED <<transport, conversation, screen, post, broken>>

\* The history cannot be loaded.
LoseHistory(d) ==
    /\ history[d] \in {"asked", "answered"}
    /\ history' = [history EXCEPT ![d] = "none"]
    /\ loaded' = [loaded EXCEPT ![d] = {}]
    /\ UNCHANGED <<transport, conversation, screen, shown, marks, post, hidden, unmarked, broken>>

\* The screen closes: it listens no more, and ignores a late answer.
Close(d) ==
    /\ screen[d] = "open"
    /\ screen' = [screen EXCEPT ![d] = "left"]
    /\ history' = [history EXCEPT ![d] = "none"]
    /\ loaded' = [loaded EXCEPT ![d] = {}] /\ shown' = [shown EXCEPT ![d] = {}]
    /\ hidden' = [hidden EXCEPT ![d] = {}]
    /\ UNCHANGED <<transport, conversation, marks, post, unmarked, broken>>

\* "message:new" for this conversation.
Receive(d) ==
    /\ Take(d)
    /\ IF screen[d] = "open" THEN Show(d, Merged(shown[d], Head(wire[d]).row))
       ELSE UNCHANGED <<shown, marks, unmarked>>
    /\ UNCHANGED <<conversation, screen, history, loaded, post, hidden, broken>>

\* markConversationRead, by the socket or by REST.  When the handler of the socket
\* fails after last_read_at is written, the mark is asked again over REST.
WriteMark(d) ==
    /\ marks[d] > 0
    /\ marks' \in {marks, [marks EXCEPT ![d] = @ - 1]}
    /\ Mark(Owner[d])
    /\ UNCHANGED <<transport, reader, post, hidden, unmarked, broken>>

\* A mark is refused by both channels, or lost with its socket.
LoseMark(d) ==
    /\ marks[d] > 0
    /\ marks' = [marks EXCEPT ![d] = @ - 1]
    /\ unmarked' = unmarked \cup {d}
    /\ UNCHANGED <<transport, conversation, reader, post, hidden, broken>>

-------------------------------------------------------------------------------
(***************************************************************************)
(* Sending                                                                 *)
(***************************************************************************)
Attempt(t, stage) == post' = [post EXCEPT ![t].stage = stage]

\* The promise of send settles, or never will.
End(t, stage) == post' = [post EXCEPT ![t] = [stage |-> stage, via |-> "none", row |-> 0]]

\* useChat.send, unless the screen is sending.
Send(t) ==
    /\ post[t].stage = "typed" /\ screen[Author[t]] = "open"
    /\ \A s \in Text : Author[s] = Author[t] => Idle(s)
    /\ post' = [post EXCEPT ![t] = [stage |-> "asked", row |-> 0,
                    via |-> IF home[Author[t]] = None THEN "rest" ELSE "socket"]]
    /\ UNCHANGED <<transport, conversation, reader, marks, hidden, unmarked, broken>>

\* handleSend, handleSendGroup and the REST routes insert the message.
Handle(t) ==
    /\ post[t].stage = "asked"
    /\ Insert(Owner[Author[t]])
    /\ post' = [post EXCEPT ![t].stage = "stored", ![t].row = Len(sender')]
    /\ UNCHANGED <<transport, reader, marks, hidden, unmarked, broken>>

\* Or refuse it, or fail before the insertion.
Refuse(t) ==
    /\ post[t].stage = "asked"
    /\ Attempt(t, "refused")
    /\ UNCHANGED <<transport, conversation, reader, marks, hidden, unmarked, broken>>

\* A participant writes by other means.
Write(u) ==
    /\ u \in Others
    /\ Insert(u)
    /\ UNCHANGED <<transport, reader, marks, post, hidden, unmarked, broken>>

\* The texts that the handler of row n is about.
Of(n) == {t \in Text : post[t].stage = "stored" /\ post[t].row = n}

Answer(n, stage) ==
    post' = [t \in Text |-> IF t \in Of(n) THEN [post[t] EXCEPT !.stage = stage] ELSE post[t]]

\* The event to all participants, the author included, and the acknowledgement.
Publish(n) ==
    /\ Finish(n)
    /\ \E i \in Instance : \E copies \in Deliveries(i) :
        LET e == [to |-> User, row |-> n] IN
        /\ Dispatch(e, copies)
        /\ \A d \in Device : Len(wire'[d]) <= MaxWire
        /\ hidden' = [d \in Device |-> IF d \in Reached(e, copies) THEN hidden[d] ELSE Without(d, {n})]
    /\ Answer(n, "accepted")
    /\ UNCHANGED <<reader, marks, unmarked, broken>>

\* The handler fails between the insertion and the event.
Break(n) ==
    /\ Finish(n)
    /\ hidden' = [d \in Device |-> Without(d, {n})]
    /\ broken' = broken \cup Of(n)
    /\ Answer(n, "refused")
    /\ UNCHANGED <<transport, reader, marks, unmarked>>

\* The message of the answer is added to the screen, if it is still there.
Accept(t) ==
    /\ post[t].stage = "accepted" /\ ~Via(t, "cut")
    /\ End(t, "sent")
    /\ IF screen[Author[t]] = "open"
       THEN Show(Author[t], Merged(shown[Author[t]], post[t].row))
       ELSE UNCHANGED <<shown, marks, unmarked>>
    /\ UNCHANGED <<transport, conversation, screen, history, loaded, hidden, broken>>

\* Fault: the sender does not wait for an answer that the socket has lost.
Impatient(t) == (post[t].stage = "refused" /\ Via(t, "socket")) \/ Via(t, "cut")

\* client.sendMessage is rejected.
Rejected(t) == post[t].stage = "refused" /\ Via(t, "socket")

\* The text is sent again, over REST.
FallBack(t) ==
    /\ Rejected(t)
    /\ post' = [post EXCEPT ![t] = [stage |-> "asked", via |-> "rest", row |-> 0]]
    /\ UNCHANGED <<transport, conversation, reader, marks, hidden, unmarked, broken>>

\* REST refuses, or its request or its answer is lost: "Envoi impossible".
Fail(t) ==
    /\ Via(t, "rest") /\ post[t].stage \in {"asked", "accepted", "refused"}
    /\ End(t, "failed")
    /\ UNCHANGED <<transport, conversation, reader, marks, hidden, unmarked, broken>>

\* A request on a socket that is lost may not arrive; its answer does not.
Silence(t) ==
    /\ Via(t, "cut") /\ post[t].stage \in {"asked", "accepted", "refused"}
    /\ End(t, "silent")
    /\ UNCHANGED <<transport, conversation, reader, marks, hidden, unmarked, broken>>

-------------------------------------------------------------------------------
\* The socket is lost, with the events on their way and the answers to come.
LoseSocket(d) ==
    /\ Disconnect(d)
    /\ hidden' = [hidden EXCEPT ![d] = Without(d, {wire[d][k].row : k \in DOMAIN wire[d]})]
    /\ post' = [t \in Text |-> IF Author[t] = d /\ Via(t, "socket") /\ ~Idle(t)
                               THEN [post[t] EXCEPT !.via = "cut"] ELSE post[t]]
    /\ UNCHANGED <<conversation, reader, marks, unmarked, broken>>

ConnectSocket(d) ==
    /\ Connect(d)
    /\ UNCHANGED <<conversation, reader, marks, post, hidden, unmarked, broken>>

Next ==
    \/ \E d \in Device : Open(d) \/ ReadHistory(d) \/ TakeHistory(d) \/ LoseHistory(d) \/ Close(d)
    \/ \E d \in Device : Receive(d) \/ WriteMark(d) \/ LoseMark(d)
    \/ \E d \in Device : LoseSocket(d) \/ ConnectSocket(d)
    \/ \E t \in Text : Send(t) \/ Handle(t) \/ Refuse(t) \/ Accept(t) \/ FallBack(t)
    \/ \E t \in Text : Fail(t) \/ Silence(t)
    \/ \E u \in User : Write(u)
    \/ \E n \in Row : Publish(n) \/ Break(n)

Spec == Init /\ [][Next]_vars

-------------------------------------------------------------------------------
(***************************************************************************)
(* Properties                                                              *)
(***************************************************************************)
\* The screens and the attempts have their types, a screen shows stored messages,
\* and nothing is on its way to a device without a socket.
TypeOK ==
    /\ TransportType /\ ConversationType
    /\ screen \in [Device -> {"closed", "open", "left"}]
    /\ history \in [Device -> {"none", "asked", "answered", "shown"}]
    /\ \A d \in Device : shown[d] \cup loaded[d] \cup hidden[d] \subseteq Stored
    /\ \A d \in Device : screen[d] # "open" => shown[d] = {} /\ history[d] = "none"
    /\ marks \in [Device -> 0 .. MaxMarks]
    /\ post \in [Text -> [stage : Stage, via : {"none", "socket", "cut", "rest"}, row : Row \cup {0}]]
    /\ unmarked \subseteq Device /\ broken \subseteq Text

\* Nothing is on its way to the device, nor about to be announced.
Settled(d) == wire[d] = <<>> /\ unannounced = {}

\* Once everything has arrived an open screen shows every message of the
\* conversation, whatever the order in which the history, the events and the answers
\* to its own texts come; the only exceptions are messages that a socket lost and
\* those that came before the history, which replaces them (use-chat.ts:41).
ShownUnlessHidden ==
    \A d \in Device : Settled(d) /\ history[d] = "shown" => Stored \subseteq shown[d] \cup hidden[d]

\* "Marque la conversation lue à l'ouverture et à chaque nouveau message affiché"
\* ([conversationId].tsx:38): a conversation that stays on the screen ends up read,
\* except for messages that have not come to the screen, although the marks depend on
\* the number of messages alone and cross the messages and the history.
OpenConversationIsRead ==
    \A d \in Device : Settled(d) /\ screen[d] = "open" /\ marks[d] = 0 /\ d \notin unmarked =>
        Unread(Owner[d]) \subseteq hidden[d] \ shown[d]

\* A text is stored again over REST only when the handler of the socket failed after
\* its insertion: a lost acknowledgement never makes the screen send it again.
StoredOnce ==
    \A u \in User \ Others :
        LET texts == {t \in Text : Owner[Author[t]] = u /\ post[t].stage # "typed"}
        IN Cardinality({n \in Stored : sender[n] = u})
               <= Cardinality(texts) + Cardinality(texts \cap broken)

\* Screens show what is stored, and a text is stored once.
\* (use-chat.ts, gateway.ts handleSend)
Consistent == TypeOK /\ StoredOnce
===============================================================================
