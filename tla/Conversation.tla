------------------------------ MODULE Conversation ------------------------------
(***************************************************************************)
(* One conversation on the server, as message.service.ts and the handlers  *)
(* of gateway.ts and routes/messages.ts keep it: the rows of messages, the *)
(* last_read_at of the participants, and what the handlers still have to   *)
(* announce.  A row is named by its rank in the order of created_at.       *)
(***************************************************************************)
EXTENDS Realtime, FiniteSets

\* Bounds of the model
CONSTANTS
    MaxRows,    \* messages of the conversation
    MaxWire,    \* events on their way to a device
    MaxMarks    \* marks as read

ASSUME BoundsAssumption == {MaxRows, MaxWire, MaxMarks} \subseteq Nat \ {0}

Row == 1 .. MaxRows

VARIABLES
    sender,     \* [1 .. number of rows -> User]
    lastRead,   \* [User -> the last row that last_read_at covers]
    unannounced \* rows whose handler has not published yet

conversation == <<sender, lastRead, unannounced>>

Stored == DOMAIN sender

ConversationInit ==
    /\ sender = <<>>
    /\ lastRead = [u \in User |-> 0]
    /\ unannounced = {}

ConversationType ==
    /\ sender \in Seq(User) /\ Stored \subseteq Row
    /\ lastRead \in [User -> Stored \cup {0}]
    /\ unannounced \subseteq Stored

\* CONVERSATION_SELECT: the messages of others after last_read_at.
Unread(u) == {n \in Stored : n > lastRead[u] /\ sender[n] # u}

\* insertMessage, for a message of user u.
Insert(u) ==
    /\ Len(sender) < MaxRows
    /\ sender' = Append(sender, u)
    /\ unannounced' = unannounced \cup {Len(sender) + 1}
    /\ UNCHANGED lastRead

\* The handler of row n publishes its event, or fails after the insertion.
Finish(n) ==
    /\ n \in unannounced
    /\ unannounced' = unannounced \ {n}
    /\ UNCHANGED <<sender, lastRead>>

\* markConversationRead: last_read_at = now().
Mark(u) ==
    /\ lastRead' = [lastRead EXCEPT ![u] = Len(sender)]
    /\ UNCHANGED <<sender, unannounced>>
===============================================================================
