---------------------------- MODULE ConversationList ----------------------------
(***************************************************************************)
(* The list of a user's conversations: loaded on every realtime event and  *)
(* pull, with nothing that orders the answers, and changed at once by a    *)
(* deletion, which puts back an earlier list when the server refuses it.   *)
(* Conversations appear and are deleted by others too, for everyone.       *)
(***************************************************************************)
EXTENDS Naturals

CONSTANTS
    Conversation,
    MaxChanges, \* bound: changes of the server's list
    MaxLoads,   \* bound: loads on their way at one time
    None        \* no request

VARIABLES
    listed, gone, version,      \* the server: the list, what was deleted, a count
    news,                       \* versions announced to this user, not yet received
    shown,                      \* the screen: its rows, and the version they are of
    isLoading, error,
    load, removal,              \* requests: by number, by conversation
    told, overtaken             \* history: the last version it heard of; see the property

screen == <<shown, isLoading, error>>
server == <<listed, gone, version, news>>
conversationListVars == <<server, screen, load, removal, told, overtaken>>

Load == 1..MaxLoads

Asked == [is |-> "asked"]
Failed == [is |-> "failed"]
Answer(rows, asOf) == [is |-> "answered", rows |-> rows, asOf |-> asOf]
OnItsWay(request) == request # None /\ request # Asked

ConversationListInit ==
    /\ listed \in SUBSET Conversation /\ gone = {} /\ version = 0 /\ news = {}
    /\ shown = Answer({}, 0) /\ isLoading = TRUE /\ error = FALSE
    /\ load = [l \in Load |-> IF l = 1 THEN Asked ELSE None]
    /\ removal = [c \in Conversation |-> None]
    /\ told = 0 /\ overtaken = FALSE

At(c, step) == removal[c] # None /\ removal[c].step = step

\* The question of a deletion covers the screen.
Asking == \E c \in Conversation : At(c, "question")

-----------------------------------------------------------------------------
\* fetchConversations.

Fetch ==
    /\ \E l \in Load : /\ load[l] = None /\ \A k \in Load : k < l => load[k] # None
                       /\ load' = [load EXCEPT ![l] = Asked]
    /\ isLoading' = TRUE /\ error' = FALSE

\* The pull of a list that does not turn, or the button of the error screen.
Refresh ==
    /\ ~Asking /\ (error \/ ~isLoading)
    /\ Fetch
    /\ UNCHANGED <<server, shown, removal, told, overtaken>>

\* message:new, conversation:new, :updated, :read.
Receive(v) ==
    /\ v \in news /\ news' = news \ {v}
    /\ told' = IF v > told THEN v ELSE told
    /\ Fetch
    /\ UNCHANGED <<listed, gone, version, shown, removal, overtaken>>

\* listConversations.
Read(l) ==
    /\ load[l] = Asked
    /\ \E answer \in {Answer(listed, version), Failed} :
         load' = [load EXCEPT ![l] = answer]
    /\ UNCHANGED <<server, screen, removal, told, overtaken>>

\* The rows on the screen become those of another answer.
Replace(answer) ==
    shown' = answer /\ overtaken' = (overtaken \/ answer.asOf < shown.asOf)

Arrive(l) ==
    /\ OnItsWay(load[l]) /\ load' = [load EXCEPT ![l] = None]
    /\ isLoading' = FALSE
    /\ IF load[l] = Failed THEN error' = TRUE /\ UNCHANGED <<shown, overtaken>>
                           ELSE Replace(load[l]) /\ UNCHANGED error
    /\ UNCHANGED <<server, removal, told>>

-----------------------------------------------------------------------------
\* Deletions.

\* The long press, whose question keeps the list of that moment.
Press(c) ==
    /\ c \in shown.rows /\ ~error /\ ~Asking /\ removal[c] = None
    /\ removal' = [removal EXCEPT ![c] = [step |-> "question", previous |-> shown]]
    /\ UNCHANGED <<server, screen, load, told, overtaken>>

\* "Annuler", or remove: the row leaves at once.
Decide(c) ==
    /\ At(c, "question")
    /\ \/ removal' = [removal EXCEPT ![c] = None] /\ UNCHANGED shown
       \/ /\ removal' = [removal EXCEPT ![c].step = "asked"]
          /\ shown' = [shown EXCEPT !.rows = @ \ {c}]
    /\ UNCHANGED <<server, isLoading, error, load, told, overtaken>>

\* A change of the server's list; its event may find no socket.
Changed(rows) ==
    /\ version < MaxChanges
    /\ listed' = rows /\ gone' = gone \cup (listed \ rows) /\ version' = version + 1
    /\ news' \in {news, news \cup {version'}}

\* deleteConversation: done, done but its answer lost, or neither.
Delete(c) ==
    /\ At(c, "asked")
    /\ \/ /\ c \in listed /\ Changed(listed \ {c})
          /\ \E step \in {"done", "failed"} : removal' = [removal EXCEPT ![c].step = step]
       \/ removal' = [removal EXCEPT ![c].step = "failed"] /\ UNCHANGED server
    /\ UNCHANGED <<screen, load, told, overtaken>>

Removed(c) ==
    /\ At(c, "done") \/ At(c, "failed")
    /\ removal' = [removal EXCEPT ![c] = None]
    /\ IF At(c, "failed") THEN Replace(removal[c].previous) /\ error' = TRUE
                          ELSE UNCHANGED <<shown, error, overtaken>>
    /\ UNCHANGED <<server, isLoading, load, told>>

\* Others open a conversation or delete one.
Elsewhere(c) ==
    /\ \/ c \in listed /\ Changed(listed \ {c})
       \/ c \notin listed \cup gone /\ Changed(listed \cup {c})
    /\ UNCHANGED <<screen, load, removal, told, overtaken>>

ConversationListNext ==
    \/ Refresh \/ \E v \in 1..MaxChanges : Receive(v)
    \/ \E l \in Load : Read(l) \/ Arrive(l)
    \/ \E c \in Conversation : \/ Press(c) \/ Decide(c) \/ Delete(c) \/ Removed(c)
                               \/ Elsewhere(c)

ConversationListSpec == ConversationListInit /\ [][ConversationListNext]_conversationListVars

-----------------------------------------------------------------------------
\* A list at rest is not older than what the user heard of, and complete when it
\* is of the server's last version: whatever deletions cross its loads, unless it
\* shows an error, or an older list came last, late or put back by a deletion
\* that failed.
\* (use-conversations.ts remove, "en cas d'échec on recharge pour rétablir l'état réel")
AtRest ==
    /\ news = {}
    /\ \A l \in Load : load[l] = None
    /\ \A c \in Conversation : removal[c] = None
ListIsWhatWasTold ==
    AtRest => \/ error \/ overtaken
              \/ /\ shown.asOf >= told
                 /\ shown.asOf = version => shown.rows = listed
=============================================================================
