------------------------------- MODULE FriendsTab -------------------------------
(***************************************************************************)
(* The friends of a user and the requests that wait: two lists that are    *)
(* loaded together, after every call of the user and on two events, and    *)
(* whose answers nothing orders.  The server is in Contacts: a version     *)
(* stands for the relations of the user.  What becomes of another's        *)
(* refusal or removal, which nobody announces, is left to the next load.   *)
(***************************************************************************)
EXTENDS Naturals

CONSTANTS
    MaxVersion,             \* bound: changes of the user's relations
    MaxLoads, MaxCalls,     \* bounds: loads, and calls, on their way at one time
    None                    \* no request, no answer

VARIABLES
    relations, news,        \* the server: its version, and the versions it announced
    lists,                  \* the screen: by list, the version it is of
    isLoading, error,
    loads, calls,           \* requests
    told, overtaken         \* history: the last version the user heard of; see below

friendsTabVars == <<relations, news, lists, isLoading, error, loads, calls, told, overtaken>>
server == <<relations, news>>

Load == 1..MaxLoads
Call == 1..MaxCalls
List == {"friends", "requests"}
Failed == [failed |-> TRUE]

Nothing == [list \in List |-> None]

FriendsTabInit ==
    /\ relations = 0 /\ news = {} /\ told = 0 /\ overtaken = FALSE
    /\ lists = [list \in List |-> 0] /\ isLoading = TRUE /\ error = FALSE
    /\ loads = [l \in Load |-> IF l = 1 THEN Nothing ELSE None]
    /\ calls = [k \in Call |-> None]

-----------------------------------------------------------------------------
\* refresh.

Refreshed ==
    /\ \E l \in Load : /\ loads[l] = None /\ \A k \in Load : k < l => loads[k] # None
                       /\ loads' = [loads EXCEPT ![l] = Nothing]
    /\ isLoading' = TRUE /\ error' = FALSE

Pull ==
    /\ ~isLoading /\ Refreshed
    /\ UNCHANGED <<server, lists, calls, told, overtaken>>

Heard(version) == told' = IF version > told THEN version ELSE told

\* friend:request and friend:accepted.
Receive(version) ==
    /\ version \in news /\ news' = news \ {version}
    /\ Heard(version) /\ Refreshed
    /\ UNCHANGED <<relations, lists, calls, overtaken>>

\* listFriends and listPendingRequests, each at a time of its own.
Read(l, list) ==
    /\ loads[l] # None /\ loads[l] # Failed /\ loads[l][list] = None
    /\ loads' \in {[loads EXCEPT ![l][list] = relations], [loads EXCEPT ![l] = Failed]}
    /\ UNCHANGED <<server, lists, isLoading, error, calls, told, overtaken>>

\* Promise.all: both, or neither and the message.
Arrive(l) ==
    /\ loads[l] # None /\ loads' = [loads EXCEPT ![l] = None] /\ isLoading' = FALSE
    /\ IF loads[l] = Failed THEN error' = TRUE /\ UNCHANGED <<lists, overtaken>>
       ELSE /\ \A list \in List : loads[l][list] # None
            /\ lists' = loads[l] /\ UNCHANGED error
            /\ overtaken' = (overtaken \/ \E list \in List : loads[l][list] < lists[list])
    /\ UNCHANGED <<server, calls, told>>

-----------------------------------------------------------------------------
\* sendRequest, accept, decline and remove, from the rows of the lists or of a
\* search: any number of them, whatever is on its way.

Press(k) ==
    /\ calls[k] = None /\ \A j \in Call : j < k => calls[j] # None
    /\ calls' = [calls EXCEPT ![k] = [step |-> "asked", made |-> 0]]
    /\ error' = FALSE
    /\ UNCHANGED <<server, lists, isLoading, loads, told, overtaken>>

At(k, step) == calls[k] # None /\ calls[k].step = step

\* Done, done but its answer lost, or refused: the row was of an older list.
Serve(k) ==
    /\ At(k, "asked")
    /\ \/ /\ relations < MaxVersion /\ relations' = relations + 1
          /\ \E step \in {"done", "refused"} :
               calls' = [calls EXCEPT ![k] = [step |-> step, made |-> relations']]
       \/ calls' = [calls EXCEPT ![k].step = "refused"] /\ UNCHANGED relations
    /\ UNCHANGED <<news, lists, isLoading, error, loads, told, overtaken>>

Answered(k) ==
    /\ \/ At(k, "done") /\ Heard(calls[k].made) /\ Refreshed
       \/ At(k, "refused") /\ error' = TRUE /\ UNCHANGED <<isLoading, loads, told>>
    /\ calls' = [calls EXCEPT ![k] = None]
    /\ UNCHANGED <<server, lists, overtaken>>

\* Another user asks or accepts, which is announced if there is a socket, or
\* refuses or removes, which is not.
Elsewhere ==
    /\ relations < MaxVersion /\ relations' = relations + 1
    /\ news' \in {news, news \cup {relations'}}
    /\ UNCHANGED <<lists, isLoading, error, loads, calls, told, overtaken>>

FriendsTabNext ==
    \/ Pull \/ Elsewhere \/ \E version \in 1..MaxVersion : Receive(version)
    \/ \E l \in Load : Arrive(l) \/ \E list \in List : Read(l, list)
    \/ \E k \in Call : Press(k) \/ Serve(k) \/ Answered(k)

FriendsTabSpec == FriendsTabInit /\ [][FriendsTabNext]_friendsTabVars

-----------------------------------------------------------------------------
\* At rest both lists show what the user did or was told of, however calls, events
\* and loads cross, unless a message says otherwise or an older load came last.
\* (use-friends.ts, "Rafraîchit automatiquement à la réception d'un événement
\* temps réel"; its four calls)
AtRest ==
    /\ news = {}
    /\ \A l \in Load : loads[l] = None
    /\ \A k \in Call : calls[k] = None
ListsAreWhatWasTold ==
    AtRest => error \/ overtaken \/ \A list \in List : lists[list] >= told
=============================================================================
