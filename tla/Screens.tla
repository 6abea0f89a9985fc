--------------------------------- MODULE Screens ---------------------------------
(***************************************************************************)
(* The establishments' server and the client's screens, side by side: a    *)
(* behaviour is of one scene, and leaves the variables of the others       *)
(* alone.                                                                  *)
(***************************************************************************)
EXTENDS Naturals

CONSTANTS
    None,
    MaxRequests, EstablishmentCalls,                    \* Establishments
    Admins, Place, Label, FirstLabel,
    Device, Offered, MaxRows,                           \* EstablishmentForm
    Text,                                               \* ActivityForm
    Slot, Stars, MaxPresses, MaxChanges,                \* ActivityPage
    Entry, MaxLoads,                                    \* PlanningTab
    MaxPanelRequests, MaxVersion,                       \* GroupPanel
    Query, MaxSearches,                                 \* Searches
    Position, MaxRuns,                                  \* Nearby
    Conversation,                                       \* ConversationList
    MaxCalls,                                           \* FriendsTab
    Content, MaxPosts                                   \* AccountForms

VARIABLES
    scene,
    establishments, attached, ign, served, call, pc, reply, place,
    form, sent, row, rows,
    mode, detail, establishment, values, failure, save, removal, at, activity, typed, applied,
    entries, room, clock, page, slots, slotsLoad, booking, press, busy, rating, made, said,
    stored, deleted, version, shown, isLoading, error, load, removing, crossed,
    proposals, panel, requests, change, confirmed,
    kind, field, found, more, searching, open, timer, searches, overtaken,
    position, isLocating, runs, watching, focused, around, failed, isFetching, loads, mixed,
    listed, gone, listVersion, listNews, conversations, listLoading, listError, listLoads,
    deletions, listTold, listOvertaken,
    relations, news, lists, friendsLoading, friendsError, friendsLoads, calls, told,
    friendsOvertaken,
    purpose, filled, problem, sending, success, posts, accounts, link, did, unheard

ER == INSTANCE Establishments WITH Calls <- EstablishmentCalls
EF == INSTANCE EstablishmentForm WITH Address <- Offered
AF == INSTANCE ActivityForm
AP == INSTANCE ActivityPage
PT == INSTANCE PlanningTab
GP == INSTANCE GroupPanel WITH MaxRequests <- MaxPanelRequests
SE == INSTANCE Searches
NE == INSTANCE Nearby
CL == INSTANCE ConversationList WITH
        version <- listVersion, news <- listNews, shown <- conversations,
        isLoading <- listLoading, error <- listError, load <- listLoads,
        removal <- deletions, told <- listTold, overtaken <- listOvertaken
FT == INSTANCE FriendsTab WITH
        isLoading <- friendsLoading, error <- friendsError, loads <- friendsLoads,
        overtaken <- friendsOvertaken
AC == INSTANCE AccountForms

-----------------------------------------------------------------------------
\* What stands beside None: the rows and the answers of the server, a press of "Réserver", and the
\* requests of a panel, a search, the list of activities, the list of conversations and
\* that of friends.
Account == {c.by : c \in EstablishmentCalls}
EstablishmentRow == [owner : Account, address : ER!Address]
Reply ==
    {"OK", "ESTABLISHMENT_EXISTS", "NOT_FOUND", "FORBIDDEN", "ADDRESS_NOT_FOUND",
     "GEOPLATFORM_UNAVAILABLE", "ESTABLISHMENT_REQUIRED", "FAILED"}
PressRecord ==
    [slot : Slot \cup {None}, ok : BOOLEAN,
     step : {"posted", "stored", "failed", "planning", "slots", "done"}]
PanelRequest ==
    [kind : {"refresh", "more"}, current : BOOLEAN, last : BOOLEAN,
     answer : {None, GP!Failed} \cup [asOf : Nat, hasMore : BOOLEAN]]
SearchRequest == [text : Query \cup {""}, next : BOOLEAN, latest : BOOLEAN]
NearbyLoad == [center : Position, latest : BOOLEAN]
ListAnswer == [is : {"answered"}, rows : SUBSET Conversation, asOf : Nat]
ListLoad == {CL!Asked, CL!Failed} \cup ListAnswer
Deletion == [step : {"question", "asked", "done", "failed"}, previous : ListAnswer]
FriendsLoad == [FT!List -> Nat \cup {None}] \cup {FT!Failed}
FriendsCall == [step : {"asked", "done", "refused"}, made : Nat]

ASSUME NoneAssumption ==
    /\ None \notin EstablishmentCalls /\ None \notin EstablishmentRow
    /\ None \notin Reply /\ None \notin Nat
    /\ None \notin PressRecord /\ None \notin PanelRequest /\ None \notin SearchRequest /\ None \notin NearbyLoad
    /\ None \notin ListLoad /\ None \notin Deletion
    /\ None \notin FriendsLoad /\ None \notin FriendsCall

ASSUME BoundsAssumption ==
    {MaxRequests, MaxPresses, MaxPanelRequests, MaxSearches} \subseteq Nat

ASSUME CallsAssumption ==
    \A c \in EstablishmentCalls :
        /\ c.op \in {"create", "update", "delete", "activity"}
        /\ c.op \in {"update", "delete"} => c.row \in 1..MaxRequests
ASSUME LabelAssumption == FirstLabel \in [Place -> Label]

-----------------------------------------------------------------------------
\* The variables of a scene that is not played.
NoER ==
    /\ establishments = 0 /\ attached = 0 /\ ign = 0 /\ served = 0
    /\ call = 0 /\ pc = 0 /\ reply = 0 /\ place = 0
NoEF == form = 0 /\ sent = 0 /\ row = 0 /\ rows = 0
NoAF ==
    /\ mode = 0 /\ detail = 0 /\ establishment = 0 /\ values = 0 /\ failure = 0
    /\ save = 0 /\ removal = 0 /\ at = 0 /\ activity = 0 /\ typed = 0 /\ applied = 0
NoAP ==
    /\ entries = 0 /\ room = 0 /\ clock = 0 /\ page = 0 /\ slots = 0 /\ slotsLoad = 0
    /\ booking = 0 /\ press = 0 /\ busy = 0 /\ rating = 0 /\ made = 0 /\ said = 0
NoPT ==
    /\ stored = 0 /\ deleted = 0 /\ version = 0 /\ shown = 0 /\ isLoading = 0
    /\ error = 0 /\ load = 0 /\ removing = 0 /\ crossed = 0
NoGP == proposals = 0 /\ panel = 0 /\ requests = 0 /\ change = 0 /\ confirmed = 0
NoSE ==
    /\ kind = 0 /\ field = 0 /\ found = 0 /\ more = 0 /\ searching = 0 /\ open = 0
    /\ timer = 0 /\ searches = 0 /\ overtaken = 0
NoNE ==
    /\ position = 0 /\ isLocating = 0 /\ runs = 0 /\ watching = 0 /\ focused = 0
    /\ around = 0 /\ failed = 0 /\ isFetching = 0 /\ loads = 0 /\ mixed = 0
NoCL ==
    /\ listed = 0 /\ gone = 0 /\ listVersion = 0 /\ listNews = 0 /\ conversations = 0
    /\ listLoading = 0 /\ listError = 0 /\ listLoads = 0 /\ deletions = 0
    /\ listTold = 0 /\ listOvertaken = 0
NoFT ==
    /\ relations = 0 /\ news = 0 /\ lists = 0 /\ friendsLoading = 0 /\ friendsError = 0
    /\ friendsLoads = 0 /\ calls = 0 /\ told = 0 /\ friendsOvertaken = 0
NoAC ==
    /\ purpose = 0 /\ filled = 0 /\ problem = 0 /\ sending = 0 /\ success = 0
    /\ posts = 0 /\ accounts = 0 /\ link = 0 /\ did = 0 /\ unheard = 0

\* Bound: the user has no conversation at first.
Init ==
    \/ /\ scene = "establishments" /\ ER!Init
       /\ NoEF /\ NoAF /\ NoAP /\ NoPT /\ NoGP /\ NoSE /\ NoNE /\ NoCL /\ NoFT /\ NoAC
    \/ /\ scene = "establishment form" /\ EF!FormInit
       /\ NoER /\ NoAF /\ NoAP /\ NoPT /\ NoGP /\ NoSE /\ NoNE /\ NoCL /\ NoFT /\ NoAC
    \/ /\ scene = "activity form" /\ AF!ActivityFormInit
       /\ NoER /\ NoEF /\ NoAP /\ NoPT /\ NoGP /\ NoSE /\ NoNE /\ NoCL /\ NoFT /\ NoAC
    \/ /\ scene = "activity page" /\ AP!ActivityPageInit
       /\ NoER /\ NoEF /\ NoAF /\ NoPT /\ NoGP /\ NoSE /\ NoNE /\ NoCL /\ NoFT /\ NoAC
    \/ /\ scene = "planning tab" /\ PT!PlanningTabInit
       /\ NoER /\ NoEF /\ NoAF /\ NoAP /\ NoGP /\ NoSE /\ NoNE /\ NoCL /\ NoFT /\ NoAC
    \/ /\ scene = "group panel" /\ GP!GroupPanelInit
       /\ NoER /\ NoEF /\ NoAF /\ NoAP /\ NoPT /\ NoSE /\ NoNE /\ NoCL /\ NoFT /\ NoAC
    \/ /\ scene = "searches" /\ SE!SearchesInit
       /\ NoER /\ NoEF /\ NoAF /\ NoAP /\ NoPT /\ NoGP /\ NoNE /\ NoCL /\ NoFT /\ NoAC
    \/ /\ scene = "nearby" /\ NE!NearbyInit
       /\ NoER /\ NoEF /\ NoAF /\ NoAP /\ NoPT /\ NoGP /\ NoSE /\ NoCL /\ NoFT /\ NoAC
    \/ /\ scene = "conversations" /\ CL!ConversationListInit /\ listed = {}
       /\ NoER /\ NoEF /\ NoAF /\ NoAP /\ NoPT /\ NoGP /\ NoSE /\ NoNE /\ NoFT /\ NoAC
    \/ /\ scene = "friends" /\ FT!FriendsTabInit
       /\ NoER /\ NoEF /\ NoAF /\ NoAP /\ NoPT /\ NoGP /\ NoSE /\ NoNE /\ NoCL /\ NoAC
    \/ /\ scene = "account forms" /\ AC!AccountFormInit
       /\ NoER /\ NoEF /\ NoAF /\ NoAP /\ NoPT /\ NoGP /\ NoSE /\ NoNE /\ NoCL /\ NoFT

er == <<establishments, attached, ign, served, call, pc, reply, place>>
ef == <<form, sent, row, rows>>
af == <<mode, detail, establishment, values, failure, save, removal, at, activity, typed, applied>>
ap == <<entries, room, clock, page, slots, slotsLoad, booking, press, busy, rating, made, said>>
pt == <<stored, deleted, version, shown, isLoading, error, load, removing, crossed>>
gp == <<proposals, panel, requests, change, confirmed>>
se == <<kind, field, found, more, searching, open, timer, searches, overtaken>>
ne == <<position, isLocating, runs, watching, focused, around, failed, isFetching, loads, mixed>>
cl == <<listed, gone, listVersion, listNews, conversations, listLoading, listError, listLoads,
        deletions, listTold, listOvertaken>>
ft == <<relations, news, lists, friendsLoading, friendsError, friendsLoads, calls, told,
        friendsOvertaken>>
ac == <<purpose, filled, problem, sending, success, posts, accounts, link, did, unheard>>
vars == <<scene, er, ef, af, ap, pt, gp, se, ne, cl, ft, ac>>

Next ==
    \/ scene = "establishments" /\ ER!Next
       /\ UNCHANGED <<scene, ef, af, ap, pt, gp, se, ne, cl, ft, ac>>
    \/ scene = "establishment form" /\ EF!FormNext
       /\ UNCHANGED <<scene, er, af, ap, pt, gp, se, ne, cl, ft, ac>>
    \/ scene = "activity form" /\ AF!ActivityFormNext
       /\ UNCHANGED <<scene, er, ef, ap, pt, gp, se, ne, cl, ft, ac>>
    \/ scene = "activity page" /\ AP!ActivityPageNext
       /\ UNCHANGED <<scene, er, ef, af, pt, gp, se, ne, cl, ft, ac>>
    \/ scene = "planning tab" /\ PT!PlanningTabNext
       /\ UNCHANGED <<scene, er, ef, af, ap, gp, se, ne, cl, ft, ac>>
    \/ scene = "group panel" /\ GP!GroupPanelNext
       /\ UNCHANGED <<scene, er, ef, af, ap, pt, se, ne, cl, ft, ac>>
    \/ scene = "searches" /\ SE!SearchesNext
       /\ UNCHANGED <<scene, er, ef, af, ap, pt, gp, ne, cl, ft, ac>>
    \/ scene = "nearby" /\ NE!NearbyNext
       /\ UNCHANGED <<scene, er, ef, af, ap, pt, gp, se, cl, ft, ac>>
    \/ scene = "conversations" /\ CL!ConversationListNext
       /\ UNCHANGED <<scene, er, ef, af, ap, pt, gp, se, ne, ft, ac>>
    \/ scene = "friends" /\ FT!FriendsTabNext
       /\ UNCHANGED <<scene, er, ef, af, ap, pt, gp, se, ne, cl, ac>>
    \/ scene = "account forms" /\ AC!AccountFormNext
       /\ UNCHANGED <<scene, er, ef, af, ap, pt, gp, se, ne, cl, ft>>

Spec == Init /\ [][Next]_vars

-----------------------------------------------------------------------------
\* One establishment by organizer, activities attached to their organizer's, and
\* every address stored one that the geocoder gave.
\* (Establishments: establishment.service.ts, ign-geocoding.ts resolveAddress)
EstablishmentsConsistent ==
    scene = "establishments" => ER!Consistent /\ ER!AddressesWereServed

\* An address changes only for who chose it on a form.
\* (EstablishmentForm: use-establishment-form.ts submit)
AddressChangesByChoice ==
    [][scene = "establishment form" => EF!AddressChangesByChoice]_vars

\* Late loads do not write over what the user typed.
\* (ActivityForm: use-activity-form.ts, the effect)
TypedIsKept == scene = "activity form" => AF!TypedIsKept

\* A screen says that something is done only when the server has done it: the
\* form of an activity leaves for the list, the page says "Réservé !", the forms of
\* an account give way to their success screen.
\* (ActivityForm, ActivityPage, AccountForms: activity-form-view.tsx,
\* activity/[id].tsx, use-register-form.ts, use-reset-password-form.ts)
SaysDoneWhenDone ==
    [][/\ scene = "activity form" => AF!LeavesWhenDone
       /\ scene = "activity page" => AP!AnnouncedWasBooked
       /\ scene = "account forms" => AC!SaidIsDone]_vars

\* What a screen shows does not go back to an earlier answer of the server.
\* (ActivityPage, PlanningTab, GroupPanel: the guards of their three hooks)
ShownMovesForward ==
    [][/\ scene = "activity page" => AP!SlotsMoveForward
       /\ scene = "planning tab" => PT!ListMovesForward
       /\ scene = "group panel" => GP!PanelMovesForward]_vars

\* A screen at rest shows what was confirmed: a group panel its last change, a form
\* of an account that one of its submissions succeeded.
\* (GroupPanel, AccountForms: use-group-activities.ts change and refresh; submit
\* of the three hooks)
ConfirmedIsShown ==
    /\ scene = "group panel" => GP!ConfirmedIsShown
    /\ scene = "account forms" => AC!DoneIsSaid

\* A list at rest answers the screen it is on: a search the text in its field, the
\* list of activities the position, conversations and friends what the user did or
\* was told of.
\* (Searches, Nearby, ConversationList, FriendsTab: group-activities.tsx search,
\* use-user-search.ts, use-activities.ts, use-conversations.ts, use-friends.ts)
ListsAnswerScreen ==
    /\ scene = "searches" => SE!ListAnswersField
    /\ scene = "nearby" => NE!ListFollowsPosition
    /\ scene = "conversations" => CL!ListIsWhatWasTold
    /\ scene = "friends" => FT!ListsAreWhatWasTold
=============================================================================
