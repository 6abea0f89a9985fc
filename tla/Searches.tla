-------------------------------- MODULE Searches --------------------------------
(***************************************************************************)
(* The two searches of the application: of an activity to propose in a     *)
(* group, asked by a button, which numbers its requests and drops the      *)
(* answer of all but the latest; and of people by pseudo, asked 300 ms     *)
(* after the last key, which shows every answer that comes.  An answer is  *)
(* known by the text it answers.                                           *)
(***************************************************************************)
EXTENDS Naturals

CONSTANTS
    Query,          \* texts; "" is among them
    MaxSearches,    \* bound: requests on their way at one time
    None            \* no request

VARIABLES
    kind,           \* "picker" or "people"
    field,          \* the text in the field
    found,          \* the texts that what is listed answers
    more,           \* whether the picker has a page more
    searching, open, timer,     \* spinner; the picker; the 300 ms are running
    searches,       \* the requests, or None
    overtaken       \* history: an answer came after what replaced its request

searchesVars == <<kind, field, found, more, searching, open, timer, searches, overtaken>>

Search == 1..MaxSearches
Unused == {s \in Search : searches[s] = None}

SearchesInit ==
    /\ kind \in {"picker", "people"} /\ field = "" /\ found = {} /\ more = FALSE
    /\ searching = FALSE /\ open = FALSE /\ timer = (kind = "people")
    /\ searches = [s \in Search |-> None] /\ overtaken = FALSE

\* "++searchRevision": what is on its way is no longer the latest.
Superseded ==
    [s \in Search |-> IF searches[s] = None THEN None
                      ELSE [searches[s] EXCEPT !.latest = FALSE]]

Send(next) ==
    /\ Unused # {}
    /\ LET s == CHOOSE x \in Unused : \A y \in Unused : x <= y
       IN searches' = [Superseded EXCEPT ![s] =
                         [text |-> field, next |-> next, latest |-> TRUE]]
    /\ searching' = TRUE

\* "Proposer une activité", "Rechercher" and the key of the keyboard; and the
\* next page, whose button waits.
Ask(next) ==
    /\ kind = "picker" /\ (next => open /\ more /\ ~searching)
    /\ Send(next) /\ open' = TRUE
    /\ UNCHANGED <<kind, field, found, more, timer, overtaken>>

\* Fault: what is on its way stays the latest.
Kept == searches

\* Typing: the picker forgets what it listed and waits for the button, the
\* search of people starts its timer again.
Dropped == IF kind = "picker" THEN Superseded ELSE searches
Type(text) ==
    /\ field' = text /\ text # field
    /\ searches' = Dropped
    /\ IF kind = "picker"
       THEN /\ open /\ found' = {} /\ more' = FALSE /\ searching' = FALSE
            /\ UNCHANGED timer
       ELSE timer' = TRUE /\ UNCHANGED <<found, more, searching>>
    /\ UNCHANGED <<kind, open, overtaken>>

\* The picker closes by its button, or after a proposal, which empties it too.
Close(proposed) ==
    /\ kind = "picker" /\ open
    /\ searches' = Superseded /\ open' = FALSE
    /\ IF proposed THEN found' = {} /\ UNCHANGED searching
                   ELSE searching' = FALSE /\ UNCHANGED found
    /\ UNCHANGED <<kind, field, more, timer, overtaken>>

\* run, 300 ms after the last key: nothing to search for empties the list.
Run ==
    /\ timer /\ timer' = FALSE
    /\ IF field = ""
       THEN found' = {} /\ searching' = FALSE /\ searches' = Superseded
       ELSE Send(FALSE) /\ UNCHANGED found
    /\ UNCHANGED <<kind, field, more, open, overtaken>>

\* An answer to the latest request, or one that nothing checks.  A failure
\* empties the list of people and leaves that of the picker.
Show(s) ==
    /\ searching' = FALSE
    /\ \/ /\ found' = (IF searches[s].next THEN found ELSE {}) \cup {searches[s].text}
          /\ more' \in IF kind = "picker" THEN BOOLEAN ELSE {FALSE}
       \/ /\ found' = (IF kind = "people" THEN {} ELSE found)
          /\ UNCHANGED more

Arrive(s) ==
    /\ searches[s] # None /\ searches' = [searches EXCEPT ![s] = None]
    /\ IF kind = "people" \/ searches[s].latest THEN Show(s)
       ELSE UNCHANGED <<found, more, searching>>
    /\ overtaken' = (overtaken \/ (kind = "people" /\ ~searches[s].latest))
    /\ UNCHANGED <<kind, field, open, timer>>

SearchesNext ==
    \/ \E next \in BOOLEAN : Ask(next)
    \/ \E text \in Query : Type(text)
    \/ \E proposed \in BOOLEAN : Close(proposed)
    \/ Run \/ \E s \in Search : Arrive(s)

SearchesSpec == SearchesInit /\ [][SearchesNext]_searchesVars

-----------------------------------------------------------------------------
\* The picker lists what answers the text in its field, at any time.  The search
\* of people does once it is at rest, unless an answer came after the search
\* that replaced it: nothing orders those.
\* (group-activities.tsx "Ignore old searches"; use-user-search.ts "la requête ne
\* part que 300 ms après la dernière frappe")
ListAnswersField ==
    \/ kind = "picker" /\ found \subseteq {field}
    \/ /\ kind = "people"
       /\ (~timer /\ searches = [s \in Search |-> None] /\ ~overtaken) => found \subseteq {field}
=============================================================================
