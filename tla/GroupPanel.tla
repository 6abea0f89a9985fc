------------------------------- MODULE GroupPanel -------------------------------
(***************************************************************************)
(* The activities proposed in a group, as one member sees them: a list     *)
(* that is loaded on every focus, realtime event and change, a page at a   *)
(* time.  It numbers its requests and drops the answer of all but the      *)
(* latest; here a request carries whether it is.  The picker of what to    *)
(* propose is in Searches, and the server in Groups: a version stands for  *)
(* its proposals.                                                          *)
(***************************************************************************)
EXTENDS Naturals

CONSTANTS
    MaxRequests,    \* bound: requests on their way at one time
    MaxVersion,     \* bound: changes of the proposals
    None            \* no request

VARIABLES
    proposals,  \* the server: the version of the proposals
    panel,      \* the list: [conversation, asOf, hasMore, loading, error, focused]
    requests,   \* its requests
    change,     \* the proposal or withdrawal on its way
    confirmed   \* history: the version of the last change that was answered

groupPanelVars == <<proposals, panel, requests, change, confirmed>>

Request == 1..MaxRequests

NoChange == [step |-> "none", made |-> 0]

GroupPanelInit ==
    /\ proposals = 0 /\ confirmed = 0
    /\ panel = [conversation |-> FALSE, asOf |-> 0, hasMore |-> FALSE,
                loading |-> TRUE, error |-> FALSE, focused |-> FALSE]
    /\ requests = [r \in Request |-> None] /\ change = NoChange

\* Fault: no answer is too late.
Always(request) == TRUE

Accepted(request) == request.current

\* "++revision": what is on its way is no longer current.
Superseded(all) ==
    [r \in DOMAIN all |-> IF all[r] = None THEN None ELSE [all[r] EXCEPT !.current = FALSE]]

Unused(all) == {r \in DOMAIN all : all[r] = None}

\* The requests after one more, which is the current one.
Sent(all, request) ==
    LET r == CHOOSE x \in Unused(all) : \A y \in Unused(all) : x <= y
    IN [Superseded(all) EXCEPT ![r] = request]

Ask(kind, afterChange) ==
    [kind |-> kind, current |-> TRUE, last |-> afterChange, answer |-> None]

OnItsWay(request) == request # None /\ request.answer # None
Answering(all, r, answer) == [all EXCEPT ![r].answer = answer]
Failed == [failed |-> TRUE]

-----------------------------------------------------------------------------
\* The list.

\* refresh: from the buttons, and from the event, whether or not it has focus.
Refresh ==
    /\ Unused(requests) # {}
    /\ requests' = Sent(requests, Ask("refresh", FALSE))
    /\ panel' = [panel EXCEPT !.loading = TRUE]
    /\ UNCHANGED <<proposals, change, confirmed>>

Focus ==
    /\ ~panel.focused /\ Unused(requests) # {}
    /\ requests' = Sent(requests, Ask("refresh", FALSE))
    /\ panel' = [panel EXCEPT !.loading = TRUE, !.focused = TRUE]
    /\ UNCHANGED <<proposals, change, confirmed>>

Blur ==
    /\ panel.focused /\ panel' = [panel EXCEPT !.focused = FALSE]
    /\ requests' = Superseded(requests)
    /\ UNCHANGED <<proposals, change, confirmed>>

Visible == panel.focused /\ panel.conversation

LoadMore ==
    /\ Visible /\ ~panel.loading /\ panel.hasMore /\ Unused(requests) # {}
    /\ requests' = Sent(requests, Ask("more", FALSE))
    /\ panel' = [panel EXCEPT !.loading = TRUE]
    /\ UNCHANGED <<proposals, change, confirmed>>

\* The details of the conversation, then a page of its proposals; or a failure,
\* as for a member who no longer is one.
Read(r) ==
    /\ requests[r] # None /\ requests[r].answer = None
    /\ \E answer \in {Failed} \cup {[asOf |-> proposals, hasMore |-> b] : b \in BOOLEAN} :
         requests' = Answering(requests, r, answer)
    /\ UNCHANGED <<proposals, panel, change, confirmed>>

\* A failed refresh empties the panel; a page more only adds rows.
After(request) ==
    IF request.answer = Failed
    THEN IF request.kind = "refresh"
         THEN [panel EXCEPT !.conversation = FALSE, !.hasMore = FALSE,
                            !.error = TRUE, !.loading = FALSE]
         ELSE [panel EXCEPT !.error = TRUE, !.loading = FALSE]
    ELSE [panel EXCEPT !.conversation = TRUE, !.hasMore = request.answer.hasMore,
                       !.error = FALSE, !.loading = FALSE,
                       !.asOf = IF request.kind = "refresh" THEN request.answer.asOf ELSE @]

\* An answer, and the end of the change that waited for it.
Arrive(r) ==
    /\ OnItsWay(requests[r])
    /\ requests' = [requests EXCEPT ![r] = None]
    /\ panel' = IF Accepted(requests[r]) THEN After(requests[r]) ELSE panel
    /\ change' = IF requests[r].last THEN NoChange ELSE change
    /\ UNCHANGED <<proposals, confirmed>>

-----------------------------------------------------------------------------
\* Changes: one at a time, "mutating".

Change ==
    /\ Visible /\ change = NoChange
    /\ change' = [step |-> "posted", made |-> 0]
    /\ panel' = [panel EXCEPT !.error = FALSE]
    /\ UNCHANGED <<proposals, requests, confirmed>>

\* Done, done but its answer lost, or not done; others change the list too.
Apply ==
    /\ change.step = "posted"
    /\ \/ /\ proposals < MaxVersion /\ proposals' = proposals + 1
          /\ \E step \in {"stored", "refused"} :
               change' = [change EXCEPT !.step = step, !.made = proposals']
       \/ change' = [change EXCEPT !.step = "refused"] /\ UNCHANGED proposals
    /\ UNCHANGED <<panel, requests, confirmed>>

OthersChange ==
    /\ proposals < MaxVersion /\ proposals' = proposals + 1
    /\ UNCHANGED <<panel, requests, change, confirmed>>

\* A success is followed by a refresh, which is not tried again when it is
\* superseded; a failure by a message.
ChangeAnswered ==
    /\ \/ /\ change.step = "stored" /\ Unused(requests) # {}
          /\ requests' = Sent(requests, Ask("refresh", TRUE))
          /\ panel' = [panel EXCEPT !.loading = TRUE]
          /\ change' = [change EXCEPT !.step = "refreshing"]
          /\ confirmed' = change.made
       \/ /\ change.step = "refused"
          /\ panel' = [panel EXCEPT !.error = TRUE] /\ change' = NoChange
          /\ UNCHANGED <<requests, confirmed>>
    /\ UNCHANGED <<proposals>>

GroupPanelNext ==
    \/ Refresh \/ Focus \/ Blur \/ LoadMore \/ Change \/ Apply \/ OthersChange \/ ChangeAnswered
    \/ \E r \in Request : Read(r) \/ Arrive(r)

GroupPanelSpec == GroupPanelInit /\ [][GroupPanelNext]_groupPanelVars

-----------------------------------------------------------------------------
\* A panel at rest shows the change its member was last told of, or an error,
\* although the refresh that followed it may have been superseded.
\* (use-group-activities.ts, change and "current !== revision.current")
AtRest == panel.focused /\ change = NoChange /\ \A r \in Request : requests[r] = None
ConfirmedIsShown == AtRest => panel.error \/ panel.asOf >= confirmed

\* The list never goes back to an earlier state of the proposals.
\* (use-group-activities.ts, the revision)
PanelMovesForward == panel'.asOf >= panel.asOf
=============================================================================
