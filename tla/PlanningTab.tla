------------------------------ MODULE PlanningTab ------------------------------
(***************************************************************************)
(* The planning tab: the list of a user's entries, which a pull or the     *)
(* button of the error screen loads again, and from which a confirmed      *)
(* removal takes an entry once the server has deleted it.  Entries come    *)
(* and go elsewhere too: another page, another device, a deleted activity. *)
(***************************************************************************)
EXTENDS Naturals

CONSTANTS
    Entry,
    MaxChanges, \* bound: changes made elsewhere
    MaxLoads,   \* bound: loads that are on their way at one time
    None        \* no request

VARIABLES
    stored, deleted,    \* the server: the entries it has, and those it has had
    version,            \* and a count of its changes
    shown,              \* the list: its rows, and the version it was read at
    isLoading, error,   \* the spinner; the error screen in the list's place
    load, removing,      \* requests: by number, by entry
    crossed             \* history: a removal has failed while a load was out

screen == <<shown, isLoading, error>>
server == <<stored, deleted, version>>
planningTabVars == <<server, screen, load, removing, crossed>>

Load == 1..MaxLoads

Asked == [is |-> "asked"]
Failed == [is |-> "failed"]
Answer(rows, asOf) == [is |-> "answered", rows |-> rows, asOf |-> asOf]
OnItsWay(request) == request # None /\ request # Asked

PlanningTabInit ==
    /\ stored \in SUBSET Entry /\ deleted = {} /\ version = 0
    /\ shown = Answer({}, 0) /\ isLoading = TRUE /\ error = FALSE
    /\ load = [l \in Load |-> IF l = 1 THEN Asked ELSE None]
    /\ removing = [e \in Entry |-> None]
    /\ crossed = FALSE

\* Fault: the list can be pulled whether or not it is loading.
AtAnyTime == TRUE

\* A list that shows its spinner cannot be pulled; the error screen has a button.
MayRefresh == error \/ ~isLoading

\* fetchPlanning.
Refresh(l) ==
    /\ MayRefresh
    /\ load[l] = None /\ load' = [load EXCEPT ![l] = Asked]
    /\ isLoading' = TRUE /\ error' = FALSE
    /\ UNCHANGED <<server, shown, removing, crossed>>

\* listPlanning.
Read(l) ==
    /\ load[l] = Asked
    /\ \E answer \in {Answer(stored, version), Failed} :
         load' = [load EXCEPT ![l] = answer]
    /\ UNCHANGED <<server, screen, removing, crossed>>

Arrive(l) ==
    /\ OnItsWay(load[l]) /\ load' = [load EXCEPT ![l] = None]
    /\ isLoading' = FALSE
    /\ IF load[l] = Failed THEN error' = TRUE /\ UNCHANGED shown
                           ELSE shown' = load[l] /\ UNCHANGED error
    /\ UNCHANGED <<server, removing, crossed>>

\* handleRemove, confirmed, and removeEntry; whether or not the list is loading, and
\* over the error screen too, which may come while the dialog asks.
\* Bound: one removal of an entry is on its way.
Remove(e) ==
    /\ e \in shown.rows /\ removing[e] = None
    /\ removing' = [removing EXCEPT ![e] = Asked]
    /\ error' = FALSE
    /\ UNCHANGED <<server, shown, isLoading, load, crossed>>

Discard(e) ==
    stored' = stored \ {e} /\ deleted' = deleted \cup {e} /\ version' = version + 1

\* removeFromPlanning: deleted, its answer lost, or neither.
Delete(e) ==
    /\ removing[e] = Asked
    /\ \/ /\ e \in stored /\ Discard(e)
          /\ \E answer \in {Answer({}, version'), Failed} :
               removing' = [removing EXCEPT ![e] = answer]
       \/ /\ removing' = [removing EXCEPT ![e] = Failed]
          /\ UNCHANGED server
    /\ UNCHANGED <<screen, load, crossed>>

\* The row leaves the list as it is by then, which keeps the rest of its answer.
Removed(e) ==
    /\ OnItsWay(removing[e]) /\ removing' = [removing EXCEPT ![e] = None]
    /\ IF removing[e] = Failed
       THEN /\ error' = TRUE /\ UNCHANGED shown
            /\ crossed' = (crossed \/ \E l \in Load : load[l] # None)
       ELSE shown' = [shown EXCEPT !.rows = @ \ {e}] /\ UNCHANGED <<error, crossed>>
    /\ UNCHANGED <<server, isLoading, load>>

Elsewhere(e) ==
    /\ version < MaxChanges
    /\ \/ e \in stored /\ Discard(e)
       \/ /\ e \notin stored \cup deleted /\ stored' = stored \cup {e}
          /\ version' = version + 1 /\ UNCHANGED deleted
    /\ UNCHANGED <<screen, load, removing, crossed>>

PlanningTabNext ==
    \/ \E l \in Load : Refresh(l) \/ Read(l) \/ Arrive(l)
    \/ \E e \in Entry : Remove(e) \/ Delete(e) \/ Removed(e) \/ Elsewhere(e)

PlanningTabSpec == PlanningTabInit /\ [][PlanningTabNext]_planningTabVars

-----------------------------------------------------------------------------
\* The list never goes back to an earlier answer, unless a removal failed while a
\* list was on its way: its error screen offers a load more, and nothing orders
\* the two.  Nor does a removal take a row that the server still has.
\* (planning.tsx, "refreshing={isLoading}"; use-planning.ts removeEntry)
ListMovesForward ==
    /\ shown'.asOf >= shown.asOf \/ crossed
    /\ removing' # removing => \A e \in shown.rows \ shown'.rows : e \in deleted
=============================================================================
