--------------------------------- MODULE Nearby ---------------------------------
(***************************************************************************)
(* The activities around the user, on the home and map tabs: the position, *)
(* found in up to two steps and followed afterwards, and the list loaded   *)
(* around it on every focus and whenever the position is set.  Nothing     *)
(* orders the answers.  A list is known by the position it is around.      *)
(***************************************************************************)
EXTENDS Naturals

CONSTANTS
    Position,
    MaxRuns, MaxLoads,  \* bounds: searches of the position, loads, at one time
    None                \* no position, an empty list, no request

VARIABLES
    position, isLocating,   \* useUserLocation
    runs,                   \* its refreshes on their way
    watching,               \* the subscription
    focused,
    around, failed, isFetching,   \* useNearbyActivities: the position of its list
    loads,                  \* its requests
    mixed                 \* history: see the property

listVars == <<around, failed, isFetching, loads, mixed>>
nearbyVars == <<position, isLocating, runs, watching, focused, listVars>>

Run == 1..MaxRuns
Load == 1..MaxLoads

NearbyInit ==
    /\ position = None /\ isLocating = TRUE /\ watching = FALSE /\ focused = TRUE
    /\ runs = [r \in Run |-> IF r = 1 THEN [step |-> "asked", seen |-> FALSE,
                                            then |-> "watch", center |-> None] ELSE None]
    /\ around = None /\ failed = FALSE /\ isFetching = FALSE
    /\ loads = [l \in Load |-> None] /\ mixed = FALSE

Superseded ==
    [l \in Load |-> IF loads[l] = None THEN None ELSE [loads[l] EXCEPT !.latest = FALSE]]

\* fetchActivities around a center; without one the list is emptied on the spot.
Fetch(center) ==
    IF center = None
    THEN /\ around' = None /\ failed' = FALSE /\ isFetching' = FALSE
         /\ loads' = Superseded
    ELSE /\ \E l \in Load :
              /\ loads[l] = None /\ \A k \in Load : k < l => loads[k] # None
              /\ loads' = [Superseded EXCEPT ![l] = [center |-> center, latest |-> TRUE]]
         /\ isFetching' = TRUE /\ failed' = FALSE /\ UNCHANGED around

\* setState with a position, or with none.  Every position is a new object, for
\* which the effect of the focused screen loads the list again; that of a screen
\* without focus waits for it.
SetPosition(p) ==
    /\ position' = p /\ isLocating' = FALSE
    /\ IF focused /\ ~(p = None /\ position = None)
       THEN Fetch(p) /\ UNCHANGED mixed ELSE UNCHANGED listVars

-----------------------------------------------------------------------------
\* useUserLocation.

\* refresh, which the mount makes ("watch" follows), the pull of a list that is
\* not loading ("refetch", of the center the screen had then), and the button of
\* a map without position.
Begin(then) ==
    /\ ~isLocating /\ IF then = "refetch" THEN ~isFetching ELSE position = None
    /\ \E r \in Run :
         /\ runs[r] = None
         /\ runs' = [runs EXCEPT ![r] = [step |-> "asked", seen |-> FALSE,
                                         then |-> then, center |-> position]]
    /\ isLocating' = TRUE
    /\ UNCHANGED <<position, watching, focused, listVars>>

At(r, step) == runs[r] # None /\ runs[r].step = step
Goto(r, step) == runs' = [runs EXCEPT ![r].step = step]

\* The GPS is off or refused; or there is a recent position, or none.
FindLast(r) ==
    /\ At(r, "asked")
    /\ \/ SetPosition(None) /\ Goto(r, "ended")
       \/ \E p \in Position :
            /\ SetPosition(p)
            /\ runs' = [runs EXCEPT ![r].step = "current", ![r].seen = TRUE]
       \/ Goto(r, "current") /\ UNCHANGED <<position, isLocating, listVars>>
    /\ UNCHANGED <<watching, focused>>

\* getCurrentPositionWithTimeout: a failure keeps the recent position of this
\* run, and erases any other.
FindCurrent(r) ==
    /\ At(r, "current") /\ Goto(r, "ended")
    /\ \/ \E p \in Position : SetPosition(p)
       \/ ~runs[r].seen /\ SetPosition(None)
       \/ runs[r].seen /\ UNCHANGED <<position, isLocating, listVars>>
    /\ UNCHANGED <<watching, focused>>

\* What awaited the refresh.
Continue(r) ==
    /\ At(r, "ended") /\ runs' = [runs EXCEPT ![r] = None]
    /\ CASE runs[r].then = "watch" -> watching' \in BOOLEAN /\ UNCHANGED listVars
         [] runs[r].then = "refetch" ->
              /\ Fetch(runs[r].center) /\ UNCHANGED watching
              /\ mixed' = (mixed \/ runs[r].center # position)
         [] runs[r].then = "nothing" -> UNCHANGED <<watching, listVars>>
    /\ UNCHANGED <<position, isLocating, focused>>

\* watchPositionAsync, every 100 meters.
Watch(p) ==
    /\ watching /\ SetPosition(p)
    /\ UNCHANGED <<runs, watching, focused>>

-----------------------------------------------------------------------------
\* The screen.

Blur ==
    /\ focused /\ focused' = FALSE
    /\ UNCHANGED <<position, isLocating, runs, watching, listVars>>

Focus ==
    /\ ~focused /\ focused' = TRUE
    /\ Fetch(position) /\ UNCHANGED mixed
    /\ UNCHANGED <<position, isLocating, runs, watching>>

\* An answer, to whatever center it is; a failure leaves the list as it was.
Arrive(l) ==
    /\ loads[l] # None /\ loads' = [loads EXCEPT ![l] = None]
    /\ isFetching' = FALSE
    /\ \/ around' = loads[l].center /\ UNCHANGED failed
       \/ failed' = TRUE /\ UNCHANGED around
    /\ mixed' = (mixed \/ ~loads[l].latest)
    /\ UNCHANGED <<position, isLocating, runs, watching, focused>>

NearbyNext ==
    \/ \E then \in {"refetch", "nothing"} : Begin(then)
    \/ \E r \in Run : FindLast(r) \/ FindCurrent(r) \/ Continue(r)
    \/ \E p \in Position : Watch(p)
    \/ Blur \/ Focus \/ \E l \in Load : Arrive(l)

NearbySpec == NearbyInit /\ [][NearbyNext]_nearbyVars

-----------------------------------------------------------------------------
\* A focused screen at rest, whose last load did not fail, lists what is around
\* the position it shows, and nothing without one, through every order of
\* positions, focuses and pulls, unless an answer was overtaken or a pull loaded
\* the list of the position it began with: nothing else orders the two hooks.
\* (use-user-location.ts "Sans position réelle, aucune coordonnée de secours n'est
\* utilisée"; use-activities.ts, the effect; index.tsx refreshNearby)
ListFollowsPosition ==
    (/\ focused /\ ~failed /\ ~mixed
     /\ \A l \in Load : loads[l] = None) => around = position
=============================================================================
