------------------------------ MODULE ActivityPage ------------------------------
(***************************************************************************)
(* The page of an activity, where a user books and rates.  The server is   *)
(* what Booking promises: a slot has a seat left, is full or has gone, and *)
(* other users change that at any time.  A press of "Réserver" is numbered *)
(* and so is the entry it makes.  Leaving the page stops none of its       *)
(* continuations, and is left out.                                         *)
(***************************************************************************)
EXTENDS Naturals

CONSTANTS
    Slot,
    Stars,                  \* the ratings the user may give
    MaxPresses,             \* bound: bookings
    MaxChanges,             \* bound: changes made by other users
    None                    \* no slot, no request

VARIABLES
    entries, room, clock,   \* the server; "clock" counts its changes
    page, slots, slotsLoad, \* the page: its detail, its slots, by press their load
    booking, press, busy,   \* the form, by press its course, the button's spinner
    rating,                 \* the stars, and the review on its way
    made, said              \* history: by press, when it was booked; the alerts

pageVars == <<page, slots, slotsLoad, booking, press, busy, said>>
planning == <<entries, room, clock, made>>
activityPageVars == <<pageVars, planning, rating>>

Press == 1..MaxPresses
LoadOf == 0..MaxPresses      \* the first load of the slots, then one by press

\* A request on its way is asked, and then failed or answered.
Asked == [is |-> "asked"]
Failed == [is |-> "failed"]
OnItsWay(request) == request # None /\ request # Asked

Blank == [open |-> FALSE, slot |-> None, time |-> FALSE]

ActivityPageInit ==
    /\ entries = {} /\ room = [s \in Slot |-> "seat"] /\ clock = 0
    /\ page = "loading" /\ slots = [is |-> "read", rows |-> {}, seats |-> {}, asOf |-> 0]
    /\ slotsLoad = [p \in LoadOf |-> IF p = 0 THEN Asked ELSE None]
    /\ booking = Blank /\ press = [p \in Press |-> None] /\ busy = FALSE
    /\ rating = [stars |-> 0, sent |-> None]
    /\ made = [p \in Press |-> None] /\ said = {}

-----------------------------------------------------------------------------
\* The page and its form.

\* useActivityDetail: the activity and its reviews, or the error screen.
LoadPage ==
    /\ page = "loading" /\ page' \in {"shown", "missing"}
    /\ UNCHANGED <<slots, slotsLoad, booking, press, busy, said, planning, rating>>

HasSlots == slots.rows # {}
SlotsLoading == slotsLoad[0] # None

OnForm(change) ==
    /\ page = "shown" /\ booking' = change /\ booking' # booking
    /\ UNCHANGED <<page, slots, slotsLoad, press, busy, said, planning, rating>>

Open == ~booking.open /\ OnForm([booking EXCEPT !.open = TRUE])
Cancel == booking.open /\ OnForm(Blank)

\* A day, then one of its slots with a seat left; another day unselects it.
PickSlot(s) ==
    /\ booking.open /\ ~SlotsLoading /\ HasSlots
    /\ s \in slots.seats \cup {None}
    /\ OnForm([booking EXCEPT !.slot = s])

\* Without slots, a date and an hour; another date unselects the hour.
PickTime(chosen) ==
    /\ booking.open /\ ~SlotsLoading /\ ~HasSlots
    /\ OnForm([booking EXCEPT !.time = chosen])

\* The button "Réserver", which turns until the slots are there again.
Ready == ~busy /\ (IF HasSlots THEN booking.slot # None ELSE booking.time)

\* handleAddToPlanning, up to its POST; a past date is refused on the spot.
Reserve(p) ==
    /\ page = "shown" /\ booking.open /\ Ready
    /\ press[p] = None /\ \A q \in Press : q < p => press[q] # None
    /\ press' = [press EXCEPT ![p] =
                   [slot |-> IF HasSlots THEN booking.slot ELSE None,
                    step |-> "posted", ok |-> FALSE]]
    /\ busy' = TRUE
    /\ UNCHANGED <<page, slots, slotsLoad, booking, said, planning, rating>>

At(p, step) == press[p] # None /\ press[p].step = step

\* The POST is answered: usePlanning goes on to its own list, or throws and the
\* page asks for the slots again.
Answered(p) ==
    /\ \/ /\ At(p, "stored")
          /\ press' = [press EXCEPT ![p].step = "planning", ![p].ok = TRUE]
          /\ UNCHANGED slotsLoad
       \/ /\ At(p, "failed")
          /\ press' = [press EXCEPT ![p].step = "slots"]
          /\ slotsLoad' = [slotsLoad EXCEPT ![p] = Asked]
    /\ UNCHANGED <<page, slots, booking, busy, said, planning, rating>>

\* The list of the page's own usePlanning, which nothing shows and whose failure
\* stops nothing; then the form closes, whatever was picked since.
PlanningFetched(p) ==
    /\ At(p, "planning")
    /\ press' = [press EXCEPT ![p].step = "slots"]
    /\ slotsLoad' = [slotsLoad EXCEPT ![p] = Asked]
    /\ booking' = Blank
    /\ UNCHANGED <<page, slots, busy, said, planning, rating>>

\* listSlots: those to come, with the seats left.
ReadSlots(p) ==
    /\ slotsLoad[p] = Asked
    /\ \/ slotsLoad' = [slotsLoad EXCEPT ![p] =
             [is |-> "read", rows |-> {s \in Slot : room[s] # "gone"},
              seats |-> {s \in Slot : room[s] = "seat"}, asOf |-> clock]]
       \/ slotsLoad' = [slotsLoad EXCEPT ![p] = Failed]
    /\ UNCHANGED <<page, slots, booking, press, busy, said, planning, rating>>

\* The slots arrive, or their failure, which shows nothing; with them the alert
\* of a booking, and its button.
ShowSlots(p) ==
    /\ OnItsWay(slotsLoad[p])
    /\ slots' = IF slotsLoad[p] = Failed THEN slots ELSE slotsLoad[p]
    /\ slotsLoad' = [slotsLoad EXCEPT ![p] = None]
    /\ IF p = 0 THEN UNCHANGED <<press, busy, said>>
       ELSE /\ press' = [press EXCEPT ![p].step = "done"] /\ busy' = FALSE
            /\ said' = IF press[p].ok THEN said \cup {p} ELSE said
    /\ UNCHANGED <<page, booking, planning, rating>>

\* The stars and useReview: one review at a time; a failure shows nothing, and a
\* success clears the stars.
Rate ==
    /\ page = "shown"
    /\ \/ \E stars \in Stars : rating' = [rating EXCEPT !.stars = stars]
       \/ /\ rating.sent = None /\ rating.stars > 0
          /\ rating' = [rating EXCEPT !.sent = rating.stars]
       \/ /\ rating.sent # None
          /\ rating' \in {[stars |-> 0, sent |-> None], [rating EXCEPT !.sent = None]}
    /\ UNCHANGED <<pageVars, planning>>

-----------------------------------------------------------------------------
\* The server.

\* addToPlanning: a slot that has a seat and that the user has not booked, or an
\* entry at a free date, which asks nothing of the slots.  The answer may be lost.
Store(p) ==
    /\ At(p, "posted")
    /\ LET s == press[p].slot IN
       IF s = None THEN UNCHANGED room
       ELSE /\ room[s] = "seat" /\ \A q \in entries : press[q].slot # s
            /\ \E left \in {"seat", "full"} : room' = [room EXCEPT ![s] = left]
    /\ entries' = entries \cup {p} /\ clock' = clock + 1
    /\ made' = [made EXCEPT ![p] = clock']
    /\ \E step \in {"stored", "failed"} : press' = [press EXCEPT ![p].step = step]
    /\ UNCHANGED <<page, slots, slotsLoad, booking, busy, said, rating>>

\* Full, already booked, past, not published, or nothing got there.
Refuse(p) ==
    /\ At(p, "posted")
    /\ press' = [press EXCEPT ![p].step = "failed"]
    /\ UNCHANGED <<page, slots, slotsLoad, booking, busy, said, planning, rating>>

\* Other users book and cancel, a slot's time comes, the organizer adds one.
OthersChange(s, left) ==
    /\ clock < MaxChanges /\ room[s] # left
    /\ room' = [room EXCEPT ![s] = left] /\ clock' = clock + 1
    /\ UNCHANGED <<entries, made, pageVars, rating>>

\* The user removes the entry, on the planning tab.
Delete(p) ==
    /\ p \in entries /\ entries' = entries \ {p} /\ clock' = clock + 1
    /\ room' = IF press[p].slot # None /\ room[press[p].slot] = "full"
               THEN [room EXCEPT ![press[p].slot] = "seat"] ELSE room
    /\ UNCHANGED <<made, pageVars, rating>>

ActivityPageNext ==
    \/ LoadPage \/ Open \/ Cancel \/ \E s \in Slot \cup {None} : PickSlot(s)
    \/ \E chosen \in BOOLEAN : PickTime(chosen)
    \/ Rate
    \/ \E p \in Press : \/ Reserve(p) \/ Answered(p) \/ PlanningFetched(p)
                        \/ Store(p) \/ Refuse(p) \/ Delete(p)
    \/ \E p \in LoadOf : ReadSlots(p) \/ ShowSlots(p)
    \/ \E s \in Slot, left \in {"seat", "full", "gone"} : OthersChange(s, left)

ActivityPageSpec == ActivityPageInit /\ [][ActivityPageNext]_activityPageVars

-----------------------------------------------------------------------------
\* "Réservé !" appears only for a press the server has booked, over slots read
\* after that booking unless their load failed.
\* (activity/[id].tsx handleAddToPlanning, use-planning.ts addToPlanning)
AnnouncedWasBooked ==
    \A p \in said' \ said : /\ made[p] # None
                           /\ (slotsLoad[p] = Failed \/ slots'.asOf >= made[p])

\* The page never goes back to slots older than those it has shown, although
\* useActivitySlots orders nothing: the form leaves no way to have two loads of
\* them on their way, in whatever order it is closed, opened and filled again.
\* (activity/[id].tsx, "slotsLoading" and "loading={planningLoading}")
SlotsMoveForward == slots'.asOf >= slots.asOf
=============================================================================
