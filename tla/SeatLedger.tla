------------------------------ MODULE SeatLedger ------------------------------
(***************************************************************************)
(* What the booking endpoints promise to their callers, with no request,   *)
(* transaction or lock in sight: every slot on offer has a capacity and a  *)
(* set of seated users, a user is seated at most once and only while a     *)
(* seat is free.  Booking implements this specification.                   *)
(***************************************************************************)
EXTENDS Naturals, FiniteSets

CONSTANTS
    User,       \* accounts
    Slot,       \* slots, each an (activity, starts_at) pair
    Capacity    \* the capacities an organizer may ask for

VARIABLES
    capacity,   \* [Slot -> Nat], 0 while the slot is not on offer
    seats       \* [Slot -> SUBSET User]

vars == <<capacity, seats>>

Init ==
    /\ capacity = [s \in Slot |-> 0]
    /\ seats = [s \in Slot |-> {}]

\* The organizer puts a slot on offer, or changes how many seats it has.
Offer(s, c) ==
    /\ capacity' = [capacity EXCEPT ![s] = c]
    /\ UNCHANGED seats

\* A user takes a free seat.
Reserve(u, s) ==
    /\ u \notin seats[s]
    /\ Cardinality(seats[s]) < capacity[s]
    /\ seats' = [seats EXCEPT ![s] = @ \cup {u}]
    /\ UNCHANGED capacity

\* A user gives the seat back.
Cancel(u, s) ==
    /\ u \in seats[s]
    /\ seats' = [seats EXCEPT ![s] = @ \ {u}]
    /\ UNCHANGED capacity

\* All the slots of a deleted activity disappear with their seats, at once.
Withdraw(S) ==
    /\ capacity' = [s \in Slot |-> IF s \in S THEN 0 ELSE capacity[s]]
    /\ seats' = [s \in Slot |-> IF s \in S THEN {} ELSE seats[s]]

Next ==
    \/ \E s \in Slot, c \in Capacity : Offer(s, c)
    \/ \E u \in User, s \in Slot : Reserve(u, s) \/ Cancel(u, s)
    \/ \E S \in SUBSET Slot : Withdraw(S)

Spec == Init /\ [][Next]_vars

===============================================================================
