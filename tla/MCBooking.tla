------------------------------- MODULE MCBooking -------------------------------
(***************************************************************************)
(* Small instances of Booking.  u1 organizes the activities, u3 is an     *)
(* administrator.                                                          *)
(***************************************************************************)
EXTENDS Booking, TLC

CONSTANTS u1, u2, u3, a1, a2, s1, none

MCActivityOf == [s \in Slot |-> a1]
MCOwner == [a \in Activity |-> u1]

Plain(op, u, a) == [op |-> op, user |-> u, activity |-> a, slot |-> NoSlot,
                    target |-> none, offers |-> <<>>]
Book(u, a) == [Plain("book", u, a) EXCEPT !.slot = s1]
Remove(u, r) == [Plain("remove", u, a1) EXCEPT !.target = r]
Seats(u, cs) == [Plain("slots", u, a1) EXCEPT
                 !.offers = [i \in DOMAIN cs |-> [slot |-> s1, capacity |-> cs[i]]]]

\* The calls that compete for the seats of one slot.
SeatCalls ==
    {Book(u, a1) : u \in User} \cup {Remove(u2, r) : r \in Request}
    \cup {Seats(u1, <<c>>) : c \in Capacity} \cup {Plain("delete", u1, a1)}

\* Every kind of call, well- or ill-addressed.
AllCalls ==
    {Book(u1, a1), Book(u2, a1), Book(u2, a2), Plain("free", u2, a1), Seats(u1, <<1, 2>>),
     Seats(u2, <<1>>), Plain("delete", u1, a1), Plain("delete", u3, a1)}
    \cup {Remove(u2, r) : r \in Request}

RequestSymmetry == Permutations(Request)
===============================================================================
