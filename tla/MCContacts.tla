------------------------------ MODULE MCContacts ------------------------------
(***************************************************************************)
(* Small instances of Contacts: the members u1 and u2, the organizer u3,   *)
(* and the deleted account u4.  b1 is a pending or accepted relation of u1 *)
(* and u2.                                                                 *)
(***************************************************************************)
EXTENDS Contacts, TLC

CONSTANTS u1, u2, u3, u4, b1, r1, none

OfUsers(op, u, v) == [op |-> op, user |-> u, to |-> v, target |-> none]
OfTarget(op, u, t) == [op |-> op, user |-> u, to |-> none, target |-> t]

PendingRow == {[id |-> b1, from |-> u1, to |-> u2, status |-> "pending"]}

\* Relations of u1 and u2, messages of the three, and the deletion of what r1 opened.
ContactCalls ==
    {OfUsers("request", u1, u2), OfUsers("request", u2, u1), OfUsers("request", u1, u4),
     OfUsers("unfriend", u1, u2)}
    \cup {OfTarget(op, u, b1) : op \in {"accept", "decline"}, u \in {u2}}
    \cup {OfTarget("accept", u, t) : u \in {u1, u2}, t \in {b1, r1}}
    \cup {OfUsers("message", u1, u2), OfUsers("message", u2, u1), OfUsers("message", u2, u3),
          OfUsers("message", u3, u2), OfUsers("message", u1, u1), OfUsers("request", u1, u1)}
    \cup {OfTarget("post", u2, r1), OfTarget("post", u1, r1), OfTarget("delete", u2, r1)}
===============================================================================
