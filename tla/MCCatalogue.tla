----------------------------- MODULE MCCatalogue ------------------------------
(***************************************************************************)
(* Small instances of Catalogue.  The organizer o1 has published a1 and is *)
(* about to create a2; the members have planned a1.                        *)
(***************************************************************************)
EXTENDS Catalogue, TLC

CONSTANTS o1, o2, m1, m2, d1, a1, a2, e1, r1, r2, r3, none

Plain(op, u, a) ==
    [op |-> op, user |-> u, activity |-> a, rating |-> none, target |-> none]
Rated(op, u, n) == [Plain(op, u, a1) EXCEPT !.rating = n]
Of(c, r) == [c EXCEPT !.target = r]

Owners == a1 :> o1 @@ a2 :> o1
Published == a1 :> e1

\* Edits, decisions and the public list.
EditorialCalls ==
    {Plain("edit", o1, a1), Plain("delete", o1, a1)}
    \cup {Plain("create", o1, a2), Plain("edit", o2, a1), Plain("edit", d1, a1),
          Plain("touch", o1, a1)}
    \cup {Plain("approve", d1, a1), Plain("reject", d1, a1), Plain("approve", d1, a2)}
    \cup {Plain("list", m1, none)}

\* Reviews of a1, and what may be done to the review of r1.
ReviewCalls ==
    {Rated("review", m1, n) : n \in 1 .. 2}
    \cup {Of(Rated("rerate", u, 2), r1) : u \in {m1, d1}}
    \cup {Of(Plain("unreview", u, a1), r1) : u \in {m1, d1}}

CatalogueCalls == EditorialCalls \cup ReviewCalls

\* Calls name r1 only, and e1 is the edition of a1.
LaterSymmetry == Permutations({r2, r3})

\* Two members review a1.
TwoReviews == {Rated("review", m1, 1), Rated("review", m2, 1)}
===============================================================================
