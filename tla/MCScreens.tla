------------------------------- MODULE MCScreens -------------------------------
(***************************************************************************)
(* Small instances of the scenes, one after the other in one run.          *)
(***************************************************************************)
EXTENDS Screens, TLC

CONSTANTS organizer, stranger, moderator

\* An organizer creates an establishment and an activity; the organizer and a
\* stranger delete it, an administrator changes it.
CallsOfThree ==
    {[op |-> "create", by |-> organizer, sent |-> <<"p1", "l2">>], [op |-> "activity", by |-> organizer]}
    \cup [op : {"delete"}, by : {organizer, stranger}, row : {1}]
    \cup [op : {"update"}, by : {moderator}, row : {1}, sent : {None, <<"p2", "l2">>}]

LabelsAtFirst == "p1" :> "l1" @@ "p2" :> "l2"

\* Two conversations, slots, entries, positions, devices, addresses or contents are
\* interchangeable; as a state has those of one scene, one permutation that
\* swaps them all swaps those of its scene.
Pairs == {Conversation, Slot, Entry, Position, Device, Offered, Content}
Other(x) == CHOOSE y \in UNION Pairs : y # x /\ \E pair \in Pairs : {x, y} \subseteq pair
Symmetry == {[x \in UNION Pairs |-> IF swap THEN Other(x) ELSE x] : swap \in BOOLEAN}

================================================================================
