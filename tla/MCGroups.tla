------------------------------- MODULE MCGroups -------------------------------
(***************************************************************************)
(* Small instances of Groups.  u1 has founded g1 with u2 and u3 and is a   *)
(* friend of both, as of u4 who is outside; g2 is still to be founded.     *)
(***************************************************************************)
EXTENDS Groups, TLC

CONSTANTS u1, u2, u3, u4, g1, g2, a1, none

Plain(op, u, g) ==
    [op |-> op, user |-> u, group |-> g, target |-> none, others |-> {}, activity |-> none]
Targeted(op, u, v) == [Plain(op, u, g1) EXCEPT !.target = v]
About(op, u) == [Plain(op, u, g1) EXCEPT !.activity = a1]
Creation(u, us) == [Plain("create", u, g2) EXCEPT !.others = us]

FoundedG1 == g1 :> [user |-> u1, others |-> {u2, u3}]

FriendPairs == {{u1, u2}, {u1, u3}, {u1, u4}}

Departures == {Plain("leave", u, g1) : u \in {u1, u2}}

\* Changes to the members of g1 against the proposals of two of them.
ProposalCalls ==
    Departures
    \cup {About("propose", u) : u \in {u1, u2}}
    \cup {About("withdraw", u) : u \in {u1, u2, u3}}
    \cup {Targeted("add", u1, u4), Targeted("add", u2, u4), Targeted("remove", u1, u2),
          Plain("delete", u1, g1), Plain("rename", u1, g1)}
    \cup {Creation(u1, {u1, u2}), Creation(u2, {u2}), Creation(u2, {u4})}

\* An administrator leaves while one of its changes to the members is under way.
MemberCalls == Departures \cup {Targeted("remove", u1, u2), Targeted("add", u1, u4)}
\* No call names a request.
RequestSymmetry == Permutations(Request)
===============================================================================
