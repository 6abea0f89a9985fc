------------------------------ MODULE MCSessions ------------------------------
(***************************************************************************)
(* A small instance of Sessions.  u1 has a verified account with one open  *)
(* session, b1.                                                            *)
(***************************************************************************)
EXTENDS Sessions, TLC

CONSTANTS u1, u2, p1, p2, b1, r1, r2, r3, none

OfUser(op, u, p) == [op |-> op, user |-> u, token |-> none, password |-> p]
OfToken(op, t, p) == [op |-> op, user |-> none, token |-> t, password |-> p]

Login(u, p) == OfUser("login", u, p)

OneMember == b1 :> Login(u1, p1)

\* The sessions of one account are opened, exchanged and ended in every way, the
\* one-time tokens being those of two of the requests.
SessionCalls ==
    {Login(u1, p1), OfUser("forgot", u1, none), OfUser("delete", u1, p1),
     OfUser("adminDelete", u1, none), OfUser("adminDelete", u2, none),
     OfUser("suspend", u1, none), OfToken("logout", b1, none)}
    \cup {OfToken("refresh", t, none) : t \in {b1, r1}}
    \cup {OfToken("reset", t, p2) : t \in {r1}}

\* A new account from its registration to its first login.
NewcomerCalls ==
    {OfUser("register", u2, p1), Login(u2, p1), OfToken("verify", r1, none)}

AllCalls == SessionCalls \cup NewcomerCalls

\* No call names the token of r2 or r3.
RequestSymmetry == Permutations({r2, r3})
===============================================================================
