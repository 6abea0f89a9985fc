---------------------------- MODULE ClientSession ----------------------------
(***************************************************************************)
(* The session of the mobile and web client: the two stored tokens, the    *)
(* signed-in user of the auth context, the navigator's redirections, and   *)
(* the API client that answers a 401 by exchanging the refresh token and   *)
(* sending the request again.  The server is reduced to what it promises   *)
(* about tokens: a login mints a pair, an exchange spends a refresh token  *)
(* and mints another pair, a logout revokes the refresh token it is given, *)
(* days, a password reset or the end of an account revoke one unasked; and *)
(* to the errors it may answer instead.                                    *)
(*                                                                         *)
(* Calls run concurrently: every await of the client is a step, and every  *)
(* answer of the server is a step.  A login is its rank in "owner", which   *)
(* says whose it is, and names the refresh token it returned.  It has two  *)
(* access tokens, the first one and the renewed one: the exchanges of one  *)
(* refresh token, all under way at once, count as one renewal, and the     *)
(* refresh token an exchange returns is dropped by the client unseen.      *)
(***************************************************************************)
EXTENDS Naturals, Sequences, FiniteSets

CONSTANTS
    Account,      \* the accounts a person signs in to on this device
    MaxCalls,     \* bound: requests of the client under way together
    NoOne,        \* the absence of a signed-in user
    MaxLogins,    \* bound: logins the server grants in a behaviour
    MaxRestarts   \* bound: times the app is killed and started again

ASSUME NoOneAssumption == NoOne \notin Account

VARIABLES
    access, refresh,         \* token storage
    user, loading, route,    \* auth context and navigator
    call,                    \* the requests under way
    owner, expired, live,    \* server: logins, dead access and live refresh tokens
    restarts,                \* how many so far
    kept, torn               \* history: see LoseAnswer and Interleaved

storage == <<access, refresh>>
context == <<user, loading, route>>
server == <<owner, expired, live>>
observers == <<restarts, kept, torn>>
vars == <<storage, context, call, server, observers>>

Call == 1..MaxCalls
Login == 1..Len(owner)
NoToken == 0
First(l) == 2 * l - 1
Renewed(l) == 2 * l
LoginOf(t) == (t + 1) \div 2
AccessToken == 1..Renewed(Len(owner))
Kind == {"data", "me", "login", "logout"}

\* A call: what it is for, where it stands, the account that signs in, the access
\* token it carries, the refresh tokens it exchanges and revokes, and
\* whether its exchange failed: no verdict on the refresh token came.
Idle == [kind |-> "data", at |-> "idle", who |-> NoOne, token |-> NoToken,
         rt |-> NoToken, body |-> NoToken, failed |-> FALSE]

ExchangeSteps == {"renewing", "checked", "renewed"}
ClearSteps == {"clear", "clear2"}
Steps == ExchangeSteps \cup ClearSteps \cup {"idle", "sent", "resend", "granted", "granted2"}

Busy(c) == call[c].at # "idle"

\* A call that has written one token of two.
Halfway(c) == call[c].at \in {"clear2", "granted2"}

\* Calls are alike: the first idle one is taken.
\* Bound: once writes interleaved, what is under way ends and no more starts.
Free(c) == ~Busy(c) /\ ~torn /\ \A d \in Call : d < c => Busy(d)
At(c, step) == call' = [call EXCEPT ![c].at = step]
End(c) == call' = [call EXCEPT ![c] = Idle]

Init ==
    /\ access = NoToken /\ refresh = NoToken
    /\ user = NoOne /\ loading = TRUE /\ route = "app"
    /\ call = [c \in Call |-> Idle]
    /\ owner = <<>> /\ expired = {} /\ live = {}
    /\ restarts = 0 /\ kept = FALSE /\ torn = FALSE

-----------------------------------------------------------------------------
\* Starting the app, and the navigator.

\* The auth context's first effect: with a stored token it asks who that is,
\* and nothing else is rendered until it knows.
Boot(c) ==
    /\ loading /\ c = 1 /\ \A d \in Call : ~Busy(d)
    /\ IF access = NoToken
       THEN loading' = FALSE /\ UNCHANGED call
       ELSE /\ call' = [call EXCEPT ![c] = [Idle EXCEPT !.kind = "me",
                                              !.at = "sent", !.token = access]]
            /\ UNCHANGED loading
    /\ UNCHANGED <<storage, user, route, server, observers>>

\* AppNavigator's effect: no user, no app; a user, no login screen.
Redirect ==
    /\ ~loading
    /\ \/ user = NoOne /\ route = "app" /\ route' = "auth"
       \/ user # NoOne /\ route = "auth" /\ route' = "app"
    /\ UNCHANGED <<storage, user, loading, call, server, observers>>

\* The app is killed: what is in memory goes, the stored tokens stay.
\* Bound: not after writes interleaved, when what is under way only ends.
Restart ==
    /\ restarts < MaxRestarts /\ ~torn
    /\ restarts' = restarts + 1
    /\ user' = NoOne /\ loading' = TRUE /\ route' = "app"
    /\ call' = [c \in Call |-> Idle]
    /\ kept' = FALSE
    /\ torn' = \E c \in Call : Halfway(c)
    /\ UNCHANGED <<storage, server>>

-----------------------------------------------------------------------------
\* What the screens start.

\* Nothing is rendered while loading; the profile needs a user, the other
\* screens show what the server gives them.
LoginScreen == ~loading /\ route = "auth"
AppScreen == ~loading /\ route = "app"
ProfileScreen == AppScreen /\ user # NoOne

\* A screen of the app loads or saves something.
StartData(c) ==
    /\ AppScreen /\ Free(c)
    /\ call' = [call EXCEPT ![c] = [Idle EXCEPT !.at = "sent", !.token = access]]
    /\ UNCHANGED <<storage, context, server, observers>>

\* A valid login form is submitted.  The button is disabled meanwhile, the
\* keyboard's "done" key is not: two logins may be under way.
StartLogin(c, a) ==
    /\ LoginScreen /\ Free(c)
    /\ call' = [call EXCEPT ![c] = [Idle EXCEPT !.kind = "login",
                                               !.at = "sent", !.who = a]]
    /\ UNCHANGED <<storage, context, server, observers>>

\* The profile screen's confirmed logout; without a refresh token there is
\* nothing to tell the server.
StartLogout(c) ==
    /\ ProfileScreen /\ Free(c)
    /\ call' = [call EXCEPT ![c] =
                  [Idle EXCEPT !.kind = "logout", !.token = access, !.body = refresh,
                               !.at = IF refresh = NoToken THEN "clear" ELSE "sent"]]
    /\ UNCHANGED <<storage, context, server, observers>>

-----------------------------------------------------------------------------
\* The server's answers.

Accepted(t) == t # NoToken /\ t \notin expired

\* A logout has been answered, or never will be.
SignOut(c) == call' = [call EXCEPT ![c] = [Idle EXCEPT !.kind = "logout", !.at = "clear"]]

\* authenticate let the request through.
Answer(c) ==
    /\ call[c].at = "sent" /\ call[c].kind # "login" /\ Accepted(call[c].token)
    /\ \/ call[c].kind = "data" /\ End(c) /\ UNCHANGED <<user, loading, live>>
       \/ /\ call[c].kind = "me"
          /\ user' = owner[LoginOf(call[c].token)] /\ loading' = FALSE
          /\ End(c) /\ UNCHANGED live
       \/ /\ call[c].kind = "logout"
          /\ live' = live \ {call[c].body}
          /\ SignOut(c) /\ UNCHANGED <<user, loading>>
    /\ UNCHANGED <<storage, route, owner, expired, observers>>

\* POST /auth/refresh reads the token's row, then spends it and mints a pair;
\* two requests may read the row before either spends it.
CheckRefresh(c) ==
    /\ call[c].at = "renewing"
    /\ At(c, IF call[c].rt \in live THEN "checked" ELSE "clear")
    /\ UNCHANGED <<storage, context, server, observers>>

Exchange(c) ==
    /\ call[c].at = "checked"
    /\ live' = live \ {call[c].rt}
    /\ expired' = expired \ {Renewed(call[c].rt)}
    /\ call' = [call EXCEPT ![c].at = "renewed", ![c].token = Renewed(call[c].rt)]
    /\ UNCHANGED <<storage, context, owner, observers>>

\* The exchange ends, and whether its refresh token was good nobody knows.
NoVerdict(c) ==
    call' = [call EXCEPT ![c].at = "clear", ![c].token = NoToken, ![c].rt = NoToken,
                         ![c].failed = TRUE]

\* Or it answers an error: 429 before it reads anything, 500 when the SELECT, the
\* UPDATE or, with the token spent, the INSERT fails.
FailRefresh(c) ==
    /\ \/ call[c].at \in {"renewing", "checked"} /\ UNCHANGED live
       \/ call[c].at = "checked" /\ live' = live \ {call[c].rt}
    /\ NoVerdict(c)
    /\ UNCHANGED <<storage, context, owner, expired, observers>>

\* What is stored or under way; of other tokens nobody can tell whether they
\* still count, and a login takes the occasion to forget them.
AccessHeld == {access} \cup {call[c].token : c \in Call}
RefreshHeld == {refresh} \cup UNION {{call[c].rt, call[c].body} : c \in Call}

\* POST /auth/login: two tokens, or an error the form shows.
Grant(c) ==
    /\ call[c].at = "sent" /\ call[c].kind = "login"
    /\ Len(owner) < MaxLogins
    /\ owner' = Append(owner, call[c].who)
    /\ live' = (live \cap RefreshHeld) \cup {Len(owner) + 1}
    /\ expired' = expired \cup (AccessToken \ AccessHeld)
    /\ call' = [call EXCEPT ![c].at = "granted", ![c].rt = Len(owner) + 1]
    /\ UNCHANGED <<storage, context, observers>>

Deny(c) ==
    /\ call[c].at = "sent" /\ call[c].kind = "login"
    /\ End(c)
    /\ UNCHANGED <<storage, context, server, observers>>

\* The quarter of an hour of an access token is over.
Expire(t) ==
    /\ t \in (AccessToken \cap AccessHeld) \ expired
    /\ expired' = expired \cup {t}
    /\ UNCHANGED <<storage, context, call, owner, live, observers>>

\* A refresh token that nobody exchanged is over: its days are, or the server revokes
\* it, after a password reset, for a deleted account, for a request whose answer is lost.
Retire(t) ==
    /\ t \in live \cap RefreshHeld
    /\ live' = live \ {t}
    /\ UNCHANGED <<storage, context, call, owner, expired, observers>>

-----------------------------------------------------------------------------
\* The client's own steps.

\* History: a call writes while another stands at one of these steps, or writes what
\* is of no use any more.
Interleaved(c, steps, late) ==
    torn' = (torn \/ late \/ \E d \in Call \ {c} : call[d].at \in steps)

\* Fault: the first 401 ends the session, without an exchange.
RejectEnds(c) ==
    /\ call[c].at = "sent" /\ call[c].kind # "login" /\ ~Accepted(call[c].token)
    /\ call' = [call EXCEPT ![c].at = "clear", ![c].token = NoToken, ![c].rt = refresh]
    /\ UNCHANGED <<storage, context, server, observers>>

\* authenticate answered 401: tryRefreshToken takes the refresh token stored
\* now, whoever's it is by now, and without one the session is cleared.
Reject(c) ==
    /\ call[c].at = "sent" /\ call[c].kind # "login" /\ ~Accepted(call[c].token)
    /\ call' = [call EXCEPT ![c].at = IF refresh = NoToken THEN "clear" ELSE "renewing",
                            ![c].token = NoToken, ![c].rt = refresh]
    /\ UNCHANGED <<storage, context, server, observers>>

\* The exchange succeeded: only the access token is stored, and the request
\* is sent again, which reads the access token again.
StoreRenewed(c) ==
    /\ call[c].at = "renewed"
    /\ access' = call[c].token
    /\ call' = [call EXCEPT ![c].at = "resend", ![c].token = NoToken, ![c].rt = NoToken]
    /\ Interleaved(c, {"clear2", "granted2"}, call[c].rt # refresh)
    /\ UNCHANGED <<refresh, context, server, restarts, kept>>

Resend(c) ==
    /\ call[c].at = "resend"
    /\ call' = [call EXCEPT ![c].at = "sent", ![c].token = access]
    /\ UNCHANGED <<storage, context, server, observers>>

\* clearSession removes one token after the other, then the user.  A refused
\* exchange has just removed both by itself: the same removals, told once.
RemoveAccess(c) ==
    /\ call[c].at = "clear"
    /\ access' = NoToken
    /\ At(c, "clear2")
    /\ UNCHANGED <<refresh, context, server, observers>>

\* Fault: the refresh token stays.
ClearAccessOnly(c) ==
    /\ call[c].at = "clear2"
    /\ user' = NoOne /\ kept' = FALSE
    /\ loading' = (loading /\ call[c].kind # "me")
    /\ End(c) /\ Interleaved(c, {"granted2"}, FALSE)
    /\ UNCHANGED <<storage, route, server, restarts>>

ClearSession(c) ==
    /\ call[c].at = "clear2"
    /\ refresh' = NoToken
    /\ user' = NoOne
    /\ loading' = (loading /\ call[c].kind # "me")
    /\ kept' = FALSE
    /\ End(c) /\ Interleaved(c, {"granted2"}, FALSE)
    /\ UNCHANGED <<access, route, server, restarts>>

LoginStoresAccess(c) ==
    /\ call[c].at = "granted"
    /\ access' = First(call[c].rt)
    /\ At(c, "granted2")
    /\ UNCHANGED <<refresh, context, server, observers>>

LoginStoresRefresh(c) ==
    /\ call[c].at = "granted2"
    /\ refresh' = call[c].rt
    /\ user' = call[c].who
    /\ kept' = FALSE
    /\ End(c) /\ Interleaved(c, ExchangeSteps \cup ClearSteps \cup {"granted2"}, FALSE)
    /\ UNCHANGED <<access, loading, route, server, restarts>>

-----------------------------------------------------------------------------
\* The network.

\* Fault: a logout the server does not answer is given up.
GiveLogoutUp(c) ==
    /\ call[c].at = "sent" /\ call[c].kind = "logout"
    /\ End(c)

LoseLogout(c) ==
    /\ call[c].at = "sent" /\ call[c].kind = "logout"
    /\ SignOut(c)

\* The request or its answer is lost and fetch throws, or the answer is an error other
\* than 401.  A logout goes on, an exchange counts as refused but leaves the storage to
\* clearSession, the first request of a start leaves the tokens for the next start.
LoseAnswer(c) ==
    /\ \/ LoseLogout(c) /\ UNCHANGED <<loading, kept>>
       \/ /\ \/ call[c].at = "sent" /\ call[c].kind \in {"data", "login"}
             \/ call[c].at = "granted"
          /\ End(c) /\ UNCHANGED <<loading, kept>>
       \/ /\ call[c].at = "sent" /\ call[c].kind = "me"
          /\ End(c) /\ loading' = FALSE /\ kept' = TRUE
       \/ /\ call[c].at \in {"renewing", "renewed"}
          /\ NoVerdict(c)
          /\ UNCHANGED <<loading, kept>>
    /\ UNCHANGED <<storage, user, route, server, restarts, torn>>

-----------------------------------------------------------------------------
ServerStep(c) == Answer(c) \/ Reject(c) \/ CheckRefresh(c) \/ Exchange(c)
                 \/ Grant(c) \/ Deny(c)
ClientStep(c) == StoreRenewed(c) \/ Resend(c) \/ RemoveAccess(c)
                 \/ ClearSession(c) \/ LoginStoresAccess(c)
                 \/ LoginStoresRefresh(c)

Next ==
    \/ Redirect \/ Restart
    \/ \E t \in AccessToken : Expire(t)
    \/ \E t \in Login : Retire(t)
    \/ \E c \in Call :
         \/ Boot(c) \/ StartData(c) \/ StartLogout(c)
         \/ \E a \in Account : StartLogin(c, a)
         \/ ServerStep(c) \/ ClientStep(c) \/ FailRefresh(c) \/ LoseAnswer(c)

\* What is under way goes on: the server answers and the client's
\* continuations run; no screen has to start anything.
Fairness == /\ WF_vars(Redirect)
            /\ WF_vars(\E c \in Call : Boot(c))
            /\ \A c \in Call : WF_vars(ServerStep(c)) /\ WF_vars(ClientStep(c))

Spec == Init /\ [][Next]_vars /\ Fairness

-----------------------------------------------------------------------------
\* Types of what is stored, shown and under way.
TypeOK ==
    /\ access \in AccessToken \cup {NoToken} /\ refresh \in Login \cup {NoToken}
    /\ user \in Account \cup {NoOne} /\ loading \in BOOLEAN
    /\ route \in {"app", "auth"}
    /\ owner \in Seq(Account) /\ expired \subseteq AccessToken
    /\ live \subseteq Login
    /\ \A c \in Call : /\ call[c].kind \in Kind /\ call[c].at \in Steps
                      /\ call[c].token \in AccessToken \cup {NoToken}
                      /\ {call[c].rt, call[c].body} \subseteq Login \cup {NoToken}

\* Unless a pair of tokens is half written, both stored tokens are of one login, of the
\* person who is signed in, and nobody's are left when nobody is, unless the start of the
\* app could not reach the server: through parallel exchanges, late 401s, exchanges that
\* are refused or fail after a logout, a second account and restarts.  A write in the middle of
\* another call's pair, one of a session that has gone, and a pair that a kill cuts are
\* what README.md tells of instead.
\* (auth.tsx clearSession and login, api.ts tryRefreshToken)
SessionsDoNotMix ==
    (~torn /\ ~loading /\ \A c \in Call : ~Halfway(c)) =>
        IF user = NoOne
        THEN kept \/ (access = NoToken /\ refresh = NoToken)
        ELSE /\ refresh # NoToken /\ owner[refresh] = user
             /\ access # NoToken /\ LoginOf(access) = refresh

Consistent == TypeOK /\ SessionsDoNotMix

\* Whoever is signed in is sent back to the login screen for a reason only: a logout, an
\* exchange that the network or an error of the server left without a verdict, or the
\* server's refusal of the refresh token that is stored at that moment; never for an
\* access token that merely expired, nor for the refusal of another session's token.
\* (api.ts request, the branch of the 401, and tryRefreshToken)
EndsOnlyWhenRefused ==
    [][(user # NoOne /\ user' = NoOne /\ restarts' = restarts /\ ~torn') =>
          \E c \in Call : /\ call[c].at = "clear2"
                          /\ \/ call[c].kind = "logout"
                             \/ call[c].failed
                             \/ /\ call[c].rt = refresh /\ refresh # NoToken
                                /\ refresh \notin live]_vars

\* A confirmed logout signs out, whatever the server and the network answer and
\* however often its access token is renewed on the way.
\* (auth.tsx logout, "ignore server errors on logout")
LogoutEnds ==
    (\E c \in Call : Busy(c) /\ call[c].kind = "logout") ~> (user = NoOne)
=============================================================================
