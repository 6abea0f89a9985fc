-------------------------- MODULE ClientSessionProofs --------------------------
(***************************************************************************)
(* Theorems about ClientSession, for every set of accounts and every       *)
(* number of calls, logins and restarts.                                   *)
(***************************************************************************)
EXTENDS ClientSession, TLAPS

-------------------------------------------------------------------------------
(* The inductive invariant *)

CallType == [kind : Kind, at : Steps, who : Account \cup {NoOne},
             token : AccessToken \cup {NoToken}, rt : Login \cup {NoToken},
             body : Login \cup {NoToken}, failed : BOOLEAN]

Exchanging(p) == p.at \in ExchangeSteps

\* An exchange is about a refresh token; a login that is granted is its owner's.
CallFits(p) ==
    /\ Exchanging(p) => p.rt # NoToken
    /\ p.at = "renewed" => p.token = Renewed(p.rt)
    /\ p.at \in {"granted", "granted2"} =>
            p.kind = "login" /\ p.rt # NoToken /\ owner[p.rt] = p.who
    /\ p.at # "idle" /\ p.kind = "login" => p.who \in Account

\* While the app starts, only the question who is signed in is under way.
AsksWho(c, p) ==
    p.at # "idle" /\ (loading \/ p.kind = "me") =>
        /\ loading /\ c = 1 /\ p.kind = "me"
        /\ p.at = "sent" => p.token = access

\* A session that a call is ending is a logout's, had its exchange fail or its stored
\* refresh token refused, or is nobody's.
Justified(p) ==
    p.at \in ClearSteps =>
        \/ p.kind = "logout" \/ p.failed \/ user = NoOne
        \/ (p.rt = refresh /\ refresh # NoToken /\ refresh \notin live)

\* What a call is about to write is still about the session that is stored, if one is.
Timely(p) ==
    /\ Exchanging(p) => p.rt = refresh \/ refresh = NoToken
    /\ Justified(p)

\* As long as no writes have interleaved, every call is timely.
Sound(c, p) == CallFits(p) /\ AsksWho(c, p) /\ (~torn => Timely(p))

\* Both tokens are those of one login, unless a call is halfway; a call that is ending a
\* session has removed the first, and a login that is the only one to write has stored its own.
TokensAgree ==
    /\ (\A c \in Call : ~Halfway(c)) =>
            IF refresh = NoToken THEN access = NoToken
            ELSE access # NoToken /\ LoginOf(access) = refresh
    /\ (\E c \in Call : call[c].at = "clear2") /\ (\A c \in Call : call[c].at # "granted2") =>
            access = NoToken
    /\ \A c \in Call : call[c].at = "granted2" /\ (\A d \in Call \ {c} : ~Halfway(d)) =>
            access = First(call[c].rt)

\* The refresh token is that of who is signed in.
UserAgrees ==
    ~loading => IF user = NoOne THEN kept \/ refresh = NoToken
                ELSE refresh # NoToken /\ owner[refresh] = user

IInv ==
    /\ TypeOK /\ call \in [Call -> CallType]
    /\ loading => user = NoOne
    /\ \A c \in Call : Sound(c, call[c])
    /\ ~torn => TokensAgree /\ UserAgrees

-------------------------------------------------------------------------------
(* Tokens and calls *)

\* Each login has two access tokens, its first and its renewed one.
LEMMA TokenFacts ==
    ASSUME TypeOK
    PROVE  /\ Len(owner) \in Nat /\ NoToken \notin Login /\ NoToken \notin AccessToken
           /\ \A l \in Login : /\ owner[l] \in Account /\ owner[l] # NoOne
                               /\ First(l) \in AccessToken /\ Renewed(l) \in AccessToken
                               /\ LoginOf(First(l)) = l /\ LoginOf(Renewed(l)) = l
                               /\ First(l) # NoToken /\ Renewed(l) # NoToken
           /\ \A t \in AccessToken : LoginOf(t) \in Login
<1>1. owner \in Seq(Account) /\ Len(owner) \in Nat
  BY DEF TypeOK
<1>2. \A l \in Login : owner[l] \in Account /\ owner[l] # NoOne
  BY <1>1, NoOneAssumption DEF Login
<1>3. \A l \in Login : /\ First(l) \in AccessToken /\ Renewed(l) \in AccessToken
                       /\ LoginOf(First(l)) = l /\ LoginOf(Renewed(l)) = l
                       /\ First(l) # NoToken /\ Renewed(l) # NoToken
  BY <1>1 DEF Login, First, Renewed, AccessToken, LoginOf, NoToken
<1>4. \A t \in AccessToken : LoginOf(t) \in Login
  BY <1>1 DEF Login, Renewed, AccessToken, LoginOf
<1> QED
  BY <1>1, <1>2, <1>3, <1>4 DEF Login, AccessToken, NoToken

\* A step of one call leaves the others alone.
LEMMA CallSteps ==
    ASSUME IInv, NEW c \in Call, NEW p \in CallType, call' = [call EXCEPT ![c] = p]
    PROVE  /\ call' \in [Call -> CallType] /\ call'[c] = p
           /\ \A d \in Call \ {c} : call'[d] = call[d]
  BY DEF IInv

\* The types when the server's logins stay.
LEMMA TypesStay ==
    ASSUME IInv, owner' = owner, call' \in [Call -> CallType],
           access' \in AccessToken \cup {NoToken}, refresh' \in Login \cup {NoToken},
           user' \in Account \cup {NoOne}, loading' \in BOOLEAN, route' \in {"app", "auth"},
           expired' \subseteq AccessToken, live' \subseteq Login
    PROVE  TypeOK' /\ (call \in [Call -> CallType])'
<1>1. AccessToken' = AccessToken /\ Login' = Login /\ CallType' = CallType
  BY DEF AccessToken, Login, CallType
<1>2. \A c \in Call : call'[c] \in CallType
  OBVIOUS
<1>3. \A c \in Call : /\ call'[c].kind \in Kind /\ call'[c].at \in Steps
                      /\ call'[c].token \in AccessToken \cup {NoToken}
                      /\ {call'[c].rt, call'[c].body} \subseteq Login \cup {NoToken}
  BY <1>2 DEF CallType
<1> QED
  BY <1>1, <1>3 DEF IInv, TypeOK

\* A call moves before it writes anything, or after: what it does next is sound.
LEMMA CallMoves ==
    ASSUME IInv, NEW c \in Call, NEW p \in CallType, call' = [call EXCEPT ![c] = p],
           UNCHANGED <<storage, context, owner, torn, kept>>,
           live' \subseteq live, expired' \subseteq AccessToken,
           ~Halfway(c), p.at \notin {"clear2", "granted2"}, Sound(c, p)
    PROVE  IInv'
<1>1. /\ call' \in [Call -> CallType] /\ call'[c] = p
      /\ \A d \in Call \ {c} : call'[d] = call[d]
  BY CallSteps
<1>2. TypeOK' /\ (call \in [Call -> CallType])'
  BY <1>1, TypesStay DEF IInv, TypeOK, storage, context
<1>3. \A q \in {p} \cup {call[d] : d \in Call} : \A d \in Call : Sound(d, q) => Sound(d, q)'
  BY DEF Sound, Timely, CallFits, AsksWho, Justified, Exchanging, ExchangeSteps, ClearSteps,
     storage, context
<1>4. \A d \in Call : Sound(d, call[d])'
  BY <1>1, <1>3 DEF IInv
<1>5. ~torn' => TokensAgree' /\ UserAgrees'
  BY <1>1 DEF IInv, TokensAgree, UserAgrees, Halfway, storage, context
<1> QED
  BY <1>2, <1>4, <1>5 DEF IInv, context

\* What a screen, or the start of the app, begins.
LEMMA StartsAreSound ==
    ASSUME IInv, NEW c \in Call,
           \/ StartData(c) \/ StartLogout(c)
           \/ \E a \in Account : StartLogin(c, a)
           \/ (Boot(c) /\ access # NoToken)
    PROVE  IInv'
<1>1. /\ access \in AccessToken \cup {NoToken} /\ refresh \in Login \cup {NoToken}
      /\ NoToken \notin AccessToken
  BY TokenFacts DEF IInv, TypeOK
<1>2. ASSUME NEW p \in CallType, call' = [call EXCEPT ![c] = p], call[c].at = "idle",
             UNCHANGED <<storage, context, server, observers>>, Sound(c, p), p.at \in {"sent",
             "clear"}
      PROVE  IInv'
  BY <1>2, CallMoves DEF server, observers, IInv, TypeOK, Halfway
<1>3. CASE StartData(c)
  <2> DEFINE p == [Idle EXCEPT !.at = "sent", !.token = access]
  <2>1. /\ p \in CallType /\ Sound(c, p) /\ p.at = "sent"
    BY <1>1, <1>3 DEF StartData, AppScreen, Idle, CallType, Kind, Steps, ExchangeSteps, ClearSteps,
       Sound, CallFits,
       AsksWho, Timely, Justified, Exchanging
  <2> QED
    BY <1>2, <1>3, <2>1 DEF StartData, Free, Busy
<1>4. ASSUME NEW a \in Account, StartLogin(c, a) PROVE IInv'
  <2> DEFINE p == [Idle EXCEPT !.kind = "login", !.at = "sent", !.who = a]
  <2>1. /\ p \in CallType /\ Sound(c, p) /\ p.at = "sent"
    BY <1>1, <1>4 DEF StartLogin, LoginScreen, Idle, CallType, Kind, Steps, ExchangeSteps,
       ClearSteps, Sound, CallFits,
       AsksWho, Timely, Justified, Exchanging
  <2> QED
    BY <1>2, <1>4, <2>1 DEF StartLogin, Free, Busy
<1>5. CASE StartLogout(c)
  <2> DEFINE p == [Idle EXCEPT !.kind = "logout", !.token = access, !.body = refresh,
                               !.at = IF refresh = NoToken THEN "clear" ELSE "sent"]
  <2>1. /\ p \in CallType /\ Sound(c, p) /\ p.at \in {"sent", "clear"}
    BY <1>1, <1>5 DEF StartLogout, ProfileScreen, AppScreen, Idle, CallType, Kind, Steps,
       ExchangeSteps, ClearSteps,
       Sound, CallFits, AsksWho, Timely, Justified, Exchanging
  <2> QED
    BY <1>2, <1>5, <2>1 DEF StartLogout, Free, Busy
<1>6. CASE Boot(c) /\ access # NoToken
  <2> DEFINE p == [Idle EXCEPT !.kind = "me", !.at = "sent", !.token = access]
  <2>1. /\ p \in CallType /\ Sound(c, p) /\ p.at = "sent"
    BY <1>1, <1>6 DEF Boot, Idle, CallType, Kind, Steps, ExchangeSteps, ClearSteps,
       Sound, CallFits, AsksWho, Timely, Justified, Exchanging
  <2> QED
    BY <1>2, <1>6, <2>1 DEF Boot, Busy, context
<1> QED
  BY <1>3, <1>4, <1>5, <1>6

\* A call that is answered, refused or lost, and the exchange it makes on the way.
LEMMA AnswersAreSound ==
    ASSUME IInv, NEW c \in Call,
           \/ (Answer(c) /\ call[c].kind # "me")
           \/ Reject(c) \/ CheckRefresh(c) \/ Exchange(c) \/ FailRefresh(c) \/ Deny(c)
           \/ Resend(c)
           \/ (LoseAnswer(c) /\ ~(call[c].at = "sent" /\ call[c].kind = "me"))
    PROVE  IInv'
<1>1. /\ access \in AccessToken \cup {NoToken} /\ refresh \in Login \cup {NoToken}
      /\ call[c] \in CallType /\ Sound(c, call[c])
      /\ live \subseteq Login /\ expired \subseteq AccessToken
      /\ \A l \in Login : Renewed(l) \in AccessToken
      /\ NoToken \notin AccessToken
  BY TokenFacts DEF IInv, TypeOK
<1>2. ASSUME NEW p \in CallType, call' = [call EXCEPT ![c] = p],
             UNCHANGED <<storage, context, owner, torn, kept>>,
             live' \subseteq live, expired' \subseteq AccessToken,
             ~Halfway(c), p.at \notin {"clear2", "granted2"}, Sound(c, p)
      PROVE  IInv'
  BY <1>2, CallMoves
<1>3. Idle \in CallType /\ Sound(c, Idle) /\ Idle.at = "idle"
  BY DEF Idle, CallType, Kind, Steps, ExchangeSteps, ClearSteps, Sound, CallFits, AsksWho, Timely,
     Justified, Exchanging
<1>4. CASE End(c) /\ UNCHANGED <<storage, context, server, observers>> /\ ~Halfway(c)
  BY <1>1, <1>2, <1>3, <1>4 DEF End, server, observers
<1>5. CASE Answer(c) /\ call[c].kind = "logout"
  <2> DEFINE p == [Idle EXCEPT !.kind = "logout", !.at = "clear"]
  <2>1. p \in CallType /\ Sound(c, p) /\ p.at = "clear"
    BY <1>1, <1>5 DEF Answer, Idle, CallType, Kind, Steps, ExchangeSteps, ClearSteps, Sound,
       CallFits, AsksWho, Timely, Justified, Exchanging
  <2>2. call' = [call EXCEPT ![c] = p]
    BY <1>5 DEF Answer, SignOut
  <2> HIDE DEF p
  <2> QED
    BY <1>1, <1>2, <1>5, <2>1, <2>2 DEF Answer, Halfway, context, observers
<1>6. CASE Reject(c)
  <2> DEFINE p == [call[c] EXCEPT !.at = IF refresh = NoToken THEN "clear" ELSE "renewing",
                                  !.token = NoToken, !.rt = refresh]
  <2>1. p \in CallType /\ p.at \in {"clear", "renewing"}
    BY <1>1 DEF CallType, Steps, ExchangeSteps, ClearSteps
  <2>2. /\ CallFits(p) /\ AsksWho(c, p) /\ (Exchanging(p) => p.rt = refresh)
    BY <1>1, <1>6 DEF Reject, CallType, Sound, CallFits, AsksWho, Exchanging, ExchangeSteps
  <2>3. ~torn => Justified(p)
    BY <1>1, <1>6 DEF Reject, CallType, Justified, ClearSteps, IInv, UserAgrees
  <2>4. call' = [call EXCEPT ![c] = p]
    BY <1>6 DEF Reject, IInv
  <2>5. Sound(c, p)
    BY <2>2, <2>3 DEF Sound, Timely
  <2> HIDE DEF p
  <2> QED
    BY <1>1, <1>2, <1>6, <2>1, <2>4, <2>5 DEF Reject, Halfway, server, observers
<1>7. CASE CheckRefresh(c)
  <2> DEFINE p == [call[c] EXCEPT !.at = IF call[c].rt \in live THEN "checked" ELSE "clear"]
  <2>0. ~torn => user = NoOne \/ refresh # NoToken
    BY DEF IInv, UserAgrees
  <2>1. p \in CallType /\ Sound(c, p) /\ p.at \in {"checked", "clear"}
    BY <1>1, <1>7, <2>0 DEF CheckRefresh, CallType, Steps, ExchangeSteps, ClearSteps, Sound,
       CallFits, AsksWho, Timely, Justified, Exchanging
  <2>2. call' = [call EXCEPT ![c] = p]
    BY <1>7 DEF CheckRefresh, At, IInv
  <2> HIDE DEF p
  <2> QED
    BY <1>1, <1>2, <1>7, <2>1, <2>2 DEF CheckRefresh, Halfway, server, observers
<1>8. CASE Exchange(c)
  <2> DEFINE p == [call[c] EXCEPT !.at = "renewed", !.token = Renewed(call[c].rt)]
  <2>1. call[c].rt \in Login
    BY <1>1, <1>8 DEF Exchange, CallType, Sound, CallFits, Exchanging, ExchangeSteps
  <2>2. p \in CallType /\ Sound(c, p) /\ p.at = "renewed"
    BY <1>1, <1>8, <2>1 DEF Exchange, CallType, Steps, ExchangeSteps, ClearSteps, Sound, CallFits,
       AsksWho, Timely, Justified, Exchanging
  <2>3. call' = [call EXCEPT ![c] = p]
    BY <1>8 DEF Exchange, IInv
  <2> HIDE DEF p
  <2> QED
    BY <1>1, <1>2, <1>8, <2>1, <2>2, <2>3 DEF Exchange, Halfway, observers
<1>9. CASE Resend(c)
  <2> DEFINE p == [call[c] EXCEPT !.at = "sent", !.token = access]
  <2>1. p \in CallType /\ Sound(c, p) /\ p.at = "sent"
    BY <1>1, <1>9 DEF Resend, CallType, Steps, ExchangeSteps, ClearSteps, Sound, CallFits, AsksWho,
       Timely, Justified, Exchanging
  <2>2. call' = [call EXCEPT ![c] = p]
    BY <1>9 DEF Resend, IInv
  <2> HIDE DEF p
  <2> QED
    BY <1>1, <1>2, <1>9, <2>1, <2>2 DEF Resend, Halfway, server, observers
<1>10. CASE LoseLogout(c) /\ UNCHANGED <<storage, context, server, observers>>
  <2> DEFINE p == [Idle EXCEPT !.kind = "logout", !.at = "clear"]
  <2>1. p \in CallType /\ Sound(c, p) /\ p.at = "clear"
    BY <1>1, <1>10 DEF LoseLogout, Idle, CallType, Kind, Steps, ExchangeSteps, ClearSteps, Sound,
       CallFits, AsksWho, Timely, Justified, Exchanging
  <2>2. call' = [call EXCEPT ![c] = p]
    BY <1>10 DEF LoseLogout, SignOut
  <2> HIDE DEF p
  <2> QED
    BY <1>1, <1>2, <1>10, <2>1, <2>2 DEF LoseLogout, Halfway, server, observers
<1>11. CASE /\ call[c].at \in ExchangeSteps
            /\ NoVerdict(c)
            /\ UNCHANGED <<storage, context, owner, expired, observers>>
            /\ live' \subseteq live
  <2> DEFINE p == [call[c] EXCEPT !.at = "clear", !.token = NoToken, !.rt = NoToken,
                                  !.failed = TRUE]
  <2>1. p \in CallType /\ Sound(c, p) /\ p.at = "clear"
    BY <1>1, <1>11 DEF CallType, Steps, ExchangeSteps, ClearSteps, Sound, CallFits, AsksWho,
       Timely, Justified, Exchanging
  <2>2. call' = [call EXCEPT ![c] = p]
    BY <1>11 DEF NoVerdict, IInv
  <2> HIDE DEF p
  <2> QED
    BY <1>1, <1>2, <1>11, <2>1, <2>2 DEF Halfway, ExchangeSteps, observers
<1>12. CASE Answer(c) /\ call[c].kind = "data"
  BY <1>4, <1>12 DEF Answer, Halfway, context, server
<1>13. CASE Deny(c)
  BY <1>4, <1>13 DEF Deny, Halfway
<1>14. CASE LoseAnswer(c) /\ ~(call[c].at = "sent" /\ call[c].kind = "me")
  BY <1>1, <1>4, <1>10, <1>11, <1>14 DEF LoseAnswer, Halfway, ExchangeSteps, context, server,
     observers
<1>15. Answer(c) => call[c].kind \in {"data", "me", "logout"}
  BY DEF Answer
<1>16. CASE FailRefresh(c)
  <2>1. call[c].at \in ExchangeSteps /\ call[c].rt \in Login
    BY <1>1, <1>16 DEF FailRefresh, CallType, Sound, CallFits, Exchanging, ExchangeSteps
  <2> QED
    BY <1>1, <1>11, <1>16, <2>1 DEF FailRefresh
<1> QED
  BY <1>5, <1>6, <1>7, <1>8, <1>9, <1>12, <1>13, <1>14, <1>15, <1>16

-------------------------------------------------------------------------------
(* The start of the app ends *)

\* What the calls are about, when a step leaves them, the tokens and the logins alone.
LEMMA StartEnds ==
    ASSUME IInv, NEW c \in Call, c = 1, loading, call' = [call EXCEPT ![c] = Idle],
           UNCHANGED <<storage, route, server, torn>>, loading' = FALSE,
           user' \in Account \cup {NoOne}, ~Halfway(c),
           \A d \in Call \ {c} : ~Busy(d),
           ~torn => UserAgrees'
    PROVE  IInv'
<1>1. Idle \in CallType /\ Idle.at = "idle"
  BY DEF Idle, CallType, Kind, Steps, ExchangeSteps, ClearSteps
<1>2. /\ call' \in [Call -> CallType] /\ call'[c] = Idle
      /\ \A d \in Call \ {c} : call'[d] = call[d]
  BY <1>1, CallSteps
<1>3. TypeOK' /\ (call \in [Call -> CallType])'
  BY <1>2, TypesStay DEF IInv, TypeOK, storage, server
<1>4. \A d \in Call : call'[d].at = "idle"
  BY <1>1, <1>2 DEF Busy
<1>5. \A d \in Call : Sound(d, call[d])'
  BY <1>4 DEF Sound, Timely, CallFits, AsksWho, Justified, Exchanging, ExchangeSteps, ClearSteps
<1>6. ~torn' => TokensAgree'
  <2>1. \A d \in Call : ~Halfway(d)
    BY DEF Busy, Halfway
  <2> QED
    BY <1>4, <2>1 DEF IInv, TokensAgree, Halfway, storage
<1> QED
  BY <1>3, <1>5, <1>6 DEF IInv

\* Nobody is asked about, or the answer tells whose the tokens are, or it is lost.
LEMMA StartIsSound ==
    ASSUME IInv, NEW c \in Call,
           \/ (Boot(c) /\ access = NoToken)
           \/ (Answer(c) /\ call[c].kind = "me")
           \/ (LoseAnswer(c) /\ call[c].at = "sent" /\ call[c].kind = "me")
    PROVE  IInv'
<1>1. Sound(c, call[c]) /\ call[c] \in CallType
      /\ \A d \in Call : Sound(d, call[d])
  BY DEF IInv
<1>2. CASE Boot(c) /\ access = NoToken
  <2>1. /\ loading' = FALSE /\ loading /\ user = NoOne
        /\ UNCHANGED <<storage, user, route, server, observers, call>>
        /\ \A d \in Call : ~Busy(d)
    BY <1>2 DEF Boot, IInv
  <2>2. ~torn => refresh = NoToken
    BY <1>2, <2>1 DEF IInv, TokensAgree, Busy, Halfway
  <2>3. TypeOK' /\ (call \in [Call -> CallType])'
    BY <2>1, TypesStay DEF IInv, TypeOK, storage, server
  <2>4. \A d \in Call : call'[d].at = "idle"
    BY <2>1 DEF Busy
  <2>5. \A d \in Call : Sound(d, call[d])'
    BY <2>4 DEF Sound, Timely, CallFits, AsksWho, Justified, Exchanging, ExchangeSteps, ClearSteps
  <2>6. ~torn' => TokensAgree' /\ UserAgrees'
    BY <2>1, <2>2 DEF IInv, TokensAgree, UserAgrees, Halfway, storage, observers
  <2> QED
    BY <2>1, <2>3, <2>5, <2>6 DEF IInv
<1>3. CASE call[c].at = "sent" /\ call[c].kind = "me"
  <2>1. /\ loading /\ c = 1 /\ call[c].token = access /\ user = NoOne
    BY <1>1, <1>3 DEF Sound, AsksWho, IInv
  <2>2. \A d \in Call \ {c} : ~Busy(d)
    BY <1>1, <2>1 DEF Sound, AsksWho, Busy
  <2>3. ~Halfway(c) /\ \A d \in Call : ~Halfway(d)
    BY <1>3, <2>2 DEF Halfway, Busy
  <2>4. CASE Answer(c)
    <3>1. /\ user' = owner[LoginOf(access)] /\ loading' = FALSE /\ End(c)
          /\ access # NoToken /\ UNCHANGED <<storage, route, server, torn>>
      BY <1>3, <2>1, <2>4 DEF Answer, Accepted, server, observers
    <3>2. access \in AccessToken
      BY <3>1 DEF IInv, TypeOK
    <3>3. user' \in Account /\ user' # NoOne
      BY <3>1, <3>2, TokenFacts DEF IInv
    <3>4. ~torn => refresh # NoToken /\ LoginOf(access) = refresh
      BY <2>3, <3>1 DEF IInv, TokensAgree
    <3>5. ~torn => UserAgrees'
      BY <3>1, <3>3, <3>4 DEF UserAgrees, storage, server
    <3> QED
      BY <2>1, <2>2, <2>3, <3>1, <3>3, <3>5, StartEnds DEF End
  <2>5. CASE LoseAnswer(c)
    <3>1. /\ loading' = FALSE /\ End(c) /\ kept' = TRUE /\ user' = user
          /\ UNCHANGED <<storage, route, server, torn>>
      BY <1>3, <2>5 DEF LoseAnswer, LoseLogout
    <3>2. UserAgrees'
      BY <2>1, <3>1 DEF UserAgrees
    <3> QED
      BY <2>1, <2>2, <2>3, <3>1, <3>2, StartEnds DEF End
  <2> QED
    BY <1>2, <1>3, <2>4, <2>5 DEF Boot, Busy
<1> QED
  BY <1>2, <1>3 DEF Answer

-------------------------------------------------------------------------------
(* Steps of the server and of the person *)

\* A login is granted: there is one more, whose tokens nobody has yet.
LEMMA GrantIsSound ==
    ASSUME IInv, NEW c \in Call, Grant(c)
    PROVE  IInv'
<1> DEFINE l == Len(owner) + 1
           p == [call[c] EXCEPT !.at = "granted", !.rt = l]
<1>1. /\ owner \in Seq(Account) /\ Len(owner) \in Nat /\ call[c] \in CallType
      /\ Sound(c, call[c]) /\ call[c].at = "sent" /\ call[c].kind = "login"
      /\ call[c].who \in Account
  BY DEF IInv, TypeOK, Grant, Sound, CallFits
<1>2. /\ owner' \in Seq(Account) /\ Len(owner') = l /\ owner'[l] = call[c].who
      /\ \A k \in Login : owner'[k] = owner[k]
  BY <1>1 DEF Grant, Login
<1>3. /\ Login \subseteq Login' /\ l \in Login' /\ l \notin Login /\ l # NoToken
      /\ AccessToken \subseteq AccessToken'
  BY <1>1, <1>2 DEF Login, AccessToken, Renewed, NoToken
<1>4. CallType \subseteq CallType' /\ p \in CallType'
  BY <1>1, <1>3 DEF CallType, Steps, ExchangeSteps, ClearSteps
<1>5. call' = [call EXCEPT ![c] = p]
  BY DEF Grant, IInv
<1>6. /\ p.at = "granted" /\ p.rt = l /\ p.who = call[c].who /\ p.kind = "login"
  BY <1>1 DEF CallType
<1> HIDE DEF p
<1>7. /\ call' \in [Call -> CallType'] /\ call'[c] = p
      /\ \A d \in Call \ {c} : call'[d] = call[d]
  BY <1>4, <1>5 DEF IInv
<1>8. /\ UNCHANGED <<storage, context, observers>>
      /\ expired' \subseteq AccessToken' /\ live' \subseteq Login' /\ live' \subseteq live \cup {l}
  BY <1>3 DEF Grant, IInv, TypeOK
<1>9. TypeOK'
  <2>1. \A d \in Call : /\ call'[d].kind \in Kind /\ call'[d].at \in Steps
                        /\ call'[d].token \in AccessToken' \cup {NoToken}
                        /\ {call'[d].rt, call'[d].body} \subseteq Login' \cup {NoToken}
    <3>1. \A d \in Call : call'[d] \in CallType'
      BY <1>7
    <3> QED
      BY <3>1 DEF CallType
  <2> QED
    BY <1>2, <1>3, <1>8, <2>1 DEF IInv, TypeOK, storage, context
<1>10. ASSUME NEW d \in Call PROVE Sound(d, call[d])'
  <2>1. CASE d = c
    <3>1. ~loading' /\ call'[d] = p
      BY <1>1, <1>7, <1>8, <2>1 DEF Sound, AsksWho, context
    <3>2. CallFits(call[d])'
      BY <1>1, <1>2, <1>3, <1>6, <3>1 DEF CallFits, Exchanging, ExchangeSteps
    <3>3. AsksWho(d, call[d])' /\ ~Exchanging(call'[d]) /\ Justified(call[d])'
      BY <1>6, <3>1 DEF AsksWho, Justified, Exchanging, ExchangeSteps, ClearSteps
    <3> QED
      BY <3>2, <3>3 DEF Sound, Timely, Exchanging
  <2>2. CASE d # c
    <3>1. /\ call'[d] = call[d] /\ Sound(d, call[d])
          /\ call[d].rt \in Login \cup {NoToken}
      BY <1>7, <2>2 DEF IInv, CallType
    <3>2. call[d].rt # l
      BY <1>3, <3>1
    <3>3. call[d].rt # NoToken => owner'[call[d].rt] = owner[call[d].rt]
      BY <1>2, <3>1
    <3>4. CallFits(call[d])'
      BY <3>1, <3>3 DEF Sound, CallFits, Exchanging
    <3>5. AsksWho(d, call[d])'
      BY <1>8, <3>1 DEF Sound, AsksWho, storage, context
    <3>6. ~torn' => Timely(call[d])'
      <4>1. call[d].rt \notin live => call[d].rt \notin live'
        BY <1>8, <3>2
      <4> QED
        BY <1>8, <3>1, <4>1 DEF Sound, Timely, Exchanging, Justified, storage, context, observers
    <3> QED
      BY <3>4, <3>5, <3>6 DEF Sound
  <2> QED
    BY <2>1, <2>2
<1>11. ~torn' => TokensAgree' /\ UserAgrees'
  <2>1. \A d \in Call : Halfway(d)' <=> Halfway(d)
    BY <1>1, <1>6, <1>7 DEF Halfway
  <2>2. \A d \in Call : /\ call'[d].at = "clear2" <=> call[d].at = "clear2"
                        /\ call'[d].at = "granted2" <=> call[d].at = "granted2"
                        /\ call[d].at = "granted2" => call'[d].rt = call[d].rt
    BY <1>1, <1>6, <1>7
  <2>3. ~torn => TokensAgree'
    BY <1>8, <2>1, <2>2 DEF IInv, TokensAgree, storage
  <2>4. refresh # NoToken => owner'[refresh] = owner[refresh]
    BY <1>2 DEF IInv, TypeOK
  <2>5. ~torn => UserAgrees'
    BY <1>8, <2>4 DEF IInv, UserAgrees, storage, context, observers
  <2> QED
    BY <1>8, <2>3, <2>5 DEF observers
<1> QED
  BY <1>7, <1>8, <1>9, <1>10, <1>11 DEF IInv, context

\* Time passes, and the navigator follows the auth context.
LEMMA IdleIsSound ==
    ASSUME IInv, \/ \E t \in AccessToken : Expire(t)
                 \/ \E t \in Login : Retire(t)
                 \/ Redirect \/ UNCHANGED vars
    PROVE  IInv'
<1>1. /\ UNCHANGED <<storage, user, loading, call, owner, observers>>
      /\ route' \in {"app", "auth"} /\ expired' \subseteq AccessToken /\ live' \subseteq live
  BY DEF Expire, Retire, Redirect, vars, server, context, IInv, TypeOK
<1>2. TypeOK' /\ (call \in [Call -> CallType])'
  BY <1>1, TypesStay DEF IInv, TypeOK, storage
<1>3. \A c \in Call : Sound(c, call[c])'
  BY <1>1 DEF IInv, Sound, CallFits, AsksWho, Timely, Justified, Exchanging, ExchangeSteps,
     ClearSteps, storage, observers
<1>4. ~torn' => TokensAgree' /\ UserAgrees'
  BY <1>1 DEF IInv, TokensAgree, UserAgrees, Halfway, storage, observers
<1> QED
  BY <1>1, <1>2, <1>3, <1>4 DEF IInv

\* A killed app keeps its tokens; those of one login, if no call was writing.
LEMMA RestartIsSound ==
    ASSUME IInv, Restart
    PROVE  IInv'
<1>1. Idle \in CallType /\ Idle.at = "idle"
  BY DEF Idle, CallType, Kind, Steps, ExchangeSteps, ClearSteps
<1>2. call' \in [Call -> CallType] /\ \A d \in Call : call'[d].at = "idle"
  BY <1>1 DEF Restart
<1>3. /\ UNCHANGED <<storage, server>> /\ user' = NoOne /\ loading' = TRUE /\ route' = "app"
  BY DEF Restart
<1>4. TypeOK' /\ (call \in [Call -> CallType])'
  BY <1>2, <1>3, TypesStay DEF IInv, TypeOK, storage, server
<1>5. \A d \in Call : Sound(d, call[d])'
  BY <1>2 DEF Sound, Timely, CallFits, AsksWho, Justified, Exchanging, ExchangeSteps, ClearSteps
<1>6. ~torn' => TokensAgree'
  <2>1. ~torn' => ~torn /\ \A c \in Call : ~Halfway(c)
    BY DEF Restart
  <2> QED
    BY <1>2, <1>3, <2>1 DEF IInv, TokensAgree, Halfway, storage
<1>7. UserAgrees'
  BY <1>3 DEF UserAgrees
<1> QED
  BY <1>3, <1>4, <1>5, <1>6, <1>7 DEF IInv

-------------------------------------------------------------------------------
(* Writes *)

\* The first of two tokens is written or removed.
LEMMA FirstWriteIsSound ==
    ASSUME IInv, NEW c \in Call, RemoveAccess(c) \/ LoginStoresAccess(c)
    PROVE  IInv'
<1>1. /\ call[c] \in CallType /\ Sound(c, call[c]) /\ call[c].at \in {"clear", "granted"}
  BY DEF IInv, RemoveAccess, LoginStoresAccess
<1>2. PICK step \in {"clear2", "granted2"} :
        /\ At(c, step)
        /\ IF step = "clear2" THEN call[c].at = "clear" /\ access' = NoToken
           ELSE call[c].at = "granted" /\ access' = First(call[c].rt)
  BY DEF RemoveAccess, LoginStoresAccess
<1> DEFINE p == [call[c] EXCEPT !.at = step]
<1>3. /\ p \in CallType /\ p.at = step /\ p.kind = call[c].kind /\ p.rt = call[c].rt
      /\ p.who = call[c].who /\ p.failed = call[c].failed
  BY <1>1 DEF CallType, Steps, ExchangeSteps, ClearSteps
<1>4. call' = [call EXCEPT ![c] = p]
  BY <1>2 DEF At, IInv
<1> HIDE DEF p
<1>5. /\ call' \in [Call -> CallType] /\ call'[c] = p
      /\ \A d \in Call \ {c} : call'[d] = call[d]
  BY <1>3, <1>4, CallSteps
<1>6. UNCHANGED <<refresh, context, server, observers>>
  BY DEF RemoveAccess, LoginStoresAccess
<1>7. access' \in AccessToken \cup {NoToken}
  <2>1. call[c].at = "granted" => call[c].rt \in Login
    BY <1>1 DEF Sound, CallFits, CallType
  <2> QED
    BY <1>2, <2>1, TokenFacts DEF IInv
<1>8. TypeOK' /\ (call \in [Call -> CallType])'
  BY <1>5, <1>6, <1>7, TypesStay DEF IInv, TypeOK, context, server
<1>9. ASSUME NEW d \in Call PROVE Sound(d, call[d])'
  <2>1. CASE d = c
    BY <1>1, <1>2, <1>3, <1>5, <1>6, <2>1
       DEF Sound, Timely, CallFits, AsksWho, Justified, Exchanging, ExchangeSteps, ClearSteps,
           context, server, observers
  <2>2. CASE d # c
    <3>1. call'[d] = call[d] /\ Sound(d, call[d])
      BY <1>5, <2>2 DEF IInv
    <3>2. call[d].at = "sent" => ~(loading \/ call[d].kind = "me")
      BY <1>1, <2>2, <3>1 DEF Sound, AsksWho
    <3> QED
      BY <1>6, <3>1, <3>2
         DEF Sound, Timely, CallFits, AsksWho, Justified, Exchanging, ExchangeSteps, ClearSteps,
             context, server, observers
  <2> QED
    BY <2>1, <2>2
<1>10. ~torn' => TokensAgree'
  <2>1. /\ Halfway(c)' /\ ~Halfway(c) /\ call'[c].at = step
        /\ \A d \in Call \ {c} : call'[d] = call[d]
    BY <1>1, <1>3, <1>5 DEF Halfway
  <2>2. access' = IF step = "clear2" THEN NoToken ELSE First(call'[c].rt)
    BY <1>2, <1>3, <1>5
  <2>3. ASSUME NEW d \in Call, call'[d].at = "granted2", \A e \in Call \ {d} : ~Halfway(e)'
        PROVE  access' = First(call'[d].rt)
    BY <2>1, <2>2, <2>3
  <2>4. (\A d \in Call : call'[d].at # "granted2") => access' = NoToken
    BY <2>1, <2>2
  <2> QED
    BY <2>1, <2>3, <2>4 DEF TokensAgree
<1>11. ~torn' => UserAgrees'
  BY <1>6 DEF IInv, UserAgrees, context, server, observers
<1> QED
  BY <1>6, <1>8, <1>9, <1>10, <1>11 DEF IInv, context

\* The last write of a call: the others stay sound if they stay timely.
LEMMA LastWriteIsSound ==
    ASSUME IInv, NEW c \in Call, call[c].at # "idle",
           NEW p \in CallType, call' = [call EXCEPT ![c] = p], p.at \in {"idle", "resend"},
           p.at = "resend" => p.kind = call[c].kind /\ p.who = call[c].who,
           UNCHANGED <<route, server>>,
           access' \in AccessToken \cup {NoToken}, refresh' \in Login \cup {NoToken},
           user' \in Account \cup {NoOne}, loading' \in BOOLEAN,
           loading' => loading /\ user' = NoOne,
           loading /\ ~loading' => call[c].kind = "me" /\ p.at = "idle",
           ~torn' => /\ ~torn /\ TokensAgree' /\ UserAgrees'
                     /\ \A d \in Call \ {c} : Timely(call[d])'
    PROVE  IInv'
<1>1. /\ call' \in [Call -> CallType] /\ call'[c] = p
      /\ \A d \in Call \ {c} : call'[d] = call[d]
  BY CallSteps
<1>2. TypeOK' /\ (call \in [Call -> CallType])'
  BY <1>1, TypesStay DEF IInv, TypeOK, server
<1>3. \A d \in Call \ {c} : Sound(d, call[d])
  BY DEF IInv
<1>4. Sound(c, call[c])
  BY DEF IInv
<1>5. ASSUME NEW d \in Call PROVE Sound(d, call[d])'
  <2>1. CASE d = c
    <3>1. CallFits(call[d])' /\ Timely(call[d])'
      <4>1. p.at = "resend" /\ p.kind = "login" => p.who \in Account
        BY <1>4 DEF Sound, CallFits
      <4> QED
        BY <1>1, <2>1, <4>1 DEF CallFits, Timely, Exchanging, Justified, ExchangeSteps, ClearSteps
    <3>2. AsksWho(d, call[d])'
      BY <1>1, <1>4, <2>1 DEF Sound, AsksWho
    <3> QED
      BY <3>1, <3>2 DEF Sound
  <2>2. CASE d # c
    <3>1. call'[d] = call[d] /\ Sound(d, call[d])
      BY <1>1, <1>3, <2>2
    <3>2. CallFits(call[d])'
      BY <3>1 DEF Sound, CallFits, Exchanging, server
    <3>3. AsksWho(d, call[d])'
      BY <1>4, <2>2, <3>1 DEF Sound, AsksWho
    <3> QED
      BY <2>2, <3>2, <3>3 DEF Sound
  <2> QED
    BY <2>1, <2>2
<1> QED
  BY <1>2, <1>5 DEF IInv

\* An exchange stores its access token beside the refresh token it was about.
LEMMA RenewalIsSound ==
    ASSUME IInv, NEW c \in Call, StoreRenewed(c)
    PROVE  IInv'
<1> DEFINE p == [call[c] EXCEPT !.at = "resend", !.token = NoToken, !.rt = NoToken]
<1>1. /\ call[c] \in CallType /\ Sound(c, call[c]) /\ refresh \in Login \cup {NoToken}
      /\ user \in Account \cup {NoOne} /\ loading \in BOOLEAN /\ (loading => user = NoOne)
  BY DEF IInv, TypeOK
<1>2. /\ p \in CallType /\ p.at = "resend" /\ p.kind = call[c].kind /\ p.who = call[c].who
  BY <1>1 DEF CallType, Steps
<1>3. call' = [call EXCEPT ![c] = p]
  BY DEF StoreRenewed, IInv
<1> HIDE DEF p
<1>4. /\ call'[c] = p /\ \A d \in Call \ {c} : call'[d] = call[d]
  BY <1>2, <1>3, CallSteps
<1>5. /\ call[c].at = "renewed" /\ access' = call[c].token
      /\ UNCHANGED <<refresh, context, server, kept>>
  BY DEF StoreRenewed
<1>6. call[c].rt \in Login /\ access' = Renewed(call[c].rt)
  BY <1>1, <1>5 DEF Sound, CallFits, CallType, Exchanging, ExchangeSteps
<1>7. ~torn' => ~torn /\ call[c].rt = refresh /\ \A d \in Call \ {c} : ~Halfway(d)
  BY DEF StoreRenewed, Interleaved, Halfway
<1>8. access' \in AccessToken
  BY <1>6, TokenFacts DEF IInv
<1>9. ~torn' => TokensAgree'
  <2>1. ~torn' => access' # NoToken /\ LoginOf(access') = refresh' /\ refresh' # NoToken
    BY <1>5, <1>6, <1>7, TokenFacts DEF IInv
  <2>2. ~torn' => \A d \in Call : ~Halfway(d)'
    BY <1>2, <1>4, <1>7 DEF Halfway
  <2> QED
    BY <2>1, <2>2 DEF TokensAgree, Halfway
<1>10. ~torn' => UserAgrees'
  BY <1>5, <1>7 DEF IInv, UserAgrees, context, server
<1>11. ~torn' => \A d \in Call \ {c} : Timely(call[d])'
  BY <1>4, <1>5, <1>7 DEF IInv, Sound, Timely, Exchanging, Justified, context, server
<1> QED
  BY <1>1, <1>2, <1>3, <1>5, <1>7, <1>8, <1>9, <1>10, <1>11, LastWriteIsSound DEF context

\* A session ends; what others do about it finds nobody signed in.
LEMMA EndIsSound ==
    ASSUME IInv, NEW c \in Call, ClearSession(c)
    PROVE  IInv'
<1>1. Idle \in CallType /\ Idle.at = "idle"
  BY DEF Idle, CallType, Kind, Steps, ExchangeSteps, ClearSteps
<1>2. /\ call[c].at = "clear2" /\ refresh' = NoToken /\ user' = NoOne
      /\ call' = [call EXCEPT ![c] = Idle]
      /\ loading' = (loading /\ call[c].kind # "me") /\ UNCHANGED <<access, route, server>>
  BY DEF ClearSession, End
<1>3. /\ call'[c] = Idle /\ \A d \in Call \ {c} : call'[d] = call[d]
  BY <1>1, <1>2, CallSteps
<1>4. ~torn' => ~torn /\ \A d \in Call : call[d].at # "granted2"
  BY <1>2 DEF ClearSession, Interleaved
<1>5. ~torn' => access' = NoToken
  BY <1>2, <1>4 DEF IInv, TokensAgree
<1>6. ~torn' => TokensAgree'
  <2>1. ~torn' => \A d \in Call : call'[d].at # "granted2"
    BY <1>1, <1>3, <1>4
  <2> QED
    BY <1>2, <1>5, <2>1 DEF TokensAgree
<1>7. UserAgrees' /\ \A d \in Call \ {c} : Timely(call[d])'
  BY <1>2 DEF UserAgrees, Timely, Justified
<1>8. /\ access \in AccessToken \cup {NoToken} /\ loading \in BOOLEAN
  BY DEF IInv, TypeOK
<1> QED
  BY <1>1, <1>2, <1>4, <1>6, <1>7, <1>8, LastWriteIsSound

\* A login ends; it is the only one that writes.
LEMMA LoginIsSound ==
    ASSUME IInv, NEW c \in Call, LoginStoresRefresh(c)
    PROVE  IInv'
<1>1. /\ call[c] \in CallType /\ Sound(c, call[c])
      /\ access \in AccessToken \cup {NoToken} /\ loading \in BOOLEAN
  BY DEF IInv, TypeOK
<1>2. Idle \in CallType /\ Idle.at = "idle"
  BY DEF Idle, CallType, Kind, Steps, ExchangeSteps, ClearSteps
<1>3. /\ call[c].at = "granted2" /\ refresh' = call[c].rt /\ user' = call[c].who
      /\ call' = [call EXCEPT ![c] = Idle] /\ UNCHANGED <<access, loading, route, server>>
  BY DEF LoginStoresRefresh, End
<1>4. /\ call'[c] = Idle /\ \A d \in Call \ {c} : call'[d] = call[d]
  BY <1>2, <1>3, CallSteps
<1>5. /\ call[c].rt \in Login /\ owner[call[c].rt] = call[c].who
      /\ call[c].who \in Account /\ call[c].who # NoOne /\ call[c].rt # NoToken
  BY <1>1, <1>3, TokenFacts DEF Sound, CallFits, CallType, IInv
<1>6. ~torn' => /\ ~torn
                /\ \A d \in Call \ {c} : ~Halfway(d) /\ call[d].at \notin ExchangeSteps \cup ClearSteps
  BY DEF LoginStoresRefresh, Interleaved, Halfway, ClearSteps
<1>7. ~torn' => TokensAgree'
  <2>1. ~torn' => access' = First(call[c].rt)
    BY <1>3, <1>6 DEF IInv, TokensAgree
  <2>2. ~torn' => access' # NoToken /\ LoginOf(access') = refresh'
    BY <1>3, <1>5, <2>1, TokenFacts DEF IInv
  <2>3. ~torn' => \A d \in Call : ~Halfway(d)'
    BY <1>2, <1>4, <1>6 DEF Halfway
  <2> QED
    BY <1>3, <1>5, <2>2, <2>3 DEF TokensAgree, Halfway
<1>8. UserAgrees'
  BY <1>3, <1>5 DEF UserAgrees, server
<1>9. ~torn' => \A d \in Call \ {c} : Timely(call[d])'
  BY <1>4, <1>6 DEF Timely, Exchanging, Justified
<1>10. ~loading
  BY <1>1, <1>3 DEF Sound, CallFits, AsksWho
<1> QED
  BY <1>1, <1>2, <1>3, <1>5, <1>6, <1>7, <1>8, <1>9, <1>10, LastWriteIsSound

-------------------------------------------------------------------------------
(* The theorems *)

\* Nothing is stored and nothing is under way.
LEMMA InitIInv == Init => IInv
<1> SUFFICES ASSUME Init PROVE IInv
  OBVIOUS
<1>1. owner = <<>> /\ owner \in Seq(Account)
  BY DEF Init
<1>2. Idle \in CallType /\ Idle.at = "idle"
  BY DEF Idle, CallType, Kind, Steps, ExchangeSteps, ClearSteps
<1>3. call \in [Call -> CallType] /\ \A c \in Call : call[c].at = "idle"
  BY <1>2 DEF Init
<1>4. TypeOK
  <2>1. \A c \in Call : /\ call[c].kind \in Kind /\ call[c].at \in Steps
                        /\ call[c].token \in AccessToken \cup {NoToken}
                        /\ {call[c].rt, call[c].body} \subseteq Login \cup {NoToken}
    <3>1. \A c \in Call : call[c] \in CallType
      BY <1>3
    <3> QED
      BY <3>1 DEF CallType
  <2> QED
    BY <1>1, <2>1 DEF Init, TypeOK
<1>5. \A c \in Call : Sound(c, call[c])
  BY <1>3 DEF Sound, Timely, CallFits, AsksWho, Justified, Exchanging, ExchangeSteps, ClearSteps
<1>6. TokensAgree /\ UserAgrees
  BY <1>3 DEF Init, TokensAgree, UserAgrees, Halfway
<1> QED
  BY <1>3, <1>4, <1>5, <1>6 DEF Init, IInv

\* Every step keeps the invariant.
LEMMA NextIInv == IInv /\ [Next]_vars => IInv'
<1> SUFFICES ASSUME IInv, [Next]_vars PROVE IInv'
  OBVIOUS
<1>1. ASSUME NEW c \in Call, Boot(c) PROVE IInv'
  BY <1>1, StartsAreSound, StartIsSound
<1>2. ASSUME NEW c \in Call, StartData(c) \/ StartLogout(c) \/ \E a \in Account : StartLogin(c, a)
      PROVE  IInv'
  BY <1>2, StartsAreSound
<1>3. ASSUME NEW c \in Call, Answer(c) \/ LoseAnswer(c) PROVE IInv'
  BY <1>3, AnswersAreSound, StartIsSound
<1>4. ASSUME NEW c \in Call, \/ Reject(c) \/ CheckRefresh(c) \/ Exchange(c) \/ FailRefresh(c)
                              \/ Deny(c) \/ Resend(c)
      PROVE  IInv'
  BY <1>4, AnswersAreSound
<1>5. ASSUME NEW c \in Call, Grant(c) PROVE IInv'
  BY <1>5, GrantIsSound
<1>6. ASSUME NEW c \in Call, RemoveAccess(c) \/ LoginStoresAccess(c) PROVE IInv'
  BY <1>6, FirstWriteIsSound
<1>7. ASSUME NEW c \in Call, StoreRenewed(c) \/ ClearSession(c) \/ LoginStoresRefresh(c)
      PROVE  IInv'
  BY <1>7, RenewalIsSound, EndIsSound, LoginIsSound
<1>8. CASE \/ Redirect \/ Restart \/ UNCHANGED vars
           \/ \E t \in AccessToken : Expire(t)
           \/ \E t \in Login : Retire(t)
  BY <1>8, IdleIsSound, RestartIsSound
<1> QED
  BY <1>1, <1>2, <1>3, <1>4, <1>5, <1>6, <1>7, <1>8 DEF Next, ServerStep, ClientStep

\* The inductive invariant holds (auth.tsx, api.ts).
THEOREM Invariant == Spec => []IInv
<1>1. Init => IInv
  BY InitIInv
<1>2. IInv /\ [Next]_vars => IInv'
  BY NextIInv
<1> QED
  BY <1>1, <1>2, PTL DEF Spec

\* Unless a pair is half written, both stored tokens are of one login of who is signed in,
\* and nobody's are left when nobody is (auth.tsx clearSession and login).
THEOREM SessionsConsistent == Spec => []Consistent
<1>1. IInv => Consistent
  BY DEF Consistent, SessionsDoNotMix, IInv, TokensAgree, UserAgrees
<1> QED
  BY <1>1, Invariant, PTL

\* The restarts are counted.
LEMMA RestartsCount == Spec => [](restarts \in Nat)
<1>1. Init => restarts \in Nat
  BY DEF Init
<1>2. restarts \in Nat /\ [Next]_vars => (restarts \in Nat)'
  <2> SUFFICES ASSUME restarts \in Nat, [Next]_vars PROVE restarts' \in Nat
    OBVIOUS
  <2>1. restarts' = restarts \/ restarts' = restarts + 1
    BY DEF Next, vars, observers, Restart, Redirect, Expire, Retire, FailRefresh, ServerStep,
       ClientStep, Boot, StartData,
       StartLogin, StartLogout, Answer, Reject, CheckRefresh, Exchange, Grant, Deny, StoreRenewed,
       Resend, RemoveAccess, ClearSession, LoginStoresAccess, LoginStoresRefresh, LoseAnswer
  <2> QED
    BY <2>1
<1> QED
  BY <1>1, <1>2, PTL DEF Spec

\* A session ends for a logout, an exchange without a verdict, or the refusal of the refresh
\* token that is stored, never for an access token that merely expired (api.ts request).
THEOREM EndsWithReason == Spec => EndsOnlyWhenRefused
<1> DEFINE Reason(c) == /\ call[c].at = "clear2"
                        /\ \/ call[c].kind = "logout"
                           \/ call[c].failed
                           \/ /\ call[c].rt = refresh /\ refresh # NoToken
                              /\ refresh \notin live
<1>1. IInv /\ restarts \in Nat /\ [Next]_vars =>
        [(user # NoOne /\ user' = NoOne /\ restarts' = restarts /\ ~torn') =>
          \E c \in Call : Reason(c)]_vars
  <2> SUFFICES ASSUME IInv, restarts \in Nat, Next,
                      user # NoOne, user' = NoOne, restarts' = restarts, ~torn'
               PROVE  \E c \in Call : Reason(c)
    BY DEF vars, context, observers
  <2>1. PICK c \in Call : ClearSession(c)
    <3>1. ~Restart
      <4>1. Restart => restarts' = restarts + 1
        BY DEF Restart
      <4> QED
        BY <4>1
    <3>2. ASSUME NEW c \in Call, Answer(c) PROVE FALSE
      <4>1. user' # user => user' = owner[LoginOf(call[c].token)] /\ call[c].token \in AccessToken
        BY <3>2 DEF Answer, Accepted, IInv, TypeOK
      <4> QED
        BY <4>1, TokenFacts DEF IInv
    <3>3. ASSUME NEW c \in Call, LoginStoresRefresh(c) PROVE FALSE
      <4>1. Sound(c, call[c]) /\ call[c] \in CallType /\ user' = call[c].who
            /\ call[c].at = "granted2"
        BY <3>3 DEF LoginStoresRefresh, IInv
      <4>2. call[c].rt \in Login /\ owner[call[c].rt] = call[c].who
        BY <4>1 DEF Sound, CallFits, CallType
      <4> QED
        BY <4>1, <4>2, TokenFacts DEF IInv
    <3> QED
      BY <3>1, <3>2, <3>3 DEF Next, ServerStep, ClientStep, Redirect, Expire, Retire, FailRefresh,
         Boot, StartData,
         StartLogin, StartLogout, Reject, CheckRefresh, Exchange, Grant, Deny, StoreRenewed, Resend,
         RemoveAccess, LoginStoresAccess, LoseAnswer, context
  <2>2. ~torn /\ call[c].at = "clear2" /\ Sound(c, call[c])
    BY <2>1 DEF ClearSession, Interleaved, IInv
  <2> QED
    BY <2>2 DEF Sound, Timely, Justified, ClearSteps
<1> QED
  BY <1>1, Invariant, RestartsCount, PTL DEF Spec, EndsOnlyWhenRefused
===============================================================================
