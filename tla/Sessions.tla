------------------------------- MODULE Sessions -------------------------------
(***************************************************************************)
(* Accounts and sessions: registration, e-mail verification, login,        *)
(* rotation of refresh tokens, password reset (auth.service.ts), deletion  *)
(* by the owner (user.service.ts), suspension and deletion by an           *)
(* administrator (admin.service.ts).                                       *)
(*                                                                         *)
(* A request is a process and an action is one SQL statement of its        *)
(* handler, as in Booking.  The row of an account is locked from the       *)
(* UPDATE users of a transaction to its end (ulock); the tokens that the   *)
(* transaction has revoked and not yet committed are doomed[r].  A token   *)
(* is named by the request that inserted it: a refresh token by its login  *)
(* or refresh, a reset token by its forgot-password, a verification token  *)
(* by its registration.                                                    *)
(***************************************************************************)
EXTENDS Naturals, FiniteSets

CONSTANTS
    Request,        \* requests the server ever receives (bounds the model)
    User,           \* accounts, each standing for its row, pseudo and email
    Password,
    Calls,          \* the calls the clients make, a subset of Call
    Before,         \* logins answered before the model starts: [subset of Request -> Calls]
    RateLimitMax,   \* failed logins in the window that block the next one
    None

Ops == {"register", "login", "refresh", "logout", "forgot", "reset", "verify",
        "delete", "suspend", "adminDelete"}

Call == [op : Ops, user : User \cup {None}, token : Request \cup {None},
         password : Password \cup {None}]

Steps == {"idle", "exists?", "insertUser", "throttle?", "credentials", "recordFailure",
          "markSuccess", "token?", "revoke", "insertToken", "user?", "mailed?", "password?",
          "lockUser", "revokeAll", "commit", "suspend", "adminDelete", "audit", "done"}

Replies == {"", "OK", "TOKENS", "SENT", "EXISTS", "OTHER_ACCOUNT", "RATE_LIMITED", "INVALID_CREDENTIALS",
            "ACCOUNT_SUSPENDED", "EMAIL_NOT_VERIFIED", "INVALID_TOKEN", "INVALID_PASSWORD",
            "NOT_FOUND", "DUPLICATE", "FAILED"}

Mailed == {"forgot", "register"}        \* operations that send a one-time token
ByToken == {"refresh", "logout", "reset", "verify"}

ASSUME NoneAssumption == None \notin Request \cup User \cup Password /\ None \notin Calls
ASSUME CallsAssumption ==
    /\ Calls \subseteq Call
    /\ \A c \in Calls :
        /\ IF c.op \in ByToken THEN c.token \in Request ELSE c.user \in User
        /\ c.op \in {"register", "login", "reset", "delete"} => c.password \in Password
ASSUME BeforeAssumption ==
    /\ DOMAIN Before \subseteq Request
    /\ \A r \in DOMAIN Before : Before[r] \in Calls /\ Before[r].op = "login"
    /\ \A q, r \in DOMAIN Before :
        Before[q].user = Before[r].user => Before[q].password = Before[r].password
ASSUME LimitAssumption == RateLimitMax \in Nat \ {0}

VARIABLES
    \* tables
    account,    \* [User -> users.status; "absent" before the row, "suspended" while it lasts]
    verified,   \* users whose email_verified is true
    password,   \* [User -> what password_hash accepts, None for '']
    fails,      \* [User -> failed login_attempts within 15 minutes]
    token,      \* [Request -> the token inserted by it: "none", "live", "spent" (revoked or used)]
    expired,    \* tokens whose expires_at is behind the clock
    audit,      \* rows of admin_audit_log, each named by its request
    \* row locks and uncommitted updates
    ulock,      \* [User -> the transaction that has updated the row]
    doomed,     \* [Request -> the tokens that its open transaction has revoked]
    \* requests
    pc, call, who, reply,
    held        \* history: the sessions of the account when the request arrived

tables == <<account, verified, password, fails, token, expired, audit>>
locks == <<ulock, doomed>>
requests == <<pc, call, who, reply, held>>
vars == <<tables, locks, requests>>

Op(r) == IF call[r] = None THEN "none" ELSE call[r].op

\* Refresh tokens of an account that still give access.
Live(u) ==
    {t \in Request : token[t] = "live" /\ Op(t) \in {"login", "refresh"} /\ who[t] = u}

\* A token row that an open transaction has updated makes other updates wait.
Updatable(t) == \A q \in Request : t \notin doomed[q]

GoTo(r, step) == pc' = [pc EXCEPT ![r] = step] /\ UNCHANGED reply

Answer(r, code) ==
    /\ pc' = [pc EXCEPT ![r] = "done"]
    /\ reply' = [reply EXCEPT ![r] = code]

-------------------------------------------------------------------------------
Member(u) == \E r \in DOMAIN Before : Before[r].user = u

Init ==
    /\ account = [u \in User |-> IF Member(u) THEN "active" ELSE "absent"]
    /\ verified = {u \in User : Member(u)}
    /\ password = [u \in User |-> IF Member(u)
                    THEN Before[CHOOSE r \in DOMAIN Before : Before[r].user = u].password
                    ELSE None]
    /\ fails = [u \in User |-> 0]
    /\ token = [r \in Request |-> IF r \in DOMAIN Before THEN "live" ELSE "none"]
    /\ expired = {}
    /\ audit = {}
    /\ ulock = [u \in User |-> None]
    /\ doomed = [r \in Request |-> {}]
    /\ pc = [r \in Request |-> IF r \in DOMAIN Before THEN "done" ELSE "idle"]
    /\ call = [r \in Request |-> IF r \in DOMAIN Before THEN Before[r] ELSE None]
    /\ who = [r \in Request |-> IF r \in DOMAIN Before THEN Before[r].user ELSE None]
    /\ reply = [r \in Request |-> IF r \in DOMAIN Before THEN "TOKENS" ELSE ""]
    /\ held = [r \in Request |-> {}]

FirstStep(op) ==
    CASE op = "register" -> "exists?"
      [] op = "login" -> "throttle?"
      [] op = "refresh" -> "token?"
      [] op = "logout" -> "revoke"
      [] op = "forgot" -> "user?"
      [] op \in {"reset", "verify"} -> "mailed?"
      [] op = "delete" -> "password?"
      [] op = "suspend" -> "suspend"
      [] op = "adminDelete" -> "adminDelete"

\* A client holds the tokens it was answered or mailed, and deletes its account
\* with the access token of one of its sessions.
Possible(c) ==
    CASE c.op \in {"refresh", "logout"} -> reply[c.token] = "TOKENS"
      [] c.op = "reset" -> reply[c.token] = "SENT" /\ Op(c.token) = "forgot"
      [] c.op = "verify" -> reply[c.token] = "SENT" /\ Op(c.token) = "register"
      [] c.op = "delete" -> \E q \in Request : reply[q] = "TOKENS" /\ who[q] = c.user
      [] OTHER -> TRUE

Start(r, c) ==
    /\ pc[r] = "idle"
    /\ Possible(c)
    /\ LET u == IF c.op \in ByToken THEN who[c.token] ELSE c.user IN
       /\ who' = [who EXCEPT ![r] = u]
       /\ held' = [held EXCEPT ![r] = Live(u)]
    /\ call' = [call EXCEPT ![r] = c]
    /\ GoTo(r, FirstStep(c.op))
    /\ UNCHANGED <<tables, locks>>

At(r, step) == pc[r] = step /\ UNCHANGED <<call, who, held>>

(***************************************************************************)
(* POST /auth/register, /auth/forgot-password, GET /auth/verify-email      *)
(***************************************************************************)
\* register: the pseudo and the email are looked up, long before the INSERT.
\* A deletion frees both: the account they are given to is none of User's.
CheckExists(r) ==
    /\ At(r, "exists?")
    /\ CASE account[who[r]] = "absent" -> GoTo(r, "insertUser")
         [] account[who[r]] = "deleted" -> Answer(r, "OTHER_ACCOUNT")
         [] OTHER -> Answer(r, "EXISTS")
    /\ UNCHANGED <<tables, locks>>

\* register: INSERT INTO users; the unique indexes refuse the second of two.
InsertUser(r) ==
    /\ At(r, "insertUser")
    /\ IF account[who[r]] = "absent"
       THEN /\ account' = [account EXCEPT ![who[r]] = "active"]
            /\ password' = [password EXCEPT ![who[r]] = call[r].password]
            /\ GoTo(r, "insertToken")
       ELSE /\ UNCHANGED <<account, password>>
            /\ Answer(r, IF account[who[r]] = "deleted" THEN "OTHER_ACCOUNT" ELSE "FAILED")
    /\ UNCHANGED <<verified, fails, token, expired, audit, locks>>

\* forgotPassword: an unknown email is answered like a known one.
FindUser(r) ==
    /\ At(r, "user?")
    /\ IF account[who[r]] \in {"active", "suspended"} THEN GoTo(r, "insertToken") ELSE Answer(r, "OK")
    /\ UNCHANGED <<tables, locks>>

\* The foreign key of a new token takes KEY SHARE on the account, which waits
\* only for the transaction of deleteMe: it rewrites the unique columns.
AccountReferable(u) == ulock[u] # None => Op(ulock[u]) # "delete"

\* The INSERT that ends login, refresh, register and forgotPassword.
InsertToken(r) ==
    /\ At(r, "insertToken")
    /\ AccountReferable(who[r])
    /\ token' = [token EXCEPT ![r] = "live"]
    /\ Answer(r, IF Op(r) \in Mailed THEN "SENT" ELSE "TOKENS")
    /\ UNCHANGED <<account, verified, password, fails, expired, audit, locks>>

(***************************************************************************)
(* POST /auth/login                                                        *)
(***************************************************************************)
\* checkBruteForce
CheckBruteForce(r) ==
    /\ At(r, "throttle?")
    /\ IF fails[who[r]] >= RateLimitMax THEN Answer(r, "RATE_LIMITED") ELSE GoTo(r, "credentials")
    /\ UNCHANGED <<tables, locks>>

\* Fault: the verification of the email is not required.
AnyEmail(u) == TRUE

EmailVerified(u) == u \in verified

\* login: one SELECT, on which every decision of the handler rests.
CheckCredentials(r) ==
    /\ At(r, "credentials")
    /\ LET u == who[r] IN
       IF account[u] \notin {"active", "suspended"} \/ password[u] # call[r].password
       THEN GoTo(r, "recordFailure")
       ELSE IF account[u] = "suspended" THEN Answer(r, "ACCOUNT_SUSPENDED")
       ELSE IF ~EmailVerified(u) THEN Answer(r, "EMAIL_NOT_VERIFIED")
       ELSE GoTo(r, "markSuccess")
    /\ UNCHANGED <<tables, locks>>

\* recordFailedAttempt
RecordFailedAttempt(r) ==
    /\ At(r, "recordFailure")
    /\ fails' = [fails EXCEPT ![who[r]] = @ + 1]
    /\ Answer(r, "INVALID_CREDENTIALS")
    /\ UNCHANGED <<account, verified, password, token, expired, audit, locks>>

\* markAttemptSuccess clears the failures of the pseudo.
MarkAttemptSuccess(r) ==
    /\ At(r, "markSuccess")
    /\ fails' = [fails EXCEPT ![who[r]] = 0]
    /\ GoTo(r, "insertToken")
    /\ UNCHANGED <<account, verified, password, token, expired, audit, locks>>

(***************************************************************************)
(* POST /auth/refresh and /auth/logout                                     *)
(***************************************************************************)
\* refresh: the token is read, without a lock and without the account's status.
ReadToken(r) ==
    /\ At(r, "token?")
    /\ LET t == call[r].token IN
       IF token[t] # "live" \/ t \in expired THEN Answer(r, "INVALID_TOKEN") ELSE GoTo(r, "revoke")
    /\ UNCHANGED <<tables, locks>>

\* Fault: refresh does not revoke the token it exchanges.
LogoutOnly(r) == Op(r) = "logout"

Revokes(r) == TRUE

\* refresh revokes the token by its id, revoked or not; logout by its hash.
Revoke(r) ==
    /\ At(r, "revoke")
    /\ Updatable(call[r].token)
    /\ token' = IF Revokes(r) THEN [token EXCEPT ![call[r].token] = "spent"] ELSE token
    /\ IF Op(r) = "logout" THEN Answer(r, "OK") ELSE GoTo(r, "insertToken")
    /\ UNCHANGED <<account, verified, password, fails, expired, audit, locks>>

(***************************************************************************)
(* POST /auth/reset-password, GET /auth/verify-email, DELETE /users/me     *)
(***************************************************************************)
\* resetPassword and verifyEmail: the one-time token is read before the transaction.
ReadMailedToken(r) ==
    /\ At(r, "mailed?")
    /\ LET t == call[r].token IN
       IF token[t] # "live" \/ t \in expired THEN Answer(r, "INVALID_TOKEN") ELSE GoTo(r, "lockUser")
    /\ UNCHANGED <<tables, locks>>

\* deleteMe: the password is compared before the transaction.
CheckPassword(r) ==
    /\ At(r, "password?")
    /\ LET u == who[r] IN
       IF account[u] \notin {"active", "suspended"} THEN Answer(r, "NOT_FOUND")
       ELSE IF password[u] # call[r].password THEN Answer(r, "INVALID_PASSWORD")
       ELSE GoTo(r, "lockUser")
    /\ UNCHANGED <<tables, locks>>

\* Every deleted account gets the same pseudo, in a unique column.  An open
\* deletion makes the others wait ...
PseudoFree(r) ==
    \A q \in Request \ {r} : Op(q) = "delete" => pc[q] \notin {"revokeAll", "commit"}

\* ... and a committed one refuses them.
PseudoTaken(u) == \E v \in User \ {u} : account[v] = "deleted"

\* BEGIN and UPDATE users, under the row lock of the account.
LockUser(r) ==
    /\ At(r, "lockUser")
    /\ LET u == who[r] IN
       /\ ulock[u] = None
       /\ Op(r) = "delete" => PseudoFree(r)
       /\ IF Op(r) = "delete" /\ PseudoTaken(u)
          THEN UNCHANGED ulock /\ Answer(r, "DUPLICATE")
          ELSE /\ ulock' = [ulock EXCEPT ![u] = r]
               /\ GoTo(r, IF Op(r) = "verify" THEN "commit" ELSE "revokeAll")
    /\ UNCHANGED <<tables, doomed>>

\* Fault: only the sessions that have expired are revoked.
ExpiredSessionsOf(r) == Live(who[r]) \cap expired

SessionsOf(r) == Live(who[r])

\* UPDATE refresh_tokens ... WHERE user_id = $1 AND revoked_at IS NULL: in the
\* transaction of resetPassword and deleteMe, on its own in deleteUserAdmin.
RevokeAll(r) ==
    /\ At(r, "revokeAll")
    /\ \A t \in Live(who[r]) : Updatable(t)
    /\ IF Op(r) = "adminDelete"
       THEN /\ token' = [t \in Request |-> IF t \in SessionsOf(r) THEN "spent" ELSE token[t]]
            /\ GoTo(r, "audit")
            /\ UNCHANGED doomed
       ELSE /\ doomed' = [doomed EXCEPT ![r] = SessionsOf(r)]
            /\ GoTo(r, "commit")
            /\ UNCHANGED token
    /\ UNCHANGED <<account, verified, password, fails, expired, audit, ulock>>

\* Fault: verifyEmail returns without COMMIT.
ResetOnly(r) ==
    /\ ulock' = [u \in User |-> IF ulock[u] = r /\ Op(r) # "verify" THEN None ELSE ulock[u]]
    /\ doomed' = [doomed EXCEPT ![r] = {}]

\* The end of a transaction gives its row locks back.
EndTransaction(r) ==
    /\ ulock' = [u \in User |-> IF ulock[u] = r THEN None ELSE ulock[u]]
    /\ doomed' = [doomed EXCEPT ![r] = {}]

\* COMMIT: the account, the one-time token and the revoked sessions at once.
Commit(r) ==
    /\ At(r, "commit")
    /\ LET u == who[r]
           used == IF Op(r) = "delete" THEN {} ELSE {call[r].token}
       IN
       /\ account' = IF Op(r) = "delete" THEN [account EXCEPT ![u] = "deleted"] ELSE account
       /\ verified' = IF Op(r) = "verify" THEN verified \cup {u} ELSE verified
       /\ password' = CASE Op(r) = "reset" -> [password EXCEPT ![u] = call[r].password]
                        [] Op(r) = "delete" -> [password EXCEPT ![u] = None]
                        [] Op(r) = "verify" -> password
       /\ token' = [t \in Request |-> IF t \in doomed[r] \cup used THEN "spent" ELSE token[t]]
    /\ EndTransaction(r)
    /\ Answer(r, "OK")
    /\ UNCHANGED <<fails, expired, audit>>

(***************************************************************************)
(* PATCH /admin/users/:id/suspend and DELETE /admin/users/:id              *)
(***************************************************************************)
\* Fault: deleted_at IS NULL is not tested.
Registered(u) == account[u] # "absent"

Present(u) == account[u] \in {"active", "suspended"}

\* suspendUser: UPDATE users, which tells whether there was a row.
Suspend(r) ==
    /\ At(r, "suspend")
    /\ ulock[who[r]] = None
    /\ IF Present(who[r])
       THEN account' = [account EXCEPT ![who[r]] = "suspended"] /\ GoTo(r, "audit")
       ELSE UNCHANGED account /\ Answer(r, "NOT_FOUND")
    /\ UNCHANGED <<verified, password, fails, token, expired, audit, locks>>

\* deleteUserAdmin: UPDATE users, then two more statements on their own.
AdminDelete(r) ==
    /\ At(r, "adminDelete")
    /\ ulock[who[r]] = None
    /\ PseudoFree(r)
    /\ LET u == who[r] IN
       IF ~Present(u) THEN UNCHANGED <<account, password>> /\ Answer(r, "NOT_FOUND")
       ELSE IF PseudoTaken(u) THEN UNCHANGED <<account, password>> /\ Answer(r, "DUPLICATE")
       ELSE /\ account' = [account EXCEPT ![u] = "deleted"]
            /\ password' = [password EXCEPT ![u] = None]
            /\ GoTo(r, "revokeAll")
    /\ UNCHANGED <<verified, fails, token, expired, audit, locks>>

\* auditLog
AuditLog(r) ==
    /\ At(r, "audit")
    /\ audit' = audit \cup {r}
    /\ Answer(r, "OK")
    /\ UNCHANGED <<account, verified, password, fails, token, expired, locks>>

(***************************************************************************)
(* Lost connections, restarts and the clock                                *)
(***************************************************************************)
\* The transaction that a request has open is rolled back, what it has
\* committed stays.
Fail(r) ==
    /\ pc[r] \notin {"idle", "done"}
    /\ Answer(r, "FAILED")
    /\ EndTransaction(r)
    /\ UNCHANGED <<tables, call, who, held>>

\* expires_at passes.
Expire(t) ==
    /\ token[t] = "live"
    /\ expired' = expired \cup {t}
    /\ UNCHANGED <<account, verified, password, fails, token, audit, locks, requests>>

\* suspended_until passes.
SuspensionEnds(u) ==
    /\ account[u] = "suspended"
    /\ ulock[u] = None
    /\ account' = [account EXCEPT ![u] = "active"]
    /\ UNCHANGED <<verified, password, fails, token, expired, audit, locks, requests>>

\* A failed attempt leaves the window of 15 minutes.
AttemptLapses(u) ==
    /\ fails[u] > 0
    /\ fails' = [fails EXCEPT ![u] = @ - 1]
    /\ UNCHANGED <<account, verified, password, token, expired, audit, locks, requests>>

-------------------------------------------------------------------------------
Step(r) ==
    \/ CheckExists(r) \/ InsertUser(r) \/ FindUser(r) \/ InsertToken(r)
    \/ CheckBruteForce(r) \/ CheckCredentials(r) \/ RecordFailedAttempt(r) \/ MarkAttemptSuccess(r)
    \/ ReadToken(r) \/ Revoke(r)
    \/ ReadMailedToken(r) \/ CheckPassword(r) \/ LockUser(r) \/ RevokeAll(r) \/ Commit(r)
    \/ Suspend(r) \/ AdminDelete(r) \/ AuditLog(r)

Next ==
    \/ \E r \in Request, c \in Calls : Start(r, c)
    \/ \E r \in Request : Step(r)
    \/ \E r \in Request : Fail(r)
    \/ \E t \in Request : Expire(t)
    \/ \E u \in User : SuspensionEnds(u)
    \/ \E u \in User : AttemptLapses(u)

Spec == Init /\ [][Next]_vars

-------------------------------------------------------------------------------
(***************************************************************************)
(* Properties                                                              *)
(***************************************************************************)
\* Type invariant; row locks and uncommitted revocations belong to transactions
\* that are open.
TypeOK ==
    /\ account \in [User -> {"absent", "active", "suspended", "deleted"}]
    /\ verified \subseteq User
    /\ password \in [User -> Password \cup {None}]
    /\ fails \in [User -> Nat]
    /\ token \in [Request -> {"none", "live", "spent"}]
    /\ expired \subseteq Request
    /\ audit \subseteq Request
    /\ ulock \in [User -> Request \cup {None}]
    /\ doomed \in [Request -> SUBSET Request]
    /\ pc \in [Request -> Steps]
    /\ call \in [Request -> Calls \cup {None}]
    /\ who \in [Request -> User \cup {None}]
    /\ reply \in [Request -> Replies]
    /\ held \in [Request -> SUBSET Request]
    /\ \A u \in User : ulock[u] # None => pc[ulock[u]] \in {"revokeAll", "commit"}
    /\ \A r \in Request : doomed[r] # {} => pc[r] = "commit"

\* A refresh token never coexists with the one it was exchanged for, even when
\* the server stops between the two statements or several clients present the
\* same token (README.md, line 417: rotation of the refresh tokens).
RotationSpendsParent ==
    \A r \in Request :
        Op(r) = "refresh" /\ token[r] # "none" => token[call[r].token] = "spent"

\* Whatever path of exchanges a session came by, its account's email is
\* verified (auth.service.ts, line 124).
OnlyVerifiedAccountsLogIn ==
    \A r \in Request :
        Op(r) \in {"login", "refresh"} /\ token[r] # "none" => who[r] \in verified

\* The rows, the locks and the sessions make sense together, at any time.
\* (003_users_auth.sql, auth.service.ts)
Consistent == TypeOK /\ OnlyVerifiedAccountsLogIn

\* When a password reset or a deletion is answered, every session that the
\* account had when the request arrived has ended and stays so, whatever was
\* exchanged, revoked or rolled back meanwhile.
RevocationIsComplete ==
    \A r \in Request :
        Op(r) \in {"reset", "delete", "adminDelete"} /\ reply[r] = "OK" =>
            \A t \in held[r] : token[t] = "spent"

\* The audit log tells what happened: an action that an administrator was
\* answered is in it, a logged deletion took place, and was done by one only of
\* the administrators and the owner who asked for it at the same time.
AuditIsTruthful ==
    \A r \in Request :
        /\ Op(r) \in {"suspend", "adminDelete"} /\ reply[r] = "OK" => r \in audit
        /\ Op(r) = "adminDelete" /\ r \in audit =>
            /\ account[who[r]] = "deleted"
            /\ \A q \in audit : Op(q) = "adminDelete" /\ who[q] = who[r] => q = r

Unanswered(r) == pc[r] \notin {"idle", "done"}

\* The next statement of the handler needs a row that another transaction has.
Waits(r) ==
    \/ pc[r] = "insertToken" /\ ~AccountReferable(who[r])
    \/ pc[r] = "revoke" /\ ~Updatable(call[r].token)
    \/ pc[r] = "revokeAll" /\ \E t \in Live(who[r]) : ~Updatable(t)
    \/ pc[r] \in {"lockUser", "suspend", "adminDelete"} /\ ulock[who[r]] # None
    \/ pc[r] = "lockUser" /\ Op(r) = "delete" /\ ~PseudoFree(r)
    \/ pc[r] = "adminDelete" /\ ~PseudoFree(r)

NoCircularWait ==
    (\E r \in Request : Unanswered(r)) => \E r \in Request : Unanswered(r) /\ ~Waits(r)

\* Nothing but these rows makes a handler wait, and while a request is unanswered
\* some request does not wait: no finished transaction keeps a lock and no
\* deletions wait for each other (auth.service.ts, user.service.ts deleteMe).
SomeRequestCanStep ==
    /\ \A r \in Request : Unanswered(r) => (ENABLED Step(r) <=> ~Waits(r))
    /\ NoCircularWait
===============================================================================
