---------------------------- MODULE SessionsProofs -----------------------------
(***************************************************************************)
(* Theorems about Sessions, for every set of requests, accounts, passwords *)
(* and calls, and every limit of failed logins.                            *)
(***************************************************************************)
EXTENDS Sessions, TLAPS

-------------------------------------------------------------------------------
(* The inductive invariant *)

\* The statements that a call runs.
PathOf(op) ==
    CASE op = "register" -> {"exists?", "insertUser", "insertToken"}
      [] op = "login" -> {"throttle?", "credentials", "recordFailure", "markSuccess", "insertToken"}
      [] op = "refresh" -> {"token?", "revoke", "insertToken"}
      [] op = "logout" -> {"revoke"}
      [] op = "forgot" -> {"user?", "insertToken"}
      [] op = "reset" -> {"mailed?", "lockUser", "revokeAll", "commit"}
      [] op = "verify" -> {"mailed?", "lockUser", "commit"}
      [] op = "delete" -> {"password?", "lockUser", "revokeAll", "commit"}
      [] op = "suspend" -> {"suspend", "audit"}
      [] op = "adminDelete" -> {"adminDelete", "revokeAll", "audit"}
      [] OTHER -> {}

\* A request runs the statements of its call, for an account; before its answer it has
\* inserted no token and logged nothing; what it is answered tells what it has inserted.
RequestsKeepTheirPath ==
    \A r \in Request :
        /\ pc[r] = "idle" => call[r] = None /\ held[r] = {}
        /\ pc[r] # "idle" => call[r] \in Calls /\ who[r] \in User
        /\ pc[r] \notin {"idle", "done"} => pc[r] \in PathOf(Op(r))
        /\ pc[r] # "done" => reply[r] = "" /\ token[r] = "none" /\ r \notin audit
        /\ reply[r] \in {"TOKENS", "SENT"} => token[r] # "none"
        /\ reply[r] = "TOKENS" => Op(r) \in {"login", "refresh"}

\* A client names tokens that it was given.
TokensWereGiven ==
    \A r \in Request : Op(r) \in ByToken => token[call[r].token] # "none"

\* The exchange of a refresh token has revoked it before it inserts another.
ParentSpentFirst ==
    \A r \in Request :
        Op(r) = "refresh" /\ (token[r] # "none" \/ pc[r] = "insertToken")
            => token[call[r].token] = "spent"

\* A session is opened or exchanged for an account whose email was verified.
SessionsOfVerified ==
    \A r \in Request :
        /\ Op(r) = "login" /\ (token[r] # "none" \/ pc[r] \in {"markSuccess", "insertToken"})
            => who[r] \in verified
        /\ Op(r) = "refresh" => who[r] \in verified

\* Only transactions lock an account.
LocksOfTransactions ==
    \A u \in User : ulock[u] # None => Op(ulock[u]) \in {"reset", "verify", "delete"}

\* A transaction revokes tokens that were inserted.
DoomedWereInserted == \A r \in Request : \A t \in doomed[r] : token[t] # "none"

\* What was a session of the account when the request arrived is one still, or was ended.
HeldAreSessions ==
    \A r \in Request : \A t \in held[r] :
        token[t] # "none" /\ Op(t) \in {"login", "refresh"} /\ who[t] = who[r]

\* A request that is about to commit, or to log a deletion, has revoked them all.
RevokedBeforeAnswer ==
    \A r \in Request :
        /\ Op(r) \in {"reset", "delete"} /\ pc[r] = "commit" =>
            \A t \in held[r] : token[t] = "spent" \/ t \in doomed[r]
        /\ Op(r) = "adminDelete" /\ pc[r] = "audit" =>
            \A t \in held[r] : token[t] = "spent"

\* An administrator's deletion that has taken effect and may still be logged, or was.
Deleter(r) == Op(r) = "adminDelete" /\ (pc[r] \in {"revokeAll", "audit"} \/ r \in audit)

OneDeleterPerAccount ==
    \A r \in Request : Deleter(r) =>
        /\ account[who[r]] = "deleted"
        /\ \A q \in Request : Deleter(q) /\ who[q] = who[r] => q = r

\* What was answered was logged.
AnsweredIsLogged ==
    \A r \in Request : Op(r) \in {"suspend", "adminDelete"} /\ reply[r] = "OK" => r \in audit

IInv ==
    /\ TypeOK
    /\ RequestsKeepTheirPath
    /\ TokensWereGiven /\ ParentSpentFirst
    /\ SessionsOfVerified
    /\ LocksOfTransactions /\ DoomedWereInserted
    /\ HeldAreSessions
    /\ RevokedBeforeAnswer /\ RevocationIsComplete
    /\ OneDeleterPerAccount /\ AnsweredIsLogged

-------------------------------------------------------------------------------
(* Paths *)

\* What the routes and the schemas let through, call by call.
LEMMA CallTypes ==
    ASSUME NEW c \in Calls
    PROVE  /\ c \in Call /\ c # None
           /\ c.op \in Ops
           /\ c.op \in ByToken => c.token \in Request
           /\ c.op \notin ByToken => c.user \in User
           /\ c.op \in {"register", "login", "reset", "delete"} => c.password \in Password
  BY CallsAssumption, NoneAssumption DEF Call

\* A request that has arrived runs a call of the types above, for an account.
LEMMA ReceivedCall ==
    ASSUME IInv, NEW r \in Request, pc[r] # "idle"
    PROVE  /\ call[r] \in Calls /\ call[r] # None /\ Op(r) = call[r].op
           /\ Op(r) \in Ops /\ who[r] \in User
           /\ Op(r) \in ByToken => call[r].token \in Request
           /\ Op(r) \in {"register", "login", "reset", "delete"} => call[r].password \in Password
           /\ pc[r] # "done" => pc[r] \in PathOf(Op(r))
  BY CallTypes DEF IInv, RequestsKeepTheirPath, Op

\* The path of a call never leads back to its arrival.
LEMMA PathTypes ==
    ASSUME NEW op \in Ops
    PROVE  /\ FirstStep(op) \in PathOf(op)
           /\ PathOf(op) \subseteq Steps \ {"idle", "done"}
           /\ FirstStep(op) \notin {"insertToken", "markSuccess", "revokeAll", "commit", "audit"}
  BY DEF PathOf, FirstStep, Steps, Ops

\* Where each statement leads, and the calls that run it.
LEMMA PathSteps ==
    ASSUME NEW op \in Ops
    PROVE  /\ "exists?" \in PathOf(op) => op = "register" /\ "insertUser" \in PathOf(op)
           /\ "insertUser" \in PathOf(op) => op = "register" /\ "insertToken" \in PathOf(op)
           /\ "user?" \in PathOf(op) => op = "forgot" /\ "insertToken" \in PathOf(op)
           /\ "insertToken" \in PathOf(op) => op \in {"login", "refresh", "forgot", "register"}
           /\ "throttle?" \in PathOf(op) => op = "login" /\ "credentials" \in PathOf(op)
           /\ "credentials" \in PathOf(op) =>
                op = "login" /\ "recordFailure" \in PathOf(op) /\ "markSuccess" \in PathOf(op)
           /\ "recordFailure" \in PathOf(op) => op = "login"
           /\ "markSuccess" \in PathOf(op) => op = "login" /\ "insertToken" \in PathOf(op)
           /\ "token?" \in PathOf(op) => op = "refresh" /\ "revoke" \in PathOf(op)
           /\ "revoke" \in PathOf(op) => op \in {"refresh", "logout"}
           /\ op = "refresh" => "insertToken" \in PathOf(op)
           /\ "mailed?" \in PathOf(op) => op \in {"reset", "verify"} /\ "lockUser" \in PathOf(op)
           /\ "password?" \in PathOf(op) => op = "delete" /\ "lockUser" \in PathOf(op)
           /\ "lockUser" \in PathOf(op) =>
                /\ op \in {"reset", "verify", "delete"} /\ "commit" \in PathOf(op)
                /\ op # "verify" => "revokeAll" \in PathOf(op)
           /\ "revokeAll" \in PathOf(op) =>
                /\ op \in {"reset", "delete", "adminDelete"}
                /\ IF op = "adminDelete" THEN "audit" \in PathOf(op) ELSE "commit" \in PathOf(op)
           /\ "commit" \in PathOf(op) => op \in {"reset", "verify", "delete"}
           /\ "suspend" \in PathOf(op) => op = "suspend" /\ "audit" \in PathOf(op)
           /\ "adminDelete" \in PathOf(op) => op = "adminDelete" /\ "revokeAll" \in PathOf(op)
           /\ "audit" \in PathOf(op) => op \in {"suspend", "adminDelete"}
<1> USE DEF PathOf
<1>1. op = "register" \/ op = "login" \/ op = "refresh" \/ op = "logout" \/ op = "forgot"
      \/ op = "reset" \/ op = "verify" \/ op = "delete" \/ op = "suspend" \/ op = "adminDelete"
  BY DEF Ops
<1>2. CASE op = "register"
  BY <1>2
<1>3. CASE op = "login"
  BY <1>3
<1>4. CASE op = "refresh"
  BY <1>4
<1>5. CASE op = "logout" \/ op = "forgot"
  BY <1>5
<1>6. CASE op = "reset"
  BY <1>6
<1>7. CASE op = "verify"
  BY <1>7
<1>8. CASE op = "delete"
  BY <1>8
<1>9. CASE op = "suspend" \/ op = "adminDelete"
  BY <1>9
<1> QED
  BY <1>1, <1>2, <1>3, <1>4, <1>5, <1>6, <1>7, <1>8, <1>9

\* A request moves along its path, or is answered; nobody else moves.
Moves(r) ==
    /\ pc[r] \notin {"idle", "done"}
    /\ \/ \E step \in PathOf(Op(r)) : GoTo(r, step)
       \/ \E code \in Replies \ {""} : Answer(r, code)
    /\ UNCHANGED <<call, who, held>>

\* Every statement of a request moves it along the path of its call.
LEMMA StepMoves ==
    ASSUME IInv, NEW r \in Request, Step(r)
    PROVE  Moves(r) /\ pc[r] \in PathOf(Op(r)) /\ Op(r) \in Ops /\ who[r] \in User
<1>1. pc[r] \notin {"idle", "done"} /\ UNCHANGED <<call, who, held>>
  BY DEF Step, At, CheckExists, InsertUser, FindUser, InsertToken, CheckBruteForce,
     CheckCredentials, RecordFailedAttempt, MarkAttemptSuccess, ReadToken, Revoke,
     ReadMailedToken, CheckPassword, LockUser, RevokeAll, Commit, Suspend, AdminDelete, AuditLog
<1>2. pc[r] \in PathOf(Op(r)) /\ Op(r) \in Ops /\ who[r] \in User
  BY <1>1, ReceivedCall
<1> DEFINE Goes == \E step \in PathOf(Op(r)) : GoTo(r, step)
           Ends == \E code \in Replies \ {""} : Answer(r, code)
<1>3. ASSUME CheckExists(r) PROVE Goes \/ Ends
  BY <1>2, <1>3, PathSteps DEF CheckExists, At, Replies
<1>4. ASSUME InsertUser(r) PROVE Goes \/ Ends
  BY <1>2, <1>4, PathSteps DEF InsertUser, At, Replies
<1>5. ASSUME FindUser(r) PROVE Goes \/ Ends
  BY <1>2, <1>5, PathSteps DEF FindUser, At, Replies
<1>6. ASSUME InsertToken(r) \/ RecordFailedAttempt(r) \/ AuditLog(r) \/ Commit(r) PROVE Goes \/ Ends
  BY <1>6 DEF InsertToken, RecordFailedAttempt, AuditLog, Commit, Replies
<1>7. ASSUME CheckBruteForce(r) PROVE Goes \/ Ends
  BY <1>2, <1>7, PathSteps DEF CheckBruteForce, At, Replies
<1>8. ASSUME CheckCredentials(r) PROVE Goes \/ Ends
  BY <1>2, <1>8, PathSteps DEF CheckCredentials, At, Replies
<1>9. ASSUME MarkAttemptSuccess(r) PROVE Goes \/ Ends
  BY <1>2, <1>9, PathSteps DEF MarkAttemptSuccess, At
<1>10. ASSUME ReadToken(r) \/ ReadMailedToken(r) PROVE Goes \/ Ends
  BY <1>2, <1>10, PathSteps DEF ReadToken, ReadMailedToken, At, Replies
<1>11. ASSUME Revoke(r) PROVE Goes \/ Ends
  BY <1>2, <1>11, PathSteps DEF Revoke, At, Replies
<1>12. ASSUME CheckPassword(r) PROVE Goes \/ Ends
  BY <1>2, <1>12, PathSteps DEF CheckPassword, At, Replies
<1>13. ASSUME LockUser(r) PROVE Goes \/ Ends
  BY <1>2, <1>13, PathSteps DEF LockUser, At, Replies
<1>14. ASSUME RevokeAll(r) PROVE Goes \/ Ends
  BY <1>2, <1>14, PathSteps DEF RevokeAll, At
<1>15. ASSUME Suspend(r) PROVE Goes \/ Ends
  BY <1>2, <1>15, PathSteps DEF Suspend, At, Replies
<1>16. ASSUME AdminDelete(r) PROVE Goes \/ Ends
  BY <1>2, <1>16, PathSteps DEF AdminDelete, At, Replies
<1>17. Goes \/ Ends
  BY <1>3, <1>4, <1>5, <1>6, <1>7, <1>8, <1>9, <1>10, <1>11, <1>12, <1>13, <1>14, <1>15, <1>16
     DEF Step
<1> QED
  BY <1>1, <1>2, <1>17 DEF Moves

\* A call that was received is never replaced, and neither is its account.
LEMMA CallsStay ==
    ASSUME IInv, [Next]_vars
    PROVE  /\ \A r \in Request : pc[r] # "idle" =>
                /\ call'[r] = call[r] /\ who'[r] = who[r] /\ held'[r] = held[r]
                /\ Op(r)' = Op(r) /\ pc'[r] # "idle"
           /\ \A r \in Request : pc[r] = "done" => pc'[r] = "done" /\ reply'[r] = reply[r]
<1>1. /\ pc \in [Request -> Steps] /\ call \in [Request -> Calls \cup {None}]
      /\ who \in [Request -> User \cup {None}] /\ held \in [Request -> SUBSET Request]
      /\ reply \in [Request -> Replies]
  BY DEF IInv, TypeOK
<1>2. ASSUME NEW r \in Request, NEW c \in Calls, Start(r, c)
      PROVE  \A q \in Request \ {r} :
                /\ call'[q] = call[q] /\ who'[q] = who[q] /\ held'[q] = held[q]
                /\ pc'[q] = pc[q] /\ reply'[q] = reply[q]
  BY <1>1, <1>2 DEF Start, GoTo
<1>3. ASSUME NEW r \in Request, Step(r)
      PROVE  /\ UNCHANGED <<call, who, held>>
             /\ pc[r] # "done" /\ pc'[r] # "idle"
             /\ \A q \in Request \ {r} : pc'[q] = pc[q] /\ reply'[q] = reply[q]
  <2>1. /\ pc[r] \notin {"idle", "done"} /\ UNCHANGED <<call, who, held>>
        /\ \/ \E step \in PathOf(Op(r)) : GoTo(r, step)
           \/ \E code \in Replies : Answer(r, code)
    BY <1>3, StepMoves DEF Moves
  <2>2. \A step \in PathOf(Op(r)) : step # "idle"
    BY <1>3, StepMoves, PathTypes
  <2> QED
    BY <1>1, <2>1, <2>2 DEF GoTo, Answer
<1>4. ASSUME NEW r \in Request, Fail(r)
      PROVE  /\ UNCHANGED <<call, who, held>>
             /\ pc[r] # "done" /\ pc'[r] # "idle"
             /\ \A q \in Request \ {r} : pc'[q] = pc[q] /\ reply'[q] = reply[q]
  BY <1>1, <1>4 DEF Fail, Answer
<1>5. CASE UNCHANGED requests
  BY <1>5 DEF requests, Op
<1>6. ASSUME NEW r \in Request, NEW c \in Calls, Start(r, c)
      PROVE  pc[r] = "idle"
  BY <1>6 DEF Start
<1>7. \/ UNCHANGED requests
      \/ \E r \in Request : Step(r) \/ Fail(r)
      \/ \E r \in Request, c \in Calls : Start(r, c)
  BY DEF Next, Expire, SuspensionEnds, AttemptLapses, vars
<1>8. CASE \E r \in Request : Step(r) \/ Fail(r)
  BY <1>3, <1>4, <1>8 DEF Op
<1>9. CASE \E r \in Request, c \in Calls : Start(r, c)
  BY <1>2, <1>6, <1>9 DEF Op
<1> QED
  BY <1>5, <1>7, <1>8, <1>9

-------------------------------------------------------------------------------
(* Tokens *)

\* A token is inserted once, by its request, and what is spent stays so.
TokensAge(r) ==
    /\ token' \in [Request -> {"none", "live", "spent"}]
    /\ \A t \in Request : token[t] = "spent" => token'[t] = "spent"
    /\ \A t \in Request : token[t] # "none" => token'[t] # "none"
    /\ \A t \in Request : token[t] = "none" /\ token'[t] # "none" => t = r /\ InsertToken(r)

\* Every statement of a request does so.
LEMMA TokenSteps ==
    ASSUME IInv, NEW r \in Request, Step(r)
    PROVE  TokensAge(r)
<1>1. /\ token \in [Request -> {"none", "live", "spent"}]
      /\ pc[r] \in PathOf(Op(r)) /\ Op(r) \in Ops /\ pc[r] \notin {"idle", "done"}
      /\ (Op(r) \in ByToken => call[r].token \in Request /\ token[call[r].token] # "none")
  BY StepMoves, ReceivedCall DEF IInv, TypeOK, TokensWereGiven, Moves
<1>2. CASE InsertToken(r)
  <2>1. token[r] = "none"
    BY <1>1 DEF IInv, RequestsKeepTheirPath
  <2> QED
    BY <1>1, <1>2, <2>1 DEF InsertToken, TokensAge
<1>3. CASE Revoke(r)
  <2>1. Op(r) \in ByToken
    BY <1>1, <1>3, PathSteps DEF Revoke, At, ByToken
  <2> QED
    BY <1>1, <1>3, <2>1 DEF Revoke, TokensAge
<1>4. CASE RevokeAll(r)
  BY <1>1, <1>4 DEF RevokeAll, SessionsOf, Live, TokensAge
<1>5. CASE Commit(r)
  <2>1. Op(r) # "delete" => Op(r) \in ByToken
    BY <1>1, <1>5, PathSteps DEF Commit, At, ByToken
  <2>2. \A t \in doomed[r] : token[t] # "none"
    BY DEF IInv, DoomedWereInserted
  <2>3. token' = [t \in Request |-> IF t \in doomed[r] \cup (IF Op(r) = "delete" THEN {}
                                                             ELSE {call[r].token})
                                    THEN "spent" ELSE token[t]]
    BY <1>5 DEF Commit
  <2> QED
    BY <1>1, <2>1, <2>2, <2>3 DEF TokensAge
<1>6. CASE token' = token
  BY <1>1, <1>6 DEF TokensAge
<1> QED
  BY <1>2, <1>3, <1>4, <1>5, <1>6 DEF Step, CheckExists, InsertUser, FindUser, CheckBruteForce,
     CheckCredentials, RecordFailedAttempt, MarkAttemptSuccess, ReadToken, ReadMailedToken,
     CheckPassword, LockUser, Suspend, AdminDelete, AuditLog, tables

\* The steps that leave the tokens alone.
LEMMA OtherTokens ==
    ASSUME IInv, [Next]_vars, \A r \in Request : ~Step(r)
    PROVE  token' = token /\ audit' = audit /\ verified' = verified /\ password' = password
  BY DEF Next, Start, Fail, Expire, SuspensionEnds, AttemptLapses, tables, vars

\* What is spent stays so, what is inserted stays inserted.
LEMMA TokensStay ==
    ASSUME IInv, [Next]_vars
    PROVE  /\ \A t \in Request : token[t] = "spent" => token'[t] = "spent"
           /\ \A t \in Request : token[t] # "none" => token'[t] # "none"
<1>1. CASE \E r \in Request : Step(r)
  BY <1>1, TokenSteps DEF TokensAge
<1>2. CASE \A r \in Request : ~Step(r)
  BY <1>2, OtherTokens
<1> QED
  BY <1>1, <1>2

-------------------------------------------------------------------------------
(* Types and paths *)

\* The tables keep their types.
LEMMA TablesType ==
    ASSUME IInv, NEW r \in Request, Step(r)
    PROVE  /\ account' \in [User -> {"absent", "active", "suspended", "deleted"}]
           /\ verified' \subseteq User
           /\ password' \in [User -> Password \cup {None}]
           /\ fails' \in [User -> Nat]
           /\ expired' \subseteq Request /\ audit' \subseteq Request
<1>1. /\ account \in [User -> {"absent", "active", "suspended", "deleted"}]
      /\ verified \subseteq User /\ password \in [User -> Password \cup {None}]
      /\ fails \in [User -> Nat] /\ expired \subseteq Request /\ audit \subseteq Request
  BY DEF IInv, TypeOK
<1>2. /\ pc[r] \in PathOf(Op(r)) /\ Op(r) \in Ops /\ who[r] \in User
      /\ (Op(r) \in {"register", "login", "reset", "delete"} => call[r].password \in Password)
  BY StepMoves, ReceivedCall DEF Moves
<1>3. CASE InsertUser(r)
  <2>1. Op(r) = "register"
    BY <1>2, <1>3, PathSteps DEF InsertUser, At
  <2> QED
    BY <1>1, <1>2, <1>3, <2>1 DEF InsertUser
<1>4. CASE RecordFailedAttempt(r) \/ MarkAttemptSuccess(r)
  BY <1>1, <1>2, <1>4 DEF RecordFailedAttempt, MarkAttemptSuccess
<1>5. CASE Commit(r)
  <2>1. Op(r) \in {"reset", "verify", "delete"}
    BY <1>2, <1>5, PathSteps DEF Commit, At
  <2>2. password' \in [User -> Password \cup {None}]
    <3>1. CASE Op(r) = "reset"
      BY <1>1, <1>2, <1>5, <3>1 DEF Commit
    <3>2. CASE Op(r) = "delete"
      BY <1>1, <1>2, <1>5, <3>2 DEF Commit
    <3>3. CASE Op(r) = "verify"
      BY <1>1, <1>2, <1>5, <3>3 DEF Commit
    <3> QED
      BY <2>1, <3>1, <3>2, <3>3
  <2>3. /\ account' = (IF Op(r) = "delete" THEN [account EXCEPT ![who[r]] = "deleted"] ELSE account)
        /\ verified' = (IF Op(r) = "verify" THEN verified \cup {who[r]} ELSE verified)
        /\ UNCHANGED <<fails, expired, audit>>
    BY <1>5 DEF Commit
  <2> QED
    BY <1>1, <1>2, <2>2, <2>3
<1>6. CASE Suspend(r) \/ AdminDelete(r) \/ AuditLog(r)
  BY <1>1, <1>2, <1>6 DEF Suspend, AdminDelete, AuditLog
<1>7. CASE \/ CheckExists(r) \/ FindUser(r) \/ InsertToken(r) \/ CheckBruteForce(r)
           \/ CheckCredentials(r) \/ ReadToken(r) \/ Revoke(r) \/ ReadMailedToken(r)
           \/ CheckPassword(r) \/ LockUser(r) \/ RevokeAll(r)
  BY <1>1, <1>7 DEF CheckExists, FindUser, InsertToken, CheckBruteForce, CheckCredentials,
     ReadToken, Revoke, ReadMailedToken, CheckPassword, LockUser, RevokeAll, tables
<1> QED
  BY <1>3, <1>4, <1>5, <1>6, <1>7 DEF Step

\* The locks keep their types, and belong to transactions that are open.
LocksFit ==
    /\ ulock \in [User -> Request \cup {None}]
    /\ doomed \in [Request -> SUBSET Request]
    /\ \A u \in User : ulock[u] # None => pc[ulock[u]] \in {"revokeAll", "commit"}
    /\ \A r \in Request : doomed[r] # {} => pc[r] = "commit"
    /\ LocksOfTransactions

\* The steps of a request, by what they do to its locks.
LEMMA LocksStep ==
    ASSUME IInv, NEW r \in Request, Step(r)
    PROVE  LocksFit'
<1>1. /\ ulock \in [User -> Request \cup {None}] /\ doomed \in [Request -> SUBSET Request]
      /\ pc \in [Request -> Steps] /\ LocksFit /\ None \notin Request
  BY NoneAssumption DEF IInv, TypeOK, LocksFit
<1>2. /\ pc[r] \in PathOf(Op(r)) /\ Op(r) \in Ops /\ pc[r] \notin {"idle", "done"}
      /\ who[r] \in User /\ call' = call
  BY StepMoves DEF Moves
<1>3. \A q \in Request : Op(q)' = Op(q)
  BY <1>2 DEF Op
<1>4. CASE LockUser(r)
  <2>1. Op(r) \in {"reset", "verify", "delete"}
    BY <1>2, <1>4, PathSteps DEF LockUser, At
  <2>2. CASE ulock' = ulock /\ doomed' = doomed /\ pc' = [pc EXCEPT ![r] = "done"]
    BY <1>1, <1>3, <1>4, <2>2 DEF LockUser, At, LocksFit, LocksOfTransactions
  <2>3. CASE /\ ulock' = [ulock EXCEPT ![who[r]] = r] /\ doomed' = doomed
             /\ \E step \in {"commit", "revokeAll"} : pc' = [pc EXCEPT ![r] = step]
    BY <1>1, <1>2, <1>3, <1>4, <2>1, <2>3 DEF LockUser, At, LocksFit, LocksOfTransactions
  <2> QED
    BY <1>4, <2>2, <2>3 DEF LockUser, Answer, GoTo
<1>5. CASE RevokeAll(r)
  <2>1. CASE Op(r) = "adminDelete"
    <3>1. ulock' = ulock /\ doomed' = doomed /\ pc' = [pc EXCEPT ![r] = "audit"] /\ pc[r] = "revokeAll"
      BY <1>5, <2>1 DEF RevokeAll, GoTo, At
    <3>2. \A u \in User : ulock[u] # r
      BY <1>1, <2>1 DEF LocksFit, LocksOfTransactions
    <3> QED
      BY <1>1, <1>3, <3>1, <3>2 DEF LocksFit, LocksOfTransactions
  <2>2. CASE Op(r) # "adminDelete"
    <3>1. /\ ulock' = ulock /\ doomed' = [doomed EXCEPT ![r] = SessionsOf(r)]
          /\ pc' = [pc EXCEPT ![r] = "commit"] /\ SessionsOf(r) \subseteq Request
      BY <1>5, <2>2 DEF RevokeAll, GoTo, At, SessionsOf, Live
    <3> QED
      BY <1>1, <1>3, <3>1 DEF LocksFit, LocksOfTransactions
  <2> QED
    BY <2>1, <2>2
<1>6. CASE Commit(r)
  <2>1. /\ ulock' = [u \in User |-> IF ulock[u] = r THEN None ELSE ulock[u]]
        /\ doomed' = [doomed EXCEPT ![r] = {}] /\ pc' = [pc EXCEPT ![r] = "done"]
    BY <1>6 DEF Commit, EndTransaction, Answer
  <2> QED
    BY <1>1, <1>3, <2>1 DEF LocksFit, LocksOfTransactions
<1>7. CASE /\ pc[r] \notin {"revokeAll", "commit"} /\ ulock' = ulock /\ doomed' = doomed
           /\ \A q \in Request \ {r} : pc'[q] = pc[q]
  BY <1>1, <1>3, <1>7 DEF LocksFit, LocksOfTransactions
<1>8. \A q \in Request \ {r} : pc'[q] = pc[q]
  <2>1. (\E step : GoTo(r, step)) \/ (\E code : Answer(r, code))
    BY StepMoves DEF Moves
  <2> QED
    BY <1>1, <2>1 DEF GoTo, Answer
<1>9. \/ LockUser(r) \/ RevokeAll(r) \/ Commit(r)
      \/ pc[r] \notin {"revokeAll", "commit"} /\ UNCHANGED <<ulock, doomed>>
  BY DEF Step, At, locks, CheckExists, InsertUser, FindUser, InsertToken,
     CheckBruteForce, CheckCredentials, RecordFailedAttempt, MarkAttemptSuccess, ReadToken, Revoke,
     ReadMailedToken, CheckPassword, Suspend, AdminDelete, AuditLog
<1> QED
  BY <1>4, <1>5, <1>6, <1>7, <1>8, <1>9

\* A request that arrives names a token that its client was given, if any, and the
\* sessions that its account has.
LEMMA StartFacts ==
    ASSUME IInv, NEW r \in Request, NEW c \in Calls, Start(r, c)
    PROVE  /\ pc[r] = "idle" /\ pc' = [pc EXCEPT ![r] = FirstStep(c.op)] /\ reply' = reply
           /\ call' = [call EXCEPT ![r] = c]
           /\ \E u \in User : /\ who' = [who EXCEPT ![r] = u]
                              /\ held' = [held EXCEPT ![r] = Live(u)]
                              /\ c.op \in ByToken => u = who[c.token]
           /\ UNCHANGED <<tables, locks>>
           /\ Op(r)' = c.op /\ \A q \in Request \ {r} : Op(q)' = Op(q)
           /\ c.op \in ByToken => token[c.token] # "none" /\ c.token \in Request
           /\ c.op \in {"refresh", "logout"} => Op(c.token) \in {"login", "refresh"}
<1>1. /\ c.op \in Ops /\ c # None
      /\ (c.op \in ByToken => c.token \in Request) /\ (c.op \notin ByToken => c.user \in User)
      /\ call \in [Request -> Calls \cup {None}]
  BY CallTypes DEF IInv, TypeOK
<1>2. c.op \in ByToken => reply[c.token] \in {"TOKENS", "SENT"}
  BY <1>1 DEF Start, Possible, ByToken, Ops
<1>3. c.op \in {"refresh", "logout"} => reply[c.token] = "TOKENS"
  BY <1>1 DEF Start, Possible, ByToken, Ops
<1>4. c.op \in ByToken => token[c.token] # "none" /\ who[c.token] \in User
  <2>1. \A t \in Request : reply[t] \in {"TOKENS", "SENT"} => pc[t] = "done" /\ token[t] # "none"
    BY DEF IInv, RequestsKeepTheirPath
  <2>2. \A t \in Request : pc[t] = "done" => who[t] \in User
    BY DEF IInv, RequestsKeepTheirPath
  <2> QED
    BY <1>1, <1>2, <2>1, <2>2
<1>5. c.op \in {"refresh", "logout"} => Op(c.token) \in {"login", "refresh"}
  <2>1. c.op \in {"refresh", "logout"} => c.op \in ByToken
    BY DEF ByToken
  <2> QED
    BY <1>1, <1>3, <2>1 DEF IInv, RequestsKeepTheirPath
<1>6. \E u \in User : /\ who' = [who EXCEPT ![r] = u]
                      /\ held' = [held EXCEPT ![r] = Live(u)]
                      /\ c.op \in ByToken => u = who[c.token]
  BY <1>1, <1>4 DEF Start
<1>7. /\ pc[r] = "idle" /\ pc' = [pc EXCEPT ![r] = FirstStep(c.op)] /\ reply' = reply
      /\ call' = [call EXCEPT ![r] = c] /\ UNCHANGED <<tables, locks>>
  BY DEF Start, GoTo
<1>8. Op(r)' = c.op /\ \A q \in Request \ {r} : Op(q)' = Op(q)
  BY <1>1, <1>7 DEF Op
<1> QED
  BY <1>1, <1>4, <1>5, <1>6, <1>7, <1>8

\* The answer of a request, by the statement that gives it.
LEMMA AnswerFacts ==
    ASSUME IInv, NEW r \in Request, Step(r)
    PROVE  /\ reply'[r] \in {"TOKENS", "SENT"} => InsertToken(r)
           /\ reply'[r] = "TOKENS" => Op(r) \in {"login", "refresh"}
           /\ reply'[r] = "OK" /\ Op(r) \in {"reset", "delete"} => Commit(r)
           /\ reply'[r] = "OK" /\ Op(r) \in {"suspend", "adminDelete"} => AuditLog(r)
<1>1. /\ pc[r] \in PathOf(Op(r)) /\ Op(r) \in Ops /\ pc[r] \notin {"idle", "done"}
      /\ reply[r] = "" /\ reply \in [Request -> Replies]
  BY StepMoves DEF Moves, IInv, TypeOK, RequestsKeepTheirPath
<1>2. CASE InsertToken(r)
  <2>1. Op(r) \in {"login", "refresh", "forgot", "register"}
    BY <1>1, <1>2, PathSteps DEF InsertToken, At
  <2>2. reply'[r] = IF Op(r) \in Mailed THEN "SENT" ELSE "TOKENS"
    BY <1>1, <1>2 DEF InsertToken, Answer
  <2> QED
    BY <1>2, <2>1, <2>2 DEF Mailed
<1>3. CASE FindUser(r)
  BY <1>1, <1>3, PathSteps DEF FindUser, At, GoTo, Answer
<1>4. CASE Revoke(r)
  BY <1>1, <1>4, PathSteps DEF Revoke, At, GoTo, Answer
<1>5. CASE Commit(r)
  <2>1. Op(r) \in {"reset", "verify", "delete"}
    BY <1>1, <1>5, PathSteps DEF Commit, At
  <2>2. reply'[r] = "OK"
    BY <1>1, <1>5 DEF Commit, Answer
  <2> QED
    BY <1>5, <2>1, <2>2
<1>6. CASE AuditLog(r)
  <2>1. Op(r) \in {"suspend", "adminDelete"}
    BY <1>1, <1>6, PathSteps DEF AuditLog, At
  <2>2. reply'[r] = "OK"
    BY <1>1, <1>6 DEF AuditLog, Answer
  <2> QED
    BY <1>6, <2>1, <2>2
<1>7. CASE reply'[r] \notin {"TOKENS", "SENT", "OK"}
  BY <1>7
<1>8. CASE \/ CheckExists(r) \/ InsertUser(r) \/ CheckBruteForce(r) \/ CheckCredentials(r)
           \/ RecordFailedAttempt(r) \/ MarkAttemptSuccess(r) \/ ReadToken(r)
           \/ ReadMailedToken(r) \/ CheckPassword(r)
  <2>1. reply' = reply \/ \E code : Answer(r, code) /\ code \notin {"TOKENS", "SENT", "OK"}
    BY <1>8 DEF CheckExists, InsertUser, CheckBruteForce, CheckCredentials, RecordFailedAttempt,
       MarkAttemptSuccess, ReadToken, ReadMailedToken, CheckPassword, GoTo
  <2> QED
    BY <1>1, <1>7, <2>1 DEF Answer
<1>9. CASE LockUser(r) \/ RevokeAll(r) \/ Suspend(r) \/ AdminDelete(r)
  <2>1. reply' = reply \/ \E code : Answer(r, code) /\ code \notin {"TOKENS", "SENT", "OK"}
    BY <1>9 DEF LockUser, RevokeAll, Suspend, AdminDelete, GoTo
  <2> QED
    BY <1>1, <1>7, <2>1 DEF Answer
<1> QED
  BY <1>2, <1>3, <1>4, <1>5, <1>6, <1>8, <1>9 DEF Step

\* What a step of one request leaves to the others.
LEMMA OthersStay ==
    ASSUME IInv, NEW r \in Request, Step(r) \/ Fail(r)
    PROVE  /\ UNCHANGED <<call, who, held>>
           /\ \A q \in Request : Op(q)' = Op(q)
           /\ \A q \in Request \ {r} : pc'[q] = pc[q] /\ reply'[q] = reply[q]
           /\ pc[r] \notin {"idle", "done"} /\ pc'[r] # "idle"
           /\ pc' \in [Request -> Steps] /\ reply' \in [Request -> Replies]
           /\ pc'[r] # "done" => reply' = reply /\ pc'[r] \in PathOf(Op(r))
<1>1. pc \in [Request -> Steps] /\ reply \in [Request -> Replies]
  BY DEF IInv, TypeOK
<1>2. CASE Step(r)
  <2>1. /\ pc[r] \notin {"idle", "done"} /\ UNCHANGED <<call, who, held>>
        /\ \/ \E step \in PathOf(Op(r)) : GoTo(r, step)
           \/ \E code \in Replies : Answer(r, code)
    BY <1>2, StepMoves DEF Moves
  <2>2. \A step \in PathOf(Op(r)) : step \in Steps \ {"idle", "done"}
    BY <1>2, StepMoves, PathTypes
  <2>3. \A q \in Request : Op(q)' = Op(q)
    BY <2>1 DEF Op
  <2>4. CASE \E step \in PathOf(Op(r)) : GoTo(r, step)
    BY <1>1, <2>1, <2>2, <2>3, <2>4 DEF GoTo
  <2>5. CASE \E code \in Replies : Answer(r, code)
    BY <1>1, <2>1, <2>3, <2>5 DEF Answer, Steps
  <2> QED
    BY <2>1, <2>4, <2>5
<1>3. CASE Fail(r)
  <2>1. /\ pc[r] \notin {"idle", "done"} /\ UNCHANGED <<call, who, held>>
        /\ pc' = [pc EXCEPT ![r] = "done"] /\ reply' = [reply EXCEPT ![r] = "FAILED"]
    BY <1>3 DEF Fail, Answer
  <2>2. \A q \in Request : Op(q)' = Op(q)
    BY <2>1 DEF Op
  <2> QED
    BY <1>1, <2>1, <2>2 DEF Steps, Replies
<1> QED
  BY <1>2, <1>3

\* Every step keeps the types and the locks.
LEMMA TypeStep == IInv /\ [Next]_vars => TypeOK' /\ LocksOfTransactions'
<1> SUFFICES ASSUME IInv, [Next]_vars PROVE TypeOK' /\ LocksOfTransactions'
  OBVIOUS
<1>1. TypeOK /\ LocksFit /\ None \notin Request
  BY NoneAssumption DEF IInv, TypeOK, LocksFit
<1>2. ASSUME NEW r \in Request, NEW c \in Calls, Start(r, c)
      PROVE  TypeOK' /\ LocksOfTransactions'
  <2>1. FirstStep(c.op) \in Steps
    BY CallTypes, PathTypes
  <2>2. PICK u \in User : /\ who' = [who EXCEPT ![r] = u]
                          /\ held' = [held EXCEPT ![r] = Live(u)]
    BY <1>2, StartFacts
  <2>3. /\ pc[r] = "idle" /\ pc' = [pc EXCEPT ![r] = FirstStep(c.op)] /\ reply' = reply
        /\ call' = [call EXCEPT ![r] = c] /\ UNCHANGED <<tables, locks>>
        /\ \A q \in Request \ {r} : Op(q)' = Op(q)
    BY <1>2, StartFacts
  <2>4. Live(u) \subseteq Request
    BY DEF Live
  <2>5. LocksFit'
    <3>1. ulock' = ulock /\ doomed' = doomed
      BY <2>3 DEF locks
    <3>2. \A v \in User : ulock[v] # r
      BY <1>1, <2>3 DEF LocksFit
    <3>3. doomed[r] = {} /\ pc \in [Request -> Steps]
      BY <1>1, <2>3 DEF LocksFit, TypeOK
    <3> QED
      BY <1>1, <2>3, <3>1, <3>2, <3>3 DEF LocksFit, LocksOfTransactions
  <2>6. TypeOK'
    BY <1>1, <2>1, <2>2, <2>3, <2>4, <2>5 DEF TypeOK, LocksFit, tables
  <2> QED
    BY <2>5, <2>6 DEF LocksFit
<1>3. ASSUME NEW r \in Request, Step(r)
      PROVE  TypeOK' /\ LocksOfTransactions'
  <2>1. UNCHANGED <<call, who, held>> /\ pc' \in [Request -> Steps] /\ reply' \in [Request -> Replies]
    BY <1>3, OthersStay
  <2>2. token' \in [Request -> {"none", "live", "spent"}]
    BY <1>3, TokenSteps DEF TokensAge
  <2> QED
    BY <1>1, <1>3, <2>1, <2>2, TablesType, LocksStep DEF TypeOK, LocksFit
<1>4. ASSUME NEW r \in Request, Fail(r)
      PROVE  TypeOK' /\ LocksOfTransactions'
  <2>1. /\ UNCHANGED <<call, who, held>> /\ pc' \in [Request -> Steps] /\ reply' \in [Request -> Replies]
        /\ \A q \in Request : Op(q)' = Op(q)
        /\ \A q \in Request \ {r} : pc'[q] = pc[q]
    BY <1>4, OthersStay
  <2>2. /\ UNCHANGED tables
        /\ ulock' = [u \in User |-> IF ulock[u] = r THEN None ELSE ulock[u]]
        /\ doomed' = [doomed EXCEPT ![r] = {}]
    BY <1>4 DEF Fail, EndTransaction
  <2>3. LocksFit'
    BY <1>1, <2>1, <2>2 DEF LocksFit, LocksOfTransactions
  <2> QED
    BY <1>1, <2>1, <2>2, <2>3 DEF TypeOK, LocksFit, tables
<1>5. CASE \/ UNCHANGED vars
           \/ \E t \in Request : Expire(t)
           \/ \E u \in User : SuspensionEnds(u) \/ AttemptLapses(u)
  <2>1. UNCHANGED <<locks, requests>>
    BY <1>5 DEF vars, Expire, SuspensionEnds, AttemptLapses
  <2>2. LocksOfTransactions'
    BY <1>1, <2>1 DEF LocksFit, LocksOfTransactions, Op, locks, requests
  <2>3. /\ account' \in [User -> {"absent", "active", "suspended", "deleted"}]
        /\ fails' \in [User -> Nat] /\ expired' \subseteq Request
        /\ UNCHANGED <<verified, password, token, audit>>
    BY <1>1, <1>5 DEF vars, tables, Expire, SuspensionEnds, AttemptLapses, TypeOK
  <2> QED
    BY <1>1, <2>1, <2>2, <2>3 DEF TypeOK, locks, requests
<1> QED
  BY <1>2, <1>3, <1>4, <1>5 DEF Next

\* A request keeps to its path, and names tokens that its client was given.
LEMMA PathStep == IInv /\ [Next]_vars => RequestsKeepTheirPath' /\ TokensWereGiven'
<1> SUFFICES ASSUME IInv, [Next]_vars PROVE RequestsKeepTheirPath' /\ TokensWereGiven'
  OBVIOUS
<1>1. /\ pc \in [Request -> Steps] /\ call \in [Request -> Calls \cup {None}]
      /\ who \in [Request -> User \cup {None}] /\ held \in [Request -> SUBSET Request]
      /\ reply \in [Request -> Replies] /\ audit \subseteq Request
      /\ token \in [Request -> {"none", "live", "spent"}]
      /\ RequestsKeepTheirPath /\ TokensWereGiven
  BY DEF IInv, TypeOK
<1>2. ASSUME NEW r \in Request, NEW c \in Calls, Start(r, c)
      PROVE  RequestsKeepTheirPath' /\ TokensWereGiven'
  <2>1. /\ FirstStep(c.op) \in PathOf(c.op) /\ FirstStep(c.op) \notin {"idle", "done"}
        /\ c.op \in Ops
    BY CallTypes, PathTypes
  <2>2. PICK u \in User : /\ who' = [who EXCEPT ![r] = u]
                          /\ held' = [held EXCEPT ![r] = Live(u)]
    BY <1>2, StartFacts
  <2>3. /\ pc[r] = "idle" /\ pc' = [pc EXCEPT ![r] = FirstStep(c.op)] /\ reply' = reply
        /\ call' = [call EXCEPT ![r] = c] /\ token' = token /\ audit' = audit
        /\ Op(r)' = c.op /\ \A q \in Request \ {r} : Op(q)' = Op(q)
        /\ (c.op \in ByToken => token[c.token] # "none")
    BY <1>2, StartFacts DEF tables
  <2>4. RequestsKeepTheirPath'
    BY <1>1, <2>1, <2>2, <2>3 DEF RequestsKeepTheirPath
  <2>5. TokensWereGiven'
    BY <1>1, <2>3 DEF TokensWereGiven
  <2> QED
    BY <2>4, <2>5
<1>3. ASSUME NEW r \in Request, Step(r)
      PROVE  RequestsKeepTheirPath' /\ TokensWereGiven'
  <2>1. /\ UNCHANGED <<call, who, held>>
        /\ \A q \in Request : Op(q)' = Op(q)
        /\ \A q \in Request \ {r} : pc'[q] = pc[q] /\ reply'[q] = reply[q]
        /\ pc[r] \notin {"idle", "done"} /\ pc'[r] # "idle"
        /\ pc'[r] # "done" => reply' = reply /\ pc'[r] \in PathOf(Op(r))
    BY <1>3, OthersStay
  <2>2. TokensAge(r)
    BY <1>3, TokenSteps
  <2>3. InsertToken(r) => pc'[r] = "done" /\ token'[r] = "live"
    BY <1>1 DEF InsertToken, Answer
  <2>4. audit' = audit \/ (audit' = audit \cup {r} /\ pc'[r] = "done")
    BY <1>1, <1>3 DEF Step, CheckExists, InsertUser, FindUser, InsertToken, CheckBruteForce,
       CheckCredentials, RecordFailedAttempt, MarkAttemptSuccess, ReadToken, Revoke,
       ReadMailedToken, CheckPassword, LockUser, RevokeAll, Commit, Suspend, AdminDelete,
       AuditLog, tables, Answer
  <2>5. /\ reply'[r] \in {"TOKENS", "SENT"} => InsertToken(r)
        /\ reply'[r] = "TOKENS" => Op(r) \in {"login", "refresh"}
    BY <1>3, AnswerFacts
  <2>6. RequestsKeepTheirPath'
    <3>1. ASSUME NEW q \in Request
          PROVE  /\ pc'[q] = "idle" => call'[q] = None /\ held'[q] = {}
                 /\ pc'[q] # "idle" => call'[q] \in Calls /\ who'[q] \in User
                 /\ pc'[q] \notin {"idle", "done"} => pc'[q] \in PathOf(Op(q)')
      BY <1>1, <2>1 DEF RequestsKeepTheirPath
    <3>2. ASSUME NEW q \in Request, pc'[q] # "done"
          PROVE  reply'[q] = "" /\ token'[q] = "none" /\ q \notin audit'
      BY <1>1, <2>1, <2>2, <2>3, <2>4, <3>2 DEF RequestsKeepTheirPath, TokensAge
    <3>3. ASSUME NEW q \in Request
          PROVE  /\ reply'[q] \in {"TOKENS", "SENT"} => token'[q] # "none"
                 /\ reply'[q] = "TOKENS" => Op(q)' \in {"login", "refresh"}
      BY <1>1, <2>1, <2>2, <2>3, <2>5 DEF RequestsKeepTheirPath, TokensAge
    <3> QED
      BY <3>1, <3>2, <3>3 DEF RequestsKeepTheirPath
  <2>7. TokensWereGiven'
    <3> SUFFICES ASSUME NEW q \in Request, Op(q)' \in ByToken
                 PROVE  token'[call[q].token] # "none"
      BY <2>1 DEF TokensWereGiven
    <3>1. Op(q) \in ByToken /\ token[call[q].token] # "none"
      BY <1>1, <2>1 DEF TokensWereGiven
    <3>2. call[q].token \in Request
      <4>1. call[q] # None /\ call[q] \in Calls /\ Op(q) = call[q].op
        BY <1>1, <3>1 DEF Op, ByToken
      <4> QED
        BY <3>1, <4>1, CallTypes
    <3> QED
      BY <2>2, <3>1, <3>2 DEF TokensAge
  <2> QED
    BY <2>6, <2>7
<1>4. ASSUME NEW r \in Request, Fail(r)
      PROVE  RequestsKeepTheirPath' /\ TokensWereGiven'
  <2>1. /\ UNCHANGED <<call, who, held>>
        /\ \A q \in Request : Op(q)' = Op(q)
        /\ \A q \in Request \ {r} : pc'[q] = pc[q] /\ reply'[q] = reply[q]
        /\ pc[r] \notin {"idle", "done"} /\ pc'[r] = "done" /\ reply'[r] = "FAILED"
        /\ token' = token /\ audit' = audit
    BY <1>1, <1>4, OthersStay DEF Fail, Answer, tables
  <2> QED
    BY <1>1, <2>1 DEF RequestsKeepTheirPath, TokensWereGiven
<1>5. CASE \/ UNCHANGED vars
           \/ \E t \in Request : Expire(t)
           \/ \E u \in User : SuspensionEnds(u) \/ AttemptLapses(u)
  <2>1. UNCHANGED <<pc, call, who, reply, held, token, audit>>
    BY <1>5 DEF vars, tables, requests, Expire, SuspensionEnds, AttemptLapses
  <2> QED
    BY <1>1, <2>1 DEF RequestsKeepTheirPath, TokensWereGiven, Op
<1> QED
  BY <1>2, <1>3, <1>4, <1>5 DEF Next

-------------------------------------------------------------------------------
(* Rotation and verified emails *)

\* What the clock and the end of a suspension leave alone.
LEMMA ClockSteps ==
    ASSUME IInv, \/ UNCHANGED vars
                 \/ \E t \in Request : Expire(t)
                 \/ \E u \in User : SuspensionEnds(u) \/ AttemptLapses(u)
    PROVE  /\ UNCHANGED <<pc, call, who, reply, held, token, audit, verified, doomed>>
           /\ \A r \in Request : Op(r)' = Op(r)
           /\ \A u \in User : account[u] = "deleted" => account'[u] = "deleted"
<1>1. account \in [User -> {"absent", "active", "suspended", "deleted"}]
  BY DEF IInv, TypeOK
<1>2. UNCHANGED <<pc, call, who, reply, held, token, audit, verified, doomed>>
  BY DEF vars, tables, locks, requests, Expire, SuspensionEnds, AttemptLapses
<1>3. \A u \in User : account[u] = "deleted" => account'[u] = "deleted"
  BY <1>1 DEF vars, tables, Expire, SuspensionEnds, AttemptLapses
<1> QED
  BY <1>2, <1>3 DEF Op

\* The tokens that a request names exist.
LEMMA NamedTokens ==
    ASSUME IInv, NEW r \in Request, Op(r) \in ByToken
    PROVE  call[r].token \in Request /\ call[r] # None /\ Op(r) = call[r].op
<1>1. call[r] # None /\ call[r] \in Calls /\ Op(r) = call[r].op
  BY DEF Op, ByToken, IInv, TypeOK
<1> QED
  BY <1>1, CallTypes

\* The exchange of a token spends it first.
LEMMA ParentStep == IInv /\ [Next]_vars => ParentSpentFirst'
<1> SUFFICES ASSUME IInv, [Next]_vars,
                    NEW r \in Request, Op(r)' = "refresh",
                    token'[r] # "none" \/ pc'[r] = "insertToken"
             PROVE  token'[call'[r].token] = "spent"
  BY DEF ParentSpentFirst
<1>1. /\ token \in [Request -> {"none", "live", "spent"}] /\ pc \in [Request -> Steps]
      /\ ParentSpentFirst
  BY DEF IInv, TypeOK
<1>2. ASSUME Op(r) = "refresh", call'[r] = call[r], token[call[r].token] = "spent"
      PROVE  token'[call'[r].token] = "spent"
  <2>1. call[r].token \in Request
    BY <1>2, NamedTokens DEF ByToken
  <2> QED
    BY <1>2, <2>1, TokensStay
<1>3. ASSUME NEW q \in Request, Step(q)
      PROVE  token'[call'[r].token] = "spent"
  <2>1. /\ call' = call /\ Op(r) = "refresh"
        /\ pc[q] \notin {"idle", "done"} /\ (r # q => pc'[r] = pc[r])
    BY <1>3, OthersStay
  <2>2. CASE token[r] # "none" \/ pc[r] = "insertToken"
    BY <1>1, <1>2, <2>1, <2>2 DEF ParentSpentFirst
  <2>3. CASE token[r] = "none" /\ pc[r] # "insertToken"
    <3>1. token'[r] = "none"
      BY <1>3, <2>3, TokenSteps DEF TokensAge, InsertToken, At
    <3>2. r = q /\ pc'[r] = "insertToken"
      BY <2>1, <2>3, <3>1
    <3>3. pc[r] \in PathOf("refresh")
      BY <1>3, <2>1, <3>2, StepMoves
    <3>4. Revoke(r)
      <4>1. pc[r] \notin {"insertUser", "user?", "markSuccess"}
        BY <3>3, PathSteps DEF Ops
      <4> QED
        BY <1>1, <1>3, <3>2, <4>1 DEF Step, At, GoTo, Answer, CheckExists, InsertUser, FindUser,
           InsertToken, CheckBruteForce, CheckCredentials, RecordFailedAttempt, MarkAttemptSuccess,
           ReadToken, ReadMailedToken, CheckPassword, LockUser, RevokeAll, Commit, Suspend,
           AdminDelete, AuditLog
    <3>5. call[r].token \in Request
      BY <2>1, NamedTokens DEF ByToken
    <3> QED
      BY <1>1, <2>1, <3>4, <3>5 DEF Revoke, Revokes
  <2> QED
    BY <2>2, <2>3
<1>4. ASSUME NEW q \in Request, NEW c \in Calls, Start(q, c)
      PROVE  token'[call'[r].token] = "spent"
  <2>1. FirstStep(c.op) # "insertToken"
    BY CallTypes, PathTypes
  <2>2. /\ pc[q] = "idle" /\ pc' = [pc EXCEPT ![q] = FirstStep(c.op)] /\ token' = token
        /\ \A x \in Request \ {q} : Op(x)' = Op(x)
    BY <1>4, StartFacts DEF tables
  <2>3. token[q] = "none" /\ pc[q] # "done"
    BY <2>2 DEF IInv, RequestsKeepTheirPath
  <2>4. r # q
    BY <1>1, <2>1, <2>2, <2>3
  <2>5. pc[r] # "idle"
    BY <1>1, <2>2, <2>4 DEF IInv, RequestsKeepTheirPath
  <2> QED
    BY <1>1, <1>2, <2>2, <2>4, <2>5, CallsStay DEF ParentSpentFirst
<1>5. ASSUME NEW q \in Request, Fail(q)
      PROVE  token'[call'[r].token] = "spent"
  <2>1. /\ call' = call /\ Op(r) = "refresh" /\ token' = token
        /\ \A x \in Request : pc'[x] = "insertToken" => pc[x] = "insertToken"
    BY <1>1, <1>5, OthersStay DEF Fail, Answer, tables
  <2> QED
    BY <1>1, <1>2, <2>1 DEF ParentSpentFirst
<1>6. CASE \/ UNCHANGED vars
           \/ \E t \in Request : Expire(t)
           \/ \E u \in User : SuspensionEnds(u) \/ AttemptLapses(u)
  BY <1>1, <1>2, <1>6, ClockSteps DEF ParentSpentFirst
<1> QED
  BY <1>3, <1>4, <1>5, <1>6 DEF Next

\* Only verified accounts come to hold sessions.
LEMMA VerifiedStep == IInv /\ [Next]_vars => SessionsOfVerified'
<1> SUFFICES ASSUME IInv, [Next]_vars PROVE SessionsOfVerified'
  OBVIOUS
<1>1. /\ token \in [Request -> {"none", "live", "spent"}] /\ pc \in [Request -> Steps]
      /\ who \in [Request -> User \cup {None}] /\ SessionsOfVerified
  BY DEF IInv, TypeOK
<1>2. ASSUME NEW r \in Request, Step(r)
      PROVE  SessionsOfVerified'
  <2>1. /\ UNCHANGED <<call, who>> /\ \A q \in Request : Op(q)' = Op(q)
        /\ \A q \in Request \ {r} : pc'[q] = pc[q]
    BY <1>2, OthersStay
  <2>2. verified \subseteq verified'
    BY <1>2 DEF Step, CheckExists, InsertUser, FindUser, InsertToken, CheckBruteForce,
       CheckCredentials, RecordFailedAttempt, MarkAttemptSuccess, ReadToken, Revoke,
       ReadMailedToken, CheckPassword, LockUser, RevokeAll, Commit, Suspend, AdminDelete,
       AuditLog, tables
  <2>3. \A q \in Request : token[q] = "none" /\ token'[q] # "none" => q = r /\ pc[r] = "insertToken"
    BY <1>2, TokenSteps DEF TokensAge, InsertToken, At
  <2>4. ASSUME Op(r) = "login", pc'[r] \in {"markSuccess", "insertToken"}
        PROVE  who[r] \in verified
    <3>1. pc[r] \in PathOf("login")
      BY <1>2, <2>4, StepMoves
    <3>2. pc[r] \notin {"insertUser", "user?", "revoke", "insertToken"} \/ pc[r] = "insertToken"
      BY <3>1, PathSteps DEF Ops
    <3>3. CheckCredentials(r) \/ MarkAttemptSuccess(r)
      BY <1>1, <1>2, <2>4, <3>2 DEF Step, At, GoTo, Answer, CheckExists, InsertUser, FindUser,
         InsertToken, CheckBruteForce, RecordFailedAttempt, ReadToken, Revoke, ReadMailedToken,
         CheckPassword, LockUser, RevokeAll, Commit, Suspend, AdminDelete, AuditLog
    <3>4. CASE CheckCredentials(r)
      BY <1>1, <2>4, <3>4 DEF CheckCredentials, GoTo, Answer, EmailVerified
    <3>5. CASE MarkAttemptSuccess(r)
      BY <1>1, <2>4, <3>5 DEF MarkAttemptSuccess, At, SessionsOfVerified
    <3> QED
      BY <3>3, <3>4, <3>5
  <2> QED
    BY <1>1, <2>1, <2>2, <2>3, <2>4 DEF SessionsOfVerified
<1>3. ASSUME NEW r \in Request, NEW c \in Calls, Start(r, c)
      PROVE  SessionsOfVerified'
  <2>1. /\ FirstStep(c.op) \notin {"insertToken", "markSuccess"}
        /\ c.op = "refresh" => c.op \in ByToken
    BY CallTypes, PathTypes DEF ByToken
  <2>2. PICK u \in User : /\ who' = [who EXCEPT ![r] = u]
                          /\ c.op \in ByToken => u = who[c.token]
    BY <1>3, StartFacts
  <2>3. /\ pc[r] = "idle" /\ pc' = [pc EXCEPT ![r] = FirstStep(c.op)]
        /\ Op(r)' = c.op /\ \A q \in Request \ {r} : Op(q)' = Op(q)
        /\ UNCHANGED tables
        /\ (c.op \in ByToken => token[c.token] # "none" /\ c.token \in Request)
        /\ (c.op = "refresh" => Op(c.token) \in {"login", "refresh"})
    BY <1>3, StartFacts
  <2>4. c.op = "refresh" => u \in verified
    BY <1>1, <2>1, <2>2, <2>3 DEF SessionsOfVerified
  <2>5. token' = token /\ verified' = verified /\ token[r] = "none"
    BY <2>3 DEF tables, IInv, RequestsKeepTheirPath
  <2> QED
    BY <1>1, <2>1, <2>2, <2>3, <2>4, <2>5 DEF SessionsOfVerified
<1>4. ASSUME NEW r \in Request, Fail(r)
      PROVE  SessionsOfVerified'
  <2>1. /\ UNCHANGED <<call, who, token, verified>> /\ \A q \in Request : Op(q)' = Op(q)
        /\ pc' = [pc EXCEPT ![r] = "done"]
    BY <1>4, OthersStay DEF Fail, Answer, tables
  <2> QED
    BY <1>1, <2>1 DEF SessionsOfVerified
<1>5. CASE \/ UNCHANGED vars
           \/ \E t \in Request : Expire(t)
           \/ \E u \in User : SuspensionEnds(u) \/ AttemptLapses(u)
  BY <1>1, <1>5, ClockSteps DEF SessionsOfVerified
<1> QED
  BY <1>2, <1>3, <1>4, <1>5 DEF Next

-------------------------------------------------------------------------------
(* Revocation *)

\* A session that was held is of the same account for ever.
LEMMA HeldStep == IInv /\ [Next]_vars => HeldAreSessions' /\ DoomedWereInserted'
<1> SUFFICES ASSUME IInv, [Next]_vars PROVE HeldAreSessions' /\ DoomedWereInserted'
  OBVIOUS
<1>1. /\ token \in [Request -> {"none", "live", "spent"}]
      /\ held \in [Request -> SUBSET Request] /\ doomed \in [Request -> SUBSET Request]
      /\ who \in [Request -> User \cup {None}]
      /\ HeldAreSessions /\ DoomedWereInserted
  BY DEF IInv, TypeOK
<1>2. \A t \in Request : token[t] # "none" =>
         token'[t] # "none" /\ Op(t)' = Op(t) /\ who'[t] = who[t]
  <2>1. \A t \in Request : token[t] # "none" => pc[t] = "done"
    BY DEF IInv, RequestsKeepTheirPath
  <2> QED
    BY <2>1, TokensStay, CallsStay
<1>3. HeldAreSessions'
  <2>1. ASSUME NEW r \in Request, held'[r] = held[r], who'[r] = who[r], NEW t \in held'[r]
        PROVE  token'[t] # "none" /\ Op(t)' \in {"login", "refresh"} /\ who'[t] = who'[r]
    BY <1>1, <1>2, <2>1 DEF HeldAreSessions
  <2>2. ASSUME NEW r \in Request, NEW c \in Calls, Start(r, c), NEW t \in held'[r]
        PROVE  token'[t] # "none" /\ Op(t)' \in {"login", "refresh"} /\ who'[t] = who'[r]
    <3>1. PICK u \in User : /\ who' = [who EXCEPT ![r] = u]
                            /\ held' = [held EXCEPT ![r] = Live(u)]
      BY <2>2, StartFacts
    <3>2. t \in Live(u) /\ who'[r] = u
      BY <1>1, <2>2, <3>1
    <3> QED
      BY <1>2, <3>2 DEF Live
  <2>3. ASSUME NEW r \in Request
        PROVE  \/ held'[r] = held[r] /\ who'[r] = who[r]
               \/ \E c \in Calls : Start(r, c)
    <3>1. CASE \E q \in Request : Step(q) \/ Fail(q)
      BY <3>1, OthersStay
    <3>2. CASE \E q \in Request, c \in Calls : Start(q, c)
      BY <1>1, <3>2, StartFacts
    <3>3. CASE \/ UNCHANGED vars
               \/ \E t \in Request : Expire(t)
               \/ \E u \in User : SuspensionEnds(u) \/ AttemptLapses(u)
      BY <3>3, ClockSteps
    <3> QED
      BY <3>1, <3>2, <3>3 DEF Next
  <2> QED
    BY <2>1, <2>2, <2>3 DEF HeldAreSessions
<1>4. DoomedWereInserted'
  <2>1. \A r \in Request : doomed'[r] \subseteq doomed[r] \cup SessionsOf(r)
    <3>1. CASE \E q \in Request : RevokeAll(q)
      BY <1>1, <3>1 DEF RevokeAll
    <3>2. CASE \E q \in Request : Fail(q) \/ Commit(q)
      BY <1>1, <3>2 DEF Fail, Commit, EndTransaction
    <3>3. CASE doomed' = doomed
      BY <3>3
    <3> QED
      BY <3>1, <3>2, <3>3 DEF Next, Step, CheckExists, InsertUser, FindUser, InsertToken,
         CheckBruteForce, CheckCredentials, RecordFailedAttempt, MarkAttemptSuccess, ReadToken,
         Revoke, ReadMailedToken, CheckPassword, LockUser, Suspend, AdminDelete, AuditLog, Start,
         Expire, SuspensionEnds, AttemptLapses, locks, vars
  <2>2. \A r \in Request : \A t \in SessionsOf(r) : t \in Request /\ token[t] # "none"
    BY DEF SessionsOf, Live
  <2> QED
    BY <1>1, <1>2, <2>1, <2>2 DEF DoomedWereInserted
<1> QED
  BY <1>3, <1>4

\* Whoever revokes, revokes all that was held, before it is answered.
LEMMA RevocationStep == IInv /\ [Next]_vars => RevokedBeforeAnswer' /\ RevocationIsComplete'
<1> SUFFICES ASSUME IInv, [Next]_vars PROVE RevokedBeforeAnswer' /\ RevocationIsComplete'
  OBVIOUS
<1>1. /\ token \in [Request -> {"none", "live", "spent"}] /\ pc \in [Request -> Steps]
      /\ held \in [Request -> SUBSET Request] /\ doomed \in [Request -> SUBSET Request]
      /\ reply \in [Request -> Replies]
      /\ RevokedBeforeAnswer /\ RevocationIsComplete
  BY DEF IInv, TypeOK
<1>2. \A t \in Request : token[t] = "spent" => token'[t] = "spent"
  BY TokensStay
<1>3. ASSUME NEW r \in Request
      PROVE  \A t \in held[r] : t \in Request /\ (token[t] = "spent" \/ t \in SessionsOf(r))
  <2>1. \A t \in held[r] : t \in Request /\ token[t] # "none" /\ Op(t) \in {"login", "refresh"}
                           /\ who[t] = who[r]
    BY <1>1 DEF IInv, HeldAreSessions
  <2> QED
    BY <1>1, <2>1 DEF SessionsOf, Live
<1>4. ASSUME NEW r \in Request, Step(r)
      PROVE  RevokedBeforeAnswer' /\ RevocationIsComplete'
  <2>1. /\ held' = held /\ \A q \in Request : Op(q)' = Op(q)
        /\ \A q \in Request \ {r} : pc'[q] = pc[q] /\ reply'[q] = reply[q]
        /\ pc[r] \in PathOf(Op(r)) /\ Op(r) \in Ops /\ reply[r] = ""
    BY <1>4, OthersStay, StepMoves DEF IInv, RequestsKeepTheirPath
  <2>2. \A q \in Request \ {r} : doomed'[q] = doomed[q]
    BY <1>1, <1>4 DEF Step, CheckExists, InsertUser, FindUser, InsertToken,
       CheckBruteForce, CheckCredentials, RecordFailedAttempt, MarkAttemptSuccess, ReadToken,
       Revoke, ReadMailedToken, CheckPassword, LockUser, RevokeAll, Commit, Suspend, AdminDelete,
       AuditLog, EndTransaction, locks
  <2>3. ASSUME Op(r) \in {"reset", "delete"}, pc'[r] = "commit"
        PROVE  \A t \in held[r] : token'[t] = "spent" \/ t \in doomed'[r]
    <3>1. pc[r] \in {"mailed?", "lockUser", "revokeAll", "commit", "password?"}
      BY <2>1, <2>3 DEF PathOf
    <3>2. RevokeAll(r)
      BY <1>1, <1>4, <2>3, <3>1 DEF Step, At, GoTo, Answer, CheckExists, InsertUser, FindUser,
         InsertToken, CheckBruteForce, CheckCredentials, RecordFailedAttempt, MarkAttemptSuccess,
         ReadToken, Revoke, ReadMailedToken, CheckPassword, LockUser, Commit, Suspend, AdminDelete,
         AuditLog
    <3> QED
      BY <1>1, <1>3, <2>3, <3>2 DEF RevokeAll
  <2>4. ASSUME Op(r) = "adminDelete", pc'[r] = "audit"
        PROVE  \A t \in held[r] : token'[t] = "spent"
    <3>1. pc[r] \in {"adminDelete", "revokeAll", "audit"}
      BY <2>1, <2>4 DEF PathOf
    <3>2. RevokeAll(r)
      BY <1>1, <1>4, <2>4, <3>1 DEF Step, At, GoTo, Answer, CheckExists, InsertUser, FindUser,
         InsertToken, CheckBruteForce, CheckCredentials, RecordFailedAttempt, MarkAttemptSuccess,
         ReadToken, Revoke, ReadMailedToken, CheckPassword, LockUser, Commit, Suspend, AdminDelete,
         AuditLog
    <3> QED
      BY <1>1, <1>3, <2>4, <3>2 DEF RevokeAll
  <2>5. ASSUME Op(r) \in {"reset", "delete", "adminDelete"}, reply'[r] = "OK"
        PROVE  \A t \in held[r] : token'[t] = "spent"
    <3>1. CASE Op(r) \in {"reset", "delete"}
      <4>1. Commit(r) /\ pc[r] = "commit"
        BY <1>4, <2>5, <3>1, AnswerFacts DEF Commit, At
      <4>2. \A t \in held[r] : t \in Request /\ (token[t] = "spent" \/ t \in doomed[r])
        BY <1>1, <3>1, <4>1 DEF RevokedBeforeAnswer
      <4> QED
        BY <4>1, <4>2 DEF Commit
    <3>2. CASE Op(r) = "adminDelete"
      <4>1. AuditLog(r) /\ pc[r] = "audit" /\ token' = token
        BY <1>4, <2>5, <3>2, AnswerFacts DEF AuditLog, At
      <4> QED
        BY <1>1, <3>2, <4>1 DEF RevokedBeforeAnswer
    <3> QED
      BY <2>5, <3>1, <3>2
  <2>6. \A q \in Request : \A t \in held[q] : t \in Request
    BY <1>1
  <2>7. RevokedBeforeAnswer'
    BY <1>1, <1>2, <2>1, <2>2, <2>3, <2>4, <2>6 DEF RevokedBeforeAnswer
  <2>8. RevocationIsComplete'
    BY <1>1, <1>2, <2>1, <2>5, <2>6 DEF RevocationIsComplete
  <2> QED
    BY <2>7, <2>8
<1>5. ASSUME NEW r \in Request, NEW c \in Calls, Start(r, c)
      PROVE  RevokedBeforeAnswer' /\ RevocationIsComplete'
  <2>1. FirstStep(c.op) \notin {"commit", "audit"}
    BY CallTypes, PathTypes
  <2>2. /\ pc[r] = "idle" /\ pc' = [pc EXCEPT ![r] = FirstStep(c.op)] /\ reply' = reply
        /\ \A q \in Request \ {r} : Op(q)' = Op(q) /\ held'[q] = held[q]
        /\ token' = token /\ doomed' = doomed
    BY <1>1, <1>5, StartFacts DEF tables, locks
  <2>3. reply[r] = ""
    BY <2>2 DEF IInv, RequestsKeepTheirPath
  <2>4. RevokedBeforeAnswer'
    BY <1>1, <2>1, <2>2 DEF RevokedBeforeAnswer
  <2>5. RevocationIsComplete'
    BY <1>1, <2>2, <2>3 DEF RevocationIsComplete
  <2> QED
    BY <2>4, <2>5
<1>6. ASSUME NEW r \in Request, Fail(r)
      PROVE  RevokedBeforeAnswer' /\ RevocationIsComplete'
  <2>1. /\ held' = held /\ token' = token /\ \A q \in Request : Op(q)' = Op(q)
        /\ pc' = [pc EXCEPT ![r] = "done"] /\ reply' = [reply EXCEPT ![r] = "FAILED"]
        /\ doomed' = [doomed EXCEPT ![r] = {}]
    BY <1>6, OthersStay DEF Fail, Answer, EndTransaction, tables
  <2> QED
    BY <1>1, <2>1 DEF RevokedBeforeAnswer, RevocationIsComplete
<1>7. CASE \/ UNCHANGED vars
           \/ \E t \in Request : Expire(t)
           \/ \E u \in User : SuspensionEnds(u) \/ AttemptLapses(u)
  BY <1>1, <1>7, ClockSteps DEF RevokedBeforeAnswer, RevocationIsComplete
<1> QED
  BY <1>4, <1>5, <1>6, <1>7 DEF Next

-------------------------------------------------------------------------------
(* The audit log *)

\* A deleted account stays deleted.
LEMMA DeletedStays ==
    ASSUME IInv, NEW r \in Request, Step(r)
    PROVE  \A u \in User : account[u] = "deleted" => account'[u] = "deleted"
<1>1. account \in [User -> {"absent", "active", "suspended", "deleted"}] /\ who[r] \in User
  BY StepMoves DEF IInv, TypeOK
<1>2. CASE InsertUser(r) \/ Commit(r) \/ Suspend(r) \/ AdminDelete(r)
  BY <1>1, <1>2 DEF InsertUser, Commit, Suspend, AdminDelete, Present
<1>3. CASE account' = account
  BY <1>3
<1> QED
  BY <1>2, <1>3 DEF Step, CheckExists, FindUser, InsertToken, CheckBruteForce, CheckCredentials,
     RecordFailedAttempt, MarkAttemptSuccess, ReadToken, Revoke, ReadMailedToken, CheckPassword,
     LockUser, RevokeAll, AuditLog, tables

\* One deletion of an account takes effect, and what was answered was logged.
LEMMA AuditStep == IInv /\ [Next]_vars => OneDeleterPerAccount' /\ AnsweredIsLogged'
<1> SUFFICES ASSUME IInv, [Next]_vars PROVE OneDeleterPerAccount' /\ AnsweredIsLogged'
  OBVIOUS
<1>1. /\ pc \in [Request -> Steps] /\ reply \in [Request -> Replies] /\ audit \subseteq Request
      /\ account \in [User -> {"absent", "active", "suspended", "deleted"}]
      /\ \A r \in Request : Deleter(r) => who[r] \in User
      /\ OneDeleterPerAccount /\ AnsweredIsLogged
  <2>1. \A r \in Request : Deleter(r) => pc[r] # "idle"
    BY DEF Deleter, IInv, RequestsKeepTheirPath
  <2> QED
    BY <2>1 DEF IInv, TypeOK, RequestsKeepTheirPath
<1>2. ASSUME NEW r \in Request, Step(r)
      PROVE  OneDeleterPerAccount' /\ AnsweredIsLogged'
  <2>1. /\ UNCHANGED <<call, who>> /\ \A q \in Request : Op(q)' = Op(q)
        /\ \A q \in Request \ {r} : pc'[q] = pc[q] /\ reply'[q] = reply[q]
        /\ pc[r] \in PathOf(Op(r)) /\ Op(r) \in Ops /\ who[r] \in User /\ reply[r] = ""
    BY <1>2, OthersStay, StepMoves DEF IInv, RequestsKeepTheirPath
  <2>2. /\ audit' \subseteq audit \cup {r} /\ audit \subseteq audit'
        /\ r \in audit' => r \in audit \/ AuditLog(r)
    BY <1>2 DEF Step, CheckExists, InsertUser, FindUser, InsertToken, CheckBruteForce,
       CheckCredentials, RecordFailedAttempt, MarkAttemptSuccess, ReadToken, Revoke,
       ReadMailedToken, CheckPassword, LockUser, RevokeAll, Commit, Suspend, AdminDelete,
       AuditLog, tables
  <2>3. ASSUME Deleter(r)', ~Deleter(r)
        PROVE  AdminDelete(r) /\ Present(who[r]) /\ account'[who[r]] = "deleted"
    <3>1. Op(r) = "adminDelete" /\ pc'[r] = "revokeAll" /\ pc[r] \notin {"revokeAll", "audit"}
      <4>1. Op(r) = "adminDelete" /\ pc[r] \notin {"revokeAll", "audit"} /\ r \notin audit
        BY <2>1, <2>3 DEF Deleter
      <4>2. r \notin audit'
        BY <2>2, <4>1 DEF AuditLog, At
      <4>3. pc[r] = "adminDelete"
        BY <2>1, <4>1 DEF PathOf
      <4>4. pc'[r] # "audit"
        BY <1>1, <1>2, <4>3 DEF Step, At, GoTo, Answer, CheckExists, InsertUser, FindUser,
           InsertToken, CheckBruteForce, CheckCredentials, RecordFailedAttempt,
           MarkAttemptSuccess, ReadToken, Revoke, ReadMailedToken, CheckPassword, LockUser,
           RevokeAll, Commit, Suspend, AdminDelete, AuditLog
      <4> QED
        BY <2>3, <4>1, <4>2, <4>4 DEF Deleter
    <3>2. pc[r] = "adminDelete"
      BY <2>1, <3>1 DEF PathOf
    <3>3. AdminDelete(r)
      BY <1>2, <3>2 DEF Step, At, CheckExists, InsertUser, FindUser,
         InsertToken, CheckBruteForce, CheckCredentials, RecordFailedAttempt, MarkAttemptSuccess,
         ReadToken, Revoke, ReadMailedToken, CheckPassword, LockUser, RevokeAll, Commit, Suspend,
         AuditLog
    <3> QED
      BY <1>1, <2>1, <3>1, <3>3 DEF AdminDelete, Answer, GoTo
  <2>4. \A q \in Request \ {r} : Deleter(q)' => Deleter(q)
    BY <2>1, <2>2 DEF Deleter
  <2>5. \A q \in Request : Deleter(q) => account'[who[q]] = "deleted"
    BY <1>1, <1>2, DeletedStays DEF OneDeleterPerAccount
  <2>6. OneDeleterPerAccount'
    <3>1. CASE Deleter(r)' => Deleter(r)
      BY <1>1, <2>1, <2>4, <2>5, <3>1 DEF OneDeleterPerAccount
    <3>2. CASE Deleter(r)' /\ ~Deleter(r)
      <4>1. \A q \in Request : Deleter(q) => who[q] # who[r]
        BY <1>1, <2>3, <3>2 DEF OneDeleterPerAccount, Present
      <4> QED
        BY <1>1, <2>1, <2>3, <2>4, <2>5, <3>2, <4>1 DEF OneDeleterPerAccount
    <3> QED
      BY <3>1, <3>2
  <2>7. AnsweredIsLogged'
    <3>1. ASSUME Op(r) \in {"suspend", "adminDelete"}, reply'[r] = "OK" PROVE r \in audit'
      BY <1>2, <3>1, AnswerFacts DEF AuditLog
    <3> QED
      BY <1>1, <2>1, <2>2, <3>1 DEF AnsweredIsLogged
  <2> QED
    BY <2>6, <2>7
<1>3. ASSUME NEW r \in Request, NEW c \in Calls, Start(r, c)
      PROVE  OneDeleterPerAccount' /\ AnsweredIsLogged'
  <2>1. FirstStep(c.op) \notin {"revokeAll", "audit"}
    BY CallTypes, PathTypes
  <2>2. /\ pc[r] = "idle" /\ pc' = [pc EXCEPT ![r] = FirstStep(c.op)] /\ reply' = reply
        /\ \A q \in Request \ {r} : Op(q)' = Op(q)
        /\ audit' = audit /\ account' = account
    BY <1>3, StartFacts DEF tables
  <2>3. \A q \in Request \ {r} : who'[q] = who[q]
    BY <1>3, StartFacts DEF IInv, TypeOK
  <2>4. reply[r] = "" /\ r \notin audit
    BY <2>2 DEF IInv, RequestsKeepTheirPath
  <2>5. ~Deleter(r)' /\ \A q \in Request \ {r} : Deleter(q)' <=> Deleter(q)
    BY <1>1, <2>1, <2>2, <2>4 DEF Deleter
  <2> QED
    BY <1>1, <2>2, <2>3, <2>4, <2>5 DEF OneDeleterPerAccount, AnsweredIsLogged
<1>4. ASSUME NEW r \in Request, Fail(r)
      PROVE  OneDeleterPerAccount' /\ AnsweredIsLogged'
  <2>1. /\ UNCHANGED <<call, who, audit, account>> /\ \A q \in Request : Op(q)' = Op(q)
        /\ pc' = [pc EXCEPT ![r] = "done"] /\ reply' = [reply EXCEPT ![r] = "FAILED"]
    BY <1>4, OthersStay DEF Fail, Answer, tables
  <2>2. \A q \in Request : Deleter(q)' => Deleter(q)
    BY <1>1, <2>1 DEF Deleter
  <2> QED
    BY <1>1, <2>1, <2>2 DEF OneDeleterPerAccount, AnsweredIsLogged
<1>5. CASE \/ UNCHANGED vars
           \/ \E t \in Request : Expire(t)
           \/ \E u \in User : SuspensionEnds(u) \/ AttemptLapses(u)
  <2>1. \A q \in Request : Deleter(q)' <=> Deleter(q)
    BY <1>5, ClockSteps DEF Deleter
  <2> QED
    BY <1>1, <1>5, <2>1, ClockSteps DEF OneDeleterPerAccount, AnsweredIsLogged
<1> QED
  BY <1>2, <1>3, <1>4, <1>5 DEF Next

-------------------------------------------------------------------------------
(* The theorems *)

\* The invariant holds before the first request.
LEMMA InvariantInit == Init => IInv
<1> SUFFICES ASSUME Init PROVE IInv
  OBVIOUS
<1>1. \A r \in DOMAIN Before : /\ r \in Request /\ Before[r] \in Calls /\ Before[r] # None
                               /\ Before[r].op = "login" /\ Before[r].user \in User
                               /\ Before[r].password \in Password
  BY BeforeAssumption, CallTypes DEF ByToken
<1>2. \A r \in Request : Op(r) = IF r \in DOMAIN Before THEN "login" ELSE "none"
  BY <1>1 DEF Init, Op
<1>3. \A u \in User : Member(u) =>
         Before[CHOOSE r \in DOMAIN Before : Before[r].user = u].password \in Password
  BY <1>1 DEF Member
<1>4. password \in [User -> Password \cup {None}]
  BY <1>3 DEF Init
<1>5. who \in [Request -> User \cup {None}] /\ call \in [Request -> Calls \cup {None}]
  BY <1>1 DEF Init
<1>6. TypeOK
  BY <1>4, <1>5 DEF Init, TypeOK, Steps, Replies
<1>7. RequestsKeepTheirPath /\ TokensWereGiven
  BY <1>1, <1>2 DEF Init, RequestsKeepTheirPath, TokensWereGiven, ByToken
<1>8. ParentSpentFirst
  BY <1>2 DEF Init, ParentSpentFirst
<1>9. SessionsOfVerified
  <2>1. \A r \in DOMAIN Before : who[r] \in verified
    BY <1>1 DEF Init, Member
  <2> QED
    BY <1>2, <2>1 DEF Init, SessionsOfVerified
<1>10. LocksOfTransactions /\ DoomedWereInserted /\ HeldAreSessions
  BY DEF Init, LocksOfTransactions, DoomedWereInserted, HeldAreSessions
<1>11. RevokedBeforeAnswer /\ RevocationIsComplete /\ OneDeleterPerAccount /\ AnsweredIsLogged
  BY <1>2 DEF Init, RevokedBeforeAnswer, RevocationIsComplete, OneDeleterPerAccount, Deleter,
     AnsweredIsLogged
<1> QED
  BY <1>6, <1>7, <1>8, <1>9, <1>10, <1>11 DEF IInv

\* The invariant is inductive.
THEOREM Invariant == Spec => []IInv
<1>1. IInv /\ [Next]_vars => IInv'
  BY TypeStep, PathStep, ParentStep, VerifiedStep, HeldStep, RevocationStep, AuditStep DEF IInv
<1> QED
  BY InvariantInit, <1>1, PTL DEF Spec

\* A refresh token never lives beside the one it was exchanged for, wherever the server
\* stopped and however many clients presented the same token.
THEOREM RotationSpends == Spec => []RotationSpendsParent
<1>1. IInv => RotationSpendsParent
  BY DEF IInv, ParentSpentFirst, RotationSpendsParent
<1> QED
  BY <1>1, Invariant, PTL

\* Rows, locks and sessions make sense together; no chain of logins and exchanges opens a
\* session of an account whose email was not verified.
THEOREM SessionsConsistent == Spec => []Consistent
<1>1. IInv => Consistent
  BY DEF IInv, SessionsOfVerified, OnlyVerifiedAccountsLogIn, Consistent
<1> QED
  BY <1>1, Invariant, PTL

\* An answered reset or deletion has ended every session that there was when it arrived.
THEOREM RevocationCompletes == Spec => []RevocationIsComplete
<1>1. IInv => RevocationIsComplete
  BY DEF IInv
<1> QED
  BY <1>1, Invariant, PTL

\* The audit log holds what was answered, and no deletion that did not take place or that
\* another administrator has done.
THEOREM AuditTruthful == Spec => []AuditIsTruthful
<1>1. IInv => AuditIsTruthful
  BY DEF IInv, TypeOK, OneDeleterPerAccount, Deleter, AnsweredIsLogged, AuditIsTruthful
<1> QED
  BY <1>1, Invariant, PTL

-------------------------------------------------------------------------------
(* Every request is answered, but for the fairness *)

\* A handler waits for a transaction that is open, and one that is about to commit for none.
LEMMA WaitsForTransaction ==
    ASSUME IInv, NEW r \in Request, Waits(r)
    PROVE  /\ \E q \in Request : pc[q] \in {"revokeAll", "commit"}
           /\ pc[r] = "revokeAll" => \E q \in Request : pc[q] = "commit"
           /\ pc[r] # "commit"
<1>1. pc[r] # "idle" /\ who[r] \in User
  BY ReceivedCall DEF Waits
<1>2. \A u \in User : ulock[u] # None =>
        ulock[u] \in Request /\ pc[ulock[u]] \in {"revokeAll", "commit"}
  BY DEF IInv, TypeOK
<1>3. \A t : ~Updatable(t) => \E q \in Request : pc[q] = "commit"
  BY DEF IInv, TypeOK, Updatable
<1>4. ~PseudoFree(r) => \E q \in Request : pc[q] \in {"revokeAll", "commit"}
  BY DEF PseudoFree
<1> QED
  BY <1>1, <1>2, <1>3, <1>4 DEF Waits, AccountReferable

\* Whatever transactions, deletions and exchanges are open together, a request that is
\* unanswered waits at most for one that does not wait (auth.service.ts resetPassword,
\* user.service.ts deleteMe).
THEOREM NobodyWaitsForAll == Spec => []NoCircularWait
<1>1. IInv => NoCircularWait
  <2> SUFFICES ASSUME IInv, NEW r \in Request, Unanswered(r)
               PROVE  \E q \in Request : Unanswered(q) /\ ~Waits(q)
    BY DEF NoCircularWait
  <2>1. ASSUME NEW q \in Request, pc[q] = "commit" PROVE Unanswered(q) /\ ~Waits(q)
    BY <2>1, WaitsForTransaction DEF Unanswered
  <2>2. ASSUME NEW q \in Request, pc[q] = "revokeAll", Waits(q)
        PROVE  \E p \in Request : pc[p] = "commit"
    BY <2>2, WaitsForTransaction
  <2>3. CASE Waits(r)
    <3>1. PICK q \in Request : pc[q] \in {"revokeAll", "commit"}
      BY <2>3, WaitsForTransaction
    <3> QED
      BY <2>1, <2>2, <3>1 DEF Unanswered
  <2> QED
    BY <2>3
<1> QED
  BY <1>1, Invariant, PTL

\* The place of a statement in its handler.
Rank(step) ==
    CASE step = "idle" -> 0
      [] step \in {"exists?", "throttle?", "token?", "user?", "mailed?", "password?",
                   "suspend", "adminDelete"} -> 1
      [] step \in {"insertUser", "credentials", "revoke", "lockUser"} -> 2
      [] step \in {"recordFailure", "markSuccess", "revokeAll"} -> 3
      [] step \in {"insertToken", "commit", "audit"} -> 4
      [] step = "done" -> 5

\* A statement takes its own handler to a later one, and no other handler back.
HandlersAdvance ==
    [][\A r \in Request : /\ Step(r) => Rank(pc'[r]) > Rank(pc[r])
                          /\ Rank(pc'[r]) >= Rank(pc[r])]_vars

LEMMA RankTypes ==
    Rank("idle") = 0 /\ Rank("done") = 5 /\ \A step \in Steps : Rank(step) \in 0 .. 5
  BY DEF Rank, Steps

\* A statement leads to a later one of its handler.
LEMMA StatementAdvances ==
    ASSUME IInv, NEW r \in Request, Step(r)
    PROVE  Rank(pc'[r]) > Rank(pc[r])
<1>1. pc \in [Request -> Steps]
  BY DEF IInv, TypeOK
<1>2. CASE CheckExists(r) \/ InsertUser(r) \/ FindUser(r) \/ InsertToken(r)
  BY <1>1, <1>2 DEF CheckExists, InsertUser, FindUser, InsertToken, At, GoTo, Answer, Rank
<1>3. CASE CheckBruteForce(r) \/ CheckCredentials(r) \/ RecordFailedAttempt(r) \/ MarkAttemptSuccess(r)
  BY <1>1, <1>3 DEF CheckBruteForce, CheckCredentials, RecordFailedAttempt, MarkAttemptSuccess, At,
     GoTo, Answer, Rank
<1>4. CASE ReadToken(r) \/ Revoke(r) \/ ReadMailedToken(r) \/ CheckPassword(r)
  BY <1>1, <1>4 DEF ReadToken, Revoke, ReadMailedToken, CheckPassword, At, GoTo, Answer, Rank
<1>5. CASE LockUser(r)
  BY <1>1, <1>5 DEF LockUser, At, GoTo, Answer, Rank
<1>6. CASE RevokeAll(r) \/ Commit(r) \/ AuditLog(r)
  BY <1>1, <1>6 DEF RevokeAll, Commit, AuditLog, At, GoTo, Answer, Rank
<1>7. CASE Suspend(r) \/ AdminDelete(r)
  BY <1>1, <1>7 DEF Suspend, AdminDelete, At, GoTo, Answer, Rank
<1> QED
  BY <1>2, <1>3, <1>4, <1>5, <1>6, <1>7 DEF Step

\* No handler loops: a statement leads to a later one, and nothing takes a handler back, so
\* that every request is answered once the server has run a bounded number of statements.
THEOREM EveryHandlerEnds == Spec => HandlersAdvance
<1>1. ASSUME IInv, [Next]_vars
      PROVE  [\A r \in Request : /\ Step(r) => Rank(pc'[r]) > Rank(pc[r])
                                 /\ Rank(pc'[r]) >= Rank(pc[r])]_vars
  <2> SUFFICES ASSUME NEW r \in Request PROVE Rank(pc'[r]) >= Rank(pc[r])
    BY <1>1, StatementAdvances
  <2>1. pc[r] \in Steps /\ pc'[r] \in Steps
    BY <1>1, TypeStep DEF IInv, TypeOK
  <2>2. /\ Rank(pc[r]) \in 0 .. 5 /\ Rank(pc'[r]) \in 0 .. 5
        /\ Rank("idle") = 0 /\ Rank("done") = 5
    BY <2>1, RankTypes
  <2>3. CASE Step(r)
    BY <1>1, <2>2, <2>3, StatementAdvances
  <2>4. CASE pc'[r] = "done" \/ pc[r] = "idle" \/ pc'[r] = pc[r]
    BY <2>2, <2>4
  <2>5. ASSUME NEW q \in Request, Step(q) \/ Fail(q) PROVE q = r \/ pc'[r] = pc[r]
    BY <1>1, <2>5, OthersStay
  <2>6. ASSUME NEW q \in Request, \E c \in Calls : Start(q, c)
        PROVE  pc[r] = "idle" \/ pc'[r] = pc[r]
    BY <1>1, <2>6 DEF Start, GoTo, IInv, TypeOK
  <2>7. Fail(r) => pc'[r] = "done"
    BY <1>1 DEF Fail, Answer, IInv, TypeOK
  <2>8. CASE UNCHANGED requests
    BY <2>4, <2>8 DEF requests
  <2> QED
    BY <1>1, <2>3, <2>4, <2>5, <2>6, <2>7, <2>8
       DEF Next, Expire, SuspensionEnds, AttemptLapses, vars
<1> QED
  BY <1>1, Invariant, PTL DEF Spec, HandlersAdvance

===============================================================================
