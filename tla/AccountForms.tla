----------------------------- MODULE AccountForms -----------------------------
(***************************************************************************)
(* The forms that nobody is logged in for: registration, the request of a  *)
(* reset link, and the new password behind that link.  The three have one  *)
(* shape: the "done" key of the keyboard submits as often as it is         *)
(* pressed, the fields stay open meanwhile, and each answer is applied     *)
(* when it comes.  What the fields hold is one content, or None when       *)
(* validation refuses it.  The server is what Sessions has in detail.      *)
(***************************************************************************)
EXTENDS Naturals, Sequences

CONSTANTS
    Content,    \* what valid fields may hold
    MaxPosts,   \* bound: submissions of one form
    None        \* fields that are not valid

VARIABLES
    purpose,            \* "register", "forgot" or "reset"
    filled, problem,    \* the fields, and whether an error is shown
    sending,            \* the indicator that closes the button
    success,            \* registered, sent or done: the form has given way
    posts,              \* the submissions: [content, at]
    accounts,           \* the server: contents whose email or pseudo is taken
    link,               \* the token of the address bar: "absent", "usable", "gone"
    did, unheard        \* history: posts carried out; those whose answer was lost

accountFormVars == <<purpose, filled, problem, sending, success, posts, accounts,
                     link, did, unheard>>

server == <<accounts, link, did, unheard>>
screen == <<filled, problem, sending, success>>

AccountFormInit ==
    /\ purpose \in {"register", "forgot", "reset"}
    /\ filled = None /\ problem = FALSE /\ sending = FALSE /\ success = FALSE
    /\ posts = <<>> /\ accounts \in SUBSET Content
    /\ link \in (IF purpose = "reset" THEN {"absent", "usable", "gone"} ELSE {"absent"})
    /\ did = {} /\ unheard = {}

-----------------------------------------------------------------------------
\* The screen.

\* Without a token the reset screen only offers to ask for another link.
Shown == ~success /\ (purpose = "reset" => link # "absent")

SetField(c) ==
    /\ Shown
    /\ filled' = c /\ problem' = FALSE
    /\ UNCHANGED <<purpose, sending, success, posts, server>>

\* validate refuses: nothing leaves.
SubmitInvalid ==
    /\ Shown /\ filled = None
    /\ problem' = TRUE
    /\ UNCHANGED <<purpose, filled, sending, success, posts, server>>

\* submit: by the button, which "sending" closes, or by the keyboard, which
\* nothing closes.
Submit ==
    /\ Shown /\ filled # None /\ Len(posts) < MaxPosts
    /\ posts' = Append(posts, [content |-> filled, at |-> "sent"])
    /\ problem' = FALSE /\ sending' = TRUE
    /\ UNCHANGED <<purpose, filled, success, server>>

-----------------------------------------------------------------------------
\* The server.  Both a registration and a reset read first and write later.

Move(i, at) == posts' = [posts EXCEPT ![i].at = at]

Admitted(i) ==
    CASE purpose = "register" -> posts[i].content \notin accounts
      [] purpose = "reset" -> link = "usable"
      [] purpose = "forgot" -> TRUE

Read(i) ==
    /\ posts[i].at = "sent"
    /\ Move(i, IF Admitted(i) THEN "admitted" ELSE "refused")
    /\ UNCHANGED <<purpose, screen, server>>

\* The unique indexes refuse the second of two registrations; nothing refuses the
\* second use of one link.  The answer may be lost.
Write(i) ==
    /\ posts[i].at = "admitted"
    /\ purpose = "register" => posts[i].content \notin accounts
    /\ accounts' = IF purpose = "register" THEN accounts \cup {posts[i].content} ELSE accounts
    /\ link' = IF purpose = "reset" THEN "gone" ELSE link
    /\ did' = did \cup {i}
    /\ \/ Move(i, "OK") /\ UNCHANGED unheard
       \/ Move(i, "failed") /\ unheard' = unheard \cup {i}
    /\ UNCHANGED <<purpose, screen>>

\* "refused" is a 4xx: the rate limiter, the schema, the SIRET lookup; "failed" is
\* a 5xx, or a network that gives up.
Fail(i) ==
    /\ posts[i].at \in {"sent", "admitted"}
    /\ \E answer \in {"refused", "failed"} : Move(i, answer)
    /\ UNCHANGED <<purpose, screen, server>>

\* Somebody else takes the email or the pseudo; the link expires, or is used on
\* another device.
Others ==
    /\ \/ purpose = "register" /\ UNCHANGED link
          /\ \E c \in Content \ accounts : accounts' = accounts \cup {c}
       \/ link = "usable" /\ link' = "gone" /\ UNCHANGED accounts
    /\ UNCHANGED <<purpose, screen, posts, did, unheard>>

-----------------------------------------------------------------------------
\* The answers, in any order.

Answered(i) == posts[i].at \in {"OK", "refused", "failed"}

\* A refused request of a link counts as sent: it must not tell who has an account.
Welcome(i) == posts[i].at = "OK" \/ (purpose = "forgot" /\ posts[i].at = "refused")

Hear(i) ==
    /\ Answered(i) /\ Move(i, "heard")
    /\ IF Welcome(i) THEN success' = TRUE /\ UNCHANGED problem
                     ELSE problem' = TRUE /\ UNCHANGED success
    /\ sending' = FALSE
    /\ UNCHANGED <<purpose, filled, server>>

AccountFormNext ==
    \/ \E c \in Content \cup {None} : SetField(c)
    \/ SubmitInvalid \/ Submit \/ Others
    \/ \E i \in DOMAIN posts : Read(i) \/ Write(i) \/ Fail(i) \/ Hear(i)

AccountFormSpec == AccountFormInit /\ [][AccountFormNext]_accountFormVars

-----------------------------------------------------------------------------
\* A form says that it is done only for a submission that the server has carried
\* out: the account exists, the link can no longer be used.  For a link that was
\* asked for, the server has at least answered.
\* (the three submit functions; resetPassword, register)
SaidIsDone ==
    (success' /\ ~success) =>
      \E i \in DOMAIN posts :
        /\ Answered(i) /\ posts'[i].at = "heard"
        /\ purpose = "forgot" => posts[i].at # "failed"
        /\ purpose = "register" => i \in did /\ posts[i].content \in accounts
        /\ purpose = "reset" => i \in did /\ link = "gone"

\* A second press does not hide that the first has succeeded: when every answer
\* is in, in whatever order they came, the form says it is done if one of them
\* was a success, although the others may have been told "already taken" or
\* "link used".  (the "registered", "sent" and "done" of the three hooks)
DoneIsSaid ==
    (\A i \in DOMAIN posts : posts[i].at = "heard") =>
      (did \ unheard # {} => success)
=============================================================================
