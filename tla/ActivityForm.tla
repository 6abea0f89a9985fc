----------------------------- MODULE ActivityForm -----------------------------
(***************************************************************************)
(* The form that creates, edits and deletes an activity.  It waits for two *)
(* loads, of the activity and of the organizer's establishment, fills      *)
(* itself when the activity arrives, and goes to the organizer's list when *)
(* a request has succeeded.  The fields are one text; the server keeps the *)
(* text of the activity, which another device changes or deletes too.      *)
(***************************************************************************)
EXTENDS Naturals

CONSTANTS
    Text,       \* what the fields may hold, "empty" among them
    None        \* no activity, no request, nothing typed

VARIABLES
    mode,               \* "create" or "edit"
    detail, establishment,     \* the two loads
    values, failure,    \* the fields, and whether an error is shown
    save, removal,      \* the two requests, or None
    at,                 \* "form", "elsewhere" after the back button, "list"
    activity,           \* the server: a text, or None
    typed, applied      \* history: what the user typed last, what was stored

activityFormVars == <<mode, detail, establishment, values, failure, save, removal,
                      at, activity, typed, applied>>

loads == <<detail, establishment>>
fields == <<values, failure, typed>>
requests == <<save, removal>>
server == <<activity, applied>>

Empty == "empty"

ActivityFormInit ==
    /\ mode \in {"create", "edit"}
    /\ detail = (IF mode = "edit" THEN "loading" ELSE "absent")
    /\ establishment = "loading"
    /\ values = Empty /\ failure = FALSE /\ typed = None
    /\ save = None /\ removal = None /\ at = "form"
    /\ activity = (IF mode = "edit" THEN "old" ELSE None) /\ applied = {}

-----------------------------------------------------------------------------
\* The loads.

\* useActivityDetail, then the effect that fills the form.  After a failure the
\* form is shown empty.
LoadDetail ==
    /\ detail = "loading"
    /\ \/ activity # None /\ detail' = "loaded" /\ values' = activity
       \/ detail' = "failed" /\ UNCHANGED values
    /\ UNCHANGED <<mode, establishment, failure, requests, at, server, typed>>

\* useEstablishment: without one the screen offers to create it.
LoadEstablishment ==
    /\ establishment = "loading"
    /\ establishment' \in {"found", "missing", "failed"}
    /\ UNCHANGED <<mode, detail, fields, requests, at, server>>

\* Fault: the form does not wait for the activity.
ShownEarly == at = "form" /\ establishment = "found"

Shown == at = "form" /\ detail # "loading" /\ establishment = "found"

-----------------------------------------------------------------------------
\* The user.

SetField(t) ==
    /\ Shown
    /\ values' = t /\ typed' = t /\ failure' = FALSE
    /\ UNCHANGED <<mode, loads, requests, at, server>>

\* validate refuses: the hook returns null, no request leaves, the screen stays
\* and scrolls to the message.
SubmitInvalid ==
    /\ Shown /\ save = None
    /\ failure' = TRUE
    /\ UNCHANGED <<mode, loads, values, typed, requests, at, server>>

\* All the fields go out, those the user has not touched included.  Empty
\* fields are never valid.
Submit ==
    /\ Shown /\ save = None /\ values # Empty
    /\ save' = [text |-> values, answer |-> "none"]
    /\ failure' = FALSE
    /\ UNCHANGED <<mode, loads, values, typed, removal, at, server>>

\* The confirmed deletion; its button waits for a submission, while that of a
\* submission does not wait for a deletion.
Delete ==
    /\ Shown /\ mode = "edit" /\ removal = None /\ save = None
    /\ removal' = [answer |-> "none"]
    /\ failure' = FALSE
    /\ UNCHANGED <<mode, loads, values, typed, save, at, server>>

\* The back button; requests on their way go on, and their continuations too.
Back ==
    /\ at = "form" /\ at' = "elsewhere"
    /\ UNCHANGED <<mode, loads, fields, requests, server>>

-----------------------------------------------------------------------------
\* The server, and another device.  A creation that is repeated because its answer
\* was lost makes one activity more: "activity" is the last one.

Pending(request) == request # None /\ request.answer = "none"

Store ==
    /\ Pending(save)
    /\ \/ /\ mode = "create" \/ activity # None
          /\ activity' = save.text /\ applied' = applied \cup {save.text}
          /\ \E answer \in {"OK", "lost"} : save' = [save EXCEPT !.answer = answer]
       \/ \* refused, not found, a slot that has passed, or never arrived
          save' = [save EXCEPT !.answer = "error"] /\ UNCHANGED server
    /\ UNCHANGED <<mode, loads, fields, removal, at>>

Erase ==
    /\ Pending(removal)
    /\ \/ /\ activity # None /\ activity' = None
          /\ \E answer \in {"OK", "lost"} : removal' = [answer |-> answer]
       \/ removal' = [answer |-> "error"] /\ UNCHANGED activity
    /\ UNCHANGED <<mode, loads, fields, save, at, applied>>

OtherDevice(t) ==
    /\ activity # None /\ activity' = t /\ t # activity
    /\ UNCHANGED <<mode, loads, fields, requests, at, applied>>

-----------------------------------------------------------------------------
\* The answers.

\* Fault: whatever submit returns, the screen goes to the list.
LeaveAnyway ==
    /\ save # None /\ ~Pending(save)
    /\ save' = None /\ at' = "list"
    /\ UNCHANGED <<mode, loads, fields, removal, server>>

\* handleSubmit: to the list after a success, wherever the user is by then.
Saved ==
    /\ save # None /\ ~Pending(save)
    /\ save' = None
    /\ IF save.answer = "OK" THEN at' = "list" /\ UNCHANGED failure
                             ELSE failure' = TRUE /\ UNCHANGED at
    /\ UNCHANGED <<mode, loads, values, typed, removal, server>>

\* performDelete, the same.
Removed ==
    /\ removal # None /\ ~Pending(removal)
    /\ removal' = None
    /\ IF removal.answer = "OK" THEN at' = "list" /\ UNCHANGED failure
                                ELSE failure' = TRUE /\ UNCHANGED at
    /\ UNCHANGED <<mode, loads, values, typed, save, server>>

ActivityFormNext ==
    \/ LoadDetail \/ LoadEstablishment
    \/ \E t \in Text : SetField(t)
    \/ SubmitInvalid \/ Submit \/ Delete \/ Back
    \/ Store \/ Erase \/ \E t \in (Text \ {Empty}) \cup {None} : OtherDevice(t)
    \/ Saved \/ Removed

ActivityFormSpec == ActivityFormInit /\ [][ActivityFormNext]_activityFormVars

-----------------------------------------------------------------------------
\* What the user types stays in the fields: neither of the two loads writes over
\* it, in whatever order they arrive.
\* (activity-form-view.tsx, "loading || establishmentLoading"; the effect of
\* use-activity-form.ts "Préremplit quand la donnée initiale arrive")
TypedIsKept == typed # None => values = typed

\* The form gives way to the list only after the server has done what was asked:
\* it stored the text that was sent, or the activity is gone.
\* (activity-form-view.tsx, "il ne faut surtout pas faire croire à une création
\* réussie")
LeavesWhenDone ==
    (at' = "list" /\ at # "list") =>
      \/ save # None /\ save' = None /\ save.text \in applied
      \/ removal # None /\ removal' = None /\ (mode = "edit" => activity = None)
=============================================================================
