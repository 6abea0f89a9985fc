--------------------------- MODULE EstablishmentForm ---------------------------
(***************************************************************************)
(* The establishment screen of one organizer on several devices.  A form   *)
(* is filled from what it loaded, keeps the address the organizer          *)
(* confirmed, and sends an address only when it is not the loaded one.     *)
(* The server is what Establishments promises: one row, which an update    *)
(* addresses by its identifier.  The texts of the fields are left out, and  *)
(* with them the SIRET prefill, which writes nothing else.                 *)
(***************************************************************************)
EXTENDS Naturals

CONSTANTS
    Device,
    Address,    \* what the geocoder offers
    MaxRows,    \* bound: rows the organizer creates, one after the other
    None        \* no row, no address

VARIABLES
    form,       \* by device: the state of the screen
    sent,       \* by device: the submission on its way to the server, or back
    row,        \* the server: None, or [id, address]
    rows        \* rows created so far

formVars == <<form, sent, row, rows>>

\* The loaded row and the confirmed address; "tapped" is history: the organizer
\* has chosen that address on this form.
Blank == [at |-> "loading", initial |-> None, selected |-> None, tapped |-> FALSE]

FormInit ==
    /\ form = [d \in Device |-> Blank]
    /\ sent = [d \in Device |-> None]
    /\ row = None /\ rows = 0

On(d, screen) == form[d].at = screen
Editing(d) == On(d, "form") \/ On(d, "saving")
Set(d, f) == form' = [form EXCEPT ![d] = f]

\* useEstablishment: the organizer's row, or none; and the effect that fills the
\* form from it.
Load(d) ==
    /\ On(d, "loading")
    /\ \/ Set(d, [form[d] EXCEPT !.at = "error"])
       \/ Set(d, [Blank EXCEPT !.at = "form", !.initial = row,
                     !.selected = IF row = None THEN None ELSE row.address])
    /\ UNCHANGED <<sent, row, rows>>

\* The button of the error screen, or coming back to the screen.
Reload(d) ==
    /\ On(d, "error") \/ On(d, "left")
    /\ Set(d, Blank)
    /\ UNCHANGED <<sent, row, rows>>

\* setField on the address: what was confirmed no longer is.
TypeAddress(d) ==
    /\ Editing(d)
    /\ Set(d, [form[d] EXCEPT !.selected = None, !.tapped = FALSE])
    /\ UNCHANGED <<sent, row, rows>>

\* searchAddress and selectAddress: answers are shown whenever they come, whatever
\* the field holds by then, so that any address may be on offer.
SelectAddress(d, a) ==
    /\ Editing(d)
    /\ Set(d, [form[d] EXCEPT !.selected = a, !.tapped = TRUE])
    /\ UNCHANGED <<sent, row, rows>>

\* The address goes out with a creation, or when another one was confirmed.
Payload(f) ==
    IF f.initial # None /\ f.initial.address = f.selected THEN None ELSE f.selected

\* submit: without a confirmed address the form says so and sends nothing.
Submit(d) ==
    /\ On(d, "form") /\ form[d].selected # None /\ sent[d] = None
    /\ Set(d, [form[d] EXCEPT !.at = "saving"])
    /\ sent' = [sent EXCEPT ![d] =
                  [id |-> IF form[d].initial = None THEN 0 ELSE form[d].initial.id,
                   address |-> Payload(form[d]), answer |-> "none",
                   chosen |-> form[d].tapped]]
    /\ UNCHANGED <<row, rows>>

\* The server: a creation needs an account without establishment, an update the
\* row it names; it may refuse an address the geocoder has lost, and fail.
Unanswered(d) == sent[d] # None /\ sent[d].answer = "none"
Answer(d, a) == sent' = [sent EXCEPT ![d].answer = a]

\* Fault: a creation finds the row of another one and updates it.
Upsert(d) ==
    /\ Unanswered(d) /\ sent[d].id = 0
    /\ IF row # None
       THEN row' = [row EXCEPT !.address = sent[d].address] /\ UNCHANGED rows
       ELSE /\ rows < MaxRows /\ rows' = rows + 1
            /\ row' = [id |-> rows + 1, address |-> sent[d].address]
    /\ Answer(d, "OK")
    /\ UNCHANGED form

Create(d) ==
    /\ Unanswered(d) /\ sent[d].id = 0
    /\ \/ row # None /\ Answer(d, "refused") /\ UNCHANGED <<row, rows>>
       \/ /\ row = None /\ rows < MaxRows
          /\ rows' = rows + 1
          /\ row' = [id |-> rows + 1, address |-> sent[d].address]
          /\ Answer(d, "OK")
    /\ UNCHANGED form

Update(d) ==
    /\ Unanswered(d) /\ sent[d].id # 0
    /\ IF row = None \/ row.id # sent[d].id
       THEN Answer(d, "refused") /\ UNCHANGED row
       ELSE /\ Answer(d, "OK")
            /\ row' = IF sent[d].address = None THEN row
                      ELSE [row EXCEPT !.address = sent[d].address]
    /\ UNCHANGED <<form, rows>>

Refuse(d) ==
    /\ Unanswered(d)
    /\ Answer(d, "refused")
    /\ UNCHANGED <<form, row, rows>>

\* deleteEstablishment, which no screen offers but the API does.
DeleteRow ==
    /\ row # None
    /\ row' = None
    /\ UNCHANGED <<form, sent, rows>>

\* handleSubmit: the dashboard after a success, the form and a message otherwise.
Answered(d) ==
    /\ On(d, "saving") /\ sent[d].answer # "none"
    /\ Set(d, IF sent[d].answer = "OK" THEN [Blank EXCEPT !.at = "left"]
              ELSE [form[d] EXCEPT !.at = "form"])
    /\ sent' = [sent EXCEPT ![d] = None]
    /\ UNCHANGED <<row, rows>>

\* The network gives up: to the form this is a failure like another, and the
\* server may still do what it was asked.  Bound: one such request of a device.
GiveUp(d) ==
    /\ On(d, "saving") /\ Unanswered(d)
    /\ Set(d, [form[d] EXCEPT !.at = "form"])
    /\ UNCHANGED <<sent, row, rows>>

\* The answer to a request that was given up reaches nobody.
Unheard(d) ==
    /\ ~On(d, "saving") /\ sent[d] # None /\ sent[d].answer # "none"
    /\ sent' = [sent EXCEPT ![d] = None]
    /\ UNCHANGED <<form, row, rows>>

FormNext ==
    \/ DeleteRow
    \/ \E d \in Device :
         \/ Load(d) \/ Reload(d) \/ TypeAddress(d)
         \/ \E a \in Address : SelectAddress(d, a)
         \/ Submit(d) \/ Create(d) \/ Update(d) \/ Refuse(d)
         \/ Answered(d) \/ GiveUp(d) \/ Unheard(d)

FormSpec == FormInit /\ [][FormNext]_formVars

-----------------------------------------------------------------------------
\* The address of an establishment changes only by an update whose sender tapped
\* that address on a form: whoever saves a telephone number, or repeats a
\* creation whose answer was lost, does not undo the move that another device
\* has saved since.  (use-establishment-form.ts submit, the condition on
\* addressId; establishment.service.ts createEstablishment, ESTABLISHMENT_EXISTS)
AddressChangesByChoice ==
    (row # None /\ row' # None /\ row'.address # row.address) =>
        \E d \in Device : /\ Unanswered(d) /\ sent'[d] # sent[d]
                          /\ sent[d].id = row.id /\ sent[d].chosen
=============================================================================
