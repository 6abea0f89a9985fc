----------------------------- MODULE ScreensProofs -----------------------------
(***************************************************************************)
(* Theorems about Screens, for every set of calls, devices, texts, slots,  *)
(* entries, positions, conversations and contents, and for any number of   *)
(* requests, presses, changes, loads, searches and submissions.  Each      *)
(* scene has an inductive invariant of its own.                            *)
(***************************************************************************)
EXTENDS Screens, SequenceTheorems, WellFoundedInduction, TLAPS

-------------------------------------------------------------------------------
(* The inductive invariants *)

\* Establishments.

ActivityRow == [owner : Account, from : ER!Request \cup {None}, address : ER!Address]

\* Where a handler is, and the statements that its call runs.
Statement ==
    {"idle", "check", "geocode", "insert", "read", "fetch", "update", "delete", "resolve",
     "activity", "done"}
PathOf(op) ==
    CASE op = "create" -> {"check", "geocode", "insert", "read"}
      [] op = "update" -> {"fetch", "geocode", "update", "read"}
      [] op = "delete" -> {"fetch", "delete"}
      [] op = "activity" -> {"resolve", "activity"}
      [] OTHER -> {}

EstablishmentTypes ==
    /\ establishments \in [ER!Request -> EstablishmentRow \cup {None}]
    /\ attached \in [ER!Request -> ActivityRow \cup {None}]
    /\ call \in [ER!Request -> EstablishmentCalls \cup {None}]
    /\ pc \in [ER!Request -> Statement]
    /\ reply \in [ER!Request -> Reply \cup {None}]
    /\ place = [r \in ER!Request |-> place[r]]
    /\ ign \in [Place -> Label] /\ ER!Answers \subseteq served /\ served \subseteq ER!Address

\* A request runs the statements of its call, and is answered at their end.
CallsKeepTheirPath ==
    \A r \in ER!Request :
        /\ call[r] = None <=> pc[r] = "idle"
        /\ reply[r] # None <=> pc[r] = "done"
        /\ pc[r] \notin {"idle", "done"} => pc[r] \in PathOf(call[r].op)

\* The row named e was inserted, for the account u; it may have gone since.
Made(e, u) ==
    /\ call[e] # None /\ call[e].op = "create" /\ call[e].by = u
    /\ pc[e] \in {"read", "done"}

\* The addresses that handlers hold were served; the establishment that an activity is
\* about to copy is its organizer's, or has gone.
Held(r) ==
    /\ pc[r] \in {"check", "fetch", "geocode", "resolve", "idle"} => place[r] = None
    /\ pc[r] = "insert" => place[r] \in served
    /\ pc[r] = "update" => place[r] \in served \cup {None}
    /\ pc[r] = "activity" =>
        /\ place[r] \in [from : ER!Request, address : served]
        /\ Made(place[r].from, call[r].by)
HeldWasServed == \A r \in ER!Request : Held(r)

RowsWereMade ==
    \A e \in ER!Request : ER!Stored(e) => Made(e, establishments[e].owner)

EstablishmentsInv ==
    /\ EstablishmentTypes
    /\ CallsKeepTheirPath /\ HeldWasServed /\ RowsWereMade
    /\ ER!Consistent /\ ER!AddressesWereServed

\* EstablishmentForm.

FormRow == [id : Nat, address : Offered \cup {None}] \cup {None}

FormState ==
    [at : {"loading", "form", "saving", "error", "left"},
     initial : FormRow, selected : Offered \cup {None}, tapped : BOOLEAN]
Submission ==
    [id : Nat, address : Offered \cup {None}, answer : {"none", "OK", "refused"},
     chosen : BOOLEAN]

\* An address that was not tapped is the loaded one, and does not go out.
LoadedOrTapped(f) ==
    f.initial # None /\ f.selected # None /\ ~f.tapped => f.selected = f.initial.address
OnlyChosen(s) == s # None /\ s.id # 0 /\ s.address # None => s.chosen

FormInv ==
    /\ rows \in Nat /\ row \in FormRow
    /\ form \in [Device -> FormState] /\ sent \in [Device -> Submission \cup {None}]
    /\ \A d \in Device : LoadedOrTapped(form[d]) /\ OnlyChosen(sent[d])

\* ActivityForm.

FieldText == Text \cup {"old", "empty"}
Answered == {"none", "OK", "lost", "error"}

ActivityFormInv ==
    /\ values \in FieldText /\ activity \in FieldText \cup {None}
    /\ save \in [text : FieldText, answer : Answered] \cup {None}
    /\ removal \in [answer : Answered] \cup {None}
    \* Nobody types before the activity is there; what succeeded was done.
    /\ typed # None => values = typed /\ detail # "loading"
    /\ save # None /\ save.answer = "OK" => save.text \in applied
    /\ removal # None /\ removal.answer = "OK" /\ mode = "edit" => activity = None

\* ActivityPage.

SlotList == [is : {"read"}, rows : SUBSET Slot, seats : SUBSET Slot, asOf : Nat]
Arrived(request) == request \notin {None, AP!Asked, AP!Failed}
UnderWay(p) == press[p] # None /\ press[p].step # "done"

PageTypes ==
    /\ clock \in Nat /\ slots \in SlotList /\ slots.asOf <= clock
    /\ booking \in [open : BOOLEAN, slot : Slot \cup {None}, time : BOOLEAN]
    /\ slotsLoad \in [AP!LoadOf -> {None, AP!Asked, AP!Failed} \cup SlotList]
    /\ press \in [AP!Press -> PressRecord \cup {None}]
    /\ made \in [AP!Press -> Nat \cup {None}]

\* Slots on their way are not older than those of the page, nor than the booking they
\* follow.
LoadsAreLater ==
    /\ \A l \in AP!LoadOf : Arrived(slotsLoad[l]) =>
        slots.asOf <= slotsLoad[l].asOf /\ slotsLoad[l].asOf <= clock
    /\ \A p \in AP!Press : made[p] # None =>
        /\ made[p] <= clock
        /\ Arrived(slotsLoad[p]) => made[p] <= slotsLoad[p].asOf

\* What the page takes for a booking was made.
BookedWasMade ==
    \A p \in AP!Press :
        press[p] # None /\ (press[p].ok \/ press[p].step = "stored") => made[p] # None

\* One press at a time, which loads the slots at its end; none during the first load,
\* with nothing picked to press for.
OnePress ==
    /\ \A p \in AP!Press :
        /\ slotsLoad[p] # None => AP!At(p, "slots")
        /\ UnderWay(p) => busy /\ \A q \in AP!Press : UnderWay(q) => q = p
        /\ slotsLoad[0] # None => press[p] = None
    /\ slotsLoad[0] # None => booking.slot = None /\ ~booking.time

PageInv == PageTypes /\ LoadsAreLater /\ BookedWasMade /\ OnePress

\* PlanningTab.

EntryList == [is : {"answered"}, rows : SUBSET Entry, asOf : Nat]
Back(request) == request \notin {None, PT!Asked, PT!Failed}

PlanningInv ==
    /\ version \in Nat /\ stored \subseteq Entry
    /\ shown \in EntryList /\ shown.asOf <= version
    /\ load \in [PT!Load -> {None, PT!Asked, PT!Failed} \cup EntryList]
    /\ removing \in [Entry -> {None, PT!Asked, PT!Failed} \cup EntryList]
    /\ \A l \in PT!Load : Back(load[l]) => load[l].asOf <= version
    \* Unless a removal has failed meanwhile, one list is on its way, and not an older one.
    /\ ~crossed => \A l \in PT!Load :
        /\ Back(load[l]) => shown.asOf <= load[l].asOf
        /\ load[l] # None =>
            isLoading /\ ~error /\ \A k \in PT!Load : load[k] # None => k = l
    /\ \A e \in Entry : Back(removing[e]) => e \in deleted

\* GroupPanel.

Current(r) == requests[r] # None /\ requests[r].current
WasRead(r) == requests[r].answer \notin {None, GP!Failed}

PanelTypes ==
    /\ proposals \in Nat /\ confirmed \in Nat /\ confirmed <= proposals
    /\ panel \in [conversation : BOOLEAN, asOf : Nat, hasMore : BOOLEAN, loading : BOOLEAN,
                  error : BOOLEAN, focused : BOOLEAN]
    /\ panel.asOf <= proposals
    /\ requests \in [GP!Request -> PanelRequest \cup {None}]
    /\ change \in [step : {"none", "posted", "stored", "refused", "refreshing"}, made : Nat]
    /\ change.made <= proposals

\* One request is current, under the spinner, and not older than the list.
OneCurrent ==
    \A r \in GP!Request : Current(r) =>
        /\ panel.loading /\ \A q \in GP!Request : Current(q) => q = r
        /\ WasRead(r) => /\ panel.asOf <= requests[r].answer.asOf
                         /\ requests[r].answer.asOf <= proposals

\* A focused panel shows what was confirmed, or will, or has only a message.
Refreshing(r) ==
    /\ Current(r) /\ requests[r].kind = "refresh"
    /\ WasRead(r) => requests[r].answer.asOf >= confirmed
OnlyMessage == panel.error /\ ~panel.conversation /\ \A r \in GP!Request : ~Current(r)
PanelKnows ==
    panel.focused =>
        \/ panel.asOf >= confirmed
        \/ \E r \in GP!Request : Refreshing(r)
        \/ OnlyMessage

PanelInv == PanelTypes /\ OneCurrent /\ PanelKnows

\* Searches.

LatestSearch(s) == searches[s] # None /\ searches[s].latest

SearchInv ==
    /\ kind \in {"picker", "people"} /\ field \in Query \cup {""}
    /\ timer \in BOOLEAN /\ overtaken \in BOOLEAN
    /\ searches \in [SE!Search -> SearchRequest \cup {None}]
    /\ kind = "picker" => ~timer /\ found \subseteq {field}
    \* Once the timer has run, the latest search is of the text in the field.
    /\ ~timer => \A s \in SE!Search : LatestSearch(s) => searches[s].text = field
    /\ kind = "people" =>
        /\ \A s \in SE!Search : searches[s] # None => ~searches[s].next
        /\ \/ timer \/ overtaken \/ found \subseteq {field}
           \/ \E s \in SE!Search : LatestSearch(s)

\* Nearby.

LatestLoad(l) == loads[l] # None /\ loads[l].latest

NearbyInv ==
    /\ position \in Position \cup {None}
    /\ loads \in [NE!Load -> NearbyLoad \cup {None}]
    /\ runs \in [NE!Run -> [step : {"asked", "current", "ended"}, seen : BOOLEAN,
                            then : {"watch", "refetch", "nothing"},
                            center : Position \cup {None}] \cup {None}]
    \* The list of a focused screen is that of the position, or the latest load is.
    /\ focused /\ ~mixed => \A l \in NE!Load : LatestLoad(l) => loads[l].center = position
    /\ focused /\ ~mixed /\ ~failed =>
        around = position \/ \E l \in NE!Load : LatestLoad(l)

\* ConversationList.

\* Of the server's version or an earlier one, and complete if it is of the server's.
Exact(list) ==
    list.asOf <= listVersion /\ (list.asOf = listVersion => list.rows = listed)

ConversationTypes ==
    /\ listVersion \in Nat /\ listTold \in Nat /\ listTold <= listVersion
    /\ listNews \subseteq 1..listVersion /\ listed \subseteq Conversation
    /\ conversations \in ListAnswer /\ conversations.asOf <= listVersion
    /\ listLoads \in [CL!Load -> ListLoad \cup {None}]
    /\ deletions \in [Conversation -> Deletion \cup {None}]

AnswersAreExact ==
    /\ \A l \in CL!Load : listLoads[l] \in ListAnswer => Exact(listLoads[l])
    /\ \A c \in Conversation : deletions[c] # None => deletions[c].previous.asOf <= listVersion

\* What the user heard of is shown, or on its way.
Telling(l) ==
    listLoads[l] # None /\ (listLoads[l] \in ListAnswer => listLoads[l].asOf >= listTold)
ToldIsShown ==
    listError \/ listOvertaken \/ conversations.asOf >= listTold \/ \E l \in CL!Load : Telling(l)

\* A row that is missing is being deleted, or will be there again.
MissingIsDeleted ==
    conversations.asOf = listVersion /\ conversations.rows # listed =>
        \/ listError \/ \E l \in CL!Load : listLoads[l] # None
        \/ \E c \in Conversation : CL!At(c, "asked") \/ CL!At(c, "failed")

ConversationsInv ==
    ConversationTypes /\ AnswersAreExact /\ ToldIsShown /\ MissingIsDeleted

\* FriendsTab.

FriendsInv ==
    /\ relations \in Nat /\ told \in Nat /\ told <= relations /\ news \subseteq 1..relations
    /\ lists \in [FT!List -> Nat]
    /\ friendsLoads \in [FT!Load -> FriendsLoad \cup {None}]
    /\ calls \in [FT!Call -> FriendsCall \cup {None}]
    /\ \A k \in FT!Call : calls[k] # None => calls[k].made <= relations
    \* What the user heard of is shown, or on its way, or about to be asked for.
    /\ \/ friendsError \/ friendsOvertaken \/ \A list \in FT!List : lists[list] >= told
       \/ \E k \in FT!Call : calls[k] # None
       \/ \E l \in FT!Load :
            /\ friendsLoads[l] # None
            /\ friendsLoads[l] # FT!Failed => \A list \in FT!List :
                friendsLoads[l][list] = None \/ friendsLoads[l][list] >= told

\* AccountForms.

Post == [content : Content, at : {"sent", "admitted", "OK", "refused", "failed", "heard"}]

AccountInv ==
    /\ purpose \in {"register", "forgot", "reset"}
    /\ filled \in Content \cup {None} /\ posts \in Seq(Post)
    \* A success was carried out, and what a form was told of it shows.
    /\ \A i \in DOMAIN posts : posts[i].at = "OK" =>
        /\ i \in did
        /\ purpose = "register" => posts[i].content \in accounts
        /\ purpose = "reset" => link = "gone"
    /\ \A i \in did \ unheard : i \in DOMAIN posts /\ (posts[i].at = "OK" \/ success)

IInv ==
    /\ scene = "establishments" => EstablishmentsInv
    /\ scene = "establishment form" => FormInv
    /\ scene = "activity form" => ActivityFormInv
    /\ scene = "activity page" => PageInv
    /\ scene = "planning tab" => PlanningInv
    /\ scene = "group panel" => PanelInv
    /\ scene = "searches" => SearchInv
    /\ scene = "nearby" => NearbyInv
    /\ scene = "conversations" => ConversationsInv
    /\ scene = "friends" => FriendsInv
    /\ scene = "account forms" => AccountInv

-------------------------------------------------------------------------------
(* Scenes *)

\* A step is one of the scene that is played.
LEMMA SceneSteps ==
    ASSUME [Next]_vars
    PROVE  /\ scene' = scene
           /\ scene = "establishments" => [ER!Next]_er
           /\ scene = "establishment form" => [EF!FormNext]_ef
           /\ scene = "activity form" => [AF!ActivityFormNext]_af
           /\ scene = "activity page" => [AP!ActivityPageNext]_ap
           /\ scene = "planning tab" => [PT!PlanningTabNext]_pt
           /\ scene = "group panel" => [GP!GroupPanelNext]_gp
           /\ scene = "searches" => [SE!SearchesNext]_se
           /\ scene = "nearby" => [NE!NearbyNext]_ne
           /\ scene = "conversations" => [CL!ConversationListNext]_cl
           /\ scene = "friends" => [FT!FriendsTabNext]_ft
           /\ scene = "account forms" => [AC!AccountFormNext]_ac
<1>1. CASE Next
  BY <1>1, Zenon DEF Next
<1>2. CASE UNCHANGED vars
  BY <1>2 DEF vars
<1> QED
  BY <1>1, <1>2

-------------------------------------------------------------------------------
(* AccountForms *)

\* A submission that moves keeps its content, and the others stay where they are.
LEMMA PostMoves ==
    ASSUME AccountInv, NEW i \in DOMAIN posts, NEW step, AC!Move(i, step),
           step \in {"sent", "admitted", "OK", "refused", "failed", "heard"}
    PROVE  /\ posts' \in Seq(Post) /\ DOMAIN posts' = DOMAIN posts
           /\ posts'[i].at = step /\ posts'[i].content = posts[i].content
           /\ \A j \in DOMAIN posts : j # i => posts'[j] = posts[j]
<1>1. posts \in Seq(Post) /\ i \in 1..Len(posts) /\ posts[i] \in Post
  BY DEF AccountInv
<1> DEFINE moved == [posts[i] EXCEPT !.at = step]
<1>2. moved \in Post /\ moved.at = step /\ moved.content = posts[i].content
  BY <1>1 DEF Post
<1>3. posts' = [posts EXCEPT ![i] = moved]
  BY DEF AC!Move
<1> HIDE DEF moved
<1>4. posts' \in Seq(Post) /\ Len(posts') = Len(posts) /\ \A j \in 1..Len(posts) :
        posts'[j] = IF j = i THEN moved ELSE posts[j]
  BY <1>1, <1>2, <1>3, ExceptSeq
<1> QED
  BY <1>1, <1>2, <1>4

\* A blank form has had no submission.
LEMMA AccountInit ==
    AC!AccountFormInit => AccountInv
  BY DEF AC!AccountFormInit, AccountInv

\* Each step of the account forms keeps their invariant.
LEMMA AccountStep ==
    ASSUME AccountInv, [AC!AccountFormNext]_ac
    PROVE  AccountInv'
<1> USE DEF AC!server, AC!screen
<1>1. ASSUME NEW c \in Content \cup {None}, AC!SetField(c) PROVE AccountInv'
  BY <1>1 DEF AC!SetField, AccountInv
<1>2. CASE AC!SubmitInvalid
  BY <1>2 DEF AC!SubmitInvalid, AccountInv
<1>3. CASE AC!Submit
  <2> DEFINE new == [content |-> filled, at |-> "sent"]
  <2>1. new \in Post /\ new.at = "sent" /\ posts \in Seq(Post) /\ posts' = Append(posts, new)
    BY <1>3 DEF AC!Submit, AccountInv, Post
  <2> HIDE DEF new
  <2>2. /\ posts' \in Seq(Post) /\ Len(posts') = Len(posts) + 1
        /\ \A j \in DOMAIN posts : j \in DOMAIN posts' /\ posts'[j] = posts[j]
        /\ \A j \in DOMAIN posts' : j \in DOMAIN posts \/ posts'[j] = new
    BY <2>1, AppendProperties
  <2> QED
    BY <1>3, <2>1, <2>2 DEF AC!Submit, AccountInv
<1>4. CASE AC!Others
  BY <1>4 DEF AC!Others, AccountInv
<1>5. ASSUME NEW i \in DOMAIN posts, AC!Read(i) PROVE AccountInv'
  <2>1. PICK step \in {"admitted", "refused"} : AC!Move(i, step)
    BY <1>5 DEF AC!Read
  <2> QED
    BY <1>5, <2>1, PostMoves DEF AC!Read, AccountInv
<1>6. ASSUME NEW i \in DOMAIN posts, AC!Write(i) PROVE AccountInv'
  <2>1. PICK step \in {"OK", "failed"} : /\ AC!Move(i, step)
                                         /\ unheard' = IF step = "OK" THEN unheard ELSE unheard \cup {i}
    BY <1>6 DEF AC!Write
  <2> QED
    BY <1>6, <2>1, PostMoves DEF AC!Write, AccountInv
<1>7. ASSUME NEW i \in DOMAIN posts, AC!Fail(i) PROVE AccountInv'
  <2>1. PICK step \in {"refused", "failed"} : AC!Move(i, step)
    BY <1>7 DEF AC!Fail
  <2> QED
    BY <1>7, <2>1, PostMoves DEF AC!Fail, AccountInv
<1>8. ASSUME NEW i \in DOMAIN posts, AC!Hear(i) PROVE AccountInv'
  BY <1>8, PostMoves DEF AC!Hear, AC!Answered, AC!Welcome, AccountInv
<1>9. CASE UNCHANGED ac
  BY <1>9 DEF ac, AccountInv
<1> QED
  BY <1>1, <1>2, <1>3, <1>4, <1>5, <1>6, <1>7, <1>8, <1>9 DEF AC!AccountFormNext

\* The success screen is for a submission that was carried out.
LEMMA AccountSaid ==
    ASSUME AccountInv, [AC!AccountFormNext]_ac
    PROVE  AC!SaidIsDone
<1> SUFFICES ASSUME success', ~success PROVE AC!SaidIsDone
  BY DEF AC!SaidIsDone
<1>1. PICK i \in DOMAIN posts : AC!Hear(i)
  BY DEF AC!AccountFormNext, AC!SetField, AC!SubmitInvalid, AC!Submit, AC!Others, AC!Read, AC!Write,
     AC!Fail, AC!server, AC!screen, ac
<1>2. posts'[i].at = "heard" /\ AC!Welcome(i) /\ AC!Answered(i)
  BY <1>1, PostMoves DEF AC!Hear
<1> QED
  BY <1>1, <1>2 DEF AC!SaidIsDone, AC!Welcome, AccountInv

-------------------------------------------------------------------------------
(* ActivityForm *)

\* Nobody has typed on a form that loads.
LEMMA ActivityFormInitially ==
    AF!ActivityFormInit => ActivityFormInv
  BY DEF AF!ActivityFormInit, AF!Empty, ActivityFormInv, FieldText

\* Each step of the form of an activity keeps its invariant.
LEMMA ActivityFormStep ==
    ASSUME ActivityFormInv, [AF!ActivityFormNext]_af
    PROVE  ActivityFormInv'
<1> USE DEF ActivityFormInv, FieldText, Answered, AF!loads, AF!fields, AF!requests, AF!server,
            AF!Pending, AF!Shown, AF!Empty
<1>1. CASE AF!LoadDetail
  BY <1>1 DEF AF!LoadDetail
<1>2. CASE AF!LoadEstablishment
  BY <1>2 DEF AF!LoadEstablishment
<1>3. ASSUME NEW t \in Text, AF!SetField(t) PROVE ActivityFormInv'
  BY <1>3 DEF AF!SetField
<1>4. CASE AF!SubmitInvalid \/ AF!Submit \/ AF!Delete \/ AF!Back
  BY <1>4 DEF AF!SubmitInvalid, AF!Submit, AF!Delete, AF!Back
<1>5. CASE AF!Store
  BY <1>5 DEF AF!Store
<1>6. CASE AF!Erase
  BY <1>6 DEF AF!Erase
<1>7. ASSUME NEW t \in (Text \ {AF!Empty}) \cup {None}, AF!OtherDevice(t) PROVE ActivityFormInv'
  BY <1>7 DEF AF!OtherDevice
<1>8. CASE AF!Saved \/ AF!Removed
  BY <1>8 DEF AF!Saved, AF!Removed
<1>9. CASE UNCHANGED af
  BY <1>9 DEF af
<1> QED
  BY <1>1, <1>2, <1>3, <1>4, <1>5, <1>6, <1>7, <1>8, <1>9 DEF AF!ActivityFormNext

\* The form leaves for the list when the server has done what it was asked.
LEMMA ActivityFormLeaves ==
    ASSUME ActivityFormInv, [AF!ActivityFormNext]_af
    PROVE  AF!LeavesWhenDone
<1> SUFFICES ASSUME at' = "list", at # "list" PROVE AF!LeavesWhenDone
  BY DEF AF!LeavesWhenDone
<1>1. (AF!Saved /\ save.answer = "OK") \/ (AF!Removed /\ removal.answer = "OK")
  BY DEF AF!ActivityFormNext, AF!LoadDetail, AF!LoadEstablishment, AF!SetField, AF!SubmitInvalid,
     AF!Submit, AF!Delete, AF!Back, AF!Store, AF!Erase, AF!OtherDevice, AF!Saved, AF!Removed, af
<1> QED
  BY <1>1 DEF AF!Saved, AF!Removed, AF!LeavesWhenDone, ActivityFormInv

-------------------------------------------------------------------------------
(* EstablishmentForm *)

\* Nobody has tapped an address on a form that loads.
LEMMA FormInitially ==
    EF!FormInit => FormInv
  BY DEF EF!FormInit, EF!Blank, FormInv, FormRow, FormState, LoadedOrTapped, OnlyChosen

\* A step of one device.
LEMMA FormMoves ==
    ASSUME FormInv, NEW d \in Device,
           NEW f \in FormState, LoadedOrTapped(f), form' = [form EXCEPT ![d] = f],
           NEW s \in Submission \cup {None}, OnlyChosen(s), sent' = [sent EXCEPT ![d] = s],
           rows' \in Nat, row' \in FormRow
    PROVE  FormInv'
  BY DEF FormInv

\* Each step of the establishment's form keeps its invariant.
LEMMA FormStep ==
    ASSUME FormInv, [EF!FormNext]_ef
    PROVE  FormInv'
<1> USE DEF FormRow
<1>1. ASSUME NEW d \in Device
      PROVE  /\ form[d] \in FormState /\ LoadedOrTapped(form[d]) /\ OnlyChosen(sent[d])
             /\ sent[d] \in Submission \cup {None}
             /\ sent = [sent EXCEPT ![d] = sent[d]] /\ form = [form EXCEPT ![d] = form[d]]
             /\ rows \in Nat /\ row \in FormRow
  BY DEF FormInv
<1>2. ASSUME NEW step \in {"loading", "left"}
      PROVE  /\ [EF!Blank EXCEPT !.at = step] \in FormState /\ EF!Blank \in FormState
             /\ LoadedOrTapped([EF!Blank EXCEPT !.at = step]) /\ LoadedOrTapped(EF!Blank)
  BY DEF EF!Blank, FormState, LoadedOrTapped
<1>3. ASSUME NEW d \in Device, NEW step \in {"loading", "form", "saving", "error", "left"}
      PROVE  /\ [form[d] EXCEPT !.at = step] \in FormState
             /\ LoadedOrTapped([form[d] EXCEPT !.at = step])
  BY <1>1 DEF FormState, LoadedOrTapped
<1>4. ASSUME NEW d \in Device, EF!Load(d) PROVE FormInv'
  <2> DEFINE loaded == [EF!Blank EXCEPT !.at = "form", !.initial = row,
                           !.selected = IF row = None THEN None ELSE row.address]
  <2>1. loaded \in FormState /\ LoadedOrTapped(loaded)
    BY <1>1, <1>4 DEF EF!Blank, FormState, LoadedOrTapped
  <2>2. \E f \in {loaded, [form[d] EXCEPT !.at = "error"]} : form' = [form EXCEPT ![d] = f]
    BY <1>4 DEF EF!Load, EF!Set
  <2>3. sent' = sent /\ row' = row /\ rows' = rows
    BY <1>4 DEF EF!Load
  <2> HIDE DEF loaded
  <2> QED
    BY <1>1, <1>3, <2>1, <2>2, <2>3, FormMoves
<1>5. ASSUME NEW d \in Device, EF!Reload(d) PROVE FormInv'
  <2>1. form' = [form EXCEPT ![d] = EF!Blank] /\ sent' = sent /\ row' = row /\ rows' = rows
    BY <1>5 DEF EF!Reload, EF!Set
  <2> QED
    BY <1>1, <1>2, <2>1, FormMoves
<1>6. ASSUME NEW d \in Device,
             EF!TypeAddress(d) \/ \E a \in Offered : EF!SelectAddress(d, a)
      PROVE  FormInv'
  <2>1. PICK a \in Offered \cup {None}, b \in BOOLEAN :
            /\ form' = [form EXCEPT ![d] = [form[d] EXCEPT !.selected = a, !.tapped = b]]
            /\ a = None \/ b
    BY <1>6 DEF EF!TypeAddress, EF!SelectAddress, EF!Set
  <2>2. sent' = sent /\ row' = row /\ rows' = rows
    BY <1>6 DEF EF!TypeAddress, EF!SelectAddress
  <2>3. /\ [form[d] EXCEPT !.selected = a, !.tapped = b] \in FormState
        /\ LoadedOrTapped([form[d] EXCEPT !.selected = a, !.tapped = b])
    BY <1>1, <2>1 DEF FormState, LoadedOrTapped
  <2> QED
    BY <1>1, <2>1, <2>2, <2>3, FormMoves
<1>7. ASSUME NEW d \in Device, EF!Submit(d) PROVE FormInv'
  <2> DEFINE s == [id |-> IF form[d].initial = None THEN 0 ELSE form[d].initial.id,
                   address |-> EF!Payload(form[d]), answer |-> "none",
                   chosen |-> form[d].tapped]
  <2>1. s \in Submission /\ OnlyChosen(s)
    BY <1>1, <1>7 DEF EF!Submit, EF!Payload, Submission, FormState, OnlyChosen, LoadedOrTapped
  <2>2. /\ form' = [form EXCEPT ![d] = [form[d] EXCEPT !.at = "saving"]]
        /\ sent' = [sent EXCEPT ![d] = s] /\ row' = row /\ rows' = rows
    BY <1>7 DEF EF!Submit, EF!Set
  <2> HIDE DEF s
  <2> QED
    BY <1>1, <1>3, <2>1, <2>2, FormMoves
<1>8. ASSUME NEW d \in Device, EF!Create(d) \/ EF!Update(d) \/ EF!Refuse(d) PROVE FormInv'
  <2>1. sent[d] # None /\ form' = form
    BY <1>8 DEF EF!Create, EF!Update, EF!Refuse, EF!Unanswered
  <2>2. PICK a \in {"OK", "refused"} : sent' = [sent EXCEPT ![d] = [sent[d] EXCEPT !.answer = a]]
    BY <1>8 DEF EF!Create, EF!Update, EF!Refuse, EF!Answer
  <2>3. /\ [sent[d] EXCEPT !.answer = a] \in Submission
        /\ OnlyChosen([sent[d] EXCEPT !.answer = a])
    BY <1>1, <2>1 DEF Submission, OnlyChosen
  <2>4. rows' \in Nat /\ row' \in FormRow
    BY <1>1, <1>8, <2>1 DEF EF!Create, EF!Update, EF!Refuse, Submission
  <2> QED
    BY <1>1, <2>1, <2>2, <2>3, <2>4, FormMoves
<1>9. ASSUME NEW d \in Device, EF!Answered(d) \/ EF!GiveUp(d) \/ EF!Unheard(d) PROVE FormInv'
  <2>1. \E f \in {form[d], [EF!Blank EXCEPT !.at = "left"], [form[d] EXCEPT !.at = "form"]} :
            form' = [form EXCEPT ![d] = f]
    BY <1>1, <1>9 DEF EF!Answered, EF!GiveUp, EF!Unheard, EF!Set
  <2>2. \E s \in {None, sent[d]} : sent' = [sent EXCEPT ![d] = s]
    BY <1>1, <1>9 DEF EF!Answered, EF!GiveUp, EF!Unheard
  <2>3. row' = row /\ rows' = rows /\ OnlyChosen(None)
    BY <1>9 DEF EF!Answered, EF!GiveUp, EF!Unheard, OnlyChosen
  <2> QED
    BY <1>1, <1>2, <1>3, <2>1, <2>2, <2>3, FormMoves
<1>10. CASE EF!DeleteRow
  BY <1>10 DEF EF!DeleteRow, FormInv
<1>11. CASE UNCHANGED ef
  BY <1>11 DEF ef, FormInv
<1> QED
  BY <1>4, <1>5, <1>6, <1>7, <1>8, <1>9, <1>10, <1>11 DEF EF!FormNext

\* An address that is replaced is replaced by one that was tapped on a form.
LEMMA FormChooses ==
    ASSUME FormInv, [EF!FormNext]_ef
    PROVE  EF!AddressChangesByChoice
<1> SUFFICES ASSUME row # None, row' # None, row'.address # row.address
             PROVE  EF!AddressChangesByChoice
  BY DEF EF!AddressChangesByChoice
<1>1. PICK d \in Device : EF!Update(d)
  BY DEF EF!FormNext, EF!Load, EF!Reload, EF!TypeAddress, EF!SelectAddress, EF!Submit, EF!Create,
     EF!Refuse, EF!Answered, EF!GiveUp, EF!Unheard, EF!DeleteRow, ef
<1>2. /\ row.id = sent[d].id /\ sent[d].id # 0 /\ sent[d].address # None
      /\ EF!Unanswered(d) /\ EF!Answer(d, "OK")
  BY <1>1 DEF EF!Update
<1>3. sent[d].chosen /\ sent'[d] # sent[d]
  BY <1>2 DEF FormInv, OnlyChosen, Submission, EF!Unanswered, EF!Answer
<1> QED
  BY <1>2, <1>3 DEF EF!AddressChangesByChoice

-------------------------------------------------------------------------------
(* Naturals *)

\* A nonempty set of naturals has a least element.
LEMMA LeastNatural ==
    ASSUME NEW T, T \subseteq Nat, T # {}
    PROVE  \E m \in T : \A k \in T : m <= k
<1> DEFINE R == {p \in Nat \X Nat : p[1] < p[2]}
<1>1. IsWellFoundedOn(R, Nat)
  BY NatLessThanWellFounded DEF OpToRel
<1>2. \E m \in T : \A k \in T : <<k, m>> \notin R
  <2> HIDE DEF R
  <2> QED BY <1>1, WFMin
<1>3. PICK m \in T : \A k \in T : <<k, m>> \notin R
  BY <1>2
<1>4. ASSUME NEW k \in T PROVE m <= k
  <2>1. m \in Nat /\ k \in Nat /\ <<k, m>> \in Nat \X Nat
    OBVIOUS
  <2>2. ~(k < m)
    BY <1>3, <2>1
  <2> QED
    BY <2>1, <2>2
<1> QED
  BY <1>4

-------------------------------------------------------------------------------
(* Searches *)

\* A search that is sent is the latest, for the text in the field, and the only latest.
LEMMA SearchSent ==
    ASSUME SearchInv, NEW next \in BOOLEAN, SE!Send(next)
    PROVE  /\ searches' \in [SE!Search -> SearchRequest \cup {None}]
           /\ \E s \in SE!Search :
                /\ searches'[s] = [text |-> field, next |-> next, latest |-> TRUE]
                /\ \A q \in SE!Search : q # s =>
                    /\ searches[q] = None => searches'[q] = None
                    /\ searches[q] # None => /\ ~searches'[q].latest
                                             /\ searches'[q].next = searches[q].next
<1> DEFINE new == [text |-> field, next |-> next, latest |-> TRUE]
           free == CHOOSE x \in SE!Unused : \A y \in SE!Unused : x <= y
<1>1. free \in SE!Unused /\ SE!Unused \subseteq SE!Search
  <2>1. SE!Unused # {} /\ SE!Unused \subseteq Nat /\ SE!Unused \subseteq SE!Search
    BY BoundsAssumption DEF SE!Send, SE!Unused, SE!Search
  <2> QED
    BY <2>1, LeastNatural
<1>2. new \in SearchRequest
  BY DEF SearchInv, SearchRequest
<1>3. searches' = [SE!Superseded EXCEPT ![free] = new]
  BY DEF SE!Send
<1> HIDE DEF free, new
<1>4. /\ SE!Superseded \in [SE!Search -> SearchRequest \cup {None}]
      /\ \A q \in SE!Search :
            /\ searches[q] = None => SE!Superseded[q] = None
            /\ searches[q] # None => /\ ~SE!Superseded[q].latest
                                     /\ SE!Superseded[q].next = searches[q].next
  BY DEF SE!Superseded, SearchInv, SearchRequest
<1>5. free \in SE!Search /\ searches'[free] = new
      /\ searches' \in [SE!Search -> SearchRequest \cup {None}]
      /\ \A q \in SE!Search : q # free => searches'[q] = SE!Superseded[q]
  BY <1>1, <1>2, <1>3, <1>4
<1>6. searches'[free] = [text |-> field, next |-> next, latest |-> TRUE]
  BY <1>5 DEF new
<1>7. \A q \in SE!Search : q # free =>
        /\ searches[q] = None => searches'[q] = None
        /\ searches[q] # None => /\ ~searches'[q].latest
                                 /\ searches'[q].next = searches[q].next
  BY <1>4, <1>5
<1> QED
  BY <1>5, <1>6, <1>7

\* What is superseded is not the latest.
LEMMA SearchesSuperseded ==
    ASSUME SearchInv, searches' = SE!Superseded
    PROVE  /\ searches' \in [SE!Search -> SearchRequest \cup {None}]
           /\ \A s \in SE!Search : /\ ~(searches'[s] # None /\ searches'[s].latest)
                                   /\ searches'[s] # None =>
                                        searches[s] # None /\ searches'[s].next = searches[s].next
  BY DEF SE!Superseded, SearchInv, SearchRequest

\* No search is on its way at first.
LEMMA SearchesInitially ==
    SE!SearchesInit => SearchInv
  BY DEF SE!SearchesInit, SearchInv, LatestSearch

\* Each step of the searches keeps their invariant.
LEMMA SearchesStep ==
    ASSUME SearchInv, [SE!SearchesNext]_se
    PROVE  SearchInv'
<1>1. ASSUME NEW next \in BOOLEAN, SE!Ask(next) PROVE SearchInv'
  <2>1. kind = "picker" /\ SE!Send(next)
    BY <1>1 DEF SE!Ask
  <2>2. /\ searches' \in [SE!Search -> SearchRequest \cup {None}]
        /\ \A s \in SE!Search : LatestSearch(s)' => searches'[s].text = field
    <3>1. PICK s \in SE!Search :
            /\ searches'[s] = [text |-> field, next |-> next, latest |-> TRUE]
            /\ \A q \in SE!Search : q # s =>
                 searches'[q] = None \/ ~searches'[q].latest
      BY <2>1, SearchSent
    <3>2. searches'[s].text = field
      BY <3>1
    <3> QED
      BY <2>1, <3>1, <3>2, SearchSent DEF LatestSearch
  <2> QED
    BY <1>1, <2>1, <2>2 DEF SE!Ask, SearchInv
<1>2. ASSUME NEW text \in Query, SE!Type(text) PROVE SearchInv'
  <2>1. CASE kind = "picker"
    BY <1>2, <2>1, SearchesSuperseded DEF SE!Type, SE!Dropped, SearchInv, LatestSearch
  <2>2. CASE kind = "people"
    BY <1>2, <2>2 DEF SE!Type, SE!Dropped, SearchInv, LatestSearch
  <2> QED
    BY <2>1, <2>2 DEF SearchInv
<1>3. ASSUME NEW proposed \in BOOLEAN, SE!Close(proposed) PROVE SearchInv'
  <2>1. kind = "picker" /\ searches' = SE!Superseded
    BY <1>3 DEF SE!Close
  <2> QED
    BY <1>3, <2>1, SearchesSuperseded DEF SE!Close, SearchInv, LatestSearch
<1>4. CASE SE!Run
  <2>1. kind = "people" /\ timer
    BY <1>4 DEF SE!Run, SearchInv
  <2>2. CASE field = ""
    BY <1>4, <2>1, <2>2, SearchesSuperseded DEF SE!Run, SearchInv, LatestSearch
  <2>3. CASE field # ""
    <3>1. SE!Send(FALSE) /\ UNCHANGED <<kind, field, found, overtaken>> /\ timer' = FALSE
      BY <1>4, <2>3 DEF SE!Run
    <3> DEFINE new == [text |-> field, next |-> FALSE, latest |-> TRUE]
    <3>5. new \in SearchRequest /\ new.latest /\ ~new.next /\ new.text = field
      BY DEF SearchInv, SearchRequest
    <3>2. new \in SearchRequest /\ new.latest /\ ~new.next /\ new.text = field /\ new # None
      <4> HIDE DEF new
      <4> QED
        BY <3>5, NoneAssumption
    <3>3. PICK s \in SE!Search :
            /\ searches'[s] = new
            /\ \A q \in SE!Search : q # s =>
                /\ searches[q] = None => searches'[q] = None
                /\ searches[q] # None => /\ ~searches'[q].latest
                                         /\ searches'[q].next = searches[q].next
      BY <3>1, SearchSent
    <3> HIDE DEF new
    <3>4. searches' \in [SE!Search -> SearchRequest \cup {None}]
      BY <3>1, SearchSent
    <3> QED
      BY <2>1, <3>1, <3>2, <3>3, <3>4 DEF SearchInv, LatestSearch
  <2> QED
    BY <2>2, <2>3
<1>5. ASSUME NEW s \in SE!Search, SE!Arrive(s) PROVE SearchInv'
  BY <1>5 DEF SE!Arrive, SE!Show, SearchInv, LatestSearch, SearchRequest
<1>6. CASE UNCHANGED se
  BY <1>6 DEF se, SearchInv, LatestSearch
<1> QED
  BY <1>1, <1>2, <1>3, <1>4, <1>5, <1>6 DEF SE!SearchesNext

\* At rest no search is on its way.
LEMMA SearchesAnswer == SearchInv => SE!ListAnswersField
  BY DEF SearchInv, SE!ListAnswersField, LatestSearch

-------------------------------------------------------------------------------
(* Nearby *)

\* A load is of its center and the only latest one; an empty list needs none.
LEMMA NearbyFetched ==
    ASSUME NearbyInv, NEW center \in Position \cup {None}, NE!Fetch(center)
    PROVE  /\ loads' \in [NE!Load -> NearbyLoad \cup {None}]
           /\ \A l \in NE!Load : LatestLoad(l)' => loads'[l].center = center
           /\ around' = center \/ \E l \in NE!Load : LatestLoad(l)'
<1>1. /\ NE!Superseded \in [NE!Load -> NearbyLoad \cup {None}]
      /\ \A l \in NE!Load : ~(NE!Superseded[l] # None /\ NE!Superseded[l].latest)
  BY DEF NE!Superseded, NearbyInv, NearbyLoad
<1>2. CASE center = None
  BY <1>1, <1>2 DEF NE!Fetch, LatestLoad
<1>3. CASE center # None
  <2> DEFINE new == [center |-> center, latest |-> TRUE]
  <2>3. new \in NearbyLoad /\ new.center = center /\ new.latest
    BY <1>3 DEF NearbyLoad
  <2>1. new \in NearbyLoad /\ new # None /\ new.center = center /\ new.latest
    <3> HIDE DEF new
    <3> QED
      BY <2>3, NoneAssumption
  <2>2. PICK l \in NE!Load : loads' = [NE!Superseded EXCEPT ![l] = new]
    BY <1>3 DEF NE!Fetch
  <2> HIDE DEF new
  <2> QED
    BY <1>1, <2>1, <2>2 DEF LatestLoad
<1> QED
  BY <1>2, <1>3

\* No list has been asked for at first.
LEMMA NearbyInitially ==
    NE!NearbyInit => NearbyInv
  BY DEF NE!NearbyInit, NearbyInv, LatestLoad

\* A position that is set is followed by the list of a focused screen.
LEMMA PositionSet ==
    ASSUME NearbyInv, NEW p \in Position \cup {None}, NE!SetPosition(p), UNCHANGED focused,
           runs' \in [NE!Run -> [step : {"asked", "current", "ended"}, seen : BOOLEAN,
                                 then : {"watch", "refetch", "nothing"},
                                 center : Position \cup {None}] \cup {None}]
    PROVE  NearbyInv'
<1>1. CASE NE!Fetch(p) /\ UNCHANGED mixed
  BY <1>1, NearbyFetched DEF NE!SetPosition, NearbyInv
<1>2. CASE ~focused /\ UNCHANGED NE!listVars
  BY <1>2 DEF NE!SetPosition, NE!listVars, NearbyInv, LatestLoad
<1>3. CASE p = None /\ position = None /\ UNCHANGED NE!listVars
  BY <1>3 DEF NE!SetPosition, NE!listVars, NearbyInv, LatestLoad
<1> QED
  BY <1>1, <1>2, <1>3 DEF NE!SetPosition

\* Each step of the screen and of its position keeps their invariant.
LEMMA NearbyStep ==
    ASSUME NearbyInv, [NE!NearbyNext]_ne
    PROVE  NearbyInv'
<1> DEFINE RunType == [step : {"asked", "current", "ended"}, seen : BOOLEAN,
                       then : {"watch", "refetch", "nothing"}, center : Position \cup {None}]
<1>1. ASSUME NEW then \in {"refetch", "nothing"}, NE!Begin(then) PROVE NearbyInv'
  BY <1>1 DEF NE!Begin, NE!listVars, NearbyInv, LatestLoad
<1>2. ASSUME NEW r \in NE!Run, NE!FindLast(r) PROVE NearbyInv'
  <2>1. runs' \in [NE!Run -> RunType \cup {None}]
    BY <1>2 DEF NE!FindLast, NE!At, NE!Goto, NearbyInv
  <2>2. CASE \E p \in Position \cup {None} : NE!SetPosition(p)
    BY <1>2, <2>1, <2>2, PositionSet DEF NE!FindLast
  <2>3. CASE UNCHANGED <<position, isLocating, NE!listVars>>
    BY <1>2, <2>1, <2>3 DEF NE!FindLast, NE!listVars, NearbyInv, LatestLoad
  <2> QED
    BY <1>2, <2>2, <2>3 DEF NE!FindLast
<1>3. ASSUME NEW r \in NE!Run, NE!FindCurrent(r) PROVE NearbyInv'
  <2>1. runs' \in [NE!Run -> RunType \cup {None}]
    BY <1>3 DEF NE!FindCurrent, NE!At, NE!Goto, NearbyInv
  <2>2. CASE \E p \in Position \cup {None} : NE!SetPosition(p)
    BY <1>3, <2>1, <2>2, PositionSet DEF NE!FindCurrent
  <2>3. CASE UNCHANGED <<position, isLocating, NE!listVars>>
    BY <1>3, <2>1, <2>3 DEF NE!FindCurrent, NE!listVars, NearbyInv, LatestLoad
  <2> QED
    BY <1>3, <2>2, <2>3 DEF NE!FindCurrent
<1>4. ASSUME NEW r \in NE!Run, NE!Continue(r) PROVE NearbyInv'
  <2>1. /\ runs' \in [NE!Run -> RunType \cup {None}] /\ runs[r] \in RunType
        /\ UNCHANGED <<position, focused>>
    BY <1>4 DEF NE!Continue, NE!At, NearbyInv
  <2>2. CASE runs[r].then = "refetch"
    <3>1. /\ NE!Fetch(runs[r].center) /\ runs[r].center \in Position \cup {None}
          /\ mixed' = (mixed \/ runs[r].center # position)
      BY <1>4, <2>1, <2>2 DEF NE!Continue
    <3> QED
      BY <2>1, <3>1, NearbyFetched DEF NearbyInv
  <2>3. CASE UNCHANGED NE!listVars
    BY <2>1, <2>3 DEF NE!listVars, NearbyInv, LatestLoad
  <2> QED
    BY <1>4, <2>1, <2>2, <2>3 DEF NE!Continue
<1>5. ASSUME NEW p \in Position, NE!Watch(p) PROVE NearbyInv'
  BY <1>5, PositionSet DEF NE!Watch, NearbyInv
<1>6. CASE NE!Blur
  BY <1>6 DEF NE!Blur, NE!listVars, NearbyInv, LatestLoad
<1>7. CASE NE!Focus
  BY <1>7, NearbyFetched DEF NE!Focus, NearbyInv
<1>8. ASSUME NEW l \in NE!Load, NE!Arrive(l) PROVE NearbyInv'
  BY <1>8 DEF NE!Arrive, NearbyInv, LatestLoad
<1>9. CASE UNCHANGED ne
  BY <1>9 DEF ne, NearbyInv, LatestLoad
<1> QED
  BY <1>1, <1>2, <1>3, <1>4, <1>5, <1>6, <1>7, <1>8, <1>9 DEF NE!NearbyNext

\* At rest no load is on its way.
LEMMA NearbyFollows == NearbyInv => NE!ListFollowsPosition
  BY DEF NearbyInv, NE!ListFollowsPosition, LatestLoad

-------------------------------------------------------------------------------
(* PlanningTab *)

\* One load is on its way at first.
LEMMA PlanningInitially ==
    PT!PlanningTabInit => PlanningInv
<1> SUFFICES ASSUME PT!PlanningTabInit PROVE PlanningInv
  OBVIOUS
<1>1. shown \in EntryList /\ shown.asOf = 0
  BY DEF PT!PlanningTabInit, PT!Answer, EntryList
<1>2. load \in [PT!Load -> {None, PT!Asked, PT!Failed} \cup EntryList]
  BY DEF PT!PlanningTabInit
<1>3. \A l \in PT!Load : ~Back(load[l]) /\ (load[l] # None => l = 1)
  BY DEF PT!PlanningTabInit, Back
<1> QED
  BY <1>1, <1>2, <1>3 DEF PT!PlanningTabInit, PlanningInv, Back

\* What is written at a version of the server is a number, and requests are something.
LEMMA PlanningNumbers ==
    ASSUME PlanningInv
    PROVE  /\ shown.asOf \in Nat /\ version \in Nat /\ shown.asOf <= version
           /\ PT!Asked # None
           /\ \A l \in PT!Load : Back(load[l]) => load[l] \in EntryList /\ load[l].asOf \in Nat
<1>1. PT!Asked # None
  BY NoneAssumption DEF ListLoad, PT!Asked, CL!Asked
<1>2. \A list \in EntryList : list.asOf \in Nat
  BY DEF EntryList
<1> QED
  BY <1>1, <1>2 DEF PlanningInv, Back

\* Each step of the planning tab keeps its invariant.
LEMMA PlanningStep ==
    ASSUME PlanningInv, [PT!PlanningTabNext]_pt
    PROVE  PlanningInv'
<1> USE DEF PT!screen, PT!server
<1>1. ASSUME NEW l \in PT!Load, PT!Refresh(l) PROVE PlanningInv'
  <2>1. crossed \/ \A k \in PT!Load : load[k] = None
    BY <1>1 DEF PT!Refresh, PT!MayRefresh, PlanningInv
  <2>2. load' \in [PT!Load -> {None, PT!Asked, PT!Failed} \cup EntryList]
    BY <1>1 DEF PT!Refresh, PlanningInv
  <2>3. \A k \in PT!Load : load'[k] = IF k = l THEN PT!Asked ELSE load[k]
    BY <1>1 DEF PT!Refresh, PlanningInv
  <2> QED
    BY <1>1, <2>1, <2>2, <2>3 DEF PT!Refresh, PlanningInv, Back
<1>2. ASSUME NEW l \in PT!Load, PT!Read(l) PROVE PlanningInv'
  <2> DEFINE read == PT!Answer(stored, version)
  <2>1. read \in EntryList /\ read.asOf = version
    BY DEF PlanningInv, EntryList, PT!Answer
  <2>2. PICK a \in {read, PT!Failed} : load' = [load EXCEPT ![l] = a]
    BY <1>2 DEF PT!Read
  <2> HIDE DEF read
  <2>3. load' \in [PT!Load -> {None, PT!Asked, PT!Failed} \cup EntryList]
    BY <2>1, <2>2 DEF PlanningInv
  <2>4. load[l] = PT!Asked /\ load[l] # None
        /\ UNCHANGED <<stored, deleted, version, shown, isLoading, error, removing, crossed>>
    BY <1>2, PlanningNumbers DEF PT!Read
  <2>5. \A k \in PT!Load : load'[k] = IF k = l THEN a ELSE load[k]
    BY <2>2 DEF PlanningInv
  <2>6. Back(a) => a.asOf = version
    BY <2>1, <2>2 DEF Back
  <2>7. \A k \in PT!Load : Back(load'[k]) => load'[k].asOf <= version'
    BY <2>4, <2>5, <2>6, PlanningNumbers DEF PlanningInv
  <2>8. ~crossed' => \A k \in PT!Load : Back(load'[k]) => shown'.asOf <= load'[k].asOf
    BY <2>4, <2>5, <2>6, PlanningNumbers DEF PlanningInv
  <2>9. ~crossed' => \A k \in PT!Load : load'[k] # None =>
            isLoading' /\ ~error' /\ \A j \in PT!Load : load'[j] # None => j = k
    BY <2>4, <2>5 DEF PlanningInv
  <2> QED
    BY <2>3, <2>4, <2>7, <2>8, <2>9 DEF PlanningInv, Back
<1>3. ASSUME NEW l \in PT!Load, PT!Arrive(l) PROVE PlanningInv'
  <2>1. load' \in [PT!Load -> {None, PT!Asked, PT!Failed} \cup EntryList]
    BY <1>3 DEF PT!Arrive, PlanningInv
  <2>2. load[l] # None /\ \A k \in PT!Load : load'[k] = IF k = l THEN None ELSE load[k]
    BY <1>3 DEF PT!Arrive, PT!OnItsWay, PlanningInv
  <2>3. load[l] = PT!Failed \/ (Back(load[l]) /\ load[l] \in EntryList)
    BY <1>3 DEF PT!Arrive, PT!OnItsWay, Back, PlanningInv
  <2> QED
    BY <1>3, <2>1, <2>2, <2>3 DEF PT!Arrive, PlanningInv, Back
<1>4. ASSUME NEW e \in Entry, PT!Remove(e) PROVE PlanningInv'
  BY <1>4 DEF PT!Remove, PlanningInv, Back
<1>5. ASSUME NEW e \in Entry, PT!Delete(e) PROVE PlanningInv'
  <2>1. CASE PT!Discard(e)
    <3> DEFINE answer == PT!Answer({}, version')
    <3>1. version' = version + 1 /\ deleted' = deleted \cup {e} /\ stored' \subseteq Entry
      BY <2>1 DEF PT!Discard, PlanningInv
    <3>2. answer \in EntryList
      BY <3>1 DEF PT!Answer, EntryList, PlanningInv
    <3>3. PICK a \in {answer, PT!Failed, PT!Failed} : removing' = [removing EXCEPT ![e] = a]
      BY <1>5 DEF PT!Delete
    <3> HIDE DEF answer
    <3>4. removing' \in [Entry -> {None, PT!Asked, PT!Failed} \cup EntryList]
      BY <3>2, <3>3 DEF PlanningInv
    <3>5. UNCHANGED <<shown, isLoading, error, load, crossed>>
      BY <1>5 DEF PT!Delete
    <3>6. \A f \in Entry : removing'[f] = IF f = e THEN a ELSE removing[f]
      BY <3>3 DEF PlanningInv
    <3>7. \A f \in Entry : Back(removing'[f]) => f \in deleted'
      BY <3>1, <3>6 DEF PlanningInv
    <3>8. version' \in Nat /\ version <= version'
      BY <3>1, PlanningNumbers
    <3>9. shown'.asOf <= version' /\ \A l \in PT!Load : Back(load'[l]) => load'[l].asOf <= version'
      BY <3>5, <3>8, PlanningNumbers DEF PlanningInv
    <3> QED
      BY <3>1, <3>4, <3>5, <3>7, <3>8, <3>9 DEF PlanningInv, Back
  <2>2. CASE removing' = [removing EXCEPT ![e] = PT!Failed] /\ UNCHANGED <<stored, deleted, version>>
    BY <1>5, <2>2 DEF PT!Delete, PlanningInv, Back
  <2> QED
    BY <1>5, <2>1, <2>2 DEF PT!Delete
<1>6. ASSUME NEW e \in Entry, PT!Removed(e) PROVE PlanningInv'
  <2>1. removing' \in [Entry -> {None, PT!Asked, PT!Failed} \cup EntryList]
        /\ \A f \in Entry : removing'[f] = IF f = e THEN None ELSE removing[f]
    BY <1>6 DEF PT!Removed, PlanningInv
  <2>2. shown' \in EntryList /\ shown'.asOf = shown.asOf
    BY <1>6 DEF PT!Removed, PlanningInv, EntryList
  <2> QED
    BY <1>6, <2>1, <2>2 DEF PT!Removed, PlanningInv, Back
<1>7. ASSUME NEW e \in Entry, PT!Elsewhere(e) PROVE PlanningInv'
  <2>1. version' = version + 1 /\ deleted \subseteq deleted' /\ stored' \subseteq Entry
    BY <1>7 DEF PT!Elsewhere, PT!Discard, PlanningInv
  <2>2. version' \in Nat /\ version <= version' /\ UNCHANGED <<shown, isLoading, error, load, removing, crossed>>
    BY <1>7, <2>1, PlanningNumbers DEF PT!Elsewhere
  <2>3. shown'.asOf <= version' /\ \A l \in PT!Load : Back(load'[l]) => load'[l].asOf <= version'
    BY <2>2, PlanningNumbers DEF PlanningInv
  <2> QED
    BY <2>1, <2>2, <2>3 DEF PlanningInv, Back
<1>8. CASE UNCHANGED pt
  BY <1>8 DEF pt, PlanningInv, Back
<1> QED
  BY <1>1, <1>2, <1>3, <1>4, <1>5, <1>6, <1>7, <1>8 DEF PT!PlanningTabNext

\* The list moves forward, and a removal takes what the server has deleted.
LEMMA PlanningMoves ==
    ASSUME PlanningInv, [PT!PlanningTabNext]_pt
    PROVE  PT!ListMovesForward
<1> USE DEF PT!screen, PT!server
<1>1. ASSUME NEW l \in PT!Load, PT!Arrive(l) PROVE PT!ListMovesForward
  <2>1. load[l] = PT!Failed \/ Back(load[l])
    BY <1>1 DEF PT!Arrive, PT!OnItsWay, Back, PlanningInv
  <2> QED
    BY <1>1, <2>1 DEF PT!Arrive, PT!ListMovesForward, PlanningInv, EntryList
<1>2. ASSUME NEW e \in Entry, PT!Removed(e) PROVE PT!ListMovesForward
  <2>1. /\ removing[e] = PT!Failed => shown' = shown
        /\ removing[e] # PT!Failed => e \in deleted /\ shown' = [shown EXCEPT !.rows = @ \ {e}]
    BY <1>2 DEF PT!Removed, PT!OnItsWay, PlanningInv, Back
  <2>2. shown'.asOf = shown.asOf /\ shown.rows \ shown'.rows \subseteq deleted
    BY <2>1 DEF PlanningInv, EntryList
  <2> QED
    BY <2>2 DEF PT!ListMovesForward, PlanningInv, EntryList
<1>3. CASE shown' = shown
  BY <1>3 DEF PT!ListMovesForward, PlanningInv, EntryList
<1> QED
  BY <1>1, <1>2, <1>3 DEF PT!PlanningTabNext, PT!Refresh, PT!Read, PT!Remove, PT!Delete,
     PT!Elsewhere, pt

-------------------------------------------------------------------------------
(* FriendsTab *)

\* One load is on its way at first.
LEMMA FriendsInitially ==
    FT!FriendsTabInit => FriendsInv
<1> SUFFICES ASSUME FT!FriendsTabInit PROVE FriendsInv
  OBVIOUS
<1>1. FT!Nothing \in FriendsLoad
  BY DEF FT!Nothing, FriendsLoad
<1> QED
  BY <1>1 DEF FT!FriendsTabInit, FriendsInv

\* A load that knows what the user heard of, or will.
Promising(l) ==
    /\ friendsLoads[l] # None
    /\ friendsLoads[l] # FT!Failed => \A list \in FT!List :
        friendsLoads[l][list] = None \/ friendsLoads[l][list] >= told

\* A refresh is promising, whatever the user has heard of by then.
LEMMA FriendsRefreshed ==
    ASSUME FriendsInv, FT!Refreshed
    PROVE  /\ friendsLoads' \in [FT!Load -> FriendsLoad \cup {None}]
           /\ \E l \in FT!Load : Promising(l)'
<1>1. FT!Nothing \in FriendsLoad /\ FT!Nothing # None /\ \A list \in FT!List : FT!Nothing[list] = None
  <2>1. FT!Nothing \in FriendsLoad
    BY DEF FT!Nothing, FriendsLoad
  <2>2. \A list \in FT!List : FT!Nothing[list] = None
    BY DEF FT!Nothing
  <2> QED
    BY <2>1, <2>2, NoneAssumption
<1>2. PICK l \in FT!Load : friendsLoads' = [friendsLoads EXCEPT ![l] = FT!Nothing]
  BY DEF FT!Refreshed
<1> QED
  BY <1>1, <1>2 DEF FriendsInv, Promising

\* Each step of the friends' tab keeps its invariant.
LEMMA FriendsStep ==
    ASSUME FriendsInv, [FT!FriendsTabNext]_ft
    PROVE  FriendsInv'
<1> USE DEF FT!server
<1>1. CASE FT!Pull
  <2>1. UNCHANGED <<relations, news, lists, calls, told, friendsOvertaken>> /\ FT!Refreshed
    BY <1>1 DEF FT!Pull
  <2>2. friendsLoads' \in [FT!Load -> FriendsLoad \cup {None}] /\ \E l \in FT!Load : Promising(l)'
    BY <2>1, FriendsRefreshed
  <2> QED
    BY <2>1, <2>2 DEF FriendsInv, Promising
<1>2. CASE FT!Elsewhere
  <2>1. relations' = relations + 1 /\ news' \subseteq news \cup {relations'}
        /\ UNCHANGED <<lists, friendsError, friendsLoads, calls, told, friendsOvertaken>>
    BY <1>2 DEF FT!Elsewhere
  <2>2. relations' \in Nat /\ told' <= relations' /\ news' \subseteq 1..relations'
    BY <2>1 DEF FriendsInv
  <2>3. ASSUME NEW k \in FT!Call, calls[k] # None PROVE calls[k].made <= relations'
    <3>1. calls[k] \in FriendsCall /\ calls[k].made <= relations /\ relations \in Nat
      BY <2>3 DEF FriendsInv
    <3> QED
      BY <2>1, <3>1 DEF FriendsCall
  <2> QED
    BY <2>1, <2>2, <2>3 DEF FriendsInv
<1>3. ASSUME NEW v \in 1..MaxVersion, FT!Receive(v) PROVE FriendsInv'
  <2>1. told' \in Nat /\ told' <= relations /\ news' \subseteq 1..relations
    BY <1>3 DEF FT!Receive, FT!Heard, FriendsInv
  <2> QED
    BY <1>3, <2>1, FriendsRefreshed DEF FT!Receive, FriendsInv, Promising
<1>4. ASSUME NEW l \in FT!Load, FT!Arrive(l) PROVE FriendsInv'
  <2>1. /\ friendsLoads' \in [FT!Load -> FriendsLoad \cup {None}]
        /\ \A m \in FT!Load : m # l => friendsLoads'[m] = friendsLoads[m]
        /\ UNCHANGED <<relations, news, calls, told>>
    BY <1>4 DEF FT!Arrive, FriendsInv
  <2>2. CASE friendsLoads[l] = FT!Failed
    BY <1>4, <2>1, <2>2 DEF FT!Arrive, FriendsInv
  <2>3. CASE friendsLoads[l] # FT!Failed
    <3>1. /\ lists' = friendsLoads[l] /\ friendsError' = friendsError
          /\ friendsOvertaken' = (friendsOvertaken
                \/ \E list \in FT!List : friendsLoads[l][list] < lists[list])
          /\ \A list \in FT!List : friendsLoads[l][list] # None
      BY <1>4, <2>3 DEF FT!Arrive
    <3>2. lists' \in [FT!List -> Nat]
      BY <1>4, <2>3, <3>1 DEF FT!Arrive, FriendsInv, FriendsLoad
    <3>3. CASE Promising(l)
      <4>1. \A list \in FT!List : lists'[list] >= told
        BY <2>3, <3>1, <3>3 DEF Promising
      <4> QED
        BY <2>1, <3>2, <4>1 DEF FriendsInv
    <3>4. CASE \E m \in FT!Load : m # l /\ Promising(m)
      BY <2>1, <3>2, <3>4 DEF FriendsInv, Promising
    <3>5. CASE \A list \in FT!List : lists[list] >= told
      <4>1. \A list \in FT!List : lists[list] \in Nat /\ lists'[list] \in Nat /\ told \in Nat
        BY <3>2 DEF FriendsInv
      <4>2. ASSUME NEW list \in FT!List, ~friendsOvertaken' PROVE lists'[list] >= told
        <5>1. ~(lists'[list] < lists[list])
          BY <3>1, <4>2
        <5> QED
          BY <3>5, <4>1, <5>1
      <4> QED
        BY <2>1, <3>2, <4>2 DEF FriendsInv
    <3>6. CASE friendsError \/ friendsOvertaken \/ \E k \in FT!Call : calls[k] # None
      BY <2>1, <3>1, <3>2, <3>6 DEF FriendsInv
    <3> QED
      BY <3>3, <3>4, <3>5, <3>6 DEF FriendsInv, Promising
  <2> QED
    BY <2>2, <2>3
<1>5. ASSUME NEW l \in FT!Load, NEW list \in FT!List, FT!Read(l, list) PROVE FriendsInv'
  <2>1. UNCHANGED <<relations, news, lists, friendsLoading, friendsError, calls, told, friendsOvertaken>>
    BY <1>5 DEF FT!Read
  <2>2. friendsLoads[l] \in [FT!List -> Nat \cup {None}] /\ relations \in Nat /\ relations >= told
    BY <1>5 DEF FT!Read, FriendsInv, FriendsLoad
  <2>3. CASE friendsLoads' = [friendsLoads EXCEPT ![l] = FT!Failed]
    <3>1. FT!Failed \in FriendsLoad /\ FT!Failed # None
      BY NoneAssumption DEF FriendsLoad
    <3> QED
      BY <2>1, <2>3, <3>1 DEF FriendsInv
  <2>4. CASE friendsLoads' = [friendsLoads EXCEPT ![l] = [friendsLoads[l] EXCEPT ![list] = relations]]
    <3> DEFINE read == [friendsLoads[l] EXCEPT ![list] = relations]
    <3>1. /\ read \in FriendsLoad
          /\ \A other \in FT!List : read[other] = IF other = list THEN relations ELSE friendsLoads[l][other]
      BY <2>2 DEF FriendsLoad
    <3>2. read # None
      <4> HIDE DEF read
      <4> QED
        BY <3>1, NoneAssumption
    <3>3. friendsLoads' = [friendsLoads EXCEPT ![l] = read]
      BY <2>4
    <3> HIDE DEF read
    <3>4. /\ friendsLoads' \in [FT!Load -> FriendsLoad \cup {None}]
          /\ \A m \in FT!Load : friendsLoads'[m] = IF m = l THEN read ELSE friendsLoads[m]
      BY <3>1, <3>3 DEF FriendsInv
    <3>5. ASSUME NEW m \in FT!Load, Promising(m) PROVE Promising(m)'
      <4>1. CASE m = l
        BY <1>5, <2>1, <2>2, <3>1, <3>2, <3>4, <3>5, <4>1 DEF Promising, FT!Read
      <4>2. CASE m # l
        BY <2>1, <3>4, <3>5, <4>2 DEF Promising
      <4> QED
        BY <4>1, <4>2
    <3> QED
      BY <2>1, <3>4, <3>5 DEF FriendsInv, Promising
  <2> QED
    BY <1>5, <2>3, <2>4 DEF FT!Read
<1>6. ASSUME NEW k \in FT!Call, FT!Press(k) PROVE FriendsInv'
  <2> DEFINE new == [step |-> "asked", made |-> 0]
  <2>1. new \in FriendsCall /\ new.made = 0
    BY DEF FriendsCall
  <2>2. calls' = [calls EXCEPT ![k] = new] /\ UNCHANGED <<relations, news, lists, friendsLoads, told>>
    BY <1>6 DEF FT!Press
  <2> HIDE DEF new
  <2> QED
    BY <2>1, <2>2, NoneAssumption DEF FriendsInv
<1>7. ASSUME NEW k \in FT!Call, FT!Serve(k) PROVE FriendsInv'
  <2>1. calls[k] # None /\ calls[k] \in FriendsCall /\ relations \in Nat /\ calls[k].made <= relations
    BY <1>7 DEF FT!Serve, FT!At, FriendsInv
  <2>2. PICK c \in FriendsCall : calls' = [calls EXCEPT ![k] = c] /\ c.made <= relations'
    <3>1. CASE relations' = relations + 1 /\ \E step \in {"done", "refused"} :
                    calls' = [calls EXCEPT ![k] = [step |-> step, made |-> relations']]
      <4>1. PICK step \in {"done", "refused"} : calls' = [calls EXCEPT ![k] = [step |-> step, made |-> relations']]
        BY <3>1
      <4> DEFINE c == [step |-> step, made |-> relations']
      <4>2. c \in FriendsCall /\ c.made <= relations'
        BY <2>1, <3>1 DEF FriendsCall
      <4>3. calls' = [calls EXCEPT ![k] = c]
        BY <4>1
      <4> HIDE DEF c
      <4> QED
        BY <4>2, <4>3
    <3>2. CASE calls' = [calls EXCEPT ![k].step = "refused"] /\ relations' = relations
      <4> DEFINE c == [calls[k] EXCEPT !.step = "refused"]
      <4>1. c \in FriendsCall /\ c.made <= relations'
        BY <2>1, <3>2 DEF FriendsCall
      <4>2. calls' = [calls EXCEPT ![k] = c]
        BY <3>2
      <4> HIDE DEF c
      <4> QED
        BY <4>1, <4>2
    <3> QED
      BY <1>7, <3>1, <3>2 DEF FT!Serve
  <2>3. relations' \in Nat /\ relations <= relations'
        /\ UNCHANGED <<news, lists, friendsError, friendsLoads, told, friendsOvertaken>>
    BY <1>7, <2>1 DEF FT!Serve
  <2>4. calls' \in [FT!Call -> FriendsCall \cup {None}]
        /\ \A j \in FT!Call : calls'[j] = IF j = k THEN c ELSE calls[j]
    BY <2>2 DEF FriendsInv
  <2>5. \A j \in FT!Call : calls'[j] # None => calls'[j].made <= relations'
    <3> SUFFICES ASSUME NEW j \in FT!Call, j # k, calls[j] # None PROVE calls[j].made <= relations'
      BY <2>2, <2>4
    <3>1. calls[j] \in FriendsCall /\ calls[j].made <= relations
      BY DEF FriendsInv
    <3>2. calls[j].made \in Nat
      BY <3>1 DEF FriendsCall
    <3> QED
      BY <2>1, <2>3, <3>1, <3>2
  <2>6. calls'[k] # None
    BY <2>2, <2>4, NoneAssumption
  <2>7. told' <= relations' /\ news' \subseteq 1..relations'
    BY <2>1, <2>3 DEF FriendsInv
  <2> QED
    BY <2>3, <2>4, <2>5, <2>6, <2>7 DEF FriendsInv
<1>8. ASSUME NEW k \in FT!Call, FT!Answered(k) PROVE FriendsInv'
  <2>1. /\ calls' \in [FT!Call -> FriendsCall \cup {None}]
        /\ \A j \in FT!Call : calls'[j] # None => calls'[j].made <= relations
        /\ UNCHANGED <<relations, news, lists, friendsOvertaken>>
    BY <1>8 DEF FT!Answered, FriendsInv
  <2>2. CASE FT!At(k, "done") /\ FT!Heard(calls[k].made) /\ FT!Refreshed
    <3>1. told' \in Nat /\ told' <= relations
      BY <2>2 DEF FT!At, FT!Heard, FriendsInv, FriendsCall
    <3> QED
      BY <2>1, <2>2, <3>1, FriendsRefreshed DEF FriendsInv, Promising
  <2>3. CASE friendsError' /\ UNCHANGED <<friendsLoads, told>>
    BY <2>1, <2>3 DEF FriendsInv
  <2> QED
    BY <1>8, <2>2, <2>3 DEF FT!Answered
<1>9. CASE UNCHANGED ft
  BY <1>9 DEF ft, FriendsInv
<1> QED
  BY <1>1, <1>2, <1>3, <1>4, <1>5, <1>6, <1>7, <1>8, <1>9 DEF FT!FriendsTabNext

\* At rest nothing is on its way.
LEMMA FriendsShown == FriendsInv => FT!ListsAreWhatWasTold
<1> SUFFICES ASSUME FriendsInv, FT!AtRest
             PROVE  friendsError \/ friendsOvertaken \/ \A list \in FT!List : lists[list] >= told
  BY DEF FT!ListsAreWhatWasTold
<1>1. (\A l \in FT!Load : friendsLoads[l] = None) /\ \A k \in FT!Call : calls[k] = None
  BY DEF FT!AtRest
<1> QED
  BY <1>1 DEF FriendsInv

-------------------------------------------------------------------------------
(* ActivityPage *)

\* The loads of presses are numbered apart from the first, and Asked is something.
LEMMA PageNames ==
    /\ AP!Press \subseteq AP!LoadOf /\ 0 \in AP!LoadOf /\ 0 \notin AP!Press
    /\ AP!Asked # None /\ AP!Asked # AP!Failed
<1>1. AP!Asked # None
  BY NoneAssumption DEF ListLoad, AP!Asked, CL!Asked
<1>2. AP!Asked # AP!Failed
  BY DEF AP!Asked, AP!Failed
<1> QED
  BY <1>1, <1>2, BoundsAssumption DEF AP!Press, AP!LoadOf

\* The slots that a load reads, of the server's present state.
SlotsNow ==
    [is |-> "read", rows |-> {s \in Slot : room[s] # "gone"},
     seats |-> {s \in Slot : room[s] = "seat"}, asOf |-> clock]

\* Loads of the slots do not overlap.
LEMMA OneLoad ==
    ASSUME PageInv, NEW l \in AP!LoadOf, NEW m \in AP!LoadOf,
           slotsLoad[l] # None, slotsLoad[m] # None
    PROVE  l = m
<1>1. \A n \in AP!LoadOf : n = 0 \/ n \in AP!Press
  BY BoundsAssumption DEF AP!LoadOf, AP!Press
<1> QED
  BY <1>1 DEF PageInv, OnePress, AP!At, UnderWay

\* A press that moves is a press still, and the others stay where they are.
LEMMA PressMoves ==
    ASSUME PageInv, NEW p \in AP!Press, NEW moved \in PressRecord,
           press' = [press EXCEPT ![p] = moved]
    PROVE  /\ press' \in [AP!Press -> PressRecord \cup {None}]
           /\ press'[p] = moved /\ press'[p] # None
           /\ \A q \in AP!Press : q # p => press'[q] = press[q]
  BY NoneAssumption DEF PageInv, PageTypes

\* The first load is on its way, and nothing is picked.
LEMMA PageInitially ==
    AP!ActivityPageInit => PageInv
<1> SUFFICES ASSUME AP!ActivityPageInit PROVE PageInv
  OBVIOUS
<1>1. /\ slots \in SlotList /\ slots.asOf = 0 /\ clock = 0
      /\ booking = [open |-> FALSE, slot |-> None, time |-> FALSE]
  BY DEF AP!ActivityPageInit, SlotList, AP!Blank
<1>2. /\ slotsLoad \in [AP!LoadOf -> {None, AP!Asked, AP!Failed} \cup SlotList]
      /\ \A l \in AP!LoadOf : ~Arrived(slotsLoad[l])
      /\ \A p \in AP!Press : slotsLoad[p] = None /\ press[p] = None /\ made[p] = None
  <2>1. slotsLoad = [p \in AP!LoadOf |-> IF p = 0 THEN AP!Asked ELSE None]
    BY DEF AP!ActivityPageInit
  <2>2. press = [p \in AP!Press |-> None] /\ made = [p \in AP!Press |-> None]
    BY DEF AP!ActivityPageInit
  <2>3. slotsLoad \in [AP!LoadOf -> {None, AP!Asked}]
    BY <2>1
  <2>4. slotsLoad \in [AP!LoadOf -> {None, AP!Asked, AP!Failed} \cup SlotList]
    BY <2>3
  <2> QED
    BY <2>1, <2>2, <2>3, <2>4, PageNames, Zenon DEF Arrived
<1>3. /\ press \in [AP!Press -> PressRecord \cup {None}] /\ made \in [AP!Press -> Nat \cup {None}]
      /\ booking \in [open : BOOLEAN, slot : Slot \cup {None}, time : BOOLEAN]
  BY <1>1 DEF AP!ActivityPageInit
<1>4. PageTypes
  BY <1>1, <1>2, <1>3 DEF PageTypes
<1> QED
  BY <1>1, <1>2, <1>4 DEF PageInv, LoadsAreLater, BookedWasMade, OnePress, UnderWay

\* A change of the form.
LEMMA FormChanges ==
    ASSUME PageInv, NEW edited \in [open : BOOLEAN, slot : Slot \cup {None}, time : BOOLEAN],
           AP!OnForm(edited),
           slotsLoad[0] # None => edited.slot = None /\ ~edited.time
    PROVE  PageInv'
<1>1. booking' = edited /\ UNCHANGED <<clock, slots, slotsLoad, press, busy, made>>
  BY DEF AP!OnForm, AP!planning
<1>2. PageTypes'
  BY <1>1 DEF PageInv, PageTypes
<1>3. LoadsAreLater' /\ BookedWasMade'
  BY <1>1 DEF PageInv, LoadsAreLater, BookedWasMade
<1>4. OnePress'
  BY <1>1 DEF PageInv, OnePress, AP!At, UnderWay
<1> QED
  BY <1>2, <1>3, <1>4 DEF PageInv

\* The server's clock ticks.
LEMMA ClockTicks ==
    ASSUME PageInv, clock' = clock + 1,
           UNCHANGED <<slots, slotsLoad, booking, press, busy, made>>
    PROVE  PageInv'
<1>1. clock \in Nat /\ clock' \in Nat /\ clock <= clock' /\ slots.asOf \in Nat
  BY DEF PageInv, PageTypes, SlotList
<1>2. PageTypes'
  BY <1>1 DEF PageInv, PageTypes
<1>3. LoadsAreLater'
  <2>1. \A l \in AP!LoadOf : Arrived(slotsLoad[l]) => slotsLoad[l].asOf \in Nat
    BY DEF PageInv, PageTypes, SlotList, Arrived
  <2>2. \A p \in AP!Press : made[p] # None => made[p] \in Nat
    BY DEF PageInv, PageTypes
  <2> QED
    BY <1>1, <2>1, <2>2 DEF PageInv, LoadsAreLater
<1>4. BookedWasMade'
  BY DEF PageInv, BookedWasMade
<1>5. OnePress'
  BY DEF PageInv, OnePress, AP!At, UnderWay
<1> QED
  BY <1>2, <1>3, <1>4, <1>5 DEF PageInv

\* Each step of the page keeps its invariant.
LEMMA PageStep ==
    ASSUME PageInv, [AP!ActivityPageNext]_ap
    PROVE  PageInv'
<1> USE DEF AP!pageVars, AP!planning
<1>1. ASSUME UNCHANGED <<clock, slots, slotsLoad, booking, press, busy, made>> PROVE PageInv'
  BY <1>1 DEF PageInv, PageTypes, LoadsAreLater, BookedWasMade, OnePress, AP!At, UnderWay
<1>2. CASE AP!LoadPage \/ AP!Rate \/ UNCHANGED ap
  BY <1>1, <1>2 DEF AP!LoadPage, AP!Rate, ap
<1>3. CASE \/ AP!Open \/ AP!Cancel \/ \E s \in Slot \cup {None} : AP!PickSlot(s)
           \/ \E chosen \in BOOLEAN : AP!PickTime(chosen)
  <2>1. slots.seats \subseteq Slot
        /\ booking \in [open : BOOLEAN, slot : Slot \cup {None}, time : BOOLEAN]
    BY DEF PageInv, PageTypes, SlotList
  <2>2. slotsLoad[0] # None => booking.slot = None /\ ~booking.time
    BY DEF PageInv, OnePress
  <2>3. CASE AP!Open
    BY <2>1, <2>2, <2>3, FormChanges DEF AP!Open
  <2>4. CASE AP!Cancel
    BY <2>4, FormChanges DEF AP!Cancel, AP!Blank
  <2>5. ASSUME NEW s \in Slot \cup {None}, AP!PickSlot(s) PROVE PageInv'
    BY <2>1, <2>5, FormChanges DEF AP!PickSlot, AP!SlotsLoading
  <2>6. ASSUME NEW chosen \in BOOLEAN, AP!PickTime(chosen) PROVE PageInv'
    BY <2>1, <2>6, FormChanges DEF AP!PickTime, AP!SlotsLoading
  <2> QED
    BY <1>3, <2>3, <2>4, <2>5, <2>6
<1>4. ASSUME NEW p \in AP!Press, AP!Reserve(p) PROVE PageInv'
  <2> DEFINE new == [slot |-> IF AP!HasSlots THEN booking.slot ELSE None,
                     step |-> "posted", ok |-> FALSE]
  <2>1. new \in PressRecord /\ new.step = "posted" /\ ~new.ok
    BY DEF PressRecord, PageInv, PageTypes
  <2>2. /\ press' = [press EXCEPT ![p] = new] /\ busy'
        /\ UNCHANGED <<clock, slots, slotsLoad, booking, made>>
    BY <1>4 DEF AP!Reserve
  <2> HIDE DEF new
  <2>3. /\ press' \in [AP!Press -> PressRecord \cup {None}]
        /\ press'[p] = new /\ press'[p] # None
        /\ \A q \in AP!Press : q # p => press'[q] = press[q]
    BY <2>1, <2>2, PressMoves
  <2>4. ~busy /\ press[p] = None
    BY <1>4 DEF AP!Reserve, AP!Ready
  <2>5. slotsLoad[0] = None
    BY <1>4 DEF AP!Reserve, AP!Ready, PageInv, OnePress
  <2>6. \A q \in AP!Press : ~UnderWay(q) /\ slotsLoad[q] = None
    BY <2>4 DEF PageInv, OnePress, UnderWay, AP!At
  <2>7. PageTypes' /\ LoadsAreLater'
    BY <2>2, <2>3 DEF PageInv, PageTypes, LoadsAreLater
  <2>8. BookedWasMade'
    BY <2>1, <2>2, <2>3 DEF PageInv, BookedWasMade
  <2>9. OnePress'
    BY <2>2, <2>3, <2>5, <2>6 DEF OnePress, UnderWay
  <2> QED
    BY <2>7, <2>8, <2>9 DEF PageInv
<1>5. ASSUME NEW p \in AP!Press, NEW moved \in PressRecord, UnderWay(p), slotsLoad[p] = None,
             press' = [press EXCEPT ![p] = moved],
             moved.ok \/ moved.step = "stored" => made[p] # None,
             booking' \in {booking, AP!Blank},
             \/ slotsLoad' = slotsLoad /\ moved.step # "done"
             \/ slotsLoad' = [slotsLoad EXCEPT ![p] = AP!Asked] /\ moved.step = "slots",
             UNCHANGED <<clock, slots, busy, made>>
      PROVE  PageInv'
  <2>1. /\ press' \in [AP!Press -> PressRecord \cup {None}]
        /\ press'[p] = moved /\ press'[p] # None
        /\ \A q \in AP!Press : q # p => press'[q] = press[q]
    BY <1>5, PressMoves
  <2>2. /\ slotsLoad' \in [AP!LoadOf -> {None, AP!Asked, AP!Failed} \cup SlotList]
        /\ \A l \in AP!LoadOf : l # p => slotsLoad'[l] = slotsLoad[l]
        /\ slotsLoad'[p] = None \/ (slotsLoad'[p] = AP!Asked /\ moved.step = "slots")
    <3>1. slotsLoad \in [AP!LoadOf -> {None, AP!Asked, AP!Failed} \cup SlotList] /\ p \in AP!LoadOf
      BY PageNames DEF PageInv, PageTypes
    <3>2. CASE slotsLoad' = slotsLoad
      BY <1>5, <3>1, <3>2
    <3>3. CASE slotsLoad' = [slotsLoad EXCEPT ![p] = AP!Asked] /\ moved.step = "slots"
      BY <1>5, <3>1, <3>3
    <3> QED
      BY <1>5, <3>2, <3>3
  <2>3. PageTypes'
    <3> DEFINE Forms == [open : BOOLEAN, slot : Slot \cup {None}, time : BOOLEAN]
    <3>1. AP!Blank \in Forms
      BY DEF AP!Blank
    <3>2. booking \in Forms
      BY DEF PageInv, PageTypes
    <3>3. booking' \in Forms
      BY <1>5, <3>1, <3>2
    <3> QED
      BY <1>5, <2>1, <2>2, <3>3 DEF PageInv, PageTypes
  <2>4. LoadsAreLater'
    BY <1>5, <2>2, PageNames DEF PageInv, LoadsAreLater, Arrived
  <2>5. BookedWasMade'
    BY <1>5, <2>1 DEF PageInv, BookedWasMade
  <2>6. slotsLoad[0] = None /\ slotsLoad'[0] = None /\ busy
    BY <1>5, <2>2, PageNames DEF PageInv, OnePress, UnderWay
  <2>7. \A q \in AP!Press : q # p => ~UnderWay(q) /\ slotsLoad[q] = None
    BY <1>5 DEF PageInv, OnePress, UnderWay, AP!At
  <2>8. OnePress'
    BY <1>5, <2>1, <2>2, <2>6, <2>7, PageNames DEF OnePress, UnderWay, AP!At
  <2> QED
    BY <2>3, <2>4, <2>5, <2>8 DEF PageInv
<1>6. ASSUME NEW p \in AP!Press, NEW step, AP!At(p, step), step # "slots", step # "done"
      PROVE  press[p] \in PressRecord /\ UnderWay(p) /\ slotsLoad[p] = None /\ press[p].step = step
  BY <1>6 DEF PageInv, PageTypes, OnePress, AP!At, UnderWay
<1>7. ASSUME NEW p \in AP!Press, AP!Answered(p) PROVE PageInv'
  <2>1. CASE AP!At(p, "stored")
    <3> DEFINE moved == [press[p] EXCEPT !.step = "planning", !.ok = TRUE]
    <3>1. moved \in PressRecord /\ moved.step = "planning"
      BY <1>6, <2>1 DEF PressRecord
    <3>2. press' = [press EXCEPT ![p] = moved] /\ slotsLoad' = slotsLoad
      BY <1>7, <2>1 DEF AP!Answered, AP!At
    <3>3. made[p] # None
      BY <2>1 DEF AP!At, PageInv, BookedWasMade
    <3> HIDE DEF moved
    <3> QED
      BY <1>5, <1>6, <1>7, <2>1, <3>1, <3>2, <3>3 DEF AP!Answered
  <2>2. CASE AP!At(p, "failed")
    <3> DEFINE moved == [press[p] EXCEPT !.step = "slots"]
    <3>1. moved \in PressRecord /\ moved.step = "slots" /\ moved.ok = press[p].ok
      BY <1>6, <2>2 DEF PressRecord
    <3>2. press' = [press EXCEPT ![p] = moved] /\ slotsLoad' = [slotsLoad EXCEPT ![p] = AP!Asked]
      BY <1>7, <2>2 DEF AP!Answered, AP!At
    <3>3. moved.ok => made[p] # None
      BY <2>2, <3>1 DEF AP!At, PageInv, BookedWasMade
    <3> HIDE DEF moved
    <3> QED
      BY <1>5, <1>6, <1>7, <2>2, <3>1, <3>2, <3>3 DEF AP!Answered
  <2> QED
    BY <1>7, <2>1, <2>2 DEF AP!Answered
<1>8. ASSUME NEW p \in AP!Press, AP!PlanningFetched(p) PROVE PageInv'
  <2> DEFINE moved == [press[p] EXCEPT !.step = "slots"]
  <2>1. AP!At(p, "planning")
    BY <1>8 DEF AP!PlanningFetched
  <2>2. moved \in PressRecord /\ moved.step = "slots" /\ moved.ok = press[p].ok
    BY <1>6, <2>1 DEF PressRecord
  <2>3. press' = [press EXCEPT ![p] = moved] /\ slotsLoad' = [slotsLoad EXCEPT ![p] = AP!Asked]
        /\ booking' = AP!Blank
    BY <1>8 DEF AP!PlanningFetched
  <2>4. moved.ok => made[p] # None
    BY <2>1, <2>2 DEF AP!At, PageInv, BookedWasMade
  <2> HIDE DEF moved
  <2> QED
    BY <1>5, <1>6, <1>8, <2>1, <2>2, <2>3, <2>4 DEF AP!PlanningFetched
<1>9. ASSUME NEW p \in AP!LoadOf, AP!ReadSlots(p) PROVE PageInv'
  <2>1. PICK a \in {SlotsNow, AP!Failed} : slotsLoad' = [slotsLoad EXCEPT ![p] = a]
    BY <1>9 DEF AP!ReadSlots, SlotsNow
  <2>2. SlotsNow \in SlotList /\ SlotsNow.asOf = clock
    BY DEF SlotList, SlotsNow, PageInv, PageTypes
  <2>3. slotsLoad[p] # None /\ UNCHANGED <<clock, slots, booking, press, busy, made>>
    BY <1>9, PageNames DEF AP!ReadSlots
  <2>4. /\ slotsLoad' \in [AP!LoadOf -> {None, AP!Asked, AP!Failed} \cup SlotList]
        /\ \A l \in AP!LoadOf : slotsLoad'[l] = IF l = p THEN a ELSE slotsLoad[l]
    BY <2>1, <2>2 DEF PageInv, PageTypes
  <2>5. Arrived(a) => a.asOf = clock
    BY <2>1, <2>2 DEF Arrived
  <2>6. PageTypes'
    BY <2>3, <2>4 DEF PageInv, PageTypes
  <2>7. LoadsAreLater'
    BY <2>3, <2>4, <2>5, PageNames DEF PageInv, PageTypes, LoadsAreLater
  <2>8. OnePress'
    BY <2>3, <2>4, PageNames DEF PageInv, OnePress, AP!At, UnderWay
  <2> QED
    BY <2>3, <2>6, <2>7, <2>8 DEF PageInv, BookedWasMade
<1>10. ASSUME NEW p \in AP!LoadOf, AP!ShowSlots(p) PROVE PageInv'
  <2>1. /\ slotsLoad[p] # None /\ slotsLoad' = [slotsLoad EXCEPT ![p] = None]
        /\ slotsLoad[p] = AP!Failed \/ Arrived(slotsLoad[p])
        /\ slots' = IF slotsLoad[p] = AP!Failed THEN slots ELSE slotsLoad[p]
        /\ UNCHANGED <<clock, booking, made>>
    BY <1>10 DEF AP!ShowSlots, AP!OnItsWay, Arrived
  <2>2. \A l \in AP!LoadOf : slotsLoad'[l] = None
    BY <2>1, OneLoad DEF PageInv, PageTypes
  <2>3. slotsLoad' \in [AP!LoadOf -> {None, AP!Asked, AP!Failed} \cup SlotList]
    BY <2>1 DEF PageInv, PageTypes
  <2>4. slots' \in SlotList /\ slots'.asOf <= clock'
    BY <2>1 DEF PageInv, PageTypes, LoadsAreLater, Arrived
  <2>5. LoadsAreLater'
    BY <2>1, <2>2, PageNames DEF PageInv, LoadsAreLater, Arrived
  <2>6. CASE p = 0
    <3>1. UNCHANGED <<press, busy>>
      BY <1>10, <2>6 DEF AP!ShowSlots
    <3> QED
      BY <2>1, <2>2, <2>3, <2>4, <2>5, <3>1, PageNames
         DEF PageInv, PageTypes, BookedWasMade, OnePress, UnderWay
  <2>7. CASE p # 0
    <3> DEFINE moved == [press[p] EXCEPT !.step = "done"]
    <3>1. p \in AP!Press
      BY <2>7, BoundsAssumption DEF AP!Press, AP!LoadOf
    <3>2. AP!At(p, "slots") /\ UnderWay(p) /\ press[p] \in PressRecord
      BY <2>1, <3>1 DEF PageInv, PageTypes, OnePress, AP!At, UnderWay
    <3>3. moved \in PressRecord /\ moved.step = "done" /\ moved.ok = press[p].ok
      BY <3>2 DEF PressRecord
    <3>4. press' = [press EXCEPT ![p] = moved] /\ ~busy'
      BY <1>10, <2>7 DEF AP!ShowSlots
    <3> HIDE DEF moved
    <3>5. /\ press' \in [AP!Press -> PressRecord \cup {None}]
          /\ press'[p] = moved /\ press'[p] # None
          /\ \A q \in AP!Press : q # p => press'[q] = press[q]
      BY <3>1, <3>3, <3>4, PressMoves
    <3>6. \A q \in AP!Press : ~UnderWay(q)'
      BY <3>1, <3>2, <3>3, <3>5 DEF PageInv, OnePress, UnderWay
    <3>7. BookedWasMade'
      BY <2>1, <3>1, <3>2, <3>3, <3>5 DEF PageInv, BookedWasMade, AP!At
    <3>8. OnePress'
      BY <2>2, <3>6, PageNames DEF OnePress
    <3> QED
      BY <2>1, <2>3, <2>4, <2>5, <3>5, <3>7, <3>8 DEF PageInv, PageTypes
  <2> QED
    BY <2>6, <2>7
<1>11. ASSUME NEW p \in AP!Press, AP!Store(p) PROVE PageInv'
  <2>1. AP!At(p, "posted")
    BY <1>11 DEF AP!Store
  <2>2. PICK step \in {"stored", "failed"} : press' = [press EXCEPT ![p].step = step]
    BY <1>11 DEF AP!Store
  <2> DEFINE moved == [press[p] EXCEPT !.step = step]
  <2>3. moved \in PressRecord /\ moved.step = step
    BY <1>6, <2>1, <2>2 DEF PressRecord
  <2>4. press' = [press EXCEPT ![p] = moved]
    BY <2>2
  <2> HIDE DEF moved
  <2>5. /\ press' \in [AP!Press -> PressRecord \cup {None}]
        /\ press'[p] = moved /\ press'[p] # None
        /\ \A q \in AP!Press : q # p => press'[q] = press[q]
    BY <2>3, <2>4, PressMoves
  <2>6. /\ clock' = clock + 1 /\ made' = [made EXCEPT ![p] = clock']
        /\ UNCHANGED <<slots, slotsLoad, booking, busy>>
    BY <1>11 DEF AP!Store
  <2>7. clock \in Nat /\ clock' \in Nat /\ clock <= clock' /\ slots.asOf \in Nat
    BY <2>6 DEF PageInv, PageTypes, SlotList
  <2>8. /\ made' \in [AP!Press -> Nat \cup {None}]
        /\ \A q \in AP!Press : made'[q] = IF q = p THEN clock' ELSE made[q]
    BY <2>6, <2>7 DEF PageInv, PageTypes
  <2>9. slotsLoad[p] = None /\ UnderWay(p)
    BY <1>6, <2>1
  <2>10. PageTypes'
    BY <2>5, <2>6, <2>7, <2>8 DEF PageInv, PageTypes
  <2>11. LoadsAreLater'
    <3>1. \A l \in AP!LoadOf : Arrived(slotsLoad[l]) => slotsLoad[l].asOf \in Nat
      BY DEF PageInv, PageTypes, SlotList, Arrived
    <3>2. \A q \in AP!Press : made[q] # None => made[q] \in Nat
      BY DEF PageInv, PageTypes
    <3>3. \A l \in AP!LoadOf : Arrived(slotsLoad'[l]) =>
            slots'.asOf <= slotsLoad'[l].asOf /\ slotsLoad'[l].asOf <= clock'
      BY <2>6, <2>7, <3>1 DEF PageInv, LoadsAreLater
    <3>4. \A q \in AP!Press : made'[q] # None =>
            /\ made'[q] <= clock'
            /\ Arrived(slotsLoad'[q]) => made'[q] <= slotsLoad'[q].asOf
      BY <2>6, <2>7, <2>8, <2>9, <3>2 DEF PageInv, LoadsAreLater, Arrived
    <3> QED
      BY <3>3, <3>4 DEF LoadsAreLater
  <2>12. BookedWasMade'
    BY <2>5, <2>7, <2>8, NoneAssumption DEF PageInv, BookedWasMade
  <2>13. OnePress'
    BY <2>2, <2>3, <2>5, <2>6, <2>9 DEF PageInv, OnePress, UnderWay, AP!At
  <2> QED
    BY <2>10, <2>11, <2>12, <2>13 DEF PageInv
<1>12. ASSUME NEW p \in AP!Press, AP!Refuse(p) PROVE PageInv'
  <2> DEFINE moved == [press[p] EXCEPT !.step = "failed"]
  <2>1. AP!At(p, "posted")
    BY <1>12 DEF AP!Refuse
  <2>2. moved \in PressRecord /\ moved.step = "failed" /\ moved.ok = press[p].ok
    BY <1>6, <2>1 DEF PressRecord
  <2>3. press' = [press EXCEPT ![p] = moved]
    BY <1>12 DEF AP!Refuse
  <2>4. moved.ok => made[p] # None
    BY <2>1, <2>2 DEF AP!At, PageInv, BookedWasMade
  <2> HIDE DEF moved
  <2> QED
    BY <1>5, <1>6, <1>12, <2>1, <2>2, <2>3, <2>4 DEF AP!Refuse
<1>13. ASSUME NEW p \in AP!Press, AP!Delete(p) PROVE PageInv'
  BY <1>13, ClockTicks DEF AP!Delete
<1>14. ASSUME NEW s \in Slot, NEW left \in {"seat", "full", "gone"}, AP!OthersChange(s, left)
       PROVE  PageInv'
  BY <1>14, ClockTicks DEF AP!OthersChange
<1> QED
  BY <1>2, <1>3, <1>4, <1>7, <1>8, <1>9, <1>10, <1>11, <1>12, <1>13, <1>14
     DEF AP!ActivityPageNext

\* The slots of a page only change for those of a load, whose press is announced.
LEMMA PageAnnounces ==
    ASSUME PageInv, [AP!ActivityPageNext]_ap
    PROVE  AP!AnnouncedWasBooked /\ AP!SlotsMoveForward
<1> USE DEF AP!pageVars, AP!planning
<1>1. slots.asOf \in Nat
  BY DEF PageInv, PageTypes, SlotList
<1>2. ASSUME NEW p \in AP!LoadOf, AP!ShowSlots(p)
      PROVE  AP!AnnouncedWasBooked /\ AP!SlotsMoveForward
  <2>1. /\ slotsLoad[p] # None
        /\ slotsLoad[p] = AP!Failed \/ Arrived(slotsLoad[p])
        /\ slots' = IF slotsLoad[p] = AP!Failed THEN slots ELSE slotsLoad[p]
    BY <1>2 DEF AP!ShowSlots, AP!OnItsWay, Arrived
  <2>2. AP!SlotsMoveForward
    BY <1>1, <2>1 DEF AP!SlotsMoveForward, PageInv, PageTypes, SlotList, LoadsAreLater, Arrived
  <2>3. ASSUME NEW q \in said' \ said PROVE q = p /\ p \in AP!Press /\ press[p].ok
    <3>1. p # 0 /\ q = p /\ press[p].ok
      BY <1>2, <2>3 DEF AP!ShowSlots
    <3> QED
      BY <3>1, BoundsAssumption DEF AP!Press, AP!LoadOf
  <2>4. ASSUME p \in AP!Press, press[p].ok
        PROVE  made[p] # None /\ (slotsLoad[p] = AP!Failed \/ slots'.asOf >= made[p])
    <3>1. press[p] # None
      BY <2>1, <2>4 DEF PageInv, OnePress, AP!At
    <3>2. made[p] # None
      BY <2>4, <3>1 DEF PageInv, BookedWasMade
    <3> QED
      BY <2>1, <2>4, <3>2 DEF PageInv, PageTypes, LoadsAreLater, SlotList, Arrived
  <2> QED
    BY <2>2, <2>3, <2>4 DEF AP!AnnouncedWasBooked
<1>3. CASE said' = said /\ slots' = slots
  BY <1>1, <1>3 DEF AP!AnnouncedWasBooked, AP!SlotsMoveForward
<1> QED
  BY <1>2, <1>3 DEF AP!ActivityPageNext, AP!LoadPage, AP!Open, AP!Cancel, AP!PickSlot,
     AP!PickTime, AP!OnForm, AP!Rate, AP!Reserve, AP!Answered, AP!PlanningFetched, AP!Store,
     AP!Refuse, AP!Delete, AP!ReadSlots, AP!OthersChange, ap

-------------------------------------------------------------------------------
(* GroupPanel *)

\* A panel has no focus at first.
LEMMA PanelInitially ==
    GP!GroupPanelInit => PanelInv
<1> SUFFICES ASSUME GP!GroupPanelInit PROVE PanelInv
  OBVIOUS
<1>1. PanelTypes /\ ~panel.focused
  BY DEF GP!GroupPanelInit, PanelTypes, GP!NoChange
<1>2. \A r \in GP!Request : ~Current(r)
  BY DEF GP!GroupPanelInit, Current
<1> QED
  BY <1>1, <1>2 DEF PanelInv, OneCurrent, PanelKnows

\* No request is current once all are superseded.
LEMMA PanelSuperseded ==
    ASSUME PanelInv
    PROVE  /\ GP!Superseded(requests) \in [GP!Request -> PanelRequest \cup {None}]
           /\ \A r \in GP!Request : LET q == GP!Superseded(requests)[r] IN q # None => ~q.current
  BY DEF GP!Superseded, PanelInv, PanelTypes, PanelRequest

\* A request that is sent is the current one.
LEMMA PanelSent ==
    ASSUME PanelInv, GP!Unused(requests) # {}, NEW request \in PanelRequest,
           requests' = GP!Sent(requests, request)
    PROVE  /\ requests' \in [GP!Request -> PanelRequest \cup {None}]
           /\ \E r \in GP!Request : /\ requests'[r] = request
                                    /\ \A q \in GP!Request : Current(q)' => q = r
<1> DEFINE free == CHOOSE x \in GP!Unused(requests) : \A y \in GP!Unused(requests) : x <= y
<1>1. free \in GP!Request
  <2>1. GP!Unused(requests) \subseteq Nat /\ GP!Unused(requests) \subseteq GP!Request
    BY BoundsAssumption DEF PanelInv, PanelTypes, GP!Unused, GP!Request
  <2>2. free \in GP!Unused(requests)
    BY <2>1, LeastNatural
  <2> QED
    BY <2>1, <2>2
<1>2. requests' = [GP!Superseded(requests) EXCEPT ![free] = request]
  BY DEF GP!Sent
<1> HIDE DEF free
<1> QED
  BY <1>1, <1>2, PanelSuperseded DEF Current

\* A refresh is sent, on focus, by a button or an event, or after a change.
LEMMA PanelRefreshes ==
    ASSUME PanelInv, NEW last \in BOOLEAN, GP!Unused(requests) # {},
           requests' = GP!Sent(requests, GP!Ask("refresh", last)),
           \/ panel' = [panel EXCEPT !.loading = TRUE]
           \/ panel' = [panel EXCEPT !.loading = TRUE, !.focused = TRUE],
           proposals' = proposals, confirmed' \in {confirmed, change.made},
           change' \in [step : {"none", "posted", "stored", "refused", "refreshing"}, made : Nat],
           change'.made <= proposals
    PROVE  PanelInv'
<1> DEFINE request == GP!Ask("refresh", last)
<1>1. /\ request \in PanelRequest /\ request.kind = "refresh" /\ request.current
      /\ request.answer = None /\ request # None
  <2>1. request \in PanelRequest
    BY DEF GP!Ask, PanelRequest
  <2>2. request.kind = "refresh" /\ request.current /\ request.answer = None
    BY DEF GP!Ask
  <2> HIDE DEF request
  <2> QED
    BY <2>1, <2>2, NoneAssumption
<1>2. requests' = GP!Sent(requests, request)
  OBVIOUS
<1> HIDE DEF request
<1>3. requests' \in [GP!Request -> PanelRequest \cup {None}]
  BY <1>1, <1>2, PanelSent
<1>4. PICK r \in GP!Request : requests'[r] = request /\ \A q \in GP!Request : Current(q)' => q = r
  BY <1>1, <1>2, PanelSent
<1>5. /\ panel' \in [conversation : BOOLEAN, asOf : Nat, hasMore : BOOLEAN, loading : BOOLEAN,
                     error : BOOLEAN, focused : BOOLEAN]
      /\ panel'.asOf = panel.asOf /\ panel'.loading
  BY DEF PanelInv, PanelTypes
<1>6. PanelTypes'
  BY <1>3, <1>5 DEF PanelInv, PanelTypes
<1>7. ~WasRead(r)' /\ Current(r)'
  BY <1>1, <1>4 DEF WasRead, Current
<1>8. OneCurrent'
  BY <1>4, <1>5, <1>7 DEF OneCurrent
<1>9. PanelKnows'
  BY <1>1, <1>4, <1>7 DEF PanelKnows, Refreshing
<1> QED
  BY <1>6, <1>8, <1>9 DEF PanelInv

\* Each step of the panel keeps its invariant.
LEMMA PanelStep ==
    ASSUME PanelInv, [GP!GroupPanelNext]_gp
    PROVE  PanelInv'
<1> DEFINE Changes == [step : {"none", "posted", "stored", "refused", "refreshing"}, made : Nat]
           Panels == [conversation : BOOLEAN, asOf : Nat, hasMore : BOOLEAN, loading : BOOLEAN,
                      error : BOOLEAN, focused : BOOLEAN]
<1>1. /\ change \in Changes /\ change.made \in Nat /\ change.made <= proposals
      /\ panel \in Panels /\ panel.asOf \in Nat /\ panel.asOf <= proposals
      /\ proposals \in Nat /\ confirmed \in Nat /\ confirmed <= proposals
  BY DEF PanelInv, PanelTypes
<1>2. \A r \in GP!Request : Current(r) /\ WasRead(r) => requests[r].answer.asOf \in Nat
  BY DEF PanelInv, PanelTypes, PanelRequest, Current, WasRead
<1>3. CASE GP!Refresh
  BY <1>1, <1>3, PanelRefreshes DEF GP!Refresh
<1>4. CASE GP!Focus
  BY <1>1, <1>4, PanelRefreshes DEF GP!Focus
<1>5. CASE GP!Blur
  <2>1. /\ panel' = [panel EXCEPT !.focused = FALSE] /\ requests' = GP!Superseded(requests)
        /\ UNCHANGED <<proposals, change, confirmed>>
    BY <1>5 DEF GP!Blur
  <2>2. panel' \in Panels /\ panel'.asOf = panel.asOf /\ ~panel'.focused
    BY <1>1, <2>1
  <2>3. PanelTypes'
    BY <2>1, <2>2, PanelSuperseded DEF PanelInv, PanelTypes
  <2>4. \A r \in GP!Request : ~Current(r)'
    BY <2>1, PanelSuperseded DEF Current
  <2> QED
    BY <2>2, <2>3, <2>4 DEF PanelInv, OneCurrent, PanelKnows
<1>6. CASE GP!LoadMore
  <2> DEFINE request == GP!Ask("more", FALSE)
  <2>1. request \in PanelRequest /\ request.answer = None
    BY DEF GP!Ask, PanelRequest
  <2>2. /\ requests' = GP!Sent(requests, request) /\ GP!Unused(requests) # {}
        /\ panel' = [panel EXCEPT !.loading = TRUE]
        /\ panel.conversation /\ panel.focused /\ ~panel.loading
        /\ UNCHANGED <<proposals, change, confirmed>>
    BY <1>6 DEF GP!LoadMore, GP!Visible
  <2> HIDE DEF request
  <2>3. requests' \in [GP!Request -> PanelRequest \cup {None}]
    BY <2>1, <2>2, PanelSent
  <2>4. PICK r \in GP!Request : requests'[r] = request /\ \A q \in GP!Request : Current(q)' => q = r
    BY <2>1, <2>2, PanelSent
  <2>5. panel' \in Panels /\ panel'.asOf = panel.asOf /\ panel'.loading
    BY <1>1, <2>2
  <2>6. PanelTypes'
    BY <2>2, <2>3, <2>5 DEF PanelInv, PanelTypes
  <2>7. panel.asOf >= confirmed
    BY <2>2 DEF PanelInv, PanelKnows, OneCurrent, Refreshing, OnlyMessage
  <2>8. OneCurrent'
    BY <2>1, <2>4, <2>5 DEF OneCurrent, WasRead
  <2> QED
    BY <2>2, <2>5, <2>6, <2>7, <2>8 DEF PanelInv, PanelKnows
<1>7. ASSUME NEW r \in GP!Request, GP!Read(r) PROVE PanelInv'
  <2> DEFINE read == [asOf : {proposals}, hasMore : BOOLEAN]
  <2>1. PICK a \in {GP!Failed} \cup read : requests' = [requests EXCEPT ![r].answer = a]
    BY <1>7 DEF GP!Read, GP!Answering
  <2>2. a \in {GP!Failed} \cup [asOf : Nat, hasMore : BOOLEAN] /\ (a # GP!Failed => a.asOf = proposals)
    BY <1>1, <2>1
  <2> DEFINE now == [requests[r] EXCEPT !.answer = a]
  <2>3. requests[r] \in PanelRequest
    BY <1>7 DEF GP!Read, PanelInv, PanelTypes
  <2>4. now \in PanelRequest /\ now.answer = a /\ now.current = requests[r].current
        /\ now.kind = requests[r].kind
    BY <2>2, <2>3 DEF PanelRequest
  <2>5. requests' = [requests EXCEPT ![r] = now]
    BY <2>1
  <2> HIDE DEF now, read
  <2>6. now # None
    BY <2>4, NoneAssumption
  <2>7. /\ requests' \in [GP!Request -> PanelRequest \cup {None}]
        /\ \A q \in GP!Request : requests'[q] = IF q = r THEN now ELSE requests[q]
    BY <2>4, <2>5 DEF PanelInv, PanelTypes
  <2>8. UNCHANGED <<proposals, panel, change, confirmed>>
    BY <1>7 DEF GP!Read
  <2>9. \A q \in GP!Request : Current(q)' <=> Current(q)
    BY <1>7, <2>4, <2>6, <2>7 DEF Current, GP!Read
  <2>10. \A q \in GP!Request : WasRead(q)' => IF q = r THEN requests'[q].answer.asOf = proposals
                                                      ELSE WasRead(q) /\ requests'[q] = requests[q]
    BY <2>2, <2>4, <2>7 DEF WasRead
  <2>11. OneCurrent'
    BY <1>1, <2>8, <2>9, <2>10 DEF PanelInv, OneCurrent
  <2>12. ASSUME NEW q \in GP!Request, Refreshing(q) PROVE Refreshing(q)'
    BY <1>1, <2>4, <2>7, <2>8, <2>9, <2>10, <2>12 DEF Refreshing
  <2>13. PanelKnows'
    BY <2>8, <2>9, <2>12 DEF PanelInv, PanelKnows, OnlyMessage
  <2> QED
    BY <2>7, <2>8, <2>11, <2>13 DEF PanelInv, PanelTypes
<1>8. ASSUME NEW r \in GP!Request, GP!Arrive(r) PROVE PanelInv'
  <2>1. /\ requests[r] # None /\ requests[r].answer # None
        /\ requests' = [requests EXCEPT ![r] = None]
        /\ UNCHANGED <<proposals, confirmed>>
        /\ change' \in {change, GP!NoChange}
    BY <1>8 DEF GP!Arrive, GP!OnItsWay
  <2>2. requests[r] \in PanelRequest
    BY <2>1 DEF PanelInv, PanelTypes
  <2>3. /\ requests' \in [GP!Request -> PanelRequest \cup {None}]
        /\ \A q \in GP!Request : requests'[q] = IF q = r THEN None ELSE requests[q]
    BY <2>1 DEF PanelInv, PanelTypes
  <2>4. GP!NoChange \in Changes /\ GP!NoChange.made = 0
    BY DEF GP!NoChange
  <2>5. change' \in Changes /\ change'.made <= proposals
    BY <1>1, <2>1, <2>4
  <2>6. CASE ~requests[r].current
    <3>1. panel' = panel
      BY <1>8, <2>6 DEF GP!Arrive, GP!Accepted
    <3>2. \A q \in GP!Request : Current(q) => q # r
      BY <2>6 DEF Current
    <3>3. \A q \in GP!Request : q # r => /\ Current(q)' <=> Current(q)
                                         /\ WasRead(q)' <=> WasRead(q)
                                         /\ requests'[q] = requests[q]
      BY <2>3 DEF Current, WasRead
    <3>4. ~Current(r)'
      BY <2>3 DEF Current
    <3>5. OneCurrent'
      BY <2>1, <3>1, <3>3, <3>4 DEF PanelInv, OneCurrent
    <3>6. PanelKnows'
      BY <2>1, <3>1, <3>2, <3>3, <3>4 DEF PanelInv, PanelKnows, OnlyMessage, Refreshing
    <3> QED
      BY <2>1, <2>3, <2>5, <3>1, <3>5, <3>6 DEF PanelInv, PanelTypes
  <2>7. CASE requests[r].current
    <3>1. Current(r) /\ panel' = GP!After(requests[r])
      BY <1>8, <2>1, <2>7 DEF GP!Arrive, GP!Accepted, Current
    <3>2. \A q \in GP!Request : ~Current(q)'
      BY <2>3, <3>1 DEF PanelInv, OneCurrent, Current
    <3>3. requests[r].kind # "refresh" /\ panel.focused => panel.asOf >= confirmed
      BY <3>1 DEF PanelInv, PanelKnows, OneCurrent, OnlyMessage, Refreshing
    <3>4. CASE requests[r].answer = GP!Failed
      <4>1. /\ panel' \in Panels /\ panel'.asOf = panel.asOf /\ panel'.focused = panel.focused
            /\ panel'.error /\ (requests[r].kind = "refresh" => ~panel'.conversation)
        BY <1>1, <3>1, <3>4 DEF GP!After
      <4>2. PanelTypes'
        BY <1>1, <2>1, <2>3, <2>5, <4>1 DEF PanelTypes
      <4> QED
        BY <2>1, <3>2, <3>3, <4>1, <4>2 DEF PanelInv, PanelKnows, OneCurrent, OnlyMessage
    <3>5. CASE requests[r].answer # GP!Failed
      <4>1. /\ WasRead(r) /\ requests[r].answer \in [asOf : Nat, hasMore : BOOLEAN]
            /\ panel.asOf <= requests[r].answer.asOf /\ requests[r].answer.asOf <= proposals
        BY <2>1, <2>2, <3>1, <3>5 DEF WasRead, PanelRequest, PanelInv, OneCurrent
      <4> DEFINE answer == requests[r].answer
      <4>2. answer.asOf \in Nat /\ answer.hasMore \in BOOLEAN
        BY <4>1
      <4>3. /\ panel' \in Panels /\ panel'.focused = panel.focused
            /\ panel'.asOf = IF requests[r].kind = "refresh" THEN answer.asOf ELSE panel.asOf
        BY <1>1, <3>1, <3>5, <4>2 DEF GP!After
      <4>4. PanelTypes'
        BY <1>1, <2>1, <2>3, <2>5, <4>1, <4>3 DEF PanelTypes
      <4>5. panel.focused /\ requests[r].kind = "refresh" => answer.asOf >= confirmed
        <5> SUFFICES ASSUME panel.focused, requests[r].kind = "refresh" PROVE answer.asOf >= confirmed
          OBVIOUS
        <5>1. CASE panel.asOf >= confirmed
          BY <1>1, <4>1, <4>2, <5>1
        <5>2. CASE \E q \in GP!Request : Refreshing(q)
          BY <3>1, <4>1, <5>2 DEF PanelInv, OneCurrent, Refreshing
        <5> QED
          BY <3>1, <5>1, <5>2 DEF PanelInv, PanelKnows, OnlyMessage
      <4>6. PanelKnows'
        BY <2>1, <3>3, <4>3, <4>5 DEF PanelKnows
      <4> QED
        BY <3>2, <4>4, <4>6 DEF PanelInv, OneCurrent
    <3> QED
      BY <3>4, <3>5
  <2> QED
    BY <2>2, <2>6, <2>7 DEF PanelRequest
<1>9. CASE GP!Change
  <2>1. /\ panel' = [panel EXCEPT !.error = FALSE] /\ panel.conversation
        /\ change' = [step |-> "posted", made |-> 0]
        /\ UNCHANGED <<proposals, requests, confirmed>>
    BY <1>9 DEF GP!Change, GP!Visible
  <2>2. change' \in Changes /\ change'.made = 0
    BY <2>1
  <2>3. panel' \in Panels /\ panel'.asOf = panel.asOf /\ panel'.focused = panel.focused
        /\ panel'.loading = panel.loading
    BY <1>1, <2>1
  <2>4. \A q \in GP!Request : (Current(q)' <=> Current(q)) /\ (WasRead(q)' <=> WasRead(q))
    BY <2>1 DEF Current, WasRead
  <2>5. PanelTypes'
    BY <1>1, <2>1, <2>2, <2>3 DEF PanelInv, PanelTypes
  <2>6. OneCurrent'
    BY <2>1, <2>3, <2>4 DEF PanelInv, OneCurrent
  <2>7. PanelKnows'
    BY <2>1, <2>3, <2>4 DEF PanelInv, PanelKnows, Refreshing, OnlyMessage
  <2> QED
    BY <2>5, <2>6, <2>7 DEF PanelInv
<1>10. ASSUME UNCHANGED <<panel, requests, confirmed>>, change' \in Changes,
              change'.made <= proposals', proposals' \in {proposals, proposals + 1}
       PROVE  PanelInv'
  <2>1. proposals' \in Nat /\ proposals <= proposals'
    BY <1>1, <1>10
  <2>2. PanelTypes'
    BY <1>1, <1>10, <2>1 DEF PanelInv, PanelTypes
  <2>3. OneCurrent'
    BY <1>1, <1>2, <1>10, <2>1 DEF PanelInv, OneCurrent, Current, WasRead
  <2>4. PanelKnows'
    BY <1>10 DEF PanelInv, PanelKnows, Refreshing, OnlyMessage, Current, WasRead
  <2> QED
    BY <2>2, <2>3, <2>4 DEF PanelInv
<1>11. CASE GP!Apply
  <2>1. CASE proposals' = proposals + 1 /\ \E step \in {"stored", "refused"} :
               change' = [change EXCEPT !.step = step, !.made = proposals']
    <3>1. proposals' \in Nat
      BY <1>1, <2>1
    <3>2. PICK step \in {"stored", "refused"} : change' = [change EXCEPT !.step = step, !.made = proposals']
      BY <2>1
    <3>3. change' \in Changes /\ change'.made = proposals'
      BY <1>1, <3>1, <3>2
    <3> QED
      BY <1>10, <1>11, <2>1, <3>1, <3>3 DEF GP!Apply
  <2>2. CASE change' = [change EXCEPT !.step = "refused"] /\ UNCHANGED proposals
    <3>1. change' \in Changes /\ change'.made = change.made
      BY <1>1, <2>2
    <3> QED
      BY <1>1, <1>10, <1>11, <2>2, <3>1 DEF GP!Apply
  <2> QED
    BY <1>11, <2>1, <2>2 DEF GP!Apply
<1>12. CASE GP!OthersChange
  BY <1>1, <1>10, <1>12 DEF GP!OthersChange
<1>13. CASE GP!ChangeAnswered
  <2>1. CASE change.step = "stored"
    <3>1. change' = [change EXCEPT !.step = "refreshing"]
      BY <1>13, <2>1 DEF GP!ChangeAnswered
    <3>2. change' \in Changes /\ change'.made = change.made
      BY <1>1, <3>1
    <3> QED
      BY <1>1, <1>13, <2>1, <3>2, PanelRefreshes DEF GP!ChangeAnswered
  <2>2. CASE change.step = "refused"
    <3>1. /\ panel' = [panel EXCEPT !.error = TRUE] /\ change' = GP!NoChange
          /\ UNCHANGED <<proposals, requests, confirmed>>
      BY <1>13, <2>2 DEF GP!ChangeAnswered
    <3>2. change' \in Changes /\ change'.made = 0
      BY <3>1 DEF GP!NoChange
    <3>3. /\ panel' \in Panels /\ panel'.asOf = panel.asOf /\ panel'.focused = panel.focused
          /\ panel'.loading = panel.loading /\ panel'.error
          /\ panel'.conversation = panel.conversation
      BY <1>1, <3>1
    <3>4. PanelTypes'
      BY <1>1, <3>1, <3>2, <3>3 DEF PanelInv, PanelTypes
    <3>5. OneCurrent'
      BY <3>1, <3>3 DEF PanelInv, OneCurrent, Current, WasRead
    <3>6. PanelKnows'
      BY <3>1, <3>3 DEF PanelInv, PanelKnows, Refreshing, OnlyMessage, Current, WasRead
    <3> QED
      BY <3>4, <3>5, <3>6 DEF PanelInv
  <2> QED
    BY <1>13, <2>1, <2>2 DEF GP!ChangeAnswered
<1>14. CASE UNCHANGED gp
  BY <1>1, <1>10, <1>14 DEF gp
<1> QED
  BY <1>3, <1>4, <1>5, <1>6, <1>7, <1>8, <1>9, <1>11, <1>12, <1>13, <1>14 DEF GP!GroupPanelNext

\* At rest no request is current.
LEMMA PanelShows == PanelInv => GP!ConfirmedIsShown
<1> SUFFICES ASSUME PanelInv, GP!AtRest PROVE panel.error \/ panel.asOf >= confirmed
  BY DEF GP!ConfirmedIsShown
<1>1. panel.focused /\ \A r \in GP!Request : ~Current(r)
  BY DEF GP!AtRest, Current
<1> QED
  BY <1>1 DEF PanelInv, PanelKnows, Refreshing, OnlyMessage

\* The panel takes the answer of the current request.
LEMMA PanelForward ==
    ASSUME PanelInv, [GP!GroupPanelNext]_gp
    PROVE  GP!PanelMovesForward
<1>1. panel.asOf \in Nat
  BY DEF PanelInv, PanelTypes
<1>2. ASSUME NEW r \in GP!Request, GP!Arrive(r) PROVE panel'.asOf >= panel.asOf
  <2>1. requests[r] # None /\ requests[r].answer # None /\ requests[r] \in PanelRequest
    BY <1>2 DEF GP!Arrive, GP!OnItsWay, PanelInv, PanelTypes
  <2>2. CASE requests[r].current /\ requests[r].answer # GP!Failed
    <3>1. panel.asOf <= requests[r].answer.asOf /\ requests[r].answer.asOf \in Nat
      BY <2>1, <2>2 DEF PanelInv, OneCurrent, Current, WasRead, PanelRequest
    <3>2. panel'.asOf \in {requests[r].answer.asOf, panel.asOf}
      BY <1>2, <2>2 DEF GP!Arrive, GP!Accepted, GP!After, PanelInv, PanelTypes
    <3> QED
      BY <1>1, <3>1, <3>2
  <2>3. CASE ~requests[r].current \/ requests[r].answer = GP!Failed
    <3>1. panel'.asOf = panel.asOf
      BY <1>2, <2>3 DEF GP!Arrive, GP!Accepted, GP!After, PanelInv, PanelTypes
    <3> QED
      BY <1>1, <3>1
  <2> QED
    BY <2>2, <2>3
<1>3. ASSUME panel'.asOf = panel.asOf PROVE panel'.asOf >= panel.asOf
  BY <1>1, <1>3
<1>4. (\E r \in GP!Request : GP!Arrive(r)) \/ panel'.asOf = panel.asOf
  BY DEF GP!GroupPanelNext, GP!Refresh, GP!Focus, GP!Blur, GP!LoadMore, GP!Read, GP!Change,
     GP!Apply, GP!OthersChange, GP!ChangeAnswered, gp, PanelInv, PanelTypes
<1> QED
  BY <1>2, <1>3, <1>4 DEF GP!PanelMovesForward

-------------------------------------------------------------------------------
(* ConversationList *)

\* The states of a load are four things.
LEMMA ConversationNames ==
    /\ CL!Asked \in ListLoad /\ CL!Failed \in ListLoad
    /\ CL!Asked \notin ListAnswer /\ CL!Failed \notin ListAnswer
    /\ CL!Asked # CL!Failed /\ CL!Asked # None /\ CL!Failed # None
    /\ None \notin ListAnswer
<1>1. CL!Asked \in ListLoad /\ CL!Failed \in ListLoad /\ ListAnswer \subseteq ListLoad
  BY DEF ListLoad
<1>2. CL!Asked \notin ListAnswer /\ CL!Failed \notin ListAnswer /\ CL!Asked # CL!Failed
  BY DEF ListAnswer, CL!Asked, CL!Failed
<1> QED
  BY <1>1, <1>2, NoneAssumption

\* The versions that the parts compare are numbers.
LEMMA ConversationNumbers ==
    ASSUME ConversationsInv
    PROVE  /\ listVersion \in Nat /\ listTold \in Nat /\ listTold <= listVersion
           /\ conversations.asOf \in Nat /\ conversations.asOf <= listVersion
           /\ \A list \in ListAnswer : list.asOf \in Nat
           /\ \A c \in Conversation : deletions[c] # None =>
                deletions[c] \in Deletion /\ deletions[c].previous \in ListAnswer
                /\ deletions[c].previous.asOf \in Nat
  BY DEF ConversationsInv, ConversationTypes, ListAnswer, Deletion

\* A user without conversations, and a list without rows.
LEMMA ConversationsInitially ==
    CL!ConversationListInit /\ listed = {} => ConversationsInv
<1> SUFFICES ASSUME CL!ConversationListInit, listed = {} PROVE ConversationsInv
  OBVIOUS
<1>1. conversations \in ListAnswer /\ conversations.asOf = 0 /\ conversations.rows = {}
  BY DEF CL!ConversationListInit, CL!Answer, ListAnswer
<1>2. listLoads = [l \in CL!Load |-> IF l = 1 THEN CL!Asked ELSE None]
      /\ deletions = [c \in Conversation |-> None]
      /\ listVersion = 0 /\ listTold = 0 /\ listNews = {}
  BY DEF CL!ConversationListInit
<1>3. ConversationTypes
  BY <1>1, <1>2, ConversationNames DEF ConversationTypes
<1>4. AnswersAreExact
  BY <1>2, ConversationNames DEF AnswersAreExact
<1> QED
  BY <1>1, <1>2, <1>3, <1>4 DEF ConversationsInv, ToldIsShown, MissingIsDeleted

\* A load that is sent tells what the user has heard of by its end.
LEMMA ConversationsFetched ==
    ASSUME ConversationsInv, CL!Fetch, listNews' \subseteq listNews, listTold' \in Nat,
           listTold' <= listVersion,
           UNCHANGED <<listed, gone, listVersion, conversations, deletions, listOvertaken>>
    PROVE  ConversationsInv'
<1>1. PICK l \in CL!Load : listLoads[l] = None /\ listLoads' = [listLoads EXCEPT ![l] = CL!Asked]
  BY DEF CL!Fetch
<1>2. /\ listLoads' \in [CL!Load -> ListLoad \cup {None}]
      /\ \A m \in CL!Load : listLoads'[m] = IF m = l THEN CL!Asked ELSE listLoads[m]
  BY <1>1, ConversationNames DEF ConversationsInv, ConversationTypes
<1>3. ConversationTypes'
  BY <1>2 DEF ConversationsInv, ConversationTypes
<1>4. AnswersAreExact'
  BY <1>2, ConversationNames DEF ConversationsInv, AnswersAreExact, Exact
<1>5. Telling(l)'
  BY <1>2, ConversationNames DEF Telling
<1> QED
  BY <1>2, <1>3, <1>4, <1>5, ConversationNames
     DEF ConversationsInv, ToldIsShown, MissingIsDeleted

\* After a change of the server's list, every list is of an earlier version.
LEMMA ConversationsChanged ==
    ASSUME ConversationsInv, NEW rows2 \in SUBSET Conversation, CL!Changed(rows2),
           deletions' \in [Conversation -> Deletion \cup {None}],
           \A c \in Conversation : deletions'[c] # None =>
                deletions[c] # None /\ deletions'[c].previous = deletions[c].previous,
           UNCHANGED <<conversations, listLoading, listError, listLoads, listTold, listOvertaken>>
    PROVE  ConversationsInv'
<1>1. /\ listed' = rows2 /\ listVersion' = listVersion + 1
      /\ listNews' \subseteq listNews \cup {listVersion'}
  BY DEF CL!Changed
<1>2. listVersion' \in Nat /\ conversations'.asOf < listVersion'
  BY <1>1, ConversationNumbers
<1>3. listNews' \subseteq 1..listVersion' /\ listTold' <= listVersion'
  BY <1>1, ConversationNumbers DEF ConversationsInv, ConversationTypes
<1>4. ConversationTypes'
  BY <1>1, <1>2, <1>3, ConversationNumbers DEF ConversationsInv, ConversationTypes
<1>5. ASSUME NEW l \in CL!Load, listLoads[l] \in ListAnswer PROVE Exact(listLoads[l])'
  <2>1. listLoads[l].asOf <= listVersion /\ listLoads[l].asOf \in Nat
    BY <1>5, ConversationNumbers DEF ConversationsInv, AnswersAreExact, Exact
  <2> QED
    BY <1>1, <2>1, ConversationNumbers DEF Exact
<1>6. ASSUME NEW c \in Conversation, deletions'[c] # None
      PROVE  deletions'[c].previous.asOf <= listVersion'
  BY <1>1, <1>6, ConversationNumbers DEF ConversationsInv, AnswersAreExact
<1>7. AnswersAreExact'
  BY <1>5, <1>6 DEF AnswersAreExact
<1>8. ToldIsShown'
  BY DEF ConversationsInv, ToldIsShown, Telling
<1>9. MissingIsDeleted'
  BY <1>2, ConversationNumbers DEF MissingIsDeleted
<1> QED
  BY <1>4, <1>7, <1>8, <1>9 DEF ConversationsInv

\* A deletion that moves keeps the list it was asked over.
LEMMA DeletionMoves ==
    ASSUME ConversationsInv, NEW c \in Conversation, deletions[c] # None,
           NEW step \in {"question", "asked", "done", "failed"},
           deletions' = [deletions EXCEPT ![c].step = step]
    PROVE  /\ deletions' \in [Conversation -> Deletion \cup {None}]
           /\ CL!At(c, step)'
           /\ \A d \in Conversation : deletions'[d] # None =>
                deletions[d] # None /\ deletions'[d].previous = deletions[d].previous
           /\ \A d \in Conversation : d # c => deletions'[d] = deletions[d]
<1> DEFINE now == [deletions[c] EXCEPT !.step = step]
<1>1. now \in Deletion /\ now.step = step /\ now.previous = deletions[c].previous
  BY ConversationNumbers DEF Deletion
<1>2. deletions' = [deletions EXCEPT ![c] = now]
  OBVIOUS
<1> HIDE DEF now
<1>3. now # None
  BY <1>1, NoneAssumption
<1> QED
  BY <1>1, <1>2, <1>3 DEF ConversationsInv, ConversationTypes, CL!At

\* Each step of the list of conversations keeps its invariant.
LEMMA ConversationsStep ==
    ASSUME ConversationsInv, [CL!ConversationListNext]_cl
    PROVE  ConversationsInv'
<1> USE DEF CL!server, CL!screen
<1>1. CASE CL!Refresh
  BY <1>1, ConversationsFetched, ConversationNumbers DEF CL!Refresh
<1>2. ASSUME NEW v \in 1..MaxChanges, CL!Receive(v) PROVE ConversationsInv'
  <2>1. v \in 1..listVersion /\ listTold' \in {v, listTold}
    BY <1>2 DEF CL!Receive, ConversationsInv, ConversationTypes
  <2>2. listTold' \in Nat /\ listTold' <= listVersion
    BY <2>1, ConversationNumbers
  <2> QED
    BY <1>2, <2>2, ConversationsFetched DEF CL!Receive
<1>3. ASSUME NEW l \in CL!Load, CL!Read(l) PROVE ConversationsInv'
  <2> DEFINE read == CL!Answer(listed, listVersion)
  <2>1. read \in ListAnswer /\ read.asOf = listVersion /\ read.rows = listed
    BY DEF ListAnswer, CL!Answer, ConversationsInv, ConversationTypes
  <2>2. PICK a \in {read, CL!Failed} : listLoads' = [listLoads EXCEPT ![l] = a]
    BY <1>3 DEF CL!Read
  <2> HIDE DEF read
  <2>3. a \in ListLoad /\ a # None
    BY <2>1, <2>2, ConversationNames DEF ListLoad
  <2>4. /\ listLoads[l] # None
        /\ UNCHANGED <<listed, listVersion, listNews, conversations, listError, deletions,
                       listTold, listOvertaken>>
    BY <1>3, ConversationNames DEF CL!Read
  <2>5. /\ listLoads' \in [CL!Load -> ListLoad \cup {None}]
        /\ \A m \in CL!Load : listLoads'[m] = IF m = l THEN a ELSE listLoads[m]
    BY <2>2, <2>3 DEF ConversationsInv, ConversationTypes
  <2>6. ConversationTypes'
    BY <2>4, <2>5 DEF ConversationsInv, ConversationTypes
  <2>7. a \in ListAnswer => a.asOf = listVersion /\ a.rows = listed
    BY <2>1, <2>2, ConversationNames
  <2>8. AnswersAreExact'
    BY <2>4, <2>5, <2>7, ConversationNumbers DEF ConversationsInv, AnswersAreExact, Exact
  <2>9. Telling(l)' /\ \A m \in CL!Load : m # l /\ Telling(m) => Telling(m)'
    BY <2>3, <2>4, <2>5, <2>7, ConversationNumbers DEF Telling
  <2>10. ToldIsShown'
    BY <2>9 DEF ToldIsShown
  <2>11. MissingIsDeleted'
    BY <2>3, <2>5 DEF MissingIsDeleted
  <2> QED
    BY <2>6, <2>8, <2>10, <2>11 DEF ConversationsInv
<1>4. ASSUME NEW l \in CL!Load, CL!Arrive(l) PROVE ConversationsInv'
  <2>1. /\ listLoads[l] # None /\ listLoads[l] # CL!Asked
        /\ listLoads' = [listLoads EXCEPT ![l] = None]
        /\ UNCHANGED <<listed, listVersion, listNews, deletions, listTold>>
    BY <1>4 DEF CL!Arrive, CL!OnItsWay
  <2>2. /\ listLoads' \in [CL!Load -> ListLoad \cup {None}]
        /\ \A m \in CL!Load : listLoads'[m] = IF m = l THEN None ELSE listLoads[m]
    BY <2>1 DEF ConversationsInv, ConversationTypes
  <2>3. AnswersAreExact'
    BY <2>1, <2>2, ConversationNames DEF ConversationsInv, AnswersAreExact, Exact
  <2>4. CASE listLoads[l] = CL!Failed
    <3>1. listError' /\ UNCHANGED <<conversations, listOvertaken>>
      BY <1>4, <2>4 DEF CL!Arrive
    <3>2. ConversationTypes'
      BY <2>1, <2>2, <3>1 DEF ConversationsInv, ConversationTypes
    <3> QED
      BY <2>3, <3>1, <3>2 DEF ConversationsInv, ToldIsShown, MissingIsDeleted
  <2>5. CASE listLoads[l] # CL!Failed
    <3>1. listLoads[l] \in ListAnswer
      BY <2>1, <2>5 DEF ConversationsInv, ConversationTypes, ListLoad
    <3>2. /\ conversations' = listLoads[l] /\ listError' = listError
          /\ listOvertaken' = (listOvertaken \/ listLoads[l].asOf < conversations.asOf)
      BY <1>4, <2>5 DEF CL!Arrive, CL!Replace
    <3>3. Exact(listLoads[l])
      BY <3>1 DEF ConversationsInv, AnswersAreExact
    <3>4. ConversationTypes'
      BY <2>1, <2>2, <3>1, <3>2, <3>3 DEF ConversationsInv, ConversationTypes, Exact
    <3>5. ToldIsShown'
      <4>1. CASE Telling(l)
        BY <2>1, <3>1, <3>2, <4>1 DEF ToldIsShown, Telling
      <4>2. CASE \E m \in CL!Load : m # l /\ Telling(m)
        BY <2>1, <2>2, <4>2 DEF ToldIsShown, Telling
      <4>3. CASE conversations.asOf >= listTold
        <5>1. listLoads[l].asOf \in Nat /\ conversations.asOf \in Nat /\ listTold \in Nat
          BY <3>1, ConversationNumbers
        <5>2. listLoads[l].asOf < conversations.asOf \/ listLoads[l].asOf >= listTold
          BY <4>3, <5>1
        <5> QED
          BY <2>1, <3>2, <5>2 DEF ToldIsShown
      <4>4. CASE listError \/ listOvertaken
        BY <3>2, <4>4 DEF ToldIsShown
      <4> QED
        BY <4>1, <4>2, <4>3, <4>4 DEF ConversationsInv, ToldIsShown
    <3>6. MissingIsDeleted'
      BY <2>1, <3>2, <3>3 DEF MissingIsDeleted, Exact
    <3> QED
      BY <2>3, <3>4, <3>5, <3>6 DEF ConversationsInv
  <2> QED
    BY <2>4, <2>5
<1>5. ASSUME NEW c \in Conversation, CL!Press(c) PROVE ConversationsInv'
  <2> DEFINE new == [step |-> "question", previous |-> conversations]
  <2>1. new \in Deletion /\ new.previous = conversations /\ new.step = "question"
    BY DEF Deletion, ConversationsInv, ConversationTypes
  <2>2. /\ deletions[c] = None /\ deletions' = [deletions EXCEPT ![c] = new]
        /\ UNCHANGED <<listed, listVersion, listNews, conversations, listError, listLoads,
                       listTold, listOvertaken>>
    BY <1>5 DEF CL!Press
  <2> HIDE DEF new
  <2>3. /\ deletions' \in [Conversation -> Deletion \cup {None}]
        /\ \A d \in Conversation : deletions'[d] = IF d = c THEN new ELSE deletions[d]
    BY <2>1, <2>2 DEF ConversationsInv, ConversationTypes
  <2>4. ConversationTypes'
    BY <2>2, <2>3 DEF ConversationsInv, ConversationTypes
  <2>5. AnswersAreExact'
    BY <2>1, <2>2, <2>3, ConversationNumbers DEF ConversationsInv, AnswersAreExact, Exact
  <2>6. ToldIsShown'
    BY <2>2 DEF ConversationsInv, ToldIsShown, Telling
  <2>7. MissingIsDeleted'
    BY <2>2, <2>3 DEF ConversationsInv, MissingIsDeleted, CL!At
  <2> QED
    BY <2>4, <2>5, <2>6, <2>7 DEF ConversationsInv
<1>6. ASSUME NEW c \in Conversation, CL!Decide(c) PROVE ConversationsInv'
  <2>1. /\ deletions[c] # None /\ deletions[c].step = "question"
        /\ UNCHANGED <<listed, listVersion, listNews, listError, listLoads, listTold, listOvertaken>>
    BY <1>6 DEF CL!Decide, CL!At
  <2>2. CASE deletions' = [deletions EXCEPT ![c] = None] /\ UNCHANGED conversations
    <3>1. /\ deletions' \in [Conversation -> Deletion \cup {None}]
          /\ \A d \in Conversation : deletions'[d] = IF d = c THEN None ELSE deletions[d]
      BY <2>2 DEF ConversationsInv, ConversationTypes
    <3>2. ConversationTypes'
      BY <2>1, <2>2, <3>1 DEF ConversationsInv, ConversationTypes
    <3>3. AnswersAreExact'
      BY <2>1, <3>1 DEF ConversationsInv, AnswersAreExact, Exact
    <3>4. ToldIsShown'
      BY <2>1, <2>2 DEF ConversationsInv, ToldIsShown, Telling
    <3>5. MissingIsDeleted'
      BY <2>1, <2>2, <3>1 DEF ConversationsInv, MissingIsDeleted, CL!At
    <3> QED
      BY <3>2, <3>3, <3>4, <3>5 DEF ConversationsInv
  <2>3. CASE /\ deletions' = [deletions EXCEPT ![c].step = "asked"]
             /\ conversations' = [conversations EXCEPT !.rows = @ \ {c}]
    <3>1. /\ deletions' \in [Conversation -> Deletion \cup {None}] /\ CL!At(c, "asked")'
          /\ \A d \in Conversation : deletions'[d] # None =>
                deletions[d] # None /\ deletions'[d].previous = deletions[d].previous
      BY <2>1, <2>3, DeletionMoves
    <3>2. conversations' \in ListAnswer /\ conversations'.asOf = conversations.asOf
      BY <2>3 DEF ConversationsInv, ConversationTypes, ListAnswer
    <3>3. ConversationTypes'
      BY <2>1, <3>1, <3>2 DEF ConversationsInv, ConversationTypes
    <3>4. AnswersAreExact'
      BY <2>1, <3>1 DEF ConversationsInv, AnswersAreExact, Exact
    <3>5. ToldIsShown'
      BY <2>1, <3>2 DEF ConversationsInv, ToldIsShown, Telling
    <3>6. MissingIsDeleted'
      BY <3>1 DEF MissingIsDeleted
    <3> QED
      BY <3>3, <3>4, <3>5, <3>6 DEF ConversationsInv
  <2> QED
    BY <1>6, <2>2, <2>3 DEF CL!Decide
<1>7. ASSUME NEW c \in Conversation, CL!Delete(c) PROVE ConversationsInv'
  <2>1. /\ deletions[c] # None
        /\ UNCHANGED <<conversations, listLoading, listError, listLoads, listTold, listOvertaken>>
    BY <1>7 DEF CL!Delete, CL!At
  <2>2. PICK step \in {"done", "failed"} :
            /\ deletions' = [deletions EXCEPT ![c].step = step]
            /\ CL!Changed(listed \ {c}) \/ (step = "failed" /\ UNCHANGED <<listed, gone, listVersion, listNews>>)
    BY <1>7 DEF CL!Delete
  <2>3. /\ deletions' \in [Conversation -> Deletion \cup {None}] /\ CL!At(c, step)'
        /\ \A d \in Conversation : deletions'[d] # None =>
              deletions[d] # None /\ deletions'[d].previous = deletions[d].previous
    BY <2>1, <2>2, DeletionMoves
  <2>4. CASE CL!Changed(listed \ {c})
    <3>1. listed \ {c} \in SUBSET Conversation
      BY DEF ConversationsInv, ConversationTypes
    <3> QED
      BY <2>1, <2>3, <2>4, <3>1, ConversationsChanged
  <2>5. CASE step = "failed" /\ UNCHANGED <<listed, gone, listVersion, listNews>>
    <3>1. ConversationTypes'
      BY <2>1, <2>3, <2>5 DEF ConversationsInv, ConversationTypes
    <3>2. AnswersAreExact'
      BY <2>1, <2>3, <2>5 DEF ConversationsInv, AnswersAreExact, Exact
    <3>3. ToldIsShown'
      BY <2>1 DEF ConversationsInv, ToldIsShown, Telling
    <3>4. MissingIsDeleted'
      BY <2>3, <2>5 DEF MissingIsDeleted
    <3> QED
      BY <3>1, <3>2, <3>3, <3>4 DEF ConversationsInv
  <2> QED
    BY <2>2, <2>4, <2>5
<1>8. ASSUME NEW c \in Conversation, CL!Removed(c) PROVE ConversationsInv'
  <2>1. /\ deletions[c] # None /\ deletions' = [deletions EXCEPT ![c] = None]
        /\ UNCHANGED <<listed, listVersion, listNews, listLoads, listTold>>
    BY <1>8 DEF CL!Removed, CL!At
  <2>2. /\ deletions' \in [Conversation -> Deletion \cup {None}]
        /\ \A d \in Conversation : deletions'[d] = IF d = c THEN None ELSE deletions[d]
    BY <2>1 DEF ConversationsInv, ConversationTypes
  <2>3. AnswersAreExact'
    BY <2>1, <2>2 DEF ConversationsInv, AnswersAreExact, Exact
  <2>4. CASE CL!At(c, "failed")
    <3>1. conversations' = deletions[c].previous /\ listError'
      BY <1>8, <2>4 DEF CL!Removed, CL!Replace
    <3>2. conversations' \in ListAnswer /\ conversations'.asOf <= listVersion
      BY <2>1, <3>1, ConversationNumbers DEF ConversationsInv, AnswersAreExact
    <3>3. ConversationTypes'
      BY <2>1, <2>2, <3>2 DEF ConversationsInv, ConversationTypes
    <3> QED
      BY <2>3, <3>1, <3>3 DEF ConversationsInv, ToldIsShown, MissingIsDeleted
  <2>5. CASE ~CL!At(c, "failed")
    <3>1. CL!At(c, "done") /\ UNCHANGED <<conversations, listError, listOvertaken>>
      BY <1>8, <2>5 DEF CL!Removed
    <3>2. ConversationTypes'
      BY <2>1, <2>2, <3>1 DEF ConversationsInv, ConversationTypes
    <3>3. ToldIsShown'
      BY <2>1, <3>1 DEF ConversationsInv, ToldIsShown, Telling
    <3>4. \A d \in Conversation : CL!At(d, "asked") \/ CL!At(d, "failed") => d # c
      BY <3>1 DEF CL!At
    <3>5. MissingIsDeleted'
      BY <2>1, <2>2, <3>1, <3>4 DEF ConversationsInv, MissingIsDeleted, CL!At
    <3> QED
      BY <2>3, <3>2, <3>3, <3>5 DEF ConversationsInv
  <2> QED
    BY <2>4, <2>5
<1>9. ASSUME NEW c \in Conversation, CL!Elsewhere(c) PROVE ConversationsInv'
  <2>1. PICK rows2 \in SUBSET Conversation : CL!Changed(rows2)
    BY <1>9 DEF CL!Elsewhere, ConversationsInv, ConversationTypes
  <2>2. UNCHANGED <<conversations, listLoading, listError, listLoads, deletions, listTold, listOvertaken>>
    BY <1>9 DEF CL!Elsewhere
  <2> QED
    BY <2>1, <2>2, ConversationsChanged DEF ConversationsInv, ConversationTypes
<1>10. CASE UNCHANGED cl
  BY <1>10 DEF cl, ConversationsInv, ConversationTypes, AnswersAreExact, Exact, ToldIsShown,
     Telling, MissingIsDeleted, CL!At
<1> QED
  BY <1>1, <1>2, <1>3, <1>4, <1>5, <1>6, <1>7, <1>8, <1>9, <1>10 DEF CL!ConversationListNext

\* At rest no load is on its way and no deletion either.
LEMMA ConversationsShown == ConversationsInv => CL!ListIsWhatWasTold
<1> SUFFICES ASSUME ConversationsInv, CL!AtRest
             PROVE  \/ listError \/ listOvertaken
                    \/ /\ conversations.asOf >= listTold
                       /\ conversations.asOf = listVersion => conversations.rows = listed
  BY DEF CL!ListIsWhatWasTold
<1>1. (\A l \in CL!Load : listLoads[l] = None) /\ \A c \in Conversation : deletions[c] = None
  BY DEF CL!AtRest
<1> QED
  BY <1>1 DEF ConversationsInv, ToldIsShown, Telling, MissingIsDeleted, CL!At

-------------------------------------------------------------------------------
(* Establishments *)

\* The statements of a call are neither its beginning nor its end.
LEMMA Paths ==
    \A c \in EstablishmentCalls :
        /\ PathOf(c.op) \subseteq Statement \ {"idle", "done"}
        /\ ER!FirstStep(c.op) \in PathOf(c.op) \cap {"check", "fetch", "resolve"}
<1> SUFFICES ASSUME NEW c \in EstablishmentCalls
             PROVE  /\ PathOf(c.op) \subseteq Statement \ {"idle", "done"}
                    /\ ER!FirstStep(c.op) \in PathOf(c.op) \cap {"check", "fetch", "resolve"}
  OBVIOUS
<1>1. c.op \in {"create", "update", "delete", "activity"}
  BY CallsAssumption
<1>2. CASE c.op = "create"
  BY <1>2 DEF PathOf, ER!FirstStep, Statement
<1>3. CASE c.op = "update"
  BY <1>3 DEF PathOf, ER!FirstStep, Statement
<1>4. CASE c.op = "delete"
  BY <1>4 DEF PathOf, ER!FirstStep, Statement
<1>5. CASE c.op = "activity"
  BY <1>5 DEF PathOf, ER!FirstStep, Statement
<1> QED
  BY <1>1, <1>2, <1>3, <1>4, <1>5

\* Which call a handler runs tells the statement it is at.
LEMMA AtStatement ==
    ASSUME EstablishmentsInv, NEW r \in ER!Request, pc[r] \notin {"idle", "done"}
    PROVE  /\ call[r] \in EstablishmentCalls /\ call[r] # None
           /\ pc[r] \in PathOf(call[r].op)
           /\ pc[r] \in {"check", "insert"} => call[r].op = "create"
           /\ pc[r] = "update" => call[r].op = "update"
           /\ pc[r] = "fetch" => call[r].op \in {"update", "delete"}
           /\ pc[r] = "geocode" => call[r].op \in {"create", "update"}
           /\ pc[r] = "delete" => call[r].op = "delete"
           /\ pc[r] \in {"resolve", "activity"} => call[r].op = "activity"
           /\ call[r].op \in {"update", "delete"} => call[r].row \in ER!Request
<1>1. call[r] # None /\ call[r] \in EstablishmentCalls /\ pc[r] \in PathOf(call[r].op)
  BY DEF EstablishmentsInv, EstablishmentTypes, CallsKeepTheirPath
<1>2. call[r].op \in {"create", "update", "delete", "activity"}
  BY <1>1, CallsAssumption
<1>3. call[r].op \in {"update", "delete"} => call[r].row \in ER!Request
  BY <1>1, CallsAssumption DEF ER!Request
<1>4. CASE call[r].op = "create"
  BY <1>1, <1>4 DEF PathOf
<1>5. CASE call[r].op = "update"
  BY <1>1, <1>3, <1>5 DEF PathOf
<1>6. CASE call[r].op = "delete"
  BY <1>1, <1>3, <1>6 DEF PathOf
<1>7. CASE call[r].op = "activity"
  BY <1>1, <1>7 DEF PathOf
<1> QED
  BY <1>2, <1>4, <1>5, <1>6, <1>7

\* A handler goes on to a statement of its path.
GoesOn(r, step) ==
    /\ ER!Goto(r, step) /\ step \in PathOf(call[r].op) /\ UNCHANGED reply
Ends(r) == \E answer \in Reply : ER!End(r, answer)

\* A handler that is sent to a statement of its path goes on.
LEMMA GoingOn ==
    ASSUME EstablishmentsInv, NEW r \in ER!Request, NEW step, ER!Goto(r, step),
           step \in PathOf(call[r].op), pc[r] \notin {"idle", "done"}, UNCHANGED reply
    PROVE  step \in Statement /\ GoesOn(r, step) /\ pc'[r] = step
<1>1. step \in Statement
  BY AtStatement, Paths
<1> QED
  BY <1>1 DEF GoesOn, ER!Goto, EstablishmentsInv, EstablishmentTypes

\* A handler that goes on or ends leaves the others where they are, and takes nothing
\* back.
LEMMA HandlerMoves ==
    ASSUME EstablishmentsInv, NEW r \in ER!Request, pc[r] \notin {"idle", "done"},
           UNCHANGED call,
           Ends(r) \/ \E step \in Statement : GoesOn(r, step) /\ pc[r] # "read"
    PROVE  /\ pc' \in [ER!Request -> Statement] /\ reply' \in [ER!Request -> Reply \cup {None}]
           /\ \A q \in ER!Request : q # r => pc'[q] = pc[q]
           /\ CallsKeepTheirPath'
           /\ \A u : \A e \in ER!Request : Made(e, u) => Made(e, u)'
<1> USE DEF ER!Goto, ER!End
<1>1. /\ call[r] \in EstablishmentCalls /\ call[r] # None
      /\ pc \in [ER!Request -> Statement] /\ reply \in [ER!Request -> Reply \cup {None}]
  BY AtStatement DEF EstablishmentsInv, EstablishmentTypes
<1>2. CASE Ends(r)
  <2>1. PICK answer \in Reply : ER!End(r, answer)
    BY <1>2 DEF Ends
  <2>2. /\ \A q \in ER!Request : pc'[q] = IF q = r THEN "done" ELSE pc[q]
        /\ \A q \in ER!Request : reply'[q] = IF q = r THEN answer ELSE reply[q]
        /\ pc' \in [ER!Request -> Statement] /\ reply' \in [ER!Request -> Reply \cup {None}]
    <3>1. pc' = [pc EXCEPT ![r] = "done"] /\ reply' = [reply EXCEPT ![r] = answer]
      BY <2>1
    <3>2. "done" \in Statement
      BY DEF Statement
    <3>3. pc' \in [ER!Request -> Statement] /\ reply' \in [ER!Request -> Reply \cup {None}]
      BY <1>1, <3>1, <3>2
    <3>4. \A q \in ER!Request : pc'[q] = IF q = r THEN "done" ELSE pc[q]
      BY <1>1, <3>1
    <3>5. \A q \in ER!Request : reply'[q] = IF q = r THEN answer ELSE reply[q]
      BY <1>1, <3>1
    <3> QED
      BY <3>3, <3>4, <3>5
  <2>3. CallsKeepTheirPath'
    BY <1>1, <2>2, NoneAssumption DEF EstablishmentsInv, CallsKeepTheirPath
  <2>4. \A u : \A e \in ER!Request : Made(e, u) => Made(e, u)'
    BY <2>2 DEF Made
  <2> QED
    BY <2>2, <2>3, <2>4
<1>3. CASE \E step \in Statement : GoesOn(r, step) /\ pc[r] # "read"
  <2>1. PICK step \in Statement : GoesOn(r, step) /\ pc[r] # "read"
    BY <1>3
  <2>2. /\ \A q \in ER!Request : pc'[q] = IF q = r THEN step ELSE pc[q]
        /\ pc' \in [ER!Request -> Statement] /\ reply' = reply
    BY <1>1, <2>1 DEF GoesOn
  <2>3. step \in PathOf(call[r].op) /\ step \notin {"idle", "done"}
    BY <1>1, <2>1, Paths DEF GoesOn
  <2>4. CallsKeepTheirPath'
    BY <1>1, <2>2, <2>3 DEF EstablishmentsInv, CallsKeepTheirPath
  <2>5. \A u : \A e \in ER!Request : Made(e, u) => Made(e, u)'
    BY <2>1, <2>2 DEF Made
  <2> QED
    BY <1>1, <2>2, <2>4, <2>5
<1> QED
  BY <1>2, <1>3

\* A step of a handler that leaves the tables alone, and holds what it may.
LEMMA TablesStay ==
    ASSUME EstablishmentsInv, NEW r \in ER!Request, pc[r] \notin {"idle", "done"},
           UNCHANGED <<establishments, attached, ign, served, call>>,
           Ends(r) \/ \E step \in Statement : GoesOn(r, step) /\ pc[r] # "read",
           place' = [place EXCEPT ![r] = place'[r]], Held(r)'
    PROVE  EstablishmentsInv'
<1>1. /\ pc' \in [ER!Request -> Statement] /\ reply' \in [ER!Request -> Reply \cup {None}]
      /\ \A q \in ER!Request : q # r => pc'[q] = pc[q]
      /\ CallsKeepTheirPath'
      /\ \A u : \A e \in ER!Request : Made(e, u) => Made(e, u)'
  BY HandlerMoves
<1>2. /\ place' = [q \in ER!Request |-> place'[q]]
      /\ \A q \in ER!Request : q # r => place'[q] = place[q]
  BY DEF EstablishmentsInv, EstablishmentTypes
<1>3. EstablishmentTypes'
  BY <1>1, <1>2 DEF EstablishmentsInv, EstablishmentTypes, ER!Answers
<1>4. HeldWasServed'
  BY <1>1, <1>2 DEF EstablishmentsInv, HeldWasServed, Held
<1>5. RowsWereMade'
  BY <1>1 DEF EstablishmentsInv, RowsWereMade, ER!Stored
<1>6. ER!AddressesWereServed'
  BY DEF EstablishmentsInv, ER!AddressesWereServed, ER!Stored
<1>7. ER!TypeOK'
  BY <1>1 DEF EstablishmentsInv, ER!Consistent, ER!TypeOK, CallsKeepTheirPath, ER!Stored
<1>8. ER!Consistent'
  BY <1>7 DEF EstablishmentsInv, ER!Consistent, ER!Stored, ER!OwnedBy
<1> QED
  BY <1>1, <1>3, <1>4, <1>5, <1>6, <1>8 DEF EstablishmentsInv

\* The two parts of Consistent beside the types.
OneEach ==
    \A e, f \in ER!Request : (ER!Stored(e) /\ ER!Stored(f) /\ e # f) =>
        establishments[e].owner # establishments[f].owner
AttachedToOwn ==
    \A a \in ER!Request : (attached[a] # None /\ attached[a].from # None) =>
        attached[a].from \in ER!OwnedBy(attached[a].owner)

\* The last writing of a handler, which holds nothing any more.
LEMMA TablesChange ==
    ASSUME EstablishmentsInv, NEW r \in ER!Request, pc[r] \notin {"idle", "done"},
           UNCHANGED <<ign, served, call, place>>,
           Ends(r) \/ \E step \in Statement : GoesOn(r, step) /\ pc[r] # "read",
           pc'[r] \in {"read", "done"},
           establishments' \in [ER!Request -> EstablishmentRow \cup {None}],
           attached' \in [ER!Request -> ActivityRow \cup {None}],
           RowsWereMade', ER!AddressesWereServed', OneEach', AttachedToOwn'
    PROVE  EstablishmentsInv'
<1>1. /\ pc' \in [ER!Request -> Statement] /\ reply' \in [ER!Request -> Reply \cup {None}]
      /\ \A q \in ER!Request : q # r => pc'[q] = pc[q]
      /\ CallsKeepTheirPath'
      /\ \A u : \A e \in ER!Request : Made(e, u) => Made(e, u)'
  BY HandlerMoves
<1>2. EstablishmentTypes'
  BY <1>1 DEF EstablishmentsInv, EstablishmentTypes, ER!Answers
<1>3. HeldWasServed'
  BY <1>1 DEF EstablishmentsInv, HeldWasServed, Held
<1>4. ER!TypeOK'
  BY <1>1, <1>2 DEF ER!TypeOK, EstablishmentTypes, EstablishmentRow, ActivityRow,
     CallsKeepTheirPath, ER!Stored
<1>5. ER!Consistent'
  BY <1>4 DEF ER!Consistent, OneEach, AttachedToOwn
<1> QED
  BY <1>1, <1>2, <1>3, <1>5 DEF EstablishmentsInv

\* No request has arrived at first.
LEMMA EstablishmentsInitially ==
    ER!Init => EstablishmentsInv
<1> SUFFICES ASSUME ER!Init PROVE EstablishmentsInv
  OBVIOUS
<1>1. \A r \in ER!Request : /\ ~ER!Stored(r) /\ attached[r] = None /\ call[r] = None
                            /\ pc[r] = "idle" /\ reply[r] = None /\ place[r] = None
  BY DEF ER!Init, ER!Stored
<1>2. EstablishmentTypes
  <2>1. /\ establishments \in [ER!Request -> EstablishmentRow \cup {None}]
        /\ attached \in [ER!Request -> ActivityRow \cup {None}]
        /\ call \in [ER!Request -> EstablishmentCalls \cup {None}]
        /\ reply \in [ER!Request -> Reply \cup {None}]
    BY DEF ER!Init
  <2>2. pc \in [ER!Request -> Statement]
    BY DEF ER!Init, Statement
  <2>3. place = [r \in ER!Request |-> place[r]]
    BY DEF ER!Init
  <2>4. ign \in [Place -> Label] /\ served = ER!Answers
    BY LabelAssumption DEF ER!Init
  <2> QED
    BY <2>1, <2>2, <2>3, <2>4 DEF EstablishmentTypes, ER!Answers
<1>3. CallsKeepTheirPath /\ HeldWasServed /\ RowsWereMade
  BY <1>1 DEF CallsKeepTheirPath, HeldWasServed, Held, RowsWereMade
<1>4. ER!Consistent /\ ER!AddressesWereServed
  BY <1>1, <1>2 DEF ER!Consistent, ER!TypeOK, ER!AddressesWereServed, EstablishmentTypes
<1> QED
  BY <1>2, <1>3, <1>4 DEF EstablishmentsInv

\* Each step of the establishments keeps their invariant.
LEMMA EstablishmentsStep ==
    ASSUME EstablishmentsInv, [ER!Next]_er
    PROVE  EstablishmentsInv'
<1> USE DEF ER!tables, ER!geocoder, ER!handlers
<1>1. /\ establishments \in [ER!Request -> EstablishmentRow \cup {None}]
      /\ place = [r \in ER!Request |-> place[r]]
  BY DEF EstablishmentsInv, EstablishmentTypes
<1>2. \A r \in ER!Request : ER!Stored(r) => establishments[r] \in EstablishmentRow
  BY <1>1 DEF ER!Stored
<1>3. \A r \in ER!Request : Held(r)
  BY DEF EstablishmentsInv, HeldWasServed
<1>4. ASSUME NEW r \in ER!Request, NEW c \in EstablishmentCalls, ER!Start(r, c)
      PROVE  EstablishmentsInv'
  <2>1. /\ pc[r] = "idle" /\ call' = [call EXCEPT ![r] = c]
        /\ pc' = [pc EXCEPT ![r] = ER!FirstStep(c.op)]
        /\ UNCHANGED <<establishments, attached, ign, served, reply, place>>
    BY <1>4 DEF ER!Start, ER!Goto
  <2>2. ER!FirstStep(c.op) \in PathOf(c.op) \cap {"check", "fetch", "resolve"} /\ c # None
    BY Paths, NoneAssumption
  <2>3. /\ call' \in [ER!Request -> EstablishmentCalls \cup {None}]
        /\ pc' \in [ER!Request -> Statement]
        /\ \A q \in ER!Request : call'[q] = IF q = r THEN c ELSE call[q]
        /\ \A q \in ER!Request : pc'[q] = IF q = r THEN ER!FirstStep(c.op) ELSE pc[q]
    <3>1. /\ call \in [ER!Request -> EstablishmentCalls \cup {None}]
          /\ pc \in [ER!Request -> Statement] /\ ER!FirstStep(c.op) \in Statement
      BY Paths DEF EstablishmentsInv, EstablishmentTypes
    <3>2. call' \in [ER!Request -> EstablishmentCalls \cup {None}] /\ pc' \in [ER!Request -> Statement]
      BY <2>1, <3>1
    <3>3. \A q \in ER!Request : call'[q] = IF q = r THEN c ELSE call[q]
      BY <2>1, <3>1
    <3>4. \A q \in ER!Request : pc'[q] = IF q = r THEN ER!FirstStep(c.op) ELSE pc[q]
      BY <2>1, <3>1
    <3> QED
      BY <3>2, <3>3, <3>4
  <2>4. EstablishmentTypes'
    BY <2>1, <2>3 DEF EstablishmentsInv, EstablishmentTypes, ER!Answers
  <2>5. CallsKeepTheirPath'
    BY <2>1, <2>2, <2>3 DEF EstablishmentsInv, CallsKeepTheirPath
  <2>6. \A u : \A e \in ER!Request : Made(e, u) => Made(e, u)'
    BY <2>1, <2>3 DEF Made
  <2>7. Held(r)'
    BY <1>3, <2>1, <2>2, <2>3 DEF Held
  <2>8. ASSUME NEW q \in ER!Request, q # r PROVE Held(q)'
    BY <1>3, <2>1, <2>3, <2>6, <2>8 DEF Held
  <2>9. HeldWasServed' /\ RowsWereMade'
    BY <2>1, <2>6, <2>7, <2>8 DEF EstablishmentsInv, HeldWasServed, RowsWereMade, ER!Stored
  <2>10. ER!AddressesWereServed'
    BY <2>1 DEF EstablishmentsInv, ER!AddressesWereServed, ER!Stored
  <2>11. ER!Consistent'
    BY <2>1, <2>5 DEF EstablishmentsInv, ER!Consistent, ER!TypeOK, CallsKeepTheirPath,
       ER!Stored, ER!OwnedBy
  <2> QED
    BY <2>4, <2>5, <2>9, <2>10, <2>11 DEF EstablishmentsInv
<1>5. ASSUME NEW r \in ER!Request, pc[r] \notin {"idle", "done"}, Ends(r),
             UNCHANGED <<establishments, attached, ign, served, call, place>>
      PROVE  EstablishmentsInv'
  <2>1. pc'[r] = "done" /\ place' = [place EXCEPT ![r] = place'[r]]
    BY <1>1, <1>5 DEF Ends, ER!End, ER!Goto, EstablishmentsInv, EstablishmentTypes
  <2> QED
    BY <1>5, <2>1, TablesStay DEF Held
<1>6. ASSUME NEW r \in ER!Request, NEW step \in Statement, GoesOn(r, step),
             pc[r] \notin {"idle", "done", "read"},
             UNCHANGED <<establishments, attached, ign, served, call>>,
             place' = [place EXCEPT ![r] = place'[r]],
             Held(r)'
      PROVE  EstablishmentsInv'
  BY <1>6, TablesStay
<1>7. ASSUME NEW r \in ER!Request, ER!CheckNone(r) PROVE EstablishmentsInv'
  <2>1. pc[r] = "check" /\ place[r] = None
    BY <1>3, <1>7 DEF ER!CheckNone, ER!Step, Held
  <2>2. UNCHANGED <<establishments, attached, ign, served, call, place>>
    BY <1>7 DEF ER!CheckNone
  <2>3. CASE ER!Goto(r, "geocode") /\ UNCHANGED reply
    <3>1. "geocode" \in Statement /\ GoesOn(r, "geocode") /\ pc'[r] = "geocode"
      BY <2>1, <2>3, AtStatement, GoingOn DEF PathOf
    <3>2. place' = [place EXCEPT ![r] = place'[r]] /\ place'[r] = None
      BY <1>1, <2>1, <2>2
    <3>3. Held(r)'
      BY <3>1, <3>2 DEF Held
    <3> QED
      BY <1>6, <2>1, <2>2, <3>1, <3>2, <3>3
  <2>4. CASE ER!End(r, "ESTABLISHMENT_EXISTS")
    BY <1>5, <2>1, <2>2, <2>4 DEF Ends, Reply
  <2> QED
    BY <1>7, <2>3, <2>4 DEF ER!CheckNone
<1>8. ASSUME NEW r \in ER!Request, ER!CheckOwner(r) PROVE EstablishmentsInv'
  <2>1. pc[r] = "fetch" /\ place[r] = None
    BY <1>3, <1>8 DEF ER!CheckOwner, Held
  <2>2. UNCHANGED <<establishments, attached, ign, served, call, place>>
    BY <1>8 DEF ER!CheckOwner
  <2>3. CASE ER!End(r, "NOT_FOUND") \/ ER!End(r, "FORBIDDEN")
    BY <1>5, <2>1, <2>2, <2>3 DEF Ends, Reply
  <2>4. ASSUME NEW step \in {"delete", "update", "geocode"}, ER!Goto(r, step), UNCHANGED reply,
               step = "delete" <=> call[r].op = "delete"
        PROVE  EstablishmentsInv'
    <3>1. step \in PathOf(call[r].op)
      BY <2>1, <2>4, AtStatement DEF PathOf
    <3>2. step \in Statement /\ GoesOn(r, step) /\ pc'[r] = step
      BY <2>1, <2>4, <3>1, GoingOn
    <3>3. place' = [place EXCEPT ![r] = place'[r]] /\ place'[r] = None
      BY <1>1, <2>1, <2>2
    <3>4. Held(r)'
      BY <2>4, <3>2, <3>3 DEF Held
    <3> QED
      BY <1>6, <2>1, <2>2, <3>2, <3>3, <3>4
  <2>5. CASE /\ ER!Goto(r, IF call[r].op = "delete" THEN "delete"
                           ELSE IF call[r].sent = None THEN "update" ELSE "geocode")
             /\ UNCHANGED reply
    BY <2>4, <2>5
  <2> QED
    BY <1>8, <2>3, <2>5 DEF ER!CheckOwner
<1>9. ASSUME NEW r \in ER!Request, ER!Resolve(r) PROVE EstablishmentsInv'
  <2>1. pc[r] = "geocode" /\ UNCHANGED <<establishments, attached, ign, served, call>>
    BY <1>9 DEF ER!Resolve
  <2>2. CASE \E answer \in {"ADDRESS_NOT_FOUND", "GEOPLATFORM_UNAVAILABLE"} :
                ER!End(r, answer) /\ UNCHANGED place
    BY <1>5, <2>1, <2>2 DEF Ends, Reply
  <2>3. ASSUME NEW a \in ER!Resolved(call[r].sent), place' = [place EXCEPT ![r] = a],
               NEW step \in {"insert", "update"}, ER!Goto(r, step), UNCHANGED reply,
               step = "insert" <=> call[r].op = "create"
        PROVE  EstablishmentsInv'
    <3>1. a \in served
      BY DEF ER!Resolved, EstablishmentsInv, EstablishmentTypes
    <3>2. step \in PathOf(call[r].op)
      BY <2>1, <2>3, AtStatement DEF PathOf
    <3>3. step \in Statement /\ GoesOn(r, step) /\ pc'[r] = step
      BY <2>1, <2>3, <3>2, GoingOn
    <3>4. place' = [place EXCEPT ![r] = place'[r]] /\ place'[r] = a
      BY <1>1, <2>3
    <3>5. Held(r)'
      BY <2>1, <2>3, <3>1, <3>3, <3>4 DEF Held
    <3> QED
      BY <1>6, <2>1, <3>3, <3>4, <3>5
  <2>4. CASE \E a \in ER!Resolved(call[r].sent) :
                /\ place' = [place EXCEPT ![r] = a]
                /\ ER!Goto(r, IF call[r].op = "create" THEN "insert" ELSE "update")
                /\ UNCHANGED reply
    BY <2>3, <2>4
  <2> QED
    BY <1>9, <2>2, <2>4 DEF ER!Resolve
<1>10. ASSUME NEW r \in ER!Request, ER!ReadBack(r) PROVE EstablishmentsInv'
  <2>1. pc[r] = "read" /\ UNCHANGED <<establishments, attached, ign, served, call, place>>
    BY <1>10 DEF ER!ReadBack
  <2>2. Ends(r)
    BY <1>10 DEF ER!ReadBack, Ends, Reply
  <2> QED
    BY <1>5, <2>1, <2>2
<1>11. ASSUME NEW r \in ER!Request, ER!FindEstablishment(r) PROVE EstablishmentsInv'
  <2>1. pc[r] = "resolve" /\ UNCHANGED <<establishments, attached, ign, served, call>>
    BY <1>11 DEF ER!FindEstablishment, ER!Step
  <2>2. CASE ER!End(r, "ESTABLISHMENT_REQUIRED") /\ UNCHANGED place
    BY <1>5, <2>1, <2>2 DEF Ends, Reply
  <2>3. ASSUME NEW e \in ER!OwnedBy(call[r].by),
               place' = [place EXCEPT ![r] = [from |-> e, address |-> establishments[e].address]],
               ER!Goto(r, "activity"), UNCHANGED reply
        PROVE  EstablishmentsInv'
    <3>1. e \in ER!Request /\ ER!Stored(e) /\ establishments[e].owner = call[r].by
      BY DEF ER!OwnedBy
    <3>2. establishments[e].address \in served /\ Made(e, call[r].by)
      BY <3>1 DEF EstablishmentsInv, ER!AddressesWereServed, RowsWereMade
    <3>3. "activity" \in Statement /\ GoesOn(r, "activity") /\ pc'[r] = "activity"
      BY <2>1, <2>3, AtStatement, GoingOn DEF PathOf
    <3> DEFINE held == [from |-> e, address |-> establishments[e].address]
    <3>4. held \in [from : ER!Request, address : served] /\ held.from = e
      BY <3>1, <3>2
    <3>5. place' = [place EXCEPT ![r] = held]
      BY <2>3
    <3> HIDE DEF held
    <3>6. place' = [place EXCEPT ![r] = place'[r]] /\ place'[r] = held
      BY <1>1, <3>5
    <3>7. Made(e, call[r].by)'
      <4>1. \A u : \A f \in ER!Request : Made(f, u) => Made(f, u)'
        BY <2>1, <3>3, HandlerMoves
      <4>2. call[r]' = call[r]
        BY <2>1
      <4> QED
        BY <3>1, <3>2, <4>1, <4>2
    <3>8. Held(r)'
      BY <2>1, <3>3, <3>4, <3>6, <3>7 DEF Held
    <3> QED
      BY <1>6, <2>1, <3>3, <3>6, <3>8
  <2> QED
    BY <1>11, <2>2, <2>3 DEF ER!FindEstablishment
<1>12. ASSUME NEW r \in ER!Request, ER!Fail(r) PROVE EstablishmentsInv'
  BY <1>5, <1>12 DEF ER!Fail, Ends, Reply
<1>13. ASSUME NEW r \in ER!Request, ER!Insert(r) PROVE EstablishmentsInv'
  <2>1. pc[r] = "insert" /\ UNCHANGED <<attached, ign, served, call, place>>
    BY <1>13 DEF ER!Insert, ER!Step
  <2>2. call[r] \in EstablishmentCalls /\ call[r].op = "create" /\ call[r] # None
        /\ place[r] \in served /\ call[r].by \in Account
    BY <1>3, <2>1, AtStatement DEF Held, Account
  <2>3. CASE ER!End(r, "FAILED") /\ UNCHANGED establishments
    BY <1>5, <2>1, <2>3 DEF Ends, Reply
  <2>4. CASE ER!OrganizerFree(call[r].by)
    <3> DEFINE new == [owner |-> call[r].by, address |-> place[r]]
    <3>1. new \in EstablishmentRow /\ new.owner = call[r].by /\ new.address = place[r]
      BY <2>2 DEF EstablishmentRow, EstablishmentsInv, EstablishmentTypes
    <3>2. establishments' = [establishments EXCEPT ![r] = new]
          /\ ER!Goto(r, "read") /\ UNCHANGED reply
      BY <1>13, <2>4 DEF ER!Insert
    <3> HIDE DEF new
    <3>3. "read" \in Statement /\ GoesOn(r, "read") /\ pc'[r] = "read"
      BY <2>1, <2>2, <3>2, GoingOn DEF PathOf
    <3>4. /\ establishments' \in [ER!Request -> EstablishmentRow \cup {None}]
          /\ \A e \in ER!Request : establishments'[e] = IF e = r THEN new ELSE establishments[e]
      BY <1>1, <3>1, <3>2
    <3>5. ~ER!Stored(r)
      BY <2>1 DEF EstablishmentsInv, RowsWereMade, Made
    <3>6. \A u : \A e \in ER!Request : Made(e, u) => Made(e, u)'
      BY <2>1, <3>3, HandlerMoves
    <3>7. Made(r, call[r].by)'
      BY <2>1, <2>2, <3>3 DEF Made
    <3>8. RowsWereMade'
      BY <3>1, <3>4, <3>6, <3>7, <2>1 DEF EstablishmentsInv, RowsWereMade, ER!Stored
    <3>9. ER!AddressesWereServed'
      BY <2>1, <2>2, <3>1, <3>4 DEF EstablishmentsInv, ER!AddressesWereServed, ER!Stored
    <3>10. \A e \in ER!Request : ER!Stored(e) => establishments[e].owner # call[r].by
      BY <2>4 DEF ER!OrganizerFree, ER!OwnedBy
    <3>11. OneEach'
      BY <3>1, <3>4, <3>10 DEF EstablishmentsInv, ER!Consistent, OneEach, ER!Stored
    <3>12. AttachedToOwn'
      BY <2>1, <3>4, <3>5 DEF EstablishmentsInv, ER!Consistent, AttachedToOwn, ER!OwnedBy, ER!Stored
    <3> QED
      BY <2>1, <3>3, <3>4, <3>8, <3>9, <3>11, <3>12, TablesChange
         DEF EstablishmentsInv, EstablishmentTypes
  <2> QED
    BY <1>13, <2>3, <2>4 DEF ER!Insert
<1>14. ASSUME NEW r \in ER!Request, ER!Update(r) PROVE EstablishmentsInv'
  <2> DEFINE e == call[r].row
  <2>1. /\ pc[r] = "update" /\ ER!Goto(r, "read")
        /\ UNCHANGED <<attached, ign, served, call, reply, place>>
    BY <1>14 DEF ER!Update
  <2>2. call[r] \in EstablishmentCalls /\ call[r].op = "update" /\ e \in ER!Request
        /\ place[r] \in served \cup {None}
    BY <1>3, <2>1, AtStatement DEF Held
  <2>3. "read" \in Statement /\ GoesOn(r, "read") /\ pc'[r] = "read"
    BY <2>1, <2>2, GoingOn DEF PathOf
  <2>4. \A u : \A f \in ER!Request : Made(f, u) => Made(f, u)'
    BY <2>1, <2>3, HandlerMoves
  <2>5. /\ establishments' \in [ER!Request -> EstablishmentRow \cup {None}]
        /\ \A f \in ER!Request :
             /\ ER!Stored(f)' <=> ER!Stored(f)
             /\ ER!Stored(f) => /\ establishments'[f].owner = establishments[f].owner
                                /\ establishments'[f].address \in served
    <3>1. CASE ~(ER!Stored(e) /\ place[r] # None)
      <4>1. establishments' = establishments
        BY <1>14, <3>1 DEF ER!Update
      <4> QED
        BY <1>1, <4>1 DEF EstablishmentsInv, ER!AddressesWereServed, ER!Stored
    <3>2. CASE ER!Stored(e) /\ place[r] # None
      <4> DEFINE now == [establishments[e] EXCEPT !.address = place[r]]
      <4>1. now \in EstablishmentRow /\ now.owner = establishments[e].owner /\ now.address = place[r]
        BY <1>2, <2>2, <3>2 DEF EstablishmentRow, EstablishmentsInv, EstablishmentTypes
      <4>2. establishments' = [establishments EXCEPT ![e] = now]
        BY <1>14, <3>2 DEF ER!Update
      <4> HIDE DEF now, e
      <4>3. /\ establishments' \in [ER!Request -> EstablishmentRow \cup {None}]
            /\ \A f \in ER!Request : establishments'[f] = IF f = e THEN now ELSE establishments[f]
        BY <1>1, <4>1, <4>2
      <4>4. now # None
        BY <4>1, NoneAssumption
      <4> QED
        BY <2>2, <3>2, <4>1, <4>3, <4>4 DEF EstablishmentsInv, ER!AddressesWereServed, ER!Stored
    <3> QED
      BY <3>1, <3>2
  <2> HIDE DEF e
  <2>6. RowsWereMade'
    BY <2>4, <2>5 DEF EstablishmentsInv, RowsWereMade
  <2>7. ER!AddressesWereServed'
    BY <2>1, <2>5 DEF EstablishmentsInv, ER!AddressesWereServed
  <2>8. OneEach'
    BY <2>5 DEF EstablishmentsInv, ER!Consistent, OneEach
  <2>9. AttachedToOwn'
    BY <2>1, <2>5 DEF EstablishmentsInv, ER!Consistent, AttachedToOwn, ER!OwnedBy
  <2> QED
    BY <2>1, <2>3, <2>5, <2>6, <2>7, <2>8, <2>9, TablesChange
       DEF EstablishmentsInv, EstablishmentTypes
<1>15. ASSUME NEW r \in ER!Request, ER!Delete(r) PROVE EstablishmentsInv'
  <2> DEFINE e == call[r].row
  <2>1. /\ pc[r] = "delete" /\ ER!End(r, "OK")
        /\ establishments' = [establishments EXCEPT ![e] = None] /\ attached' = ER!Detached(e)
        /\ UNCHANGED <<ign, served, call, place>>
    BY <1>15 DEF ER!Delete
  <2>2. e \in ER!Request
    BY <2>1, AtStatement
  <2>3. Ends(r) /\ pc'[r] = "done"
    BY <2>1 DEF Ends, Reply, ER!End, ER!Goto, EstablishmentsInv, EstablishmentTypes
  <2> HIDE DEF e
  <2>4. \A u : \A f \in ER!Request : Made(f, u) => Made(f, u)'
    BY <2>1, <2>3, HandlerMoves
  <2>5. /\ establishments' \in [ER!Request -> EstablishmentRow \cup {None}]
        /\ \A f \in ER!Request : establishments'[f] = IF f = e THEN None ELSE establishments[f]
    BY <1>1, <2>1, <2>2
  <2>6. attached \in [ER!Request -> ActivityRow \cup {None}]
    BY DEF EstablishmentsInv, EstablishmentTypes
  <2>7. /\ attached' \in [ER!Request -> ActivityRow \cup {None}]
        /\ \A a \in ER!Request : attached'[a] # None =>
             /\ attached[a] # None /\ attached'[a].owner = attached[a].owner
             /\ attached'[a].address = attached[a].address
             /\ attached'[a].from # None =>
                    attached'[a].from = attached[a].from /\ attached[a].from # e
    <3>1. ASSUME NEW a \in ER!Request, attached[a] # None, attached[a].from = e
          PROVE  /\ [attached[a] EXCEPT !.from = None] \in ActivityRow
                 /\ [attached[a] EXCEPT !.from = None].owner = attached[a].owner
                 /\ [attached[a] EXCEPT !.from = None].address = attached[a].address
                 /\ [attached[a] EXCEPT !.from = None].from = None
      BY <2>6, <3>1 DEF ActivityRow
    <3> QED
      BY <2>1, <2>6, <3>1 DEF ER!Detached
  <2>8. RowsWereMade'
    BY <2>4, <2>5 DEF EstablishmentsInv, RowsWereMade, ER!Stored
  <2>9. ER!AddressesWereServed'
    BY <2>1, <2>5, <2>7 DEF EstablishmentsInv, ER!AddressesWereServed, ER!Stored
  <2>10. OneEach'
    BY <2>5 DEF EstablishmentsInv, ER!Consistent, OneEach, ER!Stored
  <2>11. AttachedToOwn'
    BY <2>5, <2>7 DEF EstablishmentsInv, ER!Consistent, AttachedToOwn, ER!OwnedBy, ER!Stored
  <2> QED
    BY <2>1, <2>3, <2>5, <2>7, <2>8, <2>9, <2>10, <2>11, TablesChange
<1>16. ASSUME NEW r \in ER!Request, ER!InsertActivity(r) PROVE EstablishmentsInv'
  <2>1. pc[r] = "activity" /\ UNCHANGED <<establishments, ign, served, call, place>>
    BY <1>16 DEF ER!InsertActivity, ER!Step
  <2>2. /\ place[r] \in [from : ER!Request, address : served] /\ Made(place[r].from, call[r].by)
        /\ call[r].by \in Account
    BY <1>3, <2>1, AtStatement DEF Held, Account
  <2>3. CASE ER!End(r, "FAILED") /\ UNCHANGED attached
    BY <1>5, <2>1, <2>3 DEF Ends, Reply
  <2>4. CASE ER!Stored(place[r].from)
    <3> DEFINE new == [owner |-> call[r].by, from |-> place[r].from, address |-> place[r].address]
    <3>1. new \in ActivityRow /\ new.owner = call[r].by /\ new.from = place[r].from
          /\ new.address = place[r].address
      BY <2>2 DEF ActivityRow, EstablishmentsInv, EstablishmentTypes
    <3>2. attached' = [attached EXCEPT ![r] = new] /\ ER!End(r, "OK")
      BY <1>16, <2>4 DEF ER!InsertActivity
    <3> HIDE DEF new
    <3>3. Ends(r) /\ pc'[r] = "done"
      BY <3>2 DEF Ends, Reply, ER!End, ER!Goto, EstablishmentsInv, EstablishmentTypes
    <3>4. \A u : \A f \in ER!Request : Made(f, u) => Made(f, u)'
      BY <2>1, <3>3, HandlerMoves
    <3>5. /\ attached' \in [ER!Request -> ActivityRow \cup {None}]
          /\ \A a \in ER!Request : attached'[a] = IF a = r THEN new ELSE attached[a]
      BY <3>1, <3>2 DEF EstablishmentsInv, EstablishmentTypes
    <3>6. RowsWereMade'
      BY <2>1, <3>4 DEF EstablishmentsInv, RowsWereMade, ER!Stored
    <3>7. ER!AddressesWereServed'
      BY <2>1, <2>2, <3>1, <3>5 DEF EstablishmentsInv, ER!AddressesWereServed, ER!Stored
    <3>8. OneEach'
      BY <2>1 DEF EstablishmentsInv, ER!Consistent, OneEach, ER!Stored
    <3>9. place[r].from \in ER!Request /\ establishments[place[r].from].owner = call[r].by
      BY <2>2, <2>4 DEF EstablishmentsInv, RowsWereMade, Made
    <3>10. AttachedToOwn'
      BY <2>1, <2>4, <3>1, <3>5, <3>9
         DEF EstablishmentsInv, ER!Consistent, AttachedToOwn, ER!OwnedBy, ER!Stored
    <3> QED
      BY <1>1, <2>1, <3>3, <3>5, <3>6, <3>7, <3>8, <3>10, TablesChange
  <2> QED
    BY <1>16, <2>3, <2>4 DEF ER!InsertActivity
<1>17. ASSUME NEW p \in Place, NEW l \in Label, ER!Relabel(p, l) PROVE EstablishmentsInv'
  <2>1. /\ ign' = [ign EXCEPT ![p] = l] /\ served' = served \cup {<<p, l>>}
        /\ UNCHANGED <<establishments, attached, call, pc, reply, place>>
    BY <1>17 DEF ER!Relabel
  <2>2. ign' \in [Place -> Label] /\ served' \subseteq ER!Address /\ served \subseteq served'
    BY <2>1 DEF EstablishmentsInv, EstablishmentTypes, ER!Address
  <2>3. ASSUME NEW a \in ER!Address, ign'[a[1]] = a[2] PROVE a \in served'
    <3>1. CASE a[1] = p
      <4>1. a = <<p, l>>
        BY <2>1, <2>3, <3>1 DEF ER!Address, EstablishmentsInv, EstablishmentTypes
      <4> QED
        BY <2>1, <4>1
    <3>2. CASE a[1] # p
      <4>1. a \in ER!Answers
        BY <2>1, <2>3, <3>2 DEF ER!Answers, ER!Address, EstablishmentsInv, EstablishmentTypes
      <4> QED
        BY <2>2, <4>1 DEF EstablishmentsInv, EstablishmentTypes
    <3> QED
      BY <3>1, <3>2
  <2>4. EstablishmentTypes'
    BY <2>1, <2>2, <2>3 DEF EstablishmentsInv, EstablishmentTypes, ER!Answers
  <2>5. CallsKeepTheirPath' /\ RowsWereMade'
    BY <2>1 DEF EstablishmentsInv, CallsKeepTheirPath, RowsWereMade, Made, ER!Stored
  <2>6. HeldWasServed'
    BY <1>3, <2>1, <2>2 DEF HeldWasServed, Held, Made
  <2>7. ER!AddressesWereServed'
    BY <2>1, <2>2 DEF EstablishmentsInv, ER!AddressesWereServed, ER!Stored
  <2>8. ER!Consistent'
    BY <2>1, <2>2 DEF EstablishmentsInv, ER!Consistent, ER!TypeOK, ER!Stored, ER!OwnedBy
  <2> QED
    BY <2>4, <2>5, <2>6, <2>7, <2>8 DEF EstablishmentsInv
<1>18. CASE UNCHANGED er
  BY <1>18 DEF er, EstablishmentsInv, EstablishmentTypes, ER!Answers, CallsKeepTheirPath,
     HeldWasServed, Held, RowsWereMade, Made, ER!Consistent, ER!TypeOK, ER!AddressesWereServed,
     ER!Stored, ER!OwnedBy
<1> QED
  BY <1>4, <1>7, <1>8, <1>9, <1>10, <1>11, <1>12, <1>13, <1>14, <1>15, <1>16, <1>17, <1>18
     DEF ER!Next

-------------------------------------------------------------------------------
(* The scenes together *)

\* The scene that begins has its invariant.
LEMMA InvariantInitially == Init => IInv
  BY AccountInit, ActivityFormInitially, FormInitially, SearchesInitially, NearbyInitially,
     PlanningInitially, FriendsInitially, PageInitially, PanelInitially,
     ConversationsInitially, EstablishmentsInitially
     DEF Init, IInv

\* The scene that is played keeps it.
LEMMA InvariantKept == IInv /\ [Next]_vars => IInv'
<1> SUFFICES ASSUME IInv, [Next]_vars PROVE IInv'
  OBVIOUS
<1>1. scene' = scene
  BY SceneSteps
<1>2. scene = "establishments" => EstablishmentsInv'
  BY SceneSteps, EstablishmentsStep DEF IInv
<1>3. scene = "establishment form" => FormInv'
  BY SceneSteps, FormStep DEF IInv
<1>4. scene = "activity form" => ActivityFormInv'
  BY SceneSteps, ActivityFormStep DEF IInv
<1>5. scene = "activity page" => PageInv'
  BY SceneSteps, PageStep DEF IInv
<1>6. scene = "planning tab" => PlanningInv'
  BY SceneSteps, PlanningStep DEF IInv
<1>7. scene = "group panel" => PanelInv'
  BY SceneSteps, PanelStep DEF IInv
<1>8. scene = "searches" => SearchInv'
  BY SceneSteps, SearchesStep DEF IInv
<1>9. scene = "nearby" => NearbyInv'
  BY SceneSteps, NearbyStep DEF IInv
<1>10. scene = "conversations" => ConversationsInv'
  BY SceneSteps, ConversationsStep DEF IInv
<1>11. scene = "friends" => FriendsInv'
  BY SceneSteps, FriendsStep DEF IInv
<1>12. scene = "account forms" => AccountInv'
  BY SceneSteps, AccountStep DEF IInv
<1> QED
  BY <1>1, <1>2, <1>3, <1>4, <1>5, <1>6, <1>7, <1>8, <1>9, <1>10, <1>11, <1>12 DEF IInv

\* Every scene keeps its invariant in every behaviour.
THEOREM Invariant == Spec => []IInv
  BY InvariantInitially, InvariantKept, PTL DEF Spec

\* However creations cross, an organizer has one establishment, activities refer to their
\* organizer's, and every stored address is one the geocoder gave (createEstablishment,
\* createActivity, resolveAddress).
THEOREM ConsistentEstablishments == Spec => []EstablishmentsConsistent
<1>1. IInv => EstablishmentsConsistent
  BY DEF IInv, EstablishmentsInv, EstablishmentsConsistent
<1> QED
  BY <1>1, Invariant, PTL

\* An address changes only for who tapped it (use-establishment-form.ts submit).
THEOREM ChosenAddresses == Spec => AddressChangesByChoice
<1>1. IInv /\ [Next]_vars => [scene = "establishment form" => EF!AddressChangesByChoice]_vars
  BY SceneSteps, FormChooses DEF IInv
<1> QED
  BY <1>1, Invariant, PTL DEF Spec, AddressChangesByChoice

\* No load writes over what the user typed (use-activity-form.ts, the effect).
THEOREM TypedStays == Spec => []TypedIsKept
<1>1. IInv => TypedIsKept
  BY DEF IInv, ActivityFormInv, TypedIsKept, AF!TypedIsKept
<1> QED
  BY <1>1, Invariant, PTL

\* The forms and the page say that something is done only when the server did it
\* (activity-form-view.tsx, activity/[id].tsx handleAddToPlanning, the submit functions of
\* the account forms).
THEOREM DoneWhenSaid == Spec => SaysDoneWhenDone
<1> DEFINE Done == /\ scene = "activity form" => AF!LeavesWhenDone
                   /\ scene = "activity page" => AP!AnnouncedWasBooked
                   /\ scene = "account forms" => AC!SaidIsDone
<1>1. IInv /\ [Next]_vars => Done
  <2> SUFFICES ASSUME IInv, [Next]_vars PROVE Done
    OBVIOUS
  <2>1. scene = "activity form" => AF!LeavesWhenDone
    BY SceneSteps, ActivityFormLeaves DEF IInv
  <2>2. scene = "activity page" => AP!AnnouncedWasBooked
    BY SceneSteps, PageAnnounces DEF IInv
  <2>3. scene = "account forms" => AC!SaidIsDone
    BY SceneSteps, AccountSaid DEF IInv
  <2> QED
    BY <2>1, <2>2, <2>3
<1>2. IInv /\ [Next]_vars => [Done]_vars
  BY <1>1
<1> QED
  BY <1>2, Invariant, PTL DEF Spec, SaysDoneWhenDone

\* The slots of a page, the list of a planning tab and that of a group panel do not go
\* back to an earlier answer (the guards of their three hooks).
THEOREM ForwardOnly == Spec => ShownMovesForward
<1> DEFINE Forward == /\ scene = "activity page" => AP!SlotsMoveForward
                      /\ scene = "planning tab" => PT!ListMovesForward
                      /\ scene = "group panel" => GP!PanelMovesForward
<1>1. IInv /\ [Next]_vars => Forward
  <2> SUFFICES ASSUME IInv, [Next]_vars PROVE Forward
    OBVIOUS
  <2>1. scene = "activity page" => AP!SlotsMoveForward
    BY SceneSteps, PageAnnounces DEF IInv
  <2>2. scene = "planning tab" => PT!ListMovesForward
    BY SceneSteps, PlanningMoves DEF IInv
  <2>3. scene = "group panel" => GP!PanelMovesForward
    BY SceneSteps, PanelForward DEF IInv
  <2> QED
    BY <2>1, <2>2, <2>3
<1>2. IInv /\ [Next]_vars => [Forward]_vars
  BY <1>1
<1> QED
  BY <1>2, Invariant, PTL DEF Spec, ShownMovesForward

\* At rest a panel shows its last confirmed change, and a form that one of its
\* submissions succeeded (use-group-activities.ts, submit of the three account hooks).
THEOREM ConfirmedShows == Spec => []ConfirmedIsShown
<1>1. IInv => ConfirmedIsShown
  <2> SUFFICES ASSUME IInv PROVE ConfirmedIsShown
    OBVIOUS
  <2>1. scene = "group panel" => GP!ConfirmedIsShown
    BY PanelShows DEF IInv
  <2>2. scene = "account forms" => AC!DoneIsSaid
    BY DEF IInv, AccountInv, AC!DoneIsSaid
  <2> QED
    BY <2>1, <2>2 DEF ConfirmedIsShown
<1> QED
  BY <1>1, Invariant, PTL

\* At rest a search answers its field, the list of activities the position, and those of
\* conversations and friends what the user did or was told of (the hooks of the four).
THEOREM ListsAnswer == Spec => []ListsAnswerScreen
<1>1. IInv => ListsAnswerScreen
  BY SearchesAnswer, NearbyFollows, ConversationsShown, FriendsShown DEF IInv, ListsAnswerScreen
<1> QED
  BY <1>1, Invariant, PTL
===============================================================================
