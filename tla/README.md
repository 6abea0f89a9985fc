# A TLA+ verification of MyActivities

MyActivities lets members find activities, reserve seats, plan, review, befriend
each other and chat; organizers publish activities and slots; administrators
moderate. The repository holds an Express API over PostgreSQL and Redis
(`src/backend`) and an Expo application (`src/myActivities`).

The API runs as many handlers at once as it receives requests, on one or more Node
processes, each handler being a chain of SQL statements. Most chains run outside of a
transaction: the state a statement checked may have changed when the next one writes.
What keeps the data right is spread over unique indexes, foreign keys, row locks and
conditions inside the statements. That is what this development is about: the tests
of the repository run the handlers one at a time, over a mocked pool.

Contents: [inventory](#1-inventory), [plan](#2-plan), [how the code is
modelled](#3-how-the-code-is-modelled), [the modules](#4-the-modules),
[runs](#5-runs), [findings](#6-findings), [proofs](#7-proofs),
[what is not shown](#8-what-is-not-shown), [how to run it](#9-how-to-run-it).

## 1. Inventory

| Component (source) | State | Operations | Hard behaviour | What makes it correct |
|---|---|---|---|---|
| Booking (`planning.service.ts`, `slot.service.ts`, parts of `activity.service.ts`, migrations 007, 009) | `activities`, `activity_slots`, `planning_entries`, row locks, the connection pool | addToPlanning, bookSlot, removePlanning, createSlots, create/delete activity | competing transactions, cascade of a deletion, deadlock, lost COMMIT answer, exhausted pool | no seat twice, none beyond the capacity, no orphan entry, entries leave for a reason, every request is answered |
| Accounts and sessions (`auth.service.ts`, `user.service.ts`, `admin.service.ts`) | `users`, `refresh_tokens`, e-mail and reset tokens, `login_attempts`, `admin_audit_log` | register, verify, login, refresh, logout, forgot/reset, deleteMe, suspend, deleteUserAdmin | tokens read in one statement and spent in another, revocations that race logins, partial failures | one live successor per spent token, only verified accounts log in, revocation is complete, the log is truthful |
| Groups (`message.service.ts` 286-458, `group-activity.service.ts`) | `conversations` of type group, `conversation_participants`, `conversation_activities` | create, add, remove, rename, leave (with promotion), delete, propose, withdraw | departure against removal and promotion, locks of a proposal | a group keeps an administrator, proposals by members on published activities, nobody misses a proposal |
| Friendships (`friend.service.ts`) | `friendships` | request, accept, decline, remove | crossed requests, answers that act on a checked row | one relation per pair, friendship only by consent |
| Direct messages (`message.service.ts` 1-283) | `conversations` of type direct, `messages`, `last_read_at` | send to a person, send to a conversation, delete, mark as read | get-or-create without a constraint, deletion during a send | conversations only between consenting users, no message without conversation, success means stored |
| Activities, moderation, list cache (`activity.service.ts`, `admin.service.ts`, `redis.ts`) | `activities.status`, cached lists | create, edit, delete, approve, reject, list | stale cache entries, edits during a decision, audit in a second statement | what visitors see was approved, an edition is decided once |
| Reviews (`review.service.ts`) | `reviews`, `activities.avg_rating`, `review_count` | create, change, delete, recalculate | concurrent recalculations | one review per member, the rating counts every review |
| Establishments (`establishment.service.ts`, `ign-geocoding.ts`, migration 014) | `establishments`, the establishment and address that an activity copies | create, update, delete, look an address up | check then insert, a geocoder that changes its answers between two statements | one per organizer, addresses from the geocoder only |
| Realtime broker and gateway (`realtime/*.ts`) | sockets by user, the Redis channel | publish, deliver, authenticate, message by socket | Redis failure after PUBLISH, instances, disconnection | an event reaches the connected sockets of its recipients, and a second copy changes nothing |
| Client chat (`use-chat.ts`, `use-unread-message-count.ts`, `lib/socket`) | messages of a conversation, badge | load, receive, send by socket then REST, mark as read | answers out of order, late acknowledgements, reconnection | no message lost or shown twice, the badge settles |
| Client session (`lib/api.ts`, `context/auth.tsx`, `token-storage.ts`, `_layout.tsx`) | access and refresh token, signed-in user, route | request, refresh on 401, login, logout, start | parallel refreshes, a refresh answered by an error, logout during a refresh, a kill between two writes | tokens and user are of one person, a session ends for a reason, a logout signs out |
| Client forms (`use-establishment-form.ts`, `use-activity-form.ts` and their views) | the fields, what is loading, what is being saved | load, type, choose an address, submit, delete, leave | loads that come after typing, lost answers, another device | nothing typed is overwritten, nothing is undone unasked, no success without one |
| Client lists (`use-planning`, `use-activity-slots`, `use-group-activities`, `use-conversations`, `use-friends`, `use-activities`, `use-user-search`, `use-user-location`) | one list each and its flags | load, pull, receive an event, change | answers in the wrong order, optimistic removal, superseded requests | a list does not go back, shows what was confirmed, and answers the screen it is on |
| Client account forms (`use-register-form`, `use-forgot-password-form`, `use-reset-password-form`) | the fields, what was submitted, success | type, submit by button or keyboard | two submissions in flight, answers in any order or lost, a link used twice | success is said when, and only when, the server has done it |
| Group creation form, organizers' lists and dashboards; mail, storage; middleware; migrations, seed; styles and map | none, or one list | | | |

Components interact through the tables (an activity's deletion cascades to slots,
entries, reviews and proposals; a friendship authorizes a group and a conversation),
through the list cache, through events published after COMMIT (`broker.ts` to the
gateway to `use-realtime.ts`) and through the tokens of the HTTP API.

## 2. Plan

The order is that of the damage a broken component does. Done:

1. `SeatLedger` (abstract) and `Booking`, with `BookingProofs`;
2. `Sessions`, with `SessionsProofs`;
3. `Groups`, with `GroupsProofs`;
4. `Contacts` (friendships and direct messages), with `ContactsProofs`;
5. `Catalogue` (activities, moderation, cache, reviews), with `CatalogueProofs`;
6. `Realtime` (broker, gateway, sockets), `Conversation` on it (rows, read marks), and
   on both `Chat` (the screen of a conversation), and `Badge` with
   `Badges` (the unread badge), with `ChatProofs`;
7. `ClientSession`, with `ClientSessionProofs`;
8. `Establishments`, and the screens of the client, each a module: `EstablishmentForm`,
   `ActivityForm`, `ActivityPage`, `PlanningTab`, `GroupPanel`, `ConversationList`,
   `FriendsTab`, `Searches`, `Nearby`, `AccountForms`; `Screens` composes them for one
   run and for `ScreensProofs`.

To do, in this order:

9. In `Chat`, the conversation that a first message creates (`convoRef` unset until the
   answer). An abstract specification of delivery for `Realtime`: two copies at most, and at least
   one for a socket whose instance is subscribed.
10. The form of a new group and the organizers' lists, in the shape of `AccountForms`
   and `PlanningTab`.

## 3. How the code is modelled

**Requests are processes.** A request is an element of `Request`. `Start` is its
arrival, authenticated and parsed by the middleware and the zod schema, so `Calls`
holds only what a schema lets through. `pc` is the statement it stands before,
`reply` its HTTP answer, other variables per request (`seen`, `found`, `told`...) the
locals that live across an `await`.

**An action is one SQL statement**, with the TypeScript that runs before the next
`await`. PostgreSQL runs at READ COMMITTED: a statement sees what is committed when
it starts, and a row it writes as the last committed version. Where a statement has
to wait for a lock and then uses an older snapshot, this is two actions (`Snapshot`
and `Recalc` in `Catalogue`).

**Transactions.** What a transaction writes becomes visible at COMMIT, and a
statement of a transaction whose effect nobody can see until then is merged into it.
Row locks that outlive a statement are state: `lock`, `dlock` (Booking), `ulock`
(Sessions), `glock` (Groups). A lock that a statement takes and gives back within
itself is not.

**Rows are named by the request that inserted them** (`live` in Booking, `token` in
Sessions, `friendships`, `convs` and `stored` in Contacts, `reviews` in Catalogue).
This replaces generated UUIDs and makes "the row that request created" a name.

**Constraints are guards.** Unique indexes, foreign keys and cascades are part of the
statement that meets them: a violation that the code catches is its error code, one
that it does not is `FAILED`, the 500 of the error handler.

**Failures.** `Fail(r)` ends a handler between two statements: a lost connection, a
restart, an error of the driver. Inside a transaction it rolls back; outside, what was
written stays. In Booking COMMIT may also succeed while its answer is lost.

**Time** is nondeterministic: tokens expire (`Expire`), suspensions end, slots pass,
cache entries lapse (`Expire` of Catalogue), at any moment.

**Seeded faults.** A definition whose comment starts with `Fault:` is the wrong form
of the definition after it, as a plausible bug would have it. Nothing uses it: it is
there to see that the properties fail when the code has that bug. Each property of
a passing run has at least one, listed in `PROJECT.json` under `mutants`.

## 4. The modules

`PROJECT.json` maps each definition to its lines. Properties that a run checks under one
name, `Consistent`, `BadgesConsistent` or those of `Screens`, are conjunctions of the properties named
here: a run stays one question.

### SeatLedger and Booking

`SeatLedger` is what the endpoints promise: per slot a capacity and a set of seated
users; `Reserve` needs a free seat and an unseated user; `Withdraw` removes all the
slots of an activity at once.

`Booking` is the code. bookSlot is `CheckPublished` (through the pool), `Connect`,
`SelectForUpdate` (the slot's row lock, or a wait), `RefuseSlot`, `Count`, `Insert`
(unique index, foreign keys), `Commit`; a free entry is `CheckPublished`,
`InsertFree`, `ReadBack`; removePlanning is `Find`, `Erase`; createSlots is
`CheckOwner`, then one `Upsert` per offer; deleteActivity is `CheckOwner`, `Delete`
(locks the activity), `Cascade`. `DeadlockAbort` is PostgreSQL's deadlock detector:
a reservation waits for the activity under deletion while the deletion waits for the
slot. `Connect` waits for `PoolSize`. Properties:

- `CapacityReadIsCurrent`: what was read under FOR UPDATE is still true at COMMIT.
- `OneSeatPerUser`: whatever is retried, even after a 500 that did commit.
- `SeatsWithinCapacity`: a slot that gains a seat is within its capacity.
- `ImplementsSeatLedger`: every step is one step of the ledger, or none.
- `EntriesReferToRows`, `EntriesLeaveWithReason`: no orphan; an entry goes with its
  activity or by its own user.
- `EveryRequestAnswered` (liveness): through locks, deadlocks and a full pool.

Not in it: the listings, which only read. `CreateActivity` and `Moderate` are the steps of
the rest of the site that booking depends on.

### Sessions

A token is named by its request, and `token` says whether it is live or spent;
`expired` is apart, because the statements test both. login is `CheckBruteForce`,
`CheckCredentials`, `RecordFailedAttempt` or `MarkAttemptSuccess`, `InsertToken`;
refresh is `ReadToken`, `Revoke` and `InsertToken`; reset and deletion
are transactions that hold the user's row (`LockUser`, `RevokeAll`, `Commit`, with
`doomed` for revocations that are not committed); suspension and administrative
deletion are separate statements ending in `AuditLog`. `held` is history: the
sessions that existed when the request arrived. Properties:

- `RotationSpendsParent`: a refresh token never lives on beside the one it was exchanged
  for, whatever stops between the two statements.
- `OnlyVerifiedAccountsLogIn`: through any order of register, verify, login, refresh.
- `RevocationIsComplete`: after a reset or deletion answered with success, no session
  that existed when it arrived is usable.
- `AuditIsTruthful`: an action answered with success is logged, a logged deletion took
  place, and only one of several concurrent deletions is logged.
- `SomeRequestCanStep`: no lock is kept by a finished handler, no circular wait.

Abstractions: `InsertToken`'s foreign key (KEY SHARE) waits only for deleteMe's UPDATE of
the key columns; the UPDATE of `password_reset_tokens` is merged into
`RevokeAll`/`Commit`; waiting for the pseudo's unique key is merged with the row lock;
someone who registers again under a freed pseudo is an account outside `User`;
`Before` seeds sessions opened earlier. The access token is a stateless JWT and has no
state here. updateMe and promoteUser are left out.

### Groups

`role` and `joined` are `conversation_participants`. `CheckAdmin` then `InsertMember` /
`DeleteMember` / `Rename` are addMember, removeMember and rename; `CheckGroup`, `Leave`,
`Promote` are leaveGroup; `LockMembership` (FOR UPDATE on the group and the author's
row), `LockActivity`, `Insert` or `Withdraw`, `ReadRecipients`, `Commit` are the
transaction of a proposal. Properties:

- `ProposalsAuthorized` (`ProposalsByMembers`, `ProposedWasPublished`,
  `WithdrawalAuthorized`): when a proposal commits, its author is still a member, its activity published; a withdrawal
  is by its author or an administrator — although all were read statements earlier.
- `NoMemberMissesProposal`: the recipients read are the members at COMMIT.
- `LeavesPromote`: once every request is answered and none has failed, a group that
  nobody was added to or removed from has an administrator, in whatever order its
  members left.
- `SomeRequestCanStep`: proposals, departures and deletions never block the group.

Abstractions: friendships are a constant; the areFriends queries of a creation are
merged with its check; `Promote`'s UPDATE is evaluated when it stops waiting
(PostgreSQL would use its snapshot, and may then promote nobody when the heir is
leaving too; the heir's own promotion follows); reads after a change that only build
the answer are merged; `joined` is a rank; activities change status (`Moderate`), and
are not deleted.

### Contacts

`CheckAddressee`, `CheckExisting`, `InsertRequest` are sendRequest; `CheckPending`,
`Respond` respondRequest, whose UPDATE or DELETE acts by id whatever the row has
become; `Remove` removeFriend. `CheckRecipient`, `FindConversation`, `CheckFriends`,
`OpenConversation`, `InsertMessage`, `ReadBack` are sendMessage; `CheckParticipant`
starts sendToConversation and deleteConversation (`Erase`). `consented` is history:
the pairs that have been friends at some time. Properties: `OneRelationPerPair`, `FriendsConsent`,
`ConversationsConsented`, `MessagesHaveConversation`, `SuccessMeansStored`.

Left out: read marks, `last_message_at`, messages in groups; which accounts are active
is constant. A late decline that deletes a friendship accepted meanwhile, and a late
acceptance that reports success for a relation that is gone, are behaviours of the
model that no document judges, so no property does either.

### Catalogue

An *edition* is what moderation approves: the name, category and description, named by
the request that wrote it. `Create`, `CheckOwner`, `Update`, `Delete` are the
organizer's handlers, followed by the invalidation `ReadKeys`, `DeleteKeys` (KEYS then
DEL); `ReadCache`, `QueryList`, `SetCache` are the public list; `Decide`, `Audit` the
moderation; `CheckPublished`, `CheckPlanned`, `InsertReview`, `CheckAuthor`, `Change`,
`Snapshot`, `Recalc` the reviews. A rating is the set of reviews it was computed from.
Redis errors are swallowed, as `redis.ts` and its callers do. Properties:

- `ShownWasApproved`: with moderation on, no list, cached or not, shows an edition that
  was never approved, whatever edits, rejections and invalidations cross.
- `DecidedOnce`: one decision per edition; `OneReviewPerUser`; `RatedByAuthors`: a
  stored rating was given by its own author.

Abstractions: approving acts on the edition that is current, even if the text changed
after the administrator read it (no document speaks of it); approvals, rejections and
ratings do not invalidate the cache, which lapses after 60 s (`Expire`); runs set
`ModerationEnabled = TRUE`, the case with something to check, while the default
configuration publishes at once; the establishment check before a creation, views, statistics and
organizers' lists are left out; `Unplan` stands for the removals of Booking.

### Realtime, Conversation, Chat, Badge

`Realtime` is the transport. A publication by an instance (`Deliveries`) is emitted by
the instances that are subscribed, or by the publisher alone when Redis is not ready,
or both when PUBLISH was executed and its answer lost
(`broker.ts:72`, although its comment says "jamais les deux"); `Dispatch` writes it to the
sockets (`home` is a socket's instance), `Disconnect` loses what is on the way. Redis
comes and goes between any two publications, so its state is open at each. That ioredis
sends an unanswered PUBLISH again when it reconnects is left out: more copies of one event.

`Conversation` is the server's part: a row is its rank in the order of `created_at`,
`unannounced` are the rows whose handler has not published, `lastRead` is
`last_read_at`. A handler may fail between its insertion and its event.

`Chat` is useChat and its screen: `Open`, `ReadHistory`, `TakeHistory` (the history
replaces the messages), `Receive`, `Close`; `AskMark` follows the number of messages,
`WriteMark` is the server's side; `Send`, `Handle`, `Publish` or `Break`, then
`Accept`, or `FallBack` to REST, `Fail`, or `Silence` for a socket lost before its
acknowledgement. `hidden` (history) is what an open screen has lost. Properties:

- `ShownUnlessHidden`: once everything has arrived a loaded screen shows all
  messages, except those a socket lost or the late history replaced. Duplicates
  of the broker change nothing.
- `OpenConversationIsRead`: a conversation that stays open ends up read, although its
  marks depend on `messages.length`, which the history may leave unchanged.
- `StoredOnce`: a text is stored twice only when its handler failed after the insertion.

`Badge` is useUnreadMessageCount, and `Badges` places it on the server of `Conversation`, with events
that carry their recipients alone, for its run and for its theorems. `Receive` asks for the list, `Read` is the server's
answer, in any order among the requests in flight, `Display` keeps the one of the latest
request. `at` is history: the state of the tables an answer is about. Properties:

- `NeverGoesBack`: the badge never returns to an older state (the hook's comment).
- `RightUnlessMissed`: when nothing is in flight it is right, unless the device has
  lost an event or an answer since its latest request.
- `Settles` (liveness): from some time on it is right or has missed something.

Abstractions: the screen marks after each change of its messages (React may batch two
changes into one effect); a message's insertion is ordered by its timestamp; one page
holds the conversation and the list; the mark's second UPDATE (`messages.read_at`) is
merged with its publication; the participants are fixed; a failed REST answer keeps the
draft, and what the user types again is another text.

### ClientSession

The API client, the auth context and the navigator, over the two stored tokens. A call is
a request of the client from its `fetch` to the end of its continuation, and every
`await` is a step: `StartData`, `StartLogin`, `StartLogout` send; `Answer`, `Reject` (401,
which takes the refresh token stored *now*), `CheckRefresh` and `Exchange` (the statements
of `refresh` in Sessions), `StoreRenewed`, `Resend`; `RemoveAccess` then `ClearSession`;
`LoginStoresAccess` then `LoginStoresRefresh`; `LoseAnswer` at each place where `fetch` may
throw. `FailRefresh` is an exchange that is answered by an error: 429 of the limiter
(`app.ts:38`), 500 of any of its statements, with the refresh token already spent when the
INSERT is the one that fails; `tryRefreshToken` takes each for a refusal. `Retire` is a
refresh token that ends without having been exchanged: it expires, or a reset or a deletion
revokes it. `Boot`, `Redirect` and `Restart` are the start of the app, the
navigator and a kill. A login is its rank in `owner`, and names its refresh token: an
exchange mints another one that `tryRefreshToken` drops unseen (`api.ts:94`), so a
session lasts for one exchange, or for those in flight together. `failed` and `torn` are
history: a call whose exchange ended without a verdict, and writes that interleaved. Properties:

- `SessionsDoNotMix`: unless a pair of tokens is half written both are of one login of who
  is signed in, through parallel exchanges, late 401s, answered errors, logouts and second
  accounts. The exception, `torn`, is narrow: a call writes between the two writes of
  another's pair, a login ends while an exchange or a clearing is under way, an exchange is
  stored after its session has gone, a kill cuts a pair. Parallel exchanges of one token are not
  excepted, nor is an exchange that is refused or fails after a logout.
- `EndsOnlyWhenRefused`: a session ends for a logout, for an exchange left without a
  verdict (network, 429, 500), or because the server refuses (spent, expired, revoked) the
  refresh token that is stored at that moment; never for an access token that merely
  expired, nor for the token of another session.
- `LogoutEnds` (liveness): a confirmed logout signs out whatever fails on the way.

### Establishments

`CheckNone`, `Resolve` (the geocoder), `Insert` are createEstablishment; `CheckOwner`,
`Resolve`, `Update`, `ReadBack` updateEstablishment; `Delete` with the foreign key's SET
NULL; `FindEstablishment` and `InsertActivity` the part of createActivity that copies an
address. The geocoder may forget a place or rename it at any moment (`Relabel`).
`Consistent`: one establishment per organizer, activities attached to their own
organizer's. `AddressesWereServed`: identifier and label were given together by the
geocoder, for the rows and for the copies.

### The screens

Each is one hook with the guards of its screen's buttons; the server behind it is reduced
to what the modules above show it promises, a *version* standing for its content, and
others change it at any time. Answers are read at one time and arrive at another, or are
lost.

| Module | The hook | Properties |
|---|---|---|
| `EstablishmentForm` | use-establishment-form, on several devices | `AddressChangesByChoice`: saving a telephone number, or repeating a creation whose answer was lost, does not move the establishment back |
| `ActivityForm` | use-activity-form, its view | `TypedIsKept`: no load writes over what was typed; `LeavesWhenDone`: the list replaces the form only after the server stored or deleted |
| `ActivityPage` | use-planning, use-activity-slots, use-review on the page | `AnnouncedWasBooked`: "Réservé !" for a booked press, over slots read since; `SlotsMoveForward` |
| `PlanningTab` | use-planning on the tab | `ListMovesForward`: not to an older answer, and no row leaves that the server keeps |
| `GroupPanel` | use-group-activities (revisions, pages) | `PanelMovesForward`; `ConfirmedIsShown`: a panel at rest shows the last change it confirmed, though the refresh after it was superseded |
| `ConversationList` | use-conversations, optimistic removal | `ListIsWhatWasTold`: at rest not older than what the user heard of, and complete |
| `FriendsTab` | use-friends, its four calls | `ListsAreWhatWasTold`: both lists show what the user did or heard of |
| `Searches` | the picker of activities, use-user-search | `ListAnswersField`: the list answers the text in the field |
| `Nearby` | use-user-location, use-activities | `ListFollowsPosition`: the list is around the position shown, none without one |
| `AccountForms` | use-register-form, use-forgot-password-form, use-reset-password-form | `SaidIsDone`: the success screen appears for a submission the server carried out; `DoneIsSaid`: a second press that is refused does not hide the success of the first, in whatever order they are answered |

Where a hook orders its answers (`GroupPanel`, the picker), or a spinner or a disabled
button leaves no way to have two on their way (`ActivityPage`, `PlanningTab`), the
property is without exception, or with the one the code leaves. Where nothing orders them
(`ConversationList`, `FriendsTab`, `Nearby`, the search of people) a history variable
(`overtaken`, `mixed`) notes that an older answer came last, and the property says that
nothing else goes wrong.

Abstractions: the fields of a form are one text, or only the address; unmounting a
screen stops none of its continuations and is left out; a bound on requests in flight
stands where the code has none.

## 5. Runs

`MC*.tla` define the calls and the symmetric sets; a `.cfg` is one run.

| Run | Instance | Distinct states | Shows |
|---|---|---|---|
| `booking_seats` | 3 requests of 2 users, 1 slot of 1 or 2 seats, pool of 2, symmetry | 172,000 | reservations, cancellations, capacity changes and a deletion compete: CapacityReadIsCurrent, OneSeatPerUser, SeatsWithinCapacity, ImplementsSeatLedger |
| `booking_requests` | 2 requests of any kind, 2 activities, 3 users, fairness | 128,000 | EntriesReferToRows, EntriesLeaveWithReason, EveryRequestAnswered |
| `sessions` | 3 requests after a seeded session, a member and a newcomer | 479,000 | the properties of Sessions |
| `groups` | 3 requests on a group of 3 and a group to found | 112,000 | the properties of Groups but `GroupKeepsAdmin` |
| `groups_admin` | 2 requests | counterexample | finding 1 |
| `contacts` | 3 requests after a pending friendship, 4 users | 404,000 | the properties of Contacts |
| `catalogue` | 3 requests on a published activity and a new one | 685,000 | the properties of Catalogue but `CountMatchesReviews` |
| `catalogue_rating` | 2 requests | counterexample | finding 2 |
| `chat` | a screen, one text sent, another writer, 3 rows, 2 instances, symmetry | 1,022,000 | the properties of Chat |
| `badge` | one device, 2 rows, 2 marks, 2 requests in flight, 2 instances, fairness | 122,000 | the properties of Badge |
| `client_session` | two calls in flight, 2 people, 2 logins, 1 kill, fairness | 996,000 | the properties of ClientSession |
| `client_screens` | eleven scenes, each on its own instance: establishments with 3 requests, 2 devices, 2 slots, 2 presses, 2 changes, loads and submissions | 1,367,000 | the properties of Establishments and of the ten screens |

**Bounds.** `Request` is the only bound on length: a model of n requests has every
interleaving of n handlers, each of which ends. The races of this code are between two
handlers; the third one is the actor that moves in between (a deletion, a change of
capacity, an administrator). Overbooking by a missing lock takes two reservations, by
a change of capacity two reservations and the change. Users are as
many as there are roles to tell apart (owner, stranger, administrator). A pool of two
connections is exhausted by two transactions, which is the case that blocks a third.
`RateLimitMax = 1` makes one failed login the limit, so that a run reaches it.
Three rows are a text stored twice and another message; two events on the way and two
requests in flight (`MaxWire`, `MaxPending`) are what it takes to duplicate one and to
overtake one, two marks (`MaxMarks`) to cross one.
In `client_session` two calls are what it takes for one to be late for the other,
two logins for one person to follow another, and one kill to cut a pair of writes; once
writes have interleaved (`torn`) the model only lets what is under way end. In `client_screens` a behaviour is of one scene and the variables of the
others stay 0, so that one run checks eleven small state spaces (from 1,500 to 290,000
states); two requests in flight overtake each other once, two versions tell an
older answer from a newer one. The list of conversations starts empty there, and two changes fill it
or empty it again.
The theorems of section 7 remove the bounds for the safety properties.

**Symmetry** permutes requests that no call names, and swaps the two conversations, slots,
entries, positions, devices, addresses or contents of a scene of `client_screens`. The runs with a liveness property use none.

**Deadlock** is not checked: a run stops when its requests are answered. That no
request is left waiting is stated instead. `SomeRequestCanStep` (Sessions, Groups) says
which rows make a handler wait (`Waits`), that nothing else does (a step of an unanswered
request is enabled exactly when it does not wait), and that not all wait
(`NoCircularWait`); `EveryRequestAnswered` (Booking) is the liveness property.

**Fairness** (`FairSpec` of Booking and Badge, `Spec` of ClientSession). Booking: weak fairness of each request's next
statement, because the event loop runs every callback it is given and PostgreSQL serves
every statement and grants a lock that stays free, and of `DeadlockAbort`, because PostgreSQL looks for
deadlocks after `deadlock_timeout`. Badge: weak fairness of the publications and of a
device's handlers and requests, which end or fail. ClientSession: weak fairness of the navigator, of the start, and
of each call's answer and continuation: a `fetch` is answered or throws, and the event
loop runs what awaits it. Nothing is assumed of arrivals,
failures, connections, moderation or the clock.

## 6. Findings

Each is a run in which the code contradicts a document of the repository.

1. **A group can lose its last administrator** (`groups_admin`): a removal past its
   check deletes the member that a departure has just promoted
   (`message.service.ts:414`, comment at 426).
2. **A rating can miss a review** (`catalogue_rating`): two recalculations, the older
   snapshot writing last (`review.service.ts:13`; `swagger.yaml:1911`).

Section 8 lists other divergences that the models contain and no run demonstrates.

## 7. Proofs

A module `XProofs` holds the theorems about `X`. TLAPS checks them for every value of
the constants that satisfies the named assumptions of `X`, which TLC evaluates in its runs:

| Module | Assumptions | What they say |
|---|---|---|
| `BookingProofs` | `RequestAssumption`, `SlotAssumption`, `CapacityAssumption`, `PoolAssumption`, `CallsAssumption` | finitely many requests, positive capacities, a pool of one connection or more (`db/pool.ts:4`), calls a schema lets through |
| `ContactsProofs` | `NoneAssumption`, `RowsAssumption`, `CallsAssumption` | the seeded friendships respect the unique index; calls of their types |
| `SessionsProofs` | `NoneAssumption`, `CallsAssumption`, `BeforeAssumption`, `LimitAssumption` | calls of their types; seeded sessions are logins; a positive limit |
| `GroupsProofs` | `NoneAssumption`, `CallsAssumption`, `FoundedAssumption` | calls of their types; a seeded group has a founder, and members |
| `CatalogueProofs` | `NoneAssumption`, `RolesAssumption`, `CallsAssumption` | the three roles are disjoint; an organizer acts on activities of theirs |
| `ChatProofs` | `OwnerAssumption`, `BoundsAssumption`, `ChatAssumption`, `BadgeAssumption` | a device has an owner, a text an author; finitely many texts; positive bounds; whoever writes or reads is a participant |
| `ClientSessionProofs` | `NoOneAssumption` | nobody is not an account |
| `ScreensProofs` | `NoneAssumption`, `BoundsAssumption`, `CallsAssumption`, `LabelAssumption` | bounds are numbers; a call names an operation and, where it has one, a row that some request may create; a place has a label |

`None` is outside of the sets it stands beside.

They have one shape: an inductive invariant `IInv`, a conjunction of named parts,
each with a sentence that says what it is for; lemmas on the operators and on what a step
leaves alone (`OthersStay`, `CallsStay`); one lemma per action, or per part and action;
`InvariantInit`/`InitInv` and `InvariantStep`/`NextInv`; then the theorems. TLC confirms
each `IInv` as an invariant of the instance of its run (but `RanksBounded`, which is about
all naturals). In `ScreensProofs` the actions of a scene stand in one lemma, a case each.

**Booking.** `OneSeatPerUser` is not inductive: that the INSERT has found no other
entry of the user says nothing of the moment of COMMIT. `IInv` adds what the lock is for. `RowIsLocked`: a transaction
past its SELECT holds the slot's row, hence (`CapacityReadIsCurrent`) nobody changes the capacity, and
(`SeatIsFree`) nobody else commits a seat between its count and its COMMIT.
`RequestsKeepTheirPath` ties each statement to its kind of call, `EntriesAreCommitted`
each entry to a request past its insertion, and `SlotsReferToRows` a slot to its
activity, so that a cascade leaves no orphan. Theorems:

- `TypeCorrect`, `Invariant`, `CapacityStaysCurrent`, `NoDoubleSeat`, `NoOrphanEntry`;
- `ReservationsFitCapacity` (action property), by `OnlyCommitAddsSeats` and
  `CommitFillsFreeSeat`: only COMMIT adds a seat, and then one was free;
- `EntriesLeave` (action property): the two statements that delete entries are the
  cascade of an activity and the user's own removal;
- `Refinement`: `Spec => ImplementsSeatLedger`. The refinement mapping takes a slot to
  its capacity and to the users of its committed entries. COMMIT maps to `Reserve`
  (`SeatIsFree` gives the free seat, `OneSeatPerUser` the unseated user), an erasure to
  `Cancel`, a cascade to `Withdraw`, an upsert to `Offer`, all else to a stutter;
- `NotOverbookedWhileGrowing`: under `GrowingSpec`, in which no upsert lowers a capacity,
  `NeverOverbooked` always holds: an upsert that lowers a capacity (section 8) is the
  only thing that overbooks.

**No circular wait, no endless handler** (Booking, Sessions, Groups). `EveryRequestAnswered` is a
liveness property, out of the prover's reach; what it rests on beside fairness is safety, and proved:

- `NobodyWaitsForAll`: `NoCircularWait` always holds. Whoever waits, waits for a row of an open
  transaction or for a connection, and a lock is always that of an open transaction: `TypeOK` says it
  of Sessions and Groups (`WaitsForTransaction`), `HeldByOpen` of Booking, where it also says that a
  connection is held exactly during the statements of a transaction. So no request that was answered,
  refused or failed keeps anyone waiting, for any size of the pool. In Booking a deletion and a reservation
  may wait for each other: that pair, and no longer circle, is what `DeadlockAbort` breaks.
- `EveryHandlerEnds`: each statement takes its handler to one of higher `Rank`, or in the loop of
  createSlots leaves fewer offers (`Later`), and no step of another takes it back.

That `Waits` is what disables a step needs ENABLED: TLC checks it in the runs `sessions` and `groups`.

**Contacts.** `FriendsConsent` is not inductive because respondRequest writes by id a
row it checked earlier. `AnswersByAddressee` says that whoever is about to answer *is*
the addressee, in terms of the request that created the row and not of the row, which
may have gone; `RowsKeepTheirUsers` says that a row found by its id later
is about the same two people. `ConversationsConsented` needs `ConsentRecorded` (a
check of friendship leaves its trace in `consented`), `MessagesHaveConversation` needs `FoundBySender` (the
conversation in hand is one the sender belongs to, even after its deletion) and the
foreign key. Theorems: `TypeCorrect`, `Invariant`, `OneRelation`, `Consent`,
`ConversationConsent`, `MessagesKeepConversation`, and the action property
`SuccessStored`: an answer of success to a send is given by `ReadBack` only, while the
row is there.

**Sessions.** `RotationSpends` rests on `ParentSpentFirst`: a refresh before its INSERT,
as well as after it, has a spent parent, because no statement makes a spent token live.
Verified accounts (`SessionsConsistent`) need `SessionsOfVerified`, which follows
an exchange back to the login it descends from. `RevocationCompletes` is about sessions
that existed when the request arrived, which only `held` remembers: `HeldAreSessions` says that they
stay sessions of that account or are spent, so that the one UPDATE by account reaches them, and
`RevokedBeforeAnswer` that they are spent or in `doomed` from that UPDATE to COMMIT, through every
expiry, rotation and lock in between. `AuditTruthful` needs `OneDeleterPerAccount`: of two concurrent
deletions one finds the account active, because the condition is in the UPDATE.

**Groups.** `AuthorityHolds` and `EveryMemberIsTold` are about a transaction's COMMIT and about
rows it read statements earlier. `AuthorsAreMembers`, `SharedArePublished` and `MembersAreTold` say that they are
still true, because whoever would change them waits for the lock of the group (FOR UPDATE)
or of the activity (FOR SHARE). `GroupsConsistent` (`LeavesPromote`) needs `HeirIsComing`: a group without an
administrator that has only seen departures has one of them before its UPDATE. That
this UPDATE finds a heir, for any number of members, is `OldestExists`: the ranks are naturals, and
the order of the naturals is well founded. `RanksBounded` gives a new member a rank beyond the others, and
`UnbornGroups` keeps a group that is being created from being touched. `OnlyRemovalsOrphan` bounds
finding 1: under `SparingSpec`, in which no statement of addMember or removeMember leaves a group with members and
without an administrator (`Spares`), `GroupKeepsAdmin` always holds; so nothing but that statement breaks it.
`HeirStays` is the step for one group, which the inductive `HeirIsComing` uses too.

**Catalogue.** `NothingUnapproved` needs `PublicWasApproved`: an activity that is published *now* has
an approved edition, and so has each list a handler holds between its query and its
SET, however old. `NothingDecidedTwice` needs `PendingIsUndecided` and `EditionsWereWritten`: an
edit that returns an activity to moderation names a new edition, since editions bear the
name of their request. `ReviewsConsistent` needs `ReviewsKeepTheirAuthor`: the review a request
found by its id before its UPDATE is that user's, even if it has gone since. `CountMatchesWhileSerial` bounds finding 2:
under `SerialSpec`, in which no two recalculations of one activity overlap, `CountMatchesReviews` always holds. `SerialInv`
says why: the rating counts the reviews, or a recalculation that has read them all is under way, or one is to
come (`RatingIsComing`); a new activity has no rating because nobody knew its id (`UnbornIsUnrated`).

**Chat.** `NothingLost` is the invariant `NothingForgotten` at rest: from the answer of the history on, every
row is shown, loaded, on the wire, unannounced, or hidden. `LoadedIsPrefix` says that the history is
the oldest rows, without a gap. That is what `OpenIsRead` needs: the mark is asked when
`messages.length` changes, and a history that replaces the messages by as many others does not change it. `MarkedIsRead`
holds nonetheless: sets of one size of which one is a prefix are equal, or the shown one has a newer row, and that one was
marked. `ChatConsistent` (`StoredOnce`) is a counting argument over the rows of a user and
the texts they tried (`RowsAreCounted`), where a handler that failed after its insertion adds one at most (`BrokenOnce`).

**Badge** (in `ChatProofs`, through `Badges`, on the same server and transport; `SameServer` ties the names of
the instance `B` to theirs).
`BadgeIsRight` (`BadgesConsistent`) needs `WillBeRight`: unless the device has missed something, a change is
still to be announced, an event is on the wire, the latest request is unanswered or its answer counts the
messages that are unread now, or that answer is on display. `BadgeIsOlder` says that the badge and the answer to the
latest request are of states the tables have been in (`Version`), the badge of the older one. From it follows
`BadgeMovesForward`: an answer that was overtaken never replaces a newer one.

**ClientSession.** `SessionsConsistent` speaks of moments when no pair is half written; `TokensAgree`
says what holds in between: the two tokens are of one login unless a call is halfway through its pair of writes, and
a call that is alone halfway has written what it should. `UserAgrees` ties them to who is signed in. As long as no writes
have interleaved (`torn`) every call is `Timely`: an exchange under way is about the refresh token stored now, or its
session has gone meanwhile and none is stored; and a call on its way to end a session is `Justified`: it is a logout, its exchange has
failed, nobody is signed in any more, or the token it was refused is the stored one and not live. Such a token stays dead, since only a
login makes a token live and its name is new, and stays the stored one, since a login that stores another is an
interleaved write. Hence the action property `EndsWithReason`. `RestartsCount` (the kills are a natural number) tells a kill from the other steps in
that property. `RenewalIsSound`, `EndIsSound` and `LoginIsSound` are the three writes that may interleave, a lemma each.

**Screens.** A behaviour plays one scene (`SceneSteps`), so `IInv` has an inductive invariant for each.

- *Establishments.* Creations and deletions cross: the establishment that an activity is about to
  copy may have gone, or been created again under another request. `Consistent` needs `HeldWasServed`: what a handler holds since an
  earlier statement was served, and the row it read was created by the organizer (`Made`), which outlives the row.
- *Activity page.* Nothing but the buttons orders its loads. `OnePress` says that they suffice: one
  press at a time, none during the first load, hence (`OneLoad`) one load at a time; `LoadsAreLater` that its
  answer is newer than what is shown, and than the booking it follows. `BookedWasMade` is what "Réservé !" rests on.
- *Lists that order their answers.* A focused group panel shows the last confirmed change, or the one
  request that is current is a refresh that will bring it, or an error is all it shows (`OneCurrent`,
  `PanelKnows`); once the timer has run, the latest search is of the text in the field; in the
  planning tab, unless a removal failed meanwhile (`crossed`), one list is on its way and not an older one.
- *Lists that do not.* In `Nearby` the latest load is for the position; for the conversations
  `AnswersAreExact`, `ToldIsShown` and `MissingIsDeleted` say where each change the user heard of is: shown, or
  in a load on its way; for the friends `Promising` says which loads bring it.
- *Forms.* An address on the form of an establishment was loaded or tapped, and goes out only in the second
  case (`LoadedOrTapped`, `OnlyChosen`); what was typed is in the field and the load is over; an answer of success is
  of something the server did.

The searches and the group panel take for a request the least number that is free. That there is one is `LeastNatural`, from the
order of the naturals.

## 8. What is not shown

Only model-checked, because out of the prover's reach: `EveryRequestAnswered`, `Settles` and `LogoutEnds`
(liveness under fairness), and the ENABLED half of `SomeRequestCanStep`, whose other half,
`NoCircularWait`, is proved. Every other property of a passing run is a theorem.

**Behaviours that are in the models and in no property.** On the server:

- createSlots' ON CONFLICT sets a capacity below what is reserved (`slot.service.ts:67`;
  migration 009:2-3). `NeverOverbooked` in `Booking` fails on it; section 7 shows that
  nothing else makes it fail.
- Every deleted account receives the pseudo 'Utilisateur supprimé', which is UNIQUE
  (`user.service.ts:84`): the second deletion ends with a 500, `reply` "DUPLICATE" in
  `Sessions`, where `swagger.yaml:1519` promises a 204.
- A refresh in flight during the deletion of its account inserts a live token after
  the revocation, because refresh never looks at the account (`auth.service.ts:164`).
- Two requests in flight use a one-time token twice (`auth.service.ts:202`), and parallel
  logins pass the limit together (`auth.service.ts:98`).
- An event is delivered twice to the sockets of an instance whose PUBLISH was executed and its answer
  lost (`broker.ts:72`), where the comment says "soit [...] par le canal Redis, soit [...]
  localement — jamais les deux" (`broker.ts:35-36`). The chat and the badge are right all
  the same: they merge by id, or count anew.
- leaveGroup deletes and promotes in two statements without a transaction
  (`message.service.ts:438`): a crash in between leaves no administrator.
- Two first messages of one pair may open two direct conversations, since migration 012
  dropped `uq_conversation_pair` (`message.service.ts:255`); consent and storage hold for
  both.
- A late decline deletes a friendship accepted meanwhile (`friend.service.ts:75`).
- addToPlanning inserts a free entry for whoever sends no slot (`planning.service.ts:88`),
  which the page does after its slots failed to load.

In the client:

- One person's access token may stand beside another's refresh token, or beside none, when a
  call writes between the two writes of another's pair, when a login ends while an exchange or a
  clearing of the earlier session is under way, when an exchange is stored after its session has gone, or
  when a kill cuts a pair (`torn` in `ClientSession`).
- The client keeps the refresh token that an exchange has revoked (`auth.service.ts:160`) and
  drops its successor (`api.ts:94`): with nothing failing, a session ends at the second expiry of
  its access token, after half an hour, where `swagger.yaml:204` gives the refresh token seven days.
- An exchange that the limiter refuses (429, `app.ts:38`) or that fails in the server (500) counts as
  a refusal: the client removes both tokens and says "Session expirée" (`api.ts:88`, `:57`),
  although the refresh token may still be good. No document says otherwise, so
  `EndsOnlyWhenRefused` lists it among the reasons.
- A creation whose answer was lost is sent again and makes a second activity
  (`ActivityForm`; the establishment form is protected by the unique index).
- The account forms keep their fields open and their keyboard active during a request
  (`register.tsx:118`): the success screen names the address in the field, which may not
  be the one that was sent (`register.tsx:27`, `:32`), the first answer reopens the
  button while another request is on its way, and a repetition after a lost answer is told that the
  account exists or the link is used. A rate-limited request of a link counts as sent.
- The SIRET prefill replaces the name and the text of the address that the user typed,
  while the chosen address stays (`use-establishment-form.ts:46-53`).
- The home and map tabs reload around the position their screen had when the pull began
  (`index.tsx:39-42`, `map.tsx:27-30`): `mixed` in `Nearby`. A timeout that comes late
  erases a position that the watch has set meanwhile (`use-user-location.ts:158-177`), and
  a `watchPositionAsync` that resolves after the unmount is not removed.
- The comment of `remove` says that a failure reloads the list and that a deletion hides the
  conversation for the user alone (`use-conversations.ts:27-28`). The code restores the list
  of the moment of the press, whatever came since, and the server deletes for everyone
  (`message.service.ts:309-323`).

**Not modelled.** Organizers' lists and dashboards, `new-group.tsx`: one
form or list each, in shapes that other modules have (section 2). Screens' layout,
styles, navigation bars, the map library: presentation. Mail and storage: input and
output without state. The rate limiter: counters of a library. The migrations runner
and the seed: run once.

The models trust PostgreSQL: that its statements are atomic, its row locks exclusive,
its constraints checked at the statement. Anything that changes isolation level, or
merges statements, changes the models too.

## 9. How to run it

    tlc -workers 2 -config Contacts.cfg MCContacts.tla     # one run
    tlapm ContactsProofs.tla                               # the proofs of a module

The runs take between a second and three minutes each (`client_screens`), the proofs
of a module between one and five minutes.
