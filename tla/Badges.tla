--------------------------------- MODULE Badges ---------------------------------
(***************************************************************************)
(* The badges of unread messages: Badge on the server of Conversation, the *)
(* events of which carry their recipients alone, since a badge reads       *)
(* nothing else of them (use-unread-message-count.ts).                     *)
(***************************************************************************)
EXTENDS Conversation

CONSTANTS Writers, Readers, MaxPending  \* as in Badge

ASSUME BadgeAssumption ==
    /\ MaxPending \in Nat \ {0}
    /\ Writers \cup Readers \subseteq User

VARIABLES unreported, pending, fresh, badge, marked, missed

BadgeEvent == [to : SUBSET User]

B == INSTANCE Badge WITH Event <- BadgeEvent

BadgeSpec == B!Spec
BadgeFairSpec == B!FairSpec

\* The requests make sense, and once everything has arrived the badge that displays
\* their answers is right, on every device that has missed nothing since its latest
\* request.  (use-unread-message-count.ts)
BadgesConsistent == B!Consistent

\* The badge never returns to an older state of the tables, however its requests and
\* their answers overtake each other (use-unread-message-count.ts:18).
NeverGoesBack == B!NeverGoesBack

\* The badges settle: an event that is not lost ends up on display
\* (use-unread-message-count.ts:32).
Settles == B!Settles
===============================================================================
