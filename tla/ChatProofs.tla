------------------------------ MODULE ChatProofs -------------------------------
(***************************************************************************)
(* Theorems about Chat, for every set of users, devices and instances of   *)
(* the API, every finite set of texts, and every bound on the rows, the    *)
(* events and the marks; then about Badge, over the same server.           *)
(***************************************************************************)
EXTENDS Chat, Badges, FiniteSetTheorems, SequenceTheorems, TLAPS

-------------------------------------------------------------------------------
(* The inductive invariant *)

\* The rows whose events are on their way to the device.
RowsOn(d) == {wire[d][k].row : k \in DOMAIN wire[d]}

\* Everything that is on its way to a device or on its screen is stored.
RowsAreStored(d) == shown[d] \cup loaded[d] \cup hidden[d] \cup RowsOn(d) \subseteq Stored

\* The answer of the history is the oldest rows, without a gap.
LoadedIsPrefix(d) ==
    /\ history[d] # "answered" => loaded[d] = {}
    /\ \A n \in loaded[d], m \in Row : m <= n => m \in loaded[d]

\* From the answer of the history on, a screen knows, awaits or has lost every row.
NothingForgotten(d) ==
    history[d] \in {"answered", "shown"} =>
        Stored \subseteq shown[d] \cup loaded[d] \cup hidden[d] \cup RowsOn(d) \cup unannounced

\* A screen that awaits no mark has marked all it shows, and has not seen the rest.
MarkedIsRead(d) ==
    screen[d] = "open" /\ marks[d] = 0 /\ d \notin unmarked =>
        /\ \A n \in shown[d] : n <= lastRead[Owner[d]]
        /\ \A n \in Stored : n <= lastRead[Owner[d]]
                                \/ n \in hidden[d] \cup RowsOn(d) \cup unannounced

DeviceFits(d) ==
    /\ screen[d] # "open" => shown[d] = {} /\ history[d] = "none"
    /\ RowsAreStored(d) /\ LoadedIsPrefix(d)
    /\ NothingForgotten(d) /\ MarkedIsRead(d)

Shapes == {shown, loaded, hidden} \subseteq [Device -> SUBSET Row]

\* The row of an answer is stored.
AnswersAreStored ==
    \A t \in Text : post[t].stage \in {"stored", "accepted"} => post[t].row \in Stored

Mine(u) == {t \in Text : Owner[Author[t]] = u}
RowsOf(u) == {n \in Stored : sender[n] = u}
Tried(u) == {t \in Mine(u) : post[t].stage # "typed"}

\* The texts that may still be inserted once more.
Repeatable(t) == post[t].stage = "asked" \/ Rejected(t)
MayInsert(u) == {t \in Mine(u) : Repeatable(t)}

\* A text is tried by the socket first, and not again once its handler has failed.
BrokenOnce ==
    \A t \in broken : post[t].stage # "typed" /\ (Via(t, "socket") => post[t].stage = "refused")

\* Each row of a user is the first one of a text, or the second one of a broken text.
Counted(u) ==
    Cardinality(RowsOf(u)) + Cardinality(MayInsert(u))
        <= Cardinality(Tried(u)) + Cardinality(Tried(u) \cap broken)
RowsAreCounted == \A u \in User \ Others : Counted(u)

IInv ==
    /\ TypeOK
    /\ Shapes /\ AnswersAreStored
    /\ \A d \in Device : DeviceFits(d)
    /\ BrokenOnce /\ RowsAreCounted

-------------------------------------------------------------------------------
(* The rows of the conversation *)

\* Rows are numbered from 1 without a gap.
LEMMA StoredRows ==
    ASSUME ConversationType
    PROVE  /\ Len(sender) \in Nat /\ MaxRows \in Nat
           /\ \A n : n \in Stored <=> n \in Nat /\ 1 <= n /\ n <= Len(sender)
           /\ Stored \subseteq Row /\ Stored \subseteq Nat
           /\ \A u \in User : lastRead[u] \in Nat /\ lastRead[u] <= Len(sender)
  BY BoundsAssumption DEF ConversationType, Stored, Row

\* A new row is the next one, and has to be announced.
LEMMA InsertFacts ==
    ASSUME ConversationType, NEW u \in User, Insert(u)
    PROVE  /\ ConversationType'
           /\ Len(sender') = Len(sender) + 1 /\ sender'[Len(sender')] = u
           /\ Stored' = Stored \cup {Len(sender')} /\ Len(sender') \notin Stored
           /\ \A n \in Stored : sender'[n] = sender[n]
           /\ unannounced' = unannounced \cup {Len(sender')} /\ lastRead' = lastRead
<1>1. /\ sender \in Seq(User) /\ Len(sender) \in Nat /\ MaxRows \in Nat
      /\ DOMAIN sender = 1 .. Len(sender)
  BY StoredRows DEF ConversationType
<1>2. /\ sender' \in Seq(User) /\ Len(sender') = Len(sender) + 1
      /\ DOMAIN sender' = 1 .. Len(sender') /\ sender'[Len(sender')] = u
      /\ \A n \in 1 .. Len(sender) : sender'[n] = sender[n]
  BY <1>1 DEF Insert
<1>3. Stored' = Stored \cup {Len(sender')} /\ Len(sender') \notin Stored
  BY <1>1, <1>2 DEF Stored
<1>4. Len(sender') \in Row
  BY <1>1, <1>2 DEF Insert, Row
<1> QED
  BY <1>1, <1>2, <1>3, <1>4 DEF Insert, ConversationType, Stored

\* A mark covers all the rows.
LEMMA MarkFacts ==
    ASSUME ConversationType, NEW u \in User, Mark(u)
    PROVE  /\ ConversationType' /\ UNCHANGED <<sender, unannounced>>
           /\ \A v \in User : lastRead'[v] = IF v = u THEN Len(sender) ELSE lastRead[v]
<1>1. Len(sender) \in Stored \cup {0}
  BY StoredRows DEF ConversationType
<1> QED
  BY <1>1 DEF Mark, ConversationType, Stored

\* Who touches the conversation.
ConversationStep ==
    \/ \E u \in User : Insert(u)
    \/ \E n \in unannounced : Finish(n)
    \/ \E d \in Device : Mark(Owner[d])
    \/ UNCHANGED conversation

\* The conversation grows: rows stay, what is read stays so, and new rows are announced.
LEMMA ConversationGrows ==
    ASSUME ConversationType, ConversationStep
    PROVE  /\ ConversationType' /\ Stored \subseteq Stored'
           /\ \A n \in Stored : sender'[n] = sender[n]
           /\ Stored' \ Stored \subseteq unannounced'
           /\ \A u \in User : lastRead[u] <= lastRead'[u]
<1>1. \A u \in User : lastRead[u] \in Nat /\ lastRead[u] <= Len(sender)
  BY StoredRows
<1>2. ASSUME NEW u \in User, Insert(u)
      PROVE  /\ ConversationType' /\ Stored \subseteq Stored'
             /\ \A n \in Stored : sender'[n] = sender[n]
             /\ Stored' \ Stored \subseteq unannounced'
             /\ \A v \in User : lastRead[v] <= lastRead'[v]
  BY <1>1, <1>2, InsertFacts
<1>3. ASSUME NEW n \in unannounced, Finish(n)
      PROVE  ConversationType' /\ UNCHANGED <<sender, lastRead>>
  BY <1>3 DEF Finish, ConversationType, Stored
<1>4. ASSUME NEW d \in Device, Mark(Owner[d])
      PROVE  /\ ConversationType' /\ UNCHANGED sender
             /\ \A u \in User : lastRead[u] <= lastRead'[u]
  <2>1. Owner[d] \in User
    BY OwnerAssumption
  <2> QED
    BY <1>1, <1>4, <2>1, MarkFacts
<1>5. CASE UNCHANGED conversation
  BY <1>1, <1>5 DEF conversation, ConversationType, Stored
<1> QED
  BY <1>1, <1>2, <1>3, <1>4, <1>5 DEF ConversationStep, Stored

-------------------------------------------------------------------------------
(* The transport *)

\* Each instance emits an event a number of times.
LEMMA DeliveryTypes ==
    ASSUME NEW i \in Instance, NEW copies \in Deliveries(i)
    PROVE  copies \in [Instance -> Nat]
<1>1. \A I : Once(I) \in [Instance -> Nat]
  BY DEF Once
<1> QED
  BY <1>1 DEF Deliveries

\* The next event of a socket, and what is left.
LEMMA NextEvent ==
    ASSUME NEW s \in Seq(Event), s # <<>>
    PROVE  /\ Tail(s) \in Seq(Event) /\ Head(s) \in Event
           /\ {s[k].row : k \in DOMAIN s} = {Head(s).row} \cup {Tail(s)[k].row : k \in DOMAIN Tail(s)}
<1>1. /\ Len(s) \in Nat /\ Len(s) > 0 /\ DOMAIN s = 1 .. Len(s)
      /\ Tail(s) \in Seq(Event) /\ Len(Tail(s)) = Len(s) - 1 /\ DOMAIN Tail(s) = 1 .. (Len(s) - 1)
      /\ Head(s) = s[1] /\ Head(s) \in Event
      /\ \A k \in 1 .. (Len(s) - 1) : Tail(s)[k] = s[k + 1]
  OBVIOUS
<1>2. ASSUME NEW k \in DOMAIN s
      PROVE  s[k].row \in {Head(s).row} \cup {Tail(s)[j].row : j \in DOMAIN Tail(s)}
  <2>1. CASE k = 1
    BY <1>1, <2>1
  <2>2. CASE k # 1
    <3>1. k - 1 \in 1 .. (Len(s) - 1) /\ Tail(s)[k - 1] = s[k]
      BY <1>1, <2>2
    <3> QED
      BY <1>1, <3>1
  <2> QED
    BY <2>1, <2>2
<1>3. ASSUME NEW j \in DOMAIN Tail(s)
      PROVE  Tail(s)[j].row \in {s[k].row : k \in DOMAIN s}
  <2>1. j + 1 \in DOMAIN s /\ Tail(s)[j] = s[j + 1]
    BY <1>1
  <2> QED
    BY <2>1
<1>4. Head(s).row \in {s[k].row : k \in DOMAIN s}
  BY <1>1
<1> QED
  BY <1>1, <1>2, <1>3, <1>4

\* Copies of an event at the end of a queue.
LEMMA MoreEvents ==
    ASSUME NEW s \in Seq(Event), NEW e \in Event, NEW m \in Nat
    PROVE  LET t == s \o [n \in 1 .. m |-> e]
           IN  /\ t \in Seq(Event)
               /\ {t[k].row : k \in DOMAIN t}
                    = {s[k].row : k \in DOMAIN s} \cup (IF m = 0 THEN {} ELSE {e.row})
<1> DEFINE f == [n \in 1 .. m |-> e]
           t == s \o f
<1>1. /\ f \in Seq(Event) /\ Len(f) = m
  OBVIOUS
<1>2. /\ Len(s) \in Nat /\ t \in Seq(Event) /\ Len(t) = Len(s) + m
      /\ DOMAIN s = 1 .. Len(s) /\ DOMAIN t = 1 .. (Len(s) + m)
      /\ \A k \in 1 .. Len(s) : t[k] = s[k]
      /\ \A k \in 1 .. (Len(s) + m) : k > Len(s) => t[k] = f[k - Len(s)]
  <2> HIDE DEF f
  <2> QED BY <1>1
<1>3. \A k \in 1 .. (Len(s) + m) : k > Len(s) => t[k] = e
  <2> SUFFICES ASSUME NEW k \in 1 .. (Len(s) + m), k > Len(s) PROVE t[k] = e
    OBVIOUS
  <2>1. k - Len(s) \in 1 .. m /\ t[k] = f[k - Len(s)]
    BY <1>2
  <2> QED
    BY <2>1
<1>4. m # 0 => Len(s) + m \in 1 .. (Len(s) + m) /\ Len(s) + m > Len(s)
  BY <1>2
<1> HIDE DEF t
<1>5. ASSUME NEW k \in DOMAIN t
      PROVE  t[k].row \in {s[j].row : j \in DOMAIN s} \cup (IF m = 0 THEN {} ELSE {e.row})
  BY <1>2, <1>3
<1>6. ASSUME NEW k \in DOMAIN s PROVE s[k].row \in {t[j].row : j \in DOMAIN t}
  <2>1. k \in DOMAIN t /\ t[k] = s[k]
    BY <1>2
  <2> QED
    BY <2>1
<1>7. m # 0 => e.row \in {t[j].row : j \in DOMAIN t}
  BY <1>2, <1>3, <1>4
<1>8. /\ t \in Seq(Event)
      /\ {t[k].row : k \in DOMAIN t}
            = {s[k].row : k \in DOMAIN s} \cup (IF m = 0 THEN {} ELSE {e.row})
  BY <1>2, <1>5, <1>6, <1>7
<1> QED
  BY <1>8 DEF t

\* A publication writes its row to the sockets it reaches.
LEMMA PublishWrites ==
    ASSUME IInv, NEW n \in Row, Publish(n)
    PROVE  /\ TransportType' /\ n \in unannounced
           /\ \A d \in Device :
                \/ RowsOn(d)' = RowsOn(d) \cup {n} /\ hidden'[d] = hidden[d]
                \/ wire'[d] = wire[d] /\ hidden'[d] = Without(d, {n})
<1> DEFINE e == [to |-> User, row |-> n]
<1> DEFINE Sent(copies) ==
        /\ Dispatch(e, copies)
        /\ hidden' = [d \in Device |-> IF d \in Reached(e, copies) THEN hidden[d] ELSE Without(d, {n})]
<1>0. PICK i \in Instance : \E copies \in Deliveries(i) : Sent(copies)
  BY DEF Publish
<1>1. PICK copies \in Deliveries(i) : Sent(copies)
  BY <1>0
<1>2. e \in Event /\ copies \in [Instance -> Nat] /\ n \in unannounced
  BY <1>1, ChatAssumption, DeliveryTypes DEF Publish, Finish
<1>3. /\ home \in [Device -> Instance \cup {None}] /\ wire \in [Device -> Seq(Event)]
      /\ \A d \in Device : home[d] = None => wire[d] = <<>>
      /\ None \notin Instance
  BY OwnerAssumption DEF IInv, TypeOK, TransportType
<1> HIDE DEF e
<1>4. home' = home /\ DOMAIN wire' = Device /\ wire' = [d \in Device |-> wire'[d]]
  BY <1>1 DEF Dispatch
<1>5. ASSUME NEW d \in Device
      PROVE  /\ wire'[d] \in Seq(Event) /\ (home'[d] = None => wire'[d] = <<>>)
             /\ \/ RowsOn(d)' = RowsOn(d) \cup {n} /\ hidden'[d] = hidden[d]
                \/ wire'[d] = wire[d] /\ hidden'[d] = Without(d, {n})
  <2>1. CASE d \in Reached(e, copies)
    <3>1. PICK m \in Nat : m = Copies(d, copies) /\ m # 0 /\ home[d] # None
      BY <1>2, <1>3, <2>1 DEF Reached, Copies
    <3>2. wire'[d] = wire[d] \o [k \in 1 .. m |-> e] /\ hidden'[d] = hidden[d]
      BY <1>1, <2>1, <3>1 DEF Dispatch
    <3>3. /\ wire'[d] \in Seq(Event)
          /\ {wire'[d][k].row : k \in DOMAIN wire'[d]}
                = {wire[d][k].row : k \in DOMAIN wire[d]} \cup {e.row}
      <4>1. wire[d] \in Seq(Event)
        BY <1>3
      <4>2. LET t == wire[d] \o [k \in 1 .. m |-> e]
            IN  /\ t \in Seq(Event)
                /\ {t[k].row : k \in DOMAIN t}
                    = {wire[d][k].row : k \in DOMAIN wire[d]} \cup (IF m = 0 THEN {} ELSE {e.row})
        BY <1>2, <4>1, MoreEvents
      <4> QED
        BY <3>1, <3>2, <4>2
    <3>4. e.row = n
      BY DEF e
    <3> QED
      BY <1>4, <3>1, <3>2, <3>3, <3>4 DEF RowsOn
  <2>2. CASE d \notin Reached(e, copies)
    BY <1>1, <1>3, <1>4, <2>2 DEF Dispatch
  <2> QED
    BY <2>1, <2>2
<1>6. wire' \in [Device -> Seq(Event)]
  BY <1>4, <1>5
<1> QED
  BY <1>2, <1>3, <1>4, <1>5, <1>6 DEF TransportType

\* A device takes the next event of its socket.
LEMMA TakeReads ==
    ASSUME IInv, NEW d \in Device, Take(d)
    PROVE  /\ TransportType' /\ Head(wire[d]).row \in Row
           /\ RowsOn(d) = {Head(wire[d]).row} \cup RowsOn(d)'
           /\ \A q \in Device \ {d} : wire'[q] = wire[q]
<1>1. /\ home \in [Device -> Instance \cup {None}] /\ wire \in [Device -> Seq(Event)]
      /\ \A q \in Device : home[q] = None => wire[q] = <<>>
  BY DEF IInv, TypeOK, TransportType
<1>2. wire[d] # <<>> /\ wire' = [wire EXCEPT ![d] = Tail(@)] /\ home' = home
  BY DEF Take
<1>3. /\ Tail(wire[d]) \in Seq(Event) /\ Head(wire[d]) \in Event
      /\ {wire[d][k].row : k \in DOMAIN wire[d]}
            = {Head(wire[d]).row} \cup {Tail(wire[d])[k].row : k \in DOMAIN Tail(wire[d])}
  BY <1>1, <1>2, NextEvent
<1>4. wire'[d] = Tail(wire[d]) /\ \A q \in Device \ {d} : wire'[q] = wire[q]
  BY <1>1, <1>2
<1>5. wire' \in [Device -> Seq(Event)] /\ home[d] # None
  BY <1>1, <1>2, <1>3
<1>6. Head(wire[d]).row \in Row
  BY <1>3, ChatAssumption
<1>7. TransportType'
  BY <1>1, <1>2, <1>4, <1>5 DEF TransportType
<1> QED
  BY <1>3, <1>4, <1>6, <1>7 DEF RowsOn

\* A socket comes or goes: nothing is on its way to a device without one.
LEMMA SocketSteps ==
    ASSUME IInv, NEW d \in Device
    PROVE  /\ Connect(d) => TransportType' /\ wire' = wire
           /\ Disconnect(d) => /\ TransportType' /\ RowsOn(d)' = {}
                               /\ \A q \in Device \ {d} : wire'[q] = wire[q]
<1>1. /\ home \in [Device -> Instance \cup {None}] /\ wire \in [Device -> Seq(Event)]
      /\ \A q \in Device : home[q] = None => wire[q] = <<>>
      /\ None \notin Instance
  BY OwnerAssumption DEF IInv, TypeOK, TransportType
<1>2. ASSUME Connect(d) PROVE TransportType' /\ wire' = wire
  BY <1>1, <1>2 DEF Connect, TransportType
<1>3. ASSUME Disconnect(d)
      PROVE  /\ TransportType' /\ RowsOn(d)' = {}
             /\ \A q \in Device \ {d} : wire'[q] = wire[q]
  <2>1. /\ wire' = [wire EXCEPT ![d] = <<>>] /\ home' = [home EXCEPT ![d] = None]
    BY <1>3 DEF Disconnect
  <2>2. wire'[d] = <<>> /\ \A q \in Device \ {d} : wire'[q] = wire[q] /\ home'[q] = home[q]
    BY <1>1, <2>1
  <2>3. wire' \in [Device -> Seq(Event)] /\ home' \in [Device -> Instance \cup {None}]
    BY <1>1, <2>1
  <2>4. TransportType'
    BY <1>1, <2>2, <2>3 DEF TransportType
  <2>5. RowsOn(d)' = {}
    BY <2>2 DEF RowsOn
  <2> QED
    BY <2>2, <2>4, <2>5
<1> QED
  BY <1>2, <1>3

-------------------------------------------------------------------------------
(* Screens *)

\* What a device has, but for its socket's queue.
SameDevice(d) ==
    /\ screen'[d] = screen[d] /\ history'[d] = history[d]
    /\ loaded'[d] = loaded[d] /\ shown'[d] = shown[d] /\ hidden'[d] = hidden[d]
    /\ marks'[d] = marks[d] /\ (d \in unmarked' <=> d \in unmarked)

\* The sets of rows and the types that the steps below rely on.
LEMMA DeviceTypes ==
    ASSUME IInv, NEW d \in Device
    PROVE  /\ ConversationType /\ Owner[d] \in User /\ lastRead[Owner[d]] \in Nat
           /\ Stored \subseteq Nat /\ DeviceFits(d)
           /\ IsFiniteSet(shown[d]) /\ IsFiniteSet(loaded[d])
           /\ {shown, loaded, hidden} \subseteq [Device -> SUBSET Row]
           /\ screen \in [Device -> {"closed", "open", "left"}]
           /\ history \in [Device -> {"none", "asked", "answered", "shown"}]
           /\ marks \in [Device -> Nat] /\ marks \in [Device -> 0 .. MaxMarks]
           /\ unmarked \subseteq Device
<1>1. /\ ConversationType /\ Owner[d] \in User /\ lastRead[Owner[d]] \in Nat
      /\ Stored \subseteq Nat /\ Stored = 1 .. Len(sender) /\ Len(sender) \in Nat
  BY StoredRows, OwnerAssumption DEF IInv, TypeOK, ConversationType, Stored
<1>2. IsFiniteSet(Stored)
  BY <1>1, FS_Interval
<1>3. shown[d] \subseteq Stored /\ loaded[d] \subseteq Stored
  BY DEF IInv, DeviceFits, RowsAreStored
<1>4. IsFiniteSet(shown[d]) /\ IsFiniteSet(loaded[d])
  BY <1>2, <1>3, FS_Subset
<1>5. marks \in [Device -> 0 .. MaxMarks] /\ MaxMarks \in Nat
  BY BoundsAssumption DEF IInv, TypeOK
<1>6. marks \in [Device -> Nat]
  BY <1>5
<1> QED
  BY <1>1, <1>4, <1>5, <1>6 DEF IInv, TypeOK, Shapes

\* A device that does nothing stays fit while the conversation grows.
LEMMA DeviceStays ==
    ASSUME IInv, NEW d \in Device, ConversationStep, unannounced \subseteq unannounced',
           SameDevice(d), wire'[d] = wire[d]
    PROVE  DeviceFits(d)'
<1>1. /\ Stored \subseteq Stored' /\ Stored' \ Stored \subseteq unannounced'
      /\ lastRead[Owner[d]] <= lastRead'[Owner[d]]
      /\ lastRead[Owner[d]] \in Nat /\ lastRead'[Owner[d]] \in Nat
      /\ Stored \subseteq Nat /\ DeviceFits(d)
  <2>1. ConversationType' /\ Owner[d] \in User
    BY ConversationGrows, DeviceTypes
  <2>2. lastRead'[Owner[d]] \in Nat
    BY <2>1, StoredRows DEF ConversationType, Stored, Row
  <2> QED
    BY <2>1, <2>2, ConversationGrows, DeviceTypes
<1>2. RowsOn(d)' = RowsOn(d)
  BY DEF RowsOn
<1>3. RowsAreStored(d)' /\ LoadedIsPrefix(d)' /\ NothingForgotten(d)'
  BY <1>1, <1>2 DEF SameDevice, DeviceFits, RowsAreStored, LoadedIsPrefix, NothingForgotten
<1>4. MarkedIsRead(d)'
  <2>1. \A n \in Stored : n \in Nat /\ (n <= lastRead[Owner[d]] => n <= lastRead'[Owner[d]])
    <3>1. /\ lastRead[Owner[d]] <= lastRead'[Owner[d]] /\ Stored \subseteq Nat
          /\ lastRead[Owner[d]] \in Nat /\ lastRead'[Owner[d]] \in Nat
      BY <1>1
    <3> QED
      BY <3>1
  <2>2. shown[d] \subseteq Stored /\ MarkedIsRead(d) /\ RowsOn(d) \subseteq Stored
    BY <1>1 DEF DeviceFits, RowsAreStored
  <2> QED
    BY <1>1, <1>2, <2>1, <2>2 DEF SameDevice, MarkedIsRead
<1> QED
  BY <1>1, <1>3, <1>4 DEF SameDevice, DeviceFits

\* A mark is asked for.
LEMMA MarkIsAsked ==
    ASSUME IInv, NEW d \in Device, AskMark(d)
    PROVE  /\ marks' \in [Device -> 0 .. MaxMarks] /\ marks'[d] # 0
           /\ unmarked' \subseteq Device
           /\ \A q \in Device \ {d} :
                marks'[q] = marks[q] /\ (q \in unmarked' <=> q \in unmarked)
<1>1. marks \in [Device -> 0 .. MaxMarks] /\ MaxMarks \in Nat /\ unmarked \subseteq Device
  BY BoundsAssumption DEF IInv, TypeOK
<1> QED
  BY <1>1 DEF AskMark

\* A screen shows other messages: it asks for a mark, unless their number is the same.
LEMMA ShowFacts ==
    ASSUME IInv, NEW d \in Device, NEW messages \in SUBSET Row, Show(d, messages)
    PROVE  /\ shown' \in [Device -> SUBSET Row] /\ shown'[d] = messages
           /\ marks' \in [Device -> 0 .. MaxMarks] /\ unmarked' \subseteq Device
           /\ \A q \in Device \ {d} :
                /\ shown'[q] = shown[q] /\ marks'[q] = marks[q]
                /\ q \in unmarked' <=> q \in unmarked
           /\ \/ marks'[d] # 0
              \/ /\ UNCHANGED <<marks, unmarked>>
                 /\ Cardinality(shown[d]) = Cardinality(messages)
<1>1. /\ shown \in [Device -> SUBSET Row] /\ marks \in [Device -> 0 .. MaxMarks]
      /\ unmarked \subseteq Device
  BY DEF IInv, TypeOK, Shapes
<1>2. CASE LengthChanged(shown[d], messages)
  BY <1>1, <1>2, MarkIsAsked DEF Show
<1>3. CASE ~LengthChanged(shown[d], messages)
  BY <1>1, <1>3 DEF Show, LengthChanged
<1> QED
  BY <1>2, <1>3

\* The screen's types after a step.
ScreensFit ==
    /\ screen \in [Device -> {"closed", "open", "left"}]
    /\ history \in [Device -> {"none", "asked", "answered", "shown"}]
    /\ Shapes /\ marks \in [Device -> 0 .. MaxMarks] /\ unmarked \subseteq Device
    /\ \A d \in Device : DeviceFits(d)

\* A screen that opens has asked for a mark.
LEMMA OpenFits ==
    ASSUME IInv, NEW d \in Device, Open(d)
    PROVE  ScreensFit'
<1>1. DeviceFits(d) /\ AskMark(d)
  BY DeviceTypes DEF Open
<1>2. /\ screen'[d] = "open" /\ history'[d] = "asked" /\ marks'[d] # 0
      /\ loaded' = loaded /\ shown' = shown /\ hidden' = hidden /\ wire' = wire
      /\ ConversationStep /\ UNCHANGED conversation
      /\ \A q \in Device \ {d} : SameDevice(q)
  BY <1>1, DeviceTypes, MarkIsAsked DEF Open, SameDevice, ConversationStep, transport
<1>3. screen[d] = "closed"
  BY DEF Open
<1>4. DeviceFits(d)'
  BY <1>1, <1>2, <1>3 DEF DeviceFits, RowsAreStored, RowsOn, LoadedIsPrefix, NothingForgotten,
     MarkedIsRead, conversation, Stored
<1>5. \A q \in Device \ {d} : DeviceFits(q)'
  BY <1>2, DeviceStays DEF conversation
<1>6. /\ screen' \in [Device -> {"closed", "open", "left"}]
      /\ history' \in [Device -> {"none", "asked", "answered", "shown"}]
  BY DeviceTypes DEF Open
<1> QED
  BY <1>1, <1>2, <1>4, <1>5, <1>6, DeviceTypes, MarkIsAsked DEF ScreensFit, Shapes

\* The answer of the history has every row stored so far.
LEMMA ReadHistoryFits ==
    ASSUME IInv, NEW d \in Device, ReadHistory(d)
    PROVE  ScreensFit'
<1>1. /\ DeviceFits(d) /\ Stored \subseteq Row /\ \A n \in Stored, m \in Row : m <= n => m \in Stored
  <2>1. ConversationType /\ DeviceFits(d)
    BY DeviceTypes
  <2> QED
    BY <2>1, StoredRows, BoundsAssumption DEF Row
<1>2. /\ history[d] = "asked" /\ history'[d] = "answered" /\ loaded'[d] = Stored
      /\ screen' = screen /\ shown' = shown /\ hidden' = hidden /\ wire' = wire
      /\ marks' = marks /\ unmarked' = unmarked
      /\ ConversationStep /\ UNCHANGED conversation
      /\ \A q \in Device \ {d} : SameDevice(q)
  BY DeviceTypes DEF ReadHistory, SameDevice, ConversationStep, transport
<1>3. DeviceFits(d)'
  BY <1>1, <1>2 DEF DeviceFits, RowsAreStored, RowsOn, LoadedIsPrefix, NothingForgotten,
     MarkedIsRead, conversation, Stored
<1>4. \A q \in Device \ {d} : DeviceFits(q)'
  BY <1>2, DeviceStays DEF conversation
<1>5. /\ history' \in [Device -> {"none", "asked", "answered", "shown"}]
      /\ loaded' \in [Device -> SUBSET Row]
  BY <1>1, DeviceTypes DEF ReadHistory
<1> QED
  BY <1>2, <1>3, <1>4, <1>5, DeviceTypes DEF ScreensFit, Shapes

\* The history replaces the messages: those it does not have are lost, and if it has as
\* many as the screen showed, either it is the same or the screen had marked a newer one.
LEMMA TakeHistoryFits ==
    ASSUME IInv, NEW d \in Device, TakeHistory(d)
    PROVE  ScreensFit'
<1>1. /\ DeviceFits(d) /\ loaded[d] \in SUBSET Row /\ Show(d, loaded[d])
      /\ shown[d] \subseteq Stored /\ loaded[d] \subseteq Stored /\ Stored \subseteq Nat
      /\ IsFiniteSet(shown[d]) /\ IsFiniteSet(loaded[d]) /\ lastRead[Owner[d]] \in Nat
  BY DeviceTypes DEF TakeHistory, DeviceFits, RowsAreStored
<1>2. /\ history[d] = "answered" /\ history'[d] = "shown" /\ loaded'[d] = {}
      /\ shown'[d] = loaded[d] /\ hidden'[d] = (hidden[d] \cup shown[d]) \ loaded[d]
      /\ screen' = screen /\ wire' = wire
      /\ ConversationStep /\ UNCHANGED conversation
      /\ \A q \in Device \ {d} : SameDevice(q)
  BY <1>1, DeviceTypes, ShowFacts DEF TakeHistory, SameDevice, ConversationStep, transport
<1>3. RowsOn(d)' = RowsOn(d) /\ Stored' = Stored /\ unannounced' = unannounced
      /\ lastRead' = lastRead
  BY <1>2 DEF RowsOn, Stored, conversation
<1>4. ASSUME screen[d] = "open", marks'[d] = 0, d \notin unmarked'
      PROVE  /\ \A n \in loaded[d] : n <= lastRead[Owner[d]]
             /\ \A n \in Stored : n <= lastRead[Owner[d]]
                    \/ n \in (hidden[d] \cup shown[d]) \ loaded[d] \/ n \in RowsOn(d) \cup unannounced
  <2>1. /\ marks' = marks /\ unmarked' = unmarked
        /\ Cardinality(shown[d]) = Cardinality(loaded[d])
    BY <1>1, <1>4, ShowFacts
  <2>2. /\ \A n \in shown[d] : n <= lastRead[Owner[d]]
        /\ \A n \in Stored : n <= lastRead[Owner[d]]
                                \/ n \in hidden[d] \cup RowsOn(d) \cup unannounced
    BY <1>1, <1>4, <2>1 DEF DeviceFits, MarkedIsRead
  <2>3. \A n \in loaded[d] : n <= lastRead[Owner[d]]
    <3>1. CASE shown[d] \subseteq loaded[d]
      <4>1. shown[d] = loaded[d]
        BY <1>1, <2>1, <3>1, FS_Subset
      <4> QED
        BY <2>2, <4>1
    <3>2. CASE ~(shown[d] \subseteq loaded[d])
      <4>1. PICK m \in shown[d] : m \notin loaded[d]
        BY <3>2
      <4>2. \A n \in loaded[d] : n < m
        <5>1. m \in Row /\ m \in Nat /\ loaded[d] \subseteq Nat
          BY <1>1, DeviceTypes
        <5>2. \A n \in loaded[d] : ~(m <= n)
          BY <1>1, <4>1, <5>1 DEF DeviceFits, LoadedIsPrefix
        <5> QED
          BY <5>1, <5>2
      <4>3. m <= lastRead[Owner[d]] /\ m \in Nat /\ loaded[d] \subseteq Nat
        BY <1>1, <2>2
      <4> QED
        BY <1>1, <4>2, <4>3
    <3> QED
      BY <3>1, <3>2
  <2> QED
    BY <2>2, <2>3
<1>5. DeviceFits(d)'
  <2>1. RowsAreStored(d)' /\ LoadedIsPrefix(d)' /\ NothingForgotten(d)'
    BY <1>1, <1>2, <1>3 DEF DeviceFits, RowsAreStored, LoadedIsPrefix, NothingForgotten
  <2>2. MarkedIsRead(d)'
    BY <1>2, <1>3, <1>4 DEF MarkedIsRead
  <2>3. screen'[d] = "open"
    BY <1>1, <1>2 DEF DeviceFits
  <2> QED
    BY <2>1, <2>2, <2>3 DEF DeviceFits
<1>6. \A q \in Device \ {d} : DeviceFits(q)'
  BY <1>2, DeviceStays DEF conversation
<1>7. /\ history' \in [Device -> {"none", "asked", "answered", "shown"}]
      /\ loaded' \in [Device -> SUBSET Row] /\ hidden' \in [Device -> SUBSET Row]
  BY DeviceTypes DEF TakeHistory
<1> QED
  BY <1>1, <1>2, <1>5, <1>6, <1>7, DeviceTypes, ShowFacts DEF ScreensFit, Shapes

\* A history that does not come, and a screen that closes.
LEMMA LoseHistoryFits ==
    ASSUME IInv, NEW d \in Device, LoseHistory(d) \/ Close(d)
    PROVE  ScreensFit'
<1>1. DeviceFits(d)
  BY DeviceTypes
<1>2. /\ history'[d] = "none" /\ loaded'[d] = {}
      /\ \/ shown'[d] = shown[d] /\ hidden'[d] = hidden[d] /\ screen'[d] = screen[d]
         \/ shown'[d] = {} /\ hidden'[d] = {} /\ screen'[d] = "left"
      /\ wire' = wire /\ marks' = marks /\ unmarked' = unmarked
      /\ ConversationStep /\ UNCHANGED conversation
      /\ \A q \in Device \ {d} : SameDevice(q)
  BY DeviceTypes DEF LoseHistory, Close, SameDevice, ConversationStep, transport
<1>3. DeviceFits(d)'
  BY <1>1, <1>2 DEF DeviceFits, RowsAreStored, RowsOn, LoadedIsPrefix, NothingForgotten,
     MarkedIsRead, conversation, Stored
<1>4. \A q \in Device \ {d} : DeviceFits(q)'
  BY <1>2, DeviceStays DEF conversation
<1>5. /\ history' \in [Device -> {"none", "asked", "answered", "shown"}]
      /\ screen' \in [Device -> {"closed", "open", "left"}]
      /\ loaded' \in [Device -> SUBSET Row] /\ hidden' \in [Device -> SUBSET Row]
      /\ shown' \in [Device -> SUBSET Row]
  BY DeviceTypes DEF LoseHistory, Close
<1> QED
  BY <1>2, <1>3, <1>4, <1>5, DeviceTypes DEF ScreensFit, Shapes

\* A screen that shows one more stored message, which leaves the socket or the answer of
\* a text: what it awaited of that row it now shows.
LEMMA MergeFits ==
    ASSUME IInv, NEW d \in Device, NEW n \in Stored,
           screen[d] = "open", Show(d, Merged(shown[d], n)),
           UNCHANGED <<screen, history, loaded, hidden, conversation>>,
           RowsOn(d) \subseteq RowsOn(d)' \cup {n}, RowsOn(d)' \subseteq RowsOn(d),
           \A q \in Device \ {d} : wire'[q] = wire[q]
    PROVE  ScreensFit'
<1>1. /\ DeviceFits(d) /\ n \in Row /\ shown[d] \in SUBSET Row
      /\ Stored \subseteq Nat /\ IsFiniteSet(shown[d])
      /\ Merged(shown[d], n) \in SUBSET Row /\ shown[d] \subseteq Stored
  BY DeviceTypes DEF Merged, ConversationType, DeviceFits, RowsAreStored
<1>2. /\ shown'[d] = shown[d] \cup {n} /\ ConversationStep
      /\ Stored' = Stored /\ unannounced' = unannounced /\ lastRead' = lastRead
      /\ \A q \in Device \ {d} : SameDevice(q)
  BY <1>1, ShowFacts DEF Merged, SameDevice, ConversationStep, conversation, Stored
<1>3. ASSUME marks'[d] = 0, d \notin unmarked', screen[d] = "open"
      PROVE  /\ \A m \in shown[d] \cup {n} : m <= lastRead[Owner[d]]
             /\ \A m \in Stored : m <= lastRead[Owner[d]]
                    \/ m \in hidden[d] \cup RowsOn(d) \cup unannounced
  <2>1. /\ marks' = marks /\ unmarked' = unmarked
        /\ Cardinality(shown[d]) = Cardinality(shown[d] \cup {n})
    BY <1>1, <1>3, ShowFacts DEF Merged
  <2>2. n \in shown[d]
    <3>1. Cardinality(shown[d]) \in Nat
      BY <1>1, FS_CardinalityType
    <3>2. Cardinality(shown[d] \cup {n})
            = IF n \in shown[d] THEN Cardinality(shown[d]) ELSE Cardinality(shown[d]) + 1
      BY <1>1, FS_AddElement
    <3> QED
      BY <2>1, <3>1, <3>2
  <2> QED
    BY <1>1, <1>3, <2>1, <2>2 DEF DeviceFits, MarkedIsRead
<1>4. DeviceFits(d)'
  <2>1. RowsAreStored(d)' /\ LoadedIsPrefix(d)' /\ NothingForgotten(d)'
    BY <1>1, <1>2 DEF DeviceFits, RowsAreStored, LoadedIsPrefix, NothingForgotten
  <2>2. MarkedIsRead(d)'
    <3>1. SUFFICES ASSUME marks'[d] = 0, d \notin unmarked', screen[d] = "open"
                   PROVE  /\ \A m \in shown'[d] : m <= lastRead[Owner[d]]
                          /\ \A m \in Stored : m <= lastRead[Owner[d]]
                                \/ m \in hidden[d] \cup RowsOn(d)' \cup unannounced
      BY <1>2 DEF MarkedIsRead
    <3> QED
      BY <1>2, <1>3, <3>1
  <2> QED
    BY <1>1, <2>1, <2>2 DEF DeviceFits
<1>5. \A q \in Device \ {d} : DeviceFits(q)'
  BY <1>2, DeviceStays DEF conversation
<1> QED
  BY <1>1, <1>4, <1>5, DeviceTypes, ShowFacts DEF ScreensFit, Shapes

\* An event comes to a screen, or to a device whose screen is closed.
LEMMA ReceiveFits ==
    ASSUME IInv, NEW d \in Device, Receive(d)
    PROVE  ScreensFit'
<1>1. /\ Take(d) /\ UNCHANGED <<screen, history, loaded, hidden, conversation>>
      /\ RowsOn(d) = {Head(wire[d]).row} \cup RowsOn(d)'
      /\ \A q \in Device \ {d} : wire'[q] = wire[q]
      /\ DeviceFits(d)
  BY TakeReads, DeviceTypes DEF Receive
<1>2. CASE screen[d] = "open"
  <2>1. PICK n \in Stored : n = Head(wire[d]).row
    BY <1>1 DEF DeviceFits, RowsAreStored
  <2>2. Show(d, Merged(shown[d], n))
    BY <1>2, <2>1 DEF Receive
  <2> QED
    BY <1>1, <1>2, <2>1, <2>2, MergeFits
<1>3. CASE screen[d] # "open"
  <2>1. UNCHANGED <<shown, marks, unmarked>> /\ ConversationStep
        /\ Stored' = Stored /\ \A q \in Device : SameDevice(q)
    BY <1>1, <1>3 DEF Receive, ConversationStep, SameDevice, Stored, conversation
  <2>2. DeviceFits(d)'
    BY <1>1, <1>3, <2>1 DEF DeviceFits, RowsAreStored, LoadedIsPrefix, NothingForgotten, MarkedIsRead
  <2>3. \A q \in Device \ {d} : DeviceFits(q)'
    BY <1>1, <2>1, DeviceStays DEF conversation
  <2> QED
    BY <1>1, <2>1, <2>2, <2>3, DeviceTypes DEF ScreensFit, Shapes
<1> QED
  BY <1>2, <1>3

\* The answer of the server adds its message to the screen.
LEMMA AcceptFits ==
    ASSUME IInv, NEW t \in Text, Accept(t)
    PROVE  ScreensFit'
<1>1. PICK d \in Device : d = Author[t]
  BY ChatAssumption
<1>2. /\ UNCHANGED <<screen, history, loaded, hidden, conversation, wire>>
      /\ post[t].row \in Stored
  BY DEF Accept, transport, IInv, AnswersAreStored
<1>3. \A q \in Device : RowsOn(q)' = RowsOn(q) /\ wire'[q] = wire[q]
  BY <1>2 DEF RowsOn
<1>4. CASE screen[d] = "open"
  <2>1. Show(d, Merged(shown[d], post[t].row))
    BY <1>1, <1>4 DEF Accept
  <2> QED
    BY <1>2, <1>3, <1>4, <2>1, MergeFits
<1>5. CASE screen[d] # "open"
  <2>1. UNCHANGED <<shown, marks, unmarked>> /\ ConversationStep
        /\ \A q \in Device : SameDevice(q)
    BY <1>1, <1>2, <1>5 DEF Accept, ConversationStep, SameDevice
  <2>2. \A q \in Device : DeviceFits(q)'
    BY <1>2, <1>3, <2>1, DeviceStays DEF conversation
  <2> QED
    BY <1>2, <2>1, <2>2, DeviceTypes, <1>1 DEF ScreensFit, Shapes
<1> QED
  BY <1>4, <1>5

\* A mark that the server writes covers all rows; one that is lost is awaited no more.
LEMMA MarkFits ==
    ASSUME IInv, NEW d \in Device, WriteMark(d) \/ LoseMark(d)
    PROVE  ScreensFit'
<1>1. /\ marks[d] > 0 /\ marks \in [Device -> 0 .. MaxMarks] /\ MaxMarks \in Nat
      /\ unmarked \subseteq Device /\ Owner[d] \in User /\ DeviceFits(d)
      /\ UNCHANGED <<screen, history, loaded, shown, hidden, wire>>
  BY DeviceTypes, BoundsAssumption DEF WriteMark, LoseMark, reader, transport
<1>2. marks' \in [Device -> 0 .. MaxMarks] /\ \A q \in Device \ {d} : marks'[q] = marks[q]
  BY <1>1 DEF WriteMark, LoseMark
<1>3. /\ unmarked' \subseteq Device /\ \A q \in Device \ {d} : q \in unmarked' <=> q \in unmarked
      /\ ConversationStep /\ unannounced' = unannounced
  <2>1. CASE WriteMark(d)
    BY <1>1, <2>1 DEF WriteMark, Mark, ConversationStep
  <2>2. CASE LoseMark(d)
    BY <1>1, <2>2 DEF LoseMark, conversation, ConversationStep
  <2> QED
    BY <2>1, <2>2
<1>4. \A q \in Device \ {d} : DeviceFits(q)'
  <2>1. \A q \in Device \ {d} : SameDevice(q) /\ wire'[q] = wire[q]
    BY <1>1, <1>2, <1>3 DEF SameDevice
  <2> QED
    BY <1>3, <2>1, DeviceStays
<1>5. RowsOn(d)' = RowsOn(d) /\ Stored' = Stored
  <2>1. sender' = sender
    BY DEF WriteMark, LoseMark, Mark, conversation
  <2> QED
    BY <1>1, <2>1 DEF RowsOn, Stored
<1>6. RowsAreStored(d)' /\ LoadedIsPrefix(d)' /\ NothingForgotten(d)'
  BY <1>1, <1>3, <1>5 DEF DeviceFits, RowsAreStored, LoadedIsPrefix, NothingForgotten
<1>7. MarkedIsRead(d)'
  <2>1. CASE WriteMark(d)
    <3>1. lastRead'[Owner[d]] = Len(sender)
      BY <1>1, <2>1, MarkFacts, DeviceTypes DEF WriteMark
    <3>2. \A n \in Stored : n <= lastRead'[Owner[d]]
      BY <3>1, DeviceTypes, StoredRows
    <3>3. shown[d] \subseteq Stored
      BY <1>1 DEF DeviceFits, RowsAreStored
    <3> QED
      BY <1>1, <1>5, <3>2, <3>3 DEF MarkedIsRead
  <2>2. CASE LoseMark(d)
    BY <1>1, <2>2 DEF LoseMark, MarkedIsRead
  <2> QED
    BY <2>1, <2>2
<1>8. DeviceFits(d)'
  BY <1>1, <1>6, <1>7 DEF DeviceFits
<1> QED
  BY <1>1, <1>2, <1>3, <1>4, <1>8, DeviceTypes DEF ScreensFit, Shapes

\* A row whose event will not come to a screen is remembered as hidden.
LEMMA WithoutFits ==
    ASSUME IInv, NEW d \in Device, NEW gone \in SUBSET Stored,
           UNCHANGED <<screen, history, loaded, shown, marks, unmarked, sender, lastRead>>,
           RowsOn(d)' \subseteq RowsOn(d), RowsOn(d) \cup unannounced
                \subseteq RowsOn(d)' \cup unannounced' \cup gone,
           hidden'[d] = Without(d, gone)
    PROVE  DeviceFits(d)' /\ hidden'[d] \in SUBSET Row
<1>1. DeviceFits(d) /\ Stored' = Stored /\ gone \subseteq Row
  BY DeviceTypes DEF Stored, ConversationType
<1>2. CASE screen[d] = "open"
  <2>1. hidden'[d] = hidden[d] \cup (gone \ shown[d])
    BY <1>2 DEF Without
  <2>2. RowsAreStored(d)' /\ LoadedIsPrefix(d)' /\ NothingForgotten(d)'
    BY <1>1, <2>1 DEF DeviceFits, RowsAreStored, LoadedIsPrefix, NothingForgotten
  <2>3. MarkedIsRead(d)'
    <3>1. SUFFICES ASSUME marks[d] = 0, d \notin unmarked
                   PROVE  /\ \A n \in shown[d] : n <= lastRead[Owner[d]]
                          /\ \A n \in Stored : n <= lastRead[Owner[d]]
                                    \/ n \in hidden'[d] \cup RowsOn(d)' \cup unannounced'
      BY <1>1 DEF MarkedIsRead
    <3>2. /\ \A n \in shown[d] : n <= lastRead[Owner[d]]
          /\ \A n \in Stored : n <= lastRead[Owner[d]]
                                \/ n \in hidden[d] \cup RowsOn(d) \cup unannounced
      BY <1>1, <1>2, <3>1 DEF DeviceFits, MarkedIsRead
    <3> QED
      BY <2>1, <3>2
  <2> QED
    BY <1>1, <1>2, <2>1, <2>2, <2>3, DeviceTypes DEF DeviceFits
<1>3. CASE screen[d] # "open"
  <2>1. hidden'[d] = {}
    BY <1>3 DEF Without
  <2> QED
    BY <1>1, <1>3, <2>1 DEF DeviceFits, RowsAreStored, LoadedIsPrefix, NothingForgotten, MarkedIsRead
<1> QED
  BY <1>2, <1>3

\* A publication reaches a screen or is remembered as hidden from it.
LEMMA PublishFits ==
    ASSUME IInv, NEW n \in Row, Publish(n) \/ Break(n)
    PROVE  ScreensFit'
<1>1. /\ UNCHANGED <<screen, history, loaded, shown, marks, unmarked, sender, lastRead>>
      /\ n \in unannounced /\ unannounced' = unannounced \ {n} /\ ConversationStep
      /\ n \in Stored /\ Stored' = Stored
      /\ DOMAIN hidden' = Device /\ hidden' = [d \in Device |-> hidden'[d]]
  BY DEF Publish, Break, Finish, reader, ConversationStep, IInv, TypeOK, ConversationType, Stored
<1>2. ASSUME NEW d \in Device
      PROVE  \/ RowsOn(d)' = RowsOn(d) \cup {n} /\ hidden'[d] = hidden[d]
             \/ RowsOn(d)' = RowsOn(d) /\ hidden'[d] = Without(d, {n})
  <2>1. CASE Publish(n)
    BY <2>1, PublishWrites DEF RowsOn
  <2>2. CASE Break(n)
    BY <2>2 DEF Break, transport, RowsOn
  <2> QED
    BY <2>1, <2>2
<1>3. ASSUME NEW d \in Device PROVE DeviceFits(d)' /\ hidden'[d] \in SUBSET Row
  <2>1. CASE RowsOn(d)' = RowsOn(d) \cup {n} /\ hidden'[d] = hidden[d]
    <3>1. DeviceFits(d) /\ hidden[d] \in SUBSET Row
      BY DeviceTypes
    <3>2. RowsAreStored(d)' /\ LoadedIsPrefix(d)' /\ NothingForgotten(d)' /\ MarkedIsRead(d)'
      BY <1>1, <2>1, <3>1
         DEF DeviceFits, RowsAreStored, LoadedIsPrefix, NothingForgotten, MarkedIsRead
    <3> QED
      BY <1>1, <2>1, <3>1, <3>2 DEF DeviceFits
  <2>2. CASE RowsOn(d)' = RowsOn(d) /\ hidden'[d] = Without(d, {n})
    BY <1>1, <2>2, WithoutFits
  <2> QED
    BY <1>2, <2>1, <2>2
<1>4. ASSUME NEW d \in Device PROVE ScreensFit'
  BY <1>1, <1>3, DeviceTypes, <1>4 DEF ScreensFit, Shapes
<1>5. CASE Device = {}
  BY <1>1, <1>3, <1>5 DEF ScreensFit, Shapes, IInv, TypeOK
<1> QED
  BY <1>4, <1>5

\* What was on its way to a lost socket is remembered as hidden from an open screen.
LEMMA LoseSocketFits ==
    ASSUME IInv, NEW d \in Device, LoseSocket(d)
    PROVE  ScreensFit'
<1>1. /\ UNCHANGED <<screen, history, loaded, shown, marks, unmarked, conversation>>
      /\ ConversationStep /\ DeviceFits(d)
      /\ hidden' \in [Device -> SUBSET Row]
      /\ hidden'[d] = Without(d, RowsOn(d)) /\ RowsOn(d)' = {}
      /\ \A q \in Device \ {d} : wire'[q] = wire[q] /\ SameDevice(q)
  <2>1. hidden' = [hidden EXCEPT ![d] = Without(d, RowsOn(d))] /\ Disconnect(d)
    BY DEF LoseSocket, RowsOn
  <2>2. Without(d, RowsOn(d)) \in SUBSET Row
    BY DeviceTypes DEF Without, DeviceFits, RowsAreStored, ConversationType
  <2> QED
    BY <2>1, <2>2, DeviceTypes, SocketSteps DEF LoseSocket, reader, SameDevice, ConversationStep
<1>2. DeviceFits(d)'
  <2>1. RowsOn(d) \in SUBSET Stored
    BY <1>1 DEF DeviceFits, RowsAreStored
  <2> QED
    BY <1>1, <2>1, WithoutFits DEF conversation
<1>3. \A q \in Device \ {d} : DeviceFits(q)'
  BY <1>1, DeviceStays DEF conversation
<1> QED
  BY <1>1, <1>2, <1>3, DeviceTypes DEF ScreensFit, Shapes

\* Steps that no screen sees.
LEMMA QuietFits ==
    ASSUME IInv, ConversationStep, unannounced \subseteq unannounced',
           UNCHANGED <<wire, reader, marks, hidden, unmarked>>
    PROVE  ScreensFit'
<1>1. \A d \in Device : DeviceFits(d)'
  <2>1. \A d \in Device : SameDevice(d) /\ wire'[d] = wire[d]
    BY DEF SameDevice, reader
  <2> QED
    BY <2>1, DeviceStays
<1> QED
  BY <1>1 DEF ScreensFit, Shapes, IInv, TypeOK, reader

\* Every step.
LEMMA ScreensKept ==
    ASSUME IInv, [Next]_vars
    PROVE  ScreensFit' /\ TransportType' /\ ConversationType' /\ ConversationStep
<1>1. TransportType /\ ConversationType
  BY DEF IInv, TypeOK
<1>2. ASSUME NEW d \in Device,
             Open(d) \/ ReadHistory(d) \/ TakeHistory(d) \/ LoseHistory(d) \/ Close(d) \/ LoseMark(d)
      PROVE  ScreensFit' /\ TransportType' /\ ConversationStep
  <2>1. UNCHANGED <<transport, conversation>>
    BY <1>2 DEF Open, ReadHistory, TakeHistory, LoseHistory, Close, LoseMark
  <2> QED
    BY <1>1, <1>2, <2>1, OpenFits, ReadHistoryFits, TakeHistoryFits, LoseHistoryFits, MarkFits
       DEF TransportType, transport, ConversationStep
<1>3. ASSUME NEW d \in Device, Receive(d)
      PROVE  ScreensFit' /\ TransportType' /\ ConversationStep
  BY <1>3, ReceiveFits, TakeReads DEF Receive, ConversationStep
<1>4. ASSUME NEW d \in Device, WriteMark(d)
      PROVE  ScreensFit' /\ TransportType' /\ ConversationStep
  BY <1>1, <1>4, MarkFits DEF WriteMark, ConversationStep, transport, TransportType
<1>5. ASSUME NEW d \in Device, LoseSocket(d)
      PROVE  ScreensFit' /\ TransportType' /\ ConversationStep
  BY <1>5, LoseSocketFits, SocketSteps DEF LoseSocket, ConversationStep
<1>6. ASSUME NEW d \in Device, ConnectSocket(d)
      PROVE  ScreensFit' /\ TransportType' /\ ConversationStep
  <2>1. Connect(d) /\ UNCHANGED <<conversation, reader, marks, hidden, unmarked>>
    BY <1>6 DEF ConnectSocket
  <2> QED
    BY <2>1, SocketSteps, QuietFits DEF ConversationStep, conversation
<1>7. ASSUME NEW t \in Text, Send(t) \/ Refuse(t) \/ FallBack(t) \/ Fail(t) \/ Silence(t)
      PROVE  ScreensFit' /\ TransportType' /\ ConversationStep
  <2>1. UNCHANGED <<transport, conversation, reader, marks, hidden, unmarked>>
    BY <1>7 DEF Send, Refuse, FallBack, Fail, Silence
  <2> QED
    BY <1>1, <2>1, QuietFits DEF ConversationStep, conversation, transport, TransportType
<1>8. ASSUME NEW t \in Text, Handle(t)
      PROVE  ScreensFit' /\ TransportType' /\ ConversationStep
  <2>1. Insert(Owner[Author[t]]) /\ Owner[Author[t]] \in User
        /\ UNCHANGED <<transport, reader, marks, hidden, unmarked>>
    BY <1>8, ChatAssumption, OwnerAssumption DEF Handle
  <2>2. ConversationStep /\ unannounced \subseteq unannounced'
    BY <2>1 DEF ConversationStep, Insert
  <2> QED
    BY <1>1, <2>1, <2>2, QuietFits DEF transport, TransportType
<1>9. ASSUME NEW u \in User, Write(u)
      PROVE  ScreensFit' /\ TransportType' /\ ConversationStep
  <2>1. Insert(u) /\ UNCHANGED <<transport, reader, marks, hidden, unmarked>>
    BY <1>9 DEF Write
  <2>2. ConversationStep /\ unannounced \subseteq unannounced'
    BY <2>1 DEF ConversationStep, Insert
  <2> QED
    BY <1>1, <2>1, <2>2, QuietFits DEF transport, TransportType
<1>10. ASSUME NEW n \in Row, Publish(n) \/ Break(n)
       PROVE  ScreensFit' /\ TransportType' /\ ConversationStep
  <2>1. ConversationStep
    BY <1>10 DEF Publish, Break, Finish, ConversationStep
  <2>2. TransportType'
    BY <1>1, <1>10, PublishWrites DEF Break, transport, TransportType
  <2> QED
    BY <1>10, <2>1, <2>2, PublishFits
<1>11. ASSUME NEW t \in Text, Accept(t)
       PROVE  ScreensFit' /\ TransportType' /\ ConversationStep
  BY <1>1, <1>11, AcceptFits DEF Accept, transport, TransportType, ConversationStep
<1>12. ASSUME UNCHANGED vars
       PROVE  ScreensFit' /\ TransportType' /\ ConversationStep
  <2>1. UNCHANGED <<transport, conversation, reader, marks, hidden, unmarked>>
    BY <1>12 DEF vars
  <2>2. ConversationStep /\ unannounced \subseteq unannounced' /\ wire' = wire
    BY <2>1 DEF ConversationStep, conversation, transport
  <2>3. ScreensFit'
    BY <2>1, <2>2, QuietFits
  <2> QED
    BY <1>1, <2>1, <2>2, <2>3 DEF transport, TransportType
<1>13. ScreensFit' /\ TransportType' /\ ConversationStep
  BY <1>2, <1>3, <1>4, <1>5, <1>6, <1>7, <1>8, <1>9, <1>10, <1>11, <1>12 DEF Next
<1> QED
  BY <1>1, <1>13, ConversationGrows

-------------------------------------------------------------------------------
(* Attempts *)

\* The attempts have their types, and their rows and failures are as they should be.
PostFits ==
    /\ post \in [Text -> [stage : Stage, via : {"none", "socket", "cut", "rest"}, row : Row \cup {0}]]
    /\ broken \subseteq Text /\ AnswersAreStored /\ BrokenOnce

\* The attempts to send a text come and go, and its row is stored as long as one has it.
LEMMA PostKept ==
    ASSUME IInv, [Next]_vars
    PROVE  PostFits'
<1> DEFINE Via4 == {"none", "socket", "cut", "rest"}
           Post == [stage : Stage, via : Via4, row : Row \cup {0}]
<1>1. PostFits
  BY DEF IInv, TypeOK, PostFits
<1>2. Stored \subseteq Stored'
  BY ScreensKept, ConversationGrows DEF IInv, TypeOK
<1>3. ASSUME UNCHANGED <<post, broken>> PROVE PostFits'
  BY <1>1, <1>2, <1>3 DEF PostFits, AnswersAreStored, BrokenOnce, Via
<1>4. ASSUME NEW t \in Text,
             Send(t) \/ Refuse(t) \/ FallBack(t) \/ Fail(t) \/ Silence(t) \/ Accept(t)
      PROVE  PostFits'
  <2>1. PICK p \in Post : /\ post' = [post EXCEPT ![t] = p] /\ broken' = broken
                          /\ p.stage \notin {"stored", "accepted", "typed"}
                          /\ p.via = "socket" => p.stage = "refused" \/ post[t].stage = "typed"
    <3>1. post[t] \in Post
      BY <1>1 DEF PostFits
    <3> DEFINE Good(p) ==
            /\ post' = [post EXCEPT ![t] = p] /\ broken' = broken
            /\ p.stage \notin {"stored", "accepted", "typed"}
            /\ p.via = "socket" => p.stage = "refused" \/ post[t].stage = "typed"
    <3>2. CASE Refuse(t)
      <4>1. [post[t] EXCEPT !.stage = "refused"] \in Post
        BY <3>1 DEF Stage
      <4>2. post' = [post EXCEPT ![t] = [post[t] EXCEPT !.stage = "refused"]]
        BY <1>1, <3>2 DEF Refuse, Attempt, PostFits
      <4>3. Good([post[t] EXCEPT !.stage = "refused"])
        BY <3>1, <3>2, <4>2 DEF Refuse
      <4> QED
        BY <4>1, <4>3
    <3>3. CASE Send(t)
      <4> DEFINE p == [stage |-> "asked", row |-> 0,
                       via |-> IF home[Author[t]] = None THEN "rest" ELSE "socket"]
      <4>1. p \in Post /\ Good(p)
        BY <3>3 DEF Send, Stage
      <4> QED
        BY <4>1
    <3>4. CASE FallBack(t)
      <4> DEFINE p == [stage |-> "asked", via |-> "rest", row |-> 0]
      <4>1. p \in Post /\ Good(p)
        BY <3>4 DEF FallBack, Stage
      <4> QED
        BY <4>1
    <3>5. CASE Fail(t) \/ Silence(t) \/ Accept(t)
      <4>1. PICK stage \in {"sent", "failed", "silent"} : End(t, stage) /\ broken' = broken
        BY <3>5 DEF Fail, Silence, Accept
      <4> DEFINE p == [stage |-> stage, via |-> "none", row |-> 0]
      <4>2. p \in Post /\ Good(p)
        BY <4>1 DEF End, Stage
      <4> QED
        BY <4>2
    <3> QED
      BY <1>4, <3>2, <3>3, <3>4, <3>5
  <2>2. post'[t] = p /\ \A s \in Text \ {t} : post'[s] = post[s]
    BY <1>1, <2>1 DEF PostFits
  <2>3. post' \in [Text -> Post]
    BY <1>1, <2>1 DEF PostFits
  <2> QED
    BY <1>1, <1>2, <2>1, <2>2, <2>3 DEF PostFits, AnswersAreStored, BrokenOnce, Via
<1>5. ASSUME NEW t \in Text, Handle(t) PROVE PostFits'
  <2>1. /\ ConversationType' /\ Len(sender') \in Row \cap Stored'
        /\ Stored' = Stored \cup {Len(sender')}
    <3>1. Insert(Owner[Author[t]]) /\ Owner[Author[t]] \in User /\ ConversationType
      BY <1>5, ChatAssumption, OwnerAssumption DEF Handle, IInv, TypeOK
    <3> QED
      BY <3>1, InsertFacts DEF ConversationType
  <2>2. /\ post' = [post EXCEPT ![t].stage = "stored", ![t].row = Len(sender')]
        /\ post[t].stage = "asked" /\ broken' = broken
    BY <1>5 DEF Handle
  <2>3. post[t] \in Post /\ "stored" \in Stage
    BY <1>1 DEF PostFits, Stage
  <2>4. /\ post' \in [Text -> Post] /\ post'[t].stage = "stored"
        /\ post'[t].row = Len(sender') /\ post'[t].via = post[t].via
        /\ \A s \in Text \ {t} : post'[s] = post[s]
    BY <1>1, <2>1, <2>2, <2>3 DEF PostFits
  <2> QED
    BY <1>1, <1>2, <2>1, <2>2, <2>4 DEF PostFits, AnswersAreStored, BrokenOnce, Via
<1>6. ASSUME NEW n \in Row, Publish(n) \/ Break(n) PROVE PostFits'
  <2>1. PICK stage \in {"accepted", "refused"} :
            /\ Answer(n, stage) /\ broken' \subseteq broken \cup Of(n)
            /\ stage = "accepted" => broken' = broken
    BY <1>6 DEF Publish, Break
  <2>2. ASSUME NEW t \in Text
        PROVE  /\ post'[t] \in Post /\ post'[t].via = post[t].via /\ post'[t].row = post[t].row
               /\ IF t \in Of(n) THEN post'[t].stage = stage ELSE post'[t] = post[t]
    <3>1. post[t] \in Post /\ stage \in Stage
      BY <1>1 DEF PostFits, Stage
    <3>2. post'[t] = IF t \in Of(n) THEN [post[t] EXCEPT !.stage = stage] ELSE post[t]
      BY <2>1 DEF Answer
    <3> QED
      BY <3>1, <3>2
  <2>3. /\ post' = [t \in Text |-> post'[t]] /\ Of(n) \subseteq Text
        /\ \A t \in Of(n) : post[t].stage = "stored"
    BY <2>1 DEF Answer, Of
  <2>4. post' \in [Text -> Post]
    BY <2>2, <2>3
  <2>5. AnswersAreStored'
    BY <1>1, <1>2, <2>2, <2>3 DEF PostFits, AnswersAreStored
  <2>6. BrokenOnce'
    BY <1>1, <2>1, <2>2, <2>3 DEF PostFits, BrokenOnce, Via
  <2> QED
    BY <1>1, <2>1, <2>3, <2>4, <2>5, <2>6 DEF PostFits
<1>7. ASSUME NEW d \in Device, LoseSocket(d) PROVE PostFits'
  <2>1. /\ broken' = broken
        /\ post' = [t \in Text |-> IF Author[t] = d /\ Via(t, "socket") /\ ~Idle(t)
                               THEN [post[t] EXCEPT !.via = "cut"] ELSE post[t]]
    BY <1>7 DEF LoseSocket
  <2>2. ASSUME NEW t \in Text
        PROVE  /\ post'[t] \in Post
               /\ post'[t].row = post[t].row /\ post'[t].stage = post[t].stage
               /\ post'[t].via \in {post[t].via, "cut"}
    <3>1. post[t] \in Post
      BY <1>1 DEF PostFits
    <3> QED
      BY <2>1, <3>1
  <2>3. post' \in [Text -> Post]
    BY <2>1, <2>2
  <2> QED
    BY <1>1, <1>2, <2>1, <2>2, <2>3 DEF PostFits, AnswersAreStored, BrokenOnce, Via
<1> QED
  <2>1. CASE \E d \in Device : \/ Open(d) \/ ReadHistory(d) \/ TakeHistory(d) \/ LoseHistory(d)
                               \/ Close(d) \/ Receive(d) \/ WriteMark(d) \/ LoseMark(d)
                               \/ ConnectSocket(d)
    <3>1. UNCHANGED <<post, broken>>
      BY <2>1 DEF Open, ReadHistory, TakeHistory, LoseHistory, Close, Receive, WriteMark, LoseMark,
         ConnectSocket
    <3> QED
      BY <1>3, <3>1
  <2>2. CASE (\E u \in User : Write(u)) \/ UNCHANGED vars
    BY <1>3, <2>2 DEF Write, vars
  <2> QED
    BY <1>4, <1>5, <1>6, <1>7, <2>1, <2>2 DEF Next

-------------------------------------------------------------------------------
(* Counting rows *)

\* The sets that are counted are finite.
LEMMA CountTypes ==
    ASSUME IInv, NEW u \in User
    PROVE  /\ IsFiniteSet(RowsOf(u)) /\ Cardinality(RowsOf(u)) \in Nat
           /\ IsFiniteSet(MayInsert(u)) /\ Cardinality(MayInsert(u)) \in Nat
           /\ IsFiniteSet(Tried(u)) /\ Cardinality(Tried(u)) \in Nat
           /\ IsFiniteSet(Tried(u) \cap broken) /\ Cardinality(Tried(u) \cap broken) \in Nat
           /\ \A S \in SUBSET Text : IsFiniteSet(S) /\ Cardinality(S) \in Nat
<1>1. IsFiniteSet(Stored)
  <2>1. Stored = 1 .. Len(sender) /\ Len(sender) \in Nat
    BY StoredRows DEF IInv, TypeOK, ConversationType, Stored
  <2> QED
    BY <2>1, FS_Interval
<1>2. \A S \in SUBSET Text : IsFiniteSet(S) /\ Cardinality(S) \in Nat
  BY ChatAssumption, FS_Subset, FS_CardinalityType
<1>3. RowsOf(u) \subseteq Stored
  BY DEF RowsOf
<1>4. IsFiniteSet(RowsOf(u))
  BY <1>1, <1>3, FS_Subset
<1>5. Cardinality(RowsOf(u)) \in Nat
  BY <1>4, FS_CardinalityType
<1>6. {MayInsert(u), Tried(u), Tried(u) \cap broken} \subseteq SUBSET Text
  BY DEF MayInsert, Tried, Mine
<1> QED
  BY <1>2, <1>4, <1>5, <1>6

\* An element more.
LEMMA OneMore ==
    ASSUME NEW S, IsFiniteSet(S), NEW x, x \notin S
    PROVE  Cardinality(S) \in Nat /\ Cardinality(S \cup {x}) = Cardinality(S) + 1
  BY FS_AddElement, FS_CardinalityType

\* A set of texts and one that has all of it.
LEMMA NoMore ==
    ASSUME NEW T \in SUBSET Text, NEW S \in SUBSET T
    PROVE  /\ Cardinality(S) \in Nat /\ Cardinality(T) \in Nat
           /\ Cardinality(S) <= Cardinality(T)
<1>1. IsFiniteSet(T) /\ IsFiniteSet(S)
  BY ChatAssumption, FS_Subset
<1>2. Cardinality(S) <= Cardinality(T)
  BY <1>1, FS_Subset
<1> QED
  BY <1>1, <1>2, FS_CardinalityType

\* Nothing is inserted, and no text may be that could not.
LEMMA NothingInserted ==
    ASSUME IInv, NEW u \in User, Counted(u),
           RowsOf(u)' = RowsOf(u), Tried(u)' = Tried(u), broken' = broken,
           MayInsert(u)' \subseteq MayInsert(u)
    PROVE  Counted(u)'
<1>1. Cardinality(MayInsert(u)') <= Cardinality(MayInsert(u)) /\ Cardinality(MayInsert(u)') \in Nat
  BY NoMore DEF MayInsert, Mine
<1>2. Cardinality(RowsOf(u)) + Cardinality(MayInsert(u))
        <= Cardinality(Tried(u)) + Cardinality(Tried(u) \cap broken)
  BY DEF Counted
<1>3. /\ Cardinality(RowsOf(u)) \in Nat /\ Cardinality(MayInsert(u)) \in Nat
      /\ Cardinality(Tried(u)) \in Nat /\ Cardinality(Tried(u) \cap broken) \in Nat
  BY CountTypes
<1>4. Cardinality(RowsOf(u)) + Cardinality(MayInsert(u)')
        <= Cardinality(Tried(u)) + Cardinality(Tried(u) \cap broken)
  BY <1>1, <1>2, <1>3
<1> QED
  BY <1>4 DEF Counted

\* The rows of a user, when no row of theirs is inserted.
LEMMA RowsStay ==
    ASSUME IInv, NEW u \in User,
           \/ sender' = sender
           \/ \E v \in User \ {u} : Insert(v)
    PROVE  RowsOf(u)' = RowsOf(u)
<1>1. CASE sender' = sender
  BY <1>1 DEF RowsOf, Stored
<1>2. ASSUME NEW v \in User \ {u}, Insert(v) PROVE RowsOf(u)' = RowsOf(u)
  <2>1. /\ sender'[Len(sender')] = v /\ Stored' = Stored \cup {Len(sender')}
        /\ \A n \in Stored : sender'[n] = sender[n]
    BY <1>2, InsertFacts DEF IInv, TypeOK
  <2> QED
    BY <2>1 DEF RowsOf
<1> QED
  BY <1>1, <1>2

\* A text is sent for the first time: it may be inserted.
LEMMA SendCounts ==
    ASSUME IInv, NEW t \in Text, Send(t), NEW u \in User, Counted(u)
    PROVE  Counted(u)'
<1>1. /\ post[t].stage = "typed" /\ post'[t].stage = "asked" /\ broken' = broken
      /\ \A s \in Text \ {t} : post'[s] = post[s]
      /\ sender' = sender
  BY DEF Send, IInv, TypeOK, conversation
<1>2. RowsOf(u)' = RowsOf(u) /\ Mine(u)' = Mine(u) /\ t \notin broken
  BY <1>1, RowsStay DEF Mine, IInv, BrokenOnce
<1>3. CASE t \notin Mine(u)
  <2>1. Tried(u)' = Tried(u) /\ MayInsert(u)' = MayInsert(u)
    BY <1>1, <1>3 DEF Tried, MayInsert, Repeatable, Rejected, Via, Mine
  <2> QED
    BY <1>1, <1>2, <2>1, NothingInserted
<1>4. CASE t \in Mine(u)
  <2>1. /\ t \notin Tried(u) /\ Tried(u)' = Tried(u) \cup {t}
        /\ t \notin MayInsert(u) /\ MayInsert(u)' = MayInsert(u) \cup {t}
    BY <1>1, <1>4 DEF Tried, MayInsert, Repeatable, Rejected, Via, Mine
  <2>2. (Tried(u) \cap broken)' = Tried(u) \cap broken
    BY <1>1, <1>2, <2>1
  <2>3. /\ Cardinality(Tried(u) \cup {t}) = Cardinality(Tried(u)) + 1
        /\ Cardinality(MayInsert(u) \cup {t}) = Cardinality(MayInsert(u)) + 1
    BY <2>1, CountTypes, OneMore
  <2>4. Cardinality(RowsOf(u)) + Cardinality(MayInsert(u))
            <= Cardinality(Tried(u)) + Cardinality(Tried(u) \cap broken)
    BY DEF Counted
  <2>5. /\ Cardinality(RowsOf(u)) \in Nat /\ Cardinality(MayInsert(u)) \in Nat
        /\ Cardinality(Tried(u)) \in Nat /\ Cardinality(Tried(u) \cap broken) \in Nat
    BY CountTypes
  <2>6. Cardinality(RowsOf(u)) + Cardinality(MayInsert(u) \cup {t})
            <= Cardinality(Tried(u) \cup {t}) + Cardinality(Tried(u) \cap broken)
    BY <2>3, <2>4, <2>5
  <2> QED
    BY <1>2, <2>1, <2>2, <2>6 DEF Counted
<1> QED
  BY <1>3, <1>4

\* A text is inserted: it may not be any more.
LEMMA HandleCounts ==
    ASSUME IInv, NEW t \in Text, Handle(t), NEW u \in User, Counted(u)
    PROVE  Counted(u)'
<1>1. /\ post[t].stage = "asked" /\ post'[t].stage = "stored" /\ broken' = broken
      /\ \A s \in Text \ {t} : post'[s] = post[s]
      /\ Insert(Owner[Author[t]]) /\ Owner[Author[t]] \in User
  <2>1. /\ post' = [post EXCEPT ![t].stage = "stored", ![t].row = Len(sender')]
        /\ post \in [Text -> [stage : Stage, via : {"none", "socket", "cut", "rest"}, row : Row \cup {0}]]
    BY DEF Handle, IInv, TypeOK
  <2>2. post'[t].stage = "stored" /\ \A s \in Text \ {t} : post'[s] = post[s]
    BY <2>1
  <2> QED
    BY <2>2, ChatAssumption, OwnerAssumption DEF Handle
<1>2. /\ Mine(u)' = Mine(u) /\ Tried(u)' = Tried(u)
      /\ MayInsert(u)' = MayInsert(u) \ {t} /\ (t \in Mine(u) => t \in MayInsert(u))
  BY <1>1 DEF Mine, Tried, MayInsert, Repeatable, Rejected, Via
<1>3. CASE t \notin Mine(u)
  <2>1. Owner[Author[t]] # u
    BY <1>3 DEF Mine
  <2>2. RowsOf(u)' = RowsOf(u)
    BY <1>1, <2>1, RowsStay
  <2> QED
    BY <1>1, <1>2, <2>2, NothingInserted
<1>4. CASE t \in Mine(u)
  <2>1. PICK n : n = Len(sender')
    OBVIOUS
  <2>2. /\ sender'[n] = u /\ n \notin Stored /\ Stored' = Stored \cup {n}
        /\ \A m \in Stored : sender'[m] = sender[m]
    BY <1>1, <1>4, <2>1, InsertFacts DEF Mine, IInv, TypeOK
  <2>3. n \notin RowsOf(u) /\ RowsOf(u)' = RowsOf(u) \cup {n}
    BY <2>2 DEF RowsOf
  <2>4. MayInsert(u) = (MayInsert(u) \ {t}) \cup {t} /\ MayInsert(u) \ {t} \in SUBSET Text
    BY <1>2, <1>4 DEF MayInsert, Mine
  <2>5. IsFiniteSet(MayInsert(u) \ {t}) /\ t \notin MayInsert(u) \ {t}
    BY <2>4, CountTypes
  <2>6. /\ Cardinality(MayInsert(u)) = Cardinality(MayInsert(u) \ {t}) + 1
        /\ Cardinality(MayInsert(u) \ {t}) \in Nat
    BY <2>4, <2>5, OneMore
  <2>7. Cardinality(RowsOf(u) \cup {n}) = Cardinality(RowsOf(u)) + 1
    BY <2>3, CountTypes, OneMore
  <2>8. Cardinality(RowsOf(u)) + Cardinality(MayInsert(u))
            <= Cardinality(Tried(u)) + Cardinality(Tried(u) \cap broken)
    BY DEF Counted
  <2>9. /\ Cardinality(RowsOf(u)) \in Nat
        /\ Cardinality(Tried(u)) \in Nat /\ Cardinality(Tried(u) \cap broken) \in Nat
    BY CountTypes
  <2>10. Cardinality(RowsOf(u) \cup {n}) + Cardinality(MayInsert(u) \ {t})
            <= Cardinality(Tried(u)) + Cardinality(Tried(u) \cap broken)
    BY <2>6, <2>7, <2>8, <2>9
  <2> QED
    BY <1>1, <1>2, <2>3, <2>10 DEF Counted
<1> QED
  BY <1>3, <1>4

\* The handlers of a row fail after the insertion: their texts may be inserted again,
\* once.
LEMMA BreakCounts ==
    ASSUME IInv, NEW n \in Row, Break(n), NEW u \in User, Counted(u)
    PROVE  Counted(u)'
<1> DEFINE again == {t \in Of(n) : t \in Mine(u) /\ Via(t, "socket")}
<1>1. /\ sender' = sender /\ broken' = broken \cup Of(n) /\ Of(n) \subseteq Text
      /\ \A t \in Of(n) : /\ post[t].stage = "stored" /\ post'[t].stage = "refused"
                          /\ post'[t].via = post[t].via
      /\ \A t \in Text \ Of(n) : post'[t] = post[t]
  BY DEF Break, Finish, Answer, Of, IInv, TypeOK
<1>2. /\ RowsOf(u)' = RowsOf(u) /\ Mine(u)' = Mine(u) /\ Tried(u)' = Tried(u)
      /\ MayInsert(u)' = MayInsert(u) \cup again
      /\ again \subseteq Tried(u) /\ again \cap broken = {}
      /\ again \in SUBSET Text
      /\ (Tried(u) \cap broken) \cup again \subseteq Tried(u) \cap (broken \cup Of(n))
  BY <1>1, RowsStay DEF Mine, Tried, MayInsert, Repeatable, Rejected, Via, IInv, BrokenOnce
<1>3. /\ IsFiniteSet(again) /\ Cardinality(again) \in Nat
  BY <1>2, CountTypes
<1>4. PICK S \in SUBSET MayInsert(u) :
        MayInsert(u)' = S \cup again /\ S \cap again = {}
  <2>1. MayInsert(u)' = (MayInsert(u) \ again) \cup again
    BY <1>2
  <2>2. MayInsert(u) \ again \in SUBSET MayInsert(u) /\ (MayInsert(u) \ again) \cap again = {}
    OBVIOUS
  <2> QED
    BY <2>1, <2>2
<1> HIDE DEF again
<1>5. /\ Cardinality(S) \in Nat /\ Cardinality(S) <= Cardinality(MayInsert(u))
      /\ Cardinality(S \cup again) = Cardinality(S) + Cardinality(again)
  <2>1. MayInsert(u) \in SUBSET Text /\ IsFiniteSet(S)
    <3>1. MayInsert(u) \in SUBSET Text
      BY DEF MayInsert, Mine
    <3> QED
      BY <3>1, CountTypes
  <2>2. Cardinality(S) \in Nat /\ Cardinality(S) <= Cardinality(MayInsert(u))
    BY <2>1, NoMore
  <2>3. Cardinality(S \cup again) = Cardinality(S) + Cardinality(again) - Cardinality(S \cap again)
    BY <1>3, <2>1, FS_Union
  <2>4. Cardinality(S \cap again) = 0
    BY <1>4, FS_EmptySet
  <2> QED
    BY <1>3, <2>2, <2>3, <2>4
<1>6. /\ Cardinality((Tried(u) \cap broken) \cup again)
            = Cardinality(Tried(u) \cap broken) + Cardinality(again)
  <2>1. (Tried(u) \cap broken) \cap again = {}
    BY <1>2
  <2>2. Cardinality((Tried(u) \cap broken) \cap again) = 0
    BY <2>1, FS_EmptySet
  <2>3. Cardinality((Tried(u) \cap broken) \cup again)
            = Cardinality(Tried(u) \cap broken) + Cardinality(again)
                - Cardinality((Tried(u) \cap broken) \cap again)
    BY <1>3, CountTypes, FS_Union
  <2> QED
    BY <1>3, <2>2, <2>3, CountTypes
<1>7. /\ Cardinality(Tried(u) \cap (broken \cup Of(n))) \in Nat
      /\ Cardinality((Tried(u) \cap broken) \cup again)
            <= Cardinality(Tried(u) \cap (broken \cup Of(n)))
  <2>1. Tried(u) \cap (broken \cup Of(n)) \in SUBSET Text
    BY DEF Tried, Mine
  <2> QED
    BY <1>2, <2>1, NoMore
<1>8. Cardinality(RowsOf(u)) + Cardinality(MayInsert(u))
        <= Cardinality(Tried(u)) + Cardinality(Tried(u) \cap broken)
  BY DEF Counted
<1>9. Cardinality(RowsOf(u)) + Cardinality(S \cup again)
        <= Cardinality(Tried(u)) + Cardinality(Tried(u) \cap (broken \cup Of(n)))
  BY <1>3, <1>5, <1>6, <1>7, <1>8, CountTypes
<1> QED
  BY <1>1, <1>2, <1>4, <1>9 DEF Counted

\* The other steps of the attempts: none is repeatable that was not.
LEMMA QuietCounts ==
    ASSUME IInv, NEW u \in User, Counted(u), sender' = sender, broken' = broken,
           \A t \in Text : /\ post'[t].stage = "typed" <=> post[t].stage = "typed"
                           /\ Repeatable(t)' => Repeatable(t)
    PROVE  Counted(u)'
<1>1. /\ RowsOf(u)' = RowsOf(u) /\ Mine(u)' = Mine(u) /\ Tried(u)' = Tried(u)
      /\ MayInsert(u)' \subseteq MayInsert(u)
  BY RowsStay DEF Mine, Tried, MayInsert
<1> QED
  BY <1>1, NothingInserted

\* Every step keeps the count of every user who writes on the screens alone.
LEMMA CountKept ==
    ASSUME IInv, [Next]_vars
    PROVE  RowsAreCounted'
<1> SUFFICES ASSUME NEW u \in User \ Others PROVE Counted(u)'
  BY DEF RowsAreCounted
<1>1. Counted(u)
  BY DEF IInv, RowsAreCounted
<1>2. ASSUME UNCHANGED <<sender, post, broken>> PROVE Counted(u)'
  <2>1. \A t \in Text : Repeatable(t)' => Repeatable(t)
    BY <1>2 DEF Repeatable, Rejected, Via
  <2> QED
    BY <1>1, <1>2, <2>1, QuietCounts
<1>3. ASSUME NEW t \in Text, Refuse(t) \/ FallBack(t) \/ Fail(t) \/ Silence(t) \/ Accept(t)
      PROVE  Counted(u)'
  <2>1. /\ sender' = sender /\ broken' = broken
        /\ \A s \in Text \ {t} : post'[s] = post[s]
        /\ post[t].stage # "typed" /\ post'[t].stage # "typed"
        /\ Repeatable(t)' => Repeatable(t)
    <3>1. post \in [Text -> [stage : Stage, via : {"none", "socket", "cut", "rest"}, row : Row \cup {0}]]
      BY DEF IInv, TypeOK
    <3>2. CASE Refuse(t)
      BY <3>1, <3>2 DEF Refuse, Attempt, Repeatable, Rejected, Via, conversation
    <3>3. CASE FallBack(t) \/ Fail(t) \/ Silence(t) \/ Accept(t)
      BY <3>1, <3>3
         DEF FallBack, Fail, Silence, Accept, End, Repeatable, Rejected, Via, conversation
    <3> QED
      BY <1>3, <3>2, <3>3
  <2>2. \A s \in Text \ {t} : Repeatable(s)' => Repeatable(s)
    BY <2>1 DEF Repeatable, Rejected, Via
  <2> QED
    BY <1>1, <2>1, <2>2, QuietCounts
<1>4. ASSUME NEW n \in Row, Publish(n) PROVE Counted(u)'
  <2>1. /\ sender' = sender /\ broken' = broken
        /\ \A t \in Text : post'[t] = post[t] \/ (post[t].stage = "stored" /\ post'[t].stage = "accepted")
    <3>1. /\ Finish(n) /\ Answer(n, "accepted") /\ broken' = broken
      BY <1>4 DEF Publish
    <3>2. ASSUME NEW t \in Text
          PROVE  post'[t] = post[t] \/ (post[t].stage = "stored" /\ post'[t].stage = "accepted")
      <4>1. post[t] \in [stage : Stage, via : {"none", "socket", "cut", "rest"}, row : Row \cup {0}]
        BY DEF IInv, TypeOK
      <4>2. post'[t] = IF t \in Of(n) THEN [post[t] EXCEPT !.stage = "accepted"] ELSE post[t]
        BY <3>1 DEF Answer
      <4>3. t \in Of(n) => post[t].stage = "stored"
        BY DEF Of
      <4> QED
        BY <4>1, <4>2, <4>3
    <3> QED
      BY <3>1, <3>2 DEF Finish
  <2>2. \A t \in Text : /\ post'[t].stage = "typed" <=> post[t].stage = "typed"
                        /\ Repeatable(t)' => Repeatable(t)
    BY <2>1 DEF Repeatable, Rejected, Via
  <2> QED
    BY <1>1, <2>1, <2>2, QuietCounts
<1>5. ASSUME NEW d \in Device, LoseSocket(d) PROVE Counted(u)'
  <2>1. /\ sender' = sender /\ broken' = broken
        /\ \A t \in Text : /\ post'[t].stage = post[t].stage
                           /\ post'[t].via \in {post[t].via, "cut"}
    BY <1>5 DEF LoseSocket, conversation, IInv, TypeOK
  <2>2. \A t \in Text : Repeatable(t)' => Repeatable(t)
    BY <2>1 DEF Repeatable, Rejected, Via
  <2> QED
    BY <1>1, <2>1, <2>2, QuietCounts
<1>6. ASSUME NEW v \in User, Write(v) PROVE Counted(u)'
  <2>1. v # u /\ Insert(v) /\ UNCHANGED <<post, broken>>
    BY <1>6 DEF Write
  <2>2. RowsOf(u)' = RowsOf(u)
    BY <2>1, RowsStay
  <2>3. Tried(u)' = Tried(u) /\ MayInsert(u)' = MayInsert(u)
    BY <2>1 DEF Tried, Mine, MayInsert, Repeatable, Rejected, Via
  <2> QED
    BY <1>1, <2>1, <2>2, <2>3, NothingInserted
<1> QED
  <2>1. CASE \E d \in Device : \/ Open(d) \/ ReadHistory(d) \/ TakeHistory(d) \/ LoseHistory(d)
                               \/ Close(d) \/ Receive(d) \/ WriteMark(d) \/ LoseMark(d)
                               \/ ConnectSocket(d)
    <3>1. UNCHANGED <<sender, post, broken>>
      BY <2>1 DEF Open, ReadHistory, TakeHistory, LoseHistory, Close, Receive, WriteMark, LoseMark,
         ConnectSocket, conversation, Mark
    <3> QED
      BY <1>2, <3>1
  <2>2. CASE UNCHANGED vars
    BY <1>2, <2>2 DEF vars, conversation
  <2> QED
    BY <1>1, <1>3, <1>4, <1>5, <1>6, <2>1, <2>2, SendCounts, HandleCounts, BreakCounts DEF Next

-------------------------------------------------------------------------------
(* The invariant *)

\* Nothing is on the screens or on its way, and nothing has been tried.
LEMMA InitIInv == Init => IInv
<1> SUFFICES ASSUME Init PROVE IInv
  OBVIOUS
<1>1. Stored = {} /\ sender \in Seq(User) /\ ConversationType
  <2>1. sender = <<>> /\ DOMAIN sender = {} /\ sender \in Seq(User)
    BY DEF Init, ConversationInit
  <2> QED
    BY <2>1 DEF Init, ConversationInit, Stored, ConversationType
<1>2. TransportType /\ \A d \in Device : RowsOn(d) = {}
  <2>1. wire = [d \in Device |-> <<>>] /\ home \in [Device -> Instance \cup {None}]
    BY DEF Init, TransportInit
  <2>2. <<>> \in Seq(Event) /\ DOMAIN <<>> = {}
    OBVIOUS
  <2>3. \A d \in Device : wire[d] = <<>>
    BY <2>1
  <2> QED
    BY <2>1, <2>2, <2>3 DEF TransportType, RowsOn
<1>3. TypeOK
  BY <1>1, <1>2, ChatAssumption, BoundsAssumption DEF Init, TypeOK, Stage
<1>4. Shapes /\ AnswersAreStored /\ BrokenOnce
  BY DEF Init, Shapes, AnswersAreStored, BrokenOnce
<1>5. \A d \in Device : DeviceFits(d)
  BY <1>1, <1>2
     DEF Init, DeviceFits, RowsAreStored, LoadedIsPrefix, NothingForgotten, MarkedIsRead
<1>6. RowsAreCounted
  <2>1. \A u \in User : RowsOf(u) = {} /\ MayInsert(u) = {} /\ Tried(u) = {} /\ Tried(u) \cap broken = {}
    BY <1>1 DEF Init, RowsOf, MayInsert, Repeatable, Rejected, Via, Tried, Mine
  <2>2. Cardinality({}) = 0
    BY FS_EmptySet
  <2>3. 0 + 0 <= 0 + 0
    OBVIOUS
  <2>4. ASSUME NEW u \in User PROVE Counted(u)
    BY <2>1, <2>2, <2>3 DEF Counted
  <2> QED
    BY <2>4 DEF RowsAreCounted
<1> QED
  BY <1>3, <1>4, <1>5, <1>6 DEF IInv

\* Every step keeps the invariant.
LEMMA NextIInv == IInv /\ [Next]_vars => IInv'
<1> SUFFICES ASSUME IInv, [Next]_vars PROVE IInv'
  OBVIOUS
<1>1. ScreensFit' /\ TransportType' /\ ConversationType'
  BY ScreensKept
<1>2. PostFits' /\ RowsAreCounted'
  BY PostKept, CountKept
<1>3. TypeOK'
  BY <1>1, <1>2 DEF TypeOK, ScreensFit, PostFits, DeviceFits, RowsAreStored
<1> QED
  BY <1>1, <1>2, <1>3 DEF IInv, ScreensFit, PostFits

-------------------------------------------------------------------------------
(* The theorems *)

\* The inductive invariant holds (use-chat.ts, [conversationId].tsx, gateway.ts).
THEOREM Invariant == Spec => []IInv
<1>1. Init => IInv
  BY InitIInv
<1>2. IInv /\ [Next]_vars => IInv'
  BY NextIInv
<1> QED
  BY <1>1, <1>2, PTL DEF Spec

\* Screens show what is stored, and a text is stored once, or twice when the handler of
\* its socket failed after the insertion (gateway.ts handleSend).
THEOREM ChatConsistent == Spec => []Consistent
<1>1. IInv => Consistent
  <2> SUFFICES ASSUME IInv, NEW u \in User \ Others
               PROVE  Cardinality(RowsOf(u))
                        <= Cardinality(Tried(u)) + Cardinality(Tried(u) \cap broken)
    <3>1. \A u \in User : Tried(u) = {t \in Text : Owner[Author[t]] = u /\ post[t].stage # "typed"}
      BY DEF Tried, Mine
    <3> QED
      BY <3>1 DEF Consistent, StoredOnce, RowsOf, IInv
  <2>1. /\ Cardinality(RowsOf(u)) \in Nat /\ Cardinality(MayInsert(u)) \in Nat
        /\ Cardinality(Tried(u)) \in Nat /\ Cardinality(Tried(u) \cap broken) \in Nat
    BY CountTypes
  <2>2. Cardinality(RowsOf(u)) + Cardinality(MayInsert(u))
            <= Cardinality(Tried(u)) + Cardinality(Tried(u) \cap broken)
    BY DEF IInv, RowsAreCounted, Counted
  <2> QED
    BY <2>1, <2>2 DEF IInv
<1> QED
  BY <1>1, Invariant, PTL

\* Once everything has arrived an open screen shows every message, but for those that a
\* socket lost and those that its history replaced (use-chat.ts).
THEOREM NothingLost == Spec => []ShownUnlessHidden
<1>1. IInv => ShownUnlessHidden
  <2> SUFFICES ASSUME IInv, NEW d \in Device, Settled(d), history[d] = "shown"
               PROVE  Stored \subseteq shown[d] \cup hidden[d]
    BY DEF ShownUnlessHidden
  <2>1. RowsOn(d) = {} /\ unannounced = {}
    BY DEF Settled, RowsOn
  <2>2. loaded[d] = {} /\ NothingForgotten(d)
    BY DEF IInv, DeviceFits, LoadedIsPrefix
  <2> QED
    BY <2>1, <2>2 DEF NothingForgotten
<1> QED
  BY <1>1, Invariant, PTL

\* A conversation that stays on the screen ends up read, but for the messages that have
\* not come to the screen ([conversationId].tsx).
THEOREM OpenIsRead == Spec => []OpenConversationIsRead
<1>1. IInv => OpenConversationIsRead
  <2> SUFFICES ASSUME IInv, NEW d \in Device,
                      Settled(d), screen[d] = "open", marks[d] = 0, d \notin unmarked
               PROVE  Unread(Owner[d]) \subseteq hidden[d] \ shown[d]
    BY DEF OpenConversationIsRead
  <2>1. RowsOn(d) = {} /\ unannounced = {}
    BY DEF Settled, RowsOn
  <2>2. /\ \A n \in shown[d] : n <= lastRead[Owner[d]]
        /\ \A n \in Stored : n <= lastRead[Owner[d]]
                                \/ n \in hidden[d] \cup RowsOn(d) \cup unannounced
    BY DEF IInv, DeviceFits, MarkedIsRead
  <2>3. Stored \subseteq Nat /\ lastRead[Owner[d]] \in Nat
    BY DeviceTypes
  <2>4. ASSUME NEW n \in Stored, n > lastRead[Owner[d]] PROVE n \in hidden[d] /\ n \notin shown[d]
    <3>1. n \in Nat /\ ~(n <= lastRead[Owner[d]])
      BY <2>3, <2>4
    <3> QED
      BY <2>1, <2>2, <3>1
  <2> QED
    BY <2>4 DEF Unread
<1> QED
  BY <1>1, Invariant, PTL

-------------------------------------------------------------------------------
(***************************************************************************)
(* The badges, on the same server and transport                            *)
(***************************************************************************)
\* How many changes the tables have seen, and the latest request of a device.
Version == Len(sender) + marked
LatestOf(d) == pending[d][Len(pending[d])]

Right(answer, d) == answer.unread = Cardinality(Unread(Owner[d]))

\* The answer to the latest request is not older than the badge it will replace.
BadgeIsOlder(d) ==
    /\ badge[d].at <= Version
    /\ fresh[d] /\ LatestOf(d) # None =>
        badge[d].at <= LatestOf(d).at /\ LatestOf(d).at <= Version

\* A change of the tables is still to be announced.
Unsaid == unannounced # {} \/ \E u \in User : unreported[u] > 0

\* A device that has missed nothing is about to be told, or to ask, or has the answer.
WillBeRight(d) ==
    \/ d \in missed \/ Unsaid \/ wire[d] # <<>>
    \/ fresh[d] /\ (LatestOf(d) = None \/ Right(LatestOf(d), d))
    \/ ~fresh[d] /\ Right(badge[d], d)

MarksAreCounted == \A u \in User : unreported[u] <= marked

BadgeInv ==
    /\ B!TypeOK /\ MarksAreCounted
    /\ \A d \in Device : BadgeIsOlder(d) /\ WillBeRight(d)

\* The server and the transport are those of the screen.
LEMMA SameServer ==
    /\ B!ConversationType = ConversationType /\ B!ConversationInit = ConversationInit
    /\ B!Stored = Stored /\ B!Row = Row /\ B!conversation = conversation
    /\ \A u : /\ B!Insert(u) = Insert(u) /\ B!Mark(u) = Mark(u)
              /\ B!Cardinality(B!Unread(u)) = Cardinality(Unread(u))
    /\ \A n : B!Finish(n) = Finish(n)
<1>1. B!Stored = Stored /\ B!Row = Row
  BY DEF B!Stored, Stored, B!Row, Row
<1>2. \A S : B!Cardinality(S) = Cardinality(S)
  BY DEF B!Cardinality, Cardinality
<1>3. \A u : B!Unread(u) = Unread(u)
  BY <1>1 DEF B!Unread, Unread
<1>4. B!ConversationType = ConversationType /\ B!ConversationInit = ConversationInit
  BY <1>1 DEF B!ConversationType, ConversationType, B!ConversationInit, ConversationInit
<1>5. /\ \A u : B!Insert(u) = Insert(u) /\ B!Mark(u) = Mark(u)
      /\ \A n : B!Finish(n) = Finish(n)
  BY DEF B!Insert, Insert, B!Mark, Mark, B!Finish, Finish
<1> QED
  BY <1>1, <1>2, <1>3, <1>4, <1>5 DEF B!conversation, conversation

\* What the type invariant says of a device and of the server.
LEMMA BadgeTypes ==
    ASSUME BadgeInv
    PROVE  /\ home \in [Device -> Instance \cup {None}] /\ wire \in [Device -> Seq(BadgeEvent)]
           /\ \A d \in Device : home[d] = None => wire[d] = <<>>
           /\ ConversationType /\ Len(sender) \in Nat /\ marked \in Nat /\ Version \in Nat
           /\ unreported \in [User -> 0 .. MaxMarks] /\ unreported \in [User -> Nat]
           /\ marked \in 0 .. MaxMarks /\ MaxMarks \in Nat
           /\ pending \in [Device -> Seq(B!Answer \cup {None})]
           /\ fresh \in [Device -> BOOLEAN] /\ badge \in [Device -> B!Answer]
           /\ \A d \in Device : Len(pending[d]) <= MaxPending /\ (fresh[d] => pending[d] # <<>>)
           /\ missed \subseteq Device
<1>1. ConversationType /\ Len(sender) \in Nat
  BY SameServer, StoredRows DEF BadgeInv, B!TypeOK
<1>2. MaxMarks \in Nat /\ marked \in Nat /\ unreported \in [User -> Nat]
  BY BoundsAssumption DEF BadgeInv, B!TypeOK
<1> QED
  BY <1>1, <1>2 DEF BadgeInv, B!TypeOK, B!TransportType, Version

\* Unread messages are rows.
LEMMA UnreadCount ==
    ASSUME ConversationType, NEW u
    PROVE  Cardinality(Unread(u)) \in 0 .. MaxRows
<1>1. Unread(u) \subseteq 1 .. MaxRows /\ MaxRows \in Nat
  BY StoredRows DEF Unread, Row
<1>2. IsFiniteSet(1 .. MaxRows) /\ Cardinality(1 .. MaxRows) = MaxRows
  BY <1>1, FS_Interval
<1>3. Cardinality(Unread(u)) \in Nat /\ Cardinality(Unread(u)) <= MaxRows
  BY <1>1, <1>2, FS_Subset, FS_CardinalityType
<1> QED
  BY <1>1, <1>3

-------------------------------------------------------------------------------
(* The steps of the server *)

\* An event to everybody reaches the socket of a device, or the device misses it.
LEMMA AnnounceReaches ==
    ASSUME BadgeInv, B!Announce([to |-> User])
    PROVE  /\ B!TransportType' /\ missed' \subseteq Device
           /\ \A d \in Device : d \in missed' \/ wire'[d] # <<>>
<1> DEFINE e == [to |-> User]
<1> DEFINE Sent(copies) ==
        B!Dispatch(e, copies) /\ missed' = missed \cup (B!Addressed(e) \ B!Reached(e, copies))
<1>0. PICK i \in Instance : \E copies \in B!Deliveries(i) : Sent(copies)
  BY DEF B!Announce
<1>1. PICK copies \in B!Deliveries(i) : Sent(copies)
  BY <1>0
<1>2. B!Deliveries(i) = Deliveries(i)
  BY DEF B!Deliveries, Deliveries, B!Once, Once
<1>3. copies \in [Instance -> Nat] /\ e \in BadgeEvent
  BY <1>1, <1>2, DeliveryTypes DEF BadgeEvent
<1>4. B!Addressed(e) = Device
  BY OwnerAssumption DEF B!Addressed
<1> HIDE DEF e
<1>5. home' = home /\ DOMAIN wire' = Device /\ wire' = [d \in Device |-> wire'[d]]
  BY <1>1 DEF B!Dispatch
<1>6. ASSUME NEW d \in Device
      PROVE  /\ wire'[d] \in Seq(BadgeEvent) /\ (home'[d] = None => wire'[d] = <<>>)
             /\ d \in missed' \/ wire'[d] # <<>>
  <2>0. wire[d] \in Seq(BadgeEvent) /\ (home[d] = None => wire[d] = <<>>) /\ None \notin Instance
        /\ home[d] \in Instance \cup {None}
    BY BadgeTypes, OwnerAssumption
  <2>1. CASE d \in B!Reached(e, copies)
    <3>1. PICK m \in Nat : m = B!Copies(d, copies) /\ m # 0 /\ home[d] # None
      BY <1>3, <2>0, <2>1 DEF B!Reached, B!Copies
    <3>2. wire'[d] = wire[d] \o [k \in 1 .. m |-> e]
      BY <1>1, <2>1, <3>1 DEF B!Dispatch
    <3>3. [k \in 1 .. m |-> e] \in Seq(BadgeEvent) /\ Len([k \in 1 .. m |-> e]) = m
      BY <1>3
    <3>4. wire'[d] \in Seq(BadgeEvent) /\ Len(wire'[d]) = Len(wire[d]) + m
      <4> DEFINE f == [k \in 1 .. m |-> e]
      <4> HIDE DEF f
      <4> QED BY <2>0, <3>2, <3>3 DEF f
    <3> QED
      BY <1>5, <2>0, <3>1, <3>4
  <2>2. CASE d \notin B!Reached(e, copies)
    BY <1>1, <1>4, <1>5, <2>0, <2>2 DEF B!Dispatch
  <2> QED
    BY <2>1, <2>2
<1>7. wire' \in [Device -> Seq(BadgeEvent)]
  BY <1>5, <1>6
<1>8. missed' \subseteq Device
  BY <1>1, <1>4, BadgeTypes
<1> QED
  BY <1>5, <1>6, <1>7, <1>8, BadgeTypes DEF B!TransportType

\* A step of the server is announced, or will be, or is missed.
LEMMA ServerTells ==
    ASSUME BadgeInv, UNCHANGED B!device, B!TransportType', ConversationType',
           unreported' \in [User -> 0 .. MaxMarks], marked' \in 0 .. MaxMarks, MarksAreCounted',
           Version <= Version', missed' \subseteq Device,
           \A d \in Device : d \in missed' \/ Unsaid' \/ wire'[d] # <<>>
    PROVE  BadgeInv'
<1>1. B!ConversationType'
  BY DEF B!ConversationType, ConversationType, B!Stored, Stored, B!Row, Row
<1>2. B!TypeOK'
  BY <1>1, BadgeTypes DEF B!TypeOK, B!device
<1>3. Version \in Nat /\ Version' \in Nat
  <2>1. Len(sender') \in Nat /\ marked' \in Nat
    BY BadgeTypes, StoredRows DEF ConversationType, Stored
  <2> QED
    BY <2>1, BadgeTypes DEF Version
<1>4. ASSUME NEW d \in Device PROVE BadgeIsOlder(d)'
  <2>1. /\ badge'[d] = badge[d] /\ fresh'[d] = fresh[d] /\ pending'[d] = pending[d]
        /\ LatestOf(d)' = LatestOf(d)
    BY DEF B!device, LatestOf
  <2>2. badge[d].at \in Nat /\ BadgeIsOlder(d) /\ (fresh[d] => LatestOf(d) \in B!Answer \cup {None})
    BY BadgeTypes DEF BadgeInv, LatestOf, B!Answer
  <2>3. LatestOf(d) \in B!Answer => LatestOf(d).at \in Nat
    BY DEF B!Answer
  <2> QED
    BY <1>3, <2>1, <2>2, <2>3 DEF BadgeIsOlder
<1> QED
  BY <1>2, <1>4 DEF BadgeInv, WillBeRight

\* A message is inserted, a mark written: the handler has something to publish.
LEMMA WriteTells ==
    ASSUME BadgeInv, NEW u \in User, B!Write(u) \/ B!MarkRead(u)
    PROVE  BadgeInv'
<1>0. /\ B!TransportType' /\ UNCHANGED <<home, wire, missed>> /\ UNCHANGED B!device
      /\ ConversationType /\ missed' \subseteq Device
  BY BadgeTypes DEF BadgeInv, B!TypeOK, B!TransportType, B!Write, B!MarkRead, B!transport
<1>1. CASE B!Write(u)
  <2>1. Insert(u) /\ UNCHANGED <<unreported, marked>>
    BY <1>1, SameServer DEF B!Write, B!reading
  <2>2. ConversationType' /\ Len(sender') = Len(sender) + 1 /\ unannounced' # {}
    BY <1>0, <2>1, InsertFacts
  <2>3. Version <= Version'
    BY <2>1, <2>2, BadgeTypes DEF Version
  <2>4. MarksAreCounted' /\ Unsaid'
    BY <2>1, <2>2 DEF BadgeInv, MarksAreCounted, Unsaid
  <2> QED
    BY <1>0, <2>1, <2>2, <2>3, <2>4, BadgeTypes, ServerTells
<1>2. CASE B!MarkRead(u)
  <2>1. /\ Mark(u) /\ marked < MaxMarks /\ marked' = marked + 1
        /\ unreported' = [unreported EXCEPT ![u] = @ + 1]
    BY <1>2, SameServer DEF B!MarkRead
  <2>2. ConversationType' /\ sender' = sender
    BY <1>0, <2>1, MarkFacts
  <2>3. /\ unreported \in [User -> Nat] /\ marked \in Nat /\ MaxMarks \in Nat
        /\ \A v \in User : unreported[v] <= marked
    BY BadgeTypes DEF BadgeInv, MarksAreCounted
  <2>4. \A v \in User : /\ unreported'[v] \in Nat /\ unreported'[v] <= marked'
                        /\ (v = u => unreported'[v] > 0)
    BY <2>1, <2>3
  <2>5. unreported' \in [User -> 0 .. MaxMarks] /\ marked' \in 0 .. MaxMarks
    <3>1. DOMAIN unreported' = User /\ unreported' = [v \in User |-> unreported'[v]]
      BY <2>1, <2>3
    <3>2. \A v \in User : unreported'[v] \in 0 .. MaxMarks
      BY <2>1, <2>3, <2>4
    <3> QED
      BY <2>1, <2>3, <3>1, <3>2
  <2>6. Version <= Version'
    BY <2>1, <2>2, BadgeTypes DEF Version
  <2>7. MarksAreCounted' /\ Unsaid'
    BY <2>4 DEF MarksAreCounted, Unsaid
  <2> QED
    BY <1>0, <2>2, <2>5, <2>6, <2>7, ServerTells
<1> QED
  BY <1>1, <1>2

\* The handler of a row publishes it, or fails.
LEMMA RowTells ==
    ASSUME BadgeInv, NEW n \in Row, B!PublishRow(n) \/ B!FailRow(n)
    PROVE  BadgeInv'
<1>1. Finish(n) /\ UNCHANGED B!device /\ UNCHANGED <<unreported, marked>>
  BY SameServer DEF B!PublishRow, B!FailRow, B!reading
<1>2. ConversationType' /\ sender' = sender
  BY <1>1, BadgeTypes DEF Finish, ConversationType, Stored
<1>3. /\ B!TransportType' /\ missed' \subseteq Device
      /\ \A d \in Device : d \in missed' \/ wire'[d] # <<>>
  <2>1. CASE B!PublishRow(n)
    BY <2>1, AnnounceReaches DEF B!PublishRow
  <2>2. CASE B!FailRow(n)
    BY <2>2 DEF B!FailRow, B!transport, BadgeInv, B!TypeOK, B!TransportType
  <2> QED
    BY <2>1, <2>2
<1>4. Version <= Version' /\ MarksAreCounted'
  BY <1>1, <1>2, BadgeTypes DEF Version, BadgeInv, MarksAreCounted
<1> QED
  BY <1>1, <1>2, <1>3, <1>4, BadgeTypes, ServerTells

\* The handler of a mark tells everybody, or fails.
LEMMA MarkTells ==
    ASSUME BadgeInv, NEW u \in User, B!PublishMark(u) \/ B!FailMark(u)
    PROVE  BadgeInv'
<1>1. /\ unreported[u] > 0 /\ unreported' = [unreported EXCEPT ![u] = @ - 1]
      /\ UNCHANGED <<sender, lastRead, unannounced, marked>> /\ UNCHANGED B!device
  BY DEF B!PublishMark, B!FailMark, B!conversation
<1>2. ConversationType'
  BY <1>1, BadgeTypes DEF ConversationType, Stored
<1>3. /\ B!TransportType' /\ missed' \subseteq Device
      /\ \A d \in Device : d \in missed' \/ wire'[d] # <<>>
  <2>1. CASE B!PublishMark(u)
    <3>1. B!ReadRecipients(u) = User
      BY DEF B!ReadRecipients
    <3> QED
      BY <2>1, <3>1, AnnounceReaches DEF B!PublishMark
  <2>2. CASE B!FailMark(u)
    BY <2>2 DEF B!FailMark, B!transport, BadgeInv, B!TypeOK, B!TransportType
  <2> QED
    BY <2>1, <2>2
<1>4. /\ unreported \in [User -> Nat] /\ marked \in Nat /\ MaxMarks \in Nat /\ marked <= MaxMarks
      /\ \A v \in User : unreported[v] <= marked
  BY BadgeTypes DEF BadgeInv, MarksAreCounted
<1>5. \A v \in User : unreported'[v] \in Nat /\ unreported'[v] <= marked
  BY <1>1, <1>4
<1>6. unreported' \in [User -> 0 .. MaxMarks]
  <2>1. DOMAIN unreported' = User /\ unreported' = [v \in User |-> unreported'[v]]
    BY <1>1, <1>4
  <2>2. \A v \in User : unreported'[v] \in 0 .. MaxMarks
    BY <1>4, <1>5
  <2> QED
    BY <2>1, <2>2
<1>7. Version <= Version' /\ MarksAreCounted' /\ marked' \in 0 .. MaxMarks
  BY <1>1, <1>5, BadgeTypes DEF Version, MarksAreCounted
<1> QED
  BY <1>1, <1>2, <1>3, <1>6, <1>7, ServerTells

-------------------------------------------------------------------------------
(* The steps of a device *)

\* A queue of requests without its k-th.
LEMMA RequestRemoved ==
    ASSUME NEW S, NEW s \in Seq(S), NEW k \in DOMAIN s
    PROVE  /\ B!RemoveAt(s, k) \in Seq(S) /\ Len(B!RemoveAt(s, k)) = Len(s) - 1
           /\ k < Len(s) => /\ B!RemoveAt(s, k) # <<>>
                            /\ B!RemoveAt(s, k)[Len(s) - 1] = s[Len(s)]
<1> DEFINE before == SubSeq(s, 1, k - 1)
           after == SubSeq(s, k + 1, Len(s))
<1>1. Len(s) \in Nat /\ k \in Nat /\ 1 <= k /\ k <= Len(s)
  OBVIOUS
<1>2. before \in Seq(S) /\ Len(before) = k - 1
  <2>1. \A i \in 1 .. (k - 1) : i \in DOMAIN s
    BY <1>1
  <2> QED
    BY <1>1, <2>1, SubSeqProperties
<1>3. after \in Seq(S) /\ Len(after) = Len(s) - k /\ (k < Len(s) => after[Len(s) - k] = s[Len(s)])
  <2>1. \A i \in (k + 1) .. Len(s) : i \in DOMAIN s
    BY <1>1
  <2>2. k + 1 \in 1 .. Len(s) + 1
    BY <1>1
  <2>3. Len(after) = Len(s) - k /\ after \in Seq(S)
    BY <1>1, <2>1, <2>2, SubSeqProperties
  <2>4. ASSUME k < Len(s) PROVE after[Len(s) - k] = s[Len(s)]
    <3>1. Len(s) - k \in 1 .. (Len(s) - (k + 1) + 1) /\ (k + 1) + (Len(s) - k) - 1 = Len(s)
      <4>1. \A n, m \in Nat : m < n => n - m \in 1 .. (n - (m + 1) + 1) /\ (m + 1) + (n - m) - 1 = n
        OBVIOUS
      <4> QED
        BY <1>1, <2>4, <4>1
    <3>2. \A i \in 1 .. (Len(s) - (k + 1) + 1) : after[i] = s[(k + 1) + i - 1]
      BY <1>1, <2>1, <2>2, SubSeqProperties
    <3> QED
      BY <3>1, <3>2
  <2> QED
    BY <2>3, <2>4
<1>4. B!RemoveAt(s, k) = before \o after
  BY DEF B!RemoveAt
<1> HIDE DEF before, after
<1>5. before \o after \in Seq(S) /\ Len(before \o after) = Len(s) - 1
  BY <1>1, <1>2, <1>3
<1>6. ASSUME k < Len(s) PROVE (before \o after)[Len(s) - 1] = s[Len(s)]
  <2>1. ~(Len(s) - 1 <= Len(before)) /\ Len(s) - 1 \in 1 .. (Len(before) + Len(after))
        /\ Len(s) - 1 - Len(before) = Len(s) - k
    BY <1>1, <1>2, <1>3, <1>6
  <2>2. \A i \in 1 .. Len(before) + Len(after) :
            (before \o after)[i] = IF i <= Len(before) THEN before[i] ELSE after[i - Len(before)]
    BY <1>2, <1>3, ConcatProperties
  <2> QED
    BY <1>3, <1>6, <2>1, <2>2
<1>7. k < Len(s) => before \o after # <<>>
  BY <1>1, <1>5
<1> QED
  BY <1>4, <1>5, <1>6, <1>7

\* A device whose badge and requests stay is about to be right as before.
LEMMA BadgeStays ==
    ASSUME BadgeInv, NEW d \in Device,
           UNCHANGED <<sender, lastRead, unannounced, unreported, marked>>,
           pending'[d] = pending[d], fresh'[d] = fresh[d], badge'[d] = badge[d],
           d \in missed => d \in missed', wire[d] # <<>> => d \in missed' \/ wire'[d] # <<>>
    PROVE  BadgeIsOlder(d)' /\ WillBeRight(d)'
  BY DEF BadgeInv, BadgeIsOlder, WillBeRight, LatestOf, Version, Unsaid, Right, Unread, Stored

\* Only what a device does changes: its request, its answer, its badge.
LEMMA DeviceActs ==
    ASSUME BadgeInv, NEW d \in Device, B!TransportType',
           UNCHANGED <<sender, lastRead, unannounced, unreported, marked>>,
           NEW q \in Seq(B!Answer \cup {None}), NEW f \in BOOLEAN, NEW b \in B!Answer,
           Len(q) <= MaxPending, f => q # <<>>,
           pending' = [pending EXCEPT ![d] = q], fresh' = [fresh EXCEPT ![d] = f],
           badge' = [badge EXCEPT ![d] = b], missed' \subseteq Device,
           \A c \in Device \ {d} : wire'[c] = wire[c] /\ (c \in missed => c \in missed'),
           BadgeIsOlder(d)', WillBeRight(d)'
    PROVE  BadgeInv'
<1>1. /\ pending' \in [Device -> Seq(B!Answer \cup {None})] /\ fresh' \in [Device -> BOOLEAN]
      /\ badge' \in [Device -> B!Answer]
      /\ pending'[d] = q /\ fresh'[d] = f /\ badge'[d] = b
  BY BadgeTypes
<1>2. \A c \in Device \ {d} :
        pending'[c] = pending[c] /\ fresh'[c] = fresh[c] /\ badge'[c] = badge[c]
  BY BadgeTypes
<1>3. B!TypeOK'
  <2>1. \A c \in Device : Len(pending'[c]) <= MaxPending /\ (fresh'[c] => pending'[c] # <<>>)
    BY <1>1, <1>2, BadgeTypes
  <2>2. B!ConversationType'
    BY BadgeTypes DEF B!ConversationType, ConversationType, B!Stored, Stored, B!Row, Row
  <2> QED
    BY <1>1, <2>1, <2>2, BadgeTypes DEF B!TypeOK
<1>4. ASSUME NEW c \in Device PROVE BadgeIsOlder(c)' /\ WillBeRight(c)'
  <2>1. CASE c = d
    BY <2>1
  <2>2. CASE c # d
    BY <1>2, <2>2, BadgeStays
  <2> QED
    BY <2>1, <2>2
<1> QED
  BY <1>3, <1>4 DEF BadgeInv, MarksAreCounted

\* An event comes: the device asks, and has missed nothing since.
LEMMA ReceiveAsks ==
    ASSUME BadgeInv, NEW d \in Device, B!Receive(d)
    PROVE  BadgeInv'
<1> DEFINE q == Append(pending[d], None)
<1>1. /\ wire[d] # <<>> /\ wire' = [wire EXCEPT ![d] = Tail(@)] /\ home' = home
      /\ Len(pending[d]) < MaxPending /\ pending' = [pending EXCEPT ![d] = q]
      /\ fresh' = [fresh EXCEPT ![d] = TRUE] /\ missed' = missed \ {d} /\ badge' = badge
      /\ UNCHANGED <<sender, lastRead, unannounced, unreported, marked>>
  BY DEF B!Receive, B!Take, B!conversation, B!reading
<1>2. pending[d] \in Seq(B!Answer \cup {None})
  BY BadgeTypes
<1>3. /\ q \in Seq(B!Answer \cup {None}) /\ Len(q) <= MaxPending /\ q # <<>>
      /\ q[Len(q)] = None
  BY <1>1, <1>2, BadgeAssumption
<1>4. B!TransportType'
  <2>1. Tail(wire[d]) \in Seq(BadgeEvent) /\ home[d] # None
    BY <1>1, BadgeTypes
  <2>2. wire' \in [Device -> Seq(BadgeEvent)]
    BY <1>1, <2>1, BadgeTypes
  <2>3. \A c \in Device : home'[c] = None => wire'[c] = <<>>
    BY <1>1, <2>1, BadgeTypes
  <2> QED
    BY <1>1, <2>2, <2>3, BadgeTypes DEF B!TransportType
<1>5. /\ fresh'[d] /\ LatestOf(d)' = None /\ badge'[d] = badge[d] /\ badge[d] \in B!Answer
  <2>1. pending'[d] = q /\ fresh'[d] = TRUE
    BY <1>1, BadgeTypes
  <2> HIDE DEF q
  <2> QED BY <1>1, <1>3, <2>1, BadgeTypes DEF LatestOf
<1>6. BadgeIsOlder(d)' /\ WillBeRight(d)'
  BY <1>1, <1>5 DEF BadgeInv, BadgeIsOlder, WillBeRight, Version
<1>7. badge' = [badge EXCEPT ![d] = badge[d]]
  BY <1>1, BadgeTypes
<1>8. \A c \in Device \ {d} : wire'[c] = wire[c] /\ (c \in missed => c \in missed')
  BY <1>1, BadgeTypes
<1>9. missed' \subseteq Device
  BY <1>1, BadgeTypes
<1> HIDE DEF q
<1> QED
  BY <1>1, <1>3, <1>4, <1>5, <1>6, <1>7, <1>8, <1>9, DeviceActs

\* One of the requests is answered: the answer is about the tables of this moment.
LEMMA ReadAnswers ==
    ASSUME BadgeInv, NEW d \in Device, B!Read(d)
    PROVE  BadgeInv'
<1> DEFINE answer == [unread |-> Cardinality(Unread(Owner[d])), at |-> Version]
<1>1. PICK k \in DOMAIN pending[d] :
        pending[d][k] = None /\ pending' = [pending EXCEPT ![d][k] = answer]
  BY SameServer DEF B!Read, Version
<1>2. /\ UNCHANGED <<home, wire, fresh, badge, missed>>
      /\ UNCHANGED <<sender, lastRead, unannounced, unreported, marked>>
  BY DEF B!Read, B!transport, B!conversation, B!reading
<1>3. answer \in B!Answer
  BY UnreadCount, BadgeTypes DEF B!Answer
<1> DEFINE q == [pending[d] EXCEPT ![k] = answer]
<1>4. /\ pending[d] \in Seq(B!Answer \cup {None}) /\ fresh[d] \in BOOLEAN
      /\ badge[d] \in B!Answer
      /\ Len(pending[d]) <= MaxPending /\ (fresh[d] => pending[d] # <<>>)
  BY BadgeTypes
<1>5. /\ q \in Seq(B!Answer \cup {None}) /\ Len(q) = Len(pending[d])
      /\ q[Len(q)] = IF k = Len(pending[d]) THEN answer ELSE pending[d][Len(pending[d])]
  <2> HIDE DEF answer
  <2> QED BY <1>3, <1>4
<1>6. pending' = [pending EXCEPT ![d] = q] /\ pending'[d] = q
  BY <1>1, BadgeTypes
<1>7. fresh[d] => q # <<>>
  <2> HIDE DEF q
  <2>1. fresh[d] => Len(pending[d]) # 0
    BY <1>4
  <2> QED BY <1>5, <2>1
<1> HIDE DEF q
<1>8. LatestOf(d)' = IF k = Len(pending[d]) THEN answer ELSE LatestOf(d)
  BY <1>5, <1>6 DEF LatestOf
<1>9. /\ Version' = Version /\ Unsaid' = Unsaid /\ Version \in Nat
      /\ answer.at = Version /\ Right(answer, d) /\ BadgeIsOlder(d) /\ WillBeRight(d)
      /\ Cardinality(Unread(Owner[d]))' = Cardinality(Unread(Owner[d]))
  BY <1>2, BadgeTypes DEF Version, Unsaid, Right, Unread, Stored, BadgeInv
<1> HIDE DEF answer
<1>10. BadgeIsOlder(d)' /\ WillBeRight(d)'
  <2>1. BadgeIsOlder(d)'
    <3>1. CASE k = Len(pending[d])
      BY <1>2, <1>8, <1>9, <3>1 DEF BadgeIsOlder
    <3>2. CASE k # Len(pending[d])
      BY <1>2, <1>8, <1>9, <3>2 DEF BadgeIsOlder
    <3> QED
      BY <3>1, <3>2
  <2>2. WillBeRight(d)'
    <3>1. CASE k = Len(pending[d])
      BY <1>2, <1>8, <1>9, <3>1 DEF WillBeRight, Right
    <3>2. CASE k # Len(pending[d])
      BY <1>2, <1>8, <1>9, <3>2 DEF WillBeRight, Right
    <3> QED
      BY <3>1, <3>2
  <2> QED
    BY <2>1, <2>2
<1>11. /\ fresh' = [fresh EXCEPT ![d] = fresh[d]] /\ badge' = [badge EXCEPT ![d] = badge[d]]
       /\ missed' \subseteq Device
  BY <1>2, BadgeTypes
<1>12. \A c \in Device \ {d} : wire'[c] = wire[c] /\ (c \in missed => c \in missed')
  BY <1>2
<1>13. B!TransportType'
  BY <1>2 DEF BadgeInv, B!TypeOK, B!TransportType
<1>14. Len(q) <= MaxPending
  BY <1>4, <1>5
<1> QED
  BY <1>2, <1>4, <1>5, <1>6, <1>7, <1>10, <1>11, <1>12, <1>13, <1>14, DeviceActs

\* A request is over: the latest one stays the latest, unless it is the one.
LEMMA Forgotten ==
    ASSUME BadgeInv, NEW d \in Device, NEW k \in DOMAIN pending[d], B!Forget(d, k)
    PROVE  LET q == B!RemoveAt(pending[d], k)
               f == fresh[d] /\ k < Len(pending[d])
           IN  /\ q \in Seq(B!Answer \cup {None}) /\ Len(q) <= MaxPending /\ (f => q # <<>>)
               /\ pending' = [pending EXCEPT ![d] = q] /\ fresh' = [fresh EXCEPT ![d] = f]
               /\ fresh'[d] = f /\ (f => LatestOf(d)' = LatestOf(d))
<1> DEFINE q == B!RemoveAt(pending[d], k)
<1>1. pending[d] \in Seq(B!Answer \cup {None}) /\ Len(pending[d]) <= MaxPending
  BY BadgeTypes
<1>2. /\ pending' = [pending EXCEPT ![d] = q] /\ pending'[d] = q
      /\ fresh' = [fresh EXCEPT ![d] = fresh[d] /\ k < Len(pending[d])]
      /\ fresh'[d] = (fresh[d] /\ k < Len(pending[d]))
  BY BadgeTypes DEF B!Forget
<1>3. /\ q \in Seq(B!Answer \cup {None}) /\ Len(q) = Len(pending[d]) - 1
      /\ k < Len(pending[d]) => q # <<>> /\ q[Len(pending[d]) - 1] = pending[d][Len(pending[d])]
  BY <1>1, RequestRemoved
<1> HIDE DEF q
<1>4. Len(q) <= MaxPending
  BY <1>1, <1>3, BadgeAssumption
<1>5. k < Len(pending[d]) => LatestOf(d)' = LatestOf(d)
  BY <1>2, <1>3 DEF LatestOf
<1> QED
  BY <1>2, <1>3, <1>4, <1>5 DEF q

\* An answer is displayed when it is that of the latest request, and a request lost.
LEMMA DisplayKeeps ==
    ASSUME BadgeInv, NEW d \in Device, B!Display(d)
    PROVE  BadgeInv' /\ \A c \in Device : badge'[c].at >= badge[c].at
<1>1. PICK k \in DOMAIN pending[d] :
        /\ pending[d][k] # None /\ B!Forget(d, k)
        /\ badge' = IF B!Latest(d, k) THEN [badge EXCEPT ![d] = pending[d][k]] ELSE badge
  BY DEF B!Display
<1>2. /\ UNCHANGED <<home, wire, missed>>
      /\ UNCHANGED <<sender, lastRead, unannounced, unreported, marked>>
  BY DEF B!Display, B!transport, B!conversation, B!reading
<1> DEFINE q == B!RemoveAt(pending[d], k)
           f == fresh[d] /\ k < Len(pending[d])
           b == IF B!Latest(d, k) THEN pending[d][k] ELSE badge[d]
<1>3. /\ q \in Seq(B!Answer \cup {None}) /\ Len(q) <= MaxPending /\ (f => q # <<>>)
      /\ pending' = [pending EXCEPT ![d] = q] /\ fresh' = [fresh EXCEPT ![d] = f]
      /\ fresh'[d] = f /\ (f => LatestOf(d)' = LatestOf(d))
  BY <1>1, Forgotten
<1>4. /\ pending[d] \in Seq(B!Answer \cup {None}) /\ badge \in [Device -> B!Answer]
      /\ fresh[d] \in BOOLEAN /\ Len(pending[d]) \in Nat /\ k \in Nat /\ k <= Len(pending[d])
  BY <1>1, BadgeTypes
<1>5. b \in B!Answer /\ f \in BOOLEAN /\ badge' = [badge EXCEPT ![d] = b] /\ badge'[d] = b
  <2>1. f \in BOOLEAN
    BY <1>4
  <2>2. CASE B!Latest(d, k)
    BY <1>1, <1>4, <2>2
  <2>3. CASE ~B!Latest(d, k)
    <3>1. b = badge[d] /\ badge' = badge
      BY <1>1, <2>3
    <3> QED
      BY <1>4, <2>1, <3>1
  <2> QED
    BY <2>1, <2>2, <2>3
<1>6. /\ Version' = Version /\ Unsaid' = Unsaid /\ Version \in Nat
      /\ BadgeIsOlder(d) /\ WillBeRight(d)
      /\ Cardinality(Unread(Owner[d]))' = Cardinality(Unread(Owner[d]))
  BY <1>2, BadgeTypes DEF Version, Unsaid, Unread, Stored, BadgeInv
<1>7. /\ B!Latest(d, k) => fresh[d] /\ LatestOf(d) = b /\ b # None /\ ~f
      /\ ~B!Latest(d, k) => b = badge[d] /\ f = fresh[d]
  BY <1>1, <1>4 DEF B!Latest, LatestOf
<1> HIDE DEF q, f, b
<1>8. BadgeIsOlder(d)' /\ WillBeRight(d)' /\ b.at >= badge[d].at
  <2>1. badge[d].at \in Nat /\ b.at \in Nat
    BY <1>4, <1>5 DEF B!Answer
  <2>2. CASE B!Latest(d, k)
    BY <1>2, <1>3, <1>5, <1>6, <1>7, <2>1, <2>2 DEF BadgeIsOlder, WillBeRight, Right
  <2>3. CASE ~B!Latest(d, k)
    BY <1>2, <1>3, <1>5, <1>6, <1>7, <2>1, <2>3 DEF BadgeIsOlder, WillBeRight, Right
  <2> QED
    BY <2>2, <2>3
<1>9. BadgeInv'
  <2>1. B!TransportType' /\ missed' \subseteq Device
    BY <1>2, BadgeTypes DEF BadgeInv, B!TypeOK, B!TransportType
  <2> QED
    BY <1>2, <1>3, <1>5, <1>8, <2>1, DeviceActs
<1>10. ASSUME NEW c \in Device PROVE badge'[c].at >= badge[c].at
  <2>1. badge[c].at \in Nat
    BY <1>4 DEF B!Answer
  <2> QED
    BY <1>4, <1>5, <1>8, <2>1
<1> QED
  BY <1>9, <1>10

LEMMA RequestLost ==
    ASSUME BadgeInv, NEW d \in Device, B!LoseRequest(d)
    PROVE  BadgeInv'
<1>1. PICK k \in DOMAIN pending[d] :
        /\ missed' = IF fresh[d] /\ k = Len(pending[d]) THEN missed \cup {d} ELSE missed
        /\ B!Forget(d, k)
  BY DEF B!LoseRequest
<1>2. /\ UNCHANGED <<home, wire, badge>>
      /\ UNCHANGED <<sender, lastRead, unannounced, unreported, marked>>
  BY DEF B!LoseRequest, B!transport, B!conversation, B!reading
<1> DEFINE q == B!RemoveAt(pending[d], k)
           f == fresh[d] /\ k < Len(pending[d])
<1>3. /\ q \in Seq(B!Answer \cup {None}) /\ Len(q) <= MaxPending /\ (f => q # <<>>)
      /\ pending' = [pending EXCEPT ![d] = q] /\ fresh' = [fresh EXCEPT ![d] = f]
      /\ fresh'[d] = f /\ (f => LatestOf(d)' = LatestOf(d))
  BY <1>1, Forgotten
<1>4. /\ fresh[d] \in BOOLEAN /\ Len(pending[d]) \in Nat /\ k \in Nat /\ k <= Len(pending[d])
      /\ badge \in [Device -> B!Answer] /\ missed \subseteq Device
  BY <1>1, BadgeTypes
<1>5. /\ Version' = Version /\ Unsaid' = Unsaid
      /\ BadgeIsOlder(d) /\ WillBeRight(d)
      /\ Cardinality(Unread(Owner[d]))' = Cardinality(Unread(Owner[d]))
  BY <1>2 DEF Version, Unsaid, Unread, Stored, BadgeInv
<1>6. f \in BOOLEAN /\ missed' \subseteq Device /\ missed \subseteq missed'
      /\ (f = fresh[d] \/ d \in missed')
  BY <1>1, <1>4
<1>7. f => fresh[d]
  OBVIOUS
<1> HIDE DEF q, f
<1>8. BadgeIsOlder(d)' /\ WillBeRight(d)'
  BY <1>2, <1>3, <1>5, <1>6, <1>7 DEF BadgeIsOlder, WillBeRight, Right
<1>9. badge' = [badge EXCEPT ![d] = badge[d]] /\ badge[d] \in B!Answer /\ B!TransportType'
  BY <1>2, <1>4, BadgeTypes DEF BadgeInv, B!TypeOK, B!TransportType
<1> QED
  BY <1>2, <1>3, <1>6, <1>8, <1>9, DeviceActs

\* A socket comes or goes: what was on its way is missed.
LEMMA SocketMoves ==
    ASSUME BadgeInv, NEW d \in Device, B!LoseSocket(d) \/ B!ConnectSocket(d)
    PROVE  BadgeInv'
<1>1. /\ UNCHANGED <<pending, fresh, badge>>
      /\ UNCHANGED <<sender, lastRead, unannounced, unreported, marked>>
      /\ UNCHANGED B!device
  BY DEF B!LoseSocket, B!ConnectSocket, B!conversation, B!device, B!reading
<1>2. /\ B!TransportType' /\ missed' \subseteq Device /\ missed \subseteq missed'
      /\ \A c \in Device : wire[c] # <<>> => c \in missed' \/ wire'[c] # <<>>
  <2>1. CASE B!LoseSocket(d)
    <3>1. /\ wire' = [wire EXCEPT ![d] = <<>>] /\ home' = [home EXCEPT ![d] = None]
          /\ missed' = IF wire[d] = <<>> THEN missed ELSE missed \cup {d}
      BY <2>1 DEF B!LoseSocket, B!Disconnect
    <3>2. wire' \in [Device -> Seq(BadgeEvent)] /\ home' \in [Device -> Instance \cup {None}]
      BY <3>1, BadgeTypes
    <3>3. \A c \in Device : home'[c] = None => wire'[c] = <<>>
      BY <3>1, BadgeTypes
    <3> QED
      BY <3>1, <3>2, <3>3, BadgeTypes DEF B!TransportType
  <2>2. CASE B!ConnectSocket(d)
    <3>1. /\ home[d] = None /\ wire' = wire /\ missed' = missed
          /\ \E i \in Instance : home' = [home EXCEPT ![d] = i]
      BY <2>2 DEF B!ConnectSocket, B!Connect
    <3> QED
      BY <3>1, BadgeTypes DEF B!TransportType
  <2> QED
    BY <2>1, <2>2
<1>3. B!TypeOK'
  <2>1. B!ConversationType'
    BY <1>1, BadgeTypes DEF B!ConversationType, ConversationType, B!Stored, Stored, B!Row, Row
  <2> QED
    BY <1>1, <1>2, <2>1, BadgeTypes DEF B!TypeOK
<1>4. \A c \in Device : BadgeIsOlder(c)' /\ WillBeRight(c)'
  BY <1>1, <1>2, BadgeStays
<1> QED
  BY <1>1, <1>3, <1>4 DEF BadgeInv, MarksAreCounted

-------------------------------------------------------------------------------
(* The invariant of the badge *)

LEMMA BadgeInvInit ==
    ASSUME B!Init
    PROVE  BadgeInv
<1>1. /\ sender = <<>> /\ unannounced = {} /\ lastRead = [u \in User |-> 0] /\ marked = 0
      /\ unreported = [u \in User |-> 0]
      /\ wire = [d \in Device |-> <<>>] /\ home \in [Device -> Instance \cup {None}]
      /\ pending = [d \in Device |-> <<None>>] /\ fresh = [d \in Device |-> TRUE]
      /\ badge = [d \in Device |-> [unread |-> 0, at |-> 0]] /\ missed = {}
  BY DEF B!Init, B!TransportInit, B!ConversationInit
<1>2. B!ConversationType /\ Len(sender) = 0
  BY <1>1 DEF B!ConversationType, B!Stored, B!Row
<1>3. B!TransportType
  BY <1>1 DEF B!TransportType
<1>4. MaxRows \in Nat /\ MaxMarks \in Nat
  BY BoundsAssumption
<1>5. \A d \in Device : /\ pending[d] = <<None>> /\ Len(pending[d]) = 1 /\ LatestOf(d) = None
                        /\ fresh[d] = TRUE /\ badge[d].at = 0
  BY <1>1 DEF LatestOf
<1>6. badge \in [Device -> B!Answer] /\ pending \in [Device -> Seq(B!Answer \cup {None})]
  BY <1>1, <1>4 DEF B!Answer
<1>7. B!TypeOK
  BY <1>1, <1>2, <1>3, <1>4, <1>5, <1>6, BadgeAssumption DEF B!TypeOK
<1>8. \A d \in Device : BadgeIsOlder(d) /\ WillBeRight(d)
  BY <1>1, <1>2, <1>5 DEF BadgeIsOlder, WillBeRight, Version
<1> QED
  BY <1>1, <1>7, <1>8 DEF BadgeInv, MarksAreCounted

\* Every step keeps the invariant, and no badge goes back.
LEMMA BadgeInvStep ==
    ASSUME BadgeInv, [B!Next]_(B!vars)
    PROVE  BadgeInv' /\ [\A d \in Device : badge'[d].at >= badge[d].at]_(B!vars)
<1>1. ASSUME UNCHANGED badge, NEW d \in Device PROVE badge'[d].at >= badge[d].at
  <2>1. badge[d].at \in Nat
    BY BadgeTypes DEF B!Answer
  <2> QED
    BY <1>1, <2>1
<1>2. ASSUME NEW u \in User, B!Write(u) \/ B!MarkRead(u)
      PROVE  BadgeInv' /\ UNCHANGED badge
  BY <1>2, WriteTells DEF B!Write, B!MarkRead, B!device
<1>3. ASSUME NEW n \in B!Row, B!PublishRow(n) \/ B!FailRow(n)
      PROVE  BadgeInv' /\ UNCHANGED badge
  BY <1>3, SameServer, RowTells DEF B!PublishRow, B!FailRow, B!device
<1>4. ASSUME NEW u \in User, B!PublishMark(u) \/ B!FailMark(u)
      PROVE  BadgeInv' /\ UNCHANGED badge
  BY <1>4, MarkTells DEF B!PublishMark, B!FailMark, B!device
<1>5. ASSUME NEW d \in Device, B!Receive(d) \/ B!Read(d) \/ B!LoseRequest(d)
      PROVE  BadgeInv' /\ UNCHANGED badge
  BY <1>5, ReceiveAsks, ReadAnswers, RequestLost DEF B!Receive, B!Read, B!LoseRequest
<1>6. ASSUME NEW d \in Device, B!Display(d)
      PROVE  BadgeInv' /\ \A c \in Device : badge'[c].at >= badge[c].at
  BY <1>6, DisplayKeeps
<1>7. ASSUME NEW d \in Device, B!LoseSocket(d) \/ B!ConnectSocket(d)
      PROVE  BadgeInv' /\ UNCHANGED badge
  BY <1>7, SocketMoves DEF B!LoseSocket, B!ConnectSocket, B!device
<1>8. CASE UNCHANGED B!vars
  <2>1. /\ UNCHANGED <<home, wire, missed, pending, fresh, badge>>
        /\ UNCHANGED <<sender, lastRead, unannounced, unreported, marked>>
    BY <1>8 DEF B!vars, B!transport, B!conversation, B!device, B!reading
  <2>2. B!TypeOK'
    BY <2>1 DEF BadgeInv, B!TypeOK, B!TransportType, B!ConversationType, B!Stored
  <2>3. \A d \in Device : BadgeIsOlder(d)' /\ WillBeRight(d)'
    BY <2>1, BadgeStays
  <2> QED
    BY <1>8, <2>1, <2>2, <2>3 DEF BadgeInv, MarksAreCounted
<1> QED
  BY <1>1, <1>2, <1>3, <1>4, <1>5, <1>6, <1>7, <1>8 DEF B!Next, B!Published, B!Answers

\* The inductive invariant of the badge (use-unread-message-count.ts).
THEOREM BadgeInvariant == BadgeSpec => []BadgeInv
<1>1. B!Init => BadgeInv
  BY BadgeInvInit
<1>2. BadgeInv /\ [B!Next]_(B!vars) => BadgeInv'
  BY BadgeInvStep
<1> QED
  BY <1>1, <1>2, PTL DEF BadgeSpec, B!Spec

\* Once everything has arrived the badge is right, on every device of the account, but for
\* what the device has missed since its latest request (use-unread-message-count.ts).
THEOREM BadgeIsRight == BadgeSpec => []BadgesConsistent
<1>1. BadgeInv => BadgesConsistent
  <2> SUFFICES ASSUME BadgeInv, NEW d \in Device, B!Settled(d), d \notin missed
               PROVE  badge[d].unread = B!Cardinality(B!Unread(Owner[d]))
    BY DEF BadgesConsistent, B!Consistent, B!RightUnlessMissed, BadgeInv
  <2>1. ~Unsaid /\ wire[d] = <<>> /\ ~fresh[d]
    BY BadgeTypes DEF B!Settled, Unsaid
  <2>2. Right(badge[d], d)
    BY <2>1 DEF BadgeInv, WillBeRight
  <2> QED
    BY <2>2, SameServer DEF Right
<1> QED
  BY <1>1, BadgeInvariant, PTL

\* The badge never returns to an older state of the tables, however its requests and their
\* answers overtake each other (use-unread-message-count.ts).
THEOREM BadgeMovesForward == BadgeSpec => NeverGoesBack
<1>1. BadgeInv /\ [B!Next]_(B!vars) => [\A d \in Device : badge'[d].at >= badge[d].at]_(B!vars)
  BY BadgeInvStep
<1> QED
  BY <1>1, BadgeInvariant, PTL DEF BadgeSpec, B!Spec, NeverGoesBack, B!NeverGoesBack
===============================================================================
