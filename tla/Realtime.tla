-------------------------------- MODULE Realtime --------------------------------
(***************************************************************************)
(* The transport of realtime events: the broker of each instance of the    *)
(* API (realtime/broker.ts), which goes through Redis and falls back on    *)
(* the instance's own emitter, and the gateway (realtime/gateway.ts),      *)
(* which writes an event to the sockets of its recipients.  Nothing is     *)
(* kept for a device that is not connected.                                *)
(***************************************************************************)
EXTENDS Naturals, Sequences

CONSTANTS
    User,
    Device,     \* one Socket.IO client each
    Owner,      \* [Device -> User], the account that is signed in on the device
    Instance,   \* processes of the API behind the load balancer
    Event,      \* [to : SUBSET User] and what the events carry
    None

ASSUME OwnerAssumption == Owner \in [Device -> User] /\ None \notin Instance

VARIABLES
    home,       \* [Device -> the instance its socket is connected to, or None]
    wire        \* [Device -> events written to its socket and not handled yet]

transport == <<home, wire>>

TransportInit ==
    /\ home \in [Device -> Instance \cup {None}]
    /\ wire = [d \in Device |-> <<>>]

TransportType ==
    /\ home \in [Device -> Instance \cup {None}]
    /\ wire \in [Device -> Seq(Event)]
    /\ \A d \in Device : home[d] = None => wire[d] = <<>>

\* Every instance of I emits once.
Once(I) == [i \in Instance |-> IF i \in I THEN 1 ELSE 0]

\* RedisBroker.publish by instance i: how often each instance emits the event.
\* The connections to Redis come and go between any two publications, so the
\* instances that are subscribed, and whether the publisher of i is ready, are open.
\* An error of PUBLISH does not tell whether Redis has executed it.
Deliveries(i) ==
    LET notReady == {Once({i})}
        published(subscribed) == {Once(subscribed)}
        failed(subscribed) == {Once({i}), [Once(subscribed) EXCEPT ![i] = @ + 1]}
    IN notReady \cup UNION {published(S) \cup failed(S) : S \in SUBSET Instance}

Addressed(e) == {d \in Device : Owner[d] \in e.to}

\* dispatchToRooms: the sockets of the recipients on the instances that emit.
Reached(e, copies) ==
    {d \in Addressed(e) : home[d] # None /\ copies[home[d]] > 0}

Copies(d, copies) == IF home[d] = None THEN 1 ELSE copies[home[d]]

Dispatch(e, copies) ==
    /\ wire' = [d \in Device |->
                IF d \in Reached(e, copies)
                THEN wire[d] \o [n \in 1 .. Copies(d, copies) |-> e] ELSE wire[d]]
    /\ UNCHANGED home

\* The handler of the device takes the next event.
Take(d) ==
    /\ wire[d] # <<>>
    /\ wire' = [wire EXCEPT ![d] = Tail(@)]
    /\ UNCHANGED home

\* A socket connects, to any instance; it joins the room of its user.
Connect(d) ==
    /\ home[d] = None
    /\ \E i \in Instance : home' = [home EXCEPT ![d] = i]
    /\ UNCHANGED wire

\* A socket is lost, with the events on their way to it.
Disconnect(d) ==
    /\ home[d] # None
    /\ home' = [home EXCEPT ![d] = None]
    /\ wire' = [wire EXCEPT ![d] = <<>>]
===============================================================================
