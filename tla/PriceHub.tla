------------------------------- MODULE PriceHub -------------------------------
(***************************************************************************)
(* The hub of live prices (apps/api/src/durable-objects/                   *)
(* websocket-hub-do.ts): one object, every socket with a list of tokens it *)
(* watches, refreshed prices posted by the queue consumer.                 *)
(*                                                                         *)
(* The runtime may take the object out of memory between any two events.   *)
(* Sockets and their attachments survive that, the maps of the object do   *)
(* not.  An attachment holds at most Capacity tokens.                      *)
(***************************************************************************)
EXTENDS Naturals, FiniteSets

CONSTANTS Sockets, Tokens, Capacity

VARIABLES
    socket,       \* socket[s]: open, broken (send throws) or closed
    attachment,   \* attachment[s]: the watched keys that are persisted
    subscribers,  \* the map in memory, socket by socket; NoEntry: not in it
    knownTokens,  \* in memory as well
    asked,        \* asked[s]: what s has been told it watches, and whether
                  \* that was ever more than an attachment holds
    last          \* the latest broadcast: who got it and who should have

vars == <<socket, attachment, subscribers, knownTokens, asked, last>>

NoEntry == [watched |-> {}, there |-> FALSE]
Entry(keys) == [watched |-> keys, there |-> TRUE]

TypeOK ==
    /\ socket \in [Sockets -> {"open", "broken", "closed"}]
    /\ attachment \in [Sockets -> SUBSET Tokens]
    /\ \A s \in Sockets : Cardinality(attachment[s]) <= Capacity
    /\ subscribers \in [Sockets -> [watched : SUBSET Tokens, there : BOOLEAN]]
    /\ knownTokens \subseteq Tokens
    /\ asked \in [Sockets -> [keys : SUBSET Tokens, fits : BOOLEAN]]
    /\ last.to \subseteq Sockets /\ last.due \subseteq Sockets

Init ==
    /\ socket = [s \in Sockets |-> "closed"]
    /\ attachment = [s \in Sockets |-> {}]
    /\ subscribers = [s \in Sockets |-> NoEntry]
    /\ knownTokens = {}
    /\ asked = [s \in Sockets |-> [keys |-> {}, fits |-> TRUE]]
    /\ last = [to |-> {}, due |-> {}]

-----------------------------------------------------------------------------
\* The runtime.
Hibernate ==
    /\ subscribers' = [s \in Sockets |-> NoEntry]
    /\ knownTokens' = {}
    /\ UNCHANGED <<socket, attachment, asked, last>>

Break(s) ==
    /\ socket[s] = "open"
    /\ socket' = [socket EXCEPT ![s] = "broken"]
    /\ UNCHANGED <<attachment, subscribers, knownTokens, asked, last>>

-----------------------------------------------------------------------------
\* fetch with Upgrade: websocket.
Connect(s) ==
    /\ socket[s] = "closed"
    /\ socket' = [socket EXCEPT ![s] = "open"]
    /\ attachment' = [attachment EXCEPT ![s] = {}]
    /\ subscribers' = [subscribers EXCEPT ![s] = Entry({})]
    /\ asked' = [asked EXCEPT ![s] = [keys |-> {}, fits |-> TRUE]]
    /\ UNCHANGED <<knownTokens, last>>

\* Mutant of Hydrated: sockets come back without their attachment.
HydratedEmpty ==
    [s \in Sockets |-> IF socket[s] # "closed" /\ ~ subscribers[s].there
                       THEN Entry({}) ELSE subscribers[s]]

\* hydrateSubscribers: every socket the runtime holds is in the map again.
Hydrated ==
    [s \in Sockets |-> IF socket[s] # "closed" /\ ~ subscribers[s].there
                       THEN Entry(attachment[s]) ELSE subscribers[s]]

\* Mutant of persistWatched: nothing is persisted.
persistWatchedNot(s, keys) == attachment

\* persistWatched: more than the attachment holds throws, which is logged.
persistWatched(s, keys) ==
    IF Cardinality(keys) <= Capacity THEN [attachment EXCEPT ![s] = keys] ELSE attachment

\* sendToSocket: a socket that throws leaves the map, until the next hydration.
sendToSocket(s, map) == IF socket[s] = "open" THEN map ELSE [map EXCEPT ![s] = NoEntry]

\* subscribe and unsubscribe; the answer is sent whatever persistWatched did.
Watch(s, keys) ==
    /\ socket[s] = "open"
    /\ attachment' = persistWatched(s, keys)
    /\ subscribers' = sendToSocket(s, [Hydrated EXCEPT ![s] = Entry(keys)])
    /\ UNCHANGED <<socket, knownTokens, last>>
subscribe(s, t) ==
    /\ Watch(s, Hydrated[s].watched \cup {t})
    /\ LET keys == asked[s].keys \cup {t}
       IN  asked' = [asked EXCEPT ![s] = [keys |-> keys,
                                          fits |-> @.fits /\ Cardinality(keys) <= Capacity]]
unsubscribe(s, t) ==
    /\ Watch(s, Hydrated[s].watched \ {t})
    /\ asked' = [asked EXCEPT ![s].keys = @ \ {t}]

\* list_pools, a ping the runtime does not answer itself, and anything else:
\* the object is hydrated and something is sent back.
OtherMessage(s) ==
    /\ socket[s] = "open"
    /\ subscribers' = sendToSocket(s, Hydrated)
    /\ UNCHANGED <<socket, attachment, knownTokens, asked, last>>

\* webSocketClose and webSocketError.
webSocketClose(s) ==
    /\ socket[s] # "closed"
    /\ socket' = [socket EXCEPT ![s] = "closed"]
    /\ subscribers' = [subscribers EXCEPT ![s] = NoEntry]
    /\ UNCHANGED <<attachment, knownTokens, asked, last>>

\* A key in the list is watched; an empty list watches everything.
Watches(keys, t) == t \in keys \/ keys = {}

\* POST /price: hydrate, send to the watchers, drop those whose send throws.
broadcastPrice(t) ==
    LET to == {s \in Sockets : Hydrated[s].there /\ Watches(Hydrated[s].watched, t)}
    IN  /\ knownTokens' = knownTokens \cup {t}
        /\ subscribers' = [s \in Sockets |->
                             IF s \in to /\ socket[s] = "broken" THEN NoEntry ELSE Hydrated[s]]
        /\ last' = [to  |-> {s \in to : socket[s] = "open"},
                    due |-> {s \in Sockets :
                               /\ socket[s] = "open"
                               /\ IF asked[s].fits THEN Watches(asked[s].keys, t) ELSE s \in to}]
        /\ UNCHANGED <<socket, attachment, asked>>

Next ==
    \/ Hibernate
    \/ \E s \in Sockets : Break(s) \/ Connect(s) \/ OtherMessage(s) \/ webSocketClose(s)
    \/ \E s \in Sockets, t \in Tokens : subscribe(s, t) \/ unsubscribe(s, t)
    \/ \E t \in Tokens : broadcastPrice(t)

Spec == Init /\ [][Next]_vars

-----------------------------------------------------------------------------
\* A price reaches exactly the open sockets that watch its token or nothing, by
\* what they were told they watch: a sleep of the object between a subscription
\* and the price is not noticed.  (Not asked of a socket whose list has once been
\* longer than its attachment: that list is lost in the next sleep.)
WatchersReached == last.to = last.due
=============================================================================
