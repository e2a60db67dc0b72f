------------------------------ MODULE OrderBook ------------------------------
(***************************************************************************)
(* The order-book object of one pool (apps/api/src/durable-objects/        *)
(* order-book-do.ts): a stored snapshot, sockets that get it when they     *)
(* connect, and updates that are stored and sent on.                       *)
(*                                                                         *)
(* No event reaches an object while it waits for its storage, so a handler *)
(* is one step.  Unlike PriceHub the object does not find its sockets      *)
(* again when it wakes up.                                                 *)
(***************************************************************************)
EXTENDS Naturals

CONSTANTS
    Sockets,
    MaxVersion    \* bound: snapshots posted, numbered; 0 is the default one

VARIABLES
    socket,       \* socket[s]: open, broken (send throws) or closed
    snapshot,     \* in storage
    subscribers,  \* the map in memory
    shown         \* shown[s]: the latest snapshot s was sent

vars == <<socket, snapshot, subscribers, shown>>

Init ==
    /\ socket = [s \in Sockets |-> "closed"]
    /\ snapshot = 0
    /\ subscribers = {}
    /\ shown = [s \in Sockets |-> 0]

\* The runtime takes the object out of memory; a peer disappears.
Hibernate ==
    /\ subscribers' = {}
    /\ UNCHANGED <<socket, snapshot, shown>>
Break(s) ==
    /\ socket[s] = "open"
    /\ socket' = [socket EXCEPT ![s] = "broken"]
    /\ UNCHANGED <<snapshot, subscribers, shown>>

\* fetch with Upgrade: websocket sends the stored snapshot.
Connect(s) ==
    /\ socket[s] = "closed"
    /\ socket' = [socket EXCEPT ![s] = "open"]
    /\ subscribers' = subscribers \cup {s}
    /\ shown' = [shown EXCEPT ![s] = snapshot]
    /\ UNCHANGED snapshot

\* webSocketMessage: only pings and what is not JSON get an answer.
webSocketMessage(s) ==
    /\ socket[s] # "closed"
    /\ subscribers' = IF socket[s] = "open" THEN subscribers ELSE subscribers \ {s}
    /\ UNCHANGED <<socket, snapshot, shown>>

\* webSocketClose and webSocketError.
webSocketClose(s) ==
    /\ socket[s] # "closed"
    /\ socket' = [socket EXCEPT ![s] = "closed"]
    /\ subscribers' = subscribers \ {s}
    /\ UNCHANGED <<snapshot, shown>>

\* Mutant of persistSnapshot: what is there stays.
persistSnapshotOnce(v) == IF snapshot = 0 THEN v ELSE snapshot

persistSnapshot(v) == v

\* POST /update: store it, then send it to the map.
Update ==
    /\ snapshot < MaxVersion
    /\ snapshot' = persistSnapshot(snapshot + 1)
    /\ shown' = [s \in Sockets |-> IF s \in subscribers /\ socket[s] = "open"
                                   THEN snapshot + 1 ELSE shown[s]]
    /\ subscribers' = {s \in subscribers : socket[s] = "open"}
    /\ UNCHANGED socket

Next ==
    \/ Hibernate \/ Update
    \/ \E s \in Sockets : Break(s) \/ Connect(s) \/ webSocketMessage(s) \/ webSocketClose(s)

Spec == Init /\ [][Next]_vars

-----------------------------------------------------------------------------
\* A socket the object knows of shows the snapshot of the storage, whichever way
\* updates, new connections and sleeps fall between each other.  (A socket it has
\* forgotten in its sleep keeps an old one.)
KnownSocketsUpToDate ==
    \A s \in subscribers : socket[s] = "open" => shown[s] = snapshot
=============================================================================
