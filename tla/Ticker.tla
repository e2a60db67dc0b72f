-------------------------------- MODULE Ticker --------------------------------
(***************************************************************************)
(* The live price of a token on its page                                   *)
(* (apps/web/src/components/PriceTicker.tsx) and the reconnecting socket   *)
(* it hangs on (hooks/useWebSocket.ts).  The page stays mounted when the   *)
(* visitor goes from token to token: the effect is cleaned up and run      *)
(* again, and handlers of the old socket fire later.                       *)
(*                                                                         *)
(* Every address is one of the same hub, so any connection brings the      *)
(* prices of all tokens.  A URL stands for its token.                      *)
(***************************************************************************)
EXTENDS Naturals, FiniteSets

CONSTANTS
    Tokens,
    Conns,              \* bound: sockets the browser has at once
    Timers,             \* bound: timers pending at once
    reconnectAttempts,
    MaxMoves,           \* bound: how often the visitor goes to another token
    MaxFaults           \* bound: connections that fail or break

VARIABLES
    url,                \* of the token whose page is shown, if one is
    mounted,            \* mountedRef
    conns,              \* conns[c]: a socket and the url it was made for
    wsRef,
    timers,             \* timers[i]: the url a pending timer will connect to
    timerRef,           \* reconnectTimerRef
    count,              \* reconnectCountRef
    isConnected, error,
    envelope,           \* the latest frame, if the page has not rendered it yet
    data,               \* the token whose payload is shown
    moves, faults

vars == <<url, mounted, conns, wsRef, timers, timerRef, count, isConnected, error,
          envelope, data, moves, faults>>

NoUrl   == "none"
NoRef   == "no ref"
NoConn  == [url |-> NoUrl, state |-> "none"]
flags   == <<isConnected, error>>
shown   == <<envelope, data>>
bounds  == <<moves, faults>>

TypeOK ==
    /\ url \in Tokens \cup {NoUrl} /\ mounted \in BOOLEAN
    /\ conns \in [Conns -> {NoConn} \cup [url : Tokens,
                                          state : {"connecting", "open", "closing"}]]
    /\ wsRef \in Conns \cup {NoRef} /\ timerRef \in Timers \cup {NoRef}
    /\ timers \in [Timers -> Tokens \cup {NoUrl}]
    /\ count \in 0 .. reconnectAttempts
    /\ isConnected \in BOOLEAN /\ error \in BOOLEAN
    /\ envelope \in Tokens \cup {NoUrl} /\ data \in Tokens \cup {NoUrl}

Init ==
    /\ \E t \in Tokens, c \in Conns :
          /\ url = t
          /\ conns = [d \in Conns |-> IF d = c THEN [url |-> t, state |-> "connecting"]
                                      ELSE NoConn]
          /\ wsRef = c
    /\ mounted = TRUE
    /\ timers = [i \in Timers |-> NoUrl] /\ timerRef = NoRef
    /\ count = 0
    /\ isConnected = FALSE /\ error = FALSE
    /\ envelope = NoUrl /\ data = NoUrl
    /\ moves = 0 /\ faults = 0

\* cleanup: the timer of the ref is cleared, the socket of the ref is closed; its
\* onclose fires some time after.
ClearedTimers == [i \in Timers |-> IF i = timerRef THEN NoUrl ELSE timers[i]]
ClosedConns   == [c \in Conns |-> IF c = wsRef /\ conns[c] # NoConn
                                  THEN [conns[c] EXCEPT !.state = "closing"] ELSE conns[c]]

\* connect() of the effect that ran for address u.
connect(u, before) ==
    \E c \in Conns :
        /\ before[c] = NoConn
        /\ conns' = [before EXCEPT ![c] = [url |-> u, state |-> "connecting"]]
        /\ wsRef' = c

\* Mutant of Remount: the effect does not say that it is mounted.
RemountNot == FALSE
Remount == TRUE

\* Another token: the cleanup, and the effect for the new address.
Navigate(t) ==
    /\ moves < MaxMoves /\ moves' = moves + 1
    /\ url \notin {NoUrl, t} /\ url' = t
    /\ timers' = ClearedTimers
    /\ mounted' = Remount
    /\ IF mounted' THEN connect(t, ClosedConns) ELSE conns' = ClosedConns /\ wsRef' = NoRef
    /\ UNCHANGED <<timerRef, count, flags, shown, faults>>

\* Another page: the cleanup alone.
Leave ==
    /\ moves < MaxMoves /\ moves' = moves + 1
    /\ url # NoUrl /\ url' = NoUrl
    /\ mounted' = FALSE
    /\ timers' = ClearedTimers /\ conns' = ClosedConns /\ wsRef' = NoRef
    /\ UNCHANGED <<timerRef, count, flags, shown, faults>>

\* A timer fires; the ref keeps its name.
Reconnect(i) ==
    /\ timers[i] # NoUrl
    /\ timers' = [timers EXCEPT ![i] = NoUrl]
    /\ IF mounted THEN connect(timers[i], conns) ELSE UNCHANGED <<conns, wsRef>>
    /\ UNCHANGED <<url, mounted, timerRef, count, flags, shown, bounds>>

onopen(c) ==
    /\ conns[c].state = "connecting"
    /\ conns' = [conns EXCEPT ![c].state = "open"]
    /\ IF mounted THEN count' = 0 /\ isConnected' = TRUE /\ error' = FALSE
                  ELSE UNCHANGED <<count, flags>>
    /\ UNCHANGED <<url, mounted, wsRef, timers, timerRef, shown, bounds>>

\* setTimeout, whose name replaces that of an earlier one.
Schedule(u) ==
    IF count < reconnectAttempts
    THEN /\ count' = count + 1
         /\ \E i \in Timers : /\ timers[i] = NoUrl
                              /\ timers' = [timers EXCEPT ![i] = u]
                              /\ timerRef' = i
    ELSE UNCHANGED <<count, timers, timerRef>>

onclose(c) ==
    /\ IF mounted THEN isConnected' = FALSE /\ Schedule(conns[c].url)
                  ELSE UNCHANGED <<isConnected, count, timers, timerRef>>
    /\ conns' = [conns EXCEPT ![c] = NoConn]

\* The close this page asked for, or the network's, with or without an error.
Closed(c) ==
    /\ conns[c].state = "closing"
    /\ onclose(c)
    /\ UNCHANGED <<url, mounted, wsRef, error, shown, bounds>>

Fails(c) ==
    /\ conns[c].state \in {"connecting", "open"}
    /\ faults < MaxFaults /\ faults' = faults + 1
    /\ error' = (mounted \/ error)
    /\ onclose(c)
    /\ UNCHANGED <<url, mounted, wsRef, shown, moves>>

\* A frame (after Leave it is ignored): two of them before the page renders leave the later one.
onmessage(c, t) ==
    /\ conns[c].state = "open"
    /\ mounted
    /\ envelope' = t
    /\ UNCHANGED <<url, mounted, conns, wsRef, timers, timerRef, count, flags, data, bounds>>

\* The effect of the ticker keeps what is of its token.
Render ==
    /\ envelope # NoUrl /\ url # NoUrl
    /\ data' = IF envelope = url THEN envelope ELSE data
    /\ envelope' = NoUrl
    /\ UNCHANGED <<url, mounted, conns, wsRef, timers, timerRef, count, flags, bounds>>

Step ==
    \/ \E c \in Conns : onopen(c) \/ Closed(c)
    \/ \E i \in Timers : Reconnect(i)

Next ==
    \/ Step \/ Render \/ Leave
    \/ \E t \in Tokens : Navigate(t)
    \/ \E c \in Conns : Fails(c) \/ \E t \in Tokens : onmessage(c, t)

\* Sockets open or fail, close events and timers come.
Spec == Init /\ [][Next]_vars /\ WF_vars(Step)

-----------------------------------------------------------------------------
\* With fewer faults and moves than attempts the page ends up with a connection
\* that is open and says so (or the visitor has left it), however the events of
\* old sockets and old timers come in between.
TickerRecovers ==
    <>[](url = NoUrl \/ (isConnected /\ \E c \in Conns : conns[c].state = "open"))
=============================================================================
