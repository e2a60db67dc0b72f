----------------------------- MODULE VolumeAlerts -----------------------------
(***************************************************************************)
(* Volume-spike alerts: the cron's tick                                    *)
(* (apps/api/src/services/volume-alerts.service.ts) finds pools that trade *)
(* more than a threshold in a rolling window, announces them through the   *)
(* alert hub (durable-objects/volume-alert-hub-do.ts) and Telegram, and    *)
(* arms a KV cooldown for each.                                            *)
(*                                                                         *)
(* A tick is one step per await; a slow one overlaps the next, and it may  *)
(* die or throw between two awaits.                                        *)
(***************************************************************************)
EXTENDS Naturals, FiniteSets

CONSTANTS
    Pools, Sockets,
    Ticks,                           \* bound: ticks that run at once
    windowSeconds, thresholdUsd, cooldownSeconds,
    KV_MIN_TTL_SECONDS,
    Period,                          \* of the cron
    MaxDelay,                        \* bound: from an announcement to its cooldown
    MaxTime                          \* bound of the clock

VARIABLES
    clock,
    traded,    \* traded[p]: when pool p traded a unit of volume, while it counts
    cooldown,  \* cooldown[p]: when its KV key expires
    ticks,     \* ticks[i]: a running tick
    due,       \* the cron has not started the tick of this time yet
    filter,    \* filter[s]: the attachment of an open socket
    heard,     \* heard[s]: the pools it was sent alerts of
    sent,      \* sent[p]: when p was last announced; Never if it was not
    early,     \* some pool was announced again within its cooldown
    clean      \* no two ticks overlapped and none ended between an
               \* announcement and its cooldown

vars == <<clock, traded, cooldown, ticks, due, filter, heard, sent, early, clean>>

None   == [stage |-> "none"]
Closed == "closed"
All    == "all"
Never  == MaxTime + 1

Init ==
    /\ clock = 0
    /\ traded = [p \in Pools |-> {}]
    /\ cooldown = [p \in Pools |-> 0]
    /\ ticks = [i \in Ticks |-> None] /\ due = FALSE
    /\ filter = [s \in Sockets |-> Closed]
    /\ heard = [s \in Sockets |-> {}]
    /\ sent = [p \in Pools |-> Never]
    /\ early = FALSE /\ clean = TRUE

Busy(i) == ticks[i].stage \in {"telegram", "mark"}

Clock ==
    /\ clock < MaxTime
    /\ \A i \in Ticks : Busy(i) => clock - ticks[i].at < MaxDelay
    /\ clock' = clock + 1
    /\ due' = (clock' % Period = 0)
    /\ traded' = [p \in Pools |-> {t \in traded[p] : t + windowSeconds >= clock'}]
    /\ UNCHANGED <<cooldown, ticks, filter, heard, sent, early, clean>>

\* The indexer or the page writes a transaction.
Trade(p) ==
    /\ clock \notin traded[p]
    /\ traded' = [traded EXCEPT ![p] = @ \cup {clock}]
    /\ UNCHANGED <<clock, cooldown, ticks, due, filter, heard, sent, early, clean>>

-----------------------------------------------------------------------------
\* The hub: sockets subscribe to one pool or to all, by the path they open.
Connect(s, f) ==
    /\ filter[s] = Closed
    /\ filter' = [filter EXCEPT ![s] = f]
    /\ UNCHANGED <<clock, traded, cooldown, ticks, due, heard, sent, early, clean>>
webSocketClose(s) ==
    /\ filter[s] # Closed
    /\ filter' = [filter EXCEPT ![s] = Closed]
    /\ heard' = [heard EXCEPT ![s] = {}]
    /\ UNCHANGED <<clock, traded, cooldown, ticks, due, sent, early, clean>>

broadcast(p) ==
    [s \in Sockets |-> IF filter[s] \in {p, All} THEN heard[s] \cup {p} ELSE heard[s]]

-----------------------------------------------------------------------------
\* The tick.
\* Mutant of Ttl: the smallest lifetime KV takes, whatever is configured.
TtlSmallest == KV_MIN_TTL_SECONDS

Ttl == IF cooldownSeconds < KV_MIN_TTL_SECONDS THEN KV_MIN_TTL_SECONDS ELSE cooldownSeconds

readVolumeSpikes ==
    {p \in Pools : Cardinality(traded[p]) > thresholdUsd}

Start(i) ==
    /\ due /\ due' = FALSE
    /\ ticks[i] = None
    /\ clean' = (clean /\ \A j \in Ticks : ticks[j] = None)
    /\ ticks' = [ticks EXCEPT ![i] = [stage |-> "next", todo |-> readVolumeSpikes]]
    /\ UNCHANGED <<clock, traded, cooldown, filter, heard, sent, early>>

\* Mutant of isInCooldown: the key is written where it is read.
markAtOnce(i) ==
    /\ ticks[i].stage = "next"
    /\ \E p \in ticks[i].todo :
          /\ ticks' = [ticks EXCEPT ![i] =
                         IF clock < cooldown[p] THEN [@ EXCEPT !.todo = @ \ {p}]
                         ELSE [stage |-> "broadcast", todo |-> @.todo \ {p}, pool |-> p]]
          /\ cooldown' = [cooldown EXCEPT ![p] = IF clock < @ THEN @ ELSE clock + Ttl]
    /\ UNCHANGED <<clock, traded, due, filter, heard, sent, early, clean>>

\* The next spike; one in its cooldown is passed over.
isInCooldown(i) ==
    /\ ticks[i].stage = "next"
    /\ \E p \in ticks[i].todo :
          ticks' = [ticks EXCEPT ![i] =
                      IF clock < cooldown[p] THEN [ticks[i] EXCEPT !.todo = @ \ {p}]
                      ELSE [stage |-> "broadcast", todo |-> @.todo \ {p}, pool |-> p]]
    /\ UNCHANGED <<clock, traded, cooldown, due, filter, heard, sent, early, clean>>

\* The hub answers, or the failure is logged (also of a hub that is not bound).
broadcastVolumeAlert(i) ==
    /\ ticks[i].stage = "broadcast"
    /\ heard' = broadcast(ticks[i].pool) \/ UNCHANGED heard
    /\ sent' = [sent EXCEPT ![ticks[i].pool] = clock]
    /\ LET before == sent[ticks[i].pool]
       IN  early' = (early \/ (before # Never /\ clock < before + cooldownSeconds))
    /\ ticks' = [ticks EXCEPT ![i] = [stage |-> "telegram", todo |-> @.todo, pool |-> @.pool,
                                      at |-> clock]]
    /\ UNCHANGED <<clock, traded, cooldown, due, filter, clean>>

\* Whatever Telegram does.
sendTelegramAlert(i) ==
    /\ ticks[i].stage = "telegram"
    /\ ticks' = [ticks EXCEPT ![i].stage = "mark"]
    /\ UNCHANGED <<clock, traded, cooldown, due, filter, heard, sent, early, clean>>

markCooldown(i) ==
    /\ ticks[i].stage = "mark"
    /\ cooldown' = [cooldown EXCEPT ![ticks[i].pool] = clock + Ttl]
    /\ ticks' = [ticks EXCEPT ![i] = [stage |-> "next", todo |-> @.todo]]
    /\ UNCHANGED <<clock, traded, due, filter, heard, sent, early, clean>>

\* All spikes are dealt with, a KV call throws, or the invocation dies.
End(i) ==
    /\ ticks[i] # None
    /\ clean' = (clean /\ ~ Busy(i))
    /\ ticks' = [ticks EXCEPT ![i] = None]
    /\ UNCHANGED <<clock, traded, cooldown, due, filter, heard, sent, early>>

Next ==
    \/ Clock
    \/ \E p \in Pools : Trade(p)
    \/ \E s \in Sockets : webSocketClose(s) \/ \E f \in Pools \cup {All} : Connect(s, f)
    \/ \E i \in Ticks : \/ Start(i) \/ isInCooldown(i) \/ broadcastVolumeAlert(i)
                        \/ sendTelegramAlert(i) \/ markCooldown(i) \/ End(i)

Spec == Init /\ [][Next]_vars

-----------------------------------------------------------------------------
\* A pool is announced once per cooldown as long as ticks run one after the other
\* and to the end; a socket hears of no pool it did not ask for; and a pool is
\* silent only for a cooldown that began with an announcement: no tick, however it
\* ends, leaves a key behind for a spike it has not announced.
AlertsSpaced ==
    /\ clean => ~ early
    /\ \A s \in Sockets : filter[s] \in Pools => heard[s] \subseteq {filter[s]}
    /\ \A p \in Pools : clock < cooldown[p] =>
          /\ sent[p] # Never
          /\ cooldown[p] <= sent[p] + MaxDelay + Ttl
=============================================================================
