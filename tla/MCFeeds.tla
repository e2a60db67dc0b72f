-------------------------------- MODULE MCFeeds --------------------------------
(***************************************************************************)
(* Instances of what brings prices, alerts and token lists to the keeper   *)
(* and to the visitors.  The parts share nothing while they run, so each   *)
(* is checked by itself: a behaviour runs one and leaves the others alone. *)
(***************************************************************************)
EXTENDS Integers, FiniteSets, Sequences

CONSTANTS
    Usd, Twaps, Scale, Trigger, PriceTtl, SpotTtl, TwapTtl,
    Period, MaxDelay, Jobs, FeedTime,                  \* of PriceFeed
    Tokens2, Sockets, Capacity,                        \* of PriceHub
    MaxVersion,                                        \* of OrderBook
    Listeners, Pools, Ticks, Window, Threshold, Cooldown, KvMinTtl, \* of VolumeAlerts
    AlertPeriod, AlertTime,
    Conns, Timers, Attempts, MaxMoves, MaxFaults,      \* of Ticker
    Callers, Horizon, KvTtl, D1Fresh, External, Par, Asked, MaxDeviation, \* of PriceCache
    Coins, Lists, Queries, Blank, Loads, Searches      \* of TokenList, TokenPicker

VARIABLES
    part,                                              \* what runs
    feedClock, price, spot, twap, feedCron, owed, jobs, eval,
    socket, attachment, subscribers, knownTokens, asked, last,
    bookSocket, snapshot, bookSubscribers, bookShown,
    now, traded, cooldown, ticks, due, filter, heard, sent, early, clean,
    url, mounted, conns, wsRef, timers, timerRef, count, isConnected, error,
    envelope, data, moves, faults,
    pcClock, pcKv, pcD1, pcReq, tlClock, edition, tlKv, tlD1, tlReq,
    isOpen, query, isSearching, defaultsLoaded, defaultTokens, load, debounce,
    search, results

\* The price doubles; a token is taken off the list, and another is put on it.
MCExternal == [n \in 0 .. Horizon |-> IF n < 2 THEN 2 ELSE 4]
MCLists    == LET c == CHOOSE c \in Coins : TRUE IN <<Coins \ {c}, {c}>>

PF == INSTANCE PriceFeed WITH clock <- feedClock, cron <- feedCron, MaxTime <- FeedTime
PH == INSTANCE PriceHub WITH Tokens <- Tokens2
OB == INSTANCE OrderBook WITH socket <- bookSocket, subscribers <- bookSubscribers,
                              shown <- bookShown
VA == INSTANCE VolumeAlerts WITH clock <- now, Sockets <- Listeners, windowSeconds <- Window,
                                 thresholdUsd <- Threshold, cooldownSeconds <- Cooldown,
                                 KV_MIN_TTL_SECONDS <- KvMinTtl, Period <- AlertPeriod,
                                 MaxTime <- AlertTime
TK == INSTANCE Ticker WITH Tokens <- Tokens2, reconnectAttempts <- Attempts
PC == INSTANCE PriceCache WITH Requests <- Callers, MaxTime <- Horizon, clock <- pcClock,
                               kv <- pcKv, d1 <- pcD1, req <- pcReq
TL == INSTANCE TokenList WITH Requests <- Callers, Tokens <- Coins, Ttl <- KvTtl,
                              MaxTime <- Horizon, clock <- tlClock, kv <- tlKv,
                              d1 <- tlD1, req <- tlReq
TP == INSTANCE TokenPicker WITH timer <- debounce

\* What the keys and the cron are configured with: lifetimes and a period that are
\* not zero.
FeedConstants ==
    /\ Usd \subseteq Nat /\ Twaps \subseteq Int /\ Scale \in Nat /\ Trigger \in Int
    /\ PriceTtl \in Nat \ {0} /\ SpotTtl \in Nat \ {0} /\ TwapTtl \in Nat \ {0}
    /\ Period \in Nat \ {0} /\ MaxDelay \in Nat /\ FeedTime \in Nat

\* What the configuration of the alerts may be: no pool has the name of a filter.
AlertConstants ==
    /\ AlertTime \in Nat /\ MaxDelay \in Nat /\ Cooldown \in Nat /\ KvMinTtl \in Nat
    /\ AlertPeriod \in Nat \ {0}
    /\ VA!All \notin Pools /\ VA!Closed \notin Pools

\* The list of known tokens is finite.
HubConstants == Capacity \in Nat /\ IsFiniteSet(Tokens2)

\* The lists the publisher has put out so far, one at least.
CacheConstants ==
    /\ Horizon \in Nat /\ MaxDelay \in Nat /\ KvTtl \in Nat \ {0} /\ D1Fresh \in Nat
    /\ Lists \in Seq(SUBSET Coins) /\ Lists # <<>>

ASSUME FeedsAssumption ==
    FeedConstants /\ AlertConstants /\ HubConstants /\ CacheConstants

feedVars   == <<feedClock, price, spot, twap, feedCron, owed, jobs, eval>>
hubVars    == <<socket, attachment, subscribers, knownTokens, asked, last>>
bookVars   == <<bookSocket, snapshot, bookSubscribers, bookShown>>
alertVars  == <<now, traded, cooldown, ticks, due, filter, heard, sent, early, clean>>
tickerVars == <<url, mounted, conns, wsRef, timers, timerRef, count, isConnected, error,
                envelope, data, moves, faults>>
cacheVars  == <<pcClock, pcKv, pcD1, pcReq>>
listVars   == <<tlClock, edition, tlKv, tlD1, tlReq>>
pickerVars == <<isOpen, query, isSearching, defaultsLoaded, defaultTokens, load, debounce,
                search, results>>
browsing   == <<cacheVars, listVars, pickerVars>>
all == <<part, feedVars, hubVars, bookVars, alertVars, tickerVars, browsing>>

FeedsInit ==
    /\ part \in {"feed", "hub", "book", "alerts", "ticker", "cache", "list", "picker"}
    /\ PF!Init /\ PH!Init /\ OB!Init /\ VA!Init /\ TK!Init
    /\ PC!Init /\ TL!Init /\ TP!Init
    /\ url = CHOOSE t \in Tokens2 : TRUE
    /\ wsRef = CHOOSE c \in Conns : TRUE

InFeed   == /\ part = "feed"
            /\ UNCHANGED <<part, hubVars, bookVars, alertVars, tickerVars, browsing>>
InHub    == /\ part = "hub"
            /\ UNCHANGED <<part, feedVars, bookVars, alertVars, tickerVars, browsing>>
InBook   == /\ part = "book"
            /\ UNCHANGED <<part, feedVars, hubVars, alertVars, tickerVars, browsing>>
InAlerts == /\ part = "alerts"
            /\ UNCHANGED <<part, feedVars, hubVars, bookVars, tickerVars, browsing>>
InTicker == /\ part = "ticker"
            /\ UNCHANGED <<part, feedVars, hubVars, bookVars, alertVars, browsing>>
Browsing == UNCHANGED <<part, feedVars, hubVars, bookVars, alertVars, tickerVars>>

FeedsNext ==
    \/ InFeed /\ PF!Next
    \/ InHub /\ PH!Next
    \/ InBook /\ OB!Next
    \/ InAlerts /\ VA!Next
    \/ InTicker /\ TK!Next
    \/ part = "cache" /\ Browsing /\ UNCHANGED <<listVars, pickerVars>> /\ PC!Next
    \/ part = "list" /\ Browsing /\ UNCHANGED <<cacheVars, pickerVars>> /\ TL!Next
    \/ part = "picker" /\ Browsing /\ UNCHANGED <<cacheVars, listVars>> /\ TP!Next

\* The fairness of Ticker, the one module with a liveness property.
FeedsSpec == FeedsInit /\ [][FeedsNext]_all /\ WF_all(InTicker /\ TK!Step)

\* Whatever is submitted was triggered by prices that were true recently enough,
\* however the keys expire between refresh, price job and evaluation.
SubmitsOnFreshBreach == PF!SubmitsOnFreshBreach

\* PriceHub and OrderBook, each with its types.
SocketsServed ==
    /\ PH!TypeOK /\ PH!WatchersReached
    /\ OB!KnownSocketsUpToDate

\* One announcement a cooldown unless ticks overlap or die, to those who asked for
\* it, and no pool is silenced without one.
AlertsSpaced == VA!AlertsSpaced

\* The price ticker ends up connected to the page it is on, whatever the sockets
\* and timers of earlier pages still do.
TickerRecovers == part = "ticker" => TK!TickerRecovers

\* PriceCache, TokenList and TokenPicker: what a cache answers is as recent as
\* its lifetimes allow, is dated truly, and is not blanked by a late answer.
CachesHonest ==
    /\ PC!AnsweredPriceFresh /\ PC!GuardUsesCurrentPrices
    /\ TL!AnsweredListDated
    /\ TP!PickerConsistent
=============================================================================
