------------------------------ MODULE PriceFeed ------------------------------
(***************************************************************************)
(* Where the keeper's prices come from: the cron refreshes the top pools   *)
(* (apps/api/src/workers/cron-handler.ts), the queue consumer fetches      *)
(* token prices and evaluates orders (workers/queue-handler.ts), and       *)
(* everything between them goes through KV keys that expire.               *)
(*                                                                         *)
(* One pool with two tokens.  USD prices are in quarters of the last of    *)
(* the six decimals refreshTopPools keeps; 0 is a failed lookup.  A KV     *)
(* entry is gone Ttl after it was put.  asOf is when a value was true.     *)
(***************************************************************************)
EXTENDS Integers, FiniteSets

CONSTANTS
    Usd,                         \* what the price API may answer
    Twaps,                       \* what getCurrentTwap may answer
    Scale, Trigger,              \* 10 ** 18, and the trigger of the order
    PriceTtl, SpotTtl, TwapTtl,  \* expirationTtl of the three keys
    Period,                      \* of the cron
    MaxDelay,                    \* bound: how long a step of a handler takes
    Jobs,                        \* bound: price-refresh messages at once
    MaxTime                      \* bound of the clock

VARIABLES
    clock,
    price,  \* price[t]: KV price:${token}
    spot,   \* KV poolSpot:${pool}
    twap,   \* KV twap:${pool}:${window}
    cron,   \* refreshTopPools, and what it read
    owed,   \* enqueuePriceRefresh still has to send its message
    jobs,   \* jobs[j]: a price-refresh message and its handler
    eval    \* a tp-sl-evaluate message and its handler

vars == <<clock, price, spot, twap, cron, owed, jobs, eval>>

Tokens == {0, 1}
None   == [stage |-> "none"]
Never  == [value |-> 0, asOf |-> 0, until |-> 0]
Read(entry) == [value |-> entry.value, asOf |-> entry.asOf]
Orders == [orderType : {"take_profit", "stop_loss"}, zeroForOne : BOOLEAN]

Entry(value, asOf, ttl) == [value |-> value, asOf |-> asOf, until |-> clock + ttl]
Live(entry) == clock < entry.until
Kept(entry) == IF clock + 1 < entry.until THEN entry ELSE Never

\* It begins with the first cron tick over an empty KV.
Init ==
    /\ clock = 0
    /\ price = [t \in Tokens |-> Never] /\ spot = Never /\ twap = Never
    /\ cron = [stage |-> "send"] /\ owed = TRUE
    /\ jobs = [j \in Jobs |-> None]
    /\ eval = None

\* Nothing takes longer than MaxDelay, and the cron comes back every Period.
Tick ==
    /\ clock < MaxTime
    /\ \A j \in Jobs : jobs[j].stage = "put" => clock - jobs[j].asOf < MaxDelay
    /\ cron.stage = "write" => clock - cron.at < MaxDelay
    /\ eval # None => clock - eval.at < MaxDelay
    /\ clock' = clock + 1
    /\ cron' = IF clock' % Period = 0 THEN [stage |-> "send"] ELSE cron
    /\ owed' = (clock' % Period = 0 \/ owed)
    /\ price' = [t \in Tokens |-> Kept(price[t])]
    /\ spot' = Kept(spot) /\ twap' = Kept(twap)
    /\ UNCHANGED <<jobs, eval>>

-----------------------------------------------------------------------------
\* The cron.  send queues a message, or throws and ends the refresh.
Queued(j) == jobs[j] = None /\ jobs' = [jobs EXCEPT ![j] = [stage |-> "queued", todo |-> Tokens]]

refreshTopPools ==
    /\ cron.stage = "send"
    /\ \/ \E j \in Jobs : Queued(j) /\ cron' = [stage |-> "read"]
       \/ cron' = [stage |-> "done"] /\ UNCHANGED jobs
    /\ UNCHANGED <<clock, price, spot, twap, owed, eval>>

enqueuePriceRefresh ==
    /\ owed /\ owed' = FALSE
    /\ (\E j \in Jobs : Queued(j)) \/ UNCHANGED jobs
    /\ UNCHANGED <<clock, price, spot, twap, cron, eval>>

\* Promise.all over the keys, for the prices that were there before this tick or
\* came in since.
ReadPrices ==
    /\ cron.stage = "read"
    /\ cron' = [stage |-> "write", at |-> clock,
                prices |-> [t \in Tokens |-> Read(price[t])]]
    /\ UNCHANGED <<clock, price, spot, twap, owed, jobs, eval>>

\* toScaledBigInt rounds to the decimals kept.
toScaledBigInt(usd) == (usd + 2) \div 4

\* Mutant of Priced: what is not there counts as a price of zero.
PricedAnyhow(prices) == toScaledBigInt(prices[1].value) # 0

Priced(prices) ==
    /\ \A t \in Tokens : prices[t].value > 0
    /\ toScaledBigInt(prices[1].value) # 0

Oldest(prices) ==
    IF prices[0].asOf < prices[1].asOf THEN prices[0].asOf ELSE prices[1].asOf

\* The put of poolSpot, or its caught failure.
WriteSpot ==
    /\ cron.stage = "write"
    /\ \/ /\ Priced(cron.prices)
          /\ spot' = Entry((toScaledBigInt(cron.prices[0].value) * Scale)
                             \div toScaledBigInt(cron.prices[1].value),
                           Oldest(cron.prices), SpotTtl)
       \/ UNCHANGED spot
    /\ cron' = [stage |-> "done"]
    /\ UNCHANGED <<clock, price, twap, owed, jobs, eval>>

-----------------------------------------------------------------------------
\* The consumer of price-refresh: one token after the other, fetched and put;
\* two messages may hold the same token.
fetchTokenPrice(j) ==
    /\ jobs[j].stage = "queued" /\ jobs[j].todo # {}
    /\ \E t \in jobs[j].todo, usd \in Usd :
          /\ \A u \in jobs[j].todo : t <= u
          /\ jobs' = [jobs EXCEPT ![j] = [stage |-> "put", todo |-> @.todo \ {t}, token |-> t,
                                          usd |-> usd, asOf |-> clock]]
    /\ UNCHANGED <<clock, price, spot, twap, cron, owed, eval>>

\* Mutant of PutPrice: the key does not expire.
PutPriceForGood(j) ==
    /\ jobs[j].stage = "put"
    /\ price' = [price EXCEPT ![jobs[j].token] = Entry(jobs[j].usd, jobs[j].asOf, MaxTime)]
    /\ jobs' = [jobs EXCEPT ![j] = [stage |-> "queued", todo |-> @.todo]]
    /\ UNCHANGED <<clock, spot, twap, cron, owed, eval>>

\* handlePriceRefresh stores failed lookups too.  A put that throws is caught.
PutPrice(j) ==
    /\ jobs[j].stage = "put"
    /\ \/ price' = [price EXCEPT ![jobs[j].token] =
                                    Entry(jobs[j].usd, jobs[j].asOf, PriceTtl)]
       \/ UNCHANGED price
    /\ jobs' = [jobs EXCEPT ![j] = [stage |-> "queued", todo |-> @.todo]]
    /\ UNCHANGED <<clock, spot, twap, cron, owed, eval>>

\* ack; or the invocation died and the queue delivers the whole message again.
EndJob(j) ==
    /\ jobs[j].stage = "queued"
    /\ jobs' = [jobs EXCEPT ![j] = IF @.todo = {} THEN None ELSE [@ EXCEPT !.todo = Tokens]]
    /\ UNCHANGED <<clock, price, spot, twap, cron, owed, eval>>

-----------------------------------------------------------------------------
\* The consumer of tp-sl-evaluate, from the spot price on, for an order of any kind.
ReadSpot ==
    /\ eval = None /\ Live(spot)
    /\ eval' = [stage |-> "twap", spot |-> Read(spot), at |-> clock]
    /\ UNCHANGED <<clock, price, spot, twap, cron, owed, jobs>>

WithTwap(stage, w) ==
    [stage |-> stage, spot |-> eval.spot, twap |-> w, at |-> eval.at]

ReadTwap ==
    /\ eval.stage = "twap"
    /\ eval' = IF Live(twap) THEN WithTwap("decide", Read(twap)) ELSE [eval EXCEPT !.stage = "chain"]
    /\ UNCHANGED <<clock, price, spot, twap, cron, owed, jobs>>

\* The hook answers, or there is no TWAP (no oracle, not configured, no RPC).
readTwapFromChain ==
    /\ eval.stage = "chain"
    /\ \/ \E p \in Twaps : eval' = WithTwap("put", [value |-> p, asOf |-> clock])
       \/ eval' = None
    /\ UNCHANGED <<clock, price, spot, twap, cron, owed, jobs>>

\* The put of the TWAP; if it throws there is no TWAP either.
PutTwap ==
    /\ eval.stage = "put"
    /\ \/ /\ twap' = Entry(eval.twap.value, eval.twap.asOf, TwapTtl)
          /\ eval' = [eval EXCEPT !.stage = "decide"]
       \/ eval' = None /\ UNCHANGED twap
    /\ UNCHANGED <<clock, price, spot, cron, owed, jobs>>

\* Mutant of isTriggered: only the spot price counts.
isTriggeredBySpot(o, s, w) ==
    IF (o.orderType = "take_profit") = o.zeroForOne THEN s <= Trigger ELSE s >= Trigger

\* Each of the four kinds of order as the handler spells it out.
isTriggered(o, s, w) ==
    \/ o.orderType = "take_profit" /\   o.zeroForOne /\ s <= Trigger /\ w <= Trigger
    \/ o.orderType = "take_profit" /\ ~ o.zeroForOne /\ s >= Trigger /\ w >= Trigger
    \/ o.orderType = "stop_loss"   /\   o.zeroForOne /\ s >= Trigger /\ w >= Trigger
    \/ o.orderType = "stop_loss"   /\ ~ o.zeroForOne /\ s <= Trigger /\ w <= Trigger

Decide ==
    /\ eval.stage = "decide"
    /\ \E o \in Orders :
          eval' = IF isTriggered(o, eval.spot.value, eval.twap.value)
                  THEN [stage |-> "submit", order |-> o, spot |-> eval.spot, twap |-> eval.twap,
                        at |-> eval.at]
                  ELSE None
    /\ UNCHANGED <<clock, price, spot, twap, cron, owed, jobs>>

\* The signer takes over (KeeperPipeline).
Submit ==
    /\ eval.stage = "submit"
    /\ eval' = None
    /\ UNCHANGED <<clock, price, spot, twap, cron, owed, jobs>>

Next ==
    \/ Tick \/ refreshTopPools \/ enqueuePriceRefresh \/ ReadPrices \/ WriteSpot
    \/ \E j \in Jobs : fetchTokenPrice(j) \/ PutPrice(j) \/ EndJob(j)
    \/ ReadSpot \/ ReadTwap \/ readTwapFromChain \/ PutTwap \/ Decide \/ Submit

Spec == Init /\ [][Next]_vars

-----------------------------------------------------------------------------
\* The keeper submits on a breach the contract would see as well (spot and TWAP
\* both beyond the trigger, in the order's direction), by token prices and a
\* TWAP that were read recently: through all the caches they are never older
\* than the lifetimes of the entries and the delays of the handlers add up to.
SubmitsOnFreshBreach ==
    eval.stage = "submit" =>
       LET down   == (eval.order.orderType = "take_profit") = eval.order.zeroForOne
           prices == {eval.spot.value, eval.twap.value}
       IN  /\ \A p \in prices : IF down THEN p <= Trigger ELSE p >= Trigger
           /\ clock - eval.spot.asOf <= (PriceTtl - 1) + (SpotTtl - 1) + 3 * MaxDelay
           /\ clock - eval.twap.asOf <= (TwapTtl - 1) + 2 * MaxDelay
=============================================================================
