------------------------------ MODULE PriceCache ------------------------------
(***************************************************************************)
(* The prices of services/price.service.ts: a KV entry that expires, a row *)
(* of D1 that goes stale, CoinGecko, DexScreener; and the price guard of   *)
(* routes/price-guard.ts, which asks the sources anew.  Every await is a   *)
(* step: requests overlap, and what one of them read may be written after  *)
(* another wrote.                                                          *)
(*                                                                         *)
(* Every token has keys of its own, so one is followed: it is token 0 of   *)
(* the guard, and token 1 is worth Par.  A price is known by the time it   *)
(* was fetched.                                                            *)
(***************************************************************************)
EXTENDS Integers

CONSTANTS
    Requests,      \* bound: requests in flight
    External,      \* External[n]: the price of the token at time n
    Par,
    Asked,         \* bound: prices of token 0 in token 1 the guard is asked about
    MaxDeviation,  \* maxDeviationBps of the guard
    KvTtl, D1Fresh,
    MaxDelay,      \* a request is answered within this time
    MaxTime        \* bound of the clock

VARIABLES
    clock,
    kv,        \* when the cached price was fetched, and when it expires
    d1,        \* when the stored price was fetched
    req        \* req[r]: a request and how far its look-up got

vars == <<clock, kv, d1, req>>

None == -1
Idle == [kind |-> "none", asked |-> 0, started |-> 0, stage |-> "none", asOf |-> None]

Init ==
    /\ clock = 0
    /\ kv = [asOf |-> None, expires |-> 0]
    /\ d1 = None
    /\ req = [r \in Requests |-> Idle]

At(r, stage)         == req[r].stage = stage
Go(r, stage)         == req' = [req EXCEPT ![r].stage = stage]
Take(r, stage, asOf) == req' = [req EXCEPT ![r].stage = stage, ![r].asOf = asOf]

Tick ==
    /\ clock < MaxTime
    /\ \A r \in Requests : req[r] # Idle => clock - req[r].started < MaxDelay
    /\ clock' = clock + 1
    /\ UNCHANGED <<kv, d1, req>>

\* getPrice begins with the caches; the guard calls refreshPrice, past them.
AskPrice(r) ==
    /\ req[r] = Idle
    /\ req' = [req EXCEPT ![r].kind = "get", ![r].started = clock, ![r].stage = "kv"]
    /\ UNCHANGED <<clock, kv, d1>>

\* Mutant of refreshPrice: the caches will do.
refreshFromCaches == "kv"
refreshPrice      == "fetch"

AskGuard(r) ==
    /\ req[r] = Idle
    /\ \E price \in Asked :
          req' = [req EXCEPT ![r].kind = "guard", ![r].started = clock,
                             ![r].stage = refreshPrice, ![r].asked = price]
    /\ UNCHANGED <<clock, kv, d1>>

\* An expired entry is gone; a failing read is a miss.
readKvPrice(r) ==
    /\ At(r, "kv")
    /\ \/ kv.asOf # None /\ clock < kv.expires /\ Take(r, "done", kv.asOf)
       \/ Go(r, "d1")
    /\ UNCHANGED <<clock, kv, d1>>

\* Mutant of Stale: a row in seconds is taken for one in milliseconds to come.
StaleNever(asOf) == FALSE
Stale(asOf)      == clock - asOf > D1Fresh

\* A failing read of D1 fails the look-up.
readD1Price(r) ==
    /\ At(r, "d1")
    /\ \/ IF d1 # None /\ ~ Stale(d1) THEN Take(r, "backfill", d1)
                                       ELSE Go(r, "fetch")
       \/ Go(r, "failed")
    /\ UNCHANGED <<clock, kv, d1>>

\* CoinGecko, else DexScreener, else nobody; the price is dated when it came.
fetchExternalPrice(r) ==
    /\ At(r, "fetch")
    /\ Take(r, "store", clock) \/ Go(r, "failed")
    /\ UNCHANGED <<clock, kv, d1>>

\* Both writes may fail, and nobody hears of it.
writeD1Price(r) ==
    /\ At(r, "store")
    /\ d1' \in {d1, req[r].asOf}
    /\ Go(r, "backfill")
    /\ UNCHANGED <<clock, kv>>

writeKvPrice(r) ==
    /\ At(r, "backfill")
    /\ kv' \in {kv, [asOf |-> req[r].asOf, expires |-> clock + KvTtl]}
    /\ Go(r, "done")
    /\ UNCHANGED <<clock, d1>>

\* |asked - p0 / p1| over p0 / p1, in basis points, rounded.
Deviation(p0, p1, asked) ==
    LET diff == IF asked * p1 > p0 THEN asked * p1 - p0 ELSE p0 - asked * p1
    IN  (20000 * diff + p0) \div (2 * p0)
evaluatePriceGuard(p0, p1, asked) == Deviation(p0, p1, asked) <= MaxDeviation

Approved(r) ==
    /\ req[r].kind = "guard" /\ At(r, "done")
    /\ evaluatePriceGuard(External[req[r].asOf], Par, req[r].asked)
Answer(r) ==
    /\ At(r, "done") \/ At(r, "failed")
    /\ req' = [req EXCEPT ![r] = Idle]
    /\ UNCHANGED <<clock, kv, d1>>

getPrice(r) ==
    \/ readKvPrice(r) \/ readD1Price(r) \/ fetchExternalPrice(r)
    \/ writeD1Price(r) \/ writeKvPrice(r)

Next == Tick \/ \E r \in Requests : AskPrice(r) \/ AskGuard(r) \/ getPrice(r) \/ Answer(r)

Spec == Init /\ [][Next]_vars

-----------------------------------------------------------------------------
\* A price that is answered was a source's price not longer ago than a stale
\* row may be written back to KV and live there, however requests overlap.
AnsweredPriceFresh ==
    \A r \in Requests :
        At(r, "done") => clock - req[r].asOf < D1Fresh + KvTtl + 2 * MaxDelay

\* The guard lets a price pass only if it was within the deviation of what the
\* sources said during the request: no cache has a say in it.
GuardUsesCurrentPrices ==
    \A r \in Requests : Approved(r) =>
        \E n \in req[r].started .. clock : evaluatePriceGuard(External[n], Par, req[r].asked)
=============================================================================
