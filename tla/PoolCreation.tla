----------------------------- MODULE PoolCreation -----------------------------
(***************************************************************************)
(* The page that prepares a new pool (apps/web/src/routes/pools.new.tsx):  *)
(* its form, the validation against the clock, the encoding of the opening *)
(* price and the two gates of the button, a connected wallet and an        *)
(* acknowledgement.                                                        *)
(*                                                                         *)
(* Prices are integers: what the page scales by 10^18 is scaled by         *)
(* Scale * Scale, and Q96 and uint160 are Q and MaxSqrt.  A price is the   *)
(* ratio of base units as it is typed; the page does not know the decimals *)
(* of the tokens.                                                          *)
(***************************************************************************)
EXTENDS Naturals

CONSTANTS
    Prices,              \* bound: what is typed as the price
    Scale, Q, MaxSqrt,
    MaxFee, MaxSpacing,  \* MAX_V4_FEE, MAX_V4_TICK_SPACING
    MaxTime              \* bound of the clock

VARIABLES
    values,              \* the form
    isConnected, recheckAcknowledged,
    intentPrepared,
    now,
    rendered             \* the clock when React rendered the page last

vars == <<values, isConnected, recheckAcknowledged, intentPrepared, now, rendered>>

Pairs   == {"sorted", "unsorted", "equal", "not addresses"}
Forms   == [pair : Pairs, fee : {0, MaxFee, MaxFee + 1}, tickSpacing : {0, MaxSpacing, MaxSpacing + 1},
            kind : {"price", "sqrtPriceX96"}, price : Prices, deadline : 0 .. MaxTime]

\* Mutant of integerSqrt: it stops at the first step that is no large one.
integerSqrtEarly(value) ==
    LET newton[result \in 1 .. value] ==
            LET next == (result + value \div result) \div 2 IN
            IF next + 1 < result THEN newton[next] ELSE result
    IN  IF value = 0 THEN 0 ELSE newton[value]

\* Newton's iteration from above, until it no longer descends.
integerSqrt(value) ==
    LET newton[result \in 1 .. value] ==
            LET next == (result + value \div result) \div 2 IN
            IF next < result THEN newton[next] ELSE result
    IN  IF value = 0 THEN 0 ELSE newton[value]

decimalToSqrtPriceX96(price) == (integerSqrt(price) * Q) \div Scale

\* What buildPoolCreationTransactionIntent sends.
sqrtPriceX96(v) == IF v.kind = "sqrtPriceX96" THEN v.price ELSE decimalToSqrtPriceX96(v.price)

priceValid(v) == v.price > 0 /\ sqrtPriceX96(v) \in 1 .. MaxSqrt

\* validatePoolCreationForm: is there a request?  It runs as the page is rendered,
\* and a page left alone is not rendered again when the deadline passes.
validatePoolCreationForm(v) ==
    /\ v.pair = "sorted"
    /\ v.fee \in 1 .. MaxFee /\ v.tickSpacing \in 1 .. MaxSpacing
    /\ priceValid(v)
    /\ v.deadline > rendered

canPrepare == isConnected /\ validatePoolCreationForm(values) /\ recheckAcknowledged

\* useStateWithFormDefaults: no addresses, no deadline yet.
Init ==
    /\ values \in {v \in Forms : /\ v.pair = "not addresses" /\ v.fee = MaxFee
                                 /\ v.tickSpacing = MaxSpacing
                                 /\ v.kind = "price" /\ v.price = Scale * Scale
                                 /\ v.deadline = 0}
    /\ isConnected = FALSE /\ recheckAcknowledged = FALSE
    /\ intentPrepared = FALSE
    /\ now = 0 /\ rendered = 0

\* update, for every field but the price: what was prepared is prepared no more.
update(v) ==
    /\ v.kind = values.kind /\ v.price = values.price
    /\ values' = v
    /\ intentPrepared' = FALSE
    /\ rendered' = now
    /\ UNCHANGED <<isConnected, recheckAcknowledged, now>>

\* The fields of the price set the form by themselves.
setPrice(v) ==
    /\ values' = [values EXCEPT !.kind = v.kind, !.price = v.price]
    /\ rendered' = now
    /\ UNCHANGED <<isConnected, recheckAcknowledged, intentPrepared, now>>

\* A second click changes nothing, so that nothing is rendered.
submit ==
    /\ canPrepare
    /\ intentPrepared' = TRUE
    /\ rendered' = IF intentPrepared THEN rendered ELSE now
    /\ UNCHANGED <<values, isConnected, recheckAcknowledged, now>>

setRecheckAcknowledged ==
    /\ recheckAcknowledged' = ~ recheckAcknowledged
    /\ rendered' = now
    /\ UNCHANGED <<values, isConnected, intentPrepared, now>>

Wallet ==
    /\ isConnected' = ~ isConnected
    /\ rendered' = now
    /\ UNCHANGED <<values, recheckAcknowledged, intentPrepared, now>>

Tick ==
    /\ now < MaxTime /\ now' = now + 1
    /\ UNCHANGED <<values, isConnected, recheckAcknowledged, intentPrepared, rendered>>

Next ==
    \/ \E v \in Forms : update(v)
    \/ \E p \in Prices, k \in {"price", "sqrtPriceX96"} : setPrice([kind |-> k, price |-> p])
    \/ submit \/ setRecheckAcknowledged \/ Wallet \/ Tick

Spec == Init /\ [][Next]_vars

\* A price the button lets pass, taken as a ratio of base units, is encoded as the
\* pool will read it: the root is the integer square root, so that the encoding is
\* below the price by less than one step of the scale, and it is neither zero nor
\* beyond uint160.
PriceEncoded ==
    canPrepare =>
        LET s == sqrtPriceX96(values) IN
        /\ 0 < s /\ s <= MaxSqrt
        /\ values.kind = "price" =>
              \E root \in 0 .. values.price :
                 /\ root * root <= values.price /\ values.price < (root + 1) * (root + 1)
                 /\ s * Scale <= root * Q /\ root * Q < (s + 1) * Scale
=============================================================================
