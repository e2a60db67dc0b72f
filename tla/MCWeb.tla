-------------------------------- MODULE MCWeb --------------------------------
(***************************************************************************)
(* Instances of the pages of the web application and of the quotes of the  *)
(* API.  Pages share nothing while they are open, so each is checked by    *)
(* itself: a behaviour runs one part and leaves the others alone.          *)
(***************************************************************************)
EXTENDS SwapPage

CONSTANTS
    Ticks, Spacing, Scan, MaxBlock, MaxQuoted, Fee, Positions, \* of QuoteEngine
    Pools, Loads,                                        \* of the two pages with loads
    Wallets, Ids, Owner,                                 \* of PositionsPage
    Runs, MaxDeposits, Amounts, MaxQuotes, Slip, BuyRates,\* of PoolPage
    Prices, Scale, Q, MaxSqrt, MaxFee, MaxSpacing, MaxTime   \* of PoolCreation

VARIABLES
    part,                                                \* what runs
    mode, configured, chain, req,
    poolId, pool, tokens, loading, poolLoads, failed,
    address, positions, isPending, errorMessage, selectedPositionId, values, submitted, loads,
    lform, runs, allowance, deposits,
    creation, isConnected, recheckAcknowledged, intentPrepared, now, rendered

MCIds   == {1, 2, 3}
MCOwner == [i \in MCIds |-> IF i = 3 THEN CHOOSE w \in Wallets : TRUE
                            ELSE CHOOSE w \in Wallets : w # CHOOSE u \in Wallets : TRUE]
MCPositions == {[lo |-> 0, hi |-> Ticks], [lo |-> Spacing, hi |-> 2 * Spacing]}

QE == INSTANCE QuoteEngine WITH MaxAmount <- MaxQuoted
PD == INSTANCE PoolPage WITH loads <- poolLoads, form <- lform, Rates <- BuyRates,
                            MaxTx <- MaxDeposits
PP == INSTANCE PositionsPage
PC == INSTANCE PoolCreation WITH values <- creation

\* Prices are naturals, and the scale is not zero.
PriceConstants ==
    /\ Prices \subseteq Nat /\ Scale \in Nat \ {0} /\ Q \in Nat /\ MaxSqrt \in Nat

\* Ticks are spaced, positions begin and end at multiples of the spacing, and the fee
\* of a pool is at most the whole.
QuoteConstants ==
    /\ Ticks \in Nat /\ Spacing \in Nat \ {0} /\ Scan \in Nat /\ MaxQuoted \in Nat /\ Fee \in 0 .. 10
    /\ \A p \in Positions : p.lo \in Int /\ p.hi \in Int /\ p.lo % Spacing = 0 /\ p.hi % Spacing = 0

\* No pool and no wallet are not pools and wallets, and no position has the
\* identifier of none.
PagesConstants ==
    PD!NoPool \notin Pools /\ PP!NoWallet \notin Wallets /\ Ids \subseteq Nat \ {0}

\* Some amount may be typed, none is negative, and a search asks for a quote at least.
DepositConstants ==
    /\ Amounts \subseteq Nat /\ Amounts # {} /\ BuyRates \subseteq Nat
    /\ MaxQuotes \in Nat \ {0} /\ Slip \in Nat

ASSUME WebAssumption ==
    PriceConstants /\ QuoteConstants /\ PagesConstants /\ DepositConstants

quoteVars     == <<mode, configured, chain, req>>
poolVars      == <<poolId, pool, tokens, loading, poolLoads, failed>>
positionsVars == <<address, positions, isPending, errorMessage, selectedPositionId, values,
                   submitted, loads>>
depositVars   == <<lform, runs, allowance, deposits>>
creationVars  == <<creation, isConnected, recheckAcknowledged, intentPrepared, now, rendered>>
all == <<part, vars, quoteVars, poolVars, positionsVars, depositVars, creationVars>>

Others == <<quoteVars, poolVars, positionsVars, depositVars, creationVars>>

WebInit ==
    /\ part \in {"swap", "quote", "pool", "positions", "deposit", "creation"}
    /\ Init /\ QE!Init /\ PD!Init /\ PP!Init /\ PC!Init
    /\ part # "swap" => rate = CHOOSE r \in Rates : TRUE
    /\ part = "quote" /\ ~ configured => mode = "auto"
    /\ part # "quote" => /\ mode = "v4" /\ configured
                         /\ chain = <<[tick |-> 0, positions |-> {}]>>
    /\ part # "pool" => /\ poolId = CHOOSE p \in Pools : TRUE
                        /\ poolLoads[CHOOSE l \in Loads : TRUE] # PD!None

InSwap == part = "swap" /\ UNCHANGED <<part, Others>>
InQuote == part = "quote" /\ UNCHANGED <<part, vars, poolVars, positionsVars, depositVars, creationVars>>
InPool == part = "pool" /\ UNCHANGED <<part, vars, quoteVars, positionsVars, depositVars, creationVars>>
InPositions == part = "positions" /\ UNCHANGED <<part, vars, quoteVars, poolVars, depositVars, creationVars>>
InDeposit == part = "deposit" /\ UNCHANGED <<part, vars, quoteVars, poolVars, positionsVars, creationVars>>
InCreation == part = "creation" /\ UNCHANGED <<part, vars, quoteVars, poolVars, positionsVars, depositVars>>

WebNext ==
    \/ InSwap /\ Next
    \/ InQuote /\ QE!Next
    \/ InPool /\ PD!PageNext
    \/ InPositions /\ PP!Next
    \/ InDeposit /\ PD!FormNext
    \/ InCreation /\ PC!Next

\* The fairness of SwapPage, the one module with a liveness property.
WebFairness ==
    /\ WF_all(InSwap /\ Answers) /\ WF_all(InSwap /\ Confirm)

WebSpec == WebInit /\ [][WebNext]_all /\ WebFairness

QuoteExact       == QE!QuoteExact
DepositAsPressed == PD!DepositAsPressed
PriceEncoded     == PC!PriceEncoded
\* PoolPage and PositionsPage, each with its types.
PagesShowTheirOwn ==
    /\ PD!TypeOK /\ PD!ShowsRoute
    /\ PP!TypeOK /\ PP!ListsOwnPositions
=============================================================================
