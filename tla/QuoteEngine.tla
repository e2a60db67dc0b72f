------------------------------ MODULE QuoteEngine ------------------------------
(***************************************************************************)
(* How the API prices a swap: the reader of pool state                     *)
(* (apps/api/src/services/chain-state-reader.ts), the simulation on what   *)
(* it read (services/quote-engine.ts), the choice between the two engines  *)
(* (services/swap.service.ts) and the v3 quoter                            *)
(* (services/v3-quote.service.ts), while the pool moves on.                *)
(*                                                                         *)
(* The price range is a row of ticks.  A unit of input moves the price of  *)
(* a pool with liquidity l by one l-th of a tick, and pays more in the     *)
(* upper ticks going up; that is all of the swap mathematics kept here.    *)
(* Positions begin and end at multiples of Spacing.  A pool of the         *)
(* approximation holds as much of either token.                            *)
(***************************************************************************)
EXTENDS Integers, FiniteSets, Sequences

CONSTANTS
    Ticks,      \* bound: the price range is 0 .. Ticks - 1
    Spacing,    \* tickSpacing of the pool
    Scan,       \* tickScanEachSide
    MaxBlock,   \* bound of the chain
    MaxAmount,
    Fee,        \* of the pool, in tenths
    Positions   \* bound: the liquidity positions there may be, as [lo, hi] records

VARIABLES
    mode,        \* QUOTE_ENGINE_MODE
    configured,  \* are STATE_VIEW_ADDRESS and RPC_URL set?
    chain,       \* the pool's state in every block so far
    req          \* the request for a quote, and what it has read

vars == <<mode, configured, chain, req>>

Dirs  == {"up", "down"}
TickRange == 0 .. Ticks - 1
PoolStates == [tick : TickRange, positions : SUBSET Positions]

\* What a pool knows at its ticks.
LiquidityAt(pool, tick) ==
    Cardinality({p \in pool.positions : p.lo <= tick /\ tick < p.hi})
NetAt(pool, tick) ==
    Cardinality({p \in pool.positions : p.lo = tick})
      - Cardinality({p \in pool.positions : p.hi = tick})
NetOf(pool)      == [t \in 0 .. Ticks |-> NetAt(pool, t)]
SlotOf(pool)     == [tick |-> pool.tick, liquidity |-> LiquidityAt(pool, pool.tick)]

\* A swap on its way is at the edge of a tick, with the input that is left, the
\* output and the liquidity so far.  Going down a tick is crossed before the range
\* below it is used, going up after the range is used up.
Here(dir, s)         == IF dir = "up" THEN s.tick ELSE s.tick - 1
InRange(net, dir, s) == IF dir = "up" THEN s.liquidity ELSE s.liquidity - net[s.tick]
Pays(dir, tick)      == IF dir = "up" THEN Ticks - tick ELSE tick + 1

Ends(net, dir, s) ==
    Here(dir, s) \notin TickRange \/ s.left = 0 \/ s.left < InRange(net, dir, s)
UseUp(net, dir, s) ==
    LET l == InRange(net, dir, s) IN
    [left |-> s.left - l, amountOut |-> s.amountOut + l * Pays(dir, Here(dir, s)),
     tick |-> IF dir = "up" THEN s.tick + 1 ELSE s.tick - 1,
     liquidity |-> IF dir = "up" THEN l + net[s.tick + 1] ELSE l]

\* A swap that starts at the lower edge of slot.tick, with the liquidity changes
\* net: the output and the tick it ends in.
Swap(slot, net, dir, amountIn) ==
    LET start == [left |-> amountIn, amountOut |-> 0, tick |-> slot.tick, liquidity |-> slot.liquidity]
        walk[n \in 0 .. Ticks] ==
            IF n = 0 THEN start
            ELSE LET s == walk[n - 1] IN IF Ends(net, dir, s) THEN s ELSE UseUp(net, dir, s)
        last == walk[Ticks]
        here == Here(dir, last)
    IN  IF here \in TickRange /\ last.left # 0
        THEN [amountOut |-> last.amountOut + last.left * Pays(dir, here), tickAfter |-> here]
        ELSE [amountOut |-> last.amountOut,
              tickAfter |-> IF here \notin TickRange \/ (dir = "down" /\ net[last.tick] # 0)
                            THEN here ELSE last.tick]
InPool(pool, dir, amountIn) == Swap(SlotOf(pool), NetOf(pool), dir, amountIn)

Request(dir, amountIn, kind) ==
    [stage |-> kind, dir |-> dir, amountIn |-> amountIn, first |-> Len(chain),
     block |-> 0, slot |-> [tick |-> 0, liquidity |-> 0], source |-> "none", amountOut |-> 0]
Idle == [stage |-> "idle"]

Init ==
    /\ mode \in {"v4", "auto", "legacy"} /\ configured \in BOOLEAN
    /\ \E pool \in PoolStates : chain = <<pool>>
    /\ req = Idle

-----------------------------------------------------------------------------
\* Swaps and deposits of others.
Block ==
    /\ Len(chain) < MaxBlock
    /\ \E pool \in PoolStates : chain' = Append(chain, pool)
    /\ UNCHANGED <<mode, configured, req>>

getQuote ==
    /\ req = Idle
    /\ \E dir \in Dirs, amountIn \in 1 .. MaxAmount :
          req' = Request(dir, amountIn, IF mode = "legacy" THEN "legacy" ELSE "pin")
    /\ UNCHANGED <<mode, configured, chain>>

Fail == req' = [req EXCEPT !.stage = "done", !.source = "error"]

\* quoteV4: only a reader that is not configured, and only in auto, is replaced
\* by the old approximation.
quoteV4 ==
    /\ req.stage = "pin"
    /\ IF configured
       THEN Fail \/ req' = [req EXCEPT !.stage = "slot", !.block = Len(chain)]
       ELSE IF mode = "auto" THEN req' = [req EXCEPT !.stage = "legacy"] ELSE Fail
    /\ UNCHANGED <<mode, configured, chain>>

\* Mutant of Pinned: what is latest at the moment of each read.
PinnedNot == chain[Len(chain)]
\* Every read names the block the first one chose.
Pinned == chain[req.block]

readSlot0 ==
    /\ req.stage = "slot"
    /\ Fail \/ req' = [req EXCEPT !.stage = "ticks", !.slot = SlotOf(Pinned)]
    /\ UNCHANGED <<mode, configured, chain>>

\* Mutant of Anchor: the scan starts at the tick of the price.
AnchorAtTick(tick) == tick

Anchor(tick)     == (tick \div Spacing) * Spacing
Candidates(tick) == {Anchor(tick) + k * Spacing : k \in -Scan .. Scan}
InWindow(tick, tickAfter) ==
    /\ Anchor(tick) - Scan * Spacing <= tickAfter
    /\ tickAfter <= Anchor(tick) + Scan * Spacing

\* simulateExactInputSwap on what was read: ticks that were not asked for change
\* no liquidity, and an answer that leaves the window is none.
simulate ==
    LET slot   == req.slot
        net    == [t \in 0 .. Ticks |-> IF t \in Candidates(slot.tick) THEN NetAt(Pinned, t) ELSE 0]
        result == Swap(slot, net, req.dir, req.amountIn)
    IN  /\ req.stage = "ticks"
        /\ IF /\ slot.liquidity > 0
              /\ InWindow(slot.tick, result.tickAfter)
              /\ result.amountOut > 0
           THEN Fail \/ req' = [req EXCEPT !.stage = "done", !.source = "v4",
                                           !.amountOut = result.amountOut]
           ELSE Fail
        /\ UNCHANGED <<mode, configured, chain>>

\* calculateConstantProductQuote, over reserves that are the liquidity.
constantProduct(amountIn, liquidity) ==
    LET amountInWithFee == amountIn * (10 - Fee) IN
    (amountInWithFee * liquidity) \div (liquidity * 10 + amountInWithFee)

\* quoteLegacy: the row of the pool in D1, with whatever liquidity it has.
quoteLegacy ==
    /\ req.stage = "legacy"
    /\ Fail \/ \E liquidity \in 1 .. 10 * MaxAmount :
                LET out == constantProduct(req.amountIn, liquidity) IN
                /\ out > 0
                /\ req' = [req EXCEPT !.stage = "done", !.source = "legacy", !.amountOut = out]
    /\ UNCHANGED <<mode, configured, chain>>

\* GET /v3/quote: the pool's address, then the quoter's own simulation on the
\* chain, both at the latest block.
v3Quote ==
    /\ req = Idle /\ configured
    /\ \E dir \in Dirs, amountIn \in 1 .. MaxAmount : req' = Request(dir, amountIn, "v3")
    /\ UNCHANGED <<mode, configured, chain>>

quoteExactInputSingle ==
    LET out == InPool(chain[Len(chain)], req.dir, req.amountIn).amountOut IN
    /\ req.stage = "v3"
    /\ \/ Fail
       \/ /\ out > 0
          /\ req' = [req EXCEPT !.stage = "done", !.source = "v3", !.amountOut = out]
    /\ UNCHANGED <<mode, configured, chain>>

Answer ==
    /\ req.stage = "done"
    /\ req' = Idle
    /\ UNCHANGED <<mode, configured, chain>>

Next ==
    \/ Block
    \/ getQuote \/ quoteV4 \/ readSlot0 \/ simulate \/ quoteLegacy
    \/ v3Quote \/ quoteExactInputSingle
    \/ Answer

Spec == Init /\ [][Next]_vars

-----------------------------------------------------------------------------
\* A quote is what the pool, with all of its ticks, would have paid in one
\* block between the request and the answer, though it was computed from reads
\* made one by one and from a few of the ticks; and the approximation stands in
\* only where there is nothing to read, and promises less than goes in.
QuoteExact ==
    req.stage = "done" =>
        /\ req.source \in {"v4", "v3"} =>
              \E b \in req.first .. Len(chain) :
                  req.amountOut = InPool(chain[b], req.dir, req.amountIn).amountOut
        /\ req.source = "legacy" => req.amountOut < req.amountIn
        /\ req.source = "legacy" => mode = "legacy" \/ (mode = "auto" /\ ~ configured)
=============================================================================
