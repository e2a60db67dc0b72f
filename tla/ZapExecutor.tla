----------------------------- MODULE ZapExecutor -----------------------------
(***************************************************************************)
(* AetherV3ZapExecutor: zap pulls one token from its caller, swaps a part  *)
(* of it through the v3 router, mints a position for the caller through    *)
(* the v3 position manager and refunds what is left.  The executor should  *)
(* own nothing, but tokens may be sent to it, and what it held before a    *)
(* zap is to stay out of it; the owner can take that with rescueTokens.    *)
(*                                                                         *)
(* zap is nonReentrant, rescueTokens and token transfers are not: both may *)
(* happen inside a zap, from a callee.  Any external call may fail.  The   *)
(* tokens may charge for a transfer: of the swap's output, no less than    *)
(* the router reports is believed to have arrived.                         *)
(***************************************************************************)
EXTENDS Integers

CONSTANTS
    Users,
    Currency0, Currency1,
    Funds,   \* bound: what each user and the market start with, of each token
    Gifts,   \* bound: what may be sent to the executor from outside
    MaxZaps  \* bound: zaps one after the other

Currencies == {Currency0, Currency1}
Spenders   == {"swapRouter", "positionManager"}
Amounts    == [Currencies -> 0 .. Funds]

VARIABLES
    purse,      \* balances of the users
    held,       \* balances of the executor
    market,     \* balances of pool, router and position manager
    outside,    \* balances of everybody else, the executor's owner included
    allowance,  \* allowance[s][c]: what spender s may take of the executor's c
    call,       \* the zap on the stack, or NoCall
    zaps        \* how many were called, for the bound

vars == <<purse, held, market, outside, allowance, call, zaps>>

NoCall   == [phase |-> "none"]
Idle     == call.phase = "none"
At(phase) == call.phase = phase
Other(c) == IF c = Currency0 THEN Currency1 ELSE Currency0
Zero     == [c \in Currencies |-> 0]

Now   == [purse |-> purse, held |-> held, market |-> market, outside |-> outside,
          allowance |-> allowance]
Books == [Currencies -> Nat]
State == [purse : [Users -> Books], held : Books, market : Books, outside : Books,
          allowance : [Spenders -> Books]]

TypeOK ==
    /\ Now \in State /\ zaps \in 0 .. MaxZaps
    /\ call \in {NoCall} \cup
         [phase : {"pull", "swap", "mint", "refund0", "refund1"}, sender : Users,
          in : Currencies, amountIn : Nat, swapIn : Nat, minOut : Nat, amountOut : Nat,
          spent : Books, got : Books, rescued : BOOLEAN, saved : State]

Init ==
    /\ purse = [u \in Users |-> [c \in Currencies |-> Funds]]
    /\ held = Zero
    /\ market = [c \in Currencies |-> Funds]
    /\ outside = [c \in Currencies |-> Gifts]
    /\ allowance = [s \in Spenders |-> Zero]
    /\ call = NoCall
    /\ zaps = 0

Give(c) ==
    /\ outside[c] > 0
    /\ outside' = [outside EXCEPT ![c] = @ - 1]
    /\ held' = [held EXCEPT ![c] = @ + 1]
    /\ UNCHANGED <<purse, market, allowance, call, zaps>>

\* The owner sweeps what is there, even in the middle of a zap.
RescueTokens(c, amount) ==
    /\ 0 < amount /\ amount <= held[c]
    /\ held' = [held EXCEPT ![c] = @ - amount]
    /\ outside' = [outside EXCEPT ![c] = @ + amount]
    /\ call' = IF Idle THEN call ELSE [call EXCEPT !.rescued = TRUE]
    /\ UNCHANGED <<purse, market, allowance, zaps>>

-----------------------------------------------------------------------------
\* zap: the checks, and the snapshot of the balances in call.saved.  Deadline and
\* the limits the position manager checks are left to Revert.
Zap(sender, in, amountIn, swapAmountIn, minSwapAmountOut) ==
    /\ Idle /\ zaps < MaxZaps
    /\ zaps' = zaps + 1
    /\ amountIn > 0 /\ minSwapAmountOut > 0
    /\ 0 < swapAmountIn /\ swapAmountIn < amountIn
    /\ call' = [phase |-> "pull", sender |-> sender, in |-> in, amountIn |-> amountIn,
                swapIn |-> swapAmountIn, minOut |-> minSwapAmountOut, amountOut |-> 0,
                spent |-> Zero, got |-> Zero, rescued |-> FALSE, saved |-> Now]
    /\ UNCHANGED <<purse, held, market, outside, allowance>>

before == call.saved.held

\* Exactly amountIn must have come in since the snapshot.
Pull ==
    /\ At("pull")
    /\ call.amountIn <= purse[call.sender][call.in]
    /\ held[call.in] = before[call.in]
    /\ purse' = [purse EXCEPT ![call.sender][call.in] = @ - call.amountIn]
    /\ held' = [held EXCEPT ![call.in] = @ + call.amountIn]
    /\ call' = [call EXCEPT !.phase = "swap"]
    /\ UNCHANGED <<market, outside, allowance, zaps>>

\* exactInputSingle takes what it is allowed, or less at the price limit, and
\* reports an output of which some may be lost on the way.
Swap ==
    /\ At("swap")
    /\ LET out == Other(call.in) IN
       \E asked \in 0 .. call.swapIn, reported \in call.minOut .. Funds :
       \E arrived \in 0 .. reported :
          /\ asked <= held[call.in] /\ reported <= market[out]
          /\ allowance' = [allowance EXCEPT !["swapRouter"][call.in] = call.swapIn - asked]
          /\ held' = [held EXCEPT ![call.in] = @ - asked, ![out] = @ + arrived]
          /\ market' = [market EXCEPT ![call.in] = @ + asked, ![out] = @ - reported]
          /\ outside' = [outside EXCEPT ![out] = @ + reported - arrived]
          /\ call' = [call EXCEPT !.phase = "mint", !.amountOut = reported,
                                  !.spent[call.in] = asked, !.got[out] = arrived]
    /\ UNCHANGED <<purse, zaps>>

\* Mutant of Desired: the whole input once more.
DesiredWhole(c) == IF c = call.in THEN call.amountIn ELSE call.amountOut

\* mint takes no more than the amounts desired; then no allowance is left.
Desired(c) == IF c = call.in THEN call.amountIn - call.swapIn ELSE call.amountOut
Mint ==
    /\ At("mint")
    /\ \E used \in Amounts :
          /\ \A c \in Currencies : used[c] <= Desired(c) /\ used[c] <= held[c]
          /\ held' = [c \in Currencies |-> held[c] - used[c]]
          /\ market' = [c \in Currencies |-> market[c] + used[c]]
          /\ call' = [call EXCEPT !.phase = "refund0",
                                  !.spent = [c \in Currencies |-> @[c] + used[c]]]
    /\ allowance' = [s \in Spenders |-> Zero]
    /\ UNCHANGED <<purse, outside, zaps>>

\* Mutant of Left: the whole balance is refunded.
LeftWhole(c) == held[c]

\* _refundDelta of each token: what is there beyond the snapshot.
Left(c) == IF held[c] > before[c] THEN held[c] - before[c] ELSE 0
Refund(c, next) ==
    /\ purse' = [purse EXCEPT ![call.sender][c] = @ + Left(c)]
    /\ held' = [held EXCEPT ![c] = @ - Left(c)]
    /\ call' = next
    /\ UNCHANGED <<market, outside, allowance, zaps>>

RefundDelta ==
    \/ At("refund0") /\ Refund(Currency0, [call EXCEPT !.phase = "refund1"])
    \/ At("refund1") /\ Refund(Currency1, NoCall)

Revert ==
    /\ ~ Idle
    /\ purse' = call.saved.purse /\ held' = call.saved.held /\ market' = call.saved.market
    /\ outside' = call.saved.outside /\ allowance' = call.saved.allowance
    /\ call' = NoCall
    /\ UNCHANGED zaps

Next ==
    \/ \E c \in Currencies : Give(c) \/ \E amount \in 1 .. held[c] : RescueTokens(c, amount)
    \/ \E sender \in Users, in \in Currencies, amountIn \in 1 .. Funds, minOut \in 1 .. Funds :
          \E swapIn \in 1 .. amountIn - 1 : Zap(sender, in, amountIn, swapIn, minOut)
    \/ Pull \/ Swap \/ Mint \/ RefundDelta \/ Revert

Spec == Init /\ [][Next]_vars

-----------------------------------------------------------------------------
\* What the market did not take comes back: a zap that is not reverted leaves
\* its caller with all that the market left him or gave him, whatever else came
\* to the executor meanwhile, unless the owner took it out in the middle.  It
\* costs him amountIn at most, costs nobody else anything and leaves the executor
\* without allowances.  What was there before stays there, except for the output
\* of the swap that was reported and did not arrive.
ZapKeepsTerms ==
    [][~ Idle /\ Idle' /\ Now' # call.saved =>
        LET s == call.saved
            gain(c) == purse'[call.sender][c] - s.purse[call.sender][c]
        IN  /\ \A u \in Users \ {call.sender} : purse'[u] = s.purse[u]
            /\ allowance' = [t \in Spenders |-> Zero]
            /\ \A c \in Currencies :
                  /\ gain(c) >= (IF c = call.in THEN 0 - call.amountIn ELSE 0)
                  /\ ~ call.rescued => gain(c) >= call.got[c] - call.spent[c]
                  /\ ~ call.rescued /\ held'[c] < s.held[c] =>
                        c # call.in /\ call.spent[c] > call.got[c]]_vars
=============================================================================
