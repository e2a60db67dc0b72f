----------------------------- MODULE TpslOrders -----------------------------
(***************************************************************************)
(* The data of the on-chain take-profit / stop-loss module                 *)
(* (packages/contracts/src/tpsl/AetherTPSL.sol): the terms of an order,    *)
(* the request check of createOrder and the spot-and-TWAP trigger.  The    *)
(* abstract and the detailed specification of the contract share it.       *)
(*                                                                         *)
(* Amounts, prices, times and basis points are naturals; prices stand for  *)
(* the X18 price of a tick, of which the trigger only uses the order.      *)
(***************************************************************************)
EXTENDS Naturals, Sequences, FiniteSets

CONSTANTS
    Owners,       \* accounts that place orders
    NoOwner,      \* the zero address, owner of an id nobody used yet
    Pools,        \* V4 pools with two ERC-20 currencies
    NativePools,  \* V4 pools one of whose currencies is the native one
    Requests,     \* CreateOrderParams a caller may send, the refused included
    MaxOrders,    \* bound: how many orders may be created
    MaxTime,      \* bound: the last block timestamp
    Prices,       \* prices a pool and its TWAP may have
    NoTwap,       \* getCurrentTwap reverts
    Funds,        \* what every wallet holds of each currency at first
    MaxSlippageBps, MaxTwapWindow

Currencies == {0, 1}
Ids        == 0 .. MaxOrders - 1
Statuses   == {"PENDING", "EXECUTED", "CANCELLED", "EXPIRED"}
Markets    == [spot : Prices, twap : Prices \cup {NoTwap}]

Terms == [pool : Pools \cup NativePools, orderType : {"TAKE_PROFIT", "STOP_LOSS"},
          zeroForOne : BOOLEAN, amountIn : Nat, minAmountOut : Nat, trigger : Nat,
          twapWindow : Nat, slippageBps : Nat, deadline : Nat]

ASSUME TpslAssumption ==
    /\ NoOwner \notin Owners
    /\ Pools \cap NativePools = {}
    /\ Requests \subseteq Terms
    /\ MaxOrders \in Nat /\ MaxTime \in Nat /\ Funds \in Nat
    /\ MaxSlippageBps \in Nat /\ MaxTwapWindow \in Nat
    /\ Prices \subseteq Nat /\ NoTwap \notin Prices

\* struct TpSlOrder; NoOrder is what the mapping holds for an unused id: all
\* fields zero, and the zero of OrderStatus is PENDING.
Orders  == [owner : Owners, terms : Terms, status : Statuses, executedAt : Nat]
NoOrder == [owner |-> NoOwner, status |-> "PENDING"]

Exists(order) == order # NoOrder

CurrencyIn(t)  == IF t.zeroForOne THEN 0 ELSE 1
CurrencyOut(t) == IF t.zeroForOne THEN 1 ELSE 0

\* The checks at the top of createOrder, in the code's order.
ValidRequest(r, now) ==
    /\ now <= r.deadline
    /\ r.amountIn # 0
    /\ r.slippageBps <= MaxSlippageBps
    /\ r.twapWindow # 0 /\ r.twapWindow <= MaxTwapWindow
    /\ r.trigger # 0
    /\ r.pool \notin NativePools

NewOrder(who, r) ==
    [owner |-> who, terms |-> r, status |-> "PENDING", executedAt |-> 0]

\* _evaluateTrigger: a zeroForOne take-profit and a oneForZero stop-loss wait
\* for a low price, the other two for a high one; spot and TWAP must agree.
Breached(t, market) ==
    IF (t.orderType = "TAKE_PROFIT") = t.zeroForOne
    THEN market.spot <= t.trigger /\ market.twap <= t.trigger
    ELSE market.spot >= t.trigger /\ market.twap >= t.trigger
=============================================================================
