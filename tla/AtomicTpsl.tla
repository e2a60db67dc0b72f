----------------------------- MODULE AtomicTpsl -----------------------------
(***************************************************************************)
(* What AetherTPSL promises its users (the "design principles" of its      *)
(* header): an order is placed, and then it is cancelled by its owner or   *)
(* filled in one indivisible step in which the owner pays exactly          *)
(* amountIn, is paid at least minAmountOut, and nobody else's balance      *)
(* moves.  There is no state in which the module holds anything, and no    *)
(* state in which an order has been paid for and not filled.               *)
(***************************************************************************)
EXTENDS TpslOrders

VARIABLES
    now,      \* block.timestamp
    market,   \* spot price and TWAP
    book,     \* book[id]: the order with that id
    purse,    \* purse[o][c]: what owner o holds of currency c
    reserve   \* reserve[c]: what the pool side holds of currency c

vars == <<now, market, book, purse, reserve>>

Init ==
    /\ now = 1
    /\ market \in Markets
    /\ book = [id \in Ids |-> NoOrder]
    /\ purse = [o \in Owners |-> [c \in Currencies |-> Funds]]
    /\ reserve = [c \in Currencies |-> Funds]

\* Time passes and the market moves between transactions.
World ==
    /\ now' \in {now, now + 1}
    /\ market' \in Markets
    /\ UNCHANGED <<book, purse, reserve>>

Place(who, id, r) ==
    /\ book[id] = NoOrder
    /\ ValidRequest(r, now)
    /\ book' = [book EXCEPT ![id] = NewOrder(who, r)]
    /\ UNCHANGED <<now, market, purse, reserve>>

Cancel(id) ==
    /\ Exists(book[id]) /\ book[id].status = "PENDING"
    /\ book' = [book EXCEPT ![id].status = "CANCELLED"]
    /\ UNCHANGED <<now, market, purse, reserve>>

\* The whole of a successful executeOrder: in time, both prices through the
\* trigger, the owner pays and is paid, and the trade moves the market.
Fill(id) ==
    LET order == book[id]
        t     == order.terms
        cin   == CurrencyIn(t)
        cout  == CurrencyOut(t)
        paid  == [purse EXCEPT ![order.owner][cin] = @ - t.amountIn]
        fed   == [reserve EXCEPT ![cin] = @ + t.amountIn]
    IN  /\ Exists(order) /\ order.status = "PENDING"
        /\ now <= t.deadline
        /\ market.twap # NoTwap /\ Breached(t, market)
        /\ purse[order.owner][cin] >= t.amountIn
        /\ \E out \in t.minAmountOut .. reserve[cout] :
              /\ purse' = [paid EXCEPT ![order.owner][cout] = @ + out]
              /\ reserve' = [fed EXCEPT ![cout] = @ - out]
        /\ book' = [book EXCEPT ![id].status = "EXECUTED", ![id].executedAt = now]
        /\ market' \in Markets
        /\ now' = now

Next ==
    \/ World
    \/ \E who \in Owners, id \in Ids, r \in Requests : Place(who, id, r)
    \/ \E id \in Ids : Cancel(id) \/ Fill(id)

Spec == Init /\ [][Next]_vars
=============================================================================
