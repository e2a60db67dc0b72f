---------------------------- MODULE TpslContract ----------------------------
(***************************************************************************)
(* AetherTPSL as it runs: createOrder and cancelOrder are one step each,   *)
(* executeOrder is a sequence of calls into code the contract does not     *)
(* control (the input token, the PoolManager and, through swap, the        *)
(* hooks), so it is one step per external call.  Between those steps       *)
(* anybody may call the contract again; only ReentrancyGuard stands in the *)
(* way.  A revert, from the contract or from any of the callees, undoes    *)
(* the transaction, the write of EXPIRED included.                         *)
(***************************************************************************)
EXTENDS TpslOrders, Integers

VARIABLES
    now,          \* block.timestamp
    market,       \* spot price and TWAP, as getSlot0 and getCurrentTwap answer
    orders,       \* mapping id -> TpSlOrder
    nextOrderId,
    ownerOrders,  \* mapping owner -> ids, in creation order
    poolOrders,   \* mapping pool -> ids
    wallet,       \* ERC-20 balances of the owners
    held,         \* ERC-20 balances of the AetherTPSL contract
    vault,        \* ERC-20 balances of the PoolManager
    call          \* the executeOrder on the stack, or NoCall

vars == <<now, market, orders, nextOrderId, ownerOrders, poolOrders, wallet,
          held, vault, call>>

book  == <<nextOrderId, ownerOrders, poolOrders>>
money == <<wallet, held, vault>>

NoCall == [phase |-> "none"]
Phases == {"expired", "pull", "swap", "settle", "take", "close", "commit"}
Idle   == call.phase = "none"

\* What a revert brings back.  The id counter and the index arrays are not
\* part of it: executeOrder never writes them.
State == [market : Markets, orders : [Ids -> Orders \cup {NoOrder}],
          wallet : [Owners -> [Currencies -> Nat]], held : [Currencies -> Nat],
          vault : [Currencies -> Nat]]
Now == [market |-> market, orders |-> orders, wallet |-> wallet, held |-> held,
        vault |-> vault]

\* PoolManager's currency deltas for this contract inside one unlock.
NoDelta == [c \in Currencies |-> 0]

Init ==
    /\ now = 1
    /\ market \in Markets
    /\ orders = [id \in Ids |-> NoOrder]
    /\ nextOrderId = 0
    /\ ownerOrders = [o \in Owners |-> <<>>]
    /\ poolOrders = [p \in Pools |-> <<>>]
    /\ wallet = [o \in Owners |-> [c \in Currencies |-> Funds]]
    /\ held = [c \in Currencies |-> 0]
    /\ vault = [c \in Currencies |-> Funds]
    /\ call = NoCall

-----------------------------------------------------------------------------
\* Blocks and other traders, between transactions.
World ==
    /\ Idle
    /\ now' \in {now, now + 1} /\ now' <= MaxTime
    /\ market' \in Markets
    /\ UNCHANGED <<orders, book, money, call>>

\* Mutant of CreateOrder: the index arrays get the incremented counter.
CreateOrderLateId(sender, r) ==
    /\ Idle
    /\ ValidRequest(r, now)
    /\ nextOrderId < MaxOrders
    /\ orders' = [orders EXCEPT ![nextOrderId] = NewOrder(sender, r)]
    /\ nextOrderId' = nextOrderId + 1
    /\ ownerOrders' = [ownerOrders EXCEPT ![sender] = Append(@, nextOrderId')]
    /\ poolOrders' = [poolOrders EXCEPT ![r.pool] = Append(@, nextOrderId')]
    /\ UNCHANGED <<now, market, money, call>>

\* createOrder, nonReentrant.
CreateOrder(sender, r) ==
    /\ Idle
    /\ ValidRequest(r, now)
    /\ nextOrderId < MaxOrders
    /\ orders' = [orders EXCEPT ![nextOrderId] = NewOrder(sender, r)]
    /\ nextOrderId' = nextOrderId + 1
    /\ ownerOrders' = [ownerOrders EXCEPT ![sender] = Append(@, nextOrderId)]
    /\ poolOrders' = [poolOrders EXCEPT ![r.pool] = Append(@, nextOrderId)]
    /\ UNCHANGED <<now, market, money, call>>

\* Mutant of CancelOrder: without nonReentrant it runs inside an execution.
CancelOrderReentrant(sender, id) ==
    /\ orders[id].owner = sender
    /\ orders[id].status = "PENDING"
    /\ orders' = [orders EXCEPT ![id].status = "CANCELLED"]
    /\ UNCHANGED <<now, market, book, money, call>>

\* cancelOrder, nonReentrant; an unused id has owner zero and is refused.
CancelOrder(sender, id) ==
    /\ Idle
    /\ orders[id].owner = sender
    /\ orders[id].status = "PENDING"
    /\ orders' = [orders EXCEPT ![id].status = "CANCELLED"]
    /\ UNCHANGED <<now, market, book, money, call>>

-----------------------------------------------------------------------------
\* executeOrder.  An unused id reads as a PENDING order with deadline 0.
Deadline(order) == IF Exists(order) THEN order.terms.deadline ELSE 0

Enter(id, phase) ==
    [phase |-> phase, id |-> id, delta |-> NoDelta, out |-> 0, saved |-> Now]

\* Past the deadline: the status is written and the call reverts.
ExecuteExpired(id) ==
    /\ Idle
    /\ orders[id].status = "PENDING"
    /\ now > Deadline(orders[id])
    /\ orders' = [orders EXCEPT ![id].status = "EXPIRED"]
    /\ call' = Enter(id, "expired")
    /\ UNCHANGED <<now, market, book, money>>

\* Mutant of ExecuteTriggered: the TWAP is not read.
ExecuteSpotOnly(id) ==
    /\ Idle
    /\ orders[id].status = "PENDING"
    /\ now <= Deadline(orders[id])
    /\ Breached(orders[id].terms, [market EXCEPT !.twap = market.spot])
    /\ call' = Enter(id, "pull")
    /\ UNCHANGED <<now, market, orders, book, money>>

\* All the guards hold.  (With no TWAP the call returns false, with a trigger
\* not breached it reverts; neither has written anything.)
ExecuteTriggered(id) ==
    /\ Idle
    /\ orders[id].status = "PENDING"
    /\ now <= Deadline(orders[id])
    /\ market.twap # NoTwap /\ Breached(orders[id].terms, market)
    /\ call' = Enter(id, "pull")
    /\ UNCHANGED <<now, market, orders, book, money>>

order == orders[call.id]
cin   == CurrencyIn(order.terms)
cout  == CurrencyOut(order.terms)

\* safeTransferFrom(owner, this, amountIn).
Pull ==
    /\ call.phase = "pull"
    /\ wallet[order.owner][cin] >= order.terms.amountIn
    /\ wallet' = [wallet EXCEPT ![order.owner][cin] = @ - order.terms.amountIn]
    /\ held' = [held EXCEPT ![cin] = @ + order.terms.amountIn]
    /\ call' = [call EXCEPT !.phase = "swap"]
    /\ UNCHANGED <<now, market, orders, book, vault>>

\* poolManager.swap in unlockCallback: a pool that runs out of liquidity at
\* the price limit consumes less than amountIn; the price and the TWAP move.
Swap ==
    /\ call.phase = "swap"
    /\ \E consumed \in 0 .. order.terms.amountIn, out \in 0 .. vault[cout] :
          call' = [call EXCEPT !.phase = "settle", !.out = out,
                               !.delta = [NoDelta EXCEPT ![cin] = 0 - consumed,
                                                         ![cout] = out]]
    /\ market' \in Markets
    /\ UNCHANGED <<now, orders, book, money>>

\* Mutant of SettleAmount: settle what the swap consumed and keep the rest.
SettleConsumed(consumed) == consumed

\* sync, safeTransfer(poolManager, amountIn), settle: all of amountIn, whatever
\* the swap consumed.
SettleAmount(consumed) == order.terms.amountIn
Settle ==
    LET paid == SettleAmount(0 - call.delta[cin])
    IN  /\ call.phase = "settle"
        /\ held[cin] >= paid
        /\ held' = [held EXCEPT ![cin] = @ - paid]
        /\ vault' = [vault EXCEPT ![cin] = @ + paid]
        /\ call' = [call EXCEPT !.phase = "take", !.delta[cin] = @ + paid]
        /\ UNCHANGED <<now, market, orders, book, wallet>>

\* take(currencyOut, order.owner, amountOut), only for a positive amountOut.
TakeTo == order.owner
Take ==
    /\ call.phase = "take"
    /\ IF call.out > 0
       THEN /\ vault' = [vault EXCEPT ![cout] = @ - call.out]
            /\ wallet' = [wallet EXCEPT ![TakeTo][cout] = @ + call.out]
       ELSE UNCHANGED <<vault, wallet>>
    /\ call' = [call EXCEPT !.phase = "close", !.delta[cout] = @ - call.out]
    /\ UNCHANGED <<now, market, orders, book, held>>

\* The end of PoolManager.unlock: it reverts unless every delta is zero.
CloseUnlock ==
    /\ call.phase = "close"
    /\ call.delta = NoDelta
    /\ call' = [call EXCEPT !.phase = "commit"]
    /\ UNCHANGED <<now, market, orders, book, money>>

\* The slippage check and the writes that end the transaction.
Commit ==
    /\ call.phase = "commit"
    /\ call.out >= order.terms.minAmountOut
    /\ orders' = [orders EXCEPT ![call.id].status = "EXECUTED",
                                ![call.id].executedAt = now]
    /\ call' = NoCall
    /\ UNCHANGED <<now, market, book, money>>

\* Any check or callee may revert, until the last statement has run.
Revert ==
    /\ ~ Idle
    /\ market' = call.saved.market
    /\ orders' = call.saved.orders
    /\ wallet' = call.saved.wallet
    /\ held' = call.saved.held
    /\ vault' = call.saved.vault
    /\ call' = NoCall
    /\ UNCHANGED <<now, book>>

Execute ==
    \/ \E id \in Ids : ExecuteExpired(id) \/ ExecuteTriggered(id)
    \/ Pull
    \/ Swap
    \/ Settle
    \/ Take
    \/ CloseUnlock
    \/ Commit
    \/ Revert

Next ==
    \/ World
    \/ \E sender \in Owners, r \in Requests : CreateOrder(sender, r)
    \/ \E sender \in Owners, id \in Ids : CancelOrder(sender, id)
    \/ Execute

Spec == Init /\ [][Next]_vars

-----------------------------------------------------------------------------
\* What everybody else sees: the committed state.  While a call is on the
\* stack that is the state it will fall back to.
Committed == IF Idle THEN Now ELSE call.saved

Atomic == INSTANCE AtomicTpsl WITH
    market  <- Committed.market,
    book    <- Committed.orders,
    purse   <- Committed.wallet,
    reserve <- Committed.vault

Written == Orders \cup [owner : {NoOwner}, status : Statuses]
Calls   == [phase : Phases, id : Ids, delta : [Currencies -> Int], out : Nat,
            saved : State]

TypeOK ==
    /\ now \in Nat \ {0} /\ nextOrderId \in 0 .. MaxOrders
    /\ market \in Markets
    /\ orders \in [Ids -> Written]
    /\ ownerOrders \in [Owners -> Seq(Ids)]
    /\ poolOrders \in [Pools -> Seq(Ids)]
    /\ wallet \in [Owners -> [Currencies -> Nat]]
    /\ held \in [Currencies -> Nat]
    /\ vault \in [Currencies -> Nat]
    /\ call \in Calls \cup {NoCall}

\* How far a call on the stack has moved the state away from the committed one:
\* only the owner of the order and the pool side differ, by what the phases so
\* far have done, and the decision to execute was taken on committed values.
Zero     == [c \in Currencies |-> 0]
target   == call.saved.orders[call.id]
sold     == CurrencyIn(target.terms)
bought   == CurrencyOut(target.terms)
Debited  == [call.saved.wallet EXCEPT ![target.owner][sold] = @ - target.terms.amountIn]
Credited == [Debited EXCEPT ![target.owner][bought] = @ + call.out]
Fed      == [call.saved.vault EXCEPT ![sold] = @ + target.terms.amountIn]
Drained  == [Fed EXCEPT ![bought] = @ - call.out]

FromRest == call.saved.held = Zero /\ target.status = "PENDING"
Expired ==
    /\ orders = [call.saved.orders EXCEPT ![call.id].status = "EXPIRED"]
    /\ wallet = call.saved.wallet /\ held = Zero /\ vault = call.saved.vault
Decided ==
    /\ Exists(target) /\ orders = call.saved.orders
    /\ now <= target.terms.deadline
    /\ call.saved.market.twap # NoTwap
    /\ Breached(target.terms, call.saved.market)
BeforePull == wallet = call.saved.wallet /\ held = Zero /\ vault = call.saved.vault
Covered ==
    /\ call.saved.wallet[target.owner][sold] >= target.terms.amountIn
    /\ call.phase # "swap" => call.out <= call.saved.vault[bought]
BeforeSettle ==
    /\ wallet = Debited /\ vault = call.saved.vault
    /\ held = [Zero EXCEPT ![sold] = target.terms.amountIn]
BeforeTake == wallet = Debited /\ held = Zero /\ vault = Fed
AfterTake  == wallet = Credited /\ held = Zero /\ vault = Drained

CallConsistent ==
    /\ ~ Idle => FromRest
    /\ call.phase = "expired" => Expired
    /\ call.phase \notin {"none", "expired"} => Decided
    /\ call.phase = "pull" => BeforePull
    /\ call.phase \notin {"none", "expired", "pull"} => Covered
    /\ call.phase \in {"swap", "settle"} => BeforeSettle
    /\ call.phase = "take" => BeforeTake
    /\ call.phase \in {"close", "commit"} => AfterTake

\* "this contract holds NO user funds between transactions": whatever the
\* swap consumed and whichever callee failed, the contract is empty again.
NonCustodial == Idle => held = Zero

\* An order that left PENDING keeps the status it got: a cancelled order is
\* never filled (not even one cancelled while its execution is on the stack),
\* a filled one never reopened.  Only a revert takes a status back, with all
\* else the transaction did.
RolledBack   == ~ Idle /\ Now' = call.saved
TerminalStep ==
    \/ RolledBack
    \/ \A id \in Ids : orders[id].status # "PENDING" => orders'[id] = orders[id]
TerminalStatusKept == [][TerminalStep]_vars

\* EXPIRED is written by a call that reverts, so no committed order has it:
\* on chain an order past its deadline stays PENDING.
NeverCommittedExpired ==
    \A id \in Ids : Committed.orders[id].status # "EXPIRED"

\* getOwnerOrders and getPoolOrders list every order once, under its owner and
\* its pool, oldest first, and nothing else.
Listed(ids, Belongs(_)) ==
    /\ {ids[i] : i \in DOMAIN ids} = {id \in 0 .. nextOrderId - 1 : Belongs(id)}
    /\ \A i, j \in DOMAIN ids : i < j => ids[i] < ids[j]
IndexesAgree ==
    LET Owner(id) == Committed.orders[id].owner
        Pool(id)  == Committed.orders[id].terms.pool
    IN  /\ \A o \in Owners : LET B(id) == Owner(id) = o IN Listed(ownerOrders[o], B)
        /\ \A p \in Pools : LET B(id) == Pool(id) = p IN Listed(poolOrders[p], B)

\* A committed execution is one atomic fill at the terms of the order, paid by
\* and paid to its owner alone, decided on the prices the transaction started
\* from; a failed one did not happen.
AtomicSpec == Atomic!Spec
=============================================================================
