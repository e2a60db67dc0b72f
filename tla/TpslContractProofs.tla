------------------------- MODULE TpslContractProofs -------------------------
(***************************************************************************)
(* Proofs about TpslContract for every set of owners, pools and requests   *)
(* and every bound.                                                        *)
(***************************************************************************)
EXTENDS MCTpslContract, WellFoundedInduction, FiniteSetTheorems, TLAPS

\* The committed orders: none EXPIRED, none beyond the id counter.
Rest ==
    /\ Idle => held = Zero /\ orders \in [Ids -> Orders \cup {NoOrder}]
    /\ NeverCommittedExpired
    /\ \A id \in Ids : id >= nextOrderId => Committed.orders[id] = NoOrder

IInv == TypeOK /\ CallConsistent /\ Rest

\* A new order is a pending order of the right type.
LEMMA NewOrderType ==
    ASSUME NEW who \in Owners, NEW r \in Requests
    PROVE  /\ NewOrder(who, r) \in Orders
           /\ NewOrder(who, r).status = "PENDING"
BY TpslAssumption DEF NewOrder, Orders, Statuses

\* The contract is deployed empty, with no call on the stack.
LEMMA InitInv == Init => IInv
<1> SUFFICES ASSUME Init PROVE IInv
    OBVIOUS
<1> USE TpslAssumption DEF Init
<1>1. TypeOK
    BY DEF TypeOK, Markets, NoCall, Written, NoOrder, Currencies, Ids, Statuses
<1>2. CallConsistent
    BY DEF CallConsistent, Idle, NoCall
<1>3. Rest
    BY DEF Rest, Idle, NoCall, Zero, NeverCommittedExpired, Committed, Now, NoOrder
<1> QED BY <1>1, <1>2, <1>3 DEF IInv

\* Blocks and other traders move time and prices only.
LEMMA WorldInv == IInv /\ World => IInv'
<1> SUFFICES ASSUME IInv, World PROVE IInv'
    OBVIOUS
<1> USE DEF IInv, World, book, money
<1>1. TypeOK'
    BY DEF TypeOK, State
<1>2. CallConsistent'
    BY DEF CallConsistent, Idle, NoCall
<1>3. Rest'
    BY DEF Rest, Idle, NeverCommittedExpired, Committed, Now
<1> QED BY <1>1, <1>2, <1>3

\* createOrder fills the next unused id.
LEMMA CreateInv ==
    ASSUME IInv, NEW who \in Owners, NEW r \in Requests, CreateOrder(who, r)
    PROVE  IInv'
<1> USE DEF IInv, CreateOrder, money
<1>0. /\ nextOrderId \in Ids /\ NewOrder(who, r) \in Orders
      /\ NewOrder(who, r).status = "PENDING" /\ r.pool \in Pools
    BY NewOrderType, TpslAssumption DEF TypeOK, Ids, ValidRequest, Terms
<1>1. TypeOK'
  <2>1. orders' \in [Ids -> Written]
    BY <1>0 DEF TypeOK, Written
  <2>2. nextOrderId' \in 0 .. MaxOrders
    BY TpslAssumption DEF TypeOK
  <2>3. ownerOrders' \in [Owners -> Seq(Ids)] /\ poolOrders' \in [Pools -> Seq(Ids)]
    BY <1>0 DEF TypeOK
  <2> QED BY <2>1, <2>2, <2>3 DEF TypeOK
<1>2. CallConsistent'
    BY DEF CallConsistent, Idle, NoCall
<1>3. Rest'
  <2>1. orders' \in [Ids -> Orders \cup {NoOrder}]
    BY <1>0 DEF Rest
  <2>2. \A id \in Ids : orders'[id] = IF id = nextOrderId THEN NewOrder(who, r) ELSE orders[id]
    BY <1>0 DEF TypeOK
  <2> QED BY <1>0, <2>1, <2>2 DEF Rest, Idle, NeverCommittedExpired, Committed, Now, TypeOK, Ids
<1> QED BY <1>1, <1>2, <1>3

\* cancelOrder moves one pending order to CANCELLED.
LEMMA CancelInv ==
    ASSUME IInv, NEW who \in Owners, NEW id \in Ids, CancelOrder(who, id)
    PROVE  IInv'
<1> USE DEF IInv, CancelOrder, money, book
<1>0. orders[id] \in Orders
    BY TpslAssumption DEF Rest, NoOrder
<1>0a. [orders[id] EXCEPT !.status = "CANCELLED"] \in Orders
    BY <1>0 DEF Orders, Statuses
<1>1. TypeOK'
    BY <1>0a DEF TypeOK, Written
<1>2. CallConsistent'
    BY DEF CallConsistent, Idle, NoCall
<1>3. Rest'
  <2>1. orders' \in [Ids -> Orders \cup {NoOrder}]
    BY <1>0a DEF Rest
  <2>2. \A i \in Ids : orders'[i] = IF i = id THEN [orders[id] EXCEPT !.status = "CANCELLED"]
                                    ELSE orders[i]
    BY DEF TypeOK
  <2>3. orders[id] # NoOrder /\ orders'[id].status = "CANCELLED"
    BY <1>0, <2>2, TpslAssumption DEF NoOrder, Orders
  <2> QED BY <2>1, <2>2, <2>3 DEF Rest, Idle, NeverCommittedExpired, Committed, Now
<1> QED BY <1>1, <1>2, <1>3

\* A call that enters executeOrder saves a well-typed state to fall back to.
LEMMA EnterType ==
    ASSUME IInv, Idle, NEW id \in Ids, NEW phase \in Phases
    PROVE  Enter(id, phase) \in Calls
<1>1. Now \in State
    BY DEF IInv, TypeOK, Rest, Now, State
<1>2. NoDelta \in [Currencies -> Int]
    BY DEF NoDelta
<1> QED BY <1>1, <1>2 DEF Enter, Calls

\* The doomed write of EXPIRED stays inside the call that will revert.
LEMMA ExpiredInv ==
    ASSUME IInv, NEW id \in Ids, ExecuteExpired(id)
    PROVE  IInv'
<1> USE DEF IInv, ExecuteExpired, money, book
<1>0. call' \in Calls /\ call'.phase = "expired" /\ call'.id = id /\ call'.saved = Now
    BY EnterType DEF Phases, Enter
<1>1. TypeOK'
  <2>1. [orders[id] EXCEPT !.status = "EXPIRED"] \in Written
    BY DEF TypeOK, Written, Orders, Statuses
  <2> QED BY <1>0, <2>1 DEF TypeOK
<1>2. CallConsistent'
  <2>1. target' = orders[id] /\ call'.saved.orders = orders
    BY <1>0 DEF target, Now
  <2>2. FromRest'
    BY <1>0, <2>1 DEF FromRest, Now, Rest, Zero
  <2>3. Expired'
    <3>1. orders' = [call.saved.orders EXCEPT ![call.id].status = "EXPIRED"]'
      BY <1>0, <2>1, Zenon DEF IInv
    <3>2. (wallet = call.saved.wallet /\ held = Zero /\ vault = call.saved.vault)'
      BY <1>0 DEF Now, Rest, Zero
    <3> QED BY <3>1, <3>2, Zenon DEF Expired
  <2> QED BY <1>0, <2>2, <2>3 DEF CallConsistent
<1>3. Rest'
    BY <1>0 DEF Rest, Idle, NeverCommittedExpired, Committed, Now
<1> QED BY <1>1, <1>2, <1>3

\* executeOrder past its guards has decided on the committed state.
LEMMA TriggeredInv ==
    ASSUME IInv, NEW id \in Ids, ExecuteTriggered(id)
    PROVE  IInv'
<1> USE DEF IInv, ExecuteTriggered, money, book
<1>0. call' \in Calls /\ call'.phase = "pull" /\ call'.id = id /\ call'.saved = Now
    BY EnterType DEF Phases, Enter
<1>1. TypeOK'
    BY <1>0 DEF TypeOK
<1>2. CallConsistent'
  <2>1. Exists(orders[id])
    BY DEF Deadline, TypeOK
  <2>2. now <= orders[id].terms.deadline
    BY <2>1 DEF Deadline
  <2> QED BY <1>0, <2>1, <2>2
       DEF CallConsistent, Idle, Now, Rest, FromRest, Decided, BeforePull, target
<1>3. Rest'
    BY <1>0 DEF Rest, Idle, NeverCommittedExpired, Committed, Now
<1> QED BY <1>1, <1>2, <1>3

\* What every step inside a triggered execution knows of the order it executes.
LEMMA InCall ==
    ASSUME IInv, call.phase \notin {"none", "expired"}
    PROVE  /\ call \in Calls /\ call.id \in Ids /\ call.saved \in State
           /\ target \in Orders /\ Exists(target) /\ target.status = "PENDING"
           /\ target.owner \in Owners
           /\ target.terms.amountIn \in Nat /\ target.terms.minAmountOut \in Nat
           /\ orders = call.saved.orders /\ order = target
           /\ cin = sold /\ cout = bought
           /\ sold \in Currencies /\ bought \in Currencies /\ sold # bought
<1> USE DEF IInv
<1>1. call \in Calls /\ call.id \in Ids /\ call.saved \in State
    BY DEF TypeOK, NoCall, Calls
<1>2. orders = call.saved.orders /\ Exists(target) /\ target.status = "PENDING"
    BY DEF CallConsistent, Decided, FromRest, Idle
<1>3. order = target /\ cin = sold /\ cout = bought
    BY <1>2 DEF order, target, cin, cout, sold, bought
<1>4. target \in Orders
    BY <1>1, <1>2 DEF target, State, Exists
<1>5. target.owner \in Owners /\ target.terms \in Terms
    BY <1>4 DEF Orders
<1>6. target.terms.amountIn \in Nat /\ target.terms.minAmountOut \in Nat
    BY <1>5 DEF Terms
<1>7. sold \in Currencies /\ bought \in Currencies /\ sold # bought
    BY DEF sold, bought, CurrencyIn, CurrencyOut, Currencies
<1> QED BY <1>1, <1>2, <1>3, <1>4, <1>5, <1>6, <1>7

\* A step that only advances the call keeps the order, the snapshot and what
\* was decided on them.
LEMMA SameTarget ==
    ASSUME IInv, call.phase \notin {"none", "expired"},
           call' \in Calls, call'.phase \notin {"none", "expired"},
           call'.id = call.id, call'.saved = call.saved,
           UNCHANGED <<now, orders, nextOrderId>>
    PROVE  /\ target' = target /\ sold' = sold /\ bought' = bought
           /\ FromRest' /\ Decided' /\ Rest'
<1> USE DEF IInv
<1>1. target' = target
    BY DEF target
<1>2. sold' = sold /\ bought' = bought
    BY <1>1 DEF sold, bought
<1>3. FromRest /\ Decided
    BY DEF CallConsistent, Idle
<1>4. FromRest' /\ Decided'
    BY <1>1, <1>3 DEF FromRest, Decided, Zero
<1>5. Rest'
    BY DEF Rest, Idle, NeverCommittedExpired, Committed
<1> QED BY <1>1, <1>2, <1>4, <1>5

\* safeTransferFrom debits the owner by amountIn, and the contract holds it.
LEMMA PullInv == IInv /\ Pull => IInv'
<1> SUFFICES ASSUME IInv, Pull PROVE IInv'
    OBVIOUS
<1> USE DEF Pull, book
<1>1. call.phase \notin {"none", "expired"}
    OBVIOUS
<1>2. /\ call' \in Calls /\ call'.phase = "swap"
      /\ call'.id = call.id /\ call'.saved = call.saved
    BY <1>1, InCall DEF Calls, Phases
<1>3. /\ target' = target /\ sold' = sold /\ bought' = bought
      /\ FromRest' /\ Decided' /\ Rest'
    BY <1>1, <1>2, SameTarget
<1>4. BeforePull
    BY DEF IInv, CallConsistent
<1>5. TypeOK'
  <2>1. wallet' \in [Owners -> [Currencies -> Nat]]
    BY <1>1, InCall DEF IInv, TypeOK
  <2>2. held' \in [Currencies -> Nat]
    BY <1>1, InCall DEF IInv, TypeOK
  <2> QED BY <1>2, <2>1, <2>2 DEF IInv, TypeOK
<1>6. Covered'
    BY <1>1, <1>2, <1>3, <1>4, InCall DEF Covered, BeforePull
<1>7. BeforeSettle'
  <2>1. wallet' = Debited'
    BY <1>1, <1>2, <1>3, <1>4, InCall DEF Debited, BeforePull
  <2>2. held' = [Zero EXCEPT ![sold] = target.terms.amountIn]
    <3>1. held = Zero /\ Zero[sold] = 0
      BY <1>1, <1>4, InCall DEF BeforePull, Zero
    <3>2. held' = [held EXCEPT ![sold] = held[sold] + target.terms.amountIn]
      BY <1>1, InCall
    <3>3. held[sold] + target.terms.amountIn = target.terms.amountIn
      BY <1>1, <3>1, InCall
    <3> QED BY <3>1, <3>2, <3>3
  <2> QED BY <1>2, <1>3, <1>4, <2>1, <2>2 DEF BeforeSettle, BeforePull, Zero
<1>8. CallConsistent'
    BY <1>2, <1>3, <1>6, <1>7 DEF CallConsistent
<1> QED BY <1>3, <1>5, <1>8 DEF IInv

\* The swap records its deltas and moves no token.
LEMMA SwapInv == IInv /\ Swap => IInv'
<1> SUFFICES ASSUME IInv, Swap PROVE IInv'
    OBVIOUS
<1> USE DEF book, money
<1>1. call.phase \notin {"none", "expired"} /\ call.phase = "swap"
    BY DEF Swap
<1>2. PICK consumed \in 0 .. order.terms.amountIn, got \in 0 .. vault[cout] :
        call' = [call EXCEPT !.phase = "settle", !.out = got,
                             !.delta = [NoDelta EXCEPT ![cin] = 0 - consumed, ![cout] = got]]
    BY DEF Swap
<1>3. vault \in [Currencies -> Nat] /\ vault[cout] \in Nat /\ got \in Nat
    BY <1>1, InCall DEF IInv, TypeOK
<1>4. [NoDelta EXCEPT ![cin] = 0 - consumed, ![cout] = got] \in [Currencies -> Int]
    BY <1>1, <1>3, InCall DEF NoDelta
<1>5. /\ call' \in Calls /\ call'.phase = "settle" /\ call'.out = got
      /\ call'.id = call.id /\ call'.saved = call.saved
    BY <1>1, <1>2, <1>3, <1>4, InCall DEF Calls, Phases
<1>6. /\ target' = target /\ sold' = sold /\ bought' = bought
      /\ FromRest' /\ Decided' /\ Rest'
    BY <1>1, <1>5, SameTarget DEF Swap
<1>7. BeforeSettle /\ Covered
    BY <1>1 DEF IInv, CallConsistent
<1>8. TypeOK'
    BY <1>5 DEF IInv, TypeOK, Swap
<1>9. Covered'
    BY <1>1, <1>3, <1>5, <1>6, <1>7, InCall DEF Covered, BeforeSettle
<1>10. BeforeSettle'
  <2>1. Debited' = Debited
    BY <1>5, <1>6 DEF Debited
  <2> QED BY <1>5, <1>6, <1>7, <2>1 DEF BeforeSettle, Zero, Swap
<1>11. CallConsistent'
    BY <1>5, <1>6, <1>9, <1>10 DEF CallConsistent
<1> QED BY <1>6, <1>8, <1>11 DEF IInv

\* settle empties the contract into the pool.
LEMMA SettleInv == IInv /\ Settle => IInv'
<1> SUFFICES ASSUME IInv, Settle PROVE IInv'
    OBVIOUS
<1> USE DEF book, money
<1>1. call.phase \notin {"none", "expired"} /\ call.phase = "settle"
    BY DEF Settle
<1>2. /\ held[sold] >= target.terms.amountIn
      /\ held' = [held EXCEPT ![sold] = @ - target.terms.amountIn]
      /\ vault' = [vault EXCEPT ![sold] = @ + target.terms.amountIn]
      /\ call' = [call EXCEPT !.phase = "take", !.delta[sold] = @ + target.terms.amountIn]
      /\ UNCHANGED <<now, market, orders, book, wallet>>
    BY <1>1, InCall DEF Settle, SettleAmount
<1>3. /\ call' \in Calls /\ call'.phase = "take" /\ call'.out = call.out
      /\ call'.id = call.id /\ call'.saved = call.saved
  <2>1. call.delta \in [Currencies -> Int]
    BY <1>1, InCall DEF Calls
  <2>2. [call.delta EXCEPT ![sold] = @ + target.terms.amountIn] \in [Currencies -> Int]
    BY <1>1, <2>1, InCall
  <2> QED BY <1>1, <1>2, <2>2, InCall DEF Calls, Phases
<1>4. /\ target' = target /\ sold' = sold /\ bought' = bought
      /\ FromRest' /\ Decided' /\ Rest'
    BY <1>1, <1>2, <1>3, SameTarget
<1>5. BeforeSettle /\ Covered
    BY <1>1 DEF IInv, CallConsistent
<1>6. TypeOK'
  <2>1. held' \in [Currencies -> Nat] /\ vault' \in [Currencies -> Nat]
    <3>1. /\ held \in [Currencies -> Nat] /\ vault \in [Currencies -> Nat]
          /\ sold \in Currencies /\ target.terms.amountIn \in Nat
      BY <1>1, InCall DEF IInv, TypeOK
    <3>2. held[sold] - target.terms.amountIn \in Nat /\ vault[sold] + target.terms.amountIn \in Nat
      BY <1>2, <3>1
    <3> HIDE DEF book, money, sold, target
    <3> QED BY <1>2, <3>1, <3>2
  <2>2. UNCHANGED <<now, market, orders, nextOrderId, ownerOrders, poolOrders, wallet>>
    BY <1>2
  <2> QED BY <1>3, <2>1, <2>2 DEF IInv, TypeOK
<1>7. Covered'
    BY <1>1, <1>3, <1>4, <1>5 DEF Covered
<1>8. BeforeTake'
  <2>1. Debited' = Debited /\ Fed' = Fed
    BY <1>3, <1>4 DEF Debited, Fed
  <2>2. held' = Zero
    BY <1>1, <1>2, <1>5, InCall DEF BeforeSettle, Zero
  <2>3. vault' = Fed
    BY <1>2, <1>5 DEF BeforeSettle, Fed
  <2> QED BY <1>2, <1>5, <2>1, <2>2, <2>3 DEF BeforeTake, BeforeSettle, Zero
<1>9. CallConsistent'
    BY <1>3, <1>4, <1>7, <1>8 DEF CallConsistent
<1> QED BY <1>4, <1>6, <1>9 DEF IInv

\* take pays the owner of the order, and nobody else.
LEMMA TakeInv == IInv /\ Take => IInv'
<1> SUFFICES ASSUME IInv, Take PROVE IInv'
    OBVIOUS
<1> USE DEF book, money
<1>1. call.phase \notin {"none", "expired"} /\ call.phase = "take"
    BY DEF Take
<1>2. /\ call' = [call EXCEPT !.phase = "close", !.delta[bought] = @ - call.out]
      /\ UNCHANGED <<now, market, orders, book, held>>
    BY <1>1, InCall DEF Take
<1>3. call.out \in Nat /\ call.out <= call.saved.vault[bought]
    BY <1>1, InCall DEF Calls, IInv, CallConsistent, Covered
<1>4. /\ call' \in Calls /\ call'.phase = "close" /\ call'.out = call.out
      /\ call'.id = call.id /\ call'.saved = call.saved
  <2>1. call.delta \in [Currencies -> Int]
    BY <1>1, InCall DEF Calls
  <2>2. [call.delta EXCEPT ![bought] = @ - call.out] \in [Currencies -> Int]
    BY <1>1, <1>3, <2>1, InCall
  <2> QED BY <1>1, <1>2, <2>2, InCall DEF Calls, Phases
<1>5. /\ target' = target /\ sold' = sold /\ bought' = bought
      /\ FromRest' /\ Decided' /\ Rest'
    BY <1>1, <1>2, <1>4, SameTarget
<1>6. BeforeTake /\ Covered
    BY <1>1 DEF IInv, CallConsistent
<1>7. vault \in [Currencies -> Nat] /\ wallet \in [Owners -> [Currencies -> Nat]]
    BY DEF IInv, TypeOK
<1>8. vault[bought] = call.saved.vault[bought]
    BY <1>1, <1>6, InCall DEF BeforeTake, Fed, State
<1>9. /\ vault' = [vault EXCEPT ![bought] = @ - call.out]
      /\ wallet' = [wallet EXCEPT ![target.owner][bought] = @ + call.out]
  <2>1. CASE call.out > 0
    BY <1>1, <2>1, InCall DEF Take, TakeTo
  <2>2. CASE ~ (call.out > 0)
    <3>1. call.out = 0
      BY <1>3, <2>2
    <3>2. vault' = vault /\ wallet' = wallet
      BY <2>2 DEF Take
    <3> QED BY <1>1, <1>7, <3>1, <3>2, InCall
  <2> QED BY <2>1, <2>2
<1>10. TypeOK'
  <2>1. vault' \in [Currencies -> Nat]
    BY <1>1, <1>3, <1>7, <1>8, <1>9, InCall
  <2>2. wallet' \in [Owners -> [Currencies -> Nat]]
    BY <1>1, <1>3, <1>7, <1>9, InCall
  <2> QED BY <1>2, <1>4, <2>1, <2>2 DEF IInv, TypeOK
<1>11. Covered'
    BY <1>1, <1>4, <1>5, <1>6 DEF Covered
<1>12. AfterTake'
  <2>1. Credited' = Credited /\ Drained' = Drained
    BY <1>4, <1>5 DEF Credited, Debited, Drained, Fed
  <2>2. wallet' = Credited
    BY <1>6, <1>9 DEF BeforeTake, Credited
  <2>3. vault' = Drained
    BY <1>6, <1>9 DEF BeforeTake, Drained
  <2> QED BY <1>2, <1>6, <2>1, <2>2, <2>3 DEF AfterTake, BeforeTake, Zero
<1>13. CallConsistent'
    BY <1>4, <1>5, <1>11, <1>12 DEF CallConsistent
<1> QED BY <1>5, <1>10, <1>13 DEF IInv

\* The end of unlock moves nothing.
LEMMA CloseInv == IInv /\ CloseUnlock => IInv'
<1> SUFFICES ASSUME IInv, CloseUnlock PROVE IInv'
    OBVIOUS
<1> USE DEF CloseUnlock, book, money
<1>1. call.phase \notin {"none", "expired"} /\ call.phase = "close"
    OBVIOUS
<1>2. /\ call' \in Calls /\ call'.phase = "commit" /\ call'.out = call.out
      /\ call'.id = call.id /\ call'.saved = call.saved
    BY <1>1, InCall DEF Calls, Phases
<1>3. /\ target' = target /\ sold' = sold /\ bought' = bought
      /\ FromRest' /\ Decided' /\ Rest'
    BY <1>1, <1>2, SameTarget
<1>4. TypeOK'
    BY <1>2 DEF IInv, TypeOK
<1>5. AfterTake /\ Covered
    BY <1>1 DEF IInv, CallConsistent
<1>6. Covered'
    BY <1>1, <1>2, <1>3, <1>5 DEF Covered
<1>7. Credited' = Credited /\ Drained' = Drained
    BY <1>2, <1>3 DEF Credited, Debited, Drained, Fed
<1>8. AfterTake'
    BY <1>5, <1>7 DEF AfterTake, Zero
<1>9. CallConsistent'
    BY <1>2, <1>3, <1>6, <1>8 DEF CallConsistent
<1> QED BY <1>3, <1>4, <1>9 DEF IInv

\* The last statement commits a fill that the whole call has earned.
LEMMA CommitInv == IInv /\ Commit => IInv'
<1> SUFFICES ASSUME IInv, Commit PROVE IInv'
    OBVIOUS
<1> USE DEF book, money
<1>1. call.phase \notin {"none", "expired"} /\ call.phase = "commit"
    BY DEF Commit
<1> DEFINE filled == [target EXCEPT !.status = "EXECUTED", !.executedAt = now]
<1>2. /\ orders' = [orders EXCEPT ![call.id] = filled]
      /\ call' = NoCall
      /\ UNCHANGED <<now, market, book, money>>
    BY <1>1, InCall DEF Commit, order, target
<1>3. filled \in Orders /\ filled.status = "EXECUTED"
    BY <1>1, InCall DEF Orders, Statuses, IInv, TypeOK
<1>4. orders \in [Ids -> Orders \cup {NoOrder}] /\ call.id \in Ids
    BY <1>1, InCall DEF State
<1>5. Committed.orders = orders
    BY <1>1, InCall DEF Committed, Idle
<1>6. orders' \in [Ids -> Orders \cup {NoOrder}]
    BY <1>2, <1>3, <1>4
<1>7. Committed'.orders = orders'
    BY <1>2 DEF Committed, Idle, NoCall, Now
<1>8. held' = Zero /\ Zero' = Zero
    BY <1>1, <1>2 DEF IInv, CallConsistent, AfterTake, Zero
<1>9. orders[call.id] # NoOrder
    BY <1>1, InCall DEF target, Exists
<1>10. \A id \in Ids : orders'[id] = IF id = call.id THEN filled ELSE orders[id]
    BY <1>2, <1>4
<1>11. Rest'
  <2>1. NeverCommittedExpired'
    BY <1>3, <1>5, <1>7, <1>10 DEF IInv, Rest, NeverCommittedExpired
  <2>2. (\A id \in Ids : id >= nextOrderId => Committed.orders[id] = NoOrder)'
    BY <1>2, <1>4, <1>5, <1>7, <1>9, <1>10 DEF IInv, Rest
  <2> QED BY <1>6, <1>8, <2>1, <2>2 DEF Rest
<1>12. TypeOK'
  <2>1. orders' \in [Ids -> Written]
    BY <1>6 DEF Written, NoOrder, Statuses
  <2> QED BY <1>2, <2>1 DEF IInv, TypeOK
<1>13. CallConsistent'
    BY <1>2 DEF CallConsistent, Idle, NoCall
<1> QED BY <1>11, <1>12, <1>13 DEF IInv

\* A revert brings the committed state back.
LEMMA RevertInv == IInv /\ Revert => IInv'
<1> SUFFICES ASSUME IInv, Revert PROVE IInv'
    OBVIOUS
<1> USE DEF Revert, book
<1>1. call.saved \in State /\ call.saved.held = Zero
    BY DEF IInv, TypeOK, NoCall, Calls, Idle, CallConsistent, FromRest
<1>2. TypeOK'
    BY <1>1 DEF IInv, TypeOK, State, Written, NoOrder, Statuses
<1>3. CallConsistent'
    BY DEF CallConsistent, Idle, NoCall
<1>4. Committed'.orders = Committed.orders
    BY DEF Committed, Idle, NoCall, Now
<1>5. Rest'
    BY <1>1, <1>4 DEF IInv, Rest, NeverCommittedExpired, State, Zero
<1> QED BY <1>2, <1>3, <1>5 DEF IInv

\* Every step preserves the invariant: one lemma per action.
LEMMA NextInv == IInv /\ [Next]_vars => IInv'
<1> SUFFICES ASSUME IInv, [Next]_vars PROVE IInv'
    OBVIOUS
<1>1. CASE World
    BY <1>1, WorldInv
<1>2. ASSUME NEW sender \in Owners, NEW r \in Requests, CreateOrder(sender, r)
      PROVE  IInv'
    BY <1>2, CreateInv
<1>3. ASSUME NEW sender \in Owners, NEW id \in Ids, CancelOrder(sender, id)
      PROVE  IInv'
    BY <1>3, CancelInv
<1>4. ASSUME NEW id \in Ids, ExecuteExpired(id) \/ ExecuteTriggered(id)
      PROVE  IInv'
    BY <1>4, ExpiredInv, TriggeredInv
<1>5. CASE Pull \/ Swap \/ Settle \/ Take \/ CloseUnlock \/ Commit \/ Revert
    BY <1>5, PullInv, SwapInv, SettleInv, TakeInv, CloseInv, CommitInv, RevertInv
<1>6. CASE UNCHANGED vars
    BY <1>6 DEF vars, book, money, IInv, TypeOK, CallConsistent, FromRest, Expired,
       Decided, BeforePull, Covered, BeforeSettle, BeforeTake, AfterTake, Debited,
       Credited, Fed, Drained, sold, bought, target, Zero, Rest, Idle,
       NeverCommittedExpired, Committed, Now
<1> QED BY <1>1, <1>2, <1>3, <1>4, <1>5, <1>6 DEF Next, Execute

\* The inductive invariant holds in every behaviour of the contract.
THEOREM Invariance == Spec => []IInv
<1> QED BY InitInv, NextInv, PTL DEF Spec

\* The variables keep their types, and a call on the stack stays within what
\* its phases account for.
THEOREM TypeCorrect == Spec => [](TypeOK /\ CallConsistent)
<1>1. IInv => TypeOK /\ CallConsistent
    BY DEF IInv
<1> QED BY <1>1, Invariance, PTL

\* Between transactions AetherTPSL holds nothing, for every number of owners
\* and orders and every way a swap or a callee can end.
THEOREM NeverHoldsFunds == Spec => []NonCustodial
<1>1. IInv => NonCustodial
    BY DEF IInv, Rest, NonCustodial
<1> QED BY <1>1, Invariance, PTL

\* The EXPIRED status is unreachable in committed state.
THEOREM ExpiredUnreachable == Spec => []NeverCommittedExpired
<1>1. IInv => NeverCommittedExpired
    BY DEF IInv, Rest
<1> QED BY <1>1, Invariance, PTL

-----------------------------------------------------------------------------
\* A call on the stack is invisible until it commits: entering it, each of its
\* external calls and a revert leave the committed state alone.
LEMMA CallInvisible ==
    ASSUME IInv,
           \/ \E id \in Ids : ExecuteExpired(id) \/ ExecuteTriggered(id)
           \/ Pull \/ Swap \/ Settle \/ Take \/ CloseUnlock \/ Revert
    PROVE  now' = now /\ Committed' = Committed
<1>1. ASSUME NEW id \in Ids, ExecuteExpired(id) \/ ExecuteTriggered(id)
      PROVE  now' = now /\ Committed' = Committed
  <2>1. call'.saved = Now /\ call'.phase # "none" /\ Idle /\ now' = now
    BY <1>1 DEF ExecuteExpired, ExecuteTriggered, Enter
  <2> QED BY <2>1 DEF Committed, Idle
<1>2. CASE Pull \/ Swap \/ Settle \/ Take \/ CloseUnlock
  <2>1. ~ Idle /\ call.phase \notin {"none", "expired"}
    BY <1>2 DEF Pull, Swap, Settle, Take, CloseUnlock, Idle
  <2>2. call \in Calls
    BY <2>1, InCall
  <2>3. call'.saved = call.saved /\ call'.phase # "none" /\ now' = now
    BY <1>2, <2>2 DEF Pull, Swap, Settle, Take, CloseUnlock, Calls
  <2> QED BY <2>1, <2>3 DEF Committed, Idle
<1>3. CASE Revert
  <2>1. call.saved \in State
    BY <1>3 DEF Revert, IInv, TypeOK, Calls, NoCall, Idle
  <2>2. Now' = call.saved
    BY <1>3, <2>1 DEF Revert, Now, State
  <2> QED BY <1>3, <2>2 DEF Revert, Committed, Idle, NoCall
<1> QED BY <1>1, <1>2, <1>3

\* What Commit makes visible is the fill of one pending order.
LEMMA CommitVisible ==
    ASSUME IInv, Commit
    PROVE  /\ Committed = call.saved /\ Committed' = Now' /\ now' = now
           /\ orders' = [call.saved.orders EXCEPT ![call.id].status = "EXECUTED",
                                                  ![call.id].executedAt = now]
           /\ wallet' = Credited /\ vault' = Drained /\ market' \in Markets
<1>1. call.phase \notin {"none", "expired"} /\ call.phase = "commit"
    BY DEF Commit
<1>2. AfterTake
    BY <1>1 DEF IInv, CallConsistent
<1>3. Committed = call.saved /\ Committed' = Now'
    BY <1>1 DEF Committed, Idle, Commit, NoCall
<1>4. wallet' = Credited /\ vault' = Drained /\ market' \in Markets
    BY <1>2 DEF AfterTake, Commit, money, IInv, TypeOK
<1>5. orders = call.saved.orders
    BY <1>1, InCall
<1> QED BY <1>3, <1>4, <1>5 DEF Commit

\* A revert brings back all of what the call has saved.
LEMMA RevertRollsBack == ASSUME IInv, Revert PROVE RolledBack
<1>1. ~ Idle /\ call.saved \in State
    BY DEF Revert, Idle, IInv, TypeOK, NoCall, Calls
<1>2. call.saved = [market |-> call.saved.market, orders |-> call.saved.orders,
                    wallet |-> call.saved.wallet, held |-> call.saved.held,
                    vault |-> call.saved.vault]
    BY <1>1 DEF State
<1> QED BY <1>1, <1>2 DEF Revert, RolledBack, Now

\* No step of a transaction, and none that interleaves with one on the stack,
\* moves an order out of CANCELLED or EXECUTED, but for the revert of the whole.
THEOREM TerminalStatusIsKept == Spec => TerminalStatusKept
<1>1. IInv /\ [Next]_vars => TerminalStep
  <2> SUFFICES ASSUME IInv, [Next]_vars PROVE TerminalStep
    OBVIOUS
  <2>0. orders \in [Ids -> Written]
    BY DEF IInv, TypeOK
  <2>1. CASE orders' = orders
    BY <2>1 DEF TerminalStep
  <2>2. ASSUME NEW sender \in Owners, NEW r \in Requests, CreateOrder(sender, r)
        PROVE  TerminalStep
    <3>1. nextOrderId \in Ids /\ orders[nextOrderId].status = "PENDING"
      BY <2>2, TpslAssumption
         DEF CreateOrder, IInv, TypeOK, Rest, Committed, Idle, Now, Ids, NoOrder
    <3>2. \A id \in Ids \ {nextOrderId} : orders'[id] = orders[id]
      BY <2>0, <2>2 DEF CreateOrder
    <3> QED BY <3>1, <3>2 DEF TerminalStep
  <2>3. ASSUME NEW id \in Ids, orders[id].status = "PENDING",
               \/ \E sender \in Owners : CancelOrder(sender, id)
               \/ ExecuteExpired(id)
        PROVE  TerminalStep
    <3>1. \A i \in Ids \ {id} : orders'[i] = orders[i]
      BY <2>0, <2>3 DEF CancelOrder, ExecuteExpired
    <3> QED BY <2>3, <3>1 DEF TerminalStep
  <2>4. CASE Commit
    <3>1. call.id \in Ids /\ orders[call.id].status = "PENDING"
      BY <2>4, InCall DEF Commit, order
    <3>2. \A i \in Ids \ {call.id} : orders'[i] = orders[i]
      BY <2>0, <2>4 DEF Commit
    <3> QED BY <3>1, <3>2 DEF TerminalStep
  <2>5. CASE Revert
    BY <2>5, RevertRollsBack DEF TerminalStep
  <2>6. CASE World \/ (\E id \in Ids : ExecuteTriggered(id)) \/ Pull \/ Swap \/ Settle
                \/ Take \/ CloseUnlock \/ UNCHANGED vars
    BY <2>1, <2>6 DEF World, ExecuteTriggered, Pull, Swap, Settle, Take, CloseUnlock, vars
  <2> QED BY <2>2, <2>3, <2>4, <2>5, <2>6 DEF Next, Execute, CancelOrder, ExecuteExpired
<1> QED BY <1>1, Invariance, PTL DEF Spec, TerminalStatusKept

-----------------------------------------------------------------------------
\* Every step of the contract, seen in committed state, is a step of AtomicTpsl
\* or no step at all.
LEMMA InitRefines == Init => Atomic!Init
BY DEF Init, Atomic!Init, Committed, Idle, NoCall, Now, NoOrder, Atomic!NoOrder,
   Atomic!Currencies, Currencies, Atomic!Ids, Ids, Atomic!Markets, Markets

\* Time and the market move in AtomicTpsl alike.
LEMMA WorldRefines == IInv /\ World => Atomic!World
BY DEF World, Atomic!World, Committed, Idle, Now, money, Atomic!Markets, Markets

\* createOrder is Place at the next id.
LEMMA CreateRefines ==
    ASSUME IInv, NEW sender \in Owners, NEW r \in Requests, CreateOrder(sender, r)
    PROVE  Atomic!Place(sender, nextOrderId, r) /\ nextOrderId \in Ids
<1>1. Committed = Now /\ Committed' = Now'
    BY DEF CreateOrder, Committed, Idle
<1>2. nextOrderId \in Ids /\ orders[nextOrderId] = NoOrder
    BY <1>1, TpslAssumption DEF CreateOrder, IInv, TypeOK, Rest, Now, Ids
<1> QED BY <1>1, <1>2 DEF CreateOrder, Now, money, Atomic!Place, Atomic!NoOrder, NoOrder,
       Atomic!ValidRequest, ValidRequest, Atomic!NewOrder, NewOrder

\* cancelOrder by the owner is Cancel.
LEMMA CancelRefines ==
    ASSUME IInv, NEW sender \in Owners, NEW id \in Ids, CancelOrder(sender, id)
    PROVE  Atomic!Cancel(id)
<1>1. Committed = Now /\ Committed' = Now'
    BY DEF CancelOrder, Committed, Idle
<1>2. Atomic!Exists(orders[id])
    BY TpslAssumption DEF CancelOrder, Atomic!Exists, Atomic!NoOrder
<1> QED BY <1>1, <1>2 DEF CancelOrder, Now, money, book, Atomic!Cancel

\* The last statement of executeOrder is Fill: what the owner paid and was
\* paid over the whole call happens at that instant.
LEMMA CommitRefines ==
    ASSUME IInv, Commit
    PROVE  Atomic!Fill(call.id) /\ call.id \in Ids
<1>1. call.phase \notin {"none", "expired"} /\ call.phase = "commit"
    BY DEF Commit
<1>2. Decided /\ Covered /\ FromRest
    BY <1>1 DEF IInv, CallConsistent, Idle
<1>3. /\ call.saved.orders[call.id] = target
      /\ Atomic!CurrencyIn(target.terms) = sold
      /\ Atomic!CurrencyOut(target.terms) = bought
    BY DEF target, sold, bought, CurrencyIn, CurrencyOut, Atomic!CurrencyIn,
       Atomic!CurrencyOut
<1>4. /\ Atomic!Exists(target) /\ target.status = "PENDING"
      /\ now <= target.terms.deadline
      /\ call.saved.market.twap # NoTwap
      /\ Atomic!Breached(target.terms, call.saved.market)
    BY <1>2 DEF Decided, FromRest, Exists, NoOrder, Atomic!Exists, Atomic!NoOrder,
       Breached, Atomic!Breached
<1>5. call.saved.wallet[target.owner][sold] >= target.terms.amountIn
    BY <1>2 DEF Covered
<1>6. call.out \in target.terms.minAmountOut .. call.saved.vault[bought]
  <2>1. call.out \in Nat /\ call.out <= call.saved.vault[bought]
    BY <1>1, <1>2, InCall DEF Calls, Covered
  <2>2. call.out >= target.terms.minAmountOut /\ target.terms.minAmountOut \in Nat
    BY <1>1, InCall DEF Commit
  <2>3. call.saved.vault[bought] \in Nat
    BY <1>1, InCall DEF State
  <2> QED BY <2>1, <2>2, <2>3
<1>7. /\ Committed' = Now' /\ now' = now /\ Committed = call.saved
      /\ Committed.orders = call.saved.orders /\ Committed.wallet = call.saved.wallet
      /\ Committed.vault = call.saved.vault /\ Committed.market = call.saved.market
    BY CommitVisible
<1> DEFINE o    == Committed.orders[call.id]
           in   == Atomic!CurrencyIn(o.terms)
           out  == Atomic!CurrencyOut(o.terms)
           paid == [Committed.wallet EXCEPT ![o.owner][in] = @ - o.terms.amountIn]
           fed  == [Committed.vault EXCEPT ![in] = @ + o.terms.amountIn]
<1>8. o = target /\ in = sold /\ out = bought
    BY <1>3, <1>7
<1>9. /\ Atomic!Exists(o) /\ o.status = "PENDING"
      /\ now <= o.terms.deadline
      /\ Committed.market.twap # NoTwap /\ Atomic!Breached(o.terms, Committed.market)
      /\ Committed.wallet[o.owner][in] >= o.terms.amountIn
    BY <1>4, <1>5, <1>7, <1>8, Zenon
<1>10. (Committed.wallet)' = [paid EXCEPT ![o.owner][out] = @ + call.out]
  <2>1. (Committed.wallet)' = Credited
    BY <1>7, CommitVisible DEF Now
  <2>2. paid = Debited
    BY <1>7, <1>8, Zenon DEF Debited
  <2> QED BY <1>8, <2>1, <2>2, Zenon DEF Credited
<1>11. (Committed.vault)' = [fed EXCEPT ![out] = @ - call.out]
  <2>1. (Committed.vault)' = Drained
    BY <1>7, CommitVisible DEF Now
  <2>2. fed = Fed
    BY <1>7, <1>8, Zenon DEF Fed
  <2> QED BY <1>8, <2>1, <2>2, Zenon DEF Drained
<1>12. /\ (Committed.orders)' = [Committed.orders EXCEPT ![call.id].status = "EXECUTED",
                                                       ![call.id].executedAt = now]
       /\ (Committed.market)' \in Atomic!Markets
    BY <1>7, CommitVisible DEF Markets, Atomic!Markets, Now
<1>13. \E n \in o.terms.minAmountOut .. Committed.vault[out] :
          /\ (Committed.wallet)' = [paid EXCEPT ![o.owner][out] = @ + n]
          /\ (Committed.vault)' = [fed EXCEPT ![out] = @ - n]
  <2>1. call.out \in o.terms.minAmountOut .. Committed.vault[out]
    BY <1>6, <1>7, <1>8, Zenon
  <2> HIDE DEF paid, fed, o, out
  <2> QED BY <1>10, <1>11, <2>1, Zenon
<1>14. Atomic!Fill(call.id)
    BY <1>7, <1>9, <1>12, <1>13, Zenon DEF Atomic!Fill
<1>15. call.id \in Ids
    BY <1>1, InCall
<1> QED BY <1>14, <1>15

\* Every step of the contract is a step of AtomicTpsl or leaves it alone.
LEMMA StepRefines == IInv /\ [Next]_vars => [Atomic!Next]_Atomic!vars
<1> SUFFICES ASSUME IInv, [Next]_vars PROVE [Atomic!Next]_Atomic!vars
    OBVIOUS
<1>1. CASE World
    BY <1>1, WorldRefines DEF Atomic!Next
<1>2. ASSUME NEW sender \in Owners, NEW r \in Requests, CreateOrder(sender, r)
      PROVE  Atomic!Next
    BY <1>2, CreateRefines DEF Atomic!Next, Atomic!Ids, Ids
<1>3. ASSUME NEW sender \in Owners, NEW id \in Ids, CancelOrder(sender, id)
      PROVE  Atomic!Next
    BY <1>3, CancelRefines DEF Atomic!Next, Atomic!Ids, Ids
<1>4. CASE Commit
    BY <1>4, CommitRefines DEF Atomic!Next, Atomic!Ids, Ids
<1>5. CASE now' = now /\ Committed' = Committed
    BY <1>5 DEF Atomic!vars
<1>6. CASE UNCHANGED vars
    BY <1>5, <1>6 DEF vars, book, money, Committed, Idle, Now
<1> QED BY <1>1, <1>2, <1>3, <1>4, <1>5, <1>6, CallInvisible DEF Next, Execute

\* The contract with all its external calls, reverts and re-entry points
\* implements the atomic order book.
THEOREM ImplementsAtomicTpsl == Spec => AtomicSpec
<1>1. Spec => Atomic!Init /\ [][Atomic!Next]_Atomic!vars
    BY InitRefines, StepRefines, Invariance, PTL DEF Spec
<1> QED BY <1>1 DEF AtomicSpec, Atomic!Spec

-----------------------------------------------------------------------------
\* A sequence that lists the members of S once each, in increasing order.
Lists(ids, S) ==
    /\ {ids[i] : i \in DOMAIN ids} = S
    /\ \A i, j \in DOMAIN ids : i < j => ids[i] < ids[j]

OwnersIds(o) == {id \in 0 .. nextOrderId - 1 : Committed.orders[id].owner = o}
PoolsIds(p)  == {id \in 0 .. nextOrderId - 1 : Committed.orders[id].terms.pool = p}

\* IndexesAgree in terms of the two sets of ids.
LEMMA IndexesMeaning ==
    /\ IndexesAgree <=> /\ \A o \in Owners : Lists(ownerOrders[o], OwnersIds(o))
                        /\ \A p \in Pools : Lists(poolOrders[p], PoolsIds(p))
    /\ IndexesAgree' <=> /\ \A o \in Owners : Lists(ownerOrders[o]', OwnersIds(o)')
                         /\ \A p \in Pools : Lists(poolOrders[p]', PoolsIds(p)')
<1>1. IndexesAgree <=> /\ \A o \in Owners : Lists(ownerOrders[o], OwnersIds(o))
                       /\ \A p \in Pools : Lists(poolOrders[p], PoolsIds(p))
    BY DEF IndexesAgree, Listed, Lists, OwnersIds, PoolsIds
<1>2. IndexesAgree' <=> /\ \A o \in Owners : Lists(ownerOrders[o]', OwnersIds(o)')
                        /\ \A p \in Pools : Lists(poolOrders[p]', PoolsIds(p)')
    BY DEF IndexesAgree, Listed, Lists, OwnersIds, PoolsIds
<1> QED BY <1>1, <1>2

\* Appending an id above all the listed ones lists that id too.
LEMMA ListsAppend ==
    ASSUME NEW ids \in Seq(Ids), NEW S, NEW n \in Nat, Lists(ids, S),
           \A id \in S : id < n
    PROVE  Lists(Append(ids, n), S \cup {n})
<1>1. /\ Len(ids) \in Nat /\ DOMAIN ids = 1 .. Len(ids)
      /\ Len(Append(ids, n)) = Len(ids) + 1
      /\ DOMAIN Append(ids, n) = 1 .. Len(ids) + 1
      /\ \A i \in 1 .. Len(ids) : Append(ids, n)[i] = ids[i]
      /\ Append(ids, n)[Len(ids) + 1] = n
    BY TpslAssumption DEF Ids
<1>2. {Append(ids, n)[i] : i \in DOMAIN Append(ids, n)} = S \cup {n}
  <2>1. DOMAIN Append(ids, n) = DOMAIN ids \cup {Len(ids) + 1}
    BY <1>1
  <2> QED BY <1>1, <2>1 DEF Lists
<1>3. ASSUME NEW i \in DOMAIN Append(ids, n), NEW j \in DOMAIN Append(ids, n), i < j
      PROVE  Append(ids, n)[i] < Append(ids, n)[j]
  <2>1. i \in DOMAIN ids /\ Append(ids, n)[i] = ids[i] /\ ids[i] \in S
    BY <1>1, <1>3 DEF Lists
  <2>2. CASE j \in DOMAIN ids
    BY <1>1, <1>3, <2>1, <2>2 DEF Lists
  <2>3. CASE j = Len(ids) + 1
    BY <1>1, <2>1, <2>3
  <2> QED BY <1>1, <2>2, <2>3
<1> QED BY <1>2, <1>3 DEF Lists

\* A step that writes neither array, and in no listed order the owner or the
\* terms, leaves the indexes as they were.
LEMMA IndexesKept ==
    ASSUME IndexesAgree, UNCHANGED <<nextOrderId, ownerOrders, poolOrders>>,
           \A id \in 0 .. nextOrderId - 1 :
              /\ Committed'.orders[id].owner = Committed.orders[id].owner
              /\ Committed'.orders[id].terms = Committed.orders[id].terms
    PROVE  IndexesAgree'
<1>1. \A o \in Owners : OwnersIds(o)' = OwnersIds(o)
    BY DEF OwnersIds
<1>2. \A p \in Pools : PoolsIds(p)' = PoolsIds(p)
    BY DEF PoolsIds
<1> QED BY <1>1, <1>2, IndexesMeaning

\* createOrder lists the new id under its owner and its pool, above all others.
LEMMA CreateIndexes ==
    ASSUME IInv, IndexesAgree, NEW who \in Owners, NEW r \in Requests, CreateOrder(who, r)
    PROVE  IndexesAgree'
<1>1. /\ nextOrderId \in Ids /\ nextOrderId \in Nat /\ r.pool \in Pools
      /\ nextOrderId' = nextOrderId + 1
      /\ 0 .. nextOrderId' - 1 = (0 .. nextOrderId - 1) \cup {nextOrderId}
      /\ 0 .. nextOrderId - 1 \subseteq Ids
    BY TpslAssumption DEF IInv, TypeOK, Ids, CreateOrder, ValidRequest, Terms
<1>2. /\ Committed.orders = orders /\ Committed'.orders = orders'
      /\ \A id \in 0 .. nextOrderId - 1 : orders'[id] = orders[id]
      /\ orders'[nextOrderId].owner = who
      /\ orders'[nextOrderId].terms.pool = r.pool
    BY <1>1 DEF CreateOrder, Committed, Idle, Now, IInv, TypeOK, NewOrder
<1>3. ASSUME NEW o \in Owners
      PROVE  Lists(ownerOrders[o]', OwnersIds(o)')
  <2>1. Lists(ownerOrders[o], OwnersIds(o)) /\ ownerOrders[o] \in Seq(Ids)
    BY IndexesMeaning DEF IInv, TypeOK
  <2>2. \A id \in OwnersIds(o) : id < nextOrderId
    BY <1>1 DEF OwnersIds
  <2>3. CASE o = who
    <3>1. OwnersIds(o)' = OwnersIds(o) \cup {nextOrderId}
      BY <1>1, <1>2, <2>3 DEF OwnersIds
    <3>2. ownerOrders[o]' = Append(ownerOrders[o], nextOrderId)
      BY <2>3 DEF CreateOrder, IInv, TypeOK
    <3> QED BY <1>1, <2>1, <2>2, <3>1, <3>2, ListsAppend
  <2>4. CASE o # who
    <3>1. OwnersIds(o)' = OwnersIds(o)
      BY <1>1, <1>2, <2>4 DEF OwnersIds
    <3>2. ownerOrders[o]' = ownerOrders[o]
      BY <2>4 DEF CreateOrder, IInv, TypeOK
    <3> QED BY <2>1, <3>1, <3>2
  <2> QED BY <2>3, <2>4
<1>4. ASSUME NEW p \in Pools
      PROVE  Lists(poolOrders[p]', PoolsIds(p)')
  <2>1. Lists(poolOrders[p], PoolsIds(p)) /\ poolOrders[p] \in Seq(Ids)
    BY IndexesMeaning DEF IInv, TypeOK
  <2>2. \A id \in PoolsIds(p) : id < nextOrderId
    BY <1>1 DEF PoolsIds
  <2>3. CASE p = r.pool
    <3>1. PoolsIds(p)' = PoolsIds(p) \cup {nextOrderId}
      BY <1>1, <1>2, <2>3 DEF PoolsIds
    <3>2. poolOrders[p]' = Append(poolOrders[p], nextOrderId)
      BY <2>3 DEF CreateOrder, IInv, TypeOK
    <3> QED BY <1>1, <2>1, <2>2, <3>1, <3>2, ListsAppend
  <2>4. CASE p # r.pool
    <3>1. PoolsIds(p)' = PoolsIds(p)
      BY <1>1, <1>2, <2>4 DEF PoolsIds
    <3>2. poolOrders[p]' = poolOrders[p]
      BY <2>4 DEF CreateOrder, IInv, TypeOK
    <3> QED BY <2>1, <3>1, <3>2
  <2> QED BY <2>3, <2>4
<1> QED BY <1>3, <1>4, IndexesMeaning

\* No other step disturbs the indexes: cancelOrder and the last statement of
\* executeOrder keep the owner and the terms of the order they write, and the
\* rest of a call is invisible.
LEMMA IndexesNext ==
    ASSUME IInv, IndexesAgree, [Next]_vars
    PROVE  IndexesAgree'
<1>0. nextOrderId \in Nat /\ 0 .. nextOrderId - 1 \subseteq Ids
    BY TpslAssumption DEF IInv, TypeOK, Ids
<1>1. ASSUME NEW who \in Owners, NEW r \in Requests, CreateOrder(who, r)
      PROVE  IndexesAgree'
    BY <1>1, CreateIndexes
<1>2. ASSUME NEW who \in Owners, NEW id \in Ids, CancelOrder(who, id)
      PROVE  IndexesAgree'
  <2>1. orders[id] \in Orders /\ orders \in [Ids -> Written]
    BY <1>2, TpslAssumption DEF CancelOrder, IInv, TypeOK, Rest, NoOrder
  <2>2. /\ orders'[id] = [orders[id] EXCEPT !.status = "CANCELLED"]
        /\ \A i \in Ids \ {id} : orders'[i] = orders[i]
    BY <1>2, <2>1 DEF CancelOrder
  <2>3. orders'[id].owner = orders[id].owner /\ orders'[id].terms = orders[id].terms
    BY <2>1, <2>2 DEF Orders
  <2>4. Committed.orders = orders /\ Committed'.orders = orders'
    BY <1>2 DEF CancelOrder, Committed, Idle, Now
  <2> QED BY <1>0, <1>2, <2>2, <2>3, <2>4, IndexesKept DEF CancelOrder, book
<1>3. CASE Commit
  <2>1. /\ call.id \in Ids /\ call.saved.orders \in [Ids -> Orders \cup {NoOrder}]
        /\ call.saved.orders[call.id] \in Orders
    BY <1>3, InCall DEF Commit, State, target
  <2>2. Committed.orders = call.saved.orders /\ Committed'.orders = orders'
    BY <1>3, CommitVisible DEF Now
  <2>3. \A i \in Ids \ {call.id} : orders'[i] = call.saved.orders[i]
    BY <1>3, <2>1, CommitVisible
  <2>4. /\ orders'[call.id].owner = call.saved.orders[call.id].owner
        /\ orders'[call.id].terms = call.saved.orders[call.id].terms
    BY <1>3, <2>1, CommitVisible DEF Orders
  <2> QED BY <1>0, <1>3, <2>2, <2>3, <2>4, IndexesKept DEF Commit, book
<1>4. CASE \/ \E id \in Ids : ExecuteExpired(id) \/ ExecuteTriggered(id)
           \/ Pull \/ Swap \/ Settle \/ Take \/ CloseUnlock \/ Revert
  <2>1. Committed' = Committed
    BY <1>4, CallInvisible
  <2>2. UNCHANGED book
    BY <1>4 DEF ExecuteExpired, ExecuteTriggered, Pull, Swap, Settle, Take,
       CloseUnlock, Revert
  <2> QED BY <2>1, <2>2, IndexesKept DEF book
<1>5. CASE World \/ UNCHANGED vars
  <2>1. Committed'.orders = Committed.orders
    BY <1>5 DEF World, vars, book, money, Committed, Idle, Now
  <2>2. UNCHANGED book
    BY <1>5 DEF World, vars, book
  <2> QED BY <2>1, <2>2, IndexesKept DEF book
<1> QED BY <1>1, <1>2, <1>3, <1>4, <1>5 DEF Next, Execute

\* getOwnerOrders and getPoolOrders list every order once, oldest first, for
\* every number of owners, pools and orders.
THEOREM IndexesAlwaysAgree == Spec => []IndexesAgree
<1>1. Init => IndexesAgree
  <2> SUFFICES ASSUME Init PROVE IndexesAgree
    OBVIOUS
  <2>1. \A o \in Owners : Lists(ownerOrders[o], OwnersIds(o))
    BY DEF Init, Lists, OwnersIds
  <2>2. \A p \in Pools : Lists(poolOrders[p], PoolsIds(p))
    BY DEF Init, Lists, PoolsIds
  <2> QED BY <2>1, <2>2, IndexesMeaning
<1>2. IInv /\ IndexesAgree /\ [Next]_vars => IndexesAgree'
    BY IndexesNext
<1> QED BY <1>1, <1>2, Invariance, PTL DEF Spec

-----------------------------------------------------------------------------
\* TwapOracle: the ring, its binary search and the average, for every size.
\* A set of naturals that is not empty has a least member.
LEMMA NatLeast == ASSUME NEW T \in SUBSET Nat, T # {} PROVE \E n \in T : \A m \in T : n <= m
  <1>1. PICK x \in T : \A y \in T : ~ (<<y, x>> \in OpToRel(<, Nat))
    BY NatLessThanWellFounded, WFMin
  <1>2. \A y \in T : ~ (y < x)
    BY <1>1 DEF OpToRel
  <1> QED
    BY <1>2

\* Induction without an operator parameter: a set of naturals with 0 and the successors
\* of its members is Nat.
LEMMA SetInduction ==
    ASSUME NEW T \in SUBSET Nat, 0 \in T, \A n \in T : n + 1 \in T
    PROVE  T = Nat
  <1> SUFFICES ASSUME Nat \ T # {} PROVE FALSE
    OBVIOUS
  <1>1. PICK n \in Nat \ T : \A m \in Nat \ T : n <= m
    BY NatLeast
  <1>2. n # 0 /\ n - 1 \in Nat /\ n - 1 \in T /\ n - 1 + 1 = n
    BY <1>1
  <1> QED
    BY <1>1, <1>2

\* Sums from a second backwards.
IsSum(S, max, f, at) ==
    S = [n \in 0 .. max |-> IF n = 0 THEN 0 ELSE S[n - 1] + f[at - n]]

\* Such sums exist: each is the one a second shorter and one more term.
LEMMA SumExists ==
    ASSUME NEW max \in Nat, NEW f, NEW at
    PROVE  \E S : IsSum(S, max, f, at)
  <1> DEFINE T == {m \in Nat : \E S : IsSum(S, m, f, at)}
  <1>1. 0 \in T
    <2> DEFINE S == [n \in 0 .. 0 |-> 0]
    <2>1. IsSum(S, 0, f, at)
      BY DEF IsSum
    <2> QED BY <2>1
  <1>2. ASSUME NEW m \in T PROVE m + 1 \in T
    <2>1. PICK S : IsSum(S, m, f, at)
      OBVIOUS
    <2> DEFINE R == [n \in 0 .. m + 1 |-> IF n <= m THEN S[n] ELSE S[m] + f[at - n]]
    <2>2. R = [n \in 0 .. m + 1 |-> IF n = 0 THEN 0 ELSE R[n - 1] + f[at - n]]
      BY <2>1 DEF IsSum
    <2>3. IsSum(R, m + 1, f, at)
      BY <2>2 DEF IsSum
    <2> HIDE DEF R
    <2> QED BY <2>3
  <1> HIDE DEF T
  <1>3. T = Nat
    BY <1>1, <1>2, SetInduction DEF T
  <1> QED BY <1>3 DEF T

AddsUp(S, max, f, at) ==
    S[0] = 0 /\ \A n \in 0 .. max - 1 : S[n + 1] = S[n] + f[at - (n + 1)]

\* The chosen sum function does what its recursive text says.
LEMMA SumUnfolds ==
    ASSUME NEW max \in Nat, NEW f, NEW at, NEW S,
           S = CHOOSE R : R = [n \in 0 .. max |-> IF n = 0 THEN 0 ELSE R[n - 1] + f[at - n]]
    PROVE  AddsUp(S, max, f, at)
  <1>1. \E R : R = [n \in 0 .. max |-> IF n = 0 THEN 0 ELSE R[n - 1] + f[at - n]]
    <2>1. PICK R : IsSum(R, max, f, at)
      BY SumExists
    <2> QED
      BY <2>1, Zenon DEF IsSum
  <1>2. S = [n \in 0 .. max |-> IF n = 0 THEN 0 ELSE S[n - 1] + f[at - n]]
    BY <1>1, Zenon
  <1> DEFINE F(n) == IF n = 0 THEN 0 ELSE S[n - 1] + f[at - n]
  <1>2a. \A n \in 0 .. max : S[n] = F(n)
    BY <1>2, Zenon
  <1>3. S[0] = 0
    BY <1>2a
  <1>4. ASSUME NEW n \in 0 .. max - 1 PROVE S[n + 1] = S[n] + f[at - (n + 1)]
    <2>1. n + 1 \in 0 .. max /\ n + 1 # 0 /\ n + 1 - 1 = n
      OBVIOUS
    <2>2. S[n + 1] = F(n + 1)
      BY <1>2a, <2>1
    <2> QED BY <2>1, <2>2
  <1> QED BY <1>3, <1>4 DEF AddsUp

\* The seconds of two sums, the one a second behind the other.
LEMMA Back ==
    ASSUME NEW max \in Nat, NEW at \in 0 .. max - 1, NEW n \in Nat, n + 1 <= at
    PROVE  /\ at + 1 - (n + 1 + 1) = at - (n + 1)
           /\ at - (n + 1) \in 0 .. at - 1 /\ at - (n + 1) \in 0 .. max
           /\ at \in 0 .. max /\ n \in 0 .. max - 1 /\ n + 1 \in 0 .. max - 1
  OBVIOUS

\* Two sums over the same values, the one a second behind the other.
AgreeBelow(f, g, at) == \A s \in 0 .. at - 1 : f[s] = g[s]
Shifted(S, R, g, at) == \A n \in 0 .. at : S[n] \in Int /\ R[n + 1] = S[n] + g[at]

\* If the values agree, the later sum has one more term.
LEMMA SumShift ==
    ASSUME NEW max \in Nat, NEW f \in [0 .. max -> Int], NEW g \in [0 .. max -> Int],
           NEW at \in 0 .. max - 1, NEW S, NEW R,
           AddsUp(S, max, f, at), AddsUp(R, max, g, at + 1),
           AgreeBelow(f, g, at)
    PROVE  Shifted(S, R, g, at)
  <1> DEFINE P(n) == S[n] \in Int /\ R[n + 1] = S[n] + g[at]
             T == {n \in Nat : n <= at => P(n)}
  <1>1. P(0)
    <2>1. S[0] = 0 /\ R[0] = 0 /\ R[0 + 1] = R[0] + g[at + 1 - (0 + 1)]
      BY DEF AddsUp
    <2>2. at + 1 - (0 + 1) = at /\ g[at] \in Int
      OBVIOUS
    <2> QED BY <2>1, <2>2
  <1>2. ASSUME NEW n \in Nat, P(n), n + 1 <= at PROVE P(n + 1)
    <2> DEFINE s == at - (n + 1)
    <2>2. /\ at + 1 - (n + 1 + 1) = s /\ s \in 0 .. at - 1 /\ s \in 0 .. max
          /\ at \in 0 .. max /\ n \in 0 .. max - 1 /\ n + 1 \in 0 .. max - 1
      BY <1>2, Back
    <2>3. S[n + 1] = S[n] + f[s] /\ R[n + 1 + 1] = R[n + 1] + g[s]
      BY <2>2 DEF AddsUp
    <2>4. f[s] \in Int /\ g[at] \in Int /\ f[s] = g[s]
      BY <2>2 DEF AgreeBelow
    <2>5. S[n] \in Int /\ R[n + 1] = S[n] + g[at]
      BY <1>2
    <2> HIDE DEF s, P
    <2>6. S[n + 1] \in Int
      BY <2>3, <2>4, <2>5
    <2>7. R[n + 1 + 1] = S[n] + g[at] + f[s]
      BY <2>3, <2>4, <2>5
    <2>8. R[n + 1 + 1] = S[n + 1] + g[at]
      BY <2>3, <2>4, <2>5, <2>7
    <2> QED BY <2>6, <2>8 DEF P
  <1> HIDE DEF P
  <1>3. T = Nat
    <2>1. 0 \in T
      BY <1>1
    <2>2. ASSUME NEW n \in T PROVE n + 1 \in T
      BY <1>2
    <2> HIDE DEF T
    <2> QED BY <2>1, <2>2, SetInduction DEF T
  <1>4. \A n \in 0 .. at : P(n)
    BY <1>3
  <1> QED
    BY <1>4 DEF P, Shifted

-----------------------------------------------------------------------------
\* Going round the ring at most once.
LEMMA Around ==
    ASSUME Size \in Nat \ {0}, NEW i \in Nat, i < 2 * Size
    PROVE  i % Size = IF i < Size THEN i ELSE i - Size
  <1>1. CASE i < Size
    BY <1>1
  <1>2. CASE i >= Size
    <2> DEFINE q == i \div Size
    <2>1. q \in Int /\ i % Size \in 0 .. Size - 1 /\ i = Size * q + (i % Size)
      OBVIOUS
    <2>2. q = 1
      <3>1. q > 0
        BY <1>2, <2>1
      <3>2. q < 2
        BY <2>1
      <3> QED BY <2>1, <3>1, <3>2
    <2> QED BY <1>2, <2>1, <2>2
  <1> QED BY <1>1, <1>2

\* The slots that the ring's arithmetic names.
LEMMA AroundSlots ==
    ASSUME Size \in Nat \ {0}, NEW a \in 0 .. Size - 1, NEW k \in 0 .. Size - 1
    PROVE  /\ (0 + k) % Size = k
           /\ (a + 1) % Size = IF a + 1 < Size THEN a + 1 ELSE 0
           /\ (a + 1 + k) % Size = IF a + 1 + k < Size THEN a + 1 + k ELSE a + 1 + k - Size
  <1>1. k \in Nat /\ k < 2 * Size /\ 0 + k = k
    OBVIOUS
  <1>2. a + 1 \in Nat /\ a + 1 < 2 * Size
    OBVIOUS
  <1>3. a + 1 + k \in Nat /\ a + 1 + k < 2 * Size
    OBVIOUS
  <1>4. k % Size = k
    BY <1>1, Around
  <1>5. (a + 1) % Size = IF a + 1 < Size THEN a + 1 ELSE a + 1 - Size
    BY <1>2, Around
  <1>6. (a + 1 + k) % Size = IF a + 1 + k < Size THEN a + 1 + k ELSE a + 1 + k - Size
    BY <1>3, Around
  <1> QED BY <1>1, <1>4, <1>5, <1>6

\* While the ring fills, the slots are used in turn.
RingFills == /\ count > 0 /\ count < Size => index = count - 1
             /\ count = 0 => index = 0

\* The slot of the k-th oldest of n observations, the newest of them at i.
SlotAt(n, i, k) == IF n < Size THEN k ELSE IF i + 1 + k < Size THEN i + 1 + k ELSE i + 1 + k - Size
SlotOf(k) == SlotAt(count, index, k)

\* The slot of the k-th oldest observation, as At computes it.
LEMMA RingSlot ==
    ASSUME Size \in Nat \ {0}, NEW n \in 0 .. Size, NEW i \in 0 .. Size - 1, NEW k \in 0 .. n - 1
    PROVE  /\ ((IF n < Size THEN 0 ELSE (i + 1) % Size) + k) % Size = SlotAt(n, i, k)
           /\ SlotAt(n, i, k) \in 0 .. Size - 1
  <1>1. k \in 0 .. Size - 1
    OBVIOUS
  <1>2. CASE n < Size
    BY <1>1, <1>2, AroundSlots DEF SlotAt
  <1>3. CASE n = Size /\ i + 1 < Size
    <2>1. (i + 1) % Size = i + 1
      BY <1>1, <1>3, AroundSlots
    <2>2. (i + 1 + k) % Size = IF i + 1 + k < Size THEN i + 1 + k ELSE i + 1 + k - Size
      BY <1>1, AroundSlots
    <2>3. SlotAt(n, i, k) = IF i + 1 + k < Size THEN i + 1 + k ELSE i + 1 + k - Size
      BY <1>3 DEF SlotAt
    <2>4. SlotAt(n, i, k) \in 0 .. Size - 1
      BY <1>1, <2>3
    <2> QED BY <1>3, <2>1, <2>2, <2>3, <2>4
  <1>4. CASE n = Size /\ i + 1 = Size
    <2>1. (i + 1) % Size = 0 /\ (0 + k) % Size = k
      BY <1>1, <1>4, AroundSlots
    <2>2. SlotAt(n, i, k) = k
      BY <1>1, <1>4 DEF SlotAt
    <2> QED BY <1>1, <1>4, <2>1, <2>2
  <1> QED BY <1>2, <1>3, <1>4

\* At reads that slot.
LEMMA RingView ==
    ASSUME OracleConstants, TW!TypeOK, NEW k \in 0 .. count - 1
    PROVE  SlotOf(k) \in TW!Slots /\ TW!At(k) = obs[SlotOf(k)]
  <1>1. count \in 0 .. Size /\ index \in 0 .. Size - 1 /\ Size \in Nat \ {0}
    BY DEF OracleConstants, TW!TypeOK, TW!Slots
  <1> QED
    BY <1>1, RingSlot DEF TW!At, TW!OldestIndex, SlotOf, TW!Slots

\* The same after a step.
LEMMA RingViewNext ==
    ASSUME OracleConstants, TW!TypeOK', NEW k \in 0 .. count' - 1
    PROVE  SlotOf(k)' \in TW!Slots /\ TW!At(k)' = obs'[SlotOf(k)']
  <1>1. count' \in 0 .. Size /\ index' \in 0 .. Size - 1 /\ Size \in Nat \ {0}
    BY DEF OracleConstants, TW!TypeOK, TW!Slots
  <1> QED
    BY <1>1, RingSlot DEF TW!At, TW!OldestIndex, SlotOf, TW!Slots

\* The newest observation is the last one.
LEMMA NewestLast ==
    ASSUME OracleConstants, TW!TypeOK, RingFills, count > 0
    PROVE  TW!At(count - 1) = TW!Newest /\ SlotOf(count - 1) = index
  <1>1. count - 1 \in 0 .. count - 1 /\ SlotOf(count - 1) = index
    BY DEF OracleConstants, TW!TypeOK, TW!Slots, RingFills, SlotOf, SlotAt
  <1> QED BY <1>1, RingView DEF TW!Newest

-----------------------------------------------------------------------------
\* One sample, seen from the oldest observation: gone observations leave the
\* ring, the rest keep their order, and sample is the newest.
Appended(sample, gone) ==
    /\ count' = count + 1 - gone /\ gone \in {0, 1} /\ gone <= count
    /\ gone = 1 => count = Size
    /\ \A k \in 0 .. count - gone - 1 : TW!At(k)' = TW!At(k + gone)
    /\ TW!At(count - 1)' = sample

\* A sample in the block of the newest observation.
Retold(sample) ==
    /\ count' = count /\ count > 0
    /\ \A k \in 0 .. count - 2 : TW!At(k)' = TW!At(k)
    /\ TW!At(count - 1)' = sample

\* The first sample.
LEMMA SampleFirst ==
    ASSUME OracleConstants, TW!TypeOK, RingFills, TW!TypeOK', RingFills', NEW sample,
           count = 0, obs' = [obs EXCEPT ![0] = sample], index' = 0, count' = 1
    PROVE  Appended(sample, 0)
  <1>1. 0 \in 0 .. count' - 1 /\ 0 \in TW!Slots /\ SlotOf(0)' = 0
    BY DEF OracleConstants, TW!Slots, SlotOf, SlotAt
  <1>2. TW!At(0)' = obs'[0] /\ count' - 1 = 0
    BY <1>1, RingViewNext
  <1>3. obs'[0] = sample
    BY <1>1 DEF TW!TypeOK
  <1>4. \A k \in 0 .. count - 0 - 1 : FALSE
    OBVIOUS
  <1>5. count' = count + 1 - 0 /\ 0 <= count
    OBVIOUS
  <1>6. TW!At(count - 1)' = TW!At(0)'
    BY <1>2
  <1> QED BY <1>2, <1>3, <1>4, <1>5, <1>6 DEF Appended

\* A sample in a later block takes the next slot, the oldest one if the ring is full.
LEMMA SampleNext ==
    ASSUME OracleConstants, TW!TypeOK, RingFills, TW!TypeOK', RingFills', NEW sample,
           count > 0, obs' = [obs EXCEPT ![TW!NextIndex] = sample], index' = TW!NextIndex,
           count' = IF count < Size THEN count + 1 ELSE count
    PROVE  Appended(sample, IF count < Size THEN 0 ELSE 1)
  <1>0. count \in 0 .. Size /\ index \in 0 .. Size - 1 /\ Size \in Nat \ {0} /\ Size >= 2
    BY DEF OracleConstants, TW!TypeOK, TW!Slots
  <1>1. index' = IF index + 1 < Size THEN index + 1 ELSE 0
    BY <1>0, AroundSlots DEF TW!NextIndex
  <1>2. \A s \in TW!Slots : obs'[s] = IF s = index' THEN sample ELSE obs[s]
    BY DEF TW!TypeOK
  <1>3. CASE count < Size
    <2>1. ASSUME NEW k \in 0 .. count - 1 PROVE TW!At(k)' = TW!At(k)
      <3>1. SlotOf(k)' = k /\ SlotOf(k) = k /\ k # index' /\ k \in 0 .. count' - 1 /\ k \in TW!Slots
        BY <1>0, <1>1, <1>3 DEF SlotOf, SlotAt, RingFills, TW!Slots
      <3> QED BY <1>2, <3>1, RingView, RingViewNext
    <2>2. TW!At(count - 1)' = sample
      <3>1. index' \in TW!Slots /\ SlotOf(count - 1)' = index'
        <4>1. CASE count + 1 < Size
          BY <1>0, <1>1, <1>3, <4>1 DEF SlotOf, SlotAt, RingFills, TW!Slots
        <4>2. CASE count + 1 = Size
          BY <1>0, <1>1, <1>3, <4>2 DEF SlotOf, SlotAt, RingFills, TW!Slots
        <4> QED BY <1>0, <1>3, <4>1, <4>2
      <3>2. (count - 1)' \in 0 .. count' - 1
        BY <1>0, <1>3
      <3>3. TW!At(count - 1)' = obs'[SlotOf(count - 1)']
        BY <3>2, RingViewNext
      <3> QED BY <1>2, <3>1, <3>3
    <2> QED BY <1>0, <1>3, <2>1, <2>2 DEF Appended
  <1>4. CASE count = Size
    <2>1. ASSUME NEW k \in 0 .. count - 2 PROVE TW!At(k)' = TW!At(k + 1)
      <3>1. /\ SlotOf(k)' = SlotOf(k + 1) /\ SlotOf(k)' # index'
            /\ k \in 0 .. count' - 1 /\ k + 1 \in 0 .. count - 1
        BY <1>0, <1>1, <1>4 DEF SlotOf, SlotAt
      <3>2. TW!At(k)' = obs'[SlotOf(k)'] /\ SlotOf(k)' \in TW!Slots
        BY <3>1, RingViewNext
      <3>3. TW!At(k + 1) = obs[SlotOf(k + 1)]
        BY <3>1, RingView
      <3> QED BY <1>2, <3>1, <3>2, <3>3 DEF TW!Slots
    <2>2. TW!At(count - 1)' = sample
      <3>1. SlotOf(count - 1)' = index' /\ index' \in TW!Slots
        BY <1>0, <1>1, <1>4 DEF SlotOf, SlotAt, TW!Slots
      <3>2. (count - 1)' \in 0 .. count' - 1
        BY <1>0, <1>4
      <3>3. TW!At(count - 1)' = obs'[SlotOf(count - 1)']
        BY <3>2, RingViewNext
      <3> QED BY <1>2, <3>1, <3>3
    <2> QED BY <1>0, <1>4, <2>1, <2>2 DEF Appended
  <1> QED BY <1>0, <1>3, <1>4

\* A sample in the block of the newest one keeps its slot.
LEMMA SampleAgain ==
    ASSUME OracleConstants, TW!TypeOK, RingFills, TW!TypeOK', RingFills', NEW sample,
           count > 0, obs' = [obs EXCEPT ![index] = sample], UNCHANGED <<index, count>>
    PROVE  Retold(sample)
  <1>0. count \in 0 .. Size /\ index \in 0 .. Size - 1 /\ Size \in Nat \ {0} /\ Size >= 2
    BY DEF OracleConstants, TW!TypeOK, TW!Slots
  <1>2. \A s \in TW!Slots : obs'[s] = IF s = index THEN sample ELSE obs[s]
    BY DEF TW!TypeOK
  <1>3. ASSUME NEW k \in 0 .. count - 1
        PROVE  TW!At(k)' = obs'[SlotOf(k)] /\ TW!At(k) = obs[SlotOf(k)] /\ SlotOf(k) \in TW!Slots
    <2>1. SlotOf(k)' = SlotOf(k) /\ k \in 0 .. count' - 1
      BY DEF SlotOf, SlotAt
    <2> QED BY <2>1, RingView, RingViewNext
  <1>4. ASSUME NEW k \in 0 .. count - 2 PROVE TW!At(k)' = TW!At(k)
    <2>1. SlotOf(k) # index /\ k \in 0 .. count - 1
      BY <1>0 DEF SlotOf, SlotAt, RingFills
    <2> QED BY <1>2, <1>3, <2>1
  <1>5. TW!At(count - 1)' = sample
    <2>1. count - 1 \in 0 .. count - 1 /\ SlotOf(count - 1) = index
      BY <1>0, NewestLast
    <2> QED BY <1>2, <1>3, <2>1
  <1> QED BY <1>0, <1>4, <1>5 DEF Retold

\* The slot of the last observation.
LEMMA LastSlot ==
    ASSUME Size \in Nat \ {0}, NEW n \in 0 .. Size, n > 0, NEW i \in 0 .. Size - 1, n < Size => i = n - 1
    PROVE  n - 1 \in 0 .. n - 1 /\ SlotAt(n, i, n - 1) = i
  BY DEF SlotAt

\* The newest observation is the last one after a step too.
LEMMA NewestLastNext ==
    ASSUME OracleConstants, TW!TypeOK', RingFills', count' > 0
    PROVE  TW!At(count - 1)' = TW!Newest'
  <1>0. count' \in 0 .. Size /\ index' \in 0 .. Size - 1 /\ Size \in Nat \ {0}
    BY DEF OracleConstants, TW!TypeOK, TW!Slots
  <1>1. count' < Size => index' = count' - 1
    BY DEF RingFills
  <1>2. count' - 1 \in 0 .. count' - 1 /\ SlotAt(count', index', count' - 1) = index'
    BY <1>0, <1>1, LastSlot
  <1>3. SlotOf(count - 1)' = index'
    BY <1>2 DEF SlotOf
  <1> QED BY <1>2, <1>3, RingViewNext DEF TW!Newest

\* What an observation says of later seconds.
Observations == [timestamp : 0 .. LastSecond, tickCumulative : Int, tick : Int]

\* A sum extended by a second grows by the tick; at its own timestamp it is the stored sum.
LEMMA ExtendFacts ==
    ASSUME NEW o, o \in Observations, LastSecond \in Nat, NEW s \in Int
    PROVE  /\ TW!Extend(o, s) \in Int /\ o.timestamp \in Nat
           /\ TW!Extend(o, s + 1) = TW!Extend(o, s) + o.tick
           /\ TW!Extend(o, o.timestamp) = o.tickCumulative
  <1>1. o.tickCumulative \in Int /\ o.tick \in Int /\ o.timestamp \in Nat
    BY DEF Observations
  <1>2. \A a, b, d \in Int : a + b * (d + 1) = a + b * d + b
    OBVIOUS
  <1>3. s - o.timestamp \in Int /\ s + 1 - o.timestamp = s - o.timestamp + 1 /\ o.timestamp - o.timestamp = 0
    BY <1>1
  <1>4. TW!Extend(o, s + 1) = TW!Extend(o, s) + o.tick
    <2> DEFINE a == o.tickCumulative
               b == o.tick
               d == s - o.timestamp
    <2>1. a \in Int /\ b \in Int /\ d \in Int
      BY <1>1, <1>3
    <2>2. TW!Extend(o, s + 1) = a + b * (d + 1) /\ TW!Extend(o, s) = a + b * d
      BY <1>1, <1>3 DEF TW!Extend
    <2> HIDE DEF a, b, d
    <2>3. a + b * (d + 1) = a + b * d + b
      BY <1>2, <2>1
    <2> QED BY <2>2, <2>3 DEF b
  <1>5. TW!Extend(o, s) \in Int
    BY <1>1, <1>3 DEF TW!Extend
  <1>6. TW!Extend(o, o.timestamp) = o.tickCumulative
    BY <1>1, <1>3 DEF TW!Extend
  <1> QED BY <1>1, <1>4, <1>5, <1>6

\* What the ring holds are observations.
LEMMA ObservationsTyped ==
    ASSUME OracleConstants, TW!TypeOK, NEW k \in 0 .. count - 1
    PROVE  TW!At(k) \in Observations
  BY RingView DEF TW!TypeOK, Observations, TW!Times

\* From second s on, while the k-th observation is the latest, the two sums
\* differ by the sum over the window from s to now.
Until(k)    == IF k + 1 < count THEN TW!At(k + 1).timestamp ELSE time
Since(k, s) == TW!Extend(TW!Newest, time) - TW!Extend(TW!At(k), s) = TW!WindowSum[time - s]
SumsAgree   ==
    \A k \in 0 .. count - 1 : \A s \in Nat :
        TW!At(k).timestamp <= s /\ s <= Until(k) => Since(k, s)

\* What was traded is in the ring, or the ring is full of later trades.
Recorded(s) == (\E k \in 0 .. count - 1 : s = TW!At(k).timestamp) \/ (count = Size /\ s < TW!At(0).timestamp)
Remembers ==
    /\ \A s \in traded : s <= time /\ Recorded(s)
    /\ \A k \in 0 .. count - 1 : TW!At(k).timestamp \in traded

OracleInv ==
    /\ TW!TypeOK /\ RingFills /\ TW!RingOrdered
    /\ count > 0 => sampled = TW!Newest.tick
    /\ SumsAgree /\ Remembers

\* The sums of TwapOracle are sums from a second backwards.
LEMMA WindowSums ==
    ASSUME LastSecond \in Nat
    PROVE  AddsUp(TW!WindowSum, LastSecond, trace, time)
  BY SumUnfolds, Zenon DEF TW!WindowSum, TW!Times

\* The same after a step.
LEMMA WindowSumsNext ==
    ASSUME LastSecond \in Nat
    PROVE  AddsUp(TW!WindowSum', LastSecond, trace', time')
  BY SumUnfolds, Zenon DEF TW!WindowSum, TW!Times

\* A second passes.
LEMMA TickSums ==
    ASSUME OracleConstants, TW!TypeOK, TW!Tick
    PROVE  \A n \in 0 .. time : /\ TW!WindowSum[n] \in Int
                              /\ TW!WindowSum'[n + 1] = TW!WindowSum[n] + sampled
  <1>1. /\ trace \in [0 .. LastSecond -> Int] /\ time \in 0 .. LastSecond - 1
        /\ trace' = [trace EXCEPT ![time] = sampled] /\ sampled \in Int /\ time' = time + 1
        /\ LastSecond \in Nat
    <2>1. Ticks \cup {TW!NoTick} \subseteq Int
      BY DEF OracleConstants, TW!NoTick
    <2>2. trace \in [0 .. LastSecond -> Int] /\ sampled \in Int
      BY <2>1 DEF TW!TypeOK, TW!Times
    <2>3. time \in 0 .. LastSecond - 1
      BY DEF OracleConstants, TW!TypeOK, TW!Times, TW!Tick
    <2> QED BY <2>2, <2>3 DEF TW!Tick, OracleConstants
  <1>2. trace' \in [0 .. LastSecond -> Int] /\ trace'[time] = sampled
        /\ \A s \in 0 .. time - 1 : trace[s] = trace'[s]
    BY <1>1
  <1>3. AddsUp(TW!WindowSum, LastSecond, trace, time) /\ AddsUp(TW!WindowSum', LastSecond, trace', time + 1)
    BY <1>1, WindowSums, WindowSumsNext
  <1>4. ASSUME NEW old, NEW new, NEW second, NEW A, NEW B,
               old = trace, new = trace', second = time, A = TW!WindowSum, B = TW!WindowSum'
        PROVE  Shifted(A, B, new, second)
    <2>1. /\ old \in [0 .. LastSecond -> Int] /\ new \in [0 .. LastSecond -> Int]
          /\ second \in 0 .. LastSecond - 1
          /\ AgreeBelow(old, new, second)
      BY <1>1, <1>2, <1>4 DEF AgreeBelow
    <2>2. AddsUp(A, LastSecond, old, second) /\ AddsUp(B, LastSecond, new, second + 1)
      BY <1>3, <1>4
    <2> QED BY <1>1, <2>1, <2>2, SumShift
  <1>5. Shifted(TW!WindowSum, TW!WindowSum', trace', time)
    BY <1>4
  <1> QED BY <1>2, <1>5 DEF Shifted

\* A second that passes keeps the ring, its order and the agreement of the sums.
LEMMA TickKeepsInv ==
    ASSUME OracleConstants, OracleInv, TW!Tick, TW!TypeOK'
    PROVE  OracleInv'
  <1>1. /\ time \in Nat /\ time' = time + 1 /\ count \in Nat /\ LastSecond \in Nat
        /\ UNCHANGED <<obs, index, count, traded, sampled>>
    BY DEF OracleInv, OracleConstants, TW!TypeOK, TW!Times, TW!Tick
  <1>2. \A k : TW!At(k)' = TW!At(k)
    BY <1>1 DEF TW!At, TW!OldestIndex
  <1>3. TW!Newest' = TW!Newest
    BY <1>1 DEF TW!Newest
  <1>4. RingFills' /\ (count > 0 => sampled = TW!Newest.tick)'
    BY <1>1, <1>3 DEF OracleInv, RingFills
  <1>5. \A k \in 0 .. count - 1 : TW!At(k).timestamp \in Nat
    BY ObservationsTyped DEF OracleInv, Observations, OracleConstants
  <1>6. TW!RingOrdered'
    <2>1. (\A j, k \in 0 .. count - 1 : j < k => TW!At(j).timestamp < TW!At(k).timestamp)'
      BY <1>1, <1>2 DEF OracleInv, TW!RingOrdered
    <2>2. ASSUME count > 0
          PROVE  TW!At(count - 1)' = TW!Newest' /\ TW!Newest'.timestamp <= time'
      <3>1. TW!At(count - 1) = TW!Newest /\ TW!Newest.timestamp <= time
        BY <2>2 DEF OracleInv, TW!RingOrdered
      <3>2. TW!At(count - 1).timestamp \in Nat
        BY <1>1, <1>5, <2>2
      <3>3. TW!At(count - 1)' = TW!At(count - 1)
        BY <1>1 DEF TW!At, TW!OldestIndex
      <3> QED BY <1>1, <1>3, <3>1, <3>2, <3>3
    <2>3. (count > 0 => TW!At(count - 1) = TW!Newest /\ TW!Newest.timestamp <= time)'
      BY <1>1, <2>2
    <2> QED BY <2>1, <2>3 DEF TW!RingOrdered
  <1>7. Remembers'
    BY <1>1, <1>2 DEF OracleInv, Remembers, Recorded, TW!TypeOK, TW!Times
  <1>8. ASSUME NEW k \in 0 .. count - 1, NEW s \in Nat,
               TW!At(k).timestamp <= s, s <= Until(k)'
        PROVE  Since(k, s)'
    <2> DEFINE new == TW!Newest
    <2>0. count > 0 /\ new = TW!At(count - 1) /\ count - 1 \in 0 .. count - 1
      BY <1>1 DEF OracleInv, TW!RingOrdered
    <2>1. new \in Observations /\ TW!At(k) \in Observations /\ sampled = new.tick /\ new.tick \in Int
      BY <2>0, ObservationsTyped DEF OracleInv, Observations
    <2>2. /\ TW!Extend(new, time + 1) = TW!Extend(new, time) + sampled
          /\ TW!Extend(new, time) \in Int /\ TW!Extend(new, time + 1) \in Int
          /\ TW!Extend(TW!At(k), s) \in Int
      BY <1>1, <2>1, ExtendFacts
    <2>3. CASE s <= Until(k) /\ s <= time
      <3>1. Since(k, s)
        BY <1>8, <2>3 DEF OracleInv, SumsAgree
      <3>2. time - s \in 0 .. time /\ time' - s = (time - s) + 1
        BY <1>1, <2>3
      <3>3. TW!WindowSum[time - s] \in Int /\ TW!WindowSum'[time' - s] = TW!WindowSum[time - s] + sampled
        BY <3>2, TickSums DEF OracleInv
      <3>4. TW!Extend(new, time) - TW!Extend(TW!At(k), s) = TW!WindowSum[time - s]
        BY <3>1 DEF Since
      <3> HIDE DEF new
      <3>5. TW!Extend(new, time + 1) - TW!Extend(TW!At(k), s) = TW!WindowSum'[time' - s]
        BY <2>1, <2>2, <3>3, <3>4
      <3> QED BY <1>1, <1>2, <1>3, <3>5 DEF Since, TW!Extend, new
    <2>4. CASE ~(s <= Until(k) /\ s <= time)
      <3>1. k = count - 1 /\ s = time + 1
        <4>1. CASE k + 1 < count
          <5>1. k + 1 \in 0 .. count - 1 /\ k + 1 <= count - 1
            BY <4>1, <1>1
          <5>2. TW!At(k + 1).timestamp <= TW!Newest.timestamp /\ TW!Newest.timestamp <= time
            <6>1. TW!At(k + 1).timestamp \in Nat /\ TW!At(count - 1).timestamp \in Nat
              BY <1>5, <2>0, <5>1
            <6> QED BY <2>0, <5>1, <6>1 DEF OracleInv, TW!RingOrdered
          <5>3. Until(k)' = TW!At(k + 1).timestamp /\ Until(k) = TW!At(k + 1).timestamp
            BY <1>1, <1>2, <4>1 DEF Until
          <5>4. TW!At(k + 1).timestamp \in Nat /\ TW!Newest.timestamp \in Nat
            BY <1>5, <2>0, <5>1
          <5> QED BY <1>1, <1>8, <2>4, <5>2, <5>3, <5>4
        <4>2. CASE ~(k + 1 < count)
          BY <1>1, <1>8, <2>4, <4>2 DEF Until
        <4> QED BY <4>1, <4>2
      <3>2. TW!WindowSum'[0] = 0 /\ time' - s = 0
        BY <1>1, <3>1, WindowSumsNext DEF AddsUp
      <3>3. TW!Extend(new, time') - TW!Extend(TW!At(k), s) = 0
        BY <1>1, <2>0, <2>2, <3>1
      <3> QED BY <1>2, <1>3, <3>2, <3>3 DEF Since, TW!Extend
    <2> QED BY <2>3, <2>4
  <1>9. SumsAgree'
    BY <1>1, <1>2, <1>8 DEF SumsAgree
  <1> QED BY <1>4, <1>6, <1>7, <1>9 DEF OracleInv

\* What the ring holds after a step are observations.
LEMMA ObservationsTypedNext ==
    ASSUME OracleConstants, TW!TypeOK', NEW k \in 0 .. count' - 1
    PROVE  TW!At(k)' \in Observations
  BY RingViewNext DEF TW!TypeOK, Observations, TW!Times

\* What a sample is: of now, with the sum so far.
SampleOfNow(sample) ==
    /\ sample \in Observations /\ sample.timestamp = time
    /\ count > 0 => sample.tickCumulative = TW!Extend(TW!Newest, time)

Traded(tick) == /\ UNCHANGED <<time, trace>> /\ traded' = traded \cup {time} /\ sampled' = tick

\* The number of observations, n before a sample and m after it.
LEMMA AppendNumbers ==
    ASSUME Size \in Nat, Size >= 2, NEW n \in 0 .. Size, NEW m \in 0 .. Size, NEW gone \in {0, 1},
           m = n + 1 - gone, gone <= n, gone = 1 => n = Size
    PROVE  /\ m > 0 /\ m - 1 \in 0 .. m - 1 /\ m - 1 = n - gone /\ 0 \in 0 .. m - 1
           /\ gone = 1 => m = Size /\ 0 \in 0 .. n - gone - 1 /\ 0 \in 0 .. n - 1 /\ 1 \in 0 .. n - 1
           /\ n = Size => gone = 1
           /\ \A k \in 0 .. n - 1 : k >= gone => /\ k - gone \in 0 .. m - 1
                                                /\ k - gone \in 0 .. n - gone - 1
                                                /\ (k - gone) + gone = k
           /\ \A k \in 0 .. n - 1 : k < gone => k = 0 /\ gone = 1
  OBVIOUS

\* A new observation leaves the ring in order and remembering what it should.
LEMMA AppendKeepsRing ==
    ASSUME OracleConstants, OracleInv, TW!TypeOK', RingFills', NEW m \in 0 .. Size, m = count',
           NEW sample, NEW gone \in {0, 1},
           Appended(sample, gone), SampleOfNow(sample), Traded(sample.tick),
           count > 0 => TW!Newest.timestamp < time
    PROVE  TW!RingOrdered' /\ Remembers'
  <1>1. /\ count \in 0 .. Size /\ Size \in Nat /\ Size >= 2 /\ time \in Nat
        /\ m = count + 1 - gone /\ gone <= count /\ (gone = 1 => count = Size)
        /\ UNCHANGED time /\ m \in 0 .. Size /\ m = count'
    BY DEF OracleConstants, OracleInv, TW!TypeOK, TW!Times, Appended, Traded
  <1>2. TW!At(count - 1)' = sample /\ TW!Newest' = sample /\ sample.timestamp = time
    <2>1. m > 0
      BY <1>1, AppendNumbers
    <2> QED BY <1>1, <2>1, NewestLastNext DEF Appended, SampleOfNow
  <1>3. \A k \in 0 .. count - 1 : TW!At(k).timestamp \in Nat /\ TW!At(k).timestamp < time
    <2> TAKE k \in 0 .. count - 1
    <2>1. TW!At(k).timestamp \in Nat /\ TW!At(count - 1).timestamp \in Nat
      BY <1>1, ObservationsTyped DEF OracleInv, Observations, OracleConstants
    <2>2. /\ TW!Newest.timestamp < time /\ TW!At(count - 1) = TW!Newest
          /\ k < count - 1 => TW!At(k).timestamp < TW!At(count - 1).timestamp
      BY <1>1 DEF OracleInv, TW!RingOrdered
    <2> QED BY <1>1, <2>1, <2>2
  <1>4. ASSUME NEW k \in 0 .. m - 1
        PROVE  \/ k = m - 1 /\ TW!At(k)' = sample
               \/ k < m - 1 /\ k + gone \in 0 .. count - 1 /\ TW!At(k)' = TW!At(k + gone)
    BY <1>1, <1>2 DEF Appended
  <1>5. ASSUME NEW j \in 0 .. m - 1, NEW k \in 0 .. m - 1, j < k
        PROVE  TW!At(j)'.timestamp < TW!At(k)'.timestamp
    <2>1. j < m - 1 /\ j + gone \in 0 .. count - 1 /\ TW!At(j)' = TW!At(j + gone)
      BY <1>1, <1>4, <1>5
    <2>2. CASE TW!At(k)' = sample
      BY <1>2, <1>3, <2>1, <2>2
    <2>3. CASE k + gone \in 0 .. count - 1 /\ TW!At(k)' = TW!At(k + gone)
      BY <1>5, <2>1, <2>3 DEF OracleInv, TW!RingOrdered
    <2> QED BY <1>4, <2>2, <2>3
  <1>6. TW!RingOrdered'
    BY <1>1, <1>2, <1>5 DEF TW!RingOrdered
  <1>7. traded' = traded \cup {time}
    BY DEF Traded
  <1>8. ASSUME NEW k \in 0 .. m - 1 PROVE TW!At(k)'.timestamp \in traded'
    BY <1>2, <1>4, <1>7 DEF OracleInv, Remembers
  <1>9. ASSUME NEW s \in traded'
        PROVE  (\E k \in 0 .. m - 1 : s = TW!At(k)'.timestamp)
                  \/ (m = Size /\ s < TW!At(0)'.timestamp)
    <2>1. CASE s = time
      <3>1. m - 1 \in 0 .. m - 1
        BY <1>1, AppendNumbers
      <3> QED BY <1>2, <2>1, <3>1
    <2>2. CASE s \in traded /\ \E k \in 0 .. count - 1 : s = TW!At(k).timestamp
      <3>1. PICK k \in 0 .. count - 1 : s = TW!At(k).timestamp
        BY <2>2
      <3>2. CASE k >= gone
        <4>1. k - gone \in 0 .. m - 1 /\ k - gone \in 0 .. count - gone - 1 /\ (k - gone) + gone = k
          BY <1>1, <3>2, AppendNumbers
        <4>2. \A i \in 0 .. count - gone - 1 : TW!At(i)' = TW!At(i + gone)
          BY DEF Appended
        <4>3. TW!At(k - gone)' = TW!At(k)
          BY <4>1, <4>2
        <4> QED BY <3>1, <4>1, <4>3
      <3>3. CASE k < gone
        <4>1. k = 0 /\ gone = 1 /\ 0 \in 0 .. count - gone - 1 /\ 0 + gone = 1 /\ 1 \in 0 .. count - 1
              /\ m = Size
          BY <1>1, <3>3, AppendNumbers
        <4>2. TW!At(0)' = TW!At(1)
          BY <4>1 DEF Appended
        <4>3. TW!At(0).timestamp < TW!At(1).timestamp
          BY <1>1, <4>1 DEF OracleInv, TW!RingOrdered
        <4> QED BY <1>1, <3>1, <4>1, <4>2, <4>3
      <3> QED BY <1>1, <3>2, <3>3
    <2>3. CASE s \in traded /\ count = Size /\ s < TW!At(0).timestamp
      <3>1. gone = 1 /\ m = Size
        BY <1>1, <2>3, AppendNumbers
      <3>2. 0 \in 0 .. count - gone - 1 /\ 0 + gone = 1 /\ 1 \in 0 .. count - 1 /\ 0 \in 0 .. count - 1
        BY <1>1, <2>3, <3>1
      <3>3. TW!At(0)' = TW!At(1) /\ TW!At(0).timestamp < TW!At(1).timestamp
        BY <3>2, <3>1 DEF Appended, OracleInv, TW!RingOrdered
      <3>4. s \in Nat
        BY <2>3 DEF OracleInv, TW!TypeOK, TW!Times
      <3> QED BY <1>1, <1>3, <2>3, <3>1, <3>2, <3>3, <3>4
    <2> QED BY <1>7, <2>1, <2>2, <2>3 DEF OracleInv, Remembers, Recorded
  <1>10. \A s \in traded' : s <= time'
    BY <1>1, <1>7 DEF OracleInv, Remembers
  <1>11. \A s \in traded' : Recorded(s)'
    BY <1>1, <1>9 DEF Recorded
  <1> QED BY <1>1, <1>6, <1>8, <1>10, <1>11 DEF Remembers

\* Nothing follows the last of m observations.
LEMMA LastOf == \A m \in 0 .. Size : \A k \in 0 .. m - 1 : k = m - 1 => k + 1 >= m /\ ~ (k + 1 < m)
  OBVIOUS

\* A new observation carries the sum so far, so that every window still adds up.
LEMMA AppendKeepsSums ==
    ASSUME OracleConstants, OracleInv, TW!TypeOK', RingFills', NEW m \in 0 .. Size, m = count',
           NEW sample, NEW gone \in {0, 1},
           Appended(sample, gone), SampleOfNow(sample), Traded(sample.tick)
    PROVE  SumsAgree'
  <1>1. /\ count \in 0 .. Size /\ Size \in Nat /\ Size >= 2 /\ time \in Nat
        /\ m = count + 1 - gone /\ gone <= count /\ LastSecond \in Nat
        /\ UNCHANGED <<time, trace>> /\ m \in 0 .. Size /\ m = count'
    BY DEF OracleConstants, OracleInv, TW!TypeOK, TW!Times, Appended, Traded
  <1>2. /\ TW!At(count - 1)' = sample /\ TW!Newest' = sample /\ sample.timestamp = time
        /\ sample \in Observations
    <2>1. m > 0
      BY <1>1
    <2> QED BY <1>1, <2>1, NewestLastNext DEF Appended, SampleOfNow
  <1>3. TW!WindowSum' = TW!WindowSum /\ TW!WindowSum[0] = 0
    <2>1. TW!WindowSum' = TW!WindowSum
      BY <1>1, Zenon DEF TW!WindowSum
    <2> QED BY <1>1, <2>1, WindowSums DEF AddsUp
  <1>4. TW!Extend(sample, time) = sample.tickCumulative /\ TW!Extend(sample, time) \in Int
    BY <1>1, <1>2, ExtendFacts
  <1>5. ASSUME NEW k \in 0 .. m - 1, NEW s \in Nat,
               TW!At(k)'.timestamp <= s, s <= Until(k)'
        PROVE  TW!Extend(sample, time) - TW!Extend(TW!At(k)', s) = TW!WindowSum[time - s]
    <2>1. CASE k = m - 1
      <3>0. ~ (k + 1 < m)
        BY <2>1, LastOf
      <3>1. TW!At(k)' = sample
        <4>1. k = (count - 1)'
          BY <1>1, <2>1, Zenon
        <4> QED BY <1>2, <4>1
      <3>2. Until(k)' = time
        BY <1>1, <1>2, <3>0 DEF Until
      <3>3. s = time
        BY <1>1, <1>2, <1>5, <3>1, <3>2
      <3> QED BY <1>1, <1>3, <1>4, <3>1, <3>3
    <2>2. CASE k < m - 1
      <3>1. k + gone \in 0 .. count - 1 /\ k \in 0 .. count - gone - 1 /\ count > 0
        BY <1>1, <2>2
      <3>2. TW!At(k)' = TW!At(k + gone)
        BY <3>1 DEF Appended
      <3>3. Until(k)' = TW!At(k + 1)'.timestamp
        BY <1>1, <2>2 DEF Until
      <3>4. Until(k)' = Until(k + gone)
        <4>1. CASE k + 1 = m - 1
          <5>1. k + gone + 1 = count /\ TW!At(k + 1)' = sample
            BY <1>1, <1>2, <4>1
          <5>2. Until(k + gone) = time
            BY <1>1, <5>1 DEF Until
          <5> QED BY <1>2, <3>3, <5>1, <5>2
        <4>2. CASE k + 1 < m - 1
          <5>1. k + 1 \in 0 .. count - gone - 1 /\ (k + 1) + gone = k + gone + 1 /\ k + gone + 1 < count
            BY <1>1, <4>2
          <5>2. TW!At(k + 1)' = TW!At(k + gone + 1)
            <6>1. \A i \in 0 .. count - gone - 1 : TW!At(i)' = TW!At(i + gone)
              BY DEF Appended
            <6> QED BY <5>1, <6>1
          <5> QED BY <3>3, <5>1, <5>2 DEF Until
        <4> QED BY <1>1, <2>2, <4>1, <4>2
      <3>5. Since(k + gone, s)
        BY <1>5, <3>1, <3>2, <3>4 DEF OracleInv, SumsAgree
      <3>6. TW!Extend(sample, time) = TW!Extend(TW!Newest, time)
        BY <1>4, <3>1 DEF SampleOfNow
      <3> QED BY <3>2, <3>5, <3>6 DEF Since
    <2> QED BY <1>1, <2>1, <2>2
  <1>6. ASSUME NEW k \in 0 .. m - 1, NEW s \in Nat,
               TW!At(k)'.timestamp <= s, s <= Until(k)'
        PROVE  Since(k, s)'
    BY <1>1, <1>2, <1>3, <1>5, <1>6 DEF Since, TW!Extend
  <1> QED BY <1>1, <1>6 DEF SumsAgree

\* A second sample in a block replaces the tick that has held for no second yet.
LEMMA RetellKeepsInv ==
    ASSUME OracleConstants, OracleInv, TW!TypeOK', RingFills', NEW tick \in Ticks,
           Retold([TW!Newest EXCEPT !.tick = tick]), Traded(tick), TW!Newest.timestamp = time
    PROVE  TW!RingOrdered' /\ Remembers' /\ SumsAgree' /\ TW!Newest' = [TW!Newest EXCEPT !.tick = tick]
  <1> DEFINE sample == [TW!Newest EXCEPT !.tick = tick]
  <1>1. /\ count \in 0 .. Size /\ count > 0 /\ Size \in Nat /\ Size >= 2 /\ time \in Nat
        /\ count' = count /\ LastSecond \in Nat /\ UNCHANGED <<time, trace>>
        /\ traded' = traded \cup {time} /\ tick \in Int
    BY DEF OracleConstants, OracleInv, TW!TypeOK, TW!Times, Retold, Traded
  <1>2. TW!At(count - 1) = TW!Newest /\ TW!Newest \in Observations
    <2>1. count - 1 \in 0 .. count - 1 /\ TW!At(count - 1) = TW!Newest
      BY <1>1 DEF OracleInv, TW!RingOrdered
    <2> QED BY <2>1, ObservationsTyped DEF OracleInv
  <1>3. /\ sample \in Observations /\ sample.timestamp = time
        /\ sample.tickCumulative = TW!Newest.tickCumulative
    BY <1>1, <1>2 DEF Observations
  <1>4. TW!At(count - 1)' = sample /\ TW!Newest' = sample
    BY <1>1, NewestLastNext DEF Retold
  <1> HIDE DEF sample
  <1>5. /\ TW!Extend(sample, time) = TW!Extend(TW!Newest, time)
        /\ TW!Extend(sample, time) = sample.tickCumulative /\ TW!Extend(sample, time) \in Int
    BY <1>1, <1>2, <1>3, ExtendFacts
  <1>6. \A k \in 0 .. count - 1 :
           /\ TW!At(k)'.timestamp = TW!At(k).timestamp
           /\ k < count - 1 => TW!At(k)' = TW!At(k)
           /\ k = count - 1 => TW!At(k)' = sample
    BY <1>1, <1>2, <1>3, <1>4 DEF Retold
  <1>7. TW!RingOrdered'
    BY <1>1, <1>3, <1>4, <1>6 DEF OracleInv, TW!RingOrdered
  <1>8. Remembers'
    <2>1. time \in traded
      <3>1. count - 1 \in 0 .. count - 1
        BY <1>1
      <3> QED BY <1>2, <3>1 DEF OracleInv, Remembers
    <2>2. traded' = traded
      BY <1>1, <2>1
    <2>3. 0 \in 0 .. count - 1
      BY <1>1
    <2> QED BY <1>1, <1>6, <2>2, <2>3 DEF OracleInv, Remembers, Recorded
  <1>9. TW!WindowSum' = TW!WindowSum /\ TW!WindowSum[0] = 0
    <2>1. TW!WindowSum' = TW!WindowSum
      BY <1>1, Zenon DEF TW!WindowSum
    <2> QED BY <1>1, <2>1, WindowSums DEF AddsUp
  <1>10. ASSUME NEW k \in 0 .. count - 1, NEW s \in Nat, TW!At(k).timestamp <= s, s <= Until(k)
         PROVE  TW!Extend(sample, time) - TW!Extend(TW!At(k)', s) = TW!WindowSum[time - s]
    <2>1. CASE k = count - 1
      <3>1. TW!At(k)' = sample /\ Until(k) = time
        BY <1>1, <1>6, <2>1 DEF Until
      <3>2. s = time
        BY <1>1, <1>3, <1>6, <1>10, <3>1
      <3> QED BY <1>1, <1>5, <1>9, <3>1, <3>2
    <2>2. CASE k < count - 1
      <3>1. Since(k, s)
        BY <1>10 DEF OracleInv, SumsAgree
      <3> QED BY <1>5, <1>6, <2>2, <3>1 DEF Since
    <2> QED BY <1>1, <2>1, <2>2
  <1>11. ASSUME NEW k \in 0 .. count - 1 PROVE Until(k)' = Until(k)
    BY <1>1, <1>6 DEF Until
  <1>12. ASSUME NEW k \in 0 .. count' - 1, NEW s \in Nat,
                TW!At(k)'.timestamp <= s, s <= Until(k)'
         PROVE  Since(k, s)'
    <2>1. k \in 0 .. count - 1 /\ TW!At(k).timestamp <= s /\ s <= Until(k)
      BY <1>1, <1>6, <1>11, <1>12
    <2> QED BY <1>1, <1>4, <1>9, <1>10, <2>1 DEF Since, TW!Extend
  <1> QED BY <1>4, <1>7, <1>8, <1>12 DEF SumsAgree, sample

-----------------------------------------------------------------------------

\* A sample leaves a well-typed ring that fills in turn.
LEMMA SampleTypes ==
    ASSUME OracleConstants, OracleInv, NEW tick \in Ticks, TW!Sample(tick)
    PROVE  /\ obs' \in [TW!Slots -> Observations] /\ index' \in TW!Slots /\ count' \in 0 .. Size
           /\ RingFills'
  <1>1. /\ count \in 0 .. Size /\ Size \in Nat \ {0} /\ Size >= 2 /\ time \in 0 .. LastSecond /\ tick \in Int
        /\ index \in 0 .. Size - 1 /\ obs \in [TW!Slots -> Observations] /\ LastSecond \in Nat
    BY DEF OracleConstants, OracleInv, TW!TypeOK, TW!Times, TW!Slots, Observations
  <1>2. TW!NextIndex = IF index + 1 < Size THEN index + 1 ELSE 0
    BY <1>1, AroundSlots DEF TW!NextIndex
  <1>3. obs[index] \in Observations /\ index \in TW!Slots /\ TW!NextIndex \in TW!Slots /\ 0 \in TW!Slots
    BY <1>1, <1>2 DEF TW!Slots
  <1>4. CASE /\ count = 0
             /\ obs' = [obs EXCEPT ![0] = [timestamp |-> time, tickCumulative |-> 0, tick |-> tick]]
             /\ index' = 0 /\ count' = 1
    <2>1. [timestamp |-> time, tickCumulative |-> 0, tick |-> tick] \in Observations
      BY <1>1 DEF Observations
    <2> QED BY <1>1, <1>3, <1>4, <2>1 DEF RingFills
  <1>5. CASE /\ count > 0 /\ obs[index].timestamp = time
             /\ obs' = [obs EXCEPT ![index].tick = tick]
             /\ UNCHANGED <<index, count>>
    <2>1. [obs[index] EXCEPT !.tick = tick] \in Observations
      BY <1>1, <1>3 DEF Observations
    <2>2. obs' = [obs EXCEPT ![index] = [obs[index] EXCEPT !.tick = tick]]
      BY <1>5
    <2>3. RingFills'
      BY <1>5 DEF RingFills, OracleInv
    <2> QED BY <1>1, <1>3, <1>5, <2>1, <2>2, <2>3
  <1>6. CASE /\ count > 0 /\ obs[index].timestamp # time
             /\ obs' = [obs EXCEPT ![TW!NextIndex] =
                          [timestamp |-> time, tick |-> tick,
                           tickCumulative |-> obs[index].tickCumulative
                                + obs[index].tick * (time - obs[index].timestamp)]]
             /\ index' = TW!NextIndex
             /\ count' = IF count < Size THEN count + 1 ELSE count
    <2> DEFINE sum == obs[index].tickCumulative + obs[index].tick * (time - obs[index].timestamp)
    <2>1. sum \in Int
      BY <1>1, <1>3 DEF Observations
    <2> HIDE DEF sum
    <2>2. [timestamp |-> time, tick |-> tick, tickCumulative |-> sum] \in Observations
      BY <1>1, <2>1 DEF Observations
    <2>3. RingFills'
      BY <1>1, <1>2, <1>6 DEF RingFills, OracleInv
    <2> QED BY <1>1, <1>3, <1>6, <2>2, <2>3 DEF sum
  <1> QED BY <1>4, <1>5, <1>6 DEF TW!Sample

\* _recordObservation keeps the invariant, whichever of its three cases runs.
LEMMA SampleKeepsInv ==
    ASSUME OracleConstants, OracleInv, NEW tick \in Ticks, TW!Sample(tick), Traded(tick)
    PROVE  OracleInv'
  <1>1. /\ count \in 0 .. Size /\ Size \in Nat \ {0} /\ Size >= 2 /\ time \in 0 .. LastSecond /\ tick \in Int
        /\ index \in 0 .. Size - 1 /\ obs \in [TW!Slots -> Observations] /\ LastSecond \in Nat
    BY DEF OracleConstants, OracleInv, TW!TypeOK, TW!Times, TW!Slots, Observations
  <1>2. obs' \in [TW!Slots -> Observations] /\ index' \in TW!Slots /\ count' \in 0 .. Size /\ RingFills'
    BY SampleTypes
  <1>3. TW!TypeOK'
    BY <1>1, <1>2 DEF TW!TypeOK, Traded, OracleInv, TW!Times, Observations
  <1>4. TW!Newest \in Observations /\ TW!Newest = obs[index] /\ TW!Newest.timestamp \in Nat
    BY <1>1 DEF TW!Newest, TW!Slots, Observations
  <1>5. count > 0 => TW!Newest.timestamp <= time
    BY DEF OracleInv, TW!RingOrdered
  <1>6. ASSUME NEW sample, NEW gone \in {0, 1}, Appended(sample, gone), SampleOfNow(sample),
               sample.tick = tick, count > 0 => TW!Newest.timestamp < time
        PROVE  OracleInv'
    <2>1. TW!RingOrdered' /\ Remembers' /\ SumsAgree'
      BY <1>2, <1>3, <1>6, AppendKeepsRing, AppendKeepsSums
    <2>2. TW!Newest' = sample
      <3>1. count' > 0 /\ TW!At(count - 1)' = sample
        BY <1>1, <1>6 DEF Appended
      <3> QED BY <1>2, <1>3, <3>1, NewestLastNext
    <2>3. sampled' = tick
      BY DEF Traded
    <2> QED BY <1>2, <1>3, <1>6, <2>1, <2>2, <2>3 DEF OracleInv
  <1>7. CASE /\ count = 0
             /\ obs' = [obs EXCEPT ![0] = [timestamp |-> time, tickCumulative |-> 0, tick |-> tick]]
             /\ index' = 0 /\ count' = 1
    <2> DEFINE sample == [timestamp |-> time, tickCumulative |-> 0, tick |-> tick]
    <2>1. Appended(sample, 0)
      BY <1>2, <1>3, <1>7, SampleFirst DEF OracleInv
    <2>2. SampleOfNow(sample) /\ sample.tick = tick
      BY <1>1, <1>7 DEF SampleOfNow, Observations
    <2> HIDE DEF sample
    <2> QED BY <1>6, <1>7, <2>1, <2>2
  <1>8. CASE /\ count > 0 /\ obs[index].timestamp = time
             /\ obs' = [obs EXCEPT ![index].tick = tick]
             /\ UNCHANGED <<index, count>>
    <2> DEFINE sample == [TW!Newest EXCEPT !.tick = tick]
    <2>1. obs' = [obs EXCEPT ![index] = sample]
      BY <1>4, <1>8
    <2>2. sample.tick = tick
      BY <1>4 DEF Observations
    <2>3. Retold(sample)
      BY <1>2, <1>3, <1>8, <2>1, SampleAgain DEF OracleInv
    <2>4. TW!RingOrdered' /\ Remembers' /\ SumsAgree' /\ TW!Newest' = sample
      BY <1>2, <1>3, <1>4, <1>8, <2>3, RetellKeepsInv
    <2> QED BY <1>2, <1>3, <2>2, <2>4 DEF OracleInv, Traded
  <1>9. CASE /\ count > 0 /\ obs[index].timestamp # time
             /\ obs' = [obs EXCEPT ![TW!NextIndex] =
                          [timestamp |-> time, tick |-> tick,
                           tickCumulative |-> obs[index].tickCumulative
                                + obs[index].tick * (time - obs[index].timestamp)]]
             /\ index' = TW!NextIndex
             /\ count' = IF count < Size THEN count + 1 ELSE count
    <2> DEFINE sample == [timestamp |-> time, tick |-> tick,
                          tickCumulative |-> TW!Extend(TW!Newest, time)]
    <2>1. obs' = [obs EXCEPT ![TW!NextIndex] = sample]
      BY <1>4, <1>9 DEF TW!Extend
    <2>2. SampleOfNow(sample) /\ sample.tick = tick
      BY <1>1, <1>4, ExtendFacts DEF SampleOfNow, Observations
    <2>3. TW!Newest.timestamp < time
      BY <1>1, <1>4, <1>5, <1>9
    <2> HIDE DEF sample
    <2>4. Appended(sample, IF count < Size THEN 0 ELSE 1)
      BY <1>2, <1>3, <1>9, <2>1, SampleNext DEF OracleInv
    <2> QED BY <1>6, <2>2, <2>3, <2>4
  <1> QED BY <1>7, <1>8, <1>9 DEF TW!Sample

\* A pool starts with no observation.
LEMMA OracleInit == ASSUME OracleConstants, TW!Init PROVE OracleInv
  <1>1. 0 \in 0 .. Size - 1 /\ Size \in Nat /\ LastSecond \in Nat /\ 0 \in 0 .. LastSecond /\ count = 0
    BY DEF OracleConstants, TW!Init
  <1>2. TW!TypeOK
    BY <1>1 DEF TW!Init, TW!TypeOK, TW!Slots, TW!Times
  <1>3. 0 .. count - 1 = {}
    BY <1>1
  <1> QED BY <1>1, <1>2, <1>3
      DEF OracleInv, RingFills, TW!RingOrdered, SumsAgree, Remembers, TW!Init

\* Every step of the oracle keeps the invariant.
LEMMA OracleStep ==
    ASSUME OracleConstants, OracleInv, [TW!Next]_TW!vars
    PROVE  OracleInv'
  <1>1. CASE TW!Tick
    <2>1. TW!TypeOK'
      <3>1. time + 1 \in TW!Times
        BY <1>1 DEF OracleInv, OracleConstants, TW!Tick, TW!TypeOK, TW!Times
      <3> QED BY <1>1, <3>1 DEF OracleInv, TW!Tick, TW!TypeOK
    <2> QED BY <1>1, <2>1, TickKeepsInv
  <1>2. CASE UNCHANGED TW!vars
    <2>1. UNCHANGED <<time, obs, index, count, traded, sampled, trace>>
      BY <1>2 DEF TW!vars
    <2>2. TW!WindowSum' = TW!WindowSum
      BY <2>1, Zenon DEF TW!WindowSum
    <2>3. \A k : TW!At(k)' = TW!At(k)
      BY <2>1 DEF TW!At, TW!OldestIndex
    <2>4. TW!TypeOK' /\ RingFills' /\ TW!Newest' = TW!Newest /\ TW!At(count - 1)' = TW!At(count - 1)
          /\ TW!At(0)' = TW!At(0)
      BY <2>1 DEF OracleInv, TW!TypeOK, RingFills, TW!Newest, TW!At, TW!OldestIndex
    <2>5. TW!RingOrdered'
      BY <2>1, <2>3, <2>4 DEF OracleInv, TW!RingOrdered
    <2>6. Remembers'
      BY <2>1, <2>3, <2>4 DEF OracleInv, Remembers, Recorded
    <2>7. \A k : Until(k)' = Until(k)
      BY <2>1 DEF Until, TW!At, TW!OldestIndex
    <2>8. \A k, s : Since(k, s)' <=> Since(k, s)
      BY <2>1, <2>2, <2>3, <2>4 DEF Since, TW!Extend
    <2>9. SumsAgree'
      BY <2>1, <2>3, <2>7, <2>8 DEF OracleInv, SumsAgree
    <2> QED BY <2>1, <2>4, <2>5, <2>6, <2>9 DEF OracleInv
  <1>3. ASSUME NEW tick \in Ticks, NEW paid \in {0, 1}, NEW got \in {0, 1}, TW!AfterSwap(tick, paid, got)
        PROVE  OracleInv'
    <2>1. TW!Sampled(paid, got) <=> paid > 0 /\ got > 0
      BY DEF TW!Sampled, OracleConstants
    <2>2. CASE paid > 0 /\ got > 0
      <3>1. TW!Sample(tick) /\ Traded(tick)
        BY <1>3, <2>1, <2>2 DEF TW!AfterSwap, Traded
      <3> QED BY <3>1, SampleKeepsInv
    <2>3. CASE ~ (paid > 0 /\ got > 0)
      <3>1. UNCHANGED TW!vars
        BY <1>3, <2>1, <2>3 DEF TW!AfterSwap, TW!vars
      <3> QED BY <1>2, <3>1
    <2> QED BY <2>2, <2>3
  <1> QED BY <1>1, <1>2, <1>3 DEF TW!Next

-----------------------------------------------------------------------------
\* The binary search is what its recursive text says, on every span.
SearchStep(S, sought, p) ==
    IF p[1] >= p[2] THEN p[1]
    ELSE LET mid == TW!Middle(p[1], p[2])
         IN  IF TW!At(mid).timestamp <= sought THEN S[<<mid + 1, p[2]>>] ELSE S[<<p[1], mid>>]
SearchUpTo(S, m, sought) == \A p \in TW!Spans : p[2] - p[1] <= m => S[p] = SearchStep(S, sought, p)
IsSearch(S, sought) == S = [p \in TW!Spans |-> SearchStep(S, sought, p)]

\* The middle of a span that is not a point leaves two shorter ones.
LEMMA MiddleBetween ==
    ASSUME NEW l \in Nat, NEW r \in Nat, l < r
    PROVE  TW!Middle(l, r) \in l .. r - 1
  BY DEF TW!Middle

\* The two halves of a span are spans, and shorter.
LEMMA Halves ==
    ASSUME Size \in Nat, NEW p \in TW!Spans, p[1] < p[2], NEW m \in Nat, p[2] - p[1] <= m + 1
    PROVE  LET mid == TW!Middle(p[1], p[2])
           IN  /\ mid \in p[1] .. p[2] - 1
               /\ <<mid + 1, p[2]>> \in TW!Spans /\ <<p[1], mid>> \in TW!Spans
               /\ <<mid + 1, p[2]>>[2] - <<mid + 1, p[2]>>[1] <= m
               /\ <<p[1], mid>>[2] - <<p[1], mid>>[1] <= m
  <1>1. p[1] \in 0 .. Size /\ p[2] \in 0 .. Size
    BY DEF TW!Spans
  <1>2. TW!Middle(p[1], p[2]) \in p[1] .. p[2] - 1
    BY <1>1, MiddleBetween
  <1> QED BY <1>1, <1>2 DEF TW!Spans

\* A search right on spans up to a width extends to the next width.
LEMMA SearchGrows ==
    ASSUME Size \in Nat, NEW sought, NEW m \in Nat, NEW S, SearchUpTo(S, m, sought)
    PROVE  \E R : R = [p \in TW!Spans |-> R[p]] /\ SearchUpTo(R, m + 1, sought)
  <1> DEFINE G(p) == IF p[2] - p[1] <= m THEN S[p] ELSE SearchStep(S, sought, p)
             R == [p \in TW!Spans |-> G(p)]
  <1>1. \A p \in TW!Spans : R[p] = G(p)
    OBVIOUS
  <1>1a. R = [p \in TW!Spans |-> R[p]]
    OBVIOUS
  <1> HIDE DEF R
  <1>2. ASSUME NEW p \in TW!Spans, p[2] - p[1] <= m + 1
        PROVE  R[p] = SearchStep(R, sought, p)
    <2>0. p[1] \in 0 .. Size /\ p[2] \in 0 .. Size
      BY DEF TW!Spans
    <2>1. R[p] = SearchStep(S, sought, p)
      BY <1>1 DEF SearchUpTo
    <2>2. CASE p[1] >= p[2]
      BY <2>1, <2>2 DEF SearchStep
    <2>3. CASE p[1] < p[2]
      <3> DEFINE mid == TW!Middle(p[1], p[2])
                 a == <<mid + 1, p[2]>>
                 b == <<p[1], mid>>
      <3>1. a \in TW!Spans /\ b \in TW!Spans /\ a[2] - a[1] <= m /\ b[2] - b[1] <= m
        BY <1>2, <2>3, Halves
      <3>2. SearchStep(S, sought, p) = IF TW!At(mid).timestamp <= sought THEN S[a] ELSE S[b]
        BY <2>0, <2>3 DEF SearchStep
      <3>3. SearchStep(R, sought, p) = IF TW!At(mid).timestamp <= sought THEN R[a] ELSE R[b]
        BY <2>0, <2>3 DEF SearchStep
      <3> HIDE DEF a, b, mid
      <3>4. R[a] = S[a] /\ R[b] = S[b]
        BY <1>1, <3>1
      <3> QED BY <2>1, <3>2, <3>3, <3>4
    <2> QED BY <2>0, <2>2, <2>3
  <1>3. SearchUpTo(R, m + 1, sought)
    BY <1>2 DEF SearchUpTo
  <1> QED BY <1>1a, <1>3

\* So there is a search right on every span.
LEMMA SearchExists ==
    ASSUME Size \in Nat, NEW sought
    PROVE  \E S : IsSearch(S, sought)
  <1> DEFINE T == {m \in Nat : \E S : S = [p \in TW!Spans |-> S[p]] /\ SearchUpTo(S, m, sought)}
  <1>1. 0 \in T
    <2> DEFINE S == [p \in TW!Spans |-> p[1]]
    <2>1. \A p \in TW!Spans : S[p] = p[1] /\ (p[2] - p[1] <= 0 => p[1] >= p[2])
      BY DEF TW!Spans
    <2>2. S = [p \in TW!Spans |-> S[p]]
      OBVIOUS
    <2> HIDE DEF S
    <2>3. SearchUpTo(S, 0, sought)
      BY <2>1 DEF SearchUpTo, SearchStep
    <2> QED BY <2>2, <2>3
  <1>2. ASSUME NEW m \in T PROVE m + 1 \in T
    <2>1. m \in Nat /\ m + 1 \in Nat /\ \E S : SearchUpTo(S, m, sought)
      BY <1>2
    <2>2. \E R : R = [p \in TW!Spans |-> R[p]] /\ SearchUpTo(R, m + 1, sought)
      BY <2>1, SearchGrows
    <2> QED BY <2>1, <2>2
  <1>3. T = Nat
    <2> HIDE DEF T
    <2> QED BY <1>1, <1>2, SetInduction DEF T
  <1>4. PICK S : S = [p \in TW!Spans |-> S[p]] /\ SearchUpTo(S, Size, sought)
    BY <1>3
  <1>5. \A p \in TW!Spans : p[2] - p[1] <= Size
    BY DEF TW!Spans
  <1>6. \A p \in TW!Spans : S[p] = SearchStep(S, sought, p)
    BY <1>4, <1>5 DEF SearchUpTo
  <1>7. S = [p \in TW!Spans |-> SearchStep(S, sought, p)]
    BY <1>4, <1>6
  <1> QED BY <1>7 DEF IsSearch

\* The chosen search does what its recursive text says.
LEMMA SearchUnfolds ==
    ASSUME Size \in Nat, NEW sought, NEW p \in TW!Spans
    PROVE  TW!Search(sought)[p] = SearchStep(TW!Search(sought), sought, p)
  <1>1. TW!Search(sought) = CHOOSE R : IsSearch(R, sought)
    BY Zenon DEF TW!Search, SearchStep, IsSearch
  <1>2. IsSearch(TW!Search(sought), sought)
    BY <1>1, SearchExists, Zenon
  <1> DEFINE S == TW!Search(sought)
             G(q) == SearchStep(S, sought, q)
  <1> HIDE DEF S
  <1>3. S = [q \in TW!Spans |-> G(q)]
    BY <1>2 DEF IsSearch, S
  <1> HIDE DEF G
  <1>4. S[p] = G(p)
    BY <1>3
  <1> QED BY <1>4 DEF S, G

\* The span of a search that is under way: what is left of it is not newer than
\* sought, its right end is.
Straddles(p, sought) ==
    /\ p \in TW!Spans /\ p[1] <= p[2] /\ p[2] \in 0 .. count - 1
    /\ p[1] > 0 => TW!At(p[1] - 1).timestamp <= sought
    /\ TW!At(p[2]).timestamp > sought
Found(k, sought) ==
    /\ k \in 0 .. count - 1 /\ TW!At(k).timestamp > sought
    /\ k > 0 => TW!At(k - 1).timestamp <= sought

\* The binary search of _observeCumulative finds the first observation newer than
\* sought, by induction on the width of the span.
LEMMA SearchFinds ==
    ASSUME OracleConstants, OracleInv, NEW sought \in Nat,
           NEW q, Straddles(q, sought)
    PROVE  Found(TW!Search(sought)[q], sought)
  <1> DEFINE S == TW!Search(sought)
             Good(m) == \A p \in TW!Spans : p[2] - p[1] <= m /\ Straddles(p, sought) => Found(S[p], sought)
             T == {m \in Nat : Good(m)}
  <1>0. /\ Size \in Nat /\ count \in 0 .. Size
        /\ \A p \in TW!Spans : S[p] = SearchStep(S, sought, p)
    BY SearchUnfolds DEF OracleConstants, OracleInv, TW!TypeOK
  <1>0a. \A k \in 0 .. count - 1 : TW!At(k).timestamp \in Nat
    BY ObservationsTyped DEF OracleInv, Observations, OracleConstants
  <1> HIDE DEF S
  <1>1. ASSUME NEW p \in TW!Spans, Straddles(p, sought), p[1] >= p[2] PROVE Found(S[p], sought)
    <2>1. p[1] = p[2] /\ p[1] \in 0 .. count - 1
      BY <1>0, <1>1 DEF Straddles, TW!Spans
    <2>2. S[p] = p[1]
      BY <1>0, <1>1 DEF SearchStep
    <2> QED BY <1>1, <2>1, <2>2 DEF Straddles, Found
  <1>2. ASSUME NEW m \in Nat, Good(m), NEW p \in TW!Spans, p[2] - p[1] <= m + 1, Straddles(p, sought)
        PROVE  Found(S[p], sought)
    <2>0. p[1] \in 0 .. Size /\ p[2] \in 0 .. count - 1
      BY <1>2 DEF TW!Spans, Straddles
    <2>1. CASE p[1] < p[2]
      <3> DEFINE mid == TW!Middle(p[1], p[2])
                 a == <<mid + 1, p[2]>>
                 b == <<p[1], mid>>
      <3>1. /\ mid \in p[1] .. p[2] - 1
            /\ a \in TW!Spans /\ b \in TW!Spans /\ a[2] - a[1] <= m /\ b[2] - b[1] <= m
        BY <1>0, <1>2, <2>1, Halves
      <3>2. S[p] = IF TW!At(mid).timestamp <= sought THEN S[a] ELSE S[b]
        BY <1>0, <2>0, <2>1 DEF SearchStep
      <3>3. a[1] = mid + 1 /\ a[2] = p[2] /\ b[1] = p[1] /\ b[2] = mid
        OBVIOUS
      <3> HIDE DEF a, b, mid
      <3>4. mid \in 0 .. count - 1 /\ mid \in Nat /\ mid + 1 > 0 /\ mid + 1 - 1 = mid /\ mid + 1 <= p[2] /\ p[1] <= mid
        BY <1>0, <2>0, <2>1, <3>1
      <3>5. CASE TW!At(mid).timestamp <= sought
        <4>1. Straddles(a, sought)
          BY <1>2, <2>0, <3>1, <3>3, <3>4, <3>5 DEF Straddles
        <4> QED BY <1>2, <3>1, <3>2, <3>5, <4>1
      <3>6. CASE ~ (TW!At(mid).timestamp <= sought)
        <4>1. TW!At(mid).timestamp > sought
          BY <1>0a, <3>4, <3>6
        <4>2. Straddles(b, sought)
          BY <1>2, <2>0, <3>1, <3>3, <3>4, <4>1 DEF Straddles
        <4> QED BY <1>2, <3>1, <3>2, <3>6, <4>2
      <3> QED BY <3>5, <3>6
    <2> QED BY <1>0, <1>1, <1>2, <2>0, <2>1
  <1>3. 0 \in T
    <2>1. \A p \in TW!Spans : p[2] - p[1] <= 0 => p[1] >= p[2]
      BY DEF TW!Spans
    <2> QED BY <1>1, <2>1
  <1>4. ASSUME NEW m \in T PROVE m + 1 \in T
    <2>1. m \in Nat /\ m + 1 \in Nat /\ Good(m)
      BY <1>4
    <2>2. Good(m + 1)
      BY <1>2, <2>1
    <2> QED BY <2>1, <2>2
  <1>5. T = Nat
    <2> HIDE DEF T
    <2> QED BY <1>3, <1>4, SetInduction DEF T
  <1>6. q \in TW!Spans /\ q[2] - q[1] <= Size
    BY <1>0 DEF Straddles, TW!Spans
  <1>7. Good(Size)
    BY <1>0, <1>5
  <1> QED BY <1>6, <1>7 DEF S

\* What the oracle knows of a second it answers for.
LEMMA ObservedExactly ==
    ASSUME OracleConstants, OracleInv, count >= 2, NEW sought \in Nat, sought <= time, TW!Answers(sought)
    PROVE  /\ TW!Extend(TW!Newest, time) - TW!ObserveCumulative(sought) = TW!WindowSum[time - sought]
           /\ TW!Extend(TW!Newest, time) \in Int /\ TW!ObserveCumulative(sought) \in Int
  <1>0. /\ count \in 0 .. Size /\ Size \in Nat /\ LastSecond \in Nat /\ time \in Nat /\ count - 1 \in 0 .. count - 1
        /\ 0 \in 0 .. count - 1
    BY DEF OracleConstants, OracleInv, TW!TypeOK, TW!Times
  <1>1. \A k \in 0 .. count - 1 : TW!At(k) \in Observations /\ TW!At(k).timestamp \in Nat
    BY ObservationsTyped DEF OracleInv, Observations, OracleConstants
  <1>2. TW!At(count - 1) = TW!Newest
    BY <1>0 DEF OracleInv, TW!RingOrdered
  <1>3. \A k \in 0 .. count - 1 : TW!Extend(TW!At(k), sought) \in Int /\ TW!Extend(TW!At(k), time) \in Int
    BY <1>0, <1>1, ExtendFacts
  <1>4. ASSUME NEW k \in 0 .. count - 1, TW!At(k).timestamp <= sought, sought <= Until(k),
               TW!ObserveCumulative(sought) = TW!Extend(TW!At(k), sought)
        PROVE  /\ TW!Extend(TW!Newest, time) - TW!ObserveCumulative(sought) = TW!WindowSum[time - sought]
               /\ TW!Extend(TW!Newest, time) \in Int /\ TW!ObserveCumulative(sought) \in Int
    <2>1. Since(k, sought)
      BY <1>4 DEF OracleInv, SumsAgree
    <2> QED BY <1>0, <1>2, <1>3, <1>4, <2>1 DEF Since
  <1>5. CASE sought >= TW!Newest.timestamp
    <2>1. TW!ObserveCumulative(sought) = TW!Extend(TW!At(count - 1), sought)
      BY <1>2, <1>5 DEF TW!ObserveCumulative
    <2>2. Until(count - 1) = time
      BY <1>0 DEF Until
    <2>3. TW!At(count - 1).timestamp <= sought
      BY <1>0, <1>1, <1>2, <1>5
    <2> QED BY <1>0, <1>4, <2>1, <2>2, <2>3
  <1>6. CASE ~ (sought >= TW!Newest.timestamp) /\ sought = TW!At(0).timestamp
    <2>1. TW!ObserveCumulative(sought) = TW!Extend(TW!At(0), sought)
      <3>1. TW!Extend(TW!At(0), TW!At(0).timestamp) = TW!At(0).tickCumulative
        BY <1>0, <1>1, ExtendFacts
      <3> QED BY <1>6, <3>1 DEF TW!ObserveCumulative
    <2>2. sought <= Until(0)
      <3>1. 1 \in 0 .. count - 1 /\ Until(0) = TW!At(1).timestamp
        BY <1>0 DEF Until
      <3>2. TW!At(0).timestamp < TW!At(1).timestamp
        BY <1>0, <3>1 DEF OracleInv, TW!RingOrdered
      <3> QED BY <1>0, <1>1, <1>6, <3>1, <3>2
    <2> QED BY <1>0, <1>1, <1>4, <1>6, <2>1, <2>2
  <1>7. CASE ~ (sought >= TW!Newest.timestamp) /\ sought # TW!At(0).timestamp
    <2> DEFINE q == <<0, count - 1>>
               k == TW!FirstAfter(sought)
    <2>1. Straddles(q, sought)
      <3>1. q \in TW!Spans /\ q[1] = 0 /\ q[2] = count - 1
        BY <1>0 DEF TW!Spans
      <3>2. TW!At(count - 1).timestamp > sought
        BY <1>0, <1>1, <1>2, <1>7
      <3> HIDE DEF q
      <3> QED BY <1>0, <3>1, <3>2 DEF Straddles
    <2>2. Found(k, sought)
      <3>1. Found(TW!Search(sought)[q], sought)
        BY <2>1, SearchFinds
      <3> QED BY <3>1 DEF TW!FirstAfter
    <2> HIDE DEF k
    <2>3. k \in 0 .. count - 1 /\ k # 0
      BY <1>0, <1>1, <2>2 DEF Found, TW!Answers
    <2>4. k - 1 \in 0 .. count - 1 /\ k - 1 + 1 = k /\ k > 0 /\ k < count
      BY <1>0, <2>3
    <2>5. TW!At(k - 1).timestamp <= sought /\ sought <= Until(k - 1)
      BY <1>0, <1>1, <2>2, <2>4 DEF Found, Until
    <2>6. TW!ObserveCumulative(sought) = TW!Extend(TW!At(k - 1), sought)
      BY <1>7 DEF TW!ObserveCumulative, k
    <2> QED BY <1>4, <2>4, <2>5, <2>6
  <1> QED BY <1>5, <1>6, <1>7

\* Average is the floor of the quotient.
LEMMA AverageIsFloor ==
    ASSUME NEW n \in Int, NEW d \in Nat \ {0}
    PROVE  TW!Average(n, d) * d <= n /\ n < (TW!Average(n, d) + 1) * d
  <1>1. ASSUME NEW i \in Nat
        PROVE  /\ i \div d \in Int /\ (i % d) \in 0 .. d - 1 /\ i = d * (i \div d) + (i % d)
    BY <1>1
  <1>2. CASE n >= 0
    <2> DEFINE q == n \div d
               r == n % d
    <2>1. q \in Int /\ r \in 0 .. d - 1 /\ n = d * q + r
      BY <1>1, <1>2
    <2>2. TW!Average(n, d) = q
      BY <1>2 DEF TW!Average, TW!Truncated
    <2> HIDE DEF q, r
    <2>3. q * d = d * q /\ (q + 1) * d = d * q + d
      BY <2>1
    <2> QED BY <2>1, <2>2, <2>3
  <1>3. CASE n < 0
    <2> DEFINE q == (0 - n) \div d
               r == (0 - n) % d
    <2>1. q \in Int /\ r \in 0 .. d - 1 /\ 0 - n = d * q + r
      BY <1>1, <1>3
    <2>2. TW!Average(n, d) = IF r # 0 THEN 0 - q - 1 ELSE 0 - q
      BY <1>3 DEF TW!Average, TW!Truncated
    <2> HIDE DEF q, r
    <2>3. /\ (0 - q) * d = 0 - d * q /\ (0 - q + 1) * d = d - d * q
          /\ (0 - q - 1) * d = 0 - d * q - d /\ (0 - q - 1 + 1) * d = 0 - d * q
      BY <2>1
    <2>4. CASE r # 0
      BY <2>1, <2>2, <2>3, <2>4
    <2>5. CASE r = 0
      BY <2>1, <2>2, <2>3, <2>5
    <2> QED BY <2>4, <2>5
  <1> QED BY <1>2, <1>3

\* getTwapTick is exact: the difference of the two observed sums is the sum over the
\* window, and the average is its floor.
LEMMA InvExact == ASSUME OracleConstants, OracleInv PROVE TW!TwapExact
  <1> SUFFICES ASSUME NEW w \in 1 .. time, TW!TwapAnswers(w)
               PROVE  TW!TwapTick(w) * w <= TW!WindowSum[w] /\ TW!WindowSum[w] < (TW!TwapTick(w) + 1) * w
    BY DEF TW!TwapExact
  <1>1. time \in Nat /\ time - w \in Nat /\ time - w <= time /\ time - (time - w) = w /\ time - time = 0 /\ w \in Nat \ {0}
    BY DEF OracleInv, OracleConstants, TW!TypeOK, TW!Times
  <1>2. count >= 2 /\ TW!Answers(time) /\ TW!Answers(time - w) /\ count > 0
    BY DEF TW!TwapAnswers, TW!Answers
  <1>3. /\ TW!Extend(TW!Newest, time) - TW!ObserveCumulative(time - w) = TW!WindowSum[w]
        /\ TW!Extend(TW!Newest, time) \in Int /\ TW!ObserveCumulative(time - w) \in Int
    BY <1>1, <1>2, ObservedExactly
  <1>4. TW!ObserveCumulative(time) = TW!Extend(TW!Newest, time)
    <2>1. TW!Newest.timestamp <= time
      BY <1>2 DEF OracleInv, TW!RingOrdered
    <2>2. TW!Newest.timestamp \in Nat
      <3>1. TW!Newest \in Observations
        BY DEF TW!Newest, OracleInv, TW!TypeOK, Observations, TW!Times
      <3> QED BY <3>1 DEF Observations
    <2> QED BY <1>1, <2>1, <2>2 DEF TW!ObserveCumulative
  <1>5. TW!TwapTick(w) = TW!Average(TW!WindowSum[w], w) /\ TW!WindowSum[w] \in Int
    BY <1>3, <1>4 DEF TW!TwapTick
  <1> QED BY <1>1, <1>5, AverageIsFloor

\* The instance's Cardinality is the Cardinality of FiniteSets.
LEMMA SameCardinality == \A S : TW!Cardinality(S) = Cardinality(S)
  BY Zenon DEF TW!Cardinality, Cardinality, TW!IsFiniteSet, IsFiniteSet

\* What the oracle refuses it has forgotten: a ring that starts after the window holds
\* Size later blocks (pigeonhole).
LEMMA InvAnswers == ASSUME OracleConstants, OracleInv PROVE TW!AnswersWhatItKeeps
  <1> SUFFICES ASSUME Cardinality(traded) >= 2, NEW w \in 1 .. time,
                      \E s \in traded : s <= time - w,
                      Cardinality({s \in traded : s >= time - w}) < Size
               PROVE  TW!TwapAnswers(w)
    BY SameCardinality DEF TW!AnswersWhatItKeeps
  <1> DEFINE from == time - w
             Late == {s \in traded : s >= from}
  <1>1. /\ count \in 0 .. Size /\ Size \in Nat /\ Size >= 2 /\ time \in Nat /\ from \in Nat /\ from <= time
        /\ traded \subseteq 0 .. LastSecond /\ LastSecond \in Nat
    BY DEF OracleInv, OracleConstants, TW!TypeOK, TW!Times
  <1>2. \A k \in 0 .. count - 1 : TW!At(k).timestamp \in Nat
    BY ObservationsTyped DEF OracleInv, Observations, OracleConstants
  <1>3. IsFiniteSet(traded) /\ IsFiniteSet(Late)
    <2>1. IsFiniteSet(0 .. LastSecond)
      BY <1>1, FS_Interval
    <2> QED BY <1>1, <2>1, FS_Subset
  <1>4. Cardinality(Late) < Size
    OBVIOUS
  <1>5. PICK first \in traded : first <= from
    OBVIOUS
  <1> HIDE DEF from, Late
  <1>6. count >= 2
    <2>1. CASE count = 0
      <3>1. \A s \in traded : FALSE
        BY <1>1, <2>1 DEF OracleInv, Remembers, Recorded
      <3> QED BY <1>5, <3>1
    <2>2. CASE count = 1
      <3>1. \A s \in traded : s = TW!At(0).timestamp
        <4>1. \A k \in 0 .. count - 1 : k = 0
          BY <2>2
        <4>2. count # Size /\ \A s \in traded : Recorded(s)
          BY <1>1, <2>2 DEF OracleInv, Remembers
        <4> QED BY <4>1, <4>2, Zenon DEF Recorded
      <3>2. traded = {TW!At(0).timestamp}
        BY <1>5, <3>1
      <3>3. Cardinality(traded) = 1
        BY <3>2, FS_Singleton
      <3> QED BY <3>3
    <2> QED BY <1>1, <2>1, <2>2
  <1>7. 0 \in 0 .. count - 1 /\ count - 1 \in 0 .. count - 1
    BY <1>1, <1>6
  <1>8. from >= TW!At(0).timestamp
    <2> SUFFICES ASSUME from < TW!At(0).timestamp PROVE FALSE
      BY <1>1, <1>2, <1>7
    <2>1. \A k \in 0 .. count - 1 : TW!At(k).timestamp >= TW!At(0).timestamp
      BY <1>1, <1>2, <1>7 DEF OracleInv, TW!RingOrdered
    <2>2. first \in Nat
      BY <1>1, <1>5
    <2>3. count = Size
      BY <1>1, <1>2, <1>5, <1>7, <2>1, <2>2 DEF OracleInv, Remembers, Recorded
    <2>4. \A k \in 0 .. count - 1 : TW!At(k).timestamp \in Late
      BY <1>1, <1>2, <1>7, <2>1 DEF Late, OracleInv, Remembers
    <2> DEFINE f == [k \in 0 .. Size - 1 |-> TW!At(k).timestamp]
    <2>5. f \in [0 .. Size - 1 -> Late]
      BY <2>3, <2>4
    <2>6. IsFiniteSet(0 .. Size - 1) /\ Cardinality(0 .. Size - 1) = Size
      BY <1>1, FS_Interval
    <2>7. \A x, y \in 0 .. Size - 1 : x < y => f[x] # f[y]
      BY <1>2, <2>3 DEF OracleInv, TW!RingOrdered
    <2> HIDE DEF f
    <2>8. \E x, y \in 0 .. Size - 1 : x # y /\ f[x] = f[y]
      BY <1>3, <1>4, <2>5, <2>6, FS_PigeonHole
    <2>9. PICK x \in 0 .. Size - 1, y \in 0 .. Size - 1 : x # y /\ f[x] = f[y]
      BY <2>8
    <2> QED BY <1>1, <2>7, <2>9
  <1>9. time >= TW!At(0).timestamp
    BY <1>1, <1>2, <1>7, <1>8
  <1> QED BY <1>1, <1>6, <1>8, <1>9 DEF TW!TwapAnswers, TW!Answers, from

\* The TWAP oracle is sound for every ring of at least two slots, every set of integer
\* ticks and every horizon: exact, ordered, and silent only on what it has forgotten.
THEOREM OracleExact == ASSUME OracleConstants PROVE TW!Spec => []OracleSound
  <1>1. TW!Init => OracleInv
    BY OracleInit
  <1>2. OracleInv /\ [TW!Next]_TW!vars => OracleInv'
    BY OracleStep
  <1>3. OracleInv => OracleSound
    BY InvExact, InvAnswers DEF OracleSound, OracleInv
  <1> QED
    BY <1>1, <1>2, <1>3, PTL DEF TW!Spec

-----------------------------------------------------------------------------
\* KeeperSigner: the submission lock, the nonce cursor and what a receipt proves.

Stages     == {"queued", "locking", "preflight", "estimate", "send", "waiting", "confirmed", "done"}
Holding(j) == job[j].stage \in {"preflight", "estimate", "send", "waiting"}
Begun(j)   == job[j].stage \notin {"queued", "done"}
Configured == {"key", "rpc", "chain"} \subseteq env /\ env \cap {"relay", "public"} # {}

SignerTypeOK ==
    /\ signerOf \in [Jobs -> Signers]
    /\ lock \in [Signers -> Jobs \cup {NoJob}]
    /\ nextNonce \in [Signers -> Nat]
    /\ job \in [Jobs -> [stage : Stages, nonce : KS!Nonces, tries : Nat]]
    /\ accountCount \in KS!Nonces
    /\ waiting \subseteq [nonce : KS!Nonces, job : Jobs]
    /\ mined \in [KS!Nonces -> [job : Jobs \cup {NoJob}, outcome : {"none", "success", "skipped", "reverted"}]]
    /\ executed \subseteq KS!Orders /\ rows \subseteq KS!Orders
    /\ answered \in [KS!Nonces -> Nat]

\* Who is inside the submission lock has it.
LockHeld == \A j \in Jobs : Holding(j) => lock[signerOf[j]] = j

\* What a signer shared by all has answered for lies below its cursor, and who
\* has read a nonce read one from the cursor on.
CursorAhead(s) ==
    /\ \A n \in KS!Nonces : answered[n] <= 1 /\ (answered[n] > 0 => n < nextNonce[s])
    /\ \A j \in Jobs : job[j].stage \in {"estimate", "send"} => job[j].nonce >= nextNonce[s]
OneSigner(s) == \A j \in Jobs : signerOf[j] = s

\* Nothing begins, and nothing waits to be mined, without a configuration; a
\* success that was mined, or confirmed, is an execution.
Evidence ==
    /\ (\E j \in Jobs : Begun(j)) \/ waiting # {} => Configured
    /\ \A n \in KS!Nonces : mined[n].outcome = "success" => executed # {}
    /\ (\E j \in Jobs : job[j].stage = "confirmed") \/ rows # {} => executed # {}

SignerInv ==
    /\ SignerTypeOK /\ LockHeld /\ Evidence
    /\ \A s \in Signers : OneSigner(s) => CursorAhead(s)

\* A signer that all use is shared, if there are two messages.
LEMMA SharedByAll ==
    ASSUME SignerConstants, NEW s \in Signers, OneSigner(s)
    PROVE  KS!Shared(s)
  <1>1. \A S : KS!Cardinality(S) = Cardinality(S)
    BY Zenon DEF KS!Cardinality, Cardinality, KS!IsFiniteSet, IsFiniteSet
  <1>2. {j \in Jobs : signerOf[j] = s} = Jobs
    BY DEF OneSigner
  <1> QED BY <1>1, <1>2 DEF KS!Shared, SignerConstants

\* A channel other than evaluation-only is a complete configuration.
LEMMA ChannelConfigured == ASSUME KS!channel # "evaluation-only" PROVE Configured
  BY DEF KS!channel, Configured

\* Nothing has been delivered, submitted or recorded.
LEMMA SignerInit == ASSUME SignerConstants, KS!Init PROVE SignerInv
  <1>1. SignerTypeOK
    BY DEF SignerConstants, KS!Init, SignerTypeOK, KS!Nonces, KS!Orders, KS!NoTx, Stages
  <1>2. \A j \in Jobs : job[j].stage = "queued"
    BY DEF KS!Init
  <1>3. LockHeld /\ Evidence
    BY <1>2 DEF KS!Init, LockHeld, Holding, Begun, Evidence, KS!NoTx
  <1>4. \A s \in Signers : CursorAhead(s)
    BY <1>2 DEF KS!Init, CursorAhead
  <1> QED BY <1>1, <1>3, <1>4 DEF SignerInv

\* The stage one message goes to, and what becomes of its lock.
Moves(j, to) ==
    /\ to \in [stage : Stages, nonce : KS!Nonces, tries : Nat]
    /\ job' = [job EXCEPT ![j] = to]
Unlocks(j) == lock' = IF lock[signerOf[j]] = j THEN [lock EXCEPT ![signerOf[j]] = NoJob] ELSE lock

\* Retry queues the message again or gives it up, and unlocks.
LEMMA RetryMoves ==
    ASSUME SignerConstants, SignerTypeOK, NEW j \in Jobs, KS!Retry(j)
    PROVE  Unlocks(j) /\ \E to : Moves(j, to) /\ to.stage \in {"queued", "done"}
  <1> DEFINE to == IF job[j].tries < MaxTries
                   THEN [stage |-> "queued", nonce |-> 0, tries |-> job[j].tries + 1]
                   ELSE [job[j] EXCEPT !.stage = "done"]
  <1>1. job[j] \in [stage : Stages, nonce : KS!Nonces, tries : Nat]
    BY DEF SignerTypeOK
  <1>2. to \in [stage : Stages, nonce : KS!Nonces, tries : Nat] /\ to.stage \in {"queued", "done"}
    BY <1>1 DEF SignerConstants, KS!Nonces, Stages
  <1>3. job' = [job EXCEPT ![j] = to]
    BY DEF KS!Retry
  <1> HIDE DEF to
  <1>4. Unlocks(j)
    BY DEF KS!Retry, KS!Released, KS!Inside, KS!signer, Unlocks
  <1> QED BY <1>2, <1>3, <1>4 DEF Moves

\* A message that ends unlocks.
LEMMA EndMoves ==
    ASSUME SignerConstants, SignerTypeOK, NEW j \in Jobs, NEW stage \in Stages, KS!End(j, stage)
    PROVE  Unlocks(j) /\ \E to : Moves(j, to) /\ to.stage = stage
  <1> DEFINE to == [job[j] EXCEPT !.stage = stage]
  <1>1. job[j] \in [stage : Stages, nonce : KS!Nonces, tries : Nat]
    BY DEF SignerTypeOK
  <1>2. to \in [stage : Stages, nonce : KS!Nonces, tries : Nat] /\ to.stage = stage
    BY <1>1
  <1>3. job' = [job EXCEPT ![j] = to]
    BY <1>1 DEF KS!End
  <1> HIDE DEF to
  <1>4. Unlocks(j)
    BY DEF KS!End, KS!Released, KS!Inside, KS!signer, Unlocks
  <1> QED BY <1>2, <1>3, <1>4 DEF Moves

\* A message that leaves, wherever it was, disturbs no other and no nonce.
LEMMA LeavesInv ==
    ASSUME SignerConstants, SignerInv, NEW j \in Jobs, NEW to, Moves(j, to), Unlocks(j),
           to.stage \in {"queued", "done", "confirmed"},
           to.stage = "confirmed" => executed # {} /\ Begun(j),
           waiting' \subseteq [nonce : KS!Nonces, job : Jobs],
           waiting' # {} => waiting # {} \/ Begun(j),
           UNCHANGED <<env, signerOf, nextNonce, accountCount, mined, executed, answered>>,
           rows' = rows \/ (rows' \subseteq KS!Orders /\ executed # {})
    PROVE  SignerInv'
  <1>1. \A i \in Jobs : job'[i] = IF i = j THEN to ELSE job[i]
    BY DEF SignerInv, SignerTypeOK, Moves
  <1>2. SignerTypeOK'
    BY DEF SignerInv, SignerTypeOK, Moves, Unlocks
  <1>3. LockHeld'
    <2> SUFFICES ASSUME NEW i \in Jobs, Holding(i)' PROVE lock'[signerOf'[i]] = i
      BY DEF LockHeld
    <2>1. i # j /\ Holding(i)
      BY <1>1 DEF Holding
    <2>2. lock[signerOf[i]] = i /\ signerOf[i] \in Signers /\ signerOf[j] \in Signers /\ i # NoJob
      BY <2>1 DEF SignerInv, SignerTypeOK, LockHeld, SignerConstants
    <2> QED BY <2>1, <2>2 DEF Unlocks, SignerInv, SignerTypeOK
  <1>4. Evidence'
    BY <1>1 DEF SignerInv, Evidence, Begun, Configured
  <1>5. \A s \in Signers : OneSigner(s)' => CursorAhead(s)'
    BY <1>1 DEF SignerInv, OneSigner, CursorAhead
  <1> QED BY <1>2, <1>3, <1>4, <1>5 DEF SignerInv

\* A delivery is refused without a configuration, or begins; a cursor it resets is its
\* own.
LEMMA StartInv ==
    ASSUME SignerConstants, SignerInv, NEW j \in Jobs, KS!sendTransaction(j)
    PROVE  SignerInv'
  <1>1. CASE KS!channel = "evaluation-only"
    <2>1. KS!End(j, "done") /\ UNCHANGED <<env, signerOf, nextNonce, accountCount, waiting, mined, executed, rows, answered>>
      BY <1>1 DEF KS!sendTransaction, KS!world
    <2>2. Unlocks(j) /\ \E to : Moves(j, to) /\ to.stage = "done"
      BY <2>1, EndMoves DEF SignerInv, Stages
    <2> QED BY <2>1, <2>2, LeavesInv DEF SignerInv, SignerTypeOK
  <1>2. CASE KS!channel # "evaluation-only"
    <2>1. /\ job' = [job EXCEPT ![j].stage = "locking"] /\ job[j].stage = "queued"
          /\ nextNonce' = IF KS!Shared(signerOf[j]) THEN nextNonce ELSE [nextNonce EXCEPT ![signerOf[j]] = 0]
          /\ UNCHANGED <<env, signerOf, lock, accountCount, waiting, mined, executed, rows, answered>>
      BY <1>2 DEF KS!sendTransaction, KS!world, KS!signer, KS!At
    <2>2. \A i \in Jobs : job'[i].stage = (IF i = j THEN "locking" ELSE job[i].stage)
                        /\ job'[i].nonce = job[i].nonce
      BY <2>1 DEF SignerInv, SignerTypeOK
    <2>3. SignerTypeOK'
      BY <2>1 DEF SignerInv, SignerTypeOK, Stages
    <2>4. LockHeld'
      BY <2>1, <2>2 DEF SignerInv, LockHeld, Holding
    <2>5. Evidence'
      BY <1>2, <2>1, <2>2, ChannelConfigured DEF SignerInv, Evidence, Begun, Configured
    <2>6. ASSUME NEW s \in Signers, OneSigner(s)' PROVE CursorAhead(s)'
      <3>1. OneSigner(s) /\ KS!Shared(signerOf[j])
        BY <2>1, <2>6, SharedByAll DEF OneSigner
      <3> QED BY <2>1, <2>2, <3>1 DEF SignerInv, CursorAhead
    <2> QED BY <2>3, <2>4, <2>5, <2>6 DEF SignerInv
  <1> QED BY <1>1, <1>2

\* The submission lock is taken only when it is free.
LEMMA EnterLockInv ==
    ASSUME SignerConstants, SignerInv, NEW j \in Jobs, KS!withSubmissionLock(j)
    PROVE  SignerInv'
  <1>1. /\ job' = [job EXCEPT ![j].stage = "preflight"] /\ job[j].stage = "locking"
        /\ lock[signerOf[j]] = NoJob /\ lock' = [lock EXCEPT ![signerOf[j]] = j]
        /\ UNCHANGED <<env, signerOf, nextNonce, accountCount, waiting, mined, executed, rows, answered>>
    BY DEF KS!withSubmissionLock, KS!world, KS!signer, KS!At, KS!Free
  <1>2. \A i \in Jobs : job'[i].stage = (IF i = j THEN "preflight" ELSE job[i].stage)
                      /\ job'[i].nonce = job[i].nonce
    BY <1>1 DEF SignerInv, SignerTypeOK
  <1>3. SignerTypeOK'
    BY <1>1 DEF SignerInv, SignerTypeOK, Stages
  <1>4. LockHeld'
    <2> SUFFICES ASSUME NEW i \in Jobs, Holding(i)' PROVE lock'[signerOf'[i]] = i
      BY DEF LockHeld
    <2>1. CASE i = j
      BY <1>1, <2>1 DEF SignerInv, SignerTypeOK
    <2>2. CASE i # j
      <3>1. lock[signerOf[i]] = i /\ i # NoJob
        BY <1>2, <2>2 DEF Holding, SignerInv, LockHeld, SignerConstants
      <3> QED BY <1>1, <3>1 DEF SignerInv, SignerTypeOK
    <2> QED BY <2>1, <2>2
  <1>5. Evidence'
    BY <1>1, <1>2 DEF SignerInv, Evidence, Begun, Configured
  <1>6. \A s \in Signers : OneSigner(s)' => CursorAhead(s)'
    BY <1>1, <1>2 DEF SignerInv, OneSigner, CursorAhead
  <1> QED BY <1>3, <1>4, <1>5, <1>6 DEF SignerInv

\* A message inside the lock that goes on there, with a nonce from the cursor on.
LEMMA StaysInv ==
    ASSUME SignerConstants, SignerInv, NEW j \in Jobs, NEW to, Moves(j, to),
           Holding(j), to.stage \in {"estimate", "send"},
           to.nonce >= nextNonce[signerOf[j]],
           UNCHANGED <<env, signerOf, lock, nextNonce, accountCount, waiting, mined, executed, rows, answered>>
    PROVE  SignerInv'
  <1>1. \A i \in Jobs : job'[i] = IF i = j THEN to ELSE job[i]
    BY DEF SignerInv, SignerTypeOK, Moves
  <1>2. SignerTypeOK'
    BY DEF SignerInv, SignerTypeOK, Moves
  <1>3. LockHeld'
    BY <1>1 DEF SignerInv, LockHeld, Holding
  <1>4. Evidence'
    BY <1>1 DEF SignerInv, Evidence, Begun, Holding, Configured
  <1>5. ASSUME NEW s \in Signers, OneSigner(s)' PROVE CursorAhead(s)'
    <2>1. OneSigner(s) /\ signerOf[j] = s /\ CursorAhead(s)
      BY <1>5 DEF OneSigner, SignerInv
    <2> QED BY <1>1, <2>1 DEF CursorAhead
  <1> QED BY <1>2, <1>3, <1>4, <1>5 DEF SignerInv

\* The nonce that is read is not below the cursor.
LEMMA ReadNonceInv ==
    ASSUME SignerConstants, SignerInv, NEW j \in Jobs, KS!ReadNonce(j)
    PROVE  SignerInv'
  <1>1. UNCHANGED <<env, signerOf, nextNonce, accountCount, waiting, mined, executed, rows, answered>>
        /\ job[j].stage = "preflight"
    BY DEF KS!ReadNonce, KS!world, KS!At
  <1>2. CASE KS!Retry(j)
    <2>1. Unlocks(j) /\ \E to : Moves(j, to) /\ to.stage \in {"queued", "done"}
      BY <1>2, RetryMoves DEF SignerInv
    <2> QED BY <1>1, <2>1, LeavesInv DEF SignerInv, SignerTypeOK
  <1>3. ASSUME NEW n \in KS!PendingCounts,
               KS!AtLeast(n, nextNonce[signerOf[j]]) \in KS!Nonces,
               job' = [job EXCEPT ![j].stage = "estimate", ![j].nonce = KS!AtLeast(n, nextNonce[signerOf[j]])],
               UNCHANGED lock
        PROVE  SignerInv'
    <2> DEFINE at == KS!AtLeast(n, nextNonce[signerOf[j]])
               to == [job[j] EXCEPT !.stage = "estimate", !.nonce = at]
    <2>1. job[j] \in [stage : Stages, nonce : KS!Nonces, tries : Nat] /\ at \in KS!Nonces
      BY <1>3 DEF SignerInv, SignerTypeOK
    <2>2. at >= nextNonce[signerOf[j]]
      <3>1. n \in Nat /\ nextNonce[signerOf[j]] \in Nat
        BY <1>3 DEF KS!PendingCounts, KS!Nonces, SignerInv, SignerTypeOK
      <3> QED BY <3>1 DEF KS!AtLeast
    <2> HIDE DEF at
    <2>3. to \in [stage : Stages, nonce : KS!Nonces, tries : Nat] /\ to.stage = "estimate" /\ to.nonce = at
      BY <2>1 DEF Stages
    <2>4. Moves(j, to)
      <3>1. job' = [job EXCEPT ![j] = to]
        BY <1>3, <2>1 DEF SignerInv, SignerTypeOK, at
      <3> QED BY <2>3, <3>1 DEF Moves
    <2> HIDE DEF to
    <2> QED BY <1>1, <1>3, <2>2, <2>3, <2>4, StaysInv DEF Holding
  <1> QED BY <1>2, <1>3 DEF KS!ReadNonce, KS!signer

\* The other reads of preflight touch neither nonce nor lock.
LEMMA PreflightInv ==
    ASSUME SignerConstants, SignerInv, NEW j \in Jobs, KS!Preflight(j)
    PROVE  SignerInv'
  <1>1. UNCHANGED <<env, signerOf, nextNonce, accountCount, waiting, mined, executed, rows, answered>>
        /\ job[j].stage = "estimate"
    BY DEF KS!Preflight, KS!world, KS!At
  <1>2. CASE KS!Retry(j)
    <2>1. Unlocks(j) /\ \E to : Moves(j, to) /\ to.stage \in {"queued", "done"}
      BY <1>2, RetryMoves DEF SignerInv
    <2> QED BY <1>1, <2>1, LeavesInv DEF SignerInv, SignerTypeOK
  <1>3. CASE KS!End(j, "done")
    <2>1. Unlocks(j) /\ \E to : Moves(j, to) /\ to.stage = "done"
      BY <1>3, EndMoves DEF SignerInv, Stages
    <2> QED BY <1>1, <2>1, LeavesInv DEF SignerInv, SignerTypeOK
  <1>4. CASE job' = [job EXCEPT ![j].stage = "send"] /\ UNCHANGED lock
    <2> DEFINE to == [job[j] EXCEPT !.stage = "send"]
    <2>1. job[j] \in [stage : Stages, nonce : KS!Nonces, tries : Nat]
      BY DEF SignerInv, SignerTypeOK
    <2>2. Moves(j, to) /\ to.stage = "send" /\ to.nonce = job[j].nonce
      BY <1>4, <2>1 DEF Moves, Stages
    <2>3. LockHeld /\ SignerTypeOK /\ Evidence
      BY DEF SignerInv
    <2> HIDE DEF to
    <2>4. \A i \in Jobs : job'[i] = IF i = j THEN to ELSE job[i]
      BY <2>2, <2>3 DEF SignerTypeOK, Moves
    <2>5. SignerTypeOK'
      BY <1>1, <1>4, <2>2, <2>3 DEF SignerTypeOK, Moves
    <2>6. LockHeld'
      BY <1>1, <1>4, <2>2, <2>3, <2>4 DEF LockHeld, Holding
    <2>7. Evidence'
      BY <1>1, <2>2, <2>3, <2>4 DEF Evidence, Begun, Configured
    <2>8. \A s \in Signers : OneSigner(s)' => CursorAhead(s)'
      BY <1>1, <2>2, <2>4 DEF SignerInv, OneSigner, CursorAhead
    <2> QED BY <2>5, <2>6, <2>7, <2>8 DEF SignerInv
  <1> QED BY <1>2, <1>3, <1>4 DEF KS!Preflight

\* A hash answered moves the cursor past its nonce; nobody else holds a nonce meanwhile.
LEMMA SubmitInv ==
    ASSUME SignerConstants, SignerInv, NEW j \in Jobs, KS!Submit(j)
    PROVE  SignerInv'
  <1>1. UNCHANGED <<env, signerOf, accountCount, mined, executed, rows>> /\ job[j].stage = "send"
    BY DEF KS!Submit, KS!At
  <1>2. job[j] \in [stage : Stages, nonce : KS!Nonces, tries : Nat] /\ job[j].nonce \in Nat
    BY DEF SignerInv, SignerTypeOK, SignerConstants, KS!Nonces
  <1>3. KS!Taken(j) \/ UNCHANGED waiting => waiting' \subseteq [nonce : KS!Nonces, job : Jobs]
    BY <1>2 DEF KS!Taken, SignerInv, SignerTypeOK
  <1>4. CASE /\ KS!Taken(j) \/ UNCHANGED waiting
             /\ KS!Retry(j) \/ (KS!channel = "private-relay" /\ KS!End(j, "done"))
             /\ UNCHANGED <<nextNonce, answered>>
    <2>1. Unlocks(j) /\ \E to : Moves(j, to) /\ to.stage \in {"queued", "done"}
      BY <1>4, RetryMoves, EndMoves DEF SignerInv, Stages
    <2> QED BY <1>1, <1>3, <1>4, <2>1, LeavesInv DEF Begun
  <1>5. CASE /\ KS!Taken(j)
             /\ nextNonce' = [nextNonce EXCEPT ![signerOf[j]] = job[j].nonce + 1]
             /\ answered' = [answered EXCEPT ![job[j].nonce] = @ + 1]
             /\ job' = [job EXCEPT ![j].stage = "waiting"]
             /\ UNCHANGED lock
    <2>1. \A i \in Jobs : job'[i].stage = (IF i = j THEN "waiting" ELSE job[i].stage)
                        /\ job'[i].nonce = job[i].nonce
      BY <1>5 DEF SignerInv, SignerTypeOK
    <2>2. SignerTypeOK'
      BY <1>1, <1>2, <1>3, <1>5 DEF SignerInv, SignerTypeOK, Stages
    <2>3. LockHeld'
      BY <1>1, <1>5, <2>1 DEF SignerInv, LockHeld, Holding
    <2>4. Evidence'
      BY <1>1, <2>1 DEF SignerInv, Evidence, Begun, Configured
    <2>5. ASSUME NEW s \in Signers, OneSigner(s)' PROVE CursorAhead(s)'
      <3>1. signerOf[j] = s /\ OneSigner(s) /\ CursorAhead(s)
        BY <1>1, <2>5 DEF OneSigner, SignerInv
      <3>2. job[j].nonce >= nextNonce[s] /\ nextNonce[s] \in Nat /\ nextNonce'[s] = job[j].nonce + 1
        BY <1>1, <1>5, <3>1 DEF CursorAhead, SignerInv, SignerTypeOK
      <3>3. ASSUME NEW n \in KS!Nonces PROVE answered'[n] <= 1 /\ (answered'[n] > 0 => n < nextNonce'[s])
        <4>1. answered[n] \in Nat /\ n \in Nat /\ answered[n] <= 1 /\ (answered[n] > 0 => n < nextNonce[s])
          BY <3>1 DEF CursorAhead, SignerInv, SignerTypeOK, KS!Nonces, SignerConstants
        <4>2. answered'[n] = IF n = job[j].nonce THEN answered[n] + 1 ELSE answered[n]
          BY <1>5 DEF SignerInv, SignerTypeOK
        <4> QED BY <1>2, <3>2, <4>1, <4>2
      <3>4. ASSUME NEW i \in Jobs, job'[i].stage \in {"estimate", "send"} PROVE FALSE
        <4>1. i # j /\ Holding(i) /\ Holding(j)
          BY <1>1, <2>1, <3>4 DEF Holding
        <4> QED BY <3>1, <4>1 DEF SignerInv, LockHeld, OneSigner
      <3> QED BY <3>3, <3>4 DEF CursorAhead
    <2> QED BY <2>2, <2>3, <2>4, <2>5 DEF SignerInv
  <1> QED BY <1>4, <1>5 DEF KS!Submit, KS!signer

\* A receipt is believed only if it succeeded, and then an order was executed.
LEMMA ConfirmInv ==
    ASSUME SignerConstants, SignerInv, NEW j \in Jobs, KS!awaitConfirmation(j)
    PROVE  SignerInv'
  <1>1. UNCHANGED <<env, signerOf, nextNonce, accountCount, waiting, mined, executed, rows, answered>>
        /\ job[j].stage = "waiting"
    BY DEF KS!awaitConfirmation, KS!world, KS!At
  <1>2. CASE KS!Retry(j)
    <2>1. Unlocks(j) /\ \E to : Moves(j, to) /\ to.stage \in {"queued", "done"}
      BY <1>2, RetryMoves DEF SignerInv
    <2> QED BY <1>1, <2>1, LeavesInv DEF SignerInv, SignerTypeOK
  <1>3. ASSUME NEW receipt \in KS!Receipts(j),
               KS!End(j, IF receipt.outcome = "reverted" THEN "done"
                         ELSE IF KS!Confirms(receipt) THEN "confirmed" ELSE "done")
        PROVE  SignerInv'
    <2> DEFINE stage == IF receipt.outcome = "reverted" THEN "done"
                        ELSE IF KS!Confirms(receipt) THEN "confirmed" ELSE "done"
    <2>1. stage \in {"done", "confirmed"} /\ stage \in Stages
      BY DEF Stages
    <2>2. stage = "confirmed" => executed # {}
      <3>1. receipt = mined[job[j].nonce] /\ job[j].nonce \in KS!Nonces
        BY <1>3 DEF KS!Receipts, SignerInv, SignerTypeOK
      <3> QED BY <3>1 DEF KS!Confirms, SignerInv, Evidence
    <2> HIDE DEF stage
    <2>3. KS!End(j, stage)
      BY <1>3 DEF stage
    <2>4. Unlocks(j) /\ \E to : Moves(j, to) /\ to.stage = stage
      BY <2>1, <2>3, EndMoves DEF SignerInv
    <2>5. Begun(j) /\ waiting' \subseteq [nonce : KS!Nonces, job : Jobs]
      BY <1>1 DEF Begun, SignerInv, SignerTypeOK
    <2> QED BY <1>1, <2>1, <2>2, <2>4, <2>5, LeavesInv
  <1> QED BY <1>2, <1>3 DEF KS!awaitConfirmation

\* The row is written for a confirmed message.
LEMMA RecordInv ==
    ASSUME SignerConstants, SignerInv, NEW j \in Jobs, KS!Record(j)
    PROVE  SignerInv'
  <1>1. UNCHANGED <<env, signerOf, nextNonce, accountCount, waiting, mined, executed, answered>>
        /\ job[j].stage = "confirmed" /\ rows' = rows \cup {OrderOf[j]} /\ KS!End(j, "done")
    BY DEF KS!Record, KS!world, KS!At
  <1>2. executed # {} /\ rows' \subseteq KS!Orders
    BY <1>1 DEF SignerInv, Evidence, SignerTypeOK, KS!Orders
  <1>3. Unlocks(j) /\ \E to : Moves(j, to) /\ to.stage = "done"
    BY <1>1, EndMoves DEF SignerInv, Stages
  <1> QED BY <1>1, <1>2, <1>3, LeavesInv DEF SignerInv, SignerTypeOK

\* The chain mines what waits, or the relay forgets it.
LEMMA ChainInv ==
    ASSUME SignerConstants, SignerInv, NEW t \in [nonce : KS!Nonces, job : Jobs], KS!Mine(t) \/ KS!Forget(t)
    PROVE  SignerInv'
  <1>1. /\ UNCHANGED <<env, signerOf, lock, nextNonce, job, rows, answered>>
        /\ waiting' \subseteq waiting
    BY DEF KS!Mine, KS!Forget
  <1>2. CASE KS!Forget(t)
    <2>1. UNCHANGED <<accountCount, mined, executed>>
      BY <1>2 DEF KS!Forget
    <2> QED BY <1>1, <2>1
         DEF SignerInv, SignerTypeOK, LockHeld, Holding, Evidence, Begun, Configured, OneSigner, CursorAhead
  <1>3. CASE KS!Mine(t)
    <2>1. PICK outcome \in {"success", "skipped", "reverted"} :
             /\ mined' = [mined EXCEPT ![accountCount] = [job |-> t.job, outcome |-> outcome]]
             /\ executed' = IF outcome = "success" THEN executed \cup {OrderOf[t.job]} ELSE executed
      BY <1>3 DEF KS!Mine
    <2>2. accountCount' = accountCount + 1 /\ accountCount < MaxNonce
      BY <1>3 DEF KS!Mine
    <2>3. SignerTypeOK'
      <3>1. accountCount' \in KS!Nonces
        BY <2>2 DEF SignerInv, SignerTypeOK, KS!Nonces, SignerConstants
      <3>2. executed' \subseteq KS!Orders
        BY <2>1 DEF SignerInv, SignerTypeOK, KS!Orders
      <3>3. [job |-> t.job, outcome |-> outcome]
               \in [job : Jobs \cup {NoJob}, outcome : {"none", "success", "skipped", "reverted"}]
        OBVIOUS
      <3>4. mined' \in [KS!Nonces -> [job : Jobs \cup {NoJob}, outcome : {"none", "success", "skipped", "reverted"}]]
        BY <2>1, <3>3 DEF SignerInv, SignerTypeOK
      <3> QED BY <1>1, <3>1, <3>2, <3>4 DEF SignerInv, SignerTypeOK
    <2>4. Evidence'
      <3>1. executed # {} => executed' # {}
        BY <2>1
      <3>2. \A n \in KS!Nonces : mined'[n].outcome = "success" => executed' # {}
        <4> TAKE n \in KS!Nonces
        <4>1. mined'[n] = IF n = accountCount THEN [job |-> t.job, outcome |-> outcome] ELSE mined[n]
          BY <2>1 DEF SignerInv, SignerTypeOK
        <4> QED BY <2>1, <3>1, <4>1 DEF SignerInv, Evidence
      <3> QED BY <1>1, <3>1, <3>2 DEF SignerInv, Evidence, Begun, Configured
    <2>5. LockHeld' /\ \A s \in Signers : OneSigner(s)' => CursorAhead(s)'
      BY <1>1 DEF SignerInv, LockHeld, Holding, OneSigner, CursorAhead
    <2> QED BY <2>3, <2>4, <2>5 DEF SignerInv
  <1> QED BY <1>2, <1>3

\* The signer is sound for every set of at least two messages, signers and environments:
\* distinct nonces for those who share it, nothing sent unconfigured, no row without an
\* execution.
THEOREM SignerSound == ASSUME SignerConstants PROVE KS!Spec => []SubmissionsSound
  <1>1. KS!Init => SignerInv
    BY SignerInit
  <1>2. SignerInv /\ [KS!Next]_KS!vars => SignerInv'
    <2> SUFFICES ASSUME SignerInv, [KS!Next]_KS!vars PROVE SignerInv'
      OBVIOUS
    <2>1. CASE UNCHANGED KS!vars
      BY <2>1 DEF KS!vars, SignerInv, SignerTypeOK, LockHeld, Holding, Evidence, Begun, Configured,
                  OneSigner, CursorAhead
    <2>2. ASSUME NEW j \in Jobs,
                 \/ KS!sendTransaction(j) \/ KS!withSubmissionLock(j) \/ KS!ReadNonce(j) \/ KS!Preflight(j)
                 \/ KS!Submit(j) \/ KS!awaitConfirmation(j) \/ KS!Record(j)
          PROVE  SignerInv'
      BY <2>2, StartInv, EnterLockInv, ReadNonceInv, PreflightInv, SubmitInv, ConfirmInv, RecordInv
    <2>3. ASSUME NEW n \in KS!Nonces, NEW j \in Jobs,
                 KS!Mine([nonce |-> n, job |-> j]) \/ KS!Forget([nonce |-> n, job |-> j])
          PROVE  SignerInv'
      BY <2>3, ChainInv
    <2> QED BY <2>1, <2>2, <2>3 DEF KS!Next
  <1>3. SignerInv => SubmissionsSound
    <2> SUFFICES ASSUME SignerInv PROVE KS!SubmissionsSound
      BY DEF SubmissionsSound
    <2>1. (\E s \in Signers : \A j \in Jobs : signerOf[j] = s) => \A n \in KS!Nonces : answered[n] <= 1
      BY DEF SignerInv, OneSigner, CursorAhead
    <2>2. waiting # {} => {"key", "rpc", "chain"} \subseteq env /\ env \cap {"relay", "public"} # {}
      BY DEF SignerInv, Evidence, Configured
    <2>3. rows # {} => executed # {}
      BY DEF SignerInv, Evidence
    <2> QED BY <2>1, <2>2, <2>3 DEF KS!SubmissionsSound
  <1> QED
    BY <1>1, <1>2, <1>3, PTL DEF KS!Spec
=============================================================================
