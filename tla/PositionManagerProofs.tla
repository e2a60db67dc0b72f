------------------------ MODULE PositionManagerProofs ------------------------
(***************************************************************************)
(* Proofs about PositionManager: whatever the callees of a call do, the    *)
(* tokens stand for exactly the pool's liquidity, and a call that is not   *)
(* reverted settles up.                                                    *)
(*                                                                         *)
(* The first invariant says, for every phase of a call, which position the *)
(* pool and the ledger hold for the token the call is about; the second    *)
(* what the call has moved so far.                                         *)
(***************************************************************************)
EXTENDS PositionManager, TLAPS

Matches(id, p, pl) ==
    \A r \in Ranges : pl[id][r] = IF p.range = r THEN p.liquidity ELSE 0

\* What becomes of the position of the call, in the pool first, in the ledger
\* when the phase is refund or pay.
Wanted == [range |-> call.params.range, liquidity |-> call.params.liquidity]
Left   == IF call.params.liquidity = call.position.liquidity THEN NoPosition
          ELSE [call.position EXCEPT !.liquidity = @ - call.params.liquidity]

MintInPool   == IF call.phase \in {"pull", "add"} THEN NoPosition ELSE Wanted
RemoveInPool == IF call.phase = "remove" THEN call.position ELSE Left
RebalanceInPool ==
    IF call.phase \in {"pull", "remove"} THEN call.position
    ELSE IF call.phase \in {"take", "add"} THEN NoPosition ELSE Wanted
InPool == IF call.action = "mint" THEN MintInPool
          ELSE IF call.action = "remove" THEN RemoveInPool ELSE RebalanceInPool
InLedger == IF call.phase \in {"refund", "pay"} THEN InPool
            ELSE IF call.action = "mint" THEN NoPosition ELSE call.position

Stages ==
    /\ call.action = "mint" =>
          call.phase \in {"pull", "add", "settle", "record", "refund"} /\ call.position = Wanted
    /\ call.action = "remove" =>
          /\ call.phase \in {"remove", "take", "record", "pay"}
          /\ call.params.liquidity <= call.position.liquidity
    /\ call.action = "rebalance" => call.phase # "pay"

Owned(ps, os)   == \A id \in Ids : os[id] # NoOne <=> ps[id] # NoPosition
Fresh(next, ps) == \A id \in Ids : id >= next => ps[id] = NoPosition
Restorable(s)   == Backs(s.positions, s.owner, s.pool) /\ Fresh(s.nextTokenId, s.positions)

InCall ==
    /\ Restorable(call.saved)
    /\ Stages
    /\ call.id < nextTokenId
    /\ positions[call.id] = InLedger
    /\ Matches(call.id, InPool, pool)
    /\ \A id \in Ids \ {call.id} : Matches(id, positions[id], pool)
    /\ call.phase = "take" => AtMost(call.closed, reserve)

\* TypeOK, one variable at a time.
Typed ==
    /\ nextTokenId \in 1 .. MaxTokens + 1
    /\ positions \in [Ids -> Positions \cup {NoPosition}]
    /\ owner \in [Ids -> Users \cup {NoOne}]
    /\ pool \in [Ids -> [Ranges -> Nat]]
    /\ purse \in [Users -> Amounts]
    /\ held \in Amounts /\ reserve \in Amounts /\ outside \in Amounts
    /\ call \in Calls \cup {NoCall}

IInv ==
    /\ Typed
    /\ Owned(positions, owner)
    /\ Fresh(nextTokenId, positions)
    /\ PoolBacksTokens
    /\ ~ Idle => InCall

-----------------------------------------------------------------------------
\* Sums and differences of amounts.
LEMMA AmountTypes ==
    /\ Zero \in Amounts
    /\ \A a \in Choices : a \in Amounts
    /\ \A a, b \in Amounts : Plus(a, b) \in Amounts
    /\ \A a, b \in Amounts : AtMost(b, a) => Minus(a, b) \in Amounts
    /\ \A d \in [Currencies -> Int], a \in Amounts :
          Plus(d, a) \in [Currencies -> Int] /\ Minus(d, a) \in [Currencies -> Int]
  BY PositionAssumption DEF Zero, Amounts, Choices, Plus, Minus, AtMost

\* A call on the stack, and the types of what it carries.
LEMMA CallTypes ==
    ASSUME IInv, ~ Idle
    PROVE  /\ call \in Calls /\ InCall
           /\ call.id \in Ids /\ call.position \in Positions /\ call.position # NoPosition
           /\ call.params.range \in Ranges /\ call.params.liquidity \in 1 .. MaxLiquidity
           /\ Wanted \in Positions
  <1>1. call \in Calls /\ InCall
    BY DEF IInv, Typed, Idle, NoCall
  <1> QED
    BY <1>1, PositionAssumption DEF Calls, Params, Positions, NoPosition, Wanted

\* The initial state satisfies IInv: no token, no position, no call.
LEMMA InitInv == Init => IInv
  BY PositionAssumption
  DEF Init, IInv, Typed, Owned, Fresh, PoolBacksTokens, Backs, Idle, NoCall, NoPosition,
      Zero, Amounts, Ids

-----------------------------------------------------------------------------
\* What callees may do: a token changes hands, currency is sent.
LEMMA TransferInv ==
    ASSUME IInv, NEW sender \in Users, NEW to \in Users, NEW id \in Ids,
           TransferToken(sender, id, to)
    PROVE  IInv'
  <1>1. /\ owner[id] # NoOne /\ owner' = [owner EXCEPT ![id] = to] /\ to # NoOne
        /\ UNCHANGED <<nextTokenId, positions, pool, money, call>>
    BY PositionAssumption DEF TransferToken, Authorized
  <1>2. Typed'
    BY <1>1 DEF Typed, IInv, money
  <1>3. Owned(positions, owner)'
    BY <1>1 DEF Typed, IInv, Owned
  <1>4. PoolBacksTokens'
    BY <1>1, <1>3 DEF IInv, PoolBacksTokens, Backs, Idle, Owned
  <1>5. ~ Idle' => InCall'
    BY <1>1 DEF IInv, Idle, InCall, money, Stages, InLedger, InPool, MintInPool,
                RemoveInPool, RebalanceInPool, Wanted, Left
  <1> QED
    BY <1>1, <1>2, <1>3, <1>4, <1>5 DEF IInv, Fresh

\* Currency sent to the contract from outside disturbs no call.
LEMMA GiveInv == ASSUME IInv, NEW c \in Currencies, Give(c) PROVE IInv'
  <1>1. /\ outside[c] > 0
        /\ outside' = [outside EXCEPT ![c] = @ - 1]
        /\ held' = [held EXCEPT ![c] = @ + 1]
        /\ UNCHANGED <<ledger, pool, purse, reserve, call>>
    BY DEF Give
  <1>2. Typed'
    BY <1>1 DEF Typed, IInv, ledger, Amounts
  <1>3. PoolBacksTokens'
    BY <1>1 DEF IInv, PoolBacksTokens, Idle, ledger
  <1>4. ~ Idle' => InCall'
    BY <1>1 DEF IInv, Idle, InCall, ledger, Stages, InLedger, InPool, MintInPool,
                RemoveInPool, RebalanceInPool, Wanted, Left
  <1> QED
    BY <1>1, <1>2, <1>3, <1>4 DEF IInv, Fresh, Owned, ledger

-----------------------------------------------------------------------------
\* The state a call starts from can be restored.
LEMMA NowRestorable ==
    ASSUME IInv, Idle PROVE Restorable(Now) /\ Now \in State
  BY DEF IInv, Typed, Restorable, PoolBacksTokens, Now, State

\* A call begins well typed and can be undone.
LEMMA EnterType ==
    ASSUME IInv, Idle, NEW action \in {"mint", "remove", "rebalance"},
           NEW phase \in {"pull", "remove"}, NEW sender \in Users, NEW to \in Users,
           NEW id \in Ids, NEW position \in Positions, NEW params \in Params
    PROVE  Enter(action, phase, sender, to, id, position, params) \in Calls
  BY AmountTypes, NowRestorable DEF Enter, Calls, Zero

\* What a caller asks for is well typed.
LEMMA LimitedType ==
    ASSUME NEW range \in Ranges, NEW liquidity \in 1 .. MaxLiquidity,
           NEW max \in Amounts, NEW min \in Amounts
    PROVE  Limited(range, liquidity, max, min) \in Params
  BY DEF Limited, Params

\* A mint begins with an id nobody owns.
LEMMA MintInv ==
    ASSUME IInv, NEW sender \in Users, NEW to \in Users, NEW r \in Ranges,
           NEW liquidity \in 1 .. MaxLiquidity, NEW max \in Choices,
           MintPosition(sender, to, r, liquidity, max)
    PROVE  IInv'
  <1> DEFINE p == [range |-> r, liquidity |-> liquidity]
             q == Limited(r, liquidity, max, Zero)
  <1>1. /\ Idle /\ nextTokenId \in Ids /\ nextTokenId' = nextTokenId + 1
        /\ call' = Enter("mint", "pull", sender, to, nextTokenId, p, q)
        /\ UNCHANGED <<positions, owner, pool, money>>
    BY DEF MintPosition
  <1>2. q \in Params /\ p \in Positions
    BY LimitedType, AmountTypes DEF Positions
  <1>3. call' \in Calls
    BY <1>1, <1>2, EnterType
  <1>4. Typed'
    BY <1>1, <1>3, PositionAssumption DEF Typed, IInv, money, Ids
  <1>5. positions[nextTokenId] = NoPosition
    BY <1>1 DEF IInv, Fresh, Ids
  <1>6. \A id \in Ids : Matches(id, positions[id], pool)
    BY <1>1 DEF IInv, PoolBacksTokens, Backs, Matches
  <1>7. ~ Idle'
    BY <1>1 DEF Idle, Enter
  <1>8. /\ call'.action = "mint" /\ call'.phase = "pull" /\ call'.id = nextTokenId
        /\ call'.saved = Now /\ call'.position = p /\ call'.params = q
    BY <1>1 DEF Enter
  <1>9. InCall'
    <2>1. Restorable(call.saved)'
      BY <1>1, <1>8, NowRestorable DEF Restorable, Backs, Fresh
    <2>2. Stages'
      BY <1>8 DEF Stages, Wanted, Limited
    <2>3. InPool' = NoPosition /\ InLedger' = NoPosition
      BY <1>8 DEF InPool, InLedger, MintInPool
    <2> QED
      BY <1>1, <1>5, <1>6, <1>8, <2>1, <2>2, <2>3 DEF InCall, Ids, Matches
  <1> QED
    BY <1>1, <1>4, <1>7, <1>9 DEF IInv, Owned, Fresh, PoolBacksTokens, Ids

\* The other entry points leave everything but the call alone.
LEMMA EnterInv ==
    ASSUME IInv, Idle, NEW action \in {"remove", "rebalance"}, NEW sender \in Users,
           NEW id \in Ids, owner[id] # NoOne, NEW params \in Params,
           action = "remove" => params.liquidity <= positions[id].liquidity,
           call' = Enter(action, IF action = "remove" THEN "remove" ELSE "pull",
                         sender, owner[id], id, positions[id], params),
           UNCHANGED <<ledger, pool, money>>
    PROVE  IInv'
  <1>1. positions[id] \in Positions /\ owner[id] \in Users
    BY DEF Typed, IInv, Owned
  <1>2. call' \in Calls
    BY <1>1, EnterType
  <1>3. Typed'
    BY <1>2 DEF Typed, IInv, ledger, money
  <1>4. \A i \in Ids : Matches(i, positions[i], pool)
    BY DEF IInv, PoolBacksTokens, Backs, Matches
  <1>5. ~ Idle'
    BY DEF Idle, Enter
  <1>6. /\ call'.action = action /\ call'.id = id /\ call'.saved = Now
        /\ call'.phase = IF action = "remove" THEN "remove" ELSE "pull"
        /\ call'.position = positions[id] /\ call'.params = params
    BY DEF Enter
  <1>7. InCall'
    <2>1. Restorable(call.saved)'
      BY <1>6, NowRestorable DEF Restorable, Backs, Fresh
    <2>2. Stages'
      BY <1>6 DEF Stages, Wanted
    <2>3. InPool' = positions[id] /\ InLedger' = positions[id]
      BY <1>6 DEF InPool, InLedger, RemoveInPool, RebalanceInPool
    <2>4. id < nextTokenId
      BY <1>1, PositionAssumption DEF Typed, IInv, Fresh, Positions, NoPosition, Ids
    <2> QED
      BY <1>4, <1>6, <2>1, <2>2, <2>3, <2>4 DEF InCall, ledger, Matches
  <1> QED
    BY <1>3, <1>5, <1>7 DEF IInv, Owned, Fresh, PoolBacksTokens, ledger

\* A removal begins with the liquidity its token stands for.
LEMMA RemoveInv ==
    ASSUME IInv, NEW sender \in Users, NEW id \in Ids, NEW liquidity \in 1 .. MaxLiquidity,
           NEW min \in Choices, RemoveLiquidity(sender, id, liquidity, min)
    PROVE  IInv'
  <1> DEFINE q == Limited(positions[id].range, liquidity, Zero, min)
  <1>1. /\ Idle /\ owner[id] # NoOne /\ liquidity <= positions[id].liquidity
        /\ call' = Enter("remove", "remove", sender, owner[id], id, positions[id], q)
        /\ UNCHANGED <<ledger, pool, money>>
    BY DEF RemoveLiquidity, Authorized
  <1>2. positions[id] \in Positions
    BY <1>1 DEF Typed, IInv, Owned
  <1>3. q \in Params /\ q.liquidity = liquidity
    BY <1>2, LimitedType, AmountTypes DEF Positions, Limited
  <1> QED
    BY <1>1, <1>3, EnterInv

\* A rebalance begins with the position as the ledger and the pool have it.
LEMMA RebalanceInv ==
    ASSUME IInv, NEW sender \in Users, NEW id \in Ids, NEW r \in Ranges,
           NEW liquidity \in 1 .. MaxLiquidity, NEW max \in Choices, NEW min \in Choices,
           RebalancePosition(sender, id, r, liquidity, max, min)
    PROVE  IInv'
  <1> DEFINE q == Limited(r, liquidity, max, min)
  <1>1. /\ Idle /\ owner[id] # NoOne
        /\ call' = Enter("rebalance", "pull", sender, owner[id], id, positions[id], q)
        /\ UNCHANGED <<ledger, pool, money>>
    BY DEF RebalancePosition, Authorized
  <1>2. q \in Params
    BY LimitedType, AmountTypes
  <1> QED
    BY <1>1, <1>2, EnterInv

-----------------------------------------------------------------------------
\* A step within a call that leaves the ledger alone.
LEMMA MidCall ==
    ASSUME IInv, ~ Idle, ~ Idle', Typed', UNCHANGED ledger, Stages',
           call'.id = call.id, call'.saved = call.saved, InLedger' = InLedger,
           Matches(call.id, InPool, pool)',
           \A id \in Ids \ {call.id} : pool'[id] = pool[id],
           call'.phase = "take" => AtMost(call'.closed, reserve')
    PROVE  IInv'
  <1>1. InCall'
    BY CallTypes DEF InCall, ledger, Matches, Restorable, Backs, Fresh
  <1> QED
    BY <1>1 DEF IInv, Owned, Fresh, PoolBacksTokens, ledger

\* What no step within a call changes of it.
Same == /\ call'.action = call.action /\ call'.id = call.id /\ call'.saved = call.saved
        /\ call'.position = call.position /\ call'.params = call.params

\* Pulling the maxima touches balances only.
LEMMA PullInv == ASSUME IInv, Pull PROVE IInv'
  <1>1. call \in Calls /\ InCall /\ ~ Idle /\ call.phase = "pull" /\ call.id \in Ids
    BY CallTypes DEF Pull, At, Idle
  <1>2. PICK paid \in Choices :
           /\ AtMost(paid, purse[call.sender])
           /\ purse' = [purse EXCEPT ![call.sender] = Minus(@, paid)]
           /\ held' = Plus(held, paid)
    BY DEF Pull
  <1>3. /\ call' = [call EXCEPT !.phase = IF call.action = "mint" THEN "add" ELSE "remove"]
        /\ UNCHANGED <<ledger, pool, reserve, outside>>
    BY DEF Pull
  <1>4. /\ call' \in Calls /\ Same
        /\ call'.phase = IF call.action = "mint" THEN "add" ELSE "remove"
    BY <1>1, <1>3 DEF Calls, Same
  <1>5. Typed'
    BY <1>1, <1>2, <1>3, <1>4, AmountTypes DEF IInv, Typed, ledger, Calls
  <1>6. call.action # "remove"
    BY <1>1 DEF InCall, Stages
  <1>7. ~ Idle' /\ Stages' /\ InPool' = InPool /\ InLedger' = InLedger
    BY <1>1, <1>4, <1>6 DEF InCall, Idle, Stages, Calls, Same, Wanted, InPool, InLedger,
                            MintInPool, RebalanceInPool
  <1>8. Matches(call.id, InPool, pool)'
    BY <1>1, <1>3, <1>4, <1>7 DEF InCall, Matches, Same
  <1> QED
    BY <1>1, <1>3, <1>4, <1>5, <1>7, <1>8, MidCall DEF Same

\* What leaves the pool leaves it under the salt of the token.
LEMMA RemoveFromPoolInv == ASSUME IInv, RemoveFromPool PROVE IInv'
  <1> DEFINE r == call.position.range
  <1>1. /\ call \in Calls /\ InCall /\ ~ Idle /\ call.phase = "remove" /\ call.id \in Ids
        /\ call.position \in Positions /\ r \in Ranges
    BY CallTypes DEF RemoveFromPool, At, Idle, Positions
  <1>2. PICK closed \in Choices :
           /\ AtMost(closed, reserve)
           /\ call' = [call EXCEPT !.phase = "take", !.closed = closed,
                                   !.delta = Plus(@, closed)]
    BY DEF RemoveFromPool
  <1>3. /\ pool[call.id][r] >= Closing
        /\ pool' = [pool EXCEPT ![call.id][r] = @ - Closing]
        /\ UNCHANGED <<ledger, money>>
    BY DEF RemoveFromPool, Salt
  <1>4. /\ call' \in Calls /\ Same /\ call'.phase = "take" /\ call'.closed = closed
    BY <1>1, <1>2, AmountTypes DEF Calls, Same
  <1>5. Closing \in Nat /\ pool \in [Ids -> [Ranges -> Nat]]
    BY <1>1, PositionAssumption DEF IInv, Typed, Closing, Calls, Params, Positions
  <1>6. Typed'
    BY <1>1, <1>3, <1>4, <1>5 DEF IInv, Typed, ledger, money
  <1>7. call.action \in {"remove", "rebalance"}
    BY <1>1 DEF InCall, Stages, Calls
  <1>8. ~ Idle' /\ Stages' /\ InLedger' = InLedger
    BY <1>1, <1>4, <1>7 DEF InCall, Idle, Stages, Same, Wanted, InLedger
  <1>9. Matches(call.id, InPool, pool)'
    <2>1. \A q \in Ranges : pool[call.id][q] = IF r = q THEN call.position.liquidity ELSE 0
      BY <1>1, <1>7 DEF InCall, Matches, InPool, RemoveInPool, RebalanceInPool
    <2>2. \A q \in Ranges : pool'[call.id][q] =
                                IF r = q THEN call.position.liquidity - Closing ELSE 0
      BY <1>1, <1>3, <1>5, <2>1
    <2>3. CASE call.action = "rebalance"
      BY <1>1, <1>4, <2>2, <2>3, PositionAssumption
      DEF Matches, InPool, RebalanceInPool, Same, Closing, NoPosition, Positions
    <2>4. CASE call.action = "remove"
      <3>1. InPool' = Left
        BY <1>4, <2>4 DEF InPool, RemoveInPool, Same, Left
      <3>2. CASE call.params.liquidity = call.position.liquidity
        BY <1>1, <1>4, <2>2, <2>4, <3>1, <3>2, PositionAssumption
        DEF Matches, Same, Closing, NoPosition, Left, Positions
      <3>3. CASE call.params.liquidity # call.position.liquidity
        <4>1. /\ Left.range = r
              /\ Left.liquidity = call.position.liquidity - call.params.liquidity
          BY <1>1, <3>3 DEF Left, Positions
        <4> QED
          BY <1>4, <2>2, <2>4, <3>1, <4>1 DEF Matches, Same, Closing
      <3> QED
        BY <3>2, <3>3
    <2> QED
      BY <1>7, <2>3, <2>4
  <1>10. \A id \in Ids \ {call.id} : pool'[id] = pool[id]
    BY <1>3, <1>5
  <1>11. AtMost(call'.closed, reserve')
    BY <1>2, <1>3, <1>4 DEF money, AtMost
  <1> QED
    BY <1>1, <1>3, <1>4, <1>6, <1>8, <1>9, <1>10, <1>11, MidCall DEF Same

\* Taking the proceeds touches balances and deltas only.
LEMMA TakeInv == ASSUME IInv, Take PROVE IInv'
  <1>1. /\ call \in Calls /\ InCall /\ ~ Idle /\ call.phase = "take" /\ call.id \in Ids
        /\ call.closed \in Amounts /\ AtMost(call.closed, reserve)
    BY CallTypes DEF Take, At, Idle, InCall, Calls
  <1>2. /\ reserve' = Minus(reserve, call.closed)
        /\ held' = Plus(held, call.closed)
        /\ call' = [call EXCEPT !.phase = IF call.action = "remove" THEN "record" ELSE "add",
                                !.delta = Minus(@, call.closed)]
        /\ UNCHANGED <<ledger, pool, purse, outside>>
    BY DEF Take
  <1>3. /\ call' \in Calls /\ Same
        /\ call'.phase = IF call.action = "remove" THEN "record" ELSE "add"
    BY <1>1, <1>2, AmountTypes DEF Calls, Same
  <1>4. Typed'
    BY <1>1, <1>2, <1>3, AmountTypes DEF IInv, Typed, ledger
  <1>5. call.action # "mint"
    BY <1>1 DEF InCall, Stages
  <1>6. ~ Idle' /\ Stages' /\ InPool' = InPool /\ InLedger' = InLedger
    BY <1>1, <1>3, <1>5 DEF InCall, Idle, Stages, Calls, Same, Wanted, Left, InPool, InLedger,
                            RemoveInPool, RebalanceInPool
  <1>7. Matches(call.id, InPool, pool)'
    BY <1>1, <1>2, <1>3, <1>6 DEF InCall, Matches, Same
  <1> QED
    BY <1>1, <1>2, <1>3, <1>4, <1>6, <1>7, MidCall DEF Same

\* What enters the pool enters it under the salt of the token.
LEMMA AddToPoolInv == ASSUME IInv, AddToPool PROVE IInv'
  <1> DEFINE r == call.params.range
  <1>1. /\ call \in Calls /\ InCall /\ ~ Idle /\ call.phase = "add" /\ call.id \in Ids
        /\ r \in Ranges /\ call.params.liquidity \in Nat
    BY CallTypes, PositionAssumption DEF AddToPool, At, Idle
  <1>2. PICK used \in Choices :
           call' = [call EXCEPT !.phase = "settle", !.used = used, !.delta = Minus(@, used)]
    BY DEF AddToPool
  <1>3. /\ pool' = [pool EXCEPT ![call.id][r] = @ + call.params.liquidity]
        /\ UNCHANGED <<ledger, money>>
    BY DEF AddToPool, Salt
  <1>4. call' \in Calls /\ Same /\ call'.phase = "settle"
    BY <1>1, <1>2, AmountTypes DEF Calls, Same
  <1>5. pool \in [Ids -> [Ranges -> Nat]]
    BY DEF IInv, Typed
  <1>6. Typed'
    BY <1>1, <1>3, <1>4, <1>5 DEF IInv, Typed, ledger, money
  <1>7. call.action \in {"mint", "rebalance"}
    BY <1>1 DEF InCall, Stages, Calls
  <1>8. ~ Idle' /\ Stages' /\ InLedger' = InLedger
    BY <1>1, <1>4, <1>7 DEF InCall, Idle, Stages, Same, Wanted, InLedger
  <1>9. Matches(call.id, InPool, pool)'
    <2>1. \A q \in Ranges : pool[call.id][q] = 0
      BY <1>1, <1>7, PositionAssumption
      DEF InCall, Matches, InPool, MintInPool, RebalanceInPool, NoPosition
    <2>2. InPool' = Wanted
      BY <1>4, <1>7 DEF InPool, MintInPool, RebalanceInPool, Same, Wanted
    <2> QED
      BY <1>1, <1>3, <1>4, <1>5, <2>1, <2>2 DEF Matches, Same, Wanted
  <1>10. \A id \in Ids \ {call.id} : pool'[id] = pool[id]
    BY <1>3, <1>5
  <1> QED
    BY <1>1, <1>3, <1>4, <1>6, <1>8, <1>9, <1>10, MidCall DEF Same

\* Settling touches balances and deltas only; Covered keeps them in Nat.
LEMMA SettleInv == ASSUME IInv, Settle PROVE IInv'
  <1>1. /\ call \in Calls /\ InCall /\ ~ Idle /\ call.phase = "settle" /\ call.id \in Ids
        /\ call.used \in Amounts
    BY CallTypes DEF Settle, At, Idle, Calls
  <1>2. /\ AtMost(call.used, held)
        /\ held' = Minus(held, call.used)
        /\ reserve' = Plus(reserve, call.used)
        /\ call' = [call EXCEPT !.phase = "record", !.delta = Plus(@, call.used)]
        /\ UNCHANGED <<ledger, pool, purse, outside>>
    BY <1>1 DEF Settle, Covered, AtMost, IInv, Typed, Amounts
  <1>3. call' \in Calls /\ Same /\ call'.phase = "record"
    BY <1>1, <1>2, AmountTypes DEF Calls, Same
  <1>4. Typed'
    BY <1>1, <1>2, <1>3, AmountTypes DEF IInv, Typed, ledger
  <1>5. call.action # "remove"
    BY <1>1 DEF InCall, Stages
  <1>6. ~ Idle' /\ Stages' /\ InPool' = InPool /\ InLedger' = InLedger
    BY <1>1, <1>3, <1>5 DEF InCall, Idle, Stages, Calls, Same, Wanted, InPool, InLedger,
                            MintInPool, RebalanceInPool
  <1>7. Matches(call.id, InPool, pool)'
    BY <1>1, <1>2, <1>3, <1>6 DEF InCall, Matches, Same
  <1> QED
    BY <1>1, <1>2, <1>3, <1>4, <1>6, <1>7, MidCall DEF Same

-----------------------------------------------------------------------------
\* The step that brings the ledger in line with the pool.
LEMMA RecordStep ==
    ASSUME IInv, ~ Idle, ~ Idle', Typed', UNCHANGED <<nextTokenId, pool>>, Stages',
           call'.id = call.id, call'.saved = call.saved, call'.phase \in {"refund", "pay"},
           InPool' = InPool,
           positions' = [positions EXCEPT ![call.id] = InPool],
           Owned(positions, owner)'
    PROVE  IInv'
  <1>1. positions \in [Ids -> Positions \cup {NoPosition}] /\ nextTokenId \in Nat
    BY DEF IInv, Typed
  <1>2. InLedger' = InPool
    BY DEF InLedger
  <1>3. call.id \in Ids /\ InCall
    BY CallTypes
  <1>4. InCall'
    BY <1>1, <1>2, <1>3 DEF InCall, Matches, Restorable, Backs, Fresh
  <1>5. Fresh(nextTokenId, positions)'
    BY <1>1, <1>3 DEF IInv, Fresh, InCall, Ids
  <1> QED
    BY <1>4, <1>5 DEF IInv, PoolBacksTokens

\* The ledger entry and the token of a mint match what the pool was given.
LEMMA RecordMintInv == ASSUME IInv, RecordMint PROVE IInv'
  <1>1. /\ call \in Calls /\ InCall /\ ~ Idle /\ call.phase = "record"
        /\ call.action = "mint" /\ call.id \in Ids
        /\ call.position \in Positions /\ call.position # NoPosition
    BY CallTypes DEF RecordMint, At, Idle
  <1>2. /\ positions' = [positions EXCEPT ![call.id] = call.position]
        /\ owner' = [owner EXCEPT ![call.id] = call.to]
        /\ call' = [call EXCEPT !.phase = "refund"]
        /\ UNCHANGED <<nextTokenId, pool, money>>
    BY DEF RecordMint
  <1>3. call' \in Calls /\ Same /\ call'.phase = "refund" /\ call.to \in Users
    BY <1>1, <1>2 DEF Calls, Same
  <1>4. Typed'
    BY <1>1, <1>2, <1>3 DEF IInv, Typed, money
  <1>5. InPool = call.position /\ InPool' = InPool
    BY <1>1, <1>3 DEF InCall, Stages, InPool, MintInPool, Same, Wanted
  <1>6. ~ Idle' /\ Stages'
    BY <1>1, <1>3 DEF InCall, Idle, Stages, Same, Wanted
  <1>7. Owned(positions, owner)'
    BY <1>1, <1>2, <1>3, PositionAssumption DEF IInv, Typed, Owned
  <1> QED
    BY <1>1, <1>2, <1>3, <1>4, <1>5, <1>6, <1>7, RecordStep DEF Same

\* The new ledger entry of a rebalance matches the pool again.
LEMMA RecordRebalanceInv == ASSUME IInv, RecordRebalance PROVE IInv'
  <1>1. /\ call \in Calls /\ InCall /\ ~ Idle /\ call.phase = "record"
        /\ call.action = "rebalance" /\ call.id \in Ids
        /\ call.position # NoPosition /\ Wanted \in Positions
    BY CallTypes DEF RecordRebalance, At, Idle
  <1>2. /\ positions' = [positions EXCEPT ![call.id] = Wanted]
        /\ call' = [call EXCEPT !.phase = "refund"]
        /\ UNCHANGED <<nextTokenId, owner, pool, money>>
    BY DEF RecordRebalance, Wanted
  <1>3. call' \in Calls /\ Same /\ call'.phase = "refund"
    BY <1>1, <1>2 DEF Calls, Same
  <1>4. Typed'
    BY <1>1, <1>2, <1>3 DEF IInv, Typed, money
  <1>5. InPool = Wanted /\ InPool' = InPool
    BY <1>1, <1>3 DEF InPool, RebalanceInPool, Same, Wanted
  <1>6. ~ Idle' /\ Stages'
    BY <1>1, <1>3 DEF InCall, Idle, Stages, Same, Wanted
  <1>7. Wanted # NoPosition /\ positions[call.id] # NoPosition
    BY <1>1, PositionAssumption DEF InCall, InLedger, Positions, NoPosition
  <1>8. Owned(positions, owner)'
    BY <1>1, <1>2, <1>7 DEF IInv, Typed, Owned
  <1> QED
    BY <1>1, <1>2, <1>3, <1>4, <1>5, <1>6, <1>8, RecordStep DEF Same

\* A removal leaves the ledger with what is left in the pool, and burns what is empty.
LEMMA RecordRemoveInv == ASSUME IInv, RecordRemove PROVE IInv'
  <1> DEFINE empty == call.params.liquidity = call.position.liquidity
  <1>1. /\ call \in Calls /\ InCall /\ ~ Idle /\ call.phase = "record"
        /\ call.action = "remove" /\ call.id \in Ids
        /\ call.position \in Positions /\ call.position # NoPosition
        /\ call.params.liquidity \in 1 .. MaxLiquidity
    BY CallTypes DEF RecordRemove, At, Idle
  <1>2. positions[call.id] = call.position /\ owner[call.id] \in Users
    BY <1>1 DEF InCall, InLedger, IInv, Typed, Owned
  <1>3. /\ call' = [call EXCEPT !.phase = "pay", !.to = owner[call.id]]
        /\ UNCHANGED <<nextTokenId, pool, money>>
    BY DEF RecordRemove
  <1>4. call' \in Calls /\ Same /\ call'.phase = "pay"
    BY <1>1, <1>2, <1>3 DEF Calls, Same
  <1>5. InPool = Left /\ InPool' = InPool
    BY <1>1, <1>4 DEF InPool, RemoveInPool, Same, Left
  <1>6. ~ Idle' /\ Stages'
    BY <1>1, <1>4 DEF InCall, Idle, Stages, Same, Wanted
  <1>7. /\ positions' = [positions EXCEPT ![call.id] = Left]
        /\ owner' = IF empty THEN [owner EXCEPT ![call.id] = NoOne] ELSE owner
    BY <1>1, <1>2 DEF RecordRemove, Left, IInv, Typed
  <1>8. /\ Left \in Positions \cup {NoPosition}
        /\ empty <=> Left = NoPosition
    <2>1. CASE empty
      BY <2>1 DEF Left
    <2>2. CASE ~ empty
      BY <1>1, <2>2, PositionAssumption DEF Left, Positions, NoPosition, InCall, Stages
    <2> QED
      BY <2>1, <2>2
  <1>9. Typed'
    BY <1>1, <1>3, <1>4, <1>7, <1>8 DEF IInv, Typed, money
  <1>10. Owned(positions, owner)'
    BY <1>1, <1>2, <1>7, <1>8, PositionAssumption DEF IInv, Typed, Owned
  <1> QED
    BY <1>1, <1>3, <1>4, <1>5, <1>6, <1>7, <1>9, <1>10, RecordStep DEF Same

\* The last step of a call that succeeds.
LEMMA LastStep ==
    ASSUME IInv, call.phase \in {"refund", "pay"}, call' = NoCall, Typed',
           UNCHANGED <<ledger, pool>>
    PROVE  IInv'
  <1>1. InCall /\ ~ Idle
    BY CallTypes DEF Idle
  <1>2. positions[call.id] = InPool
    BY <1>1 DEF InCall, InLedger
  <1>3. \A id \in Ids : Matches(id, positions[id], pool)
    BY <1>1, <1>2 DEF InCall
  <1> QED
    BY <1>3 DEF IInv, PoolBacksTokens, Backs, Matches, Owned, Fresh, ledger, Idle, NoCall

\* A refund ends the call: the ledger already matches the pool.
LEMMA RefundInv == ASSUME IInv, Refund PROVE IInv'
  <1> DEFINE refund == [c \in Currencies |-> Surplus(c)]
  <1>1. /\ call \in Calls /\ call.phase = "refund" /\ call.to \in Users
        /\ call.saved.held \in Amounts
    BY CallTypes DEF Refund, At, Idle, Calls, State
  <1>2. refund \in Amounts /\ AtMost(refund, held)
    BY <1>1 DEF Amounts, AtMost, Surplus, IInv, Typed
  <1>3. /\ held' = Minus(held, refund)
        /\ purse' = [purse EXCEPT ![call.to] = Plus(@, refund)]
        /\ call' = NoCall
        /\ UNCHANGED <<ledger, pool, reserve, outside>>
    BY DEF Refund
  <1>4. Typed'
    BY <1>1, <1>2, <1>3, AmountTypes DEF IInv, Typed, ledger
  <1> QED
    BY <1>1, <1>3, <1>4, LastStep

\* A payment ends the call: the ledger already matches the pool.
LEMMA PayInv == ASSUME IInv, Pay PROVE IInv'
  <1>1. /\ call \in Calls /\ call.phase = "pay" /\ call.to \in Users
        /\ call.closed \in Amounts
    BY CallTypes DEF Pay, At, Idle, Calls
  <1>2. /\ AtMost(call.closed, held)
        /\ held' = Minus(held, call.closed)
        /\ purse' = [purse EXCEPT ![call.to] = Plus(@, call.closed)]
        /\ call' = NoCall
        /\ UNCHANGED <<ledger, pool, reserve, outside>>
    BY DEF Pay
  <1>3. Typed'
    BY <1>1, <1>2, AmountTypes DEF IInv, Typed, ledger
  <1> QED
    BY <1>1, <1>2, <1>3, LastStep

\* A revert brings back a state that was fit to start from.
LEMMA RevertInv == ASSUME IInv, Revert PROVE IInv'
  <1>1. call.saved \in State /\ Restorable(call.saved)
    BY CallTypes DEF Revert, Calls, InCall
  <1>2. /\ Typed' /\ Idle' /\ Fresh(nextTokenId, positions)'
        /\ Backs(positions, owner, pool)'
    BY <1>1 DEF Revert, Typed, State, Restorable, Idle, NoCall, Fresh, Backs
  <1> QED
    BY <1>2 DEF IInv, PoolBacksTokens, Backs, Owned

-----------------------------------------------------------------------------
\* Every step preserves IInv.
LEMMA NextInv == IInv /\ [Next]_vars => IInv'
  <1> SUFFICES ASSUME IInv, [Next]_vars PROVE IInv'
    OBVIOUS
  <1>1. CASE \E sender, to \in Users, id \in Ids : TransferToken(sender, id, to)
    BY <1>1, TransferInv
  <1>2. CASE \E c \in Currencies : Give(c)
    BY <1>2, GiveInv
  <1>3. ASSUME NEW sender \in Users, NEW liquidity \in 1 .. MaxLiquidity,
               NEW amount \in Choices,
               \/ \E to \in Users, r \in Ranges :
                     MintPosition(sender, to, r, liquidity, amount)
               \/ \E id \in Ids : RemoveLiquidity(sender, id, liquidity, amount)
               \/ \E id \in Ids, r \in Ranges, min \in Choices :
                     RebalancePosition(sender, id, r, liquidity, amount, min)
        PROVE  IInv'
    BY <1>3, MintInv, RemoveInv, RebalanceInv
  <1>4. CASE Proceed
    BY <1>4, PullInv, RemoveFromPoolInv, TakeInv, AddToPoolInv, SettleInv, RecordMintInv,
       RecordRebalanceInv, RecordRemoveInv, RefundInv, PayInv, RevertInv DEF Proceed
  <1>5. CASE UNCHANGED vars
    BY <1>5 DEF IInv, Typed, Owned, Fresh, PoolBacksTokens, InCall, Idle, Stages, InLedger,
                InPool, MintInPool, RemoveInPool, RebalanceInPool, Wanted, Left, vars, money
  <1> QED
    BY <1>1, <1>2, <1>3, <1>4, <1>5 DEF Next

\* IInv is an invariant of every behaviour, inside calls and between them.
THEOREM Invariance == Spec => []IInv
  BY InitInv, NextInv, PTL DEF Spec

\* Every variable keeps its type, balances among them: no step spends what is
\* not there.
THEOREM TypeCorrect == Spec => []TypeOK
  <1>1. IInv => TypeOK
    BY DEF IInv, Typed, TypeOK, Now, State
  <1> QED
    BY <1>1, Invariance, PTL

\* Between calls the tokens are exactly the pool's liquidity, whatever pools,
\* currencies and receivers did inside the calls.
THEOREM TokensAreBacked == Spec => []PoolBacksTokens
  <1>1. IInv => PoolBacksTokens
    BY DEF IInv
  <1> QED
    BY <1>1, Invariance, PTL

-----------------------------------------------------------------------------
\* What a call has moved so far.  Extra is what the contract holds, at least,
\* beyond what it held before; others can only add to it.
Extra(c) ==
    IF call.action = "mint" /\ call.phase \in {"add", "settle"} THEN call.params.max[c]
    ELSE IF call.action = "mint" /\ call.phase = "record"
         THEN call.params.max[c] - call.used[c]
    ELSE IF call.phase \in {"record", "pay"} /\ call.action = "remove" THEN call.closed[c]
    ELSE 0
Out(c) == IF call.phase \in {"pull", "remove", "take"} THEN 0 ELSE call.closed[c]
In(c)  == IF call.phase \in {"record", "refund", "pay"} THEN call.used[c] ELSE 0

Moved ==
    /\ \A u \in Users \ {call.sender} : purse[u] = call.saved.purse[u]
    /\ \A c \in Currencies : held[c] >= call.saved.held[c] + Extra(c)
    /\ \A c \in Currencies : reserve[c] = call.saved.reserve[c] - Out(c) + In(c)
    /\ call.action = "remove" => call.used = Zero
    /\ call.action = "mint" => call.closed = Zero
    /\ call.phase = "refund" => AtMost(call.used, call.params.max)
    /\ call.phase = "pay" => AtMost(call.params.min, call.closed)
MInv == ~ Idle => Moved

\* The types of the balances and of the terms of a call.
LEMMA MoneyTypes ==
    ASSUME IInv, ~ Idle
    PROVE  /\ held \in Amounts /\ reserve \in Amounts /\ purse \in [Users -> Amounts]
           /\ call.saved.held \in Amounts /\ call.saved.reserve \in Amounts
           /\ call.saved.purse \in [Users -> Amounts]
           /\ call.params.max \in Amounts /\ call.params.min \in Amounts
           /\ call.closed \in Amounts /\ call.used \in Amounts
           /\ call.sender \in Users /\ call.to \in Users
  BY CallTypes DEF IInv, Typed, Calls, State, Params

\* A call has moved nothing when it begins.
LEMMA EnterMoved ==
    ASSUME IInv, Idle, NEW action, NEW phase \in {"pull", "remove"}, NEW sender, NEW to,
           NEW id, NEW position, NEW params,
           call' = Enter(action, phase, sender, to, id, position, params),
           UNCHANGED money
    PROVE  MInv'
  <1>1. /\ call'.phase = phase /\ call'.saved = Now /\ call'.sender = sender
        /\ call'.used = Zero /\ call'.closed = Zero
    BY DEF Enter
  <1>2. \A c \in Currencies : held[c] \in Nat /\ reserve[c] \in Nat
    BY DEF IInv, Typed, Amounts
  <1> QED
    BY <1>1, <1>2 DEF MInv, Moved, Extra, Out, In, Now, money

\* A pull moves at least the maxima of the caller to the contract.
LEMMA PullMoved == ASSUME IInv, MInv, Pull PROVE MInv'
  <1>1. /\ call \in Calls /\ InCall /\ ~ Idle /\ call.phase = "pull" /\ Moved
        /\ call.action \in {"mint", "rebalance"}
    BY CallTypes DEF Pull, At, Idle, MInv, InCall, Stages, Calls
  <1>2. PICK paid \in Choices :
           /\ \A c \in Currencies : IF c \in Native THEN call.params.max[c] <= paid[c]
                                                    ELSE call.params.max[c] = paid[c]
           /\ purse' = [purse EXCEPT ![call.sender] = Minus(@, paid)]
           /\ held' = Plus(held, paid)
    BY DEF Pull
  <1>3. /\ call' = [call EXCEPT !.phase = IF call.action = "mint" THEN "add" ELSE "remove"]
        /\ UNCHANGED <<ledger, pool, reserve, outside>>
    BY DEF Pull
  <1>4. /\ Same /\ call'.sender = call.sender /\ call'.used = call.used
        /\ call'.phase = IF call.action = "mint" THEN "add" ELSE "remove"
        /\ call'.closed = call.closed
    BY <1>1, <1>3 DEF Calls, Same
  <1>5. \A u \in Users \ {call'.sender} : purse'[u] = call'.saved.purse[u]
    BY <1>1, <1>2, <1>4, MoneyTypes DEF Moved, Same
  <1>6. ASSUME NEW c \in Currencies
        PROVE  held'[c] >= call'.saved.held[c] + Extra(c)'
    <2>1. held[c] >= call.saved.held[c]
      BY <1>1, MoneyTypes DEF Moved, Extra, Amounts
    <2>2. held'[c] = held[c] + paid[c] /\ paid[c] >= call.params.max[c] /\ paid[c] \in Nat
      BY <1>2, AmountTypes DEF Plus, Choices, Amounts
    <2> QED
      BY <1>1, <1>4, <2>1, <2>2, MoneyTypes DEF Extra, Same, Amounts
  <1>7. ASSUME NEW c \in Currencies
        PROVE  reserve'[c] = call'.saved.reserve[c] - Out(c)' + In(c)'
    <2>1. reserve[c] = call.saved.reserve[c]
      BY <1>1, MoneyTypes DEF Moved, Out, In, Amounts
    <2>2. CASE call.action = "rebalance"
      BY <1>1, <1>3, <1>4, <2>1, <2>2, MoneyTypes DEF Out, In, Same, Amounts
    <2>3. CASE call.action = "mint"
      BY <1>1, <1>3, <1>4, <2>1, <2>3, MoneyTypes DEF Moved, Zero, Out, In, Same, Amounts
    <2> QED
      BY <1>1, <2>2, <2>3
  <1> QED
    BY <1>1, <1>4, <1>5, <1>6, <1>7 DEF MInv, Moved, Same

\* A step that changes neither the users' balances nor who the call is of.
LEMMA SameMoved ==
    ASSUME IInv, MInv, ~ Idle, Same, call'.sender = call.sender,
           UNCHANGED purse,
           call.action = "remove" => call'.used = Zero,
           call.action = "mint" => call'.closed = Zero,
           \A c \in Currencies : held'[c] >= call.saved.held[c] + Extra(c)',
           \A c \in Currencies : reserve'[c] = call.saved.reserve[c] - Out(c)' + In(c)',
           call'.phase = "refund" => AtMost(call'.used, call'.params.max),
           call'.phase = "pay" => AtMost(call'.params.min, call'.closed)
    PROVE  MInv'
  BY DEF MInv, Moved, Same

\* What the pool owes is not moved before it is taken.
LEMMA RemoveFromPoolMoved == ASSUME IInv, MInv, RemoveFromPool PROVE MInv'
  <1>1. /\ call \in Calls /\ InCall /\ ~ Idle /\ call.phase = "remove" /\ Moved
        /\ call.action \in {"remove", "rebalance"}
    BY CallTypes DEF RemoveFromPool, At, Idle, MInv, InCall, Stages, Calls
  <1>2. PICK closed \in Choices :
           call' = [call EXCEPT !.phase = "take", !.closed = closed, !.delta = Plus(@, closed)]
    BY DEF RemoveFromPool
  <1>3. UNCHANGED money
    BY DEF RemoveFromPool
  <1>4. /\ Same /\ call'.sender = call.sender /\ call'.phase = "take"
        /\ call'.used = call.used
    BY <1>1, <1>2 DEF Calls, Same
  <1>5. \A c \in Currencies : /\ held'[c] >= call.saved.held[c] + Extra(c)'
                              /\ reserve'[c] = call.saved.reserve[c] - Out(c)' + In(c)'
    BY <1>1, <1>3, <1>4 DEF Moved, Extra, Out, In, Same, money
  <1> QED
    BY <1>1, <1>3, <1>4, <1>5, SameMoved DEF Moved, money

\* What is taken leaves the reserve for the contract.
LEMMA TakeMoved == ASSUME IInv, MInv, Take PROVE MInv'
  <1>1. /\ call \in Calls /\ InCall /\ ~ Idle /\ call.phase = "take" /\ Moved
        /\ call.action \in {"remove", "rebalance"}
    BY CallTypes DEF Take, At, Idle, MInv, InCall, Stages, Calls
  <1>2. /\ reserve' = Minus(reserve, call.closed) /\ held' = Plus(held, call.closed)
        /\ call' = [call EXCEPT !.phase = IF call.action = "remove" THEN "record" ELSE "add",
                                !.delta = Minus(@, call.closed)]
        /\ UNCHANGED purse
    BY DEF Take
  <1>3. /\ Same /\ call'.sender = call.sender
        /\ call'.phase = IF call.action = "remove" THEN "record" ELSE "add"
        /\ call'.used = call.used /\ call'.closed = call.closed
    BY <1>1, <1>2 DEF Calls, Same
  <1>4. ASSUME NEW c \in Currencies
        PROVE  /\ held'[c] >= call.saved.held[c] + Extra(c)'
               /\ reserve'[c] = call.saved.reserve[c] - Out(c)' + In(c)'
    <2>1. held[c] >= call.saved.held[c] /\ reserve[c] = call.saved.reserve[c]
      BY <1>1, MoneyTypes DEF Moved, Extra, Out, In, Amounts
    <2>2. /\ held'[c] = held[c] + call.closed[c] /\ reserve'[c] = reserve[c] - call.closed[c]
          /\ call.closed[c] \in Nat
      BY <1>1, <1>2, MoneyTypes DEF Plus, Minus, Amounts
    <2>3. CASE call.action = "remove"
      BY <1>1, <1>3, <2>1, <2>2, <2>3, MoneyTypes
      DEF Moved, Zero, Extra, Out, In, Same, Amounts
    <2>4. CASE call.action = "rebalance"
      BY <1>1, <1>3, <2>1, <2>2, <2>4, MoneyTypes DEF Extra, Out, In, Same, Amounts
    <2> QED
      BY <1>1, <2>3, <2>4
  <1> QED
    BY <1>1, <1>2, <1>3, <1>4, SameMoved DEF Moved

\* What is owed to the pool is not moved before it is settled.
LEMMA AddToPoolMoved == ASSUME IInv, MInv, AddToPool PROVE MInv'
  <1>1. /\ call \in Calls /\ InCall /\ ~ Idle /\ call.phase = "add" /\ Moved
        /\ call.action \in {"mint", "rebalance"}
    BY CallTypes DEF AddToPool, At, Idle, MInv, InCall, Stages, Calls
  <1>2. PICK used \in Choices :
           call' = [call EXCEPT !.phase = "settle", !.used = used, !.delta = Minus(@, used)]
    BY DEF AddToPool
  <1>3. UNCHANGED money
    BY DEF AddToPool
  <1>4. /\ Same /\ call'.sender = call.sender /\ call'.phase = "settle"
        /\ call'.closed = call.closed
    BY <1>1, <1>2 DEF Calls, Same
  <1>5. \A c \in Currencies : /\ held'[c] >= call.saved.held[c] + Extra(c)'
                              /\ reserve'[c] = call.saved.reserve[c] - Out(c)' + In(c)'
    BY <1>1, <1>3, <1>4 DEF Moved, Extra, Out, In, Same, money
  <1> QED
    BY <1>1, <1>3, <1>4, <1>5, SameMoved DEF Moved, money

\* What is settled leaves the contract for the reserve, never what it held before a rebalance.
LEMMA SettleMoved == ASSUME IInv, MInv, Settle PROVE MInv'
  <1>1. /\ call \in Calls /\ InCall /\ ~ Idle /\ call.phase = "settle" /\ Moved
        /\ call.action \in {"mint", "rebalance"}
    BY CallTypes DEF Settle, At, Idle, MInv, InCall, Stages, Calls
  <1>2. /\ \A c \in Currencies : Covered(c)
        /\ held' = Minus(held, call.used) /\ reserve' = Plus(reserve, call.used)
        /\ call' = [call EXCEPT !.phase = "record", !.delta = Plus(@, call.used)]
        /\ UNCHANGED purse
    BY DEF Settle
  <1>3. /\ Same /\ call'.sender = call.sender /\ call'.phase = "record"
        /\ call'.used = call.used /\ call'.closed = call.closed
    BY <1>1, <1>2 DEF Calls, Same
  <1>4. ASSUME NEW c \in Currencies
        PROVE  /\ held'[c] >= call.saved.held[c] + Extra(c)'
               /\ reserve'[c] = call.saved.reserve[c] - Out(c)' + In(c)'
    <2>1. /\ held[c] >= call.saved.held[c] + Extra(c)
          /\ reserve[c] = call.saved.reserve[c] - call.closed[c]
      BY <1>1, MoneyTypes DEF Moved, Out, In, Amounts
    <2>2. /\ held'[c] = held[c] - call.used[c] /\ reserve'[c] = reserve[c] + call.used[c]
          /\ call.used[c] \in Nat
      BY <1>2, MoneyTypes, <1>1 DEF Plus, Minus, Amounts
    <2>3. CASE call.action = "mint"
      BY <1>1, <1>3, <2>1, <2>2, <2>3, MoneyTypes DEF Extra, Out, In, Same, Amounts
    <2>4. CASE call.action = "rebalance"
      <3>1. /\ Extra(c) = 0 /\ Extra(c)' = 0 /\ Out(c)' = call.closed[c]
            /\ In(c)' = call.used[c] /\ call'.saved = call.saved
        BY <1>1, <1>3, <2>4 DEF Extra, Out, In, Same
      <3>2. call.used[c] > 0 => held[c] - call.saved.held[c] >= call.used[c]
        BY <1>2, <2>4 DEF Covered
      <3>3. /\ held[c] \in Nat /\ call.saved.held[c] \in Nat /\ reserve[c] \in Nat
            /\ call.saved.reserve[c] \in Nat /\ call.closed[c] \in Nat
        BY <1>1, MoneyTypes DEF Amounts
      <3>4. held'[c] >= call.saved.held[c]
        BY <2>1, <2>2, <3>1, <3>2, <3>3
      <3> QED
        BY <2>1, <2>2, <3>1, <3>3, <3>4
    <2> QED
      BY <1>1, <2>3, <2>4
  <1> QED
    BY <1>1, <1>2, <1>3, <1>4, SameMoved DEF Moved

\* The ledger is written within the limits of the caller and moves no balance.
LEMMA RecordMoved ==
    ASSUME IInv, MInv, RecordMint \/ RecordRebalance \/ RecordRemove
    PROVE  MInv'
  <1>1. /\ call \in Calls /\ InCall /\ ~ Idle /\ call.phase = "record" /\ Moved
        /\ call.action \in {"mint", "rebalance", "remove"} /\ WithinLimits
        /\ UNCHANGED money
    BY CallTypes DEF RecordMint, RecordRebalance, RecordRemove, At, Idle, MInv
  <1>2. /\ Same /\ call'.sender = call.sender
        /\ call'.phase = IF call.action = "remove" THEN "pay" ELSE "refund"
        /\ call'.used = call.used /\ call'.closed = call.closed
    BY <1>1 DEF RecordMint, RecordRebalance, RecordRemove, Calls, Same
  <1>3. ASSUME NEW c \in Currencies
        PROVE  /\ held'[c] >= call.saved.held[c] + Extra(c)'
               /\ reserve'[c] = call.saved.reserve[c] - Out(c)' + In(c)'
    <2>1. /\ held[c] >= call.saved.held[c] + Extra(c)
          /\ reserve[c] = call.saved.reserve[c] - call.closed[c] + call.used[c]
      BY <1>1, MoneyTypes DEF Moved, Out, In, Amounts
    <2>2. CASE call.action = "mint"
      BY <1>1, <1>2, <2>1, <2>2, MoneyTypes
      DEF WithinLimits, AtMost, Extra, Out, In, Same, Amounts, money
    <2>3. CASE call.action = "rebalance"
      BY <1>1, <1>2, <2>1, <2>3, MoneyTypes DEF Extra, Out, In, Same, Amounts, money
    <2>4. CASE call.action = "remove"
      BY <1>1, <1>2, <2>1, <2>4, MoneyTypes DEF Extra, Out, In, Same, Amounts, money
    <2> QED
      BY <1>1, <2>2, <2>3, <2>4
  <1>4. /\ call'.phase = "refund" => AtMost(call'.used, call'.params.max)
        /\ call'.phase = "pay" => AtMost(call'.params.min, call'.closed)
    BY <1>1, <1>2 DEF WithinLimits, Same
  <1> QED
    BY <1>1, <1>2, <1>3, <1>4, SameMoved DEF Moved, money

\* A gift only adds to what the contract holds.
LEMMA GiveMoved == ASSUME IInv, MInv, NEW c \in Currencies, Give(c) PROVE MInv'
  <1> SUFFICES ASSUME ~ Idle' PROVE Moved'
    BY DEF MInv
  <1>1. /\ held' = [held EXCEPT ![c] = @ + 1] /\ UNCHANGED <<purse, reserve, call>>
        /\ ~ Idle /\ Moved
    BY DEF Give, Idle, MInv
  <1>2. \A d \in Currencies : held'[d] >= held[d] /\ held'[d] \in Nat /\ held[d] \in Nat
    BY <1>1, MoneyTypes DEF Amounts
  <1>3. \A d \in Currencies : /\ Extra(d)' = Extra(d) /\ Out(d)' = Out(d) /\ In(d)' = In(d)
                              /\ Extra(d) \in Int /\ call.saved.held[d] \in Nat
    BY <1>1, MoneyTypes DEF Extra, Out, In, Amounts
  <1>4. \A d \in Currencies : held'[d] >= call.saved.held[d] + Extra(d)
    BY <1>1, <1>2, <1>3 DEF Moved
  <1> QED
    BY <1>1, <1>3, <1>4 DEF Moved

\* Every step preserves MInv.
LEMMA NextMoved == IInv /\ MInv /\ [Next]_vars => MInv'
  <1> SUFFICES ASSUME IInv, MInv, [Next]_vars PROVE MInv'
    OBVIOUS
  <1>1. CASE \E sender, to \in Users, id \in Ids : TransferToken(sender, id, to)
    BY <1>1 DEF TransferToken, money, MInv, Moved, Idle, Extra, Out, In
  <1>2. CASE \E c \in Currencies : Give(c)
    BY <1>2, GiveMoved
  <1>3. ASSUME NEW sender \in Users, NEW liquidity \in 1 .. MaxLiquidity,
               NEW amount \in Choices,
               \/ \E to \in Users, r \in Ranges :
                     MintPosition(sender, to, r, liquidity, amount)
               \/ \E id \in Ids : RemoveLiquidity(sender, id, liquidity, amount)
               \/ \E id \in Ids, r \in Ranges, min \in Choices :
                     RebalancePosition(sender, id, r, liquidity, amount, min)
        PROVE  MInv'
    BY <1>3, EnterMoved DEF MintPosition, RemoveLiquidity, RebalancePosition
  <1>4. CASE Refund \/ Pay \/ Revert
    BY <1>4 DEF Refund, Pay, Revert, MInv, Idle, NoCall
  <1>5. CASE Proceed
    BY <1>4, <1>5, PullMoved, RemoveFromPoolMoved, TakeMoved, AddToPoolMoved, SettleMoved,
       RecordMoved DEF Proceed
  <1>6. CASE UNCHANGED vars
    BY <1>6 DEF vars, money, MInv, Moved, Idle, Extra, Out, In
  <1> QED
    BY <1>1, <1>2, <1>3, <1>5, <1>6 DEF Next

\* A refund leaves the balances settled.
LEMMA RefundSettles ==
    ASSUME IInv, MInv, Refund
    PROVE  /\ \A c \in Currencies : Settled(c)
           /\ \A u \in Users \ {call.sender, call.to} : purse'[u] = call.saved.purse[u]
  <1>1. /\ call \in Calls /\ InCall /\ ~ Idle /\ call.phase = "refund" /\ Moved
        /\ call.action \in {"mint", "rebalance"}
    BY CallTypes DEF Refund, At, Idle, MInv, InCall, Stages, Calls
  <1>2. /\ held' = Minus(held, [c \in Currencies |-> Surplus(c)])
        /\ purse' = [purse EXCEPT ![call.to] = Plus(@, [c \in Currencies |-> Surplus(c)])]
        /\ UNCHANGED reserve
    BY DEF Refund
  <1>3. ASSUME NEW c \in Currencies PROVE Settled(c)
    <2>1. /\ held[c] >= call.saved.held[c]
          /\ reserve[c] = call.saved.reserve[c] - call.closed[c] + call.used[c]
          /\ call.used[c] <= call.params.max[c]
      BY <1>1, MoneyTypes DEF Moved, Extra, Out, In, Amounts, AtMost
    <2>2. held'[c] = call.saved.held[c] /\ reserve'[c] = reserve[c]
      <3>1. held'[c] = held[c] - Surplus(c) /\ reserve'[c] = reserve[c]
        BY <1>2 DEF Minus
      <3>2. held[c] \in Nat /\ call.saved.held[c] \in Nat
        BY <1>1, MoneyTypes DEF Amounts
      <3>3. Surplus(c) = held[c] - call.saved.held[c]
        BY <2>1, <3>2 DEF Surplus
      <3> QED
        BY <3>1, <3>2, <3>3
    <2> QED
      BY <1>1, <2>1, <2>2, MoneyTypes DEF Settled, Amounts
  <1>4. \A u \in Users \ {call.sender, call.to} : purse'[u] = call.saved.purse[u]
    BY <1>1, <1>2, MoneyTypes DEF Moved
  <1> QED
    BY <1>3, <1>4

\* A payment leaves the balances settled.
LEMMA PaySettles ==
    ASSUME IInv, MInv, Pay
    PROVE  /\ \A c \in Currencies : Settled(c)
           /\ \A u \in Users \ {call.sender, call.to} : purse'[u] = call.saved.purse[u]
  <1>1. /\ call \in Calls /\ InCall /\ ~ Idle /\ call.phase = "pay" /\ Moved
        /\ call.action = "remove"
    BY CallTypes DEF Pay, At, Idle, MInv, InCall, Stages, Calls
  <1>2. /\ held' = Minus(held, call.closed)
        /\ purse' = [purse EXCEPT ![call.to] = Plus(@, call.closed)]
        /\ UNCHANGED reserve
    BY DEF Pay
  <1>3. ASSUME NEW c \in Currencies PROVE Settled(c)
    <2>1. /\ held[c] >= call.saved.held[c] + call.closed[c]
          /\ reserve[c] = call.saved.reserve[c] - call.closed[c]
          /\ call.params.min[c] <= call.closed[c]
      BY <1>1, MoneyTypes DEF Moved, Extra, Out, In, Amounts, AtMost, Zero
    <2>2. held'[c] = held[c] - call.closed[c] /\ reserve'[c] = reserve[c]
      BY <1>1, <1>2, MoneyTypes DEF Minus, Amounts
    <2> QED
      BY <1>1, <2>1, <2>2, MoneyTypes DEF Settled, Amounts
  <1>4. \A u \in Users \ {call.sender, call.to} : purse'[u] = call.saved.purse[u]
    BY <1>1, <1>2, MoneyTypes DEF Moved
  <1> QED
    BY <1>3, <1>4

\* A call that is not reverted settles up, to the last unit of every currency.
THEOREM SettlesUp == Spec => CallsSettleUp
  <1>1. Init => MInv
    BY DEF Init, MInv, Idle, NoCall
  <1> DEFINE Ends == At("refund") \/ At("pay")
             Done == \/ Now' = call.saved
                     \/ ~ Idle'
                     \/ /\ \A c \in Currencies : Settled(c)
                        /\ \A u \in Users \ {call.sender, call.to} :
                              purse'[u] = call.saved.purse[u]
  <1>2. ASSUME IInv, MInv, Next, Ends PROVE Done
    <2>1. ~ Idle
      BY <1>2 DEF At, Idle
    <2>2. CASE \E sender, to \in Users, id \in Ids : TransferToken(sender, id, to)
      BY <2>1, <2>2 DEF TransferToken, Idle
    <2>3. CASE \E c \in Currencies : Give(c)
      BY <2>1, <2>3 DEF Give, Idle
    <2>4. CASE Refund \/ Pay
      BY <1>2, <2>4, RefundSettles, PaySettles
    <2>5. CASE Revert
      <3>1. call.saved \in State
        BY <1>2, <2>1, CallTypes DEF Calls
      <3>2. call.saved = [nextTokenId |-> call.saved.nextTokenId,
                          positions |-> call.saved.positions, owner |-> call.saved.owner,
                          pool |-> call.saved.pool, purse |-> call.saved.purse,
                          held |-> call.saved.held, reserve |-> call.saved.reserve,
                          outside |-> call.saved.outside]
        BY <3>1 DEF State
      <3> QED
        BY <2>5, <3>2 DEF Revert, Now
    <2> QED
      BY <1>2, <2>1, <2>2, <2>3, <2>4, <2>5
      DEF Next, Proceed, MintPosition, RemoveLiquidity, RebalancePosition, Pull,
          RemoveFromPool, Take, AddToPool, Settle, RecordMint, RecordRebalance,
          RecordRemove, At
  <1>3. IInv /\ MInv /\ [Next]_vars => [Ends => Done]_vars
    BY <1>2
  <1> QED
    BY <1>1, <1>3, InitInv, NextInv, NextMoved, PTL DEF Spec, CallsSettleUp
=============================================================================
