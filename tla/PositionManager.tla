--------------------------- MODULE PositionManager ---------------------------
(***************************************************************************)
(* AetherPositionManager: ERC-721 tokens that stand for liquidity positions*)
(* of a Uniswap v4 pool.  Minting, removing and rebalancing are sequences  *)
(* of calls into code the contract does not control (tokens, PoolManager,  *)
(* hooks, the receivers of tokens and of ether), one step per group of     *)
(* external calls.  In between ReentrancyGuard keeps other positions from  *)
(* being changed, but tokens may be transferred and anybody may send the   *)
(* contract currency.  A revert undoes the whole transaction.              *)
(*                                                                         *)
(* One pool; a range is a pair of ticks; the amounts a pool asks for or    *)
(* pays for liquidity are up to the pool.                                  *)
(***************************************************************************)
EXTENDS Integers

CONSTANTS
    Users,
    NoOne,         \* owner of a token that does not exist
    Operators,     \* approvals, by setApprovalForAll: owner and operator
    MaxTokens,     \* bound: tokens ever minted
    Ranges,
    NoRange,       \* range of a position that does not exist
    MaxLiquidity,  \* bound of the liquidity of a position
    Currencies,
    Native,        \* the currencies that are ether
    Funds,         \* bound: what each user and the pool start with
    Gifts          \* bound: what may be sent to the contract from outside

Ids     == 1 .. MaxTokens
Amounts == [Currencies -> Nat]
Choices == [Currencies -> 0 .. Funds]

ASSUME PositionAssumption ==
    /\ NoOne \notin Users /\ NoRange \notin Ranges
    /\ Operators \subseteq Users \X Users /\ Native \subseteq Currencies
    /\ MaxTokens \in Nat /\ MaxLiquidity \in Nat
    /\ Funds \in Nat /\ Gifts \in Nat

VARIABLES
    nextTokenId,
    positions,  \* mapping id -> Position, its range and liquidity
    owner,      \* ERC-721 owners
    pool,       \* pool[salt][range]: the liquidity the PoolManager keeps for us
    purse,      \* balances of the users
    held,       \* balances of the contract
    reserve,    \* balances of the PoolManager
    outside,    \* balances of everybody else
    call        \* the call on the stack, or NoCall

vars == <<nextTokenId, positions, owner, pool, purse, held, reserve, outside, call>>

ledger == <<nextTokenId, positions, owner>>
money  == <<purse, held, reserve, outside>>

NoPosition == [range |-> NoRange, liquidity |-> 0]
Positions  == [range : Ranges, liquidity : 1 .. MaxLiquidity]
NoCall     == [phase |-> "none"]
Idle       == call.phase = "none"
At(phase)  == call.phase = phase
Zero       == [c \in Currencies |-> 0]
Plus(a, b)  == [c \in Currencies |-> a[c] + b[c]]
Minus(a, b) == [c \in Currencies |-> a[c] - b[c]]
AtMost(a, b) == \A c \in Currencies : a[c] <= b[c]

\* What a revert brings back.
Now == [nextTokenId |-> nextTokenId, positions |-> positions, owner |-> owner,
        pool |-> pool, purse |-> purse, held |-> held, reserve |-> reserve,
        outside |-> outside]
State == [nextTokenId : 1 .. MaxTokens + 1, positions : [Ids -> Positions \cup {NoPosition}],
          owner : [Ids -> Users \cup {NoOne}], pool : [Ids -> [Ranges -> Nat]],
          purse : [Users -> Amounts], held : Amounts, reserve : Amounts, outside : Amounts]
Params == [range : Ranges, liquidity : 1 .. MaxLiquidity, max : Amounts, min : Amounts]
Calls  == [action : {"mint", "remove", "rebalance"},
           phase : {"pull", "remove", "take", "add", "settle", "record", "refund", "pay"},
           sender : Users, to : Users, id : Ids, position : Positions, params : Params,
           delta : [Currencies -> Int], closed : Amounts, used : Amounts, saved : State]

TypeOK == Now \in State /\ call \in Calls \cup {NoCall}

Init ==
    /\ nextTokenId = 1
    /\ positions = [id \in Ids |-> NoPosition]
    /\ owner = [id \in Ids |-> NoOne]
    /\ pool = [id \in Ids |-> [r \in Ranges |-> 0]]
    /\ purse = [u \in Users |-> [c \in Currencies |-> Funds]]
    /\ held = Zero
    /\ reserve = [c \in Currencies |-> Funds]
    /\ outside = [c \in Currencies |-> Gifts]
    /\ call = NoCall

-----------------------------------------------------------------------------
\* What others may do, inside a call of this contract as well: hand a token on,
\* send currency to the contract.
Authorized(sender, id) ==
    /\ owner[id] # NoOne
    /\ owner[id] = sender \/ <<owner[id], sender>> \in Operators

TransferToken(sender, id, to) ==
    /\ Authorized(sender, id)
    /\ owner' = [owner EXCEPT ![id] = to]
    /\ UNCHANGED <<nextTokenId, positions, pool, money, call>>

Give(c) ==
    /\ outside[c] > 0
    /\ outside' = [outside EXCEPT ![c] = @ - 1]
    /\ held' = [held EXCEPT ![c] = @ + 1]
    /\ UNCHANGED <<ledger, pool, purse, reserve, call>>

-----------------------------------------------------------------------------
\* The entry points, nonReentrant.  A call remembers the balances it started
\* from (in saved) and works on a copy of the position it is about.
Limited(range, liquidity, max, min) ==
    [range |-> range, liquidity |-> liquidity, max |-> max, min |-> min]
Enter(action, phase, sender, to, id, position, params) ==
    [action |-> action, phase |-> phase, sender |-> sender, to |-> to, id |-> id,
     position |-> position, params |-> params, delta |-> Zero, closed |-> Zero,
     used |-> Zero, saved |-> Now]

MintPosition(sender, to, range, liquidity, max) ==
    /\ Idle
    /\ nextTokenId \in Ids
    /\ nextTokenId' = nextTokenId + 1
    /\ call' = Enter("mint", "pull", sender, to, nextTokenId,
                     [range |-> range, liquidity |-> liquidity],
                     Limited(range, liquidity, max, Zero))
    /\ UNCHANGED <<positions, owner, pool, money>>

RemoveLiquidity(sender, id, liquidity, min) ==
    /\ Idle
    /\ Authorized(sender, id)
    /\ liquidity <= positions[id].liquidity
    /\ call' = Enter("remove", "remove", sender, owner[id], id, positions[id],
                     Limited(positions[id].range, liquidity, Zero, min))
    /\ UNCHANGED <<ledger, pool, money>>

RebalancePosition(sender, id, range, liquidity, max, min) ==
    /\ Idle
    /\ Authorized(sender, id)
    /\ call' = Enter("rebalance", "pull", sender, owner[id], id, positions[id],
                     Limited(range, liquidity, max, min))
    /\ UNCHANGED <<ledger, pool, money>>

\* _pullMaximums: the maximum of a token, the maximum or more of ether.
Pull ==
    /\ At("pull")
    /\ \E paid \in Choices :
          /\ \A c \in Currencies : IF c \in Native THEN call.params.max[c] <= paid[c]
                                                   ELSE call.params.max[c] = paid[c]
          /\ AtMost(paid, purse[call.sender])
          /\ purse' = [purse EXCEPT ![call.sender] = Minus(@, paid)]
          /\ held' = Plus(held, paid)
    /\ call' = [call EXCEPT !.phase = IF call.action = "mint" THEN "add" ELSE "remove"]
    /\ UNCHANGED <<ledger, pool, reserve, outside>>

-----------------------------------------------------------------------------
\* unlockCallback.  Positions are told apart by their salt, the token id.

\* Mutant of Salt: all positions share one.
NoSalt(id) == 1

Salt(id) == id

\* modifyLiquidity with a negative delta: all of a position that is rebalanced.
Closing == IF call.action = "remove" THEN call.params.liquidity ELSE call.position.liquidity
RemoveFromPool ==
    /\ At("remove")
    /\ pool[Salt(call.id)][call.position.range] >= Closing
    /\ pool' = [pool EXCEPT ![Salt(call.id)][call.position.range] = @ - Closing]
    /\ \E closed \in Choices :
          /\ AtMost(closed, reserve)
          /\ call' = [call EXCEPT !.phase = "take", !.closed = closed,
                                  !.delta = Plus(@, closed)]
    /\ UNCHANGED <<ledger, money>>

Take ==
    /\ At("take")
    /\ reserve' = Minus(reserve, call.closed)
    /\ held' = Plus(held, call.closed)
    /\ call' = [call EXCEPT !.phase = IF call.action = "remove" THEN "record" ELSE "add",
                            !.delta = Minus(@, call.closed)]
    /\ UNCHANGED <<ledger, pool, purse, outside>>

AddToPool ==
    /\ At("add")
    /\ pool' = [pool EXCEPT ![Salt(call.id)][call.params.range] = @ + call.params.liquidity]
    /\ \E used \in Choices :
          call' = [call EXCEPT !.phase = "settle", !.used = used, !.delta = Minus(@, used)]
    /\ UNCHANGED <<ledger, money>>

\* A rebalance may only spend what came in since it began; a mint is checked
\* against its maxima afterwards.
Covered(c) ==
    /\ held[c] >= call.used[c]
    /\ call.action = "rebalance" /\ call.used[c] > 0
         => held[c] - call.saved.held[c] >= call.used[c]
Settle ==
    /\ At("settle")
    /\ \A c \in Currencies : Covered(c)
    /\ held' = Minus(held, call.used)
    /\ reserve' = Plus(reserve, call.used)
    /\ call' = [call EXCEPT !.phase = "record", !.delta = Plus(@, call.used)]
    /\ UNCHANGED <<ledger, pool, purse, outside>>

\* At its end PoolManager.unlock reverts unless every delta is zero.
UnlockCloses == call.delta = Zero

-----------------------------------------------------------------------------
\* Limits, then the ledger, then the payment.
WithinLimits ==
    /\ call.action # "remove" => AtMost(call.used, call.params.max)
    /\ call.action # "mint" => AtMost(call.params.min, call.closed)

\* _positions, then _safeMint.
RecordMint ==
    /\ At("record") /\ call.action = "mint" /\ UnlockCloses /\ WithinLimits
    /\ positions' = [positions EXCEPT ![call.id] = call.position]
    /\ owner' = [owner EXCEPT ![call.id] = call.to]
    /\ call' = [call EXCEPT !.phase = "refund"]
    /\ UNCHANGED <<nextTokenId, pool, money>>

RecordRebalance ==
    /\ At("record") /\ call.action = "rebalance" /\ UnlockCloses /\ WithinLimits
    /\ positions' = [positions EXCEPT ![call.id] = [range |-> call.params.range,
                                                    liquidity |-> call.params.liquidity]]
    /\ call' = [call EXCEPT !.phase = "refund"]
    /\ UNCHANGED <<nextTokenId, owner, pool, money>>

\* The payment goes to who owns the token by now.
RecordRemove ==
    /\ At("record") /\ call.action = "remove" /\ UnlockCloses /\ WithinLimits
    /\ IF call.params.liquidity = call.position.liquidity
       THEN /\ positions' = [positions EXCEPT ![call.id] = NoPosition]
            /\ owner' = [owner EXCEPT ![call.id] = NoOne]
       ELSE /\ positions' = [positions EXCEPT ![call.id].liquidity = @ - call.params.liquidity]
            /\ UNCHANGED owner
    /\ call' = [call EXCEPT !.phase = "pay", !.to = owner[call.id]]
    /\ UNCHANGED <<nextTokenId, pool, money>>

\* Mutant of Surplus: the whole balance, whoever it is from.
WholeBalance(c) == held[c]

Surplus(c) == IF held[c] > call.saved.held[c] THEN held[c] - call.saved.held[c] ELSE 0
Refund ==
    LET refund == [c \in Currencies |-> Surplus(c)]
    IN  /\ At("refund")
        /\ held' = Minus(held, refund)
        /\ purse' = [purse EXCEPT ![call.to] = Plus(@, refund)]
        /\ call' = NoCall
        /\ UNCHANGED <<ledger, pool, reserve, outside>>

Pay ==
    /\ At("pay")
    /\ AtMost(call.closed, held)
    /\ held' = Minus(held, call.closed)
    /\ purse' = [purse EXCEPT ![call.to] = Plus(@, call.closed)]
    /\ call' = NoCall
    /\ UNCHANGED <<ledger, pool, reserve, outside>>

\* Any check or callee may revert, until the last statement has run.
Revert ==
    /\ ~ Idle
    /\ nextTokenId' = call.saved.nextTokenId /\ positions' = call.saved.positions
    /\ owner' = call.saved.owner /\ pool' = call.saved.pool
    /\ purse' = call.saved.purse /\ held' = call.saved.held
    /\ reserve' = call.saved.reserve /\ outside' = call.saved.outside
    /\ call' = NoCall

Proceed ==
    \/ Pull \/ RemoveFromPool \/ Take \/ AddToPool \/ Settle
    \/ RecordMint \/ RecordRebalance \/ RecordRemove \/ Refund \/ Pay \/ Revert

Next ==
    \/ \E sender, to \in Users, id \in Ids : TransferToken(sender, id, to)
    \/ \E c \in Currencies : Give(c)
    \/ \E sender \in Users, liquidity \in 1 .. MaxLiquidity, amount \in Choices :
          \/ \E to \in Users, r \in Ranges : MintPosition(sender, to, r, liquidity, amount)
          \/ \E id \in Ids : RemoveLiquidity(sender, id, liquidity, amount)
          \/ \E id \in Ids, r \in Ranges, min \in Choices :
                RebalancePosition(sender, id, r, liquidity, amount, min)
    \/ Proceed

Spec == Init /\ [][Next]_vars

-----------------------------------------------------------------------------
\* The tokens are the pool's liquidity: between calls every token stands for
\* exactly the liquidity the PoolManager keeps under its salt, in its range and
\* in no other, and there is no liquidity without a token.  Callees that call
\* back, transfers of a token in the middle of its own rebalance, and calls that
\* fail anywhere make no difference.
Backs(ps, os, pl) ==
    \A id \in Ids :
        /\ os[id] # NoOne <=> ps[id] # NoPosition
        /\ \A r \in Ranges : pl[id][r] = IF ps[id].range = r THEN ps[id].liquidity ELSE 0
PoolBacksTokens == Idle => Backs(positions, owner, pool)

\* A call settles up: it puts no more into the pool than the caller's maxima
\* and gets no less out than his minima, it leaves what others have sent to the
\* contract before where it was (and keeps nothing of its own, but for what is
\* sent while liquidity is removed), and it changes nobody's balance but the
\* caller's and the payee's.
Settled(c) ==
    LET s == call.saved
        spent == reserve'[c] - s.reserve[c]
    IN  /\ spent <= call.params.max[c]
        /\ call.action = "remove" => spent + call.params.min[c] <= 0
        /\ held'[c] >= s.held[c]
        /\ call.action # "remove" => held'[c] = s.held[c]
CallsSettleUp ==
    [][At("refund") \/ At("pay") =>
         \/ Now' = call.saved
         \/ ~ Idle'
         \/ /\ \A c \in Currencies : Settled(c)
            /\ \A u \in Users \ {call.sender, call.to} : purse'[u] = call.saved.purse[u]]_vars
=============================================================================
