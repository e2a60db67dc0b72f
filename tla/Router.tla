------------------------------- MODULE Router -------------------------------
(***************************************************************************)
(* AetherRouter: swaps and liquidity for a Uniswap v4 pool of two ERC-20   *)
(* tokens.  The router owns all liquidity in the pool and keeps a ledger of*)
(* whose it is.  A call pulls the caller's input, charges deposits an entry*)
(* fee, works the pool inside PoolManager.unlock, and pays out.  Calls do  *)
(* not overlap (nonReentrant), but tokens may be sent to the router at any *)
(* time, inside a call by a callee, and any external call may fail.        *)
(*                                                                         *)
(* What the pool asks for and pays is up to the pool, so both readings of  *)
(* the sign of amountSpecified that the handlers use are included: a swap  *)
(* that is settled for other amounts than it took is reverted by unlock.   *)
(***************************************************************************)
EXTENDS Integers

CONSTANTS
    Users,
    NoOne,           \* owner of a position that does not exist
    PositionIds,     \* hashes of pool, ticks and salt
    MaxLiquidity,    \* bound of the liquidity of a position
    Currency0, Currency1,
    ProtocolFeeBps, BpsDenominator,
    Funds0, Funds1,  \* bound: what each user and the pool start with
    Gifts0, Gifts1   \* bound: what may be sent to the router from outside

Currencies == {Currency0, Currency1}
Amounts == [Currencies -> Nat]
Funds   == [c \in Currencies |-> IF c = Currency0 THEN Funds0 ELSE Funds1]
Gifts   == [c \in Currencies |-> IF c = Currency0 THEN Gifts0 ELSE Gifts1]
Choices == {a \in [Currencies -> 0 .. Funds0 + Funds1] : \A c \in Currencies : a[c] <= Funds[c]}

ASSUME RouterAssumption ==
    /\ NoOne \notin Users /\ Currency0 # Currency1 /\ PositionIds # {}
    /\ MaxLiquidity \in Nat
    /\ Funds0 \in Nat /\ Funds1 \in Nat /\ Gifts0 \in Nat /\ Gifts1 \in Nat
    /\ ProtocolFeeBps \in Nat \ {0} /\ BpsDenominator \in Nat \ {0}
    /\ ProtocolFeeBps < BpsDenominator

VARIABLES
    positionOwner,
    positionLiquidity,
    pool,       \* the liquidity the PoolManager keeps for the router, by position
    purse,      \* balances of the users
    held,       \* balances of the router
    treasury,   \* balances of the treasury
    reserve,    \* balances of the PoolManager
    outside,    \* balances of everybody else
    call        \* the call on the stack, or NoCall

vars == <<positionOwner, positionLiquidity, pool, purse, held, treasury, reserve, outside, call>>
ledger == <<positionOwner, positionLiquidity>>

Actions  == {"exactIn", "exactOut", "add", "addSingle", "remove"}
NoCall   == [phase |-> "none"]
Idle     == call.phase = "none"
At(phase) == call.phase = phase
Zero     == [c \in Currencies |-> 0]
Only(c, n)  == [Zero EXCEPT ![c] = n]
Other(c)    == IF c = Currency0 THEN Currency1 ELSE Currency0
Plus(a, b)  == [c \in Currencies |-> a[c] + b[c]]
Minus(a, b) == [c \in Currencies |-> a[c] - b[c]]
AtMost(a, b) == \A c \in Currencies : a[c] <= b[c]

\* What a revert brings back.
Now == [positionOwner |-> positionOwner, positionLiquidity |-> positionLiquidity,
        pool |-> pool, purse |-> purse, held |-> held, treasury |-> treasury,
        reserve |-> reserve, outside |-> outside]
State == [positionOwner : [PositionIds -> Users \cup {NoOne}],
          positionLiquidity : [PositionIds -> 0 .. MaxLiquidity],
          pool : [PositionIds -> 0 .. MaxLiquidity], purse : [Users -> Amounts],
          held : Amounts, treasury : Amounts, reserve : Amounts, outside : Amounts]
Calls == [action : Actions, phase : {"pull", "swap", "add", "remove", "finish"},
          sender : Users, id : PositionIds, liquidity : 0 .. MaxLiquidity, in : Currencies,
          gross : Amounts, limit : Amounts, swapIn : Nat,
          net : Amounts, got : Amounts, used : Amounts,
          delta : [Currencies -> Int], saved : State]

TypeOK == Now \in State /\ call \in Calls \cup {NoCall}

Init ==
    /\ positionOwner = [id \in PositionIds |-> NoOne]
    /\ positionLiquidity = [id \in PositionIds |-> 0]
    /\ pool = [id \in PositionIds |-> 0]
    /\ purse = [u \in Users |-> Funds]
    /\ held = Zero
    /\ treasury = Zero
    /\ reserve = Funds
    /\ outside = Gifts
    /\ call = NoCall

Give(c) ==
    /\ outside[c] > 0
    /\ outside' = [outside EXCEPT ![c] = @ - 1]
    /\ held' = [held EXCEPT ![c] = @ + 1]
    /\ UNCHANGED <<ledger, pool, purse, treasury, reserve, call>>

-----------------------------------------------------------------------------
\* The entry points.  gross is what the caller hands over, limit the least he
\* asks for (of exactOut, the output), in the currency he pays a swap with.  The
\* deadlines and the minimum amounts of a single-sided deposit are left to Revert.
Enter(action, phase, sender, id, liquidity, in, gross, limit, swapIn) ==
    /\ Idle
    /\ call' = [action |-> action, phase |-> phase, sender |-> sender, id |-> id,
                liquidity |-> liquidity, in |-> in, gross |-> gross, limit |-> limit,
                swapIn |-> swapIn, net |-> gross, got |-> Zero, used |-> Zero,
                delta |-> Zero, saved |-> Now]
    /\ UNCHANGED <<ledger, pool, purse, held, treasury, reserve, outside>>

AnyId == CHOOSE id \in PositionIds : TRUE

SwapExactTokensForTokens(sender, in, amountIn, minAmountOut) ==
    /\ amountIn > 0
    /\ Enter("exactIn", "pull", sender, AnyId, 0, in, Only(in, amountIn),
             Only(Other(in), minAmountOut), amountIn)

SwapExactTokensForTokensOut(sender, in, amountOut, maxAmountIn) ==
    /\ amountOut > 0
    /\ Enter("exactOut", "pull", sender, AnyId, 0, in, Only(in, maxAmountIn),
             Only(Other(in), amountOut), 0)

AddLiquidity(sender, id, liquidity, amountMax) ==
    /\ positionOwner[id] = NoOne
    /\ Enter("add", "pull", sender, id, liquidity, Currency0, amountMax, Zero, 0)

AddLiquiditySingleSided(sender, id, liquidity, in, amountIn, swapAmountIn, minSwapAmountOut) ==
    /\ amountIn > 0 /\ swapAmountIn > 0 /\ swapAmountIn <= amountIn
    /\ positionOwner[id] = NoOne
    /\ Enter("addSingle", "pull", sender, id, liquidity, in, Only(in, amountIn),
             Only(Other(in), minSwapAmountOut), swapAmountIn)

RemoveLiquidity(sender, id, liquidity, minAmount) ==
    /\ positionOwner[id] = sender
    /\ Enter("remove", "remove", sender, id, liquidity, Currency0, Zero, minAmount, 0)

\* Mutant of Fee: the fraction upside down.
FeeInverted(amount) == (amount * BpsDenominator) \div ProtocolFeeBps

\* _chargeEntryFee, of deposits only.
Fee(amount) == (amount * ProtocolFeeBps) \div BpsDenominator
EntryFee == IF call.action \in {"add", "addSingle"}
            THEN [c \in Currencies |-> Fee(call.gross[c])] ELSE Zero
Pull ==
    LET net == Minus(call.gross, EntryFee)
    IN  /\ At("pull")
        /\ AtMost(call.gross, purse[call.sender])
        /\ call.action = "addSingle" => call.swapIn <= net[call.in]
        /\ purse' = [purse EXCEPT ![call.sender] = Minus(@, call.gross)]
        /\ held' = Plus(held, net)
        /\ treasury' = Plus(treasury, EntryFee)
        /\ call' = [call EXCEPT !.phase = IF call.action = "add" THEN "add" ELSE "swap",
                                !.net = net]
        /\ UNCHANGED <<ledger, pool, reserve, outside>>

-----------------------------------------------------------------------------
\* unlockCallback.  The amounts settled with the PoolManager and taken from it
\* need not be those of the swap.
Exchange(paid, taken, asked, offered) ==
    /\ AtMost(paid, held)
    /\ AtMost(taken, Plus(reserve, paid))
    /\ held' = Plus(Minus(held, paid), taken)
    /\ reserve' = Plus(Minus(reserve, taken), paid)
    /\ call' = [call EXCEPT !.phase = IF call.action = "addSingle" THEN "add" ELSE "finish",
                            !.used = asked, !.got = offered,
                            !.delta = Minus(Plus(Minus(offered, asked), paid), taken)]

\* poolManager.swap and its settlement: exactIn pays what the caller named and
\* takes what the pool offers, exactOut pays what the pool asks for and takes
\* what the caller named, addSingle pays what is asked for, at most swapAmountIn.
Swap ==
    /\ At("swap")
    /\ \E asks \in 0 .. Funds[call.in], offers \in 0 .. Funds[Other(call.in)] :
          LET asked   == Only(call.in, asks)
              offered == Only(Other(call.in), offers)
          IN  CASE call.action = "exactIn"   -> Exchange(call.gross, offered, asked, offered)
                [] call.action = "exactOut"  -> Exchange(asked, call.limit, asked, offered)
                [] call.action = "addSingle" -> /\ asks <= call.swapIn
                                                /\ Exchange(asked, offered, asked, offered)
    /\ UNCHANGED <<ledger, pool, purse, treasury, outside>>

\* Mutant of Covered: single-sided deposits may spend what the router held before.
CoveredByBalance(owed) == AtMost(owed, held)

\* _settleCallScoped: what a single-sided deposit owes must have come in since
\* the call began.
Covered(owed) ==
    /\ AtMost(owed, held)
    /\ call.action = "addSingle" =>
          \A c \in Currencies : owed[c] > 0 => held[c] - call.saved.held[c] >= owed[c]
ModifyAdd ==
    /\ At("add")
    /\ \E owed \in Choices :
          /\ Covered(owed)
          /\ pool' = [pool EXCEPT ![call.id] = @ + call.liquidity]
          /\ held' = Minus(held, owed)
          /\ reserve' = Plus(reserve, owed)
          /\ call' = [call EXCEPT !.phase = "finish", !.used = owed]
    /\ UNCHANGED <<ledger, purse, treasury, outside>>

ModifyRemove ==
    /\ At("remove")
    /\ call.liquidity <= pool[call.id]
    /\ pool' = [pool EXCEPT ![call.id] = @ - call.liquidity]
    /\ \E received \in Choices :
          /\ AtMost(received, reserve)
          /\ held' = Plus(held, received)
          /\ reserve' = Minus(reserve, received)
          /\ call' = [call EXCEPT !.phase = "finish", !.got = received]
    /\ UNCHANGED <<ledger, purse, treasury, outside>>

-----------------------------------------------------------------------------
\* After the unlock, which reverts unless every delta is zero: limits, ledger,
\* payment.
UnlockCloses == call.delta = Zero
PayOut(amounts) ==
    /\ AtMost(amounts, held)
    /\ held' = Minus(held, amounts)
    /\ purse' = [purse EXCEPT ![call.sender] = Plus(@, amounts)]
    /\ call' = NoCall
    /\ UNCHANGED <<pool, treasury, reserve, outside>>
Record ==
    /\ positionOwner' = [positionOwner EXCEPT ![call.id] = call.sender]
    /\ positionLiquidity' = [positionLiquidity EXCEPT ![call.id] = call.liquidity]

FinishExactIn ==
    /\ At("finish") /\ call.action = "exactIn" /\ UnlockCloses
    /\ AtMost(call.limit, call.got)
    /\ PayOut(call.got)
    /\ UNCHANGED ledger

FinishExactOut ==
    /\ At("finish") /\ call.action = "exactOut" /\ UnlockCloses
    /\ AtMost(call.used, call.gross)
    /\ PayOut(Plus(Minus(call.gross, call.used), call.limit))
    /\ UNCHANGED ledger

\* The refund of each token is what is left of the net deposit, if any is left.
FinishAdd ==
    /\ At("finish") /\ call.action = "add" /\ UnlockCloses
    /\ Record
    /\ PayOut([c \in Currencies |-> IF call.used[c] < call.net[c]
                                    THEN call.net[c] - call.used[c] ELSE 0])

\* _refundSingleSidedDust
Dust(c) == IF held[c] > call.saved.held[c] THEN held[c] - call.saved.held[c] ELSE 0
FinishAddSingle ==
    /\ At("finish") /\ call.action = "addSingle" /\ UnlockCloses
    /\ AtMost(call.limit, call.got)
    /\ Record
    /\ PayOut([c \in Currencies |-> Dust(c)])

\* Mutant of Remains: the entry goes with the first removal.
RemainsNothing == 0

Remains == IF call.liquidity >= positionLiquidity[call.id] THEN 0
           ELSE positionLiquidity[call.id] - call.liquidity
FinishRemove ==
    /\ At("finish") /\ call.action = "remove" /\ UnlockCloses
    /\ AtMost(call.limit, call.got)
    /\ positionLiquidity' = [positionLiquidity EXCEPT ![call.id] = Remains]
    /\ positionOwner' = [positionOwner EXCEPT ![call.id] = IF Remains = 0 THEN NoOne ELSE @]
    /\ PayOut(call.got)

Revert ==
    /\ ~ Idle
    /\ positionOwner' = call.saved.positionOwner
    /\ positionLiquidity' = call.saved.positionLiquidity
    /\ pool' = call.saved.pool /\ purse' = call.saved.purse /\ held' = call.saved.held
    /\ treasury' = call.saved.treasury /\ reserve' = call.saved.reserve
    /\ outside' = call.saved.outside
    /\ call' = NoCall

Finish == FinishExactIn \/ FinishExactOut \/ FinishAdd \/ FinishAddSingle \/ FinishRemove

Next ==
    \/ \E c \in Currencies : Give(c)
    \/ \E sender \in Users, in \in Currencies, a \in Choices :
          \/ SwapExactTokensForTokens(sender, in, a[in], a[Other(in)])
          \/ SwapExactTokensForTokensOut(sender, in, a[Other(in)], a[in])
          \/ \E id \in PositionIds, liquidity \in 1 .. MaxLiquidity, swapIn \in 0 .. Funds[in] :
                AddLiquiditySingleSided(sender, id, liquidity, in, a[in], swapIn, a[Other(in)])
    \/ \E sender \in Users, id \in PositionIds, liquidity \in 1 .. MaxLiquidity, a \in Choices :
          \/ AddLiquidity(sender, id, liquidity, a)
          \/ RemoveLiquidity(sender, id, liquidity, a)
    \/ Pull \/ Swap \/ ModifyAdd \/ ModifyRemove \/ Finish \/ Revert

Spec == Init /\ [][Next]_vars

-----------------------------------------------------------------------------
\* The ledger is complete: between calls the liquidity the PoolManager keeps for
\* the router under a position is what the ledger says its owner may withdraw,
\* and no liquidity is without an owner.
LedgerMatchesPool ==
    Idle => \A id \in PositionIds :
                /\ positionLiquidity[id] = pool[id]
                /\ positionOwner[id] = NoOne <=> pool[id] = 0

\* With the types: money and liquidity stay in their bounds, whatever is paid
\* in or drawn out on the way.
LedgerSound == TypeOK /\ LedgerMatchesPool

\* A call that is not reverted keeps the caller's terms, whatever the pool does
\* and whatever was sent to the router before or meanwhile: he spends no more
\* than he offered and, but for the deposits, gets no less than he asked for;
\* nobody else's purse changes; the treasury gets the entry fee of a deposit and
\* nothing of anything else; and of what the router held before nothing is
\* spent, except that addLiquidity draws on it when the pool asks for more than
\* the net deposit.
KeepsTerms ==
    LET s == call.saved
        gain(c) == purse'[call.sender][c] - s.purse[call.sender][c]
    IN  /\ \A u \in Users \ {call.sender} : purse'[u] = s.purse[u]
        /\ treasury' = Plus(s.treasury, EntryFee)
        /\ \A c \in Currencies :
              /\ gain(c) >= 0 - call.gross[c]
              /\ call.action \in {"exactIn", "exactOut"} /\ c # call.in => gain(c) >= call.limit[c]
              /\ call.action = "remove" => gain(c) >= call.limit[c]
              /\ held'[c] < s.held[c] => call.action = "add" /\ call.used[c] > call.net[c]
CallsKeepTerms == [][~ Idle /\ Idle' => Now' = call.saved \/ KeepsTerms]_vars
=============================================================================
