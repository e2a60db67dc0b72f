---------------------------- MODULE RouterProofs ----------------------------
(***************************************************************************)
(* The router's ledger and the terms of its callers for every number of    *)
(* users and positions, every fee and every amount, whatever the pool      *)
(* answers and whatever is sent to the router meanwhile; and the same for  *)
(* the zap executor, which keeps no ledger.                                *)
(*                                                                         *)
(* The first invariant says what a call has done to the liquidity so far,  *)
(* the second what it has done to the money.                               *)
(***************************************************************************)
EXTENDS MCRouter, TLAPS

\* The ledger of a state says what the pool keeps.
Matches(s) ==
    \A id \in PositionIds : /\ s.positionLiquidity[id] = s.pool[id]
                            /\ s.positionOwner[id] = NoOne <=> s.pool[id] = 0

Deposit == call.action \in {"add", "addSingle"}

\* Which phases belong to which entry point.
Staged ==
    /\ call.phase = "pull"   => call.action # "remove"
    /\ call.phase = "swap"   => call.action \in {"exactIn", "exactOut", "addSingle"}
    /\ call.phase = "add"    => Deposit
    /\ call.phase = "remove" => call.action = "remove"

\* What the pool keeps for the position of the call.
InPool ==
    LET before == call.saved.pool[call.id]
    IN  IF call.phase # "finish" THEN before
        ELSE IF Deposit THEN call.liquidity
        ELSE IF call.action = "remove" THEN before - call.liquidity ELSE before

\* The ledger is as the call found it, and so is the pool but for the position.
InCall ==
    /\ Matches(call.saved)
    /\ Staged
    /\ positionOwner = call.saved.positionOwner
    /\ positionLiquidity = call.saved.positionLiquidity
    /\ Deposit => positionOwner[call.id] = NoOne
    /\ call.action \in {"add", "addSingle", "remove"} => call.liquidity > 0
    /\ \A id \in PositionIds : pool[id] = IF id = call.id THEN InPool ELSE call.saved.pool[id]

IInv ==
    /\ TypeOK
    /\ Idle => Matches(Now)
    /\ ~ Idle => InCall

-----------------------------------------------------------------------------
\* The terms of a call name one currency to pay a swap with and one to be paid
\* in; a removal pays nothing.
Terms ==
    /\ call.action \in {"exactIn", "exactOut", "addSingle"} => call.gross[Other(call.in)] = 0
    /\ call.action \in {"exactIn", "exactOut"} => call.limit[call.in] = 0
    /\ call.action = "remove" => call.gross = Zero

Pulled == call.phase # "pull" /\ call.action # "remove"

\* What the caller and the treasury have been charged.
Charged ==
    LET s == call.saved
    IN  /\ \A u \in Users \ {call.sender} : purse[u] = s.purse[u]
        /\ \A c \in Currencies :
              purse[call.sender][c] = s.purse[call.sender][c] - (IF Pulled THEN call.gross[c] ELSE 0)
        /\ \A c \in Currencies :
              treasury[c] = s.treasury[c] + (IF Pulled THEN EntryFee[c] ELSE 0)
        /\ Pulled => call.net = Minus(call.gross, EntryFee)
        /\ call.action = "addSingle" /\ call.phase = "swap" => call.swapIn <= call.net[call.in]

\* What the call still owes out of the router's balance, beyond what the router
\* held before; in the pool's hands already when negative.
Owing(c) ==
    IF call.phase = "swap" \/ (call.phase = "add" /\ call.action = "add") THEN call.net[c]
    ELSE IF call.phase # "finish" THEN 0
    ELSE IF call.action \in {"exactIn", "remove"} THEN call.got[c]
    ELSE IF call.action = "exactOut" THEN call.gross[c] - call.used[c] + call.limit[c]
    ELSE IF call.action = "add" THEN call.net[c] - call.used[c] ELSE 0

\* What the call owes has come in on top of what was there before.
Kept ==
    /\ \A c \in Currencies : held[c] >= call.saved.held[c] + Owing(c)
    /\ call.phase = "finish" /\ call.action = "exactOut" => call.used[Other(call.in)] = 0

MInv == ~ Idle => Terms /\ Charged /\ Kept

-----------------------------------------------------------------------------
\* The entry fee of an amount is at most the amount.
LEMMA FeeBound == ASSUME NEW a \in Nat PROVE Fee(a) \in Nat /\ Fee(a) <= a
  <1> DEFINE P == ProtocolFeeBps
             B == BpsDenominator
             q == (a * P) \div B
  <1>1. P \in Nat /\ B \in Nat /\ B > 0 /\ P < B
    BY RouterAssumption
  <1>2. a * P \in Nat /\ a * P <= a * B
    BY <1>1
  <1> HIDE DEF P, B
  <1>3. q \in Nat /\ B * q <= a * P
    BY <1>1, <1>2
  <1>4. B * q <= B * a
    BY <1>1, <1>2, <1>3
  <1>5. q <= a
    BY <1>1, <1>3, <1>4
  <1> QED
    BY <1>3, <1>5 DEF Fee, P, B

\* Sums and differences of amounts, currency by currency.
LEMMA AmountTypes ==
    /\ Zero \in Amounts
    /\ \A a \in Choices : a \in Amounts
    /\ \A a, b \in Amounts : Plus(a, b) \in Amounts
    /\ \A a, b \in Amounts : AtMost(b, a) => Minus(a, b) \in Amounts
    /\ \A a, b \in [Currencies -> Int] :
          /\ Plus(a, b) \in [Currencies -> Int]
          /\ Minus(a, b) \in [Currencies -> Int]
          /\ \A c \in Currencies : /\ Plus(a, b)[c] = a[c] + b[c]
                                   /\ Minus(a, b)[c] = a[c] - b[c]
    /\ Funds \in Amounts /\ Gifts \in Amounts
  BY RouterAssumption DEF Zero, Amounts, Choices, Plus, Minus, AtMost, Funds, Gifts

\* The same of the sums an exchange is made of.
LEMMA MovedSums ==
    ASSUME NEW a \in Amounts, NEW b \in Amounts, NEW x \in Amounts
    PROVE  /\ Plus(Minus(a, b), x) \in [Currencies -> Int]
           /\ \A c \in Currencies : Plus(Minus(a, b), x)[c] = a[c] - b[c] + x[c]
  BY DEF Plus, Minus, Amounts

\* And of the deltas it adds up to.
LEMMA DeltaSums ==
    ASSUME NEW a \in Amounts, NEW b \in Amounts, NEW x \in Amounts, NEW y \in Amounts
    PROVE  /\ Minus(Plus(Minus(a, b), x), y) \in [Currencies -> Int]
           /\ \A c \in Currencies : Minus(Plus(Minus(a, b), x), y)[c] = a[c] - b[c] + x[c] - y[c]
  BY DEF Plus, Minus, Amounts

\* An amount in one currency.
LEMMA OnlyTypes ==
    ASSUME NEW c \in Currencies, NEW n \in Nat
    PROVE  /\ Only(c, n) \in Amounts /\ Only(c, n)[c] = n /\ Only(c, n)[Other(c)] = 0
           /\ Other(c) \in Currencies /\ Other(c) # c
           /\ \A d \in Currencies : d = c \/ d = Other(c)
  BY RouterAssumption DEF Only, Zero, Amounts, Other, Currencies

\* A call on the stack, and the types of what it carries.
LEMMA CallTypes ==
    ASSUME IInv, ~ Idle
    PROVE  /\ call \in Calls /\ InCall /\ call.saved \in State
           /\ call.id \in PositionIds /\ call.sender \in Users /\ call.in \in Currencies
           /\ call.liquidity \in 0 .. MaxLiquidity
           /\ call.gross \in Amounts /\ call.limit \in Amounts /\ call.net \in Amounts
           /\ call.got \in Amounts /\ call.used \in Amounts
           /\ call.delta \in [Currencies -> Int]
  <1>1. call \in Calls /\ InCall
    BY DEF IInv, TypeOK, Idle, NoCall
  <1> QED
    BY <1>1 DEF Calls

\* What is true of the variables, one at a time.
LEMMA NowTypes ==
    ASSUME IInv
    PROVE  /\ positionOwner \in [PositionIds -> Users \cup {NoOne}]
           /\ positionLiquidity \in [PositionIds -> 0 .. MaxLiquidity]
           /\ pool \in [PositionIds -> 0 .. MaxLiquidity]
           /\ purse \in [Users -> Amounts]
           /\ held \in Amounts /\ treasury \in Amounts /\ reserve \in Amounts /\ outside \in Amounts
  BY DEF IInv, TypeOK, Now, State

\* The entry fee of a call and what it leaves of the gross amount.
LEMMA EntryFeeTypes ==
    ASSUME IInv, ~ Idle
    PROVE  EntryFee \in Amounts /\ Minus(call.gross, EntryFee) \in Amounts
  <1>1. call.gross \in Amounts
    BY CallTypes
  <1>2. EntryFee \in Amounts /\ AtMost(EntryFee, call.gross)
    BY <1>1, AmountTypes, FeeBound DEF EntryFee, Amounts, AtMost, Zero
  <1> QED
    BY <1>1, <1>2, AmountTypes

\* At first the pool keeps nothing and the ledger says so.
LEMMA InitIInv == Init => IInv /\ MInv
  BY RouterAssumption, AmountTypes
     DEF Init, IInv, MInv, TypeOK, Now, State, Matches, Idle, NoCall

-----------------------------------------------------------------------------
\* Gifts touch neither the ledger nor the call.
LEMMA GiveInv == ASSUME IInv, NEW c \in Currencies, Give(c) PROVE IInv'
  <1>1. /\ outside' = [outside EXCEPT ![c] = outside[c] - 1] /\ outside[c] > 0
        /\ held' = [held EXCEPT ![c] = held[c] + 1]
        /\ UNCHANGED <<positionOwner, positionLiquidity, pool, purse, treasury, reserve, call>>
    BY DEF Give, ledger
  <1>2. outside' \in Amounts /\ held' \in Amounts
    BY <1>1, NowTypes DEF Amounts
  <1>3. TypeOK'
    BY <1>1, <1>2, NowTypes DEF TypeOK, Now, State, IInv
  <1> QED
    BY <1>1, <1>3 DEF IInv, Idle, Matches, Now, InCall, Staged, Deposit, InPool

\* A call begins with a ledger that says what the pool keeps.
LEMMA EnterInv ==
    ASSUME IInv, NEW action \in Actions, NEW sender \in Users, NEW id \in PositionIds,
           NEW liquidity \in 0 .. MaxLiquidity, NEW in \in Currencies, NEW gross \in Amounts,
           NEW limit \in Amounts, NEW swapIn \in Nat, NEW phase,
           phase = (IF action = "remove" THEN "remove" ELSE "pull"),
           action \in {"add", "addSingle"} => positionOwner[id] = NoOne,
           action \in {"add", "addSingle", "remove"} => liquidity > 0,
           Enter(action, phase, sender, id, liquidity, in, gross, limit, swapIn)
    PROVE  IInv'
  <1>1. /\ Idle
        /\ call' = [action |-> action, phase |-> phase, sender |-> sender, id |-> id,
                    liquidity |-> liquidity, in |-> in, gross |-> gross, limit |-> limit,
                    swapIn |-> swapIn, net |-> gross, got |-> Zero, used |-> Zero,
                    delta |-> Zero, saved |-> Now]
        /\ UNCHANGED <<positionOwner, positionLiquidity, pool, purse, held, treasury, reserve, outside>>
    BY DEF Enter, ledger
  <1>2. Now \in State /\ Matches(Now)
    BY <1>1 DEF IInv, TypeOK
  <1>3. Zero \in [Currencies -> Int] /\ phase \in {"pull", "swap", "add", "remove", "finish"}
    BY AmountTypes DEF Zero
  <1>4. call' \in Calls
    BY <1>1, <1>2, <1>3, AmountTypes DEF Calls
  <1>5. Now' = Now /\ TypeOK'
    BY <1>1, <1>2, <1>4 DEF Now, TypeOK
  <1>6. ~ Idle'
    BY <1>1 DEF Idle
  <1>7. /\ call'.saved = Now /\ call'.phase = phase /\ call'.action = action /\ call'.id = id
        /\ call'.liquidity = liquidity
    BY <1>1
  <1>8. InCall'
    BY <1>1, <1>2, <1>7 DEF InCall, Matches, Staged, Deposit, InPool, Now
  <1> QED
    BY <1>5, <1>6, <1>8 DEF IInv

\* Every entry point is such a beginning.
LEMMA SwapExactInv ==
    ASSUME IInv, NEW sender \in Users, NEW in \in Currencies, NEW n \in Nat, NEW min \in Nat,
           SwapExactTokensForTokens(sender, in, n, min)
    PROVE  IInv'
  <1>1. AnyId \in PositionIds /\ 0 \in 0 .. MaxLiquidity
    BY RouterAssumption DEF AnyId
  <1> QED
    BY <1>1, OnlyTypes, EnterInv DEF SwapExactTokensForTokens, Actions

\* The same of a swap for a given output.
LEMMA SwapExactOutInv ==
    ASSUME IInv, NEW sender \in Users, NEW in \in Currencies, NEW n \in Nat, NEW max \in Nat,
           SwapExactTokensForTokensOut(sender, in, n, max)
    PROVE  IInv'
  <1>1. AnyId \in PositionIds /\ 0 \in 0 .. MaxLiquidity
    BY RouterAssumption DEF AnyId
  <1> QED
    BY <1>1, OnlyTypes, EnterInv DEF SwapExactTokensForTokensOut, Actions

\* The same of a deposit of one token.
LEMMA AddSingleInv ==
    ASSUME IInv, NEW sender \in Users, NEW id \in PositionIds, NEW l \in 1 .. MaxLiquidity,
           NEW in \in Currencies, NEW n \in Nat, NEW swapIn \in Nat, NEW min \in Nat,
           AddLiquiditySingleSided(sender, id, l, in, n, swapIn, min)
    PROVE  IInv'
  <1>1. l \in 0 .. MaxLiquidity /\ l > 0
    BY RouterAssumption
  <1> QED
    BY <1>1, OnlyTypes, EnterInv DEF AddLiquiditySingleSided, Actions

\* The same of a deposit of both tokens.
LEMMA AddInv ==
    ASSUME IInv, NEW sender \in Users, NEW id \in PositionIds, NEW l \in 1 .. MaxLiquidity,
           NEW max \in Amounts, AddLiquidity(sender, id, l, max)
    PROVE  IInv'
  <1>1. l \in 0 .. MaxLiquidity /\ l > 0 /\ Currency0 \in Currencies /\ 0 \in Nat
    BY RouterAssumption DEF Currencies
  <1> QED
    BY <1>1, AmountTypes, EnterInv DEF AddLiquidity, Actions

\* The same of a removal.
LEMMA RemoveInv ==
    ASSUME IInv, NEW sender \in Users, NEW id \in PositionIds, NEW l \in 1 .. MaxLiquidity,
           NEW min \in Amounts, RemoveLiquidity(sender, id, l, min)
    PROVE  IInv'
  <1>1. l \in 0 .. MaxLiquidity /\ l > 0 /\ Currency0 \in Currencies /\ 0 \in Nat
    BY RouterAssumption DEF Currencies
  <1> QED
    BY <1>1, AmountTypes, EnterInv DEF RemoveLiquidity, Actions

-----------------------------------------------------------------------------
\* What no step within a call changes of it.
Same == /\ call'.action = call.action /\ call'.id = call.id /\ call'.saved = call.saved
        /\ call'.liquidity = call.liquidity /\ call'.sender = call.sender
        /\ call'.in = call.in /\ call'.gross = call.gross /\ call'.limit = call.limit
        /\ call'.swapIn = call.swapIn

\* A step within a call that leaves the ledger alone.
LEMMA MidCall ==
    ASSUME IInv, ~ Idle, call' \in Calls, Same, Staged', UNCHANGED ledger,
           held' \in Amounts, reserve' \in Amounts, treasury' \in Amounts,
           outside' \in Amounts, purse' \in [Users -> Amounts],
           pool' \in [PositionIds -> 0 .. MaxLiquidity],
           \A id \in PositionIds : pool'[id] = IF id = call.id THEN InPool' ELSE pool[id]
    PROVE  IInv'
  <1>1. TypeOK'
    BY NowTypes DEF TypeOK, Now, State, ledger
  <1>2. InCall
    BY CallTypes
  <1>3. InCall'
    BY <1>2 DEF InCall, Same, Deposit, ledger
  <1>4. ~ Idle'
    BY DEF Idle, Calls
  <1> QED
    BY <1>1, <1>3, <1>4 DEF IInv

\* Pulling touches balances only.
LEMMA PullInv == ASSUME IInv, Pull PROVE IInv'
  <1> DEFINE net == Minus(call.gross, EntryFee)
  <1>1. ~ Idle /\ call.phase = "pull"
    BY DEF Pull, At, Idle
  <1>2. /\ AtMost(call.gross, purse[call.sender])
        /\ purse' = [purse EXCEPT ![call.sender] = Minus(purse[call.sender], call.gross)]
        /\ held' = Plus(held, net) /\ treasury' = Plus(treasury, EntryFee)
        /\ call' = [call EXCEPT !.phase = IF call.action = "add" THEN "add" ELSE "swap",
                                !.net = net]
        /\ UNCHANGED <<positionOwner, positionLiquidity, pool, reserve, outside>>
    BY DEF Pull, ledger
  <1>3. net \in Amounts /\ EntryFee \in Amounts
    BY <1>1, EntryFeeTypes
  <1>4. /\ call' \in Calls /\ Same
        /\ call'.phase = IF call.action = "add" THEN "add" ELSE "swap"
    BY <1>1, <1>2, <1>3, CallTypes DEF Calls, Same
  <1>5. Staged'
    BY <1>1, <1>4, CallTypes DEF InCall, Staged, Same, Deposit, Calls, Actions
  <1>6. \A id \in PositionIds : pool'[id] = IF id = call.id THEN InPool' ELSE pool[id]
    BY <1>1, <1>2, <1>4, CallTypes DEF InCall, InPool, Same
  <1>7. /\ held' \in Amounts /\ treasury' \in Amounts
        /\ Minus(purse[call.sender], call.gross) \in Amounts
    BY <1>1, <1>2, <1>3, NowTypes, CallTypes, AmountTypes
  <1>8. purse' \in [Users -> Amounts]
    BY <1>2, <1>7, NowTypes
  <1> QED
    BY <1>1, <1>2, <1>4, <1>5, <1>6, <1>7, <1>8, NowTypes, MidCall DEF ledger

\* A swap is an exchange of what is settled for what is taken.
LEMMA SwapCases ==
    ASSUME IInv, Swap
    PROVE  /\ ~ Idle /\ call.phase = "swap" /\ UNCHANGED <<ledger, pool, purse, treasury, outside>>
           /\ \E asks \in Nat, offers \in Nat :
                 LET asked   == Only(call.in, asks)
                     offered == Only(Other(call.in), offers)
                 IN  \/ call.action = "exactIn" /\ Exchange(call.gross, offered, asked, offered)
                     \/ call.action = "exactOut" /\ Exchange(asked, call.limit, asked, offered)
                     \/ /\ call.action = "addSingle" /\ asks <= call.swapIn
                        /\ Exchange(asked, offered, asked, offered)
  <1>1. ~ Idle /\ call.phase = "swap" /\ UNCHANGED <<ledger, pool, purse, treasury, outside>>
    BY DEF Swap, At, Idle
  <1>2. call.action \in {"exactIn", "exactOut", "addSingle"} /\ call.in \in Currencies
        /\ Other(call.in) \in Currencies
    BY <1>1, CallTypes, OnlyTypes DEF InCall, Staged
  <1>3. \A c \in Currencies : 0 .. Funds[c] \subseteq Nat
    BY AmountTypes DEF Amounts
  <1>4. PICK asks \in Nat, offers \in Nat : Swap!2!(asks, offers)
    BY <1>2, <1>3 DEF Swap
  <1> QED
    BY <1>1, <1>2, <1>4

\* What an exchange leaves, whatever is settled and taken.
LEMMA ExchangeFacts ==
    ASSUME IInv, ~ Idle, NEW paid \in Amounts, NEW taken \in Amounts, NEW asked \in Amounts,
           NEW offered \in Amounts, Exchange(paid, taken, asked, offered)
    PROVE  /\ AtMost(paid, held) /\ held' \in Amounts /\ reserve' \in Amounts
           /\ \A c \in Currencies : held'[c] = held[c] - paid[c] + taken[c]
           /\ call' \in Calls /\ Same /\ call'.net = call.net
           /\ call'.phase = IF call.action = "addSingle" THEN "add" ELSE "finish"
           /\ call'.used = asked /\ call'.got = offered
           /\ \A c \in Currencies : call'.delta[c] = offered[c] - asked[c] + paid[c] - taken[c]
  <1> DEFINE d == Minus(Plus(Minus(offered, asked), paid), taken)
  <1>1. /\ AtMost(paid, held) /\ AtMost(taken, Plus(reserve, paid))
        /\ held' = Plus(Minus(held, paid), taken)
        /\ reserve' = Plus(Minus(reserve, taken), paid)
        /\ call' = [call EXCEPT !.phase = IF call.action = "addSingle" THEN "add" ELSE "finish",
                                !.used = asked, !.got = offered, !.delta = d]
    BY DEF Exchange
  <1>2. \A c \in Currencies : /\ held[c] \in Nat /\ reserve[c] \in Nat /\ paid[c] \in Nat
                              /\ taken[c] \in Nat /\ paid[c] <= held[c]
                              /\ taken[c] <= reserve[c] + paid[c]
    BY <1>1, NowTypes DEF Amounts, AtMost, Plus
  <1>3. held' \in Amounts /\ \A c \in Currencies : held'[c] = held[c] - paid[c] + taken[c]
    <2>1. held' \in [Currencies -> Int]
          /\ \A c \in Currencies : held'[c] = held[c] - paid[c] + taken[c]
      <3>1. held \in Amounts /\ held' = Plus(Minus(held, paid), taken)
        BY <1>1, NowTypes
      <3> QED
        BY <3>1, MovedSums
    <2>2. \A c \in Currencies : held'[c] \in Nat
      BY <1>2, <2>1
    <2> QED
      BY <2>1, <2>2 DEF Amounts
  <1>4. reserve' \in Amounts
    <2>1. reserve' \in [Currencies -> Int]
          /\ \A c \in Currencies : reserve'[c] = reserve[c] - taken[c] + paid[c]
      <3>1. reserve \in Amounts /\ reserve' = Plus(Minus(reserve, taken), paid)
        BY <1>1, NowTypes
      <3> QED
        BY <3>1, MovedSums
    <2>2. \A c \in Currencies : reserve'[c] \in Nat
      BY <1>2, <2>1
    <2> QED
      BY <2>1, <2>2 DEF Amounts
  <1>5. /\ d \in [Currencies -> Int]
        /\ \A c \in Currencies : d[c] = offered[c] - asked[c] + paid[c] - taken[c]
    BY DeltaSums
  <1> HIDE DEF d
  <1>6. /\ call' \in Calls /\ Same /\ call'.net = call.net
        /\ call'.phase = IF call.action = "addSingle" THEN "add" ELSE "finish"
        /\ call'.used = asked /\ call'.got = offered /\ call'.delta = d
    BY <1>1, <1>5, CallTypes DEF Calls, Same
  <1> QED
    BY <1>1, <1>3, <1>4, <1>5, <1>6

\* A swap moves no liquidity.
LEMMA SwapInv == ASSUME IInv, Swap PROVE IInv'
  <1>1. ~ Idle /\ call.phase = "swap" /\ UNCHANGED <<ledger, pool, purse, treasury, outside>>
        /\ call.action \in {"exactIn", "exactOut", "addSingle"}
    BY SwapCases, CallTypes DEF InCall, Staged
  <1>2. PICK paid \in Amounts, taken \in Amounts, asked \in Amounts, offered \in Amounts :
           Exchange(paid, taken, asked, offered)
    BY <1>1, SwapCases, CallTypes, OnlyTypes
  <1>3. Staged'
    BY <1>1, <1>2, ExchangeFacts DEF Staged, Deposit, Same
  <1>4. \A id \in PositionIds : pool'[id] = IF id = call.id THEN InPool' ELSE pool[id]
    BY <1>1, <1>2, ExchangeFacts, CallTypes DEF InCall, InPool, Same, Deposit
  <1> QED
    BY <1>1, <1>2, <1>3, <1>4, ExchangeFacts, NowTypes, MidCall DEF ledger

\* A deposit puts its liquidity where there was none.
LEMMA ModifyAddInv == ASSUME IInv, ModifyAdd PROVE IInv'
  <1>1. ~ Idle /\ call.phase = "add"
    BY DEF ModifyAdd, At, Idle
  <1>2. PICK owed \in Choices :
           /\ Covered(owed)
           /\ pool' = [pool EXCEPT ![call.id] = pool[call.id] + call.liquidity]
           /\ held' = Minus(held, owed) /\ reserve' = Plus(reserve, owed)
           /\ call' = [call EXCEPT !.phase = "finish", !.used = owed]
    BY DEF ModifyAdd
  <1>3. UNCHANGED <<positionOwner, positionLiquidity, purse, treasury, outside>>
    BY DEF ModifyAdd, ledger
  <1>4. /\ call' \in Calls /\ Same /\ call'.phase = "finish"
    BY <1>1, <1>2, CallTypes, AmountTypes DEF Calls, Same
  <1>5. Deposit /\ pool[call.id] = 0 /\ call.liquidity \in 0 .. MaxLiquidity
    BY <1>1, CallTypes DEF InCall, Staged, Matches, InPool
  <1>6. held' \in Amounts /\ reserve' \in Amounts
    BY <1>2, NowTypes, AmountTypes DEF Covered
  <1>7. pool' \in [PositionIds -> 0 .. MaxLiquidity]
        /\ \A id \in PositionIds : pool'[id] = IF id = call.id THEN call.liquidity ELSE pool[id]
    <2>1. pool[call.id] + call.liquidity = call.liquidity
      BY <1>5, RouterAssumption
    <2> QED
      BY <1>2, <1>5, <2>1, NowTypes
  <1>8. Staged' /\ InPool' = call.liquidity
    BY <1>4, <1>5 DEF Staged, Deposit, Same, InPool
  <1> QED
    BY <1>1, <1>3, <1>4, <1>6, <1>7, <1>8, NowTypes, MidCall DEF ledger

\* A removal takes no more than the pool keeps for the position.
LEMMA ModifyRemoveInv == ASSUME IInv, ModifyRemove PROVE IInv'
  <1>1. ~ Idle /\ call.phase = "remove" /\ call.liquidity <= pool[call.id]
    BY DEF ModifyRemove, At, Idle
  <1>2. PICK received \in Choices :
           /\ AtMost(received, reserve)
           /\ held' = Plus(held, received) /\ reserve' = Minus(reserve, received)
           /\ call' = [call EXCEPT !.phase = "finish", !.got = received]
    BY DEF ModifyRemove
  <1>3. /\ UNCHANGED <<positionOwner, positionLiquidity, purse, treasury, outside>>
        /\ pool' = [pool EXCEPT ![call.id] = pool[call.id] - call.liquidity]
    BY DEF ModifyRemove, ledger
  <1>4. /\ call' \in Calls /\ Same /\ call'.phase = "finish"
    BY <1>1, <1>2, CallTypes, AmountTypes DEF Calls, Same
  <1>5. call.action = "remove" /\ pool[call.id] = call.saved.pool[call.id]
        /\ call.liquidity \in 0 .. MaxLiquidity /\ pool[call.id] \in 0 .. MaxLiquidity
    BY <1>1, CallTypes, NowTypes DEF InCall, Staged, InPool
  <1>6. held' \in Amounts /\ reserve' \in Amounts
    BY <1>2, NowTypes, AmountTypes
  <1>7. pool[call.id] - call.liquidity \in 0 .. MaxLiquidity
    BY <1>1, <1>5, RouterAssumption
  <1>8. pool' \in [PositionIds -> 0 .. MaxLiquidity]
        /\ \A id \in PositionIds :
              pool'[id] = IF id = call.id THEN pool[id] - call.liquidity ELSE pool[id]
    BY <1>3, <1>7, NowTypes
  <1>9. Staged' /\ InPool' = pool[call.id] - call.liquidity
    BY <1>4, <1>5 DEF Staged, Deposit, Same, InPool
  <1> QED
    BY <1>1, <1>3, <1>4, <1>6, <1>8, <1>9, NowTypes, MidCall DEF ledger

-----------------------------------------------------------------------------
\* A payment ends the call; it leaves the router's balance for the caller's.
LEMMA PayOutFacts ==
    ASSUME IInv, ~ Idle, NEW amounts \in Amounts, PayOut(amounts)
    PROVE  /\ Idle' /\ call' = NoCall /\ UNCHANGED <<pool, treasury, reserve, outside>>
           /\ held' \in Amounts /\ purse' \in [Users -> Amounts]
           /\ \A c \in Currencies : held'[c] = held[c] - amounts[c]
           /\ \A u \in Users \ {call.sender} : purse'[u] = purse[u]
           /\ \A c \in Currencies : purse'[call.sender][c] = purse[call.sender][c] + amounts[c]
  <1>1. /\ AtMost(amounts, held) /\ held' = Minus(held, amounts)
        /\ purse' = [purse EXCEPT ![call.sender] = Plus(purse[call.sender], amounts)]
        /\ call' = NoCall /\ UNCHANGED <<pool, treasury, reserve, outside>>
    BY DEF PayOut
  <1>2. call.sender \in Users /\ purse \in [Users -> Amounts] /\ held \in Amounts
    BY CallTypes, NowTypes
  <1>3. held' \in Amounts /\ \A c \in Currencies : held'[c] = held[c] - amounts[c]
    <2>1. held' \in Amounts
      BY <1>1, <1>2, AmountTypes
    <2> QED
      BY <1>1, <2>1 DEF Minus
  <1>4. /\ Plus(purse[call.sender], amounts) \in Amounts
        /\ \A c \in Currencies : Plus(purse[call.sender], amounts)[c] = purse[call.sender][c] + amounts[c]
    BY <1>2, AmountTypes DEF Plus
  <1>5. Idle'
    BY <1>1 DEF Idle, NoCall
  <1> QED
    BY <1>1, <1>2, <1>3, <1>4, <1>5

\* A call ends well when the ledger it leaves says what the pool keeps.
LEMMA EndInv ==
    ASSUME IInv, ~ Idle, NEW amounts \in Amounts, PayOut(amounts),
           positionOwner' \in [PositionIds -> Users \cup {NoOne}],
           positionLiquidity' \in [PositionIds -> 0 .. MaxLiquidity],
           \A id \in PositionIds : /\ positionLiquidity'[id] = pool[id]
                                   /\ positionOwner'[id] = NoOne <=> pool[id] = 0
    PROVE  IInv'
  <1>1. TypeOK'
    BY PayOutFacts, NowTypes DEF TypeOK, Now, State
  <1>2. Matches(Now)'
    BY PayOutFacts DEF Matches, Now
  <1> QED
    BY <1>1, <1>2, PayOutFacts DEF IInv

\* What each finish pays is an amount.
LEMMA PaymentTypes ==
    ASSUME IInv, ~ Idle
    PROVE  /\ AtMost(call.used, call.gross)
                => Plus(Minus(call.gross, call.used), call.limit) \in Amounts
           /\ [c \in Currencies |-> IF call.used[c] < call.net[c]
                                    THEN call.net[c] - call.used[c] ELSE 0] \in Amounts
           /\ [c \in Currencies |-> Dust(c)] \in Amounts
  <1>1. AtMost(call.used, call.gross) => Plus(Minus(call.gross, call.used), call.limit) \in Amounts
    BY CallTypes, AmountTypes
  <1>2. [c \in Currencies |-> IF call.used[c] < call.net[c]
                              THEN call.net[c] - call.used[c] ELSE 0] \in Amounts
    BY CallTypes DEF Amounts
  <1>3. call.saved.held \in Amounts /\ held \in Amounts
    BY CallTypes, NowTypes DEF State
  <1>4. [c \in Currencies |-> Dust(c)] \in Amounts
    BY <1>3 DEF Dust, Amounts
  <1> QED
    BY <1>1, <1>2, <1>4

\* A swap leaves the liquidity as it found it.
LEMMA FinishSwapInv ==
    ASSUME IInv, NEW amounts \in Amounts, At("finish"), call.action \in {"exactIn", "exactOut"},
           PayOut(amounts), UNCHANGED ledger
    PROVE  IInv'
  <1>1. ~ Idle
    BY DEF At, Idle
  <1>2. \A id \in PositionIds : /\ positionLiquidity[id] = pool[id]
                                /\ positionOwner[id] = NoOne <=> pool[id] = 0
    BY <1>1, CallTypes DEF InCall, Matches, InPool, Deposit
  <1> QED
    BY <1>1, <1>2, NowTypes, EndInv DEF ledger

\* A deposit is recorded as what the pool took in.
LEMMA FinishDepositInv ==
    ASSUME IInv, NEW amounts \in Amounts, At("finish"), call.action \in {"add", "addSingle"},
           PayOut(amounts), Record
    PROVE  IInv'
  <1>1. ~ Idle
    BY DEF At, Idle
  <1>2. /\ positionOwner' = [positionOwner EXCEPT ![call.id] = call.sender]
        /\ positionLiquidity' = [positionLiquidity EXCEPT ![call.id] = call.liquidity]
        /\ call.liquidity > 0 /\ call.sender # NoOne
    BY <1>1, CallTypes, RouterAssumption DEF Record, InCall
  <1>3. \A id \in PositionIds : /\ positionLiquidity'[id] = pool[id]
                                /\ positionOwner'[id] = NoOne <=> pool[id] = 0
    BY <1>1, <1>2, CallTypes, NowTypes, RouterAssumption DEF InCall, Matches, InPool, Deposit, At
  <1>4. /\ positionOwner' \in [PositionIds -> Users \cup {NoOne}]
        /\ positionLiquidity' \in [PositionIds -> 0 .. MaxLiquidity]
    BY <1>1, <1>2, CallTypes, NowTypes
  <1> QED
    BY <1>1, <1>3, <1>4, EndInv

\* A removal leaves in the ledger what it left in the pool.
LEMMA FinishRemoveInv == ASSUME IInv, FinishRemove PROVE IInv'
  <1>1. ~ Idle /\ call.phase = "finish" /\ call.action = "remove"
        /\ PayOut(call.got) /\ call.got \in Amounts
    BY CallTypes DEF FinishRemove, At, Idle
  <1>2. /\ positionOwner' = [positionOwner EXCEPT ![call.id] =
                               IF Remains = 0 THEN NoOne ELSE positionOwner[call.id]]
        /\ positionLiquidity' = [positionLiquidity EXCEPT ![call.id] = Remains]
    BY DEF FinishRemove
  <1>3. /\ positionLiquidity[call.id] = call.saved.pool[call.id]
        /\ pool[call.id] = call.saved.pool[call.id] - call.liquidity
        /\ pool[call.id] \in Nat /\ call.liquidity \in Nat
        /\ positionLiquidity[call.id] \in 0 .. MaxLiquidity
        /\ call.liquidity > 0
    BY <1>1, CallTypes, NowTypes, RouterAssumption DEF InCall, Matches, InPool, Deposit
  <1>4. Remains = pool[call.id] /\ Remains \in 0 .. MaxLiquidity
    BY <1>3, RouterAssumption DEF Remains
  <1>5. positionOwner[call.id] # NoOne
    BY <1>1, <1>3, CallTypes DEF InCall, Matches
  <1>6. \A id \in PositionIds : /\ positionLiquidity'[id] = pool[id]
                                /\ positionOwner'[id] = NoOne <=> pool[id] = 0
    BY <1>1, <1>2, <1>4, <1>5, CallTypes, NowTypes DEF InCall, Matches
  <1>7. /\ positionOwner' \in [PositionIds -> Users \cup {NoOne}]
        /\ positionLiquidity' \in [PositionIds -> 0 .. MaxLiquidity]
    BY <1>2, <1>4, NowTypes
  <1> QED
    BY <1>1, <1>6, <1>7, EndInv

\* Each finish is one of these.
LEMMA FinishInv == ASSUME IInv, Finish PROVE IInv'
  <1>1. ~ Idle
    BY DEF Finish, FinishExactIn, FinishExactOut, FinishAdd, FinishAddSingle, FinishRemove, At, Idle
  <1>2. CASE FinishExactIn
    BY <1>1, <1>2, CallTypes, FinishSwapInv DEF FinishExactIn
  <1>3. CASE FinishExactOut
    BY <1>1, <1>3, PaymentTypes, FinishSwapInv DEF FinishExactOut
  <1>4. CASE FinishAdd
    BY <1>1, <1>4, PaymentTypes, FinishDepositInv DEF FinishAdd
  <1>5. CASE FinishAddSingle
    BY <1>1, <1>5, PaymentTypes, FinishDepositInv DEF FinishAddSingle
  <1> QED
    BY <1>2, <1>3, <1>4, <1>5, FinishRemoveInv DEF Finish

\* A revert brings back the state the call was entered in.
LEMMA RevertInv == ASSUME IInv, Revert PROVE IInv' /\ Now' = call.saved
  <1>1. call.saved \in State /\ Matches(call.saved)
    BY CallTypes DEF Revert, InCall
  <1>2. Now' = call.saved /\ call' = NoCall
    BY <1>1 DEF Revert, Now, State
  <1> QED
    BY <1>1, <1>2 DEF IInv, TypeOK, Idle, NoCall

-----------------------------------------------------------------------------
\* Every step keeps the invariant of the ledger.
LEMMA NextInv == ASSUME IInv, [Next]_vars PROVE IInv'
  <1>1. ASSUME NEW sender \in Users, NEW in \in Currencies, NEW a \in Choices,
               \/ SwapExactTokensForTokens(sender, in, a[in], a[Other(in)])
               \/ SwapExactTokensForTokensOut(sender, in, a[Other(in)], a[in])
               \/ \E id \in PositionIds, liquidity \in 1 .. MaxLiquidity, swapIn \in 0 .. Funds[in] :
                     AddLiquiditySingleSided(sender, id, liquidity, in, a[in], swapIn, a[Other(in)])
        PROVE  IInv'
    <2>1. a[in] \in Nat /\ a[Other(in)] \in Nat
      BY OnlyTypes DEF Choices
    <2>2. 0 .. Funds[in] \subseteq Nat
      BY AmountTypes DEF Amounts
    <2> QED
      BY <1>1, <2>1, <2>2, SwapExactInv, SwapExactOutInv, AddSingleInv
  <1>2. ASSUME NEW sender \in Users, NEW id \in PositionIds, NEW liquidity \in 1 .. MaxLiquidity,
               NEW a \in Choices,
               AddLiquidity(sender, id, liquidity, a) \/ RemoveLiquidity(sender, id, liquidity, a)
        PROVE  IInv'
    BY <1>2, AmountTypes, AddInv, RemoveInv
  <1>3. CASE UNCHANGED vars
    BY <1>3 DEF vars, ledger, IInv, TypeOK, Now, Idle, Matches, InCall, Staged, Deposit, InPool
  <1> QED
    BY <1>1, <1>2, <1>3, GiveInv, PullInv, SwapInv, ModifyAddInv, ModifyRemoveInv, FinishInv,
       RevertInv DEF Next

\* IInv is an invariant of every behaviour.
THEOREM Invariance == Spec => []IInv
  BY InitIInv, NextInv, PTL DEF Spec

\* Whatever is deposited, withdrawn, reverted or sent in between, the ledger of
\* the router is what the PoolManager keeps for it, and no amount leaves its type.
THEOREM LedgerIsSound == Spec => []LedgerSound
  <1>1. IInv => LedgerSound
    BY DEF IInv, LedgerSound, LedgerMatchesPool, Matches, Now
  <1> QED
    BY <1>1, Invariance, PTL

-----------------------------------------------------------------------------
\* The money of a call.  A gift only adds to what the router holds.
LEMMA GiveMoney == ASSUME IInv, MInv, NEW c \in Currencies, Give(c) PROVE MInv'
  <1>1. /\ held' = [held EXCEPT ![c] = held[c] + 1]
        /\ UNCHANGED <<purse, treasury, call>>
    BY DEF Give
  <1>2. held \in Amounts /\ \A d \in Currencies : held'[d] >= held[d]
    BY <1>1, NowTypes DEF Amounts
  <1> SUFFICES ASSUME ~ Idle PROVE Terms' /\ Charged' /\ Kept'
    BY <1>1 DEF MInv, Idle
  <1>3. Terms' /\ Charged'
    BY <1>1 DEF MInv, Terms, Charged, Pulled, EntryFee
  <1>4. \A d \in Currencies : /\ held[d] \in Int /\ held'[d] \in Int
                              /\ call.saved.held[d] \in Int /\ Owing(d) \in Int
    BY <1>1, <1>2, CallTypes DEF Amounts, State, Owing
  <1>5. Kept'
    BY <1>1, <1>2, <1>4 DEF MInv, Kept, Owing
  <1> QED
    BY <1>3, <1>5

\* An entry charges nothing yet.
LEMMA EnterMoney ==
    ASSUME IInv, IInv', NEW action \in Actions, NEW sender \in Users, NEW id, NEW liquidity,
           NEW in \in Currencies, NEW gross \in Amounts, NEW limit \in Amounts, NEW swapIn,
           NEW phase, phase = (IF action = "remove" THEN "remove" ELSE "pull"),
           action \in {"exactIn", "exactOut", "addSingle"} => gross[Other(in)] = 0,
           action \in {"exactIn", "exactOut"} => limit[in] = 0,
           action = "remove" => gross = Zero,
           Enter(action, phase, sender, id, liquidity, in, gross, limit, swapIn)
    PROVE  MInv'
  <1>1. /\ call'.action = action /\ call'.phase = phase /\ call'.sender = sender
        /\ call'.in = in /\ call'.gross = gross /\ call'.limit = limit /\ call'.delta = Zero
        /\ call'.saved = Now /\ UNCHANGED <<purse, held, treasury>>
    BY DEF Enter
  <1>2. Terms'
    BY <1>1 DEF Terms
  <1>3. ~ Pulled' /\ purse \in [Users -> Amounts] /\ held \in Amounts /\ treasury \in Amounts
    BY <1>1, NowTypes DEF Pulled
  <1>4. Charged'
    BY <1>1, <1>3 DEF Charged, Now, Amounts
  <1>5. Kept'
    BY <1>1, <1>3 DEF Kept, Owing, Now, Amounts
  <1> QED
    BY <1>2, <1>4, <1>5 DEF MInv

\* So begin all the calls.
LEMMA EntriesMoney ==
    ASSUME IInv, IInv', NEW sender \in Users, NEW in \in Currencies, NEW a \in Choices,
           \/ SwapExactTokensForTokens(sender, in, a[in], a[Other(in)])
           \/ SwapExactTokensForTokensOut(sender, in, a[Other(in)], a[in])
           \/ \E id \in PositionIds, liquidity \in 1 .. MaxLiquidity, swapIn \in 0 .. Funds[in] :
                 AddLiquiditySingleSided(sender, id, liquidity, in, a[in], swapIn, a[Other(in)])
           \/ \E id \in PositionIds, liquidity \in 1 .. MaxLiquidity :
                 AddLiquidity(sender, id, liquidity, a) \/ RemoveLiquidity(sender, id, liquidity, a)
    PROVE  MInv'
  <1>1. a[in] \in Nat /\ a[Other(in)] \in Nat /\ a \in Amounts /\ Zero \in Amounts
    BY OnlyTypes, AmountTypes DEF Choices
  <1>2. /\ Only(in, a[in]) \in Amounts /\ Only(in, a[in])[Other(in)] = 0
        /\ Only(Other(in), a[Other(in)]) \in Amounts /\ Only(Other(in), a[Other(in)])[in] = 0
        /\ Currency0 \in Currencies
    BY <1>1, RouterAssumption DEF Only, Zero, Amounts, Other, Currencies
  <1>3. CASE SwapExactTokensForTokens(sender, in, a[in], a[Other(in)])
    BY <1>1, <1>2, <1>3, EnterMoney DEF SwapExactTokensForTokens, Actions
  <1>4. CASE SwapExactTokensForTokensOut(sender, in, a[Other(in)], a[in])
    BY <1>1, <1>2, <1>4, EnterMoney DEF SwapExactTokensForTokensOut, Actions
  <1>5. ASSUME NEW id \in PositionIds, NEW liquidity \in 1 .. MaxLiquidity, NEW swapIn \in 0 .. Funds[in],
               AddLiquiditySingleSided(sender, id, liquidity, in, a[in], swapIn, a[Other(in)])
        PROVE  MInv'
    BY <1>1, <1>2, <1>5, EnterMoney DEF AddLiquiditySingleSided, Actions
  <1>6. ASSUME NEW id \in PositionIds, NEW liquidity \in 1 .. MaxLiquidity,
               AddLiquidity(sender, id, liquidity, a)
        PROVE  MInv'
    BY <1>1, <1>2, <1>6, EnterMoney DEF AddLiquidity, Actions
  <1>7. ASSUME NEW id \in PositionIds, NEW liquidity \in 1 .. MaxLiquidity,
               RemoveLiquidity(sender, id, liquidity, a)
        PROVE  MInv'
    BY <1>1, <1>2, <1>7, EnterMoney DEF RemoveLiquidity, Actions
  <1> QED
    BY <1>3, <1>4, <1>5, <1>6, <1>7

\* A pull charges the caller the gross amount and the treasury's fee of it; the
\* rest is the router's to spend.
LEMMA PullMoney == ASSUME IInv, MInv, Pull PROVE MInv'
  <1> DEFINE net == Minus(call.gross, EntryFee)
  <1>1. ~ Idle /\ call.phase = "pull" /\ call.action # "remove"
    BY CallTypes DEF Pull, At, Idle, InCall, Staged
  <1>2. /\ purse' = [purse EXCEPT ![call.sender] = Minus(purse[call.sender], call.gross)]
        /\ held' = Plus(held, net) /\ treasury' = Plus(treasury, EntryFee)
        /\ call' = [call EXCEPT !.phase = IF call.action = "add" THEN "add" ELSE "swap",
                                !.net = net]
        /\ call.action = "addSingle" => call.swapIn <= net[call.in]
    BY DEF Pull
  <1>3. net \in Amounts /\ EntryFee \in Amounts /\ held \in Amounts /\ treasury \in Amounts
        /\ purse \in [Users -> Amounts] /\ call.gross \in Amounts /\ call.sender \in Users
        /\ call.saved.purse \in [Users -> Amounts] /\ call.saved.held \in Amounts
        /\ call.saved.treasury \in Amounts
    BY <1>1, EntryFeeTypes, NowTypes, CallTypes DEF State
  <1> HIDE DEF net
  <1>4. /\ Same /\ call'.net = net /\ call'.delta = call.delta
        /\ call'.phase = IF call.action = "add" THEN "add" ELSE "swap"
    BY <1>1, <1>2, CallTypes DEF Calls, Same
  <1>5. /\ \A u \in Users \ {call.sender} : purse'[u] = purse[u]
        /\ \A c \in Currencies : purse'[call.sender][c] = purse[call.sender][c] - call.gross[c]
    BY <1>2, <1>3 DEF Minus
  <1>6. \A c \in Currencies : /\ held'[c] = held[c] + net[c]
                              /\ treasury'[c] = treasury[c] + EntryFee[c]
    BY <1>2 DEF Plus
  <1>7. Terms' /\ EntryFee' = EntryFee /\ Pulled' /\ ~ Pulled /\ ~ Idle
    BY <1>1, <1>4 DEF MInv, Terms, Same, EntryFee, Pulled
  <1>8. Charged'
    <2>1. Charged
      BY <1>1 DEF MInv
    <2>2. \A c \in Currencies : /\ purse[call.sender][c] = call.saved.purse[call.sender][c]
                                /\ treasury[c] = call.saved.treasury[c]
      BY <1>3, <1>7, <2>1 DEF Charged, Amounts
    <2>3. call'.net = Minus(call'.gross, EntryFee')
      BY <1>4, <1>7 DEF Same, net
    <2> QED
      BY <1>2, <1>4, <1>5, <1>6, <1>7, <2>1, <2>2, <2>3 DEF Charged, Same
  <1>9. Kept'
    <2>1. \A c \in Currencies : Owing(c) = 0 /\ Owing(c)' = net[c]
      BY <1>1, <1>4 DEF Owing, Same
    <2>2. \A c \in Currencies : held[c] \in Int /\ net[c] \in Int /\ call.saved.held[c] \in Int
      BY <1>3 DEF Amounts
    <2>3. Kept
      BY <1>1 DEF MInv
    <2> QED
      BY <1>1, <1>4, <1>6, <2>1, <2>2, <2>3 DEF Kept, Same
  <1> QED
    BY <1>7, <1>8, <1>9 DEF MInv

\* After the pull nothing is charged until the end.
LEMMA ChargedStays ==
    ASSUME IInv, MInv, ~ Idle, Same, call'.net = call.net, UNCHANGED <<purse, treasury>>,
           call.phase # "pull", call'.phase \in {"add", "finish"}
    PROVE  Terms' /\ Charged'
  <1>1. Terms /\ Charged
    BY DEF MInv
  <1>2. Pulled' = Pulled /\ EntryFee' = EntryFee
    BY DEF Pulled, EntryFee, Same
  <1>3. Terms'
    BY <1>1 DEF Terms, Same
  <1>4. Charged'
    BY <1>1, <1>2 DEF Charged, Same
  <1> QED
    BY <1>3, <1>4

\* The net amount of a call that charges no fee is the gross amount.
LEMMA NetIsGross ==
    ASSUME IInv, ~ Idle, Pulled, Charged
    PROVE  \A c \in Currencies :
              /\ call.net[c] = call.gross[c] - EntryFee[c]
              /\ call.action \in {"exactIn", "exactOut"} => call.net[c] = call.gross[c]
  <1>1. \A c \in Currencies : call.net[c] = call.gross[c] - EntryFee[c] /\ call.gross[c] \in Nat
    BY CallTypes DEF Charged, Minus, Amounts
  <1> QED
    BY <1>1 DEF EntryFee, Zero

\* A swap has left the router what it owes the caller.
LEMMA SwapMoney == ASSUME IInv, MInv, Swap PROVE MInv'
  <1>1. ~ Idle /\ call.phase = "swap" /\ UNCHANGED <<purse, treasury>>
        /\ call.action \in {"exactIn", "exactOut", "addSingle"}
    BY SwapCases, CallTypes DEF InCall, Staged
  <1>2. /\ call.in \in Currencies /\ Other(call.in) \in Currencies /\ Other(call.in) # call.in
        /\ \A c \in Currencies : c = call.in \/ c = Other(call.in)
    BY <1>1, CallTypes, OnlyTypes
  <1>3. Terms /\ Charged /\ Kept /\ Pulled
    BY <1>1 DEF MInv, Pulled
  <1>4. PICK asks \in Nat, offers \in Nat :
           \/ call.action = "exactIn"
              /\ Exchange(call.gross, Only(Other(call.in), offers), Only(call.in, asks), Only(Other(call.in), offers))
           \/ call.action = "exactOut"
              /\ Exchange(Only(call.in, asks), call.limit, Only(call.in, asks), Only(Other(call.in), offers))
           \/ call.action = "addSingle" /\ asks <= call.swapIn
              /\ Exchange(Only(call.in, asks), Only(Other(call.in), offers), Only(call.in, asks), Only(Other(call.in), offers))
    BY SwapCases
  <1> DEFINE asked == Only(call.in, asks)
             offered == Only(Other(call.in), offers)
  <1>5. /\ asked \in Amounts /\ asked[call.in] = asks /\ asked[Other(call.in)] = 0
        /\ offered \in Amounts /\ offered[call.in] = 0
    BY <1>2, OnlyTypes, RouterAssumption DEF Only, Zero, Amounts
  <1>6. /\ call.gross \in Amounts /\ call.limit \in Amounts /\ call.net \in Amounts
        /\ held \in Amounts /\ call.saved.held \in Amounts
    BY <1>1, CallTypes, NowTypes DEF State
  <1>7. \A c \in Currencies : /\ held[c] >= call.saved.held[c] + call.net[c]
                              /\ call.action \in {"exactIn", "exactOut"} => call.net[c] = call.gross[c]
    BY <1>1, <1>3, NetIsGross DEF Kept, Owing
  <1>8. \E paid \in Amounts, taken \in Amounts :
           /\ Exchange(paid, taken, asked, offered)
           /\ \/ call.action = "exactIn" /\ paid = call.gross /\ taken = offered
              \/ call.action = "exactOut" /\ paid = asked /\ taken = call.limit
              \/ call.action = "addSingle" /\ paid = asked /\ taken = offered /\ asks <= call.swapIn
    BY <1>4, <1>5, <1>6
  <1> HIDE DEF asked, offered
  <1> PICK paid \in Amounts, taken \in Amounts :
           /\ Exchange(paid, taken, asked, offered)
           /\ \/ call.action = "exactIn" /\ paid = call.gross /\ taken = offered
              \/ call.action = "exactOut" /\ paid = asked /\ taken = call.limit
              \/ call.action = "addSingle" /\ paid = asked /\ taken = offered /\ asks <= call.swapIn
    BY <1>8
  <1>9. /\ \A c \in Currencies : held'[c] = held[c] - paid[c] + taken[c]
        /\ Same /\ call'.net = call.net
        /\ call'.phase = IF call.action = "addSingle" THEN "add" ELSE "finish"
        /\ call'.used = asked /\ call'.got = offered
        /\ \A c \in Currencies : call'.delta[c] = offered[c] - asked[c] + paid[c] - taken[c]
    BY <1>1, <1>5, ExchangeFacts
  <1>10. Terms' /\ Charged'
    BY <1>1, <1>9, ChargedStays
  <1>11. Kept'
    <2>1. call'.phase = "finish" /\ call'.action = "exactOut" => call'.used[Other(call'.in)] = 0
      BY <1>5, <1>9 DEF Same
    <2>2. ASSUME NEW c \in Currencies PROVE held'[c] >= call'.saved.held[c] + Owing(c)'
      <3>1. /\ held[c] \in Nat /\ call.saved.held[c] \in Nat /\ call.net[c] \in Nat
            /\ asked[c] \in Nat /\ offered[c] \in Nat /\ call.gross[c] \in Nat
            /\ call.limit[c] \in Nat
        BY <1>5, <1>6 DEF Amounts
      <3>5. /\ held[c] >= call.saved.held[c] + call.net[c]
            /\ call.action \in {"exactIn", "exactOut"} => call.net[c] = call.gross[c]
            /\ held'[c] = held[c] - paid[c] + taken[c]
        <4>1. /\ held[c] >= call.saved.held[c] + call.net[c]
              /\ call.action \in {"exactIn", "exactOut"} => call.net[c] = call.gross[c]
          BY <1>7
        <4>2. held'[c] = held[c] - paid[c] + taken[c]
          BY <1>9
        <4> QED
          BY <4>1, <4>2
      <3>6. /\ call'.saved = call.saved /\ call'.action = call.action /\ call'.gross = call.gross
            /\ call'.limit = call.limit /\ call'.used = asked /\ call'.got = offered
            /\ call'.phase = IF call.action = "addSingle" THEN "add" ELSE "finish"
        BY <1>9 DEF Same
      <3>2. CASE call.action = "exactIn"
        <4>1. Owing(c)' = offered[c] /\ paid = call.gross /\ taken = offered
          BY <3>2, <3>6 DEF Owing
        <4> QED
          BY <3>1, <3>2, <3>5, <3>6, <4>1
      <3>3. CASE call.action = "exactOut"
        <4>1. /\ Owing(c)' = call.gross[c] - asked[c] + call.limit[c]
              /\ paid = asked /\ taken = call.limit
          BY <3>3, <3>6 DEF Owing
        <4> QED
          BY <3>1, <3>3, <3>5, <3>6, <4>1
      <3>4. CASE call.action = "addSingle"
        <4>1. Owing(c)' = 0 /\ paid = asked /\ taken = offered
          BY <3>4, <3>6 DEF Owing
        <4>2. asked[c] <= call.net[c]
          <5>1. CASE c = call.in
            <6>1. asks <= call.swapIn /\ call.swapIn <= call.net[call.in]
              BY <1>1, <1>3, <3>4 DEF Charged
            <6>2. call.swapIn \in Nat
              BY <1>1, CallTypes DEF Calls
            <6> QED
              BY <1>5, <3>1, <5>1, <6>1, <6>2
          <5> QED
            BY <1>2, <1>5, <3>1, <5>1
        <4> QED
          BY <3>1, <3>5, <3>6, <4>1, <4>2
      <3> QED
        BY <1>1, <3>2, <3>3, <3>4
    <2> QED
      BY <2>1, <2>2 DEF Kept
  <1> QED
    BY <1>10, <1>11 DEF MInv

\* A deposit of one token spends only what came in since the call began.
LEMMA ModifyAddMoney == ASSUME IInv, MInv, ModifyAdd PROVE MInv'
  <1>1. ~ Idle /\ call.phase = "add" /\ UNCHANGED <<purse, treasury>> /\ Deposit
    BY CallTypes DEF ModifyAdd, At, Idle, InCall, Staged
  <1>2. PICK owed \in Choices :
           /\ Covered(owed) /\ held' = Minus(held, owed)
           /\ call' = [call EXCEPT !.phase = "finish", !.used = owed]
    BY DEF ModifyAdd
  <1>3. Same /\ call'.net = call.net /\ call'.phase = "finish" /\ call'.used = owed
    BY <1>1, <1>2, CallTypes DEF Calls, Same
  <1>4. Terms' /\ Charged'
    BY <1>1, <1>3, ChargedStays
  <1>5. Kept'
    <2> SUFFICES ASSUME NEW c \in Currencies PROVE held'[c] >= call'.saved.held[c] + Owing(c)'
      BY <1>1, <1>3 DEF Kept, Same, Deposit
    <2>1. /\ held[c] \in Nat /\ owed[c] \in Nat /\ call.saved.held[c] \in Nat /\ call.net[c] \in Nat
          /\ held'[c] = held[c] - owed[c]
          /\ held[c] >= call.saved.held[c] + Owing(c)
      BY <1>1, <1>2, CallTypes, NowTypes, AmountTypes DEF State, Amounts, Minus, MInv, Kept
    <2>2. CASE call.action = "add"
      <3>1. Owing(c) = call.net[c] /\ Owing(c)' = call.net[c] - owed[c]
        BY <1>1, <1>3, <2>2 DEF Owing, Same
      <3> QED
        BY <1>3, <2>1, <3>1 DEF Same
    <2>3. CASE call.action = "addSingle"
      <3>1. Owing(c) = 0 /\ Owing(c)' = 0
        BY <1>1, <1>3, <2>3 DEF Owing, Same
      <3>2. owed[c] > 0 => held[c] - call.saved.held[c] >= owed[c]
        BY <1>2, <2>3 DEF Covered
      <3> QED
        BY <1>3, <2>1, <3>1, <3>2 DEF Same
    <2> QED
      BY <1>1, <2>2, <2>3 DEF Deposit
  <1> QED
    BY <1>4, <1>5 DEF MInv

\* A removal leaves the router what it received.
LEMMA ModifyRemoveMoney == ASSUME IInv, MInv, ModifyRemove PROVE MInv'
  <1>1. ~ Idle /\ call.phase = "remove" /\ UNCHANGED <<purse, treasury>> /\ call.action = "remove"
    BY CallTypes DEF ModifyRemove, At, Idle, InCall, Staged
  <1>2. PICK received \in Choices :
           /\ held' = Plus(held, received)
           /\ call' = [call EXCEPT !.phase = "finish", !.got = received]
    BY DEF ModifyRemove
  <1>3. Same /\ call'.net = call.net /\ call'.phase = "finish" /\ call'.got = received
    BY <1>1, <1>2, CallTypes DEF Calls, Same
  <1>4. Terms' /\ Charged'
    BY <1>1, <1>3, ChargedStays
  <1>5. Kept'
    <2> SUFFICES ASSUME NEW c \in Currencies PROVE held'[c] >= call'.saved.held[c] + Owing(c)'
      BY <1>1, <1>3 DEF Kept, Same
    <2>1. /\ held[c] \in Nat /\ received[c] \in Nat /\ call.saved.held[c] \in Nat
          /\ held'[c] = held[c] + received[c]
          /\ held[c] >= call.saved.held[c] + Owing(c)
      BY <1>1, <1>2, CallTypes, NowTypes, AmountTypes DEF State, Amounts, Plus, MInv, Kept
    <2>2. Owing(c) = 0 /\ Owing(c)' = received[c]
      BY <1>1, <1>3 DEF Owing, Same
    <2> QED
      BY <1>3, <2>1, <2>2 DEF Same
  <1> QED
    BY <1>4, <1>5 DEF MInv

\* Every step keeps the invariant of the money.
LEMMA NextMoney == ASSUME IInv, IInv', MInv, [Next]_vars PROVE MInv'
  <1>1. ASSUME NEW sender \in Users, NEW in \in Currencies, NEW a \in Choices,
               \/ SwapExactTokensForTokens(sender, in, a[in], a[Other(in)])
               \/ SwapExactTokensForTokensOut(sender, in, a[Other(in)], a[in])
               \/ \E id \in PositionIds, liquidity \in 1 .. MaxLiquidity, swapIn \in 0 .. Funds[in] :
                     AddLiquiditySingleSided(sender, id, liquidity, in, a[in], swapIn, a[Other(in)])
        PROVE  MInv'
    BY <1>1, EntriesMoney
  <1>2. ASSUME NEW sender \in Users, NEW id \in PositionIds, NEW liquidity \in 1 .. MaxLiquidity,
               NEW a \in Choices,
               AddLiquidity(sender, id, liquidity, a) \/ RemoveLiquidity(sender, id, liquidity, a)
        PROVE  MInv'
    <2>1. Currency0 \in Currencies
      BY DEF Currencies
    <2> QED
      BY <1>2, <2>1, EntriesMoney
  <1>3. CASE Finish \/ Revert
    BY <1>3 DEF Finish, FinishExactIn, FinishExactOut, FinishAdd, FinishAddSingle, FinishRemove,
                PayOut, Revert, MInv, Idle, NoCall
  <1>4. CASE UNCHANGED vars
    BY <1>4 DEF vars, MInv, Idle, Terms, Charged, Pulled, EntryFee, Kept, Owing
  <1> QED
    BY <1>1, <1>2, <1>3, <1>4, GiveMoney, PullMoney, SwapMoney, ModifyAddMoney, ModifyRemoveMoney
       DEF Next

-----------------------------------------------------------------------------
\* A call that finishes keeps the terms of its caller, when it pays no more than
\* it owes on top of what was there before, and as much as was asked for.
LEMMA TermsKept ==
    ASSUME IInv, MInv, At("finish"), NEW amounts \in Amounts, PayOut(amounts),
           \A c \in Currencies :
              /\ call.action # "add" \/ call.used[c] <= call.net[c]
                    => held[c] - amounts[c] >= call.saved.held[c]
              /\ call.action \in {"exactIn", "exactOut"} /\ c # call.in
                    => amounts[c] >= call.limit[c] + call.gross[c]
              /\ call.action = "remove" => amounts[c] >= call.limit[c]
    PROVE  KeepsTerms
  <1>1. ~ Idle /\ Charged /\ Terms /\ Pulled = (call.action # "remove")
    BY DEF At, Idle, MInv, Pulled
  <1>2. /\ call.sender \in Users /\ call.gross \in Amounts /\ call.limit \in Amounts
        /\ call.used \in Amounts /\ call.net \in Amounts
        /\ call.saved.purse \in [Users -> Amounts] /\ call.saved.treasury \in Amounts
        /\ call.saved.held \in Amounts /\ held \in Amounts /\ treasury \in Amounts
    BY <1>1, CallTypes, NowTypes DEF State
  <1>3. \A u \in Users \ {call.sender} : purse'[u] = call.saved.purse[u]
    BY <1>1, PayOutFacts DEF Charged
  <1>4. treasury' = Plus(call.saved.treasury, EntryFee)
    <2>1. EntryFee \in Amounts
      BY <1>1, EntryFeeTypes
    <2>2. \A c \in Currencies : treasury[c] = call.saved.treasury[c] + EntryFee[c]
      BY <1>1, <1>2, <2>1 DEF Charged, EntryFee, Zero, Amounts
    <2> QED
      BY <1>1, <1>2, <2>1, <2>2, PayOutFacts DEF Plus, Amounts
  <1>5. ASSUME NEW c \in Currencies
        PROVE  /\ purse'[call.sender][c] - call.saved.purse[call.sender][c] = amounts[c] - call.gross[c]
               /\ held'[c] = held[c] - amounts[c]
    <2>1. /\ purse'[call.sender][c] = purse[call.sender][c] + amounts[c]
          /\ held'[c] = held[c] - amounts[c]
      BY <1>1, PayOutFacts
    <2>2. /\ amounts[c] \in Nat /\ call.gross[c] \in Nat
          /\ call.saved.purse[call.sender][c] \in Nat
      BY <1>2 DEF Amounts
    <2>3. purse[call.sender][c] = call.saved.purse[call.sender][c] - call.gross[c]
      <3>1. call.action = "remove" => call.gross[c] = 0
        BY <1>1 DEF Terms, Zero
      <3> QED
        BY <1>1, <2>2, <3>1 DEF Charged
    <2> QED
      BY <2>1, <2>2, <2>3
  <1>6. ASSUME NEW c \in Currencies
        PROVE  /\ amounts[c] - call.gross[c] >= 0 - call.gross[c]
               /\ call.action \in {"exactIn", "exactOut"} /\ c # call.in
                     => amounts[c] - call.gross[c] >= call.limit[c]
               /\ call.action = "remove" => amounts[c] - call.gross[c] >= call.limit[c]
               /\ held[c] - amounts[c] < call.saved.held[c]
                     => call.action = "add" /\ call.used[c] > call.net[c]
    <2>1. /\ amounts[c] \in Nat /\ call.gross[c] \in Nat /\ call.limit[c] \in Nat
          /\ held[c] \in Nat /\ call.saved.held[c] \in Nat
          /\ call.used[c] \in Nat /\ call.net[c] \in Nat
      BY <1>2 DEF Amounts
    <2>2. call.action = "remove" => call.gross[c] = 0
      BY <1>1 DEF Terms, Zero
    <2> QED
      BY <2>1, <2>2
  <1> QED
    BY <1>3, <1>4, <1>5, <1>6 DEF KeepsTerms

\* So does each finish: what it pays is what the call owes, or the caller's dust.
LEMMA FinishKeepsTerms == ASSUME IInv, MInv, Finish PROVE KeepsTerms
  <1>1. ~ Idle /\ At("finish") /\ Terms /\ Charged /\ Kept
    BY DEF Finish, FinishExactIn, FinishExactOut, FinishAdd, FinishAddSingle, FinishRemove, At,
           Idle, MInv
  <1>2. /\ call.gross \in Amounts /\ call.limit \in Amounts /\ call.used \in Amounts
        /\ call.net \in Amounts /\ call.got \in Amounts
        /\ held \in Amounts /\ call.saved.held \in Amounts
    BY <1>1, CallTypes, NowTypes DEF State
  <1>3. \A c \in Currencies : held[c] >= call.saved.held[c] + Owing(c)
    BY <1>1 DEF Kept
  <1>4. \A c \in Currencies : /\ held[c] \in Nat /\ call.saved.held[c] \in Nat
                              /\ call.gross[c] \in Nat /\ call.limit[c] \in Nat
                              /\ call.used[c] \in Nat /\ call.net[c] \in Nat /\ call.got[c] \in Nat
    BY <1>2 DEF Amounts
  <1>5. \A c \in Currencies : c # call.in => c = Other(call.in)
    BY <1>1, CallTypes, OnlyTypes
  <1>6. CASE FinishExactIn
    <2>1. call.action = "exactIn" /\ AtMost(call.limit, call.got) /\ PayOut(call.got)
      BY <1>6 DEF FinishExactIn
    <2>2. ASSUME NEW c \in Currencies
          PROVE  /\ held[c] - call.got[c] >= call.saved.held[c]
                 /\ c # call.in => call.got[c] >= call.limit[c] + call.gross[c]
      <3>1. Owing(c) = call.got[c]
        BY <1>1, <2>1 DEF Owing, At
      <3>2. c # call.in => call.gross[c] = 0
        BY <1>1, <1>5, <2>1 DEF Terms
      <3> QED
        BY <1>3, <1>4, <2>1, <3>1, <3>2 DEF AtMost
    <2> QED
      BY <1>1, <1>2, <2>1, <2>2, TermsKept
  <1>7. CASE FinishExactOut
    <2> DEFINE amounts == Plus(Minus(call.gross, call.used), call.limit)
    <2>1. /\ call.action = "exactOut" /\ PayOut(amounts) /\ amounts \in Amounts
      BY <1>1, <1>7, PaymentTypes DEF FinishExactOut
    <2>2. ASSUME NEW c \in Currencies
          PROVE  /\ held[c] - amounts[c] >= call.saved.held[c]
                 /\ c # call.in => amounts[c] >= call.limit[c] + call.gross[c]
      <3>1. Owing(c) = call.gross[c] - call.used[c] + call.limit[c]
        BY <1>1, <2>1 DEF Owing, At
      <3>2. c # call.in => call.gross[c] = 0 /\ call.used[c] = 0
        BY <1>1, <1>5, <2>1 DEF Terms, Kept, At
      <3>3. amounts[c] = call.gross[c] - call.used[c] + call.limit[c]
        BY DEF Plus, Minus
      <3> HIDE DEF amounts
      <3> QED
        BY <1>3, <1>4, <3>1, <3>2, <3>3
    <2> HIDE DEF amounts
    <2> QED
      BY <1>1, <2>1, <2>2, TermsKept
  <1>8. CASE FinishAdd
    <2> DEFINE amounts == [c \in Currencies |-> IF call.used[c] < call.net[c]
                                                THEN call.net[c] - call.used[c] ELSE 0]
    <2>1. call.action = "add" /\ PayOut(amounts) /\ amounts \in Amounts
      BY <1>1, <1>8, PaymentTypes DEF FinishAdd
    <2>2. ASSUME NEW c \in Currencies, call.used[c] <= call.net[c]
          PROVE  held[c] - amounts[c] >= call.saved.held[c]
      <3>1. Owing(c) = call.net[c] - call.used[c]
        BY <1>1, <2>1 DEF Owing, At
      <3>2. amounts[c] = call.net[c] - call.used[c]
        BY <1>4, <2>2
      <3> QED
        BY <1>3, <1>4, <3>1, <3>2
    <2> HIDE DEF amounts
    <2> QED
      BY <1>1, <2>1, <2>2, TermsKept
  <1>9. CASE FinishAddSingle
    <2> DEFINE amounts == [c \in Currencies |-> Dust(c)]
    <2>1. call.action = "addSingle" /\ PayOut(amounts) /\ amounts \in Amounts
      BY <1>1, <1>9, PaymentTypes DEF FinishAddSingle
    <2>2. ASSUME NEW c \in Currencies PROVE held[c] - amounts[c] >= call.saved.held[c]
      <3>1. Owing(c) = 0
        BY <1>1, <2>1 DEF Owing, At
      <3> QED
        BY <1>3, <1>4, <3>1 DEF Dust
    <2> HIDE DEF amounts
    <2> QED
      BY <1>1, <2>1, <2>2, TermsKept
  <1>10. CASE FinishRemove
    <2>1. call.action = "remove" /\ AtMost(call.limit, call.got) /\ PayOut(call.got)
      BY <1>10 DEF FinishRemove
    <2>2. ASSUME NEW c \in Currencies
          PROVE  held[c] - call.got[c] >= call.saved.held[c] /\ call.got[c] >= call.limit[c]
      <3>1. Owing(c) = call.got[c]
        BY <1>1, <2>1 DEF Owing, At
      <3> QED
        BY <1>3, <1>4, <2>1, <3>1 DEF AtMost
    <2> QED
      BY <1>1, <1>2, <2>1, <2>2, TermsKept
  <1> QED
    BY <1>6, <1>7, <1>8, <1>9, <1>10 DEF Finish

\* A call ends by a finish or a revert.
LEMMA EndsByFinish ==
    ASSUME IInv, IInv', [Next]_vars, ~ Idle, Idle'
    PROVE  Finish \/ Revert
  <1>1. \A c \in Currencies : Give(c) => ~ Idle'
    BY DEF Give, Idle
  <1>2. \/ (\E c \in Currencies : Give(c)) \/ Pull \/ Swap \/ ModifyAdd \/ ModifyRemove
        \/ Finish \/ Revert \/ UNCHANGED vars
    BY DEF Next, SwapExactTokensForTokens, SwapExactTokensForTokensOut, AddLiquidity,
           AddLiquiditySingleSided, RemoveLiquidity, Enter
  <1>3. Pull => ~ Idle'
    BY CallTypes DEF Pull, Idle, Calls
  <1>4. Swap => ~ Idle'
    <2> SUFFICES ASSUME Swap PROVE call'.phase \in {"add", "finish"}
      BY DEF Idle
    <2>1. PICK paid \in Amounts, taken \in Amounts, asked \in Amounts, offered \in Amounts :
             Exchange(paid, taken, asked, offered)
      BY SwapCases, CallTypes, OnlyTypes
    <2> QED
      BY <2>1, ExchangeFacts
  <1>5. ModifyAdd \/ ModifyRemove => ~ Idle'
    BY CallTypes DEF ModifyAdd, ModifyRemove, Idle, Calls
  <1> QED
    BY <1>1, <1>2, <1>3, <1>4, <1>5 DEF vars, Idle

\* Every call that is not reverted keeps the caller's terms, whatever the pool
\* answers and whatever is sent to the router before or meanwhile.
THEOREM CallsKeepTheirTerms == Spec => CallsKeepTerms
  <1>1. IInv /\ IInv' /\ MInv /\ [Next]_vars => MInv'
    BY NextMoney
  <1>2. Spec => [](IInv /\ MInv)
    BY <1>1, InitIInv, NextInv, PTL DEF Spec
  <1>3. IInv /\ MInv /\ [Next]_vars
           => [~ Idle /\ Idle' => Now' = call.saved \/ KeepsTerms]_vars
    <2> SUFFICES ASSUME IInv, MInv, [Next]_vars, ~ Idle, Idle'
                 PROVE  Now' = call.saved \/ KeepsTerms
      OBVIOUS
    <2> QED
      BY NextInv, EndsByFinish, FinishKeepsTerms, RevertInv
  <1> QED
    BY <1>2, <1>3, PTL DEF Spec, CallsKeepTerms

-----------------------------------------------------------------------------
\* The zap executor: what a zap has pulled, and what it owes (AetherV3ZapExecutor.sol).

\* The fields of a zap on the stack.
Zapping == [phase : {"pull", "swap", "mint", "refund0", "refund1"}, sender : Users,
            in : Currencies, amountIn : Nat, swapIn : Nat, minOut : Nat, amountOut : Nat,
            spent : ZE!Books, got : ZE!Books, rescued : BOOLEAN, saved : ZE!State]

\* What a zap has pulled of a currency, and what it is to give back.
PulledOf(c) == IF c = zap.in THEN zap.amountIn ELSE 0
Due(c)      == PulledOf(c) + zap.got[c] - zap.spent[c]

\* The market takes no more of the input than was pulled.
WithinInput ==
    /\ zap.swapIn < zap.amountIn
    /\ zap.phase \in {"pull", "swap"} => zap.spent = ZE!Zero /\ zap.got = ZE!Zero
    /\ zap.phase = "mint" => zap.spent[zap.in] <= zap.swapIn /\ zap.spent[ZE!Other(zap.in)] = 0
    /\ zap.got[zap.in] = 0 /\ zap.spent[zap.in] <= zap.amountIn
    /\ zap.phase \in {"refund0", "refund1"} => allowance = [s \in ZE!Spenders |-> ZE!Zero]

\* Until a currency is refunded its caller has paid what was pulled and the
\* executor has what is to be given back, beyond what it had before.
Unsettled(c) ==
    LET s == zap.saved IN
      /\ zapPurse[zap.sender][c] = s.purse[zap.sender][c] - (IF zap.phase = "pull" THEN 0 ELSE PulledOf(c))
      /\ ~ zap.rescued => zapHeld[c] >= s.held[c] + (IF zap.phase = "pull" THEN 0 ELSE Due(c))

\* Once it is refunded it keeps the terms.
Settled(c) ==
    LET s == zap.saved IN
      /\ zapPurse[zap.sender][c] >= s.purse[zap.sender][c] - PulledOf(c)
      /\ ~ zap.rescued => zapPurse[zap.sender][c] >= s.purse[zap.sender][c] + zap.got[c] - zap.spent[c]
      /\ ~ zap.rescued /\ zapHeld[c] < s.held[c] => c # zap.in /\ zap.spent[c] > zap.got[c]

ZapInv ==
    /\ ZE!TypeOK
    /\ ~ ZE!Idle =>
         /\ WithinInput
         /\ \A u \in Users \ {zap.sender} : zapPurse[u] = zap.saved.purse[u]
         /\ \A c \in Currencies :
               IF zap.phase = "refund1" /\ c = Currency0 THEN Settled(c) ELSE Unsettled(c)

\* The currencies, the types and a call that runs, as the proofs use them.
LEMMA ZapTypes ==
  ASSUME ZapConstants, ZE!TypeOK
  PROVE  /\ ZE!Currencies = Currencies /\ Currencies = {Currency0, Currency1}
         /\ zapPurse \in [Users -> [Currencies -> Nat]] /\ zapHeld \in [Currencies -> Nat]
         /\ market \in [Currencies -> Nat] /\ zapOutside \in [Currencies -> Nat]
         /\ allowance \in [ZE!Spenders -> [Currencies -> Nat]] /\ zaps \in 0 .. MaxZaps
         /\ ~ ZE!Idle => zap \in Zapping
         /\ ZE!Idle => zap = ZE!NoCall
         /\ ZE!Zero \in [Currencies -> Nat]
  <1>1. ZE!Currencies = Currencies /\ Currencies = {Currency0, Currency1} /\ ZE!Books = [Currencies -> Nat]
    BY DEF ZE!Currencies, Currencies, ZE!Books
  <1>2. /\ zapPurse \in [Users -> ZE!Books] /\ zapHeld \in ZE!Books
        /\ market \in ZE!Books /\ zapOutside \in ZE!Books
        /\ allowance \in [ZE!Spenders -> ZE!Books] /\ zaps \in 0 .. MaxZaps
    BY DEF ZE!TypeOK, ZE!Now, ZE!State
  <1>3. zap \in {ZE!NoCall} \cup Zapping
    BY <1>1 DEF ZE!TypeOK, Zapping
  <1>4. \A z \in Zapping : z.phase # "none"
    BY DEF Zapping
  <1>5. ZE!NoCall.phase = "none"
    BY DEF ZE!NoCall
  <1>6. ZE!Zero \in [Currencies -> Nat]
    BY <1>1 DEF ZE!Zero
  <1> QED
    BY <1>1, <1>2, <1>3, <1>4, <1>5, <1>6 DEF ZE!Idle

\* Records and books put the types together again.
LEMMA ZapTypesBack ==
  ASSUME zapPurse' \in [Users -> [Currencies -> Nat]], zapHeld' \in [Currencies -> Nat],
         market' \in [Currencies -> Nat], zapOutside' \in [Currencies -> Nat],
         allowance' \in [ZE!Spenders -> [Currencies -> Nat]], zaps' \in 0 .. MaxZaps,
         zap' = ZE!NoCall \/ zap' \in Zapping
  PROVE  ZE!TypeOK'
  BY DEF ZE!TypeOK, ZE!Now, ZE!State, ZE!Books, ZE!Currencies, Currencies, Zapping

\* No zap has been called.
LEMMA ZapInit == ASSUME ZapConstants, ZE!Init PROVE ZapInv
  <1> USE DEF ZapConstants, ZE!Init
  <1>1. /\ zapPurse \in [Users -> [Currencies -> Nat]] /\ zapHeld \in [Currencies -> Nat]
        /\ market \in [Currencies -> Nat] /\ zapOutside \in [Currencies -> Nat]
        /\ allowance \in [ZE!Spenders -> [Currencies -> Nat]] /\ zaps \in 0 .. MaxZaps
    BY DEF ZE!Currencies, Currencies, ZE!Zero
  <1>2. ZE!TypeOK
    BY <1>1 DEF ZE!TypeOK, ZE!Now, ZE!State, ZE!Books, ZE!Currencies, Currencies
  <1> QED
    BY <1>2 DEF ZapInv, ZE!Idle, ZE!NoCall

\* Nothing but a step of the zap moves what a step like Give leaves alone.
LEMMA ZapGive ==
  ASSUME ZapConstants, ZapInv, NEW d \in Currencies, ZE!Give(d) PROVE ZapInv'
  <1> USE DEF ZapConstants
  <1>1. /\ zapOutside' = [zapOutside EXCEPT ![d] = @ - 1] /\ zapHeld' = [zapHeld EXCEPT ![d] = @ + 1]
        /\ UNCHANGED <<zapPurse, market, allowance, zap, zaps>> /\ zapOutside[d] > 0
    BY DEF ZE!Give
  <1>2. /\ zapPurse \in [Users -> [Currencies -> Nat]] /\ zapHeld \in [Currencies -> Nat]
        /\ market \in [Currencies -> Nat] /\ zapOutside \in [Currencies -> Nat]
        /\ allowance \in [ZE!Spenders -> [Currencies -> Nat]] /\ zaps \in 0 .. MaxZaps
        /\ (zap = ZE!NoCall \/ zap \in Zapping)
    BY ZapTypes DEF ZapInv
  <1>3. zapHeld' \in [Currencies -> Nat] /\ zapOutside' \in [Currencies -> Nat]
    BY <1>1, <1>2
  <1>4. ZE!TypeOK'
    BY <1>1, <1>2, <1>3, ZapTypesBack
  <1>5. \A c \in Currencies : zapHeld'[c] >= zapHeld[c] /\ zapHeld[c] \in Nat /\ zapHeld'[c] \in Nat
    BY <1>1, <1>2
  <1>6. ASSUME ~ ZE!Idle
        PROVE  /\ WithinInput'
               /\ \A u \in Users \ {zap.sender} : zapPurse'[u] = zap.saved.purse[u]
               /\ \A c \in Currencies :
                     IF zap.phase = "refund1" /\ c = Currency0 THEN Settled(c)' ELSE Unsettled(c)'
    <2>1. zap \in Zapping
      BY <1>6, ZapTypes DEF ZapInv
    <2>2. WithinInput'
      BY <1>1, <1>6 DEF ZapInv, WithinInput, ZE!Zero, ZE!Other, ZE!Spenders
    <2>3. ASSUME NEW c \in Currencies
          PROVE  /\ Settled(c) => Settled(c)'
                 /\ Unsettled(c) => Unsettled(c)'
      <3>1. /\ zap.saved.held[c] \in Nat /\ zap.got[c] \in Nat /\ zap.spent[c] \in Nat /\ zap.amountIn \in Nat
        BY <2>1 DEF Zapping, ZE!State, ZE!Books, ZE!Currencies, Currencies
      <3>2. Due(c)' = Due(c) /\ PulledOf(c)' = PulledOf(c) /\ Due(c) \in Int
        BY <1>1, <3>1 DEF Due, PulledOf
      <3> QED
        BY <1>1, <1>5, <3>1, <3>2 DEF Settled, Unsettled
    <2> QED
      BY <1>1, <1>6, <2>2, <2>3 DEF ZapInv
  <1> QED
    BY <1>1, <1>4, <1>6 DEF ZapInv, ZE!Idle

\* What the owner takes in the middle is not the market's doing.
LEMMA ZapRescue ==
  ASSUME ZapConstants, ZapInv, NEW d \in Currencies, NEW amount \in Nat, ZE!RescueTokens(d, amount)
  PROVE ZapInv'
  <1> USE DEF ZapConstants
  <1>1. /\ zapOutside' = [zapOutside EXCEPT ![d] = @ + amount]
        /\ zapHeld' = [zapHeld EXCEPT ![d] = @ - amount] /\ amount <= zapHeld[d]
        /\ zap' = IF ZE!Idle THEN zap ELSE [zap EXCEPT !.rescued = TRUE]
        /\ UNCHANGED <<zapPurse, market, allowance, zaps>>
    BY DEF ZE!RescueTokens
  <1>2. /\ zapPurse \in [Users -> [Currencies -> Nat]] /\ zapHeld \in [Currencies -> Nat]
        /\ market \in [Currencies -> Nat] /\ zapOutside \in [Currencies -> Nat]
        /\ allowance \in [ZE!Spenders -> [Currencies -> Nat]] /\ zaps \in 0 .. MaxZaps
        /\ (ZE!Idle => zap = ZE!NoCall) /\ (~ ZE!Idle => zap \in Zapping)
    BY ZapTypes DEF ZapInv
  <1>3. zapHeld' \in [Currencies -> Nat] /\ zapOutside' \in [Currencies -> Nat]
    BY <1>1, <1>2
  <1>a. [zap EXCEPT !.rescued = TRUE] \in Zapping \/ ZE!Idle
    BY <1>2 DEF Zapping
  <1>4. ZE!TypeOK'
    BY <1>1, <1>2, <1>3, <1>a, ZapTypesBack
  <1>6. ASSUME ~ ZE!Idle
        PROVE  /\ WithinInput'
               /\ \A u \in Users \ {zap'.sender} : zapPurse'[u] = zap'.saved.purse[u]
               /\ \A c \in Currencies :
                     IF zap'.phase = "refund1" /\ c = Currency0 THEN Settled(c)' ELSE Unsettled(c)'
    <2>1. zap \in Zapping /\ zap' = [zap EXCEPT !.rescued = TRUE]
      BY <1>1, <1>2, <1>6
    <2>2. /\ zap'.phase = zap.phase /\ zap'.sender = zap.sender /\ zap'.saved = zap.saved
          /\ zap'.in = zap.in /\ zap'.amountIn = zap.amountIn /\ zap'.swapIn = zap.swapIn
          /\ zap'.spent = zap.spent /\ zap'.got = zap.got /\ zap'.rescued
      BY <2>1 DEF Zapping
    <2>3. WithinInput'
      BY <1>1, <1>6, <2>2 DEF ZapInv, WithinInput, ZE!Zero, ZE!Other, ZE!Spenders
    <2>4. ASSUME NEW c \in Currencies
          PROVE  /\ Settled(c) => Settled(c)'
                 /\ Unsettled(c) => Unsettled(c)'
      BY <1>1, <2>2 DEF Settled, Unsettled, PulledOf
    <2> QED
      BY <1>1, <1>6, <2>2, <2>3, <2>4 DEF ZapInv
  <1>7. ZE!Idle => ZE!Idle'
    BY <1>1 DEF ZE!Idle
  <1> QED
    BY <1>1, <1>4, <1>6, <1>7 DEF ZapInv

\* A zap begins with nothing pulled, and with the books as they are.
LEMMA ZapBegins ==
  ASSUME ZapConstants, ZapInv, NEW sender \in Users, NEW cin \in Currencies, NEW amountIn \in Nat,
         NEW swapIn \in Nat, NEW minOut \in Nat, ZE!Zap(sender, cin, amountIn, swapIn, minOut)
  PROVE ZapInv'
  <1> USE DEF ZapConstants
  <1>1. /\ zap' = [phase |-> "pull", sender |-> sender, in |-> cin, amountIn |-> amountIn,
                   swapIn |-> swapIn, minOut |-> minOut, amountOut |-> 0,
                   spent |-> ZE!Zero, got |-> ZE!Zero, rescued |-> FALSE, saved |-> ZE!Now]
        /\ UNCHANGED <<zapPurse, zapHeld, market, zapOutside, allowance>>
        /\ zaps' = zaps + 1 /\ zaps < MaxZaps /\ swapIn < amountIn
    BY DEF ZE!Zap
  <1>2. /\ zapPurse \in [Users -> [Currencies -> Nat]] /\ zapHeld \in [Currencies -> Nat]
        /\ market \in [Currencies -> Nat] /\ zapOutside \in [Currencies -> Nat]
        /\ allowance \in [ZE!Spenders -> [Currencies -> Nat]] /\ zaps \in 0 .. MaxZaps
        /\ ZE!Zero \in [Currencies -> Nat] /\ ZE!Currencies = Currencies
    BY ZapTypes DEF ZapInv
  <1>3. ZE!Now \in ZE!State
    BY DEF ZapInv, ZE!TypeOK
  <1>4. zap' \in Zapping
    BY <1>1, <1>2, <1>3 DEF Zapping, ZE!Books
  <1>5. zaps' \in 0 .. MaxZaps
    BY <1>1, <1>2
  <1>6. ZE!TypeOK'
    BY <1>1, <1>2, <1>4, <1>5, ZapTypesBack
  <1>7. zap'.saved.purse = zapPurse /\ zap'.saved.held = zapHeld
    BY <1>1 DEF ZE!Now
  <1>8. /\ zap'.phase = "pull" /\ zap'.in = cin /\ zap'.amountIn = amountIn /\ zap'.swapIn = swapIn
        /\ zap'.spent = ZE!Zero /\ zap'.got = ZE!Zero /\ zap'.sender = sender
    BY <1>1
  <1>9. WithinInput'
    <2>1. ZE!Zero[cin] = 0
      BY <1>2 DEF ZE!Zero
    <2>2. (ZE!Zero)' = ZE!Zero
      BY DEF ZE!Zero
    <2> QED
      BY <1>1, <1>8, <2>1, <2>2 DEF WithinInput
  <1>10. ASSUME NEW c \in Currencies PROVE Unsettled(c)'
    <2>1. zapPurse[sender][c] \in Nat /\ zapHeld[c] \in Nat
      BY <1>2
    <2> QED
      BY <1>1, <1>7, <1>8, <2>1 DEF Unsettled
  <1> QED
    BY <1>1, <1>6, <1>7, <1>8, <1>9, <1>10 DEF ZapInv

\* Exactly amountIn goes from the caller to the executor.
LEMMA ZapPulls == ASSUME ZapConstants, ZapInv, ZE!Pull PROVE ZapInv'
  <1> USE DEF ZapConstants
  <1>1. /\ zap.phase = "pull" /\ zap.amountIn <= zapPurse[zap.sender][zap.in]
        /\ zapHeld[zap.in] = zap.saved.held[zap.in]
        /\ zapPurse' = [zapPurse EXCEPT ![zap.sender][zap.in] = @ - zap.amountIn]
        /\ zapHeld' = [zapHeld EXCEPT ![zap.in] = @ + zap.amountIn]
        /\ zap' = [zap EXCEPT !.phase = "swap"]
        /\ UNCHANGED <<market, zapOutside, allowance, zaps>>
    BY DEF ZE!Pull, ZE!At, ZE!before
  <1>2. /\ zapPurse \in [Users -> [Currencies -> Nat]] /\ zapHeld \in [Currencies -> Nat]
        /\ market \in [Currencies -> Nat] /\ zapOutside \in [Currencies -> Nat]
        /\ allowance \in [ZE!Spenders -> [Currencies -> Nat]] /\ zaps \in 0 .. MaxZaps
        /\ zap \in Zapping /\ ZE!Currencies = Currencies /\ ~ ZE!Idle
    BY <1>1, ZapTypes DEF ZapInv, ZE!Idle
  <1>3. /\ zap.sender \in Users /\ zap.in \in Currencies /\ zap.amountIn \in Nat
        /\ zap.saved.held \in [Currencies -> Nat] /\ zap.saved.purse \in [Users -> [Currencies -> Nat]]
    BY <1>2 DEF Zapping, ZE!State, ZE!Books
  <1>4. /\ zap'.phase = "swap" /\ zap'.sender = zap.sender /\ zap'.saved = zap.saved
        /\ zap'.in = zap.in /\ zap'.amountIn = zap.amountIn /\ zap'.swapIn = zap.swapIn
        /\ zap'.spent = zap.spent /\ zap'.got = zap.got /\ zap'.rescued = zap.rescued /\ zap' \in Zapping
    BY <1>1, <1>2 DEF Zapping
  <1>5. zapHeld' \in [Currencies -> Nat] /\ zapPurse' \in [Users -> [Currencies -> Nat]]
    <2>1. [zapPurse[zap.sender] EXCEPT ![zap.in] = @ - zap.amountIn] \in [Currencies -> Nat]
      BY <1>1, <1>2, <1>3
    <2>2. zapPurse' = [zapPurse EXCEPT ![zap.sender] = [zapPurse[zap.sender] EXCEPT ![zap.in] = @ - zap.amountIn]]
      BY <1>1
    <2> QED
      BY <1>1, <1>2, <1>3, <2>1, <2>2
  <1>6. ZE!TypeOK'
    BY <1>1, <1>2, <1>4, <1>5, ZapTypesBack
  <1>7. \A u \in Users \ {zap.sender} : zapPurse'[u] = zap.saved.purse[u]
    BY <1>1, <1>2, <1>3 DEF ZapInv
  <1>8. zap.spent = ZE!Zero /\ zap.got = ZE!Zero
    BY <1>1, <1>2 DEF ZapInv, WithinInput
  <1>9. WithinInput'
    <2>1. (ZE!Zero)' = ZE!Zero
      BY DEF ZE!Zero
    <2> QED
      BY <1>2, <1>4, <1>8, <2>1 DEF ZapInv, WithinInput
  <1>10. ASSUME NEW c \in Currencies PROVE Unsettled(c)'
    <2>1. Unsettled(c)
      BY <1>1, <1>2 DEF ZapInv
    <2>2. /\ zapPurse'[zap.sender][c] = zapPurse[zap.sender][c] - PulledOf(c)
          /\ zapHeld'[c] = zapHeld[c] + PulledOf(c)
      BY <1>1, <1>2, <1>3 DEF PulledOf
    <2>3. PulledOf(c)' = PulledOf(c) /\ Due(c)' = PulledOf(c) /\ PulledOf(c) \in Nat
      BY <1>2, <1>3, <1>4, <1>8 DEF PulledOf, Due, ZE!Zero
    <2>4. zap.saved.held[c] \in Nat /\ zap.saved.purse[zap.sender][c] \in Nat
          /\ zapPurse[zap.sender][c] \in Nat /\ zapHeld[c] \in Nat
      BY <1>2, <1>3
    <2> QED
      BY <1>1, <1>4, <2>1, <2>2, <2>3, <2>4 DEF Unsettled
  <1> QED
    BY <1>4, <1>6, <1>7, <1>9, <1>10 DEF ZapInv

\* The router takes some of the input, and some of the output arrives.
LEMMA ZapSwaps == ASSUME ZapConstants, ZapInv, ZE!Swap PROVE ZapInv'
  <1> USE DEF ZapConstants
  <1> DEFINE out == ZE!Other(zap.in)
  <1>1. PICK asked \in 0 .. zap.swapIn, reported \in zap.minOut .. ZapFunds :
        \E arrived \in 0 .. reported :
          /\ asked <= zapHeld[zap.in] /\ reported <= market[out]
          /\ allowance' = [allowance EXCEPT !["swapRouter"][zap.in] = zap.swapIn - asked]
          /\ zapHeld' = [zapHeld EXCEPT ![zap.in] = @ - asked, ![out] = @ + arrived]
          /\ market' = [market EXCEPT ![zap.in] = @ + asked, ![out] = @ - reported]
          /\ zapOutside' = [zapOutside EXCEPT ![out] = @ + reported - arrived]
          /\ zap' = [zap EXCEPT !.phase = "mint", !.amountOut = reported,
                                !.spent[zap.in] = asked, !.got[out] = arrived]
    BY DEF ZE!Swap
  <1>2. PICK arrived \in 0 .. reported :
          /\ asked <= zapHeld[zap.in] /\ reported <= market[out]
          /\ allowance' = [allowance EXCEPT !["swapRouter"][zap.in] = zap.swapIn - asked]
          /\ zapHeld' = [zapHeld EXCEPT ![zap.in] = @ - asked, ![out] = @ + arrived]
          /\ market' = [market EXCEPT ![zap.in] = @ + asked, ![out] = @ - reported]
          /\ zapOutside' = [zapOutside EXCEPT ![out] = @ + reported - arrived]
          /\ zap' = [zap EXCEPT !.phase = "mint", !.amountOut = reported,
                                !.spent[zap.in] = asked, !.got[out] = arrived]
    BY <1>1
  <1>3. zap.phase = "swap" /\ UNCHANGED <<zapPurse, zaps>>
    BY DEF ZE!Swap, ZE!At
  <1>4. /\ zapPurse \in [Users -> [Currencies -> Nat]] /\ zapHeld \in [Currencies -> Nat]
        /\ market \in [Currencies -> Nat] /\ zapOutside \in [Currencies -> Nat]
        /\ allowance \in [ZE!Spenders -> [Currencies -> Nat]] /\ zaps \in 0 .. MaxZaps
        /\ zap \in Zapping /\ ZE!Currencies = Currencies /\ ~ ZE!Idle
        /\ Currencies = {Currency0, Currency1}
    BY <1>3, ZapTypes DEF ZapInv, ZE!Idle
  <1>5. /\ zap.sender \in Users /\ zap.in \in Currencies /\ zap.amountIn \in Nat /\ zap.swapIn \in Nat
        /\ zap.minOut \in Nat
        /\ zap.saved.held \in [Currencies -> Nat] /\ zap.saved.purse \in [Users -> [Currencies -> Nat]]
    BY <1>4 DEF Zapping, ZE!State, ZE!Books
  <1>6. out \in Currencies /\ out # zap.in /\ \A c \in Currencies : c = zap.in \/ c = out
    BY <1>4, <1>5 DEF ZE!Other
  <1> HIDE DEF out
  <1>7. asked \in Nat /\ reported \in Nat /\ arrived \in Nat /\ asked <= zap.swapIn /\ arrived <= reported
    BY <1>2, <1>5
  <1>8. zap.spent = ZE!Zero /\ zap.got = ZE!Zero /\ zap.swapIn < zap.amountIn
    BY <1>3, <1>4 DEF ZapInv, WithinInput
  <1>9. /\ zap'.phase = "mint" /\ zap'.sender = zap.sender /\ zap'.saved = zap.saved
        /\ zap'.in = zap.in /\ zap'.amountIn = zap.amountIn /\ zap'.swapIn = zap.swapIn
        /\ zap'.minOut = zap.minOut /\ zap'.amountOut = reported
        /\ zap'.spent = [zap.spent EXCEPT ![zap.in] = asked]
        /\ zap'.got = [zap.got EXCEPT ![out] = arrived] /\ zap'.rescued = zap.rescued
        /\ zap' = [phase |-> "mint", sender |-> zap.sender, in |-> zap.in, amountIn |-> zap.amountIn,
                   swapIn |-> zap.swapIn, minOut |-> zap.minOut, amountOut |-> reported,
                   spent |-> [zap.spent EXCEPT ![zap.in] = asked],
                   got |-> [zap.got EXCEPT ![out] = arrived], rescued |-> zap.rescued, saved |-> zap.saved]
    BY <1>2, <1>4 DEF Zapping
  <1>10. /\ zap'.spent \in ZE!Books /\ zap'.got \in ZE!Books
         /\ zap'.spent[zap.in] = asked /\ zap'.spent[out] = 0
         /\ zap'.got[zap.in] = 0 /\ zap'.got[out] = arrived
    BY <1>4, <1>5, <1>6, <1>7, <1>8, <1>9 DEF ZE!Zero, ZE!Books
  <1>11. zap' \in Zapping
    <2>1. zap.rescued \in BOOLEAN /\ zap.saved \in ZE!State
      BY <1>4 DEF Zapping
    <2> QED
      BY <1>5, <1>7, <1>9, <1>10, <2>1 DEF Zapping
  <1>12. /\ zapHeld'[zap.in] = zapHeld[zap.in] - asked /\ zapHeld'[out] = zapHeld[out] + arrived
         /\ zapHeld' \in [Currencies -> Nat]
    BY <1>2, <1>4, <1>5, <1>6, <1>7
  <1>13. market' \in [Currencies -> Nat]
    BY <1>2, <1>4, <1>5, <1>6, <1>7
  <1>14. zapOutside' \in [Currencies -> Nat]
    BY <1>2, <1>4, <1>6, <1>7
  <1>15. allowance' \in [ZE!Spenders -> [Currencies -> Nat]]
    <2>1. zap.swapIn - asked \in Nat /\ "swapRouter" \in ZE!Spenders
      BY <1>5, <1>7 DEF ZE!Spenders
    <2> QED
      BY <1>2, <1>4, <1>5, <2>1
  <1>16. ZE!TypeOK'
    BY <1>3, <1>4, <1>11, <1>12, <1>13, <1>14, <1>15, ZapTypesBack
  <1>17. WithinInput'
    <2>1. ZE!Other(zap.in) = out
      BY DEF out
    <2>2. ZE!Other(zap'.in) = out
      BY <1>9, <2>1
    <2> QED
      BY <1>5, <1>7, <1>8, <1>9, <1>10, <2>2 DEF WithinInput, ZE!Other
  <1>18. \A u \in Users \ {zap.sender} : zapPurse'[u] = zap.saved.purse[u]
    BY <1>3, <1>4 DEF ZapInv
  <1>19. ASSUME NEW c \in Currencies PROVE Unsettled(c)'
    <2>1. Unsettled(c)
      BY <1>3, <1>4 DEF ZapInv
    <2>2. PulledOf(c)' = PulledOf(c) /\ PulledOf(c) \in Nat /\ Due(c) = PulledOf(c)
      BY <1>4, <1>5, <1>8, <1>9 DEF PulledOf, Due, ZE!Zero
    <2>3. Due(c)' = IF c = zap.in THEN PulledOf(c) - asked ELSE PulledOf(c) + arrived
      BY <1>6, <1>7, <1>9, <1>10, <2>2 DEF Due
    <2>4. zapHeld'[c] = IF c = zap.in THEN zapHeld[c] - asked ELSE zapHeld[c] + arrived
      BY <1>6, <1>12
    <2>5. zap.saved.held[c] \in Nat /\ zapHeld[c] \in Nat
      BY <1>4, <1>5
    <2>6. ~ zap.rescued => zapHeld[c] >= zap.saved.held[c] + PulledOf(c)
      BY <1>3, <2>1, <2>2 DEF Unsettled
    <2>7. ~ zap.rescued => zapHeld'[c] >= zap.saved.held[c] + Due(c)'
      BY <1>7, <2>2, <2>3, <2>4, <2>5, <2>6
    <2> QED
      BY <1>3, <1>9, <2>1, <2>2, <2>7 DEF Unsettled
  <1> QED
    BY <1>9, <1>16, <1>17, <1>18, <1>19 DEF ZapInv

\* The position manager takes no more than what was not swapped, and the output.
LEMMA ZapMints == ASSUME ZapConstants, ZapInv, ZE!Mint PROVE ZapInv'
  <1> USE DEF ZapConstants
  <1>1. PICK used \in ZE!Amounts :
          /\ \A c \in ZE!Currencies : used[c] <= ZE!Desired(c) /\ used[c] <= zapHeld[c]
          /\ zapHeld' = [c \in ZE!Currencies |-> zapHeld[c] - used[c]]
          /\ market' = [c \in ZE!Currencies |-> market[c] + used[c]]
          /\ zap' = [zap EXCEPT !.phase = "refund0",
                                !.spent = [c \in ZE!Currencies |-> zap.spent[c] + used[c]]]
    BY DEF ZE!Mint
  <1>2. /\ zap.phase = "mint" /\ allowance' = [s \in ZE!Spenders |-> ZE!Zero]
        /\ UNCHANGED <<zapPurse, zapOutside, zaps>>
    BY DEF ZE!Mint, ZE!At
  <1>3. /\ zapPurse \in [Users -> [Currencies -> Nat]] /\ zapHeld \in [Currencies -> Nat]
        /\ market \in [Currencies -> Nat] /\ zapOutside \in [Currencies -> Nat]
        /\ zaps \in 0 .. MaxZaps
        /\ zap \in Zapping /\ ZE!Currencies = Currencies /\ ~ ZE!Idle
        /\ ZE!Zero \in [Currencies -> Nat]
    BY <1>2, ZapTypes DEF ZapInv, ZE!Idle
  <1>4. /\ zap.sender \in Users /\ zap.in \in Currencies /\ zap.amountIn \in Nat /\ zap.swapIn \in Nat
        /\ zap.spent \in [Currencies -> Nat] /\ zap.got \in [Currencies -> Nat]
        /\ zap.saved.held \in [Currencies -> Nat] /\ zap.saved.purse \in [Users -> [Currencies -> Nat]]
    BY <1>3 DEF Zapping, ZE!State, ZE!Books
  <1>5. used \in [Currencies -> Nat]
    BY <1>3 DEF ZE!Amounts
  <1>6. /\ zap'.phase = "refund0" /\ zap'.sender = zap.sender /\ zap'.saved = zap.saved
        /\ zap'.in = zap.in /\ zap'.amountIn = zap.amountIn /\ zap'.swapIn = zap.swapIn
        /\ zap'.spent = [c \in Currencies |-> zap.spent[c] + used[c]]
        /\ zap'.got = zap.got /\ zap'.rescued = zap.rescued
    BY <1>1, <1>3 DEF Zapping
  <1>7. zap' \in Zapping
    <2>1. [c \in Currencies |-> zap.spent[c] + used[c]] \in ZE!Books
      BY <1>3, <1>4, <1>5 DEF ZE!Books
    <2> QED
      BY <1>1, <1>3, <2>1 DEF Zapping
  <1>8. zapHeld' \in [Currencies -> Nat] /\ market' \in [Currencies -> Nat]
    BY <1>1, <1>3, <1>5
  <1>9. allowance' \in [ZE!Spenders -> [Currencies -> Nat]]
    BY <1>2, <1>3
  <1>10. ZE!TypeOK'
    BY <1>2, <1>3, <1>7, <1>8, <1>9, ZapTypesBack
  <1>11. WithinInput'
    <2>1. used[zap.in] <= zap.amountIn - zap.swapIn /\ used[zap.in] \in Nat
      BY <1>1, <1>3, <1>4, <1>5 DEF ZE!Desired
    <2>2. zap.spent[zap.in] <= zap.swapIn /\ zap.spent[zap.in] \in Nat /\ zap.swapIn < zap.amountIn
          /\ zap.got[zap.in] = 0
      BY <1>2, <1>3, <1>4 DEF ZapInv, WithinInput
    <2>3. zap'.spent[zap.in] <= zap.amountIn
      BY <1>4, <1>6, <2>1, <2>2
    <2>4. allowance' = [s \in ZE!Spenders |-> ZE!Zero]'
      BY <1>2 DEF ZE!Zero, ZE!Spenders
    <2> QED
      BY <1>6, <2>2, <2>3, <2>4 DEF WithinInput
  <1>12. \A u \in Users \ {zap.sender} : zapPurse'[u] = zap.saved.purse[u]
    BY <1>2, <1>3 DEF ZapInv
  <1>13. ASSUME NEW c \in Currencies PROVE Unsettled(c)'
    <2>1. Unsettled(c)
      BY <1>2, <1>3 DEF ZapInv
    <2>2. PulledOf(c)' = PulledOf(c) /\ PulledOf(c) \in Nat
      BY <1>4, <1>6 DEF PulledOf
    <2>3. Due(c)' = Due(c) - used[c] /\ Due(c) \in Int
      BY <1>4, <1>5, <1>6, <2>2 DEF Due
    <2>4. zapHeld'[c] = zapHeld[c] - used[c] /\ zapHeld[c] \in Nat /\ used[c] \in Nat
          /\ zap.saved.held[c] \in Nat
      BY <1>1, <1>3, <1>4, <1>5
    <2>5. ~ zap.rescued => zapHeld[c] >= zap.saved.held[c] + Due(c)
      BY <1>2, <2>1 DEF Unsettled
    <2>6. ~ zap.rescued => zapHeld'[c] >= zap.saved.held[c] + Due(c)'
      BY <2>3, <2>4, <2>5
    <2> QED
      BY <1>2, <1>6, <2>1, <2>2, <2>6 DEF Unsettled
  <1> QED
    BY <1>6, <1>10, <1>11, <1>12, <1>13 DEF ZapInv

\* A refund settles its currency.
LEMMA ZapRefunds ==
  ASSUME ZapConstants, ZapInv, NEW d \in Currencies, NEW next,
         zap.phase \in {"refund0", "refund1"}, ZE!Refund(d, next),
         zap.phase = "refund1" => d = Currency1
  PROVE  /\ zapHeld' \in [Currencies -> Nat] /\ zapPurse' \in [Users -> [Currencies -> Nat]]
         /\ \A c \in Currencies : c # d => zapHeld'[c] = zapHeld[c] /\ zapPurse'[zap.sender][c] = zapPurse[zap.sender][c]
         /\ \A u \in Users \ {zap.sender} : zapPurse'[u] = zap.saved.purse[u]
         /\ zapPurse'[zap.sender][d] >= zap.saved.purse[zap.sender][d] - PulledOf(d)
         /\ ~ zap.rescued => zapPurse'[zap.sender][d] >= zap.saved.purse[zap.sender][d] + zap.got[d] - zap.spent[d]
         /\ ~ zap.rescued /\ zapHeld'[d] < zap.saved.held[d] => d # zap.in /\ zap.spent[d] > zap.got[d]
  <1> USE DEF ZapConstants
  <1>1. /\ zapPurse' = [zapPurse EXCEPT ![zap.sender][d] = @ + ZE!Left(d)]
        /\ zapHeld' = [zapHeld EXCEPT ![d] = @ - ZE!Left(d)]
    BY DEF ZE!Refund
  <1>2. /\ zapPurse \in [Users -> [Currencies -> Nat]] /\ zapHeld \in [Currencies -> Nat]
        /\ zap \in Zapping /\ ~ ZE!Idle /\ Currency0 # Currency1
    BY ZapTypes DEF ZapInv, ZE!Idle
  <1>3. /\ zap.sender \in Users /\ zap.in \in Currencies /\ zap.amountIn \in Nat
        /\ zap.spent \in [Currencies -> Nat] /\ zap.got \in [Currencies -> Nat]
        /\ zap.saved.held \in [Currencies -> Nat] /\ zap.saved.purse \in [Users -> [Currencies -> Nat]]
    BY <1>2, ZapTypes DEF Zapping, ZE!State, ZE!Books, ZapInv
  <1>4. /\ ZE!Left(d) = IF zapHeld[d] > zap.saved.held[d] THEN zapHeld[d] - zap.saved.held[d] ELSE 0
        /\ ZE!Left(d) \in Nat /\ ZE!Left(d) <= zapHeld[d] /\ zapHeld[d] \in Nat /\ zap.saved.held[d] \in Nat
    BY <1>2, <1>3 DEF ZE!Left, ZE!before
  <1>5. /\ zapHeld' \in [Currencies -> Nat] /\ zapHeld'[d] = zapHeld[d] - ZE!Left(d)
        /\ \A c \in Currencies : c # d => zapHeld'[c] = zapHeld[c]
    BY <1>1, <1>2, <1>4
  <1>6. /\ zapPurse' \in [Users -> [Currencies -> Nat]]
        /\ zapPurse'[zap.sender][d] = zapPurse[zap.sender][d] + ZE!Left(d)
        /\ \A c \in Currencies : c # d => zapPurse'[zap.sender][c] = zapPurse[zap.sender][c]
        /\ \A u \in Users \ {zap.sender} : zapPurse'[u] = zapPurse[u]
    BY <1>1, <1>2, <1>3, <1>4
  <1>7. Unsettled(d) /\ \A u \in Users \ {zap.sender} : zapPurse[u] = zap.saved.purse[u]
    BY <1>2 DEF ZapInv
  <1>8. PulledOf(d) \in Nat /\ (d # zap.in => PulledOf(d) = 0)
    BY <1>3 DEF PulledOf
  <1>9. /\ zap.got[d] \in Nat /\ zap.spent[d] \in Nat /\ zap.saved.purse[zap.sender][d] \in Nat
        /\ Due(d) = PulledOf(d) + zap.got[d] - zap.spent[d]
    BY <1>3 DEF Due
  <1>10. /\ zapPurse[zap.sender][d] = zap.saved.purse[zap.sender][d] - PulledOf(d)
         /\ ~ zap.rescued => zapHeld[d] >= zap.saved.held[d] + Due(d)
    BY <1>7 DEF Unsettled
  <1>11. zapPurse'[zap.sender][d] >= zap.saved.purse[zap.sender][d] - PulledOf(d)
    BY <1>4, <1>6, <1>8, <1>9, <1>10
  <1>12. ~ zap.rescued => ZE!Left(d) >= Due(d)
    BY <1>4, <1>8, <1>9, <1>10
  <1>13. ~ zap.rescued => zapPurse'[zap.sender][d] >= zap.saved.purse[zap.sender][d] + zap.got[d] - zap.spent[d]
    BY <1>4, <1>6, <1>8, <1>9, <1>10, <1>12
  <1>14. ~ zap.rescued /\ zapHeld'[d] < zap.saved.held[d] => d # zap.in /\ zap.spent[d] > zap.got[d]
    <2> SUFFICES ASSUME ~ zap.rescued, zapHeld'[d] < zap.saved.held[d]
                 PROVE  d # zap.in /\ zap.spent[d] > zap.got[d]
      OBVIOUS
    <2>1. zapHeld[d] < zap.saved.held[d]
      BY <1>4, <1>5
    <2>2. Due(d) < 0
      BY <1>4, <1>8, <1>9, <1>10, <2>1
    <2>3. d = zap.in => zap.spent[d] <= PulledOf(d)
      BY <1>2 DEF ZapInv, WithinInput, PulledOf
    <2> QED
      BY <1>8, <1>9, <2>2, <2>3
  <1> QED
    BY <1>5, <1>6, <1>7, <1>11, <1>13, <1>14

\* The first refund leaves the second to be done.
LEMMA ZapRefunds0 ==
  ASSUME ZapConstants, ZapInv, zap.phase = "refund0",
         ZE!Refund(Currency0, [zap EXCEPT !.phase = "refund1"])
  PROVE  ZapInv'
  <1> USE DEF ZapConstants
  <1>1. zap' = [zap EXCEPT !.phase = "refund1"] /\ UNCHANGED <<market, zapOutside, allowance, zaps>>
    BY DEF ZE!Refund
  <1>2. /\ market \in [Currencies -> Nat] /\ zapOutside \in [Currencies -> Nat]
        /\ allowance \in [ZE!Spenders -> [Currencies -> Nat]] /\ zaps \in 0 .. MaxZaps
        /\ zap \in Zapping /\ ~ ZE!Idle /\ Currencies = {Currency0, Currency1}
    BY ZapTypes DEF ZapInv, ZE!Idle
  <1>3. /\ zap'.phase = "refund1" /\ zap'.sender = zap.sender /\ zap'.saved = zap.saved
        /\ zap'.in = zap.in /\ zap'.amountIn = zap.amountIn /\ zap'.swapIn = zap.swapIn
        /\ zap'.spent = zap.spent /\ zap'.got = zap.got /\ zap'.rescued = zap.rescued /\ zap' \in Zapping
    BY <1>1, <1>2 DEF Zapping
  <1>4. /\ zapHeld' \in [Currencies -> Nat] /\ zapPurse' \in [Users -> [Currencies -> Nat]]
        /\ \A c \in Currencies : c # Currency0 => zapHeld'[c] = zapHeld[c] /\ zapPurse'[zap.sender][c] = zapPurse[zap.sender][c]
        /\ \A u \in Users \ {zap.sender} : zapPurse'[u] = zap.saved.purse[u]
        /\ zapPurse'[zap.sender][Currency0] >= zap.saved.purse[zap.sender][Currency0] - PulledOf(Currency0)
        /\ ~ zap.rescued => zapPurse'[zap.sender][Currency0] >= zap.saved.purse[zap.sender][Currency0] + zap.got[Currency0] - zap.spent[Currency0]
        /\ ~ zap.rescued /\ zapHeld'[Currency0] < zap.saved.held[Currency0] => Currency0 # zap.in /\ zap.spent[Currency0] > zap.got[Currency0]
    <2>1. /\ Currency0 \in Currencies /\ zap.phase \in {"refund0", "refund1"}
          /\ (zap.phase = "refund1" => Currency0 = Currency1)
      BY <1>2
    <2> QED
      BY <2>1, ZapRefunds
  <1>5. ZE!TypeOK'
    BY <1>1, <1>2, <1>3, <1>4, ZapTypesBack
  <1>6. WithinInput'
    BY <1>1, <1>2, <1>3 DEF ZapInv, WithinInput, ZE!Zero, ZE!Spenders
  <1>7. Settled(Currency0)'
    BY <1>3, <1>4 DEF Settled, PulledOf
  <1>8. Unsettled(Currency1)'
    <2>1. Unsettled(Currency1)
      BY <1>2 DEF ZapInv
    <2>2. Due(Currency1)' = Due(Currency1) /\ PulledOf(Currency1)' = PulledOf(Currency1)
      BY <1>3 DEF Due, PulledOf
    <2> QED
      BY <1>2, <1>3, <1>4, <2>1, <2>2 DEF Unsettled
  <1> QED
    BY <1>2, <1>3, <1>4, <1>5, <1>6, <1>7, <1>8 DEF ZapInv

\* The second refund ends the zap, on its terms.
LEMMA ZapRefunds1 ==
  ASSUME ZapConstants, ZapInv, zap.phase = "refund1", ZE!Refund(Currency1, ZE!NoCall)
  PROVE  /\ ZapInv'
         /\ \A u \in Users \ {zap.sender} : zapPurse'[u] = zap.saved.purse[u]
         /\ allowance' = [t \in ZE!Spenders |-> ZE!Zero]
         /\ \A c \in Currencies :
               /\ zapPurse'[zap.sender][c] >= zap.saved.purse[zap.sender][c] - PulledOf(c)
               /\ ~ zap.rescued => zapPurse'[zap.sender][c] >= zap.saved.purse[zap.sender][c] + zap.got[c] - zap.spent[c]
               /\ ~ zap.rescued /\ zapHeld'[c] < zap.saved.held[c] => c # zap.in /\ zap.spent[c] > zap.got[c]
  <1> USE DEF ZapConstants
  <1>1. zap' = ZE!NoCall /\ UNCHANGED <<market, zapOutside, allowance, zaps>>
    BY DEF ZE!Refund
  <1>2. /\ market \in [Currencies -> Nat] /\ zapOutside \in [Currencies -> Nat]
        /\ allowance \in [ZE!Spenders -> [Currencies -> Nat]] /\ zaps \in 0 .. MaxZaps
        /\ zap \in Zapping /\ ~ ZE!Idle /\ Currencies = {Currency0, Currency1}
    BY ZapTypes DEF ZapInv, ZE!Idle
  <1>3. /\ zapHeld' \in [Currencies -> Nat] /\ zapPurse' \in [Users -> [Currencies -> Nat]]
        /\ \A c \in Currencies : c # Currency1 => zapHeld'[c] = zapHeld[c] /\ zapPurse'[zap.sender][c] = zapPurse[zap.sender][c]
        /\ \A u \in Users \ {zap.sender} : zapPurse'[u] = zap.saved.purse[u]
        /\ zapPurse'[zap.sender][Currency1] >= zap.saved.purse[zap.sender][Currency1] - PulledOf(Currency1)
        /\ ~ zap.rescued => zapPurse'[zap.sender][Currency1] >= zap.saved.purse[zap.sender][Currency1] + zap.got[Currency1] - zap.spent[Currency1]
        /\ ~ zap.rescued /\ zapHeld'[Currency1] < zap.saved.held[Currency1] => Currency1 # zap.in /\ zap.spent[Currency1] > zap.got[Currency1]
    <2>1. /\ Currency1 \in Currencies /\ zap.phase \in {"refund0", "refund1"}
          /\ (zap.phase = "refund1" => Currency1 = Currency1)
      BY <1>2
    <2> QED
      BY <2>1, ZapRefunds
  <1>4. ZE!TypeOK'
    BY <1>1, <1>2, <1>3, ZapTypesBack
  <1>5. Settled(Currency0)
    BY <1>2 DEF ZapInv
  <1>6. allowance' = [t \in ZE!Spenders |-> ZE!Zero]
    BY <1>1, <1>2 DEF ZapInv, WithinInput
  <1>7. ZE!Idle'
    BY <1>1 DEF ZE!Idle, ZE!NoCall
  <1> QED
    BY <1>2, <1>3, <1>4, <1>5, <1>6, <1>7 DEF ZapInv, Settled

\* A revert brings back the books of the moment the zap began.
LEMMA ZapReverts == ASSUME ZapConstants, ZapInv, ZE!Revert PROVE ZapInv' /\ (ZE!Now)' = zap.saved
  <1> USE DEF ZapConstants
  <1>1. /\ zap' = ZE!NoCall /\ zaps' = zaps /\ ~ ZE!Idle
        /\ zapPurse' = zap.saved.purse /\ zapHeld' = zap.saved.held /\ market' = zap.saved.market
        /\ zapOutside' = zap.saved.outside /\ allowance' = zap.saved.allowance
    BY DEF ZE!Revert
  <1>2. zap \in Zapping /\ zaps \in 0 .. MaxZaps
    BY <1>1, ZapTypes DEF ZapInv
  <1>3. zap.saved \in ZE!State
    BY <1>2 DEF Zapping
  <1>4. (ZE!Now)' = zap.saved
    BY <1>1, <1>3 DEF ZE!Now, ZE!State
  <1>5. ZE!TypeOK'
    BY <1>1, <1>2, <1>3, <1>4 DEF ZE!TypeOK
  <1>6. ZE!Idle'
    BY <1>1 DEF ZE!Idle, ZE!NoCall
  <1> QED
    BY <1>4, <1>5, <1>6 DEF ZapInv

\* Every step keeps the money of a zap in order.
LEMMA ZapNext == ASSUME ZapConstants, ZapInv, [ZE!Next]_(ZE!vars) PROVE ZapInv'
  <1>1. ZE!Currencies = Currencies
    BY DEF ZE!Currencies, Currencies
  <1>2. CASE UNCHANGED ZE!vars
    BY <1>2 DEF ZE!vars, ZapInv, ZE!TypeOK, ZE!Now, ZE!Idle, WithinInput, Unsettled, Settled, Due,
                PulledOf, ZE!Zero, ZE!Other
  <1>3. ASSUME NEW c \in Currencies, ZE!Give(c) \/ \E amount \in 1 .. zapHeld[c] : ZE!RescueTokens(c, amount)
        PROVE  ZapInv'
    BY <1>3, ZapGive, ZapRescue
  <1>4. ASSUME NEW sender \in Users, NEW cin \in Currencies, NEW amountIn \in 1 .. ZapFunds,
               NEW minOut \in 1 .. ZapFunds, NEW swapIn \in 1 .. amountIn - 1,
               ZE!Zap(sender, cin, amountIn, swapIn, minOut)
        PROVE  ZapInv'
    <2>1. amountIn \in Nat /\ minOut \in Nat /\ swapIn \in Nat
      BY DEF ZapConstants
    <2> QED
      BY <1>4, <2>1, ZapBegins
  <1>5. CASE ZE!RefundDelta
    BY <1>5, ZapRefunds0, ZapRefunds1 DEF ZE!RefundDelta, ZE!At
  <1> QED
    BY <1>1, <1>2, <1>3, <1>4, <1>5, ZapPulls, ZapSwaps, ZapMints, ZapReverts DEF ZE!Next

\* A zap that ends and was not reverted ends on its terms.
LEMMA ZapEnds ==
  ASSUME ZapConstants, ZapInv, ZE!Next, ~ ZE!Idle, ZE!Idle', (ZE!Now)' # zap.saved
  PROVE  /\ \A u \in Users \ {zap.sender} : zapPurse'[u] = zap.saved.purse[u]
         /\ allowance' = [t \in ZE!Spenders |-> ZE!Zero]
         /\ \A c \in Currencies :
               /\ zapPurse'[zap.sender][c] >= zap.saved.purse[zap.sender][c] - PulledOf(c)
               /\ ~ zap.rescued => zapPurse'[zap.sender][c] >= zap.saved.purse[zap.sender][c] + zap.got[c] - zap.spent[c]
               /\ ~ zap.rescued /\ zapHeld'[c] < zap.saved.held[c] => c # zap.in /\ zap.spent[c] > zap.got[c]
  <1>1. zap \in Zapping /\ zap'.phase = "none" /\ zap.phase # "none"
    BY ZapTypes DEF ZapInv, ZE!Idle
  <1>2. ~ ZE!Revert
    BY ZapReverts
  <1>3. \A c \in ZE!Currencies : ~ ZE!Give(c) /\ \A amount \in 1 .. zapHeld[c] : ~ ZE!RescueTokens(c, amount)
    BY <1>1 DEF ZE!Give, ZE!RescueTokens, ZE!Idle, Zapping
  <1>4. \A sender, cin, amountIn, swapIn, minOut : ~ ZE!Zap(sender, cin, amountIn, swapIn, minOut)
    BY DEF ZE!Zap
  <1>5. ~ ZE!Pull
    BY <1>1 DEF ZE!Pull, Zapping
  <1>6. ~ ZE!Swap
    BY <1>1 DEF ZE!Swap, Zapping
  <1>7. ~ ZE!Mint
    BY <1>1 DEF ZE!Mint, Zapping
  <1>8. ~ (ZE!At("refund0") /\ ZE!Refund(Currency0, [zap EXCEPT !.phase = "refund1"]))
    BY <1>1 DEF ZE!Refund, Zapping
  <1>9. zap.phase = "refund1" /\ ZE!Refund(Currency1, ZE!NoCall)
    BY <1>2, <1>3, <1>4, <1>5, <1>6, <1>7, <1>8 DEF ZE!Next, ZE!RefundDelta, ZE!At
  <1> QED
    BY <1>9, ZapRefunds1

\* What the market did not take comes back (AetherV3ZapExecutor.sol, zap): for
\* every number of users and every amount a zap that is not reverted keeps its
\* caller's terms, and so does every call of the router.
THEOREM TradersKeepTerms == ASSUME ZapConstants PROVE Spec /\ ZE!Spec => CallersTermsKept
  <1>1. ZE!Init => ZapInv
    BY ZapInit
  <1>2. ZapInv /\ [ZE!Next]_(ZE!vars) => ZapInv'
    BY ZapNext
  <1>3. ZapInv => ZE!TypeOK
    BY DEF ZapInv
  <1>4. ZapInv /\ [ZE!Next]_(ZE!vars)
          => [~ ZE!Idle /\ (ZE!Idle)' /\ (ZE!Now)' # zap.saved =>
                LET s == zap.saved
                    gain(c) == zapPurse'[zap.sender][c] - s.purse[zap.sender][c]
                IN  /\ \A u \in Users \ {zap.sender} : zapPurse'[u] = s.purse[u]
                    /\ allowance' = [t \in ZE!Spenders |-> ZE!Zero]
                    /\ \A c \in ZE!Currencies :
                          /\ gain(c) >= (IF c = zap.in THEN 0 - zap.amountIn ELSE 0)
                          /\ ~ zap.rescued => gain(c) >= zap.got[c] - zap.spent[c]
                          /\ ~ zap.rescued /\ zapHeld'[c] < s.held[c] =>
                                c # zap.in /\ zap.spent[c] > zap.got[c]]_(ZE!vars)
    <2> SUFFICES ASSUME ZapInv, ZE!Next, ~ ZE!Idle, ZE!Idle', (ZE!Now)' # zap.saved
                 PROVE  /\ \A u \in Users \ {zap.sender} : zapPurse'[u] = zap.saved.purse[u]
                        /\ allowance' = [t \in ZE!Spenders |-> ZE!Zero]
                        /\ \A c \in ZE!Currencies :
                              /\ zapPurse'[zap.sender][c] - zap.saved.purse[zap.sender][c]
                                    >= (IF c = zap.in THEN 0 - zap.amountIn ELSE 0)
                              /\ ~ zap.rescued => zapPurse'[zap.sender][c] - zap.saved.purse[zap.sender][c]
                                                    >= zap.got[c] - zap.spent[c]
                              /\ ~ zap.rescued /\ zapHeld'[c] < zap.saved.held[c] =>
                                    c # zap.in /\ zap.spent[c] > zap.got[c]
      OBVIOUS
    <2>1. ZapInv'
      BY ZapNext
    <2>2. /\ zap \in Zapping /\ ZE!Currencies = Currencies
      BY ZapTypes DEF ZapInv
    <2>3. zapPurse' \in [Users -> ZE!Books]
      BY <2>1 DEF ZapInv, ZE!TypeOK, ZE!Now, ZE!State
    <2>4. /\ zap.sender \in Users /\ zap.amountIn \in Nat
          /\ zap.spent \in ZE!Books /\ zap.got \in ZE!Books /\ zap.saved.purse \in [Users -> ZE!Books]
      BY <2>2 DEF Zapping, ZE!State
    <2>5. ASSUME NEW c \in ZE!Currencies
          PROVE  /\ zapPurse'[zap.sender][c] \in Nat /\ zap.saved.purse[zap.sender][c] \in Nat
                 /\ zap.spent[c] \in Nat /\ zap.got[c] \in Nat
                 /\ PulledOf(c) = (IF c = zap.in THEN zap.amountIn ELSE 0) /\ PulledOf(c) \in Nat
      BY <2>3, <2>4 DEF ZE!Books, PulledOf
    <2>6. /\ \A u \in Users \ {zap.sender} : zapPurse'[u] = zap.saved.purse[u]
          /\ allowance' = [t \in ZE!Spenders |-> ZE!Zero]
          /\ \A c \in Currencies :
               /\ zapPurse'[zap.sender][c] >= zap.saved.purse[zap.sender][c] - PulledOf(c)
               /\ ~ zap.rescued => zapPurse'[zap.sender][c] >= zap.saved.purse[zap.sender][c] + zap.got[c] - zap.spent[c]
               /\ ~ zap.rescued /\ zapHeld'[c] < zap.saved.held[c] => c # zap.in /\ zap.spent[c] > zap.got[c]
      BY ZapEnds
    <2> QED
      BY <2>2, <2>5, <2>6
  <1> QED
    BY <1>1, <1>2, <1>3, <1>4, CallsKeepTheirTerms, PTL
    DEF ZE!Spec, CallersTermsKept, ZE!ZapKeepsTerms
=============================================================================
