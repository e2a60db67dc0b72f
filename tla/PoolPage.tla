------------------------------- MODULE PoolPage -------------------------------
(***************************************************************************)
(* The page of one pool (apps/web/src/routes/pools.$poolId.tsx) and its    *)
(* form for a deposit from one side (lib/liquidity.ts and                  *)
(* lib/v4-liquidity.ts), with the wallet and the chain.                    *)
(*                                                                         *)
(* PoolDetailPage: an effect loads the pool of the route and then its two  *)
(* tokens, and a navigation cancels it without stopping it.                *)
(*                                                                         *)
(* LiquidityForm: the submit handler runs over many awaits: the quotes of  *)
(* a binary search, the allowance, an approval and its receipt, the        *)
(* deposit.  Meanwhile the form can be edited, and a navigation replaces   *)
(* it by a new one without stopping the handler.  Deposits are from one    *)
(* token, the range takes as much of either token, and a unit of input     *)
(* buys, at any moment, one of Rates.                                      *)
(*                                                                         *)
(* The form does nothing to the page.  All it notices of the page is that  *)
(* it is mounted anew, with the right tokens or not (Remount, at any time),*)
(* so that either can be run without the other.                            *)
(***************************************************************************)
EXTENDS Integers, Sequences, FiniteSets

CONSTANTS
    Pools,
    Loads,      \* bound: runs of the effect at once, cancelled ones included
    Runs,       \* bound: runs of submit at once
    MaxTx,      \* bound: deposits the user sends
    Amounts,    \* what is typed into the amount field; 0 is what validation refuses
    MaxQuotes,  \* quotes of one search: 12
    Slip,       \* max slippage, in tenths
    Rates

VARIABLES
    poolId,     \* the route
    pool,       \* the pool on the page
    tokens,     \* for each side, the pool its token was loaded for
    loading,
    loads,      \* loads[i]: a run of the effect
    failed,     \* history: the pools that could not be had since the page was opened
    form,       \* the state of the mounted form, and whether its tokens are the pool's
    runs,       \* runs[r]: a run of submit with what it has captured
    allowance,  \* what the router may take of the token
    deposits    \* the deposits sent

pageVars == <<poolId, pool, tokens, loading, loads, failed>>
formVars == <<form, runs, allowance, deposits>>
vars == <<pageVars, formVars>>

None   == [kind |-> "none"]
NoPool == "no pool"
Sides  == {"token0", "token1"}

TypeOK ==
    /\ poolId \in Pools /\ pool \in Pools \cup {NoPool}
    /\ tokens \in [Sides -> Pools \cup {NoPool}]
    /\ loading \in BOOLEAN
    /\ loads \in [Loads -> {None} \cup [kind : {"pool", "tokens"}, of : Pools, cancelled : BOOLEAN]]
    /\ failed \subseteq Pools

Started(p) == [kind |-> "pool", of |-> p, cancelled |-> FALSE]

PageInit ==
    /\ poolId \in Pools
    /\ pool = NoPool /\ tokens = [s \in Sides |-> NoPool]
    /\ loading = TRUE
    /\ \E i \in Loads : loads = [j \in Loads |-> IF j = i THEN Started(poolId) ELSE None]
    /\ failed = {}

\* Mutant of Cancel: the cleanup forgets the flag.
CancelNothing == loads
Cancel == [i \in Loads |-> IF loads[i] = None THEN None ELSE [loads[i] EXCEPT !.cancelled = TRUE]]

Navigate(p) ==
    /\ p # poolId
    /\ poolId' = p /\ loading' = TRUE /\ failed' = failed \ {p}
    /\ \E i \in Loads : loads[i] = None /\ loads' = [Cancel EXCEPT ![i] = Started(p)]
    /\ UNCHANGED <<pool, tokens>>

\* A run that was cancelled sets nothing any more.
Cancelled(i) ==
    /\ loads[i] # None /\ loads[i].cancelled
    /\ loads' = [loads EXCEPT ![i] = None]
    /\ UNCHANGED <<poolId, pool, tokens, loading, failed>>

\* GET /pools/:poolId.  A pool that cannot be had leaves the page with the one
\* it has.
LoadPool(i) ==
    /\ loads[i].kind = "pool" /\ ~ loads[i].cancelled
    /\ \/ /\ pool' = loads[i].of
          /\ loads' = [loads EXCEPT ![i].kind = "tokens"]
          /\ UNCHANGED <<loading, failed>>
       \/ /\ loading' = FALSE /\ failed' = failed \cup {loads[i].of}
          /\ loads' = [loads EXCEPT ![i] = None]
          /\ UNCHANGED pool
    /\ UNCHANGED <<poolId, tokens>>

\* Both tokens; one that cannot be had leaves the page with the one it has.
LoadTokens(i) ==
    /\ loads[i].kind = "tokens" /\ ~ loads[i].cancelled
    /\ \E found \in SUBSET Sides :
          tokens' = [s \in Sides |-> IF s \in found THEN loads[i].of ELSE tokens[s]]
    /\ loading' = FALSE
    /\ loads' = [loads EXCEPT ![i] = None]
    /\ UNCHANGED <<poolId, pool, failed>>

PageNext ==
    \/ \E p \in Pools : Navigate(p)
    \/ \E i \in Loads : Cancelled(i) \/ LoadPool(i) \/ LoadTokens(i)

-----------------------------------------------------------------------------
Values == [protocol : {"v3", "v4"}, amount : Amounts]

\* The state of a form that is mounted; tokens is FALSE if a token of the pool
\* could not be loaded, or is still the one of another pool.
Fresh(complete) == [values |-> [protocol |-> "v4", amount |-> 0], tokens |-> complete,
                  request |-> "null", preparing |-> FALSE, error |-> FALSE]

FormInit ==
    /\ form = Fresh(TRUE)
    /\ runs = [r \in Runs |-> None]
    /\ allowance = 0
    /\ deposits = <<>>

-----------------------------------------------------------------------------
\* A navigation: a handler that runs on sets the state of a form that is gone.
Remount ==
    /\ form' \in {Fresh(TRUE), Fresh(FALSE)}
    /\ runs' = [r \in Runs |-> IF runs[r] = None THEN None ELSE [runs[r] EXCEPT !.mounted = FALSE]]
    /\ UNCHANGED <<allowance, deposits>>

\* The inputs of the form.  The answer to the last request goes, what is being
\* prepared does not.
updateValue(values) ==
    /\ values # form.values
    /\ form' = [form EXCEPT !.values = values, !.request = "null", !.error = FALSE]
    /\ UNCHANGED <<runs, allowance, deposits>>

\* validateLiquidityForm; buildLiquidityRequest asks it again.
valid(values) == values.amount > 0

\* Mutant of SubmitButton: it does not look at preparing.
SubmitButtonTwice == valid(form.values) /\ form.request = "null"
SubmitButton == valid(form.values) /\ form.request = "null" /\ ~ form.preparing

\* submit up to its first quote.  v3 ends here, and so do tokens that are not
\* the pool's and an amount too small to split.
submit(r) ==
    LET values == form.values IN
    /\ SubmitButton /\ runs[r] = None
    /\ CASE values.protocol = "v3" ->
               form' = [form EXCEPT !.request = "gated", !.error = FALSE] /\ UNCHANGED runs
         [] values.protocol = "v4" /\ (~ form.tokens \/ values.amount < 3) ->
               form' = [form EXCEPT !.error = TRUE] /\ UNCHANGED runs
         [] OTHER ->
               /\ form' = [form EXCEPT !.preparing = TRUE, !.error = FALSE]
               /\ runs' = [runs EXCEPT ![r] =
                    [kind |-> "quote", mounted |-> TRUE, amountIn |-> values.amount,
                     low |-> 1, high |-> values.amount - 1, left |-> MaxQuotes, best |-> None]]
    /\ UNCHANGED <<allowance, deposits>>

\* A run ends: with its transaction or, whatever await threw, with an error.
End(r, submitted) ==
    /\ runs' = [runs EXCEPT ![r] = None]
    /\ form' = IF ~ runs[r].mounted THEN form
               ELSE IF submitted THEN [form EXCEPT !.preparing = FALSE, !.request = "submitted"]
               ELSE [form EXCEPT !.preparing = FALSE, !.error = TRUE]

submitThrows(r) ==
    /\ runs[r] # None
    /\ End(r, FALSE)
    /\ UNCHANGED <<allowance, deposits>>

\* What findV4SwapAmount makes of a quote: how much of the input that is kept
\* finds no counterpart in the output.
Candidate(run, swapAmountIn, out) ==
    LET remaining == run.amountIn - swapAmountIn IN
    [swapAmountIn |-> swapAmountIn, amountOut |-> out,
     minAmountOut |-> out - (out * Slip) \div 10,
     error |-> IF remaining < out THEN 0 ELSE remaining - out]

Better(new, best) == IF best = None THEN TRUE ELSE new.error < best.error

findV4SwapAmount(r) ==
    LET run == runs[r]
        mid == (run.low + run.high) \div 2
    IN  /\ run.kind = "quote" /\ run.left > 0 /\ run.low <= run.high
        /\ \E rate \in Rates :
              LET new == Candidate(run, mid, mid * rate) IN
              runs' = [runs EXCEPT ![r] =
                 [run EXCEPT !.left = @ - 1,
                    !.low  = IF new.error > 0 THEN mid + 1 ELSE @,
                    !.high = IF new.error > 0 THEN @ ELSE mid - 1,
                    !.best = IF Better(new, @) THEN new ELSE @]]
        /\ UNCHANGED <<form, allowance, deposits>>

\* buildV4SingleSidedCall on the best candidate; then the allowance is read.
buildV4SingleSidedCall(r) ==
    LET run == runs[r] IN
    /\ run.kind = "quote" /\ (run.left = 0 \/ run.low > run.high)
    /\ run.best.minAmountOut > 0
    /\ runs' = [runs EXCEPT ![r].kind = IF allowance < run.amountIn THEN "approve" ELSE "send"]
    /\ UNCHANGED <<form, allowance, deposits>>

\* Mutant of Approve: the allowance is raised by the amount.
ApproveMore(r) ==
    /\ runs[r].kind = "approve"
    /\ runs' = [runs EXCEPT ![r].kind = "send"]
    /\ allowance' \in {allowance, allowance + runs[r].amountIn}
    /\ UNCHANGED <<form, deposits>>

\* The approval and its receipt; whether it was reverted is not asked.
Approve(r) ==
    /\ runs[r].kind = "approve"
    /\ runs' = [runs EXCEPT ![r].kind = "send"]
    /\ allowance' \in {allowance, runs[r].amountIn}
    /\ UNCHANGED <<form, deposits>>

Deposit(r) ==
    LET run == runs[r] IN
    /\ run.kind = "send" /\ Len(deposits) < MaxTx
    /\ deposits' = Append(deposits, [status |-> "pending", amountIn |-> run.amountIn,
                                     quote |-> run.best, out |-> 0])
    /\ End(r, TRUE)
    /\ UNCHANGED allowance

\* The router takes the input, swaps a part of it and deposits both, or reverts.
Mine(t) ==
    LET deposit == deposits[t] IN
    /\ deposit.status = "pending"
    /\ \/ \E rate \in Rates :
             LET out == deposit.quote.swapAmountIn * rate IN
             /\ deposit.amountIn <= allowance /\ out >= deposit.quote.minAmountOut
             /\ deposits' = [deposits EXCEPT ![t].status = "ok", ![t].out = out]
             /\ allowance' = allowance - deposit.amountIn
       \/ deposits' = [deposits EXCEPT ![t].status = "reverted"] /\ UNCHANGED allowance
    /\ UNCHANGED <<form, runs>>

FormNext ==
    \/ Remount
    \/ \E values \in Values : updateValue(values)
    \/ \E r \in Runs : \/ submit(r) \/ submitThrows(r)
                       \/ findV4SwapAmount(r) \/ buildV4SingleSidedCall(r)
                       \/ Approve(r) \/ Deposit(r)
    \/ \E t \in DOMAIN deposits : Mine(t)

-----------------------------------------------------------------------------
Init == PageInit /\ FormInit
Next ==
    \/ PageNext /\ UNCHANGED formVars
    \/ FormNext /\ UNCHANGED pageVars

Spec == Init /\ [][Next]_vars

-----------------------------------------------------------------------------
\* Once the page has settled it shows the pool of the route, unless that could
\* not be had: an answer for a pool that was left changes nothing, in whatever
\* order answers come.  As long as it has shown no pool at all it has no token
\* either.
ShowsRoute ==
    /\ ~ loading => pool = poolId \/ poolId \in failed
    /\ pool = NoPool => \A s \in Sides : tokens[s] = NoPool

\* One form prepares one deposit at a time, and the router may never take more
\* than one deposit asked for, whatever runs of forms that are gone still do.
\* A deposit that goes through swapped a true part of the input, no worse than
\* the slippage below what the search was quoted for that part, wherever the
\* price went meanwhile.
DepositAsPressed ==
    /\ Cardinality({r \in Runs : runs[r] # None /\ runs[r].mounted}) <= 1
    /\ \E amount \in Amounts : allowance <= amount
    /\ \A t \in DOMAIN deposits :
          deposits[t].status = "ok" =>
             /\ deposits[t].quote.swapAmountIn \in 1 .. deposits[t].amountIn - 1
             /\ 10 * deposits[t].out >= (10 - Slip) * deposits[t].quote.amountOut
=============================================================================
