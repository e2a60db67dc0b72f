------------------------------- MODULE SwapPage -------------------------------
(***************************************************************************)
(* The swap page (apps/web/src/routes/swap.tsx) with the API it asks       *)
(* (apps/api/src/routes/swap.ts, services/swap.service.ts), the wallet and *)
(* the chain.                                                              *)
(*                                                                         *)
(* The page is React state, an effect that fetches a quote for the inputs  *)
(* after a pause, a handler that runs over several awaits while the inputs *)
(* can still be edited, and an effect that waits for the receipt.          *)
(*                                                                         *)
(* The amount of the form is text, a decimal counted here in Parts to the  *)
(* one: with two of them 1 is "0.5", 2 is "1", and 0 is what the page does *)
(* not ask a quote for.  The page sends that text as it is, though its     *)
(* labels speak of tokens, and the API takes digits alone, as base units:  *)
(* "1" is one of them whatever the token's decimals, and "0.5" is refused. *)
(*                                                                         *)
(* The rate is what the pool pays for one base unit; slippage is counted   *)
(* in tenths.                                                              *)
(***************************************************************************)
EXTENDS Integers, Sequences, FiniteSets

CONSTANTS
    MaxFetches, \* bound: quote requests and timers at once, cancelled ones included
    MaxCalls,   \* bound: runs of handleSwap at once
    MaxTx,      \* bound: transactions the user sends
    MaxAmount,  \* bound: the largest amount typed, in Parts
    Slippages,  \* SLIPPAGE_OPTIONS, in tenths
    Rates

ASSUME SwapPageAssumption ==
    /\ MaxTx \in Nat /\ MaxFetches \in Nat /\ MaxCalls \in Nat /\ MaxAmount \in Nat
    /\ Slippages \subseteq 0 .. 10 /\ Rates \subseteq Nat \ {0}

VARIABLES
    form,          \* the tokens, the amount and the slippage on the page
    fetches,       \* fetches[i]: one run of the quote effect
    quote, quoteLoading, quoteError,
    swapState, txHash,
    auth,          \* the session of useSiweAuth
    calls,         \* calls[c]: one run of handleSwap and what it has captured
    rate,          \* what the pool pays at present
    txs,           \* the transactions sent, by their number
    posts,         \* posts[t]: POST /record requests for transaction t on their way
    rows           \* the transactions with a row in D1

page == <<form, fetches, quote, quoteLoading, quoteError>>
vars == <<form, fetches, quote, quoteLoading, quoteError, swapState, txHash,
          auth, calls, rate, txs, posts, rows>>

Fetches == 1 .. MaxFetches
Calls   == 1 .. MaxCalls

None     == [kind |-> "none"]
\* The place a new run takes: the first that is free.
Free(places, i) == places[i] = None /\ \A j \in DOMAIN places : j < i => places[j] # None
Forms    == [tokens : {"ab", "ba"}, amount : 0 .. MaxAmount, slip : Slippages]
Parts       == 2

\* What the page asks a quote for, and what the API then reads of the text: only
\* digits are accepted, and they are the base units.
Quotable(f) == f.amount > 0
Accepted(f) == f.amount % Parts = 0
BaseUnits(f) == f.amount \div Parts
Paid(f, r)  == BaseUnits(f) * r

\* finishQuote and applySlippage: what the API answers at rate r.
minAmountOut(out, slip) == out - (out * slip) \div 10
finishQuote(f, r) ==
    [form |-> f, amountIn |-> BaseUnits(f), amountOut |-> Paid(f, r),
     minAmountOut |-> minAmountOut(Paid(f, r), f.slip)]
Quotes == {finishQuote(f, r) : f \in {g \in Forms : Quotable(g) /\ Accepted(g)}, r \in Rates}
Presses == [form : Forms, quote : Quotes]
Calldata == [tokens : {"ab", "ba"}, amount : 0 .. MaxAmount, minAmountOut : Int]
Transactions == [status : {"pending", "ok", "reverted"}, data : Calldata, press : Presses,
                 received : Int]

TypeOK ==
    /\ form \in Forms
    /\ fetches \in [Fetches -> {None} \cup
                      [kind : {"timer", "sent"}, form : Forms] \cup [kind : {"cancelled"}]]
    /\ quote \in {None} \cup Quotes
    /\ quoteLoading \in BOOLEAN /\ quoteError \in BOOLEAN
    /\ swapState \in {"idle", "building", "signing", "pending", "success", "error"}
    /\ txHash \in 0 .. Len(txs)
    /\ auth \in {"out", "signing", "in"}
    /\ calls \in [Calls -> {None} \cup [kind : {"build", "sign"}, press : Presses]]
    /\ rate \in Rates
    /\ txs \in Seq(Transactions) /\ Len(txs) <= MaxTx
    /\ posts \in [1 .. MaxTx -> 0 .. 2] /\ rows \subseteq 1 .. MaxTx

\* The useState of SwapPage and of useSiweAuth.
Init ==
    /\ form \in {f \in Forms : f.amount = 0 /\ f.tokens = "ab"}
    /\ fetches = [i \in Fetches |-> None]
    /\ quote = None /\ quoteLoading = FALSE /\ quoteError = FALSE
    /\ swapState = "idle" /\ txHash = 0
    /\ auth = "out"
    /\ calls = [c \in Calls |-> None]
    /\ rate \in Rates
    /\ txs = <<>>
    /\ posts = [t \in 1 .. MaxTx |-> 0] /\ rows = {}

-----------------------------------------------------------------------------
\* Mutant of Cleanup: the flag is not set, so that the answer still counts.
CleanupNoFlag ==
    [i \in Fetches |-> IF fetches[i].kind = "timer" THEN None ELSE fetches[i]]

\* The cleanup of the effect's last run: the timer is cleared, and what is
\* still under way is cancelled.
Cleanup ==
    [i \in Fetches |->
        IF fetches[i].kind \in {"sent", "cancelled"} THEN [kind |-> "cancelled"] ELSE None]

\* The quote effect runs for new inputs.  It leaves quoteLoading alone when
\* they cannot be quoted, though nobody will reset it for the run it cancels.
QuoteEffect(f) ==
    /\ quoteError' = FALSE
    /\ IF Quotable(f)
       THEN \E i \in Fetches :
              /\ Free(Cleanup, i)
              /\ fetches' = [Cleanup EXCEPT ![i] =
                               [kind |-> "timer", form |-> f]]
              /\ quoteLoading' = TRUE
              /\ UNCHANGED quote
       ELSE fetches' = Cleanup /\ quote' = None /\ UNCHANGED quoteLoading

\* The user edits an input, whatever else is going on.
Edit(f) ==
    /\ f # form
    /\ form' = f
    /\ QuoteEffect(f)
    /\ UNCHANGED <<swapState, txHash, auth, calls, rate, txs, posts, rows>>

EnterAmount    == \E a \in 0 .. MaxAmount : Edit([form EXCEPT !.amount = a])
SelectTokenOut == \E p \in {"ab", "ba"} : Edit([form EXCEPT !.tokens = p])
SelectSlippage == \E s \in Slippages : Edit([form EXCEPT !.slip = s])
handleSwitchTokens ==
    Edit([form EXCEPT !.tokens = IF @ = "ab" THEN "ba" ELSE "ab", !.amount = 0])

SendFetch(i) ==
    /\ fetches[i].kind = "timer"
    /\ fetches' = [fetches EXCEPT ![i].kind = "sent"]
    /\ UNCHANGED <<form, quote, quoteLoading, quoteError, swapState, txHash,
                   auth, calls, rate, txs, posts, rows>>

\* Mutant of FetchDone: quoteLoading is reset with the quote only.
FetchDoneNoFinally(i) ==
    /\ fetches[i].kind \in {"sent", "cancelled"}
    /\ fetches' = [fetches EXCEPT ![i] = None]
    /\ IF fetches[i].kind = "cancelled"
       THEN UNCHANGED <<quote, quoteLoading, quoteError>>
       ELSE \/ /\ Accepted(fetches[i].form) /\ quote' = finishQuote(fetches[i].form, rate)
               /\ quoteLoading' = FALSE /\ UNCHANGED quoteError
            \/ quoteError' = TRUE /\ UNCHANGED <<quote, quoteLoading>>
    /\ UNCHANGED <<form, swapState, txHash, auth, calls, rate, txs, posts, rows>>

\* GET /quote answers with a quote or an error, always the latter for an amount
\* that is not all digits.
FetchDone(i) ==
    /\ fetches[i].kind \in {"sent", "cancelled"}
    /\ fetches' = [fetches EXCEPT ![i] = None]
    /\ IF fetches[i].kind = "cancelled"
       THEN UNCHANGED <<quote, quoteLoading, quoteError>>
       ELSE /\ quoteLoading' = FALSE
            /\ \/ /\ Accepted(fetches[i].form) /\ quote' = finishQuote(fetches[i].form, rate)
                  /\ UNCHANGED quoteError
               \/ quoteError' = TRUE /\ UNCHANGED quote
    /\ UNCHANGED <<form, swapState, txHash, auth, calls, rate, txs, posts, rows>>

-----------------------------------------------------------------------------
isConfirmed  == txHash # 0 /\ txs[txHash].status = "ok"
isConfirming == txHash # 0 /\ txs[txHash].status = "pending"
isQuoteValid == quote # None /\ ~ quoteError /\ ~ quoteLoading

\* What the page shows of the quote, and the button under it.
QuoteDetails == IF isQuoteValid THEN quote ELSE None

\* Mutant of Busy: a click while the wallet asks.
BusyNotSigning == swapState \in {"building", "pending"} \/ isConfirming
Busy == swapState \in {"building", "signing", "pending"} \/ isConfirming
SwapButton == auth = "in" /\ QuoteDetails # None /\ ~ Busy

\* useSiweAuth: a nonce, the wallet's signature, the session; any step may fail.
signIn     == auth = "out" /\ auth' = "signing"
signInDone == auth = "signing" /\ auth' \in {"in", "out"}
SignIn ==
    /\ signIn \/ signInDone
    /\ UNCHANGED <<page, swapState, txHash, calls, rate, txs, posts, rows>>

\* handleSwap up to its first await: quote and inputs are those of this render.
handleSwap(c) ==
    /\ SwapButton /\ Free(calls, c) /\ Len(txs) < MaxTx
    /\ calls' = [calls EXCEPT ![c] =
                   [kind |-> "build", press |-> [form |-> form, quote |-> quote]]]
    /\ swapState' = "building" /\ quoteError' = FALSE
    /\ UNCHANGED <<form, fetches, quote, quoteLoading, txHash, auth, rate, txs, posts, rows>>

\* Any await of handleSwap may throw: the API, a bad address, no wallet, a
\* user who declines.
SwapFails(c) ==
    /\ calls[c] # None
    /\ calls' = [calls EXCEPT ![c] = None]
    /\ swapState' = "error" /\ quoteError' = TRUE
    /\ UNCHANGED <<form, fetches, quote, quoteLoading, txHash, auth, rate, txs, posts, rows>>

\* POST /build, which takes the quote as the page sends it, and the wallet's turn.
Build(c) ==
    /\ calls[c].kind = "build"
    /\ calls' = [calls EXCEPT ![c].kind = "sign"]
    /\ swapState' = "signing"
    /\ UNCHANGED <<page, txHash, auth, rate, txs, posts, rows>>

\* The pool and its direction follow from the quote's tokens.
buildCalldata(q) ==
    [tokens |-> q.form.tokens, amount |-> q.amountIn, minAmountOut |-> q.minAmountOut]

SendTransaction(c) ==
    /\ calls[c].kind = "sign" /\ Len(txs) < MaxTx
    /\ txs' = Append(txs, [status |-> "pending", data |-> buildCalldata(calls[c].press.quote),
                           press |-> calls[c].press, received |-> 0])
    /\ calls' = [calls EXCEPT ![c] = None]
    /\ swapState' = "pending" /\ txHash' = Len(txs) + 1
    /\ UNCHANGED <<page, auth, rate, posts, rows>>

-----------------------------------------------------------------------------
\* The router pays what the pool pays now, or reverts: the bound, the deadline
\* twenty minutes after the build, anything else.
Mine(t) ==
    LET out == txs[t].data.amount * rate IN
    /\ txs[t].status = "pending"
    /\ \/ /\ out >= txs[t].data.minAmountOut
          /\ txs' = [txs EXCEPT ![t].status = "ok", ![t].received = out]
       \/ txs' = [txs EXCEPT ![t].status = "reverted"]
    /\ UNCHANGED <<page, swapState, txHash, auth, calls, rate, posts, rows>>

MoveRate ==
    /\ rate' \in Rates \ {rate}
    /\ UNCHANGED <<page, swapState, txHash, auth, calls, txs, posts, rows>>

\* Mutant of ConfirmEnabled: the effect does not ask for the state it leaves.
ConfirmAnyState == isConfirmed /\ quote # None /\ posts[txHash] < 2
ConfirmEnabled  == isConfirmed /\ swapState = "pending" /\ quote # None

\* The confirmation effect: success, and POST /record with the session.  Its
\* timer never fires: the new swapState runs the effect's cleanup at once.
Confirm ==
    /\ ConfirmEnabled
    /\ swapState' = "success"
    /\ posts' = [posts EXCEPT ![txHash] = @ + 1]
    /\ UNCHANGED <<page, txHash, auth, calls, rate, txs, rows>>

\* POST /record: refused without the block's time, which many receipts lack, or
\* by a guard of the route; a transaction that has its row is left as it is.
Record(t) ==
    /\ posts[t] > 0
    /\ posts' = [posts EXCEPT ![t] = @ - 1]
    /\ rows' \in {rows, rows \cup {t}}
    /\ UNCHANGED <<page, swapState, txHash, auth, calls, rate, txs>>

Next ==
    \/ EnterAmount \/ SelectTokenOut \/ SelectSlippage \/ handleSwitchTokens
    \/ \E i \in Fetches : SendFetch(i) \/ FetchDone(i)
    \/ SignIn
    \/ \E c \in Calls : handleSwap(c) \/ SwapFails(c) \/ Build(c) \/ SendTransaction(c)
    \/ \E t \in DOMAIN txs : Mine(t) \/ Record(t)
    \/ MoveRate \/ Confirm

\* Timers fire, requests are answered and effects run.  Nobody has to click,
\* to sign or to mine.
Answers == \E i \in Fetches : SendFetch(i) \/ FetchDone(i)
Fairness == WF_vars(Answers) /\ WF_vars(Confirm)

Spec == Init /\ [][Next]_vars /\ Fairness

-----------------------------------------------------------------------------
\* What is executed is the quote that was on the page when the button was
\* pressed: the tokens of the form then, as many base units as its digits say,
\* and no less than its slippage leaves of what was quoted, however the inputs
\* and the pool moved meanwhile.  It does not say that the digits mean what the
\* labels make of them: one base unit is executed where the page reads "1 token".
ExecutedAsQuoted ==
    \A t \in DOMAIN txs :
        LET seen == txs[t].press IN
        txs[t].status = "ok" =>
            /\ txs[t].data.tokens = seen.form.tokens
            /\ txs[t].data.amount = seen.quote.amountIn
            /\ Parts * txs[t].data.amount = seen.form.amount
            /\ 10 * txs[t].received >= (10 - seen.form.slip) * seen.quote.amountOut

\* No click starts a second swap while an earlier one is under way.
OneSwapAtATime ==
    /\ Cardinality({c \in Calls : calls[c] # None}) <= 1
    /\ \A c \in Calls, t \in DOMAIN txs :
          calls[c] # None => txs[t].status # "pending"

\* A swap is reported to the API once at most, and only if it went through,
\* whatever sets off the effect.
RecordedOnce ==
    \A t \in 1 .. MaxTx :
        /\ posts[t] + (IF t \in rows THEN 1 ELSE 0) <= 1
        /\ posts[t] > 0 \/ t \in rows => t \in DOMAIN txs /\ txs[t].status = "ok"

\* Once the user leaves the inputs alone, and they can be quoted, the page has an
\* answer for them, however many fetches were cancelled; and with a quote on the
\* page the user is told of the swap that went through.
PageSettles ==
    <>[][form' = form]_form =>
        /\ <>[](Quotable(form) => ~ quoteLoading)
        /\ []<>(isConfirmed /\ quote # None => swapState # "pending")
=============================================================================
