--------------------------- MODULE SwapPageProofs ---------------------------
(***************************************************************************)
(* Proofs about SwapPage for every amount, set of slippages and rates, and *)
(* every number of overlapping fetches, handler runs and transactions; and *)
(* about the other pages of MCWeb and the quotes of the API, each for its  *)
(* own constants.                                                          *)
(***************************************************************************)
EXTENDS MCWeb, FiniteSetTheorems, SequenceTheorems, WellFoundedInduction, TLAPS

\* A fetch that still counts asks for the form as it stands.
FetchesCurrent ==
    \A i \in Fetches : fetches[i].kind \in {"timer", "sent"} =>
                          fetches[i].form = form /\ Quotable(form)

\* A quote the page shows is for the form as it stands: an edit invalidates it
\* until the fetch for the new inputs is answered.
QuoteCurrent == isQuoteValid => quote.form = form

\* What a run of handleSwap carries was valid when the button was pressed, and
\* what is sent, mined and paid follows from it.
PressSound(press) == press.quote \in Quotes /\ press.quote.form = press.form
TxSound(tx) ==
    /\ PressSound(tx.press) /\ tx.data = buildCalldata(tx.press.quote)
    /\ tx.status = "ok" => tx.received >= tx.data.minAmountOut
PressesSound ==
    /\ \A c \in Calls : calls[c] # None => PressSound(calls[c].press)
    /\ \A t \in DOMAIN txs : TxSound(txs[t])

\* A run of handleSwap keeps the button busy until it has failed or sent, and
\* the page watches the transaction sent last, the only one that may be pending.
OneUnderWay ==
    /\ \A c, d \in Calls : calls[c] # None /\ calls[d] # None => c = d
    /\ \A c \in Calls : calls[c] # None => swapState \in {"building", "signing"}
    /\ txHash = Len(txs)
    /\ \A t \in DOMAIN txs : txs[t].status = "pending" =>
          t = Len(txs) /\ \A c \in Calls : calls[c] = None

\* The state the effect asks for is the one of a transaction not yet reported.
Unreported ==
    swapState = "pending" => txHash # 0 /\ posts[txHash] = 0 /\ txHash \notin rows

IInv == /\ TypeOK /\ FetchesCurrent /\ QuoteCurrent /\ PressesSound /\ OneUnderWay
        /\ Unreported /\ RecordedOnce

FetchStates == {None} \cup [kind : {"timer", "sent"}, form : Forms] \cup [kind : {"cancelled"}]
CallStates  == {None} \cup [kind : {"build", "sign"}, press : Presses]

PageTypes ==
    /\ form \in Forms /\ fetches \in [Fetches -> FetchStates]
    /\ quote \in {None} \cup Quotes /\ quoteLoading \in BOOLEAN /\ quoteError \in BOOLEAN
SwapTypes ==
    /\ swapState \in {"idle", "building", "signing", "pending", "success", "error"}
    /\ txHash \in 0 .. Len(txs) /\ auth \in {"out", "signing", "in"}
    /\ calls \in [Calls -> CallStates] /\ rate \in Rates
    /\ txs \in Seq(Transactions) /\ Len(txs) <= MaxTx
    /\ posts \in [1 .. MaxTx -> 0 .. 2] /\ rows \subseteq 1 .. MaxTx

\* The two halves of the type invariant.
LEMMA Types == TypeOK <=> PageTypes /\ SwapTypes
BY DEF TypeOK, PageTypes, SwapTypes, FetchStates, CallStates

\* The two halves after a step.
LEMMA TypesNext == TypeOK' <=> PageTypes' /\ SwapTypes'
BY DEF TypeOK, PageTypes, SwapTypes, FetchStates, CallStates

\* A quote of the API is for the inputs it was asked for; a tenth of the slippage
\* per unit is the most it gives away.
LEMMA QuoteBound ==
    ASSUME NEW f \in Forms, NEW r \in Rates
    PROVE  LET q == finishQuote(f, r) IN
           /\ q.form = f /\ q.amountIn = BaseUnits(f) /\ q.amountOut \in Nat /\ q.minAmountOut \in Int
           /\ \A n \in Int : n >= q.minAmountOut => 10 * n >= (10 - f.slip) * q.amountOut
<1> DEFINE out  == BaseUnits(f) * r
           lost == out * f.slip
<1>1. BaseUnits(f) \in Nat /\ r \in Nat /\ f.slip \in Nat
  <2>1. f.amount \in 0 .. MaxAmount /\ f.slip \in Slippages
    BY DEF Forms
  <2>2. f.slip \in 0 .. 10 /\ r \in Nat
    BY <2>1, SwapPageAssumption
  <2>3. BaseUnits(f) \in Nat
    BY <2>1, SwapPageAssumption DEF BaseUnits, Parts
  <2> QED BY <2>2, <2>3
<1>2. out \in Nat
    BY <1>1
<1>3. lost \in Nat /\ (10 - f.slip) * out = 10 * out - lost
  <2> HIDE DEF out
  <2> QED BY <1>1, <1>2
<1>4. finishQuote(f, r) = [form |-> f, amountIn |-> BaseUnits(f), amountOut |-> out,
                           minAmountOut |-> out - lost \div 10]
    BY DEF finishQuote, Paid, minAmountOut
<1> HIDE DEF out, lost
<1>5. lost \div 10 \in Int /\ 10 * (lost \div 10) <= lost
    BY <1>3
<1>6. ASSUME NEW n \in Int, n >= out - lost \div 10
      PROVE  10 * n >= (10 - f.slip) * out
    BY <1>2, <1>3, <1>5, <1>6
<1> QED BY <1>2, <1>4, <1>5, <1>6

\* An amount that is all digits is read as it is written.
LEMMA DigitsRead ==
    ASSUME NEW f \in Forms, Accepted(f)
    PROVE  BaseUnits(f) \in 0 .. MaxAmount /\ Parts * BaseUnits(f) = f.amount
<1>1. f.amount \in 0 .. MaxAmount /\ MaxAmount \in Nat /\ f.amount % 2 = 0
    BY SwapPageAssumption DEF Forms, Accepted, Parts
<1>2. f.amount \div 2 \in 0 .. MaxAmount /\ 2 * (f.amount \div 2) = f.amount
    BY <1>1
<1> QED BY <1>2 DEF BaseUnits, Parts

\* The same of any quote that the page has received.
LEMMA QuoteFacts ==
    ASSUME NEW q \in Quotes
    PROVE  /\ q.form \in Forms /\ Quotable(q.form) /\ q.minAmountOut \in Int
           /\ q.amountIn \in 0 .. MaxAmount /\ Parts * q.amountIn = q.form.amount
           /\ \A n \in Int : n >= q.minAmountOut => 10 * n >= (10 - q.form.slip) * q.amountOut
<1>1. PICK f \in Forms, r \in Rates : q = finishQuote(f, r) /\ Quotable(f) /\ Accepted(f)
    BY DEF Quotes
<1> QED BY <1>1, QuoteBound, DigitsRead

\* A step of the form or the quote leaves the swap under way alone.
LEMMA PageStep ==
    ASSUME IInv, PageTypes', FetchesCurrent', QuoteCurrent',
           UNCHANGED <<swapState, txHash, auth, calls, rate, txs, posts, rows>>
    PROVE  IInv'
<1>1. SwapTypes'
    BY Types DEF IInv, SwapTypes
<1>2. PressesSound' /\ OneUnderWay' /\ Unreported' /\ RecordedOnce'
    BY DEF IInv, PressesSound, PressSound, TxSound, OneUnderWay, Unreported, RecordedOnce
<1> QED BY <1>1, <1>2, TypesNext DEF IInv

\* A step of the swap leaves the form and its fetches alone; it may tell of an
\* error, or clear one when the quote it is about counted before.
LEMMA SwapStep ==
    ASSUME IInv, SwapTypes', PressesSound', OneUnderWay', Unreported', RecordedOnce',
           UNCHANGED <<form, fetches, quote, quoteLoading>>,
           \/ quoteError' = quoteError \/ quoteError' = TRUE
           \/ quoteError' = FALSE /\ isQuoteValid
    PROVE  IInv'
<1>1. PageTypes'
    BY Types DEF IInv, PageTypes
<1>2. FetchesCurrent'
    BY DEF IInv, FetchesCurrent
<1>3. QuoteCurrent'
    BY DEF IInv, QuoteCurrent, isQuoteValid
<1> QED BY <1>1, <1>2, <1>3, TypesNext DEF IInv

\* The effect of an edit cancels what was under way, so that nothing that still
\* counts is for the old inputs.
LEMMA CleanupStates ==
    ASSUME IInv
    PROVE  /\ Cleanup \in [Fetches -> FetchStates]
           /\ \A i \in Fetches : Cleanup[i].kind \notin {"timer", "sent"}
<1>1. [kind |-> "cancelled"] \in FetchStates /\ None \in FetchStates
    BY DEF FetchStates
<1>2. ASSUME NEW i \in Fetches
      PROVE  Cleanup[i] \in FetchStates /\ Cleanup[i].kind \notin {"timer", "sent"}
    BY <1>1 DEF Cleanup, None
<1> QED BY <1>2 DEF Cleanup

\* An edit of any input.
LEMMA EditInv ==
    ASSUME IInv, NEW f \in Forms, Edit(f) PROVE IInv'
<1>1. form' = f /\ quoteError' = FALSE /\ QuoteEffect(f)
    BY DEF Edit, QuoteEffect
<1>2. UNCHANGED <<swapState, txHash, auth, calls, rate, txs, posts, rows>>
    BY DEF Edit
<1>3. quote \in {None} \cup Quotes /\ quoteLoading \in BOOLEAN
    BY Types DEF IInv, PageTypes
<1>4. CASE Quotable(f)
  <2> DEFINE t == [kind |-> "timer", form |-> f]
  <2>1. PICK i \in Fetches : fetches' = [Cleanup EXCEPT ![i] = t]
    BY <1>1, <1>4 DEF QuoteEffect
  <2>2. quoteLoading' = TRUE /\ quote' = quote
    BY <1>1, <1>4 DEF QuoteEffect
  <2>3. t \in FetchStates /\ t.form = f
    BY DEF FetchStates
  <2> HIDE DEF t
  <2>4. PageTypes'
    BY <1>1, <1>3, <2>1, <2>2, <2>3, CleanupStates DEF PageTypes
  <2>5. FetchesCurrent'
    <3> SUFFICES ASSUME NEW j \in Fetches, fetches'[j].kind \in {"timer", "sent"}
                 PROVE  fetches'[j].form = f
      BY <1>1, <1>4 DEF FetchesCurrent, Quotable
    <3>1. CASE j = i
      BY <2>1, <2>3, <3>1, CleanupStates
    <3>2. CASE j # i
      BY <2>1, <3>2, CleanupStates
    <3> QED BY <3>1, <3>2
  <2>6. QuoteCurrent'
    BY <2>2 DEF QuoteCurrent, isQuoteValid
  <2> QED BY <1>2, <2>4, <2>5, <2>6, PageStep
<1>5. CASE ~ Quotable(f)
  <2>1. fetches' = Cleanup /\ quote' = None /\ quoteLoading' = quoteLoading
    BY <1>1, <1>5 DEF QuoteEffect
  <2>2. PageTypes'
    BY <1>1, <1>3, <2>1, CleanupStates DEF PageTypes
  <2>3. FetchesCurrent'
    BY <2>1, CleanupStates DEF FetchesCurrent
  <2>4. QuoteCurrent'
    BY <2>1 DEF QuoteCurrent, isQuoteValid
  <2> QED BY <1>2, <2>2, <2>3, <2>4, PageStep
<1> QED BY <1>4, <1>5

\* The four ways to edit them.
LEMMA EditsInv ==
    ASSUME IInv, EnterAmount \/ SelectTokenOut \/ SelectSlippage \/ handleSwitchTokens
    PROVE  IInv'
<1>1. form \in Forms /\ 0 \in 0 .. MaxAmount
    BY Types, SwapPageAssumption DEF IInv, PageTypes
<1>2. \A a \in 0 .. MaxAmount : [form EXCEPT !.amount = a] \in Forms
    BY <1>1 DEF Forms
<1>3. \A p \in {"ab", "ba"} : [form EXCEPT !.tokens = p] \in Forms
    BY <1>1 DEF Forms
<1>4. \A s \in Slippages : [form EXCEPT !.slip = s] \in Forms
    BY <1>1 DEF Forms
<1>5. [form EXCEPT !.tokens = IF @ = "ab" THEN "ba" ELSE "ab", !.amount = 0] \in Forms
    BY <1>1 DEF Forms
<1> QED BY <1>2, <1>3, <1>4, <1>5, EditInv
       DEF EnterAmount, SelectTokenOut, SelectSlippage, handleSwitchTokens

\* The pause is over: the request goes out for the same inputs.
LEMMA SendFetchInv ==
    ASSUME IInv, NEW i \in Fetches, SendFetch(i) PROVE IInv'
<1> DEFINE s == [fetches[i] EXCEPT !.kind = "sent"]
<1>1. fetches \in [Fetches -> FetchStates] /\ fetches[i].kind = "timer"
    BY Types DEF IInv, PageTypes, SendFetch
<1>2. fetches[i] \in [kind : {"timer", "sent"}, form : Forms]
    BY <1>1 DEF FetchStates, None
<1>3. s \in FetchStates /\ s.form = fetches[i].form
    BY <1>2 DEF FetchStates
<1>4. fetches' = [fetches EXCEPT ![i] = s]
    BY DEF SendFetch
<1> HIDE DEF s
<1>5. PageTypes'
    BY <1>1, <1>3, <1>4, Types DEF IInv, PageTypes, SendFetch
<1>6. FetchesCurrent'
  <2> SUFFICES ASSUME NEW j \in Fetches, fetches'[j].kind \in {"timer", "sent"}
               PROVE  fetches'[j].form = form /\ Quotable(form)
    BY DEF FetchesCurrent, SendFetch
  <2>1. CASE j = i
    BY <1>1, <1>3, <1>4, <2>1 DEF IInv, FetchesCurrent
  <2>2. CASE j # i
    BY <1>1, <1>4, <2>2 DEF IInv, FetchesCurrent
  <2> QED BY <2>1, <2>2
<1>7. QuoteCurrent'
    BY DEF IInv, QuoteCurrent, isQuoteValid, SendFetch
<1> QED BY <1>5, <1>6, <1>7, PageStep DEF SendFetch

\* An answer that counts is for the form as it stands; a cancelled one is dropped.
LEMMA FetchDoneInv ==
    ASSUME IInv, NEW i \in Fetches, FetchDone(i) PROVE IInv'
<1>1. /\ fetches \in [Fetches -> FetchStates] /\ None \in FetchStates
      /\ fetches' = [fetches EXCEPT ![i] = None]
      /\ fetches[i].kind \in {"sent", "cancelled"}
      /\ form' = form /\ form \in Forms /\ rate \in Rates
    BY Types DEF IInv, PageTypes, SwapTypes, FetchDone, FetchStates
<1>2. FetchesCurrent'
    BY <1>1 DEF IInv, FetchesCurrent, None
<1>3. CASE fetches[i].kind = "cancelled"
  <2>1. UNCHANGED <<quote, quoteLoading, quoteError>>
    BY <1>3 DEF FetchDone
  <2>2. PageTypes' /\ QuoteCurrent'
    BY <1>1, <2>1, Types DEF IInv, PageTypes, QuoteCurrent, isQuoteValid
  <2> QED BY <1>2, <2>2, PageStep DEF FetchDone
<1>4. CASE fetches[i].kind = "sent"
  <2>1. fetches[i].form = form /\ Quotable(form)
    BY <1>4 DEF IInv, FetchesCurrent
  <2>2. /\ Accepted(form) => finishQuote(form, rate) \in Quotes
        /\ finishQuote(form, rate).form = form
    BY <1>1, <2>1, QuoteBound DEF Quotes
  <2>3. \/ Accepted(form) /\ quote' = finishQuote(form, rate) /\ quoteError' = quoteError
        \/ quoteError' = TRUE /\ quote' = quote
    BY <1>4, <2>1 DEF FetchDone
  <2>4. quoteLoading' = FALSE
    BY <1>4 DEF FetchDone
  <2>5. PageTypes'
    BY <1>1, <2>2, <2>3, <2>4, Types DEF IInv, PageTypes
  <2>6. QuoteCurrent'
    BY <1>1, <2>2, <2>3 DEF QuoteCurrent, isQuoteValid
  <2> QED BY <1>2, <2>5, <2>6, PageStep DEF FetchDone
<1> QED BY <1>1, <1>3, <1>4

-----------------------------------------------------------------------------
\* What a step of the swap may take for granted.
LEMMA Facts ==
    ASSUME IInv
    PROVE  /\ MaxTx \in Nat /\ Len(txs) \in Nat /\ DOMAIN txs = 1 .. Len(txs)
           /\ calls \in [Calls -> CallStates] /\ None \in CallStates
           /\ \A c \in Calls : calls[c] # None =>
                 /\ calls[c] \in [kind : {"build", "sign"}, press : Presses]
                 /\ PressSound(calls[c].press) /\ swapState \in {"building", "signing"}
                 /\ \A d \in Calls \ {c} : calls[d] = None
           /\ \A t \in DOMAIN txs :
                 txs[t] \in Transactions /\ TxSound(txs[t]) /\ t \in 1 .. MaxTx
           /\ rate \in Rates /\ rate \in Nat
<1>1. /\ txs \in Seq(Transactions) /\ Len(txs) <= MaxTx /\ rate \in Rates
      /\ calls \in [Calls -> CallStates]
    BY Types DEF IInv, SwapTypes
<1>2. MaxTx \in Nat /\ Len(txs) \in Nat /\ DOMAIN txs = 1 .. Len(txs) /\ rate \in Nat
    BY <1>1, SwapPageAssumption
<1>3. \A t \in DOMAIN txs : txs[t] \in Transactions
    BY <1>1, <1>2, ElementOfSeq
<1>4. \A c \in Calls : calls[c] # None =>
         /\ calls[c] \in [kind : {"build", "sign"}, press : Presses]
         /\ PressSound(calls[c].press) /\ swapState \in {"building", "signing"}
         /\ \A d \in Calls \ {c} : calls[d] = None
    BY <1>1 DEF CallStates, IInv, PressesSound, OneUnderWay
<1>5. \A t \in DOMAIN txs : TxSound(txs[t]) /\ t \in 1 .. MaxTx
    BY <1>1, <1>2 DEF IInv, PressesSound
<1> QED BY <1>1, <1>2, <1>3, <1>4, <1>5 DEF CallStates

\* A click that the button lets through: the quote counts, no run is under way
\* and no transaction pending.
LEMMA HandleSwapInv ==
    ASSUME IInv, NEW c \in Calls, handleSwap(c) PROVE IInv'
<1> DEFINE press == [form |-> form, quote |-> quote]
           run   == [kind |-> "build", press |-> press]
<1>1. /\ isQuoteValid /\ quote # None /\ quote \in Quotes /\ form \in Forms
      /\ swapState \notin {"building", "signing", "pending"} /\ ~ isConfirming
    BY Types DEF IInv, PageTypes, handleSwap, SwapButton, QuoteDetails, Busy, isQuoteValid
<1>2. \A d \in Calls : calls[d] = None
    BY <1>1, Facts
<1>3. press \in Presses /\ press.quote = quote /\ press.form = form
    BY <1>1 DEF Presses
<1>4. PressSound(press)
    BY <1>1, <1>3 DEF PressSound, IInv, QuoteCurrent
<1> HIDE DEF press
<1>5. run \in CallStates /\ run.press = press
    BY <1>3 DEF CallStates
<1>6. /\ calls' = [calls EXCEPT ![c] = run]
      /\ swapState' = "building" /\ quoteError' = FALSE
      /\ UNCHANGED <<form, fetches, quote, quoteLoading, txHash, auth, rate, txs, posts, rows>>
    BY DEF handleSwap, press
<1> HIDE DEF run
<1>7. SwapTypes'
    BY <1>5, <1>6, Types DEF IInv, SwapTypes
<1>8. PressesSound'
  <2>1. \A d \in Calls : calls'[d] # None => PressSound(calls'[d].press)
    BY <1>2, <1>4, <1>5, <1>6, Facts
  <2> QED BY <1>6, <2>1, Facts DEF PressesSound, PressSound, TxSound
<1>9. OneUnderWay'
  <2>1. \A d \in Calls : calls'[d] # None => d = c
    BY <1>2, <1>6, Facts
  <2>2. \A t \in DOMAIN txs : txs[t].status # "pending"
    BY <1>1 DEF IInv, OneUnderWay, isConfirming
  <2> QED BY <1>6, <2>1, <2>2 DEF OneUnderWay, IInv
<1>10. Unreported' /\ RecordedOnce'
    BY <1>6 DEF Unreported, RecordedOnce, IInv
<1> QED BY <1>1, <1>6, <1>7, <1>8, <1>9, <1>10, SwapStep

\* A run that fails, and one that goes on to the wallet, change what is under
\* way and nothing else.
LEMMA SwapFailsInv ==
    ASSUME IInv, NEW c \in Calls, SwapFails(c) PROVE IInv'
<1>1. /\ calls' = [calls EXCEPT ![c] = None] /\ calls[c] # None
      /\ swapState' = "error" /\ quoteError' = TRUE
      /\ UNCHANGED <<form, fetches, quote, quoteLoading, txHash, auth, rate, txs, posts, rows>>
    BY DEF SwapFails
<1>2. \A d \in Calls : calls'[d] = None
    BY <1>1, Facts
<1>3. SwapTypes'
    BY <1>1, Facts, Types DEF IInv, SwapTypes
<1>4. PressesSound'
    BY <1>1, <1>2, Facts DEF PressesSound, PressSound, TxSound
<1>5. OneUnderWay'
    BY <1>1, <1>2 DEF OneUnderWay, IInv
<1>6. Unreported' /\ RecordedOnce'
    BY <1>1 DEF Unreported, RecordedOnce, IInv
<1> QED BY <1>1, <1>3, <1>4, <1>5, <1>6, SwapStep

\* POST /build answered: the same run, at the wallet now.
LEMMA BuildInv ==
    ASSUME IInv, NEW c \in Calls, Build(c) PROVE IInv'
<1> DEFINE run == [calls[c] EXCEPT !.kind = "sign"]
<1>1. calls[c] # None
    BY DEF Build, None
<1>2. run \in CallStates /\ run.press = calls[c].press
    BY <1>1, Facts DEF CallStates
<1>3. calls' = [calls EXCEPT ![c] = run] /\ swapState' = "signing"
    BY DEF Build
<1>4. UNCHANGED <<form, fetches, quote, quoteLoading, quoteError, txHash, auth, rate, txs, posts, rows>>
    BY DEF Build, page
<1> HIDE DEF run
<1>5. \A d \in Calls : calls'[d] # None => d = c
    BY <1>1, <1>3, Facts
<1>6. SwapTypes'
    BY <1>2, <1>3, <1>4, Types DEF IInv, SwapTypes
<1>7. PressesSound'
  <2>1. \A d \in Calls : calls'[d] # None => PressSound(calls'[d].press)
    BY <1>1, <1>2, <1>3, <1>5, Facts
  <2> QED BY <1>4, <2>1, Facts DEF PressesSound, PressSound, TxSound
<1>8. OneUnderWay'
  <2>1. \A t \in DOMAIN txs : txs[t].status # "pending"
    BY <1>1 DEF OneUnderWay, IInv
  <2> QED BY <1>3, <1>4, <1>5, <2>1 DEF OneUnderWay, IInv
<1>9. Unreported' /\ RecordedOnce'
    BY <1>3, <1>4 DEF Unreported, RecordedOnce, IInv
<1> QED BY <1>4, <1>6, <1>7, <1>8, <1>9, SwapStep

\* The wallet sends what the run was pressed for, and the page watches it.
LEMMA SendTransactionInv ==
    ASSUME IInv, NEW c \in Calls, SendTransaction(c) PROVE IInv'
<1> DEFINE press == calls[c].press
           tx    == [status |-> "pending", data |-> buildCalldata(press.quote),
                     press |-> press, received |-> 0]
           n     == Len(txs) + 1
<1>1. calls[c] # None /\ press \in Presses /\ PressSound(press)
  <2>1. calls[c] # None
    BY DEF SendTransaction, None
  <2> QED BY <2>1, Facts
<1>2. buildCalldata(press.quote) \in Calldata
  <2>1. /\ press.quote.form \in Forms /\ press.quote.minAmountOut \in Int
        /\ press.quote.amountIn \in 0 .. MaxAmount
    BY <1>1, QuoteFacts DEF PressSound
  <2> HIDE DEF press
  <2> QED BY <2>1 DEF buildCalldata, Calldata, Forms
<1>3. /\ txs' = Append(txs, tx) /\ calls' = [calls EXCEPT ![c] = None]
      /\ swapState' = "pending" /\ txHash' = n /\ Len(txs) < MaxTx
      /\ UNCHANGED <<form, fetches, quote, quoteLoading, quoteError, auth, rate, posts, rows>>
    BY DEF SendTransaction, page
<1> HIDE DEF press
<1>4. /\ tx \in Transactions /\ tx.status = "pending" /\ tx.press = press
      /\ tx.data = buildCalldata(press.quote)
    BY <1>1, <1>2 DEF Transactions
<1> HIDE DEF tx
<1>5. /\ txs' \in Seq(Transactions) /\ Len(txs') = n /\ n \in 1 .. MaxTx
      /\ DOMAIN txs' = 1 .. n /\ txs'[n] = tx
      /\ \A t \in DOMAIN txs : txs'[t] = txs[t] /\ t \in DOMAIN txs'
  <2>1. txs \in Seq(Transactions)
    BY Types DEF IInv, SwapTypes
  <2> HIDE DEF Transactions
  <2> QED BY <1>3, <1>4, <2>1, Facts
<1>6. \A d \in Calls : calls'[d] = None
    BY <1>1, <1>3, Facts
<1>7. SwapTypes'
    BY <1>3, <1>5, Facts, Types DEF IInv, SwapTypes
<1>8. PressesSound'
  <2>1. TxSound(tx)
    BY <1>1, <1>4 DEF TxSound
  <2>2. \A t \in DOMAIN txs' : TxSound(txs'[t])
    BY <1>5, <2>1, Facts
  <2> QED BY <1>6, <2>2 DEF PressesSound
<1>9. OneUnderWay'
  <2>1. \A t \in DOMAIN txs : txs[t].status # "pending"
    BY <1>1 DEF OneUnderWay, IInv
  <2>2. \A t \in DOMAIN txs' : txs'[t].status = "pending" => t = n
    BY <1>5, <2>1, Facts
  <2> QED BY <1>3, <1>5, <1>6, <2>2 DEF OneUnderWay
<1>10. n \notin DOMAIN txs
    BY Facts
<1>11. Unreported'
  <2>1. posts[n] = 0 /\ n \notin rows
    <3>1. posts[n] \in 0 .. 2
      BY <1>5, Types DEF IInv, SwapTypes
    <3> QED BY <1>5, <1>10, <3>1 DEF IInv, RecordedOnce
  <2> QED BY <1>3, <1>5, <2>1, Facts DEF Unreported
<1>12. RecordedOnce'
    BY <1>3, <1>5 DEF IInv, RecordedOnce
<1> QED BY <1>3, <1>7, <1>8, <1>9, <1>11, <1>12, SwapStep

\* Mining settles a pending transaction: the router pays the bound or reverts.
LEMMA MineInv ==
    ASSUME IInv, NEW t \in DOMAIN txs, Mine(t) PROVE IInv'
<1> DEFINE out == txs[t].data.amount * rate
<1>1. /\ txs[t] \in Transactions /\ TxSound(txs[t]) /\ txs[t].status = "pending"
      /\ txs \in Seq(Transactions)
      /\ UNCHANGED <<form, fetches, quote, quoteLoading, quoteError, swapState, txHash, auth,
                     calls, rate, posts, rows>>
    BY Facts, Types DEF IInv, SwapTypes, Mine, page
<1>2. out \in Int
  <2>1. txs[t].data.amount \in Nat /\ rate \in Nat
    BY <1>1, Facts, SwapPageAssumption DEF Transactions, Calldata
  <2> HIDE DEF Transactions
  <2> QED BY <2>1
<1>3. \E tx \in Transactions : /\ txs' = [txs EXCEPT ![t] = tx]
                               /\ tx.status # "pending" /\ TxSound(tx)
  <2>1. CASE /\ out >= txs[t].data.minAmountOut
             /\ txs' = [txs EXCEPT ![t].status = "ok", ![t].received = out]
    <3> DEFINE tx == [txs[t] EXCEPT !.status = "ok", !.received = out]
    <3> HIDE DEF out
    <3>1. /\ tx \in Transactions /\ tx.status = "ok" /\ tx.received = out
          /\ tx.data = txs[t].data /\ tx.press = txs[t].press
      BY <1>1, <1>2 DEF Transactions
    <3>2. txs' = [txs EXCEPT ![t] = tx]
      BY <1>1, <2>1 DEF Transactions
    <3> HIDE DEF tx
    <3>3. TxSound(tx)
      BY <1>1, <2>1, <3>1 DEF TxSound
    <3> QED BY <3>1, <3>2, <3>3
  <2>2. CASE txs' = [txs EXCEPT ![t].status = "reverted"]
    <3> DEFINE tx == [txs[t] EXCEPT !.status = "reverted"]
    <3>1. /\ tx \in Transactions /\ tx.status = "reverted"
          /\ tx.data = txs[t].data /\ tx.press = txs[t].press
      BY <1>1 DEF Transactions
    <3>2. txs' = [txs EXCEPT ![t] = tx]
      BY <2>2
    <3> HIDE DEF tx
    <3>3. TxSound(tx)
      BY <1>1, <3>1 DEF TxSound
    <3> QED BY <3>1, <3>2, <3>3
  <2> QED BY <2>1, <2>2 DEF Mine
<1>4. PICK tx \in Transactions : /\ txs' = [txs EXCEPT ![t] = tx]
                                 /\ tx.status # "pending" /\ TxSound(tx)
    BY <1>3
<1>5. /\ txs' \in Seq(Transactions) /\ Len(txs') = Len(txs) /\ DOMAIN txs' = DOMAIN txs
      /\ txs'[t] = tx /\ \A u \in DOMAIN txs \ {t} : txs'[u] = txs[u]
  <2> HIDE DEF Transactions
  <2> QED BY <1>1, <1>4
<1>6. SwapTypes'
    BY <1>1, <1>5, Types DEF IInv, SwapTypes
<1>7. PressesSound'
  <2>1. \A u \in DOMAIN txs' : TxSound(txs'[u])
    BY <1>4, <1>5, Facts
  <2> QED BY <1>1, <2>1, Facts DEF PressesSound, PressSound
<1>8. OneUnderWay'
    BY <1>1, <1>4, <1>5 DEF OneUnderWay, IInv
<1>9. Unreported'
    BY <1>1 DEF Unreported, IInv
<1>10. RecordedOnce'
    BY <1>1, <1>5 DEF RecordedOnce, IInv
<1> QED BY <1>1, <1>6, <1>7, <1>8, <1>9, <1>10, SwapStep

\* The effect reports the transaction and leaves the state it asks for.
LEMMA ConfirmInv == IInv /\ Confirm => IInv'
<1> SUFFICES ASSUME IInv, Confirm PROVE IInv'
    OBVIOUS
<1>1. /\ swapState = "pending" /\ txHash # 0 /\ txs[txHash].status = "ok"
      /\ swapState' = "success" /\ posts' = [posts EXCEPT ![txHash] = @ + 1]
      /\ UNCHANGED <<form, fetches, quote, quoteLoading, quoteError, txHash, auth, calls, rate,
                     txs, rows>>
    BY DEF Confirm, ConfirmEnabled, isConfirmed, page
<1>2. /\ txHash \in DOMAIN txs /\ txHash \in 1 .. MaxTx
      /\ posts \in [1 .. MaxTx -> 0 .. 2] /\ posts[txHash] = 0 /\ txHash \notin rows
    BY <1>1, Facts, Types DEF IInv, SwapTypes, Unreported
<1>3. /\ posts' \in [1 .. MaxTx -> 0 .. 2] /\ posts'[txHash] = 1
      /\ \A t \in 1 .. MaxTx \ {txHash} : posts'[t] = posts[t]
    BY <1>1, <1>2
<1>4. SwapTypes'
    BY <1>1, <1>3, Types DEF IInv, SwapTypes
<1>5. PressesSound'
    BY <1>1, Facts DEF PressesSound, PressSound, TxSound
<1>6. OneUnderWay'
  <2>1. \A c \in Calls : calls[c] = None
    BY <1>1, Facts
  <2> QED BY <1>1, <2>1 DEF OneUnderWay, IInv
<1>7. Unreported'
    BY <1>1 DEF Unreported
<1>8. RecordedOnce'
    BY <1>1, <1>2, <1>3 DEF RecordedOnce, IInv
<1> QED BY <1>1, <1>4, <1>5, <1>6, <1>7, <1>8, SwapStep

\* The API answers a report, with a row or without.
LEMMA RecordInv ==
    ASSUME IInv, NEW t \in DOMAIN txs, Record(t) PROVE IInv'
<1>1. /\ posts[t] > 0 /\ posts' = [posts EXCEPT ![t] = @ - 1]
      /\ rows' \in {rows, rows \cup {t}}
      /\ UNCHANGED <<form, fetches, quote, quoteLoading, quoteError, swapState, txHash, auth,
                     calls, rate, txs>>
    BY DEF Record, page
<1>2. t \in 1 .. MaxTx /\ posts \in [1 .. MaxTx -> 0 .. 2] /\ rows \subseteq 1 .. MaxTx
    BY Facts, Types DEF IInv, SwapTypes
<1>3. posts[t] = 1 /\ t \notin rows /\ txs[t].status = "ok"
  <2>1. posts[t] \in 0 .. 2
    BY <1>2
  <2> QED BY <1>1, <1>2, <2>1 DEF IInv, RecordedOnce
<1>4. /\ posts' \in [1 .. MaxTx -> 0 .. 2] /\ posts'[t] = 0
      /\ \A u \in 1 .. MaxTx \ {t} : posts'[u] = posts[u] /\ (u \in rows' <=> u \in rows)
    BY <1>1, <1>2, <1>3
<1>5. SwapTypes'
    BY <1>1, <1>2, <1>4, Types DEF IInv, SwapTypes
<1>6. PressesSound'
    BY <1>1, Facts DEF PressesSound, PressSound, TxSound
<1>7. OneUnderWay'
    BY <1>1 DEF OneUnderWay, IInv
<1>8. Unreported'
  <2>1. ASSUME swapState = "pending"
        PROVE  txHash # 0 /\ posts'[txHash] = 0 /\ txHash \notin rows'
    <3>1. txHash # 0 /\ posts[txHash] = 0 /\ txHash \notin rows
      BY <2>1 DEF IInv, Unreported
    <3>2. txHash \in 1 .. MaxTx /\ txHash # t
      BY <1>3, <3>1, Facts, Types DEF IInv, SwapTypes
    <3> QED BY <1>4, <3>1, <3>2
  <2> QED BY <1>1, <2>1 DEF Unreported
<1>9. RecordedOnce'
  <2> SUFFICES ASSUME NEW u \in 1 .. MaxTx
               PROVE  /\ posts'[u] + (IF u \in rows' THEN 1 ELSE 0) <= 1
                      /\ posts'[u] > 0 \/ u \in rows' => u \in DOMAIN txs' /\ txs'[u].status = "ok"
    BY DEF RecordedOnce
  <2>1. CASE u = t
    BY <1>1, <1>3, <1>4, <2>1
  <2>2. CASE u # t
    BY <1>1, <1>4, <2>2 DEF IInv, RecordedOnce
  <2> QED BY <2>1, <2>2
<1> QED BY <1>1, <1>5, <1>6, <1>7, <1>8, <1>9, SwapStep

\* The session and the rate are nobody else's business.
LEMMA OtherInv ==
    ASSUME IInv, SignIn \/ MoveRate \/ UNCHANGED vars PROVE IInv'
<1>1. /\ UNCHANGED <<form, fetches, quote, quoteLoading, quoteError, swapState, txHash, calls,
                     txs, posts, rows>>
      /\ auth' \in {auth, "out", "signing", "in"} /\ rate' \in Rates \cup {rate}
    BY DEF SignIn, signIn, signInDone, MoveRate, vars, page
<1>2. SwapTypes'
    BY <1>1, Types DEF IInv, SwapTypes
<1>3. PressesSound' /\ OneUnderWay' /\ Unreported' /\ RecordedOnce'
    BY <1>1, Facts DEF IInv, PressesSound, PressSound, TxSound, OneUnderWay, Unreported, RecordedOnce
<1> QED BY <1>1, <1>2, <1>3, SwapStep

\* Every step preserves the invariant: one lemma per action.
LEMMA NextInv == IInv /\ [Next]_vars => IInv'
<1> SUFFICES ASSUME IInv, [Next]_vars PROVE IInv'
    OBVIOUS
<1>1. ASSUME NEW i \in Fetches, SendFetch(i) \/ FetchDone(i)
      PROVE  IInv'
    BY <1>1, SendFetchInv, FetchDoneInv
<1>2. ASSUME NEW c \in Calls,
             handleSwap(c) \/ SwapFails(c) \/ Build(c) \/ SendTransaction(c)
      PROVE  IInv'
    BY <1>2, HandleSwapInv, SwapFailsInv, BuildInv, SendTransactionInv
<1>3. ASSUME NEW t \in DOMAIN txs, Mine(t) \/ Record(t)
      PROVE  IInv'
    BY <1>3, MineInv, RecordInv
<1> QED BY <1>1, <1>2, <1>3, EditsInv, ConfirmInv, OtherInv DEF Next

\* The page opens with an empty form, no quote and nothing sent.
LEMMA InitInv == Init => IInv
<1> SUFFICES ASSUME Init PROVE IInv
    OBVIOUS
<1> USE SwapPageAssumption DEF Init
<1>1. PageTypes
    BY DEF PageTypes, FetchStates
<1>2. SwapTypes
  <2>1. Len(txs) = 0 /\ txs \in Seq(Transactions)
    BY DEF Transactions
  <2>2. posts \in [1 .. MaxTx -> 0 .. 2]
    OBVIOUS
  <2> QED BY <2>1, <2>2 DEF SwapTypes, CallStates
<1>3. FetchesCurrent /\ QuoteCurrent
    BY DEF FetchesCurrent, QuoteCurrent, isQuoteValid, None
<1>4. PressesSound /\ OneUnderWay /\ Unreported /\ RecordedOnce
  <2>1. DOMAIN txs = {} /\ Len(txs) = 0
    OBVIOUS
  <2> QED BY <2>1 DEF PressesSound, OneUnderWay, Unreported, RecordedOnce
<1> QED BY <1>1, <1>2, <1>3, <1>4, Types DEF IInv

\* The inductive invariant holds in every behaviour of the page.
THEOREM Invariance == Spec => []IInv
<1> QED BY InitInv, NextInv, PTL DEF Spec

\* No interleaving of clicks, edits, answers and failures has two runs of
\* handleSwap under way, or one while a transaction is pending.
THEOREM OneSwapAlways == Spec => []OneSwapAtATime
<1>1. IInv => OneSwapAtATime
  <2> SUFFICES ASSUME IInv PROVE OneSwapAtATime
    OBVIOUS
  <2> DEFINE under == {c \in Calls : calls[c] # None}
  <2>1. \A c, d \in under : c = d
    BY DEF IInv, OneUnderWay
  <2>2. Cardinality(under) <= 1
    <3> HIDE DEF under
    <3>1. CASE under = {}
      <4>1. Cardinality(under) = 0
        BY <3>1, FS_EmptySet
      <4> QED BY <4>1
    <3>2. CASE under # {}
      <4>1. PICK c : under = {c}
        BY <2>1, <3>2
      <4>2. Cardinality(under) = 1
        BY <4>1, FS_Singleton
      <4> QED BY <4>2
    <3> QED BY <3>1, <3>2
  <2>3. \A c \in Calls, t \in DOMAIN txs : calls[c] # None => txs[t].status # "pending"
    BY DEF IInv, OneUnderWay
  <2> QED BY <2>2, <2>3 DEF OneSwapAtATime
<1> QED BY <1>1, Invariance, PTL

\* However often the effect runs and the API answers, a swap is reported once
\* at most, and only one that went through.
THEOREM RecordedAtMostOnce == Spec => []RecordedOnce
<1>1. IInv => RecordedOnce
    BY DEF IInv
<1> QED BY <1>1, Invariance, PTL

\* A mined swap is the quote that was on the page when the button was pressed, for
\* the tokens of that moment and the digits of its amount read as base units, and
\* paid within the slippage of it, at every rate and amount.
THEOREM ExecutedAsPressed == Spec => []ExecutedAsQuoted
<1>1. IInv => ExecutedAsQuoted
  <2> SUFFICES ASSUME IInv, NEW t \in DOMAIN txs, txs[t].status = "ok"
               PROVE  LET seen == txs[t].press IN
                      /\ txs[t].data.tokens = seen.form.tokens
                      /\ txs[t].data.amount = seen.quote.amountIn
                      /\ Parts * txs[t].data.amount = seen.form.amount
                      /\ 10 * txs[t].received >= (10 - seen.form.slip) * seen.quote.amountOut
    BY DEF ExecutedAsQuoted
  <2> DEFINE q == txs[t].press.quote
  <2>1. /\ q \in Quotes /\ q.form = txs[t].press.form /\ txs[t].data = buildCalldata(q)
        /\ txs[t].received >= txs[t].data.minAmountOut /\ txs[t].received \in Int
    BY Facts DEF TxSound, PressSound, Transactions
  <2>2. /\ \A n \in Int : n >= q.minAmountOut => 10 * n >= (10 - q.form.slip) * q.amountOut
        /\ Parts * q.amountIn = q.form.amount
    BY <2>1, QuoteFacts
  <2>3. /\ txs[t].data.tokens = q.form.tokens /\ txs[t].data.amount = q.amountIn
        /\ txs[t].data.minAmountOut = q.minAmountOut
    BY <2>1 DEF buildCalldata
  <2> QED BY <2>1, <2>2, <2>3
<1> QED BY <1>1, Invariance, PTL

-----------------------------------------------------------------------------
\* PoolCreation: induction on data, Newton's iteration and the encoded price.

\* A set of naturals that is not empty has a least element.
LEMMA NatLeast == ASSUME NEW T \in SUBSET Nat, T # {} PROVE \E n \in T : \A m \in T : n <= m
<1>1. PICK x \in T : \A y \in T : ~ (<<y, x>> \in OpToRel(<, Nat))
  BY NatLessThanWellFounded, WFMin
<1>2. \A y \in T : ~ (y < x)
  BY <1>1 DEF OpToRel
<1> QED BY <1>2

\* Induction without an operator parameter: a set of naturals with 0 and the successors
\* of its members is Nat.
LEMMA SetInduction ==
    ASSUME NEW T \in SUBSET Nat, 0 \in T, \A n \in T : n + 1 \in T
    PROVE  T = Nat
<1> SUFFICES ASSUME Nat \ T # {} PROVE FALSE
  OBVIOUS
<1>1. PICK n \in Nat \ T : \A m \in Nat \ T : n <= m
  BY NatLeast
<1>2. n # 0 /\ n - 1 \in Nat /\ n - 1 \in T /\ n - 1 + 1 = n
  BY <1>1
<1> QED BY <1>1, <1>2

\* The next guess.
NextGuess(price, guess) == (guess + price \div guess) \div 2

\* Where Newton's iteration ends from every guess up to one.
IsDescent(f, price, most) ==
    f = [guess \in 1 .. most |-> IF NextGuess(price, guess) < guess
                                 THEN f[NextGuess(price, guess)] ELSE guess]

\* The next guess is positive, is not below the root, and does not descend only from a
\* guess whose square is within the price.
LEMMA GuessFacts ==
    ASSUME NEW price \in Nat \ {0}, NEW guess \in Nat \ {0}
    PROVE  /\ NextGuess(price, guess) \in Nat \ {0}
           /\ NextGuess(price, guess) >= guess => guess * guess <= price
           /\ (NextGuess(price, guess) + 1) * (NextGuess(price, guess) + 1) > price
<1> DEFINE q == price \div guess
           n == NextGuess(price, guess)
<1>1. q \in Nat /\ q * guess <= price /\ price < (q + 1) * guess
  OBVIOUS
<1>2. n = (guess + q) \div 2
  BY DEF NextGuess
<1> HIDE DEF n, q
<1>3. n \in Nat /\ 2 * n <= guess + q /\ 2 * n + 1 >= guess + q
  BY <1>1, <1>2
<1>4. guess = 1 => q >= 1
  BY <1>1
<1>5. n # 0
  BY <1>1, <1>3, <1>4
<1>6. ASSUME n >= guess PROVE guess * guess <= price
  <2>1. q >= guess
    BY <1>1, <1>3, <1>6
  <2>2. q * guess >= guess * guess
    BY <1>1, <2>1
  <2>3. guess * guess \in Nat /\ q * guess \in Nat
    BY <1>1
  <2> QED BY <1>1, <2>2, <2>3
<1>7. (n + 1) * (n + 1) > price
  <2> DEFINE a == q + 1
             b == n + 1
             d == a - guess
  <2>1. a \in Nat /\ b \in Nat /\ d \in Int /\ 2 * b >= guess + a /\ price < a * guess
    BY <1>1, <1>3
  <2>2. (2 * b) * (2 * b) >= (guess + a) * (guess + a)
    <3> DEFINE x == 2 * b
               y == guess + a
    <3>1. x \in Nat /\ y \in Nat /\ x >= y
      BY <2>1
    <3> HIDE DEF x, y
    <3>2. x * x >= x * y /\ x * y >= y * y
      BY <3>1
    <3>3. x * x \in Nat /\ x * y \in Nat /\ y * y \in Nat
      BY <3>1
    <3>4. x * x >= y * y
      BY <3>2, <3>3
    <3> QED BY <3>4 DEF x, y
  <2>3. d * d >= 0
    BY <2>1
  <2>4. (guess + a) * (guess + a) = d * d + 4 * (a * guess)
    <3> HIDE DEF a
    <3> QED BY <2>1
  <2>5. (2 * b) * (2 * b) = 4 * (b * b)
    <3> HIDE DEF b
    <3> QED BY <2>1
  <2>6. a * guess \in Nat /\ b * b \in Nat /\ d * d \in Int
    BY <2>1
  <2>7. b * b > price
    <3> DEFINE ag == a * guess
               bb == b * b
               dd == d * d
    <3>1. 4 * bb >= dd + 4 * ag /\ dd >= 0 /\ price < ag /\ ag \in Nat /\ bb \in Nat /\ dd \in Int
      BY <2>1, <2>2, <2>3, <2>4, <2>5, <2>6
    <3> HIDE DEF ag, bb, dd
    <3>2. bb > price
      BY <3>1
    <3> QED BY <3>2 DEF bb
  <2> QED BY <2>7
<1>8. /\ n \in Nat \ {0} /\ (n >= guess => guess * guess <= price) /\ (n + 1) * (n + 1) > price
  BY <1>3, <1>5, <1>6, <1>7
<1> QED BY <1>8 DEF n

\* The recursive text of the iteration defines a function: it asks for lesser guesses only.
LEMMA DescentExists ==
    ASSUME NEW price \in Nat \ {0}, NEW most \in Nat
    PROVE  \E f : IsDescent(f, price, most)
<1> DEFINE T == {m \in Nat : \E f : IsDescent(f, price, m)}
<1>1. 0 \in T
  <2>1. IsDescent([guess \in 1 .. 0 |-> 0], price, 0)
    BY DEF IsDescent
  <2> QED BY <2>1
<1>2. ASSUME NEW m \in T PROVE m + 1 \in T
  <2>1. PICK f : IsDescent(f, price, m)
    OBVIOUS
  <2> DEFINE Step(guess) == IF NextGuess(price, guess) < guess
                            THEN f[NextGuess(price, guess)] ELSE guess
             g == [guess \in 1 .. m + 1 |-> Step(guess)]
  <2>2. \A guess \in 1 .. m : f[guess] = Step(guess)
    BY <2>1 DEF IsDescent
  <2>3. \A guess \in 1 .. m + 1 : NextGuess(price, guess) < guess => NextGuess(price, guess) \in 1 .. m
    <3>1. TAKE guess \in 1 .. m + 1
    <3>2. guess \in Nat \ {0}
      OBVIOUS
    <3>3. NextGuess(price, guess) \in Nat \ {0}
      BY <3>2, GuessFacts
    <3> QED BY <3>2, <3>3
  <2>4. \A guess \in 1 .. m : g[guess] = f[guess]
    BY <2>2
  <2>5. \A guess \in 1 .. m + 1 :
           g[guess] = IF NextGuess(price, guess) < guess THEN g[NextGuess(price, guess)] ELSE guess
    <3> HIDE DEF g
    <3>1. \A guess \in 1 .. m + 1 : g[guess] = Step(guess)
      BY DEF g
    <3> QED BY <2>3, <2>4, <3>1
  <2>6. g = [guess \in 1 .. m + 1 |->
               IF NextGuess(price, guess) < guess THEN g[NextGuess(price, guess)] ELSE guess]
    <3>1. DOMAIN g = 1 .. m + 1 /\ g = [guess \in 1 .. m + 1 |-> g[guess]]
      OBVIOUS
    <3> HIDE DEF g
    <3> QED BY <2>5, <3>1
  <2>7. IsDescent(g, price, m + 1)
    <3> HIDE DEF g
    <3> QED BY <2>6 DEF IsDescent
  <2> QED BY <2>7
<1>3. T = Nat
  <2> HIDE DEF T
  <2>1. T \in SUBSET Nat
    BY DEF T
  <2> QED BY <1>1, <1>2, <2>1, SetInduction
<1> QED BY <1>3

\* The integer square root.
IsRoot(root, price) ==
    root \in Nat /\ root * root <= price /\ price < (root + 1) * (root + 1)

\* Newton's iteration from a guess that is not below the root ends in the root.
LEMMA DescentToRoot ==
    ASSUME NEW price \in Nat \ {0}, NEW f, IsDescent(f, price, price)
    PROVE  \A guess \in 1 .. price : (guess + 1) * (guess + 1) > price => IsRoot(f[guess], price)
<1> DEFINE Bad == {guess \in 1 .. price : (guess + 1) * (guess + 1) > price /\ ~ IsRoot(f[guess], price)}
<1> SUFFICES ASSUME Bad # {} PROVE FALSE
  OBVIOUS
<1>1. Bad \in SUBSET Nat
  OBVIOUS
<1>2. PICK guess \in Bad : \A m \in Bad : guess <= m
  <2> HIDE DEF Bad
  <2> QED BY <1>1, NatLeast
<1> DEFINE n == NextGuess(price, guess)
<1>3. guess \in 1 .. price /\ (guess + 1) * (guess + 1) > price /\ ~ IsRoot(f[guess], price)
  OBVIOUS
<1>4. n \in Nat \ {0} /\ (n >= guess => guess * guess <= price) /\ (n + 1) * (n + 1) > price
  <2>1. guess \in Nat \ {0}
    BY <1>3
  <2> HIDE DEF Bad
  <2> QED BY <2>1, GuessFacts
<1>5. f[guess] = IF n < guess THEN f[n] ELSE guess
  BY <1>3 DEF IsDescent
<1> HIDE DEF n
<1>6. CASE n < guess
  <2>1. n \in 1 .. price
    BY <1>3, <1>4, <1>6
  <2>2. n \in Bad
    BY <1>3, <1>4, <1>5, <1>6, <2>1
  <2> HIDE DEF Bad
  <2> QED BY <1>1, <1>2, <1>4, <1>6, <2>2
<1>7. CASE ~ (n < guess)
  <2>1. guess * guess <= price /\ f[guess] = guess
    BY <1>3, <1>4, <1>5, <1>7
  <2> QED BY <1>3, <2>1 DEF IsRoot
<1> QED BY <1>6, <1>7

\* integerSqrt is the integer square root.
LEMMA SqrtIsRoot == ASSUME NEW price \in Nat \ {0} PROVE IsRoot(PC!integerSqrt(price), price)
<1> DEFINE f == CHOOSE g : g = [guess \in 1 .. price |->
                                  IF (guess + price \div guess) \div 2 < guess
                                  THEN g[(guess + price \div guess) \div 2] ELSE guess]
<1>1. PC!integerSqrt(price) = f[price]
  BY Zenon DEF PC!integerSqrt
<1>2. \E g : g = [guess \in 1 .. price |->
                    IF (guess + price \div guess) \div 2 < guess
                    THEN g[(guess + price \div guess) \div 2] ELSE guess]
  BY DescentExists DEF IsDescent, NextGuess
<1>3. f = [guess \in 1 .. price |-> IF (guess + price \div guess) \div 2 < guess
                                    THEN f[(guess + price \div guess) \div 2] ELSE guess]
  BY <1>2, Zenon
<1> HIDE DEF f
<1>4. IsDescent(f, price, price)
  BY <1>3 DEF IsDescent, NextGuess
<1>5. (price + 1) * (price + 1) > price
  BY Z3
<1> QED BY <1>1, <1>4, <1>5, DescentToRoot

\* The form holds what may be typed into it.
FormTyped == creation \in PC!Forms

\* A form that passes has the root of its price encoded.
LEMMA RootEncoded ==
    ASSUME PriceConstants, FormTyped PROVE PC!PriceEncoded
<1> DEFINE price == creation.price
           s == PC!sqrtPriceX96(creation)
           root == PC!integerSqrt(price)
<1> SUFFICES ASSUME PC!canPrepare
             PROVE  /\ 0 < s /\ s <= MaxSqrt
                    /\ creation.kind = "price" =>
                          \E r \in 0 .. price :
                             /\ r * r <= price /\ price < (r + 1) * (r + 1)
                             /\ s * Scale <= r * Q /\ r * Q < (s + 1) * Scale
  BY DEF PC!PriceEncoded
<1>1. price > 0 /\ s \in 1 .. MaxSqrt
  BY DEF PC!canPrepare, PC!validatePoolCreationForm, PC!priceValid
<1>2. price \in Nat \ {0}
  <2>1. price \in Prices
    BY DEF FormTyped, PC!Forms
  <2>2. \A p \in Prices : p \in Nat
    BY DEF PriceConstants
  <2> HIDE DEF price
  <2> QED BY <1>1, <2>1, <2>2
<1>3. 0 < s /\ s <= MaxSqrt /\ s \in Nat
  BY <1>1 DEF PriceConstants
<1>4. IsRoot(root, price)
  BY <1>2, SqrtIsRoot
<1>5. root \in 0 .. price
  <2> HIDE DEF root, price
  <2>1. root \in Nat /\ root * root <= price
    BY <1>4 DEF IsRoot
  <2>2. root <= root * root
    BY <2>1
  <2> QED BY <1>2, <2>1, <2>2
<1>6. ASSUME creation.kind = "price" PROVE s * Scale <= root * Q /\ root * Q < (s + 1) * Scale
  <2>1. s = (root * Q) \div Scale
    BY <1>6 DEF PC!sqrtPriceX96, PC!decimalToSqrtPriceX96
  <2> DEFINE top == root * Q
  <2>2. top \in Nat /\ Scale \in Nat \ {0}
    <3>1. root \in Nat /\ Q \in Nat
      BY <1>5, <1>2 DEF PriceConstants
    <3> HIDE DEF root
    <3> QED BY <3>1 DEF PriceConstants
  <2> HIDE DEF top, s
  <2>3. s = top \div Scale
    BY <2>1 DEF top
  <2>4. s * Scale <= top /\ top < (s + 1) * Scale
    BY <2>2, <2>3
  <2> QED BY <2>4 DEF top
<1> HIDE DEF s, root, price
<1>7. creation.kind = "price" =>
         \E r \in 0 .. price :
            /\ r * r <= price /\ price < (r + 1) * (r + 1)
            /\ s * Scale <= r * Q /\ r * Q < (s + 1) * Scale
  BY <1>4, <1>5, <1>6 DEF IsRoot
<1> QED BY <1>3, <1>7

\* What the button of pools.new lets pass is the price as the pool will read it, for
\* every price, scale and bound: integerSqrt and decimalToSqrtPriceX96 are exact.
THEOREM PricesEncoded == ASSUME PriceConstants PROVE PC!Spec => []PriceEncoded
<1>1. PC!Init => FormTyped
  BY DEF PC!Init, FormTyped
<1>2. FormTyped /\ [PC!Next]_PC!vars => FormTyped'
  <2>1. ASSUME FormTyped, NEW v \in PC!Forms, PC!update(v) PROVE FormTyped'
    BY <2>1 DEF FormTyped, PC!update
  <2>2. ASSUME FormTyped, NEW p \in Prices, NEW k \in {"price", "sqrtPriceX96"},
               PC!setPrice([kind |-> k, price |-> p])
        PROVE  FormTyped'
    <3>1. creation' = [creation EXCEPT !.kind = k, !.price = p]
      BY <2>2 DEF PC!setPrice
    <3> QED BY <2>2, <3>1 DEF FormTyped, PC!Forms
  <2>3. CASE FormTyped /\ \/ PC!submit \/ PC!setRecheckAcknowledged \/ PC!Wallet \/ PC!Tick
                          \/ UNCHANGED PC!vars
    BY <2>3 DEF FormTyped, PC!submit, PC!setRecheckAcknowledged, PC!Wallet, PC!Tick, PC!vars
  <2> QED BY <2>1, <2>2, <2>3 DEF PC!Next
<1>3. ASSUME FormTyped PROVE PriceEncoded
  BY <1>3, RootEncoded DEF PriceEncoded
<1> QED BY <1>1, <1>2, <1>3, PTL DEF PC!Spec

-----------------------------------------------------------------------------
\* QuoteEngine.

\* One range further, or not.
OneStep(net, dir, s) == IF QE!Ends(net, dir, s) THEN s ELSE QE!UseUp(net, dir, s)

\* A swap that goes on for up to so many ranges.
IsWalk(f, net, dir, start, most) ==
    f = [n \in 0 .. most |-> IF n = 0 THEN start ELSE OneStep(net, dir, f[n - 1])]

\* The recursive text of a walk defines a function.
LEMMA WalkExists ==
    ASSUME NEW net, NEW dir, NEW start, NEW most \in Nat
    PROVE  \E f : IsWalk(f, net, dir, start, most)
<1> DEFINE T == {m \in Nat : \E f : IsWalk(f, net, dir, start, m)}
<1>1. 0 \in T
  <2>1. IsWalk([n \in 0 .. 0 |-> start], net, dir, start, 0)
    BY DEF IsWalk
  <2> QED BY <2>1
<1>2. ASSUME NEW m \in T PROVE m + 1 \in T
  <2>1. PICK f : IsWalk(f, net, dir, start, m)
    OBVIOUS
  <2> DEFINE g == [n \in 0 .. m + 1 |-> IF n = 0 THEN start ELSE OneStep(net, dir, f[n - 1])]
  <2>2. \A n \in 0 .. m : g[n] = f[n]
    <3>1. \A n \in 0 .. m : f[n] = IF n = 0 THEN start ELSE OneStep(net, dir, f[n - 1])
      BY <2>1 DEF IsWalk
    <3> QED BY <3>1
  <2>3. g = [n \in 0 .. m + 1 |-> IF n = 0 THEN start ELSE OneStep(net, dir, g[n - 1])]
    <3>1. \A n \in 0 .. m + 1 : n = 0 \/ n - 1 \in 0 .. m
      OBVIOUS
    <3>2. \A n \in 0 .. m + 1 : n = 0 \/ g[n - 1] = f[n - 1]
      BY <2>2, <3>1
    <3> QED BY <3>2
  <2>4. IsWalk(g, net, dir, start, m + 1)
    <3> HIDE DEF g
    <3> QED BY <2>3 DEF IsWalk
  <2> QED BY <2>4
<1>3. T = Nat
  <2> HIDE DEF T
  <2>1. T \in SUBSET Nat
    BY DEF T
  <2> QED BY <1>1, <1>2, <2>1, SetInduction
<1> QED BY <1>3

\* A swap before its first range.
Start(slot, amountIn) ==
    [left |-> amountIn, amountOut |-> 0, tick |-> slot.tick, liquidity |-> slot.liquidity]

\* What a swap answers when it has come to this.
Outcome(net, dir, last) ==
    IF QE!Here(dir, last) \in QE!TickRange /\ last.left # 0
    THEN [amountOut |-> last.amountOut + last.left * QE!Pays(dir, QE!Here(dir, last)),
          tickAfter |-> QE!Here(dir, last)]
    ELSE [amountOut |-> last.amountOut,
          tickAfter |-> IF QE!Here(dir, last) \notin QE!TickRange \/ (dir = "down" /\ net[last.tick] # 0)
                        THEN QE!Here(dir, last) ELSE last.tick]

\* Swap is where a walk ends.
LEMMA SwapIsWalk ==
    ASSUME QuoteConstants, NEW slot, NEW net, NEW dir, NEW amountIn
    PROVE  \E f : /\ IsWalk(f, net, dir, Start(slot, amountIn), Ticks)
                  /\ QE!Swap(slot, net, dir, amountIn) = Outcome(net, dir, f[Ticks])
<1> DEFINE start == Start(slot, amountIn)
           f == CHOOSE g : g = [n \in 0 .. Ticks |->
                   IF n = 0 THEN start
                   ELSE IF QE!Ends(net, dir, g[n - 1]) THEN g[n - 1] ELSE QE!UseUp(net, dir, g[n - 1])]
<1>1. QE!Swap(slot, net, dir, amountIn) = Outcome(net, dir, f[Ticks])
  BY Zenon DEF QE!Swap, Outcome, Start
<1>2. \E g : g = [n \in 0 .. Ticks |->
                   IF n = 0 THEN start
                   ELSE IF QE!Ends(net, dir, g[n - 1]) THEN g[n - 1] ELSE QE!UseUp(net, dir, g[n - 1])]
  <2> HIDE DEF start
  <2>1. Ticks \in Nat
    BY DEF QuoteConstants
  <2>2. PICK g : IsWalk(g, net, dir, start, Ticks)
    BY <2>1, WalkExists
  <2> QED BY <2>2, Zenon DEF IsWalk, OneStep
<1>3. f = [n \in 0 .. Ticks |->
                   IF n = 0 THEN start
                   ELSE IF QE!Ends(net, dir, f[n - 1]) THEN f[n - 1] ELSE QE!UseUp(net, dir, f[n - 1])]
  BY <1>2, Zenon
<1> HIDE DEF f
<1>4. IsWalk(f, net, dir, start, Ticks)
  BY <1>3, Zenon DEF IsWalk, OneStep
<1> QED BY <1>1, <1>4

\* A walk begins at its start and goes on one step at a time.
LEMMA WalkSteps ==
    ASSUME NEW f, NEW net, NEW dir, NEW start, NEW most \in Nat, IsWalk(f, net, dir, start, most)
    PROVE  f[0] = start /\ \A n \in 0 .. most - 1 : f[n + 1] = OneStep(net, dir, f[n])
<1>1. \A n \in 0 .. most : f[n] = IF n = 0 THEN start ELSE OneStep(net, dir, f[n - 1])
  BY DEF IsWalk
<1>2. \A n \in 0 .. most - 1 : n + 1 \in 0 .. most /\ n + 1 # 0 /\ (n + 1) - 1 = n
  OBVIOUS
<1> QED BY <1>1, <1>2

\* A step stays in the range of prices, and goes one way.
LEMMA StepTick ==
    ASSUME QuoteConstants, NEW net, NEW dir \in {"up", "down"}, NEW s, s.tick \in 0 .. Ticks
    PROVE  /\ OneStep(net, dir, s).tick \in 0 .. Ticks
           /\ IF dir = "up" THEN OneStep(net, dir, s).tick >= s.tick
                            ELSE OneStep(net, dir, s).tick <= s.tick
<1>1. CASE QE!Ends(net, dir, s)
  BY <1>1 DEF OneStep, QuoteConstants
<1>2. CASE ~ QE!Ends(net, dir, s)
  <2>1. QE!Here(dir, s) \in 0 .. Ticks - 1
    BY <1>2 DEF QE!Ends, QE!TickRange
  <2>2. OneStep(net, dir, s).tick = IF dir = "up" THEN s.tick + 1 ELSE s.tick - 1
    BY <1>2 DEF OneStep, QE!UseUp
  <2> QED BY <2>1, <2>2 DEF QE!Here, QuoteConstants
<1> QED BY <1>1, <1>2

\* A step is the same by other net liquidity where that is the same.
LEMMA SameStep ==
    ASSUME QuoteConstants, NEW a, NEW b, NEW dir \in {"up", "down"}, NEW s, s.tick \in 0 .. Ticks,
           IF dir = "up" THEN s.tick < Ticks => a[s.tick + 1] = b[s.tick + 1]
                         ELSE a[s.tick] = b[s.tick]
    PROVE  OneStep(a, dir, s) = OneStep(b, dir, s)
<1>1. CASE dir = "down"
  <2>1. a[s.tick] = b[s.tick]
    BY <1>1
  <2>2. QE!InRange(a, dir, s) = QE!InRange(b, dir, s)
    BY <1>1, <2>1 DEF QE!InRange
  <2>3. QE!UseUp(a, dir, s) = QE!UseUp(b, dir, s)
    BY <1>1, <2>2 DEF QE!UseUp
  <2> QED BY <2>2, <2>3 DEF OneStep, QE!Ends
<1>2. CASE dir = "up"
  <2>1. QE!InRange(a, dir, s) = QE!InRange(b, dir, s)
    BY <1>2 DEF QE!InRange
  <2>2. QE!Ends(a, dir, s) <=> QE!Ends(b, dir, s)
    BY <2>1 DEF QE!Ends
  <2>3. ASSUME ~ QE!Ends(a, dir, s) PROVE QE!UseUp(a, dir, s) = QE!UseUp(b, dir, s)
    <3>1. s.tick \in 0 .. Ticks - 1
      BY <1>2, <2>3 DEF QE!Ends, QE!Here, QE!TickRange
    <3>2. a[s.tick + 1] = b[s.tick + 1]
      BY <1>2, <3>1 DEF QuoteConstants
    <3> QED BY <1>2, <2>1, <3>2 DEF QE!UseUp
  <2> QED BY <2>2, <2>3 DEF OneStep
<1> QED BY <1>1, <1>2

\* The nets agree from lo on, up to hi and up to last.
AgreeUpTo(a, b, last, lo, hi) ==
    \A t \in 0 .. Ticks : lo <= t /\ (t <= hi \/ t <= last) => a[t] = b[t]

\* The swap on two nets that agree from lo to hi and to where it starts.
LEMMA WalksAgree ==
    ASSUME QuoteConstants, NEW a, NEW b, NEW dir \in {"up", "down"}, NEW start,
           start.tick \in 0 .. Ticks, NEW lo \in Int, NEW hi \in Int,
           AgreeUpTo(a, b, start.tick, lo, hi), lo <= start.tick,
           NEW f, NEW g, IsWalk(f, a, dir, start, Ticks), IsWalk(g, b, dir, start, Ticks)
    PROVE  /\ f[Ticks].tick \in 0 .. Ticks
           /\ IF dir = "up" THEN f[Ticks].tick > hi \/ f[Ticks] = g[Ticks]
                            ELSE f[Ticks].tick < lo \/ (f[Ticks] = g[Ticks] /\ f[Ticks].tick <= start.tick)
<1> DEFINE Left(n) == IF dir = "up" THEN f[n].tick > hi ELSE f[n].tick < lo
           P(n) == /\ f[n].tick \in 0 .. Ticks
                   /\ IF dir = "up" THEN f[n].tick >= start.tick ELSE f[n].tick <= start.tick
                   /\ Left(n) \/ f[n] = g[n]
           T == {n \in Nat : n <= Ticks => P(n)}
<1>1. Ticks \in Nat
  BY DEF QuoteConstants
<1>2. f[0] = start /\ g[0] = start
      /\ \A n \in 0 .. Ticks - 1 : f[n + 1] = OneStep(a, dir, f[n]) /\ g[n + 1] = OneStep(b, dir, g[n])
  BY <1>1, WalkSteps
<1>3. 0 \in T
  BY <1>1, <1>2
<1>4. ASSUME NEW n \in T PROVE n + 1 \in T
  <2> SUFFICES ASSUME n + 1 <= Ticks PROVE P(n + 1)
    OBVIOUS
  <2>1. n \in 0 .. Ticks - 1 /\ P(n)
    BY <1>1
  <2>2. f[n + 1] = OneStep(a, dir, f[n]) /\ g[n + 1] = OneStep(b, dir, g[n])
    BY <1>2, <2>1
  <2>3. f[n].tick \in 0 .. Ticks
    BY <2>1
  <2>4. /\ f[n + 1].tick \in 0 .. Ticks
        /\ IF dir = "up" THEN f[n + 1].tick >= f[n].tick ELSE f[n + 1].tick <= f[n].tick
    BY <2>2, <2>3, StepTick
  <2>5. IF dir = "up" THEN f[n + 1].tick >= start.tick ELSE f[n + 1].tick <= start.tick
    BY <2>1, <2>3, <2>4, <1>1
  <2>6. Left(n + 1) \/ f[n + 1] = g[n + 1]
    <3>1. CASE Left(n)
      BY <3>1, <2>3, <2>4, <1>1
    <3>2. CASE ~ Left(n) /\ f[n] = g[n]
      <4>1. CASE dir = "down"
        <5>1. lo <= f[n].tick /\ f[n].tick <= start.tick
          BY <2>1, <2>3, <3>2, <4>1, <1>1
        <5>2. a[f[n].tick] = b[f[n].tick]
          BY <2>3, <5>1 DEF AgreeUpTo
        <5>3. OneStep(a, dir, f[n]) = OneStep(b, dir, f[n])
          BY <2>3, <4>1, <5>2, SameStep
        <5> QED BY <2>2, <3>2, <5>3
      <4>2. CASE dir = "up"
        <5>1. CASE f[n].tick + 1 <= hi \/ f[n].tick = Ticks
          <6>1. f[n].tick < Ticks => a[f[n].tick + 1] = b[f[n].tick + 1]
            BY <1>1, <2>1, <2>3, <4>2, <5>1 DEF AgreeUpTo
          <6>2. OneStep(a, dir, f[n]) = OneStep(b, dir, f[n])
            BY <2>3, <4>2, <6>1, SameStep
          <6> QED BY <2>2, <3>2, <6>2
        <5>2. CASE ~ (f[n].tick + 1 <= hi)
          <6>1. CASE QE!Ends(a, dir, f[n])
            <7>1. QE!Ends(b, dir, f[n])
              BY <4>2, <6>1 DEF QE!Ends, QE!InRange
            <7> QED BY <2>2, <3>2, <6>1, <7>1 DEF OneStep
          <6>2. CASE ~ QE!Ends(a, dir, f[n])
            <7>1. f[n + 1].tick = f[n].tick + 1
              BY <2>2, <4>2, <6>2 DEF OneStep, QE!UseUp
            <7> QED BY <2>3, <4>2, <5>2, <7>1
          <6> QED BY <6>1, <6>2
        <5> QED BY <5>1, <5>2
      <4> QED BY <4>1, <4>2
    <3> QED BY <2>1, <3>1, <3>2
  <2> QED BY <2>4, <2>5, <2>6
<1>5. T = Nat
  <2> HIDE DEF T
  <2>1. T \in SUBSET Nat
    BY DEF T
  <2> QED BY <1>3, <1>4, <2>1, SetInduction
<1>6. P(Ticks)
  BY <1>1, <1>5
<1> QED BY <1>6

\* The ticks that were asked for are the ones that may change the liquidity in the window.
LEMMA WindowRead ==
    ASSUME QuoteConstants, NEW state \in QE!PoolStates, NEW at \in 0 .. Ticks,
           NEW t \in 0 .. Ticks,
           QE!Anchor(at) - Scan * Spacing <= t,
           t <= QE!Anchor(at) + Scan * Spacing \/ t <= at
    PROVE  (IF t \in QE!Candidates(at) THEN QE!NetAt(state, t) ELSE 0) = QE!NetAt(state, t)
<1>1. CASE t % Spacing = 0
  <2> DEFINE m == t \div Spacing
             a == at \div Spacing
             k == m - a
  <2>1. m \in Int /\ a \in Int /\ t = m * Spacing /\ at >= a * Spacing /\ at < (a + 1) * Spacing
    BY <1>1 DEF QuoteConstants
  <2>2. a * Spacing - Scan * Spacing <= m * Spacing
        /\ (m * Spacing <= a * Spacing + Scan * Spacing \/ m * Spacing < (a + 1) * Spacing)
    <3> HIDE DEF m, a
    <3>1. QE!Anchor(at) = a * Spacing
      BY DEF QE!Anchor, a
    <3> QED BY <2>1, <3>1 DEF QuoteConstants
  <2>3. m >= a - Scan
    <3> SUFFICES ASSUME m + 1 <= a - Scan PROVE FALSE
      BY <2>1 DEF QuoteConstants
    <3> HIDE DEF m, a
    <3>1. (m + 1) * Spacing <= (a - Scan) * Spacing
      BY <2>1 DEF QuoteConstants
    <3>2. (m + 1) * Spacing = m * Spacing + Spacing /\ (a - Scan) * Spacing = a * Spacing - Scan * Spacing
      BY <2>1 DEF QuoteConstants
    <3>3. m * Spacing \in Int /\ a * Spacing \in Int /\ Scan * Spacing \in Int /\ Spacing \in Nat \ {0}
      BY <2>1 DEF QuoteConstants
    <3> QED BY <2>2, <3>1, <3>2, <3>3
  <2>4. m <= a + Scan
    <3> SUFFICES ASSUME m >= a + Scan + 1 PROVE FALSE
      BY <2>1 DEF QuoteConstants
    <3> HIDE DEF m, a
    <3>1. m * Spacing >= (a + Scan + 1) * Spacing /\ m * Spacing >= (a + 1) * Spacing
      BY <2>1 DEF QuoteConstants
    <3>2. (a + Scan + 1) * Spacing = a * Spacing + Scan * Spacing + Spacing
          /\ (a + 1) * Spacing = a * Spacing + Spacing
      BY <2>1 DEF QuoteConstants
    <3>3. m * Spacing \in Int /\ a * Spacing \in Int /\ Scan * Spacing \in Int /\ Spacing \in Nat \ {0}
      BY <2>1 DEF QuoteConstants
    <3> QED BY <2>2, <3>1, <3>2, <3>3
  <2>5. k \in -Scan .. Scan
    <3> HIDE DEF m, a
    <3> QED BY <2>1, <2>3, <2>4 DEF QuoteConstants
  <2>6. t = a * Spacing + k * Spacing
    <3> HIDE DEF m, a
    <3> QED BY <2>1 DEF QuoteConstants
  <2>7. QE!Anchor(at) + k * Spacing = t
    BY <2>6 DEF QE!Anchor
  <2>8. t \in QE!Candidates(at)
    <3> HIDE DEF k
    <3> QED BY <2>5, <2>7 DEF QE!Candidates
  <2> QED BY <2>8
<1>2. CASE t % Spacing # 0
  <2>1. state.positions \in SUBSET Positions
    BY DEF QE!PoolStates
  <2>2. {p \in state.positions : p.lo = t} = {} /\ {p \in state.positions : p.hi = t} = {}
    BY <1>2, <2>1 DEF QuoteConstants
  <2>3. \A S : QE!Cardinality(S) = Cardinality(S)
    BY Zenon DEF QE!Cardinality, Cardinality, QE!IsFiniteSet, IsFiniteSet
  <2>4. QE!Cardinality({}) = 0
    BY <2>3, FS_EmptySet
  <2>5. QE!NetAt(state, t) = QE!Cardinality({}) - QE!Cardinality({})
    BY <2>2, Zenon DEF QE!NetAt
  <2> QED BY <2>4, <2>5
<1> QED BY <1>1, <1>2

\* A simulation that ends in the window pays what all of the ticks would.
LEMMA ReadIsEnough ==
    ASSUME QuoteConstants, NEW state \in QE!PoolStates, NEW dir \in QE!Dirs, NEW amountIn,
           NEW read, read = [t \in 0 .. Ticks |->
                               IF t \in QE!Candidates(state.tick) THEN QE!NetAt(state, t) ELSE 0],
           QE!InWindow(state.tick, QE!Swap(QE!SlotOf(state), read, dir, amountIn).tickAfter)
    PROVE  QE!Swap(QE!SlotOf(state), read, dir, amountIn).amountOut
              = QE!InPool(state, dir, amountIn).amountOut
<1> DEFINE at == state.tick
           every == QE!NetOf(state)
           start == Start(QE!SlotOf(state), amountIn)
           lo == QE!Anchor(at) - Scan * Spacing
           hi == QE!Anchor(at) + Scan * Spacing
<1>1. at \in 0 .. Ticks /\ dir \in {"up", "down"}
  <2>1. at \in 0 .. Ticks - 1
    BY DEF QE!PoolStates, QE!TickRange
  <2> QED BY <2>1 DEF QE!Dirs, QuoteConstants
<1>2. start.tick = at
  BY DEF Start, QE!SlotOf
<1>3. lo \in Int /\ hi \in Int /\ lo <= at
  <2>1. Scan * Spacing \in Nat
    BY DEF QuoteConstants
  <2>2. QE!Anchor(at) \in Int /\ QE!Anchor(at) <= at
    BY <1>1 DEF QE!Anchor, QuoteConstants
  <2> QED BY <1>1, <2>1, <2>2
<1>4. AgreeUpTo(read, every, start.tick, lo, hi)
  <2> SUFFICES \A t \in 0 .. Ticks : lo <= t /\ (t <= hi \/ t <= start.tick) => read[t] = every[t]
    BY DEF AgreeUpTo
  <2> TAKE t \in 0 .. Ticks
  <2> HAVE lo <= t /\ (t <= hi \/ t <= start.tick)
  <2>1. (IF t \in QE!Candidates(at) THEN QE!NetAt(state, t) ELSE 0) = QE!NetAt(state, t)
    BY <1>1, <1>2, WindowRead
  <2> QED BY <2>1 DEF QE!NetOf
<1>5. PICK f : /\ IsWalk(f, read, dir, start, Ticks)
               /\ QE!Swap(QE!SlotOf(state), read, dir, amountIn) = Outcome(read, dir, f[Ticks])
  BY SwapIsWalk
<1>6. PICK g : /\ IsWalk(g, every, dir, start, Ticks)
               /\ QE!Swap(QE!SlotOf(state), every, dir, amountIn) = Outcome(every, dir, g[Ticks])
  BY SwapIsWalk
<1> HIDE DEF start, lo, hi, every
<1>7. /\ f[Ticks].tick \in 0 .. Ticks
      /\ IF dir = "up" THEN f[Ticks].tick > hi \/ f[Ticks] = g[Ticks]
                       ELSE f[Ticks].tick < lo \/ (f[Ticks] = g[Ticks] /\ f[Ticks].tick <= start.tick)
  <2>1. start.tick \in 0 .. Ticks /\ lo <= start.tick
    BY <1>1, <1>2, <1>3
  <2> QED BY <1>1, <1>3, <1>4, <1>5, <1>6, <2>1, WalksAgree
<1>8. lo <= Outcome(read, dir, f[Ticks]).tickAfter /\ Outcome(read, dir, f[Ticks]).tickAfter <= hi
  BY <1>5 DEF QE!InWindow, lo, hi
<1>9. f[Ticks] = g[Ticks]
  <2>1. Outcome(read, dir, f[Ticks]).tickAfter
          \in {QE!Here(dir, f[Ticks]), f[Ticks].tick}
    BY DEF Outcome
  <2>2. CASE dir = "up"
    BY <1>1, <1>3, <1>7, <1>8, <2>1, <2>2 DEF QE!Here, QuoteConstants
  <2>3. CASE dir = "down"
    BY <1>1, <1>3, <1>7, <1>8, <2>1, <2>3 DEF QE!Here, QuoteConstants
  <2> QED BY <1>1, <2>2, <2>3
<1>10. Outcome(read, dir, f[Ticks]).amountOut = Outcome(every, dir, g[Ticks]).amountOut
  BY <1>9 DEF Outcome
<1>11. QE!InPool(state, dir, amountIn) = Outcome(every, dir, g[Ticks])
  BY <1>6 DEF QE!InPool, every
<1> QED BY <1>5, <1>10, <1>11

-----------------------------------------------------------------------------
\* A request, field by field.
Rec(stage, dir, amountIn, first, block, slot, source, amountOut) ==
    [stage |-> stage, dir |-> dir, amountIn |-> amountIn, first |-> first,
     block |-> block, slot |-> slot, source |-> source, amountOut |-> amountOut]

\* A request that is under way began at one of the blocks there are and keeps to one of them.
UnderWay ==
    /\ req = Rec(req.stage, req.dir, req.amountIn, req.first, req.block, req.slot, req.source,
                 req.amountOut)
    /\ req.stage \in {"legacy", "pin", "slot", "ticks", "v3", "done"}
    /\ req.dir \in QE!Dirs /\ req.amountIn \in 1 .. MaxQuoted /\ req.first \in 1 .. Len(chain)
    /\ req.stage \in {"slot", "ticks"} => req.block \in req.first .. Len(chain)
    /\ req.stage = "ticks" => req.slot = QE!SlotOf(chain[req.block])
    /\ req.stage = "legacy" => mode = "legacy" \/ (mode = "auto" /\ ~ configured)

\* The chain is never empty, a request under way is consistent, and answers are exact.
QuoteInv ==
    /\ chain \in Seq(QE!PoolStates) /\ chain # <<>>
    /\ req = QE!Idle \/ UnderWay
    /\ QE!QuoteExact

\* The engine starts with nothing asked.
LEMMA QuoteInitial == ASSUME QE!Init PROVE QuoteInv
  BY DEF QE!Init, QuoteInv, QE!Idle, QE!QuoteExact

\* A block more leaves what was quoted at an earlier one.
LEMMA BlockKeeps == ASSUME QuoteInv, QE!Block PROVE QuoteInv'
<1>1. PICK state \in QE!PoolStates : chain' = Append(chain, state)
  BY DEF QE!Block
<1>2. UNCHANGED <<mode, configured, req>>
  BY DEF QE!Block
<1>3. /\ chain' \in Seq(QE!PoolStates) /\ chain' # <<>> /\ Len(chain') = Len(chain) + 1
      /\ \A b \in 1 .. Len(chain) : chain'[b] = chain[b]
  BY <1>1, AppendProperties DEF QuoteInv
<1>4. Len(chain) \in Nat /\ \A n \in Nat : n .. Len(chain) \subseteq n .. Len(chain')
  BY <1>3, LenProperties DEF QuoteInv
<1>5. ASSUME UnderWay PROVE UnderWay'
  <2>1. req.first \in 1 .. Len(chain') /\ req.first \in Nat
    BY <1>3, <1>4, <1>5 DEF UnderWay
  <2>2. req.stage \in {"slot", "ticks"} =>
           /\ req.block \in req.first .. Len(chain') /\ chain'[req.block] = chain[req.block]
    BY <1>3, <1>4, <1>5, <2>1 DEF UnderWay
  <2> QED BY <1>2, <1>5, <2>1, <2>2 DEF UnderWay
<1>6. QE!QuoteExact'
  <2> SUFFICES ASSUME req.stage = "done"
               PROVE  /\ req.source \in {"v4", "v3"} =>
                            \E b \in req.first .. Len(chain') :
                               req.amountOut = QE!InPool(chain'[b], req.dir, req.amountIn).amountOut
                      /\ req.source = "legacy" => req.amountOut < req.amountIn
                      /\ req.source = "legacy" => mode = "legacy" \/ (mode = "auto" /\ ~ configured)
    BY <1>2 DEF QE!QuoteExact
  <2>1. UnderWay
    BY DEF QuoteInv, QE!Idle
  <2>2. req.first \in 1 .. Len(chain)
    BY <2>1 DEF UnderWay
  <2>3. QE!QuoteExact
    BY DEF QuoteInv
  <2>4. ASSUME req.source \in {"v4", "v3"}
        PROVE  \E b \in req.first .. Len(chain') :
                  req.amountOut = QE!InPool(chain'[b], req.dir, req.amountIn).amountOut
    <3>1. PICK b \in req.first .. Len(chain) :
             req.amountOut = QE!InPool(chain[b], req.dir, req.amountIn).amountOut
      BY <2>3, <2>4 DEF QE!QuoteExact
    <3>2. b \in 1 .. Len(chain) /\ b \in req.first .. Len(chain')
      BY <1>3, <1>4, <2>2
    <3>3. chain'[b] = chain[b]
      BY <1>3, <3>2
    <3> QED BY <3>1, <3>2, <3>3
  <2> QED BY <2>3, <2>4 DEF QE!QuoteExact
<1> QED BY <1>2, <1>3, <1>5, <1>6 DEF QuoteInv

\* What a step of a request comes to.
LEMMA RequestStep ==
    ASSUME QuoteInv, UNCHANGED <<mode, configured, chain>>, UnderWay', QE!QuoteExact'
    PROVE  QuoteInv'
  BY DEF QuoteInv

\* A request that fails promises nothing.
LEMMA FailKeeps ==
    ASSUME QuoteInv, UnderWay, QE!Fail, UNCHANGED <<mode, configured, chain>> PROVE QuoteInv'
<1>1. req' = Rec("done", req.dir, req.amountIn, req.first, req.block, req.slot, "error", req.amountOut)
  BY DEF QE!Fail, UnderWay, Rec
<1>2. UnderWay'
  BY <1>1 DEF UnderWay, Rec
<1>3. QE!QuoteExact'
  BY <1>1 DEF QE!QuoteExact, Rec
<1> QED BY <1>2, <1>3, RequestStep

\* A request begins at the latest block.
LEMMA OpenKeeps ==
    ASSUME QuoteInv, NEW dir \in QE!Dirs, NEW amountIn \in 1 .. MaxQuoted,
           NEW kind \in {"legacy", "pin", "v3"}, kind = "legacy" => mode = "legacy",
           req' = QE!Request(dir, amountIn, kind), UNCHANGED <<mode, configured, chain>>
    PROVE  QuoteInv'
<1>1. Len(chain) \in 1 .. Len(chain)
  BY EmptySeq, LenProperties DEF QuoteInv
<1>2. req' = Rec(kind, dir, amountIn, Len(chain), 0, [tick |-> 0, liquidity |-> 0], "none", 0)
  BY DEF QE!Request, Rec
<1>3. UnderWay'
  BY <1>1, <1>2 DEF UnderWay, Rec
<1>4. QE!QuoteExact'
  BY <1>2 DEF QE!QuoteExact, Rec
<1> QED BY <1>3, <1>4, RequestStep

\* quoteV4 names the latest block, or falls back when there is nothing to read.
LEMMA PinKeeps == ASSUME QuoteInv, QE!quoteV4 PROVE QuoteInv'
<1>1. UnderWay /\ UNCHANGED <<mode, configured, chain>> /\ req.stage = "pin"
  BY DEF QuoteInv, QE!quoteV4, QE!Idle
<1>2. CASE QE!Fail
  BY <1>1, <1>2, FailKeeps
<1>3. ASSUME req' = [req EXCEPT !.stage = "slot", !.block = Len(chain)] PROVE QuoteInv'
  <2>1. req' = Rec("slot", req.dir, req.amountIn, req.first, Len(chain), req.slot, req.source, req.amountOut)
    BY <1>1, <1>3 DEF UnderWay, Rec
  <2>2. Len(chain) \in req.first .. Len(chain)
    BY <1>1, LenProperties DEF UnderWay, QuoteInv
  <2>3. UnderWay'
    BY <1>1, <2>1, <2>2 DEF UnderWay, Rec
  <2>4. QE!QuoteExact'
    BY <2>1 DEF QE!QuoteExact, Rec
  <2> QED BY <1>1, <2>3, <2>4, RequestStep
<1>4. ASSUME ~ configured, mode = "auto", req' = [req EXCEPT !.stage = "legacy"] PROVE QuoteInv'
  <2>1. req' = Rec("legacy", req.dir, req.amountIn, req.first, req.block, req.slot, req.source, req.amountOut)
    BY <1>1, <1>4 DEF UnderWay, Rec
  <2>2. UnderWay'
    BY <1>1, <1>4, <2>1 DEF UnderWay, Rec
  <2>3. QE!QuoteExact'
    BY <2>1 DEF QE!QuoteExact, Rec
  <2> QED BY <1>1, <2>2, <2>3, RequestStep
<1> QED BY <1>2, <1>3, <1>4 DEF QE!quoteV4

\* The reader has the slot of the pinned block.
LEMMA SlotKeeps == ASSUME QuoteInv, QE!readSlot0 PROVE QuoteInv'
<1>1. UnderWay /\ UNCHANGED <<mode, configured, chain>> /\ req.stage = "slot"
  BY DEF QuoteInv, QE!readSlot0, QE!Idle
<1>2. CASE QE!Fail
  BY <1>1, <1>2, FailKeeps
<1>3. ASSUME req' = [req EXCEPT !.stage = "ticks", !.slot = QE!SlotOf(QE!Pinned)] PROVE QuoteInv'
  <2>1. req' = Rec("ticks", req.dir, req.amountIn, req.first, req.block, QE!SlotOf(chain[req.block]),
                   req.source, req.amountOut)
    BY <1>1, <1>3 DEF UnderWay, Rec, QE!Pinned
  <2>2. UnderWay'
    BY <1>1, <2>1 DEF UnderWay, Rec
  <2>3. QE!QuoteExact'
    BY <2>1 DEF QE!QuoteExact, Rec
  <2> QED BY <1>1, <2>2, <2>3, RequestStep
<1> QED BY <1>2, <1>3 DEF QE!readSlot0

\* A request that is answered.
LEMMA DoneKeeps ==
    ASSUME QuoteInv, UnderWay, UNCHANGED <<mode, configured, chain>>, NEW kind, NEW out,
           req' = [req EXCEPT !.stage = "done", !.source = kind, !.amountOut = out],
           kind \in {"v4", "v3"} =>
              \E b \in req.first .. Len(chain) :
                 out = QE!InPool(chain[b], req.dir, req.amountIn).amountOut,
           kind = "legacy" =>
              out < req.amountIn /\ (mode = "legacy" \/ (mode = "auto" /\ ~ configured))
    PROVE  QuoteInv'
<1>1. req' = Rec("done", req.dir, req.amountIn, req.first, req.block, req.slot, kind, out)
  BY DEF UnderWay, Rec
<1>2. /\ req'.stage = "done" /\ req'.dir = req.dir /\ req'.amountIn = req.amountIn
      /\ req'.first = req.first /\ req'.source = kind /\ req'.amountOut = out
  BY <1>1 DEF Rec
<1>3. UnderWay'
  BY <1>1 DEF UnderWay, Rec
<1>4. QE!QuoteExact'
  BY <1>2 DEF QE!QuoteExact
<1> QED BY <1>3, <1>4, RequestStep

\* The simulation answers as the pinned block would, or not at all.
LEMMA SimulateKeeps == ASSUME QuoteConstants, QuoteInv, QE!simulate PROVE QuoteInv'
<1> DEFINE state == chain[req.block]
           read == [t \in 0 .. Ticks |->
                      IF t \in QE!Candidates(state.tick) THEN QE!NetAt(state, t) ELSE 0]
           result == QE!Swap(QE!SlotOf(state), read, req.dir, req.amountIn)
<1>1. UnderWay /\ UNCHANGED <<mode, configured, chain>> /\ req.stage = "ticks"
  BY DEF QuoteInv, QE!simulate, QE!Idle
<1>2. req.slot = QE!SlotOf(state) /\ req.slot.tick = state.tick /\ req.block \in req.first .. Len(chain)
      /\ req.first \in 1 .. Len(chain)
  BY <1>1 DEF UnderWay, QE!SlotOf
<1>3. state \in QE!PoolStates
  <2>1. req.block \in 1 .. Len(chain)
    BY <1>2, LenProperties DEF QuoteInv
  <2> QED BY <2>1, ElementOfSeq DEF QuoteInv
<1>4. CASE QE!Fail
  BY <1>1, <1>4, FailKeeps
<1>5. ASSUME QE!InWindow(state.tick, result.tickAfter),
             req' = [req EXCEPT !.stage = "done", !.source = "v4", !.amountOut = result.amountOut]
      PROVE  QuoteInv'
  <2>1. req.dir \in QE!Dirs
    BY <1>1 DEF UnderWay
  <2>2. result.amountOut = QE!InPool(state, req.dir, req.amountIn).amountOut
    <3> HIDE DEF state
    <3> QED BY <1>3, <1>5, <2>1, ReadIsEnough
  <2> DEFINE out == result.amountOut
  <2>3. \E b \in req.first .. Len(chain) : out = QE!InPool(chain[b], req.dir, req.amountIn).amountOut
    BY <1>2, <2>2
  <2> HIDE DEF result, out
  <2>4. req' = [req EXCEPT !.stage = "done", !.source = "v4", !.amountOut = out]
    BY <1>5 DEF out
  <2> QED BY <1>1, <2>3, <2>4, DoneKeeps
<1>6. \/ QE!Fail
      \/ /\ QE!InWindow(state.tick, result.tickAfter)
         /\ req' = [req EXCEPT !.stage = "done", !.source = "v4", !.amountOut = result.amountOut]
  BY <1>2 DEF QE!simulate, QE!Pinned
<1> QED BY <1>4, <1>5, <1>6

\* The approximation over equal reserves pays less than goes in.
LEMMA ApproximationLess ==
    ASSUME QuoteConstants, NEW a \in Nat \ {0}, NEW l \in Nat \ {0}
    PROVE  QE!constantProduct(a, l) < a
<1> DEFINE w == a * (10 - Fee)
           below == l * 10 + w
           top == w * l
<1>1. w \in Nat /\ w <= 10 * a
  BY DEF QuoteConstants
<1>2. QE!constantProduct(a, l) = top \div below
  BY DEF QE!constantProduct
<1>3. below \in Nat \ {0} /\ top \in Nat /\ top < a * below
  <2> HIDE DEF w
  <2>1. w * l <= (10 * a) * l
    BY <1>1
  <2>2. (10 * a) * l = a * (l * 10) /\ a * (l * 10 + w) = a * (l * 10) + a * w
    BY <1>1
  <2>3. w * l \in Nat /\ a * w \in Nat /\ a * (l * 10) \in Nat /\ a * (l * 10) > 0
    BY <1>1
  <2>4. w = 0 => w * l = 0
    BY <1>1
  <2>5. w # 0 => a * w > 0
    BY <1>1
  <2>6. w * l < a * (l * 10 + w)
    BY <1>1, <2>1, <2>2, <2>3, <2>4, <2>5
  <2>7. l * 10 + w \in Nat \ {0}
    BY <1>1
  <2> QED BY <2>3, <2>6, <2>7
<1> HIDE DEF below, top
<1>4. top \div below < a
  <2> DEFINE d == top \div below
  <2>1. d \in Nat /\ d * below <= top
    BY <1>3
  <2> HIDE DEF d
  <2>2. ASSUME d >= a PROVE FALSE
    <3>1. d * below >= a * below
      BY <1>3, <2>1, <2>2
    <3>2. d * below \in Nat /\ a * below \in Nat
      BY <1>3, <2>1
    <3> QED BY <1>3, <2>1, <3>1, <3>2
  <2>3. d < a
    BY <2>1, <2>2
  <2> QED BY <2>3 DEF d
<1> QED BY <1>2, <1>4

\* The approximation promises less than goes in.
LEMMA LegacyKeeps == ASSUME QuoteConstants, QuoteInv, QE!quoteLegacy PROVE QuoteInv'
<1>1. UnderWay /\ UNCHANGED <<mode, configured, chain>> /\ req.stage = "legacy"
  <2>1. req.stage = "legacy" /\ UNCHANGED <<mode, configured, chain>>
    BY DEF QE!quoteLegacy
  <2>2. req # QE!Idle
    BY <2>1 DEF QE!Idle
  <2> QED BY <2>1, <2>2 DEF QuoteInv
<1>2. CASE QE!Fail
  BY <1>1, <1>2, FailKeeps
<1>3. ASSUME NEW l \in 1 .. 10 * MaxQuoted,
             req' = [req EXCEPT !.stage = "done", !.source = "legacy",
                                !.amountOut = QE!constantProduct(req.amountIn, l)]
      PROVE  QuoteInv'
  <2>1. req.amountIn \in Nat \ {0} /\ l \in Nat \ {0}
    BY <1>1 DEF UnderWay, QuoteConstants
  <2> DEFINE out == QE!constantProduct(req.amountIn, l)
  <2>2. out < req.amountIn
    BY <2>1, ApproximationLess
  <2>3. mode = "legacy" \/ (mode = "auto" /\ ~ configured)
    BY <1>1 DEF UnderWay
  <2>4. req' = [req EXCEPT !.stage = "done", !.source = "legacy", !.amountOut = out]
    BY <1>3
  <2> HIDE DEF out
  <2> QED BY <1>1, <2>2, <2>3, <2>4, DoneKeeps
<1> QED BY <1>2, <1>3 DEF QE!quoteLegacy

\* The v3 quoter answers for the latest block.
LEMMA QuoterKeeps == ASSUME QuoteInv, QE!quoteExactInputSingle PROVE QuoteInv'
<1> DEFINE out == QE!InPool(chain[Len(chain)], req.dir, req.amountIn).amountOut
<1>1. UnderWay /\ UNCHANGED <<mode, configured, chain>> /\ req.stage = "v3"
  BY DEF QuoteInv, QE!quoteExactInputSingle, QE!Idle
<1>2. CASE QE!Fail
  BY <1>1, <1>2, FailKeeps
<1>3. ASSUME req' = [req EXCEPT !.stage = "done", !.source = "v3", !.amountOut = out]
      PROVE  QuoteInv'
  <2>1. Len(chain) \in req.first .. Len(chain)
    BY <1>1, LenProperties DEF UnderWay, QuoteInv
  <2>2. \E b \in req.first .. Len(chain) : out = QE!InPool(chain[b], req.dir, req.amountIn).amountOut
    BY <2>1
  <2> HIDE DEF out
  <2> QED BY <1>1, <1>3, <2>2, DoneKeeps
<1> QED BY <1>2, <1>3 DEF QE!quoteExactInputSingle

\* A quote is what the whole pool would have paid in one block between request and
\* answer, though quote-engine.ts simulates on a window of its ticks: for every number of
\* ticks, spacing, window, set of positions and length of the chain.
THEOREM QuotesExact == ASSUME QuoteConstants PROVE QE!Spec => []QuoteExact
<1>1. QE!Init => QuoteInv
  BY QuoteInitial
<1>2. QuoteInv /\ [QE!Next]_QE!vars => QuoteInv'
  <2>1. CASE QuoteInv /\ UNCHANGED QE!vars
    BY <2>1 DEF QuoteInv, UnderWay, QE!QuoteExact, QE!vars
  <2>2. ASSUME QuoteInv, QE!getQuote PROVE QuoteInv'
    <3>1. PICK dir \in QE!Dirs, amountIn \in 1 .. MaxQuoted :
             req' = QE!Request(dir, amountIn, IF mode = "legacy" THEN "legacy" ELSE "pin")
      BY <2>2 DEF QE!getQuote
    <3> DEFINE kind == IF mode = "legacy" THEN "legacy" ELSE "pin"
    <3>2. kind \in {"legacy", "pin", "v3"} /\ (kind = "legacy" => mode = "legacy")
          /\ UNCHANGED <<mode, configured, chain>> /\ req' = QE!Request(dir, amountIn, kind)
      BY <2>2, <3>1 DEF QE!getQuote
    <3> HIDE DEF kind
    <3> QED BY <2>2, <3>2, OpenKeeps
  <2>3. ASSUME QuoteInv, QE!v3Quote PROVE QuoteInv'
    <3>1. PICK dir \in QE!Dirs, amountIn \in 1 .. MaxQuoted : req' = QE!Request(dir, amountIn, "v3")
      BY <2>3 DEF QE!v3Quote
    <3>2. UNCHANGED <<mode, configured, chain>>
      BY <2>3 DEF QE!v3Quote
    <3> QED BY <2>3, <3>1, <3>2, OpenKeeps
  <2>4. ASSUME QuoteInv, QE!Answer PROVE QuoteInv'
    BY <2>4 DEF QE!Answer, QuoteInv, QE!Idle, QE!QuoteExact
  <2> QED BY <2>1, <2>2, <2>3, <2>4, BlockKeeps, PinKeeps, SlotKeeps, SimulateKeeps, LegacyKeeps,
             QuoterKeeps DEF QE!Next
<1>3. QuoteInv => QuoteExact
  BY DEF QuoteInv, QuoteExact
<1> QED BY <1>1, <1>2, <1>3, PTL DEF QE!Spec

-----------------------------------------------------------------------------
\* PoolPage, the page itself.

\* A run of the effect that was not cancelled.
PoolLive(i) == poolLoads[i] # PD!None /\ ~ poolLoads[i].cancelled

LoadStates == {PD!None} \cup [kind : {"pool", "tokens"}, of : Pools, cancelled : BOOLEAN]

\* Only one run still counts, it is for the route, and the page waits for it; once it
\* has the pool, the page shows that pool.
LoadsAreForRoute ==
    /\ \A i \in Loads : PoolLive(i) =>
          /\ loading /\ poolLoads[i].of = poolId
          /\ poolLoads[i].kind = "tokens" => pool = poolId
    /\ \A i, j \in Loads : PoolLive(i) /\ PoolLive(j) => i = j

PageInv == PD!TypeOK /\ PD!ShowsRoute /\ LoadsAreForRoute

\* A run that exists has its three fields.
LEMMA PoolLoadState ==
    ASSUME NEW l \in LoadStates, l # PD!None
    PROVE  /\ l \in [kind : {"pool", "tokens"}, of : Pools, cancelled : BOOLEAN]
           /\ l = [kind |-> l.kind, of |-> l.of, cancelled |-> l.cancelled]
           /\ l.of \in Pools /\ l.kind \in {"pool", "tokens"} /\ l.cancelled \in BOOLEAN
  BY DEF LoadStates

\* No run is of no kind of run.
LEMMA PoolKinds == PD!None.kind = "none"
  BY DEF PD!None

\* The page opens with one run, for its route.
LEMMA PageInitial == ASSUME PagesConstants, PD!PageInit PROVE PageInv
<1>1. PICK i \in Loads : poolLoads = [j \in Loads |-> IF j = i THEN PD!Started(poolId) ELSE PD!None]
  BY DEF PD!PageInit
<1>2. PD!Started(poolId) \in LoadStates /\ PD!Started(poolId).kind = "pool"
      /\ PD!Started(poolId).of = poolId /\ PD!None \in LoadStates
  BY DEF PD!PageInit, PD!Started, LoadStates
<1>3. PD!TypeOK
  BY <1>1, <1>2 DEF PD!PageInit, PD!TypeOK, LoadStates
<1>4. PD!ShowsRoute
  BY DEF PD!PageInit, PD!ShowsRoute
<1>5. LoadsAreForRoute
  BY <1>1, <1>2 DEF LoadsAreForRoute, PoolLive, PD!PageInit
<1> QED BY <1>3, <1>4, <1>5 DEF PageInv

\* After the cleanup no run counts.
LEMMA CancelStates ==
    ASSUME poolLoads \in [Loads -> LoadStates]
    PROVE  /\ PD!Cancel \in [Loads -> LoadStates]
           /\ \A i \in Loads : PD!Cancel[i] = PD!None \/ PD!Cancel[i].cancelled
<1>1. ASSUME NEW l \in [kind : {"pool", "tokens"}, of : Pools, cancelled : BOOLEAN]
      PROVE  [l EXCEPT !.cancelled = TRUE] \in LoadStates /\ [l EXCEPT !.cancelled = TRUE].cancelled
  BY DEF LoadStates
<1>2. ASSUME NEW i \in Loads
      PROVE  PD!Cancel[i] \in LoadStates /\ (PD!Cancel[i] = PD!None \/ PD!Cancel[i].cancelled)
  <2>1. CASE poolLoads[i] = PD!None
    BY <2>1 DEF PD!Cancel, LoadStates
  <2>2. CASE poolLoads[i] # PD!None
    <3>1. poolLoads[i] \in [kind : {"pool", "tokens"}, of : Pools, cancelled : BOOLEAN]
      BY <2>2 DEF LoadStates
    <3>2. PD!Cancel[i] = [poolLoads[i] EXCEPT !.cancelled = TRUE]
      BY <2>2 DEF PD!Cancel
    <3> QED BY <1>1, <3>1, <3>2
  <2> QED BY <2>1, <2>2
<1> QED BY <1>2 DEF PD!Cancel

\* The runs of the effect have their types.
LEMMA LoadTypes == PD!TypeOK => poolLoads \in [Loads -> LoadStates]
  BY DEF PD!TypeOK, LoadStates

\* A navigation cancels what ran and waits for the new route.
LEMMA NavigateKeeps ==
    ASSUME PagesConstants, PageInv, NEW p \in Pools, PD!Navigate(p) PROVE PageInv'
<1>1. PICK i \in Loads : poolLoads' = [PD!Cancel EXCEPT ![i] = PD!Started(p)]
  BY DEF PD!Navigate
<1>2. /\ PD!Cancel \in [Loads -> LoadStates]
      /\ \A j \in Loads : PD!Cancel[j] = PD!None \/ PD!Cancel[j].cancelled
  BY CancelStates, LoadTypes DEF PageInv
<1>3. PD!Started(p) \in LoadStates /\ PD!Started(p).kind = "pool" /\ PD!Started(p).of = p
  BY DEF PD!Started, LoadStates
<1>4. poolLoads' \in [Loads -> LoadStates]
  BY <1>1, <1>2, <1>3
<1>5. /\ \A j \in Loads : j # i => poolLoads'[j] = PD!None \/ poolLoads'[j].cancelled
      /\ poolLoads'[i] = PD!Started(p)
  BY <1>1, <1>2
<1>6. PD!TypeOK'
  BY <1>4 DEF PageInv, PD!TypeOK, PD!Navigate, LoadStates
<1>7. PD!ShowsRoute'
  BY DEF PageInv, PD!Navigate, PD!ShowsRoute
<1>8. LoadsAreForRoute'
  BY <1>3, <1>5 DEF LoadsAreForRoute, PoolLive, PD!Navigate
<1> QED BY <1>6, <1>7, <1>8 DEF PageInv

\* A cancelled run sets nothing.
LEMMA CancelledKeeps ==
    ASSUME PagesConstants, PageInv, NEW i \in Loads, PD!Cancelled(i) PROVE PageInv'
<1>1. poolLoads \in [Loads -> LoadStates] /\ PD!None \in LoadStates
  BY LoadTypes DEF PageInv, LoadStates
<1>2. poolLoads' = [poolLoads EXCEPT ![i] = PD!None]
  BY DEF PD!Cancelled
<1>3. \A j \in Loads : poolLoads'[j] = IF j = i THEN PD!None ELSE poolLoads[j]
  BY <1>1, <1>2
<1>4. poolLoads' \in [Loads -> LoadStates]
  BY <1>1, <1>2
<1>5. PD!TypeOK'
  BY <1>4 DEF PageInv, PD!TypeOK, PD!Cancelled, LoadStates
<1>6. PD!ShowsRoute'
  BY DEF PageInv, PD!Cancelled, PD!ShowsRoute
<1>7. LoadsAreForRoute'
  BY <1>3 DEF PageInv, LoadsAreForRoute, PoolLive, PD!Cancelled
<1> QED BY <1>5, <1>6, <1>7 DEF PageInv

\* The pool that arrives is the one of the route.
LEMMA LoadPoolKeeps ==
    ASSUME PagesConstants, PageInv, NEW i \in Loads, PD!LoadPool(i) PROVE PageInv'
<1> DEFINE l == poolLoads[i]
<1>1. poolLoads \in [Loads -> LoadStates] /\ PD!None \in LoadStates
  BY LoadTypes DEF PageInv, LoadStates
<1>2. l # PD!None /\ PoolLive(i) /\ l.kind = "pool"
  BY PoolKinds DEF PD!LoadPool, PoolLive
<1>3. l \in LoadStates
  BY <1>1
<1>4. /\ l = [kind |-> l.kind, of |-> l.of, cancelled |-> l.cancelled]
      /\ l.of \in Pools /\ l.cancelled \in BOOLEAN
  BY <1>2, <1>3, PoolLoadState
<1>5. loading /\ l.of = poolId /\ \A j \in Loads : PoolLive(j) => i = j
  BY <1>2 DEF PageInv, LoadsAreForRoute
<1>6. ASSUME pool' = l.of, poolLoads' = [poolLoads EXCEPT ![i].kind = "tokens"],
             UNCHANGED <<loading, failed, poolId, tokens>>
      PROVE  PageInv'
  <2> DEFINE m == [kind |-> "tokens", of |-> l.of, cancelled |-> l.cancelled]
  <2>1. poolLoads' = [poolLoads EXCEPT ![i] = [l EXCEPT !.kind = "tokens"]]
    BY <1>6
  <2>2. [l EXCEPT !.kind = "tokens"] = m
    BY <1>4
  <2>3. m \in LoadStates
    BY <1>4 DEF LoadStates
  <2>4. poolLoads' \in [Loads -> LoadStates]
        /\ \A j \in Loads : poolLoads'[j] = IF j = i THEN m ELSE poolLoads[j]
    BY <2>1, <2>2, <2>3, <1>1
  <2>5. PD!TypeOK'
    BY <2>4, <1>4, <1>6 DEF PageInv, PD!TypeOK, LoadStates
  <2>6. PD!ShowsRoute'
    BY <1>5, <1>6, <1>4 DEF PageInv, PD!ShowsRoute, PagesConstants
  <2>7. m.of = poolId
    BY <1>5
  <2>8. LoadsAreForRoute'
    BY <2>4, <2>7, <1>5, <1>6 DEF LoadsAreForRoute, PoolLive, PageInv
  <2> QED BY <2>5, <2>6, <2>8 DEF PageInv
<1>7. ASSUME loading' = FALSE, failed' = failed \cup {l.of},
             poolLoads' = [poolLoads EXCEPT ![i] = PD!None], UNCHANGED <<pool, poolId, tokens>>
      PROVE  PageInv'
  <2>1. poolLoads' \in [Loads -> LoadStates]
        /\ \A j \in Loads : poolLoads'[j] = IF j = i THEN PD!None ELSE poolLoads[j]
    BY <1>1, <1>7
  <2>2. PD!TypeOK'
    BY <2>1, <1>4, <1>7 DEF PageInv, PD!TypeOK, LoadStates
  <2>3. PD!ShowsRoute'
    BY <1>5, <1>7 DEF PageInv, PD!ShowsRoute
  <2>4. LoadsAreForRoute'
    BY <2>1, <1>5, <1>7 DEF LoadsAreForRoute, PoolLive
  <2> QED BY <2>2, <2>3, <2>4 DEF PageInv
<1> QED BY <1>6, <1>7 DEF PD!LoadPool

\* The tokens that arrive are those of the pool shown.
LEMMA LoadTokensKeeps ==
    ASSUME PagesConstants, PageInv, NEW i \in Loads, PD!LoadTokens(i) PROVE PageInv'
<1> DEFINE l == poolLoads[i]
<1>1. poolLoads \in [Loads -> LoadStates] /\ PD!None \in LoadStates
  BY LoadTypes DEF PageInv, LoadStates
<1>2. l # PD!None /\ PoolLive(i) /\ l.kind = "tokens"
  BY PoolKinds DEF PD!LoadTokens, PoolLive
<1>3. l.of \in Pools
  BY <1>1, <1>2, PoolLoadState
<1>4. loading /\ l.of = poolId /\ pool = poolId /\ \A j \in Loads : PoolLive(j) => i = j
  BY <1>2 DEF PageInv, LoadsAreForRoute
<1>5. poolLoads' = [poolLoads EXCEPT ![i] = PD!None]
  BY DEF PD!LoadTokens
<1>6. poolLoads' \in [Loads -> LoadStates]
        /\ \A j \in Loads : poolLoads'[j] = IF j = i THEN PD!None ELSE poolLoads[j]
  BY <1>1, <1>5
<1>7. PICK found \in SUBSET PD!Sides :
        tokens' = [s \in PD!Sides |-> IF s \in found THEN l.of ELSE tokens[s]]
  BY DEF PD!LoadTokens
<1>8. tokens' \in [PD!Sides -> Pools \cup {PD!NoPool}]
  BY <1>3, <1>7 DEF PageInv, PD!TypeOK
<1>9. PD!TypeOK'
  BY <1>6, <1>8 DEF PageInv, PD!TypeOK, PD!LoadTokens, LoadStates
<1>10. PD!ShowsRoute'
  BY <1>3, <1>4 DEF PD!ShowsRoute, PD!LoadTokens, PagesConstants
<1>11. LoadsAreForRoute'
  BY <1>4, <1>6 DEF LoadsAreForRoute, PoolLive, PD!LoadTokens
<1> QED BY <1>9, <1>10, <1>11 DEF PageInv

\* The invariant of the pool page.
LEMMA PageInvariance == ASSUME PagesConstants PROVE PD!Spec => []PageInv
<1>1. PD!Init => PageInv
  BY PageInitial DEF PD!Init
<1>2. PageInv /\ [PD!Next]_PD!vars => PageInv'
  <2>1. CASE PageInv /\ UNCHANGED PD!pageVars
    BY <2>1 DEF PageInv, PD!pageVars, PD!TypeOK, PD!ShowsRoute, LoadsAreForRoute, PoolLive
  <2>2. CASE PageInv /\ PD!PageNext
    BY <2>2, NavigateKeeps, CancelledKeeps, LoadPoolKeeps, LoadTokensKeeps DEF PD!PageNext
  <2> QED BY <2>1, <2>2 DEF PD!Next, PD!vars
<1> QED BY <1>1, <1>2, PTL DEF PD!Spec

-----------------------------------------------------------------------------
\* PositionsPage.

\* A run of the effect for a wallet that is still connected.
WalletLive(i) == loads[i] # PP!None /\ loads[i].active

WalletLoads == [kind : {"sent"}, of : Wallets, active : BOOLEAN]
WalletLoadStates == {PP!None} \cup WalletLoads

\* Answers that still count are of the connected wallet, and the list is of the wallet
\* it was read for until another is connected, which is pending then.
ListIsOwn ==
    /\ \A i \in Loads : WalletLive(i) => isPending /\ loads[i].of = address
    /\ \A i, j \in Loads : WalletLive(i) /\ WalletLive(j) => i = j
    /\ address = PP!NoWallet => positions = {}
    /\ ~ isPending => \A id \in positions : Owner[id] = address

PositionsInv == PP!TypeOK /\ ListIsOwn

\* The first position of a list is one of it.
LEMMA LeastId ==
    ASSUME PagesConstants, NEW S \in SUBSET Ids, S # {} PROVE PP!First(S) \in S
<1>1. S \in SUBSET Nat
  BY DEF PagesConstants
<1>2. \E n \in S : \A m \in S : n <= m
  BY <1>1, NatLeast
<1> QED BY <1>2 DEF PP!First

\* The first of a list is in it, or there is none.
LEMMA FirstTyped ==
    ASSUME PagesConstants, NEW S \in SUBSET Ids
    PROVE  PP!First(S) \in Ids \cup {PP!NoId} /\ (PP!First(S) # PP!NoId => PP!First(S) \in S)
<1>1. CASE S = {}
  BY <1>1 DEF PP!First
<1>2. CASE S # {}
  BY <1>2, LeastId
<1> QED BY <1>1, <1>2

\* What is rendered is one of the positions listed, and so of the wallet.
LEMMA ShownIsListed ==
    ASSUME PagesConstants, PositionsInv PROVE PP!ListsOwnPositions
<1>1. positions \in SUBSET Ids
  BY DEF PositionsInv, PP!TypeOK
<1>2. PP!selectIndexedPosition # PP!NoId => PP!selectIndexedPosition \in positions
  BY <1>1, FirstTyped DEF PP!selectIndexedPosition
<1> QED BY <1>2 DEF PP!ListsOwnPositions, PP!intent, PP!FormShown, PositionsInv, ListIsOwn

\* The runs of the effect have their types.
LEMMA WalletTypes == PP!TypeOK => loads \in [Loads -> WalletLoadStates]
  BY DEF PP!TypeOK, WalletLoadStates, WalletLoads

\* The page opens without a wallet.
LEMMA PositionsInitial == ASSUME PP!Init PROVE PositionsInv
  BY DEF PP!Init, PositionsInv, ListIsOwn, PP!TypeOK, WalletLive

\* After the cleanup no run counts.
LEMMA DeactivateStates ==
    ASSUME loads \in [Loads -> WalletLoadStates]
    PROVE  /\ PP!Deactivate \in [Loads -> WalletLoadStates]
           /\ \A i \in Loads : PP!Deactivate[i] = PP!None \/ ~ PP!Deactivate[i].active
<1>1. ASSUME NEW l \in WalletLoads
      PROVE  [l EXCEPT !.active = FALSE] \in WalletLoads /\ ~ [l EXCEPT !.active = FALSE].active
  BY DEF WalletLoads
<1>2. ASSUME NEW i \in Loads
      PROVE  /\ PP!Deactivate[i] \in WalletLoadStates
             /\ PP!Deactivate[i] = PP!None \/ ~ PP!Deactivate[i].active
  <2>1. CASE loads[i] = PP!None
    BY <2>1 DEF PP!Deactivate, WalletLoadStates
  <2>2. CASE loads[i] # PP!None
    <3>1. loads[i] \in WalletLoads
      BY <2>2 DEF WalletLoadStates
    <3>2. PP!Deactivate[i] = [loads[i] EXCEPT !.active = FALSE]
      BY <2>2 DEF PP!Deactivate
    <3> QED BY <1>1, <3>1, <3>2 DEF WalletLoadStates
  <2> QED BY <2>1, <2>2
<1> QED BY <1>2 DEF PP!Deactivate

\* Another wallet is pending until its own answer.
LEMMA ConnectKeeps ==
    ASSUME PagesConstants, PositionsInv, NEW w \in Wallets, PP!Connect(w) PROVE PositionsInv'
<1> DEFINE new == [kind |-> "sent", of |-> w, active |-> TRUE]
<1>1. PICK i \in Loads : loads' = [PP!Deactivate EXCEPT ![i] = new]
  BY DEF PP!Connect
<1>2. /\ PP!Deactivate \in [Loads -> WalletLoadStates]
      /\ \A j \in Loads : PP!Deactivate[j] = PP!None \/ ~ PP!Deactivate[j].active
  BY DeactivateStates, WalletTypes DEF PositionsInv
<1>3. new \in WalletLoadStates /\ new.of = w
  BY DEF WalletLoadStates, WalletLoads
<1> HIDE DEF new
<1>4. loads' \in [Loads -> WalletLoadStates] /\ loads'[i] = new
      /\ \A j \in Loads : j # i => loads'[j] = PP!None \/ ~ loads'[j].active
  BY <1>1, <1>2, <1>3
<1>5. PP!TypeOK'
  BY <1>4 DEF PositionsInv, PP!TypeOK, PP!Connect, WalletLoadStates, WalletLoads
<1>6. ListIsOwn'
  BY <1>3, <1>4 DEF ListIsOwn, WalletLive, PP!Connect, PagesConstants
<1> QED BY <1>5, <1>6 DEF PositionsInv

\* Without a wallet there is no list.
LEMMA DisconnectKeeps ==
    ASSUME PagesConstants, PositionsInv, PP!Disconnect PROVE PositionsInv'
<1>1. /\ loads' \in [Loads -> WalletLoadStates]
      /\ \A j \in Loads : loads'[j] = PP!None \/ ~ loads'[j].active
  BY DeactivateStates, WalletTypes DEF PositionsInv, PP!Disconnect
<1>2. PP!TypeOK'
  BY <1>1 DEF PositionsInv, PP!TypeOK, PP!Disconnect, WalletLoadStates, WalletLoads
<1>3. ListIsOwn'
  BY <1>1 DEF ListIsOwn, WalletLive, PP!Disconnect
<1> QED BY <1>2, <1>3 DEF PositionsInv

\* The answer that counts is for the wallet connected.
LEMMA AnswerKeeps ==
    ASSUME PagesConstants, PositionsInv, NEW i \in Loads,
           PP!Loaded(i) \/ PP!LoadFailed(i) \/ PP!LoadCancelled(i)
    PROVE  PositionsInv'
<1>1. loads \in [Loads -> WalletLoadStates] /\ PP!None \in WalletLoadStates
  BY WalletTypes DEF PositionsInv, WalletLoadStates
<1>2. loads' = [loads EXCEPT ![i] = PP!None]
  BY DEF PP!Loaded, PP!LoadFailed, PP!LoadCancelled
<1>3. loads' \in [Loads -> WalletLoadStates]
      /\ \A j \in Loads : loads'[j] = IF j = i THEN PP!None ELSE loads[j]
  BY <1>1, <1>2
<1>4. /\ address' = address
      /\ \A j \in Loads : WalletLive(j)' => WalletLive(j) /\ j # i /\ loads'[j].of = loads[j].of
  BY <1>3 DEF WalletLive, PP!Loaded, PP!LoadFailed, PP!LoadCancelled
<1>5. CASE PP!LoadCancelled(i)
  <2>1. PP!TypeOK'
    BY <1>3, <1>5 DEF PositionsInv, PP!TypeOK, PP!LoadCancelled, WalletLoadStates, WalletLoads
  <2>2. ListIsOwn'
    BY <1>4, <1>5 DEF PositionsInv, ListIsOwn, PP!LoadCancelled
  <2> QED BY <2>1, <2>2 DEF PositionsInv
<1>6. CASE PP!Loaded(i) \/ PP!LoadFailed(i)
  <2>1. WalletLive(i)
    BY <1>6 DEF WalletLive, PP!Loaded, PP!LoadFailed
  <2>2. loads[i].of = address /\ \A j \in Loads : ~ WalletLive(j)'
    BY <1>4, <2>1 DEF PositionsInv, ListIsOwn
  <2>3. positions' \in SUBSET Ids /\ \A id \in positions' : Owner[id] = address
    <3>1. CASE PP!Loaded(i)
      <4>1. PICK S \in SUBSET {id \in Ids : Owner[id] = loads[i].of} : positions' = S
        BY <3>1 DEF PP!Loaded
      <4> QED BY <2>2, <4>1
    <3>2. CASE PP!LoadFailed(i)
      BY <3>2 DEF PP!LoadFailed
    <3> QED BY <3>1, <3>2, <1>6
  <2>4. selectedPositionId' \in Ids \cup {PP!NoId}
    <3>1. CASE PP!Loaded(i)
      <4>1. PICK S \in SUBSET {id \in Ids : Owner[id] = loads[i].of} :
              selectedPositionId' = IF selectedPositionId \in S THEN selectedPositionId
                                    ELSE PP!First(S)
        BY <3>1 DEF PP!Loaded
      <4>2. S \in SUBSET Ids
        OBVIOUS
      <4>3. PP!First(S) \in Ids \cup {PP!NoId}
        BY <4>2, FirstTyped
      <4> QED BY <4>1, <4>2, <4>3
    <3>2. CASE PP!LoadFailed(i)
      BY <3>2 DEF PP!LoadFailed
    <3> QED BY <3>1, <3>2, <1>6
  <2>5. PP!TypeOK'
    BY <1>3, <1>6, <2>3, <2>4
    DEF PositionsInv, PP!TypeOK, PP!Loaded, PP!LoadFailed, WalletLoadStates, WalletLoads
  <2>6. address # PP!NoWallet \/ positions' = {}
    <3>1. CASE PP!LoadFailed(i)
      BY <3>1 DEF PP!LoadFailed
    <3>2. CASE PP!Loaded(i)
      <4>1. loads[i] \in WalletLoads
        BY <1>1, <2>1 DEF WalletLive, WalletLoadStates
      <4>2. address \in Wallets
        BY <2>2, <4>1 DEF WalletLoads
      <4> QED BY <4>2 DEF PagesConstants
    <3> QED BY <3>1, <3>2, <1>6
  <2>7. ListIsOwn'
    BY <1>4, <2>2, <2>3, <2>6 DEF ListIsOwn
  <2> QED BY <2>5, <2>7 DEF PositionsInv
<1> QED BY <1>5, <1>6

\* The form leaves the list alone.
LEMMA FormKeeps ==
    ASSUME PositionsInv,
           \/ \E id \in Ids : PP!SelectPosition(id)
           \/ \E v \in {"valid", "invalid"} : PP!updateValue(v)
           \/ PP!handleSubmit
           \/ UNCHANGED PP!vars
    PROVE  PositionsInv'
<1>1. UNCHANGED <<address, positions, isPending, errorMessage, loads>>
  BY DEF PP!SelectPosition, PP!updateValue, PP!handleSubmit, PP!vars
<1>2. selectedPositionId' \in Ids \cup {PP!NoId} /\ values' \in {"valid", "invalid"}
      /\ submitted' \in BOOLEAN
  BY DEF PP!SelectPosition, PP!updateValue, PP!handleSubmit, PP!vars, PositionsInv, PP!TypeOK
<1>3. PP!TypeOK'
  BY <1>1, <1>2 DEF PositionsInv, PP!TypeOK
<1>4. ListIsOwn'
  BY <1>1 DEF PositionsInv, ListIsOwn, WalletLive
<1> QED BY <1>3, <1>4 DEF PositionsInv

\* The pool page settles on the pool of the route, and the positions page shows and
\* rebalances only what the connected wallet owns, for every number of pools, wallets,
\* positions and overlapping runs of the two effects.
THEOREM OwnPagesShown ==
    ASSUME PagesConstants PROVE PD!Spec /\ PP!Spec => []PagesShowTheirOwn
<1>1. PP!Init => PositionsInv
  BY PositionsInitial
<1>2. PositionsInv /\ [PP!Next]_PP!vars => PositionsInv'
  <2>1. CASE PositionsInv /\ UNCHANGED PP!vars
    BY <2>1, FormKeeps
  <2>2. CASE PositionsInv /\ PP!Next
    BY <2>2, ConnectKeeps, DisconnectKeeps, AnswerKeeps, FormKeeps DEF PP!Next
  <2> QED BY <2>1, <2>2
<1>3. PP!Spec => []PositionsInv
  BY <1>1, <1>2, PTL DEF PP!Spec
<1>4. PageInv /\ PositionsInv => PagesShowTheirOwn
  BY ShownIsListed DEF PageInv, PositionsInv, PagesShowTheirOwn
<1> QED BY PageInvariance, <1>3, <1>4, PTL

-----------------------------------------------------------------------------
\* PoolPage, the form for a deposit.

\* The states of the form, of a split, of a run and of a deposit.
FormStates ==
    [values : [protocol : {"v3", "v4"}, amount : Amounts \cup {0}], tokens : BOOLEAN, request : {"null", "gated", "submitted"},
     preparing : BOOLEAN, error : BOOLEAN]

SplitStates == [swapAmountIn : Nat, amountOut : Nat, minAmountOut : Int, error : Nat]

RunStates ==
    [kind : {"quote", "approve", "send"}, mounted : BOOLEAN, amountIn : Amounts,
     low : Nat, high : Int, left : Nat, best : {PD!None} \cup SplitStates]

\* A split is of a true part of the amount, and takes a slippage off at most.
SplitSound(q, amountIn) ==
    /\ q \in SplitStates /\ q.swapAmountIn \in 1 .. amountIn - 1
    /\ 10 * q.minAmountOut >= (10 - Slip) * q.amountOut

\* The search looks between true parts, and has a candidate as soon as it has asked for one.
RunSound(run) ==
    /\ run \in RunStates
    /\ run.low >= 1 /\ run.high <= run.amountIn - 1
    /\ IF run.best = PD!None
       THEN run.kind = "quote" /\ run.left = MaxQuotes /\ run.low <= run.high
       ELSE SplitSound(run.best, run.amountIn)

DepositStates ==
    [status : {"pending", "ok", "reverted"}, amountIn : Amounts, quote : SplitStates, out : Nat]

\* What the chain has taken paid no less than the run asked for.
DepositSound(deposit) ==
    /\ deposit \in DepositStates /\ SplitSound(deposit.quote, deposit.amountIn)
    /\ deposit.status = "ok" => deposit.out >= deposit.quote.minAmountOut

\* The run was started by the form on the page.
Mounted(r) == runs[r] # PD!None /\ runs[r].mounted

\* The form with a run behind it is preparing, what is on its way has captured a sound
\* split, and the router may take at most what was typed once.
DepositInv ==
    /\ lform \in FormStates
    /\ DOMAIN runs = Runs /\ runs = [r \in Runs |-> runs[r]]
    /\ \A r \in Runs : runs[r] = PD!None \/ RunSound(runs[r])
    /\ \A r \in Runs : Mounted(r) => lform.preparing
    /\ \A r, s \in Runs : Mounted(r) /\ Mounted(s) => r = s
    /\ allowance \in Int /\ \E a \in Amounts : allowance <= a
    /\ deposits \in Seq(DepositStates) /\ \A t \in DOMAIN deposits : DepositSound(deposits[t])

RunsTyped == runs \in [Runs -> {PD!None} \cup RunStates]

\* The runs of submit have their types.
LEMMA RunTypes == DepositInv => RunsTyped
  BY DEF DepositInv, RunsTyped, RunSound

\* A run and a split are something.
LEMMA RunIsNotNone ==
    /\ \A run \in RunStates : run # PD!None
    /\ \A q \in SplitStates : q # PD!None
    /\ PD!None.kind = "none"
<1>1. PD!None.kind = "none"
  BY DEF PD!None
<1>2. \A q \in SplitStates : q # PD!None
  <2>1. ASSUME NEW q \in SplitStates, q = PD!None PROVE FALSE
    <3>1. "swapAmountIn" \in DOMAIN q
      BY DEF SplitStates
    <3>2. "swapAmountIn" \notin DOMAIN PD!None
      BY DEF PD!None
    <3> QED BY <2>1, <3>1, <3>2
  <2> QED BY <2>1
<1>3. \A run \in RunStates : run # PD!None
  BY <1>1 DEF RunStates
<1> QED BY <1>1, <1>2, <1>3

\* A candidate keeps what Slip leaves of the quoted output.
LEMMA CandidateSound ==
    ASSUME DepositConstants, NEW run \in RunStates, NEW half \in 1 .. run.amountIn - 1,
           NEW out \in Nat
    PROVE  SplitSound(PD!Candidate(run, half, out), run.amountIn)
<1> DEFINE lost == out * Slip
           q == PD!Candidate(run, half, out)
<1>1. run.amountIn \in Nat /\ half \in Nat /\ Slip \in Nat
  <2>1. run.amountIn \in Nat
    BY DEF RunStates, DepositConstants
  <2> QED BY <2>1 DEF DepositConstants
<1>2. lost \in Nat /\ (10 - Slip) * out = 10 * out - lost
  BY <1>1
<1>3. /\ q.swapAmountIn = half /\ q.amountOut = out /\ q.minAmountOut = out - lost \div 10
      /\ q = [swapAmountIn |-> half, amountOut |-> out, minAmountOut |-> out - lost \div 10,
              error |-> q.error]
      /\ q.error = IF run.amountIn - half < out THEN 0 ELSE run.amountIn - half - out
  BY DEF PD!Candidate
<1> HIDE DEF lost, q
<1>4. lost \div 10 \in Int /\ 10 * (lost \div 10) <= lost
  BY <1>2
<1>5. q.error \in Nat
  BY <1>1, <1>3
<1>6. q \in SplitStates
  BY <1>1, <1>3, <1>4, <1>5 DEF SplitStates
<1>7. 10 * q.minAmountOut >= (10 - Slip) * q.amountOut
  BY <1>2, <1>3, <1>4
<1>8. SplitSound(q, run.amountIn)
  BY <1>3, <1>6, <1>7 DEF SplitSound
<1> QED BY <1>8 DEF q

Middle(run) == (run.low + run.high) \div 2

\* The run after a quote of that output for the middle.
Searched(run, out) ==
    LET new == PD!Candidate(run, Middle(run), out) IN
    [run EXCEPT !.left = run.left - 1,
                !.low  = IF new.error > 0 THEN Middle(run) + 1 ELSE run.low,
                !.high = IF new.error > 0 THEN run.high ELSE Middle(run) - 1,
                !.best = IF PD!Better(new, run.best) THEN new ELSE run.best]

\* One more quote of the search.
LEMMA SearchSound ==
    ASSUME DepositConstants, NEW run, NEW out \in Nat,
           RunSound(run) /\ run.kind = "quote" /\ run.left > 0 /\ run.low <= run.high
    PROVE  RunSound(Searched(run, out)) /\ Searched(run, out).mounted = run.mounted
<1> DEFINE mid == Middle(run)
           new == PD!Candidate(run, mid, out)
           low == IF new.error > 0 THEN mid + 1 ELSE run.low
           high == IF new.error > 0 THEN run.high ELSE mid - 1
           best == IF PD!Better(new, run.best) THEN new ELSE run.best
           next == Searched(run, out)
<1>0. next = [run EXCEPT !.left = run.left - 1, !.low = low, !.high = high, !.best = best]
  BY DEF Searched
<1> HIDE DEF next
<1>1. run \in RunStates /\ run.low \in Nat /\ run.high \in Int /\ run.left \in Nat /\ run.amountIn \in Nat
  BY DEF RunSound, RunStates, DepositConstants
<1>2. run.low >= 1 /\ run.high <= run.amountIn - 1
  BY DEF RunSound
<1>3. mid \in 1 .. run.amountIn - 1 /\ mid >= run.low /\ mid <= run.high
  BY <1>1, <1>2 DEF Middle
<1> HIDE DEF mid
<1>4. SplitSound(new, run.amountIn)
  BY <1>1, <1>3, CandidateSound
<1> HIDE DEF new
<1>5. low \in Nat /\ low >= 1 /\ high \in Int /\ high <= run.amountIn - 1
  BY <1>1, <1>2, <1>3
<1>6. SplitSound(best, run.amountIn)
  <2>1. run.best = PD!None => PD!Better(new, run.best)
    BY DEF PD!Better
  <2> QED BY <1>4, <2>1 DEF RunSound
<1> HIDE DEF low, high, best
<1>7. best \in SplitStates /\ best # PD!None
  BY <1>6, RunIsNotNone DEF SplitSound
<1>8. run.left - 1 \in Nat
  BY <1>1
<1>9. next \in RunStates
  BY <1>0, <1>1, <1>5, <1>7, <1>8 DEF RunStates
<1>10. /\ next.low = low /\ next.high = high /\ next.best = best
       /\ next.amountIn = run.amountIn /\ next.mounted = run.mounted
  BY <1>0, <1>1 DEF RunStates
<1>11. RunSound(next) /\ next.mounted = run.mounted
  BY <1>5, <1>6, <1>7, <1>9, <1>10 DEF RunSound
<1> QED BY <1>11 DEF next

\* What a step that replaces one run by another, or by none, keeps.
LEMMA RunStep ==
    ASSUME DepositInv, NEW r \in Runs, NEW next, runs' = [runs EXCEPT ![r] = next],
           next = PD!None \/ RunSound(next),
           lform' \in FormStates,
           next # PD!None /\ next.mounted =>
              lform'.preparing /\ \A s \in Runs : Mounted(s) => s = r,
           \A s \in Runs : Mounted(s) => s = r \/ lform'.preparing,
           allowance' \in Int, \E a \in Amounts : allowance' <= a,
           deposits' \in Seq(DepositStates), \A t \in DOMAIN deposits' : DepositSound(deposits'[t])
    PROVE  DepositInv'
<1>1. /\ DOMAIN runs' = Runs /\ runs' = [s \in Runs |-> runs'[s]]
      /\ \A s \in Runs : runs'[s] = IF s = r THEN next ELSE runs[s]
  BY RunTypes DEF RunsTyped
<1>2. \A s \in Runs : runs'[s] = PD!None \/ RunSound(runs'[s])
  BY <1>1 DEF DepositInv
<1>3. /\ \A s \in Runs : s # r => (Mounted(s)' <=> Mounted(s))
      /\ Mounted(r)' <=> next # PD!None /\ next.mounted
  BY <1>1 DEF Mounted
<1>4. \A s \in Runs : Mounted(s)' => lform'.preparing
  BY <1>3 DEF DepositInv
<1>5. \A s, u \in Runs : Mounted(s)' /\ Mounted(u)' => s = u
  BY <1>3 DEF DepositInv
<1> QED BY <1>1, <1>2, <1>4, <1>5 DEF DepositInv

\* Where a run is does not matter, as long as it has a candidate.
LEMMA KindSound ==
    ASSUME NEW run, RunSound(run), run.best # PD!None, NEW k \in {"approve", "send"}
    PROVE  RunSound([run EXCEPT !.kind = k]) /\ [run EXCEPT !.kind = k].mounted = run.mounted
  BY DEF RunSound, RunStates

\* What the edits of the form leave.
LEMMA FormEdits ==
    ASSUME NEW f \in FormStates
    PROVE  /\ \A input \in PD!Values :
                 [f EXCEPT !.values = input, !.request = "null", !.error = FALSE] \in FormStates
           /\ \A input \in PD!Values :
                 [f EXCEPT !.values = input, !.request = "null", !.error = FALSE].preparing = f.preparing
           /\ [f EXCEPT !.request = "gated", !.error = FALSE] \in FormStates
           /\ [f EXCEPT !.request = "gated", !.error = FALSE].preparing = f.preparing
           /\ [f EXCEPT !.error = TRUE] \in FormStates
           /\ [f EXCEPT !.error = TRUE].preparing = f.preparing
           /\ [f EXCEPT !.preparing = TRUE, !.error = FALSE] \in FormStates
           /\ [f EXCEPT !.preparing = TRUE, !.error = FALSE].preparing
           /\ [f EXCEPT !.preparing = FALSE, !.request = "submitted"] \in FormStates
           /\ [f EXCEPT !.preparing = FALSE, !.error = TRUE] \in FormStates
  BY DEF FormStates, PD!Values

\* A navigation leaves no run behind the new form.
LEMMA RemountKeeps == ASSUME DepositConstants, DepositInv, PD!Remount PROVE DepositInv'
<1>1. lform' \in FormStates
  <2>1. ASSUME NEW b \in BOOLEAN PROVE PD!Fresh(b) \in FormStates
    BY DEF PD!Fresh, FormStates
  <2> QED BY <2>1 DEF PD!Remount
<1>2. ASSUME NEW run, RunSound(run)
      PROVE  RunSound([run EXCEPT !.mounted = FALSE]) /\ ~ [run EXCEPT !.mounted = FALSE].mounted
  BY <1>2 DEF RunSound, RunStates
<1>3. /\ DOMAIN runs' = Runs /\ runs' = [r \in Runs |-> runs'[r]]
      /\ \A r \in Runs : runs'[r] = IF runs[r] = PD!None THEN PD!None
                                    ELSE [runs[r] EXCEPT !.mounted = FALSE]
  BY DEF PD!Remount
<1>4. \A r \in Runs : (runs'[r] = PD!None \/ RunSound(runs'[r])) /\ ~ Mounted(r)'
  <2> TAKE r \in Runs
  <2>1. CASE runs[r] = PD!None
    BY <1>3, <2>1 DEF Mounted
  <2>2. CASE runs[r] # PD!None
    <3>1. RunSound(runs[r])
      BY <2>2 DEF DepositInv
    <3>2. runs'[r] = [runs[r] EXCEPT !.mounted = FALSE]
      BY <1>3, <2>2
    <3>3. RunSound(runs'[r]) /\ ~ runs'[r].mounted
      BY <1>2, <3>1, <3>2
    <3> QED BY <3>3 DEF Mounted
  <2> QED BY <2>1, <2>2
<1>5. allowance' = allowance /\ deposits' = deposits
  BY DEF PD!Remount
<1> QED BY <1>1, <1>3, <1>4, <1>5 DEF DepositInv

\* An edit stops no run.
LEMMA EditKeeps ==
    ASSUME DepositInv, NEW v \in PD!Values, PD!updateValue(v) PROVE DepositInv'
<1>1. lform' \in FormStates /\ lform'.preparing = lform.preparing
  BY FormEdits DEF DepositInv, PD!updateValue
<1>2. UNCHANGED <<runs, allowance, deposits>>
  BY DEF PD!updateValue
<1> QED BY <1>1, <1>2 DEF DepositInv, Mounted

\* The button starts a run only where none is.
LEMMA SubmitKeeps ==
    ASSUME DepositConstants, DepositInv, NEW r \in Runs, PD!submit(r) PROVE DepositInv'
<1>1. /\ \A s \in Runs : ~ Mounted(s)
      /\ UNCHANGED <<allowance, deposits>> /\ lform \in FormStates
  BY DEF DepositInv, PD!submit, PD!SubmitButton
<1>2. CASE /\ lform' = [lform EXCEPT !.request = "gated", !.error = FALSE] \/ lform' = [lform EXCEPT !.error = TRUE]
           /\ UNCHANGED runs
  <2>1. lform' \in FormStates /\ lform'.preparing = lform.preparing
    BY <1>1, <1>2, FormEdits
  <2> QED BY <1>1, <1>2, <2>1 DEF DepositInv, Mounted
<1>3. CASE /\ lform' = [lform EXCEPT !.preparing = TRUE, !.error = FALSE]
           /\ lform.values.amount >= 3
           /\ runs' = [runs EXCEPT ![r] =
                [kind |-> "quote", mounted |-> TRUE, amountIn |-> lform.values.amount,
                 low |-> 1, high |-> lform.values.amount - 1, left |-> MaxQuotes, best |-> PD!None]]
  <2> DEFINE amount == lform.values.amount
             new == [kind |-> "quote", mounted |-> TRUE, amountIn |-> amount,
                     low |-> 1, high |-> amount - 1, left |-> MaxQuotes, best |-> PD!None]
  <2>1. amount \in Amounts /\ amount \in Nat /\ amount >= 3
    BY <1>1, <1>3 DEF FormStates, DepositConstants
  <2>2. new \in RunStates
    BY <2>1 DEF RunStates, DepositConstants
  <2>3. RunSound(new) /\ new.mounted /\ new # PD!None
    BY <2>1, <2>2, RunIsNotNone DEF RunSound
  <2>4. lform' \in FormStates /\ lform'.preparing
    BY <1>1, <1>3, FormEdits
  <2>5. allowance' \in Int /\ (\E a \in Amounts : allowance' <= a) /\ deposits' \in Seq(DepositStates)
        /\ \A t \in DOMAIN deposits' : DepositSound(deposits'[t])
    BY <1>1 DEF DepositInv
  <2>6. runs' = [runs EXCEPT ![r] = new]
    BY <1>3
  <2> HIDE DEF new
  <2> QED BY <1>1, <2>3, <2>4, <2>5, <2>6, RunStep
<1>4. /\ lform.values.protocol \in {"v3", "v4"} /\ lform.values.amount \in Nat
      /\ lform.values.amount < 3 \/ lform.values.amount >= 3
  <2>1. lform.values.protocol \in {"v3", "v4"} /\ lform.values.amount \in Amounts \cup {0}
    BY <1>1 DEF FormStates
  <2>2. \A a \in Amounts \cup {0} : a \in Nat
    BY DEF DepositConstants
  <2> QED BY <2>1, <2>2
<1> QED BY <1>2, <1>3, <1>4 DEF PD!submit

\* A run that ends leaves the form to itself, or none behind it.
LEMMA EndKeeps ==
    ASSUME DepositInv, NEW r \in Runs, NEW b \in BOOLEAN, PD!End(r, b), runs[r] # PD!None, allowance' = allowance,
           deposits' \in Seq(DepositStates), \A t \in DOMAIN deposits' : DepositSound(deposits'[t])
    PROVE  DepositInv'
<1>1. lform \in FormStates
  BY DEF DepositInv
<1>2. lform' \in FormStates /\ (~ Mounted(r) => lform' = lform)
  BY <1>1, FormEdits DEF PD!End, Mounted
<1>3. \A s \in Runs : Mounted(s) => s = r \/ lform'.preparing
  BY <1>2 DEF DepositInv
<1>4. runs' = [runs EXCEPT ![r] = PD!None]
  BY DEF PD!End
<1>5. allowance' \in Int /\ \E a \in Amounts : allowance' <= a
  BY DEF DepositInv
<1> QED BY <1>2, <1>3, <1>4, <1>5, RunStep

\* A run that throws ends.
LEMMA ThrowKeeps ==
    ASSUME DepositInv, NEW r \in Runs, PD!submitThrows(r) PROVE DepositInv'
<1>1. PD!End(r, FALSE) /\ runs[r] # PD!None /\ allowance' = allowance /\ deposits' = deposits
  BY DEF PD!submitThrows
<1>2. deposits' \in Seq(DepositStates) /\ \A t \in DOMAIN deposits' : DepositSound(deposits'[t])
  BY <1>1 DEF DepositInv
<1> QED BY <1>1, <1>2, EndKeeps

\* A run goes on with the form as it is.
LEMMA RunGoesOn ==
    ASSUME DepositInv, NEW r \in Runs, runs[r] # PD!None, NEW next, RunSound(next),
           next.mounted = runs[r].mounted, runs' = [runs EXCEPT ![r] = next],
           allowance' \in Int, \E a \in Amounts : allowance' <= a, UNCHANGED <<lform, deposits>>
    PROVE  DepositInv'
<1>1. lform' \in FormStates /\ deposits' \in Seq(DepositStates)
      /\ \A t \in DOMAIN deposits' : DepositSound(deposits'[t])
  BY DEF DepositInv
<1>2. next.mounted => lform'.preparing /\ \A s \in Runs : Mounted(s) => s = r
  BY DEF DepositInv, Mounted
<1>3. \A s \in Runs : Mounted(s) => s = r \/ lform'.preparing
  BY DEF DepositInv
<1> QED BY <1>1, <1>2, <1>3, RunStep

\* findV4SwapAmount asks for one more quote.
LEMMA SearchKeeps ==
    ASSUME DepositConstants, DepositInv, NEW r \in Runs, PD!findV4SwapAmount(r) PROVE DepositInv'
<1> DEFINE run == runs[r]
           mid == (run.low + run.high) \div 2
<1>1. run.kind = "quote" /\ run.left > 0 /\ run.low <= run.high
  BY DEF PD!findV4SwapAmount
<1>2. run # PD!None /\ RunSound(run)
  BY <1>1, RunIsNotNone DEF DepositInv
<1>3. run.low \in Nat /\ run.high \in Int /\ mid \in Int /\ mid >= 0
  BY <1>1, <1>2 DEF RunSound, RunStates
<1>4. PICK buys \in BuyRates :
        LET new == PD!Candidate(run, mid, mid * buys) IN
        runs' = [runs EXCEPT ![r] =
                 [run EXCEPT !.left = @ - 1,
                    !.low  = IF new.error > 0 THEN mid + 1 ELSE @,
                    !.high = IF new.error > 0 THEN @ ELSE mid - 1,
                    !.best = IF PD!Better(new, @) THEN new ELSE @]]
  BY DEF PD!findV4SwapAmount
<1> DEFINE out == mid * buys
           next == Searched(run, out)
<1>5. runs' = [runs EXCEPT ![r] = next]
  BY <1>4 DEF Searched, Middle
<1>6. out \in Nat
  BY <1>3 DEF DepositConstants
<1>7. RunSound(next) /\ next.mounted = run.mounted
  BY <1>1, <1>2, <1>6, SearchSound
<1> HIDE DEF next, run
<1>8. allowance' \in Int /\ (\E a \in Amounts : allowance' <= a) /\ UNCHANGED <<lform, deposits>>
  BY DEF DepositInv, PD!findV4SwapAmount
<1>9. runs[r] # PD!None /\ next.mounted = runs[r].mounted
  BY <1>2, <1>7 DEF run
<1> QED BY <1>5, <1>7, <1>8, <1>9, RunGoesOn

\* The call is built on a candidate, and an approval is for the amount of the run.
LEMMA BuildKeeps ==
    ASSUME DepositConstants, DepositInv, NEW r \in Runs,
           PD!buildV4SingleSidedCall(r) \/ PD!Approve(r)
    PROVE  DepositInv'
<1>1. runs[r].kind \in {"quote", "approve"} /\ UNCHANGED <<lform, deposits>>
      /\ allowance' \in {allowance, runs[r].amountIn}
  BY DEF PD!buildV4SingleSidedCall, PD!Approve
<1>2. runs[r] # PD!None /\ RunSound(runs[r])
  BY <1>1, RunIsNotNone DEF DepositInv
<1>3. runs[r].amountIn \in Amounts /\ runs[r].amountIn \in Nat
  BY <1>2 DEF RunSound, RunStates, DepositConstants
<1>4. allowance' \in Int /\ \E a \in Amounts : allowance' <= a
  BY <1>1, <1>3 DEF DepositInv
<1>5. runs[r].best # PD!None
  <2>1. CASE PD!Approve(r)
    BY <1>2, <2>1 DEF PD!Approve, RunSound
  <2>2. CASE PD!buildV4SingleSidedCall(r)
    <3>1. runs[r].left = 0 \/ runs[r].low > runs[r].high
      BY <2>2 DEF PD!buildV4SingleSidedCall
    <3>2. runs[r].low \in Nat /\ runs[r].high \in Int /\ MaxQuotes # 0
      BY <1>2 DEF RunSound, RunStates, DepositConstants
    <3> QED BY <1>2, <3>1, <3>2 DEF RunSound
  <2> QED BY <2>1, <2>2
<1>6. PICK k \in {"approve", "send"} : runs' = [runs EXCEPT ![r] = [runs[r] EXCEPT !.kind = k]]
  BY DEF PD!buildV4SingleSidedCall, PD!Approve
<1>7. RunSound([runs[r] EXCEPT !.kind = k]) /\ [runs[r] EXCEPT !.kind = k].mounted = runs[r].mounted
  BY <1>2, <1>5, KindSound
<1> QED BY <1>1, <1>2, <1>4, <1>6, <1>7, RunGoesOn

\* The deposit takes over what the run has captured.
LEMMA SendKeeps ==
    ASSUME DepositConstants, DepositInv, NEW r \in Runs, PD!Deposit(r) PROVE DepositInv'
<1> DEFINE new == [status |-> "pending", amountIn |-> runs[r].amountIn, quote |-> runs[r].best, out |-> 0]
<1>1. runs[r].kind = "send" /\ deposits' = Append(deposits, new) /\ PD!End(r, TRUE)
      /\ allowance' = allowance
  BY DEF PD!Deposit
<1>2. runs[r] # PD!None /\ RunSound(runs[r])
  BY <1>1, RunIsNotNone DEF DepositInv
<1>3. runs[r].amountIn \in Amounts /\ SplitSound(runs[r].best, runs[r].amountIn)
  BY <1>1, <1>2 DEF RunSound, RunStates
<1>4. new \in DepositStates
  BY <1>3 DEF DepositStates, SplitSound
<1>5. DepositSound(new)
  BY <1>3, <1>4 DEF DepositSound
<1> HIDE DEF new
<1>6. /\ deposits' \in Seq(DepositStates)
      /\ \A t \in DOMAIN deposits' : deposits'[t] = new \/ (t \in DOMAIN deposits /\ deposits'[t] = deposits[t])
  BY <1>1, <1>4, AppendProperties DEF DepositInv
<1>7. \A t \in DOMAIN deposits' : DepositSound(deposits'[t])
  BY <1>5, <1>6 DEF DepositInv
<1> QED BY <1>1, <1>2, <1>6, <1>7, EndKeeps

\* The router takes the input and pays no less than was asked for, or reverts.
LEMMA MineKeeps ==
    ASSUME DepositConstants, DepositInv, NEW t \in DOMAIN deposits, PD!Mine(t) PROVE DepositInv'
<1> DEFINE deposit == deposits[t]
<1>1. deposit \in DepositStates /\ DepositSound(deposit) /\ deposit.amountIn \in Nat
      /\ deposit.quote.swapAmountIn \in Nat
  <2>1. DepositSound(deposit)
    BY DEF DepositInv
  <2>2. deposit \in DepositStates
    BY <2>1 DEF DepositSound
  <2> QED BY <2>1, <2>2 DEF DepositStates, DepositConstants, SplitStates
<1>2. ASSUME NEW next, DepositSound(next), deposits' = [deposits EXCEPT ![t] = next],
             allowance' \in Int, \E a \in Amounts : allowance' <= a, UNCHANGED <<lform, runs>>
      PROVE  DepositInv'
  <2>1. next \in DepositStates
    BY <1>2 DEF DepositSound
  <2>2. deposits' \in Seq(DepositStates)
        /\ \A u \in DOMAIN deposits' : u \in DOMAIN deposits /\ deposits'[u] = IF u = t THEN next ELSE deposits[u]
    BY <1>2, <2>1, ExceptSeq DEF DepositInv
  <2>3. \A u \in DOMAIN deposits' : DepositSound(deposits'[u])
    BY <1>2, <2>2 DEF DepositInv
  <2> QED BY <1>2, <2>2, <2>3 DEF DepositInv, Mounted
<1>3. CASE deposits' = [deposits EXCEPT ![t].status = "reverted"] /\ UNCHANGED <<allowance, lform, runs>>
  <2>1. deposits' = [deposits EXCEPT ![t] = [deposit EXCEPT !.status = "reverted"]]
    BY <1>3
  <2>2. DepositSound([deposit EXCEPT !.status = "reverted"])
    BY <1>1 DEF DepositSound, DepositStates
  <2>3. allowance' \in Int /\ \E a \in Amounts : allowance' <= a
    BY <1>3 DEF DepositInv
  <2> QED BY <1>2, <1>3, <2>1, <2>2, <2>3
<1>4. ASSUME NEW out \in Nat, out >= deposit.quote.minAmountOut,
             deposits' = [deposits EXCEPT ![t].status = "ok", ![t].out = out],
             allowance' = allowance - deposit.amountIn, UNCHANGED <<lform, runs>>
      PROVE  DepositInv'
  <2> DEFINE next == [deposit EXCEPT !.status = "ok", !.out = out]
  <2>1. deposits' = [deposits EXCEPT ![t] = next]
    BY <1>4
  <2>2. DepositSound(next)
    BY <1>1, <1>4 DEF DepositSound, DepositStates
  <2>3. allowance \in Int /\ \E a \in Amounts : a \in Nat /\ allowance <= a
    BY DEF DepositInv, DepositConstants
  <2>4. allowance' \in Int /\ \E a \in Amounts : allowance' <= a
    BY <1>1, <1>4, <2>3
  <2> HIDE DEF next
  <2> QED BY <1>2, <1>4, <2>1, <2>2, <2>4
<1>5. \A buys \in BuyRates : deposit.quote.swapAmountIn * buys \in Nat
  BY <1>1 DEF DepositConstants
<1> QED BY <1>3, <1>4, <1>5 DEF PD!Mine

\* The page opens with an empty form.
LEMMA DepositInitial == ASSUME DepositConstants, PD!FormInit PROVE DepositInv
<1>1. lform \in FormStates
  BY DEF PD!FormInit, PD!Fresh, FormStates
<1>2. PICK a \in Amounts : a \in Nat
  BY DEF DepositConstants
<1>3. allowance \in Int /\ allowance <= a
  BY <1>2 DEF PD!FormInit
<1>4. deposits \in Seq(DepositStates) /\ DOMAIN deposits = {}
  BY DEF PD!FormInit
<1>5. DOMAIN runs = Runs /\ runs = [r \in Runs |-> runs[r]] /\ \A r \in Runs : runs[r] = PD!None
  BY DEF PD!FormInit
<1> QED BY <1>1, <1>3, <1>4, <1>5 DEF DepositInv, Mounted

\* What the invariant says of the form, the allowance and the deposits.
LEMMA PressedAsDeposited == ASSUME DepositConstants, DepositInv PROVE PD!DepositAsPressed
<1>1. Cardinality({r \in Runs : runs[r] # PD!None /\ runs[r].mounted}) <= 1
  <2> DEFINE S == {r \in Runs : runs[r] # PD!None /\ runs[r].mounted}
  <2>1. \A r, s \in S : r = s
    BY DEF DepositInv, Mounted
  <2>2. CASE S = {}
    <3>1. Cardinality(S) = 0
      BY <2>2, FS_EmptySet
    <3> QED BY <3>1
  <2>3. ASSUME NEW r \in S PROVE Cardinality(S) <= 1
    <3>1. S = {r}
      BY <2>1, <2>3
    <3> HIDE DEF S
    <3>2. Cardinality(S) = 1
      BY <3>1, FS_Singleton
    <3> QED BY <3>2
  <2> QED BY <2>2, <2>3
<1>2. ASSUME NEW t \in DOMAIN deposits, deposits[t].status = "ok"
      PROVE  /\ deposits[t].quote.swapAmountIn \in 1 .. deposits[t].amountIn - 1
             /\ 10 * deposits[t].out >= (10 - Slip) * deposits[t].quote.amountOut
  <2> DEFINE d == deposits[t]
             least == d.quote.minAmountOut
             kept == (10 - Slip) * d.quote.amountOut
  <2>1. DepositSound(d)
    BY DEF DepositInv
  <2>2. d \in DepositStates /\ d.quote \in SplitStates /\ SplitSound(d.quote, d.amountIn) /\ d.out >= least
    BY <1>2, <2>1 DEF DepositSound, SplitSound
  <2>3. d.out \in Int /\ least \in Int /\ d.quote.amountOut \in Int
    BY <2>2 DEF DepositStates, SplitStates
  <2>4. kept \in Int /\ 10 * least >= kept
    BY <2>2, <2>3 DEF SplitSound, DepositConstants
  <2>5. 10 * d.out >= kept
    <3> HIDE DEF d, least, kept
    <3>1. d.out >= least
      BY <2>2
    <3> QED BY <2>3, <2>4, <3>1
  <2> QED BY <2>2, <2>5 DEF SplitSound
<1>3. \E a \in Amounts : allowance <= a
  BY DEF DepositInv
<1>4. PD!Cardinality({r \in Runs : runs[r] # PD!None /\ runs[r].mounted}) <= 1
  <2>1. \A S : PD!Cardinality(S) = Cardinality(S)
    BY Zenon DEF PD!Cardinality, Cardinality, PD!IsFiniteSet, IsFiniteSet
  <2> QED BY <1>1, <2>1
<1> QED BY <1>2, <1>3, <1>4 DEF PD!DepositAsPressed

\* One form prepares one deposit at a time, the router may take no more than one of
\* them, and a deposit that goes through swapped a true part within the slippage, for
\* every amount, rate, slippage and number of overlapping submits.
THEOREM DepositsPressed == ASSUME DepositConstants PROVE PD!Spec => []DepositAsPressed
<1>1. PD!Init => DepositInv
  BY DepositInitial DEF PD!Init
<1>2. DepositInv /\ [PD!Next]_PD!vars => DepositInv'
  <2>1. CASE DepositInv /\ UNCHANGED PD!formVars
    BY <2>1 DEF DepositInv, PD!formVars, Mounted
  <2>2. CASE DepositInv /\ PD!FormNext
    BY <2>2, RemountKeeps, EditKeeps, SubmitKeeps, ThrowKeeps, SearchKeeps, BuildKeeps, SendKeeps,
       MineKeeps DEF PD!FormNext
  <2> QED BY <2>1, <2>2 DEF PD!Next, PD!vars
<1>3. DepositInv => DepositAsPressed
  BY PressedAsDeposited DEF DepositAsPressed
<1> QED BY <1>1, <1>2, <1>3, PTL DEF PD!Spec
=============================================================================
