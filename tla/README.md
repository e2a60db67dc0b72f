# TLA+ models of AetherDEX

A verification project for AetherDEX: a Uniswap v4 front of Solidity contracts
(`packages/contracts`), an API of Cloudflare Workers with D1, KV, queues, cron
and Durable Objects (`apps/api`), and a web application (`apps/web`).  The
modules model the parts that keep state and are hard to test: contracts whose
calls are interrupted by code they do not control, and workers whose handlers
interleave at every `await`; and pages whose handlers run on while their inputs
change.  TLC checks small instances of all of them; the TLA+ proof system proves
every safety property the passing runs check, and every refinement, for every
value of the constants, under assumptions that are named and that TLC evaluates.

All paths below are relative to the repository; `contracts/` stands for
`packages/contracts/src/`, `api/` for `apps/api/src/` and `web/` for
`apps/web/src/`.

    tlc -workers 2 -config MCTpslContract.cfg MCTpslContract    # a run
    tlapm TpslContractProofs.tla                                # a proof

`PROJECT.json` lists components, runs, mutants, the source lines behind every
definition (`map`), hazards, findings and theorems.

## 1. Inventory

### On chain

| Component | State | Operations | Made correct by |
|---|---|---|---|
| `contracts/tpsl/AetherTPSL.sol` | orders, id counter, two index arrays | `createOrder`, `cancelOrder`, `executeOrder` + `unlockCallback` | an order is filled once, in full, at its terms, or not at all; the contract keeps no funds; a settled order stays settled; indexes agree with orders |
| `contracts/hook/AetherHook.sol` | per pool a ring of observations | `afterSwap`, `getTwapTick`, `observe` | the average is the true one, also across the seam of the ring and for negative ticks |
| `contracts/position/AetherPositionManager.sol` | ERC-721 owners, positions, id counter | `mintPosition`, `removeLiquidity`, `rebalancePosition` | tokens stand for exactly the liquidity in the pool; a call settles up within the limits of its caller |
| `contracts/router/AetherRouter.sol` | owner and liquidity per position hash | two swaps, two deposits, one withdrawal | the ledger is the pool's liquidity; a call keeps its caller's terms |
| `contracts/router/AetherV3ZapExecutor.sol` | stray balances, allowances during a call | `zap`: swap, mint on v3, refund; `rescueTokens` | what the market did not take comes back; what was there before stays |
| `contracts/factory/AetherFactory.sol` | registry of pools, owner | register, set owner | write-once entries; not modelled |

### Off chain

| Component | State | Operations | Made correct by |
|---|---|---|---|
| TP/SL routes and service (`api/routes/tp-sl.ts`, `api/services/tp-sl.service.ts`) | D1 `tp_sl_orders` | `POST`, `DELETE`, reads | one row per order on chain |
| keeper tick (`api/workers/cron-handler.ts`) | - (reads and expires rows) | select, enqueue, expire | nothing expires early, the tick dies anywhere |
| keeper consumer (`api/workers/queue-handler.ts`) | queue messages | `tp-sl-evaluate` and others | a row says executed only if the chain does; every message leaves the queue |
| keeper signer (`api/lib/keeper-signer.ts`) | nonce cursor and lock of one signer | preflight, submit, await the receipt | no nonce answers twice for those who share a signer; nothing is sent without a full configuration; a confirmed order was executed (not so, see findings) |
| prices of the keeper (`cron-handler.ts`, `queue-handler.ts`) | KV keys that expire | refresh, price job, spot, TWAP, decision | a submission rests on a breach the contract would see, by recent prices |
| v3 liquidity indexer (`api/services/v3-liquidity-indexer.service.ts`) | D1 `liquidity_events`, a cursor | cron tick | only canonical events, none missing below the cursor |
| multi-source indexer (`api/services/indexer.service.ts`) | D1 pools, transactions, liquidity, cursors | cron tick over sources, backfill message | no duplicates, no gaps, no dangling reference, working sources advance |
| positions (`api/services/position.service.ts`, `v3-position-reducer.ts`, both readers) | D1 `positions`, over `liquidity_events` | record, reconcile, list | a reconciled position that is shown was so at one final block |
| SIWE (`api/auth/`, `api/durable-objects/siwe-nonce-do.ts`) | a record and an alarm per nonce, sessions in KV | issue, consume, alarm; look up, log out | one session per nonce; an unused nonce works until it expires; a live session is kept, an ended one refused |
| circuit breaker (`api/middleware/circuit-breaker.ts`) | two KV keys per circuit | every guarded request | opens on real failures, recovers |
| rate limiter (`api/middleware/rate-limit.ts`) | one KV key per caller | every guarded request | no early rejection, no rejection for ever |
| volume alerts (`api/services/volume-alerts.service.ts`, its hub object) | KV cooldowns, sockets with filters | cron tick, broadcast, Telegram | once per cooldown, no silence without an announcement |
| WebSocket price hub, order-book object (`api/durable-objects/`) | sockets, attachments, a stored snapshot | connect, subscribe, broadcast, update, hibernation | those who watch are told, and nobody else; who is connected sees the last snapshot |
| price service and guard, token list (`api/services/`) | KV over D1 over sources | read, refresh, fall back | what is answered is as recent as its lifetimes allow, and dated truly |
| quotes (`api/services/quote-engine.ts`, `chain-state-reader.ts`, `v3-quote.service.ts`) | none | read a pinned block, simulate, answer | a quote is exact for one block |
| auto-recenter | KV and queue | | its handler returns on every message today (divergence 9) |
| pools, tokens, liquidity reads, storage adapters, MEV headers | none of their own | reads, headers | not modelled, see section 5 |

### In the browser

| Component | State | Operations | Made correct by |
|---|---|---|---|
| swap page (`web/routes/swap.tsx`, `web/hooks/useSiweAuth.ts`) | form, quote, swap state | quote effect, `handleSwap`, receipt effect | what is executed is what was shown, once, and it is recorded once |
| pool page and its form (`web/routes/pools.$poolId.tsx`, `web/lib/liquidity.ts`, `v4-liquidity.ts`) | pool, tokens, form, allowance | load, search, approve, deposit | the pool of the route; a deposit as pressed, no allowance beyond it |
| positions page (`web/routes/positions.tsx`) | positions, selection, form | load, select, prepare | positions of the connected wallet only |
| pool creation page (`web/routes/pools.new.tsx`) | form, acknowledgement | validate, encode, prepare | the price is encoded as the pool will read it |
| live prices (`web/hooks/useWebSocket.ts`, `web/components/PriceTicker.tsx`) | socket, timers, attempts | connect, reconnect, render | ends up connected, whatever old sockets still do |
| token picker (`web/components/TokenSearch.tsx`) | lists, timer, searches | open, type, select | a loaded list stays, a spinner ends |

### How they interact

    user -- createOrder / cancelOrder --> AetherTPSL <-- executeOrder -- anybody
      |                                     |   ^                          ^
      | POST, DELETE                PoolManager  getTwapTick          keeper signer
      v                              + hooks    |                          ^
    D1 tp_sl_orders <-- UPDATE -- consumer  AetherHook                     |
      ^      |                       ^ |______________ evaluate ___________|
      |   SELECT                     |
      +-- keeper cron tick -- send --+ queue (at least once, dead letters)

    chain logs --> v3 indexer (cron) --> D1 liquidity_events, indexer_cursors
              \--> indexer (cron, backfill messages) --> D1 pools, transactions, ...

    v3 indexer's events --> position reconciliation --> D1 positions --> pages
    cron --> price jobs (queue) --> KV prices --> KV spot --> evaluate --> signer
                                 \--> price hub (DO) --> sockets --> Ticker
    cron --> volume alerts --> alert hub (DO), Telegram, KV cooldowns

    requests --> rate limiter (KV) --> circuit breaker (KV) --> SIWE session (KV)
                                                                  ^ nonce object (DO)

    pages -- quote, build, record, lists --> API      pages -- sign, send --> wallet --> chain

Two kinds of concurrency make this hard.  On chain a transaction is atomic, but
inside it control goes to tokens, pools, hooks and receivers, which call back;
what protects a contract is its reentrancy guard and the revert of the whole
transaction, and what the guard does not cover (token transfers, gifts of
currency) happens in the middle of calls.  Off chain nothing is atomic: every
`await` is a place where other handlers run and where the invocation may die;
KV and D1 calls are read and written back without a transaction; queues deliver
twice; a node may lag and the newest blocks may be replaced; objects hibernate
and forget their maps.  In the browser an effect is cleaned up and not stopped,
and an answer may arrive for inputs that are gone.

## 2. Modules

| Module | Models | One step is |
|---|---|---|
| `TpslOrders` | data of AetherTPSL: terms, the request check, the trigger | - |
| `AtomicTpsl` | abstract: what the contract promises, a fill is one step | an order placed, cancelled, filled |
| `TpslContract` | AetherTPSL as it runs; refines `AtomicTpsl` | one external call of `executeOrder` |
| `KeeperPipeline` | routes, cron, queue, consumer, signer; the contract as in `AtomicTpsl` | one await |
| `TwapOracle` | the ring of AetherHook and the average read from it | one `afterSwap`, one second |
| `PositionManager` | AetherPositionManager, one pool, several tokens | one group of external calls |
| `Router` | AetherRouter, one pool of two ERC-20 tokens | one unlock operation |
| `ZapExecutor` | AetherV3ZapExecutor over an external v3 market | one group of external calls |
| `KeeperSigner` | the signer with its account, relay and mempool | one await |
| `PriceFeed` | cron, price jobs, expiring keys, evaluation | one await |
| `V3Indexer` | the v3 tick over a chain that reorganises | one await |
| `Indexer` | `indexChain`, `indexRange`, the D1 writes | one await |
| `Positions` | record, reconcile and list, over `V3Indexer`'s table | one await |
| `Siwe` | nonces, their objects, sessions made of them | one storage call |
| `Session` | sessions in KV from creation to expiry | one KV call |
| `CircuitBreaker`, `RateLimit` | the two KV state machines | one KV call |
| `PriceCache`, `TokenList` | the two layered caches of the API | one await |
| `PriceHub`, `OrderBook` | the two socket objects across hibernation | one event |
| `VolumeAlerts` | the alert tick and its hub | one await |
| `QuoteEngine` | reading a pool, simulating, choosing the engine | one await |
| `SwapPage` | the quote effect, the swap and its receipt, with API, wallet and chain | one await, one edit |
| `PoolPage` | what the page of a pool loads, and its deposit form | one await, one edit |
| `PositionsPage`, `PoolCreation`, `TokenPicker`, `Ticker` | what a page loads, shows and prepares | one event |

An `MC*` module extends its model with the values its `.cfg` cannot write down.
Five of them (`MCTpslContract`, `MCRouter`, `MCGuards`, `MCWeb`, `MCFeeds`) hold
several models that share no state: `part` says which one a behaviour runs, and
the others keep their initial state, so that one run explores the sum of the
state spaces and never their product.  `Parts` of `MCTpslContract` restricts it
further: two of the violation runs are of its oracle and of its signer alone.
`*Proofs` modules extend a model, or the `MC*` module of several, and `TLAPS`.  Definitions called
"Mutant of X" are plausible bugs in X; no specification uses them, they show
that a property would notice.

### On-chain models

A contract with interruptible calls is modelled the same way four times.
`call` is the call on the stack (or `NoCall`), its `phase` says which external
call comes next, and `call.saved` is the state the transaction started from.
`Revert` restores it at any point until the call has ended: any check, callee or
receiver may fail.  The `Idle` guard of the entry points is `nonReentrant`; what
the guard does not cover stays enabled in between.

*TpslContract.*  `ExecuteTriggered -> Pull -> Swap -> Settle -> Take ->
CloseUnlock -> Commit` follow `executeOrder` and `unlockCallback`; the swap may
consume less than it was given and return any amount, and moves price and TWAP.
`ExecuteExpired` writes `EXPIRED` and can only be followed by `Revert`, as
in the code.  `AtomicTpsl` is what the header of the contract promises;
the refinement mapping shows the *committed* state (the saved one while a call
is on the stack), so the whole execution is invisible up to its `Commit`.

*PositionManager.*  `pull, remove, take, add, settle, record, refund, pay`;
a mint uses `pull add settle record refund`, a removal `remove take record
pay`, a rebalance all but the payment.  Each position has its own salt in the
pool.  `TransferToken` and `Give` stay enabled inside calls, so a position may
change hands in the middle of its own rebalance.  The amounts a pool asks for
or pays are free choices.  `delta` is the PoolManager's account and
`UnlockCloses` its check; a step that is several calls in the code (sync,
transfer, settle) is one step here because nothing in between reads what the
others could change.

*Router.*  `pull, swap, add, remove, finish`; the fee on deposits, the ledger
`positionOwner`/`positionLiquidity`, the rule that a single-sided deposit may
spend only what came in since it began, and the refunds are kept.  Swap amounts
are free, so that both sign conventions the handlers use for `amountSpecified`
are covered (divergence 12).

*ZapExecutor.*  `pull, swap, mint, refund0, refund1`.  The snapshot of the
balances is `call.saved.held`; the router may take less than it is allowed, and
of the output it reports a part may be lost to a fee on transfers.
`RescueTokens` and `Give` stay enabled inside a zap.

*TwapOracle.*  The ring is `obs`, `index`, `count` exactly as stored; the binary
search, the interpolation and the floor division are functions translated from
the source.  `trace` records what really held in each second, `WindowSum` is
the reference average.  `InputPositive` is a parameter because the sign of the
deltas is PoolManager's (external), see the finding below.

### Off-chain models

*KeeperPipeline.*  `rows` is the table, `msgs` the queue with the stage of each
message's handler, `txs` the keeper's transactions, `chain` the contract's
status of each order, `cron` the running tick, `verified` the `POST` requests
between their chain reads and their insert.  `Redeliver`, `TickFail`, `Drop`,
and the alternatives of `Submit` and `AwaitReceipt` are the crashes, lost
answers, dropped transactions and timeouts.  `Retry` counts deliveries up to
the queue's `max_retries`, then dead-letters.

*KeeperSigner.*  The same submission seen from inside: settings, preflight, lock,
nonce cursor, relay or mempool, the wait for a receipt.  `signerOf` says which
messages share a signer; the consumer makes one per message.  An account nonce
is used once, so of two transactions with one nonce one is replaced, and the
wait for it returns the receipt of the other.

*PriceFeed.*  Values carry the time they were true (`asOf`) through the token
keys, the spot and the TWAP key, each with its lifetime; a failed lookup is
stored as 0, as in the code.  Ages add up over handlers of at most `MaxDelay`.

*V3Indexer, Indexer.*  A tick is `ReadHead, NextRange/ReadCursor, ReadLogs/
FetchLogs, Insert.../Persist..., SaveCursor`.  Ticks overlap; `FailTick`/`Fail`
ends one anywhere.  V3Indexer has block versions, reorganisations of bounded
depth and lagging nodes; Indexer, whose code has no provision for either, has a
chain that only grows, several sources, event kinds and backfills.

*Positions* extends V3Indexer.  A history gives every version of every block a
log; a reconciliation reads owner and head from the chain, then the events, then
writes the row.  The reducer is a recursive function over the sequence of indexed
events, and `ShownPositionsWereReal` compares it with the chain itself: what the
position manager did, block by block, on the branch that won.

*Siwe.*  The Durable Object's storage survives, its gate
(`blockConcurrencyWhile`) does not: `Evict` kills an instance between any two
storage calls.  Alarms run behind the same gate and are delivered again after a
crash.

*Session.*  Each read of `Date.now()` is within `Skew` of the clock, each KV read
may be answered by an edge that has not heard of the last write for `Staleness`;
KV drops an entry by its own clock.  On `/auth` routes the middleware runs
twice, and what the first lookup attached stays.

*CircuitBreaker, RateLimit.*  Ages and remaining times are kept instead of
timestamps, so time has no end and liveness is not cut off by a bound; counters
are kept up to the threshold above which nothing changes.

*PriceCache, TokenList.*  A price or a list is known by when it was fetched; what
one request read may be written after another wrote.

*PriceHub, OrderBook, VolumeAlerts.*  `Hibernate` empties the maps of an object
and keeps sockets, attachments and storage.  PriceHub finds its sockets again,
OrderBook does not.  The alert tick announces, then arms the cooldown; ticks
overlap, die and throw.

*QuoteEngine.*  Blocks change price and positions between the reads of one quote;
`chain` keeps them all, and the exact answer is computed from the whole pool of
one of them.  The mathematics of a swap is a toy with the same shape (a price
that moves by one over the liquidity, ticks that change the liquidity), because
what can go wrong here is which block and which ticks are read.

### Models of the pages

A run of an effect or of a handler is a record with its stage and the values its
closure captured; cleaning an effect up marks its run and lets it go on.  React
state is set in one step and seen by the next render.  *SwapPage* keeps for each
transaction what was on the page when the user pressed the button.  Its form holds
the amount as text, its quotes and transactions hold base units: the page sends
the text unconverted and the API takes digits alone, so that one half is asked for
and never quoted, and one is one base unit (divergence 28).  *PoolCreation*
validates against the clock of its last render, which a page left alone does not
renew, and takes a price as the ratio of base units: page and property know
nothing of the decimals of the tokens.  *PoolPage* keeps a run
of the form's handler going after the form was replaced (page and form are two
halves of the module, each run by itself: a navigation is `Navigate` for the one
and `Remount`, at any time, for the other); *Ticker* numbers sockets and timers so
that events of old ones stay possible.

## 3. Runs

| Run | Instance | Checks |
|---|---|---|
| `tpsl_contract` | contract: 2 owners, 2 orders of 9 requests (2 good, one for each refusal), 2 prices or no TWAP, times to 3; oracle: ring of 3, 6 seconds, ticks -3, -1, 2; signer: 2 orders, shared or own signers, all settings | `NonCustodial`, `IndexesAgree`, `TerminalStatusKept`, refinement `AtomicSpec`; `OracleSound` (exact averages, ordered ring, answers every window it keeps); `SubmissionsSound` |
| `keeper` | 1 order, 2 messages, 2 transactions, 2 rows, 1 retry, `LIMIT` 1 | `RowsSound` (one row per order, no early expiry, executed only if the chain does), `OnlyExpiryOverwrites`, liveness `MessagesSettle` |
| `keeper_settled_row` | the same | violation of `SettledRowKept` |
| `keeper_receipt` | the signer of `tpsl_contract` by itself | violation of `ConfirmedOrderExecuted` |
| `twap_delta_sign` | the oracle of `tpsl_contract` by itself, with PoolManager's sign | violation of `TradesAreSampled` |
| `v3_indexer` | 2 ticks, 5 blocks, 2 versions, 1 confirmation, lag and depth 1; by itself, or one tick with reconciliations of v3 or v4 positions | `OnlyCanonicalEvents`, `NoGapBelowCursor`, `ShownPositionsWereReal`, liveness `EventsIndexed` |
| `indexer` | 2 ticks, 1 backfill, 2 sources, 3 logs in 3 blocks | `RowsSound` (no duplicates, no dangling pool), `NoGapBelowCursor`, liveness `WorkingSourcesIndexed` |
| `guards` | SIWE: 2 nonces, 2 requests, lifetime 2; breaker: threshold 3, cooldown 2; limiter: limit 2, window 2; sessions: 2 requests, lifetime 2, skew 1, staleness 2 | `OneSessionPerNonce`, `LiveNonceUsable`, `OpensOnRealFailures`, `NoEarlyRejection`, `SessionsSound`, liveness `NoncesCleanedUp`, `GuardsLetThrough` |
| `position_manager` | 2 users who are each other's operators, 2 tokens, 2 ranges, liquidity to 2, ether, a gift | `PoolBacksTokens`, `CallsSettleUp` |
| `router` | router: 2 users, 1 position, liquidity to 2, fee of one half; executor: one zap, 2 units of each token, a gift of each | `LedgerSound`, `CallersTermsKept` |
| `web` | 2 runs of every handler and effect, 2 pools, 2 wallets, 2 swaps of amounts typed as "0.5" or "1", one deposit; a row of 7 ticks over 2 blocks | `ExecutedAsQuoted` (in base units), `OneSwapAtATime`, `RecordedOnce`, `QuoteExact`, `DepositAsPressed`, `PagesShowTheirOwn`, `PriceEncoded`, liveness `PageSettles` |
| `feeds` | prices: one pool, one job, times to 4; 2 sockets and tokens; 2 alert ticks and pools; 4 connections; 2 requests at the caches; 2 loads and searches | `SubmitsOnFreshBreach`, `SocketsServed`, `AlertsSpaced`, `CachesHonest`, liveness `TickerRecovers` |

**Why the bounds are enough to see the hard cases.**  Every race in this code
is between two parties over one piece of state: two messages for one row, two
ticks over one cursor, two requests over one KV key, two runs of one effect.
The ring of three is filled and then overwritten completely in six seconds, so
that windows outlive it; ticks -3, -1 and 2 make negative sums that do not
divide.  A fee of one half rounds to nothing for one unit and takes one of two.
A threshold of three is reached by one heavy and one light failure, and not by
two light ones.  In `v3_indexer` confirmations, lag and depth are equal, which
is the tightest case the assumption allows; the history of `MCV3Indexer` mints,
withdraws (once for more than was put in), collects and hands the position on,
differently in each version of the chain.  A session lives as long as two clocks
may differ, so that it may be issued in a reader's future and be over early.
A socket's attachment holds one token of two, so that lists outgrow it.
Lifetimes of one and periods of two make every key expire between two runs of
the cron, as they do in production (60 s and 300 s).  The four connections of
`Ticker` are the first, one for a move and one for each of two faults.  The window of
the quote reader covers a part of the ticks, so that a swap may run out of it.
The proofs remove the bounds where there are any.

**Deadlock** is checked except where bounded clocks, funds, ids or runs let the
system stop (`MCTpslContract`, `MCKeeper`, `MCKeeperSettledRow`,
`MCKeeperReceipt`, `MCGuards`, `MCPositionManager`, `MCRouter`, `MCWeb`,
`MCFeeds`).

**Symmetry** is used in `position_manager` (users, ranges) and `router` (users);
both check safety and step properties only, and no value of a symmetric set is
singled out.

### Fairness

Only where a liveness property needs it.

- `keeper`: the cron and delivered messages run on (Cloudflare invokes and
  delivers them; viem's receipt wait times out), and time passes.  Nothing is
  assumed of the chain, of transactions, of users or of failures: `MessagesSettle`
  holds because deliveries are counted.
- `v3_indexer`, `indexer`: the cron fires every five minutes and a started tick
  runs on; failures of RPC and D1 come to an end (for sources that are not
  `Broken`).  Without the last assumption a tick may fail for ever and nothing
  could be promised.
- `guards`: requests at breaker and limiter keep coming, each runs to its end,
  time passes.  For the nonces: what runs inside a gate ends, and alarms are
  delivered (strong fairness: requests that keep taking the gate may not starve
  the alarm; the gate is a queue).  None for the sessions.
- `web`: timers fire, and the requests of quotes and receipts are answered or
  fail in the end.  Nothing is assumed of the user, who `PageSettles` says must
  leave the inputs alone, nor of the chain.
- `feeds`: sockets that are connecting open or fail, timers fire.  Faults are
  finite, fewer than the attempts the hook makes.

### Findings (violation runs)

- `keeper_settled_row`: the consumer selects a pending row and expires it in a
  later statement that does not ask again (`api/workers/queue-handler.ts:311`), so
  a row that its owner cancelled, or another message recorded as executed, in
  between becomes expired, although line 297 says "1. Verify order is still
  pending".  The execution UPDATE does ask.  `OnlyExpiryOverwrites` is what
  holds.
- `keeper_receipt`: `awaitConfirmation` takes any `OrderExecuted` log of the
  contract for its own (`api/lib/keeper-signer.ts:400`) and does not look at the
  order in it.  Each message has a signer of its own (`queue-handler.ts:440`), two
  may use one nonce, and the wait for the replaced transaction is answered with
  the receipt of the other: a row says executed and its order is not.
- `twap_delta_sign`: `AetherHook.afterSwap` samples only if the input delta is
  positive (`contracts/hook/AetherHook.sol:184`), while the PoolManager reports
  what the swapper owes as a negative delta, as `AetherRouter.sol:482` and
  `AetherTPSL.sol:416` read it.  With that sign no trade is sampled and
  `getTwapTick` reverts.  The other properties of the oracle are checked with
  the sign the hook expects.

### Divergences without a run

Noticed while modelling; the models follow the code.

1. `slippageBps` of an order is checked at creation and never read again
   (`AetherTPSL.sol:257`), against "maximum 5% slippage on execution" (`:31`);
   `minAmountOut` alone protects the owner.
2. The keeper tick returns before its expiry UPDATE when it selects no live
   order (`api/workers/cron-handler.ts:208`, against
   `docs/exploration/alps-farm-refactor-plan.md:394`): the last overdue rows stay
   pending.
3. `DELETE /orders/:id` changes D1 only (`api/routes/tp-sl.ts:296`, `:6`): the
   order on chain can still be executed by anybody.
4. An open circuit past its cooldown admits every request, not "ONE trial
   request" (`api/middleware/circuit-breaker.ts:168`, `:10`); a late trial writes
   half_open over a circuit another trial has just re-opened (`:179`, `:11`); a
   success does not reset the counter of "Consecutive failures" (`:213`,
   `api/lib/safety-config.ts:33`).
5. Requests that overlap read the same count, so the limiter may count them as one
   (`api/middleware/rate-limit.ts:91`).
6. Swaps are keyed by chain and transaction: of several swaps in a transaction
   the first is kept (`api/db/queries.ts:158`, `api/services/indexer.service.ts:304`).
7. A backfill or an overlapping tick takes the price of a pool back to an older
   swap (`indexer.service.ts:242`).
8. The failure of a source ends the tick for the sources after it
   (`indexer.service.ts:420`, against `cron-handler.ts:144`).
9. Auto-recenter needs a cached tick and sqrt price that nothing writes
   (`cron-handler.ts:344`, `queue-handler.ts:547`).
10. The settlement job updates a column the table does not have
    (`queue-handler.ts:636`, `migrations/0005_chain_qualified_pool_keys.sql:27`).
11. `addLiquidity` can be covered by tokens somebody left in the router when the
    pool asks for more than the net deposit (`AetherRouter.sol:483`, against the
    comment at `:264`); `CallsKeepTerms` names the exception.
12. `AetherRouter` passes a positive `amountSpecified` for exact input (`:428`)
    and a negative one for another (`:529`); for the PoolManager one of them means
    exact output, and unlock reverts what does not settle.
13. `rescueTokens` can run in the middle of a zap, if a token hands control to
    the owner (`AetherV3ZapExecutor.sol:158`, against "no caller's zap funds can be
    in flight when a rescue runs", `:153`); and an output token that charges for
    transfers lets the mint draw on what was there before (`:125`, against `:85`).
    `ZapKeepsTerms` names both exceptions.
14. A fill is believed after one confirmation (`api/lib/keeper-signer.ts:391`), and
    a reorganisation leaves its row executed.  A signer shared by several messages
    whose relay forgets an answered transaction leaves a nonce gap until restart.
15. `LIMIT 50` by creation time hides the fifty-first pending order from the keeper
    (`cron-handler.ts:188`).  A failed backfill is acknowledged and never retried
    (`queue-handler.ts:283`).  The multi-source indexer has no confirmations
    (`indexer.service.ts:370`).
16. Token prices live for 60 s and are read right after their refresh was enqueued
    (`cron-handler.ts:320`) by a cron of every 300 s: mostly the spot is made of
    nothing, is not written, and `tp-sl-evaluate` stops.  The spot is a ratio of
    USD quotes without decimals; a failed lookup is stored as 0; two price jobs may
    put the older answer last.
17. `api/services/keeper.service.ts:11` says it evaluates triggers; its tick logs,
    and nothing imports it.
18. A row of D1 may be written back to KV over a newer price (`price.service.ts:233`);
    the bound of `AnsweredPriceFresh` includes it.  The fallback rows of the token
    list are never deleted, so delisted tokens come back when a fetch fails, though
    `token-list.service.ts:5` calls D1 a write-through cache only.
19. The reducer ignores a withdrawal of more of a token than was put in
    (`v3-position-reducer.ts:68`), counts collected principal as fees, and an
    increase does not revive an emptied position; `ShownPositionsWereReal` names
    the first.  `POST /positions` stores what the client claims.  A v4
    reconciliation reads an unconfirmed head.
20. A list of watched tokens beyond 2 KB is lost when the price hub sleeps, after it
    was acknowledged; to stop watching the last token is to watch all.  The
    order-book object does not find its sockets after a sleep, and nothing posts to
    its `/update`, though its comment names the queue consumers.
21. A volume alert whose broadcast failed still arms its cooldown; ticks that
    overlap, or die in between, announce twice (`AlertsSpaced` says when).
22. Sessions: KV may answer a deleted session for a minute, so a logout is not
    immediate; the middleware runs twice on `/auth` routes (`index.ts:101`,
    `auth/routes.ts:15`).  Two copies of `useSiweAuth` do not share their state, and
    a sign-in that ends after `signOut` signs in again.
23. The pages post to `/swap/build` and `/swap/record`, mounted at `/api/v1`
    (`index.ts:231`); `useSiweAuth` gets `/auth/nonce` where the API only has a POST.
    A record needs a block timestamp receipts do not carry.
24. Swap page: a load cancelled by inputs that cannot be quoted leaves
    `quoteLoading` set; a reverted transaction leaves the page pending; what is
    recorded is the quote and the tokens of the moment of the receipt.
25. Pool page: a pool that cannot be loaded leaves the previous one on the page; a
    failed approval is not looked at; an edit enables the button only once a
    running preparation has ended.  Positions page: to disconnect during a load
    leaves it pending until the next wallet.  Another position does not reset
    `submitted`.  Pool creation: the price fields do not reset what was prepared
    (against `web/routes/pools.new.tsx:195`).
26. Ticker: the close of the old socket after a change of token reconnects to the
    old address, the page shows the old token's price until a message of the new one
    comes, and the first of two messages before a render is lost.  Token picker: a
    search is never cancelled, its answer may replace that of a newer one.
27. The approximate engine takes the fee of a v4 pool (hundredths of a basis point)
    for basis points (`api/services/swap.service.ts`): 3000 counts as 30 %, 10000
    pays nothing.
28. Swap page: the amount is typed next to a token, "1.5" is accepted (as
    `apps/web/test/e2e/swap.spec.ts:20` checks), and it is sent as it is
    (`web/routes/swap.tsx:77`), while the API takes base units
    (`api/routes/swap.ts:136` asks for `1000000000000000000`) and digits alone
    (`api/services/swap.service.ts:298`).  So "1.5" is never quoted and "1" quotes
    and executes one base unit, though amount and rate are shown with the decimals
    of the tokens (`swap.tsx:286`, `:314`); the pool page converts what is typed
    (`pools.$poolId.tsx:258`).  `ExecutedAsQuoted` is about base units.
29. Pool creation: the deadline is checked when the page is rendered
    (`web/routes/pools.new.tsx:172`), not when the button is pressed; one that has
    passed since can still be prepared.
30. A swap indexed before its pool stays without `pool_id`
    (`indexer.service.ts:268`); `RowsSound` excludes only those that refer to no pool.

## 4. Proofs

All leaves are checked by tlapm.  Every invariant and every step property of a
passing run is stated by a theorem, `RowsSound` of the keeper and
`NoGapBelowCursor` of the multi-source indexer under a hypothesis each, which
the run's instance meets.  A theorem about a part of an `MC*` module is about the
part's own specification (`CB!Spec`, not `GuardsSpec`): there the other parts do
not move at all.

| Module | Theorems about |
|---|---|
| `TpslContractProofs` | the contract and its refinement, the oracle, the signer |
| `KeeperProofs` | the pipeline, prices, alerts, socket objects, caches |
| `V3IndexerProofs` | the v3 indexer, the positions over it |
| `IndexerProofs` | the multi-source indexer |
| `GuardsProofs` | nonces, sessions, breaker, limiter |
| `PositionManagerProofs` | the position manager |
| `RouterProofs` | the router, the zap executor |
| `SwapPageProofs` | the swap page, quotes, pool and positions page, deposits, pool creation |

**Recursive functions.**  The prover cannot instantiate the library's induction
theorems, which take an operator.  What a search, a sum, a fold or a square root
computes is proved all the same, by writing the induction out: the statement's
exceptions are a set of naturals (or of spans, or of blocks), a set of naturals
that is not empty has a least member, and the step lemma shows that it is none.
That the recursive text defines a function at all is part of it: `CHOOSE` picks
one, if there is one, and that there is one is proved by extending a function that
is right up to *n* to one that is right up to *n* + 1.

**TpslContractProofs.**  `IInv == TypeOK /\ CallConsistent /\ Rest`.
`CallConsistent` says for each phase how far the state has moved from
`call.saved`: not at all before the pull, one debit before the settlement, and
so on, and that the decision to execute was taken on saved values.  Without it
nothing could be said at `Commit`.  `Rest` says that between calls nothing is
held and ids beyond the counter are unused.  From it: `TypeCorrect`,
`NeverHoldsFunds`, `TerminalStatusIsKept`, `ExpiredUnreachable` (no committed
order is ever EXPIRED), and `ImplementsAtomicTpsl`: each step is a stutter of
`AtomicTpsl` except `World`, `CreateOrder`, `CancelOrder`, and `Commit`, which is
a `Fill` because of the `commit` case of `CallConsistent`.  `IndexesAlwaysAgree`:
the arrays are only appended to, by `CreateOrder`, and owner, pool and counter
of the committed orders change in no other step; that an appended id is greater
than every listed one is what keeps the lists ordered and free of repetitions.

*The oracle.*  `OracleExact` is `OracleSound` for every ring of two slots or more.
The invariant ties the ring to the history: it is in order, every second with a
trade is in it or older than all of a full ring (`Remembers`), and from any second
on that some observation was the latest at, the sums of the ring differ by the
sum of the ticks that held since (`SumsAgree`).  The
binary search is shown to return the first observation after the target on
every span; the interpolation is exact because the tick did not change between
two observations, and the division rounds down for negative sums as well.

*The signer.*  `SignerSound`: if all messages share one signer, no nonce below
its cursor is given out again, because who is between reading and advancing the
cursor holds its lock (`LockHeld`), and every answered nonce is below the cursor
(`CursorAhead`); for signers of their own neither is claimed, and the finding
`keeper_receipt` shows why.  At least two messages are assumed, so that sharing
means something.

**KeeperProofs.**  `IInv` adds to the types, `OneRowPerOrder` and
`ExpiredAfterDeadline` what the handlers remember between awaits: a message and
a tick point at rows that exist, a waiting message waits for a transaction sent
for the order of its row, a tick's clock is not ahead, and a transaction that
emitted `OrderExecuted` executed its order.  Proved: `TypeCorrect`, `RowUnique`,
`ExpiryTimely`, and the action property `OnlyExpiryOverwritesHolds`, by actions:
every UPDATE but the expiry asks for `pending` in the same statement.
`OnlyConsumerOverwrites` says which expiry: that of the consumer, never that of
the cron, and never before the deadline of the row's order.  That an
executed row is backed by the chain is *not* an invariant for several orders,
because a wait may be answered with the receipt of another order (finding
`keeper_receipt`).  It is proved with exactly that excluded:
`ExecutedRowsBacked == Spec /\ []OwnReceipts => []RowsSound`, where `OwnReceipts`
says that while a message waits for a dropped transaction, those that executed an
order meanwhile are for the same order.  `OneOrderSound` discharges the hypothesis for one order,
which is the instance of the `keeper` run, with any number of messages, rows,
transactions and retries.

*What feeds the keeper and stands beside it.*  `SubmissionsFresh`: each value in
a key, a job or an evaluation was true no longer ago than the lifetimes and delays
on its way add up to, stage by stage.  `AlertsAreSpaced`: unless ticks overlap or
die, a tick between announcement and cooldown is the only one running; a
cooldown was armed by a tick that had announced.  `SocketsAlwaysServed`: the
subscriber map is what the attachments say, or empty and about to be rebuilt
from them, unless a list has outgrown its attachment; the order-book object knows
only sockets it has sent the stored snapshot.  `CachesAreHonest`: the same dating of values
for the price and token caches, and for the picker that a search which counts is
still on its way while the spinner turns.

**V3IndexerProofs.**  `IInv == TypeOK /\ RowsFinal /\ TicksSound /\
NoGapBelowCursor`: rows are of blocks that no reorganisation can replace any
more, and each running tick looks at such blocks only, knows everything below
its range to be indexed, and everything in the range to be indexed or about to
be.  The cursor may be set back by an overlapping tick, and the last part still
holds.  Assumption: neither the depth of a reorganisation nor the lag of a node
exceeds the confirmations.  Proved: `TypeCorrect`, `Canonicity`, `Completeness`.

*Positions.*  `ShownWereReal` needs more than these: the reducer can only agree
with the chain if no event is missing *between* those it sees.  `Prefix` says so:
whichever ticks overlap, what is indexed reaches without a hole from the
deployment to some block.  That block is the witness of
`ShownPositionsWereReal`.  `AppliedAgrees` then follows reducer and chain event by
event: same owner, same fees, and the same liquidity until a withdrawal exceeds
what was put in of a token, after which the reducer may only be too high.  A later reorganisation cannot touch
the block (`RealKept`).  Assumed of the history: the
contract has no logs before its deployment block, and on no branch gives back
more liquidity than a position has.

**IndexerProofs.**  `IInv == RowsSound /\ \A w : Sound(...)`: an invocation never
looked beyond the head, and a pool it saw persisted still is, so that the rows
it writes later refer to something.  `RowsAreSound` holds for every set of
sources, overlapping ticks, backfills and failures.  For gaps, `GInv` adds that
everything below the range of a tick is indexed, and everything in it is indexed
or still to do.  That needs one more fact, which the code does not establish: a
source that has no cursor starts at the genesis block of its configuration or,
without one, at `head - StartWindow`, and what is older is never indexed.  `NoGapAnywhere == Spec /\ []StartsAtGenesis => []NoGapBelowCursor`
states it as a hypothesis on states (a source without a cursor has no log below
its start), and `NoGapFromTheStart` discharges it for a configured genesis block
that is not after the first log, and without one for a chain whose head is
within the window of the first log, as in the `indexer` run (the deployed
configuration names no genesis block).  A tick that
overlaps sets the cursor back, never past a gap.

**GuardsProofs.**  For the nonces `IInv` says that a request between its storage
calls holds the gate, that the verdict it read still holds, and that one request
at most has won a nonce, after which the record is gone: `TypeCorrect`,
`SingleUse`, `UsableUntilExpiry`.  `BreakerHonest`: the counter, and the count
each request has read and not yet written back, together with the failures that
still wait to be counted, never exceed what really failed, so that overwriting
loses failures and never invents one.  `RejectsOnlyAboveLimit`: the same for the
limiter, window by window, however old the window that is written back.
`SessionsEndInTime`: a session that is not in KV any more has expired or was left
by its owner (`TimesInOrder`, `HeldTokens`); its lifetime is judged by two
clocks, which is why the tolerance must cover twice the skew.

**PositionManagerProofs.**  `PoolBacksTokens` speaks of the state between calls
only; `IInv` adds what is true inside: per phase, whether the liquidity of the
call's position is already out of, or already in, the pool, that every other
position is backed, and that `call.saved` is a state `Revert` may restore.
`MInv` does the same for money: what the call has moved so far, per phase.
Proved: `TypeCorrect`, `TokensAreBacked`, `SettlesUp`.

**RouterProofs.**  Two invariants on top of each other.  `IInv`: between calls
the ledger is what the pool keeps; inside a call ledger and pool are those of
`call.saved`, but for the pool's entry of the call's position, which by phase is
as before, all of the deposit, or less by the withdrawal.  `MInv` follows the
money: what the caller and the treasury have been charged, and that the router
holds what the call still owes (`Owing`, by action and phase) on top of what it
held before.  Proved: `LedgerIsSound`, and `CallsKeepTheirTerms`, which is
`CallsKeepTerms` (the part of `CallersTermsKept` that is about the router).  The
fee is an integer division; `FeeBound` shows that it never exceeds the amount,
for every fee below the denominator.  `TradersKeepTerms` adds the zap executor,
by the same kind of invariant: per phase, what the zap has pulled and what it
still owes, on top of the strays that were there, less what a rescue took.

**SwapPageProofs.**  `ExecutedAsQuoted` speaks of transactions that were mined:
they are the quote of the press, with the digits of the form read as base units.
That the user means as many tokens by them is not shown; it is false (divergence
28).
The invariant carries the press of the button back through the handler: what is
mined was sent with calldata from the quote captured at the press (`PressSound`,
`TxSound`), that quote was for the form on the page (`QuoteCurrent`), because a
fetch that still counts asks for the form as it stands (`FetchesCurrent`: an edit
cancels the others).  `OneUnderWay` says that a running handler keeps the button
busy and that only the transaction sent last may be pending, `Unreported` that
one still to be reported was not reported.  Proved: `OneSwapAlways`,
`RecordedAtMostOnce`, `ExecutedAsPressed`, for any amounts, slippages, rates and
numbers of overlapping fetches, handlers and transactions.  The slippage is one
linear fact, `QuoteBound`, and the reading of the digits another, `DigitsRead`,
kept apart from the rest.

*Quotes.*  `QuotesExact`: the loop over a window of ticks and the loop over the
whole pool stay together as long as the first is inside what it read, and it
answers only if it ends there; and what it read is of one block, the one it was
pinned to.  *Pool creation.*  `PricesEncoded`: Newton's iteration descends to the
integer square root for every radicand, and the encoded price is what the
rounding leaves.  *Pool and positions page.*  `OwnPagesShown`: a load that still
counts was started for the pool, or the wallet, the page is on.
*Deposits.*  `DepositsPressed`: the form with a handler behind it is preparing and
starts no other, each handler carries a sound split of the amount it captured
(`SplitSound`), also when it outlives its form, and no approval is for more than
one typed amount.

**Assumptions on constants** are the named `*Assumption` of each module, and the
`*Constants` of an `MC*` module for its parts, which the theorems state as
hypotheses and the `MC*` module assumes, so that TLC evaluates each.  Besides
types and sentinels they say: reorganisations and lag of nodes within the
confirmations (`V3Indexer`); a history without logs before the deployment and
without negative liquidity (`Positions`); an entry fee below the whole (`Router`,
as the constant of `AetherRouter.sol`); slippages between nothing and all and
positive rates (`SwapPage`); logs numbered in the order of their blocks
(`Indexer`); a ring of two slots or more, and the sign of deltas the hook expects
(`OracleConstants`: with the other sign there is nothing to average, see finding
`twap_delta_sign`); clocks within half the tolerance (`SessionConstants`); initialized ticks
at multiples of the spacing (`QuoteConstants`); lifetimes and periods that are
not zero.

**Only model-checked.**

- Liveness (`MessagesSettle`, `EventsIndexed`, `WorkingSourcesIndexed`,
  `NoncesCleanedUp`, `GuardsLetThrough`, `PageSettles`, `TickerRecovers`): the
  prover does no ENABLED and no fairness.
- `RowsSound` of the keeper for several orders with replaced transactions, and
  `NoGapBelowCursor` of the multi-source indexer for a source that starts after
  its first log: false there, see above.

## 5. What is not modelled

Decoding of logs, signatures and requests: data, no state.  Price arithmetic of
ticks (monotone, and the trigger only compares) and the exact mathematics of a
swap.  The wrap of 32-bit seconds in 2106.  Several pools in one contract: their
states are disjoint.  A transaction sent by a callee to *another* contract of
the system.  KV at breaker, limiter and caches is taken at its best (each read
sees the last write); stale reads are modelled for sessions only.
Reorganisations under the keeper and the multi-source indexer, for which the
code has no handling.

Parts left out as a whole:

- `AetherFactory`: a registry whose entries are written once, one step per call.
- Auto-recenter: its handler returns on every message today (divergence 9).
- Settlement and archive jobs: a row touch that fails (divergence 10) and a
  monthly object written over itself; nothing waits for either.
- `pool.service.ts`, `token.service.ts` and the liquidity routes: single reads and
  upserts.  MEV headers: a check of one request.
- `keeper.service.ts`, `verification.service.ts`, `services/r2.ts`, the service
  functions that execute and expire orders, `web/lib/v3-liquidity.ts` and the fee
  computations of the web: code without a caller.
- Playground, pool list, portfolio and charts: one request each, or a simulation
  on sample data.  (The portfolio loads like the positions page, but an aborted
  request's `finally` clears the pending flag of its successor.)
- Deployment, shared types, archived contracts.

## 6. Plan

Done: the TP/SL contract with its abstract specification; the keeper, its signer
and its prices; the oracle; both indexers and the positions over them; SIWE and
sessions, breaker, limiter; position manager, router and zap executor; caches,
hubs and alerts; quotes and the pages; and the proofs of all their safety
properties.

What would say more, in this order:

1. `KeeperPipeline` against an abstract table of rows (one row per order, each
   status written once, but for the consumer's expiry), as a refinement.
2. Other properties of the small models: that a quote that is refused could not
   have been answered from its window, that the limiter's window slides.
3. Reorganisations under the keeper and the multi-source indexer, once the code
   has an answer to them.
