--------------------------- MODULE KeeperPipeline ---------------------------
(***************************************************************************)
(* The off-chain half of TP/SL: the API routes that record and cancel      *)
(* orders in D1 (apps/api/src/routes/tp-sl.ts), the cron tick that         *)
(* enqueues the pending ones (workers/cron-handler.ts), the queue consumer *)
(* that evaluates and executes them (workers/queue-handler.ts), and the    *)
(* signer it submits through (lib/keeper-signer.ts).                       *)
(*                                                                         *)
(* A handler is one step per await: between two awaits every other handler,*)
(* the chain and the clock may run.  Queue delivery is at least once; an   *)
(* invocation may die anywhere; a relay may take a transaction and lose    *)
(* the answer; a transaction may be dropped or mined late.  The contract   *)
(* is seen as AtomicTpsl: an order is filled in one step.                  *)
(***************************************************************************)
EXTENDS Naturals, FiniteSets

CONSTANTS
    Orders,      \* order ids of AetherTPSL
    NoRow,       \* the order of a row that is not there
    MaxRows,     \* bound: rows of tp_sl_orders, numbered in insertion order
    Messages,    \* bound: messages of keeper-jobs alive at once
    Txs,         \* bound: keeper transactions alive at once
    NoTx,
    Deadline,    \* Deadline[o], on the clock
    MaxTime,     \* bound of the clock
    MaxRetries,  \* max_retries of the queue
    TickLimit    \* the LIMIT of the cron's SELECT

Rows == 1 .. MaxRows

ASSUME KeeperAssumption ==
    /\ NoRow \notin Orders /\ NoTx \notin Txs
    /\ Deadline \in [Orders -> Nat]
    /\ MaxRows \in Nat /\ MaxTime \in Nat /\ MaxRetries \in Nat /\ TickLimit \in Nat

VARIABLES
    clock,
    chain,     \* chain[o]: status of order o in the contract
    txs,       \* txs[t]: a keeper transaction and what became of it
    verified,  \* orders whose creation a POST request has verified
    rows,      \* rows[r]: the order of row r and its status column
    msgs,      \* msgs[m]: a message and how far its handler got
    cron       \* the running keeper tick

vars == <<clock, chain, txs, verified, rows, msgs, cron>>

ChainStatuses == {"unborn", "pending", "executed", "cancelled"}
TxStatuses    == {"none", "mempool", "success", "skipped", "reverted", "dropped"}
RowStatuses   == {"absent", "pending", "executed", "cancelled", "expired"}
Stages        == {"none", "queued", "selected", "ready", "signed", "waiting",
                  "confirmed", "unconfirmed", "done"}

NoMessage == [stage |-> "none", row |-> 0, tries |-> 0, tx |-> NoTx]
Queued(r, tries) == [stage |-> "queued", row |-> r, tries |-> tries, tx |-> NoTx]
IdleCron  == [stage |-> "idle", list |-> {}, now |-> 0]

TypeOK ==
    /\ clock \in 0 .. MaxTime
    /\ chain \in [Orders -> ChainStatuses]
    /\ txs \in [Txs -> [order : Orders \cup {NoRow}, status : TxStatuses]]
    /\ verified \subseteq Orders
    /\ rows \in [Rows -> [order : Orders \cup {NoRow}, status : RowStatuses]]
    /\ msgs \in [Messages -> [stage : Stages, row : 0 .. MaxRows,
                              tries : 0 .. MaxRetries, tx : Txs \cup {NoTx}]]
    /\ cron \in [stage : {"idle", "sending"}, list : SUBSET Rows, now : 0 .. MaxTime]

Init ==
    /\ clock = 0
    /\ chain = [o \in Orders |-> "unborn"]
    /\ txs = [t \in Txs |-> [order |-> NoRow, status |-> "none"]]
    /\ verified = {}
    /\ rows = [r \in Rows |-> [order |-> NoRow, status |-> "absent"]]
    /\ msgs = [m \in Messages |-> NoMessage]
    /\ cron = IdleCron

Due(r)     == clock > Deadline[rows[r].order]
Pending(r) == rows[r].status = "pending"

-----------------------------------------------------------------------------
\* The clock and the chain.
Tick ==
    /\ clock < MaxTime
    /\ clock' = clock + 1
    /\ UNCHANGED <<chain, txs, verified, rows, msgs, cron>>

\* The owner places or cancels the order, or somebody other than the keeper
\* executes it: executeOrder is open to everybody.
OnChain(o) ==
    /\ \/ chain[o] = "unborn" /\ chain' = [chain EXCEPT ![o] = "pending"]
       \/ /\ chain[o] = "pending"
          /\ \/ chain' = [chain EXCEPT ![o] = "cancelled"]
             \/ /\ clock <= Deadline[o]
                /\ chain' = [chain EXCEPT ![o] = "executed"]
    /\ UNCHANGED <<clock, txs, verified, rows, msgs, cron>>

\* A keeper transaction is mined.  A pending order in time may fill, be
\* skipped because the oracle cannot answer (executeOrder returns false and
\* the receipt is a success without OrderExecuted), or revert on its trigger
\* or its minimum; any other order makes it revert.
Mine(t) ==
    LET o == txs[t].order
    IN  /\ txs[t].status = "mempool"
        /\ \/ /\ chain[o] = "pending" /\ clock <= Deadline[o]
              /\ \/ /\ chain' = [chain EXCEPT ![o] = "executed"]
                    /\ txs' = [txs EXCEPT ![t].status = "success"]
                 \/ /\ txs' = [txs EXCEPT ![t].status = "skipped"]
                    /\ UNCHANGED chain
           \/ /\ txs' = [txs EXCEPT ![t].status = "reverted"]
              /\ UNCHANGED chain
        /\ UNCHANGED <<clock, verified, rows, msgs, cron>>

\* Replaced by another transaction with its nonce, or forgotten.
Drop(t) ==
    /\ txs[t].status = "mempool"
    /\ txs' = [txs EXCEPT ![t].status = "dropped"]
    /\ UNCHANGED <<clock, chain, verified, rows, msgs, cron>>

-----------------------------------------------------------------------------
\* POST /orders: the receipt and getOrder are read, then the row is inserted;
\* the unique index on the on-chain id refuses a second row.
VerifyOrder(o) ==
    /\ chain[o] = "pending" /\ clock < Deadline[o]
    /\ verified' = verified \cup {o}
    /\ UNCHANGED <<clock, chain, txs, rows, msgs, cron>>

\* Mutant of UniqueIndex: the schema before migration 0009.
NoUniqueIndex(o) == TRUE

UniqueIndex(o) == \A r \in Rows : rows[r].order # o

InsertOrder(o) ==
    /\ o \in verified
    /\ UniqueIndex(o)
    /\ \E r \in Rows :
          /\ rows[r].status = "absent"
          /\ \A q \in Rows : rows[q].status = "absent" => r <= q
          /\ rows' = [rows EXCEPT ![r] = [order |-> o, status |-> "pending"]]
    /\ UNCHANGED <<clock, chain, txs, verified, msgs, cron>>

\* DELETE /orders/:id writes the row and nothing on chain.
CancelRow(r) ==
    /\ Pending(r)
    /\ rows' = [rows EXCEPT ![r].status = "cancelled"]
    /\ UNCHANGED <<clock, chain, txs, verified, msgs, cron>>

-----------------------------------------------------------------------------
\* The keeper tick: select, enqueue one by one, expire.  With nothing selected
\* it returns before the expiry.
Live(now) == {r \in Rows : Pending(r) /\ Deadline[rows[r].order] > now}
Oldest(S) == {r \in S : Cardinality({q \in S : q < r}) < TickLimit}

TickSelect ==
    /\ cron.stage = "idle"
    /\ Live(clock) # {}
    /\ cron' = [stage |-> "sending", list |-> Oldest(Live(clock)), now |-> clock]
    /\ UNCHANGED <<clock, chain, txs, verified, rows, msgs>>

\* send, or the caught failure of send.
TickSend ==
    /\ cron.stage = "sending"
    /\ \E r \in cron.list :
          /\ \A q \in cron.list : r <= q
          /\ cron' = [cron EXCEPT !.list = @ \ {r}]
          /\ \/ UNCHANGED msgs
             \/ \E m \in Messages :
                   /\ msgs[m] = NoMessage
                   /\ msgs' = [msgs EXCEPT ![m] = Queued(r, 0)]
    /\ UNCHANGED <<clock, chain, txs, verified, rows>>

\* Mutant of TickExpire: the deadline is not part of the UPDATE.
TickExpireAll ==
    /\ cron.stage = "sending" /\ cron.list = {}
    /\ rows' = [r \in Rows |->
                  IF Pending(r) THEN [rows[r] EXCEPT !.status = "expired"] ELSE rows[r]]
    /\ cron' = IdleCron
    /\ UNCHANGED <<clock, chain, txs, verified, msgs>>

TickExpire ==
    /\ cron.stage = "sending" /\ cron.list = {}
    /\ rows' = [r \in Rows |->
                  IF Pending(r) /\ Deadline[rows[r].order] <= cron.now
                  THEN [rows[r] EXCEPT !.status = "expired"] ELSE rows[r]]
    /\ cron' = IdleCron
    /\ UNCHANGED <<clock, chain, txs, verified, msgs>>

\* D1 fails or the invocation dies: the rest of the tick is lost.
TickFail ==
    /\ cron.stage = "sending"
    /\ cron' = IdleCron
    /\ UNCHANGED <<clock, chain, txs, verified, rows, msgs>>

-----------------------------------------------------------------------------
At(m, stage) == msgs[m].stage = stage
row(m)  == msgs[m].row
ordr(m) == rows[row(m)].order

\* The queue's side of a message: ack, retry, or the dead-letter queue.
Ack(m) == msgs' = [msgs EXCEPT ![m] = NoMessage]

\* Mutant of Retry: deliveries are not counted.
RetryForever(m) ==
    msgs' = [msgs EXCEPT ![m] = [@ EXCEPT !.stage = "queued", !.tx = NoTx]]

Retry(m) ==
    msgs' = [msgs EXCEPT ![m] =
               IF msgs[m].tries < MaxRetries
               THEN Queued(row(m), msgs[m].tries + 1)
               ELSE NoMessage]
WaitingFor(t, m) == [stage |-> "waiting", row |-> row(m), tries |-> msgs[m].tries, tx |-> t]
Advance(m, stage) == msgs' = [msgs EXCEPT ![m].stage = stage]

\* SELECT ... AND status = 'pending'.
SelectRow(m) ==
    /\ At(m, "queued")
    /\ IF Pending(row(m)) THEN Advance(m, "selected") ELSE Ack(m)
    /\ UNCHANGED <<clock, chain, txs, verified, rows, cron>>

\* Date.now() > deadline: the row is expired, whatever it says by now.
ExpireRow(m) ==
    /\ At(m, "selected") /\ Due(row(m))
    /\ rows' = [rows EXCEPT ![row(m)].status = "expired"]
    /\ Advance(m, "done")
    /\ UNCHANGED <<clock, chain, txs, verified, cron>>

\* No price, no TWAP, trigger not breached, gate closed (the gate wants the
\* deadline ahead), or submission not configured: acknowledged as it is.
Evaluate(m) ==
    /\ At(m, "selected") /\ ~ Due(row(m))
    /\ \/ Ack(m)
       \/ clock < Deadline[ordr(m)] /\ Advance(m, "ready")
    /\ UNCHANGED <<clock, chain, txs, verified, rows, cron>>

\* preflight: estimateGas runs executeOrder on the current state.  A revert
\* there and a failing RPC are the same KeeperRpcError, which is retried; an
\* empty wallet or a high gas price is not.
Executable(o) == chain[o] = "pending" /\ clock <= Deadline[o]
Preflight(m) ==
    /\ At(m, "ready")
    /\ \/ Executable(ordr(m)) /\ Advance(m, "signed")
       \/ Retry(m)
       \/ Ack(m)
    /\ UNCHANGED <<clock, chain, txs, verified, rows, cron>>

\* The transaction reaches the relay or it does not, and the answer (the hash,
\* a retryable fault, a refusal) is another matter.
Reusable(t) ==
    /\ txs[t].status # "mempool"
    /\ \A m \in Messages : msgs[m].tx # t
Submit(m) ==
    /\ At(m, "signed")
    /\ \/ \E t \in Txs :
             /\ Reusable(t)
             /\ txs' = [txs EXCEPT ![t] = [order |-> ordr(m), status |-> "mempool"]]
             /\ \/ msgs' = [msgs EXCEPT ![m] = WaitingFor(t, m)]
                \/ Retry(m)
                \/ Ack(m)
       \/ UNCHANGED txs /\ (Retry(m) \/ Ack(m))
    /\ UNCHANGED <<clock, chain, verified, rows, cron>>

\* Mutant of Confirms: a successful receipt is enough, its logs are not read.
ConfirmsAnyReceipt(status) == status \in {"success", "skipped"}

\* awaitConfirmation: only a receipt that carries OrderExecuted confirms; a
\* reverted one is final; a failing or timed-out wait is retried.  For a
\* transaction that was replaced the wait answers with the receipt of another.
Confirms(status) == status = "success"
Receipts(t) == IF txs[t].status = "dropped" THEN {txs[u].status : u \in Txs} ELSE {txs[t].status}
AwaitReceipt(m) ==
    /\ At(m, "waiting")
    /\ \/ Retry(m)
       \/ \E status \in Receipts(msgs[m].tx) :
             \/ status = "reverted" /\ Ack(m)
             \/ /\ status \in {"success", "skipped"}
                /\ Advance(m, IF Confirms(status) THEN "confirmed" ELSE "unconfirmed")
    /\ UNCHANGED <<clock, chain, txs, verified, rows, cron>>

\* Mutant of RecordResult: the UPDATE does not ask for a pending row.
RecordResultAlways(m) ==
    /\ \/ At(m, "confirmed") /\ rows' = [rows EXCEPT ![row(m)].status = "executed"]
       \/ At(m, "unconfirmed") /\ UNCHANGED rows
    /\ Advance(m, "done")
    /\ UNCHANGED <<clock, chain, txs, verified, cron>>

\* UPDATE ... status = 'executed' ... AND status = 'pending'; an unconfirmed
\* submission only leaves its hash in the row.
RecordResult(m) ==
    /\ \/ /\ At(m, "confirmed")
          /\ rows' = IF Pending(row(m)) THEN [rows EXCEPT ![row(m)].status = "executed"]
                                        ELSE rows
       \/ At(m, "unconfirmed") /\ UNCHANGED rows
    /\ Advance(m, "done")
    /\ UNCHANGED <<clock, chain, txs, verified, cron>>

Finish(m) ==
    /\ At(m, "done")
    /\ Ack(m)
    /\ UNCHANGED <<clock, chain, txs, verified, rows, cron>>

\* The invocation dies, or D1 or the ack fails: the queue delivers again.
Redeliver(m) ==
    /\ msgs[m].stage \notin {"none", "queued"}
    /\ Retry(m)
    /\ UNCHANGED <<clock, chain, txs, verified, rows, cron>>

Consume(m) ==
    \/ SelectRow(m) \/ ExpireRow(m) \/ Evaluate(m) \/ Preflight(m) \/ Submit(m)
    \/ AwaitReceipt(m) \/ RecordResult(m) \/ Finish(m)

Cron == TickSelect \/ TickSend \/ TickExpire

Next ==
    \/ Tick
    \/ \E o \in Orders : OnChain(o) \/ VerifyOrder(o) \/ InsertOrder(o)
    \/ \E t \in Txs : Mine(t) \/ Drop(t)
    \/ \E r \in Rows : CancelRow(r)
    \/ Cron \/ TickFail
    \/ \E m \in Messages : Consume(m) \/ Redeliver(m)

\* Cloudflare invokes the cron and delivers queued messages again and again, a
\* handler that started runs on (viem's waits time out), and time passes.
Fairness ==
    /\ WF_vars(Cron) /\ WF_vars(Tick)
    /\ \A m \in Messages : WF_vars(Consume(m))

Spec == Init /\ [][Next]_vars /\ Fairness

-----------------------------------------------------------------------------
\* A row says 'executed' only of an order the contract has executed: receipts
\* of skipped or reverted transactions, lost answers, redeliveries and other
\* people's executions never add up to a false 'executed'.  So it is while the
\* keeper has one order at work; two may mistake each other's receipts
\* (ConfirmedOrderExecuted of KeeperSigner).
ExecutedRowBacked ==
    \A r \in Rows : rows[r].status = "executed" => chain[rows[r].order] = "executed"

\* However POST requests for one order interleave, one row stands for it.
OneRowPerOrder ==
    \A q, r \in Rows : rows[q].order = rows[r].order /\ rows[r].order # NoRow => q = r

\* No row is expired early: not by a tick that selected a while ago, not by a
\* message that waited in the queue.
ExpiredAfterDeadline ==
    \A r \in Rows : rows[r].status = "expired" => clock >= Deadline[rows[r].order]

\* The three together, with the types.
RowsSound == TypeOK /\ ExecutedRowBacked /\ OneRowPerOrder /\ ExpiredAfterDeadline

\* A row that is settled is only ever changed by an expiry; in particular a
\* late confirmation does not revive a cancelled or an expired row.
OnlyExpiryOverwrites ==
    [][\A r \in Rows : rows[r].status \in {"executed", "cancelled", "expired"}
                         => rows'[r].status \in {rows[r].status, "expired"}]_vars

\* Every message leaves the queue, acknowledged or dead-lettered, whatever
\* fails on the way.
MessagesSettle ==
    \A m \in Messages : msgs[m] # NoMessage ~> msgs[m] = NoMessage

\* "1. Verify order is still pending": a settled row is not touched again.
SettledRowKept ==
    [][\A r \in Rows : rows[r].status \in {"executed", "cancelled"}
                         => rows'[r].status = rows[r].status]_vars
=============================================================================
