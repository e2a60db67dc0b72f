---------------------------- MODULE KeeperProofs ----------------------------
(***************************************************************************)
(* The safety of the keeper pipeline for every number of orders, rows,     *)
(* messages and transactions, every deadline and every retry limit; and of *)
(* what feeds it and stands beside it on the workers: the prices, the      *)
(* alerts, the two socket objects and the caches, for every lifetime,      *)
(* delay and number of parties.                                            *)
(***************************************************************************)
EXTENDS KeeperPipeline, MCFeeds, Sequences, FiniteSetTheorems, TLAPS

Message == [stage : Stages, row : 0 .. MaxRows, tries : 0 .. MaxRetries, tx : Txs \cup {NoTx}]

\* A row that exists names an order, and only it.
RowsNamed == \A r \in Rows : rows[r].status = "absent" <=> rows[r].order = NoRow

\* A message is about a row that exists; while it waits, it waits for a
\* transaction that was sent for the order of that row.
MessageSound(x) ==
    /\ x.stage # "none" => x.row \in Rows /\ rows[x.row].status # "absent"
    /\ x.stage = "waiting" => /\ x.tx \in Txs
                              /\ txs[x.tx].status # "none"
                              /\ txs[x.tx].order = rows[x.row].order
MessagesSound == \A m \in Messages : MessageSound(msgs[m])

\* The tick looked at its clock no later than now, and only at rows that exist.
CronSound ==
    /\ cron.now <= clock
    /\ \A r \in cron.list : rows[r].status # "absent"

\* A transaction is for an order; one that emitted OrderExecuted executed it.
TxsSound ==
    \A t \in Txs :
       /\ txs[t].status # "none" => txs[t].order \in Orders
       /\ txs[t].status = "success" => chain[txs[t].order] = "executed"

IInv == /\ TypeOK /\ RowsNamed /\ MessagesSound /\ CronSound /\ TxsSound
        /\ OneRowPerOrder /\ ExpiredAfterDeadline

\* While a message waits for a transaction that was dropped, what has executed an
\* order, and may have taken its nonce, is a transaction for the same order.
OwnReceipts ==
    \A m \in Messages, u \in Txs :
       (/\ msgs[m].stage = "waiting"
        /\ txs[msgs[m].tx].status = "dropped"
        /\ txs[u].status = "success")
       => txs[u].order = txs[msgs[m].tx].order

\* A confirmed message is about an executed order.
ConfirmedBacked ==
    \A m \in Messages : msgs[m].stage = "confirmed" => chain[ordr(m)] = "executed"

CInv == ConfirmedBacked /\ ExecutedRowBacked

-----------------------------------------------------------------------------
\* Nothing is there at first.
LEMMA InitIInv == Init => IInv /\ CInv
  BY KeeperAssumption
     DEF Init, IInv, CInv, TypeOK, RowsNamed, MessagesSound, MessageSound, CronSound, TxsSound,
         OneRowPerOrder, ExpiredAfterDeadline, ConfirmedBacked, ExecutedRowBacked,
         NoMessage, IdleCron, Rows, ChainStatuses, TxStatuses, RowStatuses, Stages

\* What TypeOK says of one message, row, transaction.
LEMMA Types == ASSUME IInv
               PROVE  /\ \A m \in Messages : msgs[m] \in Message
                      /\ \A r \in Rows : rows[r] \in [order : Orders \cup {NoRow}, status : RowStatuses]
                      /\ \A r \in Rows : rows[r].status # "absent" => rows[r].order \in Orders
  BY DEF IInv, TypeOK, Message, RowsNamed, RowStatuses

\* The invariant survives a step that replaces one message by a sound one, or
\* none at all, and leaves everything else alone.
LEMMA MessageStep ==
    ASSUME IInv, NEW m \in Messages, NEW x \in Message, MessageSound(x),
           msgs' = [msgs EXCEPT ![m] = x],
           UNCHANGED <<clock, chain, txs, verified, rows, cron>>
    PROVE  IInv'
  <1>1. \A n \in Messages : msgs'[n] = IF n = m THEN x ELSE msgs[n]
    BY DEF IInv, TypeOK
  <1>2. TypeOK'
    BY DEF IInv, TypeOK, Message
  <1>3. MessagesSound'
    BY <1>1 DEF IInv, MessagesSound, MessageSound
  <1> QED
    BY <1>2, <1>3 DEF IInv, RowsNamed, CronSound, TxsSound, OneRowPerOrder, ExpiredAfterDeadline

\* An acknowledgement, a retry and a move to another stage, seen as the message
\* they leave: sound if the old one was, confirmed only if so moved.
LEMMA Settled ==
    ASSUME IInv, NEW m \in Messages, msgs[m].stage # "none", Ack(m) \/ Retry(m)
    PROVE  \E x \in Message : /\ MessageSound(x) /\ x.stage \in {"none", "queued"}
                              /\ msgs' = [msgs EXCEPT ![m] = x]
  <1>1. msgs[m] \in Message /\ MessageSound(msgs[m])
    BY Types DEF IInv, MessagesSound
  <1>2. NoMessage \in Message /\ MessageSound(NoMessage) /\ NoMessage.stage = "none"
    BY KeeperAssumption DEF NoMessage, Message, MessageSound, Stages
  <1>3. CASE Ack(m)
    BY <1>2, <1>3 DEF Ack
  <1>4. CASE Retry(m) /\ ~ (msgs[m].tries < MaxRetries)
    BY <1>2, <1>4 DEF Retry
  <1>5. CASE Retry(m) /\ msgs[m].tries < MaxRetries
    <2> DEFINE x == Queued(msgs[m].row, msgs[m].tries + 1)
    <2>1. x \in Message /\ x.stage = "queued" /\ x.row = msgs[m].row
      BY <1>1, <1>5, KeeperAssumption DEF Message, Stages, Queued
    <2>2. MessageSound(x)
      BY <1>1, <1>5, <2>1 DEF MessageSound
    <2>3. msgs' = [msgs EXCEPT ![m] = x]
      BY <1>5 DEF Retry, row
    <2> QED
      BY <2>1, <2>2, <2>3
  <1> QED
    BY <1>3, <1>4, <1>5

\* The rows that exist stay, for the same orders.
RowsStay == \A r \in Rows : rows[r].status # "absent"
                              => rows'[r].status # "absent" /\ rows'[r].order = rows[r].order

\* A message that stays as it is still has its row and its transaction.
Undisturbed(n) ==
    /\ msgs'[n] = msgs[n]
    /\ msgs[n].stage = "waiting" => /\ txs'[msgs[n].tx].status # "none"
                                    /\ txs'[msgs[n].tx].order = txs[msgs[n].tx].order

\* The invariant survives a step that keeps the rows, leaves each message
\* undisturbed or sound, and the tick as it is or sound.
LEMMA PipelineStep ==
    ASSUME IInv, TypeOK', RowsNamed', OneRowPerOrder', ExpiredAfterDeadline', TxsSound',
           clock <= clock', RowsStay,
           \A n \in Messages : Undisturbed(n) \/ MessageSound(msgs[n])',
           cron' = cron \/ CronSound'
    PROVE  IInv'
  <1>1. MessagesSound'
    <2> SUFFICES ASSUME NEW n \in Messages, Undisturbed(n) PROVE MessageSound(msgs[n])'
      BY DEF MessagesSound
    <2>1. MessageSound(msgs[n])
      BY DEF IInv, MessagesSound
    <2> QED
      BY <2>1 DEF Undisturbed, MessageSound, RowsStay
  <1>2. CASE cron' = cron
    <2>1. cron.list \subseteq Rows /\ cron.now \in Nat /\ clock \in Nat /\ clock' \in Nat
      BY KeeperAssumption DEF IInv, TypeOK
    <2>2. CronSound'
      BY <1>2, <2>1 DEF IInv, CronSound, RowsStay
    <2> QED
      BY <1>1, <2>2 DEF IInv
  <1> QED
    BY <1>1, <1>2 DEF IInv

\* Settling existing rows, as expired only after their deadline, keeps what the
\* invariant says of the rows.
LEMMA SettleRows ==
    ASSUME IInv, rows' \in [Rows -> [order : Orders \cup {NoRow}, status : RowStatuses]],
           \A r \in Rows : /\ rows'[r].order = rows[r].order
                           /\ rows'[r].status = "absent" <=> rows[r].status = "absent"
                           /\ rows'[r].status = "expired" => \/ rows[r].status = "expired"
                                                             \/ clock >= Deadline[rows[r].order],
           UNCHANGED <<clock, chain, txs>>
    PROVE  RowsNamed' /\ OneRowPerOrder' /\ ExpiredAfterDeadline' /\ TxsSound' /\ RowsStay
  BY DEF IInv, RowsNamed, OneRowPerOrder, ExpiredAfterDeadline, TxsSound, RowsStay

-----------------------------------------------------------------------------
\* Time passing makes no expiry early.
LEMMA TickInv == ASSUME IInv, Tick PROVE IInv'
  <1>1. clock \in Nat /\ clock' = clock + 1 /\ clock' \in 0 .. MaxTime
    BY KeeperAssumption DEF IInv, TypeOK, Tick
  <1>2. TypeOK'
    BY <1>1 DEF IInv, TypeOK, Tick
  <1>3. ExpiredAfterDeadline'
    <2> SUFFICES ASSUME NEW r \in Rows, rows[r].status = "expired"
                 PROVE  clock' >= Deadline[rows[r].order]
      BY DEF Tick, ExpiredAfterDeadline
    <2>1. rows[r].order \in Orders /\ clock >= Deadline[rows[r].order]
      BY Types DEF IInv, ExpiredAfterDeadline
    <2> QED
      BY <1>1, <2>1, KeeperAssumption
  <1> QED
    BY <1>1, <1>2, <1>3, PipelineStep
       DEF Tick, IInv, RowsNamed, OneRowPerOrder, TxsSound, RowsStay, Undisturbed, MessagesSound,
           MessageSound

\* On chain an executed order stays executed.
LEMMA OnChainInv == ASSUME IInv, NEW o \in Orders, OnChain(o) PROVE IInv'
  <1>1. TypeOK'
    BY DEF IInv, TypeOK, OnChain, ChainStatuses
  <1>2. \A p \in Orders : chain[p] = "executed" => chain'[p] = "executed"
    BY DEF IInv, TypeOK, OnChain
  <1>3. TxsSound'
    BY <1>2 DEF IInv, TxsSound, OnChain
  <1> QED
    BY <1>1, <1>3 DEF IInv, OnChain, RowsNamed, MessagesSound, MessageSound, CronSound,
                      OneRowPerOrder, ExpiredAfterDeadline

\* A transaction succeeds only by executing its order.
LEMMA MineInv == ASSUME IInv, NEW t \in Txs, Mine(t) PROVE IInv'
  <1>1. txs[t] \in [order : Orders \cup {NoRow}, status : TxStatuses] /\ txs[t].order \in Orders
    BY DEF IInv, TypeOK, TxsSound, Mine
  <1>2. \E st \in {"success", "skipped", "reverted"} :
           /\ txs' = [txs EXCEPT ![t].status = st]
           /\ \/ chain' = chain /\ st # "success"
              \/ chain' = [chain EXCEPT ![txs[t].order] = "executed"]
    <2>1. \/ txs' = [txs EXCEPT ![t].status = "success"]
             /\ chain' = [chain EXCEPT ![txs[t].order] = "executed"]
          \/ txs' = [txs EXCEPT ![t].status = "skipped"] /\ chain' = chain
          \/ txs' = [txs EXCEPT ![t].status = "reverted"] /\ chain' = chain
      BY DEF Mine
    <2> QED
      BY <2>1
  <1>3. TypeOK'
    <2>1. txs' \in [Txs -> [order : Orders \cup {NoRow}, status : TxStatuses]]
      BY <1>1, <1>2 DEF IInv, TypeOK, TxStatuses
    <2>2. chain' \in [Orders -> ChainStatuses]
      BY <1>1, <1>2 DEF IInv, TypeOK, ChainStatuses
    <2> QED
      BY <2>1, <2>2 DEF IInv, TypeOK, Mine
  <1>4. \A p \in Orders : chain[p] = "executed" => chain'[p] = "executed"
    BY <1>1, <1>2 DEF IInv, TypeOK
  <1>5. \A u \in Txs : /\ txs'[u].order = txs[u].order
                       /\ txs[u].status # "none" => txs'[u].status # "none"
                       /\ txs'[u].status = "success" => chain'[txs[u].order] = "executed"
                       /\ txs'[u].status # "none" => txs[u].order \in Orders
    BY <1>1, <1>2, <1>4 DEF IInv, TypeOK, TxsSound
  <1>6. TxsSound'
    BY <1>5 DEF TxsSound
  <1>7. MessagesSound'
    BY <1>5 DEF Mine, IInv, MessagesSound, MessageSound
  <1> QED
    BY <1>3, <1>6, <1>7 DEF IInv, Mine, RowsNamed, CronSound, OneRowPerOrder, ExpiredAfterDeadline

\* A dropped transaction keeps its order.
LEMMA DropInv == ASSUME IInv, NEW t \in Txs, Drop(t) PROVE IInv'
  <1>1. TypeOK'
    BY DEF IInv, TypeOK, Drop, TxStatuses
  <1>2. \A u \in Txs : /\ txs'[u].order = txs[u].order
                       /\ txs'[u].status # txs[u].status
                             => txs'[u].status = "dropped" /\ txs[u].status = "mempool"
    BY DEF IInv, TypeOK, Drop
  <1>3. TxsSound' /\ MessagesSound'
    BY <1>2 DEF Drop, IInv, TxsSound, MessagesSound, MessageSound
  <1> QED
    BY <1>1, <1>3 DEF IInv, Drop, RowsNamed, CronSound, OneRowPerOrder, ExpiredAfterDeadline

-----------------------------------------------------------------------------
\* The routes.  A verification writes nothing the rows depend on.
LEMMA VerifyOrderInv == ASSUME IInv, NEW o \in Orders, VerifyOrder(o) PROVE IInv'
  BY DEF VerifyOrder, IInv, TypeOK, RowsNamed, MessagesSound, MessageSound, CronSound, TxsSound,
         OneRowPerOrder, ExpiredAfterDeadline

\* The unique index keeps one row per order.
LEMMA InsertOrderInv == ASSUME IInv, NEW o \in Orders, InsertOrder(o) PROVE IInv'
  <1> PICK r \in Rows : /\ rows[r].status = "absent"
                        /\ rows' = [rows EXCEPT ![r] = [order |-> o, status |-> "pending"]]
    BY DEF InsertOrder
  <1>1. TypeOK'
    BY DEF IInv, TypeOK, InsertOrder, RowStatuses
  <1>2. \A q \in Rows : rows'[q] = IF q = r THEN [order |-> o, status |-> "pending"] ELSE rows[q]
    BY DEF IInv, TypeOK
  <1>3. RowsNamed' /\ RowsStay /\ ExpiredAfterDeadline'
    BY <1>2, KeeperAssumption DEF IInv, RowsNamed, RowsStay, ExpiredAfterDeadline, InsertOrder
  <1>4. OneRowPerOrder'
    BY <1>2 DEF InsertOrder, UniqueIndex, IInv, OneRowPerOrder
  <1>5. TxsSound' /\ clock <= clock' /\ \A n \in Messages : Undisturbed(n)
    BY KeeperAssumption DEF InsertOrder, IInv, TypeOK, TxsSound, Undisturbed, MessagesSound,
                            MessageSound
  <1> QED
    BY <1>1, <1>3, <1>4, <1>5, PipelineStep DEF InsertOrder

\* Undisturbed, when nothing but rows changes.
LEMMA RowsOnly ==
    ASSUME IInv, UNCHANGED <<clock, txs, msgs>>
    PROVE  clock <= clock' /\ \A n \in Messages : Undisturbed(n)
  BY KeeperAssumption DEF IInv, TypeOK, Undisturbed, MessagesSound, MessageSound

\* A cancellation of the row expires nothing.
LEMMA CancelRowInv == ASSUME IInv, NEW r \in Rows, CancelRow(r) PROVE IInv'
  <1>1. \A q \in Rows : /\ rows'[q].order = rows[q].order
                        /\ rows'[q].status = IF q = r THEN "cancelled" ELSE rows[q].status
    BY DEF IInv, TypeOK, CancelRow
  <1>2. TypeOK'
    BY DEF IInv, TypeOK, CancelRow, RowStatuses
  <1>3. RowsNamed' /\ OneRowPerOrder' /\ ExpiredAfterDeadline' /\ TxsSound' /\ RowsStay
    BY <1>1, <1>2, SettleRows DEF CancelRow, Pending, TypeOK
  <1> QED
    BY <1>2, <1>3, RowsOnly, PipelineStep DEF CancelRow

-----------------------------------------------------------------------------
\* The tick selects rows that exist.
LEMMA TickSelectInv == ASSUME IInv, TickSelect PROVE IInv'
  <1>1. Oldest(Live(clock)) \subseteq {r \in Rows : Pending(r)}
    BY DEF Oldest, Live
  <1>2. TypeOK' /\ cron'.now = clock /\ \A r \in cron'.list : r \in Rows /\ Pending(r)
    BY <1>1 DEF IInv, TypeOK, TickSelect
  <1>3. CronSound' /\ RowsStay
    BY <1>2, KeeperAssumption DEF CronSound, TickSelect, Pending, RowsStay, IInv, TypeOK
  <1>4. RowsNamed' /\ OneRowPerOrder' /\ ExpiredAfterDeadline' /\ TxsSound'
    BY DEF TickSelect, IInv, RowsNamed, OneRowPerOrder, ExpiredAfterDeadline, TxsSound
  <1> QED
    BY <1>2, <1>3, <1>4, RowsOnly, PipelineStep DEF TickSelect

\* It sends messages about rows that exist.
LEMMA TickSendInv == ASSUME IInv, TickSend PROVE IInv'
  <1> PICK r \in cron.list : TickSend!2!(r)
    BY DEF TickSend
  <1>1. r \in Rows /\ rows[r].status # "absent" /\ r \in 0 .. MaxRows
    <2>1. r \in Rows /\ rows[r].status # "absent"
      BY DEF IInv, TypeOK, CronSound
    <2> QED
      BY <2>1, KeeperAssumption DEF Rows
  <1>2. cron' = [cron EXCEPT !.list = cron.list \ {r}]
        /\ UNCHANGED <<clock, chain, txs, verified, rows>>
    BY DEF TickSend
  <1>3. CronSound' /\ cron' \in [stage : {"idle", "sending"}, list : SUBSET Rows, now : 0 .. MaxTime]
    BY <1>2 DEF IInv, TypeOK, CronSound
  <1>4. RowsNamed' /\ OneRowPerOrder' /\ ExpiredAfterDeadline' /\ TxsSound' /\ RowsStay
    BY <1>2 DEF IInv, RowsNamed, OneRowPerOrder, ExpiredAfterDeadline, TxsSound, RowsStay
  <1>7. clock <= clock'
    BY <1>2, KeeperAssumption DEF IInv, TypeOK
  <1>5. CASE UNCHANGED msgs
    <2>1. TypeOK'
      BY <1>2, <1>3, <1>5 DEF IInv, TypeOK
    <2> QED
      BY <1>2, <1>3, <1>4, <1>5, <2>1, RowsOnly, PipelineStep
  <1>6. ASSUME NEW m \in Messages, msgs[m] = NoMessage,
               msgs' = [msgs EXCEPT ![m] = Queued(r, 0)]
        PROVE  IInv'
    <2> DEFINE x == Queued(r, 0)
    <2>1. msgs' = [msgs EXCEPT ![m] = x] /\ x \in Message
      BY <1>1, <1>6, KeeperAssumption DEF Queued, Message, Stages
    <2>2. \A n \in Messages : msgs'[n] = IF n = m THEN x ELSE msgs[n]
      BY <2>1 DEF IInv, TypeOK
    <2>3. TypeOK'
      BY <1>2, <1>3, <2>1 DEF IInv, TypeOK, Message
    <2>4. \A n \in Messages : Undisturbed(n) \/ MessageSound(msgs[n])'
      BY <1>1, <1>2, <2>2 DEF Undisturbed, MessageSound, IInv, MessagesSound, Queued
    <2> QED
      BY <1>3, <1>4, <1>7, <2>3, <2>4, PipelineStep
  <1> QED
    BY <1>5, <1>6 DEF TickSend

\* The tick expires rows whose deadline had come when it began.
LEMMA TickExpireInv == ASSUME IInv, TickExpire PROVE IInv'
  <1>1. \A q \in Rows :
           /\ rows'[q].order = rows[q].order
           /\ \/ rows'[q] = rows[q]
              \/ /\ Pending(q) /\ Deadline[rows[q].order] <= cron.now
                 /\ rows'[q] = [rows[q] EXCEPT !.status = "expired"]
    BY DEF IInv, TypeOK, TickExpire
  <1>2. rows' \in [Rows -> [order : Orders \cup {NoRow}, status : RowStatuses]]
    BY DEF IInv, TypeOK, TickExpire, RowStatuses
  <1>3. IdleCron \in [stage : {"idle", "sending"}, list : SUBSET Rows, now : 0 .. MaxTime]
        /\ 0 <= clock
    BY KeeperAssumption DEF IdleCron, IInv, TypeOK
  <1>4. TypeOK' /\ CronSound'
    BY <1>2, <1>3 DEF IInv, TypeOK, TickExpire, CronSound, IdleCron
  <1>5. \A q \in Rows : /\ rows'[q].status = "absent" <=> rows[q].status = "absent"
                        /\ rows'[q].status = "expired" => \/ rows[q].status = "expired"
                                                          \/ clock >= Deadline[rows[q].order]
    <2> SUFFICES ASSUME NEW q \in Rows, rows'[q] # rows[q]
                 PROVE  /\ rows'[q].status = "expired" /\ rows[q].status = "pending"
                        /\ clock >= Deadline[rows[q].order]
      BY Zenon
    <2>1. Deadline[rows[q].order] <= cron.now /\ Pending(q)
          /\ rows'[q] = [rows[q] EXCEPT !.status = "expired"]
      BY <1>1
    <2>2. rows[q].order \in Orders /\ rows'[q].status = "expired" /\ rows[q].status = "pending"
      BY <1>2, <2>1, Types DEF Pending, IInv, TypeOK
    <2> QED
      BY <2>1, <2>2, KeeperAssumption DEF IInv, CronSound, TypeOK
  <1>6. RowsNamed' /\ OneRowPerOrder' /\ ExpiredAfterDeadline' /\ TxsSound' /\ RowsStay
    BY <1>1, <1>2, <1>5, SettleRows DEF TickExpire
  <1> QED
    BY <1>4, <1>6, RowsOnly, PipelineStep DEF TickExpire

\* A tick that dies leaves everything as it is.
LEMMA TickFailInv == ASSUME IInv, TickFail PROVE IInv'
  <1>1. IdleCron \in [stage : {"idle", "sending"}, list : SUBSET Rows, now : 0 .. MaxTime]
        /\ 0 <= clock
    BY KeeperAssumption DEF IdleCron, IInv, TypeOK
  <1> QED
    BY <1>1 DEF TickFail, IInv, TypeOK, RowsNamed, MessagesSound, MessageSound, CronSound, TxsSound,
                OneRowPerOrder, ExpiredAfterDeadline, IdleCron

-----------------------------------------------------------------------------
\* A message that is acknowledged, retried or dead-lettered.
LEMMA SettledInv ==
    ASSUME IInv, NEW m \in Messages, msgs[m].stage # "none", Ack(m) \/ Retry(m),
           UNCHANGED <<clock, chain, txs, verified, rows, cron>>
    PROVE  IInv'
  BY Settled, MessageStep

\* A message that moves on, seen as the message it becomes.
LEMMA Advanced ==
    ASSUME IInv, NEW m \in Messages, msgs[m].stage # "none",
           NEW stage \in Stages \ {"none", "waiting"}, Advance(m, stage)
    PROVE  \E x \in Message : /\ MessageSound(x) /\ x.stage = stage /\ x.row = msgs[m].row
                              /\ x.tx = msgs[m].tx
                              /\ msgs' = [msgs EXCEPT ![m] = x]
  <1>1. msgs[m] \in Message /\ MessageSound(msgs[m])
    BY Types DEF IInv, MessagesSound
  <1> DEFINE x == [msgs[m] EXCEPT !.stage = stage]
  <1>2. x \in Message /\ x.stage = stage /\ x.row = msgs[m].row /\ x.tx = msgs[m].tx
    BY <1>1 DEF Message
  <1>3. MessageSound(x)
    BY <1>1, <1>2 DEF MessageSound
  <1>4. msgs' = [msgs EXCEPT ![m] = x]
    BY DEF Advance
  <1> QED
    BY <1>2, <1>3, <1>4

\* A message that moves on and nothing else.
LEMMA AdvancedInv ==
    ASSUME IInv, NEW m \in Messages, msgs[m].stage # "none",
           NEW stage \in Stages \ {"none", "waiting"}, Advance(m, stage),
           UNCHANGED <<clock, chain, txs, verified, rows, cron>>
    PROVE  IInv'
  BY Advanced, MessageStep

\* A message that is done and settles its row, as expired only after its
\* deadline.
LEMMA DoneInv ==
    ASSUME IInv, NEW m \in Messages, msgs[m].stage # "none", Advance(m, "done"),
           UNCHANGED <<clock, chain, txs, verified, cron>>,
           \/ rows' = rows
           \/ \E status \in {"executed", "expired"} :
                 /\ rows' = [rows EXCEPT ![row(m)].status = status]
                 /\ status = "expired" => clock >= Deadline[ordr(m)]
    PROVE  IInv'
  <1>1. row(m) \in Rows /\ rows[row(m)].status # "absent"
    BY DEF IInv, MessagesSound, MessageSound, row
  <1>2. PICK x \in Message : /\ MessageSound(x) /\ x.stage = "done" /\ x.row = msgs[m].row
                             /\ msgs' = [msgs EXCEPT ![m] = x]
    BY Advanced DEF Stages
  <1>3. CASE rows' = rows
    BY <1>2, <1>3, MessageStep
  <1>4. ASSUME NEW status \in {"executed", "expired"},
               rows' = [rows EXCEPT ![row(m)].status = status],
               status = "expired" => clock >= Deadline[ordr(m)]
        PROVE  IInv'
    <2>1. \A q \in Rows : /\ rows'[q].order = rows[q].order
                          /\ rows'[q].status = IF q = row(m) THEN status ELSE rows[q].status
      BY <1>1, <1>4 DEF IInv, TypeOK
    <2>2. rows' \in [Rows -> [order : Orders \cup {NoRow}, status : RowStatuses]]
      BY <1>1, <1>4 DEF IInv, TypeOK, RowStatuses
    <2>3. TypeOK'
      BY <1>2, <2>2 DEF IInv, TypeOK, Message
    <2>4. RowsNamed' /\ OneRowPerOrder' /\ ExpiredAfterDeadline' /\ TxsSound' /\ RowsStay
      BY <1>1, <1>4, <2>1, <2>2, SettleRows DEF ordr
    <2>5. \A n \in Messages : msgs'[n] = IF n = m THEN x ELSE msgs[n]
      BY <1>2 DEF IInv, TypeOK
    <2>6. \A n \in Messages : Undisturbed(n) \/ MessageSound(msgs[n])'
      <3>1. MessageSound(x)'
        BY <1>1, <1>2, <2>4 DEF MessageSound, RowsStay, row
      <3> QED
        BY <2>5, <3>1 DEF Undisturbed, MessageSound, IInv, MessagesSound
    <2>7. clock <= clock'
      BY KeeperAssumption DEF IInv, TypeOK
    <2> QED
      BY <2>3, <2>4, <2>6, <2>7, PipelineStep
  <1> QED
    BY <1>3, <1>4

-----------------------------------------------------------------------------
\* A message whose row is not pending is acknowledged.
LEMMA SelectRowInv == ASSUME IInv, NEW m \in Messages, SelectRow(m) PROVE IInv'
  BY SettledInv, AdvancedInv DEF SelectRow, At, Stages

\* The expiry that a message writes comes after the deadline.
LEMMA ExpireRowInv == ASSUME IInv, NEW m \in Messages, ExpireRow(m) PROVE IInv'
  <1>1. row(m) \in Rows /\ rows[row(m)].order \in Orders
    BY Types DEF ExpireRow, At, IInv, MessagesSound, MessageSound, row
  <1>2. clock >= Deadline[ordr(m)]
    BY <1>1, KeeperAssumption DEF ExpireRow, Due, ordr, IInv, TypeOK
  <1> QED
    BY <1>2, DoneInv DEF ExpireRow, At

\* Evaluation and preflight write nothing.
LEMMA EvaluateInv == ASSUME IInv, NEW m \in Messages, Evaluate(m) PROVE IInv'
  BY SettledInv, AdvancedInv DEF Evaluate, At, Stages

\* So does the estimation of the gas.
LEMMA PreflightInv == ASSUME IInv, NEW m \in Messages, Preflight(m) PROVE IInv'
  BY SettledInv, AdvancedInv DEF Preflight, At, Stages

\* A submission takes a transaction that no message waits for.
LEMMA SubmitInv == ASSUME IInv, NEW m \in Messages, Submit(m) PROVE IInv'
  <1>0. /\ row(m) \in Rows /\ rows[row(m)].status # "absent" /\ ordr(m) \in Orders
        /\ msgs[m].stage = "signed" /\ msgs[m] \in Message
    BY Types DEF Submit, At, IInv, MessagesSound, MessageSound, row, ordr
  <1>1. CASE UNCHANGED txs /\ (Retry(m) \/ Ack(m))
    BY <1>0, <1>1, SettledInv DEF Submit
  <1>2. ASSUME NEW t \in Txs, Reusable(t),
               txs' = [txs EXCEPT ![t] = [order |-> ordr(m), status |-> "mempool"]],
               NEW x \in Message, msgs' = [msgs EXCEPT ![m] = x], MessageSound(x)'
        PROVE  IInv'
    <2>1. \A u \in Txs : txs'[u] = IF u = t THEN [order |-> ordr(m), status |-> "mempool"]
                                            ELSE txs[u]
      BY <1>2 DEF IInv, TypeOK
    <2>2. TypeOK'
      BY <1>0, <1>2 DEF IInv, TypeOK, Submit, Message, TxStatuses
    <2>3. TxsSound'
      BY <1>0, <2>1 DEF IInv, TxsSound, Submit
    <2>4. RowsNamed' /\ OneRowPerOrder' /\ ExpiredAfterDeadline' /\ RowsStay
      BY DEF IInv, Submit, RowsNamed, OneRowPerOrder, ExpiredAfterDeadline, RowsStay
    <2>5. \A n \in Messages : Undisturbed(n) \/ MessageSound(msgs[n])'
      <3> SUFFICES ASSUME NEW n \in Messages, n # m PROVE Undisturbed(n)
        BY <1>2 DEF IInv, TypeOK
      <3>1. msgs'[n] = msgs[n] /\ msgs[n].tx # t
        BY <1>2 DEF IInv, TypeOK, Reusable
      <3>2. msgs[n].stage = "waiting" => msgs[n].tx \in Txs /\ txs[msgs[n].tx].status # "none"
        BY DEF IInv, MessagesSound, MessageSound
      <3> QED
        BY <2>1, <3>1, <3>2 DEF Undisturbed
    <2>6. clock <= clock'
      BY KeeperAssumption DEF IInv, TypeOK, Submit
    <2> QED
      BY <2>2, <2>3, <2>4, <2>5, <2>6, PipelineStep DEF Submit
  <1>3. ASSUME NEW t \in Txs, Reusable(t),
               txs' = [txs EXCEPT ![t] = [order |-> ordr(m), status |-> "mempool"]],
               msgs' = [msgs EXCEPT ![m] = WaitingFor(t, m)]
        PROVE  IInv'
    <2>1. PICK x : x = WaitingFor(t, m)
      OBVIOUS
    <2>2. x \in Message
      BY <1>0, <2>1 DEF Message, Stages, row, WaitingFor
    <2>3. x.stage = "waiting" /\ x.row = row(m) /\ x.tx = t
      BY <2>1 DEF WaitingFor
    <2>4. txs'[t].status = "mempool" /\ txs'[t].order = rows[row(m)].order
      BY <1>3 DEF IInv, TypeOK, ordr
    <2>5. MessageSound(x)'
      BY <1>0, <2>3, <2>4 DEF MessageSound, Submit
    <2> QED
      BY <1>2, <1>3, <2>1, <2>2, <2>5
  <1>4. ASSUME NEW t \in Txs, Reusable(t),
               txs' = [txs EXCEPT ![t] = [order |-> ordr(m), status |-> "mempool"]],
               Ack(m) \/ Retry(m)
        PROVE  IInv'
    <2> PICK x \in Message : /\ MessageSound(x) /\ x.stage \in {"none", "queued"}
                             /\ msgs' = [msgs EXCEPT ![m] = x]
      BY <1>0, <1>4, Settled
    <2>1. MessageSound(x)'
      BY DEF MessageSound, Submit
    <2> QED
      BY <1>2, <1>4, <2>1
  <1> QED
    BY <1>1, <1>3, <1>4 DEF Submit

\* The answer of a wait writes nothing yet.
LEMMA AwaitReceiptInv == ASSUME IInv, NEW m \in Messages, AwaitReceipt(m) PROVE IInv'
  <1>1. \/ Ack(m) \/ Retry(m)
        \/ Advance(m, "confirmed") \/ Advance(m, "unconfirmed")
    BY DEF AwaitReceipt
  <1> QED
    BY <1>1, SettledInv, AdvancedInv DEF AwaitReceipt, At, Stages

\* The result changes the message's own row, or none.
LEMMA RecordResultInv == ASSUME IInv, NEW m \in Messages, RecordResult(m) PROVE IInv'
  BY DoneInv DEF RecordResult, At

\* An acknowledgement of a finished message writes nothing.
LEMMA FinishInv == ASSUME IInv, NEW m \in Messages, Finish(m) PROVE IInv'
  BY SettledInv DEF Finish, At

\* A delivery that dies is delivered again, or dead-lettered.
LEMMA RedeliverInv == ASSUME IInv, NEW m \in Messages, Redeliver(m) PROVE IInv'
  BY SettledInv DEF Redeliver

-----------------------------------------------------------------------------
\* Every step keeps the invariant.
LEMMA NextInv == ASSUME IInv, [Next]_vars PROVE IInv'
  <1>1. ASSUME NEW o \in Orders, OnChain(o) \/ VerifyOrder(o) \/ InsertOrder(o) PROVE IInv'
    BY <1>1, OnChainInv, VerifyOrderInv, InsertOrderInv
  <1>2. ASSUME NEW t \in Txs, Mine(t) \/ Drop(t) PROVE IInv'
    BY <1>2, MineInv, DropInv
  <1>3. ASSUME NEW m \in Messages, Consume(m) \/ Redeliver(m) PROVE IInv'
    BY <1>3, SelectRowInv, ExpireRowInv, EvaluateInv, PreflightInv, SubmitInv, AwaitReceiptInv,
       RecordResultInv, FinishInv, RedeliverInv DEF Consume
  <1>4. CASE UNCHANGED vars
    BY <1>4 DEF vars, IInv, TypeOK, RowsNamed, MessagesSound, MessageSound, CronSound, TxsSound,
                OneRowPerOrder, ExpiredAfterDeadline
  <1> QED
    BY <1>1, <1>2, <1>3, <1>4, TickInv, CancelRowInv, TickSelectInv, TickSendInv, TickExpireInv,
       TickFailInv DEF Next, Cron

\* IInv is an invariant of every behaviour, fair or not.
THEOREM Invariance == Spec => []IInv
  BY InitIInv, NextInv, PTL DEF Spec

\* Every variable keeps its type.
THEOREM TypeCorrect == Spec => []TypeOK
  BY Invariance, PTL DEF IInv

\* However POST requests interleave, an order has one row.
THEOREM RowUnique == Spec => []OneRowPerOrder
  BY Invariance, PTL DEF IInv

\* However long a tick or a message waited, it expires no row early.
THEOREM ExpiryTimely == Spec => []ExpiredAfterDeadline
  BY Invariance, PTL DEF IInv

-----------------------------------------------------------------------------
\* An order that was executed on chain stays executed.
LEMMA ExecutedStays ==
    ASSUME IInv, [Next]_vars, NEW o \in Orders, chain[o] = "executed"
    PROVE  chain'[o] = "executed"
  <1>1. ASSUME NEW p \in Orders, OnChain(p) PROVE chain'[o] = "executed"
    BY <1>1 DEF OnChain, IInv, TypeOK
  <1>2. ASSUME NEW t \in Txs, Mine(t) PROVE chain'[o] = "executed"
    BY <1>2 DEF Mine, IInv, TypeOK
  <1>3. CASE UNCHANGED chain
    BY <1>3
  <1> QED
    BY <1>1, <1>2, <1>3
       DEF Next, vars, Tick, VerifyOrder, InsertOrder, Drop, CancelRow, Cron, TickSelect, TickSend,
           TickExpire, TickFail, Consume, SelectRow, ExpireRow, Evaluate, Preflight, Submit,
           AwaitReceipt, RecordResult, Finish, Redeliver

\* What a step may do to a row that exists.
LEMMA RowsChange ==
    ASSUME IInv, [Next]_vars, NEW r \in Rows, rows[r].status # "absent"
    PROVE  /\ rows'[r].order = rows[r].order
           /\ \/ rows'[r].status = rows[r].status
              \/ rows'[r].status = "expired"
              \/ rows[r].status = "pending" /\ rows'[r].status = "cancelled"
              \/ /\ rows[r].status = "pending" /\ rows'[r].status = "executed"
                 /\ \E m \in Messages : /\ RecordResult(m) /\ At(m, "confirmed") /\ row(m) = r
  <1> DEFINE Kept == rows'[r].order = rows[r].order /\ rows'[r].status = rows[r].status
             Goal == /\ rows'[r].order = rows[r].order
                     /\ \/ rows'[r].status = rows[r].status
                        \/ rows'[r].status = "expired"
                        \/ rows[r].status = "pending" /\ rows'[r].status = "cancelled"
                        \/ /\ rows[r].status = "pending" /\ rows'[r].status = "executed"
                           /\ \E m \in Messages : RecordResult(m) /\ At(m, "confirmed") /\ row(m) = r
  <1>1. ASSUME NEW o \in Orders, InsertOrder(o) PROVE Kept
    BY <1>1 DEF InsertOrder, IInv, TypeOK
  <1>2. ASSUME NEW q \in Rows, CancelRow(q) PROVE Goal
    BY <1>2 DEF CancelRow, Pending, IInv, TypeOK
  <1>3. ASSUME TickExpire PROVE Goal
    BY <1>3 DEF TickExpire, IInv, TypeOK
  <1>4. ASSUME NEW m \in Messages, ExpireRow(m) PROVE Goal
    BY <1>4 DEF ExpireRow, IInv, TypeOK
  <1>5. ASSUME NEW m \in Messages, RecordResult(m) PROVE Goal
    <2>1. CASE rows' = rows
      BY <2>1
    <2>2. CASE At(m, "confirmed") /\ Pending(row(m))
               /\ rows' = [rows EXCEPT ![row(m)].status = "executed"]
      BY <1>5, <2>2 DEF Pending, IInv, TypeOK
    <2> QED
      BY <1>5, <2>1, <2>2 DEF RecordResult
  <1>6. CASE UNCHANGED rows
    BY <1>6
  <1> QED
    BY <1>1, <1>2, <1>3, <1>4, <1>5, <1>6
       DEF Next, vars, Tick, OnChain, VerifyOrder, Mine, Drop, Cron, TickSelect, TickSend,
           TickFail, Consume, SelectRow, Evaluate, Preflight, Submit, AwaitReceipt, Finish, Redeliver

\* A late confirmation revives no settled row: whatever two deliveries of a
\* message do, only an expiry overwrites.
THEOREM OnlyExpiryOverwritesHolds == Spec => OnlyExpiryOverwrites
  <1>1. ASSUME IInv, [Next]_vars, NEW r \in Rows,
               rows[r].status \in {"executed", "cancelled", "expired"}
        PROVE  rows'[r].status \in {rows[r].status, "expired"}
    BY <1>1, RowsChange
  <1>2. IInv /\ [Next]_vars => [\A r \in Rows : rows[r].status \in {"executed", "cancelled", "expired"}
                         => rows'[r].status \in {rows[r].status, "expired"}]_vars
    BY <1>1
  <1> QED
    BY <1>2, Invariance, PTL DEF Spec, OnlyExpiryOverwrites

\* What takes a settled row back is the consumer's expiry of that row, once the
\* deadline of its order is over: the cron asks for pending rows, and nothing else
\* writes over a settled one.
LateExpiries ==
    \A r \in Rows :
        rows[r].status \in {"executed", "cancelled"} /\ rows'[r].status # rows[r].status =>
           /\ clock >= Deadline[rows[r].order]
           /\ \E m \in Messages : ExpireRow(m) /\ row(m) = r

\* The UPDATE of queue-handler.ts:311 alone overwrites executed and cancelled
\* rows, and only those whose deadline is over: before it they are kept.
THEOREM OnlyConsumerOverwrites == Spec => [][LateExpiries]_vars
  <1>1. ASSUME IInv, IInv', [Next]_vars, NEW r \in Rows,
               rows[r].status \in {"executed", "cancelled"},
               rows'[r].status # rows[r].status
        PROVE  /\ clock >= Deadline[rows[r].order]
               /\ \E m \in Messages : ExpireRow(m) /\ row(m) = r
    <2>1. rows'[r].status = "expired" /\ rows'[r].order = rows[r].order
      BY <1>1, RowsChange
    <2>2. clock' >= Deadline[rows[r].order]
      BY <1>1, <2>1 DEF IInv, ExpiredAfterDeadline
    <2>3. ASSUME NEW q \in Rows, CancelRow(q) PROVE FALSE
      BY <1>1, <2>1, <2>3 DEF CancelRow, Pending, IInv, TypeOK
    <2>4. ASSUME TickExpire PROVE FALSE
      BY <1>1, <2>4 DEF TickExpire, Pending, IInv, TypeOK
    <2>5. ASSUME NEW m \in Messages, RecordResult(m) PROVE FALSE
      BY <1>1, <2>1, <2>5 DEF RecordResult, Pending, IInv, TypeOK
    <2>6. ASSUME NEW o \in Orders, InsertOrder(o) PROVE FALSE
      BY <1>1, <2>1, <2>6 DEF InsertOrder, IInv, TypeOK
    <2>7. ASSUME NEW m \in Messages, ExpireRow(m) PROVE row(m) = r /\ clock' = clock
      BY <1>1, <2>7 DEF ExpireRow, IInv, TypeOK
    <2>8. CASE UNCHANGED rows
      BY <1>1, <2>8
    <2> QED
      BY <1>1, <2>2, <2>3, <2>4, <2>5, <2>6, <2>7, <2>8
         DEF Next, vars, Tick, OnChain, VerifyOrder, Mine, Drop, Cron, TickSelect, TickSend,
             TickFail, Consume, SelectRow, Evaluate, Preflight, Submit, AwaitReceipt, Finish, Redeliver
  <1>2. IInv /\ IInv' /\ [Next]_vars => [LateExpiries]_vars
    BY <1>1 DEF LateExpiries
  <1> QED
    BY <1>2, Invariance, PTL DEF Spec

-----------------------------------------------------------------------------
\* A new row is pending.
LEMMA NewRowPending ==
    ASSUME IInv, [Next]_vars, NEW r \in Rows, rows[r].status = "absent"
    PROVE  rows'[r].status # "executed"
  <1>1. ASSUME NEW o \in Orders, InsertOrder(o) PROVE rows'[r].status # "executed"
    BY <1>1 DEF InsertOrder, IInv, TypeOK
  <1>2. ASSUME NEW q \in Rows, CancelRow(q) PROVE rows'[r].status # "executed"
    BY <1>2 DEF CancelRow, Pending, IInv, TypeOK
  <1>3. ASSUME TickExpire PROVE rows'[r].status # "executed"
    BY <1>3 DEF TickExpire, IInv, TypeOK
  <1>4. ASSUME NEW m \in Messages, ExpireRow(m) PROVE rows'[r].status # "executed"
    BY <1>4 DEF ExpireRow, IInv, TypeOK
  <1>5. ASSUME NEW m \in Messages, RecordResult(m) PROVE rows'[r].status # "executed"
    <2>1. CASE rows' = rows
      BY <2>1
    <2>2. CASE Pending(row(m)) /\ rows' = [rows EXCEPT ![row(m)].status = "executed"]
      BY <2>2 DEF Pending, IInv, TypeOK
    <2> QED
      BY <1>5, <2>1, <2>2 DEF RecordResult
  <1>6. CASE UNCHANGED rows
    BY <1>6
  <1> QED
    BY <1>1, <1>2, <1>3, <1>4, <1>5, <1>6
       DEF Next, vars, Tick, OnChain, VerifyOrder, Mine, Drop, Cron, TickSelect, TickSend,
           TickFail, Consume, SelectRow, Evaluate, Preflight, Submit, AwaitReceipt, Finish, Redeliver

\* A message is confirmed only by a wait that was answered with a receipt of
\* a transaction that executed its order.
LEMMA ConfirmedBy ==
    ASSUME IInv, [Next]_vars, NEW m \in Messages, msgs'[m].stage = "confirmed"
    PROVE  \/ msgs'[m] = msgs[m]
           \/ /\ UNCHANGED <<chain, rows, txs>> /\ msgs[m].stage = "waiting"
              /\ msgs'[m].row = msgs[m].row /\ "success" \in Receipts(msgs[m].tx)
  <1> DEFINE Goal == \/ msgs'[m] = msgs[m]
                     \/ /\ UNCHANGED <<chain, rows, txs>> /\ msgs[m].stage = "waiting"
                        /\ msgs'[m].row = msgs[m].row /\ "success" \in Receipts(msgs[m].tx)
  <1>1. ASSUME NEW n \in Messages, msgs[n].stage # "none", Ack(n) \/ Retry(n) PROVE Goal
    BY <1>1, Settled DEF IInv, TypeOK
  <1>2. ASSUME NEW n \in Messages, msgs[n].stage # "none",
               NEW stage \in Stages \ {"none", "waiting"}, Advance(n, stage)
        PROVE  \/ msgs'[m] = msgs[m]
               \/ m = n /\ stage = "confirmed" /\ msgs'[m].row = msgs[m].row
    BY <1>2, Advanced DEF IInv, TypeOK
  <1>3. ASSUME NEW n \in Messages, AwaitReceipt(n) PROVE Goal
    <2>1. CASE Ack(n) \/ Retry(n)
      BY <1>1, <1>3, <2>1 DEF AwaitReceipt, At
    <2>2. CASE Advance(n, "unconfirmed")
      BY <1>2, <1>3, <2>2 DEF AwaitReceipt, At, Stages
    <2>3. CASE "success" \in Receipts(msgs[n].tx) /\ Advance(n, "confirmed")
      BY <1>2, <1>3, <2>3 DEF AwaitReceipt, At, Stages
    <2> QED
      BY <1>3, <2>1, <2>2, <2>3 DEF AwaitReceipt, Confirms
  <1>4. ASSUME NEW n \in Messages, Submit(n) PROVE Goal
    <2>1. ASSUME NEW t \in Txs, msgs' = [msgs EXCEPT ![n] = WaitingFor(t, n)] PROVE Goal
      BY <2>1 DEF IInv, TypeOK, WaitingFor
    <2> QED
      BY <1>1, <1>4, <2>1 DEF Submit, At
  <1>5. ASSUME TickSend PROVE Goal
    BY <1>5 DEF TickSend, Queued, IInv, TypeOK
  <1>6. ASSUME NEW n \in Messages,
               SelectRow(n) \/ ExpireRow(n) \/ Evaluate(n) \/ Preflight(n) \/ RecordResult(n)
               \/ Finish(n) \/ Redeliver(n)
        PROVE  Goal
    <2>1. msgs[n].stage # "none"
      BY <1>6 DEF SelectRow, ExpireRow, Evaluate, Preflight, RecordResult, Finish, Redeliver, At
    <2>2. \/ Ack(n) \/ Retry(n)
          \/ \E stage \in Stages \ {"none", "waiting", "confirmed"} : Advance(n, stage)
      BY <1>6 DEF SelectRow, ExpireRow, Evaluate, Preflight, RecordResult, Finish, Redeliver, Stages
    <2> QED
      BY <1>1, <1>2, <2>1, <2>2
  <1>7. CASE UNCHANGED msgs
    BY <1>7
  <1> QED
    BY <1>3, <1>4, <1>5, <1>6, <1>7
       DEF Next, vars, Tick, OnChain, VerifyOrder, InsertOrder, Mine, Drop, CancelRow, Cron,
           TickSelect, TickExpire, TickFail, Consume

\* With its own order's receipts only, a confirmed message is about an executed
\* order, and so is the row it marks.
LEMMA BackedInv == ASSUME IInv, CInv, OwnReceipts, [Next]_vars PROVE CInv'
  <1>1. ASSUME NEW r \in Rows, rows[r].status # "absent", chain[rows[r].order] = "executed"
        PROVE  chain'[rows'[r].order] = "executed" /\ rows'[r].order = rows[r].order
    <2>1. rows[r].order \in Orders /\ rows'[r].order = rows[r].order
      BY <1>1, Types, RowsChange
    <2> QED
      BY <1>1, <2>1, ExecutedStays
  <1>2. ConfirmedBacked'
    <2> SUFFICES ASSUME NEW m \in Messages, msgs'[m].stage = "confirmed"
                 PROVE  chain'[rows'[msgs'[m].row].order] = "executed"
      BY DEF ConfirmedBacked, ordr, row
    <2>1. CASE msgs'[m] = msgs[m]
      <3>1. msgs[m].row \in Rows /\ rows[msgs[m].row].status # "absent"
            /\ chain[rows[msgs[m].row].order] = "executed"
        BY <2>1 DEF IInv, MessagesSound, MessageSound, CInv, ConfirmedBacked, ordr, row
      <3> QED
        BY <1>1, <2>1, <3>1
    <2>2. CASE UNCHANGED <<chain, rows, txs>> /\ msgs[m].stage = "waiting"
               /\ msgs'[m].row = msgs[m].row /\ "success" \in Receipts(msgs[m].tx)
      <3> DEFINE t == msgs[m].tx
      <3>1. /\ msgs[m].row \in Rows /\ rows[msgs[m].row].order \in Orders
            /\ t \in Txs /\ txs[t].order = rows[msgs[m].row].order
        BY <2>2, Types DEF IInv, MessagesSound, MessageSound
      <3>2. PICK u \in Txs : /\ txs[u].status = "success"
                             /\ txs[t].status # "dropped" => u = t
        BY <2>2, <3>1 DEF Receipts
      <3>3. txs[u].order \in Orders /\ chain[txs[u].order] = "executed"
        BY <3>2 DEF IInv, TxsSound
      <3>4. txs[u].order = txs[t].order
        BY <2>2, <3>2 DEF OwnReceipts
      <3> QED
        BY <2>2, <3>1, <3>3, <3>4
    <2> QED
      BY <2>1, <2>2, ConfirmedBy
  <1>3. ExecutedRowBacked'
    <2> SUFFICES ASSUME NEW r \in Rows, rows'[r].status = "executed"
                 PROVE  chain'[rows'[r].order] = "executed"
      BY DEF ExecutedRowBacked
    <2>1. rows[r].status # "absent"
      BY NewRowPending
    <2>2. CASE rows[r].status = "executed"
      BY <1>1, <2>1, <2>2 DEF CInv, ExecutedRowBacked
    <2>3. ASSUME NEW m \in Messages, At(m, "confirmed"), row(m) = r PROVE chain[rows[r].order] = "executed"
      BY <2>3 DEF At, ordr, CInv, ConfirmedBacked
    <2> QED
      BY <1>1, <2>1, <2>2, <2>3, RowsChange
  <1> QED
    BY <1>2, <1>3 DEF CInv

\* While no dropped transaction is replaced by one for another order, a row says
\* 'executed' only of an order the contract executed: skipped or reverted
\* receipts, lost answers, redeliveries and other people's executions never add
\* up to a false one.
THEOREM ExecutedRowsBacked == Spec /\ []OwnReceipts => []RowsSound
  <1>1. IInv /\ CInv => RowsSound
    BY DEF IInv, CInv, RowsSound
  <1>2. IInv /\ CInv /\ OwnReceipts /\ [Next]_vars => CInv'
    BY BackedInv
  <1> QED
    BY <1>1, <1>2, InitIInv, Invariance, PTL DEF Spec

\* With one order at work no wait can get another's receipt.
THEOREM OneOrderSound == ASSUME \A o, p \in Orders : o = p PROVE Spec => []RowsSound
  <1>1. IInv => OwnReceipts
    <2> SUFFICES ASSUME IInv, NEW m \in Messages, NEW u \in Txs,
                        msgs[m].stage = "waiting", txs[u].status = "success"
                 PROVE  txs[u].order = txs[msgs[m].tx].order
      BY DEF OwnReceipts
    <2>1. msgs[m].tx \in Txs /\ txs[msgs[m].tx].status # "none"
      BY DEF IInv, MessagesSound, MessageSound
    <2>2. txs[u].order \in Orders /\ txs[msgs[m].tx].order \in Orders
      BY <2>1 DEF IInv, TxsSound
    <2> QED
      BY <2>2
  <1> QED
    BY <1>1, Invariance, ExecutedRowsBacked, PTL

-----------------------------------------------------------------------------
\* Where the prices of the keeper come from (PriceFeed).

\* A value with its date, as read and as kept.
Readings == [value : Int, asOf : Nat]
Entries  == [value : Int, asOf : Nat, until : Nat]

FeedTyped ==
    /\ feedClock \in Nat
    /\ price \in [PF!Tokens -> Entries] /\ spot \in Entries /\ twap \in Entries
    /\ feedCron \in [stage : {"send", "read", "done"}]
                \cup [stage : {"write"}, at : Nat, prices : [PF!Tokens -> Readings]]
    /\ jobs \in [Jobs -> {PF!None} \cup [stage : {"queued"}, todo : SUBSET PF!Tokens]
                  \cup [stage : {"put"}, todo : SUBSET PF!Tokens, token : PF!Tokens,
                        usd : Nat, asOf : Nat]]
    /\ eval \in {PF!None} \cup [stage : {"twap", "chain"}, spot : Readings, at : Nat]
                \cup [stage : {"put", "decide"}, spot : Readings, twap : Readings, at : Nat]
                \cup [stage : {"submit"}, order : PF!Orders, spot : Readings,
                      twap : Readings, at : Nat]

\* How old a price, a spot price and a TWAP may be when they are read.
PriceAge == PriceTtl - 1 + MaxDelay
SpotAge  == PriceAge + SpotTtl - 1 + MaxDelay
TwapAge  == TwapTtl - 1 + MaxDelay

\* An entry is dated by what it was computed from, and outlives it only so long.
EntriesExpire ==
    /\ \A t \in PF!Tokens : price[t].value > 0 =>
          feedClock < price[t].until /\ price[t].until <= price[t].asOf + PriceAge + 1
    /\ spot.until <= spot.asOf + SpotAge + 1
    /\ twap.until <= twap.asOf + TwapAge + 1

\* What the refreshes hold is no older than their steps may take.
RefreshTimely ==
    /\ \A j \in Jobs : jobs[j].stage = "put" => feedClock <= jobs[j].asOf + MaxDelay
    /\ feedCron.stage = "write" =>
          /\ feedClock <= feedCron.at + MaxDelay
          /\ \A t \in PF!Tokens : feedCron.prices[t].value > 0 =>
                feedCron.at <= feedCron.prices[t].asOf + PriceAge

\* What an evaluation holds, and that it submits only what is triggered.
EvaluationTimely ==
    eval.stage # "none" =>
       /\ eval.at <= feedClock /\ feedClock <= eval.at + MaxDelay
       /\ eval.at <= eval.spot.asOf + SpotAge
       /\ eval.stage = "put" => eval.at <= eval.twap.asOf
       /\ eval.stage \in {"decide", "submit"} => eval.at <= eval.twap.asOf + TwapAge
       /\ eval.stage = "submit" => PF!isTriggered(eval.order, eval.spot.value, eval.twap.value)

FeedInv == FeedTyped /\ EntriesExpire /\ RefreshTimely /\ EvaluationTimely

\* The ages are numbers.
LEMMA AgesInt == ASSUME FeedConstants
                 PROVE PriceAge \in Int /\ SpotAge \in Int /\ TwapAge \in Int
  BY DEF FeedConstants, PriceAge, SpotAge, TwapAge

\* Time passes only while every handler is within its delay, and drops what expires.
LEMMA FeedTick == ASSUME FeedConstants, FeedInv, PF!Tick PROVE FeedInv'
<1> USE AgesInt
<1>1. /\ feedClock \in Nat /\ feedClock' = feedClock + 1
      /\ feedCron' = feedCron \/ feedCron' = [stage |-> "send"]
      /\ UNCHANGED <<jobs, eval>>
  BY DEF FeedInv, FeedTyped, PF!Tick
<1>2. \A e \in Entries : /\ PF!Kept(e) \in Entries
                         /\ \/ PF!Kept(e) = e /\ feedClock' < e.until
                            \/ PF!Kept(e) = PF!Never
  BY <1>1 DEF PF!Kept, PF!Never, Entries
<1>3. PF!Never \in Entries /\ PF!Never.value = 0 /\ PF!Never.asOf = 0 /\ PF!Never.until = 0
  BY DEF PF!Never, Entries
<1>4. \A t \in PF!Tokens : price'[t] = PF!Kept(price[t])
  BY DEF PF!Tick
<1>5. spot' = PF!Kept(spot) /\ twap' = PF!Kept(twap)
  BY DEF PF!Tick
<1>6. price' \in [PF!Tokens -> Entries] /\ spot' \in Entries /\ twap' \in Entries
  BY <1>2, <1>5 DEF PF!Tick, FeedInv, FeedTyped
<1>7. FeedTyped'
  BY <1>1, <1>6 DEF FeedInv, FeedTyped
<1>8. EntriesExpire'
  <2>1. ASSUME NEW t \in PF!Tokens, price'[t].value > 0
        PROVE feedClock' < price'[t].until /\ price'[t].until <= price'[t].asOf + PriceAge + 1
    <3>1. price[t] \in Entries /\ price'[t] = price[t] /\ feedClock' < price[t].until
      BY <1>2, <1>3, <1>4, <2>1 DEF FeedInv, FeedTyped
    <3> QED BY <2>1, <3>1 DEF FeedInv, EntriesExpire
  <2>2. spot'.until <= spot'.asOf + SpotAge + 1 /\ twap'.until <= twap'.asOf + TwapAge + 1
    <3>1. SpotAge >= 0 /\ TwapAge >= 0
      BY DEF FeedConstants, SpotAge, TwapAge, PriceAge
    <3>2. spot \in Entries /\ twap \in Entries
      BY DEF FeedInv, FeedTyped
    <3>3. spot' = spot \/ spot' = PF!Never
      BY <1>2, <1>5, <3>2
    <3>4. twap' = twap \/ twap' = PF!Never
      BY <1>2, <1>5, <3>2
    <3> QED BY <1>3, <3>1, <3>3, <3>4 DEF FeedInv, EntriesExpire
  <2> QED BY <2>1, <2>2 DEF EntriesExpire
<1>9. RefreshTimely'
  <2>1. ASSUME NEW j \in Jobs, jobs[j].stage = "put"
        PROVE feedClock' <= jobs[j].asOf + MaxDelay
    <3>1. jobs[j].asOf \in Nat
      BY <2>1 DEF FeedInv, FeedTyped, PF!None
    <3>2. feedClock - jobs[j].asOf < MaxDelay
      BY <2>1 DEF PF!Tick
    <3> QED BY <1>1, <3>1, <3>2 DEF FeedConstants
  <2>2. ASSUME feedCron'.stage = "write"
        PROVE /\ feedCron' = feedCron
              /\ feedClock' <= feedCron.at + MaxDelay
    <3>1. feedCron' = feedCron /\ feedCron.stage = "write" /\ feedCron.at \in Nat
      BY <1>1, <2>2 DEF FeedInv, FeedTyped
    <3>2. feedClock - feedCron.at < MaxDelay
      BY <3>1 DEF PF!Tick
    <3> QED BY <1>1, <3>1, <3>2 DEF FeedConstants
  <2> QED BY <1>1, <2>1, <2>2 DEF FeedInv, RefreshTimely
<1>10. EvaluationTimely'
  <2>1. ASSUME eval.stage # "none"
        PROVE eval.at <= feedClock' /\ feedClock' <= eval.at + MaxDelay
    <3>1. eval.at \in Nat /\ eval # PF!None
      BY <2>1 DEF FeedInv, FeedTyped, PF!None
    <3>2. feedClock - eval.at < MaxDelay
      BY <3>1 DEF PF!Tick
    <3>3. eval.at <= feedClock
      BY <2>1 DEF FeedInv, EvaluationTimely
    <3> QED BY <1>1, <3>1, <3>2, <3>3 DEF FeedConstants
  <2> QED BY <1>1, <2>1 DEF FeedInv, EvaluationTimely, PF!isTriggered
<1> QED BY <1>7, <1>8, <1>9, <1>10 DEF FeedInv

\* The cron queues a refresh, or reads the prices that are there: none has expired.
LEMMA FeedCron ==
    ASSUME FeedConstants, FeedInv,
           PF!refreshTopPools \/ PF!enqueuePriceRefresh \/ PF!ReadPrices
    PROVE  FeedInv'
<1> USE AgesInt
<1>1. CASE PF!refreshTopPools \/ PF!enqueuePriceRefresh
  <2>1. /\ UNCHANGED <<feedClock, price, spot, twap, eval>>
        /\ feedCron' = feedCron \/ feedCron' \in [stage : {"read", "done"}]
        /\ jobs' = jobs \/ \E j \in Jobs : PF!Queued(j)
    BY <1>1 DEF PF!refreshTopPools, PF!enqueuePriceRefresh
  <2>2. FeedTyped'
    <3>1. jobs' \in [Jobs -> {PF!None} \cup [stage : {"queued"}, todo : SUBSET PF!Tokens]
                  \cup [stage : {"put"}, todo : SUBSET PF!Tokens, token : PF!Tokens,
                        usd : Nat, asOf : Nat]]
      BY <2>1 DEF FeedInv, FeedTyped, PF!Queued
    <3> QED BY <2>1, <3>1 DEF FeedInv, FeedTyped
  <2>3. EntriesExpire' /\ EvaluationTimely'
    BY <2>1 DEF FeedInv, EntriesExpire, EvaluationTimely, PF!isTriggered
  <2>4. \A j \in Jobs : jobs'[j].stage = "put" => jobs'[j] = jobs[j]
    BY <2>1 DEF FeedInv, FeedTyped, PF!Queued
  <2>5. feedCron'.stage = "write" => feedCron' = feedCron
    BY <2>1
  <2>6. RefreshTimely'
    BY <2>1, <2>4, <2>5 DEF FeedInv, RefreshTimely
  <2> QED BY <2>2, <2>3, <2>6 DEF FeedInv
<1>2. CASE PF!ReadPrices
  <2>1. /\ UNCHANGED <<feedClock, price, spot, twap, jobs, eval>>
        /\ feedCron' = [stage |-> "write", at |-> feedClock,
                        prices |-> [t \in PF!Tokens |-> PF!Read(price[t])]]
    BY <1>2 DEF PF!ReadPrices
  <2>2. \A t \in PF!Tokens : /\ price[t] \in Entries
                             /\ PF!Read(price[t]) \in Readings
                             /\ PF!Read(price[t]).value = price[t].value
                             /\ PF!Read(price[t]).asOf = price[t].asOf
    BY DEF FeedInv, FeedTyped, PF!Read, Readings, Entries
  <2>3. FeedTyped'
    BY <2>1, <2>2 DEF FeedInv, FeedTyped
  <2>4. EntriesExpire' /\ EvaluationTimely'
    BY <2>1 DEF FeedInv, EntriesExpire, EvaluationTimely, PF!isTriggered
  <2>5. ASSUME NEW t \in PF!Tokens, price[t].value > 0
        PROVE feedClock <= price[t].asOf + PriceAge
    <3>1. feedClock \in Nat /\ price[t].asOf \in Nat /\ price[t].until \in Nat
      BY <2>2 DEF FeedInv, FeedTyped, Entries
    <3> QED BY <2>5, <3>1 DEF FeedInv, EntriesExpire
  <2>6. \A t \in PF!Tokens : feedCron'.prices[t].value > 0 =>
           feedCron'.at <= feedCron'.prices[t].asOf + PriceAge
    BY <2>1, <2>2, <2>5
  <2>7. feedClock' <= feedCron'.at + MaxDelay
    BY <2>1 DEF FeedConstants, FeedInv, FeedTyped
  <2>8. RefreshTimely'
    BY <2>1, <2>6, <2>7 DEF FeedInv, RefreshTimely
  <2> QED BY <2>3, <2>4, <2>8 DEF FeedInv
<1> QED BY <1>1, <1>2

\* A spot price is dated by the older of the two prices it is the ratio of.
LEMMA FeedSpot == ASSUME FeedConstants, FeedInv, PF!WriteSpot PROVE FeedInv'
<1> USE AgesInt
<1> DEFINE ps == feedCron.prices
           value == (PF!toScaledBigInt(ps[0].value) * Scale) \div PF!toScaledBigInt(ps[1].value)
<1>1. /\ feedCron.stage = "write" /\ feedCron' = [stage |-> "done"]
      /\ UNCHANGED <<feedClock, price, twap, jobs, eval>>
      /\ \/ PF!Priced(ps) /\ spot' = PF!Entry(value, PF!Oldest(ps), SpotTtl)
         \/ UNCHANGED spot
  BY DEF PF!WriteSpot
<1>2. /\ feedClock \in Nat /\ feedCron.at \in Nat
      /\ ps[0] \in Readings /\ ps[1] \in Readings
  BY <1>1 DEF FeedInv, FeedTyped, PF!Tokens
<1>3. CASE UNCHANGED spot
  BY <1>1, <1>3 DEF FeedInv, FeedTyped, EntriesExpire, RefreshTimely, EvaluationTimely,
                    PF!isTriggered
<1>4. CASE PF!Priced(ps) /\ spot' = PF!Entry(value, PF!Oldest(ps), SpotTtl)
  <2>1. value \in Int
    <3> DEFINE above == PF!toScaledBigInt(ps[0].value)
               below == PF!toScaledBigInt(ps[1].value)
    <3>1. ps[0].value \in Int /\ ps[1].value \in Int /\ ps[1].value > 0 /\ below # 0
      BY <1>2, <1>4 DEF PF!Priced, PF!Tokens, Readings
    <3>2. above \in Int /\ below \in Int /\ below > 0
      BY <3>1 DEF PF!toScaledBigInt
    <3> HIDE DEF above, below
    <3>3. above * Scale \in Int
      BY <3>2 DEF FeedConstants
    <3>4. (above * Scale) \div below \in Int
      <4> DEFINE n == above * Scale
      <4> HIDE DEF n
      <4> QED BY <3>2, <3>3
    <3> QED BY <3>4 DEF above, below
  <2> HIDE DEF value
  <2>2. /\ PF!Oldest(ps) \in Nat
        /\ feedCron.at <= PF!Oldest(ps) + PriceAge
    <3>1. ps[0].value > 0 /\ ps[1].value > 0
      BY <1>4 DEF PF!Priced, PF!Tokens
    <3>2. feedCron.at <= ps[0].asOf + PriceAge /\ feedCron.at <= ps[1].asOf + PriceAge
      BY <1>1, <3>1 DEF FeedInv, RefreshTimely, PF!Tokens
    <3> QED BY <1>2, <3>2 DEF PF!Oldest, Readings
  <2> HIDE DEF ps
  <2>3. /\ spot' \in Entries /\ spot'.asOf = PF!Oldest(ps)
        /\ spot'.until = feedClock + SpotTtl
    <3>1. SpotTtl \in Nat /\ feedClock \in Nat /\ PF!Oldest(ps) \in Nat
      BY <1>2, <2>2 DEF FeedConstants
    <3>2. spot' = PF!Entry(value, PF!Oldest(ps), SpotTtl)
      BY <1>4
    <3> QED BY <2>1, <3>1, <3>2 DEF PF!Entry, Entries
  <2>4. feedClock <= feedCron.at + MaxDelay
    BY <1>1 DEF FeedInv, RefreshTimely
  <2>5. feedClock + SpotTtl <= PF!Oldest(ps) + SpotAge + 1
    BY <1>2, <2>2, <2>4 DEF SpotAge, FeedConstants
  <2>6. spot'.until <= spot'.asOf + SpotAge + 1
    BY <2>3, <2>5
  <2>7. FeedTyped'
    BY <1>1, <2>3 DEF FeedInv, FeedTyped
  <2>8. EntriesExpire'
    BY <1>1, <2>6 DEF FeedInv, EntriesExpire
  <2>9. RefreshTimely' /\ EvaluationTimely'
    BY <1>1 DEF FeedInv, RefreshTimely, EvaluationTimely, PF!isTriggered
  <2> QED BY <2>7, <2>8, <2>9 DEF FeedInv
<1> QED BY <1>1, <1>3, <1>4

\* A token price is dated when it was fetched, and put before the delay is over.
LEMMA FeedJob ==
    ASSUME FeedConstants, FeedInv, NEW j \in Jobs,
           PF!fetchTokenPrice(j) \/ PF!PutPrice(j) \/ PF!EndJob(j)
    PROVE  FeedInv'
<1> USE AgesInt
<1>1. CASE PF!fetchTokenPrice(j) \/ PF!EndJob(j)
  <2>1. UNCHANGED <<feedClock, price, spot, twap, feedCron, eval>>
    BY <1>1 DEF PF!fetchTokenPrice, PF!EndJob
  <2>2. FeedTyped' /\ \A i \in Jobs : jobs'[i].stage = "put" =>
                         jobs'[i] = jobs[i] \/ jobs'[i].asOf = feedClock
    <3>1. CASE PF!fetchTokenPrice(j)
      <4>2. jobs[j].todo \subseteq PF!Tokens
        BY <3>1 DEF PF!fetchTokenPrice, FeedInv, FeedTyped, PF!None
      <4>3. PICK t \in jobs[j].todo, usd \in Usd :
              jobs' = [jobs EXCEPT ![j] = [stage |-> "put", todo |-> jobs[j].todo \ {t},
                                           token |-> t, usd |-> usd, asOf |-> feedClock]]
        BY <3>1 DEF PF!fetchTokenPrice
      <4>4. usd \in Nat
        BY DEF FeedConstants
      <4>5. t \in PF!Tokens
        BY <4>2
      <4>1. [stage |-> "put", todo |-> jobs[j].todo \ {t}, token |-> t, usd |-> usd,
             asOf |-> feedClock]
              \in [stage : {"put"}, todo : SUBSET PF!Tokens, token : PF!Tokens,
                   usd : Nat, asOf : Nat]
        BY <4>2, <4>4, <4>5 DEF FeedInv, FeedTyped
      <4> QED BY <2>1, <4>1, <4>3 DEF FeedInv, FeedTyped
    <3>2. CASE PF!EndJob(j)
      <4>1. jobs[j] \in [stage : {"queued"}, todo : SUBSET PF!Tokens]
        BY <3>2 DEF PF!EndJob, FeedInv, FeedTyped, PF!None
      <4>2. [jobs[j] EXCEPT !.todo = PF!Tokens] \in [stage : {"queued"}, todo : SUBSET PF!Tokens]
        BY <4>1
      <4>3. PICK next \in {PF!None} \cup [stage : {"queued"}, todo : SUBSET PF!Tokens] :
              jobs' = [jobs EXCEPT ![j] = next]
        BY <3>2, <4>2 DEF PF!EndJob
      <4>4. next.stage # "put"
        BY DEF PF!None
      <4> QED BY <2>1, <4>3, <4>4 DEF FeedInv, FeedTyped
    <3> QED BY <1>1, <3>1, <3>2
  <2>3. EntriesExpire' /\ EvaluationTimely'
    BY <2>1 DEF FeedInv, EntriesExpire, EvaluationTimely, PF!isTriggered
  <2>4. RefreshTimely'
    <3>1. feedClock <= feedClock + MaxDelay
      BY DEF FeedConstants, FeedInv, FeedTyped
    <3> QED BY <2>1, <2>2, <3>1 DEF FeedInv, RefreshTimely
  <2> QED BY <2>2, <2>3, <2>4 DEF FeedInv
<1>2. CASE PF!PutPrice(j)
  <2> DEFINE t == jobs[j].token
             e == PF!Entry(jobs[j].usd, jobs[j].asOf, PriceTtl)
  <2>1. /\ UNCHANGED <<feedClock, spot, twap, feedCron, eval>>
        /\ jobs[j].stage = "put"
        /\ jobs' = [jobs EXCEPT ![j] = [stage |-> "queued", todo |-> jobs[j].todo]]
        /\ price' = [price EXCEPT ![t] = e] \/ price' = price
    BY <1>2 DEF PF!PutPrice
  <2>2. /\ jobs[j].todo \subseteq PF!Tokens /\ t \in PF!Tokens
        /\ jobs[j].usd \in Nat /\ jobs[j].asOf \in Nat /\ feedClock \in Nat
        /\ feedClock <= jobs[j].asOf + MaxDelay
    BY <2>1 DEF FeedInv, FeedTyped, RefreshTimely, PF!None
  <2>3. e \in Entries /\ e.asOf = jobs[j].asOf /\ e.until = feedClock + PriceTtl
    <3>1. jobs[j].usd \in Int /\ PriceTtl \in Nat /\ feedClock \in Nat /\ jobs[j].asOf \in Nat
      BY <2>2 DEF FeedConstants
    <3> QED BY <3>1 DEF PF!Entry, Entries
  <2>4. feedClock < e.until /\ e.until <= e.asOf + PriceAge + 1
    BY <2>2, <2>3 DEF PriceAge, FeedConstants
  <2> HIDE DEF e, t
  <2>5. FeedTyped'
    BY <2>1, <2>2, <2>3 DEF FeedInv, FeedTyped
  <2>6. \A u \in PF!Tokens : price'[u] = price[u] \/ price'[u] = e
    BY <2>1 DEF FeedInv, FeedTyped
  <2>7. EntriesExpire'
    BY <2>1, <2>4, <2>6 DEF FeedInv, EntriesExpire
  <2>8. RefreshTimely' /\ EvaluationTimely'
    BY <2>1 DEF FeedInv, FeedTyped, RefreshTimely, EvaluationTimely, PF!isTriggered
  <2> QED BY <2>5, <2>7, <2>8 DEF FeedInv
<1> QED BY <1>1, <1>2

\* An evaluation reads only entries that have not expired.
LEMMA FeedRead ==
    ASSUME FeedConstants, FeedInv, PF!ReadSpot \/ PF!ReadTwap
    PROVE  FeedInv'
<1> USE AgesInt
<1>1. /\ UNCHANGED <<feedClock, price, spot, twap, feedCron, jobs>>
      /\ feedClock \in Nat /\ spot \in Entries /\ twap \in Entries
  BY DEF FeedInv, FeedTyped, PF!ReadSpot, PF!ReadTwap
<1>2. PF!Read(spot) \in Readings /\ PF!Read(spot).asOf = spot.asOf
  BY <1>1 DEF PF!Read, Readings, Entries
<1>3. PF!Read(twap) \in Readings /\ PF!Read(twap).asOf = twap.asOf
  BY <1>1 DEF PF!Read, Readings, Entries
<1>4. EntriesExpire' /\ RefreshTimely'
  BY <1>1 DEF FeedInv, EntriesExpire, RefreshTimely
<1>5. CASE PF!ReadSpot
  <2>1. /\ PF!Live(spot)
        /\ eval' = [stage |-> "twap", spot |-> PF!Read(spot), at |-> feedClock]
    BY <1>5 DEF PF!ReadSpot
  <2>2. eval' \in [stage : {"twap", "chain"}, spot : Readings, at : Nat]
    BY <1>1, <1>2, <2>1
  <2>3. feedClock <= spot.asOf + SpotAge
    <3>1. feedClock < spot.until /\ spot.until <= spot.asOf + SpotAge + 1
      BY <2>1 DEF PF!Live, FeedInv, EntriesExpire
    <3> QED BY <1>1, <3>1 DEF Entries
  <2>4. feedClock <= feedClock + MaxDelay
    BY <1>1 DEF FeedConstants
  <2>5. FeedTyped' /\ EvaluationTimely'
    BY <1>1, <1>2, <2>1, <2>2, <2>3, <2>4 DEF FeedInv, FeedTyped, EvaluationTimely
  <2> QED BY <1>4, <2>5 DEF FeedInv
<1>6. CASE PF!ReadTwap
  <2>1. eval \in [stage : {"twap", "chain"}, spot : Readings, at : Nat] /\ eval.stage = "twap"
    BY <1>6 DEF PF!ReadTwap, FeedInv, FeedTyped, PF!None
  <2>2. /\ eval.at <= feedClock /\ feedClock <= eval.at + MaxDelay
        /\ eval.at <= eval.spot.asOf + SpotAge
    BY <2>1 DEF FeedInv, EvaluationTimely
  <2>3. CASE PF!Live(twap)
    <3>1. eval' = [stage |-> "decide", spot |-> eval.spot, twap |-> PF!Read(twap),
                   at |-> eval.at]
      BY <1>6, <2>3 DEF PF!ReadTwap, PF!WithTwap
    <3>2. eval' \in [stage : {"put", "decide"}, spot : Readings, twap : Readings, at : Nat]
      BY <1>3, <2>1, <3>1
    <3>3. eval.at <= twap.asOf + TwapAge
      <4>1. feedClock < twap.until /\ twap.until <= twap.asOf + TwapAge + 1
        BY <2>3 DEF PF!Live, FeedInv, EntriesExpire
      <4> QED BY <1>1, <2>1, <2>2, <4>1 DEF Entries
    <3>4. FeedTyped' /\ EvaluationTimely'
      BY <1>1, <1>3, <2>2, <3>1, <3>2, <3>3 DEF FeedInv, FeedTyped, EvaluationTimely
    <3> QED BY <1>4, <3>4 DEF FeedInv
  <2>4. CASE ~ PF!Live(twap)
    <3>1. eval' = [eval EXCEPT !.stage = "chain"]
      BY <1>6, <2>4 DEF PF!ReadTwap
    <3>2. /\ eval' \in [stage : {"twap", "chain"}, spot : Readings, at : Nat]
          /\ eval'.stage = "chain" /\ eval'.spot = eval.spot /\ eval'.at = eval.at
      BY <2>1, <3>1
    <3>3. FeedTyped' /\ EvaluationTimely'
      BY <1>1, <2>2, <3>2 DEF FeedInv, FeedTyped, EvaluationTimely
    <3> QED BY <1>4, <3>3 DEF FeedInv
  <2> QED BY <2>3, <2>4
<1> QED BY <1>5, <1>6

\* A TWAP of the chain is dated within the evaluation that asked for it.
LEMMA FeedTwap ==
    ASSUME FeedConstants, FeedInv, PF!readTwapFromChain \/ PF!PutTwap
    PROVE  FeedInv'
<1> USE AgesInt
<1>1. /\ UNCHANGED <<feedClock, price, spot, feedCron, jobs>>
      /\ feedClock \in Nat
  BY DEF FeedInv, FeedTyped, PF!readTwapFromChain, PF!PutTwap
<1>2. RefreshTimely'
  BY <1>1 DEF FeedInv, RefreshTimely
<1>3. CASE eval' = PF!None /\ UNCHANGED twap
  BY <1>1, <1>2, <1>3 DEF FeedInv, FeedTyped, EntriesExpire, EvaluationTimely, PF!None
<1>4. CASE PF!readTwapFromChain /\ eval' # PF!None
  <2>1. PICK p \in Twaps : eval' = PF!WithTwap("put", [value |-> p, asOf |-> feedClock])
    BY <1>4 DEF PF!readTwapFromChain
  <2>2. UNCHANGED twap
    BY <1>4 DEF PF!readTwapFromChain
  <2>3. p \in Int
    BY DEF FeedConstants
  <2>4. eval \in [stage : {"twap", "chain"}, spot : Readings, at : Nat]
    BY <1>4 DEF PF!readTwapFromChain, FeedInv, FeedTyped, PF!None
  <2>5. [value |-> p, asOf |-> feedClock] \in Readings
    BY <1>1, <2>3 DEF Readings
  <2>6. /\ eval' \in [stage : {"put", "decide"}, spot : Readings, twap : Readings, at : Nat]
        /\ eval'.stage = "put" /\ eval'.spot = eval.spot /\ eval'.at = eval.at
        /\ eval'.twap.asOf = feedClock
    BY <2>1, <2>4, <2>5 DEF PF!WithTwap
  <2>7. /\ eval.at <= feedClock /\ feedClock <= eval.at + MaxDelay
        /\ eval.at <= eval.spot.asOf + SpotAge
    BY <2>4 DEF FeedInv, EvaluationTimely
  <2>8. FeedTyped' /\ EntriesExpire' /\ EvaluationTimely'
    BY <1>1, <2>2, <2>6, <2>7 DEF FeedInv, FeedTyped, EntriesExpire, EvaluationTimely
  <2> QED BY <1>2, <2>8 DEF FeedInv
<1>5. CASE PF!PutTwap /\ eval' # PF!None
  <2>1. /\ eval.stage = "put" /\ eval' = [eval EXCEPT !.stage = "decide"]
        /\ twap' = PF!Entry(eval.twap.value, eval.twap.asOf, TwapTtl)
    BY <1>5 DEF PF!PutTwap
  <2>2. eval \in [stage : {"put", "decide"}, spot : Readings, twap : Readings, at : Nat]
    BY <2>1 DEF FeedInv, FeedTyped, PF!None
  <2>3. /\ eval' \in [stage : {"put", "decide"}, spot : Readings, twap : Readings, at : Nat]
        /\ eval'.stage = "decide" /\ eval'.spot = eval.spot /\ eval'.at = eval.at
        /\ eval'.twap = eval.twap
    BY <2>1, <2>2
  <2>4. /\ eval.at <= feedClock /\ feedClock <= eval.at + MaxDelay
        /\ eval.at <= eval.spot.asOf + SpotAge /\ eval.at <= eval.twap.asOf
    BY <2>1 DEF FeedInv, EvaluationTimely
  <2>5. eval.twap.value \in Int /\ eval.twap.asOf \in Nat /\ eval.at \in Nat /\ TwapTtl \in Nat
    BY <2>2 DEF Readings, FeedConstants
  <2>6. twap' \in Entries /\ twap'.asOf = eval.twap.asOf /\ twap'.until = feedClock + TwapTtl
    BY <1>1, <2>1, <2>5 DEF PF!Entry, Entries
  <2>7. feedClock + TwapTtl <= eval.twap.asOf + TwapAge + 1
    BY <1>1, <2>4, <2>5 DEF TwapAge, FeedConstants
  <2>8. eval.at <= eval.twap.asOf + TwapAge
    BY <2>4, <2>5 DEF TwapAge, FeedConstants
  <2>9. FeedTyped'
    BY <1>1, <2>3, <2>6 DEF FeedInv, FeedTyped
  <2>10. EntriesExpire'
    BY <1>1, <2>6, <2>7 DEF FeedInv, EntriesExpire
  <2>11. EvaluationTimely'
    BY <1>1, <2>3, <2>4, <2>8 DEF EvaluationTimely
  <2> QED BY <1>2, <2>9, <2>10, <2>11 DEF FeedInv
<1>6. eval' = PF!None => UNCHANGED twap
  <2>1. CASE PF!readTwapFromChain
    BY <2>1 DEF PF!readTwapFromChain
  <2>2. CASE PF!PutTwap
    <3>1. eval.stage = "put" => [eval EXCEPT !.stage = "decide"] # PF!None
      BY DEF FeedInv, FeedTyped, PF!None
    <3> QED BY <2>2, <3>1 DEF PF!PutTwap
  <2> QED BY <2>1, <2>2
<1> QED BY <1>3, <1>4, <1>5, <1>6

\* Only what both prices trigger is handed to the signer.
LEMMA FeedDecide ==
    ASSUME FeedConstants, FeedInv, PF!Decide \/ PF!Submit
    PROVE  FeedInv'
<1>1. /\ UNCHANGED <<feedClock, price, spot, twap, feedCron, jobs>>
      /\ feedClock \in Nat
  BY DEF FeedInv, FeedTyped, PF!Decide, PF!Submit
<1>2. EntriesExpire' /\ RefreshTimely'
  BY <1>1 DEF FeedInv, EntriesExpire, RefreshTimely
<1>3. CASE eval' = PF!None
  BY <1>1, <1>2, <1>3 DEF FeedInv, FeedTyped, EvaluationTimely, PF!None
<1>4. CASE PF!Decide /\ eval' # PF!None
  <2>1. PICK o \in PF!Orders :
          /\ PF!isTriggered(o, eval.spot.value, eval.twap.value)
          /\ eval' = [stage |-> "submit", order |-> o, spot |-> eval.spot, twap |-> eval.twap,
                      at |-> eval.at]
    BY <1>4 DEF PF!Decide
  <2>2. /\ eval \in [stage : {"put", "decide"}, spot : Readings, twap : Readings, at : Nat]
        /\ eval.stage = "decide"
    BY <1>4 DEF PF!Decide, FeedInv, FeedTyped, PF!None
  <2>3. eval' \in [stage : {"submit"}, order : PF!Orders, spot : Readings,
                   twap : Readings, at : Nat]
    BY <2>1, <2>2
  <2>4. /\ eval.at <= feedClock /\ feedClock <= eval.at + MaxDelay
        /\ eval.at <= eval.spot.asOf + SpotAge /\ eval.at <= eval.twap.asOf + TwapAge
    BY <2>2 DEF FeedInv, EvaluationTimely
  <2>5. FeedTyped'
    BY <1>1, <2>3 DEF FeedInv, FeedTyped
  <2>6. PF!isTriggered(eval'.order, eval'.spot.value, eval'.twap.value)
    BY <2>1
  <2>7. PF!isTriggered(eval.order, eval.spot.value, eval.twap.value)'
    BY <2>6 DEF PF!isTriggered
  <2>8. EvaluationTimely'
    BY <1>1, <2>1, <2>4, <2>7 DEF EvaluationTimely
  <2> QED BY <1>2, <2>5, <2>8 DEF FeedInv
<1> QED BY <1>3, <1>4 DEF PF!Submit

\* The keeper submits an order only on a spot price and a TWAP that both breach its
\* trigger and are no older than lifetimes and delays add up to, whatever the queue
\* drops, doubles or delivers late: for every lifetime, delay, period and price.
THEOREM SubmissionsFresh == ASSUME FeedConstants PROVE PF!Spec => []SubmitsOnFreshBreach
<1> USE AgesInt
<1>1. PF!Init => FeedInv
  <2> SUFFICES ASSUME PF!Init PROVE FeedInv
    OBVIOUS
  <2>1. PF!Never \in Entries /\ PF!Never.value = 0 /\ PF!Never.asOf = 0 /\ PF!Never.until = 0
    BY DEF PF!Never, Entries
  <2>2. FeedTyped
    BY <2>1 DEF PF!Init, FeedTyped
  <2>3. 0 <= 0 + SpotAge + 1 /\ 0 <= 0 + TwapAge + 1
    BY DEF FeedConstants, SpotAge, TwapAge, PriceAge
  <2>4. EntriesExpire
    BY <2>1, <2>3 DEF PF!Init, EntriesExpire
  <2>5. RefreshTimely /\ EvaluationTimely
    BY DEF PF!Init, RefreshTimely, EvaluationTimely, PF!None
  <2> QED BY <2>2, <2>4, <2>5 DEF FeedInv
<1>2. FeedInv /\ [PF!Next]_(PF!vars) => FeedInv'
  <2> SUFFICES ASSUME FeedInv, [PF!Next]_(PF!vars) PROVE FeedInv'
    OBVIOUS
  <2>1. CASE UNCHANGED PF!vars
    BY <2>1 DEF PF!vars, FeedInv, FeedTyped, EntriesExpire, RefreshTimely, EvaluationTimely,
                PF!isTriggered
  <2>2. CASE PF!Next
    BY <2>2, FeedTick, FeedCron, FeedSpot, FeedJob, FeedRead, FeedTwap, FeedDecide DEF PF!Next
  <2> QED BY <2>1, <2>2
<1>3. FeedInv => SubmitsOnFreshBreach
  <2> SUFFICES ASSUME FeedInv, eval.stage = "submit"
               PROVE  LET down   == (eval.order.orderType = "take_profit") = eval.order.zeroForOne
                          prices == {eval.spot.value, eval.twap.value}
                      IN  /\ \A p \in prices : IF down THEN p <= Trigger ELSE p >= Trigger
                          /\ feedClock - eval.spot.asOf
                               <= (PriceTtl - 1) + (SpotTtl - 1) + 3 * MaxDelay
                          /\ feedClock - eval.twap.asOf <= (TwapTtl - 1) + 2 * MaxDelay
    BY DEF SubmitsOnFreshBreach, PF!SubmitsOnFreshBreach
  <2> DEFINE down == (eval.order.orderType = "take_profit") = eval.order.zeroForOne
  <2>1. /\ feedClock \in Nat /\ eval.at \in Nat
        /\ eval.spot \in Readings /\ eval.twap \in Readings
        /\ eval.order \in PF!Orders
    BY DEF FeedInv, FeedTyped, PF!None
  <2>2. /\ feedClock <= eval.at + MaxDelay
        /\ eval.at <= eval.spot.asOf + SpotAge /\ eval.at <= eval.twap.asOf + TwapAge
    BY DEF FeedInv, EvaluationTimely
  <2>3. /\ feedClock - eval.spot.asOf <= (PriceTtl - 1) + (SpotTtl - 1) + 3 * MaxDelay
        /\ feedClock - eval.twap.asOf <= (TwapTtl - 1) + 2 * MaxDelay
    BY <2>1, <2>2 DEF Readings, FeedConstants, SpotAge, PriceAge, TwapAge
  <2>4. PF!isTriggered(eval.order, eval.spot.value, eval.twap.value)
    BY DEF FeedInv, EvaluationTimely
  <2>5. \A p \in {eval.spot.value, eval.twap.value} :
           IF down THEN p <= Trigger ELSE p >= Trigger
    <3>1. eval.order.orderType \in {"take_profit", "stop_loss"} /\ eval.order.zeroForOne \in BOOLEAN
      BY <2>1 DEF PF!Orders
    <3>2. CASE down
      BY <2>4, <3>1, <3>2 DEF PF!isTriggered
    <3>3. CASE ~ down
      BY <2>4, <3>1, <3>3 DEF PF!isTriggered
    <3> QED BY <3>2, <3>3
  <2> QED BY <2>3, <2>5
<1> QED BY <1>1, <1>2, <1>3, PTL DEF PF!Spec

-----------------------------------------------------------------------------
\* What the cron announces besides (VolumeAlerts).

AlertTyped ==
    /\ now \in 0 .. AlertTime
    /\ cooldown \in [Pools -> Nat]
    /\ sent \in [Pools -> 0 .. VA!Never]
    /\ filter \in [Listeners -> Pools \cup {VA!All, VA!Closed}]
    /\ heard \in [Listeners -> SUBSET Pools]
    /\ ticks \in [Ticks -> {VA!None} \cup [stage : {"next"}, todo : SUBSET Pools]
                   \cup [stage : {"broadcast"}, todo : SUBSET Pools, pool : Pools]
                   \cup [stage : {"telegram", "mark"}, todo : SUBSET Pools, pool : Pools,
                         at : Nat]]
    /\ early \in BOOLEAN /\ clean \in BOOLEAN

\* Announcements lie in the past, and a tick that has announced a pool did so no longer
\* ago than its steps take, nor later than the pool was last announced.
AnnouncedInTime ==
    /\ \A p \in Pools : sent[p] = VA!Never \/ sent[p] <= now
    /\ \A i \in Ticks : VA!Busy(i) =>
          /\ sent[ticks[i].pool] # VA!Never /\ ticks[i].at <= sent[ticks[i].pool]
          /\ now <= ticks[i].at + MaxDelay

\* A cooldown began with an announcement.
CooldownsEarned ==
    \A p \in Pools : now < cooldown[p] =>
       sent[p] # VA!Never /\ cooldown[p] <= sent[p] + MaxDelay + VA!Ttl

\* A listener has heard of nothing but the pool it asked for.
HeardWhatItAsked ==
    \A s \in Listeners : /\ filter[s] = VA!Closed => heard[s] = {}
                         /\ filter[s] \in Pools => heard[s] \subseteq {filter[s]}

\* While the history is clean there is one tick at most; a pool that was announced is
\* in its cooldown, has outlived it, or is about to be marked; and a tick about to
\* announce a pool found it out of its cooldown.
OneTick ==
    /\ ~ early
    /\ \A i, k \in Ticks : ticks[i] # VA!None /\ ticks[k] # VA!None => i = k
    /\ \A p \in Pools : sent[p] # VA!Never =>
          \/ sent[p] + Cooldown <= cooldown[p]
          \/ \E i \in Ticks : VA!Busy(i) /\ ticks[i].pool = p
    /\ \A i \in Ticks : ticks[i].stage = "broadcast" => cooldown[ticks[i].pool] <= now

OneTickAtATime == clean => OneTick

AlertInv == AlertTyped /\ AnnouncedInTime /\ CooldownsEarned /\ HeardWhatItAsked /\ OneTickAtATime

\* KV is never asked for less than the cooldown that is configured.
LEMMA TtlFacts == ASSUME AlertConstants PROVE VA!Ttl \in Nat /\ VA!Ttl >= Cooldown
  BY DEF AlertConstants, VA!Ttl

\* Time passes only while every tick is within its delay.
LEMMA AlertClock == ASSUME AlertConstants, AlertInv, VA!Clock PROVE AlertInv'
<1> USE TtlFacts
<1>1. /\ now \in 0 .. AlertTime /\ now < AlertTime /\ now' = now + 1
      /\ UNCHANGED <<cooldown, ticks, filter, heard, sent, early, clean>>
      /\ \A i \in Ticks : VA!Busy(i) => now - ticks[i].at < MaxDelay
  BY DEF VA!Clock, AlertInv, AlertTyped
<1>2. AlertTyped'
  BY <1>1 DEF AlertInv, AlertTyped, AlertConstants
<1>3. AnnouncedInTime'
  <2>1. \A p \in Pools : sent[p] = VA!Never \/ sent[p] <= now'
    <3>1. \A p \in Pools : sent[p] \in Int
      BY DEF AlertInv, AlertTyped, VA!Never, AlertConstants
    <3> QED BY <1>1, <3>1 DEF AlertInv, AnnouncedInTime
  <2>2. ASSUME NEW i \in Ticks, VA!Busy(i) PROVE now' <= ticks[i].at + MaxDelay
    <3>1. ticks[i].at \in Nat
      BY <2>2 DEF VA!Busy, VA!None, AlertInv, AlertTyped
    <3> QED BY <1>1, <2>2, <3>1 DEF AlertConstants
  <2>3. \A i \in Ticks : VA!Busy(i)' <=> VA!Busy(i)
    BY <1>1 DEF VA!Busy
  <2> QED BY <1>1, <2>1, <2>2, <2>3 DEF AlertInv, AnnouncedInTime
<1>4. CooldownsEarned'
  <2>1. \A p \in Pools : now' < cooldown[p] => now < cooldown[p]
    BY <1>1 DEF AlertInv, AlertTyped
  <2> QED BY <1>1, <2>1 DEF AlertInv, CooldownsEarned
<1>5. HeardWhatItAsked'
  BY <1>1 DEF AlertInv, HeardWhatItAsked
<1>6. OneTickAtATime'
  <2>1. \A p \in Pools : cooldown[p] <= now => cooldown[p] <= now'
    BY <1>1 DEF AlertInv, AlertTyped
  <2>2. \A i \in Ticks : ticks[i].stage = "broadcast" => ticks[i].pool \in Pools
    BY DEF AlertInv, AlertTyped, VA!None
  <2> QED BY <1>1, <2>1, <2>2 DEF AlertInv, OneTickAtATime, OneTick, VA!Busy
<1> QED BY <1>2, <1>3, <1>4, <1>5, <1>6 DEF AlertInv

\* A listener that comes or goes has heard nothing of another filter.
LEMMA AlertSockets ==
    ASSUME AlertConstants, AlertInv, NEW s \in Listeners,
           VA!webSocketClose(s) \/ \E f \in Pools \cup {VA!All} : VA!Connect(s, f)
    PROVE  AlertInv'
<1>1. UNCHANGED <<now, cooldown, ticks, sent, early, clean>>
  BY DEF VA!webSocketClose, VA!Connect
<1>2. AlertTyped' /\ HeardWhatItAsked'
  <2>1. CASE VA!webSocketClose(s)
    BY <1>1, <2>1 DEF VA!webSocketClose, AlertInv, AlertTyped, HeardWhatItAsked, AlertConstants
  <2>2. CASE \E f \in Pools \cup {VA!All} : VA!Connect(s, f)
    <3>1. PICK f \in Pools \cup {VA!All} : VA!Connect(s, f)
      BY <2>2
    <3>2. heard[s] = {}
      BY <3>1 DEF VA!Connect, AlertInv, HeardWhatItAsked
    <3> QED BY <1>1, <3>1, <3>2 DEF VA!Connect, AlertInv, AlertTyped, HeardWhatItAsked, AlertConstants,
                VA!All, VA!Closed
  <2> QED BY <2>1, <2>2
<1>3. AnnouncedInTime' /\ CooldownsEarned' /\ OneTickAtATime'
  BY <1>1 DEF AlertInv, AnnouncedInTime, CooldownsEarned, OneTickAtATime, OneTick, VA!Busy
<1> QED BY <1>2, <1>3 DEF AlertInv

\* A tick that starts, goes on to the next spike, or ends.
LEMMA AlertIdle ==
    ASSUME AlertConstants, AlertInv, NEW i \in Ticks,
           VA!Start(i) \/ VA!isInCooldown(i) \/ VA!End(i)
    PROVE  AlertInv'
<1>1. UNCHANGED <<now, cooldown, filter, heard, sent, early>>
  BY DEF VA!Start, VA!isInCooldown, VA!End
<1>2. PICK next \in {VA!None} \cup [stage : {"next"}, todo : SUBSET Pools]
                   \cup [stage : {"broadcast"}, todo : SUBSET Pools, pool : Pools] :
          /\ ticks' = [ticks EXCEPT ![i] = next]
          /\ next.stage = "broadcast" => cooldown[next.pool] <= now
          /\ ticks[i] = VA!None /\ clean' => \A k \in Ticks : ticks[k] = VA!None
          /\ VA!Busy(i) => ~ clean'
  <2>1. CASE VA!Start(i)
    <3>1. VA!readVolumeSpikes \subseteq Pools
      BY DEF VA!readVolumeSpikes
    <3> DEFINE next == [stage |-> "next", todo |-> VA!readVolumeSpikes]
    <3>2. next \in [stage : {"next"}, todo : SUBSET Pools] /\ next.stage # "broadcast"
      BY <3>1
    <3>3. ticks' = [ticks EXCEPT ![i] = next] /\ ~ VA!Busy(i)
      BY <2>1 DEF VA!Start, VA!Busy, VA!None
    <3>4. clean' => \A k \in Ticks : ticks[k] = VA!None
      BY <2>1, Zenon DEF VA!Start
    <3> QED BY <3>2, <3>3, <3>4
  <2>2. CASE VA!End(i)
    <3>1. VA!None.stage # "broadcast"
      BY DEF VA!None
    <3>2. ticks[i] # VA!None /\ ticks' = [ticks EXCEPT ![i] = VA!None]
          /\ (VA!Busy(i) => ~ clean')
      BY <2>2 DEF VA!End
    <3> QED BY <3>1, <3>2
  <2>3. CASE VA!isInCooldown(i)
    <3>1. ticks[i].stage = "next" /\ ticks[i] # VA!None /\ ~ VA!Busy(i)
      BY <2>3 DEF VA!isInCooldown, VA!None, VA!Busy
    <3>2. ticks[i] \in [stage : {"next"}, todo : SUBSET Pools]
      BY <3>1 DEF AlertInv, AlertTyped, VA!None
    <3>3. PICK p \in ticks[i].todo :
            ticks' = [ticks EXCEPT ![i] =
                      IF now < cooldown[p] THEN [ticks[i] EXCEPT !.todo = ticks[i].todo \ {p}]
                      ELSE [stage |-> "broadcast", todo |-> ticks[i].todo \ {p}, pool |-> p]]
      BY <2>3 DEF VA!isInCooldown
    <3>4. p \in Pools /\ cooldown[p] \in Nat /\ now \in Nat
      BY <3>2, <3>3 DEF AlertInv, AlertTyped
    <3>5. CASE now < cooldown[p]
      <4>1. [ticks[i] EXCEPT !.todo = ticks[i].todo \ {p}]
              \in [stage : {"next"}, todo : SUBSET Pools]
        BY <3>2
      <4> QED BY <3>1, <3>3, <3>5, <4>1
    <3>6. CASE ~ now < cooldown[p]
      <4> DEFINE next == [stage |-> "broadcast", todo |-> ticks[i].todo \ {p}, pool |-> p]
      <4>1. next \in [stage : {"broadcast"}, todo : SUBSET Pools, pool : Pools]
        BY <3>2, <3>4
      <4>2. cooldown[next.pool] <= now
        BY <3>4, <3>6
      <4>3. ticks' = [ticks EXCEPT ![i] = next]
        BY <3>3, <3>6
      <4> HIDE DEF next
      <4> QED BY <3>1, <4>1, <4>2, <4>3
    <3> QED BY <3>5, <3>6
  <2> QED BY <2>1, <2>2, <2>3
<1>3. next.stage \notin {"telegram", "mark"}
  BY <1>2 DEF VA!None
<1>4. AlertTyped' /\ (clean' => clean)
  <2>1. clean' \in BOOLEAN /\ (clean' => clean)
    <3>1. clean \in BOOLEAN
      BY DEF AlertInv, AlertTyped
    <3>2. CASE VA!isInCooldown(i)
      BY <3>1, <3>2 DEF VA!isInCooldown
    <3>3. \A A, B \in BOOLEAN : clean' = (A /\ B) => clean' \in BOOLEAN /\ (clean' => A)
      OBVIOUS
    <3>4. CASE VA!Start(i)
      <4>1. clean' = (clean /\ \A j \in Ticks : ticks[j] = VA!None)
        BY <3>4 DEF VA!Start
      <4>2. (\A j \in Ticks : ticks[j] = VA!None) \in BOOLEAN
        OBVIOUS
      <4> QED BY <3>1, <3>3, <4>1, <4>2
    <3>5. CASE VA!End(i)
      <4>1. clean' = (clean /\ ~ VA!Busy(i))
        BY <3>5 DEF VA!End
      <4>2. (~ VA!Busy(i)) \in BOOLEAN
        BY Zenon
      <4> QED BY <3>1, <3>3, <4>1, <4>2
    <3> QED BY <3>2, <3>4, <3>5
  <2>2. ticks' \in [Ticks -> {VA!None} \cup [stage : {"next"}, todo : SUBSET Pools]
                   \cup [stage : {"broadcast"}, todo : SUBSET Pools, pool : Pools]
                   \cup [stage : {"telegram", "mark"}, todo : SUBSET Pools, pool : Pools,
                         at : Nat]]
    BY <1>2 DEF AlertInv, AlertTyped
  <2> QED BY <1>1, <2>1, <2>2 DEF AlertInv, AlertTyped
<1>5. \A k \in Ticks : /\ k # i => ticks'[k] = ticks[k] /\ (VA!Busy(k)' <=> VA!Busy(k))
                       /\ ~ VA!Busy(i)'
                       /\ ticks'[i] = next
  BY <1>2, <1>3 DEF VA!Busy, AlertInv, AlertTyped
<1>6. AnnouncedInTime' /\ CooldownsEarned' /\ HeardWhatItAsked'
  BY <1>1, <1>5 DEF AlertInv, AnnouncedInTime, CooldownsEarned, HeardWhatItAsked
<1>7. OneTickAtATime'
  <2> SUFFICES ASSUME clean' PROVE OneTick'
    BY DEF OneTickAtATime
  <2>1. clean /\ ~ VA!Busy(i)
    BY <1>2, <1>4
  <2>2. ASSUME NEW k \in Ticks, NEW l \in Ticks, ticks'[k] # VA!None, ticks'[l] # VA!None
        PROVE  k = l
    <3>1. CASE ticks[i] = VA!None
      BY <1>2, <1>5, <2>2, <3>1
    <3>2. CASE ticks[i] # VA!None
      BY <1>5, <2>1, <2>2, <3>2 DEF AlertInv, OneTickAtATime, OneTick
    <3> QED BY <3>1, <3>2
  <2>3. \A p \in Pools : sent[p] # VA!Never =>
             \/ sent[p] + Cooldown <= cooldown[p]
             \/ \E k \in Ticks : VA!Busy(k)' /\ ticks'[k].pool = p
    <3>1. \A p \in Pools : sent[p] # VA!Never =>
             \/ sent[p] + Cooldown <= cooldown[p]
             \/ \E k \in Ticks : VA!Busy(k) /\ ticks[k].pool = p
      BY <2>1 DEF AlertInv, OneTickAtATime, OneTick
    <3> QED BY <1>5, <2>1, <3>1
  <2>4. \A k \in Ticks : ticks'[k].stage = "broadcast" => cooldown[ticks'[k].pool] <= now
    BY <1>2, <1>5, <2>1 DEF AlertInv, OneTickAtATime, OneTick
  <2> QED BY <1>1, <2>1, <2>2, <2>3, <2>4 DEF AlertInv, OneTickAtATime, OneTick
<1> QED BY <1>4, <1>6, <1>7 DEF AlertInv

\* A trade announces nothing.
LEMMA AlertTrade ==
    ASSUME AlertInv, NEW p \in Pools, VA!Trade(p) PROVE AlertInv'
  BY DEF VA!Trade, AlertInv, AlertTyped, AnnouncedInTime, CooldownsEarned, HeardWhatItAsked,
         OneTickAtATime, OneTick, VA!Busy

\* A pool is announced out of its cooldown, to those who asked for it.
LEMMA AlertSent ==
    ASSUME AlertConstants, AlertInv, NEW i \in Ticks, VA!broadcastVolumeAlert(i)
    PROVE  AlertInv'
<1> DEFINE p == ticks[i].pool
           next == [stage |-> "telegram", todo |-> ticks[i].todo, pool |-> p, at |-> now]
<1>1. /\ UNCHANGED <<now, cooldown, filter, clean>>
      /\ heard' = VA!broadcast(p) \/ UNCHANGED heard
      /\ ticks[i].stage = "broadcast"
      /\ sent' = [sent EXCEPT ![p] = now]
      /\ ticks' = [ticks EXCEPT ![i] = next]
  BY DEF VA!broadcastVolumeAlert
<1>2. /\ ticks[i] \in [stage : {"broadcast"}, todo : SUBSET Pools, pool : Pools]
      /\ p \in Pools /\ now \in 0 .. AlertTime /\ AlertTime \in Nat /\ now # VA!Never
  BY <1>1 DEF AlertInv, AlertTyped, VA!None, VA!Never, AlertConstants
<1>3. /\ next \in [stage : {"telegram", "mark"}, todo : SUBSET Pools, pool : Pools, at : Nat]
      /\ next.stage = "telegram" /\ next.pool = p /\ next.at = now /\ next # VA!None
  BY <1>2 DEF VA!None
<1> HIDE DEF next
<1>4. early' \in BOOLEAN
  BY DEF VA!broadcastVolumeAlert
<1>5. heard' \in [Listeners -> SUBSET Pools]
  BY <1>1, <1>2 DEF VA!broadcast, AlertInv, AlertTyped
<1>6. sent' \in [Pools -> 0 .. VA!Never]
  BY <1>1, <1>2 DEF AlertInv, AlertTyped, VA!Never
<1>7. AlertTyped'
  BY <1>1, <1>3, <1>4, <1>5, <1>6 DEF AlertInv, AlertTyped, VA!Never
<1>8. \A k \in Ticks : IF k = i THEN ticks'[k] = next ELSE ticks'[k] = ticks[k]
  BY <1>1 DEF AlertInv, AlertTyped
<1>9. \A q \in Pools : IF q = p THEN sent'[q] = now ELSE sent'[q] = sent[q]
  BY <1>1 DEF AlertInv, AlertTyped
<1>10. \A k \in Ticks : IF k = i THEN VA!Busy(k)' ELSE VA!Busy(k)' <=> VA!Busy(k)
  BY <1>3, <1>8 DEF VA!Busy
<1>11. AnnouncedInTime'
  <2>1. \A q \in Pools : sent'[q] = VA!Never \/ sent'[q] <= now
    BY <1>2, <1>9 DEF AlertInv, AnnouncedInTime
  <2>2. ASSUME NEW k \in Ticks, VA!Busy(k)'
        PROVE  /\ sent'[ticks'[k].pool] # VA!Never /\ ticks'[k].at <= sent'[ticks'[k].pool]
               /\ now <= ticks'[k].at + MaxDelay
    <3>1. CASE k = i
      BY <1>2, <1>3, <1>8, <1>9, <3>1 DEF AlertConstants
    <3>2. CASE k # i
      <4> DEFINE q == ticks[k].pool
      <4>1. /\ ticks'[k] = ticks[k] /\ VA!Busy(k)
        BY <1>8, <1>10, <2>2, <3>2
      <4>2. q \in Pools /\ ticks[k].at \in Nat
        BY <4>1 DEF VA!Busy, AlertInv, AlertTyped, VA!None
      <4>3. /\ sent[q] # VA!Never /\ ticks[k].at <= sent[q] /\ now <= ticks[k].at + MaxDelay
            /\ sent[q] <= now
        BY <4>1, <4>2 DEF AlertInv, AnnouncedInTime
      <4>4. sent[q] \in Int
        BY <4>2 DEF AlertInv, AlertTyped
      <4>5. sent'[q] = now \/ sent'[q] = sent[q]
        BY <1>9, <4>2
      <4> QED BY <1>2, <4>1, <4>2, <4>3, <4>4, <4>5
    <3> QED BY <3>1, <3>2
  <2> QED BY <1>1, <2>1, <2>2 DEF AnnouncedInTime, VA!Never
<1>12. CooldownsEarned'
  <2>1. ASSUME NEW q \in Pools, now < cooldown[q]
        PROVE  sent'[q] # VA!Never /\ cooldown[q] <= sent'[q] + MaxDelay + VA!Ttl
    <3>1. sent[q] # VA!Never /\ cooldown[q] <= sent[q] + MaxDelay + VA!Ttl /\ sent[q] <= now
      BY <2>1 DEF AlertInv, CooldownsEarned, AnnouncedInTime
    <3>2. sent[q] \in Int /\ cooldown[q] \in Nat
      BY DEF AlertInv, AlertTyped
    <3>3. cooldown[q] <= now + MaxDelay + VA!Ttl
      BY <1>2, <3>1, <3>2, TtlFacts DEF AlertConstants
    <3> QED BY <1>2, <1>9, <3>1, <3>3
  <2> QED BY <1>1, <2>1 DEF CooldownsEarned, VA!Never, VA!Ttl
<1>13. HeardWhatItAsked'
  <2> USE DEF VA!broadcast, AlertConstants, VA!All, VA!Closed
  <2>1. \A s \in Listeners : filter[s] = VA!Closed => heard'[s] = heard[s]
    BY <1>1, <1>2
  <2>2. \A s \in Listeners : filter[s] \in Pools =>
           heard'[s] = heard[s] \/ heard'[s] = heard[s] \cup {filter[s]}
    BY <1>1, <1>2
  <2> QED BY <1>1, <2>1, <2>2 DEF AlertInv, HeardWhatItAsked
<1>14. OneTickAtATime'
  <2> SUFFICES ASSUME clean PROVE OneTick'
    BY <1>1 DEF OneTickAtATime
  <2>1. OneTick
    BY DEF AlertInv, OneTickAtATime
  <2>2. ~ early'
    <3>1. ~ VA!Busy(i) /\ \A k \in Ticks : k # i => ticks[k] = VA!None
      BY <1>1, <2>1 DEF OneTick, VA!Busy, VA!None
    <3>2. \A k \in Ticks : ~ VA!Busy(k)
      BY <3>1 DEF VA!Busy, VA!None
    <3>3. sent[p] # VA!Never => sent[p] + Cooldown <= cooldown[p]
      BY <1>2, <2>1, <3>2 DEF OneTick
    <3>4. cooldown[p] <= now
      BY <1>1, <2>1 DEF OneTick
    <3>5. sent[p] \in Int /\ cooldown[p] \in Nat /\ Cooldown \in Nat
      BY <1>2 DEF AlertInv, AlertTyped, AlertConstants
    <3>6. ~ (sent[p] # VA!Never /\ now < sent[p] + Cooldown)
      BY <1>2, <3>3, <3>4, <3>5
    <3>7. early' = (early \/ (sent[p] # VA!Never /\ now < sent[p] + Cooldown))
      BY DEF VA!broadcastVolumeAlert
    <3>8. ~ early
      BY <2>1 DEF OneTick
    <3> QED BY Zenon, <3>6, <3>7, <3>8
  <2>3. \A k, l \in Ticks : ticks'[k] # VA!None /\ ticks'[l] # VA!None => k = l
    <3>1. ticks[i] # VA!None
      BY <1>1 DEF VA!None
    <3> QED BY <1>8, <2>1, <3>1 DEF OneTick
  <2>4. \A q \in Pools : sent'[q] # VA!Never =>
          \/ sent'[q] + Cooldown <= cooldown[q]
          \/ \E k \in Ticks : VA!Busy(k)' /\ ticks'[k].pool = q
    <3> SUFFICES ASSUME NEW q \in Pools, sent'[q] # VA!Never, ~ sent'[q] + Cooldown <= cooldown[q]
                 PROVE  \E k \in Ticks : VA!Busy(k)' /\ ticks'[k].pool = q
      OBVIOUS
    <3>1. CASE q = p
      BY <1>3, <1>8, <1>10, <3>1
    <3>2. CASE q # p
      <4>1. PICK k \in Ticks : VA!Busy(k) /\ ticks[k].pool = q
        BY <1>9, <2>1, <3>2 DEF OneTick
      <4>2. k # i
        BY <3>2, <4>1
      <4> QED BY <1>8, <1>10, <4>1, <4>2
    <3> QED BY <3>1, <3>2
  <2>5. \A k \in Ticks : ticks'[k].stage = "broadcast" => cooldown[ticks'[k].pool] <= now
    BY <1>3, <1>8, <2>1 DEF OneTick
  <2> QED BY <1>1, <2>2, <2>3, <2>4, <2>5 DEF OneTick, VA!Never
<1> QED BY <1>7, <1>11, <1>12, <1>13, <1>14 DEF AlertInv

\* The cooldown that is armed began with the announcement of this tick.
LEMMA AlertMark ==
    ASSUME AlertConstants, AlertInv, NEW i \in Ticks,
           VA!sendTelegramAlert(i) \/ VA!markCooldown(i)
    PROVE  AlertInv'
<1> DEFINE p == ticks[i].pool
<1>1. /\ UNCHANGED <<now, filter, heard, sent, early, clean>>
      /\ VA!Busy(i)
  BY DEF VA!sendTelegramAlert, VA!markCooldown, VA!Busy
<1>2. /\ ticks[i] \in [stage : {"telegram", "mark"}, todo : SUBSET Pools, pool : Pools, at : Nat]
      /\ p \in Pools /\ now \in 0 .. AlertTime /\ AlertTime \in Nat
      /\ sent[p] # VA!Never /\ ticks[i].at <= sent[p] /\ now <= ticks[i].at + MaxDelay
      /\ sent[p] <= now /\ sent[p] \in Nat
  <2>1. /\ ticks[i] \in [stage : {"telegram", "mark"}, todo : SUBSET Pools, pool : Pools, at : Nat]
        /\ p \in Pools
    BY <1>1 DEF AlertInv, AlertTyped, VA!None, VA!Busy
  <2> QED BY <1>1, <2>1 DEF AlertInv, AlertTyped, AnnouncedInTime, AlertConstants, VA!Never
<1>3. CASE VA!sendTelegramAlert(i)
  <2> DEFINE next == [ticks[i] EXCEPT !.stage = "mark"]
  <2>1. /\ next \in [stage : {"telegram", "mark"}, todo : SUBSET Pools, pool : Pools, at : Nat]
        /\ next.pool = ticks[i].pool /\ next.at = ticks[i].at /\ next.stage = "mark"
    BY <1>2
  <2>2. UNCHANGED cooldown /\ ticks' = [ticks EXCEPT ![i] = next]
    BY <1>3 DEF VA!sendTelegramAlert
  <2> HIDE DEF next
  <2>3. AlertTyped'
    BY <1>1, <2>1, <2>2 DEF AlertInv, AlertTyped, VA!Never
  <2>4. \A k \in Ticks : IF k = i THEN ticks'[k] = next ELSE ticks'[k] = ticks[k]
    BY <2>2 DEF AlertInv, AlertTyped
  <2>5. \A k \in Ticks : /\ VA!Busy(k)' <=> VA!Busy(k)
                         /\ VA!Busy(k) => ticks'[k].pool = ticks[k].pool /\ ticks'[k].at = ticks[k].at
                         /\ ticks'[k].stage = "broadcast" => ticks'[k] = ticks[k]
                         /\ ticks'[k] # VA!None => ticks[k] # VA!None
    <3>1. ticks[i] # VA!None
      BY <1>1 DEF VA!Busy, VA!None
    <3> QED BY <1>1, <2>1, <2>4, <3>1 DEF VA!Busy
  <2>6. AnnouncedInTime' /\ CooldownsEarned' /\ HeardWhatItAsked'
    BY <1>1, <2>2, <2>5 DEF AlertInv, AnnouncedInTime, CooldownsEarned, HeardWhatItAsked
  <2>7. OneTickAtATime'
    BY <1>1, <2>2, <2>5 DEF AlertInv, OneTickAtATime, OneTick
  <2> QED BY <2>3, <2>6, <2>7 DEF AlertInv
<1>4. CASE VA!markCooldown(i)
  <2> DEFINE next == [stage |-> "next", todo |-> ticks[i].todo]
  <2>1. next \in [stage : {"next"}, todo : SUBSET Pools] /\ next.stage = "next"
    BY <1>2
  <2>2. /\ cooldown' = [cooldown EXCEPT ![p] = now + VA!Ttl]
        /\ ticks' = [ticks EXCEPT ![i] = next]
    BY <1>4 DEF VA!markCooldown
  <2> HIDE DEF next
  <2>3. now + VA!Ttl \in Nat /\ VA!Ttl \in Nat
    BY <1>2, TtlFacts
  <2>4. AlertTyped'
    BY <1>1, <2>1, <2>2, <2>3 DEF AlertInv, AlertTyped, VA!Never
  <2>5. \A k \in Ticks : IF k = i THEN ticks'[k] = next ELSE ticks'[k] = ticks[k]
    BY <2>2 DEF AlertInv, AlertTyped
  <2>6. \A q \in Pools : cooldown'[q] = IF q = p THEN now + VA!Ttl ELSE cooldown[q]
    BY <2>2 DEF AlertInv, AlertTyped
  <2>7. \A k \in Ticks : VA!Busy(k)' <=> k # i /\ VA!Busy(k)
    BY <2>1, <2>5 DEF VA!Busy
  <2>8. AnnouncedInTime' /\ HeardWhatItAsked'
    BY <1>1, <2>5, <2>7 DEF AlertInv, AnnouncedInTime, HeardWhatItAsked
  <2>9. CooldownsEarned'
    <3>1. now + VA!Ttl <= sent[p] + MaxDelay + VA!Ttl
      BY <1>2, <2>3 DEF AlertConstants
    <3> QED BY <1>1, <1>2, <2>6, <3>1 DEF AlertInv, CooldownsEarned
  <2>10. OneTickAtATime'
    <3> SUFFICES ASSUME clean PROVE OneTick'
      BY <1>1 DEF OneTickAtATime
    <3>1. OneTick
      BY DEF AlertInv, OneTickAtATime
    <3>2. sent[p] + Cooldown <= now + VA!Ttl
      BY <1>2, <2>3, TtlFacts DEF AlertConstants
    <3>3. ASSUME NEW q \in Pools, sent[q] # VA!Never
          PROVE  \/ sent[q] + Cooldown <= cooldown'[q]
                 \/ \E k \in Ticks : VA!Busy(k)' /\ ticks'[k].pool = q
      <4>1. CASE q = p
        BY <2>6, <3>2, <4>1
      <4>2. CASE q # p
        BY <2>5, <2>6, <2>7, <3>1, <3>3, <4>2 DEF OneTick
      <4> QED BY <4>1, <4>2
    <3>4. ASSUME NEW k \in Ticks, ticks'[k].stage = "broadcast" PROVE FALSE
      <4>1. k # i /\ ticks'[k] = ticks[k]
        BY <2>1, <2>5, <3>4
      <4>2. ticks[k] # VA!None /\ ticks[i] # VA!None
        BY <1>1, <3>4, <4>1 DEF VA!Busy, VA!None
      <4> QED BY <3>1, <4>1, <4>2 DEF OneTick
    <3>5. \A k, l \in Ticks : ticks'[k] # VA!None /\ ticks'[l] # VA!None => k = l
      <4>1. ticks[i] # VA!None
        BY <1>1 DEF VA!Busy, VA!None
      <4> QED BY <2>5, <3>1, <4>1 DEF OneTick
    <3> QED BY <1>1, <3>1, <3>3, <3>4, <3>5 DEF OneTick
  <2> QED BY <2>4, <2>8, <2>9, <2>10 DEF AlertInv
<1> QED BY <1>3, <1>4

\* Announcements of a pool are a cooldown apart while ticks run one after the other and
\* to the end, listeners hear only of what they asked for, and a pool is silent only
\* after an announcement: for every number of pools, listeners and ticks, every
\* cooldown and every lifetime KV insists on.
THEOREM AlertsAreSpaced == ASSUME AlertConstants PROVE VA!Spec => []AlertsSpaced
<1>1. VA!Init => AlertInv
  <2> SUFFICES ASSUME VA!Init PROVE AlertInv
    OBVIOUS
  <2>1. AlertTyped
    <3>1. now \in 0 .. AlertTime /\ VA!Never \in 0 .. VA!Never
      BY DEF VA!Init, AlertConstants, VA!Never
    <3>2. heard \in [Listeners -> SUBSET Pools] /\ cooldown \in [Pools -> Nat]
      BY DEF VA!Init
    <3>3. sent \in [Pools -> 0 .. VA!Never]
      BY <3>1 DEF VA!Init
    <3>4. filter \in [Listeners -> Pools \cup {VA!All, VA!Closed}]
      BY DEF VA!Init
    <3> QED BY <3>1, <3>2, <3>3, <3>4 DEF VA!Init, AlertTyped
  <2>2. \A i \in Ticks : ticks[i] = VA!None /\ ~ VA!Busy(i) /\ ticks[i].stage # "broadcast"
    BY DEF VA!Init, VA!Busy, VA!None
  <2> QED BY <2>1, <2>2 DEF VA!Init, AlertInv, AnnouncedInTime, CooldownsEarned,
                            HeardWhatItAsked, OneTickAtATime, OneTick, AlertConstants
<1>2. AlertInv /\ [VA!Next]_(VA!vars) => AlertInv'
  <2> SUFFICES ASSUME AlertInv, [VA!Next]_(VA!vars) PROVE AlertInv'
    OBVIOUS
  <2>1. CASE UNCHANGED VA!vars
    BY <2>1 DEF VA!vars, AlertInv, AlertTyped, AnnouncedInTime, CooldownsEarned,
                HeardWhatItAsked, OneTickAtATime, OneTick, VA!Busy
  <2>2. CASE VA!Next
    BY <2>2, AlertClock, AlertTrade, AlertSockets, AlertIdle, AlertSent, AlertMark DEF VA!Next
  <2> QED BY <2>1, <2>2
<1>3. AlertInv => AlertsSpaced
  BY DEF AlertInv, OneTickAtATime, OneTick, HeardWhatItAsked, CooldownsEarned, AlertsSpaced,
         VA!AlertsSpaced
<1> QED BY <1>1, <1>2, <1>3, PTL DEF VA!Spec

-----------------------------------------------------------------------------
\* Where prices and order books go (PriceHub, OrderBook).

\* What is persisted and what is in memory is what an open socket was told, unless its
\* list was once too long to persist.
ListsKept ==
    \A s \in Sockets : socket[s] # "closed" /\ asked[s].fits =>
       /\ attachment[s] = asked[s].keys
       /\ subscribers[s].there => subscribers[s].watched = asked[s].keys

HubInv == PH!TypeOK /\ PH!WatchersReached /\ ListsKept

\* The list of an open socket after hydration.
LEMMA HydratedKnows ==
    ASSUME HubInv
    PROVE  /\ PH!Hydrated \in [Sockets -> [watched : SUBSET Tokens2, there : BOOLEAN]]
           /\ \A s \in Sockets : socket[s] # "closed" =>
                 /\ PH!Hydrated[s].there
                 /\ asked[s].fits => PH!Hydrated[s].watched = asked[s].keys
<1>1. \A s \in Sockets : /\ subscribers[s] \in [watched : SUBSET Tokens2, there : BOOLEAN]
                         /\ PH!Entry(attachment[s]) \in [watched : SUBSET Tokens2, there : BOOLEAN]
                         /\ PH!Entry(attachment[s]).there
                         /\ PH!Entry(attachment[s]).watched = attachment[s]
  BY DEF HubInv, PH!TypeOK, PH!Entry
<1>2. \A s \in Sockets : PH!Hydrated[s] = IF socket[s] # "closed" /\ ~ subscribers[s].there
                                          THEN PH!Entry(attachment[s]) ELSE subscribers[s]
  BY DEF PH!Hydrated
<1>3. PH!Hydrated \in [Sockets -> [watched : SUBSET Tokens2, there : BOOLEAN]]
  BY <1>1 DEF PH!Hydrated
<1> QED BY <1>1, <1>2, <1>3 DEF HubInv, ListsKept

\* A shorter list has no more tokens.
LEMMA HubCardinality ==
    ASSUME HubConstants, NEW keys \in SUBSET Tokens2, NEW t
    PROVE  /\ PH!Cardinality(keys) \in Nat
           /\ PH!Cardinality(keys \ {t}) <= PH!Cardinality(keys)
           /\ PH!Cardinality({}) = 0
<1>1. \A S : PH!Cardinality(S) = Cardinality(S)
  BY Zenon DEF PH!Cardinality, Cardinality, PH!IsFiniteSet, IsFiniteSet
<1>2. IsFiniteSet(keys)
  BY FS_Subset DEF HubConstants
<1>3. Cardinality(keys) \in Nat /\ Cardinality({}) = 0
  BY <1>2, FS_CardinalityType, FS_EmptySet
<1>4. keys \ {t} \in SUBSET keys
  OBVIOUS
<1>5. Cardinality(keys \ {t}) <= Cardinality(keys)
  BY <1>2, <1>4, FS_Subset
<1> QED BY <1>1, <1>3, <1>5

\* The runtime forgets what is in memory, not what is attached.
LEMMA HubRuntime ==
    ASSUME HubConstants, HubInv, NEW s \in Sockets,
           PH!Hibernate \/ PH!Break(s) \/ PH!Connect(s) \/ PH!webSocketClose(s)
    PROVE  HubInv'
<1>1. UNCHANGED last /\ PH!NoEntry \in [watched : SUBSET Tokens2, there : BOOLEAN]
      /\ ~ PH!NoEntry.there /\ PH!Entry({}) \in [watched : SUBSET Tokens2, there : BOOLEAN]
      /\ PH!Entry({}).watched = {}
  BY DEF PH!Hibernate, PH!Break, PH!Connect, PH!webSocketClose, PH!NoEntry, PH!Entry
<1>2. PH!Cardinality({}) <= Capacity
  BY HubCardinality DEF HubConstants
<1>3. CASE PH!Hibernate
  BY <1>1, <1>3 DEF PH!Hibernate, HubInv, PH!TypeOK, PH!WatchersReached, ListsKept
<1>4. CASE PH!Break(s)
  BY <1>1, <1>4 DEF PH!Break, HubInv, PH!TypeOK, PH!WatchersReached, ListsKept
<1>5. CASE PH!Connect(s)
  <2> DEFINE fresh == [keys |-> {}, fits |-> TRUE]
  <2>1. fresh \in [keys : SUBSET Tokens2, fits : BOOLEAN] /\ fresh.keys = {}
    OBVIOUS
  <2>2. asked' = [asked EXCEPT ![s] = fresh]
    BY <1>5 DEF PH!Connect
  <2> HIDE DEF fresh
  <2>3. PH!TypeOK'
    BY <1>1, <1>2, <1>5, <2>1, <2>2 DEF PH!Connect, HubInv, PH!TypeOK
  <2>4. ListsKept'
    BY <1>1, <1>5, <2>1, <2>2 DEF PH!Connect, HubInv, PH!TypeOK, ListsKept
  <2> QED BY <1>1, <2>3, <2>4 DEF HubInv, PH!WatchersReached
<1>6. CASE PH!webSocketClose(s)
  BY <1>1, <1>6 DEF PH!webSocketClose, HubInv, PH!TypeOK, PH!WatchersReached, ListsKept
<1> QED BY <1>3, <1>4, <1>5, <1>6

\* Hydration brings back what was told.
LEMMA HubMessage ==
    ASSUME HubConstants, HubInv, NEW s \in Sockets, PH!OtherMessage(s)
    PROVE  HubInv'
<1>1. subscribers' = PH!Hydrated /\ UNCHANGED <<socket, attachment, knownTokens, asked, last>>
  BY DEF PH!OtherMessage, PH!sendToSocket
<1>2. PH!TypeOK'
  BY <1>1, HydratedKnows DEF HubInv, PH!TypeOK
<1>3. ListsKept'
  BY <1>1, HydratedKnows DEF HubInv, ListsKept
<1> QED BY <1>1, <1>2, <1>3 DEF HubInv, PH!WatchersReached

\* A list that fits is persisted as it was told; a longer one no longer counts.
LEMMA HubWatch ==
    ASSUME HubConstants, HubInv, NEW s \in Sockets, NEW t \in Tokens2,
           PH!subscribe(s, t) \/ PH!unsubscribe(s, t)
    PROVE  HubInv'
<1> DEFINE Keys == SUBSET Tokens2
<1>1. PICK keys \in Keys, told \in [keys : Keys, fits : BOOLEAN] :
        /\ PH!Watch(s, keys)
        /\ asked' = [asked EXCEPT ![s] = told]
        /\ told.fits => told.keys = keys /\ PH!Cardinality(keys) <= Capacity
  <2>1. /\ PH!Hydrated[s].watched \in Keys
        /\ asked[s] \in [keys : Keys, fits : BOOLEAN]
        /\ asked[s].fits /\ socket[s] = "open" =>
             PH!Hydrated[s].watched = asked[s].keys /\ attachment[s] = asked[s].keys
        /\ PH!Cardinality(attachment[s]) <= Capacity /\ attachment[s] \in Keys
    BY HydratedKnows DEF HubInv, PH!TypeOK, ListsKept
  <2>2. CASE PH!subscribe(s, t)
    <3> DEFINE keys == PH!Hydrated[s].watched \cup {t}
               more == asked[s].keys \cup {t}
               fits == asked[s].fits /\ PH!Cardinality(more) <= Capacity
               told == [keys |-> more, fits |-> fits]
    <3>1. /\ PH!Watch(s, keys) /\ socket[s] = "open"
          /\ asked' = [asked EXCEPT ![s] = told]
      BY <2>2 DEF PH!subscribe, PH!Watch
    <3>2. keys \in Keys /\ more \in Keys
      BY <2>1
    <3>3. fits \in BOOLEAN
      BY Zenon
    <3>4. fits => keys = more /\ PH!Cardinality(keys) <= Capacity
      BY <2>1, <3>1
    <3> HIDE DEF keys, more, fits
    <3>5. told \in [keys : Keys, fits : BOOLEAN] /\ told.keys = more /\ told.fits = fits
      BY <3>2, <3>3
    <3> HIDE DEF told
    <3> QED BY <3>1, <3>2, <3>4, <3>5
  <2>3. CASE PH!unsubscribe(s, t)
    <3> DEFINE keys == PH!Hydrated[s].watched \ {t}
               told == [asked[s] EXCEPT !.keys = asked[s].keys \ {t}]
    <3>1. /\ PH!Watch(s, keys) /\ socket[s] = "open"
      BY <2>3 DEF PH!unsubscribe, PH!Watch
    <3>2. asked' = [asked EXCEPT ![s] = told]
      BY <2>3 DEF PH!unsubscribe, HubInv, PH!TypeOK
    <3>3. keys \in Keys
      BY <2>1
    <3>4. /\ told \in [keys : Keys, fits : BOOLEAN]
          /\ told.keys = asked[s].keys \ {t} /\ told.fits = asked[s].fits
      BY <2>1
    <3>5. asked[s].fits => keys = attachment[s] \ {t} /\ keys = asked[s].keys \ {t}
      BY <2>1, <3>1
    <3>6. PH!Cardinality(attachment[s] \ {t}) <= Capacity
      <4>1. /\ PH!Cardinality(attachment[s]) \in Nat
            /\ PH!Cardinality(attachment[s] \ {t}) \in Nat
            /\ PH!Cardinality(attachment[s] \ {t}) <= PH!Cardinality(attachment[s])
        BY <2>1, HubCardinality
      <4> QED BY <2>1, <4>1 DEF HubConstants
    <3> HIDE DEF keys, told
    <3> QED BY <3>1, <3>2, <3>3, <3>4, <3>5, <3>6
  <2> QED BY <2>2, <2>3
<1>2. /\ PH!Entry(keys) \in [watched : Keys, there : BOOLEAN]
      /\ PH!Entry(keys).watched = keys
  BY DEF PH!Entry
<1>3. /\ socket[s] = "open" /\ UNCHANGED <<socket, knownTokens, last>>
      /\ subscribers' = [PH!Hydrated EXCEPT ![s] = PH!Entry(keys)]
      /\ attachment' = IF PH!Cardinality(keys) <= Capacity
                       THEN [attachment EXCEPT ![s] = keys] ELSE attachment
  BY <1>1 DEF PH!Watch, PH!sendToSocket, PH!persistWatched
<1>4. PH!TypeOK'
  <2>1. subscribers' \in [Sockets -> [watched : Keys, there : BOOLEAN]]
    BY <1>2, <1>3, HydratedKnows
  <2>2. attachment' \in [Sockets -> Keys] /\ \A r \in Sockets : PH!Cardinality(attachment'[r]) <= Capacity
    BY <1>3 DEF HubInv, PH!TypeOK
  <2>3. asked' \in [Sockets -> [keys : Keys, fits : BOOLEAN]]
    BY <1>1 DEF HubInv, PH!TypeOK
  <2> QED BY <1>3, <2>1, <2>2, <2>3 DEF HubInv, PH!TypeOK
<1>5. ListsKept'
  <2> SUFFICES ASSUME NEW r \in Sockets, socket[r] # "closed", asked'[r].fits
               PROVE  /\ attachment'[r] = asked'[r].keys
                      /\ subscribers'[r].there => subscribers'[r].watched = asked'[r].keys
    BY <1>3 DEF ListsKept
  <2>1. CASE r = s
    <3>1. asked'[s] = told
      BY <1>1 DEF HubInv, PH!TypeOK
    <3>2. subscribers'[s] = PH!Entry(keys)
      BY <1>3, HydratedKnows
    <3>3. told.keys = keys /\ attachment'[s] = keys
      BY <1>1, <1>3, <2>1, <3>1 DEF HubInv, PH!TypeOK
    <3> QED BY <1>2, <2>1, <3>1, <3>2, <3>3
  <2>2. CASE r # s
    <3>1. asked'[r] = asked[r]
      BY <1>1, <2>2 DEF HubInv, PH!TypeOK
    <3>2. subscribers'[r] = PH!Hydrated[r]
      BY <1>3, <2>2, HydratedKnows
    <3>3. attachment'[r] = attachment[r]
      BY <1>3, <2>2 DEF HubInv, PH!TypeOK
    <3> QED BY <3>1, <3>2, <3>3, HydratedKnows DEF HubInv, ListsKept
  <2> QED BY <2>1, <2>2
<1> QED BY <1>3, <1>4, <1>5 DEF HubInv, PH!WatchersReached

\* Those who are sent the price are those who were told they watch it.
LEMMA HubBroadcast ==
    ASSUME HubConstants, HubInv, NEW t \in Tokens2, PH!broadcastPrice(t)
    PROVE  HubInv'
<1> DEFINE to == {s \in Sockets : PH!Hydrated[s].there /\ PH!Watches(PH!Hydrated[s].watched, t)}
           new == [s \in Sockets |-> IF s \in to /\ socket[s] = "broken" THEN PH!NoEntry
                                     ELSE PH!Hydrated[s]]
           got == {s \in to : socket[s] = "open"}
           due2 == {s \in Sockets : /\ socket[s] = "open"
                                    /\ IF asked[s].fits THEN PH!Watches(asked[s].keys, t)
                                       ELSE s \in to}
<1>1. /\ knownTokens' = knownTokens \cup {t}
      /\ subscribers' = new
      /\ last' = [to |-> got, due |-> due2]
      /\ UNCHANGED <<socket, attachment, asked>>
  BY DEF PH!broadcastPrice
<1>2. /\ PH!NoEntry \in [watched : SUBSET Tokens2, there : BOOLEAN] /\ ~ PH!NoEntry.there
  BY DEF PH!NoEntry
<1>3. /\ new \in [Sockets -> [watched : SUBSET Tokens2, there : BOOLEAN]]
      /\ \A s \in Sockets : new[s] = PH!Hydrated[s] \/ new[s] = PH!NoEntry
  BY <1>2, HydratedKnows
<1>4. got = due2
  <2>1. \A s \in Sockets : s \in got <=> s \in due2
    BY HydratedKnows
  <2> QED BY <2>1
<1> HIDE DEF new, got, due2
<1>5. last'.to = got /\ last'.due = due2
  BY <1>1
<1>6. got \subseteq Sockets /\ due2 \subseteq Sockets
  BY DEF got, due2
<1>7. PH!TypeOK'
  BY <1>1, <1>3, <1>5, <1>6 DEF HubInv, PH!TypeOK
<1>8. ListsKept'
  BY <1>1, <1>2, <1>3, HydratedKnows DEF HubInv, ListsKept
<1> QED BY <1>4, <1>5, <1>7, <1>8 DEF HubInv, PH!WatchersReached

\* The order-book object: its types, and its property.
BookInv ==
    /\ bookSocket \in [Sockets -> {"open", "broken", "closed"}]
    /\ snapshot \in Nat
    /\ bookSubscribers \subseteq Sockets
    /\ bookShown \in [Sockets -> Nat]
    /\ OB!KnownSocketsUpToDate

\* Every socket the price hub or the order-book object knows is served what it watches,
\* through any number of sleeps of the objects: for every number of sockets and tokens
\* and every capacity of an attachment.
THEOREM SocketsAlwaysServed == ASSUME HubConstants PROVE PH!Spec /\ OB!Spec => []SocketsServed
<1>1. PH!Init => HubInv
  <2> SUFFICES ASSUME PH!Init PROVE HubInv
    OBVIOUS
  <2>1. PH!Cardinality({}) <= Capacity
    BY HubCardinality DEF HubConstants
  <2>2. PH!TypeOK
    BY <2>1 DEF PH!Init, PH!TypeOK, PH!NoEntry
  <2> QED BY <2>2 DEF PH!Init, HubInv, ListsKept, PH!WatchersReached
<1>2. HubInv /\ [PH!Next]_(PH!vars) => HubInv'
  <2> SUFFICES ASSUME HubInv, [PH!Next]_(PH!vars) PROVE HubInv'
    OBVIOUS
  <2>1. CASE UNCHANGED PH!vars
    BY <2>1 DEF PH!vars, HubInv, PH!TypeOK, PH!WatchersReached, ListsKept
  <2>2. CASE PH!Hibernate
    <3>1. CASE Sockets = {}
      BY <2>2, <3>1 DEF PH!Hibernate, HubInv, PH!TypeOK, PH!WatchersReached, ListsKept
    <3> QED BY <2>2, <3>1, HubRuntime
  <2>3. CASE PH!Next /\ ~ PH!Hibernate
    BY <2>3, HubRuntime, HubMessage, HubWatch, HubBroadcast DEF PH!Next
  <2> QED BY <2>1, <2>2, <2>3
<1>3. OB!Init => BookInv
  BY DEF OB!Init, BookInv, OB!KnownSocketsUpToDate
<1>4. BookInv /\ [OB!Next]_(OB!vars) => BookInv'
  <2> SUFFICES ASSUME BookInv, [OB!Next]_(OB!vars) PROVE BookInv'
    OBVIOUS
  <2> USE DEF BookInv, OB!KnownSocketsUpToDate
  <2>1. CASE UNCHANGED OB!vars
    BY <2>1 DEF OB!vars
  <2>2. CASE OB!Hibernate
    BY <2>2 DEF OB!Hibernate
  <2>3. CASE OB!Update
    BY <2>3 DEF OB!Update, OB!persistSnapshot
  <2>4. ASSUME NEW s \in Sockets, OB!Break(s) PROVE BookInv'
    BY <2>4 DEF OB!Break
  <2>5. ASSUME NEW s \in Sockets, OB!Connect(s) PROVE BookInv'
    BY <2>5 DEF OB!Connect
  <2>6. ASSUME NEW s \in Sockets, OB!webSocketMessage(s) PROVE BookInv'
    BY <2>6 DEF OB!webSocketMessage
  <2>7. ASSUME NEW s \in Sockets, OB!webSocketClose(s) PROVE BookInv'
    BY <2>7 DEF OB!webSocketClose
  <2> QED BY <2>1, <2>2, <2>3, <2>4, <2>5, <2>6, <2>7 DEF OB!Next
<1>5. HubInv /\ BookInv => SocketsServed
  BY DEF HubInv, BookInv, SocketsServed
<1> QED BY <1>1, <1>2, <1>3, <1>4, <1>5, PTL DEF PH!Spec, OB!Spec

-----------------------------------------------------------------------------
\* The caches in front of the sources (PriceCache, TokenList, TokenPicker).

\* A request of the price service; what is dated -1 is not there.
PriceRequests ==
    [kind : {"none", "get", "guard"}, asked : Asked \cup {0}, started : Nat,
     stage : {"none", "kv", "d1", "fetch", "store", "backfill", "done", "failed"}, asOf : Int]

PriceTyped ==
    /\ pcClock \in Nat /\ pcD1 \in Int
    /\ pcKv \in [asOf : Int, expires : Nat]
    /\ pcReq \in [Callers -> PriceRequests]

\* How far back what a request holds may date from: a source's answer is of the request
\* itself, a row of D1 was not stale, an entry of KV had not expired.
RequestDated(q) ==
    /\ q # PC!Idle => q.started <= pcClock /\ pcClock <= q.started + MaxDelay
    /\ q.kind = "guard" => q.stage \notin {"kv", "d1"}
    /\ q.stage = "store" => q.started <= q.asOf
    /\ q.stage = "backfill" => q.started <= q.asOf + D1Fresh
    /\ q.stage = "done" => q.started < q.asOf + D1Fresh + KvTtl + MaxDelay
    /\ q.kind = "guard" /\ q.stage \in {"store", "backfill", "done"} =>
          q.started <= q.asOf /\ q.asOf <= pcClock

PricesDated ==
    /\ pcKv.asOf # PC!None => pcKv.expires <= pcKv.asOf + D1Fresh + KvTtl + MaxDelay
    /\ \A r \in Callers : RequestDated(pcReq[r])

PriceInv == PriceTyped /\ PricesDated

\* Time passes only while every request is within its delay.
LEMMA PriceTick == ASSUME CacheConstants, PriceInv, PC!Tick PROVE PriceInv'
<1>1. /\ pcClock \in Nat /\ pcClock' = pcClock + 1 /\ UNCHANGED <<pcKv, pcD1, pcReq>>
  BY DEF PC!Tick, PriceInv, PriceTyped
<1>2. PriceTyped'
  BY <1>1 DEF PriceInv, PriceTyped
<1>3. ASSUME NEW r \in Callers PROVE RequestDated(pcReq[r])'
  <2>1. pcReq[r] \in PriceRequests /\ RequestDated(pcReq[r])
    BY DEF PriceInv, PriceTyped, PricesDated
  <2>2. pcReq[r] # PC!Idle => pcClock - pcReq[r].started < MaxDelay
    BY DEF PC!Tick
  <2> DEFINE q == pcReq[r]
  <2>3. q.started \in Nat /\ q.asOf \in Int
    BY <2>1 DEF PriceRequests
  <2>4. q # PC!Idle => q.started <= pcClock' /\ pcClock' <= q.started + MaxDelay
    BY <1>1, <2>1, <2>2, <2>3 DEF RequestDated, CacheConstants
  <2>5. q.asOf <= pcClock => q.asOf <= pcClock'
    BY <1>1, <2>3
  <2> QED BY <1>1, <2>1, <2>4, <2>5 DEF RequestDated, PC!Idle
<1> QED BY <1>1, <1>2, <1>3 DEF PriceInv, PricesDated

\* A step of one request that lets the clock stand and leaves the request dated.
LEMMA PriceStep ==
    ASSUME PriceInv, NEW r \in Callers, NEW next \in PriceRequests,
           pcReq' = [pcReq EXCEPT ![r] = next], RequestDated(next),
           pcClock' = pcClock, pcKv' \in [asOf : Int, expires : Nat], pcD1' \in Int,
           pcKv'.asOf # PC!None => pcKv'.expires <= pcKv'.asOf + D1Fresh + KvTtl + MaxDelay
    PROVE  PriceInv'
<1>1. PriceTyped'
  BY DEF PriceInv, PriceTyped
<1>2. ASSUME NEW c \in Callers PROVE RequestDated(pcReq[c])'
  <2>1. CASE c = r
    <3>1. pcReq'[c] = next
      BY <2>1 DEF PriceInv, PriceTyped
    <3> QED BY <3>1 DEF RequestDated, PC!Idle
  <2>2. CASE c # r
    <3>1. pcReq'[c] = pcReq[c]
      BY <2>2 DEF PriceInv, PriceTyped
    <3> QED BY <3>1 DEF RequestDated, PC!Idle, PriceInv, PricesDated
  <2> QED BY <2>1, <2>2
<1> QED BY <1>1, <1>2 DEF PriceInv, PricesDated, PC!None

\* A new request begins now; the guard begins at the sources.
LEMMA PriceAsk ==
    ASSUME CacheConstants, PriceInv, NEW r \in Callers,
           PC!AskPrice(r) \/ PC!AskGuard(r) \/ PC!Answer(r)
    PROVE  PriceInv'
<1>1. /\ pcClock \in Nat /\ UNCHANGED <<pcClock, pcKv, pcD1>>
      /\ pcKv \in [asOf : Int, expires : Nat] /\ pcD1 \in Int
      /\ pcKv.asOf # PC!None => pcKv.expires <= pcKv.asOf + D1Fresh + KvTtl + MaxDelay
  BY DEF PC!AskPrice, PC!AskGuard, PC!Answer, PriceInv, PriceTyped, PricesDated
<1>2. /\ PC!Idle \in PriceRequests /\ PC!Idle.stage = "none" /\ PC!Idle.kind = "none"
  BY DEF PC!Idle, PriceRequests, PC!None
<1>3. pcClock <= pcClock /\ pcClock <= pcClock + MaxDelay
  BY <1>1 DEF CacheConstants
<1>4. CASE PC!AskPrice(r)
  <2> DEFINE next == [PC!Idle EXCEPT !.kind = "get", !.started = pcClock, !.stage = "kv"]
  <2>1. next \in PriceRequests /\ next.kind = "get" /\ next.started = pcClock /\ next.stage = "kv"
    BY <1>1, <1>2 DEF PriceRequests
  <2>2. pcReq' = [pcReq EXCEPT ![r] = next]
    BY <1>4 DEF PC!AskPrice
  <2> HIDE DEF next
  <2>3. RequestDated(next)
    BY <1>3, <2>1 DEF RequestDated
  <2> QED BY <1>1, <2>1, <2>2, <2>3, PriceStep
<1>5. CASE PC!AskGuard(r)
  <2>1. PICK p \in Asked :
          pcReq' = [pcReq EXCEPT ![r] = [PC!Idle EXCEPT !.kind = "guard", !.started = pcClock,
                                          !.stage = PC!refreshPrice, !.asked = p]]
    BY <1>5 DEF PC!AskGuard
  <2> DEFINE next == [PC!Idle EXCEPT !.kind = "guard", !.started = pcClock,
                                     !.stage = PC!refreshPrice, !.asked = p]
  <2>2. next \in PriceRequests /\ next.started = pcClock /\ next.stage = "fetch"
    BY <1>1, <1>2 DEF PriceRequests, PC!refreshPrice
  <2> HIDE DEF next
  <2>3. RequestDated(next)
    BY <1>3, <2>2 DEF RequestDated
  <2>4. pcReq' = [pcReq EXCEPT ![r] = next]
    BY <2>1 DEF next
  <2> QED BY <1>1, <2>2, <2>3, <2>4, PriceStep
<1>6. CASE PC!Answer(r)
  <2>1. pcReq' = [pcReq EXCEPT ![r] = PC!Idle]
    BY <1>6 DEF PC!Answer
  <2>2. RequestDated(PC!Idle)
    BY <1>2 DEF RequestDated
  <2> QED BY <1>1, <1>2, <2>1, <2>2, PriceStep
<1> QED BY <1>4, <1>5, <1>6

\* What a look-up takes, it takes while it is fresh enough, and writes it back so dated.
LEMMA PriceLookup ==
    ASSUME CacheConstants, PriceInv, NEW r \in Callers, PC!getPrice(r)
    PROVE  PriceInv'
<1> DEFINE q == pcReq[r]
<1>1. /\ pcClock \in Nat /\ pcClock' = pcClock
      /\ pcKv \in [asOf : Int, expires : Nat] /\ pcD1 \in Int
      /\ pcKv.asOf # PC!None => pcKv.expires <= pcKv.asOf + D1Fresh + KvTtl + MaxDelay
      /\ q \in PriceRequests /\ RequestDated(q)
  BY DEF PC!getPrice, PC!readKvPrice, PC!readD1Price, PC!fetchExternalPrice, PC!writeD1Price,
         PC!writeKvPrice, PriceInv, PriceTyped, PricesDated
<1>2. /\ q # PC!Idle /\ q.stage \in {"kv", "d1", "fetch", "store", "backfill"}
      /\ q.started \in Nat /\ q.asOf \in Int
      /\ q.started <= pcClock /\ pcClock <= q.started + MaxDelay
  <2>1. q.stage \in {"kv", "d1", "fetch", "store", "backfill"}
    BY DEF PC!getPrice, PC!readKvPrice, PC!readD1Price, PC!fetchExternalPrice,
           PC!writeD1Price, PC!writeKvPrice, PC!At
  <2>2. q # PC!Idle
    BY <2>1 DEF PC!Idle
  <2> QED BY <1>1, <2>1, <2>2 DEF PriceRequests, RequestDated
\* Where a look-up goes, and with what.
<1> DEFINE Gone(stage) == [q EXCEPT !.stage = stage]
           Taken(stage, asOf) == [q EXCEPT !.stage = stage, !.asOf = asOf]
<1>3. ASSUME NEW stage \in {"d1", "fetch", "backfill", "done", "failed"}
      PROVE  /\ Gone(stage) \in PriceRequests /\ Gone(stage) # PC!Idle
             /\ Gone(stage).kind = q.kind /\ Gone(stage).started = q.started
             /\ Gone(stage).stage = stage /\ Gone(stage).asOf = q.asOf
  BY <1>1 DEF PriceRequests, PC!Idle
<1>4. ASSUME NEW stage \in {"backfill", "store", "done"}, NEW asOf \in Int
      PROVE  /\ Taken(stage, asOf) \in PriceRequests /\ Taken(stage, asOf) # PC!Idle
             /\ Taken(stage, asOf).kind = q.kind /\ Taken(stage, asOf).started = q.started
             /\ Taken(stage, asOf).stage = stage /\ Taken(stage, asOf).asOf = asOf
  BY <1>1 DEF PriceRequests, PC!Idle
<1>5. \A stage : PC!Go(r, stage) => pcReq' = [pcReq EXCEPT ![r] = Gone(stage)]
  BY DEF PC!Go, PriceInv, PriceTyped
<1>6. \A stage, asOf : PC!Take(r, stage, asOf) =>
                          pcReq' = [pcReq EXCEPT ![r] = Taken(stage, asOf)]
  BY DEF PC!Take, PriceInv, PriceTyped
<1> HIDE DEF Gone, Taken
<1>7. CASE PC!readKvPrice(r)
  <2>1. q.stage = "kv" /\ q.kind # "guard" /\ UNCHANGED <<pcKv, pcD1>>
    BY <1>1, <1>7 DEF PC!readKvPrice, PC!At, RequestDated
  <2>2. CASE PC!Go(r, "d1")
    <3>1. RequestDated(Gone("d1"))
      BY <1>2, <1>3, <2>1 DEF RequestDated
    <3>2. pcReq' = [pcReq EXCEPT ![r] = Gone("d1")] /\ Gone("d1") \in PriceRequests
      BY <1>3, <1>5, <2>2
    <3> QED BY <1>1, <2>1, <3>1, <3>2, PriceStep
  <2>3. CASE pcKv.asOf # PC!None /\ pcClock < pcKv.expires /\ PC!Take(r, "done", pcKv.asOf)
    <3>1. pcKv.asOf \in Int /\ pcKv.expires \in Nat
      BY <1>1
    <3>2. q.started < pcKv.asOf + D1Fresh + KvTtl + MaxDelay
      BY <1>1, <1>2, <2>3, <3>1 DEF CacheConstants
    <3>3. RequestDated(Taken("done", pcKv.asOf))
      BY <1>2, <1>4, <2>1, <3>1, <3>2 DEF RequestDated
    <3>4. /\ pcReq' = [pcReq EXCEPT ![r] = Taken("done", pcKv.asOf)]
          /\ Taken("done", pcKv.asOf) \in PriceRequests
      BY <1>4, <1>6, <2>3, <3>1
    <3> QED BY <1>1, <2>1, <3>3, <3>4, PriceStep
  <2> QED BY <1>7, <2>2, <2>3 DEF PC!readKvPrice
<1>8. CASE PC!readD1Price(r)
  <2>1. q.stage = "d1" /\ q.kind # "guard" /\ UNCHANGED <<pcKv, pcD1>>
    BY <1>1, <1>8 DEF PC!readD1Price, PC!At, RequestDated
  <2>2. ASSUME NEW stage \in {"fetch", "failed"}, PC!Go(r, stage) PROVE PriceInv'
    <3>1. RequestDated(Gone(stage))
      BY <1>2, <1>3, <2>1 DEF RequestDated
    <3>2. pcReq' = [pcReq EXCEPT ![r] = Gone(stage)] /\ Gone(stage) \in PriceRequests
      BY <1>3, <1>5, <2>2
    <3> QED BY <1>1, <2>1, <3>1, <3>2, PriceStep
  <2>3. CASE ~ PC!Stale(pcD1) /\ PC!Take(r, "backfill", pcD1)
    <3>1. q.started <= pcD1 + D1Fresh
      BY <1>1, <1>2, <2>3 DEF PC!Stale, CacheConstants
    <3>2. RequestDated(Taken("backfill", pcD1))
      BY <1>1, <1>2, <1>4, <2>1, <3>1 DEF RequestDated
    <3>3. /\ pcReq' = [pcReq EXCEPT ![r] = Taken("backfill", pcD1)]
          /\ Taken("backfill", pcD1) \in PriceRequests
      BY <1>1, <1>4, <1>6, <2>3
    <3> QED BY <1>1, <2>1, <3>2, <3>3, PriceStep
  <2> QED BY <1>8, <2>2, <2>3 DEF PC!readD1Price
<1>9. CASE PC!fetchExternalPrice(r)
  <2>1. q.stage = "fetch" /\ UNCHANGED <<pcKv, pcD1>>
    BY <1>9 DEF PC!fetchExternalPrice, PC!At
  <2>2. CASE PC!Go(r, "failed")
    <3>1. RequestDated(Gone("failed"))
      BY <1>2, <1>3 DEF RequestDated
    <3>2. pcReq' = [pcReq EXCEPT ![r] = Gone("failed")] /\ Gone("failed") \in PriceRequests
      BY <1>3, <1>5, <2>2
    <3> QED BY <1>1, <2>1, <3>1, <3>2, PriceStep
  <2>3. CASE PC!Take(r, "store", pcClock)
    <3>1. pcClock \in Int
      BY <1>1
    <3>2. RequestDated(Taken("store", pcClock))
      BY <1>1, <1>2, <1>4, <3>1 DEF RequestDated
    <3>3. /\ pcReq' = [pcReq EXCEPT ![r] = Taken("store", pcClock)]
          /\ Taken("store", pcClock) \in PriceRequests
      BY <1>4, <1>6, <2>3, <3>1
    <3> QED BY <1>1, <2>1, <3>2, <3>3, PriceStep
  <2> QED BY <1>9, <2>2, <2>3 DEF PC!fetchExternalPrice
<1>10. CASE PC!writeD1Price(r)
  <2>1. q.stage = "store" /\ pcKv' = pcKv /\ pcD1' \in Int /\ PC!Go(r, "backfill")
    BY <1>1, <1>2, <1>10 DEF PC!writeD1Price, PC!At
  <2>2. q.started <= q.asOf + D1Fresh
    BY <1>1, <1>2, <2>1 DEF RequestDated, CacheConstants
  <2>3. RequestDated(Gone("backfill"))
    BY <1>1, <1>2, <1>3, <2>1, <2>2 DEF RequestDated
  <2>4. pcReq' = [pcReq EXCEPT ![r] = Gone("backfill")] /\ Gone("backfill") \in PriceRequests
    BY <1>3, <1>5, <2>1
  <2> QED BY <1>1, <2>1, <2>3, <2>4, PriceStep
<1>11. CASE PC!writeKvPrice(r)
  <2> DEFINE entry == [asOf |-> q.asOf, expires |-> pcClock + KvTtl]
  <2>1. /\ q.stage = "backfill" /\ pcD1' = pcD1 /\ PC!Go(r, "done")
        /\ pcKv' = pcKv \/ pcKv' = entry
    BY <1>11 DEF PC!writeKvPrice, PC!At
  <2>2. q.started <= q.asOf + D1Fresh
    BY <1>1, <2>1 DEF RequestDated
  <2>3. /\ entry \in [asOf : Int, expires : Nat]
        /\ entry.expires <= entry.asOf + D1Fresh + KvTtl + MaxDelay
    <3> DEFINE a == q.asOf
               b == q.started
    <3>1. a \in Int /\ b \in Nat /\ pcClock <= b + MaxDelay /\ b <= a + D1Fresh
      BY <1>2, <2>2
    <3> HIDE DEF a, b
    <3>2. /\ pcClock + KvTtl \in Nat
          /\ pcClock + KvTtl <= a + D1Fresh + KvTtl + MaxDelay
      BY <1>1, <3>1 DEF CacheConstants
    <3> QED BY <3>1, <3>2 DEF a
  <2>4. q.started < q.asOf + D1Fresh + KvTtl + MaxDelay
    BY <1>2, <2>2 DEF CacheConstants
  <2> HIDE DEF entry
  <2>5. /\ pcKv' \in [asOf : Int, expires : Nat]
        /\ pcKv'.asOf # PC!None => pcKv'.expires <= pcKv'.asOf + D1Fresh + KvTtl + MaxDelay
    BY <1>1, <2>1, <2>3
  <2>6. RequestDated(Gone("done"))
    BY <1>1, <1>2, <1>3, <2>1, <2>4 DEF RequestDated
  <2>7. pcReq' = [pcReq EXCEPT ![r] = Gone("done")] /\ Gone("done") \in PriceRequests
    BY <1>3, <1>5, <2>1
  <2> QED BY <1>1, <2>1, <2>5, <2>6, <2>7, PriceStep
<1> QED BY <1>7, <1>8, <1>9, <1>10, <1>11 DEF PC!getPrice

PriceAnswers == PC!AnsweredPriceFresh /\ PC!GuardUsesCurrentPrices

\* What the invariant says of an answer.
LEMMA PricesAnswered == ASSUME CacheConstants, PriceInv PROVE PriceAnswers
<1> SUFFICES ASSUME NEW r \in Callers
             PROVE  /\ PC!At(r, "done") => pcClock - pcReq[r].asOf < D1Fresh + KvTtl + 2 * MaxDelay
                    /\ PC!Approved(r) => \E n \in pcReq[r].started .. pcClock :
                          PC!evaluatePriceGuard(External[n], Par, pcReq[r].asked)
  BY DEF PriceAnswers, PC!AnsweredPriceFresh, PC!GuardUsesCurrentPrices
<1>1. /\ pcClock \in Nat /\ pcReq[r].started \in Nat /\ pcReq[r].asOf \in Int
      /\ RequestDated(pcReq[r])
  BY DEF PriceInv, PriceTyped, PricesDated, PriceRequests
<1>2. ASSUME PC!At(r, "done")
      PROVE  pcClock - pcReq[r].asOf < D1Fresh + KvTtl + 2 * MaxDelay
  <2>1. pcReq[r].stage = "done" /\ pcReq[r] # PC!Idle
    BY <1>2 DEF PC!At, PC!Idle
  <2> QED BY <1>1, <2>1 DEF RequestDated, CacheConstants
<1>3. ASSUME PC!Approved(r)
      PROVE  \E n \in pcReq[r].started .. pcClock :
                PC!evaluatePriceGuard(External[n], Par, pcReq[r].asked)
  <2>1. /\ pcReq[r].kind = "guard" /\ pcReq[r].stage = "done"
        /\ PC!evaluatePriceGuard(External[pcReq[r].asOf], Par, pcReq[r].asked)
    BY <1>3 DEF PC!Approved, PC!At
  <2>2. pcReq[r].asOf \in pcReq[r].started .. pcClock
    BY <1>1, <2>1 DEF RequestDated
  <2> QED BY <2>1, <2>2
<1> QED BY <1>2, <1>3

\* A request for the token list.
ListRequests ==
    [stage : {"none", "kv", "fetch", "put", "store", "d1", "stored", "done", "failed"},
     started : Nat, version : Nat, asOf : Nat, todo : SUBSET Coins]

ListTyped ==
    /\ tlClock \in 0 .. Horizon
    /\ edition \in [0 .. Horizon -> Nat] /\ \A n \in 0 .. tlClock : edition[n] \in DOMAIN Lists
    /\ tlKv \in [version : Nat, asOf : Nat, expires : Nat]
    /\ tlReq \in [Callers -> ListRequests]

\* By time t edition v was published when a list dated asOf says.
Published(ed, t, v, asOf) ==
    asOf <= t /\ \E n \in 0 .. t : asOf - MaxDelay <= n /\ n <= asOf /\ ed[n] = v

\* What the cache and a request hold was published at its date; an entry expires in time.
ListDated(q) ==
    /\ q # TL!Idle => q.started <= tlClock /\ tlClock <= q.started + MaxDelay
    /\ q.stage = "put" =>
          \E n \in 0 .. tlClock : q.started <= n /\ edition[n] = q.version
    /\ q.stage \in {"store", "done"} =>
          Published(edition, tlClock, q.version, q.asOf) /\ q.started < q.asOf + KvTtl

EntryDated(kv) ==
    kv.version # 0 => /\ Published(edition, tlClock, kv.version, kv.asOf)
                      /\ kv.expires = kv.asOf + KvTtl

ListInv == ListTyped /\ EntryDated(tlKv) /\ \A r \in Callers : ListDated(tlReq[r])

\* The editions of the past stay what they were.
LEMMA ListTick == ASSUME CacheConstants, ListInv, TL!Tick PROVE ListInv'
<1>1. /\ tlClock \in 0 .. Horizon /\ tlClock < Horizon /\ tlClock' = tlClock + 1
      /\ UNCHANGED <<tlKv, tlReq>>
  BY DEF TL!Tick, ListInv, ListTyped
<1>2. PICK v \in DOMAIN Lists : edition' = [edition EXCEPT ![tlClock + 1] = v]
  BY DEF TL!Tick
<1>3. v \in Nat
  <2>1. DOMAIN Lists = 1 .. Len(Lists)
    BY DEF CacheConstants
  <2> QED BY <1>2, <2>1
<1>4. /\ \A n \in 0 .. tlClock : edition'[n] = edition[n] /\ n \in 0 .. tlClock'
      /\ edition'[tlClock'] = v /\ edition' \in [0 .. Horizon -> Nat]
  BY <1>1, <1>2, <1>3 DEF ListInv, ListTyped, CacheConstants
<1>5. ListTyped'
  <2>1. \A n \in 0 .. tlClock' : n \in 0 .. tlClock \/ n = tlClock'
    BY <1>1
  <2>2. tlClock' \in 0 .. Horizon
    BY <1>1 DEF CacheConstants
  <2>3. \A n \in 0 .. tlClock' : edition'[n] \in DOMAIN Lists
    BY <1>2, <1>4, <2>1 DEF ListInv, ListTyped
  <2> QED BY <1>1, <1>4, <2>2, <2>3 DEF ListInv, ListTyped
<1>6. \A w, a \in Nat : Published(edition, tlClock, w, a) => Published(edition', tlClock', w, a)
  <2>1. \A a \in Nat : a <= tlClock => a <= tlClock'
    BY <1>1
  <2> QED BY <1>4, <2>1 DEF Published
<1>7. EntryDated(tlKv)'
  <2>1. tlKv.asOf \in Nat /\ tlKv.version \in Nat
    BY DEF ListInv, ListTyped
  <2>2. tlKv.version # 0 => Published(edition', tlClock', tlKv.version, tlKv.asOf)
    BY <1>6, <2>1 DEF ListInv, EntryDated
  <2> QED BY <1>1, <2>2 DEF ListInv, EntryDated
<1>8. ASSUME NEW r \in Callers PROVE ListDated(tlReq[r])'
  <2> DEFINE q == tlReq[r]
  <2>1. q \in ListRequests /\ ListDated(q)
    BY DEF ListInv, ListTyped
  <2>2. q # TL!Idle => tlClock - q.started < MaxDelay
    BY DEF TL!Tick
  <2>3. q.started \in Nat /\ q.asOf \in Nat /\ q.version \in Nat
    BY <2>1 DEF ListRequests
  <2>4. q # TL!Idle => q.started <= tlClock' /\ tlClock' <= q.started + MaxDelay
    BY <1>1, <2>1, <2>2, <2>3 DEF ListDated, CacheConstants
  <2>5. q.stage = "put" => \E n \in 0 .. tlClock' : q.started <= n /\ edition'[n] = q.version
    BY <1>4, <2>1 DEF ListDated
  <2>6. q.stage \in {"store", "done"} => Published(edition', tlClock', q.version, q.asOf)
    BY <1>6, <2>1, <2>3 DEF ListDated
  <2>7. tlReq'[r] = q
    BY <1>1
  <2> HIDE DEF q
  <2> QED BY <2>1, <2>4, <2>5, <2>6, <2>7 DEF ListDated, TL!Idle
<1> QED BY <1>5, <1>7, <1>8 DEF ListInv

\* A step of one request that lets clock and editions stand and leaves what it touches dated.
LEMMA ListStep ==
    ASSUME ListInv, NEW r \in Callers, NEW next \in ListRequests,
           tlReq' = [tlReq EXCEPT ![r] = next], ListDated(next),
           UNCHANGED <<tlClock, edition>>,
           tlKv' \in [version : Nat, asOf : Nat, expires : Nat], EntryDated(tlKv')
    PROVE  ListInv'
<1>1. ListTyped'
  BY DEF ListInv, ListTyped
<1>2. ASSUME NEW c \in Callers PROVE ListDated(tlReq[c])'
  <2>1. CASE c = r
    <3>1. tlReq'[c] = next
      BY <2>1 DEF ListInv, ListTyped
    <3> QED BY <3>1 DEF ListDated, TL!Idle
  <2>2. CASE c # r
    <3>1. tlReq'[c] = tlReq[c]
      BY <2>2 DEF ListInv, ListTyped
    <3> QED BY <3>1 DEF ListDated, TL!Idle, ListInv
  <2> QED BY <2>1, <2>2
<1>3. EntryDated(tlKv)'
  BY DEF EntryDated
<1> QED BY <1>1, <1>2, <1>3 DEF ListInv

\* A new request begins now.
LEMMA ListAsk ==
    ASSUME CacheConstants, ListInv, NEW r \in Callers, TL!listTokens(r) \/ TL!Answer(r)
    PROVE  ListInv'
<1>1. /\ tlClock \in Nat /\ UNCHANGED <<tlClock, edition, tlKv>>
      /\ tlKv \in [version : Nat, asOf : Nat, expires : Nat] /\ EntryDated(tlKv)
  BY DEF TL!listTokens, TL!Answer, ListInv, ListTyped
<1>2. TL!Idle \in ListRequests /\ TL!Idle.stage = "none"
  BY DEF TL!Idle, ListRequests
<1>3. EntryDated(tlKv')
  BY <1>1
<1>4. CASE TL!listTokens(r)
  <2> DEFINE next == [TL!Idle EXCEPT !.stage = "kv", !.started = tlClock]
  <2>1. next \in ListRequests /\ next.started = tlClock /\ next.stage = "kv"
    BY <1>1, <1>2 DEF ListRequests
  <2>2. tlReq' = [tlReq EXCEPT ![r] = next]
    BY <1>4 DEF TL!listTokens
  <2> HIDE DEF next
  <2>3. tlClock <= tlClock + MaxDelay
    BY <1>1 DEF CacheConstants
  <2>4. ListDated(next)
    BY <1>1, <2>1, <2>3 DEF ListDated
  <2> QED BY <1>1, <1>3, <2>1, <2>2, <2>4, ListStep
<1>5. CASE TL!Answer(r)
  <2>1. tlReq' = [tlReq EXCEPT ![r] = TL!Idle]
    BY <1>5 DEF TL!Answer
  <2>2. ListDated(TL!Idle)
    BY <1>2 DEF ListDated
  <2> QED BY <1>1, <1>2, <1>3, <2>1, <2>2, ListStep
<1> QED BY <1>4, <1>5

\* A list is dated when it is cached, within the request that fetched it.
LEMMA ListLookup ==
    ASSUME CacheConstants, ListInv, NEW r \in Callers, TL!resolveTokens(r)
    PROVE  ListInv'
<1> DEFINE q == tlReq[r]
           Kvs == [version : Nat, asOf : Nat, expires : Nat]
<1>1. /\ UNCHANGED <<tlClock, edition>>
      /\ tlKv \in Kvs /\ EntryDated(tlKv) /\ q \in ListRequests /\ ListDated(q)
  BY DEF TL!resolveTokens, TL!readCache, TL!fetchList, TL!refresh, TL!writeThroughD1,
         TL!readD1Cache, ListInv, ListTyped
<1>2. /\ q.stage \in {"kv", "fetch", "put", "store", "d1"}
      /\ q.started \in Nat /\ q.asOf \in Nat /\ q.version \in Nat /\ q.todo \in SUBSET Coins
      /\ tlClock \in Nat /\ tlClock \in 0 .. tlClock
      /\ q.started <= tlClock /\ tlClock <= q.started + MaxDelay
  <2>1. q.stage \in {"kv", "fetch", "put", "store", "d1"}
    BY DEF TL!resolveTokens, TL!readCache, TL!fetchList, TL!refresh, TL!writeThroughD1,
           TL!readD1Cache, TL!At
  <2>2. q # TL!Idle
    BY <2>1 DEF TL!Idle
  <2>3. tlClock \in Nat /\ tlClock \in 0 .. tlClock
    BY DEF ListInv, ListTyped
  <2> QED BY <1>1, <2>1, <2>2, <2>3 DEF ListRequests, ListDated
<1> DEFINE Gone(stage) == [q EXCEPT !.stage = stage]
<1>3. ASSUME NEW stage \in {"fetch", "d1", "stored", "done", "failed"}
      PROVE  /\ Gone(stage) \in ListRequests /\ Gone(stage) # TL!Idle
             /\ Gone(stage).started = q.started /\ Gone(stage).stage = stage
             /\ Gone(stage).version = q.version /\ Gone(stage).asOf = q.asOf
  BY <1>1 DEF ListRequests, TL!Idle
<1>4. \A stage : TL!Go(r, stage) => tlReq' = [tlReq EXCEPT ![r] = Gone(stage)]
  BY DEF TL!Go, ListInv, ListTyped
<1> HIDE DEF Gone
\* Where nothing is claimed yet.
<1>5. ASSUME NEW stage \in {"fetch", "d1", "stored", "failed"}, TL!Go(r, stage), UNCHANGED tlKv
      PROVE  ListInv'
  <2>1. ListDated(Gone(stage))
    BY <1>2, <1>3, <1>5 DEF ListDated
  <2>2. /\ tlReq' = [tlReq EXCEPT ![r] = Gone(stage)] /\ Gone(stage) \in ListRequests
        /\ EntryDated(tlKv') /\ tlKv' \in Kvs
    BY <1>1, <1>3, <1>4, <1>5
  <2> QED BY <1>1, <2>1, <2>2, ListStep
<1>6. CASE TL!readCache(r)
  <2>1. CASE TL!Go(r, "fetch")
    BY <1>5, <1>6, <2>1 DEF TL!readCache
  <2>2. CASE ~ TL!Go(r, "fetch")
    <3> DEFINE next == [q EXCEPT !.stage = "done", !.version = tlKv.version, !.asOf = tlKv.asOf]
    <3>1. /\ tlKv.version # 0 /\ tlClock < tlKv.expires /\ UNCHANGED tlKv
          /\ tlReq' = [tlReq EXCEPT ![r] = next]
      BY <1>6, <2>2 DEF TL!readCache, ListInv, ListTyped
    <3>2. tlKv.version \in Nat /\ tlKv.asOf \in Nat
      BY <1>1
    <3>3. /\ next \in ListRequests /\ next.started = q.started /\ next.stage = "done"
          /\ next.version = tlKv.version /\ next.asOf = tlKv.asOf
      BY <1>1, <3>2 DEF ListRequests
    <3> HIDE DEF next
    <3>4. /\ Published(edition, tlClock, tlKv.version, tlKv.asOf)
          /\ tlKv.expires = tlKv.asOf + KvTtl
      BY <1>1, <3>1 DEF EntryDated
    <3>5. q.started < tlKv.asOf + KvTtl
      BY <1>2, <3>1, <3>2, <3>4 DEF CacheConstants
    <3>6. ListDated(next)
      BY <1>2, <3>3, <3>4, <3>5 DEF ListDated
    <3>7. EntryDated(tlKv') /\ tlKv' \in Kvs
      BY <1>1, <3>1
    <3> QED BY <1>1, <3>1, <3>3, <3>6, <3>7, ListStep
  <2> QED BY <2>1, <2>2
<1>7. CASE TL!fetchList(r)
  <2>1. CASE TL!Go(r, "d1")
    BY <1>5, <1>7, <2>1 DEF TL!fetchList
  <2>2. CASE ~ TL!Go(r, "d1")
    <3> DEFINE next == [q EXCEPT !.stage = "put", !.version = edition[tlClock]]
    <3>1. UNCHANGED tlKv /\ tlReq' = [tlReq EXCEPT ![r] = next]
      BY <1>7, <2>2 DEF TL!fetchList, ListInv, ListTyped
    <3>2. edition[tlClock] \in Nat
      BY DEF ListInv, ListTyped
    <3>3. /\ next \in ListRequests /\ next.started = q.started /\ next.stage = "put"
          /\ next.version = edition[tlClock]
      BY <1>1, <3>2 DEF ListRequests
    <3> HIDE DEF next
    <3>4. ListDated(next)
      BY <1>2, <3>3 DEF ListDated
    <3>5. EntryDated(tlKv') /\ tlKv' \in Kvs
      BY <1>1, <3>1
    <3> QED BY <1>1, <3>1, <3>3, <3>4, <3>5, ListStep
  <2> QED BY <2>1, <2>2
<1>8. CASE TL!refresh(r)
  <2>1. q.stage = "put"
    BY <1>8 DEF TL!refresh, TL!At
  <2>2. CASE TL!Go(r, "d1") /\ UNCHANGED tlKv
    BY <1>5, <2>2
  <2>3. CASE ~ (TL!Go(r, "d1") /\ UNCHANGED tlKv)
    <3> DEFINE entry == [version |-> q.version, asOf |-> tlClock, expires |-> tlClock + KvTtl]
               next == [q EXCEPT !.stage = "store", !.asOf = tlClock,
                                 !.todo = TL!validateTokenList(q.version)]
    <3>1. /\ tlKv' = tlKv \/ tlKv' = entry
          /\ tlReq' = [tlReq EXCEPT ![r] = next]
      BY <1>8, <2>3 DEF TL!refresh, TL!expiry, ListInv, ListTyped
    <3>2. PICK n \in 0 .. tlClock : q.started <= n /\ edition[n] = q.version
      BY <1>1, <2>1 DEF ListDated
    <3>3. TL!validateTokenList(q.version) \in SUBSET Coins
      <4>1. q.version \in DOMAIN Lists
        BY <3>2 DEF ListInv, ListTyped
      <4> QED BY <4>1 DEF TL!validateTokenList, CacheConstants
    <3>4. /\ next \in ListRequests /\ next.started = q.started /\ next.stage = "store"
          /\ next.version = q.version /\ next.asOf = tlClock
      BY <1>1, <1>2, <3>3 DEF ListRequests
    <3>5. /\ entry \in Kvs /\ entry.version = q.version /\ entry.asOf = tlClock
          /\ entry.expires = tlClock + KvTtl
      BY <1>2 DEF CacheConstants
    <3> HIDE DEF entry, next
    <3>6. Published(edition, tlClock, q.version, tlClock)
      <4>1. tlClock - MaxDelay <= n /\ n <= tlClock /\ tlClock <= tlClock
        BY <1>2, <3>2 DEF CacheConstants
      <4> QED BY <3>2, <4>1 DEF Published
    <3>7. q.started < tlClock + KvTtl
      BY <1>2 DEF CacheConstants
    <3>8. ListDated(next)
      BY <1>2, <3>4, <3>6, <3>7 DEF ListDated
    <3>9. EntryDated(tlKv') /\ tlKv' \in Kvs
      BY <1>1, <3>1, <3>5, <3>6 DEF EntryDated
    <3> QED BY <1>1, <3>1, <3>4, <3>8, <3>9, ListStep
  <2> QED BY <2>2, <2>3
<1>9. CASE TL!writeThroughD1(r)
  <2>1. PICK stage \in {"store", "done"}, todo \in SUBSET Coins :
          tlReq' = [tlReq EXCEPT ![r] = [q EXCEPT !.stage = stage, !.todo = todo]]
    <3>1. q.stage = "store"
      BY <1>9 DEF TL!writeThroughD1, TL!At
    <3>2. CASE tlReq' = [tlReq EXCEPT ![r].stage = "done", ![r].todo = {}]
      BY <3>2 DEF ListInv, ListTyped
    <3>3. ASSUME NEW t \in q.todo, tlReq' = [tlReq EXCEPT ![r].todo = q.todo \ {t}]
          PROVE  tlReq' = [tlReq EXCEPT ![r] = [q EXCEPT !.stage = "store", !.todo = q.todo \ {t}]]
      <4>1. [q EXCEPT !.todo = q.todo \ {t}] = [q EXCEPT !.stage = "store", !.todo = q.todo \ {t}]
        BY <1>1, <3>1 DEF ListRequests
      <4> QED BY <3>3, <4>1 DEF ListInv, ListTyped
    <3>4. \A t : q.todo \ {t} \in SUBSET Coins
      BY <1>2
    <3> QED BY <1>9, <3>2, <3>3, <3>4 DEF TL!writeThroughD1
  <2> DEFINE next == [q EXCEPT !.stage = stage, !.todo = todo]
  <2>2. /\ next \in ListRequests /\ next.started = q.started /\ next.stage = stage
        /\ next.version = q.version /\ next.asOf = q.asOf
    BY <1>1, <2>1 DEF ListRequests
  <2>3. q.stage = "store" /\ UNCHANGED tlKv
    BY <1>9 DEF TL!writeThroughD1, TL!At
  <2>4. tlReq' = [tlReq EXCEPT ![r] = next]
    BY <2>1
  <2> HIDE DEF next
  <2>5. ListDated(next)
    BY <1>1, <1>2, <2>2, <2>3 DEF ListDated
  <2>6. EntryDated(tlKv') /\ tlKv' \in Kvs
    BY <1>1, <2>3
  <2> QED BY <1>1, <2>2, <2>4, <2>5, <2>6, ListStep
<1>10. CASE TL!readD1Cache(r)
  BY <1>5, <1>10 DEF TL!readD1Cache
<1> QED BY <1>6, <1>7, <1>8, <1>9, <1>10 DEF TL!resolveTokens

\* What the invariant says of an answer.
LEMMA ListsAnswered == ASSUME CacheConstants, ListInv PROVE TL!AnsweredListDated
<1> SUFFICES ASSUME NEW r \in Callers, TL!At(r, "done")
             PROVE  /\ TL!PublishedDuring(tlReq[r].version, tlReq[r].asOf - MaxDelay, tlReq[r].asOf)
                    /\ tlClock < tlReq[r].asOf + KvTtl + MaxDelay
  BY DEF TL!AnsweredListDated
<1>1. /\ tlReq[r].stage = "done" /\ tlReq[r] # TL!Idle
      /\ tlReq[r] \in ListRequests /\ ListDated(tlReq[r]) /\ tlClock \in 0 .. Horizon
  BY DEF TL!At, TL!Idle, ListInv, ListTyped
<1>2. /\ Published(edition, tlClock, tlReq[r].version, tlReq[r].asOf)
      /\ tlReq[r].started < tlReq[r].asOf + KvTtl
      /\ tlClock <= tlReq[r].started + MaxDelay
      /\ tlReq[r].started \in Nat /\ tlReq[r].asOf \in Nat
  BY <1>1 DEF ListDated, ListRequests
<1>3. tlClock < tlReq[r].asOf + KvTtl + MaxDelay
  BY <1>1, <1>2 DEF CacheConstants
<1>4. 0 .. tlClock \subseteq 0 .. Horizon
  BY <1>1 DEF CacheConstants
<1>5. TL!PublishedDuring(tlReq[r].version, tlReq[r].asOf - MaxDelay, tlReq[r].asOf)
  BY <1>2, <1>4 DEF Published, TL!PublishedDuring
<1> QED BY <1>3, <1>5

\* One load at a time is listened to, and none once the list is there.
PickerInv ==
    /\ load \in [Loads -> {"none", "pending", "cancelled"}]
    /\ search \in [Searches -> Queries \cup {Blank}]
    /\ query \in Queries \cup {Blank}
    /\ \A k, l \in Loads : load[k] = "pending" /\ load[l] = "pending" => k = l
    /\ defaultsLoaded => \A l \in Loads : load[l] # "pending"
    /\ TP!PickerConsistent

\* Opening and closing leave one load at most that is listened to.
LEMMA PickerOpens ==
    ASSUME PickerInv, NEW open \in BOOLEAN, TP!SetOpen(open)
    PROVE  /\ load' \in [Loads -> {"none", "pending", "cancelled"}]
           /\ \A k, l \in Loads : load'[k] = "pending" /\ load'[l] = "pending" => k = l
           /\ defaultsLoaded' => \A l \in Loads : load'[l] # "pending"
           /\ UNCHANGED <<defaultsLoaded, defaultTokens>>
<1> DEFINE swept == [l \in Loads |-> IF TP!cancelled(l) THEN "cancelled" ELSE load[l]]
<1>1. /\ swept \in [Loads -> {"none", "pending", "cancelled"}]
      /\ \A l \in Loads : swept[l] # "pending"
  BY DEF PickerInv, TP!cancelled
<1>2. \/ UNCHANGED <<load, defaultsLoaded, defaultTokens>>
      \/ load' = swept /\ UNCHANGED <<defaultsLoaded, defaultTokens>>
      \/ /\ ~ defaultsLoaded /\ UNCHANGED <<defaultsLoaded, defaultTokens>>
         /\ \E l \in Loads : load' = [swept EXCEPT ![l] = "pending"]
  BY DEF TP!SetOpen, TP!defaultsVars
<1> HIDE DEF swept
<1> QED BY <1>1, <1>2 DEF PickerInv

\* The invariant of the picker.
LEMMA PickerStep == ASSUME PickerInv, TP!Next PROVE PickerInv'
<1>1. CASE TP!Toggle
  <2>1. TP!SetOpen(~ isOpen) /\ UNCHANGED <<query, isSearching, debounce, search>>
    BY <1>1 DEF TP!Toggle, TP!searchVars
  <2>2. (~ isOpen) \in BOOLEAN
    BY Zenon
  <2> QED BY <2>1, <2>2, PickerOpens DEF PickerInv, TP!PickerConsistent
<1>2. CASE TP!handleSelect
  <2>1. TP!SetOpen(FALSE) /\ TP!SetQuery(Blank) /\ UNCHANGED search
    BY <1>2 DEF TP!handleSelect
  <2>2. /\ query' \in Queries \cup {Blank}
        /\ isSearching' => debounce' \/ \E s \in Searches : search'[s] # Blank
    BY <2>1 DEF TP!SetQuery, PickerInv, TP!PickerConsistent
  <2>3. /\ load' \in [Loads -> {"none", "pending", "cancelled"}]
        /\ \A k, l \in Loads : load'[k] = "pending" /\ load'[l] = "pending" => k = l
        /\ defaultsLoaded' => \A l \in Loads : load'[l] # "pending"
        /\ defaultsLoaded' = defaultsLoaded /\ defaultTokens' = defaultTokens
    BY <2>1, PickerOpens
  <2>4. defaultsLoaded' => defaultTokens'
    BY <2>3, Zenon DEF PickerInv, TP!PickerConsistent
  <2>5. search' \in [Searches -> Queries \cup {Blank}]
    BY <2>1 DEF PickerInv
  <2> QED BY <2>2, <2>3, <2>4, <2>5 DEF PickerInv, TP!PickerConsistent
<1>3. ASSUME NEW q \in Queries \cup {Blank}, TP!Type(q) PROVE PickerInv'
  <2>1. TP!SetOpen(TRUE) /\ TP!SetQuery(q) /\ UNCHANGED search
    BY <1>3 DEF TP!Type
  <2>2. /\ query' \in Queries \cup {Blank}
        /\ isSearching' => debounce' \/ \E s \in Searches : search'[s] # Blank
    BY <2>1 DEF TP!SetQuery, PickerInv, TP!PickerConsistent
  <2>3. /\ load' \in [Loads -> {"none", "pending", "cancelled"}]
        /\ \A k, l \in Loads : load'[k] = "pending" /\ load'[l] = "pending" => k = l
        /\ defaultsLoaded' => \A l \in Loads : load'[l] # "pending"
        /\ defaultsLoaded' = defaultsLoaded /\ defaultTokens' = defaultTokens
    BY <2>1, PickerOpens
  <2>4. defaultsLoaded' => defaultTokens'
    BY <2>3, Zenon DEF PickerInv, TP!PickerConsistent
  <2>5. search' \in [Searches -> Queries \cup {Blank}]
    BY <2>1 DEF PickerInv
  <2> QED BY <2>2, <2>3, <2>4, <2>5 DEF PickerInv, TP!PickerConsistent
<1>4. CASE TP!searchTokens
  <2>1. UNCHANGED <<query, load, defaultsLoaded, defaultTokens>>
    BY <1>4 DEF TP!searchTokens, TP!defaultsVars
  <2>2. CASE query = Blank
    BY <1>4, <2>1, <2>2 DEF TP!searchTokens, PickerInv, TP!PickerConsistent
  <2>3. CASE query # Blank
    <3>1. PICK s \in Searches : search' = [search EXCEPT ![s] = query]
      BY <1>4, <2>3 DEF TP!searchTokens
    <3>2. search'[s] # Blank /\ search' \in [Searches -> Queries \cup {Blank}]
      BY <2>3, <3>1 DEF PickerInv
    <3> QED BY <2>1, <3>2 DEF PickerInv, TP!PickerConsistent
  <2> QED BY <2>2, <2>3
<1>5. ASSUME NEW l \in Loads, TP!LoadAnswered(l) PROVE PickerInv'
  <2>1. /\ load' = [load EXCEPT ![l] = "none"] /\ UNCHANGED <<query, isSearching, debounce, search>>
        /\ \/ load[l] = "pending" /\ defaultTokens' = TRUE
           \/ load[l] = "pending" /\ UNCHANGED defaultsLoaded
           \/ UNCHANGED <<defaultsLoaded, defaultTokens>>
    BY <1>5 DEF TP!LoadAnswered, TP!searchVars
  <2>2. /\ load' \in [Loads -> {"none", "pending", "cancelled"}]
        /\ \A k \in Loads : load'[k] = "pending" => load[k] = "pending" /\ k # l
    BY <2>1 DEF PickerInv
  <2>3. \A k \in Loads : load[l] = "pending" => load'[k] # "pending"
    BY <2>2 DEF PickerInv
  <2>4. load[l] = "pending" => ~ defaultsLoaded
    BY DEF PickerInv
  <2> QED BY <2>1, <2>2, <2>3, <2>4 DEF PickerInv, TP!PickerConsistent
<1>6. ASSUME NEW s \in Searches, TP!SearchAnswered(s) PROVE PickerInv'
  BY <1>6 DEF TP!SearchAnswered, TP!defaultsVars, PickerInv, TP!PickerConsistent
<1> QED BY <1>1, <1>2, <1>3, <1>4, <1>5, <1>6 DEF TP!Next

\* What the caches answer is as recent and as truly dated as their lifetimes allow, the
\* price guard decides by what the sources say meanwhile, and the picker keeps its list
\* and its spinner right: for every number of overlapping requests, every lifetime and
\* every history of prices and editions.
THEOREM CachesAreHonest ==
    ASSUME CacheConstants PROVE PC!Spec /\ TL!Spec /\ TP!Spec => []CachesHonest
<1>1. PC!Init => PriceInv
  <2> SUFFICES ASSUME PC!Init PROVE PriceInv
    OBVIOUS
  <2>1. PC!Idle \in PriceRequests /\ RequestDated(PC!Idle)
    BY DEF PC!Idle, PriceRequests, RequestDated, PC!None
  <2>2. PriceTyped
    BY <2>1 DEF PC!Init, PriceTyped, PC!None
  <2> QED BY <2>1, <2>2 DEF PC!Init, PriceInv, PricesDated
<1>2. PriceInv /\ [PC!Next]_(PC!vars) => PriceInv'
  <2> SUFFICES ASSUME PriceInv, [PC!Next]_(PC!vars) PROVE PriceInv'
    OBVIOUS
  <2>1. CASE UNCHANGED PC!vars
    BY <2>1 DEF PC!vars, PriceInv, PriceTyped, PricesDated, RequestDated, PC!None, PC!Idle
  <2>2. CASE PC!Next
    BY <2>2, PriceTick, PriceAsk, PriceLookup DEF PC!Next
  <2> QED BY <2>1, <2>2
<1>3. TL!Init => ListInv
  <2> SUFFICES ASSUME TL!Init PROVE ListInv
    OBVIOUS
  <2>1. TL!Idle \in ListRequests /\ ListDated(TL!Idle)
    BY DEF TL!Idle, ListRequests, ListDated
  <2>2. 1 \in DOMAIN Lists
    BY DEF CacheConstants
  <2>3. ListTyped
    BY <2>1, <2>2 DEF TL!Init, ListTyped, CacheConstants
  <2>4. EntryDated(tlKv)
    BY DEF TL!Init, EntryDated
  <2> QED BY <2>1, <2>3, <2>4 DEF TL!Init, ListInv
<1>4. ListInv /\ [TL!Next]_(TL!vars) => ListInv'
  <2> SUFFICES ASSUME ListInv, [TL!Next]_(TL!vars) PROVE ListInv'
    OBVIOUS
  <2>1. CASE UNCHANGED TL!vars
    BY <2>1 DEF TL!vars, ListInv, ListTyped, EntryDated, ListDated, TL!Idle
  <2>2. CASE TL!Next
    BY <2>2, ListTick, ListAsk, ListLookup DEF TL!Next
  <2> QED BY <2>1, <2>2
<1>5. TP!Init => PickerInv
  BY DEF TP!Init, PickerInv, TP!PickerConsistent
<1>6. PickerInv /\ [TP!Next]_(TP!vars) => PickerInv'
  <2>1. PickerInv /\ UNCHANGED TP!vars => PickerInv'
    BY DEF TP!vars, PickerInv, TP!PickerConsistent
  <2> QED BY <2>1, PickerStep
<1>7. PriceInv /\ ListInv /\ PickerInv => CachesHonest
  BY PricesAnswered, ListsAnswered DEF PriceAnswers, PickerInv, CachesHonest
<1> QED BY <1>1, <1>2, <1>3, <1>4, <1>5, <1>6, <1>7, PTL DEF PC!Spec, TL!Spec, TP!Spec
=============================================================================
