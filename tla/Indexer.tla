------------------------------- MODULE Indexer -------------------------------
(***************************************************************************)
(* The multi-source indexer (apps/api/src/services/indexer.service.ts):    *)
(* indexChain, which the cron runs over all sources, and indexRange, which *)
(* the queue's backfill messages run over a fixed range, with the D1       *)
(* writes they make (apps/api/src/db/queries.ts).  Ticks and backfills run *)
(* at once, one step per await, and fail anywhere.                         *)
(*                                                                         *)
(* A log is its position in the chain; the chain only grows.  A row of     *)
(* pools is the log that wrote it last; a row of transactions is the swap  *)
(* it stands for and whether it knows its pool.                            *)
(***************************************************************************)
EXTENDS Naturals, Sequences, FiniteSets

CONSTANTS
    Log,          \* the logs in chain order: [block, tx, source, kind, pool]
    Sources,      \* the order in which indexChain takes the sources
    Ticks,        \* bound: cron ticks that run at once
    Backfills,    \* bound: backfill messages that run at once
    Ranges,       \* the ranges backfills may ask for
    Broken,       \* sources whose getLogs fails for good
    BatchSize,
    GenesisBlock, \* of the configuration of the chain; None: not configured
    StartWindow,  \* how far behind the head an indexer without a cursor starts
    MaxHead,      \* bound of the chain
    None

Logs   == DOMAIN Log
Pools  == {Log[l].pool : l \in Logs}
Hashes == {Log[l].tx : l \in Logs}
Source == {Sources[i] : i \in DOMAIN Sources}
Runs   == Ticks \cup Backfills

ASSUME IndexerAssumption ==
    /\ Logs \subseteq Nat /\ Sources \in Seq(Source)
    /\ \A l \in Logs : /\ Log[l].block \in Nat /\ Log[l].source \in Source
                       /\ Log[l].kind \in {"initialize", "swap", "liquidity"}
    /\ \A k, l \in Logs : k <= l => Log[k].block <= Log[l].block
    /\ Ticks \cap Backfills = {} /\ Broken \subseteq Source
    /\ \A r \in Ranges : r[1] \in Nat /\ r[2] \in Nat
    /\ GenesisBlock \in Nat \cup {None}
    /\ BatchSize \in Nat /\ StartWindow \in Nat /\ MaxHead \in Nat
    /\ None \notin Logs /\ None \notin Nat

VARIABLES
    head,    \* the newest block
    cursor,  \* cursor[s]: next_block of source s, or None
    pools,   \* pools[p]: the log that wrote the row of pool p, or None
    swaps,   \* swaps[h]: the rows of transactions with hash h
    liquidity, \* liquidity[l]: the rows of liquidity_events for log l
    run      \* run[w]: how far invocation w got

vars == <<head, cursor, pools, swaps, liquidity, run>>

Idle == [stage |-> "idle", src |-> 0, head |-> 0, from |-> 0, to |-> 0,
         todo |-> {}, known |-> FALSE]
Failed == [Idle EXCEPT !.stage = "failed"]

TypeOK ==
    /\ head \in 0 .. MaxHead
    /\ cursor \in [Source -> 0 .. MaxHead + 1 \cup {None}]
    /\ pools \in [Pools -> Logs \cup {None}]
    /\ swaps \in [Hashes -> Seq([log : Logs, known : BOOLEAN])]
    /\ liquidity \in [Logs -> Nat]
    /\ run \in [Runs -> [stage : {"idle", "failed", "head", "cursor", "fetch", "persist", "swap"},
                         src : 0 .. Len(Sources), head : 0 .. MaxHead,
                         from : Nat, to : Nat, todo : SUBSET Logs, known : BOOLEAN]]

Init ==
    /\ head = 0
    /\ cursor = [s \in Source |-> None]
    /\ pools = [p \in Pools |-> None]
    /\ swaps = [h \in Hashes |-> <<>>]
    /\ liquidity = [l \in Logs |-> 0]
    /\ run = [w \in Runs |-> Idle]

NewBlock ==
    /\ head < MaxHead
    /\ head' = head + 1
    /\ UNCHANGED <<cursor, pools, swaps, liquidity, run>>

-----------------------------------------------------------------------------
src(w) == Sources[run[w].src]

\* indexChain: the next source, or the end of the tick.
NextSource(w) ==
    IF run[w].src < Len(Sources)
    THEN [Idle EXCEPT !.stage = "head", !.src = run[w].src + 1]
    ELSE Idle

StartTick(w) ==
    /\ run[w] \in {Idle, Failed}
    /\ run' = [run EXCEPT ![w] = NextSource(w)]
    /\ UNCHANGED <<head, cursor, pools, swaps, liquidity>>

\* A message of the queue: any source, any range, past or ahead.
StartBackfill(w) ==
    /\ run[w] \in {Idle, Failed}
    /\ \E i \in DOMAIN Sources, r \in Ranges :
          /\ r[1] <= r[2]
          /\ run' = [run EXCEPT ![w] = [Idle EXCEPT !.stage = "fetch", !.src = i,
                                                    !.from = r[1], !.to = r[2]]]
    /\ UNCHANGED <<head, cursor, pools, swaps, liquidity>>

ReadHead(w) ==
    /\ run[w].stage = "head"
    /\ run' = [run EXCEPT ![w].stage = "cursor", ![w].head = head]
    /\ UNCHANGED <<head, cursor, pools, swaps, liquidity>>

\* Mutant of resolveStartBlock: the window may start before the genesis.
StartUnclamped(s, h) == IF cursor[s] # None THEN cursor[s] ELSE h - StartWindow

resolveStartBlock(s, h) ==
    IF cursor[s] # None THEN cursor[s]
    ELSE IF GenesisBlock # None THEN GenesisBlock
    ELSE IF h > StartWindow THEN h - StartWindow ELSE 0

\* Mutant of ReadCursor: a source that is up to date ends the tick.
StopWhenUpToDate(w) ==
    /\ run[w].stage = "cursor"
    /\ LET h    == run[w].head
           from == resolveStartBlock(src(w), h)
           to   == IF from + BatchSize > h THEN h ELSE from + BatchSize
       IN  run' = [run EXCEPT ![w] = IF from > h THEN Idle
                                     ELSE [@ EXCEPT !.stage = "fetch", !.head = 0,
                                                    !.from = from, !.to = to]]
    /\ UNCHANGED <<head, cursor, pools, swaps, liquidity>>

\* The range of the batch; nothing to do when the cursor is past the head.
ReadCursor(w) ==
    /\ run[w].stage = "cursor"
    /\ LET h    == run[w].head
           from == resolveStartBlock(src(w), h)
           to   == IF from + BatchSize > h THEN h ELSE from + BatchSize
       IN  run' = [run EXCEPT ![w] = IF from > h THEN NextSource(w)
                                     ELSE [@ EXCEPT !.stage = "fetch", !.head = 0,
                                                    !.from = from, !.to = to]]
    /\ UNCHANGED <<head, cursor, pools, swaps, liquidity>>

\* getLogs and the block timestamps.
FetchLogs(w) ==
    /\ run[w].stage = "fetch" /\ src(w) \notin Broken
    /\ run' = [run EXCEPT ![w].stage = "persist", ![w].from = 0,
                 ![w].todo = {l \in Logs : /\ Log[l].source = src(w)
                                           /\ Log[l].block \in run[w].from .. run[w].to
                                           /\ Log[l].block <= head}]
    /\ UNCHANGED <<head, cursor, pools, swaps, liquidity>>

-----------------------------------------------------------------------------
IsNext(w, l) == l \in run[w].todo /\ \A k \in run[w].todo : l <= k
Persisted(w, l) == [run EXCEPT ![w].todo = @ \ {l}, ![w].stage = "persist",
                               ![w].known = FALSE]

PersistInitialize(w, l) ==
    /\ Log[l].kind = "initialize"
    /\ pools' = [pools EXCEPT ![Log[l].pool] = l]
    /\ run' = Persisted(w, l)
    /\ UNCHANGED <<swaps, liquidity>>

\* Mutant of PersistLiquidity: no conflict guard.
InsertLiquidityTwice(w, l) ==
    /\ Log[l].kind = "liquidity"
    /\ liquidity' = [liquidity EXCEPT ![l] = @ + 1]
    /\ run' = Persisted(w, l)
    /\ UNCHANGED <<pools, swaps>>

\* insertLiquidityEvent: one row per chain, transaction and log index.
PersistLiquidity(w, l) ==
    /\ Log[l].kind = "liquidity"
    /\ liquidity' = [liquidity EXCEPT ![l] = 1]
    /\ run' = Persisted(w, l)
    /\ UNCHANGED <<pools, swaps>>

\* A swap first rewrites the row of its pool, if there is one ...
UpdatePool(w, l) ==
    /\ Log[l].kind = "swap"
    /\ LET known == pools[Log[l].pool] # None
       IN  /\ pools' = IF known THEN [pools EXCEPT ![Log[l].pool] = l] ELSE pools
           /\ run' = [run EXCEPT ![w].stage = "swap", ![w].known = known]
    /\ UNCHANGED <<swaps, liquidity>>

PersistLog(w) ==
    /\ run[w].stage = "persist"
    /\ \E l \in run[w].todo :
          /\ IsNext(w, l)
          /\ PersistInitialize(w, l) \/ PersistLiquidity(w, l) \/ UpdatePool(w, l)
    /\ UNCHANGED <<head, cursor>>

\* Mutant of recordSwap: the pool is referenced whether it has a row or not.
ReferenceAnyPool(l, known) ==
    IF swaps[Log[l].tx] = <<>> THEN <<[log |-> l, known |-> TRUE]>> ELSE swaps[Log[l].tx]

\* ... then is inserted, unless its transaction has a row already.
recordSwap(l, known) ==
    IF swaps[Log[l].tx] = <<>> THEN <<[log |-> l, known |-> known]>> ELSE swaps[Log[l].tx]

RecordSwap(w) ==
    /\ run[w].stage = "swap"
    /\ \E l \in run[w].todo :
          /\ IsNext(w, l)
          /\ swaps' = [swaps EXCEPT ![Log[l].tx] = recordSwap(l, run[w].known)]
          /\ run' = Persisted(w, l)
    /\ UNCHANGED <<head, cursor, pools, liquidity>>

\* The cursor moves last, overwriting what another tick has saved meanwhile.
SaveCursor(w) ==
    /\ run[w].stage = "persist" /\ run[w].todo = {} /\ w \in Ticks
    /\ cursor' = [cursor EXCEPT ![src(w)] = run[w].to + 1]
    /\ run' = [run EXCEPT ![w] = NextSource(w)]
    /\ UNCHANGED <<head, pools, swaps, liquidity>>

\* Mutant of FinishBackfill: a backfill moves the cursor as well.
BackfillSavesCursor(w) ==
    /\ run[w].stage = "persist" /\ run[w].todo = {} /\ w \in Backfills
    /\ cursor' = [cursor EXCEPT ![src(w)] = run[w].to + 1]
    /\ run' = [run EXCEPT ![w] = Idle]
    /\ UNCHANGED <<head, pools, swaps, liquidity>>

FinishBackfill(w) ==
    /\ run[w].stage = "persist" /\ run[w].todo = {} /\ w \in Backfills
    /\ run' = [run EXCEPT ![w] = Idle]
    /\ UNCHANGED <<head, cursor, pools, swaps, liquidity>>

\* RPC or D1 fails, or the invocation dies: the rest of the tick, its later
\* sources included, is given up, and a backfill is acknowledged all the same.
Fail(w) ==
    /\ run[w] \notin {Idle, Failed}
    /\ run' = [run EXCEPT ![w] = Failed]
    /\ UNCHANGED <<head, cursor, pools, swaps, liquidity>>

indexBatch(w) ==
    \/ ReadHead(w) \/ ReadCursor(w) \/ FetchLogs(w) \/ PersistLog(w)
    \/ RecordSwap(w) \/ SaveCursor(w)

Next ==
    \/ NewBlock
    \/ \E w \in Ticks : StartTick(w) \/ indexBatch(w)
    \/ \E w \in Backfills : \/ StartBackfill(w) \/ FetchLogs(w) \/ PersistLog(w)
                            \/ RecordSwap(w) \/ FinishBackfill(w)
    \/ \E w \in Runs : Fail(w)

\* The cron fires every five minutes; a call that is made again and again on a
\* source that works does not fail for ever.
Fairness ==
    /\ \A w \in Ticks : WF_vars(StartTick(w) \/ indexBatch(w))
    /\ <>[][\A w \in Ticks : Fail(w) => src(w) \in Broken]_vars
    /\ \A w \in Ticks : WF_vars(Fail(w) /\ src(w) \in Broken)

Spec == Init /\ [][Next]_vars /\ Fairness

-----------------------------------------------------------------------------
\* What D1 holds of a log: its pool, its transaction or itself has a row.
Indexed(l) ==
    CASE Log[l].kind = "initialize" -> pools[Log[l].pool] # None
      [] Log[l].kind = "swap"       -> swaps[Log[l].tx] # <<>>
      [] Log[l].kind = "liquidity"  -> liquidity[l] > 0

\* "so a batch that overlaps a previously indexed range never duplicates rows".
NeverDuplicates ==
    /\ \A h \in Hashes : Len(swaps[h]) <= 1
    /\ \A l \in Logs : liquidity[l] <= 1

\* "a persist failure leaves the range to be retried instead of silently
\* skipped", and a backfill "never advances the global cursor": everything
\* below a cursor is indexed.
NoGapBelowCursor ==
    \A l \in Logs : LET c == cursor[Log[l].source]
                    IN  c # None /\ Log[l].block < c => Indexed(l)

\* "pool_id may only reference a persisted pool": the foreign key.
SwapPoolPersisted ==
    \A h \in Hashes : \A i \in DOMAIN swaps[h] :
        swaps[h][i].known => pools[Log[swaps[h][i].log].pool] # None

\* The rows of D1: well typed, never two for one, and referring to what is there.
RowsSound == TypeOK /\ NeverDuplicates /\ SwapPoolPersisted

\* "advances every configured source from its persisted cursor toward the chain
\* head": the logs of a source that works are indexed sometime.
WorkingSourcesIndexed ==
    \A l \in Logs : Log[l].source \notin Broken /\ Log[l].block <= head ~> Indexed(l)
=============================================================================
