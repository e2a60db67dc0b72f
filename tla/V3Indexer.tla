------------------------------ MODULE V3Indexer ------------------------------
(***************************************************************************)
(* The v3 liquidity indexer: runV3LiquidityIndexer of the cron             *)
(* (apps/api/src/workers/cron-handler.ts), its range arithmetic            *)
(* (workers/v3-indexer-cursor.ts) and V3LiquidityIndexer.indexRange        *)
(* (services/v3-liquidity-indexer.service.ts).  A tick reads the chain's   *)
(* head, then the cursor, then the logs of a range, inserts them one by    *)
(* one and saves the cursor; ticks overlap and die anywhere.               *)
(*                                                                         *)
(* The chain may replace its newest blocks, and an RPC endpoint may answer *)
(* from a node that lags behind.  Every version of a block holds one event *)
(* of the position manager.                                                *)
(***************************************************************************)
EXTENDS Naturals, FiniteSets

CONSTANTS
    Ticks,          \* bound: ticks that run at once
    MaxHead,        \* bound of the chain
    Versions,       \* bound: versions of a block
    Confirmations,  \* V3_INDEXER_CONFIRMATIONS
    MaxRange,       \* V3_INDEXER_MAX_RANGE
    DeploymentBlock,
    ReorgDepth,     \* a reorganisation replaces at most so many blocks
    MaxLag,         \* a node lags by at most so many blocks
    NoCursor

ASSUME V3Assumption ==
    /\ MaxHead \in Nat /\ DeploymentBlock \in Nat
    /\ Confirmations \in Nat /\ MaxRange \in Nat \ {0}
    /\ ReorgDepth \in Nat /\ ReorgDepth <= Confirmations
    /\ MaxLag \in Nat /\ MaxLag <= Confirmations
    /\ NoCursor \notin Nat

VARIABLES
    head,     \* the newest block
    version,  \* version[b]: which version of block b is canonical
    cursor,   \* next_block of indexer_cursors, or NoCursor
    events,   \* rows of liquidity_events, each the block version it is from
    tick      \* tick[t]: how far tick t got

vars == <<head, version, cursor, events, tick>>

Blocks == 0 .. MaxHead
Row    == [block : Blocks, version : Versions]
At(stage, latest) ==
    [stage |-> stage, latest |-> latest, from |-> 0, to |-> 0, todo |-> {}]
Idle   == At("idle", 0)
Failed == At("failed", 0)

TypeOK ==
    /\ head \in Blocks
    /\ version \in [Blocks -> Versions]
    /\ cursor \in Nat \cup {NoCursor}
    /\ events \subseteq Row
    /\ tick \in [Ticks -> [stage : {"idle", "failed", "head", "range", "insert"},
                           latest : Nat, from : Nat, to : Nat, todo : SUBSET Row]]

Init ==
    /\ head = 0
    /\ \E v \in Versions : version = [b \in Blocks |-> v]
    /\ cursor = NoCursor
    /\ events = {}
    /\ tick = [t \in Ticks |-> Idle]

-----------------------------------------------------------------------------
NewBlock ==
    /\ head < MaxHead
    /\ head' = head + 1
    /\ UNCHANGED <<version, cursor, events, tick>>

\* Another branch wins: the newest blocks are replaced, never the genesis.
Reorg ==
    /\ \E v \in [Blocks -> Versions] :
          /\ \A b \in Blocks :
                b = 0 \/ b + ReorgDepth <= head \/ b > head => v[b] = version[b]
          /\ version' = v
    /\ UNCHANGED <<head, cursor, events, tick>>

\* The node that answers has every block up to head - MaxLag.
Seen(h) == h <= head /\ head <= h + MaxLag

\* Mutant of finalizedV3Head: one block less is waited for.
EarlyHead(latest) == IF latest > Confirmations THEN latest - Confirmations + 1 ELSE 0

finalizedV3Head(latest) ==
    IF latest > Confirmations THEN latest - Confirmations ELSE 0

ReadHead(t) ==
    /\ tick[t].stage \in {"idle", "failed"}
    /\ \E h \in Blocks :
          /\ Seen(h)
          /\ tick' = [tick EXCEPT ![t] = At("head", finalizedV3Head(h))]
    /\ UNCHANGED <<head, version, cursor, events>>

FromBlock == IF cursor = NoCursor THEN DeploymentBlock ELSE cursor

ToBlock(from, latest) ==
    IF from + MaxRange - 1 < latest THEN from + MaxRange - 1 ELSE latest

\* nextV3IndexerRange; null when the cursor is ahead of the finalized head.
NextRange(t) ==
    /\ tick[t].stage = "head"
    /\ LET latest == tick[t].latest
       IN  tick' = [tick EXCEPT ![t] =
                      IF FromBlock > latest THEN Idle
                      ELSE [@ EXCEPT !.stage = "range", !.from = FromBlock,
                                     !.to = ToBlock(FromBlock, latest)]]
    /\ UNCHANGED <<head, version, cursor, events>>

\* getLogs of the whole range, as some node has it.
ReadLogs(t) ==
    /\ tick[t].stage = "range"
    /\ \E h \in Blocks :
          /\ Seen(h)
          /\ tick' = [tick EXCEPT ![t].stage = "insert",
                        ![t].todo = {[block |-> b, version |-> version[b]] :
                                       b \in {c \in Blocks : c \in tick[t].from .. tick[t].to
                                                             /\ c <= h}}]
    /\ UNCHANGED <<head, version, cursor, events>>

\* INSERT ... ON CONFLICT DO NOTHING, in the order of the logs.
InsertEvent(t) ==
    /\ tick[t].stage = "insert"
    /\ \E r \in tick[t].todo :
          /\ \A q \in tick[t].todo : r.block <= q.block
          /\ events' = events \cup {r}
          /\ tick' = [tick EXCEPT ![t].todo = @ \ {r}]
    /\ UNCHANGED <<head, version, cursor>>

\* Mutants of SaveCursor: the cursor is saved before the events are in; it
\* stays at the last block of the range.
SaveCursorEarly(t) ==
    /\ tick[t].stage = "insert"
    /\ cursor' = tick[t].to + 1
    /\ tick' = [tick EXCEPT ![t] = IF @.todo = {} THEN Idle ELSE @]
    /\ UNCHANGED <<head, version, events>>
SaveCursorAtTo(t) ==
    /\ tick[t].stage = "insert" /\ tick[t].todo = {}
    /\ cursor' = tick[t].to
    /\ tick' = [tick EXCEPT ![t] = Idle]
    /\ UNCHANGED <<head, version, events>>

\* setIndexerCursor overwrites whatever another tick has saved meanwhile.
SaveCursor(t) ==
    /\ tick[t].stage = "insert" /\ tick[t].todo = {}
    /\ cursor' = tick[t].to + 1
    /\ tick' = [tick EXCEPT ![t] = Idle]
    /\ UNCHANGED <<head, version, events>>

\* RPC or D1 fails, or the invocation dies.
FailTick(t) ==
    /\ tick[t].stage \notin {"idle", "failed"}
    /\ tick' = [tick EXCEPT ![t] = Failed]
    /\ UNCHANGED <<head, version, cursor, events>>

Step(t) ==
    ReadHead(t) \/ NextRange(t) \/ ReadLogs(t) \/ InsertEvent(t) \/ SaveCursor(t)

Next ==
    \/ NewBlock \/ Reorg
    \/ \E t \in Ticks : Step(t) \/ FailTick(t)

\* The cron fires every five minutes and an invocation runs on; failures of
\* RPC and D1 come to an end.
Fairness ==
    /\ \A t \in Ticks : WF_vars(Step(t))
    /\ <>[][\A t \in Ticks : ~ FailTick(t)]_vars

Spec == Init /\ [][Next]_vars /\ Fairness

-----------------------------------------------------------------------------
Canonical(b) == [block |-> b, version |-> version[b]]

\* A block that no reorganisation can replace any more.
Final(b) == b = 0 \/ b + Confirmations <= head

\* Only events of the chain as it stands are in the table: no reorganisation
\* within the confirmations leaves the event of a block that is gone.
OnlyCanonicalEvents == \A r \in events : r = Canonical(r.block)

\* Below the cursor nothing is missing, however ticks overlap, set the cursor
\* back, die, or are answered by a lagging node.
NoGapBelowCursor ==
    cursor # NoCursor =>
        \A b \in Blocks : DeploymentBlock <= b /\ b < cursor => Canonical(b) \in events
=============================================================================
