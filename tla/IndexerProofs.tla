--------------------------- MODULE IndexerProofs ---------------------------
(***************************************************************************)
(* Proofs about Indexer for every chain, set of sources, number of         *)
(* overlapping ticks and backfills, and every bound.                       *)
(***************************************************************************)
EXTENDS Indexer, SequenceTheorems, TLAPS

Stages   == {"idle", "failed", "head", "cursor", "fetch", "persist", "swap"}
RunState == [stage : Stages, src : 0 .. Len(Sources), head : 0 .. MaxHead,
             from : Nat, to : Nat, todo : SUBSET Logs, known : BOOLEAN]

\* What an invocation in state r remembers is true of the chain (up to block
\* hd) and of the rows of pools: it never asked beyond the head, the log it
\* has begun to persist is a swap, and a pool it saw persisted still is.
Sound(w, r, hd, pl) ==
    /\ r.stage \notin {"idle", "failed"} => r.src \in DOMAIN Sources
    /\ w \in Ticks => r.to <= hd /\ r.head <= hd
    /\ r.stage = "swap" =>
          \A l \in r.todo :
             (\A k \in r.todo : l <= k) =>
                Log[l].kind = "swap" /\ (r.known => pl[Log[l].pool] # None)

IInv == RowsSound /\ \A w \in Runs : Sound(w, run[w], head, pools)

\* The states an invocation is in between two jobs.
LEMMA RestStates ==
    /\ Idle \in RunState /\ Failed \in RunState
    /\ \A w \in Runs, hd \in Nat : \A pl : Sound(w, Idle, hd, pl) /\ Sound(w, Failed, hd, pl)
<1> USE IndexerAssumption
<1>1. Len(Sources) \in Nat
    OBVIOUS
<1>2. Idle \in RunState
    BY <1>1 DEF Idle, RunState, Stages
<1>3. Failed \in RunState
  <2>1. "failed" \in Stages
    BY DEF Stages
  <2> QED BY <1>2, <2>1 DEF Failed, RunState
<1>4. \A w \in Runs, hd \in Nat : \A pl : Sound(w, Idle, hd, pl) /\ Sound(w, Failed, hd, pl)
    BY DEF Failed, Idle, Sound
<1> QED BY <1>2, <1>3, <1>4

\* A tick that turns to its next source starts afresh, or is over.
LEMMA NextSourceSound ==
    ASSUME TypeOK, NEW w \in Runs
    PROVE  NextSource(w) \in RunState /\ Sound(w, NextSource(w), head, pools)
<1>1. /\ run[w].src \in 0 .. Len(Sources) /\ Len(Sources) \in Nat /\ head \in Nat
      /\ DOMAIN Sources = 1 .. Len(Sources)
    BY IndexerAssumption DEF TypeOK
<1>2. CASE run[w].src < Len(Sources)
  <2>1. NextSource(w) = [stage |-> "head", src |-> run[w].src + 1, head |-> 0, from |-> 0,
                         to |-> 0, todo |-> {}, known |-> FALSE]
    BY <1>2 DEF NextSource, Idle
  <2>2. NextSource(w) \in RunState
    BY <1>1, <1>2, <2>1, IndexerAssumption DEF RunState, Stages
  <2>3. Sound(w, NextSource(w), head, pools)
    BY <1>1, <1>2, <2>1 DEF Sound
  <2> QED BY <2>2, <2>3
<1>3. CASE ~ (run[w].src < Len(Sources))
    BY <1>1, <1>3, RestStates DEF NextSource
<1> QED BY <1>2, <1>3

\* The chain grows and a pool keeps its row: what was sound stays sound.
LEMMA SoundLater ==
    ASSUME NEW w \in Runs, NEW r \in RunState, NEW hd \in Nat, NEW hd2 \in Nat,
           NEW pl, NEW pl2, Sound(w, r, hd, pl), hd <= hd2,
           \A p \in Pools : pl[p] # None => pl2[p] # None
    PROVE  Sound(w, r, hd2, pl2)
<1>1. \A l \in r.todo : Log[l].pool \in Pools
    BY DEF RunState, Pools
<1> QED BY <1>1 DEF Sound, RunState

\* A step of one invocation that leaves the rows sound preserves the invariant
\* when the state it moves to is sound.
LEMMA StepInv ==
    ASSUME IInv, NEW w \in Runs, NEW r \in RunState, run' = [run EXCEPT ![w] = r],
           head' = head, cursor' \in [Source -> 0 .. MaxHead + 1 \cup {None}],
           pools' \in [Pools -> Logs \cup {None}],
           swaps' \in [Hashes -> Seq([log : Logs, known : BOOLEAN])],
           liquidity' \in [Logs -> Nat], NeverDuplicates', SwapPoolPersisted',
           \A p \in Pools : pools[p] # None => pools'[p] # None,
           Sound(w, r, head, pools')
    PROVE  IInv'
<1>1. TypeOK'
    BY DEF IInv, RowsSound, TypeOK, RunState, Stages
<1>2. ASSUME NEW v \in Runs
      PROVE  Sound(v, run[v]', head', pools')
  <2>1. CASE v = w
    BY <2>1 DEF IInv, RowsSound, TypeOK
  <2>2. CASE v # w
    <3>1. run[v]' = run[v] /\ run[v] \in RunState /\ head \in Nat
      BY <2>2, IndexerAssumption DEF IInv, RowsSound, TypeOK, RunState, Stages
    <3>2. Sound(v, run[v], head, pools)
      BY DEF IInv
    <3>3. Sound(v, run[v], head, pools')
      BY <3>1, <3>2, SoundLater
    <3> QED BY <3>1, <3>3
  <2> QED BY <2>1, <2>2
<1> QED BY <1>1, <1>2 DEF IInv, RowsSound

\* A step that only moves one invocation on.
LEMMA QuietStep ==
    ASSUME IInv, NEW w \in Runs, NEW r \in RunState, run' = [run EXCEPT ![w] = r],
           UNCHANGED <<head, cursor, pools, swaps, liquidity>>, Sound(w, r, head, pools)
    PROVE  IInv'
<1>1. NeverDuplicates' /\ SwapPoolPersisted'
    BY DEF IInv, RowsSound, NeverDuplicates, SwapPoolPersisted
<1>2. TypeOK
    BY DEF IInv, RowsSound
<1> QED BY <1>1, <1>2, StepInv DEF TypeOK

\* What a step of one invocation may take for granted.
LEMMA Facts ==
    ASSUME IInv, NEW w \in Runs
    PROVE  /\ TypeOK /\ NeverDuplicates /\ SwapPoolPersisted
           /\ run \in [Runs -> RunState] /\ run[w] \in RunState
           /\ head \in 0 .. MaxHead /\ MaxHead \in Nat /\ head \in Nat
           /\ Sound(w, run[w], head, pools)
           /\ DOMAIN Sources = 1 .. Len(Sources) /\ Len(Sources) \in Nat
           /\ None \notin Logs /\ Logs \subseteq Nat
<1>1. TypeOK /\ NeverDuplicates /\ SwapPoolPersisted /\ Sound(w, run[w], head, pools)
    BY DEF IInv, RowsSound
<1>2. run \in [Runs -> RunState] /\ head \in 0 .. MaxHead
    BY <1>1 DEF TypeOK, RunState, Stages
<1>3. /\ MaxHead \in Nat /\ None \notin Logs /\ Logs \subseteq Nat
      /\ DOMAIN Sources = 1 .. Len(Sources) /\ Len(Sources) \in Nat
    BY IndexerAssumption
<1> QED BY <1>1, <1>2, <1>3

\* NewBlock only moves the head.
LEMMA NewBlockInv == IInv /\ NewBlock => IInv'
<1> SUFFICES ASSUME IInv, NewBlock PROVE IInv'
    OBVIOUS
<1>1. head \in Nat /\ head' \in Nat /\ head <= head' /\ head' \in 0 .. MaxHead
    BY IndexerAssumption DEF IInv, RowsSound, TypeOK, NewBlock
<1>2. TypeOK' /\ NeverDuplicates' /\ SwapPoolPersisted'
    BY <1>1 DEF IInv, RowsSound, TypeOK, NewBlock, NeverDuplicates, SwapPoolPersisted
<1>3. ASSUME NEW w \in Runs
      PROVE  Sound(w, run[w]', head', pools')
  <2>1. run[w] \in RunState /\ Sound(w, run[w], head, pools)
    BY Facts
  <2>2. Sound(w, run[w], head', pools')
    BY <1>1, <2>1, SoundLater DEF NewBlock
  <2> QED BY <2>2 DEF NewBlock
<1> QED BY <1>2, <1>3 DEF IInv, RowsSound

\* A tick begins with the first source.
LEMMA StartTickInv ==
    ASSUME IInv, NEW w \in Ticks, StartTick(w) PROVE IInv'
<1>1. w \in Runs /\ TypeOK
    BY DEF Runs, IInv, RowsSound
<1>2. NextSource(w) \in RunState /\ Sound(w, NextSource(w), head, pools)
    BY <1>1, NextSourceSound
<1> QED BY <1>1, <1>2, QuietStep DEF StartTick

\* A backfill takes any range; it is no tick, so nothing binds it to the head.
LEMMA StartBackfillInv ==
    ASSUME IInv, NEW w \in Backfills, StartBackfill(w) PROVE IInv'
<1>1. w \in Runs /\ w \notin Ticks
    BY IndexerAssumption DEF Runs
<1>2. PICK i \in DOMAIN Sources, r \in Ranges :
         run' = [run EXCEPT ![w] = [Idle EXCEPT !.stage = "fetch", !.src = i,
                                                !.from = r[1], !.to = r[2]]]
    BY DEF StartBackfill
<1> DEFINE s == [Idle EXCEPT !.stage = "fetch", !.src = i, !.from = r[1], !.to = r[2]]
<1>3. s \in RunState
  <2>1. "fetch" \in Stages /\ i \in 0 .. Len(Sources) /\ r[1] \in Nat /\ r[2] \in Nat
    BY <1>1, Facts, IndexerAssumption DEF Stages
  <2> QED BY <2>1, RestStates DEF RunState
<1>4. s.stage = "fetch" /\ s.src = i
    BY RestStates DEF RunState
<1>5. Sound(w, s, head, pools)
    BY <1>1, <1>4 DEF Sound
<1>6. run' = [run EXCEPT ![w] = s] /\ UNCHANGED <<head, cursor, pools, swaps, liquidity>>
    BY <1>2 DEF StartBackfill
<1> HIDE DEF s
<1> QED BY <1>1, <1>3, <1>5, <1>6, QuietStep

\* The head a tick reads is one the chain has reached.
LEMMA ReadHeadInv ==
    ASSUME IInv, NEW w \in Ticks, ReadHead(w) PROVE IInv'
<1> DEFINE r == [run[w] EXCEPT !.stage = "cursor", !.head = head]
<1>1. w \in Runs
    BY DEF Runs
<1>2. run' = [run EXCEPT ![w] = r]
    BY <1>1, Facts DEF ReadHead, RunState
<1>3. r \in RunState
  <2>1. "cursor" \in Stages
    BY DEF Stages
  <2> QED BY <1>1, <2>1, Facts DEF RunState
<1>4. r.stage = "cursor" /\ r.head = head /\ r.src = run[w].src /\ r.to = run[w].to
    BY <1>1, Facts DEF RunState
<1>5. Sound(w, r, head, pools)
    BY <1>1, <1>4, Facts DEF Sound, ReadHead
<1>6. UNCHANGED <<head, cursor, pools, swaps, liquidity>>
    BY DEF ReadHead
<1> HIDE DEF r
<1> QED BY <1>1, <1>2, <1>3, <1>5, <1>6, QuietStep

\* The range of a tick ends at the head or before it.
LEMMA ReadCursorInv ==
    ASSUME IInv, NEW w \in Ticks, ReadCursor(w) PROVE IInv'
<1> DEFINE h    == run[w].head
           from == resolveStartBlock(src(w), h)
           to   == IF from + BatchSize > h THEN h ELSE from + BatchSize
           r    == [run[w] EXCEPT !.stage = "fetch", !.head = 0, !.from = from, !.to = to]
<1>1. w \in Runs
    BY DEF Runs
<1>2. CASE from > h
  <2>1. run' = [run EXCEPT ![w] = NextSource(w)]
    BY <1>2 DEF ReadCursor
  <2> QED BY <1>1, <2>1, Facts, NextSourceSound, QuietStep DEF ReadCursor
<1>3. CASE ~ (from > h)
  <2>1. run' = [run EXCEPT ![w] = r]
    BY <1>3 DEF ReadCursor
  <2>2. h \in Nat /\ h <= head
    BY <1>1, Facts DEF RunState, Sound
  <2>3. src(w) \in Source
    BY <1>1, Facts DEF src, Source, Sound, ReadCursor
  <2>4. from \in Nat
    BY <1>1, <2>2, <2>3, Facts, IndexerAssumption DEF TypeOK, resolveStartBlock
  <2>5. to \in Nat /\ to <= h
    BY <1>3, <2>2, <2>4, IndexerAssumption
  <2>6. r \in RunState
    <3>1. "fetch" \in Stages /\ 0 \in 0 .. MaxHead
      BY <1>1, Facts DEF Stages
    <3> HIDE DEF from, to
    <3> QED BY <1>1, <2>4, <2>5, <3>1, Facts DEF RunState
  <2>7. r.stage = "fetch" /\ r.head = 0 /\ r.src = run[w].src /\ r.to = to
    BY <1>1, Facts DEF RunState
  <2>8. Sound(w, r, head, pools)
    <3> HIDE DEF r, to, h
    <3> QED BY <1>1, <2>2, <2>5, <2>7, Facts DEF Sound, ReadCursor
  <2> HIDE DEF r
  <2> QED BY <1>1, <2>1, <2>6, <2>8, QuietStep DEF ReadCursor
<1> QED BY <1>2, <1>3

\* getLogs sees only what the head a node knows has reached.
LEMMA FetchLogsInv ==
    ASSUME IInv, NEW w \in Runs, FetchLogs(w) PROVE IInv'
<1> DEFINE seen == {l \in Logs : /\ Log[l].source = src(w)
                                 /\ Log[l].block \in run[w].from .. run[w].to
                                 /\ Log[l].block <= head}
           r    == [run[w] EXCEPT !.stage = "persist", !.from = 0, !.todo = seen]
<1>1. run' = [run EXCEPT ![w] = r] /\ UNCHANGED <<head, cursor, pools, swaps, liquidity>>
    BY Facts DEF FetchLogs, RunState
<1>2. r \in RunState
  <2>1. "persist" \in Stages /\ seen \subseteq Logs
    BY DEF Stages
  <2> HIDE DEF seen
  <2> QED BY <2>1, Facts DEF RunState
<1>3. r.stage = "persist" /\ r.src = run[w].src /\ r.head = run[w].head /\ r.to = run[w].to
    BY Facts DEF RunState
<1> HIDE DEF r, seen
<1>4. Sound(w, r, head, pools)
    BY <1>3, Facts DEF Sound, FetchLogs
<1> QED BY <1>1, <1>2, <1>4, QuietStep

\* What Persisted does to the invocation: one log less to persist.
LEMMA PersistedState ==
    ASSUME IInv, NEW w \in Runs, NEW l, run[w].stage \in {"persist", "swap"},
           run' = Persisted(w, l)
    PROVE  \E r \in RunState :
              /\ run' = [run EXCEPT ![w] = r]
              /\ r.stage = "persist" /\ r.todo = run[w].todo \ {l}
              /\ r.src = run[w].src /\ r.to = run[w].to /\ r.head = run[w].head
              /\ \A pl : Sound(w, r, head, pl)
<1> DEFINE r == [run[w] EXCEPT !.todo = run[w].todo \ {l}, !.stage = "persist", !.known = FALSE]
<1>1. run' = [run EXCEPT ![w] = r]
    BY Facts DEF Persisted, RunState
<1>2. r \in RunState
  <2>1. "persist" \in Stages /\ run[w].todo \ {l} \subseteq Logs
    BY Facts DEF Stages, RunState
  <2> QED BY <2>1, Facts DEF RunState
<1>3. /\ r.stage = "persist" /\ r.todo = run[w].todo \ {l} /\ r.src = run[w].src
      /\ r.to = run[w].to /\ r.head = run[w].head
    BY Facts DEF RunState
<1> HIDE DEF r
<1>4. \A pl : Sound(w, r, head, pl)
    BY <1>3, Facts DEF Sound
<1> QED BY <1>1, <1>2, <1>3, <1>4

\* A pool that gets a row, or a new one, keeps every reference to it valid.
LEMMA PoolWritten ==
    ASSUME IInv, NEW l \in Logs, pools' = [pools EXCEPT ![Log[l].pool] = l],
           UNCHANGED swaps
    PROVE  /\ pools' \in [Pools -> Logs \cup {None}] /\ SwapPoolPersisted'
           /\ \A p \in Pools : pools[p] # None => pools'[p] # None
           /\ pools'[Log[l].pool] # None
<1>1. Log[l].pool \in Pools /\ None \notin Logs /\ pools \in [Pools -> Logs \cup {None}]
    BY IndexerAssumption DEF IInv, RowsSound, TypeOK, Pools
<1>2. /\ pools' \in [Pools -> Logs \cup {None}] /\ pools'[Log[l].pool] # None
      /\ \A p \in Pools : pools[p] # None => pools'[p] # None
    BY <1>1
<1>3. \A h \in Hashes : \A i \in DOMAIN swaps[h] : Log[swaps[h][i].log].pool \in Pools
  <2> SUFFICES ASSUME NEW h \in Hashes, NEW i \in DOMAIN swaps[h]
               PROVE  Log[swaps[h][i].log].pool \in Pools
    OBVIOUS
  <2> DEFINE Rows == [log : Logs, known : BOOLEAN]
  <2>1. swaps[h] \in Seq(Rows)
    BY DEF IInv, RowsSound, TypeOK
  <2>2. swaps[h][i] \in Rows
    <3> HIDE DEF Rows
    <3> QED BY <2>1, ElementOfSeq
  <2>3. swaps[h][i].log \in Logs
    BY <2>2
  <2> QED BY <2>3 DEF Pools
<1>4. SwapPoolPersisted'
    BY <1>2, <1>3 DEF IInv, RowsSound, SwapPoolPersisted
<1> QED BY <1>2, <1>4

\* The three kinds of log, one statement each.
LEMMA PersistInitializeInv ==
    ASSUME IInv, NEW w \in Runs, NEW l \in run[w].todo, run[w].stage = "persist",
           PersistInitialize(w, l), UNCHANGED <<head, cursor>>
    PROVE  IInv'
<1>1. l \in Logs
    BY Facts DEF RunState
<1>2. /\ pools' \in [Pools -> Logs \cup {None}] /\ SwapPoolPersisted'
      /\ \A p \in Pools : pools[p] # None => pools'[p] # None
    BY <1>1, PoolWritten DEF PersistInitialize
<1>3. PICK r \in RunState : run' = [run EXCEPT ![w] = r] /\ \A pl : Sound(w, r, head, pl)
    BY PersistedState DEF PersistInitialize
<1>4. /\ cursor' \in [Source -> 0 .. MaxHead + 1 \cup {None}]
      /\ swaps' \in [Hashes -> Seq([log : Logs, known : BOOLEAN])]
      /\ liquidity' \in [Logs -> Nat] /\ NeverDuplicates'
    BY DEF IInv, RowsSound, TypeOK, NeverDuplicates, PersistInitialize
<1> QED BY <1>2, <1>3, <1>4, StepInv

\* insertLiquidityEvent: one row, whatever was there.
LEMMA PersistLiquidityInv ==
    ASSUME IInv, NEW w \in Runs, NEW l \in run[w].todo, run[w].stage = "persist",
           PersistLiquidity(w, l), UNCHANGED <<head, cursor>>
    PROVE  IInv'
<1>1. l \in Logs
    BY Facts DEF RunState
<1>2. PICK r \in RunState : run' = [run EXCEPT ![w] = r] /\ \A pl : Sound(w, r, head, pl)
    BY PersistedState DEF PersistLiquidity
<1>3. liquidity' \in [Logs -> Nat] /\ NeverDuplicates'
    BY <1>1 DEF IInv, RowsSound, TypeOK, NeverDuplicates, PersistLiquidity
<1>4. /\ cursor' \in [Source -> 0 .. MaxHead + 1 \cup {None}]
      /\ pools' \in [Pools -> Logs \cup {None}] /\ pools' = pools
      /\ swaps' \in [Hashes -> Seq([log : Logs, known : BOOLEAN])] /\ SwapPoolPersisted'
    BY DEF IInv, RowsSound, TypeOK, SwapPoolPersisted, PersistLiquidity
<1> QED BY <1>2, <1>3, <1>4, StepInv

\* The row of the pool is rewritten, and whether there was one remembered.
LEMMA UpdatePoolInv ==
    ASSUME IInv, NEW w \in Runs, NEW l \in run[w].todo, run[w].stage = "persist",
           IsNext(w, l), UpdatePool(w, l), UNCHANGED <<head, cursor>>
    PROVE  IInv'
<1> DEFINE known == pools[Log[l].pool] # None
           r     == [run[w] EXCEPT !.stage = "swap", !.known = known]
<1>1. l \in Logs /\ Log[l].pool \in Pools /\ Log[l].kind = "swap"
    BY Facts DEF RunState, Pools, UpdatePool
<1>2. /\ pools' \in [Pools -> Logs \cup {None}] /\ SwapPoolPersisted'
      /\ \A p \in Pools : pools[p] # None => pools'[p] # None
      /\ known => pools'[Log[l].pool] # None
  <2>1. CASE known
    BY <1>1, <2>1, PoolWritten DEF UpdatePool
  <2>2. CASE ~ known
    BY <2>2 DEF UpdatePool, IInv, RowsSound, TypeOK, SwapPoolPersisted
  <2> QED BY <2>1, <2>2
<1>3. run' = [run EXCEPT ![w] = r]
    BY Facts DEF UpdatePool, RunState
<1>4. r \in RunState
  <2>1. "swap" \in Stages /\ known \in BOOLEAN
    BY DEF Stages
  <2> HIDE DEF known
  <2> QED BY <2>1, Facts DEF RunState
<1>5. /\ r.stage = "swap" /\ r.known = known /\ r.src = run[w].src /\ r.to = run[w].to
      /\ r.head = run[w].head /\ r.todo = run[w].todo
    BY Facts DEF RunState
<1> HIDE DEF r, known
<1>6. \A m \in r.todo : (\A k \in r.todo : m <= k) => m = l
  <2>1. r.todo \subseteq Nat /\ l \in Nat
    BY <1>1, <1>5, Facts DEF RunState
  <2> QED BY <1>5, <2>1 DEF IsNext
<1>7. Sound(w, r, head, pools')
    BY <1>1, <1>2, <1>5, <1>6, Facts DEF Sound
<1>8. /\ cursor' \in [Source -> 0 .. MaxHead + 1 \cup {None}]
      /\ swaps' \in [Hashes -> Seq([log : Logs, known : BOOLEAN])]
      /\ liquidity' \in [Logs -> Nat] /\ NeverDuplicates'
    BY DEF IInv, RowsSound, TypeOK, NeverDuplicates, UpdatePool
<1> QED BY <1>2, <1>3, <1>4, <1>7, <1>8, StepInv

\* recordSwap keeps the row of a transaction that has one, and references the
\* pool only when UpdatePool has seen it.
LEMMA RecordSwapInv ==
    ASSUME IInv, NEW w \in Runs, RecordSwap(w) PROVE IInv'
<1>1. PICK l \in run[w].todo :
         /\ IsNext(w, l)
         /\ swaps' = [swaps EXCEPT ![Log[l].tx] = recordSwap(l, run[w].known)]
         /\ run' = Persisted(w, l)
    BY DEF RecordSwap
<1>2. /\ l \in Logs /\ Log[l].tx \in Hashes /\ run[w].known \in BOOLEAN
      /\ run[w].known => pools[Log[l].pool] # None
    BY <1>1, Facts DEF RunState, Hashes, IsNext, Sound, RecordSwap
<1>3. PICK r \in RunState : run' = [run EXCEPT ![w] = r] /\ \A pl : Sound(w, r, head, pl)
    BY <1>1, PersistedState DEF RecordSwap
<1> DEFINE h   == Log[l].tx
           row == [log |-> l, known |-> run[w].known]
<1>4. swaps \in [Hashes -> Seq([log : Logs, known : BOOLEAN])]
    BY DEF IInv, RowsSound, TypeOK
<1>5. CASE swaps[h] = <<>>
  <2>1. swaps' = [swaps EXCEPT ![h] = <<row>>]
    BY <1>1, <1>5 DEF recordSwap
  <2>2. row \in [log : Logs, known : BOOLEAN]
    BY <1>2
  <2> HIDE DEF row
  <2>3. <<row>> \in Seq([log : Logs, known : BOOLEAN]) /\ Len(<<row>>) <= 1
    BY <2>2
  <2>4. swaps' \in [Hashes -> Seq([log : Logs, known : BOOLEAN])]
    BY <1>2, <1>4, <2>1, <2>3
  <2>5. swaps'[h] = <<row>> /\ \A g \in Hashes \ {h} : swaps'[g] = swaps[g]
    BY <1>2, <1>4, <2>1
  <2>6. NeverDuplicates'
    BY <2>3, <2>5 DEF NeverDuplicates, IInv, RowsSound, RecordSwap
  <2>7. row.known => pools[Log[row.log].pool] # None
    BY <1>2 DEF row
  <2>8. SwapPoolPersisted'
    <3> SUFFICES ASSUME NEW g \in Hashes, NEW i \in DOMAIN swaps'[g], swaps'[g][i].known
                 PROVE  pools[Log[swaps'[g][i].log].pool] # None
      BY DEF SwapPoolPersisted, RecordSwap
    <3>1. CASE g = h
      BY <2>5, <2>7, <3>1
    <3>2. CASE g # h
      BY <2>5, <3>2 DEF IInv, RowsSound, SwapPoolPersisted
    <3> QED BY <3>1, <3>2
  <2> QED BY <1>3, <2>4, <2>6, <2>8, StepInv DEF RecordSwap, IInv, RowsSound, TypeOK
<1>6. CASE swaps[h] # <<>>
  <2>1. swaps' = swaps
    BY <1>1, <1>2, <1>4, <1>6 DEF recordSwap
  <2> QED BY <1>3, <2>1, QuietStep DEF RecordSwap
<1> QED BY <1>5, <1>6

\* A tick saves a cursor at most one past the head.
LEMMA SaveCursorInv ==
    ASSUME IInv, NEW w \in Ticks, SaveCursor(w) PROVE IInv'
<1>1. w \in Runs
    BY DEF Runs
<1>2. run[w].to + 1 \in 0 .. MaxHead + 1
    BY <1>1, Facts DEF RunState, Sound
<1>3. cursor' \in [Source -> 0 .. MaxHead + 1 \cup {None}]
    BY <1>2 DEF SaveCursor, IInv, RowsSound, TypeOK
<1>4. NextSource(w) \in RunState /\ Sound(w, NextSource(w), head, pools')
    BY <1>1, Facts, NextSourceSound DEF SaveCursor
<1>5. NeverDuplicates' /\ SwapPoolPersisted'
    BY DEF IInv, RowsSound, NeverDuplicates, SwapPoolPersisted, SaveCursor
<1> QED BY <1>1, <1>3, <1>4, <1>5, StepInv DEF SaveCursor, IInv, RowsSound, TypeOK

\* A backfill that is through, and an invocation that dies, write nothing.
LEMMA EndInv ==
    ASSUME IInv, NEW w \in Runs, FinishBackfill(w) \/ Fail(w) PROVE IInv'
<1>1. /\ Idle \in RunState /\ Sound(w, Idle, head, pools)
      /\ Failed \in RunState /\ Sound(w, Failed, head, pools)
    BY Facts, RestStates
<1> QED BY <1>1, QuietStep DEF FinishBackfill, Fail

\* Every step preserves the invariant: one lemma per action.
LEMMA NextInv == IInv /\ [Next]_vars => IInv'
<1> SUFFICES ASSUME IInv, [Next]_vars PROVE IInv'
    OBVIOUS
<1>1. ASSUME NEW w \in Runs, PersistLog(w)
      PROVE  IInv'
  <2>1. PICK l \in run[w].todo : /\ IsNext(w, l)
                                 /\ \/ PersistInitialize(w, l) \/ PersistLiquidity(w, l)
                                    \/ UpdatePool(w, l)
    BY <1>1 DEF PersistLog
  <2>2. run[w].stage = "persist" /\ UNCHANGED <<head, cursor>>
    BY <1>1 DEF PersistLog
  <2> QED BY <2>1, <2>2, PersistInitializeInv, PersistLiquidityInv, UpdatePoolInv
<1>2. ASSUME NEW w \in Ticks, StartTick(w) \/ indexBatch(w)
      PROVE  IInv'
    BY <1>1, <1>2, StartTickInv, ReadHeadInv, ReadCursorInv, FetchLogsInv, RecordSwapInv,
       SaveCursorInv DEF indexBatch, Runs
<1>3. ASSUME NEW w \in Backfills,
             \/ StartBackfill(w) \/ FetchLogs(w) \/ PersistLog(w) \/ RecordSwap(w)
             \/ FinishBackfill(w)
      PROVE  IInv'
    BY <1>1, <1>3, StartBackfillInv, FetchLogsInv, RecordSwapInv, EndInv DEF Runs
<1>4. CASE UNCHANGED vars
    BY <1>4 DEF vars, IInv, RowsSound, TypeOK, NeverDuplicates, SwapPoolPersisted
<1> QED BY <1>2, <1>3, <1>4, NewBlockInv, EndInv DEF Next

\* D1 starts empty, and no invocation runs.
LEMMA InitInv == Init => IInv
<1> SUFFICES ASSUME Init PROVE IInv
    OBVIOUS
<1> USE IndexerAssumption DEF Init
<1>1. Idle \in RunState /\ \A w \in Runs : Sound(w, Idle, 0, pools)
    BY RestStates
<1>2. TypeOK
    BY <1>1 DEF TypeOK, RunState, Stages
<1>3. NeverDuplicates /\ SwapPoolPersisted
    BY DEF NeverDuplicates, SwapPoolPersisted
<1> QED BY <1>1, <1>2, <1>3 DEF IInv, RowsSound

\* The inductive invariant holds in every behaviour of the indexer.
THEOREM Invariance == Spec => []IInv
<1> QED BY InitInv, NextInv, PTL DEF Spec

\* The rows of D1 keep their types, no transaction or log ever gets two, and no
\* row refers to a pool that is not there, however many ticks and backfills
\* overlap, fail or are repeated.
THEOREM RowsAreSound == Spec => []RowsSound
<1>1. IInv => RowsSound
    BY DEF IInv
<1> QED BY <1>1, Invariance, PTL

-----------------------------------------------------------------------------
Done == {l \in Logs : Indexed(l)}

\* Before a tick asks for its range, all below it is done; while it persists
\* the range, what is not done is still to do.
Gapless(w, r, done) ==
    w \in Ticks =>
       /\ r.stage = "fetch" =>
             \A l \in Logs :
                Log[l].source = Sources[r.src] /\ Log[l].block < r.from => l \in done
       /\ r.stage \in {"persist", "swap"} =>
             \A l \in Logs :
                Log[l].source = Sources[r.src] /\ Log[l].block <= r.to
                   => l \in done \/ l \in r.todo

GInv == NoGapBelowCursor /\ \A w \in Runs : Gapless(w, run[w], Done)

\* A source without a cursor starts at or before its first log: the genesis
\* block of its configuration, or a chain younger than the start window.
StartsAtGenesis ==
    \A w \in Ticks :
       run[w].stage = "cursor" /\ cursor[src(w)] = None =>
          \A l \in Logs :
             Log[l].source = src(w) => Log[l].block >= resolveStartBlock(src(w), run[w].head)

\* No row of pools, transactions or liquidity_events is ever taken away.
LEMMA DoneGrows ==
    ASSUME IInv, \A p \in Pools : pools[p] # None => pools'[p] # None,
           \A h \in Hashes : swaps[h] # <<>> => swaps'[h] # <<>>,
           \A l \in Logs : liquidity[l] > 0 => liquidity'[l] > 0
    PROVE  Done \subseteq Done'
<1>1. \A l \in Logs : Log[l].pool \in Pools /\ Log[l].tx \in Hashes
    BY DEF Pools, Hashes
<1>2. \A l \in Logs : Log[l].kind \in {"initialize", "swap", "liquidity"}
    BY IndexerAssumption
<1> SUFFICES ASSUME NEW l \in Logs, Indexed(l) PROVE Indexed(l)'
    BY DEF Done
<1>3. CASE Log[l].kind = "initialize"
    BY <1>1, <1>3 DEF Indexed
<1>4. CASE Log[l].kind = "swap"
    BY <1>1, <1>4 DEF Indexed
<1>5. CASE Log[l].kind = "liquidity"
    BY <1>1, <1>5 DEF Indexed
<1> QED BY <1>2, <1>3, <1>4, <1>5

\* What is done stays done, so other invocations keep what they count on.
LEMMA GapStep ==
    ASSUME IInv, GInv, NEW w \in Runs, NEW r \in RunState, run' = [run EXCEPT ![w] = r],
           Done \subseteq Done', Gapless(w, r, Done'), cursor' = cursor
    PROVE  GInv'
<1>1. NoGapBelowCursor'
    BY DEF GInv, NoGapBelowCursor, Done
<1>2. ASSUME NEW v \in Runs
      PROVE  Gapless(v, run[v]', Done')
  <2>1. CASE v = w
    BY <2>1, Facts
  <2>2. CASE v # w
    <3>1. run[v]' = run[v] /\ Gapless(v, run[v], Done)
      BY <2>2, Facts DEF GInv
    <3> QED BY <3>1 DEF Gapless
  <2> QED BY <2>1, <2>2
<1> QED BY <1>1, <1>2 DEF GInv

\* An invocation that is not fetching or persisting promises nothing yet.
LEMMA NothingPromised ==
    ASSUME IInv, NEW w \in Runs, NEW r \in RunState,
           w \in Backfills \/ r.stage \in {"idle", "failed", "head", "cursor"}
    PROVE  \A done : Gapless(w, r, done)
BY IndexerAssumption DEF Gapless

\* The state a tick leaves a source in.
LEMMA NextSourceStage ==
    ASSUME IInv, NEW w \in Runs
    PROVE  NextSource(w) \in RunState /\ NextSource(w).stage \in {"idle", "head"}
<1>1. NextSource(w) \in RunState
    BY Facts, NextSourceSound
<1>2. NextSource(w).stage \in {"idle", "head"}
    BY Facts DEF NextSource, Idle
<1> QED BY <1>1, <1>2

\* The cursor a tick has read vouches for all below its range, and so does the
\* genesis of a source without one.
LEMMA ReadCursorGap ==
    ASSUME IInv, GInv, StartsAtGenesis, NEW w \in Ticks, ReadCursor(w) PROVE GInv'
<1> DEFINE h    == run[w].head
           from == resolveStartBlock(src(w), h)
           to   == IF from + BatchSize > h THEN h ELSE from + BatchSize
           r    == [run[w] EXCEPT !.stage = "fetch", !.head = 0, !.from = from, !.to = to]
<1>1. w \in Runs /\ Done \subseteq Done' /\ cursor' = cursor
    BY DoneGrows DEF Runs, ReadCursor
<1>2. CASE from > h
  <2>1. run' = [run EXCEPT ![w] = NextSource(w)]
    BY <1>2 DEF ReadCursor
  <2> QED BY <1>1, <2>1, NextSourceStage, NothingPromised, GapStep
<1>3. CASE ~ (from > h)
  <2>1. run' = [run EXCEPT ![w] = r]
    BY <1>3 DEF ReadCursor
  <2>2. r \in RunState
    <3>1. run'[w] = r /\ run' \in [Runs -> RunState]
      <4>1. IInv'
        BY ReadCursorInv
      <4> QED BY <1>1, <2>1, <4>1, Facts DEF IInv, RowsSound, TypeOK, RunState, Stages
    <3> QED BY <1>1, <3>1
  <2>3. r.stage = "fetch" /\ r.src = run[w].src /\ r.from = from
    BY <1>1, Facts DEF RunState
  <2>4. ASSUME NEW l \in Logs, Log[l].source = src(w), Log[l].block < from
        PROVE  l \in Done
    <3>1. Log[l].block \in Nat
      BY IndexerAssumption
    <3>2. CASE cursor[src(w)] = None
      <4>1. Log[l].block >= from
        BY <2>4, <3>2 DEF StartsAtGenesis, ReadCursor
      <4>2. from \in Nat
        <5>1. from = r.from
          BY <2>3
        <5> HIDE DEF r, from
        <5> QED BY <2>2, <5>1 DEF RunState
      <4> HIDE DEF from
      <4> QED BY <2>4, <3>1, <4>1, <4>2
    <3>3. CASE cursor[src(w)] # None
      BY <2>4, <3>3 DEF resolveStartBlock, GInv, NoGapBelowCursor, Done
    <3> QED BY <3>2, <3>3
  <2>5. Gapless(w, r, Done')
    <3> HIDE DEF r, from
    <3> QED BY <1>1, <2>3, <2>4 DEF Gapless, src
  <2> HIDE DEF r
  <2> QED BY <1>1, <2>1, <2>2, <2>5, GapStep
<1> QED BY <1>2, <1>3

\* A tick has fetched every log of its range: the range ends at or before the
\* head.
LEMMA FetchLogsGap ==
    ASSUME IInv, GInv, NEW w \in Runs, FetchLogs(w) PROVE GInv'
<1> DEFINE seen == {l \in Logs : /\ Log[l].source = src(w)
                                 /\ Log[l].block \in run[w].from .. run[w].to
                                 /\ Log[l].block <= head}
           r    == [run[w] EXCEPT !.stage = "persist", !.from = 0, !.todo = seen]
<1>1. run' = [run EXCEPT ![w] = r] /\ cursor' = cursor
    BY Facts DEF FetchLogs, RunState
<1>2. Done \subseteq Done'
    BY DoneGrows DEF FetchLogs
<1>3. r \in RunState
  <2>1. "persist" \in Stages /\ seen \subseteq Logs
    BY DEF Stages
  <2> HIDE DEF seen
  <2> QED BY <2>1, Facts DEF RunState
<1>4. /\ r.stage = "persist" /\ r.src = run[w].src /\ r.to = run[w].to /\ r.todo = seen
      /\ run[w].stage = "fetch"
    BY Facts DEF RunState, FetchLogs
<1>5. ASSUME w \in Ticks, NEW l \in Logs, Log[l].source = src(w), Log[l].block <= run[w].to
      PROVE  l \in Done \/ l \in seen
  <2>1. run[w].to <= head /\ run[w].to \in Nat /\ run[w].from \in Nat /\ head \in Nat
    BY <1>5, Facts DEF RunState, Sound
  <2>2. Log[l].block \in Nat
    BY IndexerAssumption
  <2>3. CASE Log[l].block < run[w].from
    BY <1>4, <1>5, <2>3 DEF GInv, Gapless, src
  <2>4. CASE ~ (Log[l].block < run[w].from)
    BY <1>5, <2>1, <2>2, <2>4
  <2> QED BY <2>3, <2>4
<1> HIDE DEF r, seen
<1>6. Gapless(w, r, Done')
    BY <1>2, <1>4, <1>5 DEF Gapless, src
<1> QED BY <1>1, <1>2, <1>3, <1>6, GapStep

\* Persisting a log takes it off the list once it is done.
LEMMA PersistedGap ==
    ASSUME IInv, GInv, NEW w \in Runs, NEW l \in run[w].todo,
           run[w].stage \in {"persist", "swap"}, run' = Persisted(w, l),
           cursor' = cursor, Done \subseteq Done', l \in Done'
    PROVE  GInv'
<1>1. PICK r \in RunState :
         /\ run' = [run EXCEPT ![w] = r]
         /\ r.stage = "persist" /\ r.todo = run[w].todo \ {l}
         /\ r.src = run[w].src /\ r.to = run[w].to
    BY PersistedState
<1>2. Gapless(w, r, Done')
    BY <1>1 DEF GInv, Gapless
<1> QED BY <1>1, <1>2, GapStep

\* Each statement of persistBatch makes its log done.
LEMMA PersistLogGap ==
    ASSUME IInv, GInv, NEW w \in Runs, PersistLog(w) PROVE GInv'
<1>1. PICK l \in run[w].todo : /\ IsNext(w, l)
                               /\ \/ PersistInitialize(w, l) \/ PersistLiquidity(w, l)
                                  \/ UpdatePool(w, l)
    BY DEF PersistLog
<1>2. run[w].stage = "persist" /\ cursor' = cursor /\ l \in Logs
    BY Facts DEF PersistLog, RunState
<1>3. CASE PersistInitialize(w, l)
  <2>1. /\ \A p \in Pools : pools[p] # None => pools'[p] # None
        /\ pools'[Log[l].pool] # None
    BY <1>2, <1>3, PoolWritten DEF PersistInitialize
  <2>2. Done \subseteq Done'
    BY <1>3, <2>1, DoneGrows DEF PersistInitialize
  <2>3. l \in Done'
    BY <1>2, <1>3, <2>1 DEF Done, Indexed, PersistInitialize
  <2> QED BY <1>2, <1>3, <2>2, <2>3, PersistedGap DEF PersistInitialize
<1>4. CASE PersistLiquidity(w, l)
  <2>1. liquidity \in [Logs -> Nat] /\ liquidity' = [liquidity EXCEPT ![l] = 1]
    BY <1>4, Facts DEF TypeOK, PersistLiquidity
  <2>2. Done \subseteq Done'
    BY <1>2, <1>4, <2>1, DoneGrows DEF PersistLiquidity
  <2>3. l \in Done'
    <3>1. liquidity'[l] = 1
      BY <1>2, <2>1
    <3>2. Indexed(l)' <=> liquidity'[l] > 0
      BY <1>4 DEF Indexed, PersistLiquidity
    <3> QED BY <1>2, <3>1, <3>2 DEF Done
  <2> QED BY <1>2, <1>4, <2>2, <2>3, PersistedGap DEF PersistLiquidity
<1>5. CASE UpdatePool(w, l)
  <2> DEFINE r == [run[w] EXCEPT !.stage = "swap", !.known = pools[Log[l].pool] # None]
  <2>1. \A p \in Pools : pools[p] # None => pools'[p] # None
    BY <1>2, <1>5, PoolWritten DEF UpdatePool
  <2>2. Done \subseteq Done'
    BY <1>5, <2>1, DoneGrows DEF UpdatePool
  <2>3. run' = [run EXCEPT ![w] = r]
    BY <1>5, Facts DEF UpdatePool, RunState
  <2>4. r \in RunState
    <3>1. "swap" \in Stages
      BY DEF Stages
    <3> QED BY <3>1, Facts DEF RunState
  <2>5. r.stage = "swap" /\ r.todo = run[w].todo /\ r.src = run[w].src /\ r.to = run[w].to
    BY Facts DEF RunState
  <2> HIDE DEF r
  <2>6. Gapless(w, r, Done')
    BY <1>2, <2>2, <2>5 DEF GInv, Gapless
  <2> QED BY <1>2, <2>2, <2>3, <2>4, <2>6, GapStep
<1> QED BY <1>1, <1>3, <1>4, <1>5

\* After recordSwap the transaction has a row, its own or an older one.
LEMMA RecordSwapGap ==
    ASSUME IInv, GInv, NEW w \in Runs, RecordSwap(w) PROVE GInv'
<1>1. PICK l \in run[w].todo :
         /\ IsNext(w, l)
         /\ swaps' = [swaps EXCEPT ![Log[l].tx] = recordSwap(l, run[w].known)]
         /\ run' = Persisted(w, l)
    BY DEF RecordSwap
<1>2. l \in Logs /\ Log[l].tx \in Hashes /\ Log[l].kind = "swap" /\ cursor' = cursor
    BY <1>1, Facts DEF RunState, Hashes, IsNext, Sound, RecordSwap
<1>3. recordSwap(l, run[w].known) # <<>>
    BY DEF recordSwap
<1>4. swaps'[Log[l].tx] # <<>> /\ \A h \in Hashes : swaps[h] # <<>> => swaps'[h] # <<>>
    BY <1>1, <1>2, <1>3, Facts DEF TypeOK
<1>5. Done \subseteq Done'
    BY <1>4, DoneGrows DEF RecordSwap
<1>6. l \in Done'
  <2>1. Indexed(l)' <=> swaps'[Log[l].tx] # <<>>
    BY <1>2 DEF Indexed
  <2> QED BY <1>2, <1>4, <2>1 DEF Done
<1> QED BY <1>1, <1>2, <1>5, <1>6, PersistedGap DEF RecordSwap

\* The cursor moves over a range that is done.
LEMMA SaveCursorGap ==
    ASSUME IInv, GInv, NEW w \in Ticks, SaveCursor(w) PROVE GInv'
<1>1. w \in Runs /\ Done \subseteq Done'
    BY DoneGrows DEF Runs, SaveCursor
<1>2. ASSUME NEW l \in Logs, cursor'[Log[l].source] # None,
             Log[l].block < cursor'[Log[l].source]
      PROVE  l \in Done
  <2>1. Log[l].source \in Source /\ Log[l].block \in Nat /\ run[w].to \in Nat
    BY <1>1, Facts, IndexerAssumption DEF RunState
  <2>2. cursor \in [Source -> 0 .. MaxHead + 1 \cup {None}]
    BY DEF IInv, RowsSound, TypeOK
  <2>3. CASE Log[l].source = src(w)
    <3>1. cursor'[Log[l].source] = run[w].to + 1
      BY <2>1, <2>2, <2>3 DEF SaveCursor
    <3>2. Log[l].block <= run[w].to
      BY <1>2, <2>1, <3>1
    <3> QED BY <1>1, <2>3, <3>2 DEF GInv, Gapless, src, SaveCursor
  <2>4. CASE Log[l].source # src(w)
    <3>1. cursor'[Log[l].source] = cursor[Log[l].source]
      BY <2>1, <2>2, <2>4 DEF SaveCursor
    <3> QED BY <1>2, <3>1 DEF GInv, NoGapBelowCursor, Done
  <2> QED BY <2>3, <2>4
<1>3. NoGapBelowCursor'
    BY <1>1, <1>2 DEF NoGapBelowCursor, Done
<1>4. ASSUME NEW v \in Runs
      PROVE  Gapless(v, run[v]', Done')
  <2>1. CASE v = w
    <3>1. run[v]' = NextSource(w)
      BY <1>1, <2>1, Facts DEF SaveCursor
    <3> QED BY <1>1, <2>1, <3>1, NextSourceStage, NothingPromised
  <2>2. CASE v # w
    <3>1. run[v]' = run[v] /\ Gapless(v, run[v], Done)
      BY <1>1, <2>2, Facts DEF GInv, SaveCursor
    <3> QED BY <1>1, <3>1 DEF Gapless
  <2> QED BY <2>1, <2>2
<1> QED BY <1>3, <1>4 DEF GInv

\* Starting, reading the head and ending write nothing and promise nothing.
LEMMA QuietGap ==
    ASSUME IInv, GInv, NEW w \in Runs,
           \/ w \in Ticks /\ (StartTick(w) \/ ReadHead(w))
           \/ w \in Backfills /\ StartBackfill(w)
           \/ FinishBackfill(w) \/ Fail(w)
    PROVE  GInv'
<1>1. Done \subseteq Done' /\ cursor' = cursor
    BY DoneGrows DEF StartTick, ReadHead, StartBackfill, FinishBackfill, Fail
<1>2. IInv'
    BY StartTickInv, ReadHeadInv, StartBackfillInv, EndInv
<1>3. run'[w] \in RunState
    BY <1>2, Facts DEF IInv, RowsSound, TypeOK, RunState, Stages
<1>4. run' = [run EXCEPT ![w] = run'[w]]
    BY Facts DEF StartTick, ReadHead, StartBackfill, FinishBackfill, Fail
<1>5. w \in Backfills \/ run'[w].stage \in {"idle", "failed", "head", "cursor"}
  <2>1. CASE w \in Ticks /\ StartTick(w)
    BY <2>1, Facts, NextSourceStage DEF StartTick
  <2>2. CASE w \in Ticks /\ ReadHead(w)
    BY <2>2, Facts DEF ReadHead, RunState
  <2>3. CASE FinishBackfill(w) \/ Fail(w)
    BY <2>3, Facts DEF FinishBackfill, Fail, Failed, Idle
  <2> QED BY <2>1, <2>2, <2>3
<1> QED BY <1>1, <1>3, <1>4, <1>5, NothingPromised, GapStep

\* Every step keeps the range below each cursor free of gaps.
LEMMA GapNext ==
    ASSUME IInv, GInv, StartsAtGenesis, [Next]_vars PROVE GInv'
<1>1. ASSUME NEW w \in Ticks, StartTick(w) \/ indexBatch(w)
      PROVE  GInv'
    BY <1>1, QuietGap, ReadCursorGap, FetchLogsGap, PersistLogGap, RecordSwapGap,
       SaveCursorGap DEF indexBatch, Runs
<1>2. ASSUME NEW w \in Backfills,
             \/ StartBackfill(w) \/ FetchLogs(w) \/ PersistLog(w) \/ RecordSwap(w)
             \/ FinishBackfill(w)
      PROVE  GInv'
    BY <1>2, QuietGap, FetchLogsGap, PersistLogGap, RecordSwapGap DEF Runs
<1>3. ASSUME NEW w \in Runs, Fail(w)
      PROVE  GInv'
    BY <1>3, QuietGap
<1>4. CASE NewBlock \/ UNCHANGED vars
  <2>1. UNCHANGED <<cursor, pools, swaps, liquidity, run>>
    BY <1>4 DEF NewBlock, vars
  <2>2. Done' = Done
    BY <2>1 DEF Done, Indexed
  <2> QED BY <2>1, <2>2 DEF GInv, NoGapBelowCursor, Gapless, Indexed
<1> QED BY <1>1, <1>2, <1>3, <1>4 DEF Next

\* A persist failure, an overlap of ticks, a stale cursor that overwrites a newer
\* one or a backfill never leaves an unindexed log below a cursor, if every
\* source started at its first log.
THEOREM NoGapAnywhere == Spec /\ []StartsAtGenesis => []NoGapBelowCursor
<1>1. Init => GInv
  <2> SUFFICES ASSUME Init PROVE GInv
    OBVIOUS
  <2>1. NoGapBelowCursor
    BY IndexerAssumption DEF Init, NoGapBelowCursor
  <2>2. \A w \in Runs : Gapless(w, run[w], Done)
    BY DEF Init, Gapless, Idle
  <2> QED BY <2>1, <2>2 DEF GInv
<1>2. IInv /\ GInv /\ StartsAtGenesis /\ [Next]_vars => GInv'
    BY GapNext
<1>3. GInv => NoGapBelowCursor
    BY DEF GInv
<1> QED BY <1>1, <1>2, <1>3, Invariance, PTL DEF Spec

\* Where a source without a cursor starts is at or before the first log.
StartsEarly ==
    \A l \in Logs : IF GenesisBlock # None THEN Log[l].block >= GenesisBlock
                     ELSE Log[l].block + StartWindow >= MaxHead

\* With a genesis block in the configuration, or on a chain whose first log is
\* within the start window of every head, no hypothesis on the states is needed.
THEOREM NoGapFromTheStart == ASSUME StartsEarly PROVE Spec => []NoGapBelowCursor
<1>1. IInv => StartsAtGenesis
  <2> SUFFICES ASSUME IInv, NEW w \in Ticks, cursor[src(w)] = None, NEW l \in Logs
               PROVE  Log[l].block >= resolveStartBlock(src(w), run[w].head)
    BY DEF StartsAtGenesis
  <2>1. run[w].head \in Nat /\ run[w].head <= MaxHead /\ MaxHead \in Nat
    BY Facts DEF RunState, Runs
  <2> QED BY <2>1, IndexerAssumption DEF resolveStartBlock, StartsEarly
<1> QED BY <1>1, Invariance, NoGapAnywhere, PTL
=============================================================================
