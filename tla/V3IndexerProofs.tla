--------------------------- MODULE V3IndexerProofs ---------------------------
(***************************************************************************)
(* The safety of the v3 indexer for every number of overlapping ticks,     *)
(* every chain, range, reorganisation depth and node lag, provided that    *)
(* neither the depth nor the lag exceeds the confirmations; and of the     *)
(* positions reduced from its events, for every history of a position.     *)
(***************************************************************************)
EXTENDS Positions, WellFoundedInduction, FiniteSetTheorems, SequenceTheorems, TLAPS

\* Every row of the table is final and canonical.
RowsFinal == \A r \in events : Final(r.block) /\ r = Canonical(r.block)

TickState == [stage : {"idle", "failed", "head", "range", "insert"},
              latest : Nat, from : Nat, to : Nat, todo : SUBSET Row]

\* A tick looks at final blocks only, what lies below its range is indexed, and
\* what lies in it is indexed or about to be.
Sound(k) ==
    /\ Final(k.latest)
    /\ \A r \in k.todo : Final(r.block) /\ r = Canonical(r.block)
    /\ k.stage \in {"range", "insert"} =>
          /\ k.to <= k.latest
          /\ \A b \in Blocks : DeploymentBlock <= b /\ b < k.from => Canonical(b) \in events
    /\ k.stage = "insert" =>
          \A b \in Blocks : k.from <= b /\ b <= k.to => Canonical(b) \in events \cup k.todo

TicksSound == \A t \in Ticks : Sound(tick[t])

IInv == TypeOK /\ RowsFinal /\ TicksSound /\ NoGapBelowCursor

-----------------------------------------------------------------------------
\* The finalized head of any head a node reports is final.
LEMMA FinalizedIsFinal ==
    ASSUME NEW h \in Nat, head \in Nat, h <= head
    PROVE  finalizedV3Head(h) \in Nat /\ Final(finalizedV3Head(h))
  BY V3Assumption DEF finalizedV3Head, Final

\* Nothing is indexed and no tick runs at first.
LEMMA InitIInv == Init => IInv
  BY V3Assumption DEF Init, IInv, TypeOK, RowsFinal, TicksSound, Sound, NoGapBelowCursor,
                      Idle, At, Blocks, Final, Row

\* The invariant survives every step that leaves the ticks and the tables
\* alone and replaces no final block.
LEMMA ChainStep ==
    ASSUME IInv, head' \in Blocks, head <= head',
           version' \in [Blocks -> Versions],
           \A b \in Blocks : Final(b) => version'[b] = version[b],
           UNCHANGED <<cursor, events, tick>>
    PROVE  IInv'
  <1>1. head \in Nat /\ head' \in Nat /\ Confirmations \in Nat
    BY V3Assumption DEF IInv, TypeOK, Blocks
  <1>2. \A b \in Nat : Final(b) => Final(b)'
    BY <1>1 DEF Final
  <1>3. TypeOK'
    BY DEF IInv, TypeOK
  <1>4. \A r \in Row : Final(r.block) /\ r = Canonical(r.block)
                         => (Final(r.block) /\ r = Canonical(r.block))'
    BY <1>2, V3Assumption DEF Row, Canonical, Blocks
  <1>5. events \subseteq Row /\ \A t \in Ticks : tick[t] \in TickState
    BY DEF IInv, TypeOK, TickState
  <1>6. RowsFinal'
    BY <1>4, <1>5 DEF IInv, RowsFinal
  <1>7. \A b \in Blocks : Canonical(b) \in events => Canonical(b)' \in events'
    BY DEF IInv, RowsFinal, Canonical, Blocks
  <1>10. TicksSound'
    <2> SUFFICES ASSUME NEW t \in Ticks PROVE Sound(tick[t])'
      BY DEF TicksSound
    <2>1. Sound(tick[t]) /\ tick'[t] = tick[t] /\ tick[t] \in TickState
      BY <1>5 DEF IInv, TicksSound
    <2>2. \A b \in Blocks : Canonical(b) \in tick[t].todo => Canonical(b)' \in tick[t].todo
      BY <2>1 DEF Sound, Canonical, Blocks
    <2>3. Final(tick[t].latest)'
      BY <1>2, <2>1 DEF Sound, TickState
    <2>4. \A r \in tick[t].todo : (Final(r.block) /\ r = Canonical(r.block))'
      BY <1>4, <2>1 DEF Sound, TickState
    <2>5. tick[t].stage \in {"range", "insert"} =>
             /\ tick[t].to <= tick[t].latest
             /\ \A b \in Blocks : DeploymentBlock <= b /\ b < tick[t].from
                                    => Canonical(b)' \in events'
      BY <1>7, <2>1 DEF Sound
    <2>6. tick[t].stage = "insert" =>
             \A b \in Blocks : tick[t].from <= b /\ b <= tick[t].to
                                 => Canonical(b)' \in events' \cup tick[t].todo
      BY <1>7, <2>1, <2>2 DEF Sound
    <2> QED
      BY <2>1, <2>3, <2>4, <2>5, <2>6 DEF Sound
  <1>11. NoGapBelowCursor'
    BY <1>7 DEF IInv, NoGapBelowCursor
  <1> QED
    BY <1>3, <1>6, <1>10, <1>11 DEF IInv

-----------------------------------------------------------------------------
\* The invariant survives a step that changes one tick, when the new tick is
\* sound by itself and the tables stay as they are.
LEMMA TickStep ==
    ASSUME IInv, NEW t \in Ticks, NEW k \in TickState, Sound(k),
           tick' = [tick EXCEPT ![t] = k],
           UNCHANGED <<head, version, cursor, events>>
    PROVE  IInv'
  <1>1. \A u \in Ticks : tick'[u] = IF u = t THEN k ELSE tick[u]
    BY DEF IInv, TypeOK
  <1>2. TypeOK'
    BY DEF IInv, TypeOK, Row, TickState
  <1>3. \A b : (Final(b)' <=> Final(b)) /\ Canonical(b)' = Canonical(b)
    BY DEF Final, Canonical
  <1>4. RowsFinal'
    BY <1>3 DEF IInv, RowsFinal
  <1>5. TicksSound'
    BY <1>1, <1>3 DEF IInv, TicksSound, Sound
  <1>6. NoGapBelowCursor'
    BY <1>3 DEF IInv, NoGapBelowCursor
  <1> QED
    BY <1>2, <1>4, <1>5, <1>6 DEF IInv

\* A tick that is idle, or that failed, is sound.
LEMMA IdleSound ==
    /\ Idle \in TickState /\ Sound(Idle)
    /\ Failed \in TickState /\ Sound(Failed)
  BY DEF Idle, Failed, At, TickState, Sound, Final

\* What a tick's own stage says of it.
LEMMA TickSound == ASSUME IInv, NEW t \in Ticks
                   PROVE  tick[t] \in TickState /\ Sound(tick[t])
  BY DEF IInv, TypeOK, TickState, TicksSound

-----------------------------------------------------------------------------
\* A new block makes no final block less final.
LEMMA NewBlockInv == ASSUME IInv, NewBlock PROVE IInv'
  <1>1. head' \in Blocks /\ head <= head'
    BY V3Assumption DEF NewBlock, IInv, TypeOK, Blocks
  <1> QED
    BY <1>1, ChainStep DEF NewBlock, IInv, TypeOK

\* A reorganisation no deeper than the confirmations replaces no final block.
LEMMA ReorgInv == ASSUME IInv, Reorg PROVE IInv'
  <1>1. head \in Nat /\ Confirmations \in Nat /\ ReorgDepth \in Nat
        /\ ReorgDepth <= Confirmations
    BY V3Assumption DEF IInv, TypeOK, Blocks
  <1>2. \A b \in Blocks : Final(b) => b = 0 \/ b + ReorgDepth <= head
    BY <1>1 DEF Final, Blocks
  <1>3. \A b \in Blocks : Final(b) => version'[b] = version[b]
    BY <1>2 DEF Reorg
  <1> QED
    BY <1>1, <1>3, ChainStep DEF Reorg, IInv, TypeOK

\* A tick starts with a final head.
LEMMA ReadHeadInv == ASSUME IInv, NEW t \in Ticks, ReadHead(t) PROVE IInv'
  <1>1. PICK h \in Blocks :
           /\ h <= head
           /\ tick' = [tick EXCEPT ![t] = At("head", finalizedV3Head(h))]
    BY DEF ReadHead, Seen
  <1>2. finalizedV3Head(h) \in Nat /\ Final(finalizedV3Head(h))
    BY <1>1, FinalizedIsFinal DEF IInv, TypeOK, Blocks
  <1>3. At("head", finalizedV3Head(h)) \in TickState /\ Sound(At("head", finalizedV3Head(h)))
    BY <1>2 DEF At, Sound, TickState
  <1> QED
    BY <1>1, <1>3, TickStep DEF ReadHead

\* The range starts at the cursor, below which nothing is missing, and ends at
\* the finalized head at the latest.
LEMMA NextRangeInv == ASSUME IInv, NEW t \in Ticks, NextRange(t) PROVE IInv'
  <1> DEFINE l == tick[t].latest
             k == [tick[t] EXCEPT !.stage = "range", !.from = FromBlock,
                                  !.to = ToBlock(FromBlock, l)]
  <1>1. CASE FromBlock > l
    BY <1>1, IdleSound, TickStep DEF NextRange
  <1>2. CASE ~ (FromBlock > l)
    <2>1. tick[t] \in TickState /\ Sound(tick[t])
      BY TickSound
    <2>2. FromBlock \in Nat
      BY V3Assumption DEF FromBlock, IInv, TypeOK
    <2>3. ToBlock(FromBlock, l) \in Nat /\ ToBlock(FromBlock, l) <= l
      BY <1>2, <2>1, <2>2, V3Assumption DEF ToBlock, TickState
    <2>4. tick' = [tick EXCEPT ![t] = k]
      BY <1>2 DEF NextRange
    <2>5. \A b \in Blocks : DeploymentBlock <= b /\ b < FromBlock => Canonical(b) \in events
      BY V3Assumption DEF FromBlock, IInv, NoGapBelowCursor, Blocks
    <2>6. /\ k \in TickState /\ k.stage = "range" /\ k.latest = l /\ k.from = FromBlock
          /\ k.to = ToBlock(FromBlock, l) /\ k.todo = tick[t].todo
      BY <2>1, <2>2, <2>3 DEF TickState
    <2> HIDE DEF k
    <2>7. Sound(k)
      BY <2>1, <2>3, <2>5, <2>6 DEF Sound
    <2> QED
      BY <2>4, <2>6, <2>7, TickStep DEF NextRange
  <1> QED
    BY <1>1, <1>2

\* The logs of a range of final blocks are complete, whichever node answers.
LEMMA ReadLogsInv == ASSUME IInv, NEW t \in Ticks, ReadLogs(t) PROVE IInv'
  <1>1. tick[t] \in TickState /\ Sound(tick[t]) /\ tick[t].stage = "range"
    BY TickSound DEF ReadLogs
  <1> DEFINE Logs(h) == {Canonical(b) : b \in {c \in Blocks : c \in tick[t].from .. tick[t].to
                                                              /\ c <= h}}
             K(s) == [tick[t] EXCEPT !.stage = "insert", !.todo = s]
  <1>2. PICK h \in Blocks :
           /\ Seen(h)
           /\ tick' = [tick EXCEPT ![t].stage = "insert", ![t].todo = Logs(h)]
    BY DEF ReadLogs, Canonical
  <1>3. tick' = [tick EXCEPT ![t] = K(Logs(h))]
    BY <1>1, <1>2, Zenon DEF IInv, TypeOK
  <1>4. /\ Final(tick[t].latest) /\ tick[t].to <= tick[t].latest
        /\ \A b \in Blocks : DeploymentBlock <= b /\ b < tick[t].from
                               => Canonical(b) \in events
    BY <1>1 DEF Sound
  <1>5. \A b \in Blocks : tick[t].from <= b /\ b <= tick[t].to => Final(b) /\ b <= h
    BY <1>1, <1>2, <1>4, V3Assumption DEF Final, Seen, IInv, TypeOK, Blocks, TickState
  <1>6. Logs(h) \subseteq Row
    BY DEF Canonical, Row, IInv, TypeOK
  <1>7. \A r \in Logs(h) : Final(r.block) /\ r = Canonical(r.block)
    BY <1>1, <1>5 DEF Canonical, Blocks, TickState
  <1>8. \A b \in Blocks : tick[t].from <= b /\ b <= tick[t].to => Canonical(b) \in Logs(h)
    BY <1>1, <1>5 DEF Blocks, TickState
  <1> HIDE DEF Logs
  <1>9. /\ K(Logs(h)) \in TickState /\ K(Logs(h)).stage = "insert"
        /\ K(Logs(h)).latest = tick[t].latest /\ K(Logs(h)).from = tick[t].from
        /\ K(Logs(h)).to = tick[t].to /\ K(Logs(h)).todo = Logs(h)
    BY <1>1, <1>6 DEF TickState
  <1> HIDE DEF K
  <1>10. Sound(K(Logs(h)))
    BY <1>4, <1>7, <1>8, <1>9 DEF Sound
  <1> QED
    BY <1>3, <1>9, <1>10, TickStep DEF ReadLogs

\* An inserted row moves from the logs of the tick into the table.
LEMMA InsertEventInv == ASSUME IInv, NEW t \in Ticks, InsertEvent(t) PROVE IInv'
  <1>1. tick[t] \in TickState /\ Sound(tick[t]) /\ tick[t].stage = "insert"
    BY TickSound DEF InsertEvent
  <1>2. PICK r \in tick[t].todo :
           /\ events' = events \cup {r}
           /\ tick' = [tick EXCEPT ![t].todo = @ \ {r}]
    BY DEF InsertEvent
  <1>3. UNCHANGED <<head, version, cursor>>
    BY DEF InsertEvent
  <1>4. \A b : (Final(b)' <=> Final(b)) /\ Canonical(b)' = Canonical(b)
    BY <1>3 DEF Final, Canonical
  <1>5. r \in Row /\ Final(r.block) /\ r = Canonical(r.block)
    BY <1>1, <1>2 DEF Sound, TickState
  <1>6. TypeOK'
    BY <1>2, <1>3, <1>5 DEF IInv, TypeOK, Row
  <1>7. RowsFinal'
    BY <1>2, <1>4, <1>5 DEF IInv, RowsFinal
  <1>8. NoGapBelowCursor'
    BY <1>2, <1>3, <1>4 DEF IInv, NoGapBelowCursor
  <1>9. ASSUME NEW u \in Ticks PROVE Sound(tick[u])'
    <2>1. tick[u] \in TickState /\ Sound(tick[u])
      BY TickSound
    <2>2. /\ tick'[u].stage = tick[u].stage /\ tick'[u].latest = tick[u].latest
          /\ tick'[u].from = tick[u].from /\ tick'[u].to = tick[u].to
          /\ tick'[u].todo \subseteq tick[u].todo
          /\ tick[u].todo \subseteq tick'[u].todo \cup {r}
      BY <1>2 DEF IInv, TypeOK
    <2> QED
      BY <1>2, <1>4, <2>1, <2>2 DEF Sound
  <1> QED
    BY <1>6, <1>7, <1>8, <1>9 DEF IInv, TicksSound

\* The cursor moves past a range whose every block is in the table, be it ahead
\* or back.
LEMMA SaveCursorInv == ASSUME IInv, NEW t \in Ticks, SaveCursor(t) PROVE IInv'
  <1>1. tick[t] \in TickState /\ Sound(tick[t]) /\ tick[t].stage = "insert"
        /\ tick[t].todo = {}
    BY TickSound DEF SaveCursor
  <1>2. /\ UNCHANGED <<head, version, events>> /\ cursor' = tick[t].to + 1
        /\ tick' = [tick EXCEPT ![t] = Idle]
    BY DEF SaveCursor
  <1>3. \A b : (Final(b)' <=> Final(b)) /\ Canonical(b)' = Canonical(b)
    BY <1>2 DEF Final, Canonical
  <1>4. TypeOK'
    BY <1>1, <1>2, IdleSound DEF IInv, TypeOK, Row, TickState
  <1>5. RowsFinal'
    BY <1>2, <1>3 DEF IInv, RowsFinal
  <1>6. TicksSound'
    BY <1>2, <1>3, IdleSound DEF IInv, TypeOK, TicksSound, Sound
  <1>7. NoGapBelowCursor'
    BY <1>1, <1>2, <1>3, V3Assumption DEF NoGapBelowCursor, Sound, TickState, Blocks
  <1> QED
    BY <1>4, <1>5, <1>6, <1>7 DEF IInv

\* A failed tick leaves nothing behind but rows.
LEMMA FailTickInv == ASSUME IInv, NEW t \in Ticks, FailTick(t) PROVE IInv'
  BY IdleSound, TickStep DEF FailTick

-----------------------------------------------------------------------------
\* Every step of the indexer keeps the invariant.
LEMMA IndexerKeeps == ASSUME IInv, [Next]_vars PROVE IInv'
  <1>1. CASE NewBlock
    BY <1>1, NewBlockInv
  <1>2. CASE Reorg
    BY <1>2, ReorgInv
  <1>3. ASSUME NEW t \in Ticks, Step(t) PROVE IInv'
    BY <1>3, ReadHeadInv, NextRangeInv, ReadLogsInv, InsertEventInv, SaveCursorInv DEF Step
  <1>4. ASSUME NEW t \in Ticks, FailTick(t) PROVE IInv'
    BY <1>4, FailTickInv
  <1>5. CASE UNCHANGED vars
    BY <1>5 DEF vars, IInv, TypeOK, RowsFinal, TicksSound, Sound, Final, Canonical,
                NoGapBelowCursor
  <1> QED
    BY <1>1, <1>2, <1>3, <1>4, <1>5 DEF Next

\* IInv is an invariant of every behaviour, fair or not.
THEOREM Invariance == Spec => []IInv
  BY InitIInv, IndexerKeeps, PTL DEF Spec

\* Every variable keeps its type.
THEOREM TypeCorrect == Spec => []TypeOK
  BY Invariance, PTL DEF IInv

\* No reorganisation within the confirmations, no lagging node and no overlap
\* of ticks puts an event into the table that is not on the chain.
THEOREM Canonicity == Spec => []OnlyCanonicalEvents
  <1>1. IInv => OnlyCanonicalEvents
    BY DEF IInv, RowsFinal, OnlyCanonicalEvents
  <1> QED
    BY <1>1, Invariance, PTL

\* Nothing is missing below the cursor.
THEOREM Completeness == Spec => []NoGapBelowCursor
  <1>1. IInv => NoGapBelowCursor
    BY DEF IInv
  <1> QED
    BY <1>1, Invariance, PTL
-----------------------------------------------------------------------------
\* Positions.
\* Events are in the table up to some block: none is missing before another.
NoHole ==
    \A r \in events, b \in Blocks :
        DeploymentBlock <= b /\ b < r.block => Canonical(b) \in events

\* A tick inserts logs of its range, and has none before it has read them.
InRange(k) == (k.stage # "insert" => k.todo = {}) /\ \A r \in k.todo : r.block <= k.to
TodoInRange == \A t \in Ticks : InRange(tick[t])

Prefix == NoHole /\ TodoInRange

\* Replacing blocks that are not final touches no event.
LEMMA PrefixChain ==
    ASSUME IInv, Prefix, head' \in Blocks, head <= head',
           version' \in [Blocks -> Versions],
           \A b \in Blocks : Final(b) => version'[b] = version[b],
           UNCHANGED <<cursor, events, tick>>
    PROVE  Prefix'
  <1>1. \A b \in Blocks : Canonical(b) \in events => Canonical(b)' \in events'
    BY DEF IInv, RowsFinal, Canonical, Blocks
  <1>2. NoHole'
    BY <1>1 DEF Prefix, NoHole
  <1>3. TodoInRange'
    BY DEF Prefix, TodoInRange
  <1> QED BY <1>2, <1>3 DEF Prefix

\* A tick that changes by itself, to what stays in its range, touches none either.
LEMMA PrefixTick ==
    ASSUME IInv, Prefix, NEW t \in Ticks, NEW k \in TickState,
           InRange(k),
           tick' = [tick EXCEPT ![t] = k], UNCHANGED <<version, events>>
    PROVE  Prefix'
  <1>1. \A u \in Ticks : tick'[u] = IF u = t THEN k ELSE tick[u]
    BY DEF IInv, TypeOK
  <1>2. NoHole'
    BY DEF Prefix, NoHole, Canonical
  <1>3. TodoInRange'
    BY <1>1 DEF Prefix, TodoInRange
  <1> QED BY <1>2, <1>3 DEF Prefix

\* The logs of a range are inserted in their order, from an indexed start on.
LEMMA PrefixInsert == ASSUME IInv, Prefix, NEW t \in Ticks, InsertEvent(t) PROVE Prefix'
  <1>1. tick[t] \in TickState /\ Sound(tick[t]) /\ tick[t].stage = "insert"
    BY TickSound DEF InsertEvent
  <1>2. PICK r \in tick[t].todo :
           /\ \A q \in tick[t].todo : r.block <= q.block
           /\ events' = events \cup {r}
           /\ tick' = [tick EXCEPT ![t].todo = @ \ {r}]
    BY DEF InsertEvent
  <1>3. \A b : Canonical(b)' = Canonical(b)
    BY DEF InsertEvent, Canonical
  <1>4. r.block \in Nat /\ r.block <= tick[t].to /\ r \in Row
    BY <1>1, <1>2 DEF Prefix, TodoInRange, InRange, TickState, Row, Blocks
  <1>5. ASSUME NEW b \in Blocks, DeploymentBlock <= b, b < r.block
        PROVE  Canonical(b) \in events
    <2>1. CASE b < tick[t].from
      BY <1>1, <1>5, <2>1 DEF Sound
    <2>2. CASE tick[t].from <= b
      <3>1. b <= tick[t].to /\ b \in Nat /\ tick[t].to \in Nat
        BY <1>1, <1>4, <1>5 DEF TickState, Blocks
      <3>2. Canonical(b) \in events \cup tick[t].todo
        BY <1>1, <2>2, <3>1 DEF Sound
      <3>3. Canonical(b).block = b
        BY DEF Canonical
      <3> QED BY <1>2, <1>4, <1>5, <3>1, <3>2, <3>3
    <2> QED BY <1>1, <1>5, <2>1, <2>2 DEF TickState, Blocks
  <1>6. NoHole'
    BY <1>2, <1>3, <1>5 DEF Prefix, NoHole
  <1>7. TodoInRange'
    BY <1>1, <1>2 DEF IInv, TypeOK, Prefix, TodoInRange, InRange
  <1> QED BY <1>6, <1>7 DEF Prefix

\* Every step of the indexer keeps the table without holes.
LEMMA PrefixNext == ASSUME IInv, Prefix, [Next]_vars PROVE Prefix'
  <1>1. CASE NewBlock
    <2>1. head' \in Blocks /\ head <= head'
      BY <1>1, V3Assumption DEF NewBlock, IInv, TypeOK, Blocks
    <2> QED BY <1>1, <2>1, PrefixChain DEF NewBlock, IInv, TypeOK
  <1>2. CASE Reorg
    <2>1. head \in Nat /\ Confirmations \in Nat /\ ReorgDepth \in Nat
          /\ ReorgDepth <= Confirmations
      BY V3Assumption DEF IInv, TypeOK, Blocks
    <2>2. \A b \in Blocks : Final(b) => b = 0 \/ b + ReorgDepth <= head
      BY <2>1 DEF Final, Blocks
    <2>3. \A b \in Blocks : Final(b) => version'[b] = version[b]
      BY <1>2, <2>2 DEF Reorg
    <2> QED BY <1>2, <2>1, <2>3, PrefixChain DEF Reorg, IInv, TypeOK
  <1>3. ASSUME NEW t \in Ticks, ReadHead(t) \/ NextRange(t) \/ SaveCursor(t) \/ FailTick(t)
        PROVE  Prefix'
    <2>1. tick[t] \in TickState /\ InRange(tick[t])
      BY TickSound DEF Prefix, TodoInRange
    <2>2. UNCHANGED <<version, events>>
      BY <1>3 DEF ReadHead, NextRange, SaveCursor, FailTick
    <2>3. IInv'
      BY <1>3, ReadHeadInv, NextRangeInv, SaveCursorInv, FailTickInv
    <2>4. tick'[t] \in TickState /\ tick' = [tick EXCEPT ![t] = tick'[t]]
      BY <1>3, <2>3 DEF ReadHead, NextRange, SaveCursor, FailTick, IInv, TypeOK, TickState
    <2>5. InRange(tick'[t])
      <3>1. CASE ReadHead(t) \/ SaveCursor(t) \/ FailTick(t)
        BY <2>1, <3>1 DEF ReadHead, SaveCursor, FailTick, At, Idle, Failed, InRange, IInv, TypeOK
      <3>2. CASE NextRange(t)
        BY <2>1, <3>2 DEF NextRange, At, Idle, InRange, IInv, TypeOK, TickState
      <3> QED BY <1>3, <3>1, <3>2
    <2> QED BY <2>2, <2>4, <2>5, PrefixTick
  <1>4. ASSUME NEW t \in Ticks, ReadLogs(t) PROVE Prefix'
    <2>1. tick[t] \in TickState
      BY TickSound
    <2>2. UNCHANGED <<version, events>>
      BY <1>4 DEF ReadLogs
    <2>3. IInv'
      BY <1>4, ReadLogsInv
    <2>4. tick'[t] \in TickState /\ tick' = [tick EXCEPT ![t] = tick'[t]]
      BY <1>4, <2>3 DEF ReadLogs, IInv, TypeOK, TickState
    <2>5. InRange(tick'[t])
      BY <1>4, <2>1 DEF ReadLogs, InRange, IInv, TypeOK, TickState, Blocks
    <2> QED BY <2>2, <2>4, <2>5, PrefixTick
  <1>5. CASE UNCHANGED vars
    BY <1>5 DEF vars, Prefix, NoHole, TodoInRange, Canonical
  <1> QED BY <1>1, <1>2, <1>3, <1>4, <1>5, PrefixInsert DEF Next, Step

-----------------------------------------------------------------------------
\* A set of naturals that is not empty has a least member.
LEMMA NatLeast == ASSUME NEW T \in SUBSET Nat, T # {} PROVE \E n \in T : \A m \in T : n <= m
  <1>1. PICK x \in T : \A y \in T : ~ (<<y, x>> \in OpToRel(<, Nat))
    BY NatLessThanWellFounded, WFMin
  <1>2. \A y \in T : ~ (y < x)
    BY <1>1 DEF OpToRel
  <1> QED BY <1>2

\* Induction up to a bound without an operator parameter.
LEMMA BlockInduction ==
    ASSUME NEW most \in Nat, NEW T \in SUBSET Nat,
           0 \in T, \A n \in T : n < most => n + 1 \in T
    PROVE  0 .. most \subseteq T
  <1> DEFINE missing == (0 .. most) \ T
  <1> SUFFICES ASSUME missing # {} PROVE FALSE
    OBVIOUS
  <1>1. PICK n \in missing : \A m \in missing : n <= m
    <2>1. missing \in SUBSET Nat
      OBVIOUS
    <2> HIDE DEF missing
    <2> QED BY <2>1, NatLeast
  <1>2. n # 0 /\ n - 1 \in 0 .. most /\ n - 1 \in T /\ n - 1 < most /\ n - 1 + 1 = n
    BY <1>1
  <1> QED BY <1>1, <1>2

\* What happened on a chain up to a block.
IsChain(c, v, most) ==
    c = [b \in 0 .. most |-> Minted(IF b = 0 THEN Unminted ELSE c[b - 1], History[b][v[b]])]

\* A history that long exists: it is the one a block shorter and one more log.
LEMMA ChainExists == ASSUME NEW v PROVE \E c : IsChain(c, v, MaxHead)
  <1> DEFINE T == {m \in Nat : \E c : IsChain(c, v, m)}
  <1>1. 0 \in T
    <2> DEFINE c == [b \in 0 .. 0 |-> Minted(Unminted, History[b][v[b]])]
    <2>1. IsChain(c, v, 0)
      BY DEF IsChain
    <2> HIDE DEF c
    <2> QED BY <2>1
  <1>2. ASSUME NEW m \in T PROVE m + 1 \in T
    <2>1. PICK c : IsChain(c, v, m)
      OBVIOUS
    <2> DEFINE next(b) == Minted(IF b = 0 THEN Unminted ELSE c[b - 1], History[b][v[b]])
               d == [b \in 0 .. m + 1 |-> next(b)]
    <2>2. \A b \in 0 .. m : d[b] = c[b]
      <3>1. \A b \in 0 .. m : c[b] = next(b)
        BY <2>1 DEF IsChain
      <3> HIDE DEF next
      <3> QED BY <3>1
    <2>3. \A b \in 0 .. m + 1 : b = 0 \/ d[b - 1] = c[b - 1]
      <3>1. \A b \in 0 .. m + 1 : b = 0 \/ b - 1 \in 0 .. m
        OBVIOUS
      <3> HIDE DEF d
      <3> QED BY <2>2, <3>1
    <2>4. d = [b \in 0 .. m + 1 |-> Minted(IF b = 0 THEN Unminted ELSE d[b - 1], History[b][v[b]])]
      <3>1. \A b \in 0 .. m + 1 :
               next(b) = Minted(IF b = 0 THEN Unminted ELSE d[b - 1], History[b][v[b]])
        <4> HIDE DEF d
        <4> QED BY <2>3
      <3> HIDE DEF next
      <3>2. d = [b \in 0 .. m + 1 |-> next(b)]
        OBVIOUS
      <3> HIDE DEF d
      <3> QED BY <3>1, <3>2
    <2>5. IsChain(d, v, m + 1)
      <3> HIDE DEF d
      <3> QED BY <2>4 DEF IsChain
    <2> HIDE DEF d
    <2> QED BY <2>5
  <1>3. MaxHead \in T
    <2> HIDE DEF T
    <2>1. T \in SUBSET Nat
      BY DEF T
    <2> QED BY <1>1, <1>2, <2>1, BlockInduction, V3Assumption
  <1> QED BY <1>3

\* ChainOf follows the logs.
LEMMA ChainUnfolds ==
    ASSUME NEW v, NEW b \in Blocks
    PROVE  ChainOf(v)[b] = Minted(IF b = 0 THEN Unminted ELSE ChainOf(v)[b - 1], History[b][v[b]])
  <1>1. \E c : c = [a \in Blocks |-> Minted(IF a = 0 THEN Unminted ELSE c[a - 1], History[a][v[a]])]
    BY ChainExists DEF IsChain, Blocks
  <1>2. ChainOf(v) = CHOOSE c : c = [a \in Blocks |->
                                       Minted(IF a = 0 THEN Unminted ELSE c[a - 1], History[a][v[a]])]
    BY Zenon DEF ChainOf
  <1>3. ChainOf(v) = [a \in Blocks |->
                        Minted(IF a = 0 THEN Unminted ELSE ChainOf(v)[a - 1], History[a][v[a]])]
    BY <1>1, <1>2, Zenon
  <1> QED BY <1>3, Zenon

\* Branches that agree up to a block have the same history up to it.
LEMMA ChainsAgree ==
    ASSUME NEW v, NEW w, NEW n \in Blocks, \A b \in 0 .. n : v[b] = w[b]
    PROVE  ChainOf(v)[n] = ChainOf(w)[n]
  <1> DEFINE T == {m \in Nat : m <= n => ChainOf(v)[m] = ChainOf(w)[m]}
  <1>1. \A b \in 0 .. n : b \in Blocks
    BY V3Assumption DEF Blocks
  <1>2. 0 \in T
    <2>1. 0 \in 0 .. n /\ 0 \in Blocks
      BY <1>1 DEF Blocks
    <2>2. ChainOf(v)[0] = Minted(Unminted, History[0][v[0]])
          /\ ChainOf(w)[0] = Minted(Unminted, History[0][w[0]])
      BY <2>1, ChainUnfolds
    <2> QED BY <2>1, <2>2
  <1>3. ASSUME NEW m \in T PROVE m + 1 \in T
    <2> SUFFICES ASSUME m + 1 <= n PROVE ChainOf(v)[m + 1] = ChainOf(w)[m + 1]
      OBVIOUS
    <2>1. m + 1 \in 0 .. n /\ m + 1 \in Blocks /\ m + 1 # 0 /\ m + 1 - 1 = m
      BY <1>1 DEF Blocks
    <2>2. ChainOf(v)[m] = ChainOf(w)[m]
      BY <2>1 DEF Blocks
    <2>3. ChainOf(v)[m + 1] = Minted(ChainOf(v)[m], History[m + 1][v[m + 1]])
          /\ ChainOf(w)[m + 1] = Minted(ChainOf(w)[m], History[m + 1][w[m + 1]])
      BY <2>1, ChainUnfolds
    <2> QED BY <2>1, <2>2, <2>3
  <1>4. 0 .. n \subseteq T
    <2> HIDE DEF T
    <2>1. T \in SUBSET Nat
      BY DEF T
    <2>2. n \in Nat
      BY DEF Blocks
    <2> QED BY <1>2, <1>3, <2>1, <2>2, BlockInduction
  <1> QED BY <1>4 DEF Blocks

Logs     == [name : LogNames, user : Users \cup {Nobody}, liquidity : Nat, amount : Nat]
Position == [owner : Users \cup {Nobody}, liquidity : Int, net : Int, excess : BOOLEAN, fees : Nat]

\* What each log does to a position.
LEMMA MintedBy ==
    ASSUME NEW p, NEW log
    PROVE  /\ log.name = "Transfer" => Minted(p, log) = [p EXCEPT !.owner = log.user]
           /\ log.name = "Collect" => Minted(p, log) = [p EXCEPT !.fees = p.fees + log.amount]
           /\ log.name = "IncreaseLiquidity" =>
                 Minted(p, log) = [p EXCEPT !.liquidity = p.liquidity + log.liquidity,
                                            !.net = p.net + log.amount]
           /\ log.name = "DecreaseLiquidity" =>
                 Minted(p, log) = [p EXCEPT !.liquidity = p.liquidity - log.liquidity,
                                            !.net = p.net - log.amount,
                                            !.excess = Exceeds(p, log)]
           /\ log.name \in {"Mint", "Burn"} => Minted(p, log) = p
  BY DEF Minted

\* A log takes a position to a position.
LEMMA MintedTyped == ASSUME NEW p \in Position, NEW log \in Logs PROVE Minted(p, log) \in Position
  <1>1. Exceeds(p, log) \in BOOLEAN
    BY DEF Exceeds
  <1>2. CASE log.name = "Transfer"
    BY <1>2 DEF Minted, Position, Logs
  <1>3. CASE log.name = "Collect"
    BY <1>3 DEF Minted, Position, Logs
  <1> DEFINE e == Exceeds(p, log)
             more == p.liquidity + log.liquidity
             less == p.liquidity - log.liquidity
             in == p.net + log.amount
             out == p.net - log.amount
  <1>0. more \in Int /\ less \in Int /\ in \in Int /\ out \in Int
    BY DEF Position, Logs
  <1>4. CASE log.name = "IncreaseLiquidity"
    <2>1. Minted(p, log) = [p EXCEPT !.liquidity = more, !.net = in]
      BY <1>4, MintedBy
    <2> HIDE DEF more, in
    <2> QED BY <1>0, <2>1 DEF Position
  <1>5. CASE log.name = "DecreaseLiquidity"
    <2>1. Minted(p, log) = [p EXCEPT !.liquidity = less, !.net = out, !.excess = e]
      BY <1>5, MintedBy
    <2> HIDE DEF less, out, e
    <2>2. e \in BOOLEAN
      BY <1>1 DEF e
    <2> QED BY <1>0, <2>1, <2>2 DEF Position
  <1>6. CASE log.name \in {"Mint", "Burn"}
    BY <1>6 DEF Minted
  <1> QED BY <1>2, <1>3, <1>4, <1>5, <1>6 DEF Logs, LogNames

\* Every block of the chain leaves a position with no less than nothing in it.
LEMMA ChainTyped ==
    ASSUME version \in [Blocks -> Versions], NEW n \in Blocks
    PROVE  Chain[n] \in Position /\ Chain[n].liquidity \in Nat
  <1> DEFINE T == {m \in Nat : m <= n => Chain[m] \in Position}
  <1>1. \A b \in 0 .. n : b \in Blocks /\ History[b][version[b]] \in Logs
    BY V3Assumption, PositionsAssumption DEF Blocks, Logs
  <1>2. 0 \in T
    <2>1. 0 \in Blocks /\ History[0][version[0]] \in Logs /\ Unminted \in Position
      BY <1>1 DEF Blocks, Unminted, Position
    <2>2. Chain[0] = Minted(Unminted, History[0][version[0]])
      BY <2>1, ChainUnfolds DEF Chain
    <2> QED BY <2>1, <2>2, MintedTyped
  <1>3. ASSUME NEW m \in T PROVE m + 1 \in T
    <2> SUFFICES ASSUME m + 1 <= n PROVE Chain[m + 1] \in Position
      OBVIOUS
    <2>1. /\ m + 1 \in Blocks /\ m + 1 # 0 /\ m + 1 - 1 = m
          /\ History[m + 1][version[m + 1]] \in Logs
      BY <1>1 DEF Blocks
    <2>2. Chain[m] \in Position
      BY DEF Blocks
    <2>3. Chain[m + 1] = Minted(Chain[m], History[m + 1][version[m + 1]])
      BY <2>1, ChainUnfolds DEF Chain
    <2> QED BY <2>1, <2>2, <2>3, MintedTyped
  <1>4. 0 .. n \subseteq T
    <2> HIDE DEF T
    <2>1. T \in SUBSET Nat
      BY DEF T
    <2>2. n \in Nat
      BY DEF Blocks
    <2> QED BY <1>2, <1>3, <2>1, <2>2, BlockInduction
  <1>5. Chain[n] \in Position
    BY <1>4 DEF Blocks
  <1>6. Chain[n].liquidity >= 0
    BY PositionsAssumption DEF Chain
  <1> QED BY <1>5, <1>6 DEF Position

-----------------------------------------------------------------------------
\* The event of a block that a position's list has.
Listed(b) == Canonical(b) \in events /\ Event(Canonical(b)).token

\* A sequence of all members of a set.
LEMMA SeqOfNone == SetToSeq({}) \in Seq(Row) /\ Len(SetToSeq({})) = 0
  <1>1. Cardinality({}) = 0
    BY FS_EmptySet
  <1>2. <<>> \in [1 .. 0 -> {}] /\ IsInjective(<<>>)
    BY DEF IsInjective
  <1>3. SetToSeq({}) \in [1 .. 0 -> {}]
    BY <1>1, <1>2 DEF SetToSeq
  <1>4. SetToSeq({}) = <<>>
    BY <1>3
  <1> QED BY <1>4, EmptySeq

\* The same of one member.
LEMMA SeqOfOne ==
    ASSUME NEW r \in Row
    PROVE  SetToSeq({r}) \in Seq(Row) /\ Len(SetToSeq({r})) = 1 /\ SetToSeq({r})[1] = r
  <1>1. Cardinality({r}) = 1
    BY FS_Singleton
  <1>2. <<r>> \in [1 .. 1 -> {r}] /\ IsInjective(<<r>>)
    BY DEF IsInjective
  <1>3. SetToSeq({r}) \in [1 .. 1 -> {r}]
    BY <1>1, <1>2 DEF SetToSeq
  <1>4. SetToSeq({r}) = <<r>>
    BY <1>3
  <1>5. <<r>> \in Seq(Row) /\ Len(<<r>>) = 1 /\ <<r>>[1] = r
    OBVIOUS
  <1> QED BY <1>4, <1>5

\* A block has one row at most, the one of the chain.
LEMMA RowsOfBlock ==
    ASSUME IInv, NEW b \in Blocks
    PROVE  /\ RowsOf(b) \in Seq(Row)
           /\ ~ Listed(b) => Len(RowsOf(b)) = 0
           /\ Listed(b) => Len(RowsOf(b)) = 1 /\ RowsOf(b)[1] = Canonical(b)
  <1> DEFINE S == {r \in events : r.block = b /\ Event(r).token}
  <1>1. RowsOf(b) = SetToSeq(S)
    BY DEF RowsOf
  <1>2. \A r \in S : r = Canonical(b)
    BY DEF IInv, RowsFinal
  <1>3. Canonical(b).block = b
    BY DEF Canonical
  <1>4. CASE Listed(b)
    <2>1. S = {Canonical(b)} /\ Canonical(b) \in Row
      BY <1>2, <1>3, <1>4 DEF Listed, IInv, TypeOK
    <2> QED BY <1>1, <1>4, <2>1, SeqOfOne
  <1>5. CASE ~ Listed(b)
    <2>1. S = {}
      BY <1>2, <1>5 DEF Listed
    <2> QED BY <1>1, <1>5, <2>1, SeqOfNone
  <1> QED BY <1>4, <1>5

\* The rows up to a block, in the order of the blocks.
IsList(l, most) == l = [b \in 0 .. most |-> (IF b = 0 THEN <<>> ELSE l[b - 1]) \o RowsOf(b)]

\* Such a list exists: it is the one a block shorter and the rows of one more.
LEMMA ListExists == \E l : IsList(l, MaxHead)
  <1> DEFINE T == {m \in Nat : \E l : IsList(l, m)}
  <1>1. 0 \in T
    <2> DEFINE l == [b \in 0 .. 0 |-> <<>> \o RowsOf(b)]
    <2>1. IsList(l, 0)
      BY DEF IsList
    <2> HIDE DEF l
    <2> QED BY <2>1
  <1>2. ASSUME NEW m \in T PROVE m + 1 \in T
    <2>1. PICK l : IsList(l, m)
      OBVIOUS
    <2> DEFINE next(b) == (IF b = 0 THEN <<>> ELSE l[b - 1]) \o RowsOf(b)
               k == [b \in 0 .. m + 1 |-> next(b)]
    <2>2. \A b \in 0 .. m : k[b] = l[b]
      <3>1. \A b \in 0 .. m : l[b] = next(b)
        BY <2>1, Zenon DEF IsList
      <3> HIDE DEF next
      <3> QED BY <3>1
    <2>3. \A b \in 0 .. m + 1 : b = 0 \/ k[b - 1] = l[b - 1]
      <3>1. \A b \in 0 .. m + 1 : b = 0 \/ b - 1 \in 0 .. m
        OBVIOUS
      <3> HIDE DEF k
      <3> QED BY <2>2, <3>1
    <2>4. k = [b \in 0 .. m + 1 |-> (IF b = 0 THEN <<>> ELSE k[b - 1]) \o RowsOf(b)]
      <3>1. \A b \in 0 .. m + 1 : next(b) = (IF b = 0 THEN <<>> ELSE k[b - 1]) \o RowsOf(b)
        <4> HIDE DEF k
        <4> QED BY <2>3, Zenon
      <3> HIDE DEF next
      <3>2. k = [b \in 0 .. m + 1 |-> next(b)]
        OBVIOUS
      <3> HIDE DEF k
      <3> QED BY <3>1, <3>2, Zenon
    <2>5. IsList(k, m + 1)
      <3> HIDE DEF k
      <3> QED BY <2>4 DEF IsList
    <2> HIDE DEF k
    <2> QED BY <2>5
  <1>3. MaxHead \in T
    <2> HIDE DEF T
    <2>1. T \in SUBSET Nat
      BY DEF T
    <2> QED BY <1>1, <1>2, <2>1, BlockInduction, V3Assumption
  <1> QED BY <1>3

\* A list up to a block: it has the earlier ones at its head, and its own row last.
LEMMA ListGrows ==
    ASSUME IInv, NEW l, IsList(l, MaxHead), NEW b \in Blocks
    PROVE  /\ l[b] \in Seq(Row)
           /\ b = 0 /\ ~ Listed(0) => Len(l[0]) = 0
           /\ b = 0 /\ Listed(0) => Len(l[0]) = 1 /\ l[0][1] = Canonical(0)
           /\ b # 0 => /\ l[b - 1] \in Seq(Row)
                       /\ \A i \in 1 .. Len(l[b - 1]) : l[b][i] = l[b - 1][i]
                       /\ ~ Listed(b) => Len(l[b]) = Len(l[b - 1])
                       /\ Listed(b) => /\ Len(l[b]) = Len(l[b - 1]) + 1
                                       /\ l[b][Len(l[b])] = Canonical(b)
  <1>1. \A n \in Blocks : l[n] = (IF n = 0 THEN <<>> ELSE l[n - 1]) \o RowsOf(n)
    BY Zenon DEF IsList, Blocks
  <1>2. ASSUME NEW p \in Seq(Row), NEW n \in Blocks, l[n] = p \o RowsOf(n)
        PROVE  /\ l[n] \in Seq(Row)
               /\ \A i \in 1 .. Len(p) : l[n][i] = p[i]
               /\ ~ Listed(n) => Len(l[n]) = Len(p)
               /\ Listed(n) => Len(l[n]) = Len(p) + 1 /\ l[n][Len(l[n])] = Canonical(n)
    <2>1. /\ RowsOf(n) \in Seq(Row)
          /\ ~ Listed(n) => Len(RowsOf(n)) = 0
          /\ Listed(n) => Len(RowsOf(n)) = 1 /\ RowsOf(n)[1] = Canonical(n)
      BY RowsOfBlock
    <2>2. /\ l[n] \in Seq(Row) /\ Len(l[n]) = Len(p) + Len(RowsOf(n)) /\ Len(p) \in Nat
          /\ \A i \in 1 .. Len(p) + Len(RowsOf(n)) :
                l[n][i] = IF i <= Len(p) THEN p[i] ELSE RowsOf(n)[i - Len(p)]
      BY <1>2, <2>1, ConcatProperties, LenProperties
    <2>3. \A i \in 1 .. Len(p) : l[n][i] = p[i]
      BY <2>1, <2>2
    <2>4. ASSUME Listed(n) PROVE Len(l[n]) = Len(p) + 1 /\ l[n][Len(l[n])] = Canonical(n)
      <3>1. Len(l[n]) = Len(p) + 1
        BY <2>1, <2>2, <2>4
      <3>2. l[n][Len(p) + 1] = RowsOf(n)[Len(p) + 1 - Len(p)]
        <4>1. /\ Len(p) + 1 \in 1 .. Len(p) + Len(RowsOf(n))
              /\ ~ (Len(p) + 1 <= Len(p))
          BY <2>1, <2>2, <2>4
        <4> QED BY <2>2, <4>1
      <3>3. Len(p) + 1 - Len(p) = 1
        BY <2>2
      <3> QED BY <2>1, <2>4, <3>1, <3>2, <3>3
    <2> QED BY <2>1, <2>2, <2>3, <2>4
  <1> DEFINE T == {m \in Nat : m <= MaxHead => l[m] \in Seq(Row)}
  <1>3. <<>> \in Seq(Row) /\ Len(<<>>) = 0
    OBVIOUS
  <1>4. 0 \in Blocks
    BY V3Assumption DEF Blocks
  <1>5. l[0] = <<>> \o RowsOf(0)
    BY <1>1, <1>4
  <1>6. Blocks \subseteq T
    <2>1. 0 \in T
      BY <1>2, <1>3, <1>4, <1>5
    <2>2. ASSUME NEW m \in T PROVE m + 1 \in T
      <3> SUFFICES ASSUME m + 1 <= MaxHead PROVE l[m + 1] \in Seq(Row)
        OBVIOUS
      <3>1. m \in Nat /\ m + 1 \in Blocks /\ m + 1 # 0 /\ m + 1 - 1 = m /\ m <= MaxHead
        BY V3Assumption DEF Blocks
      <3>2. l[m + 1] = l[m] \o RowsOf(m + 1)
        <4> HIDE DEF T
        <4>1. \A n \in Blocks : n # 0 => l[n] = l[n - 1] \o RowsOf(n)
          BY <1>1, Zenon
        <4> DEFINE n == m + 1
        <4>2. n \in Blocks /\ n # 0 /\ n - 1 = m
          BY <3>1
        <4> HIDE DEF n
        <4>3. l[n] = l[m] \o RowsOf(n)
          BY <4>1, <4>2
        <4> QED BY <4>3 DEF n
      <3>3. l[m] \in Seq(Row)
        BY <3>1
      <3> QED BY <1>2, <3>1, <3>2, <3>3
    <2> HIDE DEF T
    <2>3. T \in SUBSET Nat
      BY DEF T
    <2> QED BY <2>1, <2>2, <2>3, BlockInduction, V3Assumption DEF Blocks
  <1>7. l[b] \in Seq(Row)
    BY <1>6, V3Assumption DEF Blocks
  <1>8. CASE b = 0
    <2>1. /\ ~ Listed(0) => Len(l[0]) = Len(<<>>)
          /\ Listed(0) => Len(l[0]) = Len(<<>>) + 1 /\ l[0][Len(l[0])] = Canonical(0)
      BY <1>2, <1>3, <1>4, <1>5
    <2>2. /\ ~ Listed(0) => Len(l[0]) = 0
          /\ Listed(0) => Len(l[0]) = 1 /\ l[0][1] = Canonical(0)
      BY <1>3, <2>1
    <2> HIDE DEF T
    <2> QED BY <1>7, <1>8, <2>2, Zenon
  <1>9. CASE b # 0
    <2>1. b - 1 \in Blocks /\ l[b] = l[b - 1] \o RowsOf(b)
      BY <1>1, <1>9, V3Assumption DEF Blocks
    <2>2. l[b - 1] \in Seq(Row)
      BY <1>6, <2>1, V3Assumption DEF Blocks
    <2> QED BY <1>2, <1>7, <1>9, <2>1, <2>2
  <1> QED BY <1>8, <1>9

\* The whole list begins with the list up to any block.
LEMMA ListBegins ==
    ASSUME IInv, NEW l, IsList(l, MaxHead), NEW b \in Blocks
    PROVE  /\ Len(l[b]) <= Len(l[MaxHead])
           /\ \A i \in 1 .. Len(l[b]) : l[MaxHead][i] = l[b][i]
  <1> DEFINE Begins(c) == Len(l[b]) <= Len(l[c]) /\ \A i \in 1 .. Len(l[b]) : l[c][i] = l[b][i]
             T == {m \in Nat : b + m <= MaxHead => Begins(b + m)}
  <1>1. b \in Nat /\ MaxHead \in Nat /\ b <= MaxHead
    BY V3Assumption DEF Blocks
  <1>2. \A c \in Blocks : l[c] \in Seq(Row) /\ Len(l[c]) \in Nat
    BY ListGrows, LenProperties
  <1>3. 0 \in T
    BY <1>1, <1>2
  <1>4. ASSUME NEW m \in T PROVE m + 1 \in T
    <2> SUFFICES ASSUME b + (m + 1) <= MaxHead PROVE Begins(b + (m + 1))
      OBVIOUS
    <2> DEFINE c == b + (m + 1)
    <2>1. c \in Blocks /\ c # 0 /\ c - 1 = b + m /\ b + m \in Blocks
      BY <1>1 DEF Blocks
    <2>2. Begins(b + m)
      BY <1>1, <2>1
    <2>3. /\ \A i \in 1 .. Len(l[c - 1]) : l[c][i] = l[c - 1][i]
          /\ Len(l[c - 1]) <= Len(l[c])
      BY <1>2, <2>1, ListGrows
    <2> QED BY <1>2, <2>1, <2>2, <2>3
  <1>5. MaxHead - b \in T
    <2> HIDE DEF T
    <2>1. T \in SUBSET Nat
      BY DEF T
    <2>2. MaxHead - b \in Nat
      BY <1>1
    <2> QED BY <1>3, <1>4, <2>1, <2>2, BlockInduction
  <1> QED BY <1>1, <1>5

-----------------------------------------------------------------------------
\* What the reducer keeps, and how far it agrees with the chain.
State == [user : Users \cup {Nobody}, active : BOOLEAN, liquidity : Nat, amount : Nat,
          fees : Nat, cost : Nat]

Agrees(s, p) ==
    /\ s.user = p.owner /\ s.fees = p.fees /\ s.liquidity >= p.liquidity
    /\ (s.liquidity = p.liquidity /\ s.amount = p.net) \/ p.excess

Applied(s, log) == applyEvent(s, parseV3LiquidityLog(log))

\* What each log does to the reducer's state.
LEMMA AppliedBy ==
    ASSUME NEW s, NEW log
    PROVE  /\ log.name = "Transfer" =>
                 Applied(s, log) = [s EXCEPT !.user = log.user, !.active = log.user # Nobody]
           /\ log.name = "Collect" => Applied(s, log) = [s EXCEPT !.fees = s.fees + log.amount]
           /\ log.name = "IncreaseLiquidity" =>
                 Applied(s, log) = [s EXCEPT !.liquidity = s.liquidity + log.liquidity,
                                              !.amount = s.amount + log.amount,
                                              !.cost = s.cost + log.amount]
           /\ log.name = "DecreaseLiquidity" =>
                 IF log.liquidity > s.liquidity \/ log.amount > s.amount THEN Applied(s, log) = s
                 ELSE Applied(s, log) = [s EXCEPT !.liquidity = s.liquidity - log.liquidity,
                                                   !.amount = s.amount - log.amount,
                                                   !.active = s.liquidity > log.liquidity]
           /\ parseV3LiquidityLog(log).token <=> log.name \notin {"Mint", "Burn"}
  <1> DEFINE e == parseV3LiquidityLog(log)
  <1> USE DEF Applied
  <1>1. CASE log.name \in {"Mint", "Burn"}
    BY <1>1 DEF parseV3LiquidityLog, parsePoolLog
  <1>2. CASE log.name \notin {"Mint", "Burn"}
    <2>1. e = parsePositionManagerLog(log)
      BY <1>2 DEF parseV3LiquidityLog
    <2>2. e.token = TRUE /\ e.delta = log.liquidity /\ e.amount = log.amount
      BY <2>1 DEF parsePositionManagerLog
    <2>3. CASE log.name = "Transfer"
      <3>1. e.type = "transfer" /\ e.owner = log.user
        BY <2>1, <2>3 DEF parsePositionManagerLog
      <3>2. applyEvent(s, e) = [s EXCEPT !.user = e.owner, !.active = e.owner # Nobody]
        BY <3>1, Zenon DEF applyEvent
      <3> QED BY <1>2, <2>2, <2>3, <3>1, <3>2
    <2>4. CASE log.name = "Collect"
      <3>1. e.type = "collect" /\ e.type # "transfer"
        BY <2>1, <2>4 DEF parsePositionManagerLog
      <3>2. applyEvent(s, e) = [s EXCEPT !.fees = s.fees + e.amount]
        BY <3>1, Zenon DEF applyEvent
      <3> QED BY <1>2, <2>2, <2>4, <3>2
    <2>5. CASE log.name = "IncreaseLiquidity"
      <3>1. e.type = "increase" /\ e.type # "transfer" /\ e.type # "collect"
        BY <2>1, <2>5 DEF parsePositionManagerLog
      <3>2. applyEvent(s, e) = [s EXCEPT !.liquidity = s.liquidity + e.delta,
                                         !.amount = s.amount + e.amount,
                                         !.cost = s.cost + e.amount]
        BY <3>1, Zenon DEF applyEvent
      <3> QED BY <1>2, <2>2, <2>5, <3>2
    <2>6. CASE log.name = "DecreaseLiquidity"
      <3>1. /\ e.type = "decrease" /\ e.type # "transfer" /\ e.type # "collect"
            /\ e.type # "increase"
        BY <2>1, <2>6 DEF parsePositionManagerLog
      <3>2. applyEvent(s, e) = IF Excessive(s, e) THEN s
                               ELSE [s EXCEPT !.liquidity = s.liquidity - e.delta,
                                              !.amount = s.amount - e.amount,
                                              !.active = s.liquidity > e.delta]
        BY <3>1, Zenon DEF applyEvent
      <3>3. Excessive(s, e) <=> log.liquidity > s.liquidity \/ log.amount > s.amount
        BY <2>2 DEF Excessive
      <3> QED BY <1>2, <2>2, <2>6, <3>2, <3>3
    <2>7. CASE log.name \notin {"Transfer", "Collect", "IncreaseLiquidity", "DecreaseLiquidity"}
      BY <1>2, <2>2, <2>7
    <2> QED BY <2>3, <2>4, <2>5, <2>6, <2>7
  <1> QED BY <1>1, <1>2

\* A log of the position keeps the reducer and the chain in agreement.
LEMMA AppliedAgrees ==
    ASSUME NEW p \in Position, NEW s \in State, Agrees(s, p), p.liquidity \in Nat,
           NEW log \in Logs, log.name \notin {"Mint", "Burn"},
           Minted(p, log).liquidity \in Nat
    PROVE  Applied(s, log) \in State /\ Agrees(Applied(s, log), Minted(p, log))
  <1> DEFINE t == Applied(s, log)
             q == Minted(p, log)
  <1> SUFFICES t \in State /\ Agrees(t, q)
    OBVIOUS
  <1>1. CASE log.name = "Transfer"
    <2> DEFINE a == log.user # Nobody
    <2>1. t = [s EXCEPT !.user = log.user, !.active = a]
      BY <1>1, AppliedBy
    <2>2. q = [p EXCEPT !.owner = log.user]
      BY <1>1, MintedBy
    <2>3. a \in BOOLEAN
      OBVIOUS
    <2> HIDE DEF t, q, a
    <2>4. t \in State /\ q \in Position
      BY <2>1, <2>2, <2>3 DEF State, Position, Logs
    <2> QED BY <2>1, <2>2, <2>4 DEF Agrees, State, Position
  <1>2. CASE log.name = "Collect"
    <2>1. t = [s EXCEPT !.fees = s.fees + log.amount]
      BY <1>2, AppliedBy
    <2>2. q = [p EXCEPT !.fees = p.fees + log.amount]
      BY <1>2, MintedBy
    <2> HIDE DEF t, q
    <2> QED BY <2>1, <2>2 DEF Agrees, State, Position, Logs
  <1>3. CASE log.name = "IncreaseLiquidity"
    <2> DEFINE dl == log.liquidity
               da == log.amount
    <2>1. t = [s EXCEPT !.liquidity = s.liquidity + dl, !.amount = s.amount + da,
                        !.cost = s.cost + da]
      BY <1>3, AppliedBy
    <2>2. q = [p EXCEPT !.liquidity = p.liquidity + dl, !.net = p.net + da]
      BY <1>3, MintedBy
    <2>3. dl \in Nat /\ da \in Nat
      BY DEF Logs
    <2> HIDE DEF t, q, dl, da
    <2>4. t \in State
      <3>1. s.liquidity + dl \in Nat /\ s.amount + da \in Nat /\ s.cost + da \in Nat
        BY <2>3 DEF State
      <3> QED BY <2>1, <3>1 DEF State
    <2> QED BY <2>1, <2>2, <2>3, <2>4 DEF Agrees, State, Position
  <1>4. CASE log.name = "DecreaseLiquidity"
    <2> DEFINE dl == log.liquidity
               da == log.amount
               x == Exceeds(p, log)
               a == s.liquidity > dl
    <2>1. q = [p EXCEPT !.liquidity = p.liquidity - dl, !.net = p.net - da, !.excess = x]
      BY <1>4, MintedBy
    <2>2. dl \in Nat /\ da \in Nat /\ a \in BOOLEAN
      BY DEF Logs
    <2>3. x <=> p.excess \/ p.net < da
      BY DEF Exceeds
    <2>4. IF dl > s.liquidity \/ da > s.amount THEN t = s
          ELSE t = [s EXCEPT !.liquidity = s.liquidity - dl, !.amount = s.amount - da,
                             !.active = a]
      BY <1>4, AppliedBy
    <2>5. q.liquidity \in Nat
      OBVIOUS
    <2> HIDE DEF t, q, dl, da, x, a
    <2>6. /\ q.owner = p.owner /\ q.fees = p.fees /\ q.liquidity = p.liquidity - dl
          /\ q.net = p.net - da
      BY <2>1 DEF Position
    <2>7. q.excess = x
      BY <2>1 DEF Position
    <2>8. CASE dl > s.liquidity \/ da > s.amount
      <3>1. t = s
        BY <2>4, <2>8
      <3>2. s.liquidity >= q.liquidity
        BY <2>2, <2>6 DEF Agrees, State, Position
      <3>3. p.excess \/ p.net < da
        BY <2>2, <2>5, <2>6, <2>8 DEF Agrees, State, Position
      <3> QED BY <2>3, <2>6, <2>7, <3>1, <3>2, <3>3 DEF Agrees
    <2>9. CASE ~ (dl > s.liquidity \/ da > s.amount)
      <3>1. t = [s EXCEPT !.liquidity = s.liquidity - dl, !.amount = s.amount - da, !.active = a]
        BY <2>4, <2>9
      <3>2. s.liquidity - dl \in Nat /\ s.amount - da \in Nat
        BY <2>2, <2>9 DEF State
      <3>3. t \in State
        BY <2>2, <3>1, <3>2 DEF State
      <3>4. /\ t.user = s.user /\ t.fees = s.fees /\ t.liquidity = s.liquidity - dl
            /\ t.amount = s.amount - da
        BY <3>1 DEF State
      <3>5. t.liquidity >= q.liquidity
        BY <2>2, <2>6, <3>4 DEF Agrees, State, Position
      <3>6. (t.liquidity = q.liquidity /\ t.amount = q.net) \/ q.excess
        BY <2>2, <2>3, <2>6, <2>7, <3>4 DEF Agrees, State, Position
      <3> QED BY <2>6, <3>3, <3>4, <3>5, <3>6 DEF Agrees
    <2> QED BY <2>8, <2>9
  <1> QED BY <1>1, <1>2, <1>3, <1>4 DEF Logs, LogNames

-----------------------------------------------------------------------------
\* The states of the reducer, event by event.
IsReduction(f, es, most) ==
    f = [i \in 0 .. most |-> IF i = 0 THEN Untouched ELSE applyEvent(f[i - 1], es[i])]

\* A reduction that long exists: it is the one an event shorter and one step more.
LEMMA ReductionExists == ASSUME NEW es, NEW most \in Nat PROVE \E f : IsReduction(f, es, most)
  <1> DEFINE T == {m \in Nat : \E f : IsReduction(f, es, m)}
  <1>1. 0 \in T
    <2> DEFINE f == [i \in 0 .. 0 |-> Untouched]
    <2>1. IsReduction(f, es, 0)
      BY DEF IsReduction
    <2> HIDE DEF f
    <2> QED BY <2>1
  <1>2. ASSUME NEW m \in T PROVE m + 1 \in T
    <2>1. PICK f : IsReduction(f, es, m)
      OBVIOUS
    <2> DEFINE next(i) == IF i = 0 THEN Untouched ELSE applyEvent(f[i - 1], es[i])
               g == [i \in 0 .. m + 1 |-> next(i)]
    <2>2. \A i \in 0 .. m : g[i] = f[i]
      <3>1. \A i \in 0 .. m : f[i] = next(i)
        BY <2>1, Zenon DEF IsReduction
      <3> HIDE DEF next
      <3> QED BY <3>1
    <2>3. \A i \in 0 .. m + 1 : i = 0 \/ g[i - 1] = f[i - 1]
      <3>1. \A i \in 0 .. m + 1 : i = 0 \/ i - 1 \in 0 .. m
        OBVIOUS
      <3> HIDE DEF g
      <3> QED BY <2>2, <3>1
    <2>4. g = [i \in 0 .. m + 1 |-> IF i = 0 THEN Untouched ELSE applyEvent(g[i - 1], es[i])]
      <3>1. \A i \in 0 .. m + 1 : next(i) = IF i = 0 THEN Untouched ELSE applyEvent(g[i - 1], es[i])
        <4> HIDE DEF g
        <4> QED BY <2>3, Zenon
      <3> HIDE DEF next
      <3>2. g = [i \in 0 .. m + 1 |-> next(i)]
        OBVIOUS
      <3> HIDE DEF g
      <3> QED BY <3>1, <3>2, Zenon
    <2>5. IsReduction(g, es, m + 1)
      <3> HIDE DEF g
      <3> QED BY <2>4 DEF IsReduction
    <2> HIDE DEF g
    <2> QED BY <2>5
  <1>3. most \in T
    <2> HIDE DEF T
    <2>1. T \in SUBSET Nat
      BY DEF T
    <2> QED BY <1>1, <1>2, <2>1, BlockInduction
  <1> QED BY <1>3

\* The reducer's answer is the last state of a reduction of the list of all blocks.
LEMMA ReducedList ==
    ASSUME IInv
    PROVE  \E l, f : /\ IsList(l, MaxHead)
                     /\ f[0] = Untouched
                     /\ \A i \in 1 .. Len(l[MaxHead]) :
                           f[i] = applyEvent(f[i - 1], Event(l[MaxHead][i]))
                     /\ reduceV3PositionEvents(listLiquidityEvents) = f[Len(l[MaxHead])]
  <1> DEFINE l == CHOOSE k : k = [b \in Blocks |-> (IF b = 0 THEN <<>> ELSE k[b - 1]) \o RowsOf(b)]
             es == [i \in 1 .. Len(l[MaxHead]) |-> Event(l[MaxHead][i])]
             f == CHOOSE g : g = [i \in 0 .. Len(es) |->
                                    IF i = 0 THEN Untouched ELSE applyEvent(g[i - 1], es[i])]
  <1>1. listLiquidityEvents = es
    BY Zenon DEF listLiquidityEvents
  <1>2. IsList(l, MaxHead)
    <2>1. \E k : k = [b \in Blocks |-> (IF b = 0 THEN <<>> ELSE k[b - 1]) \o RowsOf(b)]
      BY ListExists, Zenon DEF IsList, Blocks
    <2>2. l = [b \in Blocks |-> (IF b = 0 THEN <<>> ELSE l[b - 1]) \o RowsOf(b)]
      BY <2>1, Zenon
    <2> HIDE DEF l
    <2> QED BY <2>2 DEF IsList, Blocks
  <1>3. Len(l[MaxHead]) \in Nat
    <2>1. MaxHead \in Blocks
      BY V3Assumption DEF Blocks
    <2> HIDE DEF l
    <2> QED BY <1>2, <2>1, ListGrows, LenProperties
  <1>4. Len(es) = Len(l[MaxHead])
    <2> HIDE DEF l
    <2> QED BY <1>3
  <1>5. reduceV3PositionEvents(es) = f[Len(es)]
    <2> HIDE DEF es
    <2> QED BY Zenon DEF reduceV3PositionEvents
  <1> HIDE DEF l
  <1>6. \A i \in 1 .. Len(l[MaxHead]) : es[i] = Event(l[MaxHead][i])
    OBVIOUS
  <1> HIDE DEF es
  <1>7. IsReduction(f, es, Len(es))
    <2>1. \E g : g = [i \in 0 .. Len(es) |->
                        IF i = 0 THEN Untouched ELSE applyEvent(g[i - 1], es[i])]
      <3>1. PICK g : IsReduction(g, es, Len(es))
        BY <1>3, <1>4, ReductionExists
      <3> QED BY <3>1, Zenon DEF IsReduction
    <2>2. f = [i \in 0 .. Len(es) |-> IF i = 0 THEN Untouched ELSE applyEvent(f[i - 1], es[i])]
      BY <2>1, Zenon
    <2> HIDE DEF f
    <2> QED BY <2>2 DEF IsReduction
  <1> HIDE DEF f
  <1>8. \A i \in 0 .. Len(es) : f[i] = IF i = 0 THEN Untouched ELSE applyEvent(f[i - 1], es[i])
    BY <1>7, Zenon DEF IsReduction
  <1>9. f[0] = Untouched
    BY <1>3, <1>4, <1>8
  <1>10. \A i \in 1 .. Len(l[MaxHead]) : f[i] = applyEvent(f[i - 1], Event(l[MaxHead][i]))
    <2>1. \A i \in 1 .. Len(l[MaxHead]) : i \in 0 .. Len(es) /\ i # 0
      BY <1>3, <1>4
    <2> QED BY <1>6, <1>8, <2>1, Zenon
  <1> QED BY <1>1, <1>2, <1>4, <1>5, <1>9, <1>10

\* Every block from the deployment up to this one is indexed.
Full(b) == \A c \in Blocks : DeploymentBlock <= c /\ c <= b => Canonical(c) \in events

\* Where the reducer stands after the events up to a block: with all of them it agrees
\* with the chain there, and otherwise with the chain at an earlier final block, or
\* with no position at all.
Stands(s, b) ==
    /\ s \in State
    /\ Full(b) => Agrees(s, Chain[b])
    /\ b < DeploymentBlock => s.user = Nobody
    /\ s.user = Nobody \/ Full(b) \/ \E c \in Blocks : Final(c) /\ Agrees(s, Chain[c])

\* One block further.  What was there before the block is p and u.
LEMMA StandsNext ==
    ASSUME IInv, Prefix, NEW b \in Blocks, NEW p \in Position, p.liquidity \in Nat,
           NEW u \in State, NEW s,
           Chain[b] = Minted(p, History[b][version[b]]),
           Chain[b] \in Position /\ Chain[b].liquidity \in Nat,
           IF Listed(b) THEN s = applyEvent(u, Event(Canonical(b))) ELSE s = u,
           Full(b) => Agrees(u, p),
           b <= DeploymentBlock => u.user = Nobody,
           ~ Full(b) => \/ Canonical(b) \in events
                        \/ u.user = Nobody
                        \/ \E c \in Blocks : Final(c) /\ Agrees(u, Chain[c])
    PROVE  Stands(s, b)
  <1> DEFINE log == History[b][version[b]]
  <1>1. /\ log \in Logs /\ (b < DeploymentBlock => log.name \in {"Mint", "Burn"})
        /\ b \in Nat /\ DeploymentBlock \in Nat
    BY PositionsAssumption, V3Assumption DEF Logs, IInv, TypeOK, Blocks
  <1>2. Event(Canonical(b)) = parseV3LiquidityLog(log)
    BY DEF Event, Canonical
  <1>3. Listed(b) <=> Canonical(b) \in events /\ log.name \notin {"Mint", "Burn"}
    <2> HIDE DEF log
    <2>1. parseV3LiquidityLog(log).token <=> log.name \notin {"Mint", "Burn"}
      BY AppliedBy
    <2> QED BY <1>2, <2>1 DEF Listed
  <1>4. ~ Full(b) => Canonical(b) \notin events
    <2> SUFFICES ASSUME Canonical(b) \in events, NEW c \in Blocks, DeploymentBlock <= c, c <= b
                 PROVE  Canonical(c) \in events
      BY DEF Full
    <2>1. Canonical(b).block = b
      BY DEF Canonical
    <2>2. c = b \/ c < b
      BY DEF Blocks
    <2> QED BY <2>1, <2>2 DEF Prefix, NoHole
  <1>5. CASE Full(b)
    <2>1. CASE log.name \in {"Mint", "Burn"}
      <3>1. s = u /\ Chain[b] = p
        BY <1>3, <2>1, MintedBy
      <3> QED BY <1>1, <1>5, <3>1 DEF Stands
    <2>2. CASE log.name \notin {"Mint", "Burn"}
      <3>1. ~ (b < DeploymentBlock)
        BY <1>1, <2>2
      <3>2. Canonical(b) \in events
        BY <1>1, <1>5, <3>1 DEF Full
      <3>3. s = Applied(u, log)
        BY <1>2, <1>3, <2>2, <3>2 DEF Applied
      <3>4. s \in State /\ Agrees(s, Chain[b])
        BY <1>1, <1>5, <2>2, <3>3, AppliedAgrees
      <3> QED BY <1>5, <3>1, <3>4 DEF Stands
    <2> QED BY <2>1, <2>2
  <1>6. CASE ~ Full(b)
    <2>1. s = u
      BY <1>3, <1>4, <1>6
    <2> QED BY <1>1, <1>4, <1>6, <2>1 DEF Stands
  <1> QED BY <1>5, <1>6

\* What the reducer makes of the indexed events is a position of the chain at a final
\* block, if it names an owner at all.
LEMMA ReducedWasReal ==
    ASSUME IInv, Prefix, reduceV3PositionEvents(listLiquidityEvents).user \in Users
    PROVE  LET s == reduceV3PositionEvents(listLiquidityEvents)
           IN  s \in State /\ \E b \in Blocks : Final(b) /\ Agrees(s, Chain[b])
  <1>1. PICK l, f : /\ IsList(l, MaxHead)
                    /\ f[0] = Untouched
                    /\ \A i \in 1 .. Len(l[MaxHead]) :
                          f[i] = applyEvent(f[i - 1], Event(l[MaxHead][i]))
                    /\ reduceV3PositionEvents(listLiquidityEvents) = f[Len(l[MaxHead])]
    BY ReducedList
  <1> DEFINE after(b) == f[Len(l[b])]
             T == {b \in Nat : b <= MaxHead => Stands(after(b), b)}
  <1>2. MaxHead \in Nat /\ DeploymentBlock \in Nat /\ 0 \in Blocks /\ MaxHead \in Blocks
        /\ version \in [Blocks -> Versions]
    BY V3Assumption DEF Blocks, IInv, TypeOK
  <1>3. /\ Untouched \in State /\ Unminted \in Position
        /\ Unminted.liquidity \in Nat /\ Agrees(Untouched, Unminted) /\ Untouched.user = Nobody
    BY DEF Untouched, Unminted, State, Position, Agrees
  <1>4. \A b \in Blocks : /\ l[b] \in Seq(Row) /\ Len(l[b]) \in Nat
                          /\ Len(l[b]) <= Len(l[MaxHead])
                          /\ \A i \in 1 .. Len(l[b]) : l[MaxHead][i] = l[b][i]
    BY <1>1, ListGrows, ListBegins, LenProperties
  <1>5. \A b \in Blocks : Chain[b] \in Position /\ Chain[b].liquidity \in Nat
    BY <1>2, ChainTyped
  <1>6. ASSUME NEW b \in Blocks, NEW n \in Nat, Len(l[b]) = n + 1
        PROVE  f[n + 1] = applyEvent(f[n], Event(l[b][n + 1]))
    <2>1. n + 1 \in 1 .. Len(l[b]) /\ n + 1 \in 1 .. Len(l[MaxHead]) /\ n + 1 - 1 = n
      BY <1>2, <1>4, <1>6
    <2>2. l[MaxHead][n + 1] = l[b][n + 1]
      BY <1>4, <2>1
    <2> DEFINE k == n + 1
    <2>3. f[k] = applyEvent(f[k - 1], Event(l[MaxHead][k]))
      <3> HIDE DEF k
      <3> QED BY <1>1, <2>1 DEF k
    <2> QED BY <2>1, <2>2, <2>3
  <1>7. Stands(after(0), 0)
    <2>1. Chain[0] = Minted(Unminted, History[0][version[0]])
      BY <1>2, ChainUnfolds DEF Chain
    <2>2. /\ ~ Listed(0) => Len(l[0]) = 0
          /\ Listed(0) => Len(l[0]) = 0 + 1 /\ l[0][0 + 1] = Canonical(0)
      BY <1>1, <1>2, ListGrows
    <2>3. IF Listed(0) THEN after(0) = applyEvent(Untouched, Event(Canonical(0)))
          ELSE after(0) = Untouched
      BY <1>1, <1>2, <1>6, <2>2
    <2> HIDE DEF after
    <2> QED BY <1>2, <1>3, <1>5, <2>1, <2>3, StandsNext
  <1>8. ASSUME NEW m \in T, m < MaxHead PROVE m + 1 \in T
    <2> DEFINE b == m + 1
    <2>1. m \in Nat /\ m <= MaxHead /\ b \in Blocks /\ b # 0 /\ b - 1 = m /\ m \in Blocks
      BY <1>2, <1>8 DEF Blocks
    <2>2. Stands(after(m), m)
      BY <1>8, <2>1
    <2>3. Chain[b] = Minted(Chain[m], History[b][version[b]])
      <3> HIDE DEF b
      <3> QED BY <2>1, ChainUnfolds DEF Chain
    <2>4. /\ ~ Listed(b) => Len(l[b]) = Len(l[m])
          /\ Listed(b) => Len(l[b]) = Len(l[m]) + 1 /\ l[b][Len(l[b])] = Canonical(b)
      <3> HIDE DEF b
      <3> QED BY <1>1, <2>1, ListGrows
    <2>5. IF Listed(b) THEN after(b) = applyEvent(after(m), Event(Canonical(b)))
          ELSE after(b) = after(m)
      <3> HIDE DEF b
      <3>1. CASE Listed(b)
        <4>1. f[Len(l[m]) + 1] = applyEvent(f[Len(l[m])], Event(l[b][Len(l[m]) + 1]))
          BY <1>4, <1>6, <2>1, <2>4, <3>1
        <4> QED BY <2>4, <3>1, <4>1
      <3>2. CASE ~ Listed(b)
        BY <2>4, <3>2
      <3> QED BY <3>1, <3>2
    <2>6. Full(b) => Full(m)
      BY <2>1 DEF Full, Blocks
    <2>7. Full(m) => Final(m) \/ m < DeploymentBlock
      <3> SUFFICES ASSUME Full(m), DeploymentBlock <= m PROVE Final(m)
        BY <1>2, <2>1
      <3>1. Canonical(m) \in events /\ Canonical(m).block = m
        BY <2>1 DEF Full, Canonical
      <3> QED BY <3>1 DEF IInv, RowsFinal
    <2> HIDE DEF after, b
    <2>8. after(m) \in State
      BY <2>2 DEF Stands
    <2>9. b <= DeploymentBlock => after(m).user = Nobody
      <3>1. b <= DeploymentBlock => m < DeploymentBlock
        BY <1>2, <2>1 DEF b
      <3> QED BY <2>2, <3>1 DEF Stands
    <2>10. \/ after(m).user = Nobody \/ Full(m)
           \/ \E c \in Blocks : Final(c) /\ Agrees(after(m), Chain[c])
      BY <2>2 DEF Stands
    <2>11. Full(m) => \/ after(m).user = Nobody
                      \/ \E c \in Blocks : Final(c) /\ Agrees(after(m), Chain[c])
      BY <2>1, <2>2, <2>7 DEF Stands
    <2>12. Stands(after(b), b)
      BY <1>5, <2>1, <2>2, <2>3, <2>5, <2>6, <2>8, <2>9, <2>10, <2>11, StandsNext DEF Stands
    <2> QED BY <2>1, <2>12 DEF b
  <1>9. MaxHead \in T
    <2> HIDE DEF after
    <2>1. 0 \in T
      BY <1>7
    <2> HIDE DEF T
    <2>2. T \in SUBSET Nat
      BY DEF T
    <2> QED BY <1>2, <1>8, <2>1, <2>2, BlockInduction
  <1> DEFINE s == after(MaxHead)
  <1>10. s = reduceV3PositionEvents(listLiquidityEvents)
    BY <1>1
  <1>11. Stands(s, MaxHead)
    BY <1>2, <1>9
  <1> HIDE DEF s
  <1>12. s.user # Nobody /\ s \in State
    BY <1>10, <1>11, PositionsAssumption DEF Stands
  <1>13. CASE Full(MaxHead)
    <2>1. ~ (MaxHead < DeploymentBlock) /\ Agrees(s, Chain[MaxHead])
      BY <1>11, <1>12, <1>13 DEF Stands
    <2>2. Canonical(MaxHead) \in events /\ Canonical(MaxHead).block = MaxHead
      BY <1>2, <1>13, <2>1 DEF Full, Canonical
    <2>3. Final(MaxHead)
      BY <2>2 DEF IInv, RowsFinal
    <2> QED BY <1>2, <1>10, <1>12, <2>1, <2>3
  <1>14. CASE ~ Full(MaxHead)
    BY <1>10, <1>11, <1>12, <1>14 DEF Stands
  <1> QED BY <1>13, <1>14

-----------------------------------------------------------------------------
\* What a row of liquidity_positions and a reconciliation may hold.
RowState ==
    [source : {"none", "claimed", "chain", "indexed"}, user : Users \cup {Nobody},
     liquidity : Nat, fees : Nat, cost : Nat, active : BOOLEAN]
RequestState ==
    [stage : {"none", "read", "write"}, protocol : Protocols, user : Users \cup {Nobody},
     state : RowState]

PositionsTypeOK ==
    rows \in [Protocols -> RowState] /\ request \in [Requests -> RequestState]

\* A state of a position that was the chain's at a final block, but for withdrawals in
\* excess of what was put in.
Real(s) ==
    \E b \in Blocks :
       /\ Final(b)
       /\ Chain[b].owner = s.user
       /\ s.fees = Chain[b].fees
       /\ s.liquidity >= Chain[b].liquidity
       /\ s.liquidity = Chain[b].liquidity \/ Chain[b].excess

\* What a reconciliation is about to write was real when it read the events, and still is.
RequestSound(k) ==
    /\ k.stage = "read" => k.user \in Users
    /\ k.stage = "write" /\ k.protocol = "v3" => Real(k.state)

PInv == /\ IInv /\ Prefix /\ PositionsTypeOK
        /\ \A r \in Requests : RequestSound(request[r])
        /\ rows["v3"].source = "indexed" => Real(rows["v3"])

\* What is final stays so, and as it is.
LEMMA FinalKept ==
    ASSUME IInv, [Next]_vars
    PROVE  \A b \in Blocks : Final(b) => Final(b)' /\ version'[b] = version[b]
  <1>1. CASE NewBlock
    BY <1>1, V3Assumption DEF NewBlock, Final, IInv, TypeOK, Blocks
  <1>2. CASE Reorg
    BY <1>2, V3Assumption DEF Reorg, Final, IInv, TypeOK, Blocks
  <1>3. CASE UNCHANGED <<head, version>>
    BY <1>3 DEF Final
  <1> QED BY <1>1, <1>2, <1>3 DEF Next, Step, ReadHead, NextRange, ReadLogs, InsertEvent,
                                 SaveCursor, FailTick, vars

\* What was real stays real, whatever a reorganisation replaces.
LEMMA RealKept == ASSUME IInv, [Next]_vars, NEW s, Real(s) PROVE Real(s)'
  <1>1. PICK b \in Blocks :
           /\ Final(b)
           /\ Chain[b].owner = s.user
           /\ s.fees = Chain[b].fees
           /\ s.liquidity >= Chain[b].liquidity
           /\ s.liquidity = Chain[b].liquidity \/ Chain[b].excess
    BY DEF Real
  <1>2. \A c \in 0 .. b : c \in Blocks /\ Final(c)
    BY <1>1, V3Assumption DEF Final, Blocks, IInv, TypeOK
  <1>3. \A c \in 0 .. b : version'[c] = version[c]
    BY <1>2, FinalKept
  <1>4. ChainOf(version')[b] = ChainOf(version)[b]
    BY <1>3, ChainsAgree
  <1>5. Chain'[b] = Chain[b]
    BY <1>4 DEF Chain
  <1>6. Final(b)'
    BY <1>1, FinalKept
  <1> QED BY <1>1, <1>5, <1>6 DEF Real

\* Steps that leave the chain alone leave what was real.
LEMMA RealSame == ASSUME UNCHANGED <<head, version>>, NEW s PROVE Real(s)' <=> Real(s)
  BY DEF Real, Final, Chain

\* Nothing is recorded at first.
LEMMA InitPInv == Init /\ PositionsInit => PInv
  <1> SUFFICES ASSUME Init, PositionsInit PROVE PInv
    OBVIOUS
  <1>1. IInv /\ Prefix
    BY InitIInv DEF Init, Prefix, NoHole, TodoInRange, InRange, Idle, At
  <1>2. NoRow \in RowState
    BY DEF NoRow, RowState
  <1>3. NoRequest \in RequestState
    BY <1>2 DEF NoRequest, RequestState, Protocols
  <1>4. PositionsTypeOK
    BY <1>2, <1>3 DEF PositionsInit, PositionsTypeOK
  <1> QED BY <1>1, <1>4 DEF PositionsInit, PInv, RequestSound, NoRequest, NoRow, Protocols

\* The indexer's steps leave rows and reconciliations alone.
LEMMA IndexerPInv == ASSUME PInv, Next, UNCHANGED pvars PROVE PInv'
  <1>1. IInv' /\ Prefix'
    BY IndexerKeeps, PrefixNext DEF PInv
  <1>2. rows' = rows /\ request' = request
    BY DEF pvars
  <1>3. \A s : Real(s) => Real(s)'
    BY RealKept DEF PInv
  <1>4. \A r \in Requests : RequestSound(request[r])'
    BY <1>2, <1>3 DEF PInv, RequestSound
  <1>5. (rows["v3"].source = "indexed" => Real(rows["v3"]))'
    BY <1>2, <1>3 DEF PInv
  <1>6. PositionsTypeOK'
    BY <1>2 DEF PInv, PositionsTypeOK
  <1> QED BY <1>1, <1>4, <1>5, <1>6 DEF PInv

\* A step of the positions leaves the indexer alone; what it puts into a row and into a
\* reconciliation is all that has to be looked at.
LEMMA RowsStep ==
    ASSUME PInv, UNCHANGED vars, NEW p \in Protocols, NEW s \in RowState,
           rows' = [rows EXCEPT ![p] = s], p = "v3" /\ s.source = "indexed" => Real(s),
           request' \in [Requests -> RequestState],
           \A r \in Requests : request'[r] = request[r] \/ RequestSound(request'[r])
    PROVE  PInv'
  <1>1. UNCHANGED <<head, version, events, tick, cursor>>
    BY DEF vars
  <1>2. IInv' /\ Prefix'
    BY <1>1, IndexerKeeps, PrefixNext DEF PInv, vars
  <1>3. \A t : Real(t)' <=> Real(t)
    BY <1>1, RealSame
  <1>4. \A r \in Requests : RequestSound(request'[r])
    BY DEF PInv
  <1>5. \A r \in Requests : RequestSound(request[r])'
    BY <1>3, <1>4 DEF RequestSound
  <1>6. "v3" \in Protocols
    BY DEF Protocols
  <1>7. (rows["v3"].source = "indexed" => Real(rows["v3"]))'
    BY <1>3, <1>6 DEF PInv, PositionsTypeOK
  <1>8. PositionsTypeOK'
    BY DEF PInv, PositionsTypeOK
  <1> QED BY <1>2, <1>5, <1>7, <1>8 DEF PInv

\* The same of a step that changes a reconciliation only.
LEMMA RequestStep ==
    ASSUME PInv, UNCHANGED <<vars, rows>>, NEW r \in Requests, NEW k \in RequestState,
           request' = [request EXCEPT ![r] = k], RequestSound(k)
    PROVE  PInv'
  <1>1. "v3" \in Protocols /\ rows["v3"] \in RowState /\ rows' = [rows EXCEPT !["v3"] = rows["v3"]]
    BY DEF PInv, PositionsTypeOK, Protocols
  <1>2. /\ request' \in [Requests -> RequestState]
        /\ \A q \in Requests : request'[q] = request[q] \/ RequestSound(request'[q])
    BY DEF PInv, PositionsTypeOK
  <1> QED BY <1>1, <1>2, RowsStep DEF PInv

\* A request that is over is sound.
LEMMA NoRequestSound == NoRequest \in RequestState /\ RequestSound(NoRequest)
  BY DEF NoRequest, RequestState, RequestSound, NoRow, RowState, Protocols

\* Every step of the positions keeps what is shown real.
LEMMA PositionsPInv == ASSUME PInv, PositionsNext PROVE PInv'
  <1>1. ASSUME NEW p \in Protocols, NEW u \in Users, recordPosition(p, u) PROVE PInv'
    <2>1. PICK claim \in Claims : rows' = [rows EXCEPT ![p] = Claimed(u, claim)]
      BY <1>1 DEF recordPosition
    <2>2. Claimed(u, claim) \in RowState /\ Claimed(u, claim).source = "claimed"
      BY <2>1, PositionsAssumption DEF Claimed, NoRow, RowState
    <2>3. UNCHANGED <<vars, request>>
      BY <1>1 DEF recordPosition
    <2> QED BY <2>1, <2>2, <2>3, RowsStep DEF PInv, PositionsTypeOK
  <1>2. ASSUME NEW r \in Requests, NEW u \in Users, readV3PositionState(r, u) PROVE PInv'
    <2> DEFINE k == [NoRequest EXCEPT !.stage = "read", !.user = u]
    <2>1. request' = [request EXCEPT ![r] = k] /\ UNCHANGED <<vars, rows>>
      BY <1>2 DEF readV3PositionState
    <2>2. k \in RequestState /\ RequestSound(k)
      BY DEF NoRequest, RequestState, RequestSound, NoRow, RowState, Protocols
    <2> HIDE DEF k
    <2> QED BY <2>1, <2>2, RequestStep
  <1>3. ASSUME NEW r \in Requests, NEW u \in Users, readV4PositionState(r, u) PROVE PInv'
    <2> DEFINE s(h) == [NoRow EXCEPT !.source = "chain", !.user = u, !.liquidity = Chain[h].liquidity]
               k(h) == [stage |-> "write", protocol |-> "v4", user |-> u, state |-> s(h)]
    <2>1. PICK h \in Blocks : request' = [request EXCEPT ![r] = k(h)]
      BY <1>3 DEF readV4PositionState
    <2>2. UNCHANGED <<vars, rows>>
      BY <1>3 DEF readV4PositionState
    <2>3. Chain[h].liquidity \in Nat
      BY ChainTyped DEF PInv, IInv, TypeOK
    <2>4. s(h) \in RowState
      BY <2>3 DEF NoRow, RowState
    <2> HIDE DEF s
    <2>5. k(h) \in RequestState /\ RequestSound(k(h))
      BY <2>4 DEF RequestState, RequestSound, Protocols
    <2> HIDE DEF k
    <2> QED BY <2>1, <2>2, <2>5, RequestStep
  <1>4. ASSUME NEW r \in Requests, reduceIndexed(r) PROVE PInv'
    <2> DEFINE s == reduceV3PositionEvents(listLiquidityEvents)
               w == [source |-> "indexed", user |-> s.user, liquidity |-> s.liquidity,
                     fees |-> s.fees, cost |-> s.cost, active |-> s.active]
               k == [request[r] EXCEPT !.stage = "write", !.state = w]
    <2>1. request[r] \in RequestState /\ request[r].user \in Users
      BY <1>4 DEF reduceIndexed, PInv, RequestSound, PositionsTypeOK
    <2>2. UNCHANGED <<vars, rows>>
      BY <1>4 DEF reduceIndexed
    <2>3. request' = [request EXCEPT ![r] = IF s.user # request[r].user THEN NoRequest ELSE k]
      BY <1>4 DEF reduceIndexed
    <2>4. CASE s.user # request[r].user
      BY <2>2, <2>3, <2>4, NoRequestSound, RequestStep
    <2>5. CASE s.user = request[r].user
      <3>1. s.user \in Users
        BY <2>1, <2>5
      <3>2. PICK b \in Blocks : Final(b) /\ Agrees(s, Chain[b])
        BY <3>1, ReducedWasReal DEF PInv
      <3>3. s \in State
        BY <3>1, ReducedWasReal DEF PInv
      <3> HIDE DEF s
      <3>4. w \in RowState
        BY <3>3 DEF State, RowState
      <3>5. Real(w)
        BY <3>2 DEF Real, Agrees
      <3> HIDE DEF w
      <3>6. k \in RequestState /\ RequestSound(k)
        BY <2>1, <3>4, <3>5 DEF RequestState, RequestSound
      <3> HIDE DEF k
      <3> QED BY <2>2, <2>3, <2>5, <3>6, RequestStep
    <2> QED BY <2>4, <2>5
  <1>5. ASSUME NEW r \in Requests, updateLiquidityPosition(r) PROVE PInv'
    <2> DEFINE s == IF rows["v3"] = NoRow THEN NoRow ELSE request[r].state
    <2>1. rows' = [rows EXCEPT !["v3"] = s]
      BY <1>5 DEF updateLiquidityPosition
    <2>2. s \in RowState /\ (s.source = "indexed" => Real(s))
      BY <1>5 DEF updateLiquidityPosition, PInv, PositionsTypeOK, RequestState, RequestSound,
                  NoRow, RowState
    <2>3. UNCHANGED vars /\ request' = [request EXCEPT ![r] = NoRequest]
      BY <1>5 DEF updateLiquidityPosition
    <2>4. /\ request' \in [Requests -> RequestState]
          /\ \A q \in Requests : request'[q] = request[q] \/ RequestSound(request'[q])
      BY <2>3, NoRequestSound DEF PInv, PositionsTypeOK
    <2>5. "v3" \in Protocols
      BY DEF Protocols
    <2> HIDE DEF s
    <2> QED BY <2>1, <2>2, <2>3, <2>4, <2>5, RowsStep
  <1>6. ASSUME NEW r \in Requests, updateV4LiquidityPosition(r) PROVE PInv'
    <2> DEFINE k == request[r].state
               s == IF rows["v4"] = NoRow THEN NoRow
                    ELSE [rows["v4"] EXCEPT !.source = k.source, !.user = k.user,
                                            !.liquidity = k.liquidity, !.active = TRUE]
    <2>1. rows' = [rows EXCEPT !["v4"] = s]
      BY <1>6 DEF updateV4LiquidityPosition
    <2>2. "v4" \in Protocols /\ k \in RowState /\ rows["v4"] \in RowState
      BY DEF PInv, PositionsTypeOK, RequestState, Protocols
    <2>3. s \in RowState
      <3> HIDE DEF k
      <3> QED BY <2>2 DEF NoRow, RowState
    <2>4. UNCHANGED vars /\ request' = [request EXCEPT ![r] = NoRequest]
      BY <1>6 DEF updateV4LiquidityPosition
    <2>5. /\ request' \in [Requests -> RequestState]
          /\ \A q \in Requests : request'[q] = request[q] \/ RequestSound(request'[q])
      BY <2>4, NoRequestSound DEF PInv, PositionsTypeOK
    <2> HIDE DEF s
    <2> QED BY <2>1, <2>2, <2>3, <2>4, <2>5, RowsStep
  <1>7. ASSUME NEW r \in Requests, FailRequest(r) PROVE PInv'
    BY <1>7, NoRequestSound, RequestStep DEF FailRequest
  <1> QED BY <1>1, <1>2, <1>3, <1>4, <1>5, <1>6, <1>7 DEF PositionsNext

\* A reconciled v3 position that is shown was its user's at a final block, with the fees
\* and the liquidity of that block, but for withdrawals in excess: for every number of
\* overlapping ticks and reconciliations, every history and every reorganisation that is
\* no deeper than the confirmations.
THEOREM ShownWereReal == PositionsSpec => []ShownPositionsWereReal
  <1>1. PInv /\ [(Next /\ UNCHANGED pvars) \/ PositionsNext]_<<vars, pvars>> => PInv'
    <2>1. CASE PInv /\ UNCHANGED <<vars, pvars>>
      <3>1. UNCHANGED vars /\ rows' = rows /\ request' = request
        BY <2>1 DEF pvars
      <3>2. rows' = [rows EXCEPT !["v3"] = rows["v3"]] /\ "v3" \in Protocols
        BY <2>1, <3>1 DEF PInv, PositionsTypeOK, Protocols
      <3> QED BY <2>1, <3>1, <3>2, RowsStep DEF PInv, PositionsTypeOK
    <2> QED BY <2>1, IndexerPInv, PositionsPInv
  <1>2. PInv => ShownPositionsWereReal
    <2> SUFFICES ASSUME PInv, NEW u \in Users, "v3" \in listByUser(u), rows["v3"].source = "indexed"
                 PROVE  \E b \in Blocks :
                           /\ Final(b)
                           /\ Chain[b].owner = u
                           /\ rows["v3"].fees = Chain[b].fees
                           /\ rows["v3"].liquidity >= Chain[b].liquidity
                           /\ rows["v3"].liquidity = Chain[b].liquidity \/ Chain[b].excess
      BY DEF ShownPositionsWereReal
    <2>1. Real(rows["v3"])
      BY DEF PInv
    <2>2. rows["v3"].user = u
      BY DEF listByUser
    <2> QED BY <2>1, <2>2 DEF Real
  <1> QED BY <1>1, <1>2, InitPInv, PTL DEF PositionsSpec
=============================================================================
