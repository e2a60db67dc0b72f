----------------------------- MODULE TwapOracle -----------------------------
(***************************************************************************)
(* The TWAP oracle of packages/contracts/src/hook/AetherHook.sol for one   *)
(* pool: afterSwap samples the terminal tick into a ring of observations   *)
(* with a running sum of tick * seconds, and getTwapTick reads the average *)
(* tick of a window from two such sums.                                    *)
(*                                                                         *)
(* Ticks are integers.  int56 sums do not wrap: |tick| <= 887272 and the   *)
(* 32-bit seconds keep them below 2^52.  Time starts at 0, and the wrap of *)
(* 32-bit seconds in 2106 is not modelled.                                 *)
(***************************************************************************)
EXTENDS Integers, FiniteSets

CONSTANTS
    Size,           \* OBSERVATION_BUFFER_SIZE
    Ticks,          \* ticks a pool may have
    MaxTime,        \* bound: the last block timestamp
    InputPositive   \* does PoolManager report what the swapper pays as a
                    \* positive delta?  AetherHook reads it so; AetherTPSL and
                    \* AetherRouter read it as negative

VARIABLES
    time,     \* block.timestamp
    obs,      \* _observations of the pool
    index,    \* observationIndex
    count,    \* observationCount
    traded,   \* the timestamps at which a swap paid in and paid out
    sampled,  \* the terminal tick of the latest such swap
    trace     \* trace[s]: the terminal tick that held from second s to s + 1

vars == <<time, obs, index, count, traded, sampled, trace>>

Slots  == 0 .. Size - 1
Times  == 0 .. MaxTime
NoTick == 0

Init ==
    /\ time = 0
    /\ obs = [i \in Slots |-> [timestamp |-> 0, tickCumulative |-> 0, tick |-> 0]]
    /\ index = 0 /\ count = 0
    /\ traded = {} /\ sampled = NoTick
    /\ trace = [s \in Times |-> NoTick]

TypeOK ==
    /\ time \in Times
    /\ obs \in [Slots -> [timestamp : Times, tickCumulative : Int, tick : Int]]
    /\ index \in Slots /\ count \in 0 .. Size
    /\ traded \subseteq Times /\ sampled \in Ticks \cup {NoTick}
    /\ trace \in [Times -> Ticks \cup {NoTick}]

-----------------------------------------------------------------------------
\* _recordObservation: the first sample, a second one in the same block, and
\* one that advances the ring.
NextIndex == (index + 1) % Size

\* Mutant of Sample: a second swap in a block takes a slot of its own.
SampleNoFold(tick) ==
    LET slot == IF count = 0 THEN 0 ELSE NextIndex
        sum  == IF count = 0 THEN 0
                ELSE obs[index].tickCumulative
                       + obs[index].tick * (time - obs[index].timestamp)
    IN  /\ obs' = [obs EXCEPT ![slot] =
                     [timestamp |-> time, tickCumulative |-> sum, tick |-> tick]]
        /\ index' = slot
        /\ count' = IF count < Size THEN count + 1 ELSE count

Sample(tick) ==
    \/ /\ count = 0
       /\ obs' = [obs EXCEPT ![0] = [timestamp |-> time, tickCumulative |-> 0, tick |-> tick]]
       /\ index' = 0 /\ count' = 1
    \/ /\ count > 0 /\ obs[index].timestamp = time
       /\ obs' = [obs EXCEPT ![index].tick = tick]
       /\ UNCHANGED <<index, count>>
    \/ /\ count > 0 /\ obs[index].timestamp # time
       /\ obs' = [obs EXCEPT ![NextIndex] =
                    [timestamp |-> time, tick |-> tick,
                     tickCumulative |-> obs[index].tickCumulative
                          + obs[index].tick * (time - obs[index].timestamp)]]
       /\ index' = NextIndex
       /\ count' = IF count < Size THEN count + 1 ELSE count

\* afterSwap.  paid and got are what the swapper paid and received; the gate
\* wants a positive input delta and a negative output delta.
Sampled(paid, got) ==
    LET deltaIn  == IF InputPositive THEN paid ELSE 0 - paid
        deltaOut == IF InputPositive THEN 0 - got ELSE got
    IN  deltaIn > 0 /\ deltaOut < 0

AfterSwap(tick, paid, got) ==
    /\ IF Sampled(paid, got) THEN Sample(tick) ELSE UNCHANGED <<obs, index, count>>
    /\ IF paid > 0 /\ got > 0
       THEN traded' = traded \cup {time} /\ sampled' = tick
       ELSE UNCHANGED <<traded, sampled>>
    /\ UNCHANGED <<time, trace>>

Tick ==
    /\ time < MaxTime
    /\ time' = time + 1
    /\ trace' = [trace EXCEPT ![time] = sampled]
    /\ UNCHANGED <<obs, index, count, traded, sampled>>

Next == Tick \/ \E tick \in Ticks, paid, got \in {0, 1} : AfterSwap(tick, paid, got)

Spec == Init /\ [][Next]_vars

-----------------------------------------------------------------------------
\* _observeCumulative.  At(k) is the k-th oldest observation.
OldestIndexZero == 0  \* mutant of OldestIndex: as if the ring never wrapped
OldestIndex == IF count < Size THEN 0 ELSE (index + 1) % Size
At(k)       == obs[(OldestIndex + k) % Size]
Newest      == obs[index]

\* The binary search for the first observation newer than target.
Middle(l, r) == (l + r) \div 2
Spans == (0 .. Size) \X (0 .. Size)
Search(target) ==
    LET search[span \in Spans] ==
          IF span[1] >= span[2] THEN span[1]
          ELSE LET mid == Middle(span[1], span[2])
               IN  IF At(mid).timestamp <= target THEN search[<<mid + 1, span[2]>>]
                   ELSE search[<<span[1], mid>>]
    IN  search
FirstAfter(target) == Search(target)[<<0, count - 1>>]

Answers(target) == count > 0 /\ target >= At(0).timestamp

Extend(o, target) == o.tickCumulative + o.tick * (target - o.timestamp)

ObserveCumulative(target) ==
    IF target >= Newest.timestamp THEN Extend(Newest, target)
    ELSE IF target = At(0).timestamp THEN At(0).tickCumulative
    ELSE Extend(At(FirstAfter(target) - 1), target)

\* getTwapTick: Solidity's division truncates; the quotient of a negative sum
\* that does not divide is decremented.
TwapAnswers(secondsAgo) ==
    /\ secondsAgo # 0 /\ count >= 2
    /\ Answers(time) /\ Answers(time - secondsAgo)

Truncated(n, d) == IF n >= 0 THEN n \div d ELSE 0 - ((0 - n) \div d)
AverageTruncated(n, d) == Truncated(n, d)  \* mutant of Average: no floor
Average(n, d) ==
    IF n < 0 /\ (0 - n) % d # 0 THEN Truncated(n, d) - 1 ELSE Truncated(n, d)

TwapTick(secondsAgo) ==
    Average(ObserveCumulative(time) - ObserveCumulative(time - secondsAgo), secondsAgo)

-----------------------------------------------------------------------------
\* The reference: the sum of the ticks that held in each second of a window.
WindowSum[n \in Times] ==
    IF n = 0 THEN 0 ELSE WindowSum[n - 1] + trace[time - n]

\* The oracle's average is the floor of the true time-weighted average of the
\* sampled ticks: over any window it answers for, across the seam of the ring,
\* with several swaps in a block and for negative ticks.
TwapExact ==
    \A w \in 1 .. time :
        TwapAnswers(w) => /\ TwapTick(w) * w <= WindowSum[w]
                          /\ WindowSum[w] < (TwapTick(w) + 1) * w

\* The ring, read from the oldest slot, is strictly ordered in time: what the
\* binary search and the interpolation rely on.
RingOrdered ==
    /\ \A j, k \in 0 .. count - 1 : j < k => At(j).timestamp < At(k).timestamp
    /\ count > 0 => At(count - 1) = Newest /\ Newest.timestamp <= time

\* The oracle refuses only what it has forgotten: it answers for every window
\* that starts at or after the Size-th latest trading block.
AnswersWhatItKeeps ==
    Cardinality(traded) >= 2 =>
        \A w \in 1 .. time :
            (\E s \in traded : s <= time - w) /\ Cardinality({s \in traded : s >= time - w}) < Size
                => TwapAnswers(w)

\* "the keeper-safe substrate the V4-native TP/SL + auto-recenter will verify
\* triggers against": after trades in two blocks the oracle has a TWAP.
TradesAreSampled == Cardinality(traded) >= 2 => count >= 2
=============================================================================
