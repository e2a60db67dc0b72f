------------------------------ MODULE Positions ------------------------------
(***************************************************************************)
(* The liquidity positions the API shows: routes/positions.ts,             *)
(* services/position.service.ts and v3-position-reducer.ts, over the       *)
(* events V3Indexer keeps.  A position is first recorded as its owner      *)
(* claims it; a reconciliation reads the chain, then the indexed events,   *)
(* and rewrites the row from them, one await after the other.  v4          *)
(* positions have no events and are rewritten from the chain alone.        *)
(*                                                                         *)
(* One position is followed; amount0 stands for both amounts.              *)
(***************************************************************************)
EXTENDS V3Indexer, SequencesExt

CONSTANTS
    Users,
    Nobody,     \* null, and the zero address
    Requests,   \* bound: reconciliations under way at once
    Claims,     \* bound: liquidity a client may record
    MaxRows,    \* bound: rows of liquidity_positions
    History     \* History[b][v]: the log that version v of block b holds

VARIABLES
    rows,       \* rows[p]: the row of the position for protocol p
    request     \* request[r]: how far reconciliation r got

pvars == <<rows, request>>

Protocols == {"v3", "v4"}
NoRow     == [source |-> "none", user |-> Nobody, liquidity |-> 0, fees |-> 0,
              cost |-> 0, active |-> FALSE]
NoRequest == [stage |-> "none", protocol |-> "v3", user |-> Nobody, state |-> NoRow]

PositionsInit ==
    /\ rows = [p \in Protocols |-> NoRow]
    /\ request = [r \in Requests |-> NoRequest]

-----------------------------------------------------------------------------
\* What the position manager does, block by block of a chain; net is what was put
\* in of a token less what was withdrawn, which is in excess once the price has
\* moved so that more comes out.
Unminted == [owner |-> Nobody, liquidity |-> 0, net |-> 0, excess |-> FALSE, fees |-> 0]
Exceeds(position, log) == position.excess \/ position.net < log.amount
Minted(position, log) ==
    CASE log.name = "Transfer"          -> [position EXCEPT !.owner = log.user]
      [] log.name = "Collect"           -> [position EXCEPT !.fees = @ + log.amount]
      [] log.name = "IncreaseLiquidity" ->
           [position EXCEPT !.liquidity = @ + log.liquidity, !.net = @ + log.amount]
      [] log.name = "DecreaseLiquidity" ->
           [position EXCEPT !.liquidity = @ - log.liquidity, !.net = @ - log.amount,
                            !.excess = Exceeds(position, log)]
      [] OTHER                          -> position

ChainOf(v) ==
    LET c[b \in Blocks] ==
          Minted(IF b = 0 THEN Unminted ELSE c[b - 1], History[b][v[b]])
    IN  c
Chain == ChainOf(version)

LogNames == {"Transfer", "Collect", "IncreaseLiquidity", "DecreaseLiquidity", "Mint", "Burn"}

\* The contract exists from its deployment on, and gives back no more liquidity
\* than a position has, whichever branch wins.
ASSUME PositionsAssumption ==
    /\ Nobody \notin Users /\ Claims \subseteq Nat
    /\ \A b \in Blocks, v \in Versions :
          /\ History[b][v] \in [name : LogNames, user : Users \cup {Nobody},
                                liquidity : Nat, amount : Nat]
          /\ b < DeploymentBlock => History[b][v].name \in {"Mint", "Burn"}
    /\ \A v \in [Blocks -> Versions], b \in Blocks : ChainOf(v)[b].liquidity >= 0

-----------------------------------------------------------------------------
\* A log of the position manager names the position; one of the pool names a
\* range of its owner, and no token.
parsePositionManagerLog(log) ==
    [type   |-> CASE log.name = "Transfer"          -> "transfer"
                  [] log.name = "Collect"           -> "collect"
                  [] log.name = "IncreaseLiquidity" -> "increase"
                  [] log.name = "DecreaseLiquidity" -> "decrease",
     token  |-> TRUE,
     owner  |-> IF log.name \in {"Transfer", "Collect"} THEN log.user ELSE Nobody,
     delta  |-> log.liquidity,
     amount |-> log.amount]
parsePoolLog(log) ==
    [type  |-> IF log.name = "Mint" THEN "mint" ELSE "burn",
     token |-> FALSE, owner |-> log.user, delta |-> log.liquidity, amount |-> log.amount]
parseV3LiquidityLog(log) ==
    IF log.name \in {"Mint", "Burn"} THEN parsePoolLog(log)
                                     ELSE parsePositionManagerLog(log)

\* SELECT ... AND token_id = ... ORDER BY block_number, log_index.
Event(r) == parseV3LiquidityLog(History[r.block][r.version])
RowsOf(b) == SetToSeq({r \in events : r.block = b /\ Event(r).token})
listLiquidityEvents ==
    LET upTo[b \in Blocks] == (IF b = 0 THEN <<>> ELSE upTo[b - 1]) \o RowsOf(b)
    IN  [i \in 1 .. Len(upTo[MaxHead]) |-> Event(upTo[MaxHead][i])]

\* A withdrawal of more than is recorded is ignored altogether.
Excessive(state, e) == e.delta > state.liquidity \/ e.amount > state.amount

\* Mutant of applyEvent: a withdrawal of all there is counts as excessive.
applyEventPartly(state, e) ==
    CASE e.type = "transfer" -> [state EXCEPT !.user = e.owner, !.active = e.owner # Nobody]
      [] e.type = "collect"  -> [state EXCEPT !.fees = @ + e.amount]
      [] e.type = "increase" -> [state EXCEPT !.liquidity = @ + e.delta,
                                              !.amount = @ + e.amount, !.cost = @ + e.amount]
      [] e.type = "decrease" ->
           IF e.delta >= state.liquidity \/ e.amount >= state.amount THEN state
           ELSE [state EXCEPT !.liquidity = @ - e.delta, !.amount = @ - e.amount,
                              !.active = state.liquidity > e.delta]

\* A transfer activates, whatever is left; an increase does not.
applyEvent(state, e) ==
    CASE e.type = "transfer" -> [state EXCEPT !.user = e.owner, !.active = e.owner # Nobody]
      [] e.type = "collect"  -> [state EXCEPT !.fees = @ + e.amount]
      [] e.type = "increase" -> [state EXCEPT !.liquidity = @ + e.delta,
                                              !.amount = @ + e.amount, !.cost = @ + e.amount]
      [] e.type = "decrease" ->
           IF Excessive(state, e) THEN state
           ELSE [state EXCEPT !.liquidity = @ - e.delta, !.amount = @ - e.amount,
                              !.active = state.liquidity > e.delta]

Untouched == [user |-> Nobody, active |-> TRUE, liquidity |-> 0, amount |-> 0,
              fees |-> 0, cost |-> 0]
reduceV3PositionEvents(es) ==
    LET state[i \in 0 .. Len(es)] ==
          IF i = 0 THEN Untouched ELSE applyEvent(state[i - 1], es[i])
    IN  state[Len(es)]

-----------------------------------------------------------------------------
\* INSERT INTO liquidity_positions, as the client claims it.
Claimed(u, claim) ==
    [NoRow EXCEPT !.source = "claimed", !.user = u, !.liquidity = claim, !.active = TRUE]

\* POST /positions; the unique index on the token keeps a second row out.
recordPosition(p, u) ==
    /\ rows[p] = NoRow
    /\ Cardinality({q \in Protocols : rows[q] # NoRow}) < MaxRows
    /\ \E claim \in Claims : rows' = [rows EXCEPT ![p] = Claimed(u, claim)]
    /\ UNCHANGED <<vars, request>>

\* POST /:tokenId/reconcile asks the chain first, pinned to the head some node
\* has: only the owner of a position that has liquidity goes on.
OwnedAt(h, u) == Chain[h].owner = u /\ Chain[h].liquidity # 0

readV3PositionState(r, u) ==
    /\ request[r] = NoRequest
    /\ \E h \in Blocks : Seen(h) /\ OwnedAt(h, u)
    /\ request' = [request EXCEPT ![r] = [@ EXCEPT !.stage = "read", !.user = u]]
    /\ UNCHANGED <<vars, rows>>

\* POST /positions/v4/:tokenId/reconcile asks the same and keeps the answer.
readV4PositionState(r, u) ==
    /\ request[r] = NoRequest
    /\ \E h \in Blocks :
          /\ Seen(h) /\ OwnedAt(h, u)
          /\ request' = [request EXCEPT ![r] =
                           [stage |-> "write", protocol |-> "v4", user |-> u,
                            state |-> [NoRow EXCEPT !.source = "chain", !.user = u,
                                         !.liquidity = Chain[h].liquidity]]]
    /\ UNCHANGED <<vars, rows>>

\* reconcileV3Position: the events, reduced, must name the same owner.
reduceIndexed(r) ==
    /\ request[r].stage = "read"
    /\ LET s == reduceV3PositionEvents(listLiquidityEvents)
       IN  request' = [request EXCEPT ![r] =
                         IF s.user # request[r].user THEN NoRequest
                         ELSE [@ EXCEPT !.stage = "write",
                                 !.state = [source |-> "indexed", user |-> s.user,
                                            liquidity |-> s.liquidity, fees |-> s.fees,
                                            cost |-> s.cost, active |-> s.active]]]
    /\ UNCHANGED <<vars, rows>>

\* UPDATE liquidity_positions, by token alone: without a row it does nothing.
\* v4 leaves fees and cost.
updateLiquidityPosition(r) ==
    /\ request[r].stage = "write" /\ request[r].protocol = "v3"
    /\ rows' = [rows EXCEPT !["v3"] = IF @ = NoRow THEN @ ELSE request[r].state]
    /\ request' = [request EXCEPT ![r] = NoRequest]
    /\ UNCHANGED vars

updateV4LiquidityPosition(r) ==
    /\ request[r].stage = "write" /\ request[r].protocol = "v4"
    /\ LET s == request[r].state
       IN  rows' = [rows EXCEPT !["v4"] =
                      IF @ = NoRow THEN @
                      ELSE [@ EXCEPT !.source = s.source, !.user = s.user,
                                     !.liquidity = s.liquidity, !.active = TRUE]]
    /\ request' = [request EXCEPT ![r] = NoRequest]
    /\ UNCHANGED vars

\* RPC or D1 fails, or the invocation dies.
FailRequest(r) ==
    /\ request[r] # NoRequest
    /\ request' = [request EXCEPT ![r] = NoRequest]
    /\ UNCHANGED <<vars, rows>>

PositionsNext ==
    \/ \E p \in Protocols, u \in Users : recordPosition(p, u)
    \/ \E r \in Requests :
          \/ \E u \in Users : readV3PositionState(r, u) \/ readV4PositionState(r, u)
          \/ reduceIndexed(r) \/ updateLiquidityPosition(r)
          \/ updateV4LiquidityPosition(r) \/ FailRequest(r)

PositionsSpec ==
    /\ Init /\ PositionsInit
    /\ [][(Next /\ UNCHANGED pvars) \/ PositionsNext]_<<vars, pvars>>

-----------------------------------------------------------------------------
\* GET /users/:address/positions.
listByUser(u) == {p \in Protocols : rows[p].user = u /\ rows[p].active}

\* A reconciled v3 position that is shown to a user was, at one final block,
\* that user's, with the fees collected by then and the
\* liquidity it had by then (never less; more only if a withdrawal took more of
\* a token than was put in, which the reducer ignores): however ticks overlap,
\* die half-way or are answered by lagging nodes, however reconciliations of
\* successive owners overlap, and whatever a reorganisation replaces.
ShownPositionsWereReal ==
    \A u \in Users : "v3" \in listByUser(u) /\ rows["v3"].source = "indexed" =>
        \E b \in Blocks :
            /\ Final(b)
            /\ Chain[b].owner = u
            /\ rows["v3"].fees = Chain[b].fees
            /\ rows["v3"].liquidity >= Chain[b].liquidity
            /\ rows["v3"].liquidity = Chain[b].liquidity \/ Chain[b].excess
=============================================================================
