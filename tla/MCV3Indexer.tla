----------------------------- MODULE MCV3Indexer -----------------------------
(***************************************************************************)
(* Instances of V3Indexer and of Positions over it: two overlapping ticks  *)
(* over a chain whose newest block may be replaced; or one tick at a time, *)
(* with two reconciliations of a position under way.                       *)
(***************************************************************************)
EXTENDS Positions

VARIABLE part

Log(name, user, liquidity, amount) ==
    [name |-> name, user |-> user, liquidity |-> liquidity, amount |-> amount]

CONSTANTS alice, bob, v1, v2

\* Minted to alice with a liquidity of 2; half of it withdrawn in one version of
\* the chain, for more than was put in or for all of it, and the position given
\* to bob in the other; and so on.
MCHistory ==
    << (v1 :> Log("IncreaseLiquidity", alice, 2, 1) @@ v2 :> Log("IncreaseLiquidity", alice, 2, 2)),
       (v1 :> Log("DecreaseLiquidity", alice, 1, 2) @@ v2 :> Log("Transfer", bob, 0, 0)),
       (v1 :> Log("DecreaseLiquidity", bob, 1, 1) @@ v2 :> Log("Collect", bob, 0, 1)),
       (v1 :> Log("Mint", bob, 1, 1) @@ v2 :> Log("IncreaseLiquidity", bob, 1, 1)) >>
    @@ 0 :> [v \in {v1, v2} |-> Log("Transfer", alice, 0, 0)]

MCInit == part \in {"indexer", "v3", "v4"} /\ Init /\ PositionsInit

\* With v3 positions, ticks do not overlap; with v4 positions there are none.
OneTick == LET first == CHOOSE t \in Ticks : TRUE
           IN  \A t \in Ticks : t # first \/ part = "v4" => tick'[t] = tick[t]

\* Positions of one protocol.
OneProtocol ==
    /\ \A p \in Protocols : p # part => rows'[p] = NoRow
    /\ \A r \in Requests : request'[r] = NoRequest \/ request'[r].protocol = part

MCNext ==
    /\ \/ part = "indexer" /\ Next /\ UNCHANGED pvars
       \/ part \in Protocols /\ Next /\ OneTick /\ UNCHANGED pvars
       \/ part \in Protocols /\ PositionsNext /\ OneProtocol
    /\ UNCHANGED part

MCSpec == MCInit /\ [][MCNext]_<<vars, pvars, part>> /\ Fairness

\* Every event with its confirmations is indexed sometime.
EventsIndexed ==
    \A b \in Blocks :
        part = "indexer" /\ DeploymentBlock <= b /\ b + Confirmations + MaxLag <= head
            ~> Canonical(b) \in events
=============================================================================
