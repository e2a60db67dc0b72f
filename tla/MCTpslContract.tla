--------------------------- MODULE MCTpslContract ---------------------------
(***************************************************************************)
(* Instances of what executes an order on chain: TpslContract, the oracle  *)
(* it asks (a ring of three observations and six seconds, so that the ring *)
(* wraps and windows outlive it), and the signer that submits executions   *)
(* (two messages about two orders, with one signer or with one each).      *)
(* They share nothing while they run: a behaviour runs one of them, of     *)
(* those that the configuration asks for.                                  *)
(***************************************************************************)
EXTENDS TpslContract

CONSTANTS
    Parts,                                 \* what may run, of "contract", "oracle", "signer"
    alice, bob, pool, native,
    Size, Ticks, LastSecond, InputPositive, \* of TwapOracle
    Jobs, NoJob, OrderOf, Signers, Assignments, Environments, MaxTries, MaxNonce \* of KeeperSigner

VARIABLES
    part,                                  \* what runs
    time, obs, index, count, traded, sampled, trace,
    env, signerOf, lock, nextNonce, job, accountCount, waiting, mined, executed, rows, answered

\* The oracle's constants: a ring that holds something, and the sign of deltas
\* that AetherHook expects.
OracleConstants ==
    Size \in Nat /\ Size >= 2 /\ LastSecond \in Nat /\ Ticks \subseteq Int /\ InputPositive = TRUE

\* The signer's constants: at least two messages, so that who shares a signer
\* shares it with somebody.
SignerConstants ==
    /\ IsFiniteSet(Jobs) /\ Cardinality(Jobs) > 1 /\ NoJob \notin Jobs
    /\ Assignments \subseteq [Jobs -> Signers] /\ MaxNonce \in Nat /\ MaxTries \in Nat

\* The oracle also runs with the sign the PoolManager uses.
ASSUME InstanceAssumption == SignerConstants /\ (InputPositive => OracleConstants)

Sell(type, amount, least, trigger, deadline) ==
    [pool |-> pool, orderType |-> type, zeroForOne |-> TRUE, amountIn |-> amount,
     minAmountOut |-> least, trigger |-> trigger, twapWindow |-> 1,
     slippageBps |-> 1, deadline |-> deadline]

TakeProfit == Sell("TAKE_PROFIT", 2, 1, 1, 2)
StopLoss   == [Sell("STOP_LOSS", 1, 0, 2, 1) EXCEPT !.zeroForOne = FALSE]

\* Requests createOrder refuses, one per check.
Refused == {
    [TakeProfit EXCEPT !.deadline = 0],    [TakeProfit EXCEPT !.amountIn = 0],
    [TakeProfit EXCEPT !.slippageBps = 3], [TakeProfit EXCEPT !.twapWindow = 0],
    [TakeProfit EXCEPT !.twapWindow = 3],  [TakeProfit EXCEPT !.trigger = 0],
    [TakeProfit EXCEPT !.pool = native]}

MCRequests == {TakeProfit, StopLoss} \cup Refused
MCOwners   == {alice, bob}
MCPools    == {pool}
MCNative   == {native}
MCPrices   == {1, 2}

MCTicks   == {-3, -1, 2}
MCOrderOf == [j \in Jobs |-> j]
OneForAll == {[j \in Jobs |-> CHOOSE s \in Signers : TRUE]}
OneEach   == {CHOOSE f \in [Jobs -> Signers] : \A j, k \in Jobs : f[j] = f[k] => j = k}
MCAssignments  == OneForAll \cup OneEach
MCEnvironments == SUBSET {"key", "rpc", "chain", "relay", "public"}

TW == INSTANCE TwapOracle WITH MaxTime <- LastSecond
KS == INSTANCE KeeperSigner WITH count <- accountCount, pool <- waiting

oracleVars == <<time, obs, index, count, traded, sampled, trace>>
signerVars == <<env, signerOf, lock, nextNonce, job, accountCount, waiting, mined, executed,
                rows, answered>>

MCInit ==
    /\ part \in Parts
    /\ Init /\ TW!Init /\ KS!Init
    /\ part # "signer" => env = {} /\ signerOf = CHOOSE f \in OneEach : TRUE
    /\ part # "contract" => market = CHOOSE m \in Markets : TRUE

MCNext ==
    \/ part = "contract" /\ Next /\ UNCHANGED <<part, oracleVars, signerVars>>
    \/ part = "oracle" /\ TW!Next /\ UNCHANGED <<part, vars, signerVars>>
    \/ part = "signer" /\ KS!Next /\ UNCHANGED <<part, vars, oracleVars>>

MCSpec == MCInit /\ [][MCNext]_<<part, vars, oracleVars, signerVars>>

\* TwapOracle: it answers exactly, every window it keeps, from an ordered ring.
OracleSound == TW!TwapExact /\ TW!RingOrdered /\ TW!AnswersWhatItKeeps

\* KeeperSigner.
SubmissionsSound == KS!SubmissionsSound

\* TwapOracle, of what the comments of AetherHook promise: after trades in two
\* blocks there is an average.  Not so with PoolManager's sign.
TradesAreSampled == TW!TradesAreSampled

\* KeeperSigner, of what its tests promise: a row that says executed is of an
\* order that was.  Not so with a signer for each message.
ConfirmedOrderExecuted == KS!ConfirmedOrderExecuted
=============================================================================
