------------------------------- MODULE MCGuards -------------------------------
(***************************************************************************)
(* Instances of what guards the routes of the API: the sign-in (Siwe), its *)
(* sessions, the circuit breaker and the rate limiter.  They keep their    *)
(* state in places of their own (Durable Objects and distinct KV keys), so *)
(* each is checked by itself: a behaviour runs one of them and leaves the  *)
(* others alone.                                                           *)
(***************************************************************************)
EXTENDS Siwe, Integers, FiniteSets

CONSTANTS
    Callers,                       \* bound: requests in flight at a KV guard
    Threshold, Cooldown, Weights,  \* of the breaker
    Limit, Window, MaxDelay,       \* of the limiter
    Tokens, SessionLife, Tolerance, Skew, Staleness, Horizon   \* of the sessions

VARIABLES
    part,                                              \* who runs
    healthy, kvDown, failures, state, cbReq, seen,     \* of the breaker
    key, rlReq, asked, last,                           \* of the limiter
    seClock, session, put, removed, seReq, leaving, out    \* of the sessions

\* What the breaker is deployed with.
BreakerConstants ==
    /\ IsFiniteSet(Callers)
    /\ Threshold \in Nat /\ Cooldown \in Nat /\ Weights \subseteq Nat

\* What the limiter is deployed with.
LimiterConstants == Limit \in Nat /\ Window \in Nat \ {0} /\ MaxDelay \in Nat

\* What the sessions are deployed with: two workers' clocks are apart by no more
\* than the tolerance.
SessionConstants ==
    /\ SessionLife \in Nat /\ Tolerance \in Nat /\ Skew \in Nat /\ Staleness \in Nat
    /\ Horizon \in Nat
    /\ 2 * Skew <= Tolerance

ASSUME GuardsAssumption == BreakerConstants /\ LimiterConstants /\ SessionConstants

CB == INSTANCE CircuitBreaker WITH Requests <- Callers, req <- cbReq
RL == INSTANCE RateLimit WITH Requests <- Callers, req <- rlReq
SE == INSTANCE Session WITH Requests <- Callers, Lifetime <- SessionLife, MaxTime <- Horizon,
                            clock <- seClock, req <- seReq, asked <- leaving

breakerVars == <<healthy, kvDown, failures, state, cbReq, seen>>
limiterVars == <<key, rlReq, asked, last>>
sessionVars == <<seClock, session, put, removed, seReq, leaving, out>>
all == <<part, vars, breakerVars, limiterVars, sessionVars>>

GuardsInit ==
    /\ part \in {"siwe", "breaker", "limiter", "session"}
    /\ Init /\ CB!Init /\ RL!Init /\ SE!Init
    /\ part # "breaker" => healthy /\ ~ kvDown

InSiwe    == part = "siwe" /\ UNCHANGED <<part, breakerVars, limiterVars, sessionVars>>
InBreaker == part = "breaker" /\ UNCHANGED <<part, vars, limiterVars, sessionVars>>
InLimiter == part = "limiter" /\ UNCHANGED <<part, vars, breakerVars, sessionVars>>
InSession == part = "session" /\ UNCHANGED <<part, vars, breakerVars, limiterVars>>

GuardsNext ==
    \/ InSiwe /\ Next
    \/ InBreaker /\ CB!Next
    \/ InLimiter /\ RL!Next
    \/ InSession /\ SE!Next

\* The fairness of each module, asked of the one that runs.
GuardsFairness ==
    /\ WF_all(InSiwe /\ Tick)
    /\ \A n \in Nonces : SF_all(InSiwe /\ AlarmStart(n)) /\ SF_all(InSiwe /\ AlarmFinish(n))
    /\ \A r \in Requests : WF_all(InSiwe /\ Consume(r))
    /\ WF_all(InBreaker /\ CB!Tick) /\ WF_all(InLimiter /\ RL!Tick)
    /\ \A r \in Callers :
          /\ WF_all(InBreaker /\ CB!Arrive(r)) /\ WF_all(InBreaker /\ CB!Proceed(r))
          /\ WF_all(InLimiter /\ RL!Arrive(r)) /\ WF_all(InLimiter /\ RL!Proceed(r))

GuardsSpec == GuardsInit /\ [][GuardsNext]_all /\ GuardsFairness

OpensOnRealFailures == CB!TypeOK /\ CB!OpensOnRealFailures
NoEarlyRejection    == RL!NoEarlyRejection
\* Breaker and limiter let callers through again.
GuardsLetThrough    == CB!RecoversWhenHealthy /\ RL!RejectionEnds
SessionsSound       == [](SE!TypeOK /\ SE!LiveSessionsKept) /\ SE!EndedSessionsRefused
=============================================================================
