---------------------------- MODULE CircuitBreaker ----------------------------
(***************************************************************************)
(* The circuit breaker in front of the swap and quote routes               *)
(* (apps/api/src/middleware/circuit-breaker.ts).  Its state is two keys of *)
(* Workers KV, the failure counter and the circuit state; every request    *)
(* reads and writes them in separate awaits while other requests run.      *)
(*                                                                         *)
(* The time a circuit was opened at is kept as its age, which matters up   *)
(* to the cooldown; the counter matters up to the threshold.  KV is taken  *)
(* at its best: every read sees the last write.                            *)
(***************************************************************************)
EXTENDS Naturals

CONSTANTS
    Requests,   \* bound: requests in flight at once
    Threshold,  \* CIRCUIT_FAILURE_THRESHOLD
    Cooldown,   \* CIRCUIT_COOLDOWN_SECONDS, in ticks
    Weights     \* weights of a failure: 1, and 2 of a high-value request

VARIABLES
    healthy,   \* does the handler behind the breaker succeed?
    kvDown,    \* may a KV operation fail?
    failures,  \* cb:<name>_failures, 0 when the key is not there
    state,     \* cb:<name>_state: its status and its age
    req,       \* req[r]: how far request r got
    seen       \* history: the weight of all failures so far

vars == <<healthy, kvDown, failures, state, req, seen>>

Capped(n) == IF n < Threshold THEN n ELSE Threshold

Closed  == [status |-> "closed", age |-> 0]
NoReq   == [stage |-> "none", trial |-> FALSE, count |-> 0]
At(r, stage) == req[r].stage = stage
Stage(r, stage) == [req EXCEPT ![r].stage = stage]

TypeOK ==
    /\ healthy \in BOOLEAN /\ kvDown \in BOOLEAN
    /\ failures \in 0 .. Threshold
    /\ seen \in 0 .. Threshold
    /\ state \in [status : {"closed", "open", "half_open"}, age : 0 .. Cooldown]
    /\ req \in [Requests -> [stage : {"none", "probe", "run", "count", "put", "trip",
                                      "reopen", "close", "closeState", "closeCount"},
                             trial : BOOLEAN, count : 0 .. Threshold]]

Init ==
    /\ healthy \in BOOLEAN /\ kvDown \in BOOLEAN
    /\ failures = 0 /\ seen = 0
    /\ state = Closed
    /\ req = [r \in Requests |-> NoReq]

-----------------------------------------------------------------------------
Tick ==
    /\ state.status # "closed" /\ state.age < Cooldown
    /\ state' = [state EXCEPT !.age = @ + 1]
    /\ UNCHANGED <<healthy, kvDown, failures, req, seen>>

Turn ==
    /\ \/ healthy' = ~ healthy /\ UNCHANGED kvDown
       \/ kvDown' = ~ kvDown /\ UNCHANGED healthy
    /\ UNCHANGED <<failures, state, req, seen>>

\* The TTLs of the keys: the counter's after a while without failures, the
\* state's long after the cooldown.
Expire ==
    /\ \/ failures' = 0 /\ UNCHANGED state
       \/ state.age = Cooldown /\ state' = Closed /\ UNCHANGED failures
    /\ UNCHANGED <<healthy, kvDown, req, seen>>

-----------------------------------------------------------------------------
\* A request reads the state: no circuit and it runs; an open one rejects it
\* until the cooldown is over, whatever its status; then it is a trial.
Arrive(r) ==
    /\ At(r, "none")
    /\ \/ /\ state = Closed \/ kvDown
          /\ req' = Stage(r, "run")
       \/ /\ state # Closed /\ state.age = Cooldown
          /\ req' = [req EXCEPT ![r].stage = "probe", ![r].trial = TRUE]
    /\ UNCHANGED <<healthy, kvDown, failures, state, seen>>

\* The trial writes half_open with the openedAt it has read, so that the age
\* is the cooldown still; what others wrote meanwhile is overwritten.
Probe(r) ==
    /\ At(r, "probe")
    /\ \/ state' = [status |-> "half_open", age |-> Cooldown]
       \/ kvDown /\ UNCHANGED state
    /\ req' = Stage(r, "run")
    /\ UNCHANGED <<healthy, kvDown, failures, seen>>

\* The handler answers, or it throws or answers with a 5xx.
Answer(r) ==
    /\ At(r, "run")
    /\ \/ /\ healthy
          /\ req' = [req EXCEPT ![r] = IF @.trial THEN [@ EXCEPT !.stage = "close"] ELSE NoReq]
          /\ UNCHANGED seen
       \/ \E w \in Weights :
             /\ ~ healthy
             /\ seen' = Capped(seen + w)
             /\ req' = [req EXCEPT ![r].stage = IF req[r].trial THEN "reopen" ELSE "count",
                                   ![r].count = Capped(w)]
    /\ UNCHANGED <<healthy, kvDown, failures, state>>

\* recordFailure of a request that was no trial: read the counter, ...
ReadCount(r) ==
    /\ At(r, "count")
    /\ \/ req' = [req EXCEPT ![r].stage = "put", ![r].count = Capped(@ + failures)]
       \/ kvDown /\ req' = Stage(r, "put")
    /\ UNCHANGED <<healthy, kvDown, failures, state, seen>>

\* Mutant of Trips: off by one.
TripsEarly(count) == count + 1 >= Threshold

\* ... write it back, and at the threshold ...
Trips(count) == count >= Threshold
PutCount(r) ==
    /\ At(r, "put")
    /\ \/ /\ failures' = req[r].count
          /\ req' = [req EXCEPT ![r] = IF Trips(@.count) THEN [@ EXCEPT !.stage = "trip"]
                                                         ELSE NoReq]
       \/ kvDown /\ UNCHANGED failures /\ req' = [req EXCEPT ![r] = NoReq]
    /\ UNCHANGED <<healthy, kvDown, state, seen>>

\* ... open the circuit.  The failure of a trial opens it at once.
Open(r) ==
    /\ At(r, "trip") \/ At(r, "reopen")
    /\ \/ state' = [status |-> "open", age |-> 0]
       \/ kvDown /\ UNCHANGED state
    /\ req' = [req EXCEPT ![r] = NoReq]
    /\ UNCHANGED <<healthy, kvDown, failures, seen>>

\* Mutant of Close: the state is left to its TTL.
CloseCountOnly(r) ==
    /\ At(r, "close")
    /\ failures' = 0
    /\ req' = [req EXCEPT ![r] = NoReq]
    /\ UNCHANGED <<healthy, kvDown, state, seen>>

\* closeCircuit deletes both keys at once, in no order.
Close(r) ==
    /\ \/ /\ At(r, "close") \/ At(r, "closeCount")
          /\ failures' = 0 /\ UNCHANGED state
          /\ req' = [req EXCEPT ![r] = IF At(r, "close") THEN [@ EXCEPT !.stage = "closeState"]
                                                         ELSE NoReq]
       \/ /\ At(r, "close") \/ At(r, "closeState")
          /\ state' = Closed /\ UNCHANGED failures
          /\ req' = [req EXCEPT ![r] = IF At(r, "close") THEN [@ EXCEPT !.stage = "closeCount"]
                                                         ELSE NoReq]
       \/ /\ kvDown /\ At(r, "close")
          /\ req' = [req EXCEPT ![r] = NoReq] /\ UNCHANGED <<failures, state>>
    /\ UNCHANGED <<healthy, kvDown, seen>>

Proceed(r) ==
    Probe(r) \/ Answer(r) \/ ReadCount(r) \/ PutCount(r) \/ Open(r) \/ Close(r)

Next ==
    \/ Tick \/ Turn \/ Expire
    \/ \E r \in Requests : Arrive(r) \/ Proceed(r)

\* Requests keep coming, each runs to its end, and time passes.
Fairness ==
    /\ WF_vars(Tick)
    /\ \A r \in Requests : WF_vars(Arrive(r)) /\ WF_vars(Proceed(r))

Spec == Init /\ [][Next]_vars /\ Fairness

-----------------------------------------------------------------------------
\* "At failureThreshold the circuit opens" and not before: however counts are
\* read, lost and overwritten, the counter never shows failures that did not
\* happen, and the first opening takes the threshold's worth of them.
OpensOnRealFailures ==
    /\ failures <= seen
    /\ state # Closed => seen = Threshold

\* "success closes the circuit": once the handler and KV work for good the
\* circuit rejects nobody any more and is closed again and again, whatever
\* requests that are still in flight write.
RecoversWhenHealthy ==
    <>[](healthy /\ ~ kvDown) => <>[](state.status # "open") /\ []<>(state = Closed)
=============================================================================
