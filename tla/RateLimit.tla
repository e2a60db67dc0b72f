------------------------------- MODULE RateLimit -------------------------------
(***************************************************************************)
(* The fixed-window rate limiter of the mutation routes                    *)
(* (apps/api/src/middleware/rate-limit.ts), for one caller.  Its counter   *)
(* is the metadata of one KV key, read and written in separate awaits by   *)
(* every request.                                                          *)
(*                                                                         *)
(* Times are kept relative to the present, so that the clock has no end:   *)
(* resetAt is the time left of a window, negative once it is over, and a   *)
(* request knows how long ago it read the clock.  KV is taken at its best: *)
(* every read sees the last write.                                         *)
(***************************************************************************)
EXTENDS Integers, FiniteSets

CONSTANTS
    Requests,  \* bound: requests of the caller in flight at once
    Limit,     \* RATE_LIMIT_MAX
    Window,    \* RATE_LIMIT_WINDOW_SECONDS, in ticks
    MaxDelay   \* bound: ticks a request spends in the limiter

VARIABLES
    key,     \* the metadata of the caller's key: count and resetAt
    req,     \* req[r]: a request and how far it got
    asked,   \* history: asked[w], the requests counted in the window that ends at w
    last     \* history: what became of the latest request

vars == <<key, req, asked, last>>

\* Only how a count compares with the limit matters, and of a window that is
\* over for every request in flight only that it is.
Cap(n)    == IF n <= Limit THEN n ELSE Limit + 1
Past      == 0 - MaxDelay
Windows   == Past .. Window
Later(t)  == IF t = Past THEN Past ELSE t - 1
Absent    == [count |-> 0, resetAt |-> Past]
NoReq     == [stage |-> "none", age |-> 0, count |-> 0, resetAt |-> Past]
Shift(f)  == [w \in Windows |-> IF w \in {Past, Window} THEN 0 ELSE f[w + 1]]
Add(f, w) == [f EXCEPT ![w] = Cap(@ + 1)]

TypeOK ==
    /\ key \in [count : 0 .. Limit + 1, resetAt : Past .. Window]
    /\ req \in [Requests -> [stage : {"none", "read", "write"}, age : 0 .. MaxDelay,
                             count : 0 .. Limit + 1, resetAt : Past .. Window]]
    /\ asked \in [Windows -> 0 .. Limit + 1]
    /\ last \in {"none", "passed", "rejected"}

Init ==
    /\ key = Absent
    /\ req = [r \in Requests |-> NoReq]
    /\ asked = [w \in Windows |-> 0]
    /\ last = "none"

At(r, stage) == req[r].stage = stage

-----------------------------------------------------------------------------
Tick ==
    /\ \A r \in Requests : At(r, "none") \/ req[r].age < MaxDelay
    /\ key' = [key EXCEPT !.resetAt = Later(@)]
    /\ req' = [r \in Requests |->
                 IF At(r, "none") THEN NoReq
                 ELSE [req[r] EXCEPT !.age = @ + 1, !.resetAt = Later(@)]]
    /\ asked' = Shift(asked)
    /\ UNCHANGED last

\* The TTL of the key, longer than what was left of the window at the last put.
ExpireKey ==
    /\ key # Absent /\ key.resetAt < 0
    /\ key' = Absent
    /\ UNCHANGED <<req, asked, last>>

\* A request enters the limiter and takes the time: nowMs.
Arrive(r) ==
    /\ At(r, "none")
    /\ req' = [req EXCEPT ![r].stage = "read"]
    /\ UNCHANGED <<key, asked, last>>

\* Mutant of readWindow: the window is not asked whether it is over.
readWindowAnyTime(r) == key.count > 0
\* Mutant of ResetAt: every request pushes the end of the window ahead.
ResetAtSliding(r) == Window - req[r].age

\* The window in the key still runs at nowMs.
readWindow(r) == key.resetAt + req[r].age > 0
ResetAt(r) == IF readWindow(r) THEN key.resetAt ELSE Window - req[r].age
Count(r)   == IF readWindow(r) THEN key.count + 1 ELSE 1

\* getWithMetadata; if it fails the request passes.
Read(r) ==
    /\ At(r, "read")
    /\ \/ /\ req' = [req EXCEPT ![r].stage = "write", ![r].count = Cap(Count(r)),
                                ![r].resetAt = ResetAt(r)]
          /\ asked' = Add(asked, ResetAt(r))
          /\ UNCHANGED last
       \/ /\ req' = [req EXCEPT ![r] = NoReq] /\ last' = "passed"
          /\ UNCHANGED asked
    /\ UNCHANGED key

\* put, then the verdict; if the put fails the request passes.
Allowed(count) == count <= Limit
Write(r) ==
    /\ At(r, "write")
    /\ \/ key' = [count |-> req[r].count, resetAt |-> req[r].resetAt]
          /\ last' = IF Allowed(req[r].count) THEN "passed" ELSE "rejected"
       \/ /\ last' = "passed" /\ UNCHANGED key
    /\ req' = [req EXCEPT ![r] = NoReq]
    /\ UNCHANGED asked

Proceed(r) == Read(r) \/ Write(r)

Next ==
    \/ Tick \/ ExpireKey
    \/ \E r \in Requests : Arrive(r) \/ Proceed(r)

\* Time passes, the caller keeps asking, and every request is answered.
Fairness ==
    /\ WF_vars(Tick)
    /\ \A r \in Requests : WF_vars(Arrive(r)) /\ WF_vars(Proceed(r))

Spec == Init /\ [][Next]_vars /\ Fairness

-----------------------------------------------------------------------------
\* Nobody is turned away early: a request is rejected only if more than Limit
\* requests were counted in its window, however stale the counts and windows
\* are that late requests write over newer ones.
NoEarlyRejection ==
    [][\A r \in Requests :
         At(r, "write") /\ last' = "rejected" /\ req'[r] = NoReq
           => asked[req[r].resetAt] > Limit]_vars

\* A caller who was turned away and keeps asking is let through again, though
\* rejected requests are counted as well.
RejectionEnds == last = "rejected" ~> last = "passed"
=============================================================================
