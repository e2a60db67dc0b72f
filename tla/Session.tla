------------------------------- MODULE Session -------------------------------
(***************************************************************************)
(* The sessions of the API (apps/api/src/auth): KV entries written by      *)
(* POST /verify, looked up by authMiddleware on every request with a       *)
(* bearer token (twice on the /auth routes, where it is mounted twice),    *)
(* removed by the middleware when they do not check, by POST /logout and   *)
(* by KV when their lifetime is over.                                      *)
(*                                                                         *)
(* Every worker reads a clock of its own, and an edge of KV may answer for *)
(* a while what it cached.  A token is random, so it is written once.  An  *)
(* entry is what CreateSession wrote and a deployment serves one chain:    *)
(* the checks of address, chain and JSON cannot refuse it.                 *)
(***************************************************************************)
EXTENDS Integers

CONSTANTS
    Tokens,
    Requests,   \* bound: requests with a token in flight
    Lifetime,   \* 24 hours
    Tolerance,  \* five minutes
    Skew,       \* how far the clock of a worker may be off: two of them by
                \* no more than Tolerance
    Staleness,  \* how long an edge may answer what it cached (KV: a minute)
    MaxTime     \* bound of the clock

VARIABLES
    clock,
    session,  \* session[t]: how far verify got with it, and its issuedAt
    put,      \* put[t]: the time KV got it
    removed,  \* removed[t]: the time it left KV, Never while it is there
    req,      \* req[r]: a request and how far it got
    asked,    \* history: tokens whose owner wants to log out
    out       \* history: out[t], the time a logout was answered, or Never

vars == <<clock, session, put, removed, req, asked, out>>

Never == MaxTime + 1
NoReq == [stage |-> "none"]
Times == 0 .. MaxTime + 1

\* What Date.now() says to some worker.
Now == (clock - Skew) .. (clock + Skew)

TypeOK ==
    /\ clock \in 0 .. MaxTime
    /\ session \in [Tokens -> [stage : {"none", "made", "stored", "lost"},
                               issuedAt : -Skew .. MaxTime + Skew]]
    /\ put \in [Tokens -> Times] /\ removed \in [Tokens -> Times]
    /\ req \in [Requests -> {NoReq} \cup
                  [stage : {"look", "read", "invalid", "served", "logout", "deleted"}, token : Tokens]]
    /\ asked \subseteq Tokens
    /\ out \in [Tokens -> Times]

Init ==
    /\ clock = 0
    /\ session = [t \in Tokens |-> [stage |-> "none", issuedAt |-> 0]]
    /\ put = [t \in Tokens |-> Never] /\ removed = [t \in Tokens |-> Never]
    /\ req = [r \in Requests |-> NoReq]
    /\ asked = {}
    /\ out = [t \in Tokens |-> Never]

InKv(t)      == put[t] # Never /\ removed[t] = Never
ExpiresAt(t) == session[t].issuedAt + Lifetime

\* KV drops an entry at the end of its lifetime, by its own clock.
Tick ==
    /\ clock < MaxTime
    /\ clock' = clock + 1
    /\ removed' = [t \in Tokens |->
         IF InKv(t) /\ put[t] + Lifetime <= clock' THEN clock' ELSE removed[t]]
    /\ UNCHANGED <<session, put, req, asked, out>>

-----------------------------------------------------------------------------
\* verifyAndCreateSession once the nonce is consumed: the token and its times,
\* then the put, whose answer the user waits for
\* (without it nobody learns the token).
Make(t) ==
    /\ session[t].stage = "none"
    /\ \E now \in Now : session' = [session EXCEPT ![t] = [stage |-> "made", issuedAt |-> now]]
    /\ UNCHANGED <<clock, put, removed, req, asked, out>>

Put(t) ==
    /\ session[t].stage = "made"
    /\ \/ /\ put' = [put EXCEPT ![t] = clock]
          /\ session' = [session EXCEPT ![t].stage = "stored"]
       \/ session' = [session EXCEPT ![t].stage = "lost"] /\ UNCHANGED put
    /\ UNCHANGED <<clock, removed, req, asked, out>>

-----------------------------------------------------------------------------
\* A request brings a token that was handed out.
Arrive(r, t) ==
    /\ req[r] = NoReq
    /\ session[t].stage = "stored"
    /\ req' = [req EXCEPT ![r] = [stage |-> "look", token |-> t]]
    /\ UNCHANGED <<clock, session, put, removed, asked, out>>

\* What an edge may still answer: an entry that was there a moment ago.
Found(t) == put[t] # Never /\ (removed[t] = Never \/ clock < removed[t] + Staleness)

\* Without an entry (there is none, the edge has not heard of it, the read failed)
\* the request goes on as anybody's, and requireAuth refuses it.
Look(r) ==
    /\ req[r].stage = "look"
    /\ \/ Found(req[r].token) /\ req' = [req EXCEPT ![r].stage = "read"]
       \/ req' = [req EXCEPT ![r] = NoReq]
    /\ UNCHANGED <<clock, session, put, removed, asked, out>>

\* Mutants: an entry may not come from the future; the expiry is left to KV.
StrictlyPast(t, now)   == session[t].issuedAt <= now /\ ExpiresAt(t) > now
ExpiryLeftToKv(t, now) == session[t].issuedAt <= now + Tolerance

Valid(t, now) == session[t].issuedAt <= now + Tolerance /\ ExpiresAt(t) > now

\* The checks of the middleware; what passes them is attached to the request.
Check(r) ==
    /\ req[r].stage = "read"
    /\ \E now \in Now :
         req' = [req EXCEPT ![r].stage = IF Valid(req[r].token, now) THEN "served" ELSE "invalid"]
    /\ UNCHANGED <<clock, session, put, removed, asked, out>>

Remove(t) == removed' = [removed EXCEPT ![t] = IF InKv(t) THEN clock ELSE @]

\* The middleware deletes what did not check; the delete may fail.
RemoveInvalid(r) ==
    /\ req[r].stage = "invalid"
    /\ Remove(req[r].token) \/ UNCHANGED removed
    /\ req' = [req EXCEPT ![r] = NoReq]
    /\ UNCHANGED <<clock, session, put, asked, out>>

\* The second lookup on the /auth routes: an entry that does not check any more
\* is deleted, and what the first lookup attached stays attached.
LookAgain(r) ==
    /\ req[r].stage = "served" /\ Found(req[r].token)
    /\ \E now \in Now : ~ Valid(req[r].token, now)
    /\ Remove(req[r].token)
    /\ UNCHANGED <<clock, session, put, req, asked, out>>

\* A handler behind requireAuth does its work and answers.
Serve(r) ==
    /\ req[r].stage = "served"
    /\ req' = [req EXCEPT ![r] = NoReq]
    /\ UNCHANGED <<clock, session, put, removed, asked, out>>

-----------------------------------------------------------------------------
\* POST /logout deletes the entry and then answers; a failed delete answers 500.
Logout(r) ==
    /\ req[r].stage = "served"
    /\ req' = [req EXCEPT ![r].stage = "logout"]
    /\ asked' = asked \cup {req[r].token}
    /\ UNCHANGED <<clock, session, put, removed, out>>

\* Mutant of LogoutDelete: a failed delete is answered like the others.
LogoutForgivesFailure(r) ==
    /\ req[r].stage = "logout"
    /\ Remove(req[r].token) \/ UNCHANGED removed
    /\ req' = [req EXCEPT ![r].stage = "deleted"]
    /\ UNCHANGED <<clock, session, put, asked, out>>

LogoutDelete(r) ==
    /\ req[r].stage = "logout"
    /\ \/ Remove(req[r].token) /\ req' = [req EXCEPT ![r].stage = "deleted"]
       \/ UNCHANGED removed /\ req' = [req EXCEPT ![r] = NoReq]
    /\ UNCHANGED <<clock, session, put, asked, out>>

LogoutAnswer(r) ==
    /\ req[r].stage = "deleted"
    /\ LET t == req[r].token IN
         out' = [out EXCEPT ![t] = IF @ = Never THEN clock ELSE @]
    /\ req' = [req EXCEPT ![r] = NoReq]
    /\ UNCHANGED <<clock, session, put, removed, asked>>

Next ==
    \/ Tick
    \/ \E t \in Tokens : Make(t) \/ Put(t) \/ \E r \in Requests : Arrive(r, t)
    \/ \E r \in Requests :
          \/ Look(r) \/ Check(r) \/ RemoveInvalid(r) \/ LookAgain(r) \/ Serve(r)
          \/ Logout(r) \/ LogoutDelete(r) \/ LogoutAnswer(r)

Spec == Init /\ [][Next]_vars

-----------------------------------------------------------------------------
\* Nobody is let in on a session that had ended, however old the copy an edge
\* answers: no check passes later than the lifetime after it was stored, but
\* for the clocks, and nothing is read any more once a logout was answered and
\* the caches have forgotten.
EndedSessionsRefused ==
    [][\A r \in Requests :
         LET t == req[r].token IN
           /\ req[r].stage = "look" /\ req'[r].stage = "read" =>
                out[t] = Never \/ clock < out[t] + Staleness
           /\ req[r].stage = "read" /\ req'[r].stage = "served" =>
                clock < put[t] + Lifetime + 2 * Skew]_vars

\* A session its owner keeps is there until it expires: a worker whose clock is
\* behind or ahead of the one that made it never takes it for invalid.
LiveSessionsKept ==
    \A t \in Tokens :
        session[t].stage = "stored" /\ t \notin asked /\ clock + Skew < ExpiresAt(t)
          => InKv(t)
=============================================================================
