------------------------------- MODULE TokenList -------------------------------
(***************************************************************************)
(* The token list of the API: services/token-list.service.ts behind        *)
(* routes/tokens.ts.  A KV entry that expires, the published list, fetched *)
(* and validated, and the rows of D1 it was written through to, which      *)
(* answer when the fetch fails.  Every await is a step.                    *)
(***************************************************************************)
EXTENDS Naturals

CONSTANTS
    Requests,  \* bound: requests in flight
    Tokens,
    Lists,     \* Lists[v]: the valid tokens of edition v, a sequence of sets
    Ttl,       \* cacheTtlSeconds
    MaxDelay,  \* a request is answered within this time
    MaxTime    \* bound of the clock

VARIABLES
    clock,
    edition,   \* edition[n]: what the source published at time n; 0 beyond the clock
    kv,        \* the cached edition, when it was cached and when it expires
    d1,        \* d1[t]: the edition the row of token t was last written from, or 0
    req        \* req[r]: a request and how far it got

vars == <<clock, edition, kv, d1, req>>

Idle == [stage |-> "none", started |-> 0, version |-> 0, asOf |-> 0, todo |-> {}]

Init ==
    /\ clock = 0
    /\ edition = [n \in 0 .. MaxTime |-> IF n = 0 THEN 1 ELSE 0]
    /\ kv = [version |-> 0, asOf |-> 0, expires |-> 0]
    /\ d1 = [t \in Tokens |-> 0]
    /\ req = [r \in Requests |-> Idle]

At(r, stage) == req[r].stage = stage
Go(r, stage) == req' = [req EXCEPT ![r].stage = stage]

\* Time passes; the source may publish its next edition.
Tick ==
    /\ clock < MaxTime
    /\ \A r \in Requests : req[r] # Idle => clock - req[r].started < MaxDelay
    /\ clock' = clock + 1
    /\ \E v \in {edition[clock], edition[clock] + 1} \cap DOMAIN Lists :
          edition' = [edition EXCEPT ![clock + 1] = v]
    /\ UNCHANGED <<kv, d1, req>>

\* GET /tokens and GET /tokens/:address.
listTokens(r) ==
    /\ req[r] = Idle
    /\ req' = [req EXCEPT ![r].stage = "kv", ![r].started = clock]
    /\ UNCHANGED <<clock, edition, kv, d1>>

\* An expired entry is gone; a failing read is a miss.
readCache(r) ==
    /\ At(r, "kv")
    /\ \/ /\ kv.version # 0 /\ clock < kv.expires
          /\ req' = [req EXCEPT ![r].stage = "done", ![r].version = kv.version,
                                ![r].asOf = kv.asOf]
       \/ Go(r, "fetch")
    /\ UNCHANGED <<clock, edition, kv, d1>>

\* The source answers, or the rows of D1 must do.
fetchList(r) ==
    /\ At(r, "fetch")
    /\ \/ req' = [req EXCEPT ![r].stage = "put", ![r].version = edition[clock]]
       \/ Go(r, "d1")
    /\ UNCHANGED <<clock, edition, kv, d1>>

\* Invalid entries are dropped, and the second of two alike; a document that is
\* no list at all counts as a failed fetch.
validateTokenList(version) == Lists[version]

\* Mutant of expiry: the entry lives as long as the request that reads it.
expiryNever == MaxTime + 1
expiry      == clock + Ttl

\* The list is dated now, cached (or not), and then written through.
refresh(r) ==
    /\ At(r, "put")
    /\ \/ Go(r, "d1") /\ UNCHANGED kv
       \/ /\ kv' \in {kv, [version |-> req[r].version, asOf |-> clock, expires |-> expiry]}
          /\ req' = [req EXCEPT ![r].stage = "store", ![r].asOf = clock,
                                ![r].todo = validateTokenList(req[r].version)]
    /\ UNCHANGED <<clock, edition, d1>>

\* One upsert per token, in any order; the first that fails ends them.  No row
\* is ever deleted.
writeThroughD1(r) ==
    /\ At(r, "store")
    /\ \/ \E t \in req[r].todo :
             /\ d1' = [d1 EXCEPT ![t] = req[r].version]
             /\ req' = [req EXCEPT ![r].todo = @ \ {t}]
       \/ /\ req' = [req EXCEPT ![r].stage = "done", ![r].todo = {}]
          /\ UNCHANGED d1
    /\ UNCHANGED <<clock, edition, kv>>

\* The rows answer, with the dates of their writing, if there are any and D1
\* can be read.
readD1Cache(r) ==
    /\ At(r, "d1")
    /\ \/ (\E t \in Tokens : d1[t] # 0) /\ Go(r, "stored")
       \/ Go(r, "failed")
    /\ UNCHANGED <<clock, edition, kv, d1>>

Answer(r) ==
    /\ req[r].stage \in {"done", "stored", "failed"}
    /\ req' = [req EXCEPT ![r] = Idle]
    /\ UNCHANGED <<clock, edition, kv, d1>>

resolveTokens(r) ==
    readCache(r) \/ fetchList(r) \/ refresh(r) \/ writeThroughD1(r) \/ readD1Cache(r)

Next == Tick \/ \E r \in Requests : listTokens(r) \/ resolveTokens(r) \/ Answer(r)

Spec == Init /\ [][Next]_vars

-----------------------------------------------------------------------------
PublishedDuring(v, from, to) == \E n \in 0 .. MaxTime : from <= n /\ n <= to /\ edition[n] = v

\* "responses report when the list was actually cached/refreshed": a list that
\* KV or the source answers was the published one as it was dated, and is no
\* older than an entry may live, though a slow refresh may put an older edition
\* over a newer one.
AnsweredListDated ==
    \A r \in Requests : At(r, "done") =>
        /\ PublishedDuring(req[r].version, req[r].asOf - MaxDelay, req[r].asOf)
        /\ clock < req[r].asOf + Ttl + MaxDelay
=============================================================================
