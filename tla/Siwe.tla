--------------------------------- MODULE Siwe ---------------------------------
(***************************************************************************)
(* Sign-in with Ethereum: the nonces of apps/api/src/auth/siwe.ts, each    *)
(* kept by a Durable Object of its own (durable-objects/siwe-nonce-do.ts), *)
(* and the sessions POST /verify creates from them.                        *)
(*                                                                         *)
(* An object has a record (the expiry) and an alarm.  Both survive the     *)
(* instance, which may die between any two storage calls; its gate         *)
(* (blockConcurrencyWhile) does not.  The checks of the message and its    *)
(* signature keep no state and only refuse requests, so they are left out. *)
(***************************************************************************)
EXTENDS Naturals

CONSTANTS
    Nonces,
    Requests,  \* bound: POST /verify requests in flight at once
    Lifetime,  \* five minutes, in ticks
    MaxTime    \* bound of the clock; no nonce is issued that outlives it

Free     == "free"
AlarmRun == "alarm"

ASSUME SiweAssumption ==
    /\ Lifetime \in Nat \ {0} /\ MaxTime \in Nat \ {0}
    /\ Requests \cap {Free, AlarmRun} = {}

VARIABLES
    clock,
    issue,    \* issue[n]: how far POST /nonce got, and the expiry it chose
    record,   \* record[n]: the expiry in the object's storage, None if absent
    alarm,    \* alarm[n]: the time of the object's alarm, None if not set
    gate,     \* gate[n]: who runs inside blockConcurrencyWhile
    req,      \* req[r]: a verification and how far it got
    sessions, \* history: sessions[n], the sessions created from nonce n
    used      \* history: nonces an object has reported consumed

vars == <<clock, issue, record, alarm, gate, req, sessions, used>>

None  == 0
NoReq == [stage |-> "none"]

TypeOK ==
    /\ clock \in 1 .. MaxTime
    /\ issue \in [Nonces -> [stage : {"none", "put", "alarm", "handed", "failed"},
                             expires : 0 .. MaxTime]]
    /\ record \in [Nonces -> 0 .. MaxTime]
    /\ alarm \in [Nonces -> 0 .. MaxTime]
    /\ gate \in [Nonces -> {Free, AlarmRun} \cup Requests]
    /\ req \in [Requests -> {NoReq} \cup
                  [stage : {"valid", "delete", "unalarm", "consumed"}, nonce : Nonces,
                   ok : BOOLEAN]]
    /\ sessions \in [Nonces -> 0 .. 2]
    /\ used \subseteq Nonces

Init ==
    /\ clock = 1
    /\ issue = [n \in Nonces |-> [stage |-> "none", expires |-> 0]]
    /\ record = [n \in Nonces |-> None]
    /\ alarm = [n \in Nonces |-> None]
    /\ gate = [n \in Nonces |-> Free]
    /\ req = [r \in Requests |-> NoReq]
    /\ sessions = [n \in Nonces |-> 0]
    /\ used = {}

Tick ==
    /\ clock < MaxTime
    /\ clock' = clock + 1
    /\ UNCHANGED <<issue, record, alarm, gate, req, sessions, used>>

-----------------------------------------------------------------------------
\* POST /nonce chooses the expiry, the object stores it, then sets its alarm;
\* a failure on the way leaves a nonce nobody learns of.
IssueNonce(n) ==
    /\ issue[n].stage = "none"
    /\ clock + Lifetime <= MaxTime
    /\ issue' = [issue EXCEPT ![n] = [stage |-> "put", expires |-> clock + Lifetime]]
    /\ UNCHANGED <<clock, record, alarm, gate, req, sessions, used>>

IssuePut(n) ==
    /\ issue[n].stage = "put"
    /\ record' = [record EXCEPT ![n] = issue[n].expires]
    /\ issue' = [issue EXCEPT ![n].stage = "alarm"]
    /\ UNCHANGED <<clock, alarm, gate, req, sessions, used>>

\* Mutant of IssueAlarm: no alarm is set.
IssueNoAlarm(n) ==
    /\ issue[n].stage = "alarm"
    /\ issue' = [issue EXCEPT ![n].stage = "handed"]
    /\ UNCHANGED <<clock, record, alarm, gate, req, sessions, used>>

IssueAlarm(n) ==
    /\ issue[n].stage = "alarm"
    /\ alarm' = [alarm EXCEPT ![n] = issue[n].expires]
    /\ issue' = [issue EXCEPT ![n].stage = "handed"]
    /\ UNCHANGED <<clock, record, gate, req, sessions, used>>

IssueFails(n) ==
    /\ issue[n].stage \in {"put", "alarm"}
    /\ issue' = [issue EXCEPT ![n].stage = "failed"]
    /\ UNCHANGED <<clock, record, alarm, gate, req, sessions, used>>

-----------------------------------------------------------------------------
\* Mutants: the clocks of object and worker differ by a tick; the object lets
\* requests in while one is being served.
ExpiredEarly(n) == record[n] = None \/ record[n] <= clock + 1
Ungated(n) == TRUE

Expired(n) == record[n] = None \/ record[n] <= clock
Enter(n)   == gate[n] = Free

At(r, stage) == req[r].stage = stage
nonce(r)     == req[r].nonce

\* A signed message that passes its checks, for any nonce that was handed out,
\* as often as anybody likes to send it.
Verify(r, n) ==
    /\ At(r, "none")
    /\ issue[n].stage = "handed"
    /\ req' = [req EXCEPT ![r] = [stage |-> "valid", nonce |-> n, ok |-> FALSE]]
    /\ UNCHANGED <<clock, issue, record, alarm, gate, sessions, used>>

\* consume: behind the gate the record is read, then deleted, then the alarm.
ConsumeGet(r) ==
    /\ At(r, "valid") /\ Enter(nonce(r))
    /\ gate' = [gate EXCEPT ![nonce(r)] = r]
    /\ req' = [req EXCEPT ![r].stage = "delete", ![r].ok = ~ Expired(nonce(r))]
    /\ UNCHANGED <<clock, issue, record, alarm, sessions, used>>

ConsumeDelete(r) ==
    /\ At(r, "delete")
    /\ record' = [record EXCEPT ![nonce(r)] = None]
    /\ used' = IF req[r].ok THEN used \cup {nonce(r)} ELSE used
    /\ req' = [req EXCEPT ![r].stage = "unalarm"]
    /\ UNCHANGED <<clock, issue, alarm, gate, sessions>>

ConsumeDeleteAlarm(r) ==
    /\ At(r, "unalarm")
    /\ alarm' = [alarm EXCEPT ![nonce(r)] = None]
    /\ gate' = [gate EXCEPT ![nonce(r)] = Free]
    /\ req' = [req EXCEPT ![r] = IF @.ok THEN [@ EXCEPT !.stage = "consumed"] ELSE NoReq]
    /\ UNCHANGED <<clock, issue, record, sessions, used>>

\* The session goes into KV, or the answer of the object or the put is lost.
CreateSession(r) ==
    /\ At(r, "consumed")
    /\ \/ sessions' = [sessions EXCEPT ![nonce(r)] = @ + 1]
       \/ UNCHANGED sessions
    /\ req' = [req EXCEPT ![r] = NoReq]
    /\ UNCHANGED <<clock, issue, record, alarm, gate, used>>

-----------------------------------------------------------------------------
AlarmStart(n) ==
    /\ alarm[n] # None /\ alarm[n] <= clock
    /\ Enter(n)
    /\ gate' = [gate EXCEPT ![n] = AlarmRun]
    /\ UNCHANGED <<clock, issue, record, alarm, req, sessions, used>>

AlarmFinish(n) ==
    /\ gate[n] = AlarmRun
    /\ IF Expired(n)
       THEN /\ record' = [record EXCEPT ![n] = None]
            /\ alarm' = [alarm EXCEPT ![n] = None]
       ELSE /\ alarm' = [alarm EXCEPT ![n] = record[n]]
            /\ UNCHANGED record
    /\ gate' = [gate EXCEPT ![n] = Free]
    /\ UNCHANGED <<clock, issue, req, sessions, used>>

\* The instance dies inside its gate: the request fails, the alarm runs again.
Evict(n) ==
    /\ gate[n] # Free
    /\ gate' = [gate EXCEPT ![n] = Free]
    /\ req' = [r \in Requests |-> IF gate[n] = r THEN NoReq ELSE req[r]]
    /\ UNCHANGED <<clock, issue, record, alarm, sessions, used>>

Consume(r) == ConsumeGet(r) \/ ConsumeDelete(r) \/ ConsumeDeleteAlarm(r)
Alarm(n)   == AlarmStart(n) \/ AlarmFinish(n)

Next ==
    \/ Tick
    \/ \E n \in Nonces :
          \/ IssueNonce(n) \/ IssuePut(n) \/ IssueAlarm(n) \/ IssueFails(n)
          \/ Alarm(n) \/ Evict(n)
          \/ \E r \in Requests : Verify(r, n)
    \/ \E r \in Requests : Consume(r) \/ CreateSession(r)

\* Time passes, alarms are delivered at least once, and what runs inside a gate
\* ends.  Requests that keep coming may not keep the alarm from running.
Fairness ==
    /\ WF_vars(Tick)
    /\ \A n \in Nonces : SF_vars(AlarmStart(n)) /\ SF_vars(AlarmFinish(n))
    /\ \A r \in Requests : WF_vars(Consume(r))

Spec == Init /\ [][Next]_vars /\ Fairness

-----------------------------------------------------------------------------
\* However many verifications of one signed message race, and wherever the
\* object dies, they add up to one session at most.
OneSessionPerNonce == \A n \in Nonces : sessions[n] <= 1

\* A nonce in a user's hands works until it expires: only the verification that
\* gets to use it takes it away, never an alarm, a refused request or a crash.
LiveNonceUsable ==
    \A n \in Nonces :
        issue[n].stage = "handed" /\ clock < issue[n].expires /\ n \notin used
          => record[n] = issue[n].expires

\* The object of every nonce that was handed out empties its storage in the
\* end, whether anybody comes to use the nonce or not.
NoncesCleanedUp ==
    \A n \in Nonces :
        issue[n].stage = "handed" ~> record[n] = None /\ alarm[n] = None
=============================================================================
