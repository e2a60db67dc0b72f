------------------------------ MODULE GuardsProofs -----------------------------
(***************************************************************************)
(* What guards the routes, for every number of requests in flight: a nonce *)
(* is worth one session at most and works until it expires or is used; the *)
(* circuit opens on failures that happened; nobody is rejected below the   *)
(* limit; and sessions end in time, and not before.                        *)
(***************************************************************************)
EXTENDS MCGuards, FiniteSetTheorems, TLAPS

\* Requests, alarms and gates concern nonces that were handed out.
OnlyHanded ==
    /\ \A r \in Requests : ~ At(r, "none") => issue[nonce(r)].stage = "handed"
    /\ \A n \in Nonces : alarm[n] # None \/ gate[n] # Free => issue[n].stage = "handed"

\* A record is the expiry that was chosen, there from the put on.
RecordIsExpiry ==
    \A n \in Nonces :
        /\ record[n] \in {None, issue[n].expires}
        /\ record[n] # None => issue[n].stage \notin {"none", "put"}
        /\ issue[n].stage = "alarm" => record[n] = issue[n].expires

\* Between its two deletions a request holds the gate ...
Gated ==
    \A r \in Requests : At(r, "delete") \/ At(r, "unalarm") => gate[nonce(r)] = r

\* ... and what it has read is still so.
VerdictHolds ==
    \A r \in Requests :
        At(r, "delete") => IF req[r].ok THEN record[nonce(r)] # None ELSE Expired(nonce(r))

\* A request that runs.
Running == [stage : {"valid", "delete", "unalarm", "consumed"}, nonce : Nonces,
            ok : BOOLEAN]

\* A request that has used its nonce: nobody else has, and nobody else will.
Won(r)   == At(r, "consumed") \/ (At(r, "unalarm") /\ req[r].ok)
Spent(n) == record[n] = None /\ issue[n].stage \notin {"none", "put"}
OneWinner ==
    /\ \A r \in Requests : Won(r) => Spent(nonce(r)) /\ sessions[nonce(r)] = 0
    /\ \A q, r \in Requests : Won(q) /\ Won(r) /\ nonce(q) = nonce(r) => q = r
    /\ \A n \in Nonces : sessions[n] # 0 => sessions[n] = 1 /\ Spent(n)

Consumption == OnlyHanded /\ RecordIsExpiry /\ Gated /\ VerdictHolds
IInv == TypeOK /\ Consumption /\ OneWinner /\ LiveNonceUsable

-----------------------------------------------------------------------------
\* No nonce was issued at first.
LEMMA InitInv == Init => IInv
  BY SiweAssumption
  DEF Init, IInv, TypeOK, Consumption, OnlyHanded, RecordIsExpiry, Gated, VerdictHolds,
      OneWinner, LiveNonceUsable, Won, Spent, At, nonce, None, NoReq, Free, AlarmRun

\* Time only takes nonces closer to their expiry.
LEMMA ClockInv == ASSUME IInv, Tick PROVE IInv'
  <1> USE SiweAssumption DEF Tick, IInv, TypeOK, At, nonce, None, NoReq, Free, AlarmRun
  <1>1. TypeOK'
    BY DEF OneWinner, Won
  <1>2. OnlyHanded'
    BY DEF Consumption, OnlyHanded
  <1>3. RecordIsExpiry'
    BY DEF Consumption, RecordIsExpiry, OnlyHanded
  <1>4. Gated'
    BY DEF Consumption, Gated
  <1>5. VerdictHolds'
    BY DEF Consumption, VerdictHolds, Gated, Expired, OnlyHanded
  <1>6. OneWinner'
    BY DEF Consumption, OneWinner, Won, Spent, VerdictHolds, OnlyHanded, RecordIsExpiry
  <1>7. LiveNonceUsable'
    BY DEF Consumption, LiveNonceUsable, VerdictHolds, Expired, RecordIsExpiry, OnlyHanded
  <1> QED
    BY <1>1, <1>2, <1>3, <1>4, <1>5, <1>6, <1>7 DEF Consumption

\* A new nonce has no record yet.
LEMMA IssueNonceInv == ASSUME IInv, NEW n \in Nonces, IssueNonce(n) PROVE IInv'
  <1> USE SiweAssumption DEF IssueNonce, IInv, TypeOK, At, nonce, None, NoReq, Free, AlarmRun
  <1>1. TypeOK'
    BY DEF OneWinner, Won
  <1>2. OnlyHanded'
    BY DEF Consumption, OnlyHanded
  <1>3. RecordIsExpiry'
    BY DEF Consumption, RecordIsExpiry, OnlyHanded
  <1>4. Gated'
    BY DEF Consumption, Gated
  <1>5. VerdictHolds'
    BY DEF Consumption, VerdictHolds, Gated, Expired, OnlyHanded
  <1>6. OneWinner'
    BY DEF Consumption, OneWinner, Won, Spent, VerdictHolds, OnlyHanded, RecordIsExpiry
  <1>7. LiveNonceUsable'
    BY DEF Consumption, LiveNonceUsable, VerdictHolds, Expired, RecordIsExpiry, OnlyHanded
  <1> QED
    BY <1>1, <1>2, <1>3, <1>4, <1>5, <1>6, <1>7 DEF Consumption

\* The put writes the chosen expiry into an empty object.
LEMMA IssuePutInv == ASSUME IInv, NEW n \in Nonces, IssuePut(n) PROVE IInv'
  <1> USE SiweAssumption DEF IssuePut, IInv, TypeOK, At, nonce, None, NoReq, Free, AlarmRun
  <1>1. TypeOK'
    BY DEF OneWinner, Won
  <1>2. OnlyHanded'
    BY DEF Consumption, OnlyHanded
  <1>3. RecordIsExpiry'
    BY DEF Consumption, RecordIsExpiry, OnlyHanded
  <1>4. Gated'
    BY DEF Consumption, Gated
  <1>5. VerdictHolds'
    BY DEF Consumption, VerdictHolds, Gated, Expired, OnlyHanded
  <1>6. OneWinner'
    BY DEF Consumption, OneWinner, Won, Spent, VerdictHolds, OnlyHanded, RecordIsExpiry
  <1>7. LiveNonceUsable'
    BY DEF Consumption, LiveNonceUsable, VerdictHolds, Expired, RecordIsExpiry, OnlyHanded
  <1> QED
    BY <1>1, <1>2, <1>3, <1>4, <1>5, <1>6, <1>7 DEF Consumption

\* A nonce that is handed out has its record.
LEMMA IssueAlarmInv == ASSUME IInv, NEW n \in Nonces, IssueAlarm(n) PROVE IInv'
  <1> USE SiweAssumption DEF IssueAlarm, IInv, TypeOK, At, nonce, None, NoReq, Free, AlarmRun
  <1>1. TypeOK'
    BY DEF OneWinner, Won
  <1>2. OnlyHanded'
    BY DEF Consumption, OnlyHanded
  <1>3. RecordIsExpiry'
    BY DEF Consumption, RecordIsExpiry, OnlyHanded
  <1>4. Gated'
    BY DEF Consumption, Gated
  <1>5. VerdictHolds'
    BY DEF Consumption, VerdictHolds, Gated, Expired, OnlyHanded
  <1>6. OneWinner'
    BY DEF Consumption, OneWinner, Won, Spent, VerdictHolds, OnlyHanded, RecordIsExpiry
  <1>7. LiveNonceUsable'
    BY DEF Consumption, LiveNonceUsable, VerdictHolds, Expired, RecordIsExpiry, OnlyHanded
  <1> QED
    BY <1>1, <1>2, <1>3, <1>4, <1>5, <1>6, <1>7 DEF Consumption

\* A nonce that is not handed out is of no use to anybody.
LEMMA IssueFailsInv == ASSUME IInv, NEW n \in Nonces, IssueFails(n) PROVE IInv'
  <1> USE SiweAssumption DEF IssueFails, IInv, TypeOK, At, nonce, None, NoReq, Free, AlarmRun
  <1>1. TypeOK'
    BY DEF OneWinner, Won
  <1>2. OnlyHanded'
    BY DEF Consumption, OnlyHanded
  <1>3. RecordIsExpiry'
    BY DEF Consumption, RecordIsExpiry, OnlyHanded
  <1>4. Gated'
    BY DEF Consumption, Gated
  <1>5. VerdictHolds'
    BY DEF Consumption, VerdictHolds, Gated, Expired, OnlyHanded
  <1>6. OneWinner'
    BY DEF Consumption, OneWinner, Won, Spent, VerdictHolds, OnlyHanded, RecordIsExpiry
  <1>7. LiveNonceUsable'
    BY DEF Consumption, LiveNonceUsable, VerdictHolds, Expired, RecordIsExpiry, OnlyHanded
  <1> QED
    BY <1>1, <1>2, <1>3, <1>4, <1>5, <1>6, <1>7 DEF Consumption

\* The alarm waits for the gate.
LEMMA AlarmStartInv == ASSUME IInv, NEW n \in Nonces, AlarmStart(n) PROVE IInv'
  <1> USE SiweAssumption DEF AlarmStart, Enter, IInv, TypeOK, At, nonce, None, NoReq, Free, AlarmRun
  <1>1. TypeOK'
    BY DEF OneWinner, Won
  <1>2. OnlyHanded'
    BY DEF Consumption, OnlyHanded
  <1>3. RecordIsExpiry'
    BY DEF Consumption, RecordIsExpiry, OnlyHanded
  <1>4. Gated'
    BY DEF Consumption, Gated
  <1>5. VerdictHolds'
    BY DEF Consumption, VerdictHolds, Gated, Expired, OnlyHanded
  <1>6. OneWinner'
    BY DEF Consumption, OneWinner, Won, Spent, VerdictHolds, OnlyHanded, RecordIsExpiry
  <1>7. LiveNonceUsable'
    BY DEF Consumption, LiveNonceUsable, VerdictHolds, Expired, RecordIsExpiry, OnlyHanded
  <1> QED
    BY <1>1, <1>2, <1>3, <1>4, <1>5, <1>6, <1>7 DEF Consumption

\* The alarm removes expired records only, and none under a request.
LEMMA AlarmFinishInv == ASSUME IInv, NEW n \in Nonces, AlarmFinish(n) PROVE IInv'
  <1> USE SiweAssumption DEF AlarmFinish, IInv, TypeOK, At, nonce, None, NoReq, Free, AlarmRun
  <1>1. TypeOK'
    BY DEF OneWinner, Won
  <1>2. OnlyHanded'
    BY DEF Consumption, OnlyHanded
  <1>3. RecordIsExpiry'
    BY DEF Consumption, RecordIsExpiry, OnlyHanded
  <1>4. Gated'
    BY DEF Consumption, Gated
  <1>5. VerdictHolds'
    BY DEF Consumption, VerdictHolds, Gated, Expired, OnlyHanded
  <1>6. OneWinner'
    BY DEF Consumption, OneWinner, Won, Spent, VerdictHolds, OnlyHanded, RecordIsExpiry
  <1>7. LiveNonceUsable'
    BY DEF Consumption, LiveNonceUsable, VerdictHolds, Expired, RecordIsExpiry, OnlyHanded
  <1> QED
    BY <1>1, <1>2, <1>3, <1>4, <1>5, <1>6, <1>7 DEF Consumption

\* The death of the instance takes the request inside its gate along.
LEMMA EvictInv == ASSUME IInv, NEW n \in Nonces, Evict(n) PROVE IInv'
  <1> USE SiweAssumption DEF Evict, IInv, TypeOK, At, nonce, None, NoReq, Free, AlarmRun
  <1>1. TypeOK'
    BY DEF OneWinner, Won
  <1>2. OnlyHanded'
    BY DEF Consumption, OnlyHanded
  <1>3. RecordIsExpiry'
    BY DEF Consumption, RecordIsExpiry, OnlyHanded
  <1>4. Gated'
    BY DEF Consumption, Gated
  <1>5. VerdictHolds'
    BY DEF Consumption, VerdictHolds, Gated, Expired, OnlyHanded
  <1>6. OneWinner'
    BY DEF Consumption, OneWinner, Won, Spent, VerdictHolds, OnlyHanded, RecordIsExpiry
  <1>7. LiveNonceUsable'
    BY DEF Consumption, LiveNonceUsable, VerdictHolds, Expired, RecordIsExpiry, OnlyHanded
  <1> QED
    BY <1>1, <1>2, <1>3, <1>4, <1>5, <1>6, <1>7 DEF Consumption

\* A verification starts with nothing but a nonce that was handed out.
LEMMA VerifyInv == ASSUME IInv, NEW r \in Requests, NEW n \in Nonces, Verify(r, n) PROVE IInv'
  <1> USE SiweAssumption DEF Verify, IInv, TypeOK, At, nonce, None, NoReq, Free, AlarmRun
  <1>1. TypeOK'
    <2>1. [stage |-> "valid", nonce |-> n, ok |-> FALSE] \in Running
      BY DEF Running
    <2> QED
      BY <2>1 DEF Running
  <1>2. OnlyHanded'
    BY DEF Consumption, OnlyHanded
  <1>3. RecordIsExpiry'
    BY DEF Consumption, RecordIsExpiry, OnlyHanded
  <1>4. Gated'
    BY DEF Consumption, Gated
  <1>5. VerdictHolds'
    BY DEF Consumption, VerdictHolds, Gated, Expired, OnlyHanded
  <1>6. OneWinner'
    BY DEF Consumption, OneWinner, Won, Spent, VerdictHolds, OnlyHanded, RecordIsExpiry
  <1>7. LiveNonceUsable'
    BY DEF Consumption, LiveNonceUsable, VerdictHolds, Expired, RecordIsExpiry, OnlyHanded
  <1> QED
    BY <1>1, <1>2, <1>3, <1>4, <1>5, <1>6, <1>7 DEF Consumption

\* Inside the gate the verdict is about the record of this moment.
LEMMA ConsumeGetInv == ASSUME IInv, NEW r \in Requests, ConsumeGet(r) PROVE IInv'
  <1> USE SiweAssumption DEF ConsumeGet, Enter, IInv, TypeOK, At, nonce, None, NoReq, Free, AlarmRun
  <1>1. TypeOK'
    <2>1. req[r] \in Running /\ (~ Expired(nonce(r))) \in BOOLEAN
      BY DEF Running
    <2>2. [req[r] EXCEPT !.stage = "delete", !.ok = ~ Expired(nonce(r))] \in Running
      BY <2>1 DEF Running
    <2> QED
      BY <2>1, <2>2 DEF Running
  <1>2. OnlyHanded'
    BY DEF Consumption, OnlyHanded
  <1>3. RecordIsExpiry'
    BY DEF Consumption, RecordIsExpiry, OnlyHanded
  <1>4. Gated'
    BY DEF Consumption, Gated
  <1>5. VerdictHolds'
    BY DEF Consumption, VerdictHolds, Gated, Expired, OnlyHanded
  <1>6. OneWinner'
    BY DEF Consumption, OneWinner, Won, Spent, VerdictHolds, OnlyHanded, RecordIsExpiry
  <1>7. LiveNonceUsable'
    BY DEF Consumption, LiveNonceUsable, VerdictHolds, Expired, RecordIsExpiry, OnlyHanded
  <1> QED
    BY <1>1, <1>2, <1>3, <1>4, <1>5, <1>6, <1>7 DEF Consumption

\* The delete makes the request the one that used the nonce.
LEMMA ConsumeDeleteInv == ASSUME IInv, NEW r \in Requests, ConsumeDelete(r) PROVE IInv'
  <1> USE SiweAssumption DEF ConsumeDelete, IInv, TypeOK, At, nonce, None, NoReq, Free, AlarmRun
  <1>1. TypeOK'
    BY DEF OneWinner, Won
  <1>2. OnlyHanded'
    BY DEF Consumption, OnlyHanded
  <1>3. RecordIsExpiry'
    BY DEF Consumption, RecordIsExpiry, OnlyHanded
  <1>4. Gated'
    BY DEF Consumption, Gated
  <1>5. VerdictHolds'
    BY DEF Consumption, VerdictHolds, Gated, Expired, OnlyHanded
  <1>6. OneWinner'
    BY DEF Consumption, OneWinner, Won, Spent, VerdictHolds, OnlyHanded, RecordIsExpiry
  <1>7. LiveNonceUsable'
    BY DEF Consumption, LiveNonceUsable, VerdictHolds, Expired, RecordIsExpiry, OnlyHanded
  <1> QED
    BY <1>1, <1>2, <1>3, <1>4, <1>5, <1>6, <1>7 DEF Consumption

\* The alarm goes with the record, and the gate opens.
LEMMA ConsumeDeleteAlarmInv == ASSUME IInv, NEW r \in Requests, ConsumeDeleteAlarm(r) PROVE IInv'
  <1> USE SiweAssumption DEF ConsumeDeleteAlarm, IInv, TypeOK, At, nonce, None, NoReq, Free, AlarmRun
  <1>1. TypeOK'
    <2>1. req[r] \in Running
      BY DEF Running
    <2>2. [req[r] EXCEPT !.stage = "consumed"] \in Running
      BY <2>1 DEF Running
    <2> QED
      BY <2>1, <2>2 DEF Running
  <1>2. OnlyHanded'
    BY DEF Consumption, OnlyHanded
  <1>3. RecordIsExpiry'
    BY DEF Consumption, RecordIsExpiry, OnlyHanded
  <1>4. Gated'
    BY DEF Consumption, Gated
  <1>5. VerdictHolds'
    BY DEF Consumption, VerdictHolds, Gated, Expired, OnlyHanded
  <1>6. OneWinner'
    BY DEF Consumption, OneWinner, Won, Spent, VerdictHolds, OnlyHanded, RecordIsExpiry
  <1>7. LiveNonceUsable'
    BY DEF Consumption, LiveNonceUsable, VerdictHolds, Expired, RecordIsExpiry, OnlyHanded
  <1> QED
    BY <1>1, <1>2, <1>3, <1>4, <1>5, <1>6, <1>7 DEF Consumption

\* The request that used the nonce makes its one session.
LEMMA CreateSessionInv == ASSUME IInv, NEW r \in Requests, CreateSession(r) PROVE IInv'
  <1> USE SiweAssumption DEF CreateSession, IInv, TypeOK, At, nonce, None, NoReq, Free, AlarmRun
  <1>1. TypeOK'
    BY DEF OneWinner, Won
  <1>2. OnlyHanded'
    BY DEF Consumption, OnlyHanded
  <1>3. RecordIsExpiry'
    BY DEF Consumption, RecordIsExpiry, OnlyHanded
  <1>4. Gated'
    BY DEF Consumption, Gated
  <1>5. VerdictHolds'
    BY DEF Consumption, VerdictHolds, Gated, Expired, OnlyHanded
  <1>6. OneWinner'
    BY DEF Consumption, OneWinner, Won, Spent, VerdictHolds, OnlyHanded, RecordIsExpiry
  <1>7. LiveNonceUsable'
    BY DEF Consumption, LiveNonceUsable, VerdictHolds, Expired, RecordIsExpiry, OnlyHanded
  <1> QED
    BY <1>1, <1>2, <1>3, <1>4, <1>5, <1>6, <1>7 DEF Consumption

-----------------------------------------------------------------------------
\* Every step preserves the invariant.
LEMMA NextInv == IInv /\ [Next]_vars => IInv'
  <1> SUFFICES ASSUME IInv, [Next]_vars PROVE IInv'
    OBVIOUS
  <1>1. CASE Tick
    BY <1>1, ClockInv
  <1>2. CASE \E n \in Nonces : IssueNonce(n) \/ IssuePut(n) \/ IssueAlarm(n) \/ IssueFails(n)
    BY <1>2, IssueNonceInv, IssuePutInv, IssueAlarmInv, IssueFailsInv
  <1>3. CASE \E n \in Nonces : Alarm(n) \/ Evict(n)
    BY <1>3, AlarmStartInv, AlarmFinishInv, EvictInv DEF Alarm
  <1>4. CASE \E r \in Requests : Consume(r) \/ CreateSession(r)
    BY <1>4, ConsumeGetInv, ConsumeDeleteInv, ConsumeDeleteAlarmInv, CreateSessionInv DEF Consume
  <1>5. CASE \E n \in Nonces, r \in Requests : Verify(r, n)
    BY <1>5, VerifyInv
  <1>6. CASE UNCHANGED vars
    BY <1>6 DEF vars, IInv, TypeOK, Consumption, OnlyHanded, RecordIsExpiry, Gated,
                VerdictHolds, Expired, OneWinner, LiveNonceUsable, Won, Spent, At, nonce
  <1> QED
    BY <1>1, <1>2, <1>3, <1>4, <1>5, <1>6 DEF Next

\* The invariant holds in every behaviour.
THEOREM Invariance == Spec => []IInv
  BY InitInv, NextInv, PTL DEF Spec

\* Every variable keeps its type.
THEOREM TypeCorrect == Spec => []TypeOK
  BY Invariance, PTL DEF IInv

\* Verifications of one message that race each other, and the alarm, and the
\* death of the object, create one session at most.
THEOREM SingleUse == Spec => []OneSessionPerNonce
  <1>1. ASSUME IInv, NEW n \in Nonces PROVE sessions[n] <= 1
    <2>1. sessions[n] # 0 => sessions[n] = 1
      BY <1>1 DEF IInv, OneWinner
    <2> QED
      BY <2>1
  <1>2. IInv => OneSessionPerNonce
    BY <1>1 DEF OneSessionPerNonce
  <1> QED
    BY <1>2, Invariance, PTL

\* A nonce that was handed out can be used until it expires, unless it was.
THEOREM UsableUntilExpiry == Spec => []LiveNonceUsable
  <1>1. IInv => LiveNonceUsable
    BY DEF IInv
  <1> QED
    BY <1>1, Invariance, PTL

-----------------------------------------------------------------------------
\* The circuit breaker: the failure counter (middleware/circuit-breaker.ts).

\* The sum of the weights of a set of requests, counted one by one.
Units(f, S) == {p \in S \X (1 .. Threshold) : p[2] <= f[p[1]]}
Load(f)     == Cardinality(Units(f, Callers))

\* One request's share of the sum.
LEMMA UnitsOfOne ==
  ASSUME NEW r, NEW f, Threshold \in Nat, f[r] \in 0 .. Threshold
  PROVE  IsFiniteSet(Units(f, {r})) /\ Cardinality(Units(f, {r})) = f[r]
  <1>1. Units(f, {r}) = {r} \X (1 .. f[r])
    BY DEF Units
  <1>2. /\ IsFiniteSet({r}) /\ Cardinality({r}) = 1
        /\ IsFiniteSet(1 .. f[r]) /\ Cardinality(1 .. f[r]) = f[r]
    <2>1. 1 \in Int /\ f[r] \in Int
      OBVIOUS
    <2>2. IsFiniteSet(1 .. f[r]) /\ Cardinality(1 .. f[r]) = IF 1 > f[r] THEN 0 ELSE f[r] - 1 + 1
      BY <2>1, FS_Interval
    <2>3. (IF 1 > f[r] THEN 0 ELSE f[r] - 1 + 1) = f[r]
      OBVIOUS
    <2>4. IsFiniteSet({r}) /\ Cardinality({r}) = 1
      BY FS_Singleton, FS_EmptySet, FS_AddElement
    <2> QED
      BY <2>2, <2>3, <2>4
  <1>3. /\ IsFiniteSet({r} \X (1 .. f[r]))
        /\ Cardinality({r} \X (1 .. f[r])) = Cardinality({r}) * Cardinality(1 .. f[r])
    BY <1>2, FS_Product
  <1>4. 1 * f[r] = f[r]
    OBVIOUS
  <1> QED
    BY <1>1, <1>2, <1>3, <1>4

\* The sum without one request.
LEMMA LoadSplit ==
  ASSUME BreakerConstants, NEW f \in [Callers -> 0 .. Threshold], NEW r \in Callers
  PROVE  /\ IsFiniteSet(Units(f, Callers \ {r}))
         /\ Load(f) = f[r] + Cardinality(Units(f, Callers \ {r}))
  <1>1. IsFiniteSet(Callers \X (1 .. Threshold))
    <2>1. IsFiniteSet(1 .. Threshold)
      BY FS_Interval DEF BreakerConstants
    <2>2. IsFiniteSet(Callers)
      BY DEF BreakerConstants
    <2> QED
      BY <2>1, <2>2, FS_Product
  <1>2. IsFiniteSet(Units(f, Callers)) /\ IsFiniteSet(Units(f, Callers \ {r}))
    <2>1. /\ Units(f, Callers) \subseteq Callers \X (1 .. Threshold)
          /\ Units(f, Callers \ {r}) \subseteq Callers \X (1 .. Threshold)
      BY DEF Units
    <2> QED
      BY <1>1, <2>1, FS_Subset
  <1>3. IsFiniteSet(Units(f, {r})) /\ Cardinality(Units(f, {r})) = f[r]
    BY UnitsOfOne DEF BreakerConstants
  <1>4. /\ Units(f, Callers) = Units(f, {r}) \cup Units(f, Callers \ {r})
        /\ Units(f, {r}) \cap Units(f, Callers \ {r}) = {}
    BY DEF Units
  <1>5. Cardinality(Units(f, {r}) \cup Units(f, Callers \ {r})) =
          Cardinality(Units(f, {r})) + Cardinality(Units(f, Callers \ {r}))
            - Cardinality(Units(f, {r}) \cap Units(f, Callers \ {r}))
    BY <1>2, <1>3, FS_Union
  <1>6. Cardinality(Units(f, {r}) \cap Units(f, Callers \ {r})) = 0
    BY <1>4, FS_EmptySet
  <1>7. Cardinality(Units(f, Callers \ {r})) \in Nat
    BY <1>2, FS_CardinalityType
  <1>8. f[r] \in Nat
    BY DEF BreakerConstants
  <1>9. Cardinality(Units(f, Callers)) = f[r] + Cardinality(Units(f, Callers \ {r}))
    <2> DEFINE A == Units(f, {r})
               B == Units(f, Callers \ {r})
    <2>1. /\ Cardinality(A \cup B) = Cardinality(A) + Cardinality(B) - Cardinality(A \cap B)
          /\ Cardinality(A) = f[r] /\ Cardinality(A \cap B) = 0 /\ Cardinality(B) \in Nat
          /\ Units(f, Callers) = A \cup B
      BY <1>3, <1>4, <1>5, <1>6, <1>7
    <2> HIDE DEF A, B
    <2>2. Cardinality(A \cup B) = f[r] + Cardinality(B)
      BY <1>8, <2>1
    <2> QED
      BY <2>1, <2>2 DEF B
  <1> QED
    BY <1>2, <1>9 DEF Load

\* The sum is a number.
LEMMA LoadType ==
  ASSUME BreakerConstants, NEW f \in [Callers -> 0 .. Threshold] PROVE Load(f) \in Nat
  <1>1. IsFiniteSet(1 .. Threshold) /\ IsFiniteSet(Callers)
    BY FS_Interval DEF BreakerConstants
  <1>2. IsFiniteSet(Callers \X (1 .. Threshold))
    BY <1>1, FS_Product
  <1>3. Units(f, Callers) \subseteq Callers \X (1 .. Threshold)
    BY DEF Units
  <1>4. IsFiniteSet(Units(f, Callers))
    BY <1>2, <1>3, FS_Subset
  <1> QED
    BY <1>4, FS_CardinalityType DEF Load

\* A request's weight comes into the sum and goes out of it.
LEMMA LoadMoves ==
  ASSUME BreakerConstants, NEW f \in [Callers -> 0 .. Threshold], NEW r \in Callers,
         NEW v \in 0 .. Threshold
  PROVE  /\ Load(f) \in Nat /\ Load([f EXCEPT ![r] = v]) \in Nat
         /\ f[r] <= Load(f)
         /\ Load([f EXCEPT ![r] = v]) + f[r] = Load(f) + v
  <1> DEFINE g == [f EXCEPT ![r] = v]
  <1>1. g \in [Callers -> 0 .. Threshold] /\ g[r] = v
    OBVIOUS
  <1>2. Units(g, Callers \ {r}) = Units(f, Callers \ {r})
    <2>1. \A q \in Callers \ {r} : g[q] = f[q]
      OBVIOUS
    <2> HIDE DEF g
    <2> QED
      BY <2>1 DEF Units
  <1> HIDE DEF g
  <1>3. Load(f) = f[r] + Cardinality(Units(f, Callers \ {r}))
        /\ IsFiniteSet(Units(f, Callers \ {r}))
    BY LoadSplit
  <1>4. Load(g) = g[r] + Cardinality(Units(g, Callers \ {r}))
    BY <1>1, LoadSplit
  <1>5. Cardinality(Units(f, Callers \ {r})) \in Nat
    BY <1>3, FS_CardinalityType
  <1>6. f[r] \in Nat
    BY DEF BreakerConstants
  <1>7. Load(f) \in Nat /\ Load(g) \in Nat /\ f[r] <= Load(f) /\ Load(g) + f[r] = Load(f) + v
    BY <1>1, <1>2, <1>3, <1>4, <1>5, <1>6
  <1> QED
    BY <1>7 DEF g

\* Nothing weighs nothing.
LEMMA LoadOfNone ==
  ASSUME BreakerConstants PROVE Load([q \in Callers |-> 0]) = 0
  <1>1. Units([q \in Callers |-> 0], Callers) = {}
    BY DEF Units
  <1> QED
    BY <1>1, FS_EmptySet DEF Load

-----------------------------------------------------------------------------
\* The weight of the failures a request has seen and not yet added to the counter.
Unread == [q \in Callers |-> IF CB!At(q, "count") THEN cbReq[q].count ELSE 0]

\* Until the threshold is reached the counter, with what is still to be added to
\* it, and every count about to be written over it are failures that happened;
\* nobody is a trial or opens the circuit before.
CountsAreReal ==
    /\ CB!TypeOK
    /\ seen < Threshold =>
         /\ failures + Load(Unread) <= seen
         /\ \A r \in Callers : CB!At(r, "put") => cbReq[r].count + Load(Unread) <= seen
         /\ state = CB!Closed
         /\ \A r \in Callers : ~ cbReq[r].trial /\ cbReq[r].stage \notin {"probe", "trip", "reopen"}

\* The type of a request at the breaker.
Passes == [stage : {"none", "probe", "run", "count", "put", "trip",
                    "reopen", "close", "closeState", "closeCount"},
           trial : BOOLEAN, count : 0 .. Threshold]

\* What every request reads of the state is of its type.
LEMMA UnreadType ==
  ASSUME BreakerConstants, CB!TypeOK PROVE Unread \in [Callers -> 0 .. Threshold]
  BY DEF BreakerConstants, CB!TypeOK, Unread

\* No failure has been seen, and nothing is counted.
LEMMA BreakerInit == ASSUME BreakerConstants, CB!Init PROVE CountsAreReal
  <1> USE DEF BreakerConstants
  <1>1. CB!TypeOK
    BY DEF CB!Init, CB!TypeOK, CB!NoReq, CB!Closed
  <1>2. Unread = [q \in Callers |-> 0]
    BY DEF CB!Init, CB!NoReq, CB!At, Unread
  <1>3. Load(Unread) = 0
    BY <1>2, LoadOfNone
  <1> QED
    BY <1>1, <1>3 DEF CB!Init, CountsAreReal, CB!At, CB!NoReq

\* A step that adds no failure, reads and writes no counter but to delete it,
\* and opens no circuit.
LEMMA BreakerQuiet ==
  ASSUME BreakerConstants, CountsAreReal, CB!TypeOK', Unread' = Unread, seen' = seen,
         failures' \in {failures, 0}, state' = state \/ state' = CB!Closed \/ seen = Threshold,
         \A r \in Callers :
            \/ cbReq'[r].stage = cbReq[r].stage /\ cbReq'[r].trial = cbReq[r].trial
               /\ cbReq'[r].count = cbReq[r].count
            \/ cbReq'[r].stage \notin {"put", "probe", "trip", "reopen"} /\ cbReq'[r].trial = cbReq[r].trial
            \/ cbReq'[r] = CB!NoReq
            \/ seen = Threshold
  PROVE CountsAreReal'
  <1> USE DEF BreakerConstants
  <1> SUFFICES ASSUME seen' < Threshold
               PROVE  /\ failures' + Load(Unread)' <= seen'
                      /\ \A r \in Callers : CB!At(r, "put")' => cbReq'[r].count + Load(Unread)' <= seen'
                      /\ state' = CB!Closed
                      /\ \A r \in Callers :
                            ~ cbReq'[r].trial /\ cbReq'[r].stage \notin {"probe", "trip", "reopen"}
    BY DEF CountsAreReal, CB!Closed
  <1>1. Load(Unread)' = Load(Unread)
    BY DEF Load, Units
  <1>2. /\ failures + Load(Unread) <= seen /\ state = CB!Closed
        /\ \A r \in Callers : CB!At(r, "put") => cbReq[r].count + Load(Unread) <= seen
        /\ \A r \in Callers : ~ cbReq[r].trial /\ cbReq[r].stage \notin {"probe", "trip", "reopen"}
    BY DEF CountsAreReal
  <1>3. /\ failures \in Nat /\ seen \in Nat /\ seen < Threshold /\ Threshold \in Nat
    BY DEF CountsAreReal, CB!TypeOK
  <1>4. Load(Unread) \in Nat
    BY UnreadType, LoadType DEF CountsAreReal
  <1>5. failures' + Load(Unread)' <= seen'
    BY <1>1, <1>2, <1>3, <1>4
  <1>6. ASSUME NEW r \in Callers
        PROVE  /\ cbReq'[r].stage = "put" => cbReq[r].stage = "put" /\ cbReq'[r].count = cbReq[r].count
               /\ ~ cbReq'[r].trial /\ cbReq'[r].stage \notin {"probe", "trip", "reopen"}
    BY <1>2, <1>3 DEF CB!NoReq
  <1> QED
    BY <1>1, <1>2, <1>3, <1>5, <1>6 DEF CB!At

\* A request that gets a record of its type keeps the types.
LEMMA BreakerMoves ==
  ASSUME CB!TypeOK, NEW r \in Callers, NEW v \in Passes, cbReq' = [cbReq EXCEPT ![r] = v],
         UNCHANGED <<healthy, kvDown, seen>>, failures' \in 0 .. Threshold,
         state' \in {state, CB!Closed}, Cooldown \in Nat
  PROVE  CB!TypeOK'
  <1>1. cbReq' \in [Callers -> Passes]
    BY DEF CB!TypeOK, Passes
  <1>2. state' \in [status : {"closed", "open", "half_open"}, age : 0 .. Cooldown]
    BY DEF CB!TypeOK, CB!Closed
  <1> QED
    BY <1>1, <1>2 DEF CB!TypeOK, Passes

-----------------------------------------------------------------------------
\* Time, the outside world and the TTLs of the keys.
LEMMA BreakerAlone ==
  ASSUME BreakerConstants, CountsAreReal, CB!Tick \/ CB!Turn \/ CB!Expire PROVE CountsAreReal'
  <1> USE DEF BreakerConstants
  <1>1. CB!TypeOK'
    <2>1. CASE CB!Tick
      <3>1. state' \in [status : {"closed", "open", "half_open"}, age : 0 .. Cooldown]
        BY <2>1 DEF CB!Tick, CountsAreReal, CB!TypeOK
      <3> QED
        BY <2>1, <3>1 DEF CB!Tick, CountsAreReal, CB!TypeOK
    <2>2. CASE CB!Turn
      BY <2>2 DEF CB!Turn, CountsAreReal, CB!TypeOK
    <2>3. CASE CB!Expire
      BY <2>3 DEF CB!Expire, CountsAreReal, CB!TypeOK, CB!Closed
    <2> QED
      BY <2>1, <2>2, <2>3
  <1>2. Unread' = Unread /\ UNCHANGED <<cbReq, seen>>
    BY DEF CB!Tick, CB!Turn, CB!Expire, Unread, CB!At
  <1>3. failures' \in {failures, 0}
    BY DEF CB!Tick, CB!Turn, CB!Expire
  <1>4. state' = state \/ state' = CB!Closed \/ seen = Threshold
    <2>1. CASE CB!Tick
      <3>1. state # CB!Closed
        BY <2>1 DEF CB!Tick, CB!Closed
      <3> QED
        BY <3>1 DEF CountsAreReal, CB!TypeOK
    <2> QED
      BY <2>1 DEF CB!Turn, CB!Expire
  <1> QED
    BY <1>1, <1>2, <1>3, <1>4, BreakerQuiet

\* A request arrives, as a trial only where the circuit was opened.
LEMMA BreakerArrive ==
  ASSUME BreakerConstants, CountsAreReal, NEW r \in Callers, CB!Arrive(r) PROVE CountsAreReal'
  <1> USE DEF BreakerConstants, CB!Arrive, CB!At, CB!Stage
  <1>1. CB!TypeOK'
    <2>1. /\ CB!TypeOK /\ cbReq[r] \in Passes /\ failures \in 0 .. Threshold
          /\ cbReq \in [Callers -> Passes]
      BY DEF CountsAreReal, CB!TypeOK, Passes
    <2>2. PICK stage \in {"run", "probe"}, b \in {cbReq[r].trial, TRUE} :
             cbReq' = [cbReq EXCEPT ![r] = [cbReq[r] EXCEPT !.stage = stage, !.trial = b]]
      <3>1. [cbReq[r] EXCEPT !.stage = "run", !.trial = cbReq[r].trial] = [cbReq[r] EXCEPT !.stage = "run"]
        BY <2>1 DEF Passes
      <3> QED
        BY <3>1
    <2>3. [cbReq[r] EXCEPT !.stage = stage, !.trial = b] \in Passes
      BY <2>1 DEF Passes
    <2> QED
      BY <2>1, <2>2, <2>3, BreakerMoves
  <1>2. Unread' = Unread
    BY DEF CountsAreReal, CB!TypeOK, Unread
  <1>3. ASSUME NEW q \in Callers
        PROVE  \/ cbReq'[q] = cbReq[q]
               \/ cbReq'[q].stage = "run" /\ cbReq'[q].trial = cbReq[q].trial
               \/ seen = Threshold
    <2>1. cbReq \in [Callers -> Passes]
      BY DEF CountsAreReal, CB!TypeOK, Passes
    <2>3. CASE cbReq' = [cbReq EXCEPT ![r].stage = "run"]
      BY <2>1, <2>3 DEF Passes
    <2>4. CASE state # CB!Closed
      <3>1. ~ (seen < Threshold) /\ seen \in 0 .. Threshold
        BY <2>4 DEF CountsAreReal, CB!TypeOK
      <3> QED
        BY <3>1
    <2> QED
      BY <2>3, <2>4
  <1> QED
    BY <1>1, <1>2, <1>3, BreakerQuiet

\* A trial writes its half_open, of a circuit that was opened.
LEMMA BreakerProbe ==
  ASSUME BreakerConstants, CountsAreReal, NEW r \in Callers, CB!Probe(r) PROVE CountsAreReal'
  <1> USE DEF BreakerConstants, CB!Probe, CB!At, CB!Stage
  <1>1. CB!TypeOK'
    BY DEF CountsAreReal, CB!TypeOK
  <1>2. Unread' = Unread
    BY DEF CountsAreReal, CB!TypeOK, Unread
  <1>3. seen = Threshold
    BY DEF CountsAreReal, CB!TypeOK
  <1> QED
    BY <1>1, <1>2, <1>3, BreakerQuiet

\* The circuit is opened by requests that may.
LEMMA BreakerOpen ==
  ASSUME BreakerConstants, CountsAreReal, NEW r \in Callers, CB!Open(r) PROVE CountsAreReal'
  <1> USE DEF BreakerConstants, CB!Open, CB!At
  <1>1. CB!TypeOK'
    BY DEF CountsAreReal, CB!TypeOK, CB!NoReq
  <1>2. Unread' = Unread
    BY DEF CountsAreReal, CB!TypeOK, Unread, CB!NoReq
  <1>3. seen = Threshold
    BY DEF CountsAreReal, CB!TypeOK
  <1> QED
    BY <1>1, <1>2, <1>3, BreakerQuiet

\* A success deletes the keys.
LEMMA BreakerClose ==
  ASSUME BreakerConstants, CountsAreReal, NEW r \in Callers, CB!Close(r) PROVE CountsAreReal'
  <1> USE DEF BreakerConstants, CB!Close, CB!At
  <1>1. CB!TypeOK'
    <2>1. /\ CB!TypeOK /\ cbReq[r] \in Passes /\ failures \in 0 .. Threshold
          /\ CB!NoReq \in Passes /\ 0 \in 0 .. Threshold
      BY DEF CountsAreReal, CB!TypeOK, Passes, CB!NoReq
    <2>2. /\ [cbReq[r] EXCEPT !.stage = "closeState"] \in Passes
          /\ [cbReq[r] EXCEPT !.stage = "closeCount"] \in Passes
      BY <2>1 DEF Passes
    <2>3. PICK v \in Passes : cbReq' = [cbReq EXCEPT ![r] = v]
      BY <2>1, <2>2
    <2>4. failures' \in 0 .. Threshold /\ state' \in {state, CB!Closed}
      BY <2>1
    <2> QED
      BY <2>1, <2>3, <2>4, BreakerMoves
  <1>2. Unread' = Unread
    BY DEF CountsAreReal, CB!TypeOK, Unread, CB!NoReq
  <1>3. ASSUME NEW q \in Callers
        PROVE  \/ cbReq'[q] = cbReq[q]
               \/ cbReq'[q].stage \in {"closeState", "closeCount"} /\ cbReq'[q].trial = cbReq[q].trial
               \/ cbReq'[q] = CB!NoReq
    BY DEF CountsAreReal, CB!TypeOK
  <1>4. /\ failures' \in {failures, 0} /\ seen' = seen
        /\ state' = state \/ state' = CB!Closed
    OBVIOUS
  <1> QED
    BY <1>1, <1>2, <1>3, <1>4, BreakerQuiet

\* A success or a failure: what failed is seen before it is counted.
LEMMA BreakerAnswer ==
  ASSUME BreakerConstants, CountsAreReal, NEW r \in Callers, CB!Answer(r) PROVE CountsAreReal'
  <1> USE DEF BreakerConstants, CB!At
  <1>t. CB!TypeOK /\ cbReq[r].stage = "run" /\ UNCHANGED <<healthy, kvDown, failures, state>>
    BY DEF CB!Answer, CountsAreReal
  <1>1. CASE /\ healthy /\ seen' = seen
             /\ cbReq' = [cbReq EXCEPT ![r] = IF @.trial THEN [@ EXCEPT !.stage = "close"] ELSE CB!NoReq]
    <2>1. CB!TypeOK'
      BY <1>t, <1>1 DEF CB!TypeOK, CB!NoReq
    <2>2. Unread' = Unread
      BY <1>t, <1>1 DEF CB!TypeOK, Unread, CB!NoReq
    <2>3. ASSUME NEW q \in Callers
          PROVE  \/ cbReq'[q] = cbReq[q]
                 \/ cbReq'[q].stage = "close" /\ cbReq'[q].trial = cbReq[q].trial
                 \/ cbReq'[q] = CB!NoReq
      BY <1>t, <1>1 DEF CB!TypeOK
    <2> QED
      BY <1>t, <1>1, <2>1, <2>2, <2>3, BreakerQuiet
  <1>2. ASSUME NEW w \in Weights,
               seen' = CB!Capped(seen + w),
               cbReq' = [cbReq EXCEPT ![r].stage = IF cbReq[r].trial THEN "reopen" ELSE "count",
                                      ![r].count = CB!Capped(w)]
        PROVE  CountsAreReal'
    <2>1. CB!Capped(w) \in 0 .. Threshold /\ seen' \in 0 .. Threshold
      BY <1>t, <1>2 DEF CB!Capped, CB!TypeOK
    <2>2. cbReq[r] \in Passes
      BY <1>t DEF CB!TypeOK, Passes
    <2>3. [cbReq[r] EXCEPT !.stage = IF cbReq[r].trial THEN "reopen" ELSE "count",
                           !.count = CB!Capped(w)] \in Passes
      BY <2>1, <2>2 DEF Passes
    <2>4. cbReq' \in [Callers -> Passes]
      <3> HIDE DEF CB!At
      <3> QED
        BY <1>t, <1>2, <2>3 DEF CB!TypeOK, Passes
    <2>5. CB!TypeOK'
      BY <1>t, <2>1, <2>4 DEF CB!TypeOK, Passes
    <2>6. ASSUME seen' < Threshold
          PROVE  /\ failures + Load(Unread)' <= seen'
                 /\ \A q \in Callers : CB!At(q, "put")' => cbReq'[q].count + Load(Unread)' <= seen'
                 /\ state = CB!Closed
                 /\ \A q \in Callers :
                       ~ cbReq'[q].trial /\ cbReq'[q].stage \notin {"probe", "trip", "reopen"}
      <3>1. seen < Threshold /\ w < Threshold /\ seen' = seen + w /\ CB!Capped(w) = w
            /\ w \in 0 .. Threshold /\ seen \in Nat /\ w \in Nat
        BY <1>t, <1>2, <2>6 DEF CB!Capped, CB!TypeOK
      <3>2. /\ failures + Load(Unread) <= seen /\ state = CB!Closed
            /\ \A q \in Callers : CB!At(q, "put") => cbReq[q].count + Load(Unread) <= seen
            /\ \A q \in Callers : ~ cbReq[q].trial /\ cbReq[q].stage \notin {"probe", "trip", "reopen"}
        BY <3>1 DEF CountsAreReal
      <3>3. Unread' = [Unread EXCEPT ![r] = w] /\ Unread[r] = 0
        BY <1>t, <1>2, <3>1, <3>2 DEF Unread, CB!TypeOK
      <3>4. Unread \in [Callers -> 0 .. Threshold]
        BY <1>t, UnreadType
      <3>5. Load(Unread) \in Nat /\ Load(Unread)' = Load(Unread) + w
        <4>1. Load(Unread)' = Load([Unread EXCEPT ![r] = w])
          BY <3>3 DEF Load, Units
        <4>2. Load(Unread) \in Nat /\ Load([Unread EXCEPT ![r] = w]) \in Nat
              /\ Load([Unread EXCEPT ![r] = w]) + Unread[r] = Load(Unread) + w
          BY <3>1, <3>4, LoadMoves
        <4> QED
          BY <4>1, <4>2, <3>3
      <3>6. failures + Load(Unread)' <= seen'
        BY <1>t, <3>1, <3>2, <3>5 DEF CB!TypeOK
      <3>7. ASSUME NEW q \in Callers
            PROVE  /\ cbReq'[q].stage = "put" => cbReq[q].stage = "put" /\ cbReq'[q].count = cbReq[q].count
                   /\ ~ cbReq'[q].trial /\ cbReq'[q].stage \notin {"probe", "trip", "reopen"}
                   /\ cbReq[q].count \in Nat
        BY <1>t, <1>2, <3>2 DEF CB!TypeOK
      <3>8. ASSUME NEW q \in Callers, CB!At(q, "put")'
            PROVE  cbReq'[q].count + Load(Unread)' <= seen'
        <4>1. cbReq'[q].count = cbReq[q].count /\ cbReq[q].count + Load(Unread) <= seen
              /\ cbReq[q].count \in Nat
          BY <3>2, <3>7, <3>8
        <4> QED
          BY <4>1, <3>1, <3>5
      <3> QED
        BY <3>2, <3>6, <3>7, <3>8
    <2> QED
      BY <1>t, <2>5, <2>6 DEF CountsAreReal, CB!Closed
  <1> QED
    BY <1>1, <1>2 DEF CB!Answer

\* A count that was read is the counter and the request's own failure.
LEMMA BreakerReadCount ==
  ASSUME BreakerConstants, CountsAreReal, NEW r \in Callers, CB!ReadCount(r) PROVE CountsAreReal'
  <1> USE DEF BreakerConstants, CB!At
  <1>t. /\ CB!TypeOK /\ cbReq[r].stage = "count" /\ UNCHANGED <<healthy, kvDown, failures, state, seen>>
        /\ cbReq[r] \in Passes /\ cbReq[r].count \in Nat /\ failures \in Nat
    BY DEF CB!ReadCount, CountsAreReal, CB!TypeOK, Passes
  <1>1. PICK n \in {CB!Capped(cbReq[r].count + failures), cbReq[r].count} :
          cbReq' = [cbReq EXCEPT ![r].stage = "put", ![r].count = n]
    <2>1. CASE cbReq' = [cbReq EXCEPT ![r].stage = "put", ![r].count = CB!Capped(@ + failures)]
      BY <2>1
    <2>2. CASE cbReq' = CB!Stage(r, "put")
      <3>1. cbReq' = [cbReq EXCEPT ![r].stage = "put", ![r].count = cbReq[r].count]
        BY <2>2, <1>t DEF CB!Stage, CB!TypeOK
      <3> QED
        BY <3>1
    <2> QED
      BY <2>1, <2>2 DEF CB!ReadCount
  <1>2. n \in 0 .. Threshold /\ n <= cbReq[r].count + failures
    BY <1>t, <1>1 DEF CB!Capped, CB!TypeOK
  <1>3. [cbReq[r] EXCEPT !.stage = "put", !.count = n] \in Passes
    BY <1>t, <1>2 DEF Passes
  <1>4. cbReq' \in [Callers -> Passes]
    BY <1>t, <1>1, <1>3 DEF CB!TypeOK, Passes
  <1>5. CB!TypeOK'
    BY <1>t, <1>4 DEF CB!TypeOK, Passes
  <1>6. ASSUME seen < Threshold
        PROVE  /\ failures + Load(Unread)' <= seen
               /\ \A q \in Callers : CB!At(q, "put")' => cbReq'[q].count + Load(Unread)' <= seen
               /\ state = CB!Closed
               /\ \A q \in Callers :
                     ~ cbReq'[q].trial /\ cbReq'[q].stage \notin {"probe", "trip", "reopen"}
    <2>2. /\ failures + Load(Unread) <= seen /\ state = CB!Closed
          /\ \A q \in Callers : CB!At(q, "put") => cbReq[q].count + Load(Unread) <= seen
          /\ \A q \in Callers : ~ cbReq[q].trial /\ cbReq[q].stage \notin {"probe", "trip", "reopen"}
      BY <1>6 DEF CountsAreReal
    <2>3. Unread' = [Unread EXCEPT ![r] = 0] /\ Unread[r] = cbReq[r].count
      BY <1>t, <1>1 DEF Unread, CB!TypeOK
    <2>4. Unread \in [Callers -> 0 .. Threshold]
      BY <1>t, UnreadType
    <2>5. /\ Load(Unread) \in Nat /\ Load(Unread)' \in Nat
          /\ Load(Unread)' + cbReq[r].count = Load(Unread)
      <3>1. Load(Unread)' = Load([Unread EXCEPT ![r] = 0])
        BY <2>3 DEF Load, Units
      <3>a. 0 \in 0 .. Threshold
        OBVIOUS
      <3>2. Load(Unread) \in Nat /\ Load([Unread EXCEPT ![r] = 0]) \in Nat
            /\ Load([Unread EXCEPT ![r] = 0]) + Unread[r] = Load(Unread) + 0
        BY <2>4, <3>a, LoadMoves
      <3> QED
        BY <3>1, <3>2, <2>3
    <2>6. seen \in Nat
      BY <1>t DEF CB!TypeOK
    <2>7. failures + Load(Unread)' <= seen
      BY <1>t, <2>2, <2>5, <2>6
    <2>8. ASSUME NEW q \in Callers
          PROVE  /\ q # r => cbReq'[q] = cbReq[q]
                 /\ q = r => cbReq'[q].count = n
                 /\ ~ cbReq'[q].trial /\ cbReq'[q].stage \notin {"probe", "trip", "reopen"}
                 /\ cbReq[q].count \in Nat
      BY <1>t, <1>1, <2>2 DEF CB!TypeOK
    <2>9. ASSUME NEW q \in Callers, CB!At(q, "put")'
          PROVE  cbReq'[q].count + Load(Unread)' <= seen
      <3>1. CASE q = r
        BY <3>1, <1>t, <1>2, <2>2, <2>5, <2>6, <2>8
      <3>2. CASE q # r
        <4>1. cbReq'[q].count = cbReq[q].count /\ cbReq[q].count + Load(Unread) <= seen
              /\ cbReq[q].count \in Nat
          BY <3>2, <2>2, <2>8, <2>9
        <4> QED
          BY <4>1, <1>t, <2>5, <2>6
      <3> QED
        BY <3>1, <3>2
    <2> QED
      BY <2>2, <2>7, <2>8, <2>9
  <1> QED
    BY <1>t, <1>5, <1>6 DEF CountsAreReal, CB!Closed

\* A count that is written is one of those that are real, and opens the circuit
\* only when the threshold was seen.
LEMMA BreakerPutCount ==
  ASSUME BreakerConstants, CountsAreReal, NEW r \in Callers, CB!PutCount(r) PROVE CountsAreReal'
  <1> USE DEF BreakerConstants, CB!At
  <1>t. /\ CB!TypeOK /\ cbReq[r].stage = "put" /\ UNCHANGED <<healthy, kvDown, state, seen>>
        /\ cbReq[r] \in Passes /\ cbReq[r].count \in Nat /\ failures \in Nat /\ seen \in Nat
    BY DEF CB!PutCount, CountsAreReal, CB!TypeOK, Passes
  <1>1. failures' \in {failures, cbReq[r].count}
    BY DEF CB!PutCount
  <1>2. \/ cbReq' = [cbReq EXCEPT ![r] = CB!NoReq]
        \/ CB!Trips(cbReq[r].count) /\ cbReq' = [cbReq EXCEPT ![r].stage = "trip"]
    BY <1>t DEF CB!PutCount, CB!TypeOK
  <1>3. CB!TypeOK'
    <2>1. /\ CB!NoReq \in Passes /\ [cbReq[r] EXCEPT !.stage = "trip"] \in Passes
          /\ failures' \in 0 .. Threshold
      BY <1>t, <1>1 DEF Passes, CB!NoReq, CB!TypeOK
    <2>2. PICK v \in Passes : cbReq' = [cbReq EXCEPT ![r] = v]
      BY <1>2, <2>1
    <2> QED
      BY <1>t, <2>1, <2>2, BreakerMoves
  <1>4. Unread' = Unread
    BY <1>t, <1>2 DEF CB!TypeOK, Unread, CB!NoReq
  <1>5. ASSUME seen < Threshold
        PROVE  /\ failures' + Load(Unread)' <= seen
               /\ \A q \in Callers : CB!At(q, "put")' => cbReq'[q].count + Load(Unread)' <= seen
               /\ state = CB!Closed
               /\ \A q \in Callers :
                     ~ cbReq'[q].trial /\ cbReq'[q].stage \notin {"probe", "trip", "reopen"}
    <2>1. Load(Unread)' = Load(Unread)
      BY <1>4 DEF Load, Units
    <2>2. /\ failures + Load(Unread) <= seen /\ state = CB!Closed
          /\ \A q \in Callers : CB!At(q, "put") => cbReq[q].count + Load(Unread) <= seen
          /\ \A q \in Callers : ~ cbReq[q].trial /\ cbReq[q].stage \notin {"probe", "trip", "reopen"}
      BY <1>5 DEF CountsAreReal
    <2>3. Load(Unread) \in Nat
      BY <1>t, UnreadType, LoadType
    <2>4. cbReq[r].count + Load(Unread) <= seen
      BY <1>t, <2>2
    <2>5. cbReq' = [cbReq EXCEPT ![r] = CB!NoReq]
      <3>1. cbReq[r].count < Threshold
        BY <1>t, <1>5, <2>3, <2>4
      <3> QED
        BY <1>2, <1>t, <3>1 DEF CB!Trips
    <2>6. failures' + Load(Unread)' <= seen
      BY <1>1, <2>1, <2>2, <2>4
    <2>7. ASSUME NEW q \in Callers
          PROVE  cbReq'[q] = cbReq[q] \/ (cbReq'[q].stage = "none" /\ ~ cbReq'[q].trial)
      BY <2>5, <1>t DEF CB!TypeOK, CB!NoReq
    <2> QED
      BY <2>1, <2>2, <2>6, <2>7
  <1> QED
    BY <1>t, <1>3, <1>5 DEF CountsAreReal, CB!Closed

\* "At failureThreshold the circuit opens" and not before (circuit-breaker.ts):
\* however the requests in flight read, lose and overwrite the counter, it shows
\* only failures that happened, and no first opening takes fewer than the threshold.
THEOREM BreakerHonest == ASSUME BreakerConstants PROVE CB!Spec => []OpensOnRealFailures
  <1>1. CB!Init => CountsAreReal
    BY BreakerInit
  <1>2. CountsAreReal /\ [CB!Next]_(CB!vars) => CountsAreReal'
    <2>1. CASE UNCHANGED CB!vars
      <3>1. CB!TypeOK' = CB!TypeOK /\ Unread' = Unread
        BY <2>1 DEF CB!vars, CB!TypeOK, Unread, CB!At
      <3> QED
        BY <2>1, <3>1 DEF CB!vars, CountsAreReal, CB!At, CB!Closed, Load, Units
    <2> QED
      BY <2>1, BreakerAlone, BreakerArrive, BreakerProbe, BreakerOpen, BreakerClose,
         BreakerAnswer, BreakerReadCount, BreakerPutCount
      DEF CB!Next, CB!Proceed
  <1>3. CountsAreReal => OpensOnRealFailures
    <2> SUFFICES ASSUME CountsAreReal PROVE OpensOnRealFailures
      OBVIOUS
    <2>1. CB!TypeOK /\ failures \in 0 .. Threshold /\ seen \in 0 .. Threshold /\ Threshold \in Nat
      BY DEF CountsAreReal, CB!TypeOK, BreakerConstants
    <2>2. Load(Unread) \in Nat
      BY <2>1, UnreadType, LoadType
    <2> QED
      BY <2>1, <2>2 DEF CountsAreReal, OpensOnRealFailures, CB!OpensOnRealFailures
  <1> QED
    BY <1>1, <1>2, <1>3, PTL DEF CB!Spec

-----------------------------------------------------------------------------
\* The rate limiter: counts and their windows (middleware/rate-limit.ts).

\* A count is never ahead of the requests counted in its window; the window of
\* a request that is about to write is not forgotten before it does.
CountsAsked ==
    /\ RL!TypeOK
    /\ key.resetAt > RL!Past => key.count <= asked[key.resetAt]
    /\ \A r \in Callers :
          RL!At(r, "write") =>
            /\ rlReq[r].resetAt + rlReq[r].age > 0
            /\ rlReq[r].count <= asked[rlReq[r].resetAt]

\* The limiter starts without a window.
LEMMA LimiterInit == ASSUME LimiterConstants, RL!Init PROVE CountsAsked
  BY DEF LimiterConstants, RL!Init, CountsAsked, RL!TypeOK, RL!Absent, RL!NoReq, RL!Past, RL!Windows, RL!At

\* Time moves windows and counts together.
LEMMA LimiterTick == ASSUME LimiterConstants, CountsAsked, RL!Tick PROVE CountsAsked'
  <1> USE DEF LimiterConstants, RL!Past, RL!Windows, RL!Later, RL!At
  <1>0. /\ key.count \in 0 .. Limit + 1 /\ key.resetAt \in RL!Past .. Window
        /\ asked \in [RL!Past .. Window -> 0 .. Limit + 1]
        /\ RL!Past \in Int /\ Window \in Int /\ RL!Past < Window
    BY DEF CountsAsked, RL!TypeOK
  <1>a. \A t \in RL!Past .. Window : RL!Later(t) \in RL!Past .. Window
    BY <1>0
  <1>b. \A w \in RL!Past .. Window : w # RL!Past => asked'[w - 1] = IF w - 1 = RL!Past THEN 0 ELSE asked[w]
    <2> DEFINE W == RL!Past .. Window
    <2>1. asked' = [w \in W |-> IF w \in {RL!Past, Window} THEN 0 ELSE asked[w + 1]]
      BY DEF RL!Tick, RL!Shift
    <2>2. \A w \in W : w # RL!Past => w - 1 \in W /\ w - 1 # Window /\ (w - 1) + 1 = w
      BY <1>0
    <2> HIDE DEF W, RL!Past
    <2>3. \A v \in W : asked'[v] = IF v \in {RL!Past, Window} THEN 0 ELSE asked[v + 1]
      BY <2>1
    <2>4. ASSUME NEW w \in W, w # RL!Past
          PROVE  asked'[w - 1] = IF w - 1 = RL!Past THEN 0 ELSE asked[w]
      <3>1. w - 1 \in W /\ w - 1 # Window /\ (w - 1) + 1 = w
        BY <2>2, <2>4
      <3> QED
        BY <2>3, <3>1
    <2> QED
      BY <2>4 DEF W
  <1>c. asked' \in [RL!Past .. Window -> 0 .. Limit + 1]
    <2>1. \A w \in RL!Past .. Window :
             (IF w \in {RL!Past, Window} THEN 0 ELSE asked[w + 1]) \in 0 .. Limit + 1
      BY <1>0
    <2> QED
      BY <2>1 DEF RL!Tick, RL!Shift
  <1>d. key' = [key EXCEPT !.resetAt = RL!Later(@)] /\ last' = last
    BY DEF RL!Tick
  <1>e. key' = [count |-> key.count, resetAt |-> RL!Later(key.resetAt)]
    BY <1>d DEF CountsAsked, RL!TypeOK
  <1>f. rlReq' \in [Callers -> [stage : {"none", "read", "write"}, age : 0 .. MaxDelay,
                             count : 0 .. Limit + 1, resetAt : RL!Past .. Window]]
    <2> SUFFICES ASSUME NEW r \in Callers
                 PROVE  (IF RL!At(r, "none") THEN RL!NoReq
                         ELSE [rlReq[r] EXCEPT !.age = @ + 1, !.resetAt = RL!Later(@)])
                          \in [stage : {"none", "read", "write"}, age : 0 .. MaxDelay,
                              count : 0 .. Limit + 1, resetAt : RL!Past .. Window]
      BY DEF RL!Tick
    <2>1. CASE RL!At(r, "none")
      BY <2>1, <1>0 DEF RL!NoReq
    <2>2. CASE ~ RL!At(r, "none")
      <3>1. rlReq[r] \in [stage : {"none", "read", "write"}, age : 0 .. MaxDelay,
                          count : 0 .. Limit + 1, resetAt : RL!Past .. Window]
        BY DEF CountsAsked, RL!TypeOK
      <3>2. rlReq[r].age + 1 \in 0 .. MaxDelay /\ RL!Later(rlReq[r].resetAt) \in RL!Past .. Window
        <4>1. rlReq[r].age < MaxDelay
          BY <2>2 DEF RL!Tick
        <4>2. rlReq[r].age \in 0 .. MaxDelay /\ rlReq[r].resetAt \in RL!Past .. Window
          BY <3>1
        <4> QED
          BY <4>1, <4>2, <1>a
      <3> HIDE DEF RL!Later, RL!Past
      <3> QED
        BY <2>2, <3>1, <3>2
    <2> QED
      BY <2>1, <2>2
  <1>1. RL!TypeOK'
    BY <1>0, <1>a, <1>c, <1>d, <1>e, <1>f DEF CountsAsked, RL!TypeOK
  <1>2. key'.resetAt > RL!Past => key'.count <= asked'[key'.resetAt]
    <2>1. CASE key.resetAt = RL!Past
      BY <2>1, <1>0, <1>e
    <2>2. CASE key.resetAt # RL!Past
      <3>1. key.count <= asked[key.resetAt] /\ RL!Later(key.resetAt) = key.resetAt - 1
        BY <2>2, <1>0 DEF CountsAsked
      <3>2. asked'[key.resetAt - 1] = IF key.resetAt - 1 = RL!Past THEN 0 ELSE asked[key.resetAt]
        BY <2>2, <1>0, <1>b
      <3>3. key'.count = key.count /\ key'.resetAt = key.resetAt - 1
        BY <1>e, <3>1
      <3>4. key.resetAt - 1 > RL!Past => asked'[key'.resetAt] = asked[key.resetAt]
        BY <3>2, <3>3, <1>0
      <3> QED
        BY <3>1, <3>3, <3>4
    <2> QED
      BY <2>1, <2>2
  <1>3. ASSUME NEW r \in Callers, RL!At(r, "write")'
        PROVE  /\ rlReq'[r].resetAt + rlReq'[r].age > 0
               /\ rlReq'[r].count <= asked'[rlReq'[r].resetAt]
    <2>1. /\ RL!At(r, "write")
          /\ rlReq[r].age \in 0 .. MaxDelay /\ rlReq[r].age # MaxDelay
          /\ rlReq[r].resetAt \in RL!Past .. Window /\ rlReq[r].count \in 0 .. Limit + 1
          /\ rlReq[r].resetAt + rlReq[r].age > 0
          /\ rlReq[r].count <= asked[rlReq[r].resetAt]
      <3>1. RL!At(r, "write")
        BY <1>3 DEF RL!Tick, RL!NoReq, CountsAsked, RL!TypeOK
      <3>2. ~ RL!At(r, "none")
        BY <3>1
      <3>3. rlReq[r].age < MaxDelay
        BY <3>2 DEF RL!Tick
      <3>4. /\ rlReq[r].age \in 0 .. MaxDelay
            /\ rlReq[r].resetAt \in RL!Past .. Window /\ rlReq[r].count \in 0 .. Limit + 1
        BY DEF CountsAsked, RL!TypeOK
      <3> HIDE DEF RL!Past
      <3> QED
        BY <3>1, <3>3, <3>4 DEF CountsAsked
    <2>2. rlReq'[r] = [rlReq[r] EXCEPT !.age = @ + 1, !.resetAt = RL!Later(@)]
      BY <2>1 DEF RL!Tick
    <2>3. rlReq'[r].age = rlReq[r].age + 1 /\ rlReq'[r].resetAt = rlReq[r].resetAt - 1
          /\ rlReq'[r].count = rlReq[r].count
      BY <2>1, <2>2 DEF CountsAsked, RL!TypeOK
    <2>4. asked'[rlReq[r].resetAt - 1] = asked[rlReq[r].resetAt]
      <3>1. rlReq[r].resetAt # RL!Past /\ rlReq[r].resetAt - 1 # RL!Past
        BY <2>1
      <3> HIDE DEF RL!Past
      <3> QED
        BY <2>1, <3>1, <1>b
    <2> QED
      BY <2>1, <2>3, <2>4
  <1> QED
    BY <1>1, <1>2, <1>3 DEF CountsAsked

\* The TTL forgets a window that is over.
LEMMA LimiterExpire == ASSUME LimiterConstants, CountsAsked, RL!ExpireKey PROVE CountsAsked'
  BY DEF LimiterConstants, RL!ExpireKey, CountsAsked, RL!TypeOK, RL!Absent, RL!Past, RL!At

\* A request arrives with no count.
LEMMA LimiterArrive ==
  ASSUME LimiterConstants, CountsAsked, NEW r \in Callers, RL!Arrive(r)
  PROVE CountsAsked'
  BY DEF LimiterConstants, RL!Arrive, CountsAsked, RL!TypeOK, RL!Past, RL!At

\* A request that leaves the limiter takes its count with it.
LEMMA LimiterForgets ==
  ASSUME LimiterConstants, CountsAsked, NEW r \in Callers,
         rlReq' = [rlReq EXCEPT ![r] = RL!NoReq], UNCHANGED <<key, asked>>,
         last' \in {"none", "passed", "rejected"}
  PROVE CountsAsked'
  <1> USE DEF LimiterConstants, RL!At
  <1>0. RL!Past \in 0 - MaxDelay .. Window
    BY DEF RL!Past
  <1>1. RL!TypeOK'
    BY <1>0 DEF CountsAsked, RL!TypeOK, RL!NoReq
  <1>2. \A q \in Callers : rlReq'[q] = rlReq[q] \/ rlReq'[q].stage = "none"
    BY DEF RL!NoReq, CountsAsked, RL!TypeOK
  <1> QED
    BY <1>1, <1>2 DEF CountsAsked

\* A request counts itself in the window it found or opens.
LEMMA LimiterRead ==
  ASSUME LimiterConstants, CountsAsked, NEW r \in Callers, RL!Read(r)
  PROVE CountsAsked'
  <1> USE DEF LimiterConstants, RL!Past, RL!At
  <1>1. CASE /\ rlReq' = [rlReq EXCEPT ![r].stage = "write", ![r].count = RL!Cap(RL!Count(r)),
                                       ![r].resetAt = RL!ResetAt(r)]
             /\ asked' = RL!Add(asked, RL!ResetAt(r))
             /\ UNCHANGED <<key, last>>
    <2>b. RL!At(r, "read") /\ rlReq[r] \in [stage : {"none", "read", "write"}, age : 0 .. MaxDelay,
                             count : 0 .. Limit + 1, resetAt : RL!Past .. Window]
      BY DEF RL!Read, CountsAsked, RL!TypeOK
    <2>1. /\ key.resetAt \in RL!Past .. Window /\ key.count \in 0 .. Limit + 1
          /\ rlReq[r].age \in 0 .. MaxDelay
          /\ asked \in [RL!Past .. Window -> 0 .. Limit + 1]
      BY DEF CountsAsked, RL!TypeOK, RL!Windows
    <2>2. RL!ResetAt(r) \in RL!Past .. Window /\ RL!ResetAt(r) + rlReq[r].age > 0
      BY <2>1 DEF RL!ResetAt, RL!readWindow
    <2>3. RL!Cap(RL!Count(r)) \in 0 .. Limit + 1
      BY <2>1 DEF RL!Cap, RL!Count
    <2>4. asked' = [asked EXCEPT ![RL!ResetAt(r)] = RL!Cap(@ + 1)]
      BY <1>1 DEF RL!Add
    <2>a. \A n \in 0 .. Limit + 1 : RL!Cap(n + 1) \in 0 .. Limit + 1 /\ n <= RL!Cap(n + 1)
      BY DEF RL!Cap
    <2>5. /\ asked' \in [RL!Past .. Window -> 0 .. Limit + 1]
          /\ \A w \in RL!Past .. Window : asked[w] <= asked'[w]
      <3> DEFINE W == RL!Past .. Window
      <3>1. RL!ResetAt(r) \in W /\ asked \in [W -> 0 .. Limit + 1]
        BY <2>1, <2>2
      <3> HIDE DEF W, RL!Past
      <3>2. \A w \in W : asked'[w] = IF w = RL!ResetAt(r) THEN RL!Cap(asked[w] + 1) ELSE asked[w]
        BY <2>4, <3>1
      <3>3. asked' \in [W -> 0 .. Limit + 1]
        BY <2>4, <2>a, <3>1
      <3>4. \A w \in W : asked[w] <= asked'[w]
        BY <3>1, <3>2, <2>a
      <3> QED
        BY <3>3, <3>4 DEF W
    <2>6. RL!Cap(RL!Count(r)) <= asked'[RL!ResetAt(r)]
      <3>1. CASE RL!readWindow(r)
        <4>1. RL!ResetAt(r) = key.resetAt /\ key.count <= asked[key.resetAt] /\ RL!Count(r) = key.count + 1
          BY <3>1, <2>1 DEF RL!readWindow, RL!ResetAt, RL!Count, CountsAsked
        <4> QED
          BY <4>1, <2>1, <2>2, <2>4 DEF RL!Cap
      <3>2. CASE ~ RL!readWindow(r)
        BY <3>2, <2>1, <2>2, <2>4 DEF RL!Count, RL!Cap
      <3> QED
        BY <3>1, <3>2
    <2>7. RL!TypeOK'
      BY <1>1, <2>1, <2>2, <2>3, <2>5 DEF CountsAsked, RL!TypeOK, RL!Windows
    <2>8. key'.resetAt > RL!Past => key'.count <= asked'[key'.resetAt]
      BY <1>1, <2>1, <2>5 DEF CountsAsked
    <2>9. ASSUME NEW q \in Callers, RL!At(q, "write")'
          PROVE  /\ rlReq'[q].resetAt + rlReq'[q].age > 0
                 /\ rlReq'[q].count <= asked'[rlReq'[q].resetAt]
      <3>1. CASE q = r
        BY <1>1, <3>1, <2>2, <2>6 DEF CountsAsked, RL!TypeOK
      <3>2. CASE q # r
        <4>1. rlReq'[q] = rlReq[q] /\ RL!At(q, "write")
          BY <1>1, <3>2, <2>9 DEF CountsAsked, RL!TypeOK
        <4>2. /\ rlReq[q].resetAt \in RL!Past .. Window /\ rlReq[q].count \in 0 .. Limit + 1
              /\ rlReq[q].resetAt + rlReq[q].age > 0 /\ rlReq[q].count <= asked[rlReq[q].resetAt]
          BY <4>1 DEF CountsAsked, RL!TypeOK
        <4> QED
          BY <4>1, <4>2, <2>1, <2>5
      <3> QED
        BY <3>1, <3>2
    <2> QED
      BY <2>7, <2>8, <2>9 DEF CountsAsked
  <1>2. CASE rlReq' = [rlReq EXCEPT ![r] = RL!NoReq] /\ UNCHANGED <<key, asked>>
    <2>1. last' \in {"none", "passed", "rejected"}
      BY DEF RL!Read, CountsAsked, RL!TypeOK
    <2> QED
      BY <1>2, <2>1, LimiterForgets
  <1>3. UNCHANGED key /\ last' \in {last, "passed"}
    BY DEF RL!Read
  <1> QED
    BY <1>1, <1>2, <1>3 DEF RL!Read

\* A write that arrives carries the count of its own window.
LEMMA LimiterWrite ==
  ASSUME LimiterConstants, CountsAsked, NEW r \in Callers, RL!Write(r)
  PROVE CountsAsked' /\ (last' = "rejected" => asked[rlReq[r].resetAt] > Limit)
  <1> USE DEF LimiterConstants, RL!Past, RL!At
  <1>1. CountsAsked'
    <2>1. CASE UNCHANGED key
      <3>1. rlReq' = [rlReq EXCEPT ![r] = RL!NoReq] /\ UNCHANGED <<key, asked>>
            /\ last' \in {"none", "passed", "rejected"}
        BY <2>1 DEF RL!Write
      <3> QED
        BY <3>1, LimiterForgets
    <2>2. CASE key' = [count |-> rlReq[r].count, resetAt |-> rlReq[r].resetAt]
      <3>1. /\ rlReq[r].count \in 0 .. Limit + 1 /\ rlReq[r].resetAt \in RL!Past .. Window
            /\ rlReq[r].count <= asked[rlReq[r].resetAt]
        BY DEF RL!Write, CountsAsked, RL!TypeOK
      <3>2. rlReq' = [rlReq EXCEPT ![r] = RL!NoReq] /\ asked' = asked
            /\ last' \in {"passed", "rejected"}
        BY DEF RL!Write
      <3>3. \A q \in Callers : rlReq'[q] = rlReq[q] \/ rlReq'[q].stage = "none"
        BY <3>2 DEF RL!NoReq, CountsAsked, RL!TypeOK
      <3>4. RL!TypeOK'
        BY <2>2, <3>1, <3>2 DEF CountsAsked, RL!TypeOK, RL!NoReq, RL!Windows
      <3> QED
        BY <2>2, <3>1, <3>2, <3>3, <3>4 DEF CountsAsked
    <2> QED
      BY <2>1, <2>2 DEF RL!Write
  <1>0. rlReq[r].count \in 0 .. Limit + 1 /\ rlReq[r].count <= asked[rlReq[r].resetAt]
    BY DEF RL!Write, CountsAsked, RL!TypeOK
  <1>2. last' = "rejected" => rlReq[r].count > Limit /\ rlReq[r].count <= asked[rlReq[r].resetAt]
    BY <1>0 DEF RL!Write, RL!Allowed
  <1>3. asked[rlReq[r].resetAt] \in 0 .. Limit + 1
    BY DEF CountsAsked, RL!TypeOK, RL!Windows
  <1> QED
    BY <1>0, <1>1, <1>2, <1>3

\* Nobody is turned away by the limiter before Limit requests of the caller
\* were counted in the window the request answers for, whatever stale counts
\* and windows late requests write over newer ones (middleware/rate-limit.ts).
THEOREM RejectsOnlyAboveLimit == ASSUME LimiterConstants PROVE RL!Spec => NoEarlyRejection
  <1>1. RL!Init => CountsAsked
    BY LimiterInit
  <1>2. CountsAsked /\ [RL!Next]_(RL!vars) => CountsAsked'
    <2>1. CASE UNCHANGED RL!vars
      BY <2>1 DEF RL!vars, CountsAsked, RL!TypeOK, RL!At
    <2> QED
      BY <2>1, LimiterTick, LimiterExpire, LimiterArrive, LimiterRead, LimiterWrite
      DEF RL!Next, RL!Proceed
  <1>3. CountsAsked /\ [RL!Next]_(RL!vars)
          => [\A r \in Callers :
                RL!At(r, "write") /\ last' = "rejected" /\ rlReq'[r] = RL!NoReq
                  => asked[rlReq[r].resetAt] > Limit]_(RL!vars)
    <2> SUFFICES ASSUME CountsAsked, RL!Next, NEW r \in Callers,
                        RL!At(r, "write"), last' = "rejected", rlReq'[r] = RL!NoReq
                 PROVE  asked[rlReq[r].resetAt] > Limit
      OBVIOUS
    <2>1. rlReq[r].stage = "write" /\ rlReq'[r].stage = "none"
      BY DEF RL!At, RL!NoReq
    <2>2. CASE RL!Tick
      BY <2>1, <2>2 DEF RL!Tick, RL!At, CountsAsked, RL!TypeOK
    <2>3. CASE RL!ExpireKey
      BY <2>1, <2>3 DEF RL!ExpireKey
    <2>4. ASSUME NEW q \in Callers, RL!Arrive(q) \/ RL!Proceed(q)
          PROVE  asked[rlReq[r].resetAt] > Limit
      <3>1. q = r
        BY <2>1, <2>4 DEF RL!Arrive, RL!Proceed, RL!Read, RL!Write, CountsAsked, RL!TypeOK
      <3>2. RL!Write(r)
        BY <2>1, <2>4, <3>1 DEF RL!Arrive, RL!Proceed, RL!Read, RL!At
      <3> QED
        BY <3>2, LimiterWrite
    <2> QED
      BY <2>2, <2>3, <2>4 DEF RL!Next
  <1> QED
    BY <1>1, <1>2, <1>3, PTL DEF RL!Spec, NoEarlyRejection, RL!NoEarlyRejection

-----------------------------------------------------------------------------
\* The sessions: their times, their entries and the requests that hold them (auth/).

\* The times of a session are in their order, whatever clock made it.
TimesInOrder ==
    \A t \in Tokens :
        /\ session[t].stage # "none" => session[t].issuedAt <= seClock + Skew
        /\ put[t] # SE!Never <=> session[t].stage = "stored"
        /\ put[t] # SE!Never => put[t] <= seClock /\ session[t].issuedAt <= put[t] + Skew
        /\ removed[t] # SE!Never => removed[t] <= seClock /\ put[t] # SE!Never
        /\ out[t] # SE!Never => removed[t] <= out[t]

\* Requests carry tokens that were handed out; what one found invalid has
\* expired, and a logout answers for an entry that is gone.
HeldTokens ==
    \A r \in Callers :
        seReq[r].stage # "none" =>
          LET t == seReq[r].token IN
            /\ session[t].stage = "stored"
            /\ seReq[r].stage = "invalid" => SE!ExpiresAt(t) <= seClock + Skew
            /\ seReq[r].stage \in {"logout", "deleted"} => t \in leaving
            /\ seReq[r].stage = "deleted" => removed[t] # SE!Never

SessionInv == SE!TypeOK /\ TimesInOrder /\ HeldTokens /\ SE!LiveSessionsKept

\* The types, by name.
Session == [stage : {"none", "made", "stored", "lost"}, issuedAt : -Skew .. Horizon + Skew]
Held    == [stage : {"look", "read", "invalid", "served", "logout", "deleted"}, token : Tokens]

\* No session has been made.
LEMMA SessionInit == ASSUME SessionConstants, SE!Init PROVE SessionInv
  <1> USE DEF SessionConstants, SE!Init, SE!Never
  <1>1. SE!TypeOK
    BY DEF SE!TypeOK, SE!Times, SE!NoReq
  <1>2. TimesInOrder /\ HeldTokens /\ SE!LiveSessionsKept
    BY DEF TimesInOrder, HeldTokens, SE!LiveSessionsKept, SE!NoReq
  <1> QED
    BY <1>1, <1>2 DEF SessionInv

\* An entry leaves KV once, when it may: its lifetime is over, or its owner left.
LEMMA EntryLeaves ==
  ASSUME SessionConstants, SessionInv, NEW t \in Tokens,
         UNCHANGED <<seClock, session, put, leaving, out>>, SE!Remove(t),
         session[t].stage = "stored",
         t \in leaving \/ SE!ExpiresAt(t) <= seClock + Skew
  PROVE  /\ removed' \in [Tokens -> SE!Times] /\ removed'[t] # SE!Never
         /\ TimesInOrder' /\ SE!LiveSessionsKept'
         /\ \A u \in Tokens : removed[u] # SE!Never => removed'[u] = removed[u]
  <1> USE DEF SessionConstants, SE!Never
  <1>1. removed' = [removed EXCEPT ![t] = IF SE!InKv(t) THEN seClock ELSE removed[t]]
    BY DEF SE!Remove
  <1>2. /\ seClock \in 0 .. Horizon /\ removed \in [Tokens -> SE!Times]
        /\ seClock \in SE!Times /\ seClock # SE!Never
    BY DEF SessionInv, SE!TypeOK, SE!Times
  <1>3. removed' \in [Tokens -> SE!Times]
    BY <1>1, <1>2
  <1>4. put[t] # SE!Never
    BY DEF SessionInv, TimesInOrder
  <1>5. removed'[t] # SE!Never
    BY <1>1, <1>2, <1>4 DEF SE!InKv
  <1>6. \A u \in Tokens : removed'[u] = removed[u] \/ (u = t /\ removed[u] = SE!Never /\ removed'[u] = seClock)
    BY <1>1, <1>2 DEF SE!InKv
  <1>7. TimesInOrder'
    BY <1>2, <1>6 DEF SessionInv, TimesInOrder, SE!TypeOK, SE!Times
  <1>8. SE!LiveSessionsKept'
    <2> SUFFICES ASSUME NEW u \in Tokens, session[u].stage = "stored", u \notin leaving,
                        seClock + Skew < SE!ExpiresAt(u)
                 PROVE  put[u] # SE!Never /\ removed'[u] = SE!Never
      BY DEF SE!LiveSessionsKept, SE!InKv, SE!ExpiresAt
    <2>1. u # t
      BY <1>2 DEF SessionInv, SE!TypeOK, SE!ExpiresAt
    <2> QED
      BY <1>6, <2>1 DEF SessionInv, SE!LiveSessionsKept, SE!InKv
  <1> QED
    BY <1>3, <1>5, <1>6, <1>7, <1>8

\* KV drops an entry only when every clock says that it has expired.
LEMMA SessionTick == ASSUME SessionConstants, SessionInv, SE!Tick PROVE SessionInv'
  <1> USE DEF SessionConstants, SE!Never
  <1>1. /\ seClock' = seClock + 1 /\ seClock' \in 0 .. Horizon /\ seClock \in 0 .. Horizon
        /\ removed \in [Tokens -> SE!Times] /\ put \in [Tokens -> SE!Times]
        /\ out \in [Tokens -> SE!Times] /\ session \in [Tokens -> Session]
        /\ UNCHANGED <<session, put, seReq, leaving, out>>
    BY DEF SE!Tick, SessionInv, SE!TypeOK, Session
  <1>2. \A t \in Tokens :
           removed'[t] = IF SE!InKv(t) /\ put[t] + SessionLife <= seClock + 1 THEN seClock + 1 ELSE removed[t]
    BY DEF SE!Tick
  <1>3. removed' \in [Tokens -> SE!Times]
    <2>1. seClock' \in SE!Times
      BY <1>1 DEF SE!Times
    <2> QED
      BY <1>1, <2>1 DEF SE!Tick
  <1>4. SE!TypeOK'
    BY <1>1, <1>3 DEF SessionInv, SE!TypeOK
  <1>5. TimesInOrder'
    <2> SUFFICES ASSUME NEW t \in Tokens
                 PROVE  /\ session[t].stage # "none" => session[t].issuedAt <= seClock + 1 + Skew
                        /\ put[t] # SE!Never <=> session[t].stage = "stored"
                        /\ put[t] # SE!Never => put[t] <= seClock + 1 /\ session[t].issuedAt <= put[t] + Skew
                        /\ removed'[t] # SE!Never => removed'[t] <= seClock + 1 /\ put[t] # SE!Never
                        /\ out[t] # SE!Never => removed'[t] <= out[t]
      BY <1>1 DEF TimesInOrder
    <2>1. /\ session[t].issuedAt \in Int /\ put[t] \in 0 .. Horizon + 1 /\ removed[t] \in 0 .. Horizon + 1
          /\ out[t] \in 0 .. Horizon + 1
      BY <1>1 DEF SE!Times, Session
    <2> QED
      BY <1>1, <1>2, <2>1 DEF SessionInv, TimesInOrder, SE!InKv
  <1>6. HeldTokens'
    <2> SUFFICES ASSUME NEW r \in Callers, seReq[r].stage # "none"
                 PROVE  LET t == seReq[r].token IN
                          /\ session[t].stage = "stored"
                          /\ seReq[r].stage = "invalid" => SE!ExpiresAt(t) <= seClock + 1 + Skew
                          /\ seReq[r].stage \in {"logout", "deleted"} => t \in leaving
                          /\ seReq[r].stage = "deleted" => removed'[t] # SE!Never
      BY <1>1 DEF HeldTokens, SE!ExpiresAt
    <2>1. seReq[r].token \in Tokens
      BY DEF SessionInv, SE!TypeOK, SE!NoReq
    <2>2. SE!ExpiresAt(seReq[r].token) \in Int
      BY <1>1, <2>1 DEF SE!ExpiresAt, Session
    <2> QED
      BY <1>1, <1>2, <2>1, <2>2 DEF SessionInv, HeldTokens, SE!InKv
  <1>7. SE!LiveSessionsKept'
    <2> SUFFICES ASSUME NEW t \in Tokens, session[t].stage = "stored", t \notin leaving,
                        seClock + 1 + Skew < session[t].issuedAt + SessionLife
                 PROVE  put[t] # SE!Never /\ removed'[t] = SE!Never
      BY <1>1 DEF SE!LiveSessionsKept, SE!InKv, SE!ExpiresAt
    <2>1. session[t].issuedAt \in Int /\ put[t] \in 0 .. Horizon + 1
      BY <1>1 DEF SE!Times, Session
    <2>2. put[t] # SE!Never /\ session[t].issuedAt <= put[t] + Skew
      BY DEF SessionInv, TimesInOrder
    <2>3. removed[t] = SE!Never
      BY <1>1, <2>1 DEF SessionInv, SE!LiveSessionsKept, SE!InKv, SE!ExpiresAt
    <2> QED
      BY <1>1, <1>2, <2>1, <2>2, <2>3
  <1> QED
    BY <1>4, <1>5, <1>6, <1>7 DEF SessionInv

\* A session is made by some clock, and stored later if at all.
LEMMA SessionMade ==
  ASSUME SessionConstants, SessionInv, NEW t \in Tokens, SE!Make(t) \/ SE!Put(t)
  PROVE  SessionInv'
  <1> USE DEF SessionConstants, SE!Never
  <1>1. /\ seClock \in 0 .. Horizon /\ session \in [Tokens -> Session]
        /\ removed \in [Tokens -> SE!Times] /\ put \in [Tokens -> SE!Times]
        /\ UNCHANGED <<seClock, removed, seReq, leaving, out>>
        /\ seClock \in SE!Times
    BY DEF SE!Make, SE!Put, SessionInv, SE!TypeOK, Session, SE!Times
  <1>2. CASE SE!Make(t)
    <2>1. PICK now \in SE!Now : session' = [session EXCEPT ![t] = [stage |-> "made", issuedAt |-> now]]
      BY <1>2 DEF SE!Make
    <2>2. now \in -Skew .. Horizon + Skew /\ now <= seClock + Skew
      BY <1>1 DEF SE!Now
    <2>3. put' = put /\ session[t].stage = "none"
      BY <1>2 DEF SE!Make
    <2>4. SE!TypeOK'
      BY <1>1, <2>1, <2>2, <2>3 DEF SessionInv, SE!TypeOK, Session
    <2>5. \A u \in Tokens : u # t => session'[u] = session[u]
      BY <2>1, <1>1
    <2>6. session'[t].stage = "made" /\ session'[t].issuedAt = now
      BY <2>1, <1>1
    <2>7. TimesInOrder'
      BY <1>1, <2>2, <2>3, <2>5, <2>6 DEF SessionInv, TimesInOrder
    <2>8. HeldTokens'
      BY <1>1, <2>3, <2>5, <2>6 DEF SessionInv, HeldTokens, SE!ExpiresAt, SE!TypeOK, SE!NoReq
    <2>9. SE!LiveSessionsKept'
      BY <1>1, <2>3, <2>5, <2>6 DEF SessionInv, SE!LiveSessionsKept, SE!ExpiresAt, SE!InKv
    <2> QED
      BY <2>4, <2>7, <2>8, <2>9 DEF SessionInv
  <1>3. CASE SE!Put(t)
    <2>1. session[t].stage = "made" /\ put[t] = SE!Never
      BY <1>3 DEF SE!Put, SessionInv, TimesInOrder
    <2>2. PICK stage \in {"stored", "lost"} :
             /\ session' = [session EXCEPT ![t].stage = stage]
             /\ put' = IF stage = "stored" THEN [put EXCEPT ![t] = seClock] ELSE put
      BY <1>3 DEF SE!Put
    <2>3. [session[t] EXCEPT !.stage = stage] \in Session
      BY <1>1 DEF Session
    <2>4. session' \in [Tokens -> Session] /\ put' \in [Tokens -> SE!Times]
      BY <1>1, <2>2, <2>3
    <2>5. SE!TypeOK'
      BY <1>1, <2>4 DEF SessionInv, SE!TypeOK, Session
    <2>6. \A u \in Tokens : u # t => session'[u] = session[u] /\ put'[u] = put[u]
      BY <2>2, <1>1
    <2>7. /\ session'[t].stage = stage /\ session'[t].issuedAt = session[t].issuedAt
          /\ put'[t] = IF stage = "stored" THEN seClock ELSE SE!Never
      BY <2>1, <2>2, <1>1 DEF Session
    <2>8. seClock # SE!Never /\ session[t].issuedAt <= seClock + Skew
          /\ removed[t] \in SE!Times
      BY <1>1, <2>1 DEF SessionInv, TimesInOrder
    <2>9. TimesInOrder'
      <3>1. ASSUME NEW u \in Tokens, u # t
            PROVE  /\ session'[u].stage # "none" => session'[u].issuedAt <= seClock + Skew
                   /\ put'[u] # SE!Never <=> session'[u].stage = "stored"
                   /\ put'[u] # SE!Never => put'[u] <= seClock /\ session'[u].issuedAt <= put'[u] + Skew
                   /\ removed[u] # SE!Never => removed[u] <= seClock /\ put'[u] # SE!Never
                   /\ out[u] # SE!Never => removed[u] <= out[u]
        BY <3>1, <2>6 DEF SessionInv, TimesInOrder
      <3>2. removed[t] = SE!Never /\ (out[t] # SE!Never => removed[t] <= out[t])
        BY <2>1 DEF SessionInv, TimesInOrder
      <3>3. session'[t].issuedAt <= seClock + Skew
        BY <2>7, <2>8
      <3>4. put'[t] # SE!Never <=> session'[t].stage = "stored"
        BY <2>7, <2>8
      <3>5. put'[t] # SE!Never => put'[t] <= seClock /\ session'[t].issuedAt <= put'[t] + Skew
        BY <1>1, <2>7, <2>8
      <3> HIDE DEF SE!Never
      <3>6. (SE!Never)' = SE!Never
        BY DEF SE!Never
      <3> QED
        BY <1>1, <3>1, <3>2, <3>3, <3>4, <3>5, <3>6 DEF TimesInOrder
    <2>10. HeldTokens'
      BY <1>1, <2>1, <2>6 DEF SessionInv, HeldTokens, SE!ExpiresAt, SE!TypeOK, SE!NoReq
    <2>11. removed[t] = SE!Never
      BY <2>1 DEF SessionInv, TimesInOrder
    <2>12. SE!LiveSessionsKept'
      BY <1>1, <2>6, <2>7, <2>8, <2>11 DEF SessionInv, SE!LiveSessionsKept, SE!ExpiresAt, SE!InKv
    <2> QED
      BY <2>5, <2>9, <2>10, <2>12 DEF SessionInv
  <1> QED
    BY <1>2, <1>3

-----------------------------------------------------------------------------
\* A request goes on with what its step has found.
LEMMA RequestMoves ==
  ASSUME SessionConstants, SessionInv, NEW r \in Callers, NEW v \in {SE!NoReq} \cup Held,
         seReq' = [seReq EXCEPT ![r] = v], UNCHANGED <<seClock, session, put>>,
         removed' \in [Tokens -> SE!Times], out' \in [Tokens -> SE!Times],
         TimesInOrder', SE!LiveSessionsKept',
         \A t \in Tokens : removed[t] # SE!Never => removed'[t] # SE!Never,
         leaving \subseteq leaving', leaving' \subseteq Tokens,
         v # SE!NoReq =>
           /\ session[v.token].stage = "stored"
           /\ v.stage = "invalid" => SE!ExpiresAt(v.token) <= seClock + Skew
           /\ v.stage \in {"logout", "deleted"} => v.token \in leaving'
           /\ v.stage = "deleted" => removed'[v.token] # SE!Never
  PROVE  SessionInv'
  <1>1. seReq' \in [Callers -> {SE!NoReq} \cup Held]
    BY DEF SessionInv, SE!TypeOK, Held
  <1>2. SE!TypeOK'
    BY <1>1 DEF SessionInv, SE!TypeOK, Held
  <1>3. HeldTokens'
    <2> SUFFICES ASSUME NEW q \in Callers, seReq'[q].stage # "none"
                 PROVE  /\ session[seReq'[q].token].stage = "stored"
                        /\ seReq'[q].stage = "invalid" => SE!ExpiresAt(seReq'[q].token) <= seClock + Skew
                        /\ seReq'[q].stage \in {"logout", "deleted"} => seReq'[q].token \in leaving'
                        /\ seReq'[q].stage = "deleted" => removed'[seReq'[q].token] # SE!Never
      BY DEF HeldTokens, SE!ExpiresAt, SE!Never
    <2>1. CASE q = r
      <3>1. seReq'[q] = v
        BY <2>1 DEF SessionInv, SE!TypeOK
      <3>2. v # SE!NoReq
        BY <3>1 DEF SE!NoReq
      <3> QED
        BY <3>1, <3>2
    <2>2. CASE q # r
      <3>1. seReq'[q] = seReq[q] /\ seReq[q] \in {SE!NoReq} \cup Held
        BY <2>2 DEF SessionInv, SE!TypeOK, Held
      <3>2. seReq[q].token \in Tokens
        BY <3>1 DEF SE!NoReq, Held
      <3> QED
        BY <3>1, <3>2 DEF SessionInv, HeldTokens
    <2> QED
      BY <2>1, <2>2
  <1> QED
    BY <1>2, <1>3 DEF SessionInv

\* A request that changes no session goes on.
LEMMA RequestOnly ==
  ASSUME SessionConstants, SessionInv, NEW r \in Callers, NEW v \in {SE!NoReq} \cup Held,
         seReq' = [seReq EXCEPT ![r] = v], UNCHANGED <<seClock, session, put, removed, leaving, out>>,
         v # SE!NoReq =>
           /\ session[v.token].stage = "stored"
           /\ v.stage = "invalid" => SE!ExpiresAt(v.token) <= seClock + Skew
           /\ v.stage \notin {"logout", "deleted"}
  PROVE  SessionInv'
  <1>1. TimesInOrder' /\ SE!LiveSessionsKept'
    BY DEF SessionInv, TimesInOrder, SE!LiveSessionsKept, SE!InKv, SE!ExpiresAt, SE!Never
  <1>2. /\ removed' \in [Tokens -> SE!Times] /\ out' \in [Tokens -> SE!Times]
        /\ leaving' = leaving /\ leaving' \subseteq Tokens
    BY DEF SessionInv, SE!TypeOK
  <1> QED
    BY <1>1, <1>2, RequestMoves

\* What a request holds, and the next of its steps.
LEMMA RequestHolds ==
  ASSUME SessionConstants, SessionInv, NEW r \in Callers, seReq[r].stage # "none"
  PROVE  /\ seReq[r] \in Held /\ seReq[r].token \in Tokens
         /\ session[seReq[r].token].stage = "stored"
         /\ \A s \in {"look", "read", "invalid", "served", "logout", "deleted"} :
               /\ [seReq[r] EXCEPT !.stage = s] \in Held /\ [seReq[r] EXCEPT !.stage = s] # SE!NoReq
               /\ [seReq[r] EXCEPT !.stage = s].stage = s
               /\ [seReq[r] EXCEPT !.stage = s].token = seReq[r].token
  <1>1. seReq[r] \in Held
    BY DEF SessionInv, SE!TypeOK, SE!NoReq, Held
  <1> QED
    BY <1>1 DEF SessionInv, HeldTokens, Held, SE!NoReq

\* A session some clock refuses is expired for the most advanced one.
LEMMA RefusedIsExpired ==
  ASSUME SessionConstants, SessionInv, NEW t \in Tokens, session[t].stage = "stored",
         NEW now \in SE!Now, ~ SE!Valid(t, now)
  PROVE  SE!ExpiresAt(t) <= seClock + Skew
  <1>1. session[t].issuedAt <= seClock + Skew
    BY DEF SessionInv, TimesInOrder
  <1>2. session[t].issuedAt \in Int /\ seClock \in Int /\ now \in Int
        /\ seClock - Skew <= now /\ now <= seClock + Skew
    BY DEF SessionConstants, SessionInv, SE!TypeOK, SE!Now
  <1> QED
    BY <1>1, <1>2 DEF SessionConstants, SE!Valid, SE!ExpiresAt

\* The steps of a request that change no session.
LEMMA RequestReads ==
  ASSUME SessionConstants, SessionInv, NEW r \in Callers,
         (\E t \in Tokens : SE!Arrive(r, t)) \/ SE!Look(r) \/ SE!Check(r) \/ SE!Serve(r)
  PROVE  SessionInv'
  <1>1. ASSUME NEW t \in Tokens, SE!Arrive(r, t) PROVE SessionInv'
    <2>1. [stage |-> "look", token |-> t] \in Held
      BY DEF Held
    <2> QED
      BY <1>1, <2>1, RequestOnly DEF SE!Arrive
  <1>2. CASE SE!Look(r)
    <2>1. seReq[r].stage # "none"
      BY <1>2 DEF SE!Look
    <2>2. CASE seReq' = [seReq EXCEPT ![r].stage = "read"]
      <3>1. seReq' = [seReq EXCEPT ![r] = [seReq[r] EXCEPT !.stage = "read"]]
        BY <2>2
      <3>2. UNCHANGED <<seClock, session, put, removed, leaving, out>>
        BY <1>2 DEF SE!Look
      <3> QED
        BY <2>1, <3>1, <3>2, RequestHolds, RequestOnly
    <2>3. CASE seReq' = [seReq EXCEPT ![r] = SE!NoReq]
      BY <1>2, <2>3, RequestOnly DEF SE!Look
    <2> QED
      BY <1>2, <2>2, <2>3 DEF SE!Look
  <1>3. CASE SE!Check(r)
    <2>1. seReq[r].stage # "none"
      BY <1>3 DEF SE!Check
    <2>2. PICK now \in SE!Now :
             seReq' = [seReq EXCEPT ![r].stage = IF SE!Valid(seReq[r].token, now) THEN "served" ELSE "invalid"]
      BY <1>3 DEF SE!Check
    <2> DEFINE s == IF SE!Valid(seReq[r].token, now) THEN "served" ELSE "invalid"
    <2>3. seReq' = [seReq EXCEPT ![r] = [seReq[r] EXCEPT !.stage = s]]
      BY <2>2
    <2>4. s = "invalid" => SE!ExpiresAt(seReq[r].token) <= seClock + Skew
      BY <2>1, RequestHolds, RefusedIsExpired
    <2>5. s \in {"served", "invalid"}
      OBVIOUS
    <2>6. UNCHANGED <<seClock, session, put, removed, leaving, out>>
      BY <1>3 DEF SE!Check
    <2> HIDE DEF s
    <2>7. LET v == [seReq[r] EXCEPT !.stage = s] IN
            /\ v \in {SE!NoReq} \cup Held /\ v.token = seReq[r].token /\ v.stage = s
            /\ session[v.token].stage = "stored"
      <3>1. s \in {"look", "read", "invalid", "served", "logout", "deleted"}
        BY <2>5
      <3>2. /\ [seReq[r] EXCEPT !.stage = s] \in Held /\ [seReq[r] EXCEPT !.stage = s].stage = s
            /\ [seReq[r] EXCEPT !.stage = s].token = seReq[r].token
            /\ session[seReq[r].token].stage = "stored"
        BY <2>1, <3>1, RequestHolds
      <3> QED
        BY <3>2
    <2> QED
      BY <2>3, <2>4, <2>5, <2>6, <2>7, RequestOnly
  <1>4. CASE SE!Serve(r)
    BY <1>4, RequestOnly DEF SE!Serve
  <1> QED
    BY <1>1, <1>2, <1>3, <1>4

\* The steps of a request that delete an entry which does not check.
LEMMA RequestRemoves ==
  ASSUME SessionConstants, SessionInv, NEW r \in Callers, SE!RemoveInvalid(r) \/ SE!LookAgain(r)
  PROVE  SessionInv'
  <1>1. CASE SE!RemoveInvalid(r)
    <2>1. /\ seReq[r].stage = "invalid" /\ seReq' = [seReq EXCEPT ![r] = SE!NoReq]
          /\ UNCHANGED <<seClock, session, put, leaving, out>>
      BY <1>1 DEF SE!RemoveInvalid
    <2>2. CASE UNCHANGED removed
      BY <2>1, <2>2, RequestOnly
    <2>3. CASE SE!Remove(seReq[r].token)
      <3>1. /\ seReq[r].token \in Tokens /\ session[seReq[r].token].stage = "stored"
            /\ SE!ExpiresAt(seReq[r].token) <= seClock + Skew
        BY <2>1, RequestHolds DEF SessionInv, HeldTokens
      <3>2. /\ removed' \in [Tokens -> SE!Times] /\ TimesInOrder' /\ SE!LiveSessionsKept'
            /\ \A u \in Tokens : removed[u] # SE!Never => removed'[u] = removed[u]
        BY <2>1, <2>3, <3>1, EntryLeaves
      <3>3. out' \in [Tokens -> SE!Times] /\ leaving' = leaving /\ leaving' \subseteq Tokens
        BY <2>1 DEF SessionInv, SE!TypeOK
      <3> QED
        BY <2>1, <3>2, <3>3, RequestMoves
    <2> QED
      BY <1>1, <2>2, <2>3 DEF SE!RemoveInvalid
  <1>2. CASE SE!LookAgain(r)
    <2>1. /\ seReq[r].stage = "served" /\ SE!Remove(seReq[r].token)
          /\ UNCHANGED <<seClock, session, put, seReq, leaving, out>>
      BY <1>2 DEF SE!LookAgain
    <2>2. seReq[r] \in Held /\ seReq[r].token \in Tokens /\ session[seReq[r].token].stage = "stored"
      BY <2>1, RequestHolds
    <2>3. SE!ExpiresAt(seReq[r].token) <= seClock + Skew
      BY <1>2, <2>2, RefusedIsExpired DEF SE!LookAgain
    <2>4. /\ removed' \in [Tokens -> SE!Times] /\ TimesInOrder' /\ SE!LiveSessionsKept'
          /\ \A u \in Tokens : removed[u] # SE!Never => removed'[u] = removed[u]
      BY <2>1, <2>2, <2>3, EntryLeaves
    <2>5. seReq' = [seReq EXCEPT ![r] = seReq[r]]
      BY <2>1 DEF SessionInv, SE!TypeOK
    <2>6. out' \in [Tokens -> SE!Times] /\ leaving' = leaving /\ leaving' \subseteq Tokens
      BY <2>1 DEF SessionInv, SE!TypeOK
    <2>7. seReq[r] \in {SE!NoReq} \cup Held /\ seReq[r].stage \notin {"invalid", "logout", "deleted"}
      BY <2>1, <2>2
    <2>8. UNCHANGED <<seClock, session, put>> /\ leaving \subseteq leaving'
      BY <2>1
    <2>9. \A u \in Tokens : removed[u] # SE!Never => removed'[u] # SE!Never
      BY <2>4
    <2> QED
      BY <2>2, <2>4, <2>5, <2>6, <2>7, <2>8, <2>9, RequestMoves
  <1> QED
    BY <1>1, <1>2

\* The steps of a logout.
LEMMA RequestLeaves ==
  ASSUME SessionConstants, SessionInv, NEW r \in Callers,
         SE!Logout(r) \/ SE!LogoutDelete(r) \/ SE!LogoutAnswer(r)
  PROVE  SessionInv'
  <1>1. CASE SE!Logout(r)
    <2>1. /\ seReq[r].stage # "none" /\ seReq' = [seReq EXCEPT ![r] = [seReq[r] EXCEPT !.stage = "logout"]]
          /\ leaving' = leaving \cup {seReq[r].token}
          /\ UNCHANGED <<seClock, session, put, removed, out>>
      BY <1>1 DEF SE!Logout
    <2>2. TimesInOrder' /\ SE!LiveSessionsKept'
      BY <2>1 DEF SessionInv, TimesInOrder, SE!LiveSessionsKept, SE!InKv, SE!ExpiresAt, SE!Never
    <2>3. seReq[r].token \in Tokens
      BY <2>1, RequestHolds
    <2>4. /\ removed' \in [Tokens -> SE!Times] /\ out' \in [Tokens -> SE!Times]
          /\ leaving' \subseteq Tokens /\ leaving \subseteq leaving' /\ seReq[r].token \in leaving'
      BY <2>1, <2>3 DEF SessionInv, SE!TypeOK
    <2> QED
      BY <2>1, <2>2, <2>4, RequestHolds, RequestMoves
  <1>2. CASE SE!LogoutDelete(r)
    <2>1. /\ seReq[r].stage = "logout" /\ UNCHANGED <<seClock, session, put, leaving, out>>
      BY <1>2 DEF SE!LogoutDelete
    <2>2. CASE UNCHANGED removed /\ seReq' = [seReq EXCEPT ![r] = SE!NoReq]
      BY <2>1, <2>2, RequestOnly
    <2>3. CASE SE!Remove(seReq[r].token) /\ seReq' = [seReq EXCEPT ![r].stage = "deleted"]
      <3>0. seReq' = [seReq EXCEPT ![r] = [seReq[r] EXCEPT !.stage = "deleted"]]
        BY <2>3
      <3>1. /\ seReq[r].token \in Tokens /\ session[seReq[r].token].stage = "stored"
            /\ seReq[r].token \in leaving
        BY <2>1, RequestHolds DEF SessionInv, HeldTokens
      <3>2. /\ removed' \in [Tokens -> SE!Times] /\ TimesInOrder' /\ SE!LiveSessionsKept'
            /\ removed'[seReq[r].token] # SE!Never
            /\ \A u \in Tokens : removed[u] # SE!Never => removed'[u] = removed[u]
        BY <2>1, <2>3, <3>1, EntryLeaves
      <3>3. out' \in [Tokens -> SE!Times] /\ leaving' = leaving /\ leaving' \subseteq Tokens
        BY <2>1 DEF SessionInv, SE!TypeOK
      <3> QED
        BY <2>1, <3>0, <3>1, <3>2, <3>3, RequestHolds, RequestMoves
    <2> QED
      BY <1>2, <2>2, <2>3 DEF SE!LogoutDelete
  <1>3. CASE SE!LogoutAnswer(r)
    <2> DEFINE t == seReq[r].token
    <2>1. /\ seReq[r].stage = "deleted" /\ seReq' = [seReq EXCEPT ![r] = SE!NoReq]
          /\ out' = [out EXCEPT ![t] = IF out[t] = SE!Never THEN seClock ELSE out[t]]
          /\ UNCHANGED <<seClock, session, put, removed, leaving>>
      BY <1>3 DEF SE!LogoutAnswer
    <2>2. t \in Tokens /\ removed[t] # SE!Never
      BY <2>1, RequestHolds DEF SessionInv, HeldTokens
    <2>3. seClock \in SE!Times /\ out \in [Tokens -> SE!Times] /\ removed \in [Tokens -> SE!Times]
      BY DEF SessionConstants, SessionInv, SE!TypeOK, SE!Times
    <2> HIDE DEF t
    <2>4. out' \in [Tokens -> SE!Times]
      BY <2>1, <2>3
    <2>5. \A u \in Tokens : out'[u] = out[u] \/ (u = t /\ out'[u] = seClock)
      BY <2>1, <2>3
    <2>6. TimesInOrder'
      BY <2>1, <2>2, <2>5 DEF SessionInv, TimesInOrder, SE!Never
    <2>7. SE!LiveSessionsKept'
      BY <2>1 DEF SessionInv, SE!LiveSessionsKept, SE!InKv, SE!ExpiresAt, SE!Never
    <2>8. removed' \in [Tokens -> SE!Times] /\ leaving' \subseteq Tokens /\ leaving' = leaving
      BY <2>1 DEF SessionInv, SE!TypeOK
    <2> QED
      BY <2>1, <2>4, <2>6, <2>7, <2>8, RequestMoves
  <1> QED
    BY <1>1, <1>2, <1>3

\* Every step keeps the sessions in order.
LEMMA SessionNext == ASSUME SessionConstants, SessionInv, [SE!Next]_(SE!vars) PROVE SessionInv'
  <1>1. CASE UNCHANGED SE!vars
    BY <1>1 DEF SE!vars, SessionInv, SE!TypeOK, TimesInOrder, HeldTokens, SE!LiveSessionsKept,
                SE!InKv, SE!ExpiresAt, SE!Never
  <1> QED
    BY <1>1, SessionTick, SessionMade, RequestReads, RequestRemoves, RequestLeaves DEF SE!Next

\* A look-up finds nothing of a session that is over.
LEMMA LookFindsLive ==
  ASSUME SessionConstants, SessionInv, SE!Next, NEW r \in Callers,
         seReq[r].stage = "look", seReq'[r].stage = "read"
  PROVE  out[seReq[r].token] = SE!Never \/ seClock < out[seReq[r].token] + Staleness
  <1>1. SE!Look(r) /\ SE!Found(seReq[r].token)
    <2>1. PICK q \in Callers : seReq' = [seReq EXCEPT ![q].stage = "read"] /\ SE!Look(q) /\ SE!Found(seReq[q].token)
      <3>1. \A q \in Callers : seReq' = [seReq EXCEPT ![q] = SE!NoReq] => seReq'[r].stage # "read"
        BY DEF SE!NoReq, SessionInv, SE!TypeOK
      <3>2. seReq' # seReq
        OBVIOUS
      <3>3. \A q \in Callers : \A s \in {"served", "invalid", "logout", "deleted"} :
               seReq' = [seReq EXCEPT ![q].stage = s] => seReq'[r].stage # "read"
        BY DEF SessionInv, SE!TypeOK
      <3>4. \A q \in Callers, t \in Tokens :
               seReq' = [seReq EXCEPT ![q] = [stage |-> "look", token |-> t]] => seReq'[r].stage # "read"
        BY DEF SessionInv, SE!TypeOK
      <3>5. CASE SE!Tick
        BY <3>2, <3>5 DEF SE!Tick
      <3>6. ASSUME NEW t \in Tokens, SE!Make(t) \/ SE!Put(t) \/ \E q \in Callers : SE!Arrive(q, t)
            PROVE  FALSE
        BY <3>2, <3>4, <3>6 DEF SE!Make, SE!Put, SE!Arrive
      <3>7. ASSUME NEW q \in Callers,
                   SE!Check(q) \/ SE!RemoveInvalid(q) \/ SE!LookAgain(q) \/ SE!Serve(q)
                     \/ SE!Logout(q) \/ SE!LogoutDelete(q) \/ SE!LogoutAnswer(q)
            PROVE  FALSE
        BY <3>1, <3>2, <3>3, <3>7
        DEF SE!Check, SE!RemoveInvalid, SE!LookAgain, SE!Serve, SE!Logout, SE!LogoutDelete, SE!LogoutAnswer
      <3>8. PICK q \in Callers : SE!Look(q)
        BY <3>5, <3>6, <3>7 DEF SE!Next
      <3> QED
        BY <3>1, <3>8 DEF SE!Look
    <2>2. q = r
      BY <2>1 DEF SessionInv, SE!TypeOK
    <2> QED
      BY <2>1, <2>2
  <1>2. seReq[r].token \in Tokens
    BY RequestHolds
  <1>3. /\ removed[seReq[r].token] \in Int /\ out[seReq[r].token] \in Int /\ seClock \in Int
    BY <1>2 DEF SessionInv, SE!TypeOK, SE!Times, SessionConstants
  <1>4. out[seReq[r].token] # SE!Never => removed[seReq[r].token] <= out[seReq[r].token]
                                           /\ removed[seReq[r].token] # SE!Never
    <2>1. out[seReq[r].token] \in 0 .. Horizon + 1
      BY <1>2 DEF SessionInv, SE!TypeOK, SE!Times
    <2> QED
      BY <1>2, <1>3, <2>1 DEF SessionInv, TimesInOrder, SE!Never, SessionConstants
  <1> QED
    BY <1>1, <1>3, <1>4 DEF SE!Found, SessionConstants

\* A check that passes does so within the lifetime, but for the clocks.
LEMMA CheckPassesInTime ==
  ASSUME SessionConstants, SessionInv, SE!Next, NEW r \in Callers,
         seReq[r].stage = "read", seReq'[r].stage = "served"
  PROVE  seClock < put[seReq[r].token] + SessionLife + 2 * Skew
  <1>1. SE!Check(r)
    <2>1. \A q \in Callers : seReq' = [seReq EXCEPT ![q] = SE!NoReq] => seReq'[r].stage # "served"
      BY DEF SE!NoReq, SessionInv, SE!TypeOK
    <2>2. seReq' # seReq
      OBVIOUS
    <2>3. \A q \in Callers : \A s \in {"read", "logout", "deleted"} :
             seReq' = [seReq EXCEPT ![q].stage = s] => seReq'[r].stage # "served"
      BY DEF SessionInv, SE!TypeOK
    <2>4. \A q \in Callers, t \in Tokens :
             seReq' = [seReq EXCEPT ![q] = [stage |-> "look", token |-> t]] => seReq'[r].stage # "served"
      BY DEF SessionInv, SE!TypeOK
    <2>5. CASE SE!Tick
      BY <2>2, <2>5 DEF SE!Tick
    <2>6. ASSUME NEW t \in Tokens, SE!Make(t) \/ SE!Put(t) \/ \E q \in Callers : SE!Arrive(q, t)
          PROVE  FALSE
      BY <2>2, <2>4, <2>6 DEF SE!Make, SE!Put, SE!Arrive
    <2>7. ASSUME NEW q \in Callers,
                 SE!Look(q) \/ SE!RemoveInvalid(q) \/ SE!LookAgain(q) \/ SE!Serve(q)
                   \/ SE!Logout(q) \/ SE!LogoutDelete(q) \/ SE!LogoutAnswer(q)
          PROVE  FALSE
      BY <2>1, <2>2, <2>3, <2>7
      DEF SE!Look, SE!RemoveInvalid, SE!LookAgain, SE!Serve, SE!Logout, SE!LogoutDelete, SE!LogoutAnswer
    <2>8. PICK q \in Callers : SE!Check(q)
      BY <2>5, <2>6, <2>7 DEF SE!Next
    <2>9. q = r
      BY <2>8 DEF SE!Check, SessionInv, SE!TypeOK
    <2> QED
      BY <2>8, <2>9
  <1>2. PICK now \in SE!Now :
           seReq' = [seReq EXCEPT ![r].stage = IF SE!Valid(seReq[r].token, now) THEN "served" ELSE "invalid"]
    BY <1>1 DEF SE!Check
  <1>3. SE!Valid(seReq[r].token, now)
    BY <1>2 DEF SessionInv, SE!TypeOK
  <1>4. seReq[r].token \in Tokens /\ session[seReq[r].token].stage = "stored"
    BY RequestHolds
  <1>5. /\ put[seReq[r].token] \in Int /\ session[seReq[r].token].issuedAt \in Int /\ seClock \in Int
        /\ now \in Int /\ seClock - Skew <= now
    BY <1>4 DEF SessionInv, SE!TypeOK, SE!Times, SessionConstants, SE!Now
  <1>6. session[seReq[r].token].issuedAt <= put[seReq[r].token] + Skew
    BY <1>4 DEF SessionInv, TimesInOrder
  <1> QED
    BY <1>3, <1>5, <1>6 DEF SE!Valid, SE!ExpiresAt, SessionConstants

\* Sessions are ended when they should be and not before (auth/session.ts and
\* auth/middleware.ts): while its owner keeps it and it has not expired an entry is
\* there, whatever clocks the workers have, and no request is let in later than
\* the lifetime, nor found once a logout was answered and the edges forgot.
THEOREM SessionsEndInTime == ASSUME SessionConstants PROVE SE!Spec => SessionsSound
  <1>1. SE!Init => SessionInv
    BY SessionInit
  <1>2. SessionInv /\ [SE!Next]_(SE!vars) => SessionInv'
    BY SessionNext
  <1>3. SessionInv => SE!TypeOK /\ SE!LiveSessionsKept
    BY DEF SessionInv
  <1>4. SessionInv /\ [SE!Next]_(SE!vars)
          => [\A r \in Callers :
                LET t == seReq[r].token IN
                  /\ seReq[r].stage = "look" /\ seReq'[r].stage = "read" =>
                       out[t] = SE!Never \/ seClock < out[t] + Staleness
                  /\ seReq[r].stage = "read" /\ seReq'[r].stage = "served" =>
                       seClock < put[t] + SessionLife + 2 * Skew]_(SE!vars)
    BY LookFindsLive, CheckPassesInTime
  <1> QED
    BY <1>1, <1>2, <1>3, <1>4, PTL DEF SE!Spec, SessionsSound, SE!EndedSessionsRefused
=============================================================================
