----------------------------- MODULE KeeperSigner -----------------------------
(***************************************************************************)
(* The keeper's signer (apps/api/src/lib/keeper-signer.ts) with its one    *)
(* account: settings, nonces, the submission lock, the relay or the public *)
(* mempool, replaced transactions and the receipt that is believed.        *)
(*                                                                         *)
(* queue-handler.ts:440 makes a signer for every message it delivers, so   *)
(* lock and nonce cursor are shared only by those who are given the same   *)
(* signer; signerOf says who is.  KeeperPipeline has what goes on around a *)
(* submission; here an order can be executed until it is.                  *)
(***************************************************************************)
EXTENDS Naturals, FiniteSets

CONSTANTS
    Jobs,        \* messages being consumed, each about one order
    NoJob,
    OrderOf,     \* OrderOf[j]: what message j is about
    Signers,
    Assignments, \* bound: who may be given which signer
    Environments, \* bound: what may be configured, sets of Settings
    MaxTries,    \* bound: deliveries of a message
    MaxNonce     \* bound of the account's nonces

VARIABLES
    env, signerOf,
    lock,        \* lock[s]: who is inside withSubmissionLock of signer s
    nextNonce,   \* nextNonce[s]; 0 before the first submission
    job,         \* job[j]: how far sendTransaction got
    count,       \* the account's transaction count on chain
    pool,        \* transactions waiting at the relay or in the mempool
    mined,       \* mined[n]: the transaction with nonce n and its outcome
    executed,    \* orders the contract has executed
    rows,        \* orders whose row says executed
    answered     \* answered[n]: hashes that were answered for nonce n

vars == <<env, signerOf, lock, nextNonce, job, count, pool, mined, executed, rows, answered>>
world == <<count, pool, mined, executed>>

Orders == {OrderOf[j] : j \in Jobs}
Nonces == 0 .. MaxNonce
NoTx   == [job |-> NoJob, outcome |-> "none"]

\* readKeeperSignerConfig: what is missing or malformed (a key that is not 32
\* bytes of hex, a relay that is not https, a flag other than true) is not set.
\* The gas ceiling and the funding floor have defaults; Preflight refuses for
\* their sake.
Settings == {"key", "rpc", "chain", "relay", "public"}

Init ==
    /\ env \in Environments /\ env \subseteq Settings /\ signerOf \in Assignments
    /\ lock = [s \in Signers |-> NoJob]
    /\ nextNonce = [s \in Signers |-> 0]
    /\ job = [j \in Jobs |-> [stage |-> "queued", nonce |-> 0, tries |-> 1]]
    /\ count = 0 /\ pool = {} /\ mined = [n \in Nonces |-> NoTx]
    /\ executed = {} /\ rows = {}
    /\ answered = [n \in Nonces |-> 0]

\* Mutant of channel: without a relay the public mempool will do.
channelOpen ==
    IF ~ {"key", "rpc", "chain"} \subseteq env THEN "evaluation-only"
    ELSE IF "relay" \in env THEN "private-relay" ELSE "public"

\* createKeeperSigner: without key, node or chain the signer is disabled; a
\* relay comes first, the public mempool only if asked for.
channel ==
    IF ~ {"key", "rpc", "chain"} \subseteq env THEN "evaluation-only"
    ELSE IF "relay" \in env THEN "private-relay"
    ELSE IF "public" \in env THEN "public" ELSE "evaluation-only"

At(j, stage) == job[j].stage = stage
signer(j)    == signerOf[j]
Shared(s)    == Cardinality({j \in Jobs : signerOf[j] = s}) > 1

\* Who leaves withSubmissionLock releases it.
Inside(j)   == lock[signer(j)] = j
Released(j) == lock' = IF Inside(j) THEN [lock EXCEPT ![signer(j)] = NoJob] ELSE lock

\* isTransientKeeperError: the message is delivered again; anything else is
\* logged and acknowledged.
Retry(j) ==
    /\ job' = [job EXCEPT ![j] = IF @.tries < MaxTries
                                 THEN [stage |-> "queued", nonce |-> 0, tries |-> @.tries + 1]
                                 ELSE [@ EXCEPT !.stage = "done"]]
    /\ Released(j)
End(j, stage) == job' = [job EXCEPT ![j].stage = stage] /\ Released(j)

-----------------------------------------------------------------------------
\* A delivery with a signer of its own begins with an empty cursor.
sendTransaction(j) ==
    /\ At(j, "queued")
    /\ IF channel = "evaluation-only" THEN End(j, "done") /\ UNCHANGED nextNonce
       ELSE /\ job' = [job EXCEPT ![j].stage = "locking"]
            /\ nextNonce' = IF Shared(signer(j)) THEN nextNonce
                            ELSE [nextNonce EXCEPT ![signer(j)] = 0]
            /\ UNCHANGED lock
    /\ UNCHANGED <<env, signerOf, world, rows, answered>>

\* Mutant of Free: the operation does not wait for the one before it.
FreeAlways(s) == TRUE
Free(s)       == lock[s] = NoJob

withSubmissionLock(j) ==
    /\ At(j, "locking") /\ Free(signer(j))
    /\ lock' = [lock EXCEPT ![signer(j)] = j]
    /\ job' = [job EXCEPT ![j].stage = "preflight"]
    /\ UNCHANGED <<env, signerOf, nextNonce, world, rows, answered>>

\* getTransactionCount at "pending": the node need not know of every waiting
\* transaction, and knows of none a private relay keeps to itself.
PendingCounts ==
    {n \in Nonces : n >= count /\ \A k \in count .. n - 1 : \E t \in pool : t.nonce = k}

\* Mutant of AtLeast: the cursor of the signer is not looked at.
AtLeastPending(pending, next) == pending
AtLeast(pending, next)        == IF pending < next THEN next ELSE pending

ReadNonce(j) ==
    /\ At(j, "preflight")
    /\ \/ \E n \in PendingCounts :
             /\ AtLeast(n, nextNonce[signer(j)]) \in Nonces
             /\ job' = [job EXCEPT ![j].stage = "estimate",
                                   ![j].nonce = AtLeast(n, nextNonce[signer(j)])]
             /\ UNCHANGED lock
       \/ Retry(j)
    /\ UNCHANGED <<env, signerOf, nextNonce, world, rows, answered>>

\* The other reads of preflight: estimateGas needs an order that is still to be
\* executed; a failing RPC is retried, an empty wallet, a high gas price or
\* another chain is not.
Preflight(j) ==
    /\ At(j, "estimate")
    /\ \/ /\ OrderOf[j] \notin executed
          /\ job' = [job EXCEPT ![j].stage = "send"]
          /\ UNCHANGED lock
       \/ Retry(j)
       \/ End(j, "done")
    /\ UNCHANGED <<env, signerOf, nextNonce, world, rows, answered>>

\* The relay or the node takes the transaction, in place of another one with
\* its nonce, or not.
Taken(j) ==
    /\ job[j].nonce >= count
    /\ pool' = {t \in pool : t.nonce # job[j].nonce} \cup {[nonce |-> job[j].nonce, job |-> j]}

\* It answers with the hash; or the answer is lost or a refusal, which only a
\* relay's is not retried.
Submit(j) ==
    /\ At(j, "send")
    /\ \/ /\ Taken(j)
          /\ nextNonce' = [nextNonce EXCEPT ![signer(j)] = job[j].nonce + 1]
          /\ answered' = [answered EXCEPT ![job[j].nonce] = @ + 1]
          /\ job' = [job EXCEPT ![j].stage = "waiting"]
          /\ UNCHANGED lock
       \/ /\ Taken(j) \/ UNCHANGED pool
          /\ Retry(j) \/ (channel = "private-relay" /\ End(j, "done"))
          /\ UNCHANGED <<nextNonce, answered>>
    /\ UNCHANGED <<env, signerOf, count, mined, executed, rows>>

\* viem's waitForTransactionReceipt: the receipt of the transaction, or, if the
\* node had it before, of the one of its account mined in its place.
Receipts(j) == {mined[job[j].nonce]} \ {NoTx}

\* Mutant of Confirms: a successful receipt is enough, its logs are not read.
ConfirmsSuccess(receipt) == receipt.outcome \in {"success", "skipped"}

\* A log of the contract with the topic of OrderExecuted, of whichever order.
Confirms(receipt) == receipt.outcome = "success"

awaitConfirmation(j) ==
    /\ At(j, "waiting")
    /\ \/ \E receipt \in Receipts(j) :
             End(j, IF receipt.outcome = "reverted" THEN "done"
                    ELSE IF Confirms(receipt) THEN "confirmed" ELSE "done")
       \/ Retry(j)
    /\ UNCHANGED <<env, signerOf, nextNonce, world, rows, answered>>

\* The handler's UPDATE.
Record(j) ==
    /\ At(j, "confirmed")
    /\ rows' = rows \cup {OrderOf[j]}
    /\ End(j, "done")
    /\ UNCHANGED <<env, signerOf, nextNonce, world, answered>>

-----------------------------------------------------------------------------
\* The next nonce is mined: executeOrder executes the order, returns false, or
\* reverts.
Mine(t) ==
    /\ t \in pool /\ t.nonce = count /\ count < MaxNonce
    /\ \E outcome \in {"success", "skipped", "reverted"} :
          /\ outcome = "success" => OrderOf[t.job] \notin executed
          /\ mined' = [mined EXCEPT ![count] = [job |-> t.job, outcome |-> outcome]]
          /\ executed' = IF outcome = "success" THEN executed \cup {OrderOf[t.job]} ELSE executed
    /\ count' = count + 1 /\ pool' = pool \ {t}
    /\ UNCHANGED <<env, signerOf, lock, nextNonce, job, rows, answered>>

\* The relay or the mempool forgets it.
Forget(t) ==
    /\ t \in pool /\ pool' = pool \ {t}
    /\ UNCHANGED <<env, signerOf, lock, nextNonce, job, count, mined, executed, rows, answered>>

Next ==
    \/ \E j \in Jobs :
          \/ sendTransaction(j) \/ withSubmissionLock(j) \/ ReadNonce(j) \/ Preflight(j)
          \/ Submit(j) \/ awaitConfirmation(j) \/ Record(j)
    \/ \E n \in Nonces, j \in Jobs :
          LET t == [nonce |-> n, job |-> j] IN Mine(t) \/ Forget(t)

Spec == Init /\ [][Next]_vars

-----------------------------------------------------------------------------
\* What the signer promises those who share it, and everybody: no nonce is
\* answered for twice ("serializes concurrent submissions and allocates distinct
\* pending nonces"), nothing is ever sent without a complete configuration that
\* names a relay or allows the public mempool, and a row says executed only
\* after a transaction of the keeper executed an order.
SubmissionsSound ==
    /\ (\E s \in Signers : \A j \in Jobs : signerOf[j] = s) => \A n \in Nonces : answered[n] <= 1
    /\ pool # {} => /\ {"key", "rpc", "chain"} \subseteq env
                    /\ env \cap {"relay", "public"} # {}
    /\ rows # {} => executed # {}

\* "confirms a relay transaction only after the execution event is mined": a row
\* that says executed is of an order the contract has executed.
ConfirmedOrderExecuted == rows \subseteq executed
=============================================================================
