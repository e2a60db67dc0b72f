---------------------------- MODULE PositionsPage ----------------------------
(***************************************************************************)
(* The positions page (apps/web/src/routes/positions.tsx) and its form for *)
(* a rebalance (lib/rebalance.ts): an effect loads the positions of the    *)
(* connected wallet, and another wallet or none cancels it.                *)
(*                                                                         *)
(* A wallet's positions are a set of identifiers, which the index may      *)
(* change at any time.  The form is valid or not.                          *)
(***************************************************************************)
EXTENDS Naturals

CONSTANTS
    Wallets,
    Ids,        \* positions there may be
    Owner,      \* Owner[id]: the wallet of a position
    Loads       \* bound: runs of the effect at once, cancelled ones included

VARIABLES
    address,                         \* of the connected wallet
    positions, isPending, errorMessage, selectedPositionId,
    values, submitted,               \* the form: valid or not, and handed in
    loads                            \* loads[i]: a run of the effect

vars == <<address, positions, isPending, errorMessage, selectedPositionId, values, submitted, loads>>

None     == [kind |-> "none"]
NoWallet == "no wallet"
NoId     == 0

TypeOK ==
    /\ address \in Wallets \cup {NoWallet}
    /\ positions \subseteq Ids /\ selectedPositionId \in Ids \cup {NoId}
    /\ isPending \in BOOLEAN /\ errorMessage \in BOOLEAN /\ submitted \in BOOLEAN
    /\ values \in {"valid", "invalid"}
    /\ loads \in [Loads -> {None} \cup [kind : {"sent"}, of : Wallets, active : BOOLEAN]]

\* The first of a list: the page keeps the order of the API, by identifier.
First(ids) == IF ids = {} THEN NoId ELSE CHOOSE i \in ids : \A j \in ids : i <= j

Init ==
    /\ address = NoWallet
    /\ positions = {} /\ isPending = FALSE /\ errorMessage = FALSE
    /\ selectedPositionId = NoId
    /\ values = "valid" /\ submitted = FALSE
    /\ loads = [i \in Loads |-> None]

\* Mutant of Deactivate: the cleanup forgets the flag.
DeactivateNothing == loads
Deactivate ==
    [i \in Loads |-> IF loads[i] = None THEN None ELSE [loads[i] EXCEPT !.active = FALSE]]

\* The effect for a wallet that is connected, or for none: the list goes, what
\* was pending stays so.
Connect(w) ==
    /\ w # address
    /\ address' = w
    /\ isPending' = TRUE /\ errorMessage' = FALSE
    /\ \E i \in Loads :
          /\ loads[i] = None
          /\ loads' = [Deactivate EXCEPT ![i] = [kind |-> "sent", of |-> w, active |-> TRUE]]
    /\ UNCHANGED <<positions, selectedPositionId, values, submitted>>

Disconnect ==
    /\ address # NoWallet
    /\ address' = NoWallet
    /\ positions' = {} /\ selectedPositionId' = NoId /\ errorMessage' = FALSE
    /\ loads' = Deactivate
    /\ UNCHANGED <<isPending, values, submitted>>

\* GET /users/:address/positions answers with some of the wallet's positions;
\* a selection that is still among them is kept.
Loaded(i) ==
    /\ loads[i] # None /\ loads[i].active
    /\ \E ids \in SUBSET {id \in Ids : Owner[id] = loads[i].of} :
          /\ positions' = ids
          /\ selectedPositionId' = IF selectedPositionId \in ids THEN selectedPositionId ELSE First(ids)
    /\ isPending' = FALSE
    /\ loads' = [loads EXCEPT ![i] = None]
    /\ UNCHANGED <<address, errorMessage, values, submitted>>

LoadFailed(i) ==
    /\ loads[i] # None /\ loads[i].active
    /\ positions' = {} /\ selectedPositionId' = NoId
    /\ errorMessage' = TRUE /\ isPending' = FALSE
    /\ loads' = [loads EXCEPT ![i] = None]
    /\ UNCHANGED <<address, values, submitted>>

LoadCancelled(i) ==
    /\ loads[i] # None /\ ~ loads[i].active
    /\ loads' = [loads EXCEPT ![i] = None]
    /\ UNCHANGED <<address, positions, isPending, errorMessage, selectedPositionId, values, submitted>>

-----------------------------------------------------------------------------
\* What is rendered: the form for one position, or a page without one.
selectIndexedPosition ==
    IF selectedPositionId \in positions THEN selectedPositionId ELSE First(positions)
FormShown == address # NoWallet /\ ~ isPending /\ ~ errorMessage /\ selectIndexedPosition # NoId

\* validateRebalanceForm and buildRebalanceIntent.
intent == IF FormShown /\ values = "valid" THEN selectIndexedPosition ELSE NoId

SelectPosition(id) ==
    /\ FormShown /\ id \in positions
    /\ selectedPositionId' = id
    /\ UNCHANGED <<address, positions, isPending, errorMessage, values, submitted, loads>>

updateValue(v) ==
    /\ FormShown
    /\ values' = v /\ submitted' = FALSE
    /\ UNCHANGED <<address, positions, isPending, errorMessage, selectedPositionId, loads>>

handleSubmit ==
    /\ FormShown /\ values = "valid"
    /\ submitted' = TRUE
    /\ UNCHANGED <<address, positions, isPending, errorMessage, selectedPositionId, values, loads>>

Next ==
    \/ \E w \in Wallets : Connect(w)
    \/ Disconnect
    \/ \E i \in Loads : Loaded(i) \/ LoadFailed(i) \/ LoadCancelled(i)
    \/ \E id \in Ids : SelectPosition(id)
    \/ \E v \in {"valid", "invalid"} : updateValue(v)
    \/ handleSubmit

Spec == Init /\ [][Next]_vars

\* The positions on the page, and the intent made for one of them, are of the
\* wallet that is connected, however wallets change and answers come late.
ListsOwnPositions ==
    /\ FormShown => \A id \in positions : Owner[id] = address
    /\ intent # NoId => Owner[intent] = address
=============================================================================
