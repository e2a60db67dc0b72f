------------------------------ MODULE MCRouter ------------------------------
(***************************************************************************)
(* Instances of the two contracts that trade for a caller: AetherRouter    *)
(* with two users, one position and an entry fee of one half, which rounds *)
(* down to nothing for one unit and is charged of two, and the zap         *)
(* executor.  They know nothing of each other: a behaviour runs one and    *)
(* leaves the other alone.                                                 *)
(***************************************************************************)
EXTENDS Router, TLC

CONSTANTS ZapFunds, ZapGifts, MaxZaps

VARIABLES
    part,                                                    \* who runs
    zapPurse, zapHeld, market, zapOutside, allowance, zap, zaps   \* of the executor

\* What the executor is deployed with, and the bounds of its instance.
ZapConstants ==
    /\ Currency0 # Currency1
    /\ ZapFunds \in Nat /\ ZapGifts \in Nat /\ MaxZaps \in Nat

ASSUME TradersAssumption == ZapConstants

ZE == INSTANCE ZapExecutor WITH
        Funds <- ZapFunds, Gifts <- ZapGifts, purse <- zapPurse, held <- zapHeld,
        outside <- zapOutside, call <- zap

zapVars == <<zapPurse, zapHeld, market, zapOutside, allowance, zap, zaps>>
all == <<part, vars, zapVars>>

TradersInit == part \in {"router", "zap"} /\ Init /\ ZE!Init
TradersNext ==
    \/ part = "router" /\ Next /\ UNCHANGED <<part, zapVars>>
    \/ part = "zap" /\ ZE!Next /\ UNCHANGED <<part, vars>>
TradersSpec == TradersInit /\ [][TradersNext]_all

\* Of each, with the types of the executor.
CallersTermsKept == [](ZE!TypeOK) /\ CallsKeepTerms /\ ZE!ZapKeepsTerms

Symmetry == Permutations(Users)
=============================================================================
