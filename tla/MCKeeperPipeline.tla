-------------------------- MODULE MCKeeperPipeline --------------------------
(***************************************************************************)
(* TLC instances of KeeperPipeline: one order, and two messages that race  *)
(* each other for it.                                                      *)
(***************************************************************************)
EXTENDS KeeperPipeline

MCDeadline == [o \in Orders |-> 1]
=============================================================================
