------------------------------ MODULE MCIndexer ------------------------------
(***************************************************************************)
(* Instance of Indexer: a v3 source before the v4 pool manager, one pool   *)
(* that is initialized and traded on, two overlapping ticks and a backfill *)
(* of either source.                                                       *)
(***************************************************************************)
EXTENDS Indexer

Row(b, h, s, k) == [block |-> b, tx |-> h, source |-> s, kind |-> k, pool |-> "p"]

MCLog == << Row(0, "a", "v4", "initialize"), Row(0, "b", "v3", "liquidity"),
            Row(1, "c", "v4", "swap") >>

MCSources == <<"v3", "v4">>
MCRanges  == {<<1, 1>>}
=============================================================================
