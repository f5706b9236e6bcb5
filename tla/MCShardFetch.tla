---------------------------- MODULE MCShardFetch ----------------------------
(* An instance of ShardFetch for TLC: two processes on one shard. *)
EXTENDS ShardFetch

CONSTANTS f1, f2
=============================================================================
