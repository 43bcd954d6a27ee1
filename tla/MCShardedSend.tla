---------------------------- MODULE MCShardedSend ----------------------------
(* Instances of ShardedSend for TLC. *)
EXTENDS ShardedSend

AllModes == {"raw", "sharded", "files"}

\* Two listed streams that share keys, so that the stream changes between
\* frames of one shard, and an unlisted one.  The key of the auctions is of a
\* type that is not hashed.
MCFrames == << [tag |-> "bid", keys |-> << "a", "b" >>],
               [tag |-> "auction", keys |-> << "a", "a" >>],
               [tag |-> "person", keys |-> << "a" >>],
               [tag |-> "bid", keys |-> << "b", "a", "b" >>] >>
=============================================================================
