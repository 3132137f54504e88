------------------------------ MODULE Sharding ------------------------------
(***************************************************************************)
(* The sharded contributor list of sharding_mechanism.rs.  Contributors    *)
(* are appended to the last shard in use; a full shard makes insert open   *)
(* the next one.  Shard numbers start at 0, sequence positions at 1.       *)
(***************************************************************************)
EXTENDS Integers, Sequences, Loops

CONSTANTS Contributors, \* who may be inserted
          ShardSize,    \* SHARD_SIZE, 100 in the code
          MaxShards     \* MAX_SHARDS, 10 in the code

ASSUME ShardingAssumption ==
  ShardSize \in Nat \ {0} /\ MaxShards \in Nat \ {0}

VARIABLES shards,      \* DataKey::ContributorShard(i), empty when absent
          shardCount   \* DataKey::ShardCount
shardsVars == <<shards, shardCount>>

-----------------------------------------------------------------------------
ShardNumbers == 0..(MaxShards - 1)

\* shard_index and shard_offset of the nth contributor, n from 0.
ShardIndex(n)  == n \div ShardSize
ShardOffset(n) == n % ShardSize

Held(i) == {shards[i][j] : j \in 1..Len(shards[i])}

\* The last shard in use, the first when there is none.
Active == IF shardCount = 0 THEN 0 ELSE shardCount - 1

\* Mutant: a shard takes one address too many.
FullOffByOne == Len(shards[Active]) > ShardSize

Full == Len(shards[Active]) >= ShardSize

Contains(a) == \E i \in 0..(shardCount - 1) : a \in Held(i)

\* total_contributors: the lengths of the shards in use, added one by one.
TotalContributors ==
  PrefixSums([i \in 1..shardCount |-> Len(shards[i - 1])], shardCount)[shardCount]

-----------------------------------------------------------------------------
ShardsInit == shards = [i \in ShardNumbers |-> <<>>] /\ shardCount = 0

\* Mutant: the address goes to the front of the shard.
InsertInFront(a) ==
  /\ a \notin Held(Active) /\ ~Full
  /\ shards' = [shards EXCEPT ![Active] = <<a>> \o @]
  /\ shardCount' = IF shardCount = 0 THEN 1 ELSE shardCount

\* insert, when the active shard has room.  It returns without a change when
\* the active shard already holds the address.
InsertHere(a) ==
  /\ a \notin Held(Active)
  /\ ~Full
  /\ shards' = [shards EXCEPT ![Active] = Append(@, a)]
  /\ shardCount' = IF shardCount = 0 THEN 1 ELSE shardCount

\* insert, when the active shard is full; it aborts when no number is left.
OpenShard(a) ==
  /\ a \notin Held(Active)
  /\ Full
  /\ shardCount < MaxShards
  /\ shards' = [shards EXCEPT ![shardCount] = <<a>>]
  /\ shardCount' = shardCount + 1

ShardsNext == \E a \in Contributors : InsertHere(a) \/ OpenShard(a)

ShardsSpec == ShardsInit /\ [][ShardsNext]_shardsVars

-----------------------------------------------------------------------------
\* Every shard is a list of addresses no longer than the shard size.
ShardsTypeOK ==
  /\ shardCount \in 0..MaxShards
  /\ shards \in [ShardNumbers -> Seq(Contributors)]
  /\ \A i \in ShardNumbers : Len(shards[i]) <= ShardSize

\* Shards fill in order: those before the active one are full, the active one
\* is not empty, those after it are.  A reader may stop at ShardCount.
FillInOrder ==
  \A i \in ShardNumbers :
    /\ i < shardCount - 1 => Len(shards[i]) = ShardSize
    /\ i = shardCount - 1 => Len(shards[i]) > 0
    /\ i >= shardCount    => shards[i] = <<>>

\* insert's duplicate check keeps the addresses of one shard distinct.
DistinctInShard ==
  \A i \in ShardNumbers : \A j, k \in 1..Len(shards[i]) :
    shards[i][j] = shards[i][k] => j = k

\* The inductive invariant.
ShardInv == ShardsTypeOK /\ FillInOrder /\ DistinctInShard

\* How many addresses there are if the shards fill in order.
Filled ==
  IF shardCount = 0 THEN 0
  ELSE (shardCount - 1) * ShardSize + Len(shards[shardCount - 1])

\* total_contributors adds the shards up to what the positions say.
CountExact == TotalContributors = Filled

\* The nth address inserted is found where shard_index and shard_offset say:
\* read in that order the shards are one list that only grows at its end, up
\* to the total capacity.
Log == [n \in 1..Filled |-> shards[ShardIndex(n-1)][ShardOffset(n-1) + 1]]

Appends == INSTANCE AppendLog WITH Entries <- Contributors,
                                   Capacity <- MaxShards * ShardSize, log <- Log
KeepsLog == Appends!Spec

\* sharding_mechanism.rs:24 says "No address appears in more than one shard";
\* insert looks at the active shard only.
OneShardEach ==
  \A i, j \in ShardNumbers : Held(i) \cap Held(j) # {} => i = j
=============================================================================
