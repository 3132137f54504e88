--------------------------- MODULE StorageModules ---------------------------
(***************************************************************************)
(* The modules that keep records for the contract or watch over it, for    *)
(* TLC.  They keep separate storage and meet only in the ledger's clock    *)
(* and signatures, so each behaviour exercises one of them and leaves the  *)
(* others untouched.                                                       *)
(***************************************************************************)
EXTENDS Sharding, Plasma, TokenMinter, OptimisticBatch, CampaignContent,
        BatchContribute, Caches, Chunks, Limiters, Alarms, Analytics, Network,
        ShadowState, TLC

CONSTANTS a1, a2, a3, a4

MCAddresses    == {a1, a2, a3}
MCContributors == {a1, a2, a3, a4}

\* Refused amounts and accepted ones.
MCBatchAmounts == -1..2

\* All batches of up to three entries, the empty and the oversized among them.
MCBatches == UNION {[1..n -> Entry] : n \in 0..3}

MCMinimum == [k \in Campaigns |-> IF k = "k1" THEN 1 ELSE 2]

\* Addresses are only compared for equality; Contributors has one more.
Symmetry == Permutations(MCAddresses)

MCShadowAmounts == {-1, 1, 2, 3}

VARIABLE subject   \* the module this behaviour exercises

Init ==
  /\ subject \in {"shards", "plasma", "minter", "batch", "content",
                  "fanout", "caches", "chunks", "limits", "alarms",
                  "analytics", "network", "shadow"}
  /\ LedgerInit /\ ShardsInit /\ PlasmaInit /\ MinterInit /\ BatchInit
  /\ ContentInit /\ FanOutInit /\ CachesInit /\ ChunksInit /\ LimitersInit
  /\ AlarmsInit /\ AnalyticsInit /\ NetworkInit /\ ShadowInit

Others ==
  /\ subject # "shards"    => UNCHANGED shardsVars
  /\ subject # "plasma"    => UNCHANGED plasmaVars
  /\ subject # "minter"    => UNCHANGED minterVars
  /\ subject # "batch"     => UNCHANGED batchVars
  /\ subject # "content"   => UNCHANGED contentVars
  /\ subject # "fanout"    => UNCHANGED fanOutVars
  /\ subject # "caches"    => UNCHANGED cachesVars
  /\ subject # "chunks"    => UNCHANGED chunksVars
  /\ subject # "limits"    => UNCHANGED limiterVars
  /\ subject # "alarms"    => UNCHANGED alarmVars
  /\ subject # "analytics" => UNCHANGED analyticsVars
  /\ subject # "network"   => UNCHANGED networkVars
  /\ subject # "shadow"    => UNCHANGED shadowVars

Next ==
  /\ \/ subject = "shards"    /\ ShardsNext /\ Unsigned
     \/ subject = "plasma"    /\ PlasmaNext
     \/ subject = "minter"    /\ MinterNext
     \/ subject = "batch"     /\ BatchNext
     \/ subject = "content"   /\ ContentNext
     \/ subject = "fanout"    /\ FanOutNext
     \/ subject = "caches"    /\ CachesNext /\ Unsigned
     \/ subject = "chunks"    /\ ChunksNext /\ Unsigned
     \/ subject = "limits"    /\ LimitersNext
     \/ subject = "alarms"    /\ AlarmsNext
     \/ subject = "analytics" /\ AnalyticsNext
     \/ subject = "network"   /\ NetworkNext
     \/ subject = "shadow"    /\ ShadowNext
  /\ Others
  /\ UNCHANGED subject

vars == <<ledgerVars, shardsVars, plasmaVars, minterVars, batchVars,
          contentVars, fanOutVars, cachesVars, chunksVars, limiterVars,
          alarmVars, analyticsVars, networkVars, shadowVars, subject>>

Spec == Init /\ [][Next]_vars
-----------------------------------------------------------------------------
\* The types of the modules whose own invariants say less.
RecordsTypeOK ==
  /\ LedgerTypeOK /\ PlasmaTypeOK /\ MinterTypeOK /\ BatchTypeOK
  /\ ContentTypeOK /\ FanOutTypeOK /\ CachesTypeOK /\ ChunksTypeOK
  /\ LimitersTypeOK /\ AlarmsTypeOK /\ AnalyticsTypeOK /\ NetworkTypeOK
  /\ ShadowTypeOK

\* The monitors that count calls, failures and findings report what happened:
\* budgets and quotas are never overdrawn, nothing beyond an alarm's threshold
\* goes unreported, the logs index what they hold.
\* (A module that is not exercised stays as it is in its own first state.)
MonitorsExact ==
  /\ subject = "limits" => LimitersBound
  /\ subject = "alarms" => AlarmsAgree
  /\ subject = "analytics" => AnalyticsExact

\* The counters, records, caches, write buffers and compressed copies agree
\* with what they stand for.
CopiesExact ==
  /\ subject = "shards" => CountExact
  /\ subject = "minter" => TotalExact
  /\ subject = "fanout" => FanOutBooks
  /\ subject = "caches" => CachesSound
  /\ subject = "network" => NetworkExact
  /\ subject = "shadow" => ShadowSound
=============================================================================
