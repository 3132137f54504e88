---------------------------- MODULE RecordProofs ----------------------------
(***************************************************************************)
(* What the exits of plasma_chain.rs, the tokens of                        *)
(* stellar_token_minter.rs, the shards of sharding_mechanism.rs, the       *)
(* stretch goals of lib.rs, the batches of optimistic_execution.rs and of  *)
(* the factory's batch_contribute.rs keep, for any addresses, blocks,      *)
(* token ids, campaigns, amounts, shard sizes, goals, limits and delays.   *)
(***************************************************************************)
EXTENDS Plasma, TokenMinter, Sharding, CampaignContent, Chunks, OptimisticBatch,
        BatchContribute, LoopProofs

-----------------------------------------------------------------------------
(* Checkpoints and exits.                                                  *)

\* An exit that was challenged is kept as the challenge left it.
KeptEntry(a) ==
  objection[a] # None =>
    exit[a] # None /\ exit[a] = [objection[a] EXCEPT !.challenged = TRUE]

\* No checkpoint is from the future.
Posted == \A b \in Blocks : checkpoint[b] # None => checkpoint[b].at <= now

PlasmaInv ==
  /\ LedgerTypeOK /\ PlasmaTypeOK /\ Posted /\ ExitBacked
  /\ objection \in [Addresses ->
       [block : Blocks, tx : TxIndexes, bond : {x \in Bonds : x >= MinBond},
        challenged : BOOLEAN, requestedAt : 0..MaxTime] \cup {None}]
  /\ \A a \in Addresses : KeptEntry(a)

LEMMA PlasmaStart == LedgerInit /\ PlasmaInit => PlasmaInv
BY PlasmaAssumption, LedgerAssumption
   DEF LedgerInit, PlasmaInit, PlasmaInv, LedgerTypeOK, PlasmaTypeOK, Posted,
       ExitBacked, KeptEntry

\* The kinds of records, for the steps that make one.
Points == [txs : 1..MaxTxs, operator : Addresses, at : 0..MaxTime]
Exits == [block : Blocks, tx : TxIndexes, bond : {x \in Bonds : x >= MinBond},
          challenged : BOOLEAN, requestedAt : 0..MaxTime]

LEMMA NoRecordIsNone == None \notin Points /\ None \notin Exits
<1>1. Points \subseteq [txs : Nat, operator : Addresses, at : Nat]
  BY LedgerAssumption, PlasmaAssumption DEF Points
<1>2. TxIndexes \subseteq Nat
  BY PlasmaAssumption DEF TxIndexes
<1>3. Exits \subseteq [block : Nat, tx : Nat, bond : Int, challenged : BOOLEAN,
                       requestedAt : Nat]
  <2>1. {x \in Bonds : x >= MinBond} \subseteq Int /\ Blocks \subseteq Nat
    BY PlasmaAssumption
  <2>2. 0..MaxTime \subseteq Nat
    BY LedgerAssumption
  <2> QED  BY <1>2, <2>1, <2>2, Zenon DEF Exits
<1> QED  BY <1>1, <1>3, PlasmaAssumption

LEMMA SubmitKeeps ==
  ASSUME PlasmaInv, NEW c \in Addresses, NEW b \in Blocks, NEW n \in TxCounts,
         SubmitCheckpoint(c, b, n)
  PROVE  PlasmaInv'
<1> DEFINE point == [txs |-> n, operator |-> c, at |-> now]
<1>1. /\ checkpoint' = [checkpoint EXCEPT ![b] = point]
      /\ lastBlock' = b /\ b > lastBlock
      /\ UNCHANGED <<exit, objection, now>> /\ signer' = c
  BY DEF SubmitCheckpoint, SignedBy
<1>2. point \in Points /\ point.at = now
  BY PlasmaAssumption DEF SubmitCheckpoint, PlasmaInv, LedgerTypeOK, Points
<1> HIDE DEF point
<1>3. checkpoint[b] = None /\ lastBlock \in Nat /\ b \in Nat
  BY <1>1, PlasmaAssumption DEF PlasmaInv, PlasmaTypeOK
<1>4. /\ checkpoint \in [Blocks -> Points \cup {None}]
      /\ \A d \in Blocks : d > lastBlock => checkpoint[d] = None
      /\ exit \in [Addresses -> Exits \cup {None}]
  BY DEF PlasmaInv, PlasmaTypeOK, Points, Exits
<1>5. PlasmaTypeOK'
  <2>1. /\ checkpoint' \in [Blocks -> Points \cup {None}]
        /\ \A d \in Blocks : d > b => checkpoint'[d] = None
    <3>1. \A d \in Blocks : d > b => d # b /\ d > lastBlock
      BY <1>1, <1>3, PlasmaAssumption
    <3> QED  BY <1>1, <1>2, <1>4, <3>1
  <2> QED  BY <1>1, <1>4, <2>1 DEF PlasmaTypeOK, Points, Exits
<1>6. LedgerTypeOK' /\ Posted'
  BY <1>1, <1>2, <1>4 DEF PlasmaInv, LedgerTypeOK, Posted
<1>7. ExitBacked'
  <2>1. \A a \in Addresses : exit[a] # None => exit[a].block # b /\ exit[a].block \in Blocks
    BY <1>3, <1>4 DEF PlasmaInv, ExitBacked, Exits
  <2> QED  BY <1>1, <1>4, <2>1 DEF PlasmaInv, ExitBacked
<1>8. \A a \in Addresses : KeptEntry(a)'
  BY <1>1 DEF PlasmaInv, KeptEntry
<1> QED  BY <1>1, <1>5, <1>6, <1>7, <1>8 DEF PlasmaInv

LEMMA RequestKeeps ==
  ASSUME PlasmaInv, NEW c \in Addresses, NEW b \in Blocks,
         NEW tx \in TxIndexes, NEW amount \in Bonds, NEW bond \in Bonds,
         RequestExit(c, b, tx, amount, bond)
  PROVE  PlasmaInv'
<1> DEFINE x == [block |-> b, tx |-> tx, bond |-> bond, challenged |-> FALSE,
                 requestedAt |-> now]
<1>1. /\ exit' = [exit EXCEPT ![c] = x] /\ exit[c] = None
      /\ checkpoint[b] # None /\ tx < checkpoint[b].txs
      /\ UNCHANGED <<lastBlock, checkpoint, objection, now>> /\ signer' = c
  BY DEF RequestExit, SignedBy
<1>2. /\ x \in Exits /\ x.block = b /\ x.tx = tx /\ x.requestedAt = now
  BY DEF RequestExit, PlasmaInv, LedgerTypeOK, Exits
<1> HIDE DEF x
<1>3. exit \in [Addresses -> Exits \cup {None}]
  BY DEF PlasmaInv, PlasmaTypeOK, Exits
<1>4. exit' \in [Addresses -> Exits \cup {None}]
  BY <1>1, <1>2, <1>3
<1>5. PlasmaTypeOK'
  BY <1>1, <1>4 DEF PlasmaInv, PlasmaTypeOK, Exits
<1>6. LedgerTypeOK' /\ Posted'
  BY <1>1 DEF PlasmaInv, LedgerTypeOK, Posted
<1>7. ExitBacked'
  <2> SUFFICES ASSUME NEW a \in Addresses, exit'[a] # None
               PROVE  /\ checkpoint[exit'[a].block] # None
                      /\ exit'[a].tx < checkpoint[exit'[a].block].txs
                      /\ checkpoint[exit'[a].block].at <= exit'[a].requestedAt
    BY <1>1 DEF ExitBacked
  <2>1. CASE a = c
    <3>1. exit'[a] = x  BY <1>1, <1>3, <2>1
    <3> QED  BY <1>1, <1>2, <3>1 DEF PlasmaInv, Posted
  <2>2. CASE a # c
    BY <1>1, <1>3, <2>2 DEF PlasmaInv, ExitBacked
  <2> QED  BY <2>1, <2>2
<1>8. \A a \in Addresses : KeptEntry(a)'
  <2> SUFFICES ASSUME NEW a \in Addresses, objection[a] # None
               PROVE  /\ exit'[a] # None
                      /\ exit'[a] = [objection[a] EXCEPT !.challenged = TRUE]
    BY <1>1 DEF KeptEntry
  <2>1. /\ exit[a] # None
        /\ exit[a] = [objection[a] EXCEPT !.challenged = TRUE]
    BY DEF PlasmaInv, KeptEntry
  <2>2. a # c
    BY <1>1, <2>1
  <2>3. exit'[a] = exit[a]
    BY <1>1, <1>3, <2>2
  <2> QED  BY <2>1, <2>3
<1> QED  BY <1>1, <1>5, <1>6, <1>7, <1>8 DEF PlasmaInv

LEMMA ChallengeKeeps ==
  ASSUME PlasmaInv, NEW c \in Addresses, NEW claimant \in Addresses,
         ChallengeExit(c, claimant)
  PROVE  /\ PlasmaInv'
         /\ \A a \in Addresses : exit[a] # None => exit'[a] # None
<1> DEFINE x == [exit[claimant] EXCEPT !.challenged = TRUE]
<1>1. /\ exit' = [exit EXCEPT ![claimant] = x]
      /\ objection' = [objection EXCEPT ![claimant] = exit[claimant]]
      /\ exit[claimant] # None
      /\ UNCHANGED <<lastBlock, checkpoint, now>> /\ signer' = c
  BY DEF ChallengeExit, SignedBy
<1>2. /\ exit \in [Addresses -> Exits \cup {None}]
      /\ objection \in [Addresses -> Exits \cup {None}]
  BY DEF PlasmaInv, PlasmaTypeOK, Exits
<1>3. exit[claimant] \in Exits
  BY <1>1, <1>2
<1>4. /\ x \in Exits /\ x.block = exit[claimant].block
      /\ x.tx = exit[claimant].tx /\ x.requestedAt = exit[claimant].requestedAt
  BY <1>3 DEF Exits
<1>5. x # None
  <2> HIDE DEF x
  <2> QED  BY <1>4, NoRecordIsNone
<1>6. objection'[claimant] = exit[claimant] /\ exit'[claimant] = x
  BY <1>1, <1>2
<1>7. KeptEntry(claimant)'
  BY <1>5, <1>6 DEF KeptEntry
<1> HIDE DEF x
<1>8. \A a \in Addresses : a # claimant => exit'[a] = exit[a] /\ objection'[a] = objection[a]
  BY <1>1, <1>2
<1>9. /\ exit' \in [Addresses -> Exits \cup {None}]
      /\ objection' \in [Addresses -> Exits \cup {None}]
  BY <1>1, <1>2, <1>3, <1>4
<1>10. PlasmaTypeOK'
  BY <1>1, <1>9 DEF PlasmaInv, PlasmaTypeOK, Exits
<1>11. LedgerTypeOK' /\ Posted'
  BY <1>1 DEF PlasmaInv, LedgerTypeOK, Posted
<1>12. ExitBacked'
  BY <1>1, <1>4, <1>6, <1>8 DEF PlasmaInv, ExitBacked
<1>13. \A a \in Addresses : KeptEntry(a)'
  <2> SUFFICES ASSUME NEW a \in Addresses PROVE KeptEntry(a)'
    OBVIOUS
  <2>1. CASE a # claimant
    BY <1>8, <2>1 DEF PlasmaInv, KeptEntry
  <2> QED  BY <1>7, <2>1
<1> QED  BY <1>5, <1>6, <1>8, <1>9, <1>10, <1>11, <1>12, <1>13 DEF PlasmaInv, Exits

\* Who is paid had not been challenged.
LEMMA FinalizeKeeps ==
  ASSUME PlasmaInv, NEW c \in Addresses, FinalizeExit(c)
  PROVE  PlasmaInv' /\ objection[c] = None
<1>1. /\ exit' = [exit EXCEPT ![c] = None]
      /\ exit[c] # None /\ ~exit[c].challenged
      /\ UNCHANGED <<lastBlock, checkpoint, objection, now>> /\ signer' = c
  BY DEF FinalizeExit, SignedBy
<1>2. /\ exit \in [Addresses -> Exits \cup {None}]
      /\ objection \in [Addresses -> Exits \cup {None}]
  BY DEF PlasmaInv, PlasmaTypeOK, Exits
<1>3. objection[c] = None
  <2> SUFFICES ASSUME objection[c] # None PROVE FALSE  OBVIOUS
  <2>1. exit[c] = [objection[c] EXCEPT !.challenged = TRUE]
    BY DEF PlasmaInv, KeptEntry
  <2>2. objection[c] \in Exits
    BY <1>2
  <2>3. exit[c].challenged = TRUE
    BY <2>1, <2>2 DEF Exits
  <2> QED  BY <1>1, <2>3
<1>4. exit' \in [Addresses -> Exits \cup {None}]
  BY <1>1, <1>2
<1>5. PlasmaTypeOK'
  BY <1>1, <1>4 DEF PlasmaInv, PlasmaTypeOK, Exits
<1>6. LedgerTypeOK' /\ Posted'
  BY <1>1 DEF PlasmaInv, LedgerTypeOK, Posted
<1>7. ExitBacked'
  BY <1>1, <1>2 DEF PlasmaInv, ExitBacked
<1>8. \A a \in Addresses : KeptEntry(a)'
  <2> SUFFICES ASSUME NEW a \in Addresses PROVE KeptEntry(a)'
    OBVIOUS
  <2>1. CASE a = c
    BY <1>1, <1>3, <2>1 DEF KeptEntry
  <2>2. CASE a # c
    <3>1. exit'[a] = exit[a]  BY <1>1, <1>2, <2>2
    <3> QED  BY <1>1, <3>1 DEF PlasmaInv, KeptEntry
  <2> QED  BY <2>1, <2>2
<1> QED  BY <1>1, <1>3, <1>5, <1>6, <1>7, <1>8 DEF PlasmaInv

LEMMA PlasmaStep ==
  PlasmaInv /\ [PlasmaNext]_<<ledgerVars, plasmaVars>> => PlasmaInv'
<1> SUFFICES ASSUME PlasmaInv, [PlasmaNext]_<<ledgerVars, plasmaVars>>
             PROVE  PlasmaInv'
  OBVIOUS
<1>1. CASE UNCHANGED <<ledgerVars, plasmaVars>>
  BY <1>1 DEF ledgerVars, plasmaVars, PlasmaInv, LedgerTypeOK, PlasmaTypeOK,
              Posted, ExitBacked, KeptEntry
<1>2. CASE Tick /\ UNCHANGED plasmaVars
  <2>1. now' = now + 1 /\ now < MaxTime /\ signer' = None /\ UNCHANGED plasmaVars
    BY <1>2 DEF Tick
  <2>2. LedgerTypeOK'
    BY <2>1, LedgerAssumption DEF PlasmaInv, LedgerTypeOK
  <2>3. Posted'
    <3>1. \A b \in Blocks : checkpoint[b] # None => checkpoint[b].at \in Nat
      BY LedgerAssumption DEF PlasmaInv, PlasmaTypeOK
    <3>2. now \in Nat
      BY LedgerAssumption DEF PlasmaInv, LedgerTypeOK
    <3> QED  BY <2>1, <3>1, <3>2 DEF plasmaVars, PlasmaInv, Posted
  <2> QED  BY <2>1, <2>2, <2>3 DEF plasmaVars, PlasmaInv, PlasmaTypeOK, ExitBacked, KeptEntry
<1>3. CASE PlasmaNext
  BY <1>2, <1>3, SubmitKeeps, RequestKeeps, ChallengeKeeps, FinalizeKeeps
     DEF PlasmaNext
<1> QED  BY <1>1, <1>3

\* plasma_chain.rs: exits are typed, backed by an older checkpoint, and stay as
\* a challenge left them.
THEOREM PlasmaInvariance == PlasmaSpec => []PlasmaInv
<1> QED  BY PlasmaStart, PlasmaStep, PTL DEF PlasmaSpec

\* Every exit refers to a transaction of a checkpoint posted before it.
THEOREM ExitsBacked == PlasmaSpec => []ExitBacked
<1>1. PlasmaInv => ExitBacked  BY DEF PlasmaInv
<1> QED  BY <1>1, PlasmaInvariance, PTL

\* A challenged exit is never paid and never replaced.
THEOREM ChallengedStays == PlasmaSpec => ChallengedNeverPaid
<1> DEFINE Stays(a) == objection[a] # None =>
                         /\ ~Paid(a) /\ exit'[a] = exit[a]
                         /\ exit[a] = [objection[a] EXCEPT !.challenged = TRUE]
<1>1. PlasmaInv /\ [PlasmaNext]_<<ledgerVars, plasmaVars>> =>
        [\A a \in Addresses : Stays(a)]_<<ledgerVars, plasmaVars>>
  <2> SUFFICES ASSUME PlasmaInv, PlasmaNext, NEW a \in Addresses, objection[a] # None
               PROVE  /\ ~Paid(a) /\ exit'[a] = exit[a]
                      /\ exit[a] = [objection[a] EXCEPT !.challenged = TRUE]
    OBVIOUS
  <2>1. /\ exit[a] # None
        /\ exit[a] = [objection[a] EXCEPT !.challenged = TRUE]
    BY DEF PlasmaInv, KeptEntry
  <2>2. /\ exit \in [Addresses -> Exits \cup {None}]
        /\ objection \in [Addresses -> Exits \cup {None}]
    BY DEF PlasmaInv, PlasmaTypeOK, Exits
  <2>3. exit[a].challenged = TRUE
    BY <2>1, <2>2 DEF Exits
  <2>4. exit'[a] = exit[a]
    <3>1. CASE \E c \in Addresses : FinalizeExit(c)
      BY <3>1, <2>2, FinalizeKeeps DEF FinalizeExit
    <3>2. CASE \E c, claimant \in Addresses : ChallengeExit(c, claimant)
      <4>1. PICK c \in Addresses, claimant \in Addresses : ChallengeExit(c, claimant)
        BY <3>2
      <4>2. claimant # a
        BY <4>1, <2>3 DEF ChallengeExit
      <4> QED  BY <4>1, <4>2, <2>2 DEF ChallengeExit
    <3>3. CASE \E c \in Addresses, b \in Blocks, n \in TxCounts :
                 SubmitCheckpoint(c, b, n)
      BY <3>3 DEF SubmitCheckpoint
    <3>4. CASE \E c \in Addresses, b \in Blocks, tx \in TxIndexes, amount, bond \in Bonds :
                 RequestExit(c, b, tx, amount, bond)
      BY <3>4, <2>1, <2>2 DEF RequestExit
    <3>5. CASE Tick /\ UNCHANGED plasmaVars
      BY <3>5 DEF plasmaVars
    <3> QED  BY <3>1, <3>2, <3>3, <3>4, <3>5 DEF PlasmaNext
  <2> QED  BY <2>1, <2>4 DEF Paid
<1> QED  BY <1>1, PlasmaInvariance, PTL DEF PlasmaSpec, ChallengedNeverPaid
-----------------------------------------------------------------------------
(* Reward tokens.                                                          *)

\* Who may mint is whom the admin appointed last.
Appointed ==
  IF minterAdmin = None THEN minter = None
  ELSE /\ minterAdmin \in Addresses /\ minter \in Addresses
       /\ appointed = [by |-> minterAdmin, to |-> minter]

MinterInv == MinterTypeOK /\ Appointed /\ TotalExact

LEMMA MinterStart == MinterInit => MinterInv
<1> SUFFICES ASSUME MinterInit PROVE MinterInv
  OBVIOUS
<1>1. Minted = {}
  BY DEF MinterInit, Minted
<1>2. Cardinality(Minted) = 0
  BY <1>1, FS_EmptySet
<1>3. MinterTypeOK
  BY <1>1 DEF MinterInit, MinterTypeOK
<1> QED  BY <1>2, <1>3 DEF MinterInit, MinterInv, Appointed, TotalExact

LEMMA InitializeKeeps ==
  ASSUME MinterInv, NEW a \in Addresses, NEW m \in Addresses,
         InitializeMinter(a, m)
  PROVE  MinterInv'
<1>1. /\ minterAdmin = None /\ minterAdmin' = a /\ minter' = m
      /\ totalMinted' = 0 /\ appointed' = [by |-> a, to |-> m] /\ owner' = owner
  BY DEF InitializeMinter
<1>2. minter = None /\ Minted = {} /\ owner \in [TokenIds -> Addresses \cup {None}]
  BY <1>1 DEF MinterInv, MinterTypeOK, Appointed
<1>3. a # None /\ m # None
  BY LedgerAssumption
<1>4. Minted' = {}
  BY <1>1, <1>2 DEF Minted
<1>5. TotalExact'
  <2>1. Cardinality(Minted') = 0  BY <1>4, FS_EmptySet
  <2> QED  BY <1>1, <2>1 DEF TotalExact
<1>6. MinterTypeOK'
  BY <1>1, <1>2, <1>4 DEF MinterTypeOK
<1> QED  BY <1>1, <1>3, <1>5, <1>6 DEF MinterInv, Appointed

LEMMA MintKeeps ==
  ASSUME MinterInv, NEW to \in Addresses, NEW id \in TokenIds, Mint(to, id)
  PROVE  MinterInv'
<1>1. /\ minter # None /\ owner[id] = None
      /\ owner' = [owner EXCEPT ![id] = to] /\ totalMinted' = totalMinted + 1
      /\ UNCHANGED <<minterAdmin, minter, appointed>>
  BY DEF Mint
<1>2. /\ owner \in [TokenIds -> Addresses \cup {None}]
      /\ totalMinted \in Nat /\ totalMinted = Cardinality(Minted)
  BY DEF MinterInv, MinterTypeOK, TotalExact
<1>3. to # None
  BY LedgerAssumption
<1>4. Minted' = Minted \cup {id} /\ id \notin Minted
  BY <1>1, <1>2, <1>3 DEF Minted
<1>5. IsFiniteSet(Minted)
  <2>1. Minted \subseteq TokenIds  BY DEF Minted
  <2> QED  BY <2>1, MinterAssumption, FS_Subset
<1>6. Cardinality(Minted') = Cardinality(Minted) + 1
  BY <1>4, <1>5, FS_AddElement
<1>7. TotalExact'
  BY <1>1, <1>2, <1>6 DEF TotalExact
<1>8. owner' \in [TokenIds -> Addresses \cup {None}] /\ totalMinted' \in Nat
  BY <1>1, <1>2
<1> QED  BY <1>1, <1>7, <1>8 DEF MinterInv, MinterTypeOK, Appointed

LEMMA SetMinterKeeps ==
  ASSUME MinterInv, NEW a \in Addresses, NEW m \in Addresses, SetMinter(a, m)
  PROVE  MinterInv'
<1>1. /\ minterAdmin # None /\ a = minterAdmin /\ minter' = m
      /\ appointed' = [by |-> a, to |-> m]
      /\ UNCHANGED <<minterAdmin, totalMinted, owner>>
  BY DEF SetMinter
<1>2. m # None
  BY LedgerAssumption
<1>3. Minted' = Minted
  BY <1>1 DEF Minted
<1>4. TotalExact'
  BY <1>1, <1>3 DEF MinterInv, TotalExact
<1>5. MinterTypeOK'
  BY <1>1, <1>2 DEF MinterInv, MinterTypeOK
<1> QED  BY <1>1, <1>4, <1>5 DEF MinterInv, Appointed

LEMMA MinterStep ==
  MinterInv /\ [MinterNext]_<<ledgerVars, minterVars>> => MinterInv'
<1> SUFFICES ASSUME MinterInv, [MinterNext]_<<ledgerVars, minterVars>>
             PROVE  MinterInv'
  OBVIOUS
<1>1. CASE UNCHANGED <<ledgerVars, minterVars>>
  BY <1>1 DEF minterVars, MinterInv, MinterTypeOK, Appointed, TotalExact, Minted
<1>2. CASE MinterNext
  BY <1>2, InitializeKeeps, MintKeeps, SetMinterKeeps DEF MinterNext
<1> QED  BY <1>1, <1>2

\* The minter contract keeps its types, its appointment and its counter.
THEOREM MinterInvariance == MinterSpec => []MinterInv
<1> QED  BY MinterStart, MinterStep, PTL DEF MinterSpec

\* total_minted is exactly the number of ids that have an owner.
THEOREM TotalMintedExact == MinterSpec => []TotalExact
<1>1. MinterInv => TotalExact  BY DEF MinterInv
<1> QED  BY <1>1, MinterInvariance, PTL

\* A token never changes hands, and only the last appointee gives it out.
THEOREM OwnersAreFinal == MinterSpec => OwnersFinal
<1>1. MinterInv /\ [MinterNext]_<<ledgerVars, minterVars>> =>
        [\A id \in TokenIds : owner'[id] # owner[id] =>
           /\ owner[id] = None
           /\ appointed # None /\ signer' = appointed.to
           /\ appointed.by = minterAdmin]_<<ledgerVars, minterVars>>
  <2> SUFFICES ASSUME MinterInv, MinterNext, NEW id \in TokenIds,
                      owner'[id] # owner[id]
               PROVE  /\ owner[id] = None
                      /\ appointed # None /\ signer' = appointed.to
                      /\ appointed.by = minterAdmin
    OBVIOUS
  <2>1. owner \in [TokenIds -> Addresses \cup {None}]
    BY DEF MinterInv, MinterTypeOK
  <2>2. PICK to \in Addresses, j \in TokenIds : Mint(to, j)
    BY DEF MinterNext, InitializeMinter, SetMinter
  <2>3. id = j /\ owner[id] = None /\ minter # None /\ signer' = minter
    BY <2>1, <2>2 DEF Mint, SignedBy
  <2>4. appointed = [by |-> minterAdmin, to |-> minter]
    BY <2>3 DEF MinterInv, Appointed
  <2>5. appointed \in [by : Addresses, to : Addresses]
    BY <2>3, <2>4 DEF MinterInv, Appointed
  <2>6. appointed # None
    BY <2>5, MinterAssumption
  <2> QED  BY <2>3, <2>4, <2>6
<1> QED  BY <1>1, MinterInvariance, PTL DEF MinterSpec, OwnersFinal

-----------------------------------------------------------------------------
(* Shards: one append-only list.                                           *)

\* Quotient and remainder of a position in a shard.
LEMMA Quotient ==
  ASSUME NEW n \in Nat
  PROVE  /\ ShardIndex(n) \in Nat
         /\ ShardOffset(n) \in 0..(ShardSize - 1)
         /\ n = ShardIndex(n) * ShardSize + ShardOffset(n)
BY ShardingAssumption DEF ShardIndex, ShardOffset

\* A larger shard number means a position at least one shard further on.
LEMMA NextShard ==
  ASSUME NEW j \in Nat, NEW k \in Nat, j < k
  PROVE  j * ShardSize + ShardSize <= k * ShardSize
<1>1. PICK d \in Nat : k = j + 1 + d
  <2>1. k - j - 1 \in Nat /\ k = j + 1 + (k - j - 1)  OBVIOUS
  <2> QED  BY <2>1
<1>2. k * ShardSize = j * ShardSize + ShardSize + d * ShardSize
  BY <1>1, ShardingAssumption
<1>3. d * ShardSize >= 0
  BY <1>1, ShardingAssumption
<1>4. j * ShardSize \in Int /\ d * ShardSize \in Int /\ ShardSize \in Int
  BY <1>1, ShardingAssumption
<1> QED  BY <1>2, <1>3, <1>4

\* Where a position falls is determined by its shard and its offset.
LEMMA Located ==
  ASSUME NEW k \in Nat, NEW r \in 0..(ShardSize - 1)
  PROVE  /\ k * ShardSize + r \in Nat
         /\ ShardIndex(k * ShardSize + r) = k
         /\ ShardOffset(k * ShardSize + r) = r
<1> DEFINE n == k * ShardSize + r
<1>1. n \in Nat /\ k * ShardSize \in Nat /\ ShardSize \in Nat
  BY ShardingAssumption
<1>2. /\ ShardIndex(n) \in Nat /\ ShardOffset(n) \in 0..(ShardSize - 1)
      /\ n = ShardIndex(n) * ShardSize + ShardOffset(n)
  BY <1>1, Quotient
<1>3. ~(ShardIndex(n) < k)
  <2> SUFFICES ASSUME ShardIndex(n) < k PROVE FALSE  OBVIOUS
  <2>1. ShardIndex(n) * ShardSize + ShardSize <= k * ShardSize
    BY <1>2, NextShard
  <2>2. ShardIndex(n) * ShardSize \in Int
    BY <1>1, <1>2
  <2> QED  BY <1>1, <1>2, <2>1, <2>2
<1>4. ~(k < ShardIndex(n))
  <2> SUFFICES ASSUME k < ShardIndex(n) PROVE FALSE  OBVIOUS
  <2>1. k * ShardSize + ShardSize <= ShardIndex(n) * ShardSize
    BY <1>2, NextShard
  <2>2. ShardIndex(n) * ShardSize \in Int
    BY <1>1, <1>2
  <2> QED  BY <1>1, <1>2, <2>1, <2>2
<1>5. ShardIndex(n) = k
  BY <1>2, <1>3, <1>4
<1> QED  BY <1>1, <1>2, <1>5

-----------------------------------------------------------------------------
\* The active shard exists.
LEMMA ActiveType ==
  ASSUME ShardInv
  PROVE  Active \in ShardNumbers /\ shards[Active] \in Seq(Contributors)
BY ShardingAssumption DEF ShardInv, ShardsTypeOK, Active, ShardNumbers

LEMMA InsertHereKeeps ==
  ASSUME ShardInv, NEW a \in Contributors, InsertHere(a)
  PROVE  ShardInv'
<1>1. /\ Active \in ShardNumbers /\ shards[Active] \in Seq(Contributors)
      /\ shards \in [ShardNumbers -> Seq(Contributors)] /\ shardCount \in 0..MaxShards
  BY ActiveType DEF ShardInv, ShardsTypeOK
<1>2. /\ shards' \in [ShardNumbers -> Seq(Contributors)]
      /\ shards'[Active] = Append(shards[Active], a)
      /\ \A i \in ShardNumbers : i # Active => shards'[i] = shards[i]
      /\ Len(shards'[Active]) = Len(shards[Active]) + 1
  BY <1>1 DEF InsertHere
<1>3. shardCount' = Active + 1 /\ shardCount' \in 0..MaxShards
  BY <1>1, ShardingAssumption DEF InsertHere, Active, ShardNumbers
<1>4. ShardsTypeOK'
  <2>1. Len(shards'[Active]) <= ShardSize
    BY <1>1, <1>2, ShardingAssumption DEF InsertHere, Full
  <2> QED  BY <1>2, <1>3, <2>1 DEF ShardInv, ShardsTypeOK
<1>5. FillInOrder'
  BY <1>1, <1>2, <1>3 DEF ShardInv, FillInOrder, Active, ShardNumbers
<1>6. DistinctInShard'
  <2> SUFFICES ASSUME NEW i \in ShardNumbers,
                      NEW j \in 1..Len(shards'[i]), NEW k \in 1..Len(shards'[i]),
                      shards'[i][j] = shards'[i][k]
               PROVE  j = k
    BY DEF DistinctInShard
  <2>1. CASE i # Active
    BY <1>2, <2>1 DEF ShardInv, DistinctInShard
  <2>2. CASE i = Active
    <3>1. \A m \in 1..Len(shards[Active]) : shards[Active][m] # a
      BY DEF InsertHere, Held
    <3>2. \A m \in 1..Len(shards[Active]) :
             Append(shards[Active], a)[m] = shards[Active][m]
      BY <1>1
    <3>3. Append(shards[Active], a)[Len(shards[Active]) + 1] = a
      BY <1>1
    <3>4. \A m, p \in 1..Len(shards[Active]) :
             shards[Active][m] = shards[Active][p] => m = p
      BY <1>1 DEF ShardInv, DistinctInShard
    <3>5. Len(shards[Active]) \in Nat
      BY <1>1
    <3>6. /\ j \in 1..(Len(shards[Active]) + 1) /\ k \in 1..(Len(shards[Active]) + 1)
          /\ Append(shards[Active], a)[j] = Append(shards[Active], a)[k]
      BY <1>2, <2>2
    <3> QED  BY <3>1, <3>2, <3>3, <3>4, <3>5, <3>6, SMTT(30)
  <2> QED  BY <2>1, <2>2
<1> QED  BY <1>4, <1>5, <1>6 DEF ShardInv

LEMMA OpenShardKeeps ==
  ASSUME ShardInv, NEW a \in Contributors, OpenShard(a)
  PROVE  ShardInv'
<1>1. /\ shards \in [ShardNumbers -> Seq(Contributors)] /\ shardCount \in 0..MaxShards
      /\ shardCount \in ShardNumbers
  BY ShardingAssumption DEF ShardInv, ShardsTypeOK, OpenShard, ShardNumbers
<1>2. shardCount > 0 /\ Active = shardCount - 1 /\ Len(shards[Active]) = ShardSize
  <2>1. Len(shards[Active]) = ShardSize
    BY ActiveType, ShardingAssumption DEF OpenShard, Full, ShardInv, ShardsTypeOK
  <2>2. shardCount # 0
    <3> SUFFICES ASSUME shardCount = 0 PROVE FALSE  OBVIOUS
    <3>1. shards[0] = <<>>
      BY <1>1 DEF ShardInv, FillInOrder
    <3> QED  BY <2>1, <3>1, ShardingAssumption DEF Active
  <2> QED  BY <1>1, <2>1, <2>2 DEF Active
<1>3. /\ shards' \in [ShardNumbers -> Seq(Contributors)]
      /\ shards'[shardCount] = <<a>>
      /\ \A i \in ShardNumbers : i # shardCount => shards'[i] = shards[i]
      /\ shardCount' = shardCount + 1
  BY <1>1 DEF OpenShard
<1>4. Len(shards'[shardCount]) = 1
  BY <1>3
<1>5. ShardsTypeOK'
  <2>1. shardCount' \in 0..MaxShards
    BY <1>1, <1>3, ShardingAssumption DEF ShardNumbers
  <2>2. \A i \in ShardNumbers : i # shardCount => Len(shards'[i]) <= ShardSize
    BY <1>3 DEF ShardInv, ShardsTypeOK
  <2>3. Len(shards'[shardCount]) <= ShardSize
    BY <1>4, ShardingAssumption
  <2> QED  BY <1>3, <2>1, <2>2, <2>3 DEF ShardsTypeOK
<1>6. FillInOrder'
  <2> SUFFICES ASSUME NEW i \in ShardNumbers
               PROVE  /\ i < shardCount' - 1 => Len(shards'[i]) = ShardSize
                      /\ i = shardCount' - 1 => Len(shards'[i]) > 0
                      /\ i >= shardCount' => shards'[i] = <<>>
    BY DEF FillInOrder
  <2>1. i \in Int /\ shardCount \in Int /\ shardCount' = shardCount + 1
    BY <1>1, <1>3 DEF ShardNumbers
  <2>2. CASE i < shardCount
    <3>1. Len(shards[i]) = ShardSize
      BY <1>2, <2>1, <2>2 DEF ShardInv, FillInOrder
    <3> QED  BY <1>3, <2>1, <2>2, <3>1
  <2>3. CASE i = shardCount
    <3>1. Len(shards'[i]) = 1
      <4>1. shards'[i] = shards'[shardCount]  BY <2>3
      <4> QED  BY <1>4, <4>1
    <3>2. ~(i < shardCount' - 1) /\ ~(i >= shardCount')
      BY <2>1, <2>3
    <3> QED  BY <3>1, <3>2
  <2>4. CASE i > shardCount
    BY <1>3, <2>1, <2>4 DEF ShardInv, FillInOrder
  <2> QED  BY <2>1, <2>2, <2>3, <2>4
<1>7. DistinctInShard'
  <2> SUFFICES ASSUME NEW i \in ShardNumbers,
                      NEW j \in 1..Len(shards'[i]), NEW k \in 1..Len(shards'[i]),
                      shards'[i][j] = shards'[i][k]
               PROVE  j = k
    BY DEF DistinctInShard
  <2>1. CASE i = shardCount
    BY <1>3, <1>4, <2>1
  <2>2. CASE i # shardCount
    BY <1>3, <2>2 DEF ShardInv, DistinctInShard
  <2> QED  BY <2>1, <2>2
<1> QED  BY <1>5, <1>6, <1>7 DEF ShardInv

LEMMA ShardsStart == ShardsInit => ShardInv
BY ShardingAssumption
DEF ShardsInit, ShardInv, ShardsTypeOK, FillInOrder, DistinctInShard, ShardNumbers

LEMMA ShardsStep == ShardInv /\ [ShardsNext]_shardsVars => ShardInv'
<1> SUFFICES ASSUME ShardInv, [ShardsNext]_shardsVars PROVE ShardInv'
  OBVIOUS
<1>1. CASE UNCHANGED shardsVars
  BY <1>1 DEF shardsVars, ShardInv, ShardsTypeOK, FillInOrder, DistinctInShard
<1>2. CASE ShardsNext
  BY <1>2, InsertHereKeeps, OpenShardKeeps DEF ShardsNext
<1> QED  BY <1>1, <1>2

\* The shards of sharding_mechanism.rs fill in order, never beyond their size,
\* and hold no address twice, in every reachable state.
THEOREM ShardInvariance == ShardsSpec => []ShardInv
BY ShardsStart, ShardsStep, PTL DEF ShardsSpec

-----------------------------------------------------------------------------
\* How many addresses fit.
LEMMA FilledBound ==
  ASSUME ShardInv
  PROVE  /\ Filled \in Nat
         /\ shardCount > 0 => /\ (shardCount - 1) * ShardSize \in Nat
                              /\ shards[shardCount - 1] \in Seq(Contributors)
                              /\ Len(shards[shardCount - 1]) \in 1..ShardSize
<1>1. CASE shardCount = 0
  BY <1>1 DEF Filled
<1>2. CASE shardCount # 0
  <2>1. shardCount - 1 \in ShardNumbers /\ shardCount - 1 \in Nat
    BY <1>2, ShardingAssumption DEF ShardInv, ShardsTypeOK, ShardNumbers
  <2>2. /\ shards[shardCount - 1] \in Seq(Contributors)
        /\ Len(shards[shardCount - 1]) \in 1..ShardSize
    BY <2>1, ShardingAssumption DEF ShardInv, ShardsTypeOK, FillInOrder
  <2>3. (shardCount - 1) * ShardSize \in Nat
    BY <2>1, ShardingAssumption
  <2> QED  BY <1>2, <2>2, <2>3 DEF Filled
<1> QED  BY <1>1, <1>2

\* Every position up to Filled falls on an address of a shard in use.
LEMMA PositionHeld ==
  ASSUME ShardInv, NEW n \in 1..Filled
  PROVE  /\ n - 1 \in Nat
         /\ ShardIndex(n-1) \in 0..(shardCount - 1)
         /\ ShardIndex(n-1) \in ShardNumbers
         /\ ShardOffset(n-1) + 1 \in 1..Len(shards[ShardIndex(n-1)])
<1> DEFINE k == ShardIndex(n-1)
<1> DEFINE r == ShardOffset(n-1)
<1>1. n - 1 \in Nat /\ n - 1 < Filled /\ Filled \in Nat
  BY FilledBound
<1>2. k \in Nat /\ r \in 0..(ShardSize - 1) /\ n - 1 = k * ShardSize + r
  BY <1>1, Quotient
<1>3. shardCount \in 1..MaxShards
  BY <1>1 DEF Filled, ShardInv, ShardsTypeOK
<1>4. /\ Filled = (shardCount - 1) * ShardSize + Len(shards[shardCount - 1])
      /\ (shardCount - 1) * ShardSize \in Nat
      /\ Len(shards[shardCount - 1]) \in 1..ShardSize
  BY <1>3, FilledBound DEF Filled
<1>5. k * ShardSize \in Nat
  BY <1>2, ShardingAssumption
<1>6. k <= shardCount - 1
  <2> SUFFICES ASSUME shardCount - 1 < k PROVE FALSE
    BY <1>2, <1>3
  <2>1. (shardCount - 1) * ShardSize + ShardSize <= k * ShardSize
    BY <1>2, <1>3, NextShard
  <2> HIDE DEF k, r
  <2> QED  BY <1>1, <1>2, <1>4, <1>5, <2>1, ShardingAssumption
<1>7. k \in 0..(shardCount - 1) /\ k \in ShardNumbers
  BY <1>2, <1>3, <1>6, ShardingAssumption DEF ShardNumbers
<1>8. r + 1 \in 1..Len(shards[k])
  <2>1. CASE k < shardCount - 1
    <3>1. Len(shards[k]) = ShardSize
      BY <1>7, <2>1 DEF ShardInv, FillInOrder
    <3> QED  BY <1>2, <3>1, ShardingAssumption
  <2>2. CASE k = shardCount - 1
    <3> HIDE DEF k, r
    <3> QED  BY <1>1, <1>2, <1>4, <2>2
  <2> QED  BY <1>3, <1>7, <2>1, <2>2
<1> QED  BY <1>1, <1>7, <1>8

LEMMA LogType ==
  ASSUME ShardInv
  PROVE  Log \in Seq(Contributors) /\ Len(Log) = Filled
<1>1. \A n \in 1..Filled : shards[ShardIndex(n-1)][ShardOffset(n-1) + 1] \in Contributors
  BY PositionHeld DEF ShardInv, ShardsTypeOK
<1>2. Filled \in Nat
  BY FilledBound
<1>3. Log \in [1..Filled -> Contributors]
  BY <1>1 DEF Log
<1> QED  BY <1>2, <1>3

\* A step that leaves the shards up to Filled alone and puts a at position
\* Filled appends a to the log.
LEMMA LogGrows ==
  ASSUME ShardInv, ShardInv', NEW a \in Contributors,
         Filled' = Filled + 1,
         \A n \in 1..Filled : shards'[ShardIndex(n-1)][ShardOffset(n-1) + 1]
                              = shards[ShardIndex(n-1)][ShardOffset(n-1) + 1],
         shards'[ShardIndex(Filled)][ShardOffset(Filled) + 1] = a
  PROVE  Log' = Append(Log, a)
<1>1. Filled \in Nat /\ Log \in Seq(Contributors) /\ Len(Log) = Filled
  BY FilledBound, LogType
<1>2. Log' = [n \in 1..(Filled + 1) |->
                shards'[ShardIndex(n-1)][ShardOffset(n-1) + 1]]
  BY DEF Log, ShardIndex, ShardOffset
<1>3. Append(Log, a) = [n \in 1..(Filled + 1) |->
                          IF n = Filled + 1 THEN a ELSE Log[n]]
  <2> DEFINE s == Log
  <2>1. s \in Seq(Contributors) /\ Len(s) = Filled /\ Filled \in Nat
    BY <1>1
  <2> DEFINE t == [n \in 1..(Filled + 1) |-> IF n = Filled + 1 THEN a ELSE s[n]]
  <2> HIDE DEF s
  <2>2. t \in [1..(Filled + 1) -> Contributors]
    BY <2>1
  <2>3. t \in Seq(Contributors) /\ Len(t) = Filled + 1
    BY <2>1, <2>2
  <2>4. /\ Append(s, a) \in Seq(Contributors) /\ Len(Append(s, a)) = Filled + 1
        /\ \A n \in 1..Filled : Append(s, a)[n] = s[n]
        /\ Append(s, a)[Filled + 1] = a
    BY <2>1, AppendProperties
  <2>5. \A n \in 1..(Filled + 1) : Append(s, a)[n] = t[n]
    BY <2>1, <2>4
  <2> HIDE DEF t
  <2>6. Append(s, a) = t
    BY <2>3, <2>4, <2>5, SeqEqual
  <2> QED  BY <2>6 DEF s, t
<1>4. \A n \in 1..Filled : Log[n] = shards[ShardIndex(n-1)][ShardOffset(n-1) + 1]
  BY DEF Log
<1>5. (Filled + 1) - 1 = Filled
  BY <1>1
<1>6. \A n \in 1..(Filled + 1) :
         shards'[ShardIndex(n-1)][ShardOffset(n-1) + 1]
         = IF n = Filled + 1 THEN a ELSE Log[n]
  <2> SUFFICES ASSUME NEW n \in 1..(Filled + 1)
               PROVE  shards'[ShardIndex(n-1)][ShardOffset(n-1) + 1]
                      = IF n = Filled + 1 THEN a ELSE Log[n]
    OBVIOUS
  <2>1. CASE n = Filled + 1
    BY <1>5, <2>1
  <2>2. CASE n # Filled + 1
    <3>1. n \in 1..Filled
      BY <1>1, <2>2
    <3> QED  BY <1>4, <2>2, <3>1
  <2> QED  BY <2>1, <2>2
<1> QED  BY <1>2, <1>3, <1>6

LEMMA InsertHereAppends ==
  ASSUME ShardInv, ShardInv', NEW a \in Contributors, InsertHere(a)
  PROVE  Log' = Append(Log, a) /\ Filled < MaxShards * ShardSize
<1> DEFINE len == Len(shards[Active])
<1>1. /\ Active \in ShardNumbers /\ shards[Active] \in Seq(Contributors)
      /\ shards \in [ShardNumbers -> Seq(Contributors)] /\ shardCount \in 0..MaxShards
      /\ Active \in Nat
  BY ActiveType DEF ShardInv, ShardsTypeOK, ShardNumbers
<1>2. /\ shards'[Active] = Append(shards[Active], a)
      /\ \A i \in ShardNumbers : i # Active => shards'[i] = shards[i]
      /\ shardCount' = Active + 1
  BY <1>1 DEF InsertHere, Active
<1>3. len \in 0..(ShardSize - 1) /\ Len(shards'[Active]) = len + 1
  BY <1>1, <1>2, ShardingAssumption DEF InsertHere, Full
<1>4. Active * ShardSize \in Nat
  BY <1>1, ShardingAssumption
<1>5. Filled = Active * ShardSize + len
  <2>1. CASE shardCount = 0
    <3>1. Active = 0 /\ shards[0] = <<>> /\ 0 * ShardSize = 0
      BY <1>1, <2>1, ShardingAssumption DEF ShardInv, FillInOrder, Active
    <3> QED  BY <2>1, <3>1 DEF Filled
  <2>2. CASE shardCount # 0
    BY <2>2 DEF Filled, Active
  <2> QED  BY <2>1, <2>2
<1>6. Filled' = Filled + 1
  <2>1. Filled' = (shardCount' - 1) * ShardSize + Len(shards'[shardCount' - 1])
    BY <1>1, <1>2 DEF Filled
  <2>2. shardCount' - 1 = Active
    BY <1>1, <1>2
  <2>3. Filled' = Active * ShardSize + (len + 1)
    BY <1>3, <2>1, <2>2
  <2> HIDE DEF len
  <2> QED  BY <1>3, <1>4, <1>5, <2>3
<1>7. ShardIndex(Filled) = Active /\ ShardOffset(Filled) = len
  BY <1>1, <1>3, <1>5, Located
<1>8. shards'[ShardIndex(Filled)][ShardOffset(Filled) + 1] = a
  BY <1>1, <1>2, <1>7
<1>9. \A n \in 1..Filled : shards'[ShardIndex(n-1)][ShardOffset(n-1) + 1]
                           = shards[ShardIndex(n-1)][ShardOffset(n-1) + 1]
  BY <1>1, <1>2, PositionHeld
<1>10. Filled < MaxShards * ShardSize
  <2>1. Active < MaxShards /\ MaxShards \in Nat /\ ShardSize \in Nat
    BY <1>1, ShardingAssumption DEF ShardNumbers
  <2>2. Active * ShardSize + ShardSize <= MaxShards * ShardSize
    BY <1>1, <2>1, NextShard
  <2>3. MaxShards * ShardSize \in Nat
    BY <2>1
  <2> HIDE DEF len
  <2> QED  BY <1>3, <1>4, <1>5, <2>1, <2>2, <2>3
<1> QED  BY <1>6, <1>8, <1>9, <1>10, LogGrows

LEMMA OpenShardAppends ==
  ASSUME ShardInv, ShardInv', NEW a \in Contributors, OpenShard(a)
  PROVE  Log' = Append(Log, a) /\ Filled < MaxShards * ShardSize
<1>1. /\ shards \in [ShardNumbers -> Seq(Contributors)] /\ shardCount \in Nat
      /\ shardCount \in ShardNumbers
  BY ShardingAssumption DEF ShardInv, ShardsTypeOK, OpenShard, ShardNumbers
<1>2. shardCount > 0 /\ Len(shards[shardCount - 1]) = ShardSize
  <2>1. Len(shards[Active]) = ShardSize
    BY ActiveType, ShardingAssumption DEF OpenShard, Full, ShardInv, ShardsTypeOK
  <2>2. shardCount # 0
    <3> SUFFICES ASSUME shardCount = 0 PROVE FALSE  OBVIOUS
    <3>1. shards[0] = <<>>
      BY <1>1 DEF ShardInv, FillInOrder
    <3> QED  BY <2>1, <3>1, ShardingAssumption DEF Active
  <2> QED  BY <1>1, <2>1, <2>2 DEF Active
<1>3. /\ shards'[shardCount] = <<a>>
      /\ \A i \in ShardNumbers : i # shardCount => shards'[i] = shards[i]
      /\ shardCount' = shardCount + 1
  BY <1>1 DEF OpenShard
<1>4. Filled = shardCount * ShardSize /\ Filled \in Nat
  <2>1. Filled = (shardCount - 1) * ShardSize + ShardSize
    BY <1>2 DEF Filled
  <2>2. (shardCount - 1) * ShardSize + ShardSize = shardCount * ShardSize
    BY <1>1, ShardingAssumption
  <2> QED  BY <2>1, <2>2, FilledBound
<1>5. Filled' = Filled + 1
  <2>1. Filled' = (shardCount' - 1) * ShardSize + Len(shards'[shardCount' - 1])
    BY <1>1, <1>3 DEF Filled
  <2>2. shardCount' - 1 = shardCount /\ Len(<<a>>) = 1
    BY <1>1, <1>3
  <2> QED  BY <1>3, <1>4, <2>1, <2>2
<1>6. ShardIndex(Filled) = shardCount /\ ShardOffset(Filled) = 0
  <2>1. 0 \in 0..(ShardSize - 1) /\ shardCount * ShardSize + 0 = Filled
    BY <1>4, ShardingAssumption
  <2> QED  BY <1>1, <2>1, Located
<1>7. shards'[ShardIndex(Filled)][ShardOffset(Filled) + 1] = a
  BY <1>3, <1>6
<1>8. \A n \in 1..Filled : shards'[ShardIndex(n-1)][ShardOffset(n-1) + 1]
                           = shards[ShardIndex(n-1)][ShardOffset(n-1) + 1]
  BY <1>1, <1>3, PositionHeld
<1>9. Filled < MaxShards * ShardSize
  <2>1. shardCount < MaxShards /\ MaxShards \in Nat /\ ShardSize \in Nat \ {0}
    BY <1>1, ShardingAssumption DEF OpenShard
  <2>2. shardCount * ShardSize + ShardSize <= MaxShards * ShardSize
    BY <1>1, <2>1, NextShard
  <2>3. MaxShards * ShardSize \in Nat
    BY <2>1
  <2> QED  BY <1>4, <2>1, <2>2, <2>3
<1> QED  BY <1>5, <1>7, <1>8, <1>9, LogGrows

\* Read by shard_index and shard_offset, the shards are one list that insert
\* only ever extends at its end: Sharding implements AppendLog.
THEOREM ShardingKeepsLog == ShardsSpec => KeepsLog
<1>1. ShardsInit => Appends!Init
  BY DEF ShardsInit, Appends!Init, Log, Filled
<1>2. ShardInv /\ ShardInv' /\ [ShardsNext]_shardsVars => [Appends!Next]_Log
  <2> SUFFICES ASSUME ShardInv, ShardInv', [ShardsNext]_shardsVars PROVE [Appends!Next]_Log  OBVIOUS
  <2>1. CASE UNCHANGED shardsVars
    BY <2>1 DEF shardsVars, Log, Filled, ShardIndex, ShardOffset
  <2>2. CASE ShardsNext
    <3>1. PICK a \in Contributors : InsertHere(a) \/ OpenShard(a)
      BY <2>2 DEF ShardsNext
    <3>2. Log' = Append(Log, a) /\ Len(Log) < MaxShards * ShardSize
      BY <3>1, InsertHereAppends, OpenShardAppends, LogType
    <3> QED  BY <3>2 DEF Appends!Next, Appends!AppendEntry
  <2> QED  BY <2>1, <2>2
<1> QED  BY <1>1, <1>2, ShardInvariance, PTL DEF ShardsSpec, KeepsLog, Appends!Spec

LEMMA ShardsMeaning == ShardInv => CountExact
<1> SUFFICES ASSUME ShardInv PROVE CountExact
  OBVIOUS
<1> DEFINE n == shardCount
           a == [i \in 1..n |-> Len(shards[i - 1])]
           p == PrefixSums(a, n)
           T == {k \in Nat : k < n => p[k] = k * ShardSize}
<1>1. /\ n \in Nat /\ ShardSize \in Nat
      /\ \A i \in 1..n : i - 1 \in ShardNumbers
  BY ShardingAssumption DEF ShardInv, ShardsTypeOK, ShardNumbers
<1>2. a \in [1..n -> Int]
  BY <1>1 DEF ShardInv, ShardsTypeOK
<1>3. \A i \in 1..n : i < n => a[i] = ShardSize
  BY <1>1 DEF ShardInv, FillInOrder
<1>4. /\ p[0] = 0
      /\ \A i \in 1..n : p[i] = p[i-1] + a[i]
  BY <1>1, <1>2, PrefixSumsStep
<1> HIDE DEF p
<1>5. n > 0 => a[n] = Len(shards[n - 1])
  BY <1>1
<1> HIDE DEF a, n
<1>6. \A k \in T : k + 1 \in T
  <2> SUFFICES ASSUME NEW k \in Nat, p[k] = k * ShardSize, k + 1 < n
               PROVE  p[k + 1] = (k + 1) * ShardSize
    BY <1>1
  <2>1. k + 1 \in 1..n /\ (k + 1) - 1 = k
    BY <1>1
  <2>2. p[k + 1] = p[(k + 1) - 1] + a[k + 1] /\ a[k + 1] = ShardSize
    BY <1>3, <1>4, <2>1
  <2>3. p[k + 1] = k * ShardSize + ShardSize
    BY <2>1, <2>2
  <2> QED  BY <1>1, <2>3
<1>7. T = Nat
  <2>1. 0 \in T  BY <1>1, <1>4
  <2>2. T \subseteq Nat  OBVIOUS
  <2> HIDE DEF T
  <2> QED  BY <1>6, <2>1, <2>2, SetInduction
<1>8. CASE n = 0
  BY <1>4, <1>8 DEF CountExact, TotalContributors, Filled, n, p, a
<1>9. CASE n > 0
  <2>1. n - 1 \in Nat /\ n - 1 < n /\ n \in 1..n
    BY <1>1, <1>9
  <2>2. p[n - 1] = (n - 1) * ShardSize
    BY <1>7, <2>1
  <2>3. p[n] = (n - 1) * ShardSize + Len(shards[n - 1])
    BY <1>4, <1>5, <1>9, <2>1, <2>2
  <2> QED  BY <1>9, <2>3 DEF CountExact, TotalContributors, Filled, n, p, a
<1> QED  BY <1>1, <1>8, <1>9

\* What total_contributors adds up, shard by shard, is what the position of the
\* last address says, for any shard size and number of shards.
THEOREM TotalsExact == ShardsSpec => []CountExact
BY ShardsMeaning, ShardInvariance, PTL

-----------------------------------------------------------------------------
(* Stretch goals.                                                          *)

\* Every goal that was added lies above the primary one.
GoalsInv ==
  /\ stretch \in Seq(Int) /\ raised \in Int
  /\ \A i \in 1..Len(stretch) : stretch[i] > PrimaryGoal

LEMMA GoalsKept == GoalsInv /\ [ContentNext]_<<ledgerVars, contentVars>> => GoalsInv'
<1> SUFFICES ASSUME GoalsInv, [ContentNext]_<<ledgerVars, contentVars>>
             PROVE  GoalsInv'
  OBVIOUS
<1>1. ASSUME NEW m \in Milestones, AddStretchGoal(m) PROVE GoalsInv'
  <2>1. /\ stretch' = Append(stretch, m) /\ raised' = raised
        /\ m \in Int /\ m > PrimaryGoal
    BY <1>1, ContentAssumption DEF AddStretchGoal
  <2>2. /\ stretch' \in Seq(Int) /\ Len(stretch') = Len(stretch) + 1
        /\ \A i \in 1..Len(stretch) : stretch'[i] = stretch[i]
        /\ stretch'[Len(stretch) + 1] = m
    BY <2>1 DEF GoalsInv
  <2>3. Len(stretch) \in Nat
    BY DEF GoalsInv
  <2> QED  BY <2>1, <2>2, <2>3 DEF GoalsInv
<1>2. CASE CampaignMoves
  <2>1. raised' \in Int /\ stretch' = stretch
    BY <1>2 DEF CampaignMoves, GoalsInv
  <2> QED  BY <2>1 DEF GoalsInv
<1>3. CASE stretch' = stretch /\ raised' = raised
  BY <1>3 DEF GoalsInv
<1> QED
  BY <1>1, <1>2, <1>3
  DEF ContentNext, ProvisionAuthor, UpdateMetadata, AddRoadmapItem, contentVars

\* current_milestone names a goal that is open, above the primary one, and none
\* exactly when none is; of goals that were added in ascending order it names
\* the nearest, for any goals, totals and number of goals.
THEOREM MilestoneAlwaysSound == ContentSpec => []MilestoneSound
<1>1. LedgerInit /\ ContentInit => GoalsInv
  BY DEF ContentInit, GoalsInv
<1>2. GoalsInv => MilestoneSound
  <2> SUFFICES ASSUME GoalsInv PROVE MilestoneSound
    OBVIOUS
  <2> DEFINE I == {i \in 1..Len(stretch) : raised < stretch[i]}
  <2>1. /\ I \in SUBSET Nat /\ Len(stretch) \in Nat
        /\ \A i \in I : /\ i \in 1..Len(stretch) /\ stretch[i] > PrimaryGoal
                       /\ stretch[i] \in Int
    BY DEF GoalsInv
  <2>2. CurrentMilestone = IF I = {} THEN 0 ELSE stretch[First(I)]
    BY DEF CurrentMilestone, NextUnmet
  <2>3. CASE I = {}
    BY <2>2, <2>3 DEF MilestoneSound
  <2>4. CASE I # {}
    <3>1. First(I) \in I /\ \A j \in I : First(I) <= j
      BY <2>1, <2>4, FirstExists
    <3> DEFINE f == First(I)
    <3>2. /\ CurrentMilestone = stretch[f] /\ f \in I
          /\ stretch[f] > PrimaryGoal /\ PrimaryGoal >= 0 /\ stretch[f] \in Int
      BY <2>1, <2>2, <2>4, <3>1, ContentAssumption, SMTT(30)
    <3>3. CurrentMilestone # 0
      BY <3>2, ContentAssumption
    <3>4. ASSUME \A i, j \in 1..Len(stretch) : i < j => stretch[i] <= stretch[j],
                 NEW i \in I
          PROVE  CurrentMilestone <= stretch[i]
      <4>1. f <= i /\ f \in 1..Len(stretch) /\ i \in 1..Len(stretch)
        BY <2>1, <3>1
      <4>2. CASE f = i
        BY <2>1, <3>2, <4>2
      <4>3. CASE f < i
        BY <3>2, <3>4, <4>1, <4>3
      <4> QED  BY <4>1, <4>2, <4>3
    <3> HIDE DEF f
    <3> QED  BY <2>4, <3>2, <3>3, <3>4 DEF MilestoneSound
  <2> QED  BY <2>3, <2>4
<1> QED  BY <1>1, <1>2, GoalsKept, PTL DEF ContentSpec

\* With the types it needs: an item is dated after the clock, which is natural.
ContentInv ==
  /\ LedgerTypeOK /\ GoalsInv /\ ContentTypeOK
  /\ roadmap \in Seq(Nat)

LEMMA ContentStart == LedgerInit /\ ContentInit => ContentInv
<1> SUFFICES ASSUME LedgerInit, ContentInit PROVE ContentInv
  OBVIOUS
<1>1. /\ MaxTime \in Nat /\ MaxStretch \in Nat /\ MaxRoadmap \in Nat /\ MaxRaised \in Nat
      /\ roadmap = <<>> /\ stretch = <<>> /\ Len(roadmap) = 0 /\ Len(stretch) = 0
      /\ raised = 0 /\ taking = TRUE /\ author = None
      /\ text = [f \in Fields |-> None]
  BY LedgerAssumption, ContentAssumption DEF ContentInit
<1>2. LedgerTypeOK
  BY <1>1 DEF LedgerInit, LedgerTypeOK
<1>3. GoalsInv /\ roadmap \in Seq(Nat)
  BY <1>1 DEF GoalsInv
<1>4. ContentTypeOK
  BY <1>1 DEF ContentTypeOK
<1> QED  BY <1>2, <1>3, <1>4 DEF ContentInv

LEMMA ContentStep == ContentInv /\ [ContentNext]_<<ledgerVars, contentVars>> => ContentInv'
<1> SUFFICES ASSUME ContentInv, [ContentNext]_<<ledgerVars, contentVars>>
             PROVE  ContentInv'
  OBVIOUS
<1>1. GoalsInv'
  BY GoalsKept DEF ContentInv
<1>2. /\ MaxTime \in Nat /\ MaxStretch \in Nat /\ MaxRoadmap \in Nat
      /\ MaxTextLen \in Nat /\ MaxRaised \in Nat
      /\ now \in Nat /\ raised \in Nat /\ roadmap \in Seq(Nat) /\ stretch \in Seq(Int)
      /\ Len(roadmap) \in Nat /\ Len(stretch) \in Nat
  BY LedgerAssumption, ContentAssumption
     DEF ContentInv, LedgerTypeOK, ContentTypeOK, GoalsInv
<1>3. ASSUME NEW a \in Addresses, ProvisionAuthor(a) PROVE ContentInv'
  BY <1>1, <1>3 DEF ProvisionAuthor, SignedBy, ContentInv, LedgerTypeOK, ContentTypeOK
<1>4. ASSUME NEW c \in Addresses, NEW texts \in [Fields -> TextLens \cup {None}],
             UpdateMetadata(c, texts)
      PROVE  ContentInv'
  <2>1. /\ text' = [f \in Fields |-> IF texts[f] = None THEN text[f] ELSE texts[f]]
        /\ \A f \in Fields : texts[f] # None => Fits(texts[f])
        /\ SignedBy(c) /\ UNCHANGED <<author, roadmap, stretch, raised, taking>>
    BY <1>4 DEF UpdateMetadata
  <2>2. \A f \in Fields : text'[f] \in 0..MaxTextLen \cup {None}
    <3> SUFFICES ASSUME NEW f \in Fields PROVE text'[f] \in 0..MaxTextLen \cup {None}
      OBVIOUS
    <3>1. CASE texts[f] = None
      BY <2>1, <3>1 DEF ContentInv, ContentTypeOK
    <3>2. CASE texts[f] # None
      <4>1. texts[f] \in TextLens /\ texts[f] <= MaxTextLen /\ text'[f] = texts[f]
        BY <2>1, <3>2 DEF Fits
      <4> QED  BY <1>2, <4>1 DEF TextLens
    <3> QED  BY <3>1, <3>2
  <2>3. text' \in [Fields -> 0..MaxTextLen \cup {None}]
    BY <2>1, <2>2
  <2> QED  BY <1>1, <2>1, <2>3 DEF SignedBy, ContentInv, LedgerTypeOK, ContentTypeOK
<1>5. ASSUME NEW date \in 0..MaxTime + 1, NEW len \in TextLens, AddRoadmapItem(date, len)
      PROVE  ContentInv'
  <2>1. /\ author # None /\ date > now /\ Len(roadmap) < MaxRoadmap
        /\ roadmap' = Append(roadmap, date)
        /\ SignedBy(author) /\ UNCHANGED <<author, text, stretch, raised, taking>>
    BY <1>5 DEF AddRoadmapItem, RoomForItem
  <2>2. date \in Nat /\ date > 0
    BY <1>2, <2>1
  <2>3. /\ roadmap' \in Seq(Nat) /\ Len(roadmap') = Len(roadmap) + 1
        /\ DOMAIN roadmap' = 1..Len(roadmap) + 1 /\ DOMAIN roadmap = 1..Len(roadmap)
        /\ \A i \in 1..Len(roadmap) : roadmap'[i] = roadmap[i]
        /\ roadmap'[Len(roadmap) + 1] = date
    BY <1>2, <2>1, <2>2
  <2>4. \A i \in DOMAIN roadmap : roadmap[i] > 0
    BY DEF ContentInv, ContentTypeOK
  <2>5. \A i \in DOMAIN roadmap' : roadmap'[i] > 0
    BY <1>2, <2>2, <2>3, <2>4
  <2>6. Len(roadmap') <= MaxRoadmap
    BY <1>2, <2>1, <2>3
  <2>7. LedgerTypeOK'
    BY <2>1 DEF SignedBy, ContentInv, LedgerTypeOK, ContentTypeOK
  <2>8. ContentTypeOK'
    BY <2>1, <2>5, <2>6 DEF ContentInv, ContentTypeOK
  <2> QED  BY <1>1, <2>3, <2>7, <2>8 DEF ContentInv
<1>6. ASSUME NEW m \in Milestones, AddStretchGoal(m) PROVE ContentInv'
  <2>1. /\ author # None /\ Len(stretch) < MaxStretch
        /\ stretch' = Append(stretch, m) /\ m \in Int
        /\ SignedBy(author) /\ UNCHANGED <<author, text, roadmap, raised, taking>>
    BY <1>6, ContentAssumption DEF AddStretchGoal, RoomForGoal
  <2>2. Len(stretch') = Len(stretch) + 1
    BY <1>2, <2>1
  <2>3. Len(stretch') <= MaxStretch
    BY <1>2, <2>1, <2>2
  <2>4. LedgerTypeOK'
    BY <2>1 DEF SignedBy, ContentInv, LedgerTypeOK, ContentTypeOK
  <2> QED  BY <1>1, <2>1, <2>3, <2>4 DEF ContentInv, ContentTypeOK
<1>7. CASE CampaignMoves
  <2>1. /\ raised' \in 0..MaxRaised /\ taking' \in BOOLEAN /\ Unsigned
        /\ UNCHANGED <<author, text, roadmap, stretch>>
    BY <1>7 DEF CampaignMoves, ContentInv, ContentTypeOK
  <2> QED  BY <1>1, <2>1 DEF Unsigned, ContentInv, LedgerTypeOK, ContentTypeOK
<1>8. CASE Tick /\ UNCHANGED contentVars
  <2>1. now' \in 0..MaxTime /\ signer' = None
    BY <1>2, <1>8 DEF Tick, ContentInv, LedgerTypeOK
  <2> QED  BY <1>1, <1>8, <2>1 DEF contentVars, ContentInv, LedgerTypeOK, ContentTypeOK
<1>9. CASE UNCHANGED <<ledgerVars, contentVars>>
  BY <1>1, <1>9 DEF ledgerVars, contentVars, ContentInv, LedgerTypeOK, ContentTypeOK
<1> QED  BY <1>3, <1>4, <1>5, <1>6, <1>7, <1>8, <1>9 DEF ContentNext

\* Every stored text and list stays within its limit, and no roadmap item was
\* dated at or before the clock of its time, for any limits.
THEOREM ContentAlwaysFits == ContentSpec => []ContentTypeOK
<1>1. ContentInv => ContentTypeOK
  BY DEF ContentInv
<1> QED  BY <1>1, ContentStart, ContentStep, PTL DEF ContentSpec

-----------------------------------------------------------------------------
(* Data chunks and their checksums.                                        *)

\* The shifts of a word, one bit at a time.
LEMMA ShiftsSteps ==
  ASSUME NEW x \in Nat
  PROVE  /\ \A n \in 0..WordBits : Shifts(x)[n] \in Nat
         /\ Shifts(x)[0] = x
         /\ \A n \in 1..WordBits : Shifts(x)[n] = Shifts(x)[n-1] \div 2
<1> DEFINE Eq(g) == g = [n \in 0..WordBits |-> IF n = 0 THEN x ELSE g[n-1] \div 2]
           p == CHOOSE g : Eq(g)
           turn == [q \in Nat \X (1..WordBits) |-> q[1] \div 2]
           T == {n \in 0..WordBits : p[n] \in Nat}
<1>1. WordBits \in Nat
  BY ChunksAssumption
<1>2. Shifts(x) = p
  BY DEF Shifts
<1>3. \E g \in [0..WordBits -> Nat] : Eq(g)
  <2>1. turn \in [Nat \X (1..WordBits) -> Nat]
    OBVIOUS
  <2>2. \A v \in Nat, n \in 1..WordBits : turn[<<v, n>>] = v \div 2
    OBVIOUS
  <2> HIDE DEF turn
  <2>3. PICK g \in [0..WordBits -> Nat] :
          g[0] = x /\ \A n \in 1..WordBits : g[n] = turn[<<g[n-1], n>>]
    BY <1>1, <2>1, RunExists, ZenonT(30)
  <2>4. \A n \in 0..WordBits : g[n] = IF n = 0 THEN x ELSE g[n-1] \div 2
    <3> SUFFICES ASSUME NEW n \in 0..WordBits
                 PROVE  g[n] = IF n = 0 THEN x ELSE g[n-1] \div 2
      OBVIOUS
    <3>1. CASE n = 0
      BY <2>3, <3>1
    <3>2. CASE n \in 1..WordBits
      <4>1. g[n] = turn[<<g[n-1], n>>] /\ g[n-1] \in Nat
        BY <1>1, <2>3, <3>2
      <4> QED  BY <2>2, <3>2, <4>1
    <3> QED  BY <1>1, <3>1, <3>2
  <2> QED  BY <2>4
<1>4. Eq(p)
  <2> HIDE DEF Eq
  <2> QED  BY <1>3
<1> HIDE DEF p
<1>5. p[0] = x /\ \A n \in 1..WordBits : p[n] = p[n-1] \div 2
  BY <1>1, <1>4
<1>6. 0 \in T
  BY <1>1, <1>5
<1>7. ASSUME NEW n \in 1..WordBits, n - 1 \in T PROVE n \in T
  BY <1>1, <1>5, <1>7
<1>8. \A n \in 0..WordBits : n \in T
  <2> HIDE DEF T
  <2> QED  BY <1>1, <1>6, <1>7, RangeInduction
<1> QED  BY <1>2, <1>5, <1>8

\* What is at most a number that fits a word fits one too.
LEMMA FitsWord ==
  ASSUME NEW x \in Nat, NEW y \in Nat, x <= y, Shifts(y)[WordBits] = 0
  PROVE  Shifts(x)[WordBits] = 0
<1> DEFINE s == Shifts(x)  t == Shifts(y)
           T == {n \in 0..WordBits : s[n] <= t[n]}
<1>1. /\ WordBits \in Nat /\ s[0] = x /\ t[0] = y /\ t[WordBits] = 0
      /\ \A n \in 0..WordBits : s[n] \in Nat /\ t[n] \in Nat
      /\ \A n \in 1..WordBits : s[n] = s[n-1] \div 2 /\ t[n] = t[n-1] \div 2
  BY ChunksAssumption, ShiftsSteps
<1> HIDE DEF s, t
<1>2. 0 \in T
  BY <1>1
<1>3. ASSUME NEW n \in 1..WordBits, n - 1 \in T PROVE n \in T
  <2>1. s[n-1] \in Nat /\ t[n-1] \in Nat /\ s[n-1] <= t[n-1]
    BY <1>1, <1>3
  <2>2. s[n-1] \div 2 <= t[n-1] \div 2
    BY <2>1
  <2> QED  BY <1>1, <2>2
<1>4. WordBits \in T
  <2> HIDE DEF T
  <2>1. \A n \in 0..WordBits : n \in T
    BY <1>1, <1>2, <1>3, RangeInduction
  <2> QED  BY <1>1, <2>1
<1>5. s[WordBits] <= t[WordBits] /\ s[WordBits] \in Nat
  BY <1>1, <1>4
<1> QED  BY <1>1, <1>5 DEF s

\* The bits of the exclusive or, from the highest down.
LEMMA XorSteps ==
  ASSUME NEW x \in Nat, NEW y \in Nat
  PROVE  \E b \in [0..WordBits -> Nat] :
           /\ b[0] = 0 /\ Xor(x, y) = b[WordBits]
           /\ \A n \in 1..WordBits :
                b[n] = (2 * b[n-1])
                         + ((Shifts(x)[WordBits - n] + Shifts(y)[WordBits - n]) % 2)
<1> DEFINE r(n) == (Shifts(x)[WordBits - n] + Shifts(y)[WordBits - n]) % 2
           Eq(g) == g = [n \in 0..WordBits |-> IF n = 0 THEN 0 ELSE (2 * g[n-1]) + r(n)]
           p == CHOOSE g : Eq(g)
           turn == [q \in Nat \X (1..WordBits) |-> (2 * q[1]) + r(q[2])]
           T == {n \in 0..WordBits : p[n] \in Nat}
<1>1. WordBits \in Nat
  BY ChunksAssumption
<1>2. Xor(x, y) = p[WordBits]
  BY DEF Xor
<1>3. \A n \in 1..WordBits : r(n) \in Nat
  <2> SUFFICES ASSUME NEW n \in 1..WordBits PROVE r(n) \in Nat
    OBVIOUS
  <2>1. WordBits - n \in 0..WordBits
    BY <1>1
  <2>2. Shifts(x)[WordBits - n] \in Nat /\ Shifts(y)[WordBits - n] \in Nat
    BY <2>1, ShiftsSteps
  <2> QED  BY <2>2
<1> HIDE DEF r
<1>4. \E g \in [0..WordBits -> Nat] : Eq(g)
  <2>1. \A q \in Nat \X (1..WordBits) : (2 * q[1]) + r(q[2]) \in Nat
    BY <1>3
  <2>2. turn \in [Nat \X (1..WordBits) -> Nat]
    BY <2>1
  <2>3. \A v \in Nat, n \in 1..WordBits : turn[<<v, n>>] = (2 * v) + r(n)
    OBVIOUS
  <2> HIDE DEF turn
  <2>4. PICK g \in [0..WordBits -> Nat] :
          g[0] = 0 /\ \A n \in 1..WordBits : g[n] = turn[<<g[n-1], n>>]
    <3>1. ASSUME NEW v \in Nat
          PROVE  \E g \in [0..WordBits -> Nat] :
                    g[0] = v /\ \A n \in 1..WordBits : g[n] = turn[<<g[n-1], n>>]
      <4>1. v \in Nat
        OBVIOUS
      <4> HIDE DEF Eq, p, T
      <4> QED  BY <1>1, <2>2, <4>1, RunExists, ZenonT(30)
    <3> QED  BY <3>1
  <2>5. \A n \in 0..WordBits : g[n] = IF n = 0 THEN 0 ELSE (2 * g[n-1]) + r(n)
    <3> SUFFICES ASSUME NEW n \in 0..WordBits
                 PROVE  g[n] = IF n = 0 THEN 0 ELSE (2 * g[n-1]) + r(n)
      OBVIOUS
    <3>1. CASE n = 0
      BY <2>4, <3>1
    <3>2. CASE n \in 1..WordBits
      <4>1. g[n] = turn[<<g[n-1], n>>] /\ g[n-1] \in Nat
        BY <1>1, <2>4, <3>2
      <4> QED  BY <2>3, <3>2, <4>1
    <3> QED  BY <1>1, <3>1, <3>2
  <2> QED  BY <2>5
<1>5. Eq(p)
  <2> HIDE DEF Eq
  <2> QED  BY <1>4
<1> HIDE DEF p
<1>6. p[0] = 0 /\ \A n \in 1..WordBits : p[n] = (2 * p[n-1]) + r(n)
  BY <1>1, <1>5
<1>7. 0 \in T
  BY <1>1, <1>6
<1>8. ASSUME NEW n \in 1..WordBits, n - 1 \in T PROVE n \in T
  BY <1>1, <1>3, <1>6, <1>8
<1>9. \A n \in 0..WordBits : p[n] \in Nat
  <2>1. \A n \in 0..WordBits : n \in T
    <3> HIDE DEF T
    <3> QED  BY <1>1, <1>7, <1>8, RangeInduction
  <2> QED  BY <2>1
<1>10. p \in [0..WordBits -> Nat]
  <2>1. p = [n \in 0..WordBits |-> IF n = 0 THEN 0 ELSE (2 * p[n-1]) + r(n)]
    BY <1>5
  <2>2. DOMAIN p = 0..WordBits /\ p = [n \in DOMAIN p |-> p[n]]
    BY <2>1, Zenon
  <2> QED  BY <1>9, <2>2
<1> QED  BY <1>2, <1>6, <1>10 DEF r

\* The bits of a number that was put together from bits are those bits.
LEMMA ShiftsOfBits ==
  ASSUME NEW b \in [0..WordBits -> Nat], b[0] = 0, NEW r \in [1..WordBits -> {0, 1}],
         \A n \in 1..WordBits : b[n] = (2 * b[n-1]) + r[n]
  PROVE  \A n \in 0..WordBits : Shifts(b[WordBits])[n] = b[WordBits - n]
<1> DEFINE z == b[WordBits]
           s == Shifts(z)
           T == {n \in 0..WordBits : s[n] = b[WordBits - n]}
<1>1. WordBits \in Nat /\ z \in Nat
  BY ChunksAssumption
<1>2. s[0] = z /\ \A n \in 1..WordBits : s[n] = s[n-1] \div 2
  BY <1>1, ShiftsSteps
<1>3. 0 \in T
  BY <1>1, <1>2
<1> HIDE DEF s
<1>4. ASSUME NEW n \in 1..WordBits, n - 1 \in T PROVE n \in T
  <2> DEFINE k == WordBits - (n - 1)
  <2>1. k \in 1..WordBits /\ k - 1 = WordBits - n /\ k - 1 \in 0..WordBits
    BY <1>1
  <2>2. s[n-1] = b[k]
    BY <1>4
  <2>3. b[k] = (2 * b[k-1]) + r[k] /\ r[k] \in {0, 1} /\ b[k-1] \in Nat
    BY <2>1
  <2>4. s[n] = b[k] \div 2
    BY <1>2, <2>2
  <2> HIDE DEF k
  <2>5. b[k] \div 2 = b[k-1]
    <3>1. \A q \in Nat : ((2 * q) + 0) \div 2 = q /\ ((2 * q) + 1) \div 2 = q
      OBVIOUS
    <3> DEFINE q == b[k-1]  e == r[k]
    <3>2. b[k] = (2 * q) + e /\ e \in {0, 1} /\ q \in Nat
      BY <2>3
    <3> HIDE DEF q, e
    <3>3. b[k] \div 2 = q
      BY <3>1, <3>2
    <3> QED  BY <3>3 DEF q
  <2> QED  BY <2>1, <2>4, <2>5
<1>5. \A n \in 0..WordBits : n \in T
  <2> HIDE DEF T
  <2> QED  BY <1>1, <1>3, <1>4, RangeInduction
<1> QED  BY <1>5 DEF s

\* The exclusive or with one number undoes itself: a checksum of the size and
\* the index gives the size back to whoever knows the index.
LEMMA XorBack ==
  ASSUME NEW x \in Nat, NEW y \in Nat, Shifts(x)[WordBits] = 0
  PROVE  Xor(x, y) \in Nat /\ Xor(Xor(x, y), y) = x
<1> DEFINE z == Xor(x, y)
           s == Shifts(x)  t == Shifts(y)  u == Shifts(z)
           r == [n \in 1..WordBits |-> (s[WordBits - n] + t[WordBits - n]) % 2]
<1>1. /\ WordBits \in Nat /\ s[0] = x /\ s[WordBits] = 0
      /\ \A n \in 0..WordBits : s[n] \in Nat /\ t[n] \in Nat
      /\ \A n \in 1..WordBits : s[n] = s[n-1] \div 2
  BY ChunksAssumption, ShiftsSteps
<1>2. PICK b \in [0..WordBits -> Nat] :
        /\ b[0] = 0 /\ z = b[WordBits]
        /\ \A n \in 1..WordBits : b[n] = (2 * b[n-1]) + ((s[WordBits - n] + t[WordBits - n]) % 2)
  BY XorSteps
<1> HIDE DEF s, t
<1>3. z \in Nat
  BY <1>1, <1>2
<1>4. PICK c \in [0..WordBits -> Nat] :
        /\ c[0] = 0 /\ Xor(z, y) = c[WordBits]
        /\ \A n \in 1..WordBits : c[n] = (2 * c[n-1]) + ((u[WordBits - n] + t[WordBits - n]) % 2)
  BY <1>3, XorSteps DEF t
<1>5. /\ r \in [1..WordBits -> {0, 1}]
      /\ \A n \in 1..WordBits : b[n] = (2 * b[n-1]) + r[n]
  <2> SUFFICES ASSUME NEW n \in 1..WordBits
               PROVE  r[n] \in {0, 1} /\ b[n] = (2 * b[n-1]) + r[n]
    OBVIOUS
  <2>1. WordBits - n \in 0..WordBits
    BY <1>1
  <2>2. s[WordBits - n] \in Nat /\ t[WordBits - n] \in Nat
    BY <1>1, <2>1
  <2>3. (s[WordBits - n] + t[WordBits - n]) % 2 \in {0, 1}
    BY <2>2
  <2> QED  BY <1>2, <2>3
<1>6. \A n \in 0..WordBits : u[n] = b[WordBits - n]
  <2> HIDE DEF r, z
  <2>1. \A n \in 0..WordBits : Shifts(b[WordBits])[n] = b[WordBits - n]
    BY <1>2, <1>5, ShiftsOfBits
  <2> QED  BY <1>2, <2>1
<1> HIDE DEF u, z, r
<1> DEFINE T == {n \in 0..WordBits : c[n] = s[WordBits - n]}
<1>7. 0 \in T
  BY <1>1, <1>4
<1>8. ASSUME NEW n \in 1..WordBits, n - 1 \in T PROVE n \in T
  <2> DEFINE k == WordBits - n
  <2>1. k \in 0..(WordBits - 1) /\ k + 1 \in 1..WordBits /\ (k + 1) - 1 = k
        /\ WordBits - (n - 1) = k + 1 /\ WordBits - k = n /\ n - 1 \in 0..WordBits
        /\ k \in 0..WordBits
    BY <1>1
  <2>2. s[k] \in Nat /\ t[k] \in Nat /\ s[k+1] = s[k] \div 2
    BY <1>1, <2>1
  <2>3. u[k] = b[n]
    BY <1>6, <2>1
  <2>4. c[n - 1] = s[k + 1]
    BY <1>8, <2>1
  <2>5. c[n] = (2 * c[n-1]) + ((b[n] + t[k]) % 2)
    BY <1>4, <2>3
  <2>6. b[n] = (2 * b[n-1]) + ((s[k] + t[k]) % 2) /\ b[n-1] \in Nat
    BY <1>2, <2>1
  <2> HIDE DEF k
  <2> DEFINE q == b[n-1]  v == s[k]  w == t[k]
  <2>7. q \in Nat /\ v \in Nat /\ w \in Nat
    BY <2>2, <2>6
  <2>8. (b[n] + w) % 2 = v % 2
    <3>1. b[n] = (2 * q) + ((v + w) % 2)
      BY <2>6
    <3> HIDE DEF q, v, w
    <3>2. (((2 * q) + ((v + w) % 2)) + w) % 2 = v % 2
      BY <2>7
    <3> QED  BY <3>1, <3>2
  <2>9. c[n] = (2 * (v \div 2)) + (v % 2)
    BY <2>2, <2>4, <2>5, <2>8
  <2> HIDE DEF q, v, w
  <2>10. c[n] = v
    BY <2>7, <2>9
  <2> QED  BY <2>10 DEF v, k
<1>9. WordBits \in T
  <2> HIDE DEF T
  <2>1. \A n \in 0..WordBits : n \in T
    BY <1>1, <1>7, <1>8, RangeInduction
  <2> QED  BY <1>1, <2>1
<1>10. c[WordBits] = x
  BY <1>1, <1>9
<1> QED  BY <1>3, <1>4, <1>10 DEF z

\* Each slot in use holds the chunk of its index, as store_chunk built it.
ChunksInv ==
  /\ \A k \in DOMAIN chunks :
       /\ chunks[k] \in DataChunk /\ k = ChunkKey(chunks[k].index)
       /\ chunks[k].index \in 0..MaxChunks - 1 /\ chunks[k].size <= MaxChunkSize
       /\ chunks[k].checksum = Xor(chunks[k].size, chunks[k].index)
  /\ announced = {chunks[k] : k \in DOMAIN chunks}

LEMMA ChunksStart == ChunksInit => ChunksInv
BY DEF ChunksInit, ChunksInv

\* The checksum of a chunk that is small enough is a number, and gives its size
\* back.
LEMMA ChecksumType ==
  ASSUME NEW size \in Nat, size <= MaxChunkSize, NEW index \in Nat
  PROVE  Xor(size, index) \in Nat /\ Xor(Xor(size, index), index) = size
<1>1. MaxChunkSize \in Nat /\ Shifts(MaxChunkSize)[WordBits] = 0
  BY ChunksAssumption, WordAssumption
<1>2. Shifts(size)[WordBits] = 0
  BY <1>1, FitsWord
<1> QED  BY <1>2, XorBack

LEMMA StoreKeeps ==
  ASSUME ChunksInv, NEW i \in 0..MaxChunks, NEW size \in ChunkSizes, StoreChunk(i, size)
  PROVE  ChunksInv'
<1> DEFINE chunk == [index |-> i, size |-> size, checksum |-> Xor(size, i)]
           key == ChunkKey(i)
<1>1. /\ i \in Nat /\ i \in 0..MaxChunks - 1 /\ size \in Nat /\ size <= MaxChunkSize
      /\ DOMAIN chunks' = DOMAIN chunks \cup {key}
      /\ \A k \in DOMAIN chunks' : chunks'[k] = IF k = key THEN chunk ELSE chunks[k]
      /\ announced' = {c \in announced : c.index # i} \cup {chunk}
  BY ChunksAssumption DEF StoreChunk
<1>2. /\ chunk \in DataChunk /\ chunk.index = i /\ chunk.size = size
      /\ chunk.checksum = Xor(size, i) /\ chunk.index \in 0..MaxChunks - 1
  BY <1>1, ChecksumType DEF DataChunk
<1> HIDE DEF chunk
<1>3. \A k \in DOMAIN chunks : k = key <=> chunks[k].index = i
  BY DEF ChunksInv, ChunkKey
<1>4. \A k \in DOMAIN chunks' :
        /\ chunks'[k] \in DataChunk /\ k = ChunkKey(chunks'[k].index)
        /\ chunks'[k].index \in 0..MaxChunks - 1 /\ chunks'[k].size <= MaxChunkSize
        /\ chunks'[k].checksum = Xor(chunks'[k].size, chunks'[k].index)
  <2> SUFFICES ASSUME NEW k \in DOMAIN chunks'
               PROVE  /\ chunks'[k] \in DataChunk /\ k = ChunkKey(chunks'[k].index)
                      /\ chunks'[k].index \in 0..MaxChunks - 1
                      /\ chunks'[k].size <= MaxChunkSize
                      /\ chunks'[k].checksum = Xor(chunks'[k].size, chunks'[k].index)
    OBVIOUS
  <2>1. CASE k = key
    <3>1. chunks'[k] = chunk
      BY <1>1, <2>1
    <3> QED  BY <1>1, <1>2, <2>1, <3>1
  <2>2. CASE k # key
    <3>1. chunks'[k] = chunks[k] /\ k \in DOMAIN chunks
      BY <1>1, <2>2
    <3> QED  BY <3>1 DEF ChunksInv
  <2> QED  BY <2>1, <2>2
<1> HIDE DEF key
<1>5. announced' = {chunks'[k] : k \in DOMAIN chunks'}
  <2>1. ASSUME NEW c \in announced' PROVE \E k \in DOMAIN chunks' : c = chunks'[k]
    <3>1. CASE c = chunk
      BY <1>1, <3>1
    <3>2. CASE c # chunk
      <4>1. c \in announced /\ c.index # i
        BY <1>1, <2>1, <3>2
      <4>2. PICK k \in DOMAIN chunks : c = chunks[k]
        BY <4>1 DEF ChunksInv
      <4>3. k # key /\ k \in DOMAIN chunks'
        BY <1>1, <1>3, <4>1, <4>2
      <4> QED  BY <1>1, <4>2, <4>3
    <3> QED  BY <3>1, <3>2
  <2>2. ASSUME NEW k \in DOMAIN chunks' PROVE chunks'[k] \in announced'
    <3>1. CASE k = key
      BY <1>1, <3>1
    <3>2. CASE k # key
      <4>1. k \in DOMAIN chunks /\ chunks'[k] = chunks[k] /\ chunks[k].index # i
        BY <1>1, <1>3, <3>2
      <4>2. chunks[k] \in announced
        BY <4>1 DEF ChunksInv
      <4> QED  BY <1>1, <4>1, <4>2
    <3> QED  BY <3>1, <3>2
  <2> QED  BY <2>1, <2>2
<1> QED  BY <1>4, <1>5 DEF ChunksInv

LEMMA ChunksStep == ChunksInv /\ [ChunksNext]_chunksVars => ChunksInv'
<1> SUFFICES ASSUME ChunksInv, [ChunksNext]_chunksVars PROVE ChunksInv'
  OBVIOUS
<1>1. CASE UNCHANGED chunksVars
  BY <1>1 DEF chunksVars, ChunksInv
<1>2. CASE ClearChunks
  <2>1. DOMAIN chunks' = DOMAIN chunks \ ChunkKeys /\ announced' = {}
    BY <1>2 DEF ClearChunks
  <2>2. \A k \in DOMAIN chunks : k \in ChunkKeys
    BY DEF ChunksInv, ChunkKeys
  <2>3. DOMAIN chunks' = {}
    BY <2>1, <2>2
  <2> QED  BY <2>1, <2>3 DEF ChunksInv
<1> QED  BY <1>1, <1>2, StoreKeeps DEF ChunksNext

\* chunk_count counts the chunks that were announced.
LEMMA ChunksCounted ==
  ASSUME ChunksInv
  PROVE  ChunkCount = Cardinality(announced) /\ ChunkCount <= MaxChunks
<1> DEFINE n == MaxChunks - 1
           H == {i \in 0..n : HasChunk(i)}
           f == [i \in H |-> chunks[ChunkKey(i)]]
<1>1. MaxChunks \in Nat /\ n \in Int
  BY ChunksAssumption
<1>2. IsFiniteSet(0..n) /\ Cardinality(0..n) = MaxChunks
  <2>1. CASE MaxChunks = 0
    <3>1. 0..n = {}
      BY <2>1
    <3> QED  BY <2>1, <3>1, FS_EmptySet
  <2>2. CASE MaxChunks # 0
    <3>1. 0 \in Int /\ n \in Int /\ n - 0 + 1 = MaxChunks /\ ~(0 > n)
      BY <1>1, <2>2
    <3> HIDE DEF n
    <3> QED  BY <3>1, FS_Interval
  <2> QED  BY <2>1, <2>2
<1>3. IsFiniteSet(H) /\ Cardinality(H) <= MaxChunks
  <2>1. H \in SUBSET (0..n)
    OBVIOUS
  <2> HIDE DEF H
  <2> QED  BY <1>2, <2>1, FS_Subset
<1>4. \A i \in H : ChunkKey(i) \in DOMAIN chunks
  BY DEF HasChunk
<1>5. \A i \in H : chunks[ChunkKey(i)].index = i /\ chunks[ChunkKey(i)] \in announced
  BY <1>4 DEF ChunksInv, ChunkKey
<1>6. \A c \in announced : c.index \in H /\ chunks[ChunkKey(c.index)] = c
  <2> SUFFICES ASSUME NEW c \in announced
               PROVE  c.index \in H /\ chunks[ChunkKey(c.index)] = c
    OBVIOUS
  <2>1. PICK k \in DOMAIN chunks : c = chunks[k]
    BY DEF ChunksInv
  <2>2. k = ChunkKey(c.index) /\ c.index \in 0..n
    BY <2>1 DEF ChunksInv
  <2>3. c.index < MaxChunks
    BY <1>1, <2>2
  <2> QED  BY <2>1, <2>2, <2>3 DEF HasChunk
<1> HIDE DEF H, n
<1>7. f \in Bijection(H, announced)
  <2>1. f \in Injection(H, announced)
    BY <1>5 DEF Injection, IsInjective
  <2>2. f \in Surjection(H, announced)
    BY <1>5, <1>6 DEF Surjection
  <2> QED  BY <2>1, <2>2 DEF Bijection
<1>8. Cardinality(H) = Cardinality(announced)
  <2>1. ExistsBijection(H, announced)
    BY <1>7 DEF ExistsBijection
  <2> QED  BY <1>3, <2>1, FS_Bijection
<1> QED  BY <1>3, <1>8 DEF ChunkCount, H, n

LEMMA ChunksMeaning == ChunksInv => ChunksTypeOK
<1> SUFFICES ASSUME ChunksInv PROVE ChunksTypeOK
  OBVIOUS
<1>1. announced = {chunks[k] : k \in DOMAIN chunks} /\ announced \subseteq DataChunk
  BY DEF ChunksInv
<1>2. ASSUME NEW c \in announced
      PROVE  c.size <= MaxChunkSize /\ Xor(c.checksum, c.index) = c.size
  <2>1. PICK k \in DOMAIN chunks : c = chunks[k]
    BY DEF ChunksInv
  <2>2. /\ c.size \in Nat /\ c.index \in Nat /\ c.size <= MaxChunkSize
        /\ c.checksum = Xor(c.size, c.index)
    BY <2>1 DEF ChunksInv, DataChunk
  <2> QED  BY <2>2, ChecksumType
<1> QED  BY <1>1, <1>2, ChunksCounted DEF ChunksTypeOK

\* The slots hold what store_chunk announced, one chunk per index, and from
\* each checksum the index gives the size back, for any capacity, sizes and
\* width of the words.
THEOREM ChunksAlwaysWhole == ChunksSpec => []ChunksTypeOK
BY ChunksStart, ChunksStep, ChunksMeaning, PTL DEF ChunksSpec
-----------------------------------------------------------------------------
(* The books of a batch: optimistic, and of the factory.                   *)

\* SumUpdate for balances.
LEMMA AddressSum ==
  ASSUME NEW u \in [Addresses -> Int], NEW v \in [Addresses -> Int],
         NEW a \in Addresses, \A d \in Addresses : d # a => v[d] = u[d]
  PROVE  Sum(v, Addresses) = Sum(u, Addresses) + v[a] - u[a]
<1>1. IsFiniteSet(Addresses)
  BY BatchAssumption
<1>2. \A d \in Addresses : /\ u[d] \in Int /\ v[d] \in Int
                           /\ d # a => v[d] = u[d]
  OBVIOUS
<1> QED  BY <1>1, <1>2, SumUpdate

\* The next round, on the balances s.
Round(batch, s, n) ==
  [s EXCEPT ![batch[n].contributor] = @ + batch[n].amount]

\* g holds the balances after each of the first k rounds.
RoundsTo(bal, batch, g, k) ==
  g[0] = bal /\ \A n \in 1..k : g[n] = Round(batch, g[n-1], n)

LEMMA EntryType ==
  ASSUME NEW batch \in Seq(Entry), NEW n \in 1..Len(batch)
  PROVE  batch[n].contributor \in Addresses /\ batch[n].amount \in Int
<1>1. batch[n] \in Entry  OBVIOUS
<1> QED  BY <1>1, BatchAssumption DEF Entry

LEMMA RoundType ==
  ASSUME NEW batch \in Seq(Entry), NEW n \in 1..Len(batch),
         NEW s \in [Addresses -> Int]
  PROVE  Round(batch, s, n) \in [Addresses -> Int]
BY EntryType DEF Round

\* The loop can be run for any number of rounds.
LEMMA RoundsExist ==
  ASSUME NEW bal \in [Addresses -> Int], NEW batch \in Seq(Entry)
  PROVE  \E g \in [0..Len(batch) -> [Addresses -> Int]] :
           RoundsTo(bal, batch, g, Len(batch))
<1> DEFINE B == [Addresses -> Int]
<1> DEFINE T == {k \in Nat : k <= Len(batch) =>
                               \E g \in [0..k -> B] : RoundsTo(bal, batch, g, k)}
<1>0. Len(batch) \in Nat /\ bal \in B  OBVIOUS
<1>1. 0 \in T
  <2> DEFINE z == [i \in 0..0 |-> bal]
  <2>1. z \in [0..0 -> B] /\ z[0] = bal  OBVIOUS
  <2>2. RoundsTo(bal, batch, z, 0)  BY <2>1 DEF RoundsTo
  <2> QED  BY <2>1, <2>2
<1>2. ASSUME NEW k \in T PROVE k+1 \in T
  <2>0. k \in Nat /\ (k <= Len(batch) =>
                        \E g \in [0..k -> B] : RoundsTo(bal, batch, g, k))
    OBVIOUS
  <2>1. SUFFICES ASSUME k+1 <= Len(batch)
                 PROVE  \E g \in [0..(k+1) -> B] : RoundsTo(bal, batch, g, k+1)
    <3> HIDE DEF B
    <3> QED  BY <2>0
  <2>2. PICK h \in [0..k -> B] : RoundsTo(bal, batch, h, k)
    BY <1>0, <2>0, <2>1
  <2> DEFINE t == Round(batch, h[k], k+1)
  <2> DEFINE g == [i \in 0..(k+1) |-> IF i <= k THEN h[i] ELSE t]
  <2>3. t \in B
    <3>1. k+1 \in 1..Len(batch) /\ h[k] \in B  BY <1>0, <2>0, <2>1, <2>2
    <3> QED  BY <3>1, RoundType
  <2> HIDE DEF t, B
  <2>4. g \in [0..(k+1) -> B]
    BY <2>0, <2>2, <2>3
  <2>5. g[0] = bal
    BY <2>0, <2>2 DEF RoundsTo
  <2>6. ASSUME NEW n \in 1..(k+1)
        PROVE  g[n] = Round(batch, g[n-1], n)
    <3>1. CASE n \in 1..k
      <4>1. g[n] = h[n] /\ g[n-1] = h[n-1]  BY <3>1, <2>0
      <4> QED  BY <4>1, <3>1, <2>2 DEF RoundsTo
    <3>2. CASE n = k+1
      <4>1. g[n] = t /\ g[n-1] = h[k]  BY <3>2, <2>0
      <4> QED  BY <4>1, <3>2 DEF t
    <3> QED  BY <3>1, <3>2, <2>0
  <2> HIDE DEF g
  <2> QED  BY <2>4, <2>5, <2>6 DEF RoundsTo
<1>3. Len(batch) \in T
  <2>1. T \subseteq Nat  OBVIOUS
  <2> HIDE DEF T
  <2> QED  BY <1>0, <1>1, <1>2, <2>1, SetInduction
<1> QED  BY <1>3

\* Rounds is the loop.
LEMMA RoundsStep ==
  ASSUME NEW bal \in [Addresses -> Int], NEW batch \in Seq(Entry)
  PROVE  /\ RoundsTo(bal, batch, Rounds(bal, batch), Len(batch))
         /\ Rounds(bal, batch) \in [0..Len(batch) -> [Addresses -> Int]]
<1> DEFINE b(g, n) == IF n = 0 THEN bal
                      ELSE [g[n-1] EXCEPT ![batch[n].contributor] = @ + batch[n].amount]
<1> DEFINE Eq(g) == g = [n \in 0..Len(batch) |-> b(g, n)]
<1> DEFINE p == Rounds(bal, batch)
<1>0. Len(batch) \in Nat  OBVIOUS
<1>1. p = CHOOSE g : Eq(g)
  BY DEF Rounds
<1>2. PICK g \in [0..Len(batch) -> [Addresses -> Int]] :
           RoundsTo(bal, batch, g, Len(batch))
  BY RoundsExist
<1>3. Eq(g)
  <2>1. ASSUME NEW n \in 0..Len(batch) PROVE g[n] = b(g, n)
    <3>1. CASE n = 0
      <4>1. b(g, n) = bal  BY <3>1
      <4>2. g[n] = bal  BY <3>1, <1>2 DEF RoundsTo
      <4> QED  BY <4>1, <4>2
    <3>2. CASE n # 0
      <4>1. n \in 1..Len(batch)  BY <1>0, <3>2
      <4>2. g[n] = Round(batch, g[n-1], n)  BY <4>1, <1>2 DEF RoundsTo
      <4>3. b(g, n) = Round(batch, g[n-1], n)  BY <3>2, Zenon DEF Round
      <4> QED  BY <4>2, <4>3
    <3> QED  BY <3>1, <3>2
  <2>2. g = [n \in 0..Len(batch) |-> g[n]]
    BY <1>2
  <2> HIDE DEF b
  <2>3. [n \in 0..Len(batch) |-> g[n]] = [n \in 0..Len(batch) |-> b(g, n)]
    BY <2>1
  <2> QED  BY <2>2, <2>3
<1> HIDE DEF p
<1>4. Eq(p)
  <2> HIDE DEF Eq
  <2> QED  BY <1>1, <1>3
<1>5. \A n \in 0..Len(batch) : p[n] = b(p, n)
  <2> HIDE DEF b
  <2> QED  BY <1>4
<1>6. p[0] = bal
  <2>1. p[0] = b(p, 0)
    <3> HIDE DEF b
    <3> QED  BY <1>0, <1>5
  <2>2. b(p, 0) = bal  OBVIOUS
  <2> HIDE DEF b
  <2> QED  BY <2>1, <2>2
<1>7. ASSUME NEW n \in 1..Len(batch) PROVE p[n] = Round(batch, p[n-1], n)
  <2>1. p[n] = b(p, n) /\ n # 0
    <3> HIDE DEF b
    <3> QED  BY <1>0, <1>5
  <2>2. b(p, n) = Round(batch, p[n-1], n)
    BY <2>1, Zenon DEF Round
  <2> HIDE DEF b
  <2> QED  BY <2>1, <2>2
<1>8. RoundsTo(bal, batch, p, Len(batch))
  BY <1>6, <1>7 DEF RoundsTo
<1>9. \A n \in 0..Len(batch) : p[n] \in [Addresses -> Int]
  <2> DEFINE T == {n \in Nat : n <= Len(batch) => p[n] \in [Addresses -> Int]}
  <2>1. 0 \in T  BY <1>6
  <2>2. ASSUME NEW k \in T PROVE k+1 \in T
    <3>0. k \in Nat  OBVIOUS
    <3>1. SUFFICES ASSUME k+1 <= Len(batch) PROVE p[k+1] \in [Addresses -> Int]
      BY <3>0
    <3>2. p[k] \in [Addresses -> Int] /\ k+1 \in 1..Len(batch)
      BY <1>0, <3>0, <3>1
    <3>3. p[k+1] = Round(batch, p[k], k+1)
      <4>1. (k+1) - 1 = k  BY <3>0
      <4>2. p[k+1] = Round(batch, p[(k+1)-1], k+1)  BY <1>7, <3>2
      <4> QED  BY <4>1, <4>2
    <3> QED  BY <3>2, <3>3, RoundType
  <2>3. T \subseteq Nat  OBVIOUS
  <2> HIDE DEF T
  <2>4. T = Nat  BY <2>1, <2>2, <2>3, SetInduction
  <2> QED  BY <1>0, <2>4 DEF T
<1>10. p = [n \in 0..Len(batch) |-> p[n]]
  <2> HIDE DEF b
  <2> QED  BY <1>4
<1> QED  BY <1>8, <1>9, <1>10 DEF p

\* A batch raises the balances by its total, however often it names somebody.
LEMMA AppliedSum ==
  ASSUME NEW bal \in [Addresses -> Int], NEW batch \in Seq(Entry)
  PROVE  /\ Applied(bal, batch) \in [Addresses -> Int]
         /\ TotalDelta(batch) \in Int
         /\ Sum(Applied(bal, batch), Addresses) =
              Sum(bal, Addresses) + TotalDelta(batch)
<1> DEFINE m == Len(batch)
<1> DEFINE d == [i \in 1..m |-> batch[i].amount]
<1> DEFINE q == PrefixSums(d, m)
<1> DEFINE p == Rounds(bal, batch)
<1>0. m \in Nat  OBVIOUS
<1>1. d \in [1..m -> Int]
  BY EntryType
<1>2. q \in [0..m -> Int] /\ q[0] = 0 /\ \A i \in 1..m : q[i] = q[i-1] + d[i]
  <2> HIDE DEF d
  <2> QED  BY <1>0, <1>1, PrefixSumsStep
<1>3. /\ p \in [0..m -> [Addresses -> Int]] /\ p[0] = bal
      /\ \A n \in 1..m : p[n] = Round(batch, p[n-1], n)
  BY RoundsStep DEF RoundsTo
<1>4. \A i \in 1..m : d[i] = batch[i].amount
  OBVIOUS
<1> HIDE DEF q, p, d
<1> DEFINE T == {n \in Nat : n <= m => Sum(p[n], Addresses) = Sum(bal, Addresses) + q[n]}
<1>5. Sum(bal, Addresses) \in Int
  BY BatchAssumption, SumType
<1>6. 0 \in T
  BY <1>2, <1>3, <1>5
<1>7. ASSUME NEW k \in T PROVE k+1 \in T
  <2>0. k \in Nat /\ (k <= m => Sum(p[k], Addresses) = Sum(bal, Addresses) + q[k])
    OBVIOUS
  <2>1. SUFFICES ASSUME k+1 <= m
                 PROVE  Sum(p[k+1], Addresses) = Sum(bal, Addresses) + q[k+1]
    BY <2>0
  <2>2. k+1 \in 1..m /\ (k+1)-1 = k /\ k \in 0..m /\ k+1 \in 0..m
    BY <1>0, <2>0, <2>1
  <2>3. p[k] \in [Addresses -> Int] /\ p[k+1] \in [Addresses -> Int]
    BY <1>3, <2>2
  <2>4. p[k+1] = Round(batch, p[k], k+1)
    <3>1. p[k+1] = Round(batch, p[(k+1)-1], k+1)  BY <1>3, <2>2
    <3> QED  BY <3>1, <2>2
  <2> DEFINE c == batch[k+1].contributor
  <2>5. c \in Addresses /\ batch[k+1].amount \in Int
    BY <2>2, EntryType
  <2>6. /\ p[k+1][c] = p[k][c] + batch[k+1].amount
        /\ \A x \in Addresses : x # c => p[k+1][x] = p[k][x]
    BY <2>3, <2>4, <2>5 DEF Round
  <2> HIDE DEF c
  <2>7. Sum(p[k+1], Addresses) = Sum(p[k], Addresses) + p[k+1][c] - p[k][c]
    <3>1. \A x \in Addresses : x # c => p[k+1][x] = p[k][x]
      BY <2>6
    <3> QED  BY <2>3, <2>5, <3>1, AddressSum
  <2>8. q[k+1] = q[k] + batch[k+1].amount
    BY <1>2, <1>4, <2>2
  <2>9. Sum(p[k], Addresses) = Sum(bal, Addresses) + q[k]
    BY <1>0, <2>0, <2>1
  <2>10. /\ p[k][c] \in Int /\ p[k+1][c] \in Int /\ q[k] \in Int
         /\ batch[k+1].amount \in Int
    BY <1>2, <2>2, <2>3, <2>5
  <2> QED  BY <1>5, <2>6, <2>7, <2>8, <2>9, <2>10, SMTT(30)
<1>8. T = Nat
  <2>1. T \subseteq Nat  OBVIOUS
  <2> HIDE DEF T
  <2> QED  BY <1>6, <1>7, <2>1, SetInduction
<1>9. Sum(p[m], Addresses) = Sum(bal, Addresses) + q[m]
  BY <1>0, <1>8
<1>10. p[m] \in [Addresses -> Int] /\ q[m] \in Int
  BY <1>0, <1>2, <1>3
<1> QED  BY <1>9, <1>10 DEF Applied, TotalDelta, p, q, d
-----------------------------------------------------------------------------
\* Between calls the balances add up to the two totals.
BatchInv ==
  /\ balance \in [Addresses -> Int] /\ batchTotal \in Int /\ coreTotal \in Int
  /\ SplitBooks

LEMMA BatchStart == BatchInit => BatchInv
<1> SUFFICES ASSUME BatchInit PROVE BatchInv
  OBVIOUS
<1>1. /\ balance \in [Addresses -> Int] /\ batchTotal = 0 /\ coreTotal = 0
      /\ \A a \in Addresses : balance[a] = 0
  BY DEF BatchInit
<1>2. Sum(balance, Addresses) = 0
  BY <1>1, BatchAssumption, SumZero
<1> QED  BY <1>1, <1>2 DEF BatchInv, SplitBooks

LEMMA ExecuteKeeps ==
  ASSUME BatchInv, NEW batch \in Batches, ExecuteBatch(batch)
  PROVE  BatchInv'
<1>1. batch \in Seq(Entry)
  BY BatchAssumption
<1>2. /\ balance' = Applied(balance, batch)
      /\ batchTotal' = batchTotal + TotalDelta(batch)
      /\ coreTotal' = coreTotal
  BY DEF ExecuteBatch
<1>3. /\ balance \in [Addresses -> Int] /\ batchTotal \in Int /\ coreTotal \in Int
      /\ Sum(balance, Addresses) = batchTotal + coreTotal
  BY DEF BatchInv, SplitBooks
<1>4. /\ balance' \in [Addresses -> Int] /\ TotalDelta(batch) \in Int
      /\ Sum(balance', Addresses) = Sum(balance, Addresses) + TotalDelta(batch)
  BY <1>1, <1>2, <1>3, AppliedSum
<1> QED  BY <1>2, <1>3, <1>4 DEF BatchInv, SplitBooks

LEMMA DirectKeeps ==
  ASSUME BatchInv, NEW c \in Addresses, NEW amount \in BatchAmounts,
         ContributeDirectly(c, amount)
  PROVE  BatchInv'
<1>1. /\ balance' = [balance EXCEPT ![c] = @ + amount]
      /\ coreTotal' = coreTotal + amount /\ batchTotal' = batchTotal
      /\ amount \in Int
  BY BatchAssumption DEF ContributeDirectly
<1>2. /\ balance \in [Addresses -> Int] /\ batchTotal \in Int /\ coreTotal \in Int
      /\ Sum(balance, Addresses) = batchTotal + coreTotal
  BY DEF BatchInv, SplitBooks
<1>3. /\ balance' \in [Addresses -> Int] /\ balance'[c] = balance[c] + amount
      /\ \A x \in Addresses : x # c => balance'[x] = balance[x]
  BY <1>1, <1>2
<1>4. Sum(balance', Addresses) = Sum(balance, Addresses) + balance'[c] - balance[c]
  BY <1>2, <1>3, AddressSum
<1> QED  BY <1>1, <1>2, <1>3, <1>4 DEF BatchInv, SplitBooks

LEMMA BatchStep == BatchInv /\ [BatchNext]_<<ledgerVars, batchVars>> => BatchInv'
<1> SUFFICES ASSUME BatchInv, [BatchNext]_<<ledgerVars, batchVars>>
             PROVE  BatchInv'
  OBVIOUS
<1>1. CASE UNCHANGED <<ledgerVars, batchVars>>
  BY <1>1 DEF batchVars, BatchInv, SplitBooks
<1>2. CASE BatchNext
  BY <1>2, ExecuteKeeps, DirectKeeps DEF BatchNext
<1> QED  BY <1>1, <1>2

\* optimistic_execution.rs and contribute together never create or lose money
\* in the entries: what contributors have on record is what the two totals say.
THEOREM BooksSplit == BatchSpec => []SplitBooks
<1>1. BatchInv => SplitBooks
  BY DEF BatchInv
<1> QED  BY <1>1, BatchStart, BatchStep, PTL DEF BatchSpec

-----------------------------------------------------------------------------
(* A batch over several campaigns.                                         *)

LEMMA FanOutEntryType ==
  ASSUME NEW batch \in Seq(ContributeEntry), NEW i \in 1..Len(batch)
  PROVE  batch[i].campaign \in Campaigns /\ batch[i].amount \in Int
<1>1. batch[i] \in ContributeEntry  OBVIOUS
<1> QED  BY <1>1, FanOutAssumption DEF ContributeEntry

\* The two running sums, entry by entry.
LEMMA TakenStep ==
  ASSUME NEW batch \in Seq(ContributeEntry)
  PROVE  /\ Taken(batch) \in [0..Len(batch) -> Int] /\ Taken(batch)[0] = 0
         /\ \A i \in 0..(Len(batch) - 1) :
              Taken(batch)[i+1] = Taken(batch)[i] + batch[i+1].amount
<1> DEFINE n == Len(batch)  a == [i \in 1..n |-> batch[i].amount]
<1>1. n \in Nat /\ a \in [1..n -> Int]
  BY FanOutEntryType
<1>2. Recurs(PrefixSums(a, n), a, n)
  <2> HIDE DEF a, n
  <2> QED  BY <1>1, PrefixSumsRecurs
<1>3. \A i \in 0..(n - 1) : a[i+1] = batch[i+1].amount
  BY <1>1
<1> QED  BY <1>2, <1>3 DEF Taken, Recurs

LEMMA GivenStep ==
  ASSUME NEW batch \in Seq(ContributeEntry), NEW k \in Campaigns
  PROVE  /\ GivenTo(batch, k) \in [0..Len(batch) -> Int] /\ GivenTo(batch, k)[0] = 0
         /\ \A i \in 0..(Len(batch) - 1) :
              GivenTo(batch, k)[i+1] = GivenTo(batch, k)[i] +
                IF batch[i+1].campaign = k THEN batch[i+1].amount ELSE 0
<1> DEFINE n == Len(batch)
           a == [i \in 1..n |-> IF batch[i].campaign = k THEN batch[i].amount ELSE 0]
<1>1. n \in Nat /\ a \in [1..n -> Int]
  BY FanOutEntryType
<1>2. Recurs(PrefixSums(a, n), a, n)
  <2> HIDE DEF a, n
  <2> QED  BY <1>1, PrefixSumsRecurs
<1>3. \A i \in 0..(n - 1) :
        a[i+1] = IF batch[i+1].campaign = k THEN batch[i+1].amount ELSE 0
  BY <1>1
<1> QED  BY <1>2, <1>3 DEF GivenTo, Recurs

\* What a batch takes is what it gives to all campaigns together, however often
\* it names one of them.
LEMMA TakenIsGiven ==
  ASSUME NEW batch \in Seq(ContributeEntry)
  PROVE  /\ TotalOf(batch) \in Int /\ \A k \in Campaigns : AmountFor(batch, k) \in Int
         /\ Sum([k \in Campaigns |-> AmountFor(batch, k)], Campaigns) = TotalOf(batch)
<1> DEFINE n == Len(batch)
           g(i) == [k \in Campaigns |-> GivenTo(batch, k)[i]]
           T == {i \in Nat : i <= n => Sum(g(i), Campaigns) = Taken(batch)[i]}
<1>1. n \in Nat /\ IsFiniteSet(Campaigns)
  BY FanOutAssumption
<1>2. \A i \in 0..n : Taken(batch)[i] \in Int /\ g(i) \in [Campaigns -> Int]
  BY TakenStep, GivenStep
<1>3. 0 \in T
  <2>1. 0 \in 0..n /\ \A k \in Campaigns : g(0)[k] = 0
    BY <1>1, GivenStep
  <2>2. Sum(g(0), Campaigns) = 0
    <3> HIDE DEF g
    <3> QED  BY <1>1, <2>1, SumZero
  <2> QED  BY <2>2, TakenStep
<1>4. ASSUME NEW i \in T PROVE i + 1 \in T
  <2> SUFFICES ASSUME i + 1 <= n, i \in Nat, Sum(g(i), Campaigns) = Taken(batch)[i]
               PROVE  Sum(g(i + 1), Campaigns) = Taken(batch)[i + 1]
    BY <1>1
  <2> DEFINE c == batch[i + 1].campaign
  <2>1. i \in 0..(n - 1) /\ i \in 0..n /\ i + 1 \in 0..n /\ i + 1 \in 1..n
    BY <1>1
  <2>2. c \in Campaigns /\ batch[i + 1].amount \in Int
    BY <2>1, FanOutEntryType
  <2>3. \A k \in Campaigns :
          /\ g(i)[k] \in Int /\ g(i + 1)[k] \in Int
          /\ k # c => g(i + 1)[k] = g(i)[k]
    BY <1>2, <2>1, GivenStep
  <2>4. g(i + 1)[c] = g(i)[c] + batch[i + 1].amount
    BY <2>1, <2>2, GivenStep
  <2>5. Taken(batch)[i + 1] = Taken(batch)[i] + batch[i + 1].amount
    BY <2>1, TakenStep
  <2>6. Taken(batch)[i] \in Int /\ g(i)[c] \in Int /\ g(i + 1)[c] \in Int
    BY <1>2, <2>1, <2>2, <2>3
  <2> HIDE DEF g, c
  <2>7. Sum(g(i + 1), Campaigns) = Sum(g(i), Campaigns) + g(i + 1)[c] - g(i)[c]
    <3> DEFINE u == g(i)  v == g(i + 1)
    <3>1. \A k \in Campaigns : u[k] \in Int
      BY <2>3
    <3>2. \A k \in Campaigns : v[k] \in Int
      BY <2>3
    <3>3. \A k \in Campaigns \ {c} : v[k] = u[k]
      BY <2>3
    <3>4. IsFiniteSet(Campaigns) /\ c \in Campaigns
      BY <1>1, <2>2
    <3> HIDE DEF u, v
    <3>5. Sum(v, Campaigns) = Sum(u, Campaigns) + v[c] - u[c]
      BY ONLY <3>1, <3>2, <3>3, <3>4, SumUpdate
    <3> QED  BY <3>5 DEF u, v
  <2> QED  BY <2>2, <2>4, <2>5, <2>6, <2>7
<1>5. T = Nat
  <2>1. T \subseteq Nat  OBVIOUS
  <2> HIDE DEF T
  <2> QED  BY <1>3, <1>4, <2>1, SetInduction
<1>6. n \in 0..n /\ Sum(g(n), Campaigns) = Taken(batch)[n]
  <2>1. n <= n /\ n \in 0..n
    BY <1>1
  <2>2. n \in T
    <3> HIDE DEF T
    <3> QED  BY <1>1, <1>5
  <2> HIDE DEF g, n
  <2> QED  BY <2>1, <2>2
<1> QED  BY <1>2, <1>6 DEF TotalOf, AmountFor

\* A campaign that no entry names gets nothing.
LEMMA UnnamedGetsNothing ==
  ASSUME NEW batch \in Seq(ContributeEntry), NEW k \in Campaigns,
         \A i \in 1..Len(batch) : batch[i].campaign # k
  PROVE  AmountFor(batch, k) = 0
<1> DEFINE n == Len(batch)
           T == {i \in Nat : i <= n => GivenTo(batch, k)[i] = 0}
<1>1. n \in Nat /\ 0 \in T
  BY GivenStep
<1>2. ASSUME NEW i \in T PROVE i + 1 \in T
  <2> SUFFICES ASSUME i + 1 <= n, i \in Nat, GivenTo(batch, k)[i] = 0
               PROVE  GivenTo(batch, k)[i + 1] = 0
    BY <1>1
  <2>1. i \in 0..(n - 1) /\ i + 1 \in 1..n
    BY <1>1
  <2> QED  BY <2>1, GivenStep
<1>3. T = Nat
  <2>1. T \subseteq Nat  OBVIOUS
  <2> HIDE DEF T
  <2> QED  BY <1>1, <1>2, <2>1, SetInduction
<1> QED  BY <1>1, <1>3 DEF AmountFor

FanOutInv ==
  /\ purse \in [Addresses -> Int] /\ given \in [Addresses -> [Campaigns -> Int]]
  /\ FanOutBooks

LEMMA FanOutStart == FanOutInit => FanOutInv
<1> SUFFICES ASSUME FanOutInit PROVE FanOutInv
  OBVIOUS
<1>1. ASSUME NEW c \in Addresses PROVE purse[c] + Sum(given[c], Campaigns) = Purse
  <2>1. purse[c] = Purse /\ \A k \in Campaigns : given[c][k] = 0
    BY DEF FanOutInit
  <2>2. Sum(given[c], Campaigns) = 0
    BY <2>1, FanOutAssumption, SumZero
  <2> QED  BY <2>1, <2>2, FanOutAssumption
<1> QED  BY <1>1, FanOutAssumption DEF FanOutInit, FanOutInv, FanOutBooks

\* What an executed batch does to its contributor, and to nobody else.
LEMMA BatchEffect ==
  ASSUME FanOutInv, NEW c \in Addresses, NEW batch \in Seq(ContributeEntry),
         BatchContribute(c, batch)
  PROVE  /\ TotalOf(batch) \in Int /\ \A k \in Campaigns : AmountFor(batch, k) \in Int
         /\ purse' \in [Addresses -> Int] /\ given' \in [Addresses -> [Campaigns -> Int]]
         /\ purse'[c] = purse[c] - TotalOf(batch)
         /\ \A k \in Campaigns : given'[c][k] = given[c][k] + AmountFor(batch, k)
         /\ \A d \in Addresses \ {c} : purse'[d] = purse[d] /\ given'[d] = given[d]
<1>1. TotalOf(batch) \in Int /\ \A k \in Campaigns : AmountFor(batch, k) \in Int
  BY TakenIsGiven
<1>2. /\ purse' = [purse EXCEPT ![c] = @ - TotalOf(batch)]
      /\ given' = [given EXCEPT ![c] = [k \in Campaigns |-> @[k] + AmountFor(batch, k)]]
  BY DEF BatchContribute
<1> QED  BY <1>1, <1>2 DEF FanOutInv

LEMMA BatchContributeKeeps ==
  ASSUME FanOutInv, NEW c \in Addresses, NEW batch \in Seq(ContributeEntry),
         BatchContribute(c, batch)
  PROVE  FanOutInv'
<1> DEFINE h == [k \in Campaigns |-> AmountFor(batch, k)]
<1>1. Sum(h, Campaigns) = TotalOf(batch) /\ TotalOf(batch) \in Int
  BY TakenIsGiven
<1>2. \A k \in Campaigns : /\ given[c][k] \in Int /\ h[k] \in Int
                            /\ given'[c][k] = given[c][k] + h[k]
  BY BatchEffect DEF FanOutInv
<1> HIDE DEF h
<1>3. /\ Sum(given'[c], Campaigns) = Sum(given[c], Campaigns) + Sum(h, Campaigns)
      /\ Sum(given[c], Campaigns) \in Int
  BY <1>2, FanOutAssumption, SumAdd, SumType
<1>4. purse[c] \in Int /\ purse'[c] = purse[c] - TotalOf(batch)
  BY BatchEffect DEF FanOutInv
<1>5. purse'[c] + Sum(given'[c], Campaigns) = Purse
  BY <1>1, <1>3, <1>4 DEF FanOutInv, FanOutBooks
<1>6. \A d \in Addresses \ {c} : purse'[d] + Sum(given'[d], Campaigns) = Purse
  BY BatchEffect DEF FanOutInv, FanOutBooks
<1> QED  BY <1>5, <1>6, BatchEffect DEF FanOutInv, FanOutBooks

\* A batch that TLC may choose is a sequence of entries.
LEMMA FanOutBatches ==
  ASSUME FanOutNext
  PROVE  \/ \E c \in Addresses, batch \in Seq(ContributeEntry) : BatchContribute(c, batch)
         \/ \E k \in Campaigns : CampaignEnds(k)
<1>1. \A m \in 0..MaxFanOut + 1 :
        [1..m -> ContributeEntry] \subseteq Seq(ContributeEntry)
  BY FanOutAssumption
<1> QED  BY <1>1, Zenon DEF FanOutNext

LEMMA FanOutStep == FanOutInv /\ [FanOutNext]_<<ledgerVars, fanOutVars>> => FanOutInv'
<1> SUFFICES ASSUME FanOutInv, [FanOutNext]_<<ledgerVars, fanOutVars>> PROVE FanOutInv'
  OBVIOUS
<1>1. CASE purse' = purse /\ given' = given
  BY <1>1 DEF FanOutInv, FanOutBooks
<1>2. CASE FanOutNext
  BY <1>1, <1>2, FanOutBatches, BatchContributeKeeps DEF CampaignEnds
<1> QED  BY <1>1, <1>2 DEF fanOutVars

\* What all campaigns have on record of a contributor is what left the purse,
\* however many batches and campaigns there were.
THEOREM PursesBalance == FanOutSpec => []FanOutBooks
<1>1. FanOutInv => FanOutBooks
  BY DEF FanOutInv
<1> QED  BY <1>1, FanOutStart, FanOutStep, PTL DEF FanOutSpec

\* batch_contribute counts whole or not at all: the signer's purse pays the sum
\* of the entries, each campaign receives its own, and none that has ended does.
THEOREM BatchAlwaysWhole == FanOutSpec => BatchWhole
<1>1. ASSUME FanOutInv, FanOutNext, purse' # purse
      PROVE  LET c == signer' IN
             /\ c # None
             /\ purse[c] - purse'[c] = TotalOf(lastBatch')
             /\ \A k \in Campaigns :
                  /\ given'[c][k] - given[c][k] = AmountFor(lastBatch', k)
                  /\ given'[c][k] # given[c][k] => k \in accepting
  <2>1. PICK c \in Addresses, batch \in Seq(ContributeEntry) : BatchContribute(c, batch)
    BY <1>1, FanOutBatches DEF CampaignEnds
  <2>2. signer' = c /\ lastBatch' = batch /\ c # None
    BY <2>1, LedgerAssumption DEF BatchContribute, SignedBy
  <2>3. /\ purse[c] - purse'[c] = TotalOf(batch)
        /\ \A k \in Campaigns : given'[c][k] - given[c][k] = AmountFor(batch, k)
    BY <1>1, <2>1, BatchEffect DEF FanOutInv
  <2>4. ASSUME NEW k \in Campaigns, given'[c][k] # given[c][k] PROVE k \in accepting
    <3>1. AmountFor(batch, k) # 0
      BY <1>1, <2>1, <2>4, BatchEffect DEF FanOutInv
    <3>2. PICK i \in 1..Len(batch) : batch[i].campaign = k
      BY <3>1, UnnamedGetsNothing
    <3> QED  BY <2>1, <3>2 DEF BatchContribute, Accepted
  <2> QED  BY <2>2, <2>3, <2>4
<1>2. FanOutInv /\ [FanOutNext]_<<ledgerVars, fanOutVars>> =>
        [purse' # purse =>
           LET c == signer' IN
           /\ c # None
           /\ purse[c] - purse'[c] = TotalOf(lastBatch')
           /\ \A k \in Campaigns :
                /\ given'[c][k] - given[c][k] = AmountFor(lastBatch', k)
                /\ given'[c][k] # given[c][k] => k \in accepting
        ]_<<ledgerVars, fanOutVars>>
  BY <1>1
<1> QED  BY <1>2, FanOutStart, FanOutStep, PTL DEF FanOutSpec, BatchWhole

-----------------------------------------------------------------------------
(* Nothing falls below zero or passes its limit.                           *)

\* Entries that are positive never lower a balance.
LEMMA AppliedGrows ==
  ASSUME NEW bal \in [Addresses -> Int], NEW batch \in Seq(Entry),
         \A i \in 1..Len(batch) : batch[i].amount > 0, NEW a \in Addresses
  PROVE  Applied(bal, batch)[a] >= bal[a] /\ Applied(bal, batch)[a] \in Int
<1> DEFINE n == Len(batch)
           p == Rounds(bal, batch)
           T == {k \in Nat : k <= n => p[k][a] >= bal[a]}
<1>1. /\ n \in Nat /\ p \in [0..n -> [Addresses -> Int]] /\ p[0] = bal
      /\ \A i \in 1..n : p[i] = Round(batch, p[i - 1], i)
  BY RoundsStep DEF RoundsTo
<1> HIDE DEF p
<1>2. 0 \in T
  BY <1>1
<1>3. ASSUME NEW k \in T PROVE k + 1 \in T
  <2> SUFFICES ASSUME k + 1 <= n PROVE p[k + 1][a] >= bal[a]
    OBVIOUS
  <2>1. k \in 0..n /\ k + 1 \in 1..n /\ (k + 1) - 1 = k /\ p[k][a] >= bal[a]
    BY <1>1
  <2>2. p[k] \in [Addresses -> Int] /\ p[k + 1] = Round(batch, p[k], k + 1)
    BY <1>1, <2>1
  <2>3. batch[k + 1].amount > 0 /\ batch[k + 1].amount \in Int
    BY <2>1, EntryType
  <2>4. p[k + 1][a] >= p[k][a] /\ p[k + 1][a] \in Int /\ p[k][a] \in Int
    BY <2>2, <2>3 DEF Round
  <2> QED  BY <2>1, <2>4
<1>4. T = Nat
  <2>1. T \subseteq Nat  OBVIOUS
  <2> HIDE DEF T
  <2> QED  BY <1>2, <1>3, <2>1, SetInduction
<1>5. n \in 0..n
  BY <1>1
<1> QED  BY <1>1, <1>4, <1>5 DEF Applied, p

LEMMA BatchTypeStart == BatchInit => BatchTypeOK
BY BatchAssumption DEF BatchInit, BatchTypeOK

LEMMA BatchTypeKept ==
  BatchInv /\ BatchTypeOK /\ [BatchNext]_<<ledgerVars, batchVars>> => BatchTypeOK'
<1> SUFFICES ASSUME BatchInv, BatchTypeOK, [BatchNext]_<<ledgerVars, batchVars>>
             PROVE  BatchTypeOK'
  OBVIOUS
<1>1. CASE UNCHANGED batchVars
  BY <1>1 DEF BatchTypeOK, batchVars
<1>2. ASSUME NEW batch \in Batches, ExecuteBatch(batch) PROVE BatchTypeOK'
  <2> DEFINE n == Len(batch)  d == [i \in 1..n |-> batch[i].amount]
  <2>1. /\ batch \in Seq(Entry) /\ balance \in [Addresses -> Int] /\ MaxTotal \in Nat
        /\ \A i \in 1..Len(batch) : batch[i].amount > 0
        /\ balance' = Applied(balance, batch) /\ \A a \in Addresses : balance'[a] <= MaxTotal
        /\ batchTotal' = batchTotal + TotalDelta(batch) /\ coreTotal' = coreTotal
        /\ batchTotal + TotalDelta(batch) <= MaxTotal
    BY <1>2, BatchAssumption DEF ExecuteBatch, ValidBatch, BatchInv
  <2>2. TotalDelta(batch) \in Int /\ TotalDelta(batch) >= 0
    <3>1. n \in Nat /\ d \in [1..n -> Int] /\ \A i \in 1..n : d[i] >= 0
      BY <2>1, EntryType
    <3>2. TotalDelta(batch) = PrefixSums(d, n)[n]
      BY DEF TotalDelta
    <3> HIDE DEF d, n
    <3>3. \A k \in 0..n : PrefixSums(d, n)[k] >= 0
      BY <3>1, PrefixSumsNonneg
    <3>4. TotalDelta(batch) \in Int
      BY <2>1, AppliedSum
    <3> QED  BY <3>1, <3>2, <3>3, <3>4
  <2>3. balance' \in [Addresses -> Int]
    BY <2>1, AppliedSum
  <2>4. \A a \in Addresses : balance'[a] \in 0..MaxTotal
    <3> SUFFICES ASSUME NEW a \in Addresses PROVE balance'[a] \in 0..MaxTotal
      OBVIOUS
    <3>1. balance'[a] >= balance[a] /\ balance'[a] \in Int
      BY <2>1, AppliedGrows
    <3>2. balance[a] \in Nat
      BY DEF BatchTypeOK
    <3> QED  BY <2>1, <3>1, <3>2
  <2> QED  BY <2>1, <2>2, <2>3, <2>4 DEF BatchTypeOK
<1>3. ASSUME NEW c \in Addresses, NEW amount \in BatchAmounts, ContributeDirectly(c, amount)
      PROVE  BatchTypeOK'
  BY <1>3, BatchAssumption DEF ContributeDirectly, BatchTypeOK
<1> QED  BY <1>1, <1>2, <1>3 DEF BatchNext

LEMMA FanOutTypeStart == FanOutInit => FanOutTypeOK
BY FanOutAssumption DEF FanOutInit, FanOutTypeOK

\* A batch never takes more than the purse holds, so none overdraws it.
LEMMA BatchContributeTypes ==
  ASSUME FanOutInv, FanOutTypeOK, NEW c \in Addresses, NEW batch \in Seq(ContributeEntry),
         BatchContribute(c, batch)
  PROVE  FanOutTypeOK'
<1> DEFINE n == Len(batch)
<1>1. /\ n \in Nat /\ n >= 1 /\ Purse \in Nat /\ accepting' = accepting
      /\ \A i \in 1..n : /\ batch[i].amount > 0 /\ batch[i].amount \in Int
                         /\ batch[i].amount <= purse[c] - Taken(batch)[i - 1]
      /\ \A d \in Addresses : purse[d] \in 0..Purse
      /\ \A d \in Addresses, k \in Campaigns : given[d][k] \in 0..Purse
  BY FanOutAssumption, FanOutEntryType DEF BatchContribute, Accepted, FanOutTypeOK
<1>2. TotalOf(batch) <= purse[c] /\ TotalOf(batch) \in Int
  <2>1. n - 1 \in 0..(n - 1) /\ (n - 1) + 1 = n /\ n \in 1..n /\ n - 1 \in 0..n
    BY <1>1
  <2>2. /\ Taken(batch)[n] = Taken(batch)[n - 1] + batch[n].amount
        /\ Taken(batch)[n - 1] \in Int
    BY <2>1, TakenStep
  <2>3. batch[n].amount <= purse[c] - Taken(batch)[n - 1] /\ batch[n].amount \in Int
    BY <1>1, <2>1
  <2>4. purse[c] \in Nat
    BY <1>1
  <2> HIDE DEF n
  <2> QED  BY <2>2, <2>3, <2>4 DEF TotalOf, n
<1>3. \A k \in Campaigns : AmountFor(batch, k) \in Int /\ AmountFor(batch, k) >= 0
  <2> SUFFICES ASSUME NEW k \in Campaigns
               PROVE  AmountFor(batch, k) \in Int /\ AmountFor(batch, k) >= 0
    OBVIOUS
  <2> DEFINE a == [i \in 1..n |-> IF batch[i].campaign = k THEN batch[i].amount ELSE 0]
  <2>1. a \in [1..n -> Int] /\ \A i \in 1..n : a[i] >= 0
    <3>1. \A i \in 1..n : batch[i].amount > 0 /\ batch[i].amount \in Int
      BY <1>1
    <3> HIDE DEF n
    <3> QED  BY <3>1
  <2>2. AmountFor(batch, k) = PrefixSums(a, n)[n]
    BY DEF AmountFor, GivenTo
  <2>3. AmountFor(batch, k) \in Int
    BY TakenIsGiven
  <2> HIDE DEF a, n
  <2>4. \A i \in 0..n : PrefixSums(a, n)[i] >= 0
    BY <1>1, <2>1, PrefixSumsNonneg
  <2> QED  BY <1>1, <2>2, <2>3, <2>4
<1>4. /\ purse' \in [Addresses -> Int] /\ given' \in [Addresses -> [Campaigns -> Int]]
      /\ purse'[c] = purse[c] - TotalOf(batch)
      /\ \A k \in Campaigns : given'[c][k] = given[c][k] + AmountFor(batch, k)
      /\ \A d \in Addresses \ {c} : purse'[d] = purse[d] /\ given'[d] = given[d]
  BY BatchEffect
<1>5. \A d \in Addresses : purse'[d] \in Nat /\ \A k \in Campaigns : given'[d][k] \in Nat
  <2>1. purse'[c] \in Nat
    BY <1>1, <1>2, <1>4
  <2>2. ASSUME NEW k \in Campaigns PROVE given'[c][k] \in Nat
    <3>1. given'[c][k] = given[c][k] + AmountFor(batch, k)
      BY <1>4
    <3>2. AmountFor(batch, k) \in Int /\ AmountFor(batch, k) >= 0
      BY <1>3
    <3>3. given[c][k] \in Nat
      BY <1>1
    <3> QED  BY <3>1, <3>2, <3>3
  <2> HIDE DEF n
  <2>3. ASSUME NEW d \in Addresses \ {c}
        PROVE  purse'[d] \in Nat /\ \A k \in Campaigns : given'[d][k] \in Nat
    <3>1. purse'[d] = purse[d] /\ given'[d] = given[d]
      BY <1>4
    <3>2. purse[d] \in Nat /\ \A k \in Campaigns : given[d][k] \in Nat
      BY <1>1
    <3> QED  BY <3>1, <3>2
  <2> QED  BY <2>1, <2>2, <2>3
<1>6. FanOutInv'
  BY BatchContributeKeeps
<1>7. ASSUME NEW d \in Addresses
      PROVE  purse'[d] \in 0..Purse /\ \A k \in Campaigns : given'[d][k] \in 0..Purse
  <2> DEFINE f == given'[d]
  <2>1. purse'[d] \in Nat /\ \A k \in Campaigns : f[k] \in Nat
    BY <1>5
  <2>2. purse'[d] + Sum(f, Campaigns) = Purse
    BY <1>6 DEF FanOutInv, FanOutBooks
  <2> HIDE DEF f
  <2>3. Sum(f, Campaigns) \in Int /\ Sum(f, Campaigns) >= 0
    BY <2>1, FanOutAssumption, SumType
  <2>4. \A k \in Campaigns : f[k] <= Sum(f, Campaigns)
    BY <2>1, FanOutAssumption, SumBoundsEntry
  <2>5. purse'[d] \in 0..Purse /\ \A k \in Campaigns : f[k] \in 0..Purse
    BY <1>1, <2>1, <2>2, <2>3, <2>4
  <2> QED  BY <2>5 DEF f
<1> QED  BY <1>1, <1>4, <1>7 DEF FanOutTypeOK

LEMMA FanOutTypeKept ==
  FanOutInv /\ FanOutTypeOK /\ [FanOutNext]_<<ledgerVars, fanOutVars>> => FanOutTypeOK'
<1> SUFFICES ASSUME FanOutInv, FanOutTypeOK, [FanOutNext]_<<ledgerVars, fanOutVars>>
             PROVE  FanOutTypeOK'
  OBVIOUS
<1>1. CASE UNCHANGED fanOutVars
  BY <1>1 DEF FanOutTypeOK, fanOutVars
<1>2. ASSUME NEW k \in Campaigns, CampaignEnds(k) PROVE FanOutTypeOK'
  BY <1>2 DEF CampaignEnds, FanOutTypeOK
<1> QED  BY <1>1, <1>2, FanOutBatches, BatchContributeTypes
=============================================================================
