------------------------------- MODULE Gating -------------------------------
(***************************************************************************)
(* The two gates a campaign may put before its contributors, token_gating  *)
(* .rs and nft_gating.rs: a collection and the balance a caller has to     *)
(* hold in it.  The admin they ask is access_control.rs's DefaultAdmin.    *)
(* lib.rs declares neither module, so `contribute` asks no gate yet.       *)
(***************************************************************************)
EXTENDS Ledger

CONSTANTS Collections,   \* token and NFT contracts a gate may name
          GateMinimums,  \* minimum balances it is configured with
          MaxHolding     \* bound on the balances

ASSUME GatingAssumption ==
  GateMinimums \subseteq Int /\ MaxHolding \in Nat /\ None \notin Collections \cup Addresses

\* struct TokenGateConfig, struct NftGateConfig
TokenGateConfig == [collection : Collections, min : GateMinimums]
NftGateConfig == TokenGateConfig
NoGate == [collection |-> None, min |-> 0]

VARIABLES
  gateAdmin,   \* DataKey::DefaultAdmin
  tokenGate,   \* DataKey::TokenGate, NoGate where the key is absent
  nftGate,     \* DataKey::NftGate
  holding      \* external: the balance of each address in each collection
gatingVars == <<gateAdmin, tokenGate, nftGate, holding>>

GatingInit ==
  /\ gateAdmin = None
  /\ tokenGate = NoGate /\ nftGate = NoGate
  /\ holding = [a \in Addresses |-> [t \in Collections |-> 0]]
-----------------------------------------------------------------------------
\* assert_gate_passes, for either gate: no gate lets everybody pass.
Passes(gate, c) == gate = NoGate \/ holding[c][gate.collection] >= gate.min

\* configure_gate of token_gating.rs; an earlier gate is replaced.
ConfigureTokenGate(c, t, min) ==
  /\ c = gateAdmin
  /\ min > 0
  /\ tokenGate' = [collection |-> t, min |-> min]
  /\ SignedBy(c) /\ UNCHANGED <<gateAdmin, nftGate, holding>>

\* remove_gate_config of token_gating.rs
RemoveTokenGate(c) ==
  /\ c = gateAdmin
  /\ tokenGate' = NoGate
  /\ SignedBy(c) /\ UNCHANGED <<gateAdmin, nftGate, holding>>

\* configure_gate of nft_gating.rs
ConfigureNftGate(c, t, min) ==
  /\ c = gateAdmin
  /\ min > 0
  /\ nftGate' = [collection |-> t, min |-> min]
  /\ SignedBy(c) /\ UNCHANGED <<gateAdmin, tokenGate, holding>>

\* remove_gate_config of nft_gating.rs
RemoveNftGate(c) ==
  /\ c = gateAdmin
  /\ nftGate' = NoGate
  /\ SignedBy(c) /\ UNCHANGED <<gateAdmin, tokenGate, holding>>

\* The key is written, and transfer_default_admin of access_control.rs passes
\* it on: the gates stay.
PassGateAdmin(a) ==
  /\ gateAdmin' = a
  /\ SignedBy(gateAdmin) /\ UNCHANGED <<tokenGate, nftGate, holding>>

\* What the collections do by themselves.
HoldingMoves(a, t) ==
  /\ holding' \in {[holding EXCEPT ![a][t] = x] : x \in 0..MaxHolding}
  /\ Unsigned /\ UNCHANGED <<gateAdmin, tokenGate, nftGate>>

GatingNext ==
  \/ \E c \in Addresses :
       \/ RemoveTokenGate(c) \/ RemoveNftGate(c) \/ PassGateAdmin(c)
       \/ \E t \in Collections :
            \/ HoldingMoves(c, t)
            \/ \E min \in GateMinimums :
                 ConfigureTokenGate(c, t, min) \/ ConfigureNftGate(c, t, min)

GatingSpec == LedgerInit /\ GatingInit /\ [][GatingNext]_<<ledgerVars, gatingVars>>
-----------------------------------------------------------------------------
\* A gate that exists asks for something: it never lets an address without a
\* balance pass, and without a gate everybody passes.
GatingTypeOK ==
  /\ gateAdmin \in Addresses \cup {None}
  /\ tokenGate \in TokenGateConfig \cup {NoGate}
  /\ nftGate \in NftGateConfig \cup {NoGate}
  /\ holding \in [Addresses -> [Collections -> 0..MaxHolding]]
  /\ \A gate \in {tokenGate, nftGate}, c \in Addresses :
       /\ gate = NoGate => Passes(gate, c)
       /\ (\A t \in Collections : holding[c][t] = 0) /\ Passes(gate, c) => gate = NoGate
=============================================================================
