# A TLA+ model of the Stellar Raise contracts

This directory specifies the Soroban crowdfunding contracts of this repository
in TLA+, model-checks them with TLC and proves their main properties with
TLAPS. It describes the code in `contracts/`; where a sentence of the
documentation says something else, a run shows the difference. Paths below are
relative to `contracts/crowdfund/src` unless they name another directory.

## 1. Inventory

Every contract call is an atomic transaction: a panic or a returned error undoes
all of its writes and transfers, and the host forbids re-entry. Concurrency is
therefore the interleaving of calls by parties who do not wait for each other:
contributors, pledgers, the creator, the role holders, and strangers for the
permissionless calls. Nothing runs by itself; what has to happen, somebody has
to call.

| Component | State | Operations | What is hard | What makes it correct |
|---|---|---|---|---|
| Campaign (`lib.rs`, `crowdfund_initialize_function.rs`, `withdraw_event_emission.rs`, `refund_single_token.rs`, `emergency_stop.rs`, `stream_processing_optimization.rs`, `contract_state_size.rs`) | status, parameters, entries, address lists, two totals, switches; balances in the token contract | initialize, contribute, pledge, collect_pledges, finalize, withdraw, refund_single, cancel, set_nft_contract, pause, unpause, emergency_stop | three records of the same money; who comes first after the deadline; loops over lists kept beside the entries; assertions that abort a call; the stop at any moment | the books agree with the balance; refunds are always covered; nobody is paid twice; money leaves only as payout or refund |
| Views and error codes (`lib.rs`, `contribute_error_handling.rs`, `campaign_goal_minimum.rs`, `input_validation.rs`) | none | get_stats, refund_available, progress, validators | totals and entries of different moments; the same comparison written several times | what is shown is what the next call does |
| Campaign content (`lib.rs` 999-1192) | metadata, roadmap, stretch goals | update_metadata, add_roadmap_item, add_stretch_goal, current_milestone | goals in insertion order; a refund that opens a goal again | limits hold; the current milestone is unmet |
| Access control (`access_control.rs`, upgrade in `lib.rs`) | one key per role, pending proposal, switch, fee, code | pause, unpause, set_platform_fee, direct and proposed transfers, upgrade | a proposal that outlives the administrator who made it | each duty is done with the key it belongs to; a proposal lets nobody in twice |
| Role-based access (`role_based_access.rs`) | member lists, pending transfers in two entries | initialise, assign, revoke, initiate/complete/cancel transfer, permission matrix, queries | duplicates in a list; times left over from an earlier transfer | a table changes only by an assigner or after the full delay; permissions follow the tables |
| Sessions (`session_management.rs`) | one token per address | create, validate, revoke, get | the last second; a new token under an old key | used once, and in time |
| Token and NFT gating (`token_gating.rs`, `nft_gating.rs`) | one gate of each kind | configure, remove, check | balances that move after the check | configured by the administrator alone |
| Multi-signature (`security/src/multi_signature_execution.rs`) | none; the caller keeps configuration and approvals | validation functions | the configuration changed, or an approval expired, between approval and execution | nothing runs without enough different signers of the moment |
| Cross-rollup calls (`cross_rollup_communication.rs`) | bounded list of targets | register, deregister, invoke | the full list; a target registered twice | only targets that stand are called |
| Versions (`state_migration.rs`, `proxy.rs`, `soroban_sdk_minor`) | schema version, implementation, administrator | set version, migrate, initialize, upgrade | a version newer than the code, which anything may set | a proxy has an administrator and code, or neither |
| Sharded storage (`sharding_mechanism.rs`) | shards, number of shards | insert, contains, positions, total | a shard filling up; the duplicate check | read by position, one list that only grows |
| Plasma chain (`plasma_chain.rs`) | checkpoints, one exit per claimant | submit, request, challenge, finalize | challenge racing the delay; asking again | a challenged exit stays; every exit is backed |
| Optimistic batches (`optimistic_execution.rs`) | entries and a total | stage and commit | an address named twice; the same key in two storage areas | entries and totals agree |
| Campaign factory (`factory/src`) | none that lasts | batch_contribute; create_campaign never completes | one campaign of a batch refuses, or the balance runs out half way | a batch counts whole or not at all |
| Reward minter (`stellar_token_minter.rs`) | owners, total, two roles | initialize, mint, set_minter | the minter replaced between two mints | final owners, exact total |
| Data availability (`data_availability_layer.rs`) | 16 slots of chunk records | store, clear, look up | overwriting, gaps | count and slots agree |
| Caches and copies (`memory_optimization.rs`, `lazy_loading_optimization.rs`, `network_optimization.rs`, `state_compression.rs`, `data_structure_optimization.rs`) | cache with a tracked size, lazy fields, write buffer, event table, packed state | put, remove, evict, load, enqueue, flush, apply | eviction, tables that fill up, copies that nobody initialised | no write lost or doubled; a copy is what was applied to it |
| Limits (`resource_management.rs`, `rate_limiting.rs`) | budgets, window, quota | consume, record, configure | the boundary of two windows | never more than twice the limit in one window's length |
| Alarms (`security_monitoring.rs`, `security_incident_response.rs`, `security/src/security_alerting_system.rs`) | counters per address, incidents, alerts | record, reset, create, resolve | thresholds met exactly; resets between two attempts | what passes a threshold is reported, every time |
| Analytics (`security_analytics.rs`) | bounded log, bounded access patterns, metrics | record, log, scores, detectors | what a full log drops | scores are of the latest records |
| Training, compliance reports, regression, dependencies (`security/src/security_training_integration.rs`, `security_compliance_checks.rs`, `security_compliance_reporting.rs`, `security_regression.rs`, `cargo_toml_rust.rs`) | records, lists, a policy | start, complete, revoke; add, resolve, run; approve, block, set policy | an attempt after a completion; a policy replaced | a report says what the records say |
| Scanners (`security_compliance_*.rs`, `security_baseline_scanning.rs`, `security_vulnerability_assessment.rs`, `security_monitoring_dashboard.rs`, `security/src/security_testing_automation.rs`) | none; they read the campaign | eight scans | each compares the same figures its own way | they agree with each other and with the books |
| Helpers (`*_optimization.rs`, `input_validation.rs`, `output_sanitization.rs`, ...) | none | arithmetic, loops, versions, keys | rounding, overflow, empty lists | they return what they stand for |
| Frontend, scripts, fragments | none | | | section 7 |

How they meet: the campaign moves tokens in the token contract, mints rewards in
the NFT contract, and reads the switch and the role keys that access control
writes. An optimistic batch writes the campaign's contribution entries; the
factory calls `contribute` of several campaigns; views, scanners and helpers read
the campaign's storage. The other modules are libraries with storage keys of
their own; they share with the rest only the ledger's clock and the signatures
of the transaction. `PROJECT.json` lists every component with its sources and
what of it is modelled.

## 2. Modules

| Module | What it is |
|---|---|
| `Campaign` | one campaign contract and the balances of the token contract |
| `Escrow` | what the campaign promises: a vault that is open, paying, refunding or closed |
| `CampaignViews`, `CampaignAudits`, `CampaignHelpers` | state functions over `Campaign`: what its views show, what eight scanners report, what helpers compute again |
| `CampaignContent` | metadata, roadmap and stretch goals |
| `Loops` | what the loops over lists compute: the sum of a finite family of amounts, a list without the copies of a value, the first index that matches, the number of indices that do |
| `Ledger` | clock and signatures, for the library modules |
| `AccessControl`, `RoleBasedAccess`, `AccessQueries`, `Session`, `TrustedContracts`, `MultiSig`, `Gating`, `Versions` | who may do what |
| `Training`, `Assessments`, `Dependencies`, `Calculations` | records that are reported on; pure functions |
| `Sharding`, `Plasma`, `TokenMinter`, `OptimisticBatch`, `BatchContribute`, `Chunks` | who keeps what |
| `Caches`, `Network`, `ShadowState` | copies of the state in memory and in storage |
| `Limiters`, `Alarms`, `Analytics` | what watches over the calls |
| `AppendLog` | what the sharded storage promises: a bounded list extended at its end |
| `MCCampaign`, `MCAudits`, `AccessModules`, `StorageModules` | small instances for TLC |
| `CampaignClaims` | sentences about the campaign that its code does not keep |
| `LoopProofs`, `CampaignProofs`, `ViewProofs`, `AccessProofs`, `RecordProofs`, `StorageProofs`, `CalcProofs`, `ReportProofs` | theorems |

One action is one call with all of its guards, in the order in which they abort;
a rejected call changes nothing and needs no action. Loops over lists are
modelled by what they add up (`DuePledges`, `DueRefunds`, `MintBatch`, `Taken`),
so that "all transfers or none" is a conjunct on the whole loop.

In `Campaign`, `config` holds what `initialize` stores; `contribution`,
`pledge`, `contributors`, `pledgers`, `totalRaised` and `totalPledged` are the
storage entries of the same names; `token` is the token contract. `Escrow` is
instantiated with the status as phase, the contract's balance as vault and the
entries as claims.

The views, scanners and helpers write nothing: each is a function of the
campaign's state, and their properties are invariants of the campaign. What a
scanner reads and the campaign never writes (the `Paused` key before the first
pause, an admin key) is a parameter that ranges over every value it may have.

In the library modules a call ends in `SignedBy(c)` or `Unsigned`: `signer`
records whose `require_auth` the latest call passed, so that a property can say
by whose signature something changed. Variables marked "history" are in no
storage; they remember what a property needs, such as who proposed a transfer
and when (`proposal`), which exit was challenged (`objection`), when a session
was opened (`openedAt`), or when an address approved (`assent`).

`AccessModules` and `StorageModules` put thirteen subjects each under one clock.
The variable `subject` picks, once per behaviour, which of them is exercised.
This loses nothing: the modules have disjoint storage and read nothing of each
other, so a behaviour of several is an interleaving of behaviours of each, and
every property is about one of them. The costly invariants are therefore
evaluated for the module that moves; the others stay in their first state.

Some definitions are preceded by one whose comment starts with "Mutant": the
same definition with a plausible bug. They are used nowhere; put in place of the
original they make TLC refute the property that guards it.

External parts, modelled from their use: the token's `transfer` (moves the amount
or aborts), the ledger clock (`Tick`), `require_auth`, the balances a gate asks
for, the caller of the multi-signature checks, and the provisioning of the role
keys. `initialize` writes neither `DataKey::DefaultAdmin` nor `DataKey::Pauser`
nor `DataKey::GovernanceAddress`; the repository's tests write them into storage
directly. `ProvisionRoles` and `ProvisionKeys` stand for that.

Several files are not compiled into the contract: `lib.rs` does not declare
`plasma_chain.rs`, the two gates, the caches, the network helpers and others, and
some cannot be compiled as they stand (`memory_optimization.rs` passes a
reference where a value is taken, `security_compliance_monitoring.rs` contains
`&amp;Env`, `security_analytics.rs` uses a moved value). Their models say what the
text of the functions says; the header of the module names the obstacle.

## 3. What is checked

| Run | Question | States |
|---|---|---|
| `campaign_safety` | all state invariants, all action properties and the refinement of `Escrow`, over every interleaving; views, scanners and helpers in every state of it | 76,045 |
| `campaign_liveness` | decision, refunds and payout under fairness | 185,323 |
| `access` | who can change the role tables, the keys, the sessions, the trusted list, the gates and the versions; who has to approve; what reports, queries and pure functions answer | 218,340 |
| `storage` | whether shards, exits, rewards, batches, content, chunks, caches, buffers and monitors agree with what was put into them | 140,428 |
| `claim_*` | eight sentences of the documentation, each refuted by a run of the code | until refuted |

The properties worth naming:

* `BooksBalance` relates the totals, the entries and the balance;
  `RefundsCovered` says that an expired campaign can pay every claim in any
  order; `WalletsWhole` that nobody is refunded twice or at another's expense;
  `MintedAtMostOnce` that no second withdraw can happen though nothing but an
  assertion prevents it; `StoppedFreezesTokens` that no token moves after the
  emergency stop though two of the entry points alone read its flag;
  `CollectAllOrNothing` that a collection is complete; `OutflowsAuthorised` that
  tokens leave only as a payout, with the fee within its share, or as a refund.
* `ViewsConsistent`: while contributions are open or refunds are due, the stored
  total and the entries that `get_stats` combines are of one set of books, and
  full progress is shown exactly for what `finalize` would call a success.
* `AuditsAgree`: an open campaign is clean for all eight scanners apart from what
  one alone objects to, an overdue one is noticed by all, and what the contract
  accepts passes the probes written for it. The differences it states are in
  section 4.
* `HelpersAgree`: six copies of the progress, three of the sum, the previews of
  refund and payout, the validators and the errors called retryable agree with
  what the entry points do, in every reachable state, overflow included.
* `TablesGuarded`: a role table changes only by a call that a holder of an
  assigner role signed, or by a transfer that waited its whole delay since it
  was last initiated. `TransfersGuarded`: a transfer is proposed and taken back
  only by those who may, and who hands a role over has lost it in every copy.
  `AdminSuccession`: the administrator of `access_control.rs` changes by his own
  signature or, once for each proposal, by that of the address proposed last. In
  the second case he made the proposal himself or the role came to him directly
  while it stood: a direct transfer leaves the proposal of the old administrator
  in place, and its nominee may accept it at any later time, after he has held
  the role and passed it on too. The history variable `holders` is who has held the
  role while the proposal stood; what is excluded is that a proposal accepted,
  replaced or cancelled still lets somebody in.
* `ValidatedOnce`, `ValidatedInTime` for sessions; `AnswersSound`: the pure
  functions of the helper modules agree with reference definitions and with each
  other.
* `ExecutedBacked`: whatever happened to the configuration and the clock since
  the approvals, an execution is backed by as many different signers of the
  configuration in force as its threshold asks, by unexpired approvals, and at
  least by one (`MIN_SIGNERS` is 1: a configuration of one signer is accepted).
  `TrustedExact`: the trusted list is what was registered and not deregistered.
* `ReportsExact`: who holds a role and may do what, who is trained, which checks
  and vulnerabilities stand and which crates comply is what the records say; a
  session can, at every second, either be validated or replaced; nobody but an
  administrator can lift a pause. `MonitorsExact`: limits, alarms and the
  analytics say what happened; `CopiesExact`: counters, caches, the write buffer,
  the event filter and the packed copies are what they stand for. Where the code
  falls short of that, the property says by exactly how much.
* `KeepsLog`: the shards, read by `shard_index` and `shard_offset`, implement
  `AppendLog`: nothing is overwritten when a shard or the whole store fills up.
* `ChallengedNeverPaid` and `ExitBacked` for exits, `OwnersFinal` for rewards,
  `SplitBooks` for optimistic batches: what contributors have on record is what
  the two totals say. `BatchWhole`: a batch over several campaigns counts whole
  or not at all. `MilestoneSound`: the milestone shown is open, above the primary
  goal, and the nearest one if the creator kept the order.

### Bounds

* `campaign_safety`: three contributors and two list slots (`MAX_CONTRIBUTORS` is
  128), so one is turned away, the lists are complete and incomplete, and the
  mint cap (1 instead of 50) cuts a batch. A wallet of 3 tokens, amounts 0 to 2
  and goals of 2, 3 and 4: one contributor can meet a goal alone, two can
  together, a pledger can promise more than he has. Basis points out of 4 instead of 10000
  and `i128::MAX` = 5: a fee that rounds to zero, one of 100%, and an overflowing
  total or fee product are reachable (the liveness run has 8). Products of the
  helpers saturate at 12, so that the product for a goal of 4 does and full
  progress towards it is never shown; the totals a scanner calls too large start
  at 4. Time runs to 2 with the deadline at 1. Four more configurations are those that
  `initialize` must reject.
* `campaign_liveness`: two contributors and amounts that can and cannot meet the
  goal.
* `access`: three addresses; time to 2 and delays of 1, so that a delay is not
  over, just over, and long over; lists of at most two members, targets, modules,
  rules or crates, so that they fill up and hold a duplicate; lifetimes 0, 1 and
  2 of which only 1 is valid; fee rates at and above the limit; scores at and
  below the passing mark; signer lists that are empty, of one, two and three
  addresses and with duplicates, and thresholds of zero and above their length;
  approvals that expire within the run; schema versions below, at and above the
  code's, `MaxSchema` (4) in place of `u32::MAX`. Operand lists of up to three
  numbers, negative, zero, one and 60, against an `IntMax` of 100, so that sums
  saturate; `MaxSlice` and `MaxBatchSize` are 2 (50 and 10 in the code), so that
  a list is one too long. Triples of naturals with perfect squares and their
  neighbours; `MaxEvents` 8, `MaxOperations` 9, and a key prefix worth 1,024.
* `storage`: three shards of two and four contributors: shards fill up, an
  address can be inserted again after its shard did, and an insert meets a full
  store. Two blocks with 0 to 2 transactions of at most 1, bonds at and below
  the minimum, delay 1. Batches of up to three entries of which two are allowed,
  amounts -1 to 2 and totals to 4: an empty, an oversized and an invalid batch,
  one that names an address or a campaign twice, and overflows of each total.
  Caches, tables, logs and windows hold two entries and meet a third; thresholds
  are 1 and 2 and counters stop at 3, above them; content limits are 1 and 2.
  Words have two bits instead of 32, enough for every size and index used.
* Counters that only the model needs (`MaxPuts`, `MaxObserved`, `MaxAlarms`,
  `MaxEdits`, `MaxRuns`, `MaxWork`, `MaxOptimised`, `MaxApplied`) bound the number
  of calls in one behaviour; they are constants and guards of their modules.

Addresses are only compared with each other, so they are a symmetry set in the
safety runs. There is none in the liveness run. Deadlock is not checked: a
campaign that is over and a full store really stop.

### Fairness

`FairSpec` assumes weak fairness of time, `finalize`, `withdraw` and each
contributor's `refund_single`. Nothing in the contract runs by itself, so this
says that somebody interested keeps submitting the call: anyone may finalize,
and each of the others has its own beneficiary. Pledgers, cancel and the role
holders get no fairness. `CreatorPaid` and `RefundsArrive` make the exception the
code makes: role holders may pause or stop. The campaigns of the liveness run
have fees that are positive and below the total; `claim_withdraw` shows what
happens to others. The library modules promise nothing that has to happen
without being asked, and no fairness is assumed of them.

## 4. What the documentation says otherwise

| Run | Sentence | Code |
|---|---|---|
| `claim_stop_refund` | `emergency_stop.rs:30` refund_single stays callable after the stop | it requires `Expired`, the stop sets `Cancelled` |
| `claim_withdraw` | `README.md:9` the creator withdraws a funded campaign | not when the fee rounds to zero |
| `claim_cancel_refund` | `lib.rs:869` cancel refunds all contributors | collected pledges stay |
| `claim_individual_cap` | `lib.rs:285` a cap on one contributor's amount | never enforced |
| `claim_one_shard` | `sharding_mechanism.rs:24` no address in more than one shard | only the active shard is searched |
| `claim_last_admin` | `role_based_access.rs:332` the last Admin cannot be revoked | list entries are counted, not administrators |
| `claim_exit_delay` | `plasma_chain.rs:16` an exit is delayed | the delay counts from the checkpoint |
| `claim_batch_total` | `optimistic_execution.rs:163` the batch updates `TotalRaised` | in a storage area that nothing else reads |

The models contain these too, without a run of their own:

* `emergency_stop.rs:23` lists `pledge`, `upgrade` and `update_metadata` as
  blocked by the stop; none of them reads its flag. `update_metadata` is stopped
  by the status, the other two are not.
* `collect_pledges` can reach the bonus goal; only `contribute` emits the event.
* `withdraw_event_emission.rs:166`: rewards beyond the cap "can be minted in a
  subsequent call"; there is no such call, a second withdraw aborts.
* `role_based_access.rs:527`: the initiator can cancel a transfer; the code asks
  for an administrator. `initialize_rbac` "should only be callable once" and can
  be called again by anybody who reaches it; `Starts` in `TablesGuarded` is that
  exception.
* `access_control.rs:6`: the default admin can upgrade; `upgrade` asks the key
  `DataKey::Admin`, which no transfer moves. A direct transfer of the role leaves
  the old administrator's proposal pending.
* `plasma_chain.rs` lets the same transaction of a checkpoint be exited twice.
* `factory/src/lib.rs` calls `initialize` with nine arguments; it takes ten, so
  `create_campaign` cannot complete.
* `stream_processing_optimization.rs` shows goals in the order in which they
  were added: `current_milestone` is the nearest one only if that was ascending.
* `security_compliance_automation.rs` and three other scanners report a campaign
  as overdue in the second of its deadline, in which `contribute` still accepts.
* `security/src/security_testing_automation.rs:69-70`: that the entries add up to
  the total "must hold after every `contribute`, `refund_single`, `cancel`, and
  `withdraw` call". `withdraw` sets the total to zero and keeps the entries, and
  `collect_pledges` raises the total without any, so this audit objects to every
  campaign that has been paid out or whose pledges were collected.
* `security_compliance_monitoring.rs:143` doubles the goal unchecked: `run_full_audit`
  aborts for a goal above half of `i128::MAX`, which `initialize` accepts
  (`MonitoringRuns`).
* `state_migration.rs:57`: `set_schema_version` checks nothing and may set a version
  newer than the code, from which no `migrate_to` succeeds.
* `security_compliance_reporting.rs:364`: a test expects the score 90 for ten
  findings of which two are critical; `calculate_score` gives 0.
* `memory_optimization.rs` takes the size of an evicted entry off twice, so that
  after an eviction the cache holds more than it tracks.
* `security_training_integration.rs`: no call ever sets a record to `Expired`;
  `is_training_valid` says what has run out, the stored status does not.
* `security_analytics.rs`: every detector ends by making a `Symbol` out of a
  sentence, which aborts; none of them returns. An index that `log_threat`
  returns names no record once the log is full.
* `cargo_toml_rust.rs`: a policy that is replaced leaves the crates the old one
  approved in the list; the security rule does not see that they are blocked.
* `multi_signature_execution.rs`: an approval that has expired still keeps its
  signer from approving again until it is revoked, and one by an address that is
  no longer a signer blocks the execution.

## 5. What is proved

All theorems hold for any sets of addresses, any parameters and any bounds that
satisfy the modules' assumptions. Those say that amounts and times are numbers,
that sets which are summed or counted are finite, and that `None` is no value;
further, what constants of the code satisfy: a shard, a write buffer and a
threshold of failures are at least one (`MAX_BATCH_SIZE` is 16,
`FAILURE_THRESHOLD` 3), a counter reaches the threshold it is compared
with, a chunk's index and size fit a word, a policy has room for the two rules it
starts with, a fee schedule has room for two tiers (`MAX_TIERS` is 8) and a list of
amounts for two (`MAX_BATCH` is 50), the code's schema version is one that can be
stored, and an error is no value that means "none". `Campaign` adds that the
contract is none of the parties it pays; the creator may be a contributor and may
be the platform.

**Campaign** (`CampaignProofs`): all safety properties of `campaign_safety` that
are about money, lists and status, the refinement of `Escrow` included. `TypeOK`
is not inductive: `refund_single` subtracts an entry from `TotalRaised`, so that
the total stays natural only because it is at least the sum of the entries.
`IndInv` adds

* `OwedOrFunded`: while refunds are possible or may become so, either the total
  is the sum of the entries and every wallet is whole, or `collect_pledges` has
  already brought the total to the goal after the deadline, and `finalize`
  cannot expire the campaign any more. That is why a pledge can never end up in
  a campaign that refunds contributions only;
* `ListsComplete`: the loops see every entry, once;
* `StopIsFinal`, `RewardsAfterOutcome` and `BlankUntilInitialized`, which fix
  what a status excludes.

One lemma per action shows that the action keeps it; the effect of an action on
balances is a lemma of its own (`WithdrawEffect`, `CancelEffect`, ...), used again
for the action properties and the refinement.

**Views** (`ViewProofs`): `ViewsConsistent` from `IndInv` and `ConfigAccepted`, the
invariant that the parameters in force are ones `initialize` accepts. The loop of
`collect_contribution_stats` counts, adds and maximises over the list, the view
shows the stored total beside it: `EntriesBelowLargest` bounds the sum by the
count times the maximum, `IndInv` makes the sum of the entries the total, and
`ListsComplete` makes the list all of the entries. Full progress needs what
rounding down and a saturating product do to the comparison with the goal.

**Scanners and helpers** (`ViewProofs`): `AuditsAgree` and `HelpersAgree`, again from
`IndInv` and `ConfigAccepted`. Two more invariants carry them: a cancelled
campaign that nobody stopped holds no total (`CancelledEmpty`), and an outcome is
never on record before its deadline (`EndedLate`). For each scanner a lemma says
which of its checks can fail in a reachable state (`AutomationFails`,
`MonitoringFails`, ...); the verdicts, scores and counts are then arithmetic. The
loops of the helpers are shown to compute what the views show by induction over
the list (`SumOverList`, `LoopMaximum`), and the first error of a chain of checks
by `FirstErrorIs`. What `contribute` accepts is the operator `ContributeOpen`, so
that the claims about it need no ENABLED.

**Loops** (`LoopProofs`): sums enter through `SumUpdate`, `SumBump`, `SumEqual`,
`SumZero` and `SumBoundsEntry`, by induction over the recursive function
`PrefixSums`; removing from a list through `WithoutProperties` and
`WithoutExact`, by induction over the turns of the loop; counting through the
`Hits` lemmas, which say what appending to a list does to the indices that
match. Induction over the naturals is `SetInduction`, derived from
well-foundedness; `RangeInduction` is its bounded form.

**Roles** (`AccessProofs`): `RoleInv` couples the two storage entries of a pending
transfer with each other (`PendingPaired`) and with the time it was last
initiated (`TimesExact`); without the coupling a transfer could take effect with
an earlier one's time. `TablesGuarded` and `TransfersGuarded` follow; the latter
from what `Without` does to a list with duplicates.

**Keys, sessions, trusted list, approvals** (`AccessProofs`): `AccessInv` says
that the stored proposal is the last nomination, and that while it stands the
administrator is one of the addresses that have held the role since it was made
(`holders`); `AdminSuccession` follows from both. `SeparationOfDuties` needs the guards only. `SessionInv` ties the flag
of a session to the number of its uses and its expiry to its opening, from which
`ValidatedOnce` and `ValidatedInTime` follow. `TrustInv` adds to `TrustedExact`
that no target is listed twice; removing one needs `WithoutExact`. `MultiSigInv`
says that the list of approvals and the history `assent` are one relation, with
one approval per address: only then does counting approvals, as
`count_valid_approvals` does, count different signers (`CountedAreSigners`, by an
injection), and `ExecutedBacked` follows.

**Shards, exits, rewards, content, chunks** (`RecordProofs`): `ShardInv` says that
shards fill in order and hold no address twice within one; the arithmetic of
quotient and remainder then shows that an insert extends the list at its end
(`KeepsLog`), and an induction over the loop of `total_contributors` that it
agrees with the positions (`CountExact`). `PlasmaInv` adds to `ExitBacked` that no
checkpoint is from the future, that none exists beyond the last block (so that a
new one never replaces what an exit refers to), and that a challenged exit is
kept as the challenge left it. `MinterInv` adds to `TotalExact` that the minter
is whom the administrator appointed last. `GoalsInv` says that every goal lies
above the primary one; with the least index of an open goal (`FirstExists`) it
gives `MilestoneSound`; `ContentInv` adds the limits and the clock. For the
chunks, `XorBack` shows bit by bit that the checksum and the index give the size
back, for words of any width; `ChunksInv` then says that slots and announcements
are one relation, so that `chunk_count` counts each index once.

**Batches** (`RecordProofs`): `BatchInv` is `SplitBooks` with its types. That a
batch raises the entries by its total, however often it names an address, is
proved by induction over the rounds of the loop (`RoundsStep`, `AppliedSum`).
`FanOutInv` says that a contributor's purse and what the campaigns have on record
of him always make up what he had (`FanOutBooks`); `TakenIsGiven`, by induction
over the entries, says that a batch gives what it takes, and
`UnnamedGetsNothing` that it gives to nobody it does not name. `BatchWhole`
follows.

**Monitors, caches, copies** (`StorageProofs`): for the composition
`StorageModules`, `MonitorsExact`, `CopiesExact` and the composite type invariant
`RecordsTypeOK`. Each subject has its inductive invariant, and a step of the
composition is a step of the subject or leaves its variables as they are
(`SubjectSteps`, `StorageMoves`):

* `LimitersInv`: "no more than twice the limit within the length of a window" is
  not inductive. `WindowExact` adds that what was let through since the window's
  start is what the stored count says, and that as long before the start it was
  at most the limit; an interval of a window's length then lies in those two. A
  window of length zero resets at every call and limits nothing, which the
  property excepts.
* `AlarmsInv`: of every address, at least as much was reported as its counters
  stand beyond their thresholds, and the counts of alerts and incidents are those
  of the history up to where they saturate, so that the contract asks to be
  paused exactly when that many incidents were recorded.
* `AnalyticsInv`: the stored log and patterns are the last entries of what was
  ever recorded (`Latest`), in the order of the clock; the scores and the index
  that `log_threat` returned follow.
* `CachesInv`: while no key was put twice, the tracked size is at most the sum of
  the sizes held, and equal to it before the first eviction (`Tracked`). Removal
  rebuilds the list and needs the sum of what is left (`WithoutAll`).
* `NetworkInv`: `NothingLost` says that the value last queued for a key is the
  pending one, or the stored one when none is pending; one pending write per key
  makes the flush order irrelevant. Of the filter, that every remembered event
  was let through once, and that only a full table ever forgets one.
* `ShadowInv`: the packed state is what was applied to it.
* `RecordsInv` is the conjunction that carries `RecordsTypeOK`; where a type needs
  more than itself (a total that stays below its bound because the entries do),
  it takes the subject's invariant.

**Reports** (`ReportProofs`): for the composition `AccessModules`, `ReportsExact` and
the composite type invariant `AccessStorageTypeOK`, composed as in
`StorageProofs`. Counting goes through `FourKinds`: exclusive kinds of the
positions of a list add up to at most its length, and to exactly that when every
position is of one kind. `PercentageFull` says when a percentage that is rounded
down shows 100. `SuiteInv` and `ReportInv` say that what a suite or a report
stores is what its constructor computes from its list, after every call that
extends or changes it; a suite tells apart whether an invalid check was ever added
(`raw`), and the score of a report never rises. `TrainingInv` says
that a record is completed exactly when that was the verdict on it, and that none
is ever set to `Expired`. `DependencyInv` says that no two approved crates and no
two rules have one name, and that every approved crate was allowed by the policy
in force unless it was kept from an earlier one (`kept`). `KeysInv` adds to
`AccessInv` that only an administrator can have made a proposal.

**Pure functions** (`CalcProofs`, theorem in `ReportProofs`): `AnswersSound`, one
lemma for each of its ten parts. A recursive function of the model means what its
equation says only where a solution exists; `DescentExists` supplies one whenever
every argument refers to a smaller one, by induction over the size (Newton's
iteration, the binary search, the shared bits of two numbers), and `LoopRuns`
when the recursion is a loop over a list (the saturating sum, the list without
repeats). Two invariants carry the roots: the binary search keeps the root between
`low - 1` and `high` (`SearchFinds`), and Newton's iteration never falls below it
(`MeanAboveRoot`, from the inequality of the means) and stops only at it
(`MeanAtRoot`, `NewtonFinds`). That there is one root (`RootUnique`) makes the two
agree. `FeesClose` adds up what rounding loses, at most a token short of one an
entry; `AverageBetween` bounds a weighted sum by the extremes times the weights;
`PowersShareNothing` compares a number with the one below it bit by bit;
`SaturatedSum` says that a sum whose prefixes stay in range is exact. Amounts are
unbounded integers here. Where the code checks for overflow, the model returns
nothing or saturates as it does; where it does not, it aborts and answers nothing,
and what is proved is of the evaluations that come to an end.

TLC checks these invariants' main parts in the runs of section 3: they are the
properties of the runs, and their type invariants.

Only model-checked:

* the liveness properties, which are beyond the proof system;
* the refutations of section 4, of which two are about ENABLED.

## 6. Plan

Done: the campaign with its content, views, scanners and helpers; every access
module; every module that keeps records, copies or counters; the factory's
batch; the pure functions; and proofs of every safety property of the runs, state
invariants and action properties.

Left: a composition of `BatchContribute` with two instances of `Campaign`, in
place of the summary of a campaign it has now.

## 7. Not modelled

* Time to live and archival of storage, the code that `upgrade` installs, tokens
  sent to the contract outside its calls, an NFT contract that fails: each would
  need an actor outside the code.
* Views that return a stored text or a version, events other than the bonus
  event, logging, the texts of errors and reports; state roots and amounts of the
  plasma chain, which are stored and returned unread.
* `rate_limiting.rs` beyond its configuration: the keys for an address contain a
  colon, which a symbol may not, so no call that names an address completes.
* `factory/src/lib.rs`: `create_campaign` deploys under a constant salt and calls
  `initialize` with nine arguments where it takes ten; no call of it completes.
* `reentrancy_guard.rs`: no entry point calls it (`lib.rs` imports from it without
  declaring it); calls are atomic and cannot be re-entered anyway.
* `proxy.rs` beyond initialising and upgrading: it defines `initialize` twice and
  uses a symbol that is too long, and what it would delegate is the campaign.
* `cache_optimization.rs`, `parallel_optimization.rs` and
  `conditional_optimization.rs` are fragments outside any module, the last one cut
  off in the middle of a constant; `npm_package_lock.rs` runs in tests only;
  `access_logging.rs` emits events, and its queries return constants.
* `detect_storage_anomaly` of `security_analytics.rs`, `get_role_members` and
  `is_rbac_initialized` of `role_based_access.rs`; functions that only move bytes
  (`compress_campaign_data`, compact contributions) or clean strings.
* Helpers that decide nothing: `scan_vulnerabilities` and `apply_remediation` of
  `security_remediation.rs` return a constant; `gas_optimization_algorithms.rs`
  adds up a fixed gas estimate and hands back a cached value;
  `soroban_sdk_minor.rs` compares the length of an upgrade note with a constant.
* The frontend, the deployment scripts and the prose: no contract state.
