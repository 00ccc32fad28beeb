# TLA+ verification of the validator's consensus core

The subject is the validator under `src/testnet` (a fork of a proof-of-stake
validator: replay, tower, fork choice, voting service). The project models how
one validator decides what to vote for, what it keeps on disk so that a restart
cannot make it contradict itself, how it weighs forks, and how it recovers when
a leader produced several versions of a block. Paths below are relative to
`src/testnet`.

## 1. The system and its parts

A validator replays the blocks that arrive (**replay stage**), holds the result
of each as a bank (**BankForks**), and keeps blocks, roots and bank hashes on
disk (**blockstore**). In each iteration of the replay loop it

1. creates banks for new blocks and replays them, freezing or killing them;
2. takes in signals about duplicate versions of slots (samples of other
   validators, gossip confirmations, duplicate proofs) and reconciles them with
   the version it replayed (**cluster slot state verifier**);
3. feeds the votes in the frozen banks to the **fork choice** and asks it for
   the heaviest bank;
4. checks that bank against its **tower** (lockouts, switching, thresholds),
   records the vote, roots what the tower roots, and queues the vote;
5. dumps the versions of slots that turned out wrong, so they can be repaired.

A second thread, the **voting service**, stores the tower and then sends the
vote. On a restart the validator loads the stored tower, reconciles the
blockstore roots with it, replays the ledger and adjusts the tower's lockouts.

| part | source | module | status |
| --- | --- | --- | --- |
| lockout stack | `programs/vote/src/vote_state/mod.rs` | `VoteState` | modelled |
| tower, voting service, restart | `core/src/consensus.rs`, `voting_service.rs`, `validator.rs`, parts of `replay_stage.rs` | `Tower` | partly |
| fork choice | `core/src/heaviest_subtree_fork_choice.rs`, `tree_diff.rs`, `latest_validator_votes_for_frozen_banks.rs` | `HeaviestSubtree`, `ForkChoice` | partly |
| duplicate slots | `core/src/cluster_slot_state_verifier.rs`, handlers of `replay_stage.rs` | `DuplicateSlots` | partly |
| vote program, slot history, stake thresholds, optimistic confirmation, commitment, proof of history | see `PROJECT.json` | planned | not modelled |
| accounts database, shreds and erasure coding, turbine, gossip store, RPC, CLI, virtual machines | see `PROJECT.json` | none | not modelled |

The full inventory, with the reason for every part that is left out, is the
list `components` of `PROJECT.json`. The other directories of `src/` (an NFT
staking program, a lottery contract, a copy of another chain, small utilities)
are systems of their own and share no state with the validator.

## 2. Modules

### VoteState: the lockout stack

`VoteState` holds the pure operators on a lockout stack: a sequence of records
`[slot, confirmation_count]`, oldest first. `NextVotes` is
`process_next_vote_slot`: pop the votes that have expired *from the top*
(`PopExpiredVotes`: an expired vote below a live one stays), shift the oldest
into the root when the stack is full (`MakesRoot`, `NextRoot`), push, and double
the lockouts that are now deep enough. `None` (-1) is the absent slot.

### Tower: one validator from vote to restart

| variable | in the code |
| --- | --- |
| `anc`, `known` | the cluster's block tree, as far as this validator has seen it |
| `blockstore`, `blockstore_root` | blocks and `last_root` on disk |
| `saved` | the tower in `TowerStorage` |
| `banks`, `bank_root` | `BankForks` |
| `tower` | the replay stage's `Tower` |
| `vote_ops`, `op_stored` | the channel to the voting service, and whether the head's tower has been stored |
| `can_sign` | `generate_vote_tx` finds the voter's key |
| `locks` | history: the lockouts the votes sent so far impose |

Actions: `ReplayBank`; `Vote` (the checks of `select_vote_and_reset_forks` and
all of `handle_votable_bank`: record, set roots, prune, push); `RefreshLastVote`;
`ChangeSigner`; `StoreTower` and `SendVote`, the two halves of
`VotingService::handle_vote`; `Crash` at any point; `LoseLedger` (the blockstore
loses its newest writes); `Restart` (load, reconcile, replay, adjust); `Panic`,
enabled where an assertion of `is_locked_out` or of the switch check fails.

What other validators' stake decides is a nondeterministic choice: the heaviest
fork is any best slot, a switch proof or a threshold may or may not be there.
So is the set of slots the fork choice holds as invalid (`InvalidSlots`, chosen
anew at each vote): the best slot is a candidate without candidate children, and
may be an ancestor of a last vote whose fork became invalid, where the switch
check rolls back instead of failing its assertion. This makes the safety results
independent of stake and of which forks are marked invalid. A restart replays up to the last
root of the blockstore, to a later root that two thirds of the stake have
(`SupermajorityRoots`), or from a newer snapshot (`SnapshotRoots`); the cluster's
roots are taken to lie on one fork with the tower's. Blocks are named by their slot;
several versions of a slot are the subject of `DuplicateSlots`. The on-disk
tower is read back as it was written (`StoreTower` leaves out
`stray_restored_slot`, which is not serialized). `Locked` is the cluster's side:
a vote that arrives locks every slot of its stack for as long as its
confirmation count says.

`TowerInvariant` extends `Tower` with the inductive invariant (section 5).

### HeaviestSubtree: the fork choice tree

Operators from a tree to a tree, one for each method of
`HeaviestSubtreeForkChoice` that the replay stage calls: `AddNewLeafSlot`,
`AggregateSlot`, `ProcessUpdateOperations` (a batch is applied from the greatest
key to the smallest, and for one key in the reverse order of `UpdateLabel`),
`MarkForkInvalidCandidate`, `MarkForkValidCandidate`, `SetRoot`. A key is
`<<slot, hash>>`; hashes are numbers because ties are broken by comparing them.
The assertions are operators of their own (`MarkForkInvalidPanics`,
`MarkForkValidPanics`).

### ForkChoice: the tree fed with votes

State: the tree, the accounts' `latest_votes`, the banks, and
`max_replay_frozen_votes` of `LatestValidatorVotesForFrozenBanks`. Actions:
`FreezeBank`, `ComputeBankStats` (the votes found in one bank go through
`check_add_vote`, `take_votes_dirty_set` and `add_votes` in one step, as in the
loop of `compute_bank_stats`), `MarkDuplicate`, `MarkConfirmed`, `DumpBank`,
`NewRoot`. The reference the cached values are compared with is `StakeOfSubtree`
and `HeaviestLeaf`, which recompute weight and best slot from the votes alone.
`Stake` is 0 for an epoch or an account that the epoch stakes lack, as in the
code. Every bank is taken to hold the same stakes for the epochs of the tree; a
real bank keeps five epochs, more than an unrooted fork is expected to span.

### DuplicateSlots: several versions of a slot

State: the phase of the replay loop, the banks by status, the tree, the four
collections of the loop (`duplicate_slots_tracker`,
`gossip_duplicate_confirmed_slots`, `epoch_slots_frozen_slots`,
`duplicate_slots_to_repair`) and the bank hashes of the blockstore. The operators
`On...` compute the list of state changes of each handler of the verifier;
`ApplyStateChanges` folds them over the tree, the repair queue and the
blockstore, including the order inside one call. Actions: `GenerateBank`,
`FreezeBank`, `MarkDeadSlot`, `EpochSlotsFrozen`, `GossipDuplicateConfirmed`,
`DuplicateSlot`, `MarkSlotConfirmed`, `SelectForks`, `HandleNewRoot`,
`DumpThenRepair`, and `Advance` to the next handler of the loop. A handler takes
any number of signals in its phase, and none is obliged to arrive. A new root
keeps its ancestors in `BankForks` down to the highest slot the cluster has
rooted, which is a choice, so banks below the root may be left; no bank is
generated on them. The dump waits for a slot the PoH bank builds on: that bank
is absent or sits on any frozen bank of the tree, since it may have been reset to
the best slot or to the fork of the last vote in an earlier iteration.

`confirmable` is the fork the cluster confirms: confirmations by gossip or by
replayed votes only concern blocks on it (two thirds of the stake cannot confirm
two versions of a slot unless a third misbehaves). Samples
are what `handle_ancestor_request_decision` of the ancestor hashes service sends:
with `SamplesMayDisagree` they report any version, otherwise the confirmed one.
Votes are left out here, so the best slot is decided by validity and the order
of keys.

### How they compose

`Tower` uses `VoteState`; `ForkChoice` and `DuplicateSlots` both own a
`HeaviestSubtree`, the first with votes and stakes, the second with the
verifier. `Tower` sees the fork choice through the choice of any best slot, which
includes whatever `ForkChoice` selects. Composing the three in one state
machine is left to the plan: the product is out of TLC's reach, and an
abstract fork choice that both refine is the way there.

## 3. Runs

Every run is safety only, and no specification states fairness: nothing in
these components is obliged to happen (a block may not arrive, a confirmation
may be lost, a process may stay down), and the properties hold however little
happens. What must eventually happen is in the plan.

### Runs that pass

| run | properties | what it shows |
| --- | --- | --- |
| `tower_crash` | `TypeOK` `LockoutsRespected` `RootsAgree` `NoPanic` `RootsFinal` | a validator that crashes anywhere between recording, storing and sending a vote, and may boot from a newer snapshot or to a newer root of the cluster, breaks no lockout, whatever forks become invalid on the way; the three roots agree whenever it runs and only move to descendants |
| `tower_ledger_faults` | `LockoutsRespected` `SentVotesSaved` `LockoutInvariant` | the same when the blockstore loses its newest writes, with the inductive invariant of the proof |
| `tower_signer` | `TowerOnOneFork` `NoPanic` | with a voting key that comes and goes, the votes of the running tower still lie on one fork |
| `fork_choice` | `TypeOK` `StakeCounted` `BestSlotIsHeaviest` `ConfirmedIsCandidate` | the cached weights and best slots are what the votes alone determine, whatever the order of freezes, vote batches, marks, dumps and roots |
| `duplicate_slots` | `TypeOK` `NoPanic` `ConfirmationStored` | if samples report the confirmed version, no assertion of the handlers fails, and the blockstore knows of every confirmation the tree knows of |
| `duplicate_samples` | `ConfirmedVersionWins` `UnconfirmedDuplicatesExcluded` | even if samples disagree with the confirmed version, the gossip-confirmed version of a slot prevails in any order of arrival |

Deadlock is checked except where the system really stops: `fork_choice` ends
when every block is frozen and counted, and in `duplicate_samples` a panicked
process does nothing more.

### Runs that show a disagreement

Each checks one property that a comment or a document of the repository states,
and TLC finds a behaviour of the code that breaks it. The quotations are in
`findings` of `PROJECT.json`.

| run | property | what happens |
| --- | --- | --- |
| `roots_before_tower` | `TowerSavedBeforeRoots` | the running replay stage roots the blockstore at once, the tower is saved later by another thread. A comment in `consensus.rs` disclaims any ordering on disk and names the opposite order of calls. The restart handles either: `RootsAgree` and `RootsFinal` hold |
| `refresh_unsaved_vote` | `SentVotesSaved` | a vote that could not be signed is queued nowhere, so no tower is stored; when the key is back, `refresh_last_vote` sends it |
| `rollback_panic` | `NoPanic` | a corner case: after a restart on a ledger older than the tower's root, a tower whose lone vote was on that root loses the vote and keeps the root, so nothing is stray, and `is_locked_out` fails its assertion, where the log announces that voting is suspended |
| `fork_choice_hash` | `VotesOnSmallestHash` | a later bank's vote for another version of an account's latest slot gets a dirty-set entry with slot 0 and never reaches the fork choice |
| `duplicate_sampled` | `DuplicatesExcluded` | a slot with a duplicate proof stays a candidate when a sample matches the replayed version, although only a duplicate confirmation should allow that |
| `duplicate_repaired` | `NoPanic` | a slot is dumped because of a disagreeing sample, repaired in the same version and confirmed; its dumped descendants become candidates again and `select_forks` unwraps a missing bank |

Two smaller things are visible in the models and have no run. A bank frozen
below an invalid slot becomes that slot's `best_slot` until the next aggregation
(`propagate_new_leaf` does not ask whether the leaf is a candidate), which is why
`BestSlotIsHeaviest` speaks of candidates. And a slot that a disagreeing sample
queued for repair is dumped even if the confirmation of a descendant has since
confirmed it.

### Mutants

Every property of a passing run has a mutant: a definition changed as a
plausible bug would change it (the vote sent before the store, one vote too many
cut from the restored stack, only the new votes' ancestors aggregated). The
mutated forms stand beside the definitions, marked `Mutant:`. Each makes TLC
report the property as violated.

## 4. Bounds

- **Tower.** `MAX_LOCKOUT_HISTORY` is 2 (31 in the code): the third vote roots
  the first, so rooting, doubling and expiry all occur. Five slots allow two
  forks with rooting on one of them, and the last slot's distance (5 or 7) lets
  lockouts expire. `MAX_ENTRIES` is 4 where a vote is to fall out of the slot
  history and 100 where it is not to. `MaxVoteOps` is 2: one vote in the hands
  of the voting service and one waiting; 1 in `tower_signer`, whose properties
  are about the tower in memory, to stay within minutes with a changing key. The proofs in section 5 hold for all values.
- **ForkChoice.** Two trees: two versions of a slot with a block on each, and two
  forks on which a vote has ancestors the other fork lacks (a smaller tree does
  not tell apart which ancestors a moved vote has to update). Two accounts whose
  relative stake changes between epochs of two slots, so that a vote moves
  across an epoch boundary and ties occur; one has no stake in the last epoch.
- **DuplicateSlots.** One slot with three versions (one fails replay) and a child
  on each good one: enough for a confirmation to come from a descendant, for a
  dump to take a descendant along and for another version to replace a dumped
  one. The loop runs any number of times. `duplicate_samples` only has confirmed
  forks up to slot 2: confirmations are optional and its samples do not depend on
  the confirmed fork, so a shorter one adds nothing.
- **Reductions.** `Tower`'s slots differ by their order, and keys of the fork
  choice by their order too, so no symmetry is used.

## 5. Proofs

| theorem | module | statement |
| --- | --- | --- |
| `TypeCorrect` | `TowerProofs` | `Spec => []TypeOK` |
| `LockoutInvariantHolds` | `LockoutProofs` | `Spec => []LockoutInvariant`, if `~SignerChanges` |
| `LockoutSafety` | `LockoutProofs` | `Spec => []LockoutsRespected`, if `~SignerChanges` |

They hold for every set of slots, every history length, lockout depth and queue
bound, with and without newer snapshots and ledger faults. `VoteStateProofs` has
the lemmas on lockout stacks (what survives a push, what is rooted, how long a
vote stays locked), `LockoutLemmas` those on `Keeps` and on the restored tower.

**The argument.** `LockoutsRespected` only speaks of votes already sent, and is
not inductive: the next vote is made from a tower in memory, which on a restart
comes from the disk. `LockoutInvariant` therefore says what each tower that may
still be sent from (in memory, queued, saved) owes to each lock the validator is
bound to. `Keeps` is the conjunction of

- `Remembers`: the vote is still in the stack with at least that lockout, or lies
  on the fork of the root, or its lockout ends before anything the tower can still vote for;
- `AgreesWith`: the tower's own votes do not contradict the lock.

`LocksKept` states it for the locks sent, and for each queued tower against the
ones before it. `RefreshKept` covers the refreshed vote, which travels without a
tower: what it sends is kept by the last tower stored before it. The remaining
conjuncts give the shape that these need: the block tree (`TreeOK`, `KnownOK`), stacks
on one fork above their root (`SavedOK`, `MemoryOK`, `QueueOK`), and that the
saved tower is the head's once it is stored (`StoredOK`). The proof has one
lemma per action; the long ones are `Vote` (popping and doubling) and `Restart`
(cutting the stack at the slot history).

**Assumptions.** `SlotsAssumption`, `MaxEntriesAssumption`, `MaxVoteOpsAssumption`,
`SwitchesAssumption` and `MaxLockoutHistoryAssumption` give the constants their
types. `LockoutDoublesAssumption` states that powers of two are positive and
double, a fact of arithmetic the provers cannot derive because exponentiation is
uninterpreted to them; TLC evaluates it in every `Tower` run. `~SignerChanges` cannot be
dropped: with a changing key a vote is sent that no stored tower holds
(`refresh_unsaved_vote`), and if the validator then crashes it restores the older
tower and may vote on another fork, which breaks `LockoutsRespected` itself (TLC
finds it in 16 states with five slots).

**Only model-checked.** `SentVotesSaved`, `RootsAgree`, `RootsFinal`, `NoPanic`,
`TowerOnOneFork`, and everything about fork choice and duplicate slots.
Liveness, `ENABLED` and induction over recursive definitions are out of the
prover's reach.

## 6. What is not modelled

- **In Tower:** stake thresholds and switch proofs (a choice instead), a change of
  identity while running, the purge of the last vote's own bank as a duplicate and
  the free switch vote that the code then allows, a restart at a new hard fork or
  with `warp_slot`, for which the tower is discarded, a saved tower next to a
  vote account without votes, a tower file that an operating-system crash rolls back
  (it is renamed without a sync; without the file no lockout can be kept), and a
  start without `--require-tower`, which by design forgets the tower.
- **In ForkChoice:** `add_root_parent`, merging and splitting (used by repair
  weight), votes from gossip, `heaviest_slot_on_same_voted_fork`, and banks that
  disagree on, or have dropped, the stakes of an epoch.
- **In DuplicateSlots:** stake, so the best slot is decided by validity and key
  order; the internals of the service that samples; the `expect`s inside the dump
  and in `heaviest_slot_on_same_voted_fork`; restart from the stored hashes.
- **Elsewhere:** the parts marked `not_modelled` in `PROJECT.json`, with reasons.

## 7. Plan

1. `VoteProgram`: `check_slots_are_valid`, authorized voters by epoch, credits;
   that it accepts what the tower sends relates it to `Tower`.
2. `SlotHistory` as a circular bit vector, implementing `CheckHistory`.
3. Stake thresholds and switch proofs; an abstract fork choice which `ForkChoice`
   implements and `Tower` uses; a refinement from `Tower` to an
   abstract voter that only knows its locks.
4. Optimistic confirmation and the vote stake trackers; commitment.
5. Gossip votes and repair weight (merge, `add_root_parent`) in `ForkChoice`; the
   sampling service in `DuplicateSlots`.
6. Liveness of the voting service (a queued vote is eventually sent) and of the
   repair loop, under the fairness of their threads.
7. The proof-of-history recorder, status cache and blockhash queue, outstanding
   repair requests, the stake program, the NFT staking program.
8. Proofs: `SentVotesSaved`, `RootsFinal` and `TowerOnOneFork` from the existing
   invariant, lemmas on `HeaviestSubtree`, `ConfirmedIsCandidate`.
