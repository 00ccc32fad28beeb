---------------------------- MODULE ForkChoice ----------------------------
(***************************************************************************)
(* The fork choice of one validator: HeaviestSubtreeForkChoice fed with    *)
(* the replayed votes that LatestValidatorVotesForFrozenBanks keeps        *)
(* (core/src/heaviest_subtree_fork_choice.rs and                           *)
(* core/src/latest_validator_votes_for_frozen_banks.rs).                   *)
(*                                                                         *)
(* All of it is owned by the replay thread: one action is one call from    *)
(* the replay loop.                                                        *)
(***************************************************************************)
EXTENDS HeaviestSubtree

CONSTANTS Genesis,         \* the key of the first root
          Trees,           \* block trees: maps from the other keys to their parents
          Pubkeys,         \* vote accounts
          EpochStakes,     \* epoch -> vote account -> stake
          SLOTS_PER_EPOCH

VARIABLES tree,                     \* the blocks there are, each with its parent
          banks,                    \* the frozen banks (BankForks)
          fork_infos, latest_votes, root,
          computed,                 \* the banks whose stats are computed (progress)
          max_replay_frozen_votes

votes == <<latest_votes, max_replay_frozen_votes>>
vars == <<tree, banks, fork_infos, latest_votes, root, computed, max_replay_frozen_votes>>

(* A block's parent has a smaller slot.                                    *)
ASSUME TreesAssumption ==
    \A t \in Trees : \A k \in DOMAIN t :
        t[k] \in DOMAIN t \cup {Genesis} /\ t[k][1] < k[1]

(* The stake of an account at the epoch of a slot, 0 if the stakes of the  *)
(* epoch are not known or do not name it.  Every bank is taken to hold the *)
(* same stakes for the epochs of the tree.                                 *)
Stake(pubkey, slot) ==
    LET epoch == slot \div SLOTS_PER_EPOCH IN
    IF epoch \in DOMAIN EpochStakes /\ pubkey \in DOMAIN EpochStakes[epoch]
    THEN EpochStakes[epoch][pubkey]
    ELSE 0

Init ==
    /\ tree \in Trees
    /\ banks = {Genesis} /\ computed = {Genesis}
    /\ fork_infos = NewTree(Genesis)
    /\ latest_votes = [p \in Pubkeys |-> None]
    /\ root = Genesis
    /\ max_replay_frozen_votes = [p \in Pubkeys |-> {}]

(* A bank is frozen on top of its parent.  BankForks holds one version of  *)
(* a slot; the fork choice may still know this key from before it was      *)
(* dumped.                                                                 *)
FreezeBank(k) ==
    /\ tree[k] \in banks
    /\ \A b \in banks : b[1] # k[1]
    /\ banks' = banks \cup {k}
    /\ fork_infos' = AddNewLeafSlot(fork_infos, k, tree[k])
    /\ UNCHANGED <<tree, votes, root, computed>>

(* purge_unconfirmed_duplicate_slot: the banks of an invalid version and   *)
(* of its descendants are purged, so that another version can be replayed. *)
(* The fork choice keeps them.                                             *)
DumpBank(k) ==
    /\ fork_infos[k].latest_invalid_ancestor = {k[1]}
    /\ \E other \in DOMAIN tree : other # k /\ other[1] = k[1]
    /\ banks' = banks \ Subtree(fork_infos, k)
    /\ computed' = computed \ Subtree(fork_infos, k)
    /\ UNCHANGED <<tree, votes, root, fork_infos>>

----------------------------------------------------------------------------
(* check_add_vote for a replayed vote: the account's latest votes (the     *)
(* keys seen for its latest slot) and its entry of fork_choice_dirty_set.  *)
(* The dirty set is empty before the call; a second hash for the latest    *)
(* slot goes to an entry made by or_default(), whose slot is 0.            *)
CheckAddVote(max, k) ==
    IF \A m \in max : k[1] > m[1]
    THEN [max |-> {k}, dirty |-> k]
    ELSE IF k \notin max /\ \A m \in max : k[1] = m[1]
    THEN [max |-> max \cup {k}, dirty |-> <<0, k[2]>>]
    ELSE [max |-> max, dirty |-> None]

(* generate_update_operations keeps a vote of the batch when it is not     *)
(* below the root and is newer than the account's latest: a later slot, or *)
(* the same slot with a smaller hash.                                      *)
IsNewVote(p, k) ==
    /\ k # None
    /\ k[1] >= root[1]
    /\ \/ latest_votes[p] = None
       \/ k[1] > latest_votes[p][1]
       \/ k[1] = latest_votes[p][1] /\ k[2] < latest_votes[p][2]

(* The stake of the accounts in `ps`, gathered at the keys `vote` gives.   *)
StakeOn(ps, vote) ==
    [k \in {vote[p] : p \in ps} |->
        FoldSet(LAMBDA p, sum : sum + Stake(p, k[1]), 0, {p \in ps : vote[p] = k})]

(* Mutant: only the ancestors of the new votes are aggregated.             *)
GenerateUpdateOperationsAbove(batch) ==
    LET newer == {p \in Pubkeys : IsNewVote(p, batch[p])}
        moved == {p \in newer : latest_votes[p] # None}
    IN  [NoOperations EXCEPT
            !.subtract  = StakeOn(moved, latest_votes),
            !.add       = StakeOn(newer, batch),
            !.aggregate = UNION {Ancestors(fork_infos, batch[p]) : p \in newer}]

GenerateUpdateOperations(batch) ==
    LET newer == {p \in Pubkeys : IsNewVote(p, batch[p])}
        moved == {p \in newer : latest_votes[p] # None /\ Stake(p, latest_votes[p][1]) > 0}
    IN  [NoOperations EXCEPT
            !.subtract  = StakeOn(moved, latest_votes),
            !.add       = StakeOn(newer, batch),
            !.aggregate = UNION ({Ancestors(fork_infos, latest_votes[p]) : p \in moved}
                                 \cup {Ancestors(fork_infos, batch[p]) : p \in newer})]

(* compute_bank_stats of a newly frozen bank: collect_vote_lockouts passes *)
(* the last vote of every account in the bank to check_add_vote, then      *)
(* take_votes_dirty_set feeds add_votes.  The votes a bank holds are for   *)
(* ancestors of it.  `last` gives None for an account that has not voted,  *)
(* or whose vote is for a bank that is no longer here; a vote older than   *)
(* the one in the parent bank has the effect of the parent's: none.        *)
ComputeBankStats(bank, last) ==
    LET checked == [p \in Pubkeys |->
                        IF last[p] = None
                        THEN [max |-> max_replay_frozen_votes[p], dirty |-> None]
                        ELSE CheckAddVote(max_replay_frozen_votes[p], last[p])]
        batch   == [p \in Pubkeys |-> checked[p].dirty]
    IN  /\ max_replay_frozen_votes' = [p \in Pubkeys |-> checked[p].max]
        /\ latest_votes' = [p \in Pubkeys |-> IF IsNewVote(p, batch[p]) THEN batch[p]
                                              ELSE latest_votes[p]]
        /\ fork_infos' = ProcessUpdateOperations(fork_infos, GenerateUpdateOperations(batch))
        /\ computed' = computed \cup {bank}
        /\ UNCHANGED <<tree, banks, root>>

(* The slot was found to be a duplicate and no version of it that the      *)
(* tree holds as confirmed (the callers' condition).                       *)
MarkDuplicate(k) ==
    /\ ~fork_infos[k].is_duplicate_confirmed
    /\ fork_infos' = MarkForkInvalidCandidate(fork_infos, k)
    /\ UNCHANGED <<tree, banks, votes, root, computed>>

(* The cluster confirmed this version of the slot.                         *)
MarkConfirmed(k) ==
    /\ ~fork_infos[k].is_duplicate_confirmed
    /\ fork_infos' = MarkForkValidCandidate(fork_infos, k)
    /\ UNCHANGED <<tree, banks, votes, root, computed>>

(* A vote on the best slot roots one of its ancestors.  The replay loop    *)
(* votes after it has computed the stats of every frozen bank.             *)
NewRoot(k) ==
    /\ banks \subseteq computed
    /\ k \in Path(fork_infos, BestOverallSlot(fork_infos, root))
    /\ k # root
    /\ fork_infos' = SetRoot(fork_infos, k)
    /\ banks' = banks \cap Subtree(fork_infos, k)
    /\ root' = k
    /\ UNCHANGED <<tree, votes, computed>>

Next ==
    \/ \E k \in DOMAIN tree : FreezeBank(k)
    \/ \E k \in banks : DumpBank(k)
    \/ \E bank \in banks \ computed :
        \E last \in [Pubkeys -> Ancestors(fork_infos, bank) \cup {None}] :
            ComputeBankStats(bank, last)
    \/ \E k \in banks : MarkDuplicate(k)
    \/ \E k \in banks : MarkConfirmed(k)
    \/ \E k \in banks : NewRoot(k)

Spec == Init /\ [][Next]_vars

----------------------------------------------------------------------------
(* The tree hangs together below its root: set_root leaves the root        *)
(* without a parent, a cached best_slot is in the subtree of its node, and *)
(* the subtraction of a moved vote's stake never goes below zero.          *)
TypeOK ==
    /\ tree \in Trees
    /\ root \in DOMAIN fork_infos /\ fork_infos[root].parent = None
    /\ DOMAIN fork_infos \subseteq DOMAIN tree \cup {Genesis}
    /\ \A k \in DOMAIN fork_infos :
        /\ fork_infos[k].best_slot \in Subtree(fork_infos, k)
        /\ fork_infos[k].stake_voted_at \in Nat

(* The stake of the accounts whose latest vote is in the subtree of k.     *)
StakeOfSubtree(k) ==
    LET voters == {p \in Pubkeys : latest_votes[p] \in Subtree(fork_infos, k)}
    IN  FoldSet(LAMBDA p, sum : sum + Stake(p, latest_votes[p][1]), 0, voters)

(* Every node's weight is exactly the stake of the accounts whose latest   *)
(* vote is in its subtree: whatever the order of freezes, batches of       *)
(* votes, marks and roots, no stake is counted twice, left behind on the   *)
(* fork of an older vote (generate_update_operations), or lost by a batch  *)
(* that aggregates too little.                                             *)
StakeCounted ==
    \A k \in DOMAIN fork_infos : fork_infos[k].stake_voted_subtree = StakeOfSubtree(k)

(* The reference: descend from k to the candidate child with the most      *)
(* stake, the smaller key on a tie, until there is none.                   *)
HeaviestLeaf(k) ==
    LET best[x \in DOMAIN fork_infos] ==
            LET candidates == {c \in Children(fork_infos, x) : IsCandidate(fork_infos, c)}
                top == CHOOSE c \in candidates : \A d \in candidates \ {c} :
                          \/ StakeOfSubtree(c) > StakeOfSubtree(d)
                          \/ StakeOfSubtree(c) = StakeOfSubtree(d) /\ KeyLess(c, d)
            IN  IF candidates = {} THEN x ELSE best[top]
    IN  best[k]

(* The cached best_slot of every candidate is what a descent by the votes  *)
(* would find: the incremental updates (propagate_new_leaf on a freeze,    *)
(* aggregate_slot after votes and marks) never leave a stale cache, at the *)
(* root or anywhere the validator may have voted.                          *)
BestSlotIsHeaviest ==
    \A k \in DOMAIN fork_infos :
        IsCandidate(fork_infos, k) => fork_infos[k].best_slot = HeaviestLeaf(k)

(* A confirmed block is a candidate and so are its ancestors, which are    *)
(* confirmed too: mark_fork_valid_candidate reaches the root whatever was  *)
(* marked before, and no later mark undoes it.                             *)
ConfirmedIsCandidate ==
    \A k \in DOMAIN fork_infos : fork_infos[k].is_duplicate_confirmed =>
        \A a \in Path(fork_infos, k) :
            fork_infos[a].is_duplicate_confirmed /\ IsCandidate(fork_infos, a)

(* A comment in generate_update_operations: a vote for the same slot but a *)
(* smaller hash is processed, "as this is a duplicate version of the same  *)
(* slot".  So an account's stake is on the smallest hash it is known to    *)
(* have voted for.                                                         *)
VotesOnSmallestHash ==
    \A p \in Pubkeys : \A k \in max_replay_frozen_votes[p] :
        k[1] >= root[1] => ~KeyLess(k, latest_votes[p])

====
