-------------------------- MODULE HeaviestSubtree --------------------------
(***************************************************************************)
(* The tree of HeaviestSubtreeForkChoice                                   *)
(* (core/src/heaviest_subtree_fork_choice.rs) and the operations on it.    *)
(* A tree `t` is the map fork_infos: from the SlotHashKeys it holds to     *)
(* their ForkInfo.  A key is a pair <<slot, hash>>; hashes are numbers,    *)
(* because the code compares them.  The operations that mutate the struct  *)
(* are operators from a tree to a tree, so that the state machines that    *)
(* own a fork choice can compose several of them in one step.              *)
(*                                                                         *)
(* `children` is a function of the parents (add_new_leaf_slot and set_root *)
(* keep the two in step), and the order of a node's children never         *)
(* decides anything: ties are broken by the key.                           *)
(***************************************************************************)
EXTENDS Naturals, Sequences, FiniteSets, SequencesExt

None == <<"None">>

KeyLess(k, l) == k[1] < l[1] \/ (k[1] = l[1] /\ k[2] < l[2])

NewForkInfo(k, parent, invalidAncestor) ==
    [stake_voted_at |-> 0, stake_voted_subtree |-> 0, best_slot |-> k,
     parent |-> parent, latest_invalid_ancestor |-> invalidAncestor,
     is_duplicate_confirmed |-> parent = None]

(* latest_invalid_ancestor, an Option<Slot>, is a set of at most one slot. *)
IsCandidate(t, k) == t[k].latest_invalid_ancestor = {}

Children(t, k) == {c \in DOMAIN t : t[c].parent = k}

(* ancestor_iterator: the strict ancestors of k.                           *)
Ancestors(t, k) ==
    LET above[x \in DOMAIN t] ==
            IF t[x].parent = None THEN {} ELSE {t[x].parent} \cup above[t[x].parent]
    IN  IF k \in DOMAIN t THEN above[k] ELSE {}

Path(t, k) == {k} \cup Ancestors(t, k)

(* subtree_diff(k, default): everything reachable from k, itself included. *)
Subtree(t, k) == {d \in DOMAIN t : k \in Path(t, d)}

(* k is preferred to l: more stake, or as much and the smaller key.        *)
Heavier(t, k, l) ==
    \/ t[k].stake_voted_subtree > t[l].stake_voted_subtree
    \/ t[k].stake_voted_subtree = t[l].stake_voted_subtree /\ KeyLess(k, l)

(* Mutant: a child that is no candidate still counts.                      *)
IsBestChildOfAll(t, k) ==
    t[k].parent # None => \A c \in Children(t, t[k].parent) : ~Heavier(t, c, k)

IsBestChild(t, k) ==
    t[k].parent # None =>
        \A c \in Children(t, t[k].parent) : IsCandidate(t, c) => ~Heavier(t, c, k)

(* propagate_new_leaf: the unbroken run of ancestors, from the parent up,  *)
(* that had the parent's best slot as theirs now have the leaf.            *)
PropagateNewLeaf(t, leaf) ==
    LET parent == t[leaf].parent
        old    == t[parent].best_slot
        agrees == {a \in Path(t, parent) :
                      \A b \in Path(t, parent) : a \in Path(t, b) => t[b].best_slot = old}
    IN  IF IsBestChild(t, leaf)
        THEN [k \in DOMAIN t |-> IF k \in agrees THEN [t[k] EXCEPT !.best_slot = leaf]
                                                 ELSE t[k]]
        ELSE t

AddNewLeafSlot(t, k, parent) ==
    IF k \in DOMAIN t
    THEN t
    ELSE LET info == NewForkInfo(k, parent, IF parent = None THEN {}
                                            ELSE t[parent].latest_invalid_ancestor)
             grown == [l \in DOMAIN t \cup {k} |-> IF l = k THEN info ELSE t[l]]
         IN  IF parent = None THEN grown ELSE PropagateNewLeaf(grown, k)

(* HeaviestSubtreeForkChoice::new.                                         *)
NewTree(root) == AddNewLeafSlot(<<>>, root, None)

AggregateSlot(t, k) ==
    LET children   == Children(t, k)
        candidates == {c \in children : IsCandidate(t, c)}
        confirmed  == \E c \in children : t[c].is_duplicate_confirmed
        best       == CHOOSE c \in candidates : \A d \in candidates \ {c} : Heavier(t, c, d)
    IN  [t EXCEPT ![k] =
            [@ EXCEPT
                !.stake_voted_subtree =
                    FoldSet(LAMBDA c, sum : sum + t[c].stake_voted_subtree,
                            t[k].stake_voted_at, children),
                !.best_slot = IF candidates = {} THEN k ELSE t[best].best_slot,
                !.is_duplicate_confirmed = @ \/ confirmed,
                !.latest_invalid_ancestor = IF confirmed THEN {} ELSE @]]

(***************************************************************************)
(* A batch of UpdateOperations, as a record of its kinds:                  *)
(*   subtract, add : key -> stake (0: no operation)                        *)
(*   invalid, valid : the keys to notify that `slot` was marked            *)
(*   aggregate     : the keys to aggregate.                                *)
(***************************************************************************)
NoStake == [k \in {} |-> 0]
NoOperations == [subtract |-> NoStake, add |-> NoStake, invalid |-> {}, valid |-> {},
                 slot |-> 0, aggregate |-> {}]

StakeAt(stakes, k) == IF k \in DOMAIN stakes THEN stakes[k] ELSE 0

(* add_slot_stake and subtract_slot_stake.  The two are u64 in the code;   *)
(* StakeCounted (in ForkChoice) has as a consequence that the difference   *)
(* never underflows.                                                       *)
AddSlotStake(t, k, add, subtract) ==
    [t EXCEPT ![k].stake_voted_at = @ + add - subtract,
              ![k].stake_voted_subtree = @ + add - subtract]

(* update_with_newly_invalid_ancestor.                                     *)
MarkInvalid(t, k, slot) ==
    [t EXCEPT ![k].latest_invalid_ancestor = {Max(@ \cup {slot})}]

(* update_with_newly_valid_ancestor, and the flag on the slot itself.      *)
MarkValid(t, k, slot) ==
    [t EXCEPT ![k].latest_invalid_ancestor = {invalid \in @ : invalid > slot},
              ![k].is_duplicate_confirmed = @ \/ k[1] = slot]

(* The operations on one key, in the reverse order of UpdateLabel.         *)
ApplyOperations(t, k, ops) ==
    LET staked  == AddSlotStake(t, k, StakeAt(ops.add, k), StakeAt(ops.subtract, k))
        invalid == IF k \in ops.invalid THEN MarkInvalid(staked, k, ops.slot) ELSE staked
        valid   == IF k \in ops.valid THEN MarkValid(invalid, k, ops.slot) ELSE invalid
    IN  IF k \in ops.aggregate THEN AggregateSlot(valid, k) ELSE valid

(* process_update_operations: from the greatest key to the smallest, so    *)
(* that children are aggregated before their parents.  Keys that are not   *)
(* in the tree are skipped.                                                *)
ProcessUpdateOperations(t, ops) ==
    LET keys == DOMAIN t \cap (DOMAIN ops.add \cup DOMAIN ops.subtract
                               \cup ops.invalid \cup ops.valid \cup ops.aggregate)
        last(ks) == CHOOSE k \in ks : \A l \in ks \ {k} : KeyLess(k, l)
    IN  MapThenFoldSet(LAMBDA k, u : ApplyOperations(u, k, ops), t, LAMBDA k : k, last, keys)

(* mark_fork_invalid_candidate, and the states in which one of its         *)
(* assertions fails.                                                       *)
MarkForkInvalidCandidate(t, k) ==
    IF k \notin DOMAIN t
    THEN t
    ELSE ProcessUpdateOperations(t,
            [NoOperations EXCEPT !.invalid = Subtree(t, k), !.slot = k[1],
                                 !.aggregate = Subtree(t, k) \cup Ancestors(t, k)])

MarkForkInvalidPanics(t, k) ==
    k \in DOMAIN t /\ \E d \in Subtree(t, k) : t[d].is_duplicate_confirmed

(* Mutant: the ancestors are not aggregated.                               *)
MarkForkValidBelow(t, k) ==
    ProcessUpdateOperations(t,
        [NoOperations EXCEPT !.valid = Subtree(t, k), !.slot = k[1],
                             !.aggregate = Subtree(t, k)])

(* mark_fork_valid_candidate; it unwraps the flag of the key itself.       *)
MarkForkValidCandidate(t, k) ==
    ProcessUpdateOperations(t,
        [NoOperations EXCEPT !.valid = Subtree(t, k), !.slot = k[1],
                             !.aggregate = Subtree(t, k) \cup Ancestors(t, k)])

MarkForkValidPanics(t, k) == k \notin DOMAIN t

(* Mutant: only the slot that was confirmed.                               *)
NewlyDuplicateConfirmedSlot(t, k) == {a \in {k} : ~t[a].is_duplicate_confirmed}

NewlyDuplicateConfirmed(t, k) == {a \in Path(t, k) : ~t[a].is_duplicate_confirmed}

(* Mutant: the new root keeps its parent.                                  *)
SetRootWithParent(t, newRoot) == [k \in Subtree(t, newRoot) |-> t[k]]

(* set_root: what is not below the new root is removed.                    *)
SetRoot(t, newRoot) ==
    [k \in Subtree(t, newRoot) |->
        IF k = newRoot THEN [t[k] EXCEPT !.parent = None] ELSE t[k]]

BestOverallSlot(t, root) == t[root].best_slot

====
