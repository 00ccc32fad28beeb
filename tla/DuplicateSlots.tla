--------------------------- MODULE DuplicateSlots ---------------------------
(***************************************************************************)
(* How the replay loop recovers from duplicate slots: a leader made two    *)
(* versions of a block, and the version replayed here need not be the one  *)
(* the cluster confirms.  The module models                                *)
(*   core/src/cluster_slot_state_verifier.rs  (which reconciles what is    *)
(*     known of a slot with the version replayed here),                    *)
(*   the handlers of core/src/replay_stage.rs that call it, in the order   *)
(*     of the loop, up to dump_then_repair_correct_slots,                  *)
(*   the fork choice tree (HeaviestSubtree), and                           *)
(*   the bank hashes of ledger/src/blockstore.rs.                          *)
(* Votes are left out: here every node weighs the same, and the best slot  *)
(* is decided by validity and by the order of the keys.                    *)
(*                                                                         *)
(* A block is a key <<slot, hash>>; <<slot, 0>> is a block that fails      *)
(* replay (the code uses Hash::default() for the hash of a dead bank).     *)
(* An Option is a set of at most one element.                              *)
(***************************************************************************)
EXTENDS HeaviestSubtree

CONSTANTS Genesis,     \* the key of the first root
          Tree,        \* the blocks there are, each with its parent
          ConfirmedTips,       \* where the fork the cluster confirms may end
          SamplesMayDisagree   \* an EpochSlots sample may report another version

VARIABLES
    phase,             \* where the replay loop is
    confirmable,       \* the fork that the cluster confirms
    active, frozen, dead,           \* BankForks and progress: banks by status
    supermajority_confirmed,        \* progress: slots confirmed by replay
    fork_infos, root,               \* HeaviestSubtreeForkChoice
    duplicate_slots_tracker,
    gossip_duplicate_confirmed_slots,
    epoch_slots_frozen_slots,
    duplicate_slots_to_repair,
    bank_hashes,                    \* Blockstore: frozen hash, and if confirmed
    panicked

bankVars == <<active, frozen, dead, supermajority_confirmed>>
signals == <<duplicate_slots_tracker, gossip_duplicate_confirmed_slots,
             epoch_slots_frozen_slots>>
outcome == <<fork_infos, duplicate_slots_to_repair, bank_hashes, panicked>>
vars == <<phase, confirmable, bankVars, root, signals, outcome>>

Blocks == DOMAIN Tree \cup {Genesis}
Slots == {k[1] : k \in Blocks}
Hashes == {k[2] : k \in Blocks} \ {0}

ASSUME TreeAssumption ==
    /\ ConfirmedTips \subseteq DOMAIN Tree /\ \A k \in ConfirmedTips : k[2] # 0
    /\ \A k \in DOMAIN Tree : Tree[k] \in Blocks /\ Tree[k][2] # 0 /\ Tree[k][1] < k[1]

BlockPath(k) ==
    LET path[l \in Blocks] == IF l = Genesis THEN {l} ELSE {l} \cup path[Tree[l]]
    IN  path[k]

Phases == <<"generate", "replay", "epoch_slots", "gossip", "duplicate", "confirm",
            "select", "dump">>

NextPhase(p) == LET i == CHOOSE j \in 1..Len(Phases) : Phases[j] = p
                IN  Phases[(i % Len(Phases)) + 1]

Init ==
    /\ phase = "generate"
    /\ \E tip \in ConfirmedTips : confirmable = BlockPath(tip)
    /\ active = {} /\ frozen = {Genesis} /\ dead = {}
    /\ supermajority_confirmed = {}
    /\ fork_infos = NewTree(Genesis) /\ root = Genesis
    /\ duplicate_slots_tracker = {}
    /\ gossip_duplicate_confirmed_slots = [s \in Slots |-> {}]
    /\ epoch_slots_frozen_slots = [s \in Slots |-> {}]
    /\ duplicate_slots_to_repair = [s \in Slots |-> {}]
    /\ bank_hashes = [s \in Slots |-> {}]
    /\ panicked = FALSE

----------------------------------------------------------------------------
(* BankStatus::bank_hash: none while the slot is unprocessed, the default  *)
(* hash for a dead slot.                                                   *)
BankHash(s) == {k[2] : k \in {b \in frozen \cup dead : b[1] = s}}

IsDuplicateConfirmed(t, k) == k \in DOMAIN t /\ t[k].is_duplicate_confirmed

(* get_duplicate_confirmed_hash: the version replayed here, if the fork    *)
(* choice has it as confirmed; what gossip says otherwise.                 *)
DuplicateConfirmedHash(t, s, bankHash) ==
    LET replayed == {h \in bankHash : IsDuplicateConfirmed(t, <<s, h>>)}
    IN  IF replayed # {} THEN replayed ELSE gossip_duplicate_confirmed_slots[s]

Change(kind, hash) == [kind |-> kind, hash |-> hash]

(* Mutant: the other version is repaired, ours stays a candidate.          *)
CheckDuplicateConfirmedHashRepair(confirmed, bankHash) ==
    IF confirmed # bankHash
    THEN <<Change("RepairDuplicateConfirmedVersion", confirmed)>>
    ELSE <<Change("DuplicateConfirmedSlotMatchesCluster", bankHash)>>

CheckDuplicateConfirmedHash(confirmed, bankHash) ==
    IF confirmed # bankHash
    THEN <<Change("MarkSlotDuplicate", bankHash),
           Change("RepairDuplicateConfirmedVersion", confirmed)>>
    ELSE <<Change("DuplicateConfirmedSlotMatchesCluster", bankHash)>>

CheckEpochSlotsHash(sampled, bankHash) ==
    IF sampled # bankHash
    THEN <<Change("MarkSlotDuplicate", bankHash),
           Change("RepairDuplicateConfirmedVersion", sampled)>>
    ELSE <<>>

(* What on_dead_slot and on_frozen_slot have in common: the strongest of   *)
(* what is known of the slot decides.                                      *)
OnReplayed(t, s, h) ==
    LET confirmed == DuplicateConfirmedHash(t, s, {h})
        sampled   == epoch_slots_frozen_slots[s]
    IN  IF confirmed # {}
        THEN CheckDuplicateConfirmedHash(CHOOSE c \in confirmed : TRUE, h)
        ELSE IF sampled # {}
        THEN CheckEpochSlotsHash(CHOOSE e \in sampled : TRUE, h)
        ELSE IF s \in duplicate_slots_tracker THEN <<Change("MarkSlotDuplicate", h)>>
        ELSE <<>>

OnDeadSlot(t, s) == OnReplayed(t, s, 0)

(* Mutant: a duplicate proof that came before the freeze is forgotten.     *)
OnFrozenSlotUntracked(t, s, h) ==
    <<Change("BankFrozen", h)>>
        \o IF DuplicateConfirmedHash(t, s, {h}) \cup epoch_slots_frozen_slots[s] = {}
           THEN <<>> ELSE OnReplayed(t, s, h)

OnFrozenSlot(t, s, h) == <<Change("BankFrozen", h)>> \o OnReplayed(t, s, h)

OnDuplicateConfirmed(s, confirmed, bankHash) ==
    IF bankHash = {} THEN <<>>
    ELSE CheckDuplicateConfirmedHash(confirmed, CHOOSE b \in bankHash : TRUE)

(* Mutant: a duplicate proof marks the slot even if it is confirmed.       *)
OnDuplicateAlways(s) ==
    IF BankHash(s) = {} THEN <<>>
    ELSE <<Change("MarkSlotDuplicate", CHOOSE b \in BankHash(s) : TRUE)>>

OnDuplicate(s) ==
    IF BankHash(s) = {} \/ DuplicateConfirmedHash(fork_infos, s, BankHash(s)) # {}
    THEN <<>>
    ELSE <<Change("MarkSlotDuplicate", CHOOSE b \in BankHash(s) : TRUE)>>

OnEpochSlotsFrozen(s, sampled) ==
    IF DuplicateConfirmedHash(fork_infos, s, BankHash(s)) # {} \/ BankHash(s) = {}
    THEN <<>>
    ELSE CheckEpochSlotsHash(sampled, CHOOSE b \in BankHash(s) : TRUE)

----------------------------------------------------------------------------
(* insert_bank_hash(.., false) never overwrites a confirmation of the same *)
(* hash.                                                                   *)
InsertBankHash(hashes, s, h) ==
    IF hashes[s] = {<<h, TRUE>>} THEN hashes ELSE [hashes EXCEPT ![s] = {<<h, FALSE>>}]

SetDuplicateConfirmed(hashes, keys) ==
    [s \in Slots |-> IF \E k \in keys : k[1] = s
                     THEN {<<k[2], TRUE>> : k \in {l \in keys : l[1] = s}}
                     ELSE hashes[s]]

(* One ResultingStateChange applied to the state `r` that                  *)
(* apply_state_changes carries from one to the next.                       *)
ApplyStateChange(s, r, change) ==
    LET k == <<s, change.hash>> IN
    CASE change.kind = "BankFrozen" ->
            IF r.tree[k].is_duplicate_confirmed THEN r ELSE [r EXCEPT !.unconfirmed = {k[2]}]
      [] change.kind = "MarkSlotDuplicate" ->
            [r EXCEPT !.tree = MarkForkInvalidCandidate(@, k),
                      !.panic = @ \/ MarkForkInvalidPanics(r.tree, k)]
      [] change.kind = "RepairDuplicateConfirmedVersion" ->
            [r EXCEPT !.repair[s] = {k[2]}]
      [] change.kind = "DuplicateConfirmedSlotMatchesCluster" ->
            IF MarkForkValidPanics(r.tree, k)
            THEN [r EXCEPT !.panic = TRUE]
            ELSE [r EXCEPT !.unconfirmed = {},
                           !.tree = MarkForkValidCandidate(@, k),
                           !.hashes = SetDuplicateConfirmed(@, NewlyDuplicateConfirmed(r.tree, k)),
                           !.repair[s] = {}]

ApplyStateChanges(t, s, changes) ==
    LET start == [tree |-> t, repair |-> duplicate_slots_to_repair, hashes |-> bank_hashes,
                  panic |-> panicked, unconfirmed |-> {}]
        end   == FoldLeft(LAMBDA r, change : ApplyStateChange(s, r, change), start, changes)
    IN  /\ fork_infos' = end.tree
        /\ duplicate_slots_to_repair' = end.repair
        /\ bank_hashes' = IF end.unconfirmed = {} THEN end.hashes
                          ELSE InsertBankHash(end.hashes, s, CHOOSE h \in end.unconfirmed : TRUE)
        /\ panicked' = end.panic

(* check_slot_agrees_with_cluster, after its early returns.  `t` is the    *)
(* tree the caller has already updated.                                    *)
CheckSlotAgreesWithCluster(t, s, changes) ==
    ApplyStateChanges(t, s, IF s <= root[1] THEN <<>> ELSE changes)

----------------------------------------------------------------------------
(* The replay loop.  A handler takes any number of signals in its phase.   *)
At(p) == ~panicked /\ phase = p /\ UNCHANGED confirmable

(* Mutant: a slot that has a bank gets another.                            *)
GenerateBankAgain(k) ==
    /\ At("generate")
    /\ Tree[k] \in frozen /\ Tree[k][1] >= root[1]
    /\ active' = active \cup {k}
    /\ UNCHANGED <<phase, frozen, dead, supermajority_confirmed, root, signals, outcome>>

(* generate_new_bank_forks: a block that has arrived, on a frozen parent   *)
(* not below the root, for a slot that has no bank.                        *)
GenerateBank(k) ==
    /\ At("generate")
    /\ Tree[k] \in frozen /\ Tree[k][1] >= root[1]
    /\ \A b \in active \cup frozen \cup dead : b[1] # k[1]
    /\ active' = active \cup {k}
    /\ UNCHANGED <<phase, frozen, dead, supermajority_confirmed, root, signals, outcome>>

(* replay_active_banks, for a bank that completes: freeze.                 *)
FreezeBank(k) ==
    /\ At("replay")
    /\ k \in active /\ k[2] # 0
    /\ active' = active \ {k} /\ frozen' = frozen \cup {k}
    /\ LET grown == AddNewLeafSlot(fork_infos, k, Tree[k])
       IN  CheckSlotAgreesWithCluster(grown, k[1], OnFrozenSlot(grown, k[1], k[2]))
    /\ UNCHANGED <<phase, dead, supermajority_confirmed, root, signals>>

(* replay_active_banks, for a bank that fails: mark_dead_slot.             *)
MarkDeadSlot(k) ==
    /\ At("replay")
    /\ k \in active /\ k[2] = 0
    /\ active' = active \ {k} /\ dead' = dead \cup {k}
    /\ CheckSlotAgreesWithCluster(fork_infos, k[1], OnDeadSlot(fork_infos, k[1]))
    /\ UNCHANGED <<phase, frozen, supermajority_confirmed, root, signals>>

(* process_epoch_slots_frozen_dead_slots, for one (slot, hash).  The same  *)
(* hash again is ignored.                                                  *)
EpochSlotsFrozen(s, h) ==
    /\ At("epoch_slots")
    /\ IF s <= root[1] \/ epoch_slots_frozen_slots[s] = {h}
       THEN UNCHANGED <<epoch_slots_frozen_slots, outcome>>
       ELSE /\ epoch_slots_frozen_slots' = [epoch_slots_frozen_slots EXCEPT ![s] = {h}]
            /\ CheckSlotAgreesWithCluster(fork_infos, s, OnEpochSlotsFrozen(s, h))
    /\ UNCHANGED <<phase, bankVars, root, duplicate_slots_tracker,
                   gossip_duplicate_confirmed_slots>>

(* A DuplicateConfirmed update is ignored when the fork choice has the     *)
(* version replayed here as confirmed already.                             *)
DuplicateConfirmed(s, h, bankHash) ==
    CheckSlotAgreesWithCluster(fork_infos, s,
        IF \E b \in bankHash : IsDuplicateConfirmed(fork_infos, <<s, b>>)
        THEN <<>> ELSE OnDuplicateConfirmed(s, h, bankHash))

(* process_gossip_duplicate_confirmed_slots, for one (slot, hash).         *)
GossipDuplicateConfirmed(s, h) ==
    /\ At("gossip")
    /\ IF s <= root[1]
       THEN UNCHANGED <<gossip_duplicate_confirmed_slots, outcome>>
       ELSE IF gossip_duplicate_confirmed_slots[s] # {}
       THEN /\ panicked' = (gossip_duplicate_confirmed_slots[s] # {h})
            /\ UNCHANGED <<gossip_duplicate_confirmed_slots, fork_infos,
                           duplicate_slots_to_repair, bank_hashes>>
       ELSE /\ gossip_duplicate_confirmed_slots' =
                   [gossip_duplicate_confirmed_slots EXCEPT ![s] = {h}]
            /\ DuplicateConfirmed(s, h, BankHash(s))
    /\ UNCHANGED <<phase, bankVars, root, duplicate_slots_tracker, epoch_slots_frozen_slots>>

(* process_duplicate_slots, for one slot.                                  *)
DuplicateSlot(s) ==
    /\ At("duplicate")
    /\ IF s <= root[1] \/ s \in duplicate_slots_tracker
       THEN UNCHANGED <<duplicate_slots_tracker, outcome>>
       ELSE /\ duplicate_slots_tracker' = duplicate_slots_tracker \cup {s}
            /\ CheckSlotAgreesWithCluster(fork_infos, s, OnDuplicate(s))
    /\ UNCHANGED <<phase, bankVars, root, gossip_duplicate_confirmed_slots,
                   epoch_slots_frozen_slots>>

(* mark_slots_confirmed: the votes in the replayed blocks confirm a bank.  *)
MarkSlotConfirmed(k) ==
    /\ At("confirm")
    /\ k[1] \notin supermajority_confirmed
    /\ supermajority_confirmed' = supermajority_confirmed \cup {k[1]}
    /\ DuplicateConfirmed(k[1], k[2], {k[2]})
    /\ UNCHANGED <<phase, active, frozen, dead, root, signals>>

(* On to the next handler.                                                 *)
Advance ==
    /\ ~panicked
    /\ phase \notin {"select", "dump"}
    /\ phase' = NextPhase(phase)
    /\ UNCHANGED <<confirmable, bankVars, root, signals, outcome>>

(* select_forks unwraps the bank of the best slot, and checks its hash.    *)
BestSlot == BestOverallSlot(fork_infos, root)

SelectForks ==
    /\ At("select")
    /\ phase' = "dump"
    /\ panicked' = (BestSlot \notin frozen)
    /\ UNCHANGED <<bankVars, root, signals, fork_infos, duplicate_slots_to_repair, bank_hashes>>

(* select_forks, and a vote on the best slot that roots one of its         *)
(* ancestors, on the fork that the cluster confirms: handle_new_root.      *)
(* BankForks keeps the ancestors of the root down to the highest slot the  *)
(* cluster has rooted (prune_non_rooted), which is a choice here.          *)
(* duplicate_slots_to_repair is not pruned.                                *)
HandleNewRoot(k, highest_confirmed_root) ==
    LET kept == {b \in active \cup frozen \cup dead :
                    \/ k \in BlockPath(b)
                    \/ b \in BlockPath(k) /\ b[1] >= highest_confirmed_root}
    IN
    /\ At("select")
    /\ BestSlot \in frozen
    /\ k \in Path(fork_infos, BestSlot) \cap confirmable
    /\ k # root
    /\ phase' = "dump"
    /\ root' = k
    /\ fork_infos' = SetRoot(fork_infos, k)
    /\ active' = active \cap kept /\ frozen' = frozen \cap kept /\ dead' = dead \cap kept
    /\ supermajority_confirmed' = supermajority_confirmed \cap {b[1] : b \in kept}
    /\ duplicate_slots_tracker' = {s \in duplicate_slots_tracker : s >= k[1]}
    /\ gossip_duplicate_confirmed_slots' =
           [s \in Slots |-> IF s >= k[1] THEN gossip_duplicate_confirmed_slots[s] ELSE {}]
    /\ epoch_slots_frozen_slots' =
           [s \in Slots |-> IF s >= k[1] THEN epoch_slots_frozen_slots[s] ELSE {}]
    /\ UNCHANGED <<duplicate_slots_to_repair, bank_hashes, panicked>>

(* dump_then_repair_correct_slots.  A slot the PoH bank builds on waits:   *)
(* `parent` is none, or the bank the PoH recorder was last reset to, the   *)
(* best slot or one on the fork of the last vote.  Every other entry is    *)
(* dropped, after purge_unconfirmed_duplicate_slot of the bank if its hash *)
(* is not the correct one.  The descendants of the bank go with it, the    *)
(* fork choice keeps them.                                                 *)
DumpThenRepair(parent) ==
    LET building == UNION {Path(fork_infos, k) : k \in parent}
        purged   == {k \in (frozen \cup dead) \ building :
                        \E correct \in duplicate_slots_to_repair[k[1]] : correct # k[2]}
        gone     == {b \in active \cup frozen \cup dead : BlockPath(b) \cap purged # {}}
        slots    == {b[1] : b \in gone}
    IN  /\ At("dump")
        /\ phase' = "generate"
        /\ active' = active \ gone /\ frozen' = frozen \ gone /\ dead' = dead \ gone
        /\ supermajority_confirmed' = supermajority_confirmed \ slots
        /\ bank_hashes' = [s \in Slots |-> IF s \in slots THEN {} ELSE bank_hashes[s]]
        /\ duplicate_slots_to_repair' =
               [s \in Slots |-> IF \E k \in building : k[1] = s
                                THEN duplicate_slots_to_repair[s] ELSE {}]
        /\ UNCHANGED <<root, signals, fork_infos, panicked>>

(* The hashes that handle_ancestor_request_decision of the ancestor hashes *)
(* service sends for the slots it sampled.                                 *)
Samples == IF SamplesMayDisagree THEN {k \in Blocks : k[2] # 0} ELSE confirmable

Next ==
    \/ \E k \in DOMAIN Tree : GenerateBank(k)
    \/ \E k \in active : FreezeBank(k)
    \/ \E k \in active : MarkDeadSlot(k)
    \/ \E k \in Samples : EpochSlotsFrozen(k[1], k[2])
    \/ \E k \in confirmable : GossipDuplicateConfirmed(k[1], k[2])
    \/ \E s \in Slots : DuplicateSlot(s)
    \/ \E k \in frozen \cap confirmable : MarkSlotConfirmed(k)
    \/ Advance
    \/ SelectForks
    \/ \E k \in frozen, s \in Slots : HandleNewRoot(k, s)
    \/ \E parent \in {{}} \cup {{k} : k \in frozen \cap DOMAIN fork_infos} : DumpThenRepair(parent)

Spec == Init /\ [][Next]_vars

----------------------------------------------------------------------------
(* BankForks holds one bank for a slot, the frozen ones from the root on   *)
(* are in the fork choice, and the root is never purged.                   *)
TypeOK ==
    /\ phase \in {Phases[i] : i \in 1..Len(Phases)}
    /\ \A k, l \in active \cup frozen \cup dead : k[1] = l[1] => k = l
    /\ \A k \in frozen : k[1] >= root[1] => k \in DOMAIN fork_infos
    /\ root \in frozen
    /\ \A s \in Slots : Cardinality(bank_hashes[s]) <= 1

(* No confirmed block is marked invalid (the assertion of                  *)
(* mark_fork_invalid_candidate), a block marked valid is in the tree, two  *)
(* confirmations of a slot agree, and the best slot is a bank that         *)
(* BankForks holds (select_forks).  The expects of the dump itself and of  *)
(* heaviest_slot_on_same_voted_fork are not among these.                   *)
NoPanic == ~panicked

(* Whatever the order in which the freeze, the duplicate proof, the sample *)
(* and the confirmation of a slot arrive, a version that is not the one    *)
(* gossip confirmed is no candidate, and the one that is, is confirmed     *)
(* (check_duplicate_confirmed_hash_against_frozen_hash).                   *)
ConfirmedVersionWins ==
    \A k \in frozen : k[1] > root[1] =>
        \A h \in gossip_duplicate_confirmed_slots[k[1]] :
            IF h = k[2] THEN fork_infos[k].is_duplicate_confirmed
            ELSE ~IsCandidate(fork_infos, k)

(* The replayed version of a slot with a duplicate proof is no candidate   *)
(* until it is confirmed, or a sample says that it is the cluster's.       *)
UnconfirmedDuplicatesExcluded ==
    \A k \in frozen : k[1] \in duplicate_slots_tracker /\ k[1] > root[1] =>
        \/ IsDuplicateConfirmed(fork_infos, k)
        \/ epoch_slots_frozen_slots[k[1]] = {k[2]}
        \/ ~IsCandidate(fork_infos, k)

(* The blockstore and the fork choice agree on the frozen hash of every    *)
(* bank and on whether it is confirmed, so a restart from the blockstore   *)
(* knows what the running validator knew: the confirmation of a descendant *)
(* reaches the stored flags of its ancestors.                              *)
ConfirmationStored ==
    \A k \in frozen : k # Genesis /\ k[1] >= root[1] =>
        bank_hashes[k[1]] = {<<k[2], fork_infos[k].is_duplicate_confirmed>>}

(* A comment of DuplicateState::new_from_state: only a duplicate           *)
(* confirmation makes the code skip the mark, "any weaker confirmation     *)
(* levels are not sufficient to skip marking the slot as duplicate".       *)
DuplicatesExcluded ==
    \A k \in frozen : k[1] \in duplicate_slots_tracker /\ k[1] > root[1] =>
        IsDuplicateConfirmed(fork_infos, k) \/ ~IsCandidate(fork_infos, k)

====
