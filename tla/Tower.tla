-------------------------------- MODULE Tower --------------------------------
(***************************************************************************)
(* One validator's voting: the replay stage that picks a bank and records  *)
(* the vote in its tower, the voting service thread that stores the tower  *)
(* and then sends the vote, the saved tower and the blockstore roots that  *)
(* survive a crash, and the restart that adjusts the saved tower to the    *)
(* ledger it finds.                                                        *)
(*                                                                         *)
(* Blocks are named by their slot (duplicate blocks of a slot are in       *)
(* DuplicateSlots).  What other validators' stake decides (the heaviest    *)
(* fork, a switch proof, the vote threshold, propagation) is a choice, and *)
(* so is which slots the fork choice holds as invalid when it is asked     *)
(* (`invalid`).  The dump of a duplicate slot is not modelled here: a bank *)
(* leaves BankForks only below or beside a new root.                       *)
(***************************************************************************)
EXTENDS VoteState

CONSTANTS Slots,             \* the slots in which a block may exist
          MAX_ENTRIES,       \* slots remembered by the SlotHistory sysvar
          MaxVoteOps,        \* bound on the votes queued for the voting service
          NewerSnapshot,     \* may a restart boot from a newer snapshot?
          SignerChanges,     \* may the voting key come and go while running?
          LedgerFaults       \* may the ledger lose its newest writes?

ASSUME SlotsAssumption == Slots \subseteq Nat /\ 0 \in Slots
ASSUME MaxEntriesAssumption == MAX_ENTRIES \in Nat \ {0}
ASSUME MaxVoteOpsAssumption == MaxVoteOps \in Nat \ {0}
ASSUME SwitchesAssumption ==
  NewerSnapshot \in BOOLEAN /\ SignerChanges \in BOOLEAN /\ LedgerFaults \in BOOLEAN

VARIABLES
  anc,              \* the cluster's block tree: the proper ancestors of a slot
  known,            \* the slots that have a block
  blockstore,       \* blocks on disk
  blockstore_root,  \* Blockstore::last_root, on disk
  saved,            \* the tower in TowerStorage
  status,           \* "up", "down", "panicked" or "aborted"
  banks,            \* frozen banks of BankForks, from the root on
  bank_root,        \* BankForks::root
  tower,            \* the replay stage's Tower
  can_sign,         \* generate_vote_tx finds the key of the authorized voter
  vote_ops,         \* the channel to the voting service
  op_stored,        \* the voting service has stored the tower of the head op
  locks             \* history: for each slot a sent vote locks, until when

ledger == <<blockstore, blockstore_root>>
memory == <<banks, bank_root, tower, can_sign>>
service == <<vote_ops, op_stored>>
vars == <<anc, known, ledger, saved, status, memory, service, locks>>

NoTower == [votes |-> <<>>, root_slot |-> None, last_vote |-> None,
            stray_restored_slot |-> None]

NewTower(root) == [NoTower EXCEPT !.root_slot = root]

Votes == [slot : Slots, confirmation_count : 1 .. MAX_LOCKOUT_HISTORY]

Stacks == {votes \in Seq(Votes) : Len(votes) <= MAX_LOCKOUT_HISTORY}

Towers == [votes : Stacks,
           root_slot : Slots \cup {None},
           last_vote : Slots \cup {None},
           stray_restored_slot : Slots \cup {None}]

(* BankForks::ancestors *)
BankAncestors(slot) == {a \in anc[slot] : a >= bank_root}

(* The sets of slots the fork choice may hold as invalid: duplicates above *)
(* the root, not confirmed.                                                *)
InvalidSlots == SUBSET (banks \ {bank_root})

(* The banks no invalid slot is on the path to. *)
Candidates(invalid) == {b \in banks : (anc[b] \cup {b}) \cap invalid = {}}

(* The best slot of the fork choice: a candidate none of whose children is *)
(* one, which need not be a leaf.                                          *)
ForkHeads(invalid) ==
  LET candidates == Candidates(invalid) IN
  {b \in candidates : \A d \in candidates : b \notin anc[d]}

IsStrayLastVote == tower.last_vote # None /\ tower.stray_restored_slot = tower.last_vote

(* Mutant: the ancestors of the candidate are not looked at. *)
IsLockedOutIfOld(slot) == ~IsRecent(tower.votes, slot)

IsLockedOut(slot) ==
  \/ ~IsRecent(tower.votes, slot)
  \/ \E v \in VotedSlots(NextVotes(tower.votes, slot)) :
       v # slot /\ v \notin BankAncestors(slot)

(* The assertion at the end of is_locked_out, which compute_bank_stats     *)
(* evaluates for every frozen bank.                                        *)
LockoutAssertionFails(slot) ==
  LET root == NextRoot(tower.votes, tower.root_slot, slot) IN
  ~IsLockedOut(slot) /\ slot # root /\ root \notin BankAncestors(slot)

LastVoteAncestors ==
  IF tower.last_vote \in banks THEN BankAncestors(tower.last_vote) ELSE {}

(* latest_invalid_ancestor of the last vote, which is None for a vote that *)
(* is not in the fork choice.                                              *)
LastVoteInvalid(invalid) ==
  tower.last_vote \in banks /\ tower.last_vote \notin Candidates(invalid)

(* Mutant: a last vote on an invalid fork is treated like any other. *)
SwitchForkDecisionsNoRollback(slot, invalid) ==
  IF tower.last_vote = None
  THEN {"SameFork"}
  ELSE IF tower.last_vote \notin banks /\ ~IsStrayLastVote
  THEN {"panic"}
  ELSE IF slot = tower.last_vote \/ tower.last_vote \in BankAncestors(slot)
  THEN {"SameFork"}
  ELSE IF slot \in LastVoteAncestors
  THEN {IF IsStrayLastVote THEN "FailedSwitchThreshold" ELSE "panic"}
  ELSE {"SwitchProof", "FailedSwitchThreshold"}

(* The decisions check_switch_threshold can reach for a switch to slot.    *)
(* The arm for a last vote whose bank was dumped is not here: no bank is.  *)
SwitchForkDecisions(slot, invalid) ==
  IF tower.last_vote = None
  THEN {"SameFork"}
  ELSE IF LastVoteInvalid(invalid) /\ slot \in anc[tower.last_vote]
  THEN {"FailedSwitchDuplicateRollback"}
  ELSE IF tower.last_vote \notin banks /\ ~IsStrayLastVote
  THEN {"panic"}
  ELSE IF slot = tower.last_vote \/ tower.last_vote \in BankAncestors(slot)
  THEN {"SameFork"}
  ELSE IF slot \in LastVoteAncestors
  THEN {IF IsStrayLastVote THEN "FailedSwitchThreshold" ELSE "panic"}
  ELSE {"SwitchProof", "FailedSwitchThreshold"}

CanVote(decision) == decision \in {"SameFork", "SwitchProof"}

-----------------------------------------------------------------------------
(* A block for slot on top of a frozen bank arrives, is replayed and its   *)
(* bank frozen (replay_active_banks).  A block seen before a ledger fault  *)
(* comes back with the parent it had.                                      *)
ReplayBank(slot, parent) ==
  /\ status = "up"
  /\ slot \notin banks /\ parent \in banks /\ parent < slot
  /\ IF slot \in known
     THEN anc[slot] = anc[parent] \cup {parent} /\ UNCHANGED anc
     ELSE anc' = [anc EXCEPT ![slot] = anc[parent] \cup {parent}]
  /\ known' = known \cup {slot}
  /\ blockstore' = blockstore \cup {slot}
  /\ banks' = banks \cup {slot}
  /\ UNCHANGED <<blockstore_root, saved, status, bank_root, tower, can_sign,
                 service, locks>>

(* Tower::record_bank_vote *)
RecordBankVote(slot) ==
  tower' = [votes |-> NextVotes(tower.votes, slot),
            root_slot |-> NextRoot(tower.votes, tower.root_slot, slot),
            last_vote |-> slot,
            stray_restored_slot |-> tower.stray_restored_slot]

(* The part of handle_votable_bank for a new root: Blockstore::set_roots,  *)
(* then handle_new_root, which prunes BankForks.                           *)
SetRoots(new_root) ==
  IF new_root = tower.root_slot
  THEN UNCHANGED <<blockstore_root, bank_root, banks>>
  ELSE /\ blockstore_root' = IF new_root > blockstore_root
                             THEN new_root ELSE blockstore_root
       /\ bank_root' = new_root
       /\ banks' = {b \in banks : b = new_root \/ new_root \in anc[b]}

(* push_vote queues the vote with the tower to store, if it can be signed. *)
PushVote ==
  /\ vote_ops' = IF can_sign
                 THEN Append(vote_ops, [op |-> "PushVote", tower |-> tower'])
                 ELSE vote_ops
  /\ UNCHANGED op_stored

(* The invalid marks under which the bank is the best slot and the switch  *)
(* check lets it be voted on.                                              *)
MarksToVote(slot) ==
  {invalid \in InvalidSlots :
     /\ slot \in ForkHeads(invalid)
     /\ \E decision \in SwitchForkDecisions(slot, invalid) : CanVote(decision)}

(* select_vote_and_reset_forks picks the heaviest bank to vote on;         *)
(* handle_votable_bank records, roots and pushes the vote.                 *)
Vote(slot) ==
  /\ status = "up"
  /\ Len(vote_ops) < MaxVoteOps
  /\ \A b \in banks : ~LockoutAssertionFails(b)
  /\ slot \in banks /\ ~IsLockedOut(slot)
  /\ MarksToVote(slot) # {}
  /\ RecordBankVote(slot)
  /\ SetRoots(tower'.root_slot)
  /\ PushVote
  /\ UNCHANGED <<anc, known, blockstore, saved, status, can_sign, locks>>

(* An assertion or panic! of is_locked_out or of the switch check. *)
Panic ==
  /\ status = "up"
  /\ \/ \E b \in banks : LockoutAssertionFails(b)
     \/ \E invalid \in InvalidSlots : \E h \in ForkHeads(invalid) :
          "panic" \in SwitchForkDecisions(h, invalid)
  /\ status' = "panicked"
  /\ UNCHANGED <<anc, known, ledger, saved, memory, service, locks>>

(* refresh_last_vote: an older vote of ours has landed, the last one has   *)
(* not and its blockhash has expired; it is signed and sent again.  No     *)
(* tower travels with it.                                                  *)
RefreshLastVote ==
  /\ status = "up"
  /\ Len(vote_ops) < MaxVoteOps
  /\ tower.last_vote \in banks
  /\ \E landed \in Slots : locks[landed] > 0 /\ landed < tower.last_vote
  /\ can_sign
  /\ vote_ops' = Append(vote_ops, [op |-> "RefreshVote", tower |-> tower])
  /\ UNCHANGED <<anc, known, ledger, saved, status, memory, op_stored, locks>>

(* The operator adds or removes an authorized voter key, or an epoch       *)
(* boundary changes the authorized voter.                                  *)
ChangeSigner ==
  /\ SignerChanges
  /\ status = "up"
  /\ can_sign' = ~can_sign
  /\ UNCHANGED <<anc, known, ledger, saved, status, banks, bank_root, tower,
                 service, locks>>

-----------------------------------------------------------------------------
(* VotingService::handle_vote, first half: the tower of a PushVote is      *)
(* stored.                                                                 *)
StoreTower ==
  /\ status = "up"
  /\ vote_ops # <<>> /\ Head(vote_ops).op = "PushVote" /\ ~op_stored
  /\ saved' = [Head(vote_ops).tower EXCEPT !.stray_restored_slot = None]
  /\ op_stored' = TRUE
  /\ UNCHANGED <<anc, known, ledger, status, memory, vote_ops, locks>>

(* The lockouts the cluster holds the validator to once it has the vote. *)
Locked(votes, slot) ==
  IF \E i \in 1 .. Len(votes) :
       votes[i].slot = slot /\ LastLockedOutSlot(votes[i]) > locks[slot]
  THEN LastLockedOutSlot(CHOOSE v \in {votes[i] : i \in 1 .. Len(votes)} : v.slot = slot)
  ELSE locks[slot]

(* Mutant: the vote is sent whether or not its tower is stored. *)
SendVoteUnstored ==
  /\ status = "up"
  /\ vote_ops # <<>>
  /\ locks' = [s \in Slots |-> Locked(Head(vote_ops).tower.votes, s)]
  /\ vote_ops' = Tail(vote_ops)
  /\ op_stored' = FALSE
  /\ UNCHANGED <<anc, known, ledger, saved, status, memory>>

(* Second half: the vote goes to the leader and to gossip. *)
SendVote ==
  /\ status = "up"
  /\ vote_ops # <<>>
  /\ Head(vote_ops).op = "PushVote" => op_stored
  /\ locks' = [s \in Slots |-> Locked(Head(vote_ops).tower.votes, s)]
  /\ vote_ops' = Tail(vote_ops)
  /\ op_stored' = FALSE
  /\ UNCHANGED <<anc, known, ledger, saved, status, memory>>

-----------------------------------------------------------------------------
Crash ==
  /\ status = "up"
  /\ status' = "down"
  /\ vote_ops' = <<>>
  /\ op_stored' = FALSE
  /\ banks' = {} /\ bank_root' = None /\ tower' = NoTower
  /\ UNCHANGED <<anc, known, ledger, saved, can_sign, locks>>

(* An OS crash or a full disk costs the blockstore its newest writes, down *)
(* to an earlier root and to a set of blocks that still chains to it.      *)
LoseLedger(root, kept) ==
  /\ LedgerFaults
  /\ status = "down"
  /\ root \in (anc[blockstore_root] \cup {blockstore_root}) \cap blockstore
  /\ kept \subseteq blockstore
  /\ root \in kept
  /\ \A b \in kept : anc[b] \cap blockstore \subseteq kept
  /\ blockstore_root' = root
  /\ blockstore' = kept
  /\ UNCHANGED <<anc, known, saved, status, memory, service, locks>>

(* SlotHistory::check on the history of bank root, whose newest slot is    *)
(* newest (the root, or a later slot added to a copy of the history).      *)
CheckHistory(root, newest, slot) ==
  IF slot > newest THEN "Future"
  ELSE IF slot < newest + 1 - MAX_ENTRIES THEN "TooOld"
  ELSE IF slot \in anc[root] \cup {root, newest} THEN "Found"
  ELSE "NotFound"

(* adjust_lockouts_with_slot_history: root and votes are checked from the  *)
(* newest; the votes newer than the first one found are kept.              *)
SlotsInTower(t) == <<t.root_slot>> \o [i \in 1 .. Len(t.votes) |-> t.votes[i].slot]

AnchoredAt(t, root, newest) ==
  LET slots == SlotsInTower(t) IN
  {k \in 1 .. Len(slots) :
     /\ CheckHistory(root, newest, slots[k]) = "Found"
     /\ \A j \in (k + 1) .. Len(slots) :
          CheckHistory(root, newest, slots[j]) # "Found"}

AdjustFails(t, root, newest) ==
  LET slots == SlotsInTower(t)
      check(k) == CheckHistory(root, newest, slots[k])
  IN  \/ AnchoredAt(t, root, newest) = {}
      \/ \E k \in 1 .. Len(slots), j \in 1 .. Len(slots) : k < j /\
           \/ check(k) = "NotFound" /\ check(j) = "Found"
           \/ check(k) = "Future" /\ check(j) # "Future"
           \/ check(k) # "TooOld" /\ check(j) = "TooOld"

(* Mutant: one vote too many is dropped. *)
AdjustLockoutsShort(t, root, newest) ==
  LET anchor == CHOOSE k \in AnchoredAt(t, root, newest) : TRUE
      kept == SubSeq(t.votes, anchor + 1, Len(t.votes))
  IN  [t EXCEPT !.votes = kept,
                !.last_vote = IF kept = <<>> THEN None ELSE @,
                !.stray_restored_slot = IF kept = <<>> THEN @ ELSE t.last_vote]

(* Mutant: the restored last vote is not remembered as stray. *)
AdjustLockoutsNotStray(t, root, newest) ==
  LET anchor == CHOOSE k \in AnchoredAt(t, root, newest) : TRUE
      kept == SubSeq(t.votes, anchor, Len(t.votes))
  IN  [t EXCEPT !.votes = kept,
                !.last_vote = IF kept = <<>> THEN None ELSE @]

AdjustLockouts(t, root, newest) ==
  LET anchor == CHOOSE k \in AnchoredAt(t, root, newest) : TRUE
      kept == SubSeq(t.votes, anchor, Len(t.votes))
  IN  [t EXCEPT !.votes = kept,
                !.last_vote = IF kept = <<>> THEN None ELSE @,
                !.stray_restored_slot = IF kept = <<>> THEN @ ELSE t.last_vote]

(* adjust_lockouts_after_replay: the tower is older than the replayed root, *)
(* or newer, when its own root is added to the history and kept.           *)
TooOldTower(t, root) ==
  t.root_slot <= root /\ CheckHistory(root, root, t.last_vote) = "TooOld"

HistoryNewest(t, root) == IF t.root_slot <= root THEN root ELSE t.root_slot

(* Mutant: initialize_root is not called. *)
AdjustedTowerOldRoot(t, root) == AdjustLockouts(t, root, HistoryNewest(t, root))

AdjustedTower(t, root) ==
  [AdjustLockouts(t, root, HistoryNewest(t, root)) EXCEPT
     !.root_slot = IF t.root_slot <= root THEN root ELSE @]

(* Mutant: the root of an older tower is set too. *)
ReconciledRootAlways ==
  IF saved # NoTower /\ saved.root_slot \in blockstore
  THEN saved.root_slot
  ELSE blockstore_root

(* reconcile_blockstore_roots_with_tower.  Its panic!, for a blockstore    *)
(* root that is no ancestor of a newer tower root, cannot be reached as    *)
(* long as the two are on one fork, which SavedOK (TowerInvariant) states. *)
ReconciledRoot ==
  IF saved # NoTower /\ blockstore_root < saved.root_slot /\ saved.root_slot \in blockstore
  THEN saved.root_slot
  ELSE blockstore_root

(* load_frozen_forks: past the last root of the blockstore, a root that    *)
(* two thirds of the stake have, found in the votes of a replayed bank, is *)
(* set as the root.  It is a replayed bank itself.                         *)
SupermajorityRoots ==
  {r \in blockstore : /\ ReconciledRoot \in anc[r]
                      /\ \A a \in anc[r] : a > ReconciledRoot => a \in blockstore}

SnapshotRoots == {r \in known : NewerSnapshot /\ ReconciledRoot \in anc[r]}

(* The cluster never roots two forks, so its roots are on one chain with   *)
(* the tower's.                                                            *)
OnTowerFork(r) ==
  saved # NoTower => \/ r = saved.root_slot
                     \/ saved.root_slot \in anc[r]
                     \/ r \in anc[saved.root_slot]

(* The roots a restart can replay up to: the last root of the blockstore,  *)
(* a newer one of the cluster's, or that of a newer snapshot.              *)
ReplayedRoots ==
  {ReconciledRoot} \cup {r \in SupermajorityRoots \cup SnapshotRoots : OnTowerFork(r)}

(* Startup with mandatory tower restore (--require-tower): load the tower, *)
(* reconcile the blockstore, replay the ledger, adjust the lockouts.  The  *)
(* vote account of a validator with a saved tower is taken to hold votes   *)
(* (voting_has_been_active).  Not modelled: wait_for_supermajority at the  *)
(* replayed root and warp_slot, with which the operator discards the tower *)
(* for a new hard fork.                                                    *)
Restart(root) ==
  /\ status # "up"
  /\ root \in ReplayedRoots
  /\ blockstore_root' = root
  /\ blockstore' = blockstore \cup {root}
  /\ IF /\ saved # NoTower
        /\ TooOldTower(saved, root) \/ AdjustFails(saved, root, HistoryNewest(saved, root))
     THEN /\ status' = "aborted"
          /\ banks' = {} /\ bank_root' = None /\ tower' = NoTower
     ELSE /\ status' = "up"
          /\ bank_root' = root
          /\ banks' = {root} \cup
               {b \in blockstore : /\ root \in anc[b]
                                   /\ \A a \in anc[b] : a > root => a \in blockstore}
          /\ tower' = IF saved = NoTower THEN NewTower(root)
                      ELSE AdjustedTower(saved, root)
  /\ can_sign' \in BOOLEAN
  /\ vote_ops' = <<>> /\ op_stored' = FALSE
  /\ UNCHANGED <<anc, known, saved, locks>>

-----------------------------------------------------------------------------
Init ==
  /\ anc = [s \in Slots |-> {}]
  /\ known = {0} /\ blockstore = {0} /\ blockstore_root = 0
  /\ saved = NoTower
  /\ status = "up"
  /\ banks = {0} /\ bank_root = 0 /\ tower = NewTower(0)
  /\ can_sign \in BOOLEAN
  /\ vote_ops = <<>> /\ op_stored = FALSE
  /\ locks = [s \in Slots |-> 0]

Next ==
  \/ \E slot \in Slots, parent \in Slots : ReplayBank(slot, parent)
  \/ \E slot \in Slots : Vote(slot)
  \/ Panic
  \/ RefreshLastVote
  \/ ChangeSigner
  \/ StoreTower
  \/ SendVote
  \/ Crash
  \/ \E root \in Slots, kept \in SUBSET blockstore : LoseLedger(root, kept)
  \/ \E root \in Slots : Restart(root)

Spec == Init /\ [][Next]_vars
-----------------------------------------------------------------------------
(* Every stack, stored, queued or in memory, stays within the bounds that   *)
(* process_next_vote_slot keeps: at most MAX_LOCKOUT_HISTORY votes, each    *)
(* with at most as many confirmations.                                      *)
TypeOK ==
  /\ anc \in [Slots -> SUBSET Slots]
  /\ known \in SUBSET Slots /\ blockstore \in SUBSET Slots
  /\ blockstore_root \in Slots
  /\ saved \in Towers /\ tower \in Towers
  /\ status \in {"up", "down", "panicked", "aborted"}
  /\ banks \in SUBSET Slots /\ bank_root \in Slots \cup {None}
  /\ can_sign \in BOOLEAN /\ op_stored \in BOOLEAN
  /\ vote_ops \in Seq([op : {"PushVote", "RefreshVote"}, tower : Towers])
  /\ locks \in [Slots -> Nat]

(* No two votes the validator ever sent break a lockout, however it crashed *)
(* and restarted between them: a later voted slot within the lockout of an  *)
(* earlier one descends from it (is_locked_out, the store before the send,  *)
(* the adjustment of the restored tower).                                   *)
LockoutsRespected ==
  \A v, u \in Slots :
    v < u /\ locks[u] > 0 /\ locks[v] >= u => v \in anc[u]

(* A vote reaches the network only once a tower at least as new is on disk *)
(* (VotingService::handle_vote): no restart finds a tower whose last vote  *)
(* is older than one already sent.                                         *)
SentVotesSaved ==
  \A s \in Slots : locks[s] > 0 => saved # NoTower /\ s <= saved.last_vote

(* The tower's root, the root of BankForks and the last root of the        *)
(* blockstore are the same slot whenever the replay stage runs.            *)
RootsAgree ==
  status = "up" => tower.root_slot = bank_root /\ bank_root = blockstore_root

(* The slots of a running tower lie on one fork: the root and every vote    *)
(* are ancestors of the votes above them (is_locked_out; a restored tower   *)
(* keeps the newest part of a stack).                                       *)
TowerOnOneFork ==
  /\ \A i, j \in 1 .. Len(tower.votes) :
       i < j => tower.votes[i].slot \in anc[tower.votes[j].slot]
  /\ status = "up" /\ ~IsStrayLastVote =>
       \A v \in VotedSlots(tower.votes) :
         v = tower.root_slot \/ tower.root_slot \in anc[v]

(* The assertion of is_locked_out (the new root is an ancestor of the bank *)
(* voted for) and the two panics of the switch check are never reached: a  *)
(* last vote that is not stray has its bank, and the best slot is below it *)
(* only when an invalid slot is between them, which the check answers with *)
(* a rollback.                                                             *)
NoPanic == status # "panicked"

(* Roots are final: the last root of the blockstore only moves to one of   *)
(* its descendants, across crashes and restarts too.                       *)
RootsFinal ==
  [][blockstore_root' # blockstore_root => blockstore_root \in anc'[blockstore_root']]_vars

(* "handle_votable_bank() saves tower before setting blockstore roots": no *)
(* step of a running validator that signs its votes roots the blockstore   *)
(* past the saved tower.                                                   *)
TowerSavedBeforeRoots ==
  [][status = "up" /\ can_sign /\ blockstore_root' > blockstore_root =>
       saved.root_slot >= blockstore_root']_vars
=============================================================================
