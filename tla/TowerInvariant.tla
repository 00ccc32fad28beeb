--------------------------- MODULE TowerInvariant ---------------------------
(***************************************************************************)
(* The inductive invariant behind LockoutsRespected.  Every tower that can *)
(* still be sent from (the one in memory, the queued ones, the saved one)  *)
(* remembers every lockout the validator has been bound to, or no longer   *)
(* needs to: this is Keeps.  The operators take the block tree A (anc) and *)
(* the slots K with a block (known) as parameters.                         *)
(***************************************************************************)
EXTENDS Tower

OnFork(A, a, b) == a = b \/ a \in A[b]

(* The block tree: ancestors are older, closed and on one line. *)
TreeOK(A, K) ==
  \A b \in Slots :
    /\ \A a \in A[b] : a < b /\ a \in K /\ b \in K /\ A[a] \subseteq A[b]
    /\ \A a, c \in A[b] : a < c => a \in A[c]

(* Locks as pairs of a slot and the last slot it locks out. *)
SentLocks == {<<s, locks[s]>> : s \in {x \in Slots : locks[x] > 0}}

TowerLocks(t) ==
  {<<t.votes[i].slot, LastLockedOutSlot(t.votes[i])>> : i \in 1 .. Len(t.votes)}

(* The tower remembers the lock: the vote is still in the stack, is rooted, *)
(* or expires before any slot the tower can still vote for.                *)
Remembers(A, t, p) ==
  \/ \E i \in 1 .. Len(t.votes) :
       t.votes[i].slot = p[1] /\ LastLockedOutSlot(t.votes[i]) >= p[2]
  \/ t.root_slot \in Slots /\ OnFork(A, p[1], t.root_slot)
  \/ p[2] < t.last_vote
  \/ p[2] < t.root_slot

(* The tower's own votes agree with the lock: the newer of two votes       *)
(* descends from the older, unless the older is a lock that has expired.   *)
AgreesWith(A, t, p) ==
  /\ p[1] <= t.last_vote \/ p[1] <= t.root_slot
  /\ \A i \in 1 .. Len(t.votes) :
       /\ t.votes[i].slot < p[1] => t.votes[i].slot \in A[p[1]]
       /\ p[1] < t.votes[i].slot /\ p[2] >= t.votes[i].slot =>
            p[1] \in A[t.votes[i].slot]

Keeps(A, t, L) == \A p \in L : Remembers(A, t, p) /\ AgreesWith(A, t, p)

(* A well-formed lockout stack on one fork of the block tree. *)
StackOK(A, K, t) ==
  /\ t.last_vote = LastVotedSlot(t.votes)
  /\ \A i \in 1 .. Len(t.votes) : t.votes[i].slot \in K
  /\ \A i, j \in 1 .. Len(t.votes) :
       i < j => t.votes[i].slot \in A[t.votes[j].slot]

(* A tower with a root: no vote is older than the root on the root's fork. *)
RootedOK(A, K, t) ==
  /\ StackOK(A, K, t)
  /\ t.root_slot \in K
  /\ \A i \in 1 .. Len(t.votes) : t.votes[i].slot \notin A[t.root_slot]

AboveRoot(A, t) ==
  \A i \in 1 .. Len(t.votes) : OnFork(A, t.root_slot, t.votes[i].slot)

(* The tower on disk, and the block store it may be reconciled with. *)
SavedOK ==
  saved # NoTower =>
    /\ RootedOK(anc, known, saved) /\ AboveRoot(anc, saved)
    /\ \/ OnFork(anc, saved.root_slot, blockstore_root)
       \/ OnFork(anc, blockstore_root, saved.root_slot)

(* The tower in memory, and the banks it may vote for. *)
MemoryOK ==
  status = "up" =>
    /\ RootedOK(anc, known, tower)
    /\ bank_root = tower.root_slot \/ AboveRoot(anc, tower)
    /\ bank_root \in known
    /\ \A b \in banks : OnFork(anc, bank_root, b)
    /\ OnFork(anc, blockstore_root, tower.root_slot)
    /\ saved # NoTower => OnFork(anc, saved.root_slot, tower.root_slot)

(* The towers queued for the voting service. *)
QueueOK ==
  status = "up" =>
    \A i \in 1 .. Len(vote_ops) :
      /\ RootedOK(anc, known, vote_ops[i].tower)
      /\ OnFork(anc, vote_ops[i].tower.root_slot, tower.root_slot)
      /\ vote_ops[i].op = "PushVote" => AboveRoot(anc, vote_ops[i].tower)

(* Once the head of the queue is stored, the saved tower is that tower. *)
StoredOK ==
  op_stored =>
    /\ vote_ops # <<>> /\ vote_ops[1].op = "PushVote"
    /\ saved.votes = vote_ops[1].tower.votes
    /\ saved.root_slot = vote_ops[1].tower.root_slot
    /\ saved.last_vote = vote_ops[1].tower.last_vote

(* Every tower keeps what was sent and what will be sent before it. *)
LocksKept ==
  /\ Keeps(anc, saved, SentLocks)
  /\ status = "up" =>
       /\ Keeps(anc, tower, SentLocks)
       /\ \A j \in 1 .. Len(vote_ops) :
            /\ Keeps(anc, vote_ops[j].tower, SentLocks)
            /\ Keeps(anc, tower, TowerLocks(vote_ops[j].tower))
            /\ \A i \in 1 .. (j - 1) :
                 Keeps(anc, vote_ops[j].tower, TowerLocks(vote_ops[i].tower))

(* The ops after the first j, up to i, are all refreshes. *)
RefreshesOnly(ops, j, i) == \A k \in (j + 1) .. i : ops[k].op = "RefreshVote"

(* A refreshed vote carries no tower: what it sends is already kept by the *)
(* last tower stored before it.                                            *)
RefreshKept ==
  status = "up" =>
    /\ \A i \in 1 .. Len(vote_ops) :
         /\ RefreshesOnly(vote_ops, 0, i) =>
              Keeps(anc, saved, TowerLocks(vote_ops[i].tower))
         /\ \A j \in 1 .. (i - 1) :
              RefreshesOnly(vote_ops, j, i) =>
                Keeps(anc, vote_ops[j].tower, TowerLocks(vote_ops[i].tower))
    /\ can_sign =>
         /\ RefreshesOnly(vote_ops, 0, Len(vote_ops)) =>
              Keeps(anc, saved, TowerLocks(tower))
         /\ \A j \in 1 .. Len(vote_ops) :
              RefreshesOnly(vote_ops, j, Len(vote_ops)) =>
                Keeps(anc, vote_ops[j].tower, TowerLocks(tower))

KnownOK ==
  /\ 0 \in known
  /\ blockstore \cup {blockstore_root} \cup banks \subseteq known
  /\ \A s \in Slots : locks[s] > 0 => s \in known

(* Every tower that may still be sent from (in memory, queued or on disk)  *)
(* keeps every lockout the validator is bound to, and a refreshed vote,    *)
(* which carries no tower, sends only what the last stored tower keeps     *)
(* (handle_vote, adjust_lockouts_after_replay).  It is inductive as long   *)
(* as the voting key does not change while the validator runs.             *)
LockoutInvariant ==
  /\ TypeOK
  /\ TreeOK(anc, known) /\ KnownOK
  /\ SavedOK /\ MemoryOK /\ QueueOK /\ StoredOK
  /\ LocksKept /\ RefreshKept
  /\ LockoutsRespected
=============================================================================
