--------------------------- MODULE LockoutProofs ---------------------------
(***************************************************************************)
(* LockoutsRespected, for every block tree, every interleaving of the      *)
(* replay stage with the voting service, every crash and every restart.    *)
(* One lemma per action shows that LockoutInvariant is preserved.          *)
(***************************************************************************)
EXTENDS LockoutLemmas

USE DEF None

(* The tree B extends A: the blocks K of A have the ancestors they had.    *)
Extends(A, K, B) == \A b \in K : B[b] = A[b]

Within(K, t) ==
  /\ \A i \in 1 .. Len(t.votes) : t.votes[i].slot \in K
  /\ t.root_slot \in Slots => t.root_slot \in K

LEMMA ExtendedFork ==
  ASSUME NEW A, NEW K, NEW B, Extends(A, K, B), NEW a, NEW b \in K, OnFork(A, a, b)
  PROVE  OnFork(B, a, b)
  BY DEF Extends, OnFork

LEMMA ExtendedTower ==
  ASSUME NEW A, NEW K, NEW B, NEW M, Extends(A, K, B), K \subseteq M, NEW t
  PROVE  /\ RootedOK(A, K, t) => RootedOK(B, M, t)
         /\ RootedOK(A, K, t) /\ AboveRoot(A, t) => AboveRoot(B, t)
  BY SMTT(60) DEF Extends, RootedOK, StackOK, AboveRoot, OnFork

LEMMA ExtendedKeeps ==
  ASSUME NEW A, NEW K, NEW B, Extends(A, K, B), NEW t, Within(K, t),
         NEW L, \A p \in L : p[1] \in K, Keeps(A, t, L)
  PROVE  Keeps(B, t, L)
<1> SUFFICES ASSUME NEW p \in L
             PROVE  Remembers(B, t, p) /\ AgreesWith(B, t, p)
  BY DEF Keeps
<1>1. Remembers(A, t, p) /\ AgreesWith(A, t, p) /\ p[1] \in K
  BY DEF Keeps
<1>2. Remembers(B, t, p)
  BY <1>1 DEF Remembers, Within, Extends, OnFork
<1>3. AgreesWith(B, t, p)
  BY <1>1 DEF AgreesWith, Within, Extends
<1>4. QED
  BY <1>2, <1>3

LEMMA RootedWithin ==
  ASSUME NEW A, NEW K, NEW t, RootedOK(A, K, t)
  PROVE  Within(K, t) /\ \A p \in TowerLocks(t) : p[1] \in K
  BY DEF RootedOK, StackOK, Within, TowerLocks

(* What the invariant says about the towers of a running validator. *)
LEMMA QueueFacts ==
  ASSUME TypeOK
  PROVE  /\ vote_ops \in Seq(Ops) /\ Len(vote_ops) \in Nat
         /\ \A i \in 1 .. Len(vote_ops) :
              /\ vote_ops[i] \in Ops /\ vote_ops[i].tower \in Towers
              /\ vote_ops[i].op = "PushVote" \/ vote_ops[i].op = "RefreshVote"
<1>1. vote_ops \in Seq(Ops)
  BY DEF TypeOK, Ops
<1>2. Len(vote_ops) \in Nat /\ \A i \in 1 .. Len(vote_ops) : vote_ops[i] \in Ops
  BY <1>1, SeqLength
<1>3. QED
  BY <1>1, <1>2 DEF Ops

LEMMA SentLocksFacts ==
  ASSUME TypeOK, KnownOK
  PROVE  IsLocks(SentLocks) /\ \A p \in SentLocks : p[1] \in known
<1>1. \A s \in Slots : locks[s] \in Nat /\ s \in Nat
  BY SlotsAssumption DEF TypeOK
<1>2. QED
  BY <1>1 DEF KnownOK, SentLocks, IsLocks

LEMMA SavedWithin ==
  ASSUME SavedOK
  PROVE  Within(known, saved)
<1>1. CASE saved = NoTower
  BY <1>1, SlotsAssumption DEF Within, NoTower
<1>2. CASE saved # NoTower
  BY <1>2, RootedWithin DEF SavedOK
<1>3. QED
  BY <1>1, <1>2

LEMMA OpWithin ==
  ASSUME QueueOK, status = "up", NEW i \in 1 .. Len(vote_ops)
  PROVE  /\ Within(known, vote_ops[i].tower)
         /\ \A p \in TowerLocks(vote_ops[i].tower) : p[1] \in known
  BY RootedWithin DEF QueueOK

-----------------------------------------------------------------------------
(* A new block leaves the blocks there are as they were. *)
LEMMA ReplayedTree ==
  ASSUME TypeOK, TypeOK', TreeOK(anc, known), KnownOK,
         NEW slot \in Slots, NEW parent \in Slots, ReplayBank(slot, parent)
  PROVE  /\ Extends(anc, known, anc') /\ known \subseteq known'
         /\ anc'[slot] = anc[parent] \cup {parent}
         /\ TreeOK(anc', known')
<1>1. /\ anc \in [Slots -> SUBSET Slots] /\ parent \in known /\ parent < slot
      /\ known' = known \cup {slot} /\ known \subseteq Slots
  BY DEF TypeOK, KnownOK, ReplayBank
<1>2. /\ anc'[slot] = anc[parent] \cup {parent}
      /\ \A b \in Slots \ {slot} : anc'[b] = anc[b]
      /\ slot \in known => anc' = anc
  BY <1>1 DEF ReplayBank
<1>3. Extends(anc, known, anc')
  BY <1>1, <1>2 DEF Extends
<1>4. TreeOK(anc', known')
  <2>1. CASE slot \in known
    BY <2>1, <1>1, <1>2 DEF TreeOK
  <2>2. CASE slot \notin known
    <3>1. \A b \in Slots : \A a \in anc[b] : a \in known /\ a # slot /\ anc'[a] = anc[a]
      BY <2>2, <1>1, <1>2 DEF TreeOK
    <3>2. ASSUME NEW b \in Slots \ {slot}
          PROVE  /\ \A a \in anc'[b] : a < b /\ a \in known' /\ b \in known'
                                       /\ anc'[a] \subseteq anc'[b]
                 /\ \A a, c \in anc'[b] : a < c => a \in anc'[c]
      BY <3>1, <1>1, <1>2 DEF TreeOK
    <3>3. /\ \A a \in anc'[slot] : a < slot /\ a \in known' /\ slot \in known'
                                   /\ anc'[a] \subseteq anc'[slot]
          /\ \A a, c \in anc'[slot] : a < c => a \in anc'[c]
      <4>1. ASSUME NEW a \in anc'[slot]
            PROVE  /\ a < slot /\ a \in known' /\ slot \in known' /\ a # slot
                   /\ anc'[a] = anc[a] /\ anc[a] \subseteq anc[parent]
                   /\ a \in Nat /\ a <= parent /\ a \in known
        <5>1. slot \in Nat /\ parent \in Nat /\ \A x \in known : x \in Nat /\ x \in Slots
          BY <1>1, SlotsAssumption
        <5>2. CASE a = parent
          BY <5>1, <5>2, <1>1, <1>2, <2>2
        <5>3. CASE a \in anc[parent]
          <6>1. a < parent /\ a \in known /\ anc[a] \subseteq anc[parent]
            BY <5>3 DEF TreeOK
          <6>2. QED
            BY <6>1, <5>1, <1>1, <1>2, <2>2
        <5>4. QED
          BY <5>2, <5>3, <1>2
      <4>2. ASSUME NEW a \in anc'[slot], NEW c \in anc'[slot], a < c
            PROVE  a \in anc'[c]
        <5>1. a \in Nat /\ c \in Nat /\ c <= parent /\ parent \in Nat /\ anc'[c] = anc[c]
          BY <4>1, <1>1, SlotsAssumption
        <5>2. a # parent
          BY <5>1, <4>2
        <5>3. a \in anc[parent]
          BY <5>2, <1>2
        <5>4. CASE c = parent
          BY <5>1, <5>3, <5>4
        <5>5. CASE c \in anc[parent]
          BY <5>1, <5>3, <5>5, <4>2 DEF TreeOK
        <5>6. QED
          BY <5>4, <5>5, <1>2
      <4>3. QED
        BY <4>1, <4>2, <1>2
    <3>4. QED
      BY <3>2, <3>3 DEF TreeOK
  <2>3. QED
    BY <2>1, <2>2
<1>5. QED
  BY <1>1, <1>2, <1>3, <1>4

LEMMA ReplayBankStep ==
  ASSUME LockoutInvariant, TypeOK', NEW slot \in Slots, NEW parent \in Slots,
         ReplayBank(slot, parent)
  PROVE  LockoutInvariant'
<1> USE DEF LockoutInvariant
<1>0. /\ status = "up" /\ status' = "up" /\ banks' = banks \cup {slot} /\ parent \in banks
      /\ known' = known \cup {slot} /\ blockstore' = blockstore \cup {slot}
      /\ blockstore_root' = blockstore_root /\ saved' = saved /\ bank_root' = bank_root
      /\ tower' = tower /\ can_sign' = can_sign /\ locks' = locks
      /\ vote_ops' = vote_ops /\ op_stored' = op_stored
  BY DEF ReplayBank, service
<1>1. /\ Extends(anc, known, anc') /\ known \subseteq known'
      /\ anc'[slot] = anc[parent] \cup {parent} /\ TreeOK(anc', known')
  BY ReplayedTree
<1>2. SentLocks' = SentLocks /\ \A p \in SentLocks : p[1] \in known
  BY <1>0, SentLocksFacts DEF SentLocks
<1>3. KnownOK'
  BY <1>0 DEF KnownOK
<1>4. SavedOK'
  <2> SUFFICES ASSUME saved # NoTower
               PROVE  /\ RootedOK(anc', known', saved) /\ AboveRoot(anc', saved)
                      /\ \/ OnFork(anc', saved.root_slot, blockstore_root)
                         \/ OnFork(anc', blockstore_root, saved.root_slot)
    BY <1>0 DEF SavedOK
  <2>1. RootedOK(anc, known, saved) /\ AboveRoot(anc, saved)
    BY DEF SavedOK
  <2>2. RootedOK(anc', known', saved) /\ AboveRoot(anc', saved)
    BY <2>1, <1>1, ExtendedTower
  <2>3. saved.root_slot \in known /\ blockstore_root \in known
    BY <2>1 DEF RootedOK, KnownOK
  <2>4. QED
    BY <2>2, <2>3, <1>1, ExtendedFork DEF SavedOK
<1>5. MemoryOK'
  <2>1. RootedOK(anc', known', tower)
    BY <1>0, <1>1, ExtendedTower DEF MemoryOK
  <2>2. bank_root = tower.root_slot \/ AboveRoot(anc', tower)
    BY <1>0, <1>1, ExtendedTower DEF MemoryOK
  <2>3. tower.root_slot \in known /\ banks \subseteq known
    BY <1>0 DEF MemoryOK, RootedOK, KnownOK
  <2>4. /\ OnFork(anc', blockstore_root, tower.root_slot)
        /\ saved # NoTower => OnFork(anc', saved.root_slot, tower.root_slot)
    BY <1>0, <1>1, <2>3, ExtendedFork DEF MemoryOK
  <2>5. \A b \in banks : OnFork(anc', bank_root, b)
    BY <1>0, <1>1, <2>3, ExtendedFork DEF MemoryOK
  <2>6. OnFork(anc', bank_root, slot)
    BY <1>0, <1>1 DEF MemoryOK, OnFork
  <2>7. bank_root \in known'
    BY <1>0 DEF MemoryOK
  <2>8. QED
    BY <2>1, <2>2, <2>4, <2>5, <2>6, <2>7, <1>0, ZenonT(60) DEF MemoryOK
<1>6. QueueOK'
  <2>1. ASSUME NEW i \in 1 .. Len(vote_ops)
        PROVE  /\ RootedOK(anc', known', vote_ops[i].tower)
               /\ OnFork(anc', vote_ops[i].tower.root_slot, tower.root_slot)
               /\ vote_ops[i].op = "PushVote" => AboveRoot(anc', vote_ops[i].tower)
    <3>1. /\ RootedOK(anc, known, vote_ops[i].tower)
          /\ OnFork(anc, vote_ops[i].tower.root_slot, tower.root_slot)
          /\ vote_ops[i].op = "PushVote" => AboveRoot(anc, vote_ops[i].tower)
      BY <1>0 DEF QueueOK
    <3>2. tower.root_slot \in known
      BY <1>0 DEF MemoryOK, RootedOK
    <3>3. QED
      BY <3>1, <3>2, <1>1, ExtendedTower, ExtendedFork, SMTT(60)
  <2>2. QED
    BY <2>1, <1>0, Zenon DEF QueueOK
<1>7. StoredOK'
  BY <1>0 DEF StoredOK
<1>8. /\ Within(known, saved) /\ Within(known, tower)
      /\ \A p \in TowerLocks(tower) : p[1] \in known
      /\ \A i \in 1 .. Len(vote_ops) :
           /\ Within(known, vote_ops[i].tower)
           /\ \A p \in TowerLocks(vote_ops[i].tower) : p[1] \in known
  BY <1>0, SavedWithin, OpWithin, RootedWithin, SMTT(60) DEF MemoryOK
<1>8a. \A x, L : Within(known, x) /\ (\A p \in L : p[1] \in known) /\ Keeps(anc, x, L) =>
          Keeps(anc', x, L)
  BY <1>1, ExtendedKeeps, Zenon
<1>9. LocksKept'
  <2>1. Keeps(anc', saved, SentLocks) /\ Keeps(anc', tower, SentLocks)
    BY <1>0, <1>2, <1>8, <1>8a, SMTT(60) DEF LocksKept
  <2>2. ASSUME NEW j \in 1 .. Len(vote_ops)
        PROVE  /\ Keeps(anc', vote_ops[j].tower, SentLocks)
               /\ Keeps(anc', tower, TowerLocks(vote_ops[j].tower))
               /\ \A i \in 1 .. (j - 1) :
                    Keeps(anc', vote_ops[j].tower, TowerLocks(vote_ops[i].tower))
    <3>1. \A i \in 1 .. (j - 1) : i \in 1 .. Len(vote_ops)
      BY QueueFacts
    <3>2. QED
      BY <3>1, <1>0, <1>2, <1>8, <1>8a DEF LocksKept
  <2>3. QED
    BY <2>1, <2>2, <1>0, <1>2, SMTT(60) DEF LocksKept
<1>10. RefreshKept'
  <2>1. ASSUME NEW i \in 1 .. Len(vote_ops)
        PROVE  /\ RefreshesOnly(vote_ops, 0, i) =>
                    Keeps(anc', saved, TowerLocks(vote_ops[i].tower))
               /\ \A j \in 1 .. (i - 1) :
                    RefreshesOnly(vote_ops, j, i) =>
                      Keeps(anc', vote_ops[j].tower, TowerLocks(vote_ops[i].tower))
    <3>1. \A j \in 1 .. (i - 1) : j \in 1 .. Len(vote_ops)
      BY QueueFacts
    <3>2. QED
      BY <3>1, <1>0, <1>8, <1>8a, SMTT(60) DEF RefreshKept
  <2>2. can_sign =>
          /\ RefreshesOnly(vote_ops, 0, Len(vote_ops)) => Keeps(anc', saved, TowerLocks(tower))
          /\ \A j \in 1 .. Len(vote_ops) :
               RefreshesOnly(vote_ops, j, Len(vote_ops)) =>
                 Keeps(anc', vote_ops[j].tower, TowerLocks(tower))
    BY <1>0, <1>8, <1>8a DEF RefreshKept
  <2>3. QED
    BY <2>1, <2>2, <1>0, SMTT(60) DEF RefreshKept
<1>11. LockoutsRespected'
  BY <1>0, <1>1 DEF LockoutsRespected, KnownOK, Extends, TypeOK
<1>12. QED
  BY <1>1, <1>3, <1>4, <1>5, <1>6, <1>7, <1>9, <1>10, <1>11, Zenon

-----------------------------------------------------------------------------
(* Steps that end or leave the run of the validator. *)
LEMMA DownStep ==
  ASSUME LockoutInvariant, TypeOK', Panic \/ Crash
  PROVE  LockoutInvariant'
<1> USE DEF LockoutInvariant
<1>1. /\ status' # "up" /\ anc' = anc /\ known' = known /\ saved' = saved /\ locks' = locks
      /\ blockstore' = blockstore /\ blockstore_root' = blockstore_root
      /\ banks' = banks \/ banks' = {}
      /\ op_stored' => op_stored /\ vote_ops' = vote_ops
  BY DEF Panic, Crash, ledger, memory, service
<1>2. KnownOK' /\ TreeOK(anc', known')
  BY <1>1 DEF KnownOK
<1>3. SavedOK' /\ StoredOK'
  BY <1>1, ZenonT(60) DEF SavedOK, StoredOK
<1>4. LocksKept' /\ MemoryOK' /\ QueueOK' /\ RefreshKept'
  BY <1>1, Zenon DEF LocksKept, SentLocks, MemoryOK, QueueOK, RefreshKept
<1>5. LockoutsRespected'
  BY <1>1 DEF LockoutsRespected
<1>6. QED
  BY <1>2, <1>3, <1>4, <1>5

LEMMA LoseLedgerStep ==
  ASSUME LockoutInvariant, TypeOK', NEW root, NEW kept, LoseLedger(root, kept)
  PROVE  LockoutInvariant'
<1> USE DEF LockoutInvariant
<1>1. /\ status = "down" /\ status' = status /\ anc' = anc /\ known' = known
      /\ saved' = saved /\ locks' = locks /\ banks' = banks
      /\ blockstore' \subseteq blockstore /\ blockstore_root' = root /\ root \in blockstore
      /\ OnFork(anc, root, blockstore_root)
      /\ op_stored' = op_stored /\ vote_ops' = vote_ops
  BY DEF LoseLedger, memory, service, OnFork
<1>2. KnownOK' /\ TreeOK(anc', known')
  BY <1>1 DEF KnownOK
<1>3. SavedOK'
  <2> SUFFICES ASSUME saved # NoTower
               PROVE  \/ OnFork(anc, saved.root_slot, root)
                      \/ OnFork(anc, root, saved.root_slot)
    BY <1>1 DEF SavedOK
  <2>1. Tree(anc, known) /\ blockstore_root \in Slots /\ saved.root_slot \in Slots
    BY DEF Tree, TypeOK, SavedOK, RootedOK
  <2>2. CASE OnFork(anc, saved.root_slot, blockstore_root)
    BY <2>1, <2>2, <1>1, ForkLinear
  <2>3. CASE OnFork(anc, blockstore_root, saved.root_slot)
    BY <2>1, <2>3, <1>1, ForkTransitive, Zenon
  <2>4. QED
    BY <2>2, <2>3 DEF SavedOK
<1>4. StoredOK' /\ MemoryOK' /\ QueueOK' /\ RefreshKept'
  BY <1>1, Zenon DEF StoredOK, MemoryOK, QueueOK, RefreshKept
<1>5. LocksKept' /\ LockoutsRespected'
  BY <1>1, Zenon DEF LocksKept, SentLocks, LockoutsRespected
<1>6. QED
  BY <1>2, <1>3, <1>4, <1>5

-----------------------------------------------------------------------------
(* An op joins the queue. *)
LEMMA AppendedOp ==
  ASSUME TypeOK, NEW op \in Ops, vote_ops' = Append(vote_ops, op)
  PROVE  /\ Len(vote_ops) \in Nat /\ Len(vote_ops') = Len(vote_ops) + 1
         /\ \A i \in 1 .. Len(vote_ops) : vote_ops'[i] = vote_ops[i]
         /\ vote_ops'[Len(vote_ops) + 1] = op /\ vote_ops' # <<>>
  BY QueueFacts, SeqAppended, SMTT(60)

(* What a queued tower needs: it is well formed and keeps what is sent     *)
(* before it.                                                              *)
LEMMA QueuedOp ==
  ASSUME TypeOK, QueueOK, LocksKept, StoredOK, status = "up", status' = "up",
         anc' = anc, known' = known, saved' = saved, locks' = locks, op_stored' = op_stored,
         NEW op \in Ops, vote_ops' = Append(vote_ops, op), op.tower = tower',
         RootedOK(anc, known, tower'), op.op = "PushVote" => AboveRoot(anc, tower'),
         OnFork(anc, tower'.root_slot, tower'.root_slot),
         \A i \in 1 .. Len(vote_ops) :
           OnFork(anc, vote_ops[i].tower.root_slot, tower'.root_slot),
         Keeps(anc, tower', SentLocks), Keeps(anc, tower', TowerLocks(tower')),
         \A i \in 1 .. Len(vote_ops) : Keeps(anc, tower', TowerLocks(vote_ops[i].tower))
  PROVE  QueueOK' /\ LocksKept' /\ StoredOK'
<1>1. /\ Len(vote_ops) \in Nat /\ Len(vote_ops') = Len(vote_ops) + 1
      /\ \A i \in 1 .. Len(vote_ops) : vote_ops'[i] = vote_ops[i]
      /\ vote_ops'[Len(vote_ops) + 1] = op /\ vote_ops' # <<>>
  BY AppendedOp, Zenon
<1>2. \A i \in 1 .. Len(vote_ops') : i \in 1 .. Len(vote_ops) \/ i = Len(vote_ops) + 1
  BY <1>1, SMTT(60)
<1>3. QueueOK'
  BY <1>1, <1>2, Zenon DEF QueueOK
<1>4. LocksKept'
  <2>1. SentLocks' = SentLocks
    BY Zenon DEF SentLocks
  <2>2. ASSUME NEW j \in 1 .. Len(vote_ops')
        PROVE  /\ Keeps(anc, vote_ops'[j].tower, SentLocks)
               /\ Keeps(anc, tower', TowerLocks(vote_ops'[j].tower))
               /\ \A i \in 1 .. (j - 1) :
                    Keeps(anc, vote_ops'[j].tower, TowerLocks(vote_ops'[i].tower))
    <3>1. CASE j \in 1 .. Len(vote_ops)
      <4>1. \A i \in 1 .. (j - 1) : i \in 1 .. Len(vote_ops)
        BY <3>1, <1>1, SMTT(60)
      <4>2. QED
        BY <3>1, <4>1, <1>1, Zenon DEF LocksKept
    <3>2. CASE j = Len(vote_ops) + 1
      <4>1. \A i \in 1 .. (j - 1) : i \in 1 .. Len(vote_ops)
        BY <3>2, <1>1, SMTT(60)
      <4>2. QED
        BY <3>2, <4>1, <1>1, Zenon
    <3>3. QED
      BY <3>1, <3>2, <1>2, Zenon
  <2>3. QED
    BY <2>1, <2>2, Zenon DEF LocksKept
<1>5. StoredOK'
  <2> SUFFICES ASSUME op_stored PROVE StoredOK'
    BY Zenon DEF StoredOK
  <2>1. vote_ops # <<>>
    BY Zenon DEF StoredOK
  <2>2. 1 \in 1 .. Len(vote_ops)
    BY <2>1, QueueFacts, SeqEmpty, <1>1, SMTT(60)
  <2>3. QED
    BY <2>2, <1>1, Zenon DEF StoredOK
<1>6. QED
  BY <1>3, <1>4, <1>5

(* A new op keeps the order of stores and refreshes right. *)
LEMMA QueuedRefresh ==
  ASSUME TypeOK, RefreshKept, status = "up", can_sign,
         status' = "up", anc' = anc, saved' = saved,
         NEW op \in Ops, vote_ops' = Append(vote_ops, op), op.tower = tower',
         op.op = "RefreshVote" => tower' = tower,
         Keeps(anc, tower', TowerLocks(tower'))
  PROVE  RefreshKept'
<1> DEFINE n == Len(vote_ops)
<1>1. /\ n \in Nat /\ Len(vote_ops') = n + 1
      /\ \A i \in 1 .. n : vote_ops'[i] = vote_ops[i]
      /\ vote_ops'[n + 1] = op
  BY AppendedOp
<1>2. /\ \A i \in 1 .. n :
           /\ RefreshesOnly(vote_ops, 0, i) => Keeps(anc, saved, TowerLocks(vote_ops[i].tower))
           /\ \A j \in 1 .. (i - 1) :
                RefreshesOnly(vote_ops, j, i) =>
                  Keeps(anc, vote_ops[j].tower, TowerLocks(vote_ops[i].tower))
      /\ RefreshesOnly(vote_ops, 0, n) => Keeps(anc, saved, TowerLocks(tower))
      /\ \A j \in 1 .. n :
           RefreshesOnly(vote_ops, j, n) => Keeps(anc, vote_ops[j].tower, TowerLocks(tower))
  BY Zenon DEF RefreshKept
<1> HIDE DEF n
<1>3. \A j \in 0 .. n : \A i \in 0 .. n :
        RefreshesOnly(vote_ops', j, i) => RefreshesOnly(vote_ops, j, i)
  BY <1>1, SMTT(60) DEF RefreshesOnly
<1>4. \A j \in 0 .. n : RefreshesOnly(vote_ops', j, n + 1) =>
        RefreshesOnly(vote_ops, j, n) /\ tower' = tower
  BY <1>1 DEF RefreshesOnly
<1>5. RefreshesOnly(vote_ops', 0, n + 1) => Keeps(anc, saved, TowerLocks(tower'))
  BY <1>1, <1>2, <1>4, SMTT(60)
<1>6. ASSUME NEW j \in 1 .. n, RefreshesOnly(vote_ops', j, n + 1)
      PROVE  Keeps(anc, vote_ops'[j].tower, TowerLocks(tower'))
  <2>1. RefreshesOnly(vote_ops, j, n) /\ tower' = tower
    BY <1>1, <1>4, <1>6
  <2>2. vote_ops'[j] = vote_ops[j]
    BY <1>1
  <2>3. QED
    BY <2>1, <2>2, <1>2, Zenon
<1>7. ASSUME NEW i \in 1 .. n
      PROVE  /\ RefreshesOnly(vote_ops', 0, i) =>
                  Keeps(anc, saved, TowerLocks(vote_ops'[i].tower))
             /\ \A j \in 1 .. (i - 1) :
                  RefreshesOnly(vote_ops', j, i) =>
                    Keeps(anc, vote_ops'[j].tower, TowerLocks(vote_ops'[i].tower))
  <2>1. i \in 0 .. n /\ 0 \in 0 .. n /\ vote_ops'[i] = vote_ops[i]
    BY <1>1
  <2>2. \A j \in 1 .. (i - 1) : j \in 0 .. n /\ vote_ops'[j] = vote_ops[j]
    BY <1>1
  <2>3. RefreshesOnly(vote_ops', 0, i) => Keeps(anc, saved, TowerLocks(vote_ops'[i].tower))
    BY <2>1, <1>2, <1>3
  <2>4. ASSUME NEW j \in 1 .. (i - 1), RefreshesOnly(vote_ops', j, i)
        PROVE  Keeps(anc, vote_ops'[j].tower, TowerLocks(vote_ops'[i].tower))
    <3>1. RefreshesOnly(vote_ops, j, i)
      BY <2>1, <2>2, <2>4, <1>3, ZenonT(60)
    <3>2. QED
      BY <3>1, <2>1, <2>2, <1>2, Zenon
  <2>5. QED
    BY <2>3, <2>4, Zenon
<1>8. ASSUME NEW i \in 1 .. (n + 1)
      PROVE  /\ RefreshesOnly(vote_ops', 0, i) =>
                  Keeps(anc, saved, TowerLocks(vote_ops'[i].tower))
             /\ \A j \in 1 .. (i - 1) :
                  RefreshesOnly(vote_ops', j, i) =>
                    Keeps(anc, vote_ops'[j].tower, TowerLocks(vote_ops'[i].tower))
  <2>1. CASE i = n + 1
    <3>1. vote_ops'[i].tower = tower' /\ (n + 1) - 1 = n
      BY <2>1, <1>1
    <3>2. QED
      BY <2>1, <3>1, <1>5, <1>6, Zenon
  <2>2. CASE i \in 1 .. n
    BY <2>2, <1>7, Zenon
  <2>3. QED
    BY <2>1, <2>2, <1>1, SMTT(60)
<1>9. ASSUME NEW j \in 1 .. (n + 1), RefreshesOnly(vote_ops', j, n + 1)
      PROVE  Keeps(anc, vote_ops'[j].tower, TowerLocks(tower'))
  <2>1. CASE j = n + 1
    BY <2>1, <1>1
  <2>2. CASE j \in 1 .. n
    BY <2>2, <1>6, <1>9, Zenon
  <2>3. QED
    BY <2>1, <2>2, <1>1, SMTT(60)
<1>10. QED
  BY <1>1, <1>5, <1>8, <1>9, Zenon DEF RefreshKept

LEMMA RefreshLastVoteStep ==
  ASSUME LockoutInvariant, TypeOK', RefreshLastVote
  PROVE  LockoutInvariant'
<1> USE DEF LockoutInvariant
<1> DEFINE op == [op |-> "RefreshVote", tower |-> tower]
<1>0. /\ status = "up" /\ status' = "up" /\ anc' = anc /\ known' = known /\ saved' = saved
      /\ blockstore' = blockstore /\ blockstore_root' = blockstore_root /\ locks' = locks
      /\ banks' = banks /\ bank_root' = bank_root /\ tower' = tower /\ can_sign' = can_sign
      /\ op_stored' = op_stored /\ can_sign /\ vote_ops' = Append(vote_ops, op)
  BY DEF RefreshLastVote, ledger, memory
<1>1. op \in Ops /\ op.tower = tower /\ op.op = "RefreshVote"
  BY DEF TypeOK, Ops
<1> HIDE DEF op
<1>2. Tree(anc, known) /\ tower \in Towers /\ RootedOK(anc, known, tower)
  BY <1>0, Zenon DEF Tree, TypeOK, MemoryOK
<1>3. Keeps(anc, tower, TowerLocks(tower))
  BY <1>2, KeepsOwnLocks, Zenon DEF RootedOK
<1>4. QueueOK' /\ LocksKept' /\ StoredOK'
  <2>1. OnFork(anc, tower.root_slot, tower.root_slot)
    BY Zenon DEF OnFork
  <2>2. \A i \in 1 .. Len(vote_ops) :
          OnFork(anc, vote_ops[i].tower.root_slot, tower.root_slot)
    BY <1>0, Zenon DEF QueueOK
  <2>3. Keeps(anc, tower, SentLocks)
        /\ \A i \in 1 .. Len(vote_ops) : Keeps(anc, tower, TowerLocks(vote_ops[i].tower))
    BY <1>0 DEF LocksKept
  <2>4. QED
    BY <1>0, <1>1, <1>2, <1>3, <2>1, <2>2, <2>3, QueuedOp, ZenonT(60)
<1>6. RefreshKept'
  BY <1>0, <1>1, <1>3, QueuedRefresh, Zenon
<1>7. SavedOK' /\ MemoryOK' /\ KnownOK' /\ LockoutsRespected' /\ TreeOK(anc', known')
  BY <1>0, Zenon DEF SavedOK, MemoryOK, KnownOK, LockoutsRespected
<1>8. QED
  BY <1>4, <1>6, <1>7

(* The vote that is_locked_out and its assertion let through. *)
LEMMA VoteIsRecorded ==
  ASSUME LockoutInvariant, NEW slot \in Slots, Vote(slot)
  PROVE  /\ status = "up" /\ slot \in known /\ tower' \in Towers
         /\ tower.root_slot \in Slots
         /\ Recorded(anc, tower, slot, tower')
<1> USE DEF LockoutInvariant
<1>1. /\ status = "up" /\ slot \in banks /\ slot \in known /\ tower \in Towers
      /\ ~IsLockedOut(slot) /\ ~LockoutAssertionFails(slot) /\ RecordBankVote(slot)
  BY DEF Vote, KnownOK, TypeOK
<1>2. /\ tower' \in Towers
      /\ tower'.votes = NextVotes(tower.votes, slot)
      /\ tower'.root_slot = NextRoot(tower.votes, tower.root_slot, slot)
      /\ tower'.last_vote = slot
  BY <1>1, RecordedTowerType, ZenonT(60)
<1>3. /\ RootedOK(anc, known, tower) /\ tower.root_slot \in Slots
      /\ Tree(anc, known)
  BY <1>1, Zenon DEF MemoryOK, RootedOK, TypeOK, Tree
<1>4. IsRecent(tower.votes, slot)
  BY <1>1, Zenon DEF IsLockedOut
<1>5. \A i \in 1 .. Len(tower'.votes) : OnFork(anc, tower'.votes[i].slot, slot)
  BY <1>1, <1>2, Zenon DEF IsLockedOut, BankAncestors, VotedSlots, OnFork
<1>6. OnFork(anc, tower'.root_slot, slot)
  BY <1>1, <1>2, Zenon DEF LockoutAssertionFails, BankAncestors, OnFork
<1>7. OnFork(anc, tower.root_slot, slot)
  <2>1. CASE bank_root = tower.root_slot
    BY <2>1, <1>1, Zenon DEF MemoryOK
  <2>2. CASE AboveRoot(anc, tower)
    <3>1. tower.votes \in Stacks
      BY <1>1, TowerFields
    <3>2. \/ tower'.root_slot = tower.root_slot
          \/ 1 \in 1 .. Len(tower.votes) /\ tower'.root_slot = tower.votes[1].slot
      BY <3>1, <1>2, NextRootType, StackElement, SMTT(60)
    <3>3. OnFork(anc, tower.root_slot, tower'.root_slot)
      BY <3>2, <2>2 DEF AboveRoot, OnFork
    <3>4. QED
      BY <3>3, <1>3, <1>6, ForkTransitive
  <2>3. QED
    BY <2>1, <2>2, <1>1, ZenonT(60) DEF MemoryOK
<1>8. QED
  BY <1>1, <1>2, <1>3, <1>4, <1>5, <1>6, <1>7, ZenonT(60) DEF Recorded

LEMMA VoteStep ==
  ASSUME LockoutInvariant, TypeOK', NEW slot \in Slots, Vote(slot)
  PROVE  LockoutInvariant'
<1> USE DEF LockoutInvariant
<1> DEFINE op == [op |-> "PushVote", tower |-> tower']
           n == Len(vote_ops)
<1>0. /\ status = "up" /\ status' = "up" /\ anc' = anc /\ known' = known /\ saved' = saved
      /\ blockstore' = blockstore /\ locks' = locks /\ can_sign' = can_sign
      /\ op_stored' = op_stored
      /\ vote_ops' = IF can_sign THEN Append(vote_ops, op) ELSE vote_ops
      /\ SetRoots(tower'.root_slot)
  BY DEF Vote, PushVote
<1>1. op \in Ops /\ op.tower = tower' /\ op.op = "PushVote"
  BY Zenon DEF TypeOK, Ops
<1> HIDE DEF op
<1>2. /\ Tree(anc, known) /\ tower \in Towers /\ tower' \in Towers
      /\ slot \in known /\ tower.root_slot \in Slots
      /\ RootedOK(anc, known, tower) /\ Recorded(anc, tower, slot, tower')
  BY <1>0, VoteIsRecorded, Zenon DEF Tree, TypeOK, MemoryOK
<1>3. /\ RootedOK(anc, known, tower') /\ AboveRoot(anc, tower')
      /\ tower'.root_slot \in Slots /\ tower'.root_slot \in known
      /\ OnFork(anc, tower.root_slot, tower'.root_slot)
  BY <1>2, RecordedStack, ZenonT(60) DEF RootedOK
<1>4. Keeps(anc, tower', TowerLocks(tower'))
  BY <1>2, <1>3, KeepsOwnLocks, Zenon DEF RootedOK
<1>5. /\ Keeps(anc, tower', SentLocks)
      /\ \A i \in 1 .. n : Keeps(anc, tower', TowerLocks(vote_ops[i].tower))
  <2>1. IsLocks(SentLocks) /\ \A i \in 1 .. n : IsLocks(TowerLocks(vote_ops[i].tower))
    BY SentLocksFacts, QueueFacts, TowerLocksType, SMTT(60)
  <2>2. /\ Keeps(anc, tower, SentLocks)
        /\ \A i \in 1 .. n : Keeps(anc, tower, TowerLocks(vote_ops[i].tower))
    BY <1>0 DEF LocksKept
  <2>3. QED
    BY <2>1, <2>2, <1>2, RecordedKeeps, Zenon
<1>6. /\ \A i \in 1 .. n : OnFork(anc, vote_ops[i].tower.root_slot, tower'.root_slot)
      /\ OnFork(anc, blockstore_root, tower'.root_slot)
      /\ saved # NoTower => OnFork(anc, saved.root_slot, tower'.root_slot)
      /\ OnFork(anc, tower'.root_slot, tower'.root_slot)
  BY <1>0, <1>2, <1>3, ForkTransitive, Zenon DEF QueueOK, MemoryOK, OnFork
<1>7. QueueOK' /\ LocksKept' /\ StoredOK'
  <2>1. CASE can_sign
    BY <2>1, <1>0, <1>1, <1>3, <1>4, <1>5, <1>6, QueuedOp, ZenonT(60)
  <2>2. CASE ~can_sign
    <3>1. vote_ops' = vote_ops /\ SentLocks' = SentLocks
      BY <2>2, <1>0, Zenon DEF SentLocks
    <3>2. QueueOK'
      BY <3>1, <1>0, <1>6, Zenon DEF QueueOK
    <3>3. LocksKept'
      BY <3>1, <1>0, <1>5, ZenonT(60) DEF LocksKept
    <3>4. StoredOK'
      BY <3>1, <1>0, Zenon DEF StoredOK
    <3>5. QED
      BY <3>2, <3>3, <3>4, Zenon
  <2>3. QED
    BY <2>1, <2>2, Zenon
<1>8. RefreshKept'
  <2>1. CASE can_sign
    BY <2>1, <1>0, <1>1, <1>4, QueuedRefresh, ZenonT(60)
  <2>2. CASE ~can_sign
    <3>1. vote_ops' = vote_ops
      BY <2>2, <1>0, Zenon
    <3>2. QED
      BY <3>1, <2>2, <1>0 DEF RefreshKept
  <2>3. QED
    BY <2>1, <2>2
<1>9. /\ banks' \subseteq banks
      /\ blockstore_root' = blockstore_root \/ blockstore_root' = tower'.root_slot
      /\ bank_root' \in known /\ \A b \in banks' : OnFork(anc, bank_root', b)
  BY <1>0, <1>3, ZenonT(60) DEF SetRoots, MemoryOK, OnFork
<1>10. OnFork(anc, blockstore_root', tower'.root_slot)
  BY <1>6, <1>9
<1>11. SavedOK'
  <2>1. CASE blockstore_root' = blockstore_root
    BY <2>1, <1>0, Zenon DEF SavedOK
  <2>2. CASE blockstore_root' = tower'.root_slot
    BY <2>2, <1>0, <1>6, Zenon DEF SavedOK
  <2>3. QED
    BY <2>1, <2>2, <1>9
<1>12. MemoryOK'
  BY <1>0, <1>3, <1>6, <1>9, <1>10, Zenon DEF MemoryOK
<1>13. KnownOK' /\ LockoutsRespected' /\ TreeOK(anc', known')
  BY <1>0, <1>3, <1>9, Zenon DEF KnownOK, LockoutsRespected
<1>14. QED
  BY <1>7, <1>8, <1>11, <1>12, <1>13, Zenon

-----------------------------------------------------------------------------
(* The head of the queue, as handle_vote sees it. *)
LEMMA HeadOp ==
  ASSUME LockoutInvariant, vote_ops # <<>>
  PROVE  /\ Head(vote_ops) = vote_ops[1] /\ 1 \in 1 .. Len(vote_ops)
         /\ Len(vote_ops) \in Nat /\ vote_ops[1].tower \in Towers
         /\ Len(Tail(vote_ops)) = Len(vote_ops) - 1
         /\ \A i \in 1 .. (Len(vote_ops) - 1) : Tail(vote_ops)[i] = vote_ops[i + 1]
<1>1. vote_ops \in Seq(Ops) /\ Len(vote_ops) \in Nat
  BY QueueFacts DEF LockoutInvariant
<1>2. Head(vote_ops) = vote_ops[1] /\ 1 \in 1 .. Len(vote_ops)
  BY <1>1
<1>3. /\ Len(Tail(vote_ops)) = Len(vote_ops) - 1
      /\ \A i \in 1 .. Len(Tail(vote_ops)) : Tail(vote_ops)[i] = vote_ops[i + 1]
  BY <1>1, SeqBeheaded
<1>4. QED
  BY <1>1, <1>2, <1>3, QueueFacts, SMTT(60) DEF LockoutInvariant

LEMMA StoreTowerStep ==
  ASSUME LockoutInvariant, TypeOK', StoreTower
  PROVE  LockoutInvariant'
<1> USE DEF LockoutInvariant
<1> DEFINE t == vote_ops[1].tower
<1>0. /\ status = "up" /\ status' = "up" /\ anc' = anc /\ known' = known /\ locks' = locks
      /\ blockstore' = blockstore /\ blockstore_root' = blockstore_root
      /\ banks' = banks /\ bank_root' = bank_root /\ tower' = tower /\ can_sign' = can_sign
      /\ vote_ops' = vote_ops /\ vote_ops # <<>>
  BY DEF StoreTower, ledger, memory
<1>1. /\ vote_ops[1].op = "PushVote" /\ t \in Towers /\ 1 \in 1 .. Len(vote_ops)
      /\ saved' = [t EXCEPT !.stray_restored_slot = None]
  BY <1>0, HeadOp DEF StoreTower
<1> HIDE DEF t
<1>2. saved'.votes = t.votes /\ saved'.root_slot = t.root_slot /\ saved'.last_vote = t.last_vote
  BY <1>1 DEF Towers
<1>3. /\ RootedOK(anc, known, t) /\ AboveRoot(anc, t)
      /\ OnFork(anc, t.root_slot, tower.root_slot)
  BY <1>0, <1>1, Zenon DEF QueueOK, t
<1>4. SavedOK'
  <2>1. Tree(anc, known) /\ tower.root_slot \in Slots
    BY <1>0, Zenon DEF Tree, TypeOK, MemoryOK, RootedOK
  <2>2. OnFork(anc, t.root_slot, blockstore_root) \/ OnFork(anc, blockstore_root, t.root_slot)
    BY <2>1, <1>0, <1>3, ForkLinear, Zenon DEF MemoryOK
  <2>3. RootedOK(anc, known, saved') /\ AboveRoot(anc, saved')
    BY <1>2, <1>3, Zenon DEF RootedOK, StackOK, AboveRoot
  <2>4. QED
    BY <2>2, <2>3, <1>0, <1>2, Zenon DEF SavedOK
<1>5. MemoryOK'
  BY <1>0, <1>2, <1>3, ZenonT(60) DEF MemoryOK
<1>6. QueueOK' /\ KnownOK' /\ LockoutsRespected' /\ TreeOK(anc', known')
  BY <1>0 DEF QueueOK, KnownOK, LockoutsRespected
<1>7. StoredOK'
  BY <1>0, <1>1, <1>2, Zenon DEF StoredOK, t
<1>8. LocksKept'
  <2>1. SentLocks' = SentLocks
    BY <1>0 DEF SentLocks
  <2>2. Keeps(anc, t, SentLocks)
    BY <1>0, <1>1 DEF LocksKept, t
  <2>3. Keeps(anc, saved', SentLocks)
    BY <2>2, <1>2, KeepsSameFields, ZenonT(60)
  <2>4. QED
    BY <2>1, <2>3, <1>0, ZenonT(60) DEF LocksKept
<1>9. RefreshKept'
  <2>1. \A i \in 1 .. Len(vote_ops) : ~RefreshesOnly(vote_ops, 0, i)
    BY <1>1 DEF RefreshesOnly
  <2>2. Len(vote_ops) \in 1 .. Len(vote_ops)
    BY <1>1, QueueFacts
  <2>3. QED
    BY <2>1, <2>2, <1>0 DEF RefreshKept
<1>10. QED
  BY <1>4, <1>5, <1>6, <1>7, <1>8, <1>9, ZenonT(60)

(* What sending the head adds to the locks the cluster holds us to. *)
LEMMA SentLocksGrow ==
  ASSUME LockoutInvariant, SendVote
  PROVE  /\ SentLocks' \subseteq SentLocks \cup TowerLocks(vote_ops[1].tower)
         /\ \A s \in Slots : locks'[s] \in Nat
<1> DEFINE t == vote_ops[1].tower
<1>1. t \in Towers /\ t.votes \in Stacks /\ Head(vote_ops) = vote_ops[1]
  BY HeadOp, TowerFields, Zenon DEF SendVote
<1>2. locks \in [Slots -> Nat] /\ locks' = [s \in Slots |-> Locked(t.votes, s)]
  BY <1>1 DEF LockoutInvariant, TypeOK, SendVote
<1> HIDE DEF t
<1>3. ASSUME NEW s \in Slots
      PROVE  /\ locks'[s] \in Nat
             /\ locks'[s] > 0 => <<s, locks'[s]>> \in SentLocks \cup TowerLocks(t)
  <2>1. locks'[s] = Locked(t.votes, s)
    BY <1>2
  <2>2. CASE locks'[s] = locks[s]
    BY <2>2, <1>2, Zenon DEF SentLocks
  <2>3. CASE \E i \in 1 .. Len(t.votes) :
               t.votes[i].slot = s /\ Locked(t.votes, s) = LastLockedOutSlot(t.votes[i])
    BY <2>1, <2>3, <1>1, <1>2, LockedType, Zenon DEF TowerLocks
  <2>4. QED
    BY <2>1, <2>2, <2>3, <1>1, <1>2, LockedType, Zenon
<1>4. QED
  BY <1>3, Zenon DEF SentLocks, t

(* The saved tower stands for the vote being sent. *)
LEMMA SavedStandsForHead ==
  ASSUME LockoutInvariant, SendVote
  PROVE  /\ Keeps(anc, saved, TowerLocks(vote_ops[1].tower))
         /\ \A i \in 2 .. Len(vote_ops) :
              RefreshesOnly(vote_ops, 1, i) =>
                Keeps(anc, saved, TowerLocks(vote_ops[i].tower))
         /\ can_sign /\ RefreshesOnly(vote_ops, 1, Len(vote_ops)) =>
              Keeps(anc, saved, TowerLocks(tower))
<1> USE DEF LockoutInvariant
<1>0. /\ status = "up" /\ Head(vote_ops) = vote_ops[1] /\ 1 \in 1 .. Len(vote_ops)
      /\ Len(vote_ops) \in Nat /\ vote_ops[1].tower \in Towers
  BY HeadOp DEF SendVote
<1>1. CASE vote_ops[1].op = "PushVote"
  <2> DEFINE t == vote_ops[1].tower
  <2>1. /\ saved.votes = t.votes /\ saved.root_slot = t.root_slot
        /\ saved.last_vote = t.last_vote
    BY <1>0, <1>1, ZenonT(60) DEF SendVote, StoredOK
  <2>2. Tree(anc, known) /\ StackOK(anc, known, t)
    BY <1>0, Zenon DEF Tree, TypeOK, QueueOK, RootedOK
  <2>3. Keeps(anc, t, TowerLocks(t))
    BY <1>0, <2>2, KeepsOwnLocks, Zenon
  <2>4. ASSUME NEW i \in 2 .. Len(vote_ops), RefreshesOnly(vote_ops, 1, i)
        PROVE  Keeps(anc, t, TowerLocks(vote_ops[i].tower))
    <3>1. i \in 1 .. Len(vote_ops) /\ 1 \in 1 .. (i - 1)
      OBVIOUS
    <3>2. QED
      BY <3>1, <2>4, <1>0 DEF RefreshKept
  <2>5. can_sign /\ RefreshesOnly(vote_ops, 1, Len(vote_ops)) => Keeps(anc, t, TowerLocks(tower))
    BY <1>0 DEF RefreshKept
  <2> HIDE DEF t
  <2>6. \A L : Keeps(anc, t, L) => Keeps(anc, saved, L)
    BY <2>1, KeepsSameFields
  <2>7. /\ Keeps(anc, saved, TowerLocks(t))
        /\ \A i \in 2 .. Len(vote_ops) :
             RefreshesOnly(vote_ops, 1, i) => Keeps(anc, saved, TowerLocks(vote_ops[i].tower))
        /\ can_sign /\ RefreshesOnly(vote_ops, 1, Len(vote_ops)) =>
             Keeps(anc, saved, TowerLocks(tower))
    BY <2>3, <2>4, <2>5, <2>6, Zenon
  <2>8. QED
    BY <2>7, Zenon DEF t
<1>2. CASE vote_ops[1].op = "RefreshVote"
  <2>1. RefreshesOnly(vote_ops, 0, 1)
    <3>1. \A k \in (0 + 1) .. 1 : k = 1
      BY SMTT(60)
    <3>2. QED
      BY <3>1, <1>2, Zenon DEF RefreshesOnly
  <2>2. \A i \in 1 .. Len(vote_ops) :
          RefreshesOnly(vote_ops, 1, i) => RefreshesOnly(vote_ops, 0, i)
    <3>1. \A i \in 1 .. Len(vote_ops) : \A k \in (0 + 1) .. i : k = 1 \/ k \in (1 + 1) .. i
      BY <1>0
    <3>2. QED
      BY <1>2, <3>1, Zenon DEF RefreshesOnly
  <2>3. Len(vote_ops) \in 1 .. Len(vote_ops)
    BY <1>0
  <2>4. QED
    BY <2>1, <2>2, <2>3, <1>0, SMTT(60) DEF RefreshKept
<1>3. QED
  BY <1>0, <1>1, <1>2, QueueFacts, Zenon

LEMMA SentRespectsLockouts ==
  ASSUME LockoutInvariant, SendVote
  PROVE  LockoutsRespected'
<1> USE DEF LockoutInvariant
<1> DEFINE t == vote_ops[1].tower
<1>1. /\ status = "up" /\ t \in Towers /\ 1 \in 1 .. Len(vote_ops) /\ anc' = anc
  BY HeadOp DEF SendVote
<1>2. /\ SentLocks' \subseteq SentLocks \cup TowerLocks(t)
      /\ \A s \in Slots : locks'[s] \in Nat
  BY SentLocksGrow
<1>3. Keeps(anc, t, SentLocks \cup TowerLocks(t))
  <2>1. Tree(anc, known) /\ StackOK(anc, known, t) /\ Keeps(anc, t, SentLocks)
    BY <1>1, Zenon DEF Tree, TypeOK, QueueOK, RootedOK, LocksKept
  <2>2. QED
    BY <2>1, <1>1, KeepsOwnLocks, KeepsUnion, Zenon
<1> HIDE DEF t
<1> SUFFICES ASSUME NEW v \in Slots, NEW u \in Slots,
                    v < u, locks'[u] > 0, locks'[v] >= u
             PROVE  v \in anc[u]
  BY <1>1 DEF LockoutsRespected
<1> DEFINE p == <<v, locks'[v]>>
           q == <<u, locks'[u]>>
<1>4. v \in Nat /\ u \in Nat /\ locks'[v] \in Nat /\ locks'[u] \in Nat
  BY <1>2, SlotsAssumption, Zenon
<1>5. /\ p \in SentLocks \cup TowerLocks(t) /\ p[1] = v /\ p[2] = locks'[v]
      /\ q \in SentLocks \cup TowerLocks(t) /\ q[1] = u
  BY <1>2, <1>4, SMTT(60) DEF SentLocks
<1>6. AgreesWith(anc, t, p) /\ AgreesWith(anc, t, q)
  BY <1>3, <1>5, Zenon DEF Keeps
<1>7. CASE q \in TowerLocks(t)
  <2>1. PICK i \in 1 .. Len(t.votes) : q[1] = t.votes[i].slot
    BY <1>1, <1>7, TowerLockFacts, Zenon
  <2>2. QED
    BY <2>1, <1>5, <1>6, Zenon DEF AgreesWith
<1>8. CASE p \in TowerLocks(t)
  <2>1. PICK i \in 1 .. Len(t.votes) : p[1] = t.votes[i].slot
    BY <1>1, <1>8, TowerLockFacts, Zenon
  <2>2. QED
    BY <2>1, <1>5, <1>6, Zenon DEF AgreesWith
<1>9. CASE p \in SentLocks /\ q \in SentLocks
  <2>1. locks[v] = locks'[v] /\ locks[u] = locks'[u]
    BY <1>9 DEF SentLocks
  <2>2. QED
    BY <2>1, SMTT(60) DEF LockoutsRespected
<1>10. QED
  BY <1>5, <1>7, <1>8, <1>9

LEMMA SendVoteStep ==
  ASSUME LockoutInvariant, TypeOK', SendVote
  PROVE  LockoutInvariant'
<1> USE DEF LockoutInvariant
<1> DEFINE t == vote_ops[1].tower
           n == Len(vote_ops)
<1>0. /\ status = "up" /\ status' = "up" /\ anc' = anc /\ known' = known /\ saved' = saved
      /\ blockstore' = blockstore /\ blockstore_root' = blockstore_root
      /\ banks' = banks /\ bank_root' = bank_root /\ tower' = tower /\ can_sign' = can_sign
      /\ op_stored' = FALSE
  BY DEF SendVote, ledger, memory
<1>1. /\ t \in Towers /\ n \in Nat /\ n >= 1 /\ Len(vote_ops') = n - 1
      /\ \A i \in 1 .. (n - 1) : vote_ops'[i] = vote_ops[i + 1]
  BY HeadOp DEF SendVote
<1>2. /\ SentLocks' \subseteq SentLocks \cup TowerLocks(t)
      /\ \A s \in Slots : locks'[s] \in Nat
  BY SentLocksGrow
<1>3. /\ Keeps(anc, saved, TowerLocks(t))
      /\ \A i \in 2 .. n :
           RefreshesOnly(vote_ops, 1, i) => Keeps(anc, saved, TowerLocks(vote_ops[i].tower))
      /\ can_sign /\ RefreshesOnly(vote_ops, 1, n) => Keeps(anc, saved, TowerLocks(tower))
  BY SavedStandsForHead
<1>4. \A x : Keeps(anc, x, SentLocks) /\ Keeps(anc, x, TowerLocks(t)) => Keeps(anc, x, SentLocks')
  BY <1>2 DEF Keeps
<1>5. KnownOK'
  <2>1. \A s \in Slots : locks'[s] > 0 => <<s, locks'[s]>> \in SentLocks'
    BY DEF SentLocks
  <2>2. \A q \in SentLocks \cup TowerLocks(t) : q[1] \in known
    <3>1. \A q \in SentLocks : q[1] \in known
      BY SentLocksFacts
    <3>2. 1 \in 1 .. Len(vote_ops)
      BY <1>1
    <3>3. \A q \in TowerLocks(t) : q[1] \in known
      BY <3>2, <1>0, OpWithin
    <3>4. QED
      BY <3>1, <3>3
  <2>3. \A s \in Slots : locks'[s] > 0 => s \in known
    <3> SUFFICES ASSUME NEW s \in Slots, locks'[s] > 0 PROVE s \in known
      OBVIOUS
    <3>1. <<s, locks'[s]>>[1] \in known
      BY <2>1, <2>2, <1>2, Zenon
    <3>2. QED
      BY <3>1
  <2>4. QED
    BY <2>3, <1>0 DEF KnownOK
<1>6. \A i \in 1 .. (n - 1) : i + 1 \in 1 .. n /\ i + 1 \in 2 .. n
  BY <1>1, SMTT(60)
<1>7. QueueOK'
  BY <1>0, <1>1, <1>6, Zenon DEF QueueOK
<1>8. LocksKept'
  <2>1. Keeps(anc, saved, SentLocks') /\ Keeps(anc, tower, SentLocks')
    <3>1. 1 \in 1 .. n
      BY <1>1
    <3>2. /\ Keeps(anc, saved, SentLocks) /\ Keeps(anc, tower, SentLocks)
          /\ Keeps(anc, tower, TowerLocks(t))
      BY <3>1, <1>0, Zenon DEF LocksKept
    <3>3. QED
      BY <3>2, <1>3, <1>4, Zenon
  <2>2. ASSUME NEW j \in 1 .. (n - 1)
        PROVE  /\ Keeps(anc, vote_ops'[j].tower, SentLocks')
               /\ Keeps(anc, tower, TowerLocks(vote_ops'[j].tower))
               /\ \A i \in 1 .. (j - 1) :
                    Keeps(anc, vote_ops'[j].tower, TowerLocks(vote_ops'[i].tower))
    <3> DEFINE x == vote_ops[j + 1].tower
    <3>1. /\ Keeps(anc, x, SentLocks) /\ Keeps(anc, tower, TowerLocks(x))
          /\ \A i \in 1 .. j : Keeps(anc, x, TowerLocks(vote_ops[i].tower))
      BY <1>0, <1>6, SMTT(60) DEF LocksKept
    <3>2. Keeps(anc, x, TowerLocks(t))
      BY <3>1
    <3>3. \A i \in 1 .. (j - 1) : i \in 1 .. (n - 1) /\ i + 1 \in 1 .. j
      BY <1>1, SMTT(60)
    <3> HIDE DEF x, t, n
    <3>4. Keeps(anc, x, SentLocks')
      BY <3>1, <3>2, <1>4, Zenon
    <3>5. vote_ops'[j].tower = x
      BY <1>1, Zenon DEF x
    <3>6. QED
      BY <3>1, <3>3, <3>4, <3>5, <1>1, ZenonT(60)
  <2>3. QED
    BY <2>1, <2>2, <1>0, <1>1, ZenonT(60) DEF LocksKept
<1>9. RefreshKept'
  <2>1. \A j \in 0 .. (n - 1) : \A i \in 0 .. (n - 1) :
          RefreshesOnly(vote_ops', j, i) => RefreshesOnly(vote_ops, j + 1, i + 1)
    <3> SUFFICES ASSUME NEW j \in 0 .. (n - 1), NEW i \in 0 .. (n - 1),
                        RefreshesOnly(vote_ops', j, i),
                        NEW k \in (j + 1 + 1) .. (i + 1)
                 PROVE  vote_ops[k].op = "RefreshVote"
      BY Zenon DEF RefreshesOnly
    <3>1. k - 1 \in (j + 1) .. i /\ k - 1 \in 1 .. (n - 1) /\ (k - 1) + 1 = k
      BY <1>1
    <3>2. QED
      BY <3>1, <1>1, Zenon DEF RefreshesOnly
  <2>2. ASSUME NEW i \in 1 .. (n - 1)
        PROVE  /\ RefreshesOnly(vote_ops', 0, i) =>
                    Keeps(anc, saved, TowerLocks(vote_ops'[i].tower))
               /\ \A j \in 1 .. (i - 1) :
                    RefreshesOnly(vote_ops', j, i) =>
                      Keeps(anc, vote_ops'[j].tower, TowerLocks(vote_ops'[i].tower))
    <3>1. \A j \in 1 .. i :
            RefreshesOnly(vote_ops, j, i + 1) =>
              Keeps(anc, vote_ops[j].tower, TowerLocks(vote_ops[i + 1].tower))
      BY <1>0, <1>6, SMTT(60) DEF RefreshKept
    <3>2. \A j \in 1 .. (i - 1) : j \in 1 .. (n - 1) /\ j + 1 \in 1 .. i /\ j \in 0 .. (n - 1)
      BY <1>1
    <3>3. i \in 0 .. (n - 1) /\ 0 \in 0 .. (n - 1) /\ 0 + 1 = 1
      BY <1>1
    <3> HIDE DEF n, t
    <3>4. RefreshesOnly(vote_ops', 0, i) => Keeps(anc, saved, TowerLocks(vote_ops'[i].tower))
      <4>1. RefreshesOnly(vote_ops', 0, i) => RefreshesOnly(vote_ops, 1, i + 1)
        BY <2>1, <3>3
      <4>2. QED
        BY <4>1, <1>1, <1>3, <1>6, Zenon
    <3>5. QED
      BY <3>1, <3>2, <3>3, <3>4, <2>1, <1>1, ZenonT(60)
  <2>3. can_sign /\ RefreshesOnly(vote_ops', 0, n - 1) => Keeps(anc, saved, TowerLocks(tower))
    <3>1. 0 \in 0 .. (n - 1) /\ n - 1 \in 0 .. (n - 1) /\ 0 + 1 = 1 /\ (n - 1) + 1 = n
      BY <1>1
    <3>2. RefreshesOnly(vote_ops', 0, n - 1) => RefreshesOnly(vote_ops, 1, n)
      BY <3>1, <2>1, Zenon
    <3>3. QED
      BY <3>2, <1>3, Zenon
  <2>4. ASSUME can_sign, NEW j \in 1 .. (n - 1), RefreshesOnly(vote_ops', j, n - 1)
        PROVE  Keeps(anc, vote_ops'[j].tower, TowerLocks(tower))
    <3>1. j \in 0 .. (n - 1) /\ n - 1 \in 0 .. (n - 1) /\ (n - 1) + 1 = n
      BY <1>1
    <3>2. RefreshesOnly(vote_ops, j + 1, n)
      BY <3>1, <2>1, <2>4, Zenon
    <3>3. QED
      BY <3>2, <2>4, <1>0, <1>1, <1>6, ZenonT(60) DEF RefreshKept
  <2>5. QED
    BY <2>2, <2>3, <2>4, <1>0, <1>1, ZenonT(60) DEF RefreshKept
<1>10. SavedOK' /\ MemoryOK' /\ StoredOK' /\ TreeOK(anc', known')
  BY <1>0, Zenon DEF SavedOK, MemoryOK, StoredOK
<1>11. QED
  BY <1>5, <1>7, <1>8, <1>9, <1>10, SentRespectsLockouts, ZenonT(60)

-----------------------------------------------------------------------------
(* The ledger a restart replays is on the fork of the saved root. *)
LEMMA ReplayedRootFacts ==
  ASSUME LockoutInvariant, NEW root \in ReplayedRoots
  PROVE  /\ root \in known /\ root \in Slots
         /\ saved # NoTower =>
              OnFork(anc, saved.root_slot, root) \/ OnFork(anc, root, saved.root_slot)
<1> USE DEF LockoutInvariant
<1>1. /\ blockstore_root \in known /\ blockstore \subseteq known /\ known \subseteq Slots
  BY Zenon DEF KnownOK, TypeOK
<1>2. /\ ReconciledRoot \in known
      /\ saved # NoTower => \/ OnFork(anc, saved.root_slot, ReconciledRoot)
                            \/ OnFork(anc, ReconciledRoot, saved.root_slot)
  BY <1>1, Zenon DEF ReconciledRoot, SavedOK, OnFork
<1>3. QED
  BY <1>1, <1>2, Zenon DEF ReplayedRoots, SupermajorityRoots, SnapshotRoots, OnTowerFork, OnFork

(* Nothing was sent before the first tower was saved. *)
LEMMA NothingSent ==
  ASSUME LockoutInvariant, saved = NoTower
  PROVE  SentLocks = {}
<1> SUFFICES ASSUME NEW p \in SentLocks PROVE FALSE
  OBVIOUS
<1>1. p[1] \in Nat /\ p[2] \in Nat
  BY SentLocksFacts, Zenon DEF LockoutInvariant, IsLocks
<1>2. Remembers(anc, NoTower, p)
  BY DEF LockoutInvariant, LocksKept, Keeps
<1>3. Len(NoTower.votes) = 0 /\ NoTower.root_slot = None /\ NoTower.last_vote = None
  BY DEF NoTower
<1>4. None \notin Slots
  BY SlotsAssumption
<1>5. ~(p[2] < NoTower.last_vote) /\ ~(p[2] < NoTower.root_slot)
  BY <1>1, <1>3 DEF None
<1>6. \A i \in 1 .. Len(NoTower.votes) : FALSE
  BY <1>3, SMTT(60)
<1>7. QED
  BY <1>2, <1>3, <1>4, <1>5, <1>6, Zenon DEF Remembers

(* The tower a restart comes up with. *)
LEMMA RestartedTower ==
  ASSUME LockoutInvariant, NEW root \in ReplayedRoots,
         saved # NoTower => ~AdjustFails(saved, root, HistoryNewest(saved, root)),
         NEW u, u = IF saved = NoTower THEN NewTower(root) ELSE AdjustedTower(saved, root)
  PROVE  /\ RootedOK(anc, known, u)
         /\ root = u.root_slot \/ AboveRoot(anc, u)
         /\ OnFork(anc, root, u.root_slot)
         /\ saved # NoTower => OnFork(anc, saved.root_slot, u.root_slot)
         /\ Keeps(anc, u, SentLocks) /\ Keeps(anc, saved, TowerLocks(u))
<1> USE DEF LockoutInvariant
<1>1. CASE saved = NoTower
  <2>1. u.votes = <<>> /\ u.root_slot = root /\ u.last_vote = None
    BY <1>1 DEF NewTower, NoTower
  <2>2. RootedOK(anc, known, u)
    <3>1. Len(u.votes) = 0 /\ LastVotedSlot(u.votes) = u.last_vote
      BY <2>1, Zenon DEF LastVotedSlot
    <3>2. root \in known
      BY ReplayedRootFacts
    <3>3. \A i \in 1 .. Len(u.votes) : FALSE
      BY <3>1
    <3>4. QED
      BY <2>1, <3>1, <3>2, <3>3, ZenonT(60) DEF RootedOK, StackOK
  <2>3. Keeps(anc, u, SentLocks)
    BY <1>1, NothingSent DEF Keeps
  <2>4. Keeps(anc, saved, TowerLocks(u))
    <3>1. TowerLocks(u) = {}
      BY <2>1, SMTT(60) DEF TowerLocks
    <3>2. QED
      BY <3>1, Zenon DEF Keeps
  <2>5. QED
    BY <1>1, <2>1, <2>2, <2>3, <2>4, ZenonT(60) DEF OnFork
<1>2. CASE saved # NoTower
  <2>1. Restorable(saved, root)
    <3>1. RootedOK(anc, known, saved) /\ AboveRoot(anc, saved)
      BY <1>2, ZenonT(60) DEF SavedOK
    <3>2. saved.root_slot \in Slots
      BY <3>1, Zenon DEF RootedOK, TypeOK
    <3>3. QED
      BY <1>2, <3>1, <3>2, ReplayedRootFacts, ZenonT(60) DEF Restorable, TypeOK
  <2>2. u = AdjustedTower(saved, root)
    BY <1>2
  <2>3. OnFork(anc, root, u.root_slot) /\ OnFork(anc, saved.root_slot, u.root_slot)
    <3>1. /\ OnFork(anc, root, AdjustedTower(saved, root).root_slot)
          /\ OnFork(anc, saved.root_slot, AdjustedTower(saved, root).root_slot)
      BY <2>1, AdjustedVotes, ZenonT(60)
    <3>2. QED
      BY <3>1, <2>2
  <2>4. /\ RootedOK(anc, known, u) /\ (u.root_slot = root \/ AboveRoot(anc, u))
        /\ TowerLocks(u) \subseteq TowerLocks(saved)
    BY <2>1, <2>2, AdjustedStack, Zenon
  <2>5. Keeps(anc, u, SentLocks)
    <3>1. IsLocks(SentLocks) /\ Keeps(anc, saved, SentLocks)
      BY SentLocksFacts DEF LocksKept
    <3>2. QED
      BY <3>1, <2>1, <2>2, AdjustedKeeps, ZenonT(60)
  <2>6. Keeps(anc, saved, TowerLocks(u))
    <3>1. Keeps(anc, saved, TowerLocks(saved))
      BY <1>2, KeepsOwnLocks, Zenon DEF Tree, TypeOK, SavedOK, RootedOK
    <3>2. QED
      BY <3>1, <2>4, KeepsSubset, Zenon
  <2>7. QED
    BY <2>3, <2>4, <2>5, <2>6, Zenon
<1>3. QED
  BY <1>1, <1>2, Zenon

LEMMA RestartStep ==
  ASSUME LockoutInvariant, TypeOK', NEW root, Restart(root)
  PROVE  LockoutInvariant'
<1> USE DEF LockoutInvariant
<1>0. /\ anc' = anc /\ known' = known /\ saved' = saved /\ locks' = locks
      /\ blockstore' = blockstore \cup {root} /\ blockstore_root' = root
      /\ vote_ops' = <<>> /\ op_stored' = FALSE /\ root \in ReplayedRoots
  BY Zenon DEF Restart
<1>1. /\ root \in known /\ root \in Slots
      /\ saved # NoTower =>
           OnFork(anc, saved.root_slot, root) \/ OnFork(anc, root, saved.root_slot)
  BY <1>0, ReplayedRootFacts, Zenon
<1>2. SavedOK' /\ StoredOK' /\ LockoutsRespected' /\ TreeOK(anc', known')
  BY <1>0, <1>1, Zenon DEF SavedOK, StoredOK, LockoutsRespected
<1>3. banks' \subseteq {root} \cup blockstore
  BY Zenon DEF Restart
<1>4. KnownOK'
  BY <1>0, <1>1, <1>3, ZenonT(60) DEF KnownOK
<1>5. SentLocks' = SentLocks
  BY <1>0 DEF SentLocks
<1>6a. vote_ops' = <<>> /\ Len(vote_ops') = 0
  BY <1>0
<1>6b. \A i \in 1 .. Len(vote_ops') : FALSE
  BY <1>6a
<1>6. QueueOK'
  BY <1>6b, Zenon DEF QueueOK
<1>7. CASE status' # "up"
  <2>1. MemoryOK' /\ RefreshKept'
    BY <1>7, Zenon DEF MemoryOK, RefreshKept
  <2>2. LocksKept'
    BY <1>0, <1>5, <1>7, Zenon DEF LocksKept
  <2>3. QED
    BY <2>1, <2>2, <1>2, <1>4, <1>6, ZenonT(60)
<1>8. CASE status' = "up"
  <2>1. /\ saved # NoTower => ~AdjustFails(saved, root, HistoryNewest(saved, root))
        /\ tower' = IF saved = NoTower THEN NewTower(root) ELSE AdjustedTower(saved, root)
        /\ bank_root' = root /\ \A b \in banks' : OnFork(anc, root, b)
    BY <1>8, Zenon DEF Restart, OnFork
  <2>2. /\ RootedOK(anc, known, tower')
        /\ root = tower'.root_slot \/ AboveRoot(anc, tower')
        /\ OnFork(anc, root, tower'.root_slot)
        /\ saved # NoTower => OnFork(anc, saved.root_slot, tower'.root_slot)
        /\ Keeps(anc, tower', SentLocks) /\ Keeps(anc, saved, TowerLocks(tower'))
    BY <1>0, <2>1, RestartedTower, Zenon
  <2>3. MemoryOK'
    BY <1>0, <1>1, <2>1, <2>2, ZenonT(60) DEF MemoryOK
  <2>4. LocksKept'
    <3>1. Keeps(anc, saved, SentLocks)
      BY DEF LocksKept
    <3>3. \A j \in 1 .. Len(vote_ops') : FALSE
      BY <1>6a
    <3>4. QED
      BY <3>1, <1>0, <1>5, <3>3, <2>2, ZenonT(60) DEF LocksKept
  <2>5. RefreshKept'
    <3>1. \A i \in 1 .. Len(vote_ops') : FALSE
      BY <1>6a
    <3>2. Keeps(anc', saved', TowerLocks(tower'))
      BY <1>0, <2>2
    <3>3. QED
      BY <3>1, <3>2, ZenonT(60) DEF RefreshKept
  <2>6. QED
    BY <2>3, <2>4, <2>5, <1>2, <1>4, <1>6, ZenonT(60)
<1>9. QED
  BY <1>7, <1>8, ZenonT(60)

-----------------------------------------------------------------------------
LEMMA LockoutInvariantInit ==
  ASSUME Init
  PROVE  LockoutInvariant
<1>1. TypeOK
  BY TypeInit
<1>2. TreeOK(anc, known) /\ KnownOK /\ LockoutsRespected
  BY SlotsAssumption DEF Init, TreeOK, KnownOK, LockoutsRespected
<1>3. SentLocks = {} /\ SavedOK /\ StoredOK /\ QueueOK
  <2>1. SentLocks = {}
    BY SMTT(60) DEF Init, SentLocks
  <2>2. SavedOK /\ StoredOK
    BY DEF Init, SavedOK, StoredOK
  <2>3. QueueOK
    BY DEF Init, QueueOK
  <2>4. QED
    BY <2>1, <2>2, <2>3
<1>4. tower.votes = <<>> /\ tower.root_slot = 0 /\ tower.last_vote = None
  BY DEF Init, NewTower, NoTower
<1>5. MemoryOK
  <2>1. Len(tower.votes) = 0 /\ LastVotedSlot(tower.votes) = None
    BY <1>4, Zenon DEF LastVotedSlot
  <2>2. RootedOK(anc, known, tower)
    BY <2>1, <1>4, SMTT(60) DEF Init, RootedOK, StackOK
  <2>3. QED
    BY <2>2, <1>4, Zenon DEF Init, MemoryOK, OnFork
<1>6. LocksKept /\ RefreshKept
  <2>1. TowerLocks(tower) = {}
    BY <1>4 DEF TowerLocks
  <2>2. \A x : Keeps(anc, x, {})
    BY DEF Keeps
  <2>3. vote_ops = <<>> /\ Len(vote_ops) = 0 /\ \A i \in 1 .. Len(vote_ops) : FALSE
    BY DEF Init
  <2>4. LocksKept
    BY <2>2, <2>3, <1>3, Zenon DEF LocksKept
  <2>5. RefreshKept
    BY <2>1, <2>2, <2>3, Zenon DEF RefreshKept
  <2>6. QED
    BY <2>4, <2>5, SMTT(60)
<1>7. QED
  BY <1>1, <1>2, <1>3, <1>5, <1>6, SMTT(60) DEF LockoutInvariant

LEMMA LockoutInvariantStep ==
  ASSUME ~SignerChanges, LockoutInvariant, [Next]_vars
  PROVE  LockoutInvariant'
<1>1. TypeOK'
  BY TypeStep DEF LockoutInvariant
<1>2. CASE \E slot \in Slots, parent \in Slots : ReplayBank(slot, parent)
  BY <1>1, <1>2, ReplayBankStep
<1>3. CASE \E slot \in Slots : Vote(slot)
  BY <1>1, <1>3, VoteStep
<1>4. CASE Panic \/ Crash
  BY <1>1, <1>4, DownStep
<1>5. CASE RefreshLastVote
  BY <1>1, <1>5, RefreshLastVoteStep
<1>6. CASE StoreTower
  BY <1>1, <1>6, StoreTowerStep, ZenonT(60)
<1>7. CASE SendVote
  BY <1>1, <1>7, SendVoteStep
<1>8. CASE \E root \in Slots, kept \in SUBSET blockstore : LoseLedger(root, kept)
  BY <1>1, <1>8, LoseLedgerStep
<1>9. CASE \E root \in Slots : Restart(root)
  BY <1>1, <1>9, RestartStep, ZenonT(60)
<1>10. CASE UNCHANGED vars
  BY <1>10, ZenonT(60) DEF vars, ledger, memory, service, LockoutInvariant, TypeOK, KnownOK, SavedOK,
       MemoryOK, QueueOK, StoredOK, LocksKept, SentLocks, RefreshKept, LockoutsRespected
<1>11. ~ChangeSigner
  BY DEF ChangeSigner
<1>12. QED
  BY <1>2, <1>3, <1>4, <1>5, <1>6, <1>7, <1>8, <1>9, <1>10, <1>11, ZenonT(60) DEF Next

(* The strengthening is an invariant of every run in which the voting key   *)
(* stays: each tower that can still be sent from keeps every lockout the    *)
(* validator is bound to.                                                   *)
THEOREM LockoutInvariantHolds ==
  ASSUME ~SignerChanges
  PROVE  Spec => []LockoutInvariant
<1>1. Init => LockoutInvariant
  BY LockoutInvariantInit
<1>2. LockoutInvariant /\ [Next]_vars => LockoutInvariant'
  BY LockoutInvariantStep
<1>3. QED
  BY <1>1, <1>2, PTL DEF Spec

(* No vote sent breaks a lockout of a vote sent before, on any block tree,  *)
(* for any lockout depth, whatever the interleaving of replay stage and     *)
(* voting service and whenever the validator crashes, loses the end of its  *)
(* ledger and restarts.                                                     *)
THEOREM LockoutSafety ==
  ASSUME ~SignerChanges
  PROVE  Spec => []LockoutsRespected
<1>1. LockoutInvariant => LockoutsRespected
  BY DEF LockoutInvariant
<1>2. QED
  BY <1>1, LockoutInvariantHolds, PTL
=============================================================================
