---------------------------- MODULE TowerProofs ----------------------------
(***************************************************************************)
(* The tower's type invariant, for every set of slots, every depth of the  *)
(* lockout stack and every bound.                                          *)
(***************************************************************************)
EXTENDS TowerInvariant, VoteStateProofs

(* The facts about sequences the proofs cite. *)
LEMMA SeqLength ==
  ASSUME NEW T, NEW q \in Seq(T)
  PROVE  Len(q) \in Nat /\ DOMAIN q = 1 .. Len(q) /\ q \in [1 .. Len(q) -> T]
  BY SMT

LEMMA SeqWidened ==
  ASSUME NEW T, NEW U, T \subseteq U, NEW q \in Seq(T)
  PROVE  q \in Seq(U)
  BY SMT

LEMMA SeqEmpty ==
  ASSUME NEW T
  PROVE  /\ <<>> \in Seq(T) /\ Len(<<>>) = 0
         /\ \A q \in Seq(T) : q # <<>> => Len(q) \in Nat \ {0}
  BY SMT

LEMMA SeqAppended ==
  ASSUME NEW T, NEW q \in Seq(T), NEW x \in T
  PROVE  LET r == Append(q, x) IN
         /\ r \in Seq(T) /\ r # <<>> /\ Len(r) = Len(q) + 1 /\ r[Len(q) + 1] = x
         /\ \A i \in 1 .. Len(q) : r[i] = q[i]
  BY SMT

LEMMA SeqBeheaded ==
  ASSUME NEW T, NEW q \in Seq(T), q # <<>>
  PROVE  /\ Head(q) \in T /\ Tail(q) \in Seq(T) /\ Len(Tail(q)) = Len(q) - 1
         /\ \A i \in 1 .. (Len(q) - 1) : Tail(q)[i] = q[i + 1]
  BY SMT

LEMMA SeqJoined ==
  ASSUME NEW T, NEW q \in Seq(T), NEW r \in Seq(T)
  PROVE  /\ q \o r \in Seq(T) /\ Len(q \o r) = Len(q) + Len(r)
         /\ \A i \in 1 .. (Len(q) + Len(r)) :
              (q \o r)[i] = IF i <= Len(q) THEN q[i] ELSE r[i - Len(q)]
  BY SMT

USE DEF None

(* Facts about stacks, in the form the proofs below use them. *)
LEMMA StackElement ==
  ASSUME NEW votes \in Stacks
  PROVE  /\ Len(votes) \in 0 .. MAX_LOCKOUT_HISTORY
         /\ \A i \in 1 .. Len(votes) :
              /\ votes[i] \in Votes
              /\ votes[i].slot \in Slots /\ votes[i].slot \in Nat
              /\ votes[i].confirmation_count \in 1 .. MAX_LOCKOUT_HISTORY
              /\ votes[i] \in [slot : Nat, confirmation_count : Nat]
         /\ votes \in Seq([slot : Slots, confirmation_count : Nat \ {0}])
<1>1. votes \in Seq(Votes) /\ Len(votes) <= MAX_LOCKOUT_HISTORY
  BY DEF Stacks
<1>2. Len(votes) \in Nat /\ votes \in [1 .. Len(votes) -> Votes]
  BY <1>1, SeqLength
<1>3. Votes \subseteq [slot : Slots, confirmation_count : Nat \ {0}]
  BY MaxLockoutHistoryAssumption DEF Votes
<1>4. votes \in Seq([slot : Slots, confirmation_count : Nat \ {0}])
  BY <1>1, <1>3, SeqWidened, Zenon
<1>5. \A v \in Votes : /\ v.slot \in Slots /\ v.slot \in Nat
                       /\ v.confirmation_count \in 1 .. MAX_LOCKOUT_HISTORY
  BY SlotsAssumption, MaxLockoutHistoryAssumption, Zenon DEF Votes
<1>6. ASSUME NEW v \in Votes PROVE v \in [slot : Nat, confirmation_count : Nat]
  <2>1. v = [slot |-> v.slot, confirmation_count |-> v.confirmation_count]
    BY DEF Votes
  <2>2. v.slot \in Nat /\ v.confirmation_count \in Nat
    BY <1>5, MaxLockoutHistoryAssumption
  <2>3. QED
    BY <2>1, <2>2
<1>7. QED
  BY <1>1, <1>2, <1>4, <1>5, <1>6, MaxLockoutHistoryAssumption

LEMMA SubStack ==
  ASSUME NEW votes \in Stacks, NEW k \in 1 .. (Len(votes) + 1)
  PROVE  /\ SubSeq(votes, k, Len(votes)) \in Stacks
         /\ Len(SubSeq(votes, k, Len(votes))) = Len(votes) - k + 1
         /\ \A i \in 1 .. (Len(votes) - k + 1) :
              SubSeq(votes, k, Len(votes))[i] = votes[i + k - 1]
<1>1. votes \in Seq(Votes) /\ Len(votes) \in Nat /\ Len(votes) <= MAX_LOCKOUT_HISTORY
  BY SeqLength DEF Stacks
<1>2. /\ SubSeq(votes, k, Len(votes)) \in Seq(Votes)
      /\ Len(SubSeq(votes, k, Len(votes))) = Len(votes) - k + 1
      /\ \A i \in 1 .. (Len(votes) - k + 1) :
           SubSeq(votes, k, Len(votes))[i] = votes[i + k - 1]
  BY <1>1
<1>3. QED
  BY <1>1, <1>2, MaxLockoutHistoryAssumption DEF Stacks

LEMMA NextVotesType ==
  ASSUME NEW votes \in Stacks, NEW slot \in Slots, IsRecent(votes, slot)
  PROVE  NextVotes(votes, slot) \in Stacks
<1> DEFINE next == NextVotes(votes, slot)
           d == Rooted(votes, slot)
           n == Unexpired(votes, slot) - d + 1
           V == [slot : Slots, confirmation_count : Nat \ {0}]
<1>1. votes \in Seq(V) /\ Len(votes) \in 0 .. MAX_LOCKOUT_HISTORY
  BY StackElement, Zenon
<1>2. /\ next \in Seq(V) /\ n \in Nat \ {0} /\ Len(next) = n
      /\ next[n] = NewLockout(slot)
      /\ \A i \in 1 .. (n - 1) :
           /\ i + d \in 1 .. Len(votes)
           /\ next[i].slot = votes[i + d].slot
           /\ \/ next[i].confirmation_count = votes[i + d].confirmation_count
              \/ /\ next[i].confirmation_count = votes[i + d].confirmation_count + 1
                 /\ votes[i + d].confirmation_count < n
  <2>1. Slots \in SUBSET Nat
    BY SlotsAssumption
  <2>2. QED
    BY <1>1, <2>1, NextVotesProperty, Zenon
<1>3. n <= MAX_LOCKOUT_HISTORY
  <2>1. Unexpired(votes, slot) \in 0 .. Len(votes)
    BY <1>1, UnexpiredProperty
  <2>2. QED
    BY <2>1, <1>1, MaxLockoutHistoryAssumption DEF Rooted, MakesRoot
<1> HIDE DEF n, d, next
<1>4. ASSUME NEW i \in 1 .. n PROVE next[i] \in Votes
  <2>1. next[i] \in V
    <3> HIDE DEF V
    <3> QED BY <1>2
  <2>2. next[i].confirmation_count <= MAX_LOCKOUT_HISTORY
    <3>1. CASE i = n
      BY <3>1, <1>2, MaxLockoutHistoryAssumption DEF NewLockout
    <3>2. CASE i # n
      <4>1. i \in 1 .. (n - 1)
        BY <3>2, <1>2
      <4>2. i + d \in 1 .. Len(votes)
        BY <4>1, <1>2
      <4>3. votes[i + d].confirmation_count \in 1 .. MAX_LOCKOUT_HISTORY
        BY <4>2, StackElement
      <4>4. \/ next[i].confirmation_count = votes[i + d].confirmation_count
            \/ /\ next[i].confirmation_count = votes[i + d].confirmation_count + 1
               /\ votes[i + d].confirmation_count < n
        BY <4>1, <1>2, Zenon
      <4>5. n \in Nat
        BY <1>2, Zenon
      <4> HIDE DEF V
      <4>6. QED
        BY <4>3, <4>4, <4>5, <1>3, MaxLockoutHistoryAssumption
    <3>3. QED
      BY <3>1, <3>2
  <2>3. QED
    BY <2>1, <2>2, MaxLockoutHistoryAssumption DEF Votes
<1>5. next \in Seq(Votes)
  <2> HIDE DEF V
  <2> QED BY <1>2, <1>4, SeqLength
<1>6. QED
  BY <1>2, <1>3, <1>5 DEF Stacks, next

(* The oldest vote of a full stack becomes the root. *)
LEMMA NextRootType ==
  ASSUME NEW votes \in Stacks, NEW root_slot, NEW slot
  PROVE  \/ NextRoot(votes, root_slot, slot) = root_slot
         \/ /\ MakesRoot(votes, slot) /\ Len(votes) >= 1
            /\ NextRoot(votes, root_slot, slot) = votes[1].slot
            /\ votes[1].slot \in Slots
<1>1. CASE MakesRoot(votes, slot)
  <2>1. Unexpired(votes, slot) = MAX_LOCKOUT_HISTORY
    BY <1>1 DEF MakesRoot
  <2>2. votes \in Seq(Votes)
    BY DEF Stacks
  <2>3. Unexpired(votes, slot) \in 0 .. Len(votes) /\ Len(votes) \in Nat
    BY <2>2, UnexpiredProperty, SeqLength
  <2>4. Len(votes) >= 1
    BY <2>1, <2>3, MaxLockoutHistoryAssumption
  <2>5. votes[1].slot \in Slots
    BY <2>3, <2>4, StackElement
  <2>6. QED
    BY <1>1, <2>4, <2>5 DEF NextRoot
<1>2. CASE ~MakesRoot(votes, slot)
  BY <1>2 DEF NextRoot
<1>3. QED
  BY <1>1, <1>2

LEMMA TowerFields ==
  ASSUME NEW t \in Towers
  PROVE  /\ t.votes \in Stacks
         /\ t.root_slot \in Slots \cup {None}
         /\ t.last_vote \in Slots \cup {None}
         /\ t.stray_restored_slot \in Slots \cup {None}
  BY DEF Towers

LEMMA TowerOfFields ==
  ASSUME NEW votes \in Stacks, NEW root_slot \in Slots \cup {None},
         NEW last_vote \in Slots \cup {None},
         NEW stray_restored_slot \in Slots \cup {None}
  PROVE  [votes |-> votes, root_slot |-> root_slot, last_vote |-> last_vote,
          stray_restored_slot |-> stray_restored_slot] \in Towers
  BY DEF Towers

LEMMA NewTowerType ==
  NoTower \in Towers /\ \A root \in Slots : NewTower(root) \in Towers
<1>1. <<>> \in Stacks
  BY MaxLockoutHistoryAssumption DEF Stacks
<1>2. NoTower \in Towers
  BY <1>1, TowerOfFields DEF NoTower
<1>3. ASSUME NEW root \in Slots PROVE NewTower(root) \in Towers
  <2>1. NewTower(root) = [votes |-> <<>>, root_slot |-> root, last_vote |-> None,
                          stray_restored_slot |-> None]
    BY DEF NewTower, NoTower
  <2>2. QED
    BY <1>1, <2>1, TowerOfFields
<1>4. QED
  BY <1>2, <1>3

(* What the adjustment of a restored tower returns, field by field: the    *)
(* votes above an anchor, whose slot was found in the history.             *)
LEMMA AdjustedTowerFields ==
  ASSUME NEW t \in Towers, NEW root \in Slots,
         ~AdjustFails(t, root, HistoryNewest(t, root))
  PROVE  \E k \in 1 .. (Len(t.votes) + 1) :
           /\ k \in AnchoredAt(t, root, HistoryNewest(t, root))
           /\ LET kept == SubSeq(t.votes, k, Len(t.votes)) IN
              AdjustedTower(t, root) =
                [votes |-> kept,
                 root_slot |-> HistoryNewest(t, root),
                 last_vote |-> IF kept = <<>> THEN None ELSE t.last_vote,
                 stray_restored_slot |->
                   IF kept = <<>> THEN t.stray_restored_slot ELSE t.last_vote]
<1> DEFINE newest == HistoryNewest(t, root)
           k == CHOOSE k \in AnchoredAt(t, root, newest) : TRUE
           kept == SubSeq(t.votes, k, Len(t.votes))
<1>1. AnchoredAt(t, root, newest) # {}
  BY DEF AdjustFails
<1>2. k \in AnchoredAt(t, root, newest)
  BY <1>1
<1>3. k \in 1 .. (Len(t.votes) + 1)
  <2>1. Len(t.votes) \in Nat
    BY TowerFields, StackElement
  <2>2. Len(SlotsInTower(t)) = Len(t.votes) + 1
    <3> DEFINE s == [i \in 1 .. Len(t.votes) |-> t.votes[i].slot]
               S == {t.root_slot} \cup {t.votes[i].slot : i \in 1 .. Len(t.votes)}
    <3>1. s \in [1 .. Len(t.votes) -> S]
      OBVIOUS
    <3>2. s \in Seq(S) /\ Len(s) = Len(t.votes)
      BY <2>1, <3>1, SeqLength
    <3>3. <<t.root_slot>> \in Seq(S) /\ Len(<<t.root_slot>>) = 1
      OBVIOUS
    <3> HIDE DEF s, S
    <3>4. Len(<<t.root_slot>> \o s) = 1 + Len(t.votes)
      BY <3>2, <3>3, SeqJoined
    <3>5. QED
      BY <2>1, <3>4 DEF SlotsInTower, s
  <2>3. QED
    BY <1>2, <2>2 DEF AnchoredAt
<1>4. AdjustLockouts(t, root, newest) =
        [t EXCEPT !.votes = kept,
                  !.last_vote = IF kept = <<>> THEN None ELSE @,
                  !.stray_restored_slot = IF kept = <<>> THEN @ ELSE t.last_vote]
  BY DEF AdjustLockouts
<1>5. AdjustedTower(t, root) =
        [AdjustLockouts(t, root, newest) EXCEPT
           !.root_slot = IF t.root_slot <= root THEN root ELSE @]
  BY DEF AdjustedTower
<1> HIDE DEF k, kept, newest
<1>6. t = [votes |-> t.votes, root_slot |-> t.root_slot, last_vote |-> t.last_vote,
           stray_restored_slot |-> t.stray_restored_slot]
  BY DEF Towers
<1>7. AdjustedTower(t, root) =
        [votes |-> kept,
         root_slot |-> newest,
         last_vote |-> IF kept = <<>> THEN None ELSE t.last_vote,
         stray_restored_slot |->
           IF kept = <<>> THEN t.stray_restored_slot ELSE t.last_vote]
  <2> DEFINE last == IF kept = <<>> THEN None ELSE t.last_vote
             stray == IF kept = <<>> THEN t.stray_restored_slot ELSE t.last_vote
  <2>1. AdjustLockouts(t, root, newest) =
          [t EXCEPT !.votes = kept, !.last_vote = last, !.stray_restored_slot = stray]
    BY <1>4, <1>6
  <2> HIDE DEF last, stray
  <2>2. AdjustLockouts(t, root, newest) =
          [votes |-> kept, root_slot |-> t.root_slot, last_vote |-> last,
           stray_restored_slot |-> stray]
    BY <1>6, <2>1, Zenon
  <2>3. AdjustedTower(t, root) =
          [AdjustLockouts(t, root, newest) EXCEPT !.root_slot = newest]
    BY <1>5, <2>2 DEF newest, HistoryNewest
  <2>4. AdjustedTower(t, root) =
          [votes |-> kept, root_slot |-> newest, last_vote |-> last,
           stray_restored_slot |-> stray]
    BY <2>2, <2>3
  <2>5. QED
    BY <2>4 DEF last, stray
<1>8. QED
  BY <1>2, <1>3, <1>7, Zenon DEF kept, newest

LEMMA AdjustedTowerType ==
  ASSUME NEW t \in Towers, NEW root \in Slots,
         ~AdjustFails(t, root, HistoryNewest(t, root))
  PROVE  AdjustedTower(t, root) \in Towers
<1>1. PICK k \in 1 .. (Len(t.votes) + 1) :
        LET kept == SubSeq(t.votes, k, Len(t.votes)) IN
        AdjustedTower(t, root) =
          [votes |-> kept,
           root_slot |-> HistoryNewest(t, root),
           last_vote |-> IF kept = <<>> THEN None ELSE t.last_vote,
           stray_restored_slot |->
             IF kept = <<>> THEN t.stray_restored_slot ELSE t.last_vote]
  BY AdjustedTowerFields, Zenon
<1>2. SubSeq(t.votes, k, Len(t.votes)) \in Stacks
  BY TowerFields, SubStack
<1>3. HistoryNewest(t, root) \in Slots \cup {None}
  BY TowerFields DEF HistoryNewest
<1> DEFINE kept == SubSeq(t.votes, k, Len(t.votes))
           last == IF kept = <<>> THEN None ELSE t.last_vote
           stray == IF kept = <<>> THEN t.stray_restored_slot ELSE t.last_vote
<1>4. last \in Slots \cup {None} /\ stray \in Slots \cup {None}
  BY TowerFields
<1>5. AdjustedTower(t, root) =
        [votes |-> kept, root_slot |-> HistoryNewest(t, root), last_vote |-> last,
         stray_restored_slot |-> stray]
  BY <1>1
<1>6. kept \in Stacks
  BY <1>2
<1> DEFINE newest == HistoryNewest(t, root)
<1> HIDE DEF kept, last, stray, newest
<1>7. [votes |-> kept, root_slot |-> newest, last_vote |-> last,
       stray_restored_slot |-> stray] \in Towers
  BY <1>3, <1>4, <1>6, TowerOfFields, Zenon DEF newest
<1>8. QED
  BY <1>5, <1>7, Zenon DEF newest

(* The new tower of a vote, field by field. *)
LEMMA RecordedTowerType ==
  ASSUME tower \in Towers, NEW slot \in Slots, ~IsLockedOut(slot), RecordBankVote(slot)
  PROVE  /\ tower' \in Towers
         /\ tower'.votes = NextVotes(tower.votes, slot)
         /\ tower'.root_slot = NextRoot(tower.votes, tower.root_slot, slot)
         /\ tower'.last_vote = slot
<1>1. tower.votes \in Stacks /\ tower.root_slot \in Slots \cup {None}
      /\ tower.stray_restored_slot \in Slots \cup {None}
  BY TowerFields
<1>2. IsRecent(tower.votes, slot)
  BY DEF IsLockedOut
<1>3. NextVotes(tower.votes, slot) \in Stacks
  BY <1>1, <1>2, NextVotesType
<1>4. NextRoot(tower.votes, tower.root_slot, slot) \in Slots \cup {None}
  BY <1>1, NextRootType
<1>5. tower' \in Towers
  BY <1>1, <1>3, <1>4, TowerOfFields, Zenon DEF RecordBankVote
<1>6. QED
  BY <1>5 DEF RecordBankVote

LEMMA LockedType ==
  ASSUME NEW votes \in Stacks, locks \in [Slots -> Nat], NEW s \in Slots
  PROVE  /\ Locked(votes, s) \in Nat
         /\ \/ Locked(votes, s) = locks[s]
            \/ \E i \in 1 .. Len(votes) :
                 votes[i].slot = s /\ Locked(votes, s) = LastLockedOutSlot(votes[i])
<1>1. CASE \E i \in 1 .. Len(votes) :
             votes[i].slot = s /\ LastLockedOutSlot(votes[i]) > locks[s]
  <2> DEFINE v == CHOOSE v \in {votes[i] : i \in 1 .. Len(votes)} : v.slot = s
  <2>1. Locked(votes, s) = LastLockedOutSlot(v)
    BY <1>1 DEF Locked
  <2>2. v \in {votes[i] : i \in 1 .. Len(votes)} /\ v.slot = s
    BY <1>1
  <2> HIDE DEF v
  <2>3. PICK i \in 1 .. Len(votes) : v = votes[i]
    BY <2>2
  <2>4. /\ votes[i] \in [slot : Nat, confirmation_count : Nat]
        /\ votes[i].confirmation_count <= MAX_LOCKOUT_HISTORY
    BY StackElement, MaxLockoutHistoryAssumption
  <2>5. LastLockedOutSlot(votes[i]) \in Nat
    BY <2>4, LockoutGrows
  <2>6. QED
    BY <2>1, <2>2, <2>3, <2>5
<1>2. CASE ~\E i \in 1 .. Len(votes) :
              votes[i].slot = s /\ LastLockedOutSlot(votes[i]) > locks[s]
  <2>1. Locked(votes, s) = locks[s]
    BY <1>2 DEF Locked
  <2>2. QED
    BY <2>1
<1>3. QED
  BY <1>1, <1>2

Ops == [op : {"PushVote", "RefreshVote"}, tower : Towers]

LEMMA TypeStep ==
  ASSUME TypeOK, [Next]_vars
  PROVE  TypeOK'
<1>1. ASSUME NEW slot \in Slots, NEW parent \in Slots, ReplayBank(slot, parent)
      PROVE  TypeOK'
  <2>1. anc' \in [Slots -> SUBSET Slots]
    BY <1>1, SMTT(60) DEF ReplayBank, TypeOK
  <2>2. QED
    BY <1>1, <2>1 DEF ReplayBank, TypeOK, service
<1>2. ASSUME NEW slot \in Slots, Vote(slot)
      PROVE  TypeOK'
  <2>1. tower' \in Towers /\ tower'.root_slot = NextRoot(tower.votes, tower.root_slot, slot)
    BY <1>2, RecordedTowerType DEF Vote, TypeOK
  <2>2. tower'.root_slot # tower.root_slot => tower'.root_slot \in Slots
    BY <2>1, NextRootType, TowerFields DEF TypeOK
  <2>3. /\ blockstore_root' \in Slots /\ bank_root' \in Slots \cup {None}
        /\ banks' \in SUBSET Slots
    BY <1>2, <2>2 DEF Vote, SetRoots, TypeOK
  <2>4. vote_ops' \in Seq(Ops)
    <3>1. [op |-> "PushVote", tower |-> tower'] \in Ops
      BY <2>1 DEF Ops
    <3>2. vote_ops \in Seq(Ops)
      BY DEF TypeOK, Ops
    <3>3. vote_ops' = vote_ops \/ vote_ops' = Append(vote_ops, [op |-> "PushVote", tower |-> tower'])
      BY <1>2 DEF Vote, PushVote
    <3>4. QED
      BY <3>1, <3>2, <3>3, SeqAppended
  <2>5. QED
    BY <1>2, <2>1, <2>3, <2>4 DEF Vote, PushVote, TypeOK, Ops
<1>3. CASE Panic
  BY <1>3 DEF Panic, TypeOK, ledger, memory, service
<1>4. CASE RefreshLastVote
  <2>1. vote_ops' \in Seq(Ops)
    <3>1. [op |-> "RefreshVote", tower |-> tower] \in Ops
      BY DEF Ops, TypeOK
    <3>2. vote_ops \in Seq(Ops)
      BY DEF TypeOK, Ops
    <3>3. QED
      BY <1>4, <3>1, <3>2, SeqAppended DEF RefreshLastVote
  <2>2. QED
    BY <1>4, <2>1 DEF RefreshLastVote, TypeOK, Ops, ledger, memory
<1>5. CASE ChangeSigner
  BY <1>5 DEF ChangeSigner, TypeOK, ledger, service
<1>6. CASE StoreTower
  <2>1. vote_ops \in Seq(Ops) /\ vote_ops # <<>>
    BY <1>6 DEF StoreTower, TypeOK, Ops
  <2>2. Head(vote_ops) \in Ops
    BY <2>1, SeqBeheaded
  <2>3. Head(vote_ops).tower \in Towers
    BY <2>2 DEF Ops
  <2>4. saved' \in Towers
    BY <1>6, <2>3 DEF StoreTower, Towers
  <2>5. QED
    BY <1>6, <2>4 DEF StoreTower, TypeOK, ledger, memory
<1>7. CASE SendVote
  <2>1. vote_ops \in Seq(Ops) /\ vote_ops # <<>>
    BY <1>7 DEF SendVote, TypeOK, Ops
  <2>2. Head(vote_ops) \in Ops /\ Tail(vote_ops) \in Seq(Ops)
    BY <2>1, SeqBeheaded
  <2>3. Head(vote_ops).tower.votes \in Stacks
    BY <2>2, TowerFields DEF Ops
  <2>4. locks' \in [Slots -> Nat]
    BY <1>7, <2>3, LockedType, Zenon DEF SendVote, TypeOK
  <2>5. QED
    BY <1>7, <2>2, <2>4, Zenon DEF SendVote, TypeOK, Ops, ledger, memory
<1>8. CASE Crash
  <2>1. vote_ops' \in Seq(Ops) /\ tower' \in Towers
    BY <1>8, NewTowerType DEF Crash
  <2>2. QED
    BY <1>8, <2>1, Zenon DEF Crash, TypeOK, ledger, Ops
<1>9. ASSUME NEW root \in Slots, NEW kept \in SUBSET blockstore, LoseLedger(root, kept)
      PROVE  TypeOK'
  BY <1>9 DEF LoseLedger, TypeOK, memory, service
<1>10. ASSUME NEW root \in Slots, Restart(root)
       PROVE  TypeOK'
  <2>1. tower' \in Towers
    BY <1>10, NewTowerType, AdjustedTowerType DEF Restart, TypeOK
  <2>2. vote_ops' \in Seq(Ops)
    BY <1>10, SMTT(60) DEF Restart
  <2>3. /\ banks' \in SUBSET Slots /\ bank_root' \in Slots \cup {None}
        /\ status' \in {"up", "down", "panicked", "aborted"}
        /\ blockstore' \in SUBSET Slots
    BY <1>10 DEF Restart, TypeOK
  <2>4. QED
    BY <1>10, <2>1, <2>2, <2>3, Zenon DEF Restart, TypeOK, Ops
<1>11. CASE UNCHANGED vars
  BY <1>11 DEF vars, TypeOK, ledger, memory, service
<1>12. QED
  BY <1>1, <1>2, <1>3, <1>4, <1>5, <1>6, <1>7, <1>8, <1>9, <1>10, <1>11, SMTT(60) DEF Next

LEMMA TypeInit ==
  ASSUME Init
  PROVE  TypeOK
<1>1. saved \in Towers /\ tower \in Towers
  BY NewTowerType, SlotsAssumption DEF Init
<1>2. QED
  BY <1>1, SlotsAssumption DEF Init, TypeOK

(* Every variable keeps its type, and no lockout stack outgrows            *)
(* MAX_LOCKOUT_HISTORY (process_next_vote_slot, double_lockouts).          *)
THEOREM TypeCorrect == Spec => []TypeOK
<1>1. Init => TypeOK
  BY TypeInit
<1>2. QED
  BY <1>1, TypeStep, PTL DEF Spec
=============================================================================
