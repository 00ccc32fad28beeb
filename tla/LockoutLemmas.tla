--------------------------- MODULE LockoutLemmas ---------------------------
(***************************************************************************)
(* How the block tree, a recorded vote and a restored tower preserve the   *)
(* locks a tower keeps: the lemmas behind LockoutProofs.                   *)
(***************************************************************************)
EXTENDS TowerProofs

USE DEF None

Tree(A, K) == A \in [Slots -> SUBSET Slots] /\ TreeOK(A, K)

LEMMA ForkOrder ==
  ASSUME NEW A, NEW K, Tree(A, K), NEW a, NEW b \in Slots, OnFork(A, a, b)
  PROVE  a \in Slots /\ a \in Nat /\ b \in Nat /\ a <= b
<1>1. A[b] \in SUBSET Slots /\ \A x \in A[b] : x < b
  BY DEF Tree, TreeOK
<1>2. a = b \/ a \in A[b]
  BY DEF OnFork
<1>3. a \in Slots
  BY <1>1, <1>2
<1>4. QED
  BY <1>1, <1>2, <1>3, SlotsAssumption

LEMMA AncestorOrder ==
  ASSUME NEW A, NEW K, Tree(A, K), NEW b \in Slots, NEW a \in A[b]
  PROVE  a \in Slots /\ a \in Nat /\ b \in Nat /\ a < b /\ OnFork(A, a, b)
<1>1. A[b] \in SUBSET Slots /\ \A x \in A[b] : x < b
  BY DEF Tree, TreeOK
<1>2. QED
  BY <1>1, SlotsAssumption, Zenon DEF OnFork

LEMMA ForkTransitive ==
  ASSUME NEW A, NEW K, Tree(A, K), NEW a, NEW b, NEW c \in Slots,
         OnFork(A, a, b), OnFork(A, b, c)
  PROVE  OnFork(A, a, c)
  BY DEF Tree, TreeOK, OnFork

(* Two ancestors of one slot are on one fork. *)
LEMMA ForkLinear ==
  ASSUME NEW A, NEW K, Tree(A, K), NEW a, NEW b, NEW c \in Slots,
         OnFork(A, a, c), OnFork(A, b, c)
  PROVE  /\ a <= b => OnFork(A, a, b)
         /\ OnFork(A, a, b) \/ OnFork(A, b, a)
<1>1. a \in Slots /\ b \in Slots /\ a \in Nat /\ b \in Nat /\ a <= c /\ b <= c /\ c \in Nat
  BY ForkOrder
<1>2. a < b => OnFork(A, a, b)
  BY <1>1 DEF Tree, TreeOK, OnFork
<1>3. b < a => OnFork(A, b, a)
  BY <1>1 DEF Tree, TreeOK, OnFork
<1>4. QED
  BY <1>1, <1>2, <1>3 DEF OnFork

LEMMA KeepsSubset ==
  ASSUME NEW A, NEW t, NEW L, NEW M, Keeps(A, t, L), M \subseteq L
  PROVE  Keeps(A, t, M)
  BY DEF Keeps

LEMMA KeepsUnion ==
  ASSUME NEW A, NEW t, NEW L, NEW M, Keeps(A, t, L), Keeps(A, t, M)
  PROVE  Keeps(A, t, L \cup M)
  BY DEF Keeps

(* Only the votes, the root and the last vote of a tower matter. *)
LEMMA KeepsSameFields ==
  ASSUME NEW A, NEW t, NEW u, NEW L, Keeps(A, t, L),
         u.votes = t.votes, u.root_slot = t.root_slot, u.last_vote = t.last_vote
  PROVE  Keeps(A, u, L)
  BY DEF Keeps, Remembers, AgreesWith

LEMMA TowerNumbers ==
  ASSUME NEW t \in Towers
  PROVE  /\ t.last_vote \in Int /\ t.last_vote >= None
         /\ t.root_slot \in Int /\ t.root_slot >= None
<1>1. \A x \in Slots \cup {None} : x \in Int /\ x >= None
  BY SlotsAssumption
<1>2. QED
  BY <1>1, TowerFields

LEMMA ExpiryType ==
  ASSUME NEW t \in Towers, NEW i \in 1 .. Len(t.votes)
  PROVE  /\ LastLockedOutSlot(t.votes[i]) \in Nat
         /\ t.votes[i].slot \in Slots /\ t.votes[i].slot \in Nat
         /\ t.votes[i].slot < LastLockedOutSlot(t.votes[i])
<1>1. /\ t.votes[i] \in [slot : Nat, confirmation_count : Nat]
      /\ t.votes[i].slot \in Slots /\ t.votes[i].slot \in Nat
      /\ t.votes[i].confirmation_count <= MAX_LOCKOUT_HISTORY
  BY StackElement, TowerFields, MaxLockoutHistoryAssumption
<1>2. QED
  BY <1>1, LockoutGrows

(* What a vote of a well-formed stack locks. *)
LEMMA TowerLockFacts ==
  ASSUME NEW t \in Towers, NEW p \in TowerLocks(t)
  PROVE  \E i \in 1 .. Len(t.votes) :
           /\ p = <<t.votes[i].slot, LastLockedOutSlot(t.votes[i])>>
           /\ p[1] = t.votes[i].slot /\ p[2] = LastLockedOutSlot(t.votes[i])
           /\ p[1] \in Slots /\ p[1] \in Nat /\ p[2] \in Nat /\ p[1] < p[2]
<1>1. PICK i \in 1 .. Len(t.votes) :
        p = <<t.votes[i].slot, LastLockedOutSlot(t.votes[i])>>
  BY DEF TowerLocks
<1>2. QED
  BY <1>1, ExpiryType

(* The slots of a well-formed stack rise, and the last vote is the newest. *)
LEMMA StackOrder ==
  ASSUME NEW A, NEW K, Tree(A, K), NEW t \in Towers, StackOK(A, K, t)
  PROVE  /\ \A i, j \in 1 .. Len(t.votes) : i < j => t.votes[i].slot < t.votes[j].slot
         /\ t.votes # <<>> =>
              /\ Len(t.votes) \in 1 .. Len(t.votes)
              /\ t.last_vote = t.votes[Len(t.votes)].slot
         /\ \A i \in 1 .. Len(t.votes) :
              t.votes[i].slot <= t.last_vote /\ OnFork(A, t.votes[i].slot, t.last_vote)
         /\ t.votes = <<>> => t.last_vote = None
<1>1. /\ Len(t.votes) \in Nat /\ t.votes \in Seq(Votes)
      /\ \A i \in 1 .. Len(t.votes) : t.votes[i].slot \in Slots /\ t.votes[i].slot \in Nat
  BY TowerFields, StackElement DEF Stacks
<1>2. \A i, j \in 1 .. Len(t.votes) : i < j => t.votes[i].slot < t.votes[j].slot
  BY <1>1 DEF Tree, TreeOK, StackOK
<1>3. t.votes # <<>> => Len(t.votes) \in 1 .. Len(t.votes)
  BY <1>1, SeqEmpty
<1>4. t.votes # <<>> => t.last_vote = t.votes[Len(t.votes)].slot
  BY DEF StackOK, LastVotedSlot
<1>5. t.votes = <<>> => t.last_vote = None
  BY DEF StackOK, LastVotedSlot
<1>6. ASSUME NEW i \in 1 .. Len(t.votes)
      PROVE  t.votes[i].slot <= t.last_vote /\ OnFork(A, t.votes[i].slot, t.last_vote)
  <2>1. t.votes # <<>>
    BY <1>1
  <2>2. i = Len(t.votes) \/ i < Len(t.votes)
    BY <1>1
  <2>3. QED
    BY <1>1, <1>2, <1>3, <1>4, <2>1, <2>2 DEF StackOK, OnFork
<1>7. QED
  BY <1>2, <1>3, <1>4, <1>5, <1>6

(* A tower keeps its own locks. *)
LEMMA KeepsOwnLocks ==
  ASSUME NEW A, NEW K, Tree(A, K), NEW t \in Towers, StackOK(A, K, t)
  PROVE  Keeps(A, t, TowerLocks(t))
<1> SUFFICES ASSUME NEW p \in TowerLocks(t)
             PROVE  Remembers(A, t, p) /\ AgreesWith(A, t, p)
  BY DEF Keeps
<1>1. PICK i \in 1 .. Len(t.votes) :
        /\ p[1] = t.votes[i].slot /\ p[2] = LastLockedOutSlot(t.votes[i])
        /\ p[1] \in Slots /\ p[1] \in Nat /\ p[2] \in Nat
  BY TowerLockFacts
<1>2. Remembers(A, t, p)
  BY <1>1 DEF Remembers
<1>3. p[1] <= t.last_vote
  BY <1>1, StackOrder
<1>4. ASSUME NEW j \in 1 .. Len(t.votes)
      PROVE  /\ t.votes[j].slot < p[1] => t.votes[j].slot \in A[p[1]]
             /\ p[1] < t.votes[j].slot => p[1] \in A[t.votes[j].slot]
  <2>1. i \in Nat /\ j \in Nat /\ t.votes[j].slot \in Nat
    BY StackElement, TowerFields
  <2>2. (i < j => t.votes[i].slot < t.votes[j].slot) /\ (j < i => t.votes[j].slot < t.votes[i].slot)
    BY StackOrder
  <2>3. CASE i < j
    BY <1>1, <2>1, <2>2, <2>3 DEF StackOK
  <2>4. CASE j < i
    BY <1>1, <2>1, <2>2, <2>4 DEF StackOK
  <2>5. CASE i = j
    BY <1>1, <2>1, <2>5
  <2>6. QED
    BY <2>1, <2>3, <2>4, <2>5
<1>5. QED
  BY <1>2, <1>3, <1>4 DEF AgreesWith

IsLocks(L) == \A p \in L : p[1] \in Slots /\ p[1] \in Nat /\ p[2] \in Nat

LEMMA TowerLocksType ==
  ASSUME NEW t \in Towers
  PROVE  IsLocks(TowerLocks(t))
  BY TowerLockFacts DEF IsLocks

(* The tower u is t after a vote for s that is_locked_out lets through. *)
Recorded(A, t, s, u) ==
  /\ IsRecent(t.votes, s)
  /\ u.votes = NextVotes(t.votes, s)
  /\ u.root_slot = NextRoot(t.votes, t.root_slot, s)
  /\ u.last_vote = s
  /\ \A i \in 1 .. Len(u.votes) : OnFork(A, u.votes[i].slot, s)
  /\ OnFork(A, u.root_slot, s)
  /\ OnFork(A, t.root_slot, s)

(* Where the votes of u come from: the old stack, shifted by d when a vote  *)
(* is rooted, and s on top.                                                *)
LEMMA RecordedVotes ==
  ASSUME NEW A, NEW K, Tree(A, K), NEW t \in Towers, NEW u \in Towers,
         NEW s \in Slots, RootedOK(A, K, t), Recorded(A, t, s, u)
  PROVE  \E d \in {0, 1} :
           LET n == Len(u.votes) IN
           /\ n \in Nat \ {0} /\ u.votes[n].slot = s
           /\ \A i \in 1 .. Len(t.votes) : t.votes[i].slot < s
           /\ \A i \in 1 .. (n - 1) :
                i + d \in 1 .. Len(t.votes) /\ u.votes[i].slot = t.votes[i + d].slot
           /\ d = 0 => u.root_slot = t.root_slot
           /\ d = 1 => 1 \in 1 .. Len(t.votes) /\ u.root_slot = t.votes[1].slot
           /\ \A i \in 1 .. Len(t.votes) :
                LastLockedOutSlot(t.votes[i]) >= s =>
                  \/ d = 1 /\ i = 1
                  \/ /\ i - d \in 1 .. (n - 1)
                     /\ LastLockedOutSlot(u.votes[i - d]) >= LastLockedOutSlot(t.votes[i])
<1> DEFINE d == Rooted(t.votes, s)
           w == Unexpired(t.votes, s)
           n == w - d + 1
           V == [slot : Slots, confirmation_count : Nat \ {0}]
<1>1. /\ t.votes \in Seq(V) /\ Len(t.votes) \in Nat /\ t.votes \in Stacks
      /\ \A i \in 1 .. Len(t.votes) :
           /\ t.votes[i].slot \in Nat
           /\ t.votes[i] \in [slot : Nat, confirmation_count : Nat]
           /\ t.votes[i].confirmation_count <= MAX_LOCKOUT_HISTORY
  <2>1. t.votes \in Stacks
    BY TowerFields
  <2>2. t.votes \in Seq(V) /\ Len(t.votes) \in Nat
    <3>1. t.votes \in Seq(V)
      BY <2>1, StackElement, Zenon
    <3>2. QED
      BY <3>1, SeqLength
  <2>3. QED
    BY <2>1, <2>2, StackElement, MaxLockoutHistoryAssumption
<1>2. /\ u.votes \in Seq(V) /\ n \in Nat \ {0} /\ Len(u.votes) = n
      /\ u.votes[n] = NewLockout(s)
      /\ \A i \in 1 .. (n - 1) :
           /\ i + d \in 1 .. Len(t.votes)
           /\ u.votes[i].slot = t.votes[i + d].slot
           /\ \/ u.votes[i].confirmation_count = t.votes[i + d].confirmation_count
              \/ /\ u.votes[i].confirmation_count = t.votes[i + d].confirmation_count + 1
                 /\ t.votes[i + d].confirmation_count < n
  <2>1. Slots \in SUBSET Nat /\ IsRecent(t.votes, s) /\ u.votes = NextVotes(t.votes, s)
    BY SlotsAssumption DEF Recorded
  <2> DEFINE next == NextVotes(t.votes, s)
  <2>2. /\ next \in Seq(V) /\ n \in Nat \ {0} /\ Len(next) = n
        /\ next[n] = NewLockout(s)
        /\ \A i \in 1 .. (n - 1) :
             /\ i + d \in 1 .. Len(t.votes)
             /\ next[i].slot = t.votes[i + d].slot
             /\ \/ next[i].confirmation_count = t.votes[i + d].confirmation_count
                \/ /\ next[i].confirmation_count = t.votes[i + d].confirmation_count + 1
                   /\ t.votes[i + d].confirmation_count < n
    BY <1>1, <2>1, NextVotesProperty, ZenonT(60)
  <2> HIDE DEF n, d, V, next
  <2>3. u.votes = next
    BY <2>1 DEF next
  <2>4. QED
    BY <2>2, <2>3
<1>3. d \in {0, 1} /\ (d = 1 <=> MakesRoot(t.votes, s))
  BY DEF Rooted
<1>4. w \in 0 .. Len(t.votes)
  BY <1>1, UnexpiredProperty
<1>5. u.votes[n].slot = s
  BY <1>2, SMTT(60) DEF NewLockout
<1>6. \A i \in 1 .. Len(t.votes) : t.votes[i].slot < s
  <2>1. StackOK(A, K, t)
    BY DEF RootedOK
  <2>2. s > t.last_vote
    BY <2>1 DEF Recorded, IsRecent, StackOK
  <2>3. t.last_vote \in Slots \cup {None} /\ s \in Nat
    BY TowerFields, SlotsAssumption
  <2>4. \A i \in 1 .. Len(t.votes) : t.votes[i].slot <= t.last_vote
    BY <2>1, StackOrder
  <2>5. \A i \in 1 .. Len(t.votes) : t.last_vote \in Nat
    BY <1>1, <2>1, <2>3, StackOrder, SlotsAssumption, SMTT(60)
  <2>6. ASSUME NEW i \in 1 .. Len(t.votes)
        PROVE  t.votes[i].slot < s
    <3>1. t.votes[i].slot \in Nat /\ t.last_vote \in Nat /\ s \in Nat
      BY <1>1, <2>3, <2>5
    <3>2. t.votes[i].slot <= t.last_vote
      BY <2>4
    <3>3. QED
      BY <3>1, <3>2, <2>2
  <2>7. QED
    BY <2>6
<1>7. (d = 0 => u.root_slot = t.root_slot) /\ (d = 1 => u.root_slot = t.votes[1].slot)
  BY <1>3 DEF Recorded, NextRoot
<1>8. d = 1 => w > 0 /\ 1 \in 1 .. Len(t.votes)
  BY <1>1, <1>3, <1>4, MaxLockoutHistoryAssumption DEF MakesRoot
<1>9. ASSUME NEW i \in 1 .. Len(t.votes), LastLockedOutSlot(t.votes[i]) >= s,
             ~(d = 1 /\ i = 1)
      PROVE  /\ i - d \in 1 .. (n - 1)
             /\ LastLockedOutSlot(u.votes[i - d]) >= LastLockedOutSlot(t.votes[i])
  <2>1. i <= w
    BY <1>1, <1>9, LockedVoteIsKept DEF IsLockedOutAtSlot
  <2>2. i - d \in 1 .. (n - 1) /\ (i - d) + d = i
    BY <2>1, <1>1, <1>3, <1>4, <1>9
  <2> DEFINE b == u.votes[i - d]
  <2>3. b \in [slot : Nat, confirmation_count : Nat]
    <3>1. u.votes \in Stacks
      BY TowerFields
    <3>2. n \in Nat /\ Len(u.votes) = n
      BY <1>2, Zenon
    <3>3. i - d \in 1 .. Len(u.votes)
      BY <2>2, <3>2, SMTT(60)
    <3>4. QED
      BY <3>1, <3>3, StackElement
  <2>4. /\ b.slot = t.votes[i].slot
        /\ \/ b.confirmation_count = t.votes[i].confirmation_count
           \/ b.confirmation_count = t.votes[i].confirmation_count + 1
    BY <2>2, <1>2, Zenon
  <2> HIDE DEF b
  <2>5. LastLockedOutSlot(t.votes[i]) <= LastLockedOutSlot(b) /\ LastLockedOutSlot(b) \in Nat
        /\ LastLockedOutSlot(t.votes[i]) \in Nat
    BY <2>3, <2>4, <1>1, LockoutGrows, Zenon
  <2>6. QED
    BY <2>2, <2>5 DEF b
<1> HIDE DEF d, w, n, V
<1>10. QED
  BY <1>2, <1>3, <1>5, <1>6, <1>7, <1>8, <1>9, Zenon

(* A recorded vote leaves a well-formed tower, above its root.             *)
LEMMA RecordedStack ==
  ASSUME NEW A, NEW K, Tree(A, K), NEW t \in Towers, NEW u \in Towers,
         NEW s \in Slots, s \in K, t.root_slot \in Slots,
         RootedOK(A, K, t), Recorded(A, t, s, u)
  PROVE  /\ RootedOK(A, K, u) /\ AboveRoot(A, u)
         /\ u.root_slot \in Slots
         /\ OnFork(A, t.root_slot, u.root_slot)
<1> DEFINE n == Len(u.votes)
<1>1. PICK d \in {0, 1} :
        /\ n \in Nat \ {0} /\ u.votes[n].slot = s
        /\ \A i \in 1 .. Len(t.votes) : t.votes[i].slot < s
        /\ \A i \in 1 .. (n - 1) :
             i + d \in 1 .. Len(t.votes) /\ u.votes[i].slot = t.votes[i + d].slot
        /\ d = 0 => u.root_slot = t.root_slot
        /\ d = 1 => 1 \in 1 .. Len(t.votes) /\ u.root_slot = t.votes[1].slot
  BY RecordedVotes, SMTT(60)
<1>2. /\ \A i \in 1 .. Len(t.votes) : t.votes[i].slot \in Slots /\ t.votes[i].slot \in Nat
      /\ Len(t.votes) \in Nat
      /\ \A i \in 1 .. n : u.votes[i].slot \in Slots /\ u.votes[i].slot \in Nat
      /\ u.votes \in Seq(Votes) /\ s \in Nat
  BY TowerFields, StackElement, SlotsAssumption, SMTT(60) DEF Stacks
<1>3. StackOK(A, K, t) /\ t.root_slot \in K
      /\ \A i \in 1 .. Len(t.votes) : t.votes[i].slot \notin A[t.root_slot]
  BY DEF RootedOK
<1>4. \A i \in 1 .. n : OnFork(A, u.votes[i].slot, s)
  BY DEF Recorded
<1>5. OnFork(A, u.root_slot, s) /\ OnFork(A, t.root_slot, s) /\ u.last_vote = s
  BY DEF Recorded
<1>6. StackOK(A, K, u)
  <2>1. u.last_vote = LastVotedSlot(u.votes)
    BY <1>1, <1>2, <1>5, SeqEmpty DEF LastVotedSlot
  <2>2. \A i \in 1 .. n : u.votes[i].slot \in K
    <3> SUFFICES ASSUME NEW i \in 1 .. n PROVE u.votes[i].slot \in K
      OBVIOUS
    <3>1. CASE i = n
      BY <3>1, <1>1
    <3>2. CASE i # n
      <4>1. i \in 1 .. (n - 1)
        BY <3>2, <1>1
      <4>2. QED
        BY <4>1, <1>1, <1>3, Zenon DEF StackOK
    <3>3. QED
      BY <3>1, <3>2
  <2>3. ASSUME NEW i \in 1 .. n, NEW j \in 1 .. n, i < j
        PROVE  u.votes[i].slot \in A[u.votes[j].slot]
    <3>1. i \in 1 .. (n - 1) /\ i + d \in 1 .. Len(t.votes) /\ u.votes[i].slot = t.votes[i + d].slot
      BY <2>3, <1>1
    <3>2. CASE j = n
      <4>1. u.votes[i].slot # s
        BY <3>1, <1>1, <1>2
      <4>2. QED
        BY <4>1, <3>2, <1>1, <1>4 DEF OnFork
    <3>3. CASE j # n
      <4>0. j \in 1 .. (n - 1)
        BY <3>3, <1>1
      <4>1. j + d \in 1 .. Len(t.votes) /\ u.votes[j].slot = t.votes[j + d].slot
        BY <4>0, <1>1
      <4>2. i + d < j + d
        BY <2>3, <1>1
      <4>3. QED
        BY <3>1, <4>1, <4>2, <1>3, Zenon DEF StackOK
    <3>4. QED
      BY <3>2, <3>3
  <2>4. QED
    BY <2>1, <2>2, <2>3 DEF StackOK
<1>7. u.root_slot \in K /\ u.root_slot \in Slots
  BY <1>1, <1>2, <1>3 DEF StackOK
<1>8. ASSUME NEW i \in 1 .. n, u.votes[i].slot \in A[u.root_slot] PROVE FALSE
  <2> DEFINE x == u.votes[i].slot
             r == u.root_slot
  <2>1. x < r /\ x \in Nat /\ r \in Nat
    BY <1>7, <1>8, AncestorOrder
  <2>2. r <= s
    BY <1>5, ForkOrder
  <2>3. i # n
    BY <2>1, <2>2, <1>1, <1>2
  <2>4. i \in 1 .. (n - 1)
    BY <2>3, <1>1
  <2>5. CASE d = 0
    BY <2>4, <2>5, <1>1, <1>3, <1>8
  <2>6. CASE d = 1
    <3>1. i + 1 \in 1 .. Len(t.votes) /\ u.votes[i].slot = t.votes[i + 1].slot
          /\ u.root_slot = t.votes[1].slot /\ 1 \in 1 .. Len(t.votes)
      BY <2>4, <2>6, <1>1, Zenon
    <3>2. 1 < i + 1
      BY <2>4
    <3>3. t.votes[1].slot < t.votes[i + 1].slot
      BY <3>1, <3>2, <1>3, StackOrder
    <3>4. r < x
      BY <3>1, <3>3
    <3> HIDE DEF x, r
    <3>5. QED
      BY <3>4, <2>1
  <2>7. QED
    BY <2>5, <2>6
<1>9. RootedOK(A, K, u)
  BY <1>6, <1>7, <1>8 DEF RootedOK
<1>10. ASSUME NEW i \in 1 .. n PROVE OnFork(A, u.root_slot, u.votes[i].slot)
  <2>1. OnFork(A, u.root_slot, u.votes[i].slot) \/ OnFork(A, u.votes[i].slot, u.root_slot)
    BY <1>4, <1>5, ForkLinear, Zenon
  <2>2. QED
    BY <2>1, <1>8 DEF OnFork
<1>11. OnFork(A, t.root_slot, u.root_slot)
  <2>1. CASE d = 0
    BY <2>1, <1>1 DEF OnFork
  <2>2. CASE d = 1
    <3>1. 1 \in 1 .. Len(t.votes) /\ u.root_slot = t.votes[1].slot
      BY <2>2, <1>1
    <3>2. OnFork(A, t.root_slot, u.root_slot) \/ OnFork(A, u.root_slot, t.root_slot)
      BY <1>5, ForkLinear
    <3>3. QED
      BY <3>1, <3>2, <1>3 DEF OnFork
  <2>3. QED
    BY <2>1, <2>2
<1>12. QED
  BY <1>7, <1>9, <1>10, <1>11, SMTT(60) DEF AboveRoot

(* A recorded vote keeps every lock the tower kept.                        *)
LEMMA RecordedKeeps ==
  ASSUME NEW A, NEW K, Tree(A, K), NEW t \in Towers, NEW u \in Towers,
         NEW s \in Slots, s \in K, t.root_slot \in Slots,
         RootedOK(A, K, t), Recorded(A, t, s, u),
         NEW L, IsLocks(L), Keeps(A, t, L)
  PROVE  Keeps(A, u, L)
<1> SUFFICES ASSUME NEW p \in L
             PROVE  Remembers(A, u, p) /\ AgreesWith(A, u, p)
  BY DEF Keeps
<1> DEFINE n == Len(u.votes)
           v == p[1]
           e == p[2]
<1>1. PICK d \in {0, 1} :
        /\ n \in Nat \ {0} /\ u.votes[n].slot = s
        /\ \A i \in 1 .. Len(t.votes) : t.votes[i].slot < s
        /\ \A i \in 1 .. (n - 1) :
             i + d \in 1 .. Len(t.votes) /\ u.votes[i].slot = t.votes[i + d].slot
        /\ d = 0 => u.root_slot = t.root_slot
        /\ d = 1 => 1 \in 1 .. Len(t.votes) /\ u.root_slot = t.votes[1].slot
        /\ \A i \in 1 .. Len(t.votes) :
             LastLockedOutSlot(t.votes[i]) >= s =>
               \/ d = 1 /\ i = 1
               \/ /\ i - d \in 1 .. (n - 1)
                  /\ LastLockedOutSlot(u.votes[i - d]) >= LastLockedOutSlot(t.votes[i])
  BY RecordedVotes, Zenon
<1>2. v \in Slots /\ v \in Nat /\ e \in Nat /\ s \in Nat
  BY SlotsAssumption, SMTT(60) DEF IsLocks
<1>3. /\ OnFork(A, t.root_slot, u.root_slot) /\ u.root_slot \in Slots
      /\ OnFork(A, u.root_slot, s) /\ OnFork(A, t.root_slot, s)
      /\ \A i \in 1 .. n : OnFork(A, u.votes[i].slot, s)
      /\ u.last_vote = s
  BY RecordedStack, Zenon DEF Recorded
<1>4. Remembers(A, t, p) /\ AgreesWith(A, t, p)
  BY DEF Keeps
<1>5. /\ t.root_slot \in Nat /\ u.root_slot \in Nat
      /\ t.root_slot <= u.root_slot /\ u.root_slot <= s /\ t.root_slot <= s
  BY <1>3, ForkOrder
<1>6. t.last_vote < s /\ t.last_vote \in Int
  <2>1. t.last_vote < s
    BY Zenon DEF Recorded, IsRecent, RootedOK, StackOK
  <2>2. QED
    BY <2>1, TowerNumbers
(* Where the lock is found in the new tower. *)
<1>7. \/ \E i \in 1 .. n : u.votes[i].slot = v /\ LastLockedOutSlot(u.votes[i]) >= e
      \/ OnFork(A, v, u.root_slot)
      \/ e < s
  <2>1. ASSUME NEW i \in 1 .. Len(t.votes), t.votes[i].slot = v,
               LastLockedOutSlot(t.votes[i]) >= e
        PROVE  <1>7!:
    <3>1. LastLockedOutSlot(t.votes[i]) \in Nat
      BY ExpiryType
    <3>2. CASE LastLockedOutSlot(t.votes[i]) < s
      BY <3>1, <3>2, <2>1, <1>2, SMTT(60)
    <3>3. CASE d = 1 /\ i = 1
      BY <3>3, <2>1, <1>1, SMTT(60) DEF OnFork
    <3>4. CASE /\ i - d \in 1 .. (n - 1)
               /\ LastLockedOutSlot(u.votes[i - d]) >= LastLockedOutSlot(t.votes[i])
      <4> DEFINE k == i - d
      <4>0. n \in Nat
        BY <1>1, Zenon
      <4>1. k \in 1 .. n /\ k \in 1 .. (n - 1) /\ k + d = i
        BY <3>4, <4>0
      <4>2. u.votes[k].slot = v
        BY <4>1, <2>1, <1>1, SMTT(60)
      <4>3. LastLockedOutSlot(u.votes[k]) \in Nat
        BY <4>1, ExpiryType
      <4>4. LastLockedOutSlot(u.votes[k]) >= e
        BY <4>3, <3>1, <3>4, <2>1, <1>2, SMTT(60)
      <4>5. QED
        BY <4>1, <4>2, <4>4
    <3>5. LastLockedOutSlot(t.votes[i]) < s \/ LastLockedOutSlot(t.votes[i]) >= s
      BY <3>1, <1>2
    <3>6. LastLockedOutSlot(t.votes[i]) >= s =>
            \/ d = 1 /\ i = 1
            \/ /\ i - d \in 1 .. (n - 1)
               /\ LastLockedOutSlot(u.votes[i - d]) >= LastLockedOutSlot(t.votes[i])
      BY <1>1, Zenon
    <3>7. QED
      BY <3>2, <3>3, <3>4, <3>5, <3>6, Zenon
  <2>2. CASE OnFork(A, v, t.root_slot)
    BY <2>2, <1>3, ForkTransitive, SMTT(60)
  <2>3. CASE e < t.last_vote
    BY <2>3, <1>2, <1>6, SMTT(60)
  <2>4. CASE e < t.root_slot
    BY <2>4, <1>2, <1>5
  <2>5. QED
    BY <2>1, <2>2, <2>3, <2>4, <1>4, Zenon DEF Remembers
<1>8. Remembers(A, u, p)
  <2>1. e < s => e < u.last_vote
    BY <1>3, SMTT(60)
  <2>2. QED
    BY <2>1, <1>3, <1>7, Zenon DEF Remembers
<1>9. v <= s
  BY <1>2, <1>4, <1>5, <1>6, SMTT(60) DEF AgreesWith
<1>10. v < s /\ e >= s => v \in A[s]
  <2> SUFFICES ASSUME v < s, e >= s PROVE v \in A[s]
    OBVIOUS
  <2>1. OnFork(A, v, s)
    BY <1>2, <1>3, <1>7, ForkTransitive, SMTT(60)
  <2>2. QED
    BY <2>1, <1>2, SMTT(60) DEF OnFork
<1>11. ASSUME NEW i \in 1 .. n
       PROVE  /\ u.votes[i].slot < v => u.votes[i].slot \in A[v]
              /\ v < u.votes[i].slot /\ e >= u.votes[i].slot => v \in A[u.votes[i].slot]
  <2>1. CASE i = n
    BY <2>1, <1>1, <1>2, <1>9, <1>10, SMTT(60)
  <2>2. CASE i # n
    <3>0. n \in Nat
      BY <1>1, Zenon
    <3>1. i \in 1 .. (n - 1)
      BY <2>2, <3>0, SMTT(60)
    <3>2. QED
      BY <3>1, <1>1, <1>4, Zenon DEF AgreesWith
  <2>3. QED
    BY <2>1, <2>2, Zenon
<1>12. AgreesWith(A, u, p)
  BY <1>3, <1>9, <1>11, Zenon DEF AgreesWith
<1>13. QED
  BY <1>8, <1>12

LEMMA SlotsInTowerFacts ==
  ASSUME NEW t \in Towers
  PROVE  /\ Len(SlotsInTower(t)) = Len(t.votes) + 1
         /\ SlotsInTower(t)[1] = t.root_slot
         /\ \A i \in 1 .. Len(t.votes) : SlotsInTower(t)[i + 1] = t.votes[i].slot
<1> DEFINE s == [i \in 1 .. Len(t.votes) |-> t.votes[i].slot]
           S == {t.root_slot} \cup {t.votes[i].slot : i \in 1 .. Len(t.votes)}
<1>1. Len(t.votes) \in Nat
  BY TowerFields, StackElement
<1>2. s \in [1 .. Len(t.votes) -> S]
  OBVIOUS
<1>3. s \in Seq(S) /\ Len(s) = Len(t.votes)
  BY <1>1, <1>2, SeqLength
<1>4. <<t.root_slot>> \in Seq(S) /\ Len(<<t.root_slot>>) = 1
  OBVIOUS
<1>5. \A i \in 1 .. Len(t.votes) : s[i] = t.votes[i].slot
  OBVIOUS
<1>6. SlotsInTower(t) = <<t.root_slot>> \o s
  BY DEF SlotsInTower
<1> HIDE DEF s, S
<1>7. Len(SlotsInTower(t)) = Len(t.votes) + 1
  BY <1>1, <1>3, <1>4, <1>6, SeqJoined
<1>8. SlotsInTower(t)[1] = t.root_slot
  BY <1>1, <1>3, <1>4, <1>6, SeqJoined
<1>9. ASSUME NEW i \in 1 .. Len(t.votes)
      PROVE  SlotsInTower(t)[i + 1] = t.votes[i].slot
  <2>1. i + 1 \in 1 .. (1 + Len(s)) /\ i + 1 > 1 /\ (i + 1) - 1 = i
    BY <1>1, <1>3
  <2>2. (<<t.root_slot>> \o s)[i + 1] = s[i]
    BY <2>1, <1>3, <1>4, SeqJoined
  <2>3. QED
    BY <2>2, <1>5, <1>6, Zenon
<1>10. QED
  BY <1>7, <1>8, <1>9

(* A tower restored on a ledger of the same fork as its root.              *)
Restorable(t, root) ==
  /\ anc \in [Slots -> SUBSET Slots] /\ TreeOK(anc, known)
  /\ t \in Towers /\ t.root_slot \in Slots
  /\ RootedOK(anc, known, t) /\ AboveRoot(anc, t)
  /\ root \in Slots /\ root \in known
  /\ OnFork(anc, t.root_slot, root) \/ OnFork(anc, root, t.root_slot)
  /\ ~AdjustFails(t, root, HistoryNewest(t, root))

(* The votes dropped are on the fork of the new root, the votes kept are   *)
(* not among its ancestors.                                                *)
LEMMA AdjustedVotes ==
  ASSUME NEW t, NEW root, Restorable(t, root)
  PROVE  LET u == AdjustedTower(t, root) IN
         /\ u.root_slot \in Slots /\ u.root_slot \in known
         /\ OnFork(anc, root, u.root_slot) /\ OnFork(anc, t.root_slot, u.root_slot)
         /\ u.root_slot = root \/ u.root_slot = t.root_slot
         /\ \E k \in 1 .. (Len(t.votes) + 1) :
              /\ Len(u.votes) = Len(t.votes) - k + 1
              /\ \A i \in 1 .. (Len(t.votes) - k + 1) :
                   i + k - 1 \in 1 .. Len(t.votes) /\ u.votes[i] = t.votes[i + k - 1]
              /\ u.last_vote = IF u.votes = <<>> THEN None ELSE t.last_vote
              /\ \A i \in 1 .. (k - 1) : OnFork(anc, t.votes[i].slot, u.root_slot)
              /\ \A i \in k .. Len(t.votes) : t.votes[i].slot \notin anc[u.root_slot]
<1> DEFINE u == AdjustedTower(t, root)
           newest == HistoryNewest(t, root)
           slots == SlotsInTower(t)
           check(x) == CheckHistory(root, newest, x)
<1>1. /\ Tree(anc, known) /\ t \in Towers /\ t.root_slot \in Slots
      /\ RootedOK(anc, known, t) /\ root \in Slots /\ root \in known
      /\ StackOK(anc, known, t) /\ t.root_slot \in known
  BY DEF Restorable, Tree, RootedOK
<1>2. /\ newest \in Slots /\ newest \in known
      /\ OnFork(anc, root, newest) /\ OnFork(anc, t.root_slot, newest)
      /\ newest = root \/ newest = t.root_slot
  <2>1. CASE t.root_slot <= root
    <3>1. newest = root
      BY <2>1 DEF HistoryNewest
    <3>2. OnFork(anc, t.root_slot, root)
      <4>1. OnFork(anc, root, root)
        BY DEF OnFork
      <4>2. CASE OnFork(anc, root, t.root_slot)
        <5>1. root <= t.root_slot /\ root \in Nat /\ t.root_slot \in Nat
          BY <4>2, <1>1, ForkOrder
        <5>2. root = t.root_slot
          BY <5>1, <2>1, SMTT(60)
        <5>3. QED
          BY <5>2 DEF OnFork
      <4>3. QED
        BY <4>2, Zenon DEF Restorable
    <3>3. QED
      BY <3>1, <3>2, <1>1, Zenon DEF OnFork
  <2>2. CASE ~(t.root_slot <= root)
    <3>1. newest = t.root_slot
      BY <2>2 DEF HistoryNewest
    <3>2. ~OnFork(anc, t.root_slot, root)
      BY <2>2, <1>1, ForkOrder, ZenonT(60)
    <3>3. QED
      BY <3>1, <3>2, <1>1, Zenon DEF OnFork, Restorable
  <2>3. QED
    BY <2>1, <2>2
<1>3. PICK k \in 1 .. (Len(t.votes) + 1) :
        /\ k \in AnchoredAt(t, root, newest)
        /\ LET kept == SubSeq(t.votes, k, Len(t.votes)) IN
           u = [votes |-> kept,
                root_slot |-> newest,
                last_vote |-> IF kept = <<>> THEN None ELSE t.last_vote,
                stray_restored_slot |->
                  IF kept = <<>> THEN t.stray_restored_slot ELSE t.last_vote]
  BY <1>1, AdjustedTowerFields, Zenon DEF Restorable
<1>4. /\ u.votes = SubSeq(t.votes, k, Len(t.votes)) /\ u.root_slot = newest
      /\ u.last_vote = IF u.votes = <<>> THEN None ELSE t.last_vote
  BY <1>3, SMTT(60)
<1>5. /\ t.votes \in Stacks /\ Len(t.votes) \in Nat
      /\ Len(u.votes) = Len(t.votes) - k + 1
      /\ \A i \in 1 .. (Len(t.votes) - k + 1) : u.votes[i] = t.votes[i + k - 1]
  BY <1>1, <1>4, TowerFields, StackElement, SubStack, SMTT(60)
<1>6. \A i \in 1 .. (Len(t.votes) - k + 1) : i + k - 1 \in 1 .. Len(t.votes)
  BY <1>5
<1>7. /\ Len(slots) = Len(t.votes) + 1 /\ slots[1] = t.root_slot
      /\ \A i \in 1 .. Len(t.votes) : slots[i + 1] = t.votes[i].slot
  BY <1>1, SlotsInTowerFacts, SMTT(60)
<1>8. /\ check(slots[k]) = "Found"
      /\ \A j \in (k + 1) .. Len(slots) : check(slots[j]) # "Found"
  BY <1>3 DEF AnchoredAt
<1>9. OnFork(anc, slots[k], newest)
  <2>1. slots[k] \in anc[root] \cup {root, newest}
    BY <1>8 DEF CheckHistory
  <2>2. OnFork(anc, slots[k], root) \/ slots[k] = newest
    BY <2>1, SMTT(60) DEF OnFork
  <2>3. QED
    BY <2>2, <1>1, <1>2, ForkTransitive, Zenon DEF OnFork
<1>10. ASSUME NEW i \in 1 .. (k - 1) PROVE OnFork(anc, t.votes[i].slot, newest)
  <2>1. k - 1 \in 1 .. Len(t.votes) /\ slots[k] = t.votes[k - 1].slot /\ i \in 1 .. Len(t.votes)
    BY <1>5, <1>7, SMTT(60)
  <2>2. OnFork(anc, t.votes[i].slot, t.votes[k - 1].slot)
    <3>1. i = k - 1 \/ i < k - 1
      OBVIOUS
    <3>2. QED
      BY <2>1, <3>1, <1>1, Zenon DEF StackOK, OnFork
  <2>3. QED
    BY <2>1, <2>2, <1>1, <1>2, <1>9, ForkTransitive, Zenon
<1>11. ASSUME NEW i \in k .. Len(t.votes), t.votes[i].slot \in anc[newest] PROVE FALSE
  <2> DEFINE x == t.votes[i].slot
  <2>1. /\ i \in 1 .. Len(t.votes) /\ i + 1 \in (k + 1) .. Len(slots) /\ slots[i + 1] = x
        /\ i + 1 \in 1 .. Len(slots) /\ k \in 1 .. Len(slots) /\ k < i + 1
    <3> DEFINE m == Len(t.votes)
    <3>1. m \in Nat /\ Len(slots) = m + 1 /\ k \in 1 .. (m + 1) /\ i \in k .. m
      BY <1>5, <1>7
    <3>2. i \in 1 .. m /\ i + 1 \in (k + 1) .. (m + 1) /\ i + 1 \in 1 .. (m + 1) /\ k < i + 1
      <4> HIDE DEF m
      <4> QED BY <3>1
    <3>3. QED
      BY <3>1, <3>2, <1>7
  <2>2. check(x) # "Found"
    BY <2>1, <1>8, SMTT(60)
  <2>3. x < newest /\ x \in Nat /\ newest \in Nat
    BY <1>2, <1>1, <1>11, AncestorOrder, Zenon
  <2>4. check(x) # "TooOld"
    <3>1. ~(check(slots[k]) # "TooOld" /\ check(slots[i + 1]) = "TooOld")
      BY <2>1, Zenon DEF Restorable, AdjustFails
    <3>2. QED
      BY <3>1, <2>1, <1>8, ZenonT(60)
  <2>5. x \notin anc[root] \cup {root, newest}
    BY <2>2, <2>3, <2>4, SMTT(60) DEF CheckHistory
  <2>6. x \notin anc[t.root_slot]
    BY <2>1, <1>1, Zenon DEF RootedOK
  <2>7. QED
    BY <2>5, <2>6, <1>2, <1>11, Zenon
<1>12. QED
  BY <1>2, <1>4, <1>5, <1>6, <1>10, <1>11, ZenonT(60)

(* A restored tower is well formed; it is above its root, or its root is   *)
(* the one the ledger was replayed to.                                     *)
LEMMA AdjustedStack ==
  ASSUME NEW t, NEW root, Restorable(t, root)
  PROVE  LET u == AdjustedTower(t, root) IN
         /\ u \in Towers
         /\ RootedOK(anc, known, u)
         /\ u.root_slot = root \/ AboveRoot(anc, u)
         /\ TowerLocks(u) \subseteq TowerLocks(t)
<1> DEFINE u == AdjustedTower(t, root)
<1>1. /\ Tree(anc, known) /\ t \in Towers /\ StackOK(anc, known, t) /\ AboveRoot(anc, t)
      /\ u \in Towers
  BY AdjustedTowerType, Zenon DEF Restorable, Tree, RootedOK
<1>2. /\ u.root_slot \in Slots /\ u.root_slot \in known
      /\ u.root_slot = root \/ u.root_slot = t.root_slot
  BY AdjustedVotes, SMTT(60)
<1>3. PICK k \in 1 .. (Len(t.votes) + 1) :
        /\ Len(u.votes) = Len(t.votes) - k + 1
        /\ \A i \in 1 .. (Len(t.votes) - k + 1) :
             i + k - 1 \in 1 .. Len(t.votes) /\ u.votes[i] = t.votes[i + k - 1]
        /\ u.last_vote = IF u.votes = <<>> THEN None ELSE t.last_vote
        /\ \A i \in k .. Len(t.votes) : t.votes[i].slot \notin anc[u.root_slot]
  BY AdjustedVotes, Zenon
<1>4. Len(t.votes) \in Nat /\ t.votes \in Seq(Votes) /\ u.votes \in Seq(Votes)
      /\ Len(u.votes) \in Nat
  BY <1>1, TowerFields, SeqLength DEF Stacks
<1> HIDE DEF u
<1>5. \A i \in 1 .. Len(u.votes) :
        i + k - 1 \in 1 .. Len(t.votes) /\ u.votes[i] = t.votes[i + k - 1]
        /\ i + k - 1 \in k .. Len(t.votes)
  <2> SUFFICES ASSUME NEW i \in 1 .. Len(u.votes)
               PROVE  i + k - 1 \in 1 .. Len(t.votes) /\ u.votes[i] = t.votes[i + k - 1]
                      /\ i + k - 1 \in k .. Len(t.votes)
    OBVIOUS
  <2>1. i \in 1 .. (Len(t.votes) - k + 1)
    BY <1>3
  <2>2. i + k - 1 \in 1 .. Len(t.votes) /\ u.votes[i] = t.votes[i + k - 1]
    BY <2>1, <1>3
  <2>3. i + k - 1 >= k /\ i + k - 1 \in Int /\ i + k - 1 <= Len(t.votes)
    BY <2>2, <1>4
  <2>4. QED
    BY <2>2, <2>3, <1>4
<1>6. u.last_vote = LastVotedSlot(u.votes)
  <2>1. CASE u.votes = <<>>
    BY <2>1, <1>3 DEF LastVotedSlot
  <2>2. CASE u.votes # <<>>
    <3>1. Len(u.votes) \in 1 .. Len(u.votes) /\ Len(u.votes) + k - 1 = Len(t.votes)
      BY <2>2, <1>3, <1>4, SeqEmpty
    <3>2. u.votes[Len(u.votes)] = t.votes[Len(t.votes)] /\ t.votes # <<>>
      <4>1. /\ Len(u.votes) + k - 1 \in 1 .. Len(t.votes)
            /\ u.votes[Len(u.votes)] = t.votes[Len(u.votes) + k - 1]
        BY <3>1, <1>5, Zenon
      <4>2. Len(t.votes) # 0
        BY <4>1, <1>4
      <4>3. QED
        BY <4>1, <4>2, <3>1
    <3>3. t.last_vote = t.votes[Len(t.votes)].slot
      BY <3>2, <1>1 DEF StackOK, LastVotedSlot
    <3>4. QED
      BY <2>2, <3>2, <3>3, <1>3 DEF LastVotedSlot
  <2>3. QED
    BY <2>1, <2>2
<1>7. ASSUME NEW i \in 1 .. Len(u.votes), NEW j \in 1 .. Len(u.votes), i < j
      PROVE  u.votes[i].slot \in anc[u.votes[j].slot]
  <2>1. i + k - 1 < j + k - 1
    BY <1>7, <1>4
  <2>2. QED
    BY <2>1, <1>1, <1>5, Zenon DEF StackOK
<1>8. StackOK(anc, known, u)
  BY <1>1, <1>5, <1>6, <1>7, Zenon DEF StackOK
<1>9. RootedOK(anc, known, u)
  BY <1>2, <1>3, <1>5, <1>8, Zenon DEF RootedOK
<1>10. u.root_slot = t.root_slot => AboveRoot(anc, u)
  BY <1>1, <1>5, Zenon DEF AboveRoot
<1>11. TowerLocks(u) \subseteq TowerLocks(t)
  BY <1>5, Zenon DEF TowerLocks
<1>12. QED
  BY <1>1, <1>2, <1>9, <1>10, <1>11, ZenonT(60) DEF u

(* A restored tower keeps every lock the saved one kept.                   *)
LEMMA AdjustedKeeps ==
  ASSUME NEW t, NEW root, Restorable(t, root),
         NEW L, IsLocks(L), Keeps(anc, t, L)
  PROVE  Keeps(anc, AdjustedTower(t, root), L)
<1> DEFINE u == AdjustedTower(t, root)
<1> SUFFICES ASSUME NEW p \in L
             PROVE  Remembers(anc, u, p) /\ AgreesWith(anc, u, p)
  BY SMTT(60) DEF Keeps
<1> DEFINE v == p[1]
           e == p[2]
<1>1. /\ Tree(anc, known) /\ t \in Towers /\ StackOK(anc, known, t) /\ t.root_slot \in Slots
      /\ u \in Towers
  BY AdjustedTowerType, Zenon DEF Restorable, Tree, RootedOK
<1>2. u.root_slot \in Slots /\ OnFork(anc, t.root_slot, u.root_slot)
  BY AdjustedVotes, Zenon
<1>3. PICK k \in 1 .. (Len(t.votes) + 1) :
        /\ Len(u.votes) = Len(t.votes) - k + 1
        /\ \A i \in 1 .. (Len(t.votes) - k + 1) :
             i + k - 1 \in 1 .. Len(t.votes) /\ u.votes[i] = t.votes[i + k - 1]
        /\ u.last_vote = IF u.votes = <<>> THEN None ELSE t.last_vote
        /\ \A i \in 1 .. (k - 1) : OnFork(anc, t.votes[i].slot, u.root_slot)
  BY AdjustedVotes, Zenon
<1>4. /\ Len(t.votes) \in Nat /\ u.votes \in Seq(Votes) /\ t.votes \in Seq(Votes)
      /\ Len(u.votes) \in Nat
      /\ t.last_vote \in Int /\ t.last_vote >= None /\ u.last_vote \in Int
  BY <1>1, TowerFields, SeqLength, TowerNumbers DEF Stacks
<1>5. v \in Slots /\ v \in Nat /\ e \in Nat
  BY DEF IsLocks
<1>6. Remembers(anc, t, p) /\ AgreesWith(anc, t, p)
  BY DEF Keeps
<1>7. t.root_slot <= u.root_slot /\ t.root_slot \in Nat /\ u.root_slot \in Nat
  BY <1>1, <1>2, ForkOrder, SMTT(60)
<1> HIDE DEF u
(* The last vote is still there, or at or below the root. *)
<1>8. u.last_vote = t.last_vote \/ t.last_vote <= u.root_slot
  <2>1. CASE u.votes # <<>>
    BY <2>1, <1>3
  <2>2. CASE t.votes = <<>>
    <3>1. t.last_vote = None
      BY <2>2, <1>1, StackOrder, Zenon
    <3>2. QED
      BY <3>1, <1>7, SMTT(60)
  <2>3. CASE u.votes = <<>> /\ t.votes # <<>>
    <3>1. Len(u.votes) = 0 /\ Len(t.votes) >= 1
      BY <2>3, <1>4, SeqEmpty, SMTT(60)
    <3>2. Len(t.votes) \in 1 .. (k - 1)
      BY <3>1, <1>3, <1>4, SMTT(60)
    <3>3. OnFork(anc, t.last_vote, u.root_slot)
      BY <3>2, <2>3, <1>1, <1>3, StackOrder, Zenon
    <3>4. QED
      BY <3>3, <1>1, <1>2, ForkOrder, Zenon
  <2>4. QED
    BY <2>1, <2>2, <2>3, SMTT(60)
<1>9. Remembers(anc, u, p)
  <2>1. ASSUME NEW i \in 1 .. Len(t.votes), t.votes[i].slot = v,
               LastLockedOutSlot(t.votes[i]) >= e
        PROVE  Remembers(anc, u, p)
    <3>1. CASE i < k
      <4>1. i \in 1 .. (k - 1)
        BY <3>1
      <4>2. QED
        BY <4>1, <2>1, <1>2, <1>3, Zenon DEF Remembers
    <3>2. CASE i >= k
      <4> DEFINE j == i - k + 1
      <4>1. j \in 1 .. (Len(t.votes) - k + 1) /\ j + k - 1 = i
        BY <3>2, <1>4
      <4>2. j \in 1 .. Len(u.votes) /\ u.votes[j] = t.votes[i]
        BY <4>1, <1>3, Zenon
      <4>3. QED
        BY <4>2, <2>1, Zenon DEF Remembers
    <3>3. QED
      BY <3>1, <3>2, <1>4, SMTT(60)
  <2>2. CASE OnFork(anc, v, t.root_slot)
    <3>1. OnFork(anc, v, u.root_slot)
      BY <2>2, <1>1, <1>2, ForkTransitive, Zenon
    <3>2. QED
      BY <3>1, <1>2, Zenon DEF Remembers
  <2>3. CASE e < t.last_vote
    <3>1. e < u.last_vote \/ e < u.root_slot
      BY <2>3, <1>4, <1>5, <1>7, <1>8, SMTT(60)
    <3>2. QED
      BY <3>1 DEF Remembers
  <2>4. CASE e < t.root_slot
    <3>1. e < u.root_slot
      BY <2>4, <1>5, <1>7
    <3>2. QED
      BY <3>1, Zenon DEF Remembers
  <2>5. QED
    BY <2>1, <2>2, <2>3, <2>4, <1>6, Zenon DEF Remembers
<1>10. v <= u.last_vote \/ v <= u.root_slot
  <2>1. v <= t.last_vote \/ v <= t.root_slot
    BY <1>6, Zenon DEF AgreesWith
  <2>2. QED
    BY <2>1, <1>4, <1>5, <1>7, <1>8, SMTT(60)
<1>11. AgreesWith(anc, u, p)
  BY <1>3, <1>6, <1>10, Zenon DEF AgreesWith
<1>12. QED
  BY <1>9, <1>11
=============================================================================
