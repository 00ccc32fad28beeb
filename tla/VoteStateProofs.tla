-------------------------- MODULE VoteStateProofs --------------------------
(***************************************************************************)
(* What pop_expired_votes, double_lockouts and process_next_vote_slot do   *)
(* to a lockout stack, for every stack and every slot.                     *)
(***************************************************************************)
EXTENDS VoteState, WellFoundedInduction, TLAPS

LEMMA LeastNatural ==
  ASSUME NEW S \in SUBSET Nat, S # {}
  PROVE  \E m \in S : \A n \in S : m <= n
<1>1. \E m \in S : \A n \in S : <<n, m>> \notin OpToRel(<, Nat)
  BY NatLessThanWellFounded, WFMin, Zenon
<1>2. ASSUME NEW m \in S, NEW n \in S, n < m
      PROVE  <<n, m>> \in OpToRel(<, Nat)
  <2>1. <<n, m>> \in Nat \X Nat /\ <<n, m>>[1] < <<n, m>>[2]
    BY <1>2
  <2>2. QED
    BY <2>1, Zenon DEF OpToRel
<1>3. \A m, n \in S : ~(n < m) => m <= n
  OBVIOUS
<1>4. QED
  BY <1>1, <1>2, <1>3, Zenon

(* pop_expired_votes stops at the newest vote still locked out at the slot: *)
(* every vote above it is expired.                                         *)
LEMMA UnexpiredProperty ==
  ASSUME NEW T, NEW votes \in Seq(T), NEW slot
  PROVE  /\ Unexpired(votes, slot) \in 0 .. Len(votes)
         /\ Unexpired(votes, slot) > 0 =>
              IsLockedOutAtSlot(votes[Unexpired(votes, slot)], slot)
         /\ \A j \in (Unexpired(votes, slot) + 1) .. Len(votes) :
              ~IsLockedOutAtSlot(votes[j], slot)
<1> DEFINE Stops(k) == /\ k > 0 => IsLockedOutAtSlot(votes[k], slot)
                       /\ \A j \in (k + 1) .. Len(votes) :
                            ~IsLockedOutAtSlot(votes[j], slot)
           Tops == {n \in 0 .. Len(votes) :
                      n = Len(votes) \/ IsLockedOutAtSlot(votes[Len(votes) - n], slot)}
<1>1. Len(votes) \in Nat
  OBVIOUS
<1>2. PICK n \in Tops : \A o \in Tops : n <= o
  <2>1. Tops \in SUBSET Nat /\ Len(votes) \in Tops
    BY <1>1
  <2>2. QED
    BY <2>1, LeastNatural, Zenon
<1>3. Len(votes) - n \in 0 .. Len(votes) /\ Stops(Len(votes) - n)
  <2>1. Len(votes) - n \in 0 .. Len(votes)
    BY <1>1, <1>2
  <2>2. Len(votes) - n > 0 => IsLockedOutAtSlot(votes[Len(votes) - n], slot)
    BY <1>1, <1>2
  <2>3. ASSUME NEW j \in (Len(votes) - n + 1) .. Len(votes),
               IsLockedOutAtSlot(votes[j], slot)
        PROVE  FALSE
    <3>1. Len(votes) - j \in 0 .. Len(votes) /\ Len(votes) - (Len(votes) - j) = j
      BY <1>1, <1>2
    <3>2. Len(votes) - j \in Tops
      BY <3>1, <2>3
    <3>3. QED
      BY <3>2, <1>1, <1>2
  <2>4. QED
    BY <2>1, <2>2, <2>3
<1>4. Unexpired(votes, slot) = CHOOSE k \in 0 .. Len(votes) : Stops(k)
  BY DEF Unexpired
<1>5. Unexpired(votes, slot) \in 0 .. Len(votes) /\ Stops(Unexpired(votes, slot))
  <2> HIDE DEF Stops
  <2> QED
    BY <1>3, <1>4
<1>6. QED
  BY <1>5

(* A vote that is still locked out at the slot is not popped. *)
LEMMA LockedVoteIsKept ==
  ASSUME NEW T, NEW votes \in Seq(T), NEW slot,
         NEW i \in 1 .. Len(votes), IsLockedOutAtSlot(votes[i], slot)
  PROVE  i <= Unexpired(votes, slot)
  BY UnexpiredProperty

(* A lockout ends at a slot after its own, and one more confirmation only   *)
(* extends it.                                                             *)
LEMMA LockoutGrows ==
  ASSUME NEW v \in [slot : Nat, confirmation_count : Nat],
         NEW w \in [slot : Nat, confirmation_count : Nat],
         v.confirmation_count <= MAX_LOCKOUT_HISTORY,
         v.slot = w.slot,
         \/ w.confirmation_count = v.confirmation_count
         \/ w.confirmation_count = v.confirmation_count + 1
  PROVE  /\ LastLockedOutSlot(v) \in Nat /\ LastLockedOutSlot(v) > v.slot
         /\ LastLockedOutSlot(w) \in Nat
         /\ LastLockedOutSlot(v) <= LastLockedOutSlot(w)
<1> DEFINE c == v.confirmation_count
<1>1. c \in 0 .. MAX_LOCKOUT_HISTORY
  BY MaxLockoutHistoryAssumption
<1>2. /\ INITIAL_LOCKOUT ^ c \in Nat \ {0}
      /\ INITIAL_LOCKOUT ^ (c + 1) = 2 * INITIAL_LOCKOUT ^ c
  BY <1>1, LockoutDoublesAssumption
<1>3. \/ LastLockedOutSlot(w) = v.slot + INITIAL_LOCKOUT ^ c
      \/ LastLockedOutSlot(w) = v.slot + INITIAL_LOCKOUT ^ (c + 1)
  BY DEF LastLockedOutSlot
<1>4. LastLockedOutSlot(v) = v.slot + INITIAL_LOCKOUT ^ c
  BY DEF LastLockedOutSlot
<1> HIDE DEF c
<1>5. QED
  BY <1>2, <1>3, <1>4

(* The number of votes that leave the stack at its bottom end. *)
Rooted(votes, slot) == IF MakesRoot(votes, slot) THEN 1 ELSE 0

(* process_next_vote_slot keeps the unexpired votes in their order, less    *)
(* the one that becomes the root, with lockouts that only grow and at most *)
(* double, and adds the new vote.                                          *)
LEMMA NextVotesProperty ==
  ASSUME NEW S \in SUBSET Nat,
         NEW votes \in Seq([slot : S, confirmation_count : Nat \ {0}]),
         NEW slot \in S, IsRecent(votes, slot)
  PROVE  LET next == NextVotes(votes, slot)
             d == Rooted(votes, slot)
             n == Unexpired(votes, slot) - d + 1
         IN  /\ next \in Seq([slot : S, confirmation_count : Nat \ {0}])
             /\ n \in Nat \ {0} /\ Len(next) = n
             /\ next[n] = NewLockout(slot)
             /\ \A i \in 1 .. (n - 1) :
                  /\ i + d \in 1 .. Len(votes)
                  /\ next[i].slot = votes[i + d].slot
                  /\ \/ next[i].confirmation_count = votes[i + d].confirmation_count
                     \/ /\ next[i].confirmation_count
                              = votes[i + d].confirmation_count + 1
                        /\ votes[i + d].confirmation_count < n
<1> DEFINE V == [slot : S, confirmation_count : Nat \ {0}]
           kept == PopExpiredVotes(votes, slot)
           room == IF MakesRoot(votes, slot) THEN Tail(kept) ELSE kept
           full == Append(room, NewLockout(slot))
           d == Rooted(votes, slot)
           u == Unexpired(votes, slot)
           n == u - d + 1
<1>1. u \in 0 .. Len(votes) /\ Len(votes) \in Nat
  BY UnexpiredProperty
<1>2. d \in {0, 1} /\ (d = 1 => u > 0)
  BY MaxLockoutHistoryAssumption DEF Rooted, MakesRoot
<1>3. kept \in Seq(V) /\ Len(kept) = u /\ \A i \in 1 .. u : kept[i] = votes[i]
  <2>1. votes \in Seq(V)
    OBVIOUS
  <2> HIDE DEF V
  <2>2. QED
    BY <1>1, <2>1 DEF PopExpiredVotes
<1>4. room \in Seq(V) /\ Len(room) = u - d /\ \A i \in 1 .. (u - d) : room[i] = votes[i + d]
  <2> HIDE DEF V, kept
  <2>1. CASE MakesRoot(votes, slot)
    <3>1. d = 1 /\ u > 0 /\ room = Tail(kept)
      BY <2>1, <1>2 DEF Rooted
    <3>2. QED
      BY <3>1, <1>1, <1>3
  <2>2. CASE ~MakesRoot(votes, slot)
    BY <2>2, <1>1, <1>3 DEF Rooted
  <2>3. QED
    BY <2>1, <2>2
<1>5. NewLockout(slot) \in V
  BY DEF NewLockout
<1>6. /\ full \in Seq(V) /\ Len(full) = n /\ full[n] = NewLockout(slot)
      /\ \A i \in 1 .. (n - 1) : full[i] = votes[i + d]
  <2> HIDE DEF V, room
  <2> QED
    BY <1>1, <1>2, <1>4, <1>5
<1>7. NextVotes(votes, slot) = DoubleLockouts(full)
  BY DEF NextVotes
<1>8. n \in Nat \ {0}
  BY <1>1, <1>2
<1>9. DoubleLockouts(full) = [i \in 1 .. n |->
        IF n > (i - 1) + full[i].confirmation_count
        THEN [slot |-> full[i].slot, confirmation_count |-> full[i].confirmation_count + 1]
        ELSE full[i]]
  <2> HIDE DEF full, n
  <2> QED
    BY <1>6 DEF DoubleLockouts
<1>10. \A i \in 1 .. n : full[i] \in V
  <2> HIDE DEF full, n, V
  <2> QED
    BY <1>6, <1>8
<1> HIDE DEF full, n, d, u
<1>11. DoubleLockouts(full) \in Seq(V) /\ Len(DoubleLockouts(full)) = n
  <2>1. DoubleLockouts(full) \in [1 .. n -> V]
    BY <1>8, <1>9, <1>10
  <2> HIDE DEF V
  <2>2. QED
    BY <2>1, <1>8
<1>12. DoubleLockouts(full)[n] = NewLockout(slot)
  BY <1>6, <1>8, <1>9 DEF NewLockout
<1>13. ASSUME NEW i \in 1 .. (n - 1)
       PROVE  /\ i + d \in 1 .. Len(votes)
              /\ DoubleLockouts(full)[i].slot = votes[i + d].slot
              /\ \/ DoubleLockouts(full)[i].confirmation_count = votes[i + d].confirmation_count
                 \/ /\ DoubleLockouts(full)[i].confirmation_count
                          = votes[i + d].confirmation_count + 1
                    /\ votes[i + d].confirmation_count < n
  <2>1. i \in 1 .. n /\ full[i] = votes[i + d] /\ full[i] \in V
    BY <1>6, <1>8, <1>10
  <2>2. i + d \in 1 .. Len(votes)
    BY <1>1, <1>2 DEF n
  <2>3. DoubleLockouts(full)[i] =
          IF n > (i - 1) + votes[i + d].confirmation_count
          THEN [slot |-> votes[i + d].slot,
                confirmation_count |-> votes[i + d].confirmation_count + 1]
          ELSE votes[i + d]
    BY <2>1, <1>9
  <2>4. votes[i + d].confirmation_count \in Nat
    BY <2>1
  <2>5. n > (i - 1) + votes[i + d].confirmation_count => votes[i + d].confirmation_count < n
    BY <2>1, <2>4, <1>8
  <2>6. QED
    BY <2>2, <2>3, <2>5
<1>14. QED
  BY <1>7, <1>8, <1>11, <1>12, <1>13 DEF d, u, n
=============================================================================
