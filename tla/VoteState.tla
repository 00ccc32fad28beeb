------------------------------ MODULE VoteState ------------------------------
(***************************************************************************)
(* The lockout stack of a vote account, as operators.  The vote program    *)
(* keeps one per account on chain; the validator's Tower keeps one of its  *)
(* own.  A stack is a sequence of lockouts, oldest first; None, below      *)
(* every slot, stands for an absent slot (Option<Slot>).                   *)
(***************************************************************************)
EXTENDS Integers, Sequences

CONSTANT MAX_LOCKOUT_HISTORY    \* 31 in the code

ASSUME MaxLockoutHistoryAssumption == MAX_LOCKOUT_HISTORY \in Nat \ {0}

INITIAL_LOCKOUT == 2

(* A lockout is a positive number of slots and doubles with every further  *)
(* confirmation, up to the deepest a stack can give a vote.                *)
ASSUME LockoutDoublesAssumption ==
  \A c \in 0 .. MAX_LOCKOUT_HISTORY :
    /\ INITIAL_LOCKOUT ^ c \in Nat \ {0}
    /\ INITIAL_LOCKOUT ^ (c + 1) = 2 * INITIAL_LOCKOUT ^ c

None == -1

NewLockout(slot) == [slot |-> slot, confirmation_count |-> 1]

LastLockedOutSlot(v) == v.slot + INITIAL_LOCKOUT ^ v.confirmation_count

IsLockedOutAtSlot(v, slot) == LastLockedOutSlot(v) >= slot

LastVotedSlot(votes) ==
  IF votes = <<>> THEN None ELSE votes[Len(votes)].slot

VotedSlots(votes) == {votes[i].slot : i \in 1 .. Len(votes)}

(* How many of the oldest votes survive pop_expired_votes: votes are popped *)
(* from the newest end up to the first one still locked out at the slot.   *)
Unexpired(votes, slot) ==
  CHOOSE k \in 0 .. Len(votes) :
    /\ k > 0 => IsLockedOutAtSlot(votes[k], slot)
    /\ \A j \in (k + 1) .. Len(votes) : ~IsLockedOutAtSlot(votes[j], slot)

PopExpiredVotes(votes, slot) == SubSeq(votes, 1, Unexpired(votes, slot))

DoubleLockouts(votes) ==
  [i \in 1 .. Len(votes) |->
     IF Len(votes) > (i - 1) + votes[i].confirmation_count
     THEN [slot |-> votes[i].slot,
           confirmation_count |-> votes[i].confirmation_count + 1]
     ELSE votes[i]]

IsRecent(votes, slot) == slot > LastVotedSlot(votes)

(* Mutant: the stack is let to grow by one more vote. *)
MakesRootLate(votes, slot) ==
  /\ IsRecent(votes, slot)
  /\ Unexpired(votes, slot) = MAX_LOCKOUT_HISTORY + 1

(* The vote for slot makes the oldest vote the root. *)
MakesRoot(votes, slot) ==
  /\ IsRecent(votes, slot)
  /\ Unexpired(votes, slot) = MAX_LOCKOUT_HISTORY

(* process_next_vote_slot: its effect on the stack ... *)
NextVotes(votes, slot) ==
  IF ~IsRecent(votes, slot)
  THEN votes
  ELSE LET kept == PopExpiredVotes(votes, slot)
           room == IF MakesRoot(votes, slot) THEN Tail(kept) ELSE kept
       IN  DoubleLockouts(Append(room, NewLockout(slot)))

(* ... and on the root. *)
NextRoot(votes, root_slot, slot) ==
  IF MakesRoot(votes, slot) THEN votes[1].slot ELSE root_slot
=============================================================================
