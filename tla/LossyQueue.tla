------------------------------ MODULE LossyQueue ------------------------------
(***************************************************************************)
(* What a reader of events may rely on: a first-in first-out queue that     *)
(* loses an entry only for want of room, one for each arrival, and counts   *)
(* it.  Entries are numbered as they arrive.                                *)
(***************************************************************************)
EXTENDS Subsequences, SequencesExt

VARIABLES
  pending,  \* the numbers of the entries in the queue, oldest first
  cap,      \* the room there is
  lost,     \* entries counted as lost
  arrived,  \* entries that arrived
  newest    \* the newest entry read

vars == <<pending, cap, lost, arrived, newest>>

Init ==
  /\ pending = <<>>
  /\ cap \in Nat
  /\ lost = 0
  /\ arrived = 0
  /\ newest = 0

(* There is room for an entry, or it is let in without room by a queue that *)
(* has none at all.                                                         *)
Keep ==
  /\ Len(pending) < cap \/ cap + Len(pending) = 0
  /\ arrived' = arrived + 1
  /\ pending' = Append(pending, arrived + 1)
  /\ UNCHANGED <<cap, lost, newest>>

(* There is none: the newcomer is lost, or takes the room of another.       *)
Lose ==
  /\ Len(pending) >= cap
  /\ arrived' = arrived + 1
  /\ lost' = lost + 1
  /\ \/ UNCHANGED pending
     \/ \E i \in DOMAIN pending :
          pending' = Append(RemoveAt(pending, i), arrived + 1)
  /\ UNCHANGED <<cap, newest>>

Read ==
  /\ pending # <<>>
  /\ newest' = Head(pending)
  /\ pending' = Tail(pending)
  /\ UNCHANGED <<cap, lost, arrived>>

(* The reader throws away some of what is pending.                          *)
Discard ==
  /\ \E S \in SUBSET DOMAIN pending : pending' = Kept(pending, S)
  /\ UNCHANGED <<cap, lost, arrived, newest>>

Resize == cap' \in Nat /\ UNCHANGED <<pending, lost, arrived, newest>>

Next == Keep \/ Lose \/ Read \/ Discard \/ Resize

Spec == Init /\ [][Next]_vars

=============================================================================
