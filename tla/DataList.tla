------------------------------ MODULE DataList ------------------------------
(***************************************************************************)
(* What the caller of the linked list relies on: a sequence, pushed at the *)
(* front, from which the first element equal to the one given is found or  *)
(* removed.  A push may be lost for want of memory, without a word.        *)
(***************************************************************************)
EXTENDS Integers, Sequences, SequencesExt

CONSTANTS Data, NULL

VARIABLES seq,       \* the elements, the newest first
          size,      \* how many the list says there are
          op,        \* the operation in progress, "idle" between two
          data, ret

Init == seq = << >> /\ size = 0 /\ op = "idle"

Ask == /\ op = "idle"
       /\ op' \in {"push", "remove", "find", "destroy"}
       /\ data' \in Data /\ ret' = NULL
       /\ size' = size
       /\ seq' = IF op' = "destroy" THEN << >> ELSE seq

Becomes(s) == seq' = s /\ size' = Len(s)

Reply ==
  /\ op' = "idle" /\ data' = data
  /\ \/ op = "push" /\ (Becomes(<<data>> \o seq) \/ Becomes(seq)) /\ ret' = ret
     \/ /\ op = "remove" /\ Becomes(RemoveFirst(seq, data))
        /\ ret' = Contains(seq, data)
     \/ /\ op = "find" /\ Becomes(seq)
        /\ ret' = IF Contains(seq, data) THEN data ELSE NULL
     \/ op = "destroy" /\ Becomes(<< >>) /\ ret' = ret

Spec == Init /\ [][Ask \/ Reply]_<<seq, size, op, data, ret>>
=============================================================================
