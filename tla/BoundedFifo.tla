---------------------------- MODULE BoundedFifo ----------------------------
(***************************************************************************)
(* What a single-producer single-consumer sample buffer promises to its    *)
(* two users: a first-in first-out queue of at most Capacity samples.  A   *)
(* push is refused only when the queue is full, a pop finds nothing only   *)
(* when the queue is empty, and what a pop hands out is the oldest sample. *)
(* Calls and their results are separate steps, because the two users are   *)
(* concurrent: the queue changes at one instant between call and return.   *)
(***************************************************************************)
EXTENDS Naturals, Sequences

CONSTANTS Sample,      \* the values a sample may have
          Capacity     \* how many samples the queue can hold

VARIABLES q,           \* the queued samples, oldest first
          arg,         \* the sample of the current push
          pushRes,     \* "pending" during a push, else how the last one ended
          popRes,      \* "pending" during a pop, else how the last one ended
          out          \* the consumer's cell a pop writes the sample to

vars == <<q, arg, pushRes, popRes, out>>

Init == /\ q = <<>>
        /\ arg \in Sample
        /\ out \in Sample
        /\ pushRes = "none"
        /\ popRes = "none"

PushCall == /\ pushRes # "pending"
            /\ pushRes' = "pending"
            /\ arg' \in Sample
            /\ UNCHANGED <<q, popRes, out>>

Accept == /\ pushRes = "pending"
          /\ Len(q) < Capacity
          /\ q' = Append(q, arg)
          /\ pushRes' = "accepted"
          /\ UNCHANGED <<arg, popRes, out>>

Refuse == /\ pushRes = "pending"
          /\ Len(q) = Capacity
          /\ pushRes' = "full"
          /\ UNCHANGED <<q, arg, popRes, out>>

PopCall == /\ popRes # "pending"
           /\ popRes' = "pending"
           /\ UNCHANGED <<q, arg, pushRes, out>>

\* The oldest sample is copied to the consumer's cell before it is removed.
Copy == /\ popRes = "pending"
        /\ q # <<>>
        /\ out' = Head(q)
        /\ UNCHANGED <<q, arg, pushRes, popRes>>

Remove == /\ popRes = "pending"
          /\ q # <<>>
          /\ out = Head(q)
          /\ q' = Tail(q)
          /\ popRes' = "taken"
          /\ UNCHANGED <<arg, pushRes, out>>

Nothing == /\ popRes = "pending"
           /\ q = <<>>
           /\ popRes' = "empty"
           /\ UNCHANGED <<q, arg, pushRes, out>>

Next == PushCall \/ Accept \/ Refuse \/ PopCall \/ Copy \/ Remove \/ Nothing

Spec == Init /\ [][Next]_vars
=============================================================================
