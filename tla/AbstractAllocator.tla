-------------------------- MODULE AbstractAllocator --------------------------
(***************************************************************************)
(* What an allocator over HEAP_SIZE bytes promises its caller: every       *)
(* pointer it grants is aligned and starts a range of bytes inside the     *)
(* heap that overlaps no range still owned, and a caller that has given    *)
(* everything back can get any size that fits in an empty heap.            *)
(***************************************************************************)
EXTENDS Integers

CONSTANTS HEAP_SIZE,  \* bytes managed
          HDR,        \* bytes of bookkeeping per grant
          ALIGN,      \* alignment of the granted pointers
          Sizes,      \* the sizes asked for
          NULL        \* the pointer of a refused request

VARIABLES owned,      \* granted and not released: pointer -> size asked for
          asked,      \* the size of the current request, or of the last one
          status,     \* "free" between calls, "request" and "release" in one
          ret         \* the pointer the last request returned

vars == <<owned, asked, status, ret>>

\* p .. p + n - 1 and q .. q + m - 1 share no byte, and p and q differ.
Apart(p, n, q, m) == p # q /\ (p + n <= q \/ q + m <= p)

Init == /\ owned = [p \in {} |-> 0]
        /\ asked = 0
        /\ status = "free"
        /\ ret = NULL

Request == /\ status = "free"
           /\ status' = "request"
           /\ asked' \in Sizes
           /\ UNCHANGED <<owned, ret>>

Grant == /\ status = "request"
         /\ ret' \in 0 .. HEAP_SIZE
         /\ ret' % ALIGN = 0
         /\ ret' + asked <= HEAP_SIZE
         /\ \A p \in DOMAIN owned : Apart(p, owned[p], ret', asked)
         /\ owned' = [p \in DOMAIN owned \cup {ret'} |->
                        IF p = ret' THEN asked ELSE owned[p]]
         /\ status' = "free"
         /\ UNCHANGED asked

Refuse == /\ status = "request"
          /\ DOMAIN owned # {} \/ asked > HEAP_SIZE - HDR
          /\ ret' = NULL
          /\ status' = "free"
          /\ UNCHANGED <<owned, asked>>

Release == /\ status = "free"
           /\ \E p \in DOMAIN owned :
                owned' = [r \in DOMAIN owned \ {p} |-> owned[r]]
           /\ status' = "release"
           /\ UNCHANGED <<asked, ret>>

Released == /\ status = "release"
            /\ status' = "free"
            /\ UNCHANGED <<owned, asked, ret>>

Next == Request \/ Grant \/ Refuse \/ Release \/ Released

Spec == Init /\ [][Next]_vars
=============================================================================
