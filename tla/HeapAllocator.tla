---------------------------- MODULE HeapAllocator ----------------------------
(***************************************************************************)
(* heap_allocator.c: a first-fit allocator over a static array.  The heap  *)
(* is a list of blocks, each a header of HDR bytes followed by its         *)
(* payload.  An address is an offset into the array.  A call of my_malloc  *)
(* or my_free is a first step, one step per turn of its list walk, and a   *)
(* last step; the caller may ask for any size and free only what it owns.  *)
(***************************************************************************)
EXTENDS Integers

CONSTANTS HEAP_SIZE,   \* bytes of heap[]
          HDR,         \* sizeof(block_header_t)
          Sizes        \* the sizes the program asks for

ALIGN == 8
NULL == -1
free_list == 0         \* set by heap_init, never moved

ASSUME HeapAssumption ==
  /\ HDR \in Nat /\ HDR % ALIGN = 0 /\ HDR > 0
  /\ HEAP_SIZE \in Nat /\ HEAP_SIZE % ALIGN = 0 /\ HEAP_SIZE >= HDR
  /\ Sizes \subseteq Nat

VARIABLES hdr,      \* the headers in memory: address -> [size, free, next]
          pc,       \* "idle", "malloc" or "free": the walk in progress
          current,  \* block the walk is at
          prev,     \* block before it (my_free)
          block,    \* block being freed (my_free)
          req,      \* my_malloc's argument
          ret,      \* what the last my_malloc returned
          owned     \* the caller's pointers: payload address -> size asked for

vars == <<hdr, pc, current, prev, block, req, ret, owned>>

Blocks == DOMAIN hdr
\* Slip: the mask clears the low bits without rounding up first.
RoundDown(n) == (n \div ALIGN) * ALIGN
\* (size + 7) & ~7
RoundUp(n) == ((n + ALIGN - 1) \div ALIGN) * ALIGN
\* Slip: the size of the block is not looked at.
FitsAnySize(b) == hdr[b].free
Fits(b) == hdr[b].free /\ hdr[b].size >= req

\* heap_init
Init == /\ hdr = [a \in {free_list} |->
                    [size |-> HEAP_SIZE - HDR, free |-> TRUE, next |-> NULL]]
        /\ pc = "idle"
        /\ current = NULL /\ prev = NULL /\ block = NULL
        /\ req = 0 /\ ret = NULL
        /\ owned = [p \in {} |-> 0]

\* A call returns: its local variables are gone.
Leave == /\ pc' = "idle"
         /\ current' = NULL /\ prev' = NULL /\ block' = NULL

-----------------------------------------------------------------------------
(* my_malloc                                                               *)

MallocCall == /\ pc = "idle"
              /\ pc' = "malloc"
              /\ req' \in Sizes
              /\ current' = free_list
              /\ UNCHANGED <<hdr, prev, block, ret, owned>>

\* Slip: a block is skipped unless it is larger than the request.
MallocStrictWalk == /\ pc = "malloc"
                    /\ current # NULL
                    /\ ~(hdr[current].free /\ hdr[current].size > req)
                    /\ current' = hdr[current].next
                    /\ UNCHANGED <<hdr, pc, prev, block, req, ret, owned>>

MallocWalk == /\ pc = "malloc"
              /\ current # NULL
              /\ ~Fits(current)
              /\ current' = hdr[current].next
              /\ UNCHANGED <<hdr, pc, prev, block, req, ret, owned>>

MallocFail == /\ pc = "malloc"
              /\ current = NULL
              /\ ret' = NULL
              /\ Leave
              /\ UNCHANGED <<hdr, req, owned>>

Leftover == hdr[current].size - RoundUp(req)
CanSplit == Leftover > HDR + 16

\* The caller receives the payload address of current.
Return == /\ ret' = current + HDR
          /\ owned' = [p \in DOMAIN owned \cup {current + HDR} |->
                         IF p = current + HDR THEN req ELSE owned[p]]
          /\ Leave
          /\ UNCHANGED req

\* Slip: the block split off takes the header's bytes twice over.
RestTooLarge ==
  [size |-> Leftover, free |-> TRUE, next |-> hdr[current].next]

\* The header of the block split off, which takes over current's successor.
Rest == [size |-> Leftover - HDR, free |-> TRUE, next |-> hdr[current].next]

MallocSplit ==
  /\ pc = "malloc"
  /\ current # NULL
  /\ Fits(current)
  /\ CanSplit
  /\ LET new_block == current + HDR + RoundUp(req)
     IN hdr' = [a \in Blocks \cup {new_block} |->
                  CASE a = new_block -> Rest
                    [] a = current -> [size |-> RoundUp(req), free |-> FALSE,
                                       next |-> new_block]
                    [] OTHER -> hdr[a]]
  /\ Return

MallocWhole == /\ pc = "malloc"
               /\ current # NULL
               /\ Fits(current)
               /\ ~CanSplit
               /\ hdr' = [hdr EXCEPT ![current].free = FALSE]
               /\ Return

-----------------------------------------------------------------------------
(* my_free                                                                 *)

\* Block a takes in block b, which follows it: b's header is no longer one.
Absorb(h, a, b) ==
  [c \in DOMAIN h \ {b} |->
     IF c = a THEN [size |-> h[a].size + HDR + h[b].size, free |-> TRUE,
                    next |-> h[b].next]
              ELSE h[c]]

NextIsFree(b) == hdr[b].next # NULL /\ hdr[hdr[b].next].free

\* Slip: the block freed is not merged with the one after it.
FreeCallAlone(p) ==
  LET b == p - HDR
  IN /\ pc = "idle"
     /\ hdr' = [hdr EXCEPT ![b].free = TRUE]
     /\ owned' = [r \in DOMAIN owned \ {p} |-> owned[r]]
     /\ block' = b /\ prev' = NULL /\ current' = free_list
     /\ pc' = "free"
     /\ UNCHANGED <<req, ret>>

\* The block is marked free and merged with the one after it; the walk starts.
FreeCall(p) ==
  LET b == p - HDR
  IN /\ pc = "idle"
     /\ hdr' = IF NextIsFree(b) THEN Absorb(hdr, b, hdr[b].next)
                                ELSE [hdr EXCEPT ![b].free = TRUE]
     /\ owned' = [r \in DOMAIN owned \ {p} |-> owned[r]]
     /\ block' = b /\ prev' = NULL /\ current' = free_list
     /\ pc' = "free"
     /\ UNCHANGED <<req, ret>>

\* Slip: the walk forgets to move on.
FreeWalkStuck == /\ pc = "free"
                 /\ current # NULL /\ current # block
                 /\ prev' = current
                 /\ UNCHANGED <<hdr, pc, current, block, req, ret, owned>>

FreeWalk == /\ pc = "free"
            /\ current # NULL /\ current # block
            /\ prev' = current
            /\ current' = hdr[current].next
            /\ UNCHANGED <<hdr, pc, block, req, ret, owned>>

Walked == pc = "free" /\ (current = NULL \/ current = block)
PrevIsFree == prev # NULL /\ hdr[prev].free

FreeMerge == /\ Walked
             /\ PrevIsFree
             /\ hdr' = Absorb(hdr, prev, block)
             /\ Leave
             /\ UNCHANGED <<req, ret, owned>>

FreeKeep == /\ Walked
            /\ ~PrevIsFree
            /\ Leave
            /\ UNCHANGED <<hdr, req, ret, owned>>

-----------------------------------------------------------------------------
\* The rest of a call once it is made.
Step == \/ MallocWalk \/ MallocFail \/ MallocSplit \/ MallocWhole
        \/ FreeWalk \/ FreeMerge \/ FreeKeep
Next == MallocCall \/ (\E p \in DOMAIN owned : FreeCall(p)) \/ Step

Spec == Init /\ [][Next]_vars
\* A call that is running keeps running; the program need not call again.
FairSpec == Spec /\ WF_vars(Step)

-----------------------------------------------------------------------------
Addresses == 0 .. HEAP_SIZE - HDR
Headers == [size : 0 .. HEAP_SIZE - HDR, free : BOOLEAN,
            next : Addresses \cup {NULL}]

TypeOK == /\ Blocks \subseteq Addresses
          /\ hdr \in [Blocks -> Headers]
          /\ pc \in {"idle", "malloc", "free"}
          /\ current \in Addresses \cup {NULL}
          /\ prev \in Addresses \cup {NULL}
          /\ block \in Addresses \cup {NULL}
          /\ req \in Nat
          /\ ret \in 0 .. HEAP_SIZE \cup {NULL}
          /\ DOMAIN owned \subseteq 0 .. HEAP_SIZE
          /\ owned \in [DOMAIN owned -> Nat]

EndOf(b) == b + HDR + hdr[b].size

\* The blocks of the list cover the heap from its first byte to its last
\* without a gap or an overlap, each linked to the one that starts where it
\* ends, after any splits and merges (lines 44-51, 67-70 and 82-85).
Tiling == /\ free_list \in Blocks
          /\ \A b \in Blocks :
               /\ b % ALIGN = 0 /\ hdr[b].size % ALIGN = 0
               /\ hdr[b].next = IF EndOf(b) = HEAP_SIZE THEN NULL ELSE EndOf(b)
               /\ hdr[b].next # NULL => hdr[b].next \in Blocks
          /\ \A a, b \in Blocks : a < b => EndOf(a) <= b

\* Between calls no two neighbours are both free: my_free merged whatever it
\* could, on both sides, whatever the order of the frees.
Coalesced ==
  pc = "idle" => \A b \in Blocks : ~(hdr[b].free /\ NextIsFree(b))

\* The caller's pointers are the payloads of exactly the blocks in use, and
\* each payload holds at least the bytes asked for: what the caller writes
\* reaches neither a header nor another payload.
OwnedInUse ==
  /\ DOMAIN owned = {b + HDR : b \in {a \in Blocks : ~hdr[a].free}}
  /\ \A p \in DOMAIN owned : owned[p] <= hdr[p - HDR].size

\* leftover, an unsigned difference, never wraps: a block that holds the
\* request also holds it rounded up to 8 (lines 38-41).
NoUnderflow == pc = "malloc" /\ current # NULL /\ Fits(current)
                 => RoundUp(req) <= hdr[current].size

\* When everything is given back the heap is one free block again, as
\* heap_init made it: no sequence of calls fragments it for good.
Reclaimed == pc = "idle" /\ DOMAIN owned = {}
               => hdr = [a \in {free_list} |-> [size |-> HEAP_SIZE - HDR,
                                                free |-> TRUE, next |-> NULL]]

\* my_malloc gives up only after every block there is was seen not to fit.
FailsOnlyWhenNothingFits ==
  [][MallocFail => \A b \in Blocks : ~Fits(b)]_vars

\* Every call returns: neither list walk runs for ever.
Returns == pc # "idle" ~> pc = "idle"

Allocator == INSTANCE AbstractAllocator
               WITH asked <- req,
                    status <- CASE pc = "idle" -> "free"
                                [] pc = "malloc" -> "request"
                                [] pc = "free" -> "release"
\* The list of blocks implements the allocator the caller sees.
AllocatorSpec == Allocator!Spec
=============================================================================
