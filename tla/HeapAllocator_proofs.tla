------------------------ MODULE HeapAllocator_proofs ------------------------
(***************************************************************************)
(* Proofs about HeapAllocator for every heap size, header size and set of  *)
(* request sizes the assumption allows: the block list always tiles the    *)
(* heap, neighbours that are both free are merged, and the caller sees an  *)
(* allocator.                                                              *)
(***************************************************************************)
EXTENDS HeapAllocator, TLAPS

-----------------------------------------------------------------------------
(* Arithmetic of the alignment.                                            *)

\* Sums and differences of multiples of 8 are multiples of 8.
LEMMA Aligned ==
  \A a, b \in Int : a % ALIGN = 0 /\ b % ALIGN = 0
                     => (a + b) % ALIGN = 0 /\ (a - b) % ALIGN = 0
BY DEF ALIGN

\* The rounding of my_malloc (lines 38-40): up, to a multiple of 8, and not
\* beyond a multiple of 8 that holds the request.
LEMMA RoundUpIs ==
  ASSUME NEW n \in Nat
  PROVE  /\ RoundUp(n) \in Nat /\ n <= RoundUp(n) /\ RoundUp(n) % ALIGN = 0
         /\ \A s \in Nat : s % ALIGN = 0 /\ n <= s => RoundUp(n) <= s
BY DEF RoundUp, ALIGN

-----------------------------------------------------------------------------
(* A list of blocks that tiles the heap, and the three ways it changes.    *)

End(h, b) == b + HDR + h[b].size

List(h) ==
  /\ DOMAIN h \subseteq Addresses
  /\ h \in [DOMAIN h -> Headers]
  /\ free_list \in DOMAIN h
  /\ \A b \in DOMAIN h :
       /\ b % ALIGN = 0 /\ h[b].size % ALIGN = 0
       /\ h[b].next = IF End(h, b) = HEAP_SIZE THEN NULL ELSE End(h, b)
       /\ h[b].next # NULL => h[b].next \in DOMAIN h
  /\ \A a, b \in DOMAIN h : a < b => End(h, a) <= b

\* The list predicate is the two invariants about the headers.
LEMMA ListIs ==
  List(hdr) <=> /\ Blocks \subseteq Addresses
                /\ hdr \in [Blocks -> Headers]
                /\ Tiling
BY DEF List, Tiling, Blocks, EndOf, End

\* Types of one block's parts, and where it can end.
LEMMA BlockIs ==
  ASSUME NEW h, List(h), NEW b \in DOMAIN h
  PROVE  /\ b \in Int /\ 0 <= b /\ b <= HEAP_SIZE - HDR
         /\ h[b].size \in Int /\ 0 <= h[b].size /\ h[b].size <= HEAP_SIZE - HDR
         /\ h[b].free \in BOOLEAN
         /\ h[b].next \in Int /\ h[b] \in Headers
         /\ End(h, b) \in Int /\ b < End(h, b) /\ End(h, b) <= HEAP_SIZE
         /\ h[b].next # NULL => h[b].next = End(h, b) /\ h[b].next > b
<1>1. b \in Addresses /\ h[b] \in Headers
  BY DEF List
<1>2. /\ b \in Int /\ 0 <= b /\ b <= HEAP_SIZE - HDR
      /\ h[b].size \in Int /\ 0 <= h[b].size /\ h[b].size <= HEAP_SIZE - HDR
      /\ h[b].free \in BOOLEAN /\ h[b].next \in Int
  BY <1>1, HeapAssumption DEF Addresses, Headers, NULL
<1>3. End(h, b) \in Int /\ b < End(h, b)
  BY <1>2, HeapAssumption DEF End
<1>4. /\ h[b].next = IF End(h, b) = HEAP_SIZE THEN NULL ELSE End(h, b)
      /\ h[b].next # NULL => h[b].next \in Addresses
  BY DEF List
<1>5. End(h, b) <= HEAP_SIZE
  <2>1. CASE End(h, b) = HEAP_SIZE
    BY <2>1, <1>3
  <2>2. CASE End(h, b) # HEAP_SIZE
    <3>1. h[b].next = End(h, b) /\ h[b].next # NULL
      BY <2>2, <1>2, <1>3, <1>4 DEF NULL
    <3> QED BY <3>1, <1>4, HeapAssumption DEF Addresses
  <2> QED BY <2>1, <2>2
<1> QED BY <1>1, <1>2, <1>3, <1>4, <1>5

\* Two blocks with the same end are one block.
LEMMA EndInjective ==
  ASSUME NEW h, List(h), NEW a \in DOMAIN h, NEW b \in DOMAIN h,
         End(h, a) = End(h, b)
  PROVE  a = b
<1>1. a \in Int /\ b \in Int /\ a < End(h, a) /\ b < End(h, b)
  BY BlockIs
<1>2. a < b => End(h, a) <= b
  BY DEF List
<1>3. b < a => End(h, b) <= a
  BY DEF List
<1>4. End(h, a) \in Int /\ End(h, b) \in Int
  BY BlockIs
<1> QED BY <1>1, <1>2, <1>3, <1>4

\* my_free's merges (67-70, 82-85): a block takes in the one after it.
LEMMA AbsorbList ==
  ASSUME List(hdr), NEW a \in DOMAIN hdr, NEW b \in DOMAIN hdr,
         hdr[a].next = b
  PROVE  /\ List(Absorb(hdr, a, b))
         /\ DOMAIN Absorb(hdr, a, b) = DOMAIN hdr \ {b}
         /\ a \in DOMAIN hdr \ {b}
         /\ Absorb(hdr, a, b)[a].free = TRUE
         /\ Absorb(hdr, a, b)[a].size \in Int
         /\ Absorb(hdr, a, b)[a].size >= hdr[a].size
         /\ Absorb(hdr, a, b)[a].next = hdr[b].next
         /\ \A c \in DOMAIN hdr \ {a, b} : Absorb(hdr, a, b)[c] = hdr[c]
<1> DEFINE k == Absorb(hdr, a, b)
<1>1. /\ a \in Int /\ b \in Int /\ 0 <= a /\ 0 <= b /\ b <= HEAP_SIZE - HDR
      /\ hdr[a].size \in Int /\ hdr[b].size \in Int
      /\ 0 <= hdr[a].size /\ 0 <= hdr[b].size
      /\ hdr[b].next \in Int
  BY BlockIs
<1>2. b = End(hdr, a) /\ a < b
  BY <1>1, BlockIs DEF NULL
<1>3. /\ DOMAIN k = DOMAIN hdr \ {b}
      /\ k[a] = [size |-> hdr[a].size + HDR + hdr[b].size, free |-> TRUE,
                 next |-> hdr[b].next]
      /\ \A c \in DOMAIN hdr \ {a, b} : k[c] = hdr[c]
  BY <1>1, <1>2 DEF Absorb
<1>4. /\ k[a].size = hdr[a].size + HDR + hdr[b].size /\ k[a].free = TRUE
      /\ k[a].next = hdr[b].next
  BY <1>3
<1>5. End(k, a) = End(hdr, b)
  BY <1>1, <1>2, <1>4, HeapAssumption DEF End
<1>6. \A c \in DOMAIN hdr \ {a, b} : End(k, c) = End(hdr, c)
  BY <1>3 DEF End
<1>7. k[a] \in Headers
  <2>1. End(hdr, b) <= HEAP_SIZE /\ hdr[b] \in Headers
    BY BlockIs
  <2>2. k[a].size \in 0 .. HEAP_SIZE - HDR
    BY <1>1, <1>2, <1>4, <2>1, HeapAssumption DEF End
  <2>3. hdr[b].next \in Addresses \cup {NULL}
    BY <2>1 DEF Headers
  <2> QED BY <1>3, <1>4, <2>2, <2>3 DEF Headers
<1>8. k \in [DOMAIN k -> Headers]
  <2>1. \A c \in DOMAIN k : k[c] \in Headers
    BY <1>3, <1>7, BlockIs
  <2>2. k = [c \in DOMAIN k |-> k[c]]
    BY DEF Absorb
  <2> QED BY <2>1, <2>2
<1>9. free_list \in DOMAIN k
  BY <1>1, <1>2, <1>3 DEF List, free_list
<1>10. ASSUME NEW c \in DOMAIN k
       PROVE  /\ c % ALIGN = 0 /\ k[c].size % ALIGN = 0
              /\ k[c].next = IF End(k, c) = HEAP_SIZE THEN NULL ELSE End(k, c)
              /\ k[c].next # NULL => k[c].next \in DOMAIN k
  <2>0. c \in DOMAIN hdr /\ c # b /\ c % ALIGN = 0
    BY <1>3 DEF List
  <2>1. CASE c = a
    <3>1. hdr[a].size % ALIGN = 0 /\ hdr[b].size % ALIGN = 0
      BY DEF List
    <3>2. (hdr[a].size + HDR) % ALIGN = 0
      BY <3>1, <1>1, HeapAssumption DEF ALIGN
    <3>a. hdr[a].size + HDR \in Int
      BY <1>1, HeapAssumption
    <3>b. ((hdr[a].size + HDR) + hdr[b].size) % ALIGN = 0
      BY <3>1, <3>2, <3>a, <1>1, Aligned
    <3>3. k[a].size % ALIGN = 0
      BY <3>b, <1>4
    <3>c. hdr[b].next = NULL \/ hdr[b].next > b
      BY BlockIs
    <3>4. hdr[b].next # b
      BY <3>c, <1>1 DEF NULL
    <3>5. /\ hdr[b].next = IF End(hdr, b) = HEAP_SIZE THEN NULL ELSE End(hdr, b)
          /\ hdr[b].next # NULL => hdr[b].next \in DOMAIN hdr
      BY DEF List
    <3> QED BY <2>0, <2>1, <1>3, <1>4, <1>5, <3>3, <3>4, <3>5
  <2>2. CASE c # a
    <3>1. k[c] = hdr[c] /\ End(k, c) = End(hdr, c)
      BY <2>0, <2>2, <1>3, <1>6
    <3>2. hdr[c].next # b
      <4>1. End(hdr, c) # End(hdr, a)
        BY <2>0, <2>2, EndInjective
      <4>2. hdr[c].next # NULL => hdr[c].next = End(hdr, c)
        BY <2>0, BlockIs
      <4> QED BY <4>1, <4>2, <1>1, <1>2 DEF NULL
    <3> QED BY <2>0, <3>1, <3>2, <1>3 DEF List
  <2> QED BY <2>1, <2>2
<1>11. ASSUME NEW c \in DOMAIN k, NEW d \in DOMAIN k, c < d
       PROVE  End(k, c) <= d
  <2>0. c \in DOMAIN hdr /\ d \in DOMAIN hdr /\ c # b /\ d # b
    BY <1>3
  <2>1. CASE c = a
    <3>1. b <= d
      BY <2>0, <2>1, <1>2, <1>11 DEF List
    <3>2. b < d
      BY <3>1, <2>0, <1>1, BlockIs
    <3> QED BY <3>2, <2>0, <2>1, <1>5 DEF List
  <2>2. CASE c # a
    BY <2>0, <2>2, <1>6, <1>11 DEF List
  <2> QED BY <2>1, <2>2
<1>12. DOMAIN k \subseteq Addresses
  BY <1>3 DEF List
<1>13. List(k)
  BY <1>8, <1>9, <1>10, <1>11, <1>12 DEF List
<1> QED BY <1>1, <1>2, <1>3, <1>4, <1>13, HeapAssumption

\* A change of the free flag leaves the list as it is.
LEMMA FlagList ==
  ASSUME NEW h, List(h), NEW b \in DOMAIN h, NEW f \in BOOLEAN
  PROVE  /\ List([h EXCEPT ![b].free = f])
         /\ DOMAIN [h EXCEPT ![b].free = f] = DOMAIN h
         /\ [h EXCEPT ![b].free = f][b].free = f
         /\ \A c \in DOMAIN h \ {b} : [h EXCEPT ![b].free = f][c] = h[c]
         /\ \A c \in DOMAIN h :
              /\ [h EXCEPT ![b].free = f][c].size = h[c].size
              /\ [h EXCEPT ![b].free = f][c].next = h[c].next
<1> DEFINE k == [h EXCEPT ![b].free = f]
<1>1. h[b] \in Headers
  BY BlockIs
<1>2. /\ DOMAIN k = DOMAIN h
      /\ k[b].free = f /\ k[b] \in Headers
      /\ \A c \in DOMAIN h \ {b} : k[c] = h[c]
      /\ \A c \in DOMAIN h : k[c].size = h[c].size /\ k[c].next = h[c].next
  BY <1>1 DEF Headers
<1>3. k \in [DOMAIN k -> Headers]
  BY <1>2 DEF List
<1>4. \A c \in DOMAIN h : End(k, c) = End(h, c)
  BY <1>2 DEF End
<1> HIDE DEF k
<1>5. List(k)
  BY <1>2, <1>3, <1>4 DEF List
<1> QED BY <1>2, <1>5 DEF k

\* my_malloc's split (43-52): the tail of a block becomes a block of its own.
Split(h, b, n) ==
  [a \in DOMAIN h \cup {b + HDR + n} |->
     CASE a = b + HDR + n -> [size |-> h[b].size - n - HDR, free |-> TRUE,
                              next |-> h[b].next]
       [] a = b -> [size |-> n, free |-> FALSE, next |-> b + HDR + n]
       [] OTHER -> h[a]]

LEMMA SplitList ==
  ASSUME List(hdr), NEW b \in DOMAIN hdr, NEW n \in Nat, n % ALIGN = 0,
         hdr[b].size - n > HDR + 16
  PROVE  /\ List(Split(hdr, b, n))
         /\ DOMAIN Split(hdr, b, n) = DOMAIN hdr \cup {b + HDR + n}
         /\ b + HDR + n \notin DOMAIN hdr
         /\ b < b + HDR + n
         /\ Split(hdr, b, n)[b]
              = [size |-> n, free |-> FALSE, next |-> b + HDR + n]
         /\ Split(hdr, b, n)[b + HDR + n].free = TRUE
         /\ Split(hdr, b, n)[b + HDR + n].next = hdr[b].next
         /\ \A c \in DOMAIN hdr \ {b} : Split(hdr, b, n)[c] = hdr[c]
<1> DEFINE m == b + HDR + n
           k == Split(hdr, b, n)
<1>1. /\ b \in Int /\ 0 <= b /\ hdr[b].size \in Int /\ hdr[b].next \in Int
      /\ b <= HEAP_SIZE - HDR
      /\ HDR \in Int /\ HDR > 0 /\ HEAP_SIZE \in Int /\ n \in Int /\ 0 <= n
      /\ End(hdr, b) \in Int /\ End(hdr, b) <= HEAP_SIZE
      /\ hdr[b].next \in Addresses \cup {NULL}
  BY BlockIs, HeapAssumption DEF Headers
<1>2. /\ m \in Int /\ b < m /\ m + HDR < End(hdr, b)
  BY <1>1 DEF End
<1>3. m \notin DOMAIN hdr
  BY <1>1, <1>2 DEF List
<1>4. /\ DOMAIN k = DOMAIN hdr \cup {m}
      /\ k[m] = [size |-> hdr[b].size - n - HDR, free |-> TRUE,
                 next |-> hdr[b].next]
      /\ k[b] = [size |-> n, free |-> FALSE, next |-> m]
      /\ \A c \in DOMAIN hdr \ {b} : k[c] = hdr[c]
  <2>1. /\ DOMAIN k = DOMAIN hdr \cup {m}
        /\ \A a \in DOMAIN hdr \cup {m} :
             k[a] = CASE a = m -> [size |-> hdr[b].size - n - HDR, free |-> TRUE,
                                   next |-> hdr[b].next]
                      [] a = b -> [size |-> n, free |-> FALSE, next |-> m]
                      [] OTHER -> hdr[a]
    BY DEF Split
  <2>2. b # m
    BY <1>1, <1>2
  <2>3. \A c \in DOMAIN hdr \ {b} : c # m /\ c # b
    BY <1>3
  <2> HIDE DEF k, m
  <2> QED BY <2>1, <2>2, <2>3
<1>5. /\ k[m].size = hdr[b].size - n - HDR /\ k[m].free = TRUE
      /\ k[m].next = hdr[b].next
      /\ k[b].size = n /\ k[b].next = m
  BY <1>4
<1>6. End(k, b) = m /\ End(k, m) = End(hdr, b)
  BY <1>1, <1>2, <1>5 DEF End
<1>7. \A c \in DOMAIN hdr \ {b} : End(k, c) = End(hdr, c)
  BY <1>4 DEF End
<1>8. m \in Addresses
  BY <1>1, <1>2 DEF Addresses
<1>9. k[m] \in Headers /\ k[b] \in Headers
  <2>1. n \in 0 .. HEAP_SIZE - HDR
    BY <1>1 DEF End
  <2>2. hdr[b].size - n - HDR \in 0 .. HEAP_SIZE - HDR
    BY <1>1 DEF End
  <2> HIDE DEF k, m
  <2> QED BY <1>1, <1>4, <1>8, <2>1, <2>2 DEF Headers
<1>10. k \in [DOMAIN k -> Headers]
  <2>1. \A c \in DOMAIN k : k[c] \in Headers
    BY <1>4, <1>9, BlockIs
  <2>2. k = [c \in DOMAIN k |-> k[c]]
    BY DEF Split
  <2> QED BY <2>1, <2>2
<1>11. m % ALIGN = 0 /\ k[m].size % ALIGN = 0
  <2>1. b % ALIGN = 0 /\ hdr[b].size % ALIGN = 0 /\ HDR % ALIGN = 0
    BY HeapAssumption DEF List
  <2>2. (b + HDR) % ALIGN = 0 /\ b + HDR \in Int
    BY <1>1, <2>1 DEF ALIGN
  <2>3. ((b + HDR) + n) % ALIGN = 0
    BY <1>1, <2>2, Aligned
  <2>s. hdr[b].size \in Int /\ n \in Int /\ hdr[b].size % ALIGN = 0 /\ n % ALIGN = 0
    BY <1>1, <2>1
  <2>4. (hdr[b].size - n) % ALIGN = 0 /\ hdr[b].size - n \in Int
    BY <2>s DEF ALIGN
  <2>5. ((hdr[b].size - n) - HDR) % ALIGN = 0
    BY <1>1, <2>1, <2>4, Aligned
  <2> QED BY <1>5, <2>3, <2>5
<1> HIDE DEF k, m
<1>12. ASSUME NEW c \in DOMAIN k
       PROVE  /\ c % ALIGN = 0 /\ k[c].size % ALIGN = 0
              /\ k[c].next = IF End(k, c) = HEAP_SIZE THEN NULL ELSE End(k, c)
              /\ k[c].next # NULL => k[c].next \in DOMAIN k
  <2>1. CASE c = m
    <3>1. /\ hdr[b].next = IF End(hdr, b) = HEAP_SIZE THEN NULL ELSE End(hdr, b)
          /\ hdr[b].next # NULL => hdr[b].next \in DOMAIN hdr
      BY DEF List
    <3> QED BY <2>1, <3>1, <1>4, <1>5, <1>6, <1>11
  <2>2. CASE c = b
    <3>1. m # HEAP_SIZE
      BY <1>1, <1>2
    <3>2. b % ALIGN = 0
      BY DEF List
    <3> QED BY <2>2, <3>1, <3>2, <1>4, <1>5, <1>6
  <2>3. CASE c # m /\ c # b
    <3>1. c \in DOMAIN hdr \ {b}
      BY <2>3, <1>4
    <3> QED BY <3>1, <1>4, <1>7 DEF List
  <2> QED BY <2>1, <2>2, <2>3
<1>13. ASSUME NEW c \in DOMAIN k, NEW d \in DOMAIN k, c < d
       PROVE  End(k, c) <= d
  <2>0. c \in DOMAIN hdr \cup {m} /\ d \in DOMAIN hdr \cup {m}
    BY <1>4
  <2>t. /\ \A a \in DOMAIN hdr : a \in Int
        /\ \A a \in DOMAIN hdr : End(hdr, a) \in Int /\ a < End(hdr, a)
    BY BlockIs
  <2>1. CASE c = m
    <3>1. d \in DOMAIN hdr /\ b < d
      BY <2>0, <2>1, <1>13, <1>1, <1>2, <2>t
    <3>2. End(hdr, b) <= d
      BY <3>1 DEF List
    <3> QED BY <3>2, <2>1, <1>6
  <2>2. CASE c = b
    <3>1. CASE d = m
      BY <3>1, <2>2, <1>2, <1>6
    <3>2. CASE d # m
      <4>1. End(hdr, b) <= d /\ d \in Int
        BY <3>2, <2>0, <2>2, <2>t, <1>13 DEF List
      <4> QED BY <4>1, <2>2, <1>1, <1>2, <1>6
    <3> QED BY <3>1, <3>2
  <2>3. CASE c # m /\ c # b
    <3>1. c \in DOMAIN hdr \ {b} /\ End(k, c) = End(hdr, c)
      BY <2>0, <2>3, <1>7
    <3>2. CASE d # m
      BY <3>1, <3>2, <2>0, <1>13 DEF List
    <3>3. CASE d = m
      <4>1. c < b
        <5>1. b < c => End(hdr, b) <= c
          BY <3>1 DEF List
        <5> QED BY <5>1, <3>1, <3>3, <2>3, <2>t, <1>1, <1>2, <1>13
      <4>2. End(hdr, c) <= b
        BY <4>1, <3>1 DEF List
      <4> QED BY <4>2, <3>1, <3>3, <2>t, <1>1, <1>2
    <3> QED BY <3>2, <3>3
  <2> QED BY <2>1, <2>2, <2>3
<1>14. DOMAIN k \subseteq Addresses /\ free_list \in DOMAIN k
  BY <1>4, <1>8 DEF List
<1>15. List(k)
  BY <1>10, <1>12, <1>13, <1>14 DEF List
<1> QED BY <1>2, <1>3, <1>4, <1>5, <1>15 DEF k, m

-----------------------------------------------------------------------------
(* The inductive invariant.                                                *)

LocalsOK == /\ pc \in {"idle", "malloc", "free"}
            /\ req \in Nat
            /\ ret \in 0 .. HEAP_SIZE \cup {NULL}
            /\ current \in Blocks \cup {NULL}
            /\ prev \in Blocks \cup {NULL}
            /\ block \in Blocks \cup {NULL}

\* Coalesced, during a call too: the one pair of free neighbours there may be
\* is the block being freed and the one before it.
Merged == \A b \in Blocks :
            hdr[b].free /\ NextIsFree(b) => pc = "free" /\ hdr[b].next = block

\* my_malloc's walk has seen that nothing before current fits.
MallocWalked == pc = "malloc" =>
  \A b \in Blocks : current = NULL \/ b < current => ~Fits(b)

\* my_free's walk has not passed the block, and prev is one block behind.
FreeWalked == pc = "free" =>
  /\ block \in Blocks /\ hdr[block].free
  /\ current \in Blocks /\ current <= block
  /\ IF prev = NULL THEN current = free_list
                    ELSE prev \in Blocks /\ hdr[prev].next = current

OwnedOK == /\ DOMAIN owned = {b + HDR : b \in {a \in Blocks : ~hdr[a].free}}
           /\ owned \in [DOMAIN owned -> Nat]
           /\ \A p \in DOMAIN owned : owned[p] <= hdr[p - HDR].size

IInv == List(hdr) /\ LocalsOK /\ Merged /\ MallocWalked /\ FreeWalked /\ OwnedOK

\* heap_init makes one free block.
LEMMA InitIInv == Init => IInv
<1> SUFFICES ASSUME Init PROVE IInv
  OBVIOUS
<1>1. /\ Blocks = {0}
      /\ hdr[0].size = HEAP_SIZE - HDR /\ hdr[0].free = TRUE
      /\ hdr[0].next = NULL
      /\ hdr = [a \in {0} |-> [size |-> HEAP_SIZE - HDR, free |-> TRUE,
                               next |-> NULL]]
  BY DEF Init, Blocks, free_list
<1>2. HEAP_SIZE - HDR \in Nat /\ (HEAP_SIZE - HDR) % ALIGN = 0
  BY HeapAssumption, Aligned
<1>3. End(hdr, 0) = HEAP_SIZE
  BY <1>1, HeapAssumption DEF End
<1>4. hdr \in [Blocks -> Headers]
  BY <1>1, <1>2 DEF Headers
<1>5. 0 % ALIGN = 0 /\ 0 \in Addresses
  BY <1>2 DEF ALIGN, Addresses
<1>6. List(hdr)
  BY <1>1, <1>2, <1>3, <1>4, <1>5, HeapAssumption DEF List, Blocks, free_list
<1>7. DOMAIN owned = {} /\ owned \in [DOMAIN owned -> Nat]
  BY DEF Init
<1> QED
  BY <1>1, <1>6, <1>7
     DEF Init, IInv, LocalsOK, Merged, MallocWalked, FreeWalked, OwnedOK,
         NextIsFree

\* The inductive invariant gives the headers' invariants.
LEMMA IInvTypes == IInv => TypeOK /\ Tiling
<1> SUFFICES ASSUME IInv PROVE TypeOK /\ Tiling
  OBVIOUS
<1>1. /\ Blocks \subseteq Addresses /\ hdr \in [Blocks -> Headers] /\ Tiling
  BY ListIs DEF IInv
<1>2. DOMAIN owned \subseteq 0 .. HEAP_SIZE
  BY <1>1, HeapAssumption DEF IInv, OwnedOK, Addresses
<1> QED BY <1>1, <1>2 DEF IInv, LocalsOK, OwnedOK, TypeOK

-----------------------------------------------------------------------------
(* Each step preserves the inductive invariant.                            *)

\* A step that leaves the headers and the owners alone keeps what is said of
\* them.
LEMMA SameList ==
  ASSUME IInv, UNCHANGED <<hdr, owned>>
  PROVE  List(hdr)' /\ OwnedOK' /\ Blocks' = Blocks
BY DEF IInv, List, End, OwnedOK, Blocks

LEMMA MallocCallIInv == ASSUME IInv, MallocCall PROVE IInv'
<1>1. List(hdr)' /\ OwnedOK' /\ Blocks' = Blocks
  BY SameList DEF MallocCall
<1>2. free_list \in Blocks /\ \A b \in Blocks : b \in Int /\ 0 <= b
  BY BlockIs DEF IInv, List, Blocks
<1>3. LocalsOK'
  BY <1>1, <1>2, HeapAssumption DEF MallocCall, IInv, LocalsOK
<1>4. Merged'
  BY <1>1 DEF MallocCall, IInv, Merged, NextIsFree
<1>5. MallocWalked'
  BY <1>1, <1>2 DEF MallocCall, MallocWalked, free_list, NULL
<1>6. FreeWalked'
  BY DEF MallocCall, FreeWalked
<1> QED BY <1>1, <1>3, <1>4, <1>5, <1>6 DEF IInv

\* What lies before a block's successor is the block or lies before it.
LEMMA BeforeNext ==
  ASSUME NEW h, List(h), NEW a \in DOMAIN h, NEW b \in DOMAIN h,
         h[a].next = NULL \/ b < h[a].next
  PROVE  b <= a
<1>1. /\ a \in Int /\ b \in Int /\ End(h, a) \in Int /\ End(h, b) \in Int
      /\ b < End(h, b) /\ End(h, b) <= HEAP_SIZE
  BY BlockIs
<1>2. h[a].next = IF End(h, a) = HEAP_SIZE THEN NULL ELSE End(h, a)
  BY DEF List
<1>3. a < b => End(h, a) <= b
  BY DEF List
<1>4. b < End(h, a)
  <2>1. CASE End(h, a) = HEAP_SIZE
    BY <2>1, <1>1, HeapAssumption
  <2>2. CASE End(h, a) # HEAP_SIZE
    <3>1. a < End(h, a) /\ 0 <= a
      BY BlockIs
    <3>2. h[a].next = End(h, a) /\ h[a].next # NULL
      BY <2>2, <3>1, <1>1, <1>2 DEF NULL
    <3> QED BY <3>2
  <2> QED BY <2>1, <2>2
<1> QED BY <1>1, <1>3, <1>4

LEMMA MallocWalkIInv == ASSUME IInv, MallocWalk PROVE IInv'
<1>1. List(hdr)' /\ OwnedOK' /\ Blocks' = Blocks /\ hdr' = hdr
  BY SameList DEF MallocWalk
<1>2. /\ current \in DOMAIN hdr /\ List(hdr)
      /\ current' = hdr[current].next /\ req' = req
  BY DEF MallocWalk, IInv, LocalsOK, Blocks
<1>3. hdr[current].next \in Blocks \cup {NULL}
  BY <1>2 DEF List, Blocks
<1>4. LocalsOK'
  BY <1>1, <1>2, <1>3 DEF MallocWalk, IInv, LocalsOK
<1>5. Merged'
  BY <1>1 DEF MallocWalk, IInv, Merged, NextIsFree
<1>6. MallocWalked'
  <2>1. ASSUME NEW b \in Blocks, current' = NULL \/ b < current'
        PROVE  ~Fits(b)'
    <3>1. b <= current
      BY <1>2, <2>1, BeforeNext DEF Blocks
    <3>2. b \in Int /\ current \in Int /\ current # NULL
      BY <1>2, BlockIs DEF Blocks, MallocWalk
    <3>3. b < current => ~Fits(b)
      BY DEF MallocWalk, IInv, MallocWalked
    <3>4. ~Fits(b)
      BY <3>1, <3>2, <3>3 DEF MallocWalk
    <3> QED BY <3>4, <1>1, <1>2 DEF Fits
  <2> QED BY <2>1, <1>1 DEF MallocWalked
<1>7. FreeWalked'
  BY DEF MallocWalk, FreeWalked
<1> QED BY <1>1, <1>4, <1>5, <1>6, <1>7 DEF IInv

LEMMA MallocFailIInv == ASSUME IInv, MallocFail PROVE IInv'
<1>1. List(hdr)' /\ OwnedOK' /\ Blocks' = Blocks /\ hdr' = hdr
  BY SameList DEF MallocFail
<1> QED BY <1>1 DEF MallocFail, Leave, IInv, LocalsOK, Merged, NextIsFree,
               MallocWalked, FreeWalked

\* What both ways of granting current do: it is taken, blocks other than it
\* stay as they were, and what is new is free and has no free neighbour.
LEMMA GrantIInv ==
  ASSUME IInv, pc = "malloc", current # NULL, Fits(current), Return,
         List(hdr'),
         Blocks \subseteq Blocks',
         hdr'[current].free = FALSE, req <= hdr'[current].size,
         \A c \in Blocks \ {current} : hdr'[c] = hdr[c],
         \A c \in Blocks' \ Blocks :
           hdr'[c].free = TRUE /\ hdr'[c].next = hdr[current].next
  PROVE  IInv'
<1> DEFINE p == current + HDR
<1>1. /\ current \in Blocks /\ hdr[current].free = TRUE /\ req \in Nat
      /\ current \in Int /\ 0 <= current /\ current <= HEAP_SIZE - HDR
      /\ \A c \in Blocks : hdr[c].free \in BOOLEAN
      /\ \A c \in Blocks' : c \in Int
  BY BlockIs DEF IInv, LocalsOK, Blocks, Fits
<1>2. /\ ret' = p /\ pc' = "idle" /\ current' = NULL /\ prev' = NULL
      /\ block' = NULL /\ req' = req
      /\ owned' = [q \in DOMAIN owned \cup {p} |-> IF q = p THEN req ELSE owned[q]]
  BY DEF Return, Leave
<1>3. LocalsOK'
  <2>1. p \in 0 .. HEAP_SIZE
    BY <1>1, HeapAssumption
  <2> QED BY <1>1, <1>2, <2>1 DEF LocalsOK
<1>4. \A b \in Blocks : ~(hdr[b].free /\ NextIsFree(b))
  BY DEF IInv, Merged
<1>5. Merged'
  <2>1. ASSUME NEW b \in Blocks', hdr'[b].free, NextIsFree(b)'
        PROVE  FALSE
    <3>1. /\ hdr'[b].next # NULL /\ hdr'[hdr'[b].next].free
          /\ hdr'[b].next \in Blocks'
      BY <2>1 DEF NextIsFree, List, Blocks
    <3>2. b # current /\ hdr'[b].next # current
      BY <2>1, <3>1
    <3>3. CASE b \in Blocks
      <4>1. hdr'[b] = hdr[b]
        BY <3>2, <3>3
      <4>2. hdr[b].next \in Blocks
        BY <3>1, <3>3, <4>1 DEF IInv, List, Blocks
      <4>3. hdr'[hdr[b].next] = hdr[hdr[b].next]
        BY <3>2, <4>1, <4>2
      <4> QED BY <1>4, <3>1, <3>3, <4>1, <4>3, <2>1 DEF NextIsFree
    <3>4. CASE b \notin Blocks
      <4>1. hdr'[b].next = hdr[current].next
        BY <2>1, <3>4
      <4>2. hdr[current].next \in Blocks
        BY <3>1, <4>1, <1>1 DEF IInv, List, Blocks
      <4>3. hdr'[hdr[current].next] = hdr[hdr[current].next]
        BY <3>2, <4>1, <4>2
      <4> QED BY <1>1, <1>4, <3>1, <4>1, <4>3 DEF NextIsFree
    <3> QED BY <3>3, <3>4
  <2> QED BY <2>1 DEF Merged
<1>6. OwnedOK'
  <2>1. DOMAIN owned' = DOMAIN owned \cup {p}
    BY <1>2
  <2>2. {c \in Blocks' : ~hdr'[c].free}
          = {c \in Blocks : ~hdr[c].free} \cup {current}
    <3>1. ASSUME NEW c \in Blocks'
          PROVE  ~hdr'[c].free <=> (c \in Blocks /\ ~hdr[c].free) \/ c = current
      <4>1. CASE c = current
        BY <4>1
      <4>2. CASE c \in Blocks \ {current}
        BY <4>2
      <4>3. CASE c \in Blocks' \ Blocks
        BY <4>3, <1>1
      <4> QED BY <4>1, <4>2, <4>3
    <3> QED BY <3>1, <1>1
  <2>3. DOMAIN owned = {b + HDR : b \in {c \in Blocks : ~hdr[c].free}}
    BY DEF IInv, OwnedOK
  <2>4. DOMAIN owned' = {b + HDR : b \in {c \in Blocks' : ~hdr'[c].free}}
    BY <2>1, <2>2, <2>3
  <2>5. owned' \in [DOMAIN owned' -> Nat]
    BY <1>1, <1>2, <2>1 DEF IInv, OwnedOK
  <2>6. ASSUME NEW q \in DOMAIN owned' PROVE owned'[q] <= hdr'[q - HDR].size
    <3>1. CASE q = p
      <4>1. q - HDR = current
        BY <3>1, <1>1, HeapAssumption
      <4> QED BY <3>1, <4>1, <1>2, <2>1
    <3>2. CASE q # p
      <4>1. q \in DOMAIN owned /\ owned'[q] = owned[q]
        BY <3>2, <1>2, <2>1
      <4>2. PICK c \in Blocks : q = c + HDR /\ ~hdr[c].free
        BY <4>1, <2>3
      <4>3. q - HDR = c /\ c # current
        BY <4>2, <3>2, <1>1, HeapAssumption
      <4> QED BY <4>1, <4>2, <4>3 DEF IInv, OwnedOK
    <3> QED BY <3>1, <3>2
  <2> QED BY <2>4, <2>5, <2>6 DEF OwnedOK
<1>7. MallocWalked' /\ FreeWalked'
  BY <1>2 DEF MallocWalked, FreeWalked
<1> QED BY <1>3, <1>5, <1>6, <1>7 DEF IInv

LEMMA MallocSplitIInv == ASSUME IInv, MallocSplit PROVE IInv'
<1> DEFINE n == RoundUp(req)
           m == current + HDR + n
<1>1. /\ pc = "malloc" /\ current # NULL /\ Fits(current) /\ Return
      /\ hdr[current].size - n > HDR + 16
  BY DEF MallocSplit, CanSplit, Leftover
<1>2. current \in DOMAIN hdr /\ List(hdr) /\ req \in Nat
  BY <1>1 DEF IInv, LocalsOK, Blocks
<1>3. n \in Nat /\ n % ALIGN = 0 /\ req <= n
  BY <1>2, RoundUpIs
<1>4. hdr' = Split(hdr, current, n)
  BY DEF MallocSplit, Split, Rest, Leftover, Blocks
<1> DEFINE k == Split(hdr, current, n)
<1> HIDE DEF n
<1>s. /\ List(k) /\ DOMAIN k = DOMAIN hdr \cup {m} /\ m \notin DOMAIN hdr
      /\ k[current] = [size |-> n, free |-> FALSE, next |-> m]
      /\ k[m].free = TRUE /\ k[m].next = hdr[current].next
      /\ \A c \in DOMAIN hdr \ {current} : k[c] = hdr[c]
  BY <1>1, <1>2, <1>3, SplitList
<1> HIDE DEF k
<1>5. /\ List(hdr') /\ DOMAIN hdr' = DOMAIN hdr \cup {m} /\ m \notin DOMAIN hdr
      /\ hdr'[current] = [size |-> n, free |-> FALSE, next |-> m]
      /\ hdr'[m].free = TRUE /\ hdr'[m].next = hdr[current].next
      /\ \A c \in DOMAIN hdr \ {current} : hdr'[c] = hdr[c]
  <2>1. hdr' = k
    BY <1>4 DEF k
  <2> QED BY <1>s, <2>1
<1>6. hdr'[current].free = FALSE /\ req <= hdr'[current].size
  BY <1>3, <1>5
<1>7. /\ Blocks \subseteq Blocks'
      /\ \A c \in Blocks \ {current} : hdr'[c] = hdr[c]
      /\ \A c \in Blocks' \ Blocks :
           hdr'[c].free = TRUE /\ hdr'[c].next = hdr[current].next
  BY <1>5 DEF Blocks
<1> QED BY <1>1, <1>5, <1>6, <1>7, GrantIInv

LEMMA MallocWholeIInv == ASSUME IInv, MallocWhole PROVE IInv'
<1>1. pc = "malloc" /\ current # NULL /\ Fits(current) /\ Return
  BY DEF MallocWhole
<1>2. current \in DOMAIN hdr /\ List(hdr) /\ req \in Nat
  BY <1>1 DEF IInv, LocalsOK, Blocks
<1>3. hdr' = [hdr EXCEPT ![current].free = FALSE]
  BY DEF MallocWhole
<1>4. /\ List(hdr') /\ DOMAIN hdr' = DOMAIN hdr
      /\ hdr'[current].free = FALSE
      /\ hdr'[current].size = hdr[current].size
      /\ \A c \in DOMAIN hdr \ {current} : hdr'[c] = hdr[c]
  BY <1>2, <1>3, FlagList
<1>5. req <= hdr'[current].size
  BY <1>1, <1>2, <1>4, BlockIs DEF Fits
<1>6. /\ Blocks \subseteq Blocks'
      /\ \A c \in Blocks \ {current} : hdr'[c] = hdr[c]
      /\ \A c \in Blocks' \ Blocks :
           hdr'[c].free = TRUE /\ hdr'[c].next = hdr[current].next
  BY <1>4 DEF Blocks
<1> QED BY <1>1, <1>4, <1>5, <1>6, GrantIInv

\* The caller's pointer leads back to the header of a block in use.
LEMMA OwnedBlock ==
  ASSUME IInv, NEW p \in DOMAIN owned
  PROVE  /\ p - HDR \in DOMAIN hdr /\ hdr[p - HDR].free = FALSE
         /\ p \in Int /\ p = (p - HDR) + HDR
<1>1. PICK c \in Blocks : p = c + HDR /\ ~hdr[c].free
  BY DEF IInv, OwnedOK
<1>2. c \in Int /\ hdr[c].free \in BOOLEAN
  BY <1>1, BlockIs DEF IInv, Blocks
<1>3. p - HDR = c
  BY <1>1, <1>2, HeapAssumption
<1> QED BY <1>1, <1>2, <1>3, HeapAssumption DEF Blocks

\* Two blocks with one successor are one block.
LEMMA OnePredecessor ==
  ASSUME NEW h, List(h), NEW a \in DOMAIN h, NEW b \in DOMAIN h,
         h[a].next = h[b].next, h[a].next # NULL
  PROVE  a = b
<1>1. h[a].next = End(h, a) /\ h[b].next = End(h, b)
  BY BlockIs
<1> QED BY <1>1, EndInjective

LEMMA FreeCallIInv ==
  ASSUME IInv, NEW p \in DOMAIN owned, FreeCall(p)
  PROVE  IInv'
<1> DEFINE b == p - HDR
           n == hdr[b].next
<1>1. /\ b \in DOMAIN hdr /\ List(hdr) /\ hdr[b].free = FALSE
      /\ b \in Int /\ 0 <= b /\ p = b + HDR
      /\ \A c \in DOMAIN hdr : c \in Int /\ hdr[c].free \in BOOLEAN
  BY OwnedBlock, BlockIs DEF IInv
<1>2. /\ pc = "idle" /\ pc' = "free" /\ block' = b /\ prev' = NULL
      /\ current' = free_list /\ req' = req /\ ret' = ret
      /\ owned' = [r \in DOMAIN owned \ {p} |-> owned[r]]
      /\ hdr' = IF NextIsFree(b) THEN Absorb(hdr, b, n)
                                 ELSE [hdr EXCEPT ![b].free = TRUE]
  BY DEF FreeCall
<1>3. \A a \in DOMAIN hdr : ~(hdr[a].free /\ NextIsFree(a))
  BY <1>2 DEF IInv, Merged, Blocks
<1> HIDE DEF b
<1>4. NextIsFree(b) => n \in DOMAIN hdr /\ n # b /\ hdr[n].free
  <2>1. n # NULL => n \in DOMAIN hdr /\ n > b
    BY <1>1, BlockIs DEF List
  <2> QED BY <2>1, <1>1 DEF NextIsFree
<1>5. /\ List(hdr') /\ b \in DOMAIN hdr' /\ hdr'[b].free = TRUE
      /\ DOMAIN hdr' = IF NextIsFree(b) THEN DOMAIN hdr \ {n} ELSE DOMAIN hdr
      /\ hdr'[b].next = IF NextIsFree(b) THEN hdr[n].next ELSE n
      /\ \A c \in DOMAIN hdr' \ {b} : hdr'[c] = hdr[c]
  <2>1. CASE NextIsFree(b)
    <3> DEFINE k == Absorb(hdr, b, n)
    <3>1. /\ List(k) /\ DOMAIN k = DOMAIN hdr \ {n} /\ b \in DOMAIN hdr \ {n}
          /\ k[b].free = TRUE /\ k[b].next = hdr[n].next
          /\ \A c \in DOMAIN hdr \ {b, n} : k[c] = hdr[c]
      BY <2>1, <1>1, <1>4, AbsorbList
    <3>2. hdr' = k
      BY <2>1, <1>2
    <3> HIDE DEF k
    <3> QED BY <2>1, <3>1, <3>2
  <2>2. CASE ~NextIsFree(b)
    <3> DEFINE k == [hdr EXCEPT ![b].free = TRUE]
    <3>1. /\ List(k) /\ DOMAIN k = DOMAIN hdr
          /\ k[b].free = TRUE /\ k[b].next = n
          /\ \A c \in DOMAIN hdr \ {b} : k[c] = hdr[c]
      BY <1>1, FlagList
    <3>2. hdr' = k
      BY <2>2, <1>2
    <3> HIDE DEF k
    <3> QED BY <2>2, <1>1, <3>1, <3>2
  <2> QED BY <2>1, <2>2
<1>6. LocalsOK'
  BY <1>2, <1>5 DEF IInv, LocalsOK, Blocks, List
<1>7. Merged'
  <2>1. ASSUME NEW a \in DOMAIN hdr', hdr'[a].free, NextIsFree(a)'
        PROVE  hdr'[a].next = b
    <3>1. /\ hdr'[a].next # NULL /\ hdr'[hdr'[a].next].free
          /\ hdr'[a].next \in DOMAIN hdr'
      BY <2>1, <1>5 DEF NextIsFree, List
    <3>2. CASE a # b
      <4>1. hdr'[a] = hdr[a] /\ a \in DOMAIN hdr
        BY <2>1, <3>2, <1>5
      <4>2. SUFFICES ASSUME hdr'[a].next # b PROVE FALSE
        OBVIOUS
      <4>3. hdr'[hdr[a].next] = hdr[hdr[a].next]
        BY <3>1, <4>1, <4>2, <1>5
      <4> QED BY <1>3, <2>1, <3>1, <4>1, <4>3 DEF NextIsFree
    <3>3. CASE a = b
      <4>1. hdr'[b].next # b
        <5>1. hdr'[b].next > b
          BY <3>1, <3>3, <1>5, BlockIs
        <5> QED BY <5>1, <1>1
      <4>2. hdr'[hdr'[b].next] = hdr[hdr'[b].next]
        BY <3>1, <3>3, <4>1, <1>5
      <4>3. CASE NextIsFree(b)
        BY <4>2, <4>3, <3>1, <3>3, <1>3, <1>4, <1>5 DEF NextIsFree
      <4>4. CASE ~NextIsFree(b)
        BY <4>2, <4>4, <3>1, <3>3, <1>5 DEF NextIsFree
      <4> QED BY <4>3, <4>4
    <3> QED BY <3>2, <3>3
  <2> QED BY <2>1, <1>2 DEF Merged, Blocks
<1>8. MallocWalked'
  BY <1>2 DEF MallocWalked
<1>9. FreeWalked'
  BY <1>1, <1>2, <1>5 DEF FreeWalked, Blocks, free_list, List
<1>10. OwnedOK'
  <2>1. DOMAIN owned' = DOMAIN owned \ {p}
    BY <1>2
  <2>2. {c \in DOMAIN hdr' : ~hdr'[c].free}
          = {c \in DOMAIN hdr : ~hdr[c].free} \ {b}
    BY <1>4, <1>5
  <2>3. DOMAIN owned = {c + HDR : c \in {d \in DOMAIN hdr : ~hdr[d].free}}
    BY DEF IInv, OwnedOK, Blocks
  <2>4. \A c \in DOMAIN hdr : c + HDR = p <=> c = b
    BY <1>1, HeapAssumption
  <2>5. DOMAIN owned' = {c + HDR : c \in {d \in DOMAIN hdr' : ~hdr'[d].free}}
    BY <2>1, <2>2, <2>3, <2>4
  <2>6. owned' \in [DOMAIN owned' -> Nat]
    BY <1>2, <2>1 DEF IInv, OwnedOK
  <2>7. ASSUME NEW q \in DOMAIN owned' PROVE owned'[q] <= hdr'[q - HDR].size
    <3>1. q \in DOMAIN owned /\ q # p /\ owned'[q] = owned[q]
      BY <1>2, <2>1
    <3>2. PICK c \in {d \in DOMAIN hdr : ~hdr[d].free} \ {b} : q = c + HDR
      BY <3>1, <2>3, <2>4
    <3>3. q - HDR = c /\ hdr'[c] = hdr[c]
      BY <3>2, <2>2, <1>1, <1>5, HeapAssumption
    <3> QED BY <3>1, <3>3 DEF IInv, OwnedOK
  <2> QED BY <2>5, <2>6, <2>7 DEF OwnedOK, Blocks
<1> QED BY <1>5, <1>6, <1>7, <1>8, <1>9, <1>10 DEF IInv

LEMMA FreeWalkIInv == ASSUME IInv, FreeWalk PROVE IInv'
<1>1. List(hdr)' /\ OwnedOK' /\ Blocks' = Blocks /\ hdr' = hdr
  BY SameList DEF FreeWalk
<1>2. /\ pc = "free" /\ pc' = "free" /\ List(hdr)
      /\ current \in DOMAIN hdr /\ block \in DOMAIN hdr
      /\ current <= block /\ current # block /\ hdr[block].free
      /\ prev' = current /\ current' = hdr[current].next
      /\ UNCHANGED <<block, req, ret>>
  BY DEF FreeWalk, IInv, FreeWalked, Blocks
<1>3. /\ current \in Int /\ block \in Int /\ 0 <= current
      /\ block < End(hdr, block) /\ End(hdr, block) <= HEAP_SIZE
      /\ End(hdr, block) \in Int /\ End(hdr, current) \in Int
      /\ current < End(hdr, current)
  BY <1>2, BlockIs
<1>4. End(hdr, current) <= block
  BY <1>2, <1>3 DEF List
<1>5. /\ hdr[current].next = End(hdr, current) /\ hdr[current].next \in DOMAIN hdr
  <2>1. End(hdr, current) # HEAP_SIZE /\ End(hdr, current) # NULL
    BY <1>3, <1>4, HeapAssumption DEF NULL
  <2> QED BY <2>1, <1>2 DEF List
<1>6. LocalsOK'
  BY <1>1, <1>2, <1>5 DEF IInv, LocalsOK, Blocks
<1>7. Merged' /\ MallocWalked'
  BY <1>1, <1>2 DEF IInv, Merged, NextIsFree, MallocWalked
<1>8. FreeWalked'
  BY <1>1, <1>2, <1>3, <1>4, <1>5 DEF FreeWalked, Blocks, NULL
<1> QED BY <1>1, <1>6, <1>7, <1>8 DEF IInv

\* When my_free's walk ends it is at the block, and prev is its predecessor
\* unless the block is the first.
LEMMA WalkEnds ==
  ASSUME IInv, Walked
  PROVE  /\ pc = "free" /\ block \in DOMAIN hdr /\ hdr[block].free
         /\ IF prev = NULL THEN block = free_list
                           ELSE prev \in DOMAIN hdr /\ hdr[prev].next = block
         /\ ~NextIsFree(block)
<1>1. /\ pc = "free" /\ block \in DOMAIN hdr /\ current \in DOMAIN hdr
      /\ hdr[block].free /\ List(hdr)
      /\ IF prev = NULL THEN current = free_list
                        ELSE prev \in DOMAIN hdr /\ hdr[prev].next = current
  BY DEF IInv, FreeWalked, Walked, Blocks
<1>2. current \in Int /\ 0 <= current /\ block \in Int
  BY <1>1, BlockIs
<1>3. current = block
  BY <1>2 DEF Walked, NULL
<1>4. hdr[block].next # NULL => hdr[block].next > block
  BY <1>1, BlockIs
<1>5. NextIsFree(block) => hdr[block].next = block /\ hdr[block].next # NULL
  BY <1>1 DEF IInv, Merged, Blocks, NextIsFree
<1> QED BY <1>1, <1>2, <1>3, <1>4, <1>5

LEMMA FreeKeepIInv == ASSUME IInv, FreeKeep PROVE IInv'
<1>1. List(hdr)' /\ OwnedOK' /\ Blocks' = Blocks /\ hdr' = hdr
  BY SameList DEF FreeKeep
<1>2. /\ block \in DOMAIN hdr /\ List(hdr)
      /\ IF prev = NULL THEN block = free_list
                        ELSE prev \in DOMAIN hdr /\ hdr[prev].next = block
      /\ ~PrevIsFree
  BY WalkEnds DEF FreeKeep, IInv
<1>3. ASSUME NEW b \in DOMAIN hdr, hdr[b].free, NextIsFree(b) PROVE FALSE
  <2>1. hdr[b].next = block /\ hdr[b].next # NULL
    BY <1>3 DEF IInv, Merged, NextIsFree, Blocks
  <2>2. CASE prev = NULL
    <3>1. hdr[b].next > b /\ b \in Int /\ 0 <= b
      BY <2>1, <1>2, BlockIs
    <3> QED BY <3>1, <2>1, <2>2, <1>2 DEF free_list
  <2>3. CASE prev # NULL
    <3>1. b = prev
      BY <2>1, <2>3, <1>2, OnePredecessor
    <3> QED BY <3>1, <2>3, <1>2, <1>3 DEF PrevIsFree
  <2> QED BY <2>2, <2>3
<1>4. Merged'
  BY <1>1, <1>3 DEF Merged, NextIsFree, Blocks
<1> QED
  BY <1>1, <1>4 DEF FreeKeep, Leave, IInv, LocalsOK, MallocWalked, FreeWalked

LEMMA FreeMergeIInv == ASSUME IInv, FreeMerge PROVE IInv'
<1> DEFINE k == Absorb(hdr, prev, block)
<1>1. /\ block \in DOMAIN hdr /\ prev \in DOMAIN hdr /\ List(hdr)
      /\ hdr[prev].next = block /\ hdr[prev].free /\ hdr[block].free
      /\ ~NextIsFree(block)
  BY WalkEnds DEF FreeMerge, PrevIsFree, IInv
<1>2. /\ List(k) /\ DOMAIN k = DOMAIN hdr \ {block}
      /\ prev \in DOMAIN hdr \ {block}
      /\ k[prev].free = TRUE /\ k[prev].next = hdr[block].next
      /\ \A c \in DOMAIN hdr \ {prev, block} : k[c] = hdr[c]
  <2>1. /\ block \in DOMAIN hdr /\ prev \in DOMAIN hdr /\ List(hdr)
        /\ hdr[prev].next = block
    BY <1>1
  <2>2. List(k)
    BY ONLY <2>1, AbsorbList
  <2>3. DOMAIN k = DOMAIN hdr \ {block}
    BY DEF Absorb
  <2>4. k[prev].free = TRUE /\ k[prev].next = hdr[block].next
    BY ONLY <2>1, AbsorbList
  <2>5. \A c \in DOMAIN hdr \ {prev, block} : k[c] = hdr[c]
    BY ONLY <2>1, AbsorbList
  <2>6. prev \in DOMAIN hdr \ {block}
    BY ONLY <2>1, AbsorbList
  <2> QED BY <2>2, <2>3, <2>4, <2>5, <2>6
<1>3. /\ hdr' = k /\ pc' = "idle" /\ current' = NULL /\ prev' = NULL
      /\ block' = NULL /\ UNCHANGED <<req, ret, owned>>
  BY DEF FreeMerge, Leave
<1> HIDE DEF k
<1>4. /\ List(hdr') /\ DOMAIN hdr' = DOMAIN hdr \ {block}
      /\ hdr'[prev].free = TRUE /\ hdr'[prev].next = hdr[block].next
      /\ \A c \in DOMAIN hdr \ {prev, block} : hdr'[c] = hdr[c]
  BY <1>2, <1>3
<1>5. LocalsOK'
  BY <1>3 DEF IInv, LocalsOK
<1>6. Merged'
  <2>1. ASSUME NEW a \in DOMAIN hdr', hdr'[a].free, NextIsFree(a)'
        PROVE  FALSE
    <3>1. /\ hdr'[a].next # NULL /\ hdr'[hdr'[a].next].free
          /\ hdr'[a].next \in DOMAIN hdr' /\ hdr'[a].next > a
          /\ a \in DOMAIN hdr /\ a # block /\ a \in Int
      BY <2>1, <1>4, BlockIs DEF NextIsFree, List
    <3>2. CASE a = prev
      <4>1. hdr'[a].next = hdr[block].next /\ hdr[block].next # prev
        BY <3>1, <3>2, <1>4
      <4>2. hdr'[hdr[block].next] = hdr[hdr[block].next]
        BY <3>1, <4>1, <1>4
      <4> QED BY <3>1, <4>1, <4>2, <1>1 DEF NextIsFree
    <3>3. CASE a # prev
      <4>1. hdr'[a] = hdr[a]
        BY <3>1, <3>3, <1>4
      <4>2. hdr[hdr[a].next].free
        BY <3>1, <4>1, <1>1, <1>4
      <4>3. hdr[a].next = block
        BY <2>1, <3>1, <4>1, <4>2 DEF IInv, Merged, NextIsFree, Blocks
      <4> QED BY <4>3, <4>1, <3>1, <3>3, <1>1, OnePredecessor
    <3> QED BY <3>2, <3>3
  <2> QED BY <2>1 DEF Merged, Blocks
<1>7. OwnedOK'
  <2>1. \A c \in DOMAIN hdr : hdr[c].free \in BOOLEAN /\ c \in Int
    BY <1>1, BlockIs
  <2>2. {c \in DOMAIN hdr' : ~hdr'[c].free} = {c \in DOMAIN hdr : ~hdr[c].free}
    BY <1>1, <1>4
  <2>3. DOMAIN owned = {c + HDR : c \in {d \in DOMAIN hdr : ~hdr[d].free}}
    BY DEF IInv, OwnedOK, Blocks
  <2>4. ASSUME NEW q \in DOMAIN owned PROVE owned[q] <= hdr'[q - HDR].size
    <3>1. PICK c \in {d \in DOMAIN hdr : ~hdr[d].free} : q = c + HDR
      BY <2>3
    <3>2. q - HDR = c /\ hdr'[c] = hdr[c]
      BY <3>1, <2>1, <1>1, <1>4, HeapAssumption
    <3> QED BY <3>2 DEF IInv, OwnedOK
  <2> QED BY <2>2, <2>3, <2>4, <1>3 DEF IInv, OwnedOK, Blocks
<1>8. MallocWalked' /\ FreeWalked'
  BY <1>3 DEF MallocWalked, FreeWalked
<1> QED BY <1>4, <1>5, <1>6, <1>7, <1>8 DEF IInv

\* Every step of the two functions preserves the inductive invariant.
LEMMA NextIInv == IInv /\ [Next]_vars => IInv'
<1> SUFFICES ASSUME IInv, [Next]_vars PROVE IInv'
  OBVIOUS
<1>1. CASE MallocCall
  BY <1>1, MallocCallIInv
<1>2. ASSUME NEW p \in DOMAIN owned, FreeCall(p) PROVE IInv'
  BY <1>2, FreeCallIInv
<1>3. CASE Step
  BY <1>3, MallocWalkIInv, MallocFailIInv, MallocSplitIInv, MallocWholeIInv,
     FreeWalkIInv, FreeMergeIInv, FreeKeepIInv DEF Step
<1>4. CASE UNCHANGED vars
  <2>1. List(hdr)' /\ OwnedOK' /\ Blocks' = Blocks /\ hdr' = hdr
    BY <1>4, SameList DEF vars
  <2> QED
    BY <1>4, <2>1 DEF vars, IInv, LocalsOK, Merged, NextIsFree, MallocWalked,
                      Fits, FreeWalked
<1> QED BY <1>1, <1>2, <1>3, <1>4 DEF Next

\* The inductive invariant holds in every reachable state.
THEOREM Invariant == Spec => []IInv
BY InitIInv, NextIInv, PTL DEF Spec

\* The headers and the local variables keep their ranges: no size wraps and no
\* link leaves the heap.
THEOREM TypeCorrect == Spec => []TypeOK
BY Invariant, IInvTypes, PTL

\* The block list always covers the heap without gap or overlap.
THEOREM HeapTiled == Spec => []Tiling
BY Invariant, IInvTypes, PTL

\* Between calls no two neighbouring blocks are both free.
THEOREM HeapCoalesced == Spec => []Coalesced
<1>1. IInv => Coalesced
  BY DEF IInv, Merged, Coalesced, NextIsFree
<1> QED BY Invariant, <1>1, PTL

\* The caller's pointers are the payloads of the blocks in use, and large
\* enough.
THEOREM OwnersSafe == Spec => []OwnedInUse
<1>1. IInv => OwnedInUse
  BY DEF IInv, OwnedOK, OwnedInUse
<1> QED BY Invariant, <1>1, PTL

\* The unsigned difference leftover never wraps.
THEOREM LeftoverDefined == Spec => []NoUnderflow
<1>1. IInv => NoUnderflow
  <2> SUFFICES ASSUME IInv, pc = "malloc", current # NULL, Fits(current)
               PROVE  RoundUp(req) <= hdr[current].size
    BY DEF NoUnderflow
  <2>1. current \in DOMAIN hdr /\ req \in Nat
    BY DEF IInv, LocalsOK, Blocks
  <2>2. hdr[current].size \in Nat /\ hdr[current].size % ALIGN = 0
    BY <2>1, BlockIs DEF IInv, List
  <2>3. req <= hdr[current].size
    BY <2>1, <2>2 DEF Fits
  <2> QED BY <2>1, <2>2, <2>3, RoundUpIs
<1> QED BY Invariant, <1>1, PTL

\* With nothing owned, everything is free, so nothing is left to merge and one
\* block is the whole heap.
LEMMA EmptyHeap ==
  ASSUME IInv, DOMAIN owned = {}, pc # "free"
  PROVE  hdr = [a \in {free_list} |->
                  [size |-> HEAP_SIZE - HDR, free |-> TRUE, next |-> NULL]]
<1>1. List(hdr) /\ 0 \in DOMAIN hdr
  BY DEF IInv, List, free_list
<1>2. \A b \in DOMAIN hdr : hdr[b].free = TRUE
  <2>1. \A b \in DOMAIN hdr : hdr[b].free \in BOOLEAN
    BY <1>1, BlockIs
  <2>2. \A b \in DOMAIN hdr : hdr[b].free
    BY DEF IInv, OwnedOK, Blocks
  <2> QED BY <2>1, <2>2
<1>3. hdr[0].next = NULL
  BY <1>1, <1>2 DEF IInv, Merged, NextIsFree, List, Blocks
<1>4. \A b \in DOMAIN hdr : b <= 0
  BY <1>1, <1>3, BeforeNext
<1>5. DOMAIN hdr = {0}
  BY <1>1, <1>4, BlockIs
<1>6. hdr[0] \in Headers /\ hdr[0].size \in Int
  BY <1>1, BlockIs
<1>7. End(hdr, 0) = HEAP_SIZE
  <2>1. End(hdr, 0) \in Int /\ 0 < End(hdr, 0)
    BY <1>1, BlockIs
  <2> QED BY <2>1, <1>1, <1>3 DEF List, NULL
<1>8. hdr[0].size = HEAP_SIZE - HDR
  BY <1>6, <1>7, HeapAssumption DEF End
<1>9. hdr[0] = [size |-> HEAP_SIZE - HDR, free |-> TRUE, next |-> NULL]
  BY <1>1, <1>2, <1>3, <1>6, <1>8 DEF Headers
<1>10. hdr = [a \in DOMAIN hdr |-> hdr[a]]
  BY <1>1 DEF List
<1> QED BY <1>5, <1>9, <1>10 DEF free_list

\* With nothing owned, the heap is the one free block of heap_init.
THEOREM HeapReclaimed == Spec => []Reclaimed
<1>1. IInv => Reclaimed
  BY EmptyHeap DEF Reclaimed
<1> QED BY Invariant, <1>1, PTL

\* my_malloc fails only when no block of the heap fits.
THEOREM FailureIsGenuine == Spec => FailsOnlyWhenNothingFits
<1>1. IInv /\ [Next]_vars => [MallocFail => \A b \in Blocks : ~Fits(b)]_vars
  BY DEF IInv, MallocWalked, MallocFail
<1> QED BY Invariant, <1>1, PTL DEF Spec, FailsOnlyWhenNothingFits

-----------------------------------------------------------------------------
(* The list of blocks implements the allocator the caller sees.            *)

\* Granting current is a grant of the abstract allocator: the payload is
\* aligned, inside the heap, and apart from every range the caller owns.
LEMMA GrantRefines ==
  ASSUME IInv, pc = "malloc", current # NULL, Fits(current), Return
  PROVE  Allocator!Grant
<1> DEFINE p == current + HDR
<1>1. /\ current \in DOMAIN hdr /\ List(hdr) /\ req \in Nat
      /\ hdr[current].free
  BY DEF IInv, LocalsOK, Blocks, Fits
<1>2. /\ current \in Int /\ 0 <= current /\ hdr[current].size \in Int
      /\ End(hdr, current) \in Int /\ End(hdr, current) <= HEAP_SIZE
      /\ current % ALIGN = 0 /\ req <= hdr[current].size
  BY <1>1, BlockIs DEF List, Fits
<1>3. p \in 0 .. HEAP_SIZE /\ p + req <= HEAP_SIZE
  BY <1>1, <1>2, HeapAssumption DEF End
<1>4. p % ALIGN = 0
  BY <1>2, HeapAssumption DEF ALIGN
<1>5. ASSUME NEW q \in DOMAIN owned
      PROVE  Allocator!Apart(q, owned[q], p, req)
  <2>1. /\ q - HDR \in DOMAIN hdr /\ hdr[q - HDR].free = FALSE
        /\ q \in Int /\ q = (q - HDR) + HDR
    BY OwnedBlock
  <2>2. /\ owned[q] \in Nat /\ owned[q] <= hdr[q - HDR].size
    BY DEF IInv, OwnedOK
  <2> DEFINE b == q - HDR
  <2>3. /\ b \in Int /\ hdr[b].size \in Int
        /\ End(hdr, b) = b + HDR + hdr[b].size
        /\ End(hdr, current) = current + HDR + hdr[current].size
    BY <1>1, <2>1, BlockIs DEF End
  <2>4. b # current
    BY <1>1, <2>1
  <2>5. /\ b < current => End(hdr, b) <= current
        /\ current < b => End(hdr, current) <= b
    BY <1>1, <2>1 DEF List
  <2>6. q = b + HDR
    BY <2>1
  <2> HIDE DEF b
  <2>7. owned[q] <= hdr[b].size
    BY <2>2 DEF b
  <2>8. q # p
    BY <2>3, <2>4, <2>6, <1>2, HeapAssumption
  <2>9. CASE b < current
    <3>1. q + owned[q] <= p
      BY <2>2, <2>3, <2>5, <2>6, <2>7, <2>9, <1>2, HeapAssumption
    <3> QED BY <2>8, <3>1 DEF Allocator!Apart
  <2>10. CASE current < b
    <3>1. p + req <= q
      BY <2>3, <2>5, <2>6, <2>10, <1>1, <1>2, HeapAssumption
    <3> QED BY <2>8, <3>1 DEF Allocator!Apart
  <2> QED BY <2>3, <2>4, <2>9, <2>10, <1>2
<1>6. /\ ret' = p /\ pc' = "idle" /\ req' = req
      /\ owned' = [q \in DOMAIN owned \cup {p} |-> IF q = p THEN req ELSE owned[q]]
  BY DEF Return, Leave
<1> HIDE DEF p
<1> QED BY <1>3, <1>4, <1>5, <1>6 DEF Allocator!Grant

\* my_malloc returns NULL only as the abstract allocator may refuse: something
\* is owned, or the request exceeds an empty heap.
LEMMA FailRefines == ASSUME IInv, MallocFail PROVE Allocator!Refuse
<1>1. ASSUME DOMAIN owned = {} PROVE req > HEAP_SIZE - HDR
  <2>1. hdr = [a \in {free_list} |-> [size |-> HEAP_SIZE - HDR,
                                      free |-> TRUE, next |-> NULL]]
    BY <1>1, EmptyHeap DEF MallocFail
  <2>2. free_list \in Blocks /\ ~Fits(free_list)
    BY <2>1 DEF IInv, MallocWalked, MallocFail, Blocks
  <2>3. hdr[free_list].free = TRUE /\ hdr[free_list].size = HEAP_SIZE - HDR
    BY <2>1
  <2> QED BY <2>2, <2>3, HeapAssumption DEF Fits, IInv, LocalsOK
<1> QED BY <1>1 DEF MallocFail, Leave, Allocator!Refuse

\* Each step is a step of the abstract allocator or leaves what it shows alone.
LEMMA StepRefines ==
  ASSUME IInv, [Next]_vars
  PROVE  [Allocator!Next]_Allocator!vars
<1>1. CASE MallocCall
  BY <1>1 DEF MallocCall, Allocator!Next, Allocator!Request
<1>2. ASSUME NEW p \in DOMAIN owned, FreeCall(p) PROVE Allocator!Next
  BY <1>2 DEF FreeCall, Allocator!Next, Allocator!Release
<1>3. CASE MallocWalk
  BY <1>3 DEF MallocWalk, Allocator!vars
<1>4. CASE MallocFail
  BY <1>4, FailRefines DEF Allocator!Next
<1>5. CASE MallocSplit
  BY <1>5, GrantRefines DEF MallocSplit, Allocator!Next
<1>6. CASE MallocWhole
  BY <1>6, GrantRefines DEF MallocWhole, Allocator!Next
<1>7. CASE FreeWalk
  BY <1>7 DEF FreeWalk, Allocator!vars
<1>8. CASE FreeMerge
  BY <1>8 DEF FreeMerge, Walked, Leave, Allocator!Next, Allocator!Released
<1>9. CASE FreeKeep
  BY <1>9 DEF FreeKeep, Walked, Leave, Allocator!Next, Allocator!Released
<1>10. CASE UNCHANGED vars
  BY <1>10 DEF vars, Allocator!vars
<1> QED
  BY <1>1, <1>2, <1>3, <1>4, <1>5, <1>6, <1>7, <1>8, <1>9, <1>10
     DEF Next, Step

\* heap_allocator.c implements the allocator its caller relies on.
THEOREM RefinesAllocator == Spec => AllocatorSpec
<1>1. Init => Allocator!Init
  BY DEF Init, Allocator!Init
<1> QED
  BY <1>1, Invariant, StepRefines, PTL DEF Spec, AllocatorSpec, Allocator!Spec
=============================================================================
