-------------------------- MODULE HashTable_proofs --------------------------
(***************************************************************************)
(* Theorems about the hash table of hash_table.c.                          *)
(***************************************************************************)
EXTENDS HashTable, FiniteSetTheorems, TLAPS

(* Chains.  Nothing here is about the table: L is a set of nodes, next[a]  *)
(* the node behind a, head[s] the first one of chain s, home[a] the chain  *)
(* a is in, and after[a] the set of all nodes behind a.                    *)

\* A walk that is at a will meet b.
Meets(a, b, after) == a # NULL /\ (b = a \/ b \in after[a])

\* after orders every chain, and the pointers lead from each node, and from
\* the head, to all that is behind it.
Chains(L, next, head, home, after) ==
  /\ NULL \notin L
  /\ \A a \in L : /\ home[a] \in Slots
                  /\ after[a] \subseteq L /\ a \notin after[a]
                  /\ next[a] \in L \cup {NULL}
  /\ \A s \in Slots : head[s] \in L \cup {NULL}
  /\ \A a, b \in L : b \in after[a] => /\ home[b] = home[a]
                                       /\ after[b] \subseteq after[a]
  /\ \A a, b \in L : home[a] = home[b] =>
                       a = b \/ b \in after[a] \/ a \in after[b]
  /\ \A a, b \in L : b \in after[a] <=> Meets(next[a], b, after)
  /\ \A s \in Slots, b \in L : home[b] = s <=> Meets(head[s], b, after)

\* A chain without its first node is a chain.
LEMMA DropHead ==
  ASSUME NEW L, NEW next, NEW head, NEW home, NEW after,
         Chains(L, next, head, home, after),
         NEW n0 \in L, head[home[n0]] = n0,
         NEW next2, NEW head2, NEW home2,
         \A a \in L \ {n0} : next2[a] = next[a] /\ home2[a] = home[a],
         \A s \in Slots : head2[s] = IF s = home[n0] THEN next[n0] ELSE head[s]
  PROVE  Chains(L \ {n0}, next2, head2, home2, [a \in L \ {n0} |-> after[a]])
<1> DEFINE M == L \ {n0}
           behind == [a \in M |-> after[a]]
<1> USE DEF Chains, Meets
<1>0. \A a \in M : behind[a] = after[a]
  OBVIOUS
<1> HIDE DEF behind
<1>1. \A a \in M : n0 \notin after[a] /\ next[a] # n0
  <2> SUFFICES ASSUME NEW a \in M, n0 \in after[a] \/ next[a] = n0 PROVE FALSE
    OBVIOUS
  <2>1. n0 \in after[a]
    OBVIOUS
  <2>2. home[a] = home[n0] /\ a \in after[n0]
    BY <2>1
  <2> QED BY <2>1, <2>2
<1>2. \A a \in M : /\ home2[a] \in Slots /\ next2[a] \in M \cup {NULL}
                   /\ behind[a] \subseteq M /\ a \notin behind[a]
  BY <1>0, <1>1
<1>3. \A a, b \in M : b \in behind[a] => /\ home2[b] = home2[a]
                                         /\ behind[b] \subseteq behind[a]
  BY <1>0
<1>4. \A a, b \in M : home2[a] = home2[b] =>
                        a = b \/ b \in behind[a] \/ a \in behind[b]
  BY <1>0
<1>5. \A a, b \in M : b \in behind[a] <=> Meets(next2[a], b, behind)
  BY <1>0, <1>1, <1>2
<1>6. \A s \in Slots : head2[s] \in M \cup {NULL}
  <2> SUFFICES ASSUME NEW s \in Slots PROVE head2[s] \in M \cup {NULL}
    OBVIOUS
  <2>1. CASE s = home[n0]
    <3>1. next[n0] # n0
      OBVIOUS
    <3> QED BY <2>1, <3>1
  <2>2. CASE s # home[n0]
    <3>1. head[s] # n0
      BY <2>2
    <3> QED BY <2>2, <3>1
  <2> QED BY <2>1, <2>2
<1>7. \A s \in Slots, b \in M : home2[b] = s <=> Meets(head2[s], b, behind)
  <2> SUFFICES ASSUME NEW s \in Slots, NEW b \in M
               PROVE  home2[b] = s <=> Meets(head2[s], b, behind)
    OBVIOUS
  <2>1. CASE s = home[n0]
    <3>1. home[b] = s <=> b \in after[n0]
      BY <2>1
    <3> QED BY <1>0, <1>6, <2>1, <3>1
  <2>2. CASE s # home[n0]
    BY <1>0, <1>6, <2>2
  <2> QED BY <2>1, <2>2
<1> HIDE DEF Meets
<1> QED BY <1>2, <1>3, <1>4, <1>5, <1>6, <1>7 DEF behind

\* A chain without a node further in, whose predecessor is made to point
\* behind it, is a chain.
LEMMA DropInner ==
  ASSUME NEW L, NEW next, NEW head, NEW home, NEW after,
         Chains(L, next, head, home, after),
         NEW p0 \in L, NEW n0 \in L, next[p0] = n0,
         NEW next2, NEW head2, NEW home2,
         \A a \in L \ {n0} : /\ next2[a] = IF a = p0 THEN next[n0] ELSE next[a]
                             /\ home2[a] = home[a],
         \A s \in Slots : head2[s] = head[s]
  PROVE  Chains(L \ {n0}, next2, head2, home2,
                [a \in L \ {n0} |-> after[a] \ {n0}])
<1> DEFINE M == L \ {n0}
           behind == [a \in M |-> after[a] \ {n0}]
<1> USE DEF Chains, Meets
<1>0. \A a, b \in M : b \in behind[a] <=> b \in after[a]
  OBVIOUS
<1>i. \A a \in M : behind[a] \subseteq M
  OBVIOUS
<1> HIDE DEF behind
<1>1. /\ p0 \in M /\ n0 \in after[p0]
      /\ \A b \in M : b \in after[p0] <=> b \in after[n0]
  OBVIOUS
<1>2. \A a \in M : a # p0 => next[a] # n0
  <2> SUFFICES ASSUME NEW a \in M, a # p0, next[a] = n0 PROVE FALSE
    OBVIOUS
  <2>1. /\ n0 \in after[a] /\ home[a] = home[p0]
        /\ \A b \in L : b \in after[a] <=> b = n0 \/ b \in after[n0]
    BY <1>1
  <2>2. a \in after[p0] \/ p0 \in after[a]
    BY <1>1, <2>1
  <2>3. a \in after[n0] \/ p0 \in after[n0]
    BY <1>1, <2>1, <2>2
  <2> QED BY <1>1, <2>1, <2>3
<1>3. \A a \in M : /\ home2[a] \in Slots /\ next2[a] \in M \cup {NULL}
                   /\ behind[a] \subseteq M /\ a \notin behind[a]
  <2>1. next[n0] # n0
    OBVIOUS
  <2> QED BY <1>0, <1>i, <1>1, <1>2, <2>1
<1>4. \A a, b \in M : b \in behind[a] => /\ home2[b] = home2[a]
                                         /\ behind[b] \subseteq behind[a]
  BY <1>0, <1>i
<1>5. \A a, b \in M : home2[a] = home2[b] =>
                        a = b \/ b \in behind[a] \/ a \in behind[b]
  BY <1>0
<1>6. \A a, b \in M : b \in behind[a] <=> Meets(next2[a], b, behind)
  <2> SUFFICES ASSUME NEW a \in M, NEW b \in M
               PROVE  b \in behind[a] <=> Meets(next2[a], b, behind)
    OBVIOUS
  <2>1. CASE a = p0
    BY <1>0, <1>1, <1>3, <2>1
  <2>2. CASE a # p0
    BY <1>0, <1>2, <1>3, <2>2
  <2> QED BY <2>1, <2>2
<1>7. \A s \in Slots : head[s] # n0
  <2> SUFFICES ASSUME NEW s \in Slots, head[s] = n0 PROVE FALSE
    OBVIOUS
  <2>1. home[n0] = s /\ home[p0] = s
    BY <1>1
  <2>2. p0 \in after[n0]
    BY <1>1, <2>1
  <2> QED BY <1>1, <2>2
<1>8. \A s \in Slots : head2[s] \in M \cup {NULL}
  BY <1>7
<1>9. \A s \in Slots, b \in M : home2[b] = s <=> Meets(head2[s], b, behind)
  BY <1>0, <1>8
<1> HIDE DEF Meets
<1> QED BY <1>3, <1>4, <1>5, <1>6, <1>8, <1>9 DEF behind

\* A new node in front of a chain makes a chain.
LEMMA AddHead ==
  ASSUME NEW L, NEW next, NEW head, NEW home, NEW after,
         Chains(L, next, head, home, after),
         NEW n0, n0 \notin L, n0 # NULL, NEW s0 \in Slots,
         NEW next2, NEW head2, NEW home2,
         \A a \in L : next2[a] = next[a] /\ home2[a] = home[a],
         next2[n0] = head[s0], home2[n0] = s0,
         \A s \in Slots : head2[s] = IF s = s0 THEN n0 ELSE head[s]
  PROVE  Chains(L \cup {n0}, next2, head2, home2,
                [a \in L \cup {n0} |-> IF a = n0 THEN {b \in L : home[b] = s0}
                                       ELSE after[a]])
<1> DEFINE M == L \cup {n0}
           behind == [a \in M |-> IF a = n0 THEN {b \in L : home[b] = s0}
                                  ELSE after[a]]
<1> USE DEF Chains, Meets
<1>0. /\ \A a \in L : behind[a] = after[a]
      /\ behind[n0] \subseteq L
      /\ \A b \in L : b \in behind[n0] <=> home[b] = s0
  OBVIOUS
<1> HIDE DEF behind
<1>1. \A a \in M : /\ home2[a] \in Slots /\ next2[a] \in M \cup {NULL}
                   /\ behind[a] \subseteq M /\ a \notin behind[a]
  BY <1>0
<1>2. \A a, b \in M : b \in behind[a] => /\ home2[b] = home2[a]
                                         /\ behind[b] \subseteq behind[a]
  <2> SUFFICES ASSUME NEW a \in M, NEW b \in M, b \in behind[a]
               PROVE  /\ home2[b] = home2[a]
                      /\ behind[b] \subseteq behind[a]
    OBVIOUS
  <2>1. b \in L
    BY <1>0
  <2>2. CASE a = n0
    BY <1>0, <2>1, <2>2
  <2>3. CASE a \in L
    BY <1>0, <2>1, <2>3
  <2> QED BY <2>2, <2>3
<1>3. \A a, b \in M : home2[a] = home2[b] =>
                        a = b \/ b \in behind[a] \/ a \in behind[b]
  BY <1>0
<1>4. \A a, b \in M : b \in behind[a] <=> Meets(next2[a], b, behind)
  <2> SUFFICES ASSUME NEW a \in M, NEW b \in M
               PROVE  b \in behind[a] <=> Meets(next2[a], b, behind)
    OBVIOUS
  <2>1. CASE a = n0
    BY <1>0, <2>1
  <2>2. CASE a \in L
    BY <1>0, <2>2
  <2> QED BY <2>1, <2>2
<1>5. \A s \in Slots : head2[s] \in M \cup {NULL}
  OBVIOUS
<1>6. \A s \in Slots, b \in M : home2[b] = s <=> Meets(head2[s], b, behind)
  <2> SUFFICES ASSUME NEW s \in Slots, NEW b \in M
               PROVE  home2[b] = s <=> Meets(head2[s], b, behind)
    OBVIOUS
  <2>1. CASE b = n0
    BY <1>0, <2>1
  <2>2. CASE b \in L
    BY <1>0, <2>2
  <2> QED BY <2>1, <2>2
<1> HIDE DEF Meets
<1> QED BY <1>1, <1>2, <1>3, <1>4, <1>5, <1>6 DEF behind

-----------------------------------------------------------------------------
(* The table.                                                              *)

\* The nodes that are in a chain: all but the one ht_insert is making.
InChains == {a \in DOMAIN nodes : ~(pc = "key" /\ a = n)}
NextOf == [a \in InChains |-> nodes[a].next]
HomeOf == [a \in InChains |-> Hash[Text(a)] % CAPACITY]
\* Where the chains begin.  ht_destroy is through with the buckets below i,
\* and what it has not freed of bucket i begins at n.
Heads == [s \in Slots |->
            IF capacity = 0 \/ (pc = "destroy" /\ s < i) THEN NULL
            ELSE IF pc = "destroy" /\ s = i THEN n
            ELSE buckets[s]]

Node == [key : KeyAddrs \cup {NULL}, value : Values,
         next : NodeAddrs \cup {NULL}]

MemoryOK ==
  /\ pc \in {"idle", "insert", "key", "get", "remove", "destroy"}
  /\ capacity \in {0, CAPACITY}
  /\ capacity = 0 => pc = "idle" /\ count = 0 /\ DOMAIN nodes = {}
  /\ DOMAIN buckets = (IF capacity = 0 THEN {} ELSE Slots)
  /\ buckets \in [DOMAIN buckets -> NodeAddrs \cup {NULL}]
  /\ nodes \in [DOMAIN nodes -> Node]
  /\ copies \in [DOMAIN copies -> Keys]
  /\ DOMAIN nodes \subseteq NodeAddrs /\ DOMAIN copies \subseteq KeyAddrs
  /\ key \in Keys /\ value \in Values /\ i \in 0 .. CAPACITY - 1
  /\ n \in NodeAddrs \cup {NULL} /\ prev \in NodeAddrs \cup {NULL}
  /\ pc = "idle" => n = NULL /\ prev = NULL
  /\ pc = "destroy" => prev = NULL
  /\ pc = "key" => n \in DOMAIN nodes /\ nodes[n].next = NULL

\* Every linked node has a key of its own, every key its node, and no text is
\* there twice.
OwnKeys == /\ \A a \in InChains : nodes[a].key \in DOMAIN copies
           /\ \A c \in DOMAIN copies : \E a \in InChains : nodes[a].key = c
           /\ \A a, b \in InChains : Text(a) = Text(b) => a = b

Counted == /\ count \in 0 .. Cardinality(NodeAddrs)
           /\ pc # "destroy" => count = Cardinality(InChains)

\* The walk is in the chain of the key, prev is right behind it, and if the
\* key is in the table the walk has yet to meet it.
WalkOK(after) ==
  /\ Walking => /\ n = NULL \/ (n \in InChains /\ HomeOf[n] = Index(key))
                /\ IF prev = NULL THEN n = buckets[Index(key)]
                                  ELSE prev \in InChains /\ NextOf[prev] = n
                /\ \A a \in InChains : Text(a) = key => Meets(n, a, after)
  /\ pc = "key" => /\ prev \in InChains \cup {NULL}
                   /\ \A a \in InChains : Text(a) # key

Chained == \E after \in [InChains -> SUBSET InChains] :
             Chains(InChains, NextOf, Heads, HomeOf, after) /\ WalkOK(after)

HashInv == MemoryOK /\ OwnKeys /\ Counted /\ Chained

-----------------------------------------------------------------------------
(* What the helpers of the model do.                                       *)

LEMMA WithWithout ==
  ASSUME NEW f, NEW a
  PROVE  /\ DOMAIN Without(f, a) = DOMAIN f \ {a}
         /\ \A x \in DOMAIN f \ {a} : Without(f, a)[x] = f[x]
         /\ \A v : /\ DOMAIN With(f, a, v) = DOMAIN f \cup {a}
                   /\ With(f, a, v)[a] = v
                   /\ \A x \in DOMAIN f \ {a} : With(f, a, v)[x] = f[x]
BY DEF With, Without

LEMMA FunctionSpaces ==
  ASSUME NEW S, NEW T, NEW f \in [S -> T], NEW a
  PROVE  /\ Without(f, a) \in [S \ {a} -> T]
         /\ \A v \in T : With(f, a, v) \in [S \cup {a} -> T]
BY DEF With, Without

\* A slot for every key, once the table is there.
LEMMA SlotOf ==
  /\ \A h \in Nat : h % CAPACITY \in Slots
  /\ capacity = CAPACITY => \A k \in Keys : Index(k) \in Slots
  /\ 0 \in Slots
BY HashAssumption DEF Slots, Index

LEMMA BlankNode == [key |-> NULL, value |-> NULL, next |-> NULL] \in Node
BY HashAssumption DEF Node

-----------------------------------------------------------------------------
(* Memory.                                                                 *)

LEMMA InitMemory == Init => MemoryOK
BY HashAssumption DEF Init, MemoryOK, None, Slots

\* A walk and ht_destroy are at a node that is in a chain.
LEMMA WalkNode ==
  ASSUME MemoryOK, Chained, Walking \/ pc = "destroy", n # NULL
  PROVE  n \in InChains /\ nodes[n] \in Node
<1>1. CASE Walking
  BY <1>1 DEF Chained, WalkOK, InChains, MemoryOK
<1>2. CASE pc = "destroy"
  <2>1. Heads[i] \in InChains \cup {NULL} /\ i \in Slots
    BY DEF Chained, Chains, MemoryOK, Slots
  <2>2. Heads[i] = n
    BY <1>2, <2>1, HashAssumption DEF Heads, MemoryOK, Slots
  <2> QED BY <2>1, <2>2 DEF InChains, MemoryOK
<1> QED BY <1>1, <1>2

LEMMA QuietMemory ==
  ASSUME MemoryOK, Chained, ht_init \/ Call \/ DestroyCall \/ Walk \/ ht_get
                            \/ DestroyNextBucket
  PROVE  MemoryOK'
<1> USE DEF MemoryOK, walk
<1>1. CASE ht_init
  BY <1>1, HashAssumption DEF ht_init
<1>2. CASE Call
  <2>1. n' \in NodeAddrs \cup {NULL}
    BY <1>2, SlotOf, HashAssumption DEF Call
  <2> QED BY <1>2, <2>1 DEF Call
<1>3. CASE DestroyCall
  <2>1. n' \in NodeAddrs \cup {NULL} /\ i' \in 0 .. CAPACITY - 1
    BY <1>3, SlotOf, HashAssumption DEF DestroyCall
  <2> QED BY <1>3, <2>1 DEF DestroyCall
<1>4. CASE Walk
  <2>1. nodes[n] \in Node
    BY <1>4, WalkNode DEF Walk
  <2> QED BY <1>4, <2>1 DEF Walk, Walking, Node
<1>5. CASE ht_get
  BY <1>5 DEF ht_get, Return
<1>6. CASE DestroyNextBucket
  <2>1. i + 1 \in 0 .. CAPACITY - 1 /\ capacity = CAPACITY
    BY <1>6, HashAssumption DEF DestroyNextBucket
  <2>2. n' \in NodeAddrs \cup {NULL} /\ i' \in 0 .. CAPACITY - 1
    BY <1>6, <2>1, HashAssumption DEF DestroyNextBucket, Slots
  <2> QED BY <1>6, <2>2 DEF DestroyNextBucket
<1> QED BY <1>1, <1>2, <1>3, <1>4, <1>5, <1>6

LEMMA InsertMemory ==
  ASSUME MemoryOK, Chained, ht_insert
  PROVE  MemoryOK'
<1> USE DEF MemoryOK, walk
<1>1. CASE InsertUpdate
  <2>1. n \in DOMAIN nodes /\ nodes[n] \in Node
    BY <1>1, WalkNode DEF InsertUpdate, Found, Walking, InChains
  <2>2. nodes' \in [DOMAIN nodes' -> Node] /\ DOMAIN nodes' = DOMAIN nodes
    BY <1>1, <2>1 DEF InsertUpdate, Node
  <2> QED BY <1>1, <2>2 DEF InsertUpdate, Return
<1>2. CASE InsertAllocateNode
  <2>1. CASE Return(FALSE) /\ UNCHANGED <<buckets, count, nodes, copies>>
    BY <2>1 DEF Return
  <2>2. ASSUME NEW a \in NodeAddrs \ DOMAIN nodes,
               nodes' = With(nodes, a, [key |-> NULL, value |-> NULL,
                                        next |-> NULL]),
               pc' = "key", n' = a,
               UNCHANGED <<buckets, capacity, count, copies, key, value, prev,
                           i, ret>>
        PROVE  MemoryOK'
    <3>1. /\ DOMAIN nodes' = DOMAIN nodes \cup {a}
          /\ nodes' \in [DOMAIN nodes' -> Node]
          /\ nodes'[a].next = NULL
      <4> DEFINE v == [key |-> NULL, value |-> NULL, next |-> NULL]
      <4>1. v \in Node /\ v.next = NULL
        BY BlankNode
      <4> HIDE DEF v
      <4>2. nodes' = With(nodes, a, v)
        BY <2>2 DEF v
      <4>3. With(nodes, a, v) \in [DOMAIN nodes \cup {a} -> Node]
        BY <4>1, FunctionSpaces
      <4>4. /\ DOMAIN With(nodes, a, v) = DOMAIN nodes \cup {a}
            /\ With(nodes, a, v)[a] = v
        BY DEF With
      <4> QED BY <4>1, <4>2, <4>3, <4>4
    <3>2. capacity # 0
      BY <1>2 DEF InsertAllocateNode
    <3> QED BY <2>2, <3>1, <3>2
  <2> QED BY <1>2, <2>1, <2>2 DEF InsertAllocateNode
<1>3. CASE InsertKeyFails
  <2>1. /\ nodes' \in [DOMAIN nodes' -> Node]
        /\ DOMAIN nodes' = DOMAIN nodes \ {n}
    <3>1. Without(nodes, n) \in [DOMAIN nodes \ {n} -> Node]
      BY FunctionSpaces
    <3> QED BY <1>3, <3>1 DEF InsertKeyFails
  <2> QED BY <1>3, <2>1 DEF InsertKeyFails, Return
<1>4. CASE InsertLink
  <2>1. Index(key) \in Slots /\ capacity = CAPACITY /\ n \in DOMAIN nodes
    BY <1>4, SlotOf DEF InsertLink
  <2>2. PICK c \in KeyAddrs \ DOMAIN copies :
          /\ copies' = With(copies, c, key)
          /\ nodes' = [Linked EXCEPT ![n].key = c, ![n].value = value]
    BY <1>4 DEF InsertLink
  <2>3. /\ copies' \in [DOMAIN copies' -> Keys]
        /\ DOMAIN copies' \subseteq KeyAddrs
    <3>1. With(copies, c, key) \in [DOMAIN copies \cup {c} -> Keys]
      BY FunctionSpaces
    <3> QED BY <2>2, <3>1
  <2>4. buckets[Index(key)] \in NodeAddrs \cup {NULL}
    BY <2>1, HashAssumption
  <2>5. Linked \in [DOMAIN nodes -> Node]
    BY <2>1, <2>4 DEF Linked, Node
  <2>6. nodes' \in [DOMAIN nodes' -> Node] /\ DOMAIN nodes' = DOMAIN nodes
    BY <2>1, <2>2, <2>5 DEF Node
  <2>7. /\ buckets' \in [DOMAIN buckets' -> NodeAddrs \cup {NULL}]
        /\ DOMAIN buckets' = DOMAIN buckets
    BY <1>4, <2>1 DEF InsertLink
  <2> QED BY <1>4, <2>1, <2>3, <2>6, <2>7 DEF InsertLink, Return
<1> QED BY <1>1, <1>2, <1>3, <1>4 DEF ht_insert

LEMMA RemoveMemory ==
  ASSUME MemoryOK, Chained, ht_remove
  PROVE  MemoryOK'
<1> USE DEF MemoryOK, walk
<1>1. CASE n = NULL \/ ~Found
  BY <1>1 DEF ht_remove, Found, Return
<1>2. CASE n # NULL /\ Found
  <2>1. n \in DOMAIN nodes /\ nodes[n].next \in NodeAddrs \cup {NULL}
    BY <1>2, WalkNode DEF ht_remove, Walking, InChains, Node
  <2>2. /\ Unlink /\ copies' = Without(copies, nodes[n].key) /\ capacity # 0
        /\ pc' = "idle" /\ n' = NULL /\ prev' = NULL
        /\ UNCHANGED <<capacity, key, value, i>>
    BY <1>2 DEF ht_remove, Return
  <2>3. /\ copies' \in [DOMAIN copies' -> Keys]
        /\ DOMAIN copies' \subseteq KeyAddrs
    <3>1. Without(copies, nodes[n].key)
            \in [DOMAIN copies \ {nodes[n].key} -> Keys]
      BY FunctionSpaces
    <3> QED BY <2>2, <3>1
  <2>4. /\ buckets' \in [DOMAIN buckets' -> NodeAddrs \cup {NULL}]
        /\ DOMAIN buckets' = DOMAIN buckets
    BY <2>1, <2>2 DEF Unlink
  <2>5. /\ nodes' \in [DOMAIN nodes' -> Node]
        /\ DOMAIN nodes' \subseteq DOMAIN nodes
    <3> DEFINE f == [nodes EXCEPT ![prev].next = nodes[n].next]
    <3>1. f \in [DOMAIN nodes -> Node]
      BY <2>1 DEF Node
    <3> HIDE DEF f
    <3>2. /\ Without(f, n) \in [DOMAIN nodes \ {n} -> Node]
          /\ Without(nodes, n) \in [DOMAIN nodes \ {n} -> Node]
      BY <3>1, FunctionSpaces
    <3>3. nodes' = Without(f, n) \/ nodes' = Without(nodes, n)
      BY <2>2 DEF Unlink, f
    <3> QED BY <3>2, <3>3
  <2> QED BY <2>2, <2>3, <2>4, <2>5
<1> QED BY <1>1, <1>2

LEMMA DestroyMemory ==
  ASSUME MemoryOK, Chained, DestroyNode \/ DestroyEnd
  PROVE  /\ DestroyNode => MemoryOK'
         /\ DestroyEnd /\ DOMAIN nodes = {} => MemoryOK'
<1> USE DEF MemoryOK, walk
<1>1. CASE DestroyNode
  <2>1. nodes[n] \in Node /\ n \in DOMAIN nodes
    BY <1>1, WalkNode DEF DestroyNode, InChains
  <2>2. Without(nodes, n) \in [DOMAIN nodes \ {n} -> Node]
    BY FunctionSpaces
  <2>3. Without(copies, nodes[n].key)
          \in [DOMAIN copies \ {nodes[n].key} -> Keys]
    BY FunctionSpaces
  <2>4. /\ nodes' \in [DOMAIN nodes' -> Node]
        /\ DOMAIN nodes' \subseteq NodeAddrs
        /\ copies' \in [DOMAIN copies' -> Keys]
        /\ DOMAIN copies' \subseteq KeyAddrs
        /\ n' \in NodeAddrs \cup {NULL}
    BY <1>1, <2>1, <2>2, <2>3 DEF DestroyNode, Node
  <2>5. capacity # 0
    BY <1>1 DEF DestroyNode
  <2> QED BY <1>1, <2>4, <2>5 DEF DestroyNode
<1>2. CASE DestroyEnd /\ DOMAIN nodes = {}
  BY <1>2, HashAssumption DEF DestroyEnd, None
<1> QED BY <1>1, <1>2

-----------------------------------------------------------------------------
(* Steps that leave the chains as they are.                                *)

Same == /\ InChains' = InChains /\ Heads' = Heads /\ copies' = copies
        /\ \A a \in InChains : /\ nodes'[a].next = nodes[a].next
                               /\ nodes'[a].key = nodes[a].key

LEMMA SameKeeps ==
  ASSUME MemoryOK, MemoryOK', Same
  PROVE  /\ NextOf' = NextOf /\ HomeOf' = HomeOf
         /\ OwnKeys => OwnKeys'
         /\ \A a \in InChains : Text(a)' = Text(a)
<1>1. \A a \in InChains : Text(a)' = Text(a)
  BY DEF Same, Text
<1>2. NextOf' = NextOf
  BY DEF Same, NextOf
<1>3. HomeOf' = HomeOf
  BY <1>1 DEF Same, HomeOf
<1>4. OwnKeys => OwnKeys'
  BY <1>1 DEF OwnKeys, Same
<1> QED BY <1>1, <1>2, <1>3, <1>4

\* The table is idle and allocated, or is being walked: the buckets are where
\* the chains begin.
LEMMA HeadsAreBuckets ==
  ASSUME MemoryOK, capacity # 0, pc # "destroy"
  PROVE  Heads = [s \in Slots |-> buckets[s]]
BY DEF Heads

LEMMA Quiet ==
  ASSUME MemoryOK, Chained,
         \/ ht_init \/ Call \/ Walk \/ InsertUpdate \/ InsertAllocateNode
         \/ InsertKeyFails \/ ht_get \/ (ht_remove /\ n = NULL)
         \/ DestroyCall \/ DestroyNextBucket \/ DestroyEnd
  PROVE  Same
<1> USE DEF Same, InChains
<1>1. CASE ht_init
  <2>1. Heads' = Heads
    BY <1>1, HashAssumption DEF ht_init, Heads, Slots
  <2> QED BY <1>1, <2>1 DEF ht_init, walk
<1>2. CASE Call
  <2>1. Heads' = Heads
    BY <1>2 DEF Call, Heads
  <2> QED BY <1>2, <2>1 DEF Call
<1>3. CASE Walk
  <2>1. Heads' = Heads
    BY <1>3 DEF Walk, Walking, Heads
  <2> QED BY <1>3, <2>1 DEF Walk, Walking
<1>4. CASE InsertUpdate
  <2>1. Heads' = Heads
    BY <1>4 DEF InsertUpdate, Heads, Return
  <2>2. nodes[n] \in Node /\ n \in DOMAIN nodes
    BY <1>4, WalkNode DEF InsertUpdate, Found, Walking, InChains
  <2> QED BY <1>4, <2>1, <2>2 DEF InsertUpdate, Return, MemoryOK, Node
<1>5. CASE InsertAllocateNode
  <2>1. Heads' = Heads
    BY <1>5 DEF InsertAllocateNode, Heads, Return
  <2>2. CASE Return(FALSE) /\ UNCHANGED <<buckets, count, nodes, copies>>
    BY <1>5, <2>1, <2>2 DEF Return, InsertAllocateNode
  <2>3. ASSUME NEW a \in NodeAddrs \ DOMAIN nodes,
               nodes' = With(nodes, a, [key |-> NULL, value |-> NULL,
                                        next |-> NULL]),
               pc' = "key", n' = a, copies' = copies
        PROVE  Same
    <3>1. InChains' = InChains /\ \A x \in InChains : nodes'[x] = nodes[x]
      BY <1>5, <2>3 DEF With, InsertAllocateNode
    <3> QED BY <2>1, <2>3, <3>1
  <2> QED BY <1>5, <2>2, <2>3 DEF InsertAllocateNode
<1>6. CASE InsertKeyFails
  <2>1. Heads' = Heads
    BY <1>6 DEF InsertKeyFails, Heads, Return
  <2>2. InChains' = InChains /\ \A x \in InChains : nodes'[x] = nodes[x]
    BY <1>6 DEF InsertKeyFails, Without, Return
  <2> QED BY <1>6, <2>1, <2>2 DEF InsertKeyFails
<1>7. CASE ht_get
  <2>1. Heads' = Heads
    BY <1>7 DEF ht_get, Heads, Return
  <2> QED BY <1>7, <2>1 DEF ht_get, Return
<1>8. CASE ht_remove /\ n = NULL
  <2>1. Heads' = Heads
    BY <1>8 DEF ht_remove, Heads, Return, Found
  <2> QED BY <1>8, <2>1 DEF ht_remove, Return, Found
<1>9. CASE DestroyCall
  <2>1. Heads' = Heads
    BY <1>9, HashAssumption DEF DestroyCall, Heads, Slots
  <2> QED BY <1>9, <2>1 DEF DestroyCall
<1>10. CASE DestroyNextBucket
  <2>1. Heads' = Heads
    BY <1>10, HashAssumption DEF DestroyNextBucket, Heads, Slots, MemoryOK
  <2> QED BY <1>10, <2>1 DEF DestroyNextBucket
<1>11. CASE DestroyEnd
  <2>1. Heads' = Heads
    BY <1>11, HashAssumption DEF DestroyEnd, Heads, Slots, MemoryOK
  <2> QED BY <1>11, <2>1 DEF DestroyEnd
<1> QED BY <1>1, <1>2, <1>3, <1>4, <1>5, <1>6, <1>7, <1>8, <1>9, <1>10, <1>11

\* A walk begins where the chain of its key does, and goes on along it; when
\* it ends, the key is not in the table.
LEMMA QuietChained ==
  ASSUME MemoryOK, MemoryOK', Chained,
         \/ ht_init \/ Call \/ Walk \/ InsertUpdate \/ InsertAllocateNode
         \/ InsertKeyFails \/ ht_get \/ (ht_remove /\ n = NULL)
         \/ DestroyCall \/ DestroyNextBucket \/ DestroyEnd
  PROVE  Chained'
<1>1. /\ InChains' = InChains /\ Heads' = Heads
      /\ NextOf' = NextOf /\ HomeOf' = HomeOf
      /\ \A a \in InChains : Text(a)' = Text(a)
  BY Quiet, SameKeeps DEF Same
<1>2. PICK after \in [InChains -> SUBSET InChains] :
        Chains(InChains, NextOf, Heads, HomeOf, after) /\ WalkOK(after)
  BY DEF Chained
<1>3. /\ Chains(InChains', NextOf', Heads', HomeOf', after)
      /\ after \in [InChains' -> SUBSET InChains']
  BY <1>1, <1>2
<1>4. SUFFICES (WalkOK(after))'
  BY <1>3 DEF Chained
<1>5. CASE Call
  <2>1. /\ Index(key)' \in Slots /\ capacity = CAPACITY /\ prev' = NULL
        /\ n' = buckets[Index(key)'] /\ pc' # "key" /\ buckets' = buckets
        /\ Index(key)' = Hash[key'] % CAPACITY
    BY <1>5, SlotOf, HashAssumption DEF Call, Index, MemoryOK
  <2>2. n' = Heads[Index(key)']
    BY <1>5, <2>1, HashAssumption DEF Heads, Call
  <2>3. n' = NULL \/ (n' \in InChains /\ HomeOf[n'] = Index(key)')
    BY <1>2, <2>1, <2>2 DEF Chains, Meets
  <2>4. ASSUME NEW a \in InChains, Text(a)' = key' PROVE Meets(n', a, after)
    <3>1. HomeOf[a] = Index(key)'
      BY <1>1, <2>1, <2>4 DEF HomeOf
    <3> QED BY <1>2, <2>1, <2>2, <3>1 DEF Chains
  <2> QED BY <1>1, <2>1, <2>3, <2>4 DEF WalkOK
<1>6. CASE Walk
  <2>1. /\ n # NULL /\ Text(n) # key /\ prev' = n /\ n' = nodes[n].next
        /\ pc' = pc /\ Walking /\ key' = key /\ capacity' = capacity
    BY <1>6 DEF Walk, Found
  <2>2. /\ n \in InChains /\ HomeOf[n] = Index(key) /\ Index(key)' = Index(key)
        /\ NextOf[n] = n'
    BY <1>2, <2>1 DEF WalkOK, NextOf, Index
  <2>3. n' = NULL \/ (n' \in InChains /\ HomeOf[n'] = Index(key))
    <3> SUFFICES ASSUME n' # NULL
                 PROVE  n' \in InChains /\ HomeOf[n'] = Index(key)
      OBVIOUS
    <3>1. n' \in InChains
      BY <1>2, <2>2 DEF Chains
    <3>2. n' \in after[n]
      BY <1>2, <2>2, <3>1 DEF Chains, Meets
    <3> QED BY <1>2, <2>2, <3>1, <3>2 DEF Chains
  <2>4. ASSUME NEW a \in InChains, Text(a) = key PROVE Meets(n', a, after)
    <3>1. a \in after[n]
      BY <1>2, <2>1, <2>4 DEF WalkOK, Meets
    <3> QED BY <1>2, <2>2, <3>1 DEF Chains
  <2>5. pc' # "key"
    BY <2>1 DEF Walking
  <2> QED BY <1>1, <2>1, <2>2, <2>3, <2>4, <2>5 DEF WalkOK
<1>7. CASE InsertAllocateNode /\ pc' = "key"
  <2>1. Walking /\ n = NULL /\ key' = key /\ prev' = prev
    BY <1>7 DEF InsertAllocateNode, Walking, Return
  <2>2. prev \in InChains \cup {NULL} /\ \A a \in InChains : Text(a) # key
    BY <1>2, <2>1 DEF WalkOK, Meets
  <2> QED BY <1>1, <1>7, <2>1, <2>2 DEF WalkOK, Walking
<1>8. CASE pc' \in {"idle", "destroy"}
  BY <1>8 DEF WalkOK, Walking
<1> QED BY <1>5, <1>6, <1>7, <1>8
        DEF ht_init, InsertUpdate, InsertAllocateNode, InsertKeyFails, ht_get,
            ht_remove, DestroyCall, DestroyNextBucket, DestroyEnd, Return

-----------------------------------------------------------------------------
(* Steps that change the chains.                                           *)

\* The new node comes in front of its key's chain.
Linking ==
  /\ n \notin InChains /\ n # NULL /\ InChains' = InChains \cup {n}
  /\ \A a \in InChains : /\ nodes'[a] = nodes[a]
                         /\ Text(a)' = Text(a)
  /\ nodes'[n].next = buckets[Index(key)] /\ nodes'[n].value = value
  /\ nodes'[n].key \notin DOMAIN copies
  /\ DOMAIN copies' = DOMAIN copies \cup {nodes'[n].key}
  /\ copies'[nodes'[n].key] = key
  /\ \A s \in Slots : Heads'[s] = IF s = Index(key) THEN n ELSE Heads[s]

LEMMA LinkEffect == ASSUME MemoryOK, OwnKeys, InsertLink PROVE Linking
<1>1. /\ Index(key) \in Slots /\ capacity = CAPACITY /\ n \in DOMAIN nodes
      /\ n \in NodeAddrs /\ n # NULL
  BY SlotOf, HashAssumption DEF InsertLink, MemoryOK
<1>2. PICK c \in KeyAddrs \ DOMAIN copies :
        /\ copies' = With(copies, c, key)
        /\ nodes' = [Linked EXCEPT ![n].key = c, ![n].value = value]
  BY DEF InsertLink
<1>3. pc = "key" /\ pc' = "idle" /\ capacity' = capacity
  BY DEF InsertLink, Return
<1>4. InChains = DOMAIN nodes \ {n} /\ InChains' = DOMAIN nodes
  BY <1>1, <1>2, <1>3 DEF InChains, Linked
<1>5. \A a \in InChains : nodes'[a] = nodes[a]
  BY <1>2, <1>4 DEF Linked
<1>6. /\ nodes'[n].next = buckets[Index(key)]
      /\ nodes'[n].value = value /\ nodes'[n].key = c
  <2>1. nodes[n] \in Node
    BY <1>1 DEF MemoryOK
  <2> QED BY <1>1, <1>2, <2>1 DEF Linked, Node, MemoryOK
<1>7. /\ DOMAIN copies' = DOMAIN copies \cup {c} /\ copies'[c] = key
      /\ \A x \in DOMAIN copies : copies'[x] = copies[x]
  BY <1>2 DEF With
<1>8. copies'[nodes'[n].key] = key /\ \A a \in InChains : Text(a)' = Text(a)
  <2>2. \A a \in InChains : Text(a)' = Text(a)
    <3> SUFFICES ASSUME NEW a \in InChains PROVE Text(a)' = Text(a)
      OBVIOUS
    <3>1. nodes'[a].key = nodes[a].key /\ nodes[a].key \in DOMAIN copies
      BY <1>5 DEF OwnKeys
    <3> QED BY <1>7, <3>1 DEF Text
  <2> QED BY <1>6, <1>7, <2>2
<1>9. \A s \in Slots : Heads'[s] = IF s = Index(key) THEN n ELSE Heads[s]
  BY <1>1, <1>3, HashAssumption DEF Heads, InsertLink, MemoryOK
<1> QED BY <1>1, <1>4, <1>5, <1>6, <1>7, <1>8, <1>9 DEF Linking

LEMMA LinkChained ==
  ASSUME MemoryOK, MemoryOK', Chained, OwnKeys, InsertLink
  PROVE  Chained' /\ OwnKeys'
<1>1. PICK after \in [InChains -> SUBSET InChains] :
        Chains(InChains, NextOf, Heads, HomeOf, after) /\ WalkOK(after)
  BY DEF Chained
<1>e. Linking
  BY LinkEffect
<1>2. /\ Index(key) \in Slots /\ capacity = CAPACITY /\ capacity' = CAPACITY
      /\ pc = "key" /\ pc' = "idle" /\ Index(key) = Hash[key] % CAPACITY
  BY SlotOf DEF InsertLink, MemoryOK, Return, Index
<1>3. Heads[Index(key)] = buckets[Index(key)]
  BY <1>2, HashAssumption DEF Heads
<1>4. /\ \A a \in InChains : NextOf'[a] = NextOf[a] /\ HomeOf'[a] = HomeOf[a]
      /\ NextOf'[n] = Heads[Index(key)] /\ HomeOf'[n] = Index(key)
  <2>1. /\ \A a \in InChains' : NextOf'[a] = nodes'[a].next
        /\ \A a \in InChains' :
             HomeOf'[a] = Hash[copies'[nodes'[a].key]] % CAPACITY
        /\ \A a \in InChains : NextOf[a] = nodes[a].next
        /\ \A a \in InChains :
             /\ HomeOf[a] = Hash[Text(a)] % CAPACITY
             /\ copies'[nodes'[a].key] = Text(a)'
    BY DEF NextOf, HomeOf, Text
  <2> QED BY <1>e, <1>2, <1>3, <2>1 DEF Linking
<1> DEFINE behind == [a \in InChains \cup {n} |->
                        IF a = n THEN {b \in InChains : HomeOf[b] = Index(key)}
                        ELSE after[a]]
<1>5. Chains(InChains \cup {n}, NextOf', Heads', HomeOf', behind)
  <2>1. /\ n \notin InChains /\ n # NULL
        /\ \A s \in Slots : Heads'[s] = IF s = Index(key) THEN n ELSE Heads[s]
    BY <1>e DEF Linking
  <2> QED BY <1>1, <1>2, <1>4, <2>1, AddHead
<1>6. behind \in [InChains' -> SUBSET InChains']
  BY <1>e, <1>1 DEF Linking
<1>7. Chained'
  <2>1. ASSUME NEW x PROVE WalkOK(x)'
    BY <1>2 DEF WalkOK, Walking
  <2> HIDE DEF behind
  <2>2. \E x \in [InChains' -> SUBSET InChains'] :
          Chains(InChains', NextOf', Heads', HomeOf', x)
    BY <1>e, <1>5, <1>6 DEF Linking
  <2> QED BY <2>1, <2>2 DEF Chained
<1>8. OwnKeys'
  <2>1. \A a \in InChains : Text(a) # key
    BY <1>1, <1>2 DEF WalkOK
  <2>2. \A a \in InChains : nodes'[a].key = nodes[a].key
    BY <1>e DEF Linking
  <2>3. \A a \in InChains' : Text(a)' = copies'[nodes'[a].key]
    BY DEF Text
  <2> QED BY <1>e, <2>1, <2>2, <2>3 DEF OwnKeys, Linking
<1> QED BY <1>7, <1>8

\* The node, and its key, are gone, and all the others are what they were.
Freeing ==
  /\ n \in InChains /\ InChains' = InChains \ {n}
  /\ \A a \in InChains \ {n} : /\ nodes'[a].key = nodes[a].key
                               /\ nodes'[a].value = nodes[a].value
                               /\ Text(a)' = Text(a)
  /\ DOMAIN copies' = DOMAIN copies \ {nodes[n].key}

LEMMA FreeKey ==
  ASSUME OwnKeys, n \in InChains, InChains' = InChains \ {n},
         copies' = Without(copies, nodes[n].key),
         \A a \in InChains \ {n} : /\ nodes'[a].key = nodes[a].key
                                   /\ nodes'[a].value = nodes[a].value
  PROVE  Freeing /\ OwnKeys'
<1>1. \A a \in InChains \ {n} : nodes[a].key # nodes[n].key
  BY DEF OwnKeys, Text
<1>2. /\ DOMAIN copies' = DOMAIN copies \ {nodes[n].key}
      /\ \A c \in DOMAIN copies \ {nodes[n].key} : copies'[c] = copies[c]
  BY DEF Without
<1>3. ASSUME NEW a \in InChains \ {n} PROVE Text(a)' = Text(a)
  <2>1. nodes'[a].key = nodes[a].key /\ nodes[a].key \in DOMAIN copies'
    BY <1>1, <1>2, <1>3 DEF OwnKeys
  <2> QED BY <1>2, <2>1 DEF Text
<1>4. Freeing
  BY <1>2, <1>3 DEF Freeing
<1>5. OwnKeys'
  BY <1>1, <1>2, <1>3 DEF OwnKeys
<1> QED BY <1>4, <1>5

LEMMA FreedMaps ==
  ASSUME Freeing, capacity = CAPACITY
  PROVE  /\ \A a \in InChains \ {n} : NextOf'[a] = nodes'[a].next
         /\ \A a \in InChains : NextOf[a] = nodes[a].next
         /\ \A a \in InChains \ {n} : HomeOf'[a] = HomeOf[a]
<1>1. \A a \in InChains' : /\ NextOf'[a] = nodes'[a].next
                           /\ HomeOf'[a] = Hash[Text(a)'] % CAPACITY
  BY DEF NextOf, HomeOf
<1>2. \A a \in InChains : /\ NextOf[a] = nodes[a].next
                          /\ HomeOf[a] = Hash[Text(a)] % CAPACITY
  BY DEF NextOf, HomeOf
<1> QED BY <1>1, <1>2 DEF Freeing

\* ht_remove at the head of a chain, and ht_destroy everywhere.
LEMMA FreeHead ==
  ASSUME MemoryOK, Chained, Freeing, capacity = CAPACITY,
         pc' \in {"idle", "destroy"},
         \A a \in InChains \ {n} : nodes'[a].next = nodes[a].next,
         Heads[HomeOf[n]] = n,
         \A s \in Slots : Heads'[s] = IF s = HomeOf[n] THEN nodes[n].next
                                      ELSE Heads[s]
  PROVE  Chained'
<1>1. PICK after \in [InChains -> SUBSET InChains] :
        Chains(InChains, NextOf, Heads, HomeOf, after)
  BY DEF Chained
<1> DEFINE behind == [a \in InChains \ {n} |-> after[a]]
<1>2. Chains(InChains \ {n}, NextOf', Heads', HomeOf', behind)
  <2>1. n \in InChains
    BY DEF Freeing
  <2>2. /\ \A a \in InChains \ {n} : /\ NextOf'[a] = NextOf[a]
                                     /\ HomeOf'[a] = HomeOf[a]
        /\ NextOf[n] = nodes[n].next
    BY <2>1, FreedMaps
  <2>3. \A s \in Slots : Heads'[s] = IF s = HomeOf[n] THEN NextOf[n]
                                     ELSE Heads[s]
    BY <2>2
  <2>4. Heads[HomeOf[n]] = n
    OBVIOUS
  <2> HIDE DEF behind
  <2>5. Chains(InChains \ {n}, NextOf', Heads', HomeOf',
               [a \in InChains \ {n} |-> after[a]])
    BY <1>1, <2>1, <2>2, <2>3, <2>4, DropHead, Z3T(30)
  <2> QED BY <2>5 DEF behind
<1>3. behind \in [InChains' -> SUBSET InChains']
  <2>1. \A a \in InChains \ {n} : behind[a] \subseteq InChains \ {n}
    BY <1>2 DEF Chains
  <2> QED BY <2>1 DEF Freeing
<1> HIDE DEF behind
<1>4. \E x \in [InChains' -> SUBSET InChains'] :
        Chains(InChains', NextOf', Heads', HomeOf', x)
  BY <1>2, <1>3 DEF Freeing
<1>5. ASSUME NEW x PROVE WalkOK(x)'
  BY DEF WalkOK, Walking
<1> QED BY <1>4, <1>5 DEF Chained

\* ht_remove further in.
LEMMA FreeInner ==
  ASSUME MemoryOK, Chained, Freeing, capacity = CAPACITY, pc' = "idle",
         prev \in InChains, NextOf[prev] = n, Heads' = Heads,
         \A a \in InChains \ {n} :
           nodes'[a].next = IF a = prev THEN nodes[n].next ELSE nodes[a].next
  PROVE  Chained'
<1>1. PICK after \in [InChains -> SUBSET InChains] :
        Chains(InChains, NextOf, Heads, HomeOf, after)
  BY DEF Chained
<1> DEFINE behind == [a \in InChains \ {n} |-> after[a] \ {n}]
<1>2. Chains(InChains \ {n}, NextOf', Heads', HomeOf', behind)
  <2>1. n \in InChains
    BY DEF Freeing
  <2>2. \A a \in InChains \ {n} :
          /\ NextOf'[a] = IF a = prev THEN NextOf[n] ELSE NextOf[a]
          /\ HomeOf'[a] = HomeOf[a]
    BY <2>1, FreedMaps
  <2>3. \A s \in Slots : Heads'[s] = Heads[s]
    OBVIOUS
  <2> QED BY <1>1, <2>1, <2>2, <2>3, DropInner
<1>3. behind \in [InChains' -> SUBSET InChains']
  BY <1>1 DEF Freeing
<1> HIDE DEF behind
<1>4. \E x \in [InChains' -> SUBSET InChains'] :
        Chains(InChains', NextOf', Heads', HomeOf', x)
  BY <1>2, <1>3 DEF Freeing
<1>5. ASSUME NEW x PROVE WalkOK(x)'
  BY DEF WalkOK, Walking
<1> QED BY <1>4, <1>5 DEF Chained

LEMMA RemoveChained ==
  ASSUME MemoryOK, Chained, OwnKeys, ht_remove, n # NULL
  PROVE  Chained' /\ OwnKeys' /\ Freeing
<1>1. /\ Found /\ Unlink /\ copies' = Without(copies, nodes[n].key)
      /\ pc = "remove" /\ pc' = "idle" /\ capacity' = capacity
  BY DEF ht_remove, Return
<1>2. PICK after \in [InChains -> SUBSET InChains] :
        Chains(InChains, NextOf, Heads, HomeOf, after) /\ WalkOK(after)
  BY DEF Chained
<1>3. /\ n \in InChains /\ HomeOf[n] = Index(key) /\ Index(key) \in Slots
      /\ IF prev = NULL THEN n = buckets[Index(key)]
                        ELSE prev \in InChains /\ NextOf[prev] = n
      /\ capacity = CAPACITY /\ InChains = DOMAIN nodes
  BY <1>1, <1>2, SlotOf DEF WalkOK, Walking, MemoryOK, InChains
<1>4. \A s \in Slots : Heads[s] = buckets[s] /\ Heads'[s] = buckets'[s]
  BY <1>1, <1>3, HashAssumption DEF Heads
<1>5. CASE prev = NULL
  <2>1. /\ buckets' = [buckets EXCEPT ![Index(key)] = nodes[n].next]
        /\ nodes' = Without(nodes, n)
    BY <1>1, <1>5 DEF Unlink
  <2>2. /\ InChains' = InChains \ {n}
        /\ \A a \in InChains \ {n} : nodes'[a] = nodes[a]
    BY <1>1, <1>3, <2>1 DEF Without, InChains
  <2>3. Freeing /\ OwnKeys'
    BY <1>1, <1>3, <2>2, FreeKey
  <2>4. \A s \in Slots : Heads'[s] = IF s = HomeOf[n] THEN nodes[n].next
                                     ELSE Heads[s]
    BY <1>3, <1>4, <2>1, HashAssumption DEF MemoryOK
  <2>5. Heads[HomeOf[n]] = n
    BY <1>3, <1>4, <1>5
  <2> QED BY <1>1, <1>3, <2>2, <2>3, <2>4, <2>5, FreeHead
<1>6. CASE prev # NULL
  <2> DEFINE f == [nodes EXCEPT ![prev].next = nodes[n].next]
  <2>1. buckets' = buckets /\ nodes' = Without(f, n)
    BY <1>1, <1>6 DEF Unlink
  <2>2. /\ prev \in DOMAIN nodes /\ nodes[prev] \in Node
        /\ DOMAIN f = DOMAIN nodes
    BY <1>3, <1>6 DEF MemoryOK
  <2>3. \A a \in InChains : /\ f[a].key = nodes[a].key
                            /\ f[a].value = nodes[a].value
                            /\ f[a].next = IF a = prev THEN nodes[n].next
                                           ELSE nodes[a].next
    BY <1>3, <2>2 DEF Node
  <2> HIDE DEF f
  <2>4. /\ InChains' = InChains \ {n}
        /\ \A a \in InChains \ {n} : nodes'[a] = f[a]
    BY <1>1, <1>3, <2>1, <2>2 DEF Without, InChains
  <2>5. Freeing /\ OwnKeys'
    BY <1>1, <1>3, <2>3, <2>4, FreeKey
  <2>6. Heads' = Heads
    BY <1>1, <2>1 DEF Heads
  <2> QED BY <1>1, <1>3, <1>6, <2>3, <2>4, <2>5, <2>6, FreeInner
<1> QED BY <1>5, <1>6

LEMMA DestroyChained ==
  ASSUME MemoryOK, Chained, OwnKeys, DestroyNode
  PROVE  Chained' /\ OwnKeys' /\ Freeing
<1>1. /\ pc = "destroy" /\ n # NULL /\ copies' = Without(copies, nodes[n].key)
      /\ nodes' = Without(nodes, n) /\ n' = nodes[n].next /\ pc' = pc
      /\ UNCHANGED <<buckets, capacity, i>>
  BY DEF DestroyNode
<1>2. /\ n \in InChains /\ InChains = DOMAIN nodes /\ i \in Slots
      /\ capacity = CAPACITY
  BY <1>1, WalkNode DEF InChains, MemoryOK, Slots
<1>3. /\ Heads[i] = n /\ Heads'[i] = n'
      /\ \A s \in Slots \ {i} : Heads'[s] = Heads[s]
  BY <1>1, <1>2, HashAssumption DEF Heads, Slots
<1>4. HomeOf[n] = i
  <2>1. PICK after \in [InChains -> SUBSET InChains] :
          Chains(InChains, NextOf, Heads, HomeOf, after)
    BY DEF Chained
  <2> QED BY <1>1, <1>2, <1>3, <2>1 DEF Chains, Meets
<1>5. /\ InChains' = InChains \ {n}
      /\ \A a \in InChains \ {n} : nodes'[a] = nodes[a]
  BY <1>1, <1>2 DEF Without, InChains
<1>6. Freeing /\ OwnKeys'
  BY <1>1, <1>2, <1>5, FreeKey
<1>7. Chained'
  BY <1>1, <1>2, <1>3, <1>4, <1>5, <1>6, FreeHead
<1> QED BY <1>6, <1>7

-----------------------------------------------------------------------------
(* The invariant.                                                          *)

LEMMA NodesFinite ==
  ASSUME NEW L \in SUBSET NodeAddrs
  PROVE  /\ IsFiniteSet(L) /\ Cardinality(L) \in Nat
         /\ Cardinality(NodeAddrs) \in Nat
         /\ Cardinality(L) <= Cardinality(NodeAddrs)
BY HashAssumption, FS_Subset, FS_CardinalityType

\* When ht_destroy has been through all buckets it has met all nodes.
LEMMA AllFreed ==
  ASSUME MemoryOK, Chained, DestroyEnd
  PROVE  DOMAIN nodes = {}
<1>1. \A s \in Slots : Heads[s] = NULL
  BY HashAssumption DEF DestroyEnd, Heads, Slots, MemoryOK
<1>2. InChains = DOMAIN nodes
  BY DEF DestroyEnd, InChains
<1>3. PICK after : Chains(InChains, NextOf, Heads, HomeOf, after)
  BY DEF Chained
<1>4. \A a \in InChains : HomeOf[a] \in Slots
  BY <1>3 DEF Chains
<1>5. \A s \in Slots, a \in InChains : HomeOf[a] = s <=> FALSE
  BY <1>1, <1>3 DEF Chains, Meets
<1> QED BY <1>2, <1>4, <1>5

LEMMA CountedStep ==
  ASSUME MemoryOK, MemoryOK', OwnKeys, Chained, Counted,
         \/ ht_init \/ Call \/ DestroyCall \/ Running
  PROVE  Counted'
<1> USE DEF Counted
<1>f. /\ IsFiniteSet(InChains) /\ Cardinality(InChains) \in Nat
      /\ Cardinality(NodeAddrs) \in Nat
      /\ Cardinality(InChains') <= Cardinality(NodeAddrs)
      /\ Cardinality(InChains') \in Nat
  <2>1. InChains \in SUBSET NodeAddrs /\ InChains' \in SUBSET NodeAddrs
    BY DEF MemoryOK, InChains
  <2> QED BY <2>1, NodesFinite
<1>1. CASE ht_init \/ DestroyEnd
  <2>1. count' = 0 /\ InChains' = {}
    BY <1>1, AllFreed DEF ht_init, DestroyEnd, MemoryOK, InChains
  <2> QED BY <1>f, <2>1, FS_EmptySet
<1>2. CASE \/ Call \/ Walk \/ InsertUpdate \/ InsertAllocateNode
           \/ InsertKeyFails \/ ht_get \/ (ht_remove /\ n = NULL)
           \/ DestroyCall \/ DestroyNextBucket
  <2>1. InChains' = InChains
    BY <1>2, Quiet DEF Same
  <2>2. count' = count /\ (pc' # "destroy" => pc # "destroy")
    BY <1>2 DEF Call, Walk, InsertUpdate, InsertAllocateNode, InsertKeyFails,
                ht_get, ht_remove, Found, DestroyCall, DestroyNextBucket,
                Return
  <2> QED BY <2>1, <2>2
<1>3. CASE InsertLink
  <2>1. Linking
    BY <1>3, LinkEffect
  <2>2. Cardinality(InChains') = Cardinality(InChains) + 1
    BY <1>f, <2>1, FS_AddElement DEF Linking
  <2>3. count' = count + 1 /\ pc = "key"
    BY <1>3 DEF InsertLink
  <2> QED BY <1>f, <2>2, <2>3
<1>4. CASE ht_remove /\ n # NULL
  <2>1. Freeing
    BY <1>4, RemoveChained
  <2>2. Cardinality(InChains') = Cardinality(InChains) - 1
    BY <1>f, <2>1, FS_RemoveElement DEF Freeing
  <2>3. count' = count - 1 /\ pc = "remove"
    BY <1>4 DEF ht_remove
  <2> QED BY <1>f, <2>2, <2>3
<1>5. CASE DestroyNode
  BY <1>5 DEF DestroyNode
<1> QED BY <1>1, <1>2, <1>3, <1>4, <1>5 DEF Running, ht_insert, ht_destroy

LEMMA InitInv == Init => HashInv
<1> SUFFICES ASSUME Init PROVE HashInv
  OBVIOUS
<1>1. MemoryOK
  BY InitMemory
<1>2. DOMAIN nodes = {} /\ DOMAIN copies = {} /\ InChains = {}
  BY DEF Init, None, InChains
<1>3. OwnKeys
  BY <1>2 DEF OwnKeys
<1>4. Counted
  BY <1>1, <1>2, NodesFinite, FS_EmptySet DEF Counted, Init
<1>5. \A s \in Slots : Heads[s] = NULL
  BY DEF Heads, Init
<1>6. \A x : Chains(InChains, NextOf, Heads, HomeOf, x) /\ WalkOK(x)
  BY <1>2, <1>5 DEF Chains, Meets, WalkOK, Walking, Init
<1>7. [a \in InChains |-> InChains] \in [InChains -> SUBSET InChains]
  OBVIOUS
<1>8. Chained
  BY <1>6, <1>7 DEF Chained
<1> QED BY <1>1, <1>3, <1>4, <1>8 DEF HashInv

LEMMA MemoryStep ==
  ASSUME MemoryOK, Chained, ht_init \/ Call \/ DestroyCall \/ Running
  PROVE  MemoryOK'
BY QuietMemory, InsertMemory, RemoveMemory, DestroyMemory, AllFreed
   DEF Running, ht_destroy

LEMMA StepInv == HashInv /\ [Next]_vars => HashInv'
<1> SUFFICES ASSUME HashInv, [Next]_vars PROVE HashInv'
  OBVIOUS
<1>1. MemoryOK /\ OwnKeys /\ Counted /\ Chained
  BY DEF HashInv
<1>2. CASE Next
  <2>1. MemoryOK'
    BY <1>1, <1>2, MemoryStep DEF Next
  <2>2. Counted'
    BY <1>1, <1>2, <2>1, CountedStep DEF Next
  <2>3. CASE \/ ht_init \/ Call \/ Walk \/ InsertUpdate \/ InsertAllocateNode
             \/ InsertKeyFails \/ ht_get \/ (ht_remove /\ n = NULL)
             \/ DestroyCall \/ DestroyNextBucket \/ DestroyEnd
    <3>1. Chained'
      BY <1>1, <2>1, <2>3, QuietChained
    <3>2. Same
      BY <1>1, <2>3, Quiet
    <3>3. OwnKeys'
      BY <1>1, <2>1, <3>2, SameKeeps
    <3> QED BY <2>1, <2>2, <3>1, <3>3 DEF HashInv
  <2>4. CASE InsertLink
    BY <1>1, <2>1, <2>2, <2>4, LinkChained DEF HashInv
  <2>5. CASE ht_remove /\ n # NULL
    BY <1>1, <2>1, <2>2, <2>5, RemoveChained DEF HashInv
  <2>6. CASE DestroyNode
    BY <1>1, <2>1, <2>2, <2>6, DestroyChained DEF HashInv
  <2> QED BY <1>2, <2>3, <2>4, <2>5, <2>6
          DEF Next, Running, ht_insert, ht_destroy
<1>3. CASE UNCHANGED vars
  <2> USE <1>3 DEF vars, walk
  <2>1. InChains' = InChains /\ NextOf' = NextOf /\ Heads' = Heads
    BY DEF InChains, NextOf, Heads
  <2>2. HomeOf' = HomeOf
    BY <2>1 DEF HomeOf, Text
  <2>3. Chained'
    BY <1>1, <2>1, <2>2 DEF Chained, WalkOK, Walking, Index, Text
  <2>4. MemoryOK' /\ OwnKeys' /\ Counted'
    BY <1>1, <2>1 DEF MemoryOK, OwnKeys, Counted, Text
  <2> QED BY <2>3, <2>4 DEF HashInv
<1> QED BY <1>2, <1>3

LEMMA Invariant == Spec => []HashInv
BY InitInv, StepInv, PTL DEF Spec

-----------------------------------------------------------------------------
(* What the table and a walk point at is allocated: type correctness.      *)
THEOREM TypeCorrect == Spec => []TypeOK
<1>1. HashInv => TypeOK
  <2> SUFFICES ASSUME HashInv PROVE TypeOK
    OBVIOUS
  <2> USE DEF HashInv
  <2>1. PICK after :
          Chains(InChains, NextOf, Heads, HomeOf, after) /\ WalkOK(after)
    BY DEF Chained
  <2>2. InChains \subseteq DOMAIN nodes /\ InChains \subseteq NodeAddrs
    BY DEF InChains, MemoryOK
  <2>3. ASSUME NEW s \in DOMAIN buckets, pc # "destroy" \/ s > i
        PROVE  buckets[s] \in Live
    <3>1. s \in Slots /\ capacity # 0 /\ i \in Slots
      BY DEF MemoryOK, Slots
    <3>2. Heads[s] = buckets[s]
      BY <2>3, <3>1, HashAssumption DEF Heads, Slots
    <3> QED BY <2>1, <2>2, <3>1, <3>2 DEF Chains, Live
  <2>4. ASSUME NEW a \in DOMAIN nodes
        PROVE  /\ nodes[a].next \in Live
               /\ nodes[a].key \in DOMAIN copies \/ (pc = "key" /\ a = n)
    <3>1. CASE a \in InChains
      BY <2>1, <2>2, <3>1 DEF Chains, NextOf, Live, OwnKeys
    <3>2. CASE pc = "key" /\ a = n
      BY <3>2 DEF MemoryOK, Live
    <3> QED BY <3>1, <3>2 DEF InChains
  <2>5. n \in Live
    <3>1. CASE n = NULL \/ pc = "key"
      BY <3>1 DEF MemoryOK, Live
    <3>2. CASE n # NULL /\ pc # "key"
      BY <2>2, <3>2, WalkNode DEF MemoryOK, Live, Walking
    <3> QED BY <3>1, <3>2
  <2>6. prev \in Live
    BY <2>1, <2>2 DEF WalkOK, Walking, MemoryOK, Live
  <2>7. count \in 0 .. Cardinality(NodeAddrs)
    BY DEF Counted
  <2> QED BY <2>3, <2>4, <2>5, <2>6, <2>7 DEF TypeOK, MemoryOK
<1> QED BY <1>1, Invariant, PTL

-----------------------------------------------------------------------------
\* As many values as arguments, when no value is there twice.
LEMMA InjectiveImage ==
  ASSUME NEW S, IsFiniteSet(S), NEW f, \A a, b \in S : f[a] = f[b] => a = b
  PROVE  /\ IsFiniteSet({f[a] : a \in S})
         /\ Cardinality({f[a] : a \in S}) = Cardinality(S)
<1> DEFINE T == {f[a] : a \in S}
           g == [a \in S |-> f[a]]
<1>1. g \in Bijection(S, T)
  BY DEF Bijection, Injection, Surjection, IsInjective
<1>2. ExistsBijection(S, T)
  BY <1>1 DEF ExistsBijection
<1> HIDE DEF T, g
<1>3. IsFiniteSet(T) /\ Cardinality(T) = Cardinality(S)
  BY <1>2, FS_Bijection
<1> QED BY <1>3 DEF T

\* Between calls the blocks allocated are the counted nodes and a key for
\* each: no call leaks or loses a block.
THEOREM NoLeakHolds == Spec => []NoLeak
<1>1. HashInv => NoLeak
  <2> SUFFICES ASSUME HashInv, pc = "idle"
               PROVE  /\ Cardinality(DOMAIN nodes) = count
                      /\ DOMAIN copies = {nodes[a].key : a \in DOMAIN nodes}
                      /\ Cardinality(DOMAIN copies) = count
                      /\ capacity = 0 => nodes = None
    BY DEF NoLeak
  <2> USE DEF HashInv
  <2>1. InChains = DOMAIN nodes
    BY DEF InChains
  <2>2. Cardinality(DOMAIN nodes) = count
    BY <2>1 DEF Counted
  <2>3. DOMAIN copies = {nodes[a].key : a \in DOMAIN nodes}
    <3>1. \A a \in DOMAIN nodes : nodes[a].key \in DOMAIN copies
      BY <2>1 DEF OwnKeys
    <3>2. \A c \in DOMAIN copies : \E a \in DOMAIN nodes : nodes[a].key = c
      BY <2>1 DEF OwnKeys
    <3> QED BY <3>1, <3>2
  <2>4. Cardinality(DOMAIN copies) = count
    <3> DEFINE f == [a \in DOMAIN nodes |-> nodes[a].key]
    <3>1. \A a, b \in DOMAIN nodes : f[a] = f[b] => a = b
      BY <2>1 DEF OwnKeys, Text
    <3>2. DOMAIN copies = {f[a] : a \in DOMAIN nodes}
      BY <2>3
    <3> HIDE DEF f
    <3>3. IsFiniteSet(DOMAIN nodes)
      BY NodesFinite DEF MemoryOK
    <3>4. Cardinality({f[a] : a \in DOMAIN nodes}) = Cardinality(DOMAIN nodes)
      BY <3>1, <3>3, InjectiveImage
    <3> QED BY <2>2, <3>2, <3>4
  <2>5. capacity = 0 => nodes = None
    BY DEF MemoryOK, None
  <2> QED BY <2>2, <2>3, <2>4, <2>5
<1> QED BY <1>1, Invariant, PTL

-----------------------------------------------------------------------------
(* The table as its caller sees it.                                        *)

Table == [k \in {Text(a) : a \in Entries} |->
            nodes[CHOOSE a \in Entries : Text(a) = k].value]
Op == IF pc = "key" THEN "insert" ELSE pc

Seen == INSTANCE KeyedMap WITH table <- Table, size <- count, op <- Op

\* What the table holds, without its representation.
TableOK ==
  /\ Table = [k \in DOMAIN Table |-> Table[k]]
  /\ pc = "destroy" => DOMAIN Table = {}
  /\ pc # "destroy" =>
       /\ \A a \in InChains : /\ Text(a) \in DOMAIN Table
                              /\ Table[Text(a)] = nodes[a].value
       /\ \A k \in DOMAIN Table : \E a \in InChains : Text(a) = k
       /\ Cardinality(DOMAIN Table) = count

LEMMA TableIs == HashInv => TableOK
<1> SUFFICES ASSUME HashInv PROVE TableOK
  OBVIOUS
<1> USE DEF HashInv
<1>1. Table = [k \in DOMAIN Table |-> Table[k]]
  BY DEF Table
<1>2. DOMAIN Table = {Text(a) : a \in Entries}
  BY DEF Table
<1>3. CASE pc = "destroy"
  <2>1. Entries = {}
    BY <1>3 DEF Entries
  <2> QED BY <1>1, <1>2, <1>3, <2>1 DEF TableOK
<1>4. CASE pc # "destroy"
  <2>1. Entries = InChains
    BY <1>4 DEF Entries, InChains
  <2>2. ASSUME NEW a \in InChains
        PROVE  Text(a) \in DOMAIN Table /\ Table[Text(a)] = nodes[a].value
    <3>1. Text(a) \in {Text(b) : b \in Entries}
      BY <2>1
    <3>2. Table[Text(a)]
            = nodes[CHOOSE b \in Entries : Text(b) = Text(a)].value
      BY <3>1 DEF Table
    <3>3. \A b \in Entries : Text(b) = Text(a) => b = a
      BY <2>1 DEF OwnKeys
    <3>4. (CHOOSE b \in Entries : Text(b) = Text(a)) = a
      BY <2>1, <3>3
    <3> QED BY <1>2, <3>1, <3>2, <3>4
  <2>3. \A k \in DOMAIN Table : \E a \in InChains : Text(a) = k
    BY <1>2, <2>1
  <2>4. Cardinality(DOMAIN Table) = count
    <3> DEFINE f == [a \in InChains |-> Text(a)]
    <3>1. \A a, b \in InChains : f[a] = f[b] => a = b
      BY DEF OwnKeys
    <3>2. DOMAIN Table = {f[a] : a \in InChains}
      BY <1>2, <2>1
    <3> HIDE DEF f
    <3>3. IsFiniteSet(InChains)
      BY NodesFinite DEF MemoryOK, InChains
    <3>4. Cardinality({f[a] : a \in InChains}) = Cardinality(InChains)
      BY <3>1, <3>3, InjectiveImage
    <3> QED BY <1>4, <3>2, <3>4 DEF Counted
  <2> QED BY <1>1, <1>4, <2>2, <2>3, <2>4 DEF TableOK
<1> QED BY <1>3, <1>4

LEMMA SameFunction ==
  ASSUME NEW f, NEW g, f = [x \in DOMAIN f |-> f[x]],
         g = [x \in DOMAIN g |-> g[x]],
         \A x : x \in DOMAIN f <=> x \in DOMAIN g,
         \A x \in DOMAIN f : f[x] = g[x]
  PROVE  f = g
<1>1. DOMAIN f = DOMAIN g
  OBVIOUS
<1> QED BY <1>1

\* The walk has found the key, or the key is not in the table.
LEMMA WalkEnd ==
  ASSUME HashInv, TableOK
  PROVE  /\ Walking /\ Found => /\ n \in InChains /\ Text(n) = key
                                /\ key \in DOMAIN Table
                                /\ Table[key] = nodes[n].value
         /\ Walking /\ n = NULL => key \notin DOMAIN Table
         /\ pc = "key" => key \notin DOMAIN Table
<1> USE DEF HashInv
<1>1. PICK after : WalkOK(after)
  BY DEF Chained
<1>2. ASSUME Walking, Found
      PROVE  /\ n \in InChains /\ Text(n) = key /\ key \in DOMAIN Table
             /\ Table[key] = nodes[n].value
  <2>1. n \in InChains /\ Text(n) = key /\ pc # "destroy"
    BY <1>2, WalkNode DEF Found, Walking
  <2> QED BY <2>1 DEF TableOK
<1>3. ASSUME (Walking /\ n = NULL) \/ pc = "key" PROVE key \notin DOMAIN Table
  <2>1. \A a \in InChains : Text(a) # key
    BY <1>1, <1>3 DEF WalkOK, Meets
  <2> QED BY <1>3, <2>1 DEF TableOK, Walking
<1> QED BY <1>2, <1>3

\* A step that leaves the chains and the values as they are leaves the table
\* as it is, unless it begins ht_destroy.
LEMMA SameTable ==
  ASSUME MemoryOK, MemoryOK', TableOK, TableOK', Same,
         pc = "destroy" <=> pc' = "destroy",
         \A a \in InChains : nodes'[a].value = nodes[a].value
  PROVE  Table' = Table
<1>1. \A a \in InChains : Text(a)' = Text(a)
  BY SameKeeps
<1>2. CASE pc = "destroy"
  BY <1>2, SameFunction DEF TableOK
<1>3. CASE pc # "destroy"
  <2>1. \A k \in DOMAIN Table : k \in DOMAIN Table' /\ Table[k] = Table'[k]
    BY <1>1, <1>3 DEF TableOK, Same
  <2>2. \A k \in DOMAIN Table' : k \in DOMAIN Table
    BY <1>1, <1>3 DEF TableOK, Same
  <2>3. /\ Table = [k \in DOMAIN Table |-> Table[k]]
        /\ Table' = [k \in DOMAIN Table' |-> Table'[k]]
    BY DEF TableOK
  <2> HIDE DEF Table
  <2> QED BY <2>1, <2>2, <2>3, SameFunction
<1> QED BY <1>2, <1>3

-----------------------------------------------------------------------------
(* Every step is one of the map's, or none.                                *)

Facts == HashInv /\ TableOK
Shown == <<Table, count, Op, key, value, ret>>

\* The module of the map counts as this one does.
LEMMA Counts == \A S : /\ Seen!Cardinality(S) = Cardinality(S)
                       /\ Map!Cardinality(S) = Cardinality(S)
BY DEF Seen!Cardinality, Map!Cardinality, Cardinality

LEMMA HiddenSteps ==
  ASSUME Facts, Facts',
         \/ ht_init \/ Walk \/ (InsertAllocateNode /\ pc' = "key")
         \/ DestroyNode \/ DestroyNextBucket
  PROVE  UNCHANGED Shown
<1> USE DEF Facts, HashInv
<1>1. UNCHANGED <<count, Op, key, value, ret>>
  BY DEF ht_init, Walk, InsertAllocateNode, DestroyNode, DestroyNextBucket,
         MemoryOK, Op, walk, Return
<1>2. pc = "destroy" <=> pc' = "destroy"
  BY DEF ht_init, Walk, InsertAllocateNode, DestroyNode, DestroyNextBucket,
         walk, Return
<1>3. CASE DestroyNode
  <2>1. pc = "destroy" /\ pc' = "destroy"
    BY <1>3 DEF DestroyNode
  <2>2. Table = [k \in DOMAIN Table |-> Table[k]] /\ DOMAIN Table = {}
    BY <2>1 DEF TableOK
  <2>3. Table' = [k \in DOMAIN Table' |-> Table'[k]] /\ DOMAIN Table' = {}
    BY <2>1 DEF TableOK
  <2> HIDE DEF Table
  <2>4. Table' = Table
    BY <2>2, <2>3, SameFunction
  <2> QED BY <1>1, <2>4 DEF Shown
<1>4. CASE ~DestroyNode
  <2>1. Same
    BY <1>4, Quiet
  <2>2. \A a \in InChains : nodes'[a].value = nodes[a].value
    BY <1>4 DEF ht_init, Walk, InsertAllocateNode, DestroyNextBucket, With,
                InChains, Return
  <2>3. Table' = Table
    BY <1>2, <2>1, <2>2, SameTable
  <2> QED BY <1>1, <2>3 DEF Shown
<1> QED BY <1>3, <1>4

LEMMA CallStep ==
  ASSUME Facts, Facts', Call \/ DestroyCall
  PROVE  Seen!Ask
<1> USE DEF Facts, HashInv
<1>1. CASE Call
  <2>1. Same
    BY <1>1, Quiet
  <2>2. /\ pc = "idle" /\ pc' \in {"insert", "get", "remove"}
        /\ key' \in Keys /\ value' \in Values
        /\ nodes' = nodes /\ count' = count /\ ret' = ret
    BY <1>1 DEF Call
  <2>3. Table' = Table
    BY <2>1, <2>2, SameTable
  <2>4. Op = "idle" /\ Op' \in {"insert", "get", "remove"}
    BY <2>2 DEF Op
  <2> QED BY <2>2, <2>3, <2>4 DEF Seen!Ask
<1>2. CASE DestroyCall
  <2>1. pc = "idle" /\ pc' = "destroy" /\ UNCHANGED <<count, key, value, ret>>
    BY <1>2 DEF DestroyCall
  <2>2. Table' = [k \in DOMAIN Table' |-> Table'[k]] /\ DOMAIN Table' = {}
    BY <2>1 DEF TableOK
  <2>3. Table' = Seen!Empty
    BY <2>2 DEF Seen!Empty
  <2>4. Op = "idle" /\ Op' = "destroy"
    BY <2>1 DEF Op
  <2> QED BY <2>1, <2>3, <2>4 DEF Seen!Ask
<1> QED BY <1>1, <1>2

LEMMA InsertReply ==
  ASSUME Facts, Facts', ht_insert, pc' = "idle"
  PROVE  Seen!Reply
<1> USE DEF Facts, HashInv
<1> DEFINE with == [k \in DOMAIN Table \cup {key} |->
                      IF k = key THEN value ELSE Table[k]]
<1>1. /\ pc \in {"insert", "key"} /\ Op = "insert" /\ Op' = "idle"
      /\ UNCHANGED <<key, value>>
  BY DEF ht_insert, InsertUpdate, InsertAllocateNode, InsertKeyFails,
         InsertLink, Return, Op
<1>2. count = Cardinality(DOMAIN Table) /\ count' = Cardinality(DOMAIN Table')
  BY <1>1 DEF TableOK
<1>t. /\ Table = [k \in DOMAIN Table |-> Table[k]]
      /\ Table' = [k \in DOMAIN Table' |-> Table'[k]]
      /\ with = [k \in DOMAIN with |-> with[k]]
      /\ DOMAIN with = DOMAIN Table \cup {key} /\ with[key] = value
      /\ \A k \in DOMAIN Table \ {key} : with[k] = Table[k]
  BY DEF TableOK
<1> HIDE DEF with
<1>3. CASE InsertUpdate
  <2>1. /\ n \in InChains /\ Text(n) = key /\ key \in DOMAIN Table
        /\ ret' = TRUE /\ nodes' = [nodes EXCEPT ![n].value = value]
    BY <1>3, WalkEnd DEF InsertUpdate, Walking, Return
  <2>2. /\ InChains' = InChains
        /\ \A a \in InChains : Text(a)' = Text(a)
        /\ \A a \in InChains : Text(a) = key => a = n
    BY <1>3, <2>1, Quiet, SameKeeps DEF Same, OwnKeys
  <2>3. \A a \in InChains : nodes'[a].value = IF a = n THEN value
                                              ELSE nodes[a].value
    BY <2>1 DEF InChains, MemoryOK, Node
  <2>4. \A k : k \in DOMAIN Table' <=> k \in DOMAIN with
    BY <1>1, <1>t, <2>1, <2>2 DEF TableOK
  <2>5. ASSUME NEW k \in DOMAIN Table' PROVE Table'[k] = with[k]
    <3>1. PICK a \in InChains : Text(a) = k
      BY <1>1, <1>t, <2>1, <2>2, <2>5 DEF TableOK
    <3>2. Table'[k] = nodes'[a].value /\ Table[k] = nodes[a].value
      BY <1>1, <2>2, <3>1 DEF TableOK
    <3>3. k \in DOMAIN Table
      BY <1>1, <3>1 DEF TableOK
    <3> QED BY <1>t, <2>1, <2>2, <2>3, <3>1, <3>2, <3>3
  <2>6. Table' = with
    BY <1>t, <2>4, <2>5, SameFunction
  <2> QED BY <1>1, <1>2, <2>1, <2>6, Counts
          DEF Seen!Reply, Seen!Insert, Seen!Answer, with
<1>4. CASE InsertAllocateNode \/ InsertKeyFails
  <2>1. /\ ret' = FALSE /\ key \notin DOMAIN Table
        /\ \A a \in InChains : nodes'[a].value = nodes[a].value
    <3>1. CASE InsertAllocateNode
      BY <3>1, WalkEnd DEF InsertAllocateNode, Walking, Return
    <3>2. CASE InsertKeyFails
      BY <3>2, WalkEnd DEF InsertKeyFails, Return, Without, InChains
    <3> QED BY <1>4, <3>1, <3>2
  <2>2. Same
    BY <1>4, Quiet
  <2>3. Table' = Table
    BY <1>1, <2>1, <2>2, SameTable
  <2> QED BY <1>1, <1>2, <2>1, <2>3, Counts
          DEF Seen!Reply, Seen!Insert, Seen!Answer, Seen!Present
<1>5. CASE InsertLink
  <2>1. Linking /\ ret' = TRUE /\ pc = "key"
    BY <1>5, LinkEffect DEF InsertLink, Return
  <2>2. key \notin DOMAIN Table
    BY <2>1, WalkEnd
  <2>3. /\ InChains' = InChains \cup {n}
        /\ \A a \in InChains : Text(a)' = Text(a) /\ nodes'[a] = nodes[a]
        /\ \A a \in InChains' : Text(a)' = copies'[nodes'[a].key]
        /\ copies'[nodes'[n].key] = key /\ nodes'[n].value = value
    BY <2>1 DEF Linking, Text
  <2>4. /\ key \in DOMAIN Table' /\ Table'[key] = value
        /\ \A a \in InChains : /\ Text(a) \in DOMAIN Table'
                               /\ Table'[Text(a)] = nodes[a].value
    BY <1>1, <2>3 DEF TableOK
  <2>5. \A k \in DOMAIN Table' : \/ k = key
                                 \/ \E a \in InChains : Text(a) = k
    BY <1>1, <2>3 DEF TableOK
  <2>6. /\ \A a \in InChains : /\ Text(a) \in DOMAIN Table
                               /\ Table[Text(a)] = nodes[a].value
        /\ \A k \in DOMAIN Table : \E a \in InChains : Text(a) = k
    BY <1>1 DEF TableOK
  <2>7. \A k : k \in DOMAIN Table' <=> k \in DOMAIN with
    BY <1>t, <2>4, <2>5, <2>6
  <2>8. \A k \in DOMAIN Table' : Table'[k] = with[k]
    BY <1>t, <2>2, <2>4, <2>5, <2>6
  <2>9. Table' = with
    BY <1>t, <2>7, <2>8, SameFunction
  <2> QED BY <1>1, <1>2, <2>1, <2>9, Counts
          DEF Seen!Reply, Seen!Insert, Seen!Answer, with
<1> QED BY <1>3, <1>4, <1>5 DEF ht_insert

LEMMA GetReply ==
  ASSUME Facts, Facts', ht_get
  PROVE  Seen!Reply
<1> USE DEF Facts, HashInv
<1>1. /\ pc = "get" /\ pc' = "idle" /\ UNCHANGED <<key, value, nodes>>
      /\ (Found /\ ret' = nodes[n].value) \/ (n = NULL /\ ret' = NULL)
  BY DEF ht_get, Return
<1>2. count = Cardinality(DOMAIN Table) /\ count' = Cardinality(DOMAIN Table')
  BY <1>1 DEF TableOK
<1>3. Same
  BY Quiet
<1>4. Table' = Table
  BY <1>1, <1>3, SameTable
<1>5. ret' = IF key \in DOMAIN Table THEN Table[key] ELSE NULL
  BY <1>1, WalkEnd DEF Walking
<1> QED BY <1>1, <1>2, <1>4, <1>5, Counts
        DEF Seen!Reply, Seen!Get, Seen!Answer, Seen!Present, Op

LEMMA RemoveReply ==
  ASSUME Facts, Facts', ht_remove
  PROVE  Seen!Reply
<1> USE DEF Facts, HashInv
<1> DEFINE without == [k \in DOMAIN Table \ {key} |-> Table[k]]
<1>1. /\ pc = "remove" /\ pc' = "idle" /\ UNCHANGED <<key, value>>
      /\ (Found /\ ret' = TRUE) \/ (n = NULL /\ ret' = FALSE)
  BY DEF ht_remove, Return
<1>2. count = Cardinality(DOMAIN Table) /\ count' = Cardinality(DOMAIN Table')
  BY <1>1 DEF TableOK
<1>t. /\ Table' = [k \in DOMAIN Table' |-> Table'[k]]
      /\ without = [k \in DOMAIN without |-> without[k]]
      /\ DOMAIN without = DOMAIN Table \ {key}
      /\ \A k \in DOMAIN Table \ {key} : without[k] = Table[k]
  BY DEF TableOK
<1>6. /\ \A a \in InChains : /\ Text(a) \in DOMAIN Table
                             /\ Table[Text(a)] = nodes[a].value
      /\ \A k \in DOMAIN Table : \E a \in InChains : Text(a) = k
  BY <1>1 DEF TableOK
<1>7. /\ \A a \in InChains' : /\ Text(a)' \in DOMAIN Table'
                              /\ Table'[Text(a)'] = nodes'[a].value
      /\ \A k \in DOMAIN Table' : \E a \in InChains' : Text(a)' = k
  BY <1>1 DEF TableOK
<1> HIDE DEF without
<1>3. CASE n # NULL
  <2>1. Freeing /\ Found /\ ret' = TRUE
    BY <1>1, <1>3, RemoveChained
  <2>2. n \in InChains /\ Text(n) = key /\ key \in DOMAIN Table
    BY <1>1, <2>1, WalkEnd DEF Walking
  <2>3. /\ InChains' = InChains \ {n}
        /\ \A a \in InChains' : /\ Text(a)' = Text(a) /\ a \in InChains
                                /\ nodes'[a].value = nodes[a].value
                                /\ Text(a) # key
    BY <2>1, <2>2 DEF Freeing, OwnKeys
  <2>4. \A k : k \in DOMAIN Table' <=> k \in DOMAIN without
    BY <1>t, <1>6, <1>7, <2>2, <2>3
  <2>5. \A k \in DOMAIN Table' : Table'[k] = without[k]
    BY <1>t, <1>6, <1>7, <2>2, <2>3
  <2>6. Table' = without
    BY <1>t, <2>4, <2>5, SameFunction
  <2>7. ret' = (key \in DOMAIN Table)
    BY <2>1, <2>2, Zenon
  <2> QED BY <1>1, <1>2, <2>6, <2>7, Counts
          DEF Seen!Reply, Seen!Remove, Seen!Answer, Seen!Present, Op, without
<1>4. CASE n = NULL
  <2>1. ret' = FALSE /\ key \notin DOMAIN Table
    BY <1>1, <1>4, WalkEnd DEF Found, Walking
  <2>2. Same /\ nodes' = nodes
    BY <1>4, Quiet DEF ht_remove, Found
  <2>3. Table' = Table
    BY <1>1, <2>2, SameTable
  <2>4. Table' = without
    BY <1>t, <2>1, <2>3, SameFunction
  <2>5. ret' = (key \in DOMAIN Table)
    <3>1. (key \in DOMAIN Table) = FALSE
      BY <2>1, SMT
    <3> QED BY <2>1, <3>1, Zenon
  <2> QED BY <1>1, <1>2, <2>4, <2>5, Counts
          DEF Seen!Reply, Seen!Remove, Seen!Answer, Seen!Present, Op, without
<1> QED BY <1>3, <1>4

LEMMA DestroyReply ==
  ASSUME Facts, Facts', DestroyEnd
  PROVE  Seen!Reply
<1> USE DEF Facts, HashInv
<1>1. /\ pc = "destroy" /\ pc' = "idle" /\ UNCHANGED <<key, value, ret>>
      /\ count' = 0 /\ nodes' = nodes
  BY DEF DestroyEnd
<1>2. InChains' = {}
  BY <1>1, AllFreed DEF InChains
<1>3. /\ Table' = [k \in DOMAIN Table' |-> Table'[k]]
      /\ \A k \in DOMAIN Table' : \E a \in InChains' : Text(a)' = k
  BY <1>1 DEF TableOK
<1>4. DOMAIN Table' = {}
  BY <1>2, <1>3
<1>5. Table' = Seen!Empty
  BY <1>3, <1>4 DEF Seen!Empty
<1> QED BY <1>1, <1>5 DEF Seen!Reply, Seen!Destroy, Op

LEMMA SeenStep ==
  ASSUME Facts, Facts', [Next]_vars
  PROVE  [Seen!Ask \/ Seen!Reply]_Shown
<1>1. CASE UNCHANGED vars
  BY <1>1 DEF vars, walk, Shown, Table, Op, Entries, Text
<1>2. CASE ht_insert
  <2>1. pc' = "idle" \/ (InsertAllocateNode /\ pc' = "key")
    BY <1>2 DEF ht_insert, InsertUpdate, InsertAllocateNode, InsertKeyFails,
                InsertLink, Return
  <2> QED BY <1>2, <2>1, InsertReply, HiddenSteps
<1>3. CASE Next /\ ~ht_insert
  BY <1>3, HiddenSteps, CallStep, GetReply, RemoveReply, DestroyReply
     DEF Next, Running, ht_destroy
<1> QED BY <1>1, <1>2, <1>3

\* The hash table is a map, whatever its hash function makes collide: what a
\* call answers is what the calls before it left under the key.
THEOREM RefinesMap == Spec => MapSpec
<1>1. Init => Map!Init
  <2>1. Init => DOMAIN nodes = {} /\ count = 0 /\ pc = "idle"
    BY DEF Init, None
  <2>2. Init => Entries = {} /\ count = 0 /\ Op = "idle"
    BY <2>1 DEF Entries, Op
  <2>3. Init => Table = Seen!Empty
    BY <2>2 DEF Table, Seen!Empty
  <2>4. Init => Seen!Init
    BY <2>2, <2>3 DEF Seen!Init
  <2> QED BY <2>4 DEF Seen!Init, Map!Init, Table, Op, Seen!Empty, Map!Empty
<1>2. [Seen!Ask \/ Seen!Reply]_Shown
        <=> [Map!Ask \/ Map!Reply]_<<[k \in {Text(a) : a \in Entries} |->
               nodes[CHOOSE a \in Entries : Text(a) = k].value],
               count, IF pc = "key" THEN "insert" ELSE pc, key, value, ret>>
  <2>1. Seen!Ask <=> Map!Ask
    BY DEF Seen!Ask, Map!Ask, Seen!Empty, Map!Empty, Table, Op
  <2>2. Seen!Insert <=> Map!Insert
    BY Counts DEF Seen!Insert, Map!Insert, Seen!Answer, Map!Answer,
                  Seen!Present, Map!Present, Table, Op
  <2>3. Seen!Get <=> Map!Get
    BY Counts DEF Seen!Get, Map!Get, Seen!Answer, Map!Answer,
                  Seen!Present, Map!Present, Table, Op
  <2>4. Seen!Remove <=> Map!Remove
    BY Counts DEF Seen!Remove, Map!Remove, Seen!Answer, Map!Answer,
                  Seen!Present, Map!Present, Table, Op
  <2>5. Seen!Destroy <=> Map!Destroy
    BY DEF Seen!Destroy, Map!Destroy, Seen!Empty, Map!Empty, Table, Op
  <2>6. Seen!Reply <=> Map!Reply
    BY <2>2, <2>3, <2>4, <2>5 DEF Seen!Reply, Map!Reply, Op
  <2> QED BY <2>1, <2>6 DEF Shown, Table, Op
<1>3. Facts /\ Facts' /\ [Next]_vars => [Seen!Ask \/ Seen!Reply]_Shown
  BY SeenStep
<1>4. HashInv => Facts
  BY TableIs DEF Facts
<1> QED BY <1>1, <1>2, <1>3, <1>4, Invariant, PTL DEF Spec, MapSpec, Map!Spec
=============================================================================
