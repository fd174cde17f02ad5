-------------------------- MODULE HashTablePractice --------------------------
(***************************************************************************)
(* hash_table_practice.c: hash_table.c written again, with the same walks, *)
(* removals and destruction.  Its ht_insert asks for the node and for the  *)
(* key before it looks at either, and gives neither back.                  *)
(***************************************************************************)
EXTENDS HashTable

\* node->key is assigned through whatever malloc returned.
NoNode == /\ pc' = "crashed"
          /\ UNCHANGED <<buckets, capacity, count, nodes, copies, walk, ret>>

NoKey(a) ==
  /\ nodes' = With(nodes, a, [key |-> NULL, value |-> NULL, next |-> NULL])
  /\ Return(FALSE)
  /\ UNCHANGED <<buckets, count, copies>>

LinkNode(a, c) ==
  /\ copies' = With(copies, c, key)
  /\ nodes' = With(nodes, a, [key |-> c, value |-> value,
                              next |-> buckets[Index(key)]])
  /\ buckets' = [buckets EXCEPT ![Index(key)] = a]
  /\ count' = count + 1
  /\ Return(TRUE)

PracticeAllocate ==
  /\ pc = "insert" /\ n = NULL
  /\ \/ NoNode
     \/ \E a \in NodeAddrs \ DOMAIN nodes :
          NoKey(a) \/ \E c \in KeyAddrs \ DOMAIN copies : LinkNode(a, c)

PracticeInsert == InsertUpdate \/ PracticeAllocate

PracticeNext == \/ ht_init \/ Call \/ DestroyCall \/ Walk
                \/ PracticeInsert \/ ht_get \/ ht_remove \/ ht_destroy

PracticeSpec == Init /\ [][PracticeNext]_vars

-----------------------------------------------------------------------------
\* What the tests run under AddressSanitizer for: when ht_destroy is done, no
\* node and no key of the table is still allocated.
NothingOutlivesDestroy ==
  (pc = "idle" /\ capacity = 0) => (nodes = None /\ copies = None)
=============================================================================
