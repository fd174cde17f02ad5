----------------------------- MODULE HashTable ------------------------------
(***************************************************************************)
(* hash_table.c: chained buckets of heap-allocated nodes, each with a      *)
(* heap-allocated copy of its key.  A call is a first step, one step per   *)
(* turn of its walk along a chain, and a last step; malloc may fail each   *)
(* time it is called.  The caller keeps to the table's life cycle: it      *)
(* initialises, uses, and destroys a table before it initialises it again. *)
(***************************************************************************)
EXTENDS Integers, FiniteSets

CONSTANTS Keys, Values, NULL,
          CAPACITY,        \* ht_init's argument
          Hash,            \* hash_string
          NodeAddrs,       \* where malloc can put a node
          KeyAddrs         \* where malloc can put a copy of a key

ASSUME HashAssumption ==
  /\ CAPACITY \in Nat \ {0}
  /\ Hash \in [Keys -> Nat]
  /\ NULL \in Values
  /\ NULL \notin NodeAddrs /\ NULL \notin KeyAddrs
  /\ IsFiniteSet(NodeAddrs)

VARIABLES buckets, capacity, count,
          nodes,     \* the allocated nodes: address -> [key, value, next]
          copies,    \* the allocated keys: address -> text
          pc,        \* the call in progress; "key": ht_insert has its node
          key, value,         \* its arguments
          n, prev,            \* the walk (in ht_insert's end, the new node)
          i,                  \* ht_destroy's bucket
          ret                 \* what the last call returned

walk == <<key, value, n, prev, i>>
vars == <<buckets, capacity, count, nodes, copies, pc, walk, ret>>

Slots == 0 .. CAPACITY - 1
Index(k) == Hash[k] % capacity
Text(a) == copies[nodes[a].key]
Without(f, a) == [x \in DOMAIN f \ {a} |-> f[x]]
With(f, a, v) == [x \in DOMAIN f \cup {a} |-> IF x = a THEN v ELSE f[x]]
None == [a \in {} |-> NULL]

\* A table before ht_init: nothing is allocated.
Init == /\ buckets = None /\ capacity = 0 /\ count = 0
        /\ nodes = None /\ copies = None
        /\ pc = "idle" /\ key \in Keys /\ value = NULL
        /\ n = NULL /\ prev = NULL /\ i = 0 /\ ret = NULL

ht_init == /\ pc = "idle" /\ capacity = 0
           /\ buckets' = [s \in Slots |-> NULL]      \* calloc
           /\ capacity' = CAPACITY /\ count' = 0
           /\ UNCHANGED <<nodes, copies, pc, walk, ret>>

Return(r) == pc' = "idle" /\ ret' = r /\ n' = NULL /\ prev' = NULL
             /\ UNCHANGED <<capacity, key, value, i>>

Call == /\ pc = "idle" /\ capacity > 0
        /\ pc' \in {"insert", "get", "remove"}
        /\ key' \in Keys /\ value' \in Values
        /\ n' = buckets[Index(key')] /\ prev' = NULL
        /\ UNCHANGED <<buckets, capacity, count, nodes, copies, i, ret>>

Walking == pc \in {"insert", "get", "remove"}
Found == n # NULL /\ Text(n) = key

\* Slip: the walk compares the same node for ever.
WalkStuck == /\ Walking /\ n # NULL /\ ~Found
             /\ prev' = n
             /\ UNCHANGED <<buckets, capacity, count, nodes, copies, pc, key,
                            value, n, i, ret>>
Walk == /\ Walking /\ n # NULL /\ ~Found
        /\ prev' = n /\ n' = nodes[n].next
        /\ UNCHANGED <<buckets, capacity, count, nodes, copies, pc, key, value,
                       i, ret>>

-----------------------------------------------------------------------------
(* ht_insert                                                               *)

InsertUpdate == /\ pc = "insert" /\ Found
                /\ nodes' = [nodes EXCEPT ![n].value = value]
                /\ Return(TRUE) /\ UNCHANGED <<buckets, count, copies>>

\* The node's fields are whatever malloc left there until they are set.
InsertAllocateNode ==
  /\ pc = "insert" /\ n = NULL
  /\ \/ Return(FALSE) /\ UNCHANGED <<buckets, count, nodes, copies>>
     \/ \E a \in NodeAddrs \ DOMAIN nodes :
          /\ nodes' = With(nodes, a, [key |-> NULL, value |-> NULL, next |-> NULL])
          /\ pc' = "key" /\ n' = a
          /\ UNCHANGED <<buckets, capacity, count, copies, key, value, prev, i,
                         ret>>

\* Slip: the node stays allocated when there is no memory for its key.
KeyFailureLeaks ==
  pc = "key" /\ Return(FALSE) /\ UNCHANGED <<buckets, count, nodes, copies>>
InsertKeyFails ==
  /\ pc = "key"
  /\ nodes' = Without(nodes, n)
  /\ Return(FALSE) /\ UNCHANGED <<buckets, count, copies>>

\* Slip: the chain that was there is dropped.
LinkAlone == [nodes EXCEPT ![n].next = NULL]
Linked == [nodes EXCEPT ![n].next = buckets[Index(key)]]
InsertLink ==
  /\ pc = "key"
  /\ \E c \in KeyAddrs \ DOMAIN copies :
       /\ copies' = With(copies, c, key)
       /\ nodes' = [Linked EXCEPT ![n].key = c, ![n].value = value]
  /\ buckets' = [buckets EXCEPT ![Index(key)] = n]
  /\ count' = count + 1
  /\ Return(TRUE)

ht_insert == InsertUpdate \/ InsertAllocateNode \/ InsertKeyFails \/ InsertLink

-----------------------------------------------------------------------------
ht_get == /\ pc = "get"
          /\ \/ Found /\ Return(nodes[n].value)
             \/ n = NULL /\ Return(NULL)
          /\ UNCHANGED <<buckets, count, nodes, copies>>

\* Slip: the head of the chain is moved on although the node is further in.
UnlinkAtHead == /\ buckets' = [buckets EXCEPT ![Index(key)] = nodes[n].next]
                /\ nodes' = Without(nodes, n)
Unlink == \/ /\ prev = NULL
             /\ buckets' = [buckets EXCEPT ![Index(key)] = nodes[n].next]
             /\ nodes' = Without(nodes, n)
          \/ /\ prev # NULL /\ buckets' = buckets
             /\ nodes' = Without([nodes EXCEPT ![prev].next = nodes[n].next], n)

ht_remove == \/ /\ pc = "remove" /\ Found
                /\ copies' = Without(copies, nodes[n].key)
                /\ Unlink
                /\ count' = count - 1
                /\ Return(TRUE)
             \/ /\ pc = "remove" /\ n = NULL
                /\ Return(FALSE) /\ UNCHANGED <<buckets, count, nodes, copies>>

-----------------------------------------------------------------------------
(* ht_destroy                                                              *)

DestroyCall == /\ pc = "idle" /\ capacity > 0
               /\ pc' = "destroy" /\ i' = 0 /\ n' = buckets[0]
               /\ UNCHANGED <<buckets, capacity, count, nodes, copies, key,
                              value, prev, ret>>

\* next_node is read before the node is freed.
DestroyNode == /\ pc = "destroy" /\ n # NULL
               /\ copies' = Without(copies, nodes[n].key)
               /\ nodes' = Without(nodes, n)
               /\ n' = nodes[n].next
               /\ UNCHANGED <<buckets, capacity, count, pc, key, value, prev, i,
                              ret>>

DestroyNextBucket == /\ pc = "destroy" /\ n = NULL /\ i + 1 < capacity
                     /\ i' = i + 1 /\ n' = buckets[i + 1]
                     /\ UNCHANGED <<buckets, capacity, count, nodes, copies, pc,
                                    key, value, prev, ret>>

DestroyEnd == /\ pc = "destroy" /\ n = NULL /\ i + 1 = capacity
              /\ buckets' = None /\ capacity' = 0 /\ count' = 0
              /\ pc' = "idle" /\ i' = 0
              /\ UNCHANGED <<nodes, copies, key, value, n, prev, ret>>

ht_destroy == DestroyNode \/ DestroyNextBucket \/ DestroyEnd

-----------------------------------------------------------------------------
Running == Walk \/ ht_insert \/ ht_get \/ ht_remove \/ ht_destroy
Next == ht_init \/ Call \/ DestroyCall \/ Running

\* A call that has begun takes its next step.
Spec == Init /\ [][Next]_vars /\ WF_vars(Running)

-----------------------------------------------------------------------------
Live == DOMAIN nodes \cup {NULL}

\* Every pointer the table or a walk holds is NULL or a live block; only the
\* buckets ht_destroy has been through are left dangling.
TypeOK ==
  /\ capacity \in {0, CAPACITY}
  /\ count \in 0 .. Cardinality(NodeAddrs)
  /\ DOMAIN buckets = (IF capacity = 0 THEN {} ELSE Slots)
  /\ \A s \in DOMAIN buckets :
       (pc # "destroy" \/ s > i) => buckets[s] \in Live
  /\ DOMAIN nodes \subseteq NodeAddrs /\ DOMAIN copies \subseteq KeyAddrs
  /\ \A a \in DOMAIN nodes :
       /\ nodes[a].next \in Live
       /\ nodes[a].key \in DOMAIN copies \/ (pc = "key" /\ a = n)
  /\ n \in Live /\ prev \in Live
  /\ i \in 0 .. CAPACITY - 1

\* Between calls the blocks allocated are the nodes counted and one key for
\* each; a destroyed table has none, whichever insertions failed halfway.
NoLeak ==
  pc = "idle" =>
    /\ Cardinality(DOMAIN nodes) = count
    /\ DOMAIN copies = {nodes[a].key : a \in DOMAIN nodes}
    /\ Cardinality(DOMAIN copies) = count
    /\ capacity = 0 => nodes = None

\* The chains implement a map, whatever the hash function makes collide.
Entries == IF pc = "destroy" THEN {}
           ELSE {a \in DOMAIN nodes : ~(pc = "key" /\ a = n)}
Map == INSTANCE KeyedMap WITH
         table <- [k \in {Text(a) : a \in Entries} |->
                     nodes[CHOOSE a \in Entries : Text(a) = k].value],
         size <- count,
         op <- IF pc = "key" THEN "insert" ELSE pc
MapSpec == Map!Spec

\* Every call returns: no chain has a cycle.
Returns == pc # "idle" ~> pc = "idle"
=============================================================================
