----------------------------- MODULE LinkedList -----------------------------
(***************************************************************************)
(* linked_list.c: a singly linked list with a count.  Its loops do not     *)
(* look for the end of the chain: they make count turns, on a counter that *)
(* is narrower than count.  A call is a first step, one step per turn of   *)
(* its loop, and a last step; malloc may fail.  The program pushes fewer   *)
(* elements than the counter can count.                                    *)
(***************************************************************************)
EXTENDS Integers, Sequences, FiniteSets

CONSTANTS Data, NULL,
          NodeAddrs,       \* where malloc can put a node
          WIDTH            \* the values of the loops' uint8_t counter

ASSUME ListAssumption == /\ NULL \notin NodeAddrs /\ NULL \notin Data
                         /\ NodeAddrs \cap BOOLEAN = {}
                         /\ IsFiniteSet(NodeAddrs)
                         /\ WIDTH \in Nat
                         /\ Cardinality(NodeAddrs) < WIDTH

VARIABLES head, count,
          nodes,                \* the allocated nodes: address -> [data, next]
          pc,                   \* the call in progress
          data,                 \* its argument
          current, prev, i,     \* its loop
          ret                   \* what it returned

listVars == <<head, count, nodes, pc, data, current, prev, i, ret>>

Without(f, a) == [x \in DOMAIN f \ {a} |-> f[x]]
With(f, a, v) == [x \in DOMAIN f \cup {a} |-> IF x = a THEN v ELSE f[x]]

\* list_init
ListInit == /\ head = NULL /\ count = 0
            /\ nodes = [a \in {} |-> NULL]
            /\ pc = "idle" /\ data \in Data
            /\ current = NULL /\ prev = NULL /\ i = 0 /\ ret = NULL

ListCall == /\ pc = "idle"
            /\ pc' \in {"push", "remove", "find", "destroy"}
            /\ data' \in Data
            /\ current' = head /\ prev' = NULL /\ i' = 0 /\ ret' = NULL
            /\ UNCHANGED <<head, count, nodes>>

Leave == /\ pc' = "idle" /\ current' = NULL /\ prev' = NULL /\ i' = 0
         /\ UNCHANGED data
Return(r) == ret' = r /\ Leave

-----------------------------------------------------------------------------
list_push_front ==
  /\ pc = "push" /\ Leave
  /\ \/ UNCHANGED <<head, count, nodes>>          \* malloc failed
     \/ \E a \in NodeAddrs \ DOMAIN nodes :
          /\ nodes' = With(nodes, a, [data |-> data, next |-> head])
          /\ count' = count + 1
          /\ head' = a
  /\ UNCHANGED ret

\* Slip: the counter has one value less.
NarrowTurn == i' = (i + 1) % (WIDTH - 1) /\ UNCHANGED <<pc, data, count, ret>>
\* i++ on a uint8_t
Turn == i' = (i + 1) % WIDTH /\ UNCHANGED <<pc, data, count, ret>>

InLoop(op) == pc = op /\ i < count
Matches == nodes[current].data = data
Follow == prev' = current /\ current' = nodes[current].next

\* Slip: what follows the removed element is dropped with it.
UnlinkRest == /\ head' = IF head = current THEN nodes[current].next ELSE head
              /\ nodes' = Without([a \in DOMAIN nodes |->
                            IF a = prev THEN [nodes[a] EXCEPT !.next = NULL]
                            ELSE nodes[a]], current)
Unlink == \/ /\ nodes[current].next = NULL /\ count = 1
             /\ head' = NULL /\ nodes' = Without(nodes, current)
          \/ /\ ~(nodes[current].next = NULL /\ count = 1) /\ head = current
             /\ head' = nodes[current].next /\ nodes' = Without(nodes, current)
          \/ /\ head # current
             /\ nodes' = Without([nodes EXCEPT ![prev].next =
                                                 nodes[current].next], current)
             /\ UNCHANGED head

list_remove ==
  \/ InLoop("remove") /\ Matches /\ Unlink /\ count' = count - 1 /\ Return(TRUE)
  \/ InLoop("remove") /\ ~Matches /\ Follow /\ Turn /\ UNCHANGED <<head, nodes>>
  \/ /\ pc = "remove" /\ i >= count
     /\ Return(FALSE) /\ UNCHANGED <<head, count, nodes>>

Last == nodes[current].next = NULL
list_find ==
  /\ \/ InLoop("find") /\ Matches /\ Return(current) /\ UNCHANGED count
     \/ InLoop("find") /\ ~Matches /\ Last /\ Return(NULL) /\ UNCHANGED count
     \/ InLoop("find") /\ ~Matches /\ ~Last /\ Follow /\ Turn
     \/ pc = "find" /\ i >= count /\ Return(NULL) /\ UNCHANGED count
  /\ UNCHANGED <<head, nodes>>

list_destroy ==
  \/ /\ InLoop("destroy")
     /\ current' = nodes[current].next        \* read before the free
     /\ nodes' = Without(nodes, current)
     /\ Turn /\ UNCHANGED <<head, prev>>
  \/ /\ pc = "destroy" /\ i >= count
     /\ count' = 0 /\ head' = NULL
     /\ Leave /\ UNCHANGED <<nodes, ret>>

ListNext == ListCall \/ list_push_front \/ list_remove \/ list_find \/ list_destroy

LinkedListSpec == ListInit /\ [][ListNext]_listVars

-----------------------------------------------------------------------------
\* A loop that is about to make a turn has a live node to look at, and
\* between calls the nodes allocated are as many as the list counts: count
\* and the counter agree with the chain.
WalkInList ==
  /\ (pc \in {"remove", "find", "destroy"} /\ i < count) =>
        current \in DOMAIN nodes
  /\ pc = "idle" => Cardinality(DOMAIN nodes) = count

\* The elements along the chain from head, at most count of them.
Elements == LET from[k \in 0 .. count] ==
                  IF k = 0 THEN [at |-> head, seen |-> << >>]
                  ELSE LET p == from[k - 1]
                       IN IF p.at \notin DOMAIN nodes THEN p
                          ELSE [at |-> nodes[p.at].next,
                                seen |-> Append(p.seen, nodes[p.at].data)]
            IN from[count].seen

\* The chain implements a sequence: an element is found and removed where it
\* comes first, and the others stay in order.
List == INSTANCE DataList WITH
          seq <- IF pc = "destroy" THEN << >> ELSE Elements,
          size <- count,
          op <- pc,
          ret <- IF ret \in DOMAIN nodes THEN nodes[ret].data ELSE ret
ListSpec == List!Spec
=============================================================================
