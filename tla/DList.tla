--------------------------------- MODULE DList ---------------------------------
(***************************************************************************)
(* The doubly linked list of dlist.c, as its pointers.                     *)
(*                                                                         *)
(* A heap is a record: the next and the prev pointer of each node, and the *)
(* nodes that are allocated.  A node holds the only reference to its data, *)
(* so both come and go together and one name stands for them.  The special *)
(* head node is allocated when the first node is added; until then the     *)
(* list is NULL.  A freed node points to itself; nothing may read it.      *)
(***************************************************************************)
EXTENDS Integers, Sequences, FiniteSets

\* What an iteration function returns (dlist.h).  Any other value does what
\* DLIST_ITER_STOP does.
DLIST_CONT         == "cont"
DLIST_RM_NODE      == "rm"
DLIST_RM_NODE_CONT == "rm_cont"
DLIST_ITER_STOP    == "stop"
Returns == {DLIST_CONT, DLIST_RM_NODE, DLIST_RM_NODE_CONT, DLIST_ITER_STOP}

Heap(Nodes) == [next : [Nodes -> Nodes], prev : [Nodes -> Nodes], live : SUBSET Nodes]

\* Nothing is allocated.
NoList(Nodes) == [next |-> [n \in Nodes |-> n], prev |-> [n \in Nodes |-> n], live |-> {}]

\* dlist_new_node: a node that points to itself.
NewNode(h, n) ==
  [next |-> [h.next EXCEPT ![n] = n], prev |-> [h.prev EXCEPT ![n] = n],
   live |-> h.live \cup {n}]

\* Seeded fault: the following node keeps its prev.
AddAtOneWay(h, at, n) ==
  [next |-> [h.next EXCEPT ![n] = h.next[at], ![at] = n],
   prev |-> [h.prev EXCEPT ![n] = h.prev[h.next[at]]],
   live |-> h.live]

\* dlist_add_at: link n in behind at.
AddAt(h, at, n) ==
  [next |-> [h.next EXCEPT ![n] = h.next[at], ![at] = n],
   prev |-> [h.prev EXCEPT ![n] = h.prev[h.next[at]], ![h.next[at]] = n],
   live |-> h.live]

\* Seeded fault: the node becomes the first one.
AddTailAtHead(h, head, n) ==
  IF head \in h.live THEN AddAt(NewNode(h, n), head, n)
                     ELSE AddAt(NewNode(NewNode(h, head), n), head, n)

\* dlist_add_tail: behind the last node, or behind the head of a new list.
AddTail(h, head, n) ==
  IF head \in h.live THEN AddAt(NewNode(h, n), h.prev[head], n)
                     ELSE AddAt(NewNode(NewNode(h, head), n), head, n)

\* dlist_remove: unlink n and drop the reference, which frees it.
Remove(h, n) ==
  [next |-> [h.next EXCEPT ![h.prev[n]] = h.next[n], ![n] = n],
   prev |-> [h.prev EXCEPT ![h.next[n]] = h.prev[n], ![n] = n],
   live |-> h.live \ {n}]

\* dlist_delete: remove the node if it is in the list.
Delete(h, n) == IF n \in h.live THEN Remove(h, n) ELSE h

\* The list from its first node on, following next for as many steps as there
\* are nodes at most.
Listed(h, head) ==
  LET upTo[k \in 0 .. Cardinality(h.live)] ==
        IF k = 0 THEN <<>>
        ELSE LET seen == upTo[k - 1]
                 follow == h.next[IF seen = <<>> THEN head ELSE seen[Len(seen)]]
             IN  IF follow = head THEN seen ELSE Append(seen, follow)
  IN  IF head \in h.live THEN upTo[Cardinality(h.live)] ELSE <<>>

\* dlist_delete_all: free every node, then the head.
DeleteAll(h, head) ==
  [h EXCEPT !.live = @ \ ({head} \cup {Listed(h, head)[k] : k \in DOMAIN Listed(h, head)})]
=============================================================================
