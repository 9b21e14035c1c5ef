--------------------------- MODULE EventLoopProofs ---------------------------
(***************************************************************************)
(* Proofs about the event loop and its lists, for any channels, timers,    *)
(* descriptors and durations.                                              *)
(*                                                                         *)
(* The pointers of the nodes that are allocated form rings (Ring), and     *)
(* every ring passes through a head: going along next, a rank grows until  *)
(* a head is reached (Ranked).  So a node other than a head never follows  *)
(* itself, and what follows the node of an iteration is still there when   *)
(* that node has gone.                                                     *)
(*                                                                         *)
(* The nodes from a head to the head again are one sequence (Order), which *)
(* is what the recursive Listed returns; every operation leaves the order  *)
(* of both lists, appends to one or takes an element out (QueueSteps).     *)
(***************************************************************************)
EXTENDS EventLoop, Induction, SequenceTheorems, FiniteSetTheorems

Heads == {ChanHead, TimerHead}
ChanNodes == Chans \cup {ChanHead}

\* next and prev stay among the allocated nodes of a list and are inverse.
Ring(h) ==
  \A n \in h.live :
    /\ h.next[n] \in h.live /\ h.prev[n] \in h.live
    /\ h.prev[h.next[n]] = n /\ h.next[h.prev[n]] = n
    /\ h.next[n] \in ChanNodes <=> n \in ChanNodes

RankedBy(h, rank) == \A n \in h.live : h.next[n] \in Heads \/ rank[h.next[n]] > rank[n]
Ranked(h) == \E rank \in [Node -> Int] : RankedBy(h, rank)

Linked(h) == Ring(h) /\ Ranked(h)

\* dlist_new_node for a node that is not allocated.
LEMMA NewNodeLinked ==
  ASSUME NEW h \in Heap(Node), Ring(h), NEW head \in Heads \ h.live, Ranked(h)
  PROVE  /\ NewNode(h, head) \in Heap(Node)
         /\ NewNode(h, head).live = h.live \cup {head}
         /\ Linked(NewNode(h, head))
<1> DEFINE g == NewNode(h, head)
<1>1. g \in Heap(Node) /\ g.live = h.live \cup {head}
  BY DEF NewNode, Heap, Heads, Node
<1>2. Ring(g)
  BY DEF Ring, NewNode, Heap, Heads, Node
<1>3. PICK rank \in [Node -> Int] : RankedBy(h, rank)
  BY DEF Ranked
<1>4. RankedBy(g, rank)
  BY <1>3 DEF RankedBy, Ring, NewNode, Heap, Heads, Node
<1>5. QED BY <1>1, <1>2, <1>3, <1>4 DEF Linked, Ranked

\* A node is put in front of a head that is allocated.
LEMMA AddLastLinked ==
  ASSUME NEW h \in Heap(Node), Linked(h), NEW head \in Heads \cap h.live,
         NEW n \in Node \ (Heads \cup h.live), n \in ChanNodes <=> head \in ChanNodes
  PROVE  /\ AddAt(NewNode(h, n), h.prev[head], n) \in Heap(Node)
         /\ AddAt(NewNode(h, n), h.prev[head], n).live = h.live \cup {n}
         /\ Linked(AddAt(NewNode(h, n), h.prev[head], n))
<1> DEFINE last == h.prev[head]
           g == AddAt(NewNode(h, n), last, n)
<1>1. /\ last \in h.live /\ h.next[last] = head /\ last # n /\ head # n
      /\ last \in ChanNodes <=> head \in ChanNodes
      /\ last \in Node /\ head \in Node /\ n \in Node
  BY DEF Linked, Ring, Heap
<1>2. g \in Heap(Node) /\ g.live = h.live \cup {n}
  BY <1>1 DEF AddAt, NewNode, Heap
<1>3. /\ g.next = [h.next EXCEPT ![n] = head, ![last] = n]
      /\ g.prev = [h.prev EXCEPT ![n] = last, ![head] = n]
  BY <1>1 DEF AddAt, NewNode, Heap
<1>4. Ring(g)
  <2> SUFFICES ASSUME NEW m \in h.live \cup {n}
               PROVE  /\ g.next[m] \in g.live /\ g.prev[m] \in g.live
                      /\ g.prev[g.next[m]] = m /\ g.next[g.prev[m]] = m
                      /\ g.next[m] \in ChanNodes <=> m \in ChanNodes
    BY <1>2 DEF Ring
  <2>1. h.next \in [Node -> Node] /\ h.prev \in [Node -> Node] /\ h.live \subseteq Node
    BY DEF Heap
  <2>2. CASE m = n
    BY <1>1, <1>2, <1>3, <2>1, <2>2
  <2>3. CASE m # n /\ m = last
    BY <1>1, <1>2, <1>3, <2>1, <2>3 DEF Linked, Ring
  <2>4. CASE m # n /\ m # last
    BY <1>1, <1>2, <1>3, <2>1, <2>4 DEF Linked, Ring
  <2>5. QED BY <2>2, <2>3, <2>4
<1>5. PICK rank \in [Node -> Int] : RankedBy(h, rank)
  BY DEF Linked, Ranked
<1>6. RankedBy(g, [rank EXCEPT ![n] = rank[last] + 1])
  <2> DEFINE above == [rank EXCEPT ![n] = rank[last] + 1]
  <2> SUFFICES ASSUME NEW m \in h.live \cup {n}
               PROVE  g.next[m] \in Heads \/ above[g.next[m]] > above[m]
    BY <1>2 DEF RankedBy
  <2>1. h.next \in [Node -> Node] /\ h.live \subseteq Node
    BY DEF Heap
  <2>2. CASE m = n
    <3>1. g.next[m] = head
      BY <1>1, <1>3, <2>1, <2>2
    <3>2. QED BY <3>1
  <2>3. CASE m # n /\ m = last
    <3>1. g.next[m] = n
      BY <1>1, <1>3, <2>1, <2>3
    <3>2. above[n] = rank[last] + 1 /\ above[m] = rank[last] /\ rank[last] \in Int
      BY <1>1, <2>3
    <3>3. QED BY <3>1, <3>2
  <2>4. CASE m # n /\ m # last
    <3>1. g.next[m] = h.next[m] /\ h.next[m] \in h.live
      BY <1>1, <1>3, <2>1, <2>4 DEF Linked, Ring
    <3>2. above[h.next[m]] = rank[h.next[m]] /\ above[m] = rank[m]
      BY <2>1, <2>4, <3>1
    <3>3. QED BY <1>5, <2>4, <3>1, <3>2 DEF RankedBy
  <2>5. QED BY <2>2, <2>3, <2>4
<1>7. [rank EXCEPT ![n] = rank[last] + 1] \in [Node -> Int]
  BY <1>1
<1>8. QED BY <1>2, <1>4, <1>6, <1>7 DEF Linked, Ranked

\* dlist_add_tail keeps both lists linked, also when it makes the head.
LEMMA AddTailLinked ==
  ASSUME NEW h \in Heap(Node), Linked(h), NEW head \in Heads,
         NEW n \in Node \ (Heads \cup h.live), n \in ChanNodes <=> head \in ChanNodes
  PROVE  /\ AddTail(h, head, n) \in Heap(Node)
         /\ AddTail(h, head, n).live = h.live \cup {head, n}
         /\ Linked(AddTail(h, head, n))
<1>1. CASE head \in h.live
  BY <1>1, AddLastLinked DEF AddTail
<1>2. CASE head \notin h.live
  <2> DEFINE g == NewNode(h, head)
  <2>1. /\ g \in Heap(Node) /\ g.live = h.live \cup {head} /\ Linked(g)
    BY <1>2, NewNodeLinked DEF Linked
  <2>2. g.prev[head] = head
    BY DEF NewNode, Heap, Heads, Node
  <2>3. /\ AddAt(NewNode(g, n), g.prev[head], n) \in Heap(Node)
        /\ AddAt(NewNode(g, n), g.prev[head], n).live = g.live \cup {n}
        /\ Linked(AddAt(NewNode(g, n), g.prev[head], n))
    <3> HIDE DEF g
    <3> QED BY <2>1, AddLastLinked
  <2>4. AddTail(h, head, n) = AddAt(NewNode(g, n), head, n)
    BY <1>2 DEF AddTail
  <2>5. QED BY <2>1, <2>2, <2>3, <2>4
<1>3. QED BY <1>1, <1>2

\* What follows a node that is not a head is another node of its list.
LEMMA NextIsOther ==
  ASSUME NEW h \in Heap(Node), Linked(h), NEW n \in h.live \ Heads
  PROVE  h.next[n] # n /\ h.prev[n] # n
BY DEF Linked, Ring, Ranked, RankedBy, Heap

\* dlist_remove keeps the lists linked.
LEMMA RemoveLinked ==
  ASSUME NEW h \in Heap(Node), Linked(h), NEW n \in h.live \ Heads
  PROVE  /\ Remove(h, n) \in Heap(Node)
         /\ Remove(h, n).live = h.live \ {n}
         /\ Linked(Remove(h, n))
<1> DEFINE g == Remove(h, n)
           before == h.prev[n]
           after == h.next[n]
<1>1. /\ before \in h.live \ {n} /\ after \in h.live \ {n}
      /\ h.next[before] = n /\ h.prev[after] = n
      /\ before \in Node /\ after \in Node /\ n \in Node
  BY NextIsOther DEF Linked, Ring, Heap
<1>2. g \in Heap(Node) /\ g.live = h.live \ {n}
  BY <1>1 DEF Remove, Heap
<1>3. /\ g.next = [h.next EXCEPT ![before] = after, ![n] = n]
      /\ g.prev = [h.prev EXCEPT ![after] = before, ![n] = n]
  BY DEF Remove
<1>4. Ring(g)
  <2> SUFFICES ASSUME NEW m \in h.live \ {n}
               PROVE  /\ g.next[m] \in g.live /\ g.prev[m] \in g.live
                      /\ g.prev[g.next[m]] = m /\ g.next[g.prev[m]] = m
                      /\ g.next[m] \in ChanNodes <=> m \in ChanNodes
    BY <1>2 DEF Ring
  <2>1. h.next \in [Node -> Node] /\ h.prev \in [Node -> Node] /\ h.live \subseteq Node
    BY DEF Heap
  <2>2. /\ h.next[m] \in h.live /\ h.prev[m] \in h.live
        /\ h.prev[h.next[m]] = m /\ h.next[h.prev[m]] = m
        /\ h.next[m] \in ChanNodes <=> m \in ChanNodes
        /\ after \in ChanNodes <=> n \in ChanNodes
        /\ n \in ChanNodes <=> before \in ChanNodes
    BY <1>1 DEF Linked, Ring
  <2>3. g.next[m] = (IF m = before THEN after ELSE h.next[m])
        /\ g.prev[m] = (IF m = after THEN before ELSE h.prev[m])
    BY <1>1, <1>3, <2>1
  <2>4. g.next[m] \in g.live /\ g.next[m] \in ChanNodes <=> m \in ChanNodes
    BY <1>1, <1>2, <2>2, <2>3
  <2>5. g.prev[m] \in g.live
    BY <1>1, <1>2, <2>2, <2>3
  <2>6. g.prev[g.next[m]] = m
    BY <1>1, <1>3, <2>1, <2>2, <2>3
  <2>7. g.next[g.prev[m]] = m
    BY <1>1, <1>3, <2>1, <2>2, <2>3
  <2>8. QED BY <1>1, <1>2, <2>2, <2>3, <2>5, <2>6, <2>7
<1>5. PICK rank \in [Node -> Int] : RankedBy(h, rank)
  BY DEF Linked, Ranked
<1>6. RankedBy(g, rank)
  <2>1. rank[n] > rank[before]
    BY <1>1, <1>5 DEF RankedBy
  <2>2. after \in Heads \/ rank[after] > rank[n]
    BY <1>5 DEF RankedBy
  <2>3. ASSUME NEW m \in h.live \ {n} PROVE g.next[m] \in Heads \/ rank[g.next[m]] > rank[m]
    <3>1. CASE m = before
      BY <1>1, <1>3, <2>1, <2>2, <3>1 DEF Heap
    <3>2. CASE m # before
      BY <1>1, <1>3, <1>5, <3>2 DEF Heap, RankedBy
    <3>3. QED BY <3>1, <3>2
  <2>4. QED BY <1>2, <2>3 DEF RankedBy
<1>7. QED BY <1>2, <1>4, <1>5, <1>6 DEF Linked, Ranked

-----------------------------------------------------------------------------
\* The lists are linked until they are destroyed, and an iteration is in its
\* list.
ListInv ==
  /\ heap \in Heap(Node)
  /\ pc # "destroyed" => Linked(heap)
  /\ NodeAlive

\* Where an iteration starts, and where it goes from a node of its list.
LEMMA Follows ==
  ASSUME NEW h \in Heap(Node), Linked(h)
  PROVE  /\ \A n \in h.live \cap ChanNodes : h.next[n] \in (Chans \cap h.live) \cup {ChanHead}
         /\ \A n \in h.live \ ChanNodes : h.next[n] \in (Timers \cap h.live) \cup {TimerHead}
         /\ \A n \in h.live \ Heads : h.next[n] # n
<1>1. \A n \in h.live : n \in Node /\ h.next[n] \in h.live /\ h.next[n] \in Node
                        /\ (h.next[n] \in ChanNodes <=> n \in ChanNodes)
  BY DEF Linked, Ring, Heap
<1>2. QED BY <1>1, NextIsOther DEF Node, ChanNodes, Heads

\* The first step of the lists: one timer.
LEMMA ListInit == Init => ListInv
<1> SUFFICES ASSUME Init PROVE ListInv
  OBVIOUS
<1>1. PICK t \in Timers : heap = AddTail(NoList(Node), TimerHead, t)
  BY DEF Init
<1>2. NoList(Node) \in Heap(Node) /\ Linked(NoList(Node))
  <2>1. NoList(Node) \in Heap(Node) /\ NoList(Node).live = {}
    BY DEF NoList, Heap
  <2>2. Ring(NoList(Node)) /\ RankedBy(NoList(Node), [n \in Node |-> 0])
    BY <2>1 DEF Ring, RankedBy
  <2>3. [n \in Node |-> 0] \in [Node -> Int]
    OBVIOUS
  <2>4. QED BY <2>1, <2>2, <2>3 DEF Linked, Ranked
<1>3. /\ t \in Node \ (Heads \cup NoList(Node).live) /\ TimerHead \in Heads
      /\ t \in ChanNodes <=> TimerHead \in ChanNodes
  BY EventLoopAssumption DEF Node, Heads, ChanNodes, NoList
<1>4. heap \in Heap(Node) /\ Linked(heap)
  BY <1>1, <1>2, <1>3, AddTailLinked
<1>5. NodeAlive
  BY DEF Init, NodeAlive
<1>6. QED BY <1>4, <1>5 DEF ListInv

\* What a callback returns takes the iteration to a node of its list.
LEMMA ReturnKeeps ==
  ASSUME ListInv, NEW ret, NEW iteration,
         \/ pc = "timer_func" /\ iteration = "timers"
         \/ pc = "channel_func" /\ iteration = "channels",
         Return(ret, iteration)
  PROVE  ListInv'
<1> USE EventLoopAssumption
<1>1. /\ heap \in Heap(Node) /\ Linked(heap) /\ node \in heap.live \ Heads
      /\ pc = "timer_func" => node \in Timers
      /\ pc = "channel_func" => node \in Chans
  BY DEF ListInv, NodeAlive, Heads
<1>2. /\ heap' \in Heap(Node) /\ Linked(heap')
      /\ heap'.live = heap.live \/ heap'.live = heap.live \ {node}
  BY <1>1, RemoveLinked DEF Return
<1>3. CASE Leave
  BY <1>2, <1>3 DEF ListInv, NodeAlive, Leave
<1>4. CASE node' = heap.next[node] /\ pc' = iteration
  <2>1. /\ pc = "timer_func" => node' \in (Timers \cap heap.live) \cup {TimerHead}
        /\ pc = "channel_func" => node' \in (Chans \cap heap.live) \cup {ChanHead}
        /\ node' # node
    BY <1>1, <1>4, Follows DEF ChanNodes
  <2>2. NodeAlive'
    BY <1>2, <1>4, <2>1 DEF NodeAlive
  <2>3. QED BY <1>2, <1>4, <2>2 DEF ListInv
<1>5. QED BY <1>3, <1>4 DEF Return, ReadNext

\* Every step keeps the lists linked and the iteration in its list.
LEMMA ListNext == ListInv /\ [Next]_vars => ListInv'
<1> SUFFICES ASSUME ListInv, [Next]_vars PROVE ListInv'
  OBVIOUS
<1> USE EventLoopAssumption
<1>a. heap \in Heap(Node) /\ (pc # "destroyed" => Linked(heap))
  BY DEF ListInv
<1>b. ASSUME pc # "destroyed"
      PROVE  /\ Start(ChanHead) \in (Chans \cap heap.live) \cup {ChanHead}
             /\ Start(TimerHead) \in (Timers \cap heap.live) \cup {TimerHead}
  BY <1>a, <1>b, Follows DEF Start, ChanNodes
<1>1. CASE SelectReady
  BY <1>a, <1>b, <1>1 DEF SelectReady, ListInv, NodeAlive
<1>2. CASE SelectError \/ SelectTimeout \/ Quit
  BY <1>a, <1>2 DEF SelectError, SelectTimeout, Quit, ListInv, NodeAlive
<1>3. CASE TestTimers
  BY <1>a, <1>b, <1>3 DEF TestTimers, ListInv, NodeAlive
<1>4. CASE Destroy
  <2>1. heap' \in Heap(Node)
    BY <1>a, <1>4 DEF Destroy, DeleteAll, Heap
  <2>2. QED BY <1>4, <2>1 DEF Destroy, ListInv, NodeAlive
<1>5. CASE SkipTimer
  <2>1. node \in heap.live \ ChanNodes
    BY <1>5 DEF SkipTimer, ListInv, NodeAlive, ChanNodes
  <2>2. heap.next[node] \in (Timers \cap heap.live) \cup {TimerHead}
    BY <1>a, <1>5, <2>1, Follows DEF SkipTimer
  <2>3. QED BY <1>a, <1>5, <2>2 DEF SkipTimer, ListInv, NodeAlive
<1>6. CASE SkipChannel
  <2>1. node \in heap.live \cap ChanNodes
    BY <1>6 DEF SkipChannel, ListInv, NodeAlive, ChanNodes
  <2>2. heap.next[node] \in (Chans \cap heap.live) \cup {ChanHead}
    BY <1>a, <1>6, <2>1, Follows DEF SkipChannel
  <2>3. QED BY <1>a, <1>6, <2>2 DEF SkipChannel, ListInv, NodeAlive
<1>7. CASE CallTimer \/ CallChannel
  BY <1>a, <1>7 DEF CallTimer, CallChannel, ListInv, NodeAlive
<1>8. CASE EndTimers \/ EndChannels
  BY <1>a, <1>8 DEF EndTimers, EndChannels, Leave, ListInv, NodeAlive
<1>9. ASSUME NEW ret \in Returns, ReturnTimer(ret) \/ ReturnChannel(ret) PROVE ListInv'
  BY <1>9, ReturnKeeps DEF ReturnTimer, ReturnChannel
<1>10. ASSUME NEW c \in Chans, NEW f \in Fds, ChannelAdd(c, f) PROVE ListInv'
  <2>1. c \in Node \ (Heads \cup heap.live) /\ c \in ChanNodes /\ ChanHead \in ChanNodes \cap Heads
    BY <1>10 DEF ChannelAdd, Node, Heads, ChanNodes
  <2>2. heap' \in Heap(Node) /\ Linked(heap') /\ heap.live \subseteq heap'.live
    BY <1>a, <1>10, <2>1, AddTailLinked DEF ChannelAdd, InCallback
  <2>3. QED BY <1>10, <2>2 DEF ChannelAdd, ListInv, NodeAlive
<1>11. ASSUME NEW t \in Timers, NEW d \in Durations, TimerNew(t, d) PROVE ListInv'
  <2>1. /\ t \in Node \ (Heads \cup heap.live) /\ TimerHead \in Heads
        /\ t \in ChanNodes <=> TimerHead \in ChanNodes
    BY <1>11 DEF TimerNew, Node, Heads, ChanNodes
  <2>2. heap' \in Heap(Node) /\ Linked(heap') /\ heap.live \subseteq heap'.live
    BY <1>a, <1>11, <2>1, AddTailLinked DEF TimerNew, InCallback
  <2>3. QED BY <1>11, <2>2 DEF TimerNew, ListInv, NodeAlive
<1>12. ASSUME NEW n \in Chans \cup Timers, n # node, n \in heap.live, InCallback,
              heap' = Delete(heap, n), UNCHANGED <<pc, node>>
       PROVE  ListInv'
  <2>1. heap' \in Heap(Node) /\ Linked(heap') /\ heap'.live = heap.live \ {n}
    BY <1>a, <1>12, RemoveLinked DEF Delete, InCallback, Heads
  <2>2. QED BY <1>12, <2>1 DEF ListInv, NodeAlive, InCallback
<1>13. ASSUME NEW c \in Chans, ChannelRemove(c) PROVE ListInv'
  BY <1>12, <1>13 DEF ChannelRemove
<1>14. ASSUME NEW t \in Timers, TimerRemove(t) PROVE ListInv'
  BY <1>12, <1>14 DEF TimerRemove
<1>15. CASE UNCHANGED <<pc, heap, node>>
  BY <1>15 DEF ListInv, NodeAlive
<1>16. QED
  BY <1>1, <1>2, <1>3, <1>4, <1>5, <1>6, <1>7, <1>8, <1>9, <1>10, <1>11, <1>13, <1>14, <1>15
     DEF Next, Loop, Callback, TimerUpdate, ChannelRemoveFd, LoopQuit, vars

\* Whatever callbacks add and remove, and whatever they return, the iteration
\* over the channels or the timers (dlist_iterator) never stands at a node that
\* was freed.
THEOREM IterationSafe == Spec => []NodeAlive
<1>1. ListInv => NodeAlive
  BY DEF ListInv
<1>2. QED BY <1>1, ListInit, ListNext, PTL DEF Spec

-----------------------------------------------------------------------------
\* The channels have different descriptors, and only the one that is being
\* called may have given its own up.
Watched == {fd[c] : c \in Chans \cap heap.live} \ {NoFd}
FdInv ==
  /\ fd \in [Chans -> Fds \cup {NoFd}]
  /\ pc # "destroyed" =>
       /\ fdsmsk = Watched
       /\ \A c, o \in Chans \cap heap.live : fd[c] = fd[o] /\ fd[c] # NoFd => c = o
       /\ \A c \in Chans \cap heap.live : fd[c] = NoFd => pc = "channel_func" /\ c = node

\* Every step keeps the set of descriptors in accord with the channels.
LEMMA FdNext == ListInv /\ FdInv /\ [Next]_vars => FdInv'
<1> SUFFICES ASSUME ListInv, FdInv, [Next]_vars PROVE FdInv'
  OBVIOUS
<1> USE EventLoopAssumption DEF NoFd, objects
<1>a. ASSUME UNCHANGED <<fd, fdsmsk>>, heap'.live = heap.live,
             pc = "channel_func" => pc' = "channel_func" /\ node' = node, pc # "destroyed"
      PROVE  FdInv'
  BY <1>a DEF FdInv, Watched
<1>1. CASE SelectReady \/ SelectError \/ SelectTimeout \/ TestTimers \/ Quit
  BY <1>a, <1>1 DEF SelectReady, SelectError, SelectTimeout, TestTimers, Quit
<1>2. CASE Destroy
  BY <1>2 DEF Destroy, FdInv
<1>3. CASE SkipTimer \/ CallTimer \/ EndTimers \/ SkipChannel \/ EndChannels
  BY <1>a, <1>3 DEF SkipTimer, CallTimer, EndTimers, SkipChannel, EndChannels, Leave
<1>4. CASE CallChannel
  BY <1>a, <1>4 DEF CallChannel
<1>5. ASSUME NEW ret \in Returns, ReturnTimer(ret) PROVE FdInv'
  <2>1. node \notin Chans /\ pc = "timer_func"
    BY <1>5 DEF ReturnTimer, ListInv, NodeAlive
  <2>2. Chans \cap heap'.live = Chans \cap heap.live /\ UNCHANGED <<fd, fdsmsk>>
    BY <1>5, <2>1 DEF ReturnTimer, Return, Remove
  <2>3. QED BY <2>1, <2>2 DEF FdInv, Watched
<1>6. ASSUME NEW ret \in Returns, ReturnChannel(ret) PROVE FdInv'
  <2>1. node \in Chans \cap heap.live /\ pc = "channel_func" /\ UNCHANGED <<fd, fdsmsk>>
    BY <1>6 DEF ReturnChannel, ListInv, NodeAlive
  <2>2. /\ fd[node] = NoFd => heap'.live = heap.live \ {node}
        /\ fd[node] # NoFd => heap'.live = heap.live
    BY <1>6 DEF ReturnChannel, Return, Remove
  <2>3. Chans \cap heap'.live = {c \in Chans \cap heap.live : fd[c] # NoFd}
    BY <2>1, <2>2 DEF FdInv
  <2>4. QED BY <2>1, <2>3 DEF FdInv, Watched
<1>7. ASSUME NEW c \in Chans, NEW f \in Fds, ChannelAdd(c, f) PROVE FdInv'
  <2>1. Chans \cap heap'.live = (Chans \cap heap.live) \cup {c}
    BY <1>7 DEF ChannelAdd, AddTail, AddAt, NewNode
  <2>2. f # NoFd /\ c \notin heap.live /\ \A o \in Chans \cap heap.live : fd[o] # f
    BY <1>7 DEF ChannelAdd
  <2>3. fd' = [fd EXCEPT ![c] = f] /\ fdsmsk' = fdsmsk \cup {f} /\ UNCHANGED <<pc, node>>
        /\ pc # "destroyed"
    BY <1>7 DEF ChannelAdd, InCallback
  <2>4. QED BY <2>1, <2>2, <2>3 DEF FdInv, Watched
<1>8. CASE ChannelRemoveFd
  <2>1. node \in Chans \cap heap.live /\ pc = "channel_func"
    BY <1>8 DEF ChannelRemoveFd, ListInv, NodeAlive
  <2>2. /\ fd' = [fd EXCEPT ![node] = NoFd] /\ fdsmsk' = fdsmsk \ {fd[node]}
        /\ UNCHANGED <<pc, node, heap>>
    BY <1>8 DEF ChannelRemoveFd
  <2>3. QED BY <2>1, <2>2 DEF FdInv, Watched
<1>9. ASSUME NEW c \in Chans, ChannelRemove(c) PROVE FdInv'
  <2>1. /\ c \in heap.live /\ c # node /\ UNCHANGED <<pc, node>> /\ pc # "destroyed"
        /\ heap'.live = heap.live \ {c}
        /\ fd' = [fd EXCEPT ![c] = NoFd] /\ fdsmsk' = fdsmsk \ {fd[c]}
    BY <1>9 DEF ChannelRemove, Delete, Remove, InCallback
  <2>2. QED BY <2>1 DEF FdInv, Watched
<1>10. ASSUME NEW t \in Timers, NEW d \in Durations, TimerNew(t, d) \/ TimerUpdate(t, d)
       PROVE  FdInv'
  <2>1. Chans \cap heap'.live = Chans \cap heap.live /\ UNCHANGED <<pc, node, fd, fdsmsk>>
    BY <1>10 DEF TimerNew, TimerUpdate, AddTail, AddAt, NewNode
  <2>2. QED BY <2>1 DEF FdInv, Watched
<1>11. ASSUME NEW t \in Timers, TimerRemove(t) PROVE FdInv'
  <2>1. Chans \cap heap'.live = Chans \cap heap.live /\ UNCHANGED <<pc, node, fd, fdsmsk>>
    BY <1>11 DEF TimerRemove, Delete, Remove
  <2>2. QED BY <2>1 DEF FdInv, Watched
<1>12. CASE LoopQuit \/ UNCHANGED vars
  BY <1>12 DEF LoopQuit, vars, FdInv, Watched
<1>13. QED
  BY <1>1, <1>2, <1>3, <1>4, <1>5, <1>6, <1>7, <1>8, <1>9, <1>10, <1>11, <1>12
     DEF Next, Loop, Callback

\* select always watches the descriptors of the channels in the list, those
\* that were added or removed by callbacks in the same pass included.
THEOREM SelectWatchesChannels == Spec => []WatchesChannels
<1>1. Init => FdInv
  <2> SUFFICES ASSUME Init PROVE FdInv
    OBVIOUS
  <2>1. PICK t \in Timers : heap = AddTail(NoList(Node), TimerHead, t)
    BY DEF Init
  <2>2. Chans \cap heap.live = {}
    BY <2>1, EventLoopAssumption DEF AddTail, AddAt, NewNode, NoList
  <2>3. QED BY <2>2 DEF Init, FdInv, Watched
<1>2. FdInv => WatchesChannels
  BY DEF FdInv, WatchesChannels, Watched
<1>3. QED BY <1>1, <1>2, ListInit, ListNext, FdNext, PTL DEF Spec

-----------------------------------------------------------------------------
\* The order of the list of channels: along next a rank grows, by one node at a
\* time, from the head to the last node.
ChanList(h) == ChanNodes \cap h.live
OrderedBy(h, rank) ==
  /\ \A n \in ChanList(h) : ChanHead \in h.live /\ rank[ChanHead] <= rank[n]
  /\ \A n \in ChanList(h) : h.next[n] = ChanHead \/ rank[h.next[n]] > rank[n]
  /\ \A n, m \in ChanList(h) :
       rank[m] > rank[n] => h.next[n] # ChanHead /\ rank[m] >= rank[h.next[n]]
  /\ \A n, m \in ChanList(h) : rank[n] = rank[m] => n = m

\* The channels that have not been called yet are at or behind the node of the
\* iteration.
AheadBy(rank) ==
  /\ pc = "channels" /\ node # ChanHead => \A c \in waiting : rank[c] >= rank[node]
  /\ pc = "channels" /\ node = ChanHead => waiting = {}
  /\ pc = "channel_func" => \A c \in waiting : rank[c] > rank[node]

WaitInv ==
  /\ waiting \subseteq Chans \cap heap.live /\ \A c \in waiting : fd[c] \in fdscopy
  /\ pc \notin {"channels", "channel_func"} => waiting = {}
  /\ pc # "destroyed" => \E rank \in [Node -> Int] : OrderedBy(heap, rank) /\ AheadBy(rank)

\* What is behind a node is at or behind the next one.
LEMMA MovesOn ==
  ASSUME NEW rank \in [Node -> Int], OrderedBy(heap, rank), NEW n \in ChanList(heap),
         NEW C \in SUBSET ChanList(heap), \A c \in C : rank[c] > rank[n]
  PROVE  /\ heap.next[n] = ChanHead => C = {}
         /\ \A c \in C : rank[c] >= rank[heap.next[n]]
BY DEF OrderedBy

\* A channel goes to the end of the order.
LEMMA AddOrdered ==
  ASSUME NEW h \in Heap(Node), Linked(h), NEW rank \in [Node -> Int], OrderedBy(h, rank),
         NEW c \in Chans \ h.live
  PROVE  \E r \in [Node -> Int] : /\ OrderedBy(AddTail(h, ChanHead, c), r)
                                  /\ \A n \in ChanList(h) : r[n] = rank[n]
<1> DEFINE g == AddTail(h, ChanHead, c)
           last == h.prev[ChanHead]
<1>1. /\ c \in Node /\ ChanHead \in Node /\ c # ChanHead /\ h.live \subseteq Node
      /\ c \in ChanNodes /\ ChanHead \in ChanNodes
      /\ h.next \in [Node -> Node] /\ h.prev \in [Node -> Node]
  BY EventLoopAssumption DEF Node, ChanNodes, Heap
<1>2. CASE ChanHead \in h.live
  <2> DEFINE r == [rank EXCEPT ![c] = rank[last] + 1]
  <2>1. last \in ChanList(h) /\ h.next[last] = ChanHead /\ last # c /\ last \in Node
    BY <1>1, <1>2 DEF Linked, Ring, ChanList
  <2>2. g.live = h.live \cup {c} /\ g.next = [h.next EXCEPT ![c] = ChanHead, ![last] = c]
    BY <1>1, <1>2, <2>1 DEF AddTail, AddAt, NewNode
  <2>3. r \in [Node -> Int] /\ r[c] = rank[last] + 1 /\ \A n \in ChanList(h) : r[n] = rank[n]
    BY <1>1, <2>1 DEF ChanList
  <2>4. \A n \in ChanList(h) : rank[n] <= rank[last] /\ r[n] \in Int /\ n \in Node /\ n # c
    BY <1>1, <2>1, <2>3 DEF OrderedBy, ChanList
  <2>5. ChanList(g) = ChanList(h) \cup {c} /\ ChanHead \in g.live /\ ChanHead \in ChanList(h)
    BY <1>1, <1>2, <2>2 DEF ChanList
  <2>6. g.next[c] = ChanHead /\ g.next[last] = c
        /\ \A n \in ChanList(h) \ {last} : g.next[n] = h.next[n] /\ h.next[n] \in ChanList(h)
    BY <1>1, <2>1, <2>2, <2>4 DEF Linked, Ring, ChanList
  <2>7. OrderedBy(g, r)
    <3> HIDE DEF g, r, last
    <3> SUFFICES ASSUME NEW n \in ChanList(g), NEW m \in ChanList(g)
                 PROVE  /\ r[ChanHead] <= r[n]
                        /\ g.next[n] = ChanHead \/ r[g.next[n]] > r[n]
                        /\ r[m] > r[n] => g.next[n] # ChanHead /\ r[m] >= r[g.next[n]]
                        /\ r[n] = r[m] => n = m
      BY <2>5 DEF OrderedBy
    <3>1. r[ChanHead] <= r[n]
      BY <2>1, <2>3, <2>4, <2>5 DEF OrderedBy
    <3>2. r[n] = r[m] => n = m
      BY <2>1, <2>3, <2>4, <2>5 DEF OrderedBy
    <3>3. CASE n = c
      BY <2>1, <2>3, <2>4, <2>5, <2>6, <3>1, <3>2, <3>3
    <3>4. CASE n = last
      <4>1. g.next[n] = c /\ c # ChanHead /\ r[n] = rank[last] /\ r[c] = rank[last] + 1
        BY <1>1, <2>1, <2>3, <2>6, <3>4
      <4>2. m \in ChanList(h) => r[m] <= r[n]
        BY <2>3, <2>4, <4>1
      <4>3. QED BY <2>1, <2>3, <2>4, <2>5, <3>1, <3>2, <4>1, <4>2
    <3>5. CASE n # c /\ n # last
      <4>1. n \in ChanList(h) /\ g.next[n] = h.next[n] /\ h.next[n] \in ChanList(h)
        BY <2>5, <2>6, <3>5
      <4>2. rank[n] < rank[last]
        BY <2>1, <2>4, <3>5, <4>1, <1>1 DEF OrderedBy, ChanList
      <4>3. h.next[n] # ChanHead /\ rank[h.next[n]] > rank[n] /\ rank[last] >= rank[h.next[n]]
        BY <2>1, <4>1, <4>2 DEF OrderedBy
      <4>4. r[n] = rank[n] /\ r[h.next[n]] = rank[h.next[n]] /\ rank[n] \in Int
            /\ rank[h.next[n]] \in Int /\ rank[last] \in Int
        BY <2>1, <2>3, <2>4, <4>1
      <4>5. r[m] > r[n] => r[m] >= r[g.next[n]]
        <5>1. CASE m = c
          BY <2>3, <4>1, <4>3, <4>4, <5>1
        <5>2. CASE m \in ChanList(h)
          BY <2>3, <4>1, <4>4, <5>2 DEF OrderedBy
        <5>3. QED BY <2>5, <5>1, <5>2
      <4>6. QED BY <3>1, <3>2, <4>1, <4>3, <4>4, <4>5
    <3>6. QED BY <3>3, <3>4, <3>5
  <2>8. QED BY <2>3, <2>7
<1>3. CASE ChanHead \notin h.live
  <2> DEFINE r == [rank EXCEPT ![ChanHead] = 0, ![c] = 1]
  <2>1. ChanList(h) = {}
    BY <1>3 DEF OrderedBy
  <2>2. g.live = h.live \cup {ChanHead, c} /\ g.next[c] = ChanHead /\ g.next[ChanHead] = c
    BY <1>1, <1>3 DEF AddTail, AddAt, NewNode
  <2>3. ChanList(g) = {ChanHead, c}
    BY <1>1, <2>1, <2>2 DEF ChanList
  <2>4. r \in [Node -> Int] /\ r[ChanHead] = 0 /\ r[c] = 1
    BY <1>1
  <2>5. OrderedBy(g, r)
    <3> HIDE DEF g, r
    <3> QED BY <1>1, <2>2, <2>3, <2>4 DEF OrderedBy
  <2>6. QED BY <2>1, <2>4, <2>5
<1>4. QED BY <1>2, <1>3

\* A channel that goes leaves the order of the others.
LEMMA RemoveOrdered ==
  ASSUME NEW h \in Heap(Node), Linked(h), NEW rank \in [Node -> Int], OrderedBy(h, rank),
         NEW c \in Chans \cap h.live
  PROVE  OrderedBy(Remove(h, c), rank)
<1> DEFINE g == Remove(h, c)
           before == h.prev[c]
<1>1. /\ c \in ChanList(h) /\ c # ChanHead /\ c \in Node /\ ChanHead \in ChanNodes
      /\ h.live \subseteq Node /\ h.next \in [Node -> Node] /\ c \in h.live \ Heads
  BY EventLoopAssumption DEF Node, ChanNodes, ChanList, Heap, Heads
<1>2. /\ before \in ChanList(h) /\ before # c /\ h.next[before] = c
      /\ h.next[c] \in ChanList(h) /\ h.next[c] # c
  BY <1>1, NextIsOther DEF Linked, Ring, ChanList
<1>3. /\ ChanList(g) = ChanList(h) \ {c} /\ g.live = h.live \ {c}
      /\ g.next[before] = h.next[c]
      /\ \A n \in ChanList(h) \ {c, before} : g.next[n] = h.next[n]
  BY <1>1, <1>2 DEF Remove, ChanList
<1>4. \A n \in ChanList(h) : rank[n] \in Int
  BY <1>1 DEF ChanList
<1>5. SUFFICES ASSUME NEW n \in ChanList(g), NEW m \in ChanList(g)
               PROVE  /\ g.next[n] = ChanHead \/ rank[g.next[n]] > rank[n]
                      /\ rank[m] > rank[n] => g.next[n] # ChanHead /\ rank[m] >= rank[g.next[n]]
  BY <1>1, <1>3 DEF OrderedBy
<1>6. CASE n = before
  <2>1. rank[c] > rank[n] /\ g.next[n] = h.next[c] /\ n \in ChanList(h) /\ m \in ChanList(h) /\ m # c
    BY <1>1, <1>2, <1>3, <1>6 DEF OrderedBy
  <2>2. rank[m] > rank[n] => rank[m] > rank[c]
    BY <1>1, <1>2, <1>4, <1>6, <2>1 DEF OrderedBy
  <2>3. QED BY <1>1, <1>2, <1>4, <2>1, <2>2 DEF OrderedBy
<1>7. CASE n # before
  BY <1>3, <1>7 DEF OrderedBy
<1>8. QED BY <1>6, <1>7

\* What happens in the list of timers does not touch that of the channels.
LEMMA AddTimerOrdered ==
  ASSUME NEW h \in Heap(Node), Linked(h), NEW t \in Timers \ h.live
  PROVE  /\ AddTail(h, TimerHead, t).live \cap Chans = h.live \cap Chans
         /\ \A rank \in [Node -> Int] :
              OrderedBy(h, rank) => OrderedBy(AddTail(h, TimerHead, t), rank)
<1> DEFINE g == AddTail(h, TimerHead, t)
<1> USE EventLoopAssumption
<1>1. /\ t \notin ChanNodes /\ TimerHead \notin ChanNodes /\ t \in Node /\ TimerHead \in Node
      /\ h.next \in [Node -> Node] /\ h.prev \in [Node -> Node] /\ h.live \subseteq Node
  BY DEF Node, ChanNodes, Heap
<1>2. TimerHead \in h.live => h.prev[TimerHead] \in h.live \ ChanNodes
  BY <1>1 DEF Linked, Ring
<1>3. g.live \cap ChanNodes = h.live \cap ChanNodes
  BY <1>1 DEF AddTail, AddAt, NewNode
<1>4. \A n \in h.live \cap ChanNodes : g.next[n] = h.next[n]
  BY <1>1, <1>2 DEF AddTail, AddAt, NewNode
<1>5. QED
  <2> HIDE DEF g
  <2>1. g.live \cap Chans = h.live \cap Chans /\ ChanList(g) = ChanList(h)
    BY <1>3 DEF ChanNodes, ChanList
  <2>2. ChanHead \in g.live <=> ChanHead \in h.live
    BY <1>3 DEF ChanNodes
  <2>3. QED BY <1>4, <2>1, <2>2 DEF OrderedBy, ChanList, g

\* Removing a timer keeps the order of the channel list.
LEMMA RemoveTimerOrdered ==
  ASSUME NEW h \in Heap(Node), Linked(h), NEW t \in Timers \cap h.live
  PROVE  /\ Remove(h, t).live \cap Chans = h.live \cap Chans
         /\ \A rank \in [Node -> Int] : OrderedBy(h, rank) => OrderedBy(Remove(h, t), rank)
<1> DEFINE g == Remove(h, t)
<1> USE EventLoopAssumption
<1>1. /\ t \notin ChanNodes /\ h.live \subseteq Node /\ h.next \in [Node -> Node]
  BY DEF Node, ChanNodes, Heap
<1>2. h.prev[t] \in h.live \ ChanNodes
  BY <1>1 DEF Linked, Ring
<1>3. g.live \cap ChanNodes = h.live \cap ChanNodes
  BY <1>1 DEF Remove
<1>4. \A n \in h.live \cap ChanNodes : g.next[n] = h.next[n]
  BY <1>1, <1>2 DEF Remove
<1>5. QED
  <2> HIDE DEF g
  <2>1. g.live \cap Chans = h.live \cap Chans /\ ChanList(g) = ChanList(h)
    BY <1>3 DEF ChanNodes, ChanList
  <2>2. ChanHead \in g.live <=> ChanHead \in h.live
    BY <1>3 DEF ChanNodes
  <2>3. QED BY <1>4, <2>1, <2>2 DEF OrderedBy, ChanList, g

\* Every step keeps the channels to be called in front of the iteration.
LEMMA WaitNext == ListInv /\ FdInv /\ WaitInv /\ [Next]_vars => WaitInv'
<1> SUFFICES ASSUME ListInv, FdInv, WaitInv, [Next]_vars PROVE WaitInv'
  OBVIOUS
<1> USE EventLoopAssumption DEF objects
<1>a. /\ heap \in Heap(Node) /\ (pc # "destroyed" => Linked(heap))
      /\ waiting \subseteq Chans \cap heap.live /\ waiting \subseteq ChanList(heap)
      /\ pc = "channels" => node \in Chans \cap heap.live \/ node = ChanHead
      /\ pc = "channel_func" => node \in Chans \cap heap.live
      /\ pc = "timer_func" => node \in Timers \cap heap.live
  BY DEF ListInv, NodeAlive, WaitInv, ChanList, ChanNodes
<1>b. ASSUME UNCHANGED <<pc, node, waiting, fd, fdscopy>>, heap'.live \cap Chans = heap.live \cap Chans,
             \A rank \in [Node -> Int] : OrderedBy(heap, rank) => OrderedBy(heap', rank)
      PROVE  WaitInv'
  BY <1>b DEF WaitInv, AheadBy
<1>c. ASSUME UNCHANGED heap, waiting' = {}, pc # "destroyed", pc' = "channels" => node' = ChanHead
      PROVE  WaitInv'
  BY <1>c DEF WaitInv, AheadBy
<1>1. CASE SelectReady
  <2>1. PICK rank \in [Node -> Int] : OrderedBy(heap, rank)
    BY <1>1 DEF SelectReady, WaitInv
  <2>2. /\ waiting' \subseteq Chans \cap heap.live /\ UNCHANGED <<heap, fd>>
        /\ \A c \in waiting' : fd[c] \in fdscopy'
        /\ pc' = "channels" /\ node' = Start(ChanHead)
    BY <1>1 DEF SelectReady
  <2>3. waiting' # {} => ChanHead \in heap.live
    BY <2>1, <2>2 DEF OrderedBy, ChanList, ChanNodes
  <2>4. CASE ChanHead \in heap.live
    <3>1. ChanHead \in ChanList(heap) /\ waiting' \subseteq ChanList(heap) /\ ChanHead \notin waiting'
      BY <2>2, <2>4 DEF ChanList, ChanNodes
    <3>2. \A c \in waiting' : rank[c] > rank[ChanHead]
      <4> TAKE c \in waiting'
      <4>1. c \in ChanList(heap) /\ c # ChanHead /\ rank[c] \in Int /\ rank[ChanHead] \in Int
        BY <1>a, <3>1 DEF ChanList, Heap
      <4>2. rank[ChanHead] <= rank[c] /\ rank[c] # rank[ChanHead]
        BY <2>1, <3>1, <4>1 DEF OrderedBy
      <4>3. QED BY <4>1, <4>2
    <3>3. node' = heap.next[ChanHead]
      BY <2>2, <2>4 DEF Start
    <3>4. /\ node' = ChanHead => waiting' = {}
          /\ \A c \in waiting' : rank[c] >= rank[node']
      BY <2>1, <3>1, <3>2, <3>3, MovesOn
    <3>5. QED BY <2>1, <2>2, <3>4 DEF WaitInv, AheadBy
  <2>5. CASE ChanHead \notin heap.live
    <3>1. node' = ChanHead /\ waiting' = {}
      BY <2>2, <2>3, <2>5 DEF Start
    <3>2. QED BY <2>1, <2>2, <3>1 DEF WaitInv, AheadBy
  <2>6. QED BY <2>4, <2>5
<1>2. CASE SelectError \/ SelectTimeout \/ TestTimers \/ Quit
  BY <1>c, <1>2 DEF SelectError, SelectTimeout, TestTimers, Quit, WaitInv
<1>3. CASE Destroy
  BY <1>3 DEF Destroy, WaitInv
<1>4. CASE SkipTimer \/ CallTimer
  BY <1>c, <1>4 DEF SkipTimer, CallTimer, WaitInv
<1>5. CASE EndTimers \/ EndChannels
  BY <1>c, <1>5 DEF EndTimers, EndChannels, Leave
<1>6. CASE SkipChannel
  <2>1. PICK rank \in [Node -> Int] : OrderedBy(heap, rank) /\ AheadBy(rank)
    BY <1>6 DEF SkipChannel, WaitInv
  <2>2. /\ pc = "channels" /\ node \in Chans \cap heap.live /\ node # ChanHead
        /\ node \notin waiting /\ node \in ChanList(heap)
    BY <1>a, <1>6 DEF SkipChannel, WaitInv, ChanList, ChanNodes
  <2>3. \A c \in waiting : rank[c] > rank[node]
    <3> TAKE c \in waiting
    <3>1. c \in ChanList(heap) /\ rank[c] \in Int /\ rank[node] \in Int
      BY <1>a, <2>2 DEF ChanList, Heap
    <3>2. rank[c] >= rank[node] /\ rank[c] # rank[node]
      BY <2>1, <2>2, <3>1 DEF AheadBy, OrderedBy
    <3>3. QED BY <3>1, <3>2
  <2>4. UNCHANGED <<pc, heap, fd, fdscopy, waiting>> /\ node' = heap.next[node]
    BY <1>6 DEF SkipChannel
  <2>5. /\ node' = ChanHead => waiting = {}
        /\ \A c \in waiting : rank[c] >= rank[node']
    BY <1>a, <2>1, <2>2, <2>3, <2>4, MovesOn
  <2>6. QED BY <2>1, <2>2, <2>4, <2>5 DEF WaitInv, AheadBy
<1>7. CASE CallChannel
  <2>1. PICK rank \in [Node -> Int] : OrderedBy(heap, rank) /\ AheadBy(rank)
    BY <1>7 DEF CallChannel, WaitInv
  <2>2. /\ pc = "channels" /\ node # ChanHead /\ node \in ChanList(heap)
        /\ waiting' = waiting \ {node} /\ pc' = "channel_func"
        /\ UNCHANGED <<heap, node, fd, fdscopy>>
    BY <1>a, <1>7 DEF CallChannel, ChanList, ChanNodes
  <2>3. \A c \in waiting' : rank[c] > rank[node]
    <3> TAKE c \in waiting'
    <3>1. c \in ChanList(heap) /\ c \in waiting /\ c # node /\ rank[c] \in Int /\ rank[node] \in Int
      BY <1>a, <2>2 DEF ChanList, Heap
    <3>2. rank[c] >= rank[node] /\ rank[c] # rank[node]
      BY <2>1, <2>2, <3>1 DEF AheadBy, OrderedBy
    <3>3. QED BY <3>1, <3>2
  <2>4. QED BY <2>1, <2>2, <2>3 DEF WaitInv, AheadBy
<1>8. ASSUME NEW ret \in Returns, ReturnTimer(ret) PROVE WaitInv'
  <2>1. PICK rank \in [Node -> Int] : OrderedBy(heap, rank)
    BY <1>8 DEF ReturnTimer, WaitInv
  <2>2. /\ pc = "timer_func" /\ waiting = {} /\ node \in Timers \cap heap.live
        /\ pc' \in {"timers", "top"} /\ waiting' = {}
        /\ heap' = heap \/ heap' = Remove(heap, node)
    BY <1>a, <1>8 DEF ReturnTimer, Return, Leave, WaitInv
  <2>3. OrderedBy(heap', rank)
    BY <1>a, <2>1, <2>2, RemoveTimerOrdered
  <2>4. QED BY <2>1, <2>2, <2>3 DEF WaitInv, AheadBy
<1>9. ASSUME NEW ret \in Returns, ReturnChannel(ret) PROVE WaitInv'
  <2>1. PICK rank \in [Node -> Int] : OrderedBy(heap, rank) /\ AheadBy(rank)
    BY <1>9 DEF ReturnChannel, WaitInv
  <2>2. /\ pc = "channel_func" /\ node \in Chans \cap heap.live /\ node \in ChanList(heap)
        /\ \A c \in waiting : rank[c] > rank[node]
        /\ (heap' = heap \/ heap' = Remove(heap, node))
        /\ UNCHANGED fd
    BY <1>a, <1>9, <2>1 DEF ReturnChannel, Return, AheadBy, ChanList, ChanNodes
  <2>3. OrderedBy(heap', rank) /\ heap'.live \in {heap.live, heap.live \ {node}}
    BY <1>a, <2>1, <2>2, RemoveOrdered DEF Remove
  <2>4. node \notin waiting
    BY <1>a, <2>2 DEF ChanList, Heap
  <2>5. CASE Leave
    BY <2>1, <2>3, <2>5 DEF Leave, WaitInv, AheadBy
  <2>6. CASE node' = heap.next[node] /\ pc' = "channels" /\ UNCHANGED <<fdscopy, waiting>>
    <3>1. /\ node' = ChanHead => waiting = {}
          /\ \A c \in waiting : rank[c] >= rank[node']
      BY <1>a, <2>1, <2>2, <2>6, MovesOn
    <3>2. waiting \subseteq Chans \cap heap'.live
      BY <1>a, <2>3, <2>4
    <3>3. QED BY <2>1, <2>2, <2>3, <2>6, <3>1, <3>2 DEF WaitInv, AheadBy
  <2>7. QED BY <1>9, <2>5, <2>6 DEF ReturnChannel, Return, ReadNext
<1>10. ASSUME NEW c \in Chans, NEW f \in Fds, ChannelAdd(c, f) PROVE WaitInv'
  <2>1. PICK rank \in [Node -> Int] : OrderedBy(heap, rank) /\ AheadBy(rank)
    BY <1>10 DEF ChannelAdd, InCallback, WaitInv
  <2>2. /\ c \in Chans \ heap.live /\ heap' = AddTail(heap, ChanHead, c) /\ Linked(heap)
        /\ fd' = [fd EXCEPT ![c] = f] /\ UNCHANGED <<pc, node, fdscopy, waiting>>
        /\ pc \in {"timer_func", "channel_func"}
    BY <1>a, <1>10 DEF ChannelAdd, InCallback
  <2>3. PICK r \in [Node -> Int] : OrderedBy(heap', r) /\ \A n \in ChanList(heap) : r[n] = rank[n]
    BY <1>a, <2>1, <2>2, AddOrdered
  <2>4. heap.live \subseteq heap'.live
    BY <2>2 DEF AddTail, AddAt, NewNode
  <2>5. AheadBy(r)'
    <3>1. pc = "channel_func" => node \in ChanList(heap)
      BY <1>a DEF ChanList, ChanNodes
    <3>2. QED BY <1>a, <2>1, <2>2, <2>3, <3>1 DEF AheadBy
  <2>6. \A o \in waiting : fd'[o] \in fdscopy
    BY <1>a, <2>2 DEF WaitInv, FdInv
  <2>7. QED BY <1>a, <2>2, <2>3, <2>4, <2>5, <2>6 DEF WaitInv
<1>11. CASE ChannelRemoveFd
  <2>1. PICK rank \in [Node -> Int] : OrderedBy(heap, rank) /\ AheadBy(rank)
    BY <1>11 DEF ChannelRemoveFd, WaitInv
  <2>2. /\ pc = "channel_func" /\ fd' = [fd EXCEPT ![node] = NoFd]
        /\ UNCHANGED <<pc, heap, node, fdscopy, waiting>>
    BY <1>11 DEF ChannelRemoveFd
  <2>3. node \in Node /\ rank[node] \in Int /\ \A c \in waiting : rank[c] > rank[node]
    BY <1>a, <2>1, <2>2 DEF AheadBy, Heap
  <2>4. \A c \in waiting : fd'[c] \in fdscopy
    BY <1>a, <2>2, <2>3 DEF WaitInv, FdInv
  <2>5. QED BY <2>1, <2>2, <2>4 DEF WaitInv, AheadBy
<1>12. ASSUME NEW c \in Chans, ChannelRemove(c) PROVE WaitInv'
  <2>1. PICK rank \in [Node -> Int] : OrderedBy(heap, rank) /\ AheadBy(rank)
    BY <1>12 DEF ChannelRemove, InCallback, WaitInv
  <2>2. /\ c \in Chans \cap heap.live /\ heap' = Remove(heap, c) /\ Linked(heap)
        /\ fd' = [fd EXCEPT ![c] = NoFd] /\ waiting' = waiting \ {c}
        /\ UNCHANGED <<pc, node, fdscopy>> /\ pc \in {"timer_func", "channel_func"}
    BY <1>a, <1>12 DEF ChannelRemove, InCallback, Delete
  <2>3. OrderedBy(heap', rank) /\ heap'.live = heap.live \ {c}
    BY <1>a, <2>1, <2>2, RemoveOrdered DEF Remove
  <2>4. \A o \in waiting' : fd'[o] \in fdscopy
    BY <1>a, <2>2 DEF WaitInv, FdInv
  <2>5. QED BY <1>a, <2>1, <2>2, <2>3, <2>4 DEF WaitInv, AheadBy
<1>13. ASSUME NEW t \in Timers, NEW d \in Durations, TimerNew(t, d) \/ TimerUpdate(t, d)
       PROVE  WaitInv'
  <2>1. /\ UNCHANGED <<pc, node, waiting, fd, fdscopy>> /\ pc # "destroyed"
        /\ heap' = heap \/ (t \notin heap.live /\ heap' = AddTail(heap, TimerHead, t))
    BY <1>13 DEF TimerNew, TimerUpdate, InCallback
  <2>2. CASE heap' = heap
    BY <1>b, <2>1, <2>2
  <2>3. CASE t \notin heap.live /\ heap' = AddTail(heap, TimerHead, t)
    BY <1>a, <1>b, <2>1, <2>3, AddTimerOrdered
  <2>4. QED BY <2>1, <2>2, <2>3
<1>14. ASSUME NEW t \in Timers, TimerRemove(t) PROVE WaitInv'
  BY <1>a, <1>b, <1>14, RemoveTimerOrdered DEF TimerRemove, Delete, InCallback
<1>15. CASE LoopQuit \/ UNCHANGED vars
  BY <1>b, <1>15 DEF LoopQuit, vars
<1>16. QED
  BY <1>1, <1>2, <1>3, <1>4, <1>5, <1>6, <1>7, <1>8, <1>9, <1>10, <1>11, <1>12, <1>13, <1>14, <1>15
     DEF Next, Loop, Callback

\* Each channel that select reported is called in that pass over the channels
\* (loop_iter_channel_func), or has been removed: none is passed over, whatever
\* the callbacks add to the list and remove from it meanwhile.
THEOREM NoneIsPassedOver == Spec => []PassComplete
<1>1. Init => FdInv /\ WaitInv
  <2> SUFFICES ASSUME Init PROVE FdInv /\ WaitInv
    OBVIOUS
  <2>1. PICK t \in Timers : heap = AddTail(NoList(Node), TimerHead, t)
    BY DEF Init
  <2>2. Chans \cap heap.live = {} /\ ChanList(heap) = {}
    BY <2>1, EventLoopAssumption DEF AddTail, AddAt, NewNode, NoList, ChanList, ChanNodes
  <2>3. FdInv
    BY <2>2 DEF Init, FdInv, Watched
  <2>4. [n \in Node |-> 0] \in [Node -> Int] /\ OrderedBy(heap, [n \in Node |-> 0])
    BY <2>2 DEF OrderedBy
  <2>5. WaitInv
    BY <2>2, <2>4 DEF Init, WaitInv, AheadBy
  <2>6. QED BY <2>3, <2>5
<1>2. WaitInv => PassComplete
  BY DEF WaitInv, AheadBy, PassComplete
<1>3. QED BY <1>1, <1>2, ListInit, ListNext, FdNext, WaitNext, PTL DEF Spec

-----------------------------------------------------------------------------
\* Division with a remainder, which timevals are made with.
LEMMA Divided ==
  ASSUME NEW d \in Int
  PROVE  /\ d % Second \in 0 .. Second - 1 /\ d % Second \in Nat /\ d \div Second \in Int
BY EventLoopAssumption

\* What the functions on timevals return.
LEMMA TimevalTypes ==
  ASSUME usec \in 0 .. Second - 1
  PROVE  /\ Now \in Timeval /\ Past \in Timeval /\ Past.usec < Second
         /\ \A d \in Int : Span(d) \in Timeval /\ Span(d).usec < Second
         /\ \A a, b \in Timeval : TimerAdd(a, b) \in Timeval /\ TimerAdd(a, b).usec < Second
         /\ \A d \in Int : Deadline(d) \in Timeval /\ Deadline(d).usec < 2 * Second
         /\ \A tv \in Timeval, d \in Int :
              Later(tv, d) \in Timeval /\ (Later(tv, d).usec = tv.usec \/ Later(tv, d) = Past)
<1> USE EventLoopAssumption
<1>1. Now \in Timeval /\ Past \in Timeval /\ Past.usec < Second
  BY DEF Now, Past, Timeval
<1>2. \A d \in Int : Span(d) \in Timeval /\ Span(d).usec < Second
  BY Divided DEF Span, Timeval
<1>3. ASSUME NEW a \in Timeval, NEW b \in Timeval
      PROVE  TimerAdd(a, b) \in Timeval /\ TimerAdd(a, b).usec < Second
  <2>1. a.usec + b.usec \in Int /\ a.sec \in Int /\ b.sec \in Int
    BY DEF Timeval
  <2>2. /\ (a.usec + b.usec) % Second \in Nat /\ (a.usec + b.usec) % Second < Second
        /\ (a.usec + b.usec) \div Second \in Int
    BY <2>1, Divided
  <2>3. QED BY <2>1, <2>2 DEF TimerAdd, Timeval
<1>4. ASSUME NEW d \in Int PROVE Deadline(d) \in Timeval /\ Deadline(d).usec < 2 * Second
  <2>1. Span(d).sec \in Int /\ Span(d).usec \in Nat /\ Span(d).usec < Second
    BY <1>2 DEF Timeval
  <2>2. QED BY <2>1 DEF Deadline, Timeval
<1>5. ASSUME NEW tv \in Timeval, NEW d \in Int
      PROVE  Later(tv, d) \in Timeval /\ (Later(tv, d).usec = tv.usec \/ Later(tv, d) = Past)
  <2>1. (usec + d) \div Second \in Int /\ tv.sec \in Int /\ tv.usec \in Nat
    BY Divided DEF Timeval
  <2>2. QED BY <1>1, <2>1 DEF Later, Timeval
<1>6. QED BY <1>1, <1>2, <1>3, <1>4, <1>5

\* What the clock does to the timevals.
LEMMA PassTypes ==
  ASSUME usec \in 0 .. Second - 1, NEW d \in Elapsed, NEW w \in [Timers -> Timeval],
         \A t \in Timers : w[t].usec < 2 * Second, NEW r \in Timeval, r.usec < Second,
         Pass(d, w, r)
  PROVE  /\ usec' \in 0 .. Second - 1
         /\ when' \in [Timers -> Timeval] /\ \A t \in Timers : when'[t].usec < 2 * Second
         /\ run_timers' \in Timeval /\ run_timers'.usec < Second
<1> USE EventLoopAssumption
<1>1. d \in Int /\ usec + d \in Int
  BY DEF Elapsed
<1>2. usec' \in 0 .. Second - 1
  BY <1>1, Divided DEF Pass
<1>3. ASSUME NEW t \in Timers
      PROVE  when'[t] \in Timeval /\ when'[t].usec < 2 * Second
  <2>1. /\ Later(w[t], d) \in Timeval /\ Past \in Timeval /\ Past.usec < Second
        /\ Later(w[t], d).usec = w[t].usec \/ Later(w[t], d) = Past
    BY <1>1, TimevalTypes
  <2>2. when'[t] = Later(w[t], d) \/ when'[t] = Past
    BY DEF Pass
  <2>3. Past.usec < 2 * Second
    BY <2>1 DEF Past
  <2>4. QED BY <2>1, <2>2, <2>3
<1>4. when' \in [Timers -> Timeval]
  BY <1>3 DEF Pass
<1>5. run_timers' \in Timeval /\ run_timers'.usec < Second
  BY <1>1, TimevalTypes DEF Pass
<1>6. QED BY <1>2, <1>3, <1>4, <1>5

\* Every step keeps the types.
LEMMA TypeNext == ListInv /\ ListInv' /\ TypeOK /\ [Next]_vars => TypeOK'
<1> SUFFICES ASSUME ListInv, ListInv', TypeOK, [Next]_vars PROVE TypeOK'
  OBVIOUS
<1> USE EventLoopAssumption DEF objects, Steps
<1>a. heap' \in Heap(Node)
  BY DEF ListInv
<1>b. pc \in {"timers", "timer_func", "channels", "channel_func"} => node \in Node
  BY DEF ListInv, NodeAlive, Node
<1>c. node \in Node => heap.next[node] \in Node
  BY DEF TypeOK, Heap
<1>d. Start(ChanHead) \in Node /\ Start(TimerHead) \in Node
  BY DEF Start, TypeOK, Heap, Node
<1>e. /\ when \in [Timers -> Timeval] /\ millisecs \in [Timers -> Timeval]
      /\ \A t \in Timers : when[t].usec < 2 * Second /\ millisecs[t].usec < Second
      /\ run_timers \in Timeval /\ run_timers.usec < Second
      /\ usec \in 0 .. Second - 1
  BY DEF TypeOK
<1>f. ASSUME NEW d \in Elapsed, Pass(d, when, run_timers)
      PROVE  /\ usec' \in 0 .. Second - 1
             /\ when' \in [Timers -> Timeval] /\ \A t \in Timers : when'[t].usec < 2 * Second
             /\ run_timers' \in Timeval /\ run_timers'.usec < Second
  BY <1>e, <1>f, PassTypes
<1>1. CASE SelectReady
  <2>1. PICK d \in Elapsed : Pass(d, when, run_timers)
    BY <1>1 DEF SelectReady
  <2>2. fdscopy' \subseteq Fds /\ waiting' \subseteq Chans /\ node' \in Node
    BY <1>1, <1>d DEF SelectReady, TypeOK
  <2>3. QED BY <1>1, <1>f, <2>1, <2>2 DEF SelectReady, TypeOK
<1>2. CASE SelectError
  <2>1. PICK d \in Elapsed : Pass(d, when, run_timers)
    BY <1>2 DEF SelectError
  <2>2. QED BY <1>2, <1>f, <2>1 DEF SelectError, TypeOK
<1>3. CASE SelectTimeout
  <2>1. LoopTimeout \in Elapsed /\ Pass(LoopTimeout, when, run_timers)
    BY <1>3 DEF SelectTimeout, Elapsed
  <2>2. QED BY <1>3, <1>f, <2>1 DEF SelectTimeout, TypeOK
<1>4. CASE TestTimers
  <2>1. /\ TimerAdd(Now, Span(TimerInterval)) \in Timeval
        /\ TimerAdd(Now, Span(TimerInterval)).usec < Second
    BY <1>e, TimevalTypes
  <2>2. QED BY <1>4, <1>d, <2>1 DEF TestTimers, TypeOK
<1>5. CASE Quit \/ Destroy
  BY <1>5, <1>a DEF Quit, Destroy, TypeOK
<1>6. CASE SkipTimer \/ SkipChannel
  BY <1>6, <1>b, <1>c DEF SkipTimer, SkipChannel, TypeOK
<1>7. CASE CallTimer \/ CallChannel
  BY <1>7 DEF CallTimer, CallChannel, ReadNext, TypeOK
<1>8. CASE EndTimers \/ EndChannels
  BY <1>8 DEF EndTimers, EndChannels, Leave, TypeOK
<1>9. ASSUME NEW ret, NEW iteration \in {"timers", "channels"}, Return(ret, iteration),
             pc \in {"timer_func", "channel_func"}
      PROVE  /\ node' \in Node \cup {NoNode} /\ next' \in Node \cup {NoNode} /\ pc' \in Steps
             /\ fdscopy' \subseteq Fds /\ waiting' \subseteq Chans
  BY <1>9, <1>b, <1>c DEF Return, ReadNext, Leave, TypeOK
<1>10. ASSUME NEW ret \in Returns, ReturnTimer(ret) PROVE TypeOK'
  <2> DEFINE w == IF ret = DLIST_CONT
                  THEN [when EXCEPT ![node] = TimerAdd(Now, millisecs[node])] ELSE when
  <2>1. node \in Timers
    BY <1>10 DEF ReturnTimer, ListInv, NodeAlive
  <2>2. /\ TimerAdd(Now, millisecs[node]) \in Timeval
        /\ TimerAdd(Now, millisecs[node]).usec < Second
        /\ TimerAdd(Now, millisecs[node]).usec \in Nat
    BY <1>e, <2>1, TimevalTypes DEF Timeval
  <2>3. w \in [Timers -> Timeval] /\ \A t \in Timers : w[t].usec < 2 * Second
    BY <1>e, <2>1, <2>2
  <2>4. PICK d \in Elapsed : Pass(d, w, run_timers)
    BY <1>10 DEF ReturnTimer
  <2>5. /\ usec' \in 0 .. Second - 1
        /\ when' \in [Timers -> Timeval] /\ \A t \in Timers : when'[t].usec < 2 * Second
        /\ run_timers' \in Timeval /\ run_timers'.usec < Second
    <3> HIDE DEF w
    <3> QED BY <1>e, <2>3, <2>4, PassTypes
  <2>6. QED BY <1>9, <1>10, <1>a, <2>5 DEF ReturnTimer, TypeOK
<1>11. ASSUME NEW ret \in Returns, ReturnChannel(ret) PROVE TypeOK'
  <2>1. PICK d \in Elapsed : Pass(d, when, run_timers)
    BY <1>11 DEF ReturnChannel
  <2>2. QED BY <1>9, <1>11, <1>a, <1>f, <2>1 DEF ReturnChannel, TypeOK
<1>12. ASSUME NEW c \in Chans, NEW f \in Fds, ChannelAdd(c, f) PROVE TypeOK'
  BY <1>12, <1>a DEF ChannelAdd, TypeOK
<1>13. ASSUME NEW c \in Chans, ChannelRemove(c) PROVE TypeOK'
  BY <1>13, <1>a DEF ChannelRemove, TypeOK
<1>14. CASE ChannelRemoveFd \/ LoopQuit \/ UNCHANGED vars
  BY <1>14 DEF ChannelRemoveFd, LoopQuit, vars, TypeOK
<1>15. ASSUME NEW t \in Timers, NEW d \in Durations, TimerNew(t, d) \/ TimerUpdate(t, d)
       PROVE  TypeOK'
  <2>1. d \in Int /\ Abs(d) \in Int
    BY DEF Abs
  <2>2. /\ Deadline(d) \in Timeval /\ Deadline(d).usec < 2 * Second
        /\ Span(Abs(d)) \in Timeval /\ Span(Abs(d)).usec < Second
    BY <1>e, <2>1, TimevalTypes
  <2>3. /\ when' = [when EXCEPT ![t] = Deadline(d)]
        /\ millisecs' = [millisecs EXCEPT ![t] = Span(Abs(d))]
        /\ UNCHANGED <<pc, endRequest, node, next, fd, fdsmsk, fdscopy, waiting, run_timers, usec>>
    BY <1>15 DEF TimerNew, TimerUpdate
  <2>4. QED BY <1>a, <1>e, <2>2, <2>3 DEF TypeOK
<1>16. ASSUME NEW t \in Timers, TimerRemove(t) PROVE TypeOK'
  BY <1>16, <1>a DEF TimerRemove, TypeOK
<1>17. QED
  BY <1>1, <1>2, <1>3, <1>4, <1>5, <1>6, <1>7, <1>8, <1>10, <1>11, <1>12, <1>13, <1>14, <1>15,
     <1>16 DEF Next, Loop, Callback

\* For any channels, timers and durations the loop keeps its types, and what
\* timeradd makes is normalised.
THEOREM TypeCorrect == Spec => []TypeOK
<1>1. Init => TypeOK
  <2> SUFFICES ASSUME Init PROVE TypeOK
    OBVIOUS
  <2> USE EventLoopAssumption
  <2>1. usec \in 0 .. Second - 1
    BY DEF Init
  <2>2. PICK t \in Timers, d \in Durations :
          /\ when = [u \in Timers |-> IF u = t THEN Deadline(d) ELSE Past]
          /\ millisecs = [u \in Timers |-> IF u = t THEN Span(Abs(d)) ELSE Span(0)]
    BY DEF Init
  <2>3. /\ Deadline(d) \in Timeval /\ Deadline(d).usec < 2 * Second
        /\ Past \in Timeval /\ Past.usec < Second /\ Past.usec < 2 * Second
        /\ Span(Abs(d)) \in Timeval /\ Span(Abs(d)).usec < Second
        /\ Span(0) \in Timeval /\ Span(0).usec < Second
    <3>1. d \in Int /\ Abs(d) \in Int /\ 0 \in Int
      BY DEF Abs
    <3>2. Past.usec < 2 * Second
      BY DEF Past
    <3>3. QED BY <2>1, <3>1, <3>2, TimevalTypes
  <2>4. heap \in Heap(Node)
    BY ListInit DEF ListInv
  <2>5. QED BY <2>1, <2>2, <2>3, <2>4 DEF Init, TypeOK, Steps
<1>2. QED BY <1>1, ListInit, ListNext, TypeNext, PTL DEF Spec

-----------------------------------------------------------------------------
(* The order of both lists.                                                *)

\* s holds the nodes of the list of head, in the order next visits them.
Order(h, head, s) ==
  /\ s \in Seq(Node)
  /\ \A k \in 1 .. Len(s) : s[k] \in h.live \ Heads
  /\ \A i, j \in 1 .. Len(s) : s[i] = s[j] => i = j
  /\ h.next[head] = IF Len(s) = 0 THEN head ELSE s[1]
  /\ \A k \in 1 .. Len(s) : h.next[s[k]] = IF k = Len(s) THEN head ELSE s[k + 1]

\* The list is not longer than the nodes that are allocated.
LEMMA OrderFits ==
  ASSUME NEW h, IsFiniteSet(h.live), NEW head, NEW s, Order(h, head, s)
  PROVE  Len(s) <= Cardinality(h.live) /\ Cardinality(h.live) \in Nat
<1> DEFINE K == Len(s)
           f == [k \in 1 .. K |-> s[k]]
<1>1. K \in Nat
  BY DEF Order
<1> HIDE DEF K
<1>2. f \in [1 .. K -> h.live] /\ \A i, j \in 1 .. K : f[i] = f[j] => i = j
  BY DEF Order, K
<1> HIDE DEF f
<1>3. f \in Injection(1 .. K, h.live)
  BY <1>2 DEF Injection, IsInjective
<1>4. Cardinality(1 .. K) <= Cardinality(h.live)
  BY <1>3, FS_Injection
<1>5. Cardinality(1 .. K) = IF 1 > K THEN 0 ELSE K - 1 + 1
  BY <1>1, FS_Interval
<1>6. QED BY <1>1, <1>4, <1>5, FS_CardinalityType DEF K

\* One step along next from the nodes seen.
Further(h, head, seen) ==
  LET follow == h.next[IF seen = <<>> THEN head ELSE seen[Len(seen)]]
  IN  IF follow = head THEN seen ELSE Append(seen, follow)

LEMMA NextIsSeen ==
  ASSUME NEW h, NEW head \in Heads, NEW s, Order(h, head, s), NEW k \in 0 .. Len(s)
  PROVE  Further(h, head, SubSeq(s, 1, k)) = SubSeq(s, 1, IF k < Len(s) THEN k + 1 ELSE k)
<1> DEFINE K == Len(s)
           p == SubSeq(s, 1, k)
           on == IF p = <<>> THEN head ELSE p[Len(p)]
<1>1. s \in Seq(Node) /\ K \in Nat /\ \A i \in 1 .. K : s[i] \in Node
  BY DEF Order
<1>2. p \in Seq(Node) /\ Len(p) = k /\ \A i \in 1 .. k : p[i] = s[i]
  <2>1. 1 \in Int /\ k \in Int /\ \A i \in 1 .. k : s[i] \in Node
    BY <1>1
  <2> HIDE DEF K
  <2>2. /\ p \in Seq(Node) /\ Len(p) = (IF 1 <= k THEN k - 1 + 1 ELSE 0)
        /\ \A i \in 1 .. k - 1 + 1 : p[i] = s[1 + i - 1]
    BY <2>1, SubSeqProperties
  <2>3. QED BY <2>1, <2>2
<1>3. on = IF k = 0 THEN head ELSE s[k]
  <2>1. k = 0 <=> p = <<>>
    BY <1>2, EmptySeq
  <2> HIDE DEF p
  <2>2. k # 0 => k \in 1 .. k
    OBVIOUS
  <2>3. QED BY <1>2, <2>1, <2>2
<1> HIDE DEF on
<1>4. h.next[on] = IF k < K THEN s[k + 1] ELSE head
  <2>1. CASE k = 0
    BY <1>1, <1>3, <2>1 DEF Order
  <2>2. CASE k # 0
    <3>1. k \in 1 .. K
      BY <1>1, <2>2
    <3>2. h.next[s[k]] = IF k = K THEN head ELSE s[k + 1]
      BY <3>1 DEF Order
    <3>3. QED BY <1>1, <1>3, <2>2, <3>2
  <2>3. QED BY <2>1, <2>2
<1>5. Further(h, head, p) = IF k < K THEN Append(p, s[k + 1]) ELSE p
  <2>1. Further(h, head, p) = IF h.next[on] = head THEN p ELSE Append(p, h.next[on])
    BY DEF Further, on
  <2>2. k < K => s[k + 1] # head
    <3>1. k < K => k + 1 \in 1 .. K
      BY <1>1
    <3>2. QED BY <3>1 DEF Order
  <2> HIDE DEF p, K
  <2>3. QED BY <1>4, <2>1, <2>2
<1>6. CASE k < K
  <2> DEFINE x == s[k + 1]
             q == SubSeq(s, 1, k + 1)
  <2>1. x \in Node
    <3>1. k + 1 \in 1 .. K
      BY <1>1, <1>6
    <3>2. QED BY <1>1, <3>1
  <2>2. q \in Seq(Node) /\ Len(q) = k + 1 /\ \A i \in 1 .. k + 1 : q[i] = s[i]
    <3>1. 1 \in Int /\ k + 1 \in Int /\ \A i \in 1 .. k + 1 : s[i] \in Node
      BY <1>1, <1>6
    <3> HIDE DEF K
    <3>2. /\ q \in Seq(Node) /\ Len(q) = (IF 1 <= k + 1 THEN (k + 1) - 1 + 1 ELSE 0)
          /\ \A i \in 1 .. (k + 1) - 1 + 1 : q[i] = s[1 + i - 1]
      BY <3>1, SubSeqProperties
    <3>3. QED BY <3>1, <3>2
  <2> HIDE DEF p, q, K
  <2>3. /\ Append(p, x) \in Seq(Node) /\ Len(Append(p, x)) = Len(p) + 1
        /\ \A i \in 1 .. Len(p) : Append(p, x)[i] = p[i]
        /\ Append(p, x)[Len(p) + 1] = x
    BY <1>2, <2>1, AppendProperties
  <2> DEFINE r == Append(p, x)
  <2>4. r \in Seq(Node) /\ Len(r) = k + 1 /\ \A i \in 1 .. k + 1 : r[i] = s[i]
    <3> HIDE DEF r, x
    <3>1. r \in Seq(Node) /\ Len(r) = k + 1 /\ (\A i \in 1 .. k : r[i] = s[i]) /\ r[k + 1] = s[k + 1]
      BY <1>2, <2>3 DEF r, x
    <3>2. \A i \in 1 .. k + 1 : i \in 1 .. k \/ i = k + 1
      OBVIOUS
    <3>3. QED BY <3>1, <3>2
  <2> HIDE DEF r, x
  <2>5. r = q
    BY <2>2, <2>4, SeqEqual
  <2>6. QED BY <1>5, <1>6, <2>5 DEF q, r, x, p, K
<1>7. CASE ~ (k < K)
  BY <1>5, <1>7
<1>8. QED BY <1>6, <1>7


\* What Listed computes is that order.
LEMMA ListedIs ==
  ASSUME NEW h, IsFiniteSet(h.live), NEW head \in Heads, head \in h.live,
         NEW s, Order(h, head, s)
  PROVE  Listed(h, head) = s
<1> DEFINE D == Cardinality(h.live)
           K == Len(s)
           upTo[k \in 0 .. D] == IF k = 0 THEN <<>> ELSE Further(h, head, upTo[k - 1])
           Upper(k) == IF k < K THEN k ELSE K
           p(k) == SubSeq(s, 1, Upper(k))
           g == [k \in 0 .. D |-> p(k)]
<1>1. s \in Seq(Node) /\ K \in Nat /\ D \in Nat /\ K <= D
  <2>1. s \in Seq(Node) /\ K \in Nat
    BY DEF Order
  <2>2. Len(s) <= Cardinality(h.live) /\ Cardinality(h.live) \in Nat
    BY OrderFits
  <2> HIDE DEF upTo, g, p, Upper
  <2>3. QED BY <2>1, <2>2
<1>2. Listed(h, head) = upTo[D]
  BY DEF Listed, Further
<1>3. p(0) = <<>>
  <2>1. Upper(0) = 0
    BY <1>1
  <2>2. SubSeq(s, 1, 0) = <<>>
    BY SubSeqEmpty
  <2>3. QED BY <2>1, <2>2
<1>4. ASSUME NEW k \in Nat \ {0} PROVE p(k) = Further(h, head, p(k - 1))
  <2> DEFINE u == Upper(k - 1)
  <2>1. u \in 0 .. K /\ Upper(k) = IF u < K THEN u + 1 ELSE u
    BY <1>1
  <2> HIDE DEF u
  <2>2. Further(h, head, SubSeq(s, 1, u)) = SubSeq(s, 1, IF u < K THEN u + 1 ELSE u)
    BY <2>1, NextIsSeen
  <2>3. QED BY <2>1, <2>2 DEF u
<1>5. p(D) = s
  <2>1. Upper(D) = K
    BY <1>1
  <2> HIDE DEF K
  <2>2. \A i \in 1 .. K : s[i] \in Node
    BY <1>1 DEF K
  <2> DEFINE q == SubSeq(s, 1, K)
  <2>3. 1 \in Int /\ K \in Int
    BY <1>1
  <2>4. /\ q \in Seq(Node) /\ Len(q) = (IF 1 <= K THEN K - 1 + 1 ELSE 0)
        /\ \A i \in 1 .. K - 1 + 1 : q[i] = s[1 + i - 1]
    BY <2>2, <2>3, SubSeqProperties
  <2> HIDE DEF q
  <2>5. Len(q) = Len(s) /\ \A i \in 1 .. Len(q) : q[i] = s[i]
    BY <1>1, <2>4 DEF K
  <2>6. q = s
    BY <1>1, <2>4, <2>5, SeqEqual
  <2>7. QED BY <2>1, <2>6 DEF q
<1> HIDE DEF p, Upper, D
<1>6. g = [k \in 0 .. D |-> IF k = 0 THEN <<>> ELSE Further(h, head, g[k - 1])]
  <2>1. ASSUME NEW k \in 0 .. D PROVE g[k] = IF k = 0 THEN <<>> ELSE Further(h, head, g[k - 1])
    <3>1. CASE k = 0
      BY <1>3, <3>1
    <3>2. CASE k # 0
      <4>1. k \in Nat \ {0} /\ k - 1 \in 0 .. D
        BY <1>1, <3>2
      <4>2. QED BY <1>4, <3>2, <4>1
    <3>3. QED BY <3>1, <3>2
  <2>2. QED BY <2>1
<1>7. upTo = [k \in 0 .. D |-> IF k = 0 THEN <<>> ELSE Further(h, head, upTo[k - 1])]
  <2> HIDE DEF g
  <2>1. QED BY <1>6
<1> HIDE DEF upTo, g
<1> DEFINE T == {k \in 0 .. D : upTo[k] = p(k)}
<1>8. 0 \in T
  BY <1>1, <1>3, <1>7
<1>9. ASSUME NEW k \in 0 .. D - 1, k \in T PROVE k + 1 \in T
  <2>1. k + 1 \in 0 .. D /\ k + 1 # 0 /\ (k + 1) - 1 = k /\ k + 1 \in Nat \ {0}
    BY <1>1
  <2>2. upTo[k + 1] = Further(h, head, upTo[k])
    BY <1>7, <2>1
  <2>3. p(k + 1) = Further(h, head, p(k))
    BY <1>4, <2>1
  <2>4. QED BY <1>9, <2>1, <2>2, <2>3
<1> HIDE DEF T
<1>10. D \in T
  <2>1. \A k \in 0 .. D : k \in T
    BY <1>1, <1>8, <1>9, InductUpTo
  <2>2. QED BY <1>1, <2>1
<1>11. QED BY <1>2, <1>5, <1>10 DEF T


\* What AddTail makes of h: n follows the last node of the list or the head of a
\* new one.
From(h, head) == IF head \in h.live THEN h.prev[head] ELSE head
Added(h, head, n, g) ==
  /\ h.next \in [Node -> Node] /\ h.live \subseteq Node /\ head \in Node /\ n \in Node /\ n \notin Heads
  /\ g.live = h.live \cup {head, n}
  /\ g.next = [h.next EXCEPT ![n] = head, ![From(h, head)] = n]
  /\ head \in h.live => From(h, head) \in h.live /\ h.next[From(h, head)] = head

LEMMA AddTailAdds ==
  ASSUME NEW h \in Heap(Node), Linked(h), NEW head \in Heads, NEW n, n \in Node, n \notin Heads, n \notin h.live
  PROVE  Added(h, head, n, AddTail(h, head, n))
<1> DEFINE g == AddTail(h, head, n)
<1>1. h.next \in [Node -> Node] /\ h.prev \in [Node -> Node] /\ h.live \subseteq Node /\ head \in Node /\ n # head
  BY DEF Heap, Heads, Node
<1>2. CASE head \in h.live
  <2>1. h.prev[head] \in h.live /\ h.next[h.prev[head]] = head /\ h.prev[head] # n
    BY <1>2 DEF Linked, Ring
  <2>2. g = AddAt(NewNode(h, n), h.prev[head], n)
    BY <1>2 DEF AddTail
  <2>3. g.live = h.live \cup {n} /\ g.next = [h.next EXCEPT ![n] = head, ![h.prev[head]] = n]
    BY <1>1, <2>1, <2>2 DEF AddAt, NewNode
  <2>4. QED BY <1>1, <1>2, <2>1, <2>3 DEF Added, From
<1>3. CASE head \notin h.live
  <2>1. g = AddAt(NewNode(NewNode(h, head), n), head, n)
    BY <1>3 DEF AddTail
  <2>2. g.live = h.live \cup {head, n} /\ g.next = [h.next EXCEPT ![n] = head, ![head] = n]
    BY <1>1, <2>1 DEF AddAt, NewNode
  <2>3. QED BY <1>1, <1>3, <2>2 DEF Added, From
<1>4. QED BY <1>2, <1>3

\* The last node of the list, from which next leads back to the head.
LEMMA LastOfOrder ==
  ASSUME NEW h, Ring(h), NEW head \in h.live, NEW s, Order(h, head, s)
  PROVE  h.prev[head] = IF Len(s) = 0 THEN head ELSE s[Len(s)]
<1>1. Len(s) \in Nat
  BY DEF Order
<1>2. CASE Len(s) = 0
  BY <1>2 DEF Ring, Order
<1>3. CASE Len(s) # 0
  <2>1. Len(s) \in 1 .. Len(s)
    BY <1>1, <1>3
  <2>2. s[Len(s)] \in h.live /\ h.next[s[Len(s)]] = head
    BY <2>1 DEF Order
  <2>3. QED BY <1>3, <2>2 DEF Ring
<1>4. QED BY <1>2, <1>3

\* The node that is added is the last one of its list.
LEMMA OrderGrows ==
  ASSUME NEW h, Ring(h), NEW head \in Heads, head \in h.live, NEW n, n \notin h.live,
         NEW s, Order(h, head, s), NEW g, Added(h, head, n, g)
  PROVE  Order(g, head, Append(s, n))
<1> DEFINE K == Len(s)
           last == h.prev[head]
           r == Append(s, n)
<1>1. s \in Seq(Node) /\ K \in Nat /\ n \in Node /\ n \notin Heads
  BY DEF Order, Added
<1>2. r \in Seq(Node) /\ Len(r) = K + 1 /\ (\A i \in 1 .. K : r[i] = s[i]) /\ r[K + 1] = n
  BY <1>1, AppendProperties
<1>3. /\ g.live = h.live \cup {head, n} /\ g.next = [h.next EXCEPT ![n] = head, ![last] = n]
      /\ h.next \in [Node -> Node] /\ h.live \subseteq Node /\ last \in h.live
  BY DEF Added, From
<1>4. last = IF K = 0 THEN head ELSE s[K]
  BY LastOfOrder
<1>5. /\ \A k \in 1 .. K : s[k] \in h.live \ Heads
      /\ \A i, j \in 1 .. K : s[i] = s[j] => i = j
      /\ h.next[head] = IF K = 0 THEN head ELSE s[1]
      /\ \A k \in 1 .. K : h.next[s[k]] = IF k = K THEN head ELSE s[k + 1]
  BY DEF Order
<1>6. \A m \in h.live : g.next[m] = IF m = last THEN n ELSE h.next[m]
  BY <1>3
<1>7. g.next[n] = head
  BY <1>1, <1>3
<1> HIDE DEF K, last, r
<1>8. \A i \in 1 .. K + 1 : i \in 1 .. K \/ i = K + 1
  BY <1>1
<1>9. \A i \in 1 .. K + 1 : r[i] \in g.live \ Heads
  BY <1>1, <1>2, <1>3, <1>5, <1>8
<1>10. ASSUME NEW i \in 1 .. K + 1, NEW j \in 1 .. K + 1, r[i] = r[j] PROVE i = j
  <2>1. \A k \in 1 .. K : r[k] \in h.live
    BY <1>2, <1>5
  <2>2. n \notin h.live
    OBVIOUS
  <2>3. QED BY <1>2, <1>5, <1>8, <1>10, <2>1, <2>2
<1>11. g.next[head] = r[1]
  <2>1. CASE K = 0
    BY <1>2, <1>4, <1>6, <2>1
  <2>2. CASE K # 0
    <3>1. 1 \in 1 .. K /\ K \in 1 .. K
      BY <1>1, <2>2
    <3>2. last # head
      BY <1>4, <1>5, <2>2, <3>1
    <3>3. QED BY <1>2, <1>5, <1>6, <2>2, <3>1, <3>2
  <2>3. QED BY <2>1, <2>2
<1>12. ASSUME NEW k \in 1 .. K + 1 PROVE g.next[r[k]] = IF k = K + 1 THEN head ELSE r[k + 1]
  <2>1. CASE k = K + 1
    BY <1>2, <1>7, <2>1
  <2>2. CASE k = K
    <3>1. k \in 1 .. K /\ k # K + 1 /\ K # 0
      BY <1>1, <2>2
    <3>2. r[k] = last /\ r[k + 1] = n
      BY <1>2, <1>4, <2>2, <3>1
    <3>3. QED BY <1>3, <1>6, <3>1, <3>2
  <2>3. CASE k # K + 1 /\ k # K
    <3>1. k \in 1 .. K /\ k + 1 \in 1 .. K /\ K \in 1 .. K /\ K # 0
      BY <1>1, <2>3
    <3>2. s[k] # last
      BY <1>4, <1>5, <2>3, <3>1
    <3>3. QED BY <1>2, <1>5, <1>6, <2>3, <3>1, <3>2
  <2>4. QED BY <2>1, <2>2, <2>3
<1>13. K + 1 # 0
  BY <1>1
<1>14. QED BY <1>2, <1>9, <1>10, <1>11, <1>12, <1>13 DEF Order, r

\* In a new list it is the only one.
LEMMA OrderBegins ==
  ASSUME NEW h, NEW head \in Heads, head \notin h.live, NEW n, NEW g, Added(h, head, n, g)
  PROVE  Order(g, head, <<n>>)
<1>1. /\ g.live = h.live \cup {head, n} /\ g.next = [h.next EXCEPT ![n] = head, ![head] = n]
      /\ h.next \in [Node -> Node] /\ head \in Node /\ n \in Node /\ n \notin Heads
  BY DEF Added, From
<1>2. g.next[n] = head /\ g.next[head] = n
  BY <1>1
<1> DEFINE s == <<n>>
<1>3. s \in Seq(Node) /\ Len(s) = 1 /\ s[1] = n
  BY <1>1
<1> HIDE DEF s
<1>4. \A k \in 1 .. 1 : k = 1
  OBVIOUS
<1>5. n \in g.live \ Heads
  BY <1>1
<1>6. QED BY <1>2, <1>3, <1>4, <1>5 DEF Order, s

\* What the other list loses or gains is of no matter.
LEMMA OrderOfOther ==
  ASSUME NEW h, NEW g, NEW head, NEW s, Order(h, head, s),
         \A k \in 1 .. Len(s) : s[k] \in g.live /\ g.next[s[k]] = h.next[s[k]],
         g.next[head] = h.next[head]
  PROVE  Order(g, head, s)
BY DEF Order

LEMMA OrderBesideAdded ==
  ASSUME NEW h, NEW head \in Heads, NEW other \in Heads, other # head, other \in h.live,
         NEW n, n \notin h.live, NEW s, Order(h, other, s), NEW g, Added(h, head, n, g)
  PROVE  Order(g, other, s)
<1> DEFINE from == From(h, head)
<1>1. /\ g.live = h.live \cup {head, n} /\ g.next = [h.next EXCEPT ![n] = head, ![from] = n]
      /\ h.next \in [Node -> Node] /\ h.live \subseteq Node
      /\ from = head \/ h.next[from] = head
  BY DEF Added, From
<1> HIDE DEF from
<1>2. \A m \in h.live : m # from => g.next[m] = h.next[m]
  BY <1>1
<1>3. Len(s) \in Nat
  BY DEF Order
<1>4. ASSUME NEW k \in 1 .. Len(s) PROVE s[k] \in h.live /\ s[k] # from
  <2>1. h.next[s[k]] = other \/ h.next[s[k]] \notin Heads
    <3>1. k # Len(s) => k + 1 \in 1 .. Len(s)
      BY <1>3
    <3>2. QED BY <3>1 DEF Order
  <2>2. s[k] \in h.live \ Heads
    BY DEF Order
  <2>3. QED BY <1>1, <2>1, <2>2
<1>5. other # from
  <2>1. h.next[other] = other \/ h.next[other] \notin Heads
    <3>1. Len(s) # 0 => 1 \in 1 .. Len(s)
      BY <1>3
    <3>2. QED BY <3>1 DEF Order
  <2>2. QED BY <1>1, <2>1
<1>6. QED BY <1>1, <1>2, <1>4, <1>5, OrderOfOther


\* s without its k-th element.
Without(s, k) == SubSeq(s, 1, k - 1) \o SubSeq(s, k + 1, Len(s))
IsWithout(s, k, r) ==
  /\ r \in Seq(Node) /\ Len(r) = Len(s) - 1
  /\ \A i \in 1 .. Len(s) - 1 : r[i] = IF i < k THEN s[i] ELSE s[i + 1]

LEMMA WithoutIs ==
  ASSUME NEW s \in Seq(Node), NEW k \in 1 .. Len(s)
  PROVE  IsWithout(s, k, Without(s, k))
<1> DEFINE K == Len(s)
           a == SubSeq(s, 1, k - 1)
           b == SubSeq(s, k + 1, K)
<1>1. K \in Nat /\ k \in 1 .. K /\ \A i \in 1 .. K : s[i] \in Node
  OBVIOUS
<1> HIDE DEF K
<1>2. a \in Seq(Node) /\ Len(a) = k - 1 /\ \A i \in 1 .. k - 1 : a[i] = s[i]
  <2>1. 1 \in Int /\ k - 1 \in Int /\ \A i \in 1 .. k - 1 : s[i] \in Node
    BY <1>1
  <2>2. /\ a \in Seq(Node) /\ Len(a) = (IF 1 <= k - 1 THEN (k - 1) - 1 + 1 ELSE 0)
        /\ \A i \in 1 .. (k - 1) - 1 + 1 : a[i] = s[1 + i - 1]
    BY <2>1, SubSeqProperties
  <2> HIDE DEF a
  <2>3. QED BY <1>1, <2>1, <2>2
<1>3. b \in Seq(Node) /\ Len(b) = K - k /\ \A i \in 1 .. K - k : b[i] = s[k + i]
  <2>1. k + 1 \in Int /\ K \in Int /\ \A i \in k + 1 .. K : s[i] \in Node
    BY <1>1
  <2>2. /\ b \in Seq(Node) /\ Len(b) = (IF k + 1 <= K THEN K - (k + 1) + 1 ELSE 0)
        /\ \A i \in 1 .. K - (k + 1) + 1 : b[i] = s[(k + 1) + i - 1]
    BY <2>1, SubSeqProperties
  <2> HIDE DEF b
  <2>3. QED BY <1>1, <2>1, <2>2
<1> DEFINE r == a \o b
<1> HIDE DEF a, b
<1>4. /\ r \in Seq(Node) /\ Len(r) = Len(a) + Len(b)
      /\ \A i \in 1 .. Len(a) + Len(b) : r[i] = IF i <= Len(a) THEN a[i] ELSE b[i - Len(a)]
  BY <1>2, <1>3, ConcatProperties
<1> HIDE DEF r
<1>5. Len(a) + Len(b) = K - 1
  BY <1>1, <1>2, <1>3
<1>6. ASSUME NEW i \in 1 .. K - 1 PROVE r[i] = IF i < k THEN s[i] ELSE s[i + 1]
  <2>1. CASE i < k
    <3>1. i \in 1 .. k - 1 /\ i <= Len(a)
      BY <1>1, <1>2, <2>1
    <3>2. QED BY <1>2, <1>4, <1>5, <2>1, <3>1
  <2>2. CASE ~ (i < k)
    <3>1. ~ (i <= Len(a)) /\ i - Len(a) \in 1 .. K - k /\ k + (i - Len(a)) = i + 1
      BY <1>1, <1>2, <2>2
    <3>2. QED BY <1>3, <1>4, <1>5, <2>2, <3>1
  <2>3. QED BY <2>1, <2>2
<1>7. QED BY <1>4, <1>5, <1>6 DEF IsWithout, Without, K, r, a, b

\* What Remove makes of h.
Removed(h, n, g) ==
  /\ n \in h.live /\ h.next \in [Node -> Node] /\ h.live \subseteq Node
  /\ g.live = h.live \ {n}
  /\ h.prev[n] \in h.live \ {n} /\ h.next[h.prev[n]] = n
  /\ g.next = [h.next EXCEPT ![h.prev[n]] = h.next[n], ![n] = n]

LEMMA RemoveRemoves ==
  ASSUME NEW h \in Heap(Node), Linked(h), NEW n, n \in h.live, n \notin Heads
  PROVE  Removed(h, n, Remove(h, n))
<1>1. h.next \in [Node -> Node] /\ h.prev \in [Node -> Node] /\ h.live \subseteq Node
  BY DEF Heap
<1>2. h.prev[n] # n
  <2>1. n \in h.live \ Heads
    OBVIOUS
  <2>2. QED BY <2>1, NextIsOther
<1>3. h.prev[n] \in h.live /\ h.next[h.prev[n]] = n
  BY DEF Linked, Ring
<1>4. QED BY <1>1, <1>2, <1>3 DEF Removed, Remove

\* The node that is removed leaves the order of the others.
LEMMA OrderShrinks ==
  ASSUME NEW h, Ring(h), NEW head \in Heads, head \in h.live, NEW s, Order(h, head, s),
         NEW k \in 1 .. Len(s), NEW g, Removed(h, s[k], g)
  PROVE  Order(g, head, Without(s, k))
<1> DEFINE K == Len(s)
           r == Without(s, k)
           n == s[k]
           before == h.prev[n]
<1>1. /\ s \in Seq(Node) /\ K \in Nat /\ k \in 1 .. K
      /\ \A i \in 1 .. K : s[i] \in h.live \ Heads
      /\ \A i, j \in 1 .. K : s[i] = s[j] => i = j
      /\ h.next[head] = IF K = 0 THEN head ELSE s[1]
      /\ \A i \in 1 .. K : h.next[s[i]] = IF i = K THEN head ELSE s[i + 1]
  BY DEF Order
<1>2. /\ r \in Seq(Node) /\ Len(r) = K - 1
      /\ \A i \in 1 .. K - 1 : r[i] = IF i < k THEN s[i] ELSE s[i + 1]
  BY <1>1, WithoutIs DEF IsWithout
<1>3. /\ g.live = h.live \ {n}
      /\ g.next[before] = h.next[n]
      /\ \A m \in h.live : m \notin {n, before} => g.next[m] = h.next[m]
  BY DEF Removed
<1>4. before = IF k = 1 THEN head ELSE s[k - 1]
  <2>1. CASE k = 1
    <3>1. h.next[head] = n
      BY <1>1, <2>1
    <3>2. QED BY <2>1, <3>1 DEF Ring
  <2>2. CASE k # 1
    <3>1. k - 1 \in 1 .. K /\ k - 1 # K /\ (k - 1) + 1 = k
      BY <1>1, <2>2
    <3>2. h.next[s[k - 1]] = n /\ s[k - 1] \in h.live
      BY <1>1, <3>1
    <3>3. QED BY <2>2, <3>2 DEF Ring
  <2>3. QED BY <2>1, <2>2
<1> HIDE DEF K, r, before
<1>5. \A i \in 1 .. K - 1 : i \in 1 .. K /\ i + 1 \in 1 .. K
  BY <1>1
<1>6. ASSUME NEW i \in 1 .. K - 1 PROVE r[i] \in g.live \ Heads
  <2>1. CASE i < k
    <3>1. s[i] \in h.live \ Heads /\ s[i] # s[k]
      BY <1>1, <1>5, <2>1
    <3>2. QED BY <1>2, <1>3, <2>1, <3>1
  <2>2. CASE ~ (i < k)
    <3>1. i + 1 \in 1 .. K /\ i + 1 # k
      BY <1>1, <1>5, <2>2
    <3>2. s[i + 1] \in h.live \ Heads /\ s[i + 1] # s[k]
      BY <1>1, <3>1
    <3>3. QED BY <1>2, <1>3, <2>2, <3>2
  <2>3. QED BY <2>1, <2>2
<1> DEFINE at(i) == IF i < k THEN i ELSE i + 1
<1>7. ASSUME NEW i \in 1 .. K - 1 PROVE r[i] = s[at(i)] /\ at(i) \in 1 .. K /\ at(i) # k
  <2>1. at(i) \in 1 .. K /\ at(i) # k
    BY <1>1
  <2>2. r[i] = IF i < k THEN s[i] ELSE s[i + 1]
    BY <1>2
  <2>3. QED BY <2>1, <2>2
<1>8. ASSUME NEW i \in 1 .. K - 1, NEW j \in 1 .. K - 1, r[i] = r[j] PROVE i = j
  <2>1. at(i) = at(j)
    <3> HIDE DEF at
    <3>1. r[i] = s[at(i)] /\ at(i) \in 1 .. K /\ r[j] = s[at(j)] /\ at(j) \in 1 .. K
      BY <1>7
    <3>2. s[at(i)] = s[at(j)]
      BY <1>8, <3>1
    <3>3. QED BY <1>1, <3>1, <3>2
  <2>2. QED BY <1>1, <2>1
<1>9. ASSUME NEW i \in 1 .. K - 1 PROVE g.next[r[i]] = IF i = K - 1 THEN head ELSE r[i + 1]
  <2>1. CASE i + 1 = k
    <3>1. i < k /\ k # 1 /\ i = k - 1 /\ r[i] = before
      BY <1>1, <1>2, <1>4, <2>1
    <3>2. g.next[r[i]] = IF k = K THEN head ELSE s[k + 1]
      BY <1>1, <1>3, <3>1
    <3>3. i # K - 1 => i + 1 \in 1 .. K - 1 /\ ~ (i + 1 < k) /\ r[i + 1] = s[k + 1]
      <4>1. i # K - 1 => i + 1 \in 1 .. K - 1 /\ ~ (i + 1 < k) /\ (i + 1) + 1 = k + 1
        BY <1>1, <2>1
      <4>2. QED BY <1>2, <4>1
    <3>4. i = K - 1 <=> k = K
      BY <1>1, <2>1
    <3>5. QED BY <3>2, <3>3, <3>4
  <2>2. CASE i + 1 # k
    <3> DEFINE x == at(i)
    <3>1. r[i] = s[x] /\ x \in 1 .. K /\ x # k
      BY <1>7
    <3>2. k # 1 => x # k - 1 /\ k - 1 \in 1 .. K
      BY <1>1, <2>2
    <3>3. i = K - 1 <=> x = K
      BY <1>1, <2>2
    <3>4. i # K - 1 => i + 1 \in 1 .. K - 1 /\ at(i + 1) = x + 1
      BY <1>1, <2>2
    <3> HIDE DEF at, x
    <3>5. s[x] \in h.live /\ s[x] \notin {n, before}
      BY <1>1, <1>4, <3>1, <3>2
    <3>6. g.next[s[x]] = IF x = K THEN head ELSE s[x + 1]
      BY <1>1, <1>3, <3>1, <3>5
    <3>7. i # K - 1 => r[i + 1] = s[x + 1]
      BY <1>7, <3>4
    <3>8. QED BY <3>1, <3>3, <3>6, <3>7
  <2>3. QED BY <2>1, <2>2
<1>10. g.next[head] = IF K - 1 = 0 THEN head ELSE r[1]
  <2>1. CASE k = 1
    <3>1. g.next[head] = IF k = K THEN head ELSE s[k + 1]
      BY <1>1, <1>3, <1>4, <2>1
    <3>2. K - 1 # 0 => 1 \in 1 .. K - 1 /\ ~ (1 < k) /\ r[1] = s[k + 1]
      <4>1. K - 1 # 0 => 1 \in 1 .. K - 1 /\ ~ (1 < k) /\ 1 + 1 = k + 1
        BY <1>1, <2>1
      <4>2. QED BY <1>2, <4>1
    <3>3. QED BY <1>1, <2>1, <3>1, <3>2
  <2>2. CASE k # 1
    <3>1. k - 1 \in 1 .. K /\ K # 0 /\ K - 1 # 0 /\ 1 \in 1 .. K - 1 /\ 1 < k
      BY <1>1, <2>2
    <3>2. head \notin {n, before}
      BY <1>1, <1>4, <2>2, <3>1
    <3>3. QED BY <1>1, <1>2, <1>3, <3>1, <3>2
  <2>3. QED BY <2>1, <2>2
<1>11. QED BY <1>2, <1>6, <1>8, <1>9, <1>10 DEF Order, r

\* A node of the other list may go.
LEMMA OrderBesideRemoved ==
  ASSUME NEW h, NEW head \in Heads, NEW s, Order(h, head, s), NEW n, n \notin Heads,
         \A k \in 1 .. Len(s) : s[k] # n, NEW g, Removed(h, n, g), head \in h.live
  PROVE  Order(g, head, s)
<1> DEFINE before == h.prev[n]
<1>1. /\ g.live = h.live \ {n}
      /\ h.next[before] = n
      /\ \A m \in h.live : m \notin {n, before} => g.next[m] = h.next[m]
  BY DEF Removed
<1> HIDE DEF before
<1>2. Len(s) \in Nat
  BY DEF Order
<1>3. ASSUME NEW k \in 1 .. Len(s) PROVE s[k] \in h.live \ {n} /\ s[k] # before
  <2>1. h.next[s[k]] # n
    <3>1. k # Len(s) => k + 1 \in 1 .. Len(s)
      BY <1>2
    <3>2. QED BY <3>1 DEF Order
  <2>2. s[k] \in h.live \ Heads
    BY DEF Order
  <2>3. QED BY <1>1, <2>1, <2>2
<1>4. head # before /\ head # n
  <2>1. h.next[head] # n
    <3>1. Len(s) # 0 => 1 \in 1 .. Len(s)
      BY <1>2
    <3>2. QED BY <3>1 DEF Order
  <2>2. QED BY <1>1, <2>1
<1>5. QED BY <1>1, <1>3, <1>4, OrderOfOther


Ordered(h) ==
  /\ IsFiniteSet(h.live)
  /\ \A head \in Heads : head \in h.live => \E s : Order(h, head, s)

\* What becomes of both lists when h becomes g.
QueueSteps(h, g) == \A head \in Heads : QueueStep(Listed(h, head), Listed(g, head))

LEMMA NothingListed ==
  ASSUME NEW h, NEW head, head \notin h.live
  PROVE  Listed(h, head) = <<>>
BY DEF Listed

\* A node that is added goes to the end of its list.
LEMMA AddIsQueueStep ==
  ASSUME NEW h \in Heap(Node), Linked(h), Ordered(h), NEW to \in Heads,
         NEW n, n \in Node, n \notin Heads, n \notin h.live, NEW g, g = AddTail(h, to, n)
  PROVE  Ordered(g) /\ QueueSteps(h, g)
<1>1. Added(h, to, n, g) /\ Ring(h) /\ IsFiniteSet(h.live)
  BY AddTailAdds DEF Linked, Ordered
<1>2. IsFiniteSet(g.live)
  <2>1. g.live = (h.live \cup {to}) \cup {n}
    BY <1>1 DEF Added
  <2> DEFINE A == h.live
             B == A \cup {to}
  <2>2. IsFiniteSet(A)
    BY <1>1
  <2> HIDE DEF A
  <2>3. IsFiniteSet(B)
    BY <2>2, FS_AddElement
  <2> HIDE DEF B
  <2>4. IsFiniteSet(B \cup {n})
    BY <2>3, FS_AddElement
  <2>5. QED BY <2>1, <2>4 DEF A, B
<1>3. to \in g.live /\ h.live \subseteq g.live /\ \A head \in Heads : head \in g.live => head = to \/ head \in h.live
  BY <1>1 DEF Added
<1>4. ASSUME NEW head \in Heads, head \in h.live
      PROVE  \E s : Order(h, head, s) /\ Listed(h, head) = s
  <2>1. PICK s : Order(h, head, s)
    BY <1>4 DEF Ordered
  <2>2. Listed(h, head) = s
    BY <1>1, <1>4, <2>1, ListedIs
  <2>3. QED BY <2>1, <2>2
<1>5. ASSUME NEW head \in Heads, head \in g.live, NEW s, Order(g, head, s)
      PROVE  Listed(g, head) = s
  BY <1>2, <1>5, ListedIs
<1>6. ASSUME NEW head \in Heads, head \in g.live
      PROVE  (\E s : Order(g, head, s)) /\ QueueStep(Listed(h, head), Listed(g, head))
  <2>1. CASE head = to /\ head \in h.live
    <3>1. PICK s : Order(h, head, s) /\ Listed(h, head) = s
      BY <1>4, <2>1
    <3>2. Order(g, head, Append(s, n))
      BY <1>1, <2>1, <3>1, OrderGrows
    <3>3. Listed(g, head) = Append(s, n)
      BY <1>5, <1>6, <3>2
    <3>4. QED BY <3>1, <3>2, <3>3 DEF QueueStep
  <2>2. CASE head = to /\ head \notin h.live
    <3>1. Order(g, head, <<n>>)
      BY <1>1, <2>2, OrderBegins
    <3>2. Listed(g, head) = <<n>> /\ Listed(h, head) = <<>>
      BY <1>5, <1>6, <2>2, <3>1, NothingListed
    <3>3. <<n>> = Append(<<>>, n)
      OBVIOUS
    <3>4. QED BY <3>1, <3>2, <3>3 DEF QueueStep
  <2>3. CASE head # to
    <3>1. head \in h.live
      BY <1>3, <1>6, <2>3
    <3>2. PICK s : Order(h, head, s) /\ Listed(h, head) = s
      BY <1>4, <3>1
    <3>3. Order(g, head, s)
      BY <1>1, <2>3, <3>1, <3>2, OrderBesideAdded
    <3>4. Listed(g, head) = s
      BY <1>5, <1>6, <3>3
    <3>5. QED BY <3>2, <3>3, <3>4 DEF QueueStep
  <2>4. QED BY <2>1, <2>2, <2>3
<1>7. ASSUME NEW head \in Heads, head \notin g.live PROVE QueueStep(Listed(h, head), Listed(g, head))
  <2>1. head \notin h.live
    BY <1>3, <1>7
  <2>2. Listed(h, head) = <<>> /\ Listed(g, head) = <<>>
    BY <1>7, <2>1, NothingListed
  <2>3. QED BY <2>2 DEF QueueStep
<1>8. Ordered(g)
  BY <1>2, <1>6 DEF Ordered
<1>9. QueueSteps(h, g)
  BY <1>6, <1>7 DEF QueueSteps
<1>10. QED BY <1>8, <1>9

\* One that is removed leaves the order of the others.
LEMMA RemoveIsQueueStep ==
  ASSUME NEW h \in Heap(Node), Linked(h), Ordered(h), NEW n, n \in h.live, n \notin Heads,
         NEW g, g = Remove(h, n)
  PROVE  Ordered(g) /\ QueueSteps(h, g)
<1>1. Removed(h, n, g) /\ Ring(h) /\ IsFiniteSet(h.live)
  BY RemoveRemoves DEF Linked, Ordered
<1>2. g.live = h.live \ {n} /\ IsFiniteSet(g.live)
  <2>1. g.live = h.live \ {n}
    BY <1>1 DEF Removed
  <2> DEFINE A == h.live
  <2>2. IsFiniteSet(A)
    BY <1>1
  <2> HIDE DEF A
  <2>3. IsFiniteSet(A \ {n})
    BY <2>2, FS_RemoveElement
  <2>4. QED BY <2>1, <2>3 DEF A
<1>3. ASSUME NEW head \in Heads, head \in h.live
      PROVE  (\E s : Order(g, head, s)) /\ QueueStep(Listed(h, head), Listed(g, head))
  <2>1. PICK s : Order(h, head, s)
    BY <1>3 DEF Ordered
  <2>2. Listed(h, head) = s
    BY <1>1, <1>3, <2>1, ListedIs
  <2>3. head \in g.live
    BY <1>2, <1>3
  <2>4. ASSUME NEW r, Order(g, head, r) PROVE Listed(g, head) = r
    BY <1>2, <2>3, <2>4, ListedIs
  <2>5. CASE \E k \in 1 .. Len(s) : s[k] = n
    <3>1. PICK k \in 1 .. Len(s) : s[k] = n
      BY <2>5
    <3>2. Order(g, head, Without(s, k))
      BY <1>1, <1>3, <2>1, <3>1, OrderShrinks
    <3>3. Listed(g, head) = Without(s, k)
      BY <2>4, <3>2
    <3>4. k \in DOMAIN s
      BY <2>1, <3>1 DEF Order
    <3>5. QueueStep(s, Without(s, k))
      BY <3>4 DEF QueueStep, Without
    <3>6. QED BY <2>2, <3>2, <3>3, <3>5
  <2>6. CASE \A k \in 1 .. Len(s) : s[k] # n
    <3>1. Order(g, head, s)
      BY <1>1, <1>3, <2>1, <2>6, OrderBesideRemoved
    <3>2. QED BY <2>2, <2>4, <3>1 DEF QueueStep
  <2>7. QED BY <2>5, <2>6
<1>4. ASSUME NEW head \in Heads, head \notin h.live PROVE QueueStep(Listed(h, head), Listed(g, head))
  <2>1. head \notin g.live
    BY <1>2, <1>4
  <2>2. Listed(h, head) = <<>> /\ Listed(g, head) = <<>>
    BY <1>4, <2>1, NothingListed
  <2>3. QED BY <2>2 DEF QueueStep
<1>5. Ordered(g)
  BY <1>2, <1>3 DEF Ordered
<1>6. QueueSteps(h, g)
  BY <1>3, <1>4 DEF QueueSteps
<1>7. QED BY <1>5, <1>6

\* Until they are destroyed both lists have an order.
QueueInv == pc # "destroyed" => Ordered(heap)

\* What a step may do to the lists.
LEMMA HeapSteps ==
  ASSUME ListInv, [Next]_vars, pc' # "destroyed"
  PROVE  /\ pc # "destroyed"
         /\ \/ UNCHANGED heap
            \/ \E to \in Heads, n \in Node :
                 n \notin Heads /\ n \notin heap.live /\ heap' = AddTail(heap, to, n)
            \/ \E n : n \in heap.live /\ n \notin Heads /\ heap' = Remove(heap, n)
<1> USE EventLoopAssumption DEF Heads, objects
<1>1. CASE SelectReady \/ SelectError \/ SelectTimeout \/ TestTimers \/ Quit \/ Destroy
  BY <1>1 DEF SelectReady, SelectError, SelectTimeout, TestTimers, Quit, Destroy
<1>2. CASE SkipTimer \/ CallTimer \/ EndTimers \/ SkipChannel \/ CallChannel \/ EndChannels
  BY <1>2 DEF SkipTimer, CallTimer, EndTimers, SkipChannel, CallChannel, EndChannels
<1>3. ASSUME NEW ret \in Returns, ReturnTimer(ret) \/ ReturnChannel(ret)
      PROVE  /\ pc # "destroyed"
             /\ UNCHANGED heap \/ \E n : n \in heap.live /\ n \notin Heads /\ heap' = Remove(heap, n)
  <2>1. node \in heap.live /\ node \notin Heads /\ pc # "destroyed"
    BY <1>3 DEF ReturnTimer, ReturnChannel, ListInv, NodeAlive
  <2>2. heap' = heap \/ heap' = Remove(heap, node)
    BY <1>3 DEF ReturnTimer, ReturnChannel, Return
  <2>3. QED BY <2>1, <2>2
<1>4. ASSUME NEW c \in Chans, NEW f \in Fds, ChannelAdd(c, f)
      PROVE  /\ pc # "destroyed"
             /\ \E to \in Heads, n \in Node :
                  n \notin Heads /\ n \notin heap.live /\ heap' = AddTail(heap, to, n)
  BY <1>4 DEF ChannelAdd, InCallback, Node
<1>5. ASSUME NEW t \in Timers, NEW d \in Durations, TimerNew(t, d)
      PROVE  /\ pc # "destroyed"
             /\ \E to \in Heads, n \in Node :
                  n \notin Heads /\ n \notin heap.live /\ heap' = AddTail(heap, to, n)
  BY <1>5 DEF TimerNew, InCallback, Node
<1>6. ASSUME NEW t \in Timers, NEW d \in Durations, TimerUpdate(t, d)
      PROVE  pc # "destroyed" /\ UNCHANGED heap
  BY <1>6 DEF TimerUpdate, InCallback
<1>7. ASSUME NEW c \in Chans, ChannelRemove(c)
      PROVE  /\ pc # "destroyed"
             /\ \E n : n \in heap.live /\ n \notin Heads /\ heap' = Remove(heap, n)
  BY <1>7 DEF ChannelRemove, Delete, InCallback
<1>8. ASSUME NEW t \in Timers, TimerRemove(t)
      PROVE  /\ pc # "destroyed"
             /\ \E n : n \in heap.live /\ n \notin Heads /\ heap' = Remove(heap, n)
  BY <1>8 DEF TimerRemove, Delete, InCallback
<1>9. CASE ChannelRemoveFd \/ LoopQuit
  BY <1>9 DEF ChannelRemoveFd, LoopQuit, InCallback
<1>10. CASE UNCHANGED vars
  BY <1>10 DEF vars
<1>11. QED
  BY <1>1, <1>2, <1>3, <1>4, <1>5, <1>6, <1>7, <1>8, <1>9, <1>10 DEF Next, Loop, Callback

\* A step of the loop is a step of each list.
LEMMA QueueNext ==
  ASSUME ListInv, QueueInv, [Next]_vars
  PROVE  QueueInv' /\ (pc' # "destroyed" => QueueSteps(heap, heap'))
<1> SUFFICES ASSUME pc' # "destroyed" PROVE Ordered(heap') /\ QueueSteps(heap, heap')
  BY DEF QueueInv
<1>1. /\ pc # "destroyed"
      /\ \/ UNCHANGED heap
         \/ \E to \in Heads, n \in Node :
              n \notin Heads /\ n \notin heap.live /\ heap' = AddTail(heap, to, n)
         \/ \E n : n \in heap.live /\ n \notin Heads /\ heap' = Remove(heap, n)
  BY HeapSteps
<1>2. heap \in Heap(Node) /\ Linked(heap) /\ Ordered(heap)
  BY <1>1 DEF ListInv, QueueInv
<1>3. CASE UNCHANGED heap
  BY <1>2, <1>3 DEF QueueSteps, QueueStep
<1>4. CASE \E to \in Heads, n \in Node :
             n \notin Heads /\ n \notin heap.live /\ heap' = AddTail(heap, to, n)
  BY <1>2, <1>4, AddIsQueueStep
<1>5. CASE \E n : n \in heap.live /\ n \notin Heads /\ heap' = Remove(heap, n)
  BY <1>2, <1>5, RemoveIsQueueStep
<1>6. QED BY <1>1, <1>3, <1>4, <1>5

\* Whatever callbacks add and remove while the loop goes through its lists, a
\* list grows at its end only and keeps the order of the nodes that stay
\* (dlist_add_tail, dlist_remove): channels and timers are called in the order
\* they came in.
THEOREM OrderIsKept == Spec => ListsAreQueues
<1>1. Init => QueueInv
  <2> SUFFICES ASSUME Init PROVE Ordered(heap)
    BY DEF QueueInv
  <2> USE EventLoopAssumption
  <2>1. PICK t \in Timers : heap = AddTail(NoList(Node), TimerHead, t)
    BY DEF Init
  <2> DEFINE h == NoList(Node)
  <2>2. h.live = {}
    BY DEF NoList
  <2>3. h \in Heap(Node) /\ Linked(h)
    <3>1. h \in Heap(Node)
      BY DEF NoList, Heap
    <3>2. Ring(h) /\ RankedBy(h, [n \in Node |-> 0])
      BY <2>2 DEF Ring, RankedBy
    <3>3. [n \in Node |-> 0] \in [Node -> Int]
      OBVIOUS
    <3>4. QED BY <3>1, <3>2, <3>3 DEF Linked, Ranked
  <2>4. Ordered(h)
    BY <2>2, FS_EmptySet DEF Ordered
  <2>5. TimerHead \in Heads /\ t \in Node /\ t \notin Heads /\ t \notin h.live
    BY <2>2 DEF Heads, Node
  <2> HIDE DEF h
  <2>6. QED BY <2>1, <2>3, <2>4, <2>5, AddIsQueueStep DEF h
<1>2. ListInv /\ QueueInv /\ [Next]_vars =>
        QueueInv' /\ (pc' # "destroyed" => \A head \in {ChanHead, TimerHead} :
                        QueueStep(Listed(heap, head), Listed(heap', head)))
  BY QueueNext DEF QueueSteps, Heads
<1>3. QED BY <1>1, <1>2, ListInit, ListNext, PTL DEF Spec, ListsAreQueues
=============================================================================
