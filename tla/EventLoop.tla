------------------------------- MODULE EventLoop -------------------------------
(***************************************************************************)
(* The main loop of the daemon: select on the descriptors of the channels, *)
(* timers run when it times out, and callbacks that add, remove and change *)
(* channels and timers while the loop is going through its lists.          *)
(*                                                                         *)
(* The callbacks are the caller's code.  They do anything the interface    *)
(* offers, within what its comments ask of them: a callback does not       *)
(* delete the node the iteration is at (dlist.c), it returns a code that   *)
(* has it removed, and a channel removes its descriptor from the loop      *)
(* before it returns such a code (selloop.c).                              *)
(*                                                                         *)
(* Time is counted in ticks.  A timeval keeps its two fields, which is     *)
(* what timercmp looks at, but its seconds are counted from the second it  *)
(* is now: the clock advances by turning every timeval back.               *)
(***************************************************************************)
EXTENDS DList

CONSTANTS
  Chans, Timers,          \* channel and timer objects
  ChanHead, TimerHead,    \* the special nodes of the two lists
  Fds,                    \* the descriptors the channels may have
  Durations,              \* the durations timers are set to, in ticks
  TimerReturns,           \* what the functions of timers return
  Second,                 \* ticks per second
  LoopTimeout,            \* loop_timeout, in ticks
  TimerInterval           \* timer_interval, in ticks

Node == Chans \cup Timers \cup {ChanHead, TimerHead}
NoFd == -1
NoNode == "no node"

ASSUME EventLoopAssumption ==
  /\ Chans \cap Timers = {} /\ ChanHead # TimerHead
  /\ {ChanHead, TimerHead, NoNode} \cap (Chans \cup Timers) = {}
  /\ NoNode \notin {ChanHead, TimerHead}
  /\ Fds \subseteq Nat
  /\ Durations \subseteq Int /\ Durations # {}
  /\ TimerReturns \subseteq Returns
  /\ Second \in Nat \ {0} /\ LoopTimeout \in Nat \ {0} /\ TimerInterval \in Nat

VARIABLES
  pc,          \* where loop_run is
  endRequest,
  heap,        \* the nodes of loop->channels and loop->timers
  node,        \* the node dlist_iterator is at
  next,        \* its variable next
  fd,          \* the descriptor of each channel
  fdsmsk, fdscopy,
  waiting,     \* channels that select reported and that have not been called
  when, millisecs,        \* of each timer
  run_timers,
  usec         \* the ticks of the current second that have passed

objects == <<fd, when, millisecs>>
vars == <<pc, endRequest, heap, node, next, objects, fdsmsk, fdscopy, waiting, run_timers, usec>>

-----------------------------------------------------------------------------
(* timeval.                                                                *)

Timeval == [sec : Int, usec : Nat]
Now == [sec |-> 0, usec |-> usec]

\* A time so long ago that how long makes no difference any more.
Past == [sec |-> -2, usec |-> 0]

\* A duration in its two fields.
Span(d) == [sec |-> d \div Second, usec |-> d % Second]

\* timercmp(a, b, >=)
NotBefore(a, b) == a.sec > b.sec \/ (a.sec = b.sec /\ a.usec >= b.usec)

\* Seeded fault: the sum is not normalised.
TimerAddNoCarry(a, b) == [sec |-> a.sec + b.sec, usec |-> a.usec + b.usec]

\* timeradd: the sum, with less than a second in its second field.
TimerAdd(a, b) ==
  LET u == a.usec + b.usec
  IN  [sec |-> a.sec + b.sec + u \div Second, usec |-> u % Second]

\* timer_update: -d is "one second later"; the fields are added one by one.
Deadline(d) ==
  IF d < 0 THEN [sec |-> 1, usec |-> usec]
           ELSE [sec |-> Span(d).sec, usec |-> usec + Span(d).usec]
Abs(d) == IF d < 0 THEN -d ELSE d

\* A timeval after the clock has advanced by d.
Later(tv, d) ==
  LET s == tv.sec - (usec + d) \div Second
  IN  IF s <= Past.sec THEN Past ELSE [sec |-> s, usec |-> tv.usec]

\* The clock advances by d, and the timevals w and r with it.
Pass(d, w, r) ==
  /\ usec' = (usec + d) % Second
  /\ when' = [t \in Timers |-> IF t \in heap.live THEN Later(w[t], d) ELSE Past]
  /\ run_timers' = Later(r, d)

-----------------------------------------------------------------------------
(* loop_run.                                                               *)

\* Bound: no callback takes longer than this, nor a select that is cut short.
Elapsed == 0 .. LoopTimeout

\* Seeded fault: an iteration starts at the last node.
StartAtLast(head) ==
  IF head \in heap.live THEN heap.prev[head] ELSE head

\* An iteration starts at the first node; there is none in a NULL list.
Start(head) ==
  IF head \in heap.live THEN heap.next[head] ELSE head

SelectReady ==
  /\ pc = "top" /\ ~ endRequest
  /\ \E ready \in SUBSET fdsmsk \ {{}} :
       /\ fdscopy' = ready
       /\ waiting' = {c \in Chans \cap heap.live : fd[c] \in ready}
  /\ \E d \in Elapsed : Pass(d, when, run_timers)
  /\ node' = Start(ChanHead)
  /\ pc' = "channels"
  /\ UNCHANGED <<endRequest, heap, next, fd, fdsmsk, millisecs>>

\* A signal: select returns -1 and the loop goes on.
SelectError ==
  /\ pc = "top" /\ ~ endRequest
  /\ \E d \in Elapsed : Pass(d, when, run_timers)
  /\ UNCHANGED <<pc, endRequest, heap, node, next, fd, fdsmsk, fdscopy, waiting, millisecs>>

SelectTimeout ==
  /\ pc = "top" /\ ~ endRequest
  /\ Pass(LoopTimeout, when, run_timers)
  /\ pc' = "timeout"
  /\ UNCHANGED <<endRequest, heap, node, next, fd, fdsmsk, fdscopy, waiting, millisecs>>

\* run_timers is not read before the next time-out, so it can be set, from the
\* same time_now, before the timers have run.
TestTimers ==
  /\ pc = "timeout"
  /\ IF NotBefore(Now, run_timers)
     THEN /\ node' = Start(TimerHead)
          /\ run_timers' = TimerAdd(Now, Span(TimerInterval))
          /\ pc' = "timers"
     ELSE pc' = "top" /\ UNCHANGED <<node, run_timers>>
  /\ UNCHANGED <<endRequest, heap, next, objects, fdsmsk, fdscopy, waiting, usec>>

Quit ==
  /\ pc = "top" /\ endRequest
  /\ pc' = "ended"
  /\ UNCHANGED <<endRequest, heap, node, next, objects, fdsmsk, fdscopy, waiting,
                 run_timers, usec>>

\* loop_destroy
Destroy ==
  /\ pc = "ended"
  /\ heap' = DeleteAll(DeleteAll(heap, ChanHead), TimerHead)
  /\ pc' = "destroyed"
  /\ UNCHANGED <<endRequest, node, next, objects, fdsmsk, fdscopy, waiting, run_timers, usec>>

-----------------------------------------------------------------------------
(* dlist_iterator over the timers, with timer_iter_timer_func, and over the *)
(* channels, with loop_iter_channel_func.                                  *)

\* Seeded fault: next is read before the function is called.
ReadNextEarly(point) == IF point = "before func" THEN heap.next[node] ELSE next

\* next is read after the function has returned and before the node goes.
ReadNext(point) == IF point = "after func" THEN heap.next[node] ELSE next

\* The iteration is over; what it leaves behind is not read again.
Leave ==
  /\ node' = NoNode /\ next' = NoNode
  /\ fdscopy' = {} /\ waiting' = {}
  /\ pc' = "top"

\* What the function returned decides whether the node goes and whether the
\* iteration goes on.
Return(ret, iteration) ==
  /\ heap' = IF ret \in {DLIST_RM_NODE, DLIST_RM_NODE_CONT} THEN Remove(heap, node) ELSE heap
  /\ IF ret \in {DLIST_CONT, DLIST_RM_NODE_CONT}
     THEN /\ next' = ReadNext("after func")
          /\ node' = next'
          /\ pc' = iteration
          /\ UNCHANGED <<fdscopy, waiting>>
     ELSE Leave

SkipTimer ==
  /\ pc = "timers" /\ node # TimerHead
  /\ ~ NotBefore(Now, when[node])
  /\ node' = heap.next[node] /\ next' = node'
  /\ UNCHANGED <<pc, endRequest, heap, objects, fdsmsk, fdscopy, waiting, run_timers, usec>>

CallTimer ==
  /\ pc = "timers" /\ node # TimerHead
  /\ NotBefore(Now, when[node])
  /\ next' = ReadNext("before func")
  /\ pc' = "timer_func"
  /\ UNCHANGED <<endRequest, heap, node, objects, fdsmsk, fdscopy, waiting, run_timers, usec>>

\* The deadline is set again from the time before the call.
ReturnTimer(ret) ==
  /\ pc = "timer_func"
  /\ ret \in TimerReturns
  /\ Return(ret, "timers")
  /\ LET w == IF ret = DLIST_CONT
              THEN [when EXCEPT ![node] = TimerAdd(Now, millisecs[node])] ELSE when
     IN  \E d \in Elapsed : Pass(d, w, run_timers)
  /\ UNCHANGED <<endRequest, fd, fdsmsk, millisecs>>

EndTimers ==
  /\ pc = "timers" /\ node = TimerHead
  /\ Leave
  /\ UNCHANGED <<endRequest, heap, objects, fdsmsk, run_timers, usec>>

SkipChannel ==
  /\ pc = "channels" /\ node # ChanHead
  /\ fd[node] \notin fdscopy
  /\ node' = heap.next[node] /\ next' = node'
  /\ UNCHANGED <<pc, endRequest, heap, objects, fdsmsk, fdscopy, waiting, run_timers, usec>>

CallChannel ==
  /\ pc = "channels" /\ node # ChanHead
  /\ fd[node] \in fdscopy
  /\ waiting' = waiting \ {node}
  /\ next' = ReadNext("before func")
  /\ pc' = "channel_func"
  /\ UNCHANGED <<endRequest, heap, node, objects, fdsmsk, fdscopy, run_timers, usec>>

\* The node is removed exactly when its descriptor has been.
ReturnChannel(ret) ==
  /\ pc = "channel_func"
  /\ (fd[node] = NoFd) = (ret \in {DLIST_RM_NODE, DLIST_RM_NODE_CONT})
  /\ Return(ret, "channels")
  /\ \E d \in Elapsed : Pass(d, when, run_timers)
  /\ UNCHANGED <<endRequest, fd, fdsmsk, millisecs>>

EndChannels ==
  /\ pc = "channels" /\ node = ChanHead
  /\ Leave
  /\ UNCHANGED <<endRequest, heap, objects, fdsmsk, run_timers, usec>>

-----------------------------------------------------------------------------
(* What a callback may do.                                                 *)

InCallback == pc \in {"timer_func", "channel_func"}

\* loop_channel_add of a new channel with a descriptor no other channel has.
ChannelAdd(c, f) ==
  /\ InCallback
  /\ c \notin heap.live
  /\ \A o \in Chans \cap heap.live : fd[o] # f
  /\ heap' = AddTail(heap, ChanHead, c)
  /\ fd' = [fd EXCEPT ![c] = f]
  /\ fdsmsk' = fdsmsk \cup {f}
  /\ UNCHANGED <<pc, endRequest, node, next, fdscopy, waiting, when, millisecs, run_timers, usec>>

\* loop_channel_remove_fd, by the channel that is being called.
ChannelRemoveFd ==
  /\ pc = "channel_func"
  /\ fd[node] # NoFd
  /\ fdsmsk' = fdsmsk \ {fd[node]}
  /\ fd' = [fd EXCEPT ![node] = NoFd]
  /\ UNCHANGED <<pc, endRequest, heap, node, next, fdscopy, waiting, when, millisecs,
                 run_timers, usec>>

\* Seeded fault: the descriptor stays in the set.
ChannelRemoveNodeOnly(c) ==
  /\ InCallback
  /\ c # node /\ c \in heap.live
  /\ heap' = Delete(heap, c)
  /\ fd' = [fd EXCEPT ![c] = NoFd]
  /\ waiting' = waiting \ {c}
  /\ UNCHANGED <<pc, endRequest, node, next, fdsmsk, fdscopy, when, millisecs, run_timers, usec>>

\* loop_channel_remove of another channel.
ChannelRemove(c) ==
  /\ InCallback
  /\ c # node /\ c \in heap.live
  /\ fdsmsk' = fdsmsk \ {fd[c]}
  /\ heap' = Delete(heap, c)
  /\ fd' = [fd EXCEPT ![c] = NoFd]
  /\ waiting' = waiting \ {c}
  /\ UNCHANGED <<pc, endRequest, node, next, fdscopy, when, millisecs, run_timers, usec>>

\* timer_new and loop_timer_add.
TimerNew(t, d) ==
  /\ InCallback
  /\ t \notin heap.live
  /\ heap' = AddTail(heap, TimerHead, t)
  /\ when' = [when EXCEPT ![t] = Deadline(d)]
  /\ millisecs' = [millisecs EXCEPT ![t] = Span(Abs(d))]
  /\ UNCHANGED <<pc, endRequest, node, next, fd, fdsmsk, fdscopy, waiting, run_timers, usec>>

\* timer_update, timer_modify
TimerUpdate(t, d) ==
  /\ InCallback
  /\ t \in heap.live
  /\ when' = [when EXCEPT ![t] = Deadline(d)]
  /\ millisecs' = [millisecs EXCEPT ![t] = Span(Abs(d))]
  /\ UNCHANGED <<pc, endRequest, heap, node, next, fd, fdsmsk, fdscopy, waiting, run_timers, usec>>

\* loop_timer_remove of another timer.
TimerRemove(t) ==
  /\ InCallback
  /\ t # node /\ t \in heap.live
  /\ heap' = Delete(heap, t)
  /\ UNCHANGED <<pc, endRequest, node, next, objects, fdsmsk, fdscopy, waiting, run_timers, usec>>

\* loop_quit
LoopQuit ==
  /\ InCallback
  /\ endRequest' = TRUE
  /\ UNCHANGED <<pc, heap, node, next, objects, fdsmsk, fdscopy, waiting, run_timers, usec>>

-----------------------------------------------------------------------------
\* vfdd_construct: a loop with one timer in it.
Init ==
  /\ pc = "top" /\ endRequest = FALSE
  /\ usec \in 0 .. Second - 1
  /\ \E t \in Timers, d \in Durations :
       /\ heap = AddTail(NoList(Node), TimerHead, t)
       /\ when = [u \in Timers |-> IF u = t THEN Deadline(d) ELSE Past]
       /\ millisecs = [u \in Timers |-> IF u = t THEN Span(Abs(d)) ELSE Span(0)]
  /\ node = NoNode /\ next = NoNode
  /\ fd = [c \in Chans |-> NoFd]
  /\ fdsmsk = {} /\ fdscopy = {} /\ waiting = {}
  /\ run_timers = Past

Loop ==
  \/ SelectReady \/ SelectError \/ SelectTimeout \/ TestTimers \/ Quit \/ Destroy
  \/ SkipTimer \/ CallTimer \/ EndTimers \/ SkipChannel \/ CallChannel \/ EndChannels
  \/ \E ret \in Returns : ReturnTimer(ret) \/ ReturnChannel(ret)

Callback ==
  \/ \E c \in Chans, f \in Fds : ChannelAdd(c, f)
  \/ \E c \in Chans : ChannelRemove(c)
  \/ \E t \in Timers, d \in Durations : TimerNew(t, d) \/ TimerUpdate(t, d)
  \/ \E t \in Timers : TimerRemove(t)
  \/ ChannelRemoveFd \/ LoopQuit

Next == Loop \/ Callback

Spec == Init /\ [][Next]_vars

-----------------------------------------------------------------------------
(* Correctness.                                                            *)

Steps == {"top", "timeout", "timers", "timer_func", "channels", "channel_func", "ended",
          "destroyed"}

\* The type invariant.  What timeradd made has less than a second in its
\* microseconds; what timer_update made may have almost two.
TypeOK ==
  /\ pc \in Steps /\ endRequest \in BOOLEAN
  /\ heap \in Heap(Node)
  /\ node \in Node \cup {NoNode} /\ next \in Node \cup {NoNode}
  /\ fd \in [Chans -> Fds \cup {NoFd}]
  /\ fdsmsk \subseteq Fds /\ fdscopy \subseteq Fds
  /\ waiting \subseteq Chans
  /\ when \in [Timers -> Timeval] /\ millisecs \in [Timers -> Timeval]
  /\ \A t \in Timers : when[t].usec < 2 * Second /\ millisecs[t].usec < Second
  /\ run_timers \in Timeval /\ run_timers.usec < Second
  /\ usec \in 0 .. Second - 1

\* An iteration stands at a node that is in its list, or at the head, whatever
\* the callbacks have added and removed.
NodeAlive ==
  /\ pc \in {"timers", "timer_func"} =>
       node \in Timers \cap heap.live \/ (pc = "timers" /\ node = TimerHead)
  /\ pc \in {"channels", "channel_func"} =>
       node \in Chans \cap heap.live \/ (pc = "channels" /\ node = ChanHead)

\* When an iteration over the channels gets to its end, each channel that
\* select reported has been called or removed.
PassComplete == pc = "channels" /\ node = ChanHead => waiting = {}

\* select watches the descriptors of the channels, and those only.
WatchesChannels ==
  pc # "destroyed" => fdsmsk = {fd[c] : c \in Chans \cap heap.live} \ {NoFd}

\* Each list grows at its end only, and keeps its order when a node goes.
QueueStep(old, new) ==
  \/ new = old
  \/ \E n \in Node : new = Append(old, n)
  \/ \E k \in DOMAIN old : new = SubSeq(old, 1, k - 1) \o SubSeq(old, k + 1, Len(old))
ListsAreQueues ==
  [][ pc' # "destroyed" => \A head \in {ChanHead, TimerHead} :
        QueueStep(Listed(heap, head), Listed(heap', head)) ]_vars

\* A timer that is due is called, removed or set anew in the end, if select
\* times out again and again: timers are not looked at while there is something
\* to read.
Due(t) == t \in heap.live /\ NotBefore(Now, when[t])
Called(t) == pc = "timer_func" /\ node = t
KeepsTimingOut == []<>(pc = "timeout") /\ []<>(pc = "top")
TimersServed == KeepsTimingOut => \A t \in Timers : Due(t) ~> (Called(t) \/ ~ Due(t))

\* A timer is not called before the time it was set to: "time to wait milisecs
\* before next callback" (vfdd.h:37).
Ticks(tv) == tv.sec * Second + tv.usec
NotEarly ==
  pc = "timers" /\ node \in Timers /\ NotBefore(Now, when[node])
    => Ticks(when[node]) <= Ticks(Now)
=============================================================================
