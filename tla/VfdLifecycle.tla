----------------------------- MODULE VfdLifecycle -----------------------------
(***************************************************************************)
(* How struct vfd_t is set up and torn down by vfd_probe and vfd_remove    *)
(* while its timer, once armed, and the processes that read and write its  *)
(* sysfs files are already, or still, at work.                             *)
(*                                                                         *)
(* What the handlers do to the display is in Vfd.  Here they are the       *)
(* accesses that can go wrong while the structure comes and goes: to the   *)
(* structure itself, to the tables of keys and dot LEDs, to the input      *)
(* device.  An access to memory that is not there sets fault, after which  *)
(* nothing is promised and the model stops.                                *)
(***************************************************************************)
EXTENDS Integers, Sequences

CONSTANTS
  Users,     \* processes that use the sysfs files
  Attrs,     \* all_attrs[]: the files, in the order they are created
  LedAttr,   \* the file whose handlers walk the table of dot LEDs
  Trees,     \* the device trees the driver may find
  MayFail    \* the calls of the set-up that can fail do, at times

Timer == "timer"
NoOne == "no one"
Idle  == "idle"

\* names: of_property_count_strings of dot_names (negative when absent);
\* bits: dot_bits has two bytes for each; keys: entries in key_codes.
Tree == [names : Int, bits : {"match", "mismatch"}, keys : Nat]

Files == {Attrs[j] : j \in 1 .. Len(Attrs)}

ASSUME LifecycleAssumption ==
  /\ {Timer, NoOne} \cap Users = {}
  /\ Attrs \in Seq(STRING) /\ Attrs # <<>>
  /\ LedAttr \in Files /\ Idle \notin Files
  /\ Trees \subseteq Tree
  /\ MayFail \in BOOLEAN

\* A table that is not allocated.
Null == -1

VARIABLES
  tree,          \* the device tree
  bus,           \* where the driver core's thread is in probe and remove
  i,             \* the loop index of probe and remove
  live,          \* the structure is allocated
  lock,          \* owner of vfd->lock
  timer,         \* where the timer of the structure is
  orphan,        \* a structure was freed with its timer pending or running
  files,         \* the sysfs files that can be opened
  at, led,       \* the file each process is in, and its place in the LEDs
  num_dotleds, dotleds,  \* the count; entries filled in, or Null
  num_keys, keys,        \* the count; entries filled in, or Null
  input,         \* "null", "allocated", "registered" or "freed"
  fault          \* the first access to memory that is not there

tables == <<num_dotleds, dotleds, num_keys, keys>>
user   == <<at, led>>
vars   == <<tree, bus, i, live, lock, timer, orphan, files, user, tables, input, fault>>

\* Nothing has been accessed so far that is not there.
Running == fault = "none"

-----------------------------------------------------------------------------
(* vfd_probe.                                                              *)

\* A zeroed structure.
Probe ==
  /\ Running
  /\ bus = "unbound"
  /\ live' = TRUE
  /\ lock' = NoOne
  /\ num_dotleds' = 0 /\ dotleds' = Null
  /\ num_keys' = 0 /\ keys' = Null
  /\ input' = "null"
  /\ bus' = "setup"
  /\ UNCHANGED <<tree, i, timer, orphan, files, user, fault>>

\* __setup_gpios, __setup_grid_num, __setup_segment_no and hardware_init: the
\* first failure leads to err1, otherwise the timer is armed.
Setup ==
  /\ Running
  /\ bus = "setup"
  /\ \/ MayFail /\ bus' = "free" /\ UNCHANGED <<i, timer>>
     \/ bus' = "create" /\ i' = 1 /\ timer' = "armed"
  /\ UNCHANGED <<tree, live, lock, orphan, files, user, tables, input, fault>>

\* err2, and vfd_remove: the files go, from the last to the first.
RemoveFiles == bus' = "unlink" /\ i' = Len(Attrs)

\* Seeded fault: an error while the files are created is taken to err1.
CreateFileNoUndo ==
  /\ Running
  /\ bus = "create"
  /\ \/ /\ files' = files \cup {Attrs[i]}
        /\ IF i = Len(Attrs) THEN bus' = "count_leds" ELSE bus' = "create"
        /\ i' = i + 1
     \/ MayFail /\ bus' = "free" /\ UNCHANGED <<files, i>>
  /\ UNCHANGED <<tree, live, lock, timer, orphan, user, tables, input, fault>>

\* device_create_file for each of all_attrs.
CreateFile ==
  /\ Running
  /\ bus = "create"
  /\ \/ /\ files' = files \cup {Attrs[i]}
        /\ IF i = Len(Attrs) THEN bus' = "count_leds" ELSE bus' = "create"
        /\ i' = i + 1
     \/ MayFail /\ RemoveFiles /\ UNCHANGED files
  /\ UNCHANGED <<tree, live, lock, timer, orphan, user, tables, input, fault>>

\* __setup_dotled: the count first, the table after the checks.
CountLeds ==
  /\ Running
  /\ bus = "count_leds"
  /\ num_dotleds' = tree.names
  /\ bus' = IF tree.names > 0 /\ tree.bits = "match" THEN "alloc_leds" ELSE "count_keys"
  /\ UNCHANGED <<tree, i, live, lock, timer, orphan, files, user, dotleds, num_keys, keys,
                 input, fault>>

AllocLeds ==
  /\ Running
  /\ bus = "alloc_leds"
  /\ dotleds' = 0
  /\ bus' = "fill_leds"
  /\ UNCHANGED <<tree, i, live, lock, timer, orphan, files, user, num_dotleds, num_keys, keys,
                 input, fault>>

\* Seeded fault: the loop fills one entry too many.
FillLedTooFar ==
  /\ Running
  /\ bus = "fill_leds"
  /\ dotleds' = dotleds + 1
  /\ bus' = IF dotleds = num_dotleds THEN "count_keys" ELSE "fill_leds"
  /\ UNCHANGED <<tree, i, live, lock, timer, orphan, files, user, num_dotleds, num_keys, keys,
                 input, fault>>

FillLed ==
  /\ Running
  /\ bus = "fill_leds"
  /\ dotleds' = dotleds + 1
  /\ bus' = IF dotleds' = num_dotleds THEN "count_keys" ELSE "fill_leds"
  /\ UNCHANGED <<tree, i, live, lock, timer, orphan, files, user, num_dotleds, num_keys, keys,
                 input, fault>>

\* Seeded fault: the input device is allocated before the keys are read.
CountKeysInputFirst ==
  /\ Running
  /\ bus = "count_keys"
  /\ num_keys' = tree.keys
  /\ \/ tree.keys = 0 /\ bus' = "bound" /\ UNCHANGED <<keys, input>>
     \/ tree.keys > 0 /\ bus' = "fill_keys" /\ keys' = 0 /\ input' = "allocated"
  /\ UNCHANGED <<tree, i, live, lock, timer, orphan, files, user, num_dotleds, dotleds, fault>>

\* __setup_input: without keys there is no input device.
CountKeys ==
  /\ Running
  /\ bus = "count_keys"
  /\ num_keys' = tree.keys
  /\ \/ tree.keys = 0 /\ bus' = "bound" /\ UNCHANGED keys
     \/ tree.keys > 0 /\ bus' = "fill_keys" /\ keys' = 0
  /\ UNCHANGED <<tree, i, live, lock, timer, orphan, files, user, num_dotleds, dotleds,
                 input, fault>>

FillKey ==
  /\ Running
  /\ bus = "fill_keys"
  /\ keys' = keys + 1
  /\ bus' = IF keys' = num_keys THEN "input" ELSE "fill_keys"
  /\ UNCHANGED <<tree, i, live, lock, timer, orphan, files, user, num_dotleds, dotleds, num_keys,
                 input, fault>>

AllocateInput ==
  /\ Running
  /\ bus = "input"
  /\ \/ input' = "allocated" /\ bus' = "register" /\ UNCHANGED i
     \/ MayFail /\ RemoveFiles /\ UNCHANGED input
  /\ UNCHANGED <<tree, live, lock, timer, orphan, files, user, tables, fault>>

RegisterInput ==
  /\ Running
  /\ bus = "register"
  /\ \/ input' = "registered" /\ bus' = "bound" /\ UNCHANGED i
     \/ MayFail /\ RemoveFiles /\ UNCHANGED input
  /\ UNCHANGED <<tree, live, lock, timer, orphan, files, user, tables, fault>>

-----------------------------------------------------------------------------
(* vfd_remove, and the end of a vfd_probe that fails.                      *)

Remove ==
  /\ Running
  /\ bus = "bound"
  /\ RemoveFiles
  /\ UNCHANGED <<tree, live, lock, timer, orphan, files, user, tables, input, fault>>

\* device_remove_file: the name goes, then the handlers that run are waited for.
Unlink ==
  /\ Running
  /\ bus = "unlink"
  /\ files' = files \ {Attrs[i]}
  /\ bus' = "drain"
  /\ UNCHANGED <<tree, i, live, lock, timer, orphan, user, tables, input, fault>>

\* Seeded fault: the handlers are not waited for.
DrainNot ==
  /\ Running
  /\ bus = "drain"
  /\ i' = i - 1
  /\ bus' = IF i = 1 THEN "free" ELSE "unlink"
  /\ UNCHANGED <<tree, live, lock, timer, orphan, files, user, tables, input, fault>>

Drain ==
  /\ Running
  /\ bus = "drain"
  /\ \A u \in Users : at[u] # Attrs[i]
  /\ i' = i - 1
  /\ bus' = IF i = 1 THEN "free" ELSE "unlink"
  /\ UNCHANGED <<tree, live, lock, timer, orphan, files, user, tables, input, fault>>

FreeInput ==
  /\ Running
  /\ bus = "free"
  /\ input' = IF input = "null" THEN "null" ELSE "freed"
  /\ bus' = "kfree"
  /\ UNCHANGED <<tree, i, live, lock, timer, orphan, files, user, tables, fault>>

\* kfree(vfd); nobody has stopped the timer.
Kfree ==
  /\ Running
  /\ bus = "kfree"
  /\ live' = FALSE
  /\ orphan' = (orphan \/ timer # "off")
  /\ timer' = "off"
  /\ bus' = "unbound"
  /\ UNCHANGED <<tree, i, lock, files, user, tables, input, fault>>

Bus ==
  \/ Setup \/ CreateFile \/ CountLeds \/ AllocLeds \/ FillLed \/ CountKeys \/ FillKey
  \/ AllocateInput \/ RegisterInput \/ Unlink \/ Drain \/ FreeInput \/ Kfree

-----------------------------------------------------------------------------
(* The handlers.                                                           *)

\* sysfs opens a file that is there and stays in it until the handler returns.
Open(u) ==
  /\ Running
  /\ at[u] = Idle
  /\ \E f \in files : at' = [at EXCEPT ![u] = f]
  /\ UNCHANGED <<tree, bus, i, live, lock, timer, orphan, files, led, tables, input, fault>>

\* A handler that takes vfd->lock and releases it; dotled_store does so for
\* each assignment, at the entry of the table it has found.
UserLock(u) ==
  /\ Running
  /\ at[u] # Idle
  /\ at[u] = LedAttr => led[u] < num_dotleds /\ led[u] < dotleds
  /\ lock = NoOne
  /\ lock' = u
  /\ UNCHANGED <<tree, bus, i, live, timer, orphan, files, user, tables, input, fault>>

\* The handler returns, or dotled_store goes on with its text.  The walk then
\* begins again at the first entry; as the entries up to this one have been
\* reached, it goes on here with the next one.
AfterSection(u) ==
  \/ at' = [at EXCEPT ![u] = Idle] /\ led' = [led EXCEPT ![u] = 0]
  \/ /\ at[u] = LedAttr /\ led[u] < num_dotleds
     /\ led' = [led EXCEPT ![u] = led[u] + 1]
     /\ UNCHANGED at

\* Seeded fault: the handler returns with the mutex held.
UserUnlockForgotten(u) ==
  /\ Running
  /\ lock = u
  /\ AfterSection(u)
  /\ UNCHANGED <<tree, bus, i, live, lock, timer, orphan, files, tables, input, fault>>

UserUnlock(u) ==
  /\ Running
  /\ lock = u
  /\ lock' = NoOne
  /\ AfterSection(u)
  /\ UNCHANGED <<tree, bus, i, live, timer, orphan, files, tables, input, fault>>

\* dotled_show and dotled_store go from entry to entry of the table.
NextLed(u) ==
  /\ Running
  /\ at[u] = LedAttr
  /\ lock # u
  /\ led[u] < num_dotleds
  /\ IF led[u] < dotleds
     THEN led' = [led EXCEPT ![u] = led[u] + 1] /\ UNCHANGED fault
     ELSE fault' = "dotleds" /\ UNCHANGED led
  /\ UNCHANGED <<tree, bus, i, live, lock, timer, orphan, files, at, tables, input>>

LastLed(u) ==
  /\ Running
  /\ at[u] = LedAttr
  /\ lock # u
  /\ led[u] >= num_dotleds
  /\ led' = [led EXCEPT ![u] = 0]
  /\ at' = [at EXCEPT ![u] = Idle]
  /\ UNCHANGED <<tree, bus, i, live, lock, timer, orphan, files, tables, input, fault>>

\* vfd_timer_sr: scan the keys if there is an input device, then the rest.
Fire ==
  /\ Running
  /\ timer = "armed"
  /\ timer' = IF input = "null" THEN "rest" ELSE "scan"
  /\ UNCHANGED <<tree, bus, i, live, lock, orphan, files, user, tables, input, fault>>

Scan ==
  /\ Running
  /\ timer = "scan"
  /\ lock = NoOne
  /\ lock' = Timer
  /\ timer' = "scanning"
  /\ UNCHANGED <<tree, bus, i, live, orphan, files, user, tables, input, fault>>

Scanned ==
  /\ Running
  /\ timer = "scanning"
  /\ lock' = NoOne
  /\ timer' = "report"
  /\ UNCHANGED <<tree, bus, i, live, orphan, files, user, tables, input, fault>>

\* The changed keys are looked up in the table and reported to the device.
Report ==
  /\ Running
  /\ timer = "report"
  /\ IF input = "freed" THEN fault' = "freed" /\ UNCHANGED timer
                        ELSE timer' = "rest" /\ UNCHANGED fault
  /\ UNCHANGED <<tree, bus, i, live, lock, orphan, files, user, tables, input>>

Rearm ==
  /\ Running
  /\ timer = "rest"
  /\ timer' = "armed"
  /\ UNCHANGED <<tree, bus, i, live, lock, orphan, files, user, tables, input, fault>>

\* The timer of a structure that has been freed.
FireFreed ==
  /\ Running
  /\ orphan
  /\ fault' = "freed"
  /\ UNCHANGED <<tree, bus, i, live, lock, timer, orphan, files, user, tables, input>>

-----------------------------------------------------------------------------
Halt == ~ Running /\ UNCHANGED vars

Init ==
  /\ tree \in Trees
  /\ bus = "unbound"
  /\ i = 0
  /\ live = FALSE
  /\ lock = NoOne
  /\ timer = "off"
  /\ orphan = FALSE
  /\ files = {}
  /\ at = [u \in Users |-> Idle]
  /\ led = [u \in Users |-> 0]
  /\ num_dotleds = 0 /\ dotleds = Null
  /\ num_keys = 0 /\ keys = Null
  /\ input = "null"
  /\ fault = "none"

Next ==
  \/ Probe \/ Bus \/ Remove
  \/ \E u \in Users : Open(u) \/ UserLock(u) \/ UserUnlock(u) \/ NextLed(u) \/ LastLed(u)
  \/ Fire \/ Scan \/ Scanned \/ Report \/ Rearm \/ FireFreed
  \/ Halt

Spec == Init /\ [][Next]_vars

\* The timer handler, which runs in interrupt context and calls mutex_lock all
\* the same, waits for a process it may have interrupted.
Stuck == timer = "scan" /\ lock \in Users /\ at[lock] # Idle

\* A process that is in a handler goes on except in such a state, the timer
\* fires and its handler goes on with a mutex that is free, the mutex is handed
\* over among the processes, and the driver core's thread finishes the probe or
\* the removal it has begun.
Fairness ==
  /\ WF_vars(Bus)
  /\ WF_vars(Fire \/ Scan \/ Scanned \/ Report \/ Rearm)
  /\ \A u \in Users : /\ WF_vars(~ Stuck /\ UserUnlock(u))
                      /\ WF_vars(NextLed(u) \/ LastLed(u))
                      /\ SF_vars(at[u] # LedAttr /\ UserLock(u))

FairSpec == Spec /\ Fairness

-----------------------------------------------------------------------------
(* Correctness.                                                            *)

Stages == {"unbound", "setup", "create", "count_leds", "alloc_leds", "fill_leds", "count_keys",
           "fill_keys", "input", "register", "bound", "unlink", "drain", "free", "kfree"}

\* The type invariant; a table is filled no further than it was allocated.
TypeOK ==
  /\ tree \in Trees
  /\ bus \in Stages
  /\ i \in 0 .. Len(Attrs) + 1
  /\ live \in BOOLEAN /\ orphan \in BOOLEAN
  /\ lock \in Users \cup {Timer, NoOne}
  /\ timer \in {"off", "armed", "scan", "scanning", "report", "rest"}
  /\ files \subseteq Files
  /\ at \in [Users -> Files \cup {Idle}]
  /\ led \in [Users -> Nat]
  /\ num_dotleds \in Int /\ dotleds \in {Null} \cup 0 .. tree.names
  /\ num_keys \in Nat /\ keys \in {Null} \cup 0 .. tree.keys
  /\ input \in {"null", "allocated", "registered", "freed"}
  /\ fault \in {"none", "freed", "dotleds"}

\* A process is inside a handler only while the structure is allocated,
\* whichever step of vfd_probe failed and whenever it is removed.
HandlersFindDevice == \A u \in Users : at[u] # Idle => live

\* When the device is not bound there is no file left that leads to it.
UnboundHasNoFiles == bus = "unbound" => files = {}

\* When the timer handler looks a key up, the table of keys is complete.
KeysReady == live /\ timer \in {"scan", "scanning", "report"} => keys = num_keys

\* vfd_remove, and a vfd_probe that fails, return although the handlers they
\* wait for need the mutex, unless the timer has broken something first or
\* waits for ever for the mutex of a process it may have interrupted.
RemovalEnds ==
  <>[]Stuck \/ (bus \in {"unlink", "drain"} ~> (bus = "unbound" \/ ~ Running))

\* Nothing uses the structure or the input device after it was freed.
\* vfd_remove says it unregisters everything (vfd.c:644).
NoUseAfterFree == fault # "freed"

\* num_dotleds is the number of elements in the dotleds array (vfd-priv.h:141),
\* so a handler that stays below it stays inside the array.
LedTableComplete == fault # "dotleds"
=============================================================================
