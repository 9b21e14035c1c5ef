# A TLA+ model of vfdd

vfdd drives the LED/VFD front panel of a set-top box. It has two halves:

* `vfdmod/linux_vfd`, a Linux kernel driver for the PT6964 family of display
  controllers, with a sysfs interface;
* `src`, a user-space daemon that formats clocks, temperatures, file contents
  and the like and writes them to that interface.

This directory holds TLA+ models of the driver's core, of its set-up and removal, of
its cut-down sibling with the keypad, of the daemon from its configuration file to
the words it writes, signals included, and of the daemon's event loop; TLC runs that
check them on small instances; and proofs, checked by TLAPS, of their main
properties for all instances. Paths below are those of the repository, under `src/`.

## The system

| Component | Source | State | Operations |
|---|---|---|---|
| Driver core | `vfdmod/linux_vfd/vfd.c`, `vfd-priv.h` | one `struct vfd_t`: `lock`, `display`, `raw_overlay`, `raw_display`, `need_update`, `boot_anim`, `enabled`, `brightness`, `brightness_suspend`, `suspended` | sysfs stores, power callbacks, the 100 ms timer |
| Chip back end and bus | `vfdmod/linux_vfd/pt6964.c`, `pt6964.h` | the chip: RAM, address, data mode, display control | initialise, clear, update display, set brightness, read keys |
| Glyph renderers | `vfdmod/linux_vfd/vfd-cc.c`, `vfd-ca.c`, `vfd-glyphs.c` | a constant table | text to raw words |
| Driver lifecycle | `vfd.c` (probe, remove, `__setup_*`) | allocations, sysfs files, the armed timer | probe with its error path, remove, device tree parsing |
| Key input | `vfd.c`, `pt6964.c`, `vfd-priv.h` | `keystate`, the key table | scan, difference with the last scan, events |
| Cut-down driver | `vfdmod/vfdmod` | as the core, without text and dot LEDs | as the core, with its own probe and remove |
| Event loop | `selloop.c`, `channel.c`, `timerms.c` | channel list, timer list, descriptor sets | add and remove channels and timers, one pass of `select` |
| Signals | `sigmain.c` | `signalInProgress`, the dispositions | run the registered destructor, exit |
| Daemon | `vfdd.c`, `vfddmain.c`, `display.c`, `dotled.c` | what the configuration says, the words of the display, dot LEDs | read the configuration, timer callback, write the overlay file |
| Lists and classes | `dlist.c`, `appclass.c` | nodes, reference counts | insert, delete, iterate with callbacks |
| Buffers | `dbuf.c`, `mdbuf.c` | data, used, allocated | append, grow |
| JSON reader | `jsonroot.c`, `jsonnode.c`, `jsonpath.c` | tree of nodes, current path | insert by path, look up |

Components not in the table (logging, string and memory helpers, build files,
a Bluetooth test program) keep no state of interest. `PROJECT.json` lists every
component with what is modelled of it.

### Interactions

At start-up the daemon maps its configuration file, reads it into a tree of nodes,
takes from the tree what it needs (display functions, dot LEDs, number of words) and
frees it. A timer of its event loop then makes the daemon compute the words of the
display and write them to a file of the driver. In the version at hand the words
spell the word of the command line, and the program exits after the first tick
(`vfdd.c:316`). A signal may interrupt it anywhere: the handler destroys the daemon
and exits.

The write to a file of the driver runs
`display_store`, `overlay_store`, `dotled_store`, or one of the settings'
stores, in the writing process and under the mutex `vfd->lock`. A store changes
memory only: the text (`display`), the extra segments (`raw_overlay`) or a
setting, and sets `need_update`. The settings that the chip must learn at once
(`enabled`, `brightness`) are then sent by a second critical section.

Every 100 ms `vfd_timer_sr` runs. It scans the keys (under the mutex), shows the
next frame of the boot animation if there is one left (under the mutex), and, if
`need_update` is set, clears it and calls `hardware_update_display` -- *without*
the mutex. That function renders the text to words, merges the overlay into
them, and sends the chip those words that differ from `raw_display`, its memory
of what the chip was last sent.

The PM core calls `suspend`, `resume` and `shutdown`, which drive the chip under
the mutex.

### What is hard about it

* The update reads the text and the overlay while handlers change them. That no
  change is lost depends on the order "clear the flag, then read" in the timer
  and "store, then set the flag" in the handlers.
* `raw_display` is a cache of the chip's RAM. If one byte goes astray it stays
  wrong until that word is changed again.
* The bus is shared: a transfer is a dozen operations, and another transfer
  between any two of them changes the chip's address and mode.
* Setting a field and programming the chip from it are two critical sections;
  two calls interleave between them.
* The text, the overlay and the dot LEDs overlap in the same words.
* The structure is set up and torn down around a timer that may be running; in the
  cut-down driver it runs before there is anything else.
* The reader of the configuration is one recursion over a buffer, a path and a
  counter that it shares with itself; a key that is found again takes a way of its own.
* The signal handler works on the objects of the thread it interrupts, and handlers
  interrupt each other.

### What makes each component correct

* Core: no change to the text or the overlay is lost; the chip's RAM is what the
  driver thinks it is; the display control register is what the settings ask
  for; a dot LED assignment changes that LED alone; calls return.
* Lifecycle: nothing uses the structure after it is freed, whatever step of
  probe fails; nothing remains behind.
* Key input: the input device has down the keys that the last scan found pressed,
  under the codes of the table; the bits of a scan are in the documented order.
* Cut-down driver: as the core.
* Event loop: due timers run, and keep running at their period; a callback may
  add and remove channels and timers, its own included.
* Lists: an iteration visits what it should while callbacks edit the list; a
  node is destroyed exactly when its last reference goes.
* Buffers: a buffer is a terminated string inside its allocation.
* JSON: a value is read into the member its place in the text names; nothing that
  was allocated is lost; what was read is what would be printed.
* Daemon: the overlay shows the word and the LEDs that are lit, and nothing else;
  the program ends.
* Signals: the destructor runs once, and nothing else after it.

`PROJECT.json` lists the hazards one by one, at their lines, with the property
that covers each or the reason why none does.

## Modules

| Module | What it is |
|---|---|
| `Pt6964` | The chip's command bytes, the transfers `pt6964.c` makes from them, and the chip's reaction to each bus operation |
| `Vfd` | The driver core: callers, timer handler, shared structure, mutex, the interleaving of their stores and bus operations; all properties |
| `Mirror` | Abstract specification of the update protocol: a copy that may differ from its source only while it is marked dirty |
| `MCVfd` | Values of the constants for TLC |
| `VfdProofs` | Type invariant, mutual exclusion, no lost update, isolation of dot LEDs |
| `ChipProofs` | The chip holds what the driver remembers; the refinement of `Mirror`; the display control register follows the settings |
| `VfdLifecycle` | Probe with every error path and remove, step by step, against the timer and the processes in sysfs handlers |
| `MCVfdLifecycle` | Its constants for TLC |
| `LifecycleProofs` | Its type invariant, safety of the handlers, no file left, completeness of the key table |
| `DList` | The daemon's doubly linked list as pointers: operators on a heap of nodes |
| `EventLoop` | The main loop of the daemon, its timers and channels, and callbacks that change both |
| `MCEventLoop` | Its constants for TLC |
| `EventLoopProofs` | Its type invariant, safety of iterations, agreement of descriptor set and list, completeness of a pass, order of the lists |
| `Keys` | The key matrix, the chip's key data, the bitmap made of it, the table of codes: operators and constants |
| `Cutdown` | The cut-down driver with the keypad: callers, timer handler, probe, remove and power callbacks; all properties |
| `MCCutdown` | Its constants for TLC |
| `CutdownProofs` | Type invariant, set-up order, no lost overlay, keys, control register |
| `DBuf` | Dynamic buffers: operators on a record with the storage |
| `Json` | The reader of the configuration, the tree, look-up and printing; the properties of the reader |
| `Vfdd` | The daemon around it: configuration, timer callback, signals; the properties of the whole |
| `MCVfdd` | Texts and constants for TLC |
| `Induction` | Induction over the naturals, and recursive functions, for the proofs |
| `JsonProofs` | The invariants of the reader: the text and the buffer, the tree, the names, what is written of the tree in the text |
| `VfddProofs` | The same for the whole daemon; the words of the overlay, the flag of the signal handler, the single destruction |

### Pt6964

A byte is the set of its bits that are 1, so that the code's `|` is a union and
any byte, also one that lands in the wrong place, is a value. A transfer is a
sequence of operations: STB low or high, one byte out, one byte in. The clock
edges, delays and the direction of the data pin are inside `Send` and
`ReadByte`. `SendWord` is the body of the loop of `hardware_update_display`:
adjacent words share an address command.

`ChipStep` is the chip, which is not part of the repository. It is modelled from
how the driver uses it: the first byte after STB falls is a command, told apart
by its two high bits, the following ones are data at an address that increments
or not. A falling edge of an STB that is low already is no edge, which is what
makes colliding transfers lose data.

### Vfd

One process per caller and one for the timer; `pc` says where each is. What
corresponds to what:

| Code | Action |
|---|---|
| `display_store`, `overlay_store`, `dotled_store`, `enable_store`, `brightness_store`, `brightness_suspend_store` up to `mutex_lock` | `CallStore` |
| the critical section | `Enter`, then `StoreStep` for each store in it, then `Leave` |
| the second section of `enable_store`, `brightness_store`; `vfd_power_common` | `EnterApply`, `BusStep`s, `LeaveApply` |
| suspend, resume, shutdown | `CallPower` |
| `vfd_timer_sr` | `Fire`, `ScanEnter`/`ScanLeave`, `BootEnter`/`BootLeave`, `Check` |
| `hardware_update_display` | `Render`, `Merge`, `SkipWord`, `ChangeWord`, `Close`, one step per word |
| `mod_timer` at the end | `Rearm` |
| `vfd_probe`, from `hardware_init` to the timer | `Init`, `Armed` |

A handler that stores puts its stores in `stores[p]`; `StoreStep` makes them
visible one at a time. A handler that uses the bus puts its operations in
`wire[p]`; `BusStep` does one of them. So every other process may run between
any two stores and between any two bytes. With `WeakOrder` the pending stores of
a process become visible in any order, and the timer may read before its own
clearing of `need_update` is visible; an unlock waits for all of them, as the
release in `mutex_unlock` does. `WeakOrder = FALSE` is the driver on one core
(or on a processor that keeps stores in order and does not let a load overtake
a store).

Data are abstracted to what the properties tell apart: characters are model
values, the glyph table (`Image`), the segment order (`Segno`) and the digit
order (`Grid`) are constants, the dot LEDs of the device tree are (word, bit)
pairs, and a `dotled` request is the sequence of assignments parsed before its
end or before the first garbage. Brightness values are clamped as `_u8_store`
does. An overlay of more than `NWords` words is cut by `OverlayStores`; texts and boot
frames may have any length, too. The digits of `grid_num` and the words of the dot LEDs
are bytes of the device tree that the driver uses as indices without a look at them
(`vfd.c:446`, `vfd.c:507`, `vfd-cc.c:33`). `VfdAssumption` takes them to be digits and
words that exist; with another device tree the driver reads and writes outside of its
arrays, and nothing here speaks of that.

External to `src/` and modelled from its use: the mutex, the timer core (an
expiry after each `mod_timer`), and the PM core, which freezes processes before
`suspend` and thaws them after `resume`.

### VfdLifecycle

The driver core's thread (`bus`) goes through `vfd_probe` and `vfd_remove`,
while the timer and the processes in the sysfs files do what they do.

| Code | Action |
|---|---|
| `vfd_probe`, `kzalloc` | `Probe` |
| `__setup_gpios` to `hardware_init`, arming the timer | `Setup` |
| the loop of `device_create_file`, and `err2` | `CreateFile` |
| `__setup_dotled` | `CountLeds`, `AllocLeds`, `FillLed` |
| `__setup_input` | `CountKeys`, `FillKey`, `AllocateInput`, `RegisterInput` |
| `vfd_remove` | `Remove` |
| `device_remove_file` | `Unlink` (the name goes), `Drain` (running handlers end) |
| `input_free_device`, `kfree` | `FreeInput`, `Kfree` |
| a file's handler | `Open`, then `UserLock`/`UserUnlock`; for `dotled` `NextLed`/`LastLed`, and `UserLock`/`UserUnlock` for each assignment |
| `vfd_timer_sr` | `Fire`, `Scan`, `Scanned`, `Report`, `Rearm`; `FireFreed` on a structure that is gone |

The tables of dot LEDs and keys are a count and the number of entries filled in
so far. `fault` is set by an access to memory that is not there; nothing is
promised after that and the model stops (`Halt`), so the other properties speak
of behaviours up to that point. `MayFail` lets every call of the set-up that
returns an error do so.

One file of the list stands for those whose handlers take the mutex once, the other
is `dotled`, which takes it for each assignment and goes on (`AfterSection`). What a handler does to the display is left to `Vfd`. `Vfd` in turn
starts where the timer has been armed and the files exist, and has no removal.

External: sysfs (a file that is removed waits for its handlers, and cannot be
opened any more), the input core, the device tree.

### DList and EventLoop

`DList` keeps the pointers. A heap has the `next` and `prev` of each node and the
set of nodes that are allocated; `AddAt`, `AddTail`, `Remove`, `Delete` and
`DeleteAll` are the functions of `dlist.c`, as operators from heap to heap. In the
loop a node holds the only reference to its channel or timer, so `dlist_remove`
frees both, and one name stands for both. A freed node points to itself.

| Code | Action |
|---|---|
| `select` in `loop_run`: descriptors ready, an error, the time-out | `SelectReady`, `SelectError`, `SelectTimeout` |
| the test of `run_timers` and its next value | `TestTimers` |
| `dlist_iterator` with `timer_iter_timer_func` | `SkipTimer`, `CallTimer`, `ReturnTimer`, `EndTimers` |
| `dlist_iterator` with `loop_iter_channel_func` | `SkipChannel`, `CallChannel`, `ReturnChannel`, `EndChannels` |
| `loop_channel_add`, `loop_channel_remove_fd`, `loop_channel_remove` | `ChannelAdd`, `ChannelRemoveFd`, `ChannelRemove` |
| `timer_new` with `loop_timer_add`; `timer_update`, `timer_modify`; `loop_timer_remove` | `TimerNew`, `TimerUpdate`, `TimerRemove` |
| `loop_quit`, the end of `loop_run`, `loop_destroy` | `LoopQuit`, `Quit`, `Destroy` |
| `vfdd_construct` | `Init` |

Between the call and the return of a callback any number of the actions of the
fifth and sixth line, and `LoopQuit`, may happen. A callback keeps to what the
comments ask of it: it does not delete its own node but returns a code that has
it removed (`dlist.c:358`), a channel that does so removes its descriptor first,
and only its own (`selloop.c:105`); and two channels have different descriptors.
The daemon itself has one timer and no channels; the model is of what the loop
offers.

Time is relative. `Now` has second 0, and when time passes every timeval moves
back, down to `Past`, before which the age of a deadline makes no difference.
`timeradd`, `timercmp` and the fields that `timer_update` fills are kept as they
are. A callback takes up to `LoopTimeout` (`Elapsed`), and so does a `select` that
does not time out. `TestTimers` sets `run_timers` before the timers run and not
after it; it is the same value, and nothing reads it in between.

`waiting` is not in the code: the channels that `select` reported and that the
pass has not called yet.

External: `select`, the clock, and the arithmetic of `<sys/time.h>`.

### Keys and Cutdown

A bitmap of keys is the set of its bits. `KeyData` is the chip: which bits of which
byte the pressed switches set. `HardwareKeys` is what `hardware_keys` makes of the
bytes, for the FD620 and for the other chips (`Fd620`). `BitOf` is the order that the
comments promise.

| Code | Action |
|---|---|
| `overlay_store` | `Call`, `Enter`, `CopyWord` for each word, `AskUpdate` |
| `enable_store`, `brightness_store`, `brightness_suspend_store` | `Call`, `Enter`, `SetField`, `Leave`; the second section: `Apply`, `LeaveApply` |
| `vfd_timer_sr` | `Fire`, `Check`, `Clear`; `Stray` on a structure that is gone |
| `vfd_scan_keys` | `ReadKeys`, `Compare`, `ReportBit` for each changed bit, `Sync` |
| `hardware_update_display` and `mod_timer` | `SkipWord`, `SendWord`, `Close` |
| `vfd_probe` | `Probe`, `CreateFile` |
| `__setup_input` | `CountKeys`, `FillKey`, `AllocInput`, `DeclareKeys`, `Register` |
| `vfd_remove`, `err2` and `err1` | `Remove`, `RemoveFile`, `Release` |
| suspend, resume, shutdown | `PowerCommon`, `LeavePower` |

A transfer is one step here; its bytes are the business of `Vfd`. `clash` records
that an update, which has no lock, and a control transfer overlapped; nothing is
said of the chip from then on (the run `contention` shows what becomes of it). The
linux_vfd driver has the same key scan, line by line, so `Keys` and the actions of
the scan speak for both.

`Toggle` is somebody at the keypad. `missed` holds the keys whose event came after
`vfd->input` was set and before the key was declared: the input core drops it, and
`keystate` has taken the new state, so the key is not reported until it changes
again. That window, three statements long (`vfd.c:345-352`), is the only exception
in `KeysAgree` and `KeysFinallyReported`. Two switches with one key code would
overwrite each other's state by design; `KeysAssumption` excludes them.

External: sysfs, the PM core, the input core, the key matrix, the mutex.

### DBuf, Json and Vfdd

`DBuf` keeps the storage: a function on the indices the allocation has, so that a
write past it is an error of the model and a missing terminator is visible. What
new storage holds is `Junk`.

`Json` turns the recursive descent of `json_root_parse_value` into a state machine:
`at` is the function that reads, `frames` the arrays and objects that are open. A
unit of the text is a character, or a group that is always read as a whole (a
literal, an escape, a word). The text is chosen unit by unit when the reader asks
for it, so that a run covers every text, each of its beginnings included.

| Code | Operator or action |
|---|---|
| `json_root_parse_value` | `ReadUnit`, `ReadLiteral`, `Unexpected` |
| `json_root_skip_ws`, the end of the text | `SkipSpace`, `TextEnds` |
| `json_root_parse_number` | `NumberBegins`, `NumberGoesOn`, `NumberEnds`, `BadNumber` |
| `json_root_parse_string`, `json_root_check_utf` | `StringBegins`, `StringGoesOn`, `StringEnds`, `BadString` |
| `json_root_parse_array` | `OpenArray`, `FirstElement`, `NextElement`, `Close` |
| `json_root_parse_object` | `OpenObject`, `FirstKey`, `NextKey`, `KeyBegins`, `KeyEnds`, `ReadColon`, `Close` |
| `json_root_update_path`, reuse of a node | `Join`, `PathPop`, `ValueDone` |
| `jsonpath_construct`, `json_node_find` | `Tokens`, `Recursive`, `Search` |
| `strtod`; `json_node_get_val_int`; `json_root_print_number` | `Strtod`, `OutOfRange`; `Truncated`; `PrintNumber` |
| `json_root_print_value` and below | `Printed` |

A number is kept as a sign, digits and the place of the point, so that any run of the
characters `0`-`9`, `-`, `+`, `.`, `e`, `E` can be read as the code reads it: it takes
all of them into the buffer and gives it to `strtod`, which uses as much as is a number;
what is left over is no error, because the code compares the end `strtod` reports with a
position in another buffer (`jsonroot.c:165`). Only a number out of the range of a double
is one. The powers at which that happens are those of `LeastPower` and `MostPower`; at the
very ends the digits would matter, too. Beyond 15 digits a double rounds, and a number
beyond the range of an `int` has no defined conversion; `Truncated` is exact, so a
configuration's integers are taken to fit. A number that is not whole is printed with six
digits behind the point or with an exponent: that text is one unit, `PointText`, which is
no text the reader could have read; so `[1.]` comes back as `[1]` and `[1.1]` as something
else than what was there. `Plain` says which texts are printed as they were.

`Search` has the odd ways of `json_node_find`: a token that has matched stays matched
when the search goes on below, a `*` asks for a recursive search, and the node that
is returned may be that of a longer path. `odd` remembers that a key was not a name
in that sense; `reused` that a member was found again; `loose` that the text had
something the tree does not keep: blanks, escapes, and numbers that are not `Plain`.
Each excuses one property, and only for that text.

`Vfdd` runs `Read` as its first part. A handler call is an entry of `handlers`, the
last of which runs; the main thread moves when there is none.

| Code | Action |
|---|---|
| `mdbuf_new`, `vfdd_read_conf` | `MapConf`, `ReadConf`, `ReadReturns`, `PrintTree`, `ReadDisplay`, `ReadDotleds`, `FreeTree` |
| `vfdd_construct`, `vfddmain_process` | `Construct`, `Publish`, `Start` |
| `vfdd_timer_cb` | `Tick`, `Display`/`DisplayDup`, `DotLed`, `UpdateDisplay`, `OpenOverlay`, `WriteWord`, `Leave` |
| `sigmain_handler` | `CheckFlag`, `SetFlag`, `IgnorePipe`, `Destroy`, `HandlerExit` |
| delivery of a signal, a fault | `Deliver`, `Fault` |

What the code does and one may not expect: the string getter returns `u.ptr`
whatever the type of the node, so a number is a wild pointer (`jsonnode.c:107`); with
`-d` the update looks into a table that is never allocated (`vfdd.c:259`); the search
for a glyph counts bytes and not entries, so a character without one is looked for
beyond the table (`vfdd.c:234`); the word is stored over whatever the LEDs have put on
grids 0 to 3; an LED is lit by the function of its `driver` while the colon callback
goes to the one that is *named* colon; `exit` in a handler writes out what the main
thread had put in the buffer of the overlay file. Numbers of the configuration may
be negative or too large for what they are used as: a negative `grid_num` asks for 4 GB
and makes `memset` fault at the first tick (`Tick`), a `grid_map` that is no word of the
display sets bits elsewhere or faults (`wild`, `Light`), and a bit beyond the word is
lost or, beyond the `int`, whatever the machine's shift makes of it (`Shifted`). All of
it is in the model.

`debug` is `prog_debug`, set by `-d` and by `-dm`; with `-dm 1` the tree is printed, too.
A display function without a format faults in `strftime`, while `snprintf`, for the
temperature, returns an error.

External: signals, the buffer of a `FILE`, `malloc`, `strtod`, the contents of files.

## Runs

| Run | Question | Instance | Result |
|---|---|---|---|
| `content` | With two writers of text, overlay and dot LEDs against the timer and the boot animation: is an update lost, does the chip's RAM match `raw_display`, does an LED assignment touch other bits, is the whole a `Mirror`? | 3 words, 2 digits, 2 callers | holds |
| `control` | After any overlap of `enable`, `brightness`, `brightness_suspend` and power calls, is the control register the one the settings ask for? | 1 word, 2 callers, key scan | holds |
| `progress` | Do calls return, except in the deadlock of the handler with an owner it interrupted, and is what was written shown in the end? | 1 word, 2 callers, key scan, boot animation | holds |
| `contention` | The RAM against `raw_display` when a brightness call overlaps an update | 2 words, 2 callers | violated |
| `lifecycle` | Whatever fails in a probe and whenever the device is removed: do handlers find their device, are the files gone at the end, is the key table ready for the timer, does removal end (with the same exception)? | 2 files, 2 users, 4 device trees | holds |
| `removal` | Is anything used after it is freed? | as above, no failures | violated |
| `leds` | Do the dot LED handlers stay inside their table? | as above, no failures | violated |
| `loop` | While callbacks change the lists: do iterations stay in their list, is each ready channel called, does the descriptor set follow the list, do the lists keep their order, are timers served? | 2 channels, 2 timers, 2 descriptors | holds |
| `early` | Does a timer wait for its time? | 1 timer, ticks of 250 ms | violated |
| `vfdd` | From any text to the words of the overlay, with signals: is the tree what was read, is nothing leaked, is the buffer a string, does the overlay show the word, is the daemon destroyed once, does the program end? | texts up to 8 units and the beginnings of 21 longer ones, 3 signals | holds |
| `cutdown` | Probe to remove with a timer that runs all the time: is an overlay lost, does the input device follow the keys, is the key table ready, is the control register current? | 2 words, 2 callers, 2 switches, 4 table entries, FD620 | holds |
| `keys` | Does a scan have the documented order? | 4 switches of the other chips | violated |

### Bounds, and why they are enough

Three words are the fewest in which an update sends a run of adjacent words,
skips one, and has to terminate a transfer before a new address: `{0, 2}`
changed and `1` not. With two digits for three words there is a word no digit
uses, and the digits are in the opposite order of the words. The texts are
shorter than the display and the boot frame is longer, so padding and cutting
both happen, and the shorter text has to erase what the boot frame left. The
overlay and the two LEDs of one call meet in the same word, in different bits.

Two callers are enough for every conflict between two critical sections and the
timer; a third could only wait. No counter in the model is unbounded; the boot
animation counts down, requests are drawn again and again without a limit.

The settings take off, on, a level within range, one that `_u8_store` clamps,
and a night level, with the whole power cycle.

In the lifecycle, two files give a partial creation and an order of removal;
the second user can hold the mutex that the first, whom `Drain` waits for,
needs. The device trees have no dot LEDs (the count is a negative error code),
two with their bits and two whose bits are missing, with and without keys; two
entries leave a table half filled. A device may be probed and removed again and
again.

In `loop` a callback of one channel or timer can remove the one before or behind
it in the list, or remove and add it again, the only other node or the last
included; with two of each, either may be first. A descriptor may be closed and
used again within one pass. A second has two ticks, so that a deadline and the
clock fall in the same second or in different ones; time-out, durations and
`timer_interval` are a tick. `early` has the daemon's own numbers, in ticks of
250 ms: `loop_timeout` 1, `timer_interval` and the timer 2.

In `loop` a timer's function does not return `DLIST_ITER_STOP`
(`MCTimerReturns`): a timer that does so is not set anew, stays due, and stops
every iteration before the timers behind it. The proofs allow it.

In `vfdd` the free texts are made of brackets, separators, quotes, a letter, the
path separator, which is also the point of a number, and a digit. Eight units are enough
for a key that occurs twice, an array in an object, a key with a separator in it, a
fraction, and every way a bracket can fail to match. The longer texts are configurations:
one like that which comes with the program, LEDs on a grid of the word and on one that is
not there, too few grids or a negative number of them, no digits, no format, a number in
the place of a string, numbers with signs, points and exponents, bits beyond the word and
the `int`, LEDs without a display, and texts with repeated keys, stars, blanks, escapes
and numbers of every kind, out of range included. Each is also cut off after every
unit. The buffer starts with one byte (1024 in the code), so that it grows at every
power of two. Three signals are enough for a handler in a handler in a handler; none
comes before `ud->vfdd` is set and while the configuration is being read, where the
destructor has nothing to destroy but the strings.

In `cutdown` one scan code has two entries, another has none that is ever pressed.
Two calls and two switch movements, at any time from before the probe until after the
removal, let a call meet the update, another call and a power callback, and a key
go down and up between two scans or across the set-up of the input device.

### Fairness

The timer handler is a softirq callback (`timer_setup`, `vfd.c:597`) that calls
`mutex_lock` (`vfd.c:331`, `vfd.c:81`). One that interrupts the owner of the mutex on
the owner's processor cannot be put to sleep; neither of the two goes on. One that runs
on another processor may find the mutex free later on. The models have both: in a state
in which the handler is before the mutex and a caller owns it (`Stuck`) either may move
and neither has to. So

* the handler has weak fairness only: it goes on, and takes the mutex when it is free
  and stays free, but nothing hands it over;
* a caller that owns the mutex has weak fairness only while the state is not `Stuck`;
* strong fairness is for the callers alone: they are threads, and the kernel's mutex
  hands itself to its waiters in turn;
* `Fire` is fair since every expiry ends in `mod_timer`.

Calls themselves have no fairness, nobody has to write.

`CallsReturn` excepts the behaviours that end in `Stuck` for ever, which are the
deadlock of hazard 9, and no others: in all the rest every call returns, although the
handler and the other callers want the mutex, too. `EventuallyShown` speaks of behaviours
in which the callers stop, so that the mutex is free. As an invariant or action property
is checked over all interleavings, what a handler that deadlocks never gets to do is in
the runs as well; that makes those properties stronger than they need to be.

In `VfdLifecycle` the thread that probes or removes and the armed timer have weak
fairness, the processes weak fairness outside of `Stuck`, and strong fairness among
themselves for the mutex; `RemovalEnds` has the same exception as `CallsReturn`. A
process that writes to `dotled` for ever is not the removal's concern: `Drain` waits
only for what is in the file, and the walk through the table ends. Nothing makes a
device appear or go, or a process open a file.

`EventLoop` has no fairness. `TimersServed` has a hypothesis instead,
`KeepsTimingOut`: again and again `select` times out, and the loop gets back to
`select`. The first is not for the code to guarantee, since timers run only after
a time-out (`selloop.c:177`) and a channel that stays readable keeps it from
coming; the second says that callbacks return and that they do not add timers
for ever.

In `Cutdown` the armed timer fires and its handler goes on, with the mutex when that is
free. Nobody needs to call, press or probe, or to go on; `KeysFinallyReported` supposes
that from some time on the handler does not have to wait (`~ Stuck`).

In `Vfdd` the process is run, on either stack, until it ends. `Fairness` says so without
ENABLED: `Main \/ Handler` happens again and again unless the process has ended. As long
as it has not, one of them is enabled; were it not, TLC would report a deadlock
(`Stopped` and `Deliver`, the only other actions, need the end and a signal left).

### Findings

1. `contention`: `vfd_timer_sr` (`vfd.c:396`) calls `hardware_update_display`
   without the mutex, which `vfd-priv.h:76` calls "the global device lock". A
   brightness command that a sysfs write sends between two bytes of an update
   ends that transfer: bytes are lost or land elsewhere, and as `raw_display`
   has the word already, it is not sent again. This is also why
   `ChipHoldsRawDisplay` and `MirrorsContent` are checked in `content`, whose
   callers do not use the bus themselves.
2. `removal`: `vfd_remove`, which says it unregisters everything (`vfd.c:644`),
   and the error path of `vfd_probe` free the structure with the timer in it
   still armed; nothing ever deletes that timer. The next expiry runs on freed
   memory.
3. `leds`: `num_dotleds`, the "number of elements in the dotleds array"
   (`vfd-priv.h:141`), is assigned (`vfd.c:485`) before the array is allocated,
   when the files are visible already; if the bits do not match the names it
   stays so for good, with no array.
4. `early`: `timer_update` adds microseconds without a carry (`timerms.c:82`), and
   `timercmp` looks at the seconds first. A timer of 500 ms, the "time to wait
   milisecs before next callback" (`vfdd.h:37`), that is set in the second half
   of a second is called when the next second begins. `timeradd` carries, so
   only the first callback after a timer is set is early.
5. `keys`: the mask for the second key of a pair is a decimal 18 (`pt6964.c:150`, in both
   drivers) where the bits are 3 and 4. K2 of an odd KS also sets the bit of K1 of the
   next, and K1 of an even KS sets none. `vfd-priv.h:131` and the comment at
   `hardware_keys` give the order that was meant. The FD620 variant is right.

Two more are known and have no run: the timer handler takes a mutex in interrupt
context at every expiry (`vfd.c:331`, `vfd.c:81`) and deadlocks when it has interrupted
the owner (the exception of `CallsReturn`; no comment of the code promises anything that
a run could refute), and on a processor that lets loads
overtake stores the clearing of `need_update` (`vfd.c:395`) can take effect after a
later handler has set it, so that the update is lost (`MCVfd` with
`WeakOrder = TRUE` has such behaviours, see also the proof of `NoUpdateLost`).

## Proofs

Assumptions: `Pt6964Assumption` (1 to 7 words) and `VfdAssumption` (the digits and dot
LEDs of the device tree are words that exist, which the driver does not check, the segment
order maps to bits of a word, the requests are well formed). Nothing bounds the number of
callers or requests or the length of texts, overlays and boot animation.

`TypeCorrect`, `Spec => []TypeOK`: given such a device tree, and whatever the lengths, no
store leaves its array. `TypeOK` is not inductive: that the word
indices of the update stay in range, for instance, depends on the step the timer
is in. `TypeInv` adds `Control`, which ties a process' place in the code to the
request it serves.

`NoUpdateLost`, `~ WeakOrder => (Spec => []NoLostUpdate)`. The invariant
`UpdateInv` says that, at any time,

* `Pending`: a handler that has stores of text or overlay left ends them with
  setting the flag, and
* either an update has been asked for or is about to be (`Asked`), or each word
  is `Fresh`: the driver has sent it as it should be now, or the local copy has
  it so, or the loop has not come to it yet, in whichever of the three loops the
  timer is.

A store can only happen with `Asked` true or about to be true; when `Asked`
turns false, at `Check`, all loops are still to come, so every word is fresh;
each loop step keeps the words fresh that it handles. At the end all words are
sent. Without the order of the flag's clearing (`WeakOrder`) the step at `Check`
fails: the update can be lost.

`LedIsolated`, `Spec => LedOwnsItsBit`, for weak order too. `LedOwnsItsBit` is an
action property: it needs `Exclusion` (a process with stores to do is the owner
of the mutex) to know that the word a dot LED store was computed from is still
the one in memory, `LedInv`.

`ChipProofs` assumes `ContentOnly`: the calls store text, overlay, dot LEDs or the night
brightness, and there are no keys to be scanned, so that the timer handler is the only
one on the bus. With other transfers in between the two theorems are false (finding 1).

`ChipFollows`, `ContentOnly => (Spec => []ChipHoldsRawDisplay)`. While a transfer is under
way the chip does not hold what `raw_display` says, so the invariant is about every rest
of one. `Sending` numbers the seven operations that send a word to a chip that was at
rest (a word after another starts with the third of them, an adjacent one with the
sixth) and says what the chip has to be ready for after each: command or data, write
mode, the address, the byte that has arrived. `Clearing` does the same for the
`2 * NWords + 12` operations of `hardware_init`. `ChipInv` says that outside of an update
STB is high and the chip holds all words, and that in one it holds all but `pofs`, which
is `Sending`. A step of the bus is then one lemma for each kind of operation. That an
adjacent word needs no address of its own rests on `Receiving(chip, 2 * pofs + 2)`, the
address the chip is left with.

`MirrorImplemented`, `ContentOnly /\ ~ WeakOrder => (Spec => MirrorsContent)`, the
refinement. What is sent is what is wanted (`NoUpdateLost`) and the chip holds what was
sent (`ChipFollows`), so a clean copy equals its source; and while it is clean nothing
moves: the bus is idle, and a pending store of content would have a request for an
update behind it.

`ControlFollows`, `ControlOnly => (Spec => []ControlIsCurrent)`, where `ControlOnly` says that
the calls are settings and power callbacks and that there is no boot animation: then
nothing is displayed, and the handlers that drive the bus, key scans included, all do so
under the mutex. Of what is left of a transfer, `Keeps` says that no operation in it can
set the register, and `Programs` that its end sets it to a given byte (one of these holds
for every rest of `ReadKeys`, `HardwareInit` and `UpdateBrightness`). `BusInv` leaves at most one
handler on the bus, `CallInv` ties the power callbacks to the state of the machine, and
`LevelInv` says that the register is the one that is wanted unless some call that has
stored a setting has not sent it yet, and that what a section is sending is what is wanted
now, though it was computed before.

`LifecycleProofs` assumes `LifecycleAssumption` (at least one file; `dotled` is
one of them) and nothing of the number of files, processes, LEDs and keys.

`HandlersSafe`: `Spec => [](HandlersFindDevice /\ UnboundHasNoFiles)`. The
invariant, `FilesInv`, says that before the files are created and after they are
removed there is none and no process is in one, and that while they are removed,
from the last to the first, only the files up to the loop index are left, for
the names and for the processes alike (the one being drained has lost its name
already). The loop ends with the first file, so at `free` no process is left.
`FilesGone` is the second half on its own.

`KeysComplete`: `Spec => []KeysReady`. The timer scans only when there is an
input device, and `KeysInv` says that there is one only in stages that come
after the last `FillKey`.

`EventLoopProofs` assumes `EventLoopAssumption`: channels, timers and the heads of
the two lists are different nodes, descriptors are natural numbers, a second has
at least one tick. The numbers of channels and timers may be infinite.

`IterationSafe`: `Spec => []NodeAlive`. The lists are pointers, so the invariant
`ListInv` is about pointers. `Ring`: among the allocated nodes `next` and `prev` are
inverse and do not leave the list. `Ranked`: some function on the nodes grows
along `next` until a head is reached. Rings alone would allow a second ring with
no head in it, and a node that follows itself: `dlist_iterator`, which reads
`next` before it frees the node, would then go on to the node it has just freed.
Each operation of the list keeps both (`AddTailLinked`, `RemoveLinked`), with a
rank built from the old one; no induction over the list is needed.

`SelectWatchesChannels`: `Spec => []WatchesChannels`. `FdInv` adds that channels in
the list have different descriptors, so that taking one away leaves the others'
in the set, and that only the channel being called may have none.

`NoneIsPassedOver`: `Spec => []PassComplete`. That a channel is reached needs the order of
the list: `WaitInv` says that there is a rank that grows along `next` over the listed
channels and by which every channel that is ready and has not been called is at the node
the iterator stands at, or behind it. The rank is not a variable; each operation of the
list is shown to keep every rank (a removal) or to extend it at the end (an addition),
and `MovesOn` that the iterator's next node is the first one behind.

`OrderIsKept`: `Spec => ListsAreQueues`. `ListsAreQueues` speaks of what `Listed`, a
recursive function along `next`, returns. `Order(h, head, s)` says the same without
recursion: `s` has no node twice, begins behind `head`, each element follows the one
before, and the last is followed by `head`. `ListedIs` is that such an `s`, which is
not longer than the nodes that are allocated, is what `Listed` computes. That there is
one for each list is the invariant, `QueueInv`. Each operation of the list is one lemma:
`OrderGrows` (an addition appends to its list), `OrderShrinks` (a removal takes one
element out) and, for the other list, `OrderBesideAdded` and `OrderBesideRemoved`.

`TypeCorrect`: `Spec => []TypeOK`, which contains the ranges of the timeval fields:
less than a second of microseconds after `timeradd`, less than two after
`timer_update`.

`CutdownProofs` assumes `KeysAssumption` (no key code twice) and `CutdownAssumption`
(well-formed requests, at least one word). Nothing bounds callers, words, switches
or the table.

`SetUpOrder`: `SetUpInv` says how far `files`, `num_keys`, `filled` and `input` can have come
at each step of the platform bus, and that a scan needs an input device;
`TableBeforeScan`, `Spec => []KeysReady`, is a consequence.

`OverlayShown`, `Spec => []NoLostOverlay`. As for the core, but the loop compares with
`raw_overlay` itself: unless an update is asked for or about to be, the words below
`idx` are sent already.

`KeysReported`, `Spec => []KeysAgree`. While bits are being reported the input device
follows `keys` for the bits that are done and `keystate` for those in `diff`; since
every code is in the table once, an event for one switch does not touch another's.

`ControlFollows`, `Spec => []ControlIsCurrent`: the register is current, or a call that
has changed a field has its second section to come, or a power callback is in its
section.

`Fd620KeyOrder`, `Fd620 => (Spec => KeyOrder)`: for every set of pressed switches.

`Induction` has what the proofs about the reader and the lists rest on. The library's
induction theorems take a predicate as a parameter, which the provers cannot fill in;
here the predicate is a set (`InductUpTo`, `RankedInduction`). A function `f[x \in D] ==
... f ...` stands for a CHOOSE, so that it satisfies its own equation has to be shown:
`Recursion` does so for the naturals and `RankedRecursion` for the nodes of a tree, given
that the value at `x` looks at no other than smaller ones (`Computes`, `LooksBelow`).

`JsonProofs` and `VfddProofs` assume `DBufAssumption` (every size asked for has a least
power that is not below it), `JsonAssumption` and `VfddAssumption`: any units, texts, first
size of the buffer, word, signals, any depth of nesting.

`ReaderInv` is the invariant of the reader, for as long as the daemon reads; it has
four parts. `TextInv`: the position is in the text, and the buffer is a terminated
string in its storage that is no longer than the units read, which is what bounds the
sizes that are asked for. `ShapeInv`: the nodes are numbered as they were allocated, a
member has a higher number than the node it is a member of, and every number but the
root's is a member of some node, except that of the node whose key is being read. It
is what makes the nodes a tree to be searched, printed and reached by recursion on
their numbers. `NamedInv`: unless a key was no name, the path has one name for each
open member (`InPlace`), each of them a member of the node before, and names among the
members of a node differ. A new member keeps this because its name was not found
(`PathLeads`, `NamedIsInPlace`), which needs that the search follows the path, node by
node, for as long as the names are there. `WrittenInv`: unless a name was found or
something was read that is not printed, the text that was read is the printed form of
what there is of the tree; see below.

`ScratchIsString`, `Spec => []ScratchWellFormed`: of `TextInv`. One lemma for each writer
says that it leaves a buffer a buffer, `RoomIsMade` that the test it grows by is enough.

`NoNodeIsLost`, `Spec => []NodesInTree`: of `ShapeInv`, by induction on the distance from
the root; it holds for keys that occur twice and for keys that are no names.

`MembersStayInPlace`, `Spec => []MembersInPlace`: of `NamedInv`.

`TextIsPrintedBack`, `Spec => []PrintsWhatItRead`. Printing is recursive, and while the
text is read the tree is not complete: of an open array or object some members are
there, of the last one perhaps the name only. `Written` says where everything stands in
the text: `b` and `e` map a node to the positions where its text begins and ends,
`C` is the set of the nodes that are complete. A complete node is `Whole`: a scalar
stands there as it is printed, and an array or object has its brackets, and its
members, all in `C`, between them, each behind the end of the one before (`After`) with
the comma and the name (`Lead`) between the two. The open nodes are a `Stack`: each is `Inside` up to
the member that the next one is. What has been read of the innermost value or name
is `Taken`, in one of four places: `ValueRead`, `MembersRead`, `NameRead` and, at the
end, `AllRead`. Each action is one lemma that says how the place moves; `StackPushed` and
`StackPopped` are a value that begins and one that ends. `TreeStands`, by induction on
the number of a node, from the last to the first, is that what is printed of a complete
node stands where `b` and `e` say. For the root that is all of the text (`RootStands`). The
text puts the comma before each member but the first, the printer behind
each but the last, which it knows by counting down: `MembersAreRow` is that the two
are the same. `PlainPrints` is that a `Plain` number, one of up to 15 digits without a
leading zero and with at most a minus before it, is printed as it was read; it rests on
`NumberPrints`, that the decimal of a number is the digits it is the value of. Of other
numbers nothing is claimed: the property excepts texts that have one, by `loose`.

`WordIsShown`, `Spec => []OverlayShowsWord`. `OverlayInv` says what the words of the
display hold at each step of the tick: blank or an LED's bit before, and after
`UpdateDisplay` the word on the first grids, from the last character to the first;
that an LED's bit comes from a callback that was lit, and that one which has to be lit
is; and that what has been written is a beginning of the words. The property supposes four
grids and LEDs on a grid that exists, which the daemon does not check.

`NoSignalIsDropped`, `Spec => []SignalsHeard`, and `NothingAfterDestroy`,
`Spec => DestroyedIsOver`. `HandlerInv` describes the stack: the flag is set exactly when
some call is between `SetFlag` and the end of its handling (`Busy`), a call that
interrupted such a one is still at its test of the flag, and nothing is destroyed
without a call that has reached `exit`. A second call that had tested the flag before
the first set it would break this; it cannot, since an interrupted call does not move
while the inner one runs, and the inner one returns with the flag as it found it, or
never.

Only model-checked: liveness (`EventuallyShown`, `CallsReturn`, `RemovalEnds`,
`TimersServed`, `KeysFinallyReported`, `EventuallyEnds`), which is beyond the proof
system. Every invariant and action property that a run checks has its theorem, under the
assumptions named above.

## Not modelled

* In the event loop: `width` and `max_width` (exceeding the latter is only logged),
  the setters of the two intervals, which nothing calls, a clock that is set
  back. Of the lists: `dlist_add` with a comparison, dequeueing, and data with
  more than one reference.
* The daemon's timer callback inside `EventLoop`: it calls `exit` (`vfdd.c:316`); the loop
  is modelled for callbacks that return, and `Vfdd` for the one that does not.
* Of the daemon: the command line but for the word, the colon and the debug mask; the
  texts that `strftime` makes, which nothing shows; a signal while the configuration
  is read; `daemon()`. Of the printer: its blanks and line ends.
* Of the buffers and the tree: functions that nothing in the daemon calls
  (`dbuf_get_line`, `dbuf_copy`, `dbuf_unput_char` and others, `json_root_add_*`,
  `json_root_set_item_*`, `json_root_parse_str`). Of numbers: the rounding of a double
  beyond 15 digits, the text of a fraction, integers that do not fit an `int`. Of the
  printer: its compact form, which nothing asks for (`vfdd.c:147`). Of the literals:
  the `strncmp` that may look a few bytes beyond the end of the map (`jsonroot.c:441`).
* In the signal handler: locks of `malloc` and `stdio` that the interrupted thread may
  hold; what the handler calls always completes.
* In the cut-down driver: `last_scancode` and `last_keycode`, which only `key_show` reads;
  a failing `kmalloc` of the table; a second probe after a removal.
* In the lifecycle: a failing `kzalloc` of the structure (probe returns before
  there is any state) and of the tables; early suspend, which current
  kernels do not have; the tables, which no path frees; the difference between
  freeing and unregistering a registered input device. The stores of probe
  become visible in program order.
* The common-anode renderer: the same role as the common-cathode one with a
  transposed table; `Rendered` is the latter.
* The directions and delays of the pins, the FD620 differences apart from the
  keys: they are below the level of bus operations.
* Reading the sysfs files: the `_show` functions change nothing.
* Character-level parsing in `overlay_store` and `dotled_store`: a request is
  what the parser returns.

## Plan

Done: the driver core, its lifecycle, the event loop, the cut-down driver with the
keypad, the daemon with its reader and signals; proofs for each. What is left, in the
order of what matters:

1. The composition of `Vfdd` with `Cutdown`: the words of the overlay arrive on the chip.
2. The common-anode renderer; `dlist_add` with a comparison, should it get a caller.
