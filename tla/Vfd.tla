--------------------------------- MODULE Vfd ---------------------------------
(***************************************************************************)
(* The kernel driver vfdmod/linux_vfd: the sysfs handlers, the power       *)
(* callbacks and the 100 ms timer around one struct vfd_t, and the chip on *)
(* the other end of the bus.                                               *)
(*                                                                         *)
(* Callers (processes in a sysfs write, the PM core) and the timer handler *)
(* run concurrently.  A step is one store to the shared structure, one     *)
(* load of it, one acquisition or release of vfd->lock, or one operation   *)
(* on the bus, so a handler may be anywhere when another one runs.         *)
(*                                                                         *)
(* The stores of a handler wait in stores[p] and what it has to clock out  *)
(* waits in wire[p]; StoreStep and BusStep make them happen one at a time. *)
(* The processor may let the stores of one handler become visible in any   *)
(* order and let later loads overtake them, except across the operations   *)
(* of the mutex: WeakOrder says whether it does (ARM with several cores)   *)
(* or not (one core, where the timer interrupts the other handlers).       *)
(***************************************************************************)
EXTENDS Pt6964, FiniteSets

CONSTANTS
  Callers,     \* processes that call the sysfs handlers and power callbacks
  Requests,    \* the calls they make
  DisplayLen,  \* display_len: glyphs on the indicator
  Grid,        \* grid_num, or 0, 1, 2... when the device tree gives none
  Segno,       \* segment_no or PLATFORM_SEGNO: segment -> bit of the word
  Chars,       \* characters a display text may hold
  NullChar,    \* the character 0 the text is padded with
  Image,       \* vfd_glyphs: character -> segments, for those it lists
  BootText,    \* boot_anim[]: the frames of the boot animation
  HasInput,    \* keys are described in the device tree (vfd->input # NULL)
  WeakOrder

Timer == "timer"
NoOne == "no one"
Procs == Callers \cup {Timer}

Cells == 0 .. DisplayLen - 1

\* vfd->brightness_max: 1 + BRIGHTNESS_MAX; vfd->brightness at startup.
MaxBrightness  == 8
InitBrightness == 4
Settings == {"enabled", "brightness", "brightness_suspend"}
Limit(f) == IF f = "enabled" THEN 1 ELSE MaxBrightness

\* What a caller asks for.  A dotled text is the sequence of the assignments
\* that precede its end or the first garbage in it.
LedAssignment == [word : Words, bit : 0 .. 15, on : BOOLEAN]
Request ==
  [op : {"display"}, text : Seq(Chars)]
    \cup [op : {"overlay"}, words : Seq(Word)]
    \cup [op : {"dotled"}, leds : Seq(LedAssignment) \ {<<>>}]
    \cup [op : Settings, val : Nat]
    \cup [op : {"power"}, callback : {"suspend", "resume", "shutdown"}]
NoRequest == [op |-> "none"]

\* The device tree gives the words of Grid and of the LEDs as bytes and the
\* driver uses them as indices unchecked (vfd.c:446, 507, vfd-cc.c:33): that
\* they lie in the display is assumed of the device tree.
ASSUME VfdAssumption ==
  /\ {Timer, NoOne} \cap Callers = {}
  /\ Requests \subseteq Request
  /\ DisplayLen \in 0 .. NWords
  /\ Grid \in [Cells -> Words]
  /\ Segno \in [0 .. 6 -> 0 .. 15]
  /\ NullChar \in Chars
  /\ DOMAIN Image \subseteq Chars \ {NullChar}
  /\ \A c \in DOMAIN Image : Image[c] \subseteq 0 .. 6
  /\ BootText \in Seq(Seq(Chars))
  /\ HasInput \in BOOLEAN
  /\ WeakOrder \in BOOLEAN

VARIABLES
  lock,         \* owner of vfd->lock
  pc, req,      \* where each handler is; the call each caller makes
  stores,       \* stores each handler has issued that are not visible yet
  wire,         \* bus operations each handler has yet to drive
  chip,
  display, raw_overlay, raw_display, need_update, boot_anim,
  settings,     \* enabled, brightness, brightness_suspend
  suspended,
  power,        \* what the PM core did with the machine
  raw, idx, pofs  \* locals of hardware_update_display

shared == <<display, raw_overlay, need_update, settings>>
local  == <<raw, idx, pofs>>
vars == <<lock, pc, req, stores, wire, chip, shared, raw_display, boot_anim,
          suspended, power, local>>

-----------------------------------------------------------------------------
(* Stores to struct vfd_t.                                                 *)

DisplayStore(i, ch) == [loc |-> "display", at |-> i, ch |-> ch]
OverlayStore(i, w)  == [loc |-> "raw_overlay", at |-> i, word |-> w]
SettingStore(f, v)  == [loc |-> f, val |-> v]
SetNeedUpdate   == [loc |-> "need_update", val |-> 1]
ClearNeedUpdate == [loc |-> "need_update", val |-> 0]

Store ==
  [loc : {"display"}, at : Words, ch : Chars]
    \cup [loc : {"raw_overlay"}, at : Words, word : Word]
    \cup [loc : {"enabled"}, val : 0 .. 1]
    \cup [loc : {"brightness", "brightness_suspend"}, val : 0 .. MaxBrightness]
    \cup [loc : {"need_update"}, val : 0 .. 1]

\* _display_store: pad the rest, copy the text, ask for an update.
DisplayStores(text) ==
  LET n == IF Len(text) > DisplayLen THEN DisplayLen ELSE Len(text)
  IN  [k \in 1 .. DisplayLen - n |-> DisplayStore(n + k - 1, NullChar)]
        \o [k \in 1 .. n |-> DisplayStore(k - 1, text[k])]
        \o <<SetNeedUpdate>>

\* Seeded fault: the handler does not ask for an update.
OverlayStoresSilent(words) ==
  LET n == IF Len(words) > NWords THEN NWords ELSE Len(words)
  IN  [k \in 1 .. n |-> OverlayStore(k - 1, words[k])]

\* overlay_store: as many words as the overlay has, those after them are
\* dropped.
OverlayStores(words) ==
  LET n == IF Len(words) > NWords THEN NWords ELSE Len(words)
  IN  [k \in 1 .. n |-> OverlayStore(k - 1, words[k])] \o <<SetNeedUpdate>>

\* Seeded fault: the handler does not ask for an update.
LedStoresSilent(led) ==
  LET old == raw_overlay[led.word]
  IN  <<OverlayStore(led.word, IF led.on THEN old \cup {led.bit} ELSE old \ {led.bit})>>

\* dotled_store, one assignment: a read-modify-write of one word.
LedStores(led) ==
  LET old == raw_overlay[led.word]
  IN  <<OverlayStore(led.word, IF led.on THEN old \cup {led.bit} ELSE old \ {led.bit}),
        SetNeedUpdate>>

\* What the call stores in its critical section; _u8_store clamps the value.
SectionStores(r) ==
  CASE r.op = "display" -> DisplayStores(r.text)
    [] r.op = "overlay" -> OverlayStores(r.words)
    [] r.op = "dotled"  -> LedStores(Head(r.leds))
    [] OTHER -> <<SettingStore(r.op, IF r.val > Limit(r.op) THEN Limit(r.op) ELSE r.val)>>

\* The k-th of the pending stores may be the next one to become visible.
MayCommit(k) == k = 1 \/ WeakOrder

Without(s, k) == [j \in 1 .. Len(s) - 1 |-> IF j < k THEN s[j] ELSE s[j + 1]]

Commit(s) ==
  /\ display'     = IF s.loc = "display" THEN [display EXCEPT ![s.at] = s.ch] ELSE display
  /\ raw_overlay' = IF s.loc = "raw_overlay" THEN [raw_overlay EXCEPT ![s.at] = s.word]
                                             ELSE raw_overlay
  /\ need_update' = IF s.loc = "need_update" THEN s.val ELSE need_update
  /\ settings'    = IF s.loc \in Settings THEN [settings EXCEPT ![s.loc] = s.val]
                                              ELSE settings

StoreStep(p) ==
  /\ \E k \in 1 .. Len(stores[p]) :
       /\ MayCommit(k)
       /\ Commit(stores[p][k])
       /\ stores' = [stores EXCEPT ![p] = Without(stores[p], k)]
  /\ UNCHANGED <<lock, pc, req, wire, chip, raw_display, boot_anim, suspended, power, local>>

BusStep(p) ==
  /\ wire[p] # <<>>
  /\ chip' = ChipStep(chip, Head(wire[p]))
  /\ wire' = [wire EXCEPT ![p] = Tail(wire[p])]
  /\ UNCHANGED <<lock, pc, req, stores, shared, raw_display, boot_anim, suspended, power, local>>

\* Seeded faults: a handler that does not wait for the lock, or keeps it.
LockIgnored(p) == lock' = p
UnlockForgotten(p) == stores[p] = <<>> /\ wire[p] = <<>> /\ UNCHANGED lock

\* mutex_lock, mutex_unlock; an unlock waits for the stores and the transfer.
Lock(p) == lock = NoOne /\ lock' = p

Unlock(p) ==
  /\ stores[p] = <<>>
  /\ wire[p] = <<>>
  /\ lock' = NoOne

Goto(p, label) == pc' = [pc EXCEPT ![p] = label]

-----------------------------------------------------------------------------
(* hardware_update_brightness, hardware_suspend.                           *)

Brightness(susp) ==
  IF settings["enabled"] = 0 THEN 0
  ELSE IF susp = 1 THEN settings["brightness_suspend"]
  ELSE settings["brightness"]

-----------------------------------------------------------------------------
(* The callers.                                                            *)

\* The sysfs files exist once vfd_probe has initialised the chip.  A process
\* is frozen from the suspend callback to the end of the resume callback.
CallStore(c, r) ==
  /\ pc[Timer] # "probe"
  /\ pc[c] = "idle"
  /\ r.op # "power"
  /\ power # "asleep"
  /\ req' = [req EXCEPT ![c] = r]
  /\ Goto(c, "enter")
  /\ UNCHANGED <<lock, stores, wire, chip, shared, raw_display, boot_anim, suspended, power, local>>

\* The PM core: suspend finds every process frozen outside the driver, resume
\* ends a suspend, and shutdown comes at any time, once.
MayCall(callback) ==
  CASE callback = "suspend"  -> power = "on" /\ \A c \in Callers : pc[c] = "idle"
    [] callback = "resume"   -> power = "asleep" /\ \A c \in Callers : pc[c] = "idle"
    [] callback = "shutdown" -> power = "on" /\ \A c \in Callers : req[c].op # "power"

CallPower(c, r) ==
  /\ pc[Timer] # "probe"
  /\ pc[c] = "idle"
  /\ r.op = "power"
  /\ MayCall(r.callback)
  /\ power' = CASE r.callback = "shutdown" -> "down" [] OTHER -> "asleep"
  /\ req' = [req EXCEPT ![c] = r]
  /\ Goto(c, "apply")
  /\ UNCHANGED <<lock, stores, wire, chip, shared, raw_display, boot_anim, suspended, local>>

Enter(c) ==
  /\ pc[c] = "enter"
  /\ Lock(c)
  /\ stores' = [stores EXCEPT ![c] = SectionStores(req[c])]
  /\ Goto(c, "inside")
  /\ UNCHANGED <<req, wire, chip, shared, raw_display, boot_anim, suspended, power, local>>

\* After the section: enable_store and brightness_store lock again to update
\* the chip, dotled_store goes on with the next assignment, the rest return.
Leave(c) ==
  /\ pc[c] = "inside"
  /\ Unlock(c)
  /\ \/ /\ req[c].op \in {"enabled", "brightness"}
        /\ Goto(c, "apply")
        /\ UNCHANGED req
     \/ /\ req[c].op = "dotled"
        /\ Len(req[c].leds) > 1
        /\ Goto(c, "enter")
        /\ req' = [req EXCEPT ![c].leds = Tail(req[c].leds)]
     \/ /\ req[c].op \in {"display", "overlay", "brightness_suspend"}
           \/ (req[c].op = "dotled" /\ Len(req[c].leds) = 1)
        /\ Goto(c, "idle")
        /\ req' = [req EXCEPT ![c] = NoRequest]
  /\ UNCHANGED <<stores, wire, chip, shared, raw_display, boot_anim, suspended, power, local>>

\* Seeded fault: the chip is updated after the unlock, not under a second lock.
EnterApplyUnlocked(c) ==
  /\ pc[c] = "apply"
  /\ suspended' = IF req[c].op # "power" THEN suspended
                  ELSE IF req[c].callback = "resume" THEN 0 ELSE 1
  /\ wire' = [wire EXCEPT ![c] = UpdateBrightness(Brightness(suspended'))]
  /\ Goto(c, "applying")
  /\ UNCHANGED <<lock, req, stores, chip, shared, raw_display, boot_anim, power, local>>

\* The section that drives the chip: enable_store, brightness_store and
\* vfd_power_common (whose hardware_suspend sets suspended first).
EnterApply(c) ==
  /\ pc[c] = "apply"
  /\ Lock(c)
  /\ suspended' = IF req[c].op # "power" THEN suspended
                  ELSE IF req[c].callback = "resume" THEN 0 ELSE 1
  /\ wire' = [wire EXCEPT ![c] = UpdateBrightness(Brightness(suspended'))]
  /\ Goto(c, "applying")
  /\ UNCHANGED <<req, stores, chip, shared, raw_display, boot_anim, power, local>>

LeaveApply(c) ==
  /\ pc[c] = "applying"
  /\ Unlock(c)
  /\ power' = IF req[c].op = "power" /\ req[c].callback = "resume" THEN "on" ELSE power
  /\ Goto(c, "idle")
  /\ req' = [req EXCEPT ![c] = NoRequest]
  /\ UNCHANGED <<stores, wire, chip, shared, raw_display, boot_anim, suspended, local>>

Caller(c) ==
  \/ \E r \in Requests : CallStore(c, r) \/ CallPower(c, r)
  \/ Enter(c) \/ Leave(c) \/ EnterApply(c) \/ LeaveApply(c)

-----------------------------------------------------------------------------
(* The timer handler, vfd_timer_sr.                                        *)

AfterScan == IF boot_anim > 0 THEN "boot" ELSE "check"

\* vfd_probe has initialised the chip and armed the timer.
Armed ==
  /\ pc[Timer] = "probe"
  /\ wire[Timer] = <<>>
  /\ Goto(Timer, "wait")
  /\ UNCHANGED <<lock, req, stores, wire, chip, shared, raw_display, boot_anim, suspended, power, local>>

Fire ==
  /\ pc[Timer] = "wait"
  /\ Goto(Timer, IF HasInput THEN "scan" ELSE AfterScan)
  /\ UNCHANGED <<lock, req, stores, wire, chip, shared, raw_display, boot_anim, suspended, power, local>>

\* vfd_scan_keys reads the key matrix under the lock.
ScanEnter ==
  /\ pc[Timer] = "scan"
  /\ Lock(Timer)
  /\ wire' = [wire EXCEPT ![Timer] = ReadKeys]
  /\ Goto(Timer, "scanning")
  /\ UNCHANGED <<req, stores, chip, shared, raw_display, boot_anim, suspended, power, local>>

ScanLeave ==
  /\ pc[Timer] = "scanning"
  /\ Unlock(Timer)
  /\ Goto(Timer, AfterScan)
  /\ UNCHANGED <<req, stores, wire, chip, shared, raw_display, boot_anim, suspended, power, local>>

\* One frame of the boot animation, last frame first.
BootEnter ==
  /\ pc[Timer] = "boot"
  /\ Lock(Timer)
  /\ boot_anim' = boot_anim - 1
  /\ stores' = [stores EXCEPT ![Timer] = DisplayStores(BootText[boot_anim])]
  /\ Goto(Timer, "booting")
  /\ UNCHANGED <<req, wire, chip, shared, raw_display, suspended, power, local>>

BootLeave ==
  /\ pc[Timer] = "booting"
  /\ Unlock(Timer)
  /\ Goto(Timer, "check")
  /\ UNCHANGED <<req, stores, wire, chip, shared, raw_display, boot_anim, suspended, power, local>>

Check ==
  /\ pc[Timer] = "check"
  /\ \/ /\ need_update = 1
        /\ stores' = [stores EXCEPT ![Timer] = <<ClearNeedUpdate>>]
        /\ Goto(Timer, "render")
     \/ /\ need_update = 0
        /\ Goto(Timer, "wait")
        /\ UNCHANGED stores
  /\ UNCHANGED <<lock, req, wire, chip, shared, raw_display, boot_anim, suspended, power, local>>

-----------------------------------------------------------------------------
(* hardware_update_display, which the handler calls without the lock.      *)

\* vfd_init_glyphs_cc: the segments of a glyph as bits of a word; a character
\* outside the table shows as a space.
CellCode(ch) == IF ch \in DOMAIN Image THEN {Segno[j] : j \in Image[ch]} ELSE {}

\* vfd_display_to_raw_cc, one word.
Rendered(i) == IF i < DisplayLen THEN CellCode(display[Grid[i]]) ELSE {}

\* Seeded fault: the loop runs once more than there are words.
LoopTooLong(label, next) ==
  IF idx = NWords THEN idx' = 0 /\ Goto(Timer, next)
                  ELSE idx' = idx + 1 /\ Goto(Timer, label)

\* A loop over the words: the next index, or the next loop.
Loop(label, next) ==
  IF idx + 1 = NWords THEN idx' = 0 /\ Goto(Timer, next)
                      ELSE idx' = idx + 1 /\ Goto(Timer, label)

InOrder == WeakOrder \/ stores[Timer] = <<>>

Render ==
  /\ pc[Timer] = "render"
  /\ InOrder
  /\ raw' = [raw EXCEPT ![idx] = Rendered(idx)]
  /\ Loop("render", "merge")
  /\ UNCHANGED <<lock, req, stores, wire, chip, shared, raw_display, boot_anim, suspended, power, pofs>>

Merge ==
  /\ pc[Timer] = "merge"
  /\ raw' = [raw EXCEPT ![idx] = raw[idx] \cup raw_overlay[idx]]
  /\ Loop("merge", "send")
  /\ UNCHANGED <<lock, req, stores, wire, chip, shared, raw_display, boot_anim, suspended, power, pofs>>

\* A word that is what the chip was last sent is skipped.
SkipWord ==
  /\ pc[Timer] = "send"
  /\ wire[Timer] = <<>>
  /\ raw[idx] = raw_display[idx]
  /\ Loop("send", "close")
  /\ UNCHANGED <<lock, req, stores, wire, chip, shared, raw_display, boot_anim, suspended, power, raw, pofs>>

ChangeWord ==
  /\ pc[Timer] = "send"
  /\ wire[Timer] = <<>>
  /\ raw[idx] # raw_display[idx]
  /\ raw_display' = [raw_display EXCEPT ![idx] = raw[idx]]
  /\ wire' = [wire EXCEPT ![Timer] = SendWord(pofs, idx, raw[idx])]
  /\ pofs' = idx
  /\ Loop("send", "close")
  /\ UNCHANGED <<lock, req, stores, chip, shared, boot_anim, suspended, power, raw>>

Close ==
  /\ pc[Timer] = "close"
  /\ wire[Timer] = <<>>
  /\ wire' = [wire EXCEPT ![Timer] = EndUpdate(pofs)]
  /\ Goto(Timer, "rearm")
  /\ UNCHANGED <<lock, req, stores, chip, shared, raw_display, boot_anim, suspended, power, local>>

\* mod_timer; the locals of the update are gone.
Blank == [i \in Words |-> {}]

\* Seeded fault: the flag is cleared when the update is done.
RearmClears ==
  /\ pc[Timer] = "rearm"
  /\ wire[Timer] = <<>>
  /\ stores[Timer] = <<>>
  /\ need_update' = 0
  /\ raw' = Blank /\ idx' = 0 /\ pofs' = NoOffset
  /\ Goto(Timer, "wait")
  /\ UNCHANGED <<lock, req, stores, wire, chip, display, raw_overlay, settings, raw_display,
                 boot_anim, suspended, power>>

Rearm ==
  /\ pc[Timer] = "rearm"
  /\ wire[Timer] = <<>>
  /\ stores[Timer] = <<>>
  /\ raw' = Blank /\ idx' = 0 /\ pofs' = NoOffset
  /\ Goto(Timer, "wait")
  /\ UNCHANGED <<lock, req, stores, wire, chip, shared, raw_display, boot_anim, suspended, power>>

Handler ==
  \/ Armed \/ Fire \/ ScanEnter \/ ScanLeave \/ BootEnter \/ BootLeave \/ Check
  \/ Render \/ Merge \/ SkipWord \/ ChangeWord \/ Close \/ Rearm

-----------------------------------------------------------------------------
\* vfd_probe up to timer_setup: a zeroed structure, the chip being initialised.
Init ==
  /\ lock = NoOne
  /\ pc = [p \in Procs |-> IF p = Timer THEN "probe" ELSE "idle"]
  /\ req = [c \in Callers |-> NoRequest]
  /\ stores = [p \in Procs |-> <<>>]
  /\ wire = [p \in Procs |-> IF p = Timer THEN HardwareInit(InitBrightness) ELSE <<>>]
  /\ chip = PowerOn
  /\ display = [i \in Words |-> NullChar]
  /\ raw_overlay = Blank
  /\ raw_display = Blank
  /\ need_update = 0
  /\ boot_anim = Len(BootText)
  /\ settings = [f \in Settings |-> CASE f = "enabled" -> 1
                                       [] f = "brightness" -> InitBrightness
                                       [] f = "brightness_suspend" -> 0]
  /\ suspended = 0
  /\ power = "on"
  /\ raw = Blank
  /\ idx = 0
  /\ pofs = NoOffset

Next ==
  \/ Handler
  \/ \E c \in Callers : Caller(c)
  \/ \E p \in Procs : StoreStep(p) \/ BusStep(p)

Spec == Init /\ [][Next]_vars

\* The handler is a timer callback and runs in interrupt context (timer_setup,
\* vfd.c:597), yet it calls mutex_lock: the handler that interrupts the owner
\* of the mutex cannot be put to sleep, and the owner does not go on under it.
\* In such a state both may stand still for ever, if the handler runs on the
\* owner's processor, or go on, if it runs on another one.
Stuck ==
  /\ pc[Timer] \in {"scan", "boot"}
  /\ lock \in Callers
  /\ pc[lock] \in {"inside", "applying"}

\* The timer fires again and again and a handler that has begun goes on,
\* except that nothing is promised where it waits for the mutex of a caller:
\* neither that the caller goes on nor that the mutex is handed to the
\* handler.  The mutex is handed over among callers, which are processes.
Fairness ==
  /\ WF_vars(Armed \/ Fire \/ ScanEnter \/ ScanLeave \/ BootEnter \/ BootLeave \/ Check
               \/ Render \/ Merge \/ SkipWord \/ ChangeWord \/ Close \/ Rearm)
  /\ WF_vars(StoreStep(Timer)) /\ WF_vars(BusStep(Timer))
  /\ \A c \in Callers :
       /\ WF_vars(~ Stuck /\ StoreStep(c)) /\ WF_vars(~ Stuck /\ BusStep(c))
       /\ WF_vars(~ Stuck /\ (Leave(c) \/ LeaveApply(c)))
       /\ SF_vars(Enter(c)) /\ SF_vars(EnterApply(c))

FairSpec == Spec /\ Fairness

-----------------------------------------------------------------------------
(* Correctness.                                                            *)

Labels == {"idle", "enter", "inside", "apply", "applying"}
TimerLabels == {"probe", "wait", "scan", "scanning", "boot", "booting", "check",
                "render", "merge", "send", "close", "rearm"}

\* The type invariant.
TypeOK ==
  /\ lock \in Procs \cup {NoOne}
  /\ pc \in [Procs -> Labels \cup TimerLabels]
  /\ pc[Timer] \in TimerLabels /\ \A c \in Callers : pc[c] \in Labels
  /\ req \in [Callers -> Request \cup {NoRequest}]
  /\ stores \in [Procs -> Seq(Store)]
  /\ wire \in [Procs -> Seq(BusOp)]
  /\ chip \in Chip
  /\ display \in [Words -> Chars]
  /\ raw_overlay \in [Words -> Word]
  /\ raw_display \in [Words -> Word]
  /\ need_update \in 0 .. 1
  /\ boot_anim \in 0 .. Len(BootText)
  /\ settings \in [Settings -> 0 .. MaxBrightness] /\ settings["enabled"] \in 0 .. 1
  /\ suspended \in 0 .. 1
  /\ power \in {"on", "asleep", "down"}
  /\ raw \in [Words -> Word]
  /\ idx \in Words
  /\ pofs \in Words \cup {NoOffset}

\* The word the chip should show at i now.
Want(i) == Rendered(i) \cup raw_overlay[i]

\* An update is due, about to be asked for, or under way.
AboutToAsk == \E p \in Procs : \E k \in 1 .. Len(stores[p]) : stores[p][k] = SetNeedUpdate
Updating == pc[Timer] \in {"render", "merge", "send", "close", "rearm"}
Dirty == need_update = 1 \/ AboutToAsk \/ Updating

\* No store to the text or the overlay is lost: when no update is due or
\* under way, every word the driver has sent is the word the structure asks
\* for, wherever the timer was when the stores were made.
NoLostUpdate == ~ Dirty => \A i \in Words : raw_display[i] = Want(i)

BusIdle == \A p \in Procs : wire[p] = <<>>

\* The delta written by hardware_update_display leaves the chip with exactly
\* the words the driver remembers in raw_display.
ChipHoldsRawDisplay ==
  BusIdle /\ pc[Timer] # "probe" => \A i \in Words : RamWord(chip, i) = raw_display[i]

\* An assignment to one dot LED changes that LED and no other bit of the
\* overlay, whoever else writes the overlay meanwhile.
LedOwnsItsBit ==
  [][\A c \in Callers :
       StoreStep(c) /\ req[c].op = "dotled" =>
         LET led == Head(req[c].leds)
         IN  \A i \in Words, b \in 0 .. 15 :
               (b \in raw_overlay'[i]) # (b \in raw_overlay[i]) =>
                 i = led.word /\ b = led.bit]_vars

\* The driver as a mirror of the text and the overlay in the chip's RAM.
ShownByChip == INSTANCE Mirror
  WITH Places <- Words, Values <- Word,
       source <- [i \in Words |-> Want(i)],
       copy   <- [i \in Words |-> RamWord(chip, i)],
       dirty  <- Dirty \/ pc[Timer] = "probe" \/ ~ BusIdle

\* The chip shows what the structure asks for except while an update is due
\* or under way, and nothing is stored or sent outside of that time.
MirrorsContent == ShownByChip!Spec

\* If the callers stop, the chip ends up showing what they wrote.
EventuallyShown ==
  (<>[](\A c \in Callers : pc[c] = "idle"))
    => <>[](\A i \in Words : RamWord(chip, i) = Want(i))

\* The calls that change what hardware_update_brightness computes.
SettingBrightness ==
  \E c \in Callers : pc[c] # "idle" /\ req[c].op \in {"enabled", "brightness", "power"}

\* When no such call is under way, the display control register is the one
\* the settings ask for, in whatever order the stores and the updates of
\* concurrent calls were made.  (After a shutdown nothing is promised.)
ControlIsCurrent ==
  BusIdle /\ pc[Timer] # "probe" /\ ~ SettingBrightness /\ power # "down" =>
    LET bri == Brightness(suspended)
    IN  chip.control = (IF bri = 0 THEN CmdDisplayControl(0, 0)
                                     ELSE CmdDisplayControl(1, bri - 1))

\* Every call returns, unless the handler ends up waiting for ever for a mutex
\* whose owner it may have interrupted: that deadlock is the only one, and the
\* other callers and the transfers of the timer keep the mutex from nobody.
CallsReturn ==
  <>[]Stuck \/ \A c \in Callers : (pc[c] # "idle") ~> (pc[c] = "idle")
=============================================================================
