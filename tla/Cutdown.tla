------------------------------- MODULE Cutdown -------------------------------
(***************************************************************************)
(* The cut-down kernel driver vfdmod/vfdmod: an overlay the timer copies   *)
(* to the chip, the settings, the keypad, and vfd_probe and vfd_remove.    *)
(*                                                                         *)
(* Unlike its sibling it arms the timer before the sysfs files and the     *)
(* input device exist, so the handler runs all through the set-up.         *)
(*                                                                         *)
(* Callers (processes in a sysfs write), the platform bus (probe, remove   *)
(* and the power callbacks) and the timer handler take turns at single     *)
(* stores, loads, mutex operations and transfers.  A transfer is one step  *)
(* and says what the chip gets; that two of them overlapped is recorded in *)
(* clash, and nothing is known of the chip from then on.                   *)
(***************************************************************************)
EXTENDS Keys

CONSTANTS
  Callers,
  Requests,   \* the calls they make
  NWords,     \* RAW_DISPLAY_WORDS
  WordValues, \* what a word of the overlay may hold
  Blank,      \* the word 0
  Switches,   \* the switches somebody presses
  MaxCalls, MaxToggles  \* bounds: calls made, switches pressed or released

Timer    == "timer"
Platform == "platform"
NoOne    == "no one"
Procs    == Callers \cup {Timer, Platform}

Words == 0 .. NWords - 1

\* 1 + PLATFORM_BRIGHTNESS and 1 + BRIGHTNESS_MAX.
InitBrightness == 4
MaxBrightness  == 8

Settings == {"enable", "brightness", "brightness_suspend"}
Limit(f) == IF f = "enable" THEN 1 ELSE MaxBrightness

\* all_attrs, in the order the files are created, without those one only reads.
Files == <<"overlay", "enable", "brightness", "brightness_suspend">>

Request ==
  [file : {"overlay"}, words : {s \in Seq(WordValues) : Len(s) <= NWords}]
    \cup [file : Settings, val : Nat]
NoRequest == [file |-> "none"]

ASSUME CutdownAssumption ==
  /\ {Timer, Platform, NoOne} \cap Callers = {}
  /\ Requests \subseteq Request
  /\ NWords \in Nat \ {0}
  /\ Blank \in WordValues
  /\ Switches \subseteq Switch
  /\ MaxCalls \in Nat /\ MaxToggles \in Nat

VARIABLES
  lock,         \* owner of vfd->lock
  pc,
  req,          \* the call each caller makes
  alive,        \* the structure is allocated
  files,        \* how many of Files exist
  raw_overlay, raw_display, need_update, settings, suspended,
  power,        \* what the PM core did with the machine
  chip, clash,
  copied,       \* words overlay_store has copied, while it holds the lock
  idx, open,    \* hardware_update_display: its index; a transfer is open
  num_keys,     \* entries of the key table
  filled,       \* how many of them __setup_input has filled
  input,        \* vfd->input, and how far it is set up
  calls, toggles,  \* made so far
  down,         \* the switches that are pressed
  keystate,     \* vfd->keystate
  keys, diff, emit,  \* locals of vfd_scan_keys
  held,         \* the input device: the keys that are down
  unsynced,     \* it holds events its readers have not seen
  missed        \* keys whose last event it was not ready to take

content == <<raw_overlay, raw_display, need_update, copied, idx, open>>
control == <<settings, suspended, power>>
device  == <<alive, files, num_keys, filled, input>>
scan    == <<keystate, keys, diff, emit, held, unsynced, missed>>
outside  == <<calls, toggles, down>>
vars == <<lock, pc, req, content, control, device, chip, clash, outside, scan>>

Lock(p)   == lock = NoOne /\ lock' = p
Unlock(p) == lock = p /\ lock' = NoOne
Goto(p, label) == pc' = [pc EXCEPT ![p] = label]

-----------------------------------------------------------------------------
(* The display control register.                                           *)

\* hardware_update_brightness: 0 is off, n is on with pulse width n - 1.
Brightness(susp) ==
  IF settings["enable"] = 0 THEN 0
  ELSE IF susp = 1 THEN settings["brightness_suspend"] ELSE settings["brightness"]

\* Seeded fault: the level of the settings, whether suspended or not.
SendControlAwake(susp) ==
  /\ chip' = [chip EXCEPT !.control = Brightness(0)]
  /\ clash' = (clash \/ open)

SendControl(susp) ==
  /\ chip' = [chip EXCEPT !.control = Brightness(susp)]
  /\ clash' = (clash \/ open)

Driving(p) == pc[p] \in {"applying", "powering"}

-----------------------------------------------------------------------------
(* The callers.                                                            *)

Created(file) == \E i \in 1 .. files : Files[i] = file

\* A process is frozen from the suspend callback to the end of resume.
Call(c, r) ==
  /\ pc[c] = "idle"
  /\ calls < MaxCalls
  /\ calls' = calls + 1
  /\ Created(r.file)
  /\ power # "asleep"
  /\ req' = [req EXCEPT ![c] = r]
  /\ Goto(c, "enter")
  /\ UNCHANGED <<lock, content, control, device, chip, clash, toggles, down, scan>>

Enter(c) ==
  /\ pc[c] = "enter"
  /\ Lock(c)
  /\ Goto(c, "inside")
  /\ UNCHANGED <<req, content, control, device, chip, clash, outside, scan>>

\* overlay_store: memcpy, a word at a time, then need_update.
CopyWord(c) ==
  /\ pc[c] = "inside"
  /\ req[c].file = "overlay"
  /\ copied < Len(req[c].words)
  /\ raw_overlay' = [raw_overlay EXCEPT ![copied] = req[c].words[copied + 1]]
  /\ copied' = copied + 1
  /\ UNCHANGED <<lock, pc, req, raw_display, need_update, idx, open, control, device,
                 chip, clash, outside, scan>>

AskUpdate(c) ==
  /\ pc[c] = "inside"
  /\ req[c].file = "overlay"
  /\ copied = Len(req[c].words)
  /\ need_update' = 1
  /\ copied' = 0
  /\ Goto(c, "leave")
  /\ UNCHANGED <<lock, req, raw_overlay, raw_display, idx, open, control, device, chip,
                 clash, outside, scan>>

\* Seeded fault: the value is stored as it comes.
SetFieldAny(c) ==
  /\ pc[c] = "inside"
  /\ req[c].file \in Settings
  /\ settings' = [settings EXCEPT ![req[c].file] = req[c].val]
  /\ Goto(c, "leave")
  /\ UNCHANGED <<lock, req, content, suspended, power, device, chip, clash, outside, scan>>

\* _u8_store.
SetField(c) ==
  /\ pc[c] = "inside"
  /\ req[c].file \in Settings
  /\ LET f == req[c].file
     IN  settings' = [settings EXCEPT ![f] = IF req[c].val > Limit(f) THEN Limit(f)
                                                                      ELSE req[c].val]
  /\ Goto(c, "leave")
  /\ UNCHANGED <<lock, req, content, suspended, power, device, chip, clash, outside, scan>>

\* enable_store and brightness_store go on to update the chip.
Leave(c) ==
  /\ pc[c] = "leave"
  /\ Unlock(c)
  /\ \/ /\ req[c].file \in {"enable", "brightness"}
        /\ Goto(c, "apply")
        /\ UNCHANGED req
     \/ /\ req[c].file \notin {"enable", "brightness"}
        /\ Goto(c, "idle")
        /\ req' = [req EXCEPT ![c] = NoRequest]
  /\ UNCHANGED <<content, control, device, chip, clash, outside, scan>>

Apply(c) ==
  /\ pc[c] = "apply"
  /\ Lock(c)
  /\ SendControl(suspended)
  /\ Goto(c, "applying")
  /\ UNCHANGED <<req, content, control, device, outside, scan>>

LeaveApply(c) ==
  /\ pc[c] = "applying"
  /\ Unlock(c)
  /\ Goto(c, "idle")
  /\ req' = [req EXCEPT ![c] = NoRequest]
  /\ UNCHANGED <<content, control, device, chip, clash, outside, scan>>

Caller(c) ==
  \/ \E r \in Requests : Call(c, r)
  \/ Enter(c) \/ CopyWord(c) \/ AskUpdate(c) \/ SetField(c) \/ Leave(c)
  \/ Apply(c) \/ LeaveApply(c)

-----------------------------------------------------------------------------
(* The timer handler, vfd_timer_sr.  It runs on a freed structure if it is *)
(* still armed when that goes; what it does then is undefined (Stray).     *)

Scanning == {"scanned", "report"}

Fire ==
  /\ pc[Timer] = "wait"
  /\ alive
  /\ Goto(Timer, IF input # "none" THEN "scan" ELSE "check")
  /\ UNCHANGED <<lock, req, content, control, device, chip, clash, outside, scan>>

\* vfd_scan_keys: the key data is read under the lock.
ReadKeys ==
  /\ pc[Timer] = "scan"
  /\ alive
  /\ Lock(Timer)
  /\ keys' = HardwareKeys(down)
  /\ Goto(Timer, "scanned")
  /\ UNCHANGED <<req, content, control, device, chip, clash, outside,
                 keystate, diff, emit, held, unsynced, missed>>

Compare ==
  /\ pc[Timer] = "scanned"
  /\ alive
  /\ Unlock(Timer)
  /\ diff' = Changed(keys, keystate)
  /\ Goto(Timer, "report")
  /\ UNCHANGED <<req, content, control, device, chip, clash, outside,
                 keystate, keys, emit, held, unsynced, missed>>

\* One changed bit, the lowest first.  The input core drops an event whose
\* code has not been declared yet, as it drops one that changes nothing.
ReportBit ==
  /\ pc[Timer] = "report"
  /\ alive
  /\ \E sc \in diff :
       /\ \A other \in diff : sc <= other
       /\ LET codes == CodesOf(sc)
               heard == input # "allocated"
           IN  /\ held' = IF ~ heard THEN held
                          ELSE IF sc \in keys THEN held \cup codes ELSE held \ codes
               /\ missed' = IF heard THEN missed \ codes ELSE missed \cup codes
               /\ unsynced' = (unsynced \/ held' # held)
               /\ emit' = (emit \/ codes # {})
               /\ diff' = diff \ {sc}
  /\ UNCHANGED <<lock, pc, req, content, control, device, chip, clash, outside, keystate, keys>>

\* Seeded fault: the state the scan started from is kept.
SyncKeepsState ==
  /\ pc[Timer] = "report"
  /\ alive
  /\ diff = {}
  /\ unsynced' = (unsynced /\ ~ emit)
  /\ keys' = {} /\ emit' = FALSE
  /\ Goto(Timer, "check")
  /\ UNCHANGED <<lock, req, content, control, device, chip, clash, outside,
                 keystate, diff, held, missed>>

\* input_sync if there was an event; the locals of the scan are gone.
Sync ==
  /\ pc[Timer] = "report"
  /\ alive
  /\ diff = {}
  /\ unsynced' = (unsynced /\ ~ emit)
  /\ keystate' = keys
  /\ keys' = {} /\ emit' = FALSE
  /\ Goto(Timer, "check")
  /\ UNCHANGED <<lock, req, content, control, device, chip, clash, outside,
                 diff, held, missed>>

\* Seeded fault: without an update the handler returns before mod_timer.
CheckReturns ==
  /\ pc[Timer] = "check"
  /\ alive
  /\ Goto(Timer, IF need_update = 1 THEN "clear" ELSE "off")
  /\ UNCHANGED <<lock, req, content, control, device, chip, clash, outside, scan>>

Check ==
  /\ pc[Timer] = "check"
  /\ alive
  /\ Goto(Timer, IF need_update = 1 THEN "clear" ELSE "wait")
  /\ UNCHANGED <<lock, req, content, control, device, chip, clash, outside, scan>>

Clear ==
  /\ pc[Timer] = "clear"
  /\ alive
  /\ need_update' = 0
  /\ Goto(Timer, "send")
  /\ UNCHANGED <<lock, req, raw_overlay, raw_display, copied, idx, open, control, device,
                 chip, clash, outside, scan>>

\* hardware_update_display, without the lock: a word that is what the chip
\* was last sent is skipped.
SkipWord ==
  /\ pc[Timer] = "send"
  /\ alive
  /\ idx < NWords
  /\ raw_overlay[idx] = raw_display[idx]
  /\ idx' = idx + 1
  /\ UNCHANGED <<lock, pc, req, raw_overlay, raw_display, need_update, copied, open,
                 control, device, chip, clash, outside, scan>>

SendWord ==
  /\ pc[Timer] = "send"
  /\ alive
  /\ idx < NWords
  /\ raw_overlay[idx] # raw_display[idx]
  /\ raw_display' = [raw_display EXCEPT ![idx] = raw_overlay[idx]]
  /\ chip' = [chip EXCEPT !.ram[idx] = raw_overlay[idx]]
  /\ clash' = (clash \/ \E p \in Procs : Driving(p))
  /\ open' = TRUE
  /\ idx' = idx + 1
  /\ UNCHANGED <<lock, pc, req, raw_overlay, need_update, copied, control, device, outside, scan>>

\* Seeded fault: the flag is cleared when the update is done.
CloseClears ==
  /\ pc[Timer] = "send"
  /\ alive
  /\ idx = NWords
  /\ idx' = 0 /\ open' = FALSE
  /\ need_update' = 0
  /\ Goto(Timer, "wait")
  /\ UNCHANGED <<lock, req, raw_overlay, raw_display, copied, control, device,
                 chip, clash, outside, scan>>

\* The transfer ends, and mod_timer.
Close ==
  /\ pc[Timer] = "send"
  /\ alive
  /\ idx = NWords
  /\ idx' = 0 /\ open' = FALSE
  /\ Goto(Timer, "wait")
  /\ UNCHANGED <<lock, req, raw_overlay, raw_display, need_update, copied, control, device,
                 chip, clash, outside, scan>>

Stray ==
  /\ ~ alive
  /\ pc[Timer] # "off"
  /\ Goto(Timer, "undefined")
  /\ UNCHANGED <<lock, req, content, control, device, chip, clash, outside, scan>>

Handler ==
  \/ Fire \/ ReadKeys \/ Compare \/ ReportBit \/ Sync \/ Check \/ Clear
  \/ SkipWord \/ SendWord \/ Close \/ Stray

-----------------------------------------------------------------------------
(* The platform bus: vfd_probe, vfd_remove, vfd_power_common.              *)

\* The structure is zeroed and hardware_init clears the chip; a probe that
\* finds no GPIOs leaves nothing behind.
Probe ==
  /\ pc[Platform] = "unbound"
  /\ alive' = TRUE
  /\ chip' = [ram |-> [i \in Words |-> Blank], control |-> InitBrightness]
  /\ pc' = [pc EXCEPT ![Platform] = "files", ![Timer] = "wait"]
  /\ UNCHANGED <<lock, req, content, control, files, num_keys, filled, input, clash, outside, scan>>

CreateFile ==
  /\ pc[Platform] = "files"
  /\ files < Len(Files)
  /\ \/ files' = files + 1 /\ UNCHANGED pc
     \/ Goto(Platform, "undo") /\ UNCHANGED files
  /\ UNCHANGED <<lock, req, content, control, alive, num_keys, filled, input, chip, clash,
                 outside, scan>>

\* __setup_input: the size of the table, its entries, the input device, what
\* it may report, its registration.
CountKeys ==
  /\ pc[Platform] = "files"
  /\ files = Len(Files)
  /\ num_keys' = Len(Table)
  /\ Goto(Platform, IF Table = <<>> THEN "bound" ELSE "fill")
  /\ UNCHANGED <<lock, req, content, control, alive, files, filled, input, chip, clash, outside, scan>>

FillKey ==
  /\ pc[Platform] = "fill"
  /\ filled < num_keys
  /\ filled' = filled + 1
  /\ UNCHANGED <<lock, pc, req, content, control, alive, files, num_keys, input, chip, clash,
                 outside, scan>>

\* Seeded fault: the input device comes before the table is complete.
AllocInputEarly ==
  /\ pc[Platform] = "fill"
  /\ input = "none"
  /\ input' = "allocated"
  /\ Goto(Platform, IF filled = num_keys THEN "declare" ELSE "fill")
  /\ UNCHANGED <<lock, req, content, control, alive, files, num_keys, filled, chip, clash,
                 outside, scan>>

AllocInput ==
  /\ pc[Platform] = "fill"
  /\ filled = num_keys
  /\ \/ input' = "allocated" /\ Goto(Platform, "declare")
     \/ Goto(Platform, "undo") /\ UNCHANGED input
  /\ UNCHANGED <<lock, req, content, control, alive, files, num_keys, filled, chip, clash,
                 outside, scan>>

DeclareKeys ==
  /\ pc[Platform] = "declare"
  /\ input' = "declared"
  /\ Goto(Platform, "register")
  /\ UNCHANGED <<lock, req, content, control, alive, files, num_keys, filled, chip, clash,
                 outside, scan>>

Register ==
  /\ pc[Platform] = "register"
  /\ \/ input' = "registered" /\ Goto(Platform, "bound")
     \/ Goto(Platform, "undo") /\ UNCHANGED input
  /\ UNCHANGED <<lock, req, content, control, alive, files, num_keys, filled, chip, clash,
                 outside, scan>>

\* Suspend finds every process frozen outside the driver, resume ends a
\* suspend, and shutdown comes at any time, once.
MayCall(callback) ==
  CASE callback = "suspend"  -> power = "on" /\ \A c \in Callers : pc[c] = "idle"
    [] callback = "resume"   -> power = "asleep"
    [] callback = "shutdown" -> power = "on"

\* hardware_suspend, under the lock.
PowerCommon(callback) ==
  /\ pc[Platform] = "bound"
  /\ MayCall(callback)
  /\ Lock(Platform)
  /\ suspended' = IF callback = "resume" THEN 0 ELSE 1
  /\ power' = IF callback = "shutdown" THEN "down" ELSE "asleep"
  /\ SendControl(suspended')
  /\ Goto(Platform, IF callback = "resume" THEN "resuming" ELSE "powering")
  /\ UNCHANGED <<req, content, settings, device, outside, scan>>

LeavePower ==
  /\ pc[Platform] \in {"powering", "resuming"}
  /\ Unlock(Platform)
  /\ power' = IF pc[Platform] = "resuming" THEN "on" ELSE power
  /\ Goto(Platform, "bound")
  /\ UNCHANGED <<req, content, settings, suspended, device, chip, clash, outside, scan>>

Remove ==
  /\ pc[Platform] = "bound"
  /\ power = "on"
  /\ Goto(Platform, "undo")
  /\ UNCHANGED <<lock, req, content, control, device, chip, clash, outside, scan>>

\* vfd_remove and the failures of vfd_probe: the files, last first, each when
\* the calls to it have returned, then the input device and the structure.
RemoveFile ==
  /\ pc[Platform] = "undo"
  /\ files > 0
  /\ \A c \in Callers : req[c].file # Files[files]
  /\ files' = files - 1
  /\ UNCHANGED <<lock, pc, req, content, control, alive, num_keys, filled, input, chip, clash,
                 outside, scan>>

Release ==
  /\ pc[Platform] = "undo"
  /\ files = 0
  /\ alive' = FALSE
  /\ Goto(Platform, "gone")
  /\ UNCHANGED <<lock, req, content, control, files, num_keys, filled, input, chip, clash,
                 outside, scan>>

Bus ==
  \/ Probe \/ CreateFile \/ CountKeys \/ FillKey \/ AllocInput \/ DeclareKeys \/ Register
  \/ \E callback \in {"suspend", "resume", "shutdown"} : PowerCommon(callback)
  \/ LeavePower \/ Remove \/ RemoveFile \/ Release

\* Somebody presses or releases a switch.
Toggle(s) ==
  /\ toggles < MaxToggles
  /\ toggles' = toggles + 1
  /\ down' = IF s \in down THEN down \ {s} ELSE down \cup {s}
  /\ UNCHANGED <<lock, pc, req, content, control, device, chip, clash, calls, scan>>

-----------------------------------------------------------------------------
Init ==
  /\ lock = NoOne
  /\ pc = [p \in Procs |-> CASE p = Timer -> "off" [] p = Platform -> "unbound"
                             [] OTHER -> "idle"]
  /\ req = [c \in Callers |-> NoRequest]
  /\ files = 0
  /\ power = "on"
  /\ alive = FALSE
  /\ raw_overlay = [i \in Words |-> Blank] /\ raw_display = [i \in Words |-> Blank]
  /\ need_update = 0 /\ copied = 0 /\ idx = 0 /\ open = FALSE
  /\ settings = [f \in Settings |-> CASE f = "enable" -> 1 [] f = "brightness" -> InitBrightness
                                       [] f = "brightness_suspend" -> 0]
  /\ suspended = 0
  /\ num_keys = 0 /\ filled = 0 /\ input = "none"
  /\ keystate = {} /\ keys = {} /\ diff = {} /\ emit = FALSE
  /\ held = {} /\ unsynced = FALSE /\ missed = {}
  /\ chip = [ram |-> [i \in Words |-> Blank], control |-> 0] /\ clash = FALSE
  /\ down = {} /\ toggles = 0 /\ calls = 0

Next ==
  \/ Handler \/ Bus
  \/ \E c \in Callers : Caller(c)
  \/ \E s \in Switches : Toggle(s)

Spec == Init /\ [][Next]_vars

\* The timer fires again and again, and its handler goes on; the mutex it takes
\* when it is free.
Fairness ==
  WF_vars(Fire \/ ReadKeys \/ Compare \/ ReportBit \/ Sync \/ Check \/ Clear \/ SkipWord
            \/ SendWord \/ Close)

FairSpec == Spec /\ Fairness

-----------------------------------------------------------------------------
(* Correctness.                                                            *)

CallerLabels   == {"idle", "enter", "inside", "leave", "apply", "applying"}
TimerLabels    == {"off", "wait", "scan", "check", "clear", "send", "undefined"} \cup Scanning
PlatformLabels == {"unbound", "files", "fill", "declare", "register", "bound", "powering",
                   "resuming", "undo", "gone"}
KeyCodes == {Table[i].keycode : i \in DOMAIN Table}

\* The type invariant.
TypeOK ==
  /\ lock \in Procs \cup {NoOne}
  /\ pc \in [Procs -> CallerLabels \cup TimerLabels \cup PlatformLabels]
  /\ pc[Timer] \in TimerLabels
  /\ pc[Platform] \in PlatformLabels
  /\ \A c \in Callers : pc[c] \in CallerLabels
  /\ req \in [Callers -> Request \cup {NoRequest}]
  /\ alive \in BOOLEAN /\ files \in 0 .. Len(Files)
  /\ raw_overlay \in [Words -> WordValues]
  /\ raw_display \in [Words -> WordValues]
  /\ need_update \in 0 .. 1
  /\ settings \in [Settings -> 0 .. MaxBrightness]
  /\ suspended \in 0 .. 1 /\ power \in {"on", "asleep", "down"}
  /\ chip \in [ram : [Words -> WordValues], control : 0 .. MaxBrightness]
  /\ clash \in BOOLEAN
  /\ copied \in 0 .. NWords /\ idx \in 0 .. NWords /\ open \in BOOLEAN
  /\ num_keys \in {0, Len(Table)} /\ filled \in 0 .. Len(Table)
  /\ input \in {"none", "allocated", "declared", "registered"}
  /\ down \subseteq Switch /\ toggles \in 0 .. MaxToggles /\ calls \in 0 .. MaxCalls
  /\ keystate \in Bitmaps /\ keys \in Bitmaps /\ diff \in Bitmaps
  /\ emit \in BOOLEAN /\ unsynced \in BOOLEAN
  /\ held \subseteq KeyCodes /\ missed \subseteq KeyCodes

\* An update is due, about to be asked for, or under way.
Storing(c) == pc[c] = "inside" /\ req[c].file = "overlay"
Dirty ==
  \/ need_update = 1
  \/ \E c \in Callers : Storing(c)
  \/ pc[Timer] \in {"clear", "send"}

\* No store to the overlay is lost: when no update is due or under way, the
\* words sent are the words of the overlay, although the update reads them
\* without the lock while a handler is half-way through them.
NoLostOverlay == alive /\ ~ Dirty => raw_display = raw_overlay

\* The keys the input device says are down are those of the last scan, and
\* its readers have seen every event, whenever the handler is not scanning
\* (a key that changed between the allocation of the device and the
\* declaration of its keys keeps its old state: missed).
KeysAgree ==
  alive /\ pc[Timer] \notin Scanning =>
    /\ ~ unsynced
    /\ \A i \in DOMAIN Table :
         Table[i].keycode \notin missed =>
           (Table[i].keycode \in held <=> Table[i].scancode \in keystate)

\* The bitmap a scan reads has the bits of the switches that are pressed, in
\* the order the comment at hardware_keys gives them.
KeyOrder ==
  [][pc[Timer] = "scan" /\ pc'[Timer] = "scanned" => keys' = {BitOf(s) : s \in down}]_vars

\* The handler, armed long before the key table exists, never scans before
\* every entry of it is there.
KeysReady ==
  pc[Timer] \in {"scan"} \cup Scanning => num_keys = Len(Table) /\ filled = num_keys

\* When no call that changes it is under way, the display control register is
\* the one the settings ask for (after a shutdown nothing is promised).
SettingControl ==
  \/ \E c \in Callers : pc[c] # "idle" /\ req[c].file \in {"enable", "brightness"}
  \/ pc[Platform] \in {"powering", "resuming"}
ControlIsCurrent ==
  alive /\ ~ clash /\ ~ SettingControl /\ power # "down" =>
    chip.control = Brightness(suspended)

\* The handler, which runs in interrupt context and calls mutex_lock all the
\* same, waits for a mutex whose owner it may have interrupted.
Stuck == pc[Timer] = "scan" /\ lock \notin {NoOne, Timer}

\* When nobody presses or releases a switch any more (MaxToggles), the input
\* device ends up with the keys that are pressed, if it stays (and was there
\* to take their events), and if from some time on the handler finds the mutex
\* free: nothing is promised where it has to wait.
KeysFinallyReported ==
  <>[](alive /\ input = "registered" /\ ~ Stuck)
    => <>[](\A i \in DOMAIN Table :
              Table[i].keycode \notin missed =>
                (Table[i].keycode \in held <=> Table[i].scancode \in HardwareKeys(down)))
=============================================================================
