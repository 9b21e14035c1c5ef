---------------------------- MODULE CutdownProofs ----------------------------
(***************************************************************************)
(* Theorems about the cut-down driver, for every keypad, set of callers    *)
(* and size of the overlay.                                                *)
(*                                                                         *)
(* The invariants of Cutdown say nothing while the handler is at work.     *)
(* Each is strengthened here by what the handler has achieved at each      *)
(* point: OverlayInv for the update, EventsInv for the key scan, SetUpInv  *)
(* for the order of vfd_probe, LevelInv for the control register.          *)
(***************************************************************************)
EXTENDS Cutdown, TLAPS

-----------------------------------------------------------------------------
(* The key bitmap.                                                         *)

\* hardware_keys: whatever is pressed, the bits fit in the 20 of the bitmap.
LEMMA HardwareKeysType == ASSUME NEW d PROVE HardwareKeys(d) \in Bitmaps
<1> DEFINE width == IF Fd620 THEN 2 ELSE 4
<1> SUFFICES ASSUME NEW i \in 0 .. KeyBytes - 1, NEW x, NEW b \in Packed(x)
             PROVE  width * i + b \in 0 .. 19
  BY DEF HardwareKeys, Bitmaps
<1>1. CASE Fd620
  <2>1. b \in {0, 1}
    BY <1>1 DEF Packed
  <2>2. i \in 0 .. 3
    BY <1>1 DEF KeyBytes
  <2>3. QED BY <1>1, <2>1, <2>2
<1>2. CASE ~ Fd620
  <2>1. b \in {0, 1, 3}
    BY <1>2 DEF Packed
  <2>2. i \in 0 .. 4
    BY <1>2 DEF KeyBytes
  <2>3. QED BY <1>2, <2>1, <2>2
<1>3. QED BY <1>1, <1>2

\* hardware_keys, COMPAT_FD620: the switch of KS<n> is bit n - 1, as the comment says.
LEMMA Fd620Bits ==
  ASSUME Fd620, NEW d \in SUBSET Switch
  PROVE  HardwareKeys(d) = {BitOf(s) : s \in d}
<1>1. \A s \in d : s.k = 1 /\ s.ks \in 1 .. 8
  BY DEF Switch, Lines, KeyBytes
<1>2. KeyBytes = 4 /\ \A s : BitOf(s) = s.ks - 1
  BY DEF KeyBytes, BitOf
<1>3. ASSUME NEW s \in d PROVE s.ks - 1 \in HardwareKeys(d)
  <2> DEFINE i == (s.ks - 1) \div 2
             b == IF s.ks % 2 = 1 THEN s.k - 1 ELSE s.k + 2
             x == KeyData(d, i)
  <2>1. i \in 0 .. 3 /\ b \in x
    BY <1>1 DEF KeyData
  <2>2. CASE s.ks % 2 = 1
    <3>1. 0 \in Packed(x)
      BY <1>1, <2>1, <2>2 DEF Packed
    <3>2. s.ks - 1 = 2 * i + 0
      BY <1>1, <2>2
    <3>3. QED BY <1>2, <2>1, <3>1, <3>2 DEF HardwareKeys
  <2>3. CASE s.ks % 2 # 1
    <3>1. b = 3
      BY <1>1, <2>3
    <3>2. 3 - 2 \in Packed(x)
      BY <2>1, <3>1 DEF Packed
    <3>3. 1 \in Packed(x)
      BY <3>2
    <3>4. s.ks - 1 = 2 * i + 1
      BY <1>1, <2>3
    <3>5. QED BY <1>2, <2>1, <3>3, <3>4 DEF HardwareKeys
  <2>4. QED BY <2>2, <2>3
<1>4. ASSUME NEW n \in HardwareKeys(d) PROVE \E s \in d : n = s.ks - 1
  <2>1. PICK i \in 0 .. 3 : \E b \in Packed(KeyData(d, i)) : n = 2 * i + b
    BY <1>2, <1>4 DEF HardwareKeys
  <2>2. PICK y \in KeyData(d, i) : y \in {0, 3} /\ n = 2 * i + (IF y = 0 THEN 0 ELSE 1)
    BY <2>1 DEF Packed
  <2>3. PICK s \in d : /\ (s.ks - 1) \div 2 = i
                       /\ y = IF s.ks % 2 = 1 THEN s.k - 1 ELSE s.k + 2
    BY <2>2 DEF KeyData
  <2>4. n = s.ks - 1
    BY <1>1, <2>1, <2>2, <2>3
  <2>5. QED BY <2>4
<1>5. QED BY <1>2, <1>3, <1>4

\* vfd_scan_keys: the key codes reported are codes of the table.
LEMMA CodesType == \A sc : CodesOf(sc) \subseteq KeyCodes
  BY DEF CodesOf, KeyCodes

-----------------------------------------------------------------------------
(* Types.                                                                  *)

\* The brightness to be set is one of the levels.
LEMMA BrightnessType ==
  ASSUME settings \in [Settings -> 0 .. MaxBrightness], NEW s \in 0 .. 1
  PROVE  Brightness(s) \in 0 .. MaxBrightness
  BY DEF Brightness, Settings

\* The type of the places the procedures are at.
PcType ==
  /\ pc \in [Procs -> CallerLabels \cup TimerLabels \cup PlatformLabels]
  /\ pc[Timer] \in TimerLabels /\ pc[Platform] \in PlatformLabels
  /\ \A c \in Callers : pc[c] \in CallerLabels

\* One of them goes to a place of its own.
LEMMA GotoType ==
  ASSUME PcType, NEW p \in Procs, NEW label, Goto(p, label),
         \/ p = Timer /\ label \in TimerLabels
         \/ p = Platform /\ label \in PlatformLabels
         \/ p \in Callers /\ label \in CallerLabels
  PROVE  PcType'
  BY CutdownAssumption DEF PcType, Goto, Procs, Timer, Platform

\* vfd_probe starts from a well-typed structure.
LEMMA InitType == Init => TypeOK
<1> SUFFICES ASSUME Init PROVE TypeOK
  OBVIOUS
<1> USE CutdownAssumption, KeysAssumption DEF Init
<1>1. /\ pc \in [Procs -> CallerLabels \cup TimerLabels \cup PlatformLabels]
      /\ pc[Timer] = "off" /\ pc[Platform] = "unbound" /\ \A c \in Callers : pc[c] = "idle"
  BY DEF Procs, Timer, Platform, CallerLabels, TimerLabels, PlatformLabels
<1>2. settings \in [Settings -> 0 .. MaxBrightness]
  BY DEF Settings, MaxBrightness, InitBrightness
<1>3. raw_overlay \in [Words -> WordValues] /\ raw_display \in [Words -> WordValues]
  OBVIOUS
<1>4. chip \in [ram : [Words -> WordValues], control : 0 .. MaxBrightness]
  BY DEF MaxBrightness
<1>5. Len(Table) \in Nat /\ Len(Files) = 4
  BY DEF Files
<1>6. {} \in Bitmaps
  BY DEF Bitmaps
<1>7. PcType
  BY <1>1 DEF PcType, CallerLabels, TimerLabels, PlatformLabels
<1>8. req \in [Callers -> Request \cup {NoRequest}]
  OBVIOUS
<1>9. /\ down \subseteq Switch /\ held \subseteq KeyCodes /\ missed \subseteq KeyCodes
      /\ keystate \in Bitmaps /\ keys \in Bitmaps /\ diff \in Bitmaps
  BY <1>6
<1>10. /\ lock \in Procs \cup {NoOne} /\ input = "none" /\ suspended = 0 /\ power = "on"
       /\ need_update = 0 /\ copied = 0 /\ idx = 0 /\ files = 0 /\ num_keys = 0 /\ filled = 0
       /\ toggles = 0 /\ calls = 0
  OBVIOUS
<1>11. alive \in BOOLEAN /\ open \in BOOLEAN /\ emit \in BOOLEAN /\ unsynced \in BOOLEAN
      /\ clash \in BOOLEAN
  BY Zenon
<1>12. QED
  <2> USE ONLY CutdownAssumption, <1>2, <1>3, <1>4, <1>5, <1>7, <1>8, <1>9, <1>10, <1>11
  <2>1. QED BY DEF TypeOK, PcType

\* Every step of a handler or of the platform bus keeps the types.
LEMMA NextType == TypeOK /\ [Next]_vars => TypeOK'
<1> SUFFICES ASSUME TypeOK, [Next]_vars PROVE TypeOK'
  OBVIOUS
<1> USE CutdownAssumption, KeysAssumption
<1> USE DEF TypeOK, content, control, device, scan, outside, CallerLabels, TimerLabels, PlatformLabels,
            Scanning, Procs, Goto, Lock, Unlock, Timer, Platform
<1>1. CASE UNCHANGED vars
  BY <1>1 DEF vars
<1>2. CASE Handler
  <2>1. CASE Fire
    BY <2>1 DEF Fire
  <2>2. CASE ReadKeys
    BY <2>2, HardwareKeysType DEF ReadKeys
  <2>3. CASE Compare
    BY <2>3 DEF Compare, Changed, Bitmaps
  <2>4. CASE ReportBit
    <3>1. PICK sc \in diff :
            /\ held' = IF ~ (input # "allocated") THEN held
                       ELSE IF sc \in keys THEN held \cup CodesOf(sc) ELSE held \ CodesOf(sc)
            /\ missed' = IF input # "allocated" THEN missed \ CodesOf(sc)
                                                 ELSE missed \cup CodesOf(sc)
            /\ unsynced' = (unsynced \/ held' # held)
            /\ emit' = (emit \/ CodesOf(sc) # {})
            /\ diff' = diff \ {sc}
      BY <2>4 DEF ReportBit
    <3>2. /\ held' \subseteq KeyCodes /\ missed' \subseteq KeyCodes
          /\ unsynced' \in BOOLEAN /\ emit' \in BOOLEAN
      BY <3>1, CodesType, Zenon
    <3>3. diff' \in Bitmaps
      BY <3>1 DEF Bitmaps
    <3>4. QED BY <2>4, <3>2, <3>3 DEF ReportBit
  <2>5. CASE Sync
    BY <2>5 DEF Sync
  <2>6. CASE Check
    BY <2>6 DEF Check
  <2>7. CASE Clear
    BY <2>7 DEF Clear
  <2>8. CASE SkipWord
    BY <2>8 DEF SkipWord
  <2>9. CASE SendWord
    <3>1. idx \in Words /\ raw_overlay[idx] \in WordValues
      BY <2>9 DEF SendWord, Words
    <3>2. raw_display' \in [Words -> WordValues]
      BY <2>9, <3>1 DEF SendWord
    <3>3. [chip.ram EXCEPT ![idx] = raw_overlay[idx]] \in [Words -> WordValues]
      BY <3>1
    <3>4. chip' \in [ram : [Words -> WordValues], control : 0 .. MaxBrightness]
      BY <2>9, <3>3 DEF SendWord
    <3>5. open' \in BOOLEAN /\ clash' \in BOOLEAN
      BY <2>9, Zenon DEF SendWord
    <3>6. idx + 1 \in 0 .. NWords
      BY <2>9, <3>1 DEF Words
    <3>7. PcType'
      BY <2>9 DEF SendWord, PcType
    <3>8. QED BY <2>9, <3>1, <3>2, <3>4, <3>5, <3>6, <3>7 DEF SendWord, PcType
  <2>10. CASE Close
    <3>1. Goto(Timer, "wait") /\ PcType
      BY <2>10 DEF Close, PcType
    <3>2. PcType'
      BY <3>1, GotoType
    <3>3. open' \in BOOLEAN
      BY <2>10, Zenon DEF Close
    <3>4. QED BY <2>10, <3>2, <3>3 DEF Close, PcType
  <2>11. CASE Stray
    <3>1. Goto(Timer, "undefined") /\ PcType
      BY <2>11 DEF Stray, PcType
    <3>2. PcType'
      BY <3>1, GotoType
    <3>3. QED BY <2>11, <3>2 DEF Stray, PcType
  <2>12. QED BY <1>2, <2>1, <2>2, <2>3, <2>4, <2>5, <2>6, <2>7, <2>8, <2>9, <2>10, <2>11 DEF Handler
<1>3. CASE Bus
  <2>1. CASE Probe
    <3>1. alive' \in BOOLEAN
      BY <2>1, Zenon DEF Probe
    <3>2. chip' \in [ram : [Words -> WordValues], control : 0 .. MaxBrightness]
      BY <2>1 DEF Probe, InitBrightness, MaxBrightness
    <3>3. PcType'
      BY <2>1 DEF Probe, PcType
    <3>4. /\ UNCHANGED <<lock, req, content, control, files, num_keys, filled, input, clash>>
          /\ UNCHANGED outside /\ UNCHANGED scan
      BY <2>1 DEF Probe
    <3>5. QED BY <3>1, <3>2, <3>3, <3>4 DEF PcType
  <2>2. CASE CreateFile
    BY <2>2 DEF CreateFile
  <2>3. CASE CountKeys
    BY <2>3 DEF CountKeys
  <2>4. CASE FillKey
    BY <2>4 DEF FillKey
  <2>5. CASE AllocInput
    BY <2>5 DEF AllocInput
  <2>6. CASE DeclareKeys
    BY <2>6 DEF DeclareKeys
  <2>7. CASE Register
    BY <2>7 DEF Register
  <2>8. CASE LeavePower
    BY <2>8 DEF LeavePower
  <2>9. CASE Remove
    BY <2>9 DEF Remove
  <2>10. CASE RemoveFile
    BY <2>10 DEF RemoveFile
  <2>11. CASE Release
    <3>1. Goto(Platform, "gone") /\ PcType
      BY <2>11 DEF Release, PcType
    <3>2. PcType'
      BY <3>1, GotoType
    <3>3. alive' \in BOOLEAN
      BY <2>11, Zenon DEF Release
    <3>4. QED BY <2>11, <3>2, <3>3 DEF Release, PcType
  <2>12. ASSUME NEW cb \in {"suspend", "resume", "shutdown"}, PowerCommon(cb) PROVE TypeOK'
    <3>1. PICK lab \in {"resuming", "powering"} : Goto(Platform, lab)
      BY <2>12 DEF PowerCommon
    <3>2. PcType'
      BY <3>1, GotoType DEF PcType
    <3>3. suspended' \in 0 .. 1 /\ power' \in {"on", "asleep", "down"}
      BY <2>12 DEF PowerCommon
    <3>4. Brightness(suspended') \in 0 .. MaxBrightness
      BY <3>3, BrightnessType
    <3>5. chip' \in [ram : [Words -> WordValues], control : 0 .. MaxBrightness]
      BY <2>12, <3>4 DEF PowerCommon, SendControl
    <3>6. QED BY <2>12, <3>2, <3>3, <3>5 DEF PowerCommon, SendControl, PcType
  <2>13. QED BY <1>3, <2>1, <2>2, <2>3, <2>4, <2>5, <2>6, <2>7, <2>8, <2>9, <2>10, <2>11, <2>12 DEF Bus
<1>4. ASSUME NEW c \in Callers, Caller(c) PROVE TypeOK'
  <2>1. CASE Enter(c)
    BY <2>1 DEF Enter
  <2>2. CASE CopyWord(c)
    <3>1. /\ req[c] \in Request /\ req[c].file = "overlay"
          /\ copied < Len(req[c].words) /\ copied \in Nat
      BY <2>2 DEF CopyWord, NoRequest
    <3>2. req[c].words \in Seq(WordValues) /\ Len(req[c].words) <= NWords
      BY <3>1 DEF Request, Settings
    <3>3. copied + 1 \in 1 .. Len(req[c].words)
      BY <3>1, <3>2
    <3>4. req[c].words[copied + 1] \in WordValues
      BY <3>2, <3>3
    <3>5. copied \in Words /\ copied + 1 \in 0 .. NWords
      BY <3>1, <3>2 DEF Words
    <3>6. raw_overlay' \in [Words -> WordValues]
      BY <2>2, <3>4 DEF CopyWord
    <3>7. QED BY <2>2, <3>5, <3>6 DEF CopyWord
  <2>3. CASE AskUpdate(c)
    BY <2>3 DEF AskUpdate
  <2>4. CASE SetField(c)
    <3>1. req[c] \in Request /\ req[c].file \in Settings
      BY <2>4 DEF SetField, Settings, NoRequest
    <3>2. req[c].val \in Nat
      BY <3>1 DEF Request, Settings
    <3>3. \A f : Limit(f) \in 0 .. MaxBrightness
      BY DEF Limit, MaxBrightness
    <3>4. settings' \in [Settings -> 0 .. MaxBrightness]
      BY <2>4, <3>1, <3>2, <3>3 DEF SetField, MaxBrightness
    <3>5. QED BY <2>4, <3>4 DEF SetField
  <2>5. CASE Leave(c)
    BY <2>5, SMTT(30) DEF Leave
  <2>6. CASE Apply(c)
    <3>1. Brightness(suspended) \in 0 .. MaxBrightness
      BY BrightnessType
    <3>2. chip' \in [ram : [Words -> WordValues], control : 0 .. MaxBrightness]
      BY <2>6, <3>1 DEF Apply, SendControl
    <3>3. QED BY <2>6, <3>2 DEF Apply, SendControl
  <2>7. CASE LeaveApply(c)
    BY <2>7 DEF LeaveApply
  <2>8. ASSUME NEW r \in Requests, Call(c, r) PROVE TypeOK'
    BY <2>8 DEF Call
  <2>9. QED BY <1>4, <2>1, <2>2, <2>3, <2>4, <2>5, <2>6, <2>7, <2>8 DEF Caller
<1>5. ASSUME NEW s \in Switches, Toggle(s) PROVE TypeOK'
  BY <1>5 DEF Toggle
<1>6. QED BY <1>1, <1>2, <1>3, <1>4, <1>5 DEF Next

\* The state keeps its type.
THEOREM TypeCorrect == Spec => []TypeOK
  BY InitType, NextType, PTL DEF Spec

-----------------------------------------------------------------------------
(* The order of vfd_probe and __setup_input.                               *)

\* Before the probe nothing runs, the handler scans only with an input device,
\* and there is no input device before the key table is complete.
SetUpInv ==
  /\ pc[Platform] = "unbound" => /\ ~ alive /\ pc[Timer] = "off" /\ files = 0
                                 /\ \A c \in Callers : pc[c] = "idle"
  /\ pc[Platform] = "gone" => ~ alive
  /\ pc[Timer] = "undefined" => ~ alive
  /\ pc[Timer] = "undefined" => pc[Platform] = "gone"
  /\ pc[Platform] \in {"unbound", "files"} => input = "none"
  /\ pc[Platform] = "fill" => num_keys = Len(Table) /\ input = "none"
  /\ pc[Platform] \in {"declare", "register"} => input # "none"
  /\ input # "none" => num_keys = Len(Table) /\ filled = num_keys
  /\ pc[Timer] \in {"scan", "scanned", "report"} => input # "none"
  /\ pc[Platform] \notin {"unbound", "gone"} => alive

\* Nothing is set up before vfd_probe.
LEMMA SetUpInit == Init => SetUpInv
  BY CutdownAssumption DEF Init, SetUpInv, Procs, Timer, Platform

\* Every step keeps the order of the set-up.
LEMMA SetUpInvStep == TypeOK /\ SetUpInv /\ [Next]_vars => SetUpInv'
<1> SUFFICES ASSUME TypeOK, SetUpInv, [Next]_vars PROVE SetUpInv'
  OBVIOUS
<1> USE CutdownAssumption, KeysAssumption
<1> USE DEF SetUpInv, TypeOK, content, control, device, scan, outside, Procs, Goto, Lock, Unlock, Timer, Platform,
            Created
<1>1. CASE UNCHANGED vars
  BY <1>1 DEF vars
<1>2. CASE Handler
  <2>1. CASE Fire
    BY <2>1 DEF Fire
  <2>2. CASE ReadKeys
    BY <2>2 DEF ReadKeys
  <2>3. CASE Compare
    BY <2>3 DEF Compare
  <2>4. CASE ReportBit
    BY <2>4 DEF ReportBit
  <2>5. CASE Sync
    BY <2>5 DEF Sync
  <2>6. CASE Check
    BY <2>6 DEF Check
  <2>7. CASE Clear
    BY <2>7 DEF Clear
  <2>8. CASE SkipWord
    BY <2>8 DEF SkipWord
  <2>9. CASE SendWord
    BY <2>9 DEF SendWord
  <2>10. CASE Close
    BY <2>10 DEF Close
  <2>11. CASE Stray
    BY <2>11 DEF Stray
  <2>12. QED BY <1>2, <2>1, <2>2, <2>3, <2>4, <2>5, <2>6, <2>7, <2>8, <2>9, <2>10, <2>11 DEF Handler
<1>3. CASE Bus
  <2>1. CASE Probe
    BY <2>1 DEF Probe
  <2>2. CASE CreateFile
    BY <2>2 DEF CreateFile
  <2>3. CASE CountKeys
    BY <2>3 DEF CountKeys
  <2>4. CASE FillKey
    BY <2>4 DEF FillKey
  <2>5. CASE AllocInput
    BY <2>5 DEF AllocInput
  <2>6. CASE DeclareKeys
    BY <2>6 DEF DeclareKeys
  <2>7. CASE Register
    BY <2>7 DEF Register
  <2>8. CASE LeavePower
    BY <2>8 DEF LeavePower
  <2>9. CASE Remove
    BY <2>9 DEF Remove
  <2>10. CASE RemoveFile
    BY <2>10 DEF RemoveFile
  <2>11. CASE Release
    BY <2>11 DEF Release
  <2>12. ASSUME NEW cb \in {"suspend", "resume", "shutdown"}, PowerCommon(cb) PROVE SetUpInv'
    BY <2>12 DEF PowerCommon, MayCall
  <2>13. QED BY <1>3, <2>1, <2>2, <2>3, <2>4, <2>5, <2>6, <2>7, <2>8, <2>9, <2>10, <2>11, <2>12 DEF Bus
<1>4. ASSUME NEW c \in Callers, Caller(c) PROVE SetUpInv'
  <2>1. CASE Enter(c)
    BY <2>1 DEF Enter
  <2>2. CASE CopyWord(c)
    BY <2>2 DEF CopyWord
  <2>3. CASE AskUpdate(c)
    BY <2>3 DEF AskUpdate
  <2>4. CASE SetField(c)
    BY <2>4 DEF SetField
  <2>5. CASE Leave(c)
    BY <2>5 DEF Leave
  <2>6. CASE Apply(c)
    BY <2>6 DEF Apply
  <2>7. CASE LeaveApply(c)
    BY <2>7 DEF LeaveApply
  <2>8. ASSUME NEW r \in Requests, Call(c, r) PROVE SetUpInv'
    BY <2>8 DEF Call
  <2>9. QED BY <1>4, <2>1, <2>2, <2>3, <2>4, <2>5, <2>6, <2>7, <2>8 DEF Caller
<1>5. ASSUME NEW s \in Switches, Toggle(s) PROVE SetUpInv'
  BY <1>5 DEF Toggle
<1>6. QED BY <1>1, <1>2, <1>3, <1>4, <1>5 DEF Next

\* The files, the key table and the input device appear in the order of vfd_probe, and
\* nothing is used before its turn, whichever step fails.
THEOREM SetUpOrder == Spec => [](TypeOK /\ SetUpInv)
<1>1. Init => TypeOK /\ SetUpInv
  BY InitType, SetUpInit
<1>2. TypeOK /\ SetUpInv /\ [Next]_vars => (TypeOK /\ SetUpInv)'
  BY NextType, SetUpInvStep
<1>3. QED BY <1>1, <1>2, PTL DEF Spec

\* The handler never scans before every entry of the key table is there (KeysReady).
THEOREM TableBeforeScan == Spec => []KeysReady
<1>1. SetUpInv => KeysReady
  BY DEF SetUpInv, KeysReady, Scanning
<1>2. QED BY <1>1, SetUpOrder, PTL

-----------------------------------------------------------------------------
(* hardware_update_display and overlay_store.                              *)

Clean == need_update = 0 /\ \A c \in Callers : ~ Storing(c)

\* Unless another update is due or about to be asked for, the update under way
\* has brought the words it has passed up to date, and without one all are.
OverlayInv ==
  /\ pc[Timer] \notin {"send", "undefined"} => idx = 0
  /\ Clean /\ pc[Timer] = "send" =>
       \A i \in Words : i < idx => raw_display[i] = raw_overlay[i]
  /\ Clean /\ pc[Timer] \notin {"clear", "send", "undefined"} =>
       \A i \in Words : raw_display[i] = raw_overlay[i]

\* A zeroed overlay is shown by a zeroed display.
LEMMA OverlayInit == Init => OverlayInv
  BY CutdownAssumption DEF Init, OverlayInv, Procs, Timer, Platform

\* No step takes a word from the display without another update being due.
LEMMA OverlayInvStep == TypeOK /\ SetUpInv /\ OverlayInv /\ [Next]_vars => OverlayInv'
<1> SUFFICES ASSUME TypeOK, SetUpInv, OverlayInv, [Next]_vars PROVE OverlayInv'
  OBVIOUS
<1> USE CutdownAssumption, KeysAssumption
<1> USE DEF OverlayInv, Clean, Storing, TypeOK, content, control, device, scan, outside, Procs, Goto, Lock, Unlock, Timer, Platform,
            SetUpInv, Words
<1>1. CASE UNCHANGED vars
  BY <1>1 DEF vars
<1>2. CASE Handler
  <2>1. CASE Fire
    BY <2>1 DEF Fire
  <2>2. CASE ReadKeys
    BY <2>2 DEF ReadKeys
  <2>3. CASE Compare
    BY <2>3 DEF Compare
  <2>4. CASE ReportBit
    BY <2>4 DEF ReportBit
  <2>5. CASE Sync
    BY <2>5 DEF Sync
  <2>6. CASE Check
    BY <2>6 DEF Check
  <2>7. CASE Clear
    BY <2>7 DEF Clear
  <2>8. CASE SkipWord
    BY <2>8 DEF SkipWord
  <2>9. CASE SendWord
    BY <2>9, SMTT(30) DEF SendWord
  <2>10. CASE Close
    BY <2>10 DEF Close
  <2>11. CASE Stray
    BY <2>11 DEF Stray
  <2>12. QED BY <1>2, <2>1, <2>2, <2>3, <2>4, <2>5, <2>6, <2>7, <2>8, <2>9, <2>10, <2>11 DEF Handler
<1>3. CASE Bus
  <2>1. CASE Probe
    BY <2>1 DEF Probe
  <2>2. CASE CreateFile
    BY <2>2 DEF CreateFile
  <2>3. CASE CountKeys
    BY <2>3 DEF CountKeys
  <2>4. CASE FillKey
    BY <2>4 DEF FillKey
  <2>5. CASE AllocInput
    BY <2>5 DEF AllocInput
  <2>6. CASE DeclareKeys
    BY <2>6 DEF DeclareKeys
  <2>7. CASE Register
    BY <2>7 DEF Register
  <2>8. CASE LeavePower
    BY <2>8 DEF LeavePower
  <2>9. CASE Remove
    BY <2>9 DEF Remove
  <2>10. CASE RemoveFile
    BY <2>10 DEF RemoveFile
  <2>11. CASE Release
    BY <2>11 DEF Release
  <2>12. ASSUME NEW cb \in {"suspend", "resume", "shutdown"}, PowerCommon(cb) PROVE OverlayInv'
    BY <2>12 DEF PowerCommon, MayCall
  <2>13. QED BY <1>3, <2>1, <2>2, <2>3, <2>4, <2>5, <2>6, <2>7, <2>8, <2>9, <2>10, <2>11, <2>12 DEF Bus
<1>4. ASSUME NEW c \in Callers, Caller(c) PROVE OverlayInv'
  <2>1. CASE Enter(c)
    BY <2>1 DEF Enter
  <2>2. CASE CopyWord(c)
    BY <2>2 DEF CopyWord
  <2>3. CASE AskUpdate(c)
    BY <2>3 DEF AskUpdate
  <2>4. CASE SetField(c)
    BY <2>4 DEF SetField, Settings
  <2>5. CASE Leave(c)
    BY <2>5 DEF Leave
  <2>6. CASE Apply(c)
    BY <2>6 DEF Apply
  <2>7. CASE LeaveApply(c)
    BY <2>7 DEF LeaveApply
  <2>8. ASSUME NEW r \in Requests, Call(c, r) PROVE OverlayInv'
    BY <2>8 DEF Call
  <2>9. QED BY <1>4, <2>1, <2>2, <2>3, <2>4, <2>5, <2>6, <2>7, <2>8 DEF Caller
<1>5. ASSUME NEW s \in Switches, Toggle(s) PROVE OverlayInv'
  BY <1>5 DEF Toggle
<1>6. QED BY <1>1, <1>2, <1>3, <1>4, <1>5 DEF Next

\* No store to the overlay is lost (NoLostOverlay).
THEOREM OverlayShown == Spec => []NoLostOverlay
<1>1. Init => TypeOK /\ SetUpInv /\ OverlayInv
  BY InitType, SetUpInit, OverlayInit
<1>2. TypeOK /\ SetUpInv /\ OverlayInv /\ [Next]_vars => (TypeOK /\ SetUpInv /\ OverlayInv)'
  BY NextType, SetUpInvStep, OverlayInvStep
<1>3. TypeOK /\ SetUpInv /\ OverlayInv => NoLostOverlay
  <2> SUFFICES ASSUME TypeOK, SetUpInv, OverlayInv, alive, ~ Dirty
               PROVE  raw_display = raw_overlay
    BY DEF NoLostOverlay
  <2>1. Clean
    BY DEF Dirty, Clean, TypeOK
  <2>2. \A i \in Words : raw_display[i] = raw_overlay[i]
    BY <2>1 DEF Dirty, OverlayInv, SetUpInv
  <2>3. raw_display \in [Words -> WordValues] /\ raw_overlay \in [Words -> WordValues]
    BY DEF TypeOK
  <2>4. QED BY <2>2, <2>3
<1>4. QED BY <1>1, <1>2, <1>3, PTL DEF Spec

-----------------------------------------------------------------------------
(* vfd_scan_keys.                                                          *)

\* What the input device has been told of a bit: the new state if the scan
\* has passed it, the old one if not.
Told(sc) == IF pc[Timer] = "report" /\ sc \notin diff THEN sc \in keys ELSE sc \in keystate

EventsInv ==
  pc[Timer] # "undefined" =>
    /\ unsynced => pc[Timer] = "report" /\ emit
    /\ \A i \in DOMAIN Table :
         Table[i].keycode \notin missed =>
           (Table[i].keycode \in held <=> Told(Table[i].scancode))

\* No key is down before the first scan.
LEMMA EventsInit == Init => EventsInv
<1> SUFFICES ASSUME Init PROVE EventsInv
  OBVIOUS
<1>1. ~ unsynced /\ held = {} /\ keystate = {} /\ pc[Timer] = "off"
  BY CutdownAssumption DEF Init, Procs, Timer, Platform
<1>2. QED BY <1>1 DEF EventsInv, Told

\* Only the entries of the reported bit have its codes.
LEMMA CodesOfOthers ==
  ASSUME NEW sc, NEW i \in DOMAIN Table, Table[i].scancode # sc
  PROVE  Table[i].keycode \notin CodesOf(sc)
  BY KeysAssumption DEF CodesOf

\* Every step of a scan and of its events keeps the input device in step with them.
LEMMA EventsInvStep == TypeOK /\ SetUpInv /\ EventsInv /\ [Next]_vars => EventsInv'
<1> SUFFICES ASSUME TypeOK, SetUpInv, EventsInv, [Next]_vars PROVE EventsInv'
  OBVIOUS
<1> USE CutdownAssumption, KeysAssumption
<1> USE DEF EventsInv, Told, TypeOK, content, control, device, scan, outside, Procs, Goto, Lock, Unlock, Timer, Platform,
            SetUpInv
<1>1. CASE UNCHANGED vars
  BY <1>1 DEF vars
<1>2. CASE Handler
  <2>1. CASE Fire
    BY <2>1 DEF Fire
  <2>2. CASE ReadKeys
    BY <2>2 DEF ReadKeys
  <2>3. CASE Compare
    BY <2>3 DEF Compare, Changed
  <2>4. CASE ReportBit
    <3>1. PICK sc \in diff :
            /\ held' = IF ~ (input # "allocated") THEN held
                       ELSE IF sc \in keys THEN held \cup CodesOf(sc) ELSE held \ CodesOf(sc)
            /\ missed' = IF input # "allocated" THEN missed \ CodesOf(sc)
                                                 ELSE missed \cup CodesOf(sc)
            /\ unsynced' = (unsynced \/ held' # held)
            /\ emit' = (emit \/ CodesOf(sc) # {})
            /\ diff' = diff \ {sc}
      BY <2>4 DEF ReportBit
    <3>2. pc[Timer] = "report" /\ UNCHANGED <<pc, keys, keystate>>
      BY <2>4 DEF ReportBit
    <3>3. unsynced' => emit'
      BY <3>1, <3>2
    <3>4. ASSUME NEW i \in DOMAIN Table, Table[i].keycode \notin missed'
          PROVE  Table[i].keycode \in held' <=> Told(Table[i].scancode)'
      <4>1. CASE Table[i].scancode = sc
        <5>1. Table[i].keycode \in CodesOf(sc)
          BY <4>1 DEF CodesOf
        <5>2. input # "allocated"
          BY <3>1, <3>4, <5>1
        <5>3. Told(sc)' <=> sc \in keys
          BY <3>1, <3>2
        <5>4. QED BY <3>1, <4>1, <5>1, <5>2, <5>3
      <4>2. CASE Table[i].scancode # sc
        <5>1. Table[i].keycode \notin CodesOf(sc)
          BY <4>2, CodesOfOthers
        <5>2. Table[i].keycode \notin missed
          BY <3>1, <3>4, <5>1
        <5>3. Told(Table[i].scancode)' <=> Told(Table[i].scancode)
          BY <3>1, <3>2, <4>2
        <5>4. Table[i].keycode \in held' <=> Table[i].keycode \in held
          BY <3>1, <5>1
        <5>5. QED BY <3>2, <5>2, <5>3, <5>4
      <4>3. QED BY <4>1, <4>2
    <3>5. QED BY <3>2, <3>3, <3>4
  <2>5. CASE Sync
    BY <2>5 DEF Sync
  <2>6. CASE Check
    BY <2>6 DEF Check
  <2>7. CASE Clear
    BY <2>7 DEF Clear
  <2>8. CASE SkipWord
    BY <2>8 DEF SkipWord
  <2>9. CASE SendWord
    BY <2>9 DEF SendWord
  <2>10. CASE Close
    BY <2>10 DEF Close
  <2>11. CASE Stray
    BY <2>11 DEF Stray
  <2>12. QED BY <1>2, <2>1, <2>2, <2>3, <2>4, <2>5, <2>6, <2>7, <2>8, <2>9, <2>10, <2>11 DEF Handler
<1>3. CASE Bus
  <2>1. CASE Probe
    BY <2>1 DEF Probe
  <2>2. CASE CreateFile
    BY <2>2 DEF CreateFile
  <2>3. CASE CountKeys
    BY <2>3 DEF CountKeys
  <2>4. CASE FillKey
    BY <2>4 DEF FillKey
  <2>5. CASE AllocInput
    BY <2>5 DEF AllocInput
  <2>6. CASE DeclareKeys
    BY <2>6 DEF DeclareKeys
  <2>7. CASE Register
    BY <2>7 DEF Register
  <2>8. CASE LeavePower
    BY <2>8 DEF LeavePower
  <2>9. CASE Remove
    BY <2>9 DEF Remove
  <2>10. CASE RemoveFile
    BY <2>10 DEF RemoveFile
  <2>11. CASE Release
    BY <2>11 DEF Release
  <2>12. ASSUME NEW cb \in {"suspend", "resume", "shutdown"}, PowerCommon(cb) PROVE EventsInv'
    BY <2>12 DEF PowerCommon, MayCall
  <2>13. QED BY <1>3, <2>1, <2>2, <2>3, <2>4, <2>5, <2>6, <2>7, <2>8, <2>9, <2>10, <2>11, <2>12 DEF Bus
<1>4. ASSUME NEW c \in Callers, Caller(c) PROVE EventsInv'
  <2>1. CASE Enter(c)
    BY <2>1 DEF Enter
  <2>2. CASE CopyWord(c)
    BY <2>2 DEF CopyWord
  <2>3. CASE AskUpdate(c)
    BY <2>3 DEF AskUpdate
  <2>4. CASE SetField(c)
    BY <2>4 DEF SetField
  <2>5. CASE Leave(c)
    BY <2>5 DEF Leave
  <2>6. CASE Apply(c)
    BY <2>6 DEF Apply
  <2>7. CASE LeaveApply(c)
    BY <2>7 DEF LeaveApply
  <2>8. ASSUME NEW r \in Requests, Call(c, r) PROVE EventsInv'
    BY <2>8 DEF Call
  <2>9. QED BY <1>4, <2>1, <2>2, <2>3, <2>4, <2>5, <2>6, <2>7, <2>8 DEF Caller
<1>5. ASSUME NEW s \in Switches, Toggle(s) PROVE EventsInv'
  BY <1>5 DEF Toggle
<1>6. QED BY <1>1, <1>2, <1>3, <1>4, <1>5 DEF Next

\* The input device and the last scan agree (KeysAgree).
THEOREM KeysReported == Spec => []KeysAgree
<1>1. Init => TypeOK /\ SetUpInv /\ EventsInv
  BY InitType, SetUpInit, EventsInit
<1>2. TypeOK /\ SetUpInv /\ EventsInv /\ [Next]_vars => (TypeOK /\ SetUpInv /\ EventsInv)'
  BY NextType, SetUpInvStep, EventsInvStep
<1>3. SetUpInv /\ EventsInv => KeysAgree
  BY DEF SetUpInv, EventsInv, Told, KeysAgree, Scanning
<1>4. QED BY <1>1, <1>2, <1>3, PTL DEF Spec

\* On the FD620 a scan reads the switches in the order of the comment (KeyOrder).
THEOREM Fd620KeyOrder == Fd620 => (Spec => KeyOrder)
<1> SUFFICES ASSUME Fd620 PROVE Spec => KeyOrder
  OBVIOUS
<1>1. TypeOK /\ [Next]_vars =>
        [pc[Timer] = "scan" /\ pc'[Timer] = "scanned" => keys' = {BitOf(s) : s \in down}]_vars
  <2> SUFFICES ASSUME TypeOK, Next, pc[Timer] = "scan", pc'[Timer] = "scanned"
               PROVE  keys' = {BitOf(s) : s \in down}
    OBVIOUS
  <2>1. ReadKeys
    <3> USE CutdownAssumption
    <3>1. \A c \in Callers : ~ Caller(c)
      BY DEF TypeOK, Caller, Call, Enter, CopyWord, AskUpdate, SetField, Leave, Apply, LeaveApply,
             Goto, Procs, Timer, Platform
    <3>2. \A s \in Switches : ~ Toggle(s)
      BY DEF Toggle
    <3>3. ~ Bus
      BY DEF TypeOK, Bus, Probe, CreateFile, CountKeys, FillKey, AllocInput, DeclareKeys, Register,
             PowerCommon, LeavePower, Remove, RemoveFile, Release, Goto, Procs, Timer, Platform
    <3>4. Handler => ReadKeys
      BY DEF TypeOK, Handler, Fire, Compare, ReportBit, Sync, Check, Clear, SkipWord, SendWord,
             Close, Stray, Goto, Procs, Timer, Platform
    <3>5. QED BY <3>1, <3>2, <3>3, <3>4 DEF Next
  <2>2. QED BY <2>1, Fd620Bits DEF ReadKeys, TypeOK
<1>2. QED BY <1>1, TypeCorrect, PTL DEF Spec, KeyOrder

-----------------------------------------------------------------------------
(* enable, brightness, brightness_suspend and the power callbacks.         *)

\* The call will set the field, or has set it and not updated the chip yet.
Pending(c) ==
  /\ pc[c] \in {"enter", "inside", "leave", "apply"}
  /\ req[c].file \in {"enable", "brightness"}

LevelInv ==
  /\ pc[Platform] = "unbound" => /\ settings["enable"] = 1 /\ power = "on"
                                 /\ settings["brightness"] = InitBrightness
  /\ power = "asleep" => \A c \in Callers : pc[c] = "idle"
  /\ power = "on" \/ pc[Platform] = "resuming" => suspended = 0
  /\ pc[Platform] = "resuming" => power = "asleep"
  /\ alive /\ power # "down" /\ (\A c \in Callers : ~ Pending(c)) =>
       chip.control = Brightness(suspended)

\* Before vfd_probe no register is promised.
LEMMA LevelInit == Init => LevelInv
  BY CutdownAssumption DEF Init, LevelInv, Settings, Procs, Timer, Platform

\* Whoever changes a setting still has to program the register.
LEMMA LevelInvStep == TypeOK /\ SetUpInv /\ LevelInv /\ [Next]_vars => LevelInv'
<1> SUFFICES ASSUME TypeOK, SetUpInv, LevelInv, [Next]_vars PROVE LevelInv'
  OBVIOUS
<1> USE CutdownAssumption, KeysAssumption
<1> USE DEF LevelInv, Pending, Brightness, TypeOK, content, control, device, scan, outside, Procs, Goto, Lock, Unlock, Timer, Platform,
            SetUpInv
<1>1. CASE UNCHANGED vars
  BY <1>1 DEF vars
<1>2. CASE Handler
  <2>1. CASE Fire
    BY <2>1 DEF Fire
  <2>2. CASE ReadKeys
    BY <2>2 DEF ReadKeys
  <2>3. CASE Compare
    BY <2>3 DEF Compare
  <2>4. CASE ReportBit
    BY <2>4 DEF ReportBit
  <2>5. CASE Sync
    BY <2>5 DEF Sync
  <2>6. CASE Check
    BY <2>6 DEF Check
  <2>7. CASE Clear
    BY <2>7 DEF Clear
  <2>8. CASE SkipWord
    BY <2>8 DEF SkipWord
  <2>9. CASE SendWord
    BY <2>9 DEF SendWord
  <2>10. CASE Close
    BY <2>10 DEF Close
  <2>11. CASE Stray
    BY <2>11 DEF Stray
  <2>12. QED BY <1>2, <2>1, <2>2, <2>3, <2>4, <2>5, <2>6, <2>7, <2>8, <2>9, <2>10, <2>11 DEF Handler
<1>3. CASE Bus
  <2>1. CASE Probe
    BY <2>1 DEF Probe
  <2>2. CASE CreateFile
    BY <2>2 DEF CreateFile
  <2>3. CASE CountKeys
    BY <2>3 DEF CountKeys
  <2>4. CASE FillKey
    BY <2>4 DEF FillKey
  <2>5. CASE AllocInput
    BY <2>5 DEF AllocInput
  <2>6. CASE DeclareKeys
    BY <2>6 DEF DeclareKeys
  <2>7. CASE Register
    BY <2>7 DEF Register
  <2>8. CASE LeavePower
    BY <2>8 DEF LeavePower
  <2>9. CASE Remove
    BY <2>9 DEF Remove
  <2>10. CASE RemoveFile
    BY <2>10 DEF RemoveFile
  <2>11. CASE Release
    BY <2>11 DEF Release
  <2>12. ASSUME NEW cb \in {"suspend", "resume", "shutdown"}, PowerCommon(cb) PROVE LevelInv'
    BY <2>12 DEF PowerCommon, MayCall, SendControl
  <2>13. QED BY <1>3, <2>1, <2>2, <2>3, <2>4, <2>5, <2>6, <2>7, <2>8, <2>9, <2>10, <2>11, <2>12 DEF Bus
<1>4. ASSUME NEW c \in Callers, Caller(c) PROVE LevelInv'
  <2>1. CASE Enter(c)
    BY <2>1 DEF Enter
  <2>2. CASE CopyWord(c)
    BY <2>2 DEF CopyWord
  <2>3. CASE AskUpdate(c)
    BY <2>3 DEF AskUpdate
  <2>4. CASE SetField(c)
    BY <2>4 DEF SetField, Settings
  <2>5. CASE Leave(c)
    BY <2>5 DEF Leave
  <2>6. CASE Apply(c)
    BY <2>6 DEF Apply, SendControl
  <2>7. CASE LeaveApply(c)
    BY <2>7 DEF LeaveApply
  <2>8. ASSUME NEW r \in Requests, Call(c, r) PROVE LevelInv'
    BY <2>8 DEF Call
  <2>9. QED BY <1>4, <2>1, <2>2, <2>3, <2>4, <2>5, <2>6, <2>7, <2>8 DEF Caller
<1>5. ASSUME NEW s \in Switches, Toggle(s) PROVE LevelInv'
  BY <1>5 DEF Toggle
<1>6. QED BY <1>1, <1>2, <1>3, <1>4, <1>5 DEF Next

\* The control register follows the settings (ControlIsCurrent).
THEOREM ControlFollows == Spec => []ControlIsCurrent
<1>1. Init => TypeOK /\ SetUpInv /\ LevelInv
  BY InitType, SetUpInit, LevelInit
<1>2. TypeOK /\ SetUpInv /\ LevelInv /\ [Next]_vars => (TypeOK /\ SetUpInv /\ LevelInv)'
  BY NextType, SetUpInvStep, LevelInvStep
<1>3. LevelInv => ControlIsCurrent
  BY DEF LevelInv, ControlIsCurrent, SettingControl, Pending
<1>4. QED BY <1>1, <1>2, <1>3, PTL DEF Spec
=============================================================================
