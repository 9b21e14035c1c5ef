----------------------------- MODULE VfdProofs -----------------------------
(***************************************************************************)
(* Theorems about the driver, for every display, set of callers, boot      *)
(* animation, and device tree that numbers words of the display.           *)
(*                                                                         *)
(* The type of the state rests on the type of what the handlers put in     *)
(* stores and wire.  NoLostUpdate is not inductive: it says nothing while  *)
(* an update is under way.  UpdateInv says what the update has achieved at *)
(* each point of its three loops unless some handler has asked, or will    *)
(* ask, for another one.                                                   *)
(***************************************************************************)
EXTENDS Vfd, SequenceTheorems, TLAPS

-----------------------------------------------------------------------------
(* The chip and the sequences clocked out to it.                           *)

\* The controller (pt6964.c drives it bit by bit) stays a controller whatever is clocked out.
LEMMA ChipStepType ==
  ASSUME NEW c \in Chip, NEW op \in BusOp
  PROVE  ChipStep(c, op) \in Chip
<1> USE DEF Chip, Byte
<1>1. CASE op.pin = "STB"
  BY <1>1 DEF ChipStep, BusOp
<1>2. CASE op.pin = "DI"
  BY <1>2 DEF ChipStep
<1>3. CASE op.pin = "DO"
  <2>1. op.byte \in Byte
    BY <1>3 DEF BusOp
  <2>2. Command(c, op.byte) \in Chip
    <3> DEFINE b == op.byte
               d == [c EXCEPT !.command = FALSE]
    <3>1. d \in Chip
      OBVIOUS
    <3>2. Address(b) \in 0 .. 15
      BY DEF Address, Bit
    <3>3. [d EXCEPT !.addr = Address(b)] \in Chip
      BY <3>1, <3>2
    <3>4. [d EXCEPT !.control = b] \in Chip
      BY <3>1, <2>1
    <3>5. [d EXCEPT !.inc = 1 - Bit(b, 2), !.read = Bit(b, 1)] \in Chip
      <4>1. 1 - Bit(b, 2) \in 0 .. 1 /\ Bit(b, 1) \in 0 .. 1
        BY DEF Bit
      <4> HIDE DEF d
      <4>2. \A x, y \in 0 .. 1 : [d EXCEPT !.inc = x, !.read = y] \in Chip
        BY <3>1
      <4>3. QED BY <4>1, <4>2, Zenon
    <3>6. QED BY <3>1, <3>3, <3>4, <3>5, Zenon DEF Command
  <2>3. Data(c, op.byte) \in Chip
    <3> DEFINE ram == [a \in RamBytes |-> IF a = c.addr THEN op.byte ELSE c.ram[a]]
    <3>1. ram \in [RamBytes -> Byte]
      BY <2>1
    <3>2. (c.addr + c.inc) % 16 \in 0 .. 15
      OBVIOUS
    <3>3. [c EXCEPT !.ram = ram, !.addr = (c.addr + c.inc) % 16] \in Chip
      BY <3>1, <3>2
    <3>4. QED BY <3>3, Zenon DEF Data
  <2>4. QED BY <1>3, <2>2, <2>3 DEF ChipStep
<1>4. QED BY <1>1, <1>2, <1>3 DEF BusOp

\* A function on 1 .. n is a sequence.
LEMMA FunctionIsSeq ==
  ASSUME NEW S, NEW n \in Nat, NEW f \in [1 .. n -> S]
  PROVE  f \in Seq(S)
  BY SeqDef

\* What is left of the dotled text (dotled_store, one assignment at a time).
LEMMA TailNotEmpty ==
  ASSUME NEW S, NEW s \in Seq(S), Len(s) > 1
  PROVE  Tail(s) \in Seq(S) \ {<<>>}
<1>1. s # <<>>
  OBVIOUS
<1>2. PICK t : t = Tail(s)
  OBVIOUS
<1>3. t \in Seq(S) /\ Len(t) = Len(s) - 1
  BY <1>1, <1>2, HeadTailProperties, Zenon
<1>4. Len(s) \in Nat
  BY LenProperties, Zenon
<1>5. Len(t) # 0
  BY <1>3, <1>4
<1>6. t # <<>>
  BY <1>5
<1>7. QED BY <1>2, <1>3, <1>6, Zenon

\* STB_LOW, STB_HIGH, read_byte and send_byte are operations of the bus.
LEMMA OpTypes ==
  /\ StbLow \in BusOp
  /\ StbHigh \in BusOp
  /\ ReadByte \in BusOp
  /\ \A b \in Byte : Send(b) \in BusOp
  BY DEF StbLow, StbHigh, ReadByte, Send, BusOp

\* vfd_hardware_cmd: a command is a transfer.
LEMMA CmdType == ASSUME NEW b \in Byte PROVE Cmd(b) \in Seq(BusOp)
  BY DEF Cmd, StbLow, StbHigh, Send, BusOp

\* The two halves of a raw display word are bytes.
LEMMA WordBytes == ASSUME NEW w \in Word PROVE LowByte(w) \in Byte /\ HighByte(w) \in Byte
  BY DEF LowByte, HighByte, Byte, Word

\* Every command of pt6964.h fits in a byte.
LEMMA CommandBytes ==
  /\ CmdDataSetting(1, 0) \in Byte
  /\ CmdDataSetting(0, 1) \in Byte
  /\ \A a : CmdAddressSet(a) \in Byte
  /\ \A e, n : CmdDisplayControl(e, n) \in Byte
  /\ CmdDisplayMode \in Byte
  BY DEF CmdDataSetting, CmdAddressSet, CmdDisplayControl, CmdDisplayMode, Nibble, Byte

\* hardware_update_display: what it clocks out for one changed word.
LEMMA SendWordType ==
  ASSUME NEW pofs0 \in Words \cup {NoOffset}, NEW i \in Words, NEW r \in Word
  PROVE  SendWord(pofs0, i, r) \in Seq(BusOp)
<1> DEFINE open == IF pofs0 = NoOffset THEN Cmd(CmdDataSetting(1, 0))
                   ELSE IF pofs0 # i - 1 THEN <<StbHigh>>
                   ELSE <<>>
           addr == IF pofs0 # i - 1 THEN <<StbLow, Send(CmdAddressSet(2 * i))>> ELSE <<>>
           data == <<Send(LowByte(r)), Send(HighByte(r))>>
<1>1. open \in Seq(BusOp)
  BY CmdType, CommandBytes, OpTypes
<1>2. addr \in Seq(BusOp)
  BY CommandBytes, OpTypes
<1>3. data \in Seq(BusOp)
  BY WordBytes, OpTypes
<1>4. QED BY <1>1, <1>2, <1>3, ConcatProperties, Zenon DEF SendWord

\* hardware_keys: what it clocks to read the key matrix.
LEMMA ReadKeysType == ReadKeys \in Seq(BusOp)
<1> DEFINE first == <<StbLow, Send(CmdDataSetting(0, 1))>>
           bytes == [k \in 1 .. KeyReads |-> ReadByte]
           last  == <<StbHigh>>
<1>1. first \in Seq(BusOp)
  BY CommandBytes, OpTypes
<1>2. bytes \in Seq(BusOp)
  BY SeqDef, OpTypes, Pt6964Assumption
<1>3. last \in Seq(BusOp)
  BY OpTypes
<1>4. QED BY <1>1, <1>2, <1>3, ConcatProperties, Zenon DEF ReadKeys

\* hardware_update_brightness: what it clocks out.
LEMMA UpdateBrightnessType == ASSUME NEW bri PROVE UpdateBrightness(bri) \in Seq(BusOp)
  BY CmdType, CommandBytes, Zenon DEF UpdateBrightness

\* The end of hardware_update_display.
LEMMA EndUpdateType == ASSUME NEW ofs PROVE EndUpdate(ofs) \in Seq(BusOp)
  BY OpTypes DEF EndUpdate

\* hardware_init: what it clocks out from vfd_probe.
LEMMA HardwareInitType == ASSUME NEW bri PROVE HardwareInit(bri) \in Seq(BusOp)
<1> DEFINE setAddr == <<StbLow, Send(CmdAddressSet(0))>>
           zeros   == [k \in 1 .. 2 * NWords |-> Send({})]
           close   == <<StbHigh>>
<1>1. setAddr \in Seq(BusOp)
  BY CommandBytes, OpTypes
<1>2. zeros \in Seq(BusOp)
  <2>1. Send({}) \in BusOp
    BY OpTypes DEF Byte
  <2>2. 2 * NWords \in Nat
    BY Pt6964Assumption
  <2>3. QED BY <2>1, <2>2, SeqDef
<1>3. close \in Seq(BusOp)
  BY OpTypes
<1>4. Cmd(CmdDataSetting(1, 0)) \in Seq(BusOp) /\ Cmd(CmdDisplayMode) \in Seq(BusOp)
  BY CmdType, CommandBytes
<1>5. ClearDram \in Seq(BusOp)
  BY <1>1, <1>2, <1>3, <1>4, ConcatProperties, Zenon DEF ClearDram
<1>6. QED BY <1>4, <1>5, UpdateBrightnessType, ConcatProperties, Zenon DEF HardwareInit

-----------------------------------------------------------------------------
(* Pending stores.                                                         *)

Content(s) == s.loc \in {"display", "raw_overlay"}

\* A store to the text or the overlay is followed by a request for an update,
\* and a section never withdraws one.
AsksAtEnd(ss) ==
  /\ \A k \in 1 .. Len(ss) : Content(ss[k]) => ss[Len(ss)] = SetNeedUpdate
  /\ \A k \in 1 .. Len(ss) : ss[k] # ClearNeedUpdate

\* Taking one pending store away leaves the others in their order.
LEMMA WithoutType ==
  ASSUME NEW S, NEW s \in Seq(S), NEW k \in 1 .. Len(s)
  PROVE  /\ Without(s, k) \in Seq(S)
         /\ Len(Without(s, k)) = Len(s) - 1
         /\ \A j \in 1 .. Len(s) - 1 :
              Without(s, k)[j] = IF j < k THEN s[j] ELSE s[j + 1]
<1>1. Len(s) - 1 \in Nat
  BY LenProperties
<1>2. Without(s, k) \in [1 .. Len(s) - 1 -> S]
  BY <1>1, ElementOfSeq DEF Without
<1>3. QED BY <1>1, <1>2, SeqDef DEF Without

\* Stores of content followed by vfd->need_update = 1 ask at the end.
LEMMA AskLast ==
  ASSUME NEW s \in Seq(Store), \A k \in 1 .. Len(s) : Content(s[k])
  PROVE  s \o <<SetNeedUpdate>> \in Seq(Store) /\ AsksAtEnd(s \o <<SetNeedUpdate>>)
<1>1. <<SetNeedUpdate>> \in Seq(Store)
  BY DEF SetNeedUpdate, Store
<1>2. /\ s \o <<SetNeedUpdate>> \in Seq(Store)
      /\ Len(s \o <<SetNeedUpdate>>) = Len(s) + 1
      /\ \A k \in 1 .. Len(s) : (s \o <<SetNeedUpdate>>)[k] = s[k]
      /\ (s \o <<SetNeedUpdate>>)[Len(s) + 1] = SetNeedUpdate
  BY <1>1, ConcatProperties, LenProperties
<1>3. SetNeedUpdate # ClearNeedUpdate
  BY DEF SetNeedUpdate, ClearNeedUpdate
<1>4. \A k \in 1 .. Len(s) : s[k] # ClearNeedUpdate
  BY DEF Content, ClearNeedUpdate
<1>5. QED BY <1>2, <1>3, <1>4, LenProperties DEF AsksAtEnd

\* _display_store stores inside the text and asks for an update last.
LEMMA DisplayStoresType ==
  ASSUME NEW text \in Seq(Chars)
  PROVE  DisplayStores(text) \in Seq(Store) /\ AsksAtEnd(DisplayStores(text))
<1> DEFINE n     == IF Len(text) > DisplayLen THEN DisplayLen ELSE Len(text)
           pads  == [k \in 1 .. DisplayLen - n |-> DisplayStore(n + k - 1, NullChar)]
           copy  == [k \in 1 .. n |-> DisplayStore(k - 1, text[k])]
           Shown == [loc : {"display"}, at : Words, ch : Chars]
<1>1. n \in 0 .. DisplayLen /\ n <= Len(text) /\ DisplayLen \in 0 .. NWords /\ NWords \in Nat
  BY LenProperties, VfdAssumption, Pt6964Assumption
<1> HIDE DEF n
<1>2. pads \in Seq(Shown)
  <2>1. DisplayLen - n \in Nat
    BY <1>1
  <2>2. pads \in [1 .. DisplayLen - n -> Shown]
    BY <1>1, VfdAssumption DEF DisplayStore, Words
  <2> HIDE DEF pads
  <2>3. QED BY <2>1, <2>2, FunctionIsSeq, Zenon
<1>3. copy \in Seq(Shown)
  <2>1. \A k \in 1 .. n : text[k] \in Chars
    BY <1>1, ElementOfSeq, LenProperties
  <2>2. copy \in [1 .. n -> Shown]
    BY <1>1, <2>1 DEF DisplayStore, Words
  <2>3. QED BY <1>1, <2>2, SeqDef
<1>4. pads \o copy \in Seq(Shown)
  BY <1>2, <1>3, ConcatProperties, Zenon
<1> HIDE DEF pads, copy
<1>5. pads \o copy \in Seq(Store) /\ \A k \in 1 .. Len(pads \o copy) : Content((pads \o copy)[k])
  <2>1. Shown \subseteq Store
    BY DEF Store
  <2>2. \A k \in 1 .. Len(pads \o copy) : (pads \o copy)[k] \in Shown
    BY <1>4, ElementOfSeq, Zenon
  <2>3. \A x \in Shown : Content(x)
    BY DEF Content
  <2>4. pads \o copy \in Seq(Store)
    BY <1>4, <2>1, SeqMonotonic, Zenon
  <2>5. QED BY <2>2, <2>3, <2>4, Zenon
<1>6. DisplayStores(text) = (pads \o copy) \o <<SetNeedUpdate>>
  BY DEF DisplayStores, pads, copy, n
<1>7. QED BY <1>5, <1>6, AskLast, Zenon

\* overlay_store stores inside the overlay and asks for an update last.
LEMMA OverlayStoresType ==
  ASSUME NEW words \in Seq(Word)
  PROVE  OverlayStores(words) \in Seq(Store) /\ AsksAtEnd(OverlayStores(words))
<1> DEFINE n == IF Len(words) > NWords THEN NWords ELSE Len(words)
           copy == [k \in 1 .. n |-> OverlayStore(k - 1, words[k])]
<1>0. n \in Nat /\ n <= Len(words) /\ n <= NWords
  BY LenProperties, Pt6964Assumption
<1>1. \A k \in 1 .. n : words[k] \in Word /\ k - 1 \in Words
  BY <1>0, ElementOfSeq, LenProperties, Pt6964Assumption DEF Words
<1> HIDE DEF n
<1>2. copy \in [1 .. n -> Store]
  BY <1>1 DEF OverlayStore, Store
<1>3. copy \in Seq(Store) /\ Len(copy) = n
  BY <1>0, <1>2, LenProperties, SeqDef
<1>4. \A k \in 1 .. Len(copy) : Content(copy[k])
  BY <1>3 DEF OverlayStore, Content
<1> HIDE DEF copy
<1>5. OverlayStores(words) = copy \o <<SetNeedUpdate>>
  BY DEF OverlayStores, copy, n
<1>6. QED BY <1>3, <1>4, <1>5, AskLast, Zenon

\* dotled_store stores inside the overlay and asks for an update last.
LEMMA LedStoresType ==
  ASSUME NEW led \in LedAssignment, raw_overlay \in [Words -> Word]
  PROVE  LedStores(led) \in Seq(Store) /\ AsksAtEnd(LedStores(led))
<1> DEFINE new == IF led.on THEN raw_overlay[led.word] \cup {led.bit}
                            ELSE raw_overlay[led.word] \ {led.bit}
           one == OverlayStore(led.word, new)
<1>1. led.word \in Words /\ led.bit \in 0 .. 15
  BY DEF LedAssignment
<1>2. new \in Word
  BY <1>1 DEF Word
<1> HIDE DEF new
<1>3. one \in Store /\ Content(one)
  BY <1>1, <1>2 DEF OverlayStore, Store, Content
<1>4. SetNeedUpdate \in Store /\ SetNeedUpdate # ClearNeedUpdate /\ one # ClearNeedUpdate
  BY DEF SetNeedUpdate, ClearNeedUpdate, Store, OverlayStore
<1>5. LedStores(led) = <<one, SetNeedUpdate>>
  BY DEF LedStores, new
<1> HIDE DEF one
<1>6. QED BY <1>3, <1>4, <1>5 DEF AsksAtEnd

\* So does every handler of sysfs, with the values it clamps.
LEMMA SectionStoresType ==
  ASSUME NEW r \in Request, r.op # "power", raw_overlay \in [Words -> Word]
  PROVE  SectionStores(r) \in Seq(Store) /\ AsksAtEnd(SectionStores(r))
<1>1. CASE r.op = "display"
  <2>1. r.text \in Seq(Chars)
    BY <1>1 DEF Request, Settings
  <2>2. QED BY <1>1, <2>1, DisplayStoresType DEF SectionStores
<1>2. CASE r.op = "overlay"
  <2>1. r.words \in Seq(Word)
    BY <1>2 DEF Request, Settings
  <2>2. QED BY <1>2, <2>1, OverlayStoresType DEF SectionStores
<1>3. CASE r.op = "dotled"
  <2>1. Head(r.leds) \in LedAssignment
    BY <1>3, HeadTailProperties DEF Request, Settings
  <2>2. QED BY <1>3, <2>1, LedStoresType DEF SectionStores
<1>4. CASE r.op \in {"enabled", "brightness", "brightness_suspend"}
  <2> DEFINE v == IF r.val > Limit(r.op) THEN Limit(r.op) ELSE r.val
             one == SettingStore(r.op, v)
  <2>1. r.val \in Nat
    BY <1>4 DEF Request, Settings
  <2>2. one \in Store
    <3>1. CASE r.op = "enabled"
      BY <2>1, <3>1 DEF Limit, SettingStore, Store
    <3>2. CASE r.op = "brightness"
      BY <2>1, <3>2 DEF Limit, SettingStore, Store, MaxBrightness
    <3>3. CASE r.op = "brightness_suspend"
      BY <2>1, <3>3 DEF Limit, SettingStore, Store, MaxBrightness
    <3>4. QED BY <1>4, <3>1, <3>2, <3>3
  <2>3. ~ Content(one) /\ one # ClearNeedUpdate
    BY <1>4 DEF SettingStore, Content, ClearNeedUpdate
  <2>4. SectionStores(r) = <<one>>
    BY <1>4 DEF SectionStores
  <2> HIDE DEF one
  <2>5. QED BY <2>2, <2>3, <2>4 DEF AsksAtEnd
<1>5. QED BY <1>1, <1>2, <1>3, <1>4 DEF Request, Settings

-----------------------------------------------------------------------------
(* Types.                                                                  *)

\* What the calls and the handler are about, where they are.
Control ==
  /\ \A c \in Callers : pc[c] \in {"enter", "inside"} => req[c] \in Request /\ req[c].op # "power"
  /\ pc[Timer] = "boot" => boot_anim > 0

\* The type invariant, made inductive.
TypeInv == TypeOK /\ Control

\* vfd_probe hands over a well-typed structure.
LEMMA TypeInit == Init => TypeInv
<1> SUFFICES ASSUME Init PROVE TypeInv
  OBVIOUS
<1> USE DEF Init
<1>1. Timer \notin Callers /\ Timer \in Procs
  BY VfdAssumption DEF Procs
<1>2. stores \in [Procs -> Seq(Store)]
  OBVIOUS
<1>3. wire \in [Procs -> Seq(BusOp)]
  BY HardwareInitType
<1>4. chip \in Chip
  BY DEF PowerOn, Chip, Byte
<1>5. raw_overlay \in [Words -> Word] /\ Blank \in [Words -> Word]
  BY DEF Blank, Word
<1>6. boot_anim \in 0 .. Len(BootText)
  BY VfdAssumption
<1>7. idx \in Words
  BY Pt6964Assumption DEF Words
<1>8. settings \in [Settings -> 0 .. MaxBrightness] /\ settings["enabled"] \in 0 .. 1
  BY DEF Settings, MaxBrightness, InitBrightness
<1>9. pc \in [Procs -> Labels \cup TimerLabels] /\ pc[Timer] = "probe"
      /\ \A c \in Callers : pc[c] = "idle"
  BY <1>1 DEF Labels, TimerLabels, Procs
<1>10. lock \in Procs \cup {NoOne} /\ req \in [Callers -> Request \cup {NoRequest}]
  OBVIOUS
<1>11. display \in [Words -> Chars]
  BY VfdAssumption
<1>12. raw_display \in [Words -> Word] /\ raw \in [Words -> Word]
  BY <1>5
<1>13. need_update \in 0 .. 1 /\ suspended \in 0 .. 1 /\ power \in {"on", "asleep", "down"}
       /\ pofs \in Words \cup {NoOffset}
  OBVIOUS
<1>14. pc[Timer] \in TimerLabels /\ \A c \in Callers : pc[c] \in Labels
  BY <1>9 DEF Labels, TimerLabels
<1>15. Control
  BY <1>9 DEF Control
<1> HIDE DEF Init
<1>16. QED
  BY <1>2, <1>3, <1>4, <1>5, <1>6, <1>7, <1>8, <1>9, <1>10, <1>11, <1>12, <1>13, <1>14, <1>15
  DEF TypeInv, TypeOK

\* The index of the loops of hardware_update_display stays in the array.
LEMMA LoopType ==
  ASSUME idx \in Words, NEW label, NEW next, Loop(label, next)
  PROVE  idx' \in Words
  BY Pt6964Assumption DEF Loop, Words

\* vfd_display_to_raw_cc yields a word for every character.
LEMMA RenderedType ==
  ASSUME NEW i \in Words
  PROVE  Rendered(i) \in Word
<1>1. ASSUME NEW ch PROVE CellCode(ch) \in Word
  BY VfdAssumption DEF CellCode, Word
<1>2. {} \in Word
  BY DEF Word
<1>3. QED BY <1>1, <1>2 DEF Rendered

\* A store that becomes visible keeps the types of struct vfd_t.
LEMMA CommitType ==
  ASSUME NEW s \in Store, Commit(s), TypeOK
  PROVE  /\ display' \in [Words -> Chars]
         /\ raw_overlay' \in [Words -> Word]
         /\ need_update' \in 0 .. 1
         /\ settings' \in [Settings -> 0 .. MaxBrightness] /\ settings'["enabled"] \in 0 .. 1
<1> USE DEF TypeOK
<1>1. display' \in [Words -> Chars]
  BY DEF Commit, Store, Settings
<1>2. raw_overlay' \in [Words -> Word]
  BY DEF Commit, Store, Settings
<1>3. need_update' \in 0 .. 1
  BY DEF Commit, Store, Settings
<1>4. settings' \in [Settings -> 0 .. MaxBrightness] /\ settings'["enabled"] \in 0 .. 1
  BY DEF Commit, Store, Settings, MaxBrightness
<1>5. QED BY <1>1, <1>2, <1>3, <1>4

\* Every handler and every step of one keeps the types.
LEMMA TypeNext == TypeInv /\ [Next]_vars => TypeInv'
<1> SUFFICES ASSUME TypeInv, [Next]_vars PROVE TypeInv'
  OBVIOUS
<1> USE DEF TypeInv, TypeOK, Control, Goto, shared, local
<1>a. Timer \in Procs /\ Timer \notin Callers /\ Callers \subseteq Procs
      /\ Procs = Callers \cup {Timer}
  BY VfdAssumption DEF Procs
<1>1. ASSUME NEW c \in Callers, NEW r \in Requests, CallStore(c, r) PROVE TypeInv'
  BY <1>a, <1>1, VfdAssumption DEF CallStore, Labels, TimerLabels
<1>2. ASSUME NEW c \in Callers, NEW r \in Requests, CallPower(c, r) PROVE TypeInv'
  BY <1>a, <1>2, VfdAssumption DEF CallPower, Labels, TimerLabels
<1>3. ASSUME NEW c \in Callers, Enter(c) PROVE TypeInv'
  <2>1. SectionStores(req[c]) \in Seq(Store)
    BY <1>3, SectionStoresType DEF Enter
  <2>2. QED BY <1>a, <1>3, <2>1 DEF Enter, Lock, Labels, TimerLabels
<1>4. ASSUME NEW c \in Callers, Leave(c) PROVE TypeInv'
  <2>1. req[c] \in Request \cup {NoRequest}
    OBVIOUS
  <2>2. ASSUME req[c].op = "dotled", Len(req[c].leds) > 1
        PROVE  [req[c] EXCEPT !.leds = Tail(req[c].leds)] \in Request
               /\ [req[c] EXCEPT !.leds = Tail(req[c].leds)].op = "dotled"
    <3>1. req[c] \in [op : {"dotled"}, leds : Seq(LedAssignment) \ {<<>>}]
      BY <2>1, <2>2 DEF Request, NoRequest, Settings
    <3>2. Tail(req[c].leds) \in Seq(LedAssignment) \ {<<>>}
      BY <2>2, <3>1, TailNotEmpty
    <3>3. QED BY <3>1, <3>2 DEF Request
  <2>3. req' \in [Callers -> Request \cup {NoRequest}]
    BY <1>4, <2>2 DEF Leave
  <2>4. pc' \in [Procs -> Labels \cup TimerLabels] /\ pc'[Timer] = pc[Timer]
        /\ \A d \in Callers : pc'[d] \in Labels
    BY <1>a, <1>4, ZenonT(40) DEF Leave, Labels
  <2>5. Control'
    <3>1. ASSUME NEW d \in Callers \ {c} PROVE pc'[d] = pc[d] /\ req'[d] = req[d]
      <4>1. pc'[d] = pc[d]
        BY <1>a, <1>4 DEF Leave
      <4>2. req'[d] = req[d]
        BY <1>4 DEF Leave
      <4>3. QED BY <4>1, <4>2
    <3>2. pc'[c] \in {"enter", "inside"} => req'[c] \in Request /\ req'[c].op # "power"
      BY <1>a, <1>4, <2>2 DEF Leave
    <3>3. boot_anim' = boot_anim
      BY <1>4 DEF Leave
    <3>4. QED BY <2>4, <3>1, <3>2, <3>3
  <2>6. QED BY <1>4, <2>3, <2>4, <2>5 DEF Leave, Unlock
<1>5. ASSUME NEW c \in Callers, EnterApply(c) PROVE TypeInv'
  BY <1>a, <1>5, UpdateBrightnessType DEF EnterApply, Lock, Labels, TimerLabels
<1>6. ASSUME NEW c \in Callers, LeaveApply(c) PROVE TypeInv'
  BY <1>a, <1>6 DEF LeaveApply, Unlock, Labels, TimerLabels
<1>7. ASSUME NEW p \in Procs, StoreStep(p) PROVE TypeInv'
  <2>1. PICK k \in 1 .. Len(stores[p]) :
          Commit(stores[p][k]) /\ stores' = [stores EXCEPT ![p] = Without(stores[p], k)]
    BY <1>7 DEF StoreStep
  <2>2. stores' \in [Procs -> Seq(Store)]
    BY <2>1, WithoutType
  <2>3. stores[p][k] \in Store
    BY ElementOfSeq
  <2>4. /\ display' \in [Words -> Chars]
        /\ raw_overlay' \in [Words -> Word]
        /\ need_update' \in 0 .. 1
        /\ settings' \in [Settings -> 0 .. MaxBrightness] /\ settings'["enabled"] \in 0 .. 1
    BY <2>1, <2>3, CommitType
  <2>5. QED BY <1>a, <1>7, <2>2, <2>4 DEF StoreStep
<1>8. ASSUME NEW p \in Procs, BusStep(p) PROVE TypeInv'
  <2>1. Head(wire[p]) \in BusOp /\ Tail(wire[p]) \in Seq(BusOp)
    BY <1>8, HeadTailProperties DEF BusStep
  <2>2. chip' \in Chip
    BY <1>8, <2>1, ChipStepType DEF BusStep
  <2>3. QED BY <1>a, <1>8, <2>1, <2>2 DEF BusStep
<1>9. CASE Armed
  BY <1>a, <1>9 DEF Armed, TimerLabels
<1>10. CASE Fire
  BY <1>a, <1>10 DEF Fire, AfterScan, TimerLabels
<1>11. CASE ScanEnter
  BY <1>a, <1>11, ReadKeysType DEF ScanEnter, Lock, TimerLabels
<1>12. CASE ScanLeave
  BY <1>a, <1>12 DEF ScanLeave, Unlock, AfterScan, TimerLabels
<1>13. CASE BootEnter
  <2>1. DisplayStores(BootText[boot_anim]) \in Seq(Store)
    <3>1. BootText \in Seq(Seq(Chars))
      BY VfdAssumption
    <3>2. boot_anim \in 1 .. Len(BootText)
      BY <1>a, <1>13, <3>1, LenProperties DEF BootEnter
    <3>3. BootText[boot_anim] \in Seq(Chars)
      BY <3>1, <3>2, ElementOfSeq
    <3>4. QED BY <3>3, DisplayStoresType
  <2>2. QED BY <1>a, <1>13, <2>1 DEF BootEnter, Lock, TimerLabels
<1>14. CASE BootLeave
  BY <1>a, <1>14 DEF BootLeave, Unlock, TimerLabels
<1>15. CASE Check
  <2>1. <<ClearNeedUpdate>> \in Seq(Store)
    BY DEF ClearNeedUpdate, Store
  <2>2. stores' \in [Procs -> Seq(Store)]
    BY <1>15, <2>1 DEF Check
  <2>3. Goto(Timer, "render") \/ Goto(Timer, "wait")
    BY <1>15 DEF Check
  <2>4. QED BY <1>a, <1>15, <2>2, <2>3 DEF Check, TimerLabels
<1>16. CASE Render
  <2>1. idx' \in Words /\ (Goto(Timer, "render") \/ Goto(Timer, "merge"))
    BY <1>16, LoopType DEF Render, Loop
  <2>2. raw' \in [Words -> Word]
    BY <1>16, RenderedType DEF Render
  <2>3. QED BY <1>a, <1>16, <2>1, <2>2 DEF Render, TimerLabels
<1>17. CASE Merge
  <2>1. idx' \in Words /\ (Goto(Timer, "merge") \/ Goto(Timer, "send"))
    BY <1>17, LoopType DEF Merge, Loop
  <2>2. raw' \in [Words -> Word]
    BY <1>17 DEF Merge, Word
  <2>3. QED BY <1>a, <1>17, <2>1, <2>2 DEF Merge, TimerLabels
<1>18. CASE SkipWord
  <2>1. idx' \in Words /\ (Goto(Timer, "send") \/ Goto(Timer, "close"))
    BY <1>18, LoopType DEF SkipWord, Loop
  <2>2. QED BY <1>a, <1>18, <2>1 DEF SkipWord, TimerLabels
<1>19. CASE ChangeWord
  <2>1. idx' \in Words /\ (Goto(Timer, "send") \/ Goto(Timer, "close"))
    BY <1>19, LoopType DEF ChangeWord, Loop
  <2>2. SendWord(pofs, idx, raw[idx]) \in Seq(BusOp)
    BY SendWordType
  <2>3. QED BY <1>a, <1>19, <2>1, <2>2, ZenonT(40) DEF ChangeWord, TimerLabels
<1>20. CASE Close
  BY <1>a, <1>20, EndUpdateType DEF Close, TimerLabels
<1>21. CASE Rearm
  <2>1. Blank \in [Words -> Word] /\ 0 \in Words
    BY Pt6964Assumption DEF Blank, Word, Words
  <2>2. QED BY <1>a, <1>21, <2>1 DEF Rearm, TimerLabels
<1>22. CASE UNCHANGED vars
  BY <1>22 DEF vars
<1>23. QED
  BY <1>1, <1>2, <1>3, <1>4, <1>5, <1>6, <1>7, <1>8, <1>9, <1>10, <1>11, <1>12, <1>13, <1>14,
     <1>15, <1>16, <1>17, <1>18, <1>19, <1>20, <1>21, <1>22
  DEF Next, Handler, Caller

-----------------------------------------------------------------------------
(* No update is lost when stores become visible in order.                  *)

\* Where stores may be pending, and what ends them.
Pending ==
  /\ \A c \in Callers : pc[c] # "inside" => stores[c] = <<>>
  /\ \A c \in Callers : AsksAtEnd(stores[c])
  /\ pc[Timer] \notin {"booting", "render"} => stores[Timer] = <<>>
  /\ pc[Timer] = "booting" => AsksAtEnd(stores[Timer])
  /\ pc[Timer] = "render" => \/ stores[Timer] = <<>>
                             \/ stores[Timer] = <<ClearNeedUpdate>> /\ idx = 0
  /\ pc[Timer] \notin {"render", "merge", "send"} => idx = 0

\* Some handler will ask for an update after its other stores.
Asking(p) == stores[p] # <<>> /\ stores[p][Len(stores[p])] = SetNeedUpdate
Asked == need_update = 1 \/ \E p \in Procs : Asking(p)

\* The update has not looked at word i yet, or what it holds for it is current.
Fresh(i) ==
  /\ pc[Timer] = "render" /\ i < idx => raw[i] = Rendered(i)
  /\ pc[Timer] = "merge" => raw[i] = IF i < idx THEN Want(i) ELSE Rendered(i)
  /\ pc[Timer] = "send" => IF i < idx THEN raw_display[i] = Want(i) ELSE raw[i] = Want(i)
  /\ pc[Timer] \notin {"render", "merge", "send"} => raw_display[i] = Want(i)

\* Another update is asked for, or this one is right so far.
UpdateInv == Pending /\ (Asked \/ \A i \in Words : Fresh(i))

\* When the first store of a section is visible the rest still asks at the end.
LEMMA RestAsks ==
  ASSUME NEW s \in Seq(Store), 1 \in 1 .. Len(s), AsksAtEnd(s)
  PROVE  /\ AsksAtEnd(Without(s, 1))
         /\ s[Len(s)] = SetNeedUpdate /\ s[1] # SetNeedUpdate
              => /\ Without(s, 1) # <<>>
                 /\ Without(s, 1)[Len(Without(s, 1))] = SetNeedUpdate
<1> DEFINE r == Without(s, 1)
<1>a. /\ r \in Seq(Store)
      /\ Len(r) = Len(s) - 1
      /\ \A j \in 1 .. Len(s) - 1 : r[j] = IF j < 1 THEN s[j] ELSE s[j + 1]
  BY WithoutType, Zenon
<1>b. Len(s) \in Nat
  BY LenProperties, Zenon
<1> HIDE DEF r
<1>1. /\ r \in Seq(Store)
      /\ Len(r) = Len(s) - 1
      /\ \A j \in 1 .. Len(s) - 1 : r[j] = s[j + 1]
      /\ Len(s) \in Nat
  BY <1>a, <1>b
<1>2. Len(s) > 1 => Len(r) \in 1 .. Len(s) - 1 /\ r[Len(r)] = s[Len(s)]
  BY <1>1
<1>3. AsksAtEnd(r)
  BY <1>1, <1>2 DEF AsksAtEnd
<1>4. ASSUME s[Len(s)] = SetNeedUpdate, s[1] # SetNeedUpdate
      PROVE  r # <<>> /\ r[Len(r)] = SetNeedUpdate
  <2>1. Len(s) > 1
    BY <1>1, <1>4
  <2>2. Len(r) # 0
    BY <1>1, <2>1
  <2>3. QED BY <1>2, <1>4, <2>1, <2>2
<1>5. QED BY <1>3, <1>4 DEF r

\* Whether an update is asked for depends on the flag and the pending stores only.
LEMMA AskedFrame == UNCHANGED <<stores, need_update>> => (Asked' <=> Asked)
  BY DEF Asked, Asking

\* What the update has achieved depends on its own place and on the content only.
LEMMA FreshFrame ==
  ASSUME UNCHANGED <<display, raw_overlay, raw_display>>,
         \/ pc'[Timer] = pc[Timer] /\ UNCHANGED <<raw, idx>>
         \/ {pc[Timer], pc'[Timer]} \cap {"render", "merge", "send"} = {},
         NEW i \in Words
  PROVE  Fresh(i)' <=> Fresh(i)
  BY DEF Fresh, Want, Rendered

\* A store that becomes visible is followed by a request for an update if it needs one.
LEMMA StoreStepKeeps ==
  ASSUME TypeInv, UpdateInv, ~ WeakOrder, NEW p \in Procs, StoreStep(p)
  PROVE  UpdateInv'
<1> DEFINE s == stores[p]
           first == s[1]
           rest == Without(s, 1)
<1>1. /\ s \in Seq(Store) /\ stores \in [Procs -> Seq(Store)]
      /\ Timer \in Procs /\ Timer \notin Callers /\ Procs = Callers \cup {Timer}
  BY VfdAssumption DEF TypeInv, TypeOK, Procs
<1>2. 1 \in 1 .. Len(s) /\ Commit(first) /\ stores' = [stores EXCEPT ![p] = rest]
      /\ UNCHANGED <<pc, raw, idx, raw_display>>
  BY DEF StoreStep, MayCommit, local
<1>3. s # <<>> /\ first \in Store
  BY <1>1, <1>2, ElementOfSeq
<1>4. stores'[p] = rest /\ \A q \in Procs \ {p} : stores'[q] = stores[q]
  BY <1>1, <1>2
<1> HIDE DEF s, first, rest
<1>5. ASSUME AsksAtEnd(s)
      PROVE  AsksAtEnd(rest) /\ (Asked' \/ \A i \in Words : Fresh(i)')
  <2>1. /\ AsksAtEnd(rest)
        /\ s[Len(s)] = SetNeedUpdate /\ first # SetNeedUpdate
             => rest # <<>> /\ rest[Len(rest)] = SetNeedUpdate
    BY <1>1, <1>2, <1>5, RestAsks DEF rest, first
  <2>2. CASE Content(first)
    <3>1. s[Len(s)] = SetNeedUpdate /\ first # SetNeedUpdate
      BY <1>2, <1>5, <2>2 DEF AsksAtEnd, first, Content, SetNeedUpdate
    <3>2. QED BY <1>4, <2>1, <3>1 DEF Asked, Asking
  <2>3. CASE first = SetNeedUpdate
    <3>1. need_update' = 1
      BY <1>2, <2>3 DEF Commit, SetNeedUpdate
    <3>2. QED BY <2>1, <3>1 DEF Asked
  <2>4. CASE ~ Content(first) /\ first # SetNeedUpdate
    <3>1. first # ClearNeedUpdate
      BY <1>2, <1>5 DEF AsksAtEnd, first
    <3>2. first.loc \in Settings
      BY <1>3, <2>4, <3>1 DEF Store, Content, SetNeedUpdate, ClearNeedUpdate, Settings
    <3>3. UNCHANGED <<display, raw_overlay, need_update>>
      BY <1>2, <3>2 DEF Commit, Settings
    <3>4. Asked => Asked'
      <4>1. need_update = 1 => Asked'
        BY <3>3 DEF Asked
      <4>2. Asking(p) => Asking(p)'
        BY <1>4, <2>1, <2>4 DEF Asking, s
      <4>3. \A q \in Procs \ {p} : Asking(q) => Asking(q)'
        BY <1>4 DEF Asking
      <4>4. QED BY <4>1, <4>2, <4>3 DEF Asked
    <3>5. \A i \in Words : Fresh(i)' <=> Fresh(i)
      BY <1>2, <3>3, FreshFrame
    <3>6. QED BY <2>1, <3>4, <3>5 DEF UpdateInv
  <2>5. QED BY <2>2, <2>3, <2>4
<1>6. CASE p \in Callers
  <2>1. pc[p] = "inside" /\ AsksAtEnd(s)
    BY <1>3, <1>6 DEF UpdateInv, Pending, s
  <2>2. Pending'
    BY <1>1, <1>2, <1>4, <1>5, <1>6, <2>1 DEF UpdateInv, Pending
  <2>3. QED BY <1>5, <2>1, <2>2 DEF UpdateInv
<1>7. CASE p = Timer /\ pc[Timer] = "booting"
  <2>1. AsksAtEnd(s)
    BY <1>7 DEF UpdateInv, Pending, s
  <2>2. Pending'
    BY <1>1, <1>2, <1>4, <1>5, <1>7, <2>1 DEF UpdateInv, Pending
  <2>3. QED BY <1>5, <2>1, <2>2 DEF UpdateInv
<1>8. CASE p = Timer /\ pc[Timer] = "render"
  <2>1. s = <<ClearNeedUpdate>> /\ idx = 0
    BY <1>3, <1>8 DEF UpdateInv, Pending, s
  <2>2. rest = <<>>
    BY <2>1 DEF rest, Without
  <2>3. Pending'
    BY <1>1, <1>2, <1>4, <1>8, <2>2 DEF UpdateInv, Pending
  <2>4. \A i \in Words : Fresh(i)'
    BY <1>2, <1>8, <2>1 DEF Fresh, Words
  <2>5. QED BY <2>3, <2>4 DEF UpdateInv
<1>9. QED BY <1>1, <1>3, <1>6, <1>7, <1>8 DEF UpdateInv, Pending, s

\* Every step of a handler keeps UpdateInv when its stores become visible in order.
LEMMA UpdateNext ==
  ASSUME TypeInv, UpdateInv, ~ WeakOrder, [Next]_vars
  PROVE  UpdateInv'
<1> USE DEF Goto, shared, local
<1>a. /\ Timer \in Procs /\ Timer \notin Callers /\ Callers \subseteq Procs
      /\ Procs = Callers \cup {Timer}
      /\ pc \in [Procs -> Labels \cup TimerLabels] /\ stores \in [Procs -> Seq(Store)]
  BY VfdAssumption DEF Procs, TypeInv, TypeOK
<1>b. UNCHANGED <<stores, need_update>> => (Asked' <=> Asked)
  BY AskedFrame
<1>c. ASSUME UNCHANGED <<stores, need_update, display, raw_overlay, raw_display>>,
             \/ pc'[Timer] = pc[Timer] /\ UNCHANGED <<raw, idx>>
             \/ {pc[Timer], pc'[Timer]} \cap {"render", "merge", "send"} = {}
      PROVE  Asked' \/ \A i \in Words : Fresh(i)'
  BY <1>c, AskedFrame, FreshFrame DEF UpdateInv
<1>1. ASSUME NEW c \in Callers, NEW r \in Requests, CallStore(c, r) PROVE UpdateInv'
  <2>1. Pending'
    BY <1>a, <1>1 DEF CallStore, UpdateInv, Pending
  <2>2. QED BY <1>a, <1>c, <1>1, <2>1 DEF CallStore, UpdateInv
<1>2. ASSUME NEW c \in Callers, NEW r \in Requests, CallPower(c, r) PROVE UpdateInv'
  <2>1. Pending'
    BY <1>a, <1>2 DEF CallPower, UpdateInv, Pending
  <2>2. QED BY <1>a, <1>c, <1>2, <2>1 DEF CallPower, UpdateInv
<1>3. ASSUME NEW c \in Callers, Enter(c) PROVE UpdateInv'
  <2>1. SectionStores(req[c]) \in Seq(Store) /\ AsksAtEnd(SectionStores(req[c]))
    BY <1>3, SectionStoresType DEF Enter, TypeInv, TypeOK, Control
  <2>2. stores[c] = <<>>
    BY <1>3 DEF Enter, UpdateInv, Pending
  <2>3. \A d \in Callers \ {c} : stores'[d] = stores[d] /\ pc'[d] = pc[d]
    BY <1>a, <1>3 DEF Enter
  <2>4. /\ stores'[c] = SectionStores(req[c]) /\ pc'[c] = "inside"
        /\ stores'[Timer] = stores[Timer] /\ pc'[Timer] = pc[Timer]
    BY <1>a, <1>3 DEF Enter
  <2>5. Pending'
    BY <1>3, <2>1, <2>3, <2>4 DEF Enter, UpdateInv, Pending
  <2>6. Asked => Asked'
    <3>1. ASSUME NEW p \in Procs, Asking(p) PROVE Asking(p)'
      BY <1>a, <2>2, <2>3, <2>4, <3>1 DEF Asking
    <3>2. QED BY <1>3, <3>1 DEF Asked, Enter
  <2>7. \A i \in Words : Fresh(i)' <=> Fresh(i)
    BY <1>3, <2>4, FreshFrame DEF Enter
  <2>8. QED BY <2>5, <2>6, <2>7 DEF UpdateInv
<1>4. ASSUME NEW c \in Callers, Leave(c) PROVE UpdateInv'
  <2>1. stores[c] = <<>> /\ pc'[Timer] = pc[Timer] /\ \A d \in Callers \ {c} : pc'[d] = pc[d]
    BY <1>a, <1>4 DEF Leave, Unlock
  <2>2. Pending'
    BY <1>4, <2>1 DEF Leave, UpdateInv, Pending
  <2>3. QED BY <1>c, <1>4, <2>1, <2>2 DEF Leave, UpdateInv
<1>5. ASSUME NEW c \in Callers, EnterApply(c) PROVE UpdateInv'
  <2>1. Pending'
    BY <1>a, <1>5 DEF EnterApply, UpdateInv, Pending
  <2>2. QED BY <1>a, <1>c, <1>5, <2>1 DEF EnterApply, UpdateInv
<1>6. ASSUME NEW c \in Callers, LeaveApply(c) PROVE UpdateInv'
  <2>1. Pending'
    BY <1>a, <1>6 DEF LeaveApply, UpdateInv, Pending
  <2>2. QED BY <1>a, <1>c, <1>6, <2>1 DEF LeaveApply, UpdateInv
<1>7. ASSUME NEW p \in Procs, StoreStep(p) PROVE UpdateInv'
  BY <1>7, StoreStepKeeps
<1>8. ASSUME NEW p \in Procs, BusStep(p) PROVE UpdateInv'
  <2>1. Pending'
    BY <1>8 DEF BusStep, UpdateInv, Pending
  <2>2. QED BY <1>c, <1>8, <2>1 DEF BusStep, UpdateInv
<1>9. CASE Armed \/ Fire \/ ScanEnter \/ ScanLeave
  <2>1. /\ UNCHANGED <<stores, need_update, display, raw_overlay, raw_display, raw, idx>>
        /\ pc[Timer] \in {"probe", "wait", "scan", "scanning"}
        /\ pc'[Timer] \in {"wait", "scan", "scanning", "boot", "check"}
        /\ \A c \in Callers : pc'[c] = pc[c]
    BY <1>a, <1>9 DEF Armed, Fire, ScanEnter, ScanLeave, AfterScan
  <2>2. Pending'
    BY <2>1 DEF UpdateInv, Pending
  <2>3. QED BY <1>c, <2>1, <2>2 DEF UpdateInv
<1>10. CASE BootEnter
  <2>1. DisplayStores(BootText[boot_anim]) \in Seq(Store)
        /\ AsksAtEnd(DisplayStores(BootText[boot_anim]))
    <3>1. BootText \in Seq(Seq(Chars))
      BY VfdAssumption
    <3>2. boot_anim \in 1 .. Len(BootText)
      BY <1>10, <3>1, LenProperties DEF BootEnter, TypeInv, TypeOK, Control
    <3>3. BootText[boot_anim] \in Seq(Chars)
      BY <3>1, <3>2, ElementOfSeq
    <3>4. QED BY <3>3, DisplayStoresType
  <2>2. stores[Timer] = <<>>
    BY <1>10 DEF BootEnter, UpdateInv, Pending
  <2>3. /\ stores'[Timer] = DisplayStores(BootText[boot_anim]) /\ pc'[Timer] = "booting"
        /\ \A c \in Callers : stores'[c] = stores[c] /\ pc'[c] = pc[c]
        /\ idx' = idx /\ pc[Timer] = "boot"
    BY <1>a, <1>10 DEF BootEnter
  <2>4. Pending'
    BY <2>1, <2>3 DEF UpdateInv, Pending
  <2>5. Asked => Asked'
    <3>1. ASSUME NEW p \in Procs, Asking(p) PROVE Asking(p)'
      BY <1>a, <2>2, <2>3, <3>1 DEF Asking
    <3>2. QED BY <1>10, <3>1 DEF Asked, BootEnter
  <2>6. \A i \in Words : Fresh(i)' <=> Fresh(i)
    BY <1>10, <2>3, FreshFrame DEF BootEnter
  <2>7. QED BY <2>4, <2>5, <2>6 DEF UpdateInv
<1>11. CASE BootLeave
  <2>1. /\ stores[Timer] = <<>> /\ pc[Timer] = "booting" /\ pc'[Timer] = "check"
        /\ \A c \in Callers : pc'[c] = pc[c]
    BY <1>a, <1>11 DEF BootLeave, Unlock
  <2>2. Pending'
    BY <1>11, <2>1 DEF BootLeave, UpdateInv, Pending
  <2>3. QED BY <1>c, <1>11, <2>1, <2>2 DEF BootLeave, UpdateInv
<1>12. CASE Check
  <2>1. pc[Timer] = "check" /\ stores[Timer] = <<>> /\ \A c \in Callers : pc'[c] = pc[c]
    BY <1>a, <1>12 DEF Check, UpdateInv, Pending
  <2>2. CASE need_update = 1
    <3>1. /\ pc'[Timer] = "render" /\ stores'[Timer] = <<ClearNeedUpdate>> /\ need_update' = 1
          /\ \A c \in Callers : stores'[c] = stores[c]
      BY <1>a, <1>12, <2>2 DEF Check
    <3>2. idx = 0 /\ idx' = 0
      BY <1>12, <2>1 DEF Check, UpdateInv, Pending
    <3>3. Pending'
      BY <1>12, <2>1, <3>1, <3>2 DEF Check, UpdateInv, Pending
    <3>4. QED BY <3>1, <3>3 DEF UpdateInv, Asked
  <2>3. CASE need_update = 0
    <3>1. pc'[Timer] = "wait" /\ UNCHANGED stores
      BY <1>a, <1>12, <2>3 DEF Check
    <3>2. Pending'
      BY <1>12, <2>1, <3>1 DEF Check, UpdateInv, Pending
    <3>3. QED BY <1>c, <1>12, <2>1, <3>1, <3>2 DEF Check, UpdateInv
  <2>4. QED BY <1>12, <2>2, <2>3 DEF Check
<1>13. CASE Render
  <2>1. /\ pc[Timer] = "render" /\ stores[Timer] = <<>> /\ idx \in Words /\ NWords \in Nat \ {0}
        /\ raw \in [Words -> Word]
    BY <1>13, Pt6964Assumption DEF Render, InOrder, TypeInv, TypeOK
  <2>2. /\ raw'[idx] = Rendered(idx) /\ \A i \in Words \ {idx} : raw'[i] = raw[i]
        /\ UNCHANGED <<stores, need_update, display, raw_overlay, raw_display>>
        /\ \A c \in Callers : pc'[c] = pc[c]
        /\ \A i \in Words : Rendered(i)' = Rendered(i)
    BY <1>a, <1>13, <2>1 DEF Render, Loop, Rendered
  <2>3. \/ idx + 1 = NWords /\ idx' = 0 /\ pc'[Timer] = "merge"
        \/ idx + 1 # NWords /\ idx' = idx + 1 /\ pc'[Timer] = "render"
    BY <1>a, <1>13 DEF Render, Loop
  <2>4. Pending'
    BY <2>1, <2>2, <2>3 DEF UpdateInv, Pending
  <2>5. ASSUME NEW i \in Words, Fresh(i) PROVE Fresh(i)'
    BY <2>1, <2>2, <2>3, <2>5 DEF Fresh, Words
  <2>6. QED BY <1>b, <2>2, <2>4, <2>5 DEF UpdateInv
<1>14. CASE Merge
  <2>1. /\ pc[Timer] = "merge" /\ stores[Timer] = <<>> /\ idx \in Words /\ NWords \in Nat \ {0}
        /\ raw \in [Words -> Word]
    BY <1>14, Pt6964Assumption DEF Merge, UpdateInv, Pending, TypeInv, TypeOK
  <2>2. /\ raw'[idx] = raw[idx] \cup raw_overlay[idx] /\ \A i \in Words \ {idx} : raw'[i] = raw[i]
        /\ UNCHANGED <<stores, need_update, display, raw_overlay, raw_display>>
        /\ \A c \in Callers : pc'[c] = pc[c]
        /\ \A i \in Words : Rendered(i)' = Rendered(i) /\ Want(i)' = Want(i)
    BY <1>a, <1>14, <2>1 DEF Merge, Loop, Rendered, Want
  <2>3. \/ idx + 1 = NWords /\ idx' = 0 /\ pc'[Timer] = "send"
        \/ idx + 1 # NWords /\ idx' = idx + 1 /\ pc'[Timer] = "merge"
    BY <1>a, <1>14 DEF Merge, Loop
  <2>4. Pending'
    BY <2>1, <2>2, <2>3 DEF UpdateInv, Pending
  <2>5. ASSUME NEW i \in Words, Fresh(i) PROVE Fresh(i)'
    <3>1. raw[i] = IF i < idx THEN Want(i) ELSE Rendered(i)
      BY <2>1, <2>5 DEF Fresh
    <3>2. raw'[i] = IF i < idx + 1 THEN Want(i) ELSE Rendered(i)
      <4>1. CASE i = idx
        <5>1. raw'[i] = Rendered(i) \cup raw_overlay[i]
          BY <2>1, <2>2, <3>1, <4>1 DEF Words
        <5>2. i < idx + 1
          BY <2>1, <4>1 DEF Words
        <5>3. QED BY <5>1, <5>2 DEF Want
      <4>2. CASE i # idx
        <5>1. raw'[i] = raw[i] /\ (i < idx <=> i < idx + 1)
          BY <2>1, <2>2, <4>2 DEF Words
        <5>2. QED BY <3>1, <5>1
      <4>3. QED BY <4>1, <4>2
    <3>3. QED BY <2>1, <2>2, <2>3, <3>2 DEF Fresh, Words
  <2>6. QED BY <1>b, <2>2, <2>4, <2>5 DEF UpdateInv
<1>15. CASE SkipWord \/ ChangeWord
  <2>1. /\ pc[Timer] = "send" /\ stores[Timer] = <<>> /\ idx \in Words /\ NWords \in Nat \ {0}
        /\ raw_display \in [Words -> Word]
    BY <1>15, Pt6964Assumption DEF SkipWord, ChangeWord, UpdateInv, Pending, TypeInv, TypeOK
  <2>2. /\ raw_display'[idx] = raw[idx] /\ \A i \in Words \ {idx} : raw_display'[i] = raw_display[i]
        /\ UNCHANGED <<stores, need_update, display, raw_overlay, raw>>
        /\ \A c \in Callers : pc'[c] = pc[c]
        /\ \A i \in Words : Want(i)' = Want(i)
    BY <1>a, <1>15, <2>1 DEF SkipWord, ChangeWord, Loop, Rendered, Want
  <2>3. \/ idx + 1 = NWords /\ idx' = 0 /\ pc'[Timer] = "close"
        \/ idx + 1 # NWords /\ idx' = idx + 1 /\ pc'[Timer] = "send"
    BY <1>a, <1>15 DEF SkipWord, ChangeWord, Loop
  <2>4. Pending'
    BY <2>1, <2>2, <2>3 DEF UpdateInv, Pending
  <2>5. ASSUME NEW i \in Words, Fresh(i) PROVE Fresh(i)'
    <3>1. IF i < idx THEN raw_display[i] = Want(i) ELSE raw[i] = Want(i)
      BY <2>1, <2>5 DEF Fresh
    <3>2. IF i < idx + 1 THEN raw_display'[i] = Want(i) ELSE raw'[i] = Want(i)
      BY <2>1, <2>2, <3>1 DEF Words
    <3>3. QED BY <2>1, <2>2, <2>3, <3>2 DEF Fresh, Words
  <2>6. QED BY <1>b, <2>2, <2>4, <2>5 DEF UpdateInv
<1>16. CASE Close \/ Rearm
  <2>1. /\ UNCHANGED <<stores, need_update, display, raw_overlay, raw_display>>
        /\ pc[Timer] \in {"close", "rearm"} /\ pc'[Timer] \in {"rearm", "wait"}
        /\ \A c \in Callers : pc'[c] = pc[c]
        /\ idx' = idx \/ idx' = 0
    BY <1>a, <1>16 DEF Close, Rearm
  <2>2. Pending'
    BY <2>1 DEF UpdateInv, Pending
  <2>3. \A i \in Words : Fresh(i)' <=> Fresh(i)
    BY <2>1 DEF Fresh, Want, Rendered
  <2>4. QED BY <1>b, <2>1, <2>2, <2>3 DEF UpdateInv
<1>17. CASE UNCHANGED vars
  <2>1. Pending'
    BY <1>17 DEF vars, UpdateInv, Pending
  <2>2. QED BY <1>c, <1>17, <2>1 DEF vars, UpdateInv
<1>18. QED
  BY <1>1, <1>2, <1>3, <1>4, <1>5, <1>6, <1>7, <1>8, <1>9, <1>10, <1>11, <1>12, <1>13,
     <1>14, <1>15, <1>16, <1>17 DEF Next, Handler, Caller

\* The zeroed structure of vfd_probe asks for nothing and shows nothing.
LEMMA UpdateInit == ASSUME TypeInv, Init PROVE UpdateInv
<1>1. /\ Timer \in Procs /\ Timer \notin Callers /\ Callers \subseteq Procs
  BY VfdAssumption DEF Procs
<1>2. /\ \A p \in Procs : stores[p] = <<>>
      /\ pc[Timer] = "probe" /\ idx = 0
  BY <1>1 DEF Init
<1>3. Pending
  BY <1>1, <1>2 DEF Pending, AsksAtEnd
<1>4. \A i \in Words : raw_display[i] = Want(i)
  BY VfdAssumption DEF Init, Want, Rendered, CellCode, Blank, Words, Cells
<1>5. QED BY <1>2, <1>3, <1>4 DEF UpdateInv, Fresh

\* When no update is due or under way, the driver has sent what is wanted.
LEMMA FreshWhenClean == ASSUME TypeInv, UpdateInv PROVE NoLostUpdate
<1> SUFFICES ASSUME ~ Dirty, NEW i \in Words
             PROVE  raw_display[i] = Want(i)
  BY DEF NoLostUpdate
<1>1. ASSUME NEW p \in Procs PROVE ~ Asking(p)
  <2>1. stores[p] \in Seq(Store)
    BY DEF TypeInv, TypeOK
  <2>2. stores[p] # <<>> => Len(stores[p]) \in 1 .. Len(stores[p])
    BY <2>1, LenProperties, EmptySeq
  <2>3. QED BY <2>2 DEF Dirty, AboutToAsk, Asking
<1>2. need_update # 1 /\ ~ Updating
  BY DEF Dirty
<1>3. QED BY <1>1, <1>2 DEF UpdateInv, Asked, Fresh, Updating

\* The structure keeps its types: whatever the lengths of the texts, the overlays and
\* the frames of the boot animation, no handler stores beyond the text, the overlay
\* or the raw display, and every level is in its range (vfd.c, pt6964.c), provided
\* that the device tree numbers words of the display for the digits and the LEDs,
\* which the driver does not check (VfdAssumption, LedAssignment).
THEOREM TypeCorrect == Spec => []TypeOK
<1>1. Init => TypeInv
  BY TypeInit
<1>2. TypeInv /\ [Next]_vars => TypeInv'
  BY TypeNext
<1>3. TypeInv => TypeOK
  BY DEF TypeInv
<1>4. QED BY <1>1, <1>2, <1>3, PTL DEF Spec

\* On a processor that keeps stores in order (or on one core), a change of the text
\* or the overlay is never lost to the timer, although hardware_update_display
\* reads them without vfd->lock: vfd_timer_sr clears need_update before it reads.
THEOREM NoUpdateLost == ASSUME ~ WeakOrder PROVE Spec => []NoLostUpdate
<1>1. Init => TypeInv /\ UpdateInv
  BY TypeInit, UpdateInit
<1>2. (TypeInv /\ UpdateInv) /\ [Next]_vars => (TypeInv /\ UpdateInv)'
  BY TypeNext, UpdateNext
<1>3. TypeInv /\ UpdateInv => NoLostUpdate
  BY FreshWhenClean
<1>4. QED BY <1>1, <1>2, <1>3, PTL DEF Spec

-----------------------------------------------------------------------------
(* Stores to the overlay.  dotled_store reads a word of the overlay and    *)
(* stores it again with one bit changed.  The mutex makes that safe        *)
(* whatever order the stores become visible in: nobody else has a store to *)
(* the overlay pending while the assignment has one, so the word it read is *)
(* still the current one.                                                  *)

\* Who is in a critical section owns the mutex, and stores to the overlay are
\* pending in the section of a caller only.
Exclusion ==
  /\ \A c \in Callers : pc[c] \in {"inside", "applying"} => lock = c
  /\ pc[Timer] \in {"scanning", "booting"} => lock = Timer
  /\ \A c \in Callers : pc[c] # "inside" => stores[c] = <<>>
  /\ \A k \in 1 .. Len(stores[Timer]) : stores[Timer][k].loc # "raw_overlay"

\* A store to the overlay that changes one bit of what is there now.
ChangesOnly(s, led) ==
  s.loc = "raw_overlay" =>
    /\ s.at = led.word
    /\ \A b \in 0 .. 15 : b # led.bit => (b \in s.word <=> b \in raw_overlay[s.at])

LedInv ==
  \A c \in Callers :
    pc[c] = "inside" /\ req[c].op = "dotled" =>
      \A k \in 1 .. Len(stores[c]) : ChangesOnly(stores[c][k], Head(req[c].leds))

\* A store of _display_store is not one to the overlay.
LEMMA DisplayStoresNoOverlay ==
  ASSUME NEW text \in Seq(Chars)
  PROVE  \A k \in 1 .. Len(DisplayStores(text)) : DisplayStores(text)[k].loc # "raw_overlay"
<1> DEFINE n     == IF Len(text) > DisplayLen THEN DisplayLen ELSE Len(text)
           pads  == [k \in 1 .. DisplayLen - n |-> DisplayStore(n + k - 1, NullChar)]
           copy  == [k \in 1 .. n |-> DisplayStore(k - 1, text[k])]
           other == [loc : {"display"}, at : Words, ch : Chars] \cup {SetNeedUpdate}
<1>1. n \in 0 .. DisplayLen /\ n <= Len(text) /\ DisplayLen \in 0 .. NWords /\ NWords \in Nat
  BY LenProperties, VfdAssumption, Pt6964Assumption
<1> HIDE DEF n
<1>2. \A k \in 1 .. n : text[k] \in Chars
  BY <1>1, ElementOfSeq
<1>3. pads \in Seq(other)
  <2>1. \A k \in 1 .. DisplayLen - n : DisplayStore(n + k - 1, NullChar) \in other
    BY <1>1, VfdAssumption DEF DisplayStore, Words
  <2>2. DisplayLen - n \in Nat
    BY <1>1
  <2>3. QED BY <2>1, <2>2, FunctionIsSeq
<1>4. copy \in Seq(other)
  <2>1. \A k \in 1 .. n : DisplayStore(k - 1, text[k]) \in other
    BY <1>1, <1>2 DEF DisplayStore, Words
  <2>2. n \in Nat
    BY <1>1
  <2>3. QED BY <2>1, <2>2, FunctionIsSeq
<1>5. <<SetNeedUpdate>> \in Seq(other)
  OBVIOUS
<1> HIDE DEF pads, copy, other
<1>6. pads \o copy \o <<SetNeedUpdate>> \in Seq(other)
  BY <1>3, <1>4, <1>5, ConcatProperties, Zenon
<1>7. DisplayStores(text) \in Seq(other)
  BY <1>6, Zenon DEF DisplayStores, pads, copy, n
<1>8. QED BY <1>7, ElementOfSeq DEF other, SetNeedUpdate

\* The stores of one assignment change its bit only.
LEMMA LedStoresChange ==
  ASSUME NEW led \in LedAssignment, raw_overlay \in [Words -> Word],
         NEW k \in 1 .. Len(LedStores(led))
  PROVE  ChangesOnly(LedStores(led)[k], led)
<1> DEFINE new == IF led.on THEN raw_overlay[led.word] \cup {led.bit}
                            ELSE raw_overlay[led.word] \ {led.bit}
           one == OverlayStore(led.word, new)
<1>1. \A b \in 0 .. 15 : b # led.bit => (b \in new <=> b \in raw_overlay[led.word])
  OBVIOUS
<1>2. LedStores(led) = <<one, SetNeedUpdate>>
  BY DEF LedStores
<1> HIDE DEF new
<1>3. ChangesOnly(one, led)
  BY <1>1 DEF ChangesOnly, OverlayStore
<1>4. ChangesOnly(SetNeedUpdate, led)
  BY DEF ChangesOnly, SetNeedUpdate
<1> HIDE DEF one
<1>5. QED BY <1>2, <1>3, <1>4

\* Every step keeps the mutual exclusion.
LEMMA ExclusionNext == ASSUME TypeInv, Exclusion, [Next]_vars PROVE Exclusion'
<1> USE DEF Goto, shared, local, Exclusion
<1>a. /\ Timer \in Procs /\ Timer \notin Callers /\ Callers \subseteq Procs
      /\ Procs = Callers \cup {Timer} /\ NoOne \notin Procs
      /\ pc \in [Procs -> Labels \cup TimerLabels] /\ stores \in [Procs -> Seq(Store)]
      /\ pc[Timer] \in TimerLabels /\ \A c \in Callers : pc[c] \in Labels
  BY VfdAssumption DEF Procs, TypeInv, TypeOK, Timer, NoOne
<1>1. ASSUME NEW c \in Callers, Caller(c) PROVE Exclusion'
  <2>1. \A q \in Procs \ {c} : pc'[q] = pc[q] /\ stores'[q] = stores[q]
    BY <1>a, <1>1 DEF Caller, CallStore, CallPower, Enter, Leave, EnterApply, LeaveApply
  <2>2. \/ lock' = lock /\ pc[c] = "idle" /\ pc'[c] \in {"enter", "apply"}
           /\ stores'[c] = stores[c]
        \/ lock = NoOne /\ lock' = c /\ pc[c] = "enter" /\ pc'[c] = "inside"
        \/ lock = NoOne /\ lock' = c /\ pc[c] = "apply" /\ pc'[c] = "applying"
           /\ stores'[c] = stores[c]
        \/ lock' = NoOne /\ pc[c] \in {"inside", "applying"} /\ pc'[c] \in {"idle", "enter", "apply"}
           /\ stores'[c] = <<>>
    BY <1>a, <1>1
    DEF Caller, CallStore, CallPower, Enter, Leave, EnterApply, LeaveApply, Lock, Unlock
  <2>3. QED BY <1>a, <2>1, <2>2
<1>2. ASSUME NEW p \in Procs, BusStep(p) PROVE Exclusion'
  BY <1>2 DEF BusStep
<1>3. ASSUME NEW p \in Procs, StoreStep(p) PROVE Exclusion'
  <2>1. PICK k \in 1 .. Len(stores[p]) : stores' = [stores EXCEPT ![p] = Without(stores[p], k)]
    BY <1>3 DEF StoreStep
  <2>2. UNCHANGED <<pc, lock>>
    BY <1>3 DEF StoreStep
  <2>3. stores[p] \in Seq(Store) /\ stores[p] # <<>>
    BY <1>a, <2>1
  <2>4. CASE p = Timer
    <3>1. /\ Len(stores'[Timer]) = Len(stores[Timer]) - 1 /\ Len(stores[Timer]) \in Nat
          /\ \A j \in 1 .. Len(stores[Timer]) - 1 :
               stores'[Timer][j] = IF j < k THEN stores[Timer][j] ELSE stores[Timer][j + 1]
      <4>1. k \in 1 .. Len(stores[Timer]) /\ stores[Timer] \in Seq(Store)
        BY <2>1, <2>3, <2>4
      <4>2. stores'[Timer] = Without(stores[Timer], k)
        BY <1>a, <2>1, <2>4
      <4>3. Len(stores[Timer]) \in Nat
        BY <4>1, LenProperties, Zenon
      <4>4. /\ Len(Without(stores[Timer], k)) = Len(stores[Timer]) - 1
            /\ \A j \in 1 .. Len(stores[Timer]) - 1 :
                 Without(stores[Timer], k)[j] = IF j < k THEN stores[Timer][j] ELSE stores[Timer][j + 1]
        BY <4>1, WithoutType, Zenon
      <4>5. QED BY <4>2, <4>3, <4>4
    <3>2. \A j \in 1 .. Len(stores'[Timer]) : stores'[Timer][j].loc # "raw_overlay"
      BY <3>1
    <3>3. \A c \in Callers : stores'[c] = stores[c]
      BY <1>a, <2>1, <2>4
    <3>4. QED BY <2>2, <3>2, <3>3
  <2>5. CASE p \in Callers
    <3>1. pc[p] = "inside" /\ \A q \in Procs \ {p} : stores'[q] = stores[q]
      BY <1>a, <2>1, <2>3, <2>5
    <3>2. QED BY <1>a, <2>2, <2>5, <3>1
  <2>6. QED BY <1>a, <2>4, <2>5
<1>4. CASE BootEnter
  <2>1. BootText[boot_anim] \in Seq(Chars)
    BY <1>4, VfdAssumption, ElementOfSeq, LenProperties DEF BootEnter, TypeInv, TypeOK, Control
  <2>2. /\ stores'[Timer] = DisplayStores(BootText[boot_anim]) /\ lock' = Timer /\ lock = NoOne
        /\ \A c \in Callers : stores'[c] = stores[c] /\ pc'[c] = pc[c]
    BY <1>a, <1>4 DEF BootEnter, Lock
  <2>3. \A k \in 1 .. Len(stores'[Timer]) : stores'[Timer][k].loc # "raw_overlay"
    BY <2>1, <2>2, DisplayStoresNoOverlay
  <2>4. QED BY <1>a, <2>2, <2>3
<1>5. CASE Check
  <2>1. /\ \A c \in Callers : stores'[c] = stores[c] /\ pc'[c] = pc[c]
        /\ lock' = lock /\ pc'[Timer] \in {"render", "wait"}
        /\ stores'[Timer] = stores[Timer] \/ stores'[Timer] = <<ClearNeedUpdate>>
    BY <1>a, <1>5 DEF Check
  <2>2. \A k \in 1 .. Len(stores'[Timer]) : stores'[Timer][k].loc # "raw_overlay"
    BY <2>1 DEF ClearNeedUpdate
  <2>3. QED BY <2>1, <2>2
<1>6. CASE Armed \/ Fire \/ ScanEnter \/ ScanLeave \/ BootLeave
  <2>1. /\ UNCHANGED stores /\ \A c \in Callers : pc'[c] = pc[c]
        /\ \/ lock' = lock /\ pc'[Timer] \in {"wait", "scan", "boot", "check"}
           \/ lock = NoOne /\ lock' = Timer
           \/ lock' = NoOne /\ pc[Timer] \in {"scanning", "booting"}
              /\ pc'[Timer] \in {"boot", "check"}
    BY <1>a, <1>6
    DEF Armed, Fire, ScanEnter, ScanLeave, BootLeave, AfterScan, Lock, Unlock
  <2>2. QED BY <1>a, <2>1
<1>7. CASE Render \/ Merge \/ SkipWord \/ ChangeWord \/ Close \/ Rearm
  <2>1. /\ UNCHANGED <<stores, lock>> /\ \A c \in Callers : pc'[c] = pc[c]
        /\ pc'[Timer] \in {"render", "merge", "send", "close", "rearm", "wait"}
    BY <1>a, <1>7 DEF Render, Merge, SkipWord, ChangeWord, Close, Rearm, Loop
  <2>2. QED BY <2>1
<1>8. CASE UNCHANGED vars
  BY <1>8 DEF vars
<1>9. QED BY <1>1, <1>2, <1>3, <1>4, <1>5, <1>6, <1>7, <1>8 DEF Next, Handler

\* Every step keeps what is known of the stores of an assignment.
LEMMA LedNext == ASSUME TypeInv, Exclusion, LedInv, [Next]_vars PROVE LedInv'
<1> SUFFICES ASSUME NEW c \in Callers, pc'[c] = "inside", req'[c].op = "dotled",
                    NEW j \in 1 .. Len(stores'[c])
             PROVE  ChangesOnly(stores[c][j], Head(req[c].leds))'
  BY DEF LedInv
<1> USE DEF Goto, shared, local
<1>a. /\ Timer \in Procs /\ Timer \notin Callers /\ Callers \subseteq Procs
      /\ Procs = Callers \cup {Timer}
      /\ pc \in [Procs -> Labels \cup TimerLabels] /\ stores \in [Procs -> Seq(Store)]
      /\ req \in [Callers -> Request \cup {NoRequest}]
      /\ raw_overlay \in [Words -> Word]
  BY VfdAssumption DEF Procs, TypeInv, TypeOK
<1>b. ASSUME UNCHANGED raw_overlay, pc[c] = "inside", req'[c] = req[c], stores'[c] = stores[c]
      PROVE  ChangesOnly(stores[c][j], Head(req[c].leds))'
  BY <1>b DEF LedInv, ChangesOnly
<1>1. CASE Enter(c)
  <2>1. /\ req[c] \in Request /\ req[c].op = "dotled" /\ req'[c] = req[c]
        /\ stores'[c] = SectionStores(req[c]) /\ UNCHANGED raw_overlay
    BY <1>a, <1>1 DEF Enter, TypeInv, Control
  <2>2. req[c].leds \in Seq(LedAssignment) \ {<<>>}
    BY <2>1 DEF Request, Settings
  <2>3. Head(req[c].leds) \in LedAssignment
    BY <2>2, HeadTailProperties
  <2>4. stores'[c] = LedStores(Head(req[c].leds))
    BY <2>1 DEF SectionStores
  <2>5. ChangesOnly(stores'[c][j], Head(req'[c].leds))
    BY <1>a, <2>1, <2>3, <2>4, LedStoresChange
  <2>6. QED BY <2>1, <2>5 DEF ChangesOnly
<1>2. ASSUME NEW d \in Callers, Caller(d), d # c \/ ~ Enter(c)
      PROVE  ChangesOnly(stores[c][j], Head(req[c].leds))'
  <2>1. UNCHANGED raw_overlay /\ pc[c] = "inside" /\ req'[c] = req[c] /\ stores'[c] = stores[c]
    BY <1>a, <1>2 DEF Caller, CallStore, CallPower, Enter, Leave, EnterApply, LeaveApply
  <2>2. QED BY <1>b, <2>1
<1>3. ASSUME NEW p \in Procs, StoreStep(p)
      PROVE  ChangesOnly(stores[c][j], Head(req[c].leds))'
  <2>1. PICK k \in 1 .. Len(stores[p]) :
          Commit(stores[p][k]) /\ stores' = [stores EXCEPT ![p] = Without(stores[p], k)]
    BY <1>3 DEF StoreStep
  <2>2. UNCHANGED <<pc, req>> /\ stores[p] \in Seq(Store) /\ stores[p] # <<>>
    BY <1>a, <1>3, <2>1 DEF StoreStep
  <2>3. CASE p = Timer
    <3>1. UNCHANGED raw_overlay /\ stores'[c] = stores[c]
      BY <1>a, <2>1, <2>3 DEF Exclusion, Commit
    <3>2. QED BY <1>b, <2>2, <3>1
  <2>4. CASE p \in Callers \ {c}
    BY <2>2, <2>4 DEF Exclusion
  <2>5. CASE p = c
    <3> DEFINE led == Head(req[c].leds)
               s   == stores[c][k]
    <3>1. PICK i \in 1 .. Len(stores[c]) : stores'[c][j] = stores[c][i]
      <4>1. /\ Len(stores'[c]) = Len(stores[c]) - 1 /\ Len(stores[c]) \in Nat
            /\ \A h \in 1 .. Len(stores[c]) - 1 :
                 stores'[c][h] = IF h < k THEN stores[c][h] ELSE stores[c][h + 1]
        <5>1. /\ stores'[c] = Without(stores[c], k) /\ stores[c] \in Seq(Store)
              /\ k \in 1 .. Len(stores[c])
          BY <1>a, <2>1, <2>2, <2>5
        <5>2. Len(stores[c]) \in Nat
          BY <5>1, LenProperties, Zenon
        <5>3. /\ Len(Without(stores[c], k)) = Len(stores[c]) - 1
              /\ \A h \in 1 .. Len(stores[c]) - 1 :
                   Without(stores[c], k)[h] = IF h < k THEN stores[c][h] ELSE stores[c][h + 1]
          BY <5>1, WithoutType, Zenon
        <5>4. QED BY <5>1, <5>2, <5>3
      <4> DEFINE m == IF j < k THEN j ELSE j + 1
      <4>2. j \in 1 .. Len(stores[c]) - 1 /\ k \in 1 .. Len(stores[c])
        BY <4>1, <2>2, <2>5
      <4>3. m \in 1 .. Len(stores[c])
        BY <4>1, <4>2
      <4>4. stores'[c][j] = stores[c][m]
        BY <4>1, <4>2
      <4>5. QED BY <4>3, <4>4
    <3>2. ChangesOnly(stores[c][i], led) /\ ChangesOnly(s, led) /\ k \in 1 .. Len(stores[c])
      BY <2>1, <2>2, <2>5 DEF LedInv
    <3>3. s \in Store
      BY <2>2, <2>5, <3>2, ElementOfSeq
    <3>4. raw_overlay' = IF s.loc = "raw_overlay" THEN [raw_overlay EXCEPT ![s.at] = s.word]
                                                  ELSE raw_overlay
      BY <2>1, <2>5 DEF Commit
    <3>5. s.loc = "raw_overlay" => s.at \in Words
      BY <3>3 DEF Store, Settings
    <3> HIDE DEF s, led
    <3>6. \A b \in 0 .. 15 : b # led.bit =>
            (b \in raw_overlay'[led.word] <=> b \in raw_overlay[led.word])
      BY <1>a, <3>2, <3>4, <3>5 DEF ChangesOnly
    <3>7. (stores[c][i].loc = "raw_overlay") =>
            /\ stores[c][i].at = led.word
            /\ \A b \in 0 .. 15 : b # led.bit =>
                 (b \in stores[c][i].word <=> b \in raw_overlay'[led.word])
      BY <3>2, <3>6 DEF ChangesOnly
    <3>8. QED BY <2>2, <3>1, <3>7 DEF ChangesOnly, led
  <2>6. QED BY <1>a, <2>3, <2>4, <2>5
<1>4. ASSUME NEW p \in Procs, BusStep(p)
      PROVE  ChangesOnly(stores[c][j], Head(req[c].leds))'
  BY <1>b, <1>4 DEF BusStep
<1>5. ASSUME Handler PROVE ChangesOnly(stores[c][j], Head(req[c].leds))'
  <2>1. UNCHANGED raw_overlay /\ pc'[c] = pc[c] /\ req' = req /\ stores'[c] = stores[c]
    BY <1>a, <1>5 DEF Handler, Armed, Fire, ScanEnter, ScanLeave, BootEnter, BootLeave, Check,
       Render, Merge, SkipWord, ChangeWord, Close, Rearm, Loop
  <2>2. QED BY <1>b, <2>1
<1>6. CASE UNCHANGED vars
  BY <1>b, <1>6 DEF vars
<1>7. QED BY <1>1, <1>2, <1>3, <1>4, <1>5, <1>6 DEF Next

\* An assignment to a dot LED (dotled_store) changes that LED and no other bit of
\* the overlay, whatever the other handlers do meanwhile, on every processor.
THEOREM LedIsolated == Spec => LedOwnsItsBit
<1> DEFINE Inv == TypeInv /\ Exclusion /\ LedInv
           Own == \A c \in Callers :
                    StoreStep(c) /\ req[c].op = "dotled" =>
                      LET led == Head(req[c].leds)
                      IN  \A i \in Words, b \in 0 .. 15 :
                            (b \in raw_overlay'[i]) # (b \in raw_overlay[i]) =>
                              i = led.word /\ b = led.bit
<1>1. Init => Inv
  <2> SUFFICES ASSUME Init PROVE Inv
    OBVIOUS
  <2>1. TypeInv
    BY TypeInit
  <2>2. /\ Timer \in Procs /\ Timer \notin Callers /\ Callers \subseteq Procs
        /\ \A p \in Procs : stores[p] = <<>>
        /\ pc[Timer] = "probe" /\ \A c \in Callers : pc[c] = "idle"
    BY VfdAssumption DEF Init, Procs
  <2>3. Exclusion /\ LedInv
    BY <2>2 DEF Exclusion, LedInv
  <2>4. QED BY <2>1, <2>3
<1>2. Inv /\ [Next]_vars => Inv'
  BY TypeNext, ExclusionNext, LedNext
<1>3. Inv => Own
  <2> SUFFICES ASSUME Inv, NEW c \in Callers, StoreStep(c), req[c].op = "dotled",
                      NEW i \in Words, NEW b \in 0 .. 15,
                      ~ (b \in raw_overlay'[i] <=> b \in raw_overlay[i])
               PROVE  i = Head(req[c].leds).word /\ b = Head(req[c].leds).bit
    OBVIOUS
  <2>1. PICK k \in 1 .. Len(stores[c]) : Commit(stores[c][k])
    BY DEF StoreStep
  <2>2. /\ stores[c] \in Seq(Store) /\ raw_overlay \in [Words -> Word]
    BY VfdAssumption DEF TypeInv, TypeOK, Procs
  <2>3. pc[c] = "inside"
    BY <2>1, <2>2 DEF Exclusion
  <2>4. ChangesOnly(stores[c][k], Head(req[c].leds))
    BY <2>1, <2>3 DEF LedInv
  <2>5. QED BY <2>1, <2>2, <2>4 DEF ChangesOnly, Commit
<1>4. Own => [Own]_vars
  OBVIOUS
<1>5. QED BY <1>1, <1>2, <1>3, PTL DEF Spec, LedOwnsItsBit
=============================================================================
