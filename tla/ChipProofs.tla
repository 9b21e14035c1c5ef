----------------------------- MODULE ChipProofs -----------------------------
(***************************************************************************)
(* What hardware_update_display clocks out leaves the chip with the words  *)
(* the driver remembers, for any display, overlay and order of the words,  *)
(* when no other handler drives the bus; the driver then implements        *)
(* Mirror.  With key scans or changes of the brightness in between it does *)
(* not (see the run contention).                                           *)
(*                                                                         *)
(* Clearing and Sending say, for each rest of a transfer, what the chip    *)
(* has to be ready for.                                                    *)
(***************************************************************************)
EXTENDS VfdProofs

\* The calls store to the structure and leave the bus alone, and there are no
\* keys to be scanned.
ContentOnly ==
  /\ \A r \in Requests : r.op \in {"display", "overlay", "dotled", "brightness_suspend"}
  /\ ~ HasInput

-----------------------------------------------------------------------------
(* One operation on the bus.                                               *)

\* The chip takes bytes of data, one after the other, from address a.
Receiving(c, a) == c.stb = 0 /\ ~ c.command /\ c.inc = 1 /\ c.read = 0 /\ c.addr = a
Writing(c) == c.inc = 1 /\ c.read = 0
AwaitsCommand(c) == c.stb = 0 /\ c.command

\* STB falls: the next byte is a command.
LEMMA LowStep ==
  ASSUME NEW c \in Chip, c.stb = 1
  PROVE  /\ AwaitsCommand(ChipStep(c, StbLow)) /\ ChipStep(c, StbLow).ram = c.ram
         /\ Writing(c) => Writing(ChipStep(c, StbLow))
<1> DEFINE d == ChipStep(c, StbLow)
<1>1. StbLow.pin = "STB" /\ StbLow.level = 0
  BY DEF StbLow
<1>2. (IF StbLow.level = 0 THEN c.stb = 1 \/ c.command ELSE c.command) = TRUE
  BY <1>1, Zenon
<1>3. d = [c EXCEPT !.stb = 0, !.command = TRUE]
  BY <1>1, <1>2, Zenon DEF ChipStep
<1>4. QED BY <1>3 DEF Chip, AwaitsCommand, Writing

\* STB rises.
LEMMA HighStep ==
  ASSUME NEW c \in Chip
  PROVE  /\ ChipStep(c, StbHigh).stb = 1 /\ ChipStep(c, StbHigh).ram = c.ram
         /\ Writing(c) => Writing(ChipStep(c, StbHigh))
BY DEF ChipStep, StbHigh, Chip, Writing

\* A command that does not set the mode.
LEMMA CommandStep ==
  ASSUME NEW c \in Chip, AwaitsCommand(c), NEW b \in Byte
  PROVE  /\ ChipStep(c, Send(b)).ram = c.ram
         /\ ChipStep(c, Send(b)).stb = 0 /\ ~ ChipStep(c, Send(b)).command
<1>1. ChipStep(c, Send(b)) = Command(c, b)
  BY DEF ChipStep, Send, AwaitsCommand
<1> DEFINE d == [c EXCEPT !.command = FALSE]
<1>2. d.ram = c.ram /\ d.stb = 0 /\ ~ d.command /\ d \in Chip
  BY DEF Chip, AwaitsCommand
<1> HIDE DEF d
<1>3. \A x, y : /\ [d EXCEPT !.addr = x].ram = c.ram /\ [d EXCEPT !.addr = x].stb = 0
                /\ ~ [d EXCEPT !.addr = x].command
                /\ [d EXCEPT !.control = x].ram = c.ram /\ [d EXCEPT !.control = x].stb = 0
                /\ ~ [d EXCEPT !.control = x].command
                /\ [d EXCEPT !.inc = x, !.read = y].ram = c.ram
                /\ [d EXCEPT !.inc = x, !.read = y].stb = 0
                /\ ~ [d EXCEPT !.inc = x, !.read = y].command
  BY <1>2 DEF Chip
<1>4. CASE {7, 6} \subseteq b
  BY <1>1, <1>3, <1>4, Zenon DEF Command, d
<1>6. CASE ~ ({7, 6} \subseteq b) /\ 7 \in b
  <2>1. Command(c, b) = [d EXCEPT !.control = b]
    BY <1>6, Zenon DEF Command, d
  <2>2. /\ [d EXCEPT !.control = b].ram = c.ram /\ [d EXCEPT !.control = b].stb = 0
        /\ ~ [d EXCEPT !.control = b].command
    BY <1>3
  <2>3. QED BY <1>1, <2>1, <2>2, Zenon
<1>7. CASE 7 \notin b /\ 6 \in b
  <2>1. ~ ({7, 6} \subseteq b)
    BY <1>7
  <2>2. Command(c, b) = [d EXCEPT !.inc = 1 - Bit(b, 2), !.read = Bit(b, 1)]
    BY <1>7, <2>1, Zenon DEF Command, d
  <2> DEFINE e == [d EXCEPT !.inc = 1 - Bit(b, 2), !.read = Bit(b, 1)]
  <2>3. e.ram = c.ram /\ e.stb = 0 /\ ~ e.command
    BY <1>3
  <2> HIDE DEF e
  <2>4. ChipStep(c, Send(b)) = e
    BY <1>1, <2>2, Zenon DEF e
  <2>5. QED BY <2>3, <2>4, Zenon
<1>8. CASE 7 \notin b /\ 6 \notin b
  <2>1. ~ ({7, 6} \subseteq b)
    BY <1>8
  <2>2. QED BY <1>1, <1>2, <1>8, <2>1, Zenon DEF Command, d
<1>5. QED BY <1>4, <1>6, <1>7, <1>8

\* "Write, with incrementing addresses".
LEMMA ModeStep ==
  ASSUME NEW c \in Chip, AwaitsCommand(c)
  PROVE  /\ Writing(ChipStep(c, Send(CmdDataSetting(1, 0))))
         /\ ChipStep(c, Send(CmdDataSetting(1, 0))).ram = c.ram
<1>1. CmdDataSetting(1, 0) = {6}
  BY DEF CmdDataSetting
<1>2. ChipStep(c, Send({6})) = Command(c, {6})
  BY DEF ChipStep, Send, AwaitsCommand
<1>3. Command(c, {6}) = [[c EXCEPT !.command = FALSE] EXCEPT !.inc = 1 - Bit({6}, 2), !.read = Bit({6}, 1)]
  <2>1. ASSUME NEW b, ~ ({7, 6} \subseteq b), 7 \notin b, 6 \in b
        PROVE  Command(c, b) = [[c EXCEPT !.command = FALSE] EXCEPT !.inc = 1 - Bit(b, 2), !.read = Bit(b, 1)]
    BY <2>1, Zenon DEF Command
  <2>2. ~ ({7, 6} \subseteq {6}) /\ 7 \notin {6} /\ 6 \in {6}
    OBVIOUS
  <2>3. QED BY <2>1, <2>2
<1>4. 1 - Bit({6}, 2) = 1 /\ Bit({6}, 1) = 0
  BY DEF Bit
<1> DEFINE d == [c EXCEPT !.command = FALSE]
<1>5. d \in Chip /\ d.ram = c.ram
  BY DEF Chip
<1>6. Command(c, {6}) = [d EXCEPT !.inc = 1, !.read = 0]
  BY <1>3, <1>4, Zenon
<1> HIDE DEF d
<1>7. [d EXCEPT !.inc = 1, !.read = 0].inc = 1 /\ [d EXCEPT !.inc = 1, !.read = 0].read = 0
      /\ [d EXCEPT !.inc = 1, !.read = 0].ram = c.ram
  BY <1>5 DEF Chip
<1>8. QED BY <1>1, <1>2, <1>6, <1>7 DEF Writing

\* An address takes four bits.
LEMMA NibbleAddress == ASSUME NEW n \in 0 .. 14 PROVE Address(CmdAddressSet(n)) = n
<1>1. 2 ^ 0 = 1 /\ 2 ^ 1 = 2 /\ 2 ^ 2 = 4 /\ 2 ^ 3 = 8
  OBVIOUS
<1>2. \A b \in 0 .. 3 : b \in CmdAddressSet(n) <=> (n \div (2 ^ b)) % 2 = 1
  BY DEF CmdAddressSet, Nibble
<1>3. /\ Bit(CmdAddressSet(n), 0) = n % 2
      /\ Bit(CmdAddressSet(n), 1) = (n \div 2) % 2
      /\ Bit(CmdAddressSet(n), 2) = (n \div 4) % 2
      /\ Bit(CmdAddressSet(n), 3) = (n \div 8) % 2
  BY <1>1, <1>2 DEF Bit
<1>4. (n % 2) + 2 * ((n \div 2) % 2) + 4 * ((n \div 4) % 2) + 8 * ((n \div 8) % 2) = n
  OBVIOUS
<1>5. QED BY <1>3, <1>4 DEF Address

\* "Set the address" after a falling STB: data goes to address n.
LEMMA AddressStep ==
  ASSUME NEW c \in Chip, AwaitsCommand(c), Writing(c), NEW n \in 0 .. 14
  PROVE  /\ Receiving(ChipStep(c, Send(CmdAddressSet(n))), n)
         /\ ChipStep(c, Send(CmdAddressSet(n))).ram = c.ram
<1> DEFINE b == CmdAddressSet(n)
<1>1. {7, 6} \subseteq b
  BY DEF CmdAddressSet
<1>2. ChipStep(c, Send(b)) = Command(c, b)
  BY DEF ChipStep, Send, AwaitsCommand
<1>3. Command(c, b) = [[c EXCEPT !.command = FALSE] EXCEPT !.addr = Address(b)]
  BY <1>1, Zenon DEF Command
<1>4. Address(b) = n
  BY NibbleAddress
<1> HIDE DEF b
<1>5. QED BY <1>2, <1>3, <1>4 DEF Receiving, Writing, AwaitsCommand, Chip, b

\* A byte of data goes to the RAM.
LEMMA DataStep ==
  ASSUME NEW c \in Chip, NEW a \in 0 .. 14, Receiving(c, a), NEW b
  PROVE  /\ Receiving(ChipStep(c, Send(b)), a + 1)
         /\ ChipStep(c, Send(b)).ram = [x \in RamBytes |-> IF x = a THEN b ELSE c.ram[x]]
<1>1. ChipStep(c, Send(b)) = Data(c, b)
  BY DEF ChipStep, Send, Receiving
<1>2. Data(c, b) = [c EXCEPT !.ram  = [x \in RamBytes |-> IF x = c.addr THEN b ELSE c.ram[x]],
                             !.addr = (c.addr + c.inc) % 16]
  BY DEF Data, Receiving
<1>3. (c.addr + c.inc) % 16 = a + 1 /\ c.addr = a
  BY DEF Receiving
<1>4. Data(c, b) = [c EXCEPT !.ram = [x \in RamBytes |-> IF x = a THEN b ELSE c.ram[x]], !.addr = a + 1]
  BY <1>2, <1>3
<1>5. QED BY <1>1, <1>4 DEF Receiving, Chip


-----------------------------------------------------------------------------
(* hardware_init.                                                          *)

\* The n-th operation of hardware_init, whose last command has byte b.
InitOp(n, b) ==
  CASE n \in {1, 4, 2 * NWords + 7, 2 * NWords + 10}               -> StbLow
    [] n \in {3, 2 * NWords + 6, 2 * NWords + 9, 2 * NWords + 12}  -> StbHigh
    [] n = 2                                                       -> Send(CmdDataSetting(1, 0))
    [] n = 5                                                       -> Send(CmdAddressSet(0))
    [] n \in 6 .. 2 * NWords + 5                                   -> Send({})
    [] n = 2 * NWords + 8                                          -> Send(CmdDisplayMode)
    [] n = 2 * NWords + 11                                         -> Send(b)

\* The chip after the first k operations.
Cleared(k, c) ==
  /\ k \in {0, 3, 2 * NWords + 6, 2 * NWords + 9, 2 * NWords + 12} => c.stb = 1
  /\ k \in {1, 4, 2 * NWords + 7, 2 * NWords + 10} => AwaitsCommand(c)
  /\ k \in 2 .. 4 => Writing(c)
  /\ k \in 5 .. 2 * NWords + 5 => Receiving(c, k - 5)
  /\ \A a \in RamBytes : a < k - 5 => c.ram[a] = {}

Clearing(w, c) ==
  \E k \in 0 .. 2 * NWords + 12, b \in Byte :
    /\ w \in Seq(BusOp) /\ Len(w) = 2 * NWords + 12 - k
    /\ \A j \in 1 .. Len(w) : w[j] = InitOp(j + k, b)
    /\ Cleared(k, c)

\* What is left of a transfer after its first operation, by position.
LEMMA NextOp ==
  ASSUME NEW w \in Seq(BusOp), w # <<>>
  PROVE  /\ Head(w) = w[1] /\ Tail(w) \in Seq(BusOp) /\ Len(w) \in Nat /\ Len(Tail(w)) = Len(w) - 1
         /\ 1 \in 1 .. Len(w) /\ \A j \in 1 .. Len(Tail(w)) : j + 1 \in 1 .. Len(w) /\ Tail(w)[j] = w[j + 1]
<1>1. /\ Head(w) = w[1] /\ Tail(w) \in Seq(BusOp) /\ Len(Tail(w)) = Len(w) - 1
      /\ \A j \in 1 .. Len(Tail(w)) : Tail(w)[j] = w[j + 1]
  BY HeadTailProperties
<1>2. Len(w) \in Nat \ {0}
  BY LenProperties, EmptySeq
<1>3. QED BY <1>1, <1>2

\* One operation of hardware_init.
LEMMA ClearedStep ==
  ASSUME NEW c \in Chip, NEW k \in 0 .. 2 * NWords + 11, NEW b \in Byte, Cleared(k, c)
  PROVE  Cleared(k + 1, ChipStep(c, InitOp(k + 1, b)))
<1> DEFINE d == ChipStep(c, InitOp(k + 1, b))
<1>1. NWords \in 1 .. 7
  BY Pt6964Assumption
<1>2. CASE k \in {0, 3, 2 * NWords + 6, 2 * NWords + 9}
  <2>1. InitOp(k + 1, b) = StbLow
    BY <1>1, <1>2 DEF InitOp
  <2>2. AwaitsCommand(d) /\ d.ram = c.ram /\ (Writing(c) => Writing(d))
    BY <1>2, <2>1, LowStep DEF Cleared
  <2> HIDE DEF d
  <2>3. QED BY <1>1, <1>2, <2>2 DEF Cleared, RamBytes, d
<1>3. CASE k \in {2, 2 * NWords + 5, 2 * NWords + 8, 2 * NWords + 11}
  <2>1. InitOp(k + 1, b) = StbHigh
    BY <1>1, <1>3 DEF InitOp
  <2>2. d.stb = 1 /\ d.ram = c.ram /\ (Writing(c) => Writing(d))
    BY <2>1, HighStep
  <2> HIDE DEF d
  <2>3. QED BY <1>1, <1>3, <2>2 DEF Cleared, RamBytes, d
<1>4. CASE k = 1
  <2>1. InitOp(k + 1, b) = Send(CmdDataSetting(1, 0))
    BY <1>1, <1>4 DEF InitOp
  <2>2. d.ram = c.ram /\ Writing(d)
    BY <1>4, <2>1, ModeStep DEF Cleared
  <2> HIDE DEF d
  <2>3. QED BY <1>1, <1>4, <2>2 DEF Cleared, RamBytes, d
<1>5. CASE k = 4
  <2>1. InitOp(k + 1, b) = Send(CmdAddressSet(0))
    BY <1>1, <1>5 DEF InitOp
  <2>2. d.ram = c.ram /\ Receiving(d, 0)
    BY <1>1, <1>5, <2>1, AddressStep DEF Cleared
  <2> HIDE DEF d
  <2>3. QED BY <1>1, <1>5, <2>2 DEF Cleared, RamBytes, d
<1>6. CASE k \in 5 .. 2 * NWords + 4
  <2>1. InitOp(k + 1, b) = Send({})
    BY <1>1, <1>6 DEF InitOp
  <2>2. /\ Receiving(d, k - 4)
        /\ d.ram = [x \in RamBytes |-> IF x = k - 5 THEN {} ELSE c.ram[x]]
    <3>1. PICK a : a = k - 5
      OBVIOUS
    <3>5. a \in 0 .. 14 /\ a + 1 = k - 4
      BY <1>1, <1>6, <3>1
    <3>2. Receiving(c, a)
      <4>1. Receiving(c, k - 5)
        BY <1>1, <1>6 DEF Cleared
      <4>2. QED BY <3>1, <4>1
    <3>3. /\ Receiving(ChipStep(c, Send({})), a + 1)
          /\ ChipStep(c, Send({})).ram = [x \in RamBytes |-> IF x = a THEN {} ELSE c.ram[x]]
      BY <3>2, <3>5, DataStep, ZenonT(30)
    <3>4. QED BY <2>1, <3>1, <3>3, <3>5, Zenon
  <2> HIDE DEF d
  <2>3. QED BY <1>1, <1>6, <2>2 DEF Cleared, RamBytes, d
<1>7. CASE k \in {2 * NWords + 7, 2 * NWords + 10}
  <2>1. InitOp(k + 1, b) = Send(CmdDisplayMode) \/ InitOp(k + 1, b) = Send(b)
    BY <1>1, <1>7 DEF InitOp
  <2>2. d.ram = c.ram
    BY <1>7, <2>1, CommandStep, CommandBytes DEF Cleared
  <2> HIDE DEF d
  <2>3. QED BY <1>1, <1>7, <2>2 DEF Cleared, RamBytes, d
<1>8. k \in {0, 1, 2, 3, 4} \/ k \in 5 .. 2 * NWords + 4
      \/ k \in {2 * NWords + 5, 2 * NWords + 6, 2 * NWords + 7, 2 * NWords + 8,
                2 * NWords + 9, 2 * NWords + 10, 2 * NWords + 11}
  BY <1>1
<1>9. QED BY <1>2, <1>3, <1>4, <1>5, <1>6, <1>7, <1>8

\* What is left of hardware_init after one more operation.
LEMMA ClearingStep ==
  ASSUME NEW c \in Chip, NEW w, Clearing(w, c), w # <<>>
  PROVE  Clearing(Tail(w), ChipStep(c, Head(w)))
<1>1. PICK k \in 0 .. 2 * NWords + 12, b \in Byte :
        /\ w \in Seq(BusOp) /\ Len(w) = 2 * NWords + 12 - k
        /\ \A j \in 1 .. Len(w) : w[j] = InitOp(j + k, b)
        /\ Cleared(k, c)
  BY DEF Clearing
<1>2. NWords \in 1 .. 7
  BY Pt6964Assumption
<1> DEFINE t == Tail(w)
<1>3. /\ Head(w) = w[1] /\ t \in Seq(BusOp) /\ Len(w) \in Nat /\ Len(t) = Len(w) - 1
      /\ 1 \in 1 .. Len(w) /\ \A j \in 1 .. Len(t) : j + 1 \in 1 .. Len(w) /\ t[j] = w[j + 1]
  BY <1>1, NextOp
<1>4. k \in 0 .. 2 * NWords + 11 /\ Head(w) = InitOp(k + 1, b)
  BY <1>1, <1>2, <1>3
<1>5. Cleared(k + 1, ChipStep(c, Head(w)))
  BY <1>1, <1>4, ClearedStep
<1>6. Len(t) = 2 * NWords + 12 - (k + 1) /\ k + 1 \in 0 .. 2 * NWords + 12
  BY <1>1, <1>2, <1>3, <1>4
<1> HIDE DEF t
<1>7. \A j \in 1 .. Len(t) : t[j] = InitOp(j + (k + 1), b)
  <2> TAKE j \in 1 .. Len(t)
  <2>1. t[j] = InitOp((j + 1) + k, b)
    BY <1>1, <1>3
  <2>2. (j + 1) + k = j + (k + 1)
    OBVIOUS
  <2>3. QED BY <2>1, <2>2
<1>8. QED BY <1>3, <1>5, <1>6, <1>7 DEF Clearing, t

\* Two transfers one after the other, by position.
LEMMA ConcatOps ==
  ASSUME NEW s \in Seq(BusOp), NEW u \in Seq(BusOp), NEW m \in Nat, NEW n \in Nat,
         Len(s) = m, Len(u) = n
  PROVE  /\ s \o u \in Seq(BusOp) /\ Len(s \o u) = m + n
         /\ \A k \in 1 .. m + n : (s \o u)[k] = IF k <= m THEN s[k] ELSE u[k - m]
BY ConcatProperties

\* hardware_init clocks out these operations.
LEMMA InitIsClearing ==
  ASSUME NEW bri, NEW c \in Chip, c.stb = 1
  PROVE  Clearing(HardwareInit(bri), c)
<1> DEFINE b == IF bri = 0 THEN CmdDisplayControl(0, 0) ELSE CmdDisplayControl(1, bri - 1)
           zeros == [n \in 1 .. 2 * NWords |-> Send({})]
           start == <<StbLow, Send(CmdDataSetting(1, 0)), StbHigh>>
           addr  == <<StbLow, Send(CmdAddressSet(0))>>
           mode  == <<StbLow, Send(CmdDisplayMode), StbHigh>>
           last  == <<StbLow, Send(b), StbHigh>>
           s1 == start \o addr
           s2 == s1 \o zeros
           s3 == s2 \o <<StbHigh>>
           s4 == s3 \o mode
           s5 == s4 \o last
<1>1. NWords \in 1 .. 7
  BY Pt6964Assumption
<1>2. b \in Byte
  BY CommandBytes
<1> HIDE DEF b
<1>3. {} \in Byte
  BY DEF Byte
<1>4. HardwareInit(bri) = s5
  BY DEF HardwareInit, ClearDram, UpdateBrightness, Cmd, b
<1>5. start \in Seq(BusOp) /\ addr \in Seq(BusOp) /\ mode \in Seq(BusOp) /\ last \in Seq(BusOp)
      /\ <<StbHigh>> \in Seq(BusOp)
  BY <1>2, <1>3, OpTypes, CommandBytes
<1>6. zeros \in Seq(BusOp) /\ Len(zeros) = 2 * NWords
  <2>1. Send({}) \in BusOp /\ 2 * NWords \in Nat
    BY <1>1, <1>3, OpTypes
  <2>2. QED BY <2>1, SeqDef
<1>7. /\ Len(start) = 3 /\ start[1] = StbLow /\ start[2] = Send(CmdDataSetting(1, 0)) /\ start[3] = StbHigh
      /\ Len(addr) = 2 /\ addr[1] = StbLow /\ addr[2] = Send(CmdAddressSet(0))
      /\ Len(mode) = 3 /\ mode[1] = StbLow /\ mode[2] = Send(CmdDisplayMode) /\ mode[3] = StbHigh
      /\ Len(last) = 3 /\ last[1] = StbLow /\ last[2] = Send(b) /\ last[3] = StbHigh
      /\ \A n \in 1 .. 2 * NWords : zeros[n] = Send({})
  OBVIOUS
<1> HIDE DEF start, addr, mode, last, zeros
<1>8. /\ s1 \in Seq(BusOp) /\ Len(s1) = 5
      /\ \A n \in 1 .. 5 : s1[n] = IF n <= 3 THEN start[n] ELSE addr[n - 3]
  <2>1. /\ s1 \in Seq(BusOp) /\ Len(s1) = Len(start) + Len(addr)
        /\ \A n \in 1 .. Len(start) + Len(addr) :
             s1[n] = IF n <= Len(start) THEN start[n] ELSE addr[n - Len(start)]
    BY <1>5, ConcatProperties, Zenon
  <2>2. QED BY <1>1, <1>7, <2>1
<1> HIDE DEF s1
<1>9. /\ s2 \in Seq(BusOp) /\ Len(s2) = 2 * NWords + 5
      /\ \A n \in 1 .. 2 * NWords + 5 : s2[n] = IF n <= 5 THEN s1[n] ELSE zeros[n - 5]
  <2>1. 5 \in Nat /\ 2 * NWords \in Nat /\ 5 + 2 * NWords = 2 * NWords + 5
    BY <1>1
  <2>2. /\ s2 \in Seq(BusOp) /\ Len(s2) = 5 + 2 * NWords
        /\ \A n \in 1 .. 5 + 2 * NWords : s2[n] = IF n <= 5 THEN s1[n] ELSE zeros[n - 5]
    BY <1>6, <1>8, <2>1, ConcatOps, ZenonT(30)
  <2>3. QED BY <2>1, <2>2
<1> HIDE DEF s2
<1>10. /\ s3 \in Seq(BusOp) /\ Len(s3) = 2 * NWords + 6
       /\ \A n \in 1 .. 2 * NWords + 6 : s3[n] = IF n <= 2 * NWords + 5 THEN s2[n] ELSE StbHigh
  BY <1>1, <1>5, <1>9, ConcatProperties
<1> HIDE DEF s3
<1>11. /\ s4 \in Seq(BusOp) /\ Len(s4) = 2 * NWords + 9
       /\ \A n \in 1 .. 2 * NWords + 9 :
            s4[n] = IF n <= 2 * NWords + 6 THEN s3[n] ELSE mode[n - (2 * NWords + 6)]
  <2>1. /\ s4 \in Seq(BusOp) /\ Len(s4) = Len(s3) + Len(mode)
        /\ \A n \in 1 .. Len(s3) + Len(mode) :
             s4[n] = IF n <= Len(s3) THEN s3[n] ELSE mode[n - Len(s3)]
    BY <1>5, <1>10, ConcatProperties, Zenon
  <2>2. QED BY <1>1, <1>7, <1>10, <2>1
<1> HIDE DEF s4
<1>12. /\ s5 \in Seq(BusOp) /\ Len(s5) = 2 * NWords + 12
       /\ \A n \in 1 .. 2 * NWords + 12 :
            s5[n] = IF n <= 2 * NWords + 9 THEN s4[n] ELSE last[n - (2 * NWords + 9)]
  <2>1. /\ s5 \in Seq(BusOp) /\ Len(s5) = Len(s4) + Len(last)
        /\ \A n \in 1 .. Len(s4) + Len(last) :
             s5[n] = IF n <= Len(s4) THEN s4[n] ELSE last[n - Len(s4)]
    BY <1>5, <1>11, ConcatProperties, Zenon
  <2>2. QED BY <1>1, <1>7, <1>11, <2>1
<1> HIDE DEF s5
<1>13. \A n \in 1 .. 2 * NWords + 12 : s5[n] = InitOp(n, b)
  <2> TAKE n \in 1 .. 2 * NWords + 12
  <2>1. CASE n \in 1 .. 5
    <3>1. s5[n] = s1[n]
      BY <1>1, <1>9, <1>10, <1>11, <1>12, <2>1
    <3>2. s1[n] = IF n <= 3 THEN start[n] ELSE addr[n - 3]
      BY <1>8, <2>1
    <3>3. CASE n = 1
      BY <1>1, <1>7, <3>1, <3>2, <3>3 DEF InitOp
    <3>4. CASE n = 2
      BY <1>1, <1>7, <3>1, <3>2, <3>4 DEF InitOp
    <3>5. CASE n = 3
      BY <1>1, <1>7, <3>1, <3>2, <3>5 DEF InitOp
    <3>6. CASE n = 4
      BY <1>1, <1>7, <3>1, <3>2, <3>6 DEF InitOp
    <3>7. CASE n = 5
      BY <1>1, <1>7, <3>1, <3>2, <3>7 DEF InitOp
    <3>8. QED BY <2>1, <3>3, <3>4, <3>5, <3>6, <3>7
  <2>2. CASE n \in 6 .. 2 * NWords + 5
    <3>1. s5[n] = Send({})
      BY <1>1, <1>7, <1>9, <1>10, <1>11, <1>12, <2>2, SMTT(30)
    <3>2. InitOp(n, b) = Send({})
      BY <1>1, <2>2 DEF InitOp
    <3>3. QED BY <3>1, <3>2
  <2>3. CASE n = 2 * NWords + 6
    <3>1. s5[n] = s3[n]
      BY <1>1, <1>11, <1>12, <2>3
    <3>3. s3[n] = StbHigh
      BY <1>1, <1>10, <2>3
    <3>2. InitOp(n, b) = StbHigh
      BY <1>1, <2>3 DEF InitOp
    <3>4. QED BY <3>1, <3>2, <3>3
  <2>4. CASE n \in 2 * NWords + 7 .. 2 * NWords + 9
    <3>1. s5[n] = mode[n - (2 * NWords + 6)]
      BY <1>1, <1>11, <1>12, <2>4
    <3>2. CASE n = 2 * NWords + 7
      <4>1. InitOp(n, b) = StbLow
        BY <1>1, <3>2 DEF InitOp
      <4>2. n - (2 * NWords + 6) = 1
        BY <1>1, <3>2
      <4>3. QED BY <1>7, <3>1, <4>1, <4>2
    <3>3. CASE n = 2 * NWords + 8
      <4>1. InitOp(n, b) = Send(CmdDisplayMode)
        BY <1>1, <3>3 DEF InitOp
      <4>2. n - (2 * NWords + 6) = 2
        BY <1>1, <3>3
      <4>3. QED BY <1>7, <3>1, <4>1, <4>2
    <3>4. CASE n = 2 * NWords + 9
      <4>1. InitOp(n, b) = StbHigh
        BY <1>1, <3>4 DEF InitOp
      <4>2. n - (2 * NWords + 6) = 3
        BY <1>1, <3>4
      <4>3. QED BY <1>7, <3>1, <4>1, <4>2
    <3>5. QED BY <1>1, <2>4, <3>2, <3>3, <3>4
  <2>5. CASE n \in 2 * NWords + 10 .. 2 * NWords + 12
    <3>1. s5[n] = last[n - (2 * NWords + 9)]
      BY <1>1, <1>12, <2>5
    <3>2. CASE n = 2 * NWords + 10
      <4>1. InitOp(n, b) = StbLow
        BY <1>1, <3>2 DEF InitOp
      <4>2. n - (2 * NWords + 9) = 1
        BY <1>1, <3>2
      <4>3. QED BY <1>7, <3>1, <4>1, <4>2
    <3>3. CASE n = 2 * NWords + 11
      <4>1. InitOp(n, b) = Send(b)
        BY <1>1, <3>3 DEF InitOp
      <4>2. n - (2 * NWords + 9) = 2
        BY <1>1, <3>3
      <4>3. QED BY <1>7, <3>1, <4>1, <4>2
    <3>4. CASE n = 2 * NWords + 12
      <4>1. InitOp(n, b) = StbHigh
        BY <1>1, <3>4 DEF InitOp
      <4>2. n - (2 * NWords + 9) = 3
        BY <1>1, <3>4
      <4>3. QED BY <1>7, <3>1, <4>1, <4>2
    <3>5. QED BY <1>1, <2>5, <3>2, <3>3, <3>4
  <2>6. QED BY <1>1, <2>1, <2>2, <2>3, <2>4, <2>5
<1>14. Cleared(0, c)
  BY <1>1 DEF Cleared, RamBytes
<1>15. \A j \in 1 .. Len(s5) : s5[j] = InitOp(j + 0, b)
  BY <1>12, <1>13
<1>16. 0 \in 0 .. 2 * NWords + 12 /\ Len(s5) = 2 * NWords + 12 - 0
  BY <1>1, <1>12
<1>17. QED BY <1>2, <1>4, <1>12, <1>14, <1>15, <1>16 DEF Clearing


-----------------------------------------------------------------------------
(* hardware_update_display.                                                *)

\* The n-th operation that sends contents r to word i of the display, when it is the
\* first changed one; words sent later start with the third or the sixth.
SendOp(n, i, r) ==
  CASE n \in {1, 4} -> StbLow
    [] n = 3 -> StbHigh
    [] n = 2 -> Send(CmdDataSetting(1, 0))
    [] n = 5 -> Send(CmdAddressSet(2 * i))
    [] n = 6 -> Send(LowByte(r))
    [] n = 7 -> Send(HighByte(r))

\* The chip after the first k operations.
Sent(k, c, i, r) ==
  /\ k \in {0, 3} => c.stb = 1
  /\ k \in {1, 4} => AwaitsCommand(c)
  /\ k \in 2 .. 4 => Writing(c)
  /\ k \in 5 .. 7 => Receiving(c, 2 * i + k - 5)
  /\ k > 5 => c.ram[2 * i] = LowByte(r)
  /\ k > 6 => c.ram[2 * i + 1] = HighByte(r)

Sending(w, c, i, r) ==
  \E k \in 0 .. 7 :
    /\ w \in Seq(BusOp) /\ Len(w) = 7 - k
    /\ \A j \in 1 .. Len(w) : w[j] = SendOp(j + k, i, r)
    /\ Sent(k, c, i, r)

\* One operation of it; the words elsewhere keep their contents.
LEMMA SentStep ==
  ASSUME NEW c \in Chip, NEW k \in 0 .. 6, NEW i \in Words, NEW r \in Word, Sent(k, c, i, r)
  PROVE  /\ Sent(k + 1, ChipStep(c, SendOp(k + 1, i, r)), i, r)
         /\ \A x \in RamBytes \ {2 * i, 2 * i + 1} :
              ChipStep(c, SendOp(k + 1, i, r)).ram[x] = c.ram[x]
<1> DEFINE d == ChipStep(c, SendOp(k + 1, i, r))
<1>1. NWords \in 1 .. 7 /\ i \in 0 .. NWords - 1 /\ 2 * i \in RamBytes /\ 2 * i + 1 \in RamBytes
      /\ 2 * i \in 0 .. 12
  BY Pt6964Assumption DEF Words, RamBytes
<1>2. CASE k \in {0, 3}
  <2>1. SendOp(k + 1, i, r) = StbLow
    BY <1>2 DEF SendOp
  <2>2. AwaitsCommand(d) /\ d.ram = c.ram /\ (Writing(c) => Writing(d))
    BY <1>2, <2>1, LowStep DEF Sent
  <2> HIDE DEF d
  <2>3. QED BY <1>2, <2>2 DEF Sent, d
<1>3. CASE k = 2
  <2>1. SendOp(k + 1, i, r) = StbHigh
    BY <1>3 DEF SendOp
  <2>2. d.stb = 1 /\ d.ram = c.ram /\ (Writing(c) => Writing(d))
    BY <2>1, HighStep
  <2> HIDE DEF d
  <2>3. QED BY <1>3, <2>2 DEF Sent, d
<1>4. CASE k = 1
  <2>1. SendOp(k + 1, i, r) = Send(CmdDataSetting(1, 0))
    BY <1>4 DEF SendOp
  <2>2. d.ram = c.ram /\ Writing(d)
    BY <1>4, <2>1, ModeStep DEF Sent
  <2> HIDE DEF d
  <2>3. QED BY <1>4, <2>2 DEF Sent, d
<1>5. CASE k = 4
  <2>1. SendOp(k + 1, i, r) = Send(CmdAddressSet(2 * i))
    BY <1>5 DEF SendOp
  <2>2. d.ram = c.ram /\ Receiving(d, 2 * i)
    BY <1>1, <1>5, <2>1, AddressStep DEF Sent
  <2>3. 2 * i + 5 - 5 = 2 * i
    BY <1>1
  <2> HIDE DEF d
  <2>4. QED BY <1>5, <2>2, <2>3 DEF Sent, d
<1>6. CASE k = 5
  <2> DEFINE b == LowByte(r)
  <2>1. SendOp(k + 1, i, r) = Send(b)
    BY <1>6 DEF SendOp
  <2>2. 2 * i \in 0 .. 14 /\ Receiving(c, 2 * i)
    <3>1. 2 * i + k - 5 = 2 * i
      BY <1>1, <1>6
    <3>2. Receiving(c, 2 * i + k - 5)
      BY <1>6 DEF Sent
    <3>3. QED BY <1>1, <3>1, <3>2
  <2>3. /\ Receiving(ChipStep(c, Send(b)), 2 * i + 1)
        /\ ChipStep(c, Send(b)).ram = [x \in RamBytes |-> IF x = 2 * i THEN b ELSE c.ram[x]]
    BY <2>2, DataStep, ZenonT(30)
  <2>4. /\ Receiving(d, 2 * i + 1)
        /\ d.ram = [x \in RamBytes |-> IF x = 2 * i THEN b ELSE c.ram[x]]
    BY <2>1, <2>3, Zenon
  <2>5. 2 * i + 6 - 5 = 2 * i + 1
    BY <1>1
  <2>6. d.ram[2 * i] = b /\ \A x \in RamBytes \ {2 * i, 2 * i + 1} : d.ram[x] = c.ram[x]
    BY <1>1, <2>4
  <2> HIDE DEF d
  <2>7. QED BY <1>6, <2>4, <2>5, <2>6 DEF Sent, d
<1>7. CASE k = 6
  <2> DEFINE b == HighByte(r)
  <2>1. SendOp(k + 1, i, r) = Send(b)
    BY <1>7 DEF SendOp
  <2>2. 2 * i + 1 \in 0 .. 14 /\ Receiving(c, 2 * i + 1) /\ c.ram[2 * i] = LowByte(r)
    <3>1. 2 * i + k - 5 = 2 * i + 1 /\ 2 * i + 1 \in 0 .. 14
      BY <1>1, <1>7
    <3>2. Receiving(c, 2 * i + k - 5) /\ c.ram[2 * i] = LowByte(r)
      BY <1>7 DEF Sent
    <3>3. QED BY <3>1, <3>2
  <2>3. /\ Receiving(ChipStep(c, Send(b)), (2 * i + 1) + 1)
        /\ ChipStep(c, Send(b)).ram = [x \in RamBytes |-> IF x = 2 * i + 1 THEN b ELSE c.ram[x]]
    <3>1. PICK a : a = 2 * i + 1
      OBVIOUS
    <3>2. a \in 0 .. 14 /\ Receiving(c, a)
      BY <2>2, <3>1, Zenon
    <3>3. /\ Receiving(ChipStep(c, Send(b)), a + 1)
          /\ ChipStep(c, Send(b)).ram = [x \in RamBytes |-> IF x = a THEN b ELSE c.ram[x]]
      BY <3>2, DataStep, ZenonT(30)
    <3>4. QED BY <3>1, <3>3, Zenon
  <2>4. /\ Receiving(d, (2 * i + 1) + 1)
        /\ d.ram = [x \in RamBytes |-> IF x = 2 * i + 1 THEN b ELSE c.ram[x]]
    BY <2>1, <2>3, Zenon
  <2>5. 2 * i + 7 - 5 = (2 * i + 1) + 1
    BY <1>1
  <2> HIDE DEF b, d
  <2>6. /\ d.ram[2 * i] = LowByte(r) /\ d.ram[2 * i + 1] = b
        /\ \A x \in RamBytes \ {2 * i, 2 * i + 1} : d.ram[x] = c.ram[x]
    <3>1. 2 * i # 2 * i + 1
      BY <1>1
    <3>2. QED BY <1>1, <2>2, <2>4, <3>1
  <2>7. QED BY <1>7, <2>4, <2>5, <2>6 DEF Sent, b, d
<1>8. QED BY <1>2, <1>3, <1>4, <1>5, <1>6, <1>7

\* What is left of an update of one word after one more operation.
LEMMA SendingStep ==
  ASSUME NEW c \in Chip, NEW w, NEW i \in Words, NEW r \in Word, Sending(w, c, i, r), w # <<>>
  PROVE  /\ Sending(Tail(w), ChipStep(c, Head(w)), i, r)
         /\ \A x \in RamBytes \ {2 * i, 2 * i + 1} : ChipStep(c, Head(w)).ram[x] = c.ram[x]
<1>1. PICK k \in 0 .. 7 :
        /\ w \in Seq(BusOp) /\ Len(w) = 7 - k
        /\ \A j \in 1 .. Len(w) : w[j] = SendOp(j + k, i, r)
        /\ Sent(k, c, i, r)
  BY DEF Sending
<1> DEFINE t == Tail(w)
<1>2. /\ Head(w) = w[1] /\ t \in Seq(BusOp) /\ Len(w) \in Nat /\ Len(t) = Len(w) - 1
      /\ 1 \in 1 .. Len(w) /\ \A j \in 1 .. Len(t) : j + 1 \in 1 .. Len(w) /\ t[j] = w[j + 1]
  BY <1>1, NextOp
<1>3. k \in 0 .. 6 /\ Head(w) = SendOp(k + 1, i, r)
  BY <1>1, <1>2
<1>4. /\ Sent(k + 1, ChipStep(c, Head(w)), i, r)
      /\ \A x \in RamBytes \ {2 * i, 2 * i + 1} : ChipStep(c, Head(w)).ram[x] = c.ram[x]
  BY <1>1, <1>3, SentStep
<1>5. Len(t) = 7 - (k + 1) /\ k + 1 \in 0 .. 7
  BY <1>1, <1>2, <1>3
<1> HIDE DEF t
<1>6. \A j \in 1 .. Len(t) : t[j] = SendOp(j + (k + 1), i, r)
  <2> TAKE j \in 1 .. Len(t)
  <2>1. t[j] = SendOp((j + 1) + k, i, r)
    BY <1>1, <1>2
  <2>2. (j + 1) + k = j + (k + 1)
    OBVIOUS
  <2>3. QED BY <2>1, <2>2
<1>7. QED BY <1>2, <1>4, <1>5, <1>6 DEF Sending, t

\* Three short transfers one after the other.
LEMMA ShortConcat ==
  ASSUME NEW s \in Seq(BusOp), NEW t \in Seq(BusOp), NEW u \in Seq(BusOp), NEW m \in 0 .. 3,
         NEW n \in 0 .. 2, Len(s) = m, Len(t) = n, Len(u) = 2
  PROVE  /\ Len(s \o t \o u) = m + n + 2
         /\ \A k \in 1 .. m + n + 2 :
              (s \o t \o u)[k] = IF k <= m THEN s[k] ELSE IF k <= m + n THEN t[k - m]
                                                    ELSE u[k - (m + n)]
<1> DEFINE st == s \o t
           w  == st \o u
<1>1. /\ st \in Seq(BusOp) /\ Len(st) = m + n
      /\ \A k \in 1 .. m + n : st[k] = IF k <= m THEN s[k] ELSE t[k - m]
  <2>1. /\ st \in Seq(BusOp) /\ Len(st) = Len(s) + Len(t)
        /\ \A k \in 1 .. Len(s) + Len(t) : st[k] = IF k <= Len(s) THEN s[k] ELSE t[k - Len(s)]
    BY ConcatProperties, Zenon
  <2> HIDE DEF st, w
  <2>2. QED BY <2>1
<1> HIDE DEF st
<1>2. /\ Len(w) = Len(st) + Len(u)
      /\ \A k \in 1 .. Len(st) + Len(u) : w[k] = IF k <= Len(st) THEN st[k] ELSE u[k - Len(st)]
  <2>1. st \in Seq(BusOp)
    BY <1>1
  <2>2. QED BY <2>1, ConcatProperties, Zenon
<1> HIDE DEF w
<1>3. /\ Len(w) = m + n + 2
      /\ \A k \in 1 .. m + n + 2 : w[k] = IF k <= m + n THEN st[k] ELSE u[k - (m + n)]
  BY <1>1, <1>2
<1>4. \A k \in 1 .. m + n + 2 :
        w[k] = IF k <= m THEN s[k] ELSE IF k <= m + n THEN t[k - m] ELSE u[k - (m + n)]
  BY <1>1, <1>3
<1>5. QED BY <1>3, <1>4 DEF w, st

\* hardware_update_display clocks out these operations for the word: all of them for the
\* first one, the last two when the word follows the previous one, else the last five.
LEMMA SendWordIsSending ==
  ASSUME NEW c \in Chip, NEW i \in Words, NEW r \in Word, NEW ofs \in Words \cup {NoOffset},
         ofs = NoOffset => c.stb = 1,
         ofs # NoOffset => Receiving(c, 2 * ofs + 2)
  PROVE  Sending(SendWord(ofs, i, r), c, i, r)
<1> DEFINE w == SendWord(ofs, i, r)
           lo == LowByte(r)
           hi == HighByte(r)
           ad == CmdAddressSet(2 * i)
           ds == CmdDataSetting(1, 0)
<1>1. NWords \in 1 .. 7 /\ i \in 0 .. NWords - 1
  BY Pt6964Assumption DEF Words
<1>2. w \in Seq(BusOp)
  BY SendWordType
<1>7. /\ StbLow \in BusOp /\ StbHigh \in BusOp /\ Send(lo) \in BusOp /\ Send(hi) \in BusOp
      /\ Send(ad) \in BusOp /\ Send(ds) \in BusOp
  BY OpTypes, WordBytes, CommandBytes
<1> HIDE DEF lo, hi, ad, ds
<1>3. CASE ofs = NoOffset
  <2>1. ofs # i - 1
    BY <1>1, <1>3 DEF NoOffset
  <2>2. w = Cmd(ds) \o <<StbLow, Send(ad)>> \o <<Send(lo), Send(hi)>>
    BY <1>3, <2>1, Zenon DEF SendWord, lo, hi, ad, ds
  <2> DEFINE open == <<StbLow, Send(ds), StbHigh>>
             addr == <<StbLow, Send(ad)>>
             data == <<Send(lo), Send(hi)>>
  <2>3. open \in Seq(BusOp) /\ addr \in Seq(BusOp) /\ data \in Seq(BusOp)
    BY <1>7
  <2>7. /\ Len(open) = 3 /\ open[1] = StbLow /\ open[2] = Send(ds) /\ open[3] = StbHigh
        /\ Len(addr) = 2 /\ addr[1] = StbLow /\ addr[2] = Send(ad)
        /\ Len(data) = 2 /\ data[1] = Send(lo) /\ data[2] = Send(hi)
    OBVIOUS
  <2>8. w = open \o addr \o data
    BY <2>2, Zenon DEF Cmd
  <2> HIDE DEF open, addr, data, w
  <2>9. /\ Len(w) = 7
        /\ \A k \in 1 .. 7 : w[k] = IF k <= 3 THEN open[k] ELSE IF k <= 5 THEN addr[k - 3]
                                                     ELSE data[k - 5]
    BY <2>3, <2>7, <2>8, ShortConcat, SMTT(30)
  <2>10. /\ w[1] = StbLow /\ w[2] = Send(ds) /\ w[3] = StbHigh /\ w[4] = StbLow
         /\ w[5] = Send(ad) /\ w[6] = Send(lo) /\ w[7] = Send(hi)
    BY <2>7, <2>9
  <2>4. Len(w) = 7 - 0 /\ \A j \in 1 .. 7 : w[j] = SendOp(j + 0, i, r)
    BY <2>9, <2>10 DEF SendOp, lo, hi, ad, ds
  <2>5. Sent(0, c, i, r)
    BY <1>3 DEF Sent
  <2>6. QED BY <1>2, <2>4, <2>5 DEF Sending, w
<1>4. CASE ofs # NoOffset /\ ofs # i - 1
  <2>2. w = <<StbHigh>> \o <<StbLow, Send(ad)>> \o <<Send(lo), Send(hi)>>
    BY <1>4, Zenon DEF SendWord, lo, hi, ad
  <2> DEFINE addr == <<StbLow, Send(ad)>>
             data == <<Send(lo), Send(hi)>>
  <2>3. <<StbHigh>> \in Seq(BusOp) /\ addr \in Seq(BusOp) /\ data \in Seq(BusOp)
    BY <1>7
  <2>7. /\ Len(<<StbHigh>>) = 1 /\ <<StbHigh>>[1] = StbHigh
        /\ Len(addr) = 2 /\ addr[1] = StbLow /\ addr[2] = Send(ad)
        /\ Len(data) = 2 /\ data[1] = Send(lo) /\ data[2] = Send(hi)
    OBVIOUS
  <2>8. w = <<StbHigh>> \o addr \o data
    BY <2>2, Zenon
  <2> HIDE DEF addr, data, w
  <2>9. /\ Len(w) = 5
        /\ \A k \in 1 .. 5 : w[k] = IF k <= 1 THEN <<StbHigh>>[k] ELSE IF k <= 3 THEN addr[k - 1]
                                                     ELSE data[k - 3]
    BY <2>3, <2>7, <2>8, ShortConcat
  <2>10. /\ w[1] = StbHigh /\ w[2] = StbLow /\ w[3] = Send(ad) /\ w[4] = Send(lo)
         /\ w[5] = Send(hi)
    BY <2>7, <2>9
  <2>4. Len(w) = 7 - 2 /\ \A j \in 1 .. 5 : w[j] = SendOp(j + 2, i, r)
    BY <2>9, <2>10 DEF SendOp, lo, hi, ad
  <2>5. Sent(2, c, i, r)
    BY <1>4 DEF Sent, Receiving, Writing
  <2>6. QED BY <1>2, <2>4, <2>5 DEF Sending, w
<1>5. CASE ofs = i - 1
  <2>1. ofs # NoOffset
    BY <1>1, <1>5 DEF NoOffset
  <2>2. w = <<>> \o <<>> \o <<Send(lo), Send(hi)>>
    BY <1>5, <2>1, Zenon DEF SendWord, lo, hi
  <2>3. w = <<Send(lo), Send(hi)>>
    BY <2>2
  <2>4. Len(w) = 7 - 5 /\ \A j \in 1 .. 2 : w[j] = SendOp(j + 5, i, r)
    BY <2>3 DEF SendOp, lo, hi
  <2>5. Sent(5, c, i, r)
    <3>1. 2 * ofs + 2 = 2 * i + 5 - 5
      BY <1>1, <1>5
    <3>2. QED BY <2>1, <3>1 DEF Sent
  <2>6. QED BY <1>2, <2>4, <2>5 DEF Sending, w
<1>6. QED BY <1>3, <1>4, <1>5


-----------------------------------------------------------------------------
(* The chip holds what the driver remembers.                               *)

\* The calls stay out of the sections that drive the chip, and so does the scan.
ContentInv ==
  /\ \A c \in Callers :
       /\ wire[c] = <<>>
       /\ pc[c] \in {"idle", "enter", "inside"}
       /\ pc[c] # "idle" => req[c].op \in {"display", "overlay", "dotled", "brightness_suspend"}
  /\ pc[Timer] \notin {"scan", "scanning"}

Holds(c, i, r) == c.ram[2 * i] = LowByte(r) /\ c.ram[2 * i + 1] = HighByte(r)

\* Outside of an update STB is high and the chip holds every word; in one, word pofs
\* is under way or was sent, and the others hold; Close raises STB.
ChipInv ==
  IF pc[Timer] = "probe"
  THEN Clearing(wire[Timer], chip) /\ pofs = NoOffset /\ \A i \in Words : raw_display[i] = {}
  ELSE IF pofs = NoOffset
  THEN wire[Timer] = <<>> /\ chip.stb = 1 /\ \A i \in Words : Holds(chip, i, raw_display[i])
  ELSE /\ pc[Timer] \in {"send", "close", "rearm"}
       /\ \A i \in Words \ {pofs} : Holds(chip, i, raw_display[i])
       /\ pc[Timer] \in {"send", "close"} => Sending(wire[Timer], chip, pofs, raw_display[pofs])
       /\ pc[Timer] = "rearm" => /\ Holds(chip, pofs, raw_display[pofs])
                                 /\ \/ wire[Timer] = <<StbHigh>>
                                    \/ wire[Timer] = <<>> /\ chip.stb = 1

\* A finished transfer.
LEMMA WhenSent ==
  ASSUME NEW c \in Chip, NEW i \in Words, NEW r \in Word, Sending(<<>>, c, i, r)
  PROVE  Holds(c, i, r) /\ Receiving(c, 2 * i + 2)
<1>1. PICK k \in 0 .. 7 : Len(<<>>) = 7 - k /\ Sent(k, c, i, r)
  BY DEF Sending
<1>2. k = 7
  BY <1>1
<1>3. i \in Nat /\ 2 * i + 7 - 5 = 2 * i + 2
  BY Pt6964Assumption DEF Words
<1>4. QED BY <1>1, <1>2, <1>3 DEF Sent, Holds

\* hardware_init leaves an empty display.
LEMMA WhenCleared ==
  ASSUME NEW c \in Chip, Clearing(<<>>, c)
  PROVE  c.stb = 1 /\ \A i \in Words : Holds(c, i, {})
<1>1. PICK k \in 0 .. 2 * NWords + 12 : Len(<<>>) = 2 * NWords + 12 - k /\ Cleared(k, c)
  BY DEF Clearing
<1>2. NWords \in 1 .. 7
  BY Pt6964Assumption
<1>3. k = 2 * NWords + 12
  BY <1>1, <1>2
<1>4. c.stb = 1 /\ \A a \in RamBytes : c.ram[a] = {}
  BY <1>1, <1>2, <1>3 DEF Cleared, RamBytes
<1>5. \A i \in Words : 2 * i \in RamBytes /\ 2 * i + 1 \in RamBytes
  BY <1>2 DEF Words, RamBytes
<1>6. QED BY <1>4, <1>5 DEF Holds, LowByte, HighByte

\* The calls of ContentOnly stay away from the bus.
LEMMA ContentNext ==
  ASSUME ContentOnly, TypeInv, ContentInv, [Next]_vars
  PROVE  ContentInv'
<1> USE DEF ContentInv, Goto
<1>a. /\ Timer \in Procs /\ Timer \notin Callers /\ Callers \subseteq Procs
      /\ Procs = Callers \cup {Timer}
      /\ pc \in [Procs -> Labels \cup TimerLabels] /\ wire \in [Procs -> Seq(BusOp)]
      /\ req \in [Callers -> Request \cup {NoRequest}]
  BY VfdAssumption DEF Procs, TypeInv, TypeOK
<1>1. ASSUME NEW c \in Callers, NEW r \in Requests, CallStore(c, r) PROVE ContentInv'
  BY <1>a, <1>1 DEF CallStore, ContentOnly
<1>2. ASSUME NEW c \in Callers, NEW r \in Requests, CallPower(c, r) PROVE ContentInv'
  BY <1>2 DEF CallPower, ContentOnly
<1>3. ASSUME NEW c \in Callers, Enter(c) PROVE ContentInv'
  BY <1>a, <1>3 DEF Enter
<1>4. ASSUME NEW c \in Callers, Leave(c) PROVE ContentInv'
  <2>1. pc[c] = "inside" /\ UNCHANGED wire
        /\ \A d \in Procs \ {c} : pc'[d] = pc[d]
    BY <1>a, <1>4 DEF Leave
  <2>2. \A d \in Callers \ {c} : req'[d] = req[d]
    BY <1>a, <1>4 DEF Leave
  <2>3. req[c].op \in {"display", "overlay", "dotled", "brightness_suspend"}
    BY <2>1
  <2>4. CASE req[c].op = "dotled" /\ Len(req[c].leds) > 1 /\ pc'[c] = "enter"
             /\ req'[c] = [req[c] EXCEPT !.leds = Tail(req[c].leds)]
    <3>1. req[c] \in [op : {"dotled"}, leds : Seq(LedAssignment) \ {<<>>}]
      <4>1. req[c] \in Request \cup {NoRequest} /\ req[c].op = "dotled"
        BY <1>a, <2>4
      <4>2. NoRequest.op = "none"
        BY DEF NoRequest
      <4>3. req[c] \in Request
        BY <4>1, <4>2
      <4>4. /\ req[c] \notin [op : {"display"}, text : Seq(Chars)]
            /\ req[c] \notin [op : {"overlay"}, words : Seq(Word)]
            /\ req[c] \notin [op : Settings, val : Nat]
            /\ req[c] \notin [op : {"power"},
                             callback : {"suspend", "resume", "shutdown"}]
        BY <4>1 DEF Settings
      <4>5. QED BY <4>3, <4>4 DEF Request
    <3>2. req'[c].op = req[c].op
      BY <2>4, <3>1
    <3>3. QED BY <1>a, <2>1, <2>2, <2>3, <2>4, <3>2
  <2>5. CASE pc'[c] = "idle"
    BY <1>a, <2>1, <2>2, <2>5
  <2>6. QED BY <1>a, <1>4, <2>3, <2>4, <2>5 DEF Leave
<1>5. ASSUME NEW c \in Callers, EnterApply(c) PROVE ContentInv'
  BY <1>5 DEF EnterApply
<1>6. ASSUME NEW c \in Callers, LeaveApply(c) PROVE ContentInv'
  BY <1>6 DEF LeaveApply
<1>7. ASSUME NEW p \in Procs, StoreStep(p) PROVE ContentInv'
  BY <1>7 DEF StoreStep
<1>8. ASSUME NEW p \in Procs, BusStep(p) PROVE ContentInv'
  BY <1>a, <1>8 DEF BusStep
<1>9. CASE Handler
  <2>1. /\ \A c \in Callers : pc'[c] = pc[c] /\ wire'[c] = wire[c]
        /\ req' = req
    BY <1>a, <1>9
    DEF Handler, Armed, Fire, ScanEnter, ScanLeave, BootEnter, BootLeave, Check, Render, Merge,
        SkipWord, ChangeWord, Close, Rearm, Loop
  <2>2. pc'[Timer] \notin {"scan", "scanning"}
    BY <1>a, <1>9
    DEF Handler, Armed, Fire, ScanEnter, ScanLeave, BootEnter, BootLeave, Check, Render, Merge,
        SkipWord, ChangeWord, Close, Rearm, Loop, AfterScan, ContentOnly
  <2>3. QED BY <2>1, <2>2
<1>10. CASE UNCHANGED vars
  BY <1>10 DEF vars
<1>11. QED
  BY <1>1, <1>2, <1>3, <1>4, <1>5, <1>6, <1>7, <1>8, <1>9, <1>10 DEF Next, Caller

\* Steps of the handler that leave the chip and the bus alone.
LEMMA ChipFrame ==
  ASSUME ChipInv, UNCHANGED <<chip, raw_display, pofs>>, wire'[Timer] = wire[Timer],
         pc[Timer] = "probe" <=> pc'[Timer] = "probe",
         pofs # NoOffset => pc'[Timer] = pc[Timer]
  PROVE  ChipInv'
BY DEF ChipInv

\* One operation on the bus.
LEMMA ChipBusStep ==
  ASSUME TypeInv, ContentInv, ChipInv, NEW p \in Procs, BusStep(p)
  PROVE  ChipInv'
<1> DEFINE w == wire[Timer]
<1>1. /\ chip \in Chip /\ raw_display \in [Words -> Word] /\ pofs \in Words \cup {NoOffset}
      /\ wire \in [Procs -> Seq(BusOp)] /\ Timer \in Procs
  BY DEF TypeInv, TypeOK, Procs
<1>2. p = Timer /\ w # <<>>
  BY DEF ContentInv, BusStep, Procs
<1>3. /\ chip' = ChipStep(chip, Head(w)) /\ wire'[Timer] = Tail(w)
      /\ UNCHANGED <<pc, raw_display, pofs>>
  BY <1>1, <1>2 DEF BusStep, local
<1>4. \A i \in Words : raw_display[i] \in Word
  BY <1>1
<1> HIDE DEF w
<1>5. CASE pc[Timer] = "probe"
  <2>1. Clearing(w, chip)
    BY <1>5 DEF ChipInv, w
  <2>2. Clearing(Tail(w), chip')
    BY <1>1, <1>2, <1>3, <2>1, ClearingStep
  <2>3. QED BY <1>3, <1>5, <2>2 DEF ChipInv
<1>6. CASE pc[Timer] # "probe" /\ pofs # NoOffset /\ pc[Timer] \in {"send", "close"}
  <2>1. Sending(w, chip, pofs, raw_display[pofs]) /\ pofs \in Words /\ raw_display[pofs] \in Word
    BY <1>1, <1>6 DEF ChipInv, w
  <2>2. /\ Sending(Tail(w), chip', pofs, raw_display[pofs])
        /\ \A x \in RamBytes \ {2 * pofs, 2 * pofs + 1} : chip'.ram[x] = chip.ram[x]
    BY <1>1, <1>2, <1>3, <2>1, SendingStep
  <2>3. ASSUME NEW i \in Words \ {pofs} PROVE Holds(chip', i, raw_display[i])
    <3>1. Holds(chip, i, raw_display[i])
      BY <1>6 DEF ChipInv
    <3>2. {2 * i, 2 * i + 1} \subseteq RamBytes \ {2 * pofs, 2 * pofs + 1}
      BY <2>1, Pt6964Assumption DEF Words, RamBytes
    <3>3. QED BY <2>2, <3>1, <3>2 DEF Holds
  <2>4. QED BY <1>3, <1>6, <2>2, <2>3 DEF ChipInv
<1>7. CASE pc[Timer] # "probe" /\ pofs # NoOffset /\ pc[Timer] = "rearm"
  <2>1. w = <<StbHigh>>
    BY <1>2, <1>7 DEF ChipInv, w
  <2>2. Head(w) = StbHigh /\ Tail(w) = <<>>
    BY <2>1
  <2>3. chip'.stb = 1 /\ chip'.ram = chip.ram
    BY <1>1, <1>3, <2>2, HighStep
  <2>4. \A i \in Words : Holds(chip', i, raw_display[i])
    BY <1>1, <1>7, <2>3 DEF ChipInv, Holds
  <2>5. QED BY <1>1, <1>3, <1>7, <2>2, <2>3, <2>4 DEF ChipInv
<1>8. QED BY <1>2, <1>5, <1>6, <1>7 DEF ChipInv, w

\* A changed word (hardware_update_display).
LEMMA ChipChangeWord ==
  ASSUME TypeInv, ChipInv, ChangeWord
  PROVE  ChipInv'
<1> USE DEF Goto
<1>1. /\ chip \in Chip /\ raw_display \in [Words -> Word] /\ pofs \in Words \cup {NoOffset}
      /\ wire \in [Procs -> Seq(BusOp)] /\ pc \in [Procs -> Labels \cup TimerLabels] /\ Timer \in Procs
      /\ raw \in [Words -> Word] /\ idx \in Words
  BY DEF TypeInv, TypeOK, Procs
<1>2. pc[Timer] = "send" /\ wire[Timer] = <<>> /\ chip' = chip
  BY DEF ChangeWord
<1>3. /\ raw_display'[idx] = raw[idx] /\ \A i \in Words \ {idx} : raw_display'[i] = raw_display[i]
      /\ wire'[Timer] = SendWord(pofs, idx, raw[idx]) /\ pofs' = idx
      /\ pc'[Timer] \in {"send", "close"} /\ raw[idx] \in Word
  BY <1>1 DEF ChangeWord, Loop
<1>4. idx # NoOffset
  BY <1>1, Pt6964Assumption DEF Words, NoOffset
<1>5. CASE pofs = NoOffset
  <2>1. chip.stb = 1 /\ \A i \in Words : Holds(chip, i, raw_display[i])
    BY <1>2, <1>5 DEF ChipInv
  <2>2. Sending(wire'[Timer], chip, idx, raw[idx])
    BY <1>1, <1>3, <1>5, <2>1, SendWordIsSending
  <2>3. QED BY <1>2, <1>3, <1>4, <2>1, <2>2 DEF ChipInv
<1>6. CASE pofs # NoOffset
  <2>1. /\ \A i \in Words \ {pofs} : Holds(chip, i, raw_display[i])
        /\ Sending(<<>>, chip, pofs, raw_display[pofs])
        /\ pofs \in Words /\ raw_display[pofs] \in Word
    BY <1>1, <1>2, <1>6 DEF ChipInv
  <2>2. Holds(chip, pofs, raw_display[pofs]) /\ Receiving(chip, 2 * pofs + 2)
    BY <1>1, <2>1, WhenSent
  <2>3. Sending(wire'[Timer], chip, idx, raw[idx])
    BY <1>1, <1>3, <1>6, <2>2, SendWordIsSending
  <2>4. \A i \in Words : Holds(chip, i, raw_display[i])
    BY <2>1, <2>2
  <2>5. QED BY <1>2, <1>3, <1>4, <2>3, <2>4 DEF ChipInv
<1>7. QED BY <1>5, <1>6

\* The end of an update and of the handler.
LEMMA ChipCloseRearm ==
  ASSUME TypeInv, ChipInv, Close \/ Rearm
  PROVE  ChipInv'
<1> USE DEF Goto
<1>1. /\ chip \in Chip /\ raw_display \in [Words -> Word] /\ pofs \in Words \cup {NoOffset}
      /\ wire \in [Procs -> Seq(BusOp)] /\ pc \in [Procs -> Labels \cup TimerLabels] /\ Timer \in Procs
  BY DEF TypeInv, TypeOK, Procs
<1>2. CASE Close
  <2>1. /\ pc[Timer] = "close" /\ wire[Timer] = <<>> /\ UNCHANGED <<chip, raw_display, pofs>>
        /\ pc'[Timer] = "rearm" /\ wire'[Timer] = EndUpdate(pofs)
    BY <1>1, <1>2 DEF Close, local
  <2>2. CASE pofs = NoOffset
    BY <2>1, <2>2 DEF ChipInv, EndUpdate
  <2>3. CASE pofs # NoOffset
    <3>1. Sending(<<>>, chip, pofs, raw_display[pofs]) /\ pofs \in Words /\ raw_display[pofs] \in Word
      BY <1>1, <2>1, <2>3 DEF ChipInv
    <3>2. Holds(chip, pofs, raw_display[pofs])
      BY <1>1, <3>1, WhenSent
    <3>3. QED BY <2>1, <2>3, <3>2 DEF ChipInv, EndUpdate
  <2>4. QED BY <2>2, <2>3
<1>3. CASE Rearm
  <2>1. /\ pc[Timer] = "rearm" /\ wire[Timer] = <<>> /\ UNCHANGED <<chip, raw_display, wire>>
        /\ pc'[Timer] = "wait" /\ pofs' = NoOffset
    BY <1>1, <1>3 DEF Rearm
  <2>2. chip.stb = 1 /\ \A i \in Words : Holds(chip, i, raw_display[i])
    BY <2>1 DEF ChipInv
  <2>3. QED BY <2>1, <2>2 DEF ChipInv
<1>4. QED BY <1>2, <1>3

\* Every step of a handler keeps the chip in step with raw_display.
LEMMA ChipNext ==
  ASSUME ContentOnly, TypeInv, ContentInv, ChipInv, [Next]_vars
  PROVE  ChipInv'
<1> USE DEF Goto, local
<1>a. /\ Timer \in Procs /\ Timer \notin Callers /\ Callers \subseteq Procs
      /\ pc \in [Procs -> Labels \cup TimerLabels] /\ wire \in [Procs -> Seq(BusOp)]
      /\ chip \in Chip
  BY VfdAssumption DEF Procs, TypeInv, TypeOK
<1>b. pc[Timer] \notin {"probe", "send", "close", "rearm"} => pofs = NoOffset
  BY DEF ChipInv
<1>1. ASSUME NEW c \in Callers, Caller(c) PROVE ChipInv'
  <2>1. /\ UNCHANGED <<chip, raw_display, pofs>> /\ pc'[Timer] = pc[Timer]
        /\ wire'[Timer] = wire[Timer]
    BY <1>a, <1>1 DEF Caller, CallStore, CallPower, Enter, Leave, EnterApply, LeaveApply
  <2>2. QED BY <2>1, ChipFrame
<1>2. ASSUME NEW p \in Procs, StoreStep(p) PROVE ChipInv'
  BY <1>2, ChipFrame DEF StoreStep
<1>3. ASSUME NEW p \in Procs, BusStep(p) PROVE ChipInv'
  BY <1>3, ChipBusStep
<1>4. CASE Armed
  <2>1. /\ pc[Timer] = "probe" /\ wire[Timer] = <<>> /\ pc'[Timer] = "wait"
        /\ UNCHANGED <<chip, raw_display, pofs, wire>>
    BY <1>a, <1>4 DEF Armed
  <2>2. /\ Clearing(<<>>, chip) /\ pofs = NoOffset /\ \A i \in Words : raw_display[i] = {}
    BY <2>1 DEF ChipInv
  <2>3. chip.stb = 1 /\ \A i \in Words : Holds(chip, i, {})
    BY <1>a, <2>2, WhenCleared
  <2>4. QED BY <2>1, <2>2, <2>3 DEF ChipInv
<1>5. CASE Fire \/ ScanEnter \/ ScanLeave \/ BootEnter \/ BootLeave \/ Check \/ Render \/ Merge
  <2>1. /\ UNCHANGED <<chip, raw_display, pofs, wire>> /\ pc[Timer] # "probe" /\ pc'[Timer] # "probe"
        /\ pofs = NoOffset
    BY <1>a, <1>b, <1>5 DEF Fire, ScanEnter, ScanLeave, BootEnter, BootLeave, Check, Render, Merge,
        Loop, AfterScan, ContentInv
  <2>2. QED BY <2>1, ChipFrame
<1>6. CASE SkipWord
  <2>1. /\ UNCHANGED <<chip, raw_display, pofs, wire>> /\ pc[Timer] = "send"
        /\ pc'[Timer] \in {"send", "close"}
    BY <1>a, <1>6 DEF SkipWord, Loop
  <2>2. QED BY <2>1 DEF ChipInv
<1>7. CASE ChangeWord
  BY <1>7, ChipChangeWord
<1>8. CASE Close \/ Rearm
  BY <1>8, ChipCloseRearm
<1>9. CASE UNCHANGED vars
  BY <1>9, ChipFrame DEF vars
<1>10. QED
  BY <1>1, <1>2, <1>3, <1>4, <1>5, <1>6, <1>7, <1>8, <1>9 DEF Next, Handler

\* vfd_probe hands over a chip that is being cleared.
LEMMA ChipInit == Init => ContentInv /\ ChipInv
<1> SUFFICES ASSUME Init PROVE ContentInv /\ ChipInv
  OBVIOUS
<1>1. /\ Timer \in Procs /\ Timer \notin Callers /\ Callers \subseteq Procs
  BY VfdAssumption DEF Procs
<1>2. ContentInv
  BY <1>1 DEF Init, ContentInv
<1>3. chip \in Chip /\ chip.stb = 1
  BY DEF Init, PowerOn, Chip, Byte
<1>4. wire[Timer] = HardwareInit(InitBrightness)
  BY <1>1 DEF Init
<1>5. Clearing(wire[Timer], chip)
  BY <1>3, <1>4, InitIsClearing
<1>6. QED BY <1>1, <1>2, <1>5 DEF Init, ChipInv, Blank

\* A word is its two bytes.
LEMMA WordOfBytes ==
  ASSUME NEW c, NEW i, NEW r \in Word, Holds(c, i, r)
  PROVE  RamWord(c, i) = r
<1>1. RamWord(c, i) = LowByte(r) \cup {b + 8 : b \in HighByte(r)}
  BY DEF RamWord, Holds
<1>2. ASSUME NEW x \in r PROVE x \in LowByte(r) \cup {b + 8 : b \in HighByte(r)}
  <2>1. x \in 0 .. 15
    BY DEF Word
  <2>2. CASE x < 8
    BY <2>1, <2>2 DEF LowByte
  <2>3. CASE x >= 8
    <3>1. x - 8 \in HighByte(r) /\ (x - 8) + 8 = x
      BY <2>1, <2>3 DEF HighByte
    <3>2. QED BY <3>1
  <2>4. QED BY <2>1, <2>2, <2>3
<1>3. ASSUME NEW x \in LowByte(r) \cup {b + 8 : b \in HighByte(r)} PROVE x \in r
  BY DEF LowByte, HighByte
<1>4. QED BY <1>1, <1>2, <1>3

\* The chip holds the words of raw_display whenever the bus is idle.
LEMMA ChipHolds ==
  ASSUME TypeInv, ChipInv
  PROVE  ChipHoldsRawDisplay
<1> SUFFICES ASSUME BusIdle, pc[Timer] # "probe", NEW i \in Words
             PROVE  RamWord(chip, i) = raw_display[i]
  BY DEF ChipHoldsRawDisplay
<1>1. /\ chip \in Chip /\ raw_display \in [Words -> Word] /\ pofs \in Words \cup {NoOffset}
      /\ wire[Timer] = <<>>
  BY DEF TypeInv, TypeOK, BusIdle, Procs
<1>2. Holds(chip, i, raw_display[i])
  <2>1. CASE pofs = NoOffset
    BY <2>1 DEF ChipInv
  <2>2. CASE pofs # NoOffset /\ i # pofs
    BY <2>2 DEF ChipInv
  <2>3. CASE pofs # NoOffset /\ i = pofs /\ pc[Timer] \in {"send", "close"}
    <3>1. Sending(<<>>, chip, pofs, raw_display[pofs]) /\ raw_display[pofs] \in Word
      BY <1>1, <2>3 DEF ChipInv
    <3>2. QED BY <1>1, <2>3, <3>1, WhenSent
  <2>4. CASE pofs # NoOffset /\ i = pofs /\ pc[Timer] = "rearm"
    BY <2>4 DEF ChipInv
  <2>5. QED BY <2>1, <2>2, <2>3, <2>4 DEF ChipInv
<1>3. QED BY <1>1, <1>2, WordOfBytes

\* While no other handler drives the bus, hardware_update_display leaves the chip with
\* exactly the words it remembers in raw_display, whichever of them it sends.
THEOREM ChipFollows == ASSUME ContentOnly PROVE Spec => []ChipHoldsRawDisplay
<1>1. Init => TypeInv /\ ContentInv /\ ChipInv
  BY TypeInit, ChipInit
<1>2. (TypeInv /\ ContentInv /\ ChipInv) /\ [Next]_vars => (TypeInv /\ ContentInv /\ ChipInv)'
  BY TypeNext, ContentNext, ChipNext
<1>3. TypeInv /\ ContentInv /\ ChipInv => ChipHoldsRawDisplay
  BY ChipHolds
<1>4. QED BY <1>1, <1>2, <1>3, PTL DEF Spec


-----------------------------------------------------------------------------
(* The driver implements Mirror.                                           *)

\* What Mirror sees of the driver.
Source == [i \in Words |-> Want(i)]
Copy   == [i \in Words |-> RamWord(chip, i)]
Lag    == Dirty \/ pc[Timer] = "probe" \/ ~ BusIdle

Clean == /\ Source \in [Words -> Word] /\ Copy \in [Words -> Word]
         /\ ~ Lag => Copy = Source

MirrorInv == TypeInv /\ ContentInv /\ ChipInv /\ UpdateInv

\* The two sides are displays of words.
LEMMA SidesType ==
  ASSUME TypeInv
  PROVE  Source \in [Words -> Word] /\ Copy \in [Words -> Word]
<1>1. ASSUME NEW i \in Words PROVE Want(i) \in Word
  <2>1. Rendered(i) \in Word
    BY RenderedType
  <2>2. raw_overlay[i] \in Word
    BY DEF TypeInv, TypeOK
  <2>3. QED BY <2>1, <2>2 DEF Want, Word
<1>2. ASSUME NEW i \in Words PROVE RamWord(chip, i) \in Word
  <2>1. 2 * i \in RamBytes /\ 2 * i + 1 \in RamBytes
    BY Pt6964Assumption DEF Words, RamBytes
  <2>2. chip.ram[2 * i] \in Byte /\ chip.ram[2 * i + 1] \in Byte
    BY <2>1 DEF TypeInv, TypeOK, Chip
  <2>3. QED BY <2>2 DEF RamWord, Byte, Word
<1>3. QED BY <1>1, <1>2 DEF Source, Copy

\* NoLostUpdate and ChipHoldsRawDisplay together: a clean copy is the source.
LEMMA CleanIsEqual ==
  ASSUME MirrorInv, ~ Lag
  PROVE  Copy = Source
<1>1. NoLostUpdate
  BY FreshWhenClean DEF MirrorInv
<1>2. ChipHoldsRawDisplay
  BY ChipHolds DEF MirrorInv
<1>3. \A i \in Words : raw_display[i] = Want(i) /\ RamWord(chip, i) = raw_display[i]
  BY <1>1, <1>2 DEF Lag, NoLostUpdate, ChipHoldsRawDisplay
<1>4. QED BY <1>3 DEF Source, Copy

\* Nothing is stored and nothing is sent while the copy is clean.
LEMMA CleanIsStill ==
  ASSUME MirrorInv, ~ Lag, [Next]_vars
  PROVE  UNCHANGED <<Source, Copy>>
<1> USE DEF local, shared
<1>1. ASSUME NEW p \in Procs, BusStep(p) PROVE FALSE
  BY <1>1 DEF BusStep, Lag, BusIdle
<1>2. ASSUME NEW p \in Procs, StoreStep(p) PROVE UNCHANGED <<display, raw_overlay, chip>>
  <2>1. PICK k \in 1 .. Len(stores[p]) : Commit(stores[p][k]) /\ UNCHANGED chip
    BY <1>2 DEF StoreStep
  <2>2. /\ stores[p] \in Seq(Store) /\ Procs = Callers \cup {Timer}
    BY DEF MirrorInv, TypeInv, TypeOK, Procs
  <2>3. stores[p][k] \in Store /\ Len(stores[p]) \in 1 .. Len(stores[p])
    BY <2>1, <2>2, ElementOfSeq, LenProperties
  <2>4. pc[Timer] # "render" /\ ~ AboutToAsk
    BY DEF Lag, Dirty, Updating
  <2>5. stores[p] # <<>>
    BY <2>2, <2>3
  <2>6. AsksAtEnd(stores[p])
    BY <2>2, <2>4, <2>5 DEF MirrorInv, UpdateInv, Pending
  <2>7. ~ Content(stores[p][k])
    BY <2>1, <2>3, <2>4, <2>6 DEF AsksAtEnd, AboutToAsk
  <2>8. QED BY <2>1, <2>7 DEF Commit, Content
<1>3. UNCHANGED <<display, raw_overlay, chip>>
  BY <1>1, <1>2
  DEF Next, Caller, CallStore, CallPower, Enter, Leave, EnterApply, LeaveApply, Handler, Armed, Fire,
      ScanEnter, ScanLeave, BootEnter, BootLeave, Check, Render, Merge, SkipWord, ChangeWord, Close,
      Rearm, vars
<1>4. QED BY <1>3 DEF Source, Copy, Want, Rendered

\* While no other handler drives the bus and stores keep their order, the chip mirrors
\* the text and the overlay: it may lag only while an update is asked for or under way.
THEOREM MirrorImplemented == ASSUME ContentOnly, ~ WeakOrder PROVE Spec => MirrorsContent
<1>1. Init => MirrorInv
  BY TypeInit, ChipInit, UpdateInit DEF MirrorInv
<1>2. MirrorInv /\ [Next]_vars => MirrorInv'
  BY TypeNext, ContentNext, ChipNext, UpdateNext DEF MirrorInv
<1>3. MirrorInv => Clean
  BY SidesType, CleanIsEqual DEF MirrorInv, Clean
<1>4. MirrorInv' => Clean'
  BY <1>3, PTL
<1>5. MirrorInv => ShownByChip!Init
  <2> SUFFICES ASSUME MirrorInv PROVE ShownByChip!Init
    OBVIOUS
  <2>1. Source \in [Words -> Word] /\ Copy \in [Words -> Word]
    BY <1>3 DEF Clean
  <2>2. ~ Lag => Copy = Source
    BY <1>3 DEF Clean
  <2>3. QED BY <2>1, <2>2 DEF ShownByChip!Init, ShownByChip!Contents, Source, Copy, Lag
<1>6. MirrorInv /\ MirrorInv' /\ [Next]_vars
        => [ShownByChip!Next]_<<[i \in Words |-> Want(i)], [i \in Words |-> RamWord(chip, i)],
                                Dirty \/ pc[Timer] = "probe" \/ ~ BusIdle>>
  <2> SUFFICES ASSUME MirrorInv, MirrorInv', [Next]_vars
               PROVE  ShownByChip!Next \/ UNCHANGED <<Source, Copy, Lag>>
    BY DEF Source, Copy, Lag
  <2>1. Source' \in [Words -> Word] /\ Copy' \in [Words -> Word]
    BY <1>4 DEF Clean
  <2>2. ~ Lag' => Copy' = Source'
    BY <1>4 DEF Clean
  <2>3. ~ Lag => UNCHANGED <<Source, Copy>>
    BY CleanIsStill
  <2>4. CASE Lag
    <3>1. ShownByChip!Work
      BY <2>1, <2>2, <2>4 DEF ShownByChip!Work, ShownByChip!Contents, Source, Copy, Lag
    <3>2. QED BY <3>1 DEF ShownByChip!Next
  <2>5. CASE ~ Lag /\ Lag'
    <3>1. ShownByChip!Soil
      BY <2>3, <2>5 DEF ShownByChip!Soil, Source, Copy, Lag
    <3>2. QED BY <3>1 DEF ShownByChip!Next
  <2>6. CASE ~ Lag /\ ~ Lag'
    BY <2>3, <2>6 DEF Lag
  <2>7. QED BY <2>4, <2>5, <2>6
<1>7. QED BY <1>1, <1>2, <1>5, <1>6, PTL DEF Spec, MirrorsContent, ShownByChip!Spec

-----------------------------------------------------------------------------
(* The display control register follows the settings of the structure, for *)
(* any callers and settings, as long as nothing is to be displayed.  With  *)
(* the updates of hardware_update_display, which take no lock, it does not *)
(* (see the run contention).                                               *)
(*                                                                         *)
(* A handler that is clocking something out either leaves the register     *)
(* alone (Keeps) or is going to set it (Programs), and the mutex lets one  *)
(* of them at a time do so.                                                *)

\* The callers write the settings or call back for power management, and there
\* is no boot animation.
ControlOnly ==
  /\ \A r \in Requests : r.op \in Settings \cup {"power"}
  /\ BootText = <<>>

-----------------------------------------------------------------------------
(* What a transfer does to the register.                                   *)

\* Operations that do not set the register, wherever they are in a transfer.
Harmless == {op \in BusOp : op.pin = "DO" => (7 \in op.byte => 6 \in op.byte)}

\* What is left of a transfer that leaves the register alone.
Keeps(w, c) ==
  /\ w \in Seq(Harmless)
  /\ IF w = <<>> THEN c.stb = 1 ELSE w[Len(w)] = StbHigh

\* What is left of a transfer that sets the register to b in the end.
Programs(w, c, b) ==
  \/ \E before \in Seq(Harmless) : w = before \o Cmd(b) /\ Keeps(before, c)
  \/ w = <<Send(b), StbHigh>> /\ c.stb = 0 /\ c.command
  \/ w = <<StbHigh>> /\ c.control = b
  \/ w = <<>> /\ c.control = b /\ c.stb = 1

\* A display control command (pt6964.h).
ControlByte == {b \in Byte : 7 \in b /\ 6 \notin b}

\* The edges of STB, the reads and every byte but a display control command are harmless.
LEMMA HarmlessOps ==
  /\ StbLow \in Harmless /\ StbHigh \in Harmless /\ ReadByte \in Harmless
  /\ \A b \in Byte : (7 \in b => 6 \in b) => Send(b) \in Harmless
BY DEF Harmless, BusOp, StbLow, StbHigh, ReadByte, Send

\* A harmless operation leaves the register alone; the last one raises STB.
LEMMA HarmlessStep ==
  ASSUME NEW c \in Chip, NEW op \in Harmless
  PROVE  /\ ChipStep(c, op).control = c.control
         /\ op = StbHigh => ChipStep(c, op).stb = 1
<1>1. CASE op.pin = "STB"
  BY <1>1 DEF ChipStep, Chip, StbHigh
<1>2. CASE op.pin = "DI"
  BY <1>2 DEF ChipStep, Chip, StbHigh
<1>3. CASE op.pin = "DO"
  <2>1. 7 \in op.byte => 6 \in op.byte
    BY <1>3 DEF Harmless
  <2>2. Command(c, op.byte).control = c.control
    BY <2>1 DEF Command, Chip
  <2>3. Data(c, op.byte).control = c.control
    BY DEF Data, Chip
  <2>4. op # StbHigh
    BY <1>3 DEF StbHigh
  <2>5. QED BY <1>3, <2>2, <2>3, <2>4 DEF ChipStep
<1>4. QED BY <1>1, <1>2, <1>3 DEF Harmless, BusOp

\* One operation of a transfer that leaves the register alone.
LEMMA KeepsStep ==
  ASSUME NEW c \in Chip, NEW w, Keeps(w, c), w # <<>>
  PROVE  /\ Keeps(Tail(w), ChipStep(c, Head(w)))
         /\ ChipStep(c, Head(w)).control = c.control
<1> DEFINE t == Tail(w)
           d == ChipStep(c, Head(w))
<1>1. w \in Seq(Harmless) /\ w[Len(w)] = StbHigh
  BY DEF Keeps
<1>2. /\ Head(w) \in Harmless /\ Head(w) = w[1] /\ t \in Seq(Harmless) /\ Len(t) = Len(w) - 1
      /\ \A i \in 1 .. Len(t) : t[i] = w[i + 1]
  BY <1>1, HeadTailProperties
<1>3. d.control = c.control /\ (Head(w) = StbHigh => d.stb = 1)
  BY <1>2, HarmlessStep
<1>4. Len(w) \in Nat /\ Len(t) \in Nat
  BY <1>1, <1>2, LenProperties
<1> HIDE DEF t, d
<1>5. CASE t = <<>>
  <2>1. Len(w) = 1
    BY <1>2, <1>4, <1>5
  <2>2. QED BY <1>1, <1>2, <1>3, <1>5, <2>1 DEF Keeps, t, d
<1>6. CASE t # <<>>
  <2>1. Len(t) \in 1 .. Len(t)
    BY <1>2, <1>4, <1>6, EmptySeq
  <2>2. t[Len(t)] = w[Len(w)]
    BY <1>2, <1>4, <2>1
  <2>3. QED BY <1>1, <1>2, <1>3, <1>6, <2>2 DEF Keeps, t, d
<1>7. QED BY <1>5, <1>6

\* The first operation of one transfer followed by another.
LEMMA HeadTailOfConcat ==
  ASSUME NEW S, NEW s \in Seq(S), NEW u \in Seq(S), s # <<>>
  PROVE  /\ Head(s \o u) = Head(s) /\ Tail(s \o u) = Tail(s) \o u /\ s \o u # <<>>
<1>1. /\ s \o u \in Seq(S) /\ Len(s \o u) = Len(s) + Len(u)
      /\ \A i \in 1 .. Len(s) + Len(u) :
           (s \o u)[i] = IF i <= Len(s) THEN s[i] ELSE u[i - Len(s)]
  BY ConcatProperties
<1>2. Len(s) \in Nat \ {0} /\ Len(u) \in Nat
  BY LenProperties, EmptySeq
<1>3. s \o u # <<>>
  BY <1>1, <1>2
<1>4. /\ Head(s \o u) = (s \o u)[1] /\ Tail(s \o u) \in Seq(S)
      /\ Len(Tail(s \o u)) = Len(s \o u) - 1
      /\ \A i \in 1 .. Len(Tail(s \o u)) : Tail(s \o u)[i] = (s \o u)[i + 1]
  BY <1>1, <1>3, HeadTailProperties
<1>5. /\ Head(s) = s[1] /\ Tail(s) \in Seq(S) /\ Len(Tail(s)) = Len(s) - 1
      /\ \A i \in 1 .. Len(Tail(s)) : Tail(s)[i] = s[i + 1]
  BY HeadTailProperties
<1>6. /\ Tail(s) \o u \in Seq(S) /\ Len(Tail(s) \o u) = Len(Tail(s)) + Len(u)
      /\ \A i \in 1 .. Len(Tail(s)) + Len(u) :
           (Tail(s) \o u)[i] = IF i <= Len(Tail(s)) THEN Tail(s)[i] ELSE u[i - Len(Tail(s))]
  BY <1>5, ConcatProperties
<1>7. Head(s \o u) = Head(s)
  BY <1>1, <1>2, <1>4, <1>5
<1>8. Len(Tail(s \o u)) = Len(Tail(s) \o u)
  BY <1>1, <1>2, <1>4, <1>5, <1>6
<1>9. \A i \in 1 .. Len(Tail(s \o u)) : Tail(s \o u)[i] = (Tail(s) \o u)[i]
  <2> TAKE i \in 1 .. Len(Tail(s \o u))
  <2>1. i \in 1 .. Len(s) + Len(u) - 1 /\ i + 1 \in 1 .. Len(s) + Len(u)
    BY <1>1, <1>2, <1>4
  <2>2. Tail(s \o u)[i] = IF i + 1 <= Len(s) THEN s[i + 1] ELSE u[i + 1 - Len(s)]
    BY <1>1, <1>4, <2>1
  <2>3. (Tail(s) \o u)[i] = IF i <= Len(s) - 1 THEN Tail(s)[i] ELSE u[i - (Len(s) - 1)]
    BY <1>2, <1>5, <1>6, <2>1
  <2>4. i <= Len(s) - 1 => Tail(s)[i] = s[i + 1]
    BY <1>2, <1>5, <2>1
  <2>5. i + 1 - Len(s) = i - (Len(s) - 1) /\ (i + 1 <= Len(s) <=> i <= Len(s) - 1)
    BY <1>2, <2>1
  <2>6. QED BY <2>2, <2>3, <2>4, <2>5
<1>10. QED BY <1>3, <1>4, <1>6, <1>7, <1>8, <1>9, SeqEqual

\* One operation of a transfer that sets the register.
LEMMA ProgramsStep ==
  ASSUME NEW c \in Chip, NEW w, NEW b \in ControlByte, Programs(w, c, b), w # <<>>
  PROVE  Programs(Tail(w), ChipStep(c, Head(w)), b)
<1> DEFINE d == ChipStep(c, Head(w))
<1>1. ASSUME NEW before \in Seq(Harmless), w = before \o Cmd(b), Keeps(before, c)
      PROVE  Programs(Tail(w), d, b)
  <2>1. Cmd(b) \in Seq(BusOp) /\ before \in Seq(BusOp)
    <3>1. Harmless \subseteq BusOp
      BY DEF Harmless
    <3>2. QED BY <3>1, CmdType DEF ControlByte
  <2>2. CASE before = <<>>
    <3>1. w = <<StbLow, Send(b), StbHigh>>
      BY <1>1, <2>1, <2>2, ConcatEmptySeq DEF Cmd
    <3>2. Head(w) = StbLow /\ Tail(w) = <<Send(b), StbHigh>>
      BY <3>1
    <3>3. d.stb = 0 /\ d.command
      <4>1. c.stb = 1 /\ StbLow.pin = "STB" /\ StbLow.level = 0
        BY <1>1, <2>2 DEF Keeps, StbLow
      <4>2. (IF StbLow.level = 0 THEN c.stb = 1 \/ c.command ELSE c.command) = TRUE
        BY <4>1, Zenon
      <4>3. d = [c EXCEPT !.stb = 0, !.command = TRUE]
        BY <3>2, <4>1, <4>2, Zenon DEF ChipStep
      <4>4. QED BY <4>3 DEF Chip
    <3>4. QED BY <3>2, <3>3 DEF Programs
  <2>3. CASE before # <<>>
    <3>1. Head(w) = Head(before) /\ Tail(w) = Tail(before) \o Cmd(b)
      BY <1>1, <2>1, <2>3, HeadTailOfConcat
    <3>2. Keeps(Tail(before), d)
      BY <1>1, <2>3, <3>1, KeepsStep
    <3>3. Tail(before) \in Seq(Harmless)
      BY <3>2 DEF Keeps
    <3>4. QED BY <3>1, <3>2, <3>3 DEF Programs
  <2>4. QED BY <2>2, <2>3
<1>2. CASE w = <<Send(b), StbHigh>> /\ c.stb = 0 /\ c.command
  <2>1. Head(w) = Send(b) /\ Tail(w) = <<StbHigh>>
    BY <1>2
  <2>2. d = Command(c, b)
    BY <1>2, <2>1 DEF ChipStep, Send
  <2>3. d.control = b
    BY <2>2 DEF Command, ControlByte, Chip
  <2>4. QED BY <2>1, <2>3 DEF Programs
<1>3. CASE w = <<StbHigh>> /\ c.control = b
  <2>1. Head(w) = StbHigh /\ Tail(w) = <<>>
    BY <1>3
  <2>2. d.control = b /\ d.stb = 1
    BY <1>3, <2>1, HarmlessStep, HarmlessOps
  <2>3. QED BY <2>1, <2>2 DEF Programs
<1>4. QED BY <1>1, <1>2, <1>3 DEF Programs

\* hardware_keys leaves the register alone.
LEMMA ReadKeysKeeps == ReadKeys # <<>> /\ \A c \in Chip : Keeps(ReadKeys, c)
<1> DEFINE first == <<StbLow, Send(CmdDataSetting(0, 1))>>
           bytes == [k \in 1 .. KeyReads |-> ReadByte]
           last  == <<StbHigh>>
<1>1. first \in Seq(Harmless)
  <2>1. Send(CmdDataSetting(0, 1)) \in Harmless
    BY CommandBytes, HarmlessOps DEF CmdDataSetting
  <2>2. QED BY <2>1, HarmlessOps
<1>2. bytes \in Seq(Harmless)
  BY SeqDef, HarmlessOps, Pt6964Assumption
<1>3. last \in Seq(Harmless) /\ Len(last) = 1 /\ last[1] = StbHigh
  BY HarmlessOps
<1> DEFINE head == first \o bytes
<1>4. head \in Seq(Harmless)
  BY <1>1, <1>2, ConcatProperties, Zenon
<1>5. ReadKeys = head \o last
  BY DEF ReadKeys
<1> HIDE DEF head, first, bytes, last
<1>6. /\ ReadKeys \in Seq(Harmless) /\ Len(ReadKeys) = Len(head) + 1
      /\ ReadKeys[Len(head) + 1] = StbHigh
  <2>1. Len(head) \in Nat
    BY <1>4, LenProperties
  <2>2. /\ head \o last \in Seq(Harmless) /\ Len(head \o last) = Len(head) + Len(last)
        /\ \A i \in 1 .. Len(head) + Len(last) :
             (head \o last)[i] = IF i <= Len(head) THEN head[i] ELSE last[i - Len(head)]
    BY <1>3, <1>4, ConcatProperties
  <2>3. QED BY <1>3, <1>5, <2>1, <2>2
<1>7. ReadKeys # <<>>
  <2>1. Len(head) \in Nat
    BY <1>4, LenProperties
  <2>2. Len(ReadKeys) # 0
    BY <1>6, <2>1
  <2>3. QED BY <2>2
<1>8. QED BY <1>6, <1>7 DEF Keeps

\* hardware_init clears the RAM before it sets the register.
LEMMA InitPrograms ==
  /\ HardwareInit(InitBrightness) # <<>>
  /\ \A c : Programs(HardwareInit(InitBrightness), c, CmdDisplayControl(1, InitBrightness - 1))
<1> DEFINE setAddr == <<StbLow, Send(CmdAddressSet(0))>>
           zeros   == [k \in 1 .. 2 * NWords |-> Send({})]
           mode    == Cmd(CmdDisplayMode)
           b       == CmdDisplayControl(1, InitBrightness - 1)
<1>1. Cmd(CmdDataSetting(1, 0)) \in Seq(Harmless) /\ mode \in Seq(Harmless)
      /\ setAddr \in Seq(Harmless)
  <2>1. Send(CmdDataSetting(1, 0)) \in Harmless /\ Send(CmdDisplayMode) \in Harmless
        /\ Send(CmdAddressSet(0)) \in Harmless
    BY CommandBytes, HarmlessOps DEF CmdDataSetting, CmdDisplayMode, CmdAddressSet
  <2>2. QED BY <2>1, HarmlessOps DEF Cmd
<1>2. zeros \in Seq(Harmless)
  <2>1. Send({}) \in Harmless
    BY HarmlessOps DEF Byte
  <2>2. 2 * NWords \in Nat
    BY Pt6964Assumption
  <2>3. QED BY <2>1, <2>2, SeqDef
<1>3. <<StbHigh>> \in Seq(Harmless)
  BY HarmlessOps
<1>4. ClearDram \in Seq(Harmless)
  BY <1>1, <1>2, <1>3, ConcatProperties, Zenon DEF ClearDram
<1> DEFINE before == ClearDram \o mode
<1>5. HardwareInit(InitBrightness) = before \o Cmd(b)
  BY DEF HardwareInit, UpdateBrightness, InitBrightness
<1>6. Len(mode) = 3 /\ mode[3] = StbHigh
  BY DEF Cmd
<1>7. Len(ClearDram) \in Nat
  BY <1>4, LenProperties
<1> HIDE DEF mode
<1>8. /\ before \in Seq(Harmless) /\ Len(before) = Len(ClearDram) + 3
      /\ before[Len(ClearDram) + 3] = StbHigh
  <2>1. /\ before \in Seq(Harmless) /\ Len(before) = Len(ClearDram) + Len(mode)
        /\ \A i \in 1 .. Len(ClearDram) + Len(mode) :
             before[i] = IF i <= Len(ClearDram) THEN ClearDram[i] ELSE mode[i - Len(ClearDram)]
    BY <1>1, <1>4, ConcatProperties
  <2>2. QED BY <1>6, <1>7, <2>1
<1> HIDE DEF before
<1>9. before # <<>>
  <2>1. Len(before) # 0
    BY <1>7, <1>8
  <2>2. QED BY <2>1
<1>10. \A c : Keeps(before, c)
  BY <1>8, <1>9 DEF Keeps
<1>11. HardwareInit(InitBrightness) # <<>>
  <2>1. b \in Byte
    BY CommandBytes
  <2>2. Cmd(b) \in Seq(BusOp) /\ before \in Seq(BusOp)
    BY <1>8, <2>1, CmdType DEF Harmless
  <2>3. QED BY <1>5, <1>9, <2>2, HeadTailOfConcat
<1>12. QED BY <1>5, <1>8, <1>10, <1>11 DEF Programs

\* hardware_update_brightness sets the register, from a bus at rest.
LEMMA UpdatePrograms ==
  ASSUME NEW c, c.stb = 1, NEW b \in ControlByte
  PROVE  Programs(Cmd(b), c, b)
<1>1. <<>> \in Seq(Harmless) /\ Keeps(<<>>, c)
  BY DEF Keeps
<1>2. Cmd(b) = <<>> \o Cmd(b)
  BY CmdType, ConcatEmptySeq DEF ControlByte
<1>3. QED BY <1>1, <1>2 DEF Programs

-----------------------------------------------------------------------------
(* Who drives the bus, and what the calls are about.                       *)

\* The stores of the calls are to the field they are about.
FieldStores(f) == Seq([loc : {f}, val : Nat])

\* Nothing asks for an update, so the timer handler only scans the keys; a
\* transfer is under way in the sections that drive the chip only.
BusInv ==
  /\ need_update = 0 /\ boot_anim = 0 /\ stores[Timer] = <<>>
  /\ pc[Timer] \in {"probe", "wait", "scan", "scanning", "check"}
  /\ pc[Timer] = "probe" => lock = NoOne /\ \A c \in Callers : pc[c] = "idle"
  /\ \A c \in Callers : pc[c] = "inside" => stores[c] \in FieldStores(req[c].op)
  /\ \A c \in Callers : wire[c] # <<>> => pc[c] = "applying"
  /\ wire[Timer] # <<>> => pc[Timer] \in {"probe", "scanning"}
  /\ pc[Timer] = "scanning" => Keeps(wire[Timer], chip)

\* No process is in the driver while the machine sleeps, and the structure is
\* not suspended while it is on.
CallInv ==
  /\ \A c \in Callers : pc[c] = "idle" <=> req[c] = NoRequest
  /\ \A c \in Callers : pc[c] \in {"enter", "inside"} => req[c].op \in Settings
  /\ \A c \in Callers : pc[c] \in {"apply", "applying"} =>
       req[c].op \in {"enabled", "brightness", "power"}
  /\ \A c \in Callers : req[c].op = "power" =>
       /\ power # "on" /\ (req[c].callback = "resume" => power = "asleep")
       /\ req[c].callback = "resume" /\ pc[c] = "applying" => suspended = 0
  /\ power = "asleep" =>
       /\ \A c \in Callers : pc[c] # "idle" => req[c].op = "power"
       /\ \A c, d \in Callers : pc[c] # "idle" /\ pc[d] # "idle" => c = d
  /\ power = "on" => suspended = 0

\* Every step keeps the bus to one handler at a time.
LEMMA BusNext ==
  ASSUME ControlOnly, TypeInv, Exclusion, BusInv, CallInv, [Next]_vars
  PROVE  BusInv'
<1> USE DEF Goto, shared, local, BusInv
<1>a. /\ Timer \in Procs /\ Timer \notin Callers /\ Callers \subseteq Procs
      /\ Procs = Callers \cup {Timer} /\ NoOne \notin Procs
      /\ pc \in [Procs -> Labels \cup TimerLabels] /\ stores \in [Procs -> Seq(Store)]
      /\ wire \in [Procs -> Seq(BusOp)] /\ chip \in Chip
      /\ req \in [Callers -> Request \cup {NoRequest}]
  BY VfdAssumption DEF Procs, TypeInv, TypeOK, Timer, NoOne
<1>1. ASSUME NEW c \in Callers, NEW r \in Requests, CallStore(c, r) \/ CallPower(c, r)
      PROVE  BusInv'
  BY <1>a, <1>1 DEF CallStore, CallPower
<1>2. ASSUME NEW c \in Callers, Enter(c) PROVE BusInv'
  <2>1. /\ lock' = c /\ pc[c] = "enter" /\ pc' = [pc EXCEPT ![c] = "inside"]
        /\ stores' = [stores EXCEPT ![c] = SectionStores(req[c])]
        /\ UNCHANGED <<need_update, boot_anim, req, wire, chip>>
    BY <1>2 DEF Enter, Lock
  <2>2. req[c].op \in Settings /\ req[c] \in Request
    BY <2>1 DEF CallInv, TypeInv, Control
  <2>3. SectionStores(req[c]) \in FieldStores(req[c].op)
    <3> DEFINE v == IF req[c].val > Limit(req[c].op) THEN Limit(req[c].op) ELSE req[c].val
    <3>1. req[c].val \in Nat
      BY <2>2 DEF Request, Settings
    <3>2. v \in Nat
      BY <3>1 DEF Limit, MaxBrightness
    <3>3. SectionStores(req[c]) = <<SettingStore(req[c].op, v)>>
      BY <2>2 DEF SectionStores, Settings
    <3> HIDE DEF v
    <3>4. SettingStore(req[c].op, v) \in [loc : {req[c].op}, val : Nat]
      BY <3>2 DEF SettingStore
    <3>5. QED BY <3>3, <3>4 DEF FieldStores
  <2>4. QED BY <1>a, <2>1, <2>3
<1>3. ASSUME NEW c \in Callers, Leave(c) PROVE BusInv'
  <2>1. /\ pc[c] = "inside" /\ lock' = NoOne /\ \A q \in Procs \ {c} : pc'[q] = pc[q]
        /\ pc'[c] \in {"apply", "enter", "idle"} /\ wire[c] = <<>>
        /\ \A d \in Callers \ {c} : req'[d] = req[d]
        /\ UNCHANGED <<need_update, boot_anim, stores, wire, chip>>
    BY <1>a, <1>3 DEF Leave, Unlock
  <2>2. QED BY <1>a, <2>1
<1>4. ASSUME NEW c \in Callers, EnterApply(c) PROVE BusInv'
  <2>1. /\ pc[c] = "apply" /\ lock' = c /\ pc' = [pc EXCEPT ![c] = "applying"]
        /\ \A q \in Procs \ {c} : wire'[q] = wire[q]
        /\ UNCHANGED <<need_update, boot_anim, stores, req, chip>>
    BY <1>4 DEF EnterApply, Lock
  <2>2. QED BY <1>a, <2>1
<1>5. ASSUME NEW c \in Callers, LeaveApply(c) PROVE BusInv'
  <2>1. /\ pc[c] = "applying" /\ lock' = NoOne /\ pc' = [pc EXCEPT ![c] = "idle"] /\ wire[c] = <<>>
        /\ \A d \in Callers \ {c} : req'[d] = req[d]
        /\ UNCHANGED <<need_update, boot_anim, stores, wire, chip>>
    BY <1>a, <1>5 DEF LeaveApply, Unlock
  <2>2. QED BY <1>a, <2>1
<1>6. ASSUME NEW p \in Procs, StoreStep(p) PROVE BusInv'
  <2>1. PICK k \in 1 .. Len(stores[p]) :
          Commit(stores[p][k]) /\ stores' = [stores EXCEPT ![p] = Without(stores[p], k)]
    BY <1>6 DEF StoreStep
  <2>2. /\ p \in Callers /\ pc[p] = "inside" /\ UNCHANGED <<pc, req, lock, wire, chip, boot_anim>>
    BY <1>a, <1>6, <2>1 DEF StoreStep, Exclusion
  <2>3. stores[p] \in FieldStores(req[p].op) /\ req[p].op \in Settings
    BY <2>2 DEF CallInv
  <2>4. stores'[p] \in FieldStores(req[p].op)
    BY <1>a, <2>1, <2>3, WithoutType DEF FieldStores
  <2>5. stores[p][k].loc = req[p].op
    <3> DEFINE S == [loc : {req[p].op}, val : Nat]
    <3>1. stores[p] \in Seq(S)
      BY <2>3 DEF FieldStores
    <3>2. stores[p][k] \in S
      BY <2>1, <3>1, ElementOfSeq
    <3>3. QED BY <3>2
  <2>6. need_update' = need_update
    BY <2>1, <2>3, <2>5 DEF Commit, Settings
  <2>7. QED BY <1>a, <2>1, <2>2, <2>4, <2>6
<1>7. ASSUME NEW p \in Procs, BusStep(p) PROVE BusInv'
  <2>1. /\ wire[p] # <<>> /\ wire' = [wire EXCEPT ![p] = Tail(wire[p])]
        /\ chip' = ChipStep(chip, Head(wire[p]))
        /\ UNCHANGED <<need_update, boot_anim, stores, pc, req, lock>>
    BY <1>7 DEF BusStep
  <2>2. pc[Timer] = "scanning" => p = Timer
    BY <1>a, <2>1 DEF Exclusion
  <2>3. pc[Timer] = "scanning" => Keeps(wire'[Timer], chip')
    BY <1>a, <2>1, <2>2, KeepsStep
  <2>4. QED BY <1>a, <2>1, <2>3
<1>8. CASE Armed \/ Fire \/ ScanLeave \/ Check
  <2>1. /\ UNCHANGED <<need_update, boot_anim, stores, req, wire, chip>>
        /\ \A c \in Callers : pc'[c] = pc[c]
        /\ pc'[Timer] \in {"wait", "scan", "check"} /\ wire[Timer] = <<>>
    BY <1>a, <1>8 DEF Armed, Fire, ScanLeave, Check, AfterScan, Unlock
  <2>2. QED BY <1>a, <2>1
<1>9. CASE ScanEnter
  <2>1. /\ UNCHANGED <<need_update, boot_anim, stores, req, chip>>
        /\ pc' = [pc EXCEPT ![Timer] = "scanning"] /\ wire' = [wire EXCEPT ![Timer] = ReadKeys]
    BY <1>9 DEF ScanEnter
  <2>2. Keeps(ReadKeys, chip)
    BY <1>a, ReadKeysKeeps
  <2>3. QED BY <1>a, <2>1, <2>2
<1>10. CASE BootEnter \/ BootLeave \/ Render \/ Merge \/ SkipWord \/ ChangeWord \/ Close \/ Rearm
  BY <1>10 DEF BootEnter, BootLeave, Render, Merge, SkipWord, ChangeWord, Close, Rearm
<1>11. CASE UNCHANGED vars
  BY <1>11 DEF vars
<1>12. QED
  BY <1>1, <1>2, <1>3, <1>4, <1>5, <1>6, <1>7, <1>8, <1>9, <1>10, <1>11
     DEF Next, Handler, Caller

\* Every step keeps the calls in their order with suspend and resume.
LEMMA CallNext ==
  ASSUME ControlOnly, TypeInv, Exclusion, BusInv, CallInv, [Next]_vars
  PROVE  CallInv'
<1> USE DEF Goto, shared, local, CallInv
<1>a. /\ Timer \notin Callers /\ Timer \in Procs /\ Callers \subseteq Procs /\ NoRequest.op = "none"
      /\ pc \in [Procs -> Labels \cup TimerLabels]
      /\ req \in [Callers -> Request \cup {NoRequest}]
      /\ power \in {"on", "asleep", "down"}
  BY VfdAssumption DEF Procs, TypeInv, TypeOK, NoRequest
<1>1. ASSUME NEW c \in Callers, NEW r \in Requests, CallStore(c, r) PROVE CallInv'
  <2>1. r.op \in Settings /\ r # NoRequest
    BY <1>1 DEF ControlOnly, CallStore, NoRequest, Settings
  <2>2. /\ pc[c] = "idle" /\ power # "asleep" /\ req' = [req EXCEPT ![c] = r]
        /\ pc' = [pc EXCEPT ![c] = "enter"] /\ UNCHANGED <<power, suspended>>
    BY <1>1 DEF CallStore
  <2>3. QED BY <1>a, <2>1, <2>2 DEF Settings
<1>2. ASSUME NEW c \in Callers, NEW r \in Requests, CallPower(c, r) PROVE CallInv'
  <2>1. r # NoRequest /\ r.op = "power" /\ r.callback \in {"suspend", "resume", "shutdown"}
    BY <1>2, VfdAssumption DEF CallPower, NoRequest, Request, Settings
  <2>2. /\ pc[c] = "idle" /\ req' = [req EXCEPT ![c] = r] /\ MayCall(r.callback)
        /\ pc' = [pc EXCEPT ![c] = "apply"] /\ UNCHANGED suspended
        /\ power' = IF r.callback = "shutdown" THEN "down" ELSE "asleep"
    BY <1>2, <2>1 DEF CallPower
  <2>3. CASE r.callback \in {"suspend", "resume"}
    <3>1. \A d \in Callers : pc[d] = "idle"
      BY <2>2, <2>3 DEF MayCall
    <3>2. QED BY <1>a, <2>1, <2>2, <2>3, <3>1
  <2>4. CASE r.callback = "shutdown"
    <3>1. \A d \in Callers : req[d].op # "power"
      BY <2>2, <2>4 DEF MayCall
    <3>2. QED BY <1>a, <2>1, <2>2, <2>4, <3>1
  <2>5. QED BY <2>1, <2>3, <2>4
<1>3. ASSUME NEW c \in Callers, Enter(c) PROVE CallInv'
  BY <1>a, <1>3 DEF Enter
<1>4. ASSUME NEW c \in Callers, Leave(c) PROVE CallInv'
  <2>1. /\ pc[c] = "inside" /\ UNCHANGED <<power, suspended>>
        /\ req[c].op \in Settings
    BY <1>4 DEF Leave
  <2>2. \/ /\ req[c].op \in {"enabled", "brightness"} /\ pc' = [pc EXCEPT ![c] = "apply"]
           /\ UNCHANGED req
        \/ pc' = [pc EXCEPT ![c] = "idle"] /\ req' = [req EXCEPT ![c] = NoRequest]
    BY <1>4, <2>1 DEF Leave, Settings
  <2>3. QED BY <1>a, <2>1, <2>2 DEF Settings
<1>5. ASSUME NEW c \in Callers, EnterApply(c) PROVE CallInv'
  <2>1. /\ pc[c] = "apply" /\ pc' = [pc EXCEPT ![c] = "applying"] /\ UNCHANGED <<power, req>>
        /\ suspended' = IF req[c].op # "power" THEN suspended
                        ELSE IF req[c].callback = "resume" THEN 0 ELSE 1
    BY <1>5 DEF EnterApply
  <2>2. CASE req[c].op = "power"
    BY <1>a, <2>1, <2>2
  <2>3. CASE req[c].op # "power"
    BY <1>a, <2>1, <2>3
  <2>4. QED BY <2>2, <2>3
<1>6. ASSUME NEW c \in Callers, LeaveApply(c) PROVE CallInv'
  <2>1. /\ pc[c] = "applying" /\ pc' = [pc EXCEPT ![c] = "idle"] /\ UNCHANGED suspended
        /\ req' = [req EXCEPT ![c] = NoRequest]
        /\ power' = IF req[c].op = "power" /\ req[c].callback = "resume" THEN "on" ELSE power
    BY <1>6 DEF LeaveApply
  <2>2. CASE req[c].op = "power" /\ req[c].callback = "resume"
    <3>1. power = "asleep" /\ suspended = 0 /\ \A d \in Callers \ {c} : pc[d] = "idle"
      BY <2>1, <2>2
    <3>2. \A d \in Callers : pc'[d] = "idle" /\ req'[d] = NoRequest
      BY <1>a, <2>1, <3>1
    <3>3. QED BY <1>a, <2>1, <2>2, <3>1, <3>2
  <2>3. CASE ~ (req[c].op = "power" /\ req[c].callback = "resume")
    BY <1>a, <2>1, <2>3
  <2>4. QED BY <2>2, <2>3
<1>7. ASSUME UNCHANGED <<req, power, suspended>>, \A c \in Callers : pc'[c] = pc[c] PROVE CallInv'
  BY <1>7
<1>8. CASE Handler
  BY <1>a, <1>7, <1>8 DEF Handler, Armed, Fire, ScanEnter, ScanLeave, BootEnter, BootLeave, Check, Render,
     Merge, SkipWord, ChangeWord, Close, Rearm, Loop
<1>9. ASSUME NEW p \in Procs, StoreStep(p) \/ BusStep(p) PROVE CallInv'
  BY <1>7, <1>9 DEF StoreStep, BusStep
<1>10. CASE UNCHANGED vars
  BY <1>7, <1>10 DEF vars
<1>11. QED
  BY <1>1, <1>2, <1>3, <1>4, <1>5, <1>6, <1>8, <1>9, <1>10 DEF Next, Caller

-----------------------------------------------------------------------------
(* The register.                                                           *)

\* The command hardware_update_brightness sends for the settings as they are.
Wanted ==
  LET bri == Brightness(suspended)
  IN  IF bri = 0 THEN CmdDisplayControl(0, 0) ELSE CmdDisplayControl(1, bri - 1)

\* The call changes a setting, or has, and has not sent the command yet.
Unsent(c) == pc[c] \in {"inside", "apply"} /\ req[c].op \in {"enabled", "brightness", "power"}

LevelInv ==
  power # "down" =>
    /\ pc[Timer] = "probe" => Programs(wire[Timer], chip, Wanted)
    /\ \A c \in Callers : pc[c] = "applying" => Programs(wire[c], chip, Wanted)
    /\ pc[Timer] # "probe" /\ (\A c \in Callers : ~ Unsent(c) /\ pc[c] # "applying") =>
         chip.control = Wanted
    /\ BusIdle => chip.stb = 1

\* hardware_update_brightness sends a display control command.
LEMMA WantedByte == Wanted \in ControlByte
  BY DEF Wanted, ControlByte, CmdDisplayControl, Nibble, Byte

\* A transfer that is over has set the register and raised STB.
LEMMA Programmed ==
  ASSUME NEW c, NEW b \in ControlByte, Programs(<<>>, c, b)
  PROVE  c.control = b /\ c.stb = 1
<1>1. ASSUME NEW before \in Seq(Harmless), <<>> = before \o Cmd(b) PROVE FALSE
  <2>1. before \in Seq(BusOp) /\ Cmd(b) \in Seq(BusOp) /\ Len(Cmd(b)) = 3
    <3>1. Harmless \subseteq BusOp
      BY DEF Harmless
    <3>2. Len(Cmd(b)) = 3
      BY DEF Cmd
    <3>3. QED BY <3>1, <3>2, CmdType DEF ControlByte
  <2>2. Len(before \o Cmd(b)) = Len(before) + 3 /\ Len(before) \in Nat
    <3>1. Len(before \o Cmd(b)) = Len(before) + Len(Cmd(b))
      BY <2>1, ConcatProperties
    <3>2. Len(before) \in Nat
      BY <2>1, LenProperties
    <3>3. QED BY <2>1, <3>1, <3>2
  <2>3. Len(<<>>) = 0
    BY EmptySeq
  <2>4. QED BY <1>1, <2>2, <2>3
<1>2. QED BY <1>1 DEF Programs

\* Every step keeps the register the one that is asked for, or about to be.
LEMMA LevelNext ==
  ASSUME ControlOnly, TypeInv, Exclusion, BusInv, CallInv, LevelInv, [Next]_vars
  PROVE  LevelInv'
<1> USE DEF Goto, shared, local
<1>a. /\ Timer \in Procs /\ Timer \notin Callers /\ Callers \subseteq Procs
      /\ Procs = Callers \cup {Timer} /\ NoOne \notin Procs
      /\ pc \in [Procs -> Labels \cup TimerLabels] /\ stores \in [Procs -> Seq(Store)]
      /\ wire \in [Procs -> Seq(BusOp)] /\ chip \in Chip
      /\ req \in [Callers -> Request \cup {NoRequest}]
      /\ power \in {"on", "asleep", "down"}
      /\ settings \in [Settings -> 0 .. MaxBrightness]
  BY VfdAssumption DEF Procs, TypeInv, TypeOK, Timer, NoOne
\* A step of the timer handler that neither sends nor sets anything.
<1>c. ASSUME UNCHANGED <<wire, chip, settings, suspended, power, req>>,
             pc'[Timer] = "probe" <=> pc[Timer] = "probe", \A c \in Callers : pc'[c] = pc[c]
      PROVE  LevelInv'
  <2>1. Wanted' = Wanted
    BY <1>c DEF Wanted, Brightness
  <2>2. BusIdle' <=> BusIdle
    BY <1>c DEF BusIdle
  <2>3. \A c \in Callers : Unsent(c)' <=> Unsent(c)
    BY <1>c DEF Unsent
  <2>4. QED BY <1>c, <2>1, <2>2, <2>3 DEF LevelInv
<1>1. ASSUME NEW c \in Callers, NEW r \in Requests, CallStore(c, r) \/ CallPower(c, r)
      PROVE  LevelInv'
  <2>1. /\ pc[c] = "idle" /\ pc'[c] \in {"enter", "apply"}
        /\ power' # "down" => power # "down"
        /\ \A q \in Procs \ {c} : pc'[q] = pc[q]
        /\ \A d \in Callers \ {c} : req'[d] = req[d]
        /\ UNCHANGED <<wire, chip, settings, suspended>> /\ pc[Timer] # "probe"
    <3>1. CASE CallStore(c, r)
      BY <1>a, <3>1 DEF CallStore
    <3>2. CASE CallPower(c, r)
      <4>1. r.callback \in {"suspend", "resume", "shutdown"}
        BY <3>2, VfdAssumption DEF CallPower, Request, Settings
      <4>2. power' # "down" => power # "down"
        BY <3>2, <4>1 DEF CallPower, MayCall
      <4>3. QED BY <1>a, <3>2, <4>2 DEF CallPower
    <3>3. QED BY <1>1, <3>1, <3>2
  <2>2. Wanted' = Wanted /\ (BusIdle' <=> BusIdle)
    BY <2>1 DEF Wanted, Brightness, BusIdle
  <2>3. \A d \in Callers : Unsent(d) => Unsent(d)'
    BY <1>a, <2>1 DEF Unsent
  <2>4. \A d \in Callers : pc'[d] = "applying" <=> pc[d] = "applying"
    BY <1>a, <2>1
  <2>5. pc'[Timer] = pc[Timer]
    BY <1>a, <2>1
  <2>6. QED BY <2>1, <2>2, <2>3, <2>4, <2>5 DEF LevelInv
<1>2. ASSUME NEW c \in Callers, Enter(c) \/ Leave(c) PROVE LevelInv'
  <2>1. /\ \A q \in Procs \ {c} : pc'[q] = pc[q]
        /\ \A d \in Callers \ {c} : req'[d] = req[d]
        /\ UNCHANGED <<wire, chip, settings, suspended, power>>
        /\ pc[c] \in {"enter", "inside"} /\ pc'[c] # "applying"
    BY <1>a, <1>2 DEF Enter, Leave
  <2>2. Unsent(c) => Unsent(c)'
    <3>1. CASE Enter(c)
      BY <1>a, <3>1 DEF Enter, Unsent
    <3>2. CASE Leave(c)
      <4>1. req[c].op \in Settings /\ pc[c] = "inside"
        BY <3>2 DEF Leave, CallInv
      <4>2. req[c].op \in {"enabled", "brightness"} => pc'[c] = "apply" /\ req' = req
        BY <1>a, <3>2 DEF Leave
      <4>3. QED BY <4>1, <4>2 DEF Unsent, Settings
    <3>3. QED BY <1>2, <3>1, <3>2
  <2>3. Wanted' = Wanted /\ (BusIdle' <=> BusIdle)
    BY <2>1 DEF Wanted, Brightness, BusIdle
  <2>4. \A d \in Callers : Unsent(d) => Unsent(d)'
    BY <1>a, <2>1, <2>2 DEF Unsent
  <2>5. \A d \in Callers : pc'[d] = "applying" <=> pc[d] = "applying"
    BY <1>a, <2>1
  <2>6. pc'[Timer] = pc[Timer]
    BY <1>a, <2>1
  <2>7. QED BY <2>1, <2>3, <2>4, <2>5, <2>6 DEF LevelInv
<1>3. ASSUME NEW c \in Callers, EnterApply(c) PROVE LevelInv'
  <2>1. /\ pc[c] = "apply" /\ lock = NoOne /\ pc' = [pc EXCEPT ![c] = "applying"]
        /\ wire' = [wire EXCEPT ![c] = UpdateBrightness(Brightness(suspended'))]
        /\ UNCHANGED <<chip, settings, power>>
    BY <1>3 DEF EnterApply, Lock
  <2>2. pc[Timer] \notin {"probe", "scanning"} /\ \A d \in Callers : pc[d] # "applying"
    BY <1>a, <2>1 DEF Exclusion, BusInv
  <2>3. \A p \in Procs : wire[p] = <<>>
    BY <1>a, <2>2 DEF BusInv
  <2>4. power # "down" => chip.stb = 1
    BY <2>3 DEF LevelInv, BusIdle
  <2>5. wire'[c] = Cmd(Wanted')
    BY <1>a, <2>1 DEF UpdateBrightness, Wanted, Brightness
  <2>6. Wanted' \in ControlByte
    BY DEF Wanted, ControlByte, CmdDisplayControl, Nibble, Byte
  <2>7. power # "down" => Programs(wire'[c], chip, Wanted')
    BY <2>4, <2>5, <2>6, UpdatePrograms
  <2>8. ~ BusIdle'
    <3>1. wire'[c] # <<>>
      BY <2>5 DEF Cmd
    <3>2. QED BY <1>a, <3>1 DEF BusIdle
  <2>9. QED BY <1>a, <2>1, <2>2, <2>7, <2>8 DEF LevelInv
<1>4. ASSUME NEW c \in Callers, LeaveApply(c) PROVE LevelInv'
  <2>1. /\ pc[c] = "applying" /\ wire[c] = <<>> /\ pc' = [pc EXCEPT ![c] = "idle"]
        /\ power' # "down" => power # "down" \/ (req[c].op = "power" /\ req[c].callback = "resume")
        /\ UNCHANGED <<wire, chip, settings, suspended>>
    BY <1>4 DEF LeaveApply, Unlock
  <2>2. power' # "down" => power # "down"
    BY <2>1 DEF CallInv
  <2>3. Wanted' = Wanted
    BY <2>1 DEF Wanted, Brightness
  <2>4. power # "down" => chip.control = Wanted /\ chip.stb = 1
    BY <2>1, WantedByte, Programmed DEF LevelInv
  <2>5. \A d \in Callers : pc'[d] = "applying" => pc[d] = "applying"
    BY <1>a, <2>1
  <2>6. pc'[Timer] = pc[Timer]
    BY <1>a, <2>1
  <2>7. QED BY <2>1, <2>2, <2>3, <2>4, <2>5, <2>6 DEF LevelInv
<1>5. ASSUME NEW p \in Procs, StoreStep(p) PROVE LevelInv'
  <2>1. PICK k \in 1 .. Len(stores[p]) : Commit(stores[p][k])
    BY <1>5 DEF StoreStep
  <2>2. UNCHANGED <<pc, req, wire, chip, suspended, power>>
    BY <1>5 DEF StoreStep
  <2>3. p \in Callers /\ pc[p] = "inside"
    BY <1>a, <2>1 DEF Exclusion, BusInv
  <2>4. stores[p][k].loc = req[p].op /\ req[p].op \in Settings
    <3> DEFINE S == [loc : {req[p].op}, val : Nat]
    <3>1. stores[p] \in Seq(S)
      BY <2>3 DEF BusInv, FieldStores
    <3>2. stores[p][k] \in S
      BY <2>1, <3>1, ElementOfSeq
    <3>3. QED BY <2>3, <3>2 DEF CallInv
  <2>5. /\ \A d \in Callers : pc[d] # "applying"
        /\ pc[Timer] # "probe"
    BY <1>a, <2>3 DEF Exclusion, BusInv
  <2>6. BusIdle' <=> BusIdle
    BY <2>2 DEF BusIdle
  <2>7. CASE req[p].op \in {"enabled", "brightness"}
    <3>1. Unsent(p)'
      BY <2>2, <2>3, <2>7 DEF Unsent
    <3>2. QED BY <2>2, <2>3, <2>5, <2>6, <3>1 DEF LevelInv
  <2>8. CASE req[p].op = "brightness_suspend"
    <3>1. settings'["enabled"] = settings["enabled"] /\ settings'["brightness"] = settings["brightness"]
      BY <1>a, <2>1, <2>4, <2>8 DEF Commit, Settings
    <3>2. power # "down" => suspended = 0
      BY <1>a, <2>3, <2>8 DEF CallInv
    <3>3. power # "down" => Wanted' = Wanted
      BY <2>2, <3>1, <3>2 DEF Wanted, Brightness
    <3>4. \A d \in Callers : Unsent(d)' <=> Unsent(d)
      BY <2>2 DEF Unsent
    <3>5. QED BY <2>2, <2>5, <2>6, <3>3, <3>4 DEF LevelInv
  <2>9. QED BY <2>4, <2>7, <2>8 DEF Settings
<1>6. ASSUME NEW p \in Procs, BusStep(p) PROVE LevelInv'
  <2>1. /\ wire[p] # <<>> /\ wire' = [wire EXCEPT ![p] = Tail(wire[p])]
        /\ chip' = ChipStep(chip, Head(wire[p]))
        /\ UNCHANGED <<pc, req, settings, suspended, power>>
    BY <1>6 DEF BusStep
  <2>2. Wanted' = Wanted /\ Wanted \in ControlByte /\ \A d \in Callers : Unsent(d)' <=> Unsent(d)
    BY <2>1, WantedByte DEF Wanted, Brightness, Unsent
  <2>3. BusIdle' => wire'[p] = <<>> /\ wire'[p] = Tail(wire[p])
    BY <1>a, <2>1 DEF BusIdle
  <2>4. CASE p \in Callers \/ pc[Timer] = "probe"
    <3>1. pc[p] \in {"applying", "probe"} /\ \A d \in Callers : pc[d] = "applying" => d = p
      BY <1>a, <2>1, <2>4 DEF BusInv, Exclusion
    <3>2. pc[Timer] = "probe" => p = Timer
      BY <1>a, <2>1 DEF BusInv
    <3>3. power # "down" => Programs(wire[p], chip, Wanted)
      BY <1>a, <2>1, <2>4, <3>1, <3>2 DEF LevelInv, BusInv
    <3>4. power # "down" => Programs(Tail(wire[p]), chip', Wanted)
      BY <1>a, <2>1, <2>2, <3>3, ProgramsStep
    <3>5. power # "down" /\ BusIdle' => chip'.stb = 1
      BY <2>2, <2>3, <3>4, Programmed
    <3>6. wire'[p] = Tail(wire[p])
      BY <1>a, <2>1
    <3>7. pc[Timer] # "probe" => pc[p] = "applying" /\ p \in Callers
      BY <2>1, <2>4 DEF BusInv
    <3>8. QED BY <2>1, <2>2, <3>1, <3>2, <3>4, <3>5, <3>6, <3>7 DEF LevelInv
  <2>5. CASE p = Timer /\ pc[Timer] # "probe"
    <3>1. pc[Timer] = "scanning" /\ Keeps(wire[Timer], chip)
      BY <2>1, <2>5 DEF BusInv
    <3>2. Keeps(Tail(wire[Timer]), chip') /\ chip'.control = chip.control
      BY <1>a, <2>1, <2>5, <3>1, KeepsStep
    <3>3. BusIdle' => chip'.stb = 1
      BY <2>3, <2>5, <3>2 DEF Keeps
    <3>4. \A d \in Callers : pc[d] # "applying"
      BY <1>a, <3>1 DEF Exclusion
    <3>5. QED BY <2>1, <2>2, <2>5, <3>2, <3>3, <3>4 DEF LevelInv
  <2>6. QED BY <1>a, <2>4, <2>5
<1>7. CASE Armed
  <2>1. /\ pc[Timer] = "probe" /\ wire[Timer] = <<>> /\ pc'[Timer] = "wait"
        /\ \A c \in Callers : pc'[c] = pc[c]
        /\ UNCHANGED <<req, wire, chip, settings, suspended, power>>
    BY <1>a, <1>7 DEF Armed
  <2>2. Wanted' = Wanted /\ (BusIdle' <=> BusIdle)
    BY <2>1 DEF Wanted, Brightness, BusIdle
  <2>3. power # "down" => chip.control = Wanted
    BY <2>1, WantedByte, Programmed DEF LevelInv
  <2>4. QED BY <2>1, <2>2, <2>3 DEF LevelInv
<1>8. CASE Fire \/ ScanLeave \/ Check
  <2>1. /\ pc'[Timer] # "probe" /\ pc[Timer] # "probe" /\ \A c \in Callers : pc'[c] = pc[c]
        /\ UNCHANGED <<req, wire, chip, settings, suspended, power>>
    BY <1>a, <1>8 DEF Fire, ScanLeave, Check, AfterScan
  <2>2. QED BY <1>c, <2>1
<1>9. CASE ScanEnter
  <2>1. /\ pc[Timer] = "scan" /\ pc'[Timer] = "scanning" /\ \A c \in Callers : pc'[c] = pc[c]
        /\ UNCHANGED <<req, chip, settings, suspended, power>> /\ wire' = [wire EXCEPT ![Timer] = ReadKeys]
        /\ lock = NoOne
    BY <1>a, <1>9 DEF ScanEnter, Lock
  <2>2. Wanted' = Wanted /\ \A d \in Callers : Unsent(d)' <=> Unsent(d)
    BY <2>1 DEF Wanted, Brightness, Unsent
  <2>3. \A d \in Callers : pc[d] # "applying"
    BY <1>a, <2>1 DEF Exclusion
  <2>4. ~ BusIdle'
    <3>1. ReadKeys # <<>>
      BY ReadKeysKeeps
    <3>2. QED BY <1>a, <2>1, <3>1 DEF BusIdle
  <2>5. QED BY <2>1, <2>2, <2>3, <2>4 DEF LevelInv
<1>10. CASE BootEnter \/ BootLeave \/ Render \/ Merge \/ SkipWord \/ ChangeWord \/ Close \/ Rearm
  BY <1>10 DEF BootEnter, BootLeave, Render, Merge, SkipWord, ChangeWord, Close, Rearm, BusInv
<1>11. CASE UNCHANGED vars
  BY <1>c, <1>11 DEF vars
<1>12. QED
  BY <1>1, <1>2, <1>3, <1>4, <1>5, <1>6, <1>7, <1>8, <1>9, <1>10, <1>11
     DEF Next, Handler, Caller

\* With nothing to display, the display control register is the one that the
\* settings and the power state ask for whenever no call is changing them,
\* although each of enable_store and brightness_store takes the lock twice.
THEOREM ControlFollows == ASSUME ControlOnly PROVE Spec => []ControlIsCurrent
<1> DEFINE Inv == TypeInv /\ Exclusion /\ BusInv /\ CallInv /\ LevelInv
<1>1. Init => Inv
  <2> SUFFICES ASSUME Init PROVE Inv
    OBVIOUS
  <2>1. TypeInv
    BY TypeInit
  <2>2. /\ Timer \in Procs /\ Timer \notin Callers /\ Callers \subseteq Procs
        /\ Procs = Callers \cup {Timer}
        /\ \A p \in Procs : stores[p] = <<>>
        /\ pc[Timer] = "probe" /\ \A c \in Callers : pc[c] = "idle" /\ wire[c] = <<>>
        /\ wire[Timer] = HardwareInit(InitBrightness) /\ wire[Timer] # <<>>
    <3>1. HardwareInit(InitBrightness) # <<>>
      BY InitPrograms
    <3>2. QED BY <3>1, VfdAssumption DEF Init, Procs
  <2>3. Exclusion
    BY <2>2 DEF Exclusion
  <2>4. BusInv
    BY <2>2, EmptySeq DEF Init, BusInv, ControlOnly
  <2>5. CallInv
    BY <2>2 DEF Init, CallInv, NoRequest
  <2>6. Wanted = CmdDisplayControl(1, InitBrightness - 1)
    BY DEF Init, Wanted, Brightness, Settings, InitBrightness
  <2>7. LevelInv
    <3>1. ~ BusIdle
      BY <2>2 DEF BusIdle
    <3>2. Programs(wire[Timer], chip, Wanted)
      BY <2>2, <2>6, InitPrograms
    <3>3. QED BY <2>2, <3>1, <3>2 DEF LevelInv
  <2>8. QED BY <2>1, <2>3, <2>4, <2>5, <2>7
<1>2. Inv /\ [Next]_vars => Inv'
  BY TypeNext, ExclusionNext, BusNext, CallNext, LevelNext
<1>3. Inv => ControlIsCurrent
  BY DEF LevelInv, ControlIsCurrent, SettingBrightness, Unsent, CallInv, Wanted
<1>4. QED BY <1>1, <1>2, <1>3, PTL DEF Spec
=============================================================================
