------------------------------- MODULE Pt6964 -------------------------------
(***************************************************************************)
(* The LED controller chip and the way vfdmod/linux_vfd/pt6964.c talks to  *)
(* it over the three-wire bus (STB, CLK, DI/DO).                           *)
(*                                                                         *)
(* A transfer is a sequence of bus operations: an edge of STB, a byte      *)
(* clocked out (pt6964_send) or a byte clocked in (pt6964_read).  What the *)
(* driver sends is an operator that returns such a sequence; what the chip *)
(* makes of one operation is ChipStep, modelled from the way the driver    *)
(* uses the chip (the chip is not part of the repository).                 *)
(*                                                                         *)
(* A byte or a word is the set of the numbers of its bits that are 1, so   *)
(* that the driver's | is set union and a stray byte, a command taken for  *)
(* data or data taken for a command, is still a byte.                      *)
(***************************************************************************)
EXTENDS Integers, Sequences

CONSTANTS NWords,    \* RAW_DISPLAY_WORDS: 16-bit words of display RAM
          KeyReads   \* bytes hardware_keys reads: 4 on the FD620, 5 otherwise

ASSUME Pt6964Assumption ==
  /\ NWords \in 1 .. 7
  /\ KeyReads \in Nat

Words == 0 .. NWords - 1
Byte  == SUBSET (0 .. 7)
Word  == SUBSET (0 .. 15)

LowByte(w)  == w \cap (0 .. 7)
HighByte(w) == {b \in 0 .. 7 : b + 8 \in w}

\* The bits that are 1 in the low nibble of a number.
Nibble(n) == {b \in 0 .. 3 : (n \div (2 ^ b)) % 2 = 1}

-----------------------------------------------------------------------------
(* Command bytes, pt6964.h.                                                *)

CmdDataSetting(inc, read) ==
  {6} \cup (IF inc = 1 THEN {} ELSE {2}) \cup (IF read = 1 THEN {1} ELSE {})

CmdAddressSet(addr) == {7, 6} \cup Nibble(addr)

CmdDisplayControl(en, bri) == {7} \cup (IF en = 1 THEN {3} ELSE {}) \cup Nibble(bri)

\* PLATFORM_DISPLAY_MODE: 5 digits on the FD620, whose RAM has 5 words, 7 on
\* the other chips.
CmdDisplayMode == IF NWords <= 5 THEN {0} ELSE {0, 1}

-----------------------------------------------------------------------------
(* Bus operations.                                                         *)

StbLow   == [pin |-> "STB", level |-> 0]
StbHigh  == [pin |-> "STB", level |-> 1]
ReadByte == [pin |-> "DI"]
Send(b)  == [pin |-> "DO", byte |-> b]

BusOp == [pin : {"STB"}, level : 0 .. 1] \cup [pin : {"DI"}] \cup [pin : {"DO"}, byte : Byte]

Cmd(b) == <<StbLow, Send(b), StbHigh>>

ClearDram ==
  Cmd(CmdDataSetting(1, 0))
    \o <<StbLow, Send(CmdAddressSet(0))>>
    \o [k \in 1 .. 2 * NWords |-> Send({})]
    \o <<StbHigh>>

ReadKeys ==
  <<StbLow, Send(CmdDataSetting(0, 1))>>
    \o [k \in 1 .. KeyReads |-> ReadByte]
    \o <<StbHigh>>

\* The brightness hardware_update_brightness asks for: 0 is off, n > 0 is
\* level n - 1 of the chip.
UpdateBrightness(bri) ==
  Cmd(IF bri = 0 THEN CmdDisplayControl(0, 0)
                 ELSE CmdDisplayControl(1, bri - 1))

\* "No word sent yet" in pofs.
NoOffset == 26980  \* 0x6964

\* Seeded fault: the previous run is not terminated before a new address.
SendWordUnterminated(pofs, i, r) ==
  (IF pofs = NoOffset THEN Cmd(CmdDataSetting(1, 0)) ELSE <<>>)
    \o (IF pofs # i - 1 THEN <<StbLow, Send(CmdAddressSet(2 * i))>> ELSE <<>>)
    \o <<Send(LowByte(r)), Send(HighByte(r))>>

\* hardware_update_display sends word i with contents r after word pofs: the
\* run is continued when the words are adjacent, else a new address is set.
SendWord(pofs, i, r) ==
  LET open  == IF pofs = NoOffset THEN Cmd(CmdDataSetting(1, 0))
               ELSE IF pofs # i - 1 THEN <<StbHigh>>
               ELSE <<>>
      addr  == IF pofs # i - 1 THEN <<StbLow, Send(CmdAddressSet(2 * i))>>
                               ELSE <<>>
  IN  open \o addr \o <<Send(LowByte(r)), Send(HighByte(r))>>

EndUpdate(pofs) == IF pofs = NoOffset THEN <<>> ELSE <<StbHigh>>

HardwareInit(bri) ==
  ClearDram \o Cmd(CmdDisplayMode) \o UpdateBrightness(bri)

-----------------------------------------------------------------------------
(* The chip: STB level, whether the next byte is a command, the data mode, *)
(* the RAM address, the RAM and the display control register.              *)

RamBytes == 0 .. 2 * NWords - 1

Chip == [stb : 0 .. 1, command : BOOLEAN, inc : 0 .. 1, read : 0 .. 1,
         addr : 0 .. 15, ram : [RamBytes -> Byte], control : Byte]

\* The RAM holds anything when the chip powers up.
PowerOn == [stb |-> 1, command |-> TRUE, inc |-> 1, read |-> 1,
            addr |-> 0, ram |-> [a \in RamBytes |-> {0}], control |-> {}]

\* The address in the low nibble of an address command.
Bit(b, k)  == IF k \in b THEN 1 ELSE 0
Address(b) == Bit(b, 0) + 2 * Bit(b, 1) + 4 * Bit(b, 2) + 8 * Bit(b, 3)

\* The first byte after STB falls, by its two high bits.
Command(c, b) ==
  LET d == [c EXCEPT !.command = FALSE]
  IN  IF {7, 6} \subseteq b THEN [d EXCEPT !.addr = Address(b)]
      ELSE IF 7 \in b       THEN [d EXCEPT !.control = b]
      ELSE IF 6 \in b       THEN [d EXCEPT !.inc = 1 - Bit(b, 2), !.read = Bit(b, 1)]
      ELSE d

\* Every later byte goes to the RAM when the data mode is write.
Data(c, b) ==
  IF c.read = 1 THEN c
  ELSE [c EXCEPT !.ram  = [a \in RamBytes |-> IF a = c.addr THEN b ELSE c.ram[a]],
                 !.addr = (c.addr + c.inc) % 16]

\* A byte is ignored while STB is high, and a level STB has already is no edge.
ChipStep(c, op) ==
  IF op.pin = "STB"
  THEN [c EXCEPT !.stb     = op.level,
                 !.command = IF op.level = 0 THEN c.stb = 1 \/ c.command
                                             ELSE c.command]
  ELSE IF op.pin = "DI" \/ c.stb = 1 THEN c
  ELSE IF c.command THEN Command(c, op.byte)
  ELSE Data(c, op.byte)

\* The word of display RAM the segments of one digit are driven from.
RamWord(c, i) ==
  c.ram[2 * i] \cup {b + 8 : b \in c.ram[2 * i + 1]}
=============================================================================
