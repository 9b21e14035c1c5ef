-------------------------------- MODULE Keys --------------------------------
(***************************************************************************)
(* The keypad of both kernel drivers: the switches of the matrix, the key  *)
(* data the chip clocks out, the bitmap hardware_keys makes of it, and the *)
(* events vfd_scan_keys reports for the bits that changed.                 *)
(*                                                                         *)
(* A bitmap is the set of the positions of its 1 bits.                     *)
(***************************************************************************)
EXTENDS Integers, Sequences, FiniteSets

CONSTANTS
  Fd620,  \* COMPAT_FD620: one key line and 4 bytes of key data, not 2 and 5
  Table   \* key_codes of the device tree: pairs of a scan code and a key code

Lines    == IF Fd620 THEN {1} ELSE {1, 2}
KeyBytes == IF Fd620 THEN 4 ELSE 5
Bitmaps  == SUBSET (0 .. 19)

\* The switch between the scan output KS<ks> and the key line K<k>.
Switch == [ks : 1 .. 2 * KeyBytes, k : Lines]

KeyEntry == [scancode : Nat, keycode : Nat \ {0}]

\* Two switches with one key code would overwrite each other's state.
ASSUME KeysAssumption ==
  /\ Fd620 \in BOOLEAN
  /\ Table \in Seq(KeyEntry)
  /\ \A i, j \in DOMAIN Table : Table[i].keycode = Table[j].keycode => i = j

\* Byte b of the chip's key data: K1 and K2 of an odd KS in bits 0 and 1, of
\* the even KS after it in bits 3 and 4.
KeyData(down, b) ==
  {IF s.ks % 2 = 1 THEN s.k - 1 ELSE s.k + 2 : s \in {d \in down : (d.ks - 1) \div 2 = b}}

\* The bits a byte x contributes: (x & 1) | ((x & 8) >> 2) on the FD620,
\* (x & 3) | ((x & 18) >> 1), with a decimal 18, on the others.
Packed(x) ==
  IF Fd620 THEN (x \cap {0}) \cup {b - 2 : b \in x \cap {3}}
           ELSE (x \cap {0, 1}) \cup {b - 1 : b \in x \cap {1, 4}}

\* Seeded fault: the bytes are packed one bit too close.
HardwareKeysPacked(down) ==
  LET width == IF Fd620 THEN 1 ELSE 3
  IN  UNION {{width * i + b : b \in Packed(KeyData(down, i))} : i \in 0 .. KeyBytes - 1}

\* hardware_keys, with the switches in down pressed.
HardwareKeys(down) ==
  LET width == IF Fd620 THEN 2 ELSE 4
  IN  UNION {{width * i + b : b \in Packed(KeyData(down, i))} : i \in 0 .. KeyBytes - 1}

\* The order the comments give the bits: KS1+K1, KS1+K2, KS2+K1...; on the
\* FD620, KS1, KS2...
BitOf(s) == IF Fd620 THEN s.ks - 1 ELSE 2 * (s.ks - 1) + s.k - 1

Changed(keys, keystate) == (keys \ keystate) \cup (keystate \ keys)

\* The key codes the table gives a scan code, in the order of the table.
CodesOf(sc) == {Table[i].keycode : i \in {j \in DOMAIN Table : Table[j].scancode = sc}}
=============================================================================
