--------------------------------- MODULE DBuf ---------------------------------
(***************************************************************************)
(* The dynamic buffers of dbuf.c, as far as the program uses them.         *)
(*                                                                         *)
(* A buffer is a record: its storage s, a function on 0 .. size - 1, the   *)
(* allocated size, the length of its contents and the read position.  The  *)
(* contents are followed by a NUL so that s can be taken for a C string.   *)
(***************************************************************************)
EXTENDS Integers, Sequences

CONSTANTS
  Powers,   \* the sizes app_power_of_2 returns: 1, 2, 4, ... of an unsigned int
  Longest   \* bound: the longest contents of a buffer

NUL  == "NUL"
Junk == "junk"   \* what malloc and realloc leave in new storage

\* Every size that is asked for has a smallest power that is not below it.
ASSUME DBufAssumption ==
  /\ Powers \subseteq Nat
  /\ Longest \in Nat
  /\ \A n \in 0 .. Longest + 2 :
       \E p \in Powers : p >= n /\ \A q \in Powers : q >= n => p <= q

PowerOf2(n) == CHOOSE p \in Powers : p >= n /\ \A q \in Powers : q >= n => p <= q

\* dbuf_construct without an external buffer.
NewBuf(n) ==
  [s |-> [i \in 0 .. PowerOf2(n) - 1 |-> IF i = 0 THEN NUL ELSE Junk],
   size |-> PowerOf2(n), len |-> 0, pos |-> 0]

Clear(b) == [b EXCEPT !.s = [b.s EXCEPT ![0] = NUL], !.len = 0, !.pos = 0]

\* dbuf_renew: room for n characters and the NUL.
Renew(b, n) ==
  [b EXCEPT !.size = PowerOf2(n + 1),
            !.s = [i \in 0 .. PowerOf2(n + 1) - 1 |-> IF i < b.size THEN b.s[i] ELSE Junk]]

\* Seeded fault: the margin leaves no room for the NUL.
PutCharTight(b, c) ==
  LET r == IF b.len >= b.size THEN Renew(b, b.len + 1) ELSE b
  IN  [r EXCEPT !.s = [r.s EXCEPT ![b.len] = c, ![b.len + 1] = NUL], !.len = b.len + 1]

PutChar(b, c) ==
  LET r == IF b.len >= b.size - 2 THEN Renew(b, b.len + 1) ELSE b
  IN  [r EXCEPT !.s = [r.s EXCEPT ![b.len] = c, ![b.len + 1] = NUL], !.len = b.len + 1]

\* dbuf_strncat, which dbuf_strcat and dbuf_printf come down to.
StrNCat(b, str) ==
  LET n == b.len + Len(str)
      r == IF n >= b.size - 1 THEN Renew(b, n) ELSE b
  IN  [r EXCEPT !.s = [i \in DOMAIN r.s |-> IF i = n THEN NUL
                                            ELSE IF i < b.len \/ i > n THEN r.s[i]
                                            ELSE str[i - b.len + 1]],
                !.len = n]

\* What a C function makes of dbuf->s: the characters before the first NUL.
CString(b) ==
  LET ends == {i \in DOMAIN b.s : b.s[i] = NUL}
      n == CHOOSE i \in ends : \A j \in ends : i <= j
  IN  [k \in 1 .. n |-> b.s[k - 1]]

\* The storage is as large as the buffer believes, and it holds the contents
\* and the NUL behind them.
WellFormed(b) ==
  /\ b.size \in Nat /\ b.len \in Nat
  /\ DOMAIN b.s = 0 .. b.size - 1
  /\ b.len < b.size
  /\ b.s[b.len] = NUL
=============================================================================
