------------------------------- MODULE JsonProofs -------------------------------
(***************************************************************************)
(* The reader of the configuration keeps its tree a tree, for any text.    *)
(*                                                                         *)
(* The recursive definitions of Json are computed by induction: each is    *)
(* shown to be the function its equation describes and to stay in a set,   *)
(* from which the rest follows.  Nodes are numbered in the order they are  *)
(* made, so that every member comes after the node it belongs to.          *)
(***************************************************************************)
EXTENDS Json, Induction, SequenceTheorems, FiniteSetTheorems

-----------------------------------------------------------------------------
(* Buffers.                                                                *)

\* A well-formed record with the fields of a buffer.
Buffer(b) ==
  /\ DOMAIN b = {"s", "size", "len", "pos"}
  /\ WellFormed(b)

\* app_power_of_2 returns a size that is not below the one asked for.
LEMMA PowerOf2Fits ==
  ASSUME NEW n \in 0 .. Longest + 2
  PROVE  PowerOf2(n) \in Nat /\ PowerOf2(n) >= n
<1> DEFINE P(p) == p \in Powers /\ p >= n /\ \A q \in Powers : q >= n => p <= q
<1>1. PICK p : P(p)
  BY DBufAssumption
<1>2. P(CHOOSE r : P(r))
  BY <1>1
<1>3. PowerOf2(n) = CHOOSE r \in Powers : r >= n /\ \A q \in Powers : q >= n => r <= q
  BY DEF PowerOf2
<1>4. (CHOOSE r : P(r)) = CHOOSE r \in Powers : r >= n /\ \A q \in Powers : q >= n => r <= q
  OBVIOUS
<1>5. QED BY <1>2, <1>3, <1>4, DBufAssumption

\* dbuf_init makes a buffer.
LEMMA NewBufIsBuffer ==
  ASSUME NEW n \in 1 .. Longest
  PROVE  Buffer(NewBuf(n)) /\ NewBuf(n).len = 0
<1>1. PowerOf2(n) \in Nat /\ PowerOf2(n) >= 1
  BY PowerOf2Fits, DBufAssumption
<1>2. QED BY <1>1 DEF Buffer, WellFormed, NewBuf

\* dbuf_clear leaves a buffer.
LEMMA ClearIsBuffer ==
  ASSUME NEW b, Buffer(b)
  PROVE  Buffer(Clear(b)) /\ Clear(b).len = 0
<1>1. /\ DOMAIN Clear(b) = {"s", "size", "len", "pos"}
      /\ Clear(b).s = [b.s EXCEPT ![0] = NUL] /\ Clear(b).len = 0 /\ Clear(b).size = b.size
  BY DEF Buffer, Clear
<1>2. b.size \in Nat /\ 0 \in 0 .. b.size - 1 /\ DOMAIN b.s = 0 .. b.size - 1
  BY DEF Buffer, WellFormed
<1>3. QED BY <1>1, <1>2 DEF Buffer, WellFormed

\* dbuf_renew makes room for n characters and the NUL, if there is not enough.
LEMMA RoomIsMade ==
  ASSUME NEW b, Buffer(b), NEW n \in 0 .. Longest + 1, NEW r,
         r = Renew(b, n) \/ (r = b /\ n < b.size)
  PROVE  /\ DOMAIN r = {"s", "size", "len", "pos"}
         /\ r.len = b.len
         /\ r.size \in Nat /\ n < r.size
         /\ DOMAIN r.s = 0 .. r.size - 1
<1>1. CASE r = Renew(b, n)
  <2>1. PowerOf2(n + 1) \in Nat /\ PowerOf2(n + 1) >= n + 1
    BY DBufAssumption, PowerOf2Fits
  <2>2. /\ DOMAIN r = {"s", "size", "len", "pos"}
        /\ r.len = b.len /\ r.size = PowerOf2(n + 1)
        /\ r.s = [i \in 0 .. PowerOf2(n + 1) - 1 |-> IF i < b.size THEN b.s[i] ELSE Junk]
    BY <1>1 DEF Buffer, Renew
  <2>3. DOMAIN r.s = 0 .. PowerOf2(n + 1) - 1
    BY <2>2
  <2>4. QED BY <2>1, <2>2, <2>3
<1>2. CASE r = b /\ n < b.size
  BY <1>2 DEF Buffer, WellFormed
<1>3. QED BY <1>1, <1>2

\* dbuf_put_char: two bytes of margin are enough for the character and the NUL.
LEMMA PutCharIsBuffer ==
  ASSUME NEW b, Buffer(b), b.len < Longest, NEW c
  PROVE  Buffer(PutChar(b, c)) /\ PutChar(b, c).len = b.len + 1
<1>1. b.len \in Nat /\ Longest \in Nat /\ b.size \in Nat
  BY DBufAssumption DEF Buffer, WellFormed
<1> DEFINE r == IF b.len >= b.size - 2 THEN Renew(b, b.len + 1) ELSE b
           t == [r.s EXCEPT ![b.len] = c, ![b.len + 1] = NUL]
<1>2. r = Renew(b, b.len + 1) \/ (r = b /\ b.len + 1 < b.size)
  BY <1>1
<1>3. PutChar(b, c) = [r EXCEPT !.s = t, !.len = b.len + 1]
  BY DEF PutChar
<1> HIDE DEF r
<1>4. /\ DOMAIN r = {"s", "size", "len", "pos"}
      /\ r.size \in Nat /\ b.len + 1 < r.size
      /\ DOMAIN r.s = 0 .. r.size - 1
  BY <1>1, <1>2, RoomIsMade
<1>5. t[b.len + 1] = NUL /\ DOMAIN t = 0 .. r.size - 1
  BY <1>1, <1>4
<1> HIDE DEF t
<1>6. /\ DOMAIN PutChar(b, c) = {"s", "size", "len", "pos"}
      /\ PutChar(b, c).s = t /\ PutChar(b, c).len = b.len + 1 /\ PutChar(b, c).size = r.size
  BY <1>3, <1>4
<1>7. QED BY <1>1, <1>4, <1>5, <1>6 DEF Buffer, WellFormed

\* dbuf_strncat: one byte of margin is enough for the NUL.
LEMMA StrNCatIsBuffer ==
  ASSUME NEW b, Buffer(b), NEW str, Len(str) \in Nat, b.len + Len(str) <= Longest
  PROVE  Buffer(StrNCat(b, str)) /\ StrNCat(b, str).len = b.len + Len(str)
<1> DEFINE n == b.len + Len(str)
           r == IF n >= b.size - 1 THEN Renew(b, n) ELSE b
           t == [i \in DOMAIN r.s |-> IF i = n THEN NUL
                                      ELSE IF i < b.len \/ i > n THEN r.s[i]
                                      ELSE str[i - b.len + 1]]
<1>1. b.len \in Nat /\ Longest \in Nat /\ b.size \in Nat /\ n \in Nat
  BY DBufAssumption DEF Buffer, WellFormed
<1>2. r = Renew(b, n) \/ (r = b /\ n < b.size)
  BY <1>1
<1>3. StrNCat(b, str) = [r EXCEPT !.s = t, !.len = n]
  BY DEF StrNCat
<1>4. n \in 0 .. Longest + 1
  BY <1>1
<1> HIDE DEF r, n
<1>5. /\ DOMAIN r = {"s", "size", "len", "pos"}
      /\ r.size \in Nat /\ n < r.size
      /\ DOMAIN r.s = 0 .. r.size - 1
  BY <1>2, <1>4, RoomIsMade
<1>6. t[n] = NUL /\ DOMAIN t = 0 .. r.size - 1
  BY <1>4, <1>5
<1> HIDE DEF t
<1>7. /\ DOMAIN StrNCat(b, str) = {"s", "size", "len", "pos"}
      /\ StrNCat(b, str).s = t /\ StrNCat(b, str).len = n /\ StrNCat(b, str).size = r.size
  BY <1>3, <1>5
<1>8. QED BY <1>1, <1>5, <1>6, <1>7 DEF Buffer, WellFormed, n
-----------------------------------------------------------------------------
(* Numbers and names.                                                      *)

\* strtod makes a number of digits.
LEMMA ValueType ==
  ASSUME NEW s \in Seq(DOMAIN Digit)
  PROVE  Value(s) \in Nat
<1> DEFINE K == Len(s)
           value[n \in 0 .. K] == IF n = 0 THEN 0 ELSE 10 * value[n - 1] + Digit[s[n]]
           F == [n \in 1 .. K |-> [x \in Nat |-> 10 * x + Digit[s[n]]]]
<1>1. K \in Nat /\ 0 \in Nat
  OBVIOUS
<1>2. \A n \in 1 .. K : Digit[s[n]] \in Nat
  <2>1. \A d \in DOMAIN Digit : Digit[d] \in Nat
    BY DEF Digit
  <2>2. QED BY <2>1
<1>3. F \in [1 .. K -> [Nat -> Nat]] /\ \A n \in 1 .. K : \A x \in Nat : F[n][x] = 10 * x + Digit[s[n]]
  BY <1>2
<1>4. Value(s) = value[K]
  BY DEF Value
<1> HIDE DEF F
<1>5. PICK g \in [0 .. K -> Nat] : IsRecursive(g, K, 0, F)
  BY <1>1, <1>3, Recursion
<1>6. g = [n \in 0 .. K |-> IF n = 0 THEN 0 ELSE 10 * g[n - 1] + Digit[s[n]]]
  <2>1. ASSUME NEW n \in 0 .. K PROVE g[n] = IF n = 0 THEN 0 ELSE 10 * g[n - 1] + Digit[s[n]]
    <3>1. CASE n = 0
      BY <3>1, <1>5 DEF IsRecursive
    <3>2. CASE n # 0
      <4>1. n \in 1 .. K /\ n - 1 \in 0 .. K
        BY <1>1, <3>2
      <4>2. QED BY <1>3, <1>5, <4>1, <3>2 DEF IsRecursive
    <3>3. QED BY <3>1, <3>2
  <2>2. QED BY <2>1
<1>7. value = [n \in 0 .. K |-> IF n = 0 THEN 0 ELSE 10 * value[n - 1] + Digit[s[n]]]
  BY <1>6
<1> HIDE DEF value, K
<1>8. value \in [0 .. K -> Nat] /\ IsRecursive(value, K, 0, F)
  <2>1. value = [n \in 0 .. K |-> value[n]]
    BY <1>7
  <2>2. value[0] = 0
    BY <1>1, <1>7
  <2>3. ASSUME NEW n \in 1 .. K, value[n - 1] \in Nat PROVE value[n] = F[n][value[n - 1]]
    <3>1. n \in 0 .. K /\ n # 0
      OBVIOUS
    <3>2. QED BY <1>3, <1>7, <2>3, <3>1
  <2>4. Computes(value, K, Nat, 0, F)
    BY <2>1, <2>2, <2>3 DEF Computes
  <2>5. QED BY <1>1, <1>3, <2>4, RecursionType
<1>9. QED BY <1>1, <1>4, <1>8

\* Each number below ten has its digit.
LEMMA Digits ==
  /\ \A d \in DOMAIN Digit : Digit[d] \in 0 .. 9 /\ DigitFor(Digit[d]) = d
  /\ \A n \in 0 .. 9 : DigitFor(n) \in DOMAIN Digit /\ Digit[DigitFor(n)] = n
<1>1. \A d \in DOMAIN Digit : Digit[d] \in 0 .. 9
  BY DEF Digit
<1>2. \A d, e \in DOMAIN Digit : Digit[d] = Digit[e] => d = e
  BY DEF Digit
<1>3. ASSUME NEW n \in 0 .. 9 PROVE \E d \in DOMAIN Digit : Digit[d] = n
  <2>1. /\ Digit["0"] = 0 /\ Digit["1"] = 1 /\ Digit["2"] = 2 /\ Digit["3"] = 3 /\ Digit["4"] = 4
        /\ Digit["5"] = 5 /\ Digit["6"] = 6 /\ Digit["7"] = 7 /\ Digit["8"] = 8 /\ Digit["9"] = 9
    BY DEF Digit
  <2>2. {"0", "1", "2", "3", "4", "5", "6", "7", "8", "9"} \subseteq DOMAIN Digit
    BY DEF Digit
  <2>3. n \in {0, 1, 2, 3, 4, 5, 6, 7, 8, 9}
    OBVIOUS
  <2>4. QED BY <2>1, <2>2, <2>3
<1>4. ASSUME NEW n \in 0 .. 9 PROVE DigitFor(n) \in DOMAIN Digit /\ Digit[DigitFor(n)] = n
  BY <1>3 DEF DigitFor
<1>5. QED BY <1>1, <1>2, <1>4

\* sprintf writes a number as its last digit behind the rest.
LEMMA DecimalType ==
  /\ Decimal \in [Nat -> Seq(DOMAIN Digit)]
  /\ \A n \in Nat : Decimal[n] = IF n < 10 THEN <<DigitFor(n)>>
                                 ELSE Decimal[n \div 10] \o <<DigitFor(n % 10)>>
<1> DEFINE V == Seq(DOMAIN Digit)
           rank == [n \in Nat |-> n]
           Step(n, f) == IF n < 10 THEN <<DigitFor(n)>> ELSE f[n \div 10] \o <<DigitFor(n % 10)>>
           F == [n \in Nat |-> [f \in [Nat -> V] |-> Step(n, f)]]
<1>1. rank \in [Nat -> Nat] /\ <<>> \in V /\ \A n \in Nat : rank[n] = n
  OBVIOUS
<1>2. ASSUME NEW n \in Nat
      PROVE  /\ n % 10 \in 0 .. 9 /\ n \div 10 \in Nat
             /\ ~ (n < 10) => n \div 10 < n
             /\ n < 10 => n \in 0 .. 9
  OBVIOUS
<1>3. ASSUME NEW n \in Nat, NEW f, ~ (n < 10) => f[n \div 10] \in V PROVE Step(n, f) \in V
  <2>1. CASE n < 10
    BY <2>1, <1>2, Digits
  <2>2. CASE ~ (n < 10)
    <3>1. f[n \div 10] \in V /\ DigitFor(n % 10) \in DOMAIN Digit
      BY <2>2, <1>2, <1>3, Digits
    <3>2. QED BY <2>2, <3>1
  <2>3. QED BY <2>1, <2>2
<1>4. ASSUME NEW n \in Nat, NEW f \in [Nat -> V] PROVE Step(n, f) \in V
  BY <1>2, <1>3
<1>5. /\ F \in [Nat -> [[Nat -> V] -> V]]
      /\ \A n \in Nat : \A f \in [Nat -> V] : F[n][f] = Step(n, f)
  BY <1>4
<1>6. ASSUME NEW n \in Nat, NEW f \in [Nat -> V], NEW g \in [Nat -> V],
             \A k \in Nat : rank[k] < rank[n] => f[k] = g[k]
      PROVE  F[n][f] = F[n][g]
  <2>1. CASE n < 10
    BY <2>1, <1>5
  <2>2. CASE ~ (n < 10)
    <3>1. f[n \div 10] = g[n \div 10]
      BY <1>1, <1>2, <1>6, <2>2
    <3>2. Step(n, f) = Step(n, g)
      BY <2>2, <3>1
    <3>3. QED BY <1>5, <3>2
  <2>3. QED BY <2>1, <2>2
<1> HIDE DEF F
<1>7. PICK f \in [Nat -> V] : \A n \in Nat : f[n] = F[n][f]
  <2> DEFINE S == Nat
  <2>1. LooksBelow(F, S, V, rank) /\ <<>> \in V
    BY <1>1, <1>5, <1>6 DEF LooksBelow
  <2> HIDE DEF V, rank, S
  <2>2. \E f \in [S -> V] : \A n \in S : f[n] = F[n][f]
    BY <2>1, RankedRecursion
  <2>3. QED BY <2>2 DEF S
<1>8. f = [n \in Nat |-> Step(n, f)]
  BY <1>5, <1>7
<1>9. Decimal = [n \in Nat |-> Step(n, Decimal)]
  BY <1>8 DEF Decimal
<1>10. \A n \in Nat : Decimal[n] = Step(n, Decimal)
  BY <1>9
<1> DEFINE T == {n \in Nat : Decimal[n] \in V}
<1>11. ASSUME NEW n \in Nat, \A k \in Nat : rank[k] < rank[n] => k \in T PROVE n \in T
  <2>1. ~ (n < 10) => Decimal[n \div 10] \in V
    BY <1>1, <1>2, <1>11
  <2>2. Step(n, Decimal) \in V
    BY <1>3, <2>1
  <2>3. QED BY <1>10, <2>2
<1>12. Nat \subseteq T
  <2> HIDE DEF T, rank
  <2>1. QED BY <1>1, <1>11, RankedInduction
<1>13. Decimal \in [Nat -> V]
  <2>1. Decimal = [n \in Nat |-> Decimal[n]]
    BY <1>9
  <2>2. QED BY <1>12, <2>1
<1>14. QED BY <1>10, <1>13

\* Digits are read up to the first character that is none.
LEMMA DigitsStop ==
  ASSUME NEW S, NEW s \in Seq(S), NEW i \in 1 .. Len(s) + 1
  PROVE  \E j \in i .. Len(s) + 1 :
           /\ DigitsFrom(s, i) = SubSeq(s, i, j - 1)
           /\ \A k \in i .. j - 1 : s[k] \in DOMAIN Digit
           /\ j <= Len(s) => s[j] \notin DOMAIN Digit
<1> DEFINE D == DOMAIN Digit
           K == Len(s)
           Ends(j) == (\A k \in i .. j - 1 : s[k] \in D) /\ (j <= K => s[j] \notin D)
           T == {j \in i .. K + 1 : j <= K => s[j] \notin D}
<1>1. K \in Nat /\ i \in Nat /\ i <= K + 1
  OBVIOUS
<1> HIDE DEF K, D
<1>2. T \subseteq Nat /\ K + 1 \in T
  BY <1>1
<1>3. PICK x \in T : \A y \in T : x <= y
  BY <1>2, LeastElement
<1>4. Ends(x) /\ x \in i .. K + 1
  <2>1. ASSUME NEW k \in i .. x - 1 PROVE s[k] \in D
    <3>1. k \in i .. K + 1 /\ ~ (x <= k)
      BY <1>1
    <3>2. k \notin T
      BY <1>3, <3>1
    <3>3. QED BY <3>1, <3>2
  <2>2. QED BY <2>1
<1> HIDE DEF T
<1> DEFINE end == CHOOSE j \in i .. K + 1 : Ends(j)
<1>5. end \in i .. K + 1 /\ Ends(end)
  <2>1. \E j \in i .. K + 1 : Ends(j)
    BY <1>4
  <2> HIDE DEF Ends
  <2>2. QED BY <2>1
<1>6. DigitsFrom(s, i) = SubSeq(s, i, end - 1)
  BY DEF DigitsFrom, K, D
<1> HIDE DEF end
<1>7. QED BY <1>5, <1>6 DEF K, D

\* They are digits, and inside the text.
LEMMA DigitsType ==
  ASSUME NEW S, NEW s \in Seq(S), NEW i \in 1 .. Len(s) + 1
  PROVE  DigitsFrom(s, i) \in Seq(DOMAIN Digit) /\ i + Len(DigitsFrom(s, i)) \in i .. Len(s) + 1
<1> DEFINE D == DOMAIN Digit
           d == DigitsFrom(s, i)
<1>1. PICK j \in i .. Len(s) + 1 : d = SubSeq(s, i, j - 1) /\ \A k \in i .. j - 1 : s[k] \in D
  BY DigitsStop
<1>2. Len(s) \in Nat /\ i \in Nat /\ i >= 1 /\ i <= j /\ j <= Len(s) + 1 /\ j \in Nat
  OBVIOUS
<1> HIDE DEF d, D
<1>3. d = [k \in 1 .. j - i |-> s[i + k - 1]]
  BY <1>1, <1>2
<1>4. \A k \in 1 .. j - i : i + k - 1 \in i .. j - 1
  BY <1>2
<1>5. \A k \in 1 .. j - i : s[i + k - 1] \in D
  BY <1>1, <1>4
<1>6. j - i \in Nat
  BY <1>2
<1>7. d \in Seq(D) /\ Len(d) = j - i
  BY <1>3, <1>5, <1>6
<1>8. QED BY <1>2, <1>7 DEF d, D

\* The numbers of a new node and of true.
LEMMA NumberTypes == Zero \in Number /\ One \in Number
<1>1. "1" \in DOMAIN Digit
  BY DEF Digit
<1> DEFINE D == DOMAIN Digit
<1>2. "1" \in D
  BY <1>1
<1> HIDE DEF D
<1>3. <<>> \in Seq(D) /\ <<"1">> \in Seq(D)
  BY <1>2
<1>4. QED BY <1>3 DEF Zero, One, Number, D

\* strtod returns a number.
LEMMA StrtodType ==
  ASSUME NEW S, NEW s \in Seq(S)
  PROVE  Strtod(s) \in Number
<1> DEFINE D == DOMAIN Digit
           V == Seq(D)
           start == IF IsAt(s, 1, {"-"}) THEN 2 ELSE 1
           whole == DigitsFrom(s, start)
           p     == start + Len(whole)
           point == IsAt(s, p, {"."})
           frac  == IF point THEN DigitsFrom(s, p + 1) ELSE <<>>
           e     == IF point THEN p + 1 + Len(frac) ELSE p
           power == IF ~ IsAt(s, e, {"e", "E"}) THEN 0
                    ELSE IF IsAt(s, e + 1, {"-"}) THEN - Value(DigitsFrom(s, e + 2))
                    ELSE IF IsAt(s, e + 1, {"+"}) THEN Value(DigitsFrom(s, e + 2))
                    ELSE Value(DigitsFrom(s, e + 1))
<1>1. Len(s) \in Nat
  OBVIOUS
<1>2. ASSUME NEW i \in Nat, i >= 1, NEW c, IsAt(s, i, c) PROVE i \in 1 .. Len(s) /\ i + 1 \in 1 .. Len(s) + 1
  BY <1>1, <1>2 DEF IsAt
<1>3. ASSUME NEW i \in 1 .. Len(s) + 1
      PROVE  /\ DigitsFrom(s, i) \in V /\ Len(DigitsFrom(s, i)) \in Nat
             /\ i + Len(DigitsFrom(s, i)) \in i .. Len(s) + 1
             /\ Value(DigitsFrom(s, i)) \in Nat
  <2>1. DigitsFrom(s, i) \in V /\ i + Len(DigitsFrom(s, i)) \in i .. Len(s) + 1
    BY DigitsType
  <2>2. QED BY <2>1, ValueType
<1> HIDE DEF V, D
<1>4. start \in 1 .. Len(s) + 1
  BY <1>1, <1>2
<1> HIDE DEF start
<1>5. whole \in V /\ Len(whole) \in Nat /\ p \in 1 .. Len(s) + 1
  BY <1>1, <1>3, <1>4
<1> HIDE DEF whole, p
<1>6. point => p + 1 \in 1 .. Len(s) + 1
  BY <1>1, <1>2, <1>5
<1>7. <<>> \in V
  BY DEF V
<1> HIDE DEF point
<1>8. frac \in V /\ e \in 1 .. Len(s) + 1
  <2>1. CASE point
    <3>1. frac = DigitsFrom(s, p + 1) /\ e = (p + 1) + Len(frac)
      BY <2>1
    <3>2. (p + 1) + Len(DigitsFrom(s, p + 1)) \in p + 1 .. Len(s) + 1 /\ DigitsFrom(s, p + 1) \in V
      BY <1>3, <1>6, <2>1
    <3>3. p \in Nat /\ p >= 1
      BY <1>5
    <3> HIDE DEF frac, e
    <3>4. QED BY <1>1, <3>1, <3>2, <3>3
  <2>2. CASE ~ point
    BY <1>5, <1>7, <2>2
  <2>3. QED BY <2>1, <2>2
<1> HIDE DEF frac, e
<1>9. power \in Int
  <2>1. CASE ~ IsAt(s, e, {"e", "E"})
    BY <2>1
  <2>2. CASE IsAt(s, e, {"e", "E"})
    <3>1. e + 1 \in 1 .. Len(s) + 1
      BY <1>1, <1>2, <1>8, <2>2
    <3>2. IsAt(s, e + 1, {"-"}) \/ IsAt(s, e + 1, {"+"}) => e + 2 \in 1 .. Len(s) + 1
      BY <1>1, <1>2, <1>8, <3>1
    <3>3. Value(DigitsFrom(s, e + 1)) \in Int
      BY <1>3, <3>1
    <3>4. IsAt(s, e + 1, {"-"}) \/ IsAt(s, e + 1, {"+"}) => Value(DigitsFrom(s, e + 2)) \in Int
      BY <1>3, <3>2
    <3>5. QED BY <3>3, <3>4
  <2>3. QED BY <2>1, <2>2
<1> DEFINE digits == whole \o frac
<1>10. digits \in V
  BY <1>5, <1>8 DEF V
<1>11. Strtod(s) = IF digits = <<>> THEN Zero
                   ELSE [neg |-> start = 2, digits |-> digits, point |-> Len(whole) + power]
  BY DEF Strtod, e, frac, point, p, whole, start
<1> HIDE DEF digits, power
<1>12. [neg |-> start = 2, digits |-> digits, point |-> Len(whole) + power] \in Number
  <2>1. Len(whole) + power \in Int
    BY <1>5, <1>9
  <2>2. digits \in Seq(DOMAIN Digit)
    BY <1>10 DEF V, D
  <2>3. (start = 2) \in BOOLEAN
    OBVIOUS
  <2>4. QED BY <2>1, <2>2, <2>3 DEF Number
<1>13. QED BY <1>11, <1>12, NumberTypes

\* Some names, one if there is no separator: the string itself.
LEMMA NamesType ==
  ASSUME NEW C, NEW s \in Seq(C)
  PROVE  /\ Names(s) \in Seq(Seq(C)) /\ Len(Names(s)) >= 1
         /\ Len(Names(s)) = 1 => Names(s) = <<s>>
<1> DEFINE K == Len(s)
           V == {ns \in Seq(Seq(C)) : Len(ns) >= 1}
           Add(ns, c) == IF c = "." THEN Append(ns, <<>>)
                         ELSE [ns EXCEPT ![Len(ns)] = Append(@, c)]
           cut[n \in 0 .. K] == IF n = 0 THEN <<<<>>>> ELSE Add(cut[n - 1], s[n])
           F == [n \in 1 .. K |-> [ns \in V |-> Add(ns, s[n])]]
<1>1. K \in Nat /\ <<<<>>>> \in V
  OBVIOUS
<1>2. ASSUME NEW ns \in V, NEW c \in C
      PROVE  /\ Add(ns, c) \in V
             /\ Len(Add(ns, c)) = 1 => c # "." /\ Len(ns) = 1
             /\ Len(ns) = 1 /\ c # "." => Add(ns, c) = <<Append(ns[1], c)>>
  <2>1. CASE c = "."
    <3>1. Add(ns, c) = Append(ns, <<>>) /\ <<>> \in Seq(C)
      BY <2>1
    <3>2. QED BY <2>1, <3>1
  <2>2. CASE c # "."
    <3>1. Len(ns) \in 1 .. Len(ns) /\ ns[Len(ns)] \in Seq(C)
      OBVIOUS
    <3>2. Append(ns[Len(ns)], c) \in Seq(C)
      BY <3>1
    <3>3. Add(ns, c) = [ns EXCEPT ![Len(ns)] = Append(ns[Len(ns)], c)]
      BY <2>2
    <3>4. Add(ns, c) \in Seq(Seq(C)) /\ Len(Add(ns, c)) = Len(ns)
      BY <3>2, <3>3
    <3>5. Len(ns) = 1 => Add(ns, c) = <<Append(ns[1], c)>>
      BY <3>2, <3>3, <3>4
    <3>6. QED BY <2>2, <3>4, <3>5
  <2>3. QED BY <2>1, <2>2
<1>3. F \in [1 .. K -> [V -> V]] /\ \A n \in 1 .. K : \A ns \in V : F[n][ns] = Add(ns, s[n])
  BY <1>2
<1>4. Names(s) = cut[K]
  BY DEF Names
<1> HIDE DEF F, V, Add
<1>5. PICK g \in [0 .. K -> V] : IsRecursive(g, K, <<<<>>>>, F)
  BY <1>1, <1>3, Recursion
<1>6. g = [n \in 0 .. K |-> IF n = 0 THEN <<<<>>>> ELSE Add(g[n - 1], s[n])]
  <2>1. ASSUME NEW n \in 0 .. K PROVE g[n] = IF n = 0 THEN <<<<>>>> ELSE Add(g[n - 1], s[n])
    <3>1. CASE n = 0
      BY <3>1, <1>5 DEF IsRecursive
    <3>2. CASE n # 0
      <4>1. n \in 1 .. K /\ n - 1 \in 0 .. K
        BY <1>1, <3>2
      <4>2. QED BY <1>3, <1>5, <4>1, <3>2 DEF IsRecursive
    <3>3. QED BY <3>1, <3>2
  <2>2. QED BY <2>1
<1>7. cut = [n \in 0 .. K |-> IF n = 0 THEN <<<<>>>> ELSE Add(cut[n - 1], s[n])]
  BY <1>6
<1> HIDE DEF cut, K
<1>8. cut \in [0 .. K -> V] /\ IsRecursive(cut, K, <<<<>>>>, F)
  <2>1. cut = [n \in 0 .. K |-> cut[n]]
    BY <1>7
  <2>2. cut[0] = <<<<>>>>
    BY <1>1, <1>7
  <2>3. ASSUME NEW n \in 1 .. K, cut[n - 1] \in V PROVE cut[n] = F[n][cut[n - 1]]
    <3>1. n \in 0 .. K /\ n # 0
      OBVIOUS
    <3>2. QED BY <1>3, <1>7, <2>3, <3>1
  <2>4. Computes(cut, K, V, <<<<>>>>, F)
    BY <2>1, <2>2, <2>3 DEF Computes
  <2>5. QED BY <1>1, <1>3, <2>4, RecursionType
<1> DEFINE T == {n \in 0 .. K : Len(cut[n]) = 1 => cut[n] = <<SubSeq(s, 1, n)>>}
<1>9. 0 \in T
  <2>1. cut[0] = <<<<>>>> /\ 0 \in 0 .. K
    BY <1>1, <1>8 DEF IsRecursive
  <2>2. SubSeq(s, 1, 0) = <<>>
    OBVIOUS
  <2>3. QED BY <2>1, <2>2
<1>10. ASSUME NEW n \in 0 .. K - 1, n \in T PROVE n + 1 \in T
  <2>1. n + 1 \in 1 .. K /\ (n + 1) - 1 = n /\ n \in 0 .. K /\ s[n + 1] \in C
    BY <1>1 DEF K
  <2>2. cut[n] \in V /\ cut[n + 1] = Add(cut[n], s[n + 1])
    BY <1>3, <1>8, <2>1 DEF IsRecursive
  <2>3. SUFFICES ASSUME Len(cut[n + 1]) = 1 PROVE cut[n + 1] = <<SubSeq(s, 1, n + 1)>>
    BY <2>1
  <2>4. Len(cut[n]) = 1 /\ s[n + 1] # "."
    BY <1>2, <2>1, <2>2, <2>3
  <2>5. cut[n] = <<SubSeq(s, 1, n)>>
    BY <1>10, <2>4
  <2>6. cut[n + 1] = <<Append(SubSeq(s, 1, n), s[n + 1])>>
    <3>1. cut[n + 1] = <<Append(cut[n][1], s[n + 1])>>
      BY <1>2, <2>1, <2>2, <2>4
    <3>2. QED BY <2>5, <3>1
  <2>7. Append(SubSeq(s, 1, n), s[n + 1]) = SubSeq(s, 1, n + 1)
    BY <2>1 DEF K
  <2>8. QED BY <2>6, <2>7
<1> HIDE DEF T
<1>11. K \in T
  <2>1. \A n \in 0 .. K : n \in T
    BY <1>1, <1>9, <1>10, InductUpTo
  <2>2. QED BY <1>1, <2>1
<1>12. SubSeq(s, 1, K) = s
  BY DEF K
<1>13. cut[K] \in V
  BY <1>1, <1>8
<1>14. QED BY <1>4, <1>11, <1>12, <1>13 DEF T, V
-----------------------------------------------------------------------------
(* Searches.                                                               *)

\* The members of every node of h come after it.
Descends(h, m) ==
  /\ m \in Nat /\ DOMAIN h = 0 .. m
  /\ \A n \in 0 .. m : /\ h[n].kids \in Seq(0 .. m)
                       /\ \A i \in 1 .. Len(h[n].kids) : n < h[n].kids[i]

\* What a search among the members of nodes may end with.
Hits(h, L) == [node : {NoNode} \cup UNION {ToSet(h[n].kids) : n \in DOMAIN h}, i : 1 .. L + 1]

\* The loop of json_node_find at its x[1]-th member and x[2]-th token.
FromStep(h, toks, recur, below, n, x, from) ==
  LET kids == h[n].kids
  IN  IF x[1] > Len(kids) THEN [node |-> NoNode, i |-> x[2]]
      ELSE LET k     == kids[x[1]]
               match == h[k].key = toks[x[2]]
               j     == IF match THEN x[2] + 1 ELSE x[2]
               r     == below[<<k, j>>]
           IN  IF j > Len(toks) THEN [node |-> k, i |-> j]
               ELSE IF ~ recur THEN IF match THEN r ELSE from[<<x[1] + 1, j>>]
               ELSE IF r.i > Len(toks) THEN r ELSE from[<<x[1] + 1, r.i>>]

\* What has been found below the members of n is a result.
BelowKnown(h, toks, below, n) ==
  \A q \in 1 .. Len(h[n].kids) : \A j \in 1 .. Len(toks) : below[<<h[n].kids[q], j>>] \in Hits(h, Len(toks))

\* The loop: from[x] is its result from the x[1]-th member and x[2]-th token on.
FromEquation(h, toks, recur, below, n, from) ==
  /\ from \in [(1 .. Len(h[n].kids) + 1) \X (1 .. Len(toks)) -> Hits(h, Len(toks))]
  /\ \A x \in (1 .. Len(h[n].kids) + 1) \X (1 .. Len(toks)) :
       from[x] = FromStep(h, toks, recur, below, n, x, from)
  /\ \A i \in 1 .. Len(toks) : Scan(h, toks, recur, below, n, i) = from[<<1, i>>]

\* It is determined by its equation.
LEMMA ScanEquation ==
  ASSUME NEW h, NEW m, Descends(h, m), NEW toks, Len(toks) \in Nat, NEW recur \in BOOLEAN,
         NEW below, NEW n \in 0 .. m, BelowKnown(h, toks, below, n)
  PROVE  \E from : FromEquation(h, toks, recur, below, n, from)
<1> DEFINE kids == h[n].kids
           K == Len(kids)
           L == Len(toks)
           S == (1 .. K + 1) \X (1 .. L)
           V == Hits(h, L)
           v0 == [node |-> NoNode, i |-> 1]
           rank == [x \in S |-> K + 1 - x[1]]
           Step(x, f) == FromStep(h, toks, recur, below, n, x, f)
           F == [x \in S |-> [f \in [S -> V] |-> Step(x, f)]]
           from[x \in S] == Step(x, from)
<1>1. /\ K \in Nat /\ L \in Nat /\ kids \in Seq(0 .. m)
      /\ \A q \in 1 .. K : kids[q] \in 0 .. m /\ kids[q] \in ToSet(kids)
  <2>1. L \in Nat /\ kids \in Seq(0 .. m) /\ m \in Nat
    BY DEF Descends
  <2> HIDE DEF kids, L
  <2>2. K \in Nat /\ DOMAIN kids = 1 .. K /\ \A q \in 1 .. K : kids[q] \in 0 .. m
    BY <2>1
  <2>3. \A q \in 1 .. K : kids[q] \in ToSet(kids)
    BY <2>2 DEF ToSet
  <2>4. QED BY <2>1, <2>2, <2>3
<1>2. \A r : r \in V <=> \E k \in {NoNode} \cup UNION {ToSet(h[c].kids) : c \in 0 .. m}, i \in 1 .. L + 1 :
                            r = [node |-> k, i |-> i]
  BY DEF Hits, Descends
<1>3. v0 \in V
  BY <1>1, <1>2
<1>4. rank \in [S -> Nat] /\ \A x \in S : rank[x] = K + 1 - x[1]
  BY <1>1
<1>5. ASSUME NEW x \in S
      PROVE  /\ x = <<x[1], x[2]>> /\ x[1] \in 1 .. K + 1 /\ x[2] \in 1 .. L
             /\ x[1] <= K => x[1] \in 1 .. K
             /\ x[1] <= K => \A j \in 1 .. L : /\ <<x[1] + 1, j>> \in S
                                               /\ rank[<<x[1] + 1, j>>] < rank[x]
  <2>1. x = <<x[1], x[2]>> /\ x[1] \in 1 .. K + 1 /\ x[2] \in 1 .. L
    OBVIOUS
  <2>2. ASSUME x[1] <= K, NEW j \in 1 .. L
        PROVE  <<x[1] + 1, j>> \in S /\ rank[<<x[1] + 1, j>>] < rank[x]
    <3>1. x[1] + 1 \in 1 .. K + 1
      BY <1>1, <2>1, <2>2
    <3>2. <<x[1] + 1, j>> \in S /\ <<x[1] + 1, j>>[1] = x[1] + 1
      BY <3>1
    <3>3. rank[<<x[1] + 1, j>>] = K + 1 - <<x[1] + 1, j>>[1] /\ rank[x] = K + 1 - x[1]
      BY ONLY <1>4, <3>2, x \in S
    <3> HIDE DEF S, rank
    <3>4. rank[<<x[1] + 1, j>>] < rank[x]
      BY ONLY <1>1, <2>1, <2>2, <3>2, <3>3, K \in Nat
    <3>5. QED BY <3>2, <3>4
  <2>3. x[1] <= K => x[1] \in 1 .. K
    BY <1>1, <2>1
  <2>4. QED BY <2>1, <2>2, <2>3
<1> HIDE DEF S, rank
<1>6. ASSUME NEW x \in S, NEW f, NEW g,
             \A j \in 1 .. L : x[1] <= K => f[<<x[1] + 1, j>>] \in V /\ f[<<x[1] + 1, j>>] = g[<<x[1] + 1, j>>]
      PROVE  Step(x, f) \in V /\ Step(x, f) = Step(x, g)
  <2> DEFINE k == kids[x[1]]
             match == h[k].key = toks[x[2]]
             j == IF match THEN x[2] + 1 ELSE x[2]
             r == below[<<k, j>>]
  <2>1. CASE x[1] > K
    <3>1. Step(x, f) = [node |-> NoNode, i |-> x[2]] /\ Step(x, g) = [node |-> NoNode, i |-> x[2]]
      BY <2>1 DEF FromStep
    <3>2. x[2] \in 1 .. L + 1
      BY <1>1, <1>5
    <3>3. QED BY <1>2, <3>1, <3>2
  <2>2. CASE ~ (x[1] > K)
    <3>1. x[1] <= K /\ x[1] \in 1 .. K /\ x[2] \in 1 .. L
      BY <1>1, <1>5, <2>2
    <3>2. \A b : Step(x, b) = IF j > L THEN [node |-> k, i |-> j]
                              ELSE IF ~ recur THEN IF match THEN r ELSE b[<<x[1] + 1, j>>]
                              ELSE IF r.i > L THEN r ELSE b[<<x[1] + 1, r.i>>]
      BY <2>2 DEF FromStep
    <3>3. k \in ToSet(kids) /\ ToSet(kids) \in {ToSet(h[c].kids) : c \in 0 .. m}
      BY <1>1, <3>1
    <3>6. j \in 1 .. L + 1
      BY <1>1, <3>1
    <3> HIDE DEF k, match, j
    <3>4. CASE j > L
      <4>1. Step(x, f) = [node |-> k, i |-> j] /\ Step(x, g) = [node |-> k, i |-> j]
        BY <3>2, <3>4
      <4>2. QED BY <1>2, <3>3, <3>6, <4>1
    <3>5. CASE ~ (j > L)
      <4>1. j \in 1 .. L
        BY <1>1, <3>5, <3>6
      <4>2. r \in V
        BY <3>1, <4>1 DEF k, BelowKnown
      <4>3. r.i \in 1 .. L + 1
        BY <4>2 DEF Hits
      <4> HIDE DEF r, V
      <4>4. CASE ~ recur
        BY <1>6, <3>1, <3>2, <3>5, <4>1, <4>2, <4>4
      <4>5. CASE recur
        <5>1. CASE r.i > L
          BY <3>2, <3>5, <4>2, <4>5, <5>1
        <5>2. CASE ~ (r.i > L)
          <6>1. r.i \in 1 .. L
            BY <1>1, <4>3, <5>2
          <6>2. QED BY <1>6, <3>1, <3>2, <3>5, <4>5, <5>2, <6>1
        <5>3. QED BY <5>1, <5>2
      <4>6. QED BY <4>4, <4>5
    <3>7. QED BY <3>4, <3>5
  <2>3. QED BY <2>1, <2>2
<1> HIDE DEF Step, V
<1>7. ASSUME NEW x \in S, NEW f, \A y \in S : rank[y] < rank[x] => f[y] \in V
      PROVE  Step(x, f) \in V
  BY <1>5, <1>6, <1>7
<1>8. LooksBelow(F, S, V, rank) /\ \A x \in S : \A f \in [S -> V] : F[x][f] = Step(x, f)
  <2>1. /\ F \in [S -> [[S -> V] -> V]]
        /\ \A x \in S : \A f \in [S -> V] : F[x][f] = Step(x, f)
    BY <1>7
  <2>2. ASSUME NEW x \in S, NEW f \in [S -> V], NEW g \in [S -> V],
               \A y \in S : rank[y] < rank[x] => f[y] = g[y]
        PROVE  F[x][f] = F[x][g]
    <3>1. Step(x, f) = Step(x, g)
      BY <1>5, <1>6, <2>2
    <3>2. QED BY <2>1, <3>1
  <2> HIDE DEF F
  <2>3. QED BY <1>4, <2>1, <2>2 DEF LooksBelow
<1> HIDE DEF F, v0
<1>9. PICK f \in [S -> V] : \A x \in S : f[x] = F[x][f]
  BY <1>3, <1>8, RankedRecursion
<1>10. f = [x \in S |-> Step(x, f)]
  BY <1>8, <1>9
<1>11. from = [x \in S |-> Step(x, from)]
  BY <1>10
<1>12. \A i : Scan(h, toks, recur, below, n, i) = from[<<1, i>>]
  BY DEF Scan, from, S, Step, FromStep
<1> HIDE DEF from
<1> DEFINE T == {x \in S : from[x] \in V}
<1>13. ASSUME NEW x \in S, \A y \in S : rank[y] < rank[x] => y \in T PROVE x \in T
  <2>1. Step(x, from) \in V
    BY <1>7, <1>13
  <2>2. QED BY <1>11, <2>1
<1>14. S \subseteq T
  <2> HIDE DEF T
  <2>1. QED BY <1>4, <1>13, RankedInduction
<1>15. from \in [S -> V] /\ \A x \in S : from[x] = Step(x, from)
  <2>1. from = [x \in S |-> from[x]]
    BY <1>11
  <2>2. QED BY <1>11, <1>14, <2>1
<1>16. FromEquation(h, toks, recur, below, n, from)
  BY <1>12, <1>15 DEF S, Step, V, FromEquation
<1>17. QED BY <1>16

\* Two searches that agree on the members of n.
SameBelow(h, toks, below, other, n) ==
  \A q \in 1 .. Len(h[n].kids) : \A j \in 1 .. Len(toks) :
    other[<<h[n].kids[q], j>>] = below[<<h[n].kids[q], j>>]

\* Its result is one, the same whatever other nodes below holds.
LEMMA ScanResult ==
  ASSUME NEW h, NEW m, Descends(h, m), NEW toks, Len(toks) \in Nat, NEW recur \in BOOLEAN,
         NEW below, NEW n \in 0 .. m, BelowKnown(h, toks, below, n), NEW i \in 1 .. Len(toks)
  PROVE  /\ Scan(h, toks, recur, below, n, i) \in Hits(h, Len(toks))
         /\ \A other : SameBelow(h, toks, below, other, n) =>
              Scan(h, toks, recur, other, n, i) = Scan(h, toks, recur, below, n, i)
<1> DEFINE K == Len(h[n].kids)
           L == Len(toks)
           S == (1 .. K + 1) \X (1 .. L)
           V == Hits(h, L)
           rank == [x \in S |-> K + 1 - x[1]]
<1>1. K \in Nat /\ L \in Nat
  <2>1. h[n].kids \in Seq(0 .. m) /\ m \in Nat
    BY DEF Descends
  <2>2. QED BY <2>1
<1>2. PICK from \in [S -> V] :
        /\ \A x \in S : from[x] = FromStep(h, toks, recur, below, n, x, from)
        /\ \A k \in 1 .. L : Scan(h, toks, recur, below, n, k) = from[<<1, k>>]
  <2>1. PICK from : FromEquation(h, toks, recur, below, n, from)
    BY ScanEquation
  <2>2. QED BY <2>1 DEF FromEquation
<1>3. \A k \in 1 .. L : <<1, k>> \in S
  BY <1>1
<1>4. Scan(h, toks, recur, below, n, i) \in V
  BY <1>2, <1>3
<1>5. ASSUME NEW other, SameBelow(h, toks, below, other, n)
      PROVE  Scan(h, toks, recur, other, n, i) = Scan(h, toks, recur, below, n, i)
  <2>1. BelowKnown(h, toks, other, n)
    BY <1>5 DEF BelowKnown, SameBelow
  <2>2. PICK g \in [S -> V] :
          /\ \A x \in S : g[x] = FromStep(h, toks, recur, other, n, x, g)
          /\ \A k \in 1 .. L : Scan(h, toks, recur, other, n, k) = g[<<1, k>>]
    <3>1. PICK g : FromEquation(h, toks, recur, other, n, g)
      BY <2>1, ScanEquation
    <3>2. QED BY <3>1 DEF FromEquation
  <2> DEFINE T == {x \in S : from[x] = g[x]}
  <2>3. rank \in [S -> Nat] /\ \A x \in S : rank[x] = K + 1 - x[1]
    BY <1>1
  <2>4. ASSUME NEW x \in S, \A y \in S : rank[y] < rank[x] => y \in T PROVE x \in T
    <3> DEFINE k == h[n].kids[x[1]]
               match == h[k].key = toks[x[2]]
               j == IF match THEN x[2] + 1 ELSE x[2]
               r == below[<<k, j>>]
    <3>1. x[1] \in 1 .. K + 1 /\ x[2] \in 1 .. L
      OBVIOUS
    <3>2. CASE x[1] > K
      BY <1>2, <2>2, <3>2 DEF FromStep
    <3>3. CASE ~ (x[1] > K)
      <4>1. x[1] \in 1 .. K /\ x[1] + 1 \in 1 .. K + 1 /\ j \in 1 .. L + 1
        <5>1. x[1] \in 1 .. K /\ x[1] + 1 \in 1 .. K + 1
          BY <1>1, <3>1, <3>3
        <5>2. x[2] \in 1 .. L + 1 /\ x[2] + 1 \in 1 .. L + 1
          BY <1>1, <3>1
        <5>3. QED BY <5>1, <5>2
      <4>2. ASSUME NEW b \in 1 .. L PROVE from[<<x[1] + 1, b>>] = g[<<x[1] + 1, b>>]
        <5>1. <<x[1] + 1, b>> \in S /\ <<x[1] + 1, b>>[1] = x[1] + 1
          BY <4>1
        <5> HIDE DEF S, rank
        <5>2. rank[<<x[1] + 1, b>>] = K + 1 - (x[1] + 1) /\ rank[x] = K + 1 - x[1]
          BY <2>3, <5>1
        <5>3. rank[<<x[1] + 1, b>>] < rank[x]
          BY ONLY <1>1, <3>1, <5>2
        <5>4. <<x[1] + 1, b>> \in T
          BY <2>4, <5>1, <5>3
        <5>5. QED BY <5>4 DEF T
      <4>3. from[x] = IF j > L THEN [node |-> k, i |-> j]
                      ELSE IF ~ recur THEN IF match THEN r ELSE from[<<x[1] + 1, j>>]
                      ELSE IF r.i > L THEN r ELSE from[<<x[1] + 1, r.i>>]
        BY <1>2, <3>3 DEF FromStep
      <4>4. g[x] = IF j > L THEN [node |-> k, i |-> j]
                   ELSE IF ~ recur THEN IF match THEN other[<<k, j>>] ELSE g[<<x[1] + 1, j>>]
                   ELSE IF other[<<k, j>>].i > L THEN other[<<k, j>>] ELSE g[<<x[1] + 1, other[<<k, j>>].i>>]
        BY <2>2, <3>3 DEF FromStep
      <4> HIDE DEF match, S, rank, V, T
      <4>5. CASE j > L
        <5>1. from[x] = g[x]
          BY <4>3, <4>4, <4>5
        <5>2. QED BY <5>1 DEF T
      <4>6. CASE ~ (j > L)
        <5>1. j \in 1 .. L
          BY <1>1, <4>1, <4>6
        <5>2. other[<<k, j>>] = r /\ r \in V
          BY <1>5, <4>1, <5>1 DEF BelowKnown, SameBelow, V
        <5>3. r.i \in 1 .. L + 1
          BY <5>2 DEF Hits, V
        <5>4. ~ (r.i > L) => r.i \in 1 .. L
          BY <1>1, <5>3
        <5> HIDE DEF r, k, j
        <5>5. from[x] = g[x]
          BY <4>2, <4>3, <4>4, <4>6, <5>1, <5>2, <5>4
        <5>6. QED BY <5>5 DEF T
      <4>7. QED BY <4>5, <4>6
    <3>4. QED BY <3>2, <3>3
  <2> HIDE DEF rank, T, S
  <2>5. S \subseteq T
    BY <2>3, <2>4, RankedInduction
  <2>6. from[<<1, i>>] = g[<<1, i>>]
    BY <1>3, <2>5 DEF T
  <2>7. QED BY <1>2, <2>2, <2>6
<1>6. QED BY <1>4, <1>5

\* The search: find[<<n, i>>] is its result among the members of n from the i-th
\* token on.
FindEquation(h, m, toks, recur, find) ==
  /\ find \in [(0 .. m) \X (1 .. Len(toks)) -> Hits(h, Len(toks))]
  /\ \A n \in 0 .. m, i \in 1 .. Len(toks) :
       find[<<n, i>>] = Scan(h, toks, recur, find, n, i)

\* It is determined by its equation.
LEMMA SearchEquation ==
  ASSUME NEW h, NEW m, Descends(h, m), NEW toks, Len(toks) \in Nat, NEW recur \in BOOLEAN
  PROVE  FindEquation(h, m, toks, recur, Search(h, toks, recur))
<1> DEFINE L == Len(toks)
           S == (0 .. m) \X (1 .. L)
           V == Hits(h, L)
           v0 == [node |-> NoNode, i |-> 1]
           rank == [x \in S |-> m - x[1]]
           Step(x, f) == Scan(h, toks, recur, f, x[1], x[2])
           F == [x \in S |-> [f \in [S -> V] |-> Step(x, f)]]
           find[x \in (DOMAIN h) \X (1 .. L)] == Step(x, find)
<1>1. m \in Nat /\ L \in Nat /\ DOMAIN h = 0 .. m
  BY DEF Descends
<1>2. v0 \in V
  BY <1>1 DEF Hits
<1>3. rank \in [S -> Nat] /\ \A x \in S : rank[x] = m - x[1]
  BY <1>1
<1>4. ASSUME NEW x \in S
      PROVE  /\ x[1] \in 0 .. m /\ x[2] \in 1 .. L
             /\ \A q \in 1 .. Len(h[x[1]].kids) : \A j \in 1 .. L :
                  /\ <<h[x[1]].kids[q], j>> \in S
                  /\ rank[<<h[x[1]].kids[q], j>>] < rank[x]
  <2>1. x[1] \in 0 .. m /\ x[2] \in 1 .. L
    OBVIOUS
  <2>2. ASSUME NEW q \in 1 .. Len(h[x[1]].kids), NEW j \in 1 .. L
        PROVE  <<h[x[1]].kids[q], j>> \in S /\ rank[<<h[x[1]].kids[q], j>>] < rank[x]
    <3> DEFINE k == h[x[1]].kids[q]
    <3>1. h[x[1]].kids \in Seq(0 .. m) /\ x[1] < k
      BY <2>1 DEF Descends
    <3>2. k \in 0 .. m
      BY <1>1, <3>1
    <3> HIDE DEF k
    <3>3. <<k, j>> \in S /\ <<k, j>>[1] = k
      BY <3>2
    <3> HIDE DEF S, rank
    <3>4. rank[<<k, j>>] < rank[x]
      BY <1>1, <1>3, <2>1, <3>1, <3>2, <3>3
    <3>5. QED BY <3>3, <3>4 DEF k
  <2>3. QED BY <2>1, <2>2
<1> HIDE DEF S, rank
<1>5. ASSUME NEW x \in S, NEW f, \A y \in S : rank[y] < rank[x] => f[y] \in V
      PROVE  BelowKnown(h, toks, f, x[1]) /\ Step(x, f) \in V
  <2>1. BelowKnown(h, toks, f, x[1])
    BY <1>4, <1>5 DEF BelowKnown
  <2>2. QED BY <1>1, <1>4, <2>1, ScanResult
<1> HIDE DEF V
<1>6. LooksBelow(F, S, V, rank) /\ \A x \in S : \A f \in [S -> V] : F[x][f] = Step(x, f)
  <2>1. /\ F \in [S -> [[S -> V] -> V]]
        /\ \A x \in S : \A f \in [S -> V] : F[x][f] = Step(x, f)
    BY <1>5
  <2>2. ASSUME NEW x \in S, NEW f \in [S -> V], NEW g \in [S -> V],
               \A y \in S : rank[y] < rank[x] => f[y] = g[y]
        PROVE  F[x][f] = F[x][g]
    <3>1. BelowKnown(h, toks, f, x[1])
      BY <1>5
    <3>2. SameBelow(h, toks, f, g, x[1])
      BY <1>4, <2>2 DEF SameBelow
    <3>3. x[1] \in 0 .. m /\ x[2] \in 1 .. L
      BY <1>4
    <3>4. Step(x, g) = Step(x, f)
      <4> DEFINE n == x[1]
                 i == x[2]
      <4>1. n \in 0 .. m /\ i \in 1 .. Len(toks) /\ BelowKnown(h, toks, f, n) /\ SameBelow(h, toks, f, g, n)
        BY <3>1, <3>2, <3>3
      <4> HIDE DEF n, i
      <4>2. Scan(h, toks, recur, g, n, i) = Scan(h, toks, recur, f, n, i)
        BY <1>1, <4>1, ScanResult
      <4>3. QED BY <4>2 DEF n, i
    <3> HIDE DEF Step, F
    <3>5. QED BY <2>1, <3>4
  <2> HIDE DEF F
  <2>3. QED BY <1>3, <2>1, <2>2 DEF LooksBelow
<1> HIDE DEF F, v0
<1>7. PICK f \in [S -> V] : \A x \in S : f[x] = F[x][f]
  BY <1>2, <1>6, RankedRecursion
<1>8. f = [x \in S |-> Step(x, f)]
  <2> HIDE DEF Step
  <2>1. QED BY <1>6, <1>7
<1>9. find = [x \in S |-> Step(x, find)]
  BY <1>1, <1>8 DEF S
<1>10. Search(h, toks, recur) = find
  BY DEF Search
<1> HIDE DEF find
<1> DEFINE T == {x \in S : find[x] \in V}
<1>11. ASSUME NEW x \in S, \A y \in S : rank[y] < rank[x] => y \in T PROVE x \in T
  <2>1. Step(x, find) \in V
    BY <1>5, <1>11
  <2>2. QED BY <1>9, <2>1
<1>12. S \subseteq T
  <2> HIDE DEF T
  <2>1. QED BY <1>3, <1>11, RankedInduction
<1>13. find \in [S -> V]
  <2>1. find = [x \in S |-> find[x]]
    BY <1>9
  <2>2. QED BY <1>12, <2>1
<1>14. ASSUME NEW n \in 0 .. m, NEW i \in 1 .. L
       PROVE  find[<<n, i>>] = Scan(h, toks, recur, find, n, i)
  <2>1. <<n, i>> \in S /\ <<n, i>>[1] = n /\ <<n, i>>[2] = i
    BY DEF S
  <2>2. find[<<n, i>>] = Step(<<n, i>>, find)
    BY <1>9, <2>1
  <2>3. QED BY <2>1, <2>2
<1>15. QED BY <1>10, <1>13, <1>14 DEF S, V, FindEquation

\* json_node_find_node returns a member of a node, if any.
LEMMA FindInKids ==
  ASSUME NEW h, NEW m, Descends(h, m), NEW n \in 0 .. m, NEW N, NEW p \in Seq(N), Len(p) >= 1
  PROVE  FindIn(h, n, p) \in {NoNode} \cup UNION {ToSet(h[c].kids) : c \in DOMAIN h}
<1> DEFINE toks == Tokens(p)
           find == Search(h, toks, Recursive(p))
           L == Len(toks)
           M == {NoNode} \cup UNION {ToSet(h[c].kids) : c \in DOMAIN h}
<1>1. toks \in Seq(N) /\ L >= 1 /\ L \in Nat
  <2>1. Len(p) > 1 => Tail(p) \in Seq(N) /\ Len(Tail(p)) = Len(p) - 1
    OBVIOUS
  <2>2. QED BY <2>1 DEF Tokens, Recursive
<1>2. Recursive(p) \in BOOLEAN
  BY DEF Recursive
<1>3. FindIn(h, n, p) = find[<<n, 1>>].node
  BY DEF FindIn
<1> HIDE DEF toks
<1>4. find \in [(0 .. m) \X (1 .. L) -> Hits(h, L)]
  BY <1>1, <1>2, SearchEquation DEF FindEquation
<1>5. find[<<n, 1>>] \in Hits(h, L)
  <2>1. <<n, 1>> \in (0 .. m) \X (1 .. L)
    BY <1>1
  <2> HIDE DEF find
  <2>2. QED BY <1>4, <2>1
<1> HIDE DEF find, M
<1>6. find[<<n, 1>>].node \in M
  BY <1>5 DEF Hits, M
<1>7. QED BY <1>3, <1>6 DEF M

\* The q-th member of n is its first of the name k, or there is none.
FirstIs(h, n, k, q) ==
  /\ q \in 1 .. Len(h[n].kids) + 1
  /\ \A a \in 1 .. q - 1 : h[h[n].kids[a]].key # k
  /\ q <= Len(h[n].kids) => h[h[n].kids[q]].key = k

\* The results of a search that is not recursive, and how it goes on there.
Direct(h, toks, find) == find = Search(h, toks, FALSE)
GoesOn(h, toks, n, i, q, find) ==
  find[<<n, i>>] = IF q > Len(h[n].kids) THEN [node |-> NoNode, i |-> i]
                   ELSE IF i = Len(toks) THEN [node |-> h[n].kids[q], i |-> i + 1]
                   ELSE find[<<h[n].kids[q], i + 1>>]

\* It goes on below the first member of the name.
LEMMA PlainSearch ==
  ASSUME NEW h, NEW m, Descends(h, m), NEW toks, Len(toks) \in Nat,
         NEW n \in 0 .. m, NEW i \in 1 .. Len(toks), NEW q, FirstIs(h, n, toks[i], q),
         NEW find, Direct(h, toks, find)
  PROVE  GoesOn(h, toks, n, i, q, find)
<1> USE DEF Direct, GoesOn
<1> DEFINE K == Len(h[n].kids)
           L == Len(toks)
           S == (1 .. K + 1) \X (1 .. L)
<1>0. /\ q \in 1 .. Len(h[n].kids) + 1
      /\ \A a \in 1 .. q - 1 : h[h[n].kids[a]].key # toks[i]
      /\ q <= Len(h[n].kids) => h[h[n].kids[q]].key = toks[i]
  BY DEF FirstIs
<1>1. K \in Nat /\ L \in Nat /\ i \in 1 .. L /\ q \in 1 .. K + 1
  <2>1. h[n].kids \in Seq(0 .. m) /\ m \in Nat
    BY DEF Descends
  <2>2. QED BY <1>0, <2>1
<1>2. /\ find \in [(0 .. m) \X (1 .. L) -> Hits(h, L)]
      /\ find[<<n, i>>] = Scan(h, toks, FALSE, find, n, i)
  <2>1. \A recur \in BOOLEAN : FindEquation(h, m, toks, recur, Search(h, toks, recur))
    BY <1>1, SearchEquation
  <2>2. FindEquation(h, m, toks, FALSE, find)
    BY <2>1
  <2>3. QED BY <1>1, <2>2 DEF FindEquation
<1>3. BelowKnown(h, toks, find, n)
  <2>1. h[n].kids \in Seq(0 .. m) /\ m \in Nat
    BY DEF Descends
  <2>2. \A a \in 1 .. K : h[n].kids[a] \in 0 .. m
    BY ONLY <2>1, ElementOfSeq DEF K
  <2>3. ASSUME NEW a \in 1 .. K, NEW j \in 1 .. L PROVE find[<<h[n].kids[a], j>>] \in Hits(h, L)
    <3>1. <<h[n].kids[a], j>> \in (0 .. m) \X (1 .. L)
      BY <2>2
    <3>2. QED BY <1>2, <3>1
  <2>4. QED BY <2>3 DEF BelowKnown
<1>4. PICK from : FromEquation(h, toks, FALSE, find, n, from)
  BY <1>1, <1>3, ScanEquation
<1>5. \A a \in 1 .. K + 1 : from[<<a, i>>] = FromStep(h, toks, FALSE, find, n, <<a, i>>, from)
  BY <1>1, <1>4 DEF FromEquation
<1>6. find[<<n, i>>] = from[<<1, i>>]
  BY <1>2, <1>4 DEF FromEquation
<1> DEFINE T == {a \in 0 .. q - 1 : from[<<a + 1, i>>] = from[<<1, i>>]}
<1>7. q - 1 \in Nat /\ 0 \in T
  BY <1>1
<1>8. ASSUME NEW a \in 0 .. (q - 1) - 1, a \in T PROVE a + 1 \in T
  <2>1. /\ a + 1 \in 1 .. q - 1 /\ a + 1 \in 1 .. K + 1 /\ ~ (a + 1 > K) /\ ~ (i > L)
        /\ a + 1 \in 0 .. q - 1 /\ (a + 1) + 1 = a + 2
    BY <1>1
  <2>2. h[h[n].kids[a + 1]].key # toks[i]
    BY <1>0, <2>1
  <2>3. from[<<a + 1, i>>] = from[<<a + 2, i>>]
    <3>1. from[<<a + 1, i>>] = FromStep(h, toks, FALSE, find, n, <<a + 1, i>>, from)
      BY <1>5, <2>1
    <3>2. FromStep(h, toks, FALSE, find, n, <<a + 1, i>>, from) = from[<<(a + 1) + 1, i>>]
      BY <2>1, <2>2 DEF FromStep
    <3>3. QED BY <2>1, <3>1, <3>2
  <2>4. from[<<(a + 1) + 1, i>>] = from[<<1, i>>]
    BY <1>8, <2>1, <2>3
  <2>5. QED BY <2>1, <2>4
<1> HIDE DEF T
<1>9. q - 1 \in T
  <2>1. \A a \in 0 .. q - 1 : a \in T
    BY <1>7, <1>8, InductUpTo
  <2>2. QED BY <1>7, <2>1
<1>10. from[<<q, i>>] = from[<<1, i>>]
  <2>1. (q - 1) + 1 = q
    BY <1>1
  <2>2. QED BY <1>9, <2>1 DEF T
<1>11. from[<<q, i>>] = FromStep(h, toks, FALSE, find, n, <<q, i>>, from)
  BY <1>1, <1>5
<1>12. FromStep(h, toks, FALSE, find, n, <<q, i>>, from)
          = IF q > K THEN [node |-> NoNode, i |-> i]
            ELSE IF i = L THEN [node |-> h[n].kids[q], i |-> i + 1]
            ELSE find[<<h[n].kids[q], i + 1>>]
  <2>1. CASE q > K
    BY <2>1 DEF FromStep
  <2>2. CASE ~ (q > K)
    <3>1. h[h[n].kids[q]].key = toks[i] /\ (i + 1 > L <=> i = L)
      BY <1>0, <1>1, <2>2
    <3>2. QED BY <2>2, <3>1 DEF FromStep
  <2>3. QED BY <2>1, <2>2
<1>13. QED BY <1>6, <1>10, <1>11, <1>12
-----------------------------------------------------------------------------
(* The tree.                                                               *)

\* What a sequence holds.
LEMMA SetOfSeq ==
  ASSUME NEW C, NEW s \in Seq(C)
  PROVE  /\ ToSet(s) \subseteq C
         /\ \A c : c \in ToSet(s) <=> \E i \in 1 .. Len(s) : c = s[i]
<1>1. DOMAIN s = 1 .. Len(s) /\ \A i \in 1 .. Len(s) : s[i] \in C
  OBVIOUS
<1>2. QED BY <1>1 DEF ToSet

\* The nodes 0 .. t are a tree: each one but the root is a member of one that
\* was made before it.
Tree(h, t) ==
  /\ t \in Nat /\ 0 .. t \subseteq DOMAIN h
  /\ \A n \in 0 .. t : /\ h[n].kids \in Seq(0 .. t)
                       /\ \A i \in 1 .. Len(h[n].kids) : n < h[n].kids[i]
  /\ \A c \in 1 .. t : \E n \in 0 .. t : c \in ToSet(h[n].kids)

\* All its nodes are reached from the root.
LEMMA TreeIsReached ==
  ASSUME NEW h, NEW t, Tree(h, t), NEW m \in Nat, DOMAIN h = 0 .. m
  PROVE  Reached(h) = 0 .. t
<1> DEFINE D == Cardinality(DOMAIN h)
           V == SUBSET (0 .. t)
           Wider(s) == UNION {{n} \cup ToSet(h[n].kids) : n \in s}
           seen[d \in 0 .. D] == IF d = 0 THEN {Root} ELSE Wider(seen[d - 1])
           F == [d \in 1 .. D |-> [s \in V |-> Wider(s)]]
<1>1. D = m + 1 /\ D \in Nat /\ t \in Nat /\ t <= D /\ {Root} \in V
  <2>1. D = m + 1
    <3>1. Cardinality(0 .. m) = m + 1
      BY FS_Interval
    <3>2. QED BY <3>1
  <2>2. t \in Nat /\ t \in 0 .. m
    <3>1. t \in Nat /\ 0 .. t \subseteq 0 .. m
      BY DEF Tree
    <3>2. t \in 0 .. t
      BY <3>1
    <3>3. QED BY <3>1, <3>2
  <2>3. {Root} \in V
    BY <2>2 DEF Root
  <2> HIDE DEF D, V
  <2>4. QED BY <2>1, <2>2, <2>3
<1>2. \A n \in 0 .. t : ToSet(h[n].kids) \subseteq 0 .. t
  BY SetOfSeq DEF Tree
<1>3. \A s \in V : Wider(s) \in V
  BY <1>2
<1>4. /\ F \in [1 .. D -> [V -> V]]
      /\ \A d \in 1 .. D : \A s \in V : F[d][s] = Wider(s)
  BY <1>3
<1>5. Reached(h) = seen[D]
  BY DEF Reached
<1> HIDE DEF F, V, Wider, D
<1>6. PICK g \in [0 .. D -> V] : IsRecursive(g, D, {Root}, F)
  BY <1>1, <1>4, Recursion
<1>7. g = [d \in 0 .. D |-> IF d = 0 THEN {Root} ELSE Wider(g[d - 1])]
  <2>1. ASSUME NEW d \in 0 .. D PROVE g[d] = IF d = 0 THEN {Root} ELSE Wider(g[d - 1])
    <3>1. CASE d = 0
      BY <3>1, <1>6 DEF IsRecursive
    <3>2. CASE d # 0
      <4>1. d \in 1 .. D /\ d - 1 \in 0 .. D
        BY <1>1, <3>2
      <4>2. QED BY <1>4, <1>6, <4>1, <3>2 DEF IsRecursive
    <3>3. QED BY <3>1, <3>2
  <2>2. QED BY <2>1
<1>8. seen = [d \in 0 .. D |-> IF d = 0 THEN {Root} ELSE Wider(seen[d - 1])]
  BY <1>7
<1> HIDE DEF seen
<1>9. seen \in [0 .. D -> V] /\ IsRecursive(seen, D, {Root}, F)
  <2>1. seen = [d \in 0 .. D |-> seen[d]]
    BY <1>8
  <2>2. seen[0] = {Root}
    BY <1>1, <1>8
  <2>3. ASSUME NEW d \in 1 .. D, seen[d - 1] \in V PROVE seen[d] = F[d][seen[d - 1]]
    <3>1. d \in 0 .. D /\ d # 0
      OBVIOUS
    <3>2. QED BY <1>4, <1>8, <2>3, <3>1
  <2>4. D \in Nat /\ {Root} \in V /\ F \in [1 .. D -> [V -> V]]
    BY <1>1, <1>4
  <2>5. \A d \in 1 .. D : seen[d - 1] \in V => seen[d] = F[d][seen[d - 1]]
    BY <2>3
  <2>6. Computes(seen, D, V, {Root}, F)
    BY <2>1, <2>2, <2>5 DEF Computes
  <2>7. QED BY <2>4, <2>6, RecursionType
<1> DEFINE T == {d \in 0 .. D : \A c \in 0 .. t : c <= d => c \in seen[d]}
<1>10. 0 \in T
  <2>1. seen[0] = {0} /\ 0 \in 0 .. D
    BY <1>1, <1>9 DEF IsRecursive, Root
  <2>2. \A c \in 0 .. t : c <= 0 => c = 0
    OBVIOUS
  <2>3. QED BY <2>1, <2>2
<1>11. ASSUME NEW d \in 0 .. D - 1, d \in T PROVE d + 1 \in T
  <2>1. d + 1 \in 1 .. D /\ (d + 1) - 1 = d /\ d \in 0 .. D /\ d + 1 \in 0 .. D
    BY <1>1
  <2>2. seen[d + 1] = Wider(seen[d])
    <3>1. \A e \in 1 .. D : seen[e] = F[e][seen[e - 1]]
      BY <1>9 DEF IsRecursive
    <3>2. seen[d] \in V
      BY <1>9, <2>1
    <3>3. seen[d + 1] = F[d + 1][seen[d]]
      BY <2>1, <3>1
    <3>4. QED BY <1>4, <2>1, <3>2, <3>3
  <2>3. ASSUME NEW c \in 0 .. t, c <= d + 1 PROVE c \in seen[d + 1]
    <3>1. CASE c = 0
      <4>1. 0 \in seen[d]
        BY <1>1, <1>11, <2>1
      <4>2. 0 \in Wider(seen[d])
        BY <4>1 DEF Wider
      <4>3. QED BY <2>2, <3>1, <4>2
    <3>2. CASE c # 0
      <4>1. c \in 1 .. t
        BY <3>2
      <4>2. PICK n \in 0 .. t : c \in ToSet(h[n].kids)
        BY <4>1 DEF Tree
      <4>3. n < c
        <5>1. h[n].kids \in Seq(0 .. t) /\ \A i \in 1 .. Len(h[n].kids) : n < h[n].kids[i]
          BY DEF Tree
        <5>2. DOMAIN h[n].kids = 1 .. Len(h[n].kids)
          BY <5>1
        <5>3. PICK i \in DOMAIN h[n].kids : c = h[n].kids[i]
          BY <4>2 DEF ToSet
        <5>4. QED BY <5>1, <5>2, <5>3
      <4>4. n <= d
        BY <1>1, <2>1, <2>3, <4>3
      <4>5. n \in seen[d]
        BY <1>11, <4>4
      <4>6. c \in Wider(seen[d])
        BY <4>2, <4>5 DEF Wider
      <4>7. QED BY <2>2, <4>6
    <3>3. QED BY <3>1, <3>2
  <2>4. QED BY <2>1, <2>3
<1> HIDE DEF T
<1>12. \A d \in 0 .. D : d \in T
  BY <1>1, <1>10, <1>11, InductUpTo
<1>13. \A c \in 0 .. t : c \in seen[D]
  BY <1>1, <1>12 DEF T
<1>14. seen[D] \subseteq 0 .. t
  BY <1>1, <1>9 DEF V
<1>15. QED BY <1>5, <1>13, <1>14

-----------------------------------------------------------------------------
(* The text and the buffer.                                                *)

\* What a string may be made of.
Chars == Units \cup NumberChars \cup {Escape[u] : u \in DOMAIN Escape}

\* The contents of a buffer.
Contents(b) == [k \in 1 .. b.len |-> b.s[k - 1]]

\* While a value is read the buffer holds no more than has been taken from the
\* text, and no NUL.
TextInv ==
  /\ Buffer(scratch) /\ scratch.len <= Longest
  /\ text \in Seq(Units) /\ Len(text) <= Longest
  /\ pos \in 0 .. Len(text)
  /\ at # "parsed" => scratch.len <= pos /\ Contents(scratch) \in Seq(Chars)
  /\ at = "number" => scratch.len >= 1 /\ Contents(scratch) \in Seq(NumberChars)

\* Digits and letters are characters of a string, the NUL is not.
LEMMA CharsOfText ==
  /\ NumberChars \subseteq Chars /\ DOMAIN Digit \subseteq NumberChars /\ DOMAIN Digit \subseteq Chars
  /\ \A u \in Letters : u \in Chars /\ (u \in DOMAIN Escape => Escape[u] \in Chars)
  /\ NUL \notin Chars
<1>1. \A u \in Letters : u \in Units
  BY JsonAssumption
<1>2. NUL \notin Units
  BY JsonAssumption
<1>3. NUL \notin NumberChars /\ DOMAIN Digit \subseteq NumberChars
  BY DEF NUL, Digit, NumberChars
<1>4. \A u \in DOMAIN Escape : Escape[u] # NUL
  BY DEF Escape, NUL
<1>5. QED BY <1>1, <1>2, <1>3, <1>4 DEF Chars

\* The contents of a cleared buffer, and of one with another character.
LEMMA ClearContents ==
  ASSUME NEW b, Buffer(b), NEW C
  PROVE  Contents(Clear(b)) = <<>> /\ Contents(Clear(b)) \in Seq(C)
<1>1. Clear(b).len = 0
  BY ClearIsBuffer
<1>2. Contents(Clear(b)) = <<>>
  BY <1>1 DEF Contents
<1>3. QED BY <1>2

\* A character is put behind the contents.
LEMMA PutCharContents ==
  ASSUME NEW b, Buffer(b), b.len < Longest, NEW C, Contents(b) \in Seq(C), NEW c \in C
  PROVE  Contents(PutChar(b, c)) = Append(Contents(b), c) /\ Contents(PutChar(b, c)) \in Seq(C)
<1> DEFINE r == IF b.len >= b.size - 2 THEN Renew(b, b.len + 1) ELSE b
           t == [r.s EXCEPT ![b.len] = c, ![b.len + 1] = NUL]
           n == b.len
<1>1. n \in Nat /\ Longest \in Nat /\ b.size \in Nat /\ n < b.size /\ DOMAIN b.s = 0 .. b.size - 1
  BY DBufAssumption DEF Buffer, WellFormed
<1>2. PutChar(b, c) = [r EXCEPT !.s = t, !.len = n + 1]
  BY DEF PutChar
<1>3. r = Renew(b, n + 1) \/ (r = b /\ n + 1 < b.size)
  BY <1>1
<1>4. /\ DOMAIN r = {"s", "size", "len", "pos"}
      /\ r.size \in Nat /\ n + 1 < r.size
      /\ DOMAIN r.s = 0 .. r.size - 1
  <2> HIDE DEF r
  <2>1. QED BY <1>1, <1>3, RoomIsMade
<1>5. \A i \in 0 .. n - 1 : r.s[i] = b.s[i]
  <2>1. CASE r = b
    BY <2>1
  <2>2. CASE r = Renew(b, n + 1)
    <3>1. r.s = [i \in 0 .. PowerOf2(n + 1 + 1) - 1 |-> IF i < b.size THEN b.s[i] ELSE Junk]
      BY <2>2 DEF Renew, Buffer
    <3>2. DOMAIN r.s = 0 .. PowerOf2(n + 1 + 1) - 1
      BY <3>1
    <3> HIDE DEF r, n
    <3>3. \A i \in 0 .. n - 1 : i \in 0 .. r.size - 1 /\ i < b.size
      BY <1>1, <1>4
    <3>4. QED BY <1>4, <3>1, <3>2, <3>3
  <2>3. QED BY <1>3, <2>1, <2>2
<1> HIDE DEF r
<1>6. /\ PutChar(b, c).s = t /\ PutChar(b, c).len = n + 1
  BY <1>2, <1>4
<1>7. t[n] = c /\ \A i \in 0 .. n - 1 : t[i] = b.s[i]
  BY <1>1, <1>4, <1>5
<1> HIDE DEF t
<1> DEFINE old == Contents(b)
           new == Contents(PutChar(b, c))
<1>8. old = [k \in 1 .. n |-> b.s[k - 1]] /\ Len(old) = n /\ old \in Seq(C)
  BY <1>1 DEF Contents
<1>9. new = [k \in 1 .. n + 1 |-> t[k - 1]]
  BY <1>6 DEF Contents
<1> HIDE DEF old, new, n
<1>10. /\ Append(old, c) \in Seq(C) /\ Len(Append(old, c)) = n + 1
       /\ \A k \in 1 .. n : Append(old, c)[k] = old[k]
       /\ Append(old, c)[n + 1] = c
  <2>1. old \in Seq(C) /\ Len(old) = n
    BY <1>8
  <2>2. QED BY <2>1, AppendProperties
<1>11. \A k \in 1 .. n + 1 : t[k - 1] = Append(old, c)[k] /\ t[k - 1] \in C
  <2>1. ASSUME NEW k \in 1 .. n + 1 PROVE t[k - 1] = Append(old, c)[k] /\ t[k - 1] \in C
    <3>1. CASE k = n + 1
      <4>1. (n + 1) - 1 = n
        BY <1>1 DEF n
      <4>2. QED BY <1>7, <1>10, <3>1, <4>1
    <3>2. CASE k # n + 1
      <4>1. k \in 1 .. n /\ k - 1 \in 0 .. n - 1
        BY <1>1, <3>2 DEF n
      <4>2. t[k - 1] = b.s[k - 1] /\ old[k] = b.s[k - 1] /\ old[k] \in C
        <5>1. n \in Nat
          BY <1>1 DEF n
        <5>2. old[k] = b.s[k - 1]
          BY <1>8, <4>1
        <5>3. old[k] \in C
          BY <1>8, <4>1, <5>1
        <5>4. QED BY <1>7, <4>1, <5>2, <5>3
      <4>3. QED BY <1>10, <4>1, <4>2
    <3>3. QED BY <3>1, <3>2
  <2>2. QED BY <2>1
<1>12. new = Append(old, c)
  <2>1. n + 1 \in Nat
    BY <1>1 DEF n
  <2>2. new \in Seq(C) /\ Len(new) = n + 1
    BY <1>9, <1>11, <2>1
  <2>3. \A k \in 1 .. n + 1 : new[k] = Append(old, c)[k]
    BY <1>9, <1>11
  <2>4. QED BY <1>10, <2>2, <2>3, SeqEqual
<1>13. QED BY <1>10, <1>12 DEF old, new

\* A C function finds the contents, if there is no NUL in them.
LEMMA CStringIsContents ==
  ASSUME NEW b, Buffer(b), Contents(b) \in Seq(Chars)
  PROVE  CString(b) = Contents(b)
<1> DEFINE ends == {i \in DOMAIN b.s : b.s[i] = NUL}
           n == CHOOSE i \in ends : \A j \in ends : i <= j
<1>1. b.len \in Nat /\ b.size \in Nat /\ b.len < b.size /\ DOMAIN b.s = 0 .. b.size - 1 /\ b.s[b.len] = NUL
  BY DEF Buffer, WellFormed
<1>2. b.len \in ends
  BY <1>1
<1>3. \A j \in ends : b.len <= j
  <2> SUFFICES ASSUME NEW j \in ends, j < b.len PROVE FALSE
    BY <1>1
  <2>1. j \in Nat /\ j + 1 \in 1 .. b.len /\ (j + 1) - 1 = j
    BY <1>1
  <2>2. Contents(b)[j + 1] = b.s[j] /\ Len(Contents(b)) = b.len
    BY <1>1, <2>1 DEF Contents
  <2>3. Contents(b)[j + 1] \in Chars
    BY <2>1, <2>2
  <2>4. QED BY <2>2, <2>3, CharsOfText
<1>4. n \in ends /\ \A j \in ends : n <= j
  BY <1>2, <1>3
<1>5. n = b.len
  BY <1>1, <1>2, <1>3, <1>4
<1>6. QED BY <1>5 DEF CString, Contents

\* Every text that is tried is one of Units and short enough.
LEMMA TextGrows ==
  ASSUME TextInv, NEW u \in Offered, Chosen(u)
  PROVE  text' \in Seq(Units) /\ Len(text') <= Longest /\ pos + 1 \in 0 .. Len(text')
<1>1. /\ text \in Seq(Units) /\ Len(text) \in Nat /\ Len(text) <= Longest
      /\ pos \in 0 .. Len(text) /\ Longest \in Nat
  BY DBufAssumption DEF TextInv
<1>2. CASE pos < Len(text)
  BY <1>1, <1>2 DEF Chosen
<1>3. CASE ~ (pos < Len(text))
  <2>1. text' = Append(text, u) /\ pos = Len(text)
    BY <1>1, <1>3 DEF Chosen
  <2>2. u \in Units /\ Len(text) < Longest
    <3>1. CASE u \in FreeUnits /\ Len(text) < FreeLength
      <4>1. FreeUnits \subseteq Units /\ FreeLength \in Nat /\ FreeLength <= Longest
        BY JsonAssumption
      <4>2. u \in Units
        BY <3>1, <4>1
      <4>3. Len(text) < Longest
        BY <1>1, <3>1, <4>1
      <4>4. QED BY <4>2, <4>3
    <3>2. ASSUME NEW s \in Scripts, Len(text) < Len(s), u = s[Len(text) + 1]
          PROVE  u \in Units /\ Len(text) < Longest
      <4>1. s \in Seq(Units) /\ Len(s) <= Longest
        BY JsonAssumption
      <4>2. Len(text) + 1 \in 1 .. Len(s)
        BY <1>1, <3>2, <4>1
      <4>3. QED BY <1>1, <3>2, <4>1, <4>2
    <3>3. QED BY <1>3, <3>1, <3>2 DEF Offered
  <2>3. text' \in Seq(Units) /\ Len(text') = Len(text) + 1
    BY <1>1, <2>1, <2>2
  <2>4. QED BY <1>1, <2>1, <2>2, <2>3
<1>4. QED BY <1>2, <1>3

\* What a step of the reader does to text and buffer: at most one character is
\* stored for each unit that is taken.
ReadEffect ==
  /\ at # "parsed"
  /\ \/ UNCHANGED <<scratch, text, pos>> /\ at' # "number"
     \/ \E u \in Offered :
          /\ Chosen(u)
          /\ \/ scratch' \in {scratch, Clear(scratch)} /\ pos' \in {pos, pos + 1} /\ at' # "number"
             \/ /\ \E c \in Chars : scratch' = PutChar(scratch, c)
                /\ pos' = pos + 1 /\ at' # "number"
             \/ /\ \E c \in NumberChars : \/ scratch' = PutChar(Clear(scratch), c)
                                          \/ at = "number" /\ scratch' = PutChar(scratch, c)
                /\ pos' = pos + 1 /\ at' = "number"

\* A value that is complete is followed by others or by nothing.
LEMMA DoneAt == ASSUME NEW fs, ValueDone(fs) PROVE at' \in {"parsed", "after"}
  BY DEF ValueDone

\* Every return of the parser does one of these to the buffer.
LEMMA ReadHasEffect == ASSUME Read PROVE ReadEffect
<1>1. CASE TextEnds
  BY <1>1 DEF TextEnds, EndOfText, ReadEffect, Skipping
<1>2. ASSUME NEW u \in Offered, ReadUnit(u) PROVE ReadEffect
  <2> USE DEF Take, Peek
  <2>1. CASE SkipSpace(u)     BY <2>1 DEF SkipSpace, ReadEffect, Skipping
  <2>2. CASE ReadLiteral(u)   BY <2>2, DoneAt DEF ReadLiteral, ReadEffect
  <2>3. CASE NumberBegins(u)  BY <2>3, CharsOfText DEF NumberBegins, NumberChars, ReadEffect
  <2>4. CASE NumberGoesOn(u)  BY <2>4 DEF NumberGoesOn, ReadEffect
  <2>5. CASE NumberEnds(u)    BY <2>5, DoneAt DEF NumberEnds, ReadEffect
  <2>6. CASE StringBegins(u)  BY <2>6 DEF StringBegins, ReadEffect
  <2>7. CASE StringGoesOn(u)
    <3>1. \E c \in Chars : scratch' = PutChar(scratch, c)
      BY <2>7, CharsOfText DEF StringGoesOn
    <3>2. QED BY <2>7, <3>1 DEF StringGoesOn, ReadEffect
  <2>8. CASE BadString(u) \/ BadNumber(u)
    BY <2>8 DEF BadString, BadNumber, Fail, ReadEffect
  <2>9. CASE StringEnds(u)    BY <2>9, DoneAt DEF StringEnds, ReadEffect
  <2>10. CASE OpenArray(u)    BY <2>10 DEF OpenArray, Open, ReadEffect
  <2>11. CASE OpenObject(u)   BY <2>11 DEF OpenObject, Open, ReadEffect
  <2>12. CASE FirstElement(u) BY <2>12 DEF FirstElement, Element, ReadEffect
  <2>13. CASE NextElement(u)  BY <2>13 DEF NextElement, Element, ReadEffect
  <2>14. CASE FirstKey(u)     BY <2>14 DEF FirstKey, ReadEffect
  <2>15. CASE NextKey(u)      BY <2>15 DEF NextKey, ReadEffect
  <2>16. CASE KeyBegins(u)    BY <2>16 DEF KeyBegins, ReadEffect
  <2>17. CASE KeyEnds(u)      BY <2>17 DEF KeyEnds, ReadEffect
  <2>18. CASE ReadColon(u)    BY <2>18 DEF ReadColon, ReadEffect
  <2>19. CASE Close(u)        BY <2>19, DoneAt DEF Close, ReadEffect
  <2>20. CASE Unexpected(u)   BY <2>20 DEF Unexpected, Fail, ReadEffect, Skipping
  <2>21. QED
    BY <1>2, <2>1, <2>2, <2>3, <2>4, <2>5, <2>6, <2>7, <2>8, <2>9, <2>10, <2>11, <2>12,
       <2>13, <2>14, <2>15, <2>16, <2>17, <2>18, <2>19, <2>20 DEF ReadUnit
<1>3. QED BY <1>1, <1>2 DEF Read

\* Reading keeps the text and the buffer in order.
LEMMA TextStep == ASSUME TextInv, Read PROVE TextInv'
<1>1. ReadEffect
  BY ReadHasEffect
<1>2. /\ Buffer(scratch) /\ scratch.len \in Nat /\ scratch.len <= pos /\ pos \in Nat
      /\ Contents(scratch) \in Seq(Chars) /\ Longest \in Nat
  BY <1>1, DBufAssumption DEF TextInv, Buffer, WellFormed, ReadEffect
<1>3. CASE UNCHANGED <<scratch, text, pos>> /\ at' # "number"
  <2>1. UNCHANGED Contents(scratch) /\ UNCHANGED Buffer(scratch)
    BY <1>3
  <2>2. QED BY <1>2, <1>3, <2>1 DEF TextInv
<1>4. ASSUME NEW u \in Offered, Chosen(u), pos' \in {pos, pos + 1}
      PROVE  /\ text' \in Seq(Units) /\ Len(text') <= Longest /\ Len(text') \in Nat
             /\ pos' \in 0 .. Len(text')
  <2>1. text' \in Seq(Units) /\ Len(text') <= Longest /\ pos + 1 \in 0 .. Len(text')
    BY <1>4, TextGrows
  <2>2. Len(text') \in Nat
    BY <2>1
  <2>3. QED BY <1>2, <1>4, <2>1, <2>2
<1>5. Buffer(Clear(scratch)) /\ Clear(scratch).len = 0 /\ \A C : Contents(Clear(scratch)) \in Seq(C)
  BY <1>2, ClearIsBuffer, ClearContents
<1>6. ASSUME NEW u \in Offered, Chosen(u), scratch' \in {scratch, Clear(scratch)},
             pos' \in {pos, pos + 1}, at' # "number"
      PROVE  TextInv'
  <2>1. Buffer(scratch)' /\ scratch'.len <= pos' /\ scratch'.len \in Nat
    BY <1>2, <1>5, <1>6
  <2>2. Contents(scratch)' \in Seq(Chars)
    <3>1. CASE scratch' = scratch
      BY <1>2, <3>1
    <3>2. CASE scratch' = Clear(scratch)
      BY <1>5, <3>2
    <3>3. QED BY <1>6, <3>1, <3>2
  <2>3. scratch'.len <= Longest
    BY <1>2, <1>4, <1>6, <2>1
  <2>4. QED BY <1>4, <1>6, <2>1, <2>2, <2>3 DEF TextInv
<1>7. ASSUME NEW u \in Offered, Chosen(u), pos' = pos + 1, NEW b, Buffer(b), b.len \in Nat,
             b.len <= pos, NEW C, Contents(b) \in Seq(C), NEW c \in C, scratch' = PutChar(b, c)
      PROVE  /\ Buffer(scratch)' /\ scratch'.len <= Longest /\ scratch'.len <= pos'
             /\ scratch'.len >= 1 /\ Contents(scratch)' \in Seq(C)
  <2>1. b.len < Longest
    BY <1>2, <1>4, <1>7
  <2>2. Buffer(PutChar(b, c)) /\ PutChar(b, c).len = b.len + 1
    BY <1>7, <2>1, PutCharIsBuffer
  <2>3. Contents(PutChar(b, c)) \in Seq(C)
    BY <1>7, <2>1, PutCharContents
  <2>4. QED BY <1>2, <1>7, <2>1, <2>2, <2>3
<1>8. ASSUME NEW u \in Offered, Chosen(u), pos' = pos + 1, at' # "number",
             NEW c \in Chars, scratch' = PutChar(scratch, c)
      PROVE  TextInv'
  <2>1. /\ Buffer(scratch)' /\ scratch'.len <= Longest /\ scratch'.len <= pos'
        /\ Contents(scratch)' \in Seq(Chars)
    <3>1. Buffer(scratch) /\ scratch.len \in Nat /\ scratch.len <= pos /\ Contents(scratch) \in Seq(Chars)
      BY <1>2
    <3>2. Chosen(u) /\ pos' = pos + 1 /\ scratch' = PutChar(scratch, c) /\ c \in Chars
      BY <1>8
    <3>3. QED BY <1>7, <3>1, <3>2
  <2>2. QED BY <1>4, <1>8, <2>1 DEF TextInv
<1>9. ASSUME NEW u \in Offered, Chosen(u), pos' = pos + 1, NEW c \in NumberChars,
             \/ scratch' = PutChar(Clear(scratch), c)
             \/ at = "number" /\ scratch' = PutChar(scratch, c)
      PROVE  TextInv'
  <2>1. /\ Buffer(scratch)' /\ scratch'.len <= Longest /\ scratch'.len <= pos'
        /\ scratch'.len >= 1 /\ Contents(scratch)' \in Seq(NumberChars)
    <3>1. CASE scratch' = PutChar(Clear(scratch), c)
      <4>1. 0 \in Nat /\ 0 <= pos
        BY <1>2
      <4>2. Clear(scratch).len \in Nat /\ Clear(scratch).len <= pos
        BY <1>5, <4>1
      <4>3. QED BY <1>5, <1>7, <1>9, <3>1, <4>2
    <3>2. CASE at = "number" /\ scratch' = PutChar(scratch, c)
      <4>1. Contents(scratch) \in Seq(NumberChars)
        BY <3>2 DEF TextInv
      <4>2. QED BY <1>2, <1>7, <1>9, <3>2, <4>1
    <3>3. QED BY <1>9, <3>1, <3>2
  <2>2. Contents(scratch)' \in Seq(Chars)
    BY <2>1, CharsOfText, SeqMonotonic
  <2>3. QED BY <1>4, <1>9, <2>1, <2>2 DEF TextInv
<1>10. QED BY <1>1, <1>3, <1>6, <1>8, <1>9 DEF ReadEffect

\* There is no text to be read yet.
LEMMA TextInit == ASSUME scratch = NewBuf(ScratchSize), text = <<>>, pos = 0, at = "value" PROVE TextInv
<1>1. ScratchSize \in 1 .. Longest /\ Longest \in Nat
  BY JsonAssumption, DBufAssumption
<1>2. Buffer(scratch) /\ scratch.len = 0
  BY <1>1, NewBufIsBuffer
<1>3. Contents(scratch) \in Seq(Chars)
  BY <1>2 DEF Contents
<1>4. QED BY <1>1, <1>2, <1>3 DEF TextInv

-----------------------------------------------------------------------------
(* The nodes.                                                              *)

Types == Literal \cup {"undef", "number", "string", "array", "object"}

Record == [key : Seq(Chars), type : Types, num : Number, str : Seq(Chars), kids : Seq(Nat)]

\* A new node is one.
LEMMA NewNodeIsRecord ==
  ASSUME NEW k \in Seq(Chars)
  PROVE  NewNode(k) \in Record /\ NewNode(k).kids = <<>> /\ NewNode(k).key = k /\ NewNode(k).type = "undef"
  BY NumberTypes DEF NewNode, Record, Types

\* A node is set to a value: it keeps its name and its members.
Sets(h, i, g) ==
  \E r \in Record : r.kids = h[i].kids /\ r.key = h[i].key /\ g = [h EXCEPT ![i] = r]

\* null, false, true and the brackets set a node to their type.
LEMMA SetTypeSets ==
  ASSUME NEW m, NEW h \in [0 .. m -> Record], NEW i \in 0 .. m, NEW y \in Types
  PROVE  Sets(h, i, SetType(h, i, y)) /\ SetType(h, i, y)[i].type = y
<1> DEFINE r == [h[i] EXCEPT !.type = y, !.num = IF y = "true" THEN One ELSE Zero]
<1>1. h[i] \in Record /\ DOMAIN h = 0 .. m
  OBVIOUS
<1>2. r \in Record /\ r.kids = h[i].kids /\ r.key = h[i].key /\ r.type = y
  BY <1>1, NumberTypes DEF Record
<1>3. SetType(h, i, y) = [h EXCEPT ![i] = r]
  BY DEF SetType
<1> HIDE DEF r
<1>4. QED BY <1>1, <1>2, <1>3 DEF Sets

\* A number sets a node; one that has another type keeps its value.
LEMMA SetNumberSets ==
  ASSUME NEW m, NEW h \in [0 .. m -> Record], NEW i \in 0 .. m, NEW v \in Number
  PROVE  /\ Sets(h, i, SetNumber(h, i, v))
         /\ h[i].type = "undef" => SetNumber(h, i, v)[i].type = "number" /\ SetNumber(h, i, v)[i].num = v
<1> DEFINE r == [h[i] EXCEPT !.type = "number", !.num = v]
<1>1. h[i] \in Record /\ DOMAIN h = 0 .. m
  OBVIOUS
<1>2. r \in Record /\ r.kids = h[i].kids /\ r.key = h[i].key /\ r.type = "number" /\ r.num = v
  BY <1>1 DEF Record, Types
<1>3. SetNumber(h, i, v) = IF h[i].type \in {"undef", "number"} THEN [h EXCEPT ![i] = r] ELSE h
  BY DEF SetNumber
<1>4. h = [h EXCEPT ![i] = h[i]]
  OBVIOUS
<1> HIDE DEF r
<1>5. QED BY <1>1, <1>2, <1>3, <1>4 DEF Sets

\* So does a string.
LEMMA SetStringSets ==
  ASSUME NEW m, NEW h \in [0 .. m -> Record], NEW i \in 0 .. m, NEW s \in Seq(Chars)
  PROVE  /\ Sets(h, i, SetString(h, i, s))
         /\ h[i].type = "undef" => SetString(h, i, s)[i].type = "string" /\ SetString(h, i, s)[i].str = s
<1> DEFINE r == [h[i] EXCEPT !.type = "string", !.str = s]
<1>1. h[i] \in Record /\ DOMAIN h = 0 .. m
  OBVIOUS
<1>2. r \in Record /\ r.kids = h[i].kids /\ r.key = h[i].key /\ r.type = "string" /\ r.str = s
  BY <1>1 DEF Record, Types
<1>3. SetString(h, i, s) = IF h[i].type \in {"undef", "string"} THEN [h EXCEPT ![i] = r] ELSE h
  BY DEF SetString
<1>4. h = [h EXCEPT ![i] = h[i]]
  OBVIOUS
<1> HIDE DEF r
<1>5. QED BY <1>1, <1>2, <1>3, <1>4 DEF Sets

\* The tree does not depend on values.
LEMMA SetsKeepTree ==
  ASSUME NEW m, NEW h \in [0 .. m -> Record], NEW t, Tree(h, t), NEW i \in 0 .. t, NEW g, Sets(h, i, g)
  PROVE  g \in [0 .. m -> Record] /\ Tree(g, t) /\ \A n \in 0 .. m : g[n].kids = h[n].kids /\ g[n].key = h[n].key
<1>1. PICK r \in Record : r.kids = h[i].kids /\ r.key = h[i].key /\ g = [h EXCEPT ![i] = r]
  BY DEF Sets
<1>2. g \in [0 .. m -> Record]
  BY <1>1
<1>3. \A n \in 0 .. m : g[n].kids = h[n].kids /\ g[n].key = h[n].key
  BY <1>1
<1>4. DOMAIN g = 0 .. m /\ DOMAIN h = 0 .. m
  BY <1>2
<1>5. Tree(g, t)
  BY <1>3, <1>4 DEF Tree
<1>6. QED BY <1>2, <1>3, <1>5

\* The nodes 0 .. t, with or without one behind them.
OneMore(h, t) == h \in [0 .. t -> Record] \/ h \in [0 .. t + 1 -> Record]

\* A node that is added, and becomes the last member of i.
LEMMA WithRecord ==
  ASSUME NEW t \in Nat, NEW r \in Record, NEW h, OneMore(h, t)
  PROVE  /\ With(h, t + 1, r) \in [0 .. t + 1 -> Record]
         /\ With(h, t + 1, r)[t + 1] = r
         /\ \A n \in 0 .. t : With(h, t + 1, r)[n] = h[n]
<1>1. DOMAIN h \cup {t + 1} = 0 .. t + 1 /\ \A n \in 0 .. t : n \in 0 .. t + 1 /\ n # t + 1
  BY DEF OneMore
<1>2. With(h, t + 1, r) = [j \in 0 .. t + 1 |-> IF j = t + 1 THEN r ELSE h[j]]
  BY <1>1 DEF With
<1>3. \A j \in 0 .. t + 1 : j # t + 1 => j \in DOMAIN h /\ h[j] \in Record
  BY DEF OneMore
<1>4. QED BY <1>1, <1>2, <1>3

\* A node beside the tree does not change it.
LEMMA WithKeepsTree ==
  ASSUME NEW t, NEW h, Tree(h, t), NEW g, \A n \in 0 .. t : g[n] = h[n], 0 .. t \subseteq DOMAIN g
  PROVE  Tree(g, t)
  BY DEF Tree

\* The node t + 1 joins the tree as the last member of i.
KidAppended(h, g, i, t) ==
  /\ g[i] = [h[i] EXCEPT !.kids = Append(h[i].kids, t + 1)]
  /\ \A n \in 0 .. t + 1 : n # i => g[n] = h[n]

\* The tree has one node more.
LEMMA AddKidTree ==
  ASSUME NEW t, NEW h \in [0 .. t + 1 -> Record], Tree(h, t), h[t + 1].kids = <<>>, NEW i \in 0 .. t,
         NEW g, g = AddKid(h, i, t + 1)
  PROVE  /\ g \in [0 .. t + 1 -> Record]
         /\ Tree(g, t + 1)
         /\ KidAppended(h, g, i, t)
<1> DEFINE r == [h[i] EXCEPT !.kids = Append(h[i].kids, t + 1)]
<1>1. t \in Nat /\ i \in 0 .. t + 1 /\ DOMAIN h = 0 .. t + 1
  BY DEF Tree
<1>2. h[i] \in Record /\ h[i].kids \in Seq(Nat) /\ t + 1 \in Nat
  BY <1>1 DEF Record
<1>3. r \in Record /\ r.kids = Append(h[i].kids, t + 1)
  <2> DEFINE s == Append(h[i].kids, t + 1)
  <2>1. s \in Seq(Nat)
    BY <1>2, AppendProperties
  <2> HIDE DEF s
  <2>2. [h[i] EXCEPT !.kids = s] \in Record /\ [h[i] EXCEPT !.kids = s].kids = s
    BY <1>2, <2>1 DEF Record
  <2>3. QED BY <2>2 DEF s
<1>4. g = [h EXCEPT ![i] = r]
  BY <1>1 DEF AddKid
<1> HIDE DEF r
<1>5. g \in [0 .. t + 1 -> Record] /\ g[i] = r /\ \A n \in 0 .. t + 1 : n # i => g[n] = h[n]
  BY <1>1, <1>3, <1>4
<1>6. \A n \in 0 .. t : h[n].kids \in Seq(0 .. t) /\ \A q \in 1 .. Len(h[n].kids) : n < h[n].kids[q]
  BY DEF Tree
<1>7. 0 .. t \subseteq 0 .. t + 1 /\ t + 1 \in 0 .. t + 1
  BY <1>1
<1>8. ASSUME NEW n \in 0 .. t + 1
      PROVE  g[n].kids \in Seq(0 .. t + 1) /\ \A q \in 1 .. Len(g[n].kids) : n < g[n].kids[q]
  <2>1. CASE n = i
    <3>1. h[i].kids \in Seq(0 .. t) /\ \A q \in 1 .. Len(h[i].kids) : i < h[i].kids[q]
      BY <1>6
    <3>2. h[i].kids \in Seq(0 .. t + 1)
      BY <1>7, <3>1, SeqMonotonic
    <3> DEFINE s == h[i].kids
    <3> HIDE DEF s
    <3>3. /\ Append(s, t + 1) \in Seq(0 .. t + 1) /\ Len(Append(s, t + 1)) = Len(s) + 1 /\ Len(s) \in Nat
          /\ \A q \in 1 .. Len(s) : Append(s, t + 1)[q] = s[q]
          /\ Append(s, t + 1)[Len(s) + 1] = t + 1
      BY <1>7, <3>2 DEF s
    <3>4. i < t + 1
      BY <1>1
    <3>5. ASSUME NEW q \in 1 .. Len(s) + 1 PROVE i < Append(s, t + 1)[q]
      <4>1. CASE q = Len(s) + 1
        BY <3>3, <3>4, <4>1
      <4>2. CASE q # Len(s) + 1
        <5>1. q \in 1 .. Len(s)
          BY <3>3, <4>2
        <5>2. i < s[q]
          BY <3>1, <5>1 DEF s
        <5>3. QED BY <3>3, <5>1, <5>2
      <4>3. QED BY <4>1, <4>2
    <3>6. QED BY <1>3, <1>5, <2>1, <3>3, <3>5 DEF s
  <2>2. CASE n # i /\ n \in 0 .. t
    BY <1>5, <1>6, <1>7, <2>2, SeqMonotonic
  <2>3. CASE n # i /\ n = t + 1
    <3>1. g[n].kids = <<>>
      BY <1>5, <2>3
    <3>2. g[n].kids \in Seq(0 .. t + 1) /\ Len(g[n].kids) = 0
      BY <3>1, EmptySeq
    <3>3. QED BY <3>2
  <2>4. QED BY <1>1, <2>1, <2>2, <2>3
<1>9. ASSUME NEW c \in 1 .. t + 1 PROVE \E n \in 0 .. t + 1 : c \in ToSet(g[n].kids)
  <2>0. \A n \in 0 .. t + 1 : g[n].kids \in Seq(0 .. t + 1)
    BY <1>8
  <2>1. i \in 0 .. t + 1 /\ h[i].kids \in Seq(0 .. t) /\ g[i].kids = Append(h[i].kids, t + 1)
    BY <1>1, <1>3, <1>5, <1>6
  <2> DEFINE s == h[i].kids
  <2> HIDE DEF s
  <2>2. s \in Seq(0 .. t) /\ g[i].kids = Append(s, t + 1)
    BY <2>1 DEF s
  <2>3. /\ Len(g[i].kids) = Len(s) + 1 /\ Len(s) \in Nat
        /\ \A q \in 1 .. Len(s) : g[i].kids[q] = s[q]
        /\ g[i].kids[Len(s) + 1] = t + 1
    BY <2>2
  <2>4. CASE c = t + 1
    <3>1. Len(s) + 1 \in 1 .. Len(g[i].kids)
      BY <2>3
    <3>2. c \in ToSet(g[i].kids)
      BY <2>0, <2>1, <2>3, <2>4, <3>1, SetOfSeq
    <3>3. QED BY <2>1, <3>2
  <2>5. CASE c # t + 1
    <3>1. c \in 1 .. t
      BY <1>1, <2>5
    <3>2. PICK n \in 0 .. t : c \in ToSet(h[n].kids)
      BY <3>1 DEF Tree
    <3>3. CASE n # i
      BY <1>5, <1>7, <3>2, <3>3
    <3>4. CASE n = i
      <4>1. PICK q \in 1 .. Len(s) : c = s[q]
        BY <2>2, <3>2, <3>4, SetOfSeq DEF s
      <4>2. q \in 1 .. Len(g[i].kids) /\ c = g[i].kids[q]
        BY <2>3, <4>1
      <4>3. c \in ToSet(g[i].kids)
        <5>1. g[i].kids \in Seq(0 .. t + 1)
          BY <2>0, <2>1
        <5>2. QED BY <4>2, <5>1, SetOfSeq
      <4>4. QED BY <2>1, <4>3
    <3>5. QED BY <3>3, <3>4
  <2>6. QED BY <2>4, <2>5
<1>10. t + 1 \in Nat /\ 0 .. t + 1 \subseteq DOMAIN g
  BY <1>1, <1>5
<1>11. Tree(g, t + 1)
  BY <1>8, <1>9, <1>10 DEF Tree
<1>12. KidAppended(h, g, i, t)
  BY <1>5 DEF r, KidAppended
<1>13. QED BY <1>5, <1>11, <1>12

\* json_node_new returns the next number.
LEMMA FreeIdIsNext ==
  ASSUME NEW t \in Nat, DOMAIN node = 0 .. t
  PROVE  FreeId = t + 1
<1>1. Cardinality(DOMAIN node) = t + 1
  <2>1. 0 \in Int /\ t \in Int
    OBVIOUS
  <2>2. Cardinality(0 .. t) = IF 0 > t THEN 0 ELSE t - 0 + 1
    BY <2>1, FS_Interval
  <2>3. QED BY <2>2
<1> DEFINE P(i) == i \in 1 .. t + 1 /\ i \notin DOMAIN node /\ \A j \in 1 .. i - 1 : j \in DOMAIN node
<1>2. P(t + 1)
  OBVIOUS
<1>3. \A i : P(i) => i = t + 1
  OBVIOUS
<1>4. FreeId = CHOOSE i \in 1 .. t + 1 : i \notin DOMAIN node /\ \A j \in 1 .. i - 1 : j \in DOMAIN node
  BY <1>1 DEF FreeId
<1>5. (CHOOSE i \in 1 .. t + 1 : i \notin DOMAIN node /\ \A j \in 1 .. i - 1 : j \in DOMAIN node)
        = CHOOSE i : P(i)
  OBVIOUS
<1>6. P(CHOOSE i : P(i))
  BY <1>2
<1>7. QED BY <1>3, <1>4, <1>5, <1>6

-----------------------------------------------------------------------------
(* The open arrays and objects.                                            *)

KeyStates == {"key", "key string"}
Between == {"first element", "first key", "after"} \cup KeyStates

Frame(t) == [item : 0 .. t, kind : {"array", "object"}, child : (0 .. t) \cup {NoNode}, saved : Nat]

\* The first is the root, each other one the member being read of the one before.
Linked(fs, t) ==
  /\ fs \in Seq(Frame(t))
  /\ fs # <<>> => fs[1].item = Root
  /\ \A k \in 1 .. Len(fs) - 1 : fs[k].child # NoNode /\ fs[k + 1].item = fs[k].child

\* What becomes of the frames fs when x takes the place of the top, is put on
\* top, and when the top is taken away.
TopReplaced(fs, x, g, t) ==
  /\ Linked(g, t) /\ Len(g) = Len(fs) /\ g # <<>> /\ g[Len(g)] = x
  /\ \A k \in 1 .. Len(fs) - 1 : g[k] = fs[k]
TopAdded(fs, x, g, t) ==
  /\ Linked(g, t) /\ Len(g) = Len(fs) + 1 /\ g # <<>> /\ g[Len(g)] = x
  /\ \A k \in 1 .. Len(fs) : g[k] = fs[k]
TopRemoved(fs, g, t) ==
  /\ Linked(g, t) /\ Len(g) = Len(fs) - 1
  /\ \A k \in 1 .. Len(fs) - 1 : g[k] = fs[k]
  /\ g # <<>> => Len(g) > 0 /\ g[Len(g)].child = fs[Len(fs)].item /\ g[Len(g)].child # NoNode
  /\ g = <<>> => fs[Len(fs)].item = Root

\* The top frame is replaced by another one of the same node.
LEMMA LinkedTop ==
  ASSUME NEW t, NEW fs, Linked(fs, t), fs # <<>>, NEW x \in Frame(t), x.item = fs[Len(fs)].item,
         NEW g, g = [fs EXCEPT ![Len(fs)] = x]
  PROVE  TopReplaced(fs, x, g, t)
<1> DEFINE F == Frame(t)
           n == Len(fs)
<1>1. fs \in Seq(F) /\ x \in F /\ n \in Nat \ {0}
  <2>1. fs \in Seq(F)
    BY DEF Linked
  <2> HIDE DEF F
  <2>2. QED BY <2>1, EmptySeq DEF F
<1>2. /\ fs[1].item = Root
      /\ \A k \in 1 .. n - 1 : fs[k].child # NoNode /\ fs[k + 1].item = fs[k].child
  BY DEF Linked
<1> HIDE DEF F
<1>3. /\ g \in Seq(F) /\ Len(g) = n
      /\ \A k \in 1 .. n : g[k] = IF k = n THEN x ELSE fs[k]
  <2>1. n \in 1 .. Len(fs)
    BY <1>1
  <2>2. QED BY <1>1, <2>1, ExceptSeq
<1> HIDE DEF n
<1>4. g # <<>>
  BY <1>1, <1>3
<1>5. x.item = fs[n].item
  BY DEF n
<1>6. g[1].item = Root
  BY <1>1, <1>2, <1>3, <1>5
<1>7. \A k \in 1 .. n - 1 : g[k] = fs[k] /\ g[k + 1].item = fs[k + 1].item
  <2>1. ASSUME NEW k \in 1 .. n - 1 PROVE g[k] = fs[k] /\ g[k + 1].item = fs[k + 1].item
    <3>1. k \in 1 .. n /\ k # n /\ k + 1 \in 1 .. n
      BY <1>1
    <3>2. QED BY <1>3, <1>5, <3>1
  <2>2. QED BY <2>1
<1>8. Linked(g, t)
  BY <1>2, <1>3, <1>6, <1>7 DEF Linked, F
<1>9. n \in 1 .. n
  BY <1>1
<1>10. g[n] = x
  BY <1>3, <1>9
<1>11. QED BY <1>3, <1>4, <1>7, <1>8, <1>10 DEF n, TopReplaced

\* A frame is put on top, for the member being read of the one before.
LEMMA LinkedPush ==
  ASSUME NEW t, NEW fs, Linked(fs, t), NEW x \in Frame(t),
         x.item = IF fs = <<>> THEN Root ELSE fs[Len(fs)].child,
         fs # <<>> => fs[Len(fs)].child # NoNode,
         NEW g, g = Append(fs, x)
  PROVE  TopAdded(fs, x, g, t)
<1> DEFINE F == Frame(t)
           n == Len(fs)
<1>1. fs \in Seq(F) /\ x \in F /\ n \in Nat
  <2>1. fs \in Seq(F)
    BY DEF Linked
  <2> HIDE DEF F
  <2>2. QED BY <2>1, LenProperties DEF F
<1>2. /\ fs # <<>> => fs[1].item = Root
      /\ \A k \in 1 .. n - 1 : fs[k].child # NoNode /\ fs[k + 1].item = fs[k].child
  BY DEF Linked
<1>3. fs = <<>> <=> n = 0
  <2> HIDE DEF F
  <2>1. QED BY <1>1
<1> HIDE DEF F
<1>4. /\ g \in Seq(F) /\ Len(g) = n + 1 /\ g # <<>> /\ g[n + 1] = x
      /\ \A k \in 1 .. n : g[k] = fs[k]
  BY <1>1, AppendProperties
<1>5. n # 0 => fs[n].child # NoNode /\ x.item = fs[n].child
  BY <1>3
<1>6. n = 0 => x.item = Root
  BY <1>3
<1> HIDE DEF n
<1>7. g[1].item = Root
  <2>1. CASE n = 0
    BY <1>4, <1>6, <2>1
  <2>2. CASE n # 0
    <3>1. 1 \in 1 .. n
      BY <1>1, <2>2
    <3>2. QED BY <1>2, <1>3, <1>4, <2>2, <3>1
  <2>3. QED BY <2>1, <2>2
<1>8. ASSUME NEW k \in 1 .. n PROVE g[k].child # NoNode /\ g[k + 1].item = g[k].child
  <2>1. CASE k = n
    BY <1>1, <1>4, <1>5, <2>1
  <2>2. CASE k # n
    <3>1. k \in 1 .. n - 1 /\ k + 1 \in 1 .. n
      BY <1>1, <2>2
    <3>2. QED BY <1>2, <1>4, <3>1
  <2>3. QED BY <2>1, <2>2
<1>9. Len(g) - 1 = n
  BY <1>1, <1>4
<1>10. Linked(g, t)
  BY <1>4, <1>7, <1>8, <1>9 DEF Linked, F
<1>11. QED BY <1>4, <1>10 DEF n, TopAdded

\* The top frame is taken away: the one below was reading its node.
LEMMA LinkedPop ==
  ASSUME NEW t, NEW fs, Linked(fs, t), fs # <<>>, NEW g, g = SubSeq(fs, 1, Len(fs) - 1)
  PROVE  TopRemoved(fs, g, t)
<1> DEFINE F == Frame(t)
           n == Len(fs)
<1>1. fs \in Seq(F) /\ n \in Nat \ {0}
  <2>1. fs \in Seq(F)
    BY DEF Linked
  <2> HIDE DEF F
  <2>2. QED BY <2>1, EmptySeq DEF F
<1>2. /\ fs[1].item = Root
      /\ \A k \in 1 .. n - 1 : fs[k].child # NoNode /\ fs[k + 1].item = fs[k].child
  BY DEF Linked
<1> HIDE DEF F
<1>3. /\ g \in Seq(F) /\ Len(g) = n - 1
      /\ \A k \in 1 .. n - 1 : g[k] = fs[k]
  <2>1. n - 1 \in Int /\ \A k \in 1 .. n - 1 : fs[k] \in F
    BY <1>1
  <2>2. /\ g \in Seq(F)
        /\ Len(g) = IF 1 <= n - 1 THEN n - 1 - 1 + 1 ELSE 0
        /\ \A k \in 1 .. n - 1 - 1 + 1 : g[k] = fs[1 + k - 1]
    BY <2>1, SubSeqProperties
  <2> HIDE DEF n
  <2>3. n - 1 - 1 + 1 = n - 1 /\ \A k \in 1 .. n - 1 : 1 + k - 1 = k
    BY <1>1
  <2>4. (IF 1 <= n - 1 THEN n - 1 - 1 + 1 ELSE 0) = n - 1
    BY <1>1
  <2>5. QED BY <2>2, <2>3, <2>4
<1> HIDE DEF n
<1>4. \A k \in 1 .. Len(g) - 1 : g[k].child # NoNode /\ g[k + 1].item = g[k].child
  <2>1. ASSUME NEW k \in 1 .. Len(g) - 1 PROVE g[k].child # NoNode /\ g[k + 1].item = g[k].child
    <3>1. k \in 1 .. n - 1 /\ k + 1 \in 1 .. n - 1
      BY <1>1, <1>3
    <3>2. QED BY <1>2, <1>3, <3>1
  <2>2. QED BY <2>1
<1>5. g # <<>> => Len(g) > 0 /\ n - 1 \in 1 .. n - 1 /\ (n - 1) + 1 = n
  BY <1>1, <1>3
<1>6. g # <<>> => g[1].item = Root
  <2>1. g # <<>> => 1 \in 1 .. n - 1
    BY <1>1, <1>5
  <2>2. QED BY <1>2, <1>3, <2>1
<1>7. Linked(g, t)
  BY <1>3, <1>4, <1>6 DEF Linked, F
<1>8. g # <<>> => g[n - 1].child = fs[n].item /\ g[n - 1].child # NoNode
  BY <1>2, <1>3, <1>5
<1>9. g = <<>> => fs[n].item = Root
  <2>1. g = <<>> => Len(g) = 0
    OBVIOUS
  <2>2. Len(g) = 0 => n = 1
    BY <1>1, <1>3
  <2>3. QED BY <1>2, <2>1, <2>2
<1>10. QED BY <1>3, <1>5, <1>7, <1>8, <1>9 DEF n, TopRemoved

\* The frames do not depend on how many nodes there are beyond theirs.
LEMMA LinkedWider ==
  ASSUME NEW t \in Nat, NEW fs, Linked(fs, t)
  PROVE  Linked(fs, t + 1)
<1>1. Frame(t) \subseteq Frame(t + 1)
  BY DEF Frame
<1>2. fs \in Seq(Frame(t)) => fs \in Seq(Frame(t + 1))
  BY <1>1, SeqMonotonic
<1>3. QED BY <1>2 DEF Linked

\* The last of them is where the reader is: between its members, or in one.
FramesInv(t) ==
  /\ Linked(frames, t)
  /\ item \in 0 .. t
  /\ item = IF frames = <<>> THEN Root ELSE IF Top.child = NoNode THEN Top.item ELSE Top.child
  /\ frames # <<>> => (Top.child = NoNode <=> at \in Between)
  /\ at = "parsed" => frames = <<>>
  /\ at \in Between \cup {"colon"} => frames # <<>>
  /\ at = "first element" => Top.kind = "array"
  /\ at \in KeyStates \cup {"first key", "colon"} => Top.kind = "object"
  /\ count \in Nat
  /\ path \in Seq(Seq(Chars))

\* The nodes 0 .. t are the tree; while a key is read there is one more.
TreeInv(t) ==
  /\ Tree(node, t)
  /\ IF at \in KeyStates
     THEN fresh = t + 1 /\ node \in [0 .. t + 1 -> Record] /\ node[t + 1].kids = <<>>
     ELSE fresh = NoNode /\ node \in [0 .. t -> Record]

Fine == at \notin {"failed", "crashed"}

ShapeInv == Fine => \E t \in Nat : TreeInv(t) /\ FramesInv(t)

\* A value is complete.
LEMMA DoneFrames ==
  ASSUME NEW t \in Nat, NEW fs, Linked(fs, t), ValueDone(fs),
         path \in Seq(Seq(Chars)), count \in Nat, item \in 0 .. t,
         fs = <<>> => item = Root,
         fs # <<>> => fs[Len(fs)].child # NoNode
  PROVE  FramesInv(t)'
<1>1. PathPop \in Seq(Seq(Chars))
  <2> DEFINE C == Seq(Chars)
  <2>1. path \in Seq(C)
    OBVIOUS
  <2> HIDE DEF C
  <2>2. path # <<>> => SubSeq(path, 1, Len(path) - 1) \in Seq(C)
    BY <2>1
  <2>3. PathPop \in Seq(C)
    BY <2>1, <2>2 DEF PathPop
  <2>4. QED BY <2>3 DEF C
<1>2. CASE fs = <<>>
  BY <1>2 DEF ValueDone, FramesInv, Between, KeyStates
<1>3. CASE fs # <<>>
  <2> DEFINE top == fs[Len(fs)]
             x == [top EXCEPT !.child = NoNode]
  <2>1. top \in Frame(t)
    <3>1. fs \in Seq(Frame(t)) /\ fs # <<>>
      BY <1>3 DEF Linked
    <3>2. Len(fs) \in 1 .. Len(fs)
      BY <3>1, EmptySeq
    <3>3. QED BY <3>1, <3>2, ElementOfSeq
  <2>2. x \in Frame(t) /\ x.item = top.item /\ x.child = NoNode /\ top.item \in 0 .. t /\ top.saved \in Nat
    BY <2>1 DEF Frame
  <2>3. /\ at' = "after" /\ frames' = [fs EXCEPT ![Len(fs)] = x]
        /\ item' = top.item /\ count' = top.saved + 1 /\ path' = PathPop
    BY <1>3 DEF ValueDone
  <2> HIDE DEF x
  <2>4. Linked(frames', t) /\ frames' # <<>> /\ frames'[Len(frames')] = x
    <3>1. frames' = [fs EXCEPT ![Len(fs)] = x] /\ x \in Frame(t) /\ x.item = fs[Len(fs)].item
      BY <2>2, <2>3
    <3> DEFINE g == frames'
    <3>2. g = [fs EXCEPT ![Len(fs)] = x]
      BY <3>1
    <3> HIDE DEF g
    <3>3. TopReplaced(fs, x, g, t)
      BY <1>3, <3>1, <3>2, LinkedTop
    <3>4. QED BY <3>3 DEF g, TopReplaced
  <2>5. count' \in Nat
    BY <2>2, <2>3
  <2>6. Top' = x
    BY <2>4 DEF Top
  <2>7. QED BY <1>1, <2>2, <2>3, <2>4, <2>5, <2>6 DEF FramesInv, Between, KeyStates
<1>4. QED BY <1>2, <1>3

\* The frame on top.
LEMMA TopFrame ==
  ASSUME NEW t \in Nat, Linked(frames, t), frames # <<>>
  PROVE  Top \in Frame(t) /\ Len(frames) \in 1 .. Len(frames)
<1>1. frames \in Seq(Frame(t)) /\ frames # <<>>
  BY DEF Linked
<1>2. Len(frames) \in 1 .. Len(frames)
  BY <1>1, EmptySeq
<1>3. QED BY <1>1, <1>2, ElementOfSeq DEF Top

\* A member is begun.
LEMMA BegunFrames ==
  ASSUME NEW t \in Nat, FramesInv(t), frames # <<>>, NEW t2 \in {t, t + 1}, item' \in 0 .. t2, NEW n \in Nat,
         \/ frames' = [frames EXCEPT ![Len(frames)] = [@ EXCEPT !.child = item', !.saved = n]] /\ at' = "value"
         \/ /\ frames' = [frames EXCEPT ![Len(frames)] = [@ EXCEPT !.child = item']]
            /\ at' = "colon" /\ Top.kind = "object",
         count' \in Nat, path' \in Seq(Seq(Chars))
  PROVE  /\ FramesInv(t2)'
         /\ Len(frames') = Len(frames) /\ Top'.item = Top.item /\ Top'.kind = Top.kind /\ Top'.child = item'
         /\ \A k \in 1 .. Len(frames) - 1 : frames'[k] = frames[k]
<1>1. Linked(frames, t2) /\ t2 \in Nat
  <2>1. Linked(frames, t)
    BY DEF FramesInv
  <2>2. Linked(frames, t + 1) /\ t + 1 \in Nat
    BY <2>1, LinkedWider
  <2>3. QED BY <2>1, <2>2
<1>2. Top \in Frame(t2) /\ Len(frames) \in 1 .. Len(frames)
  BY <1>1, TopFrame
<1> DEFINE x == IF at' = "value" THEN [Top EXCEPT !.child = item', !.saved = n] ELSE [Top EXCEPT !.child = item']
<1>3. x \in Frame(t2) /\ x.item = Top.item /\ x.child = item' /\ x.kind = Top.kind
  BY <1>2 DEF Frame
<1>4. frames' = [frames EXCEPT ![Len(frames)] = x]
  BY DEF Top
<1> HIDE DEF x
<1>5. /\ Linked(frames', t2) /\ frames' # <<>> /\ frames'[Len(frames')] = x /\ Len(frames') = Len(frames)
      /\ \A k \in 1 .. Len(frames) - 1 : frames'[k] = frames[k]
  <2>1. x \in Frame(t2) /\ x.item = frames[Len(frames)].item
    BY <1>3 DEF Top
  <2> DEFINE g == frames'
  <2>2. g = [frames EXCEPT ![Len(frames)] = x]
    BY <1>4
  <2> HIDE DEF g
  <2>3. TopReplaced(frames, x, g, t2)
    BY <1>1, <2>1, <2>2, LinkedTop
  <2>4. QED BY <2>3 DEF g, TopReplaced
<1>6. Top' = x
  BY <1>5 DEF Top
<1>7. item' # NoNode
  BY <1>1 DEF NoNode
<1>8. at' \in {"value", "colon"} /\ (at' = "colon" => Top.kind = "object")
  OBVIOUS
<1>9. FramesInv(t2)'
  BY <1>3, <1>5, <1>6, <1>7, <1>8 DEF FramesInv, Between, KeyStates
<1>10. QED BY <1>3, <1>5, <1>6, <1>9

\* An array or object is opened.
LEMMA OpenedFrames ==
  ASSUME NEW t \in Nat, FramesInv(t), at = "value", NEW kind \in {"array", "object"},
         frames' = Append(frames, [item |-> item, kind |-> kind, child |-> NoNode, saved |-> 0]),
         at' = (IF kind = "array" THEN "first element" ELSE "first key"), UNCHANGED <<item, count, path>>
  PROVE  FramesInv(t)' /\ Top' = [item |-> item, kind |-> kind, child |-> NoNode, saved |-> 0]
<1> DEFINE x == [item |-> item, kind |-> kind, child |-> NoNode, saved |-> 0]
<1>1. x \in Frame(t) /\ x.item = item /\ x.kind = kind /\ x.child = NoNode
  BY DEF FramesInv, Frame
<1>2. /\ item = IF frames = <<>> THEN Root ELSE frames[Len(frames)].child
      /\ frames # <<>> => frames[Len(frames)].child # NoNode
  BY DEF FramesInv, Between, KeyStates, Top
<1>3. frames' = Append(frames, x)
  OBVIOUS
<1> HIDE DEF x
<1>4. Linked(frames', t) /\ frames' # <<>> /\ frames'[Len(frames')] = x
  <2>1. Linked(frames, t)
    BY DEF FramesInv
  <2> DEFINE g == frames'
  <2>2. g = Append(frames, x)
    BY <1>3
  <2> HIDE DEF g
  <2>3. x.item = IF frames = <<>> THEN Root ELSE frames[Len(frames)].child
    BY <1>1, <1>2
  <2>4. TopAdded(frames, x, g, t)
    BY <1>1, <1>2, <2>1, <2>2, <2>3, LinkedPush
  <2>5. QED BY <2>4 DEF g, TopAdded
<1>5. Top' = x
  BY <1>4 DEF Top
<1>6. FramesInv(t)'
  BY <1>1, <1>4, <1>5 DEF FramesInv, Between, KeyStates
<1>7. QED BY <1>5, <1>6 DEF x

\* The new node is the last member of item, or an older one is used.
JoinedNew(h, t) ==
  /\ FindIn(h, Root, path') = NoNode
  /\ node' = AddKid(h, item, t + 1) /\ node' \in [0 .. t + 1 -> Record] /\ Tree(node', t + 1)
  /\ item' = t + 1 /\ (reused' => reused)
JoinedOld(h, t) ==
  /\ FindIn(h, Root, path') = item'
  /\ node' \in [0 .. t -> Record] /\ Tree(node', t) /\ \A n \in 0 .. t : node'[n] = h[n]
  /\ item' \in 1 .. t /\ reused'

JoinEffect(h, t, k) ==
  /\ path' = path \o Names(k) /\ path' \in Seq(Seq(Chars)) /\ Len(path') >= 1
  /\ odd' = (odd \/ Len(Names(k)) > 1 \/ k \in {<<>>, <<"*">>})
  /\ JoinedNew(h, t) \/ JoinedOld(h, t)

\* A tree is searched from the top down.
LEMMA TreeDescends ==
  ASSUME NEW t, NEW h \in [0 .. t + 1 -> Record], Tree(h, t), h[t + 1].kids = <<>>
  PROVE  Descends(h, t + 1)
<1>1. t \in Nat /\ t + 1 \in Nat /\ DOMAIN h = 0 .. t + 1
  BY DEF Tree
<1>2. ASSUME NEW n \in 0 .. t + 1
      PROVE  h[n].kids \in Seq(0 .. t + 1) /\ \A i \in 1 .. Len(h[n].kids) : n < h[n].kids[i]
  <2>1. CASE n \in 0 .. t
    <3>1. 0 .. t \subseteq 0 .. t + 1
      BY <1>1
    <3>2. h[n].kids \in Seq(0 .. t) /\ \A i \in 1 .. Len(h[n].kids) : n < h[n].kids[i]
      BY <2>1 DEF Tree
    <3>3. QED BY <3>1, <3>2, SeqMonotonic
  <2>2. CASE n = t + 1
    <3>1. h[n].kids \in Seq(0 .. t + 1) /\ Len(h[n].kids) = 0
      BY <2>2, EmptySeq
    <3>2. QED BY <3>1
  <2>3. QED BY <1>1, <2>1, <2>2
<1>3. QED BY <1>1, <1>2 DEF Descends

\* A member that is joined to the tree is new or is found there.
LEMMA JoinHasEffect ==
  ASSUME NEW t, NEW h \in [0 .. t + 1 -> Record], Tree(h, t), h[t + 1].kids = <<>>, item \in 0 .. t,
         path \in Seq(Seq(Chars)), NEW k \in Seq(Chars), Join(h, t + 1, k)
  PROVE  JoinEffect(h, t, k)
<1> DEFINE C == Seq(Chars)
           found == FindIn(h, Root, path')
           M == UNION {ToSet(h[c].kids) : c \in DOMAIN h}
<1>1. Names(k) \in Seq(C) /\ Len(Names(k)) >= 1 /\ path \in Seq(C)
  BY NamesType
<1>2. path' = path \o Names(k)
  BY DEF Join
<1> HIDE DEF C
<1>3. path' \in Seq(C) /\ Len(path') >= 1
  <2>1. path \o Names(k) \in Seq(C) /\ Len(path \o Names(k)) = Len(path) + Len(Names(k))
    BY <1>1, ConcatProperties
  <2>2. Len(path) \in Nat /\ Len(Names(k)) \in Nat
    BY <1>1
  <2>3. QED BY <1>1, <1>2, <2>1, <2>2
<1>4. Descends(h, t + 1) /\ t \in Nat /\ Root \in 0 .. t + 1
  <2>1. Descends(h, t + 1)
    BY TreeDescends
  <2>2. t \in Nat
    BY DEF Tree
  <2>3. QED BY <2>1, <2>2 DEF Root
<1>5. found \in {NoNode} \cup M
  <2>1. \A p \in Seq(C) : Len(p) >= 1 => FindIn(h, Root, p) \in {NoNode} \cup M
    BY <1>4, FindInKids
  <2>2. QED BY <1>3, <2>1
<1>6. M \subseteq 1 .. t
  <2> SUFFICES ASSUME NEW n \in 0 .. t + 1, NEW x \in ToSet(h[n].kids) PROVE x \in 1 .. t
    OBVIOUS
  <2>1. CASE n \in 0 .. t
    <3>1. h[n].kids \in Seq(0 .. t) /\ \A i \in 1 .. Len(h[n].kids) : n < h[n].kids[i]
      BY <2>1 DEF Tree
    <3>2. PICK i \in 1 .. Len(h[n].kids) : x = h[n].kids[i]
      BY <3>1, SetOfSeq
    <3>3. x \in 0 .. t
      BY <3>1, <3>2, ElementOfSeq
    <3>4. n < x
      BY <3>1, <3>2
    <3>5. QED BY <2>1, <3>3, <3>4
  <2>2. CASE n = t + 1
    <3>1. ToSet(h[n].kids) = {}
      BY <2>2 DEF ToSet
    <3>2. QED BY <3>1
  <2>3. QED BY <1>4, <2>1, <2>2
<1>7. /\ node' = IF found = NoNode THEN AddKid(h, item, t + 1) ELSE Destroyed(h, t + 1)
      /\ item' = IF found = NoNode THEN t + 1 ELSE found
      /\ reused' = (reused \/ found # NoNode)
      /\ odd' = (odd \/ Len(Names(k)) > 1 \/ k \in {<<>>, <<"*">>})
  BY <1>2 DEF Join
<1> HIDE DEF found, M
<1>8. CASE found = NoNode
  <2>1. node' = AddKid(h, item, t + 1) /\ item' = t + 1
    BY <1>7, <1>8
  <2> DEFINE g == node'
  <2>3. g = AddKid(h, item, t + 1)
    BY <2>1
  <2> HIDE DEF g
  <2>4. g \in [0 .. t + 1 -> Record] /\ Tree(g, t + 1)
    BY <2>3, AddKidTree
  <2>5. reused' => reused
    BY <1>7, <1>8
  <2>6. JoinedNew(h, t)
    BY <1>8, <2>1, <2>4, <2>5 DEF JoinedNew, found, g
  <2>7. QED BY <1>2, <1>3, <1>7, <2>6 DEF JoinEffect, C
<1>9. CASE found # NoNode
  <2>1. node' = Destroyed(h, t + 1) /\ item' = found /\ found \in 1 .. t
    BY <1>5, <1>6, <1>7, <1>9
  <2>2. DOMAIN h \ {t + 1} = 0 .. t
    BY <1>4
  <2>3. node' = [n \in 0 .. t |-> h[n]]
    BY <2>1, <2>2 DEF Destroyed
  <2>4. node' \in [0 .. t -> Record] /\ \A n \in 0 .. t : node'[n] = h[n]
    BY <1>4, <2>3
  <2>5. Tree(node', t)
    BY <2>4, WithKeepsTree
  <2>6. reused'
    BY <1>7, <1>9
  <2>7. JoinedOld(h, t)
    BY <2>1, <2>4, <2>5, <2>6 DEF JoinedOld, found
  <2>8. QED BY <1>2, <1>3, <1>7, <2>7 DEF JoinEffect, C
<1>10. QED BY <1>8, <1>9

\* The steps that leave tree and frames alone.
Quiet ==
  /\ UNCHANGED <<frames, item, path, count, node, fresh>>
  /\ \/ at' = at /\ at # "parsed"
     \/ at = "value" /\ at' \in {"number", "string"}
     \/ at = "key" /\ at' = "key string"

\* They keep the shape.
LEMMA QuietShape ==
  ASSUME NEW t \in Nat, TreeInv(t), FramesInv(t), Quiet
  PROVE  TreeInv(t)' /\ FramesInv(t)'
<1>1. TreeInv(t)'
  BY DEF Quiet, TreeInv, KeyStates
<1>2. UNCHANGED Top
  BY DEF Quiet, Top
<1>3. FramesInv(t)'
  BY <1>2 DEF Quiet, FramesInv, KeyStates, Between
<1>4. QED BY <1>1, <1>3

\* A value is read.
Finish ==
  /\ at \in {"value", "number", "string"}
  /\ Sets(node, item, node')
  /\ ValueDone(frames)
  /\ UNCHANGED fresh

\* Where no key is read, all nodes are in the tree.
LEMMA TreeAtValue ==
  ASSUME NEW t \in Nat, TreeInv(t), at \notin KeyStates
  PROVE  node \in [0 .. t -> Record] /\ Tree(node, t) /\ fresh = NoNode
  BY DEF TreeInv

\* It keeps the shape.
LEMMA FinishShape ==
  ASSUME NEW t \in Nat, TreeInv(t), FramesInv(t), Finish
  PROVE  TreeInv(t)' /\ FramesInv(t)'
<1>1. node \in [0 .. t -> Record] /\ Tree(node, t) /\ fresh = NoNode
  BY TreeAtValue DEF Finish, KeyStates
<1> DEFINE g == node'
<1>2. Sets(node, item, g) /\ item \in 0 .. t /\ fresh' = NoNode
  BY <1>1 DEF Finish, FramesInv
<1> HIDE DEF g
<1>3. g \in [0 .. t -> Record] /\ Tree(g, t)
  BY <1>1, <1>2, SetsKeepTree
<1>4. at' \notin KeyStates
  BY DoneAt DEF Finish, KeyStates
<1>5. TreeInv(t)'
  BY <1>2, <1>3, <1>4 DEF TreeInv, g
<1>6. Linked(frames, t) /\ ValueDone(frames) /\ path \in Seq(Seq(Chars)) /\ count \in Nat /\ item \in 0 .. t
  BY DEF FramesInv, Finish
<1>7. /\ frames = <<>> => item = Root
      /\ frames # <<>> => frames[Len(frames)].child # NoNode
  BY DEF FramesInv, Finish, Between, KeyStates, Top
<1>8. FramesInv(t)'
  BY <1>6, <1>7, DoneFrames
<1>9. QED BY <1>5, <1>8

\* An array or object ends.
LEMMA CloseShape ==
  ASSUME NEW t \in Nat, TreeInv(t), FramesInv(t), NEW u, Close(u)
  PROVE  TreeInv(t)' /\ FramesInv(t)'
<1>1. at \in Between /\ at \notin KeyStates
  BY DEF Close, Between, KeyStates
<1>2. node \in [0 .. t -> Record] /\ Tree(node, t) /\ fresh = NoNode
  BY <1>1, TreeAtValue
<1> DEFINE g == SubSeq(frames, 1, Len(frames) - 1)
<1>3. ValueDone(g) /\ UNCHANGED <<node, fresh>>
  BY DEF Close
<1>4. at' \notin KeyStates
  BY <1>3, DoneAt DEF KeyStates
<1>5. TreeInv(t)'
  BY <1>2, <1>3, <1>4 DEF TreeInv
<1>6. Linked(frames, t) /\ frames # <<>>
  BY <1>1 DEF FramesInv
<1>7. TopRemoved(frames, g, t)
  <2> DEFINE f == g
  <2>1. f = SubSeq(frames, 1, Len(frames) - 1)
    OBVIOUS
  <2> HIDE DEF f
  <2>2. TopRemoved(frames, f, t)
    BY <1>6, <2>1, LinkedPop
  <2>3. QED BY <2>2 DEF f
<1> HIDE DEF g
<1>8. path \in Seq(Seq(Chars)) /\ count \in Nat /\ item \in 0 .. t
  BY DEF FramesInv
<1>9. item = frames[Len(frames)].item
  BY <1>1, <1>6 DEF FramesInv, Top
<1>10. /\ Linked(g, t)
       /\ g = <<>> => item = Root
       /\ g # <<>> => g[Len(g)].child # NoNode
  BY <1>7, <1>9 DEF TopRemoved
<1>11. FramesInv(t)'
  BY <1>3, <1>8, <1>10, DoneFrames
<1>12. QED BY <1>5, <1>11

\* The colon.
LEMMA ColonShape ==
  ASSUME NEW t \in Nat, TreeInv(t), FramesInv(t), NEW u, ReadColon(u)
  PROVE  TreeInv(t)' /\ FramesInv(t)'
<1>1. /\ at = "colon" /\ at' = "value" /\ UNCHANGED <<item, path, count, node, fresh>>
      /\ frames' = [frames EXCEPT ![Len(frames)] = [@ EXCEPT !.saved = count]]
  BY DEF ReadColon
<1>2. TreeInv(t)'
  BY <1>1 DEF TreeInv, KeyStates
<1>3. Linked(frames, t) /\ frames # <<>> /\ count \in Nat /\ item \in 0 .. t
  BY <1>1 DEF FramesInv
<1>4. Top \in Frame(t)
  BY <1>3, TopFrame
<1> DEFINE x == [Top EXCEPT !.saved = count]
           g == frames'
<1>5. x \in Frame(t) /\ x.item = Top.item /\ x.child = Top.child
  BY <1>3, <1>4 DEF Frame
<1>6. g = [frames EXCEPT ![Len(frames)] = x]
  BY <1>1 DEF Top
<1> HIDE DEF x, g
<1>7. TopReplaced(frames, x, g, t)
  BY <1>3, <1>5, <1>6, LinkedTop DEF Top
<1>8. Linked(frames', t) /\ frames' # <<>> /\ Top' = x
  BY <1>7 DEF TopReplaced, g, Top
<1>9. FramesInv(t)'
  BY <1>1, <1>5, <1>8 DEF FramesInv, Between, KeyStates
<1>10. QED BY <1>2, <1>9

\* An array or object begins.
LEMMA OpenShape ==
  ASSUME NEW t \in Nat, TreeInv(t), FramesInv(t), NEW u, OpenArray(u) \/ OpenObject(u)
  PROVE  TreeInv(t)' /\ FramesInv(t)'
<1>1. PICK kind \in {"array", "object"} :
        /\ at = "value" /\ node' = SetType(node, item, kind)
        /\ frames' = Append(frames, [item |-> item, kind |-> kind, child |-> NoNode, saved |-> 0])
        /\ at' = (IF kind = "array" THEN "first element" ELSE "first key")
        /\ UNCHANGED <<item, path, count, fresh>>
  BY DEF OpenArray, OpenObject, Open
<1>2. node \in [0 .. t -> Record] /\ Tree(node, t) /\ fresh = NoNode /\ item \in 0 .. t
  BY <1>1, TreeAtValue DEF KeyStates, FramesInv
<1>3. Sets(node, item, SetType(node, item, kind))
  <2>1. kind \in Types
    BY DEF Types
  <2>2. QED BY <1>2, <2>1, SetTypeSets
<1> DEFINE g == node'
<1>4. Sets(node, item, g)
  BY <1>1, <1>3
<1> HIDE DEF g
<1>5. g \in [0 .. t -> Record] /\ Tree(g, t)
  BY <1>2, <1>4, SetsKeepTree
<1>6. TreeInv(t)'
  BY <1>1, <1>2, <1>5 DEF TreeInv, KeyStates, g
<1>7. FramesInv(t)'
  BY <1>1, OpenedFrames
<1>8. QED BY <1>6, <1>7

\* A node for a member whose key is to be read.
LEMMA AllocateShape ==
  ASSUME NEW t \in Nat, TreeInv(t), FramesInv(t), NEW u, FirstKey(u) \/ NextKey(u), Fine'
  PROVE  TreeInv(t)' /\ FramesInv(t)' /\ node' = With(node, t + 1, NewNode(<<>>))
<1>1. /\ at \in {"first key", "after"} /\ at' \in KeyStates /\ Allocate /\ UNCHANGED <<frames, item, path>>
      /\ count' \in {0, count} /\ Top.kind = "object"
  BY DEF FirstKey, NextKey, Fine, KeyStates, FramesInv
<1>2. node \in [0 .. t -> Record] /\ Tree(node, t) /\ DOMAIN node = 0 .. t
  BY <1>1, TreeAtValue DEF KeyStates
<1>3. FreeId = t + 1
  BY <1>2, FreeIdIsNext
<1>4. fresh' = t + 1 /\ node' = With(node, t + 1, NewNode(<<>>))
  BY <1>1, <1>3 DEF Allocate
<1>5. NewNode(<<>>) \in Record /\ NewNode(<<>>).kids = <<>>
  BY NewNodeIsRecord, EmptySeq
<1> DEFINE r == NewNode(<<>>)
           g == node'
<1>6. g = With(node, t + 1, r) /\ r \in Record
  BY <1>4, <1>5
<1> HIDE DEF r, g
<1>7. With(node, t + 1, r) \in [0 .. t + 1 -> Record] /\ With(node, t + 1, r)[t + 1] = r
      /\ \A n \in 0 .. t : With(node, t + 1, r)[n] = node[n]
  <2>1. OneMore(node, t)
    BY <1>2 DEF OneMore
  <2>2. QED BY <1>6, <2>1, WithRecord
<1>8. g \in [0 .. t + 1 -> Record] /\ g[t + 1].kids = <<>> /\ \A n \in 0 .. t : g[n] = node[n]
  BY <1>5, <1>6, <1>7 DEF r
<1>9. Tree(g, t)
  <2>1. 0 .. t \subseteq DOMAIN g
    BY <1>8
  <2>2. QED BY <1>2, <1>8, <2>1, WithKeepsTree
<1>10. TreeInv(t)'
  BY <1>1, <1>4, <1>8, <1>9 DEF TreeInv, g
<1>11. UNCHANGED Top
  BY <1>1 DEF Top
<1>12. FramesInv(t)'
  <2>1. at \in Between /\ at' \in Between /\ at' \notin {"parsed", "first element", "colon", "first key"}
    BY <1>1 DEF Between, KeyStates
  <2>2. frames # <<>> /\ Top.child = NoNode /\ count' \in Nat
    <3>1. frames # <<>>
      BY <2>1 DEF FramesInv
    <3>2. Top.child = NoNode
      BY <2>1, <3>1 DEF FramesInv
    <3>3. count \in Nat
      BY DEF FramesInv
    <3>4. count' \in {0, count}
      BY <1>1
    <3>5. count' \in Nat
      BY <3>3, <3>4
    <3>6. QED BY <3>1, <3>2, <3>5
  <2>3. Linked(frames, t)' /\ (path \in Seq(Seq(Chars)))' /\ (item \in 0 .. t)' /\ item' = Top'.item
    BY <1>1, <1>11, <2>2 DEF FramesInv
  <2>4. QED BY <1>1, <1>11, <2>1, <2>2, <2>3 DEF FramesInv
<1>13. QED BY <1>4, <1>10, <1>12

\* The nodes with a new one named k.
WithKid(t, k) == With(node, t + 1, NewNode(k))
KidAdded(t, k) ==
  /\ WithKid(t, k) \in [0 .. t + 1 -> Record] /\ Tree(WithKid(t, k), t)
  /\ WithKid(t, k)[t + 1] = NewNode(k) /\ WithKid(t, k)[t + 1].kids = <<>>
  /\ \A n \in 0 .. t : WithKid(t, k)[n] = node[n]

\* The new node stands beside the tree.
LEMMA KidIsAdded ==
  ASSUME NEW t \in Nat, TreeInv(t), NEW k \in Seq(Chars)
  PROVE  KidAdded(t, k)
<1> DEFINE r == NewNode(k)
<1>1. r \in Record /\ r.kids = <<>>
  BY NewNodeIsRecord
<1>2. Tree(node, t) /\ (node \in [0 .. t -> Record] \/ node \in [0 .. t + 1 -> Record])
  BY DEF TreeInv
<1>3. WithKid(t, k) = With(node, t + 1, r)
  BY DEF WithKid
<1> HIDE DEF r
<1> DEFINE g == With(node, t + 1, r)
<1>4. g \in [0 .. t + 1 -> Record] /\ g[t + 1] = r /\ \A n \in 0 .. t : g[n] = node[n]
  <2>1. OneMore(node, t)
    BY <1>2 DEF OneMore
  <2>2. QED BY <1>1, <2>1, WithRecord
<1> HIDE DEF g
<1>5. 0 .. t \subseteq DOMAIN g
  BY <1>4
<1>6. Tree(g, t)
  BY <1>2, <1>4, <1>5, WithKeepsTree
<1>7. WithKid(t, k) = g
  BY <1>3 DEF g
<1>8. QED BY <1>1, <1>4, <1>6, <1>7 DEF KidAdded, r

\* A member named k is begun: the top frame changes and the node joins the tree.
MemberBegun(t, k) ==
  /\ KidAdded(t, k) /\ JoinEffect(WithKid(t, k), t, k)
  /\ \E t2 \in {t, t + 1} : TreeInv(t2)' /\ FramesInv(t2)'
  /\ Len(frames') = Len(frames) /\ Top'.item = Top.item /\ Top'.kind = Top.kind /\ Top'.child = item'
  /\ \A j \in 1 .. Len(frames) - 1 : frames'[j] = frames[j]

\* A member that is joined is begun.
LEMMA JoinShape ==
  ASSUME NEW t \in Nat, TreeInv(t), FramesInv(t), frames # <<>>, NEW k \in Seq(Chars),
         Join(WithKid(t, k), t + 1, k), fresh' = NoNode, NEW n \in Nat,
         \/ frames' = [frames EXCEPT ![Len(frames)] = [@ EXCEPT !.child = item', !.saved = n]] /\ at' = "value"
         \/ /\ frames' = [frames EXCEPT ![Len(frames)] = [@ EXCEPT !.child = item']]
            /\ at' = "colon" /\ Top.kind = "object",
         count' \in Nat
  PROVE  MemberBegun(t, k)
<1>1. KidAdded(t, k)
  BY KidIsAdded
<1> DEFINE h == WithKid(t, k)
<1>2. h \in [0 .. t + 1 -> Record] /\ Tree(h, t) /\ h[t + 1].kids = <<>> /\ \A m \in 0 .. t : h[m] = node[m]
  BY <1>1 DEF KidAdded
<1>3. item \in 0 .. t /\ path \in Seq(Seq(Chars))
  BY DEF FramesInv
<1>4. JoinEffect(h, t, k)
  <2>1. Join(h, t + 1, k)
    OBVIOUS
  <2> HIDE DEF h
  <2>2. QED BY <1>2, <1>3, <2>1, JoinHasEffect
<1> HIDE DEF h
<1>5. PICK t2 \in {t, t + 1} : /\ node' \in [0 .. t2 -> Record] /\ Tree(node', t2) /\ item' \in 0 .. t2
                               /\ path' \in Seq(Seq(Chars))
  <2>1. CASE JoinedNew(h, t)
    <3>1. node' \in [0 .. t + 1 -> Record] /\ Tree(node', t + 1) /\ item' \in 0 .. t + 1
      BY <2>1 DEF JoinedNew
    <3>2. QED BY <1>4, <3>1 DEF JoinEffect
  <2>2. CASE JoinedOld(h, t)
    <3>1. node' \in [0 .. t -> Record] /\ Tree(node', t) /\ item' \in 0 .. t
      BY <2>2 DEF JoinedOld
    <3>2. QED BY <1>4, <3>1 DEF JoinEffect
  <2>3. QED BY <1>4, <2>1, <2>2 DEF JoinEffect
<1>6. TreeInv(t2)'
  <2>1. at' \notin KeyStates
    BY DEF KeyStates
  <2>2. QED BY <1>5, <2>1 DEF TreeInv
<1>7. /\ FramesInv(t2)'
      /\ Len(frames') = Len(frames) /\ Top'.item = Top.item /\ Top'.kind = Top.kind /\ Top'.child = item'
      /\ \A j \in 1 .. Len(frames) - 1 : frames'[j] = frames[j]
  BY <1>5, BegunFrames
<1>8. QED BY <1>1, <1>4, <1>6, <1>7 DEF h, MemberBegun

\* The members of an array.
LEMMA ElementShape ==
  ASSUME NEW t \in Nat, TreeInv(t), FramesInv(t), NEW u, FirstElement(u) \/ NextElement(u)
  PROVE  \E n \in Nat :
         /\ Decimal[n] \in Seq(Chars) /\ MemberBegun(t, Decimal[n])
         /\ at \in {"first element", "after"} /\ at' = "value" /\ fresh' = NoNode
<1>1. at \in {"first element", "after"} /\ at' = "value" /\ UNCHANGED fresh
  BY DEF FirstElement, NextElement, Element
<1>2. at \in Between /\ at \notin KeyStates /\ frames # <<>> /\ count \in Nat
  BY <1>1 DEF Between, KeyStates, FramesInv
<1>3. PICK n \in Nat : Element(n)
  BY <1>2 DEF FirstElement, NextElement
<1> DEFINE k == Decimal[n]
<1>4. k \in Seq(Chars)
  <2>1. k \in Seq(DOMAIN Digit)
    BY DecimalType
  <2>2. QED BY <2>1, CharsOfText, SeqMonotonic
<1>5. FreeId = t + 1 /\ fresh = NoNode
  <2>1. node \in [0 .. t -> Record] /\ fresh = NoNode
    BY <1>2, TreeAtValue
  <2>2. DOMAIN node = 0 .. t
    BY <2>1
  <2>3. QED BY <2>1, <2>2, FreeIdIsNext
<1>6. /\ Join(WithKid(t, k), t + 1, k)
      /\ frames' = [frames EXCEPT ![Len(frames)] = [@ EXCEPT !.child = item', !.saved = n]]
      /\ count' = n
  BY <1>3, <1>5 DEF Element, WithKid
<1>7. fresh' = NoNode /\ count' \in Nat
  BY <1>1, <1>5, <1>6
<1> HIDE DEF k
<1>8. MemberBegun(t, k)
  BY <1>1, <1>2, <1>4, <1>6, <1>7, JoinShape
<1>9. QED BY <1>1, <1>4, <1>7, <1>8 DEF k

\* The members of an object.
LEMMA KeyShape ==
  ASSUME NEW t \in Nat, TreeInv(t), FramesInv(t), TextInv, NEW u, KeyEnds(u)
  PROVE  Contents(scratch) \in Seq(Chars) /\ MemberBegun(t, Contents(scratch))
<1>1. at = "key string" /\ at' = "colon" /\ fresh' = NoNode /\ UNCHANGED count
  BY DEF KeyEnds
<1>2. frames # <<>> /\ Top.kind = "object" /\ count' \in Nat
  BY <1>1 DEF FramesInv, Between, KeyStates
<1>3. fresh = t + 1
  BY <1>1 DEF TreeInv, KeyStates
<1> DEFINE k == Contents(scratch)
<1>4. k \in Seq(Chars) /\ CString(scratch) = k
  <2>1. Buffer(scratch) /\ k \in Seq(Chars)
    BY <1>1 DEF TextInv
  <2>2. QED BY <2>1, CStringIsContents
<1>5. /\ Join(WithKid(t, k), t + 1, k)
      /\ frames' = [frames EXCEPT ![Len(frames)] = [@ EXCEPT !.child = item']]
  BY <1>3, <1>4 DEF KeyEnds, WithKid
<1> HIDE DEF k
<1>6. 0 \in Nat
  OBVIOUS
<1>7. MemberBegun(t, k)
  BY <1>1, <1>2, <1>4, <1>5, <1>6, JoinShape
<1>8. QED BY <1>4, <1>7 DEF k

\* What is read sets the node that it is for.
LEMMA FinishHasEffect ==
  ASSUME NEW t \in Nat, TreeInv(t), FramesInv(t), TextInv, NEW u,
         ReadLiteral(u) \/ NumberEnds(u) \/ StringEnds(u)
  PROVE  Finish
<1>1. at \in {"value", "number", "string"} /\ ValueDone(frames) /\ UNCHANGED fresh
  BY DEF ReadLiteral, NumberEnds, StringEnds
<1>2. node \in [0 .. t -> Record] /\ item \in 0 .. t
  BY <1>1, TreeAtValue DEF KeyStates, FramesInv
<1>3. CASE ReadLiteral(u)
  <2>1. u \in Types /\ node' = SetType(node, item, u)
    BY <1>3 DEF ReadLiteral, Types
  <2>2. QED BY <1>1, <1>2, <2>1, SetTypeSets DEF Finish
<1>4. CASE NumberEnds(u)
  <2> DEFINE v == Strtod(CString(scratch))
  <2>1. Buffer(scratch) /\ Contents(scratch) \in Seq(Chars) /\ Contents(scratch) \in Seq(NumberChars)
    BY <1>4 DEF NumberEnds, TextInv
  <2>2. CString(scratch) = Contents(scratch)
    BY <2>1, CStringIsContents
  <2>3. v \in Number
    BY <2>1, <2>2, StrtodType
  <2>4. node' = SetNumber(node, item, v)
    BY <1>4 DEF NumberEnds
  <2> HIDE DEF v
  <2>5. QED BY <1>1, <1>2, <2>3, <2>4, SetNumberSets DEF Finish
<1>5. CASE StringEnds(u)
  <2>1. Buffer(scratch) /\ Contents(scratch) \in Seq(Chars)
    BY <1>5 DEF StringEnds, TextInv
  <2>2. CString(scratch) \in Seq(Chars)
    BY <2>1, CStringIsContents
  <2>3. node' = SetString(node, item, CString(scratch))
    BY <1>5 DEF StringEnds
  <2>4. QED BY <1>1, <1>2, <2>2, <2>3, SetStringSets DEF Finish
<1>6. QED BY <1>3, <1>4, <1>5

\* The other steps, that do not fail.
LEMMA QuietSteps ==
  ASSUME NEW u, SkipSpace(u) \/ NumberBegins(u) \/ NumberGoesOn(u) \/ StringBegins(u)
                \/ StringGoesOn(u) \/ KeyBegins(u)
  PROVE  Quiet
<1>1. CASE SkipSpace(u)    BY <1>1 DEF SkipSpace, Quiet, Skipping
<1>2. CASE NumberBegins(u) BY <1>2 DEF NumberBegins, Quiet
<1>3. CASE NumberGoesOn(u) BY <1>3 DEF NumberGoesOn, Quiet
<1>4. CASE StringBegins(u) BY <1>4 DEF StringBegins, Quiet
<1>5. CASE StringGoesOn(u) BY <1>5 DEF StringGoesOn, Quiet
<1>6. CASE KeyBegins(u)    BY <1>6 DEF KeyBegins, Quiet
<1>7. QED BY <1>1, <1>2, <1>3, <1>4, <1>5, <1>6

\* The reader keeps the tree and its frames in order.
LEMMA ShapeStep ==
  ASSUME TextInv, ShapeInv, Read
  PROVE  ShapeInv'
<1> SUFFICES ASSUME Fine' PROVE \E t \in Nat : TreeInv(t)' /\ FramesInv(t)'
  BY DEF ShapeInv
<1>1. CASE TextEnds
  BY <1>1 DEF TextEnds, Fine
<1>2. ASSUME NEW u \in Offered, ReadUnit(u) PROVE \E t \in Nat : TreeInv(t)' /\ FramesInv(t)'
  <2>1. ~ BadString(u) /\ ~ BadNumber(u) /\ ~ Unexpected(u)
    BY DEF BadString, BadNumber, Unexpected, Fail, Fine
  <2>2. Fine
    BY <1>2, <2>1
       DEF ReadUnit, Fine, SkipSpace, ReadLiteral, NumberBegins, NumberGoesOn, NumberEnds, StringBegins,
           StringGoesOn, StringEnds, OpenArray, OpenObject, Open, FirstElement, NextElement, FirstKey,
           NextKey, KeyBegins, KeyEnds, ReadColon, Close, Skipping
  <2>3. PICK t \in Nat : TreeInv(t) /\ FramesInv(t)
    BY <2>2 DEF ShapeInv
  <2>4. CASE SkipSpace(u) \/ NumberBegins(u) \/ NumberGoesOn(u) \/ StringBegins(u)
             \/ StringGoesOn(u) \/ KeyBegins(u)
    BY <2>3, <2>4, QuietSteps, QuietShape
  <2>5. CASE ReadLiteral(u) \/ NumberEnds(u) \/ StringEnds(u)
    BY <2>3, <2>5, FinishHasEffect, FinishShape
  <2>6. CASE OpenArray(u) \/ OpenObject(u)
    BY <2>3, <2>6, OpenShape
  <2>7. CASE FirstElement(u) \/ NextElement(u)
    <3>1. PICK n \in Nat : MemberBegun(t, Decimal[n])
      BY <2>3, <2>7, ElementShape
    <3>2. PICK t2 \in {t, t + 1} : TreeInv(t2)' /\ FramesInv(t2)'
      BY <3>1 DEF MemberBegun
    <3>3. t2 \in Nat
      OBVIOUS
    <3>4. QED BY <3>2, <3>3
  <2>8. CASE FirstKey(u) \/ NextKey(u)
    BY <2>3, <2>8, AllocateShape
  <2>9. CASE KeyEnds(u)
    <3>1. MemberBegun(t, Contents(scratch))
      BY <2>3, <2>9, KeyShape
    <3>2. PICK t2 \in {t, t + 1} : TreeInv(t2)' /\ FramesInv(t2)'
      BY <3>1 DEF MemberBegun
    <3>3. t2 \in Nat
      OBVIOUS
    <3>4. QED BY <3>2, <3>3
  <2>10. CASE ReadColon(u)
    BY <2>3, <2>10, ColonShape
  <2>11. CASE Close(u)
    BY <2>3, <2>11, CloseShape
  <2>12. QED
    BY <1>2, <2>1, <2>4, <2>5, <2>6, <2>7, <2>8, <2>9, <2>10, <2>11 DEF ReadUnit
<1>3. QED BY <1>1, <1>2 DEF Read

\* At the start there is the root.
LEMMA ShapeInit ==
  ASSUME at = "value", frames = <<>>, item = Root, path = <<>>, count = 0,
         node = [i \in {Root} |-> NewNode(<<>>)], fresh = NoNode
  PROVE  ShapeInv
<1>1. node \in [0 .. 0 -> Record] /\ node[0].kids = <<>>
  <2>1. NewNode(<<>>) \in Record /\ NewNode(<<>>).kids = <<>>
    BY NewNodeIsRecord, EmptySeq
  <2>2. {Root} = 0 .. 0
    BY DEF Root
  <2>3. QED BY <2>1, <2>2
<1>2. Tree(node, 0)
  <2>1. 0 .. 0 \subseteq DOMAIN node
    BY <1>1
  <2>2. \A n \in 0 .. 0 : node[n].kids = <<>>
    BY <1>1
  <2>3. <<>> \in Seq(0 .. 0) /\ Len(<<>>) = 0
    BY EmptySeq
  <2>4. ASSUME NEW n \in 0 .. 0
        PROVE  node[n].kids \in Seq(0 .. 0) /\ \A i \in 1 .. Len(node[n].kids) : n < node[n].kids[i]
    <3>1. node[n].kids = <<>>
      BY <2>2
    <3> DEFINE s == node[n].kids
    <3>2. s \in Seq(0 .. 0) /\ Len(s) = 0
      BY <2>3, <3>1
    <3> HIDE DEF s
    <3>3. \A i : i \notin 1 .. Len(s)
      BY <3>2
    <3>4. QED BY <3>2, <3>3 DEF s
  <2>5. \A c : c \notin 1 .. 0
    OBVIOUS
  <2>6. QED BY <2>1, <2>4, <2>5 DEF Tree
<1>3. TreeInv(0)
  BY <1>1, <1>2 DEF TreeInv, KeyStates
<1>4. Linked(frames, 0) /\ path \in Seq(Seq(Chars))
  <2>1. frames \in Seq(Frame(0)) /\ Len(frames) = 0
    BY EmptySeq
  <2>2. path \in Seq(Seq(Chars))
    BY EmptySeq
  <2>3. QED BY <2>1, <2>2 DEF Linked
<1>5. FramesInv(0)
  BY <1>4 DEF FramesInv, Between, KeyStates, Root
<1>6. QED BY <1>3, <1>5 DEF ShapeInv

\* So every node is in the tree, or waits for its key.
LEMMA ShapeHoldsNodes == ShapeInv => NodesInTree
<1> SUFFICES ASSUME NEW t \in Nat, TreeInv(t) PROVE DOMAIN node = Reached(node) \cup ({fresh} \ {NoNode})
  BY DEF ShapeInv, NodesInTree, Fine
<1>1. CASE at \in KeyStates
  <2>1. fresh = t + 1 /\ DOMAIN node = 0 .. t + 1 /\ Tree(node, t) /\ t + 1 \in Nat
    BY <1>1 DEF TreeInv
  <2>2. Reached(node) = 0 .. t
    BY <2>1, TreeIsReached
  <2>3. QED BY <2>1, <2>2 DEF NoNode
<1>2. CASE at \notin KeyStates
  <2>1. fresh = NoNode /\ DOMAIN node = 0 .. t /\ Tree(node, t)
    BY <1>2 DEF TreeInv
  <2>2. Reached(node) = 0 .. t
    BY <2>1, TreeIsReached
  <2>3. QED BY <2>1, <2>2
<1>3. QED BY <1>1, <1>2

-----------------------------------------------------------------------------
(* The names.                                                              *)

\* The frame f reads a member of its node, of the name q.
Child(h, f, q) ==
  /\ f.child \in ToSet(h[f.item].kids)
  /\ q = h[f.child].key /\ q \notin {<<>>, <<"*">>}

\* The path p names the members that are read in the first d frames.
InPlace(h, fs, p, d) == Len(p) = d /\ \A k \in 1 .. d : Child(h, fs[k], p[k])

\* No two members of a node have the same name.
OwnNames(h, n) ==
  \A i, j \in 1 .. Len(h[n].kids) : h[h[n].kids[i]].key = h[h[n].kids[j]].key => i = j
AllNames(h) == \A n \in DOMAIN h : OwnNames(h, n)

\* The frames that read a member: all, or all but the last.
Depth(where, fs) == IF where \in Between THEN Len(fs) - 1 ELSE Len(fs)

NamedInv == Fine /\ ~ odd => InPlace(node, frames, path, Depth(at, frames)) /\ AllNames(node)

\* What the search for a member k of n finds: itself, if there is one.
Finds(h, n, k, found) ==
  \/ found = NoNode /\ \A q \in 1 .. Len(h[n].kids) : h[h[n].kids[q]].key # k
  \/ found \in ToSet(h[n].kids) /\ h[found].key = k

\* The first member of a name, if any, is the one before which there is none.
LEMMA FirstNamed ==
  ASSUME NEW h, NEW n, NEW k, NEW K \in Nat, K = Len(h[n].kids)
  PROVE  \E q : FirstIs(h, n, k, q)
<1> USE DEF FirstIs
<1> DEFINE Q == {q \in 1 .. K : h[h[n].kids[q]].key = k}
<1>1. CASE Q = {}
  <2>1. K + 1 \in 1 .. K + 1 /\ ~ (K + 1 <= K) /\ (K + 1) - 1 = K
    OBVIOUS
  <2>2. \A a \in 1 .. K : h[h[n].kids[a]].key # k
    BY <1>1
  <2>3. QED BY <2>1, <2>2
<1>2. CASE Q # {}
  <2>1. Q \subseteq Nat
    OBVIOUS
  <2> HIDE DEF Q
  <2>2. PICK q \in Q : \A a \in Q : q <= a
    BY <1>2, <2>1, LeastElement
  <2>3. q \in 1 .. K /\ h[h[n].kids[q]].key = k
    BY DEF Q
  <2>4. ASSUME NEW a \in 1 .. q - 1 PROVE h[h[n].kids[a]].key # k
    <3>1. a \in 1 .. K /\ ~ (q <= a)
      BY <2>3
    <3>2. a \notin Q
      BY <2>2, <3>1
    <3>3. QED BY <3>1, <3>2 DEF Q
  <2>5. q \in 1 .. K + 1
    BY <2>3
  <2>6. QED BY <2>3, <2>4, <2>5
<1>3. QED BY <1>1, <1>2

\* The path leads to the node of the last frame, where the search goes on.
LEMMA PathLeads ==
  ASSUME NEW t, NEW h \in [0 .. t + 1 -> Record], Tree(h, t), h[t + 1].kids = <<>>,
         NEW fs, Linked(fs, t), NEW d \in Nat, Len(fs) = d + 1,
         NEW p, InPlace(h, fs, p, d), p \in Seq(Seq(Chars)), AllNames(h),
         NEW k \in Seq(Chars), k \notin {<<>>, <<"*">>}
  PROVE  Finds(h, fs[d + 1].item, k, FindIn(h, Root, p \o <<k>>))
<1> DEFINE C == Seq(Chars)
           names == p \o <<k>>
           search == Search(h, names, FALSE)
<1>1. /\ names \in Seq(C) /\ Len(names) = d + 1 /\ names[d + 1] = k
      /\ \A j \in 1 .. d : names[j] = p[j]
  <2>1. p \in Seq(C) /\ <<k>> \in Seq(C) /\ Len(p) = d /\ Len(<<k>>) = 1 /\ <<k>>[1] = k
    BY DEF InPlace
  <2> DEFINE s == <<k>>
  <2> HIDE DEF C, s
  <2>2. /\ p \o s \in Seq(C) /\ Len(p \o s) = Len(p) + Len(s)
        /\ \A j \in 1 .. Len(p) + Len(s) : (p \o s)[j] = IF j <= Len(p) THEN p[j] ELSE s[j - Len(p)]
    BY <2>1, ConcatProperties DEF s
  <2>3. d + 1 \in 1 .. d + 1 /\ ~ (d + 1 <= d) /\ (d + 1) - d = 1 /\ \A j \in 1 .. d : j \in 1 .. d + 1 /\ j <= d
    OBVIOUS
  <2>4. Len(s) = 1 /\ s[1] = k
    BY <2>1 DEF s
  <2>5. QED BY <2>1, <2>2, <2>3, <2>4 DEF s
<1>2. names[1] \notin {<<>>, <<"*">>}
  <2>1. CASE d = 0
    BY <1>1, <2>1
  <2>2. CASE d # 0
    <3>1. 1 \in 1 .. d
      BY <2>2
    <3>2. QED BY <1>1, <3>1 DEF InPlace, Child
  <2>3. QED BY <2>1, <2>2
<1> HIDE DEF names
<1>3. FindIn(h, Root, names) = search[<<Root, 1>>].node
  <2>1. Recursive(names) = FALSE /\ Tokens(names) = names
    BY <1>2 DEF Recursive, Tokens
  <2>2. QED BY <2>1 DEF FindIn
<1>4. Descends(h, t + 1) /\ t \in Nat /\ DOMAIN h = 0 .. t + 1
  BY TreeDescends DEF Tree
<1>5. \A on \in 0 .. t : h[on].kids \in Seq(0 .. t)
  BY DEF Tree
<1>6. fs \in Seq(Frame(t)) /\ fs[1].item = Root /\ \A j \in 1 .. d : fs[j + 1].item = fs[j].child
  <2>1. fs # <<>>
    OBVIOUS
  <2>2. QED BY <2>1 DEF Linked
<1>7. \A j \in 1 .. d + 1 : fs[j].item \in 0 .. t
  <2>1. \A j \in 1 .. d + 1 : fs[j] \in Frame(t)
    BY <1>6, ElementOfSeq
  <2>2. QED BY <2>1 DEF Frame
<1>8. Direct(h, names, search)
  BY DEF Direct
<1> HIDE DEF search
<1> DEFINE T == {j \in 0 .. d : search[<<fs[j + 1].item, j + 1>>] = search[<<Root, 1>>]}
<1>9. 0 \in T
  BY <1>6
<1>10. ASSUME NEW j \in 0 .. d - 1, j \in T PROVE j + 1 \in T
  <2> DEFINE x == j + 1
             on == fs[x].item
  <2>1. x \in 1 .. d /\ x \in 1 .. Len(names) /\ x # Len(names) /\ Len(names) \in Nat /\ x + 1 \in 1 .. d + 1
    <3>1. x \in 1 .. d /\ x \in 1 .. d + 1 /\ x # d + 1 /\ d + 1 \in Nat /\ x + 1 \in 1 .. d + 1
      OBVIOUS
    <3>2. Len(names) = d + 1
      BY <1>1
    <3>3. QED BY <3>1, <3>2
  <2>2. on \in 0 .. t /\ on \in 0 .. t + 1
    BY <1>4, <1>7, <2>1
  <2>3. Child(h, fs[x], names[x])
    BY <1>1, <2>1 DEF InPlace
  <2> HIDE DEF x
  <2>4. PICK q \in 1 .. Len(h[on].kids) : fs[x].child = h[on].kids[q]
    <3>1. h[on].kids \in Seq(0 .. t)
      BY <1>5, <2>2
    <3>2. fs[x].child \in ToSet(h[on].kids)
      BY <2>3 DEF Child
    <3> DEFINE c == fs[x].child
               s == h[on].kids
    <3> HIDE DEF c, s
    <3>3. \E q \in 1 .. Len(s) : c = s[q]
      <4>1. s \in Seq(0 .. t) /\ c \in ToSet(s)
        BY <3>1, <3>2 DEF c, s
      <4>2. QED BY <4>1, SetOfSeq
    <3>4. QED BY <3>3 DEF c, s
  <2>5. h[on].kids \in Seq(0 .. t) /\ Len(h[on].kids) \in Nat
    BY <1>5, <2>2
  <2>6. h[h[on].kids[q]].key = names[x]
    BY <2>3, <2>4 DEF Child
  <2>7. ASSUME NEW a \in 1 .. q - 1 PROVE h[h[on].kids[a]].key # names[x]
    <3>1. a \in 1 .. Len(h[on].kids) /\ a # q
      BY <2>4, <2>5
    <3>2. OwnNames(h, on)
      BY <1>4, <2>2 DEF AllNames
    <3>3. h[h[on].kids[a]].key # h[h[on].kids[q]].key
      BY <2>4, <3>1, <3>2 DEF OwnNames
    <3>4. QED BY <2>6, <3>3
  <2>8. q \in 1 .. Len(h[on].kids) + 1 /\ ~ (q > Len(h[on].kids))
    BY <2>4, <2>5
  <2>9. search[<<on, x>>] = search[<<h[on].kids[q], x + 1>>]
    <3> HIDE DEF on
    <3>1. FirstIs(h, on, names[x], q)
      BY <2>6, <2>7, <2>8 DEF FirstIs
    <3>2. GoesOn(h, names, on, x, q, search)
      BY <1>4, <1>8, <2>1, <2>2, <3>1, PlainSearch
    <3>3. QED BY <2>1, <2>8, <3>2 DEF GoesOn
  <2>10. search[<<fs[x + 1].item, x + 1>>] = search[<<on, x>>]
    BY <1>6, <2>1, <2>4, <2>9
  <2>11. QED BY <1>10, <2>1, <2>10 DEF x
<1> HIDE DEF T
<1>11. d \in T
  <2>1. \A j \in 0 .. d : j \in T
    BY <1>9, <1>10, InductUpTo
  <2>2. QED BY <2>1
<1> DEFINE on == fs[d + 1].item
           K == Len(h[on].kids)
<1>12. search[<<on, d + 1>>] = search[<<Root, 1>>]
  BY <1>11 DEF T
<1>13. on \in 0 .. t /\ on \in 0 .. t + 1 /\ h[on].kids \in Seq(0 .. t) /\ K \in Nat
  <2>1. d + 1 \in 1 .. d + 1
    OBVIOUS
  <2>2. on \in 0 .. t
    BY <1>7, <2>1
  <2>3. QED BY <1>4, <1>5, <2>2
<1> HIDE DEF on
<1>14. PICK q : FirstIs(h, on, k, q)
  BY <1>13, FirstNamed
<1>15. /\ q \in 1 .. K + 1
       /\ \A a \in 1 .. q - 1 : h[h[on].kids[a]].key # k
       /\ q <= K => h[h[on].kids[q]].key = k
  BY <1>14 DEF FirstIs
<1>16. search[<<on, d + 1>>] = IF q > K THEN [node |-> NoNode, i |-> d + 1] ELSE [node |-> h[on].kids[q], i |-> d + 2]
  <2>1. d + 1 \in 1 .. Len(names) /\ Len(names) \in Nat /\ d + 1 = Len(names) /\ (d + 1) + 1 = d + 2
    BY <1>1
  <2> DEFINE x == d + 1
  <2>2. x \in 1 .. Len(names) /\ FirstIs(h, on, names[x], q)
    BY <1>1, <1>14, <2>1
  <2> HIDE DEF x
  <2>3. GoesOn(h, names, on, x, q, search)
    BY <1>4, <1>13, <1>8, <2>1, <2>2, PlainSearch
  <2>4. QED BY <2>1, <2>3 DEF x, GoesOn
<1>17. FindIn(h, Root, names) = IF q > K THEN NoNode ELSE h[on].kids[q]
  BY <1>3, <1>12, <1>16
<1>18. CASE q > K
  <2>1. \A a \in 1 .. K : a \in 1 .. q - 1
    <3> HIDE DEF K
    <3>1. QED BY <1>13, <1>18, <1>15
  <2>2. QED BY <1>15, <1>17, <1>18, <2>1 DEF Finds, names, on
<1>19. CASE ~ (q > K)
  <2>1. q \in 1 .. K /\ h[h[on].kids[q]].key = k
    BY <1>13, <1>15, <1>19
  <2>2. h[on].kids[q] \in ToSet(h[on].kids)
    BY <1>13, <2>1, SetOfSeq
  <2>3. QED BY <1>17, <1>19, <2>1, <2>2 DEF Finds, names, on
<1>20. QED BY <1>18, <1>19

\* Nodes of the tree that keep their names and their members stay in place.
Keeps(h, g, t) == \A n \in 0 .. t : g[n].key = h[n].key /\ ToSet(h[n].kids) \subseteq ToSet(g[n].kids)

\* So do the frames and the path.
LEMMA PlacesKept ==
  ASSUME NEW t \in Nat, NEW h, Tree(h, t), NEW g, Keeps(h, g, t),
         NEW fs, Linked(fs, t), NEW d \in Nat, d <= Len(fs), NEW p, InPlace(h, fs, p, d)
  PROVE  InPlace(g, fs, p, d)
<1> SUFFICES ASSUME NEW k \in 1 .. d PROVE Child(g, fs[k], p[k])
  BY DEF InPlace
<1>1. Child(h, fs[k], p[k])
  BY DEF InPlace
<1>2. fs[k] \in Frame(t)
  <2>1. fs \in Seq(Frame(t))
    BY DEF Linked
  <2>2. k \in 1 .. Len(fs)
    <3>1. Len(fs) \in Nat
      BY <2>1
    <3>2. QED BY <3>1
  <2>3. QED BY <2>1, <2>2, ElementOfSeq
<1> DEFINE n == fs[k].item
           c == fs[k].child
<1>3. n \in 0 .. t /\ h[n].kids \in Seq(0 .. t)
  BY <1>2 DEF Frame, Tree
<1>4. c \in ToSet(h[n].kids)
  BY <1>1 DEF Child
<1>5. c \in 0 .. t
  <2>1. ToSet(h[n].kids) \subseteq 0 .. t
    BY <1>3, SetOfSeq
  <2>2. QED BY <1>4, <2>1
<1>6. g[c].key = h[c].key /\ c \in ToSet(g[n].kids)
  BY <1>3, <1>4, <1>5 DEF Keeps
<1>7. QED BY <1>1, <1>6 DEF Child

\* A node whose members are old ones keeps them apart.
LEMMA NamesKept ==
  ASSUME NEW t, NEW h, NEW g, \A c \in 0 .. t : g[c].key = h[c].key,
         NEW n, h[n].kids \in Seq(0 .. t), g[n].kids = h[n].kids, OwnNames(h, n)
  PROVE  OwnNames(g, n)
<1>1. \A i \in 1 .. Len(h[n].kids) : h[n].kids[i] \in 0 .. t
  BY ElementOfSeq
<1>2. \A i \in 1 .. Len(h[n].kids) : g[h[n].kids[i]].key = h[h[n].kids[i]].key
  BY <1>1
<1>3. QED BY <1>2 DEF OwnNames

\* A node without members has no two of them.
LEMMA NoNames == ASSUME NEW h, NEW n, h[n].kids = <<>> PROVE OwnNames(h, n)
  BY DEF OwnNames

\* One whose last member has a name of its own keeps them apart, too.
LEMMA NameAdded ==
  ASSUME NEW t \in Nat, NEW h, NEW g, \A c \in 0 .. t : g[c].key = h[c].key,
         NEW n, h[n].kids \in Seq(0 .. t), g[n].kids = Append(h[n].kids, t + 1), OwnNames(h, n),
         \A q \in 1 .. Len(h[n].kids) : h[h[n].kids[q]].key # g[t + 1].key
  PROVE  OwnNames(g, n)
<1> DEFINE s == h[n].kids
           r == g[n].kids
           L == Len(s)
<1>1. /\ L \in Nat /\ Len(r) = L + 1 /\ r[L + 1] = t + 1
      /\ \A i \in 1 .. L : r[i] = s[i] /\ s[i] \in 0 .. t
  <2>1. s \in Seq(0 .. t) /\ r = Append(s, t + 1)
    OBVIOUS
  <2> HIDE DEF s, r
  <2>2. QED BY <2>1, ElementOfSeq
<1>2. \A i \in 1 .. L : g[r[i]].key = h[s[i]].key /\ h[s[i]].key # g[t + 1].key
  BY <1>1
<1>3. \A i, j \in 1 .. L : h[s[i]].key = h[s[j]].key => i = j
  BY DEF OwnNames
<1> SUFFICES ASSUME NEW i \in 1 .. L + 1, NEW j \in 1 .. L + 1, g[r[i]].key = g[r[j]].key PROVE i = j
  BY <1>1 DEF OwnNames
<1> HIDE DEF s, r, L
<1>4. (i \in 1 .. L \/ i = L + 1) /\ (j \in 1 .. L \/ j = L + 1)
  BY <1>1
<1>5. QED BY <1>1, <1>2, <1>3, <1>4

\* What is left of the path when a value is complete.
LEMMA DoneNames ==
  ASSUME NEW t \in Nat, Tree(node, t), NEW fs, Linked(fs, t), ValueDone(fs), path \in Seq(Seq(Chars)),
         InPlace(node, fs, path, Len(fs)), Keeps(node, node', t)
  PROVE  InPlace(node', frames', path', Depth(at', frames'))
<1> DEFINE n == Len(fs)
<1>1. fs \in Seq(Frame(t)) /\ n \in Nat /\ Len(path) = n
  BY DEF Linked, InPlace
<1>2. CASE fs = <<>>
  <2>1. frames' = <<>> /\ path' = path /\ Depth(at', frames') = 0 /\ Len(path) = 0
    BY <1>1, <1>2 DEF ValueDone, Depth, Between, KeyStates
  <2>2. QED BY <2>1 DEF InPlace
<1>3. CASE fs # <<>>
  <2> DEFINE x == [fs[n] EXCEPT !.child = NoNode]
  <2>1. n \in Nat \ {0}
    BY <1>1, <1>3, EmptySeq
  <2>2. frames' = [fs EXCEPT ![n] = x] /\ path' = PathPop /\ at' = "after"
    BY <1>3 DEF ValueDone
  <2>3. x \in Frame(t)
    <3>1. n \in 1 .. Len(fs)
      BY <2>1
    <3>2. fs[n] \in Frame(t)
      BY <1>1, <3>1, ElementOfSeq
    <3>3. QED BY <3>2 DEF Frame
  <2>4. Len(frames') = n /\ \A k \in 1 .. n - 1 : frames'[k] = fs[k]
    <3> DEFINE F == Frame(t)
               g == frames'
    <3>1. fs \in Seq(F) /\ x \in F /\ n \in 1 .. Len(fs) /\ g = [fs EXCEPT ![n] = x]
      BY <1>1, <2>1, <2>2, <2>3
    <3> HIDE DEF F, x, g
    <3>2. Len(g) = Len(fs) /\ \A k \in 1 .. Len(fs) : g[k] = IF k = n THEN x ELSE fs[k]
      BY <3>1, ExceptSeq
    <3>3. \A k \in 1 .. n - 1 : k \in 1 .. n /\ k # n
      BY <2>1
    <3>4. QED BY <3>2, <3>3 DEF g
  <2>5. path # <<>>
    BY <1>1, <2>1
  <2>6. path' = SubSeq(path, 1, n - 1)
    BY <1>1, <2>2, <2>5 DEF PathPop
  <2>7. Len(path') = n - 1 /\ \A k \in 1 .. n - 1 : path'[k] = path[k]
    <3> DEFINE C == Seq(Chars)
    <3>1. path \in Seq(C)
      OBVIOUS
    <3> HIDE DEF C, n
    <3>2. QED BY <1>1, <2>1, <2>6, <3>1
  <2>8. n - 1 \in Nat /\ n - 1 <= Len(fs) /\ InPlace(node, fs, path, n)
    BY <1>1, <2>1
  <2>9. \A k \in 1 .. n - 1 : Child(node', frames'[k], path'[k])
    <3>1. \A k \in 1 .. n : Child(node', fs[k], path[k])
      <4> DEFINE g == node'
      <4>1. Keeps(node, g, t) /\ n <= Len(fs)
        BY <1>1
      <4> HIDE DEF g
      <4>2. InPlace(g, fs, path, n)
        BY <1>1, <2>8, <4>1, PlacesKept
      <4>3. QED BY <4>2 DEF InPlace, g
    <3>2. \A k \in 1 .. n - 1 : k \in 1 .. n
      BY <2>1
    <3>3. QED BY <2>4, <2>7, <3>1, <3>2
  <2>10. Depth(at', frames') = n - 1
    BY <2>2, <2>4 DEF Depth, Between
  <2>11. QED BY <2>7, <2>9, <2>10 DEF InPlace
<1>4. QED BY <1>2, <1>3

\* The names do not depend on values.
LEMMA QuietNames ==
  ASSUME NamedInv, Fine, Quiet, UNCHANGED odd
  PROVE  NamedInv'
<1>1. Depth(at, frames)' = Depth(at, frames)
  BY DEF Quiet, Depth, Between, KeyStates
<1>2. QED BY <1>1 DEF Quiet, NamedInv, InPlace, AllNames, OwnNames

\* A node that is set keeps its name and its members.
LEMMA SetsNames ==
  ASSUME NEW t, NEW h \in [0 .. t -> Record], Tree(h, t), NEW i \in 0 .. t, NEW g, Sets(h, i, g), AllNames(h)
  PROVE  Keeps(h, g, t) /\ AllNames(g)
<1>1. g \in [0 .. t -> Record] /\ \A n \in 0 .. t : g[n].kids = h[n].kids /\ g[n].key = h[n].key
  <2>1. PICK r \in Record : r.kids = h[i].kids /\ r.key = h[i].key /\ g = [h EXCEPT ![i] = r]
    BY DEF Sets
  <2>2. QED BY <2>1
<1>2. DOMAIN g = 0 .. t /\ DOMAIN h = 0 .. t
  BY <1>1
<1>3. ASSUME NEW n \in 0 .. t PROVE OwnNames(g, n)
  <2>1. h[n].kids \in Seq(0 .. t) /\ OwnNames(h, n)
    BY <1>2 DEF Tree, AllNames
  <2>2. QED BY <1>1, <2>1, NamesKept
<1>4. QED BY <1>1, <1>2, <1>3 DEF Keeps, AllNames

\* A value is complete: the path is as before its name.
LEMMA FinishNames ==
  ASSUME NEW t \in Nat, TreeInv(t), FramesInv(t), NamedInv, Fine, Finish, UNCHANGED odd
  PROVE  NamedInv'
<1> SUFFICES ASSUME ~ odd PROVE InPlace(node', frames', path', Depth(at', frames')) /\ AllNames(node')
  BY DEF NamedInv
<1>1. node \in [0 .. t -> Record] /\ Tree(node, t) /\ item \in 0 .. t
  BY TreeAtValue DEF Finish, KeyStates, FramesInv
<1>2. InPlace(node, frames, path, Len(frames)) /\ AllNames(node)
  BY DEF NamedInv, Finish, Depth, Between, KeyStates
<1>3. Keeps(node, node', t) /\ AllNames(node')
  <2> DEFINE g == node'
  <2>1. Sets(node, item, g)
    BY DEF Finish
  <2> HIDE DEF g
  <2>2. Keeps(node, g, t) /\ AllNames(g)
    BY <1>1, <1>2, <2>1, SetsNames
  <2>3. QED BY <2>2 DEF g
<1>4. Linked(frames, t) /\ ValueDone(frames) /\ path \in Seq(Seq(Chars))
  BY DEF FramesInv, Finish
<1>5. QED BY <1>1, <1>2, <1>3, <1>4, DoneNames

\* An array or object is complete.
LEMMA CloseNames ==
  ASSUME NEW t \in Nat, TreeInv(t), FramesInv(t), NamedInv, Fine, NEW u, Close(u)
  PROVE  NamedInv'
<1> SUFFICES ASSUME ~ odd PROVE InPlace(node', frames', path', Depth(at', frames')) /\ AllNames(node')
  BY DEF NamedInv, Close
<1> DEFINE fs == SubSeq(frames, 1, Len(frames) - 1)
<1>1. at \in Between /\ ValueDone(fs) /\ UNCHANGED node
  BY DEF Close, Between
<1>2. Linked(frames, t) /\ frames # <<>> /\ path \in Seq(Seq(Chars)) /\ Tree(node, t)
  BY <1>1 DEF FramesInv, TreeInv
<1>3. TopRemoved(frames, fs, t)
  <2> DEFINE f == fs
  <2>1. f = SubSeq(frames, 1, Len(frames) - 1)
    OBVIOUS
  <2> HIDE DEF f
  <2>2. TopRemoved(frames, f, t)
    BY <1>2, <2>1, LinkedPop
  <2>3. QED BY <2>2 DEF f
<1>4. InPlace(node, frames, path, Len(frames) - 1) /\ AllNames(node)
  BY <1>1 DEF NamedInv, Depth
<1> HIDE DEF fs
<1>5. Linked(fs, t) /\ Len(fs) = Len(frames) - 1 /\ \A k \in 1 .. Len(frames) - 1 : fs[k] = frames[k]
  BY <1>3 DEF TopRemoved
<1>6. InPlace(node, fs, path, Len(fs))
  BY <1>4, <1>5 DEF InPlace
<1>7. Keeps(node, node', t)
  BY <1>1 DEF Keeps
<1>8. InPlace(node', frames', path', Depth(at', frames'))
  BY <1>1, <1>2, <1>5, <1>6, <1>7, DoneNames
<1>9. QED BY <1>1, <1>4, <1>8

\* An array or object is opened: its node has been named.
LEMMA OpenNames ==
  ASSUME NEW t \in Nat, TreeInv(t), FramesInv(t), NamedInv, Fine, NEW u, OpenArray(u) \/ OpenObject(u)
  PROVE  NamedInv'
<1> SUFFICES ASSUME ~ odd PROVE InPlace(node', frames', path', Depth(at', frames')) /\ AllNames(node')
  <2>1. UNCHANGED odd
    BY DEF OpenArray, OpenObject, Open
  <2>2. QED BY <2>1 DEF NamedInv
<1>1. PICK kind \in {"array", "object"} :
        /\ at = "value" /\ node' = SetType(node, item, kind)
        /\ frames' = Append(frames, [item |-> item, kind |-> kind, child |-> NoNode, saved |-> 0])
        /\ at' \in {"first element", "first key"}
        /\ UNCHANGED path
  BY DEF OpenArray, OpenObject, Open
<1>2. node \in [0 .. t -> Record] /\ Tree(node, t) /\ item \in 0 .. t
  BY <1>1, TreeAtValue DEF KeyStates, FramesInv
<1> DEFINE x == [item |-> item, kind |-> kind, child |-> NoNode, saved |-> 0]
<1>3. Linked(frames, t) /\ frames \in Seq(Frame(t)) /\ x \in Frame(t)
  BY <1>2 DEF FramesInv, Linked, Frame
<1>4. /\ Len(frames) \in Nat /\ Len(frames') = Len(frames) + 1
      /\ \A k \in 1 .. Len(frames) : frames'[k] = frames[k]
  <2> DEFINE F == Frame(t)
  <2>1. frames \in Seq(F) /\ x \in F /\ frames' = Append(frames, x)
    BY <1>1, <1>3
  <2> HIDE DEF F, x
  <2>2. QED BY <2>1
<1>5. Depth(at', frames') = Len(frames)
  <2>1. at' \in Between
    BY <1>1 DEF Between
  <2>2. Len(frames') - 1 = Len(frames)
    BY <1>4
  <2>3. QED BY <2>1, <2>2 DEF Depth
<1>6. InPlace(node, frames, path, Len(frames)) /\ AllNames(node)
  BY <1>1 DEF NamedInv, Depth, Between, KeyStates
<1>7. Keeps(node, node', t) /\ AllNames(node')
  <2> DEFINE g == node'
  <2>1. kind \in Types
    BY DEF Types
  <2>2. Sets(node, item, g)
    BY <1>1, <1>2, <2>1, SetTypeSets
  <2> HIDE DEF g
  <2>3. Keeps(node, g, t) /\ AllNames(g)
    BY <1>2, <1>6, <2>2, SetsNames
  <2>4. QED BY <2>3 DEF g
<1>8. Len(path) = Len(frames)
  BY <1>6 DEF InPlace
<1>9. \A k \in 1 .. Len(frames) : Child(node', frames'[k], path'[k])
  <2> DEFINE g == node'
             d == Len(frames)
  <2>1. Keeps(node, g, t) /\ d \in Nat /\ d <= Len(frames) /\ InPlace(node, frames, path, d)
    BY <1>4, <1>6, <1>7
  <2> HIDE DEF g, d
  <2>2. InPlace(g, frames, path, d)
    BY <1>2, <1>3, <2>1, PlacesKept
  <2>3. QED BY <1>1, <1>4, <2>2 DEF g, d, InPlace
<1>10. QED BY <1>1, <1>5, <1>7, <1>8, <1>9 DEF InPlace

\* The colon changes no name.
LEMMA ColonNames ==
  ASSUME NEW t \in Nat, TreeInv(t), FramesInv(t), NamedInv, Fine, NEW u, ReadColon(u)
  PROVE  NamedInv'
<1> SUFFICES ASSUME ~ odd PROVE InPlace(node', frames', path', Depth(at', frames')) /\ AllNames(node')
  BY DEF NamedInv, ReadColon
<1>1. /\ at = "colon" /\ at' = "value" /\ UNCHANGED <<path, node>>
      /\ frames' = [frames EXCEPT ![Len(frames)] = [@ EXCEPT !.saved = count]]
  BY DEF ReadColon
<1>2. Linked(frames, t) /\ frames # <<>> /\ count \in Nat
  BY <1>1 DEF FramesInv
<1>3. Top \in Frame(t)
  BY <1>2, TopFrame
<1> DEFINE x == [Top EXCEPT !.saved = count]
<1>4. x \in Frame(t) /\ x.item = Top.item /\ x.child = Top.child
  BY <1>2, <1>3 DEF Frame
<1>5. frames' = [frames EXCEPT ![Len(frames)] = x]
  BY <1>1 DEF Top
<1> HIDE DEF x
<1>6. Len(frames') = Len(frames) /\ \A k \in 1 .. Len(frames) : frames'[k] = IF k = Len(frames) THEN x ELSE frames[k]
  <2> DEFINE F == Frame(t)
             g == frames'
             n == Len(frames)
  <2>1. frames \in Seq(F) /\ x \in F /\ n \in 1 .. Len(frames) /\ g = [frames EXCEPT ![n] = x]
    BY <1>2, <1>4, <1>5, TopFrame DEF Linked
  <2> HIDE DEF F, g, n
  <2>2. Len(g) = Len(frames) /\ \A k \in 1 .. Len(frames) : g[k] = IF k = n THEN x ELSE frames[k]
    BY <2>1, ExceptSeq
  <2>3. QED BY <2>2 DEF g, n
<1>7. \A k \in 1 .. Len(frames) : frames'[k].item = frames[k].item /\ frames'[k].child = frames[k].child
  BY <1>4, <1>6 DEF Top
<1>8. InPlace(node, frames, path, Len(frames)) /\ AllNames(node) /\ Depth(at', frames') = Len(frames)
  BY <1>1, <1>6 DEF NamedInv, Depth, Between, KeyStates
<1>9. QED BY <1>1, <1>7, <1>8 DEF InPlace, Child

\* A node without a name yet is not among the members.
LEMMA AllocateNames ==
  ASSUME NEW t \in Nat, TreeInv(t), FramesInv(t), NamedInv, Fine, NEW u, FirstKey(u) \/ NextKey(u), Fine'
  PROVE  NamedInv'
<1> SUFFICES ASSUME ~ odd PROVE InPlace(node', frames', path', Depth(at', frames')) /\ AllNames(node')
  <2>1. UNCHANGED odd
    BY DEF FirstKey, NextKey
  <2>2. QED BY <2>1 DEF NamedInv
<1>1. /\ at \in {"first key", "after"} /\ at' \in KeyStates /\ Allocate /\ UNCHANGED <<frames, path>>
  BY DEF FirstKey, NextKey, Fine, KeyStates
<1>2. node \in [0 .. t -> Record] /\ Tree(node, t) /\ DOMAIN node = 0 .. t
  BY <1>1, TreeAtValue DEF KeyStates
<1>3. FreeId = t + 1
  BY <1>2, FreeIdIsNext
<1> DEFINE r == NewNode(<<>>)
           g == node'
<1>4. g = With(node, t + 1, r) /\ r \in Record /\ r.kids = <<>>
  BY <1>1, <1>3, NewNodeIsRecord, EmptySeq DEF Allocate
<1> HIDE DEF r, g
<1>5. g \in [0 .. t + 1 -> Record] /\ g[t + 1] = r /\ \A n \in 0 .. t : g[n] = node[n]
  <2> DEFINE w == With(node, t + 1, r)
  <2>2. w \in [0 .. t + 1 -> Record] /\ w[t + 1] = r /\ \A n \in 0 .. t : w[n] = node[n]
    <3>1. OneMore(node, t)
      BY <1>2 DEF OneMore
    <3>2. QED BY <1>4, <3>1, WithRecord
  <2>3. g = w
    BY <1>4
  <2> HIDE DEF w
  <2>4. QED BY <2>2, <2>3
<1>6. /\ Linked(frames, t) /\ Len(frames) \in Nat /\ frames # <<>>
      /\ InPlace(node, frames, path, Len(frames) - 1) /\ AllNames(node)
      /\ Depth(at', frames') = Len(frames) - 1
  <2>1. at \in Between /\ at' \in Between
    BY <1>1 DEF Between
  <2>2. Linked(frames, t) /\ frames # <<>>
    BY <2>1 DEF FramesInv
  <2>3. Len(frames) \in Nat
    BY <2>2 DEF Linked
  <2>4. Depth(at, frames) = Len(frames) - 1 /\ Depth(at', frames') = Len(frames) - 1
    BY <1>1, <2>1 DEF Depth
  <2>5. QED BY <2>2, <2>3, <2>4 DEF NamedInv
<1>7. Keeps(node, g, t)
  BY <1>5 DEF Keeps
<1>8. ASSUME NEW n \in 0 .. t + 1 PROVE OwnNames(g, n)
  <2>1. CASE n = t + 1
    BY <1>4, <1>5, <2>1, NoNames
  <2>2. CASE n \in 0 .. t
    <3>1. node[n].kids \in Seq(0 .. t) /\ OwnNames(node, n) /\ g[n].kids = node[n].kids
      BY <1>2, <1>5, <1>6, <2>2 DEF Tree, AllNames
    <3>2. \A c \in 0 .. t : g[c].key = node[c].key
      BY <1>5
    <3>3. QED BY <3>1, <3>2, NamesKept
  <2>3. QED BY <2>1, <2>2
<1>9. AllNames(g)
  BY <1>5, <1>8 DEF AllNames
<1>10. \A k \in 1 .. Len(frames) - 1 : Child(g, frames[k], path[k])
  <2> DEFINE d == Len(frames) - 1
  <2>1. d \in Nat /\ d <= Len(frames) /\ Len(path) \in Nat
    <3>1. frames \in Seq(Frame(t))
      BY <1>6 DEF Linked
    <3>2. Len(frames) # 0
      BY <1>6, <3>1
    <3>3. QED BY <1>6, <3>2 DEF InPlace
  <2>2. InPlace(node, frames, path, d)
    BY <1>6
  <2> HIDE DEF d
  <2>3. InPlace(g, frames, path, d)
    BY <1>2, <1>6, <1>7, <2>1, <2>2, PlacesKept
  <2>4. QED BY <2>3 DEF d, InPlace
<1>11. QED BY <1>1, <1>6, <1>9, <1>10 DEF InPlace, g

\* A node beside the tree does not change the names.
LEMMA BesideNames ==
  ASSUME NEW t \in Nat, NEW h, Tree(h, t), 0 .. t + 1 \subseteq DOMAIN h \/ DOMAIN h = 0 .. t, AllNames(h),
         NEW g \in [0 .. t + 1 -> Record], g[t + 1].kids = <<>>, \A n \in 0 .. t : g[n] = h[n]
  PROVE  Keeps(h, g, t) /\ AllNames(g)
<1>1. ASSUME NEW n \in 0 .. t + 1 PROVE OwnNames(g, n)
  <2>1. CASE n = t + 1
    BY <2>1, NoNames
  <2>2. CASE n \in 0 .. t
    <3>1. h[n].kids \in Seq(0 .. t) /\ OwnNames(h, n) /\ g[n].kids = h[n].kids
      BY <2>2 DEF Tree, AllNames
    <3>2. \A c \in 0 .. t : g[c].key = h[c].key
      OBVIOUS
    <3>3. QED BY <3>1, <3>2, NamesKept
  <2>3. QED BY <2>1, <2>2
<1>2. QED BY <1>1 DEF Keeps, AllNames

\* The name of the member comes last in the path.
LEMMA PathGrows ==
  ASSUME NEW h, NEW fs, NEW d \in Nat, NEW p \in Seq(Seq(Chars)), InPlace(h, fs, p, d), NEW k \in Seq(Chars),
         NEW fs2, \A j \in 1 .. d : fs2[j] = fs[j], Child(h, fs2[d + 1], k),
         NEW p2, p2 = p \o <<k>>
  PROVE  InPlace(h, fs2, p2, d + 1)
<1> DEFINE C == Seq(Chars)
           s == <<k>>
<1>1. p \in Seq(C) /\ s \in Seq(C) /\ Len(p) = d /\ Len(s) = 1 /\ s[1] = k /\ p2 = p \o s
  BY DEF InPlace
<1> HIDE DEF C, s
<1>2. /\ Len(p \o s) = Len(p) + Len(s)
      /\ \A j \in 1 .. Len(p) + Len(s) : (p \o s)[j] = IF j <= Len(p) THEN p[j] ELSE s[j - Len(p)]
  BY <1>1, ConcatProperties
<1>3. Len(p2) = d + 1 /\ \A j \in 1 .. d + 1 : p2[j] = IF j <= d THEN p[j] ELSE s[j - d]
  BY <1>1, <1>2
<1>4. \A j \in 1 .. d + 1 : (j \in 1 .. d /\ j <= d) \/ (j = d + 1 /\ ~ (j <= d) /\ j - d = 1)
  OBVIOUS
<1>5. \A j \in 1 .. d + 1 : (j \in 1 .. d /\ p2[j] = p[j]) \/ (j = d + 1 /\ p2[j] = k)
  BY <1>1, <1>3, <1>4
<1>6. \A j \in 1 .. d + 1 : Child(h, fs2[j], p2[j])
  BY <1>5 DEF InPlace
<1>7. QED BY <1>3, <1>6 DEF InPlace

\* A member that is new has a name of its own; one that is found is the member
\* of that name.
LEMMA MemberNames ==
  ASSUME NEW t \in Nat, TreeInv(t), FramesInv(t), NamedInv, Fine, at \in Between, NEW k \in Seq(Chars),
         MemberBegun(t, k), at' \in {"value", "colon"}
  PROVE  NamedInv'
<1> SUFFICES ASSUME ~ odd' PROVE InPlace(node', frames', path', Depth(at', frames')) /\ AllNames(node')
  BY DEF NamedInv
<1> DEFINE h == WithKid(t, k)
           d == Len(frames) - 1
           g == node'
           fs2 == frames'
           p2 == path'
<1>1. JoinEffect(h, t, k) /\ KidAdded(t, k)
  BY DEF MemberBegun
<1>2. ~ odd /\ Names(k) = <<k>> /\ k \notin {<<>>, <<"*">>}
  <2>1. ~ odd /\ ~ (Len(Names(k)) > 1) /\ k \notin {<<>>, <<"*">>}
    <3>1. odd' = (odd \/ Len(Names(k)) > 1 \/ k \in {<<>>, <<"*">>})
      BY <1>1 DEF JoinEffect
    <3>2. QED BY <3>1, Zenon
  <2>2. Len(Names(k)) >= 1 /\ (Len(Names(k)) = 1 => Names(k) = <<k>>) /\ Names(k) \in Seq(Seq(Chars))
    BY NamesType
  <2>3. Len(Names(k)) \in Nat
    BY <2>2
  <2>4. Len(Names(k)) = 1
    <3> DEFINE l == Len(Names(k))
    <3>1. l \in Nat /\ l >= 1 /\ ~ (l > 1)
      BY <2>1, <2>2, <2>3
    <3> HIDE DEF l
    <3>2. l = 1
      BY <3>1
    <3>3. QED BY <3>2 DEF l
  <2>5. QED BY <2>1, <2>2, <2>4
<1>3. p2 = path \o <<k>>
  BY <1>1, <1>2 DEF JoinEffect
<1>4. /\ Linked(frames, t) /\ frames # <<>> /\ d \in Nat /\ Len(frames) = d + 1 /\ path \in Seq(Seq(Chars))
      /\ Top.child = NoNode /\ item = frames[d + 1].item /\ item \in 0 .. t
  <2>1. Linked(frames, t) /\ frames # <<>> /\ path \in Seq(Seq(Chars)) /\ item \in 0 .. t
        /\ Top.child = NoNode /\ item = Top.item
    BY DEF FramesInv
  <2>2. Len(frames) \in Nat \ {0}
    <3>1. frames \in Seq(Frame(t))
      BY <2>1 DEF Linked
    <3>2. QED BY <2>1, <3>1, EmptySeq
  <2>3. QED BY <2>1, <2>2 DEF Top
<1>5. InPlace(node, frames, path, d) /\ AllNames(node)
  BY <1>2 DEF NamedInv, Depth
<1>6. /\ h \in [0 .. t + 1 -> Record] /\ Tree(h, t) /\ h[t + 1].kids = <<>> /\ h[t + 1].key = k
      /\ \A n \in 0 .. t : h[n] = node[n]
  BY <1>1, NewNodeIsRecord DEF KidAdded
<1>7. /\ Len(fs2) = Len(frames) /\ fs2[d + 1].item = item /\ fs2[d + 1].child = item'
      /\ \A j \in 1 .. d : fs2[j] = frames[j]
  <2>1. /\ Len(fs2) = Len(frames) /\ Top'.item = Top.item /\ Top'.child = item'
        /\ \A j \in 1 .. Len(frames) - 1 : fs2[j] = frames[j]
    BY DEF MemberBegun
  <2>2. QED BY <1>4, <2>1 DEF Top
<1>8. Depth(at', fs2) = d + 1
  BY <1>4, <1>7 DEF Depth, Between, KeyStates
<1>9. JoinedNew(h, t) \/ JoinedOld(h, t)
  BY <1>1 DEF JoinEffect
<1>10. JoinedNew(h, t) => g = AddKid(h, item, t + 1) /\ g \in [0 .. t + 1 -> Record]
                          /\ item' = t + 1 /\ FindIn(h, Root, p2) = NoNode
  BY DEF JoinedNew
<1>11. JoinedOld(h, t) => g \in [0 .. t -> Record] /\ (\A n \in 0 .. t : g[n] = h[n])
                          /\ item' \in 1 .. t /\ FindIn(h, Root, p2) = item'
  BY DEF JoinedOld
<1> HIDE DEF h, d, g, fs2, p2
<1>12. Keeps(node, h, t) /\ AllNames(h)
  <2>1. Tree(node, t) /\ (0 .. t + 1 \subseteq DOMAIN node \/ DOMAIN node = 0 .. t)
    BY DEF TreeInv
  <2>2. QED BY <1>5, <1>6, <2>1, BesideNames
<1>13. InPlace(h, frames, path, d)
  <2>1. Tree(node, t) /\ d <= Len(frames)
    BY <1>4 DEF TreeInv
  <2>2. QED BY <1>4, <1>5, <1>12, <2>1, PlacesKept
<1>14. Finds(h, item, k, FindIn(h, Root, p2))
  <2> DEFINE p == path
             fs == frames
  <2>1. p \in Seq(Seq(Chars)) /\ Linked(fs, t) /\ Len(fs) = d + 1 /\ InPlace(h, fs, p, d)
    BY <1>4, <1>13
  <2> HIDE DEF p, fs
  <2>2. Finds(h, fs[d + 1].item, k, FindIn(h, Root, p \o <<k>>))
    BY <1>2, <1>4, <1>6, <1>12, <2>1, PathLeads
  <2>3. QED BY <1>3, <1>4, <2>2 DEF p, fs
<1>15. h[item].kids \in Seq(0 .. t)
  BY <1>4, <1>6 DEF Tree
<1>16. ASSUME Keeps(h, g, t), item' \in ToSet(g[item].kids), g[item'].key = k
       PROVE  InPlace(g, fs2, p2, d + 1)
  <2>1. d <= Len(frames)
    BY <1>4
  <2>2. InPlace(g, frames, path, d)
    BY <1>4, <1>6, <1>13, <1>16, <2>1, PlacesKept
  <2>3. Child(g, fs2[d + 1], k)
    BY <1>2, <1>7, <1>16 DEF Child
  <2>4. QED BY <1>3, <1>4, <1>7, <2>2, <2>3, PathGrows
<1>17. CASE JoinedNew(h, t)
  <2>1. g = AddKid(h, item, t + 1) /\ item' = t + 1 /\ FindIn(h, Root, p2) = NoNode /\ g \in [0 .. t + 1 -> Record]
    BY <1>10, <1>17
  <2>2. /\ g[item] = [h[item] EXCEPT !.kids = Append(h[item].kids, t + 1)]
        /\ \A n \in 0 .. t + 1 : n # item => g[n] = h[n]
    <3> DEFINE r == [h[item] EXCEPT !.kids = Append(h[item].kids, t + 1)]
    <3>1. g = [h EXCEPT ![item] = r]
      BY <2>1 DEF AddKid
    <3>2. item \in DOMAIN h /\ DOMAIN h = 0 .. t + 1
      BY <1>4, <1>6
    <3> HIDE DEF r
    <3>3. g[item] = r /\ \A n \in 0 .. t + 1 : n # item => g[n] = h[n]
      BY <3>1, <3>2
    <3>4. QED BY <3>3 DEF r
  <2>3. h[item] \in Record
    BY <1>4, <1>6
  <2>4. g[item].kids = Append(h[item].kids, t + 1) /\ g[item].key = h[item].key
    BY <2>2, <2>3 DEF Record
  <2>5. \A n \in 0 .. t + 1 : g[n].key = h[n].key
    BY <2>2, <2>4
  <2>6. t + 1 \in 0 .. t + 1 /\ t + 1 # item /\ \A n \in 0 .. t : n \in 0 .. t + 1
    BY <1>4
  <2> DEFINE s == h[item].kids
             r == g[item].kids
  <2>7. /\ Len(r) = Len(s) + 1 /\ r[Len(s) + 1] = t + 1 /\ Len(s) \in Nat
        /\ \A i \in 1 .. Len(s) : r[i] = s[i]
        /\ s \in Seq(0 .. t) /\ r \in Seq(0 .. t + 1)
    <3>1. s \in Seq(0 .. t) /\ r = Append(s, t + 1)
      BY <1>15, <2>4
    <3>2. s \in Seq(0 .. t + 1)
      <4>1. 0 .. t \subseteq 0 .. t + 1
        BY <2>6
      <4>2. QED BY <3>1, <4>1, SeqMonotonic
    <3> HIDE DEF s, r
    <3>3. QED BY <2>6, <3>1, <3>2
  <2>8. t + 1 \in ToSet(r) /\ ToSet(s) \subseteq ToSet(r)
    <3> HIDE DEF s, r
    <3>1. Len(s) + 1 \in 1 .. Len(r) /\ \A i \in 1 .. Len(s) : i \in 1 .. Len(r)
      BY <2>7
    <3>2. t + 1 \in ToSet(r)
      BY <2>7, <3>1, SetOfSeq
    <3>3. ASSUME NEW c \in ToSet(s) PROVE c \in ToSet(r)
      <4>1. PICK i \in 1 .. Len(s) : c = s[i]
        BY <2>7, SetOfSeq
      <4>2. i \in 1 .. Len(r) /\ c = r[i]
        BY <2>7, <3>1, <4>1
      <4>3. QED BY <2>7, <4>2, SetOfSeq
    <3>4. QED BY <3>2, <3>3
  <2>9. Keeps(h, g, t)
    <3>1. ASSUME NEW n \in 0 .. t PROVE ToSet(h[n].kids) \subseteq ToSet(g[n].kids)
      <4>1. CASE n = item
        BY <2>8, <4>1
      <4>2. CASE n # item
        BY <2>2, <2>6, <4>2
      <4>3. QED BY <4>1, <4>2
    <3>2. QED BY <2>5, <2>6, <3>1 DEF Keeps
  <2>10. g[t + 1].key = k
    BY <1>6, <2>5, <2>6
  <2>11. InPlace(g, fs2, p2, d + 1)
    BY <1>16, <2>1, <2>8, <2>9, <2>10
  <2>12. \A q \in 1 .. Len(h[item].kids) : h[h[item].kids[q]].key # k
    <3>1. NoNode \notin ToSet(h[item].kids)
      <4>1. ToSet(h[item].kids) \subseteq 0 .. t
        BY <1>15, SetOfSeq
      <4>2. NoNode \notin 0 .. t
        BY DEF NoNode
      <4>3. QED BY <4>1, <4>2
    <3>2. QED BY <1>14, <2>1, <3>1 DEF Finds
  <2>13. ASSUME NEW n \in 0 .. t + 1 PROVE OwnNames(g, n)
    <3>1. OwnNames(h, n)
      BY <1>6, <1>12 DEF AllNames
    <3>2. \A c \in 0 .. t : g[c].key = h[c].key
      BY <2>5, <2>6
    <3>3. CASE n = item
      <4>1. g[n].kids = Append(h[n].kids, t + 1) /\ h[n].kids \in Seq(0 .. t)
        BY <1>15, <2>4, <3>3
      <4>2. \A q \in 1 .. Len(h[n].kids) : h[h[n].kids[q]].key # g[t + 1].key
        BY <2>10, <2>12, <3>3
      <4>3. QED BY <3>1, <3>2, <4>1, <4>2, NameAdded
    <3>4. CASE n # item /\ n \in 0 .. t
      <4>1. g[n].kids = h[n].kids /\ h[n].kids \in Seq(0 .. t)
        BY <1>6, <2>2, <3>4 DEF Tree
      <4>2. QED BY <3>1, <3>2, <4>1, NamesKept
    <3>5. CASE n # item /\ n = t + 1
      <4>1. g[n].kids = <<>>
        BY <1>6, <2>2, <3>5
      <4>2. QED BY <4>1, NoNames
    <3>6. QED BY <3>3, <3>4, <3>5
  <2>14. AllNames(g)
    BY <2>1, <2>13 DEF AllNames
  <2>15. QED BY <1>8, <2>11, <2>14 DEF g, fs2, p2
<1>18. CASE JoinedOld(h, t)
  <2>1. g \in [0 .. t -> Record] /\ (\A n \in 0 .. t : g[n] = h[n]) /\ item' \in 1 .. t /\ FindIn(h, Root, p2) = item'
    BY <1>11, <1>18
  <2>2. item' # NoNode /\ item' \in 0 .. t
    BY <2>1 DEF NoNode
  <2>3. item' \in ToSet(g[item].kids) /\ g[item'].key = k
    BY <1>4, <1>14, <2>1, <2>2 DEF Finds
  <2>4. Keeps(h, g, t)
    BY <2>1 DEF Keeps
  <2>5. InPlace(g, fs2, p2, d + 1)
    BY <1>16, <2>3, <2>4
  <2>6. ASSUME NEW n \in 0 .. t PROVE OwnNames(g, n)
    <3>1. OwnNames(h, n) /\ h[n].kids \in Seq(0 .. t)
      BY <1>6, <1>12 DEF AllNames, Tree
    <3>2. (\A c \in 0 .. t : g[c].key = h[c].key) /\ g[n].kids = h[n].kids
      BY <2>1
    <3>3. QED BY <3>1, <3>2, NamesKept
  <2>7. AllNames(g)
    BY <2>1, <2>6 DEF AllNames
  <2>8. QED BY <1>8, <2>5, <2>7 DEF g, fs2, p2
<1>19. QED BY <1>9, <1>17, <1>18

\* A step that does not fail follows one that did not.
LEMMA StaysFine ==
  ASSUME NEW u, ReadUnit(u), Fine'
  PROVE  Fine /\ ~ BadString(u) /\ ~ BadNumber(u) /\ ~ Unexpected(u)
<1>1. ~ BadString(u) /\ ~ BadNumber(u) /\ ~ Unexpected(u)
  BY DEF BadString, BadNumber, Unexpected, Fail, Fine
<1>2. Fine
  BY <1>1
     DEF ReadUnit, Fine, SkipSpace, ReadLiteral, NumberBegins, NumberGoesOn, NumberEnds, StringBegins,
         StringGoesOn, StringEnds, OpenArray, OpenObject, Open, FirstElement, NextElement, FirstKey,
         NextKey, KeyBegins, KeyEnds, ReadColon, Close, Skipping
<1>3. QED BY <1>1, <1>2

\* The reader keeps the names in order.
LEMMA NamedStep ==
  ASSUME TextInv, ShapeInv, NamedInv, Read
  PROVE  NamedInv'
<1> SUFFICES ASSUME Fine' PROVE NamedInv'
  BY DEF NamedInv
<1>1. CASE TextEnds
  BY <1>1 DEF TextEnds, Fine
<1>2. ASSUME NEW u \in Offered, ReadUnit(u) PROVE NamedInv'
  <2>1. Fine /\ ~ BadString(u) /\ ~ BadNumber(u) /\ ~ Unexpected(u)
    BY <1>2, StaysFine
  <2>2. PICK t \in Nat : TreeInv(t) /\ FramesInv(t)
    BY <2>1 DEF ShapeInv
  <2>3. CASE SkipSpace(u) \/ NumberBegins(u) \/ NumberGoesOn(u) \/ StringBegins(u)
             \/ StringGoesOn(u) \/ KeyBegins(u)
    <3>1. UNCHANGED odd
      BY <2>3 DEF SkipSpace, NumberBegins, NumberGoesOn, StringBegins, StringGoesOn, KeyBegins
    <3>2. QED BY <2>1, <2>3, <3>1, QuietSteps, QuietNames
  <2>4. CASE ReadLiteral(u) \/ NumberEnds(u) \/ StringEnds(u)
    <3>1. UNCHANGED odd
      BY <2>4 DEF ReadLiteral, NumberEnds, StringEnds
    <3>2. QED BY <2>1, <2>2, <2>4, <3>1, FinishHasEffect, FinishNames
  <2>5. CASE OpenArray(u) \/ OpenObject(u)
    BY <2>1, <2>2, <2>5, OpenNames
  <2>6. CASE FirstElement(u) \/ NextElement(u)
    <3>1. PICK n \in Nat : Decimal[n] \in Seq(Chars) /\ MemberBegun(t, Decimal[n])
                           /\ at \in {"first element", "after"} /\ at' = "value"
      BY <2>2, <2>6, ElementShape
    <3> DEFINE k == Decimal[n]
    <3>2. k \in Seq(Chars) /\ MemberBegun(t, k)
      BY <3>1
    <3> HIDE DEF k
    <3>3. at \in Between /\ at' \in {"value", "colon"}
      BY <3>1 DEF Between
    <3>4. QED BY <2>1, <2>2, <3>2, <3>3, MemberNames
  <2>7. CASE FirstKey(u) \/ NextKey(u)
    BY <2>1, <2>2, <2>7, AllocateNames
  <2>8. CASE KeyEnds(u)
    <3> DEFINE k == Contents(scratch)
    <3>1. k \in Seq(Chars) /\ MemberBegun(t, k)
      BY <2>2, <2>8, KeyShape
    <3> HIDE DEF k
    <3>2. at \in Between /\ at' \in {"value", "colon"}
      BY <2>8 DEF KeyEnds, Between, KeyStates
    <3>3. QED BY <2>1, <2>2, <3>1, <3>2, MemberNames
  <2>9. CASE ReadColon(u)
    BY <2>1, <2>2, <2>9, ColonNames
  <2>10. CASE Close(u)
    BY <2>1, <2>2, <2>10, CloseNames
  <2>11. QED
    BY <1>2, <2>1, <2>3, <2>4, <2>5, <2>6, <2>7, <2>8, <2>9, <2>10 DEF ReadUnit
<1>3. QED BY <1>1, <1>2 DEF Read

\* At the start there are no names.
LEMMA NamedInit ==
  ASSUME at = "value", frames = <<>>, path = <<>>, node = [i \in {Root} |-> NewNode(<<>>)]
  PROVE  NamedInv
<1>1. DOMAIN node = {Root} /\ node[Root].kids = <<>>
  BY DEF NewNode
<1>2. AllNames(node)
  BY <1>1, NoNames DEF AllNames
<1>3. Depth(at, frames) = 0 /\ Len(path) = 0
  BY DEF Depth, Between, KeyStates
<1>4. InPlace(node, frames, path, Depth(at, frames))
  BY <1>3 DEF InPlace
<1>5. QED BY <1>2, <1>4 DEF NamedInv

\* The frames that read a member are the first ones, Depth of them.
LEMMA DepthCounts ==
  ASSUME NEW t, FramesInv(t), NEW d, d = Depth(at, frames)
  PROVE  /\ d \in Nat /\ d <= Len(frames)
         /\ {j \in DOMAIN frames : frames[j].child # NoNode} = 1 .. d
<1> DEFINE n == Len(frames)
           F == Frame(t)
<1>1. frames \in Seq(F) /\ (at \in Between => frames # <<>>)
  BY DEF FramesInv, Linked
<1>2. \A j \in 1 .. n - 1 : frames[j].child # NoNode
  BY DEF FramesInv, Linked
<1>3. frames # <<>> => (frames[n].child = NoNode <=> at \in Between)
  BY DEF FramesInv, Top
<1> HIDE DEF F
<1>4. n \in Nat /\ DOMAIN frames = 1 .. n
  BY <1>1
<1>5. n # 0 <=> frames # <<>>
  BY <1>1, EmptySeq
<1>6. d = IF at \in Between THEN n - 1 ELSE n
  BY DEF Depth
<1> HIDE DEF n
<1>7. d \in Nat /\ d <= n
  BY <1>1, <1>4, <1>5, <1>6
<1>8. ASSUME NEW j \in 1 .. n PROVE frames[j].child # NoNode <=> j \in 1 .. d
  <2>1. CASE j = n
    <3>1. n # 0
      BY <1>4, <2>1
    <3>2. frames[j].child = NoNode <=> at \in Between
      BY <1>3, <1>5, <2>1, <3>1
    <3>3. j \in 1 .. d <=> at \notin Between
      BY <1>4, <1>6, <2>1, <3>1
    <3>4. QED BY <3>2, <3>3
  <2>2. CASE j # n
    <3>1. j \in 1 .. n - 1
      BY <1>4, <2>2
    <3>2. j \in 1 .. d
      BY <1>4, <1>6, <3>1
    <3>3. QED BY <1>2, <3>1, <3>2
  <2>3. QED BY <2>1, <2>2
<1>9. {j \in DOMAIN frames : frames[j].child # NoNode} = 1 .. d
  <2>1. \A j \in 1 .. d : j \in 1 .. n
    BY <1>4, <1>7
  <2>2. QED BY <1>4, <1>8, <2>1
<1>10. QED BY <1>7, <1>9 DEF n

\* So members are where the brackets say, under the names the path is made of.
LEMMA NamedIsInPlace == ShapeInv /\ NamedInv => MembersInPlace
<1> SUFFICES ASSUME ShapeInv, NamedInv, ~ odd, Fine
             PROVE  /\ \A k \in 1 .. Len(frames) :
                         frames[k].child # NoNode => frames[k].child \in ToSet(node[frames[k].item].kids)
                    /\ path = [k \in 1 .. Cardinality({j \in DOMAIN frames : frames[j].child # NoNode}) |->
                                 node[frames[k].child].key]
                    /\ \A n \in DOMAIN node : \A i, j \in 1 .. Len(node[n].kids) :
                         node[node[n].kids[i]].key = node[node[n].kids[j]].key => i = j
  BY DEF MembersInPlace, Fine
<1> DEFINE d == Depth(at, frames)
           S == {j \in DOMAIN frames : frames[j].child # NoNode}
<1>1. InPlace(node, frames, path, d) /\ AllNames(node)
  BY DEF NamedInv
<1>2. PICK t \in Nat : FramesInv(t)
  BY DEF ShapeInv
<1>3. d \in Nat /\ d <= Len(frames) /\ S = 1 .. d
  BY <1>2, DepthCounts
<1>4. DOMAIN frames = 1 .. Len(frames)
  <2> DEFINE F == Frame(t)
  <2>1. frames \in Seq(F)
    BY <1>2 DEF FramesInv, Linked
  <2> HIDE DEF F
  <2>2. QED BY <2>1
<1> HIDE DEF d
<1>6. \A k \in 1 .. d : Child(node, frames[k], path[k])
  BY <1>1 DEF InPlace
<1>7. \A k \in 1 .. Len(frames) :
        frames[k].child # NoNode => frames[k].child \in ToSet(node[frames[k].item].kids)
  BY <1>3, <1>4, <1>6 DEF Child
<1>8. Cardinality(S) = d
  <2> HIDE DEF S
  <2>1. 1 \in Int /\ d \in Int
    BY <1>3
  <2>2. Cardinality(1 .. d) = IF 1 > d THEN 0 ELSE d - 1 + 1
    BY <2>1, FS_Interval
  <2>3. QED BY <1>3, <2>2
<1>9. path = [k \in 1 .. d |-> node[frames[k].child].key]
  <2> DEFINE C == Seq(Chars)
  <2>1. path \in Seq(C) /\ Len(path) = d
    BY <1>1, <1>2 DEF InPlace, FramesInv
  <2> HIDE DEF C
  <2>2. path = [k \in 1 .. d |-> path[k]]
    BY <2>1
  <2>3. \A k \in 1 .. d : path[k] = node[frames[k].child].key
    BY <1>6 DEF Child
  <2>4. QED BY <2>2, <2>3
<1>10. \A n \in DOMAIN node : \A i, j \in 1 .. Len(node[n].kids) :
         node[node[n].kids[i]].key = node[node[n].kids[j]].key => i = j
  BY <1>1 DEF AllNames, OwnNames
<1>11. QED BY <1>7, <1>8, <1>9, <1>10

-----------------------------------------------------------------------------
(* What is printed.                                                        *)

\* The units of a printed text.
Out == Chars \cup Literal \cup {Quote, "[", "]", "{", "}", ",", ":", PointText}

\* tx has s after its first i units.
Holds(tx, i, s) ==
  /\ i \in Nat /\ s \in Seq(Out)
  /\ i + Len(s) <= Len(tx)
  /\ \A q \in 1 .. Len(s) : tx[i + q] = s[q]

\* ty is tx, with more behind it.
Extends(ty, tx) ==
  /\ Len(tx) \in Nat /\ Len(ty) \in Nat /\ Len(tx) <= Len(ty)
  /\ \A q \in 1 .. Len(tx) : ty[q] = tx[q]

\* What a text has it keeps.
LEMMA HoldsLonger ==
  ASSUME NEW tx, NEW ty, Extends(ty, tx), NEW i, NEW s, Holds(tx, i, s)
  PROVE  Holds(ty, i, s)
<1>1. i \in Nat /\ s \in Seq(Out) /\ i + Len(s) <= Len(tx) /\ \A q \in 1 .. Len(s) : tx[i + q] = s[q]
  BY DEF Holds
<1>2. Len(s) \in Nat
  BY <1>1
<1> DEFINE L == Len(s)
<1> HIDE DEF L
<1>3. \A q \in 1 .. L : i + q \in 1 .. Len(tx)
  BY <1>1, <1>2 DEF Extends, L
<1>4. i + L <= Len(ty)
  BY <1>1, <1>2 DEF Extends, L
<1>5. QED BY <1>1, <1>3, <1>4 DEF Extends, Holds, L

\* Two parts that follow each other are one.
LEMMA HoldsBoth ==
  ASSUME NEW tx, NEW i, NEW s, Holds(tx, i, s), NEW r, Holds(tx, i + Len(s), r)
  PROVE  Holds(tx, i, s \o r) /\ Len(s \o r) = Len(s) + Len(r) /\ Len(s) \in Nat /\ Len(r) \in Nat
<1> DEFINE L == Len(s)
           M == Len(r)
           sr == s \o r
<1>1. /\ i \in Nat /\ s \in Seq(Out) /\ r \in Seq(Out) /\ i + L + M <= Len(tx)
      /\ \A q \in 1 .. L : tx[i + q] = s[q]
      /\ \A q \in 1 .. M : tx[i + L + q] = r[q]
  BY DEF Holds
<1>2. /\ L \in Nat /\ M \in Nat /\ sr \in Seq(Out) /\ Len(sr) = L + M
      /\ \A q \in 1 .. L + M : sr[q] = IF q <= L THEN s[q] ELSE r[q - L]
  BY <1>1, ConcatProperties
<1> HIDE DEF L, M, sr
<1>3. ASSUME NEW q \in 1 .. L + M PROVE tx[i + q] = sr[q]
  <2>1. CASE q <= L
    <3>1. q \in 1 .. L
      BY <1>2, <2>1
    <3>2. QED BY <1>1, <1>2, <2>1, <3>1
  <2>2. CASE ~ (q <= L)
    <3>1. q - L \in 1 .. M /\ i + L + (q - L) = i + q
      BY <1>1, <1>2, <2>2
    <3>2. tx[i + L + (q - L)] = r[q - L]
      BY <1>1, <3>1
    <3>3. QED BY <1>2, <2>2, <3>1, <3>2
  <2>3. QED BY <2>1, <2>2
<1>4. i + (L + M) <= Len(tx)
  BY <1>1, <1>2 DEF L
<1>5. QED BY <1>1, <1>2, <1>3, <1>4 DEF Holds, L, M, sr

\* Three parts can be put together in either order.
LEMMA OutAssociative ==
  ASSUME NEW a \in Seq(Out), NEW s \in Seq(Out), NEW l \in Seq(Out)
  PROVE  (a \o s) \o l = a \o (s \o l)
<1> DEFINE O == Out
<1>1. a \in Seq(O) /\ s \in Seq(O) /\ l \in Seq(O)
  OBVIOUS
<1> HIDE DEF O
<1>2. QED BY ONLY <1>1, ConcatAssociative, SMTT(30)

\* A digit is put behind the others.
LEMMA DigitBehind ==
  ASSUME NEW v \in Nat, v >= 1, NEW d \in DOMAIN Digit
  PROVE  Decimal[10 * v + Digit[d]] = Decimal[v] \o <<d>> /\ 10 * v + Digit[d] >= 1
<1> DEFINE c == Digit[d]
<1>1. c \in 0 .. 9 /\ DigitFor(c) = d
  BY Digits
<1> HIDE DEF c
<1> DEFINE n == 10 * v + c
<1>2. n \in Nat /\ ~ (n < 10) /\ n \div 10 = v /\ n % 10 = c
  BY <1>1
<1>3. Decimal[n] = Decimal[n \div 10] \o <<DigitFor(n % 10)>>
  <2> HIDE DEF n
  <2>1. QED BY <1>2, DecimalType
<1>4. n >= 1
  BY <1>1
<1>5. QED BY <1>1, <1>2, <1>3, <1>4 DEF c

\* A number without leading zeros is printed as it was read.
LEMMA NumberPrints ==
  ASSUME NEW s \in Seq(DOMAIN Digit), Len(s) >= 1, Len(s) = 1 \/ s[1] # "0"
  PROVE  Value(s) \in Nat /\ Decimal[Value(s)] = s
<1> DEFINE D == DOMAIN Digit
           K == Len(s)
           value[n \in 0 .. K] == IF n = 0 THEN 0 ELSE 10 * value[n - 1] + Digit[s[n]]
           F == [n \in 1 .. K |-> [x \in Nat |-> 10 * x + Digit[s[n]]]]
<1>1. K \in Nat /\ 0 \in Nat /\ K >= 1
  OBVIOUS
<1>2. \A n \in 1 .. K : s[n] \in D /\ Digit[s[n]] \in 0 .. 9
  <2>1. \A d \in D : Digit[d] \in 0 .. 9
    BY Digits
  <2>2. QED BY <2>1
<1>3. F \in [1 .. K -> [Nat -> Nat]] /\ \A n \in 1 .. K : \A x \in Nat : F[n][x] = 10 * x + Digit[s[n]]
  BY <1>2
<1>4. Value(s) = value[K]
  BY DEF Value
<1> HIDE DEF F
<1>5. PICK g \in [0 .. K -> Nat] : IsRecursive(g, K, 0, F)
  BY <1>1, <1>3, Recursion
<1>6. g = [n \in 0 .. K |-> IF n = 0 THEN 0 ELSE 10 * g[n - 1] + Digit[s[n]]]
  <2>1. ASSUME NEW n \in 0 .. K PROVE g[n] = IF n = 0 THEN 0 ELSE 10 * g[n - 1] + Digit[s[n]]
    <3>1. CASE n = 0
      BY <3>1, <1>5 DEF IsRecursive
    <3>2. CASE n # 0
      <4>1. n \in 1 .. K /\ n - 1 \in 0 .. K
        BY <1>1, <3>2
      <4>2. QED BY <1>3, <1>5, <4>1, <3>2 DEF IsRecursive
    <3>3. QED BY <3>1, <3>2
  <2>2. QED BY <2>1
<1>7. value = [n \in 0 .. K |-> IF n = 0 THEN 0 ELSE 10 * value[n - 1] + Digit[s[n]]]
  BY <1>6
<1> HIDE DEF value
<1>8. Value(s) \in Nat
  BY ValueType
<1>9. value[0] = 0 /\ \A n \in 1 .. K : value[n] = 10 * value[n - 1] + Digit[s[n]]
  <2>1. \A n \in 1 .. K : n \in 0 .. K /\ n # 0
    OBVIOUS
  <2>2. 0 \in 0 .. K
    BY <1>1
  <2>3. QED BY <1>7, <2>1, <2>2
<1> DEFINE V(n) == value[n + 1]
           T == {n \in 0 .. K - 1 : /\ V(n) \in Nat /\ Decimal[V(n)] = SubSeq(s, 1, n + 1)
                                    /\ s[1] # "0" => V(n) >= 1}
<1>10. 0 \in T
  <2>1. 1 \in 1 .. K /\ 1 - 1 = 0 /\ 0 + 1 = 1 /\ 0 \in 0 .. K - 1
    BY <1>1
  <2> DEFINE c == Digit[s[1]]
  <2>2. value[1] = 10 * value[0] + c /\ value[0] = 0 /\ c \in 0 .. 9 /\ s[1] \in D
    BY <1>2, <1>9, <2>1
  <2> HIDE DEF c
  <2>3. value[1] = c /\ c \in Nat /\ c < 10
    BY <2>2
  <2>4. DigitFor(c) = s[1]
    BY <2>2, Digits DEF c
  <2>5. Decimal[c] = <<s[1]>>
    BY <2>3, <2>4, DecimalType
  <2>6. SubSeq(s, 1, 1) = <<s[1]>>
    <3> HIDE DEF D
    <3>1. QED BY <1>1
  <2>7. s[1] # "0" => c >= 1
    <3>1. Digit["0"] = 0 /\ "0" \in D
      BY DEF Digit
    <3>2. c = 0 => s[1] = "0"
      <4>1. c = 0 => DigitFor(0) = s[1]
        BY <2>4
      <4>2. DigitFor(0) = "0"
        BY <3>1, Digits
      <4>3. QED BY <4>1, <4>2
    <3>3. QED BY <2>3, <3>2
  <2>8. QED BY <2>1, <2>3, <2>5, <2>6, <2>7
<1>11. ASSUME NEW n \in 0 .. (K - 1) - 1, n \in T PROVE n + 1 \in T
  <2>1. n + 2 \in 1 .. K /\ (n + 2) - 1 = n + 1 /\ (n + 1) + 1 = n + 2 /\ n + 1 \in 0 .. K - 1 /\ 1 \in 1 .. K
        /\ K # 1
    BY <1>1
  <2>2. s[n + 2] \in D /\ s[1] # "0"
    BY <1>2, <2>1
  <2>3. V(n) \in Nat /\ Decimal[V(n)] = SubSeq(s, 1, n + 1) /\ V(n) >= 1
    BY <1>11, <2>2
  <2>4. V(n + 1) = 10 * V(n) + Digit[s[n + 2]]
    <3>1. value[n + 2] = 10 * value[(n + 2) - 1] + Digit[s[n + 2]]
      BY <1>9, <2>1
    <3>2. QED BY <2>1, <3>1
  <2>5. Decimal[V(n + 1)] = SubSeq(s, 1, n + 1) \o <<s[n + 2]>> /\ V(n + 1) >= 1
    <3> HIDE DEF V
    <3>1. QED BY <2>2, <2>3, <2>4, DigitBehind
  <2>6. V(n + 1) \in Nat
    <3>1. Digit[s[n + 2]] \in 0 .. 9
      BY <1>2, <2>1
    <3> DEFINE c == Digit[s[n + 2]]
               v == V(n)
    <3>2. c \in Nat /\ v \in Nat
      BY <2>3, <3>1
    <3> HIDE DEF c, v
    <3>3. 10 * v + c \in Nat
      BY <3>2
    <3>4. QED BY <2>4, <3>3 DEF c, v
  <2>7. SubSeq(s, 1, n + 1) \o <<s[n + 2]>> = SubSeq(s, 1, n + 2)
    <3> HIDE DEF V, D, K, T
    <3> DEFINE x == SubSeq(s, 1, n + 1)
               y == SubSeq(s, 1, n + 2)
    <3>0. n \in Nat /\ n + 2 <= Len(s)
      BY <1>1, <2>1 DEF K
    <3>1. s \in Seq(D) /\ x \in Seq(D) /\ Len(x) = n + 1 /\ (\A i \in 1 .. n + 1 : x[i] = s[i])
          /\ y \in Seq(D) /\ Len(y) = n + 2 /\ (\A i \in 1 .. n + 2 : y[i] = s[i])
      <4>1. s \in Seq(D)
        BY DEF D
      <4>2. QED BY <3>0, <4>1
    <3> HIDE DEF x, y
    <3> DEFINE z == Append(x, s[n + 2])
    <3>2. z \in Seq(D) /\ Len(z) = n + 2 /\ (\A i \in 1 .. n + 1 : z[i] = x[i]) /\ z[n + 2] = s[n + 2]
          /\ z = x \o <<s[n + 2]>>
      <4>1. (n + 1) + 1 = n + 2
        BY <3>0
      <4>2. QED BY <2>2, <3>1, <4>1, AppendProperties, AppendIsConcat
    <3> HIDE DEF z
    <3>3. \A i \in 1 .. n + 2 : i \in 1 .. n + 1 \/ i = n + 2
      BY <3>0
    <3>4. \A i \in 1 .. n + 2 : z[i] = y[i]
      BY <3>1, <3>2, <3>3
    <3>5. z = y
      BY <3>1, <3>2, <3>4, SeqEqual
    <3>6. QED BY <3>2, <3>5 DEF x, y
  <2>8. QED BY <2>1, <2>5, <2>6, <2>7
<1> HIDE DEF T
<1>12. \A n \in 0 .. K - 1 : n \in T
  <2>1. K - 1 \in Nat
    BY <1>1
  <2>2. QED BY <1>10, <1>11, <2>1, InductUpTo
<1>13. K - 1 \in 0 .. K - 1 /\ (K - 1) + 1 = K
  BY <1>1
<1>14. Decimal[value[K]] = SubSeq(s, 1, K)
  BY <1>12, <1>13 DEF T
<1>15. SubSeq(s, 1, K) = s
  <2> HIDE DEF D
  <2>1. QED BY <1>1, SubSeqFull
<1>16. QED BY <1>4, <1>8, <1>14, <1>15

\* A plain number is printed as it was read.
LEMMA PlainPrints ==
  ASSUME NEW s \in Seq(NumberChars), Plain(s)
  PROVE  PrintNumber(Strtod(s)) = s
<1> DEFINE D == DOMAIN Digit
           neg == IsAt(s, 1, {"-"})
           start == IF neg THEN 2 ELSE 1
           d == IF neg THEN Tail(s) ELSE s
<1>1. /\ d \in Seq(D) /\ Len(d) \in 1 .. ExactDigits
      /\ d[1] = "0" => s = <<"0">>
  BY DEF Plain
<1>2. Len(s) \in Nat /\ Len(d) \in Nat /\ Len(d) >= 1 /\ Len(d) <= 15
  <2>1. Len(s) \in Nat
    OBVIOUS
  <2> DEFINE n == Len(d)
  <2>2. n \in 1 .. ExactDigits /\ ExactDigits = 15
    BY <1>1 DEF ExactDigits
  <2> HIDE DEF n
  <2>3. n \in Nat /\ n >= 1 /\ n <= 15
    BY <2>2
  <2>4. QED BY <2>1, <2>3 DEF n
<1>3. start \in {1, 2} /\ Len(s) = Len(d) + (start - 1) /\ \A k \in 1 .. Len(d) : s[k + (start - 1)] = d[k]
  <2>1. CASE neg
    <3>1. d = Tail(s) /\ start = 2 /\ Len(s) >= 1
      BY <1>2, <2>1 DEF IsAt
    <3>2. s # <<>>
      BY <3>1
    <3>3. Len(Tail(s)) = Len(s) - 1 /\ \A k \in 1 .. Len(Tail(s)) : Tail(s)[k] = s[k + 1]
      BY <3>2, HeadTailProperties
    <3> HIDE DEF d, start
    <3>4. QED BY <1>2, <3>1, <3>3
  <2>2. CASE ~ neg
    <3>1. d = s /\ start = 1
      BY <2>2
    <3> HIDE DEF d, start
    <3>2. QED BY <1>2, <3>1
  <2>3. QED BY <2>1, <2>2
<1>4. neg => s = <<"-">> \o d
  <2> SUFFICES ASSUME neg PROVE s = <<"-">> \o d
    OBVIOUS
  <2>1. d = Tail(s) /\ Head(s) = "-" /\ s # <<>>
    BY <1>2 DEF IsAt
  <2>2. s = <<Head(s)>> \o Tail(s)
    BY <2>1, HeadTailProperties
  <2>3. QED BY <2>1, <2>2
<1>5. start = 2 <=> neg
  OBVIOUS
<1>6. ~ neg => d = s
  OBVIOUS
<1> HIDE DEF D, d, start
<1>7. DigitsFrom(s, start) = d
  <2>1. start \in 1 .. Len(s) + 1
    BY <1>2, <1>3
  <2>2. PICK j \in start .. Len(s) + 1 :
               DigitsFrom(s, start) = SubSeq(s, start, j - 1) /\ (j <= Len(s) => s[j] \notin D)
    BY <2>1, DigitsStop DEF D
  <2>3. j = Len(s) + 1
    <3> SUFFICES ASSUME j <= Len(s) PROVE FALSE
      BY <1>2, <1>3, <2>2
    <3> DEFINE k == j - (start - 1)
    <3>1. k \in 1 .. Len(d) /\ k + (start - 1) = j
      BY <1>2, <1>3, <2>2
    <3> HIDE DEF k
    <3>2. s[j] = d[k] /\ d[k] \in D
      BY <1>1, <1>3, <3>1
    <3>3. QED BY <2>2, <3>2
  <2>4. SubSeq(s, start, Len(s)) = [k \in 1 .. Len(d) |-> s[start + k - 1]]
    BY <1>2, <1>3
  <2>5. \A k \in 1 .. Len(d) : s[start + k - 1] = d[k]
    <3>1. \A k \in 1 .. Len(d) : start + k - 1 = k + (start - 1)
      BY <1>3
    <3>2. QED BY <1>3, <3>1
  <2>6. d = [k \in 1 .. Len(d) |-> d[k]]
    BY <1>1
  <2>7. [k \in 1 .. Len(d) |-> s[start + k - 1]] = [k \in 1 .. Len(d) |-> d[k]]
    BY <2>5
  <2>8. (Len(s) + 1) - 1 = Len(s)
    BY <1>2
  <2>9. QED BY <2>2, <2>3, <2>4, <2>6, <2>7, <2>8
<1> DEFINE p == start + Len(d)
           v == [neg |-> start = 2, digits |-> d, point |-> Len(d)]
<1>8. Strtod(s) = v
  <2>1. \A c : ~ IsAt(s, p, c)
    BY <1>2, <1>3 DEF IsAt
  <2>2. d \o <<>> = d /\ d # <<>>
    BY <1>1, <1>2, ConcatEmptySeq
  <2>3. Len(d) + 0 = Len(d)
    BY <1>2
  <2>4. Strtod(s) = IF d \o <<>> = <<>> THEN Zero
                    ELSE [neg |-> start = 2, digits |-> d \o <<>>, point |-> Len(d) + 0]
    BY <1>7, <2>1 DEF Strtod, start
  <2>5. QED BY <2>2, <2>3, <2>4
<1>9. IsWhole(v) /\ ~ (v.point > 60)
  BY <1>2 DEF IsWhole
<1>10. Magnitude(v) = Value(d)
  <2>1. \A k \in 1 .. Len(d) : DigitAt(v, k) = d[k]
    BY DEF DigitAt
  <2>2. [k \in 1 .. Len(d) |-> DigitAt(v, k)] = [k \in 1 .. Len(d) |-> d[k]]
    BY <2>1
  <2>3. d = [k \in 1 .. Len(d) |-> d[k]]
    BY <1>1
  <2>4. QED BY <2>2, <2>3 DEF Magnitude
<1>11. Value(d) \in Nat /\ Decimal[Value(d)] = d
  <2>1. Len(d) = 1 \/ d[1] # "0"
    <3>1. d[1] = "0" => s = <<"0">>
      BY <1>1
    <3>2. s = <<"0">> => Len(s) = 1
      OBVIOUS
    <3>3. QED BY <1>2, <1>3, <3>1, <3>2
  <2>2. QED BY <1>1, <1>2, <2>1, NumberPrints DEF D
<1>12. v.neg = (start = 2)
  OBVIOUS
<1> HIDE DEF v
<1>13. CASE neg
  <2>1. Len(s) >= 2 /\ d[1] # "0"
    <3>1. Len(s) >= 2
      BY <1>2, <1>3, <1>5, <1>13
    <3>2. s = <<"0">> => Len(s) = 1
      OBVIOUS
    <3> DEFINE n == Len(s)
               one == s = <<"0">>
    <3>3. ~ one
      <4>1. n >= 2 /\ (one => n = 1)
        BY <3>1, <3>2
      <4> HIDE DEF n, one
      <4>2. QED BY <4>1
    <3>4. d[1] = "0" => one
      BY <1>1
    <3>5. QED BY ONLY <3>1, <3>3, <3>4, Zenon
  <2>2. Value(d) # 0
    <3>1. Digit["0"] = 0 /\ "0" \in D
      BY DEF Digit, D
    <3>2. DigitFor(0) = "0"
      BY <3>1, Digits DEF D
    <3>3. Decimal[0] = <<"0">>
      <4>1. \A n \in Nat : n < 10 => Decimal[n] = <<DigitFor(n)>>
        BY DecimalType
      <4>2. QED BY <3>2, <4>1
    <3>4. Value(d) = 0 => d[1] = "0"
      <4>1. <<"0">>[1] = "0"
        OBVIOUS
      <4>2. QED BY <1>11, <3>3, <4>1
    <3>5. QED BY <2>1, <3>4
  <2>3. Truncated(v) = - Value(d) /\ Truncated(v) < 0
    <3>1. Truncated(v) = - Value(d)
      BY <1>5, <1>10, <1>12, <1>13 DEF Truncated
    <3>2. QED BY <1>11, <2>2, <3>1
  <2>4. PrintNumber(v) = <<"-">> \o d
    BY <1>9, <1>10, <1>11, <2>3 DEF PrintNumber
  <2>5. QED BY <1>4, <1>8, <1>13, <2>4
<1>14. CASE ~ neg
  <2>1. Truncated(v) = Value(d)
    BY <1>5, <1>10, <1>12, <1>14 DEF Truncated
  <2>2. PrintNumber(v) = d
    BY <1>9, <1>10, <1>11, <2>1 DEF PrintNumber
  <2>3. QED BY <1>6, <1>8, <1>14, <2>2
<1>15. QED BY <1>13, <1>14

\* What is printed of a number is made of its digits.
LEMMA MagnitudeType ==
  ASSUME NEW v \in Number
  PROVE  Magnitude(v) \in Nat
<1> DEFINE D == DOMAIN Digit
           f == [k \in 1 .. v.point |-> DigitAt(v, k)]
<1>1. v.digits \in Seq(D) /\ v.point \in Int
  BY DEF Number
<1>2. "0" \in D
  BY DEF Digit
<1> HIDE DEF D
<1>3. \A k \in 1 .. v.point : DigitAt(v, k) \in D
  BY <1>1, <1>2 DEF DigitAt
<1>4. f \in Seq(D)
  <2>1. CASE v.point >= 0
    <3>1. v.point \in Nat
      BY <1>1, <2>1
    <3>2. QED BY <1>3, <3>1
  <2>2. CASE ~ (v.point >= 0)
    <3>1. 1 .. v.point = 1 .. 0
      BY <1>1, <2>2
    <3>2. f = [k \in 1 .. 0 |-> DigitAt(v, k)]
      BY <3>1
    <3>3. [k \in 1 .. 0 |-> DigitAt(v, k)] \in Seq(D)
      OBVIOUS
    <3>4. QED BY <3>2, <3>3
  <2>3. QED BY <2>1, <2>2
<1>5. Magnitude(v) = Value(f)
  BY DEF Magnitude
<1> HIDE DEF f
<1>6. QED BY <1>4, <1>5, ValueType DEF D

\* What comes before the j-th member.
Sep(j) == IF j = 1 THEN <<>> ELSE <<",">>

\* row[j] are the first j members of n, printed as print has them.
IsRow(h, n, kids, print, row) ==
  /\ row \in [0 .. Len(kids) -> Seq(Out)]
  /\ row[0] = <<>>
  /\ \A j \in 1 .. Len(kids) :
       row[j] = row[j - 1] \o Sep(j) \o Label(h, n, kids[j]) \o print[kids[j]]

\* The parts that are printed are units.
LEMMA PartsType ==
  /\ Chars \subseteq Out
  /\ \A j : Sep(j) \in Seq(Out)
  /\ \A u \in {Quote, "[", "]", "{", "}", ",", ":"} : u \in Out /\ <<u>> \in Seq(Out)
  /\ \A s \in Seq(Chars) : PrintString(s) \in Seq(Out)
<1>1. Chars \subseteq Out /\ \A u \in {Quote, "[", "]", "{", "}", ",", ":"} : u \in Out
  BY DEF Out
<1>2. \A u \in Out : <<u>> \in Seq(Out)
  <2> DEFINE O == Out
  <2> HIDE DEF O
  <2>1. \A u \in O : <<u>> \in Seq(O)
    OBVIOUS
  <2>2. QED BY <2>1 DEF O
<1>3. ASSUME NEW j PROVE Sep(j) \in Seq(Out)
  BY <1>1, <1>2, EmptySeq DEF Sep
<1>4. ASSUME NEW s \in Seq(Chars) PROVE PrintString(s) \in Seq(Out)
  <2> DEFINE O == Out
             q == <<Quote>>
  <2>1. s \in Seq(O) /\ q \in Seq(O)
    BY <1>1, <1>2, SeqMonotonic
  <2> HIDE DEF O, q
  <2>2. q \o s \o q \in Seq(O)
    BY <2>1, ConcatProperties
  <2>3. QED BY <2>2 DEF O, q, PrintString
<1>5. QED BY <1>1, <1>2, <1>3, <1>4

\* A number is printed in units.
LEMMA PrintNumberType ==
  ASSUME NEW v \in Number
  PROVE  PrintNumber(v) \in Seq(Out)
<1> DEFINE O == Out
           d == Decimal[Magnitude(v)]
<1>1. DOMAIN Digit \subseteq O /\ "-" \in O /\ PointText \in O
  <2>1. "-" \in NumberChars
    BY DEF NumberChars
  <2>2. QED BY <2>1, CharsOfText, PartsType DEF Out
<1>2. d \in Seq(O)
  <2>1. d \in Seq(DOMAIN Digit)
    BY MagnitudeType, DecimalType
  <2> HIDE DEF d
  <2>2. QED BY <1>1, <2>1, SeqMonotonic
<1>3. PrintNumber(v) \in {<<PointText>>, <<"-">> \o d, d}
  BY DEF PrintNumber
<1> HIDE DEF O, d
<1>4. <<PointText>> \in Seq(O) /\ <<"-">> \in Seq(O)
  BY <1>1
<1>5. <<"-">> \o d \in Seq(O)
  BY <1>2, <1>4, ConcatProperties
<1>6. QED BY <1>2, <1>3, <1>4, <1>5 DEF O

\* The name of a member is printed in objects only.
LEMMA LabelType ==
  ASSUME NEW h, NEW n, NEW k, h[k].key \in Seq(Chars)
  PROVE  Label(h, n, k) \in Seq(Out)
<1> DEFINE p == PrintString(h[k].key)
           c == <<":">>
<1>1. p \in Seq(Out) /\ c \in Seq(Out) /\ <<>> \in Seq(Out)
  BY PartsType, EmptySeq
<1>2. Label(h, n, k) = IF h[n].type = "object" THEN p \o c ELSE <<>>
  BY DEF Label
<1> HIDE DEF p, c
<1>3. p \o c \in Seq(Out)
  BY <1>1, ConcatProperties
<1>4. QED BY <1>1, <1>2, <1>3

\* The row that the members are printed as.
PrintsRow(h, n, kids, print, row) ==
  IsRow(h, n, kids, print, row) /\ Members(h, n, kids, print) = row[Len(kids)]

\* There is one.
LEMMA MembersAreRow ==
  ASSUME NEW h, NEW n, NEW S, NEW kids \in Seq(S), \A k \in S : h[k].key \in Seq(Chars),
         NEW print, \A j \in 1 .. Len(kids) : print[kids[j]] \in Seq(Out)
  PROVE  \E row : PrintsRow(h, n, kids, print, row)
<1> DEFINE K == Len(kids)
           V == Seq(Out)
           lab(j) == Label(h, n, kids[j])
           val(j) == print[kids[j]]
           F == [j \in 1 .. K |-> [x \in V |-> x \o Sep(j) \o lab(j) \o val(j)]]
           out[k \in 0 .. K] == IF k = 0 THEN <<>> ELSE out[k - 1] \o lab(k) \o val(k) \o Comma(K - k)
<1>1. K \in Nat /\ <<>> \in V /\ \A j \in 1 .. K : kids[j] \in S
  BY EmptySeq
<1>2. ASSUME NEW j \in 1 .. K PROVE lab(j) \in V /\ val(j) \in V /\ Sep(j) \in V
  BY <1>1, LabelType, PartsType
<1>3. \A a \in V : \A b \in V : a \o b \in V
  BY ConcatProperties
<1>4. \A a \in V : a \o <<>> = a
  BY ConcatEmptySeq
<1>5. Members(h, n, kids, print) = out[K]
  BY DEF Members
<1>6. \A k : Comma(k) = IF k # 0 THEN <<",">> ELSE <<>>
  BY DEF Comma
<1>7. <<",">> \in V
  BY PartsType
<1> HIDE DEF V, lab, val, K
<1>8. F \in [1 .. K -> [V -> V]]
  BY <1>2, <1>3
<1>9. PICK row \in [0 .. K -> V] : IsRecursive(row, K, <<>>, F)
  <2> HIDE DEF F
  <2>1. QED BY <1>1, <1>8, Recursion
<1>10. row[0] = <<>> /\ \A j \in 1 .. K : row[j] = row[j - 1] \o Sep(j) \o lab(j) \o val(j)
  <2>1. \A j \in 1 .. K : j - 1 \in 0 .. K
    BY <1>1
  <2>2. QED BY <1>9, <2>1 DEF IsRecursive
<1> DEFINE g == [k \in 0 .. K |-> IF k = 0 THEN <<>> ELSE row[k] \o Comma(K - k)]
           Step(f, k) == IF k = 0 THEN <<>> ELSE f[k - 1] \o lab(k) \o val(k) \o Comma(K - k)
<1>11. ASSUME NEW k \in 0 .. K PROVE g[k] = Step(g, k)
  <2>1. CASE k = 0
    BY <2>1
  <2>2. CASE k # 0
    <3>1. k \in 1 .. K /\ k - 1 \in 0 .. K /\ K - (k - 1) # 0
      BY <1>1, <2>2
    <3>2. g[k - 1] = row[k - 1] \o Sep(k)
      <4>1. CASE k = 1
        <5>1. k - 1 = 0
          BY <4>1
        <5>2. g[k - 1] = <<>> /\ row[k - 1] = <<>> /\ Sep(k) = <<>>
          BY <1>10, <3>1, <4>1, <5>1 DEF Sep
        <5>3. QED BY <1>1, <1>4, <5>2
      <4>2. CASE k # 1
        <5>1. k - 1 # 0
          BY <3>1, <4>2
        <5>2. g[k - 1] = row[k - 1] \o Comma(K - (k - 1))
          BY <3>1, <5>1
        <5>3. Comma(K - (k - 1)) = Sep(k)
          BY <1>6, <3>1, <4>2 DEF Sep
        <5>4. QED BY <5>2, <5>3
      <4>3. QED BY <4>1, <4>2
    <3>3. g[k] = row[k] \o Comma(K - k)
      BY <2>2
    <3>4. QED BY <1>10, <2>2, <3>1, <3>2, <3>3
  <2>3. QED BY <2>1, <2>2
<1> HIDE DEF g, Step
<1>12. g = [k \in 0 .. K |-> Step(g, k)]
  <2>1. g = [k \in 0 .. K |-> g[k]]
    BY DEF g
  <2>2. QED BY <1>11, <2>1
<1>13. out = [k \in 0 .. K |-> Step(out, k)]
  BY <1>12 DEF Step
<1> HIDE DEF out
<1> DEFINE T == {k \in 0 .. K : out[k] = g[k]}
<1>14. 0 \in T
  BY <1>1, <1>12, <1>13 DEF Step
<1>15. ASSUME NEW k \in 0 .. K - 1, k \in T PROVE k + 1 \in T
  <2>1. k + 1 \in 0 .. K /\ (k + 1) - 1 = k
    BY <1>1
  <2>2. Step(out, k + 1) = Step(g, k + 1)
    BY <1>15, <2>1 DEF Step
  <2>3. QED BY <1>12, <1>13, <2>1, <2>2
<1> HIDE DEF T
<1>16. \A k \in 0 .. K : k \in T
  BY <1>1, <1>14, <1>15, InductUpTo
<1>17. out[K] = g[K] /\ K \in 0 .. K
  BY <1>1, <1>16 DEF T
<1>18. g[K] = row[K]
  <2>1. CASE K = 0
    BY <1>10, <1>17, <2>1 DEF g
  <2>2. CASE K # 0
    <3>1. K - K = 0 /\ row[K] \in V
      BY <1>1, <1>9, <1>17
    <3>2. QED BY <1>4, <1>6, <1>17, <2>2, <3>1 DEF g
  <2>3. QED BY <2>1, <2>2
<1>19. IsRow(h, n, kids, print, row)
  BY <1>9, <1>10 DEF IsRow, K, V, lab, val
<1>20. QED BY <1>5, <1>17, <1>18, <1>19 DEF K, PrintsRow

\* What members are printed as depends on no other node.
LEMMA SameMembers ==
  ASSUME NEW h, NEW n, NEW S, NEW kids \in Seq(S), \A k \in S : h[k].key \in Seq(Chars),
         NEW p, \A j \in 1 .. Len(kids) : p[kids[j]] \in Seq(Out),
         NEW q, \A j \in 1 .. Len(kids) : q[kids[j]] = p[kids[j]]
  PROVE  Members(h, n, kids, p) = Members(h, n, kids, q)
<1>1. PICK ra : PrintsRow(h, n, kids, p, ra)
  BY MembersAreRow
<1>2. PICK rb : PrintsRow(h, n, kids, q, rb)
  <2>1. \A j \in 1 .. Len(kids) : q[kids[j]] \in Seq(Out)
    OBVIOUS
  <2>2. QED BY <2>1, MembersAreRow
<1> DEFINE K == Len(kids)
           T == {k \in 0 .. K : ra[k] = rb[k]}
<1>3. K \in Nat
  OBVIOUS
<1>4. ra[0] = <<>> /\ \A j \in 1 .. K : ra[j] = ra[j - 1] \o Sep(j) \o Label(h, n, kids[j]) \o p[kids[j]]
  BY <1>1 DEF PrintsRow, IsRow
<1>5. rb[0] = <<>> /\ \A j \in 1 .. K : rb[j] = rb[j - 1] \o Sep(j) \o Label(h, n, kids[j]) \o q[kids[j]]
  BY <1>2 DEF PrintsRow, IsRow
<1>6. Members(h, n, kids, p) = ra[K] /\ Members(h, n, kids, q) = rb[K]
  BY <1>1, <1>2 DEF PrintsRow
<1>7. \A j \in 1 .. K : q[kids[j]] = p[kids[j]]
  OBVIOUS
<1> HIDE DEF K
<1>8. 0 \in T
  BY <1>3, <1>4, <1>5
<1>9. ASSUME NEW k \in 0 .. K - 1, k \in T PROVE k + 1 \in T
  <2>1. k + 1 \in 1 .. K /\ (k + 1) - 1 = k /\ k + 1 \in 0 .. K
    BY <1>3
  <2>2. ra[k + 1] = ra[k] \o Sep(k + 1) \o Label(h, n, kids[k + 1]) \o p[kids[k + 1]]
    BY <1>4, <2>1
  <2>3. rb[k + 1] = rb[k] \o Sep(k + 1) \o Label(h, n, kids[k + 1]) \o q[kids[k + 1]]
    BY <1>5, <2>1
  <2>4. ra[k] = rb[k] /\ p[kids[k + 1]] = q[kids[k + 1]]
    BY <1>7, <1>9, <2>1
  <2>5. QED BY <2>1, <2>2, <2>3, <2>4
<1> HIDE DEF T
<1>10. \A k \in 0 .. K : k \in T
  BY <1>3, <1>8, <1>9, InductUpTo
<1>11. ra[K] = rb[K]
  BY <1>3, <1>10 DEF T
<1>12. QED BY <1>6, <1>11

\* What a node is printed as is made of units, and depends on its members only.
LEMMA PrintsNode ==
  ASSUME NEW t, NEW h \in [0 .. t -> Record], Tree(h, t), NEW n \in 0 .. t,
         NEW p, \A j \in 1 .. Len(h[n].kids) : p[h[n].kids[j]] \in Seq(Out)
  PROVE  /\ PrintValue(h, n, p) \in Seq(Out)
         /\ \A q : (\A j \in 1 .. Len(h[n].kids) : q[h[n].kids[j]] = p[h[n].kids[j]])
                     => PrintValue(h, n, q) = PrintValue(h, n, p)
<1> DEFINE V == Seq(Out)
           kids == h[n].kids
           S == 0 .. t
<1>1. kids \in Seq(S) /\ \A k \in S : h[k].key \in Seq(Chars)
  BY DEF Tree, Record
<1>2. h[n].num \in Number /\ h[n].str \in Seq(Chars)
  BY DEF Record
<1>3. PrintNumber(h[n].num) \in V
  BY <1>2, PrintNumberType
<1>4. PrintString(h[n].str) \in V
  BY <1>2, PartsType
<1>5. \A u \in Literal : <<u>> \in V
  <2>1. Literal \subseteq Out
    BY DEF Out
  <2> DEFINE O == Out
  <2> HIDE DEF O
  <2>2. \A u \in O : <<u>> \in Seq(O)
    OBVIOUS
  <2>3. QED BY <2>1, <2>2 DEF O
<1> HIDE DEF kids, S
<1>6. \A j \in 1 .. Len(kids) : p[kids[j]] \in Seq(Out)
  BY DEF kids
<1>7. Members(h, n, kids, p) \in V
  <2>1. PICK row : PrintsRow(h, n, kids, p, row)
    BY <1>1, <1>6, MembersAreRow
  <2>2. Len(kids) \in Nat
    BY <1>1
  <2>3. QED BY <2>1, <2>2 DEF PrintsRow, IsRow
<1>8. \A x \in V : \A a, b \in V : a \o x \o b \in V
  BY ConcatProperties
<1>9. /\ <<"[">> \o Members(h, n, kids, p) \o <<"]">> \in V
      /\ <<"{">> \o Members(h, n, kids, p) \o <<"}">> \in V
  <2> HIDE DEF V
  <2>1. <<"[">> \in V /\ <<"]">> \in V /\ <<"{">> \in V /\ <<"}">> \in V
    BY PartsType DEF V
  <2>2. QED BY <1>7, <1>8, <2>1
<1>10. <<>> \in V
  BY EmptySeq
<1> DEFINE members(q) == Members(h, n, h[n].kids, q)
           Shape(q) == CASE h[n].type \in Literal -> <<h[n].type>>
                         [] h[n].type = "number"  -> PrintNumber(h[n].num)
                         [] h[n].type = "string"  -> PrintString(h[n].str)
                         [] h[n].type = "array"   -> <<"[">> \o members(q) \o <<"]">>
                         [] h[n].type = "object"  -> <<"{">> \o members(q) \o <<"}">>
                         [] OTHER                 -> <<>>
<1>11. \A q : PrintValue(h, n, q) = Shape(q)
  BY DEF PrintValue
<1>12. Shape(p) \in V
  <2> HIDE DEF V
  <2>1. QED BY <1>3, <1>4, <1>5, <1>9, <1>10 DEF kids, Literal
<1>13. ASSUME NEW q, \A j \in 1 .. Len(kids) : q[kids[j]] = p[kids[j]]
       PROVE  members(q) = members(p)
  <2>1. Members(h, n, kids, p) = Members(h, n, kids, q)
    BY <1>1, <1>6, <1>13, SameMembers
  <2>2. QED BY <2>1 DEF kids
<1>14. ASSUME NEW q, \A j \in 1 .. Len(kids) : q[kids[j]] = p[kids[j]]
       PROVE  PrintValue(h, n, q) = PrintValue(h, n, p)
  <2>1. members(q) = members(p)
    BY <1>13, <1>14
  <2> HIDE DEF members
  <2>2. Shape(q) = Shape(p)
    BY <2>1
  <2>3. QED BY <1>11, <2>2
<1> HIDE DEF V, Shape
<1>15. PrintValue(h, n, p) \in Seq(Out)
  BY <1>11, <1>12 DEF V
<1>16. QED BY <1>14, <1>15 DEF kids

\* print is what each node of the tree is printed as.
PrintEquation(h, t, print) ==
  print \in [0 .. t -> Seq(Out)] /\ \A n \in 0 .. t : print[n] = PrintValue(h, n, print)

\* It is determined by its equation.
LEMMA PrintedEquation ==
  ASSUME NEW t, NEW h \in [0 .. t -> Record], Tree(h, t)
  PROVE  PrintEquation(h, t, Printed(h))
<1> DEFINE S == 0 .. t
           V == Seq(Out)
           rank == [n \in S |-> t - n]
           Step(n, f) == PrintValue(h, n, f)
           F == [n \in S |-> [f \in [S -> V] |-> Step(n, f)]]
           print[n \in DOMAIN h] == Step(n, print)
<1>1. t \in Nat /\ DOMAIN h = S
  BY DEF Tree
<1>2. rank \in [S -> Nat] /\ \A n \in S : rank[n] = t - n
  BY <1>1
<1>3. ASSUME NEW n \in S, NEW j \in 1 .. Len(h[n].kids)
      PROVE  h[n].kids[j] \in S /\ rank[h[n].kids[j]] < rank[n]
  <2> DEFINE k == h[n].kids[j]
  <2>1. h[n].kids \in Seq(S) /\ n < k
    BY DEF Tree
  <2>2. k \in S
    BY <2>1, ElementOfSeq
  <2> HIDE DEF k
  <2>3. rank[k] = t - k /\ rank[n] = t - n
    BY <1>2, <2>2
  <2>4. rank[k] < rank[n]
    BY <1>1, <2>1, <2>2, <2>3
  <2>5. QED BY <2>2, <2>4 DEF k
<1> HIDE DEF rank
<1>4. ASSUME NEW n \in S, NEW f, \A y \in S : rank[y] < rank[n] => f[y] \in V
      PROVE  Step(n, f) \in V
  <2>1. \A j \in 1 .. Len(h[n].kids) : f[h[n].kids[j]] \in Seq(Out)
    BY <1>3, <1>4
  <2>2. QED BY <2>1, PrintsNode
<1>5. ASSUME NEW n \in S, NEW f, NEW g, \A y \in S : rank[y] < rank[n] => f[y] \in V /\ f[y] = g[y]
      PROVE  Step(n, f) = Step(n, g)
  <2>1. \A j \in 1 .. Len(h[n].kids) : f[h[n].kids[j]] \in Seq(Out)
    BY <1>3, <1>5
  <2>2. \A j \in 1 .. Len(h[n].kids) : g[h[n].kids[j]] = f[h[n].kids[j]]
    BY <1>3, <1>5
  <2>3. QED BY <2>1, <2>2, PrintsNode
<1> HIDE DEF V, Step
<1>6. LooksBelow(F, S, V, rank) /\ \A n \in S : \A f \in [S -> V] : F[n][f] = Step(n, f)
  <2>1. /\ F \in [S -> [[S -> V] -> V]]
        /\ \A n \in S : \A f \in [S -> V] : F[n][f] = Step(n, f)
    BY <1>4
  <2> HIDE DEF F, S
  <2>2. ASSUME NEW n \in S, NEW f \in [S -> V], NEW g \in [S -> V],
               \A y \in S : rank[y] < rank[n] => f[y] = g[y]
        PROVE  F[n][f] = F[n][g]
    <3>1. Step(n, f) = Step(n, g)
      BY <1>5, <2>2
    <3>2. QED BY <2>1, <3>1
  <2>3. QED BY <1>2, <2>1, <2>2 DEF LooksBelow
<1>7. <<>> \in V
  BY EmptySeq DEF V
<1> HIDE DEF F
<1>8. PICK f \in [S -> V] : \A n \in S : f[n] = F[n][f]
  <2> HIDE DEF S
  <2>1. QED BY <1>6, <1>7, RankedRecursion
<1>9. f = [n \in S |-> Step(n, f)]
  BY <1>6, <1>8
<1>10. print = [n \in S |-> Step(n, print)]
  BY <1>1, <1>9
<1>11. Printed(h) = print
  BY DEF Printed, Step
<1> HIDE DEF print
<1> DEFINE T == {n \in S : print[n] \in V}
<1>12. ASSUME NEW n \in S, \A y \in S : rank[y] < rank[n] => y \in T PROVE n \in T
  <2>1. Step(n, print) \in V
    BY <1>4, <1>12
  <2>2. QED BY <1>10, <2>1
<1>13. S \subseteq T
  <2> HIDE DEF T, S
  <2>1. QED BY <1>2, <1>12, RankedInduction
<1>14. print \in [S -> V]
  <2>1. print = [n \in S |-> print[n]]
    BY <1>10
  <2>2. QED BY <1>13, <2>1
<1>15. QED BY <1>10, <1>11, <1>14 DEF S, V, Step, PrintEquation

-----------------------------------------------------------------------------
(* Where the parts of a printed tree stand in a text: the nodes C from     *)
(* b[n] to e[n].                                                           *)

Brackets == {"array", "object"}
Opening(h, n) == IF h[n].type = "array" THEN "[" ELSE "{"
Closing(h, n) == IF h[n].type = "array" THEN "]" ELSE "}"

\* What other nodes are printed as depends on no member.
PrintScalar(r) ==
  CASE r.type \in Literal -> <<r.type>>
    [] r.type = "number"  -> PrintNumber(r.num)
    [] r.type = "string"  -> PrintString(r.str)
    [] OTHER              -> <<>>

\* What has no members is printed so.
LEMMA ScalarPrints ==
  ASSUME NEW h, NEW n, h[n].type \notin Brackets, NEW p
  PROVE  PrintValue(h, n, p) = PrintScalar(h[n])
<1>1. h[n].type # "array" /\ h[n].type # "object"
  BY DEF Brackets
<1>2. QED BY <1>1 DEF PrintValue, PrintScalar, Literal

\* What comes before the value of the j-th member.
Lead(h, n, j) == Sep(j) \o Label(h, n, h[n].kids[j])

\* Where the first j members end.
After(h, b, e, n, j) == IF j = 0 THEN b[n] + 1 ELSE e[h[n].kids[j]]

\* The value of the j-th member begins behind its name.
Placed(tx, h, b, e, n, j) ==
  /\ Holds(tx, After(h, b, e, n, j - 1), Lead(h, n, j))
  /\ b[h[n].kids[j]] = After(h, b, e, n, j - 1) + Len(Lead(h, n, j))

\* The first m members of n are there.
Filled(tx, h, b, e, C, n, m) ==
  \A j \in 1 .. m : h[n].kids[j] \in C /\ Placed(tx, h, b, e, n, j)

\* The array or object n is there up to its m-th member.
Inside(tx, h, b, e, C, n, m) ==
  h[n].type \in Brackets /\ Holds(tx, b[n], <<Opening(h, n)>>) /\ Filled(tx, h, b, e, C, n, m)

\* All of n is there.
Whole(tx, h, b, e, C, n) ==
  \/ /\ Inside(tx, h, b, e, C, n, Len(h[n].kids))
     /\ Holds(tx, After(h, b, e, n, Len(h[n].kids)), <<Closing(h, n)>>)
     /\ e[n] = After(h, b, e, n, Len(h[n].kids)) + 1
  \/ /\ h[n].type \notin Brackets
     /\ Holds(tx, b[n], PrintScalar(h[n]))
     /\ e[n] = b[n] + Len(PrintScalar(h[n]))

\* A node that is there stands as it is printed.
Stands(tx, b, e, n, s) == Holds(tx, b[n], s) /\ e[n] = b[n] + Len(s)

MembersStand(tx, h, b, e, n, p) ==
  \A j \in 1 .. Len(h[n].kids) : Stands(tx, b, e, h[n].kids[j], p[h[n].kids[j]])
RowStandsIn(tx, h, b, e, n, m) ==
  m \in Seq(Out) /\ Holds(tx, b[n] + 1, m) /\ After(h, b, e, n, Len(h[n].kids)) = b[n] + 1 + Len(m)

\* The row of members does when they do.
LEMMA RowStands ==
  ASSUME NEW t, NEW h \in [0 .. t -> Record], Tree(h, t), NEW tx, NEW b, NEW e, NEW C, NEW n \in 0 .. t,
         Inside(tx, h, b, e, C, n, Len(h[n].kids)), NEW p, MembersStand(tx, h, b, e, n, p)
  PROVE  RowStandsIn(tx, h, b, e, n, Members(h, n, h[n].kids, p))
<1> DEFINE kids == h[n].kids
           K == Len(kids)
           V == Seq(Out)
           at0 == b[n] + 1
           A(j) == After(h, b, e, n, j)
           lead(j) == Lead(h, n, j)
<1>1. kids \in Seq(0 .. t) /\ \A k \in 0 .. t : h[k].key \in Seq(Chars)
  BY DEF Tree, Record
<1>2. K \in Nat /\ \A j \in 1 .. K : kids[j] \in 0 .. t
  <2>1. K \in Nat
    BY <1>1
  <2>2. QED BY <1>1, <2>1, ElementOfSeq
<1>3. \A j \in 1 .. K : Holds(tx, b[kids[j]], p[kids[j]]) /\ e[kids[j]] = b[kids[j]] + Len(p[kids[j]])
  BY DEF MembersStand, Stands
<1>4. \A j \in 1 .. K : p[kids[j]] \in V
  BY <1>3 DEF Holds
<1>5. \A j \in 1 .. K : Holds(tx, A(j - 1), lead(j)) /\ b[kids[j]] = A(j - 1) + Len(lead(j))
  BY DEF Inside, Filled, Placed
<1>6. b[n] \in Nat /\ at0 \in Nat /\ at0 <= Len(tx)
  <2>1. <<Opening(h, n)>> \in V /\ Len(<<Opening(h, n)>>) = 1
    BY PartsType DEF Opening
  <2>2. b[n] \in Nat /\ b[n] + Len(<<Opening(h, n)>>) <= Len(tx)
    BY DEF Inside, Holds
  <2>3. QED BY <2>1, <2>2
<1>7. \A j \in 1 .. K : A(j) = e[kids[j]]
  BY DEF After
<1>8. A(0) = at0
  BY DEF After
<1> HIDE DEF kids, K, V
<1>9. PICK row : PrintsRow(h, n, kids, p, row)
  BY <1>1, <1>4, MembersAreRow DEF K, V
<1>10. /\ row \in [0 .. K -> V] /\ row[0] = <<>>
       /\ \A j \in 1 .. K : row[j] = row[j - 1] \o Sep(j) \o Label(h, n, kids[j]) \o p[kids[j]]
       /\ Members(h, n, kids, p) = row[K]
  BY <1>9 DEF PrintsRow, IsRow, K, V
<1>11. ASSUME NEW j \in 1 .. K PROVE row[j] = (row[j - 1] \o lead(j)) \o p[kids[j]]
  <2>1. Sep(j) \in V /\ Label(h, n, kids[j]) \in V /\ row[j - 1] \in V
    <3>1. kids[j] \in 0 .. t /\ j - 1 \in 0 .. K
      BY <1>2
    <3>2. h[kids[j]].key \in Seq(Chars)
      BY <1>1, <3>1
    <3>3. QED BY <1>10, <3>1, <3>2, LabelType, PartsType DEF V
  <2> DEFINE a == row[j - 1]
             s == Sep(j)
             l == Label(h, n, kids[j])
  <2> HIDE DEF a, s, l
  <2>2. (a \o s) \o l = a \o (s \o l)
    <3>1. a \in Seq(Out) /\ s \in Seq(Out) /\ l \in Seq(Out)
      BY <2>1 DEF V, a, s, l
    <3>2. QED BY ONLY <3>1, OutAssociative
  <2>3. row[j] = ((a \o s) \o l) \o p[kids[j]]
    BY <1>10 DEF a, s, l
  <2>4. lead(j) = s \o l
    BY DEF Lead, s, l, kids
  <2>5. QED BY <2>2, <2>3, <2>4 DEF a
<1> HIDE DEF A, lead, at0
<1> DEFINE T == {j \in 0 .. K : Holds(tx, at0, row[j]) /\ A(j) = at0 + Len(row[j])}
<1>12. 0 \in T
  <2>1. <<>> \in V /\ Len(<<>>) = 0
    BY EmptySeq DEF V
  <2>2. Holds(tx, at0, <<>>)
    BY <1>6, <2>1 DEF Holds, V
  <2>3. A(0) = at0 + Len(<<>>)
    BY <1>6, <1>8, <2>1
  <2>4. QED BY <1>2, <1>10, <2>2, <2>3
<1>13. ASSUME NEW j \in 0 .. K - 1, j \in T PROVE j + 1 \in T
  <2>1. j + 1 \in 1 .. K /\ (j + 1) - 1 = j /\ j + 1 \in 0 .. K
    BY <1>2
  <2> DEFINE s == row[j]
             l == lead(j + 1)
             v == p[kids[j + 1]]
  <2>2. Holds(tx, at0, s) /\ A(j) = at0 + Len(s)
    BY <1>13
  <2>3. Holds(tx, A(j), l) /\ b[kids[j + 1]] = A(j) + Len(l)
    BY <1>5, <2>1
  <2>4. Holds(tx, b[kids[j + 1]], v) /\ e[kids[j + 1]] = b[kids[j + 1]] + Len(v)
    BY <1>3, <2>1
  <2>5. row[j + 1] = (s \o l) \o v
    BY <1>11, <2>1
  <2>6. A(j + 1) = e[kids[j + 1]]
    BY <1>7, <2>1
  <2> HIDE DEF s, l, v
  <2>7. Holds(tx, at0, s \o l) /\ Len(s \o l) = Len(s) + Len(l) /\ Len(s) \in Nat /\ Len(l) \in Nat
    BY <2>2, <2>3, HoldsBoth
  <2> DEFINE w == s \o l
  <2>8. Holds(tx, at0, w) /\ Holds(tx, at0 + Len(w), v)
    BY <1>6, <2>2, <2>3, <2>4, <2>7
  <2> HIDE DEF w
  <2>9. Holds(tx, at0, w \o v) /\ Len(w \o v) = Len(w) + Len(v) /\ Len(w) \in Nat /\ Len(v) \in Nat
    BY <2>8, HoldsBoth
  <2>10. A(j + 1) = at0 + Len(w \o v)
    <3>1. Len(w) = Len(s) + Len(l)
      BY <2>7 DEF w
    <3>2. QED BY <1>6, <2>2, <2>3, <2>4, <2>6, <2>7, <2>9, <3>1
  <2>11. QED BY <2>1, <2>5, <2>9, <2>10 DEF w
<1> HIDE DEF T
<1>14. \A j \in 0 .. K : j \in T
  BY <1>2, <1>12, <1>13, InductUpTo
<1>15. K \in T /\ K \in 0 .. K
  BY <1>2, <1>14
<1>16. Holds(tx, at0, row[K]) /\ A(K) = at0 + Len(row[K]) /\ row[K] \in V
  BY <1>10, <1>15 DEF T
<1>17. QED BY <1>10, <1>16 DEF kids, K, V, A, at0, RowStandsIn

\* So does a node whose members do.
LEMMA NodeStands ==
  ASSUME NEW t, NEW h \in [0 .. t -> Record], Tree(h, t), NEW tx, NEW b, NEW e, NEW C, NEW n \in 0 .. t,
         Whole(tx, h, b, e, C, n), NEW p,
         \A j \in 1 .. Len(h[n].kids) : h[n].kids[j] \in C => Stands(tx, b, e, h[n].kids[j], p[h[n].kids[j]])
  PROVE  Stands(tx, b, e, n, PrintValue(h, n, p))
<1> DEFINE kids == h[n].kids
           K == Len(kids)
           m == Members(h, n, kids, p)
           x == Opening(h, n)
           y == Closing(h, n)
           s == <<x>>
           r == <<y>>
           fin == After(h, b, e, n, K)
<1>1. CASE /\ Inside(tx, h, b, e, C, n, K)
           /\ Holds(tx, fin, r)
           /\ e[n] = fin + 1
  <2>1. MembersStand(tx, h, b, e, n, p)
    BY <1>1 DEF Inside, Filled, MembersStand
  <2>2. m \in Seq(Out) /\ Holds(tx, b[n] + 1, m) /\ fin = b[n] + 1 + Len(m)
    <3>1. RowStandsIn(tx, h, b, e, n, Members(h, n, h[n].kids, p))
      BY <1>1, <2>1, RowStands
    <3>2. QED BY <3>1 DEF RowStandsIn
  <2>3. Holds(tx, b[n], s) /\ s \in Seq(Out) /\ r \in Seq(Out) /\ Len(s) = 1 /\ Len(r) = 1
    BY <1>1, PartsType DEF Inside, Opening, Closing
  <2>4. PrintValue(h, n, p) = (s \o m) \o r
    <3>1. h[n].type \in {"array", "object"}
      BY <1>1 DEF Inside, Brackets
    <3>2. CASE h[n].type = "array"
      <4>1. PrintValue(h, n, p) = <<"[">> \o m \o <<"]">>
        BY <3>2 DEF PrintValue, Literal
      <4>2. QED BY <3>2, <4>1 DEF Opening, Closing
    <3>3. CASE h[n].type = "object"
      <4>1. PrintValue(h, n, p) = <<"{">> \o m \o <<"}">>
        BY <3>3 DEF PrintValue, Literal
      <4>2. QED BY <3>3, <4>1 DEF Opening, Closing
    <3>4. QED BY <3>1, <3>2, <3>3
  <2>5. Holds(tx, fin, r) /\ e[n] = fin + 1 /\ b[n] \in Nat
    BY <1>1, <2>3 DEF Holds
  <2> HIDE DEF m, s, r, fin
  <2>6. Holds(tx, b[n], s \o m) /\ Len(s \o m) = Len(s) + Len(m) /\ Len(m) \in Nat
    <3>1. Holds(tx, b[n] + Len(s), m)
      BY <2>2, <2>3
    <3>2. Holds(tx, b[n], s)
      BY <2>3
    <3>3. QED BY <3>1, <3>2, HoldsBoth
  <2> DEFINE w == s \o m
  <2>7. Len(w) = 1 + Len(m) /\ fin = b[n] + Len(w)
    BY <2>2, <2>3, <2>5, <2>6
  <2>8. Holds(tx, b[n], w) /\ Holds(tx, b[n] + Len(w), r)
    BY <2>5, <2>6, <2>7
  <2> HIDE DEF w
  <2>9. Holds(tx, b[n], w \o r) /\ Len(w \o r) = Len(w) + Len(r) /\ Len(w) \in Nat
    BY <2>8, HoldsBoth
  <2>10. e[n] = b[n] + Len(w \o r)
    <3>1. Len(w \o r) = Len(w) + 1
      BY <2>3, <2>9
    <3>2. QED BY ONLY <2>5, <2>7, <2>9, <3>1
  <2>11. QED BY <2>4, <2>9, <2>10 DEF w, Stands
<1>2. CASE /\ h[n].type \notin Brackets
           /\ Holds(tx, b[n], PrintScalar(h[n]))
           /\ e[n] = b[n] + Len(PrintScalar(h[n]))
  <2>1. PrintValue(h, n, p) = PrintScalar(h[n])
    BY <1>2, ScalarPrints
  <2>2. QED BY <1>2, <2>1 DEF Stands
<1>3. QED BY <1>1, <1>2 DEF Whole

\* All of the tree stands as it is printed.
LEMMA TreeStands ==
  ASSUME NEW t, NEW h \in [0 .. t -> Record], Tree(h, t), NEW tx, NEW b, NEW e, NEW C,
         \A n \in C : Whole(tx, h, b, e, C, n)
  PROVE  \A n \in 0 .. t : n \in C => Stands(tx, b, e, n, Printed(h)[n])
<1> DEFINE S == 0 .. t
           p == Printed(h)
           rank == [n \in S |-> t - n]
           T == {n \in S : n \in C => Stands(tx, b, e, n, p[n])}
<1>1. t \in Nat
  BY DEF Tree
<1>2. rank \in [S -> Nat] /\ \A n \in S : rank[n] = t - n
  BY <1>1
<1>3. p \in [S -> Seq(Out)] /\ \A n \in S : p[n] = PrintValue(h, n, p)
  BY PrintedEquation DEF PrintEquation
<1> HIDE DEF p, rank
<1>4. ASSUME NEW n \in S, \A y \in S : rank[y] < rank[n] => y \in T PROVE n \in T
  <2> SUFFICES ASSUME n \in C PROVE Stands(tx, b, e, n, p[n])
    OBVIOUS
  <2>1. ASSUME NEW j \in 1 .. Len(h[n].kids), h[n].kids[j] \in C
        PROVE  Stands(tx, b, e, h[n].kids[j], p[h[n].kids[j]])
    <3> DEFINE k == h[n].kids[j]
    <3>1. h[n].kids \in Seq(S) /\ n < k
      BY DEF Tree
    <3>2. k \in S
      BY <3>1, ElementOfSeq
    <3>3. k \in C
      BY <2>1
    <3> HIDE DEF k
    <3>4. rank[k] = t - k /\ rank[n] = t - n
      BY <1>2, <3>2
    <3>5. rank[k] < rank[n]
      BY <1>1, <3>1, <3>2, <3>4
    <3>6. k \in T
      BY <1>4, <3>2, <3>5
    <3>7. QED BY <3>3, <3>6 DEF k
  <2>2. Whole(tx, h, b, e, C, n)
    OBVIOUS
  <2>3. Stands(tx, b, e, n, PrintValue(h, n, p))
    BY <2>1, <2>2, NodeStands
  <2>4. QED BY <1>3, <2>3
<1>5. S \subseteq T
  <2> HIDE DEF T, S
  <2>1. QED BY <1>2, <1>4, RankedInduction
<1>6. QED BY <1>5 DEF p

\* A text of which the root stands from 0 to i is what the tree is printed as.
LEMMA RootStands ==
  ASSUME NEW t, NEW h \in [0 .. t -> Record], Tree(h, t), NEW U, NEW tx \in Seq(U), NEW b, NEW e, NEW C,
         \A n \in C : Whole(tx, h, b, e, C, n), Root \in C, b[Root] = 0, NEW i, e[Root] = i
  PROVE  Printed(h)[Root] = SubSeq(tx, 1, i)
<1> DEFINE s == Printed(h)[Root]
           x == SubSeq(tx, 1, i)
<1>1. t \in Nat /\ Root \in 0 .. t
  BY DEF Tree, Root
<1>2. Stands(tx, b, e, Root, Printed(h)[Root])
  BY <1>1, TreeStands
<1>3. Holds(tx, 0, s) /\ i = 0 + Len(s)
  BY <1>2 DEF Stands
<1> HIDE DEF s
<1>4. s \in Seq(Out) /\ Len(s) <= Len(tx) /\ (\A q \in 1 .. Len(s) : tx[0 + q] = s[q]) /\ Len(s) \in Nat
      /\ Len(tx) \in Nat
  BY <1>3 DEF Holds
<1>5. i = Len(s) /\ \A q \in 1 .. Len(s) : tx[q] = s[q]
  BY <1>3, <1>4
<1>6. x \in Seq(U) /\ Len(x) = Len(s) /\ \A q \in 1 .. Len(s) : x[q] = tx[q]
  BY <1>4, <1>5
<1> HIDE DEF x
<1>7. \A q \in 1 .. Len(s) : x[q] = s[q]
  BY <1>5, <1>6
<1>8. s = x
  <2> DEFINE W == U \cup Out
  <2>1. s \in Seq(W) /\ x \in Seq(W)
    BY <1>4, <1>6, SeqMonotonic
  <2> HIDE DEF W
  <2>2. QED BY <1>6, <1>7, <2>1, SeqEqual
<1>9. QED BY <1>8 DEF s, x

\* More is known of where nodes stand, and no less of the nodes C.
Moves(tx, ty, h, g, b, c, e, d, C, D) ==
  /\ Extends(ty, tx) /\ C \subseteq D
  /\ \A k \in C : g[k] = h[k] /\ c[k] = b[k] /\ d[k] = e[k]

\* Node n begins where it did, with the same first m members.
Begins(h, g, b, c, n, m) ==
  c[n] = b[n] /\ g[n].type = h[n].type /\ m \in Nat /\ \A j \in 1 .. m : g[n].kids[j] = h[n].kids[j]

\* What is known of its members stays true,
InsideStays(ty, h, g, b, c, e, d, D, n, m) ==
  /\ Inside(ty, g, c, d, D, n, m)
  /\ \A j \in 0 .. m : After(g, c, d, n, j) = After(h, b, e, n, j)

\* when the nodes C do not move and n keeps its first members.
LEMMA InsideKept ==
  ASSUME NEW tx, NEW ty, NEW h, NEW g, NEW b, NEW c, NEW e, NEW d, NEW C, NEW D, NEW n, NEW m,
         Moves(tx, ty, h, g, b, c, e, d, C, D), Begins(h, g, b, c, n, m), Inside(tx, h, b, e, C, n, m)
  PROVE  InsideStays(ty, h, g, b, c, e, d, D, n, m)
<1>1. /\ m \in Nat /\ c[n] = b[n] /\ g[n].type = h[n].type
      /\ \A j \in 1 .. m : g[n].kids[j] = h[n].kids[j] /\ h[n].kids[j] \in C /\ h[n].kids[j] \in D
                           /\ g[h[n].kids[j]] = h[h[n].kids[j]]
                           /\ c[h[n].kids[j]] = b[h[n].kids[j]] /\ d[h[n].kids[j]] = e[h[n].kids[j]]
  BY DEF Moves, Begins, Inside, Filled
<1>2. ASSUME NEW j \in 0 .. m PROVE After(g, c, d, n, j) = After(h, b, e, n, j)
  <2>1. j # 0 => j \in 1 .. m
    BY <1>1
  <2>2. QED BY <1>1, <2>1 DEF After
<1>3. ASSUME NEW j \in 1 .. m PROVE g[n].kids[j] \in D /\ Placed(ty, g, c, d, n, j)
  <2>1. Lead(g, n, j) = Lead(h, n, j)
    BY <1>1 DEF Lead, Label
  <2>2. j - 1 \in 0 .. m
    BY <1>1
  <2>3. After(g, c, d, n, j - 1) = After(h, b, e, n, j - 1)
    BY <1>2, <2>2
  <2> DEFINE a == After(h, b, e, n, j - 1)
             l == Lead(h, n, j)
  <2>4. Holds(tx, a, l) /\ b[h[n].kids[j]] = a + Len(l)
    BY DEF Inside, Filled, Placed
  <2>5. Extends(ty, tx)
    BY DEF Moves
  <2> HIDE DEF a, l
  <2>6. Holds(ty, a, l)
    BY <2>4, <2>5, HoldsLonger
  <2>7. g[n].kids[j] = h[n].kids[j] /\ c[h[n].kids[j]] = b[h[n].kids[j]] /\ h[n].kids[j] \in D
    BY <1>1
  <2>8. QED BY <2>1, <2>3, <2>4, <2>6, <2>7 DEF Placed, a, l
<1>4. Opening(g, n) = Opening(h, n)
  BY <1>1 DEF Opening
<1>5. Holds(ty, c[n], <<Opening(g, n)>>)
  <2>1. Holds(tx, b[n], <<Opening(h, n)>>) /\ Extends(ty, tx)
    BY DEF Inside, Moves
  <2>2. Holds(ty, b[n], <<Opening(h, n)>>)
    BY <2>1, HoldsLonger
  <2>3. QED BY <1>1, <1>4, <2>2
<1>6. Inside(ty, g, c, d, D, n, m)
  BY <1>1, <1>3, <1>5 DEF Inside, Filled
<1>7. QED BY <1>2, <1>6 DEF InsideStays

\* and of a node that is there.
LEMMA WholeKept ==
  ASSUME NEW tx, NEW ty, NEW h, NEW g, NEW b, NEW c, NEW e, NEW d, NEW C, NEW D, NEW n \in C,
         Moves(tx, ty, h, g, b, c, e, d, C, D), Len(h[n].kids) \in Nat, Whole(tx, h, b, e, C, n)
  PROVE  Whole(ty, g, c, d, D, n)
<1>1. g[n] = h[n] /\ c[n] = b[n] /\ d[n] = e[n] /\ Extends(ty, tx)
  BY DEF Moves
<1> DEFINE K == Len(h[n].kids)
           fin == After(h, b, e, n, K)
           r == <<Closing(h, n)>>
           s == PrintScalar(h[n])
<1>2. K \in Nat /\ Len(g[n].kids) = K
  BY <1>1
<1>3. Closing(g, n) = Closing(h, n)
  BY <1>1 DEF Closing
<1>4. CASE Inside(tx, h, b, e, C, n, K) /\ Holds(tx, fin, r) /\ e[n] = fin + 1
  <2>1. Begins(h, g, b, c, n, K)
    BY <1>1, <1>2 DEF Begins
  <2> HIDE DEF r, K
  <2>2. InsideStays(ty, h, g, b, c, e, d, D, n, K)
    BY <1>4, <2>1, InsideKept
  <2>3. K \in 0 .. K
    BY <1>2
  <2>4. Inside(ty, g, c, d, D, n, K) /\ After(g, c, d, n, K) = fin
    BY <2>2, <2>3 DEF InsideStays
  <2> HIDE DEF fin
  <2>5. Holds(ty, fin, r)
    BY <1>1, <1>4, HoldsLonger
  <2>6. d[n] = fin + 1
    BY <1>1, <1>4
  <2>7. QED BY <1>2, <1>3, <2>4, <2>5, <2>6 DEF Whole, r
<1>5. CASE h[n].type \notin Brackets /\ Holds(tx, b[n], s) /\ e[n] = b[n] + Len(s)
  <2>1. g[n].type \notin Brackets /\ PrintScalar(g[n]) = s
    BY <1>1, <1>5
  <2> HIDE DEF s
  <2>2. Holds(ty, b[n], s)
    BY <1>1, <1>5, HoldsLonger
  <2>3. QED BY <1>1, <1>5, <2>1, <2>2 DEF Whole
<1>6. QED BY <1>4, <1>5 DEF Whole

\* The last member of n is k, whose value begins behind the others.
Above(tx, h, b, e, C, n, k) ==
  /\ Len(h[n].kids) \in Nat /\ Len(h[n].kids) >= 1 /\ h[n].kids[Len(h[n].kids)] = k
  /\ Inside(tx, h, b, e, C, n, Len(h[n].kids) - 1)
  /\ Placed(tx, h, b, e, n, Len(h[n].kids))

\* This stays true, too, while n and the name of k do.
SamePair(h, g, b, c, n, k) ==
  g[n] = h[n] /\ c[n] = b[n] /\ g[k].key = h[k].key /\ c[k] = b[k]

\* when other nodes move.
LEMMA AboveKept ==
  ASSUME NEW tx, NEW ty, NEW h, NEW g, NEW b, NEW c, NEW e, NEW d, NEW C, NEW D, NEW n, NEW k,
         Moves(tx, ty, h, g, b, c, e, d, C, D), Above(tx, h, b, e, C, n, k),
         SamePair(h, g, b, c, n, k)
  PROVE  Above(ty, g, c, d, D, n, k)
<1> USE DEF SamePair
<1> DEFINE K == Len(h[n].kids)
           a == After(h, b, e, n, K - 1)
           l == Lead(h, n, K)
<1>1. K \in Nat /\ K >= 1 /\ h[n].kids[K] = k /\ Inside(tx, h, b, e, C, n, K - 1)
      /\ Holds(tx, a, l) /\ b[k] = a + Len(l)
  BY DEF Above, Placed
<1>2. Len(g[n].kids) = K /\ g[n].kids[K] = k /\ Extends(ty, tx)
  BY <1>1 DEF Moves
<1> HIDE DEF K
<1>3. K - 1 \in Nat /\ K - 1 \in 0 .. K - 1
  BY <1>1
<1>4. Begins(h, g, b, c, n, K - 1)
  BY <1>3 DEF Begins
<1>5. InsideStays(ty, h, g, b, c, e, d, D, n, K - 1)
  BY <1>1, <1>4, InsideKept
<1>6. Inside(ty, g, c, d, D, n, K - 1) /\ After(g, c, d, n, K - 1) = a
  BY <1>3, <1>5 DEF InsideStays
<1>7. Lead(g, n, K) = l
  BY <1>1, <1>2 DEF Lead, Label
<1> HIDE DEF a, l
<1>8. Holds(ty, a, l) /\ c[k] = a + Len(l)
  BY <1>1, <1>2, HoldsLonger
<1>9. Placed(ty, g, c, d, n, K)
  BY <1>2, <1>6, <1>7, <1>8 DEF Placed
<1>10. QED BY <1>1, <1>2, <1>6, <1>9 DEF Above

\* The k-th open node reads the next one, its last member.
Under(fs, m, cur, k) == IF k = m THEN cur ELSE fs[k + 1].item
Reads(tx, h, b, e, C, f, c) ==
  f.child = c /\ h[f.item].type = f.kind /\ Above(tx, h, b, e, C, f.item, c)

\* The nodes C are there, and cur is read below the first m frames.
Stack(tx, h, b, e, C, fs, m, cur, t) ==
  /\ b \in [Nat -> Nat] /\ e \in [Nat -> Nat] /\ b[Root] = 0
  /\ C \subseteq 0 .. t /\ \A n \in C : Whole(tx, h, b, e, C, n)
  /\ m \in Nat /\ cur \in 0 .. t /\ cur \notin C
  /\ (IF m = 0 THEN cur ELSE fs[1].item) = Root
  /\ \A k \in 1 .. m : /\ fs[k].item \in 0 .. t /\ fs[k].item \notin C /\ fs[k].item < cur
                       /\ \A j \in 1 .. k - 1 : fs[j].item < fs[k].item
                       /\ Reads(tx, h, b, e, C, fs[k], Under(fs, m, cur, k))

\* The node that is read may change; more text is read.
LEMMA StackStays ==
  ASSUME NEW t \in Nat, NEW t2 \in {t, t + 1}, NEW tx, NEW ty, NEW h, NEW g, NEW b, NEW e, NEW C,
         NEW fs, NEW gs, NEW m, NEW cur,
         Stack(tx, h, b, e, C, fs, m, cur, t), Extends(ty, tx),
         \A n \in 0 .. t : Len(h[n].kids) \in Nat, \A n \in 0 .. t : n # cur => g[n] = h[n],
         g[cur].key = h[cur].key, \A k \in 1 .. m : gs[k] = fs[k]
  PROVE  Stack(ty, g, b, e, C, gs, m, cur, t2)
<1>1. /\ b \in [Nat -> Nat] /\ e \in [Nat -> Nat] /\ b[Root] = 0
      /\ C \subseteq 0 .. t /\ m \in Nat /\ cur \in 0 .. t /\ cur \notin C
      /\ (IF m = 0 THEN cur ELSE fs[1].item) = Root
  BY DEF Stack
<1>2. \A k \in C : g[k] = h[k]
  BY <1>1
<1>3. Moves(tx, ty, h, g, b, b, e, e, C, C)
  BY <1>2 DEF Moves
<1>4. ASSUME NEW n \in C PROVE Whole(ty, g, b, e, C, n)
  <2>1. Whole(tx, h, b, e, C, n) /\ Len(h[n].kids) \in Nat
    BY <1>1 DEF Stack
  <2>2. QED BY <1>3, <2>1, WholeKept
<1>5. ASSUME NEW k \in 1 .. m
      PROVE  /\ gs[k].item \in 0 .. t /\ gs[k].item \notin C /\ gs[k].item < cur
             /\ \A j \in 1 .. k - 1 : gs[j].item < gs[k].item
             /\ Reads(ty, g, b, e, C, gs[k], Under(gs, m, cur, k))
  <2> DEFINE n == fs[k].item
             c == Under(fs, m, cur, k)
  <2>1. gs[k] = fs[k] /\ n \in 0 .. t /\ n \notin C /\ n < cur /\ Reads(tx, h, b, e, C, fs[k], c)
    BY DEF Stack
  <2>2. \A j \in 1 .. k - 1 : j \in 1 .. m /\ gs[j].item < gs[k].item
    <3>1. \A j \in 1 .. k - 1 : j \in 1 .. m
      BY <1>1
    <3>2. \A j \in 1 .. k - 1 : fs[j].item < fs[k].item
      BY DEF Stack
    <3>3. QED BY <2>1, <3>1, <3>2
  <2>3. Under(gs, m, cur, k) = c /\ c \in 0 .. t
    <3>1. CASE k = m
      BY <1>1, <3>1 DEF Under
    <3>2. CASE k # m
      <4>1. k + 1 \in 1 .. m
        BY <1>1, <3>2
      <4>2. gs[k + 1] = fs[k + 1] /\ fs[k + 1].item \in 0 .. t
        BY <4>1 DEF Stack
      <4>3. QED BY <3>2, <4>2 DEF Under
    <3>3. QED BY <3>1, <3>2
  <2> HIDE DEF n, c
  <2>4. n # cur
    BY ONLY <1>1, <2>1, t \in Nat
  <2>5. g[n] = h[n] /\ g[c].key = h[c].key /\ SamePair(h, g, b, b, n, c)
    BY <2>1, <2>3, <2>4 DEF SamePair
  <2>6. fs[k].child = c /\ h[n].type = fs[k].kind /\ Above(tx, h, b, e, C, n, c)
    BY <2>1 DEF Reads, n
  <2>7. Above(ty, g, b, e, C, n, c)
    BY <1>3, <2>5, <2>6, AboveKept
  <2>8. Reads(ty, g, b, e, C, fs[k], c)
    BY <2>5, <2>6, <2>7 DEF Reads, n
  <2>9. QED BY <2>1, <2>2, <2>3, <2>8 DEF n
<1>6. 0 .. t \subseteq 0 .. t2
  OBVIOUS
<1>7. (IF m = 0 THEN cur ELSE gs[1].item) = Root
  <2>1. m # 0 => 1 \in 1 .. m
    BY <1>1
  <2>2. QED BY <1>1, <2>1
<1>8. QED BY <1>1, <1>4, <1>5, <1>6, <1>7 DEF Stack

\* The value of member K of cur, kid, is about to be read.
Waits(tx, h, b, e, C, fs, m, cur, kid, K) ==
  /\ kid \notin C /\ cur < kid /\ fs[m + 1].item = cur /\ fs[m + 1].child = kid /\ fs[m + 1].kind = h[cur].type
  /\ K = Len(h[cur].kids) /\ K >= 1 /\ h[cur].kids[K] = kid /\ Inside(tx, h, b, e, C, cur, K - 1)
  /\ Holds(tx, After(h, b, e, cur, K - 1), Lead(h, cur, K)) /\ Extends(tx, tx)

\* A member of it is begun.
LEMMA StackPushed ==
  ASSUME NEW t \in Nat, NEW tx, NEW h, NEW b, NEW e, NEW C, NEW fs, NEW m, NEW cur, NEW kid \in 0 .. t,
         Stack(tx, h, b, e, C, fs, m, cur, t), \A n \in 0 .. t : Len(h[n].kids) \in Nat,
         NEW K, Waits(tx, h, b, e, C, fs, m, cur, kid, K), NEW p, p = After(h, b, e, cur, K - 1) + Len(Lead(h, cur, K)),
         NEW c, c = [b EXCEPT ![kid] = p]
  PROVE  Stack(tx, h, c, e, C, fs, m + 1, kid, t)
<1>0. /\ kid \notin C /\ cur < kid /\ fs[m + 1].item = cur /\ fs[m + 1].child = kid
      /\ fs[m + 1].kind = h[cur].type /\ K = Len(h[cur].kids) /\ K >= 1 /\ h[cur].kids[K] = kid
      /\ Inside(tx, h, b, e, C, cur, K - 1) /\ Holds(tx, After(h, b, e, cur, K - 1), Lead(h, cur, K))
      /\ Extends(tx, tx)
  BY DEF Waits
<1>1. /\ b \in [Nat -> Nat] /\ e \in [Nat -> Nat] /\ b[Root] = 0
      /\ C \subseteq 0 .. t /\ m \in Nat /\ cur \in 0 .. t /\ cur \notin C
      /\ (IF m = 0 THEN cur ELSE fs[1].item) = Root
  BY DEF Stack
<1>2. p \in Nat
  <2>1. After(h, b, e, cur, K - 1) \in Nat /\ Lead(h, cur, K) \in Seq(Out)
    BY <1>0 DEF Holds
  <2>2. QED BY <2>1
<1>3. kid \in Nat /\ kid # Root /\ kid # cur
  BY <1>0, <1>1 DEF Root
<1>4. c \in [Nat -> Nat] /\ c[kid] = p /\ \A n \in Nat : n # kid => c[n] = b[n]
  BY <1>1, <1>2, <1>3
<1>5. c[Root] = 0
  BY <1>1, <1>3, <1>4 DEF Root
<1>6. Moves(tx, tx, h, h, b, c, e, e, C, C)
  BY <1>0, <1>1, <1>4 DEF Moves
<1>7. ASSUME NEW n \in C PROVE Whole(tx, h, c, e, C, n)
  <2>1. Whole(tx, h, b, e, C, n) /\ Len(h[n].kids) \in Nat
    BY <1>1 DEF Stack
  <2>2. QED BY <1>6, <2>1, WholeKept
<1>8. ASSUME NEW k \in 1 .. m
      PROVE  /\ fs[k].item \in 0 .. t /\ fs[k].item \notin C /\ fs[k].item < kid
             /\ \A j \in 1 .. k - 1 : fs[j].item < fs[k].item
             /\ Reads(tx, h, c, e, C, fs[k], Under(fs, m + 1, kid, k))
  <2> DEFINE n == fs[k].item
             d == Under(fs, m, cur, k)
  <2>1. n \in 0 .. t /\ n \notin C /\ n < cur /\ Reads(tx, h, b, e, C, fs[k], d)
        /\ \A j \in 1 .. k - 1 : fs[j].item < n
    BY DEF Stack
  <2>2. n < kid /\ n # kid
    <3> HIDE DEF n, d
    <3>1. cur < kid /\ cur \in 0 .. t /\ n \in 0 .. t /\ n < cur
      BY <1>0, <1>1, <2>1
    <3>2. QED BY ONLY <3>1, t \in Nat, kid \in 0 .. t
  <2>3. Under(fs, m + 1, kid, k) = d /\ d \in 0 .. t /\ d <= cur
    <3>0. k # m + 1
      BY <1>1
    <3>1. CASE k = m
      BY <1>0, <1>1, <3>0, <3>1 DEF Under
    <3>2. CASE k # m
      <4>1. k + 1 \in 1 .. m
        BY <1>1, <3>2
      <4>2. fs[k + 1].item \in 0 .. t /\ fs[k + 1].item < cur
        BY <4>1 DEF Stack
      <4> DEFINE x == fs[k + 1].item
      <4>3. x <= cur
        <5>1. x \in 0 .. t /\ x < cur
          BY <4>2
        <5> HIDE DEF x
        <5>2. QED BY ONLY <1>1, <5>1, t \in Nat
      <4>4. QED BY <3>0, <3>2, <4>2, <4>3 DEF Under
    <3>3. QED BY <3>1, <3>2
  <2> HIDE DEF n, d
  <2>4. d # kid
    BY <1>0, <1>1, <2>3
  <2>5. SamePair(h, h, b, c, n, d)
    BY <1>4, <2>1, <2>2, <2>3, <2>4 DEF SamePair
  <2>6. fs[k].child = d /\ h[n].type = fs[k].kind /\ Above(tx, h, b, e, C, n, d)
    BY <2>1 DEF Reads, n
  <2>7. Above(tx, h, c, e, C, n, d)
    BY <1>6, <2>5, <2>6, AboveKept
  <2>8. Reads(tx, h, c, e, C, fs[k], d)
    BY <2>6, <2>7 DEF Reads, n
  <2>9. QED BY <2>1, <2>2, <2>3, <2>8 DEF n
<1>9. Reads(tx, h, c, e, C, fs[m + 1], kid)
  <2>1. K \in Nat
    BY <1>0, <1>1
  <2>2. K - 1 \in Nat /\ K - 1 \in 0 .. K - 1
    BY <1>0, <2>1
  <2>3. Begins(h, h, b, c, cur, K - 1)
    BY <1>1, <1>3, <1>4, <2>2 DEF Begins
  <2>4. InsideStays(tx, h, h, b, c, e, e, C, cur, K - 1)
    BY <1>0, <1>6, <2>3, InsideKept
  <2>5. Inside(tx, h, c, e, C, cur, K - 1) /\ After(h, c, e, cur, K - 1) = After(h, b, e, cur, K - 1)
    BY <2>2, <2>4 DEF InsideStays
  <2>6. Placed(tx, h, c, e, cur, K)
    BY <1>0, <1>4, <2>5 DEF Placed
  <2>7. Above(tx, h, c, e, C, cur, kid)
    BY <1>0, <2>1, <2>5, <2>6 DEF Above
  <2>8. QED BY <1>0, <2>7 DEF Reads
<1>10. ASSUME NEW k \in 1 .. m + 1
       PROVE  /\ fs[k].item \in 0 .. t /\ fs[k].item \notin C /\ fs[k].item < kid
              /\ \A j \in 1 .. k - 1 : fs[j].item < fs[k].item
              /\ Reads(tx, h, c, e, C, fs[k], Under(fs, m + 1, kid, k))
  <2>1. CASE k \in 1 .. m
    BY <1>8, <2>1
  <2>2. CASE k = m + 1
    <3>1. Under(fs, m + 1, kid, k) = kid
      BY <2>2 DEF Under
    <3>2. \A j \in 1 .. k - 1 : j \in 1 .. m
      BY <1>1, <2>2
    <3>3. \A j \in 1 .. m : fs[j].item < cur
      BY DEF Stack
    <3>4. fs[k].item = cur /\ fs[k].item \in 0 .. t /\ fs[k].item \notin C /\ fs[k].item < kid
      BY <1>0, <1>1, <2>2
    <3>5. \A j \in 1 .. k - 1 : fs[j].item < fs[k].item
      BY <3>2, <3>3, <3>4
    <3>6. Reads(tx, h, c, e, C, fs[k], Under(fs, m + 1, kid, k))
      BY <1>9, <2>2, <3>1
    <3>7. QED BY <3>4, <3>5, <3>6
  <2>3. k \in 1 .. m \/ k = m + 1
    BY ONLY <1>1, k \in 1 .. m + 1
  <2>4. QED BY <2>1, <2>2, <2>3, Zenon
<1>11. m + 1 \in Nat /\ m + 1 # 0 /\ fs[1].item = Root
  <2>1. CASE m = 0
    <3>1. cur = Root /\ m + 1 = 1
      BY <1>1, <2>1
    <3>2. fs[m + 1].item = cur
      BY <1>0
    <3>3. QED BY <3>1, <3>2
  <2>2. fs[1].item = Root
    BY <1>1, <2>1
  <2>3. m + 1 \in Nat /\ m + 1 # 0
    BY ONLY <1>1
  <2>4. QED BY <2>2, <2>3
<1>12. Stack(tx, h, c, e, C, fs, m + 1, kid, t)
  BY <1>0, <1>1, <1>4, <1>5, <1>7, <1>10, <1>11 DEF Stack
<1>13. QED BY <1>12

\* The node that is read ends where q says: it is there, too.
Ended(tx, h, b, e, C, cur, d, D, q) ==
  /\ Extends(tx, tx) /\ q \in Nat /\ d = [e EXCEPT ![cur] = q] /\ D = C \cup {cur}
  /\ Whole(tx, h, b, d, D, cur)

\* The nodes that are there do not move.
LEMMA EndedMoves ==
  ASSUME NEW t \in Nat, NEW tx, NEW h, NEW b, NEW e, NEW C, NEW fs, NEW m, NEW cur,
         Stack(tx, h, b, e, C, fs, m, cur, t), \A n \in 0 .. t : Len(h[n].kids) \in Nat,
         NEW d, NEW D, NEW q, Ended(tx, h, b, e, C, cur, d, D, q)
  PROVE  /\ Moves(tx, tx, h, h, b, b, e, d, C, D)
         /\ \A n \in D : Whole(tx, h, b, d, D, n)
         /\ d \in [Nat -> Nat] /\ d[cur] = q /\ D \subseteq 0 .. t
<1>1. /\ e \in [Nat -> Nat] /\ C \subseteq 0 .. t /\ cur \in 0 .. t /\ cur \notin C
      /\ \A n \in C : Whole(tx, h, b, e, C, n)
  BY DEF Stack
<1>2. /\ Extends(tx, tx) /\ q \in Nat /\ d = [e EXCEPT ![cur] = q] /\ D = C \cup {cur}
      /\ Whole(tx, h, b, d, D, cur)
  BY DEF Ended
<1>3. d \in [Nat -> Nat] /\ d[cur] = q /\ \A n \in C : d[n] = e[n]
  <2>1. cur \in Nat /\ \A n \in C : n \in Nat /\ n # cur
    BY <1>1
  <2>2. QED BY <1>1, <1>2, <2>1
<1>4. Moves(tx, tx, h, h, b, b, e, d, C, D)
  BY <1>2, <1>3 DEF Moves
<1>5. ASSUME NEW n \in C PROVE Whole(tx, h, b, d, D, n)
  <2>1. Whole(tx, h, b, e, C, n) /\ Len(h[n].kids) \in Nat
    BY <1>1
  <2>2. QED BY <1>4, <2>1, WholeKept
<1>6. QED BY <1>1, <1>2, <1>3, <1>4, <1>5

\* If it is the root, all is there.
LEMMA StackEmptied ==
  ASSUME NEW t \in Nat, NEW tx, NEW h, NEW b, NEW e, NEW C, NEW fs, NEW cur,
         Stack(tx, h, b, e, C, fs, 0, cur, t), \A n \in 0 .. t : Len(h[n].kids) \in Nat,
         NEW d, NEW D, NEW q, Ended(tx, h, b, e, C, cur, d, D, q)
  PROVE  (\A n \in D : Whole(tx, h, b, d, D, n)) /\ Root \in D /\ b[Root] = 0 /\ d[Root] = q
<1>1. (\A n \in D : Whole(tx, h, b, d, D, n)) /\ d[cur] = q
  BY EndedMoves
<1>2. cur = Root /\ b[Root] = 0
  BY DEF Stack
<1>3. cur \in D
  BY DEF Ended
<1>4. QED BY <1>1, <1>2, <1>3

\* Otherwise the node above has one member more.
MemberEnds(tx, h, b, d, D, f, q) ==
  /\ h[f.item].type = f.kind /\ Len(h[f.item].kids) \in Nat /\ Len(h[f.item].kids) >= 1
  /\ Inside(tx, h, b, d, D, f.item, Len(h[f.item].kids))
  /\ After(h, b, d, f.item, Len(h[f.item].kids)) = q

\* It is that member, and the frames below are as they were.
LEMMA StackPopped ==
  ASSUME NEW t \in Nat, NEW tx, NEW h, NEW b, NEW e, NEW C, NEW fs, NEW m \in Nat, m # 0, NEW cur,
         Stack(tx, h, b, e, C, fs, m, cur, t), \A n \in 0 .. t : Len(h[n].kids) \in Nat,
         NEW d, NEW D, NEW q, Ended(tx, h, b, e, C, cur, d, D, q)
  PROVE  Stack(tx, h, b, d, D, fs, m - 1, fs[m].item, t) /\ MemberEnds(tx, h, b, d, D, fs[m], q)
<1> DEFINE p == fs[m].item
           K == Len(h[p].kids)
<1>1. /\ Moves(tx, tx, h, h, b, b, e, d, C, D)
      /\ \A n \in D : Whole(tx, h, b, d, D, n)
      /\ d \in [Nat -> Nat] /\ d[cur] = q /\ D \subseteq 0 .. t
  BY EndedMoves
<1>2. D = C \cup {cur}
  BY DEF Ended
<1>3. /\ b \in [Nat -> Nat] /\ b[Root] = 0 /\ fs[1].item = Root /\ cur \in 0 .. t
      /\ \A k \in 1 .. m : /\ fs[k].item \in 0 .. t /\ fs[k].item \notin C /\ fs[k].item < cur
                           /\ \A j \in 1 .. k - 1 : fs[j].item < fs[k].item
                           /\ Reads(tx, h, b, e, C, fs[k], Under(fs, m, cur, k))
  BY DEF Stack
<1>4. ASSUME NEW k \in 1 .. m
      PROVE  Reads(tx, h, b, d, D, fs[k], Under(fs, m, cur, k)) /\ fs[k].item \notin D
  <2> DEFINE n == fs[k].item
             c == Under(fs, m, cur, k)
  <2>1. Reads(tx, h, b, e, C, fs[k], c) /\ n \in 0 .. t /\ n \notin C /\ n < cur
    BY <1>3
  <2>2. Above(tx, h, b, e, C, n, c) /\ SamePair(h, h, b, b, n, c)
    BY <2>1 DEF Reads, SamePair
  <2> HIDE DEF n, c
  <2>3. Above(tx, h, b, d, D, n, c)
    BY <1>1, <2>2, AboveKept
  <2>4. n # cur
    BY ONLY <1>3, <2>1, t \in Nat
  <2>5. n \notin D
    BY <1>2, <2>1, <2>4
  <2>6. QED BY <2>1, <2>3, <2>5 DEF Reads, n, c
<1>5. m \in 1 .. m /\ Under(fs, m, cur, m) = cur /\ m - 1 \in Nat /\ \A k \in 1 .. m - 1 : k \in 1 .. m
  BY DEF Under
<1>6. Reads(tx, h, b, d, D, fs[m], cur)
  BY <1>4, <1>5
<1>7. /\ K \in Nat /\ K >= 1 /\ h[p].kids[K] = cur /\ h[p].type = fs[m].kind
      /\ Inside(tx, h, b, d, D, p, K - 1) /\ Placed(tx, h, b, d, p, K)
  BY <1>6 DEF Reads, Above
<1>8. p \in 0 .. t /\ p < cur /\ p \notin D /\ \A j \in 1 .. m - 1 : fs[j].item < p
  BY <1>3, <1>4, <1>5
<1> HIDE DEF p, K
<1>9. Inside(tx, h, b, d, D, p, K)
  <2>1. ASSUME NEW j \in 1 .. K PROVE h[p].kids[j] \in D /\ Placed(tx, h, b, d, p, j)
    <3>1. CASE j = K
      BY <1>2, <1>7, <3>1
    <3>2. CASE j # K
      <4>1. j \in 1 .. K - 1
        BY <1>7, <3>2
      <4>2. QED BY <1>7, <4>1 DEF Inside, Filled
    <3>3. QED BY <3>1, <3>2
  <2>2. QED BY <1>7, <2>1 DEF Inside, Filled
<1>10. After(h, b, d, p, K) = q
  <2>1. K # 0
    BY <1>7
  <2>2. QED BY <1>1, <1>7, <2>1 DEF After
<1>11. MemberEnds(tx, h, b, d, D, fs[m], q)
  BY <1>7, <1>9, <1>10 DEF MemberEnds, p, K
<1>12. ASSUME NEW k \in 1 .. m - 1
       PROVE  /\ fs[k].item \in 0 .. t /\ fs[k].item \notin D /\ fs[k].item < p
              /\ \A j \in 1 .. k - 1 : fs[j].item < fs[k].item
              /\ Reads(tx, h, b, d, D, fs[k], Under(fs, m - 1, p, k))
  <2>1. k \in 1 .. m /\ k # m
    BY <1>5
  <2>2. Under(fs, m - 1, p, k) = Under(fs, m, cur, k)
    <3>1. CASE k = m - 1
      <4>1. k + 1 = m
        BY <3>1
      <4>2. QED BY <2>1, <3>1, <4>1 DEF Under, p
    <3>2. CASE k # m - 1
      BY <2>1, <3>2 DEF Under
    <3>3. QED BY <3>1, <3>2
  <2>3. fs[k].item \in 0 .. t /\ \A j \in 1 .. k - 1 : fs[j].item < fs[k].item
    BY <1>3, <2>1
  <2>4. fs[k].item < p
    BY <1>8
  <2>5. fs[k].item \notin D /\ Reads(tx, h, b, d, D, fs[k], Under(fs, m, cur, k))
    BY <1>4, <2>1
  <2>6. QED BY <2>2, <2>3, <2>4, <2>5
<1>13. (IF m - 1 = 0 THEN p ELSE fs[1].item) = Root
  <2>1. m - 1 = 0 => m = 1
    OBVIOUS
  <2>2. QED BY <1>3, <2>1 DEF p
<1>14. Stack(tx, h, b, d, D, fs, m - 1, p, t)
  BY <1>1, <1>3, <1>5, <1>8, <1>12, <1>13 DEF Stack
<1>15. QED BY <1>11, <1>14 DEF p

-----------------------------------------------------------------------------
(* How far the reader is: the text has now behind s, up to position p.      *)
Taken(tx, s, now, p) == Holds(tx, s, now) /\ p = s + Len(now)

\* What follows a part that is complete begins with nothing.
LEMMA NothingTaken ==
  ASSUME NEW tx, NEW s, NEW now, NEW p, Taken(tx, s, now, p), Len(tx) \in Nat
  PROVE  Taken(tx, p, <<>>, p)
<1>1. <<>> \in Seq(Out) /\ Len(<<>>) = 0
  BY EmptySeq
<1>2. s \in Nat /\ Len(now) \in Nat /\ p = s + Len(now) /\ p <= Len(tx)
  BY DEF Taken, Holds
<1>3. p \in Nat /\ p + 0 = p
  BY <1>2
<1>4. Holds(tx, p, <<>>)
  BY <1>1, <1>2, <1>3 DEF Holds
<1>5. QED BY <1>1, <1>3, <1>4 DEF Taken

\* Two parts are taken one after the other.
LEMMA BothTaken ==
  ASSUME NEW tx, NEW s, NEW now, NEW p, Taken(tx, s, now, p), NEW more, NEW q, Taken(tx, p, more, q)
  PROVE  Taken(tx, s, now \o more, q)
<1>1. Holds(tx, s, now) /\ Holds(tx, s + Len(now), more) /\ p = s + Len(now) /\ q = p + Len(more)
  BY DEF Taken
<1>2. Holds(tx, s, now \o more) /\ Len(now \o more) = Len(now) + Len(more) /\ Len(now) \in Nat
      /\ Len(more) \in Nat
  <2>1. Holds(tx, s, now)
    BY <1>1
  <2>2. Holds(tx, s + Len(now), more)
    BY <1>1
  <2>3. QED BY <2>1, <2>2, HoldsBoth
<1>3. s \in Nat
  BY <1>1 DEF Holds
<1>4. q = s + (Len(now) + Len(more))
  BY ONLY <1>1, <1>2, <1>3
<1>5. QED BY <1>2, <1>4 DEF Taken

\* A unit that is chosen is the next one.
LEMMA UnitChosen ==
  ASSUME TextInv, NEW u \in Offered, Chosen(u)
  PROVE  /\ Extends(text', text) /\ Extends(text', text') /\ text'[pos + 1] = u
         /\ pos \in Nat /\ pos + 1 <= Len(text') /\ text' \in Seq(Units)
<1>1. /\ text \in Seq(Units) /\ Len(text) \in Nat /\ pos \in 0 .. Len(text)
  BY DEF TextInv
<1>2. text' \in Seq(Units) /\ Len(text') \in Nat /\ pos + 1 \in 0 .. Len(text')
  <2>1. text' \in Seq(Units) /\ pos + 1 \in 0 .. Len(text')
    BY TextGrows
  <2>2. QED BY <2>1
<1>3. CASE pos < Len(text)
  <2>1. text' = text
    BY <1>3 DEF Chosen
  <2>2. u = text[pos + 1]
    BY <1>3 DEF Offered
  <2>3. QED BY <1>1, <1>2, <2>1, <2>2 DEF Extends
<1>4. CASE ~ (pos < Len(text))
  <2>1. text' = Append(text, u) /\ pos = Len(text)
    BY <1>1, <1>4 DEF Chosen
  <2>2. Len(text') = Len(text) + 1 /\ text'[Len(text) + 1] = u /\ \A q \in 1 .. Len(text) : text'[q] = text[q]
    BY <1>1, <2>1
  <2>3. QED BY <1>1, <1>2, <2>1, <2>2 DEF Extends
<1>5. QED BY <1>3, <1>4

\* What was taken stays, and a unit follows it.
LEMMA TakenStays ==
  ASSUME TextInv, NEW u \in Offered, Chosen(u), NEW s, NEW now, NEW p, Taken(text, s, now, p)
  PROVE  Taken(text', s, now, p)
<1>1. Extends(text', text)
  BY UnitChosen
<1>2. QED BY <1>1, HoldsLonger DEF Taken

\* One more unit is taken.
LEMMA UnitFollows ==
  ASSUME TextInv, NEW u \in Offered, Chosen(u), u \in Out, NEW s, NEW now, Taken(text, s, now, pos)
  PROVE  Taken(text', s, now \o <<u>>, pos + 1)
<1>1. Taken(text', s, now, pos)
  BY TakenStays
<1>2. text'[pos + 1] = u /\ pos \in Nat /\ pos + 1 <= Len(text')
  BY UnitChosen
<1>3. <<u>> \in Seq(Out) /\ Len(<<u>>) = 1 /\ <<u>>[1] = u
  <2> DEFINE O == Out
  <2>1. u \in O
    OBVIOUS
  <2> HIDE DEF O
  <2>2. <<u>> \in Seq(O) /\ Len(<<u>>) = 1 /\ <<u>>[1] = u
    BY <2>1
  <2>3. QED BY <2>2 DEF O
<1> DEFINE r == <<u>>
<1> HIDE DEF r
<1>4. Holds(text', pos, r)
  <2>1. \A q \in 1 .. 1 : q = 1
    OBVIOUS
  <2>2. \A q \in 1 .. Len(r) : text'[pos + q] = r[q]
    BY <1>2, <1>3, <2>1 DEF r
  <2>3. r \in Seq(Out) /\ Len(r) = 1
    BY <1>3 DEF r
  <2>4. QED BY <1>2, <2>2, <2>3 DEF Holds
<1>5. Taken(text', pos, r, pos + 1)
  BY <1>3, <1>4 DEF Taken, r
<1>6. Taken(text', s, now \o r, pos + 1)
  BY <1>1, <1>5, BothTaken
<1>7. QED BY <1>6 DEF r

\* A first unit.
LEMMA UnitIsFirst ==
  ASSUME TextInv, NEW u \in Offered, Chosen(u), u \in Out, NEW s, Taken(text, s, <<>>, pos)
  PROVE  Taken(text', s, <<u>>, pos + 1)
<1>1. Taken(text', s, <<>> \o <<u>>, pos + 1)
  BY UnitFollows
<1>2. <<>> \o <<u>> = <<u>>
  <2> DEFINE O == Out
  <2>1. u \in O
    OBVIOUS
  <2> HIDE DEF O
  <2>2. <<u>> \in Seq(O)
    BY <2>1
  <2>3. QED BY <2>2, ConcatEmptySeq
<1>3. QED BY <1>1, <1>2

-----------------------------------------------------------------------------
(* What is written of the tree in the text that was read.                   *)

\* All of it.
AllRead(b, e, C) ==
  /\ at = "parsed"
  /\ \A n \in C : Whole(text, node, b, e, C, n)
  /\ Root \in C /\ b[Root] = 0 /\ e[Root] = pos

\* The value of item is being read.
ValueNow ==
  CASE at = "number" -> Contents(scratch)
    [] at = "string" -> <<Quote>> \o Contents(scratch)
    [] OTHER         -> <<>>
ValueRead(t, b, e, C) ==
  /\ at \in {"value", "number", "string"}
  /\ Stack(text, node, b, e, C, frames, Len(frames), item, t)
  /\ node[item].type = "undef" /\ node[item].kids = <<>>
  /\ Taken(text, b[item], ValueNow, pos)

\* item is open, and the name of another member is being read or none.
NameNow(K) ==
  CASE at = "key"        -> Sep(K + 1)
    [] at = "key string" -> Sep(K + 1) \o (<<Quote>> \o Contents(scratch))
    [] OTHER             -> <<>>
IsOpen(tx, h, b, e, C, fs, m, n, kind, t) ==
  /\ Stack(tx, h, b, e, C, fs, m, n, t)
  /\ h[n].type = kind /\ Inside(tx, h, b, e, C, n, Len(h[n].kids))
MembersRead(t, b, e, C) ==
  LET K == Len(node[item].kids)
  IN  /\ at \in Between
      /\ IsOpen(text, node, b, e, C, frames, Len(frames) - 1, item, Top.kind, t)
      /\ at \in {"first element", "first key"} => K = 0
      /\ at = "after" => K # 0
      /\ Taken(text, After(node, b, e, item, K), NameNow(K), pos)

\* The name of item was read.
NameRead(t, b, e, C) ==
  LET n == Top.item
      K == Len(node[n].kids)
  IN  /\ at = "colon"
      /\ Stack(text, node, b, e, C, frames, Len(frames) - 1, n, t)
      /\ node[n].type = Top.kind /\ Inside(text, node, b, e, C, n, K - 1)
      /\ K # 0 /\ node[n].kids[K] = item /\ n < item /\ item \notin C
      /\ node[item].type = "undef" /\ node[item].kids = <<>>
      /\ Taken(text, After(node, b, e, n, K - 1), Sep(K) \o PrintString(node[item].key), pos)

Written(t) ==
  \E b, e, C : AllRead(b, e, C) \/ ValueRead(t, b, e, C) \/ MembersRead(t, b, e, C) \/ NameRead(t, b, e, C)

WrittenInv ==
  Fine /\ ~ reused /\ ~ loose => \E t \in Nat : TreeInv(t) /\ FramesInv(t) /\ Written(t)

\* The members of a node can be counted.
LEMMA KidsCounted ==
  ASSUME NEW t, TreeInv(t)
  PROVE  \A n \in 0 .. t : node[n].kids \in Seq(0 .. t) /\ Len(node[n].kids) \in Nat
<1>1. \A n \in 0 .. t : node[n].kids \in Seq(0 .. t)
  BY DEF TreeInv, Tree
<1> DEFINE S == 0 .. t
<1> HIDE DEF S
<1>2. \A s \in Seq(S) : Len(s) \in Nat
  OBVIOUS
<1>3. QED BY <1>1, <1>2 DEF S

\* What is open stays open when more is read and frames above it change.
LEMMA OpenStays ==
  ASSUME NEW t \in Nat, NEW tx, NEW ty, NEW h, NEW b, NEW e, NEW C, NEW fs, NEW gs, NEW m, NEW cur,
         Stack(tx, h, b, e, C, fs, m, cur, t), Extends(ty, tx),
         \A n \in 0 .. t : Len(h[n].kids) \in Nat, \A k \in 1 .. m : gs[k] = fs[k]
  PROVE  Stack(ty, h, b, e, C, gs, m, cur, t)
  BY StackStays

\* A value ended: all was read, or the node above has one more member.
LEMMA DoneWritten ==
  ASSUME NEW t \in Nat, TreeInv(t)', NEW fs, Linked(fs, t), NEW cur, NEW b, NEW e, NEW C, NEW d, NEW D,
         Stack(text', node', b, e, C, fs, Len(fs), cur, t),
         Ended(text', node', b, e, C, cur, d, D, pos'),
         ValueDone(fs)
  PROVE  Written(t)'
<1> DEFINE tx == text'
           h == node'
           q == pos'
           m == Len(fs)
           F == Frame(t)
<1>1. \A n \in 0 .. t : Len(h[n].kids) \in Nat
  <2>1. (\A n \in 0 .. t : node[n].kids \in Seq(0 .. t) /\ Len(node[n].kids) \in Nat)'
    <3>1. (TreeInv(t) => \A n \in 0 .. t : node[n].kids \in Seq(0 .. t) /\ Len(node[n].kids) \in Nat)'
      BY KidsCounted, PTL
    <3>2. QED BY <3>1
  <2>2. QED BY <2>1
<1>2. fs \in Seq(F)
  BY DEF Linked
<1>3. Stack(tx, h, b, e, C, fs, m, cur, t) /\ Ended(tx, h, b, e, C, cur, d, D, q)
  OBVIOUS
<1> HIDE DEF F
<1>4. m \in Nat /\ (fs = <<>> <=> m = 0)
  BY <1>2, EmptySeq
<1>5. CASE m = 0
  <2>1. at' = "parsed"
    BY <1>4, <1>5 DEF ValueDone
  <2> HIDE DEF tx, h, q, m
  <2>2. Stack(tx, h, b, e, C, fs, 0, cur, t)
    BY <1>3, <1>5
  <2>3. (\A n \in D : Whole(tx, h, b, d, D, n)) /\ Root \in D /\ b[Root] = 0 /\ d[Root] = q
    BY <1>1, <1>3, <2>2, StackEmptied
  <2>4. AllRead(b, d, D)'
    BY <2>1, <2>3 DEF AllRead, tx, h, q
  <2>5. QED BY <2>4 DEF Written
<1>6. CASE m # 0
  <2> DEFINE g == frames'
             x == [fs[m] EXCEPT !.child = NoNode]
             i == fs[m].item
             K == Len(h[i].kids)
  <2>1. at' = "after" /\ g = [fs EXCEPT ![m] = x] /\ item' = i
    BY <1>4, <1>6 DEF ValueDone
  <2>2. m \in 1 .. m /\ fs[m] \in F
    BY <1>2, <1>4, <1>6, ElementOfSeq
  <2>3. x.kind = fs[m].kind /\ x \in F
    BY <2>2 DEF F, Frame
  <2> HIDE DEF x
  <2>4. Len(g) = m /\ \A k \in 1 .. m : g[k] = IF k = m THEN x ELSE fs[k]
    BY <1>2, <2>1, <2>2, <2>3, ExceptSeq
  <2> HIDE DEF g, m, tx, h, q
  <2>5. Stack(tx, h, b, d, D, fs, m - 1, i, t) /\ MemberEnds(tx, h, b, d, D, fs[m], q)
    BY <1>1, <1>3, <1>4, <1>6, StackPopped
  <2>6. \A k \in 1 .. m - 1 : g[k] = fs[k]
    <3>1. \A k \in 1 .. m - 1 : k \in 1 .. m /\ k # m
      BY <1>4
    <3>2. QED BY <2>4, <3>1
  <2>7. Extends(tx, tx) /\ q \in Nat
    BY <1>3 DEF Ended
  <2>8. Stack(tx, h, b, d, D, g, m - 1, i, t)
    <3> HIDE DEF i
    <3>1. QED BY <1>1, <2>5, <2>6, <2>7, OpenStays
  <2>9. /\ h[i].type = fs[m].kind /\ K \in Nat /\ K >= 1
        /\ Inside(tx, h, b, d, D, i, K) /\ After(h, b, d, i, K) = q
    BY <2>5 DEF MemberEnds
  <2>10. Top'.kind = fs[m].kind
    <3>1. g[m] = x
      BY <2>2, <2>4
    <3>2. Top' = g[m]
      BY <2>4 DEF Top, g
    <3>3. QED BY <2>3, <3>1, <3>2
  <2>11. Taken(tx, After(h, b, d, i, K), <<>>, q)
    <3> DEFINE a == After(h, b, d, i, K)
               c == <<Closing(h, cur)>>
    <3>1. Len(tx) \in Nat /\ q <= Len(tx)
      <4>1. Len(tx) \in Nat
        BY <2>7 DEF Extends
      <4>2. Whole(tx, h, b, d, D, cur) /\ d[cur] = q
        <5>1. Stack(tx, h, b, e, C, fs, m, cur, t) /\ Ended(tx, h, b, e, C, cur, d, D, q)
          BY <1>3
        <5>2. d[cur] = q
          <6>1. e \in [Nat -> Nat] /\ cur \in Nat
            <7>1. e \in [Nat -> Nat] /\ cur \in 0 .. t
              BY <5>1 DEF Stack
            <7>2. QED BY ONLY <7>1, t \in Nat
          <6>2. d = [e EXCEPT ![cur] = q]
            BY <5>1 DEF Ended
          <6>3. QED BY <6>1, <6>2
        <5>3. QED BY <5>1, <5>2 DEF Ended
      <4>3. CASE Holds(tx, After(h, b, d, cur, Len(h[cur].kids)), <<Closing(h, cur)>>)
                 /\ d[cur] = After(h, b, d, cur, Len(h[cur].kids)) + 1
        <5>1. <<Closing(h, cur)>> \in Seq(Out) /\ Len(<<Closing(h, cur)>>) = 1
          BY PartsType DEF Closing
        <5>2. QED BY <4>2, <4>3, <5>1 DEF Holds
      <4>4. CASE Holds(tx, b[cur], PrintScalar(h[cur])) /\ d[cur] = b[cur] + Len(PrintScalar(h[cur]))
        BY <4>2, <4>4 DEF Holds
      <4>5. QED BY <4>1, <4>2, <4>3, <4>4 DEF Whole
    <3>2. Taken(tx, q, <<>>, q)
      <4>1. <<>> \in Seq(Out) /\ Len(<<>>) = 0
        BY EmptySeq
      <4>2. q + 0 = q
        BY <2>7
      <4>3. Holds(tx, q, <<>>)
        BY <2>7, <3>1, <4>1, <4>2 DEF Holds
      <4>4. QED BY <4>1, <4>2, <4>3 DEF Taken
    <3>3. QED BY <2>9, <3>2
  <2>12. MembersRead(t, b, d, D)'
    <3>1. Len(g) - 1 = m - 1 /\ K # 0
      BY <2>4, <2>9
    <3>2. IsOpen(tx, h, b, d, D, g, Len(g) - 1, i, Top'.kind, t)
      BY <2>8, <2>9, <2>10, <3>1 DEF IsOpen
    <3>3. (at \in Between)' /\ ~ (at \in {"first element", "first key"})'
      BY <2>1 DEF Between
    <3>4. NameNow(Len(node[item].kids))' = <<>>
      BY <2>1 DEF NameNow
    <3>5. (item = i)' /\ i = item'
      BY <2>1
    <3>6. QED BY <2>1, <2>11, <3>1, <3>2, <3>3, <3>4 DEF MembersRead, tx, h, q, g, K, NameNow
  <2>13. QED BY <2>12 DEF Written
<1>7. QED BY <1>5, <1>6

\* A unit behind two parts is behind the second.
UnitJoined(s, r, u) ==
  /\ (s \o r) \o <<u>> = s \o Append(r, u) /\ r \o <<u>> = Append(r, u)
  /\ Append(r, u) \in Seq(Out) /\ <<u>> \in Seq(Out) /\ s \o <<>> = s /\ <<>> \o s = s

\* All of them are units.
LEMMA UnitBehind ==
  ASSUME NEW s \in Seq(Out), NEW r \in Seq(Out), NEW u \in Out
  PROVE  UnitJoined(s, r, u)
<1> DEFINE O == Out
           x == <<u>>
<1>1. s \in Seq(O) /\ r \in Seq(O) /\ u \in O
  OBVIOUS
<1> HIDE DEF O
<1>2. x \in Seq(O) /\ Append(r, u) = r \o x /\ Append(r, u) \in Seq(O)
  BY <1>1, AppendIsConcat, AppendProperties
<1> HIDE DEF x
<1>3. (s \o r) \o x = s \o (r \o x)
  BY ONLY <1>1, <1>2, ConcatAssociative, SMTT(30)
<1>4. s \o <<>> = s /\ <<>> \o s = s
  BY <1>1, ConcatEmptySeq
<1>5. QED BY <1>2, <1>3, <1>4 DEF UnitJoined, O, x

\* What the buffer holds is read.
LEMMA BufferGrows ==
  ASSUME TextInv, at # "parsed", NEW u \in Offered, Chosen(u), NEW c \in Chars
  PROVE  /\ Contents(scratch) \in Seq(Chars) /\ Contents(scratch) \in Seq(Out) /\ c \in Out
         /\ Contents(PutChar(scratch, c)) = Append(Contents(scratch), c)
         /\ Contents(PutChar(Clear(scratch), c)) = <<c>>
         /\ Contents(Clear(scratch)) = <<>>
<1>1. Buffer(scratch) /\ scratch.len <= pos /\ Contents(scratch) \in Seq(Chars)
  BY DEF TextInv
<1>2. pos + 1 \in 0 .. Len(text') /\ Len(text') <= Longest /\ pos \in Nat /\ Longest \in Nat
  <2>1. pos + 1 \in 0 .. Len(text') /\ Len(text') <= Longest
    BY TextGrows
  <2>2. pos \in Nat
    BY UnitChosen
  <2>3. Longest \in Nat
    BY DBufAssumption
  <2>4. QED BY <2>1, <2>2, <2>3
<1>3. scratch.len \in Nat
  BY <1>1 DEF Buffer, WellFormed
<1>4. scratch.len < Longest
  BY <1>1, <1>2, <1>3
<1>5. Contents(PutChar(scratch, c)) = Append(Contents(scratch), c)
  BY <1>1, <1>4, PutCharContents
<1>6. Buffer(Clear(scratch)) /\ Clear(scratch).len = 0
  BY <1>1, ClearIsBuffer
<1>7. Contents(Clear(scratch)) = <<>> /\ Contents(Clear(scratch)) \in Seq(Chars)
  BY <1>1, ClearContents
<1> DEFINE z == Clear(scratch)
<1>8. Contents(PutChar(z, c)) = Append(Contents(z), c)
  <2>1. Buffer(z) /\ z.len < Longest /\ Contents(z) \in Seq(Chars)
    BY <1>2, <1>3, <1>4, <1>6, <1>7
  <2> HIDE DEF z
  <2>2. QED BY <2>1, PutCharContents
<1>9. Append(<<>>, c) = <<c>>
  OBVIOUS
<1>10. Chars \subseteq Out
  BY PartsType
<1>11. QED BY <1>1, <1>5, <1>7, <1>8, <1>9, <1>10, SeqMonotonic

\* The steps that read more of a value.
LEMMA ValueGoesOn ==
  ASSUME TextInv, NEW t \in Nat, TreeInv(t), FramesInv(t), NEW b, NEW e, NEW C, ValueRead(t, b, e, C),
         NEW u \in Offered, NumberBegins(u) \/ NumberGoesOn(u) \/ StringBegins(u) \/ StringGoesOn(u), ~ loose'
  PROVE  ValueRead(t, b, e, C)'
<1>1. /\ UNCHANGED <<frames, item, node>> /\ Chosen(u) /\ pos' = pos + 1
      /\ at' \in {"number", "string"} /\ at # "parsed"
  BY DEF NumberBegins, NumberGoesOn, StringBegins, StringGoesOn, Take, ValueRead
<1>2. /\ Stack(text, node, b, e, C, frames, Len(frames), item, t)
      /\ node[item].type = "undef" /\ node[item].kids = <<>>
      /\ Taken(text, b[item], ValueNow, pos)
  BY DEF ValueRead
<1>3. Stack(text', node, b, e, C, frames, Len(frames), item, t)
  <2>1. Extends(text', text)
    BY <1>1, UnitChosen
  <2>2. QED BY <1>2, <2>1, KidsCounted, OpenStays
<1>4. \A c \in Chars : /\ Contents(scratch) \in Seq(Out) /\ c \in Out
                       /\ Contents(PutChar(scratch, c)) = Append(Contents(scratch), c)
                       /\ Contents(PutChar(Clear(scratch), c)) = <<c>>
                       /\ Contents(Clear(scratch)) = <<>>
  BY <1>1, BufferGrows
<1> DEFINE a == b[item]
           s == Contents(scratch)
           q == <<Quote>>
<1>5. s \in Seq(Out) /\ q \in Seq(Out) /\ Quote \in Out
  <2>1. "0" \in Chars
    BY CharsOfText DEF Digit
  <2>2. QED BY <1>4, <2>1, PartsType
<1>6. Taken(text', a, ValueNow', pos + 1)
  <2>1. CASE NumberBegins(u)
    <3>1. ValueNow = <<>> /\ at' = "number" /\ u \in Chars /\ Contents(scratch)' = <<u>>
      <4>1. u \in Chars
        BY <2>1, CharsOfText DEF NumberBegins, NumberChars
      <4>2. QED BY <1>4, <2>1, <4>1 DEF NumberBegins, ValueNow
    <3>2. Taken(text', a, <<u>>, pos + 1)
      BY <1>1, <1>2, <1>4, <3>1, UnitIsFirst
    <3>3. ValueNow' = <<u>>
      BY <3>1 DEF ValueNow
    <3>4. QED BY <3>1, <3>2, <3>3
  <2>2. CASE NumberGoesOn(u)
    <3>1. ValueNow = s /\ at = "number" /\ at' = "number" /\ u \in Chars /\ Contents(scratch)' = Append(s, u)
      <4>1. u \in Chars
        BY <2>2, CharsOfText DEF NumberGoesOn
      <4>2. QED BY <1>4, <2>2, <4>1 DEF NumberGoesOn, ValueNow
    <3>2. Taken(text', a, s \o <<u>>, pos + 1)
      BY <1>1, <1>2, <1>4, <3>1, UnitFollows
    <3>3. s \o <<u>> = Append(s, u)
      <4>1. UnitJoined(s, s, u)
        BY <1>4, <1>5, <3>1, UnitBehind
      <4>2. QED BY <4>1 DEF UnitJoined
    <3>4. ValueNow' = Append(s, u)
      BY <3>1 DEF ValueNow
    <3>5. QED BY <3>1, <3>2, <3>3, <3>4
  <2>3. CASE StringBegins(u)
    <3>1. ValueNow = <<>> /\ at' = "string" /\ u = Quote /\ Contents(scratch)' = <<>>
      <4>1. "0" \in Chars
        BY CharsOfText DEF Digit
      <4>2. QED BY <1>4, <2>3, <4>1 DEF StringBegins, ValueNow
    <3>2. Taken(text', a, <<u>>, pos + 1)
      BY <1>1, <1>2, <1>5, <3>1, UnitIsFirst
    <3>3. ValueNow' = q \o <<>>
      BY <3>1 DEF ValueNow
    <3>4. q \o <<>> = q
      <4>1. UnitJoined(q, q, Quote)
        BY <1>5, UnitBehind
      <4>2. QED BY <4>1 DEF UnitJoined
    <3>5. QED BY <3>1, <3>2, <3>3, <3>4
  <2>4. CASE StringGoesOn(u)
    <3>1. ValueNow = q \o s /\ at' = "string" /\ u \in Chars /\ Contents(scratch)' = Append(s, u)
      <4>1. at = "string" /\ u \in Letters /\ u \notin DOMAIN Escape /\ scratch' = PutChar(scratch, u)
        BY <2>4 DEF StringGoesOn, ValueRead
      <4>2. u \in Chars
        BY <4>1, CharsOfText
      <4>3. QED BY <1>4, <2>4, <4>1, <4>2 DEF StringGoesOn, ValueNow
    <3>2. Taken(text', a, (q \o s) \o <<u>>, pos + 1)
      BY <1>1, <1>2, <1>4, <3>1, UnitFollows
    <3>3. (q \o s) \o <<u>> = q \o Append(s, u)
      <4> HIDE DEF q, s
      <4>1. UnitJoined(q, s, u)
        BY <1>4, <1>5, <3>1, UnitBehind
      <4>2. QED BY <4>1 DEF UnitJoined
    <3>4. ValueNow' = q \o Append(s, u)
      BY <3>1 DEF ValueNow
    <3>5. QED BY <3>1, <3>2, <3>3, <3>4
  <2>5. QED BY <2>1, <2>2, <2>3, <2>4
<1>7. QED BY <1>1, <1>2, <1>3, <1>6 DEF ValueRead

\* What is open stays open when nodes are put beside the tree.
StillOpen(ty, h, g, b, e, C, gs, m, n, kind, t) ==
  /\ IsOpen(ty, g, b, e, C, gs, m, n, kind, t) /\ g[n] = h[n]
  /\ After(g, b, e, n, Len(g[n].kids)) = After(h, b, e, n, Len(h[n].kids))

\* They do not touch the node n and where it is open.
LEMMA IsOpenKept ==
  ASSUME NEW t \in Nat, NEW tx, NEW ty, NEW h, NEW g, NEW b, NEW e, NEW C, NEW fs, NEW gs, NEW m, NEW n, NEW kind,
         IsOpen(tx, h, b, e, C, fs, m, n, kind, t), Extends(ty, tx),
         \A k \in 0 .. t : Len(h[k].kids) \in Nat, \A k \in 0 .. t : g[k] = h[k],
         \A k \in 1 .. m : gs[k] = fs[k]
  PROVE  StillOpen(ty, h, g, b, e, C, gs, m, n, kind, t)
<1> DEFINE K == Len(h[n].kids)
<1>1. Stack(tx, h, b, e, C, fs, m, n, t) /\ h[n].type = kind /\ Inside(tx, h, b, e, C, n, K)
  BY DEF IsOpen
<1>2. n \in 0 .. t /\ C \subseteq 0 .. t
  BY <1>1 DEF Stack
<1>3. g[n] = h[n] /\ K \in Nat /\ \A k \in C : g[k] = h[k]
  BY <1>2
<1>4. Stack(ty, g, b, e, C, gs, m, n, t)
  <2>1. g[n].key = h[n].key /\ t \in {t, t + 1}
    BY <1>3
  <2>2. QED BY <1>1, <2>1, StackStays
<1>5. Moves(tx, ty, h, g, b, b, e, e, C, C) /\ Begins(h, g, b, b, n, K)
  BY <1>3 DEF Moves, Begins
<1>6. InsideStays(ty, h, g, b, b, e, e, C, n, K)
  <2> HIDE DEF K
  <2>1. QED BY <1>1, <1>5, InsideKept
<1>7. Inside(ty, g, b, e, C, n, Len(g[n].kids))
  BY <1>3, <1>6 DEF InsideStays
<1>8. After(g, b, e, n, Len(g[n].kids)) = After(h, b, e, n, Len(h[n].kids))
  BY <1>3 DEF After
<1>9. QED BY <1>1, <1>3, <1>4, <1>7, <1>8 DEF IsOpen, StillOpen

\* The steps that read more of a name.
LEMMA NameGoesOn ==
  ASSUME TextInv, NEW t \in Nat, TreeInv(t), FramesInv(t), NEW b, NEW e, NEW C, MembersRead(t, b, e, C),
         NEW u \in Offered, KeyBegins(u) \/ StringGoesOn(u), ~ loose'
  PROVE  MembersRead(t, b, e, C)'
<1> DEFINE K == Len(node[item].kids)
           s == Contents(scratch)
           q == <<Quote>>
           p == Sep(K + 1)
           a == After(node, b, e, item, K)
<1>1. /\ UNCHANGED <<frames, item, node>> /\ Chosen(u) /\ pos' = pos + 1
      /\ at' = "key string" /\ at # "parsed" /\ at \in KeyStates
  BY DEF KeyBegins, StringGoesOn, Take, MembersRead, KeyStates, Between
<1>2. IsOpen(text, node, b, e, C, frames, Len(frames) - 1, item, Top.kind, t) /\ Taken(text, a, NameNow(K), pos)
  BY DEF MembersRead
<1>3. Extends(text', text) /\ \A n \in 0 .. t : Len(node[n].kids) \in Nat
  BY <1>1, UnitChosen, KidsCounted
<1>4. IsOpen(text', node, b, e, C, frames, Len(frames) - 1, item, Top.kind, t)
  <2>1. (\A k \in 0 .. t : node[k] = node[k]) /\ \A k \in 1 .. Len(frames) - 1 : frames[k] = frames[k]
    OBVIOUS
  <2>2. StillOpen(text', node, node, b, e, C, frames, Len(frames) - 1, item, Top.kind, t)
    BY <1>2, <1>3, <2>1, IsOpenKept
  <2>3. QED BY <2>2 DEF StillOpen
<1>5. \A c \in Chars : /\ Contents(scratch) \in Seq(Out) /\ c \in Out
                       /\ Contents(PutChar(scratch, c)) = Append(Contents(scratch), c)
                       /\ Contents(Clear(scratch)) = <<>>
  BY <1>1, BufferGrows
<1>6. s \in Seq(Out) /\ q \in Seq(Out) /\ Quote \in Out /\ p \in Seq(Out) /\ Contents(Clear(scratch)) = <<>>
  <2>1. "0" \in Chars
    BY CharsOfText DEF Digit
  <2>2. QED BY <1>5, <2>1, PartsType
<1>7. Taken(text', a, NameNow(K)', pos + 1)
  <2>1. CASE KeyBegins(u)
    <3>1. NameNow(K) = p /\ u = Quote /\ Contents(scratch)' = <<>>
      BY <1>6, <2>1 DEF KeyBegins, NameNow
    <3>2. Taken(text', a, p \o <<u>>, pos + 1)
      BY <1>1, <1>2, <1>6, <3>1, UnitFollows
    <3>3. NameNow(K)' = p \o (q \o <<>>)
      BY <1>1, <3>1 DEF NameNow
    <3>4. q \o <<>> = q
      <4>1. UnitJoined(q, q, Quote)
        BY <1>6, UnitBehind
      <4>2. QED BY <4>1 DEF UnitJoined
    <3>5. QED BY <3>1, <3>2, <3>3, <3>4
  <2>2. CASE StringGoesOn(u)
    <3>1. NameNow(K) = p \o (q \o s) /\ u \in Chars /\ Contents(scratch)' = Append(s, u)
      <4>1. at = "key string" /\ u \in Letters /\ u \notin DOMAIN Escape /\ scratch' = PutChar(scratch, u)
        BY <1>1, <2>2 DEF StringGoesOn, KeyStates
      <4>2. u \in Chars
        BY <4>1, CharsOfText
      <4>3. QED BY <1>5, <4>1, <4>2 DEF NameNow
    <3>2. u \in Out
      BY <1>5, <3>1
    <3>3. Taken(text', a, (p \o (q \o s)) \o <<u>>, pos + 1)
      BY <1>1, <1>2, <3>1, <3>2, UnitFollows
    <3>4. NameNow(K)' = p \o (q \o Append(s, u))
      BY <1>1, <3>1 DEF NameNow
    <3> DEFINE r == q \o s
    <3>5. q \o Append(s, u) = Append(r, u) /\ r \in Seq(Out)
      <4>1. (q \o s) \o <<u>> = q \o Append(s, u)
        <5> HIDE DEF q, s
        <5>1. UnitJoined(q, s, u)
          BY <1>6, <3>2, UnitBehind
        <5>2. QED BY <5>1 DEF UnitJoined
      <4>2. r \in Seq(Out)
        <5> DEFINE O == Out
        <5>1. q \in Seq(O) /\ s \in Seq(O)
          BY <1>6
        <5> HIDE DEF O, q, s
        <5>2. QED BY <5>1, ConcatProperties DEF O
      <4> HIDE DEF r
      <4>3. r \o <<u>> = Append(r, u)
        <5>1. UnitJoined(r, r, u)
          BY <1>6, <3>2, <4>2, UnitBehind
        <5>2. QED BY <5>1 DEF UnitJoined
      <4>4. QED BY <4>1, <4>2, <4>3 DEF r
    <3> HIDE DEF r
    <3>6. (p \o r) \o <<u>> = p \o Append(r, u)
      <4> HIDE DEF p
      <4>1. UnitJoined(p, r, u)
        BY <1>6, <3>2, <3>5, UnitBehind DEF p
      <4>2. QED BY <4>1 DEF UnitJoined
    <3>7. QED BY <3>3, <3>4, <3>5, <3>6 DEF r
  <2>3. QED BY <2>1, <2>2
<1>8. UNCHANGED Top /\ (at \in Between)'
  BY <1>1 DEF Top, Between, KeyStates
<1>9. QED BY <1>1, <1>4, <1>7, <1>8 DEF MembersRead, NameNow

\* A node for a member of an object is put beside the tree.
LEMMA NodeIsReady ==
  ASSUME TextInv, NEW t \in Nat, TreeInv(t), FramesInv(t), NEW b, NEW e, NEW C, MembersRead(t, b, e, C),
         NEW u \in Offered, FirstKey(u) \/ NextKey(u), Fine', ~ loose'
  PROVE  MembersRead(t, b, e, C)'
<1> DEFINE K == Len(node[item].kids)
           a == After(node, b, e, item, K)
           g == node'
<1>1. /\ UNCHANGED <<frames, item>> /\ Chosen(u) /\ pos' = pos + 1 /\ u \in {Quote, ","}
      /\ at' = (IF u = Quote THEN "key string" ELSE "key")
      /\ at = (IF u = Quote THEN "first key" ELSE "after")
      /\ u = Quote => scratch' = Clear(scratch)
  <2>1. CASE FirstKey(u)
    BY <2>1 DEF FirstKey, Take, Fine
  <2>2. CASE NextKey(u)
    BY <2>2 DEF NextKey, Take, Quote
  <2>3. QED BY <2>1, <2>2
<1>2. IsOpen(text, node, b, e, C, frames, Len(frames) - 1, item, Top.kind, t) /\ Taken(text, a, NameNow(K), pos)
      /\ (at = "first key" => K = 0) /\ (at = "after" => K # 0)
  BY DEF MembersRead
<1>3. Extends(text', text) /\ \A n \in 0 .. t : Len(node[n].kids) \in Nat
  BY <1>1, UnitChosen, KidsCounted
<1>4. \A n \in 0 .. t : g[n] = node[n]
  <2>1. node \in [0 .. t -> Record]
    BY <1>1, TreeAtValue DEF KeyStates
  <2>2. g = With(node, t + 1, NewNode(<<>>))
    BY AllocateShape
  <2> DEFINE r == NewNode(<<>>)
  <2>3. r \in Record /\ OneMore(node, t) /\ g = With(node, t + 1, r)
    <3>1. r \in Record
      BY NewNodeIsRecord, EmptySeq
    <3>2. QED BY <2>1, <2>2, <3>1 DEF OneMore
  <2> HIDE DEF r, g
  <2>4. QED BY <2>3, WithRecord
<1>5. /\ IsOpen(text', g, b, e, C, frames, Len(frames) - 1, item, Top.kind, t) /\ g[item] = node[item]
      /\ After(g, b, e, item, Len(g[item].kids)) = a
  <2>1. \A k \in 1 .. Len(frames) - 1 : frames[k] = frames[k]
    OBVIOUS
  <2> HIDE DEF g
  <2>2. StillOpen(text', node, g, b, e, C, frames, Len(frames) - 1, item, Top.kind, t)
    BY <1>2, <1>3, <1>4, <2>1, IsOpenKept
  <2>3. QED BY <2>2 DEF StillOpen
<1>10. K' = K
  BY <1>1, <1>5
<1>6. u \in Out /\ <<u>> \in Seq(Out)
  BY <1>1, PartsType
<1>7. Taken(text', a, <<u>>, pos + 1)
  <2>1. NameNow(K) = <<>>
    BY <1>1 DEF NameNow
  <2>2. QED BY <1>1, <1>2, <1>6, <2>1, UnitIsFirst
<1>8. NameNow(K)' = <<u>>
  <2>1. CASE u = Quote
    <3>1. NameNow(K)' = Sep(K + 1) \o (<<u>> \o Contents(scratch)')
      BY <1>1, <1>10, <2>1 DEF NameNow
    <3>2. K + 1 = 1 /\ Contents(scratch)' = <<>>
      <4>1. "0" \in Chars /\ at # "parsed"
        BY <1>1, CharsOfText DEF Digit
      <4>2. Contents(Clear(scratch)) = <<>>
        BY <1>1, <4>1, BufferGrows
      <4>3. K = 0
        BY <1>1, <1>2, <2>1
      <4>4. Contents(scratch)' = <<>>
        BY <1>1, <2>1, <4>2
      <4> HIDE DEF K
      <4>5. K + 1 = 1
        BY <4>3
      <4>6. QED BY <4>4, <4>5
    <3>3. Sep(K + 1) = <<>>
      BY <3>2 DEF Sep
    <3> DEFINE r == <<u>>
    <3> HIDE DEF r
    <3>4. r \o <<>> = r /\ <<>> \o r = r
      <4>1. UnitJoined(r, r, u)
        BY <1>6, UnitBehind DEF r
      <4>2. QED BY <4>1 DEF UnitJoined
    <3>5. QED BY <3>1, <3>2, <3>3, <3>4 DEF r
  <2>2. CASE u = ","
    <3>1. NameNow(K)' = Sep(K + 1)
      BY <1>1, <1>10, <2>2 DEF NameNow, Quote
    <3>2. K + 1 # 1
      <4>1. K \in Nat /\ K # 0
        <5>1. item \in 0 .. t
          BY DEF FramesInv
        <5>2. QED BY <1>1, <1>2, <1>3, <2>2, <5>1 DEF Quote
      <4>2. QED BY <4>1
    <3>3. QED BY <2>2, <3>1, <3>2 DEF Sep
  <2>3. QED BY <1>1, <2>1, <2>2
<1>9. UNCHANGED Top /\ (at \in Between)' /\ ~ (at \in {"first element", "first key", "after"})'
  BY <1>1 DEF Top, Between, KeyStates
<1>11. QED BY <1>1, <1>5, <1>7, <1>8, <1>9, <1>10 DEF MembersRead, g, NameNow

\* A value that is printed as it was read.
LEMMA ScalarWritten ==
  ASSUME TextInv, NEW t \in Nat, TreeInv(t), FramesInv(t), NEW b, NEW e, NEW C, ValueRead(t, b, e, C),
         NEW u \in Offered, ReadLiteral(u) \/ NumberEnds(u) \/ StringEnds(u), ~ loose'
  PROVE  /\ Taken(text', b[item], PrintScalar(node'[item]), pos') /\ node'[item].type \notin Brackets
         /\ Chosen(u)
<1> DEFINE s == Contents(scratch)
           q == <<Quote>>
           a == b[item]
<1>1. node \in [0 .. t -> Record] /\ item \in 0 .. t /\ at # "parsed"
  BY TreeAtValue DEF KeyStates, FramesInv, ValueRead
<1>2. node[item].type = "undef" /\ Taken(text, a, ValueNow, pos)
  BY DEF ValueRead
<1>3. Buffer(scratch) /\ s \in Seq(Chars)
  BY <1>1 DEF TextInv
<1>4. CString(scratch) = s
  BY <1>3, CStringIsContents
<1>5. s \in Seq(Out) /\ q \in Seq(Out) /\ Quote \in Out
  <2>1. Chars \subseteq Out
    BY PartsType
  <2>2. QED BY <1>3, <2>1, PartsType, SeqMonotonic
<1>6. CASE ReadLiteral(u)
  <2>1. /\ at = "value" /\ u \in Literal /\ Chosen(u) /\ pos' = pos + 1 /\ node' = SetType(node, item, u)
    BY <1>6 DEF ReadLiteral, Take
  <2>2. u \in Types /\ u \in Out /\ ValueNow = <<>>
    BY <2>1 DEF Types, Out, ValueNow
  <2>3. node'[item].type = u
    <3>1. SetType(node, item, u)[item].type = u
      BY <1>1, <2>2, SetTypeSets
    <3>2. QED BY <2>1, <3>1
  <2>4. PrintScalar(node'[item]) = <<u>>
    <3> DEFINE r == node'[item]
    <3>1. r.type = u /\ u \in Literal
      BY <2>1, <2>3
    <3> HIDE DEF r
    <3>2. PrintScalar(r) = <<r.type>>
      BY <3>1 DEF PrintScalar, Literal
    <3>3. QED BY <3>1, <3>2 DEF r
  <2>5. Taken(text', a, <<u>>, pos + 1)
    BY <1>2, <2>1, <2>2, UnitIsFirst
  <2>6. QED BY <2>1, <2>3, <2>4, <2>5 DEF Literal, Brackets
<1>7. CASE NumberEnds(u)
  <2>1. at = "number" /\ Chosen(u) /\ pos' = pos /\ node' = SetNumber(node, item, Strtod(s))
        /\ loose' = (loose \/ ~ Plain(s))
    BY <1>4, <1>7 DEF NumberEnds, Peek
  <2>2. s \in Seq(NumberChars) /\ ValueNow = s
    BY <2>1 DEF TextInv, ValueNow
  <2> DEFINE v == Strtod(s)
  <2>3. v \in Number /\ PrintNumber(v) = s
    <3> HIDE DEF s
    <3>1. Plain(s)
      BY <2>1
    <3>2. QED BY <2>2, <3>1, StrtodType, PlainPrints
  <2>4. node' = SetNumber(node, item, v)
    BY <2>1
  <2> HIDE DEF v, s
  <2>5. node'[item].type = "number" /\ node'[item].num = v
    BY <1>1, <1>2, <2>3, <2>4, SetNumberSets
  <2>6. PrintScalar(node'[item]) = s
    BY <2>3, <2>5 DEF PrintScalar, Literal
  <2>7. Taken(text', a, s, pos)
    BY <1>2, <2>1, <2>2, TakenStays
  <2>8. QED BY <2>1, <2>5, <2>6, <2>7 DEF Brackets
<1>8. CASE StringEnds(u)
  <2>1. /\ at = "string" /\ u = Quote /\ Chosen(u) /\ pos' = pos + 1 /\ node' = SetString(node, item, s)
    BY <1>4, <1>8 DEF StringEnds, Take
  <2>2. ValueNow = q \o s
    BY <2>1 DEF ValueNow
  <2>3. node'[item].type = "string" /\ node'[item].str = s
    <3> HIDE DEF s
    <3>1. QED BY <1>1, <1>2, <1>3, <2>1, SetStringSets
  <2>4. PrintScalar(node'[item]) = PrintString(s)
    BY <2>3 DEF PrintScalar, Literal
  <2>5. PrintString(s) = (q \o s) \o <<u>>
    BY <2>1 DEF PrintString
  <2>6. Taken(text', a, (q \o s) \o <<u>>, pos + 1)
    BY <1>2, <1>5, <2>1, <2>2, UnitFollows
  <2>7. QED BY <2>1, <2>3, <2>4, <2>5, <2>6 DEF Brackets
<1>9. QED BY <1>6, <1>7, <1>8

\* With it the value is complete.
LEMMA FinishWritten ==
  ASSUME TextInv, NEW t \in Nat, TreeInv(t), FramesInv(t), NEW b, NEW e, NEW C, ValueRead(t, b, e, C),
         NEW u \in Offered, ReadLiteral(u) \/ NumberEnds(u) \/ StringEnds(u), ~ loose'
  PROVE  TreeInv(t)' /\ FramesInv(t)' /\ Written(t)'
<1> DEFINE tx == text'
           g == node'
           q == pos'
           d == [e EXCEPT ![item] = q]
           D == C \cup {item}
<1>1. Finish
  BY FinishHasEffect
<1>2. TreeInv(t)' /\ FramesInv(t)'
  BY <1>1, FinishShape
<1>3. Taken(tx, b[item], PrintScalar(g[item]), q) /\ g[item].type \notin Brackets /\ Chosen(u)
  BY ScalarWritten
<1>4. Extends(tx, text) /\ Extends(tx, tx)
  BY <1>3, UnitChosen
<1>5. Stack(text, node, b, e, C, frames, Len(frames), item, t)
  BY DEF ValueRead
<1>6. node \in [0 .. t -> Record] /\ item \in 0 .. t
  BY <1>1, TreeAtValue DEF Finish, KeyStates, FramesInv
<1>7. g[item].key = node[item].key /\ \A n \in 0 .. t : n # item => g[n] = node[n]
  <2>1. PICK r \in Record : r.key = node[item].key /\ g = [node EXCEPT ![item] = r]
    BY <1>1 DEF Finish, Sets
  <2> HIDE DEF g
  <2>2. QED BY <1>6, <2>1
<1> HIDE DEF tx, g, q
<1>8. Stack(tx, g, b, e, C, frames, Len(frames), item, t)
  <2>1. \A n \in 0 .. t : Len(node[n].kids) \in Nat
    BY KidsCounted
  <2>2. t \in {t, t + 1} /\ \A k \in 1 .. Len(frames) : frames[k] = frames[k]
    OBVIOUS
  <2>3. QED BY <1>4, <1>5, <1>7, <2>1, <2>2, StackStays
<1>9. e \in [Nat -> Nat] /\ item \in Nat
  <2>1. e \in [Nat -> Nat] /\ item \in 0 .. t
    BY <1>5 DEF Stack
  <2>2. QED BY <2>1
<1>10. d[item] = q
  BY <1>9
<1> DEFINE s == PrintScalar(g[item])
<1>11. Holds(tx, b[item], s) /\ q = b[item] + Len(s)
  BY <1>3 DEF Taken
<1>12. q \in Nat
  <2>1. b[item] \in Nat /\ s \in Seq(Out)
    BY <1>11 DEF Holds
  <2> HIDE DEF s
  <2>2. QED BY <1>11, <2>1
<1> HIDE DEF d
<1>13. Whole(tx, g, b, d, D, item)
  BY <1>3, <1>10, <1>11 DEF Whole
<1>14. Ended(tx, g, b, e, C, item, d, D, q)
  BY <1>4, <1>12, <1>13 DEF Ended, d
<1>15. Linked(frames, t) /\ ValueDone(frames)
  BY <1>1 DEF FramesInv, Finish
<1>16. Written(t)'
  <2> HIDE DEF D
  <2>1. Stack(text', node', b, e, C, frames, Len(frames), item, t)
        /\ Ended(text', node', b, e, C, item, d, D, pos')
    BY <1>8, <1>14 DEF tx, g, q
  <2>2. QED BY <1>2, <1>15, <2>1, DoneWritten
<1>17. QED BY <1>2, <1>16

\* An array or object that ends is.
LEMMA CloseWritten ==
  ASSUME TextInv, NEW t \in Nat, TreeInv(t), FramesInv(t), NEW b, NEW e, NEW C, MembersRead(t, b, e, C),
         NEW u \in Offered, Close(u)
  PROVE  TreeInv(t)' /\ FramesInv(t)' /\ Written(t)'
<1> DEFINE K == Len(node[item].kids)
           a == After(node, b, e, item, K)
           h == node
           tx == text'
           q == pos'
           d == [e EXCEPT ![item] = q]
           D == C \cup {item}
           fs == SubSeq(frames, 1, Len(frames) - 1)
<1>1. TreeInv(t)' /\ FramesInv(t)'
  BY CloseShape
<1>2. /\ at \in {"first element", "first key", "after"} /\ Chosen(u) /\ pos' = pos + 1 /\ node' = node
      /\ u = (IF Top.kind = "array" THEN "]" ELSE "}") /\ ValueDone(fs)
  <2>1. FramesInv(t)
    OBVIOUS
  <2>2. /\ at = "first element" => Top.kind = "array"
        /\ at = "first key" => Top.kind = "object"
    BY <2>1 DEF FramesInv
  <2>3. QED BY <2>2 DEF Close, Take
<1>3. IsOpen(text, h, b, e, C, frames, Len(frames) - 1, item, Top.kind, t) /\ Taken(text, a, <<>>, pos)
  <2>1. NameNow(K) = <<>>
    BY <1>2 DEF NameNow
  <2>2. QED BY <2>1 DEF MembersRead
<1>4. Linked(frames, t) /\ frames # <<>>
  BY <1>2 DEF FramesInv, Between
<1>5. TopRemoved(frames, fs, t)
  <2>1. fs = SubSeq(frames, 1, Len(frames) - 1)
    OBVIOUS
  <2> HIDE DEF fs
  <2>2. QED BY <1>4, <2>1, LinkedPop
<1> HIDE DEF fs
<1>6. Linked(fs, t) /\ Len(fs) = Len(frames) - 1 /\ \A k \in 1 .. Len(frames) - 1 : fs[k] = frames[k]
  BY <1>5 DEF TopRemoved
<1>7. Extends(tx, text) /\ Extends(tx, tx) /\ \A n \in 0 .. t : Len(h[n].kids) \in Nat
  BY <1>2, UnitChosen, KidsCounted
<1>8. /\ IsOpen(tx, h, b, e, C, fs, Len(fs), item, Top.kind, t)
  <2> DEFINE m == Len(frames) - 1
             kind == Top.kind
  <2>1. (\A k \in 0 .. t : h[k] = h[k]) /\ \A k \in 1 .. m : fs[k] = frames[k]
    BY <1>6
  <2>2. IsOpen(text, h, b, e, C, frames, m, item, kind, t)
    BY <1>3
  <2> HIDE DEF m, h, tx, kind
  <2>3. StillOpen(tx, h, h, b, e, C, fs, m, item, kind, t)
    BY <1>7, <2>1, <2>2, IsOpenKept
  <2>4. QED BY <1>6, <2>3 DEF StillOpen, m, kind
<1>9. Stack(tx, h, b, e, C, fs, Len(fs), item, t) /\ h[item].type = Top.kind /\ Inside(tx, h, b, e, C, item, K)
  BY <1>8 DEF IsOpen
<1>10. item \in Nat /\ item \notin C /\ e \in [Nat -> Nat] /\ C \subseteq Nat /\ item \in 0 .. t
  <2>1. item \notin C /\ e \in [Nat -> Nat] /\ C \subseteq 0 .. t /\ item \in 0 .. t
    BY <1>9 DEF Stack
  <2>2. QED BY <2>1
<1>11. h[item].type \in Brackets
  BY <1>9 DEF Inside
<1>12. u = Closing(h, item) /\ u \in Out
  <2>1. u = Closing(h, item)
    BY <1>2, <1>9, <1>11 DEF Closing, Brackets
  <2>2. QED BY <2>1, PartsType DEF Closing
<1>13. Taken(tx, a, <<u>>, q)
  BY <1>2, <1>3, <1>12, UnitIsFirst
<1>14. Holds(tx, a, <<Closing(h, item)>>) /\ q = a + 1 /\ q \in Nat
  <2>1. Holds(tx, a, <<u>>) /\ q = a + Len(<<u>>) /\ Len(<<u>>) = 1
    BY <1>13 DEF Taken
  <2>2. a \in Nat
    BY <2>1 DEF Holds
  <2> HIDE DEF a, q
  <2>3. QED BY <1>12, <2>1, <2>2
<1>15. d[item] = q /\ \A k \in C : d[k] = e[k]
  <2>1. \A k \in C : k \in Nat /\ k # item
    BY <1>10
  <2> HIDE DEF q
  <2>2. QED BY <1>10, <2>1
<1> HIDE DEF q, d, h, tx
<1>16. InsideStays(tx, h, h, b, b, e, d, D, item, K)
  <2>1. K \in Nat
    BY <1>7, <1>10 DEF h
  <2> HIDE DEF K
  <2>2. Moves(tx, tx, h, h, b, b, e, d, C, D) /\ Begins(h, h, b, b, item, K)
    BY <1>7, <1>15, <2>1 DEF Moves, Begins
  <2>3. QED BY <1>9, <2>2, InsideKept
<1>17. Inside(tx, h, b, d, D, item, K) /\ After(h, b, d, item, K) = a
  <2>1. K \in 0 .. K
    BY <1>7, <1>10 DEF h
  <2>2. QED BY <1>16, <2>1 DEF InsideStays, h
<1>18. Whole(tx, h, b, d, D, item)
  BY <1>14, <1>15, <1>17 DEF Whole, h
<1>19. Ended(tx, h, b, e, C, item, d, D, q)
  BY <1>7, <1>14, <1>18 DEF Ended, d
<1>20. Written(t)'
  <2> HIDE DEF D
  <2>1. Stack(text', node', b, e, C, fs, Len(fs), item, t) /\ Ended(text', node', b, e, C, item, d, D, pos')
    BY <1>2, <1>9, <1>19 DEF tx, h, q
  <2>2. QED BY <1>1, <1>2, <1>6, <2>1, DoneWritten
<1>21. QED BY <1>1, <1>20

\* An opening bracket is read.
LEMMA OpenWritten ==
  ASSUME TextInv, NEW t \in Nat, TreeInv(t), FramesInv(t), NEW b, NEW e, NEW C, ValueRead(t, b, e, C),
         NEW u \in Offered, OpenArray(u) \/ OpenObject(u)
  PROVE  TreeInv(t)' /\ FramesInv(t)' /\ Written(t)'
<1> DEFINE h == node
           g == node'
           tx == text'
           fs == frames
           gs == frames'
           m == Len(fs)
<1>1. TreeInv(t)' /\ FramesInv(t)'
  BY OpenShape
<1>2. PICK kind \in {"array", "object"} :
        /\ at = "value" /\ g = SetType(node, item, kind)
        /\ gs = Append(frames, [item |-> item, kind |-> kind, child |-> NoNode, saved |-> 0])
        /\ at' = (IF kind = "array" THEN "first element" ELSE "first key")
        /\ item' = item /\ Chosen(u) /\ pos' = pos + 1 /\ u = (IF kind = "array" THEN "[" ELSE "{")
  BY DEF OpenArray, OpenObject, Open, Take
<1>3. h \in [0 .. t -> Record] /\ item \in 0 .. t /\ Linked(fs, t)
  BY <1>2, TreeAtValue DEF KeyStates, FramesInv
<1>4. Stack(text, h, b, e, C, fs, m, item, t) /\ h[item].kids = <<>> /\ Taken(text, b[item], <<>>, pos)
  <2>1. ValueNow = <<>>
    BY <1>2 DEF ValueNow
  <2>2. QED BY <2>1 DEF ValueRead
<1>5. Extends(tx, text) /\ Extends(tx, tx)
  BY <1>2, UnitChosen
<1> DEFINE x == [item |-> item, kind |-> kind, child |-> NoNode, saved |-> 0]
<1>6. m \in Nat /\ Len(gs) = m + 1 /\ gs[m + 1] = x /\ \A k \in 1 .. m : gs[k] = fs[k]
  <2> DEFINE F == Frame(t)
  <2>1. fs \in Seq(F)
    BY <1>3 DEF Linked
  <2>2. x \in F
    BY <1>3 DEF Frame
  <2>3. gs = Append(fs, x)
    BY <1>2
  <2> HIDE DEF F, x, fs, gs
  <2>4. QED BY <2>1, <2>2, <2>3, AppendProperties
<1>7. Top'.kind = kind
  <2>1. Len(gs) = m + 1
    BY <1>6
  <2>2. Top' = x
    BY <1>6, <2>1 DEF Top
  <2>3. QED BY <2>2
<1>8. /\ g[item].type = kind /\ g[item].kids = <<>> /\ g[item].key = h[item].key
      /\ \A n \in 0 .. t : n # item => g[n] = h[n]
  <2>1. kind \in Types
    BY DEF Types
  <2>2. Sets(h, item, g) /\ g[item].type = kind
    <3> HIDE DEF h, g
    <3>1. QED BY <1>2, <1>3, <2>1, SetTypeSets DEF h, g
  <2>3. PICK r \in Record : r.kids = h[item].kids /\ r.key = h[item].key /\ g = [h EXCEPT ![item] = r]
    BY <2>2 DEF Sets
  <2> HIDE DEF g, h
  <2>4. QED BY <1>3, <1>4, <2>2, <2>3
<1> HIDE DEF x, g, h, tx, gs, fs
<1>9. Stack(tx, g, b, e, C, gs, m, item, t)
  <2>1. \A n \in 0 .. t : Len(h[n].kids) \in Nat
    BY KidsCounted DEF h
  <2>2. t \in {t, t + 1}
    OBVIOUS
  <2> HIDE DEF m
  <2>3. QED BY <1>4, <1>5, <1>6, <1>8, <2>1, <2>2, StackStays
<1>10. Len(gs) - 1 = m
  BY <1>6
<1>11. u = Opening(g, item) /\ u \in Out
  <2>1. u = Opening(g, item)
    BY <1>2, <1>8 DEF Opening
  <2>2. QED BY <2>1, PartsType DEF Opening
<1>12. Taken(tx, b[item], <<u>>, pos + 1)
  BY <1>2, <1>4, <1>11, UnitIsFirst DEF tx
<1>13. Holds(tx, b[item], <<Opening(g, item)>>) /\ pos + 1 = b[item] + 1 /\ pos + 1 \in Nat
  <2>1. Holds(tx, b[item], <<u>>) /\ pos + 1 = b[item] + Len(<<u>>) /\ Len(<<u>>) = 1
    BY <1>12 DEF Taken
  <2>2. b[item] \in Nat
    BY <2>1 DEF Holds
  <2>3. QED BY <1>11, <2>1, <2>2
<1>14. Len(g[item].kids) = 0
  BY <1>8, EmptySeq
<1>15. Inside(tx, g, b, e, C, item, 0)
  <2>1. Filled(tx, g, b, e, C, item, 0)
    BY DEF Filled
  <2>2. QED BY <1>2, <1>8, <1>13, <2>1 DEF Inside, Brackets
<1>16. After(g, b, e, item, 0) = pos + 1
  BY <1>13 DEF After
<1>17. Taken(tx, pos + 1, <<>>, pos + 1)
  <2>1. Len(tx) \in Nat
    BY <1>5 DEF Extends
  <2>2. QED BY <1>12, <2>1, NothingTaken
<1>18. MembersRead(t, b, e, C)'
  <2>1. IsOpen(tx, g, b, e, C, gs, Len(gs) - 1, item, Top'.kind, t)
    BY <1>7, <1>8, <1>9, <1>10, <1>14, <1>15 DEF IsOpen
  <2>2. (at \in Between)' /\ at' # "after" /\ NameNow(Len(node[item].kids))' = <<>>
    BY <1>2 DEF Between, NameNow
  <2>3. MembersRead(t, b, e, C)' <=>
          /\ at' \in Between
          /\ IsOpen(text', node', b, e, C, frames', Len(frames') - 1, item', Top'.kind, t)
          /\ at' \in {"first element", "first key"} => Len(node'[item'].kids) = 0
          /\ at' = "after" => Len(node'[item'].kids) # 0
          /\ Taken(text', After(node', b, e, item', Len(node'[item'].kids)),
                   NameNow(Len(node[item].kids))', pos')
    BY DEF MembersRead
  <2>4. QED BY <1>2, <1>14, <1>16, <1>17, <2>1, <2>2, <2>3 DEF tx, g, gs
<1>19. QED BY <1>1, <1>18 DEF Written

\* A node named k has become the last member of n.
Joined(tx, h, g, b, e, C, gs, m, n, K, t, k) ==
  /\ Stack(tx, g, b, e, C, gs, m, n, t + 1)
  /\ g[n].type = h[n].type /\ K \in Nat /\ Len(g[n].kids) = K + 1 /\ g[n].kids[K + 1] = t + 1
  /\ g[t + 1] = NewNode(k) /\ t + 1 \notin C /\ n < t + 1
  /\ Inside(tx, g, b, e, C, n, K) /\ After(g, b, e, n, K) = After(h, b, e, n, K)

\* Which is what a member that is begun does, unless its name is found.
LEMMA KidJoins ==
  ASSUME TextInv, NEW t \in Nat, TreeInv(t), FramesInv(t), NEW b, NEW e, NEW C, MembersRead(t, b, e, C),
         NEW u \in Offered, Chosen(u), NEW k \in Seq(Chars), MemberBegun(t, k), ~ reused', at' \notin KeyStates
  PROVE  /\ Joined(text', node, node', b, e, C, frames', Len(frames) - 1, item, Len(node[item].kids), t, k)
         /\ item' = t + 1 /\ TreeInv(t + 1)' /\ FramesInv(t + 1)'
<1> DEFINE h == node
           g == node'
           w == WithKid(t, k)
           tx == text'
           fs == frames
           gs == frames'
           m == Len(fs) - 1
           i == item
           K == Len(h[i].kids)
<1>1. KidAdded(t, k) /\ JoinEffect(w, t, k) /\ \A j \in 1 .. m : gs[j] = fs[j]
  BY DEF MemberBegun
<1>2. JoinedNew(w, t)
  BY <1>1 DEF JoinEffect, JoinedOld
<1>3. g = AddKid(w, i, t + 1) /\ item' = t + 1
  BY <1>2 DEF JoinedNew
<1>4. /\ w \in [0 .. t + 1 -> Record] /\ Tree(w, t) /\ w[t + 1] = NewNode(k) /\ w[t + 1].kids = <<>>
      /\ \A j \in 0 .. t : w[j] = h[j]
  BY <1>1 DEF KidAdded
<1>5. i \in 0 .. t /\ IsOpen(text, h, b, e, C, fs, m, i, Top.kind, t)
  BY DEF FramesInv, MembersRead
<1>6. Extends(tx, text)
  BY UnitChosen
<1>7. \A j \in 0 .. t : h[j].kids \in Seq(0 .. t) /\ Len(h[j].kids) \in Nat
  BY KidsCounted
<1>8. Stack(text, h, b, e, C, fs, m, i, t) /\ Inside(text, h, b, e, C, i, K)
  BY <1>5 DEF IsOpen
<1>9. C \subseteq 0 .. t /\ i \notin C
  BY <1>8 DEF Stack
<1> HIDE DEF w, g, h
<1>10. /\ g \in [0 .. t + 1 -> Record]
       /\ g[i] = [w[i] EXCEPT !.kids = Append(w[i].kids, t + 1)]
       /\ \A j \in 0 .. t + 1 : j # i => g[j] = w[j]
  <2>1. w \in [0 .. t + 1 -> Record] /\ Tree(w, t) /\ w[t + 1].kids = <<>> /\ i \in 0 .. t
    BY <1>4, <1>5
  <2>2. g = AddKid(w, i, t + 1)
    BY <1>3
  <2> HIDE DEF i
  <2>3. g \in [0 .. t + 1 -> Record] /\ KidAppended(w, g, i, t)
    BY <2>1, <2>2, AddKidTree
  <2>4. QED BY <2>3 DEF KidAppended
<1>11. g[i].type = h[i].type /\ g[i].key = h[i].key /\ g[i].kids = Append(h[i].kids, t + 1)
  <2>1. w[i] = h[i] /\ w[i] \in Record
    <3>1. i \in 0 .. t + 1
      BY <1>5
    <3>2. QED BY <1>4, <1>5, <3>1
  <2> HIDE DEF i
  <2> DEFINE r == w[i]
             s == Append(r.kids, t + 1)
  <2>2. g[i] = [r EXCEPT !.kids = s] /\ r \in Record /\ r = h[i]
    BY <1>10, <2>1
  <2> HIDE DEF r, s
  <2>3. g[i].type = r.type /\ g[i].key = r.key /\ g[i].kids = s
    BY <2>2 DEF Record
  <2>4. QED BY <2>2, <2>3 DEF s
<1>12. K \in Nat /\ Len(g[i].kids) = K + 1 /\ g[i].kids[K + 1] = t + 1
       /\ \A j \in 1 .. K : g[i].kids[j] = h[i].kids[j]
  <2> DEFINE s == h[i].kids
             S == Nat
  <2>1. s \in Seq(0 .. t)
    BY <1>5, <1>7
  <2>2. 0 .. t \subseteq Nat /\ t + 1 \in Nat
    OBVIOUS
  <2>3. s \in Seq(S) /\ t + 1 \in S
    BY <2>1, <2>2, SeqMonotonic
  <2>4. g[i].kids = Append(s, t + 1)
    BY <1>11
  <2> HIDE DEF s, S
  <2>5. QED BY <2>3, <2>4, AppendProperties DEF s
<1>13. \A j \in 0 .. t : j # i => g[j] = h[j]
  <2>1. \A j \in 0 .. t : j \in 0 .. t + 1
    OBVIOUS
  <2> HIDE DEF i
  <2>2. QED BY <1>4, <1>10, <2>1
<1>14. g[t + 1] = NewNode(k) /\ t + 1 \notin C /\ i < t + 1
  <2>1. t + 1 \in 0 .. t + 1 /\ t + 1 # i /\ t + 1 \notin C /\ i < t + 1
    BY <1>5, <1>9
  <2>2. QED BY <1>4, <1>10, <2>1
<1> HIDE DEF tx, fs, gs, m, i
<1>15. Stack(tx, g, b, e, C, gs, m, i, t + 1)
  <2>1. t + 1 \in {t, t + 1} /\ g[i].key = h[i].key
    BY <1>11
  <2>2. \A j \in 0 .. t : Len(h[j].kids) \in Nat
    BY <1>7
  <2>3. \A j \in 1 .. m : gs[j] = fs[j]
    BY <1>1
  <2>4. Stack(text, h, b, e, C, fs, m, i, t)
    BY <1>8
  <2>5. QED BY <1>6, <1>13, <2>1, <2>2, <2>3, <2>4, StackStays
<1>16. InsideStays(tx, h, g, b, b, e, e, C, i, K)
  <2>1. \A j \in C : g[j] = h[j]
    BY <1>9, <1>13
  <2>2. Moves(text, tx, h, g, b, b, e, e, C, C) /\ Begins(h, g, b, b, i, K)
    BY <1>6, <1>11, <1>12, <2>1 DEF Moves, Begins
  <2> HIDE DEF K
  <2>3. QED BY <1>8, <2>2, InsideKept
<1>17. Inside(tx, g, b, e, C, i, K) /\ After(g, b, e, i, K) = After(h, b, e, i, K)
  <2>1. K \in 0 .. K
    BY <1>12
  <2>2. QED BY <1>16, <2>1 DEF InsideStays
<1>18. Joined(tx, h, g, b, e, C, gs, m, i, K, t, k)
  BY <1>11, <1>12, <1>14, <1>15, <1>17 DEF Joined
<1>19. TreeInv(t + 1)' /\ FramesInv(t + 1)'
  <2>1. PICK t2 \in {t, t + 1} : TreeInv(t2)' /\ FramesInv(t2)'
    BY DEF MemberBegun
  <2>2. (TreeInv(t2) /\ at \notin KeyStates => node \in [0 .. t2 -> Record])'
    BY DEF TreeInv
  <2>3. g \in [0 .. t2 -> Record]
    BY <2>1, <2>2 DEF g
  <2>4. 0 .. t2 = 0 .. t + 1
    BY <1>10, <2>3
  <2>5. t2 = t + 1
    <3>1. t + 1 \in 0 .. t2
      BY <2>4
    <3>2. QED BY <3>1
  <2>6. QED BY <2>1, <2>5
<1>20. QED BY <1>3, <1>18, <1>19 DEF tx, h, g, gs, m, i, fs

\* The value of the last member of i is begun.
LEMMA ValueBegins ==
  ASSUME NEW t \in Nat, TreeInv(t)', NEW b, NEW e, NEW C, NEW m, NEW i, NEW K,
         Stack(text', node', b, e, C, frames', m, i, t), Extends(text', text'),
         item' \in 0 .. t, item' \notin C, i < item',
         Len(frames') = m + 1, frames'[m + 1].item = i, frames'[m + 1].child = item',
         frames'[m + 1].kind = node'[i].type,
         K = Len(node'[i].kids), K # 0, node'[i].kids[K] = item', Inside(text', node', b, e, C, i, K - 1),
         Taken(text', After(node', b, e, i, K - 1), Lead(node', i, K), pos'),
         at' = "value", node'[item'].type = "undef", node'[item'].kids = <<>>
  PROVE  Written(t)'
<1>1. \A n \in 0 .. t : Len(node'[n].kids) \in Nat
  <2>1. (TreeInv(t) => \A n \in 0 .. t : node[n].kids \in Seq(0 .. t) /\ Len(node[n].kids) \in Nat)'
    BY KidsCounted, PTL
  <2>2. QED BY <2>1
<1>2. PICK p : p = After(node', b, e, i, K - 1) + Len(Lead(node', i, K))
  OBVIOUS
<1>3. PICK c : c = [b EXCEPT ![item'] = p]
  OBVIOUS
<1>4. Stack(text', node', c, e, C, frames', m + 1, item', t) /\ c[item'] = p
  <2>1. K >= 1
    <3>1. i \in 0 .. t
      BY DEF Stack
    <3>2. K \in Nat
      BY <1>1, <3>1
    <3>3. QED BY <3>2
  <2>2. Holds(text', After(node', b, e, i, K - 1), Lead(node', i, K))
    BY DEF Taken
  <2> DEFINE tx == text'
             g == node'
             gs == frames'
             k == item'
  <2>3. k \in 0 .. t /\ Stack(tx, g, b, e, C, gs, m, i, t) /\ (\A n \in 0 .. t : Len(g[n].kids) \in Nat)
    BY <1>1
  <2>4. Waits(tx, g, b, e, C, gs, m, i, k, K)
    BY <2>1, <2>2 DEF Waits
  <2>5. p = After(g, b, e, i, K - 1) + Len(Lead(g, i, K)) /\ c = [b EXCEPT ![k] = p]
    BY <1>2, <1>3
  <2> HIDE DEF tx, g, gs, k
  <2>6. Stack(tx, g, c, e, C, gs, m + 1, k, t)
    BY <2>3, <2>4, <2>5, StackPushed
  <2>7. c[k] = p
    BY <2>3, <2>5 DEF Stack
  <2>8. QED BY <2>6, <2>7 DEF tx, g, gs, k
<1>5. Taken(text', c[item'], <<>>, pos')
  <2>1. Len(text') \in Nat
    BY DEF Extends
  <2>2. Taken(text', pos', <<>>, pos')
    BY <2>1, NothingTaken
  <2>3. pos' = p
    BY <1>2 DEF Taken
  <2>4. QED BY <1>4, <2>2, <2>3
<1>6. ValueRead(t, c, e, C)'
  <2>1. ValueNow' = <<>>
    BY DEF ValueNow
  <2>2. at' # "number"
    OBVIOUS
  <2>3. Stack(text', node', c, e, C, frames', Len(frames'), item', t)
    BY <1>4
  <2>4. QED BY <1>5, <2>1, <2>2, <2>3 DEF ValueRead
<1>7. QED BY <1>6 DEF Written

\* An element of an array is begun.
LEMMA ElementWritten ==
  ASSUME TextInv, NEW t \in Nat, TreeInv(t), FramesInv(t), NEW b, NEW e, NEW C, MembersRead(t, b, e, C),
         NEW u \in Offered, FirstElement(u) \/ NextElement(u), ~ reused'
  PROVE  TreeInv(t + 1)' /\ FramesInv(t + 1)' /\ Written(t + 1)'
<1> DEFINE i == item
           K == Len(node[i].kids)
           a == After(node, b, e, i, K)
           m == Len(frames) - 1
           tx == text'
           g == node'
           gs == frames'
           s == Sep(K + 1)
<1>1. PICK n \in Nat : /\ Decimal[n] \in Seq(Chars) /\ MemberBegun(t, Decimal[n])
                       /\ at \in {"first element", "after"} /\ at' = "value"
  BY ElementShape
<1>2. PICK k \in Seq(Chars) : MemberBegun(t, k)
  BY <1>1
<1>3. Chosen(u)
  BY DEF FirstElement, NextElement, Take, Peek
<1>4. /\ Joined(tx, node, g, b, e, C, gs, m, i, K, t, k)
      /\ item' = t + 1 /\ TreeInv(t + 1)' /\ FramesInv(t + 1)'
  <2>1. at' \notin KeyStates
    BY <1>1 DEF KeyStates
  <2>2. QED BY <1>2, <1>3, <2>1, KidJoins
<1>5. frames # <<>> /\ Top.child = NoNode /\ Top.item = i /\ Len(frames) \in Nat /\ Top.kind = "array"
  <2>1. at \in Between
    BY <1>1 DEF Between
  <2>2. frames # <<>> /\ Top.child = NoNode /\ Top.item = i
    BY <2>1 DEF FramesInv
  <2>3. Linked(frames, t)
    BY DEF FramesInv
  <2>4. Len(frames) \in Nat
    BY <2>2, <2>3, TopFrame
  <2>5. Top.kind = "array"
    BY DEF FirstElement, NextElement, FramesInv
  <2>6. QED BY <2>2, <2>4, <2>5
<1>6. /\ IsOpen(text, node, b, e, C, frames, m, i, Top.kind, t)
      /\ Taken(text, a, <<>>, pos)
      /\ (at = "first element" => K = 0) /\ (at = "after" => K # 0)
  <2>1. NameNow(K) = <<>>
    BY <1>1 DEF NameNow
  <2>2. QED BY <2>1 DEF MembersRead
<1>7. /\ Stack(tx, g, b, e, C, gs, m, i, t + 1)
      /\ g[i].type = node[i].type /\ K \in Nat /\ Len(g[i].kids) = K + 1 /\ g[i].kids[K + 1] = t + 1
      /\ g[t + 1] = NewNode(k) /\ t + 1 \notin C /\ i < t + 1
      /\ Inside(tx, g, b, e, C, i, K) /\ After(g, b, e, i, K) = a
  BY <1>4 DEF Joined
<1>8. Taken(tx, a, s, pos')
  <2>1. CASE FirstElement(u)
    <3>1. pos' = pos /\ K = 0
      BY <1>6, <2>1 DEF FirstElement, Peek
    <3>2. Taken(tx, a, <<>>, pos)
      BY <1>3, <1>6, TakenStays
    <3>3. K + 1 = 1
      BY <3>1
    <3>4. s = <<>>
      BY <3>3 DEF Sep
    <3>5. QED BY <3>1, <3>2, <3>4
  <2>2. CASE NextElement(u)
    <3>1. pos' = pos + 1 /\ K # 0 /\ u = ","
      BY <1>6, <2>2 DEF NextElement, Take
    <3>2. u \in Out
      BY <3>1, PartsType
    <3>3. Taken(tx, a, <<u>>, pos + 1)
      BY <1>3, <1>6, <3>2, UnitIsFirst
    <3>4. K + 1 # 1
      <4>1. K \in Nat /\ K # 0
        BY <1>7, <3>1
      <4> HIDE DEF K
      <4>2. QED BY <4>1
    <3>5. s = <<u>>
      BY <3>1, <3>4 DEF Sep
    <3>6. QED BY <3>1, <3>3, <3>5
  <2>3. QED BY <2>1, <2>2
<1>9. Lead(g, i, K + 1) = s
  <2>1. g[i].type = "array"
    BY <1>5, <1>6, <1>7 DEF IsOpen
  <2>2. Label(g, i, g[i].kids[K + 1]) = <<>>
    BY <2>1 DEF Label
  <2>3. s \o <<>> = s
    <3>1. s \in Seq(Out) /\ Quote \in Out
      BY PartsType
    <3> HIDE DEF s
    <3>2. UnitJoined(s, s, Quote)
      BY <3>1, UnitBehind
    <3>3. QED BY <3>2 DEF UnitJoined
  <2>4. QED BY <2>2, <2>3 DEF Lead
<1>10. Len(gs) = m + 1 /\ gs[m + 1].item = i /\ gs[m + 1].child = t + 1 /\ gs[m + 1].kind = g[i].type
  <2>1. Len(gs) = Len(frames) /\ Top'.item = Top.item /\ Top'.kind = Top.kind /\ Top'.child = item'
    BY <1>2 DEF MemberBegun
  <2>2. m + 1 = Len(frames)
    BY <1>5
  <2>3. Top' = gs[m + 1]
    BY <2>1, <2>2 DEF Top
  <2>4. g[i].type = Top.kind
    BY <1>6, <1>7 DEF IsOpen
  <2>5. QED BY <1>4, <1>5, <2>1, <2>2, <2>3, <2>4
<1>11. NewNode(k).type = "undef" /\ NewNode(k).kids = <<>>
  BY NewNodeIsRecord
<1>12. Extends(tx, tx)
  BY <1>3, UnitChosen
<1> DEFINE L == K + 1
<1>13. L - 1 = K /\ L # 0 /\ t + 1 \in Nat /\ t + 1 \in 0 .. t + 1
  BY <1>7
<1> HIDE DEF L
<1>14. /\ L = Len(g[i].kids) /\ g[i].kids[L] = t + 1 /\ Inside(tx, g, b, e, C, i, L - 1)
       /\ Taken(tx, After(g, b, e, i, L - 1), Lead(g, i, L), pos')
  BY <1>7, <1>8, <1>9, <1>13 DEF L
<1>15. Written(t + 1)'
  <2> HIDE DEF i, m
  <2>1. /\ Stack(text', node', b, e, C, frames', m, i, t + 1) /\ Extends(text', text')
        /\ item' \in 0 .. t + 1 /\ item' \notin C /\ i < item'
        /\ Len(frames') = m + 1 /\ frames'[m + 1].item = i /\ frames'[m + 1].child = item'
        /\ frames'[m + 1].kind = node'[i].type
    BY <1>4, <1>7, <1>10, <1>12, <1>13
  <2>2. /\ L = Len(node'[i].kids) /\ L # 0 /\ node'[i].kids[L] = item' /\ Inside(text', node', b, e, C, i, L - 1)
        /\ Taken(text', After(node', b, e, i, L - 1), Lead(node', i, L), pos')
        /\ at' = "value" /\ node'[item'].type = "undef" /\ node'[item'].kids = <<>>
    BY <1>1, <1>4, <1>7, <1>11, <1>13, <1>14
  <2>3. QED BY <1>4, <1>13, <2>1, <2>2, ValueBegins
<1>16. QED BY <1>4, <1>15

\* The name of a member of an object ends.
LEMMA KeyEndsWritten ==
  ASSUME TextInv, NEW t \in Nat, TreeInv(t), FramesInv(t), NEW b, NEW e, NEW C, MembersRead(t, b, e, C),
         NEW u \in Offered, KeyEnds(u), ~ reused'
  PROVE  TreeInv(t + 1)' /\ FramesInv(t + 1)' /\ Written(t + 1)'
<1> DEFINE i == item
           K == Len(node[i].kids)
           a == After(node, b, e, i, K)
           m == Len(frames) - 1
           tx == text'
           g == node'
           gs == frames'
           k == Contents(scratch)
           s == Sep(K + 1)
           q == <<Quote>>
<1>1. k \in Seq(Chars) /\ MemberBegun(t, k)
  BY KeyShape
<1>2. at = "key string" /\ at' = "colon" /\ Chosen(u) /\ pos' = pos + 1 /\ u = Quote
  BY DEF KeyEnds, Take
<1>3. /\ Joined(tx, node, g, b, e, C, gs, m, i, K, t, k)
      /\ item' = t + 1 /\ TreeInv(t + 1)' /\ FramesInv(t + 1)'
  <2>1. at' \notin KeyStates
    BY <1>2 DEF KeyStates
  <2> HIDE DEF k
  <2>2. QED BY <1>1, <1>2, <2>1, KidJoins
<1>4. frames # <<>> /\ Top.child = NoNode /\ Top.item = i /\ Len(frames) \in Nat
  <2>1. at \in Between
    BY <1>2 DEF Between, KeyStates
  <2>2. frames # <<>> /\ Top.child = NoNode /\ Top.item = i
    BY <2>1 DEF FramesInv
  <2>3. Linked(frames, t)
    BY DEF FramesInv
  <2>4. Len(frames) \in Nat
    BY <2>2, <2>3, TopFrame
  <2>5. QED BY <2>2, <2>4
<1>5. IsOpen(text, node, b, e, C, frames, m, i, Top.kind, t) /\ Taken(text, a, s \o (q \o k), pos)
  <2>1. NameNow(K) = s \o (q \o k)
    BY <1>2 DEF NameNow
  <2>2. QED BY <2>1 DEF MembersRead
<1>6. /\ Stack(tx, g, b, e, C, gs, m, i, t + 1)
      /\ g[i].type = node[i].type /\ K \in Nat /\ Len(g[i].kids) = K + 1 /\ g[i].kids[K + 1] = t + 1
      /\ g[t + 1] = NewNode(k) /\ t + 1 \notin C /\ i < t + 1
      /\ Inside(tx, g, b, e, C, i, K) /\ After(g, b, e, i, K) = a
  BY <1>3 DEF Joined
<1>7. Taken(tx, a, s \o PrintString(k), pos')
  <2>1. Taken(tx, a, (s \o (q \o k)) \o <<u>>, pos + 1)
    <3>1. u \in Out
      BY <1>2, PartsType
    <3>2. Taken(text, a, s \o (q \o k), pos)
      BY <1>5
    <3> DEFINE r == s \o (q \o k)
    <3> HIDE DEF r
    <3>3. QED BY <1>2, <3>1, <3>2, UnitFollows DEF r
  <2>2. s \in Seq(Out) /\ q \in Seq(Out) /\ k \in Seq(Out) /\ u \in Out
    <3>1. s \in Seq(Out) /\ q \in Seq(Out) /\ u \in Out /\ Chars \subseteq Out
      BY <1>2, PartsType
    <3> DEFINE O == Out
    <3>2. k \in Seq(Chars) /\ Chars \subseteq O
      BY <1>1, <3>1
    <3> HIDE DEF O, k
    <3>3. k \in Seq(O)
      BY <3>2, SeqMonotonic
    <3>4. QED BY <3>1, <3>3 DEF O
  <2> DEFINE r == q \o k
  <2>3. r \in Seq(Out) /\ PrintString(k) = r \o <<u>>
    <3> DEFINE O == Out
    <3>1. q \in Seq(O) /\ k \in Seq(O)
      BY <2>2
    <3>2. PrintString(k) = (q \o k) \o <<u>>
      BY <1>2 DEF PrintString
    <3> HIDE DEF O, q, k
    <3>3. r \in Seq(O)
      BY <3>1, ConcatProperties
    <3>4. QED BY <3>2, <3>3 DEF O
  <2> HIDE DEF r, s
  <2>4. (s \o r) \o <<u>> = s \o Append(r, u) /\ r \o <<u>> = Append(r, u)
    <3>1. UnitJoined(s, r, u)
      BY <2>2, <2>3, UnitBehind
    <3>2. QED BY <3>1 DEF UnitJoined
  <2>5. QED BY <1>2, <2>1, <2>3, <2>4 DEF r
<1>8. Len(gs) = m + 1 /\ Top'.item = i /\ Top'.kind = g[i].type
  <2>1. Len(gs) = Len(frames) /\ Top'.item = Top.item /\ Top'.kind = Top.kind
    BY <1>1 DEF MemberBegun
  <2>2. m + 1 = Len(frames)
    BY <1>4
  <2>3. node[i].type = Top.kind
    BY <1>5 DEF IsOpen
  <2>4. QED BY <1>4, <1>6, <2>1, <2>2, <2>3
<1>9. NewNode(k).type = "undef" /\ NewNode(k).kids = <<>> /\ NewNode(k).key = k
  BY DEF NewNode
<1> DEFINE L == K + 1
<1>10. L - 1 = K /\ L # 0 /\ Len(gs) - 1 = m
  <2> HIDE DEF K
  <2>1. m + 1 - 1 = m
    BY <1>4
  <2>2. QED BY <1>6, <1>8, <2>1
<1>11. NameRead(t + 1, b, e, C)'
  <2> HIDE DEF L, i, m, k, K
  <2>1. /\ Stack(tx, g, b, e, C, gs, Len(gs) - 1, i, t + 1)
        /\ g[i].type = Top'.kind /\ Inside(tx, g, b, e, C, i, L - 1)
        /\ L # 0 /\ L = Len(g[i].kids) /\ g[i].kids[L] = item' /\ i < item' /\ item' \notin C
    BY <1>3, <1>6, <1>8, <1>10 DEF L
  <2>2. /\ g[item'].type = "undef" /\ g[item'].kids = <<>> /\ g[item'].key = k
    BY <1>3, <1>6, <1>9
  <2>3. Taken(tx, After(g, b, e, i, L - 1), Sep(L) \o PrintString(g[item'].key), pos')
    BY <1>6, <1>7, <1>10, <2>2 DEF L
  <2>4. QED BY <1>2, <1>8, <2>1, <2>2, <2>3 DEF NameRead
<1>12. QED BY <1>3, <1>11 DEF Written

\* The colon is read, and the value of the member begins.
LEMMA ColonWritten ==
  ASSUME TextInv, NEW t \in Nat, TreeInv(t), FramesInv(t), NEW b, NEW e, NEW C, NameRead(t, b, e, C),
         NEW u \in Offered, ReadColon(u)
  PROVE  TreeInv(t)' /\ FramesInv(t)' /\ Written(t)'
<1> DEFINE i == Top.item
           K == Len(node[i].kids)
           a == After(node, b, e, i, K - 1)
           m == Len(frames) - 1
           x == [Top EXCEPT !.saved = count]
<1>1. /\ at = "colon" /\ at' = "value" /\ UNCHANGED <<item, count, node>> /\ Chosen(u) /\ pos' = pos + 1 /\ u = ":"
      /\ frames' = [frames EXCEPT ![Len(frames)] = x]
  BY DEF ReadColon, Take, Top
<1>2. TreeInv(t)' /\ FramesInv(t)'
  BY ColonShape
<1>3. /\ Stack(text, node, b, e, C, frames, m, i, t) /\ node[i].type = Top.kind
      /\ Inside(text, node, b, e, C, i, K - 1)
      /\ K # 0 /\ node[i].kids[K] = item /\ i < item /\ item \notin C
      /\ node[item].type = "undef" /\ node[item].kids = <<>>
      /\ Taken(text, a, Sep(K) \o PrintString(node[item].key), pos)
  BY DEF NameRead
<1>4. /\ Linked(frames, t) /\ frames # <<>> /\ count \in Nat /\ item \in 0 .. t /\ Top.kind = "object"
      /\ item = IF Top.child = NoNode THEN Top.item ELSE Top.child
  BY <1>1 DEF FramesInv
<1>5. Top \in Frame(t) /\ Len(frames) \in Nat
  BY <1>4, TopFrame
<1>6. Len(frames') = m + 1 /\ frames'[m + 1] = x /\ \A k \in 1 .. m : frames'[k] = frames[k]
  <2> DEFINE g == frames'
             F == Frame(t)
  <2>1. x \in F /\ x.item = Top.item
    BY <1>4, <1>5 DEF Frame
  <2>2. g = [frames EXCEPT ![Len(frames)] = x]
    BY <1>1
  <2>3. m + 1 = Len(frames)
    BY <1>5
  <2> HIDE DEF x, g
  <2>4. TopReplaced(frames, x, g, t)
    BY <1>4, <2>1, <2>2, LinkedTop DEF Top
  <2>5. QED BY <2>3, <2>4 DEF TopReplaced, g
<1>7. x.item = i /\ x.child = item /\ x.kind = node[i].type
  <2>1. x.item = Top.item /\ x.child = Top.child /\ x.kind = Top.kind
    BY <1>5 DEF Frame
  <2>2. Top.child # NoNode
    BY <1>1 DEF FramesInv, Between, KeyStates
  <2>3. QED BY <1>3, <1>4, <2>1, <2>2
<1>8. Extends(text', text) /\ Extends(text', text') /\ \A n \in 0 .. t : Len(node[n].kids) \in Nat
  BY <1>1, UnitChosen, KidsCounted
<1> HIDE DEF x
<1>9. Stack(text', node, b, e, C, frames', m, i, t)
  <2> HIDE DEF i, m
  <2>1. QED BY <1>3, <1>6, <1>8, OpenStays
<1>10. i \in 0 .. t /\ C \subseteq 0 .. t /\ K \in Nat
  <2>1. i \in 0 .. t /\ C \subseteq 0 .. t
    BY <1>3 DEF Stack
  <2>2. QED BY <1>8, <2>1
<1>11. Inside(text', node, b, e, C, i, K - 1)
  <2> DEFINE L == K - 1
  <2>1. L \in Nat
    <3> HIDE DEF K
    <3>1. QED BY <1>3, <1>10
  <2>2. Inside(text, node, b, e, C, i, L)
    BY <1>3
  <2> HIDE DEF i, L
  <2>3. Moves(text, text', node, node, b, b, e, e, C, C) /\ Begins(node, node, b, b, i, L)
    BY <1>8, <2>1 DEF Moves, Begins
  <2>4. InsideStays(text', node, node, b, b, e, e, C, i, L)
    BY <2>2, <2>3, InsideKept
  <2>5. QED BY <2>4 DEF InsideStays, L
<1>12. Taken(text', a, Lead(node, i, K), pos')
  <2> DEFINE s == Sep(K)
             r == PrintString(node[item].key)
  <2>1. node[item].key \in Seq(Chars)
    <3>1. node \in [0 .. t -> Record]
      BY <1>1 DEF TreeInv, KeyStates
    <3>2. QED BY <1>4, <3>1 DEF Record
  <2>2. u \in Out /\ s \in Seq(Out) /\ r \in Seq(Out)
    BY <1>1, <2>1, PartsType
  <2>3. Taken(text', a, (s \o r) \o <<u>>, pos + 1)
    <3>1. Taken(text, a, s \o r, pos)
      BY <1>3
    <3> DEFINE v == s \o r
    <3> HIDE DEF v, a
    <3>2. QED BY <1>1, <2>2, <3>1, UnitFollows DEF v
  <2>4. Lead(node, i, K) = s \o (r \o <<u>>)
    BY <1>1, <1>3, <1>4 DEF Lead, Label
  <2> HIDE DEF s, r
  <2>5. (s \o r) \o <<u>> = s \o Append(r, u) /\ r \o <<u>> = Append(r, u)
    <3>1. UnitJoined(s, r, u)
      BY <2>2, UnitBehind
    <3>2. QED BY <3>1 DEF UnitJoined
  <2>6. QED BY <1>1, <2>3, <2>4, <2>5
<1>13. Written(t)'
  <2> HIDE DEF i, m
  <2>1. /\ Stack(text', node', b, e, C, frames', m, i, t) /\ Extends(text', text')
        /\ item' \in 0 .. t /\ item' \notin C /\ i < item'
        /\ Len(frames') = m + 1 /\ frames'[m + 1].item = i /\ frames'[m + 1].child = item'
        /\ frames'[m + 1].kind = node'[i].type
    BY <1>1, <1>3, <1>4, <1>6, <1>7, <1>8, <1>9
  <2>2. /\ K = Len(node'[i].kids) /\ K # 0 /\ node'[i].kids[K] = item' /\ Inside(text', node', b, e, C, i, K - 1)
        /\ Taken(text', After(node', b, e, i, K - 1), Lead(node', i, K), pos')
        /\ at' = "value" /\ node'[item'].type = "undef" /\ node'[item'].kids = <<>>
    BY <1>1, <1>3, <1>11, <1>12
  <2>3. TreeInv(t)'
    BY <1>2
  <2> HIDE DEF K
  <2>4. QED BY <2>1, <2>2, <2>3, ValueBegins
<1>14. QED BY <1>2, <1>13

\* What the reader has read stays written in the tree,
WrittenOn == \E t \in Nat : TreeInv(t)' /\ FramesInv(t)' /\ Written(t)'

\* when it reads a value,
LEMMA ValueStep ==
  ASSUME TextInv, NEW t \in Nat, TreeInv(t), FramesInv(t), NEW b, NEW e, NEW C, ValueRead(t, b, e, C),
         NEW u \in Offered, ReadUnit(u), ~ BadString(u), ~ BadNumber(u), ~ Unexpected(u), ~ loose'
  PROVE  WrittenOn
<1>1. at \in {"value", "number", "string"}
  BY DEF ValueRead
<1>2. CASE NumberBegins(u) \/ NumberGoesOn(u) \/ StringBegins(u) \/ StringGoesOn(u)
  <2>1. ValueRead(t, b, e, C)'
    BY <1>2, ValueGoesOn
  <2>2. TreeInv(t)' /\ FramesInv(t)'
    BY <1>2, QuietSteps, QuietShape
  <2>3. Written(t)'
    BY <2>1 DEF Written
  <2>4. QED BY <2>2, <2>3 DEF WrittenOn
<1>3. CASE ReadLiteral(u) \/ NumberEnds(u) \/ StringEnds(u)
  <2>1. TreeInv(t)' /\ FramesInv(t)' /\ Written(t)'
    BY <1>3, FinishWritten
  <2>2. QED BY <2>1 DEF WrittenOn
<1>4. CASE OpenArray(u) \/ OpenObject(u)
  <2>1. TreeInv(t)' /\ FramesInv(t)' /\ Written(t)'
    BY <1>4, OpenWritten
  <2>2. QED BY <2>1 DEF WrittenOn
<1>5. ~ SkipSpace(u)
  BY DEF SkipSpace
<1>6. /\ ~ FirstElement(u) /\ ~ NextElement(u) /\ ~ FirstKey(u) /\ ~ NextKey(u) /\ ~ KeyBegins(u) /\ ~ KeyEnds(u)
      /\ ~ ReadColon(u) /\ ~ Close(u)
  BY <1>1 DEF FirstElement, NextElement, FirstKey, NextKey, KeyBegins, KeyEnds, ReadColon, Close
<1>7. QED BY <1>2, <1>3, <1>4, <1>5, <1>6 DEF ReadUnit

\* between the members of a node and in their names,
LEMMA MembersStep ==
  ASSUME TextInv, NEW t \in Nat, TreeInv(t), FramesInv(t), NEW b, NEW e, NEW C, MembersRead(t, b, e, C),
         NEW u \in Offered, ReadUnit(u), ~ BadString(u), ~ BadNumber(u), ~ Unexpected(u), Fine', ~ reused', ~ loose'
  PROVE  WrittenOn
<1>1. at \in {"first element", "first key", "after", "key", "key string"}
  BY DEF MembersRead, Between, KeyStates
<1>2. CASE KeyBegins(u) \/ StringGoesOn(u)
  <2>1. MembersRead(t, b, e, C)'
    BY <1>2, NameGoesOn
  <2>2. TreeInv(t)' /\ FramesInv(t)'
    BY <1>2, QuietSteps, QuietShape
  <2>3. Written(t)'
    BY <2>1 DEF Written
  <2>4. QED BY <2>2, <2>3 DEF WrittenOn
<1>3. CASE FirstKey(u) \/ NextKey(u)
  <2>1. MembersRead(t, b, e, C)'
    BY <1>3, NodeIsReady
  <2>2. TreeInv(t)' /\ FramesInv(t)'
    BY <1>3, AllocateShape
  <2>3. Written(t)'
    BY <2>1 DEF Written
  <2>4. QED BY <2>2, <2>3 DEF WrittenOn
<1>4. CASE FirstElement(u) \/ NextElement(u)
  <2>1. TreeInv(t + 1)' /\ FramesInv(t + 1)' /\ Written(t + 1)'
    BY <1>4, ElementWritten
  <2>2. t + 1 \in Nat
    OBVIOUS
  <2>3. QED BY <2>1, <2>2 DEF WrittenOn
<1>5. CASE KeyEnds(u)
  <2>1. TreeInv(t + 1)' /\ FramesInv(t + 1)' /\ Written(t + 1)'
    BY <1>5, KeyEndsWritten
  <2>2. t + 1 \in Nat
    OBVIOUS
  <2>3. QED BY <2>1, <2>2 DEF WrittenOn
<1>6. CASE Close(u)
  <2>1. TreeInv(t)' /\ FramesInv(t)' /\ Written(t)'
    BY <1>6, CloseWritten
  <2>2. QED BY <2>1 DEF WrittenOn
<1>7. ~ SkipSpace(u)
  BY DEF SkipSpace
<1>8. /\ ~ ReadLiteral(u) /\ ~ NumberBegins(u) /\ ~ NumberGoesOn(u) /\ ~ NumberEnds(u) /\ ~ StringBegins(u)
      /\ ~ StringEnds(u) /\ ~ OpenArray(u) /\ ~ OpenObject(u) /\ ~ ReadColon(u)
  BY <1>1 DEF ReadLiteral, NumberBegins, NumberGoesOn, NumberEnds, StringBegins, StringEnds, OpenArray, OpenObject,
              Open, ReadColon
<1>9. QED BY <1>2, <1>3, <1>4, <1>5, <1>6, <1>7, <1>8 DEF ReadUnit

\* and behind a name.
LEMMA NameStep ==
  ASSUME TextInv, NEW t \in Nat, TreeInv(t), FramesInv(t), NEW b, NEW e, NEW C, NameRead(t, b, e, C),
         NEW u \in Offered, ReadUnit(u), ~ BadString(u), ~ BadNumber(u), ~ Unexpected(u), ~ loose'
  PROVE  WrittenOn
<1>1. at = "colon"
  BY DEF NameRead
<1>2. ReadColon(u)
  BY <1>1 DEF ReadUnit, SkipSpace, ReadLiteral, NumberBegins, NumberGoesOn, NumberEnds, StringBegins,
              StringGoesOn, StringEnds, OpenArray, OpenObject, Open, FirstElement, NextElement, FirstKey,
              NextKey, KeyBegins, KeyEnds, Close
<1>3. TreeInv(t)' /\ FramesInv(t)' /\ Written(t)'
  BY <1>2, ColonWritten
<1>4. QED BY <1>3 DEF WrittenOn

\* What is not printed, or found to exist, is never forgotten.
LEMMA StaysStrict ==
  ASSUME NEW u, ReadUnit(u), ~ reused', ~ loose', ~ BadString(u), ~ BadNumber(u), ~ Unexpected(u)
  PROVE  ~ reused /\ ~ loose /\ at # "parsed"
<1>1. CASE SkipSpace(u)
  BY <1>1 DEF SkipSpace
<1>2. CASE ReadLiteral(u) \/ NumberBegins(u) \/ NumberGoesOn(u) \/ StringBegins(u) \/ StringEnds(u)
  <2>1. reused' = reused /\ loose' = loose /\ at # "parsed"
    BY <1>2 DEF ReadLiteral, NumberBegins, NumberGoesOn, StringBegins, StringEnds
  <2>2. QED BY <2>1, Zenon
<1>3. CASE NumberEnds(u)
  <2>1. reused' = reused /\ loose' = (loose \/ ~ Plain(CString(scratch))) /\ at # "parsed"
    BY <1>3 DEF NumberEnds
  <2>2. QED BY <2>1, Zenon
<1>4. CASE StringGoesOn(u)
  <2>1. reused' = reused /\ loose' = (loose \/ u \in DOMAIN Escape) /\ at # "parsed"
    BY <1>4 DEF StringGoesOn
  <2>2. QED BY <2>1, Zenon
<1>5. CASE OpenArray(u) \/ OpenObject(u)
  <2>1. reused' = reused /\ loose' = loose /\ at # "parsed"
    BY <1>5 DEF OpenArray, OpenObject, Open
  <2>2. QED BY <2>1, Zenon
<1>6. CASE FirstElement(u) \/ NextElement(u)
  <2>1. PICK h, c, k : Join(h, c, k) /\ loose' = loose /\ at # "parsed"
    BY <1>6 DEF FirstElement, NextElement, Element
  <2>2. reused' = (reused \/ FindIn(h, Root, path \o Names(k)) # NoNode)
    BY <2>1 DEF Join
  <2>3. QED BY <2>1, <2>2, Zenon
<1>7. CASE FirstKey(u)
  <2>1. reused' = reused /\ loose' = (loose \/ u = ",") /\ at # "parsed"
    BY <1>7 DEF FirstKey
  <2>2. QED BY <2>1, Zenon
<1>8. CASE NextKey(u) \/ KeyBegins(u)
  <2>1. reused' = reused /\ loose' = loose /\ at # "parsed"
    BY <1>8 DEF NextKey, KeyBegins
  <2>2. QED BY <2>1, Zenon
<1>9. CASE KeyEnds(u)
  <2>1. PICK h, c, k : Join(h, c, k) /\ loose' = loose /\ at # "parsed"
    BY <1>9 DEF KeyEnds
  <2>2. reused' = (reused \/ FindIn(h, Root, path \o Names(k)) # NoNode)
    BY <2>1 DEF Join
  <2>3. QED BY <2>1, <2>2, Zenon
<1>10. CASE ReadColon(u) \/ Close(u)
  <2>1. reused' = reused /\ loose' = loose /\ at # "parsed"
    BY <1>10 DEF ReadColon, Close
  <2>2. QED BY <2>1, Zenon
<1>11. QED BY <1>1, <1>2, <1>3, <1>4, <1>5, <1>6, <1>7, <1>8, <1>9, <1>10 DEF ReadUnit

\* Every step keeps what was read written.
LEMMA WrittenStep ==
  ASSUME TextInv, WrittenInv, Read
  PROVE  WrittenInv'
<1> SUFFICES ASSUME Fine', ~ reused', ~ loose' PROVE WrittenOn
  BY DEF WrittenInv, WrittenOn
<1>1. CASE TextEnds
  BY <1>1 DEF TextEnds, Fine
<1>2. ASSUME NEW u \in Offered, ReadUnit(u) PROVE WrittenOn
  <2>1. Fine /\ ~ BadString(u) /\ ~ BadNumber(u) /\ ~ Unexpected(u)
    BY <1>2, StaysFine
  <2>2. ~ reused /\ ~ loose /\ at # "parsed"
    BY <1>2, <2>1, StaysStrict
  <2>3. PICK t \in Nat : TreeInv(t) /\ FramesInv(t) /\ Written(t)
    BY <2>1, <2>2 DEF WrittenInv
  <2>4. PICK b, e, C : ValueRead(t, b, e, C) \/ MembersRead(t, b, e, C) \/ NameRead(t, b, e, C)
    BY <2>2, <2>3 DEF Written, AllRead
  <2>5. CASE ValueRead(t, b, e, C)
    BY <1>2, <2>1, <2>3, <2>5, ValueStep
  <2>6. CASE MembersRead(t, b, e, C)
    BY <1>2, <2>1, <2>3, <2>6, MembersStep
  <2>7. CASE NameRead(t, b, e, C)
    BY <1>2, <2>1, <2>3, <2>7, NameStep
  <2>8. QED BY <2>4, <2>5, <2>6, <2>7
<1>3. QED BY <1>1, <1>2 DEF Read

\* Nothing is written yet, and the value of the root is what is read.
LEMMA WrittenInit ==
  ASSUME InitJson
  PROVE  WrittenInv
<1>1. PICK t \in Nat : TreeInv(t) /\ FramesInv(t)
  <2>1. ShapeInv
    BY ShapeInit DEF InitJson
  <2>2. Fine
    BY DEF InitJson, Fine
  <2>3. QED BY <2>1, <2>2 DEF ShapeInv
<1> DEFINE z == [n \in Nat |-> 0]
<1>2. /\ at = "value" /\ frames = <<>> /\ item = Root /\ text = <<>> /\ pos = 0
      /\ node[Root] = NewNode(<<>>) /\ ~ reused /\ ~ loose
  BY DEF InitJson
<1>3. ValueRead(t, z, z, {})
  <2>1. Len(frames) = 0 /\ Len(text) = 0 /\ <<>> \in Seq(Out) /\ Len(<<>>) = 0
    BY <1>2, EmptySeq
  <2>2. z \in [Nat -> Nat] /\ z[Root] = 0 /\ Root \in 0 .. t
    BY DEF Root
  <2> HIDE DEF z
  <2>3. Stack(text, node, z, z, {}, frames, 0, Root, t)
    <3>1. \A k : k \notin 1 .. 0
      OBVIOUS
    <3>2. QED BY <2>2, <3>1 DEF Stack
  <2>4. node[Root].type = "undef" /\ node[Root].kids = <<>>
    BY <1>2 DEF NewNode
  <2>5. Holds(text, 0, <<>>)
    <3>1. \A k : k \notin 1 .. 0
      OBVIOUS
    <3>2. QED BY <2>1, <3>1 DEF Holds
  <2>6. Taken(text, z[Root], <<>>, pos)
    BY <1>2, <2>1, <2>2, <2>5 DEF Taken
  <2>7. ValueNow = <<>>
    BY <1>2 DEF ValueNow
  <2>8. QED BY <1>2, <2>1, <2>3, <2>4, <2>6, <2>7 DEF ValueRead
<1>4. Written(t)
  BY <1>3 DEF Written
<1>5. QED BY <1>1, <1>4 DEF WrittenInv

\* So the tree is printed as the text that was read.
LEMMA WrittenPrints ==
  ASSUME TextInv, WrittenInv
  PROVE  PrintsWhatItRead
<1> SUFFICES ASSUME at = "parsed", ~ reused, ~ loose PROVE Printed(node)[Root] = SubSeq(text, 1, pos)
  BY DEF PrintsWhatItRead
<1>1. PICK t \in Nat : TreeInv(t) /\ Written(t)
  BY DEF WrittenInv, Fine
<1>2. PICK b, e, C : AllRead(b, e, C)
  BY <1>1 DEF Written, ValueRead, MembersRead, NameRead, Between, KeyStates
<1>3. node \in [0 .. t -> Record] /\ Tree(node, t)
  BY <1>1, TreeAtValue DEF KeyStates
<1>4. text \in Seq(Units)
  BY DEF TextInv
<1>5. (\A n \in C : Whole(text, node, b, e, C, n)) /\ Root \in C /\ b[Root] = 0 /\ e[Root] = pos
  BY <1>2 DEF AllRead
<1>6. QED BY <1>3, <1>4, <1>5, RootStands

-----------------------------------------------------------------------------
(* The reader.                                                             *)

ReaderInv == TextInv /\ ShapeInv /\ NamedInv /\ WrittenInv

\* There is nothing read yet.
LEMMA ReaderInit == InitJson => ReaderInv
<1> SUFFICES ASSUME InitJson PROVE ReaderInv
  OBVIOUS
<1>1. TextInv
  BY TextInit DEF InitJson
<1>2. ShapeInv
  BY ShapeInit DEF InitJson
<1>3. NamedInv
  BY NamedInit DEF InitJson
<1>4. WrittenInv
  BY WrittenInit
<1>5. QED BY <1>1, <1>2, <1>3, <1>4 DEF ReaderInv

\* Reading goes on.
LEMMA ReaderStep == ASSUME ReaderInv, Read PROVE ReaderInv'
  BY TextStep, ShapeStep, NamedStep, WrittenStep DEF ReaderInv

\* What is written does not depend on the buffer when the text is read.
LEMMA WrittenKept ==
  ASSUME WrittenInv, UNCHANGED <<at, frames, item, path, count, node, fresh, text, pos, reused, loose>>,
         at = "parsed" \/ UNCHANGED scratch
  PROVE  WrittenInv'
<1> SUFFICES ASSUME Fine', ~ reused', ~ loose' PROVE WrittenOn
  BY DEF WrittenInv, WrittenOn
<1>1. Fine
  BY DEF Fine
<1>2. reused' = reused /\ loose' = loose
  OBVIOUS
<1>3. ~ reused /\ ~ loose
  BY ONLY <1>2, ~ reused', ~ loose', Zenon
<1>4. PICK t \in Nat : TreeInv(t) /\ FramesInv(t) /\ Written(t)
  BY <1>1, <1>3 DEF WrittenInv
<1>5. TreeInv(t)'
  BY <1>4 DEF TreeInv
<1>6. UNCHANGED Top
  BY DEF Top
<1>7. FramesInv(t)'
  BY <1>4, <1>6 DEF FramesInv
<1>8. PICK b, e, C : AllRead(b, e, C) \/ ValueRead(t, b, e, C) \/ MembersRead(t, b, e, C) \/ NameRead(t, b, e, C)
  BY <1>4 DEF Written
<1>9. CASE AllRead(b, e, C)
  <2>1. AllRead(b, e, C)'
    BY <1>9 DEF AllRead
  <2>2. QED BY <1>5, <1>7, <2>1 DEF Written, WrittenOn
<1>10. CASE ValueRead(t, b, e, C)
  <2>1. UNCHANGED scratch
    BY <1>10 DEF ValueRead
  <2>2. UNCHANGED ValueNow
    BY <2>1 DEF ValueNow
  <2>3. ValueRead(t, b, e, C)'
    BY <1>10, <2>1, <2>2 DEF ValueRead
  <2>4. QED BY <1>5, <1>7, <2>3 DEF Written, WrittenOn
<1>11. CASE MembersRead(t, b, e, C)
  <2>1. UNCHANGED scratch
    BY <1>11 DEF MembersRead, Between, KeyStates
  <2>2. MembersRead(t, b, e, C)'
    BY <1>6, <1>11, <2>1 DEF MembersRead, NameNow
  <2>3. QED BY <1>5, <1>7, <2>2 DEF Written, WrittenOn
<1>12. CASE NameRead(t, b, e, C)
  <2>1. NameRead(t, b, e, C)'
    BY <1>6, <1>12 DEF NameRead
  <2>2. QED BY <1>5, <1>7, <2>1 DEF Written, WrittenOn
<1>13. QED BY <1>8, <1>9, <1>10, <1>11, <1>12

\* The buffer may be used for other things when the text is read.
LEMMA ReaderPrints ==
  ASSUME ReaderInv, at = "parsed", Buffer(scratch'), scratch'.len <= Longest,
         UNCHANGED <<at, frames, item, path, count, node, fresh, text, pos>>, UNCHANGED <<reused, odd, loose>>
  PROVE  ReaderInv'
<1>1. TextInv'
  BY DEF ReaderInv, TextInv
<1>2. ShapeInv'
  BY DEF ReaderInv, ShapeInv, Fine, TreeInv, FramesInv, Top
<1>3. NamedInv'
  BY DEF ReaderInv, NamedInv, Fine
<1>4. WrittenInv'
  BY WrittenKept DEF ReaderInv
<1>5. QED BY <1>1, <1>2, <1>3, <1>4 DEF ReaderInv
===============================================================================
