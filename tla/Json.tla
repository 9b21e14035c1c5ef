--------------------------------- MODULE Json ---------------------------------
(***************************************************************************)
(* The JSON reader of the daemon: jsonroot.c, jsonnode.c and jsonpath.c.   *)
(*                                                                         *)
(* The recursive descent of json_root_parse_value is a state machine: at   *)
(* says which function is reading, frames holds the arrays and objects     *)
(* whose members are being read, outermost first.  One step takes at most  *)
(* one unit from the text.                                                 *)
(*                                                                         *)
(* A unit is a character, or a group of characters that is always read as  *)
(* a whole: null, false, true, an escape sequence in a string, a word in a *)
(* key.  The text is whatever the configuration file holds: each unit is   *)
(* chosen when the reader asks for it.                                     *)
(***************************************************************************)
EXTENDS DBuf, FiniteSets, SequencesExt

CONSTANTS
  Units,        \* the units a text may be made of
  Letters,      \* those that are tried inside strings
  FreeUnits,    \* bound: any text of these is tried
  FreeLength,   \* up to this length,
  Scripts,      \* and these texts with all their beginnings
  ScratchSize   \* dbuf_new(1024, 0): the first size of root->dbuf

Quote == "\""
Space == " "
BadEscape == "\\u"     \* a \u without four hexadecimal digits
Escape == [e \in {"\\a"} |-> "a"]
Punctuation == {"{", "}", "[", "]", ":", ",", Quote, Space, BadEscape} \cup DOMAIN Escape
Literal == {"null", "false", "true"}
Digit == [d \in {"0", "1", "2", "3", "4", "5", "6", "7", "8", "9"} |->
            CASE d = "0" -> 0 [] d = "1" -> 1 [] d = "2" -> 2 [] d = "3" -> 3 [] d = "4" -> 4
              [] d = "5" -> 5 [] d = "6" -> 6 [] d = "7" -> 7 [] d = "8" -> 8 [] d = "9" -> 9]

ASSUME JsonAssumption ==
  /\ Units \subseteq STRING /\ NUL \notin Units
  /\ Letters \subseteq Units \ {Quote, BadEscape}
  /\ FreeUnits \subseteq Units
  /\ FreeLength \in Nat /\ FreeLength <= Longest
  /\ \A s \in Scripts : s \in Seq(Units) /\ Len(s) <= Longest
  /\ ScratchSize \in 1 .. Longest

VARIABLES
  at,       \* what is being read
  frames,   \* open arrays and objects: the node, its kind, the member being
            \* read and the value of root->count that was saved for it
  item,     \* the node the value is for
  path,     \* root->path, one name for each PATH_SEP
  count,    \* root->count
  node,     \* the nodes that are allocated
  fresh,    \* the node allocated for a member whose key is being read
  text, pos, closed,  \* units read so far, the position, whether they are all
  scratch,  \* root->dbuf
  reused,   \* history: some member was found to exist already
  odd,      \* history: some key cannot be a name in a path
  loose     \* history: something was read that is not printed

jvars == <<at, frames, item, path, count, node, fresh, text, pos, closed, scratch,
           reused, odd, loose>>

Root == 0
NoNode == -1

-----------------------------------------------------------------------------
(* Nodes.                                                                  *)

\* A double: with the digits d1 d2 ... of a decimal, the value 0.d1d2... times
\* ten to the power of point.
Number == [neg : BOOLEAN, digits : Seq(DOMAIN Digit), point : Int]
Zero   == [neg |-> FALSE, digits |-> <<>>, point |-> 0]
One    == [neg |-> FALSE, digits |-> <<"1">>, point |-> 1]

NewNode(k) == [key |-> k, type |-> "undef", num |-> Zero, str |-> <<>>, kids |-> <<>>]

\* json_node_new: any address that is not in use; here the lowest.
FreeId == CHOOSE i \in 1 .. Cardinality(DOMAIN node) :
            i \notin DOMAIN node /\ \A j \in 1 .. i - 1 : j \in DOMAIN node

With(h, i, n) == [j \in DOMAIN h \cup {i} |-> IF j = i THEN n ELSE h[j]]
Destroyed(h, i) == [j \in DOMAIN h \ {i} |-> h[j]]

SetType(h, i, t) ==
  [h EXCEPT ![i] = [@ EXCEPT !.type = t, !.num = IF t = "true" THEN One ELSE Zero]]

\* json_node_set_val_number, json_node_dup_val_string: a value of another type
\* is kept.
SetNumber(h, i, v) ==
  IF h[i].type \in {"undef", "number"}
  THEN [h EXCEPT ![i] = [@ EXCEPT !.type = "number", !.num = v]] ELSE h
SetString(h, i, s) ==
  IF h[i].type \in {"undef", "string"}
  THEN [h EXCEPT ![i] = [@ EXCEPT !.type = "string", !.str = s]] ELSE h

AddKid(h, i, k) == [h EXCEPT ![i].kids = Append(@, k)]

-----------------------------------------------------------------------------
(* Numbers.                                                                *)

\* Characters a number may go on with, in any order.
NumberChars == DOMAIN Digit \cup {"-", "+", ".", "e", "E"}

\* The digits of s from position i on.
DigitsFrom(s, i) ==
  LET end == CHOOSE j \in i .. Len(s) + 1 :
               /\ \A k \in i .. j - 1 : s[k] \in DOMAIN Digit
               /\ j <= Len(s) => s[j] \notin DOMAIN Digit
  IN  SubSeq(s, i, end - 1)

\* The number a string of digits is the decimal of.
Value(s) ==
  LET value[n \in 0 .. Len(s)] == IF n = 0 THEN 0 ELSE 10 * value[n - 1] + Digit[s[n]]
  IN  value[Len(s)]

IsAt(s, i, chars) == i <= Len(s) /\ s[i] \in chars

\* strtod: a sign, digits, a point and digits, an exponent, as far as they go;
\* 0 if there are no digits.
Strtod(s) ==
  LET start == IF IsAt(s, 1, {"-"}) THEN 2 ELSE 1
      whole == DigitsFrom(s, start)
      p     == start + Len(whole)
      frac  == IF IsAt(s, p, {"."}) THEN DigitsFrom(s, p + 1) ELSE <<>>
      e     == IF IsAt(s, p, {"."}) THEN p + 1 + Len(frac) ELSE p
      power == IF ~ IsAt(s, e, {"e", "E"}) THEN 0
               ELSE IF IsAt(s, e + 1, {"-"}) THEN - Value(DigitsFrom(s, e + 2))
               ELSE IF IsAt(s, e + 1, {"+"}) THEN Value(DigitsFrom(s, e + 2))
               ELSE Value(DigitsFrom(s, e + 1))
  IN  IF whole \o frac = <<>> THEN Zero
      ELSE [neg |-> start = 2, digits |-> whole \o frac, point |-> Len(whole) + power]

\* The powers of ten between which a number other than 0 has to lie for errno
\* to stay 0.  (At the very ends that depends on more than the power.)
LeastPower == -307
MostPower  == 309

\* The position of the first digit that is not 0.
OutOfRange(d) ==
  \E k \in 1 .. Len(d.digits) :
    /\ d.digits[k] # "0" /\ \A j \in 1 .. k - 1 : d.digits[j] = "0"
    /\ d.point - (k - 1) \notin LeastPower .. MostPower

\* The digits in front of the point, and whether only zeros follow it.
DigitAt(d, k) == IF k \in 1 .. Len(d.digits) THEN d.digits[k] ELSE "0"
Magnitude(d) == Value([k \in 1 .. d.point |-> DigitAt(d, k)])
IsWhole(d) == \A k \in 1 .. Len(d.digits) : k > d.point => d.digits[k] = "0"

\* (int) d, for numbers that fit.
Truncated(d) == IF d.neg THEN - Magnitude(d) ELSE Magnitude(d)

\* A double keeps every number of so many digits exactly.
ExactDigits == 15

\* The texts of numbers that are printed as they are read: no point, exponent
\* or leading zero, no -0, and no more digits than a double keeps.
Plain(s) ==
  LET d == IF IsAt(s, 1, {"-"}) THEN Tail(s) ELSE s
  IN  /\ d \in Seq(DOMAIN Digit) /\ Len(d) \in 1 .. ExactDigits
      /\ d[1] = "0" => s = <<"0">>

DigitFor(n) == CHOOSE d \in DOMAIN Digit : Digit[d] = n

Decimal[n \in Nat] ==
  IF n < 10 THEN <<DigitFor(n)>> ELSE Decimal[n \div 10] \o <<DigitFor(n % 10)>>

\* json_root_print_number: an integer; or six digits behind the point, or an
\* exponent, a text that is not looked into.  (A fraction of less than
\* DBL_EPSILON, which is printed as the integer next to it, goes with those.)
PointText == "0.000000"
PrintNumber(d) ==
  IF ~ IsWhole(d) \/ d.point > 60 THEN <<PointText>>
  ELSE IF Truncated(d) < 0 THEN <<"-">> \o Decimal[Magnitude(d)]
  ELSE Decimal[Magnitude(d)]

-----------------------------------------------------------------------------
(* Paths.                                                                  *)

\* The names a string is cut into at each PATH_SEP.
Names(s) ==
  LET cut[n \in 0 .. Len(s)] ==
        IF n = 0 THEN <<<<>>>>
        ELSE LET before == cut[n - 1]
             IN  IF s[n] = "." THEN Append(before, <<>>)
                 ELSE [before EXCEPT ![Len(before)] = Append(@, s[n])]
  IN  cut[Len(s)]

\* jsonpath_construct: a "*" before another name asks for a recursive search;
\* a second separator at the beginning is skipped.
Recursive(p) == Len(p) > 1 /\ p[1] = <<"*">>
Tokens(p) == IF Recursive(p) \/ (Len(p) > 1 /\ p[1] = <<>>) THEN Tail(p) ELSE p

\* json_node_find among the members of n from the i-th token on: the node it
\* returns and the token it searches for by then, where below is what the same
\* search makes of other nodes.
Scan(h, toks, recur, below, n, i) ==
  LET kids == h[n].kids
      from[x \in (1 .. Len(kids) + 1) \X (1 .. Len(toks))] ==
        IF x[1] > Len(kids) THEN [node |-> NoNode, i |-> x[2]]
        ELSE LET k     == kids[x[1]]
                 match == h[k].key = toks[x[2]]
                 j     == IF match THEN x[2] + 1 ELSE x[2]
                 r     == below[<<k, j>>]
             IN  IF j > Len(toks) THEN [node |-> k, i |-> j]
                 ELSE IF ~ recur THEN IF match THEN r ELSE from[<<x[1] + 1, j>>]
                 ELSE IF r.i > Len(toks) THEN r ELSE from[<<x[1] + 1, r.i>>]
  IN  from[<<1, i>>]

Search(h, toks, recur) ==
  LET find[x \in (DOMAIN h) \X (1 .. Len(toks))] == Scan(h, toks, recur, find, x[1], x[2])
  IN  find

\* json_node_find_node.
FindIn(h, n, p) == Search(h, Tokens(p), Recursive(p))[<<n, 1>>].node

-----------------------------------------------------------------------------
(* The text.                                                               *)

\* The units that may come next.
Offered ==
  IF pos < Len(text) THEN {text[pos + 1]}
  ELSE IF closed THEN {}
  ELSE (IF Len(text) < FreeLength /\ ToSet(text) \subseteq FreeUnits THEN FreeUnits ELSE {})
         \cup {s[Len(text) + 1] : s \in {t \in Scripts : Len(text) < Len(t) /\ SubSeq(t, 1, Len(text)) = text}}

\* The next unit is u; dbuf_next_char takes it, dbuf_unget_char puts it back.
Chosen(u) == text' = IF pos < Len(text) THEN text ELSE Append(text, u)
Take(u) == Chosen(u) /\ pos' = pos + 1 /\ UNCHANGED closed
Peek(u) == Chosen(u) /\ UNCHANGED <<pos, closed>>

EndOfText == pos = Len(text) /\ closed' = TRUE /\ UNCHANGED <<text, pos>>

-----------------------------------------------------------------------------
(* Reading.                                                                *)

Top == frames[Len(frames)]
PathPop == IF path = <<>> THEN path ELSE SubSeq(path, 1, Len(path) - 1)

\* Seeded fault: the path is not put back.
ValueDoneKeepsPath(fs) ==
  IF fs = <<>>
  THEN at' = "parsed" /\ frames' = fs /\ UNCHANGED <<item, path, count>>
  ELSE LET top == fs[Len(fs)]
       IN  /\ at' = "after"
           /\ frames' = [fs EXCEPT ![Len(fs)].child = NoNode]
           /\ item' = top.item
           /\ count' = top.saved + 1
           /\ UNCHANGED path

\* A value is complete and the frames fs are left: the member it belongs to
\* is, too, and root->count and the path are put back.
ValueDone(fs) ==
  IF fs = <<>>
  THEN at' = "parsed" /\ frames' = fs /\ UNCHANGED <<item, path, count>>
  ELSE LET top == fs[Len(fs)]
       IN  /\ at' = "after"
           /\ frames' = [fs EXCEPT ![Len(fs)].child = NoNode]
           /\ item' = top.item
           /\ count' = top.saved + 1
           /\ path' = PathPop

Fail == at' = "failed" /\ UNCHANGED <<frames, item, path, count, node, fresh, scratch, reused, odd, loose>>

\* json_root_skip_ws.
Skipping == {"value", "first element", "first key", "key", "colon", "after"}

SkipSpace(u) ==
  /\ at \in Skipping /\ u = Space
  /\ Take(u)
  /\ loose' = TRUE
  /\ UNCHANGED <<at, frames, item, path, count, node, fresh, scratch, reused, odd>>

\* The text ends: a NULL is passed on, except that a string reads through it.
TextEnds ==
  /\ at \in Skipping \cup {"string", "key string", "number"}
  /\ EndOfText
  /\ at' = IF at \in {"string", "key string"} THEN "crashed" ELSE "failed"
  /\ UNCHANGED <<frames, item, path, count, node, fresh, scratch, reused, odd, loose>>

ReadLiteral(u) ==
  /\ at = "value" /\ u \in Literal
  /\ Take(u)
  /\ node' = SetType(node, item, u)
  /\ ValueDone(frames)
  /\ UNCHANGED <<fresh, scratch, reused, odd, loose>>

\* json_root_parse_number.
NumberBegins(u) ==
  /\ at = "value" /\ u \in DOMAIN Digit \cup {"-"}
  /\ Take(u)
  /\ scratch' = PutChar(Clear(scratch), u)
  /\ at' = "number"
  /\ UNCHANGED <<frames, item, path, count, node, fresh, reused, odd, loose>>

NumberGoesOn(u) ==
  /\ at = "number" /\ u \in NumberChars
  /\ Take(u)
  /\ scratch' = PutChar(scratch, u)
  /\ UNCHANGED <<at, frames, item, path, count, node, fresh, reused, odd, loose>>

\* The end of strtod is compared with a place in another buffer, so that a
\* number without digits, or with characters left over, is no error; one that
\* is too large or too small is.
NumberEnds(u) ==
  /\ at = "number" /\ u \notin NumberChars
  /\ Peek(u)
  /\ LET s == CString(scratch)
     IN  /\ ~ OutOfRange(Strtod(s))
         /\ node' = SetNumber(node, item, Strtod(s))
         /\ loose' = (loose \/ ~ Plain(s))
  /\ ValueDone(frames)
  /\ UNCHANGED <<fresh, scratch, reused, odd>>

BadNumber(u) ==
  /\ at = "number" /\ u \notin NumberChars
  /\ Peek(u)
  /\ OutOfRange(Strtod(CString(scratch)))
  /\ Fail

\* json_root_parse_string.
StringBegins(u) ==
  /\ at = "value" /\ u = Quote
  /\ Take(u)
  /\ scratch' = Clear(scratch)
  /\ at' = "string"
  /\ UNCHANGED <<frames, item, path, count, node, fresh, reused, odd, loose>>

StringGoesOn(u) ==
  /\ at \in {"string", "key string"} /\ u \in Letters
  /\ Take(u)
  /\ scratch' = PutChar(scratch, IF u \in DOMAIN Escape THEN Escape[u] ELSE u)
  /\ loose' = (loose \/ u \in DOMAIN Escape)
  /\ UNCHANGED <<at, frames, item, path, count, node, fresh, reused, odd>>

BadString(u) ==
  /\ at \in {"string", "key string"} /\ u = BadEscape
  /\ Take(u)
  /\ Fail

StringEnds(u) ==
  /\ at = "string" /\ u = Quote
  /\ Take(u)
  /\ node' = SetString(node, item, CString(scratch))
  /\ ValueDone(frames)
  /\ UNCHANGED <<fresh, scratch, reused, odd, loose>>

\* json_root_parse_array, json_root_parse_object: the opening bracket.
Open(u, kind, label) ==
  /\ at = "value"
  /\ Take(u)
  /\ node' = SetType(node, item, kind)
  /\ frames' = Append(frames, [item |-> item, kind |-> kind, child |-> NoNode, saved |-> 0])
  /\ at' = label
  /\ UNCHANGED <<item, path, count, fresh, scratch, reused, odd, loose>>

OpenArray(u)  == u = "[" /\ Open(u, "array", "first element")
OpenObject(u) == u = "{" /\ Open(u, "object", "first key")

\* Seeded fault: a node that is not used is not freed.
JoinLeaking(h, c, k) ==
  LET p == path \o Names(k)
      found == FindIn(h, Root, p)
  IN  /\ path' = p
      /\ node' = IF found = NoNode THEN AddKid(h, item, c) ELSE h
      /\ item' = IF found = NoNode THEN c ELSE found
      /\ reused' = (reused \/ found # NoNode)
      /\ odd' = (odd \/ Len(Names(k)) > 1 \/ k \in {<<>>, <<"*">>})

\* The new node c, named k, becomes the next member of item, unless the path
\* leads to a node: that one is used and the new one freed.
Join(h, c, k) ==
  LET p == path \o Names(k)
      found == FindIn(h, Root, p)
  IN  /\ path' = p
      /\ node' = IF found = NoNode THEN AddKid(h, item, c) ELSE Destroyed(h, c)
      /\ item' = IF found = NoNode THEN c ELSE found
      /\ reused' = (reused \/ found # NoNode)
      /\ odd' = (odd \/ Len(Names(k)) > 1 \/ k \in {<<>>, <<"*">>})

\* The next element of an array, whose name is its index n.
Element(n) ==
  /\ Join(With(node, FreeId, NewNode(Decimal[n])), FreeId, Decimal[n])
  /\ frames' = [frames EXCEPT ![Len(frames)] = [@ EXCEPT !.child = item', !.saved = n]]
  /\ count' = n
  /\ at' = "value"
  /\ UNCHANGED <<fresh, scratch>>

FirstElement(u) ==
  /\ at = "first element" /\ u \notin {Space, "]"}
  /\ Peek(u)
  /\ Element(0)
  /\ UNCHANGED loose

NextElement(u) ==
  /\ at = "after" /\ u = "," /\ Top.kind = "array"
  /\ Take(u)
  /\ Element(count)
  /\ UNCHANGED loose

\* The next member of an object: a node, then its key.
Allocate == fresh' = FreeId /\ node' = With(node, FreeId, NewNode(<<>>))

FirstKey(u) ==
  /\ at = "first key" /\ u \notin {Space, "}"}
  /\ Take(u)
  /\ at' = CASE u = Quote -> "key string" [] u = "," -> "key" [] OTHER -> "failed"
  /\ scratch' = IF u = Quote THEN Clear(scratch) ELSE scratch
  /\ loose' = (loose \/ u = ",")
  /\ count' = 0
  /\ Allocate
  /\ UNCHANGED <<frames, item, path, reused, odd>>

NextKey(u) ==
  /\ at = "after" /\ u = "," /\ Top.kind = "object"
  /\ Take(u)
  /\ Allocate
  /\ at' = "key"
  /\ UNCHANGED <<frames, item, path, count, scratch, reused, odd, loose>>

KeyBegins(u) ==
  /\ at = "key" /\ u = Quote
  /\ Take(u)
  /\ scratch' = Clear(scratch)
  /\ at' = "key string"
  /\ UNCHANGED <<frames, item, path, count, node, fresh, reused, odd, loose>>

\* json_node_set_keyname_from_value: the string is the name of the new node.
KeyEnds(u) ==
  /\ at = "key string" /\ u = Quote
  /\ Take(u)
  /\ LET k == CString(scratch)
     IN  Join(With(node, fresh, NewNode(k)), fresh, k)
  /\ frames' = [frames EXCEPT ![Len(frames)] = [@ EXCEPT !.child = item']]
  /\ fresh' = NoNode
  /\ at' = "colon"
  /\ UNCHANGED <<count, scratch, loose>>

ReadColon(u) ==
  /\ at = "colon" /\ u = ":"
  /\ Take(u)
  /\ frames' = [frames EXCEPT ![Len(frames)] = [@ EXCEPT !.saved = count]]
  /\ at' = "value"
  /\ UNCHANGED <<item, path, count, node, fresh, scratch, reused, odd, loose>>

\* The closing bracket, of an empty array or object or after a member.
Close(u) ==
  /\ \/ at = "first element" /\ u = "]"
     \/ at = "first key" /\ u = "}"
     \/ at = "after" /\ u = (IF Top.kind = "array" THEN "]" ELSE "}")
  /\ Take(u)
  /\ ValueDone(SubSeq(frames, 1, Len(frames) - 1))
  /\ UNCHANGED <<node, fresh, scratch, reused, odd, loose>>

\* Any other unit.
Expected ==
  CASE at = "value"  -> Literal \cup DOMAIN Digit \cup {"-", Quote, "[", "{", Space}
    [] at = "key"    -> {Quote, Space}
    [] at = "colon"  -> {":", Space}
    [] at = "after"  -> {",", Space, IF Top.kind = "array" THEN "]" ELSE "}"}
    [] OTHER         -> Units

Unexpected(u) ==
  /\ at \in Skipping /\ u \notin Expected
  /\ Take(u)
  /\ Fail

ReadUnit(u) ==
  \/ SkipSpace(u) \/ ReadLiteral(u) \/ NumberBegins(u) \/ NumberGoesOn(u) \/ NumberEnds(u)
  \/ BadNumber(u) \/ StringBegins(u) \/ StringGoesOn(u) \/ BadString(u) \/ StringEnds(u)
  \/ OpenArray(u) \/ OpenObject(u) \/ FirstElement(u) \/ NextElement(u)
  \/ FirstKey(u) \/ NextKey(u) \/ KeyBegins(u) \/ KeyEnds(u)
  \/ ReadColon(u) \/ Close(u) \/ Unexpected(u)

Read == TextEnds \/ \E u \in Offered : ReadUnit(u)

\* json_root_new, and json_root_parse up to the first value.
InitJson ==
  /\ at = "value"
  /\ frames = <<>>
  /\ item = Root
  /\ path = <<>>
  /\ count = 0
  /\ node = [i \in {Root} |-> NewNode(<<>>)]
  /\ fresh = NoNode
  /\ text = <<>> /\ pos = 0 /\ closed = FALSE
  /\ scratch = NewBuf(ScratchSize)
  /\ reused = FALSE /\ odd = FALSE /\ loose = FALSE

-----------------------------------------------------------------------------
(* Printing.                                                               *)

PrintString(s) == <<Quote>> \o s \o <<Quote>>

\* json_root_iter_array, json_root_iter_object: what follows a member when
\* root->count, put back and counted down, is left.
\* Seeded fault: it is compared before it is counted down.
CommaEarly(left) == IF left + 1 # 0 THEN <<",">> ELSE <<>>

Comma(left) == IF left # 0 THEN <<",">> ELSE <<>>

Label(h, n, k) == IF h[n].type = "object" THEN PrintString(h[k].key) \o <<":">> ELSE <<>>

\* The members kids of n, where print is what each node is printed as.
Members(h, n, kids, print) ==
  LET out[k \in 0 .. Len(kids)] ==
        IF k = 0 THEN <<>>
        ELSE out[k - 1] \o Label(h, n, kids[k]) \o print[kids[k]] \o Comma(Len(kids) - k)
  IN  out[Len(kids)]

\* json_root_print_value: the units node n is printed as.
PrintValue(h, n, print) ==
  CASE h[n].type \in Literal -> <<h[n].type>>
    [] h[n].type = "number"  -> PrintNumber(h[n].num)
    [] h[n].type = "string"  -> PrintString(h[n].str)
    [] h[n].type = "array"   -> <<"[">> \o Members(h, n, h[n].kids, print) \o <<"]">>
    [] h[n].type = "object"  -> <<"{">> \o Members(h, n, h[n].kids, print) \o <<"}">>
    [] OTHER                 -> <<>>

Printed(h) == LET print[n \in DOMAIN h] == PrintValue(h, n, print) IN print

-----------------------------------------------------------------------------
(* Correctness.                                                            *)

\* Nodes that can be reached from the root.
Reached(h) ==
  LET seen[d \in 0 .. Cardinality(DOMAIN h)] ==
        IF d = 0 THEN {Root}
        ELSE UNION {{n} \cup ToSet(h[n].kids) : n \in seen[d - 1]}
  IN  seen[Cardinality(DOMAIN h)]

\* Every node that is allocated is in the tree, except the one whose key is
\* being read: the reader drops none and frees none that the tree uses.
NodesInTree ==
  at \notin {"crashed", "failed"} => DOMAIN node = Reached(node) \cup ({fresh} \ {NoNode})

\* What was read is what would be printed: no member is lost, misplaced or
\* separated wrongly, unless a key occurred twice or the text has something the
\* tree does not keep: blanks, escapes, numbers that are not plain (fractions,
\* exponents, further signs, leading zeros, -0, more than 15 digits).
PrintsWhatItRead ==
  at = "parsed" /\ ~ reused /\ ~ loose => Printed(node)[Root] = SubSeq(text, 1, pos)

\* When the keys are names, a member is read into a child of the node whose
\* bracket is open, the path is made of the names of those children, and no
\* node has two children of one name.
MembersInPlace ==
  ~ odd /\ at \notin {"crashed", "failed"} =>
    /\ \A k \in 1 .. Len(frames) :
         frames[k].child # NoNode => frames[k].child \in ToSet(node[frames[k].item].kids)
    /\ path = [k \in 1 .. Cardinality({j \in DOMAIN frames : frames[j].child # NoNode}) |->
                 node[frames[k].child].key]
    /\ \A n \in DOMAIN node : \A i, j \in 1 .. Len(node[n].kids) :
         node[node[n].kids[i]].key = node[node[n].kids[j]].key => i = j
=============================================================================
